--------------------------- MODULE Decommission ---------------------------
(***************************************************************************)
(* The deletion of an entity by `python -m kaine.lifecycle`                *)
(* (kaine/lifecycle/__main__.py, decommission.py), run again until it is   *)
(* told to be done, beside the trainer services on the jobs volume: the    *)
(* cancellation of the entity's jobs, the backup, the confirmations, the   *)
(* Qdrant collections, the Redis streams, the files in the order of the    *)
(* location registry, and the audit record.  Any removal may fail, and the *)
(* process may be killed between any two steps.                            *)
(***************************************************************************)
EXTENDS VoiceJobs, Sequences

CONSTANTS
  Colls,        \* the entity's memory collections in Qdrant
  MaxFailures,  \* bound on steps that fail and confirmations that are declined
  MaxKills      \* bound on kills of the process

(* The locations on disk in the order of their removal: the mind stands for *)
(* what gate 2.5 looks into of those before the identity (the self model,   *)
(* language, adapters, world model and the evidence of the individuation),  *)
(* the memory for the rest of them (the memory's database, the progress of  *)
(* the development, the checkpoint); the works stand for the lock beside    *)
(* the identity, the files, the archive and what a run leaves, the volumes  *)
(* for the entity's directories in the two shared volumes.                  *)
Order == <<"mind", "memory", "identity", "works", "volumes", "perception", "forks">>
Subtrees == {"mind", "perception", "forks"}

Disk == {Order[i] : i \in DOMAIN Order}
Meta == {"stamp", "strength"}
Remote == Colls \cup Meta \cup {"streams"}
Entity == Disk \cup Remote
Backed == Colls \cup (Disk \ {"perception"})
ByIdentity == {"volumes", "forks"}

ASSUME DecommissionAssumption ==
  /\ {MaxFailures, MaxKills} \subseteq Nat
  /\ Colls \cap (Disk \cup Meta \cup {"streams"}) = {}

VARIABLES
  step,      \* the step of the run: "idle", "cancel1", "copy", "ask", "cancel2",
             \* "drop", "stamp", "redis", "disk", "removing", "audit"
  asserted,  \* this run: is the trainer asserted to be stopped?
  cancel,    \* this cancellation: jobs seen, the one waited for, those given up on
  left,      \* what is still in place, in whole or in part
  whole,     \* what has not been touched
  untried,   \* this run: collections not yet tried
  at,        \* this run: place in Order
  owned,     \* this run: is there an identity to attribute locations by?
  failed,    \* this run: where something failed
  saved,     \* what some bundle holds whole
  audit,     \* "deleted" when the audit log reports the entity deleted; a deletion
             \* reported incomplete stays "none"
  failures, kills,
  torn,      \* history: a file was not removed, or a run was killed among the files
  raced      \* history: jobs taken up after this cancellation had passed them

contents == <<left, whole>>
jobsPart == <<asserted, cancel, raced>>
bounds == <<failures, kills, torn>>
cli == <<step, jobsPart, contents, untried, at, owned, failed, saved, audit, bounds>>
decommissionVars == <<volume, cli>>

Unbegun == [seen |-> {}, on |-> NoJob, stuck |-> {}]

DecommissionTypeOK ==
  /\ VolumeTypeOK
  /\ step \in {"idle", "cancel1", "copy", "ask", "cancel2", "drop", "stamp", "redis",
                "disk", "removing", "audit"}
  /\ asserted \in BOOLEAN
  /\ cancel \in [seen : SUBSET Jobs, on : Jobs \cup {NoJob}, stuck : SUBSET Jobs]
  /\ whole \subseteq left /\ left \subseteq Entity
  /\ untried \subseteq Colls /\ at \in 1 .. Len(Order) + 1 /\ owned \in BOOLEAN
  /\ failed \subseteq {"coll", "qdrant", "redis", "disk"}
  /\ saved \subseteq Backed /\ audit \in {"none", "deleted"}
  /\ failures \in 0 .. MaxFailures /\ kills \in 0 .. MaxKills
  /\ torn \in BOOLEAN /\ raced \subseteq Jobs

DecommissionInit ==
  /\ VolumeInit
  /\ step = "idle" /\ left = Entity /\ whole = Entity
  /\ asserted = FALSE /\ cancel = Unbegun /\ raced = {}
  /\ untried = {} /\ at = 1 /\ owned = FALSE /\ failed = {}
  /\ saved = {} /\ audit = "none" /\ failures = 0 /\ kills = 0 /\ torn = FALSE

(* However a run ends, what it knew is gone with it. *)
EndRun ==
  /\ step' = "idle" /\ asserted' = FALSE /\ cancel' = Unbegun /\ raced' = {}
  /\ untried' = {} /\ at' = 1 /\ owned' = FALSE /\ failed' = {}

StepFails == failures < MaxFailures /\ failures' = failures + 1
NothingFails == UNCHANGED <<failures, torn>>
-----------------------------------------------------------------------------
(* The entity and the services. *)

Elsewhere ==
  /\ OnTheVolume
  /\ raced' = raced \cup
       {j \in cancel.seen : job[j].mark = "READY" /\ job'[j].mark = "CLAIMED"}
  /\ UNCHANGED <<step, asserted, cancel, contents, untried, at, owned, failed, saved, audit,
                 bounds>>

(* The entity is started between two runs that deleted nothing; that it may *)
(* be started during a run is left out.                                     *)
Start == step = "idle" /\ whole = Entity /\ Boot /\ UNCHANGED cli
-----------------------------------------------------------------------------
(* The gates and the cancellation of the jobs. *)

(* What gate 2.5 looks for. *)
Present == left \cap Subtrees # {}

(* Mutant: a tree without its identity is refused. *)
MayRun_Identified == Present /\ "identity" \in left

MayRun == Present

Begin(trainerStopped) ==
  /\ step = "idle" /\ audit # "deleted" /\ MayRun /\ cyc = "off"
  /\ trainerStopped => \A s \in Services : svc[s].pc = "look"
  /\ step' = "cancel1" /\ asserted' = trainerStopped
  /\ owned' = ("identity" \in left) /\ untried' = Colls
  /\ UNCHANGED <<volume, cancel, raced, at, failed, contents, saved, audit, bounds>>

Cancelling == step \in {"cancel1", "cancel2"}
Unseen == IF owned THEN {j \in Jobs : Here(j)} \ cancel.seen ELSE {}
Deciding == <<asserted, contents, untried, at, owned, failed, saved, audit, bounds, raced>>

(* cancel_voice_alignment_jobs: a job with a result is passed over, any    *)
(* other cancelled, and waited for when it is claimed.                     *)
CancelJob ==
  /\ Cancelling /\ cancel.on = NoJob /\ Unseen # {}
  /\ LET j == Least(Unseen)
     IN  IF job[j].result # "none"
         THEN cancel' = [cancel EXCEPT !.seen = @ \cup {j}] /\ UNCHANGED job
         ELSE /\ cancel' = [cancel EXCEPT !.on = j]
              /\ job' = [job EXCEPT ![j].cancelled = TRUE]
  /\ UNCHANGED <<cycle, svc, crashes, step, Deciding>>

Passed == [cancel EXCEPT !.seen = @ \cup {cancel.on}, !.on = NoJob]

(* Mutant: a claimed job is not waited for. *)
Settled_AtOnce(j) == TRUE

Settled(j) == job[j].mark = "CLAIMED" => job[j].result # "none"

CancelSettled ==
  /\ Cancelling /\ cancel.on # NoJob /\ Settled(cancel.on) /\ cancel' = Passed
  /\ UNCHANGED <<volume, step, Deciding>>

(* The wait for a claimed job runs out, at once when the trainer is asserted *)
(* to be stopped.                                                           *)
CancelStuck ==
  /\ Cancelling /\ cancel.on # NoJob /\ ~Settled(cancel.on)
  /\ cancel' = [Passed EXCEPT !.stuck = @ \cup {cancel.on}]
  /\ UNCHANGED <<volume, step, Deciding>>

Cancelled ==
  /\ Cancelling /\ cancel.on = NoJob /\ Unseen = {}
  /\ IF cancel.stuck # {} /\ ~asserted
     THEN EndRun /\ UNCHANGED <<contents, saved, audit, bounds>>
     ELSE /\ step' = (IF step = "cancel1" THEN "copy" ELSE "drop")
          /\ UNCHANGED <<cancel, Deciding>>
  /\ UNCHANGED volume
-----------------------------------------------------------------------------
(* The backup and the confirmations. *)

(* The volumes and the snapshots are told by the identity. *)
Captured == {i \in whole \cap Backed : i \in ByIdentity => owned}

Capture ==
  /\ step = "copy" /\ step' = "ask" /\ saved' = saved \cup Captured
  /\ UNCHANGED <<volume, jobsPart, contents, untried, at, owned, failed, audit, bounds>>

(* A bundle that cannot be completed is purged and nothing is deleted; the *)
(* same is true of an operator who declines.                               *)
NotDeleted ==
  /\ step \in {"copy", "ask"} /\ StepFails /\ EndRun
  /\ UNCHANGED <<volume, contents, saved, audit, kills, torn>>

(* The confirmations take as long as the operator does; then the jobs are  *)
(* cancelled again.                                                        *)
Confirm ==
  /\ step = "ask" /\ step' = "cancel2" /\ cancel' = Unbegun /\ raced' = {}
  /\ UNCHANGED <<volume, asserted, contents, untried, at, owned, failed, saved, audit,
                 bounds>>
-----------------------------------------------------------------------------
(* The remote stores. *)

Deleting == <<volume, jobsPart, at, owned, saved, audit, kills, torn>>

(* What exists cannot be read: no collection is touched. *)
ProbeFails ==
  /\ step = "drop" /\ untried = Colls /\ StepFails /\ step' = "redis"
  /\ failed' = failed \cup {"qdrant"}
  /\ UNCHANGED <<contents, untried, Deleting>>

DropCollection(c) ==
  /\ step = "drop" /\ c \in untried /\ untried' = untried \ {c}
  /\ left' = left \ {c} /\ whole' = whole \ {c}
  /\ NothingFails /\ UNCHANGED <<step, failed, Deleting>>

(* A drop that raises may have landed. *)
DropFails(c) ==
  /\ step = "drop" /\ c \in untried \cap left /\ untried' = untried \ {c} /\ StepFails
  /\ failed' = failed \cup {"coll"}
  /\ \/ UNCHANGED contents
     \/ left' = left \ {c} /\ whole' = whole \ {c}
  /\ UNCHANGED <<step, Deleting>>

Dropped ==
  /\ step = "drop" /\ untried = {} /\ step' = "stamp"
  /\ NothingFails /\ UNCHANGED <<contents, untried, failed, Deleting>>

(* The strengths of surviving collections depend on their record. *)
MetaToDrop == IF "coll" \in failed THEN {"stamp"} ELSE Meta

DropMeta ==
  /\ step = "stamp" /\ step' = "redis"
  /\ left' = left \ MetaToDrop /\ whole' = whole \ MetaToDrop
  /\ NothingFails /\ UNCHANGED <<untried, failed, Deleting>>

MetaFails ==
  /\ step = "stamp" /\ step' = "redis" /\ StepFails /\ failed' = failed \cup {"qdrant"}
  /\ UNCHANGED <<contents, untried, Deleting>>

(* Mutant: only Qdrant keeps the files in place. *)
RemoteFailed_QdrantOnly(where) == where \cap {"coll", "qdrant"} # {}

RemoteFailed(where) == where # {}

ClearStreams ==
  /\ step = "redis"
  /\ \/ /\ NothingFails /\ failed' = failed
        /\ left' = left \ {"streams"} /\ whole' = whole \ {"streams"}
     \/ StepFails /\ failed' = failed \cup {"redis"} /\ UNCHANGED contents
  /\ step' = IF RemoteFailed(failed') THEN "audit" ELSE "disk"
  /\ UNCHANGED <<untried, Deleting>>
-----------------------------------------------------------------------------
(* The files, location by location. *)

Location == Order[at]
Lies == Location \in left \/ (Location = "volumes" /\ \E j \in Jobs : Here(j))
Removable == Lies /\ (Location \in ByIdentity => owned)

Files == <<cycle, svc, crashes, jobsPart, untried, owned, saved, audit, kills>>

(* Already removed, or kept because it cannot be attributed. *)
Pass ==
  /\ step = "disk" /\ at <= Len(Order) /\ ~Removable /\ at' = at + 1
  /\ NothingFails /\ UNCHANGED <<step, job, contents, failed, Files>>

Remove ==
  /\ step = "disk" /\ at <= Len(Order) /\ Removable /\ step' = "removing"
  /\ whole' = whole \ {Location}
  /\ NothingFails /\ UNCHANGED <<job, left, at, failed, Files>>

(* The jobs go with the directory they are in. *)
Gone(js) ==
  job' = [j \in Jobs |-> IF Here(j) /\ j \in js THEN [Absent EXCEPT !.at = "gone"] ELSE job[j]]

Removed ==
  /\ step = "removing" /\ step' = "disk" /\ at' = at + 1
  /\ left' = left \ {Location}
  /\ IF Location = "volumes" THEN Gone(Jobs) ELSE UNCHANGED job
  /\ NothingFails /\ UNCHANGED <<whole, failed, Files>>

(* What gate 2.5 and a backup would see of it may be gone all the same. *)
RemoveFails ==
  /\ step = "removing" /\ step' = "disk" /\ at' = at + 1
  /\ left' \in {left, left \ {Location}}
  /\ IF Location = "volumes" THEN \E js \in SUBSET Jobs : Gone(js) ELSE UNCHANGED job
  /\ StepFails /\ failed' = failed \cup {"disk"} /\ torn' = TRUE
  /\ UNCHANGED <<whole, Files>>

AllTried ==
  /\ step = "disk" /\ at > Len(Order) /\ step' = "audit"
  /\ NothingFails /\ UNCHANGED <<job, contents, at, failed, Files>>

WriteAudit ==
  /\ step = "audit" /\ EndRun
  /\ audit' = IF failed = {} THEN "deleted" ELSE audit
  /\ UNCHANGED <<volume, contents, saved, bounds>>
-----------------------------------------------------------------------------
KillCli ==
  /\ step # "idle" /\ kills < MaxKills /\ kills' = kills + 1 /\ EndRun
  /\ torn' = (torn \/ ~(Disk \subseteq whole))
  /\ UNCHANGED <<volume, contents, saved, audit, failures>>

Step ==
  \/ CancelJob \/ CancelSettled \/ CancelStuck \/ Cancelled
  \/ Capture \/ NotDeleted \/ Confirm
  \/ ProbeFails \/ Dropped \/ DropMeta \/ MetaFails \/ ClearStreams
  \/ \E c \in Colls : DropCollection(c) \/ DropFails(c)
  \/ Pass \/ Remove \/ Removed \/ RemoveFails \/ AllTried \/ WriteAudit

DecommissionNext == Elsewhere \/ Start \/ (\E b \in BOOLEAN : Begin(b)) \/ Step \/ KillCli

(* A service that is up goes on and one that went down is started again.   *)
(* A run goes on until it ends or is killed; the operator runs it again    *)
(* until it reports the entity deleted or refuses for want of an entity,   *)
(* and asserts that the trainer is stopped when it is, as a run that is    *)
(* refused tells it to.                                                    *)
DecommissionFairness ==
  /\ \A s \in Services : WF_decommissionVars(Serve(s) /\ Elsewhere)
  /\ WF_decommissionVars(Step) /\ WF_decommissionVars(Begin(FALSE))
  /\ SF_decommissionVars(Begin(TRUE))

DecommissionSpec ==
  DecommissionInit /\ [][DecommissionNext]_decommissionVars /\ DecommissionFairness
-----------------------------------------------------------------------------
(* Properties. *)

(* Nothing of the entity that a backup is owed to is touched before one    *)
(* backup holds it whole; the files, the handle to run again by, before    *)
(* both remote stores are clear; the log gain that strengths depend on,    *)
(* before every collection of them.                                        *)
TouchedInOrder ==
  /\ Backed \ whole \subseteq saved
  /\ Disk \subseteq whole \/ left \cap Remote = {}
  /\ "strength" \in left \/ left \cap Colls = {}

(* What is reported deleted is gone, but for what only an identity, that   *)
(* went in an earlier run, would have attributed.                          *)
ReportedGone == audit = "deleted" => left \subseteq ByIdentity

(* main, decommission.py: the deletion touches things in their order, and  *)
(* reports no more than it did, through runs that each find a part left.   *)
DeletedInOrder == TouchedInOrder /\ ReportedGone

(* A claimed job is there and its script runs or is about to. *)
Trains(s) == svc[s].pc \in {"device", "train"} /\ Here(svc[s].job)

(* A job's directory is removed only when nobody trains in it any more,    *)
(* unless a service took the job up behind the cancellation, or the        *)
(* operator asserted that none would.                                      *)
RemovedWhenDone ==
  [][Removed /\ Location = "volumes" /\ ~asserted =>
       \A s \in Services : Trains(s) => svc[s].job \in raced]_decommissionVars

(* Once a file could not be removed, or a run was killed among the files,  *)
(* gate 2.5 may find no more of the entity and refuse every further run,   *)
(* with what lies outside its subtrees left for good.                      *)
Stranded == torn /\ step = "idle" /\ ~Present

(* A deletion that has touched anything is reported done by running it     *)
(* again, over stores that fail, operators who decline, runs killed and    *)
(* services that work on the jobs; after trouble among the files too, for  *)
(* as long as gate 2.5 lets the deletion run.                              *)
Settles == (whole # Entity) ~> (audit = "deleted" \/ Stranded)
=============================================================================
