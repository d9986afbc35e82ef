----------------------------- MODULE VoiceJobs -----------------------------
(***************************************************************************)
(* The voice-alignment jobs of one entity on the trainer-jobs volume, and  *)
(* two of the three programs that meet there with files only: train() in   *)
(* the cycle (kaine/modules/sleep/job_queue_trainer.py) and the trainer    *)
(* services (trainer_service.py, with the script they run).  The third is  *)
(* Decommission.  Each write of a file another program looks at is a step  *)
(* of its own.                                                             *)
(***************************************************************************)
EXTENDS Naturals

CONSTANTS
  NJobs,        \* jobs the entity makes, in the order of their names
  Services,     \* the trainer services on the volume
  MaxCrashes     \* bound on kills of the cycle and crashes of services

ASSUME VoiceJobsAssumption == NJobs \in Nat \ {0} /\ MaxCrashes \in Nat

Jobs == 1 .. NJobs
NoJob == 0

VARIABLES
  cyc,    \* train(): "off" (no process), "idle", "spec" (directory made),
          \* "filled" (spec written), "polling", "promoting"
  task,   \* the job train() is about
  job,    \* the job directories
  svc,    \* the services: what each does, with which job, to what verdict
  store,  \* the adapter of a job as it was promoted into the entity's store
  crashes

volume == <<cyc, task, job, svc, store, crashes>>
cycle == <<cyc, task, store>>

(* READY is renamed to CLAIMED, so a job has one mark; the adapter is what *)
(* stands in the job's own output directory.                               *)
Job == [at : {"none", "dir", "gone"}, pairs : BOOLEAN,
        mark : {"none", "READY", "CLAIMED"}, cancelled : BOOLEAN,
        result : {"none", "early", "failed", "final"}, done : BOOLEAN,
        adapter : {"none", "staged", "partial", "gguf"}]

Absent == [at |-> "none", pairs |-> FALSE, mark |-> "none", cancelled |-> FALSE,
           result |-> "none", done |-> FALSE, adapter |-> "none"]

VolumeTypeOK ==
  /\ cyc \in {"off", "idle", "spec", "filled", "polling", "promoting"}
  /\ task \in Jobs \cup {NoJob} /\ job \in [Jobs -> Job]
  /\ svc \in [Services -> [pc : {"look", "found", "device", "train", "convert",
                                 "converting", "finish", "mark", "raised"},
                           job : Jobs \cup {NoJob}, ok : BOOLEAN]]
  /\ store \in [Jobs -> {"none", "partial", "gguf"}]
  /\ crashes \in 0 .. MaxCrashes

Working == [pc |-> "look", job |-> NoJob, ok |-> FALSE]

VolumeInit ==
  /\ cyc = "idle" /\ task = NoJob /\ job = [j \in Jobs |-> Absent]
  /\ svc = [s \in Services |-> Working] /\ store = [j \in Jobs |-> "none"]
  /\ crashes = 0

Least(S) == CHOOSE j \in S : \A i \in S : j <= i
Here(j) == job[j].at = "dir"
Scrubbed(r) == [r EXCEPT !.pairs = FALSE]
-----------------------------------------------------------------------------
(* train() of the cycle. *)

(* A new job; what earlier ones left in the clear is swept first. *)
Train ==
  /\ cyc = "idle" /\ \E j \in Jobs : job[j].at = "none"
  /\ LET new == Least({j \in Jobs : job[j].at = "none"})
     IN  /\ task' = new
         /\ job' = [j \in Jobs |-> IF j = new THEN [Absent EXCEPT !.at = "dir"]
                                   ELSE Scrubbed(job[j])]
  /\ cyc' = "spec"
  /\ UNCHANGED <<svc, store, crashes>>

WriteSpec ==
  /\ cyc = "spec" /\ Here(task) /\ cyc' = "filled"
  /\ job' = [job EXCEPT ![task].pairs = TRUE]
  /\ UNCHANGED <<task, svc, store, crashes>>

MakeReady ==
  /\ cyc = "filled" /\ Here(task) /\ cyc' = "polling"
  /\ job' = [job EXCEPT ![task].mark = "READY"]
  /\ UNCHANGED <<task, svc, store, crashes>>

(* However train() ends, its finally scrubs the inputs. *)
Return ==
  /\ cyc' = "idle" /\ task' = NoJob
  /\ UNCHANGED <<svc, store, crashes>>

(* The spec cannot be written, or the coroutine is cancelled. *)
Raise ==
  /\ cyc \in {"spec", "filled", "polling"}
  /\ job' = [job EXCEPT ![task] = Scrubbed(@)]
  /\ Return

(* Mutant: the result file is taken for the end of the job. *)
Finished_Result(j) == job[j].result # "none"

Finished(j) == Here(j) /\ job[j].done

Accepted(j) == job[j].result \in {"early", "final"}

SeeDone ==
  /\ cyc = "polling" /\ Finished(task)
  /\ job' = [job EXCEPT ![task] = Scrubbed(@)]
  /\ IF Accepted(task)
     THEN cyc' = "promoting" /\ UNCHANGED <<task, svc, store, crashes>>
     ELSE Return

(* Copied to the store when there is an adapter.gguf. *)
Promote ==
  /\ cyc = "promoting" /\ cyc' = "idle" /\ task' = NoJob
  /\ store' = IF Here(task) /\ job[task].adapter \in {"partial", "gguf"}
              THEN [store EXCEPT ![task] = job[task].adapter] ELSE store
  /\ UNCHANGED <<job, svc, crashes>>

(* The deadline trainer_timeout_s. *)
GiveUp ==
  /\ cyc = "polling" /\ ~Finished(task)
  /\ job' = [job EXCEPT ![task] = [Scrubbed(@) EXCEPT !.cancelled = Here(task)]]
  /\ Return

Stop ==
  /\ cyc = "idle" /\ cyc' = "off"
  /\ UNCHANGED <<task, job, svc, store, crashes>>

Kill ==
  /\ task # NoJob /\ crashes < MaxCrashes /\ crashes' = crashes + 1
  /\ cyc' = "off" /\ task' = NoJob
  /\ UNCHANGED <<job, svc, store>>

(* The trainer built at boot sweeps the entries of the volume itself, where *)
(* the directories of the entities are, not those of the jobs in them.     *)
Boot ==
  /\ cyc = "off" /\ cyc' = "idle"
  /\ UNCHANGED <<task, job, svc, store, crashes>>
-----------------------------------------------------------------------------
(* A trainer service. *)

IsReady(j) ==
  /\ Here(j) /\ job[j].mark = "READY" /\ ~job[j].cancelled /\ job[j].result = "none"

Enters(s, next) == svc' = [svc EXCEPT ![s].pc = next]
Ends(s, ok) == svc' = [svc EXCEPT ![s] = [@ EXCEPT !.pc = "finish", !.ok = ok]]

Look(s) ==
  /\ svc[s].pc = "look" /\ \E j \in Jobs : IsReady(j)
  /\ svc' = [svc EXCEPT ![s].pc = "found", ![s].job = Least({j \in Jobs : IsReady(j)})]
  /\ UNCHANGED <<cycle, job, crashes>>

Claimable(j) == Here(j) /\ job[j].mark = "READY"

Claim(s) ==
  LET j == svc[s].job
  IN  /\ svc[s].pc = "found"
      /\ IF Claimable(j)
         THEN job' = [job EXCEPT ![j].mark = "CLAIMED"] /\ Enters(s, "device")
         ELSE svc' = [svc EXCEPT ![s] = Working] /\ UNCHANGED job
      /\ UNCHANGED <<cycle, crashes>>

(* A file of the job is missing, or the device never comes free. *)
NotRun(s) ==
  /\ svc[s].pc = "device" /\ Ends(s, FALSE)
  /\ UNCHANGED <<cycle, job, crashes>>

Launch(s) ==
  LET j == svc[s].job
  IN  /\ svc[s].pc = "device" /\ Here(j) /\ job[j].pairs /\ Enters(s, "train")
      /\ UNCHANGED <<cycle, job, crashes>>

(* A veto, an error or the end of its time, with or without its result. *)
ScriptFails(s) ==
  LET j == svc[s].job
  IN  /\ svc[s].pc = "train" /\ Ends(s, FALSE)
      /\ \/ UNCHANGED job
         \/ Here(j) /\ job' = [job EXCEPT ![j].result = "failed"]
      /\ UNCHANGED <<cycle, crashes>>

(* The script stages its adapter, unless the job has been cancelled, and   *)
(* writes its own result; it makes the directories that are missing.       *)
ScriptEnds(s) ==
  LET j == svc[s].job
  IN  /\ svc[s].pc = "train" /\ ~job[j].cancelled /\ Enters(s, "convert")
      /\ job' = [job EXCEPT ![j] = [@ EXCEPT !.at = "dir", !.adapter = "staged", !.result = "early"]]
      /\ UNCHANGED <<cycle, crashes>>

Convert(s) ==
  LET j == svc[s].job
  IN  /\ svc[s].pc = "convert" /\ Here(j) /\ Enters(s, "converting")
      /\ job' = [job EXCEPT ![j].adapter = "partial"]
      /\ UNCHANGED <<cycle, crashes>>

Converted(s) ==
  LET j == svc[s].job
  IN  /\ svc[s].pc = "converting" /\ Here(j) /\ Ends(s, TRUE)
      /\ job' = [job EXCEPT ![j].adapter = "gguf"]
      /\ UNCHANGED <<cycle, crashes>>

ConvertFails(s) ==
  /\ svc[s].pc \in {"convert", "converting"} /\ Ends(s, FALSE)
  /\ UNCHANGED <<cycle, job, crashes>>

(* _finalize: the inputs, the result, then DONE; it raises when the        *)
(* directory is gone.                                                      *)
Finish(s) ==
  LET j == svc[s].job
  IN  /\ svc[s].pc = "finish"
      /\ IF Here(j)
         THEN /\ job' = [job EXCEPT ![j] =
                   [Scrubbed(@) EXCEPT !.result = IF svc[s].ok THEN "final" ELSE "failed"]]
              /\ Enters(s, "mark")
         ELSE Enters(s, "raised") /\ UNCHANGED job
      /\ UNCHANGED <<cycle, crashes>>

MarkDone(s) ==
  LET j == svc[s].job
  IN  /\ svc[s].pc = "mark"
      /\ IF Here(j)
         THEN /\ job' = [job EXCEPT ![j].done = TRUE]
              /\ svc' = [svc EXCEPT ![s] = Working]
         ELSE Enters(s, "raised") /\ UNCHANGED job
      /\ UNCHANGED <<cycle, crashes>>

(* The container starts the service again; a claimed job stays claimed. *)
Restart(s) ==
  /\ svc[s].pc = "raised" /\ svc' = [svc EXCEPT ![s] = Working]
  /\ UNCHANGED <<cycle, job, crashes>>

Crash(s) ==
  /\ svc[s].pc \notin {"look", "raised"} /\ crashes < MaxCrashes /\ crashes' = crashes + 1
  /\ svc' = [svc EXCEPT ![s] = Working]
  /\ UNCHANGED <<cycle, job>>

Serve(s) ==
  \/ Look(s) \/ Claim(s) \/ NotRun(s) \/ Launch(s) \/ ScriptFails(s) \/ ScriptEnds(s)
  \/ Convert(s) \/ Converted(s) \/ ConvertFails(s) \/ Finish(s) \/ MarkDone(s) \/ Restart(s)
-----------------------------------------------------------------------------
Trainer == Train \/ WriteSpec \/ MakeReady \/ Raise \/ SeeDone \/ Promote \/ GiveUp

OnTheVolume == Trainer \/ Stop \/ Kill \/ \E s \in Services : Serve(s) \/ Crash(s)
-----------------------------------------------------------------------------
(* Properties. *)

(* What is promoted into the entity's store is a whole adapter, not one    *)
(* that a service is still converting although the script's own result     *)
(* accepts it already, or that a second service works on.                  *)
PromotedWhole == \A j \in Jobs : store[j] # "partial"
=============================================================================
