------------------------------- MODULE Sleep -------------------------------
(***************************************************************************)
(* The sleep module of kaine/modules/sleep/module.py over a whole life of  *)
(* an entity: what starts a sleep, the pipeline that runs it, the state    *)
(* cycle of the developmental phase, the perceptual locus, and how all of  *)
(* it survives a cut: a restart by the supervisor, a clean stop or a crash *)
(* of the process, with the resume checkpoint of                           *)
(* kaine/lifecycle/resume_checkpoint.py in between.  Time is entity time   *)
(* in whole units, one per poll; frozen time is no time here, as the code  *)
(* subtracts it.                                                           *)
(***************************************************************************)
EXTENDS Integers

CONSTANTS
  Awake,       \* T_act: entity time awake between two rests of the state cycle
  Rest,        \* developmental_rest_s: entity time a held rest takes
  Cuts,        \* what may cut a life: "restart" by the supervisor, of this module
               \* or of another, "stop" or "crash" of the process
  MaxTroubles  \* bound on the cuts and the failing publishes and pipelines together

ASSUME SleepAssumption ==
  /\ {Awake, Rest} \subseteq Nat \ {0} /\ MaxTroubles \in Nat
  /\ Cuts \subseteq {"restart", "stop", "crash"}

VARIABLES
  feed,       \* is a virtual perception feed configured?  Never changed
  developing, \* the stage: is the entity in the developmental phase?
  proc,       \* "up", "restarting" (module cut, being rebuilt), "final" (final
              \* checkpoint done), "stopping" (modules being shut down), "down"
  wired,      \* the development probe has been wired since boot
  st,         \* the sleep: "none", "pending", "asleep", "waking" (the hold is
              \* over), "closing" (completed is being published), "published"
  held,       \* _holds_cycle_rest of what started it
  result,     \* how it ended: "ok", "error" or "cut"
  phase, awake, spent, \* _cycle_phase, _cycle_awake_s, _cycle_rest_spent_s
  elapsed,    \* _rest_elapsed of the running rest
  resume,     \* _cycle_resume_spent_s
  desired,    \* the desired locus on disk, "on" for "physical" and "virtual"
  pre,        \* _pre_sleep_locus, "none" when nothing is remembered
  ckpt,       \* the state cycle in the resume checkpoint on disk
  marked,     \* _rest_marked of the checkpointer
  lastGood,   \* the state cycle in the last_good snapshot of a module's incident
  told,       \* what the last event said to the other modules
  failures, cuts,
  wanted,     \* history: the locus as last set while no sleep ran
  darkened,   \* history: a crash left the locus at "off"
  stretch,    \* history: time awake since the last completed sleep, up to Awake
  rested,     \* history: time the rest under way was asleep, up to Rest
              \* and one more when it was over after that
  misled      \* history: a stale checkpoint was left, or a stale last_good restored

config == <<feed, developing, wired>>
sleep == <<st, held, result, elapsed, resume>>
cycle == <<phase, awake, spent>>
senses == <<desired, pre, wanted, darkened>>
rolling == <<ckpt, marked>>
files == <<rolling, lastGood>>
bounds == <<failures, cuts>>
history == <<stretch, rested, misled>>
sleepVars == <<config, proc, sleep, cycle, senses, files, told, bounds, history>>

Least(a, b) == IF a < b THEN a ELSE b

Entries == [phase : {"awake"}, awake : 0 .. Awake, spent : {0}]
           \cup [phase : {"resting"}, awake : {0}, spent : 0 .. Rest]
NoEntry == [phase |-> "none"]

SleepTypeOK ==
  /\ feed \in BOOLEAN /\ developing \in BOOLEAN /\ wired \in BOOLEAN
  /\ proc \in {"up", "restarting", "final", "stopping", "down"}
  /\ st \in {"none", "pending", "asleep", "waking", "closing", "published"}
  /\ held \in BOOLEAN /\ result \in {"ok", "error", "cut"}
  /\ phase \in {"awake", "resting"} /\ awake \in 0 .. Awake /\ spent \in 0 .. Rest
  /\ elapsed \in 0 .. Rest /\ resume \in 0 .. Rest
  /\ desired \in {"on", "off"} /\ wanted \in {"on", "off"} /\ pre \in {"on", "off", "none"}
  /\ {ckpt, lastGood} \subseteq Entries \cup {NoEntry} /\ marked \in BOOLEAN
  /\ told \in {"awake", "asleep"} /\ darkened \in BOOLEAN /\ misled \in BOOLEAN
  /\ {failures, cuts} \subseteq 0 .. MaxTroubles
  /\ stretch \in 0 .. Awake /\ rested \in 0 .. Rest + 1

SleepInit ==
  /\ feed \in BOOLEAN /\ developing \in BOOLEAN /\ wired = FALSE
  /\ proc = "up" /\ st = "none" /\ held = FALSE /\ result = "ok"
  /\ phase = "awake" /\ awake = 0 /\ spent = 0 /\ elapsed = 0 /\ resume = 0
  /\ desired = "on" /\ wanted = "on" /\ pre = "none"
  /\ ckpt = NoEntry /\ marked = FALSE /\ lastGood = NoEntry /\ told = "awake"
  /\ failures = 0 /\ cuts = 0
  /\ darkened = FALSE /\ stretch = 0 /\ rested = 0 /\ misled = FALSE

Alive == proc \in {"up", "final"}
Locked == st \in {"asleep", "waking", "closing", "published"} \* is_sleeping
Busy == st # "none"                                            \* locked or pending

(* _developing(): known only once the probe is wired. *)
InDevelopment == wired /\ developing
Matured == wired /\ ~developing

(* While the development holder locks the locus, a write of another holder *)
(* changes nothing.                                                        *)
Pinned == feed /\ developing
Written(l) == IF Pinned THEN desired ELSE l

CycleReset == phase' = "awake" /\ awake' = 0 /\ spent' = 0
-----------------------------------------------------------------------------
(* What starts a sleep. *)

Start(holds, from) ==
  /\ st' = "pending" /\ held' = holds /\ resume' = from
  /\ UNCHANGED <<result, elapsed>>

(* A unit of entity time; none passes while the supervisor's freeze stands. *)
IsPaused == lastGood # NoEntry
Unit == IF IsPaused THEN 0 ELSE 1

Pass ==
  /\ Alive
  /\ rested' = IF held /\ st = "asleep" /\ rested < Rest THEN rested + Unit ELSE rested
  /\ stretch' = IF Locked THEN stretch ELSE Least(stretch + Unit, Awake)
  /\ UNCHANGED <<config, proc, senses, files, told, bounds, misled>>

AwakeTicked ==
  IF InDevelopment /\ phase = "awake" /\ ~Busy THEN Least(awake + Unit, Awake) ELSE awake

CycleTick ==
  IF Matured THEN CycleReset ELSE awake' = AwakeTicked /\ UNCHANGED <<phase, spent>>

RestDue == InDevelopment /\ phase = "awake" /\ AwakeTicked >= Awake

(* Mutant: only a rest that had begun to count is resumed. *)
ResumeDue_WhenSpent == InDevelopment /\ phase = "resting" /\ spent > 0

ResumeDue == InDevelopment /\ phase = "resting"

PollQuiet ==
  /\ Busy \/ ~(RestDue \/ ResumeDue)
  /\ Pass /\ CycleTick
  /\ elapsed' = IF held /\ st = "asleep" THEN Least(elapsed + Unit, Rest) ELSE elapsed
  /\ UNCHANGED <<st, held, result, resume>>

PollRest == ~Busy /\ RestDue /\ Pass /\ CycleTick /\ Start(TRUE, 0)

PollResume == ~Busy /\ ResumeDue /\ Pass /\ CycleTick /\ Start(TRUE, spent)

(* RestScheduler.is_due(), at any time: the length of its interval is left *)
(* open, and so are its deferral and its carrying over a restart.          *)
PollBackstop == ~Busy /\ Matured /\ Pass /\ CycleTick /\ Start(FALSE, resume)

Poll == PollQuiet \/ PollRest \/ PollResume \/ PollBackstop

Asked(holds) ==
  /\ Alive /\ ~Busy
  /\ Start(holds, resume)
  /\ UNCHANGED <<config, proc, cycle, senses, files, told, bounds, history>>

(* Fatigue starts no sleep in the developmental phase. *)
Fatigue == ~InDevelopment /\ Asked(FALSE)

(* A request of the homeostatic regulator or of the affect module always   *)
(* does, and one of the entity itself unless it is refused as too soon.    *)
RestRequest == Asked(FALSE)

(* The welfare net's request brings the rest of the state cycle forward. *)
WelfareRequest == Asked(InDevelopment)
-----------------------------------------------------------------------------
(* The pipeline. *)

(* Senses off, the locus remembered on the first suspend. *)
Suspend ==
  /\ pre' = IF pre = "none" THEN desired ELSE pre
  /\ desired' = Written("off")
  /\ UNCHANGED <<wanted, darkened>>

(* Mutant: the remainder is not consumed by the rest that resumes it. *)
ResumeLeft_Kept(from) == from

ResumeLeft(from) == 0

(* A held rest is clocked from what was already spent; one that begins     *)
(* with none owed or after one that is over is a new one for the history.  *)
BeginRest ==
  IF held THEN /\ elapsed' = Least(resume, Rest) /\ resume' = ResumeLeft(resume)
               /\ rested' = IF rested > Rest \/ (phase = "awake" /\ resume = 0) THEN 0 ELSE rested
          ELSE UNCHANGED <<elapsed, resume, rested>>

(* What begins or ends after the final checkpoint does not reach it. *)
PastCheckpoint == misled' = (misled \/ proc = "final")

(* The lock is taken and sleep.sleep.started goes out. *)
Begin ==
  /\ Alive /\ st = "pending" /\ st' = "asleep"
  /\ Suspend /\ BeginRest
  /\ IF held THEN phase' = "resting" /\ spent' = Least(resume, Rest) /\ UNCHANGED awake
             ELSE UNCHANGED cycle
  /\ told' = "asleep"
  /\ PastCheckpoint
  /\ UNCHANGED <<config, proc, held, result, files, bounds, stretch>>

Bounded == failures + cuts < MaxTroubles

SleepFault == Bounded /\ failures' = failures + 1 /\ UNCHANGED cuts

(* The publish of started raises, landed or not: the sleep is aborted, and *)
(* a failed rest starts the awake stretch over.                            *)
BeginFails ==
  /\ SleepFault
  /\ Alive /\ st = "pending" /\ st' = "closing" /\ result' = "error"
  /\ Suspend /\ BeginRest
  /\ IF held THEN CycleReset ELSE UNCHANGED cycle
  /\ told' \in {told, "asleep"}
  /\ PastCheckpoint
  /\ UNCHANGED <<config, proc, held, files, stretch>>

(* The hold of a rest is over: a fresh awake stretch. *)
HoldEnds ==
  /\ Alive /\ st = "asleep" /\ held /\ elapsed >= Rest
  /\ st' = "waking" /\ CycleReset
  /\ rested' = (IF rested = Rest THEN Rest + 1 ELSE rested) /\ PastCheckpoint
  /\ UNCHANGED <<config, proc, held, result, elapsed, resume, senses, files, told, bounds,
                 stretch>>

(* Any completed sleep restarts the awake stretch, unless a rest is owed. *)
AfterSleep == IF ~held /\ phase = "awake" THEN CycleReset ELSE UNCHANGED cycle

(* The phases, the housekeeping and the affective reset are done. *)
Wake ==
  /\ Alive
  /\ st = "waking" \/ (st = "asleep" /\ ~held)
  /\ st' = "closing" /\ result' = "ok"
  /\ AfterSleep /\ stretch' = 0
  /\ PastCheckpoint
  /\ UNCHANGED <<config, proc, held, elapsed, resume, senses, files, told, bounds, rested>>

(* The pipeline raises: a failed rest starts the awake stretch over. *)
Fail ==
  /\ SleepFault
  /\ Alive /\ st \in {"asleep", "waking"}
  /\ st' = "closing" /\ result' = "error"
  /\ IF held /\ phase = "resting" THEN CycleReset ELSE UNCHANGED cycle
  /\ PastCheckpoint
  /\ UNCHANGED <<config, proc, held, elapsed, resume, senses, files, told, stretch, rested>>

(* sleep.sleep.completed goes out. *)
Publish ==
  /\ st = "closing" /\ st' = "published" /\ told' = "awake"
  /\ UNCHANGED <<config, proc, held, result, elapsed, resume, cycle, senses, files, bounds,
                 history>>

(* The publish raises, landed or not: the completion of a finished sleep   *)
(* is published again as an aborted one, that one once only.               *)
PublishFails ==
  /\ SleepFault
  /\ st = "closing"
  /\ IF result = "ok" THEN st' = st /\ result' = "error"
                      ELSE st' = "published" /\ UNCHANGED result
  /\ told' \in {told, "awake"}
  /\ UNCHANGED <<config, proc, held, elapsed, resume, cycle, senses, files, history>>

(* Mutant: what was remembered is kept for the next sleep. *)
Forget_Keeps == UNCHANGED pre

Forget == pre' = "none"

(* The senses are restored, the lock and the pending flag released. *)
End ==
  /\ st = "published" /\ st' = "none"
  /\ desired' = Written(IF pre = "none" THEN "on" ELSE pre) /\ Forget
  /\ held' = FALSE /\ result' = "ok" /\ elapsed' = 0
  /\ UNCHANGED <<config, proc, resume, cycle, wanted, darkened, files, told, bounds, history>>
-----------------------------------------------------------------------------
(* Cuts. *)

Cutting(kind) == kind \in Cuts /\ Bounded /\ cuts' = cuts + 1 /\ UNCHANGED failures

(* shutdown() of the module: the sleep task is cancelled.  A task that has *)
(* not begun leaves nothing; a rest still resting keeps its remainder; a   *)
(* cancelled publish of completed may have landed and is made up for by    *)
(* that of an aborted one.                                                 *)
Cancel ==
  /\ spent' = IF st = "asleep" /\ held /\ phase = "resting" THEN elapsed ELSE spent
  /\ \/ st \in {"none", "pending"} /\ st' = "none" /\ held' = FALSE
        /\ UNCHANGED <<result, told>>
     \/ st \in {"asleep", "waking"} /\ st' = "closing" /\ result' = "cut"
        /\ UNCHANGED <<held, told>>
     \/ st \in {"closing", "published"} /\ result = "ok" /\ st' = "closing" /\ result' = "cut"
        /\ told' \in {told, "awake"} /\ UNCHANGED held
     \/ st \in {"closing", "published"} /\ result # "ok"
        /\ UNCHANGED <<st, held, result, told>>
  /\ UNCHANGED <<elapsed, resume, phase, awake>>

(* serialize: what a rest under way has spent, or the awake stretch. *)
Export ==
  IF phase = "resting"
    THEN [phase |-> "resting", awake |-> 0,
          spent |-> IF st = "asleep" /\ held THEN elapsed ELSE spent]
    ELSE [phase |-> "awake", awake |-> awake, spent |-> 0]

(* deserialize: a rest that had already run its length is over. *)
Restore(entry) ==
  IF entry.phase = "resting" /\ entry.spent < Rest
    THEN phase' = "resting" /\ awake' = 0 /\ spent' = entry.spent
    ELSE phase' = "awake" /\ awake' = entry.awake /\ spent' = 0

(* Entries that say less than what has happened: a stretch that a sleep has *)
(* ended, a rest that is over or of which more was slept.                   *)
StretchStale(entry) == entry.phase = "awake" /\ entry.awake > stretch
RestStale(entry) == entry.phase = "resting" /\ (rested > Rest \/ rested < entry.spent)

(* In the course of a unit of a rest, what it has spent is one less than at *)
(* the end of it: the rest may be over before the freeze is seen.           *)
Exports == {Export, [Export EXCEPT !.spent = IF @ = 0 THEN 0 ELSE @ - 1]}

(* The supervisor freezes for an incident of a module, this one or another, *)
(* and takes a snapshot of them all before its first attempt.  The attempts *)
(* of an incident are one here.                                             *)
Incident ==
  /\ proc = "up" /\ wired /\ ~IsPaused /\ Cutting("restart")
  /\ lastGood' \in Exports
  /\ UNCHANGED <<config, proc, sleep, cycle, senses, rolling, told, history>>

(* It is over with an attempt that does not reach this module. *)
IncidentOver ==
  /\ proc = "up" /\ IsPaused /\ lastGood' = NoEntry
  /\ UNCHANGED <<config, proc, sleep, cycle, senses, rolling, told, bounds, history>>

(* A rebuild ends with the restore of last_good into every module.  Under  *)
(* a hold just over, an awake stretch from before it is stale as well.     *)
RestoreLastGood ==
  /\ IsPaused /\ Restore(lastGood)
  /\ misled' = (misled \/ StretchStale(lastGood) \/ RestStale(lastGood)
                       \/ (st = "waking" /\ lastGood.awake > 0))

(* The supervisor shuts the module down to rebuild it. *)
Restart ==
  /\ proc = "up" /\ IsPaused /\ proc' = "restarting"
  /\ Cancel
  /\ UNCHANGED <<config, senses, files, bounds, history>>

(* The state is carried into the new module, which is wired again; then    *)
(* last_good is restored over it, if it was taken and can be restored.     *)
Rebuild ==
  /\ proc = "restarting" /\ st = "none" /\ proc' = "up"
  /\ (Restore(Export) /\ UNCHANGED misled) \/ RestoreLastGood
  /\ resume' = 0 /\ lastGood' = NoEntry
  /\ UNCHANGED <<config, st, held, result, elapsed, senses, rolling, told, bounds, stretch,
                 rested>>

(* Another module is rebuilt: last_good is restored into this one as it runs. *)
RebuildOther ==
  /\ proc = "up" /\ RestoreLastGood /\ lastGood' = NoEntry
  /\ UNCHANGED <<config, proc, sleep, senses, rolling, told, bounds, stretch, rested>>

(* Boot wires the probe after the modules are up. *)
WireProbe ==
  /\ proc = "up" /\ ~wired /\ wired' = TRUE
  /\ UNCHANGED <<feed, developing, proc, sleep, cycle, senses, files, told, bounds, history>>

PerceiveFeed ==
  IF feed THEN desired' = "on" /\ wanted' = "on" /\ darkened' = FALSE
          ELSE UNCHANGED <<desired, wanted, darkened>>

(* The maturation gate ends the phase and the hold on the locus. *)
Mature ==
  /\ proc = "up" /\ InDevelopment /\ developing' = FALSE
  /\ PerceiveFeed
  /\ UNCHANGED <<feed, wired, proc, sleep, cycle, pre, files, told, bounds, history>>

(* The operator or the entity moves the locus; a move made during a sleep  *)
(* is undone by the restore at its end.                                    *)
MoveLocus(l) ==
  /\ proc = "up" /\ ~Pinned /\ l # desired /\ desired' = l
  /\ IF Locked THEN UNCHANGED <<wanted, darkened>> ELSE wanted' = l /\ darkened' = FALSE
  /\ UNCHANGED <<config, proc, sleep, cycle, pre, files, told, bounds, history>>
-----------------------------------------------------------------------------
(* The resume checkpoint. *)

(* The periodic write, neither asleep nor frozen. *)
Checkpoint ==
  /\ proc = "up" /\ ~Locked /\ ~IsPaused
  /\ ckpt' = Export /\ marked' = FALSE
  /\ UNCHANGED <<config, proc, sleep, cycle, senses, lastGood, told, bounds, history>>

(* Between two of them the entry follows a rest: when it begins, as it goes *)
(* on and once when it is over.  Without a checkpoint nothing is written.   *)
SyncDue ==
  /\ ckpt # NoEntry
  /\ \/ phase = "resting" /\ (marked => ckpt.spent # Export.spent)
     \/ phase = "awake" /\ marked

(* Mutant: the end of a rest is not written. *)
SyncWritten_OnlyResting ==
  IF phase = "resting" THEN ckpt' = Export /\ marked' = TRUE ELSE UNCHANGED rolling

(* The state cycle alone is replaced, an awake stretch counting as 0. *)
SyncWritten == ckpt' = [Export EXCEPT !.awake = 0] /\ marked' = (phase = "resting")

SyncRest ==
  /\ proc = "up" /\ SyncDue /\ SyncWritten
  /\ UNCHANGED <<config, proc, sleep, cycle, senses, lastGood, told, bounds, history>>

(* A clean stop writes the last checkpoint; asleep or frozen it keeps the   *)
(* last one but for the progress of a rest, and after a failure of the     *)
(* cycle it keeps it as it is.  What the checkpointer never marked, a      *)
(* remainder over within its poll, stays as it was.                        *)
FinalCheckpoint ==
  /\ proc = "up" /\ Cutting("stop") /\ proc' = "final"
  /\ \/ /\ ~Locked /\ ~IsPaused /\ ckpt' = Export /\ marked' = FALSE
        /\ misled' = (misled \/ StretchStale(ckpt'))
     \/ /\ IF SyncDue THEN SyncWritten ELSE UNCHANGED rolling
        /\ misled' = (misled \/ StretchStale(ckpt') \/ (RestStale(ckpt') /\ ~marked))
     \/ /\ UNCHANGED rolling
        /\ misled' = (misled \/ StretchStale(ckpt) \/ RestStale(ckpt))
  /\ lastGood' = NoEntry
  /\ UNCHANGED <<config, sleep, cycle, senses, told, stretch, rested>>

(* Then the modules are shut down. *)
Shutdown ==
  /\ proc = "final" /\ proc' = "stopping"
  /\ Cancel
  /\ UNCHANGED <<config, senses, files, bounds, history>>

(* What dies with the process. *)
Gone ==
  /\ proc' = "down" /\ wired' = FALSE
  /\ st' = "none" /\ held' = FALSE /\ result' = "ok" /\ elapsed' = 0 /\ resume' = 0
  /\ CycleReset
  /\ pre' = "none" /\ marked' = FALSE /\ lastGood' = NoEntry /\ told' = "awake"
  /\ UNCHANGED <<feed, developing, desired, ckpt, wanted, stretch, rested>>

Exit ==
  /\ proc = "stopping" /\ st = "none" /\ Gone
  /\ UNCHANGED <<bounds, darkened, misled>>

CrashProcess ==
  /\ proc # "down" /\ Cutting("crash") /\ Gone
  /\ darkened' = (darkened \/ desired # wanted)
  /\ misled' = (misled \/ StretchStale(ckpt) \/ RestStale(ckpt))

(* A plain start: what the checkpoint holds, and the configured feed. *)
BootProcess ==
  /\ proc = "down" /\ proc' = "up"
  /\ IF ckpt = NoEntry THEN UNCHANGED cycle ELSE Restore(ckpt)
  /\ PerceiveFeed
  /\ UNCHANGED <<config, sleep, pre, files, told, bounds, history>>
-----------------------------------------------------------------------------
Pipeline ==
  Begin \/ BeginFails \/ HoldEnds \/ Wake \/ Fail \/ Publish \/ PublishFails \/ End

Lifecycle == IncidentOver \/ Rebuild \/ RebuildOther \/ WireProbe \/ Shutdown \/ Exit

SleepNext ==
  \/ Poll \/ Fatigue \/ RestRequest \/ WelfareRequest
  \/ Pipeline \/ Lifecycle
  \/ Incident \/ Restart \/ Mature \/ (\E l \in {"on", "off"} : MoveLocus(l))
  \/ Checkpoint \/ SyncRest
  \/ FinalCheckpoint \/ CrashProcess \/ BootProcess

(* The poll loop, a scheduler that falls due, the task of a begun sleep,    *)
(* the boot, a rebuild and a stop all go on; nobody has to ask for a sleep, *)
(* cut or start anything.                                                   *)
SleepFairness ==
  /\ WF_sleepVars(Poll) /\ WF_sleepVars(PollBackstop)
  /\ WF_sleepVars(Pipeline) /\ WF_sleepVars(Lifecycle)

SleepSpec == SleepInit /\ [][SleepNext]_sleepVars /\ SleepFairness
-----------------------------------------------------------------------------
(* Properties. *)

(* A rest that ends well has been slept for its whole length, however many *)
(* restarts and crashes cut it into pieces, unless the process ended before *)
(* the checkpoint knew of it or a last_good from before it was restored.   *)
RestedInFull ==
  (held /\ st \in {"closing", "published"} /\ result = "ok" /\ ~misled) => rested > Rest

(* A rest of the state cycle begins only when it is due: a new one when the *)
(* entity has been awake for the whole stretch since its last completed    *)
(* sleep, the remainder of one when that one is not over; unless the       *)
(* process ended before the end of that sleep reached the checkpoint, or   *)
(* the rebuild of some module restored a last_good from before that end.   *)
RestsWhenDue ==
  [][~misled => /\ PollRest => stretch' = Awake
                /\ PollResume => rested <= Rest]_sleepVars

(* Outside a sleep, wherever it was cut, the entity perceives where it was *)
(* last put, unless a crash in a sleep left the senses off, and the other  *)
(* modules have heard that it is over, as long as no publish failed.       *)
AwakeOutsideSleep ==
  ~Locked => /\ proc = "up" /\ ~darkened => desired = wanted
             /\ failures = 0 => told = "awake"

(* Whatever fails, sleep recurs in an entity that is not stopped for good. *)
SleepRecurs == []<>(st = "asleep") \/ <>[](proc = "down")
=============================================================================
