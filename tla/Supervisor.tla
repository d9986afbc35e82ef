----------------------------- MODULE Supervisor -----------------------------
(***************************************************************************)
(* The module supervisor of kaine/cycle/supervisor.py: per poll it reads   *)
(* the freeze stack, assesses the modules in registry order and takes the  *)
(* first faulty one through detect, freeze, restart and release, backing   *)
(* off or escalating.  Between any two of its awaits the other holders may *)
(* push or lift freezes, modules may fail and the freeze watch may pause   *)
(* or resume the cycle.                                                    *)
(***************************************************************************)
EXTENDS ControlState

CONSTANTS
  N,              \* modules are 1 .. N in registry order
  Heavy,          \* modules whose holds_external_resources() is true
  MaxAttempts,    \* [supervisor].max_restart_attempts
  EscalateOnCrash,\* unattended or research run: a crashed poll loop escalates
  Others,         \* the other sources that push and lift freezes
  FailureKinds,   \* how a restart that raises leaves the module
  MaxFaults,      \* bound on module faults
  MaxStack,       \* bound on the stack above which nothing adverse begins
  IOFaults        \* may a write of control.json raise?

Modules == 1 .. N

ASSUME SupervisorAssumption ==
  /\ N \in Nat \ {0} /\ MaxAttempts \in Nat \ {0}
  /\ MaxFaults \in Nat /\ MaxStack \in Nat
  /\ Heavy \subseteq Modules
  /\ Others \subseteq Sources \ {"supervisor"}
  /\ FailureKinds \subseteq {"unchanged", "emptied", "replaced"}
  /\ {EscalateOnCrash, IOFaults} \subseteq BOOLEAN

VARIABLES
  ctl,        \* state/cycle/control.json
  paused,     \* the cycle is paused; modules then hear no broadcasts
  tasks,      \* per module: "running", "stuck", "crashed" or "none" (no task left)
  stale,      \* per module: the heartbeat is older than the module's timeout
  sleeping,   \* the sleep module is sleeping
  attempts,   \* per module: restart attempts of its open incident, 0 for none
  pc,         \* where the poll is
  target,     \* the module of the poll's incident
  escalated,  \* Supervisor.escalated
  faults      \* module faults so far

vars == <<ctl, paused, tasks, stale, sleeping, attempts, pc, target, escalated, faults>>
modVars == <<tasks, stale, sleeping, faults>>
supVars == <<attempts, pc, target, escalated>>

TypeOK ==
  /\ ctl \in ControlFiles /\ IsFiniteSet(ctl.stack) /\ IsList(ctl.stack)
  /\ paused \in BOOLEAN /\ sleeping \in BOOLEAN /\ escalated \in BOOLEAN
  /\ tasks \in [Modules -> {"running", "stuck", "crashed", "none"}]
  /\ stale \in [Modules -> BOOLEAN]
  /\ attempts \in [Modules -> 0 .. MaxAttempts]
  /\ pc \in {"idle", "detected", "frozen", "recovered", "failed", "halted"}
  /\ target \in Modules
  /\ faults \in 0 .. MaxFaults

Init ==
  /\ ctl = Readable({}) /\ paused = FALSE
  /\ tasks = [m \in Modules |-> "running"] /\ stale = [m \in Modules |-> FALSE]
  /\ sleeping = FALSE /\ faults = 0
  /\ attempts = [m \in Modules |-> 0]
  /\ pc = "idle" /\ target = 1 /\ escalated = FALSE
-----------------------------------------------------------------------------
(* Modules and the rest of the system. *)

Bounded == Cardinality(ctl.stack) < MaxStack

(* A task ends on its own, with or without an exception. *)
ModuleCrash(m) ==
  /\ faults < MaxFaults /\ tasks[m] \in {"running", "stuck"}
  /\ tasks' = [tasks EXCEPT ![m] = "crashed"] /\ faults' = faults + 1
  /\ UNCHANGED <<ctl, paused, stale, sleeping, supVars>>

(* A task blocks and never beats again. *)
ModuleHang(m) ==
  /\ faults < MaxFaults /\ tasks[m] = "running"
  /\ tasks' = [tasks EXCEPT ![m] = "stuck"] /\ faults' = faults + 1
  /\ UNCHANGED <<ctl, paused, stale, sleeping, supVars>>

(* A healthy module beats after every broadcast it handles. *)
Beat(m) ==
  /\ tasks[m] = "running" /\ ~paused /\ stale[m]
  /\ stale' = [stale EXCEPT ![m] = FALSE]
  /\ UNCHANGED <<ctl, paused, tasks, sleeping, faults, supVars>>

(* No broadcast reaches a module, or it handles none: the heartbeat ages. *)
GoStale(m) ==
  /\ Bounded /\ ~stale[m] /\ (paused \/ sleeping \/ tasks[m] # "running")
  /\ stale' = [stale EXCEPT ![m] = TRUE]
  /\ UNCHANGED <<ctl, paused, tasks, sleeping, faults, supVars>>

SleepOrWake ==
  /\ Bounded
  /\ sleeping' = ~sleeping
  /\ UNCHANGED <<ctl, paused, tasks, stale, faults, supVars>>

(* The freeze watch, one round of it (see FreezeControl). *)
FreezeWatch ==
  /\ paused # Frozen(ctl)
  /\ paused' = Frozen(ctl)
  /\ UNCHANGED <<ctl, modVars, supVars>>

(* Another holder, each with at most one entry. *)
OtherFreeze(source) ==
  /\ Bounded /\ source \notin Holders(ctl)
  /\ ctl' = push_freeze(ctl, source)
  /\ UNCHANGED <<paused, modVars, supVars>>

OtherRelease(source) ==
  /\ source \in Holders(ctl)
  /\ ctl' = stand_down(ctl, source)
  /\ UNCHANGED <<paused, modVars, supVars>>
-----------------------------------------------------------------------------
(* Liveness of a module. *)

AssessOf(taskState, isStale, isSleeping) ==
  IF taskState = "crashed" THEN "dead"
  ELSE IF ~isSleeping /\ isStale /\ taskState \in {"running", "stuck"} THEN "hung"
  ELSE "alive"

assess(m) == AssessOf(tasks[m], stale[m], sleeping)

DevelopmentOnly(stack) == stack # {} /\ HoldersOf(stack) \subseteq {"development"}
UnderDevelopment(stack) == "development" \in HoldersOf(stack)

(* Mutant: its own freeze keeps it out too. *)
StaysOut_OwnToo(stack) == stack # {} /\ ~DevelopmentOnly(stack)

(* The supervisor stays out of a freeze whose newest entry is another's. *)
StaysOut(stack) ==
  stack # {} /\ top_source(stack) # "supervisor" /\ ~DevelopmentOnly(stack)

Actionable(m) ==
  \/ assess(m) = "dead"
  \/ assess(m) = "hung" /\ ~UnderDevelopment(read_control(ctl))

(* The incidents of the modules seen alive before m are dropped. *)
DropAliveBelow(m) ==
  [k \in Modules |-> IF k < m /\ assess(k) = "alive" THEN 0 ELSE attempts[k]]
-----------------------------------------------------------------------------
(* One poll. *)

(* No module needs work. *)
PollQuiet ==
  /\ pc = "idle" /\ ~StaysOut(read_control(ctl))
  /\ \A m \in Modules : ~Actionable(m)
  /\ attempts' = DropAliveBelow(N + 1)
  /\ UNCHANGED <<ctl, paused, modVars, pc, target, escalated>>

(* The first module that needs work opens or continues its incident. *)
PollDetect(m) ==
  /\ pc = "idle" /\ ~StaysOut(read_control(ctl))
  /\ Actionable(m) /\ \A k \in Modules : k < m => ~Actionable(k)
  /\ attempts' = DropAliveBelow(m)
  /\ target' = m /\ pc' = "detected"
  /\ UNCHANGED <<ctl, paused, modVars, escalated>>

(* Mutant: only the first attempt of an incident freezes. *)
PushesFreeze_Never == FALSE

(* Every attempt pushes an entry of its own. *)
PushesFreeze == TRUE

PollFreeze ==
  /\ pc = "detected"
  /\ ctl' = IF PushesFreeze THEN push_freeze(ctl, "supervisor") ELSE ctl
  /\ pc' = "frozen"
  /\ UNCHANGED <<paused, modVars, attempts, target, escalated>>

(* What a restart may leave: it succeeds (a light restart keeps the old      *)
(* heartbeat unless the module publishes while it initializes, a heavy one   *)
(* builds a new module), the new tasks are dead again at once, or it raises: *)
(* before the tasks were cleared, after, or after the new module was already *)
(* in the registry.                                                          *)
RestartOutcomes(m) ==
     {[ok |-> TRUE, task |-> "running", stale |-> s] :
        s \in IF m \in Heavy THEN {FALSE} ELSE {FALSE, stale[m]}}
  \cup {[ok |-> TRUE, task |-> "crashed", stale |-> stale[m]]}
  \cup {[ok |-> FALSE, task |-> tasks[m], stale |-> stale[m]] : k \in FailureKinds \cap {"unchanged"}}
  \cup {[ok |-> FALSE, task |-> "none", stale |-> stale[m]] : k \in FailureKinds \cap {"emptied"}}
  \cup {[ok |-> FALSE, task |-> "running", stale |-> FALSE] :
          k \in IF m \in Heavy THEN FailureKinds \cap {"replaced"} ELSE {}}

(* The attempt is counted, the module restarted and assessed again. *)
PollRestart ==
  /\ pc = "frozen"
  /\ attempts' = [attempts EXCEPT ![target] = @ + 1]
  /\ \E r \in RestartOutcomes(target) :
       /\ tasks' = [tasks EXCEPT ![target] = r.task]
       /\ stale' = [stale EXCEPT ![target] = r.stale]
       /\ pc' = IF r.ok /\ AssessOf(r.task, r.stale, sleeping) = "alive"
                THEN "recovered" ELSE "failed"
  /\ UNCHANGED <<ctl, paused, sleeping, faults, target, escalated>>

(* Mutant: a recovery takes the newest entry off, whoever owns it. *)
ReleaseOwn_Top(file) == pop_freeze(file, top_source(file.stack))

(* Of its own entries a recovery pops the newest one. *)
ReleaseOwn(file) == IF "supervisor" \in Holders(file) THEN pop_freeze(file, "supervisor") ELSE file

PollRecovered ==
  /\ pc = "recovered"
  /\ attempts' = [attempts EXCEPT ![target] = 0]
  /\ ctl' = ReleaseOwn(ctl)
  /\ pc' = "idle"
  /\ UNCHANGED <<paused, modVars, target, escalated>>

(* Attempts are left: back off, still frozen. *)
PollBackOff ==
  /\ pc = "failed" /\ attempts[target] < MaxAttempts
  /\ pc' = "idle"
  /\ UNCHANGED <<ctl, paused, modVars, attempts, target, escalated>>

ShutdownAll == [m \in Modules |-> "none"]

(* Final snapshot, shutdown of every module, escalation.json, halt. *)
PollEscalate ==
  /\ pc = "failed" /\ attempts[target] >= MaxAttempts
  /\ tasks' = ShutdownAll
  /\ escalated' = TRUE /\ pc' = "halted"
  /\ UNCHANGED <<ctl, paused, stale, sleeping, faults, attempts, target>>

(* A write of control.json raises out of the poll: run() halts the cycle. *)
PollCrash ==
  /\ IOFaults /\ pc \in {"detected", "recovered"}
  /\ tasks' = IF EscalateOnCrash THEN ShutdownAll ELSE tasks
  /\ attempts' = IF pc = "recovered" THEN [attempts EXCEPT ![target] = 0] ELSE attempts
  /\ escalated' = TRUE /\ pc' = "halted"
  /\ UNCHANGED <<ctl, paused, stale, sleeping, faults, target>>

Poll ==
  \/ PollQuiet \/ (\E m \in Modules : PollDetect(m)) \/ PollFreeze \/ PollRestart
  \/ PollRecovered \/ PollBackOff \/ PollEscalate \/ PollCrash
-----------------------------------------------------------------------------
Next ==
  \/ \E m \in Modules : ModuleCrash(m) \/ ModuleHang(m) \/ Beat(m) \/ GoStale(m)
  \/ SleepOrWake
  \/ FreezeWatch
  \/ \E source \in Others : OtherFreeze(source) \/ OtherRelease(source)
  \/ Poll

(* The supervisor's task and the freeze watch keep running. *)
Fairness == WF_vars(Poll) /\ WF_vars(FreezeWatch)

Spec == Init /\ [][Next]_vars /\ Fairness
-----------------------------------------------------------------------------
(* Properties. *)

(* While an incident is open the cycle is frozen in the supervisor's own   *)
(* name: no repair attempt goes on, and none is waited out, while ticks    *)
(* run, whatever the other holders lift in between.                        *)
RepairUnderFreeze ==
  \A m \in Modules : (attempts[m] > 0 /\ pc # "halted") => "supervisor" \in Holders(ctl)

(* A recovery, an escalation or a crash of the supervisor never lifts the  *)
(* freeze of another holder.                                               *)
ForeignFreezesKept ==
  [][Poll => Holders(ctl) \ {"supervisor"} \subseteq Holders(ctl')]_vars

(* A recovery releases the supervisor's freeze: whatever number of attempts *)
(* it took, none of its entries, which nobody else lifts, is left behind.   *)
RecoveryReleases ==
  [][PollRecovered => "supervisor" \notin Holders(ctl')]_vars

(* A crashed module is repaired, or the run halted, once every other holder *)
(* has let go for good and no module before it in the registry keeps        *)
(* faulting: a poll ends with the first incident it handles.                *)
CrashAnswered ==
  \A m \in Modules :
    <>[](/\ Holders(ctl) \subseteq {"supervisor"}
         /\ \A k \in Modules : k < m => assess(k) = "alive") =>
      (tasks[m] = "crashed" ~> (tasks[m] # "crashed" \/ pc = "halted"))
=============================================================================
