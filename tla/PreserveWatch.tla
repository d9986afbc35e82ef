---------------------------- MODULE PreserveWatch ----------------------------
(***************************************************************************)
(* Live preservation on request: preserve_request.json written by another  *)
(* process, the watcher of kaine/cycle/preserve_watch.py that freezes the  *)
(* cycle, captures the entity, reports in preserve_result.json and lifts   *)
(* its freeze or stops the run, and the restarts of the process around it. *)
(***************************************************************************)
EXTENDS ControlState

CONSTANTS
  MaxRequests,    \* bound on the requests ever written
  MaxBoots,       \* bound on the boots
  Others,         \* the other sources that freeze and let go
  FailingWrites   \* which writes may raise: "result", "release"

ASSUME PreserveWatchAssumption ==
  /\ MaxRequests \in Nat /\ MaxBoots \in Nat
  /\ Others \subseteq Sources \ {"preserve"}
  /\ FailingWrites \subseteq {"result", "release"}

VARIABLES
  ctl,            \* state/cycle/control.json
  paused,         \* the cycle is paused
  proc,           \* the cycle process: "running", "stopping" or "down"
  boots,          \* boots so far
  request,        \* preserve_request.json; its id is 0 while there is none
  result,         \* preserve_result.json; its id is 0 while there is none
  pc,             \* the watcher: "poll", "pausing" or "preserving"
  current,        \* the request being handled
  lastHandled,    \* _last_handled_id
  releasePending, \* _release_pending
  answered        \* history: ids a result was written for

filesVars == <<request, result>>
watcher == <<pc, current, lastHandled, releasePending>>
preserveVars == <<ctl, paused, proc, boots, request, result, watcher, answered>>

Ids == 0 .. MaxRequests
Requests == [id : Ids, stop : BOOLEAN]
NoRequest == [id |-> 0, stop |-> FALSE]
NoResult == [id |-> 0, ok |-> FALSE]

PreserveTypeOK ==
  /\ ctl \in ControlFiles /\ IsFiniteSet(ctl.stack) /\ IsList(ctl.stack)
  /\ paused \in BOOLEAN
  /\ proc \in {"running", "stopping", "down"}
  /\ boots \in 0 .. MaxBoots
  /\ request \in Requests /\ current \in Requests
  /\ result \in [id : Ids, ok : BOOLEAN]
  /\ pc \in {"poll", "pausing", "preserving"}
  /\ lastHandled \in Ids /\ releasePending \in BOOLEAN
  /\ answered \subseteq Ids

PreserveInit ==
  /\ ctl = Readable({}) /\ paused = FALSE
  /\ proc = "running" /\ boots = 0
  /\ request = NoRequest /\ result = NoResult
  /\ pc = "poll" /\ current = NoRequest
  /\ lastHandled = 0 /\ releasePending = FALSE
  /\ answered = {}
-----------------------------------------------------------------------------
(* A new request replaces the one before, whether or not that was handled. *)
WriteRequest(stop) ==
  /\ request.id < MaxRequests
  /\ request' = [id |-> request.id + 1, stop |-> stop]
  /\ UNCHANGED <<ctl, paused, proc, boots, result, watcher, answered>>

OtherFreeze(source) ==
  /\ source \notin Holders(ctl)
  /\ ctl' = push_freeze(ctl, source)
  /\ UNCHANGED <<paused, proc, boots, filesVars, watcher, answered>>

OtherRelease(source) ==
  /\ source \in Holders(ctl)
  /\ ctl' = stand_down(ctl, source)
  /\ UNCHANGED <<paused, proc, boots, filesVars, watcher, answered>>

(* The freeze watch, one round of it (see FreezeControl). *)
FreezeWatch ==
  /\ proc = "running" /\ paused # Frozen(ctl)
  /\ paused' = Frozen(ctl)
  /\ UNCHANGED <<ctl, proc, boots, filesVars, watcher, answered>>
-----------------------------------------------------------------------------
(* One step of the watcher. *)

Polling == proc = "running" /\ pc = "poll"

(* A release that failed is retried before any new request is looked at. *)
RetryRelease ==
  /\ Polling /\ releasePending
  /\ ctl' = pop_freeze(ctl, "preserve")
  /\ releasePending' = FALSE
  /\ UNCHANGED <<paused, proc, boots, filesVars, pc, current, lastHandled, answered>>

(* A request not handled yet: freeze.  If the push raises, the next poll *)
(* finds the request still unhandled.                                    *)
BeginRequest ==
  /\ Polling /\ ~releasePending
  /\ request.id \notin {0, lastHandled}
  /\ current' = request /\ pc' = "pausing"
  /\ ctl' = push_freeze(ctl, "preserve")
  /\ UNCHANGED <<paused, proc, boots, filesVars, lastHandled, releasePending, answered>>

(* The cycle has paused, or the pause timeout has passed: preserve anyway. *)
PauseSeen ==
  /\ proc = "running" /\ pc = "pausing"
  /\ pc' = "preserving"
  /\ UNCHANGED <<ctl, paused, proc, boots, filesVars, current, lastHandled, releasePending, answered>>

(* Mutant: a release that raises is given up. *)
PendingAfter_Never(lifted) == FALSE

PendingAfter(lifted) == ~lifted

(* Mutant: what the request file names by now counts as handled. *)
HandledId_Newest == request.id

HandledId == current.id

(* The capture ends, well or not.  The request counts as handled, the result *)
(* is written, and the run stops or the freeze is lifted; a write that       *)
(* raises keeps neither from happening.                                      *)
FinishRequest(ok) ==
  /\ proc = "running" /\ pc = "preserving"
  /\ pc' = "poll" /\ lastHandled' = HandledId
  /\ \/ result' = [id |-> current.id, ok |-> ok] /\ answered' = answered \cup {current.id}
     \/ "result" \in FailingWrites /\ UNCHANGED <<result, answered>>
  /\ IF ok /\ current.stop
     THEN proc' = "stopping" /\ UNCHANGED <<ctl, releasePending>>
     ELSE /\ \E lifted \in {TRUE} \cup (IF "release" \in FailingWrites THEN {FALSE} ELSE {}) :
               /\ ctl' = IF lifted THEN pop_freeze(ctl, "preserve") ELSE ctl
               /\ releasePending' = PendingAfter(lifted)
          /\ UNCHANGED proc
  /\ UNCHANGED <<paused, boots, request, current>>

Watcher ==
  RetryRelease \/ BeginRequest \/ PauseSeen \/ \E ok \in BOOLEAN : FinishRequest(ok)
-----------------------------------------------------------------------------
(* The process ends, by its own stop or by a crash at any point. *)
Down ==
  /\ proc # "down"
  /\ proc = "running" => boots < MaxBoots
  /\ proc' = "down"
  /\ paused' = FALSE /\ pc' = "poll" /\ current' = NoRequest
  /\ lastHandled' = 0 /\ releasePending' = FALSE
  /\ UNCHANGED <<ctl, boots, filesVars, answered>>

(* Mutant: a restart forgets what was handled before it. *)
PriorHandled_Nothing == 0

(* A restart takes the last handled id from the result file. *)
PriorHandled == result.id

Boot ==
  /\ proc = "down" /\ boots < MaxBoots
  /\ proc' = "running" /\ boots' = boots + 1
  /\ ctl' = unfreeze_for_boot(ctl)
  /\ paused' = Frozen(ctl')
  /\ lastHandled' = PriorHandled
  /\ UNCHANGED <<filesVars, pc, current, releasePending, answered>>

PreserveNext ==
  \/ \E stop \in BOOLEAN : WriteRequest(stop)
  \/ \E source \in Others : OtherFreeze(source) \/ OtherRelease(source)
  \/ FreezeWatch \/ Watcher \/ Down \/ Boot

(* The watcher's task and the freeze watch run; a release that raises does *)
(* not raise for ever.                                                     *)
PreserveFairness == WF_preserveVars(Watcher) /\ WF_preserveVars(FreezeWatch)

PreserveSpec == PreserveInit /\ [][PreserveNext]_preserveVars /\ PreserveFairness
-----------------------------------------------------------------------------
(* Properties. *)

(* A request whose result is on disk is not handled again, by a later poll *)
(* or after a restart: the stop it may ask for would end a new run.        *)
NeverAnsweredTwice ==
  [][pc = "poll" /\ pc' = "pausing" => current'.id \notin answered]_preserveVars

(* While a live entity is being captured its cycle stays frozen in the     *)
(* watcher's name, whoever else lets go meanwhile; and it is never held    *)
(* twice: what a failed release left is lifted before the next request     *)
(* pushes again.                                                           *)
CapturedUnderOneFreeze ==
  /\ pc # "poll" => "preserve" \in Holders(ctl)
  /\ Cardinality({e \in ctl.stack : e.source = "preserve"}) <= 1

(* Requests conclude: the freeze of a preservation is lifted or the run    *)
(* ends, and in a run that stays up the newest request is taken up or has  *)
(* its answer already.  One written over before it is taken up is gone.    *)
RequestsConclude ==
  /\ ("preserve" \in Holders(ctl)) ~> ("preserve" \notin Holders(ctl) \/ proc # "running")
  /\ <>[](proc = "running") => <>[](request.id \in {current.id, result.id})
=============================================================================
