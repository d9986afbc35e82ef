--------------------------- MODULE WelfareMonitor ---------------------------
(***************************************************************************)
(* The protective response of kaine/cycle/preservation_monitor.py, class   *)
(* WelfareProtectiveMonitor: on a crossing the entity is preserved first   *)
(* and then paused or ended, once per episode; a freeze that cannot be     *)
(* written is retried; the response arms again when someone has lifted the *)
(* welfare freeze by a named override; a welfare freeze found standing at  *)
(* the first poll counts as the monitor's own.                             *)
(***************************************************************************)
EXTENDS ControlState

CONSTANTS
  Actions,        \* values of [preservation.welfare_response].action
  EndHooks,       \* what the stop hook may be: "works", "raises" or "none"
  FreezeOutcomes, \* "lands", "fails", or "lands_raising": written, yet it raises
  Others,         \* the other sources that freeze and let go
  Corruption,     \* may the control file become unreadable?
  MaxCrossings,   \* bound on the crossings answered
  MaxOverrides,   \* bound on the overrides of welfare
  MaxStarts       \* bound on the restarts

ASSUME WelfareMonitorAssumption ==
  /\ Actions \subseteq {"pause", "end", "notify"}
  /\ EndHooks \subseteq {"works", "raises", "none"}
  /\ FreezeOutcomes \subseteq {"lands", "fails", "lands_raising"} /\ "lands" \in FreezeOutcomes
  /\ Others \subseteq Sources \ {"welfare"}
  /\ Corruption \in BOOLEAN
  /\ {MaxCrossings, MaxOverrides, MaxStarts} \subseteq Nat

VARIABLES
  action, endHook, \* the configuration of the run, never changed
  ctl,         \* state/cycle/control.json
  pc,          \* the poll: "idle", "preserving" or "rearming"
  checked,     \* _holders_checked
  acted,       \* _acted, the latch
  pausePlaced, \* _pause_placed
  pending,     \* _pending_freeze is not None
  stopping,    \* the run was told to stop
  captures,    \* history: preservations since the response was last armed
  lifted,      \* history: what welfare overrides since the last crossing lifted
  crossings, overrides, starts

config == <<action, endHook>>
vars == <<config, ctl, pc, checked, acted, pausePlaced, pending, stopping, captures,
          lifted, crossings, overrides, starts>>
latch == <<checked, acted, pausePlaced, pending>>
history == <<captures, lifted>>
bounds == <<crossings, overrides, starts>>

TypeOK ==
  /\ action \in Actions /\ endHook \in EndHooks
  /\ ctl \in ControlFiles /\ IsFiniteSet(ctl.stack) /\ IsList(ctl.stack)
  /\ pc \in {"idle", "preserving", "rearming"}
  /\ {checked, acted, pausePlaced, pending, stopping} \subseteq BOOLEAN
  /\ lifted \in {"nothing", "unreadable_file", "unnoticed_entry", "entry"}
  /\ captures \in 0 .. MaxCrossings
  /\ crossings \in 0 .. MaxCrossings
  /\ overrides \in 0 .. MaxOverrides /\ starts \in 0 .. MaxStarts

Init ==
  /\ action \in Actions /\ endHook \in EndHooks
  /\ ctl = Readable({}) /\ pc = "idle"
  /\ checked = FALSE /\ acted = FALSE /\ pausePlaced = FALSE /\ pending = FALSE
  /\ stopping = FALSE /\ captures = 0 /\ lifted = "nothing"
  /\ crossings = 0 /\ overrides = 0 /\ starts = 0

(* read_holder_sources: None for a file that cannot be read. *)
HoldersReadable == ctl.readable
WelfareHeld == ctl.readable /\ "welfare" \in HoldersOf(ctl.stack)
-----------------------------------------------------------------------------
(* The other holders, the operator's override and damage to the file. *)

OtherFreeze(source) ==
  /\ source \notin Holders(ctl)
  /\ ctl' = push_freeze(ctl, source)
  /\ UNCHANGED <<pc, latch, stopping, history, bounds>>

OtherRelease(source) ==
  /\ source \in HoldersOf(ctl.stack)
  /\ ctl' = stand_down(ctl, source)
  /\ UNCHANGED <<pc, latch, stopping, history, bounds>>

Override ==
  /\ overrides < MaxOverrides
  /\ can_override(ctl, {"welfare"})
  /\ ctl' = override(ctl, {"welfare"})
  /\ overrides' = overrides + 1
  /\ lifted' = IF ~ctl.readable THEN "unreadable_file"
               ELSE IF pausePlaced THEN "entry" ELSE "unnoticed_entry"
  /\ UNCHANGED <<pc, latch, stopping, captures, crossings, starts>>

Corrupt ==
  /\ Corruption /\ ctl.readable
  /\ ctl' = Unreadable
  /\ UNCHANGED <<pc, latch, stopping, history, bounds>>
-----------------------------------------------------------------------------
(* Polls. *)

Polling == ~stopping /\ pc = "idle"

(* The first poll looks for a welfare freeze left by an earlier process. *)
Adopt ==
  /\ Polling /\ ~checked
  /\ checked' = TRUE
  /\ acted' = (acted \/ WelfareHeld) /\ pausePlaced' = (pausePlaced \/ WelfareHeld)
  /\ UNCHANGED <<ctl, pc, pending, stopping, history, bounds>>

(* A crossing while unlatched: preserve first.  With notify the rate limit *)
(* may suppress it; then nothing happens.                                  *)
Respond ==
  /\ Polling /\ checked /\ ~acted
  /\ crossings < MaxCrossings /\ crossings' = crossings + 1
  /\ pc' = "preserving"
  /\ captures' = captures + 1 /\ lifted' = "nothing"
  /\ UNCHANGED <<ctl, latch, stopping, overrides, starts>>

(* Pause is also what an end degrades to without a working stop hook. *)
Pauses == action = "pause" \/ (action = "end" /\ endHook # "works")

(* The freeze: its outcome is whether it is known to be placed.  On an       *)
(* unreadable file the push does nothing, raises nothing and counts as placed.*)
PlaceWelfareFreeze(outcome) ==
  ctl' = IF outcome = "fails" THEN ctl ELSE push_freeze(ctl, "welfare")

Placed(outcome) == outcome = "lands"

(* Mutant: a response whose freeze failed stays armed. *)
Latches_WhenPlaced(placed) == placed

Latches(placed) == TRUE

(* The preservation is over, whether or not it failed: pause. *)
ActPause ==
  /\ ~stopping /\ pc = "preserving" /\ Pauses
  /\ pc' = "idle"
  /\ \E outcome \in FreezeOutcomes :
       /\ PlaceWelfareFreeze(outcome)
       /\ acted' = Latches(Placed(outcome))
       /\ pausePlaced' = Placed(outcome) /\ pending' = ~Placed(outcome)
  /\ UNCHANGED <<checked, stopping, history, bounds>>

(* End: the run is told to stop, no pause is placed. *)
ActEnd ==
  /\ ~stopping /\ pc = "preserving" /\ action = "end" /\ endHook = "works"
  /\ pc' = "idle"
  /\ stopping' = TRUE /\ acted' = TRUE /\ pausePlaced' = FALSE
  /\ UNCHANGED <<ctl, checked, pending, history, bounds>>

(* Notify: the run continues, armed. *)
ActNotify ==
  /\ ~stopping /\ pc = "preserving" /\ action = "notify"
  /\ pc' = "idle" /\ acted' = FALSE /\ pausePlaced' = FALSE
  /\ captures' = 0
  /\ UNCHANGED <<ctl, checked, pending, stopping, lifted, bounds>>

FoundInPlace == WelfareHeld

(* Mutant: a freeze placed by a retry is not noted as the monitor's pause. *)
PlacedByRetry_Unnoted == FALSE

PlacedByRetry == TRUE

(* Mutant: a freeze written by a retry stays pending. *)
PendingAfterRetry_Always(outcome) == TRUE

(* Mutant: a retry that fails gives up. *)
PendingAfterRetry_GivesUp(outcome) == FALSE

PendingAfterRetry(outcome) == ~Placed(outcome)

(* A pending freeze: found in place, or written again. *)
Retry ==
  /\ Polling /\ checked /\ acted /\ pending
  /\ \/ FoundInPlace /\ ctl' = ctl /\ pending' = FALSE /\ pausePlaced' = PlacedByRetry
     \/ /\ ~FoundInPlace
        /\ \E outcome \in FreezeOutcomes :
             /\ PlaceWelfareFreeze(outcome)
             /\ pending' = PendingAfterRetry(outcome)
             /\ pausePlaced' = IF Placed(outcome) THEN PlacedByRetry ELSE pausePlaced
  /\ UNCHANGED <<pc, checked, acted, stopping, history, bounds>>

Released == HoldersReadable /\ ~WelfareHeld

(* The pause was lifted: the stream tails are read, over several awaits. *)
RearmBegins ==
  /\ Polling /\ checked /\ acted /\ ~pending /\ pausePlaced /\ Released
  /\ pc' = "rearming"
  /\ UNCHANGED <<ctl, latch, stopping, history, bounds>>

Rearms ==
  /\ ~stopping /\ pc = "rearming"
  /\ pc' = "idle" /\ acted' = FALSE /\ pausePlaced' = FALSE
  /\ captures' = 0
  /\ UNCHANGED <<ctl, checked, pending, stopping, lifted, bounds>>

(* A tail could not be read: the next poll tries again. *)
RearmDeferred ==
  /\ ~stopping /\ pc = "rearming"
  /\ pc' = "idle"
  /\ UNCHANGED <<ctl, latch, stopping, history, bounds>>

(* The process ends at any point and starts again: boot keeps the welfare *)
(* entries, the monitor starts from nothing.                              *)
Restart ==
  /\ starts < MaxStarts /\ starts' = starts + 1
  /\ ctl' = unfreeze_for_boot(ctl)
  /\ pc' = "idle" /\ checked' = FALSE
  /\ acted' = FALSE /\ pausePlaced' = FALSE /\ pending' = FALSE
  /\ stopping' = FALSE /\ captures' = 0 /\ lifted' = "nothing"
  /\ UNCHANGED <<crossings, overrides>>

Poll ==
  \/ Adopt \/ ActPause \/ ActEnd \/ ActNotify \/ Retry
  \/ RearmBegins \/ Rearms \/ RearmDeferred

Step ==
  \/ \E source \in Others : OtherFreeze(source) \/ OtherRelease(source)
  \/ Override \/ Corrupt \/ Respond \/ Poll \/ Restart

Next == Step /\ UNCHANGED config

(* Polls go on; a write does not fail, nor a tail stay unreadable, for ever. *)
Fairness ==
  /\ WF_vars(Poll /\ UNCHANGED config)
  /\ SF_vars(Retry /\ ~pending' /\ UNCHANGED config) /\ SF_vars(Rearms /\ UNCHANGED config)

Spec == Init /\ [][Next]_vars /\ Fairness
-----------------------------------------------------------------------------
(* Properties. *)

(* One episode, one preservation: however often the freeze has to be tried, *)
(* the entity is not captured again before the response is armed again.     *)
OneCapturePerEpisode == captures <= 1

(* The monitor never stacks welfare freezes, over retries of a write that   *)
(* landed, over restarts under a standing freeze and over re-arming.        *)
OneWelfareFreeze ==
  Cardinality({e \in ctl.stack : e.source = "welfare"}) <= 1

(* An episode is answered once, by one capture and one freeze, whatever has *)
(* to be tried again and whatever the process restarts into.                *)
OneResponsePerEpisode == OneCapturePerEpisode /\ OneWelfareFreeze

(* A named override of a welfare entry the monitor knows of stands until a *)
(* new crossing: what is left of the episode that was answered does not    *)
(* freeze again.  An entry whose write landed and yet raised is not known  *)
(* before the next poll.                                                   *)
OverrideNotUndone ==
  [][("welfare" \notin Holders(ctl) /\ "welfare" \in HoldersOf(ctl'.stack)) => lifted # "entry"]_vars

(* A response that means to pause ends in a pause: whatever becomes of the  *)
(* write and of its retries, from then on the welfare freeze comes to stand *)
(* (for a file that cannot be read, it does), unless someone overrides it   *)
(* or the process goes.                                                     *)
ResponsePauses ==
  \A n \in 0 .. MaxOverrides :
    (acted /\ pending /\ overrides = n) ~>
      ("welfare" \in Holders(ctl) \/ overrides > n \/ ~checked)

(* The net does not stay blind: when the pause is lifted the response is    *)
(* armed again.                                                             *)
OverrideRearms ==
  (acted /\ lifted \in {"entry", "unnoticed_entry"}) ~> (~acted \/ stopping \/ "welfare" \in Holders(ctl))
=============================================================================
