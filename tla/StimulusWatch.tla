---------------------------- MODULE StimulusWatch ----------------------------
(***************************************************************************)
(* The loss watcher of kaine/cycle/stimulus_source_watch.py: a developing  *)
(* entity whose stimulus source is lost is frozen under the `development`  *)
(* holder and let go when the source is back.  The source shows itself     *)
(* only through what perception delivers, and the freeze watch turns       *)
(* perception off under every other holder, so the watcher may take a      *)
(* freeze of another for a loss, and must still let go afterwards.         *)
(***************************************************************************)
EXTENDS ControlState

CONSTANTS
  Others,         \* the other sources that freeze and let go
  MaxFailures,    \* bound on the liveness checks that raise
  ReleaseFails,   \* may the write that lifts the freeze raise?
  FreezeFails,    \* may the write that places the freeze raise?
  MaxOverrides,   \* bound on the overrides of development
  MaxStarts       \* bound on the restarts of the process

ASSUME StimulusWatchAssumption ==
  /\ Others \subseteq Sources \ {"development"}
  /\ {ReleaseFails, FreezeFails} \subseteq BOOLEAN
  /\ {MaxFailures, MaxOverrides, MaxStarts} \subseteq Nat

VARIABLES
  ctl,         \* state/cycle/control.json
  perceiving,  \* perception is on
  sourceUp,    \* the stimulus source delivers
  presence,    \* deliveries within the presence window
  developing,  \* is_developing()
  pc,          \* step(): "idle", "checking", the check "failed", or a loss is "declared"
  armed,       \* _armed
  inGrace,     \* the clock is before _grace_until
  silence,     \* _not_live_since: "none", "brief", or "long" after loss_after_seconds
  streak,      \* _live_streak
  lost,        \* _lost
  overrides, starts, failures

vars == <<ctl, perceiving, sourceUp, presence, developing, pc, armed,
          inGrace, silence, streak, lost, overrides, starts, failures>>
watchVars == <<pc, armed, inGrace, silence, streak, lost>>
worldVars == <<perceiving, sourceUp, presence, developing>>
bounds == <<overrides, starts, failures>>

TypeOK ==
  /\ ctl \in ControlFiles /\ IsFiniteSet(ctl.stack) /\ IsList(ctl.stack)
  /\ {perceiving, sourceUp, presence, developing, armed, inGrace, lost} \subseteq BOOLEAN
  /\ pc \in {"idle", "checking", "failed", "declared"}
  /\ silence \in {"none", "brief", "long"}
  /\ streak \in 0 .. 1
  /\ overrides \in 0 .. MaxOverrides /\ starts \in 0 .. MaxStarts
  /\ failures \in 0 .. MaxFailures

Init ==
  /\ ctl = Readable({}) /\ perceiving = TRUE
  /\ sourceUp = TRUE /\ presence = FALSE /\ developing = TRUE
  /\ pc = "idle" /\ armed = FALSE /\ inGrace = TRUE
  /\ silence = "none" /\ streak = 0 /\ lost = FALSE
  /\ overrides = 0 /\ starts = 0 /\ failures = 0
-----------------------------------------------------------------------------
(* The world around the watcher. *)

SourceComesOrGoes ==
  /\ sourceUp' = ~sourceUp
  /\ UNCHANGED <<ctl, perceiving, presence, developing, watchVars, bounds>>

(* Mutant: every freeze turns perception off. *)
Perceives_OnlyFree == Holders(ctl) = {}

(* The freeze watch gives perception back under development alone. *)
Perceives == Holders(ctl) \subseteq {"development"}

FreezeWatch ==
  /\ perceiving # Perceives
  /\ perceiving' = Perceives
  /\ UNCHANGED <<ctl, sourceUp, presence, developing, watchVars, bounds>>

(* Deliveries enter the presence window, or the last one leaves it. *)
PresenceFollows ==
  /\ presence # (sourceUp /\ perceiving)
  /\ presence' = (sourceUp /\ perceiving)
  /\ UNCHANGED <<ctl, perceiving, sourceUp, developing, watchVars, bounds>>

(* The maturation gate confirms the next stage. *)
DevelopmentEnds ==
  /\ developing
  /\ developing' = FALSE
  /\ UNCHANGED <<ctl, perceiving, sourceUp, presence, watchVars, bounds>>

OtherFreeze(source) ==
  /\ source \notin Holders(ctl)
  /\ ctl' = push_freeze(ctl, source)
  /\ UNCHANGED <<worldVars, watchVars, bounds>>

OtherRelease(source) ==
  /\ source \in Holders(ctl)
  /\ ctl' = stand_down(ctl, source)
  /\ UNCHANGED <<worldVars, watchVars, bounds>>

Override ==
  /\ overrides < MaxOverrides
  /\ can_override(ctl, {"development"})
  /\ ctl' = override(ctl, {"development"})
  /\ overrides' = overrides + 1
  /\ UNCHANGED <<starts, failures, worldVars, watchVars>>

(* Time passes. *)
GraceEnds ==
  /\ inGrace
  /\ inGrace' = FALSE
  /\ UNCHANGED <<ctl, worldVars, pc, armed, silence, streak, lost, bounds>>

SilenceGrows ==
  /\ silence = "brief"
  /\ silence' = "long"
  /\ UNCHANGED <<ctl, worldVars, pc, armed, inGrace, streak, lost, bounds>>
-----------------------------------------------------------------------------
(* One step of the watcher. *)

(* A write of control.json that may raise; the watcher logs it and goes on. *)
Placed(file) == {push_freeze(file, "development")} \cup (IF FreezeFails THEN {file} ELSE {})
Lifted(file) == {pop_freeze(file, "development")} \cup (IF ReleaseFails THEN {file} ELSE {})

LiftedAtEnd(file) == Lifted(file)

(* Development is over: the freeze goes and nothing is judged any more. *)
StepEnded ==
  /\ pc = "idle" /\ ~developing /\ lost
  /\ ctl' \in LiftedAtEnd(ctl)
  /\ lost' = FALSE
  /\ UNCHANGED <<worldVars, pc, armed, inGrace, silence, streak, bounds>>

(* Not armed yet, or past the grace period: look at the source. *)
StepLooks ==
  /\ pc = "idle" /\ developing
  /\ armed => ~inGrace
  /\ pc' = "checking"
  /\ UNCHANGED <<ctl, worldVars, armed, inGrace, silence, streak, lost, bounds>>

(* A check that raises counts as not live. *)
CheckFails ==
  /\ pc = "checking" /\ failures < MaxFailures
  /\ pc' = "failed" /\ failures' = failures + 1
  /\ UNCHANGED <<ctl, worldVars, armed, inGrace, silence, streak, lost, overrides, starts>>

Live == pc = "checking" /\ presence
NotLive == pc = "failed" \/ (pc = "checking" /\ ~presence)

(* The first live look arms the watch; at the arm timeout a look that is *)
(* not live arms it and counts as a loss.                                *)
StepArms ==
  /\ ~armed
  /\ pc' = "idle"
  /\ \/ Live /\ armed' = TRUE /\ inGrace' = TRUE /\ UNCHANGED <<ctl, lost, streak>>
     \/ NotLive /\ UNCHANGED <<ctl, armed, inGrace, lost, streak>>
     \/ /\ NotLive /\ armed' = TRUE /\ lost' = TRUE /\ streak' = 0
        /\ ctl' \in Placed(ctl)
        /\ UNCHANGED inGrace
  /\ UNCHANGED <<worldVars, silence, bounds>>

(* Silence that has lasted long enough is a loss; a live look ends it. *)
StepWatches ==
  /\ armed /\ ~lost
  /\ pc' = "idle"
  /\ \/ Live /\ silence' = "none"
     \/ NotLive /\ silence # "long" /\ silence' = "brief"
  /\ UNCHANGED <<ctl, worldVars, armed, inGrace, streak, lost, bounds>>

(* Mutant: only the newest entry is looked at. *)
MissingFreeze_TopOnly(file) == top_source(read_control(file)) # "development"

MissingFreeze(file) == "development" \notin Holders(file)

(* A loss: freeze, then publish and notify. *)
StepLoses ==
  /\ NotLive /\ armed /\ ~lost /\ silence = "long"
  /\ pc' = "declared" /\ lost' = TRUE /\ streak' = 0
  /\ ctl' \in Placed(ctl)
  /\ UNCHANGED <<worldVars, armed, inGrace, silence, bounds>>

(* The same step looks at the stack again: the write may have failed, or the *)
(* freeze been overridden during the notices.                                *)
StepDeclared ==
  /\ pc = "declared"
  /\ pc' = "idle" /\ streak' = 0
  /\ ctl' \in IF MissingFreeze(ctl) THEN Placed(ctl) ELSE {ctl}
  /\ UNCHANGED <<worldVars, armed, inGrace, silence, lost, bounds>>

(* Lost and still not live: freeze again what someone let run. *)
StepStillLost ==
  /\ NotLive /\ armed /\ lost
  /\ pc' = "idle" /\ streak' = 0
  /\ ctl' \in IF MissingFreeze(ctl) THEN Placed(ctl) ELSE {ctl}
  /\ UNCHANGED <<worldVars, armed, inGrace, silence, lost, bounds>>

(* Two live looks in a row: the source is back. *)
StepReturns ==
  /\ Live /\ armed /\ lost
  /\ pc' = "idle"
  /\ \/ streak = 0 /\ streak' = 1 /\ UNCHANGED <<ctl, lost, silence, inGrace>>
     \/ /\ streak = 1 /\ streak' = 0 /\ lost' = FALSE /\ silence' = "none" /\ inGrace' = TRUE
        /\ ctl' \in Lifted(ctl)
  /\ UNCHANGED <<worldVars, armed, bounds>>

Step ==
  \/ StepEnded \/ StepLooks \/ CheckFails \/ StepArms \/ StepWatches
  \/ StepLoses \/ StepDeclared \/ StepStillLost \/ StepReturns

(* The process restarts: boot keeps only welfare entries, the watch starts *)
(* unarmed.                                                                *)
Restart ==
  /\ starts < MaxStarts
  /\ starts' = starts + 1
  /\ ctl' = unfreeze_for_boot(ctl)
  /\ pc' = "idle" /\ armed' = FALSE /\ inGrace' = TRUE
  /\ silence' = "none" /\ streak' = 0 /\ lost' = FALSE
  /\ UNCHANGED <<worldVars, overrides, failures>>
-----------------------------------------------------------------------------
World ==
  \/ SourceComesOrGoes \/ FreezeWatch \/ PresenceFollows \/ DevelopmentEnds
  \/ \E source \in Others : OtherFreeze(source) \/ OtherRelease(source)
  \/ Override \/ GraceEnds \/ SilenceGrows

Next == World \/ Step \/ Restart

(* The watcher and the freeze watch poll, and time goes by.  An unarmed     *)
(* watcher reaches its arm timeout, and a write does not raise for ever.    *)
Fairness ==
  /\ WF_vars(Step) /\ WF_vars(FreezeWatch) /\ WF_vars(PresenceFollows)
  /\ WF_vars(GraceEnds) /\ WF_vars(SilenceGrows)
  /\ SF_vars(StepArms /\ armed')
  /\ SF_vars(StepStillLost /\ "development" \in Holders(ctl'))

Spec == Init /\ [][Next]_vars /\ Fairness
-----------------------------------------------------------------------------
(* Properties. *)

(* The watcher never stacks two freezes of its own, through losses,         *)
(* overrides, re-freezes and returns: one return then lifts all it holds.   *)
OneDevelopmentFreeze ==
  Cardinality({e \in ctl.stack : e.source = "development"}) <= 1

(* What the watcher holds it knows about: a freeze of development without a *)
(* loss on record would never be lifted by a returning source.              *)
FreezeIsRemembered == "development" \in Holders(ctl) => lost

(* The freeze follows the source.  Once the source stays up and no other   *)
(* holder stands, the entity resumes for good, although the freeze itself  *)
(* is what the source must show itself through; without its source it ends *)
(* up frozen, however often the freeze was overridden meanwhile; and when  *)
(* development ends no freeze of the watcher is left behind.               *)
FreezeFollowsSource ==
  /\ <>[](sourceUp /\ developing /\ Holders(ctl) \subseteq {"development"}) =>
        <>[](Holders(ctl) = {})
  /\ <>[](~sourceUp /\ developing) => <>[]("development" \in Holders(ctl))
  /\ <>[](~developing) => <>[]("development" \notin Holders(ctl))
=============================================================================
