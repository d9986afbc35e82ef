------------------------- MODULE StimulusWatchProofs -------------------------
(***************************************************************************)
(* For any other holders and any number of losses, overrides and restarts: *)
(* while a release does not raise, the watcher never stacks two freezes,   *)
(* and what it holds it has a loss on record for.                          *)
(***************************************************************************)
EXTENDS StimulusWatch, ControlStateTheorems

CtlInv == WellFormed(ctl) /\ ctl.readable

(* The types, but for the file. *)
FlagsOK ==
  /\ perceiving \in BOOLEAN /\ sourceUp \in BOOLEAN /\ presence \in BOOLEAN
  /\ developing \in BOOLEAN /\ armed \in BOOLEAN /\ inGrace \in BOOLEAN /\ lost \in BOOLEAN

RestOK ==
  /\ pc \in {"idle", "checking", "failed", "declared"}
  /\ silence \in {"none", "brief", "long"}
  /\ streak \in 0 .. 1
  /\ overrides \in 0 .. MaxOverrides /\ starts \in 0 .. MaxStarts
  /\ failures \in 0 .. MaxFailures

(* A loss on record is what an entry goes back to; at most one is held. *)
HoldInv ==
  /\ Count(ctl.stack, "development") <= 1
  /\ ~lost => Count(ctl.stack, "development") = 0
  /\ ~armed => ~lost

DeclaredInv == pc = "declared" => lost

TypeInv == CtlInv /\ FlagsOK /\ RestOK

LEMMA BoundsAreNat == MaxFailures \in Nat /\ MaxOverrides \in Nat /\ MaxStarts \in Nat
BY StimulusWatchAssumption
-----------------------------------------------------------------------------
(* A step of the watcher places its entry, lifts it, or leaves the file. *)
Places == ctl' = push_freeze(ctl, "development")
Lifts == ctl' = pop_freeze(ctl, "development")

LEMMA PlacesOne ==
  ASSUME CtlInv, Places
  PROVE  CtlInv' /\ Count(ctl'.stack, "development") = Count(ctl.stack, "development") + 1
<1>1. "development" \in Sources  BY DEF Sources
<1>2. WellFormed(ctl)'  BY <1>1, PushFreeze DEF CtlInv, Places
<1> QED  BY <1>1, <1>2, PushCount DEF CtlInv, Places

LEMMA LiftsOne ==
  ASSUME CtlInv, Lifts
  PROVE  /\ CtlInv'
         /\ Count(ctl.stack, "development") <= 1 => Count(ctl'.stack, "development") = 0
<1>1. WellFormed(ctl)'  BY PopFreeze DEF CtlInv, Lifts
<1> QED  BY <1>1, PopCount DEF CtlInv, Lifts

LEMMA OthersKeep ==
  ASSUME CtlInv, NEW source \in Others, OtherFreeze(source) \/ OtherRelease(source)
  PROVE  CtlInv' /\ Count(ctl'.stack, "development") = Count(ctl.stack, "development")
<1>1. source \in Sources /\ source # "development"  BY StimulusWatchAssumption
<1>2. CASE OtherFreeze(source)
  <2>1. ctl' = push_freeze(ctl, source)  BY <1>2 DEF OtherFreeze
  <2>2. WellFormed(ctl)'  BY <1>1, <2>1, PushFreeze DEF CtlInv
  <2>3. /\ push_freeze(ctl, source).readable
        /\ Count(push_freeze(ctl, source).stack, "development") = Count(ctl.stack, "development")
    BY <1>1, PushCount DEF CtlInv
  <2> QED  BY <2>1, <2>2, <2>3 DEF CtlInv
<1>3. CASE OtherRelease(source)
  <2>1. ctl' = stand_down(ctl, source)  BY <1>3 DEF OtherRelease
  <2>2. WellFormed(ctl)'  BY <2>1, StandDown DEF CtlInv
  <2>3. WellFormed(ctl) /\ ctl.readable  BY DEF CtlInv
  <2>4. stand_down(ctl, source).readable  BY <2>3, StandDownCount, Zenon
  <2>5. \A other : other # source =>
          Count(stand_down(ctl, source).stack, other) = Count(ctl.stack, other)
    BY <2>3, StandDownCount, Zenon
  <2>6. Count(stand_down(ctl, source).stack, "development") = Count(ctl.stack, "development")
    BY <1>1, <2>5, Zenon
  <2> QED  BY <2>1, <2>2, <2>4, <2>6 DEF CtlInv
<1> QED  BY <1>2, <1>3

LEMMA OverrideClears ==
  ASSUME CtlInv, Override
  PROVE  CtlInv' /\ Count(ctl'.stack, "development") = 0
<1>1. ctl' = override(ctl, {"development"})  BY DEF Override
<1>2. WellFormed(ctl)'  BY <1>1, OverrideLifts DEF CtlInv
<1>3. /\ override(ctl, {"development"}).readable
      /\ Count(override(ctl, {"development"}).stack, "development") = 0
  BY OverrideCount DEF CtlInv
<1> QED  BY <1>1, <1>2, <1>3 DEF CtlInv

LEMMA RestartClears ==
  ASSUME CtlInv, Restart
  PROVE  CtlInv' /\ Count(ctl'.stack, "development") = 0
<1>1. ctl' = unfreeze_for_boot(ctl)  BY DEF Restart
<1>2. WellFormed(ctl)'  BY <1>1, UnfreezeForBoot DEF CtlInv
<1>3. /\ unfreeze_for_boot(ctl).readable
      /\ Count(unfreeze_for_boot(ctl).stack, "development") = 0
  BY BootCount DEF CtlInv
<1> QED  BY <1>1, <1>2, <1>3 DEF CtlInv

(* What each step does to the file. *)
LEMMA FileSteps ==
  ASSUME [Next]_vars
  PROVE  \/ ctl' = ctl \/ Places \/ Lifts \/ Override \/ Restart
         \/ \E source \in Others : OtherFreeze(source) \/ OtherRelease(source)
<1>1. UNCHANGED vars => ctl' = ctl  BY DEF vars
<1>2. World => \/ ctl' = ctl \/ Override
               \/ \E source \in Others : OtherFreeze(source) \/ OtherRelease(source)
  BY DEF World, SourceComesOrGoes, FreezeWatch, PresenceFollows, DevelopmentEnds, GraceEnds, SilenceGrows
<1>3. Step => ctl' = ctl \/ Places \/ Lifts
  BY DEF Step, StepEnded, StepLooks, CheckFails, StepArms, StepWatches, StepLoses, StepDeclared,
         StepStillLost, StepReturns, LiftedAtEnd, Placed, Lifted, Places, Lifts
<1> QED  BY <1>1, <1>2, <1>3 DEF Next

LEMMA CtlStep == CtlInv /\ [Next]_vars => CtlInv'
<1> SUFFICES ASSUME CtlInv, [Next]_vars PROVE CtlInv'
  OBVIOUS
<1>1. CASE ctl' = ctl  BY <1>1 DEF CtlInv
<1> QED  BY <1>1, FileSteps, PlacesOne, LiftsOne, OthersKeep, OverrideClears, RestartClears

LEMMA FlagsStep == FlagsOK /\ [Next]_vars => FlagsOK'
<1> SUFFICES ASSUME FlagsOK, [Next]_vars PROVE FlagsOK'
  OBVIOUS
<1> USE DEF FlagsOK, worldVars
<1>1. CASE UNCHANGED vars  BY <1>1, Zenon DEF vars
<1>2. CASE World
  <2>1. CASE SourceComesOrGoes  BY <2>1 DEF SourceComesOrGoes, watchVars
  <2>2. CASE FreezeWatch  BY <2>2 DEF FreezeWatch, Perceives, watchVars
  <2>3. CASE PresenceFollows  BY <2>3 DEF PresenceFollows, watchVars
  <2>4. CASE DevelopmentEnds  BY <2>4 DEF DevelopmentEnds, watchVars
  <2>5. CASE GraceEnds \/ SilenceGrows  BY <2>5, Zenon DEF GraceEnds, SilenceGrows
  <2>6. ASSUME NEW source \in Others, OtherFreeze(source) \/ OtherRelease(source) PROVE FlagsOK'
    BY <2>6, Zenon DEF OtherFreeze, OtherRelease, watchVars
  <2>7. CASE Override  BY <2>7, Zenon DEF Override, watchVars
  <2> QED  BY <1>2, <2>1, <2>2, <2>3, <2>4, <2>5, <2>6, <2>7 DEF World
<1>3. CASE Step
  <2>1. UNCHANGED <<perceiving, sourceUp, presence, developing>>
    BY <1>3, Zenon DEF Step, StepEnded, StepLooks, CheckFails, StepArms, StepWatches, StepLoses,
                       StepDeclared, StepStillLost, StepReturns
  <2>2. armed' = armed \/ armed' = TRUE
    BY <1>3, Zenon DEF Step, StepEnded, StepLooks, CheckFails, StepArms, StepWatches, StepLoses,
                       StepDeclared, StepStillLost, StepReturns
  <2>3. inGrace' = inGrace \/ inGrace' = TRUE
    BY <1>3, Zenon DEF Step, StepEnded, StepLooks, CheckFails, StepArms, StepWatches, StepLoses,
                       StepDeclared, StepStillLost, StepReturns
  <2>4. lost' = lost \/ lost' = TRUE \/ lost' = FALSE
    BY <1>3, Zenon DEF Step, StepEnded, StepLooks, CheckFails, StepArms, StepWatches, StepLoses,
                       StepDeclared, StepStillLost, StepReturns
  <2> QED  BY <2>1, <2>2, <2>3, <2>4, Zenon
<1>4. CASE Restart  BY <1>4, Zenon DEF Restart
<1> QED  BY <1>1, <1>2, <1>3, <1>4 DEF Next

LEMMA RestStep == RestOK /\ [Next]_vars => RestOK'
<1> SUFFICES ASSUME RestOK, [Next]_vars PROVE RestOK'
  OBVIOUS
<1> USE BoundsAreNat DEF RestOK, watchVars, bounds
<1>1. CASE UNCHANGED vars  BY <1>1 DEF vars
<1>2. CASE World
  <2>1. CASE SourceComesOrGoes \/ DevelopmentEnds \/ GraceEnds \/ SilenceGrows
    BY <2>1 DEF SourceComesOrGoes, DevelopmentEnds, GraceEnds, SilenceGrows
  <2>2. CASE FreezeWatch \/ PresenceFollows
    BY <2>2 DEF FreezeWatch, PresenceFollows
  <2>3. ASSUME NEW source \in Others, OtherFreeze(source) \/ OtherRelease(source) PROVE RestOK'
    BY <2>3 DEF OtherFreeze, OtherRelease
  <2>4. CASE Override  BY <2>4 DEF Override
  <2> QED  BY <1>2, <2>1, <2>2, <2>3, <2>4 DEF World
<1>3. CASE Step
  <2>1. CASE StepEnded \/ StepLooks \/ StepWatches
    BY <2>1 DEF StepEnded, StepLooks, StepWatches
  <2>2. CASE CheckFails  BY <2>2 DEF CheckFails
  <2>3. CASE StepArms
    <3>1. pc' = "idle" /\ streak' \in {streak, 0} /\ UNCHANGED <<silence, overrides, starts, failures>>
      BY <2>3, Zenon DEF StepArms
    <3> QED  BY <3>1
  <2>4. CASE StepLoses \/ StepDeclared \/ StepStillLost
    BY <2>4 DEF StepLoses, StepDeclared, StepStillLost
  <2>5. CASE StepReturns
    <3>1. /\ pc' = "idle" /\ streak' \in {0, 1} /\ silence' \in {silence, "none"}
          /\ UNCHANGED <<overrides, starts, failures>>
      BY <2>5, Zenon DEF StepReturns
    <3> QED  BY <3>1
  <2> QED  BY <1>3, <2>1, <2>2, <2>3, <2>4, <2>5 DEF Step
<1>4. CASE Restart  BY <1>4 DEF Restart
<1> QED  BY <1>1, <1>2, <1>3, <1>4 DEF Next

LEMMA InitType == Init => TypeInv
<1>1. ListOfEntries({})  BY FS_EmptySet DEF ListOfEntries, IsList
<1>2. WellFormed(Readable({})) /\ Readable({}).readable
  BY <1>1 DEF WellFormed, Readable, ControlFiles
<1>3. Init => CtlInv  BY <1>2 DEF Init, CtlInv
<1>4. Init => RestOK  BY BoundsAreNat DEF Init, RestOK
<1>5. Init => FlagsOK  BY DEF Init, FlagsOK
<1> QED  BY <1>3, <1>4, <1>5 DEF TypeInv

THEOREM StimulusTypeCorrect == Spec => []TypeOK
<1>1. TypeInv /\ [Next]_vars => TypeInv'  BY CtlStep, FlagsStep, RestStep DEF TypeInv
<1>2. TypeInv => TypeOK
  BY DEF TypeInv, TypeOK, FlagsOK, RestOK, CtlInv, WellFormed, ListOfEntries
<1> QED  BY <1>1, <1>2, InitType, PTL DEF Spec
-----------------------------------------------------------------------------
(* The entries, as long as a release does not raise. *)

LEMMA DeclaredStep == DeclaredInv /\ [Next]_vars => DeclaredInv'
<1> SUFFICES ASSUME DeclaredInv, [Next]_vars PROVE DeclaredInv'
  OBVIOUS
<1>1. CASE World \/ UNCHANGED vars
  <2>1. UNCHANGED <<pc, lost>>
    BY <1>1, Zenon DEF World, SourceComesOrGoes, FreezeWatch, PresenceFollows, DevelopmentEnds,
         OtherFreeze, OtherRelease, Override, GraceEnds, SilenceGrows, watchVars, vars
  <2> QED  BY <2>1, Zenon DEF DeclaredInv
<1>2. CASE StepEnded \/ StepLooks \/ CheckFails
  <2>1. pc' # "declared"  BY <1>2 DEF StepEnded, StepLooks, CheckFails
  <2> QED  BY <2>1 DEF DeclaredInv
<1>3. CASE StepArms \/ StepWatches \/ StepDeclared \/ StepStillLost \/ StepReturns \/ Restart
  <2>1. pc' = "idle"
    BY <1>3, Zenon DEF StepArms, StepWatches, StepDeclared, StepStillLost, StepReturns, Restart
  <2> QED  BY <2>1 DEF DeclaredInv
<1>4. CASE StepLoses
  <2>1. lost' = TRUE  BY <1>4, Zenon DEF StepLoses
  <2> QED  BY <2>1, Zenon DEF DeclaredInv
<1> QED  BY <1>1, <1>2, <1>3, <1>4 DEF Next, Step

LEMMA HoldStep ==
  ASSUME ~ReleaseFails, CtlInv, DeclaredInv, HoldInv, [Next]_vars
  PROVE  HoldInv'
<1> DEFINE n == Count(ctl.stack, "development")
<1>1. n \in Nat  BY CountType DEF CtlInv
<1>2. (~lost => n = 0) /\ n <= 1 /\ (~armed => ~lost)  BY DEF HoldInv
<1>3. ASSUME n' = n, UNCHANGED <<armed, lost>> PROVE HoldInv'
  BY <1>2, <1>3, Zenon DEF HoldInv
<1>4. ASSUME n' = 0, (~armed => ~lost)' PROVE HoldInv'
  BY <1>4 DEF HoldInv
<1>5. ASSUME lost' = TRUE, armed' = TRUE, n' <= 1 PROVE HoldInv'
  BY <1>5, Zenon DEF HoldInv
<1>6. Lifts => n' = 0  BY <1>2, LiftsOne
<1>7. Places => n' = n + 1  BY PlacesOne
<1> HIDE DEF n
<1>8. CASE UNCHANGED vars
  <2>1. UNCHANGED <<ctl, armed, lost>>  BY <1>8 DEF vars
  <2> QED  BY <1>3, <2>1 DEF n
<1>9. CASE World
  <2>1. UNCHANGED <<armed, lost>>
    BY <1>9, Zenon DEF World, SourceComesOrGoes, FreezeWatch, PresenceFollows, DevelopmentEnds, OtherFreeze,
                OtherRelease, Override, GraceEnds, SilenceGrows, watchVars
  <2>2. \/ ctl' = ctl \/ Override
        \/ \E source \in Others : OtherFreeze(source) \/ OtherRelease(source)
    BY <1>9 DEF World, SourceComesOrGoes, FreezeWatch, PresenceFollows, DevelopmentEnds, GraceEnds, SilenceGrows
  <2>3. CASE ctl' = ctl  BY <1>3, <2>1, <2>3 DEF n
  <2>4. CASE Override
    <3>1. n' = 0  BY <2>4, OverrideClears DEF n
    <3> QED  BY <1>2, <1>4, <2>1, <3>1, Zenon
  <2>5. ASSUME NEW source \in Others, OtherFreeze(source) \/ OtherRelease(source) PROVE HoldInv'
    <3>1. n' = n  BY <2>5, OthersKeep DEF n
    <3> QED  BY <1>3, <2>1, <3>1
  <2> QED  BY <2>2, <2>3, <2>4, <2>5
<1>10. CASE Restart
  <2>1. n' = 0  BY <1>10, RestartClears DEF n
  <2>2. lost' = FALSE  BY <1>10, Zenon DEF Restart
  <2> QED  BY <1>4, <2>1, <2>2, Zenon
<1>11. MissingFreeze(ctl) => n = 0
  BY <1>1, CountType DEF MissingFreeze, CtlInv, n
<1>12. \A file \in Placed(ctl) : file = push_freeze(ctl, "development") \/ file = ctl
  BY Zenon DEF Placed
<1>13. \A file \in Lifted(ctl) : file = pop_freeze(ctl, "development")
  BY Zenon DEF Lifted
<1>14. ctl' \in Placed(ctl) => n' \in {n, n + 1}
  BY <1>7, <1>12 DEF Places, n
<1>15. CASE StepEnded
  <2>1. Lifts /\ lost' = FALSE  BY <1>13, <1>15, Zenon DEF StepEnded, LiftedAtEnd, Lifts
  <2> QED  BY <1>4, <1>6, <2>1, Zenon
<1>16. CASE StepLooks \/ CheckFails \/ StepWatches
  <2>1. UNCHANGED <<ctl, armed, lost>>  BY <1>16, Zenon DEF StepLooks, CheckFails, StepWatches
  <2> QED  BY <1>3, <2>1 DEF n
<1>17. CASE StepArms
  <2>1. n = 0  BY <1>2, <1>17, Zenon DEF StepArms
  <2>2. \/ ctl' = ctl /\ lost' = lost
        \/ lost' = TRUE /\ armed' = TRUE /\ ctl' \in Placed(ctl)
    BY <1>17, Zenon DEF StepArms
  <2>3. lost = FALSE \/ ~lost  BY <1>2, <1>17, Zenon DEF StepArms
  <2>4. CASE ctl' = ctl /\ lost' = lost
    <3>1. n' = 0  BY <2>1, <2>4 DEF n
    <3>2. ~lost'  BY <1>2, <1>17, <2>4, Zenon DEF StepArms
    <3> QED  BY <1>4, <3>1, <3>2, Zenon
  <2>5. CASE lost' = TRUE /\ armed' = TRUE /\ ctl' \in Placed(ctl)
    <3>1. n' <= 1  BY <1>14, <2>1, <2>5
    <3> QED  BY <1>5, <2>5, <3>1
  <2> QED  BY <2>2, <2>4, <2>5
<1>18. CASE StepLoses
  <2>1. armed /\ ~lost /\ armed' = armed /\ lost' = TRUE /\ ctl' \in Placed(ctl)
    BY <1>18, Zenon DEF StepLoses
  <2>2. n = 0  BY <1>2, <2>1, Zenon
  <2>3. n' <= 1  BY <1>14, <2>1, <2>2
  <2>4. lost' /\ armed'  BY <2>1, Zenon
  <2> QED  BY <2>3, <2>4, Zenon DEF HoldInv, n
<1>19. CASE StepDeclared \/ StepStillLost
  <2>1. UNCHANGED <<armed, lost>> /\ ctl' \in IF MissingFreeze(ctl) THEN Placed(ctl) ELSE {ctl}
    BY <1>19, Zenon DEF StepDeclared, StepStillLost
  <2>2. CASE ctl' = ctl  BY <1>3, <2>1, <2>2 DEF n
  <2>3. CASE ctl' # ctl
    <3>1. MissingFreeze(ctl) /\ ctl' \in Placed(ctl)  BY <2>1, <2>3
    <3>2. n = 0 /\ n' = 1  BY <1>7, <1>11, <1>12, <2>3, <3>1 DEF Places
    <3>3. lost  BY <1>19, Zenon DEF StepDeclared, StepStillLost, DeclaredInv
    <3>4. armed /\ armed' /\ lost'  BY <1>2, <2>1, <3>3, Zenon
    <3>5. n' <= 1  BY <3>2
    <3> QED  BY <3>4, <3>5, Zenon DEF HoldInv, n
  <2> QED  BY <2>2, <2>3
<1>20. CASE StepReturns
  <2>1. armed /\ UNCHANGED armed
        /\ (UNCHANGED <<ctl, lost>> \/ (lost' = FALSE /\ ctl' \in Lifted(ctl)))
    BY <1>20, Zenon DEF StepReturns
  <2>2. CASE UNCHANGED <<ctl, lost>>  BY <1>3, <2>1, <2>2 DEF n
  <2>3. CASE lost' = FALSE /\ ctl' \in Lifted(ctl)
    <3>1. n' = 0  BY <1>6, <1>13, <2>3 DEF Lifts
    <3> QED  BY <1>4, <2>3, <3>1, Zenon
  <2> QED  BY <2>1, <2>2, <2>3
<1> QED
  BY <1>8, <1>9, <1>10, <1>15, <1>16, <1>17, <1>18, <1>19, <1>20 DEF Next, Step

HoldsInv == TypeInv /\ DeclaredInv /\ HoldInv

LEMMA InitHolds == Init => HoldsInv
<1> SUFFICES ASSUME Init PROVE DeclaredInv /\ HoldInv
  BY InitType DEF HoldsInv
<1>1. DeclaredInv  BY DEF Init, DeclaredInv
<1>2. ctl.stack = {}  BY DEF Init, Readable
<1>3. EntriesOf({}, "development") = {}  BY DEF EntriesOf
<1>4. Count(ctl.stack, "development") = 0  BY <1>2, <1>3, FS_EmptySet DEF Count
<1>5. HoldInv  BY <1>4 DEF Init, HoldInv
<1> QED  BY <1>1, <1>5

LEMMA HoldsStep == ~ReleaseFails /\ HoldsInv /\ [Next]_vars => HoldsInv'
BY CtlStep, FlagsStep, RestStep, DeclaredStep, HoldStep DEF HoldsInv, TypeInv

(* As long as a release does not raise, the watcher never stacks two freezes *)
(* of its own: the one pop of a return lifts all it holds.                   *)
THEOREM DevelopmentHoldsOnce == ~ReleaseFails => (Spec => []OneDevelopmentFreeze)
<1> SUFFICES ASSUME ~ReleaseFails PROVE Spec => []OneDevelopmentFreeze
  OBVIOUS
<1>1. HoldsInv /\ [Next]_vars => HoldsInv'  BY HoldsStep
<1>2. HoldsInv => OneDevelopmentFreeze
  BY DEF HoldsInv, HoldInv, OneDevelopmentFreeze, Count, EntriesOf
<1> QED  BY <1>1, <1>2, InitHolds, PTL DEF Spec

(* What the watcher holds it has a loss on record for: a freeze without one *)
(* would not be lifted by a returning source.                               *)
THEOREM HeldIsRemembered == ~ReleaseFails => (Spec => [](FreezeIsRemembered))
<1> SUFFICES ASSUME ~ReleaseFails PROVE Spec => []FreezeIsRemembered
  OBVIOUS
<1>1. HoldsInv /\ [Next]_vars => HoldsInv'  BY HoldsStep
<1>2. HoldsInv => FreezeIsRemembered
  <2> SUFFICES ASSUME HoldsInv, "development" \in Holders(ctl) PROVE lost
    BY Zenon DEF FreezeIsRemembered
  <2>1. CtlInv /\ HoldInv  BY DEF HoldsInv, TypeInv
  <2>2. Count(ctl.stack, "development") > 0  BY <2>1, CountType DEF CtlInv
  <2>3. Count(ctl.stack, "development") # 0  BY <2>2
  <2> QED  BY <2>1, <2>3, Zenon DEF HoldInv
<1> QED  BY <1>1, <1>2, InitHolds, PTL DEF Spec
=============================================================================
