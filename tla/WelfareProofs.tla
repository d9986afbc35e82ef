----------------------------- MODULE WelfareProofs -----------------------------
(***************************************************************************)
(* The two halves of the welfare net.                                      *)
(*                                                                         *)
(* The protective response, for any other holders, any configuration, any  *)
(* outcome of the writes and any damage to the control file: one           *)
(* preservation per episode, never two welfare freezes, and no freeze      *)
(* after a named override but for a new crossing.                          *)
(*                                                                         *)
(* The rest stage, for any number of unread events, failures, restarts and *)
(* notices: only a sleep that ran to its end since the request counts as   *)
(* the rest.                                                               *)
(***************************************************************************)
EXTENDS WelfareMonitor, WelfareRest, ControlStateTheorems

(* A file that cannot be read has no entries anyone could count. *)
CtlInv == WellFormed(ctl) /\ (~ctl.readable => ctl.stack = {})

FlagsOK ==
  /\ checked \in BOOLEAN /\ acted \in BOOLEAN /\ pausePlaced \in BOOLEAN
  /\ pending \in BOOLEAN /\ stopping \in BOOLEAN

RestOK ==
  /\ action \in Actions /\ endHook \in EndHooks
  /\ pc \in {"idle", "preserving", "rearming"}
  /\ lifted \in {"nothing", "unreadable_file", "unnoticed_entry", "entry"}
  /\ captures \in 0 .. crossings
  /\ crossings \in 0 .. MaxCrossings
  /\ overrides \in 0 .. MaxOverrides /\ starts \in 0 .. MaxStarts

(* The latch: while the response is armed no welfare entry stands, nothing   *)
(* was captured in this episode and nothing is pending.                      *)
LatchInv ==
  /\ pc # "idle" => checked
  /\ pc = "preserving" => ~acted
  /\ pc = "rearming" => acted /\ ~pending
  /\ ~checked => ~acted
  /\ pausePlaced => acted
  /\ pending => acted /\ ~pausePlaced
  /\ captures <= 1
  /\ (~acted /\ pc # "preserving") => captures = 0

HoldInv ==
  /\ Count(ctl.stack, "welfare") <= 1
  /\ (checked /\ ~acted) => Count(ctl.stack, "welfare") = 0
  /\ pc = "rearming" => Count(ctl.stack, "welfare") = 0

(* After an override of an entry the monitor knows of, nothing of the old   *)
(* episode is left that could freeze.                                       *)
LiftedInv == lifted = "entry" => ~pending /\ pc # "preserving"

IInv == CtlInv /\ FlagsOK /\ RestOK /\ LatchInv /\ HoldInv /\ LiftedInv

LEMMA BoundsAreNat == MaxCrossings \in Nat /\ MaxOverrides \in Nat /\ MaxStarts \in Nat
BY WelfareMonitorAssumption
-----------------------------------------------------------------------------
(* The file. *)

Keeps == CtlInv' /\ Count(ctl'.stack, "welfare") = Count(ctl.stack, "welfare")
Clears == CtlInv' /\ Count(ctl'.stack, "welfare") = 0

LEMMA HeldCounts ==
  ASSUME CtlInv
  PROVE  /\ Count(ctl.stack, "welfare") \in Nat
         /\ ~ctl.readable => Count(ctl.stack, "welfare") = 0
         /\ WelfareHeld <=> Count(ctl.stack, "welfare") > 0
         /\ Released => Count(ctl.stack, "welfare") = 0
<1>1. Count(ctl.stack, "welfare") \in Nat  BY CountType DEF CtlInv
<1>2. ~ctl.readable => Count(ctl.stack, "welfare") = 0
  <2>1. EntriesOf({}, "welfare") = {}  BY DEF EntriesOf
  <2> QED  BY <2>1, FS_EmptySet DEF CtlInv, Count
<1>3. ctl.readable => Holders(ctl) = HoldersOf(ctl.stack)  BY DEF Holders, read_control
<1>4. ctl.readable => (Count(ctl.stack, "welfare") > 0 <=> "welfare" \in Holders(ctl))
  BY CountType DEF CtlInv
<1>5. WelfareHeld <=> Count(ctl.stack, "welfare") > 0
  BY <1>1, <1>2, <1>3, <1>4 DEF WelfareHeld
<1>6. Released => Count(ctl.stack, "welfare") = 0
  BY <1>1, <1>5 DEF Released, HoldersReadable
<1> QED  BY <1>1, <1>2, <1>5, <1>6

LEMMA SameFile == CtlInv /\ ctl' = ctl => Keeps
BY DEF CtlInv, Keeps

(* Of a file that cannot be read a push, a pop and a boot change nothing. *)
LEMMA OthersKeep ==
  ASSUME CtlInv, NEW source \in Others, OtherFreeze(source) \/ OtherRelease(source)
  PROVE  Keeps
<1>1. source \in Sources /\ source # "welfare"  BY WelfareMonitorAssumption
<1>2. CASE ~ctl.readable
  <2>1. ctl' = ctl
    BY <1>2 DEF OtherFreeze, OtherRelease, push_freeze, stand_down, update_stack
  <2> QED  BY <2>1, SameFile
<1>3. CASE ctl.readable /\ OtherFreeze(source)
  <2>1. ctl' = push_freeze(ctl, source)  BY <1>3 DEF OtherFreeze
  <2>2. WellFormed(ctl)'  BY <1>1, <2>1, PushFreeze DEF CtlInv
  <2>3. /\ push_freeze(ctl, source).readable
        /\ Count(push_freeze(ctl, source).stack, "welfare") = Count(ctl.stack, "welfare")
    BY <1>1, <1>3, PushCount DEF CtlInv
  <2> QED  BY <2>1, <2>2, <2>3 DEF CtlInv, Keeps
<1>4. CASE ctl.readable /\ OtherRelease(source)
  <2>1. ctl' = stand_down(ctl, source)  BY <1>4 DEF OtherRelease
  <2>2. WellFormed(ctl)'  BY <2>1, StandDown DEF CtlInv
  <2>3. WellFormed(ctl) /\ ctl.readable  BY <1>4 DEF CtlInv
  <2>4. stand_down(ctl, source).readable  BY <2>3, StandDownCount, Zenon
  <2>5. \A other : other # source =>
          Count(stand_down(ctl, source).stack, other) = Count(ctl.stack, other)
    BY <2>3, StandDownCount, Zenon
  <2>6. Count(stand_down(ctl, source).stack, "welfare") = Count(ctl.stack, "welfare")
    BY <1>1, <2>5, Zenon
  <2> QED  BY <2>1, <2>2, <2>4, <2>6 DEF CtlInv, Keeps
<1> QED  BY <1>2, <1>3, <1>4

LEMMA BootKeeps ==
  ASSUME CtlInv, Restart
  PROVE  Keeps
<1>1. ctl' = unfreeze_for_boot(ctl)  BY DEF Restart
<1>2. CASE ~ctl.readable
  <2>1. ctl' = ctl  BY <1>1, <1>2 DEF unfreeze_for_boot, update_stack
  <2> QED  BY <2>1, SameFile
<1>3. CASE ctl.readable
  <2>1. WellFormed(ctl)'  BY <1>1, UnfreezeForBoot DEF CtlInv
  <2>2. /\ unfreeze_for_boot(ctl).readable
        /\ Count(unfreeze_for_boot(ctl).stack, "welfare") = Count(ctl.stack, "welfare")
    BY <1>3, BootCount DEF CtlInv
  <2> QED  BY <1>1, <2>1, <2>2 DEF CtlInv, Keeps
<1> QED  BY <1>2, <1>3

LEMMA OverrideClears ==
  ASSUME CtlInv, Override
  PROVE  Clears
<1>1. ctl' = override(ctl, {"welfare"})  BY DEF Override
<1>2. WellFormed(ctl)'  BY <1>1, OverrideLifts DEF CtlInv
<1>3. CASE ctl.readable
  <2>1. /\ override(ctl, {"welfare"}).readable
        /\ Count(override(ctl, {"welfare"}).stack, "welfare") = 0
    BY <1>3, OverrideCount DEF CtlInv
  <2> QED  BY <1>1, <1>2, <2>1 DEF CtlInv, Clears
<1>4. CASE ~ctl.readable
  <2>1. ctl' = Readable({})  BY <1>1, <1>4 DEF override
  <2>2. ctl'.readable /\ ctl'.stack = {}  BY <2>1 DEF Readable
  <2>3. EntriesOf({}, "welfare") = {}  BY DEF EntriesOf
  <2> QED  BY <1>2, <2>2, <2>3, FS_EmptySet DEF CtlInv, Clears, Count
<1> QED  BY <1>3, <1>4

LEMMA CorruptClears ==
  ASSUME Corrupt
  PROVE  Clears
<1>1. ctl' = Unreadable /\ Unreadable.stack = {} /\ ~Unreadable.readable
  BY DEF Corrupt, Unreadable
<1>2. ListOfEntries({})  BY FS_EmptySet DEF ListOfEntries, IsList
<1>3. WellFormed(Unreadable)
  BY <1>1, <1>2 DEF WellFormed, Unreadable, ControlFiles
<1>4. EntriesOf({}, "welfare") = {}  BY DEF EntriesOf
<1> QED  BY <1>1, <1>3, <1>4, FS_EmptySet DEF CtlInv, Clears, Count

(* A write of the freeze over none. *)
LEMMA PlaceKeeps ==
  ASSUME CtlInv, NEW outcome, PlaceWelfareFreeze(outcome), Count(ctl.stack, "welfare") = 0
  PROVE  CtlInv' /\ Count(ctl'.stack, "welfare") <= 1
<1>1. CASE ctl' = ctl  BY <1>1 DEF CtlInv
<1>2. CASE ctl.readable /\ ctl' = push_freeze(ctl, "welfare")
  <2>1. "welfare" \in Sources  BY DEF Sources
  <2>2. WellFormed(ctl)'  BY <1>2, <2>1, PushFreeze DEF CtlInv
  <2>3. /\ push_freeze(ctl, "welfare").readable
        /\ Count(push_freeze(ctl, "welfare").stack, "welfare") = 1
    BY <1>2, <2>1, PushCount DEF CtlInv
  <2> QED  BY <1>2, <2>2, <2>3 DEF CtlInv
<1>3. CASE ~ctl.readable /\ ctl' = push_freeze(ctl, "welfare")
  <2>1. ctl' = ctl  BY <1>3 DEF push_freeze, update_stack
  <2> QED  BY <1>1, <2>1
<1> QED  BY <1>1, <1>2, <1>3 DEF PlaceWelfareFreeze
-----------------------------------------------------------------------------
(* Steps outside the monitor leave its latch alone. *)
LEMMA OutsideKeeps ==
  ASSUME IInv, UNCHANGED <<pc, latch, stopping, history, crossings, starts>>, UNCHANGED config,
         overrides' \in 0 .. MaxOverrides, Keeps \/ Clears
  PROVE  IInv'
<1>1. UNCHANGED <<pc, checked, acted, pausePlaced, pending, stopping, captures, lifted, crossings,
                  starts, action, endHook>>
  BY Zenon DEF latch, history, config
<1>2. CtlInv'  BY DEF Keeps, Clears
<1>3. FlagsOK'  BY <1>1, Zenon DEF IInv, FlagsOK
<1>4. RestOK'  BY <1>1 DEF IInv, RestOK
<1>5. LatchInv'  BY <1>1, Zenon DEF IInv, LatchInv
<1>6. LiftedInv'  BY <1>1, Zenon DEF IInv, LiftedInv
<1>7. Count(ctl'.stack, "welfare") = Count(ctl.stack, "welfare") \/ Count(ctl'.stack, "welfare") = 0
  BY DEF Keeps, Clears
<1>8. HoldInv'
  <2>1. Count(ctl'.stack, "welfare") <= 1  BY <1>7 DEF IInv, HoldInv
  <2>2. Count(ctl.stack, "welfare") = 0 => Count(ctl'.stack, "welfare") = 0  BY <1>7
  <2> QED  BY <1>1, <2>1, <2>2, Zenon DEF IInv, HoldInv
<1> QED  BY <1>2, <1>3, <1>4, <1>5, <1>6, <1>8 DEF IInv

LEMMA OverrideKeeps ==
  ASSUME IInv, Override, UNCHANGED config
  PROVE  IInv'
<1>1. UNCHANGED <<pc, checked, acted, pausePlaced, pending, stopping, captures, crossings,
                  starts, action, endHook>>
  BY Zenon DEF Override, latch, config
<1>2. CtlInv' /\ Count(ctl'.stack, "welfare") = 0  BY OverrideClears DEF IInv, Clears
<1>3. FlagsOK'  BY <1>1, Zenon DEF IInv, FlagsOK
<1>4. RestOK'
  <2>1. overrides' \in 0 .. MaxOverrides  BY BoundsAreNat DEF Override, IInv, RestOK
  <2>2. lifted' \in {"nothing", "unreadable_file", "unnoticed_entry", "entry"}  BY DEF Override
  <2> QED  BY <1>1, <2>1, <2>2 DEF IInv, RestOK
<1>5. LatchInv'  BY <1>1, Zenon DEF IInv, LatchInv
<1>6. LiftedInv'
  <2>1. lifted' = "entry" => pausePlaced  BY DEF Override
  <2> QED  BY <1>1, <2>1, Zenon DEF IInv, LatchInv, LiftedInv
<1>7. HoldInv'  BY <1>2 DEF HoldInv
<1> QED  BY <1>2, <1>3, <1>4, <1>5, <1>6, <1>7 DEF IInv

LEMMA AdoptKeeps ==
  ASSUME IInv, Adopt, UNCHANGED config
  PROVE  IInv'
<1>1. /\ ~checked /\ pc = "idle" /\ checked' = TRUE
      /\ acted' = (acted \/ WelfareHeld) /\ pausePlaced' = (pausePlaced \/ WelfareHeld)
      /\ UNCHANGED <<ctl, pc, pending, stopping, captures, lifted, crossings, overrides, starts,
                     action, endHook>>
  BY Zenon DEF Adopt, Polling, history, bounds, config
<1>2. ~acted /\ ~pending /\ ~pausePlaced  BY <1>1, Zenon DEF IInv, LatchInv
<1>3. CtlInv' /\ Count(ctl'.stack, "welfare") = Count(ctl.stack, "welfare")
  BY <1>1 DEF IInv, CtlInv
<1>4. (acted' <=> WelfareHeld) /\ (pausePlaced' <=> WelfareHeld) /\ checked'
  BY <1>1, <1>2, Zenon
<1>5. FlagsOK'
  <2>1. WelfareHeld \in BOOLEAN  BY DEF WelfareHeld, IInv, CtlInv, WellFormed, ControlFiles
  <2> QED  BY <1>1, <2>1 DEF IInv, FlagsOK
<1>6. RestOK'  BY <1>1 DEF IInv, RestOK
<1>7. captures = 0  BY <1>1, <1>2 DEF IInv, LatchInv
<1>8. LatchInv'
  <2>1. captures' = 0 /\ pc' = "idle" /\ captures' <= 1  BY <1>1, <1>7
  <2>2. pc' # "preserving" /\ pc' # "rearming"  BY <2>1
  <2> QED  BY <1>1, <1>2, <1>4, <2>1, <2>2, Zenon DEF LatchInv
<1>9. ~acted' => Count(ctl.stack, "welfare") = 0
  BY <1>4, HeldCounts DEF IInv
<1>10. HoldInv'
  <2>1. Count(ctl'.stack, "welfare") <= 1 /\ pc' # "rearming"  BY <1>1, <1>3 DEF IInv, HoldInv
  <2> QED  BY <1>3, <1>9, <2>1, Zenon DEF HoldInv
<1>11. LiftedInv'  BY <1>1, <1>2 DEF LiftedInv
<1> QED  BY <1>3, <1>5, <1>6, <1>8, <1>10, <1>11 DEF IInv

LEMMA RespondKeeps ==
  ASSUME IInv, Respond, UNCHANGED config
  PROVE  IInv'
<1>1. /\ pc = "idle" /\ checked /\ ~acted /\ crossings < MaxCrossings /\ crossings' = crossings + 1
      /\ pc' = "preserving" /\ captures' = captures + 1 /\ lifted' = "nothing"
      /\ UNCHANGED <<ctl, checked, acted, pausePlaced, pending, stopping, overrides, starts,
                     action, endHook>>
  BY Zenon DEF Respond, Polling, latch, config
<1>2. captures = 0  BY <1>1 DEF IInv, LatchInv
<1>3. CtlInv' /\ Count(ctl'.stack, "welfare") = Count(ctl.stack, "welfare")
  BY <1>1 DEF IInv, CtlInv
<1>4. FlagsOK'  BY <1>1, Zenon DEF IInv, FlagsOK
<1>5. RestOK'  BY <1>1, BoundsAreNat DEF IInv, RestOK
<1>6. LatchInv'
  <2>1. captures' <= 1 /\ pc' # "rearming"  BY <1>1, <1>2
  <2> QED  BY <1>1, <2>1, Zenon DEF IInv, LatchInv
<1>7. HoldInv'
  <2>1. Count(ctl.stack, "welfare") = 0  BY <1>1, Zenon DEF IInv, HoldInv
  <2> QED  BY <1>3, <2>1 DEF HoldInv
<1>8. LiftedInv'  BY <1>1 DEF LiftedInv
<1> QED  BY <1>3, <1>4, <1>5, <1>6, <1>7, <1>8 DEF IInv

LEMMA PauseKeeps ==
  ASSUME IInv, ActPause, UNCHANGED config
  PROVE  IInv'
<1>1. PICK outcome \in FreezeOutcomes :
        /\ PlaceWelfareFreeze(outcome) /\ acted' = TRUE
        /\ pausePlaced' = Placed(outcome) /\ pending' = ~Placed(outcome)
  BY Zenon DEF ActPause, Latches
<1>2. /\ pc = "preserving" /\ pc' = "idle"
      /\ UNCHANGED <<checked, stopping, captures, lifted, crossings, overrides, starts, action,
                     endHook>>
  BY Zenon DEF ActPause, history, bounds, config
<1>3. checked /\ ~acted  BY <1>2, Zenon DEF IInv, LatchInv
<1>4. Count(ctl.stack, "welfare") = 0  BY <1>3, Zenon DEF IInv, HoldInv
<1>5. CtlInv' /\ Count(ctl'.stack, "welfare") <= 1  BY <1>1, <1>4, PlaceKeeps DEF IInv
<1>6. pausePlaced' \in BOOLEAN /\ pending' \in BOOLEAN /\ (pending' => ~pausePlaced')
  BY <1>1, Zenon DEF Placed
<1>7. FlagsOK'  BY <1>1, <1>2, <1>6, Zenon DEF IInv, FlagsOK
<1>8. RestOK'  BY <1>2 DEF IInv, RestOK
<1>9. LatchInv'
  <2>1. pc' # "preserving"  BY <1>2
  <2> QED  BY <1>1, <1>2, <1>3, <1>6, <2>1, Zenon DEF IInv, LatchInv
<1>10. HoldInv'
  <2>1. pc' # "rearming"  BY <1>2
  <2> QED  BY <1>1, <1>5, <2>1, Zenon DEF HoldInv
<1>11. LiftedInv'
  <2>1. lifted' # "entry"  BY <1>2 DEF IInv, LiftedInv
  <2> QED  BY <2>1 DEF LiftedInv
<1> QED  BY <1>5, <1>7, <1>8, <1>9, <1>10, <1>11 DEF IInv

LEMMA EndKeeps ==
  ASSUME IInv, ActEnd, UNCHANGED config
  PROVE  IInv'
<1>1. /\ pc = "preserving" /\ pc' = "idle" /\ stopping' = TRUE /\ acted' = TRUE /\ pausePlaced' = FALSE
      /\ UNCHANGED <<ctl, checked, pending, captures, lifted, crossings, overrides, starts,
                     action, endHook>>
  BY Zenon DEF ActEnd, history, bounds, config
<1>2. checked /\ ~acted  BY <1>1, Zenon DEF IInv, LatchInv
<1>3. CtlInv' /\ Count(ctl'.stack, "welfare") = Count(ctl.stack, "welfare")
  BY <1>1 DEF IInv, CtlInv
<1>4. FlagsOK'  BY <1>1, Zenon DEF IInv, FlagsOK
<1>5. RestOK'  BY <1>1 DEF IInv, RestOK
<1>6. pc' # "preserving" /\ pc' # "rearming"  BY <1>1
<1>7. LatchInv'  BY <1>1, <1>2, <1>6, Zenon DEF IInv, LatchInv
<1>8. HoldInv'  BY <1>1, <1>3, <1>6, Zenon DEF IInv, HoldInv
<1>9. LiftedInv'  BY <1>1 DEF IInv, LiftedInv
<1> QED  BY <1>3, <1>4, <1>5, <1>7, <1>8, <1>9 DEF IInv

(* Armed again, by notify or after a release. *)
LEMMA ArmedKeeps ==
  ASSUME IInv, ActNotify \/ Rearms, UNCHANGED config
  PROVE  IInv'
<1>1. /\ pc \in {"preserving", "rearming"} /\ pc' = "idle" /\ acted' = FALSE /\ pausePlaced' = FALSE
      /\ captures' = 0
      /\ UNCHANGED <<ctl, checked, pending, stopping, lifted, crossings, overrides, starts,
                     action, endHook>>
  BY DEF ActNotify, Rearms, bounds, config
<1>2. checked /\ ~pending /\ Count(ctl.stack, "welfare") = 0
  <2>1. CASE pc = "preserving"  BY <2>1, Zenon DEF IInv, LatchInv, HoldInv
  <2>2. CASE pc = "rearming"  BY <2>2, Zenon DEF IInv, LatchInv, HoldInv
  <2> QED  BY <1>1, <2>1, <2>2
<1>3. CtlInv' /\ Count(ctl'.stack, "welfare") = 0  BY <1>1, <1>2 DEF IInv, CtlInv
<1>4. FlagsOK'  BY <1>1, Zenon DEF IInv, FlagsOK
<1>5. RestOK'  BY <1>1 DEF IInv, RestOK
<1>6. pc' # "preserving" /\ pc' # "rearming" /\ captures' <= 1  BY <1>1
<1>7. LatchInv'  BY <1>1, <1>2, <1>6, Zenon DEF LatchInv
<1>8. HoldInv'  BY <1>3 DEF HoldInv
<1>9. LiftedInv'  BY <1>1, <1>2, <1>6, Zenon DEF LiftedInv
<1> QED  BY <1>3, <1>4, <1>5, <1>7, <1>8, <1>9 DEF IInv

LEMMA RetryKeeps ==
  ASSUME IInv, Retry, UNCHANGED config
  PROVE  IInv'
<1>1. /\ pc = "idle" /\ checked /\ acted /\ pending
      /\ UNCHANGED <<pc, checked, acted, stopping, captures, lifted, crossings, overrides, starts,
                     action, endHook>>
  BY Zenon DEF Retry, Polling, history, bounds, config
<1>2. ~pausePlaced  BY <1>1, Zenon DEF IInv, LatchInv
<1>3. /\ CtlInv' /\ Count(ctl'.stack, "welfare") <= 1
      /\ pending' \in BOOLEAN /\ pausePlaced' \in BOOLEAN /\ (pending' => ~pausePlaced')
  <2>1. CASE FoundInPlace /\ ctl' = ctl /\ pending' = FALSE /\ pausePlaced' = PlacedByRetry
    <3>1. CtlInv' /\ Count(ctl'.stack, "welfare") <= 1  BY <2>1 DEF IInv, CtlInv, HoldInv
    <3> QED  BY <2>1, <3>1, Zenon DEF PlacedByRetry
  <2>2. CASE /\ ~FoundInPlace
             /\ \E outcome \in FreezeOutcomes :
                  /\ PlaceWelfareFreeze(outcome)
                  /\ pending' = PendingAfterRetry(outcome)
                  /\ pausePlaced' = IF Placed(outcome) THEN PlacedByRetry ELSE pausePlaced
    <3>1. PICK outcome \in FreezeOutcomes :
            /\ PlaceWelfareFreeze(outcome) /\ pending' = ~Placed(outcome)
            /\ pausePlaced' = IF Placed(outcome) THEN TRUE ELSE pausePlaced
      BY <2>2, Zenon DEF PendingAfterRetry, PlacedByRetry
    <3>2. Count(ctl.stack, "welfare") = 0
      BY <2>2, HeldCounts DEF IInv, FoundInPlace
    <3>3. CtlInv' /\ Count(ctl'.stack, "welfare") <= 1  BY <3>1, <3>2, PlaceKeeps DEF IInv
    <3>4. CASE outcome = "lands"  BY <3>1, <3>3, <3>4, Zenon DEF Placed
    <3>5. CASE outcome # "lands"
      <4>1. pausePlaced' = pausePlaced /\ pending' = TRUE  BY <3>1, <3>5, Zenon DEF Placed
      <4> QED  BY <1>2, <3>3, <4>1, Zenon DEF IInv, FlagsOK
    <3> QED  BY <3>4, <3>5
  <2> QED  BY <2>1, <2>2, Zenon DEF Retry
<1>4. FlagsOK'  BY <1>1, <1>3, Zenon DEF IInv, FlagsOK
<1>5. RestOK'  BY <1>1 DEF IInv, RestOK
<1>6. pc' # "preserving" /\ pc' # "rearming"  BY <1>1
<1>7. LatchInv'  BY <1>1, <1>3, <1>6, Zenon DEF IInv, LatchInv
<1>8. HoldInv'  BY <1>1, <1>3, <1>6, Zenon DEF HoldInv
<1>9. LiftedInv'
  <2>1. lifted' # "entry"  BY <1>1, Zenon DEF IInv, LiftedInv
  <2> QED  BY <2>1 DEF LiftedInv
<1> QED  BY <1>3, <1>4, <1>5, <1>7, <1>8, <1>9 DEF IInv

LEMMA RearmKeeps ==
  ASSUME IInv, RearmBegins \/ RearmDeferred, UNCHANGED config
  PROVE  IInv'
<1>1. UNCHANGED <<ctl, checked, acted, pausePlaced, pending, stopping, captures, lifted, crossings,
                  overrides, starts, action, endHook>>
  BY Zenon DEF RearmBegins, RearmDeferred, latch, history, bounds, config
<1>2. \/ pc = "idle" /\ checked /\ acted /\ ~pending /\ Released /\ pc' = "rearming"
      \/ pc = "rearming" /\ pc' = "idle"
  BY Zenon DEF RearmBegins, RearmDeferred, Polling
<1>3. CtlInv' /\ Count(ctl'.stack, "welfare") = Count(ctl.stack, "welfare")
  BY <1>1 DEF IInv, CtlInv
<1>4. FlagsOK'  BY <1>1, Zenon DEF IInv, FlagsOK
<1>5. RestOK'  BY <1>1, <1>2 DEF IInv, RestOK
<1>6. checked /\ acted /\ ~pending  BY <1>2, Zenon DEF IInv, LatchInv
<1>7. pc' # "preserving"  BY <1>2
<1>8. LatchInv'  BY <1>1, <1>6, <1>7, Zenon DEF IInv, LatchInv
<1>9. Count(ctl.stack, "welfare") = 0
  <2>1. CASE Released  BY <2>1, HeldCounts DEF IInv
  <2>2. CASE pc = "rearming"  BY <2>2, Zenon DEF IInv, HoldInv
  <2> QED  BY <1>2, <2>1, <2>2
<1>10. HoldInv'  BY <1>3, <1>9 DEF HoldInv
<1>11. LiftedInv'  BY <1>1, <1>6, <1>7, Zenon DEF LiftedInv
<1> QED  BY <1>3, <1>4, <1>5, <1>8, <1>10, <1>11 DEF IInv

LEMMA RestartKeeps ==
  ASSUME IInv, Restart, UNCHANGED config
  PROVE  IInv'
<1>1. /\ pc' = "idle" /\ checked' = FALSE /\ acted' = FALSE /\ pausePlaced' = FALSE /\ pending' = FALSE
      /\ stopping' = FALSE /\ captures' = 0 /\ lifted' = "nothing"
      /\ UNCHANGED <<crossings, overrides, action, endHook>>
  BY Zenon DEF Restart, config
<1>2. starts' \in 0 .. MaxStarts  BY BoundsAreNat DEF Restart, IInv, RestOK
<1>3. CtlInv' /\ Count(ctl'.stack, "welfare") = Count(ctl.stack, "welfare")
  BY BootKeeps DEF IInv, Keeps
<1>4. FlagsOK'  BY <1>1, Zenon DEF FlagsOK
<1>5. RestOK'  BY <1>1, <1>2, BoundsAreNat DEF IInv, RestOK
<1>6. pc' # "preserving" /\ pc' # "rearming" /\ captures' <= 1  BY <1>1
<1>7. LatchInv'  BY <1>1, <1>6, Zenon DEF LatchInv
<1>8. HoldInv'
  <2>1. Count(ctl'.stack, "welfare") <= 1  BY <1>3 DEF IInv, HoldInv
  <2> QED  BY <1>1, <1>6, <2>1, Zenon DEF HoldInv
<1>9. LiftedInv'  BY <1>1 DEF LiftedInv
<1> QED  BY <1>3, <1>4, <1>5, <1>7, <1>8, <1>9 DEF IInv

LEMMA Inductive == IInv /\ [Next]_vars => IInv'
<1> SUFFICES ASSUME IInv, [Next]_vars PROVE IInv'
  OBVIOUS
<1>1. overrides \in 0 .. MaxOverrides  BY DEF IInv, RestOK
<1>2. CASE UNCHANGED vars
  <2>1. Keeps  BY <1>2, SameFile DEF vars, IInv
  <2>2. UNCHANGED <<pc, latch, stopping, history, crossings, starts, overrides, config>>
    BY <1>2, Zenon DEF vars, latch, history
  <2> QED  BY <1>1, <2>1, <2>2, OutsideKeeps
<1>3. ASSUME NEW source \in Others, OtherFreeze(source) \/ OtherRelease(source), UNCHANGED config
      PROVE  IInv'
  <2>1. Keeps  BY <1>3, OthersKeep DEF IInv
  <2>2. UNCHANGED <<pc, latch, stopping, history, crossings, starts, overrides>>
    BY <1>3, Zenon DEF OtherFreeze, OtherRelease, bounds
  <2> QED  BY <1>1, <1>3, <2>1, <2>2, OutsideKeeps
<1>4. ASSUME Corrupt, UNCHANGED config PROVE IInv'
  <2>1. Clears  BY <1>4, CorruptClears
  <2>2. UNCHANGED <<pc, latch, stopping, history, crossings, starts, overrides>>
    BY <1>4, Zenon DEF Corrupt, bounds
  <2> QED  BY <1>1, <1>4, <2>1, <2>2, OutsideKeeps
<1> QED
  BY <1>2, <1>3, <1>4, OverrideKeeps, AdoptKeeps, RespondKeeps, PauseKeeps, EndKeeps, ArmedKeeps,
     RetryKeeps, RearmKeeps, RestartKeeps DEF Next, Step, Poll

LEMMA InitInv == Init => IInv
<1> SUFFICES ASSUME Init PROVE IInv
  OBVIOUS
<1>1. ListOfEntries({})  BY FS_EmptySet DEF ListOfEntries, IsList
<1>2. WellFormed(Readable({})) /\ Readable({}).readable /\ Readable({}).stack = {}
  BY <1>1 DEF WellFormed, Readable, ControlFiles
<1>3. CtlInv /\ ctl.stack = {}  BY <1>2 DEF Init, CtlInv
<1>4. EntriesOf({}, "welfare") = {}  BY DEF EntriesOf
<1>5. Count(ctl.stack, "welfare") = 0  BY <1>3, <1>4, FS_EmptySet DEF Count
<1>6. FlagsOK  BY DEF Init, FlagsOK
<1>7. RestOK  BY BoundsAreNat DEF Init, RestOK
<1>8. LatchInv  BY DEF Init, LatchInv
<1>9. HoldInv /\ LiftedInv  BY <1>5 DEF Init, HoldInv, LiftedInv
<1> QED  BY <1>3, <1>6, <1>7, <1>8, <1>9 DEF IInv

-----------------------------------------------------------------------------
(* WelfareProtectiveMonitor, control_state.py: the monitor and the file it *)
(* writes to stay well typed, the file a list of freezes or unreadable.    *)
THEOREM WelfareTypeCorrect == Spec => []TypeOK
<1>1. IInv => TypeOK
  <2> SUFFICES ASSUME IInv PROVE TypeOK
    OBVIOUS
  <2>1. captures \in 0 .. MaxCrossings  BY BoundsAreNat DEF IInv, RestOK
  <2>2. {checked, acted, pausePlaced, pending, stopping} \subseteq BOOLEAN
    BY DEF IInv, FlagsOK
  <2> QED  BY <2>1, <2>2 DEF TypeOK, IInv, RestOK, CtlInv, WellFormed, ListOfEntries
<1> QED  BY <1>1, InitInv, Inductive, PTL DEF Spec

(* _respond, _retry_pending_freeze: one episode, one preservation, however *)
(* often the freeze has to be tried.                                       *)
THEOREM CapturesOnce == Spec => []OneCapturePerEpisode
<1>1. IInv => OneCapturePerEpisode  BY DEF IInv, LatchInv, OneCapturePerEpisode
<1> QED  BY <1>1, InitInv, Inductive, PTL DEF Spec

(* _place_welfare_freeze, _freeze_now_placed: the monitor never stacks welfare *)
(* freezes, over retries of a write that landed and yet raised, restarts       *)
(* under a standing freeze and re-arming.                                      *)
THEOREM WelfareHoldsOnce == Spec => []OneWelfareFreeze
<1>1. IInv => OneWelfareFreeze
  BY DEF IInv, HoldInv, OneWelfareFreeze, Count, EntriesOf
<1> QED  BY <1>1, InitInv, Inductive, PTL DEF Spec

(* _respond: an episode is answered once, by one capture and one freeze. *)
THEOREM AnsweredOnce == Spec => []OneResponsePerEpisode
<1> QED  BY CapturesOnce, WelfareHoldsOnce, PTL DEF OneResponsePerEpisode

(* _retry_pending_freeze, _maybe_rearm: a named override of an entry the *)
(* monitor knows of stands until a new crossing.                         *)
THEOREM OverrideStands == Spec => OverrideNotUndone
<1> DEFINE Refrozen == "welfare" \notin Holders(ctl) /\ "welfare" \in HoldersOf(ctl'.stack)
           Stands == Refrozen => lifted # "entry"
<1>1. IInv /\ [Next]_vars => [Stands]_vars
  <2> SUFFICES ASSUME IInv, [Next]_vars, Refrozen PROVE lifted # "entry"
    OBVIOUS
  <2>1. ctl.readable /\ ~WelfareHeld
    BY DEF Holders, HoldersOf, read_control, fail_closed_state, WelfareHeld
  <2>2. Count(ctl.stack, "welfare") = 0  BY <2>1, HeldCounts DEF IInv
  <2>3. CtlInv'  BY Inductive DEF IInv
  <2>4. Count(ctl'.stack, "welfare") > 0
    <3>1. EntriesOf(ctl'.stack, "welfare") # {}  BY DEF EntriesOf, HoldersOf
    <3>2. IsFiniteSet(EntriesOf(ctl'.stack, "welfare")) /\ Count(ctl'.stack, "welfare") \in Nat
      BY <2>3, CountType DEF CtlInv
    <3> QED  BY <3>1, <3>2, FS_EmptySet DEF Count
  <2>5. ~Keeps /\ ~Clears  BY <2>2, <2>4 DEF Keeps, Clears
  <2>6. ctl' # ctl  BY <2>5, SameFile DEF IInv
  <2>7. ActPause \/ Retry
    <3>1. ~(\E source \in Others : OtherFreeze(source) \/ OtherRelease(source))
      BY <2>5, OthersKeep DEF IInv
    <3>2. ~Override /\ ~Corrupt /\ ~Restart
      BY <2>5, OverrideClears, CorruptClears, BootKeeps DEF IInv
    <3>3. ~Adopt /\ ~ActEnd /\ ~ActNotify /\ ~Respond /\ ~RearmBegins /\ ~Rearms /\ ~RearmDeferred
      BY <2>6, Zenon DEF Adopt, ActEnd, ActNotify, Respond, RearmBegins, Rearms, RearmDeferred
    <3> QED  BY <2>6, <3>1, <3>2, <3>3, Zenon DEF Next, Step, Poll, vars
  <2>8. ActPause => pc = "preserving"  BY DEF ActPause
  <2>9. Retry => pending  BY Zenon DEF Retry
  <2> QED  BY <2>7, <2>8, <2>9, Zenon DEF IInv, LiftedInv
<1>2. OverrideNotUndone <=> [][Stands]_vars  BY DEF OverrideNotUndone
<1> HIDE DEF Stands
<1> QED  BY <1>1, <1>2, InitInv, Inductive, PTL DEF Spec
-----------------------------------------------------------------------------
(* The rest stage. *)

(* A sleep that ran to its end, and a sign that one stands for the request. *)
Whole(e) == e.kind = "completed" /\ ~e.aborted
Opens(e) == e.kind = "started" \/ (e.kind = "busy" /\ e.id = "current")

NoneWhole(s) == \A i \in DOMAIN s : ~ Whole(s[i])
NoneOpens(s) == \A i \in DOMAIN s : ~ Opens(s[i])
OpenAtEnd(s) == \A i, k \in DOMAIN s : i < k /\ Opens(s[i]) => ~ Whole(s[k])

Stale(e) == e.kind \in {"busy", "refused"} => e.id # "current"

(* A request is the current one only while the monitor follows it. *)
RequestInv ==
  ~ (stage = "resting" /\ ~ latched) =>
    /\ "current" \notin {serving, answering}
    /\ \A i \in DOMAIN inbox : inbox[i] # "current"
    /\ \A i \in DOMAIN stream : Stale(stream[i])
    /\ \A i \in DOMAIN signals : Stale(signals[i])

PollInv ==
  /\ polled = "idle" => signals = <<>>
  /\ latched => polled = "idle"
  /\ answering = "none" => since = 0
  /\ polled = "read" /\ stage # "resting" => OpenAtEnd(stream)

(* While no sleep has run to its end since the request, none that did is   *)
(* behind a sign that one stands for the request.                          *)
WaitInv ==
  stage = "resting" /\ ~ latched /\ ~ rested =>
    /\ OpenAtEnd(signals) /\ OpenAtEnd(stream)
    /\ NoneOpens(signals) \/ NoneWhole(stream)
    /\ began # "no" => NoneWhole(signals) /\ NoneWhole(stream)
    /\ answering = "current" =>
         \A i \in DOMAIN stream : i > Len(stream) - since => ~ Whole(stream[i])

RestInv == RestTypeOK /\ RequestInv /\ PollInv /\ WaitInv /\ FreshMeansRested

(* The end of the sleep in progress, told or not, is not the end of a whole one. *)
LEMMA EventKinds ==
  /\ \A own \in BOOLEAN : /\ Started(own) \in Events /\ ~ Whole(Started(own)) /\ Stale(Started(own))
                          /\ Completed(own, TRUE) \in Events /\ ~ Whole(Completed(own, TRUE))
                          /\ Stale(Completed(own, TRUE)) /\ ~ Opens(Completed(own, TRUE))
                          /\ Completed(own, FALSE) \in Events /\ Stale(Completed(own, FALSE))
                          /\ ~ Opens(Completed(own, FALSE))
  /\ \A id \in Ids, reason \in {"busy", "refused"} :
       /\ Answer(id, reason) \in Events /\ ~ Whole(Answer(id, reason))
       /\ id # "current" => Stale(Answer(id, reason)) /\ ~ Opens(Answer(id, reason))
       /\ reason = "refused" => ~ Opens(Answer(id, reason))
BY DEF Started, Completed, Answer, Events, Whole, Opens, Stale

LEMMA Concatenated ==
  ASSUME NEW p \in Seq(Events), NEW q \in Seq(Events)
  PROVE  /\ p \o q \in Seq(Events) /\ Len(p \o q) = Len(p) + Len(q)
         /\ \A i \in 1 .. Len(p) : (p \o q)[i] = p[i]
         /\ \A i \in 1 .. Len(q) : (p \o q)[Len(p) + i] = q[i]
OBVIOUS

LEMMA SaidBehind ==
  ASSUME NEW p \in Seq(Events), NEW q \in Seq(Events)
  PROVE  /\ p \o q \in Seq(Events) /\ Len(p \o q) = Len(p) + Len(q)
         /\ NoneWhole(p) /\ NoneWhole(q) => NoneWhole(p \o q)
         /\ OpenAtEnd(p) /\ OpenAtEnd(q) /\ (NoneOpens(p) \/ NoneWhole(q)) => OpenAtEnd(p \o q)
         /\ \A i \in DOMAIN (p \o q) :
              \/ i \in DOMAIN p /\ (p \o q)[i] = p[i]
              \/ i > Len(p) /\ i - Len(p) \in DOMAIN q /\ (p \o q)[i] = q[i - Len(p)]
<1> DEFINE r == p \o q
           m == Len(p)
           n == Len(q)
<1>1. /\ r \in Seq(Events) /\ m \in Nat /\ n \in Nat /\ Len(r) = m + n
      /\ DOMAIN p = 1 .. m /\ DOMAIN q = 1 .. n /\ DOMAIN r = 1 .. m + n
  OBVIOUS
<1>2. \A i \in 1 .. m + n :
        \/ i \in 1 .. m /\ r[i] = p[i]
        \/ i > m /\ i - m \in 1 .. n /\ r[i] = q[i - m]
  OBVIOUS
<1> HIDE DEF r, m, n
<1>3. NoneWhole(p) /\ NoneWhole(q) => NoneWhole(r)
  BY <1>1, <1>2 DEF NoneWhole
<1>4. OpenAtEnd(p) /\ OpenAtEnd(q) /\ (NoneOpens(p) \/ NoneWhole(q)) => OpenAtEnd(r)
  <2> SUFFICES ASSUME OpenAtEnd(p), OpenAtEnd(q), NoneOpens(p) \/ NoneWhole(q),
                      NEW i \in 1 .. m + n, NEW k \in 1 .. m + n, i < k, Opens(r[i])
               PROVE  ~ Whole(r[k])
    BY <1>1 DEF OpenAtEnd
  <2>1. CASE k \in 1 .. m
    BY <1>1, <1>2, <2>1 DEF OpenAtEnd
  <2>2. CASE k \notin 1 .. m /\ i \in 1 .. m
    <3>1. r[i] = p[i] /\ k - m \in 1 .. n /\ r[k] = q[k - m]
      BY <1>1, <1>2, <2>2
    <3> QED  BY <1>1, <2>2, <3>1 DEF NoneOpens, NoneWhole
  <2>3. CASE i \notin 1 .. m
    <3>1. i - m \in 1 .. n /\ k - m \in 1 .. n /\ i - m < k - m /\ r[i] = q[i - m] /\ r[k] = q[k - m]
      BY <1>1, <1>2, <2>3
    <3> QED  BY <1>1, <3>1 DEF OpenAtEnd
  <2> QED  BY <2>1, <2>2, <2>3
<1> QED  BY <1>1, <1>2, <1>3, <1>4 DEF r, m, n

(* An answer written behind all but the last n events. *)
LEMMA SaidBetween ==
  ASSUME NEW p \in Seq(Events), NEW n \in 0 .. Len(p), NEW e \in Events, ~ Whole(e)
  PROVE  LET r == SubSeq(p, 1, Len(p) - n) \o <<e>> \o SubSeq(p, Len(p) - n + 1, Len(p))
         IN  /\ r \in Seq(Events)
             /\ \A i \in DOMAIN r : r[i] = e \/ \E k \in DOMAIN p : r[i] = p[k]
             /\ NoneWhole(p) => NoneWhole(r)
             /\ OpenAtEnd(p) /\ (Opens(e) => \A i \in DOMAIN p : i > Len(p) - n => ~ Whole(p[i]))
                  => OpenAtEnd(r)
<1> DEFINE a == SubSeq(p, 1, Len(p) - n)
           b == SubSeq(p, Len(p) - n + 1, Len(p))
           c == Len(p) - n
           r == a \o <<e>> \o b
<1>1. /\ c \in Nat /\ n \in Nat /\ Len(p) = c + n /\ DOMAIN p = 1 .. c + n
      /\ a \in Seq(Events) /\ b \in Seq(Events) /\ Len(a) = c /\ Len(b) = n
      /\ \A i \in 1 .. c : a[i] = p[i]
      /\ \A i \in 1 .. n : b[i] = p[c + i]
  OBVIOUS
<1>2. /\ r \in Seq(Events) /\ DOMAIN r = 1 .. c + 1 + n
      /\ \A i \in 1 .. c : r[i] = a[i]
      /\ r[c + 1] = e
      /\ \A i \in 1 .. n : r[c + 1 + i] = b[i]
  <2> DEFINE d == a \o <<e>>
             one == <<e>>
  <2>0. one \in Seq(Events) /\ Len(one) = 1 /\ one[1] = e
    OBVIOUS
  <2> HIDE DEF a, b, c, one
  <2>1. /\ d \in Seq(Events) /\ Len(d) = c + 1 /\ d[c + 1] = e
        /\ \A i \in 1 .. c : d[i] = a[i]
    <3>1. /\ a \o one \in Seq(Events) /\ Len(a \o one) = Len(a) + Len(one)
          /\ \A i \in 1 .. Len(a) : (a \o one)[i] = a[i]
          /\ \A i \in 1 .. Len(one) : (a \o one)[Len(a) + i] = one[i]
      BY <1>1, <2>0, Concatenated
    <3> QED  BY <1>1, <2>0, <3>1 DEF one
  <2> HIDE DEF d
  <2>2. /\ d \o b \in Seq(Events) /\ DOMAIN (d \o b) = 1 .. c + 1 + n
        /\ \A i \in 1 .. c + 1 : (d \o b)[i] = d[i]
        /\ \A i \in 1 .. n : (d \o b)[c + 1 + i] = b[i]
    <3>1. /\ d \o b \in Seq(Events) /\ Len(d \o b) = Len(d) + Len(b)
          /\ \A i \in 1 .. Len(d) : (d \o b)[i] = d[i]
          /\ \A i \in 1 .. Len(b) : (d \o b)[Len(d) + i] = b[i]
      BY <1>1, <2>1, Concatenated
    <3> QED  BY <1>1, <2>1, <3>1
  <2>3. c + 1 \in 1 .. c + 1 /\ \A i \in 1 .. c : i \in 1 .. c + 1
    BY <1>1
  <2> QED  BY <2>1, <2>2, <2>3 DEF d
<1> HIDE DEF a, b, r
<1>3. \A i \in 1 .. c + 1 + n :
        \/ i \in 1 .. c /\ r[i] = p[i]
        \/ i = c + 1 /\ r[i] = e
        \/ i > c + 1 /\ i - 1 \in c + 1 .. c + n /\ r[i] = p[i - 1]
  <2> SUFFICES ASSUME NEW i \in 1 .. c + 1 + n, i > c + 1
               PROVE  i - 1 \in c + 1 .. c + n /\ r[i] = p[i - 1]
    <3> HIDE DEF c
    <3> QED  BY <1>1, <1>2
  <2> HIDE DEF c
  <2>1. i - (c + 1) \in 1 .. n
    BY <1>1
  <2>2. r[c + 1 + (i - (c + 1))] = b[i - (c + 1)] /\ b[i - (c + 1)] = p[c + (i - (c + 1))]
    BY <1>1, <1>2, <2>1
  <2>3. c + 1 + (i - (c + 1)) = i /\ c + (i - (c + 1)) = i - 1
    <3>1. c \in Int /\ i \in Int
      BY <1>1
    <3> HIDE <1>1
    <3> QED  BY <3>1
  <2> QED  BY <1>1, <2>1, <2>2, <2>3
<1> HIDE DEF c
<1>4. \A i \in DOMAIN r : r[i] = e \/ \E k \in DOMAIN p : r[i] = p[k]
  <2>1. \A i \in c + 1 .. c + n : i \in 1 .. c + n
    BY <1>1
  <2>2. \A i \in 1 .. c : i \in 1 .. c + n
    BY <1>1
  <2> QED  BY <1>1, <1>2, <1>3, <2>1, <2>2
<1>5. NoneWhole(p) => NoneWhole(r)
  BY <1>4 DEF NoneWhole
<1>6. OpenAtEnd(p) /\ (Opens(e) => \A i \in DOMAIN p : i > c => ~ Whole(p[i])) => OpenAtEnd(r)
  <2> SUFFICES ASSUME OpenAtEnd(p), Opens(e) => \A i \in DOMAIN p : i > c => ~ Whole(p[i]),
                      NEW i \in 1 .. c + 1 + n, NEW k \in 1 .. c + 1 + n, i < k, Opens(r[i])
               PROVE  ~ Whole(r[k])
    BY <1>2 DEF OpenAtEnd
  <2>1. CASE k = c + 1
    BY <1>2, <2>1
  <2>2. CASE i = c + 1
    <3>1. k - 1 \in DOMAIN p /\ k - 1 > c /\ r[k] = p[k - 1]
      BY <1>1, <1>3, <2>2
    <3> QED  BY <1>2, <2>2, <3>1
  <2>3. CASE i # c + 1 /\ k # c + 1
    <3> DEFINE Before(z) == IF z > c + 1 THEN z - 1 ELSE z
    <3>1. \A z \in 1 .. c + 1 + n : z # c + 1 => Before(z) \in 1 .. c + n /\ r[z] = p[Before(z)]
      BY <1>1, <1>3
    <3>2. Before(i) < Before(k)
      BY <1>1, <2>3
    <3> HIDE DEF Before
    <3> QED  BY <1>1, <2>3, <3>1, <3>2 DEF OpenAtEnd
  <2> QED  BY <2>1, <2>2, <2>3
<1> QED  BY <1>2, <1>4, <1>5, <1>6 DEF r, a, b, c

(* What is left of a batch. *)
LEMMA Rest ==
  ASSUME NEW s \in Seq(Events), s # <<>>
  PROVE  /\ Tail(s) \in Seq(Events) /\ Head(s) \in Events /\ Head(s) = s[1] /\ 1 \in DOMAIN s
         /\ \A i \in DOMAIN Tail(s) : i + 1 \in DOMAIN s /\ Tail(s)[i] = s[i + 1]
         /\ OpenAtEnd(s) => OpenAtEnd(Tail(s)) /\ (Opens(Head(s)) => NoneWhole(Tail(s)))
         /\ NoneWhole(s) => NoneWhole(Tail(s))
         /\ NoneOpens(s) => NoneOpens(Tail(s))
<1>1. /\ Tail(s) \in Seq(Events) /\ Head(s) \in Events /\ Head(s) = s[1] /\ 1 \in DOMAIN s
      /\ \A i \in DOMAIN Tail(s) : i \in Nat \ {0} /\ i + 1 \in DOMAIN s /\ Tail(s)[i] = s[i + 1]
  OBVIOUS
<1>2. OpenAtEnd(s) => OpenAtEnd(Tail(s)) /\ (Opens(Head(s)) => NoneWhole(Tail(s)))
  BY <1>1 DEF OpenAtEnd, NoneWhole
<1>3. NoneWhole(s) => NoneWhole(Tail(s))
  BY <1>1 DEF NoneWhole
<1>4. NoneOpens(s) => NoneOpens(Tail(s))
  BY <1>1 DEF NoneOpens
<1> QED  BY <1>1, <1>2, <1>3, <1>4

-----------------------------------------------------------------------------
(* The sleep module's side. *)

Typed ==
  /\ signals \in Seq(Events) /\ stream \in Seq(Events) /\ inbox \in Seq(Ids)
  /\ since \in 0 .. Len(stream)

Flags ==
  /\ response \in Responses
  /\ ill \in BOOLEAN /\ latched \in BOOLEAN /\ up \in BOOLEAN /\ rested \in BOOLEAN
  /\ stage \in {"armed", "resting", "fresh"} /\ began \in {"no", "started", "standing"}
  /\ polled \in {"idle", "read"}
  /\ st \in {"none", "pending", "asleep", "over", "cut"}
  /\ serving \in Maybe /\ answering \in Maybe

Counted ==
  /\ faults \in 0 .. MaxFaults /\ restarts \in 0 .. MaxRestarts
  /\ releases \in 0 .. MaxReleases /\ notices \in 0 .. MaxNotices

LEMMA RestTypeParts == RestTypeOK <=> Typed /\ Flags /\ Counted
BY DEF RestTypeOK, Typed, Flags, Counted

Held == Typed /\ RequestInv /\ PollInv /\ WaitInv /\ FreshMeansRested

(* Events said in the order they were made, none of them the end of a sleep *)
(* that ran to its end, or all of them when one just did.                   *)
LEMMA SayKeeps ==
  ASSUME Held, NEW q \in Seq(Events), Say(q),
         NoneWhole(q) \/ rested', OpenAtEnd(q),
         polled = "read" /\ ~ NoneWhole(q) => NoneOpens(stream) \/ stage = "resting",
         "current" \notin {serving, answering} => \A i \in DOMAIN q : Stale(q[i]),
         (rested' = rested) \/ rested',
         serving' \in {serving, "none"},
         UNCHANGED <<stage, latched, began, polled, signals, inbox, answering>>
  PROVE  Held'
<1>1. /\ stream' = stream \o q /\ stream \in Seq(Events) /\ Len(stream) \in Nat /\ Len(q) \in Nat
      /\ since' = IF answering = "none" THEN 0 ELSE since + Len(q)
      /\ since \in 0 .. Len(stream)
  BY DEF Say, Held, Typed
<1>2. /\ stream' \in Seq(Events) /\ Len(stream') = Len(stream) + Len(q)
      /\ NoneWhole(stream) /\ NoneWhole(q) => NoneWhole(stream')
      /\ OpenAtEnd(stream) /\ OpenAtEnd(q) /\ (NoneOpens(stream) \/ NoneWhole(q)) => OpenAtEnd(stream')
      /\ \A i \in DOMAIN stream' :
           \/ i \in DOMAIN stream /\ stream'[i] = stream[i]
           \/ i > Len(stream) /\ i - Len(stream) \in DOMAIN q /\ stream'[i] = q[i - Len(stream)]
  BY <1>1, SaidBehind
<1>3. Typed'
  BY <1>1, <1>2 DEF Held, Typed
<1>4. RequestInv'
  <2> SUFFICES ASSUME ~ (stage = "resting" /\ ~ latched) PROVE RequestInv'
    BY DEF RequestInv
  <2>1. /\ "current" \notin {serving, answering}
        /\ \A i \in DOMAIN inbox : inbox[i] # "current"
        /\ \A i \in DOMAIN stream : Stale(stream[i])
        /\ \A i \in DOMAIN signals : Stale(signals[i])
    BY DEF Held, RequestInv
  <2>2. \A i \in DOMAIN q : Stale(q[i])
    BY <2>1
  <2>3. \A i \in DOMAIN stream' : Stale(stream'[i])
    BY <1>2, <2>1, <2>2
  <2> QED  BY <2>1, <2>3 DEF RequestInv
<1>5. PollInv'
  <2>1. polled = "read" /\ stage # "resting" => OpenAtEnd(stream')
    BY <1>2 DEF Held, PollInv
  <2> QED  BY <1>1, <2>1 DEF Held, PollInv
<1>6. WaitInv'
  <2> SUFFICES ASSUME stage = "resting", ~ latched, ~ rested' PROVE WaitInv'
    BY DEF WaitInv
  <2>1. NoneWhole(q) /\ ~ rested
    OBVIOUS
  <2>2. /\ OpenAtEnd(signals) /\ OpenAtEnd(stream)
        /\ NoneOpens(signals) \/ NoneWhole(stream)
        /\ began # "no" => NoneWhole(signals) /\ NoneWhole(stream)
        /\ answering = "current" =>
             \A i \in DOMAIN stream : i > Len(stream) - since => ~ Whole(stream[i])
    BY <2>1 DEF Held, WaitInv
  <2>3. ASSUME answering = "current", NEW i \in DOMAIN stream', i > Len(stream') - since'
        PROVE  ~ Whole(stream'[i])
    <3>1. Len(stream') - since' = Len(stream) - since
      BY <1>1, <1>2, <2>3
    <3>2. CASE i \in DOMAIN stream /\ stream'[i] = stream[i]
      BY <2>2, <2>3, <3>1, <3>2
    <3>3. CASE i - Len(stream) \in DOMAIN q /\ stream'[i] = q[i - Len(stream)]
      BY <2>1, <3>3 DEF NoneWhole
    <3> QED  BY <1>2, <3>2, <3>3
  <2> QED  BY <1>2, <2>1, <2>2, <2>3 DEF WaitInv
<1> QED  BY <1>3, <1>4, <1>5, <1>6 DEF Held, FreshMeansRested

(* The busy answer lands behind what was said since it was due. *)
LEMMA AnswerKeeps ==
  ASSUME Held, Flags, answering # "none", answering' = "none",
         SayAnswer(Answer(answering, "busy")) \/ Unsaid,
         UNCHANGED <<stage, latched, began, polled, signals, inbox, serving, rested>>
  PROVE  Held'
<1>1. CASE Unsaid
  <2>1. UNCHANGED stream /\ since' = 0
    BY <1>1 DEF Unsaid
  <2>2. Typed' /\ RequestInv' /\ PollInv' /\ WaitInv'
    BY <2>1 DEF Held, Typed, RequestInv, PollInv, WaitInv
  <2> QED  BY <2>2 DEF Held, FreshMeansRested
<1>2. CASE SayAnswer(Answer(answering, "busy"))
  <2> DEFINE e == Answer(answering, "busy")
             r == SubSeq(stream, 1, Len(stream) - since) \o <<e>>
                    \o SubSeq(stream, Len(stream) - since + 1, Len(stream))
  <2>1. answering \in Ids
    BY DEF Flags, Maybe
  <2>2. /\ e \in Events /\ ~ Whole(e)
        /\ answering # "current" => Stale(e) /\ ~ Opens(e)
    BY <2>1, EventKinds
  <2>3. stream \in Seq(Events) /\ since \in 0 .. Len(stream) /\ stream' = r /\ since' = 0
    BY <1>2 DEF Held, Typed, SayAnswer
  <2> HIDE DEF e
  <2>4. /\ r \in Seq(Events)
        /\ \A i \in DOMAIN r : r[i] = e \/ \E k \in DOMAIN stream : r[i] = stream[k]
        /\ NoneWhole(stream) => NoneWhole(r)
        /\ OpenAtEnd(stream) /\ (Opens(e) => \A i \in DOMAIN stream : i > Len(stream) - since => ~ Whole(stream[i]))
             => OpenAtEnd(r)
    BY <2>2, <2>3, SaidBetween
  <2> HIDE DEF r
  <2>5. Typed'
    BY <2>3, <2>4 DEF Held, Typed
  <2>6. RequestInv'
    BY <2>2, <2>3, <2>4 DEF Held, RequestInv
  <2>7. polled = "read" /\ stage # "resting" => OpenAtEnd(stream')
    BY <2>2, <2>3, <2>4 DEF Held, PollInv, RequestInv
  <2>8. PollInv'
    BY <2>3, <2>7 DEF Held, PollInv
  <2>9. WaitInv'
    BY <2>2, <2>3, <2>4 DEF Held, WaitInv
  <2> QED  BY <2>5, <2>6, <2>8, <2>9 DEF Held, FreshMeansRested
<1> QED  BY <1>1, <1>2

(* Steps that leave the streams and what the monitor knows alone. *)
LEMMA OthersHeld ==
  ASSUME Held, UNCHANGED <<stage, latched, began, polled, signals, inbox, stream, since,
                           answering, rested>>,
         serving' \in {serving, "none", "old"}
  PROVE  Held'
<1>1. Typed' /\ RequestInv' /\ PollInv' /\ WaitInv'
  BY DEF Held, Typed, RequestInv, PollInv, WaitInv
<1> QED  BY <1>1 DEF Held, FreshMeansRested

(* One request is taken from the stream: it begins a sleep, or is due an answer. *)
LEMMA RequestTaken ==
  ASSUME Held, HandleRequest
  PROVE  Held'
<1>1. /\ inbox \in Seq(Ids) /\ inbox # <<>> /\ inbox' = Tail(inbox) /\ answering = "none" /\ since = 0
      /\ UNCHANGED <<stage, latched, began, polled, signals, stream, since, rested>>
      /\ \/ answering' = Head(inbox) /\ serving' = serving
         \/ answering' = answering /\ serving' = Head(inbox)
  BY DEF HandleRequest, Held, Typed, PollInv, monitor
<1>2. /\ Tail(inbox) \in Seq(Ids) /\ Head(inbox) = inbox[1] /\ 1 \in DOMAIN inbox
      /\ \A i \in DOMAIN Tail(inbox) : i + 1 \in DOMAIN inbox /\ Tail(inbox)[i] = inbox[i + 1]
  BY <1>1
<1>3. Typed'
  BY <1>1, <1>2 DEF Held, Typed
<1>4. RequestInv'
  BY <1>1, <1>2 DEF Held, RequestInv
<1>5. PollInv'
  BY <1>1 DEF Held, PollInv
<1>6. WaitInv'
  <2>1. \A i \in DOMAIN stream : ~ (i > Len(stream) - 0)
    BY DEF Held, Typed
  <2> QED  BY <1>1, <2>1 DEF Held, WaitInv
<1> QED  BY <1>1, <1>3, <1>4, <1>5, <1>6 DEF Held, FreshMeansRested

LEMMA ShortWords ==
  /\ <<>> \in Seq(Events) /\ NoneWhole(<<>>) /\ OpenAtEnd(<<>>) /\ \A i \in DOMAIN <<>> : Stale(<<>>[i])
  /\ \A e \in Events :
       /\ <<e>> \in Seq(Events) /\ OpenAtEnd(<<e>>)
       /\ ~ Whole(e) => NoneWhole(<<e>>)
       /\ Stale(e) => \A i \in DOMAIN <<e>> : Stale(<<e>>[i])
  /\ \A e, f \in Events :
       /\ <<e>> \o <<f>> \in Seq(Events)
       /\ ~ Whole(e) /\ ~ Whole(f) =>
            /\ NoneWhole(<<e>> \o <<f>>) /\ OpenAtEnd(<<e>> \o <<f>>)
       /\ Stale(e) /\ Stale(f) => \A i \in DOMAIN (<<e>> \o <<f>>) : Stale((<<e>> \o <<f>>)[i])
<1>1. <<>> \in Seq(Events) /\ NoneWhole(<<>>) /\ OpenAtEnd(<<>>) /\ \A i \in DOMAIN <<>> : Stale(<<>>[i])
  BY DEF NoneWhole, OpenAtEnd
<1>2. ASSUME NEW e \in Events
      PROVE  /\ <<e>> \in Seq(Events) /\ OpenAtEnd(<<e>>)
             /\ ~ Whole(e) => NoneWhole(<<e>>)
             /\ Stale(e) => \A i \in DOMAIN <<e>> : Stale(<<e>>[i])
  <2>1. <<e>> \in Seq(Events) /\ DOMAIN <<e>> = {1} /\ <<e>>[1] = e
    OBVIOUS
  <2>2. ~ (1 < 1)
    OBVIOUS
  <2> DEFINE s == <<e>>
  <2> HIDE DEF s
  <2> QED  BY <2>1, <2>2 DEF NoneWhole, OpenAtEnd
<1>3. ASSUME NEW e \in Events, NEW f \in Events
      PROVE  /\ <<e>> \o <<f>> \in Seq(Events)
             /\ ~ Whole(e) /\ ~ Whole(f) =>
                  /\ NoneWhole(<<e>> \o <<f>>) /\ OpenAtEnd(<<e>> \o <<f>>)
             /\ Stale(e) /\ Stale(f) => \A i \in DOMAIN (<<e>> \o <<f>>) : Stale((<<e>> \o <<f>>)[i])
  <2> DEFINE s == <<e>> \o <<f>>
  <2>1. s \in Seq(Events) /\ DOMAIN s = 1 .. 2 /\ s[1] = e /\ s[2] = f
    OBVIOUS
  <2>2. \A i \in 1 .. 2 : i = 1 \/ i = 2
    OBVIOUS
  <2> HIDE DEF s
  <2>3. \A i \in DOMAIN s : s[i] = e \/ s[i] = f
    BY <2>1, <2>2
  <2>4. ~ Whole(e) /\ ~ Whole(f) => NoneWhole(s) /\ OpenAtEnd(s)
    BY <2>3 DEF NoneWhole, OpenAtEnd
  <2>5. Stale(e) /\ Stale(f) => \A i \in DOMAIN s : Stale(s[i])
    BY <2>3
  <2> QED  BY <2>1, <2>4, <2>5 DEF s
<1> QED  BY <1>1, <1>2, <1>3

(* A sleep that is cut says so, or nothing. *)
LEMMA CutKeeps ==
  ASSUME Held, Flags, NEW before, before = <<>> \/ before = <<Started(Own)>>, Cut(before),
         UNCHANGED <<stage, latched, began, polled, signals, inbox, answering, rested, serving>>
  PROVE  Held'
<1>1. Own \in BOOLEAN
  BY DEF Own
<1>2. /\ Started(Own) \in Events /\ ~ Whole(Started(Own)) /\ Stale(Started(Own))
      /\ Completed(Own, TRUE) \in Events /\ ~ Whole(Completed(Own, TRUE)) /\ Stale(Completed(Own, TRUE))
  BY <1>1, EventKinds
<1> DEFINE a == Started(Own)
           b == Completed(Own, TRUE)
<1>3. a \in Events /\ ~ Whole(a) /\ Stale(a) /\ b \in Events /\ ~ Whole(b) /\ Stale(b)
  BY <1>2
<1>4. Say(before \o <<b>>) \/ Say(before)
  BY DEF Cut
<1>5. <<>> \o <<b>> = <<b>>
  OBVIOUS
<1>6. PICK q : Say(q) /\ q \in {<<>>, <<a>>, <<b>>, <<a>> \o <<b>>}
  BY <1>4, <1>5
<1> HIDE DEF a, b
<1>7. q \in Seq(Events) /\ NoneWhole(q) /\ OpenAtEnd(q) /\ \A i \in DOMAIN q : Stale(q[i])
  <2>1. CASE q = <<>>
    BY <2>1, ShortWords
  <2>2. CASE q = <<a>>
    BY <2>2, <1>3, ShortWords
  <2>3. CASE q = <<b>>
    BY <2>3, <1>3, ShortWords
  <2>4. CASE q = <<a>> \o <<b>>
    BY <2>4, <1>3, ShortWords
  <2> QED  BY <1>6, <2>1, <2>2, <2>3, <2>4
<1> QED  BY <1>6, <1>7, SayKeeps

LEMMA SleepSideStep ==
  ASSUME Held, Flags, SleepSide
  PROVE  Held'
<1>1. CASE OtherSleep \/ Starts
  <2>1. CASE OtherSleep
    BY <2>1, OthersHeld DEF OtherSleep, monitor, bus
  <2>2. CASE Starts
    <3>1. inbox' = <<>> /\ UNCHANGED <<stage, latched, began, polled, signals, stream, since,
                                       answering, rested, serving>>
      BY <2>2 DEF Starts, monitor
    <3>2. Typed' /\ RequestInv' /\ PollInv' /\ WaitInv'
      BY <3>1 DEF Held, Typed, RequestInv, PollInv, WaitInv
    <3> QED  BY <3>1, <3>2 DEF Held, FreshMeansRested
  <2> QED  BY <1>1, <2>1, <2>2
<1>2. CASE HandleRequest
  BY <1>2, RequestTaken
<1>3. CASE AnswerBusy
  <2>1. SayAnswer(Answer(answering, "busy")) \/ Unsaid
    BY <1>3 DEF AnswerBusy
  <2>2. answering # "none" /\ answering' = "none"
        /\ UNCHANGED <<stage, latched, began, polled, signals, inbox, serving, rested>>
    BY <1>3 DEF AnswerBusy, monitor
  <2> QED  BY <2>1, <2>2, AnswerKeeps
<1>4. CASE Begin
  <2> DEFINE a == Started(Own)
  <2>1. a \in Events /\ ~ Whole(a) /\ Stale(a)
    BY EventKinds DEF Own
  <2>2. /\ Say(<<a>>)
        /\ UNCHANGED <<stage, latched, began, polled, signals, inbox, serving, answering, rested>>
    BY <1>4 DEF Begin, monitor
  <2> HIDE DEF a
  <2>3. <<a>> \in Seq(Events) /\ NoneWhole(<<a>>) /\ OpenAtEnd(<<a>>) /\ \A i \in DOMAIN <<a>> : Stale(<<a>>[i])
    BY <2>1, ShortWords
  <2> QED  BY <2>2, <2>3, SayKeeps
<1>5. CASE BeginFails \/ Fails
  <2>1. PICK before : (before = <<>> \/ before = <<Started(Own)>>) /\ Cut(before)
    BY <1>5 DEF BeginFails, Fails
  <2>2. UNCHANGED <<stage, latched, began, polled, signals, inbox, serving, answering, rested>>
    BY <1>5 DEF BeginFails, Fails, monitor
  <2> QED  BY <2>1, <2>2, CutKeeps
<1>6. CASE Finish
  <2> DEFINE a == Completed(Own, FALSE)
  <2>1. a \in Events /\ Stale(a) /\ ~ Opens(a)
    BY EventKinds DEF Own
  <2>2. /\ Say(<<a>>) /\ rested' /\ (polled = "read" => \A i \in DOMAIN stream : stream[i].kind # "started")
        /\ UNCHANGED <<stage, latched, began, polled, signals, inbox, serving, answering>>
    BY <1>6 DEF Finish, Outlasts, monitor
  <2> HIDE DEF a
  <2>3. <<a>> \in Seq(Events) /\ OpenAtEnd(<<a>>) /\ \A i \in DOMAIN <<a>> : Stale(<<a>>[i])
    BY <2>1, ShortWords
  <2>4. polled = "read" => NoneOpens(stream) \/ stage = "resting"
    BY <2>2 DEF Held, RequestInv, NoneOpens, Opens, Stale
  <2> QED  BY <2>2, <2>3, <2>4, SayKeeps
<1>7. CASE Settle
  <2> DEFINE a == Answer(serving, "refused")
  <2>1. UNCHANGED <<stage, latched, began, polled, signals, inbox, answering,
                    rested>> /\ serving' = "none"
    BY <1>7 DEF Settle, monitor
  <2>2. CASE Say(<<>>)
    BY <2>1, <2>2, ShortWords, SayKeeps
  <2>3. CASE Own /\ Say(<<a>>)
    <3>1. serving \in Ids
      BY <2>3 DEF Flags, Maybe, Own
    <3>2. a \in Events /\ ~ Whole(a) /\ (serving # "current" => Stale(a))
      BY <3>1, EventKinds
    <3> HIDE DEF a
    <3>3. <<a>> \in Seq(Events) /\ NoneWhole(<<a>>) /\ OpenAtEnd(<<a>>)
          /\ (serving # "current" => \A i \in DOMAIN <<a>> : Stale(<<a>>[i]))
      BY <3>2, ShortWords
    <3> QED  BY <2>1, <2>3, <3>3, SayKeeps
  <2> QED  BY <1>7, <2>2, <2>3 DEF Settle
<1>8. CASE Stops
  <2>1. /\ Unsaid /\ answering' = "none"
        /\ UNCHANGED <<stage, latched, began, polled, signals, inbox, serving, rested>>
    BY <1>8 DEF Stops, monitor
  <2>2. CASE answering # "none"
    BY <2>1, <2>2, AnswerKeeps
  <2>3. CASE answering = "none"
    <3>1. UNCHANGED <<stream, since, answering>>
      BY <2>1, <2>3 DEF Unsaid, Held, PollInv
    <3> QED  BY <2>1, <3>1, OthersHeld
  <2> QED  BY <2>2, <2>3
<1>9. CASE Cancelled
  <2>1. UNCHANGED <<stage, latched, began, polled, signals, inbox, answering, rested>>
    BY <1>9 DEF Cancelled, monitor
  <2>2. CASE Say(<<>>) /\ serving' = "none"
    BY <2>1, <2>2, ShortWords, SayKeeps
  <2>3. CASE Cut(<<>>) /\ UNCHANGED serving
    BY <2>1, <2>3, CutKeeps
  <2> QED  BY <1>9, <2>2, <2>3 DEF Cancelled
<1> QED  BY <1>1, <1>2, <1>3, <1>4, <1>5, <1>6, <1>7, <1>8, <1>9 DEF SleepSide
-----------------------------------------------------------------------------
(* The monitor's side. *)

(* The request the monitor gives up is an older one from then on. *)
LEMMA AllAged ==
  ASSUME Held, Flags, RequestEnds, signals' = <<>>, polled' = "idle",
         stage' = "fresh" => rested', stage' # "resting" \/ latched'
  PROVE  Held'
<1>1. /\ inbox' = [i \in DOMAIN inbox |-> AgedId(inbox[i])]
      /\ serving' = AgedId(serving) /\ answering' = AgedId(answering)
      /\ stream' = Aged(stream) /\ since' = since
  BY DEF RequestEnds
<1>2. inbox \in Seq(Ids) /\ stream \in Seq(Events) /\ since \in 0 .. Len(stream)
  BY DEF Held, Typed
<1>3. \A id \in Ids : AgedId(id) \in Ids /\ AgedId(id) # "current"
  BY DEF AgedId, Ids
<1>4. \A e \in Events :
        LET f == IF e.kind \in {"busy", "refused"} THEN [e EXCEPT !.id = AgedId(@)] ELSE e
        IN  f \in Events /\ Stale(f)
  <2> SUFFICES ASSUME NEW e \in Events
               PROVE  LET f == IF e.kind \in {"busy", "refused"} THEN [e EXCEPT !.id = AgedId(@)] ELSE e
                      IN  f \in Events /\ Stale(f)
    OBVIOUS
  <2>1. CASE e.kind \in {"busy", "refused"}
    <3>1. e \in [kind : {"busy", "refused"}, id : Ids]
      BY <2>1 DEF Events
    <3>2. [e EXCEPT !.id = AgedId(@)] \in [kind : {"busy", "refused"}, id : Ids]
          /\ [e EXCEPT !.id = AgedId(@)].id # "current"
      BY <1>3, <3>1
    <3> QED  BY <2>1, <3>2 DEF Events, Stale
  <2>2. CASE e.kind \notin {"busy", "refused"}
    BY <2>2 DEF Stale
  <2> QED  BY <2>1, <2>2
<1>5. inbox' \in Seq(Ids) /\ \A i \in DOMAIN inbox' : inbox'[i] # "current"
  BY <1>1, <1>2, <1>3
<1>6. stream' \in Seq(Events) /\ Len(stream') = Len(stream) /\ \A i \in DOMAIN stream' : Stale(stream'[i])
  <2> DEFINE f(e) == IF e.kind \in {"busy", "refused"} THEN [e EXCEPT !.id = AgedId(@)] ELSE e
  <2>1. stream' = [i \in DOMAIN stream |-> f(stream[i])]
    BY <1>1 DEF Aged
  <2>2. \A i \in DOMAIN stream : f(stream[i]) \in Events /\ Stale(f(stream[i]))
    BY <1>2, <1>4
  <2> HIDE DEF f
  <2> QED  BY <1>2, <2>1, <2>2
<1>7. Typed'
  BY <1>1, <1>2, <1>5, <1>6 DEF Typed
<1>8. RequestInv'
  <2>1. "current" \notin {serving', answering'}
    BY <1>1 DEF AgedId
  <2> QED  BY <2>1, <1>5, <1>6 DEF RequestInv
<1>9. PollInv'
  <2>1. answering' = "none" => answering = "none"
    BY <1>1 DEF AgedId
  <2> QED  BY <1>1, <2>1 DEF Held, PollInv
<1>10. WaitInv'
  BY DEF WaitInv
<1> QED  BY <1>7, <1>8, <1>9, <1>10 DEF Held, FreshMeansRested

LEMMA EscalateKeeps ==
  ASSUME Held, Flags, Escalate
  PROVE  Held'
<1>1. /\ RequestEnds /\ signals' = <<>> /\ polled' = "idle" /\ rested' = rested
      /\ latched' = (response # "notify")
      /\ stage' = IF response = "notify" THEN "armed" ELSE stage
  BY DEF Escalate
<1>2. (stage' = "fresh" => rested') /\ (stage' # "resting" \/ latched')
  BY <1>1 DEF Held, FreshMeansRested
<1> QED  BY <1>1, <1>2, AllAged

LEMMA IngestKeeps ==
  ASSUME Held, Flags, Ingest
  PROVE  Held'
<1>1. /\ ~ latched /\ polled = "idle" /\ signals = <<>>
      /\ UNCHANGED <<stage, latched, began, inbox, serving, answering, rested>>
  BY DEF Ingest, Held, PollInv, module
<1>2. NoneWhole(<<>>) /\ NoneOpens(<<>>) /\ OpenAtEnd(<<>>) /\ <<>> \in Seq(Events)
  BY DEF NoneWhole, NoneOpens, OpenAtEnd
<1>3. CASE polled' = "read" /\ signals' = stream /\ AllRead
  <2>1. signals' = stream /\ stream' = <<>> /\ since' = 0 /\ polled' = "read"
    BY <1>3 DEF AllRead
  <2>2. Typed' /\ RequestInv' /\ PollInv'
    BY <1>1, <1>2, <2>1 DEF Held, Typed, RequestInv, PollInv
  <2>3. WaitInv'
    BY <1>1, <1>2, <2>1 DEF Held, WaitInv
  <2> QED  BY <1>1, <2>2, <2>3 DEF Held, FreshMeansRested
<1>4. CASE stage = "resting" /\ polled' = "read" /\ UNCHANGED <<signals, stream, since>>
  <2>1. Typed' /\ RequestInv' /\ PollInv' /\ WaitInv'
    BY <1>1, <1>4 DEF Held, Typed, RequestInv, PollInv, WaitInv
  <2> QED  BY <1>1, <2>1 DEF Held, FreshMeansRested
<1>5. CASE AllRead /\ UNCHANGED <<polled, signals>>
  <2>1. signals' = <<>> /\ stream' = <<>> /\ since' = 0 /\ polled' = "idle"
    BY <1>1, <1>5 DEF AllRead
  <2>2. Typed' /\ RequestInv' /\ PollInv'
    BY <1>1, <1>2, <2>1 DEF Held, Typed, RequestInv, PollInv
  <2>3. WaitInv'
    BY <1>1, <1>2, <2>1 DEF Held, WaitInv
  <2> QED  BY <1>1, <2>2, <2>3 DEF Held, FreshMeansRested
<1> QED  BY <1>3, <1>4, <1>5 DEF Ingest

LEMMA FollowedKeeps ==
  ASSUME Held, Flags, SignalFollowed
  PROVE  Held'
<1>1. /\ stage = "resting" /\ ~ latched /\ polled = "read" /\ signals # <<>> /\ signals' = Tail(signals)
      /\ UNCHANGED <<stage, latched, polled, inbox, stream, since, serving, answering, rested>>
      /\ began' # "no" => began # "no" \/ Opens(Head(signals))
  BY DEF SignalFollowed, Reading, bus, module, StandsFor, BeganBy, Opens
<1> DEFINE t == Tail(signals)
           h == Head(signals)
<1>2. signals \in Seq(Events)
  BY DEF Held, Typed
<1>3. /\ t \in Seq(Events) /\ h = signals[1] /\ 1 \in DOMAIN signals
      /\ \A i \in DOMAIN t : i + 1 \in DOMAIN signals /\ t[i] = signals[i + 1]
      /\ OpenAtEnd(signals) => OpenAtEnd(t) /\ (Opens(h) => NoneWhole(t))
      /\ NoneWhole(signals) => NoneWhole(t)
      /\ NoneOpens(signals) => NoneOpens(t)
  BY <1>1, <1>2, Rest
<1> HIDE DEF t, h
<1>4. signals' = t /\ (began' # "no" => began # "no" \/ Opens(h))
  BY <1>1 DEF t, h
<1>5. Typed' /\ RequestInv' /\ PollInv'
  BY <1>1, <1>3, <1>4 DEF Held, Typed, RequestInv, PollInv
<1>6. WaitInv'
  <2> SUFFICES ASSUME ~ rested PROVE WaitInv'
    BY <1>1 DEF WaitInv
  <2>1. /\ OpenAtEnd(signals) /\ OpenAtEnd(stream)
        /\ NoneOpens(signals) \/ NoneWhole(stream)
        /\ began # "no" => NoneWhole(signals) /\ NoneWhole(stream)
        /\ answering = "current" =>
             \A i \in DOMAIN stream : i > Len(stream) - since => ~ Whole(stream[i])
    BY <1>1 DEF Held, WaitInv
  <2>2. Opens(h) => NoneWhole(t) /\ NoneWhole(stream)
    BY <1>3, <2>1 DEF NoneOpens
  <2>3. began' # "no" => NoneWhole(t) /\ NoneWhole(stream)
    BY <1>3, <1>4, <2>1, <2>2
  <2> QED  BY <1>1, <1>3, <1>4, <2>1, <2>3 DEF WaitInv
<1> QED  BY <1>1, <1>5, <1>6 DEF Held, FreshMeansRested

(* A rest that counts was one. *)
LEMMA RestedKeeps ==
  ASSUME Held, Flags, SignalRested
  PROVE  Held'
<1>1. /\ stage = "resting" /\ ~ latched /\ signals # <<>> /\ began # "no" /\ Whole(Head(signals))
      /\ RequestEnds /\ stage' = "fresh" /\ polled' = "idle" /\ signals' = <<>> /\ rested' = rested
  BY DEF SignalRested, Reading, EndedBy, Awaited, Whole
<1>2. signals \in Seq(Events) /\ 1 \in DOMAIN signals /\ Head(signals) = signals[1]
  BY <1>1 DEF Held, Typed
<1>3. rested
  BY <1>1, <1>2 DEF Held, WaitInv, NoneWhole, Flags
<1> QED  BY <1>1, <1>3, AllAged

(* A request begins a new account: nothing in the stream is its rest. *)
LEMMA RequestKeeps ==
  ASSUME Held, Flags, RequestRest \/ RequestLandsLost
  PROVE  Held'
<1>1. CASE Escalate
  BY <1>1, EscalateKeeps
<1>2. stage = "armed" /\ ~ latched /\ polled = "read"
  BY DEF RequestRest, RequestLandsLost, Reading
<1>3. /\ "current" \notin {serving, answering}
      /\ \A i \in DOMAIN inbox : inbox[i] # "current"
      /\ \A i \in DOMAIN stream : Stale(stream[i])
      /\ OpenAtEnd(stream)
  BY <1>2 DEF Held, RequestInv, PollInv
<1>4. inbox \in Seq(Ids) /\ stream \in Seq(Events) /\ since \in 0 .. Len(stream)
      /\ "current" \in Ids /\ "old" \in Ids /\ <<>> \in Seq(Events)
  BY DEF Held, Typed, Ids
<1>5. NoneWhole(<<>>) /\ NoneOpens(<<>>) /\ OpenAtEnd(<<>>)
  BY DEF NoneWhole, NoneOpens, OpenAtEnd
<1>6. CASE /\ stage' = "resting" /\ began' = "no" /\ rested' = FALSE
           /\ inbox' = Append(inbox, "current") /\ polled' = "idle" /\ signals' = <<>>
           /\ UNCHANGED <<latched, stream, since, module>>
  <2>1. UNCHANGED <<latched, stream, since, serving, answering>>
    BY <1>6 DEF module
  <2>2. Typed'
    BY <1>4, <1>6 DEF Typed
  <2>3. RequestInv'
    BY <1>2, <1>6, <2>1 DEF RequestInv
  <2>4. PollInv'
    BY <1>2, <1>6, <2>1 DEF Held, PollInv
  <2>5. WaitInv'
    BY <1>3, <1>5, <1>6, <2>1 DEF WaitInv
  <2> QED  BY <1>6, <2>2, <2>3, <2>4, <2>5 DEF Held, FreshMeansRested
<1>7. CASE RequestLandsLost
  <2>1. /\ inbox' = Append(inbox, "old") /\ polled' = "idle" /\ signals' = <<>>
        /\ UNCHANGED <<stage, began, stream, since, rested, serving, answering>>
    BY <1>7 DEF RequestLandsLost, module
  <2>2. inbox' \in Seq(Ids) /\ \A i \in DOMAIN inbox' : inbox'[i] # "current"
    BY <1>3, <1>4, <2>1
  <2>3. Typed'
    BY <1>4, <2>1, <2>2 DEF Typed
  <2>4. RequestInv'
    BY <1>3, <2>1, <2>2 DEF RequestInv
  <2>5. PollInv' /\ WaitInv'
    BY <1>2, <2>1 DEF Held, PollInv, WaitInv
  <2> QED  BY <1>2, <2>1, <2>3, <2>4, <2>5 DEF Held, FreshMeansRested
<1> QED  BY <1>1, <1>6, <1>7 DEF RequestRest

LEMMA HeldStep ==
  ASSUME Held, Flags, [RestNext]_restVars
  PROVE  Held'
<1>1. CASE SleepSide
  BY <1>1, SleepSideStep
<1>2. CASE IndicatorsMove \/ UNCHANGED restVars
  <2>1. UNCHANGED <<stage, latched, began, polled, signals, inbox, stream, since, answering,
                    rested, serving>>
    BY <1>2 DEF IndicatorsMove, restVars, monitor, bus, module
  <2> QED  BY <2>1, OthersHeld
<1>3. CASE Ingest
  BY <1>3, IngestKeeps
<1>4. CASE SignalFollowed
  BY <1>4, FollowedKeeps
<1>5. CASE SignalRested
  BY <1>5, RestedKeeps
<1>6. CASE SignalFailed \/ BoundPasses \/ FreshCrosses \/ StaysSilent
  BY <1>6, EscalateKeeps DEF SignalFailed, BoundPasses, FreshCrosses, StaysSilent
<1>7. CASE PollEnds \/ FreshClears
  <2>1. /\ polled = "read" /\ polled' = "idle" /\ signals' = <<>> /\ ~ latched
        /\ stage' = stage \/ (stage = "fresh" /\ stage' = "armed")
        /\ stage = "resting" => signals = <<>>
        /\ UNCHANGED <<latched, began, inbox, stream, since, answering, rested, serving>>
    BY <1>7 DEF PollEnds, FreshClears, Reading, bus, module
  <2>2. <<>> \in Seq(Events)
    OBVIOUS
  <2>3. Typed' /\ RequestInv' /\ PollInv'
    BY <2>1, <2>2 DEF Held, Typed, RequestInv, PollInv
  <2>4. WaitInv'
    BY <2>1 DEF Held, WaitInv
  <2> QED  BY <2>1, <2>3, <2>4 DEF Held, FreshMeansRested
<1>8. CASE RequestRest \/ RequestLandsLost
  BY <1>8, RequestKeeps
<1>9. CASE Rearm
  <2>1. /\ latched /\ ~ latched' /\ stage' = "armed" /\ stream' = <<>> /\ since' = 0 /\ polled = "idle"
        /\ UNCHANGED <<polled, signals, inbox, serving, answering>>
    BY <1>9 DEF Rearm, AllRead, module, Held, PollInv
  <2>2. <<>> \in Seq(Events)
    OBVIOUS
  <2>3. Typed' /\ RequestInv' /\ PollInv'
    BY <2>1, <2>2 DEF Held, Typed, RequestInv, PollInv
  <2> QED  BY <2>1, <2>3 DEF Held, FreshMeansRested, WaitInv
<1> QED  BY <1>1, <1>2, <1>3, <1>4, <1>5, <1>6, <1>7, <1>8, <1>9 DEF RestNext, Acts

-----------------------------------------------------------------------------
(* Types. *)

LEMMA FlagsStep ==
  ASSUME Held, Flags, [RestNext]_restVars
  PROVE  Flags'
<1>1. /\ inbox # <<>> => Head(inbox) \in Ids
      /\ AgedId(serving) \in Maybe /\ AgedId(answering) \in Maybe
  BY DEF Held, Typed, Flags, AgedId, Maybe, Ids
<1>2. Flags' = ( /\ response' \in Responses
                 /\ ill' \in BOOLEAN /\ latched' \in BOOLEAN /\ up' \in BOOLEAN /\ rested' \in BOOLEAN
                 /\ stage' \in {"armed", "resting", "fresh"} /\ began' \in {"no", "started", "standing"}
                 /\ polled' \in {"idle", "read"}
                 /\ st' \in {"none", "pending", "asleep", "over", "cut"}
                 /\ serving' \in Maybe /\ answering' \in Maybe )
  BY DEF Flags
<1>3. CASE SleepSide
  <2>1. UNCHANGED <<response, monitor>>
    BY <1>3
       DEF SleepSide, OtherSleep, HandleRequest, AnswerBusy, Begin, BeginFails, Finish, Fails,
           Settle,
                Stops, Cancelled, Starts
  <2>2. up' \in BOOLEAN /\ rested' \in BOOLEAN
    BY <1>3
       DEF Flags, SleepSide, OtherSleep, HandleRequest, AnswerBusy, Begin, BeginFails, Finish,
           Fails,
                Settle, Stops, Cancelled, Starts
  <2>3. st' \in {"none", "pending", "asleep", "over", "cut"} /\ serving' \in Maybe /\ answering' \in Maybe
    BY <1>1, <1>3
       DEF Flags, Maybe, SleepSide, OtherSleep, HandleRequest, AnswerBusy, Begin, BeginFails,
           Finish,
                Fails, Cut, Settle, Stops, Cancelled, Starts
  <2> QED  BY <2>1, <2>2, <2>3 DEF Flags, monitor
<1>4. ASSUME Escalate PROVE response' = response /\ ill' = ill /\ rested' = rested /\ up' = up /\ st' = st
             /\ latched' \in BOOLEAN /\ stage' \in {stage, "armed"} /\ began' = "no" /\ polled' = "idle"
             /\ serving' = AgedId(serving) /\ answering' = AgedId(answering)
  BY <1>4 DEF Escalate, RequestEnds
<1>5. CASE SignalFailed \/ BoundPasses \/ FreshCrosses \/ StaysSilent
  <2>1. Escalate
    BY <1>5 DEF SignalFailed, BoundPasses, FreshCrosses, StaysSilent
  <2> QED  BY <1>1, <1>4, <2>1 DEF Flags
<1>6. CASE RequestRest
  <2>1. CASE Escalate
    BY <1>1, <1>4, <2>1 DEF Flags
  <2>2. CASE ~ Escalate
    <3>1. /\ stage' = "resting" /\ began' = "no" /\ rested' = FALSE /\ polled' = "idle"
          /\ UNCHANGED <<response, ill, latched, module>>
      BY <1>6, <2>2 DEF RequestRest
    <3> QED  BY <3>1 DEF Flags, module
  <2> QED  BY <2>1, <2>2
<1>7. CASE RequestLandsLost
  <2>1. /\ latched' = (response # "notify") /\ polled' = "idle"
        /\ UNCHANGED <<response, ill, stage, began, module, rested>>
    BY <1>7 DEF RequestLandsLost
  <2> QED  BY <2>1 DEF Flags, module
<1>8. CASE SignalRested
  <2>1. /\ stage' = "fresh" /\ polled' = "idle" /\ began' = "no"
        /\ UNCHANGED <<response, ill, latched, rested, up, st>>
        /\ serving' = AgedId(serving) /\ answering' = AgedId(answering)
    BY <1>8 DEF SignalRested, RequestEnds
  <2> QED  BY <1>1, <2>1 DEF Flags
<1>9. CASE SignalFollowed \/ PollEnds \/ FreshClears \/ IndicatorsMove \/ UNCHANGED restVars
  BY <1>9
     DEF SignalFollowed, PollEnds, FreshClears, IndicatorsMove, restVars, monitor, module, Flags
<1>10. CASE Ingest \/ Rearm
  BY <1>10 DEF Ingest, Rearm, module, Flags
<1> QED  BY <1>3, <1>5, <1>6, <1>7, <1>8, <1>9, <1>10 DEF RestNext, Acts

LEMMA CountedStep ==
  ASSUME Counted, [RestNext]_restVars
  PROVE  Counted'
<1>1. {MaxFaults, MaxRestarts, MaxReleases, MaxNotices} \subseteq Nat
  BY WelfareRestAssumption
<1>2. Fault => faults' \in 0 .. MaxFaults
  BY <1>1 DEF Counted, Fault
<1>3. CASE SleepSide
  <2>1. UNCHANGED <<releases, notices>>
    BY <1>3
       DEF monitor, SleepSide, OtherSleep, HandleRequest, AnswerBusy, Begin, BeginFails, Finish,
           Fails,
                Settle, Stops, Cancelled, Starts
  <2>2. Fault \/ UNCHANGED faults
    BY <1>3
       DEF SleepSide, OtherSleep, HandleRequest, AnswerBusy, Begin, BeginFails, Finish, Fails,
                Settle, Stops, Cancelled, Starts
  <2>3. restarts' = restarts \/ (restarts < MaxRestarts /\ restarts' = restarts + 1)
    BY <1>3
       DEF SleepSide, OtherSleep, HandleRequest, AnswerBusy, Begin, BeginFails, Finish, Fails,
                Settle, Stops, Cancelled, Starts
  <2> QED  BY <1>1, <1>2, <2>1, <2>2, <2>3 DEF Counted
<1>4. ASSUME \/ IndicatorsMove \/ Ingest \/ Acts \/ Rearm \/ UNCHANGED restVars
      PROVE  /\ restarts' = restarts /\ (Fault \/ UNCHANGED faults)
             /\ releases' = releases \/ (releases < MaxReleases /\ releases' = releases + 1)
             /\ notices' = notices \/ (notices < MaxNotices /\ notices' = notices + 1)
  BY <1>4
     DEF IndicatorsMove, Ingest, Acts, SignalFollowed, SignalRested, SignalFailed, BoundPasses,
         PollEnds,
              RequestRest, RequestLandsLost, FreshCrosses, FreshClears, StaysSilent, Escalate, RequestEnds,
              Rearm, restVars, monitor, module
<1>5. CASE \/ IndicatorsMove \/ Ingest \/ Acts \/ Rearm \/ UNCHANGED restVars
  BY <1>1, <1>2, <1>4, <1>5 DEF Counted
<1> QED  BY <1>3, <1>5 DEF RestNext
-----------------------------------------------------------------------------
LEMMA RestInvariant == RestSpec => []RestInv
<1>1. RestInit => RestInv
  <2> SUFFICES ASSUME RestInit PROVE RestInv
    OBVIOUS
  <2>1. RestTypeOK
    <3>1. /\ {MaxFaults, MaxRestarts, MaxReleases, MaxNotices} \subseteq Nat
          /\ <<>> \in Seq(Events) /\ <<>> \in Seq(Ids) /\ Len(<<>>) = 0
      BY WelfareRestAssumption
    <3>2. Typed
      BY <3>1 DEF RestInit, Typed
    <3>3. Flags
      BY DEF RestInit, Flags, Maybe
    <3>4. Counted
      BY <3>1 DEF RestInit, Counted
    <3> QED  BY <3>2, <3>3, <3>4, RestTypeParts
  <2>2. RequestInv /\ PollInv /\ WaitInv /\ FreshMeansRested
    BY DEF RestInit, RequestInv, PollInv, WaitInv, FreshMeansRested
  <2> QED  BY <2>1, <2>2 DEF RestInv
<1>2. RestInv /\ [RestNext]_restVars => RestInv'
  <2> SUFFICES ASSUME RestInv, [RestNext]_restVars PROVE RestInv'
    OBVIOUS
  <2>1. Held /\ Flags /\ Counted
    BY RestTypeParts DEF RestInv, Held
  <2>2. Held' /\ Flags' /\ Counted'
    BY <2>1, HeldStep, FlagsStep, CountedStep
  <2>3. RestTypeOK'
    BY <2>2 DEF Held, RestTypeOK, Typed, Flags, Counted
  <2> QED  BY <2>2, <2>3 DEF RestInv, Held
<1> QED  BY <1>1, <1>2, PTL DEF RestSpec

(* _indicator_poll, _welfare_rest_consumer_loop: the two tasks' state and *)
(* everything on the two streams stay well typed.                         *)
THEOREM RestTypeCorrect == RestSpec => []RestTypeOK
<1>1. RestInv => RestTypeOK
  BY DEF RestInv
<1> QED  BY <1>1, RestInvariant, PTL

(* _indicator_rest_signals: the stage after the rest is reached only when a *)
(* sleep has run to its end since the request was sent.                     *)
THEOREM RestsCountOnlyWhenRested == RestSpec => []FreshMeansRested
<1>1. RestInv => FreshMeansRested
  BY DEF RestInv
<1> QED  BY <1>1, RestInvariant, PTL
=============================================================================
