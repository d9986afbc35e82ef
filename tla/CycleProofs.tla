---------------------------- MODULE CycleProofs ----------------------------
(***************************************************************************)
(* Theorems about the cycle and the freezes that pause it.                 *)
(*                                                                         *)
(* FreezeControl, for every set of holders, every bound and every choice   *)
(* of faults: type correctness, that a welfare freeze is only lifted by a  *)
(* named override, that a standing freeze is in force from the launch on,  *)
(* that the promise to the holders is kept, and that perception comes back *)
(* unless writers of its file cross.                                       *)
(*                                                                         *)
(* Engine, for every batch size, every pair of rates and every sequence of *)
(* commands: type correctness, that every entry is handled once and in     *)
(* order, that the broadcasts keep the pace of the rates but for those     *)
(* that fail, that utterances are asked for one by one, and that a pause   *)
(* lets one tick end.                                                      *)
(***************************************************************************)
EXTENDS FreezeControl, Engine, ControlStateTheorems, FiniteSetTheorems,
        WellFoundedInduction, TLAPS

(* Sources are strings the writers below are given. *)
LEMMA HolderSourcesAreSources == HolderSources \subseteq Sources
BY FreezeControlAssumption

(* The empty stack, and the unreadable file, are well formed. *)
LEMMA EmptyFilesWellFormed == WellFormed(Readable({})) /\ WellFormed(Unreadable)
<1>1. ListOfEntries({})  BY FS_EmptySet DEF ListOfEntries, IsList
<1> QED  BY <1>1 DEF WellFormed, Readable, Unreadable, ControlFiles

(* The steps that read or write desired.json. *)
PerceptionWrites ==
  \/ \E w \in Editors :
       \/ EditorReads(w)
       \/ \E field \in {"locus", "audio", "video"}, active \in BOOLEAN :
            EditorWrites(w, field, active)
  \/ CycleReads \/ CycleWrites \/ CycleWriteRaises

(* What a step can do to the control file: keep it well formed, and keep a *)
(* welfare hold unless it is an override naming welfare.                   *)
LEMMA ControlFileStep ==
  ASSUME WellFormed(ctl), [Next]_vars
  PROVE  /\ WellFormed(ctl')
         /\ ("welfare" \in Holders(ctl) /\ "welfare" \notin Holders(ctl')) =>
              \E sources \in SUBSET OVERRIDABLE_SOURCES :
                "welfare" \in sources /\ Override(sources)
<1>1. CASE OperatorFreeze
  BY <1>1, PushFreeze DEF OperatorFreeze, Write, Sources
<1>2. CASE OperatorResume
  BY <1>2, StandDown DEF OperatorResume, Write
<1>3. ASSUME NEW sources \in SUBSET OVERRIDABLE_SOURCES, Override(sources)
      PROVE  /\ WellFormed(ctl')
             /\ ("welfare" \in Holders(ctl) /\ "welfare" \notin Holders(ctl')) =>
                  "welfare" \in sources
  <2>1. ctl' = override(ctl, sources) /\ can_override(ctl, sources)
    BY <1>3 DEF Override, Write
  <2> QED  BY <2>1, OverrideLifts DEF can_override
<1>4. ASSUME NEW source \in HolderSources, HolderFreeze(source)
      PROVE  WellFormed(ctl') /\ Holders(ctl) \subseteq Holders(ctl')
  BY <1>4, PushFreeze, HolderSourcesAreSources DEF HolderFreeze, Write
<1>5. ASSUME NEW source \in HolderSources \ {"welfare", "programme_end"},
             HolderRelease(source)
      PROVE  WellFormed(ctl') /\ Holders(ctl) \ {source} \subseteq Holders(ctl')
  BY <1>5, PopFreeze DEF HolderRelease, Write
<1>6. CASE Corrupt
  <2>1. ctl' = Unreadable  BY <1>6 DEF Corrupt, Write
  <2>2. Holders(Unreadable) = {"welfare"}
    BY DEF Holders, HoldersOf, read_control, fail_closed_state, Unreadable
  <2> QED  BY <2>1, <2>2, EmptyFilesWellFormed
<1>7. CASE ClearStale
  <2>1. ctl' = unfreeze_for_boot(ctl) \/ ctl' = ctl  BY <1>7 DEF ClearStale
  <2> QED  BY <2>1, UnfreezeForBoot
<1>8. ASSUME ctl' = ctl
      PROVE  WellFormed(ctl') /\ Holders(ctl') = Holders(ctl)
  BY <1>8
<1>9. CASE Boot \/ Launch \/ Stop \/ Watch \/ LocusMoves \/ PerceptionWrites \/ UNCHANGED vars
  <2>1. ctl' = ctl
    BY <1>9 DEF Boot, Launch, Stop, Watch, WatchRead, WatchFreeze, LocusMoves,
                WatchFreezeDevelopment, WatchResume, WatchRestore, PerceptionWrites,
                EditorReads, EditorWrites, CycleReads, CycleWrites, CycleWriteRaises, vars
  <2> QED  BY <2>1, <1>8
<1> QED  BY <1>1, <1>2, <1>3, <1>4, <1>5, <1>6, <1>7, <1>9 DEF Next, PerceptionWrites

(* The perception flags, and what is made of them. *)
LEMMA FlagTypes ==
  /\ On \in Flags /\ Off \in Flags /\ NoSnapshot \in [taken : BOOLEAN, flags : Flags]
  /\ Closed \in Drafts /\ \A f \in Flags : [open |-> TRUE, flags |-> f] \in Drafts
  /\ \A f \in Flags : [taken |-> TRUE, flags |-> f] \in [taken : BOOLEAN, flags : Flags]
  /\ \A f \in Flags, field \in {"locus", "audio", "video"}, active \in BOOLEAN :
       Edited(f, field, active) \in Flags
<1>1. On \in Flags /\ Off \in Flags  BY Zenon DEF On, Off, Flags
<1>2. NoSnapshot \in [taken : BOOLEAN, flags : Flags] /\ Closed \in Drafts
  BY <1>1, Zenon DEF NoSnapshot, Closed, Drafts
<1>3. \A f \in Flags : /\ [taken |-> TRUE, flags |-> f] \in [taken : BOOLEAN, flags : Flags]
                       /\ [open |-> TRUE, flags |-> f] \in Drafts
  BY Zenon DEF Drafts
<1>4. \A f \in Flags, field \in {"locus", "audio", "video"}, active \in BOOLEAN :
        Edited(f, field, active) \in Flags
  BY DEF Flags, Edited
<1> QED  BY <1>1, <1>2, <1>3, <1>4

(* What the cycle's process writes is a flag. *)
LEMMA GoalType ==
  ASSUME snapshot \in [taken : BOOLEAN, flags : Flags]
  PROVE  /\ Goal \in Flags
         /\ \A field \in {"audio", "video"} : Goal[field] \in BOOLEAN
<1>1. Goal \in Flags  BY FlagTypes, Zenon DEF Goal
<1> QED  BY <1>1 DEF Flags

(* Where one writer's draft changes, those of the others stay. *)
LEMMA DraftTypes ==
  ASSUME draft \in [Writers -> Drafts], NEW w, NEW d \in Drafts,
         draft' = [draft EXCEPT ![w] = d]
  PROVE  draft' \in [Writers -> Drafts]
OBVIOUS

(* Type correctness: the stack stays a list of known entries, the loop and *)
(* the perception flags stay in their ranges.                              *)
LEMMA TypeStep == TypeOK /\ [Next]_vars => TypeOK'
<1> SUFFICES ASSUME TypeOK, [Next]_vars
             PROVE  TypeOK'
  OBVIOUS
<1>1. WellFormed(ctl)  BY DEF TypeOK, WellFormed, ListOfEntries, ControlFiles
<1>2. WellFormed(ctl')  BY <1>1, ControlFileStep
<1>3. ctl' \in ControlFiles /\ IsFiniteSet(ctl'.stack) /\ IsList(ctl'.stack)
  BY <1>2 DEF WellFormed, ListOfEntries
<1> USE FlagTypes DEF TypeOK, watchVars, perception
<1>4. CASE OperatorFreeze \/ OperatorResume \/ Corrupt
  <2>1. standing' \in BOOLEAN
    BY <1>4, Zenon DEF OperatorFreeze, OperatorResume, Corrupt, Write
  <2>2. UNCHANGED <<proc, boots, perception, watchVars, performed>>
    BY <1>4 DEF OperatorFreeze, OperatorResume, Corrupt
  <2> QED  BY <1>3, <2>1, <2>2
<1>5. ASSUME NEW sources \in SUBSET OVERRIDABLE_SOURCES, Override(sources)
      PROVE  TypeOK'
  BY <1>3, <1>5 DEF Override, Write, Frozen
<1>6. CASE PerceptionWrites
  <2>1. ASSUME NEW w \in Editors, EditorReads(w)
        PROVE  TypeOK'
    <3>1. draft' \in [Writers -> Drafts]  BY <2>1, DraftTypes DEF EditorReads, Opens
    <3> QED  BY <1>3, <2>1, <3>1 DEF EditorReads
  <2>2. ASSUME NEW w \in Editors, NEW field \in {"locus", "audio", "video"},
               NEW active \in BOOLEAN, EditorWrites(w, field, active)
        PROVE  TypeOK'
    <3>1. draft' \in [Writers -> Drafts]  BY <2>2, DraftTypes DEF EditorWrites, Saves
    <3>2. draft[w].flags \in Flags  BY DEF Writers, Drafts
    <3>3. desired' \in Flags /\ commanded' \in Flags
      BY <2>2, <3>2 DEF EditorWrites, Saves
    <3>4. spoiled' \in BOOLEAN  BY <2>2, Zenon DEF EditorWrites
    <3> QED  BY <1>3, <2>2, <3>1, <3>3, <3>4 DEF EditorWrites
  <2>3. CASE CycleReads
    <3>1. draft' \in [Writers -> Drafts]  BY <2>3, DraftTypes DEF CycleReads, Opens
    <3> QED  BY <1>3, <2>3, <3>1 DEF CycleReads
  <2>4. CASE CycleWrites
    <3>1. PICK active \in IF writing = "locus" THEN {TRUE} ELSE {Goal[writing]} :
            /\ Saves("cycle", writing, active)
            /\ commanded' = IF proc = "pinning" THEN Edited(commanded, writing, active)
                                               ELSE commanded
      BY <2>4, Zenon DEF CycleWrites
    <3>2. active \in BOOLEAN  BY <2>4, <3>1, GoalType DEF CycleWrites
    <3>3. draft' \in [Writers -> Drafts]  BY <3>1, DraftTypes DEF Saves
    <3>4. draft["cycle"].flags \in Flags  BY DEF Writers, Drafts
    <3>5. writing \in {"locus", "audio", "video"}  BY <2>4 DEF CycleWrites
    <3>6. desired' \in Flags /\ commanded' \in Flags
      BY <3>1, <3>2, <3>4, <3>5 DEF Saves
    <3>7. spoiled' \in BOOLEAN  BY <2>4, Zenon DEF CycleWrites
    <3>8. writing' \in {"none", "audio", "video"}  BY <2>4, Zenon DEF CycleWrites, FieldAfter
    <3>9. pc' \in {pc, "poll"} /\ snapshot' \in {snapshot, NoSnapshot}
      BY <2>4, Zenon DEF CycleWrites, EndBlock
    <3> QED  BY <1>3, <2>4, <3>3, <3>6, <3>7, <3>8, <3>9 DEF CycleWrites
  <2>5. CASE CycleWriteRaises
    <3>1. draft' \in [Writers -> Drafts]  BY <2>5, DraftTypes DEF CycleWriteRaises
    <3>2. pc' \in {pc, "poll"} /\ snapshot' \in {snapshot, NoSnapshot}
      BY <2>5, Zenon DEF CycleWriteRaises, EndBlock
    <3>3. /\ writing' = "none"
          /\ UNCHANGED <<ctl, standing, proc, boots, paused, feedHeld, performed, desired,
                         edits, commanded>>
          /\ spoiled' \in BOOLEAN
      BY <2>5 DEF CycleWriteRaises
    <3> HIDE DEF EndBlock
    <3> QED  BY <1>3, <3>1, <3>2, <3>3
  <2> HIDE DEF TypeOK
  <2> QED  BY <1>6, <2>1, <2>2, <2>3, <2>4, <2>5, Zenon DEF PerceptionWrites
<1>7. ASSUME NEW source, HolderFreeze(source) \/ HolderRelease(source)
      PROVE  TypeOK'
  BY <1>3, <1>7 DEF HolderFreeze, HolderRelease, Write, Frozen
<1>8. CASE Boot \/ ClearStale
  <2>1. standing' \in BOOLEAN  BY <1>8, Zenon DEF Boot, ClearStale, Frozen
  <2>2. writing' \in {writing, "none", "locus"}
    BY <1>8, Zenon DEF Boot, ClearStale
  <2>3. spoiled' \in BOOLEAN  BY <1>8, Zenon DEF Boot, ClearStale
  <2>4. proc' \in {"pinning", "booting"} /\ boots' \in Nat
    <3>1. CASE Boot  BY <3>1 DEF Boot
    <3>2. CASE ClearStale  BY <3>2 DEF ClearStale
    <3> QED  BY <1>8, <3>1, <3>2
  <2>5. UNCHANGED <<watchVars, performed, desired, draft, edits, commanded>>
    <3>1. CASE Boot  BY <3>1 DEF Boot
    <3>2. CASE ClearStale  BY <3>2 DEF ClearStale
    <3> QED  BY <1>8, <3>1, <3>2
  <2> QED  BY <1>3, <2>1, <2>2, <2>3, <2>4, <2>5
<1>9. CASE Launch
  <2>1. paused' \in BOOLEAN /\ feedHeld' \in BOOLEAN
    BY <1>9, Zenon DEF Launch, pause_if_frozen_at_launch, Frozen
  <2> QED  BY <1>3, <1>9, <2>1 DEF Launch
<1>10. CASE WatchRead \/ WatchResume \/ LocusMoves
  BY <1>3, <1>10 DEF WatchRead, WatchResume, LocusMoves
<1>11. CASE Stop
  <2>1. draft' \in [Writers -> Drafts]  BY <1>11, DraftTypes DEF Stop
  <2> QED  BY <1>3, <1>11, <2>1 DEF Stop
<1>12. CASE WatchFreeze \/ WatchFreezeDevelopment \/ WatchRestore
  <2>1. /\ writing' \in {writing, "audio"} /\ pc' \in {"off", "back", "poll"}
        /\ snapshot' \in {snapshot, [taken |-> TRUE, flags |-> desired]}
    BY <1>12, Zenon DEF WatchFreeze, WatchFreezeDevelopment, WatchRestore, RestorePerception
  <2>2. feedHeld' \in BOOLEAN
    BY <1>12, Zenon DEF WatchFreeze, WatchFreezeDevelopment, WatchRestore
  <2> QED  BY <1>3, <1>12, <2>1, <2>2 DEF WatchFreeze, WatchFreezeDevelopment, WatchRestore
<1>13. CASE UNCHANGED vars
  BY <1>3, <1>13 DEF vars
<1> QED
  BY <1>4, <1>5, <1>6, <1>7, <1>8, <1>9, <1>10, <1>11, <1>12, <1>13
     DEF Next, Watch, PerceptionWrites

(* Every state of the freeze control is well typed, and its control file   *)
(* always holds a well-formed list of freeze entries.                      *)
THEOREM TypeCorrect == Spec => []TypeOK
<1>1. Init => TypeOK
  <2> SUFFICES ASSUME Init
               PROVE  TypeOK
    OBVIOUS
  <2>1. WellFormed(ctl)  BY EmptyFilesWellFormed DEF Init
  <2>2. desired \in Flags /\ commanded \in Flags  BY FlagTypes DEF Init
  <2>3. draft \in [Writers -> Drafts]  BY FlagTypes DEF Init
  <2> QED  BY <2>1, <2>2, <2>3, FlagTypes DEF Init, TypeOK, WellFormed, ListOfEntries
<1> QED  BY <1>1, TypeStep, PTL DEF Spec

(* A welfare freeze is lifted by nothing but an override that names it,    *)
(* whatever the other holders, boots, crashes and file faults do.          *)
THEOREM WelfareOverrideOnly == Spec => WelfareLiftedOnlyByOverride
<1> DEFINE Lifted == ("welfare" \in Holders(ctl) /\ "welfare" \notin Holders(ctl')) =>
                       \E sources \in SUBSET OVERRIDABLE_SOURCES :
                         "welfare" \in sources /\ Override(sources)
<1>1. TypeOK /\ [Next]_vars => Lifted
  <2> SUFFICES ASSUME TypeOK, [Next]_vars
               PROVE  Lifted
    OBVIOUS
  <2>1. WellFormed(ctl)  BY DEF TypeOK, WellFormed, ListOfEntries, ControlFiles
  <2> QED  BY <2>1, ControlFileStep
<1>2. TypeOK /\ [Next]_vars => [Lifted]_vars  BY <1>1
<1>3. Spec => [][Lifted]_vars  BY <1>2, TypeCorrect, PTL DEF Spec
<1> QED  BY <1>3 DEF WelfareLiftedOnlyByOverride

(* What a write of desired.json may do beside: end a block of the loop. *)
LEMMA PerceptionKeeps ==
  ASSUME PerceptionWrites
  PROVE  /\ UNCHANGED <<ctl, standing, proc, paused, feedHeld>>
         /\ pc' \in {pc, "poll"} /\ (pc' # pc => pc \in {"off", "back"})
<1>1. CASE \E w \in Editors :
             \/ EditorReads(w)
             \/ \E field \in {"locus", "audio", "video"}, active \in BOOLEAN :
                  EditorWrites(w, field, active)
  BY <1>1 DEF EditorReads, EditorWrites, watchVars
<1>2. CASE CycleReads
  BY <1>2 DEF CycleReads, watchVars
<1>3. CASE CycleWrites \/ CycleWriteRaises
  <2>1. UNCHANGED <<ctl, standing, proc, paused, feedHeld>>
    BY <1>3 DEF CycleWrites, CycleWriteRaises
  <2>2. EndBlock \/ UNCHANGED <<pc, snapshot>>
    BY <1>3, Zenon DEF CycleWrites, CycleWriteRaises
  <2> QED  BY <2>1, <2>2 DEF EndBlock
<1> QED  BY <1>1, <1>2, <1>3 DEF PerceptionWrites

(* Why the standing freeze holds: while it stands the loop can only have   *)
(* read a frozen file, so it is never on its way to resume, and outside a  *)
(* running process the loop is at its start.                               *)
StandingInv ==
  /\ standing => Frozen(ctl)
  /\ (standing /\ proc = "running") => paused /\ pc \notin {"resume", "restore"}
  /\ proc # "running" => pc = "poll"

(* Every step keeps it: a writer that empties the stack ends the standing, *)
(* the launch pauses before the first tick, and a read of a frozen file    *)
(* never leads to a resume.                                                *)
LEMMA StandingStep == TypeOK /\ StandingInv /\ [Next]_vars => StandingInv'
<1> SUFFICES ASSUME TypeOK, StandingInv, [Next]_vars
             PROVE  StandingInv'
  OBVIOUS
<1> USE DEF StandingInv, watchVars
<1>1. ASSUME NEW file, Write(file), UNCHANGED <<proc, paused, pc>>
      PROVE  StandingInv'
  BY <1>1 DEF Write, Frozen
<1>2. CASE OperatorFreeze \/ OperatorResume \/ Corrupt
  BY <1>1, <1>2 DEF OperatorFreeze, OperatorResume, Corrupt
<1>3. ASSUME NEW sources, Override(sources)
      PROVE  StandingInv'
  BY <1>1, <1>3 DEF Override
<1>4. ASSUME NEW source, HolderFreeze(source) \/ HolderRelease(source)
      PROVE  StandingInv'
  BY <1>1, <1>4 DEF HolderFreeze, HolderRelease
<1>5. CASE UNCHANGED vars \/ LocusMoves \/ PerceptionWrites
  <2>1. UNCHANGED <<ctl, standing, proc, paused>> /\ pc' \in {pc, "poll"}
    BY <1>5, PerceptionKeeps DEF LocusMoves, vars
  <2> QED  BY <2>1 DEF Frozen
<1>6. CASE Boot
  <2>1. UNCHANGED <<ctl, standing>> /\ proc' = "pinning" /\ pc' = "poll"  BY <1>6 DEF Boot
  <2> QED  BY <2>1 DEF Frozen
<1>12. CASE ClearStale
  <2>1. standing' = Frozen(ctl')  BY <1>12 DEF ClearStale, Frozen
  <2>2. proc' = "booting" /\ pc' = "poll"  BY <1>12 DEF ClearStale
  <2> QED  BY <2>1, <2>2 DEF Frozen
<1>7. CASE Launch
  <2>1. paused' = Frozen(ctl) /\ pc' = "poll" /\ UNCHANGED <<ctl, standing>>
    BY <1>7 DEF Launch, pause_if_frozen_at_launch
  <2> QED  BY <2>1 DEF Frozen
<1>8. CASE Stop
  BY <1>8 DEF Stop, Frozen
<1>9. CASE WatchRead
  <2>1. standing => Verdict(ctl) # "free"  BY DEF Verdict
  <2>2. standing' => pc' \in {"freeze", "freeze_development"}
    BY <1>9, <2>1 DEF WatchRead
  <2>3. proc' = "running" /\ UNCHANGED <<ctl, standing, paused>>  BY <1>9 DEF WatchRead, Polls
  <2> QED  BY <1>9, <2>2, <2>3 DEF Frozen, WatchRead, Polls
<1>10. CASE WatchFreeze \/ WatchFreezeDevelopment
  BY <1>10 DEF WatchFreeze, WatchFreezeDevelopment, RestorePerception, Polls, Frozen
<1>11. CASE WatchResume \/ WatchRestore
  BY <1>11 DEF WatchResume, WatchRestore, RestorePerception, Polls, Frozen
<1> QED
  BY <1>2, <1>3, <1>4, <1>5, <1>6, <1>7, <1>8, <1>9, <1>10, <1>11, <1>12
     DEF Next, Watch, PerceptionWrites

(* A freeze that survives the boot, such as a welfare freeze after a crash, *)
(* holds the relaunched cycle paused until it is lifted.                    *)
THEOREM StandingFreezeHolds == Spec => []StandingFreezeHoldsLaunch
<1>1. Init => StandingInv  BY DEF Init, StandingInv
<1>2. StandingInv => StandingFreezeHoldsLaunch  BY DEF StandingInv, StandingFreezeHoldsLaunch
<1> QED  BY <1>1, <1>2, StandingStep, TypeCorrect, PTL DEF Spec

(* The loop is on its way to a pause or a resume only in a running process. *)
LoopInv == proc # "running" => pc = "poll"

LEMMA LoopStep == TypeOK /\ LoopInv /\ [Next]_vars => LoopInv'
<1> SUFFICES ASSUME TypeOK, LoopInv, [Next]_vars
             PROVE  LoopInv'
  OBVIOUS
<1>1. CASE PerceptionWrites
  BY <1>1, PerceptionKeeps DEF LoopInv
<1>2. CASE Watch
  BY <1>2 DEF LoopInv, Watch, WatchRead, WatchFreeze, WatchFreezeDevelopment, WatchResume,
              WatchRestore, Polls
<1> QED
  BY <1>1, <1>2 DEF LoopInv, Next, OperatorFreeze, OperatorResume, Override, HolderFreeze,
         HolderRelease, Corrupt, Boot, ClearStale, Launch, Stop, LocusMoves, PerceptionWrites,
         watchVars, perception, vars

(* A step that changes the holders alone. *)
LEMMA HoldersStep ==
  ASSUME TypeOK, UNCHANGED <<proc, paused, pc>>,
         \/ Holders(ctl') = Holders(ctl)
         \/ Holders(ctl') = {"welfare"}
         \/ \E source \in Sources : Holders(ctl') = Holders(ctl) \cup {source}
         \/ \E source \in Sources \ {"welfare"} : Holders(ctl') = Holders(ctl) \ {source}
         \/ \E sources \in SUBSET OVERRIDABLE_SOURCES :
              sources # {} /\ Holders(ctl') = Holders(ctl) \ sources
  PROVE  [Promise!Next]_Promise!vars
<1> DEFINE holders == Holders(ctl)
<1>1. CASE Holders(ctl') = Holders(ctl)
  BY <1>1 DEF Promise!vars
<1>2. CASE Holders(ctl') = {"welfare"}
  <2>1. Promise!Damage  BY <1>2 DEF Promise!Damage
  <2> QED  BY <2>1 DEF Promise!Next
<1>3. ASSUME NEW source \in Sources, Holders(ctl') = Holders(ctl) \cup {source}
      PROVE  Promise!Next
  <2>1. Promise!Freeze(source)  BY <1>3 DEF Promise!Freeze
  <2> QED  BY <2>1 DEF Promise!Next
<1>4. ASSUME NEW source \in Sources \ {"welfare"}, Holders(ctl') = Holders(ctl) \ {source}
      PROVE  Promise!Next
  <2>1. Promise!Release(source)  BY <1>4 DEF Promise!Release
  <2> QED  BY <2>1 DEF Promise!Next
<1>5. ASSUME NEW sources \in SUBSET OVERRIDABLE_SOURCES, sources # {},
             Holders(ctl') = Holders(ctl) \ sources
      PROVE  Promise!Next
  <2>1. Promise!Lift(sources)  BY <1>5 DEF Promise!Lift
  <2> QED  BY <2>1 DEF Promise!Next
<1> QED  BY <1>1, <1>2, <1>3, <1>4, <1>5

(* A step of the freeze control is a step of the promise, or none. *)
LEMMA PromiseStep ==
  TypeOK /\ LoopInv /\ [Next]_vars => [Promise!Next]_Promise!vars
<1> SUFFICES ASSUME TypeOK, LoopInv, [Next]_vars
             PROVE  [Promise!Next]_Promise!vars
  OBVIOUS
<1>0. WellFormed(ctl)  BY DEF TypeOK, WellFormed, ListOfEntries, ControlFiles
<1> USE DEF watchVars, perception
<1>1. CASE OperatorFreeze
  <2>1. Holders(ctl') = Holders(ctl) \/ Holders(ctl') = Holders(ctl) \cup {"operator"}
    BY <1>0, <1>1, PushFreeze DEF OperatorFreeze, Write, Sources
  <2> QED  BY <1>1, <2>1, HoldersStep DEF OperatorFreeze, Sources
<1>2. CASE OperatorResume
  <2>1. Holders(ctl') = Holders(ctl) \/ Holders(ctl') = Holders(ctl) \ {"operator"}
    BY <1>0, <1>2, StandDown DEF OperatorResume, Write
  <2> QED  BY <1>2, <2>1, HoldersStep DEF OperatorResume, Sources
<1>3. ASSUME NEW sources \in SUBSET OVERRIDABLE_SOURCES, Override(sources)
      PROVE  [Promise!Next]_Promise!vars
  <2>1. ctl' = override(ctl, sources) /\ can_override(ctl, sources)
    BY <1>3 DEF Override, Write
  <2>2. CASE ctl.readable
    <3>1. Holders(ctl') = Holders(ctl) \ sources /\ sources # {}
      BY <1>0, <2>1, <2>2, OverrideLifts DEF can_override
    <3> QED  BY <1>3, <3>1, HoldersStep DEF Override
  <2>3. CASE ~ctl.readable
    <3>1. Holders(ctl') = {} /\ sources # {} /\ "welfare" \in sources
      BY <1>0, <2>1, <2>3, OverrideLifts DEF can_override
    <3>2. Holders(ctl) = {"welfare"}
      BY <2>3 DEF Holders, HoldersOf, read_control, fail_closed_state
    <3>3. Holders(ctl') = Holders(ctl) \ sources  BY <3>1, <3>2
    <3> QED  BY <1>3, <3>1, <3>3, HoldersStep DEF Override
  <2> QED  BY <2>2, <2>3
<1>4. ASSUME NEW source \in HolderSources, HolderFreeze(source)
      PROVE  [Promise!Next]_Promise!vars
  <2>1. source \in Sources  BY HolderSourcesAreSources
  <2>2. Holders(ctl') = Holders(ctl) \/ Holders(ctl') = Holders(ctl) \cup {source}
    BY <1>0, <1>4, <2>1, PushFreeze DEF HolderFreeze, Write
  <2> QED  BY <1>4, <2>1, <2>2, HoldersStep DEF HolderFreeze
<1>5. ASSUME NEW source \in HolderSources \ {"welfare", "programme_end"},
             HolderRelease(source)
      PROVE  [Promise!Next]_Promise!vars
  <2>1. source \in Sources \ {"welfare"}  BY HolderSourcesAreSources
  <2>2. /\ Holders(ctl) \ {source} \subseteq Holders(ctl')
        /\ Holders(ctl') \subseteq Holders(ctl)
    BY <1>0, <1>5, PopFreeze DEF HolderRelease, Write
  <2>3. Holders(ctl') = Holders(ctl) \/ Holders(ctl') = Holders(ctl) \ {source}
    BY <2>2
  <2> QED  BY <1>5, <2>1, <2>3, HoldersStep DEF HolderRelease
<1>6. CASE Corrupt
  <2>1. ctl' = Unreadable  BY <1>6 DEF Corrupt, Write
  <2>2. Holders(ctl') = {"welfare"}
    BY <2>1 DEF Holders, HoldersOf, read_control, fail_closed_state, Unreadable
  <2> QED  BY <1>6, <2>2, HoldersStep DEF Corrupt
<1>7. CASE ClearStale
  <2>1. Holders(ctl') = Holders(ctl) \/ Holders(ctl') = Holders(ctl) \cap {"welfare"}
    BY <1>0, <1>7, UnfreezeForBoot DEF ClearStale
  <2>2. CASE Holders(ctl') = Holders(ctl)
    <3>1. proc # "running" /\ proc' # "running" /\ UNCHANGED <<paused, pc>>
      BY <1>7 DEF ClearStale
    <3> QED  BY <2>2, <3>1 DEF Promise!vars
  <2>3. CASE Holders(ctl') = Holders(ctl) \cap {"welfare"}
    <3>1. Promise!Boot  BY <1>7, <2>3 DEF ClearStale, Promise!Boot
    <3> QED  BY <3>1 DEF Promise!Next
  <2> QED  BY <2>1, <2>2, <2>3
<1>8. CASE Launch
  <2>1. paused' = Frozen(ctl) /\ UNCHANGED <<ctl, pc>> /\ proc = "booting" /\ proc' = "running"
    BY <1>8 DEF Launch, pause_if_frozen_at_launch
  <2>2. Frozen(ctl) <=> Holders(ctl) # {}  BY DEF Frozen, Holders, HoldersOf
  <2>3. Promise!Launch  BY <2>1, <2>2 DEF Promise!Launch
  <2> QED  BY <2>3 DEF Promise!Next
<1>9. CASE Stop
  <2>1. Promise!Stop  BY <1>9 DEF Stop, Promise!Stop
  <2> QED  BY <2>1 DEF Promise!Next
<1>10. CASE WatchRead
  <2>1. Verdict(ctl) = "free" <=> Holders(ctl) = {}
    BY DEF Verdict, Frozen, Holders, HoldersOf
  <2>2. Verdict(ctl) \in {"free", "development", "others"}  BY DEF Verdict
  <2>3. CASE pc' = "poll"
    BY <1>10, <2>3 DEF WatchRead, Polls, Promise!vars
  <2>4. CASE pc' # "poll"
    <3>1. Promise!Look  BY <1>10, <2>1, <2>2, <2>4 DEF WatchRead, Polls, Promise!Look
    <3> QED  BY <3>1 DEF Promise!Next
  <2> QED  BY <2>3, <2>4
<1>11. CASE WatchFreeze \/ WatchFreezeDevelopment
  <2>1. Promise!Act
    BY <1>11 DEF WatchFreeze, WatchFreezeDevelopment, RestorePerception, Polls, Promise!Act
  <2> QED  BY <2>1 DEF Promise!Next
<1>12. CASE WatchResume
  <2>1. Promise!Act  BY <1>12 DEF WatchResume, Polls, Promise!Act
  <2> QED  BY <2>1 DEF Promise!Next
<1>13. CASE WatchRestore
  BY <1>13 DEF WatchRestore, RestorePerception, Promise!vars
<1>14. CASE UNCHANGED vars \/ Boot \/ LocusMoves
  <2>1. UNCHANGED <<ctl, paused, pc>> /\ (proc = "running" <=> proc' = "running")
    BY <1>14 DEF Boot, LocusMoves, vars
  <2> QED  BY <2>1 DEF Promise!vars
<1>15. CASE PerceptionWrites
  BY <1>15, PerceptionKeeps DEF Promise!vars
<1> QED
  BY <1>1, <1>2, <1>3, <1>4, <1>5, <1>6, <1>7, <1>8, <1>9, <1>10, <1>11, <1>12, <1>13, <1>14, <1>15
     DEF Next, Watch, PerceptionWrites

(* The freeze control keeps the promise made to the holders of a freeze,    *)
(* however its writers, the loop, boots and crashes are interleaved.        *)
THEOREM FreezePromiseKept == Spec => KeepsPromise
<1>1. Init => Promise!Init /\ LoopInv
  <2>1. Init => Holders(ctl) = {} /\ proc = "down" /\ pc = "poll"
    BY DEF Init, Holders, HoldersOf, read_control, Readable
  <2> QED  BY <2>1 DEF Promise!Init, LoopInv
<1> QED
  BY <1>1, LoopStep, PromiseStep, TypeCorrect, PTL DEF Spec, KeepsPromise, Promise!Safe

(* Why perception comes back: while no two writers have crossed, what the   *)
(* loop keeps while perception is off is what was commanded, what it has    *)
(* given back so far too, and a process past its pin without a snapshot has *)
(* all of it.                                                               *)
PerceptionInv ==
  /\ snapshot.taken => proc = "running"
  /\ proc = "down" => writing = "none"
  /\ proc = "booting" => writing = "none"
  /\ pc \in {"off", "back"} <=> writing \in {"audio", "video"} /\ proc = "running"
  /\ pc \in {"off", "back"} => snapshot.taken
  /\ ~spoiled =>
       /\ snapshot.taken => snapshot.flags = commanded
       /\ pc = "back" /\ writing = "video" => desired.audio = commanded.audio
       /\ proc = "pinning" =>
            /\ writing \in {"video", "none"} => desired.audio = commanded.audio
            /\ writing = "none" => desired = commanded
       /\ proc \in {"booting", "running"} /\ ~snapshot.taken => desired = commanded

LEMMA PerceptionStep ==
  ASSUME Developing, TypeOK, PerceptionInv, [Next]_vars
  PROVE  PerceptionInv'
<1> USE DEF PerceptionInv, watchVars, perception
<1>1. ASSUME UNCHANGED <<proc, snapshot, desired, commanded, writing, spoiled, pc>>
      PROVE  PerceptionInv'
  BY <1>1
<1>2. ASSUME UNCHANGED <<proc, snapshot, desired, commanded, writing, spoiled>>,
             {pc, pc'} \cap {"off", "back"} = {}
      PROVE  PerceptionInv'
  BY <1>2
<1>3. CASE OperatorFreeze \/ OperatorResume \/ Corrupt \/ CycleReads
  BY <1>1, <1>3 DEF OperatorFreeze, OperatorResume, Corrupt, CycleReads
<1>4. ASSUME NEW sources, Override(sources)
      PROVE  PerceptionInv'
  BY <1>1, <1>4 DEF Override
<1>5. ASSUME NEW source, HolderFreeze(source) \/ HolderRelease(source)
      PROVE  PerceptionInv'
  BY <1>1, <1>5 DEF HolderFreeze, HolderRelease
<1>6. ASSUME NEW w, EditorReads(w)
      PROVE  PerceptionInv'
  BY <1>1, <1>6 DEF EditorReads
<1>7. ASSUME NEW w \in Editors, NEW field \in {"locus", "audio", "video"},
             NEW active \in BOOLEAN, EditorWrites(w, field, active)
      PROVE  PerceptionInv'
  <2>1. UNCHANGED <<proc, snapshot, writing, pc>>  BY <1>7 DEF EditorWrites
  <2>2. CASE spoiled'  BY <2>1, <2>2
  <2>3. CASE ~spoiled'
    <3>1. ~spoiled /\ draft[w].flags = desired /\ (snapshot.taken => field = "locus")
      BY <1>7, <2>3 DEF EditorWrites, Overtaken
    <3>2. /\ desired' = Edited(desired, field, active)
          /\ commanded' = Edited(commanded, field, active)
      BY <1>7, <3>1 DEF EditorWrites, Saves
    <3>3. desired = commanded => desired' = commanded'  BY <3>2
    <3>4. snapshot.taken => desired' = desired /\ commanded' = commanded
      BY <3>1, <3>2 DEF Edited
    <3>5. desired.audio = commanded.audio => desired'.audio = commanded'.audio
      BY <3>2 DEF Edited, TypeOK, Flags
    <3> QED  BY <2>1, <3>1, <3>3, <3>4, <3>5
  <2> QED  BY <2>2, <2>3
<1>8. CASE CycleWrites
  <2>1. /\ writing # "none" /\ writing' = FieldAfter(writing)
        /\ UNCHANGED <<proc>> /\ spoiled' = (spoiled \/ Overtaken("cycle"))
    BY <1>8 DEF CycleWrites
  <2>2. proc \in {"pinning", "running"}  BY <2>1 DEF TypeOK
  <2>3. PICK active \in IF writing = "locus" THEN {TRUE} ELSE {Goal[writing]} :
            /\ Saves("cycle", writing, active)
            /\ commanded' = IF proc = "pinning" THEN Edited(commanded, writing, active)
                                               ELSE commanded
    BY <1>8, Zenon DEF CycleWrites
  <2>4. writing # "locus" => active = Goal[writing]  BY <2>3
  <2>5. ~spoiled' => ~spoiled /\ desired' = Edited(desired, writing, active)
    BY <2>1, <2>3 DEF Overtaken, Saves
  <2>6. IF writing' = "none" THEN EndBlock ELSE UNCHANGED <<pc, snapshot>>
    BY <1>8, <2>1, Zenon DEF CycleWrites
  <2>7. desired \in Flags /\ commanded \in Flags /\ snapshot.flags \in Flags  BY DEF TypeOK
  <2>8. CASE writing = "locus"
    <3>1. /\ writing' = IF proc = "pinning" THEN "audio" ELSE "none"
          /\ pc \notin {"off", "back"} /\ UNCHANGED <<pc, snapshot>>
      BY <2>1, <2>2, <2>6, <2>8 DEF FieldAfter, EndBlock
    <3>2. ~spoiled' => desired' = desired /\ commanded' = commanded
      BY <2>3, <2>5, <2>8 DEF Edited
    <3> QED  BY <2>1, <2>2, <2>5, <2>8, <3>1, <3>2
  <2>9. CASE writing = "audio"
    <3>1. writing' = "video" /\ UNCHANGED <<pc, snapshot>>
      BY <2>1, <2>6, <2>9 DEF FieldAfter
    <3>2. CASE proc = "pinning"
      <4>1. ~spoiled' => desired'.audio = commanded'.audio
        BY <2>3, <2>5, <2>7, <2>9, <3>2 DEF Edited, Flags
      <4> QED  BY <2>1, <2>5, <3>1, <3>2, <4>1
    <3>3. CASE proc = "running"
      <4>1. pc = "back" => Goal = snapshot.flags  BY <3>3 DEF Goal
      <4>2. commanded' = commanded  BY <2>3, <3>3
      <4>3. ~spoiled' => ~spoiled /\ desired'.audio = Goal.audio
        BY <2>4, <2>5, <2>7, <2>9 DEF Edited, Flags
      <4> QED  BY <2>1, <2>9, <3>1, <3>3, <4>1, <4>2, <4>3
    <3> QED  BY <2>2, <3>2, <3>3
  <2>10. CASE writing = "video"
    <3>1. writing' = "none" /\ EndBlock  BY <2>1, <2>6, <2>10 DEF FieldAfter
    <3>2. CASE proc = "pinning"
      <4>1. UNCHANGED <<pc, snapshot>> /\ ~snapshot.taken  BY <3>1, <3>2 DEF EndBlock
      <4>2. ~spoiled' => desired'.audio = commanded'.audio /\ desired'.video = commanded'.video
        BY <2>3, <2>5, <2>7, <2>10, <3>2 DEF Edited, Flags
      <4>3. desired' \in Flags /\ commanded' \in Flags
        BY TypeStep DEF TypeOK
      <4>4. ~spoiled' => desired' = commanded'  BY <4>2, <4>3 DEF Flags
      <4> QED  BY <2>1, <2>5, <3>1, <3>2, <4>1, <4>2, <4>4
    <3>3. CASE proc = "running"
      <4>1. pc \in {"off", "back"} /\ pc' = "poll"  BY <2>10, <3>1, <3>3 DEF EndBlock
      <4>2. commanded' = commanded  BY <2>3, <3>3
      <4>3. CASE pc = "off"
        <5>1. snapshot' = snapshot  BY <3>1, <4>3 DEF EndBlock
        <5> QED  BY <2>1, <2>5, <3>1, <3>3, <4>1, <4>2, <4>3, <5>1
      <4>4. CASE pc = "back"
        <5>1. snapshot' = NoSnapshot /\ Goal = snapshot.flags
          BY <3>1, <3>3, <4>4 DEF EndBlock, Goal
        <5>2. ~spoiled' => desired' = [desired EXCEPT !.video = commanded.video]
                           /\ desired.audio = commanded.audio
          BY <2>4, <2>5, <2>10, <4>4, <5>1 DEF Edited
        <5>3. ~spoiled' => desired' = commanded'  BY <2>7, <4>2, <5>2 DEF Flags
        <5> QED  BY <2>1, <3>1, <3>3, <4>1, <5>1, <5>3 DEF NoSnapshot
      <4> QED  BY <4>1, <4>3, <4>4
    <3> QED  BY <2>2, <3>2, <3>3
  <2> QED  BY <2>1, <2>8, <2>9, <2>10 DEF TypeOK
<1>9. CASE CycleWriteRaises
  <2>1. /\ writing' = "none" /\ spoiled' /\ pc \in {"off", "back"} /\ proc' = proc
        /\ pc' = "poll" /\ snapshot' \in {snapshot, NoSnapshot}
    BY <1>9, Zenon DEF CycleWriteRaises, EndBlock
  <2>2. proc = "running"
    BY <2>1
  <2> QED  BY <2>1, <2>2 DEF NoSnapshot
<1>10. CASE LocusMoves
  <2>1. /\ writing = "none" /\ writing' = "locus" /\ proc = "running"
        /\ UNCHANGED <<proc, snapshot, desired, commanded, spoiled, pc>>
    BY <1>10 DEF LocusMoves, LoopAwaits
  <2> QED  BY <2>1
<1>11. CASE Boot
  <2>1. /\ proc = "down" /\ proc' = "pinning" /\ writing' = "locus"
        /\ UNCHANGED <<pc, snapshot>>
    BY <1>11 DEF Boot
  <2> QED  BY <2>1
<1>12. CASE ClearStale
  <2>1. /\ proc = "pinning" /\ writing = "none" /\ proc' = "booting"
        /\ UNCHANGED <<pc, snapshot, desired, commanded, spoiled, writing>>
    BY <1>12 DEF ClearStale
  <2> QED  BY <2>1
<1>13. CASE Launch
  <2>1. /\ proc = "booting" /\ proc' = "running"
        /\ UNCHANGED <<pc, snapshot, desired, commanded, spoiled, writing>>
    BY <1>13 DEF Launch
  <2> QED  BY <2>1
<1>14. CASE Stop  BY <1>14 DEF Stop, NoSnapshot
<1>15. CASE WatchRead \/ WatchResume
  BY <1>2, <1>15 DEF WatchRead, WatchResume, Polls
<1>16. CASE WatchFreeze
  <2>1. /\ proc = "running" /\ writing = "none" /\ pc = "freeze"
        /\ UNCHANGED <<proc, desired, commanded, spoiled>>
    BY <1>16 DEF WatchFreeze, Polls
  <2>2. CASE snapshot.taken
    <3>1. pc' = "poll" /\ UNCHANGED <<snapshot, writing>>
      BY <1>16, <2>2 DEF WatchFreeze, SnapshotDue
    <3> QED  BY <1>2, <2>1, <3>1
  <2>3. CASE ~snapshot.taken
    <3>1. /\ snapshot' = [taken |-> TRUE, flags |-> desired]
          /\ pc' = "off" /\ writing' = "audio"
      BY <1>16, <2>3 DEF WatchFreeze, SnapshotDue
    <3> QED  BY <2>1, <2>3, <3>1
  <2> QED  BY <2>2, <2>3
<1>17. CASE WatchFreezeDevelopment \/ WatchRestore
  <2>1. /\ proc = "running" /\ writing = "none" /\ pc \notin {"off", "back"}
        /\ UNCHANGED <<proc, snapshot, desired, commanded, spoiled>>
        /\ IF snapshot.taken THEN pc' = "back" /\ writing' = "audio"
                             ELSE pc' = "poll" /\ UNCHANGED writing
    BY <1>17 DEF WatchFreezeDevelopment, WatchRestore, RestorePerception, Polls
  <2> QED  BY <2>1
<1>18. CASE UNCHANGED vars
  BY <1>1, <1>18 DEF vars
<1> HIDE DEF PerceptionInv
<1> QED
  BY <1>3, <1>4, <1>5, <1>6, <1>7, <1>8, <1>9, <1>10, <1>11, <1>12, <1>13, <1>14, <1>15, <1>16,
     <1>17, <1>18
     DEF Next, Watch

(* In the developmental phase freezes, resumes, crashes and boots in any     *)
(* order leave the running entity with the perception it was given, as long *)
(* as no two writers of desired.json cross and no write of it raises.       *)
THEOREM PerceptionComesBack == Developing => (Spec => []NeverLeftDeafOrBlind)
<1> SUFFICES ASSUME Developing
             PROVE  Spec => []NeverLeftDeafOrBlind
  OBVIOUS
<1>1. Init => PerceptionInv  BY DEF Init, PerceptionInv, NoSnapshot
<1>2. TypeOK /\ PerceptionInv /\ [Next]_vars => PerceptionInv'  BY PerceptionStep
<1>3. PerceptionInv => NeverLeftDeafOrBlind  BY DEF PerceptionInv, NeverLeftDeafOrBlind
<1> QED  BY <1>1, <1>2, <1>3, TypeCorrect, PTL DEF Spec
-----------------------------------------------------------------------------
(* The cycle: its inductive invariant. *)

(* What a stream holds: what its producers put there. *)
Kept(s) == Incoming(s) \cup (IF s = "language.out" THEN {<<"speech">>} ELSE {})

(* The pairs of positions of a stream that may be handled one before the other. *)
Handling(s) == {e \in Nat \X Nat : InOrder(s, e[1], e[2])}

Chained(q, R) == \A i, k \in DOMAIN q : i < k => <<q[i], q[k]>> \in R

(* Where each reader stands in its stream, and what it has handled. *)
ReadInv ==
  /\ log \in [Streams -> Seq(Messages)]
  /\ cursor \in [Streams -> Int] /\ since \in [Streams -> Int] /\ boot \in [Streams -> Int]
  /\ taken \in [Streams -> Seq(Nat)] /\ lostTail \subseteq Streams
  /\ \A s \in Streams :
       /\ log[s] \in Seq(Kept(s))
       /\ boot[s] \in 0 .. Len(log[s])
       /\ cursor[s] = Unseeded => since[s] = Unseeded /\ taken[s] = <<>>
       /\ cursor[s] # Unseeded =>
            /\ cursor[s] \in 0 .. Len(log[s]) /\ since[s] \in 0 .. cursor[s]
            /\ s \notin lostTail => since[s] >= boot[s]
            /\ Range(taken[s]) = {i \in since[s] + 1 .. cursor[s] : Decodable(s, i)}
            /\ Chained(taken[s], Handling(s))

(* Broadcasts due and neither made nor missed, but for the one in flight. *)
Behind == credit - missed - (IF InFlight THEN Unit ELSE 0)

(* The accumulator runs ahead of the broadcasts due by no more than one; a  *)
(* tick is promoted on its way to a broadcast only.                         *)
PaceInv ==
  /\ rates \in Rates
  /\ acc \in 0 .. Unit
  /\ credit \in Int /\ missed \in Nat /\ missed =< faults * Unit
  /\ batch.promoted => awaits = "select"
  /\ Behind =< acc /\ Behind < Unit
  /\ Share =< Unit => acc - Behind =< Unit
  /\ Share > Unit => Behind >= 0

(* A pause finds at most the tick in flight. *)
PauseInv ==
  /\ underPause \in 0 .. 1
  /\ underPause > 0 => suspended /\ awaits \in {"intents", "pace", "gate"}

(* The organ's speech that this process has yet to read. *)
Pending ==
  {i \in 1 .. Len(log["language.out"]) :
     /\ i > cursor["language.out"] /\ i > boot["language.out"]
     /\ log["language.out"][i] = <<"speech">>}

(* Unless it slipped, an armed guard stands for the one utterance in flight: *)
(* its intent to publish, its intent with the organ, or its speech unread.   *)
SpeechInv ==
  /\ guard \in {Disarmed} \cup 0 .. GuardTimeout /\ owed \in Nat
  /\ batch.spoke => guard = Disarmed
  /\ ~slipped =>
       /\ owed =< 1 /\ \A i, k \in Pending : i = k
       /\ owed = 1 => Pending = {} /\ awaits # "intents"
       /\ Pending # {} => awaits # "intents"
       /\ owed = 1 \/ Pending # {} \/ awaits = "intents" => guard # Disarmed

RoundInv ==
  /\ awaits \in Steps /\ suspended \in BOOLEAN /\ slipped \in BOOLEAN
  /\ batch \in Candidates
  /\ arrivals \in 0 .. MaxArrivals /\ faults \in 0 .. MaxFaults /\ restarts \in 0 .. MaxRestarts

CycleInv == RoundInv /\ ReadInv /\ PaceInv /\ PauseInv /\ SpeechInv
-----------------------------------------------------------------------------
(* Least counterexamples, which stand in for induction. *)

(* A set of naturals has a least element. *)
LEMMA LeastNat ==
  ASSUME NEW S, S \subseteq Nat, S # {}
  PROVE  \E m \in S : \A k \in S : m <= k
<1> DEFINE Upto == {0 .. k : k \in S}
           R == StrictSubsetOrdering(Nat)
           F == FiniteSubsetsOf(Nat)
<1>1. IsWellFoundedOn(R, F)
  BY FS_StrictSubsetOrderingWellFounded
<1>2. \A k \in Nat : 0 .. k \in F
  BY FS_Interval DEF FiniteSubsetsOf
<1>3. \A k, m \in Nat : k < m => <<0 .. k, 0 .. m>> \in R
  <2> SUFFICES ASSUME NEW k \in Nat, NEW m \in Nat, k < m
               PROVE  <<0 .. k, 0 .. m>> \in R
    OBVIOUS
  <2>1. 0 .. k \in SUBSET Nat /\ 0 .. m \in SUBSET Nat /\ 0 .. k \subseteq 0 .. m
    OBVIOUS
  <2>2. m \in 0 .. m /\ m \notin 0 .. k
    OBVIOUS
  <2>3. 0 .. k # 0 .. m
    BY <2>2
  <2> QED  BY <2>1, <2>3 DEF StrictSubsetOrdering
<1>4. Upto \subseteq F /\ Upto # {}
  BY <1>2
<1> HIDE DEF R, F
<1>5. \E u \in Upto : \A v \in Upto : <<v, u>> \notin R
  BY <1>1, <1>4, WFMin
<1>6. PICK m \in S : \A k \in S : <<0 .. k, 0 .. m>> \notin R
  BY <1>5
<1>7. \A k \in S : k \in Nat /\ m \in Nat /\ ~ (k < m)
  BY <1>3, <1>6
<1>8. \A k \in S : m <= k
  BY <1>7
<1> QED  BY <1>8

LEMMA MaxOfTwo == \A a, b \in Int : Max({a, b}) = IF a >= b THEN a ELSE b
BY DEF Max

LEMMA MinOfTwo == \A a, b \in Int : Min({a, b}) = IF a =< b THEN a ELSE b
BY DEF Min

LEMMA ScaledUp ==
  \A a, b \in Nat, u \in Nat :
    /\ a * u \in Nat /\ (a + 1) * u = a * u + u
    /\ a =< b => a * u =< b * u
OBVIOUS

(* A finite set of naturals has a rising enumeration. *)
LEMMA RisingExists ==
  \A n \in Nat : \A S \in SUBSET (1 .. n) :
    IsFiniteSet(S) /\ \E q \in [1 .. Cardinality(S) -> S] : Rising(q) /\ Range(q) = S
<1> DEFINE Fine(S) == \E q \in [1 .. Cardinality(S) -> S] : Rising(q) /\ Range(q) = S
           Bad == {n \in Nat : \E S \in SUBSET (1 .. n) : ~ Fine(S)}
<1>1. \A n \in Nat : \A S \in SUBSET (1 .. n) : IsFiniteSet(S)
  <2> SUFFICES ASSUME NEW n \in Nat, NEW S \in SUBSET (1 .. n) PROVE IsFiniteSet(S)
    OBVIOUS
  <2>1. IsFiniteSet(1 .. n)
    BY FS_Interval
  <2> QED  BY <2>1, FS_Subset
<1>2. Bad = {}
  <2> SUFFICES ASSUME Bad # {} PROVE FALSE
    OBVIOUS
  <2>1. PICK m \in Bad : \A k \in Bad : m =< k
    <3> HIDE DEF Fine
    <3> QED  BY LeastNat
  <2>2. PICK S \in SUBSET (1 .. m) : ~ Fine(S)
    BY <2>1
  <2>3. m # 0
    <3> SUFFICES ASSUME m = 0 PROVE FALSE
      OBVIOUS
    <3>0. S = {}
      BY <2>2
    <3>1. Cardinality(S) = 0
      BY <3>0, FS_EmptySet
    <3>2. <<>> \in [1 .. 0 -> S] /\ Rising(<<>>) /\ Range(<<>>) = {}
      BY DEF Rising, Range
    <3>3. Fine(S)
      BY <3>0, <3>1, <3>2
    <3> QED  BY <3>3, <2>2
  <2>4. m - 1 \in Nat /\ m - 1 \notin Bad
    <3> HIDE DEF Fine
    <3>1. m \in Nat /\ \A k \in Bad : k \in Nat
      OBVIOUS
    <3> HIDE DEF Bad
    <3> QED  BY <2>1, <2>3, <3>1
  <2>5. m \in S
    <3> HIDE DEF Fine
    <3>1. S \notin SUBSET (1 .. m - 1)
      BY <2>2, <2>4
    <3> QED  BY <3>1, <2>2
  <2> DEFINE T == S \ {m}
  <2>6. T \in SUBSET (1 .. m - 1)
    BY <2>1
  <2>7. PICK q \in [1 .. Cardinality(T) -> T] : Rising(q) /\ Range(q) = T
    BY <2>4, <2>6
  <2>8. Cardinality(T) \in Nat /\ Cardinality(S) = Cardinality(T) + 1
    <3>1. IsFiniteSet(S) /\ IsFiniteSet(T)
      BY <1>1, <2>4, <2>6
    <3>2. Cardinality(S) \in Nat /\ Cardinality(T) \in Nat
      BY <3>1, FS_CardinalityType
    <3>3. Cardinality(T) = Cardinality(S) - 1
      BY <3>1, <2>5, FS_RemoveElement
    <3> QED  BY <3>2, <3>3
  <2> DEFINE c == Cardinality(T)
             p == [i \in 1 .. c + 1 |-> IF i = c + 1 THEN m ELSE q[i]]
  <2> HIDE DEF c
  <2>9. c \in Nat /\ Cardinality(S) = c + 1 /\ q \in [1 .. c -> T]
    BY <2>7, <2>8 DEF c
  <2>10. p \in [1 .. Cardinality(S) -> S]
    <3>1. \A i \in 1 .. c : q[i] \in S
      BY <2>9
    <3>2. \A i \in 1 .. c + 1 : i # c + 1 => i \in 1 .. c
      BY <2>9
    <3>3. \A i \in 1 .. c + 1 : (IF i = c + 1 THEN m ELSE q[i]) \in S
      BY <3>1, <3>2, <2>5
    <3> QED  BY <3>3, <2>9
  <2>11. Rising(p)
    <3> SUFFICES ASSUME NEW i \in 1 .. c + 1, NEW k \in 1 .. c + 1, i < k
                 PROVE  p[i] < p[k]
      BY <2>9 DEF Rising
    <3>1. CASE k = c + 1
      <4>1. i \in 1 .. c /\ p[i] = q[i] /\ p[k] = m
        BY <3>1, <2>9
      <4>2. q[i] \in 1 .. m - 1
        BY <4>1, <2>9, <2>6
      <4> QED  BY <4>1, <4>2, <2>4
    <3>2. CASE k # c + 1
      <4>1. i \in 1 .. c /\ k \in 1 .. c /\ p[i] = q[i] /\ p[k] = q[k] /\ DOMAIN q = 1 .. c
        BY <3>2, <2>9
      <4> QED  BY <4>1, <2>7 DEF Rising
    <3> QED  BY <3>1, <3>2
  <2>12. Range(p) = S
    <3>1. \A x \in T : \E i \in 1 .. c : p[i] = x
      <4>1. \A x \in T : \E i \in 1 .. c : q[i] = x
        BY <2>7, <2>9 DEF Range
      <4>2. \A i \in 1 .. c : p[i] = q[i]
        BY <2>9
      <4> QED  BY <4>1, <4>2
    <3>2. p[c + 1] = m /\ DOMAIN p = 1 .. c + 1 /\ S = T \cup {m}
      BY <2>9, <2>5
    <3>3. \A i \in 1 .. c + 1 : p[i] \in S
      BY <2>9, <2>10
    <3>4. c + 1 \in 1 .. c + 1 /\ \A i \in 1 .. c : i \in 1 .. c + 1
      BY <2>9
    <3> HIDE DEF p, T
    <3> QED  BY <3>1, <3>2, <3>3, <3>4 DEF Range
  <2> HIDE DEF p
  <2> QED  BY <2>2, <2>10, <2>11, <2>12
<1> QED  BY <1>1, <1>2

(* An increasing enumeration of the positions of a stream leaves none out. *)
LEMMA OrderedEnumerates ==
  ASSUME NEW n \in Nat, NEW S \in SUBSET (1 .. n)
  PROVE  Ordered(S) \in Seq(S) /\ Rising(Ordered(S)) /\ Range(Ordered(S)) = S
<1>1. IsFiniteSet(S) /\ \E q \in [1 .. Cardinality(S) -> S] : Rising(q)
  BY RisingExists
<1> DEFINE c == Cardinality(S)
           q == Ordered(S)
<1>2. c \in Nat
  BY <1>1, FS_CardinalityType
<1>3. q \in [1 .. c -> S] /\ Rising(q)
  BY <1>1 DEF Ordered
<1>4. q \in Injection(1 .. c, S)
  <2>1. \A i, k \in 1 .. c : i < k => q[i] # q[k]
    <3>1. \A i \in 1 .. c : q[i] \in 1 .. n
      BY <1>3
    <3> QED  BY <1>2, <1>3, <3>1 DEF Rising
  <2>2. \A i, k \in 1 .. c : q[i] = q[k] => i = k
    BY <2>1, <1>2
  <2> QED  BY <2>2, <1>3 DEF Injection, IsInjective
<1>5. Cardinality(1 .. c) = c
  BY <1>2, FS_Interval
<1>6. q \in Surjection(1 .. c, S)
  BY <1>1, <1>4, <1>5, FS_Injection
<1>7. Range(q) = S
  BY <1>3, <1>6 DEF Surjection, Range
<1>8. q \in Seq(S)
  BY <1>2, <1>3
<1> QED  BY <1>3, <1>7, <1>8
-----------------------------------------------------------------------------
(* The reads. *)

(* Two chained sequences, every element of one before every one of the other. *)
LEMMA Joined ==
  ASSUME NEW R, NEW p \in Seq(Nat), NEW q \in Seq(Nat), Chained(p, R), Chained(q, R),
         \A x \in Range(p), y \in Range(q) : <<x, y>> \in R
  PROVE  p \o q \in Seq(Nat) /\ Chained(p \o q, R) /\ Range(p \o q) = Range(p) \cup Range(q)
<1> DEFINE m == Len(p)
           n == Len(q)
           r == p \o q
<1>1. /\ m \in Nat /\ n \in Nat /\ DOMAIN p = 1 .. m /\ DOMAIN q = 1 .. n
      /\ r \in Seq(Nat) /\ DOMAIN r = 1 .. m + n
      /\ \A i \in 1 .. m : r[i] = p[i]
      /\ \A i \in m + 1 .. m + n : r[i] = q[i - m]
  OBVIOUS
<1>2. \A i \in 1 .. m, k \in 1 .. n : <<p[i], q[k]>> \in R
  <2>1. \A i \in 1 .. m : p[i] \in Range(p)
    BY <1>1 DEF Range
  <2>2. \A i \in 1 .. n : q[i] \in Range(q)
    BY <1>1 DEF Range
  <2> HIDE DEF m, n
  <2> QED  BY <2>1, <2>2
<1>3. /\ \A i, k \in 1 .. m : i < k => <<p[i], p[k]>> \in R
      /\ \A i, k \in 1 .. n : i < k => <<q[i], q[k]>> \in R
  BY <1>1 DEF Chained
<1> HIDE DEF m, n, r
<1>4. Chained(r, R)
  <2> SUFFICES ASSUME NEW i \in 1 .. m + n, NEW k \in 1 .. m + n, i < k
               PROVE  <<r[i], r[k]>> \in R
    BY <1>1 DEF Chained
  <2>1. CASE i \in 1 .. m /\ k \in 1 .. m
    BY <2>1, <1>1, <1>3
  <2>2. CASE i \in 1 .. m /\ k \notin 1 .. m
    <3>1. r[i] = p[i] /\ r[k] = q[k - m] /\ k - m \in 1 .. n
      BY <2>2, <1>1
    <3> QED  BY <3>1, <2>2, <1>2
  <2>3. CASE i \notin 1 .. m
    <3>1. r[i] = q[i - m] /\ r[k] = q[k - m] /\ i - m \in 1 .. n /\ k - m \in 1 .. n /\ i - m < k - m
      BY <2>3, <1>1
    <3> QED  BY <3>1, <1>3
  <2> QED  BY <2>1, <2>2, <2>3
<1>5. Range(r) = Range(p) \cup Range(q)
  <2>1. \A i \in 1 .. m : i \in 1 .. m + n /\ r[i] = p[i]
    BY <1>1
  <2>2. \A i \in 1 .. n : i + m \in 1 .. m + n /\ r[i + m] = q[i]
    BY <1>1
  <2>3. \A i \in 1 .. m + n : i \in 1 .. m \/ (i - m \in 1 .. n /\ r[i] = q[i - m])
    BY <1>1
  <2>4. Range(r) \subseteq Range(p) \cup Range(q)
    <3> SUFFICES ASSUME NEW i \in 1 .. m + n PROVE r[i] \in Range(p) \cup Range(q)
      BY <1>1 DEF Range
    <3> QED  BY <2>1, <2>3, <1>1 DEF Range
  <2>5. Range(p) \subseteq Range(r)
    BY <2>1, <1>1 DEF Range
  <2>6. Range(q) \subseteq Range(r)
    <3> SUFFICES ASSUME NEW i \in 1 .. n PROVE q[i] \in Range(r)
      BY <1>1 DEF Range
    <3>1. r[i + m] \in Range(r)
      BY <2>2, <1>1 DEF Range
    <3> QED  BY <3>1, <2>2
  <2> QED  BY <2>4, <2>5, <2>6
<1> QED  BY <1>1, <1>4, <1>5 DEF r

(* What a read of a stream scans and returns. *)
LEMMA ReadReturns ==
  ASSUME ReadInv, NEW s \in Streams, cursor[s] # Unseeded
  PROVE  /\ last_scanned(s) \in cursor[s] .. Len(log[s]) /\ last_scanned(s) =< cursor[s] + Batch
         /\ Decoded(s) \subseteq 1 .. Len(log[s])
         /\ Read(s) \in Seq(Nat) /\ Rising(Read(s)) /\ Range(Read(s)) = Decoded(s)
<1>1. Len(log[s]) \in Nat /\ cursor[s] \in 0 .. Len(log[s]) /\ Batch \in Nat
  BY EngineAssumption DEF ReadInv
<1>2. last_scanned(s) \in cursor[s] .. Len(log[s]) /\ last_scanned(s) =< cursor[s] + Batch
  <2>1. cursor[s] + Batch \in Int /\ Len(log[s]) \in Int
    BY <1>1
  <2>2. last_scanned(s) = IF Len(log[s]) =< cursor[s] + Batch THEN Len(log[s]) ELSE cursor[s] + Batch
    BY <2>1, MinOfTwo DEF last_scanned
  <2> QED  BY <1>1, <2>2
<1>3. Decoded(s) \subseteq 1 .. Len(log[s])
  BY <1>1, <1>2 DEF Decoded
<1>4. Read(s) \in Seq(Decoded(s)) /\ Rising(Read(s)) /\ Range(Read(s)) = Decoded(s)
  BY <1>1, <1>3, OrderedEnumerates DEF Read
<1>5. Read(s) \in Seq(Nat)
  BY <1>3, <1>4, <1>1
<1> QED  BY <1>2, <1>3, <1>4, <1>5

(* A rising sequence of positions is chained whatever the types. *)
LEMMA RisingChained ==
  ASSUME NEW s \in Streams, NEW q \in Seq(Nat), Rising(q)
  PROVE  Chained(q, Handling(s))
<1>1. \A i \in DOMAIN q : q[i] \in Nat
  OBVIOUS
<1> QED  BY <1>1 DEF Chained, Handling, InOrder, Rising

(* What the tick, or a consumer of the rates, makes of a read. *)
LEMMA HandledReturns ==
  ASSUME ReadInv, NEW s \in Streams, cursor[s] # Unseeded
  PROVE  /\ Handled(s) \in Seq(Nat) /\ Chained(Handled(s), Handling(s))
         /\ Range(Handled(s)) = Decoded(s)
<1>1. /\ last_scanned(s) =< cursor[s] + Batch /\ Decoded(s) \subseteq 1 .. Len(log[s])
      /\ last_scanned(s) \in cursor[s] .. Len(log[s])
      /\ Read(s) \in Seq(Nat) /\ Rising(Read(s)) /\ Range(Read(s)) = Decoded(s)
  BY ReadReturns
<1>2. CASE s \notin ModuleStreams
  BY <1>1, <1>2, RisingChained DEF Handled
<1>3. CASE s \in ModuleStreams
  <2> DEFINE first == {i \in Decoded(s) : log[s][i] = <<"emotion">>}
             rest == Decoded(s) \ first
  <2>1. Len(log[s]) \in Nat /\ cursor[s] \in Nat /\ Batch \in Nat
    <3>1. log[s] \in Seq(Kept(s)) /\ cursor[s] \in 0 .. Len(log[s])  BY DEF ReadInv
    <3> QED  BY <3>1, EngineAssumption
  <2>2. first \in SUBSET (1 .. Len(log[s])) /\ rest \in SUBSET (1 .. Len(log[s]))
    BY <1>1
  <2>3. /\ Ordered(first) \in Seq(first) /\ Rising(Ordered(first)) /\ Range(Ordered(first)) = first
        /\ Ordered(rest) \in Seq(rest) /\ Rising(Ordered(rest)) /\ Range(Ordered(rest)) = rest
    <3> HIDE DEF first, rest
    <3> QED  BY <2>1, <2>2, OrderedEnumerates
  <2>4. \A x \in first, y \in rest : <<x, y>> \in Handling(s)
    <3> SUFFICES ASSUME NEW x \in first, NEW y \in rest
                 PROVE  <<x, y>> \in Handling(s)
      OBVIOUS
    <3>1. log[s][x] = <<"emotion">> /\ log[s][y] # <<"emotion">>
      OBVIOUS
    <3>2. EarlierType(s, x, y)  BY <1>3, <3>1 DEF EarlierType
    <3>3. x \in Nat /\ y \in Nat /\ x =< cursor[s] + Batch /\ y >= cursor[s] + 1
      BY <1>1, <2>1 DEF Decoded
    <3>4. InOrder(s, x, y)  BY <2>1, <3>2, <3>3 DEF InOrder
    <3> QED  BY <3>3, <3>4 DEF Handling
  <2>5. Ordered(first) \in Seq(Nat) /\ Ordered(rest) \in Seq(Nat)
    <3>1. first \subseteq Nat /\ rest \subseteq Nat  BY <2>2
    <3>2. ASSUME NEW S, S \subseteq Nat, NEW q \in Seq(S)
          PROVE  q \in Seq(Nat)
      <4>1. Len(q) \in Nat /\ q = [i \in 1 .. Len(q) |-> q[i]] /\ \A i \in 1 .. Len(q) : q[i] \in Nat
        BY <3>2
      <4> QED  BY <4>1
    <3> HIDE DEF first, rest
    <3> QED  BY <2>3, <3>1, <3>2
  <2>6. Handled(s) = Ordered(first) \o Ordered(rest)
    BY <1>3 DEF Handled, ByType
  <2>7. first \cup rest = Decoded(s)  OBVIOUS
  <2> HIDE DEF first, rest
  <2>8. Chained(Ordered(first), Handling(s)) /\ Chained(Ordered(rest), Handling(s))
    BY <2>3, <2>5, RisingChained
  <2>9. \A x \in Range(Ordered(first)), y \in Range(Ordered(rest)) : <<x, y>> \in Handling(s)
    BY <2>3, <2>4
  <2>10. /\ Handled(s) \in Seq(Nat) /\ Chained(Handled(s), Handling(s))
         /\ Range(Handled(s)) = Range(Ordered(first)) \cup Range(Ordered(rest))
    BY <2>5, <2>6, <2>8, <2>9, Joined
  <2> QED  BY <2>3, <2>7, <2>10
<1> QED  BY <1>2, <1>3

(* A read of some streams, all of them seeded. *)
LEMMA AdvanceReads ==
  ASSUME ReadInv, NEW from \in SUBSET Streams, \A s \in from : cursor[s] # Unseeded,
         Advance(from)
  PROVE  ReadInv'
<1>1. /\ cursor' = [s \in Streams |-> IF s \in from THEN last_scanned(s) ELSE cursor[s]]
      /\ taken' = [s \in Streams |-> IF s \in from THEN taken[s] \o Handled(s) ELSE taken[s]]
      /\ UNCHANGED <<log, boot, since, lostTail>>
  BY DEF Advance
<1>2. ASSUME NEW s \in from
      PROVE  /\ cursor'[s] \in cursor[s] .. Len(log[s])
             /\ taken'[s] \in Seq(Nat) /\ Chained(taken'[s], Handling(s))
             /\ Range(taken'[s]) = {i \in since[s] + 1 .. cursor'[s] : Decodable(s, i)}
  <2>1. /\ cursor[s] \in 0 .. Len(log[s]) /\ since[s] \in 0 .. cursor[s] /\ Len(log[s]) \in Nat
        /\ Range(taken[s]) = {i \in since[s] + 1 .. cursor[s] : Decodable(s, i)}
        /\ taken[s] \in Seq(Nat) /\ Chained(taken[s], Handling(s))
    BY DEF ReadInv
  <2>2. /\ last_scanned(s) \in cursor[s] .. Len(log[s])
        /\ Handled(s) \in Seq(Nat) /\ Chained(Handled(s), Handling(s))
        /\ Range(Handled(s)) = Decoded(s)
    BY ReadReturns, HandledReturns
  <2>3. cursor'[s] = last_scanned(s) /\ taken'[s] = taken[s] \o Handled(s)
    BY <1>1
  <2>4. \A x \in Range(taken[s]), y \in Range(Handled(s)) : <<x, y>> \in Handling(s)
    <3>1. \A x \in Range(taken[s]) : x \in Nat /\ x =< cursor[s]  BY <2>1
    <3>2. \A y \in Range(Handled(s)) : y \in Nat /\ y > cursor[s]  BY <2>1, <2>2 DEF Decoded
    <3> QED  BY <2>1, <3>1, <3>2 DEF Handling, InOrder
  <2>5. /\ taken'[s] \in Seq(Nat) /\ Chained(taken'[s], Handling(s))
        /\ Range(taken'[s]) = Range(taken[s]) \cup Decoded(s)
    <3> HIDE DEF Chained, Range, Handled, Decoded, Handling
    <3> QED  BY <2>1, <2>2, <2>3, <2>4, Joined
  <2>6. {i \in since[s] + 1 .. cursor[s] : Decodable(s, i)} \cup Decoded(s)
          = {i \in since[s] + 1 .. last_scanned(s) : Decodable(s, i)}
    BY <2>1, <2>2 DEF Decoded
  <2> QED  BY <2>1, <2>2, <2>3, <2>5, <2>6
<1>3. ASSUME NEW s \in Streams, s \notin from
      PROVE  cursor'[s] = cursor[s] /\ taken'[s] = taken[s]
  BY <1>1, <1>3
<1>4. \A s \in Streams : cursor'[s] \in Int /\ taken'[s] \in Seq(Nat)
  <2>1. \A s \in Streams : cursor[s] \in Int /\ taken[s] \in Seq(Nat)
    BY DEF ReadInv
  <2>2. \A s \in from : cursor[s] \in 0 .. Len(log[s])
    BY DEF ReadInv
  <2> QED  BY <1>2, <1>3, <2>1, <2>2
<1>5. cursor' \in [Streams -> Int] /\ taken' \in [Streams -> Seq(Nat)]
  BY <1>1, <1>4
<1>6. /\ \A s \in Streams, i \in Nat : Decodable(s, i)' = Decodable(s, i)
      /\ \A s \in Streams : Handling(s)' = Handling(s)
  BY <1>1 DEF Decodable, Handling, InOrder, EarlierType
<1>7. ASSUME NEW s \in Streams
      PROVE  /\ log'[s] \in Seq(Kept(s)) /\ boot'[s] \in 0 .. Len(log'[s])
             /\ cursor'[s] = Unseeded => since'[s] = Unseeded /\ taken'[s] = <<>>
             /\ cursor'[s] # Unseeded =>
                  /\ cursor'[s] \in 0 .. Len(log'[s]) /\ since'[s] \in 0 .. cursor'[s]
                  /\ s \notin lostTail' => since'[s] >= boot'[s]
                  /\ Range(taken'[s]) = {i \in since'[s] + 1 .. cursor'[s] : Decodable(s, i)}
                  /\ Chained(taken'[s], Handling(s)')
  <2>1. CASE s \in from
    <3>1. cursor[s] \in 0 .. Len(log[s]) /\ since[s] \in 0 .. cursor[s] /\ Len(log[s]) \in Nat
      BY <2>1 DEF ReadInv
    <3>2. cursor'[s] \in 0 .. Len(log[s]) /\ since[s] \in 0 .. cursor'[s] /\ cursor'[s] # Unseeded
      BY <3>1, <1>2, <2>1 DEF Unseeded
    <3> QED  BY <1>1, <1>2, <1>6, <2>1, <3>2 DEF ReadInv
  <2>2. CASE s \notin from
    BY <1>1, <1>3, <1>6, <2>2 DEF ReadInv
  <2> QED  BY <2>1, <2>2
<1> QED  BY <1>1, <1>5, <1>6, <1>7 DEF ReadInv, Decodable, Kept

LEMMA ReadKept == ReadInv /\ UNCHANGED readVars => ReadInv'
<1> SUFFICES ASSUME ReadInv, UNCHANGED readVars PROVE ReadInv'
  OBVIOUS
<1>1. \A s \in Streams : Handling(s)' = Handling(s)
  BY DEF readVars, Handling, InOrder, EarlierType
<1>2. \A s \in Streams : Chained(taken[s], Handling(s))' <=> Chained(taken[s], Handling(s))
  BY <1>1 DEF readVars, Chained
<1> QED  BY <1>1, <1>2 DEF ReadInv, readVars, Decodable, Kept

(* An entry at the end of a stream moves no reader. *)
LEMMA PostKeeps ==
  ASSUME ReadInv, NEW s \in Streams, NEW entry \in Kept(s) \cap Messages, Post(s, entry),
         UNCHANGED <<cursor, boot, since, taken, lostTail>>
  PROVE  ReadInv'
<1>1. /\ log[s] \in Seq(Messages) /\ log[s] \in Seq(Kept(s))
      /\ log' = [log EXCEPT ![s] = Append(@, entry)]
  BY DEF ReadInv, Post
<1>2. log' \in [Streams -> Seq(Messages)]
  BY <1>1 DEF ReadInv
<1>3. ASSUME NEW t \in Streams
      PROVE  /\ log'[t] \in Seq(Kept(t)) /\ Len(log[t]) \in Nat
             /\ Len(log'[t]) \in {Len(log[t]), Len(log[t]) + 1}
             /\ \A i \in 1 .. Len(log[t]) : log'[t][i] = log[t][i]
  <2>1. log[t] \in Seq(Kept(t))
    BY DEF ReadInv
  <2>2. CASE t = s
    <3>1. log'[t] = Append(log[t], entry)
      BY <1>1, <2>2 DEF ReadInv
    <3> QED  BY <3>1, <2>1, <2>2
  <2>3. CASE t # s
    BY <1>1, <2>1, <2>3 DEF ReadInv
  <2> QED  BY <2>2, <2>3
<1>4. ASSUME NEW t \in Streams, cursor[t] # Unseeded
      PROVE  {i \in since[t] + 1 .. cursor[t] : Decodable(t, i)}'
               = {i \in since[t] + 1 .. cursor[t] : Decodable(t, i)}
  <2>1. cursor[t] \in 0 .. Len(log[t]) /\ since[t] \in 0 .. cursor[t]
    BY <1>4 DEF ReadInv
  <2>2. \A i \in since[t] + 1 .. cursor[t] : log'[t][i] = log[t][i]
    BY <2>1, <1>3
  <2> QED  BY <2>2 DEF Decodable
<1>6. ASSUME NEW t \in Streams, cursor[t] # Unseeded
      PROVE  Chained(taken[t], Handling(t))'
  <2>1. /\ cursor[t] \in 0 .. Len(log[t]) /\ since[t] \in 0 .. cursor[t]
        /\ Chained(taken[t], Handling(t)) /\ taken[t] \in Seq(Nat)
        /\ Range(taken[t]) = {i \in since[t] + 1 .. cursor[t] : Decodable(t, i)}
    BY <1>6 DEF ReadInv
  <2>2. \A i \in DOMAIN taken[t] : taken[t][i] \in Nat /\ log'[t][taken[t][i]] = log[t][taken[t][i]]
    <3>1. \A i \in DOMAIN taken[t] : taken[t][i] \in 1 .. Len(log[t])
      <4>1. \A i \in DOMAIN taken[t] : taken[t][i] \in since[t] + 1 .. cursor[t]
        BY <2>1 DEF Range
      <4> QED  BY <2>1, <4>1, <1>3
    <3> QED  BY <3>1, <1>3
  <2>3. \A i, k \in DOMAIN taken[t] :
          InOrder(t, taken[t][i], taken[t][k]) => InOrder(t, taken[t][i], taken[t][k])'
    BY <2>2 DEF InOrder, EarlierType
  <2>4. \A i, k \in DOMAIN taken[t] : i < k => InOrder(t, taken[t][i], taken[t][k])
    BY <2>1 DEF Chained, Handling
  <2>5. \A i, k \in DOMAIN taken[t] : i < k => InOrder(t, taken[t][i], taken[t][k])'
    BY <2>3, <2>4
  <2> QED  BY <2>2, <2>5 DEF Chained, Handling, InOrder, EarlierType
<1>5. ASSUME NEW t \in Streams
      PROVE  /\ boot'[t] \in 0 .. Len(log'[t])
             /\ cursor[t] # Unseeded => cursor'[t] \in 0 .. Len(log'[t])
  BY <1>3 DEF ReadInv
<1> HIDE DEF Chained, Handling
<1> QED  BY <1>2, <1>3, <1>4, <1>5, <1>6 DEF ReadInv, Kept

(* The first use of a stream. *)
LEMMA SeedBegins ==
  ASSUME ReadInv, NEW s \in Streams, Seed(s)
  PROVE  ReadInv'
<1>1. /\ cursor[s] = Unseeded /\ since[s] = Unseeded /\ taken[s] = <<>> /\ Len(log[s]) \in Nat
      /\ boot[s] \in 0 .. Len(log[s])
      /\ UNCHANGED <<log, boot, taken>>
  BY DEF Seed, ReadInv
<1>2. PICK c \in 0 .. Len(log[s]) :
        /\ cursor' = [cursor EXCEPT ![s] = c] /\ since' = [since EXCEPT ![s] = c]
        /\ \/ c = Len(log[s]) /\ lostTail' = lostTail
           \/ lostTail' = lostTail \cup {s}
  <2> DEFINE Begun(c) ==
        /\ cursor' = [cursor EXCEPT ![s] = c] /\ since' = [since EXCEPT ![s] = c]
        /\ \/ c = Len(log[s]) /\ lostTail' = lostTail
           \/ lostTail' = lostTail \cup {s}
  <2>1. since \in [Streams -> Int]
    BY DEF ReadInv
  <2>2. Begun(Len(log[s])) \/ Begun(0)
    BY <1>1, <2>1 DEF Seed, tail_id
  <2>3. Len(log[s]) \in 0 .. Len(log[s]) /\ 0 \in 0 .. Len(log[s])
    BY <1>1
  <2>4. \E c \in 0 .. Len(log[s]) : Begun(c)
    <3> HIDE DEF Begun
    <3> QED  BY <2>2, <2>3
  <2> QED  BY <2>4
<1>3. cursor'[s] = c /\ since'[s] = c /\ taken'[s] = <<>>
  BY <1>1, <1>2 DEF ReadInv
<1>4. \A t \in Streams : t # s => cursor'[t] = cursor[t] /\ since'[t] = since[t]
  BY <1>2 DEF ReadInv
<1>5. /\ cursor' \in [Streams -> Int] /\ since' \in [Streams -> Int]
      /\ boot' \in [Streams -> Int]
      /\ taken' \in [Streams -> Seq(Nat)] /\ log' \in [Streams -> Seq(Messages)]
      /\ lostTail' \subseteq Streams
  BY <1>1, <1>2 DEF ReadInv
<1>6. /\ Range(taken'[s]) = {i \in since'[s] + 1 .. cursor'[s] : Decodable(s, i)}
      /\ Chained(taken'[s], Handling(s)')
  <2>1. since'[s] + 1 .. cursor'[s] = {}
    BY <1>3
  <2>2. Range(<<>>) = {} /\ Chained(<<>>, Handling(s)')
    BY DEF Range, Chained
  <2> QED  BY <1>3, <2>1, <2>2
<1>7. s \notin lostTail' => since'[s] >= boot'[s]
  BY <1>1, <1>2, <1>3
<1>8. ASSUME NEW t \in Streams
      PROVE  /\ log'[t] \in Seq(Kept(t)) /\ boot'[t] \in 0 .. Len(log'[t])
             /\ cursor'[t] = Unseeded => since'[t] = Unseeded /\ taken'[t] = <<>>
             /\ cursor'[t] # Unseeded =>
                  /\ cursor'[t] \in 0 .. Len(log'[t]) /\ since'[t] \in 0 .. cursor'[t]
                  /\ t \notin lostTail' => since'[t] >= boot'[t]
                  /\ Range(taken'[t]) = {i \in since'[t] + 1 .. cursor'[t] : Decodable(t, i)}
                  /\ Chained(taken'[t], Handling(t)')
  <2>1. CASE t = s
    <3>1. c # Unseeded
      BY <1>1 DEF Unseeded
    <3>2. cursor'[s] \in 0 .. Len(log'[s]) /\ since'[s] \in 0 .. cursor'[s]
      BY <1>1, <1>3
    <3>3. log'[s] \in Seq(Kept(s)) /\ boot'[s] \in 0 .. Len(log'[s])
      BY <1>1 DEF ReadInv
    <3> QED  BY <1>3, <1>6, <1>7, <2>1, <3>1, <3>2, <3>3
  <2>2. CASE t # s
    <3>1. Handling(t)' = Handling(t)
      BY <1>1 DEF Handling, InOrder, EarlierType
    <3> QED  BY <1>1, <1>2, <1>4, <2>2, <3>1 DEF ReadInv
  <2> QED  BY <2>1, <2>2
<1> QED  BY <1>1, <1>5, <1>8 DEF ReadInv, Kept, Decodable, Chained

LEMMA KeptMessages == \A s \in Streams : Incoming(s) \subseteq Messages /\ Kept(s) \subseteq Messages
BY DEF Kept, Incoming, Messages, Streams, ModuleStreams

LEMMA ReadStep ==
  ASSUME ReadInv, [CycleNext]_cycleVars
  PROVE  ReadInv'
<1>1. CASE Restart
  <2>1. \A s \in Streams : Len(log[s]) \in Nat /\ log[s] \in Seq(Kept(s))
    BY DEF ReadInv
  <2>2. /\ log' = log /\ lostTail' = {}
        /\ boot' = [s \in Streams |-> Len(log[s])]
        /\ cursor' = [s \in Streams |-> Unseeded] /\ since' = [s \in Streams |-> Unseeded]
        /\ taken' = [s \in Streams |-> <<>>]
    BY <1>1 DEF Restart
  <2>3. Unseeded \in Int /\ <<>> \in Seq(Nat)
    BY DEF Unseeded
  <2>4. \A s \in Streams :
          /\ log'[s] \in Seq(Kept(s)) /\ boot'[s] \in 0 .. Len(log'[s])
          /\ cursor'[s] = Unseeded /\ since'[s] = Unseeded /\ taken'[s] = <<>>
    BY <2>1, <2>2
  <2>5. /\ log' \in [Streams -> Seq(Messages)]
        /\ cursor' \in [Streams -> Int] /\ since' \in [Streams -> Int] /\ boot' \in [Streams -> Int]
        /\ taken' \in [Streams -> Seq(Nat)] /\ lostTail' \subseteq Streams
    <3>1. log \in [Streams -> Seq(Messages)]
      BY DEF ReadInv
    <3> HIDE DEF ReadInv
    <3> QED  BY <3>1, <2>1, <2>2, <2>3
  <2> QED  BY <2>4, <2>5 DEF ReadInv, Kept
<1>2. ASSUME NEW s \in Streams, Seed(s) PROVE ReadInv'
  BY <1>2, SeedBegins
<1>3. CASE consume_control_events \/ consume_interoception_regulation
  <2>1. CASE UNCHANGED readVars
    BY <2>1, ReadKept
  <2>2. CASE Advance(ReadAt(awaits)) /\ Seeded /\ awaits \in {"control", "regulate"}
    <3>1. ReadAt(awaits) \subseteq Streams
      BY <2>2 DEF ReadAt, Streams, ModuleStreams
    <3> QED  BY <2>2, <3>1, AdvanceReads DEF Seeded
  <2> QED  BY <1>3, <2>1, <2>2 DEF consume_control_events, consume_interoception_regulation
<1>4. CASE GatherEvents
  <2>1. PICK from \in SUBSET ModuleStreams : Advance(from)
    BY <1>4 DEF GatherEvents
  <2>2. from \subseteq Streams /\ \A s \in from : cursor[s] # Unseeded
    BY <1>4 DEF GatherEvents, Seeded, ReadAt, Streams
  <2> QED  BY <2>1, <2>2, AdvanceReads
<1>5. ASSUME NEW s \in Streams, Arrive(s) PROVE ReadInv'
  <2>1. PICK entry \in Incoming(s) : Post(s, entry)
    BY <1>5 DEF Arrive
  <2>2. entry \in Kept(s) \cap Messages
    BY KeptMessages DEF Kept
  <2> QED  BY <1>5, <2>1, <2>2, PostKeeps DEF Arrive
<1>6. CASE Organ
  <2>1. CASE Post("language.out", <<"speech">>)
    <3>1. "language.out" \in Streams /\ <<"speech">> \in Kept("language.out") \cap Messages
      BY DEF Streams, ModuleStreams, Kept, Messages
    <3> QED  BY <1>6, <2>1, <3>1, PostKeeps DEF Organ
  <2>2. CASE UNCHANGED log
    BY <1>6, <2>2, ReadKept DEF Organ, readVars
  <2> QED  BY <1>6, <2>1, <2>2 DEF Organ
<1>7. CASE \/ PassGate \/ SelectSnapshot \/ PublishWorkspace \/ PublishIntent \/ Pace
           \/ pause \/ resume \/ TimePasses \/ UNCHANGED cycleVars
  <2>1. UNCHANGED readVars
    BY <1>7
       DEF PassGate, SelectSnapshot, PublishWorkspace, PublishIntent, Pace, pause, resume,
           TimePasses, cycleVars
  <2> QED  BY <2>1, ReadKept
<1> QED  BY <1>1, <1>2, <1>3, <1>4, <1>5, <1>6, <1>7 DEF CycleNext, Loop
-----------------------------------------------------------------------------
(* The rates. *)

(* What a sequence of effects makes of a value is one of the values. *)
LEMMA AppliedStays ==
  ASSUME NEW R, NEW effects \in Seq([R -> R]), NEW r \in R
  PROVE  Applied(effects, r) \in R
<1> DEFINE Values(f, n) == f = [k \in 0 .. n |-> IF k = 0 THEN r ELSE effects[k][f[k - 1]]]
           Bad == {n \in Nat : n =< Len(effects) /\ ~ \E f : Values(f, n)}
<1>1. Len(effects) \in Nat /\ \A k \in 1 .. Len(effects) : effects[k] \in [R -> R]
  OBVIOUS
<1>2. Bad = {}
  <2> SUFFICES ASSUME Bad # {} PROVE FALSE
    OBVIOUS
  <2>1. PICK m \in Bad : \A k \in Bad : m =< k
    <3> HIDE DEF Values
    <3> QED  BY LeastNat
  <2>2. m # 0
    <3>1. Values([k \in 0 .. 0 |-> r], 0)
      OBVIOUS
    <3> QED  BY <3>1, <2>1
  <2>3. PICK f : Values(f, m - 1)
    <3> HIDE DEF Values
    <3>1. \A k \in Nat : k =< Len(effects) /\ k \notin Bad => \E f : Values(f, k)
      OBVIOUS
    <3>2. m \in Nat /\ m =< Len(effects) /\ \A k \in Bad : k \in Nat
      BY <2>1
    <3>3. m - 1 \in Nat /\ m - 1 =< Len(effects) /\ m - 1 \notin Bad
      <4> HIDE DEF Bad
      <4> QED  BY <2>1, <2>2, <3>2, <1>1
    <3> QED  BY <3>1, <3>3
  <2>4. Values([k \in 0 .. m |-> IF k = m THEN effects[m][f[m - 1]] ELSE f[k]], m)
    <3> DEFINE g == [k \in 0 .. m |-> IF k = m THEN effects[m][f[m - 1]] ELSE f[k]]
    <3>1. m \in Nat
      BY <2>1
    <3>2. \A k \in 0 .. m - 1 : g[k] = f[k] /\ f[k] = IF k = 0 THEN r ELSE effects[k][f[k - 1]]
      BY <2>3, <3>1, <2>2
    <3>3. \A k \in 0 .. m : g[k] = IF k = 0 THEN r ELSE effects[k][g[k - 1]]
      <4> SUFFICES ASSUME NEW k \in 0 .. m PROVE g[k] = IF k = 0 THEN r ELSE effects[k][g[k - 1]]
        OBVIOUS
      <4>1. CASE k = m
        <5>1. g[k] = effects[m][f[m - 1]] /\ m - 1 \in 0 .. m - 1
          BY <4>1, <3>1, <2>2
        <5> QED  BY <5>1, <4>1, <3>2, <2>2
      <4>2. CASE k # m
        <5>1. k \in 0 .. m - 1 /\ k # 0 => k - 1 \in 0 .. m - 1
          BY <4>2, <3>1
        <5>2. k \in 0 .. m - 1
          BY <4>2, <3>1
        <5> HIDE DEF g
        <5> QED  BY <5>1, <5>2, <3>2
      <4> QED  BY <4>1, <4>2
    <3>4. DOMAIN g = 0 .. m /\ g = [k \in 0 .. m |-> g[k]]
      OBVIOUS
    <3>5. Values(g, m)
      <4>1. g = [k \in 0 .. m |-> IF k = 0 THEN r ELSE effects[k][g[k - 1]]]
        <5> HIDE DEF g
        <5> QED  BY <3>3, <3>4
      <4> HIDE DEF g
      <4> QED  BY <4>1
    <3> QED  BY <3>5
  <2> QED  BY <2>1, <2>4
<1>3. \E f : Values(f, Len(effects))
  <2> HIDE DEF Values
  <2> QED  BY <1>1, <1>2
<1> DEFINE after == CHOOSE f : Values(f, Len(effects))
<1>4. Values(after, Len(effects))
  <2> HIDE DEF Values
  <2> QED  BY <1>3
<1>5. Applied(effects, r) = after[Len(effects)]
  BY DEF Applied
<1> HIDE DEF after
<1> DEFINE Out == {n \in Nat : n =< Len(effects) /\ after[n] \notin R}
<1>6. Out = {}
  <2> SUFFICES ASSUME Out # {} PROVE FALSE
    OBVIOUS
  <2>1. PICK m \in Out : \A k \in Out : m =< k
    BY LeastNat
  <2>2. \A k \in 0 .. Len(effects) : after[k] = IF k = 0 THEN r ELSE effects[k][after[k - 1]]
    BY <1>4
  <2>3. m \in 0 .. Len(effects) /\ after[m] \notin R
    BY <2>1, <1>1
  <2>4. m # 0
    BY <2>2, <2>3
  <2>5. m - 1 \in Nat /\ m - 1 =< Len(effects)
    BY <2>3, <2>4, <1>1
  <2>6. after[m - 1] \in R
    <3>1. m - 1 \notin Out
      <4> HIDE DEF Out
      <4> QED  BY <2>1, <2>3, <2>5
    <3> QED  BY <3>1, <2>5
  <2>7. effects[m] \in [R -> R]
    BY <1>1, <2>3, <2>4
  <2> QED  BY <2>2, <2>3, <2>4, <2>6, <2>7
<1> QED  BY <1>1, <1>5, <1>6

LEMMA RatesHaveAShare == rates \in Rates => Share \in Nat
<1> SUFFICES ASSUME rates \in Rates PROVE Share \in Nat
  OBVIOUS
<1>1. Unit \in Nat \ {0} /\ rates.processing \in Nat \ {0} /\ rates.experiential \in Nat \ {0}
  BY EngineAssumption DEF Rates
<1>2. rates.experiential * Unit \in Nat
  BY <1>1
<1>3. \A a \in Nat, b \in Nat \ {0} : a \div b \in Nat
  OBVIOUS
<1> QED  BY <1>1, <1>2, <1>3 DEF Share
-----------------------------------------------------------------------------
(* The pace. *)

(* What a command to the cycle, or the body's advice, makes of the rates. *)
LEMMA CommandsKeepRates ==
  ASSUME ReadInv, cursor["cycle.control"] # Unseeded
  PROVE  LET q == Read("cycle.control")
         IN  [k \in DOMAIN q |-> Command(log["cycle.control"][q[k]])] \in Seq([Rates -> Rates])
<1> DEFINE s == "cycle.control"
           q == Read(s)
<1>1. s \in Streams
  BY DEF Streams
<1>2. /\ Decoded(s) \subseteq 1 .. Len(log[s]) /\ q \in Seq(Nat) /\ Range(q) = Decoded(s)
      /\ log[s] \in Seq(Kept(s))
  BY <1>1, ReadReturns DEF ReadInv
<1>3. ASSUME NEW k \in DOMAIN q
      PROVE  \E r \in SetRates : log[s][q[k]] = <<"set_rates", r[1], r[2]>>
  <2>1. q[k] \in Decoded(s)
    BY <1>2, <1>3 DEF Range
  <2>2. log[s][q[k]] \in Kept(s) /\ log[s][q[k]] # Poison
    BY <1>2, <2>1 DEF Decoded, Decodable
  <2> QED  BY <2>2 DEF Kept, Incoming
<1>4. ASSUME NEW r \in SetRates, NEW old \in Rates
      PROVE  apply_rate_control_event(old, <<"set_rates", r[1], r[2]>>) \in Rates
  <2>1. r[1] \in Int /\ r[2] \in Int
    BY EngineAssumption
  <2> QED  BY <2>1 DEF apply_rate_control_event, Rates, Absent
<1>5. \A k \in DOMAIN q : Command(log[s][q[k]]) \in [Rates -> Rates]
  BY <1>3, <1>4 DEF Command
<1>6. Len(q) \in Nat /\ DOMAIN q = 1 .. Len(q)
  BY <1>2
<1> HIDE DEF q
<1>7. [k \in DOMAIN q |-> Command(log[s][q[k]])] \in Seq([Rates -> Rates])
  BY <1>5, <1>6
<1> QED  BY <1>7 DEF q

LEMMA AdviceKeepsRates ==
  ASSUME NEW q \in Seq(Nat)
  PROVE  [k \in DOMAIN q |-> Advice] \in Seq([Rates -> Rates])
<1>1. ASSUME NEW r \in Rates PROVE reduce_rate(r) \in Rates
  <2> DEFINE p == (r.processing * 4) \div 5
  <2>1. r.processing \in Nat /\ r.experiential \in Nat \ {0}
    BY DEF Rates
  <2>2. p \in Int
    BY <2>1
  <2> HIDE DEF p
  <2>3. Min({MAX_PROCESSING_RATE, p}) \in Int
    BY <2>2, MinOfTwo DEF MAX_PROCESSING_RATE
  <2> DEFINE b == Min({MAX_PROCESSING_RATE, p})
  <2> HIDE DEF b
  <2>4. Max({MIN_PROCESSING_RATE, b}) \in Nat \ {0}
    <3>1. b \in Int
      BY <2>3 DEF b
    <3>2. Max({4, b}) = IF 4 >= b THEN 4 ELSE b
      BY <3>1, MaxOfTwo
    <3> QED  BY <3>1, <3>2 DEF MIN_PROCESSING_RATE
  <2>5. reduce_rate(r) = [r EXCEPT !.processing = Max({MIN_PROCESSING_RATE, b})]
    BY DEF reduce_rate, p, b
  <2> QED  BY <2>4, <2>5, <2>1 DEF Rates
<1>2. Advice \in [Rates -> Rates]
  BY <1>1 DEF Advice
<1>3. Len(q) \in Nat /\ DOMAIN q = 1 .. Len(q)
  OBVIOUS
<1> QED  BY <1>2, <1>3

(* A change of the rates forgives what was broadcast ahead. *)
LEMMA NewRatesKeepPace ==
  ASSUME PaceInv, NEW new \in Rates, NewRates(new), ~InFlight, ~InFlight', faults' \in Nat,
         faults' >= faults, faults \in Nat
  PROVE  PaceInv'
<1>0. Unit \in Nat \ {0}  BY EngineAssumption
<1>1. /\ acc' = acc /\ rates' \in Rates /\ missed' = missed
      /\ ~batch'.promoted /\ missed' =< faults' * Unit
  <2>1. faults * Unit =< faults' * Unit /\ faults * Unit \in Nat /\ faults' * Unit \in Nat
    BY <1>0, ScaledUp
  <2> QED  BY <2>1 DEF NewRates, PaceInv, InFlight
<1>2. Behind = credit - missed /\ Behind' = credit' - missed'
  <2>1. Behind = credit - missed - 0 /\ Behind' = credit' - missed' - 0
    BY DEF Behind
  <2> QED  BY <1>1, <2>1 DEF NewRates, PaceInv
<1>3. CASE new = rates
  <2>1. credit' = credit /\ rates' = rates /\ Share' = Share  BY <1>3 DEF NewRates, Share
  <2> QED  BY <1>1, <1>2, <2>1 DEF PaceInv
<1>4. CASE new # rates
  <2>1. credit' = IF credit >= missed THEN credit ELSE missed
    BY <1>4, MaxOfTwo DEF NewRates, PaceInv
  <2>2. Behind' = (IF Behind >= 0 THEN Behind ELSE 0) /\ Behind \in Int
    BY <1>1, <1>2, <2>1 DEF PaceInv
  <2>3. credit' \in Int /\ missed' \in Nat /\ acc' \in 0 .. Unit /\ acc \in 0 .. Unit
    BY <1>1, <2>1 DEF PaceInv
  <2>4. Behind' =< acc' /\ Behind' < Unit /\ Behind' >= 0 /\ acc' - Behind' =< Unit
    <3>1. Behind =< acc /\ Behind < Unit  BY DEF PaceInv
    <3> HIDE DEF Behind
    <3> QED  BY <1>0, <1>1, <2>2, <2>3, <3>1
  <2> QED  BY <1>1, <2>3, <2>4 DEF PaceInv
<1> QED  BY <1>3, <1>4

(* One tick: its share is added, and the accumulator pays for a broadcast *)
(* when one is due.                                                       *)
LEMMA TickKeepsPace ==
  ASSUME PaceInv, NEW promoted \in BOOLEAN, advance_experiential(promoted), rates' = rates,
         ~InFlight, batch'.promoted = promoted, awaits' = "select",
         faults' \in Nat, faults' >= faults, faults \in Nat
  PROVE  PaceInv'
<1>1. /\ Share \in Nat /\ Unit \in Nat \ {0} /\ acc \in 0 .. Unit /\ credit \in Int
      /\ missed \in Nat /\ missed' = missed
  BY RatesHaveAShare, EngineAssumption DEF PaceInv, advance_experiential
<1>2. Share' = Share
  BY DEF Share
<1>3. Carry(acc + Share) = IF acc + Share - Unit =< Unit THEN acc + Share - Unit ELSE Unit
  <2> DEFINE a == acc + Share - Unit
  <2>1. a \in Int /\ Unit \in Int
    BY <1>1
  <2>2. Carry(acc + Share) = Min({a, Unit})
    BY <1>1 DEF Carry
  <2> HIDE DEF a
  <2>3. Carry(acc + Share) = IF a =< Unit THEN a ELSE Unit
    BY <2>1, <2>2, MinOfTwo
  <2> QED  BY <2>3 DEF a
<1>4. Min({Share, Unit}) = IF Share =< Unit THEN Share ELSE Unit
  BY <1>1, MinOfTwo
<1>5. /\ promoted = (acc + Share >= Unit)
      /\ acc' = IF promoted THEN Carry(acc + Share) ELSE acc + Share
      /\ credit' = credit + Min({Share, Unit})
  BY DEF advance_experiential
<1>6. /\ Behind = credit - missed
      /\ Behind' = credit' - missed - (IF promoted THEN Unit ELSE 0)
  <2>1. Behind = credit - missed - 0
    BY DEF Behind
  <2>2. InFlight' = promoted
    BY DEF InFlight
  <2>3. Behind' = credit' - missed - (IF promoted THEN Unit ELSE 0)
    BY <1>1, <2>2 DEF Behind
  <2> QED  BY <1>1, <2>1, <2>3
<1>7. /\ Behind =< acc /\ Behind < Unit
      /\ Share =< Unit => acc - Behind =< Unit
      /\ Share > Unit => Behind >= 0
  BY DEF PaceInv
<1>8. /\ acc' \in 0 .. Unit /\ credit' \in Int
      /\ Behind' =< acc' /\ Behind' < Unit
      /\ Share =< Unit => acc' - Behind' =< Unit
      /\ Share > Unit => Behind' >= 0
  <2>0. Behind \in Int  BY <1>1, <1>6
  <2>1. CASE promoted
    <3>1. acc + Share >= Unit /\ acc' = Carry(acc + Share)  BY <1>5, <2>1
    <3>2. credit' = credit + Min({Share, Unit})  BY <1>5
    <3>3. credit' \in Int /\ Behind' = Behind + Min({Share, Unit}) - Unit
      BY <1>1, <1>4, <1>6, <2>1, <3>2
    <3> HIDE DEF Behind
    <3> QED  BY <2>0, <3>1, <3>3, <1>1, <1>3, <1>4, <1>7
  <2>2. CASE ~promoted
    <3>1. ~ (acc + Share >= Unit) /\ acc' = acc + Share  BY <1>5, <2>2
    <3>2. credit' = credit + Min({Share, Unit})  BY <1>5
    <3>3. credit' \in Int /\ Behind' = Behind + Min({Share, Unit})
      BY <1>1, <1>4, <1>6, <2>2, <3>2
    <3> HIDE DEF Behind
    <3> QED  BY <2>0, <3>1, <3>3, <1>1, <1>4, <1>7
  <2> QED  BY <2>1, <2>2
<1>9. missed' =< faults' * Unit
  <2>1. faults * Unit =< faults' * Unit /\ faults * Unit \in Nat /\ faults' * Unit \in Nat
    BY <1>1, ScaledUp
  <2>2. missed =< faults * Unit  BY DEF PaceInv
  <2> DEFINE before == faults * Unit
             after == faults' * Unit
  <2>3. /\ before =< after /\ before \in Nat /\ after \in Nat
        /\ missed =< before /\ missed \in Nat /\ missed' = missed
    BY <1>1, <2>1, <2>2
  <2> HIDE DEF before, after
  <2>4. missed' =< after  BY <2>3
  <2> QED  BY <2>4 DEF after
<1> QED  BY <1>1, <1>2, <1>8, <1>9 DEF PaceInv

(* The end of a promoted tick: its broadcast is made, or missed. *)
LEMMA BroadcastKeepsPace ==
  ASSUME PaceInv, InFlight, ~InFlight', faults \in Nat,
         \/ Broadcast /\ Works
         \/ Missed /\ Fails
  PROVE  PaceInv'
<1>1. /\ Unit \in Nat \ {0} /\ credit \in Int /\ missed \in Nat /\ missed =< faults * Unit
      /\ rates' = rates /\ acc' = acc /\ Share' = Share
  BY EngineAssumption DEF PaceInv, Broadcast, Missed, Share
<1>2. Behind = credit - missed - Unit  BY DEF Behind
<1>3. Behind' = credit' - missed' - 0  BY DEF Behind
<1>4. CASE Broadcast /\ Works
  <2>1. credit' = credit - Unit /\ missed' = missed /\ faults' = faults
    BY <1>4 DEF Broadcast, Works
  <2>2. Behind' = Behind /\ credit' \in Int  BY <1>1, <1>2, <1>3, <2>1
  <2>3. missed' =< faults' * Unit  BY <1>1, <2>1
  <2> QED  BY <1>1, <2>1, <2>2, <2>3 DEF PaceInv, InFlight
<1>5. CASE Missed /\ Fails
  <2>1. credit' = credit /\ missed' = missed + Unit /\ faults' = faults + 1
    BY <1>5 DEF Missed, Fails
  <2>2. Behind' = Behind /\ missed' \in Nat  BY <1>1, <1>2, <1>3, <2>1
  <2>3. missed' =< faults' * Unit
    <3>1. (faults + 1) * Unit = faults * Unit + Unit /\ faults * Unit \in Nat
      BY <1>1, ScaledUp
    <3> QED  BY <1>1, <2>1, <3>1
  <2> QED  BY <1>1, <2>1, <2>2, <2>3 DEF PaceInv, InFlight
<1> QED  BY <1>4, <1>5

LEMMA PaceStep ==
  ASSUME RoundInv, ReadInv, PaceInv, [CycleNext]_cycleVars
  PROVE  PaceInv'
<1>0. faults \in Nat /\ (Fails \/ Works => faults' \in Nat /\ faults' >= faults)
  BY EngineAssumption DEF RoundInv, Fails, Works
<1>1. ASSUME UNCHANGED <<paceVars, batch>>, faults' \in Nat, faults' >= faults,
             batch.promoted => awaits' = "select", InFlight' <=> InFlight
      PROVE  PaceInv'
  <2>1. UNCHANGED <<rates, acc, credit, missed, batch>> /\ Share' = Share
    BY <1>1 DEF paceVars, Share
  <2>2. Behind' = Behind  BY <1>1, <2>1 DEF Behind
  <2>3. missed' =< faults' * Unit
    <3>1. faults * Unit =< faults' * Unit /\ faults * Unit \in Nat /\ faults' * Unit \in Nat
      BY <1>0, <1>1, EngineAssumption, ScaledUp
    <3> QED  BY <2>1, <3>1 DEF PaceInv
  <2> QED  BY <1>1, <2>1, <2>2, <2>3 DEF PaceInv
<1>2. CASE Restart
  <2>1. /\ rates' = [processing |-> Processing, experiential |-> Experiential]
        /\ acc' = 0 /\ credit' = 0 /\ missed' = 0 /\ awaits' = "gate" /\ ~batch'.promoted
        /\ faults' = faults
    BY <1>2 DEF Restart, Nothing
  <2>2. Behind' = 0  BY <2>1 DEF Behind, InFlight
  <2>3. missed' =< faults' * Unit
    <3>1. faults * Unit \in Nat  BY <1>0, EngineAssumption, ScaledUp
    <3> QED  BY <2>1, <3>1
  <2> QED  BY <2>1, <2>2, <2>3, EngineAssumption DEF PaceInv, Rates
<1>3. CASE consume_control_events
  <2> DEFINE q == Read("cycle.control")
             new == Applied([k \in DOMAIN q |-> Command(log["cycle.control"][q[k]])], rates)
  <2>1. /\ awaits = "control" /\ awaits' = "regulate" /\ UNCHANGED batch
        /\ Fails \/ Works
    BY <1>3 DEF consume_control_events
  <2>2. ~InFlight /\ ~InFlight' /\ ~batch.promoted
    BY <2>1 DEF PaceInv, InFlight
  <2>3. CASE NewRates(new)
    <3>1. cursor["cycle.control"] # Unseeded
      BY <1>3 DEF consume_control_events, Seeded, ReadAt
    <3>2. new \in Rates
      BY <3>1, CommandsKeepRates, AppliedStays DEF PaceInv
    <3> HIDE DEF new
    <3> QED  BY <1>0, <2>1, <2>2, <2>3, <3>2, NewRatesKeepPace
  <2>4. CASE UNCHANGED paceVars
    BY <1>0, <1>1, <2>1, <2>2, <2>4
  <2> QED  BY <1>3, <2>3, <2>4 DEF consume_control_events
<1>4. CASE consume_interoception_regulation
  <2> DEFINE q == Read("interoception.out")
             new == Applied([k \in DOMAIN q |-> Advice], rates)
  <2>1. /\ awaits = "regulate" /\ awaits' = "tick" /\ UNCHANGED batch
        /\ Fails \/ Works
    BY <1>4 DEF consume_interoception_regulation
  <2>2. ~InFlight /\ ~InFlight' /\ ~batch.promoted
    BY <2>1 DEF PaceInv, InFlight
  <2>3. CASE NewRates(new)
    <3>1. cursor["interoception.out"] # Unseeded
      BY <1>4 DEF consume_interoception_regulation, Seeded, ReadAt
    <3>2. q \in Seq(Nat)
      BY <3>1, ReadReturns DEF Streams
    <3>3. new \in Rates
      BY <3>2, AdviceKeepsRates, AppliedStays DEF PaceInv
    <3> HIDE DEF new
    <3> QED  BY <1>0, <2>1, <2>2, <2>3, <3>3, NewRatesKeepPace
  <2>4. CASE UNCHANGED paceVars
    BY <1>0, <1>1, <2>1, <2>2, <2>4
  <2> QED  BY <1>4, <2>3, <2>4 DEF consume_interoception_regulation
<1>5. CASE GatherEvents
  <2>1. PICK from \in SUBSET ModuleStreams, promoted \in BOOLEAN :
          /\ IF from = ModuleStreams THEN Works ELSE Fails
          /\ advance_experiential(promoted)
          /\ batch' = [Nothing EXCEPT !.heard = <<"utterance">> \in Kinds(from),
                                      !.spoke = <<"speech">> \in Kinds(from),
                                      !.promoted = promoted]
    BY <1>5 DEF GatherEvents
  <2>2. batch'.promoted = promoted  BY <2>1 DEF Nothing
  <2>3. awaits = "tick" /\ awaits' = "select" /\ rates' = rates  BY <1>5 DEF GatherEvents
  <2>4. ~InFlight  BY <2>3 DEF PaceInv, InFlight
  <2> QED  BY <1>0, <2>1, <2>2, <2>3, <2>4, TickKeepsPace
<1>6. CASE SelectSnapshot
  <2>0. ~Nothing.promoted /\ \A a, b, c \in BOOLEAN :
          ~[Nothing EXCEPT !.heard = a, !.spoke = b, !.inhibited = c].promoted
    BY DEF Nothing
  <2>1. CASE batch.promoted /\ Works /\ UNCHANGED paceVars /\ awaits' = "broadcast" /\ ~batch'.promoted
    <3>1. UNCHANGED <<rates, acc, credit, missed, faults>> /\ Share' = Share
      BY <2>1 DEF paceVars, Share, Works
    <3>2. Behind' = Behind  BY <2>1, <3>1 DEF Behind, InFlight
    <3> QED  BY <2>1, <3>1, <3>2 DEF PaceInv
  <2>2. CASE batch.promoted /\ Fails /\ Missed /\ batch' = Nothing /\ awaits' = "pace"
    <3>1. InFlight /\ ~InFlight'  BY <2>0, <2>2 DEF InFlight
    <3> QED  BY <1>0, <2>2, <3>1, BroadcastKeepsPace
  <2>3. CASE ~batch.promoted /\ Works /\ UNCHANGED paceVars /\ batch' = Nothing /\ awaits' = "pace"
    <3>1. UNCHANGED <<rates, acc, credit, missed, faults>> /\ Share' = Share
      BY <2>3 DEF paceVars, Share, Works
    <3>2. awaits = "select"  BY <1>6 DEF SelectSnapshot
    <3>3. Behind' = Behind  BY <2>0, <2>3, <3>1, <3>2 DEF Behind, InFlight
    <3> QED  BY <2>0, <2>3, <3>1, <3>3 DEF PaceInv
  <2>4. batch.promoted /\ awaits' = "broadcast" => ~batch'.promoted
    BY <1>6, <2>0 DEF SelectSnapshot
  <2> QED  BY <1>6, <2>1, <2>2, <2>3, <2>4 DEF SelectSnapshot
<1>7. CASE PublishWorkspace
  <2>1. InFlight /\ ~InFlight'
    <3>1. awaits = "broadcast" /\ awaits' \in {"intents", "pace"} /\ batch' = Nothing
      BY <1>7 DEF PublishWorkspace
    <3> QED  BY <3>1 DEF InFlight, Nothing
  <2>2. (Broadcast /\ Works) \/ (Missed /\ Fails)  BY <1>7 DEF PublishWorkspace
  <2> QED  BY <1>0, <2>1, <2>2, BroadcastKeepsPace
<1>8. CASE \/ PassGate \/ \E s \in Streams : Seed(s)
           \/ PublishIntent \/ Pace
           \/ pause \/ resume \/ (\E s \in Streams : Arrive(s)) \/ Organ \/ TimePasses
           \/ UNCHANGED cycleVars
  <2>1. UNCHANGED <<paceVars, batch>>
    BY <1>8
       DEF PassGate, Seed, PublishIntent, Pace, pause, resume,
                Arrive, Organ, TimePasses, cycleVars
  <2>2. /\ awaits' = awaits \/ {awaits, awaits'} \subseteq {"gate", "control", "intents", "pace"}
        /\ Fails \/ Works
    BY <1>8
       DEF PassGate, Seed, PublishIntent, Pace, pause, resume,
                Arrive, Organ, TimePasses, cycleVars, bounds, Works
  <2>3. (InFlight' <=> InFlight) /\ (batch.promoted => awaits' = "select")
    BY <2>1, <2>2 DEF InFlight, PaceInv
  <2> QED  BY <1>0, <1>1, <2>1, <2>2, <2>3
<1> QED  BY <1>2, <1>3, <1>4, <1>5, <1>6, <1>7, <1>8 DEF CycleNext, Loop
-----------------------------------------------------------------------------
(* The loop and its pause. *)

LEMMA RoundStep ==
  ASSUME RoundInv, [CycleNext]_cycleVars
  PROVE  RoundInv'
<1>1. /\ {MaxArrivals, MaxFaults, MaxRestarts} \subseteq Nat
      /\ awaits \in Steps /\ suspended \in BOOLEAN /\ slipped \in BOOLEAN
      /\ batch \in Candidates
      /\ arrivals \in 0 .. MaxArrivals /\ faults \in 0 .. MaxFaults /\ restarts \in 0 .. MaxRestarts
  BY EngineAssumption DEF RoundInv
<1>2. Nothing \in Candidates
  BY DEF Nothing, Candidates
<1>3. /\ Fails => faults' \in 0 .. MaxFaults
      /\ Works => faults' = faults
  BY <1>1 DEF Fails, Works
<1>4. awaits' \in Steps /\ suspended' \in BOOLEAN
  BY <1>1
     DEF Steps, CycleNext, Loop, PassGate, Seed, consume_control_events,
         consume_interoception_regulation,
              GatherEvents, SelectSnapshot, PublishWorkspace, PublishIntent, Pace, pause, resume, Arrive,
              Organ, TimePasses, Restart, cycleVars
<1>5. slipped' \in BOOLEAN
  BY <1>1
     DEF CycleNext, Loop, PassGate, Seed, consume_control_events,
         consume_interoception_regulation,
              GatherEvents, SelectSnapshot, PublishWorkspace, PublishIntent, Pace, pause, resume, Arrive,
              Organ, TimePasses, Restart, cycleVars, speechVars
<1>6. batch' \in Candidates
  <2>1. \A a, b, c \in BOOLEAN :
          /\ [Nothing EXCEPT !.heard = a, !.spoke = b, !.promoted = c] \in Candidates
          /\ [Nothing EXCEPT !.heard = a, !.spoke = b, !.inhibited = c] \in Candidates
    BY DEF Nothing, Candidates
  <2>2. CASE GatherEvents
    <3>1. PICK from \in SUBSET ModuleStreams, promoted \in BOOLEAN :
            batch' = [Nothing EXCEPT !.heard = <<"utterance">> \in Kinds(from),
                                     !.spoke = <<"speech">> \in Kinds(from),
                                     !.promoted = promoted]
      BY <2>2 DEF GatherEvents
    <3> DEFINE heard == <<"utterance">> \in Kinds(from)
               spoke == <<"speech">> \in Kinds(from)
    <3>2. heard \in BOOLEAN /\ spoke \in BOOLEAN
      OBVIOUS
    <3>3. batch' = [Nothing EXCEPT !.heard = heard, !.spoke = spoke, !.promoted = promoted]
      BY <3>1
    <3> HIDE DEF heard, spoke
    <3> QED  BY <2>1, <3>2, <3>3
  <2>3. CASE SelectSnapshot
    BY <1>2, <2>1, <2>3 DEF SelectSnapshot
  <2>4. CASE ~ GatherEvents /\ ~ SelectSnapshot
    BY <1>1, <1>2, <2>4
     DEF CycleNext, Loop, PassGate, Seed, consume_control_events, consume_interoception_regulation,
         GatherEvents, SelectSnapshot, PublishWorkspace, PublishIntent, Pace, pause, resume, Arrive,
         Organ, TimePasses, Restart, cycleVars
  <2> QED  BY <2>2, <2>3, <2>4
<1>7. arrivals' \in 0 .. MaxArrivals /\ faults' \in 0 .. MaxFaults /\ restarts' \in 0 .. MaxRestarts
  <2>1. CASE UNCHANGED bounds
    BY <1>1, <2>1 DEF bounds
  <2>2. CASE Loop
    <3>1. UNCHANGED <<arrivals, restarts>> /\ (Fails \/ Works)
      BY <2>2 DEF Loop, PassGate, Seed, consume_control_events, consume_interoception_regulation,
                  GatherEvents, SelectSnapshot, PublishWorkspace, PublishIntent, Pace, bounds, Works
    <3> QED  BY <1>1, <1>3, <3>1
  <2>3. CASE (\E s \in Streams : Arrive(s)) \/ Restart
    BY <1>1, <2>3 DEF Arrive, Restart
  <2>4. CASE pause \/ resume \/ Organ \/ TimePasses \/ UNCHANGED cycleVars
    <3>1. UNCHANGED bounds
      BY <2>4 DEF pause, resume, Organ, TimePasses, cycleVars
    <3> QED  BY <2>1, <3>1
  <2> QED  BY <2>2, <2>3, <2>4 DEF CycleNext
<1> QED  BY <1>4, <1>5, <1>6, <1>7 DEF RoundInv

(* Only the end of a broadcast counts, and none begins while the gate is shut. *)
LEMMA PauseStep ==
  ASSUME RoundInv, PauseInv, [CycleNext]_cycleVars
  PROVE  PauseInv'
<1>1. CASE PassGate
  BY <1>1 DEF PauseInv, PassGate, GateOpen
<1>2. ASSUME NEW s \in Streams, Seed(s) PROVE PauseInv'
  BY <1>2 DEF PauseInv, Seed
<1>3. CASE consume_control_events \/ consume_interoception_regulation \/ GatherEvents \/ SelectSnapshot
  BY <1>3
     DEF PauseInv, consume_control_events, consume_interoception_regulation, GatherEvents,
         SelectSnapshot, bounds
<1>4. CASE PublishWorkspace
  <2>1. underPause = 0
    BY <1>4 DEF PauseInv, PublishWorkspace
  <2> QED  BY <1>4, <2>1 DEF PauseInv, PublishWorkspace
<1>5. CASE PublishIntent \/ Pace
  BY <1>5 DEF PauseInv, PublishIntent, Pace
<1>6. CASE pause \/ resume \/ Restart
  BY <1>6 DEF PauseInv, pause, resume, Restart
<1>7. CASE (\E s \in Streams : Arrive(s)) \/ Organ \/ TimePasses \/ UNCHANGED cycleVars
  BY <1>7 DEF PauseInv, Arrive, Organ, TimePasses, cycleVars
<1> QED  BY <1>1, <1>2, <1>3, <1>4, <1>5, <1>6, <1>7 DEF CycleNext, Loop
-----------------------------------------------------------------------------
(* The one utterance in flight. *)

(* Steps that leave the streams, the positions and the speech alone. *)
LEMMA SpeechKept ==
  ASSUME SpeechInv, UNCHANGED <<cursor, boot, log, speechVars>>,
         awaits # "intents" => awaits' # "intents", batch'.spoke => batch.spoke
  PROVE  SpeechInv'
BY DEF SpeechInv, Pending, speechVars

(* A position moved on leaves less unread. *)
LEMMA PendingShrinks ==
  ASSUME ReadInv, UNCHANGED <<boot, log>>, cursor'["language.out"] \in Int,
         cursor'["language.out"] >= cursor["language.out"]
  PROVE  Pending' \subseteq Pending
<1>1. cursor["language.out"] \in Int
  BY DEF ReadInv, Streams, ModuleStreams
<1> QED  BY <1>1 DEF Pending

(* Of the kinds of entries only the organ's speech is speech, and what is   *)
(* read of it is past this process's beginning or counts as stale.          *)
LEMMA ReadSpeech ==
  ASSUME ReadInv, NEW from \in SUBSET ModuleStreams, \A s \in from : cursor[s] # Unseeded,
         <<"speech">> \in Kinds(from)
  PROVE  /\ "language.out" \in from
         /\ StaleSpeech(from) \/ \E i \in Pending : i \in Decoded("language.out")
<1>0. PICK s \in from : \E i \in Decoded(s) : log[s][i] = <<"speech">>
  BY DEF Kinds
<1>1. PICK i \in Decoded(s) : log[s][i] = <<"speech">>
  BY <1>0
<1>2. s \in Streams /\ Decoded(s) \subseteq 1 .. Len(log[s])
  BY ReadReturns DEF Streams
<1>3. log[s] \in Seq(Kept(s))
  BY <1>2 DEF ReadInv
<1>4. <<"speech">> \in Kept(s)
  BY <1>1, <1>2, <1>3
<1>5. s = "language.out"
  <2> SUFFICES ASSUME s # "language.out" PROVE FALSE
    OBVIOUS
  <2>1. s = "audition.out"
    BY DEF ModuleStreams
  <2> QED  BY <2>1, <1>4 DEF Kept, Incoming, Poison
<1>6. CASE i =< boot["language.out"]
  BY <1>1, <1>5, <1>6 DEF StaleSpeech
<1>7. CASE ~ (i =< boot["language.out"])
  <2>1. cursor["language.out"] \in Int /\ boot["language.out"] \in Int /\ i \in Nat
    BY <1>1, <1>2, <1>5 DEF ReadInv
  <2>2. i > cursor["language.out"]
    BY <1>1, <1>2, <1>5, <2>1 DEF Decoded
  <2> QED  BY <1>1, <1>2, <1>5, <1>7, <2>1, <2>2 DEF Pending
<1> QED  BY <1>5, <1>6, <1>7

(* The reads of a tick: the organ's speech releases the guard. *)
LEMMA GatherSpeech ==
  ASSUME RoundInv, ReadInv, ReadInv', SpeechInv, GatherEvents
  PROVE  SpeechInv'
<1>1. PICK from \in SUBSET ModuleStreams :
        /\ Advance(from)
        /\ batch'.spoke = (<<"speech">> \in Kinds(from))
        /\ guard' = GuardAfterOwn(Kinds(from))
        /\ slipped' = (slipped \/ StaleSpeech(from))
  BY DEF GatherEvents, Nothing
<1>2. /\ awaits = "tick" /\ awaits' = "select" /\ owed' = owed
      /\ \A s \in from : cursor[s] # Unseeded
  BY DEF GatherEvents, Seeded, ReadAt
<1>3. UNCHANGED <<boot, log>>
  BY <1>1 DEF Advance
<1>4. /\ "language.out" \in Streams
      /\ cursor'["language.out"] \in Int /\ cursor["language.out"] \in Int
      /\ cursor'["language.out"] =
           IF "language.out" \in from THEN last_scanned("language.out") ELSE cursor["language.out"]
  BY <1>1 DEF Advance, ReadInv, Streams, ModuleStreams
<1>5. "language.out" \in from => last_scanned("language.out") \in cursor["language.out"] .. Len(log["language.out"])
  BY <1>2, <1>4, ReadReturns
<1>6. Pending' \subseteq Pending
  BY <1>3, <1>4, <1>5, PendingShrinks
<1>7. CASE <<"speech">> \notin Kinds(from)
  <2>1. guard' = guard /\ ~ batch'.spoke
    BY <1>1, <1>7 DEF GuardAfterOwn
  <2>2. slipped => slipped'
    BY <1>1
  <2> QED  BY <1>2, <1>6, <2>1, <2>2 DEF SpeechInv
<1>8. CASE <<"speech">> \in Kinds(from)
  <2>1. guard' = Disarmed
    BY <1>1, <1>8 DEF GuardAfterOwn
  <2>2. CASE slipped'
    BY <2>1, <2>2, <1>2 DEF SpeechInv
  <2>3. CASE ~ slipped'
    <3>1. ~ slipped /\ ~ StaleSpeech(from)
      BY <1>1, <2>3
    <3>2. PICK i \in Pending : i \in Decoded("language.out")
      BY <1>2, <1>8, <3>1, ReadSpeech
    <3>3. Pending = {i} /\ "language.out" \in from /\ owed # 1 /\ owed \in Nat /\ owed =< 1
      BY <3>1, <1>2, <1>8, ReadSpeech DEF SpeechInv
    <3>4. i =< cursor'["language.out"] /\ i \in Int
      BY <1>4, <3>2, <3>3 DEF Decoded
    <3>5. i \notin Pending'
      BY <1>4, <3>4 DEF Pending
    <3>6. Pending' = {}
      BY <1>6, <3>3, <3>5
    <3> QED  BY <1>2, <2>1, <3>3, <3>6 DEF SpeechInv
  <2> QED  BY <2>2, <2>3
<1> QED  BY <1>7, <1>8

(* The end of a broadcast: the policy speaks only past a disarmed guard. *)
LEMMA BroadcastSpeech ==
  ASSUME RoundInv, ReadInv, SpeechInv, PublishWorkspace
  PROVE  SpeechInv'
<1>1. UNCHANGED <<cursor, boot, log,
                  owed>> /\ batch' = Nothing /\ Pending' = Pending /\ awaits = "broadcast"
  BY DEF PublishWorkspace, readVars, Pending
<1>2. CASE awaits' = "pace" /\ UNCHANGED <<guard, slipped>>
  BY <1>1, <1>2 DEF SpeechInv, Nothing
<1>3. CASE /\ guard' = IF batch.inhibited THEN guard ELSE IF Speaks THEN 0 ELSE GuardSeen
           /\ slipped' = (slipped \/ (~batch.inhibited /\ TimedOut /\ (owed > 0 \/ Unread # {})))
           /\ awaits' = IF Speaks THEN "intents" ELSE "pace"
  <2>1. guard \in {Disarmed} \cup 0 .. GuardTimeout /\ GuardTimeout \in Nat \ {0}
    BY EngineAssumption DEF SpeechInv
  <2>2. GuardSeen \in {Disarmed, guard} /\ 0 \in 0 .. GuardTimeout
    BY <2>1 DEF GuardSeen
  <2>3. guard' \in {Disarmed} \cup 0 .. GuardTimeout
    BY <1>3, <2>1, <2>2
  <2>4. CASE slipped'
    BY <1>1, <2>3, <2>4 DEF SpeechInv, Nothing
  <2>5. CASE batch.inhibited
    <3>1. guard' = guard /\ awaits' = "pace" /\ (slipped => slipped')
      BY <1>3, <2>5 DEF Speaks
    <3> QED  BY <1>1, <2>3, <3>1 DEF SpeechInv, Nothing
  <2>6. CASE ~ slipped' /\ ~ batch.inhibited
    <3>1. ~ slipped /\ (TimedOut => ~ (owed > 0) /\ Unread = {})
      BY <1>3, <2>6
    <3>2. Pending \subseteq Unread
      <4>1. cursor["language.out"] \in Int /\ boot["language.out"] \in Nat /\ Len(log["language.out"]) \in Nat
        BY DEF ReadInv, Streams, ModuleStreams
      <4>2. Max({cursor["language.out"], 0}) = IF cursor["language.out"] >= 0 THEN cursor["language.out"] ELSE 0
        BY <4>1, MaxOfTwo
      <4>3. \A i \in Pending : Decodable("language.out", i)
        BY DEF Pending, Decodable, Poison
      <4> QED  BY <4>1, <4>2, <4>3 DEF Pending, Unread
    <3>3. owed \in Nat /\ (TimedOut => owed = 0 /\ Pending = {})
      BY <3>1, <3>2 DEF SpeechInv
    <3>4. GuardSeen = Disarmed => owed = 0 /\ Pending = {}
      <4>1. CASE TimedOut
        BY <3>3, <4>1
      <4>2. CASE ~ TimedOut
        <5> SUFFICES ASSUME GuardSeen = Disarmed PROVE guard = Disarmed
          BY <3>1, <3>3 DEF SpeechInv
        <5> QED  BY <4>2 DEF GuardSeen, SpeechInv
      <4> QED  BY <4>1, <4>2
    <3>5. CASE Speaks
      <4>1. guard' = 0 /\ awaits' = "intents" /\ owed = 0 /\ Pending = {}
        BY <1>3, <2>6, <3>4, <3>5 DEF Speaks
      <4> QED  BY <1>1, <2>3, <4>1 DEF SpeechInv, Nothing, Disarmed
    <3>6. CASE ~ Speaks
      <4>1. guard' = GuardSeen /\ awaits' = "pace"
        BY <1>3, <2>6, <3>6
      <4> QED  BY <1>1, <2>3, <3>1, <3>4, <4>1 DEF SpeechInv, Nothing
    <3> QED  BY <3>5, <3>6
  <2>7. slipped' \in BOOLEAN
    BY <1>3
  <2> QED  BY <2>4, <2>5, <2>6
<1> QED  BY <1>2, <1>3 DEF PublishWorkspace

(* The organ puts its utterance on its stream, or gives it up. *)
LEMMA OrganSpeech ==
  ASSUME ReadInv, SpeechInv, Organ
  PROVE  SpeechInv'
<1>1. owed \in Nat /\ owed > 0 /\ owed' = owed - 1
      /\ UNCHANGED <<awaits, batch, cursor, boot, guard, slipped>>
  BY DEF Organ, SpeechInv
<1>2. log["language.out"] \in Seq(Messages) /\ "language.out" \in DOMAIN log
  BY DEF ReadInv, Streams, ModuleStreams
<1>3. CASE UNCHANGED log
  <2>1. Pending' = Pending
    BY <1>1, <1>3 DEF Pending
  <2> QED  BY <1>1, <2>1 DEF SpeechInv
<1>4. CASE Post("language.out", <<"speech">>)
  <2> DEFINE n == Len(log["language.out"])
  <2>1. log'["language.out"] = Append(log["language.out"], <<"speech">>)
    BY <1>2, <1>4 DEF Post
  <2>2. n \in Nat /\ Len(log'["language.out"]) = n + 1 /\ \A i \in 1 .. n : log'["language.out"][i] = log["language.out"][i]
    BY <1>2, <2>1
  <2>3. Pending' \subseteq Pending \cup {n + 1}
    BY <1>1, <2>2 DEF Pending
  <2>4. CASE slipped
    BY <1>1, <2>4 DEF SpeechInv
  <2>5. CASE ~ slipped
    <3>1. owed = 1 /\ Pending = {} /\ awaits # "intents" /\ guard # Disarmed
      BY <1>1, <2>5 DEF SpeechInv
    <3> QED  BY <1>1, <2>3, <3>1 DEF SpeechInv
  <2> QED  BY <2>4, <2>5
<1> QED  BY <1>3, <1>4 DEF Organ

LEMMA SpeechStep ==
  ASSUME RoundInv, ReadInv, ReadInv', SpeechInv, [CycleNext]_cycleVars
  PROVE  SpeechInv'
<1>1. CASE Restart
  <2>1. boot' = [s \in Streams |-> Len(log[s])] /\ log' = log /\ "language.out" \in Streams
    BY <1>1 DEF Restart, Streams, ModuleStreams
  <2>2. Len(log["language.out"]) \in Nat
    BY <2>1 DEF ReadInv
  <2>3. Pending' = {}
    BY <2>1, <2>2 DEF Pending
  <2> QED  BY <1>1, <2>3 DEF Restart, SpeechInv, Nothing
<1>2. ASSUME NEW s \in Streams, Seed(s) PROVE SpeechInv'
  <2>1. UNCHANGED <<awaits, batch, log, boot, speechVars>> /\ cursor[s] = Unseeded
    BY <1>2 DEF Seed
  <2>2. cursor'["language.out"] \in Int /\ cursor["language.out"] \in Int /\ cursor \in [Streams -> Int]
        /\ "language.out" \in Streams
    BY DEF ReadInv, Streams, ModuleStreams
  <2>3. Len(log[s]) \in Nat
    BY DEF ReadInv
  <2>4. cursor' = [cursor EXCEPT ![s] = Len(log[s])] \/ cursor' = [cursor EXCEPT ![s] = 0]
    BY <1>2 DEF Seed, tail_id
  <2>5. cursor'["language.out"] >= cursor["language.out"]
    BY <2>1, <2>2, <2>3, <2>4 DEF Unseeded
  <2>6. Pending' \subseteq Pending
    BY <2>1, <2>2, <2>5, PendingShrinks
  <2> QED  BY <2>1, <2>6 DEF SpeechInv, speechVars
<1>3. CASE PassGate \/ SelectSnapshot \/ pause \/ resume \/ UNCHANGED cycleVars
  <2>1. /\ UNCHANGED <<cursor, boot, log, speechVars>>
        /\ awaits # "intents" => awaits' # "intents"
    BY <1>3 DEF PassGate, SelectSnapshot, pause, resume, cycleVars, readVars
  <2>2. batch'.spoke => batch.spoke
    <3>1. CASE SelectSnapshot
      <4>1. ~ Nothing.spoke /\ \A a, b, c \in BOOLEAN :
              [Nothing EXCEPT !.heard = a, !.spoke = b, !.inhibited = c].spoke = b
        BY DEF Nothing
      <4> QED  BY <3>1, <4>1 DEF SelectSnapshot
    <3>2. CASE ~ SelectSnapshot
      BY <1>3, <3>2 DEF PassGate, pause, resume, cycleVars
    <3> QED  BY <3>1, <3>2
  <2> QED  BY <2>1, <2>2, SpeechKept
<1>4. CASE consume_control_events \/ consume_interoception_regulation
  <2>1. /\ UNCHANGED <<speechVars, batch>> /\ awaits' # "intents" /\ awaits \in {"control", "regulate"}
        /\ UNCHANGED readVars \/ Advance(ReadAt(awaits))
    BY <1>4 DEF consume_control_events, consume_interoception_regulation
  <2>2. \/ UNCHANGED <<cursor, boot, log>>
        \/ UNCHANGED <<boot, log>> /\ cursor'["language.out"] = cursor["language.out"]
    BY <2>1 DEF readVars, Advance, ReadAt, Streams, ModuleStreams
  <2>3. Pending' = Pending
    BY <2>2 DEF Pending
  <2> QED  BY <2>1, <2>3 DEF SpeechInv, speechVars
<1>5. CASE PublishIntent
  <2>1. /\ awaits = "intents" /\ awaits' = "pace" /\ owed' \in {owed, owed + 1}
        /\ UNCHANGED <<cursor, boot, log, batch, guard, slipped>>
    BY <1>5 DEF PublishIntent, readVars
  <2>2. Pending' = Pending
    BY <2>1 DEF Pending
  <2> QED  BY <2>1, <2>2 DEF SpeechInv
<1>6. CASE Pace \/ TimePasses
  <2>1. /\ awaits # "intents" /\ awaits' # "intents" /\ guard' = Older
        /\ UNCHANGED <<cursor, boot, log, batch, owed, slipped>>
    BY <1>6 DEF Pace, TimePasses, readVars
  <2>2. Pending' = Pending
    BY <2>1 DEF Pending
  <2>3. guard \in {Disarmed} \cup 0 .. GuardTimeout /\ GuardTimeout \in Nat
    BY EngineAssumption DEF SpeechInv
  <2>4. guard' \in {Disarmed} \cup 0 .. GuardTimeout /\ (guard' = Disarmed <=> guard = Disarmed)
    <3>1. CASE guard = Disarmed
      BY <2>1, <3>1 DEF Older
    <3>2. CASE guard # Disarmed
      <4>1. guard \in 0 .. GuardTimeout /\ guard + 1 \in Int /\ GuardTimeout \in Int
        BY <2>3, <3>2
      <4>2. guard' = IF guard + 1 =< GuardTimeout THEN guard + 1 ELSE GuardTimeout
        BY <2>1, <3>2, <4>1, MinOfTwo DEF Older
      <4> QED  BY <2>3, <4>1, <4>2 DEF Disarmed
    <3> QED  BY <3>1, <3>2
  <2> QED  BY <2>1, <2>2, <2>4 DEF SpeechInv
<1>7. ASSUME NEW s \in Streams, Arrive(s) PROVE SpeechInv'
  <2>1. PICK entry \in Incoming(s) : Post(s, entry)
    BY <1>7 DEF Arrive
  <2>2. UNCHANGED <<awaits, batch, cursor, boot, speechVars>>
    BY <1>7 DEF Arrive
  <2>3. Pending' = Pending
    <3>1. CASE s # "language.out"
      <4>1. log'["language.out"] = log["language.out"]
        BY <2>1, <3>1 DEF Post, ReadInv, Streams, ModuleStreams
      <4> QED  BY <2>2, <4>1 DEF Pending
    <3>2. CASE s = "language.out"
      <4> DEFINE n == Len(log["language.out"])
      <4>1. log["language.out"] \in Seq(Messages) /\ "language.out" \in DOMAIN log /\ entry = Poison
        BY <3>2 DEF ReadInv, Incoming
      <4>2. log'["language.out"] = Append(log["language.out"], Poison)
        BY <2>1, <3>2, <4>1 DEF Post
      <4>3. /\ n \in Nat /\ Len(log'["language.out"]) = n + 1
            /\ \A i \in 1 .. n : log'["language.out"][i] = log["language.out"][i]
            /\ log'["language.out"][n + 1] # <<"speech">>
        BY <4>1, <4>2 DEF Poison
      <4> HIDE DEF n
      <4> QED  BY <2>2, <4>3 DEF Pending, n
    <3> QED  BY <3>1, <3>2
  <2> QED  BY <2>2, <2>3 DEF SpeechInv, speechVars
<1>8. CASE GatherEvents
  BY <1>8, GatherSpeech
<1>9. CASE PublishWorkspace
  BY <1>9, BroadcastSpeech
<1>10. CASE Organ
  BY <1>10, OrganSpeech
<1> QED  BY <1>1, <1>2, <1>3, <1>4, <1>5, <1>6, <1>7, <1>8, <1>9, <1>10 DEF CycleNext, Loop
-----------------------------------------------------------------------------
(* The cycle: its theorems. *)

LEMMA CycleBegins == CycleInit => CycleInv
<1> SUFFICES ASSUME CycleInit PROVE CycleInv
  OBVIOUS
<1>1. RoundInv
  <2>1. Nothing \in Candidates
    BY DEF Nothing, Candidates
  <2>2. 0 \in 0 .. MaxArrivals /\ 0 \in 0 .. MaxFaults /\ 0 \in 0 .. MaxRestarts
    BY EngineAssumption
  <2> QED  BY <2>1, <2>2 DEF CycleInit, RoundInv, Steps
<1>2. ReadInv
  <2>1. /\ log = [s \in Streams |-> <<>>] /\ boot = [s \in Streams |-> 0]
        /\ cursor = [s \in Streams |-> Unseeded] /\ since = [s \in Streams |-> Unseeded]
        /\ taken = [s \in Streams |-> <<>>] /\ lostTail = {}
    BY DEF CycleInit
  <2>2. Unseeded \in Int /\ <<>> \in Seq(Nat) /\ <<>> \in Seq(Messages)
    BY DEF Unseeded
  <2>3. \A s \in Streams : log[s] \in Seq(Kept(s)) /\ Len(log[s]) = 0
    BY <2>1
  <2> QED  BY <2>1, <2>2, <2>3 DEF ReadInv
<1>3. PaceInv
  <2>1. /\ rates = [processing |-> Processing, experiential |-> Experiential]
        /\ acc = 0 /\ credit = 0 /\ missed = 0 /\ faults = 0 /\ awaits = "gate" /\ ~batch.promoted
    BY DEF CycleInit, Nothing
  <2>2. Behind = 0 /\ 0 =< 0 * Unit  BY <2>1, EngineAssumption DEF Behind, InFlight
  <2> QED  BY <2>1, <2>2, EngineAssumption DEF PaceInv, Rates
<1>4. PauseInv
  BY DEF CycleInit, PauseInv
<1>5. SpeechInv
  <2>1. Pending = {}
    BY DEF CycleInit, Pending, Streams, ModuleStreams
  <2> QED  BY <2>1 DEF CycleInit, SpeechInv, Nothing
<1> QED  BY <1>1, <1>2, <1>3, <1>4, <1>5 DEF CycleInv

LEMMA CycleKeeps == CycleInv /\ [CycleNext]_cycleVars => CycleInv'
<1> SUFFICES ASSUME CycleInv, [CycleNext]_cycleVars PROVE CycleInv'
  OBVIOUS
<1>1. RoundInv /\ ReadInv /\ PaceInv /\ PauseInv /\ SpeechInv
  BY DEF CycleInv
<1>2. ReadInv'
  BY <1>1, ReadStep
<1>3. RoundInv' /\ PauseInv'
  BY <1>1, RoundStep, PauseStep
<1>4. PaceInv'
  BY <1>1, PaceStep
<1>5. SpeechInv'
  BY <1>1, <1>2, SpeechStep
<1> QED  BY <1>2, <1>3, <1>4, <1>5 DEF CycleInv

LEMMA CycleInvariant == CycleSpec => []CycleInv
BY CycleBegins, CycleKeeps, PTL DEF CycleSpec

(* apply_rate_control_event, tick, _safe_read: the cycle's state stays well *)
(* typed, the rates positive whatever the dashboard sends and the body      *)
(* advises, every cursor within its stream.                                 *)
THEOREM CycleTypeCorrect == CycleSpec => []CycleTypeOK
<1>1. CycleInv => CycleTypeOK
  <2> SUFFICES ASSUME CycleInv PROVE CycleTypeOK
    OBVIOUS
  <2>1. RoundInv /\ ReadInv /\ PaceInv /\ PauseInv /\ SpeechInv
    BY DEF CycleInv
  <2>2. /\ log \in [Streams -> Seq(Messages)]
        /\ cursor \in [Streams -> Int] /\ since \in [Streams -> Int]
        /\ taken \in [Streams -> Seq(Nat)] /\ lostTail \subseteq Streams
        /\ \A s \in Streams : cursor[s] \in {Unseeded} \cup 0 .. Len(log[s])
    BY <2>1 DEF ReadInv
  <2>3. boot \in [Streams -> Nat] /\ \A s \in Streams : boot[s] =< Len(log[s])
    <3>1. \A s \in Streams : boot[s] \in 0 .. Len(log[s]) /\ Len(log[s]) \in Nat
      BY <2>1 DEF ReadInv
    <3> QED  BY <2>1, <3>1 DEF ReadInv
  <2>4. awaits \in Steps /\ suspended \in BOOLEAN /\ slipped \in BOOLEAN /\ batch \in Candidates
        /\ arrivals \in 0 .. MaxArrivals /\ faults \in 0 .. MaxFaults /\ restarts \in 0 .. MaxRestarts
    BY <2>1 DEF RoundInv
  <2>5. rates \in Rates /\ acc \in 0 .. Unit /\ credit \in Int /\ missed \in Nat
    BY <2>1 DEF PaceInv
  <2>6. guard \in {Disarmed} \cup 0 .. GuardTimeout /\ owed \in Nat /\ underPause \in Nat
    BY <2>1 DEF SpeechInv, PauseInv
  <2> QED  BY <2>2, <2>3, <2>4, <2>5, <2>6 DEF CycleTypeOK
<1> QED  BY <1>1, CycleInvariant, PTL

(* tick, _safe_read, _tail_id: every entry after the place a reader began is *)
(* handled once, across batches, failed reads and entries that cannot be     *)
(* decoded, in the order of its stream but for what the sort of one batch by *)
(* type puts first, and an earlier process's entries only where the lookup   *)
(* of the tail failed.                                                       *)
THEOREM EntriesHandledOnce == CycleSpec => []HandledOnceInOrder
<1>1. CycleInv => HandledOnceInOrder
  <2> SUFFICES ASSUME ReadInv, NEW s \in Streams
               PROVE  /\ cursor[s] # Unseeded =>
                           /\ Range(taken[s]) = {i \in since[s] + 1 .. cursor[s] : Decodable(s, i)}
                           /\ \A i, k \in DOMAIN taken[s] :
                                i < k => InOrder(s, taken[s][i], taken[s][k])
                      /\ s \notin lostTail => \A k \in DOMAIN taken[s] : taken[s][k] > boot[s]
    BY DEF CycleInv, HandledOnceInOrder
  <2>1. CASE cursor[s] = Unseeded
    BY <2>1 DEF ReadInv
  <2>2. CASE cursor[s] # Unseeded
    <3>1. /\ Range(taken[s]) = {i \in since[s] + 1 .. cursor[s] : Decodable(s, i)}
          /\ \A i, k \in DOMAIN taken[s] : i < k => InOrder(s, taken[s][i], taken[s][k])
          /\ since[s] \in Int /\ boot[s] \in Int /\ cursor[s] \in Int
          /\ s \notin lostTail => since[s] >= boot[s]
      BY <2>2 DEF ReadInv, Chained, Handling
    <3>2. ASSUME NEW k \in DOMAIN taken[s], s \notin lostTail PROVE taken[s][k] > boot[s]
      <4>1. taken[s][k] \in since[s] + 1 .. cursor[s]
        BY <3>1 DEF Range
      <4> QED  BY <3>1, <3>2, <4>1
    <3> QED  BY <3>1, <3>2
  <2> QED  BY <2>1, <2>2
<1> QED  BY <1>1, CycleInvariant, PTL

(* _advance_experiential, select, publish_workspace: but for one broadcast  *)
(* per promoted tick that failed, the broadcasts made are never a whole one *)
(* behind those the rates make due, over every sequence of changes, and     *)
(* from one change to the next never more than one ahead.                   *)
THEOREM BroadcastsPaced == CycleSpec => []BroadcastsKeepPace
<1>1. CycleInv => BroadcastsKeepPace
  <2> SUFFICES ASSUME PaceInv PROVE BroadcastsKeepPace
    BY DEF CycleInv
  <2>1. /\ Share \in Nat /\ Unit \in Nat /\ credit - missed \in Int /\ acc \in 0 .. Unit
        /\ missed =< faults * Unit
    BY RatesHaveAShare, EngineAssumption DEF PaceInv
  <2>0. Behind \in Int  BY <2>1 DEF Behind
  <2>2. -Unit =< Behind /\ Behind < Unit
    <3>1. Behind \in Int  BY <2>0
    <3> HIDE DEF Behind
    <3> QED  BY <2>1, <3>1 DEF PaceInv
  <2>3. credit - missed = Behind + (IF InFlight THEN Unit ELSE 0)
    BY <2>1 DEF Behind, PaceInv
  <2>4. -Unit =< credit - missed /\ credit - missed < (IF InFlight THEN 2 * Unit ELSE Unit)
    <3>1. CASE InFlight
      <4>1. credit - missed = Behind + Unit  BY <2>3, <3>1
      <4>2. credit - missed < Unit + Unit /\ -Unit =< credit - missed
        BY <2>0, <2>1, <2>2, <4>1
      <4> QED  BY <2>1, <3>1, <4>2
    <3>2. CASE ~InFlight
      <4>1. credit - missed = Behind  BY <2>0, <2>3, <3>2
      <4> QED  BY <2>2, <3>2, <4>1
    <3> QED  BY <3>1, <3>2
  <2> QED  BY <2>1, <2>4 DEF BroadcastsKeepPace
<1> QED  BY <1>1, CycleInvariant, PTL

(* DefaultActionSelectionPolicy, _forward_own_output: the organ is given a *)
(* second utterance with one to come only after the guard was given up or  *)
(* released by an earlier process's speech.                                *)
THEOREM UtterancesOneByOne == CycleSpec => []OneUtteranceInFlight
<1>1. CycleInv => OneUtteranceInFlight
  BY DEF CycleInv, SpeechInv, RoundInv, OneUtteranceInFlight
<1> QED  BY <1>1, CycleInvariant, PTL

(* pause, run_forever: at most the tick in flight is broadcast under a pause. *)
THEOREM PauseLetsOneTickEnd == CycleSpec => []OneTickAfterPause
<1>1. CycleInv => OneTickAfterPause
  BY DEF CycleInv, PauseInv, OneTickAfterPause
<1> QED  BY <1>1, CycleInvariant, PTL
=============================================================================
