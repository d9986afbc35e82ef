--------------------------- MODULE DevelopmentProofs ---------------------------
(***************************************************************************)
(* An entity in development: how it matures and how it sleeps.             *)
(*                                                                         *)
(* For any page size, any number of sleeps, faults and requests: every     *)
(* finished rest is counted once, a matured entity stays matured, a        *)
(* developing one stays confined, and maturation follows the evidence and  *)
(* the answer it was asked for.                                            *)
(*                                                                         *)
(* For any length of a rest and of an awake stretch, and any number of     *)
(* failures, restarts, stops and crashes: a rest is slept for its whole    *)
(* length, none begins before it is due, and the senses come back.         *)
(***************************************************************************)
EXTENDS Maturation, Sleep, FiniteSetTheorems, TLAPS

(* The finished rests of a stream. *)
Rests(s, from, to) == Cardinality({i \in (from + 1)..to : s[i]})

LEMMA RestsNat ==
  ASSUME NEW s, NEW from \in Int, NEW to \in Int
  PROVE  Rests(s, from, to) \in Nat
<1>1. IsFiniteSet((from + 1)..to)
  BY FS_Interval
<1>2. IsFiniteSet({i \in (from + 1)..to : s[i]})
  BY <1>1, FS_Subset
<1> QED  BY <1>2, FS_CardinalityType DEF Rests

LEMMA RestsNone ==
  ASSUME NEW s, NEW n \in Int
  PROVE  Rests(s, n, n) = 0
<1>1. {i \in (n + 1)..n : s[i]} = {}
  OBVIOUS
<1> QED  BY <1>1, FS_EmptySet DEF Rests

(* Counting page by page counts the whole. *)
LEMMA RestsAdd ==
  ASSUME NEW s, NEW a \in Int, NEW b \in Int, NEW c \in Int, a <= b, b <= c
  PROVE  Rests(s, a, c) = Rests(s, a, b) + Rests(s, b, c)
<1> DEFINE S == {i \in (a + 1)..b : s[i]}
           T == {i \in (b + 1)..c : s[i]}
<1>1. IsFiniteSet(S) /\ IsFiniteSet(T)
  <2>1. IsFiniteSet((a + 1)..b) /\ IsFiniteSet((b + 1)..c)
    BY FS_Interval
  <2>2. IsFiniteSet(S)
    BY <2>1, FS_Subset
  <2>3. IsFiniteSet(T)
    BY <2>1, FS_Subset
  <2> QED  BY <2>2, <2>3
<1>2. S \cap T = {}
  OBVIOUS
<1>3. {i \in (a + 1)..c : s[i]} = S \cup T
  OBVIOUS
<1>4. Cardinality(S \cup T) = Cardinality(S) + Cardinality(T) - 0
  BY <1>1, <1>2, FS_Union, FS_EmptySet
<1>5. Cardinality(S) \in Nat /\ Cardinality(T) \in Nat
  BY <1>1, FS_CardinalityType
<1>6. Rests(s, a, b) = Cardinality(S) /\ Rests(s, b, c) = Cardinality(T)
  BY DEF Rests
<1>7. Rests(s, a, c) = Cardinality(S \cup T)
  BY <1>3 DEF Rests
<1> HIDE DEF S, T
<1> QED  BY <1>4, <1>5, <1>6, <1>7

(* A completion that arrives leaves the counts behind it as they were. *)
LEMMA RestsAppend ==
  ASSUME NEW s \in Seq(BOOLEAN), NEW e \in BOOLEAN, NEW from \in Nat, NEW to \in Nat,
         to <= Len(s)
  PROVE  Rests(Append(s, e), from, to) = Rests(s, from, to)
<1>1. \A i \in (from + 1)..to : Append(s, e)[i] = s[i]
  OBVIOUS
<1>2. {i \in (from + 1)..to : Append(s, e)[i]} = {i \in (from + 1)..to : s[i]}
  BY <1>1
<1> QED  BY <1>2 DEF Rests

-----------------------------------------------------------------------------
(* The part of TypeOK the counts rest on. *)
Typed ==
  /\ stageFile \in Stages /\ stage \in Stages
  /\ scan \in [total : Nat, cursor : Cursors]
  /\ sleeps \in Seq(BOOLEAN)
  /\ issued \in Nat /\ atBoot \in 0..issued

(* What the stage in memory, the stage on disk, the locus and the process  *)
(* say of each other.                                                      *)
AtWork == (Awaits \ {"boot"}) \cup {"mature"}
StageInv ==
  /\ pc \in {"off", "born"} \cup Awaits \cup Sync
  /\ pc # "off" => stage.stage \in {"development", "embodied"}
  /\ pc \in Awaits \cup {"mature"} => stage.stage = "development"
  /\ pc # "off" /\ stageFile.stage = "embodied" => stage.stage = "embodied"
  /\ pc \in AtWork => locus = "locked"
  /\ pc \in {"born", "clear", "unlock"} =>
       stage.stage = "embodied" /\ stageFile.stage # "development"

(* A request this process knows is the one on disk, and newer than all it  *)
(* found when it started.                                                  *)
RequestInv ==
  /\ request # 0 => requestFile = request /\ request > atBoot
  /\ pc \in {"activate", "mature"} /\ NeedsAck => request # 0 /\ ackFile = request

(* The records hold the finished rests from their anchor to their cursor,  *)
(* the count under way those from the anchor to its own cursor.            *)
Holds(r) ==
  IF r.cursor = NoCursor THEN r.count = 0
  ELSE /\ r.anchor \in Nat /\ r.anchor <= r.cursor /\ r.cursor <= Len(sleeps)
       /\ r.count = Rests(sleeps, r.anchor, r.cursor)
CountInv ==
  /\ Holds(stageFile) /\ Holds(stage)
  /\ stageFile.stage = "none" => stageFile.cursor = NoCursor
  /\ pc # "off" /\ stageFile.cursor # NoCursor =>
       stage.cursor # NoCursor /\ stage.anchor = stageFile.anchor
         /\ stage.cursor >= stageFile.cursor
  /\ pc \in {"begin", "count", "final"} =>
       IF stage.cursor = NoCursor THEN scan.cursor = NoCursor
       ELSE /\ scan.cursor # NoCursor /\ stage.cursor <= scan.cursor
            /\ scan.cursor <= Len(sleeps)
            /\ scan.total = Rests(sleeps, stage.anchor, scan.cursor)
  /\ pc \in {"probe", "activate", "mature"} => stage.count >= MinSleeps

-----------------------------------------------------------------------------
LEMMA StageStep ==
  ASSUME Typed, StageInv, [Next]_vars
  PROVE  StageInv'
<1>1. CASE Boot
  BY <1>1
     DEF StageInv, AtWork, Typed, Stages, Awaits, Sync, Boot, BootStage, BootRequest, Blank, disk
<1>2. CASE Pin
  BY <1>2 DEF StageInv, AtWork, Typed, Stages, Awaits, Sync, Pin, gate, effectors, world, counts
<1>3. CASE Launch
  BY <1>3
     DEF StageInv, AtWork, Typed, Stages, Awaits, Sync, Launch, disk, gate, effectors, world,
         counts
<1>4. CASE Crash
  BY <1>4
     DEF StageInv, AtWork, Typed, Stages, Awaits, Sync, Crash, Fault, Blank, disk, world, counts
<1>5. CASE Tick
  BY <1>5
     DEF StageInv, AtWork, Typed, Stages, Awaits, Sync, Tick, Developing, GateStays, disk,
         effectors, world, counts
<1>6. CASE BeginBoot
  BY <1>6
     DEF StageInv, AtWork, Typed, Stages, Awaits, Sync, BeginBoot, Fault, GateStays, disk,
         effectors, world, counts
<1>7. CASE CountPage
  BY <1>7
     DEF StageInv, AtWork, Typed, Stages, Awaits, Sync, CountPage, GateStays, disk, effectors,
         world, counts
<1>8. CASE CountEnds
  BY <1>8
     DEF StageInv, AtWork, Typed, Stages, Awaits, Sync, CountEnds, Persist, AnchoredAtTail,
         Counted, AfterCount, Fault, GateStays, effectors, world, counts
<1>9. CASE CountFails
  BY <1>9
     DEF StageInv, AtWork, Typed, Stages, Awaits, Sync, CountFails, AfterCount, Fault, GateStays,
         disk, gate, effectors, world, counts
<1>10. CASE NotReady
  BY <1>10
     DEF StageInv, AtWork, Typed, Stages, Awaits, Sync, NotReady, Withdraw, Fault, GateStays,
         effectors, world, counts
<1>11. CASE Evaluate
  BY <1>11
     DEF StageInv, AtWork, Typed, Stages, Awaits, Sync, Evaluate, Evidence, GateStays, disk, gate,
         effectors, world, counts
<1>12. CASE HoldForBody
  BY <1>12
     DEF StageInv, AtWork, Typed, Stages, Awaits, Sync, HoldForBody, Withdraw, Fault, GateStays,
         effectors, world, counts
<1>13. CASE HoldForAck
  BY <1>13 DEF StageInv, AtWork, Typed, Stages, Awaits, Sync, HoldForAck, Fault, effectors, world
<1>14. CASE BeginMaturation
  BY <1>14
     DEF StageInv, AtWork, Typed, Stages, Awaits, Sync, BeginMaturation, Acknowledged, disk, gate,
         world, counts
<1>15. CASE Activate
  BY <1>15
     DEF StageInv, AtWork, Typed, Stages, Awaits, Sync, Activate, Fault, disk, gate, world, counts
<1>16. CASE WriteStage
  BY <1>16
     DEF StageInv, AtWork, Typed, Stages, Awaits, Sync, WriteStage, Embodied, Kept, Fault,
         GateStays, effectors, world, counts
<1>17. CASE ClearFiles
  BY <1>17
     DEF StageInv, AtWork, Typed, Stages, Awaits, Sync, ClearFiles, Fault, GateStays, effectors,
         world, counts
<1>18. CASE Unlock
  BY <1>18
     DEF StageInv, AtWork, Typed, Stages, Awaits, Sync, Unlock, Fault, GateStays, gate, effectors,
         world, counts
<1>19. CASE StopSeen
  <2>1. CASE pc = "born"
    BY <1>19, <2>1 DEF StageInv, AtWork, TypeOK, Awaits, Sync, StopSeen, Final, Developing
  <2>2. CASE pc = "wait"
    BY <1>19, <2>2 DEF StageInv, AtWork, TypeOK, Awaits, Sync, StopSeen, Final, Developing
  <2> QED  BY <1>19, <2>1, <2>2 DEF StopSeen
<1>20. CASE Cancelled
  BY <1>20
     DEF StageInv, AtWork, Typed, Stages, Awaits, Sync, Cancelled, Final, Developing, Fault,
         GateStays, effectors, world, counts
<1>21. CASE \E e \in BOOLEAN : SleepCompletes(e)
  BY <1>21
     DEF StageInv, AtWork, Typed, Stages, Awaits, Sync, SleepCompletes, Running, Undisturbed,
         disk, gate, effectors, counts
<1>22. CASE Freezes
  BY <1>22
     DEF StageInv, AtWork, Typed, Stages, Awaits, Sync, Freezes, Running, Change, Undisturbed,
         disk, gate, effectors, counts
<1>23. CASE ReadinessMoves
  BY <1>23
     DEF StageInv, AtWork, Typed, Stages, Awaits, Sync, ReadinessMoves, Running, Change,
         Undisturbed, disk, gate, effectors, counts
<1>24. CASE BodyMoves
  BY <1>24
     DEF StageInv, AtWork, Typed, Stages, Awaits, Sync, BodyMoves, Running, Change, Undisturbed,
         disk, gate, effectors, counts
<1>25. CASE Acknowledge
  BY <1>25
     DEF StageInv, AtWork, Typed, Stages, Awaits, Sync, Acknowledge, Undisturbed, world, gate,
         effectors, counts
<1>26. CASE UNCHANGED vars
  BY <1>26
     DEF StageInv, AtWork, Typed, Stages, Awaits, Sync, vars, disk, gate, effectors, world, counts
<1> QED  BY <1>1, <1>2, <1>3, <1>4, <1>5, <1>6, <1>7, <1>8, <1>9, <1>10, <1>11, <1>12, <1>13,
            <1>14, <1>15, <1>16, <1>17, <1>18, <1>19, <1>20, <1>21, <1>22, <1>23, <1>24, <1>25,
            <1>26
            DEF Next, GateStep

LEMMA RequestStep ==
  ASSUME Typed, RequestInv, [Next]_vars
  PROVE  RequestInv'
<1>1. CASE Boot
  BY <1>1 DEF RequestInv, Typed, Awaits, Sync, Boot, BootStage, BootRequest, Blank, disk
<1>2. CASE Pin
  BY <1>2 DEF RequestInv, Typed, Awaits, Sync, Pin, gate, effectors, world, counts
<1>3. CASE Launch
  BY <1>3 DEF RequestInv, Typed, Awaits, Sync, Launch, disk, gate, effectors, world, counts
<1>4. CASE Crash
  BY <1>4 DEF RequestInv, Typed, Awaits, Sync, Crash, Fault, Blank, disk, world, counts
<1>5. CASE Tick
  BY <1>5
     DEF RequestInv, Typed, Awaits, Sync, Tick, Developing, GateStays, disk, effectors, world,
         counts
<1>6. CASE BeginBoot
  BY <1>6
     DEF RequestInv, Typed, Awaits, Sync, BeginBoot, Fault, GateStays, disk, effectors, world,
         counts
<1>7. CASE CountPage
  BY <1>7
     DEF RequestInv, Typed, Awaits, Sync, CountPage, GateStays, disk, effectors, world, counts
<1>8. CASE CountEnds
  BY <1>8
     DEF RequestInv, Typed, Awaits, Sync, CountEnds, Persist, AnchoredAtTail, Counted, AfterCount,
         Fault, GateStays, effectors, world, counts
<1>9. CASE CountFails
  BY <1>9
     DEF RequestInv, Typed, Awaits, Sync, CountFails, AfterCount, Fault, GateStays, disk, gate,
         effectors, world, counts
<1>10. CASE NotReady
  BY <1>10
     DEF RequestInv, Typed, Awaits, Sync, NotReady, Withdraw, Fault, GateStays, effectors, world,
         counts
<1>11. CASE Evaluate
  BY <1>11
     DEF RequestInv, Typed, Awaits, Sync, Evaluate, Evidence, GateStays, disk, gate, effectors,
         world, counts
<1>12. CASE HoldForBody
  BY <1>12
     DEF RequestInv, Typed, Awaits, Sync, HoldForBody, Withdraw, Fault, GateStays, effectors,
         world, counts
<1>13. CASE HoldForAck
  BY <1>13 DEF RequestInv, Typed, Awaits, Sync, HoldForAck, Fault, effectors, world
<1>14. CASE BeginMaturation
  BY <1>14
     DEF RequestInv, Typed, Awaits, Sync, BeginMaturation, Acknowledged, disk, gate, world, counts
<1>15. CASE Activate
  BY <1>15 DEF RequestInv, Typed, Awaits, Sync, Activate, Fault, disk, gate, world, counts
<1>16. CASE WriteStage
  BY <1>16
     DEF RequestInv, Typed, Awaits, Sync, WriteStage, Embodied, Kept, Fault, GateStays, effectors,
         world, counts
<1>17. CASE ClearFiles
  BY <1>17
     DEF RequestInv, Typed, Awaits, Sync, ClearFiles, Fault, GateStays, effectors, world, counts
<1>18. CASE Unlock
  BY <1>18
     DEF RequestInv, Typed, Awaits, Sync, Unlock, Fault, GateStays, gate, effectors, world, counts
<1>19. CASE StopSeen
  BY <1>19
     DEF RequestInv, Typed, Awaits, Sync, StopSeen, Final, Developing, Fault, GateStays,
         effectors, world, counts
<1>20. CASE Cancelled
  BY <1>20
     DEF RequestInv, Typed, Awaits, Sync, Cancelled, Final, Developing, Fault, GateStays,
         effectors, world, counts
<1>21. CASE \E e \in BOOLEAN : SleepCompletes(e)
  BY <1>21
     DEF RequestInv, Typed, Awaits, Sync, SleepCompletes, Running, Undisturbed, disk, gate,
         effectors, counts
<1>22. CASE Freezes
  BY <1>22
     DEF RequestInv, Typed, Awaits, Sync, Freezes, Running, Change, Undisturbed, disk, gate,
         effectors, counts
<1>23. CASE ReadinessMoves
  BY <1>23
     DEF RequestInv, Typed, Awaits, Sync, ReadinessMoves, Running, Change, Undisturbed, disk,
         gate, effectors, counts
<1>24. CASE BodyMoves
  BY <1>24
     DEF RequestInv, Typed, Awaits, Sync, BodyMoves, Running, Change, Undisturbed, disk, gate,
         effectors, counts
<1>25. CASE Acknowledge
  BY <1>25
     DEF RequestInv, Typed, Awaits, Sync, Acknowledge, Undisturbed, world, gate, effectors, counts
<1>26. CASE UNCHANGED vars
  BY <1>26 DEF RequestInv, Typed, Awaits, Sync, vars, disk, gate, effectors, world, counts
<1> QED  BY <1>1, <1>2, <1>3, <1>4, <1>5, <1>6, <1>7, <1>8, <1>9, <1>10, <1>11, <1>12, <1>13,
            <1>14, <1>15, <1>16, <1>17, <1>18, <1>19, <1>20, <1>21, <1>22, <1>23, <1>24, <1>25,
            <1>26
            DEF Next, GateStep

LEMMA TypeStep ==
  ASSUME Typed, [Next]_vars
  PROVE  Typed'
<1>1. CASE Boot
  BY <1>1 DEF Typed, Stages, Cursors, NoCursor, Boot, BootStage, BootRequest, Blank, disk
<1>2. CASE Pin
  BY <1>2 DEF Typed, Stages, Cursors, NoCursor, Pin, gate, effectors, world, counts
<1>3. CASE Launch
  BY <1>3 DEF Typed, Stages, Cursors, NoCursor, Launch, disk, gate, effectors, world, counts
<1>4. CASE Crash
  BY <1>4 DEF Typed, Stages, Cursors, NoCursor, Crash, Fault, Blank, disk, world, counts
<1>5. CASE Tick
  BY <1>5
     DEF Typed, Stages, Cursors, NoCursor, Tick, Developing, GateStays, disk, effectors, world,
         counts
<1>6. CASE BeginBoot
  BY <1>6
     DEF Typed, Stages, Cursors, NoCursor, BeginBoot, Fault, GateStays, disk, effectors, world,
         counts
<1>7. CASE CountPage
  <2>1. scan.total \in Nat /\ scan.cursor \in Nat
    BY <1>7 DEF CountPage, Typed, Cursors
  <2>2. PageEnd \in Nat
    BY <2>1, MaturationAssumption DEF PageEnd, Typed
  <2>3. CountOf(scan.cursor, PageEnd) \in Nat
    BY <2>1, <2>2, RestsNat DEF CountOf, Rests
  <2>4. scan' \in [total : Nat, cursor : Cursors]
    BY <1>7, <2>1, <2>2, <2>3 DEF CountPage, Cursors
  <2> QED  BY <1>7, <2>4 DEF Typed, CountPage, GateStays, disk, world, counts
<1>8. CASE CountEnds
  <2>1. AnchoredAtTail \in Stages
    <3>1. Len(sleeps) \in Cursors
      BY DEF Typed, Cursors
    <3> QED  BY <3>1 DEF AnchoredAtTail, Typed, Stages
  <2>2. Counted \in Stages
    BY DEF Counted, Typed, Stages, Cursors
  <2>3. stage' \in Stages /\ stageFile' \in Stages
    BY <1>8, <2>1, <2>2 DEF CountEnds, Persist, Typed
  <2> QED  BY <1>8, <2>3 DEF Typed, CountEnds, GateStays, world, counts
<1>9. CASE CountFails
  BY <1>9
     DEF Typed, Stages, Cursors, NoCursor, CountFails, AfterCount, Fault, GateStays, disk, gate,
         effectors, world, counts
<1>10. CASE NotReady
  BY <1>10
     DEF Typed, Stages, Cursors, NoCursor, NotReady, Withdraw, Fault, GateStays, effectors, world,
         counts
<1>11. CASE Evaluate
  BY <1>11
     DEF Typed, Stages, Cursors, NoCursor, Evaluate, Evidence, GateStays, disk, gate, effectors,
         world, counts
<1>12. CASE HoldForBody
  BY <1>12
     DEF Typed, Stages, Cursors, NoCursor, HoldForBody, Withdraw, Fault, GateStays, effectors,
         world, counts
<1>13. CASE HoldForAck
  BY <1>13 DEF Typed, Stages, Cursors, NoCursor, HoldForAck, Fault, effectors, world
<1>14. CASE BeginMaturation
  BY <1>14
     DEF Typed, Stages, Cursors, NoCursor, BeginMaturation, Acknowledged, disk, gate, world,
         counts
<1>15. CASE Activate
  BY <1>15 DEF Typed, Stages, Cursors, NoCursor, Activate, Fault, disk, gate, world, counts
<1>16. CASE WriteStage
  BY <1>16
     DEF Typed, Stages, Cursors, NoCursor, WriteStage, Embodied, Kept, Fault, GateStays,
         effectors, world, counts
<1>17. CASE ClearFiles
  BY <1>17
     DEF Typed, Stages, Cursors, NoCursor, ClearFiles, Fault, GateStays, effectors, world, counts
<1>18. CASE Unlock
  BY <1>18
     DEF Typed, Stages, Cursors, NoCursor, Unlock, Fault, GateStays, gate, effectors, world,
         counts
<1>19. CASE StopSeen
  BY <1>19
     DEF Typed, Stages, Cursors, NoCursor, StopSeen, Final, Developing, Fault, GateStays,
         effectors, world, counts
<1>20. CASE Cancelled
  BY <1>20
     DEF Typed, Stages, Cursors, NoCursor, Cancelled, Final, Developing, Fault, GateStays,
         effectors, world, counts
<1>21. CASE \E e \in BOOLEAN : SleepCompletes(e)
  BY <1>21
     DEF Typed, Stages, Cursors, NoCursor, SleepCompletes, Running, Undisturbed, disk, gate,
         effectors, counts
<1>22. CASE Freezes
  BY <1>22
     DEF Typed, Stages, Cursors, NoCursor, Freezes, Running, Change, Undisturbed, disk, gate,
         effectors, counts
<1>23. CASE ReadinessMoves
  BY <1>23
     DEF Typed, Stages, Cursors, NoCursor, ReadinessMoves, Running, Change, Undisturbed, disk,
         gate, effectors, counts
<1>24. CASE BodyMoves
  BY <1>24
     DEF Typed, Stages, Cursors, NoCursor, BodyMoves, Running, Change, Undisturbed, disk, gate,
         effectors, counts
<1>25. CASE Acknowledge
  BY <1>25
     DEF Typed, Stages, Cursors, NoCursor, Acknowledge, Undisturbed, world, gate, effectors,
         counts
<1>26. CASE UNCHANGED vars
  BY <1>26 DEF Typed, Stages, Cursors, NoCursor, vars, disk, gate, effectors, world, counts
<1> QED  BY <1>1, <1>2, <1>3, <1>4, <1>5, <1>6, <1>7, <1>8, <1>9, <1>10, <1>11, <1>12, <1>13,
            <1>14, <1>15, <1>16, <1>17, <1>18, <1>19, <1>20, <1>21, <1>22, <1>23, <1>24, <1>25,
            <1>26
            DEF Next, GateStep

LEMMA CountStep ==
  ASSUME Typed, StageInv, CountInv, [Next]_vars
  PROVE  CountInv'
<1>1. CASE Boot
  BY <1>1
     DEF CountInv, Holds, Typed, Stages, Cursors, NoCursor, Awaits, Sync, Boot, BootStage,
         BootRequest, Blank, disk
<1>2. CASE Pin
  BY <1>2
     DEF CountInv, Holds, Typed, Stages, Cursors, NoCursor, Awaits, Sync, Pin, gate, effectors,
         world, counts
<1>3. CASE Launch
  BY <1>3
     DEF CountInv, Holds, Typed, Stages, Cursors, NoCursor, Awaits, Sync, Launch, disk, gate,
         effectors, world, counts
<1>4. CASE Crash
  BY <1>4
     DEF CountInv, Holds, Typed, Stages, Cursors, NoCursor, Awaits, Sync, Crash, Fault, Blank,
         disk, world, counts
<1>5. CASE Tick
  BY <1>5
     DEF CountInv, Holds, Typed, Stages, Cursors, NoCursor, Awaits, Sync, Tick, Developing,
         GateStays, disk, effectors, world, counts
<1>6. CASE BeginBoot
  BY <1>6
     DEF CountInv, Holds, Typed, Stages, Cursors, NoCursor, Awaits, Sync, BeginBoot, Fault,
         GateStays, disk, effectors, world, counts
<1>7. CASE CountPage
  <2>1. /\ stage.cursor # NoCursor /\ stage.anchor \in Nat /\ stage.cursor \in Nat
        /\ stage.anchor <= scan.cursor /\ stage.cursor <= scan.cursor
        /\ scan.cursor \in Nat /\ scan.cursor < Len(sleeps)
        /\ scan.total = Rests(sleeps, stage.anchor, scan.cursor)
    BY <1>7 DEF CountPage, CountInv, Holds, Typed, Stages, Cursors, NoCursor
  <2>2. PageEnd \in Nat /\ scan.cursor <= PageEnd /\ PageEnd <= Len(sleeps)
    BY <2>1, MaturationAssumption DEF PageEnd, Typed
  <2>3. CountOf(scan.cursor, PageEnd) = Rests(sleeps, scan.cursor, PageEnd)
    BY DEF CountOf, Rests
  <2>4. scan.total + CountOf(scan.cursor, PageEnd) = Rests(sleeps, stage.anchor, PageEnd)
    BY <2>1, <2>2, <2>3, RestsAdd
  <2>5. scan'.cursor = PageEnd /\ scan'.total = Rests(sleeps, stage.anchor, PageEnd)
    BY <1>7, <2>4 DEF CountPage
  <2>6. UNCHANGED <<stageFile, stage, sleeps, pc>> /\ pc \in {"count", "final"}
    BY <1>7 DEF CountPage, GateStays, disk, world
  <2> QED  BY <2>1, <2>2, <2>5, <2>6 DEF CountInv, Holds, NoCursor
<1>8. CASE CountEnds
  <2>1. sleeps' = sleeps /\ pc \in {"count", "final"} /\ pc' \in {"off", "readout"}
    BY <1>8 DEF CountEnds, AfterCount, GateStays, world
  <2>2. stage.stage = "development"
    BY <2>1 DEF StageInv, Awaits
  <2>3. CASE scan.cursor = NoCursor /\ Persist(AnchoredAtTail)
    <3>1. stage.cursor = NoCursor /\ stage.count = 0 /\ stageFile.cursor = NoCursor
      BY <2>1, <2>3 DEF CountInv, Holds, Typed, Stages, Cursors, NoCursor
    <3>2. /\ stage'.cursor = Len(sleeps) /\ stage'.anchor = Len(sleeps) /\ stage'.count = 0
          /\ stage'.stage = "development" /\ stageFile' \in {stageFile, stage'}
      BY <2>2, <2>3, <3>1 DEF Persist, AnchoredAtTail, Typed, Stages
    <3>3. Len(sleeps) \in Nat /\ Rests(sleeps, Len(sleeps), Len(sleeps)) = 0
      BY RestsNone DEF Typed
    <3> QED  BY <2>1, <3>1, <3>2, <3>3 DEF CountInv, Holds, NoCursor
  <2>4. CASE scan.cursor = Len(sleeps) /\ Persist(Counted)
    <3>1. /\ stage.cursor # NoCursor /\ stage.anchor \in Nat /\ stage.cursor \in Nat
          /\ stage.cursor <= scan.cursor /\ scan.cursor \in Nat
          /\ scan.total = Rests(sleeps, stage.anchor, scan.cursor)
      BY <2>1, <2>4 DEF CountInv, Holds, Typed, Stages, Cursors, NoCursor
    <3>2. /\ stage'.cursor = scan.cursor /\ stage'.anchor = stage.anchor
          /\ stage'.count = scan.total /\ stage'.stage = "development"
          /\ stageFile' \in {stageFile, stage'}
      BY <2>2, <2>4 DEF Persist, Counted, Typed, Stages
    <3>3. stage.anchor <= stage.cursor
      BY <3>1 DEF CountInv, Holds
    <3> QED  BY <2>1, <2>4, <3>1, <3>2, <3>3 DEF CountInv, Holds, NoCursor, Typed, Stages, Cursors
  <2> QED  BY <1>8, <2>3, <2>4 DEF CountEnds
<1>9. CASE CountFails
  <2>1. /\ UNCHANGED <<stage, sleeps>> /\ pc \in {"count", "final"} /\ pc' \in {"off", "readout"}
        /\ stageFile' \in {stageFile, stage}
    BY <1>9 DEF CountFails, AfterCount, GateStays, world
  <2>2. stage.stage = "development" /\ stage.cursor \in Cursors
    BY <2>1 DEF StageInv, Awaits, Typed, Stages
  <2> QED  BY <2>1, <2>2 DEF CountInv, Holds, Cursors, NoCursor
<1>10. CASE NotReady
  BY <1>10
     DEF CountInv, Holds, Typed, Stages, Cursors, NoCursor, Awaits, Sync, NotReady, Withdraw,
         Fault, GateStays, effectors, world, counts
<1>11. CASE Evaluate
  BY <1>11
     DEF CountInv, Holds, Typed, Stages, Cursors, NoCursor, Awaits, Sync, Evaluate, Evidence,
         GateStays, disk, gate, effectors, world, counts
<1>12. CASE HoldForBody
  BY <1>12
     DEF CountInv, Holds, Typed, Stages, Cursors, NoCursor, Awaits, Sync, HoldForBody, Withdraw,
         Fault, GateStays, effectors, world, counts
<1>13. CASE HoldForAck
  BY <1>13
     DEF CountInv, Holds, Typed, Stages, Cursors, NoCursor, Awaits, Sync, HoldForAck, Fault,
         effectors, world
<1>14. CASE BeginMaturation
  BY <1>14
     DEF CountInv, Holds, Typed, Stages, Cursors, NoCursor, Awaits, Sync, BeginMaturation,
         Acknowledged, disk, gate, world, counts
<1>15. CASE Activate
  BY <1>15
     DEF CountInv, Holds, Typed, Stages, Cursors, NoCursor, Awaits, Sync, Activate, Fault, disk,
         gate, world, counts
<1>16. CASE WriteStage
  <2>1. /\ sleeps' = sleeps /\ pc = "mature" /\ pc' \in {"clear", "wait"}
        /\ \/ stageFile' = Embodied /\ stage' = Embodied
           \/ stageFile' = stageFile /\ stage' = stage
    BY <1>16 DEF WriteStage, Kept, GateStays, world
  <2>2. /\ Embodied.cursor = stage.cursor /\ Embodied.anchor = stage.anchor
        /\ Embodied.count = stage.count /\ Embodied.stage = "embodied"
    BY DEF Embodied, Typed, Stages
  <2> QED  BY <2>1, <2>2 DEF CountInv, Holds, Typed, Stages, Cursors, NoCursor
<1>17. CASE ClearFiles
  BY <1>17
     DEF CountInv, Holds, Typed, Stages, Cursors, NoCursor, Awaits, Sync, ClearFiles, Fault,
         GateStays, effectors, world, counts
<1>18. CASE Unlock
  BY <1>18
     DEF CountInv, Holds, Typed, Stages, Cursors, NoCursor, Awaits, Sync, Unlock, Fault,
         GateStays, gate, effectors, world, counts
<1>19. CASE StopSeen
  BY <1>19
     DEF CountInv, Holds, Typed, Stages, Cursors, NoCursor, Awaits, Sync, StopSeen, Final,
         Developing, Fault, GateStays, effectors, world, counts
<1>20. CASE Cancelled
  BY <1>20
     DEF CountInv, Holds, Typed, Stages, Cursors, NoCursor, Awaits, Sync, Cancelled, Final,
         Developing, Fault, GateStays, effectors, world, counts
<1>21. CASE \E e \in BOOLEAN : SleepCompletes(e)
  <2>1. PICK e \in BOOLEAN : SleepCompletes(e)
    BY <1>21
  <2>2. sleeps' = Append(sleeps, e) /\ UNCHANGED <<stageFile, stage, scan, pc>>
    BY <2>1 DEF SleepCompletes, disk, Undisturbed, gate
  <2>3. \A a \in Nat, b \in Nat : b <= Len(sleeps) => Rests(sleeps', a, b) = Rests(sleeps, a, b)
    BY <2>2, RestsAppend DEF Typed
  <2>4. Len(sleeps') = Len(sleeps) + 1 /\ Len(sleeps) \in Nat
    BY <2>2 DEF Typed
  <2>6. Holds(stageFile)' /\ Holds(stage)'
    BY <2>2, <2>3, <2>4 DEF CountInv, Holds, Typed, Stages, Cursors, NoCursor
  <2> QED  BY <2>2, <2>3, <2>4, <2>6 DEF CountInv, Holds, Typed, Stages, Cursors, NoCursor
<1>22. CASE Freezes
  BY <1>22
     DEF CountInv, Holds, Typed, Stages, Cursors, NoCursor, Awaits, Sync, Freezes, Running,
         Change, Undisturbed, disk, gate, effectors, counts
<1>23. CASE ReadinessMoves
  BY <1>23
     DEF CountInv, Holds, Typed, Stages, Cursors, NoCursor, Awaits, Sync, ReadinessMoves, Running,
         Change, Undisturbed, disk, gate, effectors, counts
<1>24. CASE BodyMoves
  BY <1>24
     DEF CountInv, Holds, Typed, Stages, Cursors, NoCursor, Awaits, Sync, BodyMoves, Running,
         Change, Undisturbed, disk, gate, effectors, counts
<1>25. CASE Acknowledge
  BY <1>25
     DEF CountInv, Holds, Typed, Stages, Cursors, NoCursor, Awaits, Sync, Acknowledge,
         Undisturbed, world, gate, effectors, counts
<1>26. CASE UNCHANGED vars
  BY <1>26
     DEF CountInv, Holds, Typed, Stages, Cursors, NoCursor, Awaits, Sync, vars, disk, gate,
         effectors, world, counts
<1> QED  BY <1>1, <1>2, <1>3, <1>4, <1>5, <1>6, <1>7, <1>8, <1>9, <1>10, <1>11, <1>12, <1>13,
            <1>14, <1>15, <1>16, <1>17, <1>18, <1>19, <1>20, <1>21, <1>22, <1>23, <1>24, <1>25,
            <1>26
            DEF Next, GateStep

-----------------------------------------------------------------------------
(* The inductive invariant. *)
MaturationInv == Typed /\ StageInv /\ RequestInv /\ CountInv

LEMMA MaturationInit == Init => MaturationInv
<1> SUFFICES ASSUME Init PROVE MaturationInv
  OBVIOUS
<1>1. Typed
  BY MaturationAssumption DEF Init, Typed, Blank, Stages, Cursors, NoCursor
<1>2. StageInv /\ RequestInv
  BY DEF Init, StageInv, RequestInv, AtWork, Awaits, Sync, Blank
<1>3. CountInv
  BY DEF Init, CountInv, Holds, Blank, NoCursor
<1> QED  BY <1>1, <1>2, <1>3 DEF MaturationInv

LEMMA Inductive == Spec => []MaturationInv
<1>1. MaturationInv /\ [Next]_vars => MaturationInv'
  BY TypeStep, StageStep, RequestStep, CountStep DEF MaturationInv
<1> QED  BY MaturationInit, <1>1, PTL DEF Spec

(* The switches, and what the bounds bound. *)
Limits ==
  /\ locus \in {"none", "locked", "open"}
  /\ requestFile \in Nat /\ ackFile \in Nat /\ request \in Nat
  /\ written \in BOOLEAN /\ anchored \in BOOLEAN /\ voiced \in BOOLEAN /\ bodied \in BOOLEAN
  /\ frozen \in BOOLEAN /\ ready \in BOOLEAN /\ reachable \in BOOLEAN
  /\ issued \in 0 .. MaxRequests /\ atBoot \in 0 .. issued /\ Len(sleeps) <= MaxSleeps
  /\ faults \in 0 .. MaxFaults /\ changes \in 0 .. MaxChanges

LEMMA LimitsStep ==
  ASSUME Typed, Limits, [Next]_vars
  PROVE  Limits'
<1>1. Fault => faults' \in 0 .. MaxFaults
  BY MaturationAssumption DEF Fault, Limits
<1>2. Change => changes' \in 0 .. MaxChanges
  BY MaturationAssumption DEF Change, Limits
<1>3. CASE GateStep
  <2>1. /\ Fault \/ UNCHANGED faults
        /\ UNCHANGED <<frozen, ready, reachable, changes, sleeps, atBoot>>
    BY <1>3
       DEF GateStep, Tick, BeginBoot, CountPage, CountEnds, Persist, CountFails, NotReady,
           Evaluate, Withdraw,
                HoldForBody, HoldForAck, BeginMaturation, Activate, WriteStage, ClearFiles, Unlock, GateStays,
                world, counts
  <2>2. /\ locus' \in {locus, "open"} /\ anchored' \in BOOLEAN
        /\ issued' = issued \/ (issued < MaxRequests /\ issued' = issued + 1)
    BY <1>3
       DEF GateStep, Tick, BeginBoot, CountPage, CountEnds, Persist, CountFails, NotReady,
           Evaluate,
                HoldForBody, HoldForAck, BeginMaturation, Activate, WriteStage, ClearFiles, Unlock, GateStays,
                disk, gate, counts, Limits
  <2>3. written' \in BOOLEAN /\ voiced' \in BOOLEAN /\ bodied' \in BOOLEAN
    BY <1>3
       DEF GateStep, Tick, BeginBoot, CountPage, CountEnds, Persist, CountFails, NotReady,
           Evaluate,
                HoldForBody, HoldForAck, BeginMaturation, Activate, WriteStage, ClearFiles, Unlock, GateStays,
                gate, effectors, Limits
  <2>4. /\ requestFile' \in {requestFile, 0, issued'} /\ ackFile' \in {ackFile, 0}
        /\ request' \in {request, 0, issued'}
    BY <1>3
       DEF GateStep, Tick, BeginBoot, CountPage, CountEnds, CountFails, NotReady, Evaluate,
           Withdraw,
                HoldForBody, HoldForAck, BeginMaturation, Activate, WriteStage, ClearFiles, Unlock, disk, gate
  <2>5. issued \in 0 .. MaxRequests /\ issued' \in 0 .. MaxRequests /\ issued <= issued'
    BY <2>2, MaturationAssumption DEF Limits
  <2>6. requestFile' \in Nat /\ ackFile' \in Nat /\ request' \in Nat
    BY <2>4, <2>5 DEF Limits
  <2>7. atBoot' \in 0 .. issued'
    BY <2>1, <2>5 DEF Limits
  <2> QED  BY <1>1, <2>1, <2>2, <2>3, <2>5, <2>6, <2>7 DEF Limits
<1>4. CASE Boot
  <2>1. voiced' \in BOOLEAN /\ bodied' \in BOOLEAN
    BY <1>4, Zenon DEF Boot
  <2>2. /\ atBoot' = issued /\ written' = FALSE /\ anchored' = FALSE /\ frozen' = FALSE
        /\ request' = 0
        /\ UNCHANGED <<locus, requestFile, ackFile, ready, reachable, sleeps, issued, faults,
                       changes>>
    BY <1>4 DEF Boot, BootRequest, disk
  <2>3. issued \in Nat /\ issued \in 0 .. issued
    BY MaturationAssumption DEF Limits
  <2>4. written' \in BOOLEAN /\ anchored' \in BOOLEAN /\ frozen' \in BOOLEAN
    BY <2>2
  <2> QED  BY <2>1, <2>2, <2>3, <2>4 DEF Limits
<1>5. CASE Pin \/ Launch \/ Crash \/ StopSeen \/ Cancelled \/ Acknowledge \/ UNCHANGED vars
  <2>1. /\ Fault \/ UNCHANGED faults
        /\ locus' \in {locus, "locked"}
        /\ request' \in {request, 0} /\ requestFile' = requestFile /\ ackFile' \in {ackFile, requestFile}
        /\ voiced' = voiced \/ voiced' = FALSE
        /\ bodied' = bodied \/ bodied' = FALSE
        /\ UNCHANGED <<written, anchored, frozen, ready, reachable, sleeps, issued, atBoot,
                       changes>>
    BY <1>5
       DEF Pin, Launch, Crash, StopSeen, Cancelled, Final, Acknowledge, Undisturbed, GateStays,
                disk, gate, effectors, world, counts, vars
  <2>2. voiced' \in BOOLEAN /\ bodied' \in BOOLEAN
    BY <2>1 DEF Limits
  <2> QED  BY <1>1, <2>1, <2>2 DEF Limits
<1>6. CASE Freezes \/ ReadinessMoves \/ BodyMoves
  <2>1. frozen' \in BOOLEAN /\ ready' \in BOOLEAN /\ reachable' \in BOOLEAN
    BY <1>6, Zenon DEF Freezes, ReadinessMoves, BodyMoves, Limits
  <2>2. /\ Change \/ UNCHANGED changes
        /\ UNCHANGED <<disk, request, written, anchored, voiced, bodied, sleeps, issued, atBoot,
                       faults>>
    BY <1>6 DEF Freezes, ReadinessMoves, BodyMoves, Undisturbed, disk, gate, effectors, counts
  <2> QED  BY <1>2, <2>1, <2>2 DEF Limits, disk
<1>7. ASSUME NEW e \in BOOLEAN, SleepCompletes(e) PROVE Limits'
  <2>1. Len(sleeps') <= MaxSleeps
    BY <1>7, MaturationAssumption DEF SleepCompletes, Typed
  <2>2. UNCHANGED <<disk, request, written, anchored, voiced, bodied, frozen, ready, reachable,
                    issued, atBoot, faults, changes>>
    BY <1>7 DEF SleepCompletes, Undisturbed, disk, gate, effectors, counts
  <2> QED  BY <2>1, <2>2 DEF Limits, disk
<1> QED  BY <1>3, <1>4, <1>5, <1>6, <1>7 DEF Next

(* MaturationGateRunner: the gate, what it leaves on disk and the world *)
(* around it stay well typed.                                           *)
THEOREM MaturationTypeCorrect == Spec => []TypeOK
<1>1. Init => Limits
  <2> SUFFICES ASSUME Init PROVE Limits
    OBVIOUS
  <2>1. Len(<<>>) = 0 /\ {MaxRequests, MaxSleeps, MaxFaults, MaxChanges} \subseteq Nat
    BY MaturationAssumption
  <2>2. /\ locus \in {"none", "locked", "open"}
        /\ written \in BOOLEAN /\ anchored \in BOOLEAN /\ voiced \in BOOLEAN /\ bodied \in BOOLEAN
        /\ frozen \in BOOLEAN /\ ready \in BOOLEAN /\ reachable \in BOOLEAN
    BY DEF Init
  <2>3. issued = 0 /\ atBoot = 0 /\ Len(sleeps) = 0 /\ faults = 0 /\ changes = 0
        /\ requestFile = 0 /\ ackFile = 0 /\ request = 0
    BY <2>1 DEF Init
  <2> QED  BY <2>1, <2>2, <2>3 DEF Limits
<1>2. MaturationInv /\ Limits /\ [Next]_vars => Limits'
  BY LimitsStep DEF MaturationInv
<1>3. MaturationInv /\ Limits => TypeOK
  BY DEF MaturationInv, Typed, StageInv, Limits, TypeOK
<1> QED  BY <1>1, <1>2, <1>3, Inductive, PTL DEF Spec

(* _count_new_sleeps, _persist_if_changed: killed, cut off or failing at   *)
(* any point, with pages of any size, the gate counts every finished rest  *)
(* between anchor and cursor exactly once.                                 *)
THEOREM RestsCounted == Spec => []SleepsCountedOnce
<1>1. MaturationInv => SleepsCountedOnce
  <2> SUFFICES ASSUME MaturationInv PROVE SleepsCountedOnce
    OBVIOUS
  <2>1. ASSUME NEW r, Holds(r) PROVE CountedOnce(r)
    BY <2>1 DEF Holds, CountedOnce, FinishedRests, Rests
  <2> QED  BY <2>1 DEF MaturationInv, CountInv, SleepsCountedOnce
<1> QED  BY Inductive, <1>1, PTL

(* _do_maturation: the lock comes off the locus after the stage is on disk *)
(* and never before.                                                       *)
THEOREM DevelopingConfined == Spec => []ConfinedWhileDeveloping
<1>1. MaturationInv => ConfinedWhileDeveloping
  BY DEF MaturationInv, StageInv, ConfinedWhileDeveloping, AtWork, Awaits, Sync
<1> QED  BY Inductive, <1>1, PTL

-----------------------------------------------------------------------------
(* What a step may not do. *)

(* The stage file is written by counts, by maturation and by a stop.       *)
LEMMA StageFileKept ==
  ASSUME [Next]_vars, ~CountEnds, ~CountFails, ~WriteStage, ~StopSeen, ~Cancelled
  PROVE  stageFile' = stageFile
BY DEF Next, GateStep, Boot, Pin, Launch, Crash, Tick, BeginBoot, CountPage, NotReady, Evaluate, HoldForBody, HoldForAck, BeginMaturation, Activate, ClearFiles, Unlock,
  SleepCompletes, Freezes, ReadinessMoves, BodyMoves, Acknowledge, disk, vars

(* The gate writes a stage other than embodied only while the one on disk  *)
(* is not embodied.                                                        *)
LEMMA StageFileStep ==
  ASSUME MaturationInv, [Next]_vars
  PROVE  /\ stageFile.stage = "embodied" => stageFile'.stage = "embodied"
         /\ Matures => WriteStage
<1>1. CASE CountEnds
  <2>1. stage.stage = "development" /\ stageFile.stage # "embodied"
    BY <1>1 DEF CountEnds, MaturationInv, StageInv, Awaits
  <2>2. stage'.stage = "development" /\ stageFile' \in {stageFile, stage'}
    BY <1>1, <2>1 DEF CountEnds, Persist, AnchoredAtTail, Counted, MaturationInv, Typed, Stages
  <2> QED  BY <2>1, <2>2 DEF Matures
<1>5. CASE CountFails
  <2>1. stage.stage = "development" /\ stageFile.stage # "embodied"
    BY <1>5 DEF CountFails, MaturationInv, StageInv, Awaits
  <2>2. stageFile' \in {stageFile, stage}
    BY <1>5 DEF CountFails
  <2> QED  BY <2>1, <2>2 DEF Matures
<1>2. CASE WriteStage
  <2>1. Embodied.stage = "embodied"
    BY DEF Embodied, MaturationInv, Typed, Stages
  <2> QED  BY <1>2, <2>1 DEF WriteStage
<1>3. CASE StopSeen \/ Cancelled
  <2>1. stageFile' = stageFile \/ (stageFile' = stage /\ stage.stage = "development" /\ pc # "off")
    BY <1>3 DEF StopSeen, Cancelled, Final, Developing, Awaits
  <2> QED  BY <2>1 DEF Matures, MaturationInv, StageInv
<1>4. CASE ~CountEnds /\ ~CountFails /\ ~WriteStage /\ ~StopSeen /\ ~Cancelled
  BY <1>4, StageFileKept DEF Matures
<1> QED  BY <1>1, <1>2, <1>3, <1>4, <1>5

(* advance_to_embodied, _final_lived_time: no write of the gate brings a   *)
(* matured entity back into development.                                   *)
THEOREM MaturityStays == Spec => NeverRegresses
<1>1. MaturationInv /\ [Next]_vars =>
        [stageFile.stage = "embodied" => stageFile'.stage = "embodied"]_vars
  BY StageFileStep
<1> QED  BY Inductive, <1>1, PTL DEF Spec, NeverRegresses

(* _evaluate_once, is_acknowledged: an entity matures after enough rests   *)
(* that ended and, where an operator must agree, on the answer to a        *)
(* request of this very process.                                           *)
THEOREM MaturesOnEvidence == Spec => MaturesAsAsked
<1>1. ASSUME MaturationInv, [Next]_vars, Matures
      PROVE  /\ FinishedRests(0, Len(sleeps)) >= MinSleeps
             /\ NeedsAck => ackFile > atBoot
  <2>1. pc = "mature"
    BY <1>1, StageFileStep DEF WriteStage
  <2>2. NeedsAck => ackFile > atBoot
    BY <1>1, <2>1 DEF MaturationInv, RequestInv
  <2>3. stage.count >= MinSleeps /\ Holds(stage) /\ stage \in Stages /\ Len(sleeps) \in Nat
    BY <1>1, <2>1 DEF MaturationInv, CountInv, Typed
  <2>4. FinishedRests(0, Len(sleeps)) = Rests(sleeps, 0, Len(sleeps))
    BY DEF FinishedRests, Rests
  <2>5. CASE stage.cursor = NoCursor
    <3>1. Rests(sleeps, 0, Len(sleeps)) \in Nat
      BY <2>3, RestsNat
    <3> QED  BY <2>2, <2>3, <2>4, <2>5, <3>1, MaturationAssumption DEF Holds
  <2>6. CASE stage.cursor # NoCursor
    <3> DEFINE a == stage.anchor
               c == stage.cursor
               n == Len(sleeps)
    <3>1. a \in Nat /\ c \in Nat /\ a <= c /\ c <= n /\ stage.count = Rests(sleeps, a, c)
      BY <2>3, <2>6 DEF Holds, Stages, Cursors
    <3>2. Rests(sleeps, 0, n) = Rests(sleeps, 0, a) + Rests(sleeps, a, n)
      BY <2>3, <3>1, RestsAdd
    <3>3. Rests(sleeps, a, n) = Rests(sleeps, a, c) + Rests(sleeps, c, n)
      BY <2>3, <3>1, RestsAdd
    <3>4. /\ Rests(sleeps, 0, a) \in Nat /\ Rests(sleeps, a, c) \in Nat
          /\ Rests(sleeps, c, n) \in Nat
      BY <2>3, <3>1, RestsNat
    <3> HIDE DEF a, c, n
    <3>5. Rests(sleeps, 0, n) >= stage.count /\ Rests(sleeps, 0, n) \in Nat
      BY <3>1, <3>2, <3>3, <3>4
    <3> QED  BY <2>2, <2>3, <2>4, <3>1, <3>4, <3>5, MaturationAssumption DEF n
  <2> QED  BY <2>5, <2>6
<1>2. MaturationInv /\ [Next]_vars =>
        [Matures => /\ FinishedRests(0, Len(sleeps)) >= MinSleeps
                    /\ NeedsAck => ackFile > atBoot]_vars
  BY <1>1
<1> QED  BY Inductive, <1>2, PTL DEF Spec, MaturesAsAsked
-----------------------------------------------------------------------------
(* Sleep. *)

(* The senses.  A sleep, and nothing else, remembers where they were; while *)
(* the phase pins the locus of an entity with a feed, it is never dark.     *)
SensesInv ==
  /\ Locked <=> pre # "none"
  /\ Pinned => desired = "on" /\ wanted = "on" /\ pre # "off"
  /\ ~darkened => (IF Locked THEN pre ELSE desired) = wanted
  /\ failures = 0 /\ (~Locked \/ st = "published") => told = "awake"

(* What of the state cycle stands where. *)
CycleInv ==
  /\ proc = "down" => st = "none" /\ phase = "awake" /\ awake = 0 /\ spent = 0
  /\ resume # 0 => (st = "pending" /\ held) \/ proc \in {"restarting", "stopping"}
  /\ st = "waking" => held
  /\ Alive /\ phase = "resting" /\ ~(held /\ st = "asleep") => awake = 0
  /\ marked => ckpt.phase = "resting"

(* While no checkpoint was stale at the end of a process and no last_good    *)
(* when it was restored, what the module and the checkpoint say has been    *)
(* slept has been, and what they say of the time awake was spent since the  *)
(* last sleep.                                                              *)
CarriedInv ==
  ~misled =>
    /\ awake <= stretch
    /\ phase = "resting" => spent <= rested /\ rested <= Rest
    /\ held /\ st = "asleep" => elapsed <= rested
    /\ held /\ st = "pending" => resume <= rested /\ (rested > Rest => resume = 0)
    /\ st = "waking" => rested > Rest /\ awake = 0
    /\ proc \in {"final", "stopping", "down"} => ~StretchStale(ckpt) /\ ~RestStale(ckpt)

SleepInv ==
  SleepTypeOK /\ SensesInv /\ CycleInv /\ CarriedInv /\ RestedInFull /\ AwakeOutsideSleep

-----------------------------------------------------------------------------
(* Types. *)

LEMMA LeastIs ==
  ASSUME NEW a \in Int, NEW b \in Int
  PROVE  Least(a, b) \in {a, b} /\ Least(a, b) <= a /\ Least(a, b) <= b
BY DEF Least

LEMMA UnitIs == Unit \in {0, 1}
BY DEF Unit

LEMMA Numbers == Awake \in Nat /\ Rest \in Nat /\ Awake > 0 /\ Rest > 0
BY SleepAssumption

SleepFlags ==
  /\ feed \in BOOLEAN /\ developing \in BOOLEAN /\ wired \in BOOLEAN
  /\ proc \in {"up", "restarting", "final", "stopping", "down"}
  /\ st \in {"none", "pending", "asleep", "waking", "closing", "published"}
  /\ held \in BOOLEAN /\ result \in {"ok", "error", "cut"}
  /\ desired \in {"on", "off"} /\ wanted \in {"on", "off"} /\ pre \in {"on", "off", "none"}
  /\ marked \in BOOLEAN
  /\ told \in {"awake", "asleep"} /\ darkened \in BOOLEAN /\ misled \in BOOLEAN

SleepCounts ==
  /\ phase \in {"awake", "resting"} /\ awake \in 0 .. Awake /\ spent \in 0 .. Rest
  /\ elapsed \in 0 .. Rest /\ resume \in 0 .. Rest
  /\ ckpt \in Entries \cup {NoEntry} /\ lastGood \in Entries \cup {NoEntry}
  /\ failures \in 0 .. MaxTroubles /\ cuts \in 0 .. MaxTroubles
  /\ stretch \in 0 .. Awake /\ rested \in 0 .. Rest + 1

LEMMA SleepTypeParts == SleepTypeOK <=> SleepFlags /\ SleepCounts
BY DEF SleepTypeOK, SleepFlags, SleepCounts

(* What every way into a sleep, and a poll that starts none, does. *)
LEMMA PollsAndStarts ==
  ASSUME SleepFlags, SleepCounts, Poll \/ Fatigue \/ RestRequest \/ WelfareRequest
  PROVE  /\ Alive
         /\ UNCHANGED <<config, proc, result, senses, files, told, bounds, misled>>
         /\ \/ UNCHANGED <<st, held, resume>>
            \/ st = "none" /\ st' = "pending" /\ held' \in BOOLEAN /\ resume' \in {0, spent, resume}
         /\ elapsed' \in 0 .. Rest
         /\ \/ phase' = "awake" /\ awake' = 0 /\ spent' = 0
            \/ phase' = phase /\ spent' = spent /\ awake' \in {awake, awake + 1} /\ awake' \in 0 .. Awake
         /\ stretch' \in 0 .. Awake /\ stretch' \in {stretch, stretch + 1}
         /\ rested' \in 0 .. Rest + 1 /\ rested' \in {rested, rested + 1}
<1>1. CASE Poll
  <2>1. /\ Alive /\ UNCHANGED <<config, proc, senses, files, told, bounds, misled>>
        /\ stretch' \in 0 .. Awake /\ stretch' \in {stretch, stretch + 1}
        /\ rested' \in 0 .. Rest + 1 /\ rested' \in {rested, rested + 1}
    <3>1. Pass
      BY <1>1 DEF Poll, PollQuiet, PollRest, PollResume, PollBackstop
    <3>2. stretch' \in {stretch, Least(stretch + Unit, Awake)}
      BY <3>1 DEF Pass
    <3>3. \/ rested' = rested
          \/ rested < Rest /\ rested' = rested + Unit
      BY <3>1 DEF Pass
    <3>4. Alive /\ UNCHANGED <<config, proc, senses, files, told, bounds, misled>>
      BY <3>1 DEF Pass
    <3> QED  BY <3>2, <3>3, <3>4, Numbers, UnitIs DEF Least, SleepCounts
  <2>2. AwakeTicked \in {awake, awake + 1} /\ AwakeTicked \in 0 .. Awake
    BY Numbers, UnitIs DEF AwakeTicked, Least, SleepCounts
  <2>3. \/ phase' = "awake" /\ awake' = 0 /\ spent' = 0
        \/ phase' = phase /\ spent' = spent /\ awake' \in {awake, awake + 1} /\ awake' \in 0 .. Awake
    BY <1>1, <2>2 DEF Poll, PollQuiet, PollRest, PollResume, PollBackstop, CycleTick, CycleReset
  <2>4. /\ UNCHANGED result
        /\ \/ UNCHANGED <<st, held, resume>>
           \/ st = "none" /\ st' = "pending" /\ held' \in BOOLEAN /\ resume' \in {0, spent, resume}
        /\ elapsed' \in 0 .. Rest
    <3>1. CASE PollQuiet
      <4>1. elapsed' \in {elapsed, Least(elapsed + Unit, Rest)}
            /\ UNCHANGED <<st, held, result, resume>>
        BY <3>1 DEF PollQuiet
      <4> QED  BY <4>1, Numbers, UnitIs DEF Least, SleepCounts
    <3>2. CASE PollRest \/ PollResume \/ PollBackstop
      BY <3>2 DEF PollRest, PollResume, PollBackstop, Start, Busy, SleepCounts
    <3> QED  BY <1>1, <3>1, <3>2 DEF Poll
  <2> QED  BY <2>1, <2>3, <2>4
<1>2. CASE Fatigue \/ RestRequest \/ WelfareRequest
  <2>1. PICK h \in BOOLEAN : Asked(h)
    BY <1>2 DEF Fatigue, RestRequest, WelfareRequest, InDevelopment, SleepFlags
  <2> QED
    BY <2>1 DEF Asked, Start, Busy, cycle, history, SleepCounts
<1> QED  BY <1>1, <1>2

LEMMA SleepFlagsStep ==
  ASSUME SleepFlags, SleepCounts, [SleepNext]_sleepVars
  PROVE  SleepFlags'
<1>1. CASE Poll \/ Fatigue \/ RestRequest \/ WelfareRequest
  BY <1>1, PollsAndStarts DEF SleepFlags, config, senses, files, rolling
<1>2. CASE Begin \/ BeginFails
  BY <1>2 DEF Begin, BeginFails, Suspend, Written, PastCheckpoint, SleepFlags, config, files, rolling
<1>3. CASE HoldEnds \/ Wake \/ Fail
  BY <1>3 DEF HoldEnds, Wake, Fail, PastCheckpoint, SleepFlags, config, files, rolling, senses
<1>4. CASE Publish \/ PublishFails \/ End
  BY <1>4
     DEF Publish, PublishFails, End, Forget, Written, SleepFlags, config, files, rolling, senses, history
<1>5. CASE Restart \/ Shutdown
  BY <1>5 DEF Restart, Shutdown, Cancel, SleepFlags, config, files, rolling, senses, history
<1>12. CASE Incident \/ IncidentOver
  BY <1>12 DEF Incident, IncidentOver, SleepFlags, config, rolling, senses, sleep, history
<1>13. CASE Rebuild \/ RebuildOther
  <2>1. UNCHANGED <<config, st, held, result, senses, rolling, told>> /\ proc' = "up"
    BY <1>13 DEF Rebuild, RebuildOther, sleep
  <2>2. misled' \in BOOLEAN
    <3>1. CASE UNCHANGED misled
      BY <3>1 DEF SleepFlags
    <3>2. CASE RestoreLastGood
      BY <3>2, Zenon DEF RestoreLastGood
    <3> QED  BY <1>13, <3>1, <3>2 DEF Rebuild, RebuildOther
  <2> QED  BY <2>1, <2>2 DEF SleepFlags, config, senses, rolling
<1>6. CASE WireProbe \/ Mature \/ (\E l \in {"on", "off"} : MoveLocus(l))
  <2>1. CASE WireProbe
    BY <2>1 DEF WireProbe, SleepFlags, files, rolling, senses, history, sleep
  <2>2. CASE Mature
    <3>1. desired' \in {"on", desired} /\ wanted' \in {"on", wanted} /\ (darkened' = FALSE \/ darkened' = darkened)
      BY <2>2 DEF Mature, PerceiveFeed
    <3>2. developing' \in BOOLEAN /\ UNCHANGED <<feed, wired, proc, sleep, pre, files, told,
                                                 history>>
      BY <2>2 DEF Mature
    <3>3. desired' \in {"on", "off"} /\ wanted' \in {"on", "off"} /\ darkened' \in BOOLEAN
      BY <3>1 DEF SleepFlags
    <3> QED  BY <3>2, <3>3 DEF SleepFlags, files, rolling, history, sleep
  <2>3. ASSUME NEW l \in {"on", "off"}, MoveLocus(l) PROVE SleepFlags'
    <3>1. desired' = l /\ wanted' \in {l, wanted} /\ (darkened' = FALSE \/ darkened' = darkened)
      BY <2>3 DEF MoveLocus
    <3>2. UNCHANGED <<config, proc, sleep, pre, files, told, history>>
      BY <2>3 DEF MoveLocus
    <3>3. desired' \in {"on", "off"} /\ wanted' \in {"on", "off"} /\ darkened' \in BOOLEAN
      BY <3>1 DEF SleepFlags
    <3> QED  BY <3>2, <3>3 DEF SleepFlags, config, files, rolling, history, sleep
  <2> QED  BY <1>6, <2>1, <2>2, <2>3
<1>7. CASE Checkpoint \/ SyncRest
  BY <1>7 DEF Checkpoint, SyncRest, SyncWritten, SleepFlags, config, senses, history, sleep
<1>8. CASE FinalCheckpoint
  <2>1. proc' = "final" /\ UNCHANGED <<config, sleep, senses, told>>
    BY <1>8 DEF FinalCheckpoint
  <2>2. marked' \in BOOLEAN
    BY <1>8 DEF FinalCheckpoint, SyncWritten, rolling, SleepFlags
  <2>3. misled' \in BOOLEAN
    BY <1>8, Zenon DEF FinalCheckpoint
  <2> QED  BY <2>1, <2>2, <2>3 DEF SleepFlags, config, senses, sleep
<1>9. CASE Exit \/ CrashProcess
  BY <1>9 DEF Exit, CrashProcess, Gone, StretchStale, RestStale, SleepFlags
<1>10. CASE BootProcess
  <2>1. desired' \in {"on", desired} /\ wanted' \in {"on", wanted} /\ (darkened' = FALSE \/ darkened' = darkened)
    BY <1>10 DEF BootProcess, PerceiveFeed
  <2>2. proc' = "up" /\ UNCHANGED <<config, sleep, pre, files, told, history>>
    BY <1>10 DEF BootProcess
  <2>3. desired' \in {"on", "off"} /\ wanted' \in {"on", "off"} /\ darkened' \in BOOLEAN
    BY <2>1 DEF SleepFlags
  <2> QED  BY <2>2, <2>3 DEF SleepFlags, config, files, rolling, history, sleep
<1>11. CASE UNCHANGED sleepVars
  BY <1>11 DEF sleepVars, SleepFlags, config, files, rolling, senses, sleep, history
<1> QED  BY <1>1, <1>2, <1>3, <1>4, <1>5, <1>6, <1>7, <1>8, <1>9, <1>10, <1>11, <1>12, <1>13
         DEF SleepNext, Pipeline, Lifecycle

(* What a rest and an awake stretch become in the checkpoint, and back. *)
LEMMA ExportIsEntry ==
  ASSUME SleepFlags, SleepCounts
  PROVE  /\ Export \in Entries /\ [Export EXCEPT !.awake = 0] \in Entries
         /\ Export.phase = phase /\ [Export EXCEPT !.awake = 0].phase = phase
         /\ phase = "resting" =>
              /\ Export.spent = IF st = "asleep" /\ held THEN elapsed ELSE spent
              /\ Export.awake = 0
              /\ [Export EXCEPT !.awake = 0] = Export
         /\ phase = "awake" =>
              /\ Export.spent = 0 /\ Export.awake = awake
              /\ [Export EXCEPT !.awake = 0].awake = 0
<1>1. CASE phase = "resting"
  <2>1. Export = [phase |-> "resting", awake |-> 0, spent |-> IF st = "asleep" /\ held THEN elapsed ELSE spent]
    BY <1>1 DEF Export
  <2> QED  BY <1>1, <2>1 DEF Entries, SleepCounts
<1>2. CASE phase = "awake"
  <2>1. Export = [phase |-> "awake", awake |-> awake, spent |-> 0]
    BY <1>2 DEF Export
  <2>2. [Export EXCEPT !.awake = 0] = [phase |-> "awake", awake |-> 0, spent |-> 0]
    BY <2>1
  <2>3. 0 \in 0 .. Awake
    BY Numbers
  <2> QED  BY <1>2, <2>1, <2>2, <2>3 DEF Entries, SleepCounts
<1> QED  BY <1>1, <1>2 DEF SleepCounts

LEMMA RestoreKeeps ==
  ASSUME NEW e \in Entries, Restore(e)
  PROVE  /\ phase' \in {"awake", "resting"} /\ awake' \in 0 .. Awake /\ spent' \in 0 .. Rest
         /\ phase' = "resting" => e.phase = "resting" /\ awake' = 0 /\ spent' = e.spent
         /\ phase' = "awake" => awake' = e.awake /\ spent' = 0
         /\ awake' = 0 \/ (e.phase = "awake" /\ awake' = e.awake)
<1>1. /\ e.phase \in {"awake", "resting"} /\ e.awake \in 0 .. Awake /\ e.spent \in 0 .. Rest
      /\ e.phase = "resting" => e.awake = 0
  BY Numbers DEF Entries
<1> QED  BY <1>1, Numbers DEF Restore

(* What the supervisor's snapshot may hold of it. *)
LEMMA ExportsAreEntries ==
  ASSUME SleepFlags, SleepCounts
  PROVE  Exports \subseteq Entries
<1>1. Export \in Entries
  BY ExportIsEntry
<1>2. /\ Export.phase \in {"awake", "resting"} /\ Export.spent \in 0 .. Rest
      /\ Export.phase = "awake" => Export.spent = 0
  BY <1>1, Numbers DEF Entries
<1> DEFINE less == IF Export.spent = 0 THEN 0 ELSE Export.spent - 1
<1>3. less \in 0 .. Rest /\ (Export.phase = "awake" => less = 0)
  BY <1>2, Numbers
<1> HIDE DEF less
<1>4. [Export EXCEPT !.spent = less] \in Entries
  BY <1>1, <1>3 DEF Entries
<1>5. [Export EXCEPT !.spent = less]
      = [Export EXCEPT !.spent = IF @ = 0 THEN 0 ELSE @ - 1]
  BY <1>1 DEF less, Entries
<1> QED  BY <1>1, <1>4, <1>5 DEF Exports

LEMMA SleepCountsStep ==
  ASSUME SleepFlags, SleepCounts, [SleepNext]_sleepVars
  PROVE  SleepCounts'
<1>f. SleepFault => failures' \in 0 .. MaxTroubles /\ cuts' = cuts
  BY SleepAssumption DEF SleepFault, Bounded, SleepCounts
<1>c. ASSUME NEW k, Cutting(k) PROVE cuts' \in 0 .. MaxTroubles /\ failures' = failures
  BY <1>c, SleepAssumption DEF Cutting, Bounded, SleepCounts
<1>r. CycleReset => phase' = "awake" /\ awake' \in 0 .. Awake /\ spent' \in 0 .. Rest
  BY Numbers DEF CycleReset
<1>1. CASE Poll \/ Fatigue \/ RestRequest \/ WelfareRequest
  <2>1. resume' \in 0 .. Rest /\ phase' \in {"awake", "resting"} /\ awake' \in 0 .. Awake /\ spent' \in 0 .. Rest
    BY <1>1, PollsAndStarts, Numbers DEF SleepCounts
  <2>2. /\ UNCHANGED <<files, bounds>>
        /\ elapsed' \in 0 .. Rest /\ stretch' \in 0 .. Awake /\ rested' \in 0 .. Rest + 1
    BY <1>1, PollsAndStarts
  <2> QED  BY <2>1, <2>2 DEF SleepCounts, files, rolling, bounds
<1>2. CASE Begin \/ BeginFails
  <2>1. BeginRest /\ UNCHANGED <<files, stretch>>
    BY <1>2 DEF Begin, BeginFails
  <2>2. UNCHANGED bounds \/ SleepFault
    BY <1>2 DEF Begin, BeginFails
  <2>3. Least(resume, Rest) \in 0 .. Rest
    BY Numbers DEF Least, SleepCounts
  <2>4. elapsed' \in 0 .. Rest /\ resume' \in 0 .. Rest /\ rested' \in 0 .. Rest + 1
    BY <2>1, <2>3, Numbers DEF BeginRest, ResumeLeft, SleepCounts
  <2>5. phase' \in {"awake", "resting"} /\ awake' \in 0 .. Awake /\ spent' \in 0 .. Rest
    BY <1>2, <1>r, <2>3 DEF Begin, BeginFails, cycle, SleepCounts
  <2> QED  BY <1>f, <2>1, <2>2, <2>4, <2>5 DEF SleepCounts, files, rolling, bounds
<1>3. CASE HoldEnds \/ Wake \/ Fail
  <2>1. UNCHANGED <<elapsed, resume, files>>
    BY <1>3 DEF HoldEnds, Wake, Fail
  <2>2. UNCHANGED bounds \/ SleepFault
    BY <1>3 DEF HoldEnds, Wake, Fail
  <2>3. phase' \in {"awake", "resting"} /\ awake' \in 0 .. Awake /\ spent' \in 0 .. Rest
    BY <1>3, <1>r DEF HoldEnds, Wake, Fail, AfterSleep, cycle, SleepCounts
  <2>4. stretch' \in {stretch, 0} /\ rested' \in {rested, Rest + 1}
    BY <1>3 DEF HoldEnds, Wake, Fail
  <2> QED  BY <1>f, <2>1, <2>2, <2>3, <2>4, Numbers DEF SleepCounts, files, rolling, bounds
<1>4. CASE Publish \/ PublishFails \/ End
  <2>1. UNCHANGED <<resume, cycle, files, history>> /\ elapsed' \in {0, elapsed}
    BY <1>4 DEF Publish, PublishFails, End
  <2>2. UNCHANGED bounds \/ SleepFault
    BY <1>4 DEF Publish, PublishFails, End
  <2> QED  BY <1>f, <2>1, <2>2, Numbers DEF SleepCounts, files, rolling, bounds, cycle, history
<1>5. CASE Restart \/ Shutdown
  <2>1. UNCHANGED <<elapsed, resume, phase, awake, files, history>> /\ spent' \in {spent, elapsed}
    BY <1>5 DEF Restart, Shutdown, Cancel
  <2>2. UNCHANGED bounds \/ Cutting("restart")
    BY <1>5 DEF Restart, Shutdown
  <2> QED  BY <1>c, <2>1, <2>2 DEF SleepCounts, files, rolling, bounds, history
<1>6. CASE Rebuild \/ RebuildOther
  <2>1. /\ UNCHANGED <<elapsed, rolling, bounds, stretch, rested>> /\ resume' \in {0, resume}
        /\ lastGood' = NoEntry
        /\ Restore(Export) \/ (Restore(lastGood) /\ lastGood # NoEntry)
    BY <1>6 DEF Rebuild, RebuildOther, RestoreLastGood, IsPaused, sleep
  <2>2. phase' \in {"awake", "resting"} /\ awake' \in 0 .. Awake /\ spent' \in 0 .. Rest
    BY <2>1, ExportIsEntry, RestoreKeeps DEF SleepCounts
  <2> QED  BY <2>1, <2>2, Numbers DEF SleepCounts, rolling, bounds
<1>12. CASE Incident \/ IncidentOver
  <2>1. UNCHANGED <<sleep, cycle, rolling, history>>
    BY <1>12 DEF Incident, IncidentOver
  <2>2. lastGood' \in Entries \cup {NoEntry}
    BY <1>12, ExportsAreEntries DEF Incident, IncidentOver
  <2>3. UNCHANGED bounds \/ Cutting("restart")
    BY <1>12 DEF Incident, IncidentOver
  <2> QED  BY <1>c, <2>1, <2>2, <2>3 DEF SleepCounts, sleep, cycle, rolling, bounds, history
<1>7. CASE WireProbe \/ Mature \/ \E l \in {"on", "off"} : MoveLocus(l)
  BY <1>7 DEF WireProbe, Mature, MoveLocus, SleepCounts, files, rolling, bounds, history, cycle, sleep
<1>8. CASE Checkpoint \/ SyncRest \/ FinalCheckpoint
  <2>1. UNCHANGED <<sleep, cycle, stretch, rested>>
    BY <1>8 DEF Checkpoint, SyncRest, FinalCheckpoint, history
  <2>2. UNCHANGED bounds \/ Cutting("stop")
    BY <1>8 DEF Checkpoint, SyncRest, FinalCheckpoint
  <2>3. ckpt' \in {ckpt, Export, [Export EXCEPT !.awake = 0]} /\ lastGood' \in {lastGood, NoEntry}
    BY <1>8 DEF Checkpoint, SyncRest, FinalCheckpoint, SyncWritten, rolling
  <2> QED  BY <1>c, <2>1, <2>2, <2>3, ExportIsEntry DEF SleepCounts, bounds, sleep, cycle
<1>9. CASE Exit \/ CrashProcess
  <2>1. CycleReset /\ elapsed' = 0 /\ resume' = 0 /\ lastGood' = NoEntry
        /\ UNCHANGED <<ckpt, stretch, rested>>
    BY <1>9 DEF Exit, CrashProcess, Gone
  <2>2. UNCHANGED bounds \/ Cutting("crash")
    BY <1>9 DEF Exit, CrashProcess
  <2> QED  BY <1>c, <1>r, <2>1, <2>2, Numbers DEF SleepCounts, bounds
<1>10. CASE BootProcess
  <2>1. UNCHANGED <<sleep, files, bounds,
                    history>> /\ (UNCHANGED cycle \/ (ckpt # NoEntry /\ Restore(ckpt)))
    BY <1>10 DEF BootProcess
  <2>2. phase' \in {"awake", "resting"} /\ awake' \in 0 .. Awake /\ spent' \in 0 .. Rest
    BY <2>1, RestoreKeeps DEF SleepCounts, cycle
  <2> QED  BY <2>1, <2>2 DEF SleepCounts, sleep, files, rolling, bounds, history
<1>11. CASE UNCHANGED sleepVars
  BY <1>11 DEF sleepVars, SleepCounts, files, rolling, bounds, sleep, history, cycle
<1> QED  BY <1>1, <1>2, <1>3, <1>4, <1>5, <1>6, <1>7, <1>8, <1>9, <1>10, <1>11, <1>12
         DEF SleepNext, Pipeline, Lifecycle

-----------------------------------------------------------------------------
(* The senses. *)

LEMMA SensesStep ==
  ASSUME SleepFlags, SleepCounts, SensesInv, proc = "down" => st = "none", [SleepNext]_sleepVars
  PROVE  SensesInv'
<1>f. SleepFault => failures' # 0
  BY DEF SleepFault, SleepCounts
(* A step that leaves the senses and what was told alone. *)
<1>s. ASSUME UNCHANGED <<feed, developing, senses, failures>>, Locked' = Locked,
             failures = 0 /\ (~Locked \/ st' = "published") => told' = "awake"
      PROVE  SensesInv'
  BY <1>s DEF SensesInv, Pinned, senses
<1>1. CASE Poll \/ Fatigue \/ RestRequest \/ WelfareRequest
  <2>1. /\ UNCHANGED <<config, senses, told, bounds>>
        /\ st' = st \/ (st = "none" /\ st' = "pending")
    BY <1>1, PollsAndStarts
  <2>2. Locked' = Locked /\ (st' = "published" => st = "published")
    BY <2>1 DEF Locked
  <2> QED  BY <1>s, <2>1, <2>2 DEF SensesInv, config, bounds
<1>2. CASE Begin \/ BeginFails
  <2>1. ~Locked /\ Locked' /\ st' # "published"
    BY <1>2 DEF Begin, BeginFails, Locked
  <2>2. UNCHANGED <<config, wanted, darkened>> /\ pre' = desired /\ desired' = Written("off")
    BY <1>2, <2>1 DEF Begin, BeginFails, Suspend, SensesInv
  <2> QED  BY <2>1, <2>2 DEF SensesInv, Pinned, Written, config, SleepFlags
<1>3. CASE HoldEnds \/ Wake \/ Fail
  <2>1. UNCHANGED <<config, senses, told>> /\ (SleepFault \/ UNCHANGED bounds)
        /\ st \in {"asleep", "waking"} /\ st' \in {"waking", "closing"}
    BY <1>3 DEF HoldEnds, Wake, Fail
  <2> QED  BY <2>1 DEF SensesInv, Pinned, Locked, config, senses
<1>4. CASE Publish \/ PublishFails
  <2>1. /\ UNCHANGED <<config, senses>> /\ st = "closing" /\ st' \in {"closing", "published"}
        /\ (SleepFault \/ (UNCHANGED bounds /\ told' = "awake"))
    BY <1>4 DEF Publish, PublishFails
  <2> QED  BY <1>f, <2>1 DEF SensesInv, Pinned, Locked, config, senses, bounds
<1>5. CASE End
  <2>1. /\ st = "published" /\ st' = "none" /\ pre' = "none"
        /\ UNCHANGED <<config, wanted, darkened, told, bounds>>
        /\ desired' = Written(IF pre = "none" THEN "on" ELSE pre)
    BY <1>5 DEF End, Forget
  <2> QED  BY <2>1 DEF SensesInv, Pinned, Locked, Written, config, bounds
<1>6. CASE Restart \/ Shutdown
  <2>1. UNCHANGED <<config, senses, failures>>
    BY <1>6 DEF Restart, Shutdown, Cutting, bounds
  <2>2. /\ \/ st \in {"none", "pending"} /\ st' = "none" /\ told' = told
           \/ st \in {"asleep", "waking", "closing", "published"} /\ st' = "closing"
           \/ st' = st /\ told' = told
    BY <1>6 DEF Restart, Shutdown, Cancel
  <2>3. Locked' = Locked
    BY <2>2 DEF Locked
  <2> QED  BY <1>s, <2>1, <2>2, <2>3 DEF SensesInv, Locked, config
<1>7. CASE Rebuild \/ WireProbe \/ Checkpoint \/ SyncRest \/ FinalCheckpoint
             \/ Incident \/ IncidentOver \/ RebuildOther
  <2>1. UNCHANGED <<feed, developing, senses, told, failures, st>>
    BY <1>7
       DEF Rebuild, WireProbe, Checkpoint, SyncRest, FinalCheckpoint, Incident, IncidentOver,
           RebuildOther, Cutting, bounds, sleep, config
  <2>2. Locked' = Locked
    BY <2>1 DEF Locked
  <2> QED  BY <1>s, <2>1, <2>2 DEF SensesInv
<1>8. CASE Mature
  <2>1. PerceiveFeed /\ developing /\ ~developing' /\ UNCHANGED <<feed, sleep, pre, told, bounds>>
    BY <1>8 DEF Mature, InDevelopment
  <2>2. Locked' = Locked /\ st' = st /\ failures' = failures
    BY <2>1 DEF Locked, sleep, bounds
  <2>3. CASE feed
    BY <2>1, <2>2, <2>3 DEF SensesInv, Pinned, PerceiveFeed, SleepFlags
  <2>4. CASE ~feed
    BY <2>1, <2>2, <2>4 DEF SensesInv, Pinned, PerceiveFeed
  <2> QED  BY <2>3, <2>4
<1>9. ASSUME NEW l \in {"on", "off"}, MoveLocus(l) PROVE SensesInv'
  <2>1. ~Pinned /\ desired' = l /\ UNCHANGED <<config, sleep, pre, told, bounds>>
        /\ IF Locked THEN UNCHANGED <<wanted, darkened>> ELSE wanted' = l /\ darkened' = FALSE
    BY <1>9 DEF MoveLocus
  <2>2. Locked' = Locked /\ st' = st /\ failures' = failures
    BY <2>1 DEF Locked, sleep, bounds
  <2> QED  BY <2>1, <2>2 DEF SensesInv, Pinned, config
<1>10. CASE Exit \/ CrashProcess
  <2>1. /\ ~Locked' /\ pre' = "none" /\ told' = "awake"
        /\ UNCHANGED <<feed, developing, desired, wanted>>
        /\ Exit => st = "none" /\ darkened' = darkened
        /\ CrashProcess => darkened' = (darkened \/ desired # wanted)
    BY <1>10 DEF Exit, CrashProcess, Gone, Locked
  <2>2. ~darkened' => desired = wanted
    <3>1. Exit => (~darkened' => desired = wanted)
      BY <2>1 DEF SensesInv, Locked
    <3>2. CrashProcess => (~darkened' => desired = wanted)
      BY <2>1, Zenon
    <3> QED  BY <1>10, <3>1, <3>2
  <2> QED  BY <2>1, <2>2 DEF SensesInv, Pinned
<1>11. CASE BootProcess
  <2>1. PerceiveFeed /\ st = "none" /\ UNCHANGED <<config, sleep, pre, told, bounds>>
    BY <1>11 DEF BootProcess
  <2>2. ~Locked /\ ~Locked' /\ pre = "none"
    BY <2>1 DEF Locked, sleep, SensesInv
  <2>3. CASE feed
    BY <2>1, <2>2, <2>3 DEF SensesInv, Pinned, PerceiveFeed, config, bounds
  <2>4. CASE ~feed
    BY <2>1, <2>2, <2>4 DEF SensesInv, Pinned, PerceiveFeed, config, bounds
  <2> QED  BY <2>3, <2>4
<1>12. CASE UNCHANGED sleepVars
  BY <1>12 DEF sleepVars, SensesInv, Pinned, Locked, config, sleep, senses, bounds
<1> QED  BY <1>1, <1>2, <1>3, <1>4, <1>5, <1>6, <1>7, <1>8, <1>9, <1>10, <1>11, <1>12
            DEF SleepNext, Pipeline, Lifecycle

-----------------------------------------------------------------------------
(* The state cycle. *)

LEMMA CycleStep ==
  ASSUME SleepFlags, SleepCounts, CycleInv, [SleepNext]_sleepVars
  PROVE  CycleInv'
<1>c. CycleReset => phase' = "awake" /\ awake' = 0 /\ spent' = 0
  BY DEF CycleReset
<1>1. CASE Poll \/ Fatigue \/ RestRequest \/ WelfareRequest
  <2>1. UNCHANGED <<proc, marked, ckpt>> /\ Alive /\ proc # "down"
    BY <1>1, PollsAndStarts DEF files, rolling, Alive
  <2>2. resume = 0 \/ (st = "pending" /\ held)
    BY <2>1 DEF CycleInv, Alive
  <2>3. resume' # 0 => st' = "pending" /\ held'
    <3>1. CASE Poll
      BY <2>1, <2>2, <3>1 DEF Poll, PollQuiet, PollRest, PollResume, PollBackstop, Start, Busy
    <3>2. CASE Fatigue \/ RestRequest \/ WelfareRequest
      BY <2>2, <3>2 DEF Fatigue, RestRequest, WelfareRequest, Asked, Start, Busy
    <3> QED  BY <1>1, <3>1, <3>2
  <2>4. /\ phase' = "resting" => phase = "resting" /\ awake' = awake
        /\ st # "none" => awake' \in {0, awake}
    <3>1. CASE Poll
      BY <3>1, <1>c
         DEF Poll, PollQuiet, PollRest, PollResume, PollBackstop, CycleTick, AwakeTicked, Busy
    <3>2. CASE Fatigue \/ RestRequest \/ WelfareRequest
      BY <3>2 DEF Fatigue, RestRequest, WelfareRequest, Asked, cycle
    <3> QED  BY <1>1, <3>1, <3>2
  <2>5. UNCHANGED <<st, held>> \/ (st = "none" /\ st' = "pending")
    BY <1>1, PollsAndStarts
  <2> QED  BY <2>1, <2>3, <2>4, <2>5 DEF CycleInv, Alive
<1>2. CASE Begin \/ BeginFails
  <2>1. UNCHANGED <<proc, held, marked, ckpt>> /\ Alive /\ st = "pending" /\ st' \in {"asleep", "closing"} /\ BeginRest
    BY <1>2 DEF Begin, BeginFails, files, rolling
  <2>2. resume' = 0
    BY <2>1 DEF BeginRest, ResumeLeft, CycleInv, Alive
  <2>3. \/ st' = "asleep" /\ held
        \/ ~held /\ UNCHANGED cycle
        \/ CycleReset
    BY <1>2 DEF Begin, BeginFails
  <2> QED  BY <1>c, <2>1, <2>2, <2>3 DEF CycleInv, Alive, cycle
<1>3. CASE HoldEnds \/ Wake \/ Fail
  <2>1. UNCHANGED <<proc, held, resume, marked, ckpt>> /\ Alive /\ st \in {"asleep", "waking"}
        /\ st' \in {"waking", "closing"} /\ (st' = "waking" => held /\ CycleReset)
    BY <1>3 DEF HoldEnds, Wake, Fail, files, rolling
  <2>2. \/ CycleReset
        \/ UNCHANGED cycle /\ (phase = "resting" => ~ (st = "asleep" /\ held))
    BY <1>3, <2>1 DEF HoldEnds, Wake, Fail, AfterSleep
  <2> QED  BY <1>c, <2>1, <2>2 DEF CycleInv, Alive, cycle
<1>4. CASE Publish \/ PublishFails \/ End
  <2>1. UNCHANGED <<proc, resume, marked, ckpt, phase, awake, spent>> /\ st \in {"closing", "published"}
        /\ st' \in {"closing", "published", "none"}
    BY <1>4 DEF Publish, PublishFails, End, files, rolling, cycle
  <2> QED  BY <2>1 DEF CycleInv, Alive
<1>5. CASE Restart \/ Shutdown
  <2>1. proc' \in {"restarting", "stopping"} /\ st' # "waking" /\ UNCHANGED <<marked, ckpt>>
    BY <1>5 DEF Restart, Shutdown, Cancel, files, rolling
  <2> QED  BY <2>1 DEF CycleInv, Alive
<1>6. CASE Rebuild \/ RebuildOther
  <2>1. /\ UNCHANGED <<st, held, marked, ckpt>> /\ proc' = "up"
        /\ \/ proc = "up" /\ resume' = resume
           \/ st = "none" /\ resume' = 0
        /\ Restore(Export) \/ (Restore(lastGood) /\ lastGood # NoEntry)
    BY <1>6 DEF Rebuild, RebuildOther, RestoreLastGood, IsPaused, rolling, sleep
  <2>2. phase' = "resting" => awake' = 0
    BY <2>1, ExportIsEntry, RestoreKeeps DEF SleepCounts
  <2> QED  BY <2>1, <2>2 DEF CycleInv, Alive
<1>12. CASE Incident \/ IncidentOver
  <2>1. UNCHANGED <<proc, sleep, cycle, rolling>>
    BY <1>12 DEF Incident, IncidentOver
  <2> QED  BY <2>1 DEF CycleInv, Alive, sleep, cycle, rolling
<1>7. CASE WireProbe \/ Mature \/ \E l \in {"on", "off"} : MoveLocus(l)
  <2>1. UNCHANGED <<proc, sleep, cycle, files>>
    BY <1>7 DEF WireProbe, Mature, MoveLocus
  <2> QED  BY <2>1 DEF CycleInv, Alive, sleep, cycle, files, rolling
<1>8. CASE Checkpoint \/ SyncRest \/ FinalCheckpoint
  <2>1. UNCHANGED <<sleep, cycle>> /\ proc = "up" /\ proc' \in {"up", "final"}
    BY <1>8 DEF Checkpoint, SyncRest, FinalCheckpoint
  <2>2. \/ marked' = FALSE
        \/ ckpt' = [Export EXCEPT !.awake = 0] /\ marked' = (phase = "resting")
        \/ UNCHANGED rolling
    BY <1>8 DEF Checkpoint, SyncRest, FinalCheckpoint, SyncWritten
  <2>3. marked' => ckpt'.phase = "resting"
    BY <2>2, ExportIsEntry DEF CycleInv, rolling
  <2> QED  BY <2>1, <2>3 DEF CycleInv, Alive, sleep, cycle
<1>9. CASE Exit \/ CrashProcess
  <2>1. CycleReset /\ proc' = "down" /\ st' = "none" /\ resume' = 0 /\ marked' = FALSE
    BY <1>9 DEF Exit, CrashProcess, Gone
  <2> QED  BY <1>c, <2>1 DEF CycleInv, Alive
<1>10. CASE BootProcess
  <2>1. /\ proc = "down" /\ proc' = "up" /\ UNCHANGED <<sleep, files>>
        /\ UNCHANGED cycle \/ (ckpt # NoEntry /\ Restore(ckpt))
    BY <1>10 DEF BootProcess
  <2>2. phase' = "resting" => awake' = 0
    BY <2>1, RestoreKeeps DEF SleepCounts, CycleInv, cycle
  <2> QED  BY <2>1, <2>2 DEF CycleInv, Alive, sleep, files, rolling
<1>11. CASE UNCHANGED sleepVars
  BY <1>11 DEF sleepVars, CycleInv, Alive, sleep, cycle, files, rolling
<1> QED  BY <1>1, <1>2, <1>3, <1>4, <1>5, <1>6, <1>7, <1>8, <1>9, <1>10, <1>11, <1>12
         DEF SleepNext, Pipeline, Lifecycle

-----------------------------------------------------------------------------
(* What is known of the rest and of the awake stretch. *)

(* What the invariant says while nothing stale was left or restored. *)
Carried ==
  /\ awake <= stretch
  /\ phase = "resting" => spent <= rested /\ rested <= Rest
  /\ held /\ st = "asleep" => elapsed <= rested
  /\ held /\ st = "pending" => resume <= rested /\ (rested > Rest => resume = 0)
  /\ st = "waking" => rested > Rest /\ awake = 0
  /\ proc \in {"final", "stopping", "down"} => ~StretchStale(ckpt) /\ ~RestStale(ckpt)
  /\ held /\ st \in {"closing", "published"} /\ result = "ok" => rested > Rest

LEMMA CarriedIs == CarriedInv /\ RestedInFull <=> (~misled => Carried)
BY DEF CarriedInv, RestedInFull, Carried

LEMMA PollCarries ==
  ASSUME SleepFlags, SleepCounts, CycleInv, Carried, Poll
  PROVE  /\ Carried'
         /\ PollRest => stretch' = Awake
         /\ PollResume => rested <= Rest
<1>1. UNCHANGED <<proc, result, ckpt>> /\ Alive
  BY PollsAndStarts DEF files, rolling
<1>2. /\ rested' = (IF held /\ st = "asleep" /\ rested < Rest THEN rested + Unit ELSE rested)
      /\ stretch' = (IF Locked THEN stretch ELSE Least(stretch + Unit, Awake))
      /\ CycleTick
  BY DEF Poll, PollQuiet, PollRest, PollResume, PollBackstop, Pass
<1>3. /\ awake' <= stretch'
      /\ phase = "awake" /\ ~Busy /\ AwakeTicked >= Awake => stretch' = Awake
  <2>1. AwakeTicked = awake \/ (~Busy /\ AwakeTicked = Least(awake + Unit, Awake))
    BY DEF AwakeTicked
  <2>2. awake' \in {0, AwakeTicked}
    BY <1>2 DEF CycleTick, CycleReset
  <2>3. ~Busy => ~Locked
    BY DEF Busy, Locked
  <2>4. stretch <= stretch' /\ stretch' <= Awake
    BY <1>2, Numbers, UnitIs DEF SleepCounts, Least
  <2>5. ~Busy => stretch' = Least(stretch + Unit, Awake)
    BY <1>2, <2>3
  <2>6. awake \in 0 .. Awake /\ stretch \in 0 .. Awake /\ awake <= stretch /\ stretch' \in Int
    BY <1>2, Numbers, UnitIs DEF SleepCounts, Carried, Least
  <2>7. AwakeTicked <= stretch' /\ 0 <= stretch'
    BY <2>1, <2>4, <2>5, <2>6, Numbers, UnitIs DEF Least
  <2>8. ~Busy /\ AwakeTicked >= Awake => stretch' = Awake
    BY <2>1, <2>4, <2>5, <2>6, Numbers, UnitIs DEF Least
  <2> QED  BY <2>2, <2>7, <2>8
<1>4. phase' = "resting" => phase = "resting" /\ spent' = spent
  BY <1>2 DEF CycleTick, CycleReset
<1>5. /\ rested \in Int /\ rested' \in Int
      /\ rested <= rested' /\ (rested <= Rest => rested' <= Rest) /\ (rested' > Rest => rested > Rest)
  BY <1>2, Numbers, UnitIs DEF SleepCounts
<1>6. PollResume => rested <= Rest
  BY DEF PollResume, ResumeDue, Carried
<1>7. PollRest => stretch' = Awake
  BY <1>3 DEF PollRest, RestDue
<1>8. held' /\ st' = "asleep" => elapsed' <= rested'
  <2> SUFFICES ASSUME held', st' = "asleep" PROVE elapsed' <= rested'
    OBVIOUS
  <2>1. PollQuiet
    BY DEF Poll, PollRest, PollResume, PollBackstop, Start
  <2>2. held /\ st = "asleep" /\ elapsed' = Least(elapsed + Unit, Rest) /\ elapsed <= rested
    BY <2>1 DEF PollQuiet, Carried
  <2> QED  BY <1>2, <2>2, Numbers, UnitIs DEF SleepCounts, Least
<1>9. held' /\ st' = "pending" => resume' <= rested' /\ (rested' > Rest => resume' = 0)
  <2>1. CASE PollQuiet
    <3>1. UNCHANGED <<st, held, resume>>
      BY <2>1 DEF PollQuiet
    <3> QED  BY <1>5, <3>1 DEF Carried, SleepCounts
  <2>2. CASE PollRest \/ PollBackstop
    <3>1. resume' = 0 \/ ~held'
      BY <2>2 DEF PollRest, PollBackstop, Start
    <3> QED  BY <1>5, <3>1 DEF SleepCounts
  <2>3. CASE PollResume
    <3>1. resume' = spent /\ phase = "resting"
      BY <2>3 DEF PollResume, Start, ResumeDue
    <3> QED  BY <1>5, <3>1, Numbers DEF Carried, SleepCounts
  <2> QED  BY <2>1, <2>2, <2>3 DEF Poll
<1>10. st' \in {"waking", "closing", "published"} => UNCHANGED <<st, held>>
  BY PollsAndStarts
<1>11. /\ rested' > Rest \/ ~ (rested > Rest)
       /\ phase' = "resting" => spent' <= rested' /\ rested' <= Rest
  BY <1>4, <1>5, Numbers DEF Carried, SleepCounts
<1>13. st' = "waking" => awake' = 0
  <2> SUFFICES ASSUME st' = "waking" PROVE awake' = 0
    OBVIOUS
  <2>1. st = "waking" /\ Busy /\ awake = 0
    BY <1>10 DEF Busy, Carried
  <2> QED  BY <1>2, <2>1 DEF CycleTick, CycleReset, AwakeTicked
<1>12. proc' \in {"final", "stopping", "down"} => ~StretchStale(ckpt)' /\ ~RestStale(ckpt)'
  <2> SUFFICES ASSUME proc \in {"final", "stopping", "down"} PROVE ~StretchStale(ckpt)' /\ ~RestStale(ckpt)'
    BY <1>1
  <2>1. stretch <= stretch' /\ stretch \in Int /\ stretch' \in Int
    BY <1>2, Numbers, UnitIs DEF SleepCounts, Least
  <2>2. ckpt.phase \in {"awake", "resting"} => ckpt.awake \in Int /\ ckpt.spent \in Int
    BY Numbers DEF SleepCounts, Entries, NoEntry
  <2>3. ~StretchStale(ckpt) /\ ~RestStale(ckpt) /\ ckpt' = ckpt
    BY <1>1 DEF Carried
  <2>4. ~StretchStale(ckpt)'
    BY <2>1, <2>2, <2>3 DEF StretchStale
  <2>5. ~RestStale(ckpt)'
    BY <1>5, <2>2, <2>3, Numbers DEF RestStale
  <2> QED  BY <2>4, <2>5
<1> QED
  BY <1>1, <1>3, <1>4, <1>5, <1>6, <1>7, <1>8, <1>9, <1>10, <1>11, <1>12, <1>13 DEF Carried

(* A step that does not touch what the two histories are about. *)
LEMMA OthersCarry ==
  ASSUME Carried, UNCHANGED <<awake, phase, spent, stretch, rested, ckpt, proc>>,
         st' = "asleep" => UNCHANGED <<st, held, elapsed>>,
         st' = "pending" => UNCHANGED <<st, held, resume>>,
         st' = "waking" => st = "waking",
         st' \in {"closing", "published"} /\ result' = "ok" =>
           st \in {"closing", "published"} /\ UNCHANGED <<held, result>>
  PROVE  Carried'
BY DEF Carried, StretchStale, RestStale

LEMMA EntryNumbers ==
  ASSUME SleepFlags, SleepCounts
  PROVE  /\ {awake, spent, elapsed, resume, stretch, rested} \subseteq Nat
         /\ Rest \in Nat /\ Rest > 0 /\ Awake \in Nat
         /\ elapsed <= Rest /\ spent <= Rest /\ resume <= Rest
         /\ ckpt.phase \in {"awake", "resting"} => ckpt \in Entries /\ ckpt.awake \in Nat /\ ckpt.spent \in Nat
         /\ ckpt.phase = "resting" => ckpt.awake = 0
         /\ ckpt.phase = "awake" => ckpt.spent = 0
         /\ ckpt # NoEntry => ckpt.phase \in {"awake", "resting"}
<1>1. /\ {awake, spent, elapsed, resume, stretch, rested} \subseteq Nat
      /\ elapsed <= Rest /\ spent <= Rest /\ resume <= Rest
  BY Numbers DEF SleepCounts
<1>2. ckpt = NoEntry \/ ckpt \in Entries
  BY DEF SleepCounts
<1>3. ckpt = NoEntry => ckpt.phase = "none"
  BY DEF NoEntry
<1>4. ckpt \in Entries => /\ ckpt.phase \in {"awake", "resting"} /\ ckpt.awake \in Nat /\ ckpt.spent \in Nat
                          /\ ckpt.phase = "resting" => ckpt.awake = 0
                          /\ ckpt.phase = "awake" => ckpt.spent = 0
  BY Numbers DEF Entries
<1> QED  BY <1>1, <1>2, <1>3, <1>4, Numbers

LEMMA BeginCarries ==
  ASSUME SleepFlags, SleepCounts, SleepCounts', CycleInv, Carried, Begin \/ BeginFails, proc = "up"
  PROVE  Carried'
<1>1. /\ st = "pending" /\ UNCHANGED <<proc, held, stretch>>
      /\ st' \in {"asleep", "closing"} /\ (st' = "closing" => result' = "error")
      /\ BeginRest
  BY DEF Begin, BeginFails
<1>2. /\ {awake, spent, elapsed, resume, stretch, rested} \subseteq Nat /\ Rest \in Nat
      /\ Least(resume, Rest) = resume
  BY EntryNumbers DEF Least
<1>3. \/ st' = "asleep" /\ held /\ phase' = "resting" /\ spent' = resume /\ awake' = awake
      \/ ~held /\ UNCHANGED cycle
      \/ st' = "closing" /\ held /\ CycleReset
  BY <1>2 DEF Begin, BeginFails
<1>4. CASE held
  <2>1. /\ elapsed' = resume
        /\ rested' = IF rested > Rest \/ (phase = "awake" /\ resume = 0) THEN 0 ELSE rested
    BY <1>1, <1>2, <1>4 DEF BeginRest
  <2>2. resume <= rested /\ (rested > Rest => resume = 0)
    BY <1>1, <1>4 DEF Carried
  <2>3. resume <= rested' /\ rested' <= Rest
    BY <1>2, <2>1, <2>2
  <2>4. CASE st' = "asleep"
    BY <1>1, <1>3, <1>4, <2>1, <2>3, <2>4 DEF Carried, CycleReset
  <2>5. CASE st' = "closing"
    BY <1>1, <1>2, <1>3, <1>4, <2>5 DEF Carried, CycleReset
  <2> QED  BY <1>1, <2>4, <2>5
<1>5. CASE ~held
  <2>1. UNCHANGED <<cycle, rested>>
    BY <1>1, <1>3, <1>5 DEF BeginRest
  <2> QED  BY <1>1, <1>5, <2>1 DEF Carried, cycle
<1> QED  BY <1>4, <1>5

LEMMA EndsCarry ==
  ASSUME SleepFlags, SleepCounts, CycleInv, Carried, HoldEnds \/ Wake \/ Fail, proc = "up"
  PROVE  Carried'
<1>1. /\ {awake, spent, elapsed, resume, stretch, rested} \subseteq Nat /\ Rest \in Nat
      /\ UNCHANGED <<proc, held, elapsed, resume>>
  BY EntryNumbers DEF HoldEnds, Wake, Fail
<1>2. CASE HoldEnds
  <2>1. /\ st = "asleep" /\ held /\ elapsed >= Rest /\ st' = "waking" /\ stretch' = stretch
        /\ phase' = "awake" /\ awake' = 0
        /\ rested' = (IF rested = Rest THEN Rest + 1 ELSE rested)
    BY <1>2 DEF HoldEnds, CycleReset
  <2>2. rested' > Rest
    BY <1>1, <2>1 DEF Carried
  <2> QED  BY <1>1, <2>1, <2>2 DEF Carried
<1>3. CASE Wake
  <2>1. /\ st = "waking" \/ (st = "asleep" /\ ~held)
        /\ st' = "closing" /\ stretch' = 0 /\ rested' = rested
        /\ (phase' = "awake" /\ awake' = 0) \/ (UNCHANGED cycle /\ (held \/ phase = "resting"))
    BY <1>3 DEF Wake, AfterSleep, CycleReset, SleepCounts
  <2>2. awake' = 0
    BY <2>1 DEF CycleInv, Carried, Alive, cycle
  <2>3. phase' = "resting" => UNCHANGED <<phase, spent>>
    BY <2>1 DEF cycle
  <2>4. held => rested > Rest
    BY <2>1 DEF Carried
  <2> QED  BY <1>1, <2>1, <2>2, <2>3, <2>4 DEF Carried
<1>4. CASE Fail
  <2>1. /\ st' = "closing" /\ result' = "error" /\ UNCHANGED <<stretch, rested>>
        /\ (phase' = "awake" /\ awake' = 0) \/ UNCHANGED cycle
    BY <1>4 DEF Fail, CycleReset
  <2> QED  BY <1>1, <2>1 DEF Carried, cycle
<1> QED  BY <1>2, <1>3, <1>4

LEMMA CancelCarries ==
  ASSUME SleepFlags, SleepCounts, Carried, Cancel, UNCHANGED <<ckpt, stretch, rested>>,
         proc' \in {"final", "stopping", "down"} => proc \in {"final", "stopping", "down"}
  PROVE  Carried'
<1>1. /\ UNCHANGED <<elapsed, resume, phase, awake>>
      /\ spent' = IF st = "asleep" /\ held /\ phase = "resting" THEN elapsed ELSE spent
      /\ st' \in {"none", "closing", "published"}
      /\ st' # "none" => result' # "ok"
  BY DEF Cancel, SleepFlags
<1>2. phase' = "resting" => spent' <= rested' /\ rested' <= Rest
  BY <1>1 DEF Carried
<1>3. awake' <= stretch'
  BY <1>1 DEF Carried
<1>4. proc' \in {"final", "stopping", "down"} => ~StretchStale(ckpt)' /\ ~RestStale(ckpt)'
  BY DEF Carried, StretchStale, RestStale
<1> QED  BY <1>1, <1>2, <1>3, <1>4 DEF Carried

(* Restored from an entry that is not stale. *)
LEMMA RestoreCarries ==
  ASSUME SleepFlags, SleepCounts, NEW e \in Entries, Restore(e), ~StretchStale(e), ~RestStale(e),
         st' = "none", proc' = "up", UNCHANGED <<stretch, rested>>
  PROVE  Carried'
<1>1. /\ e.phase \in {"awake", "resting"} /\ e.awake \in Nat /\ e.spent \in Nat
      /\ {stretch, rested} \subseteq Nat /\ Rest \in Nat
  BY EntryNumbers, Numbers DEF Entries
<1>2. /\ phase' = "resting" => e.phase = "resting" /\ spent' = e.spent
      /\ awake' = 0 \/ (e.phase = "awake" /\ awake' = e.awake)
  BY RestoreKeeps
<1>3. awake' <= stretch'
  BY <1>1, <1>2 DEF StretchStale
<1>4. phase' = "resting" => spent' <= rested' /\ rested' <= Rest
  BY <1>1, <1>2 DEF RestStale
<1> QED  BY <1>3, <1>4 DEF Carried

(* Restored from one that is not stale while the module runs. *)
LEMMA RestoreRunning ==
  ASSUME SleepFlags, SleepCounts, Carried, NEW e \in Entries, Restore(e),
         ~StretchStale(e), ~RestStale(e), st = "waking" => e.awake = 0,
         proc' = "up", UNCHANGED <<sleep, stretch, rested>>
  PROVE  Carried'
<1>1. /\ e.phase \in {"awake", "resting"} /\ e.awake \in Nat /\ e.spent \in Nat
      /\ {stretch, rested} \subseteq Nat /\ Rest \in Nat
  BY EntryNumbers, Numbers DEF Entries
<1>2. /\ phase' = "resting" => e.phase = "resting" /\ spent' = e.spent
      /\ awake' = 0 \/ (e.phase = "awake" /\ awake' = e.awake)
  BY RestoreKeeps
<1>3. awake' <= stretch' /\ (st = "waking" => awake' = 0)
  BY <1>1, <1>2 DEF StretchStale
<1>4. phase' = "resting" => spent' <= rested' /\ rested' <= Rest
  BY <1>1, <1>2 DEF RestStale
<1> QED  BY <1>3, <1>4 DEF Carried, sleep

(* What a restore of last_good that leaves nothing misled has restored. *)
LEMMA LastGoodFresh ==
  ASSUME SleepCounts, RestoreLastGood, ~misled'
  PROVE  /\ ~misled /\ lastGood \in Entries /\ Restore(lastGood)
         /\ ~StretchStale(lastGood) /\ ~RestStale(lastGood)
         /\ st = "waking" => lastGood.awake = 0
<1>1. lastGood \in Entries /\ Restore(lastGood)
  BY DEF RestoreLastGood, IsPaused, SleepCounts
<1>2. misled' = (misled \/ StretchStale(lastGood) \/ RestStale(lastGood)
                        \/ (st = "waking" /\ lastGood.awake > 0))
  BY DEF RestoreLastGood
<1>3. /\ ~misled /\ ~StretchStale(lastGood) /\ ~RestStale(lastGood)
      /\ ~(st = "waking" /\ lastGood.awake > 0)
  BY <1>2, Zenon
<1>4. lastGood.awake \in Nat
  BY <1>1, Numbers DEF Entries
<1> QED  BY <1>1, <1>3, <1>4

(* What would be written now is not stale. *)
LEMMA ExportFresh ==
  ASSUME SleepFlags, SleepCounts, Carried
  PROVE  /\ ~StretchStale(Export) /\ ~RestStale(Export)
         /\ ~StretchStale([Export EXCEPT !.awake = 0]) /\ ~RestStale([Export EXCEPT !.awake = 0])
<1>1. {awake, spent, elapsed, stretch, rested} \subseteq Nat /\ Rest \in Nat
  BY EntryNumbers
<1>2. CASE phase = "resting"
  <2>1. Export.phase = "resting" /\ Export.spent = IF st = "asleep" /\ held THEN elapsed ELSE spent
    BY <1>2, ExportIsEntry
  <2>2. Export.spent <= rested /\ rested <= Rest
    BY <1>2, <2>1 DEF Carried
  <2>3. Export.spent \in Nat
    BY <1>1, <2>1
  <2> QED  BY <1>1, <1>2, <2>1, <2>2, <2>3, ExportIsEntry DEF StretchStale, RestStale
<1>3. CASE phase = "awake"
  <2>1. /\ Export.phase = "awake" /\ Export.awake = awake
        /\ [Export EXCEPT !.awake = 0].phase = "awake" /\ [Export EXCEPT !.awake = 0].awake = 0
    BY <1>3, ExportIsEntry
  <2> QED  BY <1>1, <2>1 DEF Carried, StretchStale, RestStale
<1> QED  BY <1>2, <1>3 DEF SleepCounts

LEMMA FinalCarries ==
  ASSUME SleepFlags, SleepCounts, CycleInv, Carried, FinalCheckpoint, ~misled'
  PROVE  Carried'
<1>1. UNCHANGED <<sleep, cycle, stretch, rested>>
  BY DEF FinalCheckpoint
<1>2. /\ ~StretchStale(Export) /\ ~RestStale(Export)
      /\ ~StretchStale([Export EXCEPT !.awake = 0]) /\ ~RestStale([Export EXCEPT !.awake = 0])
  BY ExportFresh
<1>3. \/ ckpt' = Export \/ ckpt' = [Export EXCEPT !.awake = 0]
      \/ ~SyncDue /\ UNCHANGED rolling /\ ~StretchStale(ckpt') /\ (marked \/ ~RestStale(ckpt'))
      \/ ~StretchStale(ckpt') /\ ~RestStale(ckpt')
  <2>1. CASE ~Locked /\ ckpt' = Export
    BY <2>1
  <2>2. CASE SyncDue /\ SyncWritten
    BY <2>2 DEF SyncWritten
  <2>3. CASE ~SyncDue /\ UNCHANGED rolling /\ misled' = (misled \/ StretchStale(ckpt') \/ (RestStale(ckpt') /\ ~marked))
    BY <2>3, Zenon
  <2>4. CASE UNCHANGED rolling /\ misled' = (misled \/ StretchStale(ckpt) \/ RestStale(ckpt))
    <3>1. ckpt' = ckpt
      BY <2>4 DEF rolling
    <3> QED  BY <2>4, <3>1, Zenon
  <2> QED  BY <2>1, <2>2, <2>3, <2>4, Zenon DEF FinalCheckpoint
<1>4. ~StretchStale(ckpt') /\ ~RestStale(ckpt')
  <2> SUFFICES ASSUME ~SyncDue, UNCHANGED rolling, ~StretchStale(ckpt'), marked
               PROVE  ~RestStale(ckpt')
    BY <1>2, <1>3
  <2>1. ckpt' = ckpt /\ ckpt.phase = "resting" /\ ckpt # NoEntry
    BY DEF rolling, CycleInv, NoEntry
  <2>2. phase = "resting" /\ ckpt.spent = Export.spent
    BY <2>1 DEF SyncDue, SleepCounts
  <2>3. Export.phase = "resting"
    BY <2>2, ExportIsEntry
  <2> QED  BY <1>2, <2>1, <2>2, <2>3 DEF RestStale
<1>5. ~StretchStale(ckpt)' /\ ~RestStale(ckpt)'
  BY <1>1, <1>4 DEF StretchStale, RestStale
<1> QED  BY <1>1, <1>5 DEF Carried, sleep, cycle

LEMMA GoneCarries ==
  ASSUME SleepFlags, SleepCounts, Gone, ~StretchStale(ckpt), ~RestStale(ckpt)
  PROVE  Carried'
<1>1. st' = "none" /\ phase' = "awake" /\ awake' = 0 /\ UNCHANGED <<ckpt, stretch, rested>>
  BY DEF Gone, CycleReset
<1>2. ~StretchStale(ckpt)' /\ ~RestStale(ckpt)'
  BY <1>1 DEF StretchStale, RestStale
<1> QED  BY <1>1, <1>2, EntryNumbers DEF Carried

LEMMA CarriedStep ==
  ASSUME SleepFlags, SleepCounts, SleepCounts', CycleInv, ~misled => Carried,
         [SleepNext]_sleepVars, ~misled'
  PROVE  Carried'
<1>m. ~misled
  <2>1. CASE Poll \/ Fatigue \/ RestRequest \/ WelfareRequest
    BY <2>1, PollsAndStarts
  <2>2. CASE Begin \/ BeginFails \/ HoldEnds \/ Wake \/ Fail
    BY <2>2, Zenon DEF Begin, BeginFails, HoldEnds, Wake, Fail, PastCheckpoint
  <2>3. CASE \/ Publish \/ PublishFails \/ End \/ Restart \/ Shutdown \/ WireProbe \/ Mature
             \/ Incident \/ IncidentOver
             \/ (\E l \in {"on", "off"} : MoveLocus(l)) \/ Checkpoint \/ SyncRest \/ BootProcess
             \/ UNCHANGED sleepVars
    <3>1. UNCHANGED history
      BY <2>3
         DEF Publish, PublishFails, End, Restart, Shutdown, WireProbe, Mature, MoveLocus,
                  Incident, IncidentOver,
                  Checkpoint, SyncRest, BootProcess, sleepVars
    <3> QED  BY <3>1 DEF history
  <2>4. CASE FinalCheckpoint
    BY <2>4, Zenon DEF FinalCheckpoint
  <2>5. CASE Exit
    BY <2>5 DEF Exit
  <2>6. CASE CrashProcess
    BY <2>6, Zenon DEF CrashProcess
  <2>7. CASE Rebuild \/ RebuildOther
    BY <2>7, LastGoodFresh DEF Rebuild, RebuildOther
  <2> QED  BY <2>1, <2>2, <2>3, <2>4, <2>5, <2>6, <2>7 DEF SleepNext, Pipeline, Lifecycle
<1>0. Carried
  BY <1>m
<1>1. CASE Poll
  BY <1>0, <1>1, PollCarries
<1>2. CASE Fatigue \/ RestRequest \/ WelfareRequest
  <2>1. PICK h : Asked(h)
    BY <1>2 DEF Fatigue, RestRequest, WelfareRequest
  <2>2. /\ Alive /\ st = "none" /\ st' = "pending" /\ resume' = resume
        /\ UNCHANGED <<proc, awake, phase, spent, ckpt, stretch, rested>>
    BY <2>1 DEF Asked, Start, Busy, cycle, files, rolling, history
  <2>3. resume' = 0
    BY <2>2 DEF CycleInv, Alive
  <2> QED  BY <1>0, <2>2, <2>3, EntryNumbers DEF Carried, Alive, StretchStale, RestStale
<1>3. CASE Begin \/ BeginFails
  <2>1. proc = "up"
    <3>1. Alive /\ PastCheckpoint
      BY <1>3 DEF Begin, BeginFails
    <3>2. ~ (proc = "final")
      BY <3>1, Zenon DEF PastCheckpoint
    <3> QED  BY <3>1, <3>2 DEF Alive
  <2> QED  BY <1>0, <1>3, <2>1, BeginCarries
<1>4. CASE HoldEnds \/ Wake \/ Fail
  <2>1. proc = "up"
    <3>1. Alive /\ PastCheckpoint
      BY <1>4 DEF HoldEnds, Wake, Fail
    <3>2. ~ (proc = "final")
      BY <3>1, Zenon DEF PastCheckpoint
    <3> QED  BY <3>1, <3>2 DEF Alive
  <2> QED  BY <1>0, <1>4, <2>1, EndsCarry
<1>5. CASE Publish \/ PublishFails \/ End
  <2>1. /\ UNCHANGED <<awake, phase, spent, stretch, rested, ckpt, proc>>
        /\ st' \in {"closing", "published", "none"}
        /\ st' # "none" /\ result' = "ok" =>
             st \in {"closing", "published"} /\ UNCHANGED <<held, result>>
    BY <1>5 DEF Publish, PublishFails, End, cycle, files, rolling, history
  <2> QED  BY <1>0, <2>1, OthersCarry
<1>6. CASE Restart \/ Shutdown
  <2>1. /\ Cancel /\ UNCHANGED <<ckpt, stretch, rested>>
        /\ (proc' = "restarting" \/ proc = "final")
    BY <1>6 DEF Restart, Shutdown, files, rolling, history
  <2> QED  BY <1>0, <2>1, CancelCarries
<1>7. CASE Rebuild
  <2>1. /\ st' = "none" /\ proc' = "up" /\ UNCHANGED <<stretch, rested>>
        /\ Restore(Export) \/ RestoreLastGood
    BY <1>7 DEF Rebuild
  <2>2. CASE Restore(Export)
    BY <1>0, <2>1, <2>2, ExportIsEntry, ExportFresh, RestoreCarries
  <2>3. CASE RestoreLastGood
    BY <2>1, <2>3, LastGoodFresh, RestoreCarries
  <2> QED  BY <2>1, <2>2, <2>3
<1>15. CASE RebuildOther
  <2>1. RestoreLastGood /\ proc' = "up" /\ UNCHANGED <<sleep, stretch, rested>>
    BY <1>15 DEF RebuildOther
  <2> QED  BY <1>0, <2>1, LastGoodFresh, RestoreRunning
<1>16. CASE Incident \/ IncidentOver
  <2>1. UNCHANGED <<proc, sleep, cycle, rolling, history>>
    BY <1>16 DEF Incident, IncidentOver
  <2> QED  BY <1>0, <2>1, OthersCarry DEF sleep, cycle, rolling, history
<1>8. CASE WireProbe \/ Mature \/ \E l \in {"on", "off"} : MoveLocus(l)
  <2>1. UNCHANGED <<proc, sleep, cycle, files, history>>
    BY <1>8 DEF WireProbe, Mature, MoveLocus
  <2> QED  BY <1>0, <2>1, OthersCarry DEF sleep, cycle, files, rolling, history
<1>9. CASE Checkpoint \/ SyncRest
  <2>1. proc' = "up" /\ UNCHANGED <<sleep, cycle, history>>
    BY <1>9 DEF Checkpoint, SyncRest
  <2> QED  BY <1>0, <2>1 DEF Carried, sleep, cycle, history
<1>10. CASE FinalCheckpoint
  BY <1>0, <1>10, FinalCarries
<1>11. CASE Exit
  <2>1. proc = "stopping" /\ Gone
    BY <1>11 DEF Exit
  <2> QED  BY <1>0, <2>1, GoneCarries DEF Carried
<1>12. CASE CrashProcess
  <2>1. Gone /\ misled' = (misled \/ StretchStale(ckpt) \/ RestStale(ckpt))
    BY <1>12 DEF CrashProcess
  <2>2. ~StretchStale(ckpt) /\ ~RestStale(ckpt)
    BY <2>1, Zenon
  <2> QED  BY <2>1, <2>2, GoneCarries
<1>13. CASE BootProcess
  <2>1. /\ proc = "down" /\ proc' = "up" /\ UNCHANGED <<sleep, files, history>>
        /\ (ckpt = NoEntry /\ UNCHANGED cycle) \/ (ckpt # NoEntry /\ Restore(ckpt))
    BY <1>13 DEF BootProcess
  <2>2. st = "none" /\ st' = "none" /\ UNCHANGED <<stretch, rested>>
    BY <2>1 DEF CycleInv, sleep, history
  <2>3. CASE UNCHANGED cycle
    BY <1>0, <2>1, <2>2, <2>3 DEF Carried, cycle
  <2>4. CASE ckpt # NoEntry /\ Restore(ckpt)
    <3>1. ckpt \in Entries /\ ~StretchStale(ckpt) /\ ~RestStale(ckpt)
      BY <1>0, <2>1, <2>4 DEF SleepCounts, Carried
    <3> QED  BY <2>1, <2>2, <2>4, <3>1, RestoreCarries
  <2> QED  BY <2>1, <2>3, <2>4
<1>14. CASE UNCHANGED sleepVars
  BY <1>0, <1>14, OthersCarry DEF sleepVars, sleep, cycle, files, rolling, history
<1> QED
  BY <1>1, <1>2, <1>3, <1>4, <1>5, <1>6, <1>7, <1>8, <1>9, <1>10, <1>11, <1>12, <1>13, <1>14,
     <1>15, <1>16
     DEF SleepNext, Pipeline, Lifecycle
-----------------------------------------------------------------------------
LEMMA SleepInvariant == SleepSpec => []SleepInv
<1>1. SleepInit => SleepInv
  <2> SUFFICES ASSUME SleepInit PROVE SleepInv
    OBVIOUS
  <2>1. SleepFlags
    BY DEF SleepInit, SleepFlags
  <2>2. SleepCounts
    BY SleepAssumption DEF SleepInit, SleepCounts
  <2>3. SensesInv /\ CycleInv /\ RestedInFull /\ AwakeOutsideSleep
    BY DEF SleepInit, SensesInv, CycleInv, RestedInFull, AwakeOutsideSleep, Locked
  <2>4. CarriedInv
    BY DEF SleepInit, CarriedInv
  <2> QED  BY <2>1, <2>2, <2>3, <2>4, SleepTypeParts DEF SleepInv
<1>2. SleepInv /\ [SleepNext]_sleepVars => SleepInv'
  <2> SUFFICES ASSUME SleepInv, [SleepNext]_sleepVars PROVE SleepInv'
    OBVIOUS
  <2>1. SleepFlags /\ SleepCounts /\ SensesInv /\ CycleInv /\ (~misled => Carried)
    BY SleepTypeParts, CarriedIs DEF SleepInv
  <2>2. SleepFlags' /\ SleepCounts'
    BY <2>1, SleepFlagsStep, SleepCountsStep
  <2>3. SensesInv' /\ CycleInv'
    BY <2>1, SensesStep, CycleStep DEF CycleInv
  <2>4. ~misled' => Carried'
    BY <2>1, <2>2, CarriedStep
  <2>5. SleepTypeOK'
    BY <2>2 DEF SleepTypeOK, SleepFlags, SleepCounts
  <2>6. CarriedInv' /\ RestedInFull'
    BY <2>4 DEF CarriedInv, RestedInFull, Carried
  <2>7. AwakeOutsideSleep'
    BY <2>3 DEF AwakeOutsideSleep, SensesInv
  <2> QED  BY <2>3, <2>5, <2>6, <2>7 DEF SleepInv
<1> QED  BY <1>1, <1>2, PTL DEF SleepSpec

(* The sleep module, its state cycle, the locus and the checkpoint stay well *)
(* typed; the remainder of a rest that serialize writes and                  *)
(* _restore_state_cycle takes up lies within the length of a rest.           *)
THEOREM SleepTypeCorrect == SleepSpec => []SleepTypeOK
<1>1. SleepInv => SleepTypeOK
  BY DEF SleepInv
<1> QED  BY <1>1, SleepInvariant, PTL

(* _hold_developmental_rest, _restore_state_cycle: a held rest that ends well *)
(* has been slept for its whole length, over any number of restarts, stops    *)
(* and crashes, unless the checkpoint was stale when a process ended or the    *)
(* last_good that a rebuild restored was.                                     *)
THEOREM RestsSleptInFull == SleepSpec => []RestedInFull
<1>1. SleepInv => RestedInFull
  BY DEF SleepInv
<1> QED  BY <1>1, SleepInvariant, PTL

(* _suspend_perception, _restore_perception, _run_pipeline_inner: however a *)
(* sleep ends, the senses are where they were last put, unless a crash left *)
(* them off, and the other modules have heard of its end unless a publish   *)
(* failed.                                                                  *)
THEOREM SensesComeBack == SleepSpec => []AwakeOutsideSleep
<1>1. SleepInv => AwakeOutsideSleep
  BY DEF SleepInv
<1> QED  BY <1>1, SleepInvariant, PTL

(* _maintenance_poll_once, RestScheduler.is_due, _sync_rest: a rest of the   *)
(* state cycle begins only after a whole awake stretch, and the remainder of *)
(* one only while that rest is not over; unless a stale checkpoint was left  *)
(* or ForkManager.restore put a stale last_good back.                        *)
THEOREM RestsAreDue == SleepSpec => RestsWhenDue
<1>1. SleepInv /\ [SleepNext]_sleepVars =>
        [~misled => (PollRest => stretch' = Awake) /\ (PollResume => rested <= Rest)]_sleepVars
  <2> SUFFICES ASSUME SleepInv, ~misled, PollRest \/ PollResume
               PROVE  (PollRest => stretch' = Awake) /\ (PollResume => rested <= Rest)
    OBVIOUS
  <2>1. SleepFlags /\ SleepCounts /\ CycleInv /\ Carried
    BY SleepTypeParts, CarriedIs DEF SleepInv
  <2> QED  BY <2>1, PollCarries DEF Poll
<1> QED  BY <1>1, SleepInvariant, PTL DEF SleepSpec, RestsWhenDue
=============================================================================
