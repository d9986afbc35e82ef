-------------------------- MODULE LifecycleProofs --------------------------
(***************************************************************************)
(* Bringing an entity back and deleting one.                               *)
(*                                                                         *)
(* Revive, for any bundle, any tree, any number of faults and any order of *)
(* plain starts and revives: no stale checkpoint over replaced stores, no  *)
(* lost evidence, no sleep over half a memory, and no name or stage before *)
(* the whole individual is there.                                          *)
(*                                                                         *)
(* Decommission, for any number of jobs, services, collections, failures   *)
(* and kills: no half-converted adapter is promoted, a deletion goes in    *)
(* its order, and a job's directory is not removed under the service that  *)
(* trains in it.                                                           *)
(***************************************************************************)
EXTENDS Revive, Decommission, FiniteSetTheorems, WellFoundedInduction, TLAPS

-----------------------------------------------------------------------------
(* Revive. *)

(* The steps of a revive after the record, after the modules and after the *)
(* evidence.                                                               *)
Recorded == {"rename", "import", "memory", "evidence", "move", "place",
             "aside", "dev", "stage", "name", "replace", "discard"}
Rehydrated == {"evidence", "move", "place", "aside", "dev", "stage", "name",
               "replace", "discard"}
Placed == {"aside", "dev", "stage", "name", "replace", "discard"}
Staged == {"stage", "name", "replace", "discard"}

(* No checkpoint a plain start would take exists while a store is replaced *)
(* or may be, nor after it was until one of the stores as they are is made.*)
PointInv ==
  /\ pc \in Recorded => checkpoint # "newer"
  /\ touched => checkpoint # "newer"

(* The mark stands whenever the collections are not whole. *)
MemoryInv ==
  /\ memory = "partial" => mark
  /\ pc = "memory" => mark /\ "memory" \in todo
  /\ scaled # "partial"

(* What each part of the way has behind it. *)
EvidenceNow == IF evidenceCarried THEN "bundle" ELSE "none"
WayInv ==
  /\ pc \in {"record", "rename"} => todo = Parts
  /\ pc \in {"import", "memory"} /\ "others" \notin todo => others = "bundle"
  /\ pc = "import" /\ "memory" \notin todo => memory = "bundle" /\ ~mark
  /\ pc \in Rehydrated => others = "bundle" /\ memory = "bundle" /\ ~mark
  /\ pc \in {"move", "place"} => staging = evidenceCarried
  /\ pc = "place" => evidence = "none"
  /\ pc \in Placed => evidence = EvidenceNow
  /\ pc \in {"aside", "dev", "stage"} => stageCarried
  /\ pc \in Staged /\ stageCarried => \A f \in DevFiles : dev[f] = "bundle"
  /\ pc \in {"name", "replace", "discard"} /\ stageCarried => stageFile = "bundle"

-----------------------------------------------------------------------------
(* PointInv, step by step. *)
LEMMA PointStep ==
  ASSUME TypeOK, PointInv, [Next]_vars
  PROVE  PointInv'
<1>1. CASE PlainStart
  BY <1>1
     DEF PointInv, Recorded, TypeOK, PlainStart, Restorable, bundle, point, stores, trees, files,
         history
<1>2. CASE Checkpoints
  BY <1>2 DEF PointInv, Recorded, TypeOK, Checkpoints, bundle, stores, trees, files, run
<1>3. CASE Sleeps
  BY <1>3
     DEF PointInv, Recorded, TypeOK, Sleeps, Blocked, bundle, disk, run, point, stores, trees,
         files
<1>4. CASE Stops
  BY <1>4
     DEF PointInv, Recorded, TypeOK, Stops, bundle, disk, run, history, point, stores, trees,
         files
<1>5. CASE RecoverImport
  BY <1>5 DEF PointInv, Recorded, TypeOK, RecoverImport, bundle, point, trees, files, run, history
<1>6. CASE ReviveStart
  BY <1>6
     DEF PointInv, Recorded, TypeOK, ReviveStart, MayRevive, bundle, point, stores, trees, files,
         history
<1>7. CASE WriteRecord
  BY <1>7
     DEF PointInv, Recorded, TypeOK, WriteRecord, Goes, Refused, Fault, bundle, stores, trees,
         files, run, history
<1>8. CASE RenameCheckpoint
  BY <1>8
     DEF PointInv, Recorded, TypeOK, RenameCheckpoint, Goes, Refused, Fault, bundle, stores,
         trees, files, run, history
<1>9. CASE RestoreOthers
  BY <1>9
     DEF PointInv, Recorded, TypeOK, RestoreOthers, Goes, Refused, Fault, bundle, point, trees,
         files
<1>10. CASE BeginMemory
  BY <1>10
     DEF PointInv, Recorded, TypeOK, BeginMemory, Goes, Refused, Fault, MarkImport, bundle, point,
         trees, files, run, history
<1>11. CASE ReplaceCollection
  BY <1>11
     DEF PointInv, Recorded, TypeOK, ReplaceCollection, Goes, Refused, Fault, bundle, point,
         trees, files, run
<1>12. CASE EndMemory
  BY <1>12
     DEF PointInv, Recorded, TypeOK, EndMemory, Goes, Refused, Fault, bundle, point, trees, files,
         history
<1>13. CASE ImportEnds
  BY <1>13
     DEF PointInv, Recorded, TypeOK, ImportEnds, Goes, bundle, disk, run, history, point, stores,
         trees, files
<1>14. CASE ExtractEvidence
  BY <1>14
     DEF PointInv, Recorded, TypeOK, ExtractEvidence, Goes, Refused, Fault, bundle, point, stores,
         files, run, history
<1>15. CASE MoveAside
  BY <1>15
     DEF PointInv, Recorded, TypeOK, MoveAside, Goes, Refused, Fault, SetAside, bundle, point,
         stores, files, history
<1>16. CASE MoveIn
  BY <1>16
     DEF PointInv, Recorded, TypeOK, MoveIn, Goes, Refused, Fault, AfterEvidence, bundle, point,
         stores, files, run, history
<1>17. CASE SetDevAside
  BY <1>17
     DEF PointInv, Recorded, TypeOK, SetDevAside, Goes, Refused, Fault, bundle, point, stores,
         trees, run, history
<1>18. CASE ExtractDev
  BY <1>18
     DEF PointInv, Recorded, TypeOK, ExtractDev, Goes, Refused, Fault, bundle, point, stores,
         trees, run, history
<1>19. CASE WriteStage
  BY <1>19
     DEF PointInv, Recorded, TypeOK, WriteStage, Goes, Refused, Fault, bundle, point, stores,
         trees, run, history
<1>20. CASE PersistIdentity
  BY <1>20
     DEF PointInv, Recorded, TypeOK, PersistIdentity, Goes, Refused, Fault, bundle, point, stores,
         trees, files, run, history
<1>21. CASE SaveCheckpoint
  BY <1>21
     DEF PointInv, Recorded, TypeOK, SaveCheckpoint, Goes, Fault, bundle, stores, trees, files,
         run
<1>22. CASE DiscardCheckpoint
  BY <1>22
     DEF PointInv, Recorded, TypeOK, DiscardCheckpoint, Goes, Refused, Fault, bundle, stores,
         trees, files, run, history
<1>23. CASE Down
  BY <1>23 DEF PointInv, Recorded, TypeOK, Down, Fault, bundle, stores, trees, files, run, history
<1>24. CASE UNCHANGED vars
  BY <1>24
     DEF PointInv, Recorded, TypeOK, vars, bundle, disk, point, stores, trees, files, run, history
<1> QED  BY <1>1, <1>2, <1>3, <1>4, <1>5, <1>6, <1>7, <1>8, <1>9, <1>10, <1>11, <1>12, <1>13,
            <1>14, <1>15, <1>16, <1>17, <1>18, <1>19, <1>20, <1>21, <1>22, <1>23, <1>24
            DEF Next, ReviveStep

LEMMA MemoryStep ==
  ASSUME TypeOK, MemoryInv, [Next]_vars
  PROVE  MemoryInv'
<1>1. CASE PlainStart
  BY <1>1
     DEF MemoryInv, TypeOK, PlainStart, Restorable, bundle, point, stores, trees, files, history
<1>2. CASE Checkpoints
  BY <1>2 DEF MemoryInv, TypeOK, Checkpoints, bundle, stores, trees, files, run
<1>3. CASE Sleeps
  BY <1>3 DEF MemoryInv, TypeOK, Sleeps, Blocked, bundle, disk, run, point, stores, trees, files
<1>4. CASE Stops
  BY <1>4 DEF MemoryInv, TypeOK, Stops, bundle, disk, run, history, point, stores, trees, files
<1>5. CASE RecoverImport
  BY <1>5 DEF MemoryInv, TypeOK, RecoverImport, bundle, point, trees, files, run, history
<1>6. CASE ReviveStart
  BY <1>6
     DEF MemoryInv, TypeOK, ReviveStart, MayRevive, bundle, point, stores, trees, files, history
<1>7. CASE WriteRecord
  BY <1>7
     DEF MemoryInv, TypeOK, WriteRecord, Goes, Refused, Fault, bundle, stores, trees, files, run,
         history
<1>8. CASE RenameCheckpoint
  BY <1>8
     DEF MemoryInv, TypeOK, RenameCheckpoint, Goes, Refused, Fault, bundle, stores, trees, files,
         run, history
<1>9. CASE RestoreOthers
  BY <1>9 DEF MemoryInv, TypeOK, RestoreOthers, Goes, Refused, Fault, bundle, point, trees, files
<1>10. CASE BeginMemory
  BY <1>10
     DEF MemoryInv, TypeOK, BeginMemory, Goes, Refused, Fault, MarkImport, bundle, point, trees,
         files, run, history
<1>11. CASE ReplaceCollection
  BY <1>11
     DEF MemoryInv, TypeOK, ReplaceCollection, Goes, Refused, Fault, bundle, point, trees, files,
         run
<1>12. CASE EndMemory
  BY <1>12
     DEF MemoryInv, TypeOK, EndMemory, Goes, Refused, Fault, bundle, point, trees, files, history
<1>13. CASE ImportEnds
  BY <1>13
     DEF MemoryInv, TypeOK, ImportEnds, Goes, bundle, disk, run, history, point, stores, trees,
         files
<1>14. CASE ExtractEvidence
  BY <1>14
     DEF MemoryInv, TypeOK, ExtractEvidence, Goes, Refused, Fault, bundle, point, stores, files,
         run, history
<1>15. CASE MoveAside
  BY <1>15
     DEF MemoryInv, TypeOK, MoveAside, Goes, Refused, Fault, SetAside, bundle, point, stores,
         files, history
<1>16. CASE MoveIn
  BY <1>16
     DEF MemoryInv, TypeOK, MoveIn, Goes, Refused, Fault, AfterEvidence, bundle, point, stores,
         files, run, history
<1>17. CASE SetDevAside
  BY <1>17
     DEF MemoryInv, TypeOK, SetDevAside, Goes, Refused, Fault, bundle, point, stores, trees, run,
         history
<1>18. CASE ExtractDev
  BY <1>18
     DEF MemoryInv, TypeOK, ExtractDev, Goes, Refused, Fault, bundle, point, stores, trees, run,
         history
<1>19. CASE WriteStage
  BY <1>19
     DEF MemoryInv, TypeOK, WriteStage, Goes, Refused, Fault, bundle, point, stores, trees, run,
         history
<1>20. CASE PersistIdentity
  BY <1>20
     DEF MemoryInv, TypeOK, PersistIdentity, Goes, Refused, Fault, bundle, point, stores, trees,
         files, run, history
<1>21. CASE SaveCheckpoint
  BY <1>21 DEF MemoryInv, TypeOK, SaveCheckpoint, Goes, Fault, bundle, stores, trees, files, run
<1>22. CASE DiscardCheckpoint
  BY <1>22
     DEF MemoryInv, TypeOK, DiscardCheckpoint, Goes, Refused, Fault, bundle, stores, trees, files,
         run, history
<1>23. CASE Down
  BY <1>23 DEF MemoryInv, TypeOK, Down, Fault, bundle, stores, trees, files, run, history
<1>24. CASE UNCHANGED vars
  BY <1>24 DEF MemoryInv, TypeOK, vars, bundle, disk, point, stores, trees, files, run, history
<1> QED  BY <1>1, <1>2, <1>3, <1>4, <1>5, <1>6, <1>7, <1>8, <1>9, <1>10, <1>11, <1>12, <1>13,
            <1>14, <1>15, <1>16, <1>17, <1>18, <1>19, <1>20, <1>21, <1>22, <1>23, <1>24
            DEF Next, ReviveStep

LEMMA WayStep ==
  ASSUME TypeOK, MemoryInv, WayInv, [Next]_vars
  PROVE  WayInv'
<1>1. CASE PlainStart
  BY <1>1
     DEF WayInv, EvidenceNow, MemoryInv, TypeOK, Parts, Rehydrated, Placed, Staged, PlainStart,
         Restorable, bundle, point, stores, trees, files, history
<1>2. CASE Checkpoints
  BY <1>2
     DEF WayInv, EvidenceNow, MemoryInv, TypeOK, Parts, Rehydrated, Placed, Staged, Checkpoints,
         bundle, stores, trees, files, run
<1>3. CASE Sleeps
  BY <1>3
     DEF WayInv, EvidenceNow, MemoryInv, TypeOK, Parts, Rehydrated, Placed, Staged, Sleeps,
         Blocked, bundle, disk, run, point, stores, trees, files
<1>4. CASE Stops
  BY <1>4
     DEF WayInv, EvidenceNow, MemoryInv, TypeOK, Parts, Rehydrated, Placed, Staged, Stops, bundle,
         disk, run, history, point, stores, trees, files
<1>5. CASE RecoverImport
  BY <1>5
     DEF WayInv, EvidenceNow, MemoryInv, TypeOK, Parts, Rehydrated, Placed, Staged, RecoverImport,
         bundle, point, trees, files, run, history
<1>6. CASE ReviveStart
  BY <1>6
     DEF WayInv, EvidenceNow, MemoryInv, TypeOK, Parts, Rehydrated, Placed, Staged, ReviveStart,
         MayRevive, bundle, point, stores, trees, files, history
<1>7. CASE WriteRecord
  BY <1>7
     DEF WayInv, EvidenceNow, MemoryInv, TypeOK, Parts, Rehydrated, Placed, Staged, WriteRecord,
         Goes, Refused, Fault, bundle, stores, trees, files, run, history
<1>8. CASE RenameCheckpoint
  BY <1>8
     DEF WayInv, EvidenceNow, MemoryInv, TypeOK, Parts, Rehydrated, Placed, Staged,
         RenameCheckpoint, Goes, Refused, Fault, bundle, stores, trees, files, run, history
<1>9. CASE RestoreOthers
  BY <1>9
     DEF WayInv, EvidenceNow, MemoryInv, TypeOK, Parts, Rehydrated, Placed, Staged, RestoreOthers,
         Goes, Refused, Fault, bundle, point, trees, files
<1>10. CASE BeginMemory
  BY <1>10
     DEF WayInv, EvidenceNow, MemoryInv, TypeOK, Parts, Rehydrated, Placed, Staged, BeginMemory,
         Goes, Refused, Fault, MarkImport, bundle, point, trees, files, run, history
<1>11. CASE ReplaceCollection
  BY <1>11
     DEF WayInv, EvidenceNow, MemoryInv, TypeOK, Parts, Rehydrated, Placed, Staged,
         ReplaceCollection, Goes, Refused, Fault, bundle, point, trees, files, run
<1>12. CASE EndMemory
  BY <1>12
     DEF WayInv, EvidenceNow, MemoryInv, TypeOK, Parts, Rehydrated, Placed, Staged, EndMemory,
         Goes, Refused, Fault, bundle, point, trees, files, history
<1>13. CASE ImportEnds
  BY <1>13
     DEF WayInv, EvidenceNow, MemoryInv, TypeOK, Parts, Rehydrated, Placed, Staged, ImportEnds,
         Goes, bundle, disk, run, history, point, stores, trees, files
<1>14. CASE ExtractEvidence
  BY <1>14
     DEF WayInv, EvidenceNow, MemoryInv, TypeOK, Parts, Rehydrated, Placed, Staged,
         ExtractEvidence, Goes, Refused, Fault, bundle, point, stores, files, run, history
<1>15. CASE MoveAside
  BY <1>15
     DEF WayInv, EvidenceNow, MemoryInv, TypeOK, Parts, Rehydrated, Placed, Staged, MoveAside,
         Goes, Refused, Fault, SetAside, bundle, point, stores, files, history
<1>16. CASE MoveIn
  BY <1>16
     DEF WayInv, EvidenceNow, MemoryInv, TypeOK, Parts, Rehydrated, Placed, Staged, MoveIn, Goes,
         Refused, Fault, AfterEvidence, bundle, point, stores, files, run, history
<1>17. CASE SetDevAside
  BY <1>17
     DEF WayInv, EvidenceNow, MemoryInv, TypeOK, Parts, Rehydrated, Placed, Staged, SetDevAside,
         Goes, Refused, Fault, bundle, point, stores, trees, run, history
<1>18. CASE ExtractDev
  BY <1>18
     DEF WayInv, EvidenceNow, MemoryInv, TypeOK, Parts, Rehydrated, Placed, Staged, ExtractDev,
         Goes, Refused, Fault, bundle, point, stores, trees, run, history
<1>19. CASE WriteStage
  BY <1>19
     DEF WayInv, EvidenceNow, MemoryInv, TypeOK, Parts, Rehydrated, Placed, Staged, WriteStage,
         Goes, Refused, Fault, bundle, point, stores, trees, run, history
<1>20. CASE PersistIdentity
  BY <1>20
     DEF WayInv, EvidenceNow, MemoryInv, TypeOK, Parts, Rehydrated, Placed, Staged,
         PersistIdentity, Goes, Refused, Fault, bundle, point, stores, trees, files, run, history
<1>21. CASE SaveCheckpoint
  BY <1>21
     DEF WayInv, EvidenceNow, MemoryInv, TypeOK, Parts, Rehydrated, Placed, Staged,
         SaveCheckpoint, Goes, Fault, bundle, stores, trees, files, run
<1>22. CASE DiscardCheckpoint
  BY <1>22
     DEF WayInv, EvidenceNow, MemoryInv, TypeOK, Parts, Rehydrated, Placed, Staged,
         DiscardCheckpoint, Goes, Refused, Fault, bundle, stores, trees, files, run, history
<1>23. CASE Down
  BY <1>23
     DEF WayInv, EvidenceNow, MemoryInv, TypeOK, Parts, Rehydrated, Placed, Staged, Down, Fault,
         bundle, stores, trees, files, run, history
<1>24. CASE UNCHANGED vars
  BY <1>24
     DEF WayInv, EvidenceNow, MemoryInv, TypeOK, Parts, Rehydrated, Placed, Staged, vars, bundle,
         disk, point, stores, trees, files, run, history
<1> QED  BY <1>1, <1>2, <1>3, <1>4, <1>5, <1>6, <1>7, <1>8, <1>9, <1>10, <1>11, <1>12, <1>13,
            <1>14, <1>15, <1>16, <1>17, <1>18, <1>19, <1>20, <1>21, <1>22, <1>23, <1>24
            DEF Next, ReviveStep

LEMMA TypeStep ==
  ASSUME TypeOK, [Next]_vars
  PROVE  TypeOK'
<1>1. CASE PlainStart
  <2>1. revived' \in BOOLEAN /\ restored' \in BOOLEAN
    BY <1>1 DEF TypeOK, PlainStart, Restorable
  <2> QED  BY <1>1, <2>1
              DEF TypeOK, Steps, PlainStart, Restorable, bundle, point, stores, trees, files,
                  history
<1>2. CASE Checkpoints
  <2>1. unsynced' \in BOOLEAN /\ touched' \in BOOLEAN
    BY <1>2 DEF TypeOK, Checkpoints
  <2> QED  BY <1>2, <2>1 DEF TypeOK, Steps, Checkpoints, bundle, stores, trees, files, run
<1>3. CASE Sleeps
  BY <1>3, ReviveAssumption
     DEF TypeOK, Steps, Parts, Sleeps, Blocked, bundle, disk, run, point, stores, trees, files
<1>4. CASE Stops
  BY <1>4, ReviveAssumption
     DEF TypeOK, Steps, Parts, Stops, bundle, disk, run, history, point, stores, trees, files
<1>5. CASE RecoverImport
  <2>1. mark' \in BOOLEAN
    BY <1>5 DEF TypeOK, RecoverImport
  <2> QED  BY <1>5, <2>1
              DEF TypeOK, Steps, RecoverImport, bundle, point, trees, files, run, history
<1>6. CASE ReviveStart
  <2>1. revived' \in BOOLEAN /\ restored' \in BOOLEAN
    BY <1>6 DEF TypeOK, ReviveStart
  <2> QED  BY <1>6, <2>1
              DEF TypeOK, Steps, Parts, ReviveStart, MayRevive, bundle, point, stores, trees,
                  files, history
<1>7. CASE WriteRecord
  <2>1. faults' \in 0..MaxFaults
    BY <1>7, ReviveAssumption DEF TypeOK, WriteRecord, Goes, Refused, Fault
  <2>2. pc' \in {"off", "live"} \cup Steps
    BY <1>7 DEF TypeOK, Steps, WriteRecord, Goes, Refused, Fault
  <2>3. record' \in BOOLEAN
    BY <1>7 DEF TypeOK, WriteRecord
  <2> QED  BY <1>7, <2>1, <2>2, <2>3
              DEF TypeOK, WriteRecord, Goes, Refused, Fault, bundle, stores, trees, files, run,
                  history
<1>8. CASE RenameCheckpoint
  <2>1. faults' \in 0..MaxFaults
    BY <1>8, ReviveAssumption DEF TypeOK, RenameCheckpoint, Goes, Refused, Fault
  <2>2. pc' \in {"off", "live"} \cup Steps
    BY <1>8 DEF TypeOK, Steps, RenameCheckpoint, Goes, Refused, Fault
  <2>3. aside' \in BOOLEAN /\ unsynced' \in BOOLEAN
    BY <1>8 DEF TypeOK, RenameCheckpoint
  <2> QED  BY <1>8, <2>1, <2>2, <2>3
              DEF TypeOK, RenameCheckpoint, Goes, Refused, Fault, bundle, stores, trees, files,
                  run, history
<1>9. CASE RestoreOthers
  <2>1. faults' \in 0..MaxFaults
    BY <1>9, ReviveAssumption DEF TypeOK, RestoreOthers, Goes, Refused, Fault
  <2>2. pc' \in {"off", "live"} \cup Steps
    BY <1>9 DEF TypeOK, Steps, RestoreOthers, Goes, Refused, Fault
  <2>3. touched' \in BOOLEAN
    BY <1>9 DEF TypeOK, RestoreOthers
  <2>4. todo' \subseteq Parts
    BY <1>9 DEF TypeOK, RestoreOthers
  <2> QED  BY <1>9, <2>1, <2>2, <2>3, <2>4
              DEF TypeOK, Parts, RestoreOthers, Goes, Refused, Fault, bundle, point, trees, files
<1>10. CASE BeginMemory
  <2>1. faults' \in 0..MaxFaults
    BY <1>10, ReviveAssumption DEF TypeOK, BeginMemory, Goes, Refused, Fault
  <2>2. pc' \in {"off", "live"} \cup Steps
    BY <1>10 DEF TypeOK, Steps, BeginMemory, Goes, Refused, Fault
  <2>3. mark' \in BOOLEAN
    BY <1>10 DEF TypeOK, BeginMemory, MarkImport
  <2> QED  BY <1>10, <2>1, <2>2, <2>3
              DEF TypeOK, BeginMemory, Goes, Refused, Fault, MarkImport, bundle, point, trees,
                  files, run, history
<1>11. CASE ReplaceCollection
  <2>1. faults' \in 0..MaxFaults
    BY <1>11, ReviveAssumption DEF TypeOK, ReplaceCollection, Goes, Refused, Fault
  <2>2. pc' \in {"off", "live"} \cup Steps
    BY <1>11 DEF TypeOK, Steps, ReplaceCollection, Goes, Refused, Fault
  <2>3. touched' \in BOOLEAN
    BY <1>11 DEF TypeOK, ReplaceCollection
  <2> QED  BY <1>11, <2>1, <2>2, <2>3
              DEF TypeOK, ReplaceCollection, Goes, Refused, Fault, bundle, point, trees, files,
                  run
<1>12. CASE EndMemory
  <2>1. faults' \in 0..MaxFaults
    BY <1>12, ReviveAssumption DEF TypeOK, EndMemory, Goes, Refused, Fault
  <2>2. pc' \in {"off", "live"} \cup Steps
    BY <1>12 DEF TypeOK, Steps, EndMemory, Goes, Refused, Fault
  <2>3. mark' \in BOOLEAN
    BY <1>12 DEF TypeOK, EndMemory
  <2>4. todo' \subseteq Parts
    BY <1>12 DEF TypeOK, EndMemory
  <2> QED  BY <1>12, <2>1, <2>2, <2>3, <2>4
              DEF TypeOK, Parts, EndMemory, Goes, Refused, Fault, bundle, point, trees, files,
                  history
<1>13. CASE ImportEnds
  BY <1>13, ReviveAssumption
     DEF TypeOK, Steps, Parts, ImportEnds, Goes, bundle, disk, run, history, point, stores, trees,
         files
<1>14. CASE ExtractEvidence
  <2>1. faults' \in 0..MaxFaults
    BY <1>14, ReviveAssumption DEF TypeOK, ExtractEvidence, Goes, Refused, Fault
  <2>2. pc' \in {"off", "live"} \cup Steps
    BY <1>14 DEF TypeOK, Steps, ExtractEvidence, Goes, Refused, Fault
  <2>3. staging' \in BOOLEAN
    BY <1>14 DEF TypeOK, ExtractEvidence
  <2> QED  BY <1>14, <2>1, <2>2, <2>3
              DEF TypeOK, ExtractEvidence, Goes, Refused, Fault, bundle, point, stores, files,
                  run, history
<1>15. CASE MoveAside
  <2>1. faults' \in 0..MaxFaults
    BY <1>15, ReviveAssumption DEF TypeOK, MoveAside, Goes, Refused, Fault
  <2>2. pc' \in {"off", "live"} \cup Steps
    BY <1>15 DEF TypeOK, Steps, MoveAside, Goes, Refused, Fault
  <2>3. replaced' \subseteq {"before", "bundle"}
    BY <1>15 DEF TypeOK, MoveAside, SetAside, trees
  <2> QED  BY <1>15, <2>1, <2>2, <2>3
              DEF TypeOK, MoveAside, Goes, Refused, Fault, SetAside, bundle, point, stores, files,
                  history
<1>16. CASE MoveIn
  <2>1. faults' \in 0..MaxFaults
    BY <1>16, ReviveAssumption DEF TypeOK, MoveIn, Goes, Refused, Fault
  <2>2. pc' \in {"off", "live"} \cup Steps
    BY <1>16 DEF TypeOK, Steps, MoveIn, Goes, Refused, Fault, AfterEvidence
  <2>3. staging' \in BOOLEAN
    BY <1>16 DEF TypeOK, MoveIn
  <2>4. replaced' \subseteq {"before", "bundle"}
    BY <1>16 DEF TypeOK, MoveIn
  <2> QED  BY <1>16, <2>1, <2>2, <2>3, <2>4
              DEF TypeOK, MoveIn, Goes, Refused, Fault, AfterEvidence, bundle, point, stores,
                  files, run, history
<1>17. CASE SetDevAside
  <2>1. faults' \in 0..MaxFaults
    BY <1>17, ReviveAssumption DEF TypeOK, SetDevAside, Goes, Refused, Fault
  <2>2. pc' \in {"off", "live"} \cup Steps
    BY <1>17 DEF TypeOK, Steps, SetDevAside, Goes, Refused, Fault
  <2> QED  BY <1>17, <2>1, <2>2
              DEF TypeOK, SetDevAside, Goes, Refused, Fault, bundle, point, stores, trees, run,
                  history
<1>18. CASE ExtractDev
  <2>1. faults' \in 0..MaxFaults
    BY <1>18, ReviveAssumption DEF TypeOK, ExtractDev, Goes, Refused, Fault
  <2>2. pc' \in {"off", "live"} \cup Steps
    BY <1>18 DEF TypeOK, Steps, ExtractDev, Goes, Refused, Fault
  <2> QED  BY <1>18, <2>1, <2>2
              DEF TypeOK, ExtractDev, Goes, Refused, Fault, bundle, point, stores, trees, run,
                  history
<1>19. CASE WriteStage
  <2>1. faults' \in 0..MaxFaults
    BY <1>19, ReviveAssumption DEF TypeOK, WriteStage, Goes, Refused, Fault
  <2>2. pc' \in {"off", "live"} \cup Steps
    BY <1>19 DEF TypeOK, Steps, WriteStage, Goes, Refused, Fault
  <2> QED  BY <1>19, <2>1, <2>2
              DEF TypeOK, WriteStage, Goes, Refused, Fault, bundle, point, stores, trees, run,
                  history
<1>20. CASE PersistIdentity
  <2>1. faults' \in 0..MaxFaults
    BY <1>20, ReviveAssumption DEF TypeOK, PersistIdentity, Goes, Refused, Fault
  <2>2. pc' \in {"off", "live"} \cup Steps
    BY <1>20 DEF TypeOK, Steps, PersistIdentity, Goes, Refused, Fault
  <2> QED  BY <1>20, <2>1, <2>2
              DEF TypeOK, PersistIdentity, Goes, Refused, Fault, bundle, point, stores, trees,
                  files, run, history
<1>21. CASE SaveCheckpoint
  <2>1. faults' \in 0..MaxFaults
    BY <1>21, ReviveAssumption DEF TypeOK, SaveCheckpoint, Goes, Fault
  <2>2. pc' \in {"off", "live"} \cup Steps
    BY <1>21 DEF TypeOK, Steps, SaveCheckpoint, Goes, Fault
  <2>3. unsynced' \in BOOLEAN /\ touched' \in BOOLEAN
    BY <1>21 DEF TypeOK, SaveCheckpoint
  <2> QED  BY <1>21, <2>1, <2>2, <2>3
              DEF TypeOK, SaveCheckpoint, Goes, Fault, bundle, stores, trees, files, run
<1>22. CASE DiscardCheckpoint
  <2>1. faults' \in 0..MaxFaults
    BY <1>22, ReviveAssumption DEF TypeOK, DiscardCheckpoint, Goes, Refused, Fault
  <2>2. pc' \in {"off", "live"} \cup Steps
    BY <1>22 DEF TypeOK, Steps, DiscardCheckpoint, Goes, Refused, Fault
  <2> QED  BY <1>22, <2>1, <2>2
              DEF TypeOK, DiscardCheckpoint, Goes, Refused, Fault, bundle, stores, trees, files,
                  run, history
<1>23. CASE Down
  <2>1. faults' \in 0..MaxFaults
    BY <1>23, ReviveAssumption DEF TypeOK, Down, Fault
  <2>2. pc' \in {"off", "live"} \cup Steps
    BY <1>23 DEF TypeOK, Steps, Down, Fault
  <2>3. aside' \in BOOLEAN /\ unsynced' \in BOOLEAN
    BY <1>23 DEF TypeOK, Down
  <2> QED  BY <1>23, <2>1, <2>2, <2>3
              DEF TypeOK, Down, Fault, bundle, stores, trees, files, run, history
<1>24. CASE UNCHANGED vars
  BY <1>24, ReviveAssumption
     DEF TypeOK, Steps, Parts, vars, bundle, disk, point, stores, trees, files, run, history
<1> QED  BY <1>1, <1>2, <1>3, <1>4, <1>5, <1>6, <1>7, <1>8, <1>9, <1>10, <1>11, <1>12, <1>13,
            <1>14, <1>15, <1>16, <1>17, <1>18, <1>19, <1>20, <1>21, <1>22, <1>23, <1>24
            DEF Next, ReviveStep

-----------------------------------------------------------------------------
(* The inductive invariant. *)
ReviveInv == TypeOK /\ PointInv /\ MemoryInv /\ WayInv

LEMMA ReviveInit == Init => ReviveInv
<1> SUFFICES ASSUME Init PROVE ReviveInv
  OBVIOUS
<1>1. PICK tree \in Trees :
        /\ identity = IF tree = "own" THEN "own" ELSE "none"
        /\ checkpoint \in IF tree = "own" THEN {"none", "newer"} ELSE {"none"}
        /\ evidence \in IF tree = "empty" THEN {"none"} ELSE {"none", "before"}
        /\ dev = [f \in DevFiles |-> IF tree = "empty" THEN "none" ELSE "before"]
        /\ stageFile = IF tree = "empty" THEN "none" ELSE "before"
  BY DEF Init
<1>2. dev \in [DevFiles -> {"none", "before", "bundle"}]
  BY <1>1
<1>3. TypeOK
  <2>1. /\ record \in BOOLEAN /\ aside \in BOOLEAN /\ unsynced \in BOOLEAN
        /\ mark \in BOOLEAN /\ staging \in BOOLEAN /\ revived \in BOOLEAN
        /\ restored \in BOOLEAN /\ touched \in BOOLEAN
    BY DEF Init
  <2>2. faults \in 0..MaxFaults
    BY ReviveAssumption DEF Init
  <2>3. /\ identity \in {"none", "own", "foreign"} /\ checkpoint \in {"none", "older", "newer"}
        /\ evidence \in {"none", "before", "bundle"} /\ stageFile \in {"none", "before", "bundle"}
    BY <1>1
  <2>4. /\ memory \in {"before", "partial", "bundle", "kept"} /\ others \in {"before", "bundle"}
        /\ replaced \subseteq {"before", "bundle"} /\ pc \in {"off", "live"} \cup Steps
        /\ scaled \in {"none", "before", "partial", "bundle", "kept"}
        /\ todo \subseteq Parts /\ moved \in {"none", "before", "bundle"}
        /\ evidenceCarried \in BOOLEAN /\ stageCarried \in BOOLEAN
    BY DEF Init
  <2> QED  BY <1>2, <2>1, <2>2, <2>3, <2>4 DEF TypeOK
<1>4. PointInv /\ MemoryInv /\ WayInv
  BY DEF Init, PointInv, MemoryInv, WayInv, Recorded, Rehydrated, Placed, Staged
<1> QED  BY <1>3, <1>4 DEF ReviveInv

LEMMA Inductive == Spec => []ReviveInv
<1>1. ReviveInv /\ [Next]_vars => ReviveInv'
  BY TypeStep, PointStep, MemoryStep, WayStep DEF ReviveInv
<1> QED  BY ReviveInit, <1>1, PTL DEF Spec

(* revive_into, _apply_revive: the files and the process stay in the forms *)
(* the code knows.                                                         *)
THEOREM ReviveTypeCorrect == Spec => []TypeOK
<1>1. ReviveInv => TypeOK
  BY DEF ReviveInv
<1> QED  BY Inductive, <1>1, PTL

(* import_state, downscale: however an import of the memory ends, no sleep *)
(* works on collections of which only some were replaced.                  *)
THEOREM PartialNeverSlept == Spec => []PartialNeverScaled
<1>1. ReviveInv => PartialNeverScaled
  BY DEF ReviveInv, MemoryInv, PartialNeverScaled
<1> QED  BY Inductive, <1>1, PTL

-----------------------------------------------------------------------------
(* What a step may not do. *)

(* Only a plain start restores, and it finds a checkpoint newer than the   *)
(* record only while nothing was replaced since it was made.               *)
LEMMA RestoreStep ==
  ASSUME ReviveInv, [Next]_vars
  PROVE  restored' /\ ~restored => ~touched
<1>1. CASE PlainStart
  BY <1>1 DEF PlainStart, Restorable, ReviveInv, PointInv
<1>2. CASE ReviveStart
  BY <1>2 DEF ReviveStart
<1>3. CASE ~PlainStart /\ ~ReviveStart
  <2>1. restored' = restored
    BY <1>3 DEF Next, ReviveStep, Checkpoints, Sleeps, Stops, RecoverImport, WriteRecord,
      RenameCheckpoint, RestoreOthers, BeginMemory, ReplaceCollection, EndMemory, ImportEnds,
      ExtractEvidence, MoveAside, MoveIn, SetDevAside, ExtractDev, WriteStage,
      PersistIdentity, SaveCheckpoint, DiscardCheckpoint, Down, run, vars
  <2> QED  BY <2>1
<1> QED  BY <1>1, <1>2, <1>3

(* restore_checkpoint, set_aside_for_revive: wherever a revive stopped and *)
(* whatever renaming the disk forgot, no plain start lays a checkpoint of  *)
(* the life before over stores that were replaced since.                   *)
THEOREM NoStaleCheckpoint == Spec => NoStaleRestore
<1>1. ReviveInv /\ [Next]_vars => [restored' /\ ~restored => ~touched]_vars
  BY RestoreStep
<1> QED  BY Inductive, <1>1, PTL DEF Spec, NoStaleRestore

(* Evidence leaves its place only to be set aside, and comes back from     *)
(* there only into its place.                                              *)
LEMMA EvidenceStep ==
  ASSUME ReviveInv, [Next]_vars
  PROVE  /\ evidence = "before" \/ "before" \in replaced
              => (evidence = "before" \/ "before" \in replaced)'
         /\ pc = "replace" => evidence = IF evidenceCarried THEN "bundle" ELSE "none"
<1>1. pc = "replace" => evidence = IF evidenceCarried THEN "bundle" ELSE "none"
  BY DEF ReviveInv, WayInv, Placed, EvidenceNow
<1>2. CASE MoveAside
  BY <1>1, <1>2 DEF MoveAside, SetAside
<1>3. CASE MoveIn
  <2>1. evidence = "none"
    BY <1>3 DEF MoveIn, ReviveInv, WayInv
  <2> QED  BY <1>1, <1>3, <2>1 DEF MoveIn
<1>4. CASE ~MoveAside /\ ~MoveIn
  <2>1. evidence' = evidence /\ replaced' = replaced
    BY <1>4 DEF Next, ReviveStep, PlainStart, Checkpoints, Sleeps, Stops, RecoverImport,
      ReviveStart, WriteRecord, RenameCheckpoint, RestoreOthers, BeginMemory,
      ReplaceCollection, EndMemory, ImportEnds, ExtractEvidence, SetDevAside, ExtractDev,
      WriteStage, PersistIdentity, SaveCheckpoint, DiscardCheckpoint, Down, disk, trees, vars
  <2> QED  BY <1>1, <2>1
<1> QED  BY <1>2, <1>3, <1>4

(* ReviveSession.revive: interrupted, failed or repeated, it never loses   *)
(* the evidence of the life before nor runs with another's.                *)
THEOREM EvidenceNeverLost == Spec => EvidenceKept
<1>1. ReviveInv /\ [Next]_vars =>
        [/\ evidence = "before" \/ "before" \in replaced
              => (evidence = "before" \/ "before" \in replaced)'
         /\ pc = "replace" => evidence = IF evidenceCarried THEN "bundle" ELSE "none"]_vars
  BY EvidenceStep
<1> QED  BY Inductive, <1>1, PTL DEF Spec, EvidenceKept

(* The stage is written, and the identity, only with everything before it  *)
(* in place.                                                               *)
LEMMA NameStep ==
  ASSUME ReviveInv, [Next]_vars
  PROVE  /\ stageFile # "bundle" /\ stageFile' = "bundle" => Whole
         /\ identity = "none" /\ identity' = "own"
              => Whole /\ (stageCarried => stageFile = "bundle")
<1>1. CASE WriteStage
  <2>1. Whole
    BY <1>1 DEF WriteStage, Whole, ReviveInv, WayInv, EvidenceNow, Rehydrated, Placed, Staged
  <2> QED  BY <1>1, <2>1 DEF WriteStage
<1>2. CASE PersistIdentity
  <2>1. Whole /\ (stageCarried => stageFile = "bundle")
    BY <1>2 DEF PersistIdentity, Whole, ReviveInv, WayInv, EvidenceNow, Rehydrated, Placed, Staged
  <2> QED  BY <2>1
<1>3. CASE PlainStart
  BY <1>3 DEF PlainStart, files
<1>4. CASE ReviveStart
  BY <1>4 DEF ReviveStart, files
<1>5. CASE ~WriteStage /\ ~PersistIdentity /\ ~PlainStart /\ ~ReviveStart
  <2>1. stageFile' = stageFile /\ identity' = identity
    BY <1>5 DEF Next, ReviveStep, Checkpoints, Sleeps, Stops, RecoverImport, WriteRecord,
      RenameCheckpoint, RestoreOthers, BeginMemory, ReplaceCollection, EndMemory, ImportEnds,
      ExtractEvidence, MoveAside, MoveIn, SetDevAside, ExtractDev, SaveCheckpoint,
      DiscardCheckpoint, Down, disk, files, vars
  <2> QED  BY <2>1
<1> QED  BY <1>1, <1>2, <1>3, <1>4, <1>5

(* _apply_revive: the stage of the bundle and, in an unnamed tree, its     *)
(* identity appear only over the whole individual.                         *)
THEOREM NamedWhenWhole == Spec => LandedBeforeNamed
<1>1. ReviveInv /\ [Next]_vars =>
        [/\ stageFile # "bundle" /\ stageFile' = "bundle" => Whole
         /\ identity = "none" /\ identity' = "own"
              => Whole /\ (stageCarried => stageFile = "bundle")]_vars
  BY NameStep
<1> QED  BY Inductive, <1>1, PTL DEF Spec, LandedBeforeNamed

-----------------------------------------------------------------------------
(* Decommission: the volume, as train() and the trainer services leave it. *)

AtJob == {"device", "train", "convert", "converting", "finish", "mark"}
Busy(s) == svc[s].pc \in AtJob
Nobody(j) == \A s \in Services : Busy(s) => svc[s].job # j

(* What a service at a job may rely on: its mark keeps the others out, and  *)
(* the result and the adapter are as its own step has left them.           *)
Served(r, w) ==
  /\ r.at # "none" /\ r.mark # "READY" /\ ~r.done
  /\ w.pc # "mark" => r.result # "final"
  /\ w.pc \in {"device", "train"} /\ r.at = "dir" => r.result = "none" /\ r.mark = "CLAIMED"
  /\ w.pc = "finish" /\ w.ok /\ r.at = "dir" => r.adapter = "gguf"
  /\ w.pc = "mark" /\ r.at = "dir" => r.result \in {"final", "failed"}

Alone(s) == \A t \in Services : Busy(t) /\ svc[t].job = svc[s].job => t = s

ServiceInv ==
  \A s \in Services :
    /\ svc[s].pc \in AtJob \cup {"found"} => svc[s].job \in Jobs
    /\ Busy(s) => Served(job[svc[s].job], svc[s]) /\ Alone(s)

(* What the files of a job say of each other. *)
Written(r) ==
  /\ r.result = "final" => r.adapter = "gguf"
  /\ r.done => r.result \in {"final", "failed"} /\ r.mark # "READY"
  /\ r.mark = "READY" => r.result = "none" /\ r.at = "dir"

FilesInv == \A j \in Jobs : Written(job[j])

(* train() is alone with its job until it is ready, and after it is done. *)
TrainInv ==
  /\ cyc \in {"off", "idle"} <=> task = NoJob
  /\ cyc \in {"spec", "filled"} =>
       /\ job[task].mark = "none" /\ job[task].result = "none" /\ ~job[task].done
       /\ Nobody(task)
  /\ cyc = "promoting" =>
       /\ Here(task) => job[task].done /\ job[task].result = "final"
       /\ job[task].mark # "READY" /\ Nobody(task)

Service == [pc : {"look", "found", "device", "train", "convert", "converting", "finish",
                  "mark", "raised"}, job : Jobs \cup {NoJob}, ok : BOOLEAN]

JobsInv == VolumeTypeOK /\ ServiceInv /\ FilesInv /\ TrainInv /\ PromotedWhole

(* What a run has behind it at each of its steps. *)
RunInv ==
  /\ step # "idle" => cyc = "off"
  /\ step \in {"idle", "cancel1", "copy", "ask", "cancel2"} => failed = {}
  /\ step \in {"cancel1", "copy", "ask", "cancel2"} => untried = Colls
  /\ step \in {"drop", "stamp"} => failed \subseteq {"coll"}
  /\ step \in {"ask", "cancel2", "drop", "stamp", "redis", "disk", "removing"} =>
       Captured \subseteq saved
  /\ step = "drop" /\ failed = {} => left \cap Colls \subseteq untried
  /\ step = "stamp" /\ failed = {} => left \cap Colls = {}
  /\ step = "redis" /\ failed = {} => left \cap (Colls \cup Meta) = {}
  /\ step \in {"disk", "removing"} => left \cap Remote = {}
  /\ step = "removing" => at <= Len(Order) /\ Location \notin whole /\ (Location \in ByIdentity => owned)

(* A job that the cancellation has passed is trained only behind it or     *)
(* after the wait for it ran out; once the deletion begins it has passed   *)
(* every job that may still be trained.                                    *)
CancelInv ==
  /\ \A s \in Services :
       Trains(s) /\ svc[s].job \in cancel.seen => svc[s].job \in raced \cup cancel.stuck
  /\ step \in {"drop", "stamp", "redis", "disk", "removing"} =>
       /\ ~asserted => cancel.stuck = {}
       /\ owned => \A j \in Jobs : Here(j) /\ job[j].result = "none" => j \in cancel.seen

(* What the report stands on: the run has passed each location it is past,  *)
(* and nothing runs after the entity is reported deleted.                  *)
ReportInv ==
  /\ torn \in BOOLEAN
  /\ ReportedGone
  /\ audit = "deleted" => step = "idle"
  /\ step \notin {"disk", "removing", "audit"} => at = 1
  /\ step \in {"disk", "removing"} /\ failed = {} =>
       \A i \in 1 .. (at - 1) : Order[i] \in left => Order[i] \in ByIdentity
  /\ step = "audit" /\ failed = {} => left \subseteq ByIdentity

DecommissionInv ==
  JobsInv /\ DecommissionTypeOK /\ TouchedInOrder /\ RunInv /\ CancelInv /\ ReportInv
-----------------------------------------------------------------------------
LEMMA LeastNat ==
  ASSUME NEW S, S \subseteq Nat, S # {}
  PROVE  \E m \in S : \A k \in S : m <= k
<1> DEFINE Upto == {0 .. k : k \in S}
           R == StrictSubsetOrdering(Nat)
           F == FiniteSubsetsOf(Nat)
<1>1. IsWellFoundedOn(R, F)
  BY FS_StrictSubsetOrderingWellFounded
<1>2. \A k \in Nat : 0 .. k \in F
  BY FS_Interval DEF FiniteSubsetsOf
<1>3. \A k, m \in Nat : k < m => <<0 .. k, 0 .. m>> \in R
  <2> SUFFICES ASSUME NEW k \in Nat, NEW m \in Nat, k < m
               PROVE  <<0 .. k, 0 .. m>> \in R
    OBVIOUS
  <2>1. 0 .. k \in SUBSET Nat /\ 0 .. m \in SUBSET Nat /\ 0 .. k \subseteq 0 .. m
    OBVIOUS
  <2>2. m \in 0 .. m /\ m \notin 0 .. k
    OBVIOUS
  <2>3. 0 .. k # 0 .. m
    BY <2>2
  <2> QED  BY <2>1, <2>3 DEF StrictSubsetOrdering
<1>4. Upto \subseteq F /\ Upto # {}
  BY <1>2
<1> HIDE DEF R, F
<1>5. \E u \in Upto : \A v \in Upto : <<v, u>> \notin R
  BY <1>1, <1>4, WFMin
<1>6. PICK m \in S : \A k \in S : <<0 .. k, 0 .. m>> \notin R
  BY <1>5
<1>7. \A k \in S : k \in Nat /\ m \in Nat /\ ~ (k < m)
  BY <1>3, <1>6
<1>8. \A k \in S : m <= k
  BY <1>7
<1> QED  BY <1>8

(* find_ready_jobs, cancel_voice_alignment_jobs: in the order of the names. *)
LEMMA LeastJob ==
  ASSUME NEW S \in SUBSET Jobs, S # {}
  PROVE  Least(S) \in S
<1>1. S \subseteq Nat
  BY VoiceJobsAssumption DEF Jobs
<1>2. \E m \in S : \A k \in S : m <= k
  BY <1>1, LeastNat
<1> QED  BY <1>2 DEF Least

LEMMA InitJobs == DecommissionInit => JobsInv
<1> SUFFICES ASSUME DecommissionInit PROVE JobsInv
  OBVIOUS
<1>1. /\ \A j \in Jobs : job[j] = Absent
      /\ \A s \in Services : ~ Busy(s) /\ svc[s].pc = "look"
  BY DEF DecommissionInit, VolumeInit, Working, Busy, AtJob
<1>2. VolumeTypeOK
  BY VoiceJobsAssumption
     DEF DecommissionInit, VolumeInit, VolumeTypeOK, Working, Absent, Job, NoJob, Jobs
<1>3. ServiceInv
  BY <1>1 DEF ServiceInv, AtJob
<1>4. FilesInv
  BY <1>1 DEF FilesInv, Written, Absent
<1>5. TrainInv /\ PromotedWhole
  BY DEF DecommissionInit, VolumeInit, TrainInv, PromotedWhole
<1> QED  BY <1>2, <1>3, <1>4, <1>5 DEF JobsInv
-----------------------------------------------------------------------------
(* train(). *)

(* A step that changes no service keeps what they rely on. *)
LEMMA ForTheServices ==
  ASSUME JobsInv, svc' = svc,
         \A j \in Jobs : Written(job'[j]),
         \A s \in Services : Busy(s) => Served(job'[svc[s].job], svc[s])
  PROVE  ServiceInv' /\ FilesInv'
<1>1. FilesInv'
  BY DEF FilesInv
<1>2. ServiceInv'
  BY DEF JobsInv, ServiceInv, Busy, Alone
<1> QED  BY <1>1, <1>2

LEMMA TrainJobs ==
  ASSUME JobsInv, Train
  PROVE  JobsInv'
<1> DEFINE fresh == {j \in Jobs : job[j].at = "none"}
           new == Least(fresh)
<1>1. new \in Jobs /\ job[new].at = "none"
  BY LeastJob DEF Train
<1> HIDE DEF fresh, new
<1>2. /\ cyc' = "spec" /\ task' = new /\ svc' = svc /\ store' = store /\ crashes' = crashes
      /\ job' = [j \in Jobs |-> IF j = new THEN [Absent EXCEPT !.at = "dir"] ELSE Scrubbed(job[j])]
  BY DEF Train, fresh, new
<1>3. \A j \in Jobs : job[j] \in Job /\ Written(job[j])
  BY DEF JobsInv, VolumeTypeOK, FilesInv
<1>4. \A j \in Jobs : Scrubbed(job[j]) \in Job /\ Written(Scrubbed(job[j]))
  BY <1>3 DEF Job, Scrubbed, Written
<1>5. [Absent EXCEPT !.at = "dir"] \in Job /\ Written([Absent EXCEPT !.at = "dir"])
  BY DEF Absent, Job, Written
<1>6. VolumeTypeOK'
  BY <1>1, <1>2, <1>4, <1>5 DEF JobsInv, VolumeTypeOK
<1>7. Nobody(new)
  BY <1>1 DEF JobsInv, ServiceInv, Served, Nobody, Busy
<1>8. \A s \in Services : Busy(s) => Served(job'[svc[s].job], svc[s])
  <2> SUFFICES ASSUME NEW s \in Services, Busy(s)
               PROVE  Served(job'[svc[s].job], svc[s])
    OBVIOUS
  <2>1. svc[s].job \in Jobs /\ svc[s].job # new /\ Served(job[svc[s].job], svc[s])
    BY <1>7 DEF JobsInv, ServiceInv, Nobody, Busy
  <2>2. job'[svc[s].job] = Scrubbed(job[svc[s].job]) /\ job[svc[s].job] \in Job
    BY <1>2, <1>3, <2>1
  <2> QED  BY <2>1, <2>2 DEF Served, Scrubbed, Job
<1>9. ServiceInv' /\ FilesInv'
  BY <1>2, <1>4, <1>5, <1>8, ForTheServices
<1>10. TrainInv' /\ PromotedWhole'
  BY <1>1, <1>2, <1>7 DEF JobsInv, TrainInv, PromotedWhole, Nobody, Busy, Absent, NoJob, Jobs
<1> QED  BY <1>6, <1>9, <1>10 DEF JobsInv

(* A write of train() into its own job. *)
LEMMA TaskJobs ==
  ASSUME JobsInv, task \in Jobs, NEW r \in Job,
         job' = [job EXCEPT ![task] = r], svc' = svc, store' = store, crashes' = crashes,
         Written(r),
         \A s \in Services : Busy(s) /\ svc[s].job = task => Served(r, svc[s]),
         cyc' \in {"idle", "filled", "polling", "promoting"}, task' \in Jobs \cup {NoJob},
         TrainInv'
  PROVE  JobsInv'
<1>1. /\ job'[task] = r
      /\ \A j \in Jobs \ {task} : job'[j] = job[j]
  BY DEF JobsInv, VolumeTypeOK
<1>2. VolumeTypeOK'
  BY DEF JobsInv, VolumeTypeOK
<1>3. \A j \in Jobs : Written(job'[j])
  BY <1>1 DEF JobsInv, FilesInv
<1>4. \A s \in Services : Busy(s) => svc[s].job \in Jobs /\ Served(job[svc[s].job], svc[s])
  BY DEF JobsInv, ServiceInv, Busy
<1>5. \A s \in Services : Busy(s) => Served(job'[svc[s].job], svc[s])
  BY <1>1, <1>4
<1>6. ServiceInv' /\ FilesInv'
  BY <1>3, <1>5, ForTheServices
<1>7. PromotedWhole'
  BY DEF JobsInv, PromotedWhole
<1> QED  BY <1>2, <1>6, <1>7 DEF JobsInv

(* What train() writes into its job changes nothing the others rely on. *)
LEMMA CycleJobs ==
  ASSUME JobsInv, WriteSpec \/ MakeReady \/ Raise \/ SeeDone \/ Promote \/ GiveUp
  PROVE  JobsInv'
<1>1. /\ task \in Jobs /\ job \in [Jobs -> Job] /\ job[task] \in Job /\ Written(job[task])
      /\ \A s \in Services : Busy(s) /\ svc[s].job = task => Served(job[task], svc[s])
  BY DEF WriteSpec, MakeReady, Raise, SeeDone, Promote, GiveUp, JobsInv, VolumeTypeOK, ServiceInv,
         FilesInv, TrainInv, Busy
<1>2. CASE WriteSpec
  <2> DEFINE r == [job[task] EXCEPT !.pairs = TRUE]
  <2>1. r \in Job /\ Written(r)
    BY <1>1 DEF Job, Written
  <2>2. \A s \in Services : Busy(s) /\ svc[s].job = task => Served(r, svc[s])
    BY <1>1 DEF Job, Served
  <2>3. job' = [job EXCEPT ![task] = r] /\ cyc = "spec" /\ cyc' = "filled"
        /\ UNCHANGED <<task, svc, store, crashes>>
    BY <1>2 DEF WriteSpec
  <2>4. TrainInv'
    BY <1>1, <2>3 DEF JobsInv, TrainInv, Nobody, Busy, Job
  <2> QED  BY <1>1, <2>1, <2>2, <2>3, <2>4, TaskJobs
<1>3. CASE MakeReady
  <2> DEFINE r == [job[task] EXCEPT !.mark = "READY"]
  <2>1. job' = [job EXCEPT ![task] = r] /\ cyc = "filled" /\ cyc' = "polling" /\ job[task].at = "dir"
        /\ UNCHANGED <<task, svc, store, crashes>>
    BY <1>3 DEF MakeReady, Here
  <2>2. job[task].result = "none" /\ ~job[task].done /\ Nobody(task)
    BY <2>1 DEF JobsInv, TrainInv
  <2>3. r \in Job /\ Written(r)
    BY <1>1, <2>1, <2>2 DEF Job, Written
  <2>4. TrainInv'
    BY <1>1, <2>1 DEF TrainInv, NoJob, Jobs
  <2> QED  BY <1>1, <2>1, <2>2, <2>3, <2>4, TaskJobs DEF Nobody
<1>4. Scrubbed(job[task]) \in Job /\ Written(Scrubbed(job[task]))
  BY <1>1 DEF Job, Written, Scrubbed
<1>5. \A s \in Services : Busy(s) /\ svc[s].job = task => Served(Scrubbed(job[task]), svc[s])
  BY <1>1 DEF Job, Served, Scrubbed
<1>6. ASSUME cyc' = "idle", task' = NoJob PROVE TrainInv'
  BY <1>6 DEF TrainInv
<1>7. CASE Raise
  BY <1>1, <1>4, <1>5, <1>6, <1>7, TaskJobs DEF Raise, Return
<1>8. CASE SeeDone
  <2>1. CASE ~ Accepted(task)
    BY <1>1, <1>4, <1>5, <1>6, <1>8, <2>1, TaskJobs DEF SeeDone, Return
  <2>2. CASE Accepted(task)
    <3>1. /\ job' = [job EXCEPT ![task] = Scrubbed(job[task])] /\ cyc' = "promoting"
          /\ UNCHANGED <<task, svc, store, crashes>> /\ job[task].done
      BY <1>8, <2>2 DEF SeeDone, Finished
    <3>2. /\ job[task].result = "final" /\ job[task].mark # "READY"
      BY <1>1, <2>2, <3>1 DEF Written, Accepted
    <3>3. Nobody(task)
      BY <1>1, <3>1 DEF Served, Nobody
    <3>4. job'[task] = Scrubbed(job[task])
      BY <1>1, <3>1
    <3>5. TrainInv'
      BY <1>1, <3>1, <3>2, <3>3, <3>4 DEF TrainInv, Scrubbed, Job, Nobody, Busy, NoJob, Jobs
    <3> QED  BY <1>1, <1>4, <1>5, <3>1, <3>5, TaskJobs
  <2> QED  BY <2>1, <2>2
<1>9. CASE Promote
  <2>1. /\ cyc' = "idle" /\ task' = NoJob /\ UNCHANGED <<job, svc, crashes>>
        /\ store' = store \/ (Here(task) /\ job[task].adapter \in {"partial", "gguf"}
                              /\ store' = [store EXCEPT ![task] = job[task].adapter])
    BY <1>9 DEF Promote
  <2>2. Here(task) => job[task].adapter = "gguf"
    BY <1>1, <1>9 DEF Promote, JobsInv, TrainInv, Written
  <2>3. PromotedWhole' /\ VolumeTypeOK'
    BY <2>1, <2>2 DEF JobsInv, VolumeTypeOK, PromotedWhole
  <2>4. ServiceInv' /\ FilesInv'
    BY <2>1 DEF JobsInv, ServiceInv, FilesInv, Busy, Alone
  <2> QED  BY <1>6, <2>1, <2>3, <2>4 DEF JobsInv
<1>10. CASE GiveUp
  <2> DEFINE r == [Scrubbed(job[task]) EXCEPT !.cancelled = Here(task)]
  <2>1. job' = [job EXCEPT ![task] = r]
    BY <1>10 DEF GiveUp
  <2>2. Here(task) \in BOOLEAN
    BY DEF Here
  <2>3. r \in Job /\ Written(r)
    BY <1>4, <2>2 DEF Job, Written
  <2>4. \A s \in Services : Busy(s) /\ svc[s].job = task => Served(r, svc[s])
    BY <1>4, <1>5 DEF Job, Served
  <2>5. cyc' = "idle" /\ task' = NoJob /\ UNCHANGED <<svc, store, crashes>>
    BY <1>10 DEF GiveUp, Return
  <2> HIDE DEF r
  <2> QED  BY <1>1, <1>6, <2>1, <2>3, <2>4, <2>5, TaskJobs
<1> QED  BY <1>2, <1>3, <1>7, <1>8, <1>9, <1>10
-----------------------------------------------------------------------------
(* The services. *)

(* A step of a service, with what it writes into the job that is its own. *)
LEMMA ServiceJobs ==
  ASSUME JobsInv, NEW s \in Services, NEW j \in Jobs, NEW r \in Job, NEW w \in Service,
         job' = [job EXCEPT ![j] = r], svc' = [svc EXCEPT ![s] = w],
         UNCHANGED <<cyc, task, store>>, crashes' \in 0 .. MaxCrashes,
         Written(r), r = job[j] \/ \A t \in Services \ {s} : Busy(t) => svc[t].job # j,
         w.pc \in AtJob \cup {"found"} => w.job \in Jobs,
         w.pc \in AtJob => /\ w.job = j /\ Served(r, w)
                           /\ \A t \in Services \ {s} : Busy(t) => svc[t].job # j,
         r # job[j] \/ w.pc \in AtJob => ~ (cyc \in {"spec", "filled", "promoting"} /\ task = j)
  PROVE  JobsInv'
<1>1. /\ job'[j] = r /\ \A i \in Jobs \ {j} : job'[i] = job[i]
      /\ svc'[s] = w /\ \A t \in Services \ {s} : svc'[t] = svc[t]
  BY DEF JobsInv, VolumeTypeOK
<1>2. VolumeTypeOK'
  BY DEF JobsInv, VolumeTypeOK, Service
<1>3. FilesInv'
  BY <1>1 DEF JobsInv, FilesInv
<1>4. \A t \in Services \ {s} : Busy(t)' => /\ Busy(t) /\ svc[t].job \in Jobs /\ Alone(t)
                                            /\ Served(job'[svc[t].job], svc'[t])
  BY <1>1 DEF JobsInv, ServiceInv, Busy
<1>5. Busy(s)' => svc'[s].job = j /\ Served(job'[j], svc'[s])
  BY <1>1 DEF Busy
<1>6. ASSUME NEW t \in Services, Busy(t)' PROVE Served(job'[svc'[t].job], svc'[t])
  BY <1>1, <1>4, <1>5, <1>6
<1>7. ASSUME NEW t \in Services, Busy(t)', NEW u \in Services, Busy(u)', svc'[u].job = svc'[t].job
      PROVE  u = t
  <2>1. CASE t # s /\ u # s
    BY <1>1, <1>4, <1>7, <2>1 DEF Alone
  <2>2. CASE t = s /\ u # s
    BY <1>1, <1>4, <1>5, <1>7, <2>2 DEF Busy
  <2>3. CASE t # s /\ u = s
    BY <1>1, <1>4, <1>5, <1>7, <2>3 DEF Busy
  <2> QED  BY <2>1, <2>2, <2>3
<1>8. \A t \in Services : svc'[t].pc \in AtJob \cup {"found"} => svc'[t].job \in Jobs
  BY <1>1 DEF JobsInv, ServiceInv
<1>9. ServiceInv'
  BY <1>6, <1>7, <1>8 DEF ServiceInv, Alone
<1>10. ASSUME NEW i \in Jobs, i # j \/ ~ (w.pc \in AtJob), Nobody(i) PROVE Nobody(i)'
  BY <1>1, <1>10 DEF Nobody, Busy
<1>11. TrainInv'
  BY <1>1, <1>10 DEF JobsInv, VolumeTypeOK, TrainInv, Here, NoJob
<1>12. PromotedWhole'
  BY DEF JobsInv, PromotedWhole
<1> QED  BY <1>2, <1>3, <1>9, <1>11, <1>12 DEF JobsInv

(* A service that leaves its job, or looks for another. *)
LEMMA LeaveJobs ==
  ASSUME JobsInv, NEW s \in Services, NEW w \in Service, w.pc \notin AtJob,
         w.pc = "found" => w.job \in Jobs, svc' = [svc EXCEPT ![s] = w],
         UNCHANGED <<cyc, task, store, job>>, crashes' \in 0 .. MaxCrashes
  PROVE  JobsInv'
<1>1. 1 \in Jobs /\ job \in [Jobs -> Job] /\ \A j \in Jobs : Written(job[j])
  BY VoiceJobsAssumption DEF Jobs, JobsInv, VolumeTypeOK, FilesInv
<1>2. job[1] \in Job /\ job' = [job EXCEPT ![1] = job[1]] /\ Written(job[1])
  BY <1>1
<1> QED  BY <1>2, <1>1, ServiceJobs

LEMMA ServeJobs ==
  ASSUME JobsInv, NEW s \in Services, Serve(s)
  PROVE  JobsInv'
<1> DEFINE j == svc[s].job
<1>1. /\ svc \in [Services -> Service] /\ svc[s] \in Service /\ crashes \in 0 .. MaxCrashes
      /\ job \in [Jobs -> Job] /\ \A i \in Jobs : job[i] \in Job /\ Written(job[i])
      /\ Working \in Service
  BY DEF JobsInv, VolumeTypeOK, Service, FilesInv, Working
<1>2. /\ svc[s].pc \in AtJob \cup {"found"} => j \in Jobs
      /\ Busy(s) => /\ j \in Jobs /\ Served(job[j], svc[s])
                    /\ \A t \in Services \ {s} : Busy(t) => svc[t].job # j
                    /\ ~ (cyc \in {"spec", "filled", "promoting"} /\ task = j)
  BY DEF JobsInv, ServiceInv, Busy, Alone, TrainInv, Nobody
<1>3. CASE Look(s)
  <2> DEFINE ready == {i \in Jobs : IsReady(i)}
             w == [svc[s] EXCEPT !.pc = "found", !.job = Least(ready)]
  <2>1. Least(ready) \in Jobs
    BY <1>3, LeastJob DEF Look
  <2>2. svc' = [svc EXCEPT ![s] = w] /\ UNCHANGED <<cyc, task, store, job, crashes>>
    BY <1>1, <1>3 DEF Look, cycle, Service
  <2> HIDE DEF ready
  <2>3. w \in Service /\ w.pc = "found" /\ w.job \in Jobs
    BY <1>1, <2>1 DEF Service
  <2> HIDE DEF w
  <2> QED  BY <1>1, <2>2, <2>3, LeaveJobs DEF AtJob
<1>4. CASE Claim(s)
  <2>1. CASE ~ Claimable(j)
    BY <1>1, <1>4, <2>1, LeaveJobs DEF Claim, cycle, Working, AtJob
  <2>2. CASE Claimable(j)
    <3> DEFINE r == [job[j] EXCEPT !.mark = "CLAIMED"]
               w == [svc[s] EXCEPT !.pc = "device"]
    <3>1. j \in Jobs /\ job[j].mark = "READY" /\ job[j].at = "dir"
      BY <1>2, <1>4, <2>2 DEF Claim, Claimable, Here
    <3>2. job' = [job EXCEPT ![j] = r] /\ svc' = [svc EXCEPT ![s] = w]
          /\ UNCHANGED <<cyc, task, store, crashes>>
      BY <1>4, <2>2 DEF Claim, Enters, cycle
    <3>3. \A t \in Services \ {s} : Busy(t) => svc[t].job # j
      BY <3>1 DEF JobsInv, ServiceInv, Served
    <3>4. ~ (cyc \in {"spec", "filled", "promoting"} /\ task = j)
      BY <3>1 DEF JobsInv, TrainInv
    <3>5. r \in Job /\ w \in Service
      BY <1>1, <3>1 DEF Job, Service
    <3>6. Written(r) /\ Served(r, w)
      BY <1>1, <3>1, <3>5 DEF Written, Served, Job, Service
    <3>7. w.pc \in AtJob /\ w.job = j
      BY <1>1 DEF AtJob, Service
    <3> HIDE DEF r, w, j
    <3> QED  BY <1>1, <3>1, <3>2, <3>3, <3>4, <3>5, <3>6, <3>7, ServiceJobs
  <2> QED  BY <2>1, <2>2
<1>5. ASSUME Busy(s), NEW r \in Job, NEW w \in Service, job' = [job EXCEPT ![j] = r],
             svc' = [svc EXCEPT ![s] = w], UNCHANGED <<cyc, task, store, crashes>>,
             Written(r), w.pc \in AtJob => w.job = j /\ Served(r, w), w.pc # "found"
      PROVE  JobsInv'
  BY <1>1, <1>2, <1>5, ServiceJobs
<1>6. ASSUME Busy(s), NEW w \in Service, job' = job,
             svc' = [svc EXCEPT ![s] = w], UNCHANGED <<cyc, task, store, crashes>>,
             w.pc \in AtJob => w.job = j /\ Served(job[j], w), w.pc # "found"
      PROVE  JobsInv'
  <2>1. job' = [job EXCEPT ![j] = job[j]]
    BY <1>1, <1>2, <1>6
  <2> QED  BY <1>1, <1>2, <1>5, <1>6, <2>1
<1>7. \A ok \in BOOLEAN : /\ [svc[s] EXCEPT !.pc = "finish", !.ok = ok] \in Service
                          /\ [svc[s] EXCEPT !.pc = "finish", !.ok = ok].pc = "finish"
                          /\ [svc[s] EXCEPT !.pc = "finish", !.ok = ok].ok = ok
                          /\ [svc[s] EXCEPT !.pc = "finish", !.ok = ok].job = j
  BY <1>1 DEF Service
<1>8. \A p \in {"device", "train", "convert", "converting", "mark", "raised"} :
        /\ [svc[s] EXCEPT !.pc = p] \in Service /\ [svc[s] EXCEPT !.pc = p].pc = p
        /\ [svc[s] EXCEPT !.pc = p].job = j
  BY <1>1 DEF Service
<1> HIDE DEF j
<1>9. CASE NotRun(s)
  <2> DEFINE w == [svc[s] EXCEPT !.pc = "finish", !.ok = FALSE]
  <2>1. Busy(s) /\ svc[s].pc = "device" /\ svc' = [svc EXCEPT ![s] = w]
        /\ UNCHANGED <<cyc, task, store, job, crashes>>
    BY <1>9 DEF NotRun, Ends, cycle, Busy, AtJob
  <2>2. Served(job[j], w)
    BY <1>2, <1>7, <2>1 DEF Served
  <2> QED  BY <1>6, <1>7, <2>1, <2>2
<1>10. CASE Launch(s)
  <2> DEFINE w == [svc[s] EXCEPT !.pc = "train"]
  <2>1. Busy(s) /\ svc[s].pc = "device" /\ svc' = [svc EXCEPT ![s] = w]
        /\ UNCHANGED <<cyc, task, store, job, crashes>>
    BY <1>10 DEF Launch, Enters, cycle, Busy, AtJob
  <2>2. Served(job[j], w)
    BY <1>2, <1>8, <2>1 DEF Served
  <2> QED  BY <1>6, <1>8, <2>1, <2>2
<1>11. CASE ScriptFails(s)
  <2> DEFINE w == [svc[s] EXCEPT !.pc = "finish", !.ok = FALSE]
             r == [job[j] EXCEPT !.result = "failed"]
  <2>1. Busy(s) /\ svc[s].pc = "train" /\ svc' = [svc EXCEPT ![s] = w]
        /\ UNCHANGED <<cyc, task, store, crashes>>
        /\ (job' = job \/ (job[j].at = "dir" /\ job' = [job EXCEPT ![j] = r]))
    BY <1>11 DEF ScriptFails, Ends, cycle, Busy, AtJob, Here, j
  <2>2. Served(job[j], w)
    BY <1>2, <1>7, <2>1 DEF Served
  <2>3. r \in Job
    BY <1>1, <1>2, <2>1 DEF Job
  <2>4. job[j].at = "dir" => Written(r) /\ Served(r, w)
    BY <1>1, <1>2, <1>7, <2>1, <2>3 DEF Served, Written, Job
  <2> QED  BY <1>5, <1>6, <1>7, <2>1, <2>2, <2>3, <2>4
<1>12. CASE ScriptEnds(s)
  <2> DEFINE w == [svc[s] EXCEPT !.pc = "convert"]
             r == [job[j] EXCEPT !.at = "dir", !.adapter = "staged", !.result = "early"]
  <2>1. Busy(s) /\ svc[s].pc = "train" /\ svc' = [svc EXCEPT ![s] = w]
        /\ UNCHANGED <<cyc, task, store, crashes>>
        /\ job' = [job EXCEPT ![j] = r]
    BY <1>12 DEF ScriptEnds, Enters, cycle, Busy, AtJob, j
  <2>2. r \in Job
    BY <1>1, <1>2, <2>1 DEF Job
  <2>3. Written(r) /\ Served(r, w)
    BY <1>1, <1>2, <1>8, <2>1, <2>2 DEF Served, Written, Job
  <2> QED  BY <1>5, <1>8, <2>1, <2>2, <2>3
<1>13. CASE Convert(s)
  <2> DEFINE w == [svc[s] EXCEPT !.pc = "converting"]
             r == [job[j] EXCEPT !.adapter = "partial"]
  <2>1. Busy(s) /\ svc[s].pc = "convert" /\ svc' = [svc EXCEPT ![s] = w]
        /\ UNCHANGED <<cyc, task, store, crashes>>
        /\ job' = [job EXCEPT ![j] = r]
    BY <1>13 DEF Convert, Enters, cycle, Busy, AtJob, j
  <2>2. r \in Job
    BY <1>1, <1>2, <2>1 DEF Job
  <2>3. Written(r) /\ Served(r, w)
    BY <1>1, <1>2, <1>8, <2>1, <2>2 DEF Served, Written, Job
  <2> QED  BY <1>5, <1>8, <2>1, <2>2, <2>3
<1>14. CASE Converted(s)
  <2> DEFINE w == [svc[s] EXCEPT !.pc = "finish", !.ok = TRUE]
             r == [job[j] EXCEPT !.adapter = "gguf"]
  <2>1. Busy(s) /\ svc[s].pc = "converting" /\ svc' = [svc EXCEPT ![s] = w]
        /\ UNCHANGED <<cyc, task, store, crashes>>
        /\ job' = [job EXCEPT ![j] = r]
    BY <1>14 DEF Converted, Ends, cycle, Busy, AtJob, j
  <2>2. r \in Job
    BY <1>1, <1>2, <2>1 DEF Job
  <2>3. Written(r) /\ Served(r, w)
    BY <1>1, <1>2, <1>7, <2>1, <2>2 DEF Served, Written, Job
  <2> QED  BY <1>5, <1>7, <2>1, <2>2, <2>3
<1>15. CASE ConvertFails(s)
  <2> DEFINE w == [svc[s] EXCEPT !.pc = "finish", !.ok = FALSE]
  <2>1. Busy(s) /\ svc[s].pc # "mark" /\ svc' = [svc EXCEPT ![s] = w]
        /\ UNCHANGED <<cyc, task, store, job, crashes>>
    BY <1>15 DEF ConvertFails, Ends, cycle, Busy, AtJob
  <2>2. Served(job[j], w)
    BY <1>2, <1>7, <2>1 DEF Served
  <2> QED  BY <1>6, <1>7, <2>1, <2>2
<1>16. ASSUME Busy(s), Enters(s, "raised"), UNCHANGED <<cyc, task, store, job,
                                                        crashes>> PROVE JobsInv'
  <2>1. svc' = [svc EXCEPT ![s] = [svc[s] EXCEPT !.pc = "raised"]]
    BY <1>16 DEF Enters
  <2> QED  BY <1>6, <1>8, <1>16, <2>1 DEF AtJob
<1>17. CASE Finish(s)
  <2>1. CASE ~ Here(j)
    BY <1>16, <1>17, <2>1 DEF Finish, cycle, Busy, AtJob, j
  <2>2. CASE Here(j)
    <3> DEFINE w == [svc[s] EXCEPT !.pc = "mark"]
               v == IF svc[s].ok THEN "final" ELSE "failed"
               q == Scrubbed(job[j])
               r == [q EXCEPT !.result = v]
    <3>1. Busy(s) /\ svc[s].pc = "finish" /\ svc' = [svc EXCEPT ![s] = w]
          /\ UNCHANGED <<cyc, task, store, crashes>>
          /\ job' = [job EXCEPT ![j] = r] /\ job[j].at = "dir"
      BY <1>17, <2>2 DEF Finish, Enters, cycle, Busy, AtJob, Here, j
    <3>2. /\ v \in {"final", "failed"}
          /\ v = "final" => job[j].adapter = "gguf"
      BY <1>2, <3>1 DEF Served
    <3>3. q \in Job /\ q.adapter = job[j].adapter /\ q.at = "dir" /\ Served(q, svc[s]) /\ Written(q)
      BY <1>1, <1>2, <3>1 DEF Job, Scrubbed, Served, Written
    <3> HIDE DEF v, q
    <3>4. r \in Job
      BY <3>2, <3>3 DEF Job
    <3>5. Written(r) /\ Served(r, w)
      BY <1>8, <3>1, <3>2, <3>3 DEF Served, Written, Job
    <3> QED  BY <1>5, <1>8, <3>1, <3>4, <3>5
  <2> QED  BY <2>1, <2>2
<1>18. CASE MarkDone(s)
  <2>1. CASE ~ Here(j)
    BY <1>16, <1>18, <2>1 DEF MarkDone, cycle, Busy, AtJob, j
  <2>2. CASE Here(j)
    <3> DEFINE r == [job[j] EXCEPT !.done = TRUE]
    <3>1. Busy(s) /\ svc[s].pc = "mark" /\ svc' = [svc EXCEPT ![s] = Working]
          /\ UNCHANGED <<cyc, task, store, crashes>>
          /\ job' = [job EXCEPT ![j] = r] /\ job[j].at = "dir"
      BY <1>18, <2>2 DEF MarkDone, cycle, Busy, AtJob, Here, j
    <3>2. r \in Job
      BY <1>1, <1>2, <3>1 DEF Job
    <3>3. Written(r)
      BY <1>1, <1>2, <3>1, <3>2 DEF Served, Written, Job
    <3> QED  BY <1>1, <1>5, <3>1, <3>2, <3>3 DEF Working, AtJob
  <2> QED  BY <2>1, <2>2
<1>19. CASE Restart(s)
  BY <1>1, <1>19, LeaveJobs DEF Restart, cycle, Working, AtJob
<1> QED  BY <1>3, <1>4, <1>9, <1>10, <1>11, <1>12, <1>13, <1>14, <1>15, <1>17, <1>18, <1>19
            DEF Serve

(* Everything that happens on the volume but what the deletion does there. *)
LEMMA VolumeJobs ==
  ASSUME JobsInv, OnTheVolume \/ Boot
  PROVE  JobsInv'
<1>1. CASE Train
  BY <1>1, TrainJobs
<1>2. CASE WriteSpec \/ MakeReady \/ Raise \/ SeeDone \/ Promote \/ GiveUp
  BY <1>2, CycleJobs
<1>3. ASSUME UNCHANGED <<job, svc, store>>, crashes' \in 0 .. MaxCrashes,
             cyc' \in {"off", "idle"}, task' = NoJob
      PROVE  JobsInv'
  <2>1. VolumeTypeOK' /\ PromotedWhole'
    BY <1>3 DEF JobsInv, VolumeTypeOK, PromotedWhole
  <2>2. ServiceInv' /\ FilesInv' /\ TrainInv'
    BY <1>3 DEF JobsInv, ServiceInv, FilesInv, TrainInv, Busy, Alone
  <2> QED  BY <2>1, <2>2 DEF JobsInv
<1>4. CASE Stop \/ Kill \/ Boot
  BY <1>3, <1>4, VoiceJobsAssumption DEF Stop, Kill, Boot, JobsInv, VolumeTypeOK, TrainInv
<1>5. ASSUME NEW s \in Services, Serve(s) PROVE JobsInv'
  BY <1>5, ServeJobs
<1>6. ASSUME NEW s \in Services, Crash(s) PROVE JobsInv'
  <2>1. Working \in Service /\ Working.pc \notin AtJob /\ Working.pc # "found"
    BY DEF Working, Service, AtJob
  <2>2. crashes' \in 0 .. MaxCrashes /\ UNCHANGED <<cyc, task, store, job>>
        /\ svc' = [svc EXCEPT ![s] = Working]
    BY <1>6, VoiceJobsAssumption DEF Crash, JobsInv, VolumeTypeOK, cycle
  <2> QED  BY <2>1, <2>2, LeaveJobs
<1> QED  BY <1>1, <1>2, <1>4, <1>5, <1>6 DEF OnTheVolume, Trainer

(* The deletion's part: a cancellation, and the end of the directories. *)
LEMMA DeletionJobs ==
  ASSUME JobsInv, UNCHANGED <<cycle, svc, crashes>>, cyc = "off", job' \in [Jobs -> Job],
         \A j \in Jobs : \/ job'[j] = [job[j] EXCEPT !.cancelled = TRUE]
                         \/ job'[j] = job[j]
                         \/ Here(j) /\ job'[j] = [Absent EXCEPT !.at = "gone"]
  PROVE  JobsInv'
<1>1. \A j \in Jobs : job[j] \in Job /\ Written(job[j])
  BY DEF JobsInv, VolumeTypeOK, FilesInv
<1>2. \A j \in Jobs : Written(job'[j])
  BY <1>1 DEF Job, Written, Absent
<1>3. ASSUME NEW s \in Services, Busy(s) PROVE Served(job'[svc[s].job], svc[s])
  <2>1. svc[s].job \in Jobs /\ Served(job[svc[s].job], svc[s])
    BY <1>3 DEF JobsInv, ServiceInv, Busy
  <2> QED  BY <1>1, <2>1 DEF Job, Served, Absent
<1>4. ServiceInv' /\ FilesInv'
  BY <1>2, <1>3, ForTheServices
<1>5. VolumeTypeOK' /\ TrainInv' /\ PromotedWhole'
  BY DEF JobsInv, VolumeTypeOK, TrainInv, PromotedWhole, cycle
<1> QED  BY <1>4, <1>5 DEF JobsInv
-----------------------------------------------------------------------------
(* What the cancellation relies on: who trains in a job that is there went *)
(* on doing so or has just claimed it, and without the cycle no job is made *)
(* anew.                                                                   *)
LEMMA ClaimedOrTrained ==
  ASSUME JobsInv, OnTheVolume \/ Boot
  PROVE  /\ \A s \in Services : Trains(s)' =>
              /\ svc'[s].job = svc[s].job /\ svc[s].job \in Jobs
              /\ Trains(s) \/ (job[svc[s].job].mark = "READY" /\ job'[svc[s].job].mark = "CLAIMED")
         /\ cyc = "off" => /\ OnTheVolume => cyc' = "off"
                           /\ \A j \in Jobs : Here(j)' /\ job'[j].result = "none" =>
                                                Here(j) /\ job[j].result = "none"
<1> DEFINE Kept == /\ \A s \in Services : Trains(s)' =>
                        /\ svc'[s].job = svc[s].job /\ svc[s].job \in Jobs
                        /\ Trains(s) \/ (job[svc[s].job].mark = "READY" /\ job'[svc[s].job].mark = "CLAIMED")
           None(j) == Here(j)' /\ job'[j].result = "none" => Here(j) /\ job[j].result = "none"
<1>1. /\ svc \in [Services -> Service] /\ job \in [Jobs -> Job]
      /\ \A s \in Services : svc[s].pc \in {"device", "train"} => Busy(s)
      /\ \A s \in Services : Busy(s) =>
           svc[s].job \in Jobs /\ Served(job[svc[s].job], svc[s]) /\ Alone(s)
      /\ \A s \in Services : svc[s].pc = "found" => svc[s].job \in Jobs
  BY DEF JobsInv, VolumeTypeOK, Service, ServiceInv, Trains, Busy, AtJob
<1>2. ASSUME svc' = svc, \A j \in Jobs : Here(j)' => Here(j) \/ Nobody(j)
      PROVE  Kept
  <2>1. ASSUME NEW s \in Services, Trains(s)' PROVE Trains(s) /\ svc[s].job \in Jobs
    BY <1>1, <1>2, <2>1 DEF Trains, Nobody
  <2> QED  BY <1>2, <2>1
<1>3. CASE Train
  <2> DEFINE fresh == {j \in Jobs : job[j].at = "none"}
             new == Least(fresh)
  <2>1. new \in Jobs /\ job[new].at = "none"
    BY <1>3, LeastJob DEF Train
  <2> HIDE DEF fresh, new
  <2>2. /\ cyc # "off" /\ svc' = svc
        /\ job' = [j \in Jobs |-> IF j = new THEN [Absent EXCEPT !.at = "dir"] ELSE Scrubbed(job[j])]
    BY <1>3 DEF Train, fresh, new
  <2>3. Nobody(new)
    BY <1>1, <2>1 DEF Served, Nobody
  <2>4. \A j \in Jobs \ {new} : Here(j)' => Here(j)
    BY <1>1, <2>2 DEF Scrubbed, Here, Job
  <2>5. Kept
    BY <1>2, <2>2, <2>3, <2>4
  <2> QED  BY <2>2, <2>5
<1>4. CASE WriteSpec \/ MakeReady \/ Raise \/ SeeDone \/ Promote \/ GiveUp
  <2>1. cyc # "off" /\ svc' = svc /\ task \in Jobs
    BY <1>4
       DEF WriteSpec, MakeReady, Raise, SeeDone, Promote, GiveUp, Return, JobsInv, VolumeTypeOK,
           TrainInv
  <2>2. job' = job \/ \E r \in Job : r.at = job[task].at /\ job' = [job EXCEPT ![task] = r]
    <3>1. job[task] \in Job
      BY <1>1, <2>1
    <3>2. [job[task] EXCEPT !.pairs = TRUE] \in Job /\ [job[task] EXCEPT !.pairs = TRUE].at = job[task].at
      BY <3>1 DEF Job
    <3>3. [job[task] EXCEPT !.mark = "READY"] \in Job /\ [job[task] EXCEPT !.mark = "READY"].at = job[task].at
      BY <3>1 DEF Job
    <3> DEFINE q == Scrubbed(job[task])
               h == Here(task)
               r == [q EXCEPT !.cancelled = h]
    <3>4. GiveUp => job' = [job EXCEPT ![task] = r]
      BY DEF GiveUp
    <3>5. q \in Job /\ q.at = job[task].at
      BY <3>1 DEF Job, Scrubbed
    <3>6. h \in BOOLEAN
      BY DEF Here
    <3>7. Raise \/ SeeDone => job' = [job EXCEPT ![task] = q]
      BY DEF Raise, SeeDone
    <3> HIDE DEF q, h
    <3>8. r \in Job /\ r.at = job[task].at
      BY <3>5, <3>6 DEF Job
    <3> HIDE DEF r
    <3>9. WriteSpec => job' = [job EXCEPT ![task] = [job[task] EXCEPT !.pairs = TRUE]]
      BY DEF WriteSpec
    <3>10. MakeReady => job' = [job EXCEPT ![task] = [job[task] EXCEPT !.mark = "READY"]]
      BY DEF MakeReady
    <3>11. Promote => job' = job
      BY DEF Promote
    <3> QED  BY <1>4, <3>2, <3>3, <3>4, <3>5, <3>7, <3>8, <3>9, <3>10, <3>11
  <2>3. \A j \in Jobs : Here(j)' => Here(j)
    BY <1>1, <2>1, <2>2 DEF Here
  <2>4. Kept
    BY <1>2, <2>1, <2>3
  <2> QED  BY <2>1, <2>4
<1>5. CASE Stop \/ Kill \/ Boot
  <2>1. svc' = svc /\ job' = job /\ (cyc = "off" /\ ~ Boot => cyc' = "off")
    BY <1>5 DEF Stop, Kill, Boot
  <2>2. OnTheVolume /\ cyc = "off" => ~ Boot \/ cyc' = "off"
    BY DEF OnTheVolume, Trainer, Train, WriteSpec, MakeReady, Raise, SeeDone, Promote, GiveUp,
           Stop, Kill,
       Serve, Look, Claim, NotRun, Launch, ScriptFails, ScriptEnds, Convert, Converted, ConvertFails,
       Finish, MarkDone, Restart, Crash, cycle, JobsInv, TrainInv
  <2>3. Kept /\ \A j \in Jobs : None(j)
    BY <1>1, <2>1 DEF Trains, Busy, Here
  <2> QED  BY <2>1, <2>2, <2>3
<1>6. ASSUME NEW s \in Services, Serve(s) \/ Crash(s)
      PROVE  Kept /\ cyc' = cyc /\ \A j \in Jobs : None(j)
  <2> DEFINE j == svc[s].job
  <2>1. cyc' = cyc
    BY <1>6 DEF Serve, Look, Claim, NotRun, Launch, ScriptFails, ScriptEnds, Convert, Converted,
       ConvertFails, Finish, MarkDone, Restart, Crash, cycle
  <2>2. \A t \in Services \ {s} : svc'[t] = svc[t]
    BY <1>1, <1>6
       DEF Serve, Look, Claim, NotRun, Launch, ScriptFails, ScriptEnds, Convert, Converted,
       ConvertFails, Finish, MarkDone, Restart, Crash, Enters, Ends
  <2>3. job' = job \/ (j \in Jobs /\ \A i \in Jobs \ {j} : job'[i] = job[i])
    BY <1>1, <1>6
       DEF Serve, Look, Claim, NotRun, Launch, ScriptFails, ScriptEnds, Convert, Converted,
       ConvertFails, Finish, MarkDone, Restart, Crash, Busy, AtJob
  <2>4. CASE Claim(s)
    <3>1. job' = job \/ (j \in Jobs /\ job[j].at = "dir" /\ job[j].mark = "READY"
                         /\ job' = [job EXCEPT ![j].mark = "CLAIMED"])
      BY <1>1, <2>4 DEF Claim, Claimable, Here
    <3>2. \A i \in Jobs : job'[i].at = job[i].at /\ job'[i].result = job[i].result
      BY <1>1, <3>1 DEF Job
    <3>3. Trains(s)' => svc'[s].job = j /\ j \in Jobs /\ job[j].mark = "READY" /\ job'[j].mark = "CLAIMED"
      BY <1>1, <2>4 DEF Claim, Claimable, Here, Enters, Working, Trains, Job, Service
    <3>4. \A t \in Services \ {s} : Trains(t)' => Trains(t) /\ svc'[t].job = svc[t].job
      BY <1>1, <2>2, <3>2 DEF Trains, Here
    <3>5. Kept
      BY <1>1, <3>3, <3>4 DEF Trains
    <3> QED  BY <2>1, <3>2, <3>5 DEF Here
  <2>5. CASE ScriptEnds(s)
    <3>1. Busy(s) /\ svc'[s].pc = "convert" /\ job'[j].result = "early"
      BY <1>1, <2>5 DEF ScriptEnds, Enters, Busy, AtJob, Job, Service
    <3>2. \A t \in Services \ {s} : Trains(t)' => Trains(t) /\ svc'[t].job = svc[t].job
      BY <1>1, <2>2, <2>3, <3>1 DEF Trains, Here, Alone, Busy, AtJob
    <3>3. \A i \in Jobs : None(i)
      BY <2>3, <3>1 DEF Here
    <3>4. Kept
      BY <1>1, <3>1, <3>2 DEF Trains
    <3> QED  BY <2>1, <3>3, <3>4
  <2>6. CASE ~ Claim(s) /\ ~ ScriptEnds(s)
    <3>1. \/ job' = job
          \/ \E v \in {"failed", "final"} : job' = [job EXCEPT ![j] = [Scrubbed(@) EXCEPT !.result = v]]
          \/ job' = [job EXCEPT ![j].result = "failed"]
          \/ \E v \in {"partial", "gguf"} : job' = [job EXCEPT ![j].adapter = v]
          \/ job' = [job EXCEPT ![j].done = TRUE]
      BY <1>6, <2>6 DEF Serve, Look, NotRun, Launch, ScriptFails, Convert, Converted,
         ConvertFails, Finish, MarkDone, Restart, Crash
    <3>2. /\ job' = job \/ job'[j].at = job[j].at
          /\ job' = job \/ job'[j].result = job[j].result \/ job'[j].result # "none"
      <4>1. ASSUME NEW v \in {"failed", "final"},
                   job' = [job EXCEPT ![j] = [Scrubbed(@) EXCEPT !.result = v]]
            PROVE  job' = job \/ (job'[j].at = job[j].at /\ job'[j].result # "none")
        BY <1>1, <2>3, <4>1 DEF Job, Scrubbed
      <4>2. ASSUME job' = [job EXCEPT ![j].result = "failed"]
            PROVE  job' = job \/ (job'[j].at = job[j].at /\ job'[j].result # "none")
        BY <1>1, <2>3, <4>2 DEF Job
      <4>3. ASSUME NEW v, job' = [job EXCEPT ![j].adapter = v]
            PROVE  job' = job \/ (job'[j].at = job[j].at /\ job'[j].result = job[j].result)
        BY <1>1, <2>3, <4>3 DEF Job
      <4>4. ASSUME job' = [job EXCEPT ![j].done = TRUE]
            PROVE  job' = job \/ (job'[j].at = job[j].at /\ job'[j].result = job[j].result)
        BY <1>1, <2>3, <4>4 DEF Job
      <4> QED  BY <3>1, <4>1, <4>2, <4>3, <4>4
    <3>3. \A i \in Jobs : Here(i)' = Here(i) /\ None(i)
      BY <2>3, <3>2 DEF Here
    <3> DEFINE Went == svc'[s].pc \in {"device", "train"} =>
                         svc[s].pc \in {"device", "train"} /\ svc'[s].job = svc[s].job
    <3>4. ASSUME Launch(s) PROVE Went
      <4>1. svc[s].pc = "device" /\ svc'[s] = [svc[s] EXCEPT !.pc = "train"]
        BY <1>1, <3>4 DEF Launch, Enters
      <4> QED  BY <1>1, <4>1 DEF Service
    <3>5. ASSUME ~ Launch(s) PROVE Went
      <4>1. CASE Look(s)
        BY <1>1, <4>1 DEF Look, Service
      <4>2. CASE NotRun(s) \/ ScriptFails(s) \/ Converted(s) \/ ConvertFails(s)
        <5>1. \E ok : svc' = [svc EXCEPT ![s] = [@ EXCEPT !.pc = "finish", !.ok = ok]]
          BY <4>2 DEF NotRun, ScriptFails, Converted, ConvertFails, Ends
        <5>2. svc'[s].pc = "finish"
          BY <1>1, <5>1 DEF Service
        <5> QED  BY <5>2
      <4>3. CASE Convert(s) \/ Finish(s)
        BY <1>1, <4>3 DEF Convert, Finish, Enters, Service
      <4>4. CASE MarkDone(s) \/ Restart(s) \/ Crash(s)
        BY <1>1, <4>4 DEF MarkDone, Restart, Crash, Enters, Working, Service
      <4> QED  BY <1>6, <2>6, <3>5, <4>1, <4>2, <4>3, <4>4 DEF Serve
    <3>6. ASSUME NEW t \in Services, Trains(t)' PROVE Trains(t) /\ svc'[t].job = svc[t].job
      <4>1. svc[t].pc \in {"device", "train"} /\ svc'[t].job = svc[t].job
        BY <2>2, <3>4, <3>5, <3>6 DEF Trains
      <4>2. svc[t].job \in Jobs
        BY <1>1, <4>1
      <4> QED  BY <3>3, <3>6, <4>1, <4>2 DEF Trains, Here
    <3> QED  BY <1>1, <2>1, <3>3, <3>6 DEF Trains
  <2> QED  BY <2>4, <2>5, <2>6
<1> QED  BY <1>3, <1>4, <1>5, <1>6 DEF OnTheVolume, Trainer
-----------------------------------------------------------------------------
(* The stores that a deletion tells apart. *)
LEMMA Stores ==
  /\ Len(Order) = 7
  /\ Disk = {"mind", "memory", "identity", "works", "volumes", "perception", "forks"}
  /\ \A i \in 1 .. 7 : Order[i] \in Disk
  /\ Colls \cap Disk = {} /\ Colls \cap Meta = {} /\ "streams" \notin Colls
  /\ Remote \cap Disk = {}
<1>1. Len(Order) = 7 /\ DOMAIN Order = 1 .. 7
  BY DEF Order
<1>2. /\ Order[1] = "mind" /\ Order[2] = "memory" /\ Order[3] = "identity"
      /\ Order[4] = "works" /\ Order[5] = "volumes" /\ Order[6] = "perception"
      /\ Order[7] = "forks"
  BY DEF Order
<1>3. \A i \in DOMAIN Order : i = 1 \/ i = 2 \/ i = 3 \/ i = 4 \/ i = 5 \/ i = 6 \/ i = 7
  BY <1>1
<1>4. Disk = {"mind", "memory", "identity", "works", "volumes", "perception", "forks"}
  BY <1>1, <1>2, <1>3 DEF Disk
<1>5. \A i \in 1 .. 7 : Order[i] \in Disk
  BY <1>1 DEF Disk
<1> QED  BY <1>1, <1>4, <1>5, DecommissionAssumption DEF Meta, Remote

LEMMA CancelledJob == \A x \in Job : [x EXCEPT !.cancelled = TRUE] \in Job
  BY DEF Job

(* The deletion leaves the services alone, and no step of it gives them work. *)
LEMMA RunJobs ==
  ASSUME DecommissionInv, Step \/ KillCli \/ \E b \in BOOLEAN : Begin(b)
  PROVE  /\ JobsInv' /\ cyc = "off" /\ cyc' = "off" /\ svc' = svc
         /\ \A s \in Services : Trains(s)' => Trains(s)
         /\ \A j \in Jobs : Here(j)' /\ job'[j].result = "none" => Here(j) /\ job[j].result = "none"
<1>1. /\ JobsInv /\ svc \in [Services -> Service] /\ job \in [Jobs -> Job] /\ cyc = "off"
      /\ cancel.on \in Jobs \cup {NoJob}
      /\ \A s \in Services : svc[s].pc \in {"device", "train"} => svc[s].job \in Jobs
  BY DEF DecommissionInv, DecommissionTypeOK, RunInv, Step, KillCli, Begin, CancelJob,
         CancelSettled, CancelStuck,
     Cancelled, Cancelling, Capture, NotDeleted, Confirm, ProbeFails, Dropped, DropMeta, MetaFails,
     ClearStreams, DropCollection, DropFails, Pass, Remove, Removed, RemoveFails, AllTried, WriteAudit,
     JobsInv, VolumeTypeOK, Service, ServiceInv, AtJob
<1>2. ASSUME UNCHANGED <<cycle, svc, crashes>>, job' \in [Jobs -> Job],
             \A j \in Jobs : \/ job'[j] = [job[j] EXCEPT !.cancelled = TRUE]
                             \/ job'[j] = job[j]
                             \/ Here(j) /\ job'[j] = [Absent EXCEPT !.at = "gone"]
      PROVE  /\ JobsInv' /\ cyc = "off" /\ cyc' = "off" /\ svc' = svc
             /\ \A s \in Services : Trains(s)' => Trains(s)
             /\ \A j \in Jobs : Here(j)' /\ job'[j].result = "none" => Here(j) /\ job[j].result = "none"
  <2>1. JobsInv' /\ cyc' = "off" /\ svc' = svc
    BY <1>1, <1>2, DeletionJobs DEF cycle
  <2>2. \A j \in Jobs : Here(j)' => Here(j) /\ job'[j].result = job[j].result
    BY <1>1, <1>2 DEF Here, Absent, Job
  <2>3. \A s \in Services : Trains(s)' => Trains(s)
    BY <1>1, <2>1, <2>2 DEF Trains, Here
  <2> QED  BY <1>1, <2>1, <2>2, <2>3 DEF Here
<1>3. CASE UNCHANGED volume
  BY <1>1, <1>2, <1>3 DEF volume, cycle
<1>4. CASE CancelJob
  <2> DEFINE j == Least(Unseen)
             r == [job[j] EXCEPT !.cancelled = TRUE]
  <2>1. Unseen \in SUBSET Jobs /\ Unseen # {}
    BY <1>4 DEF CancelJob, Unseen
  <2>2. j \in Jobs
    BY <2>1, LeastJob
  <2>3. UNCHANGED <<cycle, svc, crashes>> /\ (job' = job \/ job' = [job EXCEPT ![j] = r])
    BY <1>4 DEF CancelJob
  <2> HIDE DEF j
  <2>4. r \in Job
    <3>1. job[j] \in Job
      BY <1>1, <2>2
    <3> QED  BY <3>1, CancelledJob
  <2>5. /\ job' \in [Jobs -> Job]
        /\ \A i \in Jobs : job'[i] = job[i] \/ job'[i] = [job[i] EXCEPT !.cancelled = TRUE]
    BY <1>1, <2>2, <2>3, <2>4
  <2> QED  BY <1>2, <2>3, <2>5
<1>5. ASSUME NEW js, Gone(js), UNCHANGED <<cycle, svc, crashes>>
      PROVE  /\ job' \in [Jobs -> Job]
             /\ \A j \in Jobs : job'[j] = job[j] \/ (Here(j) /\ job'[j] = [Absent EXCEPT !.at = "gone"])
  <2>1. [Absent EXCEPT !.at = "gone"] \in Job
    BY DEF Absent, Job
  <2> QED  BY <1>1, <1>5, <2>1 DEF Gone
<1>6. CASE Removed \/ RemoveFails
  <2>1. UNCHANGED <<cycle, svc, crashes>> /\ (UNCHANGED job \/ \E js : Gone(js))
    BY <1>6 DEF Removed, RemoveFails, Files
  <2> QED  BY <1>1, <1>2, <1>5, <2>1
<1>7. UNCHANGED volume \/ CancelJob \/ Removed \/ RemoveFails
  BY DEF Step, KillCli, Begin, CancelSettled, CancelStuck, Cancelled, Capture, NotDeleted,
         Confirm,
     ProbeFails, Dropped, DropMeta, MetaFails, ClearStreams, DropCollection, DropFails, Pass, Remove,
     AllTried, WriteAudit, Deleting, Files, volume, cycle
<1> QED  BY <1>3, <1>4, <1>6, <1>7
-----------------------------------------------------------------------------
(* The order of the deletion. *)

Cancellation == [seen : SUBSET Jobs, on : Jobs \cup {NoJob}, stuck : SUBSET Jobs]

RunTypeOK ==
  /\ step \in {"idle", "cancel1", "copy", "ask", "cancel2", "drop", "stamp", "redis", "disk",
              "removing", "audit"}
  /\ asserted \in BOOLEAN
  /\ cancel \in Cancellation
  /\ whole \subseteq left /\ left \subseteq Entity
  /\ untried \subseteq Colls /\ at \in 1 .. 8 /\ owned \in BOOLEAN
  /\ failed \subseteq {"coll", "qdrant", "redis", "disk"}
  /\ saved \subseteq Backed /\ audit \in {"none", "deleted"}
  /\ failures \in 0 .. MaxFailures /\ kills \in 0 .. MaxKills /\ raced \subseteq Jobs

LEMMA TypeParts ==
  /\ DecommissionTypeOK <=> VolumeTypeOK /\ RunTypeOK /\ torn \in BOOLEAN
  /\ DecommissionTypeOK' <=> VolumeTypeOK' /\ RunTypeOK' /\ torn' \in BOOLEAN
  BY Stores DEF DecommissionTypeOK, RunTypeOK, Cancellation

LEMMA EmptyCancellation == Unbegun \in Cancellation /\ Unbegun.seen = {}
  BY DEF Unbegun, Cancellation

OrderInv == RunTypeOK /\ TouchedInOrder /\ RunInv

LEMMA EndRunOrder ==
  ASSUME OrderInv, EndRun, cyc' = cyc, UNCHANGED <<contents, saved>>,
         audit' \in {"none", "deleted"}, failures' \in 0 .. MaxFailures, kills' \in 0 .. MaxKills
  PROVE  OrderInv'
<1>1. Unbegun \in Cancellation
  BY EmptyCancellation
<1>2. /\ step' = "idle" /\ asserted' = FALSE /\ cancel' = Unbegun /\ raced' = {}
      /\ untried' = {} /\ at' = 1 /\ owned' = FALSE /\ failed' = {}
      /\ UNCHANGED <<left, whole, saved>>
  BY DEF EndRun, contents
<1>3. RunTypeOK'
  <2>1. at' \in 1 .. 8
    BY <1>2
  <2>2. untried' \subseteq Colls /\ raced' \subseteq Jobs
    BY <1>2
  <2>3. asserted' \in BOOLEAN
    BY <1>2
  <2>4. owned' \in BOOLEAN
    BY <1>2
  <2>5. whole' \subseteq left' /\ left' \subseteq Entity /\ saved' \subseteq Backed
    BY <1>2 DEF OrderInv, RunTypeOK
  <2> QED  BY <1>1, <1>2, <2>1, <2>2, <2>3, <2>4, <2>5 DEF RunTypeOK
<1>4. TouchedInOrder'
  BY <1>2 DEF OrderInv, TouchedInOrder
<1>5. RunInv'
  BY <1>2 DEF RunInv
<1> QED  BY <1>3, <1>4, <1>5 DEF OrderInv

LEMMA GateOrder ==
  ASSUME OrderInv, cyc' = cyc, JobsInv,
         \/ \E b \in BOOLEAN : Begin(b)
         \/ CancelJob \/ CancelSettled \/ CancelStuck \/ Cancelled \/ Capture \/ NotDeleted \/ Confirm
  PROVE  OrderInv'
<1>1. CASE \E b \in BOOLEAN : Begin(b)
  <2>1. /\ step = "idle" /\ step' = "cancel1" /\ cyc' = "off" /\ asserted' \in BOOLEAN /\ owned' \in BOOLEAN /\ untried' = Colls
        /\ UNCHANGED <<cancel, raced, at, failed, left, whole, saved, audit, failures, kills>>
    BY <1>1 DEF Begin, contents, bounds
  <2>2. RunTypeOK' /\ TouchedInOrder'
    BY <2>1 DEF OrderInv, RunTypeOK, TouchedInOrder
  <2>3. RunInv'
    BY <2>1 DEF OrderInv, RunInv
  <2> QED  BY <2>2, <2>3 DEF OrderInv
<1>2. CASE CancelJob \/ CancelSettled \/ CancelStuck
  <2>1. cancel' \in Cancellation
    <3>1. CASE CancelJob
      <4>1. Least(Unseen) \in Jobs
        BY <3>1, LeastJob DEF CancelJob, Unseen
      <4> QED  BY <3>1, <4>1 DEF OrderInv, RunTypeOK, CancelJob, Cancellation
    <3>2. CASE CancelSettled \/ CancelStuck
      <4>1. cancel.on \in Jobs
        BY <3>2 DEF CancelSettled, CancelStuck, OrderInv, RunTypeOK, Cancellation
      <4>2. Passed \in Cancellation
        BY <4>1 DEF Passed, OrderInv, RunTypeOK, Cancellation
      <4> QED  BY <3>2, <4>1, <4>2 DEF CancelSettled, CancelStuck, Cancellation
    <3> QED  BY <1>2, <3>1, <3>2
  <2>2. UNCHANGED <<step, Deciding>>
    BY <1>2 DEF CancelJob, CancelSettled, CancelStuck
  <2> QED  BY <2>1, <2>2
              DEF Deciding, OrderInv, RunTypeOK, TouchedInOrder, RunInv, contents, bounds,
                  Captured, Location
<1>3. CASE Cancelled
  <2>1. CASE cancel.stuck # {} /\ ~asserted
    BY <1>3, <2>1, EndRunOrder DEF Cancelled, OrderInv, RunTypeOK, bounds
  <2>2. CASE ~ (cancel.stuck # {} /\ ~asserted)
    <3>1. UNCHANGED <<cancel, Deciding>> /\ \/ step = "cancel1" /\ step' = "copy"
                                            \/ step = "cancel2" /\ step' = "drop"
      BY <1>3, <2>2 DEF Cancelled, Cancelling
    <3> QED  BY <3>1
                DEF Deciding, OrderInv, RunTypeOK, TouchedInOrder, RunInv, contents, bounds,
                    Captured
  <2> QED  BY <2>1, <2>2
<1>4. CASE Capture
  BY <1>4
     DEF Capture, jobsPart, OrderInv, RunTypeOK, TouchedInOrder, RunInv, contents, bounds,
         Captured
<1>5. CASE NotDeleted
  <2>1. failures' \in 0 .. MaxFailures
    BY <1>5, DecommissionAssumption DEF NotDeleted, StepFails, OrderInv, RunTypeOK
  <2> QED  BY <1>5, <2>1, EndRunOrder DEF NotDeleted, OrderInv, RunTypeOK
<1>6. CASE Confirm
  BY <1>6, EmptyCancellation
     DEF Confirm, OrderInv, RunTypeOK, TouchedInOrder, RunInv, contents, bounds, Captured
<1> QED  BY <1>1, <1>2, <1>3, <1>4, <1>5, <1>6

LEMMA RemoteOrder ==
  ASSUME OrderInv, cyc' = cyc,
         \/ ProbeFails \/ Dropped \/ DropMeta \/ MetaFails \/ ClearStreams
         \/ \E c \in Colls : DropCollection(c) \/ DropFails(c)
  PROVE  OrderInv'
<1>1. failures' \in 0 .. MaxFailures
  BY DecommissionAssumption
     DEF ProbeFails, Dropped, DropMeta, MetaFails, ClearStreams, DropCollection, DropFails,
     StepFails, NothingFails, OrderInv, RunTypeOK
<1>2. CASE ProbeFails
  BY <1>1, <1>2
     DEF ProbeFails, Deleting, jobsPart, OrderInv, RunTypeOK, TouchedInOrder, RunInv, contents,
         Captured
<1>3. CASE Dropped
  BY <1>1, <1>3
     DEF Dropped, Deleting, jobsPart, OrderInv, RunTypeOK, TouchedInOrder, RunInv, contents,
         Captured
<1>4. CASE DropMeta
  BY <1>1, <1>4, Stores
     DEF DropMeta, MetaToDrop, Meta, Remote, Backed, Deleting, jobsPart, OrderInv, RunTypeOK,
         TouchedInOrder, RunInv, Captured
<1>5. CASE MetaFails
  BY <1>1, <1>5
     DEF MetaFails, Deleting, jobsPart, OrderInv, RunTypeOK, TouchedInOrder, RunInv, contents,
         Captured
<1>6. CASE ClearStreams
  <2>1. /\ step = "redis" /\ UNCHANGED <<untried, at, owned, asserted, cancel, raced, saved,
                                         audit, kills>>
        /\ \/ failed' = failed /\ left' = left \ {"streams"} /\ whole' = whole \ {"streams"}
           \/ failed' = failed \cup {"redis"} /\ UNCHANGED <<left, whole>>
        /\ step' = "audit" \/ (step' = "disk" /\ failed' = {})
    BY <1>6 DEF ClearStreams, RemoteFailed, Deleting, jobsPart, contents
  <2>2. "streams" \notin Backed /\ "streams" \notin Disk
    BY Stores DEF Backed
  <2>3. RunTypeOK' /\ TouchedInOrder'
    BY <1>1, <2>1, <2>2 DEF OrderInv, RunTypeOK, TouchedInOrder
  <2>4. step' = "disk" => left' \cap Remote = {}
    BY <2>1 DEF OrderInv, RunInv, Remote
  <2>5. Captured' \subseteq Captured
    BY <2>1 DEF Captured
  <2>6. RunInv'
    BY <2>1, <2>4, <2>5 DEF OrderInv, RunInv
  <2> QED  BY <2>3, <2>6 DEF OrderInv
<1>7. ASSUME NEW c \in Colls, DropCollection(c) \/ DropFails(c)
      PROVE  OrderInv'
  <2>1. c \in whole => c \in Captured
    BY Stores DEF Captured, Backed, ByIdentity
  <2>2. c \notin Disk /\ c # "strength"
    BY Stores DEF Meta
  <2>3. CASE DropCollection(c)
    BY <1>1, <2>1, <2>2, <2>3
       DEF DropCollection, Deleting, jobsPart, OrderInv, RunTypeOK, TouchedInOrder, RunInv,
           Captured
  <2>4. CASE DropFails(c)
    BY <1>1, <2>1, <2>2, <2>4
       DEF DropFails, Deleting, jobsPart, OrderInv, RunTypeOK, TouchedInOrder, RunInv, Captured,
           contents
  <2> QED  BY <1>7, <2>3, <2>4
<1> QED  BY <1>2, <1>3, <1>4, <1>5, <1>6, <1>7

LEMMA DiskOrder ==
  ASSUME OrderInv, cyc' = cyc,
         Pass \/ Remove \/ Removed \/ RemoveFails \/ AllTried \/ WriteAudit \/ KillCli
  PROVE  OrderInv'
<1>1. /\ failures' \in 0 .. MaxFailures /\ kills' \in 0 .. MaxKills
      /\ Location \in Disk \/ at = 8
  BY DecommissionAssumption, Stores
     DEF Pass, Remove, Removed, RemoveFails, AllTried, WriteAudit, KillCli, Files, bounds,
     StepFails, NothingFails, OrderInv, RunTypeOK, Location
<1>2. CASE Pass
  BY <1>1, <1>2, Stores
     DEF Pass, Files, jobsPart, OrderInv, RunTypeOK, TouchedInOrder, RunInv, contents, Captured
<1>3. CASE Remove
  <2>1. /\ step = "disk" /\ step' = "removing" /\ at <= 7 /\ Location \in Disk /\ (Location \in ByIdentity => owned)
        /\ whole' = whole \ {Location} /\ Location' = Location
        /\ UNCHANGED <<left, at, failed, asserted, cancel, raced, untried, owned, saved, audit>>
    BY <1>1, <1>3, Stores DEF Remove, Removable, Files, jobsPart, Location, OrderInv, RunTypeOK
  <2>2. Location \in whole => Location \in Captured \/ Location \notin Backed
    BY <2>1 DEF Captured
  <2>3. left \cap Remote = {} /\ Captured \subseteq saved /\ Captured' \subseteq Captured
    BY <2>1 DEF OrderInv, RunInv, Captured
  <2> QED  BY <1>1, <2>1, <2>2, <2>3, Stores DEF OrderInv, RunTypeOK, TouchedInOrder, RunInv
<1>4. CASE Removed \/ RemoveFails
  <2>1. /\ step = "removing" /\ step' = "disk" /\ at' = at + 1 /\ left' \subseteq left /\ whole' = whole
        /\ left' = left \/ (left' = left \ {Location} /\ Location \notin whole)
        /\ failed' \subseteq {"coll", "qdrant", "redis", "disk"}
        /\ UNCHANGED <<asserted, cancel, raced, untried, owned, saved, audit>>
    BY <1>4 DEF Removed, RemoveFails, Files, jobsPart, contents, OrderInv, RunTypeOK, RunInv
  <2> QED  BY <1>1, <2>1, Stores DEF OrderInv, RunTypeOK, TouchedInOrder, RunInv, Captured
<1>5. CASE AllTried
  BY <1>1, <1>5
     DEF AllTried, Files, jobsPart, OrderInv, RunTypeOK, TouchedInOrder, RunInv, contents,
         Captured
<1>6. CASE WriteAudit \/ KillCli
  BY <1>1, <1>6, EndRunOrder DEF WriteAudit, KillCli, OrderInv, RunTypeOK, bounds, contents
<1> QED  BY <1>2, <1>3, <1>4, <1>5, <1>6
(* The report keeps to what was removed. *)
LEMMA ReportStep ==
  ASSUME OrderInv, ReportInv, Step \/ KillCli \/ \E b \in BOOLEAN : Begin(b)
  PROVE  ReportInv'
<1>1. CASE \E b \in BOOLEAN : Begin(b)
  BY <1>1 DEF Begin, ReportInv, ReportedGone, contents, bounds
<1>2. ASSUME EndRun, left' = left, audit' = audit, torn' \in BOOLEAN
      PROVE  ReportInv'
  BY <1>2 DEF EndRun, ReportInv, ReportedGone
<1>3. ASSUME step # "idle", at' = at, left' \subseteq left, audit' = audit, torn' = torn,
             step' \notin {"disk", "removing", "audit"},
             step \notin {"disk", "removing", "audit"}
      PROVE  ReportInv'
  BY <1>3 DEF ReportInv, ReportedGone
<1>4. CASE CancelJob \/ CancelSettled \/ CancelStuck \/ Capture \/ Confirm
  BY <1>3, <1>4
     DEF CancelJob, CancelSettled, CancelStuck, Cancelling, Capture, Confirm, Deciding,
         contents, bounds
<1>5. CASE Cancelled
  BY <1>2, <1>3, <1>5 DEF Cancelled, Cancelling, Deciding, contents, bounds, ReportInv
<1>6. CASE NotDeleted
  BY <1>2, <1>6 DEF NotDeleted, contents, ReportInv
<1>7. CASE ProbeFails \/ Dropped \/ DropMeta \/ MetaFails
           \/ \E c \in Colls : DropCollection(c) \/ DropFails(c)
  BY <1>3, <1>7
     DEF ProbeFails, Dropped, DropMeta, MetaFails, DropCollection, DropFails, Deleting, contents
<1>8. CASE ClearStreams
  BY <1>8 DEF ClearStreams, RemoteFailed, Deleting, contents, ReportInv, ReportedGone, NothingFails
<1>9. ASSUME step = "disk" \/ step = "removing", audit' = audit, torn' \in BOOLEAN,
             step' \in {"disk", "removing", "audit"}
      PROVE  audit # "deleted" /\ audit' # "deleted" /\ ReportedGone'
  BY <1>9 DEF ReportInv, ReportedGone
<1>10. CASE Pass
  <2>1. /\ step = "disk" /\ step' = "disk" /\ at' = at + 1 /\ at \in 1 .. 7
        /\ failed' = failed /\ left' = left /\ audit' = audit /\ torn' = torn
        /\ Order[at] \in left => Order[at] \in ByIdentity
    BY <1>10, Stores
       DEF Pass, Removable, Lies, Location, NothingFails, Files, contents, OrderInv, RunTypeOK
  <2>2. \A i \in 1 .. (at' - 1) : i \in 1 .. (at - 1) \/ i = at
    BY <2>1
  <2>3. torn' \in BOOLEAN
    BY <2>1 DEF ReportInv
  <2> QED  BY <1>9, <2>1, <2>2, <2>3 DEF ReportInv
<1>11. CASE Remove
  <2>1. /\ step = "disk" /\ step' = "removing" /\ at' = at
        /\ failed' = failed /\ left' = left /\ audit' = audit /\ torn' = torn
    BY <1>11 DEF Remove, NothingFails, Files
  <2>2. torn' \in BOOLEAN
    BY <2>1 DEF ReportInv
  <2> QED  BY <1>9, <2>1, <2>2 DEF ReportInv
<1>12. CASE Removed
  <2>1. /\ step = "removing" /\ step' = "disk" /\ at' = at + 1 /\ at \in 1 .. 7
        /\ failed' = failed /\ left' = left \ {Order[at]} /\ audit' = audit /\ torn' = torn
    BY <1>12, Stores DEF Removed, NothingFails, Files, Location, OrderInv, RunInv, RunTypeOK
  <2>2. \A i \in 1 .. (at' - 1) : i \in 1 .. (at - 1) \/ i = at
    BY <2>1
  <2>3. torn' \in BOOLEAN
    BY <2>1 DEF ReportInv
  <2> QED  BY <1>9, <2>1, <2>2, <2>3 DEF ReportInv
<1>13. CASE RemoveFails
  <2>1. /\ step = "removing" /\ step' = "disk" /\ failed' # {} /\ audit' = audit /\ torn' = TRUE
    BY <1>13 DEF RemoveFails, Files
  <2>2. torn' \in BOOLEAN
    BY <2>1
  <2> QED  BY <1>9, <2>1, <2>2 DEF ReportInv
<1>14. CASE AllTried
  <2>1. /\ step = "disk" /\ step' = "audit" /\ at = 8
        /\ failed' = failed /\ left' = left /\ audit' = audit /\ torn' = torn
    BY <1>14, Stores DEF AllTried, NothingFails, Files, contents, OrderInv, RunTypeOK
  <2>2. left \subseteq Disk
    BY <2>1 DEF OrderInv, RunTypeOK, RunInv, Entity
  <2>3. \A l \in Disk : \E i \in 1 .. 7 : l = Order[i]
    BY Stores DEF Disk
  <2>4. failed = {} => left \subseteq ByIdentity
    BY <2>1, <2>2, <2>3 DEF ReportInv
  <2>5. torn' \in BOOLEAN
    BY <2>1 DEF ReportInv
  <2> QED  BY <1>9, <2>1, <2>4, <2>5 DEF ReportInv
<1>15. CASE WriteAudit
  BY <1>15 DEF WriteAudit, EndRun, ReportInv, ReportedGone, contents, bounds
<1>16. CASE KillCli
  <2>1. EndRun /\ left' = left /\ audit' = audit
    BY <1>16 DEF KillCli, contents
  <2>2. torn' \in BOOLEAN
    BY <1>16 DEF KillCli
  <2> QED  BY <1>2, <2>1, <2>2
<1> QED
  BY <1>1, <1>4, <1>5, <1>6, <1>7, <1>8, <1>10, <1>11, <1>12, <1>13, <1>14, <1>15, <1>16
     DEF Step
-----------------------------------------------------------------------------
(* The cancellation and those who train. *)

LEMMA CancelStep ==
  ASSUME DecommissionInv, Step \/ KillCli \/ \E b \in BOOLEAN : Begin(b)
  PROVE  CancelInv'
<1>1. /\ cyc = "off" /\ svc' = svc
      /\ \A s \in Services : Trains(s)' => Trains(s)
      /\ \A j \in Jobs : Here(j)' /\ job'[j].result = "none" => Here(j) /\ job[j].result = "none"
  BY RunJobs
<1>2. \A s \in Services : Trains(s) =>
        svc[s].job \in Jobs /\ job[svc[s].job].result = "none" /\ job[svc[s].job].mark = "CLAIMED"
  BY DEF DecommissionInv, JobsInv, ServiceInv, Busy, Served, Trains, AtJob, Here
<1>3. cancel \in Cancellation
  BY TypeParts DEF DecommissionInv, RunTypeOK
<1> DEFINE Behind == \A s \in Services :
                       Trains(s) /\ svc[s].job \in cancel.seen => svc[s].job \in raced \cup cancel.stuck
           Deletes == {"drop", "stamp", "redis", "disk", "removing"}
           Passed2 == /\ ~asserted => cancel.stuck = {}
                      /\ owned => \A j \in Jobs : Here(j) /\ job[j].result = "none" => j \in cancel.seen
<1>4. Behind /\ (step \in Deletes => Passed2)
  BY DEF DecommissionInv, CancelInv
<1>5. ASSUME cancel'.seen = {}, step' \notin Deletes
      PROVE  CancelInv'
  BY <1>5 DEF CancelInv
<1>6. ASSUME UNCHANGED <<cancel, raced, asserted, owned>>, step' \in Deletes => step \in Deletes
      PROVE  CancelInv'
  BY <1>1, <1>4, <1>6 DEF CancelInv
<1>7. ASSUME UNCHANGED raced, step' \notin Deletes, NEW seen \in SUBSET Jobs,
             cancel'.seen = cancel.seen \cup seen, cancel.stuck \subseteq cancel'.stuck,
             \A s \in Services : Trains(s) /\ svc[s].job \in seen => svc[s].job \in cancel'.stuck
      PROVE  CancelInv'
  BY <1>1, <1>4, <1>7 DEF CancelInv
<1>8. CASE CancelJob
  <2> DEFINE j == Least(Unseen)
  <2>1. j \in Jobs
    BY <1>8, LeastJob DEF CancelJob, Unseen
  <2> HIDE DEF j
  <2>2. /\ step' = step /\ raced' = raced /\ step \notin Deletes
        /\ \/ job[j].result # "none" /\ cancel' = [cancel EXCEPT !.seen = @ \cup {j}]
           \/ cancel' = [cancel EXCEPT !.on = j]
    BY <1>8 DEF CancelJob, Cancelling, Deciding, j
  <2>3. CASE job[j].result # "none" /\ cancel' = [cancel EXCEPT !.seen = @ \cup {j}]
    <3>1. cancel'.seen = cancel.seen \cup {j} /\ cancel'.stuck = cancel.stuck
      BY <1>3, <2>3 DEF Cancellation
    <3>2. \A s \in Services : Trains(s) => svc[s].job # j
      BY <1>2, <2>3
    <3>3. raced' = raced /\ step' \notin Deletes
      BY <2>2
    <3> HIDE DEF Deletes
    <3> QED  BY <1>7, <2>1, <3>1, <3>2, <3>3
  <2>4. CASE cancel' = [cancel EXCEPT !.on = j]
    <3>1. cancel'.seen = cancel.seen \cup {} /\ cancel'.stuck = cancel.stuck
      BY <1>3, <2>4 DEF Cancellation
    <3>2. raced' = raced /\ step' \notin Deletes
      BY <2>2
    <3>3. {} \in SUBSET Jobs /\ \A s \in Services : svc[s].job \notin {}
      OBVIOUS
    <3> HIDE DEF Deletes
    <3> QED  BY <1>7, <3>1, <3>2, <3>3
  <2> QED  BY <2>2, <2>3, <2>4
<1>9. CASE CancelSettled \/ CancelStuck
  <2>1. /\ step' = step /\ raced' = raced /\ step \notin Deletes /\ cancel.on \in Jobs
        /\ \/ Settled(cancel.on) /\ cancel' = Passed
           \/ cancel' = [Passed EXCEPT !.stuck = @ \cup {cancel.on}]
    BY <1>3, <1>9 DEF CancelSettled, CancelStuck, Cancelling, Deciding, Cancellation
  <2>2. cancel'.seen = cancel.seen \cup {cancel.on} /\ cancel.stuck \subseteq cancel'.stuck
        /\ (Settled(cancel.on) \/ cancel.on \in cancel'.stuck)
    BY <1>3, <2>1 DEF Passed, Cancellation
  <2>3. \A s \in Services : Trains(s) /\ svc[s].job = cancel.on => ~ Settled(cancel.on)
    BY <1>2 DEF Settled
  <2> QED  BY <1>7, <2>1, <2>2, <2>3
<1>10. CASE Cancelled
  <2>1. CASE cancel.stuck # {} /\ ~asserted
    BY <1>5, <1>10, <2>1 DEF Cancelled, EndRun, Unbegun
  <2>2. CASE ~ (cancel.stuck # {} /\ ~asserted)
    <3>1. /\ UNCHANGED <<cancel, raced, asserted, owned>> /\ job' = job /\ Unseen = {}
          /\ ~asserted => cancel.stuck = {}
      BY <1>10, <2>2 DEF Cancelled, Deciding, volume
    <3>2. owned => \A j \in Jobs : Here(j) => j \in cancel.seen
      BY <3>1 DEF Unseen
    <3> QED  BY <1>1, <1>4, <3>1, <3>2 DEF CancelInv
  <2> QED  BY <2>1, <2>2
<1>11. CASE NotDeleted \/ WriteAudit \/ KillCli
  BY <1>5, <1>11 DEF NotDeleted, WriteAudit, KillCli, EndRun, Unbegun
<1>12. CASE Confirm
  BY <1>5, <1>12 DEF Confirm, Unbegun
<1>13. CASE \E b \in BOOLEAN : Begin(b)
  BY <1>1, <1>4, <1>13 DEF Begin, CancelInv
<1>14. CASE Capture
  BY <1>6, <1>14 DEF Capture, jobsPart
<1>15. CASE ProbeFails \/ Dropped \/ DropMeta \/ MetaFails \/ ClearStreams
            \/ \E c \in Colls : DropCollection(c) \/ DropFails(c)
  BY <1>6, <1>15
     DEF ProbeFails, Dropped, DropMeta, MetaFails, ClearStreams, DropCollection, DropFails,
         Deleting, jobsPart
<1>16. CASE Pass \/ Remove \/ Removed \/ RemoveFails \/ AllTried
  BY <1>6, <1>16 DEF Pass, Remove, Removed, RemoveFails, AllTried, Files, jobsPart
<1> QED  BY <1>8, <1>9, <1>10, <1>11, <1>12, <1>13, <1>14, <1>15, <1>16 DEF Step

LEMMA RunStep ==
  ASSUME DecommissionInv, Step \/ KillCli \/ \E b \in BOOLEAN : Begin(b)
  PROVE  DecommissionInv'
<1>1. JobsInv' /\ cyc' = cyc
  BY RunJobs
<1>2. OrderInv /\ JobsInv
  BY TypeParts DEF DecommissionInv, OrderInv
<1>3. OrderInv'
  BY <1>1, <1>2, GateOrder, RemoteOrder, DiskOrder DEF Step
<1>4. CancelInv'
  BY CancelStep
<1>5. ReportInv'
  BY <1>2, ReportStep DEF DecommissionInv, OrderInv
<1> QED  BY <1>1, <1>3, <1>4, <1>5, TypeParts DEF DecommissionInv, OrderInv, JobsInv, ReportInv

(* The services claim nothing behind the cancellation unnoticed. *)
LEMMA VolumeStep ==
  ASSUME DecommissionInv, Elsewhere \/ Start
  PROVE  DecommissionInv'
<1>1. JobsInv'
  BY VolumeJobs DEF DecommissionInv, Elsewhere, Start
<1>2. /\ \A s \in Services : Trains(s)' =>
           /\ svc'[s].job = svc[s].job /\ svc[s].job \in Jobs
           /\ Trains(s) \/ (job[svc[s].job].mark = "READY" /\ job'[svc[s].job].mark = "CLAIMED")
      /\ cyc = "off" => /\ OnTheVolume => cyc' = "off"
                        /\ \A j \in Jobs : Here(j)' /\ job'[j].result = "none" =>
                                             Here(j) /\ job[j].result = "none"
  BY ClaimedOrTrained DEF DecommissionInv, Elsewhere, Start
<1>3. step' = step /\ (step # "idle" => cyc = "off" /\ cyc' = "off")
  BY <1>2 DEF Elsewhere, Start, cli, DecommissionInv, RunInv
<1>4. /\ UNCHANGED <<asserted, cancel, contents, untried, at, owned, failed, saved, audit,
                     bounds>>
      /\ raced' = raced \cup {j \in cancel.seen : job[j].mark = "READY" /\ job'[j].mark = "CLAIMED"}
         \/ (Start /\ raced' = raced)
  BY DEF Elsewhere, Start, cli, jobsPart
<1>5. RunTypeOK /\ cancel.seen \subseteq Jobs
  BY TypeParts DEF DecommissionInv, RunTypeOK, Cancellation
<1>6. RunTypeOK'
  BY <1>3, <1>4, <1>5 DEF RunTypeOK, contents, bounds
<1>7. TouchedInOrder' /\ RunInv'
  BY <1>3, <1>4 DEF DecommissionInv, TouchedInOrder, RunInv, contents, Captured, Location
<1>8. \A s \in Services : Trains(s)' /\ svc'[s].job \in cancel.seen => svc'[s].job \in raced' \cup cancel.stuck
  <2>1. CASE Start
    BY <2>1, <1>4 DEF Start, Boot, Trains, Here, DecommissionInv, CancelInv, cli, jobsPart
  <2>2. CASE Elsewhere
    BY <1>2, <2>2 DEF Elsewhere, DecommissionInv, CancelInv
  <2> QED  BY <2>1, <2>2
<1>9. CancelInv'
  BY <1>2, <1>3, <1>4, <1>8 DEF DecommissionInv, CancelInv
<1>10. ReportInv'
  BY <1>3, <1>4 DEF DecommissionInv, ReportInv, ReportedGone, contents, bounds
<1> QED  BY <1>1, <1>6, <1>7, <1>9, <1>10, TypeParts DEF DecommissionInv, JobsInv, ReportInv
-----------------------------------------------------------------------------
LEMMA InitHolds == DecommissionInit => DecommissionInv
<1> SUFFICES ASSUME DecommissionInit PROVE DecommissionInv
  OBVIOUS
<1>1. JobsInv
  BY InitJobs
<1>2. Unbegun \in Cancellation /\ Unbegun.seen = {}
  BY EmptyCancellation
<1>3. RunTypeOK
  <2>1. 0 \in 0 .. MaxFailures /\ 0 \in 0 .. MaxKills /\ 1 \in 1 .. 8
    BY DecommissionAssumption
  <2>2. step \in {"idle"} /\ audit \in {"none"} /\ at = 1 /\ failures = 0 /\ kills = 0 /\ cancel = Unbegun
    BY DEF DecommissionInit
  <2>3. whole \subseteq left /\ left \subseteq Entity
    BY DEF DecommissionInit
  <2>4. asserted \in BOOLEAN /\ owned \in BOOLEAN /\ untried \subseteq Colls /\ failed = {} /\ saved \subseteq Backed /\ raced \subseteq Jobs
    BY DEF DecommissionInit
  <2> QED BY <1>2, <2>1, <2>2, <2>3, <2>4 DEF RunTypeOK
<1>4. "strength" \in Entity /\ Backed \subseteq Entity /\ Disk \subseteq Entity
  BY DEF Entity, Remote, Meta, Backed
<1>5. TouchedInOrder /\ RunInv
  BY <1>4 DEF DecommissionInit, TouchedInOrder, RunInv
<1>6. CancelInv
  BY <1>2 DEF DecommissionInit, CancelInv
<1>7. ReportInv
  BY DEF DecommissionInit, ReportInv, ReportedGone
<1> QED  BY <1>1, <1>3, <1>5, <1>6, <1>7, TypeParts DEF DecommissionInv, JobsInv, ReportInv

LEMMA NextHolds ==
  ASSUME DecommissionInv, [DecommissionNext]_decommissionVars
  PROVE  DecommissionInv'
<1>1. CASE DecommissionNext
  BY <1>1, RunStep, VolumeStep DEF DecommissionNext
<1>2. CASE UNCHANGED decommissionVars
  <2>1. UNCHANGED volume /\ UNCHANGED cli
    BY <1>2 DEF decommissionVars
  <2>2. JobsInv'
    BY <2>1
       DEF volume, DecommissionInv, JobsInv, VolumeTypeOK, ServiceInv, FilesInv, TrainInv,
           PromotedWhole,
       Busy, Alone, Nobody, Here
  <2>3. RunTypeOK'
    BY <2>1, TypeParts DEF cli, jobsPart, contents, bounds, DecommissionInv, RunTypeOK
  <2>4. TouchedInOrder' /\ RunInv'
    BY <2>1
       DEF volume, cli, jobsPart, contents, bounds, DecommissionInv, TouchedInOrder, RunInv,
           Captured, Location
  <2>5. CancelInv'
    BY <2>1 DEF volume, cli, jobsPart, DecommissionInv, CancelInv, Trains, Here
  <2>6. ReportInv'
    BY <2>1 DEF cli, jobsPart, contents, bounds, DecommissionInv, ReportInv, ReportedGone
  <2> QED
    BY <2>2, <2>3, <2>4, <2>5, <2>6, TypeParts DEF DecommissionInv, JobsInv, ReportInv
<1> QED  BY <1>1, <1>2

LEMMA DecommissionHolds == DecommissionSpec => []DecommissionInv
<1>1. DecommissionInit => DecommissionInv
  BY InitHolds
<1>2. DecommissionInv /\ [DecommissionNext]_decommissionVars => DecommissionInv'
  BY NextHolds
<1> QED  BY <1>1, <1>2, PTL DEF DecommissionSpec

(* serve, train, decommission main: the jobs, the services, the run and what *)
(* is left of the entity stay in the forms the code knows.                   *)
THEOREM DecommissionTypeCorrect == DecommissionSpec => []DecommissionTypeOK
<1>1. DecommissionInv => DecommissionTypeOK
  BY DEF DecommissionInv
<1> QED  BY <1>1, DecommissionHolds, PTL

(* trainer_service.py, job_queue_trainer.py: what train() promotes is never *)
(* an adapter that a service is still converting.                          *)
THEOREM AdapterWhole == DecommissionSpec => []PromotedWhole
<1>1. DecommissionInv => PromotedWhole
  BY DEF DecommissionInv, JobsInv
<1> QED  BY <1>1, DecommissionHolds, PTL

(* decommission.py: through runs that fail or are killed anywhere, nothing *)
(* is deleted out of order.                                                *)
THEOREM DeletesInOrder == DecommissionSpec => []DeletedInOrder
<1>1. DecommissionInv => DeletedInOrder
  BY DEF DecommissionInv, ReportInv, DeletedInOrder
<1> QED  BY <1>1, DecommissionHolds, PTL

(* cancel_voice_alignment_jobs: nobody trains in the directory of a job    *)
(* that is removed, but who took it up behind the cancellation.            *)
THEOREM RemovesWhenDone == DecommissionSpec => RemovedWhenDone
<1>1. ASSUME DecommissionInv, Removed, Location = "volumes", ~asserted,
             NEW s \in Services, Trains(s)
      PROVE  svc[s].job \in raced
  <2>1. owned /\ cancel.stuck = {}
    BY <1>1 DEF Removed, DecommissionInv, RunInv, CancelInv, ByIdentity
  <2>2. svc[s].job \in Jobs /\ job[svc[s].job].result = "none" /\ Here(svc[s].job)
    BY <1>1 DEF DecommissionInv, JobsInv, ServiceInv, Busy, Served, Trains, AtJob, Here
  <2>3. svc[s].job \in cancel.seen
    BY <1>1, <2>1, <2>2 DEF Removed, DecommissionInv, CancelInv
  <2> QED  BY <1>1, <2>1, <2>3 DEF DecommissionInv, CancelInv
<1>2. DecommissionInv =>
        [Removed /\ Location = "volumes" /\ ~asserted =>
           \A s \in Services : Trains(s) => svc[s].job \in raced]_decommissionVars
  BY <1>1
<1> QED  BY <1>2, DecommissionHolds, PTL DEF RemovedWhenDone
=============================================================================
