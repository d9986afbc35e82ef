-------------------------------- MODULE Revive --------------------------------
(***************************************************************************)
(* Bringing a preserved entity back (kaine/cycle/revive_boot.py,           *)
(* kaine/lifecycle/preservation.py revive, the revive path of              *)
(* kaine/cycle/__main__.py) into a state tree that may hold an earlier     *)
(* life of the same entity.  The revive replaces files one after another;  *)
(* a step may fail, which refuses the start, or the machine may go down,   *)
(* and the next start, plain or a revive, finds what is left.              *)
(***************************************************************************)
EXTENDS Naturals, FiniteSets

CONSTANTS
  DevFiles,  \* the development files a bundle carries beside the stage
  Trees,     \* what the tree may hold: "own", "unnamed" (no identity) or "empty"
  MaxFaults  \* bound on failing steps and machines going down

ASSUME ReviveAssumption ==
  /\ Trees \subseteq {"own", "unnamed", "empty"} /\ MaxFaults \in Nat

VARIABLES
  evidenceCarried, stageCarried, \* what the bundle holds
  identity,    \* identity/entity.json: "none", "own" (the bundle's) or "foreign"
  record,      \* is there a revive record?
  checkpoint,  \* the rolling checkpoint: "none", or "older" or "newer" than the record
  aside,       \* is there a checkpoint.json.pre-revive?
  unsynced,    \* is the renaming that made it not yet on the disk for good?
  memory,      \* the memory collections: "before", "partial", "bundle" or
               \* "kept", a partial store an operator decided to keep
  mark,        \* import_pending, in the strength record
  others,      \* the other stores modules write as they are restored
  evidence,    \* the individuation tree: "none", "before" or "bundle"
  staging,     \* its sibling ".revived", extracted and not yet in place
  replaced,    \* the trees moved aside
  dev,         \* the development files: "none", "before" or "bundle"
  stageFile,   \* lifecycle/stage.json
  pc,          \* where the process is; "off" when there is none
  revived,     \* was this start a revive?
  todo,        \* of a revive: the parts of the individual still to be restored
  moved,       \* of a revive: the evidence it moved aside, or "none"
  restored,    \* did the modules take their state from the checkpoint?
  touched,     \* history: was a store replaced since the checkpoint was made?
  scaled,      \* history: the memory collections the last sleep downscaled
  faults

bundle == <<evidenceCarried, stageCarried>>
point == <<record, checkpoint, aside, unsynced>>
stores == <<memory, mark, others>>
trees == <<evidence, staging, replaced>>
files == <<dev, stageFile>>
disk == <<identity, point, stores, trees, files>>
run == <<revived, restored, todo, moved>>
history == <<touched, scaled>>
vars == <<bundle, disk, pc, run, history, faults>>

Parts == {"memory", "others"}
Steps == {"record", "rename", "import", "memory", "evidence", "move", "place",
          "aside", "dev", "stage", "name", "replace", "discard"}

TypeOK ==
  /\ evidenceCarried \in BOOLEAN /\ stageCarried \in BOOLEAN /\ record \in BOOLEAN
  /\ aside \in BOOLEAN /\ unsynced \in BOOLEAN /\ mark \in BOOLEAN /\ staging \in BOOLEAN
  /\ revived \in BOOLEAN /\ restored \in BOOLEAN /\ touched \in BOOLEAN
  /\ identity \in {"none", "own", "foreign"} /\ checkpoint \in {"none", "older", "newer"}
  /\ memory \in {"before", "partial", "bundle", "kept"} /\ others \in {"before", "bundle"}
  /\ evidence \in {"none", "before", "bundle"} /\ replaced \subseteq {"before", "bundle"}
  /\ dev \in [DevFiles -> {"none", "before", "bundle"}]
  /\ stageFile \in {"none", "before", "bundle"}
  /\ pc \in {"off", "live"} \cup Steps /\ faults \in 0..MaxFaults
  /\ scaled \in {"none", "before", "partial", "bundle", "kept"}
  /\ todo \subseteq Parts /\ moved \in {"none", "before", "bundle"}

(* A tree without an identity is empty or older than identities; only a    *)
(* tree with one can hold a checkpoint.                                    *)
Init ==
  /\ evidenceCarried \in BOOLEAN /\ stageCarried \in BOOLEAN
  /\ \E tree \in Trees :
       /\ identity = IF tree = "own" THEN "own" ELSE "none"
       /\ checkpoint \in IF tree = "own" THEN {"none", "newer"} ELSE {"none"}
       /\ evidence \in IF tree = "empty" THEN {"none"} ELSE {"none", "before"}
       /\ dev = [f \in DevFiles |-> IF tree = "empty" THEN "none" ELSE "before"]
       /\ stageFile = IF tree = "empty" THEN "none" ELSE "before"
  /\ record = FALSE /\ aside = FALSE /\ unsynced = FALSE
  /\ memory = "before" /\ mark = FALSE /\ others = "before"
  /\ staging = FALSE /\ replaced = {}
  /\ pc = "off" /\ revived = FALSE /\ restored = FALSE
  /\ todo = {} /\ moved = "none"
  /\ touched = FALSE /\ scaled = "none" /\ faults = 0

Fault == faults < MaxFaults /\ faults' = faults + 1

(* A step of the revive fails: the modules are shut down and the start is  *)
(* refused (exit 7, or 11 for the identity).                               *)
Refused == Fault /\ pc' = "off"
Goes(next) == pc' = next /\ UNCHANGED faults

-----------------------------------------------------------------------------
(* A plain start. *)

(* Restoring asks for a checkpoint of this entity that is not older than   *)
(* the latest revive record.                                               *)
Restorable_Any == checkpoint # "none" (* Mutant: the record is not read. *)
Restorable == checkpoint = "newer"

PlainStart ==
  /\ pc = "off"
  /\ pc' = "live" /\ revived' = FALSE
  /\ identity' = IF identity = "none" THEN "foreign" ELSE identity
  /\ restored' = Restorable /\ UNCHANGED <<todo, moved>>
  /\ UNCHANGED <<bundle, point, stores, trees, files, history, faults>>

(* The rolling checkpoint of a running entity: the directory is synced. *)
Checkpoints ==
  /\ pc = "live"
  /\ checkpoint' = "newer" /\ unsynced' = FALSE /\ touched' = FALSE
  /\ UNCHANGED <<bundle, identity, record, aside, stores, trees, files, pc, run, scaled, faults>>

(* A sleep downscales the traces unless an import was interrupted. *)
Blocked == mark
Sleeps ==
  /\ pc = "live" /\ ~Blocked
  /\ scaled' = memory
  /\ UNCHANGED <<bundle, disk, pc, run, touched, faults>>

Stops ==
  /\ pc = "live" /\ pc' = "off"
  /\ UNCHANGED <<bundle, disk, run, history, faults>>

(* recover_interrupted_import: the operator keeps the store as it stands. *)
RecoverImport ==
  /\ pc = "off" /\ mark
  /\ mark' = FALSE /\ memory' = IF memory = "partial" THEN "kept" ELSE memory
  /\ UNCHANGED <<bundle, identity, point, others, trees, files, pc, run, history, faults>>

-----------------------------------------------------------------------------
(* A revive: the record and the checkpoint. *)

(* A tree of another entity refuses the revive before anything changes. *)
MayRevive_Once == identity # "foreign" /\ ~record (* Mutant: one revive to a tree. *)
MayRevive == identity # "foreign"

ReviveStart ==
  /\ pc = "off" /\ MayRevive
  /\ pc' = "record" /\ revived' = TRUE /\ restored' = FALSE
  /\ todo' = Parts /\ moved' = "none"
  /\ UNCHANGED <<bundle, identity, point, stores, trees, files, history, faults>>

(* set_aside_for_revive: the record is synced, the renaming is not.  A     *)
(* checkpoint that was there is older than the record now.                 *)
WriteRecord ==
  /\ pc = "record"
  /\ \/ /\ record' = TRUE /\ Goes("rename")
        /\ checkpoint' = IF checkpoint = "none" THEN "none" ELSE "older"
     \/ Refused /\ UNCHANGED <<record, checkpoint>>
  /\ UNCHANGED <<bundle, identity, aside, unsynced, stores, trees, files, run, history>>

RenameCheckpoint ==
  /\ pc = "rename"
  /\ \/ checkpoint = "none" /\ Goes("import") /\ UNCHANGED <<checkpoint, aside, unsynced>>
     \/ /\ checkpoint # "none" /\ Goes("import")
        /\ checkpoint' = "none" /\ aside' = TRUE /\ unsynced' = TRUE
     \/ checkpoint # "none" /\ Refused /\ UNCHANGED <<checkpoint, aside, unsynced>>
  /\ UNCHANGED <<bundle, identity, record, stores, trees, files, run, history>>

(* The modules of the snapshot, one by one. *)
RestoreOthers ==
  /\ pc = "import" /\ "others" \in todo
  /\ \/ others' = "bundle" /\ touched' = TRUE /\ todo' = todo \ {"others"} /\ Goes("import")
     \/ others' \in {others, "bundle"} /\ touched' = TRUE /\ Refused /\ UNCHANGED todo
  /\ UNCHANGED <<bundle, identity, point, memory, mark, trees, files, revived, restored,
                 moved, scaled>>

(* The memory import: validated, marked, replaced collection by            *)
(* collection, and unmarked with the strengths of the bundle.              *)
MarkImport_Late == mark (* Mutant: the mark is left for the end of the import. *)
MarkImport == TRUE

BeginMemory ==
  /\ pc = "import" /\ "memory" \in todo
  /\ \/ mark' = MarkImport /\ Goes("memory")
     \/ Refused /\ UNCHANGED mark
  /\ UNCHANGED <<bundle, identity, point, memory, others, trees, files, run, history>>

ReplaceCollection ==
  /\ pc = "memory" /\ memory # "partial"
  /\ \/ memory' = "partial" /\ touched' = TRUE /\ (Goes("memory") \/ Refused)
     \/ Refused /\ UNCHANGED <<memory, touched>>
  /\ UNCHANGED <<bundle, identity, point, mark, others, trees, files, run, scaled>>

EndMemory ==
  /\ pc = "memory" /\ memory = "partial"
  /\ \/ memory' = "bundle" /\ mark' = FALSE /\ todo' = todo \ {"memory"} /\ Goes("import")
     \/ Refused /\ UNCHANGED <<memory, mark, todo>>
  /\ UNCHANGED <<bundle, identity, point, others, trees, files, revived, restored, moved,
                 history>>

ImportEnds ==
  /\ pc = "import" /\ todo = {} /\ Goes("evidence")
  /\ UNCHANGED <<bundle, disk, run, history>>

-----------------------------------------------------------------------------
(* A revive: the evidence, the development files and the stage. *)

(* A ".revived" left by an interrupted revive is removed first. *)
ExtractEvidence ==
  /\ pc = "evidence"
  /\ \/ staging' = evidenceCarried /\ Goes("move")
     \/ staging' = FALSE /\ Refused
  /\ UNCHANGED <<bundle, identity, point, stores, evidence, replaced, files, run, history>>

(* The tree in place is renamed, whoever it belongs to. *)
SetAside_Deleted == replaced (* Mutant: the tree in place is deleted. *)
SetAside == replaced \cup {evidence}

MoveAside ==
  /\ pc = "move"
  /\ \/ /\ evidence # "none" /\ Goes("place")
        /\ replaced' = SetAside /\ moved' = evidence /\ evidence' = "none"
     \/ evidence = "none" /\ Goes("place") /\ UNCHANGED <<evidence, replaced, moved>>
     \/ evidence # "none" /\ Refused /\ UNCHANGED <<evidence, replaced, moved>>
  /\ UNCHANGED <<bundle, identity, point, stores, staging, files, revived, restored, todo,
                 history>>

AfterEvidence == IF stageCarried THEN "aside" ELSE "name"

(* When the new tree cannot be moved in, the old one is moved back, which  *)
(* may fail too.                                                           *)
MoveIn ==
  /\ pc = "place"
  /\ \/ staging /\ evidence' = "bundle" /\ staging' = FALSE /\ Goes(AfterEvidence)
        /\ UNCHANGED replaced
     \/ ~staging /\ Goes(AfterEvidence) /\ UNCHANGED <<evidence, staging, replaced>>
     \/ /\ staging /\ Refused /\ UNCHANGED staging
        /\ \/ moved # "none" /\ evidence' = moved /\ replaced' = replaced \ {moved}
           \/ UNCHANGED <<evidence, replaced>>
  /\ UNCHANGED <<bundle, identity, point, stores, files, run, history>>

(* Development files already there are renamed first, then the bundle's    *)
(* are put in place, one by one.                                           *)
SetDevAside ==
  /\ pc = "aside"
  /\ \/ \E f \in DevFiles : dev[f] # "none" /\ dev' = [dev EXCEPT ![f] = "none"] /\ Goes("aside")
     \/ (\A f \in DevFiles : dev[f] = "none") /\ UNCHANGED dev /\ Goes("dev")
     \/ UNCHANGED dev /\ Refused
  /\ UNCHANGED <<bundle, identity, point, stores, trees, stageFile, run, history>>

ExtractDev ==
  /\ pc = "dev"
  /\ \/ \E f \in DevFiles : dev[f] # "bundle" /\ dev' = [dev EXCEPT ![f] = "bundle"] /\ Goes("dev")
     \/ (\A f \in DevFiles : dev[f] = "bundle") /\ UNCHANGED dev /\ Goes("stage")
     \/ UNCHANGED dev /\ Refused
  /\ UNCHANGED <<bundle, identity, point, stores, trees, stageFile, run, history>>

WriteStage ==
  /\ pc = "stage"
  /\ \/ stageFile' = "bundle" /\ Goes("name")
     \/ Refused /\ UNCHANGED stageFile
  /\ UNCHANGED <<bundle, identity, point, stores, trees, dev, run, history>>

(* _persist_revived_identity. *)
PersistIdentity ==
  /\ pc = "name"
  /\ \/ identity' = "own" /\ Goes("replace")
     \/ Refused /\ UNCHANGED identity
  /\ UNCHANGED <<bundle, point, stores, trees, files, run, history>>

(* _replace_checkpoint_after_revive: saved anew or removed. *)
SaveCheckpoint ==
  /\ pc = "replace"
  /\ \/ /\ checkpoint' = "newer" /\ unsynced' = FALSE /\ touched' = FALSE
        /\ Goes("live")
     \/ Fault /\ pc' = "discard" /\ UNCHANGED <<checkpoint, unsynced, touched>>
  /\ UNCHANGED <<bundle, identity, record, aside, stores, trees, files, run, scaled>>

DiscardCheckpoint ==
  /\ pc = "discard"
  /\ \/ checkpoint' = "none" /\ Goes("live")
     \/ Refused /\ UNCHANGED checkpoint
  /\ UNCHANGED <<bundle, identity, record, aside, unsynced, stores, trees, files, run, history>>

(* The machine goes down: a renaming that was not synced may be undone. *)
Down ==
  /\ pc # "off" /\ Fault /\ pc' = "off"
  /\ \/ unsynced /\ checkpoint' = "older" /\ aside' = FALSE /\ unsynced' = FALSE
     \/ UNCHANGED <<checkpoint, aside, unsynced>>
  /\ UNCHANGED <<bundle, identity, record, stores, trees, files, run, history>>

ReviveStep ==
  \/ WriteRecord \/ RenameCheckpoint \/ RestoreOthers
  \/ BeginMemory \/ ReplaceCollection \/ EndMemory \/ ImportEnds
  \/ ExtractEvidence \/ MoveAside \/ MoveIn \/ SetDevAside \/ ExtractDev
  \/ WriteStage \/ PersistIdentity \/ SaveCheckpoint \/ DiscardCheckpoint

Next ==
  \/ PlainStart \/ Checkpoints \/ Sleeps \/ Stops \/ RecoverImport
  \/ ReviveStart \/ ReviveStep \/ Down

(* A revive goes on by itself; an operator who stops and starts the entity *)
(* again and again asks for the revive again and again.                    *)
Fairness == WF_vars(ReviveStep) /\ WF_vars(Stops) /\ SF_vars(ReviveStart)

Spec == Init /\ [][Next]_vars /\ Fairness

-----------------------------------------------------------------------------
(* Properties. *)

(* restore_checkpoint, set_aside_for_revive: a plain start lays a          *)
(* checkpoint over the stores only when no revive has replaced any of them *)
(* since it was made, wherever that revive stopped and whatever the disk   *)
(* forgot.                                                                 *)
NoStaleRestore == [][restored' /\ ~restored => ~touched]_vars

(* ReviveSession.revive: no interrupted, failed or repeated revive loses   *)
(* the evidence of the life before, and an entity that runs revived runs   *)
(* with the bundle's evidence or with none.                                *)
EvidenceKept ==
  [][/\ evidence = "before" \/ "before" \in replaced
           => (evidence = "before" \/ "before" \in replaced)'
     /\ pc = "replace" => evidence = IF evidenceCarried THEN "bundle" ELSE "none"]_vars

(* import_state, downscale: no sleep, of this start or a later one, works  *)
(* on memory collections of which only some were replaced.                 *)
PartialNeverScaled == scaled # "partial"

(* _apply_revive: the stage of the bundle and, in an unnamed tree, its     *)
(* identity appear only over an individual that is there as a whole.       *)
Whole ==
  /\ memory = "bundle" /\ ~mark /\ others = "bundle"
  /\ evidence = IF evidenceCarried THEN "bundle" ELSE "none"
  /\ stageCarried => \A f \in DevFiles : dev[f] = "bundle"
LandedBeforeNamed ==
  [][/\ stageFile # "bundle" /\ stageFile' = "bundle" => Whole
     /\ identity = "none" /\ identity' = "own" => Whole /\ (stageCarried => stageFile = "bundle")]_vars

(* docs/11-preservation.md:212: running the same command again completes   *)
(* an interrupted revive, unless a plain start gave the tree another       *)
(* identity meanwhile.                                                     *)
RerunCompletes == []<>(identity = "foreign" \/ (pc = "live" /\ revived))

=============================================================================
