---------------------------- MODULE FreezeControl ----------------------------
(***************************************************************************)
(* The freeze control of the cognitive cycle: the control file, the people *)
(* and monitors that write it (the dashboard, the override command, the    *)
(* in-process holders), the boot that clears it, and the freeze-watch loop *)
(* of kaine/cycle/__main__.py that pauses and resumes the cycle and turns  *)
(* perception off and on to match.                                         *)
(*                                                                         *)
(* The dashboard and the override command are other processes than the     *)
(* cycle, so their writes may fall between any two steps of the loop; the  *)
(* in-process holders run where the loop awaits: between two polls and     *)
(* while the engine's pause and resume hooks run.  The cycle may stop or   *)
(* be killed at any point; what it held in memory is then lost.            *)
(*                                                                         *)
(* The control file is changed under a lock, in one step.  desired.json is *)
(* not: every write of it reads the whole record, changes one field and    *)
(* puts the record back, so that a write of one process may undo what      *)
(* another wrote in between, whichever fields the two were about.          *)
(***************************************************************************)
EXTENDS ControlState

CONSTANTS
  HolderSources,  \* the in-process sources that place freezes
  MaxStack,       \* bound on the entries of the stack a freeze may be pushed on
  MaxBoots,       \* bound on the number of boots
  MaxOverrides,   \* bound on the number of overrides
  MaxEdits,       \* bound on the writes of desired.json from outside the cycle
  Corruption,     \* may the control file become unreadable?
  Faults,         \* which writes may raise: the boot's, the perception flags'
  Developing,     \* does boot pin perception on (developmental phase)?
  Editors         \* the processes beside the cycle that write desired.json

ASSUME FreezeControlAssumption ==
  /\ HolderSources \subseteq Sources \ {"operator"}
  /\ MaxStack \in Nat /\ MaxBoots \in Nat /\ MaxOverrides \in Nat
  /\ MaxEdits \in Nat
  /\ Faults \subseteq {"boot", "perception"}
  /\ {Corruption, Developing} \subseteq BOOLEAN
  /\ "cycle" \notin Editors

VARIABLES
  ctl,        \* state/cycle/control.json
  proc,       \* the cycle process: "down", "pinning", "booting" or "running"
  paused,     \* CognitiveCycle.is_paused: run_forever ticks only when FALSE
  feedHeld,   \* the playlist clock is held under "freeze"
  pc,         \* the freeze-watch loop
  desired,    \* state/perceptual_locus/desired.json, the two capture flags
  draft,      \* the record of desired.json each writer has read and not yet written
  writing,    \* the field the cycle's process is about to write, or "none"
  snapshot,   \* desired_snapshot of the loop, [taken |-> FALSE, ...] for None
  performed,  \* overrides that changed the control file
  boots,      \* boots so far
  edits,      \* writes of desired.json from outside the cycle so far
  commanded,  \* history: the flags last commanded by the operator or by boot
  spoiled,    \* history: writes of desired.json crossed or failed since the last pin
  standing    \* history: a freeze has stood ever since the last boot cleared the file

vars == <<ctl, proc, paused, feedHeld, pc, desired, draft, writing, snapshot,
          performed, boots, edits, commanded, spoiled, standing>>
watchVars == <<pc, paused, feedHeld, snapshot>>
perception == <<desired, draft, writing, edits, commanded, spoiled>>

Flags == [audio : BOOLEAN, video : BOOLEAN]
On == [audio |-> TRUE, video |-> TRUE]
Off == [audio |-> FALSE, video |-> FALSE]
NoSnapshot == [taken |-> FALSE, flags |-> Off]

Writers == Editors \cup {"cycle"}
Drafts == [open : BOOLEAN, flags : Flags]
Closed == [open |-> FALSE, flags |-> Off]

TypeOK ==
  /\ ctl \in ControlFiles /\ IsFiniteSet(ctl.stack) /\ IsList(ctl.stack)
  /\ proc \in {"down", "pinning", "booting", "running"}
  /\ paused \in BOOLEAN /\ feedHeld \in BOOLEAN
  /\ pc \in {"poll", "freeze", "freeze_development", "resume", "restore", "off", "back"}
  /\ desired \in Flags /\ commanded \in Flags /\ spoiled \in BOOLEAN
  /\ draft \in [Writers -> Drafts] /\ writing \in {"none", "locus", "audio", "video"}
  /\ snapshot \in [taken : BOOLEAN, flags : Flags]
  /\ performed \in Nat /\ boots \in Nat /\ edits \in Nat
  /\ standing \in BOOLEAN

(* Mutant: judge by the legacy single-slot view, the newest entry alone. *)
Verdict_TopOnly(file) ==
  IF ~Frozen(file) THEN "free"
  ELSE IF top_source(read_control(file)) = "development" THEN "development" ELSE "others"

(* What the loop makes of a stack: a freeze held by development alone keeps *)
(* perception on, any other holder turns it off.                            *)
Verdict(file) ==
  IF ~Frozen(file) THEN "free"
  ELSE IF Holders(file) \subseteq {"development"} THEN "development" ELSE "others"

Init ==
  /\ ctl = Readable({})
  /\ proc = "down" /\ boots = 0
  /\ paused = FALSE /\ feedHeld = FALSE /\ pc = "poll" /\ snapshot = NoSnapshot
  /\ desired \in {On, Off} /\ commanded = desired /\ spoiled = FALSE
  /\ draft = [w \in Writers |-> Closed] /\ writing = "none"
  /\ performed = 0 /\ edits = 0
  /\ standing = FALSE

(* Replace the control file and keep the history of the standing freeze. *)
Write(file) ==
  /\ ctl' = file
  /\ standing' = (standing /\ Frozen(file))

CanPush == Cardinality(ctl.stack) < MaxStack
-----------------------------------------------------------------------------
(* The operator: dashboard and override command. *)

(* POST /diagnostics/cycle/freeze with frozen true. *)
OperatorFreeze ==
  /\ CanPush
  /\ Write(push_freeze(ctl, "operator"))
  /\ UNCHANGED <<proc, boots, perception, watchVars, performed>>

(* POST /diagnostics/cycle/freeze with frozen false. *)
OperatorResume ==
  /\ Write(stand_down(ctl, "operator"))
  /\ UNCHANGED <<proc, boots, perception, watchVars, performed>>

(* The audit line that follows the write, outside the file's lock, goes to *)
(* a log no part of the system reads back, and is left out.                *)
Override(sources) ==
  /\ performed < MaxOverrides
  /\ can_override(ctl, sources)
  /\ Write(override(ctl, sources))
  /\ performed' = performed + 1
  /\ UNCHANGED <<proc, boots, perception, watchVars>>
-----------------------------------------------------------------------------
(* desired.json. *)

(* The first half of any write: read_desired. *)
Opens(w) ==
  /\ ~draft[w].open
  /\ draft' = [draft EXCEPT ![w] = [open |-> TRUE, flags |-> desired]]

(* The other half: the record as it was read but for one field, which need *)
(* not be one of the two flags, takes the place of whatever is there.      *)
Edited(flags, field, active) ==
  IF field = "locus" THEN flags ELSE [flags EXCEPT ![field] = active]

Saves(w, field, active) ==
  /\ draft[w].open
  /\ desired' = Edited(draft[w].flags, field, active)
  /\ draft' = [draft EXCEPT ![w] = Closed]

Overtaken(w) == draft[w].flags # desired

EditorReads(w) ==
  /\ edits < MaxEdits /\ Opens(w)
  /\ edits' = edits + 1
  /\ UNCHANGED <<ctl, standing, proc, boots, watchVars, performed, desired, writing,
                 commanded, spoiled>>

(* POST /diagnostics/perception/toggle, or /locus. *)
EditorWrites(w, field, active) ==
  /\ Saves(w, field, active)
  /\ commanded' = Edited(commanded, field, active)
  /\ spoiled' = (spoiled \/ Overtaken(w) \/ (snapshot.taken /\ field # "locus"))
  /\ UNCHANGED <<ctl, standing, proc, boots, watchVars, performed, edits, writing>>

(* Boot writes the locus and the two flags, the freeze watch the two flags, *)
(* the sleep module and the perceptual locus the locus alone.               *)
FieldAfter(field) ==
  CASE field = "audio" -> "video"
    [] field = "locus" /\ proc = "pinning" -> "audio"
    [] OTHER -> "none"

(* What the cycle's process is writing into the flags. *)
Goal == CASE proc = "pinning" -> On [] pc = "off" -> Off [] OTHER -> snapshot.flags

CycleReads ==
  /\ writing # "none"
  /\ Opens("cycle")
  /\ UNCHANGED <<ctl, standing, proc, boots, watchVars, performed, desired, writing,
                 edits, commanded, spoiled>>

(* The block of the freeze watch is over; a snapshot given back is dropped. *)
EndBlock ==
  /\ pc' = IF pc \in {"off", "back"} THEN "poll" ELSE pc
  /\ snapshot' = IF pc = "back" THEN NoSnapshot ELSE snapshot

CycleWrites ==
  /\ writing # "none"
  /\ \E active \in IF writing = "locus" THEN {TRUE} ELSE {Goal[writing]} :
       /\ Saves("cycle", writing, active)
       /\ commanded' = IF proc = "pinning" THEN Edited(commanded, writing, active) ELSE commanded
  /\ spoiled' = (spoiled \/ Overtaken("cycle"))
  /\ writing' = FieldAfter(writing)
  /\ IF FieldAfter(writing) = "none" THEN EndBlock ELSE UNCHANGED <<pc, snapshot>>
  /\ UNCHANGED <<ctl, standing, proc, boots, paused, feedHeld, edits, performed>>

(* A write that raises ends the block; the flag keeps what it has. *)
CycleWriteRaises ==
  /\ "perception" \in Faults /\ pc \in {"off", "back"} /\ draft["cycle"].open
  /\ EndBlock
  /\ spoiled' = TRUE
  /\ writing' = "none" /\ draft' = [draft EXCEPT !["cycle"] = Closed]
  /\ UNCHANGED <<ctl, standing, proc, boots, paused, feedHeld, performed, desired,
                 edits, commanded>>
-----------------------------------------------------------------------------
(* The in-process holders. *)

(* The loop reads the file and resumes, or finds the cycle paused and acts, *)
(* without an await in between; a pause awaits its hooks first.             *)
LoopAwaits ==
  /\ writing = "none"
  /\ pc \in {"poll", "restore"} \/ (pc \in {"freeze", "freeze_development"} /\ ~paused)

HolderFreeze(source) ==
  /\ proc = "running" /\ LoopAwaits /\ CanPush
  /\ Write(push_freeze(ctl, source))
  /\ UNCHANGED <<proc, boots, perception, watchVars, performed>>

HolderRelease(source) ==
  /\ proc = "running" /\ LoopAwaits /\ source \in Holders(ctl)
  /\ Write(pop_freeze(ctl, source))
  /\ UNCHANGED <<proc, boots, perception, watchVars, performed>>

(* A module of the cycle's process moves the perceptual locus. *)
LocusMoves ==
  /\ proc = "running" /\ LoopAwaits
  /\ writing' = "locus"
  /\ UNCHANGED <<ctl, standing, proc, boots, watchVars, performed, desired, draft,
                 edits, commanded, spoiled>>

(* The file is damaged from outside: no writer of this system does it. *)
Corrupt ==
  /\ Corruption /\ ctl.readable
  /\ Write(Unreadable)
  /\ UNCHANGED <<proc, boots, perception, watchVars, performed>>
-----------------------------------------------------------------------------
(* The life of the cycle process. *)

(* A developing entity's perception is pinned on. *)
Boot ==
  /\ proc = "down" /\ boots < MaxBoots
  /\ proc' = "pinning" /\ boots' = boots + 1
  /\ writing' = IF Developing THEN "locus" ELSE "none"
  /\ spoiled' = (spoiled /\ ~Developing)
  /\ UNCHANGED <<ctl, standing, watchVars, performed, desired, draft, edits, commanded>>

(* The signal phase clears stale freezes; a write that raises is only *)
(* logged and leaves the file.                                        *)
ClearStale ==
  /\ proc = "pinning" /\ writing = "none"
  /\ \E file \in {unfreeze_for_boot(ctl)} \cup (IF "boot" \in Faults THEN {ctl} ELSE {}) :
       ctl' = file /\ standing' = Frozen(file)
  /\ proc' = "booting"
  /\ UNCHANGED <<boots, perception, watchVars, performed>>

pause_if_frozen_at_launch == Frozen(ctl)

(* The launch phase pauses before the first tick if a freeze stands, then *)
(* starts the tick loop and the freeze-watch loop.                        *)
Launch ==
  /\ proc = "booting"
  /\ proc' = "running"
  /\ paused' = pause_if_frozen_at_launch /\ feedHeld' = pause_if_frozen_at_launch
  /\ UNCHANGED <<ctl, standing, boots, perception, pc, snapshot, performed>>

(* A stop or a crash: the loop is cancelled and its memory lost.  Nothing *)
(* is written back.                                                       *)
Stop ==
  /\ proc # "down" /\ boots < MaxBoots
  /\ proc' = "down"
  /\ paused' = FALSE /\ feedHeld' = FALSE /\ pc' = "poll" /\ snapshot' = NoSnapshot
  /\ writing' = "none" /\ draft' = [draft EXCEPT !["cycle"] = Closed]
  /\ UNCHANGED <<ctl, standing, boots, desired, edits, commanded, spoiled, performed>>
-----------------------------------------------------------------------------
(* One round of the freeze-watch loop. *)

Polls == proc = "running" /\ writing = "none"

WatchRead ==
  /\ Polls /\ pc = "poll"
  /\ \/ Verdict(ctl) = "others" /\ pc' = "freeze"
     \/ Verdict(ctl) = "development" /\ pc' = "freeze_development"
     \/ Verdict(ctl) = "free" /\ paused /\ pc' = "resume"
     \/ Verdict(ctl) = "free" /\ ~paused /\ pc' = "poll"
  /\ UNCHANGED <<ctl, standing, proc, boots, paused, feedHeld, snapshot, perception, performed>>

SnapshotDue == ~snapshot.taken

(* A holder other than development: pause, snapshot the flags once, turn *)
(* perception off.                                                       *)
WatchFreeze ==
  /\ Polls /\ pc = "freeze"
  /\ paused' = TRUE
  /\ feedHeld' = (feedHeld \/ ~paused)
  /\ IF SnapshotDue
     THEN /\ snapshot' = [taken |-> TRUE, flags |-> desired]
          /\ pc' = "off" /\ writing' = "audio"
     ELSE pc' = "poll" /\ UNCHANGED <<snapshot, writing>>
  /\ UNCHANGED <<ctl, standing, proc, boots, desired, draft, edits, commanded, spoiled, performed>>

(* Write a snapshot back, if one was taken. *)
RestorePerception ==
  IF snapshot.taken THEN pc' = "back" /\ writing' = "audio"
                    ELSE pc' = "poll" /\ UNCHANGED writing

(* Development alone: pause, and give perception back if it was off. *)
WatchFreezeDevelopment ==
  /\ Polls /\ pc = "freeze_development"
  /\ paused' = TRUE
  /\ feedHeld' = (feedHeld \/ ~paused)
  /\ RestorePerception
  /\ UNCHANGED <<ctl, standing, proc, boots, snapshot, desired, draft, edits, commanded, spoiled,
                 performed>>

(* resume() sets the event before it awaits its hooks. *)
WatchResume ==
  /\ Polls /\ pc = "resume"
  /\ paused' = FALSE
  /\ pc' = "restore"
  /\ UNCHANGED <<ctl, standing, proc, boots, feedHeld, snapshot, perception, performed>>

WatchRestore ==
  /\ Polls /\ pc = "restore"
  /\ feedHeld' = FALSE
  /\ RestorePerception
  /\ UNCHANGED <<ctl, standing, proc, boots, paused, snapshot, desired, draft, edits, commanded,
                 spoiled, performed>>

Watch == WatchRead \/ WatchFreeze \/ WatchFreezeDevelopment \/ WatchResume \/ WatchRestore
-----------------------------------------------------------------------------
Next ==
  \/ OperatorFreeze \/ OperatorResume
  \/ \E sources \in SUBSET OVERRIDABLE_SOURCES : Override(sources)
  \/ \E w \in Editors :
       \/ EditorReads(w)
       \/ \E field \in {"locus", "audio", "video"}, active \in BOOLEAN :
            EditorWrites(w, field, active)
  \/ \E source \in HolderSources : HolderFreeze(source)
  \/ \E source \in HolderSources \ {"welfare", "programme_end"} : HolderRelease(source)
  \/ Corrupt
  \/ Boot \/ ClearStale \/ Launch \/ Stop
  \/ LocusMoves \/ CycleReads \/ CycleWrites \/ CycleWriteRaises
  \/ Watch

(* The event loop keeps running the freeze watch, however often a module   *)
(* moves the locus in between; a boot goes on to launch; a write of        *)
(* desired.json that has begun ends, in the cycle and elsewhere.           *)
Fairness ==
  /\ SF_vars(Watch)
  /\ WF_vars(CycleReads \/ CycleWrites) /\ WF_vars(ClearStale \/ Launch)
  /\ \A w \in Editors : WF_vars(\E field \in {"locus", "audio", "video"}, active \in BOOLEAN :
                                  EditorWrites(w, field, active))

Spec == Init /\ [][Next]_vars /\ Fairness
-----------------------------------------------------------------------------
(* Properties. *)

(* A welfare freeze, and the freeze an unreadable control file stands for, *)
(* goes away in one way only: an override that names welfare.  Not by an   *)
(* operator's resume, another holder's recovery, a boot or a crash.        *)
WelfareLiftedOnlyByOverride ==
  [][("welfare" \in Holders(ctl) /\ "welfare" \notin Holders(ctl')) =>
       \E sources \in SUBSET OVERRIDABLE_SOURCES :
         "welfare" \in sources /\ Override(sources)]_vars

(* A freeze that survives the boot's clearing and is never lifted keeps the *)
(* cycle paused from launch on: not one tick runs ahead of the freeze-watch *)
(* loop, and no stale read of the loop resumes it.                          *)
StandingFreezeHoldsLaunch == (standing /\ proc = "running") => paused

(* The entity is left with the perception it was commanded to have whenever *)
(* it runs with no freeze and the loop has nothing to restore: a freeze and *)
(* resume leaves it neither deaf nor blind, unless writers of the flags     *)
(* have crossed or one of their writes has failed.                          *)
NeverLeftDeafOrBlind ==
  (proc = "running" /\ ~paused /\ pc = "poll" /\ ~snapshot.taken /\ ~Frozen(ctl))
    => desired = commanded \/ spoiled

(* What the holders of a freeze may rely on (FreezePromise): each source's *)
(* hold goes only as that source, a named override or a boot lets it go,   *)
(* welfare's by an override alone, and the cycle never starts, stops or    *)
(* goes on but as it saw the holders, whatever order the writers, the      *)
(* loop, boots and crashes come in.                                        *)
Promise == INSTANCE FreezePromise WITH
  Overridable <- OVERRIDABLE_SOURCES,
  Kept <- {"welfare"},
  holders <- Holders(ctl),
  up <- proc = "running",
  ticking <- proc = "running" /\ ~paused,
  seen <- IF pc = "resume" THEN "free"
          ELSE IF pc \in {"freeze", "freeze_development"} THEN "held" ELSE "nothing"

KeepsPromise == Promise!Safe

Up == proc = "running"

(* The loop catches up with the file: once the holders stop changing, the *)
(* cycle ends up paused or running as they ask, with perception off under *)
(* any holder but development and as commanded otherwise.  Perception may *)
(* be left in another state by two writers of desired.json that crossed,  *)
(* or by a write of it that raised, the pause and the playlist never.     *)
Perceives(flags) == desired = flags \/ spoiled

WatchCatchesUp ==
  /\ <>[](Up /\ Holders(ctl) \ {"development"} # {}) =>
       <>[](paused /\ feedHeld /\ Perceives(Off))
  /\ <>[](Up /\ Holders(ctl) = {"development"}) => <>[](paused /\ feedHeld /\ Perceives(commanded))
  /\ <>[](Up /\ Holders(ctl) = {}) => <>[](~paused /\ ~feedHeld /\ Perceives(commanded))
=============================================================================
