------------------------------ MODULE Maturation ------------------------------
(***************************************************************************)
(* The maturation gate (kaine/lifecycle/gate_runner.py) and what it leaves *)
(* on disk: the stage file, the perceptual locus and its lock, the request *)
(* for an acknowledgement and the acknowledgement itself.  The gate is one *)
(* task of the process.  Between two of its awaits other tasks freeze the  *)
(* entity and sleeps complete; between any two of its writes the process   *)
(* may be killed, and the next boot decides from the files alone.          *)
(***************************************************************************)
EXTENDS Integers, Sequences, FiniteSets

CONSTANTS
  NeedsAck,    \* [developmental_stage].require_operator_ack_for_maturation
  MinSleeps,   \* min_sleep_cycles
  PageSize,    \* entries one read of the sleep stream returns (100 in the code)
  MaxSleeps,   \* bound on completions on the sleep stream
  MaxFaults,   \* bound on kills, stops and failing reads, writes, activations
  MaxChanges,  \* bound on freezes, lapses of readiness and losses of the body
  MaxRequests  \* bound on requests for an acknowledgement

ASSUME MaturationAssumption ==
  /\ NeedsAck \in BOOLEAN /\ PageSize \in Nat \ {0}
  /\ MinSleeps \in Nat /\ MaxSleeps \in Nat /\ MaxFaults \in Nat
  /\ MaxChanges \in Nat /\ MaxRequests \in Nat

VARIABLES
  stageFile,   \* state/lifecycle/stage.json
  locus,       \* state/perceptual_locus/desired.json: "none" when there is no
               \* file, "locked" by development or "open"
  requestFile, \* the id in maturation_request.json, 0 when there is none
  ackFile,     \* the id in maturation_ack.json, 0 when there is none
  sleeps,      \* the completions on the sleep stream: TRUE for a finished rest,
               \* FALSE for one cut by a stop, which its resumption completes
  pc,          \* where the process is; "off" when there is none
  stage,       \* _stage
  written,     \* _stage_written
  anchored,    \* is _boot_ms read?
  scan,        \* total and cursor of the count under way
  request,     \* _maturation_request, 0 for None
  voiced,      \* is the vocal module out of its dormancy?
  bodied,      \* does the embodiment module run?
  frozen,      \* cycle.is_paused
  ready,       \* do C1, C3 and the consolidation part of C2 hold?
  reachable,   \* is a body enabled, approved and in reach?
  issued,      \* history: requests issued so far
  atBoot,      \* history: issued when this process started
  faults, changes

disk == <<stageFile, locus, requestFile, ackFile>>
gate == <<stage, written, anchored, scan, request>>
effectors == <<voiced, bodied>>
world == <<frozen, ready, reachable, sleeps>>
counts == <<issued, atBoot>>
vars == <<disk, pc, gate, effectors, world, counts, faults, changes>>

(* A cursor is how many entries of the stream are behind it.  "anchor" is  *)
(* history: where the count of a stage record began.                       *)
NoCursor == -1
Cursors == Nat \cup {NoCursor}
Stages == [stage : {"none", "development", "embodied"}, count : Nat, cursor : Cursors,
           anchor : Cursors]
Blank(s) == [stage |-> s, count |-> 0, cursor |-> NoCursor, anchor |-> NoCursor]

(* The awaits of a tick; at the other values of pc no other task can run.  *)
Awaits == {"boot", "wait", "begin", "count", "readout", "probe", "activate", "final"}
Sync == {"mature", "clear", "unlock"}
Developing == stage.stage = "development"
Embodied == [stage EXCEPT !.stage = "embodied"]

TypeOK ==
  /\ stageFile \in Stages /\ stage \in Stages
  /\ locus \in {"none", "locked", "open"}
  /\ requestFile \in Nat /\ ackFile \in Nat /\ request \in Nat
  /\ issued \in 0..MaxRequests /\ atBoot \in 0..issued
  /\ sleeps \in Seq(BOOLEAN) /\ Len(sleeps) <= MaxSleeps
  /\ pc \in {"off", "born"} \cup Awaits \cup Sync
  /\ written \in BOOLEAN /\ anchored \in BOOLEAN /\ voiced \in BOOLEAN /\ bodied \in BOOLEAN
  /\ frozen \in BOOLEAN /\ ready \in BOOLEAN /\ reachable \in BOOLEAN
  /\ scan \in [total : Nat, cursor : Cursors]
  /\ faults \in 0..MaxFaults /\ changes \in 0..MaxChanges

Init ==
  /\ stageFile = Blank("none") /\ stage = Blank("none") /\ locus = "none"
  /\ requestFile = 0 /\ ackFile = 0 /\ request = 0 /\ issued = 0 /\ atBoot = 0
  /\ sleeps = << >> /\ pc = "off" /\ scan = [total |-> 0, cursor |-> NoCursor]
  /\ written = FALSE /\ anchored = FALSE /\ voiced = FALSE /\ bodied = FALSE
  /\ frozen = FALSE /\ ready = FALSE /\ reachable = TRUE
  /\ faults = 0 /\ changes = 0

Fault == faults < MaxFaults /\ faults' = faults + 1

-----------------------------------------------------------------------------
(* The boot. *)

(* The stage file decides; without one, any trace of a life lived in this  *)
(* tree, the locus file among them, means an embodied entity.              *)
BootStage ==
  IF stageFile.stage # "none" THEN stageFile
  ELSE IF locus # "none" THEN Blank("embodied") ELSE Blank("development")

(* What a process knows of requests when it starts. *)
BootRequest_FromFile == requestFile (* Mutant: the old request is taken up again. *)
BootRequest == 0

Boot ==
  /\ pc = "off"
  /\ stage' = BootStage
  /\ pc' = IF BootStage.stage = "development" THEN "boot" ELSE "born"
  /\ voiced' = (BootStage.stage # "development") /\ bodied' = voiced'
  /\ request' = BootRequest /\ atBoot' = issued
  /\ written' = FALSE /\ anchored' = FALSE /\ frozen' = FALSE
  /\ UNCHANGED <<disk, scan, ready, reachable, sleeps, issued, faults, changes>>

(* A developing entity is pinned to its stimulus source before any module  *)
(* is built; the gate starts last.                                         *)
Pin ==
  /\ pc = "boot" /\ locus # "locked"
  /\ locus' = "locked"
  /\ UNCHANGED <<stageFile, requestFile, ackFile, pc, gate, effectors, world, counts,
                 faults, changes>>

Launch ==
  /\ pc = "boot" /\ locus = "locked"
  /\ pc' = "wait"
  /\ UNCHANGED <<disk, gate, effectors, world, counts, faults, changes>>

(* The process is killed, or a phase of its boot fails. *)
Crash ==
  /\ pc # "off" /\ Fault
  /\ pc' = "off"
  /\ stage' = Blank("none") /\ request' = 0 /\ voiced' = FALSE /\ bodied' = FALSE
  /\ UNCHANGED <<disk, written, anchored, scan, world, counts, changes>>

-----------------------------------------------------------------------------
(* One tick of the gate: begin, count the sleeps, evaluate, decide. *)

GateStays == UNCHANGED <<effectors, world, counts, changes>>

Tick ==
  /\ pc = "wait" /\ Developing
  /\ pc' = IF anchored THEN "count" ELSE "begin"
  /\ scan' = [total |-> stage.count, cursor |-> stage.cursor]
  /\ UNCHANGED <<disk, stage, written, anchored, request, faults>> /\ GateStays

(* _begin_boot; without the server's time the tick ends here. *)
BeginBoot ==
  /\ pc = "begin"
  /\ \/ anchored' = TRUE /\ pc' = "count" /\ UNCHANGED faults
     \/ Fault /\ pc' = "wait" /\ UNCHANGED anchored
  /\ UNCHANGED <<disk, stage, written, scan, request>> /\ GateStays

(* What one page adds: a completion cut by a stop adds nothing. *)
CountOf(from, to) == Cardinality({i \in (from + 1)..to : sleeps[i]})

PageEnd == IF scan.cursor + PageSize < Len(sleeps) THEN scan.cursor + PageSize ELSE Len(sleeps)

CountPage ==
  /\ pc \in {"count", "final"} /\ scan.cursor # NoCursor /\ scan.cursor < Len(sleeps)
  /\ scan' = [total |-> scan.total + CountOf(scan.cursor, PageEnd), cursor |-> PageEnd]
  /\ UNCHANGED <<disk, pc, stage, written, anchored, request, faults>> /\ GateStays

(* Total and cursor are kept together, once the last page is read. *)
Counted_KeepsCursor == [stage EXCEPT !.count = scan.total] (* Mutant: the cursor is left. *)
Counted == [stage EXCEPT !.count = scan.total, !.cursor = scan.cursor]
AnchoredAtTail == [stage EXCEPT !.cursor = Len(sleeps), !.anchor = Len(sleeps)]

(* _persist_if_changed: the awake time moves with nearly every tick, so an *)
(* unchanged record may be written too, and is when none was written yet;  *)
(* not so at the end, when the awake time has been written before.         *)
Persist(s) ==
  /\ stage' = s
  /\ \/ /\ pc = "final" => s # stage
        /\ \/ stageFile' = s /\ written' = TRUE /\ UNCHANGED faults
           \/ Fault /\ UNCHANGED <<stageFile, written>>
     \/ /\ s = stage /\ (written \/ pc = "final")
        /\ UNCHANGED <<stageFile, written, faults>>

AfterCount == IF pc = "final" THEN "off" ELSE "readout"

CountEnds ==
  /\ pc \in {"count", "final"}
  /\ \/ scan.cursor = NoCursor /\ Persist(AnchoredAtTail)
     \/ scan.cursor = Len(sleeps) /\ Persist(Counted)
  /\ pc' = AfterCount
  /\ UNCHANGED <<locus, requestFile, ackFile, anchored, scan, request>> /\ GateStays

(* The bus fails in the middle of a count: nothing of it is kept.  A tick  *)
(* persists the record all the same, unless that fails as well.            *)
CountFails ==
  /\ pc \in {"count", "final"} /\ Fault
  /\ \/ pc = "count" /\ stageFile' = stage /\ written' = TRUE
     \/ UNCHANGED <<stageFile, written>>
  /\ pc' = AfterCount
  /\ UNCHANGED <<locus, requestFile, ackFile, stage, anchored, scan, request>> /\ GateStays

(* A request is withdrawn when what it asked for lapses. *)
Withdraw_FileOnly == requestFile' = 0 /\ UNCHANGED <<request, faults>> (* Mutant: the file alone. *)
Withdraw ==
  /\ request' = 0
  /\ \/ request # 0 /\ requestFile' = 0 /\ UNCHANGED faults
     \/ request # 0 /\ Fault /\ UNCHANGED requestFile
     \/ request = 0 /\ UNCHANGED <<requestFile, faults>>

Evidence == ready /\ stage.count >= MinSleeps

(* The readout is read; a tick that finds the entity ready goes on to ask  *)
(* for the body only when the entity is not frozen at this moment.         *)
NotReady ==
  /\ pc = "readout" /\ ~Evidence
  /\ pc' = "wait" /\ Withdraw
  /\ UNCHANGED <<stageFile, locus, ackFile, stage, written, anchored, scan>> /\ GateStays

Evaluate ==
  /\ pc = "readout" /\ Evidence
  /\ pc' = IF frozen THEN "wait" ELSE "probe"
  /\ UNCHANGED <<disk, gate, faults>> /\ GateStays

(* is_acknowledged: both ids exist and are the same. *)
Acknowledged == request # 0 /\ ackFile = request

(* _embodiment_availability: a body that runs already counts as in reach. *)
Available == reachable \/ bodied

HoldForBody ==
  /\ pc = "probe" /\ ~Available
  /\ pc' = "wait" /\ Withdraw
  /\ UNCHANGED <<stageFile, locus, ackFile, stage, written, anchored, scan>> /\ GateStays

(* The request for an acknowledgement is written once and then stands. *)
HoldForAck ==
  /\ pc = "probe" /\ Available /\ NeedsAck /\ ~Acknowledged
  /\ pc' = "wait"
  /\ \/ request # 0 /\ UNCHANGED <<request, requestFile, issued, faults>>
     \/ /\ request = 0 /\ issued < MaxRequests
        /\ issued' = issued + 1 /\ request' = issued' /\ requestFile' = issued'
        /\ UNCHANGED faults
     \/ request = 0 /\ Fault /\ UNCHANGED <<request, requestFile, issued>>
  /\ UNCHANGED <<stageFile, locus, ackFile, stage, written, anchored, scan, effectors,
                 world, atBoot, changes>>

(* _do_maturation: the voice first, then the body, which may not come up. *)
BeginMaturation ==
  /\ pc = "probe" /\ Available /\ (NeedsAck => Acknowledged)
  /\ pc' = "activate" /\ voiced' = TRUE
  /\ UNCHANGED <<disk, gate, bodied, world, counts, faults, changes>>

Activate ==
  /\ pc = "activate"
  /\ \/ Available /\ bodied' = TRUE /\ pc' = "mature" /\ UNCHANGED faults
     \/ Fault /\ ~bodied /\ pc' = "wait" /\ UNCHANGED bodied
     \/ ~Available /\ pc' = "wait" /\ UNCHANGED <<bodied, faults>>
  /\ UNCHANGED <<disk, gate, voiced, world, counts, changes>>

(* The stage is written and then kept in memory; a failing write ends the  *)
(* tick.                                                                   *)
Kept == Embodied

WriteStage_Unlocks == (* Mutant: the lock is taken off before the stage is on disk. *)
  /\ pc = "mature" /\ locus' = "open"
  /\ \/ stageFile' = Embodied /\ stage' = Kept /\ pc' = "clear" /\ UNCHANGED faults
     \/ Fault /\ pc' = "wait" /\ UNCHANGED <<stageFile, stage>>
  /\ UNCHANGED <<requestFile, ackFile, written, anchored, scan, request>>
  /\ GateStays
WriteStage ==
  /\ pc = "mature"
  /\ \/ stageFile' = Embodied /\ stage' = Kept /\ pc' = "clear" /\ UNCHANGED faults
     \/ Fault /\ pc' = "wait" /\ UNCHANGED <<stageFile, stage>>
  /\ UNCHANGED <<locus, requestFile, ackFile, written, anchored, scan, request>>
  /\ GateStays

ClearFiles ==
  /\ pc = "clear"
  /\ pc' = "unlock" /\ request' = 0
  /\ \/ requestFile' = 0 /\ ackFile' = 0 /\ UNCHANGED faults
     \/ requestFile' \in {requestFile, 0} /\ UNCHANGED ackFile /\ Fault
  /\ UNCHANGED <<stageFile, locus, stage, written, anchored, scan>> /\ GateStays

Unlock ==
  /\ pc = "unlock"
  /\ pc' = "born"
  /\ \/ locus' = "open" /\ UNCHANGED faults
     \/ Fault /\ UNCHANGED locus
  /\ UNCHANGED <<stageFile, requestFile, ackFile, gate>> /\ GateStays

(* A stop: the loop sees it between two ticks, writes what it has and      *)
(* counts once more, or its task is cancelled at an await and only writes. *)
Final(next) ==
  /\ Fault
  /\ IF Developing /\ anchored
     THEN stageFile' \in {stage, stageFile} /\ pc' = next
     ELSE UNCHANGED stageFile /\ pc' = "off"
  /\ scan' = [total |-> stage.count, cursor |-> stage.cursor]
  /\ UNCHANGED <<locus, requestFile, ackFile, stage, written, anchored, request>>
  /\ GateStays

StopSeen == pc \in {"wait", "born"} /\ Final("final")
Cancelled == pc \in Awaits \ {"boot", "final"} /\ Final("off")

-----------------------------------------------------------------------------
(* The rest of the process, the body and the operator. *)

Running == pc \in Awaits \cup {"born"}
Undisturbed == UNCHANGED <<pc, gate, effectors, counts>>

SleepCompletes(e) ==
  /\ Running /\ pc # "boot" /\ Len(sleeps) < MaxSleeps
  /\ sleeps' = Append(sleeps, e)
  /\ UNCHANGED <<disk, frozen, ready, reachable, faults, changes>> /\ Undisturbed

Change == changes < MaxChanges /\ changes' = changes + 1

Freezes ==
  /\ Running /\ frozen' = ~frozen
  /\ IF frozen THEN UNCHANGED changes ELSE Change
  /\ UNCHANGED <<disk, ready, reachable, sleeps, faults>> /\ Undisturbed

ReadinessMoves ==
  /\ Running /\ ready' = ~ready
  /\ IF ready THEN Change ELSE UNCHANGED changes
  /\ UNCHANGED <<disk, frozen, reachable, sleeps, faults>> /\ Undisturbed

BodyMoves ==
  /\ pc \notin Sync /\ reachable' = ~reachable
  /\ IF reachable THEN Change ELSE UNCHANGED changes
  /\ UNCHANGED <<disk, frozen, ready, sleeps, faults>> /\ Undisturbed

(* The dashboard is another process: it acknowledges the request on disk,  *)
(* whether or not a process still waits for it.                            *)
Acknowledge ==
  /\ requestFile # 0 /\ ackFile # requestFile
  /\ ackFile' = requestFile
  /\ UNCHANGED <<stageFile, locus, requestFile, world, faults, changes>> /\ Undisturbed

-----------------------------------------------------------------------------
GateStep ==
  \/ Tick \/ BeginBoot \/ CountPage \/ CountEnds \/ CountFails
  \/ NotReady \/ Evaluate \/ HoldForBody \/ HoldForAck
  \/ BeginMaturation \/ Activate \/ WriteStage \/ ClearFiles \/ Unlock

Next ==
  \/ Boot \/ Pin \/ Launch \/ Crash
  \/ GateStep \/ StopSeen \/ Cancelled
  \/ \E e \in BOOLEAN : SleepCompletes(e)
  \/ Freezes \/ ReadinessMoves \/ BodyMoves \/ Acknowledge

(* The loop of the gate is never starved, a boot goes on, and an operator  *)
(* who is asked answers.  Nothing makes a sleep complete, the evidence     *)
(* arrive, a freeze end or a process start.                                *)
Fairness == WF_vars(Pin) /\ WF_vars(Launch) /\ WF_vars(GateStep) /\ WF_vars(Acknowledge)

Spec == Init /\ [][Next]_vars /\ Fairness

-----------------------------------------------------------------------------
(* Properties. *)

FinishedRests(from, to) == Cardinality({i \in (from + 1)..to : sleeps[i]})
Matures == stageFile.stage # "embodied" /\ stageFile'.stage = "embodied"

(* _count_new_sleeps: whatever is killed, fails or is read in pieces, the  *)
(* record on disk and the one in memory hold every finished rest between   *)
(* their anchor and their cursor exactly once, and the record in memory    *)
(* never falls behind the one on disk.                                     *)
CountedOnce(s) == s.cursor # NoCursor => s.count = FinishedRests(s.anchor, s.cursor)
SleepsCountedOnce ==
  /\ CountedOnce(stageFile)
  /\ pc # "off" =>
       /\ CountedOnce(stage)
       /\ stageFile.cursor # NoCursor =>
            stage.anchor = stageFile.anchor /\ stage.cursor >= stageFile.cursor

(* _evaluate_once, is_acknowledged: an entity matures only after enough    *)
(* rests that ended, and, where an operator must agree, on the answer to a *)
(* request this very process made.                                         *)
MaturesAsAsked ==
  [][Matures => /\ FinishedRests(0, Len(sleeps)) >= MinSleeps
                /\ NeedsAck => ackFile > atBoot]_vars

(* advance_to_embodied, _final_lived_time: no write of the gate, the last  *)
(* one of a stopping process included, brings a matured entity back.       *)
NeverRegresses ==
  [][stageFile.stage = "embodied" => stageFile'.stage = "embodied"]_vars

(* _do_maturation: while the file calls a running entity developing, its   *)
(* locus stays locked to the stimulus source.                              *)
ConfinedWhileDeveloping ==
  pc \notin {"off", "boot"} /\ stageFile.stage = "development" => locus = "locked"

(* run: in a process that goes on, with the evidence there, the body in    *)
(* reach and no freeze, no failed write, withdrawn request or refused body *)
(* of the past keeps the entity from maturing.                             *)
Steady ==
  /\ pc # "off" /\ ready /\ reachable /\ ~frozen
  /\ stage.anchor # NoCursor /\ FinishedRests(stage.anchor, Len(sleeps)) >= MinSleeps
ReadyMatures == <>[]Steady => <>(stageFile.stage = "embodied")
=============================================================================
