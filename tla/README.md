# KAINE freeze control, cognitive cycle and life of the entity: a TLA+ verification project

KAINE (`src/kaine/`) runs an artificial cognitive architecture as one asyncio
process, the *cycle*: modules exchange events over a Redis bus, a workspace
selects among them, and the engine ticks. Three subjects are modelled here.

* *The freeze protocol.* Around the engine stands a set of protective actors that
  may stop the entity: the operator at the dashboard, the module supervisor, the
  welfare monitor, the preserve watcher, the stimulus watcher and the
  programme-end watcher. They share one file, `state/cycle/control.json`, a stack
  of freeze entries. Every safety promise the documentation makes about the
  entity (a welfare pause is never lifted by accident, a frozen entity does not
  tick, a recovered entity runs again) is a promise about the interleaving of
  these actors, their crashes and their restarts.
* *The cycle* itself, which all of them stop and start.
* *The life of the entity*: its sleeps and the rests asked of it, the training of
  its voice, its maturation, its return from a preserved bundle and its deletion.
  These outlive the process, so that what a stop or a crash leaves on disk is what
  the next start goes by.

Run a model with `tlc -config X.cfg M`, check a proof with `tlapm M.tla`.
`PROJECT.json` lists the components, runs, mutants, the map from definitions to
source lines, the findings, the hazards and the theorems.

## 1. Inventory

| Part | State it keeps | Operations | Interacts with | What is hard | What makes it correct |
|---|---|---|---|---|---|
| Freeze stack (`cycle/control_state.py`) | `control.json`: list of `{source, reason, frozen_at}` | push, pop, stand down, override, clean-boot clear, reads | every protective actor, in two processes | stacked owners, unreadable file, boot against welfare, audit after the write | each owner lifts its own entries only; welfare goes by a named override only |
| Freeze watch and launch (`cycle/__main__.py`) | engine pause flag, perception snapshot, playlist hold | poll, pause, resume, restore perception, pause at launch | control file, `desired.json`, engine, playlist clock | stale reads, snapshot in memory, partial writes, `desired.json` read and replaced by several writers without a lock | pause, playlist and perception follow the stack; nothing ticks ahead of it |
| Dashboard and command line (`dashboard/cycle_control.py`, `cycle/control.py`) | none | freeze, resume, override, preserve request | control file, request and result files | another process, at any time | every request taken up is answered once |
| Supervisor (`cycle/supervisor.py`) | incidents (attempts, last good), escalated | poll, assess, restart (light, heavy), escalate, halt | control file, modules, snapshots | a freeze per attempt, foreign freezes between read and push, restarts that fail half way | repairs under its own freeze, no other freeze touched, every crash answered |
| Preserve watch (`cycle/preserve_watch.py`) | last handled id, release pending | freeze, wait, preserve, report, release | request and result files, control file, engine | failed steps in the middle, restart, overwritten request | one freeze, which ends; no request handled twice, each one taken up concluded |
| Programme end (`cycle/programme_end.py`) | fired once | request preserve-and-stop, wait, freeze on failure | preserve watch | timeout racing a late result | the entity does not run on without senses |
| Welfare monitor (`cycle/preservation_monitor.py`) | trackers, latch, pending freeze, pause placed | poll, respond, retry, re-arm, adopt | control file, bus, preservation, caretaker | a freeze that fails to land, override against re-arm, restart under a standing freeze | one capture and one pause per episode, back in force after an override |
| Welfare rest (same file, the indicator arm) | stage (armed, resting, fresh), request, cursors, two bounds | ask for a rest, follow its events, escalate | the sleep module over two streams | answers, starts and ends in any order to the polls, lost or of another sleep | only a rest that was slept counts; every request ends; what a rest does not relieve is answered |
| Stimulus watch (`cycle/stimulus_source_watch.py`) | armed, lost, timers | declare loss, re-freeze, release on return | control file, bus | the freeze silences what must end it; override while lost | a loss freezes, a return resumes, nothing is left behind |
| Engine (`cycle/engine.py`) | pause event, stream cursors, processing and experiential rates, accumulator, tick index, pause and unawake accounts | tick, pause, resume, rate control, interoceptive regulation | bus, workspace, action selection, clocks | a pause during a tick, cursors at the first read, failed and partial reads, rates changed between ticks | each entry handled once and in order, nothing of an earlier process acted on, the broadcast rate kept, no new tick under a pause |
| Action selection (`workspace/action_selection.py`) | in-flight speech guard and its time | select actions on a broadcast, publish intents | engine, language organ | an organ that answers late or never, the reply read in a later tick than the broadcast | one utterance at a time, never mute for good |
| Sleep (`modules/sleep/module.py`) | state cycle (phase, time awake, time rested), lock, pending flag, locus to give back, remainder to resume | poll, sleep by cycle, fatigue, request, welfare or backstop, end, shut down, serialise, restore | perceptual locus, the other modules over the bus, supervisor, checkpoint, welfare monitor | failure or cancellation at any await, also while announcing the end; cuts in a rest; three copies of the carried state (checkpoint, last-good snapshot, the one carried into a rebuilt module) | a rest is slept once and in full, the senses come back, sleeps recur |
| Resume checkpoint (`lifecycle/resume_checkpoint.py`) | rolling checkpoint, revive record, `.pre-revive` copy | write, mark a rest, rename aside, restore, discard | sleep, revive | older than what the crash ended; renamed without a sync | never laid over stores it does not belong to |
| Maturation gate (`lifecycle/gate_runner.py`, `maturation_ack.py`, `stage.py`) | stage record (count, cursor), request, acknowledgement, locus lock | tick, count rests, ask, mature, final write, resolution at boot | sleep stream, operator, vocal and embodiment modules, locus | a kill between two writes, stale answers, the count over pages and failed reads | each rest counts once, maturation on evidence and agreement, once and for good, confined until then |
| Revive (`cycle/revive_boot.py`, `lifecycle/preservation.py`) | the tree being replaced, evidence set aside, marks | record, rename, import memory, move evidence, carry development files, name | checkpoint, episodic memory, individuation, identity | a step that fails or a machine that goes down anywhere, a plain start or a rerun after it | nothing of two lives is mixed, no evidence lost, a rerun completes |
| Unfrozen clock (`cycle/unfrozen_clock.py`) | sampled flag, accumulated time | observe | control file | a freeze between two samples | never runs ahead of lived time |
| Organ window (`modules/sleep/organ_window.py`) and organ server (`organ_server/`) | window file, trainer job, served weights | unload and reload the organ, train, swap adapters, veto | trainer, language module | a crash in the window, a stop that does not wait | unreachable in this version: `TRAINING_SOURCES` (`modules/sleep/voice_alignment.py:32`) is the empty set, and the window asks for a member of it (`modules/sleep/module.py:1655`) |
| Voice training (`modules/sleep/job_queue_trainer.py`, `trainer_service.py`, `subprocess_trainer.py`) | job directories with their marks, inputs, results and adapters; the entity's adapter store | make a job, wait, promote, give up; find, claim, train, convert, answer; cancel | test-LoRA tool, trainer services on the same volume, decommission | three programs that agree by files only, each write seen on its own; crashes that leave a claim | a job is run once, a whole adapter is promoted, the inputs do not outlive their run |
| Decommission (`lifecycle/__main__.py`, `decommission.py`, `decommission_locations.py`) | bundles, audit log, what is left of the entity | gate, back up, confirm, drop, clear, remove, record | Qdrant, Redis, jobs volume, identity | a removal that fails or a kill anywhere, then a run over what is left | nothing goes that is not in a backup, files last, run again it ends as long as its gate lets it run |
| Rest of the lifecycle (`lifecycle/`) | identity, bundles, forks, locks | capture, fork, merge | disk, bus, Qdrant | partial failures, locks | nothing lost or duplicated by a crash |
| Bus (`bus/`) | streams | publish, read from a cursor, tail lookup, trim | every module | entries that cannot be decoded, a failed read of several streams | no silent gap |
| Workspace (`workspace/`) | coalition, access gate | select, publish | engine | feedback and staleness | numeric |
| Remote bridge, distributed, dashboard pages, evaluation, experiment, plugins, setup and the numeric modules | see `PROJECT.json` | | | | not modelled |

The components interact in three ways: through files (the control file, the
perception flags, the locus, request and result), which other processes write at
any time; through awaits in the one event loop, between which every in-process
actor may run; and through the process itself, whose stop or crash takes all
memory and leaves all files.

## 2. Modules

```
ControlState ---- ControlStateTheorems (cited by the proofs of its users)
   |
   +-- FreezeControl ------ CycleProofs
   |      implements FreezePromise
   +-- Supervisor --------- SupervisorProofs
   +-- PreserveWatch
   |      +-- ProgrammeEnd - ProgrammeEndProofs
   |             implements PreserveWatch
   +-- StimulusWatch ------ StimulusWatchProofs
   +-- WelfareMonitor ----- WelfareProofs

WelfareRest -- WelfareProofs
Engine ------- CycleProofs            (MCEngine for its run)
Sleep -------- DevelopmentProofs
Maturation --- DevelopmentProofs
Revive ------- LifecycleProofs
VoiceJobs ---- Decommission ---- LifecycleProofs
```

A module of proofs may cover two components: it extends both, so that
Engine, Sleep, WelfareRest and Decommission qualify the names they share with
the other (`CycleSpec`, `SleepSpec`, `RestSpec`, `DecommissionSpec`, and `Spec`
elsewhere).

**ControlState** gives the control file and its operations as operators. A file
is readable with a stack of entries, or unreadable. An entry keeps its source
and its place in the list; `reason` and `frozen_at` are not told apart by any
property. The stack is a finite set of `[source, at]` records whose places are
exactly `1 .. n`, so that a list is described without recursion and the
operations can be proved about. `push_freeze`, `pop_freeze` (newest entry of a
source), `stand_down` (all of a source), `override`, `unfreeze_for_boot` (all
but welfare) and the reads have the names they have in the code. An unreadable
file reads as a welfare freeze (`fail_closed_state`), and no push, pop or boot
replaces it.

**FreezeControl** has that file, the operator (freeze, resume, override), the
in-process holders, and the life of the process: `Boot` pins a developing entity's
perception on, `ClearStale` clears the stack, `Launch` pauses if a freeze stands,
`Watch` is one round of `_freeze_watch_loop` cut at its awaits (`WatchRead`, then a
freeze or resume, then the restoration). Another process's write may fall anywhere;
an in-process holder's only where the loop awaits (`LoopAwaits`). `standing` and
`commanded` are history.

The control file is changed under a lock and each change is one step. `desired.json`
is not: every writer reads the whole record (`Opens`), edits one field and replaces
the whole (`Saves`), in two steps between which the other process may do the same.
In the cycle these are the boot, the freeze watch and the modules that move the
locus (`LocusMoves`; a locus write carries both flags along), one after the other,
since none of them awaits between its two halves; beside the cycle, the dashboard's
toggles and its locus command (`EditorReads`, `EditorWrites`). `spoiled` is history: a
record was replaced that was not the one read, the dashboard switched a flag
while a freeze had a snapshot to give back, or a write of the freeze watch raised.

**FreezePromise** is what this amounts to for those who freeze, with no file,
stack or loop: holders are a set; a freeze goes by its holder's release, by an
override that names it or at a boot, welfare's (`Kept`) by an override alone; a
launch under a freeze is paused; the cycle stops or goes on only on what it saw of
the holders. `KeepsPromise` in FreezeControl is the refinement: an unreadable file
is welfare's hold, and one entry of several taken away is a stutter.

**Supervisor** is `Supervisor.poll_once` cut at its awaits: `PollQuiet`,
`PollDetect`, `PollFreeze`, `PollRestart`, `PollRecovered`, `PollBackOff`,
`PollEscalate`, and `PollCrash` for a control write that raises. A module is the
state of its tasks and a stale heartbeat. `RestartOutcomes` lists what a light
or heavy restart may leave, including a failure before and after the old tasks
are gone and after the new module was registered.

**PreserveWatch** is one step of the watcher (`BeginRequest`, `PauseSeen`,
`FinishRequest`, `RetryRelease`), the request and result files, the stop or
crash and the boot. **ProgrammeEnd** extends it with the end of a programme,
which writes a request of its own into the same file, waits and falls back to a
freeze; `ImplementsPreserveWatch` says that the composition is still a
preserve watcher, with another holder.

**StimulusWatch** is `StimulusSourceWatch.step` cut at its liveness check and at
the notices of a loss. What the source shows depends on perception, which the
freeze watch turns off under every holder but `development`.

**WelfareMonitor** is the protective response: preservation first, then a pause,
an end or a notice; the latch; the pending freeze and its retries; the
re-arming over several awaits; the adoption of a freeze found at the start. A
crossing is an input; for the indicators, what raises it is WelfareRest.

In Supervisor, PreserveWatch and StimulusWatch the freeze watch is one step, because
what it does inside a round is the subject of FreezeControl. In Sleep and Maturation
a write of the locus is one step, and the writers of `desired.json` that they do not
name are left out: what crossing writers do to the record is in FreezeControl.

**WelfareRest** composes the indicator arm of the monitor with the sleep module
over the two streams that are all they share. `SleepSide` answers a request
(`HandleRequest`, `AnswerBusy`), sleeps, fails, is cut, restarts, and has sleeps of
its own (`OtherSleep`). The monitor's poll is `Ingest`, which reads all there is,
and then one of the actions of `Acts` on what it read. A request id is the one
waited for or an older one. The monitor orders a batch by creation time, while an
answer is created before and published after other events: `since` counts the
unread events an answer is older than. The `accepted` answer is left out (the
monitor ignores it); so is a failing read outside the resting stage, where it
only delays. Publishing may fail before the entry is made or after it
(`RequestLandsLost`). One timing is assumed (`Outlasts`): a sleep does not run to its
end within the one poll of the monitor that read the stream before it started. A sleep
is minutes at least, a poll a few reads, but nothing in the code compares the two. A
publish of `completed` that raises after landing and is then repeated, two ends for one
sleep, is in Sleep (`PublishFails`) and not here.

**Sleep** is the sleep module over a whole life: the ways into a sleep
(`PollRest`, `PollResume`, `PollBackstop`, `Fatigue`, `RestRequest`,
`WelfareRequest`), the pipeline cut at its awaits (`Begin`, `HoldEnds`, `Wake`,
`Fail`, `Publish`, `End`), the perceptual locus it turns off and gives back, and
the three cuts: a supervisor's rebuild, a clean stop with its final checkpoint, a
crash. The supervisor freezes for an incident of this module or of another and takes
a snapshot of all modules (`Incident`, `lastGood`); a rebuild of this one carries its
state into the new module (`Cancel`, `Restart`, `Rebuild`) and, as a rebuild of any
other does to this one as it runs (`RebuildOther`), ends by restoring the snapshot
over it (`RestoreLastGood`). The attempts of an incident are one, and one incident is
open at a time. Time is entity time in polls; frozen
time is none, as in the code. `physical` and `virtual` are both "on"; a backstop
may come at any poll once the entity has matured; a request refused because the
last rest was too recent changes nothing and is left out; a checkpoint write
succeeds. The work of the phases (consolidation, replay, voice evaluation,
housekeeping) changes none of this state and is left out. `stretch`, `rested`,
`misled`, `wanted` and `darkened` are history.

**Maturation** is the gate runner and its files. A tick is cut at its awaits:
`Tick`, the count of finished rests page by page (`CountPage`, `CountEnds`,
`CountFails`), `Evaluate`, the holds (`HoldForBody`, `HoldForAck`), and the maturation
in the order of its writes (`BeginMaturation`, `Activate`, `WriteStage`,
`ClearFiles`, `Unlock`). Between awaits freezes, sleeps, lapses of readiness and
the operator move; between any two writes the process may be killed, and `Boot`,
`Pin` and `Launch` decide from the files. The readiness readouts (C1, C3, the
consolidation part of C2) are one flag, lived seconds are not told apart, a count
that fails keeps nothing but the tick still persists its record, the second write of the maturation hook repeats the first, and the individuation
hook writes nothing the gate reads. A stop is seen by the loop between two
ticks (`StopSeen`) or cancels the task at an await (`Cancelled`); the gate runner's
`shutdown()`, which nothing in the repository calls, is left out. The anchor of the count is not on disk before the first write of the
record: a kill before that re-anchors at the tail, and the sleeps before it do
not count.

**Revive** is the revive of a bundle into a tree that may hold an earlier life,
one action per file operation in their order, with `Refused` at every step that can
raise and `Down` at any point, also undoing the renaming of the checkpoint that
is not synced. That renaming is the only write modelled as undone by a power failure;
of the moves of the evidence and the development files, those made are kept. After it a
plain start, a sleep, a recovery of the import by the
operator or a rerun. All stores but the memory collections are one (`others`),
restored before, between or after them; the development files are all carried
by the bundle; a start that is refused after its modules were built shuts them
down, which persists what they hold. What stage and pin do is in Maturation.

**VoiceJobs** is the entity's directory on the trainer-jobs volume and two of the
programs that meet there: `train()` (`Train`, `WriteSpec`, `MakeReady`, then `SeeDone`
and `Promote`, or `GiveUp` at its deadline, or `Raise`) and the trainer services
(`Look`, `Claim`, `Launch`, the script with its own result, `Convert`, `Converted`,
`Finish`, `MarkDone`). Each write of a file that another program looks at is one
action. Either side may be killed (`Kill`, `Crash`). The job's verdict on its own
adapter, the device and the prerequisites are choices; the hot swap and the
retention of adapters are left out. In this version the sleep does not call
`train()` (`TRAINING_SOURCES` is empty); the test-LoRA tool does
(`openspec/changes/individuation-rebuild/validation/test_lora.py` line 335), and the
services and the decommission serve what is on the volume. The module has no
specification of its own: it is run as a part of the next.

**Decommission** extends it with the third program on the volume, the deletion of
an entity and its reruns. The run cancels the jobs (`CancelJob`, `CancelSettled`,
`CancelStuck`), backs up (`Capture`), asks (`Confirm`), cancels again, drops the Qdrant
collections one by one and then the records about them, clears the Redis streams,
removes the files location by location if both are clear, and writes one audit
line. `Order` is the order of the location registry, by groups, told apart by what the
code does with them: gate 2.5 looks into some of them only (`Subtrees`, the code's
`_STATE_SUBTREES`) and refuses a run that finds nothing there; the memory's database, the
lifecycle's files and the checkpoint (`memory`), and the identity's lock, the archive and
the run's own leavings (`works`), are not among them; the directories in the shared
volumes and the forks are told to be the entity's by the identity. `left` is what is
still in place in whole or in part, `whole` what has not been touched, and what is in
place in part can no longer be saved. A removal that fails leaves the location in part, or
gone for all that a later run can see of it (of the identity, `entity.json` gone and its
lock left). What the next run knows is what is left, the
identity by which the directories in shared volumes are told to be the entity's,
and the audit line when it says deleted (one that says incomplete is read by nobody); what a run knows of itself goes with it (`EndRun`). `saved` is what
some bundle holds whole; how a bundle names an earlier export is left out. The
entity may be started between two runs that deleted nothing (`Start`); that it may
be started during a run is left out (section 5). `asserted` is the
`--trainer-stopped` option, given only when no service is at a job. `raced` is history:
the jobs a service took up after the cancellation had passed them; so is `torn`: a file
could not be removed, or a run was killed among the files.

**Engine** is `run_forever` cut at its awaits: `PassGate`, `Seed` (the first use
of a cursor), `consume_control_events`, `consume_interoception_regulation`, the
tick in four steps (`GatherEvents`, `SelectSnapshot`, `PublishWorkspace` with the
policy that runs in the same step, `PublishIntent`) and `Pace`. The tick handles what it
gathered sorted by source, type and position, the consumers of the rates in the order
of the stream (`Handled`); of the types a stream carries, `audition.emotion` sorts first
(`ByType`). A promoted tick whose selection or publish raises makes no broadcast, and
the accumulator has paid for it (`missed`, history). Between any two,
`pause` and `resume` (which the freeze watch calls; no pause hook is registered
in the repository, so each is one step), a producer's `Arrive`, the language module's
`Organ` (its intent loop: an intent is realized as one speech event or given up), time passing on the speech guard, and a `Restart` over the streams the
first process left. An entry is the kind of its payload, or `Poison`, which cannot
be decoded. A cursor is a position in the stream. A bus call may fail; a read
of several streams that fails falls back to one read per stream. Rates are
integers in eighths of a hertz, and the accumulator counts in `Unit` parts of a
broadcast, so that the arithmetic of `advance_experiential` is exact for the rates
of the instance. What the workspace selects, and whether it clears its threshold,
is a choice. Left out: the pacing report and the clocks, adaptive access (off by
default), observers, trimming, error counts and the maintenance latch, policies
other than speech.

## 3. Runs

| Run | Distinct states | What it shows |
|---|---|---|
| `freeze` | 894,311 | the whole protocol keeps `FreezePromise`, from a damaged file too; pause and playlist follow the stack, and perception follows it and is given back unless two writers of `desired.json` crossed or a write of it raised (`WatchCatchesUp`) |
| `supervisor` | 345,866 | repairs happen under the supervisor's freeze, other holders' freezes survive, a crash is answered |
| `preservation` | 78,477 | every capture is made under one preserve freeze; no request answered twice, each one taken up concluded; a finished programme ends the run or pauses it; the refinement |
| `stimulus` | 76,592 | a loss freezes once, a return resumes, the end of development leaves nothing |
| `welfare` | 27,949 | one capture and one freeze per episode, retries until the pause stands, overrides that stand, and the net comes back after one |
| `welfare_rest` | 397,638 | only a rest that was slept is taken for one; an indicator that stays up is answered, whatever becomes of the request |
| `cycle` | 399,081 | each stream's entries are handled once and in order but for the sort of a batch, through short reads, undecodable entries and reads that fail, and none is of an earlier process unless a tail lookup failed; broadcasts keep the rate across rate changes but for ticks that fail; one utterance at a time; at most the tick in flight ends under a pause; the loop catches up, and the speech guard is released again and again |
| `sleep` | 945,985 | a rest cut and resumed is slept in full and not beyond, and a developing entity rests when it is due, unless a stale checkpoint or `last_good` was restored; senses and modules come back, sleeps recur whatever fails |
| `maturation` | 594,287 | every finished rest counts once; an entity matures on evidence and agreement, is confined until then, and matures when nothing stands in the way |
| `revive` | 377,944 | no stale checkpoint over replaced stores, no evidence lost, no half-imported memory downscaled, and a revive asked for again and again lands whole |
| `decommission` | 588,671 | over services that work on: only a whole adapter is promoted; all a backup is owed for is whole in one before it is touched, files go after the remote stores, the strength record after the collections; a job is removed under the service that trains it only when that service slipped behind the cancellation; a deletion that has begun comes to be reported done as long as gate 2.5 lets it run, and what is reported deleted is gone |
| `supervisor_orphan` | | violation: section 5 |

**Bounds.** All are constants, named in the modules. Two holders and a stack of
three or four are enough for every order of a holder below, between and above
another; two or three boots for a state left by one life and found by the next; two
attempts for a first that fails and a second that succeeds or escalates; two modules
for the order of the registry; four request ids for one overwritten, one answered and
one for the programme of each of two lives; two failing checks for the two live
looks a return needs; two overrides for one while lost and one after.

In the cycle, two arrivals and the organ's own speech against a batch of two give
an empty, a part and a full read, one bus failure gives each failure path, one
restart each stale entry, and a guard timeout of two rounds lets the organ answer
before and after it. In `sleep`, two units awake and two of rest give a rest cut at
its start, inside and at its end; the two troubles (`MaxTroubles`, cuts and failures together) give a
rest that is cut, resumed and cut again, a crash over the checkpoint of an earlier stop, a
rebuild over an older snapshot after a failure, and two failing publishes of one sleep. In `freeze`, one
write of `desired.json` from the dashboard against each write of the cycle's process
gives every way two writers cross. In `welfare_rest`, one unread
event when another sleep starts is enough for the end of one sleep to stand before
the answer or start of another in one batch. In `maturation`, three sleeps in pages
of two give a full page and a short one, and three faults a kill, a failure in the
boot after it and one more. In `decommission`, one job
against two services gives two that found the same job and one that claims it
behind the cancellation; one fault a crash of the cycle or of a service; one step that
fails and one kill up to three runs that each stop elsewhere and one that
completes. In `revive`, three faults interrupt a revive, its rerun
and the rerun of that, over every kind of tree and every bundle.

The counters (`MaxFaults`, `MaxStarts`, `MaxCrossings`, `MaxOverrides` and the
like) only keep the state space finite. In Supervisor nothing adverse begins on a
stack of `MaxStack` entries; the supervisor's own pushes are not bounded by it.
`welfare_rest` runs the actions `pause` and `notify`: `end` differs from `pause`, for
the rest stage, only in what ends the process.

**Deadlock** is checked except in the Supervisor runs, where `halted` is the end
of the process, in `maturation`, where a mature entity with no sleep,
fault or change left has nothing to do, and in `decommission`, which ends
with the entity deleted.

**Type invariants.** Each component has its `TypeOK` (`CycleTypeOK`, `SleepTypeOK`,
`RestTypeOK`, `DecommissionTypeOK`). All of them are proved (section 4) and hold on
the instances of the runs, which therefore do not list them.

**Fairness.** Weak fairness of a watcher's steps is what asyncio gives a task
that polls in a loop with a sleep, and every watcher is such a task. Weak
fairness of `Launch` and of the boot steps: a boot goes on. Weak fairness of the
engine's `Loop`: the event loop keeps running the cycle's task; nobody has to resume
it, publish to it or answer it, and `NeverMuteForGood` assumes in its premise that
the policy is consulted again and again. In FreezeControl: a
write of `desired.json` that was begun ends, in either process. In Sleep: the poll loop
(`Poll`) and the sleep that began (`Pipeline`) go on, a timer that is due fires
(`PollBackstop`), an incident ends and a module being rebuilt or a process being stopped
gets there (`Lifecycle`); nobody has to ask for a sleep. In Maturation: the
gate's loop and the boot go on, and an operator who has been asked answers. In
Revive: a revive that runs goes on to its next step, and a process is stopped at
some time. In Decommission: a service that is up goes on and the container starts
one that went down; a run goes on until it ends or is killed; the operator runs it
again until it says deleted or refuses for want of an entity. Nobody has to train.

Strong fairness is used where a step may fail, or be kept from happening, and is
repeated: the rounds of the freeze watch between moves of the locus (`Watch`), a retry of a write that raises (`StepStillLost`, `Retry`), the reading of
stream tails (`Rearms`), the arm timeout (`StepArms` with `armed'`), the two bounds of
a rest, its request and the span of a fresh indicator (`BoundPasses`, `RequestRest`,
`FreshCrosses`), an operator who asks for a revive again and again
(`ReviveStart`), and one who asserts that the trainer is stopped when it is
(`Begin(TRUE)`), as a run refused for a job that is never answered says to do. It says
that a fault does not last for ever, and each use is named in the module. WelfareRest assumes nothing of the sleep module, which may never
answer. No fairness is assumed of an operator otherwise, of another holder, of a
source, of a crash or of a restart.

**Mutants.** Each property of a passing run has a mutant in the module, marked
`Mutant:`, that is a plausible slip in the code it replaces (a view of the
newest entry only, a boot that clears everything, a release given up, a latch
set only on success, a cursor kept over a rest, a mark removed too early, ...).

## 4. Proofs

`ControlStateTheorems` proves, for every file, what the operations preserve:
a stack stays a list of entries whose places are `1 .. n` (`WellFormed`, from
`ListOfEntries`), a push keeps every holder, a pop or stand-down touches only the
named source, an override removes exactly the named ones and needs them present,
and a boot keeps welfare. The renumbering of places after a removal is the hard
part; the lemmas about the cardinality of ranked sets carry it. The other proofs
of the freeze protocol cite them.

Every theorem holds for all values of the constants that the module's named
assumption admits; these assumptions give the constants their types and nothing
else, and TLC evaluates them in the runs. Where a theorem has a further premise
it is stated in the theorem.

**`CycleProofs`, FreezeControl**, for every set of holders, every bound and every
set of faults:

* `TypeCorrect`. The file part is not inductive as typed alone, since the places
  must form a list; the invariant is `WellFormed(ctl)` together with the types of
  the other variables.
* `WelfareOverrideOnly`, by one lemma on what each action does to the file
  (`ControlFileStep`) under `WellFormed(ctl)`.
* `StandingFreezeHolds`. The invariant says nothing of a loop that is about to
  resume, so it is strengthened by `StandingInv`: under a standing freeze the file
  is frozen, and the loop is not past its decision to resume.
* `FreezePromiseKept`: `Spec => KeepsPromise`, the whole refinement (neither side has
  fairness in it): initial states map to initial states, every step to a step or
  a stutter. It needs `LoopInv`: the loop is inside a round only in a process
  that runs.
* `PerceptionComesBack`: `NeverLeftDeafOrBlind` for a developing entity, for any number of
  editors and edits. The property itself leaves out a life in which writers of `desired.json`
  have crossed or a write of it has raised (`spoiled`). `PerceptionInv` walks
  the record field by field: which of the two flags is what was commanded at each point
  of a pin and of a restoration. Without a developing entity it is false (section 5).

**`CycleProofs`, Engine**, for every set of streams, batch size, tempo and guard timeout
the assumption admits, and every sequence of failures, restarts and changes of the
rates: `CycleTypeCorrect`, `EntriesHandledOnce`, `BroadcastsPaced`,
`UtterancesOneByOne`, `PauseLetsOneTickEnd`. `CycleInv` is a conjunction of parts that a
step disturbs one by one:

* `ReadInv`: between the place where a reader began and its cursor it has
  handled exactly the entries that decode, in rising order but for the sort of a batch
  by type (a pair out of order is less than a batch apart), and it began no
  earlier than this process unless its tail lookup failed. What a batch holds is
  a set of positions described by its bounds; that reading it appends a rising
  sequence is proved by a least counterexample (`LeastNat`), which stands
  in for induction.
* `PaceInv`: the accumulator stays within a broadcast, and so does the credit less
  what promoted ticks that failed have `missed` (at most a broadcast for each fault),
  with a bound tied to it when the share of a tick is at most one. At a higher
  share every tick broadcasts and the excess is dropped; then nothing is owed ahead.
* `PauseInv`: what is broadcast under a pause is the tick that had begun.
* `SpeechInv`: as long as the guard was never given up on an utterance still to
  come, an armed guard stands for the one utterance there is: an intent about to
  be published, one with the organ, or its speech not yet read.

**`SupervisorProofs`**: `SupervisorTypeCorrect`, `RepairsUnderFreeze`,
`SupervisorKeepsForeignFreezes`. That the supervisor holds a freeze while it repairs
is not inductive, because a recovery pops one entry of several: the invariant
counts (`FreezesInv`), the supervisor's entries cover its open incidents.

**`ProgrammeEndProofs`**: `TypeCorrect`, `CaptureIsFrozen`, `AnsweredOnce` and
`RefinesPreserveWatch`, the safety part of `ImplementsPreserveWatch`. The invariant
`PInv` counts the preserve entries against the place in the watcher's step
(`HoldInv`: at most one, exactly one in a step, none in between unless a release
is due) and orders the request ids; `EndInv` adds the fallback freeze.

**`StimulusWatchProofs`**: `StimulusTypeCorrect`, and under `~ReleaseFails`
`DevelopmentHoldsOnce` and `HeldIsRemembered` (an entry is always one the running
watcher has a loss on record for). `HoldsInv` ties the entries to the loss on
record. The premise is needed: a release that raises is forgotten (section 5).

**`WelfareProofs`, WelfareMonitor**: `WelfareTypeCorrect`, `AnsweredOnce`,
`OverrideStands`. The invariant relates the number of welfare entries to the latch
and to the pending freeze: while the response is armed no welfare entry stands and
nothing was captured, and after an override of an entry the monitor knows of
nothing of the old episode is left that could freeze.

**`WelfareProofs`, WelfareRest**: `RestTypeCorrect` and `RestsCountOnlyWhenRested`. That
an indicator may come to "fresh" only after a whole sleep is not inductive: what
decides is the order of events in two queues, the stream and the batch read from
it. `RequestInv` says that an id is the current one only while the monitor waits for
it, so that an answer to an older request stays one; `WaitInv` says that, as
long as no sleep has run to its end since the request, no end of a whole sleep stands
behind an event that would open it (`Opens`): not inside the batch, not inside
the stream, not across the two, and not behind an answer that is still to be
published with an earlier time.

**`DevelopmentProofs`, Maturation**: `MaturationTypeCorrect`, `RestsCounted`,
`MaturesOnEvidence`, `MaturityStays`, `DevelopingConfined`. The invariant has three
parts beside types: `StageInv`, what the stage in memory, the stage on disk, the locus
and the process say of each other; `RequestInv`, a request this process knows is the one
on disk and newer than all it found; `CountInv`, the records hold the finished rests
from their anchor to their cursor and the count under way those to its own cursor. That
pages add up, whatever their size, is a lemma on the cardinality of disjoint ranges.

**`DevelopmentProofs`, Sleep**: `SleepTypeCorrect`, `RestsSleptInFull`, `SensesComeBack`,
`RestsAreDue`, for every length of a rest and of the stretch before it. A rest
exists three times: in the module's memory, in the checkpoint, and as what was really
slept (`rested`, history), and a fourth time in the `last_good` snapshot of an incident.
`CarriedInv` orders them while no checkpoint was stale at the end of a process and no
`last_good` when it was restored (`misled`): what is said to be slept has been, what is said to be
awake was, and once the final checkpoint is written its entry is not behind.
`CycleInv` says where each part of the state cycle stands in each state of the
process; `SensesInv`, that the locus is held by a sleep exactly as long as
one remembers where it was, and that what is remembered, or set, is what was wanted.

**`LifecycleProofs`, Revive**: `ReviveTypeCorrect`, `NoStaleCheckpoint`, `EvidenceNeverLost`,
`PartialNeverSlept`, `NamedWhenWhole` (a revive names the tree, and writes the
stage, only when all the bundle holds has landed). `PointInv`: a checkpoint a plain
start would take exists neither once a revive has its record on disk and runs, nor over
stores replaced since it was made, an unsynced renaming undone included; `MemoryInv`: the mark stands whenever the
collections are partial; `WayInv`: what each step of the revive has behind it.

**`LifecycleProofs`, Decommission** (VoiceJobs included): `DecommissionTypeCorrect`,
`AdapterWhole`, `DeletesInOrder`, `RemovesWhenDone`, for any number of jobs, services,
collections, failures and kills. `DecommissionInv`:

* `JobsInv`: a job has one service at work on it at most (`Alone`), with the files that
  the place of that service in its work implies (`Served`); `train()` is alone with a
  job until it is ready and after it is done (`TrainInv`).
* `DeletedInOrder` is `TouchedInOrder` and `ReportedGone`. The first is carried by
  `RunInv`, what a run has behind it at each step: what a
  backup is owed for is saved from the question on, the collections are
  gone before the records about them if nothing failed, the remote stores before the
  files. The file steps walk a sequence; that everything before the place
  reached is gone is again an argument by a least counterexample. The second is carried
  by `ReportInv`: as long as nothing failed, what a run is past among the files is gone, or
  is told by an identity that was not there.
* `CancelInv`: a job the cancellation has passed is trained only by a service
  that took it up behind it, or is one whose wait ran out, and the deletion begins only
  when none of the latter is left or the operator asserted that no trainer runs.

Least counterexamples replace induction over data throughout: the prover cannot
instantiate the library's induction theorems, but a set of naturals that is not
empty has a least element.

*Proved, and not run:* `NeverLeftDeafOrBlind`, `NeverRegresses` and the other properties
of these theorems that no run lists hold on the instances too; what a slip in the
code does to them, a property that is run sees as well.

*Model-checked only:* the liveness properties (`WatchCatchesUp`, `CrashAnswered`,
`NotLeftWithoutSenses`, `RequestsConclude`, `FreezeFollowsSource`, `ResponsePauses`,
`OverrideRearms`, `CatchesUp`, `NeverMuteForGood`, `SleepRecurs`,
`UnrelievedIsAnswered`, `ReadyMatures`, `RerunCompletes`, `Settles`) and the fairness in
`ImplementsPreserveWatch`: fairness is stated with `ENABLED`, which is out of the
prover's reach. Every safety property that a passing run checks is also proved.

## 5. Findings

One is a violation run, with the line it contradicts in `PROJECT.json`.

* `supervisor_orphan` (`RecoveryReleases`): an entry is pushed per attempt, one is popped
  on recovery. A recovery on the second attempt leaves the entry of the first: the cycle
  stays frozen under `supervisor`, which no override may lift
  (`docs/06-operation/remote-and-supervisor.md` line 61: "When recovery succeeds, the
  supervisor releases its freeze").

The following were seen while modelling. The models have the behaviour, and the
property named leaves exactly it out by a premise or a constant where one is
named.

*Freeze protocol.*

* `write_desired_audio`, `write_desired_video` and the locus writer read the whole record
  of `desired.json`, change one field and replace the whole, with no lock, and do so in two
  processes (`perception_state.py` lines 189-202). A write that falls between the two
  halves of another is lost: a flag switched off for a freeze may come back under it, and one
  given back on resume may be off again, although "a freeze/resume cycle never leaves the
  entity deaf or blind" (`docs/08-cognitive-cycle/README.md` line 186). A flag switched at
  the dashboard during a freeze is undone by the snapshot in the same way. A write of the freeze watch that raises is
  logged, and the snapshot dropped all the same (lines 891-896 of `cycle/__main__.py`).
  (`spoiled`, in `WatchCatchesUp` and `NeverLeftDeafOrBlind`.)
* A process stopped while frozen leaves the perception flags off, and the
  snapshot to restore was in its memory; only a developing entity gets them back
  at boot (`docs/08-cognitive-cycle/README.md` line 186; `NeverLeftDeafOrBlind` is proved
  for `Developing = TRUE`, and false otherwise).
* A restart that fails half way leaves a module with no tasks, which is assessed
  alive; its incident is dropped with its freeze kept (`supervisor.py` lines 16-17
  and 261). A development freeze above the supervisor's own entry keeps it out of
  a crash that may have caused the loss (`docs/06-operation/development.md` line 57).
  Only the newest entry of the stack decides whether the supervisor stays out. A
  poll ends with the first module it repairs, so that a module that keeps
  faulting starves those after it. (`CrashAnswered` excludes freezes of others and
  earlier modules that keep faulting in its premise, and takes an emptied module
  for one no longer crashed.)
  `docs/11-preservation.md` line 95 describes the supervisor freezing on top of a
  welfare pause, from which the code stays out.
* A release of the stimulus watch that raises is forgotten
  (`docs/06-operation/development.md` line 57; `ReleaseFails`).
* The fallback freeze of a programme's end is tried once (`ProgrammeEnd`,
  `pe = "unfrozen"`).
* A welfare freeze that was written and yet raised, and is overridden before the
  next poll, is written again (`WelfareMonitor`, `lifted = "unnoticed_entry"`).
* An override takes effect before its audit line is written.

*Cycle.*

* A pause does not wait for the tick in flight, which still makes its broadcast
  and selects actions (`docs/05-dashboard.md` line 224: "no tick, broadcast or
  action selection step occurs"). `OneTickAfterPause` bounds it: one broadcast at
  most.
* A batch is handled sorted by source, type, entry and stream (`engine.py` lines 613-621), so
  that of two entries of one stream in one batch the later may be handled first
  (`HandledOnceInOrder`, `EarlierType`).
* A promoted tick whose selection or publish raises (`engine.py` lines 671 and 695) makes
  no broadcast and has been paid for: it is not made up (`BroadcastsKeepPace`, `missed`).
* A tail lookup that fails seeds the cursor at the start of the stream, so that a
  restarted cycle acts on entries older than itself (`HandledOnceInOrder` makes
  this its only exception).
* A `set_rates` payload whose second rate is bad has its first applied
  (`apply_rate_control_event`); control commands that arrive before the loop's first
  read, at a launch hold for instance, are skipped, because the cursor is seeded
  behind them.

* What was broadcast ahead of an old rate is not held against a new one: a rate
  raised and lowered again and again makes one broadcast more each time than the
  rates together make due. A bound on the lead over a whole life, as first
  stated, held on the instance and is false in general. `BroadcastsKeepPace` therefore
  counts the lead from one change of the rates to the next (`NewRates`), and the
  lag over all of them.

*Sleep and rest.*

* A crash in a sleep leaves the locus at "off", and nothing gives it back
  (`modules/sleep/module.py` lines 949-953, `docs/09-modules/sleep.md` line 13;
  `AwakeOutsideSleep`, `darkened`).
* The checkpoint may be older than the rest that has just ended, so that after a
  crash a completed rest is slept again, although `resume_checkpoint.py` lines
  657-660 say that a crash after a rest resumes none (`RestsWhenDue`, `misled`).
* A heavy rebuild of any module ends by restoring the `last_good` snapshot of all
  modules, taken when the incident began, over the state carried into the new module and
  over the state of the others as they run (`supervisor.py` lines 480-484). For the sleep
  module it can bring back a rest that is over, a remainder of which more was slept, or
  an awake stretch that a sleep had ended (`RestedInFull`, `RestsWhenDue`, `misled`).
* A welfare rest asked for after a sleep announced its end and before it released
  its lock is answered busy and then waits for an end already published: the
  bound on completion passes and a rested entity is paused
  (`docs/11-preservation.md` line 65).
* A read of one stream that hangs after another was read loses the batch gathered
  (`_indicator_ingest`, around line 1965).

*Maturation and revive.*

* A freeze that lands while the body is probed or activated does not keep the
  entity from maturing, although a frozen entity never matures
  (`cycle/__main__.py` line 3065): the pause is looked at once
  (`gate_runner.py` line 526).
* The vocal module leaves its dormancy before the body is activated and the stage
  written: when either fails, a developing entity is no longer dormant
  (`docs/06-operation/development.md` line 157).
* A kill, or a write that fails, between the stage and the unlock leaves the lock
  of development on an embodied entity's locus.
* A fresh entity's locus is pinned before its modules are built, and the pin is a
  trace of a life lived; the stage is written by the gate's first tick. A boot that
  ends in between makes the next one start an embodied entity that never developed
  (`openspec/specs/developmental-stage/spec.md` lines 13-14).
* A kill before the first write of the stage record re-anchors the count at the
  tail of the stream; the sleeps before it do not count.
* A revive whose record is written and whose renaming then fails has replaced
  nothing, and yet the next plain start ignores the entity's own checkpoint
  (`docs/11-preservation.md` line 214).
* A revive refused after all has landed leaves stage and identity written
  (`docs/11-preservation.md` line 212).
* A plain start in an unnamed tree between two attempts gives the tree an
  identity of its own; the rerun is refused.

*Voice jobs and decommission.*

* A service looks for the cancellation when it searches, not when it claims; a job
  found before it is claimed after it, and trains while the decommission copies and
  deletes (`lifecycle/__main__.py` line 671; `RemovedWhenDone`, `raced`).
* The decommission passes over a job that has a result, but the script's own result
  precedes the conversion, so that the directory goes under a service that is still
  converting (`trainer_service.py` lines 167-169, `docs/11-preservation.md` line 265;
  `RemovedWhenDone` speaks of training only).
* The sweep at boot goes over the entities' directories, not over the jobs in them; the
  inputs of a killed run stay until the next `train()`
  (`subprocess_trainer.py` lines 173-174; `Boot`).
* That the cycle is down is checked once, before the backup and the prompts; an
  entity started meanwhile is deleted alive (`lifecycle/__main__.py` lines 490-491;
  `Start` leaves it out).
* Every run notes the stamp points as dropped, so that a third run takes the second's
  backup for the one with the export (`docs/11-preservation.md` line 295; not
  modelled).
* The identity goes before the directories that are told by it; a run that ends in
  between, or one whose removal of the lock beside the identity fails, leaves directories
  that the next run keeps, and reports the entity deleted
  (`docs/11-preservation.md` line 293; `Removable`, `ReportedGone`).
* Gate 2.5 looks for the entity in `_STATE_SUBTREES` only (`decommission.py` lines
  1008-1018, `lifecycle/__main__.py` lines 566-575). After a removal that failed or a kill
  among the files, the memory's database, the lifecycle's files, the works or the
  directories in the volumes can be what is left; every further run is then refused with
  exit 7, "No entity state at the resolved state root" (`docs/11-preservation.md` line 315),
  and the audit log never reports the deletion done (`Settles`, `Stranded`).

## 6. Not modelled

Numeric dynamics (affect, salience, oscillators, planning, world model), device
and network input and output, installation, offline evaluation and the
dashboard's pages have no protocol to check. They are most of the
implementation's lines.

Code with a protocol that has no model:

* Capture of a bundle with its encryption, forks, merges and locks. Supervisor,
  PreserveWatch, WelfareMonitor and Decommission take a capture as one step that
  succeeds or fails.
* The gates of the decommission on configuration, key and unattributed jobs, its dry
  run and the transfer request; the migration of a tree to current names.
* The organ window, the hot swap of an adapter, the other trainer backends and the
  organ server: unreachable as long as `TRAINING_SOURCES` is empty.
* The clocks that leave frozen time out, the engine's pause and unawake accounts:
  how much time they count is a matter of durations, which the models replace by
  nondeterministic expiry.
* The divergence and affect trackers of the welfare monitor, the caretaker's
  webhook queue, the individuation probe, the trimming of streams.

Text, reasons, timestamps, incident records and logs are left out of the modelled
components. The write of one file is one step: `state_io.py` replaces a file atomically.
The changes of the control file are made under a lock, reading included
(`update_json_locked`), and so are one step too. Those of `desired.json` are not: in
FreezeControl reading and replacing it are two steps; in Sleep and Maturation a write of
the locus is one, and its other unlocked writers are left out there. Where a missing
sync matters, for the checkpoint's renaming in Revive, it is modelled. Two hazards in
`PROJECT.json` have no property, with the reasons there.

The remote bridge, which ships disabled, is not modelled. Its `_SenseClaim` asks the
desired perception record for `audio` and `video` with a default of `False`
(`remote/bridge.py` line 273), attributes the record does not have.

## 7. Plan

The core of the freeze protocol, the cycle and the life of the entity is modelled, and
every safety property that is run is proved. What remains, in order of weight:

1. *Abstract specifications* for the later components, with their refinements proved as
   those of `FreezePromise` and PreserveWatch are: a rest as a span that is slept once, for
   Sleep; a deletion as a sequence of stores that only shrinks, for Decommission; a
   stage that changes once, for Maturation with Revive.
2. *Capture* as ordered steps, sealing included, with a crash between any two; the
   bundles of Decommission and Revive are then results of it.
3. *Forks and merges* with their locks.
4. *Engine accounts*: paused and unawake time with sleep nested in a pause, and the
   unfrozen clock with a sampled flag, over a discrete clock.
5. *Composition* of Sleep with WelfareRest, which agree on the sleep's lock and its
   events by hand.
6. `OrganWindow`, once a training source is admitted.
