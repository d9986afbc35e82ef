------------------------------- MODULE Engine -------------------------------
(* The cognitive cycle: run_forever with its pause gate, the consumers of    *)
(* the control and regulation streams, one tick from the reads to the        *)
(* broadcast, and action selection with its one-in-flight speech guard       *)
(* (kaine/cycle/engine.py, kaine/workspace/action_selection.py), over the    *)
(* reads of the bus (kaine/bus/client.py).  The loop is one task and gives   *)
(* way at its awaits: an action is the code from one await to the next, and  *)
(* the freeze watch, the modules, the language organ and the dashboard act   *)
(* in between.                                                               *)
(*                                                                           *)
(* Not modelled: the clocks and the pacing report, diagnostics (error        *)
(* counts, the maintenance latch, latency events), observers that only       *)
(* watch, trimming of the streams, adaptive access (off: no controller).     *)
EXTENDS Integers, Sequences, FiniteSetsExt

CONSTANTS
  Batch,        \* entries of one stream read at a time (100; 32 for control)
  Processing,   \* processing rate at boot, in eighths of a hertz
  Experiential, \* experiential rate at boot, in the same unit
  SetRates,     \* the <<processing, experiential>> pairs the dashboard may send
  GuardTimeout, \* the speech guard's timeout, in rounds of the loop
  MaxArrivals,  \* bound on the entries that reach the bus from outside
  MaxFaults,    \* bound on bus calls and selections that fail
  MaxRestarts,  \* bound on restarts of the process
  Unit          \* parts of one broadcast the accumulator counts in

ASSUME EngineAssumption ==
  /\ {Batch, Processing, Experiential, GuardTimeout, Unit} \subseteq Nat \ {0}
  /\ {MaxArrivals, MaxFaults, MaxRestarts} \subseteq Nat
  /\ SetRates \subseteq Int \X Int

VARIABLES
  awaits,    \* where run_forever awaits
  suspended, \* the pause event is cleared
  log,       \* the streams: entries in arrival order
  cursor,    \* per stream, the position read up to, or Unseeded
  rates,     \* _processing_rate and _experiential_rate
  acc,       \* _experience_acc, in Units
  batch,     \* what the tick in flight holds: its candidates, then its snapshot
  guard,     \* rounds the speech guard has been armed, or Disarmed
  owed,      \* published speak intents the language organ has not realized
  boot,      \* history: per stream, the entries older than this process
  since,     \* history: per stream, where this process began to read
  taken,     \* history: per stream, the entries handled, in order
  lostTail,  \* history: the streams whose tail lookup failed
  credit,    \* history: broadcasts due by the rates and not made, in Units;
             \* below 0 those made ahead since the rates last changed
  missed,    \* history: broadcasts of promoted ticks that failed, in Units
  slipped,   \* history: the guard went off with an utterance still to come
  underPause,\* history: broadcasts made since the pause in force
  arrivals, faults, restarts

readVars == <<log, cursor, boot, since, taken, lostTail>>
paceVars == <<rates, acc, credit, missed>>
speechVars == <<guard, owed, slipped>>
bounds == <<arrivals, faults, restarts>>
cycleVars == <<awaits, suspended, batch, underPause, readVars, paceVars, speechVars, bounds>>

ModuleStreams == {"audition.out", "language.out"}
Streams == ModuleStreams \cup {"cycle.control", "interoception.out"}
Unseeded == -1
Disarmed == -1
Absent == -1
Candidates == [heard : BOOLEAN, spoke : BOOLEAN, promoted : BOOLEAN, inhibited : BOOLEAN]
Nothing == [heard |-> FALSE, spoke |-> FALSE, promoted |-> FALSE, inhibited |-> FALSE]

Poison == <<"poison">>
Messages == {Poison, <<"emotion">>, <<"utterance">>, <<"speech">>, <<"reduce_rate">>}
             \cup {<<"set_rates", r[1], r[2]>> : r \in SetRates}
Rates == [processing : Nat \ {0}, experiential : Nat \ {0}]
Steps == {"gate", "control", "regulate", "tick", "select", "broadcast", "intents", "pace"}

CycleTypeOK ==
  /\ awaits \in Steps /\ suspended \in BOOLEAN
  /\ log \in [Streams -> Seq(Messages)]
  /\ cursor \in [Streams -> Int] /\ since \in [Streams -> Int]
  /\ \A s \in Streams : cursor[s] \in {Unseeded} \cup 0 .. Len(log[s])
  /\ boot \in [Streams -> Nat] /\ \A s \in Streams : boot[s] =< Len(log[s])
  /\ taken \in [Streams -> Seq(Nat)] /\ lostTail \subseteq Streams
  /\ rates \in Rates
  /\ acc \in 0 .. Unit /\ credit \in Int /\ missed \in Nat
  /\ batch \in Candidates
  /\ guard \in {Disarmed} \cup 0 .. GuardTimeout /\ owed \in Nat /\ slipped \in BOOLEAN
  /\ underPause \in Nat
  /\ arrivals \in 0 .. MaxArrivals /\ faults \in 0 .. MaxFaults /\ restarts \in 0 .. MaxRestarts

CycleInit ==
  /\ awaits = "gate" /\ suspended \in BOOLEAN /\ batch = Nothing /\ underPause = 0
  /\ log = [s \in Streams |-> <<>>] /\ boot = [s \in Streams |-> 0]
  /\ cursor = [s \in Streams |-> Unseeded] /\ since = [s \in Streams |-> Unseeded]
  /\ taken = [s \in Streams |-> <<>>] /\ lostTail = {}
  /\ rates = [processing |-> Processing, experiential |-> Experiential]
  /\ acc = 0 /\ credit = 0 /\ missed = 0
  /\ guard = Disarmed /\ owed = 0 /\ slipped = FALSE
  /\ arrivals = 0 /\ faults = 0 /\ restarts = 0

(* The process ends at any await and a new one starts, paused first if a    *)
(* freeze stands.  The streams outlive it; all else is built anew.          *)
Restart ==
  /\ restarts < MaxRestarts /\ restarts' = restarts + 1
  /\ awaits' = "gate" /\ suspended' \in BOOLEAN /\ batch' = Nothing /\ underPause' = 0
  /\ boot' = [s \in Streams |-> Len(log[s])]
  /\ cursor' = [s \in Streams |-> Unseeded] /\ since' = [s \in Streams |-> Unseeded]
  /\ taken' = [s \in Streams |-> <<>>] /\ lostTail' = {}
  /\ rates' = [processing |-> Processing, experiential |-> Experiential]
  /\ acc' = 0 /\ credit' = 0 /\ missed' = 0
  /\ guard' = Disarmed /\ owed' = 0 /\ slipped' = FALSE
  /\ UNCHANGED <<log, arrivals, faults>>
-----------------------------------------------------------------------------
(* The bus.  A bus call may fail; a failure is an exception the caller      *)
(* catches.                                                                 *)

Fails == faults < MaxFaults /\ faults' = faults + 1
Works == UNCHANGED faults

Decodable(s, i) == log[s][i] # Poison

(* Mutant: a stream without entries gives the cursor that means unseeded. *)
tail_id_ZeroIfEmpty(s) == IF log[s] = <<>> THEN Unseeded ELSE Len(log[s])

tail_id(s) == Len(log[s])

(* Mutant: the cursor moves to the last entry that could be decoded. *)
last_scanned_Decoded(s) ==
  Max({cursor[s]} \cup {i \in cursor[s] + 1 .. Min({Len(log[s]), cursor[s] + Batch}) : Decodable(s, i)})

last_scanned(s) == Min({Len(log[s]), cursor[s] + Batch})

(* The positions that read_entries scans and can decode, as it returns them. *)
Decoded(s) == {i \in cursor[s] + 1 .. last_scanned(s) : Decodable(s, i)}

Rising(q) == \A i, k \in DOMAIN q : i < k => q[i] < q[k]
Ordered(S) == CHOOSE q \in [1 .. Cardinality(S) -> S] : Rising(q)
Read(s) == Ordered(Decoded(s))

(* The tick sorts what it gathered by source, type and position; a stream   *)
(* has one source, and "audition.emotion" comes before the other types.    *)
ByType(s) ==
  LET first == {i \in Decoded(s) : log[s][i] = <<"emotion">>}
  IN  Ordered(first) \o Ordered(Decoded(s) \ first)

(* The rates' consumers take the entries as they were returned. *)
Handled(s) == IF s \in ModuleStreams THEN ByType(s) ELSE Read(s)

(* The entries of the streams in from are handled, the cursors moved past  *)
(* everything scanned.                                                     *)
Advance(from) ==
  /\ cursor' = [s \in Streams |-> IF s \in from THEN last_scanned(s) ELSE cursor[s]]
  /\ taken' = [s \in Streams |-> IF s \in from THEN taken[s] \o Handled(s) ELSE taken[s]]
  /\ UNCHANGED <<log, boot, since, lostTail>>

Post(s, entry) == log' = [log EXCEPT ![s] = Append(@, entry)]
-----------------------------------------------------------------------------
(* run_forever. *)

(* Mutant: the gate is looked at by the pacing wait only. *)
GateOpen_Ignored == TRUE

GateOpen == ~suspended

PassGate ==
  /\ awaits = "gate" /\ GateOpen
  /\ awaits' = "control"
  /\ UNCHANGED <<suspended, batch, underPause, readVars, paceVars, speechVars, bounds>>

ReadAt(step) ==
  CASE step = "control"  -> {"cycle.control"}
    [] step = "regulate" -> {"interoception.out"}
    [] step = "tick"     -> ModuleStreams
    [] OTHER             -> {}

(* A cursor is set to the tail on first use; a lookup that fails gives the *)
(* start of the stream.                                                    *)
Seed(s) ==
  /\ s \in ReadAt(awaits) /\ cursor[s] = Unseeded
  /\ \/ /\ Works
        /\ cursor' = [cursor EXCEPT ![s] = tail_id(s)]
        /\ since' = [since EXCEPT ![s] = IF @ = Unseeded THEN Len(log[s]) ELSE @]
        /\ UNCHANGED lostTail
     \/ /\ Fails
        /\ cursor' = [cursor EXCEPT ![s] = 0]
        /\ since' = [since EXCEPT ![s] = 0]
        /\ lostTail' = lostTail \cup {s}
  /\ UNCHANGED <<awaits, suspended, batch, underPause, log, boot, taken, paceVars, speechVars,
                 arrivals, restarts>>

Seeded == \A s \in ReadAt(awaits) : cursor[s] # Unseeded

(* A payload is taken up to its first rate that is not positive. *)
apply_rate_control_event(r, entry) ==
  LET p == entry[2]
      e == entry[3]
      half == IF p > 0 THEN [r EXCEPT !.processing = p] ELSE r
  IN  CASE p # Absent /\ p =< 0 -> r
        [] e > 0                -> [half EXCEPT !.experiential = e]
        [] OTHER                -> half

Command(entry) == [r \in Rates |-> apply_rate_control_event(r, entry)]

(* What the entries of a read make of the rates, one after the other. *)
Applied(effects, r) ==
  LET after[k \in 0 .. Len(effects)] == IF k = 0 THEN r ELSE effects[k][after[k - 1]]
  IN  after[Len(effects)]

(* What was broadcast ahead under the old rates is not held against the new. *)
NewRates(new) ==
  /\ rates' = new /\ UNCHANGED <<acc, missed>>
  /\ credit' = IF new = rates THEN credit ELSE Max({credit, missed})

consume_control_events ==
  /\ awaits = "control" /\ Seeded
  /\ \/ /\ Works /\ Advance(ReadAt(awaits))
        /\ NewRates(Applied([k \in DOMAIN Read("cycle.control") |->
                               Command(log["cycle.control"][Read("cycle.control")[k]])], rates))
     \/ Fails /\ UNCHANGED <<readVars, paceVars>>
  /\ awaits' = "regulate"
  /\ UNCHANGED <<suspended, batch, underPause, speechVars, arrivals, restarts>>

MIN_PROCESSING_RATE == 4    \* 0.5 Hz
MAX_PROCESSING_RATE == 160  \* 20 Hz

(* Four fifths of the rate, kept within its bounds. *)
reduce_rate(r) ==
  [r EXCEPT !.processing =
     Max({MIN_PROCESSING_RATE, Min({MAX_PROCESSING_RATE, (@ * 4) \div 5})})]

Advice == [r \in Rates |-> reduce_rate(r)]

consume_interoception_regulation ==
  /\ awaits = "regulate" /\ Seeded
  /\ \/ /\ Works /\ Advance(ReadAt(awaits))
        /\ NewRates(Applied([k \in DOMAIN Read("interoception.out") |-> Advice], rates))
     \/ Fails /\ UNCHANGED <<readVars, paceVars>>
  /\ awaits' = "tick"
  /\ UNCHANGED <<suspended, batch, underPause, speechVars, arrivals, restarts>>
-----------------------------------------------------------------------------
(* tick, up to its first await after the reads. *)

Kinds(from) == UNION {{log[s][i] : i \in Decoded(s)} : s \in from}

(* Mutant: the accumulator is clamped before a broadcast is taken from it. *)
Carry_Clamped(total) == Min({total, Unit}) - Unit

(* What is left once a broadcast is taken; at most one more is kept. *)
Carry(total) == Min({total - Unit, Unit})

(* What one tick adds: experiential over processing rate, in Units. *)
Share == (rates.experiential * Unit) \div rates.processing

advance_experiential(promoted) ==
  /\ promoted = (acc + Share >= Unit)
  /\ acc' = IF promoted THEN Carry(acc + Share) ELSE acc + Share
  /\ credit' = credit + Min({Share, Unit})
  /\ UNCHANGED missed

(* The organ's own speech, selected or not, releases the guard. *)
GuardAfterOwn(kinds) == IF <<"speech">> \in kinds THEN Disarmed ELSE guard

(* Speech of an earlier process stands for no utterance of this one. *)
StaleSpeech(from) ==
  "language.out" \in from /\ \E i \in Decoded("language.out") : i =< boot["language.out"]

(* One read of all module streams; when it fails each is read by itself,    *)
(* and those that fail again are left for the next tick.                    *)
GatherEvents ==
  /\ awaits = "tick" /\ Seeded
  /\ \E from \in SUBSET ModuleStreams, promoted \in BOOLEAN :
       /\ IF from = ModuleStreams THEN Works ELSE Fails
       /\ Advance(from)
       /\ advance_experiential(promoted)
       /\ batch' = [Nothing EXCEPT !.heard = <<"utterance">> \in Kinds(from),
                                   !.spoke = <<"speech">> \in Kinds(from),
                                   !.promoted = promoted]
       /\ guard' = GuardAfterOwn(Kinds(from))
       /\ slipped' = (slipped \/ StaleSpeech(from))
  /\ awaits' = "select"
  /\ UNCHANGED <<suspended, underPause, rates, owed, arrivals, restarts>>

(* A promoted tick whose selection or broadcast fails makes none, and the  *)
(* accumulator, which has paid for it, does not make it up.  (A publish    *)
(* that raises counts as failed though its entry may have arrived.)        *)
Broadcast == credit' = credit - Unit /\ UNCHANGED <<rates, acc, missed>>
Missed == missed' = missed + Unit /\ UNCHANGED <<rates, acc, credit>>

(* The workspace selects some of the candidates (the other modules' too) and *)
(* says whether they clear its threshold, or raises.  Only a promoted        *)
(* snapshot goes further.                                                    *)
SelectSnapshot ==
  /\ awaits = "select"
  /\ \/ /\ batch.promoted /\ Works /\ UNCHANGED paceVars
        /\ \E heard, spoke, inhibited \in BOOLEAN :
             /\ heard => batch.heard
             /\ spoke => batch.spoke
             /\ batch' = [Nothing EXCEPT !.heard = heard, !.spoke = spoke, !.inhibited = inhibited]
        /\ awaits' = "broadcast"
     \/ batch.promoted /\ Fails /\ Missed /\ batch' = Nothing /\ awaits' = "pace"
     \/ ~batch.promoted /\ Works /\ UNCHANGED paceVars /\ batch' = Nothing /\ awaits' = "pace"
  /\ UNCHANGED <<suspended, underPause, readVars, speechVars, arrivals, restarts>>
-----------------------------------------------------------------------------
(* The broadcast and action selection. *)

Unread == {i \in Max({cursor["language.out"], 0}) + 1 .. Len(log["language.out"]) :
             Decodable("language.out", i)}

(* Mutant: an armed guard never times out. *)
TimedOut_Never == FALSE

TimedOut == guard >= GuardTimeout

(* The guard after the policy has looked at a snapshot that is not inhibited. *)
GuardSeen == IF batch.spoke \/ TimedOut THEN Disarmed ELSE guard

(* Mutant: an utterance is answered whether or not one is in flight. *)
Speaks_Stacked == ~batch.inhibited /\ batch.heard

Speaks == ~batch.inhibited /\ GuardSeen = Disarmed /\ batch.heard

(* The policy runs in the same step as the end of a broadcast that worked. *)
PublishWorkspace ==
  /\ awaits = "broadcast"
  /\ \/ /\ Works /\ Broadcast
        /\ underPause' = underPause + (IF suspended THEN 1 ELSE 0)
        /\ guard' = IF batch.inhibited THEN guard ELSE IF Speaks THEN 0 ELSE GuardSeen
        /\ slipped' = (slipped \/ (~batch.inhibited /\ TimedOut /\ (owed > 0 \/ Unread # {})))
        /\ awaits' = IF Speaks THEN "intents" ELSE "pace"
     \/ /\ Fails /\ Missed
        /\ awaits' = "pace"
        /\ UNCHANGED <<underPause, guard, slipped>>
  /\ batch' = Nothing
  /\ UNCHANGED <<suspended, readVars, owed, arrivals, restarts>>

(* An intent that cannot be published is dropped, its guard stays armed. *)
PublishIntent ==
  /\ awaits = "intents"
  /\ \/ Works /\ owed' = owed + 1
     \/ Fails /\ UNCHANGED owed
  /\ awaits' = "pace"
  /\ UNCHANGED <<suspended, batch, underPause, readVars, paceVars, guard, slipped, arrivals, restarts>>

Older == IF guard = Disarmed THEN Disarmed ELSE Min({guard + 1, GuardTimeout})

(* The latency event, the tick index, and the wait for the rest of the round. *)
Pace ==
  /\ awaits = "pace" /\ awaits' = "gate"
  /\ guard' = Older
  /\ UNCHANGED <<suspended, batch, underPause, readVars, paceVars, owed, slipped, bounds>>

Loop ==
  \/ PassGate \/ \E s \in Streams : Seed(s)
  \/ consume_control_events \/ consume_interoception_regulation
  \/ GatherEvents \/ SelectSnapshot \/ PublishWorkspace \/ PublishIntent \/ Pace
-----------------------------------------------------------------------------
(* What happens between two awaits of the loop. *)

(* No hooks are registered anywhere, so pause and resume do not give way. *)
pause ==
  /\ ~suspended /\ suspended' = TRUE /\ underPause' = 0
  /\ UNCHANGED <<awaits, batch, readVars, paceVars, speechVars, bounds>>

resume ==
  /\ suspended /\ suspended' = FALSE /\ underPause' = 0
  /\ UNCHANGED <<awaits, batch, readVars, paceVars, speechVars, bounds>>

(* What outside producers put on each stream; the organ's speech is its own. *)
Incoming(s) ==
  {Poison} \cup
  CASE s = "audition.out"      -> {<<"emotion">>, <<"utterance">>}
    [] s = "interoception.out" -> {<<"reduce_rate">>}
    [] s = "cycle.control"     -> {<<"set_rates", r[1], r[2]>> : r \in SetRates}
    [] s = "language.out"      -> {}

Arrive(s) ==
  /\ arrivals < MaxArrivals /\ arrivals' = arrivals + 1
  /\ \E entry \in Incoming(s) : Post(s, entry)
  /\ UNCHANGED <<awaits, suspended, batch, underPause, cursor, boot, since, taken, lostTail, paceVars,
                 speechVars, faults, restarts>>

(* The language organ realizes an intent, or gives it up. *)
Organ ==
  /\ owed > 0 /\ owed' = owed - 1
  /\ Post("language.out", <<"speech">>) \/ UNCHANGED log
  /\ UNCHANGED <<awaits, suspended, batch, underPause, cursor, boot, since, taken, lostTail, paceVars,
                 guard, slipped, bounds>>

(* The guard is timed by the wall clock: its time passes in a pause too. *)
TimePasses ==
  /\ awaits = "gate" /\ suspended
  /\ guard \in 0 .. GuardTimeout - 1 /\ guard' = Older
  /\ UNCHANGED <<awaits, suspended, batch, underPause, readVars, paceVars, owed, slipped, bounds>>

CycleNext == Loop \/ pause \/ resume \/ (\E s \in Streams : Arrive(s)) \/ Organ \/ TimePasses \/ Restart

(* The event loop keeps running the cycle's task.  Nothing makes anybody     *)
(* resume, publish or answer.                                                *)
CycleSpec == CycleInit /\ [][CycleNext]_cycleVars /\ WF_cycleVars(Loop)
-----------------------------------------------------------------------------
(* Properties. *)

(* Every entry that reached a stream after its reader began is handled once *)
(* and none is passed over, whatever batches, reads that fail and entries   *)
(* that cannot be decoded come in between.  The order is that of the stream *)
(* but for the tick's sort: of two entries of one read, the later is        *)
(* handled first if its type is the earlier by name, and entries of one     *)
(* type never overtake each other.  Those of an earlier process are handled *)
(* only where the lookup of the tail failed.                                *)
EarlierType(s, i, k) ==
  s \in ModuleStreams /\ log[s][i] = <<"emotion">> /\ log[s][k] # <<"emotion">>

InOrder(s, i, k) == i < k \/ (EarlierType(s, i, k) /\ i < k + Batch)

HandledOnceInOrder ==
  \A s \in Streams :
    /\ cursor[s] # Unseeded =>
         /\ Range(taken[s]) = {i \in since[s] + 1 .. cursor[s] : Decodable(s, i)}
         /\ \A i, k \in DOMAIN taken[s] : i < k => InOrder(s, taken[s][i], taken[s][k])
    /\ s \notin lostTail => \A k \in DOMAIN taken[s] : taken[s][k] > boot[s]

(* The broadcasts made never fall behind those due by the rates by a whole  *)
(* broadcast, across every change of the rates, but for one broadcast per   *)
(* promoted tick whose selection or publish failed; and from one change to  *)
(* the next they never run ahead of them by more than one.                  *)
InFlight == batch.promoted \/ awaits = "broadcast"

BroadcastsKeepPace ==
  /\ -Unit =< credit - missed
  /\ credit - missed < (IF InFlight THEN 2 * Unit ELSE Unit)
  /\ missed =< faults * Unit

(* The organ is given a second utterance while one is still to come only    *)
(* after the guard was given up on one that came after all, or was released *)
(* by speech of an earlier process.                                         *)
OneUtteranceInFlight == owed + (IF awaits = "intents" THEN 1 ELSE 0) > 1 => slipped

(* A pause lets the tick in flight end and no other begin: at most one      *)
(* broadcast is made under it.                                              *)
OneTickAfterPause == underPause =< 1

(* Once the pauses are over the cursors reach the ends of their streams. *)
CatchesUp ==
  \A s \in Streams : <>[]~suspended => <>[](cursor[s] = Len(log[s]))

(* The policy is asked again and again, so an utterance that never comes    *)
(* does not keep the guard armed for good.                                  *)
Consulted == awaits = "broadcast" /\ ~batch.inhibited /\ awaits' # "broadcast" /\ faults' = faults

NeverMuteForGood == []<><<Consulted>>_cycleVars => []<>(guard = Disarmed)
=============================================================================
