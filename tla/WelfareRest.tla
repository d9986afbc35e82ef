----------------------------- MODULE WelfareRest -----------------------------
(***************************************************************************)
(* The rest stage of the welfare net: the indicator arm of                 *)
(* kaine/cycle/preservation_monitor.py asks the sleep module               *)
(* (kaine/modules/sleep/module.py) for a rest over one stream and follows  *)
(* it over another.  Two tasks that share nothing but the two streams, and *)
(* a third that starts sleeps of its own: the answer, the start and the    *)
(* end of a sleep reach the monitor in batches, late, or not at all.       *)
(***************************************************************************)
EXTENDS Integers, Sequences

CONSTANTS
  Responses,   \* values of [preservation.welfare_response].action
  EarlyTimers, \* may the two time limits of a rest pass while its signals are
               \* still to come?
  MaxUnread,   \* bound on unread sleep events when another sleep starts
  MaxFaults,   \* bound on failing publishes, pipelines and reads
  MaxRestarts, \* bound on the restarts of the sleep module
  MaxReleases, \* bound on the overrides of a welfare freeze
  MaxNotices   \* bound on the requests of a run that only notifies

ASSUME WelfareRestAssumption ==
  /\ Responses \subseteq {"pause", "end", "notify"} /\ EarlyTimers \in BOOLEAN
  /\ {MaxUnread, MaxFaults, MaxRestarts, MaxReleases, MaxNotices} \subseteq Nat

VARIABLES
  response,  \* the configuration of the run, never changed
  ill,       \* do the indicators cross when a span of them is full?
  stage,     \* _ind_stage: "armed", "resting" or "fresh"
  began,     \* of the request: "no", "started" or "standing"
  latched,   \* _acted, the latch
  polled,    \* the poll: "idle" or "read", the streams read and not yet applied
  signals,   \* what the poll read of sleep.out
  inbox,     \* the requests on preservation.out unread by the sleep module
  stream,    \* the events on sleep.out unread by the monitor
  up,        \* welfare_rest_ready
  st,        \* the sleep: "none", "pending", "asleep", "over" (completed is out,
             \* its publish has not returned) or "cut" (the same, aborted)
  serving,   \* the request the sleep answers, "none" for any other sleep
  answering, \* the request being answered busy, or "none"
  since,     \* how many of the unread events were made after that answer
  rested,    \* history: a sleep ran to its end since the last request
  faults, restarts, releases, notices

monitor == <<ill, stage, began, latched, polled, signals, releases, notices>>
module == <<up, st, serving, answering, restarts>>
bus == <<inbox, stream, since>>
restVars == <<response, monitor, bus, module, rested, faults>>

(* A request is the one the monitor waits for, or an older one. *)
Ids == {"current", "old"}
Maybe == Ids \cup {"none"}

Started(own) == [kind |-> "started", own |-> own]
Completed(own, aborted) == [kind |-> "completed", own |-> own, aborted |-> aborted]
Answer(id, reason) == [kind |-> reason, id |-> id]

Events == [kind : {"started"}, own : BOOLEAN]
          \cup [kind : {"completed"}, own : BOOLEAN, aborted : BOOLEAN]
          \cup [kind : {"busy", "refused"}, id : Ids]

RestTypeOK ==
  /\ response \in Responses
  /\ ill \in BOOLEAN /\ latched \in BOOLEAN /\ up \in BOOLEAN /\ rested \in BOOLEAN
  /\ stage \in {"armed", "resting", "fresh"} /\ began \in {"no", "started", "standing"}
  /\ polled \in {"idle", "read"}
  /\ signals \in Seq(Events) /\ stream \in Seq(Events) /\ inbox \in Seq(Ids)
  /\ st \in {"none", "pending", "asleep", "over", "cut"}
  /\ serving \in Maybe /\ answering \in Maybe /\ since \in 0 .. Len(stream)
  /\ faults \in 0 .. MaxFaults /\ restarts \in 0 .. MaxRestarts
  /\ releases \in 0 .. MaxReleases /\ notices \in 0 .. MaxNotices

RestInit ==
  /\ response \in Responses
  /\ ill \in BOOLEAN /\ stage = "armed" /\ began = "no" /\ latched = FALSE
  /\ polled = "idle" /\ signals = <<>>
  /\ inbox = <<>> /\ stream = <<>>
  /\ up = TRUE /\ st = "none" /\ serving = "none" /\ answering = "none"
  /\ since = 0 /\ rested = FALSE
  /\ faults = 0 /\ restarts = 0 /\ releases = 0 /\ notices = 0

Fault == faults < MaxFaults /\ faults' = faults + 1

(* Events in the order they were made, the order the monitor sorts a batch *)
(* into: the answer being written is older than those made since.          *)
Say(events) ==
  /\ stream' = stream \o events
  /\ since' = IF answering = "none" THEN 0 ELSE since + Len(events)

SayAnswer(event) ==
  /\ stream' = SubSeq(stream, 1, Len(stream) - since) \o <<event>>
               \o SubSeq(stream, Len(stream) - since + 1, Len(stream))
  /\ since' = 0

Unsaid == UNCHANGED stream /\ since' = IF answering' = "none" THEN 0 ELSE since

Busy == st # "none"     \* _sleep_lock or _sleep_pending
Own == serving # "none" \* the trigger is welfare_rest
-----------------------------------------------------------------------------
(* The sleep module. *)

(* Fatigue, the state cycle, the backstop or the entity itself. *)
OtherSleep ==
  /\ up /\ ~Busy /\ Len(stream) < MaxUnread
  /\ st' = "pending" /\ serving' = "none"
  /\ UNCHANGED <<response, monitor, bus, up, answering, restarts, rested, faults>>

(* The consumer takes one request: a sleep is created for it, or it will be *)
(* answered busy.                                                           *)
HandleRequest ==
  /\ up /\ answering = "none" /\ inbox # <<>>
  /\ inbox' = Tail(inbox)
  /\ IF Busy THEN answering' = Head(inbox) /\ UNCHANGED <<st, serving>>
             ELSE st' = "pending" /\ serving' = Head(inbox) /\ UNCHANGED answering
  /\ UNCHANGED <<response, monitor, stream, since, up, restarts, rested, faults>>

(* A publish lands, or it raises and may have landed all the same. *)
AnswerBusy ==
  /\ answering # "none" /\ answering' = "none"
  /\ \/ SayAnswer(Answer(answering, "busy")) /\ UNCHANGED faults
     \/ Fault /\ (SayAnswer(Answer(answering, "busy")) \/ Unsaid)
  /\ UNCHANGED <<response, monitor, inbox, up, st, serving, restarts, rested>>

(* The lock is taken and sleep.sleep.started goes out; the acceptance that *)
(* follows tells the monitor nothing and is left out.                      *)
Begin ==
  /\ up /\ st = "pending" /\ st' = "asleep"
  /\ Say(<<Started(Own)>>)
  /\ UNCHANGED <<response, monitor, inbox, up, serving, answering, restarts, rested, faults>>

(* The pipeline raises or is cancelled: an aborted completion is published, *)
(* or that fails as well.                                                   *)
Cut(before) ==
  /\ st' = "cut"
  /\ Say(before \o <<Completed(Own, TRUE)>>) \/ Say(before)

(* The start cannot be published, landed or not. *)
BeginFails ==
  /\ Fault /\ up /\ st = "pending"
  /\ \/ Cut(<<>>) \/ Cut(<<Started(Own)>>)
  /\ UNCHANGED <<response, monitor, inbox, up, serving, answering, restarts, rested>>

(* A sleep outlasts the poll it began in. *)
Outlasts == polled = "read" => \A i \in DOMAIN stream : stream[i].kind # "started"

Finish ==
  /\ up /\ st = "asleep" /\ st' = "over" /\ Outlasts
  /\ Say(<<Completed(Own, FALSE)>>)
  /\ rested' = TRUE
  /\ UNCHANGED <<response, monitor, inbox, up, serving, answering, restarts, faults>>

(* The sleep raises on its way, or its completion cannot be published. *)
Fails ==
  /\ Fault /\ up /\ st = "asleep"
  /\ Cut(<<>>)
  /\ UNCHANGED <<response, monitor, inbox, up, serving, answering, restarts, rested>>

(* The lock and the pending flag are let go; a welfare rest that was cut is *)
(* answered first.                                                          *)
Settle ==
  /\ st \in {"over", "cut"} /\ st' = "none" /\ serving' = "none"
  /\ IF st = "cut" /\ Own
     THEN \/ Say(<<Answer(serving, "refused")>>) /\ UNCHANGED faults
          \/ Fault /\ (Say(<<Answer(serving, "refused")>>) \/ Say(<<>>))
     ELSE Say(<<>>) /\ UNCHANGED faults
  /\ UNCHANGED <<response, monitor, inbox, up, answering, restarts, rested>>

(* shutdown(): the consumers first ... *)
Stops ==
  /\ up /\ up' = FALSE
  /\ restarts < MaxRestarts /\ restarts' = restarts + 1
  /\ answering' = "none" /\ Unsaid
  /\ UNCHANGED <<response, monitor, inbox, st, serving, rested, faults>>

(* ... then the sleep is cancelled: before its first step it ends without a *)
(* word, later it is cut, even while its whole completion is on its way.    *)
Cancelled ==
  /\ ~up
  /\ \/ st = "pending" /\ st' = "none" /\ serving' = "none" /\ Say(<<>>)
     \/ st \in {"pending", "asleep", "over"} /\ Cut(<<>>) /\ UNCHANGED serving
  /\ UNCHANGED <<response, monitor, inbox, up, answering, restarts, rested, faults>>

(* The new module reads the requests from the tail of their stream. *)
Starts ==
  /\ ~up /\ ~Busy /\ up' = TRUE
  /\ inbox' = <<>>
  /\ UNCHANGED <<response, monitor, stream, since, st, serving, answering, restarts, rested, faults>>

SleepSide ==
  \/ OtherSleep \/ HandleRequest \/ AnswerBusy \/ Begin \/ BeginFails \/ Finish \/ Fails
  \/ Settle \/ Stops \/ Cancelled \/ Starts
-----------------------------------------------------------------------------
(* The monitor. *)

IndicatorsMove ==
  /\ ill' = ~ill
  /\ UNCHANGED <<response, stage, began, latched, polled, signals, releases, notices, bus,
                 module, rested, faults>>

(* The request the monitor waited for, once it does not, is an older one. *)
AgedId(id) == IF id = "current" THEN "old" ELSE id
Aged(s) == [i \in DOMAIN s |->
              IF s[i].kind \in {"busy", "refused"} THEN [s[i] EXCEPT !.id = AgedId(@)] ELSE s[i]]

RequestEnds ==
  /\ began' = "no"
  /\ inbox' = [i \in DOMAIN inbox |-> AgedId(inbox[i])]
  /\ serving' = AgedId(serving) /\ answering' = AgedId(answering)
  /\ stream' = Aged(stream) /\ UNCHANGED since
  /\ UNCHANGED <<up, st, restarts>>

(* The protective response; a run that only notifies starts over. *)
Escalate ==
  /\ latched' = (response # "notify")
  /\ stage' = IF response = "notify" THEN "armed" ELSE stage
  /\ polled' = "idle" /\ signals' = <<>>
  /\ RequestEnds
  /\ UNCHANGED <<response, ill, releases, rested>>

AllRead == stream' = <<>> /\ since' = 0

(* A poll reads what is on sleep.out; a read that fails leaves it there, *)
(* one that hangs on the next stream loses what was read.  A span takes  *)
(* many polls, so before a crossing some poll has read what was there.   *)
Ingest ==
  /\ ~latched /\ polled = "idle"
  /\ \/ polled' = "read" /\ signals' = stream /\ AllRead /\ UNCHANGED faults
     \/ Fault /\ stage = "resting" /\ polled' = "read" /\ UNCHANGED <<signals, stream, since>>
     \/ Fault /\ AllRead /\ UNCHANGED <<polled, signals>>
  /\ UNCHANGED <<response, ill, stage, began, latched, releases, notices, inbox, module, rested>>

Reading(s) == ~latched /\ polled = "read" /\ stage = s

(* Mutant: any end of a sleep ends the rest. *)
Awaited_Any(e) == TRUE

(* The end of the sleep that began for the request, or of any when one stands. *)
Awaited(e) == began = "standing" \/ (began = "started" /\ e.own)

StandsFor(e) == e.kind = "busy" /\ e.id = "current" /\ began = "no"
BeganBy(e) == e.kind = "started" /\ e.own /\ began = "no"
RefusedBy(e) == e.kind = "refused" /\ e.id = "current"
EndedBy(e) == e.kind = "completed" /\ Awaited(e)

SignalFollowed ==
  /\ Reading("resting") /\ signals # <<>>
  /\ ~RefusedBy(Head(signals)) /\ ~EndedBy(Head(signals))
  /\ began' = CASE StandsFor(Head(signals)) -> "standing"
                [] BeganBy(Head(signals)) -> "started"
                [] OTHER -> began
  /\ signals' = Tail(signals)
  /\ UNCHANGED <<response, ill, stage, latched, polled, releases, notices, bus, module, rested,
                 faults>>

(* The rest is over: every span restarts. *)
SignalRested ==
  /\ Reading("resting") /\ signals # <<>>
  /\ EndedBy(Head(signals)) /\ ~Head(signals).aborted
  /\ stage' = "fresh" /\ polled' = "idle" /\ signals' = <<>>
  /\ RequestEnds
  /\ UNCHANGED <<response, ill, latched, releases, notices, rested, faults>>

SignalFailed ==
  /\ Reading("resting") /\ signals # <<>>
  /\ \/ RefusedBy(Head(signals)) /\ Escalate
     \/ EndedBy(Head(signals)) /\ Head(signals).aborted /\ Escalate
  /\ UNCHANGED <<notices, faults>>

(* Can a sign of the request still come?  Its start or its end. *)
StartComing ==
  \/ "current" \in {inbox[i] : i \in DOMAIN inbox} \cup {answering, serving}
  \/ \E i \in DOMAIN stream : stream[i].kind \in {"busy", "started", "refused"}
EndComing ==
  \/ st \in {"pending", "asleep"} /\ (Own \/ began = "standing")
  \/ \E i \in DOMAIN stream : stream[i].kind = "completed"

StartDue == began = "no" /\ (EarlyTimers \/ ~StartComing)
EndDue == began # "no" /\ (EarlyTimers \/ ~EndComing)

TimedOut == StartDue \/ EndDue

BoundPasses ==
  /\ Reading("resting") /\ signals = <<>>
  /\ \/ ~up /\ Escalate
     \/ up /\ TimedOut /\ Escalate
  /\ UNCHANGED <<notices, faults>>

(* Nothing more to do in this poll: no limit has passed, no span is full. *)
PollEnds ==
  /\ ~latched /\ polled = "read" /\ (stage = "resting" => signals = <<>> /\ up)
  /\ polled' = "idle" /\ signals' = <<>>
  /\ UNCHANGED <<response, ill, stage, began, latched, releases, notices, bus, module,
                 rested, faults>>

(* A first crossing asks for a rest; the request may be lost, and one that *)
(* lands while its publish raises counts as lost.                          *)
RequestRest ==
  /\ Reading("armed") /\ ill
  /\ response = "notify" => notices < MaxNotices
  /\ notices' = IF response = "notify" THEN notices + 1 ELSE notices
  /\ \/ /\ up
        /\ stage' = "resting" /\ began' = "no" /\ rested' = FALSE
        /\ inbox' = Append(inbox, "current")
        /\ polled' = "idle" /\ signals' = <<>>
        /\ UNCHANGED <<response, ill, latched, releases, stream, since, module, faults>>
     \/ ~up /\ Escalate /\ UNCHANGED faults
     \/ up /\ Fault /\ Escalate

RequestLandsLost ==
  /\ Reading("armed") /\ ill /\ up /\ Fault
  /\ response = "notify" => notices < MaxNotices
  /\ notices' = IF response = "notify" THEN notices + 1 ELSE notices
  /\ latched' = (response # "notify")
  /\ inbox' = Append(inbox, "old")
  /\ polled' = "idle" /\ signals' = <<>>
  /\ UNCHANGED <<response, ill, stage, began, releases, stream, since, module, rested>>

(* Mutant: a span that is full arms the stage again whatever crossed. *)
SpanClear_Always == TRUE

SpanClear == ~ill

(* A crossing after the rest is answered; a full span without one arms. *)
FreshCrosses ==
  /\ Reading("fresh") /\ ~SpanClear
  /\ Escalate
  /\ UNCHANGED <<notices, faults>>

FreshClears ==
  /\ Reading("fresh") /\ SpanClear
  /\ stage' = "armed" /\ polled' = "idle" /\ signals' = <<>>
  /\ UNCHANGED <<response, ill, began, latched, releases, notices, bus, module,
                 rested, faults>>

(* No affect.state for long. *)
StaysSilent ==
  /\ Fault /\ ~latched /\ polled = "read" /\ stage \in {"armed", "fresh"}
  /\ Escalate
  /\ UNCHANGED notices

(* The welfare freeze was lifted: the stage is armed again, from the tails. *)
Rearm ==
  /\ latched /\ response = "pause" /\ releases < MaxReleases
  /\ releases' = releases + 1
  /\ latched' = FALSE /\ stage' = "armed" /\ began' = "no"
  /\ AllRead /\ rested' = FALSE
  /\ UNCHANGED <<response, ill, polled, signals, notices, inbox, module, faults>>

Acts ==
  \/ SignalFollowed \/ SignalRested \/ SignalFailed \/ BoundPasses \/ PollEnds
  \/ RequestRest \/ RequestLandsLost \/ FreshCrosses \/ FreshClears \/ StaysSilent

RestNext == SleepSide \/ IndicatorsMove \/ Ingest \/ Acts \/ Rearm

(* The monitor polls on and the clocks behind its limits and spans run; of *)
(* the sleep module nothing is assumed.                                    *)
RestFairness ==
  /\ WF_restVars(Ingest) /\ WF_restVars(Acts)
  /\ SF_restVars(BoundPasses) /\ SF_restVars(RequestRest) /\ SF_restVars(FreshCrosses)

RestSpec == RestInit /\ [][RestNext]_restVars /\ RestFairness
-----------------------------------------------------------------------------
(* Properties. *)

(* A rest counts only when it was one: the stage after the rest is reached  *)
(* only when a sleep has run to its end, unaborted, since the request was   *)
(* sent, whatever older or other sleeps ended meanwhile and however late    *)
(* their events are read.                                                   *)
FreshMeansRested == stage = "fresh" => rested

(* An illness that no rest relieves is answered: the net does not send the  *)
(* entity to rest again and again, before a first answer or after one.     *)
UnrelievedIsAnswered == (response # "notify") => (<>[]ill => []<>latched)
=============================================================================
