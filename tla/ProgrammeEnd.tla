----------------------------- MODULE ProgrammeEnd -----------------------------
(***************************************************************************)
(* The end of a playlist programme: the watcher of                         *)
(* kaine/cycle/programme_end.py asks the preserve watcher for one          *)
(* preservation with stop, through the request file it shares with the     *)
(* operator's command, and freezes the entity if no good answer comes.     *)
(***************************************************************************)
EXTENDS PreserveWatch

CONSTANTS
  ProgrammeFailures, \* which of its writes may raise: "request", "programme_end"
  MaxOverrides       \* bound on the overrides of its freeze

ASSUME ProgrammeEndAssumption ==
  /\ "programme_end" \notin Others
  /\ ProgrammeFailures \subseteq {"request", "programme_end"}
  /\ MaxOverrides \in Nat

VARIABLES
  ended,      \* the playlist clock is past the last item
  pe,         \* the watcher: "watching", "waiting", "done", or "unfrozen" if its freeze raised
  peId,       \* the id of its request
  overrides   \* overrides of programme_end so far

peVars == <<ended, pe, peId, overrides>>
vars == <<preserveVars, peVars>>

TypeOK ==
  /\ PreserveTypeOK
  /\ ended \in BOOLEAN
  /\ pe \in {"watching", "waiting", "done", "unfrozen"}
  /\ peId \in Ids
  /\ overrides \in 0 .. MaxOverrides

Init == PreserveInit /\ ended = FALSE /\ pe = "watching" /\ peId = 0 /\ overrides = 0
-----------------------------------------------------------------------------
(* The playlist clock stands while the cycle is paused. *)
ProgrammeEnds ==
  /\ proc = "running" /\ ~paused /\ ~ended
  /\ ended' = TRUE
  /\ UNCHANGED <<preserveVars, pe, peId, overrides>>

(* Mutant: only a recorded failure freezes, a missing answer does not. *)
FreezeWithoutSenses_IfAnswered ==
  /\ pe' = "done"
  /\ ctl' = IF result.id = peId THEN push_freeze(ctl, "programme_end") ELSE ctl

(* Mutant: the freeze replaces the stack, as the single-slot file did. *)
FreezeWithoutSenses_Alone == pe' = "done" /\ ctl' = push_freeze(Readable({}), "programme_end")

(* The freeze under programme_end; one that raises is only logged. *)
FreezeWithoutSenses ==
  \/ pe' = "done" /\ ctl' = push_freeze(ctl, "programme_end")
  \/ "programme_end" \in ProgrammeFailures /\ pe' = "unfrozen" /\ UNCHANGED ctl

(* The end of the programme is handled once: one request with stop. *)
EndRequest ==
  /\ proc = "running" /\ pe = "watching" /\ ended /\ ~paused
  /\ request.id < MaxRequests
  /\ request' = [id |-> request.id + 1, stop |-> TRUE]
  /\ pe' = "waiting" /\ peId' = request.id + 1
  /\ UNCHANGED <<ctl, paused, proc, boots, result, watcher, answered, ended, overrides>>

EndRequestFails ==
  /\ "request" \in ProgrammeFailures
  /\ proc = "running" /\ pe = "watching" /\ ended /\ ~paused
  /\ FreezeWithoutSenses
  /\ UNCHANGED <<paused, proc, boots, filesVars, watcher, answered, ended, peId, overrides>>

(* Its result, if a poll of the result file sees it. *)
EndPreserved ==
  /\ proc # "down" /\ pe = "waiting"
  /\ result.id = peId /\ result.ok
  /\ pe' = "done"
  /\ UNCHANGED <<preserveVars, ended, peId, overrides>>

(* A failure, or the timeout: its request was replaced by another before it *)
(* was handled, its result by another before it was read, or either is      *)
(* late; a result that arrives in the last second is not looked at.         *)
EndFails ==
  /\ proc # "down" /\ pe = "waiting"
  /\ FreezeWithoutSenses
  /\ UNCHANGED <<paused, proc, boots, filesVars, watcher, answered, ended, peId, overrides>>

Override ==
  /\ overrides < MaxOverrides
  /\ can_override(ctl, {"programme_end"})
  /\ ctl' = override(ctl, {"programme_end"})
  /\ overrides' = overrides + 1
  /\ UNCHANGED <<paused, proc, boots, filesVars, watcher, answered, ended, pe, peId>>

Ending == EndRequest \/ EndRequestFails \/ EndPreserved \/ EndFails

(* A new process plays its programme from the start, with a new watcher. *)
Restart ==
  /\ Down
  /\ ended' = FALSE /\ pe' = "watching" /\ peId' = 0
  /\ UNCHANGED overrides

(* Of the bounded ids the others leave one for the programme of each run. *)
OthersNext ==
  /\ \/ \E stop \in BOOLEAN : WriteRequest(stop) /\ request.id + 1 + (MaxBoots - boots) < MaxRequests
     \/ \E source \in Others : OtherFreeze(source) \/ OtherRelease(source)
     \/ FreezeWatch \/ Watcher \/ Boot
  /\ UNCHANGED peVars

Next == OthersNext \/ ProgrammeEnds \/ Ending \/ Override \/ Restart

Fairness == WF_vars(Watcher /\ UNCHANGED peVars)
         /\ WF_vars(FreezeWatch /\ UNCHANGED peVars) /\ WF_vars(Ending)

Spec == Init /\ [][Next]_vars /\ Fairness
-----------------------------------------------------------------------------
(* Properties. *)

(* An entity whose programme is over is not left running without senses:   *)
(* whatever happens to the request, its answer and the requests of others, *)
(* the run ends, or the cycle ends up paused until someone overrides that; *)
(* only a freeze that raised, which nobody tries again, leaves it running. *)
NotLeftWithoutSenses ==
  <>[](/\ proc = "running" /\ ended /\ overrides = 0 /\ pe # "unfrozen"
       /\ Holders(ctl) \subseteq {"preserve", "programme_end"}) => <>[]paused

(* What the programme watcher does is, to the preserve watcher, what any   *)
(* other requester and holder may do: the composition implements the       *)
(* component, with its fairness, and so keeps all it promises.             *)
Preserve == INSTANCE PreserveWatch WITH Others <- Others \cup {"programme_end"}
ImplementsPreserveWatch == Preserve!PreserveSpec
=============================================================================
