---------------------------- MODULE FreezePromise ----------------------------
(***************************************************************************)
(* What the freeze control promises to those who freeze the entity, with   *)
(* no file, stack or loop in sight: a freeze is held by its source; it     *)
(* goes away by that source's release, by an override that names it or at  *)
(* a boot, and welfare's by an override alone; the cycle is launched       *)
(* paused under a freeze, and stops or goes on only as it saw the holders. *)
(***************************************************************************)
CONSTANTS
  Sources,     \* who may hold a freeze
  Overridable, \* those of them an override may name
  Kept         \* those no release of their own and no boot takes away

VARIABLES
  holders, \* the sources that hold a freeze
  up,      \* the cycle process runs
  ticking, \* the cycle ticks
  seen     \* what the cycle last saw and has not acted on: "nothing", "free" or "held"

vars == <<holders, up, ticking, seen>>

Init == holders = {} /\ up = FALSE /\ ticking = FALSE /\ seen = "nothing"

Freeze(source) == holders' = holders \cup {source} /\ UNCHANGED <<up, ticking, seen>>

Release(source) ==
  /\ source \notin Kept
  /\ holders' = holders \ {source}
  /\ UNCHANGED <<up, ticking, seen>>

Lift(sources) ==
  /\ sources # {}
  /\ holders' = holders \ sources
  /\ UNCHANGED <<up, ticking, seen>>

(* A record of the holders that is lost counts as a hold of Kept's. *)
Damage == holders' = Kept /\ UNCHANGED <<up, ticking, seen>>

Boot == ~up /\ holders' = holders \cap Kept /\ UNCHANGED <<up, ticking, seen>>

Launch == ~up /\ up' = TRUE /\ ticking' = (holders = {}) /\ UNCHANGED <<holders, seen>>

Stop == up' = FALSE /\ ticking' = FALSE /\ seen' = "nothing" /\ UNCHANGED holders

Look ==
  /\ up /\ seen = "nothing"
  /\ seen' = IF holders = {} THEN "free" ELSE "held"
  /\ UNCHANGED <<holders, up, ticking>>

Act ==
  /\ up /\ seen # "nothing"
  /\ ticking' = (seen = "free") /\ seen' = "nothing"
  /\ UNCHANGED <<holders, up>>

Next ==
  \/ \E source \in Sources : Freeze(source) \/ Release(source)
  \/ \E sources \in SUBSET Overridable : Lift(sources)
  \/ Damage \/ Boot \/ Launch \/ Stop \/ Look \/ Act

Safe == Init /\ [][Next]_vars
=============================================================================
