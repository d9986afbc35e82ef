---------------------------- MODULE ControlState ----------------------------
(***************************************************************************)
(* The freeze stack of state/cycle/control.json and the operations of      *)
(* kaine/cycle/control_state.py on it.                                     *)
(*                                                                         *)
(* A stack is the set of its entries.  An entry keeps its source and `at`, *)
(* its place in the list counted from the oldest; the reason and the       *)
(* timestamp are text no operation reads.  A missing file and a file with  *)
(* an empty stack are the same value: no operation tells them apart.       *)
(***************************************************************************)
EXTENDS Naturals, FiniteSets

Sources == {"operator", "supervisor", "preserve",
            "development", "programme_end", "welfare"}

OVERRIDABLE_SOURCES == {"welfare", "development", "programme_end"}
SELF_RELEASING_SOURCES == {"supervisor", "preserve"}

Entries == [source : Sources, at : Nat]

(* The file is a readable JSON object with a stack, or it cannot be parsed. *)
ControlFiles == [readable : BOOLEAN, stack : SUBSET Entries]
Readable(stack) == [readable |-> TRUE, stack |-> stack]
Unreadable == [readable |-> FALSE, stack |-> {}]

HoldersOf(stack) == {e.source : e \in stack}

(* The list an ordered set of entries stands for: places 1, 2, 3, ... *)
Ranked(stack) ==
  {[source |-> e.source, at |-> Cardinality({f \in stack : f.at <= e.at})] : e \in stack}

(* The places are those of a list: within 1 .. length, none taken twice. *)
IsList(stack) ==
  /\ \A e \in stack : e.at \in 1 .. Cardinality(stack)
  /\ \A e, f \in stack : e.at = f.at => e = f

-----------------------------------------------------------------------------
(* Readers. *)

(* An unreadable file reads as one welfare entry. *)
fail_closed_state == {[source |-> "welfare", at |-> 1]}

read_control(file) == IF file.readable THEN file.stack ELSE fail_closed_state

(* The source of the legacy single-slot view: the newest entry's. *)
top_source(stack) ==
  IF stack = {} THEN "operator"
  ELSE (CHOOSE e \in stack : \A f \in stack : f.at <= e.at).source

Frozen(file) == read_control(file) # {}
Holders(file) == HoldersOf(read_control(file))

-----------------------------------------------------------------------------
(* Writers.  Every one is a locked read-modify-write, so one atomic step;  *)
(* an unreadable file is left as it is by all but override.                *)

update_stack(file, stack) == IF file.readable THEN Readable(stack) ELSE file

push_freeze(file, source) ==
  update_stack(file, file.stack \cup {[source |-> source, at |-> Cardinality(file.stack) + 1]})

pop_freeze(file, source) ==
  LET mine   == {e \in file.stack : e.source = source}
      newest == {e \in mine : \A f \in mine : f.at <= e.at}
  IN  update_stack(file, Ranked(file.stack \ newest))

stand_down(file, source) ==
  update_stack(file, Ranked({e \in file.stack : e.source # source}))

(* Every named source must be overridable and active; for an unreadable file *)
(* the synthetic welfare holder is the one that must be named.               *)
can_override(file, sources) ==
  /\ sources # {}
  /\ sources \subseteq OVERRIDABLE_SOURCES
  /\ IF file.readable THEN sources \subseteq HoldersOf(file.stack)
                      ELSE "welfare" \in sources

override(file, sources) ==
  IF file.readable
  THEN Readable(Ranked({e \in file.stack : e.source \notin sources}))
  ELSE Readable({})

(* Mutant: a boot that clears every entry, as the tools' unfreeze() does. *)
unfreeze_for_boot_All(file) == update_stack(file, {})

unfreeze_for_boot(file) ==
  update_stack(file, Ranked({e \in file.stack : e.source = "welfare"}))
=============================================================================
