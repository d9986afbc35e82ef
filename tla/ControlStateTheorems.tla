------------------------ MODULE ControlStateTheorems ------------------------
(***************************************************************************)
(* What the operations of control_state.py do to a freeze stack, for       *)
(* stacks of any size: they keep it a list, and they add or remove exactly *)
(* the holders they are meant to.                                          *)
(***************************************************************************)
EXTENDS ControlState, FiniteSetTheorems, TLAPS

(* A set of entries that stands for a list. *)
ListOfEntries(stack) == stack \subseteq Entries /\ IsFiniteSet(stack) /\ IsList(stack)

WellFormed(file) == file \in ControlFiles /\ ListOfEntries(file.stack)

EntriesOf(stack, source) == {e \in stack : e.source = source}

(* How many freezes a source has placed. *)
Count(stack, source) == Cardinality(EntriesOf(stack, source))

(* Re-ranking after a removal keeps every holder, with as many entries, and *)
(* gives a list again.                                                      *)
LEMMA RankedIsList ==
  ASSUME NEW stack, stack \subseteq Entries, IsFiniteSet(stack),
         \A e, f \in stack : e.at = f.at => e = f
  PROVE  /\ ListOfEntries(Ranked(stack)) /\ HoldersOf(Ranked(stack)) = HoldersOf(stack)
         /\ \A source : Count(Ranked(stack), source) = Count(stack, source)
<1> DEFINE below(e) == {f \in stack : f.at <= e.at}
           n(e) == Cardinality(below(e))
           rank(e) == [source |-> e.source, at |-> n(e)]
<1>1. Ranked(stack) = {rank(e) : e \in stack}  BY DEF Ranked
<1>2. \A e, f \in stack : f \in below(e) <=> f.at <= e.at  OBVIOUS
<1>3. \A e \in stack : e.at \in Nat /\ e.source \in Sources  BY DEF Entries
<1>4. \A e \in stack : below(e) \in SUBSET stack  OBVIOUS
<1> HIDE DEF below
<1>5. \A e \in stack : IsFiniteSet(below(e)) /\ n(e) \in Nat /\ n(e) <= Cardinality(stack)
  BY <1>4, FS_Subset, FS_CardinalityType
<1>6. \A e \in stack : n(e) >= 1
  <2> TAKE e \in stack
  <2>1. e \in below(e)  BY <1>2, <1>3
  <2>2. n(e) # 0  BY <2>1, <1>5, FS_EmptySet
  <2> QED  BY <2>2, <1>5
<1>7. \A e, f \in stack : e.at < f.at => n(e) < n(f)
  <2> SUFFICES ASSUME NEW e \in stack, NEW f \in stack, e.at < f.at
               PROVE  n(e) < n(f)
    OBVIOUS
  <2>1. below(e) \in SUBSET below(f)  BY <1>2, <1>3, <1>4
  <2>2. f \in below(f) /\ f \notin below(e)  BY <1>2, <1>3
  <2>3. n(e) <= n(f) /\ (n(f) = n(e) => below(f) = below(e))
    BY <2>1, <1>5, FS_Subset
  <2>4. n(e) # n(f)  BY <2>2, <2>3
  <2>5. n(e) \in Nat /\ n(f) \in Nat  BY <1>5
  <2> HIDE DEF n
  <2> QED  BY <2>3, <2>4, <2>5
<1> HIDE DEF n
<1>8. \A e, f \in stack : n(e) = n(f) => e = f
  <2> SUFFICES ASSUME NEW e \in stack, NEW f \in stack, n(e) = n(f)
               PROVE  e = f
    OBVIOUS
  <2>1. ~(e.at < f.at) /\ ~(f.at < e.at)  BY <1>5, <1>7
  <2>2. e.at = f.at  BY <2>1, <1>3
  <2> QED  BY <2>2
<1>9. \A e \in stack : rank(e).at = n(e) /\ rank(e).source = e.source  OBVIOUS
<1>10. Ranked(stack) \subseteq Entries  BY <1>1, <1>3, <1>5 DEF Entries
<1> HIDE DEF rank
<1>11. HoldersOf(Ranked(stack)) = HoldersOf(stack)
  <2>1. \A s : s \in HoldersOf(Ranked(stack)) <=> \E e \in stack : s = rank(e).source
    BY <1>1 DEF HoldersOf
  <2>2. \A s : s \in HoldersOf(stack) <=> \E e \in stack : s = e.source  BY DEF HoldersOf
  <2> QED  BY <2>1, <2>2, <1>9
<1>12. IsFiniteSet(Ranked(stack)) /\ Cardinality(Ranked(stack)) = Cardinality(stack)
  <2> DEFINE g == [e \in stack |-> rank(e)]
  <2>1. g \in [stack -> Ranked(stack)]  BY <1>1
  <2>2. \A e, f \in stack : g[e] = g[f] => e = f  BY <1>8, <1>9
  <2>3. \A r \in Ranked(stack) : \E e \in stack : g[e] = r  BY <1>1
  <2> HIDE DEF g
  <2>4. g \in Surjection(stack, Ranked(stack))  BY <2>1, <2>3 DEF Surjection
  <2>5. g \in Injection(stack, Ranked(stack))  BY <2>1, <2>2 DEF Injection, IsInjective
  <2> QED  BY <2>4, <2>5, FS_Surjection
<1>13. IsList(Ranked(stack))
  <2>1. \A r \in Ranked(stack) : r.at \in 1 .. Cardinality(Ranked(stack))
    BY <1>1, <1>5, <1>6, <1>9, <1>12, FS_CardinalityType
  <2>2. \A r, s \in Ranked(stack) : r.at = s.at => r = s
    BY <1>1, <1>8, <1>9
  <2> QED  BY <2>1, <2>2 DEF IsList
<1>14. \A source : Count(Ranked(stack), source) = Count(stack, source)
  <2> TAKE source
  <2> DEFINE own == EntriesOf(stack, source)
             kept == EntriesOf(Ranked(stack), source)
             g == [e \in own |-> rank(e)]
  <2>1. \A e : e \in own <=> e \in stack /\ e.source = source  BY DEF EntriesOf
  <2>2. \A r : r \in kept <=> r.source = source /\ \E e \in stack : r = rank(e)
    BY <1>1 DEF EntriesOf
  <2>3. IsFiniteSet(own)  BY FS_Subset DEF EntriesOf
  <2> HIDE DEF own, kept
  <2>4. g \in [own -> kept]  BY <1>9, <2>1, <2>2
  <2>5. \A e, f \in own : g[e] = g[f] => e = f  BY <1>8, <1>9, <2>1
  <2>6. \A r \in kept : \E e \in own : g[e] = r  BY <1>9, <2>1, <2>2
  <2> HIDE DEF g
  <2>7. g \in Surjection(own, kept)  BY <2>4, <2>6 DEF Surjection
  <2>8. g \in Injection(own, kept)  BY <2>4, <2>5 DEF Injection, IsInjective
  <2>9. Cardinality(kept) = Cardinality(own)  BY <2>3, <2>7, <2>8, FS_Surjection
  <2> QED  BY <2>9 DEF own, kept, Count
<1> QED  BY <1>10, <1>11, <1>12, <1>13, <1>14 DEF ListOfEntries

(* Dropping any entries and re-ranking the rest. *)
LEMMA RemovalIsList ==
  ASSUME NEW stack, ListOfEntries(stack), NEW kept, kept \subseteq stack
  PROVE  /\ ListOfEntries(Ranked(kept)) /\ HoldersOf(Ranked(kept)) = HoldersOf(kept)
         /\ \A source : Count(Ranked(kept), source) = Count(kept, source)
<1>1. kept \subseteq Entries /\ (\A e, f \in kept : e.at = f.at => e = f)
  BY DEF ListOfEntries, IsList
<1>2. IsFiniteSet(kept)  BY FS_Subset DEF ListOfEntries
<1> QED  BY <1>1, <1>2, RankedIsList

(* update_stack with a list of entries keeps the file well formed. *)
LEMMA UpdateWellFormed ==
  ASSUME NEW file, WellFormed(file), NEW stack, ListOfEntries(stack)
  PROVE  WellFormed(update_stack(file, stack))
BY DEF WellFormed, update_stack, Readable, ControlFiles, ListOfEntries

(* push_freeze adds its source and nothing else; an unreadable file keeps *)
(* its synthetic welfare holder.                                          *)
LEMMA PushFreeze ==
  ASSUME NEW file, WellFormed(file), NEW source \in Sources
  PROVE  /\ WellFormed(push_freeze(file, source))
         /\ Holders(push_freeze(file, source)) =
              IF file.readable THEN Holders(file) \cup {source} ELSE Holders(file)
<1> DEFINE stack == file.stack
           entry == [source |-> source, at |-> Cardinality(stack) + 1]
<1>1. stack \subseteq Entries /\ IsFiniteSet(stack) /\ IsList(stack)
  BY DEF WellFormed, ListOfEntries
<1>2. Cardinality(stack) \in Nat  BY <1>1, FS_CardinalityType
<1>3. entry \in Entries /\ entry.at = Cardinality(stack) + 1 /\ entry.source = source
  BY <1>2 DEF Entries
<1>4. \A e \in stack : e.at \in 1 .. Cardinality(stack)  BY <1>1 DEF IsList
<1>5. entry \notin stack /\ \A e \in stack : e.at # entry.at
  BY <1>2, <1>3, <1>4
<1> DEFINE new == stack \cup {entry}
<1>6. IsFiniteSet(new) /\ Cardinality(new) = Cardinality(stack) + 1
  BY <1>1, <1>5, FS_AddElement
<1>7. \A e, f \in stack : e.at = f.at => e = f  BY <1>1 DEF IsList
<1>8. push_freeze(file, source) = update_stack(file, new)  BY DEF push_freeze
<1>9. HoldersOf(new) = HoldersOf(stack) \cup {source}
  BY <1>3 DEF HoldersOf
<1> HIDE DEF entry
<1>10. IsList(new)  BY <1>2, <1>3, <1>4, <1>5, <1>6, <1>7 DEF IsList
<1>11. ListOfEntries(new)  BY <1>1, <1>3, <1>6, <1>10 DEF ListOfEntries
<1>12. WellFormed(update_stack(file, new))  BY <1>11, UpdateWellFormed
<1> HIDE DEF new
<1>13. Holders(update_stack(file, new)) =
         IF file.readable THEN Holders(file) \cup {source} ELSE Holders(file)
  BY <1>9 DEF Holders, read_control, update_stack, Readable
<1> QED  BY <1>8, <1>12, <1>13

(* Every other writer keeps some of the entries of a readable file. *)
LEMMA KeepEntries ==
  ASSUME NEW file, WellFormed(file), NEW kept, kept \subseteq file.stack
  PROVE  /\ WellFormed(update_stack(file, Ranked(kept)))
         /\ Holders(update_stack(file, Ranked(kept))) =
              IF file.readable THEN HoldersOf(kept) ELSE Holders(file)
<1>1. ListOfEntries(Ranked(kept)) /\ HoldersOf(Ranked(kept)) = HoldersOf(kept)
  BY RemovalIsList DEF WellFormed
<1>2. WellFormed(update_stack(file, Ranked(kept)))  BY <1>1, UpdateWellFormed
<1> QED  BY <1>1, <1>2 DEF Holders, read_control, update_stack, Readable

(* pop_freeze touches no other source's hold. *)
LEMMA PopFreeze ==
  ASSUME NEW file, WellFormed(file), NEW source
  PROVE  /\ WellFormed(pop_freeze(file, source))
         /\ Holders(file) \ {source} \subseteq Holders(pop_freeze(file, source))
         /\ Holders(pop_freeze(file, source)) \subseteq Holders(file)
<1> DEFINE mine == {e \in file.stack : e.source = source}
           newest == {e \in mine : \A f \in mine : f.at <= e.at}
           kept == file.stack \ newest
<1>1. pop_freeze(file, source) = update_stack(file, Ranked(kept))  BY DEF pop_freeze
<1>2. HoldersOf(file.stack) \ {source} \subseteq HoldersOf(kept)  BY DEF HoldersOf
<1>3. HoldersOf(kept) \subseteq HoldersOf(file.stack)  BY DEF HoldersOf
<1>4. file.readable => Holders(file) = HoldersOf(file.stack)  BY DEF Holders, read_control
<1>5. kept \subseteq file.stack  OBVIOUS
<1> HIDE DEF kept
<1> QED  BY <1>1, <1>2, <1>3, <1>4, <1>5, KeepEntries

(* stand_down lifts every entry of its source and no other. *)
LEMMA StandDown ==
  ASSUME NEW file, WellFormed(file), NEW source
  PROVE  /\ WellFormed(stand_down(file, source))
         /\ Holders(stand_down(file, source)) =
              IF file.readable THEN Holders(file) \ {source} ELSE Holders(file)
<1> DEFINE kept == {e \in file.stack : e.source # source}
<1>1. stand_down(file, source) = update_stack(file, Ranked(kept))  BY DEF stand_down
<1>2. HoldersOf(kept) = HoldersOf(file.stack) \ {source}  BY DEF HoldersOf
<1>3. file.readable => Holders(file) = HoldersOf(file.stack)  BY DEF Holders, read_control
<1>4. kept \subseteq file.stack  OBVIOUS
<1> HIDE DEF kept
<1> QED  BY <1>1, <1>2, <1>3, <1>4, KeepEntries

(* The boot's clearing keeps a welfare hold, and an unreadable file's too. *)
LEMMA UnfreezeForBoot ==
  ASSUME NEW file, WellFormed(file)
  PROVE  /\ WellFormed(unfreeze_for_boot(file))
         /\ Holders(unfreeze_for_boot(file)) = Holders(file) \cap {"welfare"}
<1> DEFINE kept == {e \in file.stack : e.source = "welfare"}
<1>1. unfreeze_for_boot(file) = update_stack(file, Ranked(kept))  BY DEF unfreeze_for_boot
<1>2. HoldersOf(kept) = HoldersOf(file.stack) \cap {"welfare"}  BY DEF HoldersOf
<1>3. file.readable => Holders(file) = HoldersOf(file.stack)  BY DEF Holders, read_control
<1>4. ~file.readable => Holders(file) = {"welfare"}
  BY DEF Holders, HoldersOf, read_control, fail_closed_state
<1>5. kept \subseteq file.stack  OBVIOUS
<1> HIDE DEF kept
<1> QED  BY <1>1, <1>2, <1>3, <1>4, <1>5, KeepEntries

(* An override lifts the named sources; of an unreadable file it lifts the *)
(* synthetic welfare hold and leaves a clean file.                         *)
LEMMA OverrideLifts ==
  ASSUME NEW file, WellFormed(file), NEW sources
  PROVE  /\ WellFormed(override(file, sources))
         /\ Holders(override(file, sources)) =
              IF file.readable THEN Holders(file) \ sources ELSE {}
<1> DEFINE kept == {e \in file.stack : e.source \notin sources}
<1>1. CASE file.readable
  <2>1. override(file, sources) = update_stack(file, Ranked(kept))
    BY <1>1 DEF override, update_stack
  <2>2. HoldersOf(kept) = HoldersOf(file.stack) \ sources  BY DEF HoldersOf
  <2>3. Holders(file) = HoldersOf(file.stack)  BY <1>1 DEF Holders, read_control
  <2>4. kept \subseteq file.stack  OBVIOUS
  <2> HIDE DEF kept
  <2> QED  BY <1>1, <2>1, <2>2, <2>3, <2>4, KeepEntries
<1>2. CASE ~file.readable
  <2>1. override(file, sources) = Readable({})  BY <1>2 DEF override
  <2>2. ListOfEntries({})  BY FS_EmptySet DEF ListOfEntries, IsList
  <2> QED  BY <1>2, <2>1, <2>2
           DEF WellFormed, Readable, ControlFiles, Holders, HoldersOf, read_control
<1> QED  BY <1>1, <1>2
-----------------------------------------------------------------------------
(* How many entries of each source the writers leave. *)

LEMMA CountType ==
  ASSUME NEW file, WellFormed(file), NEW source
  PROVE  /\ Count(file.stack, source) \in Nat /\ IsFiniteSet(EntriesOf(file.stack, source))
         /\ file.readable => (Count(file.stack, source) > 0 <=> source \in Holders(file))
<1>1. IsFiniteSet(EntriesOf(file.stack, source))
  BY FS_Subset DEF EntriesOf, WellFormed, ListOfEntries
<1>2. Count(file.stack, source) \in Nat  BY <1>1, FS_CardinalityType DEF Count
<1>3. Count(file.stack, source) = 0 <=> EntriesOf(file.stack, source) = {}
  BY <1>1, FS_EmptySet DEF Count
<1>4. EntriesOf(file.stack, source) = {} <=> source \notin HoldersOf(file.stack)
  BY DEF EntriesOf, HoldersOf
<1>5. file.readable => Holders(file) = HoldersOf(file.stack)  BY DEF Holders, read_control
<1> QED  BY <1>1, <1>2, <1>3, <1>4, <1>5

(* A push adds one entry, of its source. *)
LEMMA PushCount ==
  ASSUME NEW file, WellFormed(file), file.readable, NEW source \in Sources
  PROVE  /\ push_freeze(file, source).readable
         /\ Count(push_freeze(file, source).stack, source) = Count(file.stack, source) + 1
         /\ \A other : other # source =>
              Count(push_freeze(file, source).stack, other) = Count(file.stack, other)
<1> DEFINE stack == file.stack
           entry == [source |-> source, at |-> Cardinality(stack) + 1]
           new == stack \cup {entry}
<1>1. push_freeze(file, source) = Readable(new)  BY DEF push_freeze, update_stack
<1>2. push_freeze(file, source).readable /\ push_freeze(file, source).stack = new
  BY <1>1 DEF Readable
<1>3. stack \subseteq Entries /\ IsFiniteSet(stack) /\ IsList(stack)
  BY DEF WellFormed, ListOfEntries
<1>4. Cardinality(stack) \in Nat  BY <1>3, FS_CardinalityType
<1>5. entry.source = source /\ entry.at = Cardinality(stack) + 1  OBVIOUS
<1>6. \A e \in stack : e.at \in 1 .. Cardinality(stack)  BY <1>3 DEF IsList
<1>7. entry \notin stack  BY <1>4, <1>5, <1>6
<1> HIDE DEF entry
<1>8. EntriesOf(new, source) = EntriesOf(stack, source) \cup {entry}
  BY <1>5 DEF EntriesOf
<1>9. entry \notin EntriesOf(stack, source)  BY <1>7 DEF EntriesOf
<1>10. Count(new, source) = Count(stack, source) + 1
  BY <1>8, <1>9, CountType, FS_AddElement DEF Count
<1>11. \A other : other # source => EntriesOf(new, other) = EntriesOf(stack, other)
  BY <1>5 DEF EntriesOf
<1> QED  BY <1>2, <1>10, <1>11 DEF Count

(* What a writer that keeps some of the entries leaves of each source. *)
LEMMA KeptCount ==
  ASSUME NEW file, WellFormed(file), file.readable, NEW kept, kept \subseteq file.stack
  PROVE  /\ update_stack(file, Ranked(kept)).readable
         /\ \A source : Count(update_stack(file, Ranked(kept)).stack, source) = Count(kept, source)
<1>1. \A source : Count(Ranked(kept), source) = Count(kept, source)
  BY RemovalIsList DEF WellFormed
<1> QED  BY <1>1 DEF update_stack, Readable

(* A pop takes at most one entry of its source, and the last one. *)
LEMMA PopCount ==
  ASSUME NEW file, WellFormed(file), file.readable, NEW source
  PROVE  /\ pop_freeze(file, source).readable
         /\ Count(pop_freeze(file, source).stack, source) \in Nat
         /\ Count(pop_freeze(file, source).stack, source) <= Count(file.stack, source)
         /\ Count(pop_freeze(file, source).stack, source) + 1 >= Count(file.stack, source)
         /\ Count(file.stack, source) <= 1 => Count(pop_freeze(file, source).stack, source) = 0
         /\ \A other : other # source =>
              Count(pop_freeze(file, source).stack, other) = Count(file.stack, other)
<1> DEFINE mine == EntriesOf(file.stack, source)
           newest == {e \in mine : \A f \in mine : f.at <= e.at}
           kept == file.stack \ newest
           left == EntriesOf(kept, source)
<1>1. pop_freeze(file, source) = update_stack(file, Ranked(kept))
  BY DEF pop_freeze, EntriesOf
<1>2. kept \subseteq file.stack  OBVIOUS
<1>3. IsFiniteSet(mine) /\ Cardinality(mine) \in Nat  BY CountType DEF Count
<1>4. \A e \in mine : e.at \in Nat /\ \A f \in mine : e.at = f.at => e = f
  BY DEF WellFormed, ListOfEntries, IsList, Entries, EntriesOf
<1>5. left = mine \ newest  BY DEF EntriesOf
<1>6. \A e, f \in newest : e = f
  <2> TAKE e, f \in newest
  <2>1. e.at <= f.at /\ f.at <= e.at /\ e \in mine /\ f \in mine  OBVIOUS
  <2> QED  BY <2>1, <1>4
<1>7. newest \subseteq mine  OBVIOUS
<1>8. /\ Cardinality(left) \in Nat /\ Cardinality(left) <= Cardinality(mine)
      /\ Cardinality(left) + 1 >= Cardinality(mine)
  <2> HIDE DEF newest, mine, left
  <2>1. CASE newest = {}  BY <2>1, <1>3, <1>5
  <2>2. CASE newest # {}
    <3>1. PICK e \in newest : newest = {e}  BY <2>2, <1>6
    <3>2. left = mine \ {e} /\ e \in mine  BY <3>1, <1>5, <1>7
    <3>3. IsFiniteSet(left) /\ Cardinality(left) = Cardinality(mine) - 1
      BY <3>2, <1>3, FS_RemoveElement
    <3>4. Cardinality(left) \in Nat  BY <3>3, FS_CardinalityType
    <3> QED  BY <3>3, <3>4, <1>3
  <2> QED  BY <2>1, <2>2
<1>9. Cardinality(mine) <= 1 => Cardinality(left) = 0
  <2> SUFFICES ASSUME Cardinality(mine) <= 1 PROVE left = {}
    BY FS_EmptySet
  <2>1. CASE Cardinality(mine) = 0
    <3>1. mine = {}  BY <2>1, <1>3, FS_EmptySet
    <3> QED  BY <3>1, <1>5
  <2>2. CASE Cardinality(mine) = 1
    <3>1. \E e : mine = {e}  BY <2>2, <1>3, FS_Singleton
    <3>2. PICK e : mine = {e}  BY <3>1
    <3>3. e.at <= e.at  BY <3>2, <1>4
    <3>4. e \in newest  BY <3>2, <3>3
    <3> QED  BY <3>2, <3>4, <1>5
  <2> QED  BY <2>1, <2>2, <1>3
<1>10. \A other : other # source => EntriesOf(kept, other) = EntriesOf(file.stack, other)
  BY DEF EntriesOf
<1> HIDE DEF kept
<1>11. /\ update_stack(file, Ranked(kept)).readable
       /\ \A s : Count(update_stack(file, Ranked(kept)).stack, s) = Count(kept, s)
  BY <1>2, KeptCount
<1> QED  BY <1>1, <1>8, <1>9, <1>10, <1>11 DEF Count

(* An operator's stand-down takes every entry of its source. *)
LEMMA StandDownCount ==
  ASSUME NEW file, WellFormed(file), file.readable, NEW source
  PROVE  /\ stand_down(file, source).readable
         /\ Count(stand_down(file, source).stack, source) = 0
         /\ \A other : other # source =>
              Count(stand_down(file, source).stack, other) = Count(file.stack, other)
<1> DEFINE kept == {e \in file.stack : e.source # source}
<1>1. EntriesOf(kept, source) = {}
      /\ \A other : other # source => EntriesOf(kept, other) = EntriesOf(file.stack, other)
  BY DEF EntriesOf
<1>2. stand_down(file, source) = update_stack(file, Ranked(kept)) /\ kept \subseteq file.stack
  BY DEF stand_down
<1> HIDE DEF kept
<1>3. /\ update_stack(file, Ranked(kept)).readable
      /\ \A s : Count(update_stack(file, Ranked(kept)).stack, s) = Count(kept, s)
  BY <1>2, KeptCount
<1> QED  BY <1>1, <1>2, <1>3, FS_EmptySet DEF Count

(* The override takes every entry of the sources it names. *)
LEMMA OverrideCount ==
  ASSUME NEW file, WellFormed(file), file.readable, NEW sources
  PROVE  /\ override(file, sources).readable
         /\ \A source \in sources : Count(override(file, sources).stack, source) = 0
         /\ \A other : other \notin sources =>
              Count(override(file, sources).stack, other) = Count(file.stack, other)
<1> DEFINE kept == {e \in file.stack : e.source \notin sources}
<1>1. /\ \A source \in sources : EntriesOf(kept, source) = {}
      /\ \A other : other \notin sources => EntriesOf(kept, other) = EntriesOf(file.stack, other)
  BY DEF EntriesOf
<1>2. override(file, sources) = update_stack(file, Ranked(kept)) /\ kept \subseteq file.stack
  BY DEF override, update_stack
<1> HIDE DEF kept
<1>3. /\ update_stack(file, Ranked(kept)).readable
      /\ \A s : Count(update_stack(file, Ranked(kept)).stack, s) = Count(kept, s)
  BY <1>2, KeptCount
<1> QED  BY <1>1, <1>2, <1>3, FS_EmptySet DEF Count

(* The boot takes every entry but the welfare ones. *)
LEMMA BootCount ==
  ASSUME NEW file, WellFormed(file), file.readable
  PROVE  /\ unfreeze_for_boot(file).readable
         /\ Count(unfreeze_for_boot(file).stack, "welfare") = Count(file.stack, "welfare")
         /\ \A other : other # "welfare" => Count(unfreeze_for_boot(file).stack, other) = 0
<1> DEFINE kept == {e \in file.stack : e.source = "welfare"}
<1>1. /\ EntriesOf(kept, "welfare") = EntriesOf(file.stack, "welfare")
      /\ \A other : other # "welfare" => EntriesOf(kept, other) = {}
  BY DEF EntriesOf
<1>2. unfreeze_for_boot(file) = update_stack(file, Ranked(kept)) /\ kept \subseteq file.stack
  BY DEF unfreeze_for_boot
<1> HIDE DEF kept
<1>3. /\ update_stack(file, Ranked(kept)).readable
      /\ \A s : Count(update_stack(file, Ranked(kept)).stack, s) = Count(kept, s)
  BY <1>2, KeptCount
<1> QED  BY <1>1, <1>2, <1>3, FS_EmptySet DEF Count
=============================================================================
