---------------------------- MODULE ArrayBasedSet ----------------------------
(***************************************************************************)
(* The sorted array of ArrayBasedTraits (arraybasedset.hh), with what a    *)
(* std::array really holds: behind _size there are values that earlier     *)
(* operations left, or that were never written.                            *)
(***************************************************************************)
EXTENDS Integers, Sequences, SequencesExt

CONSTANTS
  Name,       \* the set objects
  SubDomain,  \* the subdomain indices
  maxSize,    \* capacity
  emptyTag    \* the largest value of SubDomainIndex

ArrayAssumption ==
  /\ SubDomain \subseteq Nat /\ maxSize \in Nat \ {0}
  /\ \A s \in SubDomain : s < emptyTag

VARIABLES
  array,  \* array[n]: _set of the object n, a sequence of maxSize values
  length  \* length[n]: _size of the object n

vars == <<array, length>>

(* What memory that was never written can hold: anything, but only values  *)
(* that look like elements could do harm.                                  *)
Unwritten == SubDomain

(* begin() .. end()                                                        *)
Live(n) == SubSeq(array[n], 1, length[n])

(* std::sort: the values of q in ascending order.                          *)
Sorted(q) ==
  LET from == CHOOSE f \in Injection(DOMAIN q, DOMAIN q) :
                \A i, j \in DOMAIN q : i < j => q[f[i]] <= q[f[j]]
  IN  [i \in DOMAIN q |-> q[from[i]]]

(* The array of n after q has been written to its beginning.               *)
Overwritten(n, q) == [i \in 1 .. maxSize |-> IF i <= Len(q) THEN q[i] ELSE array[n][i]]

-----------------------------------------------------------------------------
(* Queries.  The standard algorithms search a sorted range.                *)

lower_bound(q, s) == Cardinality({i \in DOMAIN q : q[i] < s}) + 1

binary_search(q, s) ==
  LET i == lower_bound(q, s) IN i <= Len(q) /\ q[i] = s

domainOffset(q, s) == lower_bound(q, s) - 1

state(n) == CASE length[n] = 0 -> "emptySet"
              [] length[n] = 1 -> "simpleSet"
              [] OTHER -> "multipleSet"

-----------------------------------------------------------------------------
Init ==
  /\ length = [n \in Name |-> 0]
  /\ array \in [Name -> [1 .. maxSize -> Unwritten]]

(* Mutant: the new value stays at the end.                                 *)
add_Unsorted(n, s) ==
  IF binary_search(Live(n), s) THEN UNCHANGED vars
  ELSE /\ length[n] < maxSize
       /\ array' = [array EXCEPT ![n] = Overwritten(n, Append(Live(n), s))]
       /\ length' = [length EXCEPT ![n] = @ + 1]

add(n, s) ==
  IF binary_search(Live(n), s) THEN UNCHANGED vars
  ELSE /\ length[n] < maxSize
       /\ array' = [array EXCEPT ![n] = Overwritten(n, Sorted(Append(Live(n), s)))]
       /\ length' = [length EXCEPT ![n] = @ + 1]

(* remove() of a member s (asserted): its place gets emptyTag, and the     *)
(* range up to _set.end() + _size is sorted, which is the whole array,     *)
(* stale values included, and _size values of the memory behind it, which  *)
(* can hold anything.                                                      *)
remove(n, s) ==
  /\ binary_search(Live(n), s)
  /\ \E beyond \in [1 .. length[n] -> Unwritten] :
       LET tagged == ReplaceAt(array[n], lower_bound(Live(n), s), emptyTag)
       IN  array' = [array EXCEPT ![n] = SubSeq(Sorted(tagged \o beyond), 1, maxSize)]
  /\ length' = [length EXCEPT ![n] = @ - 1]

set(n, s) ==
  /\ array' = [array EXCEPT ![n][1] = s]
  /\ length' = [length EXCEPT ![n] = 1]

clear(n) ==
  /\ length' = [length EXCEPT ![n] = 0]
  /\ UNCHANGED array

(* std::set_difference and std::set_union of sorted ranges.                *)
set_difference(q, r) ==
  LET kept == {i \in DOMAIN q : q[i] \notin ToSet(r)}
      from == CHOOSE f \in [1 .. Cardinality(kept) -> kept] :
                \A i, j \in DOMAIN f : i < j => f[i] < f[j]
  IN  [i \in DOMAIN from |-> q[from[i]]]
set_union(q, r) == Sorted(q \o set_difference(r, q))

(* Mutant: the value copied too many is counted.                           *)
addAll_CountJunk(n, m) ==
  LET union == set_union(Live(n), Live(m))
  IN  /\ Len(union) < maxSize
      /\ \E junk \in Unwritten : array' = [array EXCEPT ![n] = Overwritten(n, Append(union, junk))]
      /\ length' = [length EXCEPT ![n] = Len(union) + 1]

(* setAdd() of two array sets: the union goes through a temporary array of *)
(* which one value more than the union has is copied back, a value never   *)
(* written.  It lands in the array, or behind it when the union fills it.  *)
addAll(n, m) ==
  LET union == set_union(Live(n), Live(m))
  IN  /\ Len(union) <= maxSize
      /\ \E junk \in Unwritten : array' = [array EXCEPT ![n] = Overwritten(n, Append(union, junk))]
      /\ length' = [length EXCEPT ![n] = Len(union)]

(* The result goes into an object other than the operands, as in its only  *)
(* use, AllInterfacesController.                                           *)
difference(n, m, k) ==
  LET rest == set_difference(Live(m), Live(k))
  IN  /\ n \notin {m, k}
      /\ array' = [array EXCEPT ![n] = Overwritten(n, rest)]
      /\ length' = [length EXCEPT ![n] = Len(rest)]

NextWithoutRemove ==
  \E n \in Name :
    \/ \E s \in SubDomain : add(n, s) \/ set(n, s)
    \/ clear(n)
    \/ \E m \in Name : addAll(n, m)
    \/ \E m, k \in Name : difference(n, m, k)

Next ==
  \/ \E n \in Name, s \in SubDomain : remove(n, s)
  \/ NextWithoutRemove

Spec == Init /\ [][Next]_vars
SpecWithoutRemove == Init /\ [][NextWithoutRemove]_vars

-----------------------------------------------------------------------------
Elements(n) == ToSet(Live(n))

(* Each operation but remove() does to the elements what a set does: stale *)
(* values never become elements (arraybasedset.hh 104-110, 135-145,        *)
(* 154-157, 195-205).                                                      *)
AsSet == INSTANCE SubDomainSet WITH members <- [n \in Name |-> Elements(n)]
StepsAsSet ==
  \A n \in Name :
    /\ \A s \in SubDomain : add(n, s) => AsSet!add(n, s)
    /\ \A s \in SubDomain : set(n, s) => AsSet!set(n, s)
    /\ clear(n) => AsSet!clear(n)
    /\ \A m \in Name : addAll(n, m) => AsSet!addAll(n, m)
    /\ \A m, k \in Name : difference(n, m, k) => AsSet!difference(n, m, k)

ImplementsSet == AsSet!Init /\ [][StepsAsSet]_vars

(* The live range is what binary_search, lower_bound, set_union and        *)
(* includes of the next call rely on: ascending without repetition.  Then  *)
(* state(), contains() and operator== answer for the set, and              *)
(* domainOffset() gives every element a slot of its own, which is what     *)
(* OffsetAssumption of MapEntries asks of it (arraybasedset.hh 95-145,     *)
(* 164-176).                                                               *)
QueriesAgree ==
  \A n, m \in Name :
    /\ \A i, j \in DOMAIN Live(n) : i < j => Live(n)[i] < Live(n)[j]
    /\ state(n) = CASE Elements(n) = {} -> "emptySet"
                     [] \E s \in SubDomain : Elements(n) = {s} -> "simpleSet"
                     [] OTHER -> "multipleSet"
    /\ \A s \in SubDomain : binary_search(Live(n), s) <=> s \in Elements(n)
    /\ \A s \in Elements(n) : domainOffset(Live(n), s) \in 0 .. maxSize - 1
    /\ \A s, t \in Elements(n) :
         domainOffset(Live(n), s) = domainOffset(Live(n), t) => s = t
    /\ Live(n) = Live(m) <=> Elements(n) = Elements(m)

(* "Removes the given leaf entity from the specified subdomain"            *)
(* (multidomaingrid.hh 939): the other subdomains of the entity stay.      *)
RemoveKeepsOthers ==
  [][\A n \in Name, s \in SubDomain :
       remove(n, s) => Elements(n)' = Elements(n) \ {s}]_vars
=============================================================================
