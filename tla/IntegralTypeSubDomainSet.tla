---------------------- MODULE IntegralTypeSubDomainSet ----------------------
(***************************************************************************)
(* The bit set of FewSubDomainsTraits (subdomainset.hh): one unsigned      *)
(* integer, the iterator that finds the set bits by arithmetic, and the    *)
(* queries the index sets and interface iterators make.                    *)
(***************************************************************************)
EXTENDS Integers, Sequences, SequencesExt, Bitwise

CONSTANTS
  Name,      \* the set objects
  maxSize,   \* capacity
  digits     \* the bits of SetStorage, at least capacity

ASSUME StorageAssumption == maxSize \in 1 .. digits /\ digits \in Nat

VARIABLE bits  \* bits[n]: _set of the object n

SubDomain == 0 .. maxSize - 1
SetStorage == 0 .. 2^digits - 1

Complement(v) == 2^digits - 1 - v
Bit(s) == 2^s  \* base << s

-----------------------------------------------------------------------------
(* Queries.                                                                *)

contains(v, s) == Bit(s) & v # 0
(* Mutant: the operands of the comparison are mixed up.                    *)
containsAll_Swapped(v, w) == v & w = v
containsAll(v, w) == v & w = w
empty(v) == v = 0
simple(v) == v # 0 /\ v & (v - 1) = 0
state(v) == IF v = 0 THEN "emptySet"
            ELSE IF v & (v - 1) = 0 THEN "simpleSet" ELSE "multipleSet"
domainOffset(s) == s

(* size() clears the lowest set bit until none is left.                    *)
size[v \in SetStorage] == IF v = 0 THEN 0 ELSE 1 + size[v & (v - 1)]

(* findNextValue(): the lowest bit of v and its position.                  *)
lowestBit(v) == v & ((Complement(v) + 1) % 2^digits)
findNextValue(v) ==
  LET lowest == lowestBit(v) IN CHOOSE i \in 0 .. digits - 1 : 2^i = lowest

(* The values an Iterator delivers from the state v to the end.            *)
Visited[v \in SetStorage] ==
  IF v = 0 THEN <<>>
  ELSE LET next == findNextValue(v)
       IN  <<next>> \o Visited[v & Complement(Bit(next))]

-----------------------------------------------------------------------------
(* Operations.                                                             *)

Assign(n, v) == bits' = [bits EXCEPT ![n] = v]

Init == bits = [n \in Name |-> 0]

add(n, s) == Assign(n, bits[n] | Bit(s))

(* Mutant: the bit is toggled.                                             *)
remove_Toggle(n, s) == Assign(n, bits[n] ^^ Bit(s))
remove(n, s) == Assign(n, bits[n] & Complement(Bit(s)))

set(n, s) == Assign(n, Bit(s))
clear(n) == Assign(n, 0)
addAll(n, m) == Assign(n, bits[n] | bits[m])
difference(n, m, k) == Assign(n, bits[m] & Complement(bits[k]))

Next ==
  \E n \in Name :
    \/ \E s \in SubDomain : add(n, s) \/ remove(n, s) \/ set(n, s)
    \/ clear(n)
    \/ \E m \in Name : addAll(n, m)
    \/ \E m, k \in Name : difference(n, m, k)

Spec == Init /\ [][Next]_bits

-----------------------------------------------------------------------------
Elements == [v \in SetStorage |-> ToSet(Visited[v])]

(* Each operation does to the elements, seen through the iterator, what a  *)
(* set does (subdomainset.hh 271-318, 360-364).                            *)
AsSet == INSTANCE SubDomainSet WITH members <- [n \in Name |-> Elements[bits[n]]]
StepsAsSet ==
  \A n \in Name :
    /\ \A s \in SubDomain : add(n, s) => AsSet!add(n, s)
    /\ \A s \in SubDomain : remove(n, s) => AsSet!remove(n, s)
    /\ \A s \in SubDomain : set(n, s) => AsSet!set(n, s)
    /\ clear(n) => AsSet!clear(n)
    /\ \A m \in Name : addAll(n, m) => AsSet!addAll(n, m)
    /\ \A m, k \in Name : difference(n, m, k) => AsSet!difference(n, m, k)

ImplementsSet == AsSet!Init /\ [][StepsAsSet]_bits

(* What the bit tricks answer is what the iterator shows: the values come  *)
(* in ascending order (AllInterfacesController and updateMapEntry() rely   *)
(* on begin() and on one visit per value), and membership, inclusion,      *)
(* state() and size() agree with them (subdomainset.hh 261-294, 355-358).  *)
QueriesAgree ==
  \A n, m \in Name :
    LET v == bits[n]
        w == bits[m]
        shown == Visited[v]
        D == ToSet(shown)
    IN  /\ \A i, j \in DOMAIN shown : i < j => shown[i] < shown[j]
        /\ \A s \in SubDomain : contains(v, s) <=> s \in D
        /\ containsAll(v, w) <=> Elements[w] \subseteq D
        /\ size[v] = Len(shown)
        /\ empty(v) <=> state(v) = "emptySet"
        /\ simple(v) <=> state(v) = "simpleSet"
        /\ state(v) = CASE Len(shown) = 0 -> "emptySet"
                        [] Len(shown) = 1 -> "simpleSet"
                        [] OTHER -> "multipleSet"
=============================================================================
