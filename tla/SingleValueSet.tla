--------------------------- MODULE SingleValueSet ---------------------------
(***************************************************************************)
(* The set representation for traits that put a cell into one subdomain at *)
(* most (singlevalueset.hh): one value, or a tag for none.  No traits      *)
(* class of the library uses it; the index sets would use it as they use   *)
(* the others, joining the sets of cells in the sets of their sub-entities *)
(* and sending sets to other ranks.  What the code asserts is a guard.     *)
(***************************************************************************)
EXTENDS Integers, Sequences, SequencesExt

CONSTANTS
  Name,       \* the set objects
  SubDomain,  \* the subdomain indices
  emptyTag    \* ~SubDomainIndex(0)

TagAssumption == emptyTag \notin SubDomain

VARIABLES
  value,   \* value[n]: _set of the object n
  message  \* {} or the value written to a message buffer

vars == <<value, message>>

-----------------------------------------------------------------------------
(* Queries.                                                                *)
empty(v) == v = emptyTag
simple(v) == v # emptyTag
state(v) == IF empty(v) THEN "emptySet" ELSE "simpleSet"
size(v) == IF empty(v) THEN 0 ELSE 1
contains(v, s) == v = s
containsAll(v, w) == v = w
domainOffset(v, s) == 0

(* A bug: end() is always behind the one value.                            *)
EnclosedAlwaysOne(v) == <<v>>

(* The values from begin() to end().                                       *)
Enclosed(v) == IF empty(v) THEN <<>> ELSE <<v>>

-----------------------------------------------------------------------------
(* Operations.                                                             *)
Assign(n, v) == value' = [value EXCEPT ![n] = v] /\ UNCHANGED message

Init == value = [n \in Name |-> emptyTag] /\ message = {}

add(n, s) == value[n] \in {emptyTag, s} /\ Assign(n, s)
remove(n, s) == value[n] = s /\ Assign(n, emptyTag)
set(n, s) == Assign(n, s)
clear(n) == Assign(n, emptyTag)

(* A bug: setAdd() takes the other value whatever there is.                *)
AddAllUnchecked(n, m) == Assign(n, value[m])

(* setAdd() asserts that the set is empty or has the same value.           *)
addAll(n, m) == value[n] \in {emptyTag, value[m]} /\ Assign(n, value[m])

(* The data handle: gather() writes the value, be it the tag; scatter()    *)
(* asserts like setAdd().  Between the two the sets may change.            *)
gather(n) == message = {} /\ message' = {value[n]} /\ UNCHANGED value

scatter(n) ==
  \E v \in message :
    /\ value[n] \in {emptyTag, v}
    /\ value' = [value EXCEPT ![n] = v]
    /\ message' = {}

Next ==
  \E n \in Name :
    \/ \E s \in SubDomain : add(n, s) \/ remove(n, s) \/ set(n, s)
    \/ clear(n)
    \/ \E m \in Name : addAll(n, m)
    \/ gather(n)
    \/ scatter(n)

Spec == Init /\ [][Next]_vars

-----------------------------------------------------------------------------
Elements(v) == ToSet(Enclosed(v))

(* As long as its assertions hold, each operation does to the elements     *)
(* what a set with room for one does, and receiving a set joins it to the  *)
(* one that is there (singlevalueset.hh 65-78, 115-136, 159-164).          *)
AsSet == INSTANCE SubDomainSet WITH maxSize <- 1,
                                    members <- [n \in Name |-> Elements(value[n])]
StepsAsSet ==
  \A n \in Name :
    /\ \A s \in SubDomain : add(n, s) => AsSet!add(n, s)
    /\ \A s \in SubDomain : remove(n, s) => AsSet!remove(n, s)
    /\ \A s \in SubDomain : set(n, s) => AsSet!set(n, s)
    /\ clear(n) => AsSet!clear(n)
    /\ \A m \in Name : addAll(n, m) => AsSet!addAll(n, m)
    /\ scatter(n) => \A v \in message :
         AsSet!Becomes(n, Elements(value[n]) \cup Elements(v))

ImplementsSet == AsSet!Init /\ [][StepsAsSet]_vars

(* The answers agree with what begin() and end() enclose, and inclusion    *)
(* with that of sets as long as the set asked for is not empty             *)
(* (singlevalueset.hh 82-113, 153-157).                                    *)
QueriesAgree ==
  \A n, m \in Name :
    LET v == value[n]
        w == value[m]
    IN  /\ \A s \in SubDomain : contains(v, s) <=> s \in Elements(v)
        /\ size(v) = Len(Enclosed(v))
        /\ Elements(v) \subseteq SubDomain
        /\ state(v) = IF Elements(v) = {} THEN "emptySet" ELSE "simpleSet"
        /\ simple(v) <=> Elements(v) # {}
        /\ Elements(w) # {} => (containsAll(v, w) <=> Elements(w) \subseteq Elements(v))
        /\ \A s, t \in Elements(v) : domainOffset(v, s) = domainOffset(v, t) => s = t

(* setAdd() asserts "a._set == SingleValueSet<SI>::emptyTag || a._set ==   *)
(* b._set" (singlevalueset.hh): wherever the union has room, the call that *)
(* makes it is allowed.                                                    *)
UnionWithRoomAllowed ==
  \A n, m \in Name :
    (\E v \in {emptyTag} \cup SubDomain :
       Elements(value[n]) \cup Elements(value[m]) = Elements(v)) =>
      value[n] \in {emptyTag, value[m]}
=============================================================================
