---------------------------- MODULE SubDomainSet ----------------------------
(***************************************************************************)
(* What every SubDomainSet of this library promises: a set of subdomain    *)
(* indices with at most maxSize elements.  An operation whose result does  *)
(* not fit is an error of the caller (asserted in the code).               *)
(***************************************************************************)
EXTENDS Integers, FiniteSets

CONSTANTS
  Name,       \* the set objects
  SubDomain,  \* the subdomain indices
  maxSize     \* the capacity of a set

VARIABLE members  \* members[n]: the elements of the object n

Init == members = [n \in Name |-> {}]

Becomes(n, D) ==
  /\ Cardinality(D) <= maxSize
  /\ members' = [members EXCEPT ![n] = D]

add(n, s) == Becomes(n, members[n] \cup {s})
remove(n, s) == Becomes(n, members[n] \ {s})
set(n, s) == Becomes(n, {s})
clear(n) == Becomes(n, {})
addAll(n, m) == Becomes(n, members[n] \cup members[m])
difference(n, m, k) == Becomes(n, members[m] \ members[k])

Next ==
  \E n \in Name :
    \/ \E s \in SubDomain : add(n, s) \/ remove(n, s) \/ set(n, s)
    \/ clear(n)
    \/ \E m \in Name : addAll(n, m)
    \/ \E m, k \in Name : difference(n, m, k)

Spec == Init /\ [][Next]_members
=============================================================================
