----------------------- MODULE AllSubDomainInterfaces -----------------------
(***************************************************************************)
(* LeafAllSubDomainInterfacesIterator and LevelAllSubDomainInterfaces-     *)
(* Iterator: one loop over the intersections between all pairs of          *)
(* subdomains.  At an intersection the controller walks over the pairs of  *)
(* a subdomain of the inside cell only and one of the outside cell only.   *)
(*                                                                         *)
(* An iterator over a subdomain set (the bit set) is the set of what it    *)
(* has not passed yet; it stands at the smallest, and at the end it is {}. *)
(***************************************************************************)
EXTENDS InterfaceMesh, FiniteSetsExt

CONSTANT SubDomain

SubDomainAssumption == SubDomain \subseteq Nat

VARIABLES
  subDomains,    \* subDomains[c]: the subdomains of the cell c, in the index set
  position,      \* <<_hostIterator, _hostIntersectionIterator>>
  interfacing2,  \* _interfacingSubDomains2
  iterator1,     \* _subDomain1Iterator
  iterator2,     \* _subDomain2Iterator
  visited,       \* history: intersections and pairs the loop has dereferenced
  revisited      \* history: those it has dereferenced more than once

vars == <<subDomains, position, interfacing2, iterator1, iterator2, visited, revisited>>

End == CellCount + 1

AtEnd == position[1] = End

subDomain1 == Min(iterator1)
subDomain2 == Min(iterator2)

(* A bug: the iterator is not advanced.                                     *)
NotPassed(iterator) == iterator

Passed(iterator) == iterator \ {Min(iterator)}

(* calculateInterfacingSubDomains(): what only one of the two cells has.   *)
Interfacing1(i) == subDomains[inside(i)] \ subDomains[outside(i)]
Interfacing2(i) == subDomains[outside(i)] \ subDomains[inside(i)]

HasInterfaces(i) == neighbor(i) /\ Interfacing1(i) # {} /\ Interfacing2(i) # {}

(* Where the intersection iterator has another one before its end.         *)
NotLast == {i \in Intersection : i[2] < Len(Faces[i[1]])}

(* incrementToNextValidIntersection() from the intersection i.  The inner  *)
(* loop is left for the next cell as soon as there is another intersection *)
(* in the present one; its second test would look at the intersection past *)
(* the last, where the search never is, because a cell is entered at its   *)
(* first intersection and has more than one: that case has no value here.  *)
NextValidIntersection ==
  LET next[i \in NotLast] ==
        IF i[1] = CellCount THEN <<End, 1>>
        ELSE IF HasInterfaces(<<i[1] + 1, 1>>)
             THEN <<i[1] + 1, 1>>
             ELSE next[<<i[1] + 1, 1>>]
  IN next

(* Where the iterator goes with the search: the pairs of an intersection   *)
(* start anew; at the end nobody looks at the pair again.                  *)
GoTo(i) ==
  /\ position' = i
  /\ IF i[1] = End
     THEN /\ interfacing2' = {}
          /\ iterator1' = {}
          /\ iterator2' = {}
     ELSE /\ interfacing2' = Interfacing2(i)
          /\ iterator1' = Interfacing1(i)
          /\ iterator2' = Interfacing2(i)

(* incrementToStartPosition().                                             *)
StartPosition ==
  IF HasInterfaces(<<1, 1>>) THEN <<1, 1>> ELSE NextValidIntersection[<<1, 1>>]

(* The constructor of the interface, with a new controller.                *)
Constructed ==
  /\ position = StartPosition
  /\ interfacing2 = IF AtEnd THEN {} ELSE Interfacing2(position)
  /\ iterator1 = IF AtEnd THEN {} ELSE Interfacing1(position)
  /\ iterator2 = interfacing2

(* leafAllSubDomainInterfacesBegin() and levelAllSubDomainInterfacesBegin().*)
Init ==
  /\ subDomains \in [MeshCell -> SUBSET SubDomain]
  /\ Constructed
  /\ visited = {}
  /\ revisited = {}

Here == <<position, subDomain1, subDomain2>>

(* A bug: the second subdomain starts behind the present one, not at the   *)
(* beginning.                                                              *)
NextFirstSubDomainNoRestart ==
  /\ Passed(iterator2) = {}
  /\ Passed(iterator1) # {}
  /\ iterator1' = Passed(iterator1)
  /\ UNCHANGED <<position, interfacing2, iterator2>>

(* The three outcomes of ++_subDomain2Iterator and                         *)
(* incrementToNextValidPosition().                                         *)
NextSecondSubDomain ==
  /\ Passed(iterator2) # {}
  /\ iterator2' = Passed(iterator2)
  /\ UNCHANGED <<position, interfacing2, iterator1>>

NextFirstSubDomain ==
  /\ Passed(iterator2) = {}
  /\ Passed(iterator1) # {}
  /\ iterator1' = Passed(iterator1)
  /\ iterator2' = interfacing2
  /\ UNCHANGED <<position, interfacing2>>

NextIntersection ==
  /\ Passed(iterator2) = {}
  /\ Passed(iterator1) = {}
  /\ GoTo(NextValidIntersection[position])

(* SubDomainInterfaceIterator::increment().                                *)
Increment ==
  /\ ~AtEnd
  /\ NextFirstSubDomain \/ NextSecondSubDomain \/ NextIntersection
  /\ visited' = visited \cup {Here}
  /\ revisited' = IF Here \in visited THEN revisited \cup {Here} ELSE revisited
  /\ UNCHANGED subDomains

Finished == AtEnd /\ UNCHANGED vars

Next == Increment \/ Finished

Spec == Init /\ [][Next]_vars /\ WF_vars(Increment)
-----------------------------------------------------------------------------
(* The interfaces the factories promise: an intersection of two cells and  *)
(* two subdomains that are disjoint there.                                 *)
InterfacesAt(i) ==
  {<<i, s, t>> : s \in {s \in SubDomain : /\ s \in subDomains[inside(i)]
                                          /\ s \notin subDomains[outside(i)]},
                 t \in {t \in SubDomain : /\ t \in subDomains[outside(i)]
                                          /\ t \notin subDomains[inside(i)]}}

Interfaces == UNION {InterfacesAt(i) : i \in {j \in Intersection : neighbor(j)}}

(* The same interface, seen from the other cell.                           *)
FromOtherSide(a) == <<<<outside(a[1]), indexInOutside(a[1])>>, a[3], a[2]>>

(* The promise of the factories: the iterator "will visit the intersection *)
(* between e1 and e2" for s1 and s2 "iff" they are disjoint there (the     *)
(* comments of leafAllSubDomainInterfacesBegin() and of the level form);   *)
(* a visit from either cell will do.                                       *)
VisitsEveryInterface ==
  AtEnd => \A a \in Interfaces : a \in visited \/ FromOtherSide(a) \in visited

(* The half of the promise that the nested walk over cells, first and      *)
(* second subdomains keeps: whatever the loop shows is an interface, none  *)
(* is shown twice, and an intersection that the loop has left was shown    *)
(* with every pair of subdomains that are disjoint there, or not at all.   *)
InterfacesShown ==
  /\ ~AtEnd => Here \in InterfacesAt(position)
  /\ visited \subseteq Interfaces
  /\ \A i \in Intersection \ {position} :
       neighbor(i) => InterfacesAt(i) \subseteq visited \/ InterfacesAt(i) \cap visited = {}
  /\ revisited = {}

(* The loop comes to the iterator that ...InterfacesEnd() returns.         *)
LoopEnds == <>AtEnd

-----------------------------------------------------------------------------
(* The inductive invariant behind InterfacesShown.  The search inspects    *)
(* the first intersection of each cell; the loop has shown the interfaces  *)
(* there that are before the present one, and the iterators have passed    *)
(* what is smaller than where they stand.                                  *)
Inspected == {i \in Intersection : i[2] = 1 /\ neighbor(i)}

Earlier(a, b) ==
  \/ Before(a[1], b[1])
  \/ a[1] = b[1] /\ (a[2] < b[2] \/ (a[2] = b[2] /\ a[3] < b[3]))

VisitsInspected ==
  /\ ~AtEnd => Here \in InterfacesAt(position)
  /\ \A a \in UNION {InterfacesAt(i) : i \in Inspected} :
       a \in visited <=> (AtEnd \/ Earlier(a, Here))
  /\ visited \subseteq UNION {InterfacesAt(i) : i \in Inspected}
  /\ revisited = {}

PairsInv ==
  /\ VisitsInspected
  /\ subDomains \in [MeshCell -> SUBSET SubDomain]
  /\ position \in Inspected \cup {<<End, 1>>}
  /\ ~AtEnd =>
       /\ interfacing2 = Interfacing2(position)
       /\ iterator1 # {} /\ iterator1 \subseteq Interfacing1(position)
       /\ iterator2 # {} /\ iterator2 \subseteq interfacing2
       /\ \A s \in Interfacing1(position) \ iterator1 : s < subDomain1
       /\ \A t \in interfacing2 \ iterator2 : t < subDomain2
=============================================================================
