------------------------- MODULE SubDomainInterfaces ------------------------
(***************************************************************************)
(* LeafSubDomainInterfaceIterator and LevelSubDomainInterfaceIterator: a   *)
(* loop over the intersections between two subdomains.  The iterator holds *)
(* one SubDomainInterface, which the controller moves and which keeps the  *)
(* same intersection seen from the other cell once it has been asked for.  *)
(* The grid stands still while the loop runs.                              *)
(***************************************************************************)
EXTENDS InterfaceMesh

CONSTANT SubDomain

VARIABLES
  subDomains,    \* subDomains[c]: the subdomains of the cell c, in the index set
  subDomain1,    \* the controller's first subdomain
  subDomain2,    \*   and its second
  position,      \* <<_hostIterator, _hostIntersectionIterator>>
  inverse,       \* _inverseHostIntersection
  inverseValid,  \* _inverseHostIntersectionValid
  handedOut,     \* the intersection last handed to the caller, and for whom
  visited,       \* history: the intersections the loop has dereferenced
  revisited      \* history: those it has dereferenced more than once

vars == <<subDomains, subDomain1, subDomain2, position, inverse, inverseValid,
          handedOut, visited, revisited>>

history == <<visited, revisited>>

controller == <<subDomains, subDomain1, subDomain2>>

End == CellCount + 1

AtEnd == position[1] = End

containsForSubDomain(s, c) == s \in subDomains[c]

(* Controller::incrementToNextValidEntity(): the first cell of the first   *)
(* subdomain from c on, at its first intersection.                         *)
NextValidEntity(c) ==
  CHOOSE p \in {<<d, 1>> : d \in c .. End} :
    /\ p[1] = End \/ containsForSubDomain(subDomain1, p[1])
    /\ \A d \in c .. p[1] - 1 : ~containsForSubDomain(subDomain1, d)

(* The positions of the loops below, one past the last intersection of     *)
(* each cell included.                                                     *)
Position == {<<End, 1>>} \cup UNION {{<<c, f>> : f \in 1 .. Len(Faces[c]) + 1} : c \in MeshCell}

(* A bug: a cell without an intersection of the interface ends the search. *)
NextValidPositionOneCell ==
  LET next[p \in Position] ==
        CASE p[1] = End -> p
          [] p[1] # End /\ p[2] > Len(Faces[p[1]]) -> NextValidEntity(p[1] + 1)
          [] OTHER -> IF neighbor(p) /\ containsForSubDomain(subDomain2, outside(p))
                      THEN p
                      ELSE next[<<p[1], p[2] + 1>>]
  IN next

(* Controller::incrementToNextValidPosition(): the loop over the           *)
(* intersections of a cell, and around it the loop over the cells.         *)
NextValidPosition ==
  LET next[p \in Position] ==
        CASE p[1] = End -> p
          [] p[1] # End /\ p[2] > Len(Faces[p[1]]) -> next[NextValidEntity(p[1] + 1)]
          [] OTHER -> IF neighbor(p) /\ containsForSubDomain(subDomain2, outside(p))
                      THEN p
                      ELSE next[<<p[1], p[2] + 1>>]
  IN next

StartPosition == NextValidPosition[NextValidEntity(1)]

(* The constructor of the interface goes to the start position.            *)
Constructed ==
  /\ position = StartPosition
  /\ inverse = <<1, 1>>
  /\ inverseValid = FALSE

(* leafSubDomainInterfaceBegin(s1, s2) and levelSubDomainInterfaceBegin(): *)
(* any two subdomains of any layout.                                       *)
Init ==
  /\ subDomains \in [MeshCell -> SUBSET SubDomain]
  /\ subDomain1 \in SubDomain
  /\ subDomain2 \in SubDomain
  /\ Constructed
  /\ handedOut = {}
  /\ visited = {}
  /\ revisited = {}

Visit ==
  /\ visited' = visited \cup {position}
  /\ revisited' = IF position \in visited THEN revisited \cup {position} ELSE revisited

(* A bug: the view from the second cell is kept when the iterator moves.   *)
IncrementWithoutClear ==
  /\ ~AtEnd
  /\ position' = NextValidPosition[<<position[1], position[2] + 1>>]
  /\ Visit
  /\ handedOut' = {}
  /\ UNCHANGED <<controller, inverse, inverseValid>>

(* A bug: the search starts at the present intersection.                   *)
IncrementFromHere ==
  /\ ~AtEnd
  /\ position' = NextValidPosition[position]
  /\ inverseValid' = FALSE
  /\ Visit
  /\ handedOut' = {}
  /\ UNCHANGED <<controller, inverse>>

(* SubDomainInterfaceIterator::increment(): the controller moves on, and   *)
(* clear() drops the view from the other cell.                             *)
Increment ==
  /\ ~AtEnd
  /\ position' = NextValidPosition[<<position[1], position[2] + 1>>]
  /\ inverseValid' = FALSE
  /\ Visit
  /\ handedOut' = {}
  /\ UNCHANGED <<controller, inverse>>

(* findInverseHostIntersection(): the intersections of the outside cell    *)
(* are tried in their order until one has _hostCell behind it, which is    *)
(* the inside cell: it was set when the iterator came to that cell.        *)
Inverse(i) ==
  CHOOSE j \in {<<outside(i), g>> : g \in DOMAIN Faces[outside(i)]} :
    /\ outside(j) = inside(i)
    /\ \A g \in 1 .. j[2] - 1 : Faces[j[1]][g] # inside(i)

(* The same in a copy of the interface: the copy constructor leaves        *)
(* _hostCell an empty entity.  No cell is equal to it; what the host       *)
(* returns as the outside of a boundary intersection may be, and otherwise *)
(* the search runs past the last intersection.                             *)
CopiedInverses(i) ==
  {<<outside(i), Len(Faces[outside(i)]) + 1>>} \cup
  {j \in {<<outside(i), g>> : g \in DOMAIN Faces[outside(i)]} :
     ~neighbor(j) /\ \A g \in 1 .. j[2] - 1 : neighbor(<<j[1], g>>)}

(* firstMultiDomainIntersectionIterator() and second...() of the loop's    *)
(* interface, which finds the view from the second cell once for each      *)
(* position.                                                               *)
IntersectionOfFirst ==
  /\ ~AtEnd
  /\ handedOut' = {[to |-> subDomain1, intersection |-> position]}
  /\ UNCHANGED <<controller, position, inverse, inverseValid, history>>

IntersectionOfSecond ==
  /\ ~AtEnd
  /\ inverse' = IF inverseValid THEN inverse ELSE Inverse(position)
  /\ inverseValid' = TRUE
  /\ handedOut' = {[to |-> subDomain2, intersection |-> inverse']}
  /\ UNCHANGED <<controller, position, history>>

(* SubDomainGrid::subDomainIntersectionIterator(it) of the second          *)
(* subdomain (of the first it is as above).  The iterator is passed by     *)
(* value: what the copy finds is lost to the loop's interface.             *)
SubDomainIntersection ==
  /\ ~AtEnd
  /\ subDomain2 # subDomain1
  /\ \E j \in IF inverseValid THEN {inverse} ELSE CopiedInverses(position) :
       handedOut' = {[to |-> subDomain2, intersection |-> j]}
  /\ UNCHANGED <<controller, position, inverse, inverseValid, history>>

Finished == AtEnd /\ UNCHANGED vars

(* A caller who asks the interface first: the copy then has its answer.    *)
CallerNext ==
  \/ Increment
  \/ IntersectionOfFirst
  \/ IntersectionOfSecond
  \/ inverseValid /\ SubDomainIntersection
  \/ Finished

Next == CallerNext \/ SubDomainIntersection

Spec == Init /\ [][Next]_vars

(* The loop's body may stop to ask, but the loop goes on.                  *)
CallerSpec == Init /\ [][CallerNext]_vars /\ WF_vars(Increment)
-----------------------------------------------------------------------------
(* What the interface answers about its cells and about the place of the   *)
(* intersection in each of them.                                           *)
Interface(i) ==
  [firstCell |-> inside(i), indexInFirstCell |-> i[2],
   secondCell |-> outside(i), indexInSecondCell |-> indexInOutside(i)]

(* The intersections of the interface, from its first subdomain.           *)
InterfaceOf(s1, s2) ==
  {i \in Intersection : /\ neighbor(i)
                        /\ s1 \in subDomains[inside(i)]
                        /\ s2 \in subDomains[outside(i)]}

(* The loop visits the intersections "that are part of both subdomains"    *)
(* (the comments above the factories): when it stands at an intersection   *)
(* it has visited those before it, each once and no other, and when it     *)
(* ends none is left, whatever cells lie between and wherever the boundary *)
(* and the cells outside both subdomains are.                              *)
VisitsInterface ==
  /\ ~AtEnd => position \in InterfaceOf(subDomain1, subDomain2)
  /\ \A i \in InterfaceOf(subDomain1, subDomain2) :
       i \in visited <=> (AtEnd \/ Before(i, position))
  /\ visited \subseteq InterfaceOf(subDomain1, subDomain2)
  /\ revisited = {}

(* Whoever asks for the intersection as one of the two subdomains sees it  *)
(* gets the present one with its own cell inside (for the second, "but     *)
(* with inside and outside flipped": the comment above                     *)
(* secondMultiDomainIntersectionIterator()), at the place the interface    *)
(* reports for it, however often and in whatever order both are asked for: *)
(* the view from the second cell is a cache that must not outlive the      *)
(* position.                                                               *)
OwnSide ==
  \A h \in handedOut :
    LET face == Interface(position)
    IN h.intersection \in (IF h.to = subDomain1
                           THEN {<<face.firstCell, face.indexInFirstCell>>} ELSE {})
                       \cup (IF h.to = subDomain2
                             THEN {<<face.secondCell, face.indexInSecondCell>>} ELSE {})

(* The loop comes to the iterator that ...InterfaceEnd() returns.          *)
LoopEnds == <>AtEnd

-----------------------------------------------------------------------------
(* The inductive invariants behind VisitsInterface and OwnSide.            *)
LoopInv == position \in Position /\ VisitsInterface

(* The cache, once valid, is the present intersection from the other side. *)
SideInv == LoopInv /\ (inverseValid => inverse = Inverse(position)) /\ OwnSide
=============================================================================
