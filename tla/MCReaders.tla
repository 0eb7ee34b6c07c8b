----------------------------- MODULE MCReaders -----------------------------
(* A caller who reads a grid between marking cycles, in one of four ways:  *)
(* by a loop over the interface of a pair of subdomains, by the loop over  *)
(* all interfaces, through a SubDomainGrid, or with a mapper's indices.    *)
(* They share nothing that changes, so one behaviour reads in one way.     *)
(*                                                                         *)
(* The SubDomainGrid is on a line of three macro cells; the left one is    *)
(* refined twice.                                                          *)
(*                                                                         *)
(*   level 0   a0-------A-------a1---B---a2---C---a3                       *)
(*   level 1   b0---A1---b1--A2--b2                                        *)
(*   level 2             c1-A3-c2-A4-c3                                    *)
(*                                                                         *)
(* The leaf view has the vertices b0, c1, c2, c3, a2 and a3: where cells   *)
(* of two levels meet, the vertex of the finer one.                        *)
EXTENDS SubDomainView, TLC

CONSTANTS A, B, C, A1, A2, A3, A4, a0, a1, a2, a3, b0, b1, b2, c1, c2, c3

MCLevel ==
  [e \in {A, B, C, a0, a1, a2, a3} |-> 0] @@ [e \in {A1, A2, b0, b1, b2} |-> 1]
  @@ [e \in {A3, A4, c1, c2, c3} |-> 2]

MCFather ==
  (A :> Nothing) @@ (B :> Nothing) @@ (C :> Nothing)
  @@ (A1 :> A) @@ (A2 :> A) @@ (A3 :> A2) @@ (A4 :> A2)

MCLevelVertices ==
  (A :> {a0, a1}) @@ (B :> {a1, a2}) @@ (C :> {a2, a3})
  @@ (A1 :> {b0, b1}) @@ (A2 :> {b1, b2}) @@ (A3 :> {c1, c2}) @@ (A4 :> {c2, c3})

MCLeafVertices ==
  (B :> {c3, a2}) @@ (C :> {a2, a3}) @@ (A1 :> {b0, c1})
  @@ (A3 :> {c1, c2}) @@ (A4 :> {c2, c3})

MCLevelFaces ==
  (A :> <<Boundary, B>>) @@ (B :> <<A, C>>) @@ (C :> <<B, Boundary>>)
  @@ (A1 :> <<Boundary, A2>>) @@ (A2 :> <<A1, Nothing>>)
  @@ (A3 :> <<Nothing, A4>>) @@ (A4 :> <<A3, Nothing>>)

MCLeafFaces ==
  (B :> <<A4, C>>) @@ (C :> <<B, Boundary>>)
  @@ (A1 :> <<Boundary, A3>>) @@ (A3 :> <<A1, A4>>) @@ (A4 :> <<A3, B>>)

MCOrder == <<A, A1, A2, A3, A4, B, C, a0, a1, a2, a3, b0, b1, b2, c1, c2, c3>>

(* For the loop over one interface, a leaf view with a hanging node: a     *)
(* large cell 1, two small ones 2 and 3 beside it, and a large cell 4 on   *)
(* their other side.                                                       *)
(*                                                                         *)
(*        +-------+---+-------+                                            *)
(*        |       | 3 |       |                                            *)
(*        |   1   +---+   4   |                                            *)
(*        |       | 2 |       |                                            *)
(*        +-------+---+-------+                                            *)
HangingFaces ==
  <<<<0, 2, 3, 0>>, <<1, 4, 0, 3>>, <<1, 4, 2, 0>>, <<2, 3, 0, 0>>>>

(* For the loop over all interfaces, three triangles around a vertex, each *)
(* with an intersection on the boundary: the first one of the cell 2.      *)
FanFaces == <<<<2, 3, 0>>, <<0, 1, 3>>, <<2, 1, 0>>>>

(* For the mapper, vertices, lines, triangles and quadrilaterals.          *)
(* Subdomains are empty, one triangle, one quadrilateral, one of each      *)
(* sharing a line, or two triangles that share a line.                     *)
EntitiesPerType ==
  {<<0, 0, 0, 0>>, <<3, 3, 1, 0>>, <<4, 4, 0, 1>>, <<5, 6, 1, 1>>, <<4, 5, 2, 0>>}

VARIABLES
  reader,
  subDomains, position, visited, revisited,                       \* of a loop
  subDomain1, subDomain2, inverse, inverseValid, handedOut,       \* Pair
  interfacing2, iterator1, iterator2,                             \* All
  size, _offsets, stale                                           \* Mapper

loop == <<subDomains, position, visited, revisited>>
pair == <<subDomain1, subDomain2, inverse, inverseValid, handedOut>>
all == <<interfacing2, iterator1, iterator2>>
mapper == <<size, _offsets, stale>>

Pair == INSTANCE SubDomainInterfaces
          WITH CellCount <- 4, Faces <- HangingFaces, SubDomain <- {0, 1}
All == INSTANCE AllSubDomainInterfaces
          WITH CellCount <- 3, Faces <- FanFaces, SubDomain <- 0 .. 3
Mapper == INSTANCE MultiDomainMCMGMapper
            WITH dimension <- 2, TypeCount <- 4, CodimOf <- <<2, 1, 0, 0>>,
                 Layout <- 1 .. 4, SubDomainCount <- 2, Traits <- "ArrayBased",
                 Sizes <- EntitiesPerType

ASSUME ReadersAssumption ==
  /\ Pair!MeshAssumption
  /\ All!MeshAssumption /\ All!SubDomainAssumption
  /\ Mapper!MapperAssumption

NoLoop == subDomains = <<>> /\ position = <<>> /\ visited = {} /\ revisited = {}
NoPair ==
  /\ subDomain1 = 0 /\ subDomain2 = 0
  /\ inverse = <<>> /\ inverseValid = FALSE /\ handedOut = {}
NoAll == interfacing2 = {} /\ iterator1 = {} /\ iterator2 = {}
NoView == layout = {} /\ iterator = {} /\ passed = <<>> /\ handle = {} /\ wrapper = {}
NoMapper == size = <<>> /\ _offsets = <<>> /\ stale = TRUE

InitReaders ==
  \/ reader = "pair" /\ Pair!Init /\ NoAll /\ NoView /\ NoMapper
  \/ reader = "all" /\ All!Init /\ NoPair /\ NoView /\ NoMapper
  \/ reader = "view" /\ Init /\ NoLoop /\ NoPair /\ NoAll /\ NoMapper
  \/ reader = "mapper" /\ Mapper!Init /\ NoLoop /\ NoPair /\ NoAll /\ NoView

NextPair == reader = "pair" /\ Pair!CallerNext /\ UNCHANGED <<reader, all, vars, mapper>>
NextAll == reader = "all" /\ All!Next /\ UNCHANGED <<reader, pair, vars, mapper>>
NextView == reader = "view" /\ Next /\ UNCHANGED <<reader, loop, pair, all, mapper>>
NextMapper == reader = "mapper" /\ Mapper!Next /\ UNCHANGED <<reader, loop, pair, all, vars>>

readersVars == <<reader, loop, pair, all, vars, mapper>>

(* The body of a loop may stop to ask, but the loop goes on.               *)
LoopIncrement ==
  \/ NextPair /\ Pair!Increment
  \/ NextAll /\ All!Increment

SpecReaders ==
  /\ InitReaders
  /\ [][NextPair \/ NextAll \/ NextView \/ NextMapper]_readersVars
  /\ WF_readersVars(LoopIncrement)
-----------------------------------------------------------------------------
(* The loop over the interface of two subdomains visits each of its        *)
(* intersections once and no other, at every point of the loop             *)
(* (VisitsInterface of SubDomainInterfaces).                               *)
VisitsInterface == reader = "pair" => Pair!VisitsInterface

(* The loop over all interfaces shows interfaces only, none twice, and an  *)
(* intersection it has left with all pairs of disjoint subdomains or not   *)
(* at all (InterfacesShown of AllSubDomainInterfaces).                     *)
InterfacesShown == reader = "all" => All!InterfacesShown

(* At its end it has visited every interface, from one of its two cells    *)
(* (VisitsEveryInterface of AllSubDomainInterfaces).                       *)
VisitsEveryInterface == reader = "all" => All!VisitsEveryInterface

(* Whoever asks for an intersection as one of the two subdomains sees it   *)
(* with its own cell inside (OwnSide of SubDomainInterfaces).              *)
OwnSide == reader = "pair" => Pair!OwnSide

(* No two entities of a subdomain share an element of a vector that a      *)
(* mapper indexes (IndicesDistinct of MultiDomainMCMGMapper).              *)
IndicesDistinct == reader = "mapper" => Mapper!IndicesDistinct

(* Either loop comes to the iterator that its ...End() returns.            *)
LoopEnds ==
  <>(/\ reader = "pair" => Pair!AtEnd
     /\ reader = "all" => All!AtEnd)
=============================================================================
