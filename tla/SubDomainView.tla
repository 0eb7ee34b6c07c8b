---------------------------- MODULE SubDomainView ---------------------------
(***************************************************************************)
(* What a caller of one SubDomainGrid does between marking cycles: iterate *)
(* over a level view, the leaf view or below a cell, look at intersections,*)
(* and go on to neighbours, fathers and vertices.  The SubDomainGrid keeps *)
(* no entities of its own; every object it hands out wraps the host's and  *)
(* asks an index set of the MultiDomainGrid whether to show it.            *)
(*                                                                         *)
(* Only the one subdomain matters, so a layout is the set of its leaf      *)
(* cells.  Level index sets are switched on.  The caller holds one entity  *)
(* and an iterator or an intersection; the objects share no state.         *)
(***************************************************************************)
EXTENDS Integers, Sequences, SequencesExt

CONSTANTS
  Cell,
  Vertex,        \* vertices of all levels; a vertex has a copy on every level
  Level,         \* Level[e]: the level of a cell or vertex
  Father,        \* Father[c]: the father of the cell c, or Nothing
  LevelVertices, \* LevelVertices[c]: the vertices of the cell c, on its level
  LeafVertices,  \* LeafVertices[c]: those of a leaf cell c in the leaf view
  LevelFaces,    \* LevelFaces[c][f]: the cell behind the f-th intersection of
                 \*   c in its level view, Boundary, or Nothing
  LeafFaces,     \* LeafFaces[c][f]: the same for a leaf cell in the leaf view
  Order,         \* the order of the host grid's iterators, every entity once
  maxLevel,
  Nothing,
  Boundary

LeafCell == {c \in Cell : \A d \in Cell : Father[d] # c}

LeafVertex == UNION {LeafVertices[c] : c \in LeafCell}

Leaf == -1

View == {Leaf} \cup 0 .. maxLevel

EntitiesOf(view) ==
  IF view = Leaf THEN LeafCell \cup LeafVertex
  ELSE {e \in Cell \cup Vertex : Level[e] = view}

Below(c) ==
  LET reaches[d \in Cell] == d = c \/ (Father[d] \in Cell /\ reaches[Father[d]])
  IN {d \in Cell : reaches[d]}

FacesIn(view, c) == IF view = Leaf THEN LeafFaces[c] ELSE LevelFaces[c]

(* Neighbours have each other, in one view; the face of a leaf cell is     *)
(* also a face in the leaf view, with a leaf below the neighbour behind it.*)
FacesAgree ==
  /\ \A view \in View : \A c \in EntitiesOf(view) \cap Cell :
       \A f \in DOMAIN FacesIn(view, c) :
         LET d == FacesIn(view, c)[f] IN
         /\ d \in (EntitiesOf(view) \cap Cell) \cup {Nothing, Boundary}
         /\ d \in Cell => \E g \in DOMAIN FacesIn(view, d) : FacesIn(view, d)[g] = c
  /\ \A c \in LeafCell : \A f \in DOMAIN LevelFaces[c] :
       LevelFaces[c][f] # Nothing =>
         \E g \in DOMAIN LeafFaces[c] :
           IF LevelFaces[c][f] = Boundary THEN LeafFaces[c][g] = Boundary
           ELSE LeafFaces[c][g] \in Below(LevelFaces[c][f])

ASSUME HostAssumption ==
  /\ Cell \cap Vertex = {} /\ Nothing \notin Cell /\ Boundary \notin Cell \cup {Nothing}
  /\ Father \in [Cell -> Cell \cup {Nothing}]
  /\ maxLevel \in Nat
  /\ Level \in [Cell \cup Vertex -> 0 .. maxLevel]
  /\ \A c \in Cell : IF Father[c] = Nothing THEN Level[c] = 0
                     ELSE Level[c] = Level[Father[c]] + 1
  /\ \A c \in Cell : LevelVertices[c] \subseteq {v \in Vertex : Level[v] = Level[c]}
  /\ \A c \in LeafCell : LeafVertices[c] \subseteq Vertex
  /\ DOMAIN LevelFaces = Cell /\ DOMAIN LeafFaces = LeafCell
  /\ FacesAgree
  /\ Order \in Seq(Cell \cup Vertex)

ASSUME OrderAssumption ==
  /\ \A e \in Cell \cup Vertex : \E k \in DOMAIN Order : Order[k] = e
  /\ \A j, k \in DOMAIN Order : Order[j] = Order[k] => j = k

VARIABLES
  layout,    \* the leaf cells of the subdomain
  iterator,  \* {} or the iterator: the view that decides, the host entities it
             \*   goes over, and what lies before it
  passed,    \* history: what the iterator has stood at
  handle,    \* {} or the entity the caller holds
  wrapper    \* {} or the intersection the caller holds

vars == <<layout, iterator, passed, handle, wrapper>>

(* The level of the entity itself decides, not one view.                   *)
OwnLevel == -2

(* A bug: only the father of a leaf cell gets its subdomains.              *)
MarkedByChildren(view, c) ==
  IF view = Leaf THEN c \in layout
  ELSE \E d \in LeafCell \cap layout : d = c \/ Father[d] = c

(* What the index sets of the MultiDomainGrid know after update(): a cell  *)
(* is in the subdomain if a leaf below it is, a vertex if a cell of the    *)
(* same view around it is.                                                 *)
Marked(view, c) ==
  IF view = Leaf THEN c \in layout ELSE Below(c) \cap layout # {}

contains(view, e) ==
  IF e \in Cell THEN Marked(view, e)
  ELSE \E c \in EntitiesOf(view) \cap Cell :
         Marked(view, c) /\ e \in (IF view = Leaf THEN LeafVertices[c] ELSE LevelVertices[c])

(* containsMultiDomainEntity() and containsHostEntity() of the grid ask    *)
(* the index set of the level, also about entities from the leaf view.     *)
containsHostEntity(e) == contains(Level[e], e)

Shows(view, e) ==
  IF view = OwnLevel THEN containsHostEntity(e) ELSE contains(view, e)

(* From the first place in rest at which there is an entity of E.          *)
From(rest, E) ==
  LET places == {k \in DOMAIN rest : rest[k] \in E}
      first == CHOOSE k \in places : \A j \in places : k <= j
  IN IF places = {} THEN <<>> ELSE SubSeq(rest, first, Len(rest))

Shown(view, E) == {e \in E : Shows(view, e)}

(* incrementToNextValidPosition() of an iterator over E.                   *)
NextValid(view, E, rest) == From(rest, Shown(view, E))

Init ==
  /\ layout \in SUBSET LeafCell
  /\ iterator = {}
  /\ passed = <<>>
  /\ handle = {}
  /\ wrapper = {}

(* A bug: the constructor of the iterator does not look at the first       *)
(* entity.                                                                 *)
BeginUnchecked(view, E) ==
  /\ iterator' = {[view |-> view, over |-> E, rest |-> From(Order, E)]}
  /\ passed' = <<>>
  /\ handle' = {}
  /\ wrapper' = {}
  /\ UNCHANGED layout

(* lbegin<codim>(level) and leafbegin<codim>(), over the entities E of one *)
(* codimension in the view, and hbegin(), over E below a cell.             *)
Begin(view, E) ==
  /\ iterator' = {[view |-> view, over |-> E, rest |-> NextValid(view, E, Order)]}
  /\ passed' = <<>>
  /\ handle' = {}
  /\ wrapper' = {}
  /\ UNCHANGED layout

BeginView(view) ==
  \E kind \in {Cell, Vertex} : Begin(view, EntitiesOf(view) \cap kind)

BeginBelow(c) ==
  /\ handle = {c}
  /\ Begin(OwnLevel, Below(c) \ {c})

(* The entity the iterator stands at, and ++.                              *)
Dereference ==
  \E i \in iterator :
    /\ i.rest # <<>>
    /\ handle' = {Head(i.rest)}
    /\ UNCHANGED <<layout, iterator, passed, wrapper>>

Increment ==
  \E i \in iterator :
    /\ i.rest # <<>>
    /\ iterator' = {[i EXCEPT !.rest = NextValid(i.view, i.over, Tail(i.rest))]}
    /\ passed' = Append(passed, Head(i.rest))
    /\ handle' = {}
    /\ UNCHANGED <<layout, wrapper>>

(* father() and subEntity<dim>(i) of the cell the caller holds.            *)
GoToFather(c) ==
  /\ handle = {c}
  /\ Father[c] # Nothing
  /\ handle' = {Father[c]}
  /\ UNCHANGED <<layout, iterator, passed, wrapper>>

SubEntity(c) ==
  /\ handle = {c}
  /\ \E v \in LevelVertices[c] : handle' = {v}
  /\ UNCHANGED <<layout, iterator, passed, wrapper>>

Undecided == [tested |-> FALSE, type |-> "unknown", outdated |-> FALSE]

(* An intersection of the cell the caller holds: ibegin() of a view, which *)
(* takes the host's intersections in that view and the view's index set,   *)
(* and * of the intersection iterator.                                     *)
Intersect(c, view) ==
  /\ handle = {c}
  /\ c \in EntitiesOf(view)
  /\ \E f \in DOMAIN FacesIn(view, c) :
       wrapper' = {[view |-> view, inside |-> c, face |-> f, cache |-> Undecided]}
  /\ iterator' = {}
  /\ passed' = <<>>
  /\ UNCHANGED <<layout, handle>>

Behind(w) == FacesIn(w.view, w.inside)[w.face]

(* checkIntersectionType(): the four kinds of intersections.               *)
TypeOf(w) ==
  CASE Behind(w) = Boundary -> "boundary"
    [] Behind(w) = Nothing -> "processor"
    [] OTHER -> IF contains(w.view, Behind(w)) THEN "neighbor" ELSE "foreign"

Tested(w) ==
  IF w.cache.tested THEN w
  ELSE [w EXCEPT !.cache = [tested |-> TRUE, type |-> TypeOf(w), outdated |-> FALSE]]

(* intersectionType(), boundary(), neighbor(): asked once, then cached.    *)
CheckIntersectionType ==
  \E w \in wrapper :
    /\ wrapper' = {Tested(w)}
    /\ UNCHANGED <<layout, iterator, passed, handle>>

(* A bug: outside() does not look at the type.                             *)
OutsideUnchecked ==
  \E w \in wrapper :
    /\ Behind(w) \in Cell
    /\ ~w.cache.outdated
    /\ wrapper' = {Tested(w)}
    /\ handle' = {Behind(w)}
    /\ UNCHANGED <<layout, iterator, passed>>

(* outside() asserts that the type is neighbor; a caller who changed the   *)
(* layout does not ask an old intersection.                                *)
Outside ==
  \E w \in wrapper :
    /\ Tested(w).cache.type = "neighbor"
    /\ ~w.cache.outdated
    /\ wrapper' = {Tested(w)}
    /\ handle' = {Behind(w)}
    /\ UNCHANGED <<layout, iterator, passed>>

(* A marking cycle gives the subdomain other cells.  The caller has no use *)
(* for iterators and entities of before, but may have kept an intersection.*)
UpdateSubDomains ==
  /\ layout' \in SUBSET LeafCell
  /\ iterator' = {}
  /\ passed' = <<>>
  /\ handle' = {}
  /\ wrapper' = {[w EXCEPT !.cache.outdated = w.cache.tested] : w \in wrapper}

OnCell(c) ==
  \/ BeginBelow(c)
  \/ GoToFather(c)
  \/ SubEntity(c)
  \/ \E view \in {Leaf, Level[c]} : Intersect(c, view)

Next ==
  \/ \E view \in View : BeginView(view)
  \/ Dereference
  \/ Increment
  \/ \E c \in Cell : OnCell(c)
  \/ CheckIntersectionType
  \/ Outside
  \/ UpdateSubDomains

Spec == Init /\ [][Next]_vars
-----------------------------------------------------------------------------
LevelOnlyHasBoundary(c) ==
  \E f \in DOMAIN LevelFaces[c] :
    TypeOf([view |-> Level[c], inside |-> c, face |-> f]) \in {"boundary", "foreign"}

(* hasBoundaryIntersections(): the level view is looked at first.          *)
hasBoundaryIntersections(c) ==
  \/ LevelOnlyHasBoundary(c)
  \/ /\ c \in LeafCell
     /\ \E f \in DOMAIN LeafFaces[c] :
          TypeOf([view |-> Leaf, inside |-> c, face |-> f]) \in {"boundary", "foreign"}

AtBoundary(c) ==
  \E f \in DOMAIN LeafFaces[c] :
    LeafFaces[c][f] = Boundary \/ (LeafFaces[c][f] \in Cell /\ LeafFaces[c][f] \notin layout)

(* Whatever the view and the codimension, an iterator has passed exactly   *)
(* the entities of the subdomain that the host lists before the place      *)
(* where it stands, each once and in order, and stands at one; over the    *)
(* cells below a cell it finds the leaf cells that the leaf view shows,    *)
(* although it asks the index sets of the levels.                          *)
IteratorVisits ==
  \A i \in iterator :
    LET before == Len(Order) - Len(i.rest)
        shown == {k \in 1 .. before : Order[k] \in Shown(i.view, i.over)}
    IN  /\ i.rest = SubSeq(Order, before + 1, Len(Order))
        /\ i.rest # <<>> => Head(i.rest) \in Shown(i.view, i.over)
        /\ Len(passed) = Cardinality(shown)
        /\ \A k \in shown : passed[Cardinality({j \in shown : j <= k})] = Order[k]
        /\ i.view = OwnLevel /\ i.rest = <<>> =>
             {e \in LeafCell : \E k \in DOMAIN passed : passed[k] = e}
               = {e \in LeafCell \cap i.over : contains(Leaf, e)}

(* No walk from cell to cell leaves the subdomain, from whatever iterator  *)
(* it starts and whatever views it crosses: fathers, neighbours, cells     *)
(* below and vertices of cells are in the subdomain, as containsHostEntity *)
(* sees it.  The vertices of the leaf view are left to IdDefined.          *)
WalkStaysInside ==
  \A e \in handle :
    e \in Cell \/ e \notin LeafVertex \/ (\A i \in iterator : i.view # Leaf) =>
      containsHostEntity(e)

(* A leaf cell has boundary intersections if and only if the leaf view     *)
(* shows it at the boundary of the subdomain: the level view, which is     *)
(* asked first and where a cell that is partly in the subdomain is all in  *)
(* it, never shows a boundary of its own.                                  *)
BoundaryOfLeaves ==
  \A c \in handle \cap LeafCell : hasBoundaryIntersections(c) <=> AtBoundary(c)

(* id() asserts "_grid.containsHostEntity(_grid.hostEntity(e))"            *)
(* (idsets.hh): every entity the caller can hold has an id.                *)
IdDefined == \A e \in handle : containsHostEntity(e)

-----------------------------------------------------------------------------
(* The inductive invariant behind WalkStaysInside.                         *)

(* The iterator the caller holds is at the end or at an entity to show.    *)
IteratorsInPlace ==
  \A i \in iterator :
    /\ i = [view |-> i.view, over |-> i.over, rest |-> i.rest]
    /\ i.view \in View \cup {OwnLevel}
    /\ i.over \subseteq IF i.view = OwnLevel THEN Cell ELSE EntitiesOf(i.view)
    /\ i.rest \in Seq(Cell \cup Vertex)
    /\ i.rest # <<>> => Head(i.rest) \in Shown(i.view, i.over)

(* What an intersection has cached since the last update is its own.       *)
IntersectionsOwn ==
  \A w \in wrapper :
    /\ w = [view |-> w.view, inside |-> w.inside, face |-> w.face,
            cache |-> [tested |-> w.cache.tested, type |-> w.cache.type,
                       outdated |-> w.cache.outdated]]
    /\ w.view \in View /\ w.inside \in EntitiesOf(w.view) \cap Cell
    /\ w.face \in DOMAIN FacesIn(w.view, w.inside)
    /\ w.cache.tested /\ ~w.cache.outdated => w.cache.type = TypeOf(w)

ViewInv ==
  /\ layout \subseteq LeafCell
  /\ handle \subseteq Cell \cup Vertex
  /\ IteratorsInPlace /\ IntersectionsOwn /\ WalkStaysInside
=============================================================================
