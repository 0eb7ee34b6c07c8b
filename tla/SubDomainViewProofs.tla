------------------------- MODULE SubDomainViewProofs ------------------------
(***************************************************************************)
(* A caller of a SubDomainGrid on any host grid, with any layouts, who     *)
(* goes from cell to cell in whatever way the views offer; and, at the end,*)
(* the mapper that numbers the entities of a subdomain, whatever their     *)
(* geometry types.                                                         *)
(***************************************************************************)
EXTENDS SubDomainView, SequenceTheorems, FiniteSetTheorems, WellFoundedInduction, TLAPS

LEMMA LeastNatural ==
  ASSUME NEW S \in SUBSET Nat, S # {}
  PROVE  \E n \in S : \A m \in S : n <= m
<1>1. PICK n \in S : \A m \in S : <<m, n>> \notin OpToRel(<, Nat)
  BY NatLessThanWellFounded, WFMin
<1>2. \A m \in S : ~(m < n)
  BY <1>1 DEF OpToRel
<1>. QED
  BY <1>2

(* What an iterator does not pass over is as long as it says.              *)
LEMMA FromFirst ==
  ASSUME NEW S, NEW rest \in Seq(S), NEW E
  PROVE  /\ From(rest, E) \in Seq(S)
         /\ From(rest, E) # <<>> => Head(From(rest, E)) \in E
<1> DEFINE places == {k \in DOMAIN rest : rest[k] \in E}
           first == CHOOSE k \in places : \A j \in places : k <= j
<1>1. DOMAIN rest = 1 .. Len(rest) /\ Len(rest) \in Nat /\ rest \in [1 .. Len(rest) -> S]
  BY LenProperties
<1>2. CASE places = {}
  <2>1. From(rest, E) = <<>>
    BY <1>2 DEF From
  <2>. QED
    BY <2>1, EmptySeq
<1>3. CASE places # {}
  <2>1. places \subseteq Nat
    BY <1>1
  <2>2. first \in places
    <3>. HIDE DEF places
    <3>1. \E k \in places : \A j \in places : k <= j
      BY <1>3, <2>1, LeastNatural
    <3>. QED
      BY <3>1
  <2>3. first \in 1 .. Len(rest) /\ rest[first] \in E
    BY <1>1, <2>2
  <2>4. From(rest, E) = SubSeq(rest, first, Len(rest))
    BY <1>3, Zenon DEF From
  <2>. HIDE DEF first, places
  <2>5. \A i \in first .. Len(rest) : rest[i] \in S
    BY <1>1, <2>3
  <2>6. /\ From(rest, E) \in Seq(S)
        /\ Len(From(rest, E)) = Len(rest) - first + 1
        /\ \A i \in 1 .. Len(rest) - first + 1 : From(rest, E)[i] = rest[first + i - 1]
    BY <1>1, <2>3, <2>4, <2>5, SubSeqProperties
  <2>7. Head(From(rest, E)) = From(rest, E)[1]
    BY <2>6
  <2>8. From(rest, E)[1] = rest[first]
    BY <1>1, <2>3, <2>6
  <2>. QED
    BY <2>3, <2>6, <2>7, <2>8
<1>. QED
  BY <1>2, <1>3

-----------------------------------------------------------------------------
(* The cells below a cell.  The function in its definition exists: it says *)
(* whether a chain of fathers leads there.                                 *)
ChainTo(c, d) ==
  \E n \in Nat : \E s \in [0 .. n -> Cell] :
    s[0] = d /\ s[n] = c /\ \A i \in 0 .. n - 1 : Father[s[i]] = s[i + 1]

LEMMA ChainFather ==
  ASSUME NEW c \in Cell, NEW d \in Cell
  PROVE  ChainTo(c, d) <=> d = c \/ (Father[d] \in Cell /\ ChainTo(c, Father[d]))
<1>1. ASSUME ChainTo(c, d), d # c
      PROVE  Father[d] \in Cell /\ ChainTo(c, Father[d])
  <2>0. PICK n \in Nat : \E s \in [0 .. n -> Cell] :
          s[0] = d /\ s[n] = c /\ \A i \in 0 .. n - 1 : Father[s[i]] = s[i + 1]
    BY <1>1 DEF ChainTo
  <2>1. PICK s \in [0 .. n -> Cell] :
          s[0] = d /\ s[n] = c /\ \A i \in 0 .. n - 1 : Father[s[i]] = s[i + 1]
    BY <2>0
  <2>2. n # 0 /\ n - 1 \in Nat
    BY <1>1, <2>1
  <2>3. PICK m \in Nat : m = n - 1
    BY <2>2
  <2>4. Father[d] = s[1] /\ s[1] \in Cell
    BY <2>1, <2>2
  <2> DEFINE t == [i \in 0 .. m |-> s[i + 1]]
  <2>5. t \in [0 .. m -> Cell]
    BY <2>1, <2>3
  <2>6. t[0] = Father[d] /\ t[m] = c
    BY <2>1, <2>3, <2>4
  <2>7. \A i \in 0 .. m - 1 : Father[t[i]] = t[i + 1]
    BY <2>1, <2>3
  <2>. QED
    BY <2>4, <2>5, <2>6, <2>7 DEF ChainTo
<1>2. ASSUME d = c PROVE ChainTo(c, d)
  <2> DEFINE s == [i \in 0 .. 0 |-> d]
  <2>1. s \in [0 .. 0 -> Cell] /\ s[0] = d /\ s[0] = c /\ \A i \in 0 .. 0 - 1 : Father[s[i]] = s[i + 1]
    BY <1>2
  <2>. QED
    BY <2>1 DEF ChainTo
<1>3. ASSUME Father[d] \in Cell, ChainTo(c, Father[d]) PROVE ChainTo(c, d)
  <2>0. PICK n \in Nat : \E s \in [0 .. n -> Cell] :
          s[0] = Father[d] /\ s[n] = c /\ \A i \in 0 .. n - 1 : Father[s[i]] = s[i + 1]
    BY <1>3 DEF ChainTo
  <2>1. PICK s \in [0 .. n -> Cell] :
          s[0] = Father[d] /\ s[n] = c /\ \A i \in 0 .. n - 1 : Father[s[i]] = s[i + 1]
    BY <2>0
  <2>2. PICK m \in Nat : m = n + 1
    BY <2>1
  <2> DEFINE t == [i \in 0 .. m |-> IF i = 0 THEN d ELSE s[i - 1]]
  <2>3. t \in [0 .. m -> Cell]
    BY <2>1, <2>2
  <2>4. t[0] = d /\ t[m] = c
    BY <2>1, <2>2
  <2>5. \A i \in 0 .. m - 1 : Father[t[i]] = t[i + 1]
    BY <2>1, <2>2
  <2>. QED
    BY <2>3, <2>4, <2>5 DEF ChainTo
<1>. QED
  BY <1>1, <1>2, <1>3

LEMMA BelowFather ==
  ASSUME NEW c \in Cell, NEW d \in Cell
  PROVE  d \in Below(c) <=> d = c \/ (Father[d] \in Cell /\ Father[d] \in Below(c))
<1> DEFINE F(f) == [x \in Cell |-> x = c \/ (Father[x] \in Cell /\ f[Father[x]])]
           chain == [x \in Cell |-> ChainTo(c, x)]
           reaches == CHOOSE f : f = F(f)
<1>1. chain = F(chain)
  <2>1. ASSUME NEW x \in Cell
        PROVE  ChainTo(c, x) = (x = c \/ (Father[x] \in Cell /\ chain[Father[x]]))
    <3>1. Father[x] \in Cell => chain[Father[x]] = ChainTo(c, Father[x])
      BY Zenon
    <3>2. ChainTo(c, x) <=> x = c \/ (Father[x] \in Cell /\ ChainTo(c, Father[x]))
      BY ChainFather
    <3>3. ChainTo(c, x) \in BOOLEAN
      BY DEF ChainTo
    <3>. QED
      BY <3>1, <3>2, <3>3, Zenon
  <2>. QED
    BY <2>1, Zenon
<1>2. reaches = F(reaches)
  BY <1>1, Zenon
<1>3. Below(c) = {x \in Cell : reaches[x]}
  BY Zenon DEF Below
<1>. HIDE DEF reaches, chain
<1>4. \A x \in Cell : reaches[x] = (x = c \/ (Father[x] \in Cell /\ reaches[Father[x]]))
  BY <1>2, Zenon
<1>. QED
  BY <1>3, <1>4, Zenon

(* Cells below a cell are below its father.                                *)
LEMMA BelowGrows ==
  ASSUME NEW c \in Cell, Father[c] \in Cell
  PROVE  Below(c) \subseteq Below(Father[c])
<1> DEFINE missing == {d \in Below(c) : d \notin Below(Father[c])}
           levels == {Level[d] : d \in missing}
<1>1. Below(c) \subseteq Cell
  BY DEF Below
<1>2. \A d \in Cell : Level[d] \in Nat
  BY HostAssumption
<1>3. SUFFICES ASSUME missing # {} PROVE FALSE
  OBVIOUS
<1>4. levels \subseteq Nat /\ levels # {}
  BY <1>1, <1>2, <1>3
<1>5. PICK n \in levels : \A m \in levels : n <= m
  BY <1>4, LeastNatural
<1>6. PICK d \in missing : Level[d] = n
  BY <1>5
<1>7. d \in Cell /\ d \in Below(c) /\ d \notin Below(Father[c])
  BY <1>1, <1>6
<1>8. d # c /\ Father[d] \in Cell /\ Father[d] \in Below(c)
  <2>1. Father[c] \in Below(Father[c])
    BY BelowFather
  <2>2. c \in Below(Father[c])
    BY <2>1, BelowFather
  <2>. QED
    BY <1>7, <2>2, BelowFather
<1>9. Father[d] \notin Below(Father[c])
  BY <1>7, <1>8, BelowFather
<1>10. Level[d] = Level[Father[d]] + 1 /\ Level[Father[d]] \in Nat
  BY <1>2, <1>7, <1>8, HostAssumption
<1>11. Level[Father[d]] \in levels
  BY <1>8, <1>9
<1>12. n <= Level[Father[d]]
  BY <1>5, <1>11
<1>. HIDE DEF missing, levels
<1>. QED
  BY <1>6, <1>10, <1>12

(* A cell is in the subdomain if there is a leaf of it below.              *)
LEMMA CellsInside ==
  ASSUME NEW c \in Cell
  PROVE  /\ containsHostEntity(c) <=> Below(c) \cap layout # {}
         /\ c \in layout => containsHostEntity(c)
         /\ Father[c] \in Cell /\ containsHostEntity(c) => containsHostEntity(Father[c])
<1>1. \A d \in Cell : Level[d] # Leaf
  BY HostAssumption DEF Leaf
<1>2. \A d \in Cell : containsHostEntity(d) <=> Below(d) \cap layout # {}
  BY <1>1 DEF containsHostEntity, contains, Marked
<1>3. c \in Below(c)
  BY BelowFather
<1>4. Father[c] \in Cell => Below(c) \subseteq Below(Father[c])
  BY BelowGrows
<1>. QED
  BY <1>2, <1>3, <1>4
-----------------------------------------------------------------------------
(* What the views show.                                                    *)

LEMMA Views ==
  /\ LeafCell \subseteq Cell /\ LeafVertex \subseteq Vertex
  /\ OwnLevel \notin View /\ Leaf \in View
  /\ \A c \in Cell : Level[c] \in View \ {Leaf}
  /\ \A view \in View : EntitiesOf(view) \subseteq Cell \cup Vertex
  /\ \A view \in View \ {Leaf} : \A e \in EntitiesOf(view) : Level[e] = view
  /\ \A e \in EntitiesOf(Leaf) : e \in Cell => e \in LeafCell
  /\ \A e \in EntitiesOf(Leaf) : e \notin Cell => e \in LeafVertex
<1>1. LeafCell \subseteq Cell
  BY DEF LeafCell
<1>2. LeafVertex \subseteq Vertex
  BY HostAssumption DEF LeafVertex
<1>3. EntitiesOf(Leaf) = LeafCell \cup LeafVertex
  BY DEF EntitiesOf
<1>4. \A view \in View \ {Leaf} : EntitiesOf(view) = {e \in Cell \cup Vertex : Level[e] = view}
  BY DEF EntitiesOf
<1>5. OwnLevel \notin View /\ Leaf \in View
  BY DEF View, Leaf, OwnLevel
<1>6. \A c \in Cell : Level[c] \in View \ {Leaf}
  BY HostAssumption DEF View, Leaf
<1>. QED
  BY <1>1, <1>2, <1>3, <1>4, <1>5, <1>6, HostAssumption

LEMMA LayoutFixed ==
  ASSUME layout' = layout
  PROVE  /\ \A e : containsHostEntity(e)' = containsHostEntity(e)
         /\ \A view, E : Shown(view, E)' = Shown(view, E)
         /\ \A w : TypeOf(w)' = TypeOf(w)
<1>1. \A view, e : contains(view, e)' = contains(view, e)
  BY DEF contains, Marked
<1>2. \A e : containsHostEntity(e)' = containsHostEntity(e)
  BY <1>1, Zenon DEF containsHostEntity
<1>3. \A view, E : Shown(view, E)' = Shown(view, E)
  BY <1>1, <1>2, Zenon DEF Shown, Shows
<1>4. \A w : TypeOf(w)' = TypeOf(w)
  BY <1>1, Zenon DEF TypeOf, Behind
<1>. QED
  BY <1>2, <1>3, <1>4

(* An entity that an iterator shows is in the subdomain as the grid sees   *)
(* it, unless it is a vertex of the leaf view.                             *)
LEMMA ShownInside ==
  ASSUME layout \subseteq LeafCell, NEW view \in View \cup {OwnLevel},
         NEW E \in SUBSET (IF view = OwnLevel THEN Cell ELSE EntitiesOf(view)), NEW e \in Shown(view, E)
  PROVE  /\ e \in Cell \cup Vertex
         /\ e \in Cell \/ view # Leaf => containsHostEntity(e)
         /\ e \notin Cell /\ view = Leaf => e \in LeafVertex
<1>1. e \in E /\ Shows(view, e)
  BY DEF Shown
<1>2. CASE view = OwnLevel
  BY <1>1, <1>2, Views DEF Shows
<1>3. CASE view = Leaf
  <2>1. e \in EntitiesOf(Leaf) /\ contains(Leaf, e)
    BY <1>1, <1>3, Views DEF Shows
  <2>2. e \in Cell => e \in layout
    BY <2>1, Zenon DEF contains, Marked
  <2>. QED
    BY <1>3, <2>1, <2>2, CellsInside, Views
<1>4. CASE view \in View \ {Leaf}
  <2>1. e \in EntitiesOf(view) /\ contains(view, e) /\ Level[e] = view
    BY <1>1, <1>4, Views DEF Shows
  <2>. QED
    BY <1>4, <2>1, Views DEF containsHostEntity
<1>. QED
  BY <1>2, <1>3, <1>4

(* The other side of an intersection with a neighbour is in the subdomain. *)
LEMMA NeighborInside ==
  ASSUME layout \subseteq LeafCell, NEW w, w.view \in View, w.inside \in EntitiesOf(w.view) \cap Cell,
         w.face \in DOMAIN FacesIn(w.view, w.inside), TypeOf(w) = "neighbor"
  PROVE  Behind(w) \in Cell /\ containsHostEntity(Behind(w))
<1>1. Behind(w) \in (EntitiesOf(w.view) \cap Cell) \cup {Nothing, Boundary}
  BY HostAssumption DEF FacesAgree, Behind
<1>2. Behind(w) \in EntitiesOf(w.view) \cap Cell /\ contains(w.view, Behind(w))
  BY <1>1 DEF TypeOf
<1>3. CASE w.view = Leaf
  <2>1. Behind(w) \in layout
    BY <1>2, <1>3 DEF contains, Marked
  <2>. QED
    BY <1>2, <2>1, CellsInside
<1>4. CASE w.view # Leaf
  <2>1. Level[Behind(w)] = w.view
    BY <1>2, <1>4, Views
  <2>. QED
    BY <1>2, <2>1 DEF containsHostEntity
<1>. QED
  BY <1>3, <1>4

(* Vertices of a cell are in the subdomain if the cell is.                 *)
LEMMA VerticesInside ==
  ASSUME NEW c \in Cell, containsHostEntity(c), NEW v \in LevelVertices[c]
  PROVE  v \in Vertex /\ containsHostEntity(v)
<1>1. v \in Vertex /\ v \notin Cell /\ Level[v] = Level[c]
  BY HostAssumption
<1>2. Level[c] # Leaf /\ c \in EntitiesOf(Level[c])
  BY HostAssumption, Views DEF EntitiesOf, Leaf
<1>3. Marked(Level[c], c)
  BY DEF containsHostEntity, contains
<1>4. contains(Level[v], v)
  BY <1>1, <1>2, <1>3 DEF contains
<1>. QED
  BY <1>1, <1>4 DEF containsHostEntity
-----------------------------------------------------------------------------
(* The invariant, action by action.                                        *)

LEMMA ViewInit == Init => ViewInv
BY DEF Init, ViewInv, IteratorsInPlace, IntersectionsOwn, WalkStaysInside

(* A step that leaves the layout and the intersection alone.               *)
LEMMA IntersectionsKept ==
  ASSUME IntersectionsOwn, UNCHANGED <<layout, wrapper>>
  PROVE  IntersectionsOwn'
BY LayoutFixed DEF IntersectionsOwn

LEMMA IteratorsKept ==
  ASSUME IteratorsInPlace, UNCHANGED <<layout, iterator>>
  PROVE  IteratorsInPlace'
BY LayoutFixed DEF IteratorsInPlace

(* The caller goes on to an entity that is in the subdomain.               *)
LEMMA HandleInside ==
  ASSUME layout' = layout, NEW e \in Cell \cup Vertex, handle' = {e}, containsHostEntity(e)
  PROVE  handle' \subseteq Cell \cup Vertex /\ WalkStaysInside'
BY LayoutFixed DEF WalkStaysInside

LEMMA BeginStep ==
  ASSUME ViewInv, NEW view \in View \cup {OwnLevel},
         NEW E \in SUBSET (IF view = OwnLevel THEN Cell ELSE EntitiesOf(view)), Begin(view, E)
  PROVE  ViewInv'
<1>1. /\ layout' = layout /\ handle' = {} /\ wrapper' = {}
      /\ iterator' = {[view |-> view, over |-> E, rest |-> NextValid(view, E, Order)]}
  BY DEF Begin
<1>2. /\ NextValid(view, E, Order) \in Seq(Cell \cup Vertex)
      /\ NextValid(view, E, Order) # <<>> => Head(NextValid(view, E, Order)) \in Shown(view, E)
  BY FromFirst, HostAssumption DEF NextValid
<1>3. IteratorsInPlace'
  BY <1>1, <1>2, LayoutFixed DEF IteratorsInPlace
<1>. QED
  BY <1>1, <1>3 DEF ViewInv, IntersectionsOwn, WalkStaysInside

LEMMA DereferenceStep == ViewInv /\ Dereference => ViewInv'
<1>. SUFFICES ASSUME ViewInv, Dereference PROVE ViewInv'
  OBVIOUS
<1>1. PICK i \in iterator : i.rest # <<>> /\ handle' = {Head(i.rest)}
  BY DEF Dereference
<1>2. UNCHANGED <<layout, iterator, wrapper>>
  BY DEF Dereference
<1>3. PICK e : e = Head(i.rest)
  OBVIOUS
<1>4. /\ i.view \in View \cup {OwnLevel} /\ e \in Shown(i.view, i.over)
      /\ i.over \in SUBSET (IF i.view = OwnLevel THEN Cell ELSE EntitiesOf(i.view))
  BY <1>1, <1>3 DEF ViewInv, IteratorsInPlace
<1>5. /\ e \in Cell \cup Vertex
      /\ e \in Cell \/ i.view # Leaf => containsHostEntity(e)
      /\ e \notin Cell /\ i.view = Leaf => e \in LeafVertex
  BY <1>4, ShownInside DEF ViewInv
<1>6. handle' \subseteq Cell \cup Vertex /\ WalkStaysInside'
  BY <1>1, <1>2, <1>3, <1>5, LayoutFixed DEF WalkStaysInside
<1>. QED
  BY <1>2, <1>6, IteratorsKept, IntersectionsKept DEF ViewInv

LEMMA IncrementStep == ViewInv /\ Increment => ViewInv'
<1>. SUFFICES ASSUME ViewInv, Increment PROVE ViewInv'
  OBVIOUS
<1>1. PICK i \in iterator :
        i.rest # <<>> /\ iterator' = {[i EXCEPT !.rest = NextValid(i.view, i.over, Tail(i.rest))]}
  BY DEF Increment
<1>2. UNCHANGED <<layout, wrapper>> /\ handle' = {}
  BY DEF Increment
<1>3. /\ i = [view |-> i.view, over |-> i.over, rest |-> i.rest]
      /\ i.view \in View \cup {OwnLevel}
      /\ i.over \subseteq IF i.view = OwnLevel THEN Cell ELSE EntitiesOf(i.view)
      /\ i.rest \in Seq(Cell \cup Vertex)
  BY DEF ViewInv, IteratorsInPlace
<1>4. Tail(i.rest) \in Seq(Cell \cup Vertex)
  BY <1>1, <1>3, HeadTailProperties
<1>5. PICK rest : rest = NextValid(i.view, i.over, Tail(i.rest))
  OBVIOUS
<1>6. rest \in Seq(Cell \cup Vertex) /\ (rest # <<>> => Head(rest) \in Shown(i.view, i.over))
  BY <1>4, <1>5, FromFirst DEF NextValid
<1>7. iterator' = {[view |-> i.view, over |-> i.over, rest |-> rest]}
  BY <1>1, <1>3, <1>5
<1>8. IteratorsInPlace'
  BY <1>2, <1>3, <1>6, <1>7, LayoutFixed DEF IteratorsInPlace
<1>. QED
  BY <1>2, <1>8, IntersectionsKept DEF ViewInv, WalkStaysInside

LEMMA CellStep ==
  ASSUME ViewInv, NEW c \in Cell, OnCell(c)
  PROVE  ViewInv'
<1>1. handle = {c} /\ containsHostEntity(c)
  BY DEF OnCell, BeginBelow, GoToFather, SubEntity, Intersect, ViewInv, WalkStaysInside
<1>2. CASE BeginBelow(c)
  <2>1. Begin(OwnLevel, Below(c) \ {c})
    BY <1>2 DEF BeginBelow
  <2>2. Below(c) \ {c} \in SUBSET Cell
    BY DEF Below
  <2>3. OwnLevel = OwnLevel /\ OwnLevel \in View \cup {OwnLevel}
    OBVIOUS
  <2>. QED
    BY <2>1, <2>2, <2>3, BeginStep
<1>3. CASE GoToFather(c)
  <2>1. /\ UNCHANGED <<layout, iterator, wrapper>>
        /\ Father[c] \in Cell /\ handle' = {Father[c]}
    BY <1>3, HostAssumption DEF GoToFather
  <2>2. containsHostEntity(Father[c])
    BY <1>1, <2>1, CellsInside
  <2>. QED
    BY <2>1, <2>2, HandleInside, IteratorsKept, IntersectionsKept DEF ViewInv
<1>4. CASE SubEntity(c)
  <2>1. PICK v \in LevelVertices[c] : handle' = {v}
    BY <1>4 DEF SubEntity
  <2>2. UNCHANGED <<layout, iterator, wrapper>>
    BY <1>4 DEF SubEntity
  <2>3. v \in Vertex /\ containsHostEntity(v)
    BY <1>1, VerticesInside
  <2>. QED
    BY <2>1, <2>2, <2>3, HandleInside, IteratorsKept, IntersectionsKept DEF ViewInv
<1>5. ASSUME NEW view \in {Leaf, Level[c]}, Intersect(c, view)
      PROVE  ViewInv'
  <2>1. /\ UNCHANGED <<layout, handle>> /\ iterator' = {}
        /\ c \in EntitiesOf(view)
    BY <1>5 DEF Intersect
  <2>2. PICK f \in DOMAIN FacesIn(view, c) :
          wrapper' = {[view |-> view, inside |-> c, face |-> f, cache |-> Undecided]}
    BY <1>5 DEF Intersect
  <2>3. view \in View
    BY Views
  <2>4. IntersectionsOwn'
    BY <2>1, <2>2, <2>3 DEF IntersectionsOwn, Undecided
  <2>5. handle' \subseteq Cell \cup Vertex /\ WalkStaysInside'
    BY <1>1, <2>1, HandleInside
  <2>. QED
    BY <2>1, <2>4, <2>5 DEF ViewInv, IteratorsInPlace
<1>. QED
  BY <1>2, <1>3, <1>4, <1>5 DEF OnCell

(* Asking an intersection for its type makes it know its own.              *)
LEMMA TestedOwn ==
  ASSUME ViewInv, layout' = layout, NEW w \in wrapper, wrapper' = {Tested(w)}
  PROVE  /\ IntersectionsOwn'
         /\ ~w.cache.outdated => Tested(w).cache.type = TypeOf(w)
<1>1. /\ w = [view |-> w.view, inside |-> w.inside, face |-> w.face,
              cache |-> [tested |-> w.cache.tested, type |-> w.cache.type,
                         outdated |-> w.cache.outdated]]
      /\ w.view \in View /\ w.inside \in EntitiesOf(w.view) \cap Cell
      /\ w.face \in DOMAIN FacesIn(w.view, w.inside)
      /\ w.cache.tested /\ ~w.cache.outdated => w.cache.type = TypeOf(w)
  BY DEF ViewInv, IntersectionsOwn
<1>2. CASE w.cache.tested
  <2>1. Tested(w) = w
    BY <1>2 DEF Tested
  <2>2. IntersectionsOwn'
    BY <1>1, <2>1, LayoutFixed DEF IntersectionsOwn
  <2>. QED
    BY <1>1, <1>2, <2>1, <2>2
<1>3. CASE ~w.cache.tested
  <2>1. PICK k : k = TypeOf(w)
    OBVIOUS
  <2>2. PICK u : u = [view |-> w.view, inside |-> w.inside, face |-> w.face,
                      cache |-> [tested |-> TRUE, type |-> k, outdated |-> FALSE]]
    OBVIOUS
  <2>3. Tested(w) = u
    <3>1. Tested(w) = [w EXCEPT !.cache = [tested |-> TRUE, type |-> k, outdated |-> FALSE]]
      BY <1>3, <2>1 DEF Tested
    <3>. QED
      BY <1>1, <2>2, <3>1
  <2>4. TypeOf(u) = k
    <3>1. Behind(u) = Behind(w) /\ u.view = w.view
      BY <2>2 DEF Behind
    <3>. QED
      BY <2>1, <3>1 DEF TypeOf
  <2>5. TypeOf(u)' = u.cache.type
    BY <2>2, <2>4, LayoutFixed
  <2>6. u = [view |-> u.view, inside |-> u.inside, face |-> u.face,
             cache |-> [tested |-> u.cache.tested, type |-> u.cache.type,
                        outdated |-> u.cache.outdated]]
    BY <2>2
  <2>7. u.view = w.view /\ u.inside = w.inside /\ u.face = w.face
    BY <2>2
  <2>8. wrapper' = {u}
    BY <2>3
  <2>9. IntersectionsOwn'
    BY <1>1, <2>5, <2>6, <2>7, <2>8 DEF IntersectionsOwn
  <2>. QED
    BY <2>1, <2>2, <2>3, <2>9
<1>. QED
  BY <1>2, <1>3

LEMMA CheckStep == ViewInv /\ CheckIntersectionType => ViewInv'
<1>. SUFFICES ASSUME ViewInv, CheckIntersectionType PROVE ViewInv'
  OBVIOUS
<1>1. PICK w \in wrapper : wrapper' = {Tested(w)}
  BY DEF CheckIntersectionType
<1>2. UNCHANGED <<layout, iterator, handle>>
  BY DEF CheckIntersectionType
<1>3. WalkStaysInside'
  BY <1>2, LayoutFixed DEF ViewInv, WalkStaysInside
<1>. QED
  BY <1>1, <1>2, <1>3, TestedOwn, IteratorsKept DEF ViewInv

LEMMA OutsideStep == ViewInv /\ Outside => ViewInv'
<1>. SUFFICES ASSUME ViewInv, Outside PROVE ViewInv'
  OBVIOUS
<1>1. PICK w \in wrapper : /\ Tested(w).cache.type = "neighbor" /\ ~w.cache.outdated
                           /\ wrapper' = {Tested(w)} /\ handle' = {Behind(w)}
  BY DEF Outside
<1>2. UNCHANGED <<layout, iterator>>
  BY DEF Outside
<1>3. IntersectionsOwn' /\ TypeOf(w) = "neighbor"
  BY <1>1, <1>2, TestedOwn
<1>4. Behind(w) \in Cell /\ containsHostEntity(Behind(w))
  BY <1>3, NeighborInside DEF ViewInv, IntersectionsOwn
<1>. QED
  BY <1>1, <1>2, <1>3, <1>4, HandleInside, IteratorsKept DEF ViewInv

LEMMA UpdateStep == ViewInv /\ UpdateSubDomains => ViewInv'
<1>. SUFFICES ASSUME ViewInv, UpdateSubDomains PROVE ViewInv'
  OBVIOUS
<1>1. /\ layout' \subseteq LeafCell /\ iterator' = {} /\ handle' = {}
      /\ wrapper' = {[w EXCEPT !.cache.outdated = w.cache.tested] : w \in wrapper}
  BY DEF UpdateSubDomains
<1>2. ASSUME NEW u \in wrapper'
      PROVE  /\ u = [view |-> u.view, inside |-> u.inside, face |-> u.face,
                     cache |-> [tested |-> u.cache.tested, type |-> u.cache.type,
                                outdated |-> u.cache.outdated]]
             /\ u.view \in View /\ u.inside \in EntitiesOf(u.view) \cap Cell
             /\ u.face \in DOMAIN FacesIn(u.view, u.inside)
             /\ u.cache.outdated = u.cache.tested
  <2>1. PICK w \in wrapper : u = [w EXCEPT !.cache.outdated = w.cache.tested]
    BY <1>1
  <2>2. /\ w = [view |-> w.view, inside |-> w.inside, face |-> w.face,
                cache |-> [tested |-> w.cache.tested, type |-> w.cache.type,
                           outdated |-> w.cache.outdated]]
        /\ w.view \in View /\ w.inside \in EntitiesOf(w.view) \cap Cell
        /\ w.face \in DOMAIN FacesIn(w.view, w.inside)
    BY DEF ViewInv, IntersectionsOwn
  <2>3. u = [view |-> w.view, inside |-> w.inside, face |-> w.face,
             cache |-> [tested |-> w.cache.tested, type |-> w.cache.type,
                        outdated |-> w.cache.tested]]
    BY <2>1, <2>2
  <2>. QED
    BY <2>2, <2>3
<1>3. IntersectionsOwn'
  BY <1>2 DEF IntersectionsOwn
<1>. QED
  BY <1>1, <1>3 DEF ViewInv, IteratorsInPlace, WalkStaysInside

LEMMA ViewStep == ViewInv /\ [Next]_vars => ViewInv'
<1>. SUFFICES ASSUME ViewInv, [Next]_vars PROVE ViewInv'
  OBVIOUS
<1>1. ASSUME NEW view \in View, BeginView(view)
      PROVE  ViewInv'
  <2>1. PICK kind : Begin(view, EntitiesOf(view) \cap kind)
    BY <1>1 DEF BeginView
  <2>2. view # OwnLevel
    BY Views
  <2>. QED
    BY <2>1, <2>2, BeginStep
<1>2. CASE UNCHANGED vars
  <2>1. UNCHANGED <<layout, iterator, handle, wrapper>>
    BY <1>2 DEF vars
  <2>2. WalkStaysInside'
    BY <2>1, LayoutFixed DEF ViewInv, WalkStaysInside
  <2>. QED
    BY <2>1, <2>2, IteratorsKept, IntersectionsKept DEF ViewInv
<1>. QED
  BY <1>1, <1>2, DereferenceStep, IncrementStep, CellStep, CheckStep, OutsideStep, UpdateStep DEF Next
-----------------------------------------------------------------------------
(* What follows from it.                                                   *)

(* In every layout, of whatever the caller holds.                          *)
LEMMA BoundaryRight ==
  ASSUME layout \subseteq LeafCell, NEW c \in LeafCell
  PROVE  hasBoundaryIntersections(c) <=> AtBoundary(c)
<1>1. c \in Cell /\ Level[c] \in View /\ Level[c] # Leaf /\ Leaf \in View
      /\ c \in EntitiesOf(Level[c]) /\ c \in EntitiesOf(Leaf)
  <2>1. c \in Cell /\ Level[c] \in View /\ Level[c] # Leaf
    BY Views
  <2>. QED
    BY <2>1, Views DEF EntitiesOf
<1>2. Boundary \notin Cell /\ Nothing \notin Cell /\ Boundary # Nothing
  BY HostAssumption
<1>3. FacesIn(Leaf, c) = LeafFaces[c] /\ FacesIn(Level[c], c) = LevelFaces[c]
  BY <1>1 DEF FacesIn
<1>4. /\ \A f \in DOMAIN LeafFaces[c] : LeafFaces[c][f] \in Cell \cup {Nothing, Boundary}
      /\ \A f \in DOMAIN LevelFaces[c] : LevelFaces[c][f] \in Cell \cup {Nothing, Boundary}
  BY <1>1, <1>3, HostAssumption DEF FacesAgree
<1>5. ASSUME NEW view \in View, NEW f, FacesIn(view, c)[f] \in Cell \cup {Nothing, Boundary}
      PROVE  TypeOf([view |-> view, inside |-> c, face |-> f]) \in {"boundary", "foreign"} <=>
               \/ FacesIn(view, c)[f] = Boundary
               \/ FacesIn(view, c)[f] \in Cell /\ ~contains(view, FacesIn(view, c)[f])
  <2>1. PICK w : w = [view |-> view, inside |-> c, face |-> f]
    OBVIOUS
  <2>2. Behind(w) = FacesIn(view, c)[f] /\ w.view = view
    BY <2>1 DEF Behind
  <2>3. TypeOf(w) = CASE FacesIn(view, c)[f] = Boundary -> "boundary"
                      [] FacesIn(view, c)[f] = Nothing -> "processor"
                      [] OTHER -> IF contains(view, FacesIn(view, c)[f]) THEN "neighbor" ELSE "foreign"
    BY <2>2, Zenon DEF TypeOf
  <2>. QED
    BY <1>2, <1>5, <2>1, <2>3
<1>6. (\E f \in DOMAIN LeafFaces[c] :
         TypeOf([view |-> Leaf, inside |-> c, face |-> f]) \in {"boundary", "foreign"}) <=> AtBoundary(c)
  <2>1. \A d \in Cell : contains(Leaf, d) <=> d \in layout
    BY DEF contains, Marked
  <2>. QED
    BY <1>1, <1>2, <1>3, <1>4, <1>5, <2>1 DEF AtBoundary
<1>7. ASSUME NEW f \in DOMAIN LevelFaces[c],
             TypeOf([view |-> Level[c], inside |-> c, face |-> f]) \in {"boundary", "foreign"}
      PROVE  AtBoundary(c)
  <2>1. \/ LevelFaces[c][f] = Boundary
        \/ LevelFaces[c][f] \in Cell /\ ~contains(Level[c], LevelFaces[c][f])
    BY <1>1, <1>3, <1>4, <1>5, <1>7
  <2>2. PICK g \in DOMAIN LeafFaces[c] :
          IF LevelFaces[c][f] = Boundary THEN LeafFaces[c][g] = Boundary
          ELSE LeafFaces[c][g] \in Below(LevelFaces[c][f])
    BY <1>2, <2>1, HostAssumption DEF FacesAgree
  <2>3. CASE LevelFaces[c][f] = Boundary
    BY <2>2, <2>3 DEF AtBoundary
  <2>4. CASE LevelFaces[c][f] \in Cell /\ ~contains(Level[c], LevelFaces[c][f])
    <3>1. Below(LevelFaces[c][f]) \cap layout = {}
      BY <1>1, <2>4 DEF contains, Marked
    <3>2. LeafFaces[c][g] \in Below(LevelFaces[c][f]) /\ LeafFaces[c][g] \in Cell
      BY <1>2, <2>2, <2>4 DEF Below
    <3>. QED
      BY <3>1, <3>2 DEF AtBoundary
  <2>. QED
    BY <2>1, <2>3, <2>4
<1>. QED
  BY <1>6, <1>7 DEF hasBoundaryIntersections, LevelOnlyHasBoundary

(* Fathers, neighbours, cells below, vertices of cells and what iterators  *)
(* stand at are in the subdomain as containsHostEntity() of                *)
(* subdomaingrid.hh sees it, whatever walk led there.                      *)
THEOREM WalksAlwaysStayInside == Spec => []WalkStaysInside
<1>1. ViewInv => WalkStaysInside
  BY DEF ViewInv
<1>. QED
  BY <1>1, ViewInit, ViewStep, PTL DEF Spec

(* hasBoundaryIntersections() (entity.hh 311-327), which asks the level    *)
(* view first, answers for a leaf cell what the leaf view shows.           *)
THEOREM BoundaryAlwaysOfLeaves == Spec => []BoundaryOfLeaves
<1>1. ViewInv => BoundaryOfLeaves
  BY BoundaryRight DEF ViewInv, BoundaryOfLeaves
<1>. QED
  BY <1>1, ViewInit, ViewStep, PTL DEF Spec

-----------------------------------------------------------------------------
(* What the iterators pass over.                                           *)

(* The members of a finite set of numbers are numbered by their ranks.     *)
LEMMA Ranks ==
  ASSUME NEW K \in SUBSET Nat, IsFiniteSet(K)
  PROVE  /\ Cardinality(K) \in Nat
         /\ \A k \in K : Cardinality({j \in K : j <= k}) \in 1 .. Cardinality(K)
         /\ \A n \in 1 .. Cardinality(K) : \E k \in K : Cardinality({j \in K : j <= k}) = n
<1> DEFINE UpTo(k) == {j \in K : j <= k}
           rank == [k \in K |-> Cardinality(UpTo(k))]
<1>1. Cardinality(K) \in Nat
  BY FS_CardinalityType
<1>2. ASSUME NEW k \in K
      PROVE  /\ IsFiniteSet(UpTo(k)) /\ Cardinality(UpTo(k)) \in 1 .. Cardinality(K)
  <2>1. IsFiniteSet(UpTo(k)) /\ Cardinality(UpTo(k)) <= Cardinality(K)
    BY FS_Subset
  <2>2. Cardinality(UpTo(k)) \in Nat
    BY <2>1, FS_CardinalityType
  <2>3. k \in UpTo(k)
    BY <1>2
  <2>4. Cardinality(UpTo(k)) # 0
    BY <2>1, <2>3, FS_EmptySet
  <2>. HIDE DEF UpTo
  <2>. QED
    BY <1>1, <2>1, <2>2, <2>4
<1>3. ASSUME NEW j \in K, NEW k \in K, j < k
      PROVE  Cardinality(UpTo(j)) # Cardinality(UpTo(k))
  <2>0. j \in Nat /\ k \in Nat /\ \A i \in K : i \in Nat
    OBVIOUS
  <2>1. UpTo(j) \in SUBSET UpTo(k) /\ k \in UpTo(k) /\ k \notin UpTo(j)
    <3>1. \A i \in K : i <= j => i <= k
      BY <1>3, <2>0
    <3>2. k <= k /\ ~(k <= j)
      BY <1>3, <2>0
    <3>. QED
      BY <3>1, <3>2
  <2>. HIDE DEF UpTo
  <2>. QED
    BY <1>2, <2>1, FS_Subset
<1>4. rank \in Injection(K, 1 .. Cardinality(K))
  <2>. HIDE DEF UpTo
  <2>1. rank \in [K -> 1 .. Cardinality(K)]
    BY <1>2
  <2>2. \A j, k \in K : rank[j] = rank[k] => j = k
    <3>1. \A j, k \in K : j < k \/ k < j \/ j = k
      OBVIOUS
    <3>. QED
      BY <1>3, <3>1
  <2>. QED
    BY <2>1, <2>2 DEF Injection, IsInjective
<1>5. IsFiniteSet(1 .. Cardinality(K)) /\ Cardinality(1 .. Cardinality(K)) = Cardinality(K)
  <2>1. \A n \in Nat : IsFiniteSet(1 .. n) /\ Cardinality(1 .. n) = n
    BY FS_Interval
  <2>. QED
    BY <1>1, <2>1
<1>6. rank \in Surjection(K, 1 .. Cardinality(K))
  BY <1>4, <1>5, FS_Injection
<1>7. \A n \in 1 .. Cardinality(K) : \E k \in K : rank[k] = n
  BY <1>6 DEF Surjection
<1>. QED
  BY <1>1, <1>2, <1>7

(* From() leaves the rest of the sequence from some place on.              *)
LEMMA FromPlace ==
  ASSUME NEW S, NEW rest \in Seq(S), NEW E
  PROVE  \E first \in 1 .. Len(rest) + 1 :
           /\ From(rest, E) = SubSeq(rest, first, Len(rest))
           /\ \A k \in 1 .. first - 1 : rest[k] \notin E
<1> DEFINE places == {k \in DOMAIN rest : rest[k] \in E}
           first == CHOOSE k \in places : \A j \in places : k <= j
<1>1. DOMAIN rest = 1 .. Len(rest) /\ Len(rest) \in Nat
  BY LenProperties
<1>2. CASE places = {}
  <2>1. From(rest, E) = <<>>
    BY <1>2 DEF From
  <2>2. PICK n \in 1 .. Len(rest) + 1 : n = Len(rest) + 1
    BY <1>1
  <2>3. SubSeq(rest, n, Len(rest)) = <<>>
    BY <1>1, <2>2, SubSeqEmpty
  <2>4. \A k \in 1 .. n - 1 : rest[k] \notin E
    BY <1>1, <1>2, <2>2
  <2>. HIDE DEF places, first
  <2>. QED
    BY <2>1, <2>3, <2>4
<1>3. CASE places # {}
  <2>1. places \subseteq Nat
    BY <1>1
  <2>2. first \in places /\ \A j \in places : first <= j
    <3>. HIDE DEF places
    <3>1. \E k \in places : \A j \in places : k <= j
      BY <1>3, <2>1, LeastNatural
    <3>. QED
      BY <3>1
  <2>3. From(rest, E) = SubSeq(rest, first, Len(rest))
    BY <1>3, Zenon DEF From
  <2>4. PICK n : n = first
    OBVIOUS
  <2>5. n \in places /\ (\A j \in places : n <= j) /\ From(rest, E) = SubSeq(rest, n, Len(rest))
    BY <2>2, <2>3, <2>4, Zenon
  <2>. HIDE DEF first
  <2>6. n \in 1 .. Len(rest) /\ \A k \in 1 .. n - 1 : rest[k] \notin E
    BY <1>1, <2>5
  <2>. QED
    BY <1>1, <2>5, <2>6
<1>. QED
  BY <1>2, <1>3

(* Of a rest of the order, it leaves a rest of the order.                  *)
LEMMA RestOfOrder ==
  ASSUME NEW S, NEW order \in Seq(S), NEW b \in 0 .. Len(order), NEW E
  PROVE  \E c \in b .. Len(order) :
           /\ From(SubSeq(order, b + 1, Len(order)), E) = SubSeq(order, c + 1, Len(order))
           /\ Len(SubSeq(order, c + 1, Len(order))) = Len(order) - c
           /\ \A k \in b + 1 .. c : order[k] \notin E
<1>1. Len(order) \in Nat /\ order \in [1 .. Len(order) -> S]
  BY LenProperties
<1>2. PICK rest : rest = SubSeq(order, b + 1, Len(order))
  OBVIOUS
<1>3. \A c \in b .. Len(order) :
        /\ SubSeq(order, c + 1, Len(order)) \in Seq(S)
        /\ Len(SubSeq(order, c + 1, Len(order))) = Len(order) - c
        /\ \A k \in 1 .. Len(order) - c : SubSeq(order, c + 1, Len(order))[k] = order[c + k]
  <2>1. ASSUME NEW c \in b .. Len(order)
        PROVE  /\ SubSeq(order, c + 1, Len(order)) \in Seq(S)
               /\ Len(SubSeq(order, c + 1, Len(order))) = Len(order) - c
               /\ \A k \in 1 .. Len(order) - c : SubSeq(order, c + 1, Len(order))[k] = order[c + k]
    <3>1. \A i \in c + 1 .. Len(order) : order[i] \in S
      BY <1>1
    <3>2. c + 1 \in Int /\ Len(order) \in Int
      BY <1>1
    <3>3. /\ SubSeq(order, c + 1, Len(order)) \in Seq(S)
          /\ Len(SubSeq(order, c + 1, Len(order)))
               = IF c + 1 <= Len(order) THEN Len(order) - (c + 1) + 1 ELSE 0
          /\ \A i \in 1 .. Len(order) - (c + 1) + 1 :
               SubSeq(order, c + 1, Len(order))[i] = order[c + 1 + i - 1]
      BY <3>1, <3>2, SubSeqProperties
    <3>4. c \in Int /\ Len(order) - (c + 1) + 1 = Len(order) - c /\ \A i \in Int : c + 1 + i - 1 = c + i
      BY <1>1
    <3>5. (IF c + 1 <= Len(order) THEN Len(order) - (c + 1) + 1 ELSE 0) = Len(order) - c
      <4>1. PICK n \in Nat : n = Len(order)
        BY <1>1
      <4>2. c \in Int /\ c <= n
        BY <4>1
      <4>3. (IF c + 1 <= n THEN n - (c + 1) + 1 ELSE 0) = n - c
        BY <4>2
      <4>. QED
        BY <4>1, <4>3
    <3>6. \A i \in 1 .. Len(order) - c : SubSeq(order, c + 1, Len(order))[i] = order[c + i]
      BY <3>3, <3>4
    <3>. QED
      BY <3>3, <3>5, <3>6
  <2>. QED
    BY <2>1
<1>4. rest \in Seq(S) /\ Len(rest) = Len(order) - b /\ \A k \in 1 .. Len(order) - b : rest[k] = order[b + k]
  <2>1. b \in b .. Len(order)
    BY <1>1
  <2>. QED
    BY <1>2, <1>3, <2>1
<1>5. PICK first \in 1 .. Len(rest) + 1 : /\ From(rest, E) = SubSeq(rest, first, Len(rest))
                                          /\ \A k \in 1 .. first - 1 : rest[k] \notin E
  BY <1>4, FromPlace
<1>6. PICK c \in b .. Len(order) : c = b + first - 1
  BY <1>1, <1>4
<1>7. SubSeq(rest, first, Len(rest)) = SubSeq(order, c + 1, Len(order))
  <2>1. /\ SubSeq(rest, first, Len(rest)) \in Seq(S)
        /\ Len(SubSeq(rest, first, Len(rest))) = Len(order) - c
        /\ \A k \in 1 .. Len(order) - c : SubSeq(rest, first, Len(rest))[k] = rest[first + k - 1]
    <3>1. \A i \in first .. Len(rest) : rest[i] \in S
      BY <1>1, <1>4
    <3>2. first \in Int /\ Len(rest) \in Int
      BY <1>4
    <3>3. /\ SubSeq(rest, first, Len(rest)) \in Seq(S)
          /\ Len(SubSeq(rest, first, Len(rest)))
               = IF first <= Len(rest) THEN Len(rest) - first + 1 ELSE 0
          /\ \A i \in 1 .. Len(rest) - first + 1 :
               SubSeq(rest, first, Len(rest))[i] = rest[first + i - 1]
      BY <3>1, <3>2, SubSeqProperties
    <3>. QED
      BY <1>1, <1>4, <1>6, <3>3
  <2>2. \A k \in 1 .. Len(order) - c : rest[first + k - 1] = order[c + k]
    <3>1. \A k \in 1 .. Len(order) - c : first + k - 1 \in 1 .. Len(order) - b /\ b + (first + k - 1) = c + k
      BY <1>1, <1>4, <1>6
    <3>. QED
      BY <1>4, <3>1
  <2>. QED
    BY <1>3, <2>1, <2>2, SeqEqual
<1>8. \A k \in b + 1 .. c : order[k] \notin E
  <2>1. ASSUME NEW k \in b + 1 .. c PROVE order[k] \notin E
    <3>1. k - b \in 1 .. first - 1 /\ k - b \in 1 .. Len(order) - b /\ b + (k - b) = k
      BY <1>1, <1>4, <1>6
    <3>. QED
      BY <1>4, <1>5, <3>1
  <2>. QED
    BY <2>1
<1>. QED
  BY <1>2, <1>3, <1>5, <1>6, <1>7, <1>8

(* The places before b at which there is something of D, and a history p   *)
(* of what stands there.                                                   *)
PlacesOf(D, b) == {k \in 1 .. b : Order[k] \in D}

PassedUpTo(D, b, p) ==
  /\ p \in Seq(Cell \cup Vertex)
  /\ Len(p) = Cardinality(PlacesOf(D, b))
  /\ \A k \in PlacesOf(D, b) : p[Cardinality({j \in PlacesOf(D, b) : j <= k})] = Order[k]

LEMMA PlacesRanked ==
  ASSUME NEW D, NEW b \in 0 .. Len(Order)
  PROVE  /\ PlacesOf(D, b) \in SUBSET Nat /\ IsFiniteSet(PlacesOf(D, b))
         /\ Cardinality(PlacesOf(D, b)) \in Nat
         /\ \A k \in PlacesOf(D, b) :
              Cardinality({j \in PlacesOf(D, b) : j <= k}) \in 1 .. Cardinality(PlacesOf(D, b))
         /\ \A n \in 1 .. Cardinality(PlacesOf(D, b)) :
              \E k \in PlacesOf(D, b) : Cardinality({j \in PlacesOf(D, b) : j <= k}) = n
<1>1. b \in Nat
  BY HostAssumption, LenProperties
<1>2. IsFiniteSet(1 .. b)
  BY <1>1, FS_Interval
<1>3. PlacesOf(D, b) \in SUBSET Nat /\ IsFiniteSet(PlacesOf(D, b))
  BY <1>2, FS_Subset DEF PlacesOf
<1>. QED
  BY <1>3, Ranks

LEMMA NothingPassed ==
  ASSUME NEW D, NEW c \in 0 .. Len(Order), \A k \in 1 .. c : Order[k] \notin D
  PROVE  PassedUpTo(D, c, <<>>)
<1>1. PlacesOf(D, c) = {}
  BY DEF PlacesOf
<1>2. <<>> \in Seq(Cell \cup Vertex) /\ Len(<<>>) = 0 /\ Cardinality({}) = 0
  BY EmptySeq, FS_EmptySet
<1>. QED
  BY <1>1, <1>2 DEF PassedUpTo

LEMMA PassedMore ==
  ASSUME NEW D, NEW b \in 0 .. Len(Order), b # Len(Order), NEW c \in b + 1 .. Len(Order),
         NEW p, PassedUpTo(D, b, p), Order[b + 1] \in D,
         \A k \in b + 2 .. c : Order[k] \notin D
  PROVE  PassedUpTo(D, c, Append(p, Order[b + 1]))
<1> DEFINE K == PlacesOf(D, b)
           L == PlacesOf(D, c)
<1>1. /\ Len(Order) \in Nat /\ b \in Nat /\ c \in Nat /\ b + 1 \in 1 .. Len(Order) /\ b < c
      /\ c \in 0 .. Len(Order) /\ Order[b + 1] \in Cell \cup Vertex
  BY HostAssumption, LenProperties
<1>2. L = K \cup {b + 1} /\ b + 1 \notin K
  <2>1. \A k \in 1 .. c : k \in 1 .. b \/ k = b + 1 \/ k \in b + 2 .. c
    BY <1>1
  <2>2. \A k \in 1 .. b : k \in 1 .. c /\ k # b + 1
    BY <1>1
  <2>3. b + 1 \in 1 .. c
    BY <1>1
  <2>. QED
    BY <2>1, <2>2, <2>3 DEF PlacesOf
<1>3. /\ K \in SUBSET Nat /\ IsFiniteSet(K) /\ Cardinality(K) \in Nat
      /\ \A k \in K : Cardinality({j \in K : j <= k}) \in 1 .. Cardinality(K)
  BY PlacesRanked
<1>4. Cardinality(L) = Cardinality(K) + 1
  BY <1>2, <1>3, FS_AddElement
<1>5. p \in Seq(Cell \cup Vertex) /\ Len(p) = Cardinality(K)
      /\ \A k \in K : p[Cardinality({j \in K : j <= k})] = Order[k]
  BY DEF PassedUpTo
<1>6. /\ Append(p, Order[b + 1]) \in Seq(Cell \cup Vertex)
      /\ Len(Append(p, Order[b + 1])) = Len(p) + 1
      /\ \A i \in 1 .. Len(p) : Append(p, Order[b + 1])[i] = p[i]
      /\ Append(p, Order[b + 1])[Len(p) + 1] = Order[b + 1]
  BY <1>1, <1>5, AppendProperties
<1>7. ASSUME NEW k \in L
      PROVE  Append(p, Order[b + 1])[Cardinality({j \in L : j <= k})] = Order[k]
  <2>1. \A j \in K : j \in Nat /\ j <= b
    BY <1>1 DEF PlacesOf
  <2>2. CASE k \in K
    <3>1. {j \in L : j <= k} = {j \in K : j <= k}
      <4>1. ~(b + 1 <= k)
        BY <1>1, <2>1, <2>2
      <4>. HIDE DEF K, L
      <4>. QED
        BY <1>2, <4>1
    <3>. HIDE DEF K, L
    <3>. QED
      BY <1>3, <1>5, <1>6, <2>2, <3>1
  <2>3. CASE k = b + 1
    <3>1. {j \in L : j <= k} = L
      <4>1. \A j \in K : j <= k
        BY <1>1, <2>1, <2>3
      <4>2. k <= k
        BY <1>1, <2>3
      <4>. HIDE DEF K, L
      <4>. QED
        BY <1>2, <2>3, <4>1, <4>2
    <3>. HIDE DEF K, L
    <3>. QED
      BY <1>4, <1>5, <1>6, <2>3, <3>1
  <2>. HIDE DEF K, L
  <2>. QED
    BY <1>2, <2>2, <2>3
<1>. QED
  BY <1>4, <1>5, <1>6, <1>7 DEF PassedUpTo

(* At the end of the order everything that is to be shown has been.        *)
LEMMA PassedAll ==
  ASSUME NEW D \in SUBSET (Cell \cup Vertex), NEW p, PassedUpTo(D, Len(Order), p)
  PROVE  \A e : (\E n \in DOMAIN p : p[n] = e) <=> e \in D
<1>1. DOMAIN Order = 1 .. Len(Order) /\ Len(Order) \in 0 .. Len(Order)
  BY HostAssumption, LenProperties
<1>0. PICK b \in 0 .. Len(Order) : b = Len(Order)
  BY <1>1
<1> DEFINE K == PlacesOf(D, b)
<1>2. /\ \A k \in K : Cardinality({j \in K : j <= k}) \in 1 .. Cardinality(K)
      /\ \A n \in 1 .. Cardinality(K) : \E k \in K : Cardinality({j \in K : j <= k}) = n
  <2>1. K \in SUBSET Nat /\ IsFiniteSet(K)
    BY PlacesRanked
  <2>. HIDE DEF K
  <2>. QED
    BY <2>1, Ranks
<1>3. /\ DOMAIN p = 1 .. Cardinality(K)
      /\ \A k \in K : p[Cardinality({j \in K : j <= k})] = Order[k]
  <2>1. PassedUpTo(D, b, p)
    BY <1>0
  <2>2. p \in Seq(Cell \cup Vertex) /\ Len(p) = Cardinality(K)
        /\ \A k \in K : p[Cardinality({j \in K : j <= k})] = Order[k]
    BY <2>1 DEF PassedUpTo
  <2>. QED
    BY <2>2, LenProperties
<1>4. \A k \in K : Order[k] \in D
  BY DEF PlacesOf
<1>5. \A e \in D : \E k \in K : Order[k] = e
  BY <1>0, <1>1, OrderAssumption DEF PlacesOf
<1>. HIDE DEF K
<1>6. ASSUME NEW n \in DOMAIN p PROVE p[n] \in D
  <2>1. PICK k \in K : Cardinality({j \in K : j <= k}) = n
    BY <1>2, <1>3, <1>6
  <2>. QED
    BY <1>3, <1>4, <2>1
<1>7. ASSUME NEW e \in D PROVE \E n \in DOMAIN p : p[n] = e
  <2>1. PICK k \in K : Order[k] = e
    BY <1>5
  <2>. QED
    BY <1>2, <1>3, <2>1
<1>. QED
  BY <1>6, <1>7

(* The leaf cells that the levels' index sets and the leaf's show.         *)
LEMMA LeavesShown ==
  ASSUME layout \subseteq LeafCell, NEW e \in LeafCell
  PROVE  containsHostEntity(e) <=> contains(Leaf, e)
<1>1. e \in Cell
  BY DEF LeafCell
<1>2. Below(e) \subseteq {e}
  <2> DEFINE others == Below(e) \ {e}
             levels == {Level[d] : d \in others}
  <2>1. Below(e) \subseteq Cell
    BY DEF Below
  <2>2. \A d \in Cell : Level[d] \in Nat
    BY HostAssumption
  <2>3. SUFFICES ASSUME others # {} PROVE FALSE
    OBVIOUS
  <2>4. PICK n \in levels : \A m \in levels : n <= m
    <3>1. levels \subseteq Nat /\ levels # {}
      BY <2>1, <2>2, <2>3
    <3>. HIDE DEF levels
    <3>. QED
      BY <3>1, LeastNatural
  <2>5. PICK d \in others : Level[d] = n
    OBVIOUS
  <2>6. d \in Cell /\ d # e /\ Father[d] \in Cell /\ Father[d] \in Below(e)
    BY <1>1, <2>1, BelowFather
  <2>7. Father[d] # e
    BY <2>6 DEF LeafCell
  <2>8. Level[d] = Level[Father[d]] + 1 /\ Level[Father[d]] \in Nat
    BY <2>2, <2>6, HostAssumption
  <2>9. Level[Father[d]] \in levels
    BY <2>6, <2>7
  <2>10. n <= Level[Father[d]]
    BY <2>4, <2>9
  <2>. HIDE DEF others, levels
  <2>. QED
    BY <2>5, <2>8, <2>10
<1>3. e \in Below(e)
  BY <1>1, BelowFather
<1>4. containsHostEntity(e) <=> Below(e) \cap layout # {}
  BY <1>1, CellsInside
<1>5. contains(Leaf, e) <=> e \in layout
  BY <1>1 DEF contains, Marked
<1>. QED
  BY <1>2, <1>3, <1>4, <1>5

(* The inductive invariant behind IteratorVisits.                          *)
HasPassed(i) ==
  \E b \in 0 .. Len(Order) :
    /\ i.rest = SubSeq(Order, b + 1, Len(Order))
    /\ Len(i.rest) = Len(Order) - b
    /\ PassedUpTo(Shown(i.view, i.over), b, passed)

VisitInv == ViewInv /\ \A i \in iterator : HasPassed(i)

LEMMA VisitStep == VisitInv /\ [Next]_vars => VisitInv'
<1>. SUFFICES ASSUME VisitInv, [Next]_vars PROVE VisitInv'
  OBVIOUS
<1>1. ViewInv'
  BY ViewStep DEF VisitInv
<1>0. Len(Order) \in Nat /\ 0 \in 0 .. Len(Order)
  BY HostAssumption, LenProperties
<1>2. Order \in Seq(Cell \cup Vertex) /\ SubSeq(Order, 1, Len(Order)) = Order
  BY HostAssumption, SubSeqFull
<1>3. ASSUME NEW view, NEW E, Begin(view, E)
      PROVE  VisitInv'
  <2>1. layout' = layout /\ passed' = <<>>
        /\ iterator' = {[view |-> view, over |-> E, rest |-> NextValid(view, E, Order)]}
    BY <1>3 DEF Begin
  <2>2. PICK D : D = Shown(view, E)
    OBVIOUS
  <2>3. PICK c \in 0 .. Len(Order) :
          /\ From(SubSeq(Order, 0 + 1, Len(Order)), D) = SubSeq(Order, c + 1, Len(Order))
          /\ Len(SubSeq(Order, c + 1, Len(Order))) = Len(Order) - c
          /\ \A k \in 0 + 1 .. c : Order[k] \notin D
    BY <1>0, <1>2, RestOfOrder
  <2>4. PICK i : i = [view |-> view, over |-> E, rest |-> SubSeq(Order, c + 1, Len(Order))]
    OBVIOUS
  <2>5. iterator' = {i}
    <3>1. NextValid(view, E, Order) = SubSeq(Order, c + 1, Len(Order))
      <4>1. SubSeq(Order, 0 + 1, Len(Order)) = Order
        BY <1>2
      <4>2. From(Order, D) = SubSeq(Order, c + 1, Len(Order))
        BY <2>3, <4>1, Zenon
      <4>. QED
        BY <2>2, <4>2 DEF NextValid
    <3>. QED
      BY <2>1, <2>4, <3>1
  <2>6. PassedUpTo(D, c, <<>>)
    BY <2>3, NothingPassed
  <2>7. Shown(i.view, i.over)' = D
    BY <2>1, <2>2, <2>4, LayoutFixed
  <2>8. HasPassed(i)'
    BY <2>1, <2>3, <2>4, <2>6, <2>7 DEF HasPassed
  <2>. QED
    BY <1>1, <2>5, <2>8 DEF VisitInv
<1>4. CASE Increment
  <2>1. PICK i \in iterator :
          /\ i.rest # <<>>
          /\ iterator' = {[i EXCEPT !.rest = NextValid(i.view, i.over, Tail(i.rest))]}
          /\ passed' = Append(passed, Head(i.rest))
    BY <1>4 DEF Increment
  <2>2. layout' = layout
    BY <1>4 DEF Increment
  <2>3. PICK D : D = Shown(i.view, i.over)
    OBVIOUS
  <2>4. /\ i = [view |-> i.view, over |-> i.over, rest |-> i.rest]
        /\ i.rest \in Seq(Cell \cup Vertex) /\ Head(i.rest) \in D
    BY <2>1, <2>3 DEF VisitInv, ViewInv, IteratorsInPlace
  <2>5. PICK b \in 0 .. Len(Order) :
          /\ i.rest = SubSeq(Order, b + 1, Len(Order)) /\ Len(i.rest) = Len(Order) - b
          /\ PassedUpTo(D, b, passed)
    BY <2>3 DEF VisitInv, HasPassed
  <2>6. b # Len(Order) /\ b \in Int
    <3>1. Len(i.rest) # 0
      BY <2>1, <2>4, EmptySeq
    <3>. QED
      BY <1>0, <2>5, <3>1
  <2>7. PICK a \in 0 .. Len(Order) : a = b + 1 /\ a \in 1 .. Len(Order)
    BY <1>0, <2>6
  <2>8. Head(i.rest) = Order[b + 1] /\ Tail(i.rest) = SubSeq(Order, a + 1, Len(Order))
    <3>1. a \in 1 .. Len(Order) /\ Len(Order) \in a .. Len(Order)
      BY <1>0, <2>7
    <3>. QED
      BY <1>2, <2>5, <2>7, <3>1, HeadTailOfSubSeq
  <2>9. PICK c \in a .. Len(Order) :
          /\ From(SubSeq(Order, a + 1, Len(Order)), D) = SubSeq(Order, c + 1, Len(Order))
          /\ Len(SubSeq(Order, c + 1, Len(Order))) = Len(Order) - c
          /\ \A k \in a + 1 .. c : Order[k] \notin D
    BY <1>0, <1>2, RestOfOrder
  <2>10. PassedUpTo(D, c, Append(passed, Order[b + 1]))
    <3>1. c \in b + 1 .. Len(Order) /\ \A k \in b + 2 .. c : Order[k] \notin D
      BY <1>0, <2>6, <2>7, <2>9
    <3>. QED
      BY <2>4, <2>5, <2>6, <2>8, <3>1, PassedMore
  <2>11. PICK j : j = [view |-> i.view, over |-> i.over, rest |-> SubSeq(Order, c + 1, Len(Order))]
    OBVIOUS
  <2>12. iterator' = {j}
    <3>1. NextValid(i.view, i.over, Tail(i.rest)) = SubSeq(Order, c + 1, Len(Order))
      BY <2>3, <2>8, <2>9 DEF NextValid
    <3>2. PICK rest : rest = SubSeq(Order, c + 1, Len(Order))
      OBVIOUS
    <3>3. j = [view |-> i.view, over |-> i.over, rest |-> rest]
      BY <2>11, <3>2, Zenon
    <3>4. i = [view |-> i.view, over |-> i.over, rest |-> i.rest]
      BY <2>4
    <3>5. [i EXCEPT !.rest = rest] = [view |-> i.view, over |-> i.over, rest |-> rest]
      BY <3>4
    <3>. QED
      BY <2>1, <3>1, <3>2, <3>3, <3>5
  <2>13. Shown(j.view, j.over)' = D
    BY <2>2, <2>3, <2>11, LayoutFixed
  <2>14. c \in 0 .. Len(Order)
    BY <1>0, <2>7
  <2>15. HasPassed(j)'
    BY <2>1, <2>8, <2>9, <2>10, <2>11, <2>13, <2>14 DEF HasPassed
  <2>. QED
    BY <1>1, <2>12, <2>15 DEF VisitInv
<1>5. ASSUME UNCHANGED <<layout, iterator, passed>>
      PROVE  VisitInv'
  <2>1. \A i \in iterator : HasPassed(i)'
    BY <1>5, LayoutFixed DEF VisitInv, HasPassed
  <2>. QED
    BY <1>1, <1>5, <2>1 DEF VisitInv
<1>6. ASSUME iterator' = {}
      PROVE  VisitInv'
  BY <1>1, <1>6 DEF VisitInv
<1>7. ASSUME NEW view, BeginView(view)
      PROVE  VisitInv'
  BY <1>3, <1>7 DEF BeginView
<1>8. ASSUME NEW c, OnCell(c)
      PROVE  VisitInv'
  <2>1. CASE BeginBelow(c)
    BY <1>3, <2>1 DEF BeginBelow
  <2>2. CASE GoToFather(c) \/ SubEntity(c)
    BY <1>5, <2>2 DEF GoToFather, SubEntity
  <2>3. ASSUME NEW view, Intersect(c, view) PROVE VisitInv'
    BY <1>6, <2>3 DEF Intersect
  <2>. QED
    BY <1>8, <2>1, <2>2, <2>3 DEF OnCell
<1>9. CASE Dereference
  BY <1>5, <1>9 DEF Dereference
<1>10. CASE CheckIntersectionType
  BY <1>5, <1>10 DEF CheckIntersectionType
<1>11. CASE Outside
  BY <1>5, <1>11 DEF Outside
<1>12. CASE UpdateSubDomains
  BY <1>6, <1>12 DEF UpdateSubDomains
<1>13. CASE UNCHANGED vars
  BY <1>5, <1>13 DEF vars
<1>. QED
  BY <1>4, <1>7, <1>8, <1>9, <1>10, <1>11, <1>12, <1>13 DEF Next

LEMMA VisitsRight == VisitInv => IteratorVisits
<1>. SUFFICES ASSUME VisitInv, NEW i \in iterator
     PROVE  LET before == Len(Order) - Len(i.rest)
                shown == {k \in 1 .. before : Order[k] \in Shown(i.view, i.over)}
            IN  /\ i.rest = SubSeq(Order, before + 1, Len(Order))
                /\ i.rest # <<>> => Head(i.rest) \in Shown(i.view, i.over)
                /\ Len(passed) = Cardinality(shown)
                /\ \A k \in shown : passed[Cardinality({j \in shown : j <= k})] = Order[k]
                /\ i.view = OwnLevel /\ i.rest = <<>> =>
                     {e \in LeafCell : \E k \in DOMAIN passed : passed[k] = e}
                       = {e \in LeafCell \cap i.over : contains(Leaf, e)}
  BY DEF IteratorVisits
<1>1. PICK D : D = Shown(i.view, i.over)
  OBVIOUS
<1>2. PICK b \in 0 .. Len(Order) :
        /\ i.rest = SubSeq(Order, b + 1, Len(Order)) /\ Len(i.rest) = Len(Order) - b
        /\ PassedUpTo(D, b, passed)
  BY <1>1 DEF VisitInv, HasPassed
<1>3. Len(Order) \in Nat /\ b \in Int
  BY HostAssumption, LenProperties
<1>4. Len(Order) - Len(i.rest) = b
  BY <1>2, <1>3
<1>5. /\ i.rest # <<>> => Head(i.rest) \in D
      /\ i.over \subseteq IF i.view = OwnLevel THEN Cell ELSE EntitiesOf(i.view)
      /\ layout \subseteq LeafCell
  BY <1>1 DEF VisitInv, ViewInv, IteratorsInPlace
<1>6. /\ Len(passed) = Cardinality(PlacesOf(D, b))
      /\ \A k \in PlacesOf(D, b) : passed[Cardinality({j \in PlacesOf(D, b) : j <= k})] = Order[k]
  BY <1>2 DEF PassedUpTo
<1>7. ASSUME i.view = OwnLevel, i.rest = <<>>
      PROVE  {e \in LeafCell : \E k \in DOMAIN passed : passed[k] = e}
               = {e \in LeafCell \cap i.over : contains(Leaf, e)}
  <2>1. b = Len(Order)
    <3>1. Len(i.rest) = 0
      BY <1>7
    <3>. QED
      BY <1>2, <1>3, <3>1
  <2>2. D \in SUBSET (Cell \cup Vertex)
    BY <1>1, <1>5, <1>7 DEF Shown
  <2>3. \A e : (\E n \in DOMAIN passed : passed[n] = e) <=> e \in D
    BY <1>2, <2>1, <2>2, PassedAll
  <2>4. \A e \in LeafCell : e \in D <=> e \in i.over /\ contains(Leaf, e)
    BY <1>1, <1>5, <1>7, LeavesShown DEF Shown, Shows
  <2>. QED
    BY <2>3, <2>4
<1>8. PlacesOf(D, b) = {k \in 1 .. b : Order[k] \in Shown(i.view, i.over)}
  BY <1>1 DEF PlacesOf
<1>. QED
  BY <1>1, <1>2, <1>4, <1>5, <1>6, <1>7, <1>8

(* The iterators of subdomaingrid/ (iterator.hh incrementToNextValid-      *)
(* Position(), leafiterator.hh, hierarchiciterator.hh) pass every entity   *)
(* to be shown once, in the host's order and no other, on any host grid,   *)
(* in any view and below any cell.                                         *)
THEOREM IteratorsAlwaysVisit == Spec => []IteratorVisits
<1>1. Init => VisitInv
  BY ViewInit DEF Init, VisitInv
<1>. QED
  BY <1>1, VisitStep, VisitsRight, PTL DEF Spec
-----------------------------------------------------------------------------
(* The mapper that numbers the entities of a subdomain.                    *)
CONSTANTS dimension, TypeCount, CodimOf, Layout, SubDomainCount, Traits, Sizes
VARIABLES size, _offsets, stale

Mapper == INSTANCE MultiDomainMCMGMapper

(* The partial sums of a function exist.                                   *)
SumUpTo(f, m, g) ==
  g \in [1 .. m -> Nat] /\ g[1] = f[1] /\ \A k \in 2 .. m : g[k] = g[k - 1] + f[k]

LEMMA SumsExist ==
  ASSUME NEW n \in Nat \ {0}, NEW f \in [1 .. n -> Nat]
  PROVE  \E g : SumUpTo(f, n, g)
<1> DEFINE S == {m \in Nat : m # 0 /\ m <= n /\ ~ \E g : SumUpTo(f, m, g)}
<1>0. n \in Nat /\ n # 0 /\ n <= n
  OBVIOUS
<1>1. SUFFICES ASSUME S # {} PROVE FALSE
  BY <1>0, Zenon
<1>2. PICK m \in S : \A j \in S : m <= j
  <2>1. S \in SUBSET Nat
    OBVIOUS
  <2>. HIDE DEF S
  <2>. QED
    BY <1>1, <2>1, LeastNatural
<1>3. m \in Nat /\ m # 0 /\ m <= n /\ ~ \E g : SumUpTo(f, m, g)
  OBVIOUS
<1>4. CASE m = 1
  <2>1. PICK g : g = [k \in 1 .. 1 |-> f[1]]
    OBVIOUS
  <2>2. f[1] \in Nat
    BY <1>3, <1>4
  <2>3. SumUpTo(f, 1, g)
    BY <2>1, <2>2 DEF SumUpTo
  <2>. QED
    BY <1>3, <1>4, <2>3
<1>5. CASE m # 1
  <2>1. PICK j \in Nat : j = m - 1 /\ j # 0 /\ j <= n /\ j < m
    BY <1>3, <1>5
  <2>2. j \notin S
    BY <1>2, <1>3, <2>1
  <2>3. PICK h : SumUpTo(f, j, h)
    BY <2>1, <2>2
  <2>4. h \in [1 .. j -> Nat] /\ h[1] = f[1] /\ \A k \in 2 .. j : h[k] = h[k - 1] + f[k]
    BY <2>3 DEF SumUpTo
  <2>5. f[m] \in Nat /\ h[j] \in Nat
    <3>1. m \in 1 .. n /\ j \in 1 .. j
      BY <1>3, <2>1
    <3>. QED
      BY <2>4, <3>1
  <2>6. PICK top \in Nat : top = h[j] + f[m]
    BY <2>5
  <2>7. PICK g : g = [k \in 1 .. m |-> IF k = m THEN top ELSE h[k]]
    OBVIOUS
  <2>8. \A k \in 1 .. m : k # m => k \in 1 .. j
    BY <1>3, <2>1
  <2>9. g \in [1 .. m -> Nat]
    BY <2>4, <2>6, <2>7, <2>8
  <2>10. g[1] = f[1]
    BY <1>3, <1>5, <2>4, <2>7
  <2>11. ASSUME NEW k \in 2 .. m PROVE g[k] = g[k - 1] + f[k]
    <3>1. k - 1 \in 1 .. m /\ k - 1 # m /\ k \in 1 .. m
      BY <1>3
    <3>2. CASE k = m
      BY <2>1, <2>6, <2>7, <3>1, <3>2
    <3>3. CASE k # m
      <4>1. k \in 2 .. j
        BY <1>3, <2>1, <3>3
      <4>. QED
        BY <2>4, <2>7, <3>1, <3>3, <4>1
    <3>. QED
      BY <3>2, <3>3
  <2>12. SumUpTo(f, m, g)
    BY <2>9, <2>10, <2>11 DEF SumUpTo
  <2>. QED
    BY <1>3, <2>12
<1>. QED
  BY <1>4, <1>5

LEMMA PartialSums ==
  ASSUME Mapper!MapperAssumption, NEW f \in [Mapper!Place -> Nat]
  PROVE  SumUpTo(f, TypeCount + 1, Mapper!PartialSum(f))
<1> DEFINE Turn(g) == [k \in Mapper!Place |-> IF k = 1 THEN f[1] ELSE g[k - 1] + f[k]]
           sum == CHOOSE g : g = Turn(g)
<1>1. TypeCount \in Nat /\ Mapper!Place = 1 .. TypeCount + 1
  BY DEF Mapper!MapperAssumption, Mapper!Place
<1>2. PICK n \in Nat \ {0} : n = TypeCount + 1
  BY <1>1
<1>3. Mapper!Place = 1 .. n /\ f \in [1 .. n -> Nat]
  BY <1>1, <1>2
<1>4. PICK s : SumUpTo(f, n, s)
  BY <1>3, SumsExist
<1>5. s = Turn(s)
  <2>1. s \in [1 .. n -> Nat] /\ s[1] = f[1] /\ \A k \in 2 .. n : s[k] = s[k - 1] + f[k]
    BY <1>4 DEF SumUpTo
  <2>2. \A k \in 1 .. n : k # 1 => k \in 2 .. n
    BY <1>2
  <2>3. \A k \in 1 .. n : s[k] = IF k = 1 THEN f[1] ELSE s[k - 1] + f[k]
    BY <2>1, <2>2
  <2>. QED
    BY <1>3, <2>1, <2>3
<1>6. sum = Turn(sum)
  BY <1>5, Zenon
<1>7. Mapper!PartialSum(f) = sum
  BY Zenon DEF Mapper!PartialSum
<1>. HIDE DEF sum, Turn
<1>8. PICK g : g = sum /\ g = Turn(g)
  BY <1>6
<1>9. g = [k \in 1 .. n |-> IF k = 1 THEN f[1] ELSE g[k - 1] + f[k]]
  BY <1>3, <1>8, Zenon DEF Turn
<1>10. g[1] = f[1] /\ \A k \in 2 .. n : g[k] = g[k - 1] + f[k]
  <2>1. 1 \in 1 .. n /\ \A k \in 2 .. n : k \in 1 .. n /\ k # 1
    BY <1>2
  <2>2. \A k \in 1 .. n : g[k] = IF k = 1 THEN f[1] ELSE g[k - 1] + f[k]
    BY <1>9, Zenon
  <2>. QED
    BY <2>1, <2>2
<1>11. \A k \in 1 .. n : g[k] \in Nat
  <2> DEFINE S == {k \in 1 .. n : g[k] \notin Nat}
  <2>1. SUFFICES ASSUME S # {} PROVE FALSE
    OBVIOUS
  <2>2. PICK k \in S : \A j \in S : k <= j
    <3>1. S \in SUBSET Nat
      BY <1>2
    <3>. HIDE DEF S
    <3>. QED
      BY <2>1, <3>1, LeastNatural
  <2>3. k \in 1 .. n /\ g[k] \notin Nat
    OBVIOUS
  <2>4. f[1] \in Nat /\ f[k] \in Nat
    BY <1>2, <1>3, <2>3
  <2>5. k # 1 /\ k \in 2 .. n /\ k - 1 \in 1 .. n /\ ~(k <= k - 1)
    BY <1>2, <1>10, <2>3, <2>4
  <2>6. g[k - 1] \in Nat
    BY <2>2, <2>5
  <2>. HIDE DEF S
  <2>. QED
    BY <1>10, <2>3, <2>4, <2>5, <2>6
<1>12. g \in [1 .. n -> Nat]
  <2>1. g = [k \in 1 .. n |-> g[k]]
    BY <1>9, Zenon
  <2>. QED
    BY <1>11, <2>1
<1>. QED
  BY <1>2, <1>7, <1>8, <1>10, <1>12 DEF SumUpTo

(* Partial sums of natural numbers do not decrease.                        *)
LEMMA SumsGrow ==
  ASSUME NEW n \in Nat, NEW g \in [1 .. n -> Nat], \A k \in 2 .. n : g[k - 1] <= g[k],
         NEW i \in 1 .. n, NEW j \in i .. n
  PROVE  g[i] <= g[j]
<1> DEFINE S == {k \in i .. n : ~(g[i] <= g[k])}
<1>1. SUFFICES ASSUME S # {} PROVE FALSE
  OBVIOUS
<1>2. PICK k \in S : \A m \in S : k <= m
  <2>1. S \in SUBSET Nat
    OBVIOUS
  <2>. HIDE DEF S
  <2>. QED
    BY <1>1, <2>1, LeastNatural
<1>3. k \in i .. n /\ ~(g[i] <= g[k]) /\ i \in Nat /\ g[i] \in Nat /\ g[k] \in Nat /\ k \in Nat
  OBVIOUS
<1>4. k # i
  BY <1>3
<1>5. k - 1 \in i .. n /\ k \in 2 .. n /\ k - 1 \in 1 .. n /\ ~(k <= k - 1)
  BY <1>3, <1>4
<1>6. g[i] <= g[k - 1]
  BY <1>2, <1>5
<1>7. g[k - 1] <= g[k] /\ g[k - 1] \in Nat
  BY <1>5
<1>. HIDE DEF S
<1>. QED
  BY <1>3, <1>6, <1>7

(* What the loop over the codimensions has established after codimension  *)
(* cc: the types of the codimensions so far have their room.               *)
RoomUpTo(n, cc, g) ==
  /\ g \in [1 .. TypeCount + 1 -> Nat]
  /\ \A k \in 2 .. TypeCount + 1 : g[k - 1] <= g[k]
  /\ \A t \in 1 .. TypeCount : CodimOf[t] <= cc => g[t] + n[t] <= g[t + 1]

(* The vector that the turn for cc sums up, after g.                       *)
Summand(n, cc, g) ==
  [k \in Mapper!Place |-> IF k > 1 /\ CodimOf[k - 1] = cc THEN n[k - 1] ELSE g[k]]

LEMMA RoomGrows ==
  ASSUME Mapper!MapperAssumption, NEW n \in [1 .. TypeCount -> Nat], NEW cc \in 0 .. dimension,
         NEW g, RoomUpTo(n, cc - 1, g)
  PROVE  RoomUpTo(n, cc, Mapper!PartialSum(Summand(n, cc, g)))
<1>1. /\ TypeCount \in Nat /\ Mapper!Place = 1 .. TypeCount + 1
      /\ \A t \in 1 .. TypeCount : CodimOf[t] \in Nat
  BY DEF Mapper!MapperAssumption, Mapper!Place, Mapper!GeometryType
<1>2. PICK N \in Nat : N = TypeCount + 1 /\ TypeCount = N - 1
  BY <1>1
<1>3. PICK f : f = Summand(n, cc, g)
  OBVIOUS
<1>4. g \in [1 .. N -> Nat] /\ \A t \in 1 .. N - 1 : CodimOf[t] <= cc - 1 => g[t] + n[t] <= g[t + 1]
  BY <1>2 DEF RoomUpTo
<1>5. \A k \in 1 .. N : k > 1 => k - 1 \in 1 .. N - 1 /\ k - 1 \in 1 .. TypeCount
  BY <1>2
<1>6. \A k \in 1 .. N : f[k] = IF k > 1 /\ CodimOf[k - 1] = cc THEN n[k - 1] ELSE g[k]
  BY <1>1, <1>2, <1>3 DEF Summand
<1>7. f \in [1 .. N -> Nat]
  <2>1. \A k \in 1 .. N : (IF k > 1 /\ CodimOf[k - 1] = cc THEN n[k - 1] ELSE g[k]) \in Nat
    BY <1>4, <1>5
  <2>2. f = [k \in 1 .. N |-> IF k > 1 /\ CodimOf[k - 1] = cc THEN n[k - 1] ELSE g[k]]
    BY <1>1, <1>2, <1>3, Zenon DEF Summand
  <2>. QED
    BY <2>1, <2>2
<1>8. PICK h : h = Mapper!PartialSum(f)
  OBVIOUS
<1>9. h \in [1 .. N -> Nat] /\ \A k \in 2 .. N : h[k] = h[k - 1] + f[k]
  <2>1. SumUpTo(f, TypeCount + 1, h)
    BY <1>1, <1>2, <1>7, <1>8, PartialSums
  <2>. QED
    BY <1>2, <2>1 DEF SumUpTo
<1>10. \A k \in 2 .. N : h[k - 1] <= h[k]
  <2>1. ASSUME NEW k \in 2 .. N PROVE h[k - 1] <= h[k]
    <3>1. k \in 1 .. N /\ k - 1 \in 1 .. N
      BY <1>2
    <3>2. h[k - 1] \in Nat /\ f[k] \in Nat /\ h[k] = h[k - 1] + f[k]
      BY <1>7, <1>9, <3>1
    <3>. QED
      BY <3>2
  <2>. QED
    BY <2>1
<1>11. ASSUME NEW t \in 1 .. N - 1, CodimOf[t] <= cc
       PROVE  h[t] + n[t] <= h[t + 1]
  <2>1. PICK k \in 2 .. N : k = t + 1 /\ k - 1 = t /\ k > 1 /\ k \in 1 .. N /\ t \in 1 .. N
    BY <1>2
  <2>2. h[k] = h[t] + f[k] /\ h[t] \in Nat /\ f[k] \in Nat /\ g[t] \in Nat /\ g[k] \in Nat
    BY <1>4, <1>7, <1>9, <2>1
  <2>3. n[t] \in Nat /\ CodimOf[t] \in Nat
    BY <1>1, <1>2
  <2>4. n[t] <= f[k]
    <3>1. CASE CodimOf[t] = cc
      <4>1. f[k] = n[t]
        BY <1>6, <2>1, <3>1
      <4>. QED
        BY <2>3, <4>1
    <3>2. CASE CodimOf[t] # cc
      <4>1. f[k] = g[k]
        BY <1>6, <2>1, <3>2
      <4>2. CodimOf[t] <= cc - 1
        BY <1>11, <2>3, <3>2
      <4>3. g[t] + n[t] <= g[k]
        BY <1>4, <2>1, <4>2
      <4>. QED
        BY <2>2, <2>3, <4>1, <4>3
    <3>. QED
      BY <3>1, <3>2
  <2>. QED
    BY <2>1, <2>2, <2>3, <2>4
<1>. QED
  BY <1>2, <1>3, <1>8, <1>9, <1>10, <1>11 DEF RoomUpTo

(* The turns up to codimension m, as a function.                           *)
TurnsUpTo(n, m, u) ==
  /\ u = [cc \in -1 .. m |-> u[cc]]
  /\ u[-1] = [k \in Mapper!Place |-> 0]
  /\ \A cc \in 0 .. m : u[cc] = Mapper!PartialSum(Summand(n, cc, u[cc - 1]))

LEMMA TurnsExist ==
  ASSUME NEW n, NEW d \in Nat
  PROVE  \E u : TurnsUpTo(n, d, u)
<1> DEFINE S == {m \in Nat : m <= d + 1 /\ ~ \E u : TurnsUpTo(n, m - 1, u)}
<1>1. SUFFICES ASSUME S # {} PROVE FALSE
  <2>1. PICK e \in Nat : e <= d + 1 /\ e - 1 = d
    <3>1. d + 1 \in Nat /\ d + 1 <= d + 1 /\ d + 1 - 1 = d
      OBVIOUS
    <3>. QED
      BY <3>1
  <2>2. e \notin S
    BY <1>1, Zenon
  <2>3. \E u : TurnsUpTo(n, e - 1, u)
    BY <2>1, <2>2, Zenon
  <2>. QED
    BY <2>1, <2>3
<1>2. PICK m \in S : \A j \in S : m <= j
  <2>1. S \in SUBSET Nat
    OBVIOUS
  <2>. HIDE DEF S
  <2>. QED
    BY <1>1, <2>1, LeastNatural
<1>3. m \in Nat /\ m <= d + 1 /\ ~ \E u : TurnsUpTo(n, m - 1, u)
  OBVIOUS
<1>4. CASE m = 0
  <2>1. PICK u : u = [cc \in -1 .. -1 |-> [k \in Mapper!Place |-> 0]]
    OBVIOUS
  <2>2. -1 \in -1 .. -1 /\ ~ \E cc : cc \in 0 .. -1
    OBVIOUS
  <2>3. TurnsUpTo(n, -1, u)
    BY <2>1, <2>2 DEF TurnsUpTo
  <2>. QED
    BY <1>3, <1>4, <2>3
<1>5. CASE m # 0
  <2>1. PICK j \in Nat : j = m - 1 /\ j <= d + 1 /\ j < m
    BY <1>3, <1>5
  <2>2. j \notin S
    BY <1>2, <1>3, <2>1
  <2>3. PICK h : TurnsUpTo(n, j - 1, h)
    BY <2>1, <2>2
  <2>4. PICK top : top = Mapper!PartialSum(Summand(n, j, h[j - 1]))
    OBVIOUS
  <2>5. PICK u : u = [cc \in -1 .. j |-> IF cc = j THEN top ELSE h[cc]]
    OBVIOUS
  <2>6. u = [cc \in -1 .. j |-> u[cc]]
    BY <2>5
  <2>7. u[-1] = [k \in Mapper!Place |-> 0]
    <3>1. -1 \in -1 .. j /\ -1 # j
      BY <2>1
    <3>. QED
      BY <2>3, <2>5, <3>1 DEF TurnsUpTo
  <2>8. ASSUME NEW cc \in 0 .. j PROVE u[cc] = Mapper!PartialSum(Summand(n, cc, u[cc - 1]))
    <3>1. cc - 1 \in -1 .. j /\ cc - 1 # j /\ cc \in -1 .. j
      BY <2>1
    <3>2. u[cc - 1] = h[cc - 1]
      BY <2>5, <3>1
    <3>3. CASE cc = j
      BY <2>4, <2>5, <3>1, <3>2, <3>3
    <3>4. CASE cc # j
      <4>1. cc \in 0 .. j - 1
        BY <2>1, <3>4
      <4>2. h[cc] = Mapper!PartialSum(Summand(n, cc, h[cc - 1]))
        BY <2>3, <4>1, Zenon DEF TurnsUpTo
      <4>. QED
        BY <2>5, <3>1, <3>2, <3>4, <4>2
    <3>. QED
      BY <3>3, <3>4
  <2>9. TurnsUpTo(n, j, u)
    BY <2>6, <2>7, <2>8, Zenon DEF TurnsUpTo
  <2>. QED
    BY <1>3, <2>1, <2>9
<1>. QED
  BY <1>4, <1>5

(* After update() there is room for the entities of every type.            *)
LEMMA RoomForAll ==
  ASSUME Mapper!MapperAssumption, NEW n \in [1 .. TypeCount -> Nat]
  PROVE  RoomUpTo(n, dimension, Mapper!OffsetsAfter(n))
<1> DEFINE Turn(u) ==
             [cc \in -1 .. dimension |->
                IF cc = -1
                THEN [k \in Mapper!Place |-> 0]
                ELSE Mapper!PartialSum([k \in Mapper!Place |->
                       IF k > 1 /\ CodimOf[k - 1] = cc THEN n[k - 1] ELSE u[cc - 1][k]])]
           upTo == CHOOSE u : u = Turn(u)
<1>1. dimension \in Nat /\ TypeCount \in Nat /\ Mapper!Place = 1 .. TypeCount + 1
  BY DEF Mapper!MapperAssumption, Mapper!Place
<1>2. PICK s : TurnsUpTo(n, dimension, s)
  BY <1>1, TurnsExist
<1>3. \A cc, u : Mapper!PartialSum(Summand(n, cc, u[cc - 1]))
                   = Mapper!PartialSum([k \in Mapper!Place |->
                       IF k > 1 /\ CodimOf[k - 1] = cc THEN n[k - 1] ELSE u[cc - 1][k]])
  BY Zenon DEF Summand
<1>4. s = Turn(s)
  <2>1. \A cc \in -1 .. dimension : cc # -1 => cc \in 0 .. dimension
    BY <1>1
  <2>2. \A cc \in -1 .. dimension :
          s[cc] = IF cc = -1
                  THEN [k \in Mapper!Place |-> 0]
                  ELSE Mapper!PartialSum([k \in Mapper!Place |->
                         IF k > 1 /\ CodimOf[k - 1] = cc THEN n[k - 1] ELSE s[cc - 1][k]])
    <3>1. ASSUME NEW cc \in -1 .. dimension, cc # -1
          PROVE  s[cc] = Mapper!PartialSum([k \in Mapper!Place |->
                           IF k > 1 /\ CodimOf[k - 1] = cc THEN n[k - 1] ELSE s[cc - 1][k]])
      <4>1. s[cc] = Mapper!PartialSum(Summand(n, cc, s[cc - 1]))
        BY <1>2, <2>1, <3>1, Zenon DEF TurnsUpTo
      <4>. QED
        BY <1>3, <4>1, Zenon
    <3>2. s[-1] = [k \in Mapper!Place |-> 0]
      BY <1>2, Zenon DEF TurnsUpTo
    <3>. QED
      BY <3>1, <3>2, Zenon
  <2>3. s = [cc \in -1 .. dimension |-> s[cc]]
    BY <1>2, Zenon DEF TurnsUpTo
  <2>. QED
    BY <2>2, <2>3, Zenon
<1>5. upTo = Turn(upTo)
  BY <1>4, Zenon
<1>6. Mapper!OffsetsAfter(n) = upTo[dimension]
  BY Zenon DEF Mapper!OffsetsAfter
<1>. HIDE DEF upTo, Turn
<1>7. PICK u : u = upTo /\ u = Turn(u)
  BY <1>5
<1>8. u[-1] = [k \in Mapper!Place |-> 0]
  <2>1. -1 \in -1 .. dimension
    BY <1>1
  <2>. QED
    BY <1>7, <2>1, Zenon DEF Turn
<1>9. ASSUME NEW cc \in 0 .. dimension
      PROVE  u[cc] = Mapper!PartialSum(Summand(n, cc, u[cc - 1]))
  <2>1. cc \in -1 .. dimension /\ cc # -1
    BY <1>1
  <2>2. u[cc] = Mapper!PartialSum([k \in Mapper!Place |->
                  IF k > 1 /\ CodimOf[k - 1] = cc THEN n[k - 1] ELSE u[cc - 1][k]])
    BY <1>7, <2>1, Zenon DEF Turn
  <2>. QED
    BY <1>3, <2>2, Zenon
<1>10. RoomUpTo(n, -1, u[-1])
  <2>1. \A k \in 1 .. TypeCount + 1 : u[-1][k] = 0
    BY <1>1, <1>8
  <2>2. u[-1] \in [1 .. TypeCount + 1 -> Nat]
    BY <1>1, <1>8
  <2>3. \A k \in 2 .. TypeCount + 1 : k \in 1 .. TypeCount + 1 /\ k - 1 \in 1 .. TypeCount + 1
    BY <1>1
  <2>4. \A t \in 1 .. TypeCount : CodimOf[t] \in Nat
    BY DEF Mapper!MapperAssumption, Mapper!GeometryType
  <2>5. \A t \in 1 .. TypeCount : ~(CodimOf[t] <= -1)
    BY <2>4
  <2>. QED
    BY <2>1, <2>2, <2>3, <2>5 DEF RoomUpTo
<1> DEFINE S == {m \in Nat : m <= dimension + 1 /\ ~RoomUpTo(n, m - 1, u[m - 1])}
<1>11. S = {}
  <2>1. SUFFICES ASSUME S # {} PROVE FALSE
    OBVIOUS
  <2>2. PICK m \in S : \A j \in S : m <= j
    <3>1. S \in SUBSET Nat
      OBVIOUS
    <3>. HIDE DEF S
    <3>. QED
      BY <2>1, <3>1, LeastNatural
  <2>3. m \in Nat /\ m <= dimension + 1 /\ ~RoomUpTo(n, m - 1, u[m - 1])
    OBVIOUS
  <2>4. m # 0
    <3>1. 0 - 1 = -1
      OBVIOUS
    <3>. QED
      BY <1>10, <2>3, <3>1
  <2>5. PICK cc \in 0 .. dimension : cc = m - 1 /\ cc \in Nat /\ cc <= dimension + 1 /\ ~(m <= cc)
    BY <1>1, <2>3, <2>4
  <2>6. RoomUpTo(n, cc - 1, u[cc - 1])
    BY <2>2, <2>5
  <2>7. RoomUpTo(n, cc, u[cc])
    BY <1>9, <2>6, RoomGrows
  <2>. HIDE DEF S
  <2>. QED
    BY <2>3, <2>5, <2>7
<1>12. PICK e \in Nat : e <= dimension + 1 /\ e - 1 = dimension
  <2>1. /\ dimension + 1 \in Nat /\ dimension + 1 <= dimension + 1
        /\ dimension + 1 - 1 = dimension
    BY <1>1
  <2>. QED
    BY <1>1, <2>1
<1>13. RoomUpTo(n, dimension, u[dimension])
  <2>1. e \notin S
    BY <1>11, Zenon
  <2>2. RoomUpTo(n, e - 1, u[e - 1])
    BY <1>12, <2>1, Zenon
  <2>. QED
    BY <1>12, <2>2
<1>. QED
  BY <1>6, <1>7, <1>13, Zenon

(* The offsets of a mapper that has been updated leave room for every type *)
(* of every subdomain it maps.                                             *)
MapperInv ==
  /\ size \in [Mapper!SubDomain -> Sizes]
  /\ ~stale => _offsets = Mapper!UpdatedOffsets(size)

LEMMA MapperInvInit ==
  ASSUME Mapper!Init PROVE MapperInv
BY DEF Mapper!Init, MapperInv

LEMMA MapperInvStep ==
  ASSUME MapperInv, [Mapper!Next]_(Mapper!vars) PROVE MapperInv'
<1>1. CASE Mapper!Update
  BY <1>1 DEF MapperInv, Mapper!Update, Mapper!UpdatedOffsets
<1>2. CASE Mapper!ChangeGrid
  BY <1>2 DEF MapperInv, Mapper!ChangeGrid
<1>3. CASE UNCHANGED Mapper!vars
  BY <1>3 DEF MapperInv, Mapper!vars, Mapper!UpdatedOffsets
<1>. QED
  BY <1>1, <1>2, <1>3 DEF Mapper!Next

(* Two types with room behind their offsets share no index.                *)
LEMMA RoomSeparates ==
  ASSUME Mapper!MapperAssumption, NEW n \in [1 .. TypeCount -> Nat],
         NEW g, RoomUpTo(n, dimension, g), NEW t \in 1 .. TypeCount
  PROVE  /\ g[t] \in Nat /\ n[t] \in Nat
         /\ g[t] + n[t] <= g[TypeCount + 1]
         /\ \A u \in 1 .. TypeCount : t < u => g[t] + n[t] <= g[u]
<1>1. /\ TypeCount \in Nat /\ dimension \in Nat
      /\ \A w \in 1 .. TypeCount : CodimOf[w] \in Nat /\ CodimOf[w] <= dimension
  BY DEF Mapper!MapperAssumption, Mapper!GeometryType
<1>2. PICK N \in Nat : N = TypeCount + 1 /\ TypeCount = N - 1
  BY <1>1
<1>3. g \in [1 .. N -> Nat] /\ \A k \in 2 .. N : g[k - 1] <= g[k]
  BY <1>2 DEF RoomUpTo
<1>4. PICK b \in 1 .. N : b = t + 1 /\ t \in 1 .. N
  BY <1>2
<1>5. g[t] \in Nat /\ g[b] \in Nat /\ n[t] \in Nat
  BY <1>3, <1>4
<1>6. g[t] + n[t] <= g[b]
  BY <1>1, <1>4 DEF RoomUpTo
<1>7. ASSUME NEW u \in b .. N PROVE g[t] + n[t] <= g[u]
  <2>1. u \in 1 .. N
    BY <1>2, <1>4
  <2>2. g[b] <= g[u]
    BY <1>2, <1>3, <1>4, SumsGrow
  <2>3. g[u] \in Nat
    BY <1>3, <2>1
  <2>. QED
    BY <1>5, <1>6, <2>2, <2>3
<1>8. g[t] + n[t] <= g[TypeCount + 1]
  BY <1>2, <1>4, <1>7
<1>9. \A u \in 1 .. TypeCount : t < u => u \in b .. N
  BY <1>1, <1>2, <1>4
<1>. QED
  BY <1>5, <1>7, <1>8, <1>9

LEMMA MapperInvDistinct ==
  ASSUME Mapper!MapperAssumption, MapperInv PROVE Mapper!IndicesDistinct
<1>1. SUFFICES ASSUME ~stale, NEW s \in Mapper!Mapped \cap Mapper!SubDomain
               PROVE  /\ \A e \in Mapper!Contained(s) :
                           Mapper!map(s, e[1], e[2]) \in 0 .. Mapper!mapperSize(s) - 1
                      /\ \A e, f \in Mapper!Contained(s) :
                           Mapper!map(s, e[1], e[2]) = Mapper!map(s, f[1], f[2]) => e = f
  BY DEF Mapper!IndicesDistinct
<1>2. PICK n : n = size[s]
  OBVIOUS
<1>3. PICK g : g = _offsets[s]
  OBVIOUS
<1>4. n \in [1 .. TypeCount -> Nat]
  BY <1>1, <1>2 DEF MapperInv, Mapper!MapperAssumption, Mapper!GeometryType
<1>5. g = Mapper!OffsetsAfter(n)
  BY <1>1, <1>2, <1>3 DEF MapperInv, Mapper!UpdatedOffsets
<1>6. RoomUpTo(n, dimension, g)
  BY <1>4, <1>5, RoomForAll
<1>7. PICK top : top = g[TypeCount + 1]
  OBVIOUS
<1>8. ASSUME NEW t \in 1 .. TypeCount
      PROVE  /\ g[t] \in Nat /\ n[t] \in Nat /\ g[t] + n[t] <= top
             /\ \A u \in 1 .. TypeCount : t < u => g[t] + n[t] <= g[u]
  BY <1>4, <1>6, <1>7, RoomSeparates
<1>9. top \in Nat
  <2>1. TypeCount + 1 \in 1 .. TypeCount + 1
    BY DEF Mapper!MapperAssumption
  <2>. QED
    BY <1>6, <1>7, <2>1 DEF RoomUpTo
<1>10. ASSUME NEW e \in Mapper!Contained(s)
       PROVE  \E t \in 1 .. TypeCount : \E i \in 0 .. n[t] - 1 :
                e = <<t, i>> /\ Mapper!map(s, e[1], e[2]) = i + g[t]
  <2>1. PICK t \in Layout : e \in {<<t, i>> : i \in 0 .. n[t] - 1}
    BY <1>2 DEF Mapper!Contained
  <2>2. PICK i \in 0 .. n[t] - 1 : e = <<t, i>>
    BY <2>1
  <2>3. t \in 1 .. TypeCount
    BY DEF Mapper!MapperAssumption, Mapper!GeometryType
  <2>4. e[1] = t /\ e[2] = i
    BY <2>2
  <2>5. Mapper!map(s, e[1], e[2]) = i + g[t]
    BY <1>3, <2>4 DEF Mapper!map
  <2>. QED
    BY <2>2, <2>3, <2>5
<1>11. ASSUME NEW e \in Mapper!Contained(s)
       PROVE  Mapper!map(s, e[1], e[2]) \in 0 .. Mapper!mapperSize(s) - 1
  <2>1. PICK t \in 1 .. TypeCount : \E i \in 0 .. n[t] - 1 :
               e = <<t, i>> /\ Mapper!map(s, e[1], e[2]) = i + g[t]
    BY <1>10
  <2>2. PICK i \in 0 .. n[t] - 1 : Mapper!map(s, e[1], e[2]) = i + g[t]
    BY <2>1
  <2>3. g[t] \in Nat /\ n[t] \in Nat /\ g[t] + n[t] <= top
    BY <1>8
  <2>4. i + g[t] \in 0 .. top - 1
    BY <1>9, <2>3
  <2>5. Mapper!mapperSize(s) = top
    BY <1>3, <1>7 DEF Mapper!mapperSize
  <2>. QED
    BY <2>2, <2>4, <2>5
<1>12. ASSUME NEW e \in Mapper!Contained(s), NEW f \in Mapper!Contained(s),
              Mapper!map(s, e[1], e[2]) = Mapper!map(s, f[1], f[2])
       PROVE  e = f
  <2>1. PICK t \in 1 .. TypeCount : \E i \in 0 .. n[t] - 1 :
               e = <<t, i>> /\ Mapper!map(s, e[1], e[2]) = i + g[t]
    BY <1>10
  <2>2. PICK i \in 0 .. n[t] - 1 : e = <<t, i>> /\ Mapper!map(s, e[1], e[2]) = i + g[t]
    BY <2>1
  <2>3. PICK u \in 1 .. TypeCount : \E j \in 0 .. n[u] - 1 :
               f = <<u, j>> /\ Mapper!map(s, f[1], f[2]) = j + g[u]
    BY <1>10
  <2>4. PICK j \in 0 .. n[u] - 1 : f = <<u, j>> /\ Mapper!map(s, f[1], f[2]) = j + g[u]
    BY <2>3
  <2>5. i + g[t] = j + g[u]
    BY <1>12, <2>2, <2>4
  <2>6. g[t] \in Nat /\ n[t] \in Nat /\ (t < u => g[t] + n[t] <= g[u])
    BY <1>8
  <2>7. g[u] \in Nat /\ n[u] \in Nat /\ (u < t => g[u] + n[u] <= g[t])
    BY <1>8
  <2>8. t = u /\ i = j
    <3>1. t \in Nat /\ u \in Nat
      OBVIOUS
    <3>2. i \in Nat /\ i < n[t] /\ j \in Nat /\ j < n[u]
      BY <2>6, <2>7
    <3>3. ~(t < u)
      BY <2>5, <2>6, <2>7, <3>2
    <3>4. ~(u < t)
      BY <2>5, <2>6, <2>7, <3>2
    <3>5. t = u
      BY <3>1, <3>3, <3>4
    <3>6. i = j
      BY <2>5, <2>6, <3>2, <3>5
    <3>. QED
      BY <3>5, <3>6
  <2>. QED
    BY <2>2, <2>4, <2>8
<1>. QED
  BY <1>11, <1>12

(* For any geometry types, sizes and layout: after update() a vector of    *)
(* size(s) elements holds data for every entity of the subdomain s, and no *)
(* two of them share an element (update() and map() of the mapper, whose   *)
(* offsets are summed up once per codimension, earlier sizes included).    *)
THEOREM IndicesAlwaysDistinct ==
  ASSUME Mapper!MapperAssumption PROVE Mapper!Spec => []Mapper!IndicesDistinct
<1>1. Mapper!Init => MapperInv
  BY MapperInvInit
<1>2. MapperInv /\ [Mapper!Next]_(Mapper!vars) => MapperInv'
  BY MapperInvStep
<1>3. MapperInv => Mapper!IndicesDistinct
  BY MapperInvDistinct
<1>. QED
  BY <1>1, <1>2, <1>3, PTL DEF Mapper!Spec
=============================================================================
