--------------------------- MODULE IndexSetProofs ---------------------------
(***************************************************************************)
(* The index sets of every host grid, for any subdomains, any number of    *)
(* levels and any order of the host's iterators: they number their         *)
(* entities consecutively through every marking and rebuild, sub-entities  *)
(* follow cells and levels follow leaves, and callers find shared entities *)
(* under one index.  At the end, the sets of subdomains they are kept with *)
(* (ArrayBasedSet, SingleValueSet) implement SubDomainSet.                 *)
(***************************************************************************)
EXTENDS SubDomainIndexSets, HostTreeProofs, FiniteSetTheorems, SequenceTheorems, TLAPS

(***************************************************************************)
(* What updateMapEntry() and index() do for any entities, subdomains and   *)
(* set representation: numbering one more entity keeps the numbers of all  *)
(* others and gives it, in each of its subdomains, the next free number.   *)
(***************************************************************************)
Entries == [Entity -> SUBSET SubDomain]

(* A simple set has one element, which "*domains.begin()" yields.          *)
LEMMA SimpleElement ==
  ASSUME NEW D, SimpleSet(D)
  PROVE  D = {TheElement(D)}
BY DEF SimpleSet, TheElement

(* The slot of a subdomain holds the number put there for it.              *)
LEMMA MultiIndicesAt ==
  ASSUME NEW D \in SUBSET SubDomain, NEW s \in D, NEW g, NEW sizes
  PROVE  MultiIndices(sizes, g, D)[Offset(D, s)] = sizes[g][s]
<1> DEFINE o == Offset(D, s)
           t == CHOOSE x \in D : Offset(D, x) = o
<1>1. o \in Slot
  BY EntryAssumption DEF OffsetAssumption
<1>2. t \in D /\ Offset(D, t) = o
  OBVIOUS
<1>3. t = s
  BY <1>2, EntryAssumption DEF OffsetAssumption
<1>4. MultiIndices(sizes, g, D)[o] = IF \E x \in D : Offset(D, x) = o THEN sizes[g][t] ELSE 0
  BY <1>1 DEF MultiIndices
<1>. QED
  BY <1>3, <1>4

(* reset() leaves a numbering in which nothing is numbered.                *)
LEMMA NoNumbersType ==
  /\ NoNumbers \in Numbering
  /\ \A dom : Consecutive(NoNumbers, dom, {}) /\ Stored(NoNumbers, dom, {})
<1>1. \A k \in Codim : <<>> \in Seq([Slot -> Nat])
  OBVIOUS
<1>. QED
  BY <1>1 DEF NoNumbers, Numbering, Consecutive, Stored

(* The counters after one more entity of type g in the subdomains D.       *)
LEMMA CountInAt ==
  ASSUME NEW sizes \in [GeometryType -> [SubDomain -> Nat]],
         NEW g \in GeometryType, NEW D \in SUBSET SubDomain
  PROVE  /\ CountIn(sizes, g, D) \in [GeometryType -> [SubDomain -> Nat]]
         /\ \A h \in GeometryType, s \in SubDomain :
              CountIn(sizes, g, D)[h][s] =
                IF h = g /\ s \in D THEN sizes[h][s] + 1 ELSE sizes[h][s]
<1> DEFINE row == [s \in SubDomain |-> sizes[g][s] + IF s \in D THEN 1 ELSE 0]
<1>1. row \in [SubDomain -> Nat]
  OBVIOUS
<1>2. CountIn(sizes, g, D) = [sizes EXCEPT ![g] = row]
  BY DEF CountIn
<1> HIDE DEF row
<1>3. CountIn(sizes, g, D) \in [GeometryType -> [SubDomain -> Nat]]
  BY <1>1, <1>2
<1>4. ASSUME NEW h \in GeometryType, NEW s \in SubDomain
      PROVE CountIn(sizes, g, D)[h][s] =
              IF h = g /\ s \in D THEN sizes[h][s] + 1 ELSE sizes[h][s]
  <2>1. CASE h = g
    <3>1. CountIn(sizes, g, D)[h] = row
      BY <1>2, <2>1
    <3>2. row[s] = sizes[g][s] + IF s \in D THEN 1 ELSE 0
      BY DEF row
    <3>3. sizes[g][s] \in Nat
      OBVIOUS
    <3>. QED BY <3>1, <3>2, <3>3, <2>1
  <2>2. CASE h # g
    BY <1>2, <2>2
  <2>. QED BY <2>1, <2>2
<1>. QED
  BY <1>3, <1>4

(* updateMapEntry() case by case.                                          *)
LEMMA UpdateEmpty ==
  ASSUME NEW table, NEW D, NEW e, EmptySet(D)
  PROVE  UpdateMapEntry(table, D, e) = table
BY DEF UpdateMapEntry

LEMMA UpdateSimple ==
  ASSUME NEW table, NEW D, NEW e, SimpleSet(D)
  PROVE  UpdateMapEntry(table, D, e) =
           [index |-> [table.index EXCEPT ![e] = table.sizes[TypeOf[e]][TheElement(D)]],
            sizes |-> CountIn(table.sizes, TypeOf[e], D),
            multi |-> table.multi]
<1>1. ~ EmptySet(D)
  BY DEF EmptySet, SimpleSet
<1>. QED
  BY <1>1 DEF UpdateMapEntry

LEMMA UpdateMultiple ==
  ASSUME NEW table, NEW D, NEW e, Multiple(D)
  PROVE  UpdateMapEntry(table, D, e) =
           [index |-> [table.index EXCEPT ![e] = Len(table.multi[CodimOf[TypeOf[e]]])],
            sizes |-> CountIn(table.sizes, TypeOf[e], D),
            multi |-> [table.multi EXCEPT ![CodimOf[TypeOf[e]]] =
                         Append(@, MultiIndices(table.sizes, TypeOf[e], D))]]
BY DEF UpdateMapEntry, Multiple

LEMMA MultiIndicesType ==
  ASSUME NEW sizes \in [GeometryType -> [SubDomain -> Nat]],
         NEW g \in GeometryType, NEW D \in SUBSET SubDomain
  PROVE  MultiIndices(sizes, g, D) \in [Slot -> Nat]
<1>1. ASSUME NEW o \in Slot, \E s \in D : Offset(D, s) = o
      PROVE  sizes[g][CHOOSE s \in D : Offset(D, s) = o] \in Nat
  BY <1>1
<1>. QED
  BY <1>1 DEF MultiIndices

LEMMA NumberingRecord ==
  ASSUME NEW i \in [Entity -> Nat],
         NEW z \in [GeometryType -> [SubDomain -> Nat]],
         NEW m \in [Codim -> Seq([Slot -> Nat])]
  PROVE  [index |-> i, sizes |-> z, multi |-> m] \in Numbering
BY DEF Numbering

LEMMA UpdateType ==
  ASSUME NEW table \in Numbering, NEW D \in SUBSET SubDomain, NEW e \in Entity
  PROVE  UpdateMapEntry(table, D, e) \in Numbering
<1> DEFINE new == UpdateMapEntry(table, D, e)
           g == TypeOf[e]
           k == CodimOf[g]
<1>1. g \in GeometryType /\ k \in Codim
  BY EntryAssumption DEF Codim
<1>2. /\ table.index \in [Entity -> Nat]
      /\ table.sizes \in [GeometryType -> [SubDomain -> Nat]]
      /\ table.multi \in [Codim -> Seq([Slot -> Nat])]
  BY DEF Numbering
<1>3. CountIn(table.sizes, g, D) \in [GeometryType -> [SubDomain -> Nat]]
  BY <1>1, <1>2, CountInAt
<1>4. MultiIndices(table.sizes, g, D) \in [Slot -> Nat]
  BY <1>1, <1>2, MultiIndicesType
<1>5. CASE EmptySet(D)
  BY <1>5, UpdateEmpty
<1>6. CASE SimpleSet(D)
  <2>1. TheElement(D) \in SubDomain
    BY <1>6, SimpleElement
  <2>2. table.sizes[g][TheElement(D)] \in Nat
    BY <2>1, <1>1, <1>2
  <2>3. [table.index EXCEPT ![e] = table.sizes[g][TheElement(D)]] \in [Entity -> Nat]
    BY <2>2, <1>2
  <2>4. [index |-> [table.index EXCEPT ![e] = table.sizes[g][TheElement(D)]],
         sizes |-> CountIn(table.sizes, g, D), multi |-> table.multi] \in Numbering
    BY <2>3, <1>2, <1>3, NumberingRecord
  <2>. QED
    BY <2>4, <1>6, UpdateSimple
<1>7. CASE Multiple(D)
  <2>1. [table.index EXCEPT ![e] = Len(table.multi[k])] \in [Entity -> Nat]
    BY <1>1, <1>2
  <2>2. Append(table.multi[k], MultiIndices(table.sizes, g, D)) \in Seq([Slot -> Nat])
    BY <1>1, <1>2, <1>4
  <2>3. [table.multi EXCEPT ![k] = Append(@, MultiIndices(table.sizes, g, D))]
          \in [Codim -> Seq([Slot -> Nat])]
    BY <2>2, <1>2
  <2>4. [index |-> [table.index EXCEPT ![e] = Len(table.multi[k])],
         sizes |-> CountIn(table.sizes, g, D),
         multi |-> [table.multi EXCEPT ![k] = Append(@, MultiIndices(table.sizes, g, D))]]
          \in Numbering
    BY <2>1, <2>3, <1>3, NumberingRecord
  <2>. QED
    BY <2>4, <1>7, UpdateMultiple
<1>. QED
  BY <1>5, <1>6, <1>7 DEF Multiple

(* The numbers of all entities numbered before stay what they were.        *)
LEMMA UpdateKeeps ==
  ASSUME NEW table \in Numbering, NEW dom \in Entries, NEW E \in SUBSET Entity,
         NEW e \in Entity, e \notin E, Stored(table, dom, E),
         NEW f \in E, NEW s \in dom[f]
  PROVE  IndexIn(UpdateMapEntry(table, dom[e], e), dom[f], f, s) = IndexIn(table, dom[f], f, s)
<1> DEFINE D == dom[e]
           new == UpdateMapEntry(table, D, e)
           g == TypeOf[e]
           k == CodimOf[g]
           kf == CodimOf[TypeOf[f]]
<1>0. D \in SUBSET SubDomain /\ f # e /\ k \in Codim /\ kf \in Codim
  BY EntryAssumption DEF Entries, Codim
<1>a. EmptySet(D) => new = table
  BY UpdateEmpty
<1>b. ASSUME SimpleSet(D)
      PROVE  /\ new.index = [table.index EXCEPT ![e] = table.sizes[g][TheElement(D)]]
             /\ new.multi = table.multi
  BY <1>b, UpdateSimple
<1>c. ASSUME Multiple(D)
      PROVE  /\ new.index = [table.index EXCEPT ![e] = Len(table.multi[k])]
             /\ new.multi = [table.multi EXCEPT ![k] = Append(@, MultiIndices(table.sizes, g, D))]
  <2>1. new = [index |-> [table.index EXCEPT ![e] = Len(table.multi[k])],
               sizes |-> CountIn(table.sizes, g, D),
               multi |-> [table.multi EXCEPT ![k] = Append(@, MultiIndices(table.sizes, g, D))]]
    BY <1>c, UpdateMultiple
  <2>. HIDE DEF new
  <2>. QED
    BY <2>1
<1> HIDE DEF new, D
<1>1. table.index \in [Entity -> Nat] /\ table.multi \in [Codim -> Seq([Slot -> Nat])]
  BY DEF Numbering
<1>2. new.index[f] = table.index[f]
  BY <1>0, <1>1, <1>a, <1>b, <1>c DEF Multiple
<1>3. CASE SimpleSet(dom[f])
  BY <1>2, <1>3 DEF IndexIn, new, D
<1>4. CASE ~ SimpleSet(dom[f])
  <2>1. table.index[f] + 1 \in 1 .. Len(table.multi[kf])
    <3>1. Multiple(dom[f])
      BY <1>4 DEF Multiple, EmptySet
    <3>2. table.index[f] < Len(table.multi[kf])
      BY <3>1 DEF Stored
    <3>. QED
      BY <3>2, <1>0, <1>1
  <2>2. new.multi[kf][table.index[f] + 1] = table.multi[kf][table.index[f] + 1]
    <3>1. CASE Multiple(D) /\ kf = k
      <4>1. new.multi[k] = Append(table.multi[k], MultiIndices(table.sizes, g, D))
        BY <3>1, <1>0, <1>1, <1>c
      <4>2. table.multi[k] \in Seq([Slot -> Nat])
        BY <1>0, <1>1
      <4>. QED
        BY <4>1, <4>2, <2>1, <3>1
    <3>2. CASE Multiple(D) /\ kf # k
      BY <3>2, <1>0, <1>1, <1>c
    <3>3. CASE ~ Multiple(D)
      BY <3>3, <1>a, <1>b DEF Multiple
    <3>. QED
      BY <3>1, <3>2, <3>3
  <2>. QED
    BY <1>2, <1>4, <2>2 DEF IndexIn, new, D
<1>. QED
  BY <1>3, <1>4

(* The counters advance exactly in the subdomains of the new entity.       *)
LEMMA UpdateSizes ==
  ASSUME NEW table \in Numbering, NEW D \in SUBSET SubDomain, NEW e \in Entity,
         NEW h \in GeometryType, NEW s \in SubDomain
  PROVE  UpdateMapEntry(table, D, e).sizes[h][s] =
           IF h = TypeOf[e] /\ s \in D THEN table.sizes[h][s] + 1 ELSE table.sizes[h][s]
<1>1. TypeOf[e] \in GeometryType /\ table.sizes \in [GeometryType -> [SubDomain -> Nat]]
  BY EntryAssumption DEF Numbering
<1>2. CountIn(table.sizes, TypeOf[e], D)[h][s] =
        IF h = TypeOf[e] /\ s \in D THEN table.sizes[h][s] + 1 ELSE table.sizes[h][s]
  BY <1>1, CountInAt
<1>3. CASE EmptySet(D)
  BY <1>3, UpdateEmpty DEF EmptySet
<1>4. CASE SimpleSet(D)
  <2>1. UpdateMapEntry(table, D, e).sizes = CountIn(table.sizes, TypeOf[e], D)
    BY <1>4, UpdateSimple
  <2>. QED
    BY <2>1, <1>2
<1>5. CASE Multiple(D)
  <2>1. UpdateMapEntry(table, D, e).sizes = CountIn(table.sizes, TypeOf[e], D)
    BY <1>5 DEF UpdateMapEntry, Multiple
  <2>. QED
    BY <2>1, <1>2
<1>. QED
  BY <1>3, <1>4, <1>5 DEF Multiple

(* index() of the new entity is the old counter of the subdomain.          *)
LEMMA UpdateNumbers ==
  ASSUME NEW table \in Numbering, NEW D \in SUBSET SubDomain, NEW e \in Entity,
         NEW s \in D
  PROVE  IndexIn(UpdateMapEntry(table, D, e), D, e, s) = table.sizes[TypeOf[e]][s]
<1> DEFINE g == TypeOf[e]
           k == CodimOf[g]
           new == UpdateMapEntry(table, D, e)
<1>1. /\ g \in GeometryType /\ k \in Codim
      /\ table.index \in [Entity -> Nat] /\ table.multi \in [Codim -> Seq([Slot -> Nat])]
  BY EntryAssumption DEF Codim, Numbering
<1>2. CASE SimpleSet(D)
  <2>1. TheElement(D) = s
    BY <1>2, SimpleElement
  <2>2. new.index = [table.index EXCEPT ![e] = table.sizes[g][TheElement(D)]]
    BY <1>2, UpdateSimple
  <2>3. new.index[e] = table.sizes[g][s]
    BY <2>1, <2>2, <1>1
  <2>. QED
    BY <2>3, <1>2 DEF IndexIn
<1>3. CASE ~ SimpleSet(D)
  <2> DEFINE indices == MultiIndices(table.sizes, g, D)
  <2>1. Multiple(D)
    BY <1>3 DEF Multiple, EmptySet
  <2>2. new = [index |-> [table.index EXCEPT ![e] = Len(table.multi[k])],
               sizes |-> CountIn(table.sizes, g, D),
               multi |-> [table.multi EXCEPT ![k] = Append(@, indices)]]
    BY <2>1, UpdateMultiple
  <2>3. indices[Offset(D, s)] = table.sizes[g][s]
    BY MultiIndicesAt
  <2> HIDE DEF new, indices
  <2>4. new.index[e] = Len(table.multi[k]) /\ new.multi[k] = Append(table.multi[k], indices)
    BY <2>2, <1>1
  <2>5. table.multi[k] \in Seq([Slot -> Nat])
    BY <1>1
  <2>6. new.multi[k][new.index[e] + 1] = indices
    BY <2>4, <2>5
  <2>. QED
    BY <2>3, <2>6, <1>3 DEF IndexIn, new
<1>. QED
  BY <1>2, <1>3

LEMMA UpdateStored ==
  ASSUME NEW table \in Numbering, NEW dom \in Entries, NEW E \in SUBSET Entity,
         NEW e \in Entity, e \notin E, Stored(table, dom, E)
  PROVE  Stored(UpdateMapEntry(table, dom[e], e), dom, E \cup {e})
<1> DEFINE D == dom[e]
           k == CodimOf[TypeOf[e]]
           new == UpdateMapEntry(table, D, e)
<1>1. SUFFICES ASSUME NEW f \in E \cup {e}, Multiple(dom[f])
               PROVE  new.index[f] < Len(new.multi[CodimOf[TypeOf[f]]])
  BY DEF Stored
<1> DEFINE kf == CodimOf[TypeOf[f]]
<1>2. /\ k \in Codim /\ kf \in Codim
      /\ table.index \in [Entity -> Nat] /\ table.multi \in [Codim -> Seq([Slot -> Nat])]
  BY EntryAssumption DEF Codim, Numbering
<1>3. f # e => table.index[f] < Len(table.multi[kf])
  BY <1>1 DEF Stored
<1>4. CASE EmptySet(D)
  BY <1>4, <1>3, <1>1, UpdateEmpty DEF Multiple
<1>5. CASE SimpleSet(D)
  <2>1. new.index = [table.index EXCEPT ![e] = table.sizes[TypeOf[e]][TheElement(D)]]
        /\ new.multi = table.multi
    BY <1>5, UpdateSimple
  <2>2. f # e
    BY <1>1, <1>5 DEF Multiple
  <2>. QED
    BY <2>1, <2>2, <1>2, <1>3
<1>6. CASE Multiple(D)
  <2> DEFINE indices == MultiIndices(table.sizes, TypeOf[e], D)
  <2>1. new = [index |-> [table.index EXCEPT ![e] = Len(table.multi[k])],
               sizes |-> CountIn(table.sizes, TypeOf[e], D),
               multi |-> [table.multi EXCEPT ![k] = Append(@, indices)]]
    BY <1>6, UpdateMultiple
  <2> HIDE DEF new, indices
  <2>2. new.index = [table.index EXCEPT ![e] = Len(table.multi[k])]
        /\ new.multi = [table.multi EXCEPT ![k] = Append(@, indices)]
    BY <2>1
  <2>3. table.multi[k] \in Seq([Slot -> Nat]) /\ table.multi[kf] \in Seq([Slot -> Nat])
    BY <1>2
  <2>4. Len(Append(table.multi[k], indices)) = Len(table.multi[k]) + 1
    BY <2>3
  <2>5. CASE f = e
    <3>1. new.index[e] = Len(table.multi[k]) /\ new.multi[k] = Append(table.multi[k], indices)
      BY <2>2, <1>2
    <3>. QED
      BY <3>1, <2>3, <2>4, <2>5
  <2>6. CASE f # e
    <3>1. new.index[f] = table.index[f]
      BY <2>2, <2>6, <1>2
    <3>2. new.multi[kf] = IF kf = k THEN Append(table.multi[k], indices) ELSE table.multi[kf]
      BY <2>2, <1>2
    <3>3. table.index[f] \in Nat
      BY <1>2
    <3>. QED
      BY <3>1, <3>2, <3>3, <2>3, <2>4, <2>6, <1>3
  <2>. QED
    BY <2>5, <2>6
<1>. QED
  BY <1>4, <1>5, <1>6 DEF Multiple

(* Numbering one more entity keeps every subdomain numbered consecutively. *)
THEOREM UpdateConsecutive ==
  ASSUME NEW table \in Numbering, NEW dom \in Entries, NEW E \in SUBSET Entity,
         NEW e \in Entity, e \notin E,
         Stored(table, dom, E), Consecutive(table, dom, E)
  PROVE  Consecutive(UpdateMapEntry(table, dom[e], e), dom, E \cup {e})
<1> DEFINE new == UpdateMapEntry(table, dom[e], e)
<1>1. SUFFICES ASSUME NEW g \in GeometryType, NEW s \in SubDomain
      PROVE  LET members == {f \in E \cup {e} : TypeOf[f] = g /\ s \in dom[f]}
             IN  /\ \A f \in members : IndexIn(new, dom[f], f, s) \in 0 .. new.sizes[g][s] - 1
                 /\ \A f, h \in members :
                      IndexIn(new, dom[f], f, s) = IndexIn(new, dom[h], h, s) => f = h
                 /\ \A i \in 0 .. new.sizes[g][s] - 1 :
                      \E f \in members : IndexIn(new, dom[f], f, s) = i
  BY DEF Consecutive
<1> DEFINE old == {f \in E : TypeOf[f] = g /\ s \in dom[f]}
           members == {f \in E \cup {e} : TypeOf[f] = g /\ s \in dom[f]}
           n == table.sizes[g][s]
           I(f) == IndexIn(table, dom[f], f, s)
           I2(f) == IndexIn(new, dom[f], f, s)
<1>2. n \in Nat
  BY DEF Numbering
<1>3. /\ \A f \in old : I(f) \in 0 .. n - 1
      /\ \A f, h \in old : I(f) = I(h) => f = h
      /\ \A i \in 0 .. n - 1 : \E f \in old : I(f) = i
  BY DEF Consecutive
<1>4. \A f \in old : I2(f) = I(f)
  BY UpdateKeeps
<1>5. dom[e] \in SUBSET SubDomain
  BY DEF Entries
<1>6. CASE e \in members
  <2>1. new.sizes[g][s] = n + 1
    BY <1>5, <1>6, UpdateSizes
  <2>2. I2(e) = n
    BY <1>5, <1>6, UpdateNumbers
  <2>3. members = old \cup {e}
    BY <1>6
  <2> HIDE DEF members, old, I, I2, new, n
  <2>. QED
    BY <2>1, <2>2, <2>3, <1>2, <1>3, <1>4 DEF I2, members
<1>7. CASE e \notin members
  <2>1. new.sizes[g][s] = n
    BY <1>5, <1>7, UpdateSizes
  <2>2. members = old
    BY <1>7
  <2> HIDE DEF old, I, new, n
  <2>. QED
    BY <2>1, <2>2, <1>3, <1>4
<1>. QED
  BY <1>6, <1>7

-----------------------------------------------------------------------------

(* The views are integers, the leaf view below all levels.                 *)
LEMMA Views ==
  /\ LeafView \in View /\ View \subseteq Int
  /\ LastView \in View
  /\ \A v \in View : LeafView <= v /\ v <= LastView
  /\ \A v \in View : v # LeafView => v > LeafView
  /\ \A v \in View : v # LastView => v + 1 \in View
  /\ \A v \in View : v # LeafView => v \in 0 .. MaxLevel /\ LevelSupport
BY IndexSetAssumption DEF View, LevelView, LeafView, LastView

(* Cells and sub-entities are different entities.                          *)
LEMMA Entities ==
  /\ \A v : Elements(v) \subseteq Cell /\ SubEntities(v) \subseteq SubEntity
  /\ Cell \subseteq Entity /\ SubEntity \subseteq Entity
  /\ Cell \cap SubEntity = {}
  /\ \A v : \A c \in Elements(v) : Closure[c] \subseteq SubEntities(v)
<1>1. \A v : Elements(v) \subseteq Cell
  BY DEF Elements, Leaves
<1>2. \A v : SubEntities(v) \subseteq SubEntity
  BY <1>1, IndexSetAssumption DEF SubEntities
<1>. QED
  BY <1>1, <1>2, IndexSetAssumption DEF SubEntities, SubEntity

(* What a numbering says of E depends on the entries of E alone.           *)
LEMMA SameEntries ==
  ASSUME NEW numbers, NEW dom, NEW dom2, NEW E,
         \A e \in E : dom2[e] = dom[e]
  PROVE  /\ Consecutive(numbers, dom, E) => Consecutive(numbers, dom2, E)
         /\ Stored(numbers, dom, E) => Stored(numbers, dom2, E)
<1>1. ASSUME NEW g \in GeometryType, NEW s \in SubDomain
      PROVE  {e \in E : TypeOf[e] = g /\ s \in dom2[e]} = {e \in E : TypeOf[e] = g /\ s \in dom[e]}
  OBVIOUS
<1>2. \A e \in E : \A s : IndexIn(numbers, dom2[e], e, s) = IndexIn(numbers, dom[e], e, s)
  OBVIOUS
<1>3. Stored(numbers, dom, E) => Stored(numbers, dom2, E)
  BY DEF Stored
<1>4. ASSUME Consecutive(numbers, dom, E)
      PROVE  Consecutive(numbers, dom2, E)
  <2>. SUFFICES ASSUME NEW g \in GeometryType, NEW s \in SubDomain
       PROVE  LET members == {e \in E : TypeOf[e] = g /\ s \in dom2[e]}
              IN  /\ \A e \in members : IndexIn(numbers, dom2[e], e, s) \in 0 .. numbers.sizes[g][s] - 1
                  /\ \A e, f \in members :
                       IndexIn(numbers, dom2[e], e, s) = IndexIn(numbers, dom2[f], f, s) => e = f
                  /\ \A i \in 0 .. numbers.sizes[g][s] - 1 :
                       \E e \in members : IndexIn(numbers, dom2[e], e, s) = i
    BY DEF Consecutive
  <2> DEFINE members == {e \in E : TypeOf[e] = g /\ s \in dom[e]}
             n == numbers.sizes[g][s]
             I(e) == IndexIn(numbers, dom[e], e, s)
             I2(e) == IndexIn(numbers, dom2[e], e, s)
  <2>1. /\ \A e \in members : I(e) \in 0 .. n - 1
        /\ \A e, f \in members : I(e) = I(f) => e = f
        /\ \A i \in 0 .. n - 1 : \E e \in members : I(e) = i
    BY <1>4 DEF Consecutive
  <2>2. \A e \in members : I2(e) = I(e)
    BY <1>2
  <2> HIDE DEF n, I, I2
  <2>3. /\ \A e \in members : I2(e) \in 0 .. n - 1
        /\ \A e, f \in members : I2(e) = I2(f) => e = f
        /\ \A i \in 0 .. n - 1 : \E e \in members : I2(e) = i
    BY <2>1, <2>2
  <2>. QED
    BY <2>3, <1>1 DEF n, I2
<1>. QED
  BY <1>3, <1>4

(* A finished pass that met no subdomains has left all counters at 0.      *)
LEMMA EmptyPass ==
  ASSUME NEW numbers, NEW dom, NEW E, Consecutive(numbers, dom, E),
         \A e \in E : dom[e] = {}
  PROVE  \A dom2 : Consecutive(numbers, dom2, {}) /\ Stored(numbers, dom2, {})
<1>1. \A g \in GeometryType, s \in SubDomain : 0 .. numbers.sizes[g][s] - 1 = {}
  BY DEF Consecutive
<1>. QED
  BY <1>1 DEF Consecutive, Stored

-----------------------------------------------------------------------------
(* A step of a pass that numbers the entity e of the current view, and     *)
(* leaves the entries of all numbered entities alone.                      *)
LEMMA NumberOne ==
  ASSUME num \in [View -> Numbering], domains \in [View -> Entries],
         view \in View, NumberedSoFar,
         \A v \in View : Numbered(v) \subseteq Entity,
         NEW e \in Entity, e \notin Numbered(view),
         num' = [num EXCEPT ![view] = UpdateMapEntry(@, domains[view][e], e)],
         domains'[view][e] = domains[view][e],
         \A v \in View : \A f \in Numbered(v) : domains'[v][f] = domains[v][f],
         \A v \in View :
           Numbered(v)' = IF v = view THEN Numbered(v) \cup {e} ELSE Numbered(v)
  PROVE  NumberedSoFar' /\ num' \in [View -> Numbering]
<1> DEFINE new == UpdateMapEntry(num[view], domains[view][e], e)
           E == Numbered(view)
<1>1. num[view] \in Numbering /\ domains[view] \in Entries /\ E \in SUBSET Entity
  OBVIOUS
<1>2. domains[view][e] \in SUBSET SubDomain
  BY <1>1 DEF Entries
<1>3. new \in Numbering
  BY <1>1, <1>2, UpdateType
<1>4. Consecutive(num[view], domains[view], E) /\ Stored(num[view], domains[view], E)
  BY DEF NumberedSoFar
<1>5. Consecutive(new, domains[view], E \cup {e}) /\ Stored(new, domains[view], E \cup {e})
  BY <1>1, <1>4, UpdateConsecutive, UpdateStored
<1>6. \A f \in E \cup {e} : domains'[view][f] = domains[view][f]
  OBVIOUS
<1> HIDE DEF new
<1>7. Consecutive(new, domains'[view], E \cup {e}) /\ Stored(new, domains'[view], E \cup {e})
  BY <1>5, <1>6, SameEntries
<1>8. num' = [num EXCEPT ![view] = new]
  BY DEF new
<1>9. ASSUME NEW v \in View
      PROVE  Consecutive(num'[v], domains'[v], Numbered(v)') /\ Stored(num'[v], domains'[v], Numbered(v)')
  <2>1. CASE v = view
    BY <2>1, <1>7, <1>8
  <2>2. CASE v # view
    <3>1. num'[v] = num[v] /\ Numbered(v)' = Numbered(v)
      BY <2>2, <1>8
    <3>2. Consecutive(num[v], domains[v], Numbered(v)) /\ Stored(num[v], domains[v], Numbered(v))
      BY DEF NumberedSoFar
    <3>. QED
      BY <3>1, <3>2, SameEntries
  <2>. QED
    BY <2>1, <2>2
<1>. QED
  BY <1>3, <1>8, <1>9 DEF NumberedSoFar

(* Numbering starts anew, or not at all, in every view whose counters are  *)
(* 0 and of which nothing is numbered.                                     *)
LEMMA NumberNone ==
  ASSUME \A v \in View :
           \/ Numbered(v)' = {} /\ Consecutive(num'[v], domains'[v], {})
           \/ /\ Numbered(v)' = Numbered(v)
              /\ num'[v] = num[v]
              /\ \A f \in Numbered(v) : domains'[v][f] = domains[v][f],
         NumberedSoFar
  PROVE  NumberedSoFar'
<1>. SUFFICES ASSUME NEW v \in View
     PROVE  Consecutive(num'[v], domains'[v], Numbered(v)') /\ Stored(num'[v], domains'[v], Numbered(v)')
  BY DEF NumberedSoFar
<1>1. CASE Numbered(v)' = {} /\ Consecutive(num'[v], domains'[v], {})
  BY <1>1 DEF Stored
<1>2. CASE /\ Numbered(v)' = Numbered(v)
           /\ num'[v] = num[v]
           /\ \A f \in Numbered(v) : domains'[v][f] = domains[v][f]
  <2>1. Consecutive(num[v], domains[v], Numbered(v)) /\ Stored(num[v], domains[v], Numbered(v))
    BY DEF NumberedSoFar
  <2>. QED
    BY <1>2, <2>1, SameEntries
<1>. QED
  BY <1>1, <1>2

LEMMA NumberedEntities ==
  \A v \in View : Numbered(v) \subseteq EntitiesOf(v) /\ EntitiesOf(v) \subseteq Entity
BY Entities DEF Numbered, InPass, EntitiesOf

LEMMA NumberingInit == Init => NumberingInv
<1>. SUFFICES ASSUME Init PROVE NumberingInv
  OBVIOUS
<1>1. NoDomains \in [Entity -> SUBSET SubDomain] /\ NoNumbers \in Numbering
  BY NoNumbersType DEF NoDomains
<1>2. PassTypeOK
  BY <1>1, Views DEF Init, PassTypeOK
<1>3. RebuildingEmpty
  BY DEF Init, RebuildingEmpty
<1>4. NumberedSoFar
  <2>. SUFFICES ASSUME NEW v \in View
       PROVE  Consecutive(num[v], domains[v], Numbered(v)) /\ Stored(num[v], domains[v], Numbered(v))
    BY DEF NumberedSoFar
  <2>1. num[v] = NoNumbers /\ domains[v] = NoDomains
    BY DEF Init
  <2>2. \A e \in Numbered(v) : NoDomains[e] = {}
    BY NumberedEntities DEF NoDomains
  <2>3. \A g \in GeometryType, s \in SubDomain : NoNumbers.sizes[g][s] = 0
    BY DEF NoNumbers
  <2>. QED
    BY <2>1, <2>2, <2>3 DEF Consecutive, Stored, Multiple, EmptySet
<1>. QED
  BY <1>2, <1>3, <1>4 DEF NumberingInv

-----------------------------------------------------------------------------
(* One lemma per action: each keeps the invariant.                         *)

LEMMA StartMarkingStep ==
  ASSUME NumberingInv, StartMarking
  PROVE  NumberingInv'
<1>. USE DEF NumberingInv, StartMarking
<1>1. ResetDomains(domains[LeafView], FALSE) \in [Entity -> SUBSET SubDomain]
  BY Views DEF PassTypeOK, ResetDomains
<1>2. PassTypeOK'
  BY <1>1, Views, NoNumbersType DEF PassTypeOK
<1>3. RebuildingEmpty'
  BY DEF RebuildingEmpty
<1>4. NumberedSoFar'
  <2>1. ASSUME NEW v \in View, v # LeafView
        PROVE  Numbered(v)' = Numbered(v) /\ num'[v] = num[v] /\ domains'[v] = domains[v]
    BY <2>1 DEF Numbered, InPass, PassTypeOK
  <2>2. Numbered(LeafView)' = {} /\ Consecutive(num'[LeafView], domains'[LeafView], {})
    BY Views, NoNumbersType DEF Numbered, InPass, PassTypeOK
  <2>. QED
    BY <2>1, <2>2, NumberNone
<1>. QED
  BY <1>2, <1>3, <1>4

LEMMA AssignStep ==
  ASSUME NumberingInv, NEW c \in Leaves(Cell), NEW D \in SUBSET SubDomain, Assign(c, D)
  PROVE  NumberingInv'
<1>. USE DEF NumberingInv, Assign, passVars
<1>1. PassTypeOK'
  BY Views, Entities DEF PassTypeOK
<1>2. RebuildingEmpty'
  BY DEF RebuildingEmpty
<1>3. NumberedSoFar'
  <2>1. ASSUME NEW v \in View, v # LeafView
        PROVE  Numbered(v)' = Numbered(v) /\ num'[v] = num[v] /\ domains'[v] = domains[v]
    BY <2>1 DEF Numbered, InPass, PassTypeOK
  <2>2. Numbered(LeafView) = {} /\ Numbered(LeafView)' = {} /\ num' = num
    BY DEF Numbered, InPass
  <2>3. Consecutive(num[LeafView], domains[LeafView], {})
    BY <2>2, Views DEF NumberedSoFar
  <2>4. Consecutive(num'[LeafView], domains'[LeafView], {})
    BY <2>2, <2>3, SameEntries
  <2>. QED
    BY <2>1, <2>2, <2>4, NumberNone
<1>. QED
  BY <1>1, <1>2, <1>3

(* Every update() starts with all counters at 0, and nothing numbered.     *)
LEMMA BeginUpdateStep ==
  ASSUME NumberingInv,
         NEW leaf \in Entries, NEW numbers \in Numbering, NEW sizes,
         NEW full \in BOOLEAN,
         NEW then \in {"idle", "restore"},
         BeginUpdate(leaf, numbers, sizes, full, then),
         Consecutive(numbers, leaf, {}),
         then = "restore" => full /\ leaf = NoDomains
  PROVE  NumberingInv'
<1>. USE DEF NumberingInv, BeginUpdate
<1>1. \A v \in View : ResetDomains(domains[v], full) \in Entries
  BY DEF PassTypeOK, ResetDomains, Entries
<1>2. PassTypeOK'
  BY <1>1, Views, NoNumbersType DEF PassTypeOK, Entries
<1>3. RebuildingEmpty'
  BY DEF RebuildingEmpty, NoDomains, ResetDomains
<1>4. \A v \in View : Numbered(v)' = {}
  <2>1. pc' = "elements" /\ view' = LeafView /\ toVisit' = Elements(LeafView)
    OBVIOUS
  <2>. QED
    BY <2>1, Views DEF Numbered, InPass
<1>5. ASSUME NEW v \in View
      PROVE  Consecutive(num'[v], domains'[v], {})
  <2>1. CASE v = LeafView
    BY <2>1
  <2>2. CASE v # LeafView
    <3>1. num'[v] = NoNumbers
      BY <2>2
    <3>. QED
      BY <3>1, NoNumbersType
  <2>. QED
    BY <2>1, <2>2
<1>6. NumberedSoFar'
  BY <1>4, <1>5, NumberNone
<1>. QED
  BY <1>2, <1>3, <1>6

LEMMA UpdateStep ==
  ASSUME NumberingInv,
         \/ PreUpdate
         \/ Rebuild
         \/ \E saved \in [Leaves(Cell) -> SUBSET SubDomain] : Restore(saved)
  PROVE  NumberingInv'
<1>. USE DEF NumberingInv
<1>1. CASE PreUpdate
  <2>1. domains[LeafView] \in Entries /\ num[LeafView] \in Numbering
    BY Views DEF PassTypeOK, Entries
  <2>2. Consecutive(num[LeafView], domains[LeafView], {})
    BY <1>1, Views DEF PreUpdate, NumberedSoFar, Numbered, InPass
  <2>. QED
    BY <1>1, <2>1, <2>2, BeginUpdateStep DEF PreUpdate
<1>2. CASE Rebuild
  <2>1. NoDomains \in Entries
    BY DEF NoDomains, Entries
  <2>. QED
    BY <1>2, <2>1, NoNumbersType, BeginUpdateStep DEF Rebuild
<1>3. CASE \E saved \in [Leaves(Cell) -> SUBSET SubDomain] : Restore(saved)
  <2>1. PICK saved \in [Leaves(Cell) -> SUBSET SubDomain] : Restore(saved)
    BY <1>3
  <2> DEFINE leaf == [e \in Entity |-> domains[LeafView][e] \cup
                        IF e \in Leaves(Cell) THEN saved[e] ELSE {}]
  <2>2. num[LeafView] \in Numbering /\ domains[LeafView] \in Entries
    BY Views DEF PassTypeOK, Entries
  <2>3. leaf \in Entries
    BY <2>2 DEF Entries
  <2>4. Consecutive(num[LeafView], domains[LeafView], EntitiesOf(LeafView))
    BY <2>1, Views DEF Restore, NumberedSoFar, Numbered, InPass
  <2>5. \A e \in EntitiesOf(LeafView) : domains[LeafView][e] = {}
    BY <2>1, Views, NumberedEntities DEF Restore, RebuildingEmpty
  <2>6. Consecutive(num[LeafView], leaf, {})
    BY <2>4, <2>5, EmptyPass
  <2>7. BeginUpdate(leaf, num[LeafView], codimSizes[LeafView], FALSE, "idle")
    BY <2>1 DEF Restore
  <2> HIDE DEF leaf
  <2>. QED
    BY <2>2, <2>3, <2>6, <2>7, BeginUpdateStep
<1>. QED
  BY <1>1, <1>2, <1>3

LEMMA VisitLeafStep ==
  ASSUME NumberingInv, NEW c \in toVisit, VisitLeaf(c)
  PROVE  NumberingInv'
<1> DEFINE D == domains[LeafView][c]
           raised == IF LevelSupport THEN {c} \cup MarkedAncestors(c, D) ELSE {}
           gains(v) == IF v = LeafView THEN Closure[c] ELSE {a \in raised : Level[a] = v}
<1>. USE DEF NumberingInv
<1>1. /\ pc = "elements" /\ view = LeafView
      /\ toVisit' = toVisit \ {c}
      /\ num' = [num EXCEPT ![LeafView] = UpdateMapEntry(@, D, c)]
      /\ domains' = [v \in View |-> [e \in Entity |->
           IF e \in gains(v) THEN domains[v][e] \cup D ELSE domains[v][e]]]
      /\ UNCHANGED <<codimSizes, pc, after, view, toNumber>>
  BY DEF VisitLeaf
<1>2. c \in Elements(LeafView) /\ c \in Cell /\ c \in Entity
  BY <1>1, Entities DEF PassTypeOK
<1>3. D \in SUBSET SubDomain
  BY <1>2, Views DEF PassTypeOK
<1>4. \A v \in View : \A e \in Entity :
        domains'[v][e] = IF e \in gains(v) THEN domains[v][e] \cup D ELSE domains[v][e]
  BY <1>1
<1>5. \A e \in Cell : domains'[LeafView][e] = domains[LeafView][e]
  <2>1. \A e \in Cell : e \notin gains(LeafView)
    BY <1>2, IndexSetAssumption DEF SubEntity
  <2>. QED
    BY <2>1, <1>4, Views, Entities
<1> HIDE DEF gains
<1>6. domains' \in [View -> [Entity -> SUBSET SubDomain]]
  <2>1. ASSUME NEW v \in View
        PROVE  [e \in Entity |-> IF e \in gains(v) THEN domains[v][e] \cup D ELSE domains[v][e]]
                 \in [Entity -> SUBSET SubDomain]
    BY <1>3 DEF PassTypeOK
  <2>. QED
    BY <1>1, <2>1
<1> HIDE DEF D
<1>7. /\ \A v \in View : Numbered(v)' = IF v = view THEN Numbered(v) \cup {c} ELSE Numbered(v)
      /\ c \notin Numbered(view)
  BY <1>1, <1>2 DEF Numbered, InPass
<1>8. \A v \in View : \A f \in Numbered(v) : domains'[v][f] = domains[v][f]
  <2>1. \A v \in View : v # LeafView => Numbered(v) = {}
    BY <1>1, Views DEF Numbered, InPass
  <2>2. Numbered(LeafView) \subseteq Cell
    BY <1>1, Entities DEF Numbered, InPass
  <2>. QED
    BY <2>1, <2>2, <1>5
<1>9. NumberedSoFar' /\ num' \in [View -> Numbering]
  <2>1. num' = [num EXCEPT ![view] = UpdateMapEntry(@, domains[view][c], c)]
    BY <1>1 DEF D
  <2>2. domains'[view][c] = domains[view][c]
    BY <1>1, <1>2, <1>5
  <2>3. /\ num \in [View -> Numbering] /\ domains \in [View -> Entries]
        /\ view \in View /\ NumberedSoFar
    BY DEF PassTypeOK, Entries
  <2>4. \A v \in View : Numbered(v) \subseteq Entity
    BY NumberedEntities
  <2>. QED
    BY <2>1, <2>2, <2>3, <2>4, <1>2, <1>7, <1>8, NumberOne
<1>10. PassTypeOK'
  BY <1>1, <1>6, <1>9 DEF PassTypeOK
<1>11. RebuildingEmpty'
  <2>1. CASE after = "restore"
    <3>1. \A v \in View, e \in Entity : domains[v][e] = {}
      BY <1>1, <2>1 DEF RebuildingEmpty
    <3>2. D = {}
      BY <3>1, <1>2, Views DEF D
    <3>. QED
      BY <3>1, <3>2, <1>4 DEF RebuildingEmpty
  <2>2. CASE after # "restore"
    BY <2>2, <1>1 DEF RebuildingEmpty
  <2>. QED
    BY <2>1, <2>2
<1>. QED
  BY <1>9, <1>10, <1>11

LEMMA VisitLevelCellStep ==
  ASSUME NumberingInv, NEW c \in toVisit, VisitLevelCell(c)
  PROVE  NumberingInv'
<1> DEFINE D == domains[view][c]
<1>. USE DEF NumberingInv
<1>1. /\ pc = "elements"
      /\ toVisit' = toVisit \ {c}
      /\ num' = [num EXCEPT ![view] = UpdateMapEntry(@, D, c)]
      /\ domains' = [domains EXCEPT ![view] = [e \in Entity |->
           IF e \in Closure[c] THEN @[e] \cup D ELSE @[e]]]
      /\ UNCHANGED <<codimSizes, pc, after, view, toNumber>>
  BY DEF VisitLevelCell
<1>2. c \in Elements(view) /\ c \in Cell /\ c \in Entity /\ view \in View
  BY <1>1, Entities DEF PassTypeOK
<1>3. D \in SUBSET SubDomain /\ domains \in [View -> [Entity -> SUBSET SubDomain]]
  BY <1>2, Views DEF PassTypeOK
<1>4. /\ \A v \in View : v # view => domains'[v] = domains[v]
      /\ \A e \in Entity : domains'[view][e] =
           IF e \in Closure[c] THEN domains[view][e] \cup D ELSE domains[view][e]
  BY <1>1, <1>2, <1>3
<1>5. \A e \in Cell : domains'[view][e] = domains[view][e]
  <2>1. \A e \in Cell : e \notin Closure[c]
    BY <1>2, IndexSetAssumption DEF SubEntity
  <2>. QED
    BY <2>1, <1>4, Entities
<1>6. domains' \in [View -> [Entity -> SUBSET SubDomain]]
  BY <1>1, <1>2, <1>3
<1> HIDE DEF D
<1>7. /\ \A v \in View : Numbered(v)' = IF v = view THEN Numbered(v) \cup {c} ELSE Numbered(v)
      /\ c \notin Numbered(view)
  BY <1>1, <1>2, Views DEF Numbered, InPass
<1>8. \A v \in View : \A f \in Numbered(v) : domains'[v][f] = domains[v][f]
  <2>1. Numbered(view) \subseteq Cell
    BY <1>1, Entities, Views DEF Numbered, InPass
  <2>. QED
    BY <2>1, <1>4, <1>5
<1>9. NumberedSoFar' /\ num' \in [View -> Numbering]
  <2>1. num' = [num EXCEPT ![view] = UpdateMapEntry(@, domains[view][c], c)]
    BY <1>1 DEF D
  <2>2. domains'[view][c] = domains[view][c]
    BY <1>2, <1>5
  <2>3. /\ num \in [View -> Numbering] /\ domains \in [View -> Entries]
        /\ NumberedSoFar
    BY DEF PassTypeOK, Entries
  <2>4. \A v \in View : Numbered(v) \subseteq Entity
    BY NumberedEntities
  <2>. QED
    BY <2>1, <2>2, <2>3, <2>4, <1>2, <1>7, <1>8, NumberOne
<1>10. PassTypeOK'
  BY <1>1, <1>6, <1>9 DEF PassTypeOK
<1>11. RebuildingEmpty'
  <2>1. CASE after = "restore"
    <3>1. \A v \in View, e \in Entity : domains[v][e] = {}
      BY <1>1, <2>1 DEF RebuildingEmpty
    <3>2. D = {}
      BY <3>1, <1>2 DEF D
    <3>. QED
      BY <3>1, <3>2, <1>4 DEF RebuildingEmpty
  <2>2. CASE after # "restore"
    BY <2>2, <1>1 DEF RebuildingEmpty
  <2>. QED
    BY <2>1, <2>2
<1>. QED
  BY <1>9, <1>10, <1>11

LEMMA BeginSubIndicesStep ==
  ASSUME NumberingInv, BeginSubIndices
  PROVE  NumberingInv'
<1>. USE DEF NumberingInv, BeginSubIndices
<1>1. PassTypeOK' /\ RebuildingEmpty'
  BY DEF PassTypeOK, RebuildingEmpty, Elements, SubEntities
<1>2. \A v \in View : Numbered(v)' = Numbered(v)
  BY Views DEF Numbered, InPass, Elements, SubEntities, EntitiesOf
<1>3. NumberedSoFar'
  BY <1>2 DEF NumberedSoFar
<1>. QED
  BY <1>1, <1>3

LEMMA NumberSubEntityStep ==
  ASSUME NumberingInv, NEW e \in toNumber, NumberSubEntity(e)
  PROVE  NumberingInv'
<1>. USE DEF NumberingInv, NumberSubEntity
<1>1. e \in SubEntities(view) /\ e \in SubEntity /\ e \in Entity /\ e \notin Elements(view)
  BY Entities DEF PassTypeOK
<1>2. /\ \A v \in View : Numbered(v)' = IF v = view THEN Numbered(v) \cup {e} ELSE Numbered(v)
      /\ e \notin Numbered(view)
  BY <1>1, Views DEF Numbered, InPass, PassTypeOK
<1>3. NumberedSoFar' /\ num' \in [View -> Numbering]
  <2>1. /\ num \in [View -> Numbering] /\ domains \in [View -> Entries]
        /\ view \in View /\ NumberedSoFar
    BY DEF PassTypeOK, Entries
  <2>2. \A v \in View : Numbered(v) \subseteq Entity
    BY NumberedEntities
  <2>. QED
    BY <2>1, <2>2, <1>1, <1>2, NumberOne
<1>4. PassTypeOK' /\ RebuildingEmpty'
  BY <1>3 DEF PassTypeOK, RebuildingEmpty
<1>. QED
  BY <1>3, <1>4

LEMMA EndViewStep ==
  ASSUME NumberingInv, EndView
  PROVE  NumberingInv'
<1>. USE DEF NumberingInv
<1>1. /\ pc = "subIndices" /\ toNumber = {} /\ toVisit = {} /\ view \in View
      /\ UNCHANGED <<domains, num, after, toNumber>>
  BY DEF EndView, PassTypeOK
<1>2. Numbered(view) = EntitiesOf(view)
  BY <1>1, Views DEF Numbered, InPass, EntitiesOf
<1>3. CASE view = LastView
  <2>1. pc' = after /\ UNCHANGED <<view, toVisit>>
    BY <1>3 DEF EndView
  <2>2. PassTypeOK' /\ RebuildingEmpty'
    BY <1>1, <2>1 DEF PassTypeOK, RebuildingEmpty
  <2>3. \A v \in View : Numbered(v)' = Numbered(v)
    BY <1>1, <1>2, <1>3, <2>1, Views DEF Numbered, InPass, PassTypeOK, EntitiesOf
  <2>. QED
    BY <1>1, <2>2, <2>3 DEF NumberedSoFar
<1>4. CASE view # LastView
  <2>1. pc' = "elements" /\ view' = view + 1 /\ toVisit' = Elements(view + 1)
    BY <1>4 DEF EndView
  <2>2. view + 1 \in View
    BY <1>1, <1>4, Views
  <2>3. PassTypeOK' /\ RebuildingEmpty'
    BY <1>1, <2>1, <2>2 DEF PassTypeOK, RebuildingEmpty
  <2>4. ASSUME NEW v \in View
        PROVE  Numbered(v)' = Numbered(v)
    <3>1. v \in Int /\ view \in Int
      BY <1>1, Views
    <3>2. CASE v < view
      BY <1>1, <2>1, <3>1, <3>2 DEF Numbered, InPass
    <3>3. CASE v = view
      BY <1>1, <1>2, <2>1, <3>1, <3>3 DEF Numbered, InPass
    <3>4. CASE v = view + 1
      BY <1>1, <2>1, <3>1, <3>4 DEF Numbered, InPass
    <3>5. CASE v > view + 1
      BY <1>1, <2>1, <3>1, <3>5 DEF Numbered, InPass
    <3>. QED
      BY <3>1, <3>2, <3>3, <3>4, <3>5
  <2>. QED
    BY <1>1, <2>3, <2>4 DEF NumberedSoFar
<1>. QED
  BY <1>3, <1>4

-----------------------------------------------------------------------------
LEMMA NumberingStep == NumberingInv /\ [Next]_vars => NumberingInv'
<1>. SUFFICES ASSUME NumberingInv, [Next]_vars PROVE NumberingInv'
  OBVIOUS
<1>1. CASE StartMarking
  BY <1>1, StartMarkingStep
<1>2. CASE \E c \in Leaves(Cell), D \in SUBSET SubDomain : Assign(c, D)
  BY <1>2, AssignStep
<1>3. CASE \/ PreUpdate
           \/ Rebuild
           \/ \E saved \in [Leaves(Cell) -> SUBSET SubDomain] : Restore(saved)
  BY <1>3, UpdateStep
<1>4. CASE \E c \in toVisit : VisitLeaf(c)
  BY <1>4, VisitLeafStep
<1>5. CASE \E c \in toVisit : VisitLevelCell(c)
  BY <1>5, VisitLevelCellStep
<1>6. CASE BeginSubIndices
  BY <1>6, BeginSubIndicesStep
<1>7. CASE \E e \in toNumber : NumberSubEntity(e)
  BY <1>7, NumberSubEntityStep
<1>8. CASE EndView
  BY <1>8, EndViewStep
<1>9. CASE UNCHANGED vars
  BY <1>9 DEF NumberingInv, PassTypeOK, RebuildingEmpty, NumberedSoFar, Numbered, InPass,
     vars, passVars, Elements, SubEntities, EntitiesOf
<1>. QED
  BY <1>1, <1>2, <1>3, <1>4, <1>5, <1>6, <1>7, <1>8, <1>9 DEF Next

(* In every reachable state the entities numbered so far have consecutive  *)
(* and distinct indices in every subdomain, per geometry type: update()    *)
(* 820-857 and updateMapEntry() 883-898 build index sets as DUNE requires  *)
(* them, for every grid, number of levels and set representation.          *)
THEOREM IndicesConsecutiveAlways == Spec => []IndicesConsecutive
<1>1. NumberingInv => IndicesConsecutive
  BY DEF NumberingInv, NumberedSoFar, IndicesConsecutive
<1>. QED
  BY <1>1, NumberingInit, NumberingStep, PTL DEF Spec


(* The counters a pass starts with are all 0, and every entry refers to    *)
(* numbers that have been stored: restoreMultiDomainState() may therefore  *)
(* update without a reset of its own (multidomaingrid.hh 1126-1135).       *)
THEOREM NumberingAlways == Spec => []NumberingInv
BY NumberingInit, NumberingStep, PTL DEF Spec

-----------------------------------------------------------------------------
(* Which entities belong to a subdomain, on every view of every host grid: *)
(* sub-entities follow the cells around them, cells of the level views the *)
(* leaves below them, and callers find shared entities under one index.    *)

LEMMA VisitedCells ==
  \A v : Visited(v) \subseteq Elements(v) /\ Visited(v) \subseteq Cell
BY Entities DEF Visited

(* A step that neither visits a cell nor changes an entry.                 *)
LEMMA MarksKept ==
  ASSUME MarkedSoFar, \A v \in View : Visited(v)' = Visited(v),
         domains' = domains, pc' # "marking" => pc # "marking"
  PROVE  MarkedSoFar'
BY Views DEF MarkedSoFar

LEMMA MarksInit == Init => MarkedSoFar
<1>. SUFFICES ASSUME Init PROVE MarkedSoFar
  OBVIOUS
<1>1. \A v \in View : \A e \in Entity : domains[v][e] = {}
  BY DEF Init, NoDomains
<1>2. \A v : Visited(v) \subseteq Entity
  BY VisitedCells, Entities
<1>3. \A v \in View : \A e \in SubEntity :
        domains[v][e] = UNION {domains[v][c] : c \in {b \in Visited(v) : e \in Closure[b]}}
  BY <1>1, <1>2, Entities
<1>4. ASSUME LevelSupport, NEW c \in Cell
      PROVE  domains[Level[c]][c] =
               UNION {domains[LeafView][d] : d \in {b \in Visited(LeafView) : c \in Line(b)}}
  <2>1. Level[c] \in View
    BY <1>4, IndexSetAssumption DEF View, LevelView
  <2>. QED
    BY <1>1, <1>2, <2>1, Views, Entities
<1>. QED
  BY <1>3, <1>4 DEF MarkedSoFar

LEMMA StartMarkingMarks ==
  ASSUME NumberingInv, MarkedSoFar, StartMarking
  PROVE  MarkedSoFar'
<1>1. /\ pc = "idle" /\ pc' = "marking"
      /\ \A v \in View : v # LeafView => domains'[v] = domains[v]
      /\ \A e \in SubEntity : domains'[LeafView][e] = {}
  BY Views, Entities DEF StartMarking, NumberingInv, PassTypeOK, ResetDomains
<1>2. /\ Visited(LeafView)' = {}
      /\ \A v \in View : v # LeafView => Visited(v)' = Visited(v)
  BY <1>1 DEF Visited, InPass
<1>3. ASSUME NEW v \in View, NEW e \in SubEntity
      PROVE  domains'[v][e] = UNION {domains'[v][c] : c \in {b \in Visited(v)' : e \in Closure[b]}}
  <2>1. CASE v = LeafView
    BY <1>1, <1>2, <2>1
  <2>2. CASE v # LeafView
    BY <1>1, <1>2, <2>2 DEF MarkedSoFar
  <2>. QED
    BY <2>1, <2>2
<1>. QED
  BY <1>1, <1>3 DEF MarkedSoFar

LEMMA AssignMarks ==
  ASSUME NumberingInv, MarkedSoFar,
         NEW c \in Leaves(Cell), NEW D \in SUBSET SubDomain, Assign(c, D)
  PROVE  MarkedSoFar'
<1>1. /\ pc = "marking" /\ pc' = "marking"
      /\ \A v \in View : v # LeafView => domains'[v] = domains[v]
      /\ \A e \in SubEntity : domains'[LeafView][e] = domains[LeafView][e]
      /\ \A v \in View : Visited(v)' = Visited(v)
  <2>1. c \in Cell
    BY DEF Leaves
  <2>2. \A e \in SubEntity : e # c /\ e \in Entity
    BY <2>1, Entities
  <2>. QED
    BY <2>2, Views DEF Assign, passVars, NumberingInv, PassTypeOK, Visited, InPass
<1>2. Visited(LeafView) = {}
  BY <1>1 DEF Visited, InPass
<1>3. ASSUME NEW v \in View, NEW e \in SubEntity
      PROVE  domains'[v][e] = UNION {domains'[v][d] : d \in {b \in Visited(v)' : e \in Closure[b]}}
  <2>1. CASE v = LeafView
    BY <1>1, <1>2, <2>1 DEF MarkedSoFar
  <2>2. CASE v # LeafView
    BY <1>1, <2>2 DEF MarkedSoFar
  <2>. QED
    BY <2>1, <2>2
<1>. QED
  BY <1>1, <1>3 DEF MarkedSoFar

(* Every update() starts with no subdomains but those of the leaves: the   *)
(* sub-entities were reset with the cells, or since, and the level index   *)
(* sets now, or never had any.                                             *)
LEMMA BeginUpdateMarks ==
  ASSUME NumberingInv, NEW leaf, NEW numbers, NEW sizes, NEW full, NEW then,
         BeginUpdate(leaf, numbers, sizes, full, then),
         \A e \in SubEntity : leaf[e] = {},
         full \/ \A v \in View, e \in Entity : domains[v][e] = {}
  PROVE  MarkedSoFar'
<1>1. /\ pc' = "elements" /\ view' = LeafView /\ toVisit' = Elements(LeafView)
      /\ domains' = [v \in View |->
           IF v = LeafView THEN leaf ELSE ResetDomains(domains[v], full)]
  BY DEF BeginUpdate
<1>2. \A v \in View : Visited(v)' = {}
  BY <1>1, Views DEF Visited, InPass
<1>3. \A v \in View : v # LeafView => \A e \in Entity : domains'[v][e] = {}
  BY <1>1 DEF ResetDomains
<1>4. \A v \in View : \A e \in SubEntity : domains'[v][e] = {}
  <2>1. \A e \in SubEntity : domains'[LeafView][e] = {}
    BY <1>1, Views
  <2>. QED
    BY <1>3, <2>1, Entities
<1>5. ASSUME LevelSupport, NEW c \in Cell
      PROVE  domains'[Level[c]][c] = {}
  <2>1. Level[c] \in View /\ Level[c] # LeafView
    BY <1>5, IndexSetAssumption DEF View, LevelView, LeafView
  <2>. QED
    BY <1>3, <2>1, Entities
<1>. QED
  BY <1>2, <1>4, <1>5, Views DEF MarkedSoFar

LEMMA UpdateMarks ==
  ASSUME NumberingInv, MarkedSoFar,
         \/ PreUpdate
         \/ Rebuild
         \/ \E saved \in [Leaves(Cell) -> SUBSET SubDomain] : Restore(saved)
  PROVE  MarkedSoFar'
<1>1. CASE PreUpdate
  <2>1. Visited(LeafView) = {}
    BY <1>1 DEF PreUpdate, Visited, InPass
  <2>2. \A e \in SubEntity : domains[LeafView][e] = {}
    BY <2>1, Views DEF MarkedSoFar
  <2>. QED
    BY <1>1, <2>2, BeginUpdateMarks DEF PreUpdate
<1>2. CASE Rebuild
  <2>1. \A e \in SubEntity : NoDomains[e] = {}
    BY Entities DEF NoDomains
  <2>. QED
    BY <1>2, <2>1, BeginUpdateMarks DEF Rebuild
<1>3. CASE \E saved \in [Leaves(Cell) -> SUBSET SubDomain] : Restore(saved)
  <2>1. PICK saved \in [Leaves(Cell) -> SUBSET SubDomain] : Restore(saved)
    BY <1>3
  <2> DEFINE leaf == [e \in Entity |-> domains[LeafView][e] \cup
                        IF e \in Leaves(Cell) THEN saved[e] ELSE {}]
  <2>2. \A v \in View, e \in Entity : domains[v][e] = {}
    BY <2>1 DEF Restore, NumberingInv, RebuildingEmpty
  <2>3. \A e \in SubEntity : leaf[e] = {}
    <3>1. \A e \in SubEntity : e \in Entity /\ e \notin Leaves(Cell)
      BY Entities DEF Leaves
    <3>. QED
      BY <2>2, <3>1, Views
  <2>4. BeginUpdate(leaf, num[LeafView], codimSizes[LeafView], FALSE, "idle")
    BY <2>1 DEF Restore
  <2> HIDE DEF leaf
  <2>. QED
    BY <2>2, <2>3, <2>4, BeginUpdateMarks
<1>. QED
  BY <1>1, <1>2, <1>3


-----------------------------------------------------------------------------
(* The walk up from c passes every ancestor that does not have all of D:   *)
(* where it ends, and above, the leaves visited before have given it.      *)
LEMMA WalkEndsRightly ==
  ASSUME MarkedSoFar, LevelSupport, pc # "marking",
         NEW c \in Cell, NEW D, NEW a \in Ancestors[c], a \notin MarkedAncestors(c, D)
  PROVE  D \subseteq domains[Level[a]][a]
<1>1. PICK b \in Ancestors[c] : a \in Line(b) /\ D \subseteq domains[Level[b]][b]
  BY DEF MarkedAncestors
<1>2. a \in Cell /\ b \in Cell
  BY HostAssumption DEF AncestorsAssumption
<1>3. \A d \in Visited(LeafView) : b \in Line(d) => a \in Line(d)
  BY <1>1, <1>2, LineUp, VisitedCells
<1>4. domains[Level[b]][b] \subseteq domains[Level[a]][a]
  <2>1. /\ domains[Level[a]][a] =
             UNION {domains[LeafView][d] : d \in {x \in Visited(LeafView) : a \in Line(x)}}
        /\ domains[Level[b]][b] =
             UNION {domains[LeafView][d] : d \in {x \in Visited(LeafView) : b \in Line(x)}}
    BY <1>2 DEF MarkedSoFar
  <2>. QED
    BY <1>3, <2>1
<1>. QED
  BY <1>1, <1>4

LEMMA VisitLeafMarks ==
  ASSUME NumberingInv, MarkedSoFar, NEW c \in toVisit, VisitLeaf(c)
  PROVE  MarkedSoFar'
<1> DEFINE D == domains[LeafView][c]
           raised == IF LevelSupport THEN {c} \cup MarkedAncestors(c, D) ELSE {}
           gains(v) == IF v = LeafView THEN Closure[c] ELSE {a \in raised : Level[a] = v}
<1>1. /\ pc = "elements" /\ pc' = pc /\ view = LeafView /\ view' = view
      /\ toVisit' = toVisit \ {c}
      /\ domains' = [v \in View |-> [e \in Entity |->
           IF e \in gains(v) THEN domains[v][e] \cup D ELSE domains[v][e]]]
  BY DEF VisitLeaf
<1>2. c \in Elements(LeafView) /\ c \in Cell
  BY <1>1, Entities DEF NumberingInv, PassTypeOK
<1>3. \A v \in View : \A e \in Entity :
        domains'[v][e] = IF e \in gains(v) THEN domains[v][e] \cup D ELSE domains[v][e]
  BY <1>1
<1>4. /\ gains(LeafView) = Closure[c] /\ Closure[c] \subseteq SubEntity
      /\ \A v \in View : v # LeafView => gains(v) \subseteq Cell
      /\ \A a : Level[a] # LeafView => (a \in gains(Level[a]) <=> a \in raised)
  <2>1. gains(LeafView) = Closure[c] /\ Closure[c] \subseteq SubEntity
    BY <1>2, IndexSetAssumption
  <2>2. raised \subseteq Cell
    BY <1>2, HostAssumption DEF MarkedAncestors, AncestorsAssumption
  <2> HIDE DEF raised
  <2>3. \A v \in View : v # LeafView => gains(v) \subseteq Cell
    BY <2>2
  <2>4. \A a : Level[a] # LeafView => (a \in gains(Level[a]) <=> a \in raised)
    OBVIOUS
  <2>. QED
    BY <2>1, <2>3, <2>4
<1>5. raised = IF LevelSupport THEN {c} \cup MarkedAncestors(c, D) ELSE {}
  OBVIOUS
<1> HIDE DEF gains, raised
<1>6. /\ Visited(LeafView)' = Visited(LeafView) \cup {c}
      /\ \A v \in View : v # LeafView => Visited(v) = {} /\ Visited(v)' = {}
  BY <1>1, <1>2, Views DEF Visited, InPass
<1>7. \A e \in Cell : domains'[LeafView][e] = domains[LeafView][e]
  <2>1. \A e \in Cell : e \in Entity /\ e \notin gains(LeafView)
    BY <1>4, Entities
  <2>2. LeafView \in View
    BY Views
  <2> HIDE DEF D
  <2>. QED
    BY <1>3, <2>1, <2>2
<1>8. ASSUME NEW v \in View, NEW e \in SubEntity
      PROVE  domains'[v][e] = UNION {domains'[v][d] : d \in {b \in Visited(v)' : e \in Closure[b]}}
  <2>1. domains[v][e] = UNION {domains[v][d] : d \in {b \in Visited(v) : e \in Closure[b]}}
    BY DEF MarkedSoFar
  <2>2. CASE v = LeafView
    <3>1. /\ domains'[v][e] = IF e \in Closure[c] THEN domains[v][e] \cup D ELSE domains[v][e]
          /\ \A d \in Visited(v) \cup {c} : domains'[v][d] = domains[v][d]
      BY <1>2, <1>3, <1>4, <1>7, <2>2, Views, Entities, VisitedCells
    <3>2. D = domains[v][c]
      BY <2>2
    <3> HIDE DEF D
    <3>. QED
      BY <1>6, <2>1, <2>2, <3>1, <3>2
  <2>3. CASE v # LeafView
    <3>1. domains'[v][e] = domains[v][e]
      BY <1>3, <1>4, <2>3, Entities
    <3>. QED
      BY <1>6, <2>1, <2>3, <3>1
  <2>. QED
    BY <2>2, <2>3
<1>9. ASSUME LevelSupport, NEW a \in Cell
      PROVE  domains'[Level[a]][a] =
               UNION {domains'[LeafView][d] : d \in {b \in Visited(LeafView)' : a \in Line(b)}}
  <2>1. Level[a] \in View /\ Level[a] # LeafView
    BY <1>9, IndexSetAssumption DEF View, LevelView, LeafView
  <2>2. domains'[Level[a]][a] = domains[Level[a]][a] \cup IF a \in raised THEN D ELSE {}
    BY <1>3, <1>4, <2>1, Entities
  <2>3. domains[Level[a]][a] =
          UNION {domains[LeafView][d] : d \in {b \in Visited(LeafView) : a \in Line(b)}}
    BY <1>1, <1>9 DEF MarkedSoFar
  <2>4. \A d \in Visited(LeafView) \cup {c} : domains'[LeafView][d] = domains[LeafView][d]
    BY <1>2, <1>7, VisitedCells
  <2>5. a \in Line(c) => D \subseteq domains'[Level[a]][a]
    <3>1. CASE a \in raised
      BY <2>2, <3>1
    <3>2. CASE a \in Line(c) /\ a \notin raised
      <4>1. a \in Ancestors[c] /\ a \notin MarkedAncestors(c, D)
        BY <1>5, <1>9, <3>2 DEF Line
      <4>. QED
        BY <1>1, <1>2, <1>9, <2>2, <4>1, WalkEndsRightly
    <3>. QED
      BY <3>1, <3>2
  <2>6. a \in raised => a \in Line(c)
    BY <1>5, <1>9 DEF Line, MarkedAncestors
  <2>7. D = domains[LeafView][c]
    OBVIOUS
  <2> HIDE DEF D
  <2>. QED
    BY <1>6, <2>2, <2>3, <2>4, <2>5, <2>6, <2>7
<1>. QED
  BY <1>8, <1>9 DEF MarkedSoFar

LEMMA VisitLevelCellMarks ==
  ASSUME NumberingInv, MarkedSoFar, NEW c \in toVisit, VisitLevelCell(c)
  PROVE  MarkedSoFar'
<1> DEFINE D == domains[view][c]
<1>1. /\ pc = "elements" /\ pc' = pc /\ view' = view /\ view \in View /\ view # LeafView
      /\ toVisit' = toVisit \ {c}
      /\ domains' = [domains EXCEPT ![view] = [e \in Entity |->
           IF e \in Closure[c] THEN @[e] \cup D ELSE @[e]]]
  BY DEF VisitLevelCell, NumberingInv, PassTypeOK
<1>2. c \in Elements(view) /\ c \in Cell /\ Closure[c] \subseteq SubEntity
  BY <1>1, Entities, IndexSetAssumption DEF NumberingInv, PassTypeOK
<1>3. /\ \A v \in View : v # view => domains'[v] = domains[v]
      /\ \A e \in Entity : domains'[view][e] =
           IF e \in Closure[c] THEN domains[view][e] \cup D ELSE domains[view][e]
  BY <1>1 DEF NumberingInv, PassTypeOK
<1>4. /\ Visited(view)' = Visited(view) \cup {c}
      /\ \A v \in View : v # view => Visited(v)' = Visited(v)
  BY <1>1, <1>2 DEF Visited, InPass
<1>5. \A v \in View : \A e \in Cell : domains'[v][e] = domains[v][e]
  <2>1. \A e \in Cell : e \in Entity /\ e \notin Closure[c]
    BY <1>2, Entities
  <2>. QED
    BY <1>3, <2>1
<1>6. ASSUME NEW v \in View, NEW e \in SubEntity
      PROVE  domains'[v][e] = UNION {domains'[v][d] : d \in {b \in Visited(v)' : e \in Closure[b]}}
  <2>1. domains[v][e] = UNION {domains[v][d] : d \in {b \in Visited(v) : e \in Closure[b]}}
    BY DEF MarkedSoFar
  <2>2. CASE v = view
    <3>1. /\ domains'[v][e] = IF e \in Closure[c] THEN domains[v][e] \cup D ELSE domains[v][e]
          /\ \A d \in Visited(v) \cup {c} : domains'[v][d] = domains[v][d]
      BY <1>2, <1>3, <1>5, <2>2, Entities, VisitedCells
    <3>2. D = domains[v][c]
      BY <2>2
    <3>3. Visited(v)' = Visited(v) \cup {c}
      BY <1>1, <1>2, <2>2 DEF Visited, InPass
    <3> HIDE DEF D
    <3>. QED
      BY <2>1, <3>1, <3>2, <3>3
  <2>3. CASE v # view
    BY <1>3, <1>4, <2>1, <2>3
  <2>. QED
    BY <2>2, <2>3
<1>7. ASSUME LevelSupport, NEW a \in Cell
      PROVE  domains'[Level[a]][a] =
               UNION {domains'[LeafView][d] : d \in {b \in Visited(LeafView)' : a \in Line(b)}}
  <2>1. Level[a] \in View
    BY <1>7, IndexSetAssumption DEF View, LevelView
  <2>2. \A d \in Visited(LeafView) : domains'[LeafView][d] = domains[LeafView][d]
    BY <1>5, Views, VisitedCells
  <2>3. domains'[Level[a]][a] = domains[Level[a]][a] /\ Visited(LeafView)' = Visited(LeafView)
    BY <1>1, <1>4, <1>5, <2>1, Views
  <2>4. domains[Level[a]][a] =
          UNION {domains[LeafView][d] : d \in {b \in Visited(LeafView) : a \in Line(b)}}
    BY <1>1, <1>7 DEF MarkedSoFar
  <2>. QED
    BY <2>2, <2>3, <2>4
<1>. QED
  BY <1>6, <1>7 DEF MarkedSoFar

LEMMA EndViewMarks ==
  ASSUME NumberingInv, MarkedSoFar, EndView
  PROVE  MarkedSoFar'
<1>1. /\ pc = "subIndices" /\ toVisit = {} /\ view \in View /\ domains' = domains
      /\ after \in {"idle", "restore"}
      /\ \/ view = LastView /\ pc' = after /\ view' = view /\ toVisit' = toVisit
         \/ view # LastView /\ pc' = "elements" /\ view' = view + 1 /\ toVisit' = Elements(view + 1)
  BY DEF EndView, NumberingInv, PassTypeOK
<1>2. ASSUME NEW v \in View PROVE Visited(v)' = Visited(v)
  <2>1. v \in Int /\ view \in Int /\ v <= LastView
    BY <1>1, Views
  <2>2. Visited(v) = IF v > view THEN {} ELSE Elements(v)
    BY <1>1, <2>1 DEF Visited, InPass
  <2>3. CASE view = LastView
    <3>1. ~ v > view
      BY <2>1, <2>3
    <3>2. pc' \in {"idle", "restore"}
      BY <1>1, <2>3
    <3>. QED
      BY <2>2, <3>1, <3>2 DEF Visited, InPass, Elements
  <2>4. CASE view # LastView
    <3>1. Visited(v)' = IF v = view + 1 THEN {} ELSE IF v > view + 1 THEN {} ELSE Elements(v)
      BY <1>1, <2>4 DEF Visited, InPass, Elements
    <3>. QED
      BY <2>1, <2>2, <3>1
  <2>. QED
    BY <2>3, <2>4
<1>. QED
  BY <1>1, <1>2, MarksKept

LEMMA MarksStep == NumberingInv /\ MarkedSoFar /\ [Next]_vars => MarkedSoFar'
<1>. SUFFICES ASSUME NumberingInv, MarkedSoFar, [Next]_vars PROVE MarkedSoFar'
  OBVIOUS
<1>1. CASE StartMarking
  BY <1>1, StartMarkingMarks
<1>2. CASE \E c \in Leaves(Cell), D \in SUBSET SubDomain : Assign(c, D)
  BY <1>2, AssignMarks
<1>3. CASE \/ PreUpdate
           \/ Rebuild
           \/ \E saved \in [Leaves(Cell) -> SUBSET SubDomain] : Restore(saved)
  BY <1>3, UpdateMarks
<1>4. CASE \E c \in toVisit : VisitLeaf(c)
  BY <1>4, VisitLeafMarks
<1>5. CASE \E c \in toVisit : VisitLevelCell(c)
  BY <1>5, VisitLevelCellMarks
<1>6. CASE BeginSubIndices \/ (\E e \in toNumber : NumberSubEntity(e)) \/ UNCHANGED vars
  <2>1. /\ domains' = domains /\ view' = view /\ toVisit' = toVisit
        /\ \/ pc' = pc
           \/ pc = "elements" /\ pc' = "subIndices"
    BY <1>6 DEF BeginSubIndices, NumberSubEntity, vars, passVars
  <2>2. \A v \in View : Visited(v)' = Visited(v)
    BY <2>1 DEF Visited, InPass, Elements
  <2>. QED
    BY <2>1, <2>2, MarksKept
<1>7. CASE EndView
  BY <1>7, EndViewMarks
<1>. QED
  BY <1>1, <1>2, <1>3, <1>4, <1>5, <1>6, <1>7 DEF Next

LEMMA MarksAlways == Spec => []MarksInv
BY NumberingInit, NumberingStep, MarksInit, MarksStep, PTL DEF Spec, MarksInv

-----------------------------------------------------------------------------
LEMMA AllVisited ==
  ASSUME pc = "idle"
  PROVE  \A v : Visited(v) = Elements(v) /\ Numbered(v) = EntitiesOf(v)
BY DEF Visited, Numbered, InPass

LEMMA MarksFollow == MarksInv => SubEntitiesFollowCells /\ LevelsFollowLeaves
<1>. SUFFICES ASSUME MarksInv, pc = "idle"
     PROVE  /\ \A v \in View : \A e \in SubEntities(v) :
                 domains[v][e] = UNION {domains[v][c] : c \in {b \in Elements(v) : e \in Closure[b]}}
            /\ \A c \in Cell : LevelSupport =>
                 domains[Level[c]][c] =
                   UNION {domains[LeafView][d] : d \in {b \in Leaves(Cell) : c \in Line(b)}}
  BY DEF SubEntitiesFollowCells, LevelsFollowLeaves
<1>1. ASSUME NEW v \in View, NEW e \in SubEntities(v)
      PROVE  domains[v][e] = UNION {domains[v][c] : c \in {b \in Elements(v) : e \in Closure[b]}}
  BY Entities, AllVisited DEF MarksInv, MarkedSoFar
<1>2. ASSUME NEW c \in Cell, LevelSupport
      PROVE  domains[Level[c]][c] =
               UNION {domains[LeafView][d] : d \in {b \in Leaves(Cell) : c \in Line(b)}}
  <2>1. Visited(LeafView) = Leaves(Cell)
    BY AllVisited DEF Elements
  <2>. QED
    BY <1>2, <2>1 DEF MarksInv, MarkedSoFar
<1>. QED
  BY <1>1, <1>2

(* Whatever was marked, unmarked, rebuilt or restored before, vertices,    *)
(* edges and faces of every view are in the subdomains of the cells around *)
(* them and in no others: reset() 771-776 forgets them, update() 820-857   *)
(* marks them anew from the cells.                                         *)
THEOREM SubEntitiesAlwaysFollow == Spec => []SubEntitiesFollowCells
BY MarksAlways, MarksFollow, PTL

(* On every host grid a cell of a level is in the subdomains of the leaves *)
(* below it and in no others, in whatever order the leaves are visited:    *)
(* the early end of the walk in markAncestors() 900-910 loses nothing.     *)
THEOREM LevelsAlwaysFollow == Spec => []LevelsFollowLeaves
BY MarksAlways, MarksFollow, PTL

(* The marks and numbers of a finished view give callers one index per     *)
(* shared entity and subdomain.                                            *)
LEMMA SharedFollow == MarksInv => SharedSubIndices
<1>. SUFFICES ASSUME MarksInv, pc = "idle",
                     NEW v \in View, NEW s \in SubDomain,
                     NEW c \in Elements(v), NEW d \in Elements(v),
                     contains(v, s, c), contains(v, s, d),
                     NEW e \in Closure[c], NEW f \in Closure[d]
     PROVE  /\ contains(v, s, e)
            /\ subIndex(v, s, c, e) \in 0 .. num[v].sizes[TypeOf[e]][s] - 1
            /\ TypeOf[e] = TypeOf[f] =>
                 (subIndex(v, s, c, e) = subIndex(v, s, d, f) <=> e = f)
  BY DEF SharedSubIndices
<1>1. /\ e \in SubEntities(v) /\ f \in SubEntities(v)
      /\ e \in Entity /\ f \in Entity
      /\ e \in EntitiesOf(v) /\ f \in EntitiesOf(v)
  BY Entities DEF EntitiesOf
<1>2. s \in domains[v][e] /\ s \in domains[v][f]
  <2>1. \A x \in SubEntities(v) :
          domains[v][x] = UNION {domains[v][b] : b \in {a \in Elements(v) : x \in Closure[a]}}
    BY MarksFollow DEF SubEntitiesFollowCells
  <2>2. s \in domains[v][c] /\ s \in domains[v][d]
    BY DEF contains
  <2>. QED
    BY <1>1, <2>1, <2>2
<1>3. \A x \in Entity : CodimOf[TypeOf[x]] \in Supported /\ CodimOf[TypeOf[x]] \in 0 .. Dimension
  <2>1. \A x \in Entity : CodimOf[TypeOf[x]] \in Codim
    BY EntryAssumption DEF Codim
  <2>. QED
    BY <2>1, QueryAssumption
<1>4. /\ subIndex(v, s, c, e) = IndexIn(num[v], domains[v][e], e, s)
      /\ subIndex(v, s, d, f) = IndexIn(num[v], domains[v][f], f, s)
  BY <1>1, <1>3 DEF subIndex, Dispatch, index
<1>5. Consecutive(num[v], domains[v], EntitiesOf(v))
  BY AllVisited DEF MarksInv, NumberingInv, NumberedSoFar
<1>6. TypeOf[e] \in GeometryType
  BY <1>1, EntryAssumption
<1> DEFINE I(x) == IndexIn(num[v], domains[v][x], x, s)
           members == {x \in EntitiesOf(v) : TypeOf[x] = TypeOf[e] /\ s \in domains[v][x]}
<1>7. /\ \A x \in members : I(x) \in 0 .. num[v].sizes[TypeOf[e]][s] - 1
      /\ \A x, y \in members : I(x) = I(y) => x = y
  BY <1>5, <1>6 DEF Consecutive
<1>8. e \in members /\ (TypeOf[e] = TypeOf[f] => f \in members)
  BY <1>1, <1>2
<1>9. contains(v, s, e)
  BY <1>2 DEF contains
<1> HIDE DEF I, members
<1>10. subIndex(v, s, c, e) = I(e) /\ subIndex(v, s, d, f) = I(f)
  BY <1>4 DEF I
<1>. QED
  BY <1>7, <1>8, <1>9, <1>10

(* From every cell of a subdomain, an entity it shares with other cells of *)
(* the subdomain is found under one index, in range, that no other entity  *)
(* of its type has there: subIndexForSubDomain() 499-533 may take the slot *)
(* from the entity's own set of subdomains.                                *)
THEOREM SharedAlwaysSame == Spec => []SharedSubIndices
BY MarksAlways, SharedFollow, PTL

-----------------------------------------------------------------------------
(* Sizes per codimension, which are sums over the geometry types.          *)

LEMMA LeastSet ==
  ASSUME NEW T, IsFiniteSet(T), NEW W \in SUBSET SUBSET T, W # {}
  PROVE  \E S \in W : \A x \in S : S \ {x} \notin W
<1>1. IsWellFoundedOn(StrictSubsetOrdering(T), SUBSET T)
  BY FS_StrictSubsetOrderingWellFounded, FS_FiniteSubsetsOfFinite
<1>2. PICK S \in W : \A R \in W : <<R, S>> \notin StrictSubsetOrdering(T)
  <2>. HIDE DEF StrictSubsetOrdering
  <2>. QED
    BY <1>1, WFMin
<1>3. ASSUME NEW x \in S, S \ {x} \in W
      PROVE  FALSE
  <2>1. <<S \ {x}, S>> \in StrictSubsetOrdering(T)
    BY <1>3 DEF StrictSubsetOrdering
  <2>. QED
    BY <1>2, <1>3, <2>1
<1>. QED
  BY <1>3

(* What MapThenSumSet() adds up, from the sizes of the sets M[x].          *)
Summing(f, T, M) ==
  [S \in SUBSET T |->
     IF S = {} THEN 0
     ELSE LET x == CHOOSE x \in S : TRUE IN Cardinality(M[x]) + f[S \ {x}]]

Total(T, M) == (CHOOSE f : f = Summing(f, T, M))[T]

LEMMA SumIsCount ==
  ASSUME NEW T, IsFiniteSet(T), NEW M,
         \A x \in T : IsFiniteSet(M[x]),
         \A x, y \in T : x # y => M[x] \cap M[y] = {}
  PROVE  /\ Total(T, M) = Cardinality(UNION {M[x] : x \in T})
         /\ Cardinality(UNION {M[x] : x \in T}) \in Nat
<1> DEFINE All(S) == UNION {M[x] : x \in S}
           count == [S \in SUBSET T |-> Cardinality(All(S))]
           sum == CHOOSE f : f = Summing(f, T, M)
<1>1. All({}) = {}
  OBVIOUS
<1>2. ASSUME NEW S \in SUBSET T, NEW x \in S
      PROVE  All(S) = M[x] \cup All(S \ {x}) /\ M[x] \cap All(S \ {x}) = {}
  <2>1. ASSUME NEW y \in S \ {x} PROVE M[x] \cap M[y] = {}
    OBVIOUS
  <2>. QED
    BY <2>1
<1>. HIDE DEF All
<1>3. \A S \in SUBSET T : IsFiniteSet(All(S))
  <2> DEFINE W == {S \in SUBSET T : ~IsFiniteSet(All(S))}
  <2>. SUFFICES ASSUME W # {} PROVE FALSE
    OBVIOUS
  <2>1. PICK S \in W : \A x \in S : S \ {x} \notin W
    <3>. HIDE DEF W
    <3>1. W \in SUBSET SUBSET T
      BY DEF W
    <3>. QED
      BY <3>1, LeastSet
  <2>2. S # {}
    BY <1>1, <2>1, FS_EmptySet
  <2>3. PICK x \in S : TRUE
    BY <2>2
  <2>4. IsFiniteSet(All(S \ {x})) /\ IsFiniteSet(M[x])
    BY <2>1
  <2>5. IsFiniteSet(M[x] \cup All(S \ {x}))
    BY <2>4, FS_Union
  <2>. QED
    BY <1>2, <2>1, <2>5
<1>4. ASSUME NEW S \in SUBSET T, NEW x \in S
      PROVE  Cardinality(All(S)) = Cardinality(M[x]) + Cardinality(All(S \ {x}))
  <2>1. IsFiniteSet(M[x]) /\ IsFiniteSet(All(S \ {x})) /\ S \ {x} \in SUBSET T
    BY <1>3
  <2>2. Cardinality(M[x] \cup All(S \ {x})) =
          Cardinality(M[x]) + Cardinality(All(S \ {x})) - Cardinality(M[x] \cap All(S \ {x}))
    BY <2>1, FS_Union
  <2>3. Cardinality(M[x] \cap All(S \ {x})) = 0
    BY <1>2, FS_EmptySet
  <2>4. Cardinality(M[x]) \in Nat /\ Cardinality(All(S \ {x})) \in Nat
    BY <2>1, FS_CardinalityType
  <2>5. Cardinality(All(S)) = Cardinality(M[x] \cup All(S \ {x}))
    BY <1>2
  <2>. QED
    BY <2>2, <2>3, <2>4, <2>5
<1>5. count = Summing(count, T, M)
  <2>1. ASSUME NEW S \in SUBSET T PROVE Summing(count, T, M)[S] = count[S]
    <3>1. CASE S = {}
      BY <1>1, <3>1, FS_EmptySet DEF Summing
    <3>2. CASE S # {}
      <4> DEFINE x == CHOOSE x \in S : TRUE
      <4>1. x \in S
        BY <3>2
      <4>2. Summing(count, T, M)[S] = Cardinality(M[x]) + count[S \ {x}]
        BY <3>2, Zenon DEF Summing
      <4>. HIDE DEF x
      <4>. QED
        BY <1>4, <4>1, <4>2
    <3>. QED
      BY <3>1, <3>2
  <2>. QED
    BY <2>1 DEF Summing
<1>6. sum = Summing(sum, T, M)
  <2>. HIDE DEF count
  <2>. QED
    BY <1>5, Zenon
<1>. HIDE DEF sum
<1>7. \A S \in SUBSET T : sum[S] = count[S]
  <2> DEFINE W == {S \in SUBSET T : sum[S] # count[S]}
  <2>. SUFFICES ASSUME W # {} PROVE FALSE
    OBVIOUS
  <2>1. PICK S \in W : \A x \in S : S \ {x} \notin W
    <3>. HIDE DEF W
    <3>1. W \in SUBSET SUBSET T
      BY DEF W
    <3>. QED
      BY <3>1, LeastSet
  <2>2. S \in SUBSET T /\ sum[S] # count[S]
    BY <2>1
  <2>3. sum[S] = Summing(sum, T, M)[S] /\ count[S] = Summing(count, T, M)[S]
    BY <1>5, <1>6
  <2>4. CASE S = {}
    BY <2>2, <2>3, <2>4 DEF Summing
  <2>5. CASE S # {}
    <3> DEFINE x == CHOOSE x \in S : TRUE
    <3>1. x \in S
      BY <2>5
    <3>2. /\ Summing(sum, T, M)[S] = Cardinality(M[x]) + sum[S \ {x}]
          /\ Summing(count, T, M)[S] = Cardinality(M[x]) + count[S \ {x}]
      <4>. HIDE DEF count
      <4>. QED
        BY <2>2, <2>5, Zenon DEF Summing
    <3>. HIDE DEF x, count
    <3>3. sum[S \ {x}] = count[S \ {x}]
      BY <2>1, <2>2, <3>1
    <3>. QED
      BY <2>2, <2>3, <3>2, <3>3
  <2>. QED
    BY <2>4, <2>5
<1>8. sum[T] = Cardinality(All(T)) /\ IsFiniteSet(All(T))
  BY <1>3, <1>7
<1>9. Cardinality(All(T)) \in Nat
  BY <1>8, FS_CardinalityType
<1>. QED
  BY <1>8, <1>9 DEF All, sum, Total

(* The sum over sizeMap and the sum over the answers of size(): both are   *)
(* the number of entities of the types.                                    *)
SumOfSizes(sizes, s, T) == MapThenSumSet(LAMBDA g : sizes[g][s], T)

LEMMA SizesSum ==
  ASSUME NEW T, IsFiniteSet(T), NEW M,
         \A x \in T : IsFiniteSet(M[x]),
         \A x, y \in T : x # y => M[x] \cap M[y] = {},
         NEW sizes, NEW s, \A x \in T : sizes[x][s] = Cardinality(M[x])
  PROVE  /\ SumOfSizes(sizes, s, T) = Cardinality(UNION {M[x] : x \in T})
         /\ SumOfSizes(sizes, s, T) \in Nat
<1> DEFINE Sum(f) == [S \in SUBSET T |->
      IF S = {} THEN 0
      ELSE LET x == CHOOSE x \in S : TRUE IN sizes[x][s] + f[S \ {x}]]
<1>1. ASSUME NEW f PROVE Sum(f) = Summing(f, T, M)
  <2>1. ASSUME NEW S \in SUBSET T, S # {}
        PROVE  sizes[CHOOSE x \in S : TRUE][s] = Cardinality(M[CHOOSE x \in S : TRUE])
    <3>1. (CHOOSE x \in S : TRUE) \in T
      BY <2>1
    <3>. QED
      BY <3>1
  <2>. QED
    BY <2>1 DEF Summing
<1>2. SumOfSizes(sizes, s, T) = (CHOOSE f : f = Sum(f))[T]
  BY DEF SumOfSizes, MapThenSumSet, MapThenFoldSet
<1>3. (CHOOSE f : f = Sum(f)) = (CHOOSE f : f = Summing(f, T, M))
  <2>. HIDE DEF Sum
  <2>. QED
    BY <1>1, Zenon
<1>4. SumOfSizes(sizes, s, T) = Total(T, M)
  BY <1>2, <1>3, Zenon DEF Total
<1>. QED
  BY <1>4, SumIsCount

SumOfAnswers(v, s, k, T) == MapThenSumSet(LAMBDA g : sizeOfType(v, s, g, k), T)

LEMMA AnswersSum ==
  ASSUME NEW T, IsFiniteSet(T), NEW M,
         \A x \in T : IsFiniteSet(M[x]),
         \A x, y \in T : x # y => M[x] \cap M[y] = {},
         NEW v, NEW s, NEW k, \A x \in T : sizeOfType(v, s, x, k) = Cardinality(M[x])
  PROVE  SumOfAnswers(v, s, k, T) = Cardinality(UNION {M[x] : x \in T})
<1> DEFINE Sum(f) == [S \in SUBSET T |->
      IF S = {} THEN 0
      ELSE LET x == CHOOSE x \in S : TRUE IN sizeOfType(v, s, x, k) + f[S \ {x}]]
<1>1. ASSUME NEW f PROVE Sum(f) = Summing(f, T, M)
  <2>1. ASSUME NEW S \in SUBSET T, S # {}
        PROVE  sizeOfType(v, s, CHOOSE x \in S : TRUE, k) = Cardinality(M[CHOOSE x \in S : TRUE])
    <3>1. (CHOOSE x \in S : TRUE) \in T
      BY <2>1
    <3>. QED
      BY <3>1
  <2>. QED
    BY <2>1 DEF Summing
<1>2. SumOfAnswers(v, s, k, T) = (CHOOSE f : f = Sum(f))[T]
  BY DEF SumOfAnswers, MapThenSumSet, MapThenFoldSet
<1>3. (CHOOSE f : f = Sum(f)) = (CHOOSE f : f = Summing(f, T, M))
  <2>. HIDE DEF Sum
  <2>. QED
    BY <1>1, Zenon
<1>4. SumOfAnswers(v, s, k, T) = Total(T, M)
  BY <1>2, <1>3, Zenon DEF Total
<1>. QED
  BY <1>4, SumIsCount

LEMMA Collected ==
  ASSUME NEW sizes, NEW k \in Codim, NEW s \in SubDomain
  PROVE  CollectedSizes(sizes)[k][s] = SumOfSizes(sizes, s, TypesOf(k))
BY DEF CollectedSizes, SumOfSizes

(* What is numbered from 0 without gaps is as many as the counter says.    *)
LEMMA NumberedCount ==
  ASSUME NEW S, NEW n \in Nat, NEW f \in [S -> 0 .. n - 1],
         \A x, y \in S : f[x] = f[y] => x = y,
         \A i \in 0 .. n - 1 : \E x \in S : f[x] = i
  PROVE  IsFiniteSet(S) /\ Cardinality(S) = n
<1>1. IsFiniteSet(0 .. n - 1) /\ Cardinality(0 .. n - 1) = n
  BY FS_Interval
<1>2. f \in Injection(S, 0 .. n - 1) /\ f \in Surjection(S, 0 .. n - 1)
  BY DEF Injection, IsInjective, Surjection
<1>. QED
  BY <1>1, <1>2, FS_Injection

(* Of each geometry type of a codimension, as many entities are numbered   *)
(* as the counter of the type says; together they are those of the         *)
(* codimension.                                                            *)
OfTypes(dom, E, k, s) ==
  [g \in TypesOf(k) |-> {e \in E : TypeOf[e] = g /\ s \in dom[e]}]

LEMMA NumberedOfTypes ==
  ASSUME NEW numbers \in Numbering, NEW dom, NEW E \in SUBSET Entity,
         Consecutive(numbers, dom, E), NEW k \in Codim, NEW s \in SubDomain
  PROVE  /\ IsFiniteSet(TypesOf(k))
         /\ \A g \in TypesOf(k) :
              /\ IsFiniteSet(OfTypes(dom, E, k, s)[g])
              /\ numbers.sizes[g][s] = Cardinality(OfTypes(dom, E, k, s)[g])
         /\ \A g, h \in TypesOf(k) :
              g # h => OfTypes(dom, E, k, s)[g] \cap OfTypes(dom, E, k, s)[h] = {}
         /\ UNION {OfTypes(dom, E, k, s)[g] : g \in TypesOf(k)} =
              {e \in E : CodimOf[TypeOf[e]] = k /\ s \in dom[e]}
<1> DEFINE Of(g) == {e \in E : TypeOf[e] = g /\ s \in dom[e]}
           M == OfTypes(dom, E, k, s)
           I(e) == IndexIn(numbers, dom[e], e, s)
<1>. USE DEF OfTypes
<1>1. IsFiniteSet(TypesOf(k)) /\ TypesOf(k) \subseteq GeometryType
  <2>1. TypesOf(k) \in SUBSET GeometryType /\ IsFiniteSet(GeometryType)
    BY IndexSetAssumption DEF TypesOf
  <2>. QED
    BY <2>1, FS_Subset
<1>2. ASSUME NEW g \in TypesOf(k)
      PROVE  IsFiniteSet(M[g]) /\ numbers.sizes[g][s] = Cardinality(M[g])
  <2> DEFINE n == numbers.sizes[g][s]
             f == [e \in Of(g) |-> I(e)]
  <2>1. n \in Nat
    BY <1>1 DEF Numbering
  <2>2. /\ \A e \in Of(g) : I(e) \in 0 .. n - 1
        /\ \A e, d \in Of(g) : I(e) = I(d) => e = d
        /\ \A i \in 0 .. n - 1 : \E e \in Of(g) : I(e) = i
    BY <1>1 DEF Consecutive
  <2>. HIDE DEF Of, I, n
  <2>3. /\ f \in [Of(g) -> 0 .. n - 1]
        /\ \A e, d \in Of(g) : f[e] = f[d] => e = d
        /\ \A i \in 0 .. n - 1 : \E e \in Of(g) : f[e] = i
    BY <2>2
  <2>. HIDE DEF f
  <2>4. IsFiniteSet(Of(g)) /\ Cardinality(Of(g)) = n
    BY <2>1, <2>3, NumberedCount
  <2>5. M[g] = Of(g)
    BY DEF Of
  <2>. QED
    BY <2>4, <2>5 DEF n
<1>3. \A g, h \in TypesOf(k) : g # h => M[g] \cap M[h] = {}
  OBVIOUS
<1>4. UNION {M[g] : g \in TypesOf(k)} = {e \in E : CodimOf[TypeOf[e]] = k /\ s \in dom[e]}
  <2>1. \A e \in E : TypeOf[e] \in GeometryType
    BY EntryAssumption
  <2>2. \A e : e \in UNION {M[g] : g \in TypesOf(k)} <=>
                 \E g \in TypesOf(k) : e \in E /\ TypeOf[e] = g /\ s \in dom[e]
    OBVIOUS
  <2>3. \A e \in E : TypeOf[e] \in TypesOf(k) <=> CodimOf[TypeOf[e]] = k
    BY <2>1 DEF TypesOf
  <2>. HIDE DEF M, OfTypes
  <2>. QED
    BY <2>2, <2>3
<1>. QED
  BY <1>1, <1>2, <1>3, <1>4

(* The counters of the geometry types of a codimension add up to the       *)
(* number of entities that have been numbered.                             *)
LEMMA CountersAddUp ==
  ASSUME NEW numbers \in Numbering, NEW dom, NEW E \in SUBSET Entity,
         Consecutive(numbers, dom, E), NEW k \in Codim, NEW s \in SubDomain
  PROVE  /\ SumOfSizes(numbers.sizes, s, TypesOf(k)) =
              Cardinality({e \in E : CodimOf[TypeOf[e]] = k /\ s \in dom[e]})
         /\ SumOfSizes(numbers.sizes, s, TypesOf(k)) \in Nat
<1> DEFINE M == OfTypes(dom, E, k, s)
           T == TypesOf(k)
<1>1. /\ IsFiniteSet(T)
      /\ \A g \in T : IsFiniteSet(M[g]) /\ numbers.sizes[g][s] = Cardinality(M[g])
      /\ \A g, h \in T : g # h => M[g] \cap M[h] = {}
      /\ UNION {M[g] : g \in T} = {e \in E : CodimOf[TypeOf[e]] = k /\ s \in dom[e]}
  BY NumberedOfTypes
<1>. HIDE DEF M, T
<1>2. /\ SumOfSizes(numbers.sizes, s, T) = Cardinality(UNION {M[g] : g \in T})
      /\ SumOfSizes(numbers.sizes, s, T) \in Nat
  BY <1>1, SizesSum
<1>. QED
  BY <1>1, <1>2 DEF T

LEMMA CollectedCount ==
  ASSUME NEW v \in View, NEW E \in SUBSET Entity, num[v] \in Numbering,
         Consecutive(num[v], domains[v], E)
  PROVE  /\ CollectedSizes(num[v].sizes) \in [Codim -> [SubDomain -> Nat]]
         /\ \A k \in Codim, s \in SubDomain :
              CollectedSizes(num[v].sizes)[k][s] =
                Cardinality({e \in E : CodimOf[TypeOf[e]] = k /\ s \in domains[v][e]})
<1> DEFINE collected == CollectedSizes(num[v].sizes)
<1>1. ASSUME NEW k \in Codim, NEW s \in SubDomain
      PROVE  /\ collected[k][s] \in Nat
             /\ collected[k][s] =
                  Cardinality({e \in E : CodimOf[TypeOf[e]] = k /\ s \in domains[v][e]})
  BY CountersAddUp, Collected
<1>2. collected = [k \in Codim |-> [s \in SubDomain |-> collected[k][s]]]
  BY Zenon DEF CollectedSizes
<1>. HIDE DEF collected
<1>3. collected \in [Codim -> [SubDomain -> Nat]]
  BY <1>1, <1>2
<1>. QED
  BY <1>1, <1>3 DEF collected

LEMMA SizesInit == Init => SizesInv
<1>. SUFFICES ASSUME Init PROVE SizesInv
  OBVIOUS
<1>1. /\ num = [v \in View |-> NoNumbers] /\ domains = [v \in View |-> NoDomains]
      /\ codimSizes = [v \in View |-> NoSizes]
  BY DEF Init
<1>2. NoNumbers \in Numbering /\ Consecutive(NoNumbers, NoDomains, {})
  BY NoNumbersType
<1>3. NoSizes \in [Codim -> [SubDomain -> Nat]]
  BY DEF NoSizes
<1>4. ASSUME NEW v \in View PROVE CollectedSizes(num[v].sizes) = NoSizes
  <2>1. /\ CollectedSizes(num[v].sizes) \in [Codim -> [SubDomain -> Nat]]
        /\ \A k \in Codim, s \in SubDomain : CollectedSizes(num[v].sizes)[k][s] = Cardinality({})
    BY <1>1, <1>2, CollectedCount
  <2>2. Cardinality({}) = 0
    BY FS_EmptySet
  <2>. QED
    BY <2>1, <2>2 DEF NoSizes
<1>. QED
  BY <1>1, <1>3, <1>4, NumberingInit DEF SizesInv, SizesFollow

LEMMA SizesStep == SizesInv /\ [Next]_vars => SizesInv'
<1>. SUFFICES ASSUME SizesInv, [Next]_vars PROVE SizesInv'
  OBVIOUS
<1>1. NumberingInv /\ NumberingInv' /\ view \in View /\ View \subseteq Int
  BY NumberingStep, Views DEF SizesInv, NumberingInv, PassTypeOK
<1>. SUFFICES codimSizes' \in [View -> [Codim -> [SubDomain -> Nat]]] /\ SizesFollow'
  BY <1>1 DEF SizesInv
<1>. USE DEF SizesInv
<1>2. CASE StartMarking
  BY <1>2, Views DEF StartMarking, SizesFollow, Summed, InPass, NumberingInv, PassTypeOK
<1>3. CASE \E c \in Leaves(Cell), D \in SUBSET SubDomain : Assign(c, D)
  BY <1>3 DEF Assign, SizesFollow, Summed, InPass, passVars
<1>4. ASSUME NEW leaf, NEW numbers, NEW sizes \in [Codim -> [SubDomain -> Nat]],
             NEW full, NEW then, BeginUpdate(leaf, numbers, sizes, full, then)
      PROVE  codimSizes' \in [View -> [Codim -> [SubDomain -> Nat]]] /\ SizesFollow'
  <2>1. NoSizes \in [Codim -> [SubDomain -> Nat]]
    BY DEF NoSizes
  <2>2. codimSizes' \in [View -> [Codim -> [SubDomain -> Nat]]]
    BY <1>4, <2>1 DEF BeginUpdate
  <2>3. \A v \in View : ~Summed(v)'
    BY <1>1, <1>4, Views DEF BeginUpdate, Summed, InPass
  <2>. QED
    BY <2>2, <2>3 DEF SizesFollow
<1>5. CASE \/ PreUpdate
           \/ Rebuild
           \/ \E saved \in [Leaves(Cell) -> SUBSET SubDomain] : Restore(saved)
  <2>1. codimSizes[LeafView] \in [Codim -> [SubDomain -> Nat]]
        /\ NoSizes \in [Codim -> [SubDomain -> Nat]]
    BY Views DEF NoSizes
  <2>. QED
    BY <1>4, <1>5, <2>1 DEF PreUpdate, Rebuild, Restore
<1>6. CASE \/ \E c \in toVisit : VisitLeaf(c)
           \/ \E c \in toVisit : VisitLevelCell(c)
           \/ \E e \in toNumber : NumberSubEntity(e)
  <2>1. /\ InPass /\ InPass' /\ view' = view /\ codimSizes' = codimSizes
        /\ \A v \in View : v # view => num'[v] = num[v]
    BY <1>1, <1>6, Views DEF VisitLeaf, VisitLevelCell, NumberSubEntity, InPass,
       NumberingInv, PassTypeOK
  <2>. QED
    BY <1>1, <2>1 DEF SizesFollow, Summed
<1>7. CASE BeginSubIndices
  BY <1>7 DEF BeginSubIndices, SizesFollow, Summed, InPass
<1>8. CASE EndView
  <2>1. /\ pc = "subIndices" /\ toNumber = {} /\ toVisit = {} /\ num' = num
        /\ num[view] \in Numbering /\ after \in {"idle", "restore"}
        /\ codimSizes' = [codimSizes EXCEPT ![view] = CollectedSizes(num[view].sizes)]
    BY <1>1, <1>8 DEF EndView, NumberingInv, PassTypeOK
  <2>2. Consecutive(num[view], domains[view], Numbered(view)) /\ Numbered(view) \in SUBSET Entity
    BY <1>1, NumberedEntities DEF NumberingInv, NumberedSoFar
  <2>3. codimSizes' \in [View -> [Codim -> [SubDomain -> Nat]]]
    BY <1>1, <2>1, <2>2, CollectedCount
  <2>4. ASSUME NEW v \in View, Summed(v)' PROVE v < view \/ v = view
    <3>1. CASE view = LastView
      BY <1>1, <3>1, Views
    <3>2. CASE view # LastView
      <4>1. InPass' /\ view' = view + 1
        BY <1>8, <3>2 DEF EndView, InPass
      <4>. QED
        BY <1>1, <2>4, <4>1 DEF Summed
    <3>. QED
      BY <3>1, <3>2
  <2>5. \A v \in View : v < view => Summed(v)
    BY <2>1 DEF Summed, InPass
  <2>. QED
    BY <1>1, <2>1, <2>3, <2>4, <2>5 DEF SizesFollow
<1>9. CASE UNCHANGED vars
  BY <1>9 DEF vars, passVars, SizesFollow, Summed, InPass
<1>. QED
  BY <1>2, <1>3, <1>5, <1>6, <1>7, <1>8, <1>9 DEF Next

LEMMA SizesAlways == Spec => []SizesInv
BY SizesInit, SizesStep, PTL DEF Spec

LEMMA SizesCount == SizesInv => CodimSizesCount
<1>. SUFFICES ASSUME SizesInv, pc = "idle", NEW v \in View, NEW k \in Codim, NEW s \in SubDomain
     PROVE  codimSizes[v][k][s] =
              Cardinality({e \in EntitiesOf(v) : CodimOf[TypeOf[e]] = k /\ s \in domains[v][e]})
  BY DEF CodimSizesCount
<1>1. Consecutive(num[v], domains[v], EntitiesOf(v)) /\ num[v] \in Numbering
  BY AllVisited DEF SizesInv, NumberingInv, NumberedSoFar, PassTypeOK
<1>2. EntitiesOf(v) \in SUBSET Entity
  BY Entities DEF EntitiesOf
<1>3. codimSizes[v] = CollectedSizes(num[v].sizes)
  BY DEF SizesInv, SizesFollow, Summed, InPass
<1>. QED
  BY <1>1, <1>2, <1>3, CollectedCount

(* Types of everything the index sets keep, sizes per codimension          *)
(* included (codimSizeMap).                                                *)
THEOREM IndexSetsTyped == Spec => []TypeOK
<1>1. SizesInv => TypeOK
  BY DEF SizesInv, NumberingInv, PassTypeOK, TypeOK
<1>. QED
  BY <1>1, SizesAlways, PTL

(* updatePerCodimSizes() (806-818) counts, once update() has ended, the    *)
(* entities of the codimension in the subdomain, in every view.            *)
THEOREM CodimSizesAlwaysCount == Spec => []CodimSizesCount
BY SizesAlways, SizesCount, PTL

LEMMA SizesOfTypes == SizesInv => SizesAgree
<1>. SUFFICES ASSUME SizesInv, pc = "idle", NEW v \in View, NEW s \in SubDomain,
                     NEW k \in 0 .. Dimension
     PROVE  sizeOfCodim(v, s, k) = SumOfAnswers(v, s, k, types(k))
  BY DEF SizesAgree, SumOfAnswers
<1>1. IsFiniteSet(types(k))
  BY QueryAssumption DEF types
<1>2. CASE k \in Supported
  <2>1. k \in Codim /\ types(k) = TypesOf(k)
    BY <1>2, QueryAssumption DEF types
  <2>2. Consecutive(num[v], domains[v], EntitiesOf(v)) /\ num[v] \in Numbering
    BY AllVisited DEF SizesInv, NumberingInv, NumberedSoFar, PassTypeOK
  <2> DEFINE M == OfTypes(domains[v], EntitiesOf(v), k, s)
             all == {e \in EntitiesOf(v) : CodimOf[TypeOf[e]] = k /\ s \in domains[v][e]}
  <2>3. EntitiesOf(v) \in SUBSET Entity
    BY Entities DEF EntitiesOf
  <2>4. /\ IsFiniteSet(TypesOf(k))
        /\ \A g \in TypesOf(k) : IsFiniteSet(M[g]) /\ num[v].sizes[g][s] = Cardinality(M[g])
        /\ \A g, h \in TypesOf(k) : g # h => M[g] \cap M[h] = {}
        /\ UNION {M[g] : g \in TypesOf(k)} = all
    BY <2>1, <2>2, <2>3, NumberedOfTypes
  <2>5. \A g \in TypesOf(k) : sizeOfType(v, s, g, k) = num[v].sizes[g][s]
    BY <1>2 DEF sizeOfType, Dispatch
  <2>6. sizeOfCodim(v, s, k) = Cardinality(all)
    <3>1. sizeOfCodim(v, s, k) = codimSizes[v][k][s]
      BY <1>2 DEF sizeOfCodim, Dispatch
    <3>2. codimSizes[v][k][s] = Cardinality(all)
      BY <2>1, SizesCount DEF CodimSizesCount
    <3>. QED
      BY <3>1, <3>2
  <2>. HIDE DEF M, all
  <2>7. SumOfAnswers(v, s, k, TypesOf(k)) = Cardinality(all)
    BY <2>4, <2>5, AnswersSum
  <2>. QED
    BY <2>1, <2>6, <2>7
<1>3. CASE k \notin Supported
  <2> DEFINE M == [g \in types(k) |-> {}]
  <2>1. \A g \in types(k) : sizeOfType(v, s, g, k) = Cardinality(M[g]) /\ IsFiniteSet(M[g])
    BY <1>3, FS_EmptySet DEF sizeOfType, Dispatch
  <2>2. UNION {M[g] : g \in types(k)} = {}
    OBVIOUS
  <2>3. \A g, h \in types(k) : g # h => M[g] \cap M[h] = {}
    OBVIOUS
  <2>. HIDE DEF M
  <2>4. SumOfAnswers(v, s, k, types(k)) = 0
    BY <1>1, <2>1, <2>2, <2>3, AnswersSum, FS_EmptySet
  <2>. QED
    BY <1>3, <2>4 DEF sizeOfCodim, Dispatch
<1>. QED
  BY <1>2, <1>3

(* A loop over types() that adds up size(type) gets size(codim), also in a *)
(* codimension for which nothing is stored (539-591).                      *)
THEOREM SizesAlwaysAgree == Spec => []SizesAgree
BY SizesAlways, SizesOfTypes, PTL

(***************************************************************************)
(* The sets of subdomains that the index sets keep: what the sorted array  *)
(* and the single value do to their elements is what SubDomainSet says,    *)
(* for any number of objects, any subdomains and any capacity.             *)
(***************************************************************************)
CONSTANTS Name, emptyTag, maxSize
VARIABLES array, length, value, message

Array == INSTANCE ArrayBasedSet
Single == INSTANCE SingleValueSet

Ascends(q) == \A i, j \in DOMAIN q : i < j => q[i] < q[j]

(* The cardinality of the instances is the one of FiniteSets.              *)
LEMMA SameCount ==
  ASSUME NEW D
  PROVE  /\ Array!Cardinality(D) = Cardinality(D)
         /\ Array!AsSet!Cardinality(D) = Cardinality(D)
<1>1. Array!Cardinality(D) = Cardinality(D)
  BY Zenon DEF Array!Cardinality, Cardinality
<1>2. Array!AsSet!Cardinality(D) = Cardinality(D)
  BY Zenon DEF Array!AsSet!Cardinality, Cardinality
<1>. QED
  BY <1>1, <1>2

(* Every finite set of numbers can be listed in ascending order: each      *)
(* number at the place that says how many numbers are not above it.        *)
LEMMA Enumeration ==
  ASSUME NEW K \in SUBSET Nat, IsFiniteSet(K)
  PROVE  /\ Cardinality(K) \in Nat
         /\ \E e \in [1 .. Cardinality(K) -> K] :
              /\ Ascends(e)
              /\ \A k \in K : \E i \in 1 .. Cardinality(K) : e[i] = k
<1> DEFINE UpTo(k) == {j \in K : j <= k}
           rank == [k \in K |-> Cardinality(UpTo(k))]
<1>1. Cardinality(K) \in Nat
  BY FS_CardinalityType
<1>2. ASSUME NEW k \in K
      PROVE  /\ IsFiniteSet(UpTo(k)) /\ Cardinality(UpTo(k)) \in 1 .. Cardinality(K)
  <2>1. IsFiniteSet(UpTo(k)) /\ Cardinality(UpTo(k)) <= Cardinality(K)
    BY FS_Subset
  <2>2. Cardinality(UpTo(k)) \in Nat
    BY <2>1, FS_CardinalityType
  <2>3. k \in UpTo(k)
    BY <1>2
  <2>4. Cardinality(UpTo(k)) # 0
    BY <2>1, <2>3, FS_EmptySet
  <2>. HIDE DEF UpTo
  <2>. QED
    BY <1>1, <2>1, <2>2, <2>4
<1>3. ASSUME NEW j \in K, NEW k \in K, j < k
      PROVE  Cardinality(UpTo(j)) < Cardinality(UpTo(k))
  <2>1. j \in Nat /\ k \in Nat /\ \A i \in K : i \in Nat
    OBVIOUS
  <2>2. UpTo(j) \in SUBSET UpTo(k) /\ k \in UpTo(k) /\ k \notin UpTo(j)
    <3>1. \A i \in K : i <= j => i <= k
      BY <1>3, <2>1
    <3>2. k <= k /\ ~(k <= j)
      BY <1>3, <2>1
    <3>. QED
      BY <3>1, <3>2
  <2>. HIDE DEF UpTo
  <2>3. Cardinality(UpTo(j)) <= Cardinality(UpTo(k)) /\ Cardinality(UpTo(j)) # Cardinality(UpTo(k))
    BY <1>2, <2>2, FS_Subset
  <2>4. Cardinality(UpTo(j)) \in 1 .. Cardinality(K) /\ Cardinality(UpTo(k)) \in 1 .. Cardinality(K)
    BY <1>2
  <2>. QED
    BY <1>1, <2>3, <2>4
<1>4. \A j, k \in K : j < k => rank[j] < rank[k]
  <2>. HIDE DEF UpTo
  <2>. QED
    BY <1>3
<1>5. rank \in [K -> 1 .. Cardinality(K)]
  <2>. HIDE DEF UpTo
  <2>. QED
    BY <1>2
<1>. HIDE DEF rank
<1>6. \A j, k \in K : j < k \/ k < j \/ j = k
  OBVIOUS
<1>7. rank \in Injection(K, 1 .. Cardinality(K))
  <2>1. ASSUME NEW j \in K, NEW k \in K, rank[j] = rank[k] PROVE j = k
    <3>1. rank[j] \in Int /\ rank[k] \in Int
      BY <1>5
    <3>2. ~(rank[j] < rank[k]) /\ ~(rank[k] < rank[j])
      BY <2>1, <3>1
    <3>. QED
      BY <1>4, <1>6, <3>2
  <2>. QED
    BY <1>5, <2>1 DEF Injection, IsInjective
<1>8. IsFiniteSet(1 .. Cardinality(K)) /\ Cardinality(1 .. Cardinality(K)) = Cardinality(K)
  <2>1. \A n \in Nat : IsFiniteSet(1 .. n) /\ Cardinality(1 .. n) = n
    BY FS_Interval
  <2>. QED
    BY <1>1, <2>1
<1>9. \A i \in 1 .. Cardinality(K) : \E k \in K : rank[k] = i
  <2>1. rank \in Surjection(K, 1 .. Cardinality(K))
    BY <1>7, <1>8, FS_Injection
  <2>. QED
    BY <2>1 DEF Surjection
<1>10. PICK e : e = [i \in 1 .. Cardinality(K) |-> CHOOSE k \in K : rank[k] = i]
  OBVIOUS
<1>11. \A i \in 1 .. Cardinality(K) : e[i] \in K /\ rank[e[i]] = i
  BY <1>9, <1>10
<1>12. e \in [1 .. Cardinality(K) -> K]
  BY <1>10, <1>11
<1>13. Ascends(e)
  <2>1. ASSUME NEW i \in 1 .. Cardinality(K), NEW j \in 1 .. Cardinality(K), i < j
        PROVE  e[i] < e[j]
    <3>1. e[i] \in K /\ e[j] \in K /\ rank[e[i]] = i /\ rank[e[j]] = j
      BY <1>11
    <3>2. e[i] # e[j] /\ ~(j < i)
      BY <1>1, <2>1, <3>1
    <3>3. ~(e[j] < e[i])
      BY <1>4, <3>1, <3>2
    <3>. QED
      BY <1>6, <3>1, <3>2, <3>3
  <2>. QED
    BY <1>12, <2>1 DEF Ascends
<1>14. ASSUME NEW k \in K PROVE \E i \in 1 .. Cardinality(K) : e[i] = k
  <2>1. rank[k] \in 1 .. Cardinality(K)
    BY <1>5
  <2>2. e[rank[k]] \in K /\ rank[e[rank[k]]] = rank[k]
    BY <1>11, <2>1
  <2>3. e[rank[k]] = k
    BY <1>7, <2>2 DEF Injection, IsInjective
  <2>. QED
    BY <2>1, <2>3
<1>. QED
  BY <1>1, <1>12, <1>13, <1>14

(* In an ascending sequence of naturals as many values are below the k-th  *)
(* as there are places before it.                                          *)
LEMMA ValuesBelow ==
  ASSUME NEW n \in Nat, NEW f \in [1 .. n -> Nat], Ascends(f), NEW k \in 1 .. n
  PROVE  Cardinality({i \in 1 .. n : f[i] < f[k]}) = k - 1
<1>1. \A i, j \in 1 .. n : i < j => f[i] < f[j]
  BY DEF Ascends
<1>2. \A i \in 1 .. n : f[i] \in Nat
  OBVIOUS
<1>3. ASSUME NEW i \in 1 .. n PROVE f[i] < f[k] <=> i < k
  <2>1. f[i] \in Nat /\ f[k] \in Nat
    OBVIOUS
  <2>2. CASE i < k
    BY <1>1, <2>2
  <2>3. CASE i = k
    BY <2>1, <2>3
  <2>4. CASE k < i
    <3>1. f[k] < f[i]
      BY <1>1, <2>4
    <3>. QED
      BY <2>1, <2>4, <3>1
  <2>. QED
    BY <2>2, <2>3, <2>4
<1>4. {i \in 1 .. n : f[i] < f[k]} = 1 .. (k - 1)
  <2>1. \A i \in 1 .. n : i < k <=> i \in 1 .. (k - 1)
    OBVIOUS
  <2>2. \A i \in 1 .. (k - 1) : i \in 1 .. n
    OBVIOUS
  <2>. QED
    BY <1>3, <2>1, <2>2
<1>5. Cardinality(1 .. (k - 1)) = k - 1
  <2>1. \A b \in Int : Cardinality(1 .. b) = IF 1 > b THEN 0 ELSE b - 1 + 1
    BY FS_Interval
  <2>2. PICK b \in Nat : b = k - 1
    OBVIOUS
  <2>3. Cardinality(1 .. b) = IF 1 > b THEN 0 ELSE b - 1 + 1
    BY <2>1
  <2>4. Cardinality(1 .. b) = b
    BY <2>3
  <2>. QED
    BY <2>2, <2>4
<1>. QED
  BY <1>4, <1>5

LEMMA LowerBoundFinds ==
  ASSUME Array!ArrayAssumption, NEW q \in Seq(SubDomain), Ascends(q)
  PROVE  /\ \A k \in 1 .. Len(q) : Array!lower_bound(q, q[k]) = k
         /\ \A s \in SubDomain : Array!binary_search(q, s) <=> s \in Array!ToSet(q)
<1>1. Len(q) \in Nat /\ DOMAIN q = 1 .. Len(q) /\ q \in [1 .. Len(q) -> SubDomain]
  BY LenProperties
<1>2. PICK n \in Nat : n = Len(q) /\ DOMAIN q = 1 .. n /\ q \in [1 .. n -> Nat]
  <2>1. SubDomain \subseteq Nat
    BY DEF Array!ArrayAssumption
  <2>. QED
    BY <1>1, <2>1
<1>3. ASSUME NEW k \in 1 .. n PROVE Array!lower_bound(q, q[k]) = k
  <2>1. Cardinality({i \in 1 .. n : q[i] < q[k]}) = k - 1
    BY <1>2, ValuesBelow
  <2>2. Array!lower_bound(q, q[k]) = Cardinality({i \in 1 .. n : q[i] < q[k]}) + 1
    BY <1>2, SameCount DEF Array!lower_bound
  <2>3. k - 1 + 1 = k
    OBVIOUS
  <2>. QED
    BY <2>1, <2>2, <2>3
<1>4. ASSUME NEW s \in SubDomain PROVE Array!binary_search(q, s) <=> s \in Array!ToSet(q)
  <2>1. PICK c : c = Array!lower_bound(q, s)
    OBVIOUS
  <2>2. c \in Nat /\ 1 <= c
    <3>1. IsFiniteSet(1 .. n)
      BY FS_Interval
    <3>2. {i \in 1 .. n : q[i] < s} \in SUBSET (1 .. n)
      OBVIOUS
    <3>3. Cardinality({i \in 1 .. n : q[i] < s}) \in Nat
      BY <3>1, <3>2, FS_Subset, FS_CardinalityType
    <3>4. c = Cardinality({i \in 1 .. n : q[i] < s}) + 1
      BY <1>2, <2>1, SameCount DEF Array!lower_bound
    <3>. QED
      BY <3>3, <3>4
  <2>3. Array!binary_search(q, s) <=> c <= n /\ q[c] = s
    BY <1>2, <2>1 DEF Array!binary_search
  <2>4. c <= n => c \in 1 .. n
    BY <2>2
  <2>5. ASSUME s \in Array!ToSet(q) PROVE c <= n /\ q[c] = s
    <3>1. PICK k \in 1 .. n : q[k] = s
      BY <1>2, <2>5 DEF Array!ToSet
    <3>2. c = k
      BY <1>3, <2>1, <3>1
    <3>. QED
      BY <3>1, <3>2
  <2>6. ASSUME c <= n, q[c] = s PROVE s \in Array!ToSet(q)
    BY <1>2, <2>4, <2>6 DEF Array!ToSet
  <2>. QED
    BY <2>3, <2>5, <2>6
<1>. QED
  BY <1>2, <1>3, <1>4

(* The values of an ascending sequence are all different.                  *)
LEMMA AscendsDistinct ==
  ASSUME NEW S \in SUBSET Nat, NEW q \in Seq(S), Ascends(q)
  PROVE  \A i, j \in 1 .. Len(q) : q[i] = q[j] => i = j
<1>1. Len(q) \in Nat /\ DOMAIN q = 1 .. Len(q) /\ q \in [1 .. Len(q) -> S]
  BY LenProperties
<1>2. ASSUME NEW i \in 1 .. Len(q), NEW j \in 1 .. Len(q), q[i] = q[j] PROVE i = j
  <2>1. q[i] \in Nat /\ q[j] \in Nat
    BY <1>1
  <2>2. ~(i < j) /\ ~(j < i)
    BY <1>1, <1>2, <2>1 DEF Ascends
  <2>. QED
    BY <2>2
<1>. QED
  BY <1>2

(* A sequence of different values has as many values as places.            *)
LEMMA CountValues ==
  ASSUME NEW S, NEW q \in Seq(S)
  PROVE  /\ IsFiniteSet(Array!ToSet(q)) /\ Cardinality(Array!ToSet(q)) <= Len(q)
         /\ (\A i, j \in 1 .. Len(q) : q[i] = q[j] => i = j)
              => Cardinality(Array!ToSet(q)) = Len(q)
<1>1. Len(q) \in Nat /\ DOMAIN q = 1 .. Len(q) /\ q \in [1 .. Len(q) -> S]
  BY LenProperties
<1>2. PICK K : K = Array!ToSet(q)
  OBVIOUS
<1>3. K = {q[i] : i \in 1 .. Len(q)}
  BY <1>1, <1>2 DEF Array!ToSet
<1>4. q \in Surjection(1 .. Len(q), K)
  BY <1>1, <1>3 DEF Surjection
<1>5. IsFiniteSet(1 .. Len(q)) /\ Cardinality(1 .. Len(q)) = Len(q)
  <2>1. \A n \in Nat : IsFiniteSet(1 .. n) /\ Cardinality(1 .. n) = n
    BY FS_Interval
  <2>. QED
    BY <1>1, <2>1
<1>6. /\ IsFiniteSet(K)
      /\ Cardinality(K) <= Cardinality(1 .. Len(q))
      /\ Cardinality(K) = Cardinality(1 .. Len(q)) <=> q \in Injection(1 .. Len(q), K)
  BY <1>4, <1>5, FS_Surjection
<1>7. (\A i, j \in 1 .. Len(q) : q[i] = q[j] => i = j) => q \in Injection(1 .. Len(q), K)
  BY <1>4 DEF Surjection, Injection, IsInjective
<1>. QED
  BY <1>2, <1>5, <1>6, <1>7

(* Sorting different values leaves them all, in ascending order.           *)
LEMMA SortedRight ==
  ASSUME NEW S \in SUBSET Nat, NEW q \in Seq(S),
         \A i, j \in 1 .. Len(q) : q[i] = q[j] => i = j
  PROVE  /\ Array!Sorted(q) \in Seq(S)
         /\ Len(Array!Sorted(q)) = Len(q)
         /\ Ascends(Array!Sorted(q))
         /\ Array!ToSet(Array!Sorted(q)) = Array!ToSet(q)
<1>1. PICK n \in Nat : n = Len(q) /\ DOMAIN q = 1 .. n /\ q \in [1 .. n -> S]
  BY LenProperties
<1>2. PICK K : K = Array!ToSet(q) /\ K = {q[i] : i \in 1 .. n}
  BY <1>1 DEF Array!ToSet
<1>3. IsFiniteSet(K) /\ Cardinality(K) = n
  BY <1>1, <1>2, CountValues
<1>4. K \in SUBSET Nat
  BY <1>1, <1>2
<1>5. PICK e \in [1 .. n -> K] : Ascends(e) /\ \A k \in K : \E i \in 1 .. n : e[i] = k
  <2>1. \E e \in [1 .. Cardinality(K) -> K] :
          Ascends(e) /\ \A k \in K : \E i \in 1 .. Cardinality(K) : e[i] = k
    BY <1>3, <1>4, Enumeration
  <2>. QED
    BY <1>3, <2>1, Zenon
<1>6. PICK g : g = [i \in 1 .. n |-> CHOOSE j \in 1 .. n : q[j] = e[i]]
  OBVIOUS
<1>7. \A i \in 1 .. n : g[i] \in 1 .. n /\ q[g[i]] = e[i]
  <2>1. ASSUME NEW i \in 1 .. n PROVE g[i] \in 1 .. n /\ q[g[i]] = e[i]
    <3>1. e[i] \in K
      BY <1>5
    <3>2. \E j \in 1 .. n : q[j] = e[i]
      BY <1>2, <3>1
    <3>3. g[i] = CHOOSE j \in 1 .. n : q[j] = e[i]
      BY <1>6
    <3>. QED
      BY <3>2, <3>3
  <2>. QED
    BY <2>1
<1>8. g \in [1 .. n -> 1 .. n]
  BY <1>6, <1>7
<1>9. \A i, j \in 1 .. n : g[i] = g[j] => i = j
  <2>1. ASSUME NEW i \in 1 .. n, NEW j \in 1 .. n, g[i] = g[j] PROVE i = j
    <3>1. e[i] = e[j]
      BY <1>7, <2>1
    <3>2. e[i] \in Nat /\ e[j] \in Nat
      BY <1>4, <1>5
    <3>3. ~(i < j) /\ ~(j < i)
      BY <1>5, <3>1, <3>2 DEF Ascends
    <3>. QED
      BY <3>3
  <2>. QED
    BY <2>1
<1>10. ASSUME NEW i \in 1 .. n, NEW j \in 1 .. n, i < j PROVE q[g[i]] <= q[g[j]]
  <2>1. e[i] \in Nat /\ e[j] \in Nat /\ e[i] < e[j]
    BY <1>4, <1>5, <1>10 DEF Ascends
  <2>. QED
    BY <1>7, <2>1
<1> DEFINE Perms == Array!Injection(DOMAIN q, DOMAIN q)
           from == CHOOSE f \in Perms : \A i, j \in DOMAIN q : i < j => q[f[i]] <= q[f[j]]
<1>11. Perms = {f \in [1 .. n -> 1 .. n] : \A i, j \in 1 .. n : f[i] = f[j] => i = j}
  BY <1>1 DEF Array!Injection, Array!IsInjective
<1>12. g \in Perms /\ \A i, j \in DOMAIN q : i < j => q[g[i]] <= q[g[j]]
  <2>. HIDE DEF Perms
  <2>. QED
    BY <1>1, <1>8, <1>9, <1>10, <1>11
<1>13. Array!Sorted(q) = [i \in DOMAIN q |-> q[from[i]]]
  BY Zenon DEF Array!Sorted
<1>14. from \in Perms /\ \A i, j \in DOMAIN q : i < j => q[from[i]] <= q[from[j]]
  <2>. HIDE DEF Perms
  <2>. QED
    BY <1>12, Zenon
<1>. HIDE DEF from, Perms
<1>15. PICK f : f = from
  OBVIOUS
<1>16. /\ f \in [1 .. n -> 1 .. n]
       /\ \A i, j \in 1 .. n : f[i] = f[j] => i = j
       /\ \A i, j \in 1 .. n : i < j => q[f[i]] <= q[f[j]]
  BY <1>1, <1>11, <1>14, <1>15
<1>17. \A j \in 1 .. n : \E i \in 1 .. n : f[i] = j
  <2>1. f \in Injection(1 .. n, 1 .. n)
    BY <1>16 DEF Injection, IsInjective
  <2>2. IsFiniteSet(1 .. n)
    BY FS_Interval
  <2>3. f \in Surjection(1 .. n, 1 .. n)
    BY <2>1, <2>2, FS_Injection
  <2>. QED
    BY <2>3 DEF Surjection
<1>18. PICK r : r = Array!Sorted(q) /\ r = [i \in 1 .. n |-> q[f[i]]]
  BY <1>1, <1>13, <1>15
<1>19. r \in [1 .. n -> S]
  BY <1>1, <1>16, <1>18
<1>20. r \in Seq(S) /\ Len(r) = n /\ DOMAIN r = 1 .. n
  BY <1>19
<1>21. ASSUME NEW i \in 1 .. n, NEW j \in 1 .. n, i < j PROVE r[i] < r[j]
  <2>1. f[i] \in 1 .. n /\ f[j] \in 1 .. n /\ f[i] # f[j] /\ q[f[i]] <= q[f[j]]
    BY <1>16, <1>21
  <2>2. q[f[i]] # q[f[j]]
    BY <1>1, <2>1
  <2>3. q[f[i]] \in Nat /\ q[f[j]] \in Nat
    BY <1>1, <2>1
  <2>4. q[f[i]] < q[f[j]]
    BY <2>1, <2>2, <2>3
  <2>. QED
    BY <1>18, <2>4
<1>22. Array!ToSet(r) = K
  <2>1. Array!ToSet(r) = {r[i] : i \in 1 .. n}
    BY <1>20 DEF Array!ToSet
  <2>2. ASSUME NEW i \in 1 .. n PROVE r[i] \in K
    <3>1. f[i] \in 1 .. n /\ r[i] = q[f[i]]
      BY <1>16, <1>18
    <3>. QED
      BY <1>2, <3>1
  <2>3. ASSUME NEW j \in 1 .. n PROVE \E i \in 1 .. n : r[i] = q[j]
    <3>1. PICK i \in 1 .. n : f[i] = j
      BY <1>17
    <3>. QED
      BY <1>18, <3>1
  <2>4. ASSUME NEW k \in K PROVE \E i \in 1 .. n : r[i] = k
    <3>1. PICK j \in 1 .. n : q[j] = k
      BY <1>2
    <3>. QED
      BY <2>3, <3>1
  <2>. QED
    BY <2>1, <2>2, <2>4
<1>23. Ascends(r)
  BY <1>20, <1>21 DEF Ascends
<1>. QED
  BY <1>1, <1>2, <1>18, <1>20, <1>22, <1>23

(* The difference keeps, in their order, the values the other lacks.       *)
LEMMA DifferenceRight ==
  ASSUME NEW S \in SUBSET Nat, NEW q \in Seq(S), Ascends(q), NEW r
  PROVE  /\ Array!set_difference(q, r) \in Seq(S)
         /\ Len(Array!set_difference(q, r)) <= Len(q)
         /\ Ascends(Array!set_difference(q, r))
         /\ Array!ToSet(Array!set_difference(q, r)) = Array!ToSet(q) \ Array!ToSet(r)
<1>1. PICK n \in Nat : n = Len(q) /\ DOMAIN q = 1 .. n /\ q \in [1 .. n -> S]
  BY LenProperties
<1> DEFINE kept == {i \in DOMAIN q : q[i] \notin Array!ToSet(r)}
           from == CHOOSE f \in [1 .. Array!Cardinality(kept) -> kept] :
                     \A i, j \in DOMAIN f : i < j => f[i] < f[j]
<1>2. Array!set_difference(q, r) = [i \in DOMAIN from |-> q[from[i]]]
  BY Zenon DEF Array!set_difference
<1>3. PICK K : K = kept /\ K = {i \in 1 .. n : q[i] \notin Array!ToSet(r)}
  BY <1>1
<1>4. K \in SUBSET (1 .. n) /\ K \in SUBSET Nat
  BY <1>3
<1>5. IsFiniteSet(1 .. n) /\ Cardinality(1 .. n) = n
  <2>1. \A m \in Nat : IsFiniteSet(1 .. m) /\ Cardinality(1 .. m) = m
    BY FS_Interval
  <2>. QED
    BY <2>1
<1>6. IsFiniteSet(K) /\ Cardinality(K) <= n
  BY <1>4, <1>5, FS_Subset
<1>7. PICK c \in Nat : c = Cardinality(K)
  BY <1>6, FS_CardinalityType
<1>8. PICK e \in [1 .. c -> K] : Ascends(e)
  BY <1>4, <1>6, <1>7, Enumeration
<1>9. Array!Cardinality(kept) = c
  <2>. HIDE DEF kept
  <2>. QED
    BY <1>3, <1>7, SameCount
<1>10. from \in [1 .. c -> K] /\ \A i, j \in DOMAIN from : i < j => from[i] < from[j]
  <2>1. \E f \in [1 .. Array!Cardinality(kept) -> kept] :
           \A i, j \in DOMAIN f : i < j => f[i] < f[j]
    <3>. HIDE DEF kept
    <3>. QED
      BY <1>3, <1>8, <1>9 DEF Ascends
  <2>2. /\ from \in [1 .. Array!Cardinality(kept) -> kept]
        /\ \A i, j \in DOMAIN from : i < j => from[i] < from[j]
    <3>. HIDE DEF kept
    <3>. QED
      BY <2>1, Zenon
  <2>. HIDE DEF kept, from
  <2>. QED
    BY <1>3, <1>9, <2>2
<1>. HIDE DEF from, kept
<1>11. PICK f : f = from
  OBVIOUS
<1>12. f \in [1 .. c -> K] /\ \A i, j \in 1 .. c : i < j => f[i] < f[j]
  BY <1>10, <1>11
<1>13. PICK d : d = Array!set_difference(q, r) /\ d = [i \in 1 .. c |-> q[f[i]]]
  BY <1>2, <1>11, <1>12
<1>14. d \in [1 .. c -> S]
  BY <1>1, <1>4, <1>12, <1>13
<1>15. d \in Seq(S) /\ Len(d) = c /\ DOMAIN d = 1 .. c
  BY <1>14
<1>16. ASSUME NEW i \in 1 .. c, NEW j \in 1 .. c, i < j PROVE d[i] < d[j]
  <2>1. f[i] \in 1 .. n /\ f[j] \in 1 .. n /\ f[i] < f[j]
    BY <1>4, <1>12, <1>16
  <2>2. q[f[i]] < q[f[j]]
    BY <1>1, <2>1 DEF Ascends
  <2>. QED
    BY <1>13, <2>2
<1>17. \A k \in K : \E i \in 1 .. c : f[i] = k
  <2>1. \A i, j \in 1 .. c : f[i] = f[j] => i = j
    <3>1. ASSUME NEW i \in 1 .. c, NEW j \in 1 .. c, f[i] = f[j] PROVE i = j
      <4>1. f[i] \in Nat /\ f[j] \in Nat
        BY <1>4, <1>12
      <4>2. ~(i < j) /\ ~(j < i)
        BY <1>12, <3>1, <4>1
      <4>. QED
        BY <4>2
    <3>. QED
      BY <3>1
  <2>2. f \in Injection(1 .. c, K)
    BY <1>12, <2>1 DEF Injection, IsInjective
  <2>3. Cardinality(1 .. c) = c
    <3>1. \A m \in Nat : Cardinality(1 .. m) = m
      BY FS_Interval
    <3>. QED
      BY <3>1
  <2>4. f \in Surjection(1 .. c, K)
    BY <1>6, <1>7, <2>2, <2>3, FS_Injection
  <2>. QED
    BY <2>4 DEF Surjection
<1>18. {d[i] : i \in 1 .. c} = {q[i] : i \in 1 .. n} \ Array!ToSet(r)
  <2>1. ASSUME NEW i \in 1 .. c PROVE d[i] \in {q[j] : j \in 1 .. n} \ Array!ToSet(r)
    <3>1. f[i] \in K
      BY <1>12
    <3>2. f[i] \in 1 .. n /\ q[f[i]] \notin Array!ToSet(r)
      BY <1>3, <3>1
    <3>. QED
      BY <1>13, <3>2
  <2>2. ASSUME NEW j \in 1 .. n, q[j] \notin Array!ToSet(r) PROVE \E i \in 1 .. c : d[i] = q[j]
    <3>1. j \in K
      BY <1>3, <2>2
    <3>2. PICK i \in 1 .. c : f[i] = j
      BY <1>17, <3>1
    <3>. QED
      BY <1>13, <3>2
  <2>. QED
    BY <2>1, <2>2
<1>19. Array!ToSet(d) = {d[i] : i \in 1 .. c} /\ Array!ToSet(q) = {q[i] : i \in 1 .. n}
  BY <1>1, <1>15 DEF Array!ToSet
<1>20. Ascends(d)
  BY <1>15, <1>16 DEF Ascends
<1>. QED
  BY <1>1, <1>6, <1>7, <1>13, <1>15, <1>18, <1>19, <1>20

(* The union has the values of both, each once.                            *)
LEMMA UnionRight ==
  ASSUME NEW S \in SUBSET Nat, NEW q \in Seq(S), Ascends(q), NEW r \in Seq(S), Ascends(r)
  PROVE  /\ Array!set_union(q, r) \in Seq(S)
         /\ Ascends(Array!set_union(q, r))
         /\ Array!ToSet(Array!set_union(q, r)) = Array!ToSet(q) \cup Array!ToSet(r)
<1>1. PICK d : /\ d = Array!set_difference(r, q) /\ d \in Seq(S) /\ Ascends(d)
               /\ Array!ToSet(d) = Array!ToSet(r) \ Array!ToSet(q)
  BY DifferenceRight
<1>2. PICK n \in Nat : n = Len(q) /\ DOMAIN q = 1 .. n /\ q \in [1 .. n -> S]
  BY LenProperties
<1>3. PICK m \in Nat : m = Len(d) /\ DOMAIN d = 1 .. m /\ d \in [1 .. m -> S]
  BY <1>1, LenProperties
<1>4. PICK u : u = q \o d
  OBVIOUS
<1>5. /\ u \in Seq(S) /\ Len(u) = n + m
      /\ \A i \in 1 .. n + m : u[i] = IF i <= n THEN q[i] ELSE d[i - n]
  BY <1>1, <1>2, <1>3, <1>4, ConcatProperties
<1>6. Array!ToSet(q) = {q[i] : i \in 1 .. n} /\ Array!ToSet(d) = {d[i] : i \in 1 .. m}
  BY <1>2, <1>3 DEF Array!ToSet
<1>7. DOMAIN u = 1 .. n + m
  BY <1>5, LenProperties
<1>8. ASSUME NEW i \in 1 .. n + m
      PROVE  \/ i \in 1 .. n /\ u[i] = q[i] /\ u[i] \in Array!ToSet(q)
             \/ /\ i - n \in 1 .. m /\ ~(i <= n) /\ u[i] = d[i - n]
                /\ u[i] \in Array!ToSet(d) /\ u[i] \notin Array!ToSet(q)
  <2>1. CASE i <= n
    <3>1. i \in 1 .. n
      BY <2>1
    <3>. QED
      BY <1>5, <1>6, <2>1, <3>1
  <2>2. CASE ~(i <= n)
    <3>1. i - n \in 1 .. m
      BY <2>2
    <3>2. u[i] = d[i - n]
      BY <1>5, <2>2
    <3>3. u[i] \in Array!ToSet(d)
      BY <1>6, <3>1, <3>2
    <3>. QED
      BY <1>1, <2>2, <3>1, <3>2, <3>3
  <2>. QED
    BY <2>1, <2>2
<1>9. \A i, j \in 1 .. n : q[i] = q[j] => i = j
  BY <1>2, AscendsDistinct
<1>10. \A i, j \in 1 .. m : d[i] = d[j] => i = j
  BY <1>1, <1>3, AscendsDistinct
<1>11. ASSUME NEW i \in 1 .. n + m, NEW j \in 1 .. n + m, u[i] = u[j] PROVE i = j
  <2>1. CASE i \in 1 .. n /\ u[i] = q[i] /\ u[i] \in Array!ToSet(q)
    <3>1. j \in 1 .. n /\ u[j] = q[j]
      BY <1>8, <1>11, <2>1
    <3>. QED
      BY <1>9, <1>11, <2>1, <3>1
  <2>2. CASE i - n \in 1 .. m /\ u[i] = d[i - n] /\ u[i] \notin Array!ToSet(q)
    <3>1. j - n \in 1 .. m /\ u[j] = d[j - n]
      BY <1>8, <1>11, <2>2
    <3>2. i - n = j - n
      BY <1>10, <1>11, <2>2, <3>1
    <3>. QED
      BY <3>2
  <2>. QED
    BY <1>8, <2>1, <2>2
<1>12. Array!ToSet(u) = Array!ToSet(q) \cup Array!ToSet(d)
  <2>1. Array!ToSet(u) = {u[i] : i \in 1 .. n + m}
    BY <1>7 DEF Array!ToSet
  <2>2. \A i \in 1 .. n + m : u[i] \in Array!ToSet(q) \cup Array!ToSet(d)
    BY <1>8
  <2>3. ASSUME NEW i \in 1 .. n PROVE \E k \in 1 .. n + m : u[k] = q[i]
    <3>1. i \in 1 .. n + m /\ i <= n
      OBVIOUS
    <3>. QED
      BY <1>5, <3>1
  <2>4. ASSUME NEW i \in 1 .. m PROVE \E k \in 1 .. n + m : u[k] = d[i]
    <3>1. PICK k \in 1 .. n + m : k = i + n /\ ~(k <= n) /\ k - n = i
      <4>1. i + n \in 1 .. n + m /\ ~(i + n <= n) /\ i + n - n = i
        OBVIOUS
      <4>. QED
        BY <4>1
    <3>. QED
      BY <1>5, <3>1
  <2>. QED
    BY <1>6, <2>1, <2>2, <2>3, <2>4
<1>13. Array!set_union(q, r) = Array!Sorted(u)
  BY <1>1, <1>4 DEF Array!set_union
<1>14. Array!ToSet(q) \cup Array!ToSet(d) = Array!ToSet(q) \cup Array!ToSet(r)
  BY <1>1
<1>15. \A i, j \in 1 .. Len(u) : u[i] = u[j] => i = j
  BY <1>5, <1>11
<1>16. /\ Array!Sorted(u) \in Seq(S) /\ Ascends(Array!Sorted(u))
       /\ Array!ToSet(Array!Sorted(u)) = Array!ToSet(u)
  BY <1>5, <1>15, SortedRight
<1>. QED
  BY <1>12, <1>13, <1>14, <1>16

(* What is between begin() and end() is ascending, whatever is behind it.  *)
ArrayInv ==
  /\ length \in [Name -> 0 .. maxSize]
  /\ array \in [Name -> [1 .. maxSize -> SubDomain]]
  /\ \A n \in Name : Ascends(Array!Live(n))

LEMMA LiveOf ==
  ASSUME Array!ArrayAssumption, NEW a \in [1 .. maxSize -> SubDomain], NEW l \in 0 .. maxSize
  PROVE  /\ SubSeq(a, 1, l) \in Seq(SubDomain)
         /\ Len(SubSeq(a, 1, l)) = l
         /\ \A i \in 1 .. l : SubSeq(a, 1, l)[i] = a[i]
<1>1. l \in Nat /\ maxSize \in Nat /\ \A i \in 1 .. l : a[i] \in SubDomain
  BY DEF Array!ArrayAssumption
<1>2. /\ SubSeq(a, 1, l) \in Seq(SubDomain)
      /\ Len(SubSeq(a, 1, l)) = IF 1 <= l THEN l - 1 + 1 ELSE 0
      /\ \A i \in 1 .. l - 1 + 1 : SubSeq(a, 1, l)[i] = a[1 + i - 1]
  BY <1>1, SubSeqProperties
<1>3. (IF 1 <= l THEN l - 1 + 1 ELSE 0) = l /\ 1 .. l - 1 + 1 = 1 .. l
  BY <1>1
<1>4. \A i \in 1 .. l : 1 + i - 1 = i
  BY <1>1
<1>. QED
  BY <1>2, <1>3, <1>4

LEMMA Lives ==
  ASSUME Array!ArrayAssumption, ArrayInv, NEW n \in Name
  PROVE  /\ Array!Live(n) \in Seq(SubDomain) /\ Ascends(Array!Live(n))
         /\ Len(Array!Live(n)) = length[n] /\ length[n] \in Nat /\ length[n] <= maxSize
         /\ Cardinality(Array!Elements(n)) <= maxSize
<1>1. length[n] \in 0 .. maxSize /\ array[n] \in [1 .. maxSize -> SubDomain] /\ maxSize \in Nat
  BY DEF ArrayInv, Array!ArrayAssumption
<1>2. Array!Live(n) \in Seq(SubDomain) /\ Len(Array!Live(n)) = length[n]
  BY <1>1, LiveOf DEF Array!Live
<1>3. IsFiniteSet(Array!Elements(n)) /\ Cardinality(Array!Elements(n)) <= length[n]
  BY <1>2, CountValues DEF Array!Elements
<1>4. Cardinality(Array!Elements(n)) \in Nat
  BY <1>3, FS_CardinalityType
<1>. QED
  BY <1>1, <1>2, <1>3, <1>4 DEF ArrayInv

(* An object whose array begins with q, and says so, is the set of the     *)
(* values of q.                                                            *)
LEMMA Written ==
  ASSUME Array!ArrayAssumption, ArrayInv, NEW n \in Name,
         NEW q \in Seq(SubDomain), Ascends(q), Len(q) <= maxSize,
         NEW r \in Seq(SubDomain), Len(q) <= Len(r), \A i \in 1 .. Len(q) : r[i] = q[i],
         array' = [array EXCEPT ![n] = Array!Overwritten(n, r)],
         length' = [length EXCEPT ![n] = Len(q)]
  PROVE  ArrayInv' /\ Array!AsSet!Becomes(n, Array!ToSet(q))
<1>1. PICK c \in Nat : c = Len(q) /\ c <= maxSize
  BY LenProperties
<1>2. Len(r) \in Nat /\ r \in [1 .. Len(r) -> SubDomain]
  BY LenProperties
<1>3. PICK a : a = Array!Overwritten(n, r)
  OBVIOUS
<1>4. /\ length \in [Name -> 0 .. maxSize] /\ array \in [Name -> [1 .. maxSize -> SubDomain]]
      /\ maxSize \in Nat
  BY DEF ArrayInv, Array!ArrayAssumption
<1>5. a = [i \in 1 .. maxSize |-> IF i <= Len(r) THEN r[i] ELSE array[n][i]]
  BY <1>3 DEF Array!Overwritten
<1>6. a \in [1 .. maxSize -> SubDomain]
  <2>1. ASSUME NEW i \in 1 .. maxSize
        PROVE  (IF i <= Len(r) THEN r[i] ELSE array[n][i]) \in SubDomain
    <3>1. i <= Len(r) => i \in 1 .. Len(r)
      BY <1>2
    <3>2. array[n][i] \in SubDomain
      BY <1>4
    <3>. QED
      BY <1>2, <3>1, <3>2
  <2>. QED
    BY <1>5, <2>1
<1>7. \A i \in 1 .. c : a[i] = q[i]
  <2>1. ASSUME NEW i \in 1 .. c PROVE a[i] = q[i]
    <3>1. i \in 1 .. maxSize /\ i <= Len(r)
      BY <1>1, <1>2, <1>4
    <3>2. a[i] = r[i]
      BY <1>5, <3>1
    <3>. QED
      BY <1>1, <3>2
  <2>. QED
    BY <2>1
<1>8. c \in 0 .. maxSize
  BY <1>1, <1>4
<1>9. SubSeq(a, 1, c) = q
  <2>1. /\ SubSeq(a, 1, c) \in Seq(SubDomain) /\ Len(SubSeq(a, 1, c)) = c
        /\ \A i \in 1 .. c : SubSeq(a, 1, c)[i] = a[i]
    BY <1>6, <1>8, LiveOf
  <2>2. \A i \in 1 .. c : SubSeq(a, 1, c)[i] = q[i]
    BY <1>7, <2>1
  <2>. QED
    BY <1>1, <2>1, <2>2, SeqEqual
<1>10. /\ array' = [array EXCEPT ![n] = a] /\ length' = [length EXCEPT ![n] = c]
  BY <1>1, <1>3
<1>11. array'[n] = a /\ length'[n] = c
  BY <1>4, <1>10
<1>12. \A k \in Name : k # n => array'[k] = array[k] /\ length'[k] = length[k]
  BY <1>4, <1>10
<1>13. ArrayInv'
  <2>1. length' \in [Name -> 0 .. maxSize] /\ array' \in [Name -> [1 .. maxSize -> SubDomain]]
    BY <1>4, <1>6, <1>8, <1>10
  <2>2. ASSUME NEW k \in Name PROVE Ascends(SubSeq(array'[k], 1, length'[k]))
    <3>1. CASE k = n
      BY <1>9, <1>11, <3>1
    <3>2. CASE k # n
      <4>1. Ascends(SubSeq(array[k], 1, length[k]))
        BY DEF ArrayInv, Array!Live
      <4>. QED
        BY <1>12, <3>2, <4>1
    <3>. QED
      BY <3>1, <3>2
  <2>. QED
    BY <2>1, <2>2 DEF ArrayInv, Array!Live
<1>14. Cardinality(Array!ToSet(q)) <= maxSize
  <2>1. IsFiniteSet(Array!ToSet(q)) /\ Cardinality(Array!ToSet(q)) <= c
    BY <1>1, CountValues
  <2>2. Cardinality(Array!ToSet(q)) \in Nat
    BY <2>1, FS_CardinalityType
  <2>. QED
    BY <1>1, <1>4, <2>1, <2>2
<1>15. \A k \in Name : Array!ToSet(SubSeq(array'[k], 1, length'[k]))
                         = IF k = n THEN Array!ToSet(q)
                           ELSE Array!ToSet(SubSeq(array[k], 1, length[k]))
  <2>1. ASSUME NEW k \in Name, k # n
        PROVE  Array!ToSet(SubSeq(array'[k], 1, length'[k]))
                 = Array!ToSet(SubSeq(array[k], 1, length[k]))
    <3>1. array'[k] = array[k] /\ length'[k] = length[k]
      BY <1>12, <2>1
    <3>. QED
      BY <3>1, Zenon
  <2>2. Array!ToSet(SubSeq(array'[n], 1, length'[n])) = Array!ToSet(q)
    BY <1>9, <1>11, Zenon
  <2>. QED
    BY <2>1, <2>2, Zenon
<1>16. [k \in Name |-> Array!ToSet(SubSeq(array'[k], 1, length'[k]))]
         = [[k \in Name |-> Array!ToSet(SubSeq(array[k], 1, length[k]))]
              EXCEPT ![n] = Array!ToSet(q)]
  BY <1>15
<1>17. Array!AsSet!Becomes(n, Array!ToSet(q))
  BY <1>14, <1>16, SameCount DEF Array!AsSet!Becomes, Array!Elements, Array!Live
<1>. QED
  BY <1>13, <1>17

(* An operation that changes nothing leaves the set as it is.              *)
LEMMA LeftAlone ==
  ASSUME Array!ArrayAssumption, ArrayInv, NEW n \in Name, UNCHANGED Array!vars
  PROVE  ArrayInv' /\ Array!AsSet!Becomes(n, Array!Elements(n))
<1>1. array' = array /\ length' = length
  BY DEF Array!vars
<1>2. ArrayInv'
  BY <1>1 DEF ArrayInv, Array!Live
<1>3. Cardinality(Array!Elements(n)) <= maxSize
  BY Lives
<1>4. [k \in Name |-> Array!ToSet(SubSeq(array'[k], 1, length'[k]))]
        = [[k \in Name |-> Array!ToSet(SubSeq(array[k], 1, length[k]))]
             EXCEPT ![n] = Array!ToSet(SubSeq(array[n], 1, length[n]))]
  BY <1>1
<1>5. Array!AsSet!Becomes(n, Array!Elements(n))
  BY <1>3, <1>4, SameCount DEF Array!AsSet!Becomes, Array!Elements, Array!Live
<1>. QED
  BY <1>2, <1>5

LEMMA ArrayAdds ==
  ASSUME Array!ArrayAssumption, ArrayInv, NEW n \in Name, NEW s \in SubDomain, Array!add(n, s)
  PROVE  ArrayInv' /\ Array!AsSet!Becomes(n, Array!Elements(n) \cup {s})
<1>1. PICK q \in Seq(SubDomain) :
        q = Array!Live(n) /\ Ascends(q) /\ Len(q) = length[n] /\ Len(q) \in Nat
  BY Lives
<1>2. Array!Elements(n) = Array!ToSet(q)
  BY <1>1 DEF Array!Elements
<1>3. CASE Array!binary_search(q, s)
  <2>1. s \in Array!Elements(n)
    BY <1>1, <1>2, <1>3, LowerBoundFinds
  <2>2. UNCHANGED Array!vars
    BY <1>1, <1>3 DEF Array!add
  <2>3. Array!Elements(n) \cup {s} = Array!Elements(n)
    BY <2>1
  <2>. QED
    BY <2>2, <2>3, LeftAlone
<1>4. CASE ~Array!binary_search(q, s)
  <2>1. /\ length[n] < maxSize
        /\ array' = [array EXCEPT ![n] = Array!Overwritten(n, Array!Sorted(Append(q, s)))]
        /\ length' = [length EXCEPT ![n] = length[n] + 1]
    BY <1>1, <1>4 DEF Array!add
  <2>2. s \notin Array!ToSet(q)
    BY <1>1, <1>4, LowerBoundFinds
  <2>3. SubDomain \in SUBSET Nat /\ maxSize \in Nat
    BY DEF Array!ArrayAssumption
  <2>4. PICK u : u = Append(q, s)
    OBVIOUS
  <2>5. PICK m \in Nat : m = Len(q) + 1 /\ Len(q) = m - 1
    BY <1>1
  <2>6. /\ u \in Seq(SubDomain) /\ Len(u) = m
        /\ \A i \in 1 .. Len(q) : u[i] = q[i]
        /\ u[m] = s
    BY <1>1, <2>4, <2>5, AppendProperties
  <2>7. Array!ToSet(q) = {q[i] : i \in 1 .. Len(q)}
    <3>1. DOMAIN q = 1 .. Len(q)
      BY LenProperties
    <3>. QED
      BY <3>1 DEF Array!ToSet
  <2>8. Array!ToSet(u) = {u[i] : i \in 1 .. m}
    <3>1. DOMAIN u = 1 .. m
      BY <2>6, LenProperties
    <3>. QED
      BY <3>1 DEF Array!ToSet
  <2>9. \A i \in 1 .. m : i \in 1 .. Len(q) \/ i = m
    BY <2>5
  <2>10. Array!ToSet(u) = Array!ToSet(q) \cup {s}
    <3>1. m \in 1 .. m /\ \A i \in 1 .. Len(q) : i \in 1 .. m
      BY <1>1, <2>5
    <3>2. \A i \in 1 .. m : u[i] \in Array!ToSet(q) \cup {s}
      BY <2>6, <2>7, <2>9
    <3>3. s \in Array!ToSet(u)
      BY <2>6, <2>8, <3>1
    <3>4. \A i \in 1 .. Len(q) : q[i] \in Array!ToSet(u)
      BY <2>6, <2>8, <3>1
    <3>. QED
      BY <2>7, <2>8, <3>2, <3>3, <3>4
  <2>11. \A i, j \in 1 .. Len(u) : u[i] = u[j] => i = j
    <3>1. \A i, j \in 1 .. Len(q) : q[i] = q[j] => i = j
      BY <1>1, <2>3, AscendsDistinct
    <3>2. \A i \in 1 .. Len(q) : u[i] # s
      BY <2>2, <2>6, <2>7
    <3>. QED
      BY <2>6, <2>9, <3>1, <3>2
  <2>12. PICK z \in Seq(SubDomain) :
           z = Array!Sorted(u) /\ Len(z) = m /\ Ascends(z) /\ Array!ToSet(z) = Array!ToSet(u)
    BY <2>3, <2>6, <2>11, SortedRight
  <2>13. array' = [array EXCEPT ![n] = Array!Overwritten(n, z)] /\ length' = [length EXCEPT ![n] = Len(z)]
    BY <1>1, <2>1, <2>4, <2>5, <2>12
  <2>14. Len(z) <= maxSize /\ Len(z) <= Len(z)
    <3>1. PICK l \in Nat : l = length[n] /\ l < maxSize /\ m = l + 1
      BY <1>1, <2>1, <2>5
    <3>2. m <= maxSize /\ m <= m
      BY <2>3, <3>1
    <3>. QED
      BY <2>12, <3>2
  <2>15. ArrayInv' /\ Array!AsSet!Becomes(n, Array!ToSet(z))
    BY <2>12, <2>13, <2>14, Written
  <2>. QED
    BY <1>2, <2>10, <2>12, <2>15
<1>. QED
  BY <1>3, <1>4

LEMMA ArraySets ==
  ASSUME Array!ArrayAssumption, ArrayInv, NEW n \in Name, NEW s \in SubDomain, Array!set(n, s)
  PROVE  ArrayInv' /\ Array!AsSet!Becomes(n, {s})
<1>1. array \in [Name -> [1 .. maxSize -> SubDomain]] /\ maxSize \in Nat /\ 1 <= maxSize
  BY DEF ArrayInv, Array!ArrayAssumption
<1>2. PICK q \in Seq(SubDomain) : q = <<s>> /\ Len(q) = 1 /\ q[1] = s /\ DOMAIN q = 1 .. 1
  <2>1. <<s>> \in Seq(SubDomain) /\ Len(<<s>>) = 1 /\ <<s>>[1] = s /\ DOMAIN <<s>> = 1 .. 1
    OBVIOUS
  <2>. QED
    BY <2>1
<1>3. Array!Overwritten(n, q) = [array[n] EXCEPT ![1] = s]
  <2>1. Array!Overwritten(n, q) = [i \in 1 .. maxSize |-> IF i <= 1 THEN q[i] ELSE array[n][i]]
    BY <1>2 DEF Array!Overwritten
  <2>2. \A i \in 1 .. maxSize : i <= 1 <=> i = 1
    OBVIOUS
  <2>. QED
    BY <1>1, <1>2, <2>1, <2>2
<1>4. array' = [array EXCEPT ![n] = Array!Overwritten(n, q)] /\ length' = [length EXCEPT ![n] = Len(q)]
  BY <1>2, <1>3 DEF Array!set
<1>5. Ascends(q) /\ Array!ToSet(q) = {s}
  BY <1>2 DEF Ascends, Array!ToSet
<1>6. Len(q) <= maxSize /\ Len(q) <= Len(q)
  BY <1>1, <1>2
<1>. QED
  BY <1>4, <1>5, <1>6, Written

LEMMA ArrayClears ==
  ASSUME Array!ArrayAssumption, ArrayInv, NEW n \in Name, Array!clear(n)
  PROVE  ArrayInv' /\ Array!AsSet!Becomes(n, {})
<1>1. array \in [Name -> [1 .. maxSize -> SubDomain]] /\ maxSize \in Nat
  BY DEF ArrayInv, Array!ArrayAssumption
<1>2. PICK q \in Seq(SubDomain) : q = <<>> /\ Len(q) = 0 /\ DOMAIN q = {}
  <2>1. <<>> \in Seq(SubDomain) /\ Len(<<>>) = 0 /\ DOMAIN <<>> = {}
    BY EmptySeq
  <2>. QED
    BY <2>1
<1>3. Array!Overwritten(n, q) = array[n]
  <2>1. Array!Overwritten(n, q) = [i \in 1 .. maxSize |-> IF i <= 0 THEN q[i] ELSE array[n][i]]
    BY <1>2 DEF Array!Overwritten
  <2>2. \A i \in 1 .. maxSize : ~(i <= 0)
    OBVIOUS
  <2>. QED
    BY <1>1, <2>1, <2>2
<1>4. array' = [array EXCEPT ![n] = Array!Overwritten(n, q)] /\ length' = [length EXCEPT ![n] = Len(q)]
  BY <1>1, <1>2, <1>3 DEF Array!clear
<1>5. Ascends(q) /\ Array!ToSet(q) = {}
  BY <1>2 DEF Ascends, Array!ToSet
<1>6. Len(q) <= maxSize /\ Len(q) <= Len(q) /\ \A i \in 1 .. Len(q) : q[i] = q[i]
  BY <1>1, <1>2
<1>. QED
  BY <1>4, <1>5, <1>6, Written

LEMMA ArrayAddsAll ==
  ASSUME Array!ArrayAssumption, ArrayInv, NEW n \in Name, NEW m \in Name, Array!addAll(n, m)
  PROVE  ArrayInv' /\ Array!AsSet!Becomes(n, Array!Elements(n) \cup Array!Elements(m))
<1>1. SubDomain \in SUBSET Nat
  BY DEF Array!ArrayAssumption
<1>2. /\ Array!Live(n) \in Seq(SubDomain) /\ Ascends(Array!Live(n))
      /\ Array!Live(m) \in Seq(SubDomain) /\ Ascends(Array!Live(m))
  BY Lives
<1>3. PICK u \in Seq(SubDomain) :
        /\ u = Array!set_union(Array!Live(n), Array!Live(m)) /\ Ascends(u)
        /\ Array!ToSet(u) = Array!Elements(n) \cup Array!Elements(m)
  BY <1>1, <1>2, UnionRight DEF Array!Elements
<1>4. PICK junk \in SubDomain :
        /\ Len(u) <= maxSize
        /\ array' = [array EXCEPT ![n] = Array!Overwritten(n, Append(u, junk))]
        /\ length' = [length EXCEPT ![n] = Len(u)]
  BY <1>3 DEF Array!addAll, Array!Unwritten
<1>5. /\ Append(u, junk) \in Seq(SubDomain) /\ Len(u) <= Len(Append(u, junk))
      /\ \A i \in 1 .. Len(u) : Append(u, junk)[i] = u[i]
  <2>1. Len(u) \in Nat
    BY LenProperties
  <2>2. /\ Append(u, junk) \in Seq(SubDomain) /\ Len(Append(u, junk)) = Len(u) + 1
        /\ \A i \in 1 .. Len(u) : Append(u, junk)[i] = u[i]
    BY AppendProperties
  <2>. QED
    BY <2>1, <2>2
<1>6. ArrayInv' /\ Array!AsSet!Becomes(n, Array!ToSet(u))
  BY <1>3, <1>4, <1>5, Written
<1>. QED
  BY <1>3, <1>6

LEMMA ArrayTakesDifference ==
  ASSUME Array!ArrayAssumption, ArrayInv, NEW n \in Name, NEW m \in Name, NEW k \in Name,
         Array!difference(n, m, k)
  PROVE  ArrayInv' /\ Array!AsSet!Becomes(n, Array!Elements(m) \ Array!Elements(k))
<1>1. SubDomain \in SUBSET Nat /\ maxSize \in Nat
  BY DEF Array!ArrayAssumption
<1>2. /\ Array!Live(m) \in Seq(SubDomain) /\ Ascends(Array!Live(m))
      /\ Len(Array!Live(m)) \in Nat /\ Len(Array!Live(m)) <= maxSize
  BY Lives
<1>3. PICK d \in Seq(SubDomain) :
        /\ d = Array!set_difference(Array!Live(m), Array!Live(k)) /\ Ascends(d)
        /\ Len(d) <= Len(Array!Live(m))
        /\ Array!ToSet(d) = Array!Elements(m) \ Array!Elements(k)
  BY <1>1, <1>2, DifferenceRight DEF Array!Elements
<1>4. Len(d) \in Nat
  BY LenProperties
<1>5. Len(d) <= maxSize /\ Len(d) <= Len(d)
  BY <1>1, <1>2, <1>3, <1>4
<1>6. /\ array' = [array EXCEPT ![n] = Array!Overwritten(n, d)]
      /\ length' = [length EXCEPT ![n] = Len(d)]
  BY <1>3 DEF Array!difference
<1>7. ArrayInv' /\ Array!AsSet!Becomes(n, Array!ToSet(d))
  BY <1>3, <1>5, <1>6, Written
<1>. QED
  BY <1>3, <1>7

LEMMA ArrayInvInit ==
  ASSUME Array!ArrayAssumption, Array!Init PROVE ArrayInv /\ Array!AsSet!Init
<1>1. /\ length = [n \in Name |-> 0] /\ array \in [Name -> [1 .. maxSize -> SubDomain]]
      /\ maxSize \in Nat
  BY DEF Array!Init, Array!Unwritten, Array!ArrayAssumption
<1>2. ASSUME NEW n \in Name PROVE Array!Live(n) = <<>>
  BY <1>1, SubSeqEmpty DEF Array!Live
<1>3. DOMAIN <<>> = {}
  OBVIOUS
<1>4. Ascends(<<>>) /\ Array!ToSet(<<>>) = {}
  BY <1>3 DEF Ascends, Array!ToSet
<1>5. length \in [Name -> 0 .. maxSize]
  BY <1>1
<1>6. \A n \in Name : Ascends(Array!Live(n)) /\ Array!Elements(n) = {}
  BY <1>2, <1>4 DEF Array!Elements
<1>. QED
  BY <1>1, <1>5, <1>6 DEF ArrayInv, Array!AsSet!Init

LEMMA ArrayInvStep ==
  ASSUME Array!ArrayAssumption, ArrayInv, [Array!NextWithoutRemove]_(Array!vars)
  PROVE  ArrayInv'
<1>1. CASE UNCHANGED Array!vars
  BY <1>1 DEF ArrayInv, Array!vars, Array!Live
<1>2. ASSUME NEW n \in Name, NEW s \in SubDomain, Array!add(n, s) \/ Array!set(n, s)
      PROVE  ArrayInv'
  BY <1>2, ArrayAdds, ArraySets
<1>3. ASSUME NEW n \in Name, Array!clear(n) PROVE ArrayInv'
  BY <1>3, ArrayClears
<1>4. ASSUME NEW n \in Name, NEW m \in Name, Array!addAll(n, m) PROVE ArrayInv'
  BY <1>4, ArrayAddsAll
<1>5. ASSUME NEW n \in Name, NEW m \in Name, NEW k \in Name, Array!difference(n, m, k)
      PROVE  ArrayInv'
  BY <1>5, ArrayTakesDifference
<1>. QED
  BY <1>1, <1>2, <1>3, <1>4, <1>5 DEF Array!NextWithoutRemove

LEMMA ArraySteps ==
  ASSUME Array!ArrayAssumption, ArrayInv PROVE Array!StepsAsSet
<1> DEFINE members == [n \in Name |-> Array!Elements(n)]
<1>1. \A n \in Name : members[n] = Array!Elements(n)
  OBVIOUS
<1>2. ASSUME NEW n \in Name, NEW s \in SubDomain, Array!add(n, s) PROVE Array!AsSet!add(n, s)
  <2>1. Array!AsSet!Becomes(n, Array!Elements(n) \cup {s})
    BY <1>2, ArrayAdds
  <2>. QED
    BY <1>1, <2>1 DEF Array!AsSet!add
<1>3. ASSUME NEW n \in Name, NEW s \in SubDomain, Array!set(n, s) PROVE Array!AsSet!set(n, s)
  <2>1. Array!AsSet!Becomes(n, {s})
    BY <1>3, ArraySets
  <2>. QED
    BY <2>1 DEF Array!AsSet!set
<1>4. ASSUME NEW n \in Name, Array!clear(n) PROVE Array!AsSet!clear(n)
  <2>1. Array!AsSet!Becomes(n, {})
    BY <1>4, ArrayClears
  <2>. QED
    BY <2>1 DEF Array!AsSet!clear
<1>5. ASSUME NEW n \in Name, NEW m \in Name, Array!addAll(n, m) PROVE Array!AsSet!addAll(n, m)
  <2>1. Array!AsSet!Becomes(n, Array!Elements(n) \cup Array!Elements(m))
    BY <1>5, ArrayAddsAll
  <2>. QED
    BY <1>1, <2>1 DEF Array!AsSet!addAll
<1>6. ASSUME NEW n \in Name, NEW m \in Name, NEW k \in Name, Array!difference(n, m, k)
      PROVE  Array!AsSet!difference(n, m, k)
  <2>1. Array!AsSet!Becomes(n, Array!Elements(m) \ Array!Elements(k))
    BY <1>6, ArrayTakesDifference
  <2>. QED
    BY <1>1, <2>1 DEF Array!AsSet!difference
<1>. QED
  BY <1>2, <1>3, <1>4, <1>5, <1>6 DEF Array!StepsAsSet

LEMMA ArrayStepIsSetStep ==
  ASSUME Array!ArrayAssumption, ArrayInv, [Array!NextWithoutRemove]_(Array!vars)
  PROVE  [Array!AsSet!Next]_([n \in Name |-> Array!Elements(n)])
<1>1. Array!StepsAsSet
  BY ArraySteps
<1>2. CASE UNCHANGED Array!vars
  <2>1. [n \in Name |-> Array!Elements(n)]' = [n \in Name |-> Array!Elements(n)]
    BY <1>2 DEF Array!vars, Array!Elements, Array!Live
  <2>. QED
    BY <2>1
<1>3. CASE Array!NextWithoutRemove
  <2>1. Array!AsSet!Next
    BY <1>1, <1>3, Zenon DEF Array!StepsAsSet, Array!NextWithoutRemove, Array!AsSet!Next
  <2>. QED
    BY <2>1
<1>. QED
  BY <1>2, <1>3

(* Two ascending sequences with the same values: the first is no longer    *)
(* than the second and they agree as far as it goes.                       *)
LEMMA SameValues ==
  ASSUME NEW S \in SUBSET Nat, NEW q \in Seq(S), Ascends(q), NEW r \in Seq(S), Ascends(r),
         Array!ToSet(q) = Array!ToSet(r)
  PROVE  Len(q) <= Len(r) /\ \A k \in 1 .. Len(q) : k \in 1 .. Len(r) /\ q[k] = r[k]
<1>1. PICK n \in Nat : n = Len(q) /\ DOMAIN q = 1 .. n /\ q \in [1 .. n -> Nat]
  BY LenProperties
<1>2. PICK m \in Nat : m = Len(r) /\ DOMAIN r = 1 .. m /\ r \in [1 .. m -> Nat]
  BY LenProperties
<1>3. PICK K : K = {q[i] : i \in 1 .. n} /\ K = {r[i] : i \in 1 .. m}
  BY <1>1, <1>2 DEF Array!ToSet
<1>4. ASSUME NEW k \in 1 .. n PROVE k \in 1 .. m /\ q[k] = r[k]
  <2>1. PICK j \in 1 .. m : r[j] = q[k]
    BY <1>3
  <2>2. PICK v \in Nat : v = q[k] /\ v = r[j]
    BY <1>1, <2>1
  <2>3. Cardinality({i \in 1 .. n : q[i] < q[k]}) = k - 1
    BY <1>1, ValuesBelow
  <2>4. Cardinality({i \in 1 .. m : r[i] < r[j]}) = j - 1
    BY <1>2, ValuesBelow
  <2>5. Cardinality({i \in 1 .. n : q[i] < v}) = Cardinality({i \in 1 .. m : r[i] < v})
    <3> DEFINE A == {i \in 1 .. n : q[i] < v}
               B == {i \in 1 .. m : r[i] < v}
               across == [i \in A |-> CHOOSE h \in 1 .. m : r[h] = q[i]]
    <3>1. ASSUME NEW i \in A
          PROVE  across[i] \in 1 .. m /\ r[across[i]] = q[i] /\ across[i] \in B
      <4>1. \E h \in 1 .. m : r[h] = q[i]
        BY <1>3
      <4>. QED
        BY <4>1
    <3>2. \A i, h \in 1 .. n : q[i] = q[h] => i = h
      BY <1>1, AscendsDistinct
    <3>3. \A i, h \in 1 .. m : r[i] = r[h] => i = h
      BY <1>2, AscendsDistinct
    <3>4. ASSUME NEW h \in B PROVE \E i \in A : across[i] = h
      <4>1. PICK i \in 1 .. n : q[i] = r[h]
        BY <1>3
      <4>2. i \in A
        BY <4>1
      <4>3. across[i] \in 1 .. m /\ r[across[i]] = r[h]
        BY <3>1, <4>1, <4>2
      <4>4. across[i] = h
        BY <3>3, <4>3
      <4>. QED
        BY <4>2, <4>4
    <3>5. \A i, h \in A : across[i] = across[h] => i = h
      <4>1. ASSUME NEW i \in A, NEW h \in A, across[i] = across[h] PROVE i = h
        <5>1. q[i] = q[h]
          BY <3>1, <4>1
        <5>. QED
          BY <3>2, <5>1
      <4>. QED
        BY <4>1
    <3>6. across \in [A -> B]
      BY <3>1
    <3>7. IsFiniteSet(A)
      <4>1. IsFiniteSet(1 .. n) /\ A \in SUBSET (1 .. n)
        BY FS_Interval
      <4>. QED
        BY <4>1, FS_Subset
    <3>. HIDE DEF A, B, across
    <3>8. across \in Bijection(A, B)
      BY <3>4, <3>5, <3>6 DEF Bijection, Injection, Surjection, IsInjective
    <3>9. Cardinality(A) = Cardinality(B)
      BY <3>7, <3>8, FS_Bijection DEF ExistsBijection
    <3>. QED
      BY <3>9 DEF A, B
  <2>6. k - 1 = j - 1
    BY <2>2, <2>3, <2>4, <2>5
  <2>7. k = j
    BY <2>6
  <2>. QED
    BY <2>1, <2>7
<1>5. n <= m
  <2>1. CASE n = 0
    BY <2>1
  <2>2. CASE n # 0
    <3>1. n \in 1 .. n
      BY <2>2
    <3>. QED
      BY <1>4, <3>1
  <2>. QED
    BY <2>1, <2>2
<1>. QED
  BY <1>1, <1>2, <1>4, <1>5

LEMMA ArrayQueries ==
  ASSUME Array!ArrayAssumption, ArrayInv PROVE Array!QueriesAgree
<1>1. SubDomain \in SUBSET Nat /\ maxSize \in Nat
  BY DEF Array!ArrayAssumption
<1>2. ASSUME NEW n \in Name
      PROVE  /\ \A i, j \in DOMAIN Array!Live(n) : i < j => Array!Live(n)[i] < Array!Live(n)[j]
             /\ Array!state(n) = CASE Array!Elements(n) = {} -> "emptySet"
                     [] \E s \in SubDomain : Array!Elements(n) = {s} -> "simpleSet"
                     [] OTHER -> "multipleSet"
             /\ \A s \in SubDomain : Array!binary_search(Array!Live(n), s) <=> s \in Array!Elements(n)
             /\ \A s \in Array!Elements(n) :
                  Array!domainOffset(Array!Live(n), s) \in 0 .. maxSize - 1
             /\ \A s, t \in Array!Elements(n) :
                  Array!domainOffset(Array!Live(n), s) = Array!domainOffset(Array!Live(n), t) => s = t
  <2>1. PICK q \in Seq(SubDomain) : q = Array!Live(n) /\ Ascends(q)
    BY Lives
  <2>2. PICK l \in Nat : l = length[n] /\ l = Len(q) /\ l <= maxSize
    BY <2>1, Lives
  <2>3. DOMAIN q = 1 .. l /\ q \in [1 .. l -> SubDomain]
    BY <2>2, LenProperties
  <2>4. Array!Elements(n) = {q[i] : i \in 1 .. l} /\ Array!Elements(n) = Array!ToSet(q)
    BY <2>1, <2>3 DEF Array!Elements, Array!ToSet
  <2>5. \A i, j \in 1 .. l : q[i] = q[j] => i = j
    BY <1>1, <2>1, <2>2, AscendsDistinct
  <2>6. \A k \in 1 .. l : Array!domainOffset(q, q[k]) = k - 1
    <3>1. ASSUME NEW k \in 1 .. l PROVE Array!domainOffset(q, q[k]) = k - 1
      <4>1. Array!lower_bound(q, q[k]) = k
        BY <2>1, <2>2, LowerBoundFinds
      <4>. QED
        BY <4>1 DEF Array!domainOffset
    <3>. QED
      BY <3>1
  <2>7. Array!state(n) = CASE Array!Elements(n) = {} -> "emptySet"
                     [] \E s \in SubDomain : Array!Elements(n) = {s} -> "simpleSet"
                     [] OTHER -> "multipleSet"
    <3>1. CASE l = 0
      <4>1. Array!state(n) = "emptySet"
        BY <2>2, <3>1 DEF Array!state
      <4>2. Array!Elements(n) = {}
        BY <2>4, <3>1
      <4>3. ~ \E s \in SubDomain : Array!Elements(n) = {s}
        BY <4>2
      <4>. QED
        BY <4>1, <4>2, <4>3
    <3>2. CASE l = 1
      <4>1. Array!state(n) = "simpleSet"
        BY <2>2, <3>2 DEF Array!state
      <4>2. q[1] \in SubDomain /\ Array!Elements(n) = {q[1]}
        BY <2>3, <2>4, <3>2
      <4>3. Array!Elements(n) # {} /\ \E s \in SubDomain : Array!Elements(n) = {s}
        BY <4>2
      <4>. QED
        BY <4>1, <4>3
    <3>3. CASE l # 0 /\ l # 1
      <4>1. Array!state(n) = "multipleSet"
        BY <2>2, <3>3 DEF Array!state
      <4>2. 1 \in 1 .. l /\ 2 \in 1 .. l
        BY <3>3
      <4>3. q[1] \in Array!Elements(n) /\ q[2] \in Array!Elements(n) /\ q[1] # q[2]
        BY <2>4, <2>5, <4>2
      <4>4. Array!Elements(n) # {} /\ ~ \E s \in SubDomain : Array!Elements(n) = {s}
        BY <4>3
      <4>. QED
        BY <4>1, <4>4
    <3>. QED
      BY <3>1, <3>2, <3>3
  <2>8. \A s \in SubDomain : Array!binary_search(q, s) <=> s \in Array!Elements(n)
    BY <2>1, <2>4, LowerBoundFinds
  <2>9. ASSUME NEW s \in Array!Elements(n) PROVE Array!domainOffset(q, s) \in 0 .. maxSize - 1
    <3>1. PICK k \in 1 .. l : s = q[k]
      BY <2>4
    <3>2. Array!domainOffset(q, s) = k - 1
      BY <2>6, <3>1
    <3>. QED
      BY <1>1, <2>2, <3>2
  <2>10. ASSUME NEW s \in Array!Elements(n), NEW t \in Array!Elements(n),
                Array!domainOffset(q, s) = Array!domainOffset(q, t)
         PROVE  s = t
    <3>1. PICK j \in 1 .. l : s = q[j]
      BY <2>4
    <3>2. PICK k \in 1 .. l : t = q[k]
      BY <2>4
    <3>3. j - 1 = k - 1
      BY <2>6, <2>10, <3>1, <3>2
    <3>4. j = k
      BY <3>3
    <3>. QED
      BY <3>1, <3>2, <3>4
  <2>11. \A i, j \in DOMAIN q : i < j => q[i] < q[j]
    BY <2>1 DEF Ascends
  <2>. QED
    BY <2>1, <2>7, <2>8, <2>9, <2>10, <2>11
<1>3. ASSUME NEW n \in Name, NEW m \in Name, Array!Elements(n) = Array!Elements(m)
      PROVE  Array!Live(n) = Array!Live(m)
  <2>1. PICK q \in Seq(SubDomain) : q = Array!Live(n) /\ Ascends(q)
    BY Lives
  <2>2. PICK r \in Seq(SubDomain) : r = Array!Live(m) /\ Ascends(r)
    BY Lives
  <2>3. Array!ToSet(q) = Array!ToSet(r)
    BY <1>3, <2>1, <2>2 DEF Array!Elements
  <2>4. Len(q) \in Nat /\ Len(r) \in Nat
    BY LenProperties
  <2>5. Len(q) <= Len(r) /\ \A k \in 1 .. Len(q) : q[k] = r[k]
    BY <1>1, <2>1, <2>2, <2>3, SameValues
  <2>6. Len(r) <= Len(q)
    BY <1>1, <2>1, <2>2, <2>3, SameValues
  <2>7. Len(q) = Len(r)
    BY <2>4, <2>5, <2>6
  <2>8. q = r
    BY <2>5, <2>7, SeqEqual
  <2>. QED
    BY <2>1, <2>2, <2>8
<1>4. \A n, m \in Name : Array!Live(n) = Array!Live(m) => Array!Elements(n) = Array!Elements(m)
  BY DEF Array!Elements
<1>. QED
  BY <1>2, <1>3, <1>4 DEF Array!QueriesAgree

(* The sorted array, without remove(), implements SubDomainSet for any     *)
(* subdomains and any capacity, with one operation of a set for each of    *)
(* its own, and answers for its elements (arraybasedset.hh 80-176): what   *)
(* is stale behind the end never becomes an element, and domainOffset()    *)
(* gives every element a slot of its own within the capacity.              *)
THEOREM ArrayImplementsSet ==
  ASSUME Array!ArrayAssumption
  PROVE  Array!SpecWithoutRemove =>
           Array!AsSet!Spec /\ Array!ImplementsSet /\ []Array!QueriesAgree
<1>1. Array!Init => ArrayInv /\ Array!AsSet!Init
  BY ArrayInvInit
<1>2. ArrayInv /\ [Array!NextWithoutRemove]_(Array!vars) => ArrayInv'
  BY ArrayInvStep
<1>3. ArrayInv => Array!StepsAsSet
  BY ArraySteps
<1>4. ArrayInv /\ [Array!NextWithoutRemove]_(Array!vars)
        => [Array!AsSet!Next]_([n \in Name |-> Array!Elements(n)])
  BY ArrayStepIsSetStep
<1>5. ArrayInv => Array!QueriesAgree
  BY ArrayQueries
<1>6. Array!SpecWithoutRemove => []ArrayInv
  BY <1>1, <1>2, PTL DEF Array!SpecWithoutRemove
<1>7. Array!SpecWithoutRemove => []Array!QueriesAgree
  BY <1>5, <1>6, PTL
<1>8. Array!SpecWithoutRemove => Array!ImplementsSet
  BY <1>1, <1>3, <1>6, PTL DEF Array!SpecWithoutRemove, Array!ImplementsSet
<1>9. Array!SpecWithoutRemove => Array!AsSet!Spec
  BY <1>1, <1>4, <1>6, PTL DEF Array!SpecWithoutRemove, Array!AsSet!Spec
<1>. QED
  BY <1>7, <1>8, <1>9

(* The value is a subdomain or the tag, and a message holds at most one    *)
(* value.                                                                  *)
SingleInv ==
  /\ value \in [Name -> SubDomain \cup {emptyTag}]
  /\ message \in SUBSET (SubDomain \cup {emptyTag})
  /\ \A v, w \in message : v = w

LEMMA SingleElements ==
  ASSUME NEW v
  PROVE  /\ Single!Elements(v) = IF v = emptyTag THEN {} ELSE {v}
         /\ Len(Single!Enclosed(v)) = IF v = emptyTag THEN 0 ELSE 1
<1>1. CASE v = emptyTag
  <2>1. Single!Enclosed(v) = <<>>
    BY <1>1 DEF Single!Enclosed, Single!empty
  <2>2. Single!ToSet(<<>>) = {}
    BY DEF Single!ToSet
  <2>. QED
    BY <1>1, <2>1, <2>2 DEF Single!Elements
<1>2. CASE v # emptyTag
  <2>1. Single!Enclosed(v) = <<v>>
    BY <1>2 DEF Single!Enclosed, Single!empty
  <2>2. Single!ToSet(<<v>>) = {v}
    BY DEF Single!ToSet
  <2>. QED
    BY <1>2, <2>1, <2>2 DEF Single!Elements
<1>. QED
  BY <1>1, <1>2

LEMMA SingleInvInit ==
  ASSUME Single!Init PROVE SingleInv
BY DEF Single!Init, SingleInv

LEMMA SingleInvStep ==
  ASSUME SingleInv, [Single!Next]_(Single!vars) PROVE SingleInv'
<1> USE DEF SingleInv
<1>1. ASSUME NEW n \in Name, NEW v \in SubDomain \cup {emptyTag}, Single!Assign(n, v)
      PROVE  SingleInv'
  BY <1>1 DEF Single!Assign
<1>2. ASSUME NEW n \in Name, NEW s \in SubDomain,
             Single!add(n, s) \/ Single!remove(n, s) \/ Single!set(n, s)
      PROVE  SingleInv'
  BY <1>1, <1>2 DEF Single!add, Single!remove, Single!set
<1>3. ASSUME NEW n \in Name, Single!clear(n) PROVE SingleInv'
  BY <1>1, <1>3 DEF Single!clear
<1>4. ASSUME NEW n \in Name, NEW m \in Name, Single!addAll(n, m) PROVE SingleInv'
  BY <1>1, <1>4 DEF Single!addAll
<1>5. ASSUME NEW n \in Name, Single!gather(n) PROVE SingleInv'
  BY <1>5 DEF Single!gather
<1>6. ASSUME NEW n \in Name, Single!scatter(n) PROVE SingleInv'
  BY <1>6 DEF Single!scatter
<1>7. CASE UNCHANGED Single!vars
  BY <1>7 DEF Single!vars
<1>. QED
  BY <1>2, <1>3, <1>4, <1>5, <1>6, <1>7 DEF Single!Next

(* The cardinality of the specification of sets is the one of FiniteSets.  *)
LEMMA SameCardinality ==
  ASSUME NEW D PROVE Single!AsSet!Cardinality(D) = Cardinality(D)
BY Zenon DEF Single!AsSet!Cardinality, Cardinality

(* An object that holds v from now on is the set of the elements of v.     *)
LEMMA SingleBecomes ==
  ASSUME SingleInv, NEW n \in Name, NEW v, value' = [value EXCEPT ![n] = v]
  PROVE  Single!AsSet!Becomes(n, Single!Elements(v))
<1>1. Cardinality(Single!Elements(v)) <= 1
  <2>1. Cardinality({}) = 0 /\ Cardinality({v}) = 1
    BY FS_EmptySet, FS_Singleton
  <2>2. Single!Elements(v) = {} \/ Single!Elements(v) = {v}
    BY SingleElements
  <2>. QED
    BY <2>1, <2>2
<1>2. [k \in Name |-> Single!Elements(value'[k])]
        = [[k \in Name |-> Single!Elements(value[k])] EXCEPT ![n] = Single!Elements(v)]
  BY DEF SingleInv
<1>. QED
  BY <1>1, <1>2, SameCardinality DEF Single!AsSet!Becomes

LEMMA SingleSteps ==
  ASSUME Single!TagAssumption, SingleInv PROVE Single!StepsAsSet
<1> DEFINE members == [k \in Name |-> Single!Elements(value[k])]
<1>1. \A n \in Name : members[n] = Single!Elements(value[n])
  OBVIOUS
<1>2. \A s \in SubDomain : s # emptyTag /\ Single!Elements(s) = {s}
  BY SingleElements DEF Single!TagAssumption
<1>3. Single!Elements(emptyTag) = {}
  BY SingleElements
<1>4. ASSUME NEW n \in Name, NEW s \in SubDomain, Single!add(n, s)
      PROVE  Single!AsSet!add(n, s)
  <2>1. Single!Elements(value[n]) \cup {s} = Single!Elements(s)
    BY <1>2, <1>3, <1>4 DEF Single!add
  <2>2. Single!AsSet!Becomes(n, Single!Elements(s))
    BY <1>4, SingleBecomes DEF Single!add, Single!Assign
  <2>. QED
    BY <1>1, <2>1, <2>2 DEF Single!AsSet!add
<1>5. ASSUME NEW n \in Name, NEW s \in SubDomain, Single!remove(n, s)
      PROVE  Single!AsSet!remove(n, s)
  <2>1. Single!Elements(value[n]) \ {s} = Single!Elements(emptyTag)
    BY <1>2, <1>3, <1>5 DEF Single!remove
  <2>2. Single!AsSet!Becomes(n, Single!Elements(emptyTag))
    BY <1>5, SingleBecomes DEF Single!remove, Single!Assign
  <2>. QED
    BY <1>1, <2>1, <2>2 DEF Single!AsSet!remove
<1>6. ASSUME NEW n \in Name, NEW s \in SubDomain, Single!set(n, s)
      PROVE  Single!AsSet!set(n, s)
  <2>1. Single!AsSet!Becomes(n, Single!Elements(s))
    BY <1>6, SingleBecomes DEF Single!set, Single!Assign
  <2>. QED
    BY <1>2, <2>1 DEF Single!AsSet!set
<1>7. ASSUME NEW n \in Name, Single!clear(n)
      PROVE  Single!AsSet!clear(n)
  <2>1. Single!AsSet!Becomes(n, Single!Elements(emptyTag))
    BY <1>7, SingleBecomes DEF Single!clear, Single!Assign
  <2>. QED
    BY <1>3, <2>1 DEF Single!AsSet!clear
<1>8. ASSUME NEW n \in Name, NEW m \in Name, Single!addAll(n, m)
      PROVE  Single!AsSet!addAll(n, m)
  <2>1. Single!Elements(value[n]) \cup Single!Elements(value[m]) = Single!Elements(value[m])
    BY <1>3, <1>8 DEF Single!addAll
  <2>2. Single!AsSet!Becomes(n, Single!Elements(value[m]))
    BY <1>8, SingleBecomes DEF Single!addAll, Single!Assign
  <2>. QED
    BY <1>1, <2>1, <2>2 DEF Single!AsSet!addAll
<1>9. ASSUME NEW n \in Name, Single!scatter(n), NEW v \in message
      PROVE  Single!AsSet!Becomes(n, Single!Elements(value[n]) \cup Single!Elements(v))
  <2>1. value[n] \in {emptyTag, v} /\ value' = [value EXCEPT ![n] = v]
    BY <1>9 DEF Single!scatter, SingleInv
  <2>2. Single!Elements(value[n]) \cup Single!Elements(v) = Single!Elements(v)
    BY <1>3, <2>1
  <2>3. Single!AsSet!Becomes(n, Single!Elements(v))
    BY <2>1, SingleBecomes
  <2>. QED
    BY <2>2, <2>3
<1>. QED
  BY <1>4, <1>5, <1>6, <1>7, <1>8, <1>9 DEF Single!StepsAsSet

(* Receiving a value is add() of it, or nothing when it is the tag.        *)
LEMMA SingleStepIsSetStep ==
  ASSUME Single!TagAssumption, SingleInv, [Single!Next]_(Single!vars)
  PROVE  [Single!AsSet!Next]_([n \in Name |-> Single!Elements(value[n])])
<1>1. Single!StepsAsSet
  BY SingleSteps
<1>2. ASSUME NEW n \in Name, NEW s \in SubDomain,
             Single!add(n, s) \/ Single!remove(n, s) \/ Single!set(n, s)
      PROVE  Single!AsSet!Next
  BY <1>1, <1>2, Zenon DEF Single!StepsAsSet, Single!AsSet!Next
<1>3. ASSUME NEW n \in Name, Single!clear(n) PROVE Single!AsSet!Next
  BY <1>1, <1>3, Zenon DEF Single!StepsAsSet, Single!AsSet!Next
<1>4. ASSUME NEW n \in Name, NEW m \in Name, Single!addAll(n, m) PROVE Single!AsSet!Next
  BY <1>1, <1>4, Zenon DEF Single!StepsAsSet, Single!AsSet!Next
<1>5. ASSUME NEW n \in Name, Single!gather(n)
      PROVE  UNCHANGED [k \in Name |-> Single!Elements(value[k])]
  BY <1>5 DEF Single!gather
<1>6. ASSUME NEW n \in Name, Single!scatter(n)
      PROVE  Single!AsSet!Next \/ UNCHANGED [k \in Name |-> Single!Elements(value[k])]
  <2>1. PICK v \in message : value[n] \in {emptyTag, v} /\ value' = [value EXCEPT ![n] = v]
    BY <1>6 DEF Single!scatter
  <2>2. CASE v = emptyTag
    <3>1. value' = value
      BY <2>1, <2>2 DEF SingleInv
    <3>. QED
      BY <3>1
  <2>3. CASE v # emptyTag
    <3>1. v \in SubDomain
      BY <2>3 DEF SingleInv
    <3>2. Single!AsSet!Becomes(n, Single!Elements(value[n]) \cup Single!Elements(v))
      BY <1>1, <1>6, Zenon DEF Single!StepsAsSet
    <3>3. Single!Elements(v) = {v}
      BY <2>3, SingleElements
    <3>4. [k \in Name |-> Single!Elements(value[k])][n] = Single!Elements(value[n])
      OBVIOUS
    <3>5. Single!AsSet!add(n, v)
      BY <3>2, <3>3, <3>4 DEF Single!AsSet!add
    <3>. QED
      BY <3>1, <3>5, Zenon DEF Single!AsSet!Next
  <2>. QED
    BY <2>2, <2>3
<1>7. CASE UNCHANGED Single!vars
  BY <1>7 DEF Single!vars
<1>. QED
  BY <1>2, <1>3, <1>4, <1>5, <1>6, <1>7 DEF Single!Next

LEMMA SingleInitIsSetInit ==
  ASSUME Single!Init PROVE Single!AsSet!Init
<1>1. Single!Elements(emptyTag) = {}
  BY SingleElements
<1>. QED
  BY <1>1 DEF Single!Init, Single!AsSet!Init

LEMMA SingleQueries ==
  ASSUME Single!TagAssumption, SingleInv PROVE Single!QueriesAgree
<1>1. SUFFICES ASSUME NEW n \in Name, NEW m \in Name, NEW v, NEW w,
                      v = value[n], w = value[m]
      PROVE  /\ \A s \in SubDomain : Single!contains(v, s) <=> s \in Single!Elements(v)
             /\ Single!size(v) = Len(Single!Enclosed(v))
             /\ Single!Elements(v) \subseteq SubDomain
             /\ Single!state(v) = IF Single!Elements(v) = {} THEN "emptySet" ELSE "simpleSet"
             /\ Single!simple(v) <=> Single!Elements(v) # {}
             /\ Single!Elements(w) # {} =>
                  (Single!containsAll(v, w) <=> Single!Elements(w) \subseteq Single!Elements(v))
             /\ \A s, t \in Single!Elements(v) :
                  Single!domainOffset(v, s) = Single!domainOffset(v, t) => s = t
  BY DEF Single!QueriesAgree
<1>2. v \in SubDomain \cup {emptyTag}
  BY <1>1 DEF SingleInv
<1>3. /\ Single!Elements(v) = IF v = emptyTag THEN {} ELSE {v}
      /\ Single!Elements(w) = IF w = emptyTag THEN {} ELSE {w}
      /\ Len(Single!Enclosed(v)) = IF v = emptyTag THEN 0 ELSE 1
  BY SingleElements
<1>4. emptyTag \notin SubDomain
  BY DEF Single!TagAssumption
<1>. QED
  BY <1>2, <1>3, <1>4
  DEF Single!contains, Single!size, Single!state, Single!simple, Single!empty,
      Single!containsAll, Single!domainOffset

(* As long as its assertions hold, the single value implements SubDomainSet*)
(* for any subdomains, gather() and scatter() included, with one operation *)
(* of a set for each of its own, and answers for its elements              *)
(* (singlevalueset.hh 65-164).                                             *)
THEOREM SingleImplementsSet ==
  ASSUME Single!TagAssumption
  PROVE  Single!Spec => Single!AsSet!Spec /\ Single!ImplementsSet /\ []Single!QueriesAgree
<1>1. Single!Init => SingleInv /\ Single!AsSet!Init
  BY SingleInvInit, SingleInitIsSetInit
<1>2. SingleInv /\ [Single!Next]_(Single!vars) => SingleInv'
  BY SingleInvStep
<1>3. SingleInv => Single!StepsAsSet
  BY SingleSteps
<1>4. SingleInv /\ [Single!Next]_(Single!vars)
        => [Single!AsSet!Next]_([n \in Name |-> Single!Elements(value[n])])
  BY SingleStepIsSetStep
<1>5. SingleInv => Single!QueriesAgree
  BY SingleQueries
<1>6. Single!Spec => []SingleInv
  BY <1>1, <1>2, PTL DEF Single!Spec
<1>7. Single!Spec => []Single!QueriesAgree
  BY <1>5, <1>6, PTL
<1>8. Single!Spec => Single!ImplementsSet
  BY <1>1, <1>3, <1>6, PTL DEF Single!Spec, Single!ImplementsSet
<1>9. Single!Spec => Single!AsSet!Spec
  BY <1>1, <1>4, <1>6, PTL DEF Single!Spec, Single!AsSet!Spec
<1>. QED
  BY <1>7, <1>8, <1>9
=============================================================================
