----------------------------- MODULE MapEntries -----------------------------
(***************************************************************************)
(* The numbering kept by one IndexSetWrapper (indexsets.hh): how           *)
(* updateMapEntry() numbers an entity in every subdomain it belongs to and *)
(* how index() finds that number again.                                    *)
(*                                                                         *)
(* A numbering is a record:                                                *)
(*   index[e]     MapEntry::index of the entity e                          *)
(*   sizes[g][s]  sizeMap: entities of geometry type g numbered in s       *)
(*   multi[k]     multiIndexMap of codimension k, a sequence of containers *)
(***************************************************************************)
EXTENDS Integers, Sequences

CONSTANTS
  SubDomain,     \* subdomain indices
  Entity,        \* entities of all supported codimensions
  GeometryType,  \* geometry types of these entities
  TypeOf,        \* TypeOf[e]: e.type()
  CodimOf,       \* CodimOf[g]: the codimension of the entities of type g
  Slot,          \* the slots of a MultiIndexContainer, enough for any set
  Offset(_,_)    \* Offset(D, s): domainOffset() of s in the set D

(* The slots domainOffset() hands out inside one set are distinct; both    *)
(* set representations satisfy this, one with the subdomain index itself,  *)
(* one with its position in the sorted array.                              *)
OffsetAssumption ==
  \A D \in SUBSET SubDomain : \A s, t \in D :
    /\ Offset(D, s) \in Slot
    /\ Offset(D, s) = Offset(D, t) => s = t

ASSUME EntryAssumption ==
  /\ TypeOf \in [Entity -> GeometryType]
  /\ CodimOf \in [GeometryType -> Nat]
  /\ OffsetAssumption

Codim == {CodimOf[g] : g \in GeometryType}

(* SubDomainSet::state()                                                   *)
EmptySet(D) == D = {}
SimpleSet(D) == \E s \in D : D = {s}
Multiple(D) == ~ EmptySet(D) /\ ~ SimpleSet(D)

TheElement(D) == CHOOSE s \in D : TRUE

(* Nothing numbered yet: what reset() leaves of sizes and multiIndexMap.   *)
(* The index of an entry means nothing until the entry is numbered; 0      *)
(* stands for the value it happens to hold.                                *)
NoNumbers ==
  [index |-> [e \in Entity |-> 0],
   sizes |-> [g \in GeometryType |-> [s \in SubDomain |-> 0]],
   multi |-> [k \in Codim |-> <<>>]]

(* Mutant: only the counter of one subdomain is advanced.                  *)
CountIn_One(sizes, g, D) ==
  [sizes EXCEPT ![g][TheElement(D)] = @ + 1]

(* Every subdomain of D has one more entity of type g.                     *)
CountIn(sizes, g, D) ==
  [sizes EXCEPT ![g] = [s \in SubDomain |-> @[s] + IF s \in D THEN 1 ELSE 0]]

(* The container pushed for an entity in several subdomains: the next free *)
(* number of each subdomain, in the slot of that subdomain.                *)
MultiIndices(sizes, g, D) ==
  [o \in Slot |->
     IF \E s \in D : Offset(D, s) = o
     THEN sizes[g][CHOOSE s \in D : Offset(D, s) = o]
     ELSE 0]

(* updateMapEntry() for the entity e, whose entry has the subdomains D.    *)
UpdateMapEntry(num, D, e) ==
  LET g == TypeOf[e]
      k == CodimOf[g]
  IN  IF EmptySet(D) THEN num
      ELSE [index |-> [num.index EXCEPT ![e] =
                         IF SimpleSet(D) THEN num.sizes[g][TheElement(D)]
                         ELSE Len(num.multi[k])],
            sizes |-> CountIn(num.sizes, g, D),
            multi |-> IF SimpleSet(D) THEN num.multi
                      ELSE [num.multi EXCEPT ![k] =
                              Append(@, MultiIndices(num.sizes, g, D))]]

(* index(subDomain, e) for an entity in the subdomain s of its entry D;    *)
(* the containers are counted from 0.                                      *)
IndexIn(num, D, e, s) ==
  IF SimpleSet(D) THEN num.index[e]
  ELSE num.multi[CodimOf[TypeOf[e]]][num.index[e] + 1][Offset(D, s)]

-----------------------------------------------------------------------------
Numbering ==
  [index : [Entity -> Nat],
   sizes : [GeometryType -> [SubDomain -> Nat]],
   multi : [Codim -> Seq([Slot -> Nat])]]

(* In the numbering num, with entries dom, the entities of E are numbered: *)
(* in every subdomain, per geometry type, consecutively from 0 and without *)
(* a number used twice.                                                    *)
Consecutive(num, dom, E) ==
  \A g \in GeometryType, s \in SubDomain :
    LET members == {e \in E : TypeOf[e] = g /\ s \in dom[e]}
    IN  /\ \A e \in members : IndexIn(num, dom[e], e, s) \in 0 .. num.sizes[g][s] - 1
        /\ \A e, f \in members :
             IndexIn(num, dom[e], e, s) = IndexIn(num, dom[f], f, s) => e = f
        /\ \A i \in 0 .. num.sizes[g][s] - 1 :
             \E e \in members : IndexIn(num, dom[e], e, s) = i

(* The index of an entity in several subdomains points into multiIndexMap. *)
Stored(num, dom, E) ==
  \A e \in E : Multiple(dom[e]) =>
    num.index[e] < Len(num.multi[CodimOf[TypeOf[e]]])
=============================================================================
