----------------------- MODULE MultiDomainMCMGMapper ------------------------
(***************************************************************************)
(* The mapper numbers the entities of a subdomain over several codimensions*)
(* and geometry types: an offset per geometry type is added to the index   *)
(* of the entity among those of its type.  The geometry types are          *)
(* 1 .. TypeCount in the order of GlobalGeometryTypeIndex, vertices first. *)
(***************************************************************************)
EXTENDS Integers

CONSTANTS
  dimension,
  TypeCount,
  CodimOf,         \* CodimOf[t]: the codimension of the entities of type t
  Layout,          \* the types the caller's layout selects
  SubDomainCount,  \* the subdomains are 0 .. SubDomainCount - 1
  Traits,          \* which traits class: "FewSubDomains", "ArrayBased" or "Dynamic"
  Sizes            \* the entities per type that a subdomain can have

GeometryType == 1 .. TypeCount

SubDomain == 0 .. SubDomainCount - 1

MapperAssumption ==
  /\ dimension \in Nat /\ TypeCount \in Nat \ {0} /\ SubDomainCount \in Nat
  /\ CodimOf \in [GeometryType -> 0 .. dimension]
  /\ \A t, u \in GeometryType : t < u => CodimOf[t] >= CodimOf[u]
  /\ Layout \subseteq GeometryType
  /\ Sizes \subseteq [GeometryType -> Nat]
  /\ Traits \in {"FewSubDomains", "ArrayBased", "Dynamic"}

VARIABLES
  size,      \* size[s][t]: indexSet().size(s, t) of the index set now
  _offsets,  \* _offsets[s] of the mapper, with one more entry than types
  stale      \* the grid has changed since update()

vars == <<size, _offsets, stale>>

(* maxSubDomainIndex() of the traits classes: the bit set's is the largest *)
(* index, the other two return the number of subdomains.                   *)
maxSubDomainIndex ==
  IF Traits = "FewSubDomains" THEN SubDomainCount - 1 ELSE SubDomainCount

Mapped == 0 .. maxSubDomainIndex - 1

Place == 1 .. TypeCount + 1

PartialSum(f) ==
  LET sum[k \in Place] == IF k = 1 THEN f[1] ELSE sum[k - 1] + f[k]
  IN sum

(* A bug: the loop over the codimensions stops before the vertices.        *)
OffsetsAfterNoVertices(n) ==
  LET upTo[cc \in -1 .. dimension] ==
        IF cc = -1
        THEN [k \in Place |-> 0]
        ELSE PartialSum([k \in Place |->
               IF k > 1 /\ CodimOf[k - 1] = cc THEN n[k - 1] ELSE upTo[cc - 1][k]])
  IN upTo[dimension - 1]

(* The offsets update() computes from the sizes n: for every codimension,  *)
(* the sizes of its types are written behind the offset of the type and    *)
(* the whole vector, as it is by then, is summed up.                       *)
OffsetsAfter(n) ==
  LET upTo[cc \in -1 .. dimension] ==
        IF cc = -1
        THEN [k \in Place |-> 0]
        ELSE PartialSum([k \in Place |->
               IF k > 1 /\ CodimOf[k - 1] = cc THEN n[k - 1] ELSE upTo[cc - 1][k]])
  IN upTo[dimension]

UpdatedOffsets(sizes) ==
  [s \in Mapped |-> IF s \in SubDomain THEN OffsetsAfter(sizes[s]) ELSE [k \in Place |-> 0]]

(* The constructors call update().                                         *)
Init ==
  /\ size \in [SubDomain -> Sizes]
  /\ _offsets = UpdatedOffsets(size)
  /\ stale = FALSE

(* The grid is adapted or gets a new layout of subdomains.                 *)
ChangeGrid ==
  /\ size' \in [SubDomain -> Sizes]
  /\ stale' = TRUE
  /\ UNCHANGED _offsets

Update ==
  /\ _offsets' = UpdatedOffsets(size)
  /\ stale' = FALSE
  /\ UNCHANGED size

Next == Update \/ ChangeGrid

Spec == Init /\ [][Next]_vars
-----------------------------------------------------------------------------
(* map() of the entity of type t with the index i in the subdomain s.      *)
map(s, t, i) == i + _offsets[s][t]

(* contains(): the entities of the subdomain whose type is in the layout.  *)
Contained(s) ==
  UNION {{<<t, i>> : i \in 0 .. size[s][t] - 1} : t \in Layout}

mapperSize(s) == _offsets[s][TypeCount + 1]

Total(s) ==
  LET sum[k \in 0 .. TypeCount] == IF k = 0 THEN 0 ELSE sum[k - 1] + size[s][k]
  IN sum[TypeCount]

(* After update() a vector of size(s) elements holds data for every entity *)
(* of the subdomain, whatever its type, without two of them sharing an     *)
(* element: the offsets leave room for each type although update() sums    *)
(* them up once per codimension and sizes of earlier codimensions are      *)
(* summed again.                                                           *)
IndicesDistinct ==
  ~stale =>
    \A s \in Mapped \cap SubDomain :
      /\ \A e \in Contained(s) : map(s, e[1], e[2]) \in 0 .. mapperSize(s) - 1
      /\ \A e, f \in Contained(s) :
           map(s, e[1], e[2]) = map(s, f[1], f[2]) => e = f

(* size() is documented as the "total number of entities in the entity set *)
(* managed by the mapper".                                                 *)
SizeIsTotal ==
  ~stale => \A s \in Mapped \cap SubDomain : mapperSize(s) = Total(s)

(* The mapper has offsets for every subdomain: maxSubDomainIndex() is      *)
(* documented as the "largest allowed index for a subdomain".              *)
EverySubDomainMapped == SubDomain \subseteq DOMAIN _offsets
=============================================================================
