------------------------- MODULE SubDomainIndexSets -------------------------
(***************************************************************************)
(* What a caller can ask the index sets of a MultiDomainGrid about one     *)
(* subdomain, and the index sets of a SubDomainGrid, which pass every      *)
(* question on with their own subdomain: contains(), index(), subIndex(),  *)
(* types() and the sizes per geometry type and per codimension.            *)
(*                                                                         *)
(* Traits may leave codimensions out (CellAndVertexCodims).  Nothing is    *)
(* stored for those; a codimension given at run time is dispatched to the  *)
(* storage, to an answer for the missing storage, or to an exception.      *)
(***************************************************************************)
EXTENDS IndexSet

CONSTANTS
  Dimension,    \* of the grid
  Supported,    \* the codimensions with Codim<codim>::supported
  HostTypes     \* HostTypes[k]: types(k) of the host grid

ASSUME QueryAssumption ==
  /\ Dimension \in Nat /\ Supported \subseteq 0 .. Dimension
  /\ Codim = Supported
  /\ \A k \in Supported : HostTypes[k] = TypesOf(k)
  /\ \A k \in 0 .. Dimension : IsFiniteSet(HostTypes[k])

(* Stands for the exception of that name; no index or size is negative.   *)
GridError == -1

(* dispatchToCodim::dispatch() with invokeIf: results per codimension.     *)
Dispatch(k, answer, unsupported) ==
  IF k \notin 0 .. Dimension THEN GridError
  ELSE IF k \in Supported THEN answer ELSE unsupported

contains(v, s, e) == s \in domains[v][e]

(* index() asserts that the entity is contained.                           *)
index(v, s, e) == IndexIn(num[v], domains[v][e], e, s)

(* A bug: the set of the cell is asked for the slot.                       *)
SubIndexByCell(v, s, c, e) ==
  LET slot == IF SimpleSet(domains[v][c]) THEN num[v].index[e]
              ELSE IF SimpleSet(domains[v][e]) THEN num[v].index[e]
              ELSE num[v].multi[CodimOf[TypeOf[e]]][num[v].index[e] + 1]
                     [Offset(domains[v][c], s)]
  IN Dispatch(CodimOf[TypeOf[e]], slot, GridError)

(* subIndex() of the sub-entity e of the cell c: the host knows which one  *)
(* is meant, its own entry has the index.                                  *)
subIndex(v, s, c, e) ==
  Dispatch(CodimOf[TypeOf[e]], index(v, s, e), GridError)

(* types(subDomain, codim) are the host's, whether the subdomain has any   *)
(* of them or not.                                                         *)
types(k) == HostTypes[k]

(* size(subDomain, type) and size(subDomain, codim)                        *)
sizeOfType(v, s, g, codimOfType) ==
  Dispatch(codimOfType, num[v].sizes[g][s], 0)

(* A bug: a codimension without storage is an error here as well.          *)
SizeOfCodimStrict(v, s, codim) ==
  Dispatch(codim, codimSizes[v][codim][s], GridError)

sizeOfCodim(v, s, codim) == Dispatch(codim, codimSizes[v][codim][s], 0)
-----------------------------------------------------------------------------
(* From whichever cell of the subdomain a vertex is reached, it belongs to *)
(* the subdomain and has one index there, below the size of its type, that *)
(* no other entity of the type has: degrees of freedom on shared entities  *)
(* are shared and no others are, in a subdomain that overlaps others       *)
(* around that vertex differently from cell to cell (subIndexForSubDomain  *)
(* 499-533).                                                               *)
SharedSubIndices ==
  pc = "idle" =>
    \A v \in View, s \in SubDomain : \A c, d \in Elements(v) :
      contains(v, s, c) /\ contains(v, s, d) =>
        \A e \in Closure[c], f \in Closure[d] :
          /\ contains(v, s, e)
          /\ subIndex(v, s, c, e) \in 0 .. num[v].sizes[TypeOf[e]][s] - 1
          /\ TypeOf[e] = TypeOf[f] =>
               (subIndex(v, s, c, e) = subIndex(v, s, d, f) <=> e = f)

(* The sizes agree with one another in every codimension of the grid: a    *)
(* loop over types() that adds up the sizes per type gets the size of the  *)
(* codimension, also where nothing is stored (539-591).                    *)
SizesAgree ==
  pc = "idle" =>
    \A v \in View, s \in SubDomain, k \in 0 .. Dimension :
      sizeOfCodim(v, s, k) = MapThenSumSet(LAMBDA g : sizeOfType(v, s, g, k), types(k))
=============================================================================
