------------------------------ MODULE HostTree ------------------------------
(***************************************************************************)
(* The host grid that a MultiDomainGrid wraps, seen through the part of    *)
(* the DUNE grid interface the wrapper uses: father(), level(), isLeaf(),  *)
(* mightVanish() and isNew().  The host grid is not part of this           *)
(* repository; it is modelled from how multidomaingrid.hh and indexsets.hh *)
(* use it.                                                                 *)
(*                                                                         *)
(* Cell is the set of all codimension-0 entities the host can ever create, *)
(* so an entity and its id (idsets.hh forwards to the host's ids) are the  *)
(* same value.  The cells that exist at one time form a "tree", a subset   *)
(* of Cell.                                                                *)
(***************************************************************************)
EXTENDS Integers, FiniteSets

CONSTANTS
  Cell,       \* every cell the host grid can create
  Ancestors,  \* Ancestors[c]: the proper ancestors of c, up to level 0
  Patterns,   \* Patterns[c]: the sets of children the host may refine c into
  Tree        \* the sets of cells that can exist together

(* A cell and all cells above it: what "e = e.father()" walks through.     *)
Line(c) == {c} \cup Ancestors[c]

(* father() is a function and the walk ends: the line of a cell is a       *)
(* finite chain, so every set of cells on it has a lowest and a highest.   *)
AncestorsAssumption ==
  /\ Ancestors \in [Cell -> SUBSET Cell]
  /\ \A c \in Cell : c \notin Ancestors[c] /\ IsFiniteSet(Ancestors[c])
  /\ \A c \in Cell : \A a \in Ancestors[c] : Ancestors[a] \subseteq Ancestors[c]
  /\ \A c \in Cell : \A S \in SUBSET Line(c) : S # {} =>
       /\ \E x \in S : S \subseteq Line(x)
       /\ \E x \in S : \A y \in S : x \in Line(y)

(* The cells whose father is c.                                            *)
Children == [c \in Cell |-> {d \in Cell : c \in Ancestors[d] /\ Ancestors[d] \subseteq Line(c)}]

(* A cell is refined as a whole; a host with several refinement rules      *)
(* (closure of a hanging node) replaces one set of children by another.    *)
PatternsAssumption ==
  /\ Patterns \in [Cell -> SUBSET SUBSET Cell]
  /\ \A c \in Cell : \A P \in Patterns[c] : P # {} /\ P \subseteq Children[c]
  /\ \A c \in Cell : \A P, Q \in Patterns[c] : P = Q \/ P \cap Q = {}

Level == [c \in Cell |-> Cardinality(Ancestors[c])]

Roots == {c \in Cell : Ancestors[c] = {}}

(* The first cell of a set that a walk up the line of a cell meets.        *)
Lowest(S) == CHOOSE c \in S : S \subseteq Line(c)

Leaves(T) == {c \in T : \A d \in T : c \notin Ancestors[d]}

(* A grid is closed upward, refined completely and finite, so that every   *)
(* cell is a leaf or has a leaf below it.                                  *)
IsTree(T) ==
  /\ Roots \subseteq T
  /\ \A c \in T : Ancestors[c] \subseteq T
  /\ \A c \in T : Children[c] \cap T \in {{}} \cup Patterns[c]
  /\ \A c \in T : \E d \in Leaves(T) : c \in Line(d)

ASSUME HostAssumption ==
  /\ AncestorsAssumption
  /\ PatternsAssumption
  /\ \A T \in Tree : T \subseteq Cell /\ IsTree(T)

(***************************************************************************)
(* What the host guarantees about one adapt(): only cells that answered    *)
(* mightVanish() are gone afterwards, cells of level 0 never vanish.       *)
(***************************************************************************)
HostMayAdapt(T, vanishing, T2) ==
  /\ vanishing \subseteq T \ Roots
  /\ T \ T2 \subseteq vanishing

(* globalRefine(refCount) with refCount >= 0 only adds cells.              *)
HostMayRefine(T, vanishing, T2) ==
  /\ vanishing \subseteq T \ Roots
  /\ T \subseteq T2
=============================================================================
