---------------------------- MODULE InterfaceMesh ---------------------------
(***************************************************************************)
(* One view of the host grid as the interface iterators see it: cells in   *)
(* the order of the view's iterator, and for each cell its intersections   *)
(* in the order of its intersection iterator.  A cell is its place in the  *)
(* order; an intersection is a pair of a cell and a place.                 *)
(***************************************************************************)
EXTENDS Integers, Sequences

CONSTANTS
  CellCount,  \* the cells are 1 .. CellCount
  Faces       \* Faces[c][f]: the cell behind the f-th intersection, or Outer

MeshCell == 1 .. CellCount

Outer == 0

(* A cell is bounded on all sides, and an intersection is seen by both of  *)
(* its cells.  Two cells share at most one intersection (no periodic grid  *)
(* of two cells).                                                          *)
MeshAssumption ==
  /\ CellCount \in Nat \ {0}
  /\ Faces \in [MeshCell -> Seq(MeshCell \cup {Outer})]
  /\ \A c \in MeshCell : Len(Faces[c]) > 1
  /\ \A c \in MeshCell : \A f \in DOMAIN Faces[c] :
       Faces[c][f] # Outer =>
         /\ Faces[c][f] # c
         /\ \E g \in DOMAIN Faces[Faces[c][f]] : Faces[Faces[c][f]][g] = c
         /\ \A g \in DOMAIN Faces[c] : Faces[c][g] = Faces[c][f] => g = f

Intersection == UNION {{<<c, f>> : f \in DOMAIN Faces[c]} : c \in MeshCell}

(* The host's neighbor(), inside() and outside() of an intersection.       *)
neighbor(i) == Faces[i[1]][i[2]] # Outer
inside(i) == i[1]
outside(i) == Faces[i[1]][i[2]]

(* The host's indexInOutside(): the place of the intersection i among      *)
(* those of the cell behind it.                                            *)
indexInOutside(i) == CHOOSE g \in DOMAIN Faces[outside(i)] : Faces[outside(i)][g] = inside(i)

Before(i, j) == i[1] < j[1] \/ (i[1] = j[1] /\ i[2] < j[2])
=============================================================================
