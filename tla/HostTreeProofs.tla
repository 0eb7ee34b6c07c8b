--------------------------- MODULE HostTreeProofs ---------------------------
(***************************************************************************)
(* What the walks e = e.father() of multidomaingrid.hh find, in every host *)
(* grid the assumptions of HostTree admit.                                 *)
(***************************************************************************)
EXTENDS HostTree, TLAPS

(* A walk up from an ancestor stays on the line of the cell.               *)
LEMMA LineUp ==
  ASSUME NEW c \in Cell, NEW a \in Line(c)
  PROVE  a \in Cell /\ Line(a) \subseteq Line(c) /\ Ancestors[a] \subseteq Ancestors[c]
BY HostAssumption DEF AncestorsAssumption, Line

(* No cell is above itself.                                                *)
LEMMA LineAntisymmetric ==
  ASSUME NEW c \in Cell, NEW a \in Line(c), c \in Line(a)
  PROVE  a = c
BY HostAssumption DEF AncestorsAssumption, Line

(* Two cells of a line lie on one of their own lines.                      *)
LEMMA LineTotal ==
  ASSUME NEW c \in Cell, NEW a \in Line(c), NEW b \in Line(c)
  PROVE  a \in Line(b) \/ b \in Line(a)
<1>1. {a, b} \in SUBSET Line(c) /\ {a, b} # {}
  OBVIOUS
<1>2. \E x \in {a, b} : {a, b} \subseteq Line(x)
  BY <1>1, HostAssumption DEF AncestorsAssumption
<1>. QED
  BY <1>2

(* The walk up a line meets every nonempty set of its cells, first in its  *)
(* lowest cell.                                                            *)
LEMMA LowestFound ==
  ASSUME NEW c \in Cell, NEW S \in SUBSET Line(c), S # {}
  PROVE  Lowest(S) \in S /\ S \subseteq Line(Lowest(S))
<1>1. \E x \in S : S \subseteq Line(x)
  BY HostAssumption DEF AncestorsAssumption
<1>. QED
  BY <1>1 DEF Lowest

(* Every nonempty set of cells of a line has a cell above all others.      *)
LEMMA HighestFound ==
  ASSUME NEW c \in Cell, NEW S \in SUBSET Line(c), S # {}
  PROVE  \E x \in S : \A y \in S : x \in Line(y)
BY HostAssumption DEF AncestorsAssumption

(* A cell from which all of S can be reached is the lowest one.            *)
LEMMA LowestIs ==
  ASSUME NEW c \in Cell, NEW S \in SUBSET Line(c), NEW x \in S, S \subseteq Line(x)
  PROVE  Lowest(S) = x
<1>1. Lowest(S) \in S /\ S \subseteq Line(Lowest(S))
  BY LowestFound
<1>2. x \in Cell /\ Lowest(S) \in Line(x) /\ x \in Line(Lowest(S))
  BY <1>1, LineUp
<1>. QED
  BY <1>2, LineAntisymmetric

(* Every walk ends on level 0.                                             *)
LEMMA LineMeetsRoots ==
  ASSUME NEW c \in Cell
  PROVE  \E x \in Line(c) : x \in Roots
<1>1. PICK x \in Line(c) : \A y \in Line(c) : x \in Line(y)
  <2>1. Line(c) \in SUBSET Line(c) /\ Line(c) # {}
    BY DEF Line
  <2>. QED
    BY <2>1, HighestFound
<1>2. x \in Cell
  BY LineUp
<1>3. ASSUME NEW a \in Ancestors[x]
      PROVE  FALSE
  <2>1. a \in Line(x) /\ a \in Line(c)
    BY LineUp DEF Line
  <2>2. a = x
    BY <2>1, <1>1, <1>2, LineAntisymmetric
  <2>. QED
    BY <2>2, <1>2, HostAssumption DEF AncestorsAssumption
<1>. QED
  BY <1>2, <1>3 DEF Roots

(* Below a cell m, the line of a cell passes through a child of m.         *)
LEMMA ChildOnLine ==
  ASSUME NEW b \in Cell, NEW m \in Ancestors[b]
  PROVE  \E x \in Line(b) : x \in Children[m] /\ m \in Ancestors[x]
<1> DEFINE S == {y \in Line(b) : m \in Ancestors[y]}
<1>1. S \in SUBSET Line(b) /\ b \in S
  BY DEF Line
<1>2. PICK x \in S : \A y \in S : x \in Line(y)
  <2>. HIDE DEF S
  <2>. QED
    BY <1>1, HighestFound
<1>3. x \in Line(b) /\ x \in Cell /\ m \in Ancestors[x] /\ m \in Line(b) /\ m \in Cell
  BY <1>1, LineUp DEF Line
<1>4. ASSUME NEW y \in Ancestors[x]
      PROVE  y \in Line(m)
  <2>1. y \in Line(x) /\ y \in Line(b) /\ y \in Cell
    BY <1>3, LineUp DEF Line
  <2>2. CASE m \in Ancestors[y]
    <3>1. x \in Line(y)
      BY <2>1, <2>2, <1>2
    <3>2. x = y
      BY <3>1, <2>1, <1>3, LineAntisymmetric
    <3>. QED
      BY <3>2, <1>3, HostAssumption DEF AncestorsAssumption
  <2>3. CASE m \notin Ancestors[y]
    <3>1. y \in Line(m) \/ m \in Line(y)
      BY <2>1, <1>3, LineTotal
    <3>. QED
      BY <3>1, <2>3 DEF Line
  <2>. QED
    BY <2>2, <2>3
<1>5. Ancestors[x] \subseteq Line(m)
  BY <1>4
<1>6. Children[m] = {d \in Cell : m \in Ancestors[d] /\ Ancestors[d] \subseteq Line(m)}
  BY <1>3 DEF Children
<1>7. x \in Children[m]
  BY <1>3, <1>5, <1>6
<1>. QED
  BY <1>3, <1>7

(* The cells of a grid, and what is above and below them in the grid.      *)
LEMMA TreeCells ==
  ASSUME NEW T \in Tree, NEW c \in T
  PROVE  /\ c \in Cell /\ Line(c) \subseteq T
         /\ \E d \in Leaves(T) : d \in T /\ c \in Line(d)
BY HostAssumption DEF IsTree, Line, Leaves

(* The walk from a cell of a grid T2 back into a grid T.                   *)
LEMMA SurvivorFound ==
  ASSUME NEW T \in Tree, NEW T2 \in Tree, NEW c \in T2, NEW m, m = Lowest(Line(c) \cap T)
  PROVE  m \in T /\ m \in Line(c) /\ Line(c) \cap T \subseteq Line(m)
<1>1. c \in Cell
  BY TreeCells
<1>2. Line(c) \cap T # {}
  BY <1>1, LineMeetsRoots, HostAssumption DEF IsTree
<1>. QED
  BY <1>1, <1>2, LowestFound

(* Cells are refined as a whole: when some cell below m is in both grids,  *)
(* m has the same children in both, so that no leaf of T2 has m as the     *)
(* lowest cell of its line in T.                                           *)
LEMMA SurvivorIsBare ==
  ASSUME NEW T \in Tree, NEW T2 \in Tree, NEW c \in Leaves(T2),
         NEW m, m = Lowest(Line(c) \cap T),
         NEW b \in T \cap T2, m \in Ancestors[b]
  PROVE  FALSE
<1>1. c \in T2 /\ c \in Cell /\ b \in Cell
  BY TreeCells DEF Leaves
<1>2. m \in T /\ m \in Line(c) /\ Line(c) \cap T \subseteq Line(m) /\ m \in Cell
  <2>1. m \in T /\ m \in Line(c) /\ Line(c) \cap T \subseteq Line(m)
    BY <1>1, SurvivorFound
  <2>. QED
    BY <2>1, TreeCells
<1>3. m \in Ancestors[c]
  BY <1>1, <1>2 DEF Line, Leaves
<1>4. PICK x \in Line(b) : x \in Children[m] /\ m \in Ancestors[x]
  BY <1>1, ChildOnLine
<1>5. PICK z \in Line(c) : z \in Children[m] /\ m \in Ancestors[z]
  BY <1>1, <1>3, ChildOnLine
<1>6. x \in T /\ x \in T2 /\ z \in T2
  BY <1>1, <1>4, <1>5, TreeCells
<1>7. Children[m] \cap T = Children[m] \cap T2
  <2>1. m \in T2
    BY <1>1, <1>2, TreeCells
  <2>2. /\ \A d \in T : Children[d] \cap T \in {{}} \cup Patterns[d]
        /\ \A d \in T2 : Children[d] \cap T2 \in {{}} \cup Patterns[d]
    BY HostAssumption DEF IsTree
  <2>3. x \in Children[m] \cap T /\ x \in Children[m] \cap T2
    BY <1>4, <1>6
  <2>4. Children[m] \cap T \in Patterns[m] /\ Children[m] \cap T2 \in Patterns[m]
    BY <1>2, <2>1, <2>2, <2>3
  <2>5. \A P, Q \in Patterns[m] : P = Q \/ P \cap Q = {}
    BY <1>2, HostAssumption DEF PatternsAssumption
  <2>. QED
    BY <2>3, <2>4, <2>5
<1>8. z \in Line(m)
  BY <1>2, <1>5, <1>6, <1>7
<1>9. z \in Ancestors[m] \/ z = m
  BY <1>8 DEF Line
<1>. QED
  BY <1>2, <1>5, <1>9, HostAssumption DEF AncestorsAssumption
=============================================================================
