---------------------------- MODULE MCIndexSets -----------------------------
(* A host grid of three levels in two dimensions,                          *)
(*   A -> A1, A2;  A1 -> A11, A12,                                         *)
(* triangles and quadrilaterals, with three of its vertices: m between A11 *)
(* and A12, q between A1 and A2 (and their descendants), r at the outer    *)
(* side of A and A2.  Codimension 1 has no indices, as in                  *)
(* CellAndVertexCodims.                                                    *)
EXTENDS SubDomainIndexSets

CONSTANTS A, A1, A2, A11, A12, m, q, r, triangle, quadrilateral, edge, vertex

MCCell == {A, A1, A2, A11, A12}
MCAncestors ==
  [c \in MCCell |-> CASE c = A -> {}
                      [] c \in {A1, A2} -> {A}
                      [] OTHER -> {A, A1}]
MCVertices == {m, q, r}
MCEntity == MCCell \cup MCVertices
MCTypes ==
  [e \in MCEntity |-> CASE e \in MCVertices -> vertex
                        [] e \in {A1, A11} -> triangle
                        [] OTHER -> quadrilateral]
MCClosure ==
  [c \in MCCell |-> CASE c = A -> {r} [] c = A1 -> {q} [] c = A2 -> {q, r}
                      [] c = A11 -> {m} [] c = A12 -> {m, q}]
MCCodimOf == [g \in GeometryType |-> IF g = vertex THEN 2 ELSE 0]
MCHostTypes ==
  [k \in 0 .. 2 |-> CASE k = 0 -> {triangle, quadrilateral}
                      [] k = 1 -> {edge}
                      [] k = 2 -> {vertex}]
MCPatterns == [c \in Cell |-> {Children[c]} \ {{}}]
MCTree == {Cell}

(* domainOffset() of the sorted array.                                     *)
ArrayOffset(D, s) == Cardinality({t \in D : t < s})
=============================================================================
