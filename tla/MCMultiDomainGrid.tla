-------------------------- MODULE MCMultiDomainGrid -------------------------
(* One macro cell A with two refinement rules, {A1, A2} and the closure    *)
(* {A3, A4}; A1 and A2 can be refined once more.  Among the changes of the *)
(* grid are: coarsening over two levels at once, one child refined while   *)
(* the other is coarsened, and one rule replaced by the other.             *)
EXTENDS MultiDomainGrid

CONSTANTS A, A1, A2, A3, A4, A11, A12, A21, A22

MCCell == {A, A1, A2, A3, A4, A11, A12, A21, A22}

MCAncestors ==
  [c \in MCCell |-> CASE c = A -> {}
                      [] c \in {A11, A12} -> {A, A1}
                      [] c \in {A21, A22} -> {A, A2}
                      [] OTHER -> {A}]

MCPatterns ==
  [c \in MCCell |-> CASE c = A -> {{A1, A2}, {A3, A4}}
                      [] c = A1 -> {{A11, A12}}
                      [] c = A2 -> {{A21, A22}}
                      [] OTHER -> {}]

MCTree ==
  {{A}, {A, A3, A4}, {A, A1, A2}, {A, A1, A2, A11, A12}, {A, A1, A2, A21, A22}}
=============================================================================
