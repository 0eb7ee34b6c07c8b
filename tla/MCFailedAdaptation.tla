------------------------- MODULE MCFailedAdaptation -------------------------
(* One macro cell with two refinement rules, one of whose children can be  *)
(* refined once more: it is refined, coarsened over one or two levels and  *)
(* refined in the other way, each time after failures of the host.         *)
EXTENDS FailedAdaptation

CONSTANTS A, A1, A2, A3, A4, A11, A12

MCCell == {A, A1, A2, A3, A4, A11, A12}

MCAncestors ==
  [c \in MCCell |-> CASE c = A -> {} [] c \in {A11, A12} -> {A, A1} [] OTHER -> {A}]

MCPatterns ==
  [c \in MCCell |-> CASE c = A -> {{A1, A2}, {A3, A4}} [] c = A1 -> {{A11, A12}} [] OTHER -> {}]

MCTree == {{A}, {A, A3, A4}, {A, A1, A2}, {A, A1, A2, A11, A12}}
=============================================================================
