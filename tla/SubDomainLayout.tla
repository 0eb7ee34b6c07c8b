--------------------------- MODULE SubDomainLayout --------------------------
(***************************************************************************)
(* What a MultiDomainGrid promises about the assignment of leaf cells to   *)
(* subdomains, without index sets, saved state or swapping:                *)
(*   - the layout in use changes only when a finished draft is published   *)
(*     as a whole, or when the host grid is adapted;                       *)
(*   - drafting and adapting exclude each other (multidomaingrid.hh        *)
(*     877-879);                                                           *)
(*   - adaptation loses nothing: a cell that stays keeps its subdomains,   *)
(*     a refined cell hands them to its descendants, a coarsened cell gets *)
(*     those of every cell that vanished below it.                         *)
(***************************************************************************)
EXTENDS HostTree

CONSTANT SubDomain

VARIABLES
  grid,    \* the cells of the host grid
  layout,  \* layout[c]: the subdomains of the leaf cell c
  draft,   \* the layout being prepared
  phase    \* "fixed", "drafting", "ready", "published"

vars == <<grid, layout, draft, phase>>

NoDraft == [c \in {} |-> {}]

Init ==
  /\ grid \in Tree
  /\ layout = [c \in Leaves(grid) |-> {}]
  /\ draft = NoDraft
  /\ phase = "fixed"

Begin ==
  /\ phase = "fixed"
  /\ phase' = "drafting"
  /\ draft' = layout
  /\ UNCHANGED <<grid, layout>>

Edit(c, D) ==
  /\ phase = "drafting"
  /\ draft' = [draft EXCEPT ![c] = D]
  /\ UNCHANGED <<grid, layout, phase>>

Finish ==
  /\ phase = "drafting"
  /\ phase' = "ready"
  /\ UNCHANGED <<grid, layout, draft>>

Publish ==
  /\ phase = "ready"
  /\ phase' = "published"
  /\ layout' = draft
  /\ draft' = NoDraft
  /\ UNCHANGED grid

Forget ==
  /\ phase = "published"
  /\ phase' = "fixed"
  /\ UNCHANGED <<grid, layout, draft>>

(* The subdomains a leaf c of the new grid T2 inherits from the layout of  *)
(* grid: those of the old leaf it is or descends from, else those of all   *)
(* old leaves below the lowest cell of its line that was there before.     *)
Inherited(c) ==
  LET heirOf == Line(c) \cap Leaves(grid)
      survivor == Lowest(Line(c) \cap grid)
      lost == {d \in Leaves(grid) : survivor \in Ancestors[d]}
  IN  IF heirOf # {} THEN UNION {layout[a] : a \in heirOf}
      ELSE UNION {layout[d] : d \in lost}

Reshape ==
  /\ phase = "fixed"
  /\ grid' \in Tree
  /\ layout' = [c \in Leaves(grid') |-> Inherited(c)]
  /\ UNCHANGED <<draft, phase>>

Next ==
  \/ Begin \/ Finish \/ Publish \/ Forget \/ Reshape
  \/ \E c \in DOMAIN draft, D \in SUBSET SubDomain : Edit(c, D)

Spec == Init /\ [][Next]_vars
=============================================================================
