------------------------------ MODULE IndexSet ------------------------------
(***************************************************************************)
(* The index sets of a MultiDomainGrid on a host grid that stands still    *)
(* (IndexSetWrapper in indexsets.hh): the marking of cells, reset(), and   *)
(* update() cell by cell, which fills the level index sets, marks the      *)
(* sub-entities and numbers every view.  Cell is the set of existing       *)
(* cells; the orders in which the host iterates over its entities are      *)
(* arbitrary.  On one process the two communication calls change nothing.  *)
(*                                                                         *)
(* Two ways lead through update():                                         *)
(*   marking: reset(false), assignments, update(levels, true);             *)
(*   rebuild: reset(true), update(levels, true) with no subdomains at all, *)
(*     the saved subdomains are added, update(levels, false)               *)
(*     (multidomaingrid.hh 1068-1090, 1114-1135).                          *)
(***************************************************************************)
EXTENDS HostTree, MapEntries, FiniteSetsExt

CONSTANTS
  Closure,       \* Closure[c]: the sub-entities of the cell c
  MaxLevel,      \* maxLevel() of the host grid
  LevelSupport   \* _supportLevelIndexSets

SubEntity == Entity \ Cell

ASSUME IndexSetAssumption ==
  /\ Cell \subseteq Entity
  /\ Closure \in [Cell -> SUBSET SubEntity]
  /\ \A e \in Entity : e \in Cell <=> CodimOf[TypeOf[e]] = 0
  /\ MaxLevel \in Nat
  /\ \A c \in Cell : Level[c] \in 0 .. MaxLevel
  /\ LevelSupport \in BOOLEAN
  /\ IsFiniteSet(GeometryType)

(* The leaf view and one view per level, in the order update() uses.       *)
LeafView == -1
LevelView == IF LevelSupport THEN 0 .. MaxLevel ELSE {}
View == {LeafView} \cup LevelView
LastView == IF LevelSupport THEN MaxLevel ELSE LeafView

Elements(v) == IF v = LeafView THEN Leaves(Cell) ELSE {c \in Cell : Level[c] = v}
SubEntities(v) == UNION {Closure[c] : c \in Elements(v)}

VARIABLES
  domains,    \* domains[v][e]: MapEntry::domains of e in the index set of v
  num,        \* num[v]: the numbering of the index set of v
  codimSizes, \* codimSizes[v][k][s]: codimSizeMap
  pc,         \* what the code is doing
  after,      \* what it does when the running update() is complete
  view,       \* the view update() is working on
  toVisit,    \* cells of that view the loop has not reached
  toNumber    \* sub-entities of that view updateSubIndices has not reached

passVars == <<pc, after, view, toVisit, toNumber>>
vars == <<domains, num, codimSizes, passVars>>

NoDomains == [e \in Entity |-> {}]
NoSizes == [k \in Codim |-> [s \in SubDomain |-> 0]]

(* Mutant: reset(false) leaves the marks of sub-entities in place.         *)
ResetDomains_KeepMarks(dom, full) ==
  [e \in Entity |-> IF full THEN {} ELSE dom[e]]

(* reset(full): sub-entities always start over, cells only if full.        *)
ResetDomains(dom, full) ==
  [e \in Entity |-> IF full \/ e \notin Cell THEN {} ELSE dom[e]]

Init ==
  /\ domains = [v \in View |-> NoDomains]
  /\ num = [v \in View |-> NoNumbers]
  /\ codimSizes = [v \in View |-> NoSizes]
  /\ pc = "idle" /\ after = "idle" /\ view = LeafView
  /\ toVisit = {} /\ toNumber = {}

-----------------------------------------------------------------------------
(* startSubDomainMarking(): reset(false) on a copy of the leaf index set,  *)
(* which starts the numbering over but keeps the sizes per codimension.    *)
StartMarking ==
  /\ pc = "idle"
  /\ pc' = "marking"
  /\ domains' = [domains EXCEPT ![LeafView] = ResetDomains(@, FALSE)]
  /\ num' = [num EXCEPT ![LeafView] = NoNumbers]
  /\ UNCHANGED <<codimSizes, after, view, toVisit, toNumber>>

(* add-, remove-, assignTo-, removeFromAll: the entry of a leaf changes.   *)
Assign(c, D) ==
  /\ pc = "marking"
  /\ domains' = [domains EXCEPT ![LeafView][c] = D]
  /\ UNCHANGED <<num, codimSizes, passVars>>

(* update() begins: the level index sets are reset, fully or not, and the  *)
(* leaf index set starts with the given entries, numbering and sizes.      *)
BeginUpdate(leaf, numbers, sizes, full, then) ==
  /\ domains' = [v \in View |->
       IF v = LeafView THEN leaf ELSE ResetDomains(domains[v], full)]
  /\ num' = [v \in View |-> IF v = LeafView THEN numbers ELSE NoNumbers]
  /\ codimSizes' = [v \in View |->
       IF v = LeafView THEN sizes ELSE IF full THEN NoSizes ELSE codimSizes[v]]
  /\ pc' = "elements" /\ after' = then /\ view' = LeafView
  /\ toVisit' = Elements(LeafView) /\ toNumber' = {}

(* preUpdateSubDomains(), on level index sets made for the purpose         *)
PreUpdate ==
  /\ pc = "marking"
  /\ BeginUpdate(domains[LeafView], num[LeafView], codimSizes[LeafView], TRUE, "idle")

(* Mutant: updateIndexSets() resets the leaf index set only partly.        *)
Rebuild_KeepDomains ==
  /\ pc = "idle"
  /\ BeginUpdate(ResetDomains(domains[LeafView], FALSE), NoNumbers, NoSizes, TRUE, "restore")

(* updateIndexSets(): reset(true) of the leaf index set, then update()     *)
Rebuild ==
  /\ pc = "idle"
  /\ BeginUpdate(NoDomains, NoNumbers, NoSizes, TRUE, "restore")

(* restoreMultiDomainState(): the subdomains saved[c] are added to every   *)
(* leaf c; the leaf index set is not reset again.                          *)
Restore(saved) ==
  /\ pc = "restore"
  /\ BeginUpdate([e \in Entity |-> domains[LeafView][e] \cup
                    IF e \in Leaves(Cell) THEN saved[e] ELSE {}],
                 num[LeafView], codimSizes[LeafView], FALSE, "idle")

-----------------------------------------------------------------------------
(* Mutant: the walk ends at a father that shares any subdomain.            *)
MarkedAncestors_AnyShared(c, D) ==
  {a \in Ancestors[c] :
     \A b \in Ancestors[c] : a \in Line(b) => D \cap domains[Level[b]][b] = {}}

(* markAncestors(): the walk up from c adds D to every father until one    *)
(* contains all of D already.                                              *)
MarkedAncestors(c, D) ==
  {a \in Ancestors[c] :
     \A b \in Ancestors[c] : a \in Line(b) => ~ D \subseteq domains[Level[b]][b]}

(* One turn of the loop over the leaf cells: the level index sets get the  *)
(* subdomains of the leaf, the leaf is numbered, its sub-entities marked.  *)
VisitLeaf(c) ==
  LET D == domains[LeafView][c]
      raised == IF LevelSupport THEN {c} \cup MarkedAncestors(c, D) ELSE {}
      gains(v) == IF v = LeafView THEN Closure[c]
                  ELSE {a \in raised : Level[a] = v}
  IN  /\ pc = "elements" /\ view = LeafView
      /\ toVisit' = toVisit \ {c}
      /\ num' = [num EXCEPT ![LeafView] = UpdateMapEntry(@, D, c)]
      /\ domains' = [v \in View |-> [e \in Entity |->
           IF e \in gains(v) THEN domains[v][e] \cup D ELSE domains[v][e]]]
      /\ UNCHANGED <<codimSizes, pc, after, view, toNumber>>

(* One turn of the loop of updateLevelIndexSet().                          *)
VisitLevelCell(c) ==
  LET D == domains[view][c]
  IN  /\ pc = "elements" /\ view # LeafView
      /\ toVisit' = toVisit \ {c}
      /\ num' = [num EXCEPT ![view] = UpdateMapEntry(@, D, c)]
      /\ domains' = [domains EXCEPT ![view] = [e \in Entity |->
           IF e \in Closure[c] THEN @[e] \cup D ELSE @[e]]]
      /\ UNCHANGED <<codimSizes, pc, after, view, toNumber>>

BeginSubIndices ==
  /\ pc = "elements" /\ toVisit = {}
  /\ pc' = "subIndices"
  /\ toNumber' = SubEntities(view)
  /\ UNCHANGED <<domains, num, codimSizes, after, view, toVisit>>

(* One entry in the loops of updateSubIndices.                             *)
NumberSubEntity(e) ==
  /\ pc = "subIndices"
  /\ toNumber' = toNumber \ {e}
  /\ num' = [num EXCEPT ![view] = UpdateMapEntry(@, domains[view][e], e)]
  /\ UNCHANGED <<domains, codimSizes, pc, after, view, toVisit>>

TypesOf(k) == {g \in GeometryType : CodimOf[g] = k}

(* Mutant: the size of one geometry type instead of the sum of all.        *)
CollectedSizes_OneType(sizes) ==
  [k \in Codim |-> [s \in SubDomain |-> sizes[CHOOSE g \in TypesOf(k) : TRUE][s]]]

(* updatePerCodimSizes: the sizes of all geometry types of a codimension.  *)
CollectedSizes(sizes) ==
  [k \in Codim |-> [s \in SubDomain |->
     MapThenSumSet(LAMBDA g : sizes[g][s], TypesOf(k))]]

(* Mutant: the loop over the levels visits the cells of the level before.  *)
EndView_PreviousCells ==
  /\ pc = "subIndices" /\ toNumber = {}
  /\ codimSizes' = [codimSizes EXCEPT ![view] = CollectedSizes(num[view].sizes)]
  /\ IF view = LastView
     THEN /\ pc' = after
          /\ UNCHANGED <<view, toVisit>>
     ELSE /\ pc' = "elements"
          /\ view' = view + 1
          /\ toVisit' = Elements(view)
  /\ UNCHANGED <<domains, num, after, toNumber>>

(* The index set of this view is complete; the next level follows.         *)
EndView ==
  /\ pc = "subIndices" /\ toNumber = {}
  /\ codimSizes' = [codimSizes EXCEPT ![view] = CollectedSizes(num[view].sizes)]
  /\ IF view = LastView
     THEN /\ pc' = after
          /\ UNCHANGED <<view, toVisit>>
     ELSE /\ pc' = "elements"
          /\ view' = view + 1
          /\ toVisit' = Elements(view + 1)
  /\ UNCHANGED <<domains, num, after, toNumber>>

Next ==
  \/ StartMarking
  \/ \E c \in Leaves(Cell), D \in SUBSET SubDomain : Assign(c, D)
  \/ PreUpdate
  \/ Rebuild
  \/ \E saved \in [Leaves(Cell) -> SUBSET SubDomain] : Restore(saved)
  \/ \E c \in toVisit : VisitLeaf(c)
  \/ \E c \in toVisit : VisitLevelCell(c)
  \/ BeginSubIndices
  \/ \E e \in toNumber : NumberSubEntity(e)
  \/ EndView

Spec == Init /\ [][Next]_vars

-----------------------------------------------------------------------------
EntitiesOf(v) == Elements(v) \cup SubEntities(v)

TypeOK ==
  /\ domains \in [View -> [Entity -> SUBSET SubDomain]]
  /\ num \in [View -> Numbering]
  /\ codimSizes \in [View -> [Codim -> [SubDomain -> Nat]]]
  /\ pc \in {"idle", "marking", "restore", "elements", "subIndices"}
  /\ after \in {"idle", "restore"}
  /\ view \in View
  /\ toVisit \subseteq Elements(view)
  /\ toNumber \subseteq SubEntities(view)

InPass == pc \in {"elements", "subIndices"}

(* The entities of the view v that have a number: those the running pass   *)
(* has reached, all of them when there is no pass.                         *)
Numbered(v) ==
  IF InPass /\ v = view
  THEN (Elements(v) \ toVisit) \cup
       (IF pc = "subIndices" THEN SubEntities(v) \ toNumber ELSE {})
  ELSE IF (InPass /\ v > view) \/ (pc = "marking" /\ v = LeafView) THEN {}
  ELSE EntitiesOf(v)

(* At every moment of every pass, the entities numbered so far are         *)
(* numbered in each subdomain consecutively from 0, per geometry type and  *)
(* without a number used twice, however often the grid was re-marked or    *)
(* rebuilt before (updateMapEntry 883-898 with index 432-443).  For a      *)
(* finished index set this is what DUNE requires of an index set: indices  *)
(* are a bijection onto 0 .. size - 1.                                     *)
IndicesConsecutive ==
  \A v \in View : Consecutive(num[v], domains[v], Numbered(v))

(* size(subDomain, codim) counts the entities of all geometry types of the *)
(* codimension in the subdomain (updatePerCodimSizes 806-818).             *)
CodimSizesCount ==
  pc = "idle" =>
    \A v \in View, k \in Codim, s \in SubDomain :
      codimSizes[v][k][s] =
        Cardinality({e \in EntitiesOf(v) : CodimOf[TypeOf[e]] = k /\ s \in domains[v][e]})

(* A vertex, edge or face belongs to the subdomains of the cells around it *)
(* and to no others: removing the last cell around it removes it, although *)
(* entries survive from one layout to the next (reset 771-776).            *)
SubEntitiesFollowCells ==
  pc = "idle" =>
    \A v \in View : \A e \in SubEntities(v) :
      domains[v][e] = UNION {domains[v][c] : c \in {b \in Elements(v) : e \in Closure[b]}}

(* A cell of a level index set is in exactly the subdomains of the leaves  *)
(* below it: ending the walk up at the first father that contains the      *)
(* subdomains loses nothing (markAncestors 900-910).                       *)
LevelsFollowLeaves ==
  pc = "idle" =>
    \A c \in Cell : LevelSupport =>
      domains[Level[c]][c] =
        UNION {domains[LeafView][d] : d \in {b \in Leaves(Cell) : c \in Line(b)}}

-----------------------------------------------------------------------------
(* The inductive invariant behind IndicesConsecutive.  Restore() continues *)
(* with the counters of a finished pass; that is sound only because that   *)
(* pass found no subdomains at all, so that every counter is still 0.      *)
RebuildingEmpty ==
  pc = "restore" \/ (pc \in {"elements", "subIndices"} /\ after = "restore") =>
    \A v \in View, e \in Entity : domains[v][e] = {}

NumberedSoFar ==
  \A v \in View :
    /\ Consecutive(num[v], domains[v], Numbered(v))
    /\ Stored(num[v], domains[v], Numbered(v))

(* TypeOK without codimSizes, which no step reads.                         *)
PassTypeOK ==
  /\ domains \in [View -> [Entity -> SUBSET SubDomain]]
  /\ num \in [View -> Numbering]
  /\ pc \in {"idle", "marking", "restore", "elements", "subIndices"}
  /\ after \in {"idle", "restore"}
  /\ view \in View
  /\ toVisit \subseteq Elements(view)
  /\ toNumber \subseteq SubEntities(view)
  /\ pc = "subIndices" => toVisit = {}

NumberingInv == PassTypeOK /\ RebuildingEmpty /\ NumberedSoFar

(* The inductive invariant behind SubEntitiesFollowCells and               *)
(* LevelsFollowLeaves: they hold for what the loops have visited.          *)
Visited(v) ==
  IF InPass /\ v = view THEN Elements(v) \ toVisit
  ELSE IF (InPass /\ v > view) \/ (pc = "marking" /\ v = LeafView) THEN {}
  ELSE Elements(v)

MarkedSoFar ==
  /\ \A v \in View : \A e \in SubEntity :
       domains[v][e] = UNION {domains[v][c] : c \in {b \in Visited(v) : e \in Closure[b]}}
  /\ LevelSupport /\ pc # "marking" =>
       \A c \in Cell :
         domains[Level[c]][c] =
           UNION {domains[LeafView][d] : d \in {b \in Visited(LeafView) : c \in Line(b)}}

MarksInv == NumberingInv /\ MarkedSoFar

(* The inductive invariant behind CodimSizesCount: the sizes kept per      *)
(* codimension are the sums for the views that update() has completed.     *)
Summed(v) == IF InPass THEN v < view ELSE pc = "marking" => v # LeafView

SizesFollow ==
  \A v \in View : Summed(v) => codimSizes[v] = CollectedSizes(num[v].sizes)

SizesInv ==
  /\ NumberingInv
  /\ codimSizes \in [View -> [Codim -> [SubDomain -> Nat]]]
  /\ SizesFollow
=============================================================================
