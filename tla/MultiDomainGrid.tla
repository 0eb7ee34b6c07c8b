--------------------------- MODULE MultiDomainGrid --------------------------
(***************************************************************************)
(* The life cycle of a MultiDomainGrid (multidomaingrid.hh): the marking   *)
(* cycle startSubDomainMarking / add, remove, assign / preUpdateSubDomains *)
(* / updateSubDomains / postUpdateSubDomains, the adaptation cycle         *)
(* preAdapt / adapt / postAdapt, and globalRefine.  Each action is one     *)
(* call of the public interface.  The asserts of the code are the guards:  *)
(* a debug build stops there.                                              *)
(*                                                                         *)
(* An index set is represented by the subdomains of its cells, a function  *)
(* whose domain is the set of cells the container has slots for.  The      *)
(* numbering inside an index set is the subject of module IndexSet.        *)
(***************************************************************************)
EXTENDS HostTree

CONSTANTS
  SubDomain,       \* the subdomain indices in use, a finite set of naturals
  LevelSupport     \* _supportLevelIndexSets

ASSUME SubDomainAssumption ==
  /\ SubDomain \subseteq Nat
  /\ LevelSupport \in BOOLEAN

VARIABLES
  tree,        \* the cells of the host grid
  new,         \* the cells whose isNew() is TRUE
  leafSet,     \* _leafIndexSet
  levelSets,   \* _levelIndexSets, all levels together
  tmpLeafSet,  \* _tmpLeafIndexSet, NoSet when null
  tmpLevelSets,\* _tmpLevelIndexSets, NoSet when empty
  state,       \* _state
  adaptState,  \* _adaptState
  maxAssigned  \* _maxAssignedSubDomainIndex

hostVars == <<tree, new>>
liveVars == <<leafSet, levelSets>>
tmpVars == <<tmpLeafSet, tmpLevelSets>>
vars == <<hostVars, liveVars, tmpVars, state, adaptState, maxAssigned>>

NoSet == [c \in {} |-> {}]

States == {"fixed", "marking", "preUpdate", "postUpdate", "preAdapt", "postAdapt"}

(* The level index sets that IndexSetWrapper::update() builds next to the  *)
(* leaf index set L of the grid T: every leaf enters its subdomains in its *)
(* own entry and, by markAncestors(), in the entry of each ancestor.       *)
LevelSetsOf(T, L) ==
  [c \in IF LevelSupport THEN T ELSE {} |->
     UNION {L[d] : d \in {e \in Leaves(T) : c \in Line(e)}}]

-----------------------------------------------------------------------------
(* Saving and restoring the layout around a change of the host grid.       *)

(* The ancestors that the walk "while (he.mightVanish()) he = he.father()" *)
(* from a leaf d reaches.                                                  *)
Climbed(d, vanishing) ==
  {a \in Ancestors[d] : \A b \in Line(d) : a \in Ancestors[b] => b \in vanishing}

(* Mutant: insert() without addAll(), the first child to arrive wins.      *)
SavedState_FirstOnly(vanishing) ==
  LET leaves == Leaves(tree)
  IN  [id \in leaves \cup UNION {Climbed(d, vanishing) : d \in leaves} |->
         leafSet[IF id \in leaves THEN id
                 ELSE CHOOSE e \in leaves : id \in Climbed(e, vanishing)]]

(* _adaptationStateMap after saveMultiDomainState().                       *)
SavedState(vanishing) ==
  LET leaves == Leaves(tree)
  IN  [id \in leaves \cup UNION {Climbed(d, vanishing) : d \in leaves} |->
         IF id \in leaves THEN leafSet[id]
         ELSE UNION {leafSet[d] : d \in {e \in leaves : id \in Climbed(e, vanishing)}}]

(* Where restoreMultiDomainState() looks for the subdomains of the leaf c: *)
(* up the line past the new cells, then up to the first saved cell.        *)
SavedCell(c, saved, isNew) ==
  LET old == Lowest(Line(c) \ isNew)
  IN  Lowest(Line(old) \cap DOMAIN saved)

RestoredSet(T2, saved, isNew) ==
  [c \in Leaves(T2) |-> saved[SavedCell(c, saved, isNew)]]

(* The host grid goes from tree to T2 between saveMultiDomainState() and   *)
(* restoreMultiDomainState(); updateIndexSets() has resized the index sets *)
(* and emptied them in between.                                            *)
CarryOver(T2, vanishing, isNew) ==
  /\ tree' = T2
  /\ leafSet' = RestoredSet(T2, SavedState(vanishing), isNew)
  /\ levelSets' = LevelSetsOf(T2, leafSet')

-----------------------------------------------------------------------------
(* Construction: updateIndexSets() on the host grid as it is.              *)
Init ==
  /\ tree \in Tree
  /\ new = {}
  /\ leafSet = [c \in Leaves(tree) |-> {}]
  /\ levelSets = LevelSetsOf(tree, leafSet)
  /\ tmpLeafSet = NoSet
  /\ tmpLevelSets = NoSet
  /\ state = "fixed"
  /\ adaptState = "fixed"
  /\ maxAssigned = 0

-----------------------------------------------------------------------------
(* The marking cycle.                                                      *)

StartSubDomainMarking ==
  /\ state = "fixed" /\ adaptState = "fixed"
  /\ state' = "marking"
  /\ tmpLeafSet' = leafSet
  /\ UNCHANGED <<hostVars, liveVars, tmpLevelSets, adaptState, maxAssigned>>

(* What the four assignment calls share: the asserts on the state and on   *)
(* e.isLeaf(), and the entry of c in the temporary leaf index set.         *)
Assignment(c, D) ==
  /\ state = "marking"
  /\ c \in Leaves(tree)
  /\ tmpLeafSet' = [tmpLeafSet EXCEPT ![c] = D]
  /\ UNCHANGED <<hostVars, liveVars, tmpLevelSets, state, adaptState>>

(* Mutant: the last index instead of the largest.                          *)
RaiseMaxAssigned_Last(s) == maxAssigned' = s

RaiseMaxAssigned(s) == maxAssigned' = IF s > maxAssigned THEN s ELSE maxAssigned

AddToSubDomain(s, c) ==
  Assignment(c, tmpLeafSet[c] \cup {s}) /\ RaiseMaxAssigned(s)

RemoveFromSubDomain(s, c) ==
  Assignment(c, tmpLeafSet[c] \ {s}) /\ UNCHANGED maxAssigned

AssignToSubDomain(s, c) ==
  Assignment(c, {s}) /\ RaiseMaxAssigned(s)

RemoveFromAllSubDomains(c) ==
  Assignment(c, {}) /\ UNCHANGED maxAssigned

PreUpdateSubDomains ==
  /\ state = "marking" /\ adaptState = "fixed"
  /\ state' = "preUpdate"
  /\ tmpLevelSets' = LevelSetsOf(tree, tmpLeafSet)
  /\ UNCHANGED <<hostVars, liveVars, tmpLeafSet, adaptState, maxAssigned>>

(* Mutant: the level index sets are not exchanged.                         *)
UpdateSubDomains_LeafOnly ==
  /\ state = "preUpdate" /\ adaptState = "fixed"
  /\ state' = "postUpdate"
  /\ leafSet' = tmpLeafSet /\ tmpLeafSet' = leafSet
  /\ UNCHANGED <<hostVars, levelSets, tmpLevelSets, adaptState, maxAssigned>>

(* The containers are exchanged, the index set objects stay.               *)
UpdateSubDomains ==
  /\ state = "preUpdate" /\ adaptState = "fixed"
  /\ state' = "postUpdate"
  /\ leafSet' = tmpLeafSet /\ tmpLeafSet' = leafSet
  /\ levelSets' = tmpLevelSets /\ tmpLevelSets' = levelSets
  /\ UNCHANGED <<hostVars, adaptState, maxAssigned>>

(* Mutant: _tmpLevelIndexSets is not cleared.                              *)
PostUpdateSubDomains_KeepLevels ==
  /\ state = "postUpdate" /\ adaptState = "fixed"
  /\ state' = "fixed"
  /\ tmpLeafSet' = NoSet
  /\ UNCHANGED <<hostVars, liveVars, tmpLevelSets, adaptState, maxAssigned>>

PostUpdateSubDomains ==
  /\ state = "postUpdate" /\ adaptState = "fixed"
  /\ state' = "fixed"
  /\ tmpLeafSet' = NoSet
  /\ tmpLevelSets' = NoSet
  /\ UNCHANGED <<hostVars, liveVars, adaptState, maxAssigned>>

MarkingCycle ==
  \/ StartSubDomainMarking
  \/ \E s \in SubDomain, c \in DOMAIN tmpLeafSet :
       \/ AddToSubDomain(s, c)
       \/ RemoveFromSubDomain(s, c)
       \/ AssignToSubDomain(s, c)
  \/ \E c \in DOMAIN tmpLeafSet : RemoveFromAllSubDomains(c)
  \/ PreUpdateSubDomains
  \/ UpdateSubDomains
  \/ PostUpdateSubDomains

-----------------------------------------------------------------------------
(* The adaptation cycle.  mark() only forwards to the host grid; which     *)
(* cells it makes the host refine or flag is the choice of T2 and          *)
(* vanishing below.                                                        *)

PreAdapt ==
  /\ state = "fixed" /\ adaptState = "fixed"
  /\ adaptState' = "preAdapt"
  /\ UNCHANGED <<hostVars, liveVars, tmpVars, state, maxAssigned>>

Adapt(T2, vanishing) ==
  /\ state = "fixed" /\ adaptState = "preAdapt"
  /\ HostMayAdapt(tree, vanishing, T2)
  /\ adaptState' = "postAdapt"
  /\ new' = T2 \ tree
  /\ CarryOver(T2, vanishing, new')
  /\ UNCHANGED <<tmpVars, state, maxAssigned>>

PostAdapt ==
  /\ state = "fixed" /\ adaptState = "postAdapt"
  /\ adaptState' = "fixed"
  /\ new' = {}
  /\ UNCHANGED <<tree, liveVars, tmpVars, state, maxAssigned>>

AdaptationCycle ==
  \/ PreAdapt
  \/ \E T2 \in Tree, vanishing \in SUBSET tree : Adapt(T2, vanishing)
  \/ PostAdapt

(* globalRefine() asserts nothing, and the host sets no isNew() marks.     *)
GlobalRefine(T2, vanishing) ==
  /\ HostMayRefine(tree, vanishing, T2)
  /\ CarryOver(T2, vanishing, new)
  /\ UNCHANGED <<new, tmpVars, state, adaptState, maxAssigned>>

Refinement == \E T2 \in Tree, vanishing \in SUBSET tree : GlobalRefine(T2, vanishing)

-----------------------------------------------------------------------------
Next == MarkingCycle \/ AdaptationCycle \/ Refinement

(* Every sequence of calls the asserts let through.                        *)
Spec == Init /\ [][Next]_vars

(* A caller who keeps to the documented protocol also for globalRefine().  *)
CallerNext ==
  \/ MarkingCycle
  \/ AdaptationCycle
  \/ state = "fixed" /\ adaptState = "fixed" /\ Refinement

CallerSpec == Init /\ [][CallerNext]_vars

-----------------------------------------------------------------------------
SetsOver(T) == [Leaves(T) -> SUBSET SubDomain]

(* Types, and the shape of the containers: every index set has slots for   *)
(* exactly the cells of the host grid it is defined on, and the temporary  *)
(* ones exist exactly while the marking cycle needs them; isNew() marks    *)
(* exist only between adapt() and postAdapt().                             *)
TypeOK ==
  /\ tree \in Tree
  /\ new \subseteq tree /\ (adaptState # "postAdapt" => new = {})
  /\ leafSet \in SetsOver(tree)
  /\ levelSets \in [IF LevelSupport THEN tree ELSE {} -> SUBSET SubDomain]
  /\ state \in {"fixed", "marking", "preUpdate", "postUpdate"}
  /\ adaptState \in {"fixed", "preAdapt", "postAdapt"}
  /\ maxAssigned \in {0} \cup SubDomain
  /\ IF state = "fixed" THEN tmpLeafSet = NoSet ELSE tmpLeafSet \in SetsOver(tree)
  /\ IF state \in {"preUpdate", "postUpdate"}
     THEN tmpLevelSets \in [IF LevelSupport THEN tree ELSE {} -> SUBSET SubDomain]
     ELSE tmpLevelSets = NoSet

(* At every point where the caller can look, the live level index sets say *)
(* the same as the live leaf index set, and so do the prepared and the     *)
(* replaced ones: a cell of any level is in a subdomain exactly when a     *)
(* leaf below it is.  swap(), adapt() and globalRefine() each have to      *)
(* renew both views (multidomaingrid.hh 745-777, 911-920).                 *)
ViewsAgree ==
  /\ levelSets = LevelSetsOf(tree, leafSet)
  /\ state \in {"preUpdate", "postUpdate"} =>
       tmpLevelSets = LevelSetsOf(tree, tmpLeafSet)

(* maxAssignedSubDomainIndex() bounds every subdomain index in the layout  *)
(* in use, in the one being prepared and in the replaced one               *)
(* (multidomaingrid.hh 985-995), also across removal and adaptation.       *)
AssignedBelowMax ==
  \A c \in Leaves(tree) :
    /\ \A s \in leafSet[c] : s <= maxAssigned
    /\ state # "fixed" => \A s \in tmpLeafSet[c] : s <= maxAssigned

(* Reassigning subdomains and changing the host grid exclude each other    *)
(* (multidomaingrid.hh 877-879: "This restriction is enforced by the       *)
(* grid").                                                                 *)
AdaptationExcludesMarking == [][tree' # tree => state = "fixed"]_vars

(* The life cycle implements the promise of SubDomainLayout: one atomic    *)
(* publication of exactly the prepared layout, no change of the layout in  *)
(* use while marking, and inheritance across adapt() and globalRefine().   *)
Layout == INSTANCE SubDomainLayout WITH
  grid <- tree,
  layout <- leafSet,
  draft <- IF state \in {"marking", "preUpdate"} THEN tmpLeafSet ELSE NoSet,
  phase <- CASE state = "marking" -> "drafting"
             [] state = "preUpdate" -> "ready"
             [] state = "postUpdate" -> "published"
             [] OTHER -> "fixed"

LayoutKept == Layout!Spec
=============================================================================
