-------------------------- MODULE FailedAdaptation --------------------------
(***************************************************************************)
(* The life cycle of module MultiDomainGrid when the host grid throws in   *)
(* adapt() or globalRefine(), out of memory or out of elements.  adapt()   *)
(* has set _adaptState by then, and _adaptationStateMap, which is empty    *)
(* between calls otherwise, keeps what saveMultiDomainState() wrote; the   *)
(* next call saves on top of it.  The host is assumed to leave its grid as *)
(* it was when it throws.  The caller catches, calls postAdapt() where     *)
(* adapt() has thrown (preAdapt() asserts otherwise), and may go on with   *)
(* anything, a marking cycle included.                                     *)
(***************************************************************************)
EXTENDS MultiDomainGrid

VARIABLES
  saved,       \* _adaptationStateMap between calls
  reassigned   \* history: a layout was published since the host has thrown

allVars == <<vars, saved, reassigned>>

InitEmpty == Init /\ saved = NoSet /\ reassigned = FALSE

(* A bug: the entries of leaves are inserted, so that old ones win.        *)
SavingInserts(vanishing) ==
  LET now == SavedState(vanishing)
  IN  [id \in DOMAIN saved \cup DOMAIN now |->
         IF id \in DOMAIN saved THEN saved[id] ELSE now[id]]

(* saveMultiDomainState() on a map that need not be empty: leaves are      *)
(* assigned, cells above them joined to what is there.                     *)
Saving(vanishing) ==
  LET now == SavedState(vanishing)
      At(map, id) == IF id \in DOMAIN map THEN map[id] ELSE {}
  IN  [id \in DOMAIN saved \cup DOMAIN now |->
         IF id \in Leaves(tree) THEN now[id] ELSE At(saved, id) \cup At(now, id)]

(* The host throws out of adapt() or globalRefine().                       *)
Throws(vanishing) ==
  /\ vanishing \subseteq tree \ Roots
  /\ saved' = Saving(vanishing)
  /\ reassigned' = (reassigned /\ saved # NoSet)
  /\ UNCHANGED <<hostVars, liveVars, tmpVars, state, maxAssigned>>

AdaptThrows(vanishing) ==
  /\ state = "fixed" /\ adaptState = "preAdapt"
  /\ adaptState' = "postAdapt"
  /\ Throws(vanishing)

GlobalRefineThrows(vanishing) ==
  /\ state = "fixed" /\ adaptState = "fixed"
  /\ Throws(vanishing)
  /\ UNCHANGED adaptState

(* A bug: restoreMultiDomainState() does not clear the map.                *)
RestoreKeepsMap(T2, vanishing, isNew) ==
  /\ tree' = T2
  /\ leafSet' = RestoredSet(T2, Saving(vanishing), isNew)
  /\ levelSets' = LevelSetsOf(T2, leafSet')
  /\ saved' = Saving(vanishing)
  /\ reassigned' = FALSE

(* updateIndexSets() and restoreMultiDomainState() after the host changed  *)
(* its grid.                                                               *)
Restore(T2, vanishing, isNew) ==
  /\ tree' = T2
  /\ leafSet' = RestoredSet(T2, Saving(vanishing), isNew)
  /\ levelSets' = LevelSetsOf(T2, leafSet')
  /\ saved' = NoSet
  /\ reassigned' = FALSE

AdaptSucceeds(T2, vanishing) ==
  /\ state = "fixed" /\ adaptState = "preAdapt"
  /\ HostMayAdapt(tree, vanishing, T2)
  /\ adaptState' = "postAdapt"
  /\ new' = T2 \ tree
  /\ Restore(T2, vanishing, new')
  /\ UNCHANGED <<tmpVars, state, maxAssigned>>

GlobalRefineSucceeds(T2, vanishing) ==
  /\ state = "fixed" /\ adaptState = "fixed"
  /\ HostMayRefine(tree, vanishing, T2)
  /\ Restore(T2, vanishing, new)
  /\ UNCHANGED <<new, tmpVars, state, adaptState, maxAssigned>>

(* The calls that do not touch the map; publishing a layout is remembered. *)
OtherCalls ==
  /\ MarkingCycle \/ PreAdapt \/ PostAdapt
  /\ reassigned' = (reassigned \/ (saved # NoSet /\ leafSet' # leafSet))
  /\ UNCHANGED saved

FailingNext ==
  \/ OtherCalls
  \/ \E vanishing \in SUBSET tree :
       \/ AdaptThrows(vanishing)
       \/ GlobalRefineThrows(vanishing)
       \/ \E T2 \in Tree : AdaptSucceeds(T2, vanishing) \/ GlobalRefineSucceeds(T2, vanishing)

FailingSpec == InitEmpty /\ [][FailingNext]_allVars

-----------------------------------------------------------------------------
(* A call that is repeated after the host has thrown, once or several      *)
(* times, at another point of the grid or by the other function, hands on  *)
(* exactly the layout in use, as long as no other layout was published in  *)
(* between (multidomaingrid.hh 745-777, 1092-1135).                        *)
RetryIsExact ==
  [][tree' # tree /\ ~ reassigned =>
       leafSet' = [c \in Leaves(tree') |-> Layout!Inherited(c)]]_allVars

(* Even if one was published, no leaf loses a subdomain, and only a leaf   *)
(* that comes in the place of vanished cells can get one too many, from a  *)
(* layout that is no longer in use: leaves are saved by assignment, only   *)
(* cells above them join what the failed call left (1100-1107).            *)
NothingLost ==
  [][tree' # tree =>
       \A c \in Leaves(tree') :
         /\ Layout!Inherited(c) \subseteq leafSet'[c]
         /\ Line(c) \cap Leaves(tree) # {} => leafSet'[c] = Layout!Inherited(c)]_allVars

-----------------------------------------------------------------------------
(* The inductive invariant behind RetryIsExact: what a failed call has     *)
(* left in the map is about cells that are still there, and while the      *)
(* layout is the same, part of what the leaves below them have.            *)
SavedType ==
  /\ reassigned \in BOOLEAN
  /\ DOMAIN saved \subseteq tree
  /\ \A id \in DOMAIN saved : saved[id] \subseteq SubDomain

SavedFollows ==
  ~ reassigned =>
    \A id \in DOMAIN saved :
      saved[id] \subseteq UNION {leafSet[d] : d \in {e \in Leaves(tree) : id \in Line(e)}}

FailingInv == TypeOK /\ SavedType /\ SavedFollows
=============================================================================
