------------------------ MODULE MultiDomainGridProofs -----------------------
(***************************************************************************)
(* The life cycle of a MultiDomainGrid over every host grid and every set  *)
(* of subdomains, for a caller who calls globalRefine() outside the other  *)
(* two cycles (CallerSpec): its types, the agreement of its views, the     *)
(* largest assigned index, and the promise of SubDomainLayout; then the    *)
(* same with a host grid that throws (FailingSpec).                        *)
(***************************************************************************)
EXTENDS FailedAdaptation, HostTreeProofs

(* The change of the host grid in which T2 replaces tree: what adapt() and *)
(* a globalRefine() outside the adaptation cycle know of it.               *)
Change(T2, vanishing, isNew) ==
  /\ tree \in Tree /\ T2 \in Tree
  /\ tree \ T2 \subseteq vanishing
  /\ isNew = T2 \ tree \/ (isNew = {} /\ tree \subseteq T2)

(* The cell whose saved subdomains a leaf c of T2 gets.                    *)
Survivor(c) == Lowest(Line(c) \cap tree)

(* What saveMultiDomainState() keeps for a leaf, or for an ancestor all    *)
(* leaves below which vanish.                                              *)
Kept(a) ==
  IF a \in Leaves(tree) THEN leafSet[a]
  ELSE UNION {leafSet[d] : d \in {e \in Leaves(tree) : a \in Ancestors[e]}}

(* Below a survivor that was refined and is a leaf now, every leaf climbs  *)
(* up to it: no cell in between stays.                                     *)
LEMMA SurvivorClimbed ==
  ASSUME NEW T2, NEW vanishing, NEW isNew, Change(T2, vanishing, isNew),
         NEW c \in Leaves(T2), NEW d \in Leaves(tree), Survivor(c) \in Ancestors[d]
  PROVE  Survivor(c) \in Climbed(d, vanishing)
<1>1. d \in tree /\ Line(d) \subseteq tree
  BY TreeCells DEF Leaves, Change
<1>2. ASSUME NEW b \in Line(d), Survivor(c) \in Ancestors[b], b \notin vanishing
      PROVE  FALSE
  <2>1. b \in tree \cap T2
    BY <1>1, <1>2 DEF Change
  <2>. QED
    BY <1>2, <2>1, SurvivorIsBare DEF Change, Survivor
<1>. QED
  BY <1>2 DEF Climbed

(* restoreMultiDomainState() finds the survivor of every leaf among the    *)
(* saved cells, with exactly the subdomains of the leaf it was or of the   *)
(* leaves that vanished below it.                                          *)
LEMMA SurvivorSaved ==
  ASSUME NEW T2, NEW vanishing, NEW isNew, Change(T2, vanishing, isNew),
         NEW c \in Leaves(T2)
  PROVE  /\ Survivor(c) \in tree
         /\ Survivor(c) \in DOMAIN SavedState(vanishing)
         /\ SavedState(vanishing)[Survivor(c)] = Kept(Survivor(c))
<1> DEFINE m == Survivor(c)
           climbed == {e \in Leaves(tree) : m \in Climbed(e, vanishing)}
           below == {e \in Leaves(tree) : m \in Ancestors[e]}
<1>1. c \in T2 /\ m \in tree
  <2>1. c \in T2
    BY DEF Leaves
  <2>. QED
    BY <2>1, SurvivorFound DEF Survivor, Change
<1>2. climbed = below
  <2>1. climbed \subseteq below
    BY DEF Climbed
  <2>2. below \subseteq climbed
    BY SurvivorClimbed
  <2>. QED
    BY <2>1, <2>2
<1>3. ASSUME m \notin Leaves(tree)
      PROVE  \E d \in Leaves(tree) : m \in Climbed(d, vanishing)
  <2>1. PICK d \in Leaves(tree) : m \in Line(d)
    BY <1>1, TreeCells DEF Change
  <2>2. d \in below
    BY <1>3, <2>1 DEF Line
  <2>. QED
    BY <1>2, <2>2
<1>4. m \in DOMAIN SavedState(vanishing)
  BY <1>3 DEF SavedState
<1>5. SavedState(vanishing)[m] = IF m \in Leaves(tree) THEN leafSet[m]
                                 ELSE UNION {leafSet[d] : d \in climbed}
  BY <1>4 DEF SavedState
<1>6. SavedState(vanishing)[m] = Kept(m)
  BY <1>2, <1>5 DEF Kept
<1>. QED
  BY <1>1, <1>4, <1>6

(* The walk past the new cells and then up to the first saved cell ends at *)
(* the survivor, with isNew() marks and without, in every map that knows   *)
(* the survivor and no cells that were not there.                          *)
LEMMA WalkEndsAtSurvivor ==
  ASSUME NEW T2, NEW vanishing, NEW isNew, Change(T2, vanishing, isNew),
         NEW c \in Leaves(T2),
         NEW map, DOMAIN map \subseteq tree, Survivor(c) \in DOMAIN map
  PROVE  SavedCell(c, map, isNew) = Survivor(c)
<1> DEFINE m == Survivor(c)
           S == DOMAIN map
           old == Lowest(Line(c) \ isNew)
<1>1. c \in T2 /\ c \in Cell /\ Line(c) \subseteq T2
  BY TreeCells DEF Leaves, Change
<1>2. m \in tree /\ m \in Line(c) /\ Line(c) \cap tree \subseteq Line(m)
  BY <1>1, SurvivorFound DEF Survivor, Change
<1>3. m \in Cell /\ m \in S
  BY <1>1, <1>2, LineUp
<1>4. Line(old) \cap S \subseteq Line(m) /\ m \in Line(old) /\ old \in Cell
  <2>1. CASE isNew = T2 \ tree
    <3>1. Line(c) \ isNew = Line(c) \cap tree
      BY <1>1, <2>1
    <3>2. old = m
      BY <3>1 DEF Survivor
    <3>. QED
      BY <1>3, <3>2 DEF Line
  <2>2. CASE isNew = {} /\ tree \subseteq T2
    <3>1. Line(c) \ isNew = Line(c) /\ Line(c) \in SUBSET Line(c) /\ c \in Line(c)
      BY <2>2 DEF Line
    <3>2. old = c
      BY <1>1, <3>1, LowestIs
    <3>. QED
      BY <1>1, <1>2, <3>2
  <2>. QED
    BY <2>1, <2>2 DEF Change
<1>5. Lowest(Line(old) \cap S) = m
  <2>. HIDE DEF old, S, m
  <2>. QED
    BY <1>3, <1>4, LowestIs
<1>. QED
  BY <1>5 DEF SavedCell

(* saveMultiDomainState() only writes about cells of the grid.             *)
LEMMA SavedWithin ==
  ASSUME tree \in Tree, NEW vanishing
  PROVE  Leaves(tree) \subseteq DOMAIN SavedState(vanishing) /\ DOMAIN SavedState(vanishing) \subseteq tree
<1>1. \A d \in Leaves(tree) : d \in tree /\ Ancestors[d] \subseteq tree
  BY TreeCells DEF Leaves, Line
<1>. QED
  BY <1>1 DEF SavedState, Climbed

LEMMA SavedCellIsSurvivor ==
  ASSUME NEW T2, NEW vanishing, NEW isNew, Change(T2, vanishing, isNew),
         NEW c \in Leaves(T2)
  PROVE  SavedCell(c, SavedState(vanishing), isNew) = Survivor(c)
<1>1. /\ DOMAIN SavedState(vanishing) \subseteq tree
      /\ Survivor(c) \in DOMAIN SavedState(vanishing)
  BY SavedWithin, SurvivorSaved DEF Change
<1>. QED
  BY <1>1, WalkEndsAtSurvivor

(* The restored leaf index set in terms of the layout before the change.   *)
LEMMA RestoredIsKept ==
  ASSUME NEW T2, NEW vanishing, NEW isNew, Change(T2, vanishing, isNew)
  PROVE  RestoredSet(T2, SavedState(vanishing), isNew) = [c \in Leaves(T2) |-> Kept(Survivor(c))]
BY SavedCellIsSurvivor, SurvivorSaved DEF RestoredSet

-----------------------------------------------------------------------------
(* The two ways the host grid changes, as one.                             *)
LEMMA Changes ==
  ASSUME TypeOK, NEW T2 \in Tree, NEW vanishing,
         \/ Adapt(T2, vanishing)
         \/ state = "fixed" /\ adaptState = "fixed" /\ GlobalRefine(T2, vanishing)
  PROVE  /\ \E isNew : Change(T2, vanishing, isNew)
         /\ tree' = T2
         /\ leafSet' = [c \in Leaves(T2) |-> Kept(Survivor(c))]
         /\ levelSets' = LevelSetsOf(T2, leafSet')
         /\ state = "fixed" /\ state' = "fixed" /\ UNCHANGED <<tmpVars, maxAssigned>>
<1>1. CASE Adapt(T2, vanishing)
  <2>1. Change(T2, vanishing, T2 \ tree)
    BY <1>1 DEF Adapt, HostMayAdapt, Change, TypeOK
  <2>2. leafSet' = RestoredSet(T2, SavedState(vanishing), T2 \ tree)
    BY <1>1 DEF Adapt, CarryOver
  <2>. QED
    BY <1>1, <2>1, <2>2, RestoredIsKept DEF Adapt, CarryOver
<1>2. CASE state = "fixed" /\ adaptState = "fixed" /\ GlobalRefine(T2, vanishing)
  <2>1. Change(T2, vanishing, {}) /\ new = {}
    BY <1>2 DEF GlobalRefine, HostMayRefine, Change, TypeOK
  <2>2. leafSet' = RestoredSet(T2, SavedState(vanishing), {})
    BY <1>2, <2>1 DEF GlobalRefine, CarryOver
  <2>. QED
    BY <1>2, <2>1, <2>2, RestoredIsKept DEF GlobalRefine, CarryOver
<1>. QED
  BY <1>1, <1>2

(* The level index sets built next to a leaf index set hold its subdomains.*)
LEMMA LevelSetsType ==
  ASSUME NEW T, NEW L \in SetsOver(T)
  PROVE  LevelSetsOf(T, L) \in [IF LevelSupport THEN T ELSE {} -> SUBSET SubDomain]
BY DEF LevelSetsOf, SetsOver

(* So does what is kept of a leaf index set.                               *)
LEMMA KeptType ==
  ASSUME leafSet \in SetsOver(tree), NEW a
  PROVE  Kept(a) \subseteq SubDomain
BY DEF Kept, SetsOver

-----------------------------------------------------------------------------
(* The next-state relation of a careful caller by its actions, the two     *)
(* changes of the host grid together.                                      *)
HostChange(T2, vanishing) ==
  \/ Adapt(T2, vanishing)
  \/ state = "fixed" /\ adaptState = "fixed" /\ GlobalRefine(T2, vanishing)

LEMMA CallerSteps ==
  ASSUME TypeOK, CallerNext
  PROVE  \/ StartSubDomainMarking
         \/ \E s \in SubDomain, c \in Leaves(tree) : AddToSubDomain(s, c)
         \/ \E s \in SubDomain, c \in Leaves(tree) : RemoveFromSubDomain(s, c)
         \/ \E s \in SubDomain, c \in Leaves(tree) : AssignToSubDomain(s, c)
         \/ \E c \in Leaves(tree) : RemoveFromAllSubDomains(c)
         \/ PreUpdateSubDomains \/ UpdateSubDomains \/ PostUpdateSubDomains
         \/ PreAdapt \/ PostAdapt
         \/ \E T2 \in Tree, vanishing \in SUBSET tree : HostChange(T2, vanishing)
<1>1. CASE MarkingCycle
  BY <1>1 DEF MarkingCycle, AddToSubDomain, RemoveFromSubDomain, AssignToSubDomain,
             RemoveFromAllSubDomains, Assignment
<1>2. CASE AdaptationCycle
  BY <1>2 DEF AdaptationCycle, HostChange
<1>3. CASE state = "fixed" /\ adaptState = "fixed" /\ Refinement
  BY <1>3 DEF Refinement, HostChange
<1>. QED
  BY <1>1, <1>2, <1>3 DEF CallerNext

(* Every call leaves well-formed index sets behind; a change of the host   *)
(* grid because the walk of restoreMultiDomainState() always ends at a     *)
(* saved cell.                                                             *)
LEMMA TypeStep ==
  ASSUME TypeOK, CallerNext
  PROVE  TypeOK'
<1>1. CASE StartSubDomainMarking
  BY <1>1 DEF TypeOK, StartSubDomainMarking, hostVars, liveVars
<1>2. ASSUME NEW s \in SubDomain, NEW c \in Leaves(tree),
             AddToSubDomain(s, c) \/ RemoveFromSubDomain(s, c) \/ AssignToSubDomain(s, c)
      PROVE  TypeOK'
  <2>1. state = "marking" /\ tmpLeafSet \in [Leaves(tree) -> SUBSET SubDomain]
    BY <1>2 DEF TypeOK, SetsOver, AddToSubDomain, RemoveFromSubDomain, AssignToSubDomain, Assignment
  <2>2. PICK D \in SUBSET SubDomain : Assignment(c, D)
    BY <1>2, <2>1 DEF AddToSubDomain, RemoveFromSubDomain, AssignToSubDomain
  <2>3. tmpLeafSet' \in [Leaves(tree) -> SUBSET SubDomain]
    BY <2>1, <2>2 DEF Assignment
  <2>4. maxAssigned' \in {0} \cup SubDomain
    BY <1>2 DEF TypeOK, AddToSubDomain, RemoveFromSubDomain, AssignToSubDomain, RaiseMaxAssigned
  <2>. QED
    BY <2>1, <2>2, <2>3, <2>4 DEF Assignment, TypeOK, SetsOver, hostVars, liveVars
<1>3. ASSUME NEW c \in Leaves(tree), RemoveFromAllSubDomains(c)
      PROVE  TypeOK'
  <2>1. state = "marking" /\ tmpLeafSet \in [Leaves(tree) -> SUBSET SubDomain]
    BY <1>3 DEF TypeOK, SetsOver, RemoveFromAllSubDomains, Assignment
  <2>2. tmpLeafSet' \in [Leaves(tree) -> SUBSET SubDomain]
    BY <1>3, <2>1 DEF RemoveFromAllSubDomains, Assignment
  <2>. QED
    BY <1>3, <2>1, <2>2 DEF RemoveFromAllSubDomains, Assignment, TypeOK, SetsOver, hostVars, liveVars
<1>4. CASE PreUpdateSubDomains
  <2>1. tmpLevelSets' \in [IF LevelSupport THEN tree ELSE {} -> SUBSET SubDomain]
    BY <1>4, LevelSetsType DEF PreUpdateSubDomains, TypeOK
  <2>. QED
    BY <1>4, <2>1 DEF TypeOK, PreUpdateSubDomains, hostVars, liveVars
<1>5. CASE UpdateSubDomains
  BY <1>5 DEF TypeOK, UpdateSubDomains, hostVars
<1>6. CASE PostUpdateSubDomains
  BY <1>6 DEF TypeOK, PostUpdateSubDomains, hostVars, liveVars
<1>7. CASE PreAdapt
  BY <1>7 DEF TypeOK, PreAdapt, hostVars, liveVars, tmpVars
<1>8. CASE PostAdapt
  BY <1>8 DEF TypeOK, PostAdapt, liveVars, tmpVars
<1>9. ASSUME NEW T2 \in Tree, NEW vanishing \in SUBSET tree, HostChange(T2, vanishing)
      PROVE  TypeOK'
  <2>1. /\ tree' = T2
        /\ leafSet' = [c \in Leaves(T2) |-> Kept(Survivor(c))]
        /\ levelSets' = LevelSetsOf(T2, leafSet')
        /\ state = "fixed" /\ state' = "fixed" /\ UNCHANGED <<tmpVars, maxAssigned>>
    BY <1>9, Changes DEF HostChange
  <2>2. leafSet' \in SetsOver(T2)
    BY <2>1, KeptType DEF SetsOver, TypeOK
  <2>3. levelSets' \in [IF LevelSupport THEN T2 ELSE {} -> SUBSET SubDomain]
    BY <2>1, <2>2, LevelSetsType
  <2>4. /\ new' \subseteq tree' /\ (adaptState' # "postAdapt" => new' = {})
        /\ adaptState' \in {"fixed", "preAdapt", "postAdapt"}
    BY <1>9, <2>1 DEF HostChange, Adapt, GlobalRefine, TypeOK
  <2>. QED
    BY <2>1, <2>2, <2>3, <2>4 DEF TypeOK, tmpVars
<1>. QED
  BY <1>1, <1>2, <1>3, <1>4, <1>5, <1>6, <1>7, <1>8, <1>9, CallerSteps

(* Type correctness of the life cycle, for every host grid.                *)
THEOREM TypeCorrect == CallerSpec => []TypeOK
<1>1. Init => TypeOK
  <2>. SUFFICES ASSUME Init PROVE TypeOK
    OBVIOUS
  <2>1. leafSet \in SetsOver(tree)
    BY DEF Init, SetsOver
  <2>2. levelSets \in [IF LevelSupport THEN tree ELSE {} -> SUBSET SubDomain]
    BY <2>1, LevelSetsType DEF Init
  <2>. QED
    BY <2>1, <2>2 DEF Init, TypeOK
<1>2. TypeOK /\ [CallerNext]_vars => TypeOK'
  <2>1. CASE CallerNext
    BY <2>1, TypeStep
  <2>2. CASE UNCHANGED vars
    BY <2>2 DEF vars, hostVars, liveVars, tmpVars, TypeOK
  <2>. QED
    BY <2>1, <2>2
<1>. QED
  BY <1>1, <1>2, PTL DEF CallerSpec

-----------------------------------------------------------------------------
(* The level index sets always say the same as the leaf index set: swap(), *)
(* adapt() and globalRefine() renew both.                                  *)
THEOREM ViewsAlwaysAgree == CallerSpec => []ViewsAgree
<1>1. Init => ViewsAgree
  BY DEF Init, ViewsAgree
<1>2. TypeOK /\ ViewsAgree /\ [CallerNext]_vars => ViewsAgree'
  <2>. SUFFICES ASSUME TypeOK, ViewsAgree, CallerNext PROVE ViewsAgree'
    BY DEF ViewsAgree, vars, hostVars, liveVars, tmpVars
  <2>1. CASE StartSubDomainMarking
    BY <2>1 DEF StartSubDomainMarking, ViewsAgree, hostVars, liveVars
  <2>2. ASSUME NEW c \in Leaves(tree), NEW D, Assignment(c, D)
        PROVE  ViewsAgree'
    BY <2>2 DEF Assignment, ViewsAgree, hostVars, liveVars
  <2>3. CASE PreUpdateSubDomains
    BY <2>3 DEF PreUpdateSubDomains, ViewsAgree, hostVars, liveVars
  <2>4. CASE UpdateSubDomains
    BY <2>4 DEF UpdateSubDomains, ViewsAgree, hostVars
  <2>5. CASE PostUpdateSubDomains
    BY <2>5 DEF PostUpdateSubDomains, ViewsAgree, hostVars, liveVars
  <2>6. CASE PreAdapt
    BY <2>6 DEF PreAdapt, ViewsAgree, hostVars, liveVars, tmpVars
  <2>7. CASE PostAdapt
    BY <2>7 DEF PostAdapt, ViewsAgree, liveVars, tmpVars
  <2>8. ASSUME NEW T2 \in Tree, NEW vanishing \in SUBSET tree, HostChange(T2, vanishing)
        PROVE  ViewsAgree'
    BY <2>8, Changes DEF HostChange, ViewsAgree
  <2>. QED
    BY <2>1, <2>2, <2>3, <2>4, <2>5, <2>6, <2>7, <2>8, CallerSteps
       DEF AddToSubDomain, RemoveFromSubDomain, AssignToSubDomain, RemoveFromAllSubDomains
<1>. QED
  BY <1>1, <1>2, TypeCorrect, PTL DEF CallerSpec

(* The largest index ever assigned bounds every index of a kept entry.     *)
LEMMA KeptBelow ==
  ASSUME NEW m, \A c \in Leaves(tree) : \A s \in leafSet[c] : s <= maxAssigned
  PROVE  \A s \in Kept(m) : s <= maxAssigned
BY DEF Kept

(* maxAssignedSubDomainIndex() bounds the subdomain indices of all         *)
(* layouts, however often the grid was changed and the indices removed.    *)
THEOREM AssignedAlwaysBelowMax == CallerSpec => []AssignedBelowMax
<1>1. Init => AssignedBelowMax
  BY DEF Init, AssignedBelowMax
<1>2. TypeOK /\ AssignedBelowMax /\ [CallerNext]_vars => AssignedBelowMax'
  <2>. SUFFICES ASSUME TypeOK, AssignedBelowMax, CallerNext PROVE AssignedBelowMax'
    BY DEF AssignedBelowMax, vars, hostVars, liveVars, tmpVars
  <2>1. CASE StartSubDomainMarking
    BY <2>1 DEF StartSubDomainMarking, AssignedBelowMax, hostVars, liveVars
  <2>2. ASSUME NEW s \in SubDomain, NEW c \in Leaves(tree),
               AddToSubDomain(s, c) \/ AssignToSubDomain(s, c)
        PROVE  AssignedBelowMax'
    <3>1. /\ maxAssigned \in Nat /\ s \in Nat /\ SubDomain \subseteq Nat
          /\ state = "marking" /\ state' = "marking" /\ tree' = tree /\ leafSet' = leafSet
          /\ tmpLeafSet \in [Leaves(tree) -> SUBSET SubDomain] /\ leafSet \in [Leaves(tree) -> SUBSET SubDomain]
      BY <2>2, SubDomainAssumption
         DEF AddToSubDomain, AssignToSubDomain, Assignment, hostVars, liveVars, TypeOK, SetsOver
    <3>2. maxAssigned <= maxAssigned' /\ s <= maxAssigned' /\ maxAssigned' \in Nat
      BY <2>2, <3>1 DEF AddToSubDomain, AssignToSubDomain, RaiseMaxAssigned
    <3>3. \A d \in Leaves(tree) : tmpLeafSet'[d] \subseteq tmpLeafSet[d] \cup {s}
      BY <2>2, <3>1 DEF AddToSubDomain, AssignToSubDomain, Assignment
    <3>4. ASSUME NEW d \in Leaves(tree), NEW t \in leafSet[d] \cup tmpLeafSet[d]
          PROVE  t <= maxAssigned'
      BY <3>1, <3>2 DEF AssignedBelowMax
    <3>. QED
      BY <3>1, <3>2, <3>3, <3>4 DEF AssignedBelowMax
  <2>3. ASSUME NEW c \in Leaves(tree), NEW D, D \subseteq tmpLeafSet[c],
               Assignment(c, D), UNCHANGED maxAssigned
        PROVE  AssignedBelowMax'
    <3>1. \A d \in Leaves(tree) : tmpLeafSet'[d] \subseteq tmpLeafSet[d]
      BY <2>3 DEF Assignment, TypeOK, SetsOver
    <3>. QED
      BY <2>3, <3>1 DEF Assignment, AssignedBelowMax, hostVars, liveVars
  <2>4. CASE PreUpdateSubDomains
    BY <2>4 DEF PreUpdateSubDomains, AssignedBelowMax, hostVars, liveVars
  <2>5. CASE UpdateSubDomains
    BY <2>5 DEF UpdateSubDomains, AssignedBelowMax, hostVars
  <2>6. CASE PostUpdateSubDomains
    BY <2>6 DEF PostUpdateSubDomains, AssignedBelowMax, hostVars, liveVars
  <2>7. CASE PreAdapt
    BY <2>7 DEF PreAdapt, AssignedBelowMax, hostVars, liveVars, tmpVars
  <2>8. CASE PostAdapt
    BY <2>8 DEF PostAdapt, AssignedBelowMax, liveVars, tmpVars
  <2>9. ASSUME NEW T2 \in Tree, NEW vanishing \in SUBSET tree, HostChange(T2, vanishing)
        PROVE  AssignedBelowMax'
    <3>1. /\ tree' = T2 /\ state' = "fixed" /\ maxAssigned' = maxAssigned
          /\ leafSet' = [c \in Leaves(T2) |-> Kept(Survivor(c))]
      BY <2>9, Changes DEF HostChange
    <3>. QED
      BY <3>1, KeptBelow DEF AssignedBelowMax
  <2>. QED
    BY <2>1, <2>2, <2>3, <2>4, <2>5, <2>6, <2>7, <2>8, <2>9, CallerSteps
       DEF RemoveFromSubDomain, RemoveFromAllSubDomains
<1>. QED
  BY <1>1, <1>2, TypeCorrect, PTL DEF CallerSpec

-----------------------------------------------------------------------------
(* A leaf of the old grid above a leaf of the new one is its survivor.     *)
LEMMA HeirIsSurvivor ==
  ASSUME NEW T2, NEW vanishing, NEW isNew, Change(T2, vanishing, isNew),
         NEW c \in Leaves(T2), NEW a \in Line(c) \cap Leaves(tree)
  PROVE  a = Survivor(c)
<1> DEFINE m == Survivor(c)
<1>1. c \in T2
  BY DEF Leaves
<1>2. m \in tree /\ m \in Line(c) /\ Line(c) \cap tree \subseteq Line(m)
  BY <1>1, SurvivorFound DEF Survivor, Change
<1>3. a \in Line(m) /\ m \notin {d \in tree : a \in Ancestors[d]}
  BY <1>2 DEF Leaves
<1>. QED
  BY <1>2, <1>3 DEF Line

(* What SubDomainLayout promises a leaf of the new grid is what is kept at *)
(* its survivor.                                                           *)
LEMMA InheritedIsKept ==
  ASSUME NEW T2, NEW vanishing, NEW isNew, Change(T2, vanishing, isNew),
         NEW c \in Leaves(T2)
  PROVE  Layout!Inherited(c) = Kept(Survivor(c))
<1> DEFINE m == Survivor(c)
           heirOf == Line(c) \cap Leaves(tree)
<1>1. m \in Line(c)
  <2>1. c \in T2
    BY DEF Leaves
  <2>. QED
    BY <2>1, SurvivorFound DEF Survivor, Change
<1>2. heirOf = IF m \in Leaves(tree) THEN {m} ELSE {}
  BY <1>1, HeirIsSurvivor
<1>3. Layout!Inherited(c) =
        IF heirOf # {} THEN UNION {leafSet[a] : a \in heirOf}
        ELSE UNION {leafSet[d] : d \in {e \in Leaves(tree) : m \in Ancestors[e]}}
  BY DEF Layout!Inherited, Layout!Line, Layout!Leaves, Layout!Lowest, Line, Leaves, Lowest, Survivor
<1>4. CASE m \in Leaves(tree)
  <2>1. heirOf = {m}
    BY <1>2, <1>4
  <2>2. UNION {leafSet[a] : a \in {m}} = leafSet[m]
    OBVIOUS
  <2>. QED
    BY <1>3, <1>4, <2>1, <2>2 DEF Kept
<1>5. CASE m \notin Leaves(tree)
  BY <1>2, <1>3, <1>5 DEF Kept
<1>. QED
  BY <1>4, <1>5

(* The life cycle keeps the promise of SubDomainLayout, whatever the host  *)
(* grid and its changes are: one publication of exactly the prepared       *)
(* layout, and no subdomain lost or invented when the grid changes.        *)
THEOREM LayoutAlwaysKept == CallerSpec => LayoutKept
<1>1. Init => Layout!Init
  BY DEF Init, Layout!Init, Layout!Leaves, Leaves, NoSet, Layout!NoDraft
<1>2. TypeOK /\ [CallerNext]_vars => [Layout!Next]_Layout!vars
  <2>. SUFFICES ASSUME TypeOK, CallerNext
       PROVE  Layout!Next \/ UNCHANGED Layout!vars
    BY DEF vars, hostVars, liveVars, tmpVars, Layout!vars
  <2>1. CASE StartSubDomainMarking
    BY <2>1 DEF StartSubDomainMarking, hostVars, liveVars, Layout!Next, Layout!Begin
  <2>2. ASSUME NEW c \in Leaves(tree), NEW D \in SUBSET SubDomain, Assignment(c, D)
        PROVE  Layout!Next
    <3>1. state = "marking" /\ tmpLeafSet \in [Leaves(tree) -> SUBSET SubDomain]
      BY <2>2 DEF Assignment, TypeOK, SetsOver
    <3>2. Layout!Edit(c, D)
      BY <2>2 DEF Assignment, hostVars, liveVars, Layout!Edit
    <3>. QED
      BY <2>2, <3>1, <3>2 DEF Layout!Next
  <2>3. CASE PreUpdateSubDomains
    BY <2>3 DEF PreUpdateSubDomains, hostVars, liveVars, Layout!Next, Layout!Finish
  <2>4. CASE UpdateSubDomains
    BY <2>4 DEF UpdateSubDomains, hostVars, NoSet, Layout!Next, Layout!Publish, Layout!NoDraft
  <2>5. CASE PostUpdateSubDomains
    BY <2>5 DEF PostUpdateSubDomains, hostVars, liveVars, Layout!Next, Layout!Forget
  <2>6. CASE PreAdapt
    BY <2>6 DEF PreAdapt, hostVars, liveVars, tmpVars, Layout!vars
  <2>7. CASE PostAdapt
    BY <2>7 DEF PostAdapt, liveVars, tmpVars, Layout!vars
  <2>8. ASSUME NEW T2 \in Tree, NEW vanishing \in SUBSET tree, HostChange(T2, vanishing)
        PROVE  Layout!Next
    <3>1. PICK isNew : Change(T2, vanishing, isNew)
      BY <2>8, Changes DEF HostChange
    <3>2. /\ tree' = T2 /\ state = "fixed" /\ state' = "fixed"
          /\ leafSet' = [c \in Leaves(T2) |-> Kept(Survivor(c))]
      BY <2>8, Changes DEF HostChange
    <3>3. leafSet' = [c \in Leaves(T2) |-> Layout!Inherited(c)]
      BY <3>1, <3>2, InheritedIsKept
    <3>4. Layout!Reshape
      BY <3>2, <3>3 DEF Layout!Reshape, Layout!Leaves, Leaves
    <3>. QED
      BY <3>4 DEF Layout!Next
  <2>9. ASSUME NEW s \in SubDomain, NEW c \in Leaves(tree),
               \/ AddToSubDomain(s, c) \/ RemoveFromSubDomain(s, c) \/ AssignToSubDomain(s, c)
        PROVE  Layout!Next
    <3>1. tmpLeafSet[c] \subseteq SubDomain
      BY <2>9 DEF AddToSubDomain, RemoveFromSubDomain, AssignToSubDomain, Assignment, TypeOK, SetsOver
    <3>. QED
      BY <2>2, <2>9, <3>1 DEF AddToSubDomain, RemoveFromSubDomain, AssignToSubDomain
  <2>10. ASSUME NEW c \in Leaves(tree), RemoveFromAllSubDomains(c)
         PROVE  Layout!Next
    BY <2>2, <2>10 DEF RemoveFromAllSubDomains
  <2>. QED
    BY <2>1, <2>3, <2>4, <2>5, <2>6, <2>7, <2>8, <2>9, <2>10, CallerSteps
<1>. QED
  BY <1>1, <1>2, TypeCorrect, PTL DEF CallerSpec, LayoutKept, Layout!Spec

-----------------------------------------------------------------------------
(***************************************************************************)
(* Calls of adapt() and globalRefine() repeated after the host grid has    *)
(* thrown: what the failed calls left in the map never costs a leaf a      *)
(* subdomain, and adds none while the layout is the same.                  *)
(***************************************************************************)
(* The subdomains of the leaves at or below a cell; what is kept of a cell *)
(* of the grid when the grid changes.                                      *)
Beneath(a) == UNION {leafSet[d] : d \in {e \in Leaves(tree) : a \in Line(e)}}

LEMMA BeneathIsKept ==
  ASSUME NEW a \in tree
  PROVE  Beneath(a) = Kept(a)
<1>1. CASE a \in Leaves(tree)
  <2>1. \A e \in Leaves(tree) : a \in Line(e) <=> e = a
    BY <1>1 DEF Leaves, Line
  <2>2. {e \in Leaves(tree) : a \in Line(e)} = {a}
    BY <1>1, <2>1
  <2>3. UNION {leafSet[d] : d \in {a}} = leafSet[a]
    OBVIOUS
  <2>. QED
    BY <1>1, <2>2, <2>3 DEF Beneath, Kept
<1>2. CASE a \notin Leaves(tree)
  <2>1. {e \in Leaves(tree) : a \in Line(e)} = {e \in Leaves(tree) : a \in Ancestors[e]}
    BY <1>2 DEF Line
  <2>. QED
    BY <1>2, <2>1 DEF Beneath, Kept
<1>. QED
  BY <1>1, <1>2

(* The map after saveMultiDomainState(): the entry of a leaf is the leaf's,*)
(* the entry of another cell what the map held and what climbed up to it.  *)
LEMMA SavingEntries ==
  ASSUME TypeOK, NEW vanishing
  PROVE  /\ DOMAIN Saving(vanishing) = DOMAIN saved \cup DOMAIN SavedState(vanishing)
         /\ \A id \in Leaves(tree) :
              id \in DOMAIN Saving(vanishing) /\ Saving(vanishing)[id] = leafSet[id]
         /\ \A id \in DOMAIN Saving(vanishing) : id \notin Leaves(tree) =>
              Saving(vanishing)[id] =
                (IF id \in DOMAIN saved THEN saved[id] ELSE {}) \cup
                (IF id \in DOMAIN SavedState(vanishing) THEN SavedState(vanishing)[id] ELSE {})
<1>1. Leaves(tree) \subseteq DOMAIN SavedState(vanishing)
  BY SavedWithin DEF TypeOK
<1>2. \A id \in Leaves(tree) : SavedState(vanishing)[id] = leafSet[id]
  BY DEF SavedState
<1>. QED
  BY <1>1, <1>2 DEF Saving

(* What a call saves of a cell that is not a leaf is the leaves' below it. *)
LEMMA ClimbedBeneath ==
  ASSUME NEW vanishing, NEW id \in DOMAIN SavedState(vanishing), id \notin Leaves(tree)
  PROVE  SavedState(vanishing)[id] \subseteq Beneath(id)
<1>1. SavedState(vanishing)[id] =
        UNION {leafSet[d] : d \in {e \in Leaves(tree) : id \in Climbed(e, vanishing)}}
  BY DEF SavedState
<1>2. {e \in Leaves(tree) : id \in Climbed(e, vanishing)} \subseteq {e \in Leaves(tree) : id \in Line(e)}
  BY DEF Climbed, Line
<1>. QED
  BY <1>1, <1>2 DEF Beneath

LEMMA SavingType ==
  ASSUME TypeOK, SavedType, NEW vanishing
  PROVE  /\ DOMAIN Saving(vanishing) \subseteq tree
         /\ \A id \in DOMAIN Saving(vanishing) : Saving(vanishing)[id] \subseteq SubDomain
<1>1. DOMAIN Saving(vanishing) \subseteq tree
  BY SavingEntries, SavedWithin DEF TypeOK, SavedType
<1>2. \A a : Beneath(a) \subseteq SubDomain
  BY DEF Beneath, TypeOK, SetsOver
<1>3. ASSUME NEW id \in DOMAIN Saving(vanishing)
      PROVE  Saving(vanishing)[id] \subseteq SubDomain
  <2>1. CASE id \in Leaves(tree)
    BY <2>1, SavingEntries DEF TypeOK, SetsOver
  <2>2. CASE id \notin Leaves(tree)
    <3>1. id \in DOMAIN saved => saved[id] \subseteq SubDomain
      BY DEF SavedType
    <3>2. id \in DOMAIN SavedState(vanishing) => SavedState(vanishing)[id] \subseteq SubDomain
      BY <1>2, <2>2, ClimbedBeneath
    <3>3. Saving(vanishing)[id] =
            (IF id \in DOMAIN saved THEN saved[id] ELSE {}) \cup
            (IF id \in DOMAIN SavedState(vanishing) THEN SavedState(vanishing)[id] ELSE {})
      BY <2>2, SavingEntries
    <3>. QED
      BY <3>1, <3>2, <3>3
  <2>. QED
    BY <2>1, <2>2
<1>. QED
  BY <1>1, <1>3

(* While the layout is the same, saving on top of what is there adds       *)
(* nothing but subdomains of the leaves below.                             *)
LEMMA SavingBeneath ==
  ASSUME FailingInv, ~ reassigned \/ saved = NoSet, NEW vanishing,
         NEW id \in DOMAIN Saving(vanishing)
  PROVE  Saving(vanishing)[id] \subseteq Beneath(id)
<1>1. CASE id \in Leaves(tree)
  <2>1. leafSet[id] \subseteq Beneath(id)
    BY <1>1 DEF Beneath, Line
  <2>. QED
    BY <1>1, <2>1, SavingEntries DEF FailingInv
<1>2. CASE id \notin Leaves(tree)
  <2>1. id \in DOMAIN saved => saved[id] \subseteq Beneath(id)
    <3>1. saved = NoSet => DOMAIN saved = {}
      BY DEF NoSet
    <3>2. ~ reassigned => \A a \in DOMAIN saved : saved[a] \subseteq Beneath(a)
      BY Zenon DEF FailingInv, SavedFollows, Beneath
    <3>. QED
      BY <3>1, <3>2
  <2>2. id \in DOMAIN SavedState(vanishing) => SavedState(vanishing)[id] \subseteq Beneath(id)
    BY <1>2, ClimbedBeneath
  <2>3. Saving(vanishing)[id] =
          (IF id \in DOMAIN saved THEN saved[id] ELSE {}) \cup
          (IF id \in DOMAIN SavedState(vanishing) THEN SavedState(vanishing)[id] ELSE {})
    BY <1>2, SavingEntries DEF FailingInv
  <2>. QED
    BY <2>1, <2>2, <2>3
<1>. QED
  BY <1>1, <1>2

(* A call that succeeds hands a leaf what the map says of its survivor.    *)
LEMMA RestoredIsSaving ==
  ASSUME FailingInv, NEW T2, NEW vanishing, NEW isNew, Change(T2, vanishing, isNew)
  PROVE  /\ RestoredSet(T2, Saving(vanishing), isNew) =
              [c \in Leaves(T2) |-> Saving(vanishing)[Survivor(c)]]
         /\ \A c \in Leaves(T2) : Survivor(c) \in tree /\ Survivor(c) \in DOMAIN Saving(vanishing)
<1>1. ASSUME NEW c \in Leaves(T2)
      PROVE  /\ Survivor(c) \in tree /\ Survivor(c) \in DOMAIN Saving(vanishing)
             /\ SavedCell(c, Saving(vanishing), isNew) = Survivor(c)
  <2>1. Survivor(c) \in tree /\ Survivor(c) \in DOMAIN Saving(vanishing)
    BY SurvivorSaved, SavingEntries DEF FailingInv
  <2>2. DOMAIN Saving(vanishing) \subseteq tree
    BY SavingType DEF FailingInv
  <2>. QED
    BY <2>1, <2>2, WalkEndsAtSurvivor
<1>. QED
  BY <1>1 DEF RestoredSet

(* What is kept of the survivor is never missing from the map.             *)
LEMMA KeptInSaving ==
  ASSUME FailingInv, NEW T2, NEW vanishing, NEW isNew, Change(T2, vanishing, isNew),
         NEW c \in Leaves(T2)
  PROVE  Kept(Survivor(c)) \subseteq Saving(vanishing)[Survivor(c)]
<1>1. /\ Survivor(c) \in DOMAIN SavedState(vanishing)
      /\ SavedState(vanishing)[Survivor(c)] = Kept(Survivor(c))
  BY SurvivorSaved
<1>2. CASE Survivor(c) \in Leaves(tree)
  BY <1>2, SavingEntries DEF Kept, FailingInv
<1>3. CASE Survivor(c) \notin Leaves(tree)
  <2>1. Survivor(c) \in DOMAIN Saving(vanishing)
    BY <1>1, SavingEntries DEF FailingInv
  <2>2. Saving(vanishing)[Survivor(c)] =
          (IF Survivor(c) \in DOMAIN saved THEN saved[Survivor(c)] ELSE {}) \cup
          (IF Survivor(c) \in DOMAIN SavedState(vanishing) THEN SavedState(vanishing)[Survivor(c)] ELSE {})
    BY <1>3, <2>1, SavingEntries DEF FailingInv
  <2>. QED
    BY <1>1, <2>2
<1>. QED
  BY <1>2, <1>3

-----------------------------------------------------------------------------
(* The calls that change the host grid, as one.                            *)
Succeeds(T2, vanishing) == AdaptSucceeds(T2, vanishing) \/ GlobalRefineSucceeds(T2, vanishing)

LEMMA Successes ==
  ASSUME FailingInv, NEW T2 \in Tree, NEW vanishing, Succeeds(T2, vanishing)
  PROVE  /\ \E isNew : Change(T2, vanishing, isNew)
         /\ tree' = T2
         /\ leafSet' = [c \in Leaves(T2) |-> Saving(vanishing)[Survivor(c)]]
         /\ levelSets' = LevelSetsOf(T2, leafSet')
         /\ state = "fixed" /\ state' = "fixed" /\ UNCHANGED <<tmpVars, maxAssigned>>
         /\ saved' = NoSet /\ reassigned' = FALSE
<1>1. CASE AdaptSucceeds(T2, vanishing)
  <2>1. Change(T2, vanishing, T2 \ tree)
    BY <1>1 DEF AdaptSucceeds, HostMayAdapt, Change, FailingInv, TypeOK
  <2>2. leafSet' = RestoredSet(T2, Saving(vanishing), T2 \ tree)
    BY <1>1 DEF AdaptSucceeds, Restore
  <2>. QED
    BY <1>1, <2>1, <2>2, RestoredIsSaving DEF AdaptSucceeds, Restore
<1>2. CASE GlobalRefineSucceeds(T2, vanishing)
  <2>1. Change(T2, vanishing, {}) /\ new = {}
    BY <1>2 DEF GlobalRefineSucceeds, HostMayRefine, Change, FailingInv, TypeOK
  <2>2. leafSet' = RestoredSet(T2, Saving(vanishing), {})
    BY <1>2, <2>1 DEF GlobalRefineSucceeds, Restore
  <2>. QED
    BY <1>2, <2>1, <2>2, RestoredIsSaving DEF GlobalRefineSucceeds, Restore
<1>. QED
  BY <1>1, <1>2 DEF Succeeds


-----------------------------------------------------------------------------
LEMMA FailingInit == InitEmpty => FailingInv
<1>. SUFFICES ASSUME InitEmpty PROVE FailingInv
  OBVIOUS
<1>1. TypeOK
  <2>1. leafSet \in SetsOver(tree)
    BY DEF InitEmpty, Init, SetsOver
  <2>2. levelSets \in [IF LevelSupport THEN tree ELSE {} -> SUBSET SubDomain]
    BY <2>1, LevelSetsType DEF InitEmpty, Init
  <2>. QED
    BY <2>1, <2>2 DEF InitEmpty, Init, TypeOK
<1>2. DOMAIN saved = {} /\ reassigned = FALSE
  BY DEF InitEmpty, NoSet
<1>. QED
  BY <1>1, <1>2 DEF FailingInv, SavedType, SavedFollows

(* A marking cycle changes no cell and no map, and the layout only with a  *)
(* note of it.                                                             *)
LEMMA OtherCallsStep ==
  ASSUME FailingInv, OtherCalls
  PROVE  FailingInv' /\ tree' = tree
<1>1. TypeOK' /\ tree' = tree /\ saved' = saved
  <2>1. CallerNext
    BY DEF OtherCalls, CallerNext, AdaptationCycle
  <2>2. TypeOK'
    BY <2>1, TypeStep DEF FailingInv
  <2>3. tree' = tree
    BY DEF OtherCalls, MarkingCycle, StartSubDomainMarking, AddToSubDomain, RemoveFromSubDomain,
       AssignToSubDomain, RemoveFromAllSubDomains, Assignment, PreUpdateSubDomains,
       UpdateSubDomains, PostUpdateSubDomains, PreAdapt, PostAdapt, hostVars
  <2>4. saved' = saved
    BY DEF OtherCalls
  <2>. QED
    BY <2>2, <2>3, <2>4
<1>2. reassigned' = (reassigned \/ (saved # NoSet /\ leafSet' # leafSet))
  BY DEF OtherCalls
<1>3. SavedType'
  <2>1. reassigned' \in BOOLEAN
    BY <1>2
  <2>. QED
    BY <1>1, <2>1 DEF FailingInv, SavedType
<1>4. SavedFollows'
  <2>1. CASE saved = NoSet
    <3>1. DOMAIN saved' = {}
      BY <1>1, <2>1 DEF NoSet
    <3>. QED
      BY <3>1 DEF SavedFollows
  <2>2. CASE leafSet' = leafSet
    <3>1. ~ reassigned' => ~ reassigned
      BY <1>2, Zenon
    <3>. QED
      BY <1>1, <2>2, <3>1 DEF FailingInv, SavedFollows
  <2>3. CASE saved # NoSet /\ leafSet' # leafSet
    <3>1. reassigned'
      BY <1>2, <2>3, Zenon
    <3>. QED
      BY <3>1 DEF SavedFollows
  <2>. QED
    BY <2>1, <2>2, <2>3
<1>. QED
  BY <1>1, <1>3, <1>4 DEF FailingInv

(* The host throws: the map has grown, everything else is as it was.       *)
LEMMA ThrowsStep ==
  ASSUME FailingInv, NEW vanishing,
         AdaptThrows(vanishing) \/ GlobalRefineThrows(vanishing)
  PROVE  FailingInv' /\ tree' = tree
<1>1. /\ saved' = Saving(vanishing) /\ reassigned' = (reassigned /\ saved # NoSet)
      /\ UNCHANGED <<hostVars, liveVars, tmpVars, state, maxAssigned>>
      /\ state = "fixed" /\ adaptState \in {"fixed", "preAdapt"}
      /\ adaptState' \in {"fixed", "postAdapt"}
  BY DEF AdaptThrows, GlobalRefineThrows, Throws
<1>2. tree' = tree /\ leafSet' = leafSet
  BY <1>1 DEF hostVars, liveVars
<1>3. TypeOK'
  BY <1>1 DEF FailingInv, TypeOK, hostVars, liveVars, tmpVars
<1>4. SavedType'
  <2>1. reassigned' \in BOOLEAN
    BY <1>1
  <2>2. /\ DOMAIN Saving(vanishing) \subseteq tree
        /\ \A id \in DOMAIN Saving(vanishing) : Saving(vanishing)[id] \subseteq SubDomain
    BY SavingType DEF FailingInv
  <2>3. saved' = Saving(vanishing)
    BY <1>1
  <2>. QED
    BY <1>2, <2>1, <2>2, <2>3 DEF SavedType
<1>5. ASSUME ~ reassigned', NEW id \in DOMAIN saved'
      PROVE  saved'[id] \subseteq Beneath(id)
  <2>1. ~ reassigned \/ saved = NoSet
    BY <1>1, <1>5, Zenon
  <2>2. saved' = Saving(vanishing)
    BY <1>1
  <2>. QED
    BY <1>5, <2>1, <2>2, SavingBeneath
<1>6. SavedFollows'
  BY <1>2, <1>5, Zenon DEF SavedFollows, Beneath
<1>. QED
  BY <1>2, <1>3, <1>4, <1>6 DEF FailingInv

LEMMA SucceedsStep ==
  ASSUME FailingInv, NEW T2 \in Tree, NEW vanishing \in SUBSET tree, Succeeds(T2, vanishing)
  PROVE  FailingInv'
<1>1. /\ \E isNew : Change(T2, vanishing, isNew)
      /\ tree' = T2
      /\ leafSet' = [c \in Leaves(T2) |-> Saving(vanishing)[Survivor(c)]]
      /\ levelSets' = LevelSetsOf(T2, leafSet')
      /\ state = "fixed" /\ state' = "fixed" /\ UNCHANGED <<tmpVars, maxAssigned>>
      /\ saved' = NoSet /\ reassigned' = FALSE
  BY Successes
<1>2. leafSet' \in SetsOver(T2)
  <2>1. \A c \in Leaves(T2) : Survivor(c) \in DOMAIN Saving(vanishing)
    BY <1>1, RestoredIsSaving
  <2>2. \A id \in DOMAIN Saving(vanishing) : Saving(vanishing)[id] \subseteq SubDomain
    BY SavingType DEF FailingInv
  <2>. QED
    BY <1>1, <2>1, <2>2 DEF SetsOver
<1>3. levelSets' \in [IF LevelSupport THEN T2 ELSE {} -> SUBSET SubDomain]
  BY <1>1, <1>2, LevelSetsType
<1>4. /\ new' \subseteq tree' /\ (adaptState' # "postAdapt" => new' = {})
      /\ adaptState' \in {"fixed", "preAdapt", "postAdapt"}
  BY <1>1 DEF Succeeds, AdaptSucceeds, GlobalRefineSucceeds, FailingInv, TypeOK
<1>5. TypeOK'
  BY <1>1, <1>2, <1>3, <1>4 DEF FailingInv, TypeOK, tmpVars
<1>6. SavedType' /\ SavedFollows'
  <2>1. DOMAIN saved' = {} /\ reassigned' \in BOOLEAN
    BY <1>1 DEF NoSet
  <2>. QED
    BY <2>1 DEF SavedType, SavedFollows
<1>. QED
  BY <1>5, <1>6 DEF FailingInv

LEMMA FailingSteps ==
  ASSUME FailingNext
  PROVE  \/ OtherCalls
         \/ \E vanishing : AdaptThrows(vanishing) \/ GlobalRefineThrows(vanishing)
         \/ \E T2 \in Tree, vanishing \in SUBSET tree : Succeeds(T2, vanishing)
BY DEF FailingNext, Succeeds

LEMMA FailingStep == FailingInv /\ [FailingNext]_allVars => FailingInv'
<1>. SUFFICES ASSUME FailingInv, [FailingNext]_allVars PROVE FailingInv'
  OBVIOUS
<1>1. CASE FailingNext
  BY <1>1, FailingSteps, OtherCallsStep, ThrowsStep, SucceedsStep
<1>2. CASE UNCHANGED allVars
  BY <1>2 DEF allVars, vars, hostVars, liveVars, tmpVars, FailingInv, TypeOK, SavedType, SavedFollows
<1>. QED
  BY <1>1, <1>2

(* Failures of the host leave well-formed index sets, and a map that only  *)
(* speaks of cells that are there.                                         *)
LEMMA FailingAlways == FailingSpec => []FailingInv
BY FailingInit, FailingStep, PTL DEF FailingSpec

-----------------------------------------------------------------------------
(* Only a call that succeeds changes the host grid.                        *)
LEMMA TreeChanges ==
  ASSUME FailingInv, FailingNext, tree' # tree
  PROVE  \E vanishing, isNew :
           /\ Change(tree', vanishing, isNew)
           /\ leafSet' = [c \in Leaves(tree') |-> Saving(vanishing)[Survivor(c)]]
<1>1. PICK T2 \in Tree, vanishing \in SUBSET tree : Succeeds(T2, vanishing)
  BY FailingSteps, OtherCallsStep, ThrowsStep
<1>. QED
  BY <1>1, Successes

(* Repeated after the host threw, once or often, adapt() and globalRefine()*)
(* hand on exactly the layout in use, if no other one was published since: *)
(* what the failed calls left in _adaptationStateMap is harmless, on any   *)
(* grid (multidomaingrid.hh 745-777, 1092-1135).                           *)
THEOREM RetryIsAlwaysExact == FailingSpec => RetryIsExact
<1>1. FailingInv /\ [FailingNext]_allVars =>
        [tree' # tree /\ ~ reassigned =>
           leafSet' = [c \in Leaves(tree') |-> Layout!Inherited(c)]]_allVars
  <2>. SUFFICES ASSUME FailingInv, FailingNext, tree' # tree, ~ reassigned
       PROVE  leafSet' = [c \in Leaves(tree') |-> Layout!Inherited(c)]
    BY Zenon
  <2>1. PICK vanishing, isNew :
          /\ Change(tree', vanishing, isNew)
          /\ leafSet' = [c \in Leaves(tree') |-> Saving(vanishing)[Survivor(c)]]
    BY TreeChanges
  <2>2. ASSUME NEW c \in Leaves(tree')
        PROVE  Saving(vanishing)[Survivor(c)] = Layout!Inherited(c)
    <3>1. Survivor(c) \in tree /\ Survivor(c) \in DOMAIN Saving(vanishing)
      BY <2>1, RestoredIsSaving
    <3>2. Saving(vanishing)[Survivor(c)] \subseteq Kept(Survivor(c))
      BY <3>1, SavingBeneath, BeneathIsKept
    <3>3. Kept(Survivor(c)) \subseteq Saving(vanishing)[Survivor(c)]
      BY <2>1, KeptInSaving
    <3>4. Layout!Inherited(c) = Kept(Survivor(c))
      BY <2>1, InheritedIsKept
    <3>. QED
      BY <3>2, <3>3, <3>4
  <2>. QED
    BY <2>1, <2>2
<1>. QED
  BY <1>1, FailingAlways, PTL DEF FailingSpec, RetryIsExact

(* Even if a layout was published since the host threw, no leaf loses a    *)
(* subdomain, and one that stays or descends from a leaf gains none: the   *)
(* entries of leaves are overwritten, others joined (1100-1107).           *)
THEOREM NothingEverLost == FailingSpec => NothingLost
<1>1. FailingInv /\ [FailingNext]_allVars =>
        [tree' # tree =>
           \A c \in Leaves(tree') :
             /\ Layout!Inherited(c) \subseteq leafSet'[c]
             /\ Line(c) \cap Leaves(tree) # {} => leafSet'[c] = Layout!Inherited(c)]_allVars
  <2>. SUFFICES ASSUME FailingInv, FailingNext, tree' # tree, NEW c \in Leaves(tree')
       PROVE  /\ Layout!Inherited(c) \subseteq leafSet'[c]
              /\ Line(c) \cap Leaves(tree) # {} => leafSet'[c] = Layout!Inherited(c)
    OBVIOUS
  <2>1. PICK vanishing, isNew :
          /\ Change(tree', vanishing, isNew)
          /\ leafSet' = [d \in Leaves(tree') |-> Saving(vanishing)[Survivor(d)]]
    BY TreeChanges
  <2>2. leafSet'[c] = Saving(vanishing)[Survivor(c)]
    BY <2>1
  <2>3. Layout!Inherited(c) = Kept(Survivor(c))
    BY <2>1, InheritedIsKept
  <2>4. Kept(Survivor(c)) \subseteq Saving(vanishing)[Survivor(c)]
    BY <2>1, KeptInSaving
  <2>5. ASSUME NEW a \in Line(c) \cap Leaves(tree)
        PROVE  Saving(vanishing)[Survivor(c)] = Kept(Survivor(c))
    <3>1. Survivor(c) \in Leaves(tree)
      BY <2>1, HeirIsSurvivor
    <3>. QED
      BY <3>1, SavingEntries DEF Kept, FailingInv
  <2>. QED
    BY <2>2, <2>3, <2>4, <2>5
<1>. QED
  BY <1>1, FailingAlways, PTL DEF FailingSpec, NothingLost
=============================================================================
