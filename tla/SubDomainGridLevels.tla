------------------------- MODULE SubDomainGridLevels ------------------------
(***************************************************************************)
(* Who owns the level index sets and who refers to them.  The              *)
(* MultiDomainGrid owns one object per level (_levelIndexSets) and, while  *)
(* a new layout is prepared, a second one (_tmpLevelIndexSets).  A         *)
(* SubDomainGrid, made on first use and kept, wraps references to those    *)
(* objects: subdomaingrid/indexsets.hh holds "const MDIndexSet&".          *)
(*                                                                         *)
(* An object is a number, never used again once freed; its content is the  *)
(* layout stored in its containers.  Level l is at position l + 1.         *)
(***************************************************************************)
EXTENDS Integers, Sequences, SequencesExt

CONSTANTS
  SubDomain,   \* subdomains whose grids may be asked for
  LayoutId,    \* layouts, told apart only by being different
  DepthBound,  \* bound on maxLevel()
  ObjectBound  \* bound on the objects ever allocated

ASSUME LevelsAssumption ==
  DepthBound \in Nat /\ ObjectBound \in Nat /\ DepthBound < ObjectBound

VARIABLES
  depth,      \* maxLevel() of the host grid
  levelSets,  \* _levelIndexSets
  tmpSets,    \* _tmpLevelIndexSets
  content,    \* content[o]: the layout stored in the object o, o not freed
  allocated,  \* objects allocated so far are 1 .. allocated
  wrapped,    \* wrapped[s]: objects SubDomainGrid s refers to, by level
  current,    \* the layout of the leaf index set
  state       \* _state, without the marking itself

vars == <<depth, levelSets, tmpSets, content, allocated, wrapped, current, state>>

Alive == DOMAIN content

Created == DOMAIN wrapped

Fresh(n) == [i \in 1 .. n |-> allocated + i]

(* SubDomainGrid::update(): wrappers are added for missing levels, none is *)
(* replaced or dropped.                                                    *)
Extended(refs, sets) == refs \o SubSeq(sets, Len(refs) + 1, Len(sets))

Init ==
  /\ depth \in 0 .. DepthBound
  /\ current \in LayoutId
  /\ levelSets = [i \in 1 .. depth + 1 |-> i]
  /\ allocated = depth + 1
  /\ content = [o \in 1 .. allocated |-> current]
  /\ tmpSets = <<>>
  /\ wrapped = [s \in {} |-> <<>>]
  /\ state = "fixed"

(* MultiDomainGrid::subDomain(s), the first time.                          *)
SubDomainGrid(s) ==
  /\ s \notin Created
  /\ wrapped' = [t \in Created \cup {s} |->
                   IF t = s THEN Extended(<<>>, levelSets) ELSE wrapped[t]]
  /\ UNCHANGED <<depth, levelSets, tmpSets, content, allocated, current, state>>

(* The objects after the host grid went to maxLevel() = d: surplus levels  *)
(* are resized away, missing levels get a new object.                      *)
Resized(d) ==
  IF d <= depth THEN SubSeq(levelSets, 1, d + 1) ELSE levelSets \o Fresh(d - depth)

(* adapt() or globalRefine(): updateIndexSets(), SubDomainGrid::update()   *)
(* and restoreMultiDomainState(), which fills every level index set.       *)
Adapt(d, layout) ==
  /\ state = "fixed"
  /\ depth' = d
  /\ levelSets' = Resized(d)
  /\ allocated' = allocated + IF d > depth THEN d - depth ELSE 0
  /\ allocated' <= ObjectBound
  /\ current' = layout
  /\ content' = [o \in ToSet(levelSets') |-> layout]
  /\ wrapped' = [s \in Created |-> Extended(wrapped[s], levelSets')]
  /\ UNCHANGED <<tmpSets, state>>

(* startSubDomainMarking(), the assignments and preUpdateSubDomains().     *)
Prepare(layout) ==
  /\ state = "fixed"
  /\ state' = "preUpdate"
  /\ tmpSets' = Fresh(depth + 1)
  /\ allocated' = allocated + depth + 1
  /\ allocated' <= ObjectBound
  /\ content' = [o \in Alive \cup ToSet(tmpSets') |->
                   IF o \in Alive THEN content[o] ELSE layout]
  /\ UNCHANGED <<depth, levelSets, wrapped, current>>

(* Mutant: the pointers are exchanged instead of the containers.           *)
Swap_Pointers ==
  /\ state = "preUpdate"
  /\ state' = "postUpdate"
  /\ current' = content[tmpSets[1]]
  /\ levelSets' = tmpSets /\ tmpSets' = levelSets
  /\ UNCHANGED <<depth, content, allocated, wrapped>>

(* updateSubDomains(): swap() exchanges the containers of two index sets.  *)
Swap ==
  /\ state = "preUpdate"
  /\ state' = "postUpdate"
  /\ current' = content[tmpSets[1]]
  /\ content' = [o \in Alive |->
       IF o \in ToSet(levelSets) THEN content[tmpSets[CHOOSE l \in DOMAIN levelSets : levelSets[l] = o]]
       ELSE content[levelSets[CHOOSE l \in DOMAIN tmpSets : tmpSets[l] = o]]]
  /\ UNCHANGED <<depth, levelSets, tmpSets, allocated, wrapped>>

(* Mutant: only the first temporary object is freed.                       *)
Release_FirstOnly ==
  /\ state = "postUpdate"
  /\ state' = "fixed"
  /\ content' = [o \in Alive \ {tmpSets[1]} |-> content[o]]
  /\ tmpSets' = <<>>
  /\ UNCHANGED <<depth, levelSets, allocated, wrapped, current>>

(* postUpdateSubDomains(): the temporary objects are freed.                *)
Release ==
  /\ state = "postUpdate"
  /\ state' = "fixed"
  /\ content' = [o \in Alive \ ToSet(tmpSets) |-> content[o]]
  /\ tmpSets' = <<>>
  /\ UNCHANGED <<depth, levelSets, allocated, wrapped, current>>

Next ==
  \/ \E s \in SubDomain : SubDomainGrid(s)
  \/ \E d \in 0 .. DepthBound, layout \in LayoutId : Adapt(d, layout)
  \/ \E layout \in LayoutId : Prepare(layout)
  \/ Swap
  \/ Release

Spec == Init /\ [][Next]_vars

(* No SubDomainGrid has outlived a level the grid is about to get back.    *)
NoLevelReturns ==
  \A s \in Created : depth' > depth => Len(wrapped[s]) <= depth + 1

SettledSpec == Init /\ [][Next /\ NoLevelReturns]_vars

-----------------------------------------------------------------------------
TypeOK ==
  /\ depth \in 0 .. DepthBound
  /\ allocated \in 1 .. ObjectBound
  /\ Len(levelSets) = depth + 1
  /\ Len(tmpSets) = IF state = "fixed" THEN 0 ELSE depth + 1
  /\ Alive = ToSet(levelSets) \cup ToSet(tmpSets)
  /\ \A o \in Alive : o \in 1 .. allocated /\ content[o] \in LayoutId
  /\ Created \subseteq SubDomain
  /\ current \in LayoutId
  /\ state \in {"fixed", "preUpdate", "postUpdate"}

(* Every level index set a SubDomainGrid may be asked for (level <=        *)
(* maxLevel(), subdomaingrid.hh 458-465) refers to an object that exists.  *)
(* CHANGELOG.md 20 lists "level index sets where not updated after grid    *)
(* adaptation" as fixed; multidomaingrid.hh 1087 says "rebuild level index *)
(* sets on subgrids".                                                      *)
LevelSetsAlive ==
  \A s \in Created : \A l \in 1 .. depth + 1 : wrapped[s][l] \in Alive

(* What a SubDomainGrid shows on any level is the layout in use: neither   *)
(* the layout being prepared nor the replaced one, although its references *)
(* were taken before several updateSubDomains() and adaptations.           *)
LevelSetsCurrent ==
  \A s \in Created : \A l \in 1 .. depth + 1 :
    wrapped[s][l] \in Alive /\ content[wrapped[s][l]] = current

-----------------------------------------------------------------------------
(* The inductive invariant behind LevelSetsCurrent: which object is at     *)
(* which level, and which layout it holds.                                 *)
Objects == 1 .. allocated

ObjectsOwned ==
  /\ levelSets \in Seq(Objects) /\ tmpSets \in Seq(Objects)
  /\ \A i, j \in DOMAIN levelSets : levelSets[i] = levelSets[j] => i = j
  /\ \A i, j \in DOMAIN tmpSets : tmpSets[i] = tmpSets[j] => i = j
  /\ ToSet(levelSets) \cap ToSet(tmpSets) = {}

LayoutsInPlace ==
  /\ \A l \in DOMAIN levelSets : content[levelSets[l]] = current
  /\ state = "preUpdate" => \A l \in DOMAIN tmpSets : content[tmpSets[l]] = content[tmpSets[1]]

(* No reference is behind the grid, whatever it wraps above the grid.      *)
WrappersFollow ==
  \A s \in Created :
    /\ wrapped[s] \in Seq(Objects) /\ depth + 1 <= Len(wrapped[s])
    /\ \A l \in 1 .. depth + 1 : wrapped[s][l] = levelSets[l]

LevelsInv == TypeOK /\ ObjectsOwned /\ LayoutsInPlace /\ WrappersFollow
=============================================================================
