--------------------- MODULE SubDomainGridLevelsProofs ---------------------
(***************************************************************************)
(* The references of any number of SubDomainGrids, taken at any time, into *)
(* any number of level index sets: they lead to the layout in use, through *)
(* every adaptation and publication, in grids no level of which returns.   *)
(***************************************************************************)
EXTENDS SubDomainGridLevels, SequenceTheorems, TLAPS

-----------------------------------------------------------------------------
(* The sequences of the model.                                             *)
LEMMA Sequence ==
  ASSUME NEW S, NEW s \in Seq(S)
  PROVE  /\ Len(s) \in Nat /\ DOMAIN s = 1 .. Len(s)
         /\ \A i \in 1 .. Len(s) : s[i] \in S
         /\ ToSet(s) = {s[i] : i \in 1 .. Len(s)} /\ ToSet(s) \subseteq S
<1>1. Len(s) \in Nat /\ DOMAIN s = 1 .. Len(s) /\ s \in [1 .. Len(s) -> S]
  BY LenProperties
<1>. QED
  BY <1>1 DEF ToSet

LEMMA FreshObjects ==
  ASSUME NEW n \in Nat, allocated \in Nat
  PROVE  /\ Fresh(n) \in Seq(1 .. allocated + n) /\ Len(Fresh(n)) = n
         /\ \A i \in 1 .. n : Fresh(n)[i] = allocated + i
<1>1. \A i \in 1 .. n : allocated + i \in 1 .. allocated + n
  OBVIOUS
<1>2. Fresh(n) \in [1 .. n -> 1 .. allocated + n]
  BY <1>1 DEF Fresh
<1>. QED
  BY <1>2, SeqDef DEF Fresh

(* update() of a SubDomainGrid keeps its references and appends the ones   *)
(* to the levels it had none for.                                          *)
LEMMA ExtendedRefs ==
  ASSUME NEW S, NEW refs \in Seq(S), NEW sets \in Seq(S)
  PROVE  /\ Extended(refs, sets) \in Seq(S)
         /\ Len(sets) <= Len(Extended(refs, sets))
         /\ \A i \in 1 .. Len(sets) :
              Extended(refs, sets)[i] = IF i <= Len(refs) THEN refs[i] ELSE sets[i]
<1>1. /\ Len(refs) \in Nat /\ Len(sets) \in Nat
      /\ \A i \in 1 .. Len(sets) : sets[i] \in S
  BY Sequence
<1> DEFINE rest == SubSeq(sets, Len(refs) + 1, Len(sets))
<1>2. \A i \in Len(refs) + 1 .. Len(sets) : sets[i] \in S
  BY <1>1
<1>3. /\ rest \in Seq(S)
      /\ Len(rest) = IF Len(refs) + 1 <= Len(sets) THEN Len(sets) - (Len(refs) + 1) + 1 ELSE 0
      /\ \A i \in 1 .. Len(sets) - (Len(refs) + 1) + 1 : rest[i] = sets[Len(refs) + 1 + i - 1]
  BY <1>1, <1>2, SubSeqProperties
<1> HIDE DEF rest
<1>4. /\ refs \o rest \in Seq(S)
      /\ Len(refs \o rest) = Len(refs) + Len(rest)
      /\ \A i \in 1 .. Len(refs) + Len(rest) :
           (refs \o rest)[i] = IF i <= Len(refs) THEN refs[i] ELSE rest[i - Len(refs)]
  BY <1>3, ConcatProperties
<1>5. Extended(refs, sets) = refs \o rest
  BY DEF Extended, rest
<1>6. ASSUME NEW i \in 1 .. Len(sets), ~ i <= Len(refs)
      PROVE  rest[i - Len(refs)] = sets[i] /\ i \in 1 .. Len(refs) + Len(rest)
  <2>1. i - Len(refs) \in 1 .. Len(sets) - (Len(refs) + 1) + 1 /\ Len(refs) + 1 + (i - Len(refs)) - 1 = i
    BY <1>1, <1>6
  <2>. QED
    BY <1>1, <1>3, <1>6, <2>1
<1>7. \A i \in 1 .. Len(sets) : i <= Len(refs) => i \in 1 .. Len(refs) + Len(rest)
  BY <1>1, <1>3
<1>. QED
  BY <1>1, <1>3, <1>4, <1>5, <1>6, <1>7

(* The first update() finds no references to keep.                         *)
LEMMA ExtendedNone ==
  ASSUME NEW S, NEW sets \in Seq(S)
  PROVE  /\ Extended(<<>>, sets) \in Seq(S)
         /\ Len(sets) <= Len(Extended(<<>>, sets))
         /\ \A i \in 1 .. Len(sets) : Extended(<<>>, sets)[i] = sets[i]
<1>1. PICK none \in Seq(S) : none = <<>> /\ Len(none) = 0
  BY EmptySeq
<1>2. /\ Extended(none, sets) \in Seq(S)
      /\ Len(sets) <= Len(Extended(none, sets))
      /\ \A i \in 1 .. Len(sets) :
           Extended(none, sets)[i] = IF i <= Len(none) THEN none[i] ELSE sets[i]
  BY ExtendedRefs
<1>3. \A i \in 1 .. Len(sets) : ~ i <= 0
  BY Sequence
<1>4. Extended(none, sets) = Extended(<<>>, sets)
  BY <1>1
<1>. QED
  BY <1>1, <1>2, <1>3, <1>4

(* The objects after a change of maxLevel(): those of the levels that stay *)
(* stay in place, the added ones are new.                                  *)
LEMMA ResizedSets ==
  ASSUME TypeOK, ObjectsOwned, NEW d \in 0 .. DepthBound,
         NEW last, last = allocated + IF d > depth THEN d - depth ELSE 0
  PROVE  /\ Resized(d) \in Seq(1 .. last) /\ Len(Resized(d)) = d + 1
         /\ \A i \in 1 .. d + 1 :
              Resized(d)[i] = IF i <= depth + 1 THEN levelSets[i] ELSE allocated + i - (depth + 1)
<1>1. /\ depth \in Nat /\ d \in Nat /\ allocated \in Nat
      /\ levelSets \in Seq(Objects) /\ Len(levelSets) = depth + 1
      /\ \A i \in 1 .. depth + 1 : levelSets[i] \in Objects
  BY LevelsAssumption, Sequence DEF TypeOK, ObjectsOwned
<1>2. CASE d <= depth
  <2>1. \A i \in 1 .. d + 1 : levelSets[i] \in Objects
    BY <1>1, <1>2
  <2>2. /\ SubSeq(levelSets, 1, d + 1) \in Seq(Objects)
        /\ Len(SubSeq(levelSets, 1, d + 1)) = d + 1
        /\ \A i \in 1 .. d + 1 : SubSeq(levelSets, 1, d + 1)[i] = levelSets[i]
    <3>1. /\ SubSeq(levelSets, 1, d + 1) \in Seq(Objects)
          /\ Len(SubSeq(levelSets, 1, d + 1)) = IF 1 <= d + 1 THEN d + 1 - 1 + 1 ELSE 0
          /\ \A i \in 1 .. d + 1 - 1 + 1 : SubSeq(levelSets, 1, d + 1)[i] = levelSets[1 + i - 1]
      BY <1>1, <2>1, SubSeqProperties
    <3>. QED
      BY <1>1, <3>1
  <2>3. Resized(d) = SubSeq(levelSets, 1, d + 1) /\ 1 .. last = Objects
    BY <1>1, <1>2 DEF Resized, Objects
  <2>4. \A i \in 1 .. d + 1 : i <= depth + 1
    BY <1>1, <1>2
  <2>5. Resized(d) \in Seq(1 .. last) /\ Len(Resized(d)) = d + 1
    BY <2>2, <2>3
  <2>6. \A i \in 1 .. d + 1 : Resized(d)[i] = levelSets[i]
    BY <2>2, <2>3
  <2>. QED
    BY <2>4, <2>5, <2>6
<1>3. CASE d > depth
  <2> DEFINE fresh == Fresh(d - depth)
             T == 1 .. allocated + (d - depth)
  <2>1. /\ fresh \in Seq(T) /\ Len(fresh) = d - depth
        /\ \A i \in 1 .. d - depth : fresh[i] = allocated + i
    <3>1. d - depth \in Nat
      BY <1>1, <1>3
    <3>. QED
      BY <1>1, <3>1, FreshObjects
  <2>2. Objects \subseteq T
    BY <1>1, <1>3 DEF Objects
  <2>3. levelSets \in Seq(T)
    BY <1>1, <2>2, SeqMonotonic
  <2> HIDE DEF fresh, T
  <2>4. /\ levelSets \o fresh \in Seq(T)
        /\ Len(levelSets \o fresh) = Len(levelSets) + Len(fresh)
        /\ \A i \in 1 .. Len(levelSets) + Len(fresh) :
             (levelSets \o fresh)[i] = IF i <= Len(levelSets) THEN levelSets[i] ELSE fresh[i - Len(levelSets)]
    BY <2>1, <2>3, ConcatProperties
  <2>5. Resized(d) = levelSets \o fresh
    BY <1>1, <1>3 DEF Resized, fresh
  <2>6. \A i \in 1 .. d + 1 :
          (levelSets \o fresh)[i] = IF i <= depth + 1 THEN levelSets[i] ELSE allocated + i - (depth + 1)
    <3>. SUFFICES ASSUME NEW i \in 1 .. d + 1
         PROVE  (levelSets \o fresh)[i] = IF i <= depth + 1 THEN levelSets[i] ELSE allocated + i - (depth + 1)
      OBVIOUS
    <3>1. i \in 1 .. Len(levelSets) + Len(fresh)
      BY <1>1, <1>3, <2>1
    <3>2. ~ i <= depth + 1 => i - (depth + 1) \in 1 .. d - depth
      BY <1>1, <1>3
    <3>3. ~ i <= depth + 1 => allocated + (i - (depth + 1)) = allocated + i - (depth + 1)
      BY <1>1
    <3>. QED
      BY <1>1, <2>1, <2>4, <3>1, <3>2, <3>3
  <2>7. T = 1 .. last
    BY <1>1, <1>3 DEF T
  <2>8. Len(levelSets) + Len(fresh) = d + 1
    BY <1>1, <1>3, <2>1
  <2>. QED
    BY <2>4, <2>5, <2>6, <2>7, <2>8
<1>. QED
  BY <1>1, <1>2, <1>3


-----------------------------------------------------------------------------
LEMMA LevelsInit == Init => LevelsInv
<1>. SUFFICES ASSUME Init PROVE LevelsInv
  OBVIOUS
<1>1. depth \in Nat /\ depth <= DepthBound /\ allocated = depth + 1 /\ allocated \in 1 .. ObjectBound
  BY LevelsAssumption DEF Init
<1>2. /\ levelSets \in Seq(Objects) /\ Len(levelSets) = depth + 1
      /\ DOMAIN levelSets = Objects /\ \A i \in Objects : levelSets[i] = i
  <2>1. levelSets \in [1 .. depth + 1 -> Objects] /\ Objects = 1 .. depth + 1
    BY <1>1 DEF Init, Objects
  <2>. QED
    BY <1>1, <2>1, SeqDef DEF Init
<1>3. ToSet(levelSets) = Objects
  BY <1>2 DEF ToSet
<1>4. tmpSets = <<>> /\ ToSet(tmpSets) = {} /\ Len(tmpSets) = 0 /\ DOMAIN tmpSets = {}
  BY EmptySeq DEF Init, ToSet
<1>5. Alive = Objects /\ \A o \in Objects : content[o] = current
  BY DEF Init, Alive, Objects
<1>6. Created = {}
  BY DEF Init, Created
<1>7. TypeOK
  BY <1>1, <1>2, <1>3, <1>4, <1>5, <1>6 DEF Init, TypeOK, Objects
<1>8. ObjectsOwned
  BY <1>2, <1>3, <1>4, EmptySeq DEF ObjectsOwned
<1>9. LayoutsInPlace
  BY <1>2, <1>5 DEF Init, LayoutsInPlace
<1>. QED
  BY <1>6, <1>7, <1>8, <1>9 DEF LevelsInv, WrappersFollow

LEMMA SubDomainGridStep ==
  ASSUME LevelsInv, NEW s \in SubDomain, SubDomainGrid(s)
  PROVE  LevelsInv'
<1>1. /\ Created' = Created \cup {s}
      /\ wrapped' = [t \in Created \cup {s} |->
                       IF t = s THEN Extended(<<>>, levelSets) ELSE wrapped[t]]
      /\ UNCHANGED <<depth, levelSets, tmpSets, content, allocated, current, state>>
  BY DEF SubDomainGrid, Created
<1>2. levelSets \in Seq(Objects) /\ Len(levelSets) = depth + 1 /\ depth \in Nat
  BY LevelsAssumption DEF LevelsInv, TypeOK, ObjectsOwned
<1>3. /\ Extended(<<>>, levelSets) \in Seq(Objects)
      /\ Len(levelSets) <= Len(Extended(<<>>, levelSets))
      /\ \A i \in 1 .. Len(levelSets) : Extended(<<>>, levelSets)[i] = levelSets[i]
  BY <1>2, ExtendedNone
<1>4. TypeOK' /\ ObjectsOwned' /\ LayoutsInPlace'
  BY <1>1 DEF LevelsInv, TypeOK, ObjectsOwned, LayoutsInPlace, Alive, Objects
<1>5. WrappersFollow'
  <2>. SUFFICES ASSUME NEW t \in Created'
       PROVE  /\ wrapped'[t] \in Seq(Objects) /\ depth + 1 <= Len(wrapped'[t])
              /\ \A l \in 1 .. depth + 1 : wrapped'[t][l] = levelSets[l]
    BY <1>1 DEF WrappersFollow, Objects
  <2>1. CASE t = s
    <3>1. wrapped'[t] = Extended(<<>>, levelSets)
      BY <1>1, <2>1
    <3>. QED
      BY <1>2, <1>3, <3>1
  <2>2. CASE t # s
    BY <1>1, <2>2 DEF LevelsInv, WrappersFollow
  <2>. QED
    BY <2>1, <2>2
<1>. QED
  BY <1>4, <1>5 DEF LevelsInv


(* Between two layouts there are no temporary objects.                     *)
LEMMA NoTmpSets ==
  ASSUME TypeOK, ObjectsOwned, state = "fixed"
  PROVE  tmpSets = <<>> /\ ToSet(tmpSets) = {} /\ DOMAIN tmpSets = {}
<1>1. tmpSets \in Seq(Objects) /\ Len(tmpSets) = 0
  BY DEF TypeOK, ObjectsOwned
<1>2. tmpSets = <<>>
  BY <1>1, EmptySeq
<1>. QED
  BY <1>1, <1>2, Sequence DEF ToSet

(* The objects are distinct after a change of maxLevel(), too.             *)
LEMMA ResizedDistinct ==
  ASSUME TypeOK, ObjectsOwned, NEW d \in 0 .. DepthBound,
         NEW i \in 1 .. d + 1, NEW j \in 1 .. d + 1, Resized(d)[i] = Resized(d)[j]
  PROVE  i = j
<1>1. /\ depth \in Nat /\ d \in Nat /\ allocated \in Nat
      /\ levelSets \in Seq(Objects) /\ Len(levelSets) = depth + 1
      /\ DOMAIN levelSets = 1 .. depth + 1
  BY LevelsAssumption, Sequence DEF TypeOK, ObjectsOwned
<1>2. \A k \in 1 .. depth + 1 : levelSets[k] \in Int /\ levelSets[k] <= allocated
  BY <1>1, Sequence DEF Objects
<1>3. \A k \in 1 .. d + 1 :
        Resized(d)[k] = IF k <= depth + 1 THEN levelSets[k] ELSE allocated + k - (depth + 1)
  BY ResizedSets
<1>4. CASE i <= depth + 1 /\ j <= depth + 1
  <2>1. i \in DOMAIN levelSets /\ j \in DOMAIN levelSets
    BY <1>1, <1>4
  <2>2. levelSets[i] = levelSets[j]
    BY <1>3, <1>4
  <2>. QED
    BY <2>1, <2>2 DEF ObjectsOwned
<1>5. CASE i <= depth + 1 /\ ~ j <= depth + 1
  BY <1>1, <1>2, <1>3, <1>5
<1>6. CASE ~ i <= depth + 1 /\ j <= depth + 1
  BY <1>1, <1>2, <1>3, <1>6
<1>7. CASE ~ i <= depth + 1 /\ ~ j <= depth + 1
  BY <1>1, <1>3, <1>7
<1>. QED
  BY <1>4, <1>5, <1>6, <1>7

LEMMA AdaptStep ==
  ASSUME LevelsInv, NoLevelReturns,
         NEW d \in 0 .. DepthBound, NEW layout \in LayoutId, Adapt(d, layout)
  PROVE  LevelsInv'
<1>. USE DEF LevelsInv
<1>1. /\ state = "fixed" /\ state' = "fixed" /\ depth' = d
      /\ levelSets' = Resized(d) /\ tmpSets' = tmpSets
      /\ allocated' = allocated + IF d > depth THEN d - depth ELSE 0
      /\ allocated' <= ObjectBound /\ current' = layout
      /\ content' = [o \in ToSet(levelSets') |-> layout]
      /\ Created' = Created
      /\ \A s \in Created : wrapped'[s] = Extended(wrapped[s], levelSets')
  BY DEF Adapt, Created
<1>2. /\ depth \in Nat /\ d \in Nat /\ d <= DepthBound
      /\ allocated \in Nat /\ 1 <= allocated /\ ObjectBound \in Nat
  BY LevelsAssumption DEF TypeOK
<1>3. /\ allocated' \in 1 .. ObjectBound /\ allocated <= allocated'
  BY <1>1, <1>2
<1>4. /\ levelSets' \in Seq(Objects') /\ Len(levelSets') = d + 1
      /\ \A i \in 1 .. d + 1 :
           levelSets'[i] = IF i <= depth + 1 THEN levelSets[i] ELSE allocated + i - (depth + 1)
  <2>1. /\ Resized(d) \in Seq(1 .. allocated') /\ Len(Resized(d)) = d + 1
        /\ \A i \in 1 .. d + 1 :
             Resized(d)[i] = IF i <= depth + 1 THEN levelSets[i] ELSE allocated + i - (depth + 1)
    BY <1>1, ResizedSets
  <2>. QED
    BY <1>1, <2>1 DEF Objects
<1>5. /\ DOMAIN levelSets' = 1 .. d + 1 /\ ToSet(levelSets') \subseteq Objects'
      /\ \A l \in DOMAIN levelSets' : levelSets'[l] \in ToSet(levelSets')
  BY <1>4, Sequence DEF ToSet
<1>6. tmpSets' = <<>> /\ ToSet(tmpSets') = {} /\ DOMAIN tmpSets' = {} /\ Len(tmpSets') = 0
  BY <1>1, NoTmpSets, EmptySeq
<1>7. TypeOK'
  BY <1>1, <1>2, <1>3, <1>4, <1>5, <1>6 DEF TypeOK, Alive, Objects
<1>8. ObjectsOwned'
  <2>1. ASSUME NEW i \in DOMAIN levelSets', NEW j \in DOMAIN levelSets',
               levelSets'[i] = levelSets'[j]
        PROVE  i = j
    <3>1. i \in 1 .. d + 1 /\ j \in 1 .. d + 1 /\ Resized(d)[i] = Resized(d)[j]
      BY <1>1, <1>5, <2>1
    <3>2. TypeOK /\ ObjectsOwned
      OBVIOUS
    <3>. QED
      BY <3>1, <3>2, ResizedDistinct
  <2>. QED
    BY <1>4, <1>6, <2>1, EmptySeq DEF ObjectsOwned
<1>9. LayoutsInPlace'
  BY <1>1, <1>5 DEF LayoutsInPlace
<1>10. WrappersFollow'
  <2>. SUFFICES ASSUME NEW s \in Created
       PROVE  /\ wrapped'[s] \in Seq(Objects') /\ d + 1 <= Len(wrapped'[s])
              /\ \A l \in 1 .. d + 1 : wrapped'[s][l] = levelSets'[l]
    BY <1>1 DEF WrappersFollow
  <2>1. /\ wrapped[s] \in Seq(Objects) /\ depth + 1 <= Len(wrapped[s])
        /\ \A l \in 1 .. depth + 1 : wrapped[s][l] = levelSets[l]
    BY DEF WrappersFollow
  <2>2. wrapped[s] \in Seq(Objects')
    <3>1. Objects \subseteq Objects'
      BY <1>2, <1>3 DEF Objects
    <3>. QED
      BY <2>1, <3>1, SeqMonotonic
  <2>3. /\ Extended(wrapped[s], levelSets') \in Seq(Objects')
        /\ d + 1 <= Len(Extended(wrapped[s], levelSets'))
        /\ \A i \in 1 .. d + 1 :
             Extended(wrapped[s], levelSets')[i] =
               IF i <= Len(wrapped[s]) THEN wrapped[s][i] ELSE levelSets'[i]
    BY <1>4, <2>2, ExtendedRefs
  <2>4. ASSUME NEW l \in 1 .. d + 1, l <= Len(wrapped[s])
        PROVE  wrapped[s][l] = levelSets'[l]
    <3>1. Len(wrapped[s]) \in Nat
      BY <2>1, Sequence
    <3>2. l <= depth + 1
      <4>1. CASE d > depth
        BY <1>1, <1>2, <2>4, <3>1, <4>1 DEF NoLevelReturns
      <4>2. CASE ~ d > depth
        BY <1>2, <4>2
      <4>. QED
        BY <4>1, <4>2
    <3>3. l \in 1 .. depth + 1
      BY <1>2, <3>2
    <3>. QED
      BY <1>4, <2>1, <3>2, <3>3
  <2>5. wrapped'[s] = Extended(wrapped[s], levelSets')
    BY <1>1
  <2>. QED
    BY <2>3, <2>4, <2>5
<1>. QED
  BY <1>7, <1>8, <1>9, <1>10


LEMMA PrepareStep ==
  ASSUME LevelsInv, NEW layout \in LayoutId, Prepare(layout)
  PROVE  LevelsInv'
<1>. USE DEF LevelsInv
<1>1. /\ state = "fixed" /\ state' = "preUpdate"
      /\ tmpSets' = Fresh(depth + 1)
      /\ allocated' = allocated + (depth + 1) /\ allocated' <= ObjectBound
      /\ content' = [o \in Alive \cup ToSet(tmpSets') |->
                       IF o \in Alive THEN content[o] ELSE layout]
      /\ Created' = Created /\ wrapped' = wrapped
      /\ depth' = depth /\ levelSets' = levelSets /\ current' = current
  BY LevelsAssumption DEF Prepare, Created, TypeOK
<1>2. /\ depth \in Nat /\ allocated \in Nat /\ 1 <= allocated /\ ObjectBound \in Nat
      /\ levelSets \in Seq(Objects) /\ Len(levelSets) = depth + 1
  BY LevelsAssumption DEF TypeOK, ObjectsOwned
<1>3. /\ allocated' \in 1 .. ObjectBound /\ Objects \subseteq Objects'
  BY <1>1, <1>2 DEF Objects
<1>4. /\ tmpSets' \in Seq(Objects') /\ Len(tmpSets') = depth + 1
      /\ \A i \in 1 .. depth + 1 : tmpSets'[i] = allocated + i
  <2>1. depth + 1 \in Nat
    BY <1>2
  <2>2. /\ Fresh(depth + 1) \in Seq(1 .. allocated') /\ Len(Fresh(depth + 1)) = depth + 1
        /\ \A i \in 1 .. depth + 1 : Fresh(depth + 1)[i] = allocated + i
    BY <1>1, <1>2, <2>1, FreshObjects
  <2>. QED
    BY <1>1, <2>2 DEF Objects
<1>5. /\ DOMAIN tmpSets' = 1 .. depth + 1
      /\ ToSet(tmpSets') = {tmpSets'[i] : i \in 1 .. depth + 1}
      /\ ToSet(tmpSets') \subseteq Objects'
  BY <1>4, Sequence
<1>6. \A o \in ToSet(tmpSets') : o \notin Objects
  BY <1>2, <1>4, <1>5 DEF Objects
<1>7. /\ Alive = ToSet(levelSets) /\ ToSet(levelSets) \subseteq Objects
      /\ DOMAIN levelSets = 1 .. depth + 1
      /\ \A l \in DOMAIN levelSets : levelSets[l] \in Alive
  BY <1>1, <1>2, NoTmpSets, Sequence DEF TypeOK, ToSet
<1>8. Alive' = Alive \cup ToSet(tmpSets')
  BY <1>1 DEF Alive
<1>9. TypeOK'
  <2>1. \A o \in Alive' : o \in Objects' /\ content'[o] \in LayoutId
    BY <1>1, <1>3, <1>5, <1>7, <1>8 DEF TypeOK
  <2>. QED
    BY <1>1, <1>3, <1>4, <1>7, <1>8, <2>1 DEF TypeOK, Objects
<1>10. ObjectsOwned'
  <2>1. levelSets' \in Seq(Objects')
    BY <1>1, <1>2, <1>3, SeqMonotonic
  <2>2. \A i, j \in DOMAIN tmpSets' : tmpSets'[i] = tmpSets'[j] => i = j
    BY <1>2, <1>4, <1>5
  <2>3. ToSet(levelSets') \cap ToSet(tmpSets') = {}
    BY <1>1, <1>6, <1>7
  <2>. QED
    BY <1>1, <1>4, <2>1, <2>2, <2>3 DEF ObjectsOwned
<1>11. LayoutsInPlace'
  <2>1. \A l \in DOMAIN levelSets' : content'[levelSets'[l]] = current'
    BY <1>1, <1>7 DEF LayoutsInPlace
  <2>2. \A o \in ToSet(tmpSets') : content'[o] = layout
    BY <1>1, <1>6, <1>7
  <2>3. \A l \in DOMAIN tmpSets' : content'[tmpSets'[l]] = layout
    BY <1>5, <2>2
  <2>4. 1 \in DOMAIN tmpSets'
    BY <1>2, <1>5
  <2>. QED
    BY <2>1, <2>3, <2>4 DEF LayoutsInPlace
<1>12. WrappersFollow'
  <2>1. \A s \in Created : wrapped[s] \in Seq(Objects')
    BY <1>3, SeqMonotonic DEF WrappersFollow
  <2>. QED
    BY <1>1, <2>1 DEF WrappersFollow
<1>. QED
  BY <1>9, <1>10, <1>11, <1>12

LEMMA SwapStep ==
  ASSUME LevelsInv, Swap
  PROVE  LevelsInv'
<1>. USE DEF LevelsInv
<1>1. /\ state = "preUpdate" /\ state' = "postUpdate"
      /\ current' = content[tmpSets[1]]
      /\ content' = [o \in Alive |->
           IF o \in ToSet(levelSets) THEN content[tmpSets[CHOOSE l \in DOMAIN levelSets : levelSets[l] = o]]
           ELSE content[levelSets[CHOOSE l \in DOMAIN tmpSets : tmpSets[l] = o]]]
      /\ UNCHANGED <<depth, levelSets, tmpSets, allocated, wrapped>>
  BY DEF Swap
<1>2. /\ depth \in Nat /\ DOMAIN levelSets = 1 .. depth + 1 /\ DOMAIN tmpSets = 1 .. depth + 1
      /\ 1 \in DOMAIN tmpSets
  BY <1>1, LevelsAssumption, Sequence DEF TypeOK, ObjectsOwned
<1>3. /\ \A l \in DOMAIN levelSets : levelSets[l] \in ToSet(levelSets) /\ levelSets[l] \in Alive
      /\ \A l \in DOMAIN tmpSets : tmpSets[l] \in ToSet(tmpSets) /\ tmpSets[l] \in Alive
  BY DEF ToSet, TypeOK
<1>4. Alive' = Alive
  BY <1>1 DEF Alive
<1>5. \A l \in DOMAIN levelSets : content'[levelSets[l]] = content[tmpSets[l]]
  <2>. SUFFICES ASSUME NEW l \in DOMAIN levelSets
       PROVE  content'[levelSets[l]] = content[tmpSets[l]]
    OBVIOUS
  <2>1. (CHOOSE i \in DOMAIN levelSets : levelSets[i] = levelSets[l]) = l
    BY DEF ObjectsOwned
  <2>. QED
    BY <1>1, <1>3, <2>1
<1>6. \A o \in Alive : content'[o] \in LayoutId
  <2>. SUFFICES ASSUME NEW o \in Alive
       PROVE  content'[o] \in LayoutId
    OBVIOUS
  <2>1. CASE o \in ToSet(levelSets)
    <3>1. PICK l \in DOMAIN levelSets : levelSets[l] = o
      BY <2>1 DEF ToSet
    <3>2. content'[o] = content[tmpSets[l]]
      BY <1>5, <3>1
    <3>. QED
      BY <1>2, <1>3, <3>2 DEF TypeOK
  <2>2. CASE o \notin ToSet(levelSets)
    <3>1. \E l \in DOMAIN tmpSets : tmpSets[l] = o
      BY <2>2 DEF ToSet, TypeOK
    <3> DEFINE k == CHOOSE l \in DOMAIN tmpSets : tmpSets[l] = o
    <3>2. k \in DOMAIN levelSets
      BY <1>2, <3>1
    <3>3. content'[o] = content[levelSets[k]]
      BY <1>1, <2>2
    <3>. QED
      BY <1>3, <3>2, <3>3 DEF TypeOK
  <2>. QED
    BY <2>1, <2>2
<1>7. TypeOK'
  <2>1. current' \in LayoutId
    BY <1>1, <1>2, <1>3 DEF TypeOK
  <2>2. Created' = Created
    BY <1>1 DEF Created
  <2>. QED
    BY <1>1, <1>4, <1>6, <2>1, <2>2 DEF TypeOK
<1>8. ObjectsOwned'
  BY <1>1 DEF ObjectsOwned, Objects
<1>9. LayoutsInPlace'
  BY <1>1, <1>2, <1>5 DEF LayoutsInPlace
<1>10. WrappersFollow'
  BY <1>1 DEF WrappersFollow, Objects, Created
<1>. QED
  BY <1>7, <1>8, <1>9, <1>10

LEMMA ReleaseStep ==
  ASSUME LevelsInv, Release
  PROVE  LevelsInv'
<1>. USE DEF LevelsInv
<1>1. /\ state = "postUpdate" /\ state' = "fixed"
      /\ content' = [o \in Alive \ ToSet(tmpSets) |-> content[o]]
      /\ tmpSets' = <<>>
      /\ UNCHANGED <<depth, levelSets, allocated, wrapped, current>>
  BY DEF Release
<1>2. tmpSets' \in Seq(Objects) /\ Len(tmpSets') = 0 /\ DOMAIN tmpSets' = {} /\ ToSet(tmpSets') = {}
  BY <1>1, EmptySeq, Sequence DEF ToSet
<1>3. Alive' = ToSet(levelSets)
  BY <1>1 DEF Alive, TypeOK, ObjectsOwned
<1>4. \A o \in ToSet(levelSets) : o \in Alive /\ content'[o] = content[o]
  BY <1>1, <1>3 DEF Alive, TypeOK
<1>5. \A l \in DOMAIN levelSets : levelSets[l] \in ToSet(levelSets)
  BY DEF ToSet
<1>6. TypeOK'
  <2>1. Created' = Created
    BY <1>1 DEF Created
  <2>2. Len(levelSets') = depth' + 1 /\ Len(tmpSets') = 0
    BY <1>1, <1>2 DEF TypeOK
  <2>3. Alive' = ToSet(levelSets') \cup ToSet(tmpSets')
    BY <1>1, <1>2, <1>3
  <2>4. \A o \in Alive' : o \in 1 .. allocated' /\ content'[o] \in LayoutId
    BY <1>1, <1>3, <1>4 DEF TypeOK
  <2>5. state' = "fixed" /\ depth' = depth /\ allocated' = allocated /\ current' = current
    BY <1>1
  <2>. QED
    BY <2>1, <2>2, <2>3, <2>4, <2>5 DEF TypeOK
<1>7. ObjectsOwned'
  BY <1>1, <1>2 DEF ObjectsOwned, Objects
<1>8. LayoutsInPlace'
  BY <1>1, <1>4, <1>5 DEF LayoutsInPlace
<1>9. WrappersFollow'
  BY <1>1 DEF WrappersFollow, Objects, Created
<1>. QED
  BY <1>6, <1>7, <1>8, <1>9

-----------------------------------------------------------------------------
LEMMA LevelsStep == LevelsInv /\ [Next /\ NoLevelReturns]_vars => LevelsInv'
<1>. SUFFICES ASSUME LevelsInv, [Next /\ NoLevelReturns]_vars PROVE LevelsInv'
  OBVIOUS
<1>1. CASE \E s \in SubDomain : SubDomainGrid(s)
  BY <1>1, SubDomainGridStep
<1>2. CASE NoLevelReturns /\ \E d \in 0 .. DepthBound, layout \in LayoutId : Adapt(d, layout)
  BY <1>2, AdaptStep
<1>3. CASE \E layout \in LayoutId : Prepare(layout)
  BY <1>3, PrepareStep
<1>4. CASE Swap
  BY <1>4, SwapStep
<1>5. CASE Release
  BY <1>5, ReleaseStep
<1>6. CASE UNCHANGED vars
  BY <1>6 DEF LevelsInv, TypeOK, ObjectsOwned, LayoutsInPlace, WrappersFollow,
     vars, Alive, Created, Objects
<1>. QED
  BY <1>1, <1>2, <1>3, <1>4, <1>5, <1>6 DEF Next

LEMMA LevelsAlways == SettledSpec => []LevelsInv
BY LevelsInit, LevelsStep, PTL DEF SettledSpec

(* The grid owns exactly the level index sets of its levels and, between   *)
(* preUpdateSubDomains() and postUpdateSubDomains(), as many temporary     *)
(* ones; none of them leaks or is freed early (multidomaingrid.hh 896-928, *)
(* 1068-1079).                                                             *)
THEOREM LevelsOwned == SettledSpec => []TypeOK
BY LevelsAlways, PTL DEF LevelsInv

(* Whatever was adapted and published since its references were taken, a   *)
(* SubDomainGrid shows the layout in use on every level, because layouts   *)
(* are exchanged between objects (swap, indexsets.hh 635-638) and update() *)
(* (subdomaingrid.hh 598-604) appends what is missing; that no level comes *)
(* back after it was resized away is assumed.                              *)
THEOREM LevelSetsAlwaysCurrent == SettledSpec => []LevelSetsCurrent
<1>1. LevelsInv => LevelSetsCurrent
  <2>. SUFFICES ASSUME LevelsInv, NEW s \in Created, NEW l \in 1 .. depth + 1
       PROVE  wrapped[s][l] \in Alive /\ content[wrapped[s][l]] = current
    BY DEF LevelSetsCurrent
  <2>1. wrapped[s][l] = levelSets[l]
    BY DEF LevelsInv, WrappersFollow
  <2>2. l \in DOMAIN levelSets
    BY Sequence DEF LevelsInv, TypeOK, ObjectsOwned
  <2>. QED
    BY <2>1, <2>2 DEF LevelsInv, TypeOK, LayoutsInPlace, ToSet
<1>. QED
  BY <1>1, LevelsAlways, PTL
=============================================================================
