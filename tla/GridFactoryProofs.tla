-------------------------- MODULE GridFactoryProofs -------------------------
(***************************************************************************)
(* For any traits, any number of elements and any file: no call of the     *)
(* factory that fails loses an element or a domain, and every subdomain in *)
(* use has a counter.                                                      *)
(***************************************************************************)
EXTENDS GridFactory, SequenceTheorems, WellFoundedInduction, TLAPS

-----------------------------------------------------------------------------
(* The sum over the grids there are, of which there is never a second.     *)
LEMMA ElementsOfNone == MapThenSumSet(LAMBDA g : Len(g.layout), {}) = 0
<1> DEFINE Sum(f) == [s \in SUBSET {} |->
      IF s = {} THEN 0
      ELSE LET x == CHOOSE x \in s : TRUE IN Len(x.layout) + f[s \ {x}]]
<1>1. [s \in SUBSET {} |-> 0] = Sum([s \in SUBSET {} |-> 0])
  OBVIOUS
<1>2. (CHOOSE f : f = Sum(f)) = Sum(CHOOSE f : f = Sum(f))
  BY <1>1
<1>3. (CHOOSE f : f = Sum(f))[{}] = 0
  BY <1>2
<1>. QED
  BY <1>3 DEF MapThenSumSet, MapThenFoldSet

LEMMA ElementsOfOne ==
  ASSUME NEW g, Len(g.layout) \in Nat
  PROVE  MapThenSumSet(LAMBDA h : Len(h.layout), {g}) = Len(g.layout)
<1> DEFINE Sum(f) == [s \in SUBSET {g} |->
      IF s = {} THEN 0
      ELSE LET x == CHOOSE x \in s : TRUE IN Len(x.layout) + f[s \ {x}]]
           sum == [s \in SUBSET {g} |-> IF s = {} THEN 0 ELSE Len(g.layout)]
<1>1. sum = Sum(sum)
  <2>1. SUFFICES ASSUME NEW s \in SUBSET {g} PROVE sum[s] = Sum(sum)[s]
    OBVIOUS
  <2>2. CASE s = {}
    BY <2>2
  <2>3. CASE s = {g}
    <3>1. (CHOOSE x \in s : TRUE) = g /\ s \ {g} = {}
      BY <2>3
    <3>2. sum[{}] = 0 /\ sum[s] = Len(g.layout)
      BY <2>3
    <3>. QED
      BY <2>3, <3>1, <3>2
  <2>. QED
    BY <2>2, <2>3
<1>2. (CHOOSE f : f = Sum(f)) = Sum(CHOOSE f : f = Sum(f))
  BY <1>1
<1> DEFINE fold == CHOOSE f : f = Sum(f)
<1>3. fold[{}] = 0 /\ fold[{g}] = Len(g.layout)
  <2> HIDE DEF fold
  <2>1. fold = Sum(fold)
    BY <1>2 DEF fold
  <2>2. fold[{}] = 0
    BY <2>1
  <2>3. (CHOOSE x \in {g} : TRUE) = g /\ {g} \ {g} = {}
    OBVIOUS
  <2>4. fold[{g}] = Len((CHOOSE x \in {g} : TRUE).layout) + fold[{g} \ {CHOOSE x \in {g} : TRUE}]
    BY <2>1
  <2>5. fold[{g}] = Len(g.layout) + fold[{}]
    BY <2>3, <2>4, Zenon
  <2>. QED
    BY <2>2, <2>5
<1>. QED
  BY <1>3 DEF MapThenSumSet, MapThenFoldSet

-----------------------------------------------------------------------------
(* Max of what is not empty and bounded: the distances from the bound have *)
(* a least one.                                                            *)
LEMMA MaxOfBounded ==
  ASSUME NEW m \in Nat, NEW S \in SUBSET (0 .. m), S # {}
  PROVE  Max(S) \in S /\ \A y \in S : y <= Max(S)
<1> DEFINE distances == {m - x : x \in S}
<1>0. \A x \in S : x \in Int /\ 0 <= x /\ x <= m /\ m - x \in Nat
  OBVIOUS
<1>1. distances \subseteq Nat /\ distances # {}
  BY <1>0
<1>2. PICK d \in distances : \A e \in distances : <<e, d>> \notin OpToRel(<, Nat)
  BY <1>1, NatLessThanWellFounded, WFMin
<1>3. \A e \in distances : ~(e < d)
  BY <1>1, <1>2 DEF OpToRel
<1>4. PICK x \in S : d = m - x
  BY <1>2
<1>5. \A y \in S : x >= y
  <2>. SUFFICES ASSUME NEW y \in S PROVE x >= y
    OBVIOUS
  <2>1. ~(m - y < m - x)
    BY <1>3, <1>4
  <2>2. x \in Int /\ y \in Int /\ m \in Int
    BY <1>0
  <2>. HIDE DEF distances
  <2>. QED
    BY <2>1, <2>2
<1>. QED
  BY <1>5 DEF Max

(* A file that is not empty numbers its domains up to the last one.        *)
LEMMA DomainsOfFile ==
  ASSUME FactoryAssumption, NEW domains \in Files
  PROVE  /\ domains \in Seq(1 .. MaxDomain) /\ Len(domains) \in Nat
         /\ domains \in [1 .. Len(domains) -> 1 .. MaxDomain]
         /\ domains # <<>> =>
              LET last == Max({domains[i] : i \in DOMAIN domains})
              IN  /\ last \in 1 .. MaxDomain
                  /\ \A i \in 1 .. Len(domains) : domains[i] <= last
<1>1. domains \in Seq(1 .. MaxDomain)
  BY SeqDef DEF Files, FactoryAssumption
<1>2. /\ Len(domains) \in Nat /\ DOMAIN domains = 1 .. Len(domains)
      /\ domains \in [1 .. Len(domains) -> 1 .. MaxDomain]
  BY <1>1, LenProperties
<1>3. ASSUME domains # <<>>
      PROVE  LET last == Max({domains[i] : i \in DOMAIN domains})
             IN  /\ last \in 1 .. MaxDomain
                 /\ \A i \in 1 .. Len(domains) : domains[i] <= last
  <2> DEFINE used == {domains[i] : i \in DOMAIN domains}
  <2>1. Len(domains) # 0
    BY <1>1, <1>3, EmptySeq
  <2>2. used \subseteq 1 .. MaxDomain /\ used # {}
    BY <1>2, <2>1
  <2>3. used \subseteq 0 .. MaxDomain
    BY <2>2
  <2>4. Max(used) \in used /\ \A y \in used : y <= Max(used)
    BY <2>2, <2>3, MaxOfBounded DEF FactoryAssumption
  <2>. QED
    BY <1>2, <2>2, <2>4
<1>. QED
  BY <1>1, <1>2, <1>3

(* Nothing is wanted before a file is read or the caller marks cells.      *)
LEMMA NothingWanted ==
  ASSUME NoGrid
  PROVE  Wanted = NoSubDomains(elements)
BY DEF NoGrid, Wanted, NoSubDomains

(* A grid just made, in place of no grid.                                  *)
LEMMA MadeIsOneGrid ==
  ASSUME NoGrid, inserted \in Nat,
         NEW n \in {1} \cup 0 .. MaxDomain, ~TooMany(n),
         gridPtr' \cup handed' = {Grid(n, NoSubDomains(elements))},
         gridPtr' = {} \/ handed' = {},
         elements' = 0, UNCHANGED <<file, added, inserted>>
  PROVE  OneGrid'
<1>1. Wanted' = Wanted
  BY DEF Wanted
<1>2. Wanted' = NoSubDomains(elements)
  BY <1>1, NothingWanted
<1>3. \A i \in 1 .. inserted' : Wanted'[i] \subseteq 0 .. n
  BY <1>2 DEF NoSubDomains, NoGrid
<1>. QED
  BY <1>2, <1>3 DEF OneGrid

LEMMA FactoryInit == Init => FactoryInv
BY DEF Init, FactoryInv, NoGrid

LEMMA InsertElementStep ==
  ASSUME FactoryInv, InsertElement
  PROVE  FactoryInv'
<1>1. NoGrid
  BY DEF InsertElement, FactoryInv, OneGrid
<1>. QED
  BY <1>1 DEF InsertElement, FactoryInv, NoGrid

LEMMA MakeGridStep ==
  ASSUME FactoryInv, NEW n \in 0 .. MaxDomain, MakeGrid(n)
  PROVE  FactoryInv'
<1>1. NoGrid
  BY DEF MakeGrid, FactoryInv, OneGrid
<1>2. CASE TooMany(n)
  BY <1>1, <1>2 DEF MakeGrid, FactoryInv, NoGrid
<1>3. CASE ~TooMany(n)
  <2>1. /\ gridPtr' \cup handed' = {Grid(n, NoSubDomains(elements))} /\ handed' = {}
        /\ elements' = 0 /\ UNCHANGED <<file, added, inserted>>
    BY <1>3 DEF MakeGrid
  <2>2. OneGrid'
    BY <1>1, <1>3, <2>1, MadeIsOneGrid DEF FactoryInv
  <2>. QED
    BY <2>1, <2>2 DEF FactoryInv
<1>. QED
  BY <1>2, <1>3

LEMMA CreateGridStep ==
  ASSUME FactoryInv, CreateGrid
  PROVE  FactoryInv'
<1>1. CASE gridPtr # {}
  <2>1. OneGrid /\ handed = {}
    BY <1>1 DEF CreateGrid, FactoryInv, NoGrid
  <2>2. /\ gridPtr' = {} /\ gridPtr' \cup handed' = gridPtr \cup handed
        /\ UNCHANGED <<elements, file, added, inserted>>
    BY <1>1, <2>1 DEF CreateGrid
  <2>3. Wanted' = Wanted
    BY <2>2 DEF Wanted
  <2>. QED
    BY <2>1, <2>2, <2>3 DEF FactoryInv, OneGrid
<1>2. CASE gridPtr = {}
  <2>1. NoGrid
    BY <1>2 DEF CreateGrid, FactoryInv, OneGrid
  <2>2. CASE TooMany(1)
    BY <1>2, <2>1, <2>2 DEF CreateGrid, FactoryInv, NoGrid
  <2>3. CASE ~TooMany(1)
    <3>1. /\ gridPtr' \cup handed' = {Grid(1, NoSubDomains(elements))} /\ gridPtr' = {}
          /\ elements' = 0 /\ UNCHANGED <<file, added, inserted>>
      BY <1>2, <2>3 DEF CreateGrid
    <3>2. OneGrid'
      BY <2>1, <2>3, <3>1, MadeIsOneGrid DEF FactoryInv
    <3>. QED
      BY <3>1, <3>2 DEF FactoryInv
  <2>. QED
    BY <2>2, <2>3
<1>. QED
  BY <1>1, <1>2

(* A file read without an error: the i-th cell is wanted in the i-th       *)
(* domain, which the traits have room for.                                 *)
LEMMA ReadFileStep ==
  ASSUME FactoryAssumption, FactoryInv, NEW domains \in Files, ReadFile(domains)
  PROVE  FactoryInv'
<1> DEFINE n == Max({domains[i] : i \in DOMAIN domains}) - 1
<1>1. NoGrid /\ inserted = 0 /\ elements = 0 /\ added' = {} /\ handed' = {}
  BY DEF ReadFile, FactoryInv, OneGrid, NoGrid
<1>2. inserted' = Len(domains) /\ inserted' \in Nat
  BY DomainsOfFile DEF ReadFile
<1>3. CASE domains = <<>>
  <2>1. Len(domains) = 0
    BY <1>3, EmptySeq
  <2>. QED
    BY <1>1, <1>2, <1>3, <2>1 DEF ReadFile, FactoryInv, NoGrid
<1>4. CASE domains # <<>> /\ TooMany(n)
  <2>1. gridPtr' = {} /\ elements' = Len(domains) /\ file' = <<>>
    BY <1>1, <1>4 DEF ReadFile, NoGrid
  <2>. QED
    BY <1>1, <1>2, <2>1 DEF FactoryInv, NoGrid
<1>5. CASE domains # <<>> /\ ~TooMany(n)
  <2>1. /\ gridPtr' = {Grid(n, [i \in DOMAIN domains |-> {domains[i] - 1}])}
        /\ file' = domains /\ elements' = 0
    BY <1>1, <1>5 DEF ReadFile
  <2>2. /\ n \in 0 .. MaxDomain
        /\ \A i \in 1 .. Len(domains) : domains[i] - 1 \in 0 .. MaxDomain /\ domains[i] - 1 \in 0 .. n
    <3> DEFINE last == Max({domains[i] : i \in DOMAIN domains})
    <3>1. last \in 1 .. MaxDomain /\ \A i \in 1 .. Len(domains) : domains[i] <= last
      BY <1>5, DomainsOfFile
    <3>2. \A i \in 1 .. Len(domains) : domains[i] \in 1 .. MaxDomain
      BY DomainsOfFile
    <3> HIDE DEF last
    <3>3. n = last - 1
      BY DEF last
    <3>4. last - 1 \in 0 .. MaxDomain
      BY <3>1 DEF FactoryAssumption
    <3>5. ASSUME NEW i \in 1 .. Len(domains)
          PROVE  domains[i] - 1 \in 0 .. MaxDomain /\ domains[i] - 1 \in 0 .. last - 1
      BY <3>1, <3>2 DEF FactoryAssumption
    <3>. QED
      BY <3>3, <3>4, <3>5
  <2> HIDE DEF n
  <2>3. DOMAIN domains = 1 .. inserted'
    BY <1>2, DomainsOfFile
  <2>4. Wanted' = [i \in DOMAIN domains |-> {domains[i] - 1}]
    <3>1. ASSUME NEW i \in 1 .. inserted'
          PROVE  {s \in 0 .. MaxDomain : <<i, s>> \in added' \/ (file' # <<>> /\ s = file'[i] - 1)}
                   = {domains[i] - 1}
      BY <1>1, <1>2, <1>5, <2>1, <2>2
    <3>. QED
      BY <2>3, <3>1 DEF Wanted
  <2>5. \A i \in 1 .. inserted' : Wanted'[i] \subseteq 0 .. n
    BY <1>2, <2>2, <2>3, <2>4
  <2>6. ~TooMany(n)
    BY <1>5 DEF n
  <2>7. OneGrid'
    BY <1>1, <2>1, <2>2, <2>4, <2>5, <2>6 DEF OneGrid
  <2>. QED
    BY <1>2, <2>7 DEF FactoryInv
<1>. QED
  BY <1>3, <1>4, <1>5

LEMMA AddToSubDomainStep ==
  ASSUME FactoryAssumption, FactoryInv,
         NEW i \in 1 .. MaxElements, NEW s \in 0 .. MaxDomain, AddToSubDomain(i, s)
  PROVE  FactoryInv'
<1>1. PICK g \in handed :
        /\ i \in DOMAIN g.layout /\ s < g.asked
        /\ handed' = {[g EXCEPT !.layout[i] = @ \cup {s}]}
        /\ added' = added \cup {<<i, s>>}
        /\ UNCHANGED <<elements, gridPtr, hostPtr, file, inserted>>
  BY DEF AddToSubDomain
<1>2. OneGrid /\ gridPtr = {}
  BY DEF FactoryInv, NoGrid, OneGrid
<1>3. PICK n \in {1} \cup 0 .. MaxDomain :
        /\ ~TooMany(n)
        /\ gridPtr \cup handed = {Grid(n, Wanted)}
        /\ \A j \in 1 .. inserted : Wanted[j] \subseteq 0 .. n
  BY <1>2 DEF OneGrid
<1>4. g = Grid(n, Wanted)
  BY <1>2, <1>3
<1>5. g.layout = Wanted /\ g.asked = n
  BY <1>4 DEF Grid
<1>6. i \in 1 .. inserted
  BY <1>1, <1>5 DEF Wanted
<1>7. Wanted' = [Wanted EXCEPT ![i] = @ \cup {s}]
  <2>1. \A j \in 1 .. inserted : Wanted[j] =
          {t \in 0 .. MaxDomain : <<j, t>> \in added \/ (file # <<>> /\ t = file[j] - 1)}
    BY DEF Wanted
  <2>2. ASSUME NEW j \in 1 .. inserted
        PROVE  {t \in 0 .. MaxDomain : <<j, t>> \in added' \/ (file' # <<>> /\ t = file'[j] - 1)}
                 = IF j = i THEN Wanted[j] \cup {s} ELSE Wanted[j]
    BY <1>1, <2>1
  <2>3. Wanted' = [j \in 1 .. inserted |-> IF j = i THEN Wanted[j] \cup {s} ELSE Wanted[j]]
    BY <1>1, <2>2 DEF Wanted
  <2>4. DOMAIN Wanted = 1 .. inserted
    BY DEF Wanted
  <2>. QED
    BY <1>6, <2>3, <2>4
<1>8. [g EXCEPT !.layout[i] = @ \cup {s}] = Grid(n, Wanted')
  BY <1>4, <1>7 DEF Grid
<1>9. s \in 0 .. n
  BY <1>1, <1>3, <1>5 DEF FactoryAssumption
<1>10. \A j \in 1 .. inserted' : Wanted'[j] \subseteq 0 .. n
  <2>1. DOMAIN Wanted = 1 .. inserted
    BY DEF Wanted
  <2>. QED
    BY <1>1, <1>3, <1>6, <1>7, <1>9, <2>1
<1>11. OneGrid'
  BY <1>1, <1>2, <1>3, <1>8, <1>10 DEF OneGrid
<1>. QED
  BY <1>1, <1>11 DEF FactoryInv

LEMMA FactoryStep == FactoryAssumption /\ FactoryInv /\ [Next]_vars => FactoryInv'
<1>. SUFFICES ASSUME FactoryAssumption, FactoryInv, [Next]_vars PROVE FactoryInv'
  OBVIOUS
<1>1. ASSUME UNCHANGED <<elements, gridPtr, handed, file, added, inserted>>
      PROVE  FactoryInv'
  <2>1. Wanted' = Wanted
    BY <1>1 DEF Wanted
  <2>. QED
    BY <1>1, <2>1 DEF FactoryInv, NoGrid, OneGrid
<1>2. CASE InsertElement
  BY <1>2, InsertElementStep
<1>3. CASE \E n \in 0 .. MaxDomain : MakeGrid(n)
  BY <1>3, MakeGridStep
<1>4. CASE \E domains \in Files : ReadFile(domains)
  BY <1>4, ReadFileStep
<1>5. CASE CreateGrid
  BY <1>5, CreateGridStep
<1>6. CASE HostGrid
  BY <1>1, <1>6 DEF HostGrid
<1>7. CASE \E i \in 1 .. MaxElements, s \in 0 .. MaxDomain : AddToSubDomain(i, s)
  BY <1>7, AddToSubDomainStep
<1>8. CASE UNCHANGED vars
  BY <1>1, <1>8 DEF vars
<1>. QED
  BY <1>2, <1>3, <1>4, <1>5, <1>6, <1>7, <1>8 DEF Next

LEMMA FactoryAlways ==
  ASSUME FactoryAssumption PROVE Spec => []FactoryInv
<1>1. FactoryInv /\ [Next]_vars => FactoryInv'
  BY FactoryStep
<1>. QED
  BY <1>1, FactoryInit, PTL DEF Spec

-----------------------------------------------------------------------------
(* Whatever calls fail on the way, every element inserted or read is in    *)
(* one place (makeGrid 54-67): as long as it has made no grid the factory  *)
(* keeps them all, and a grid gets all of them.                            *)
THEOREM ElementsAlwaysKept ==
  ASSUME FactoryAssumption PROVE Spec => []ElementsKept
<1>1. FactoryInv => ElementsKept
  <2>. SUFFICES ASSUME FactoryInv PROVE ElementsKept
    OBVIOUS
  <2>1. CASE NoGrid
    <3>1. gridPtr \cup handed = {} /\ elements = inserted /\ inserted \in Nat
      BY <2>1 DEF NoGrid, FactoryInv
    <3>2. MapThenSumSet(LAMBDA g : Len(g.layout), gridPtr \cup handed) = 0
      BY <3>1, ElementsOfNone, Zenon
    <3>3. inserted = elements + 0
      BY <3>1
    <3>. QED
      BY <3>2, <3>3, Zenon DEF ElementsKept
  <2>2. CASE OneGrid
    <3>1. PICK n \in {1} \cup 0 .. MaxDomain : gridPtr \cup handed = {Grid(n, Wanted)}
      BY <2>2 DEF OneGrid
    <3>2. Grid(n, Wanted).layout = Wanted
      BY DEF Grid
    <3>3. Wanted \in Seq(SUBSET (0 .. MaxDomain)) /\ DOMAIN Wanted = 1 .. inserted
      BY SeqDef DEF Wanted, FactoryInv
    <3>4. Len(Wanted) = inserted
      BY <3>3, LenProperties DEF FactoryInv
    <3>5. Len(Grid(n, Wanted).layout) = inserted /\ inserted \in Nat
      BY <3>2, <3>4 DEF FactoryInv
    <3>6. MapThenSumSet(LAMBDA g : Len(g.layout), {Grid(n, Wanted)}) = Len(Grid(n, Wanted).layout)
      BY <3>5, ElementsOfOne
    <3>7. MapThenSumSet(LAMBDA g : Len(g.layout), gridPtr \cup handed) = inserted
      BY <3>1, <3>5, <3>6, Zenon
    <3>8. inserted = elements + inserted
      BY <2>2, <3>5 DEF OneGrid
    <3>. QED
      BY <3>7, <3>8, Zenon DEF ElementsKept
  <2>. QED
    BY <2>1, <2>2 DEF FactoryInv
<1>. QED
  BY <1>1, FactoryAlways, PTL

(* The grid the caller gets has the subdomains of the file, if one was     *)
(* read without an error, and those the caller added, and nothing else     *)
(* (createGrid 47-52, gmshreader.hh 35-46).                                *)
THEOREM LayoutAlwaysOfFile ==
  ASSUME FactoryAssumption PROVE Spec => []LayoutOfFile
<1>1. FactoryInv => LayoutOfFile
  BY DEF FactoryInv, NoGrid, OneGrid, LayoutOfFile, Grid
<1>. QED
  BY <1>1, FactoryAlways, PTL

(* With the traits of a fixed number of subdomains, kept as bits, every    *)
(* subdomain in use has a counter: makeGrid() refuses one subdomain too    *)
(* many rather than one too few (mdgridtraits.hh 150-153, makeGrid 63).    *)
THEOREM CountersAlwaysCover ==
  ASSUME FactoryAssumption, Kind = "few" PROVE Spec => []CountersCover
<1>1. FactoryInv => CountersCover
  <2>. SUFFICES ASSUME FactoryInv, NEW g \in gridPtr \cup handed, NEW i \in DOMAIN g.layout
                PROVE  g.layout[i] \subseteq g.room
    BY DEF CountersCover
  <2>1. OneGrid
    BY DEF FactoryInv, NoGrid
  <2>2. PICK n \in {1} \cup 0 .. MaxDomain :
          /\ ~TooMany(n) /\ g = Grid(n, Wanted)
          /\ \A j \in 1 .. inserted : Wanted[j] \subseteq 0 .. n
    BY <2>1 DEF OneGrid
  <2>3. g.layout = Wanted /\ g.room = 0 .. Count - 1 /\ i \in 1 .. inserted
    BY <2>2 DEF Grid, SizeContainer, Wanted
  <2>4. n <= Count - 1
    BY <2>2 DEF TooMany, maxSubDomainIndex, FactoryAssumption
  <2>. QED
    BY <2>2, <2>3, <2>4 DEF FactoryAssumption
<1>. QED
  BY <1>1, FactoryAlways, PTL
=============================================================================
