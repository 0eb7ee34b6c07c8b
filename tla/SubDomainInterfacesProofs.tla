---------------------- MODULE SubDomainInterfacesProofs ---------------------
(***************************************************************************)
(* The loop over the interface of two subdomains, in any view of any host  *)
(* grid and any layout: it visits every intersection of the interface once *)
(* and shows each of the two subdomains its own side.  And the loop over   *)
(* all interfaces (All), which shows every pair once where it looks.       *)
(***************************************************************************)
EXTENDS SubDomainInterfaces, WellFoundedInduction, TLAPS

LEMMA LeastNatural ==
  ASSUME NEW S \in SUBSET Nat, S # {}
  PROVE  \E n \in S : \A m \in S : n <= m
<1>1. PICK n \in S : \A m \in S : <<m, n>> \notin OpToRel(<, Nat)
  BY NatLessThanWellFounded, WFMin
<1>2. \A m \in S : ~(m < n)
  BY <1>1 DEF OpToRel
<1>. QED
  BY <1>2

-----------------------------------------------------------------------------
(* Positions in their order.                                               *)

LEMMA Positions ==
  ASSUME MeshAssumption
  PROVE  /\ <<End, 1>> \in Position
         /\ \A p \in Position : /\ p = <<p[1], p[2]>> /\ p[1] \in 1 .. End /\ p[2] \in Nat \ {0}
                                /\ p[1] = End => p[2] = 1
                                /\ p[1] # End => /\ p[1] \in MeshCell
                                                 /\ Len(Faces[p[1]]) \in Nat
                                                 /\ p[2] \in 1 .. Len(Faces[p[1]]) + 1
         /\ \A c \in MeshCell : \A f \in 1 .. Len(Faces[c]) + 1 : <<c, f>> \in Position
         /\ \A i \in Intersection : /\ i \in Position /\ i[1] \in MeshCell
                                    /\ i[2] \in 1 .. Len(Faces[i[1]])
         /\ \A p \in Position : p[1] # End /\ p[2] <= Len(Faces[p[1]]) => p \in Intersection
         /\ End \in Nat /\ MeshCell = 1 .. End - 1
<1>1. End \in Nat /\ MeshCell = 1 .. End - 1 /\ End \notin MeshCell /\ End \in 1 .. End
  BY DEF MeshAssumption, End, MeshCell
<1>2. \A c \in MeshCell : Len(Faces[c]) \in Nat /\ DOMAIN Faces[c] = 1 .. Len(Faces[c])
  BY DEF MeshAssumption
<1>3. ASSUME NEW p \in Position
      PROVE  \/ p = <<End, 1>>
             \/ \E c \in MeshCell : \E f \in 1 .. Len(Faces[c]) + 1 : p = <<c, f>>
  BY <1>3 DEF Position
<1>4. ASSUME NEW p \in Position
      PROVE  /\ p = <<p[1], p[2]>> /\ p[1] \in 1 .. End /\ p[2] \in Nat \ {0}
             /\ p[1] = End => p[2] = 1
             /\ p[1] # End => /\ p[1] \in MeshCell
                              /\ Len(Faces[p[1]]) \in Nat
                              /\ p[2] \in 1 .. Len(Faces[p[1]]) + 1
  <2>1. CASE p = <<End, 1>>
    BY <1>1, <2>1
  <2>2. ASSUME NEW c \in MeshCell, NEW f \in 1 .. Len(Faces[c]) + 1, p = <<c, f>>
        PROVE  /\ p = <<p[1], p[2]>> /\ p[1] \in 1 .. End /\ p[2] \in Nat \ {0}
               /\ p[1] # End /\ p[1] \in MeshCell /\ Len(Faces[p[1]]) \in Nat
               /\ p[2] \in 1 .. Len(Faces[p[1]]) + 1
    BY <1>1, <1>2, <2>2
  <2>. QED
    BY <1>3, <2>1, <2>2
<1>5. \A c \in MeshCell : \A f \in 1 .. Len(Faces[c]) + 1 : <<c, f>> \in Position
  BY DEF Position
<1>6. ASSUME NEW i \in Intersection
      PROVE  i \in Position /\ i[1] \in MeshCell /\ i[2] \in 1 .. Len(Faces[i[1]])
  <2>1. PICK c \in MeshCell : i \in {<<c, f>> : f \in DOMAIN Faces[c]}
    BY DEF Intersection
  <2>2. PICK f \in 1 .. Len(Faces[c]) : i = <<c, f>>
    BY <1>2, <2>1
  <2>. QED
    BY <1>2, <1>5, <2>2
<1>7. ASSUME NEW p \in Position, p[1] # End, p[2] <= Len(Faces[p[1]])
      PROVE  p \in Intersection
  <2>1. p = <<p[1], p[2]>> /\ p[1] \in MeshCell /\ p[2] \in DOMAIN Faces[p[1]]
    BY <1>2, <1>4, <1>7
  <2>. QED
    BY <2>1 DEF Intersection
<1>8. <<End, 1>> \in Position
  BY DEF Position
<1>. QED
  BY <1>1, <1>4, <1>5, <1>6, <1>7, <1>8

(* The last and the first of a set of positions.                           *)
LEMMA LastPosition ==
  ASSUME MeshAssumption, NEW S \in SUBSET Position, S # {}
  PROVE  \E p \in S : \A q \in S : ~Before(p, q)
<1>1. \A p \in S : p[1] \in 1 .. End /\ End - p[1] \in Nat /\ p[2] \in Nat /\ p[1] \in Nat
  BY Positions
<1> DEFINE cells == {n \in Nat : \E p \in S : n = End - p[1]}
<1>2. PICK n \in cells : \A m \in cells : n <= m
  <2>1. cells # {}
    BY <1>1
  <2>. QED
    BY <2>1, LeastNatural
<1>3. PICK p \in S : n = End - p[1]
  BY <1>2
<1>4. \A q \in S : q[1] <= p[1]
  <2>1. \A q \in S : End - q[1] \in cells
    BY <1>1
  <2>2. \A q \in S : n <= End - q[1]
    BY <1>2, <2>1
  <2>. QED
    BY <1>1, <1>3, <2>2, Positions
<1>5. PICK most \in Nat : \A q \in S : q[1] = p[1] => q[2] <= most
  <2>1. CASE p[1] = End
    BY <2>1, Positions
  <2>2. CASE p[1] # End
    <3>1. Len(Faces[p[1]]) + 1 \in Nat
      BY <2>2, Positions
    <3>2. \A q \in S : q[1] = p[1] => q[2] <= Len(Faces[p[1]]) + 1
      BY <2>2, Positions
    <3>. QED
      BY <3>1, <3>2
  <2>. QED
    BY <2>1, <2>2
<1> DEFINE places == {k \in Nat : \E q \in S : q[1] = p[1] /\ k = most - q[2]}
<1>6. \A q \in S : q[1] = p[1] => most - q[2] \in places
  BY <1>1, <1>5
<1>7. PICK k \in places : \A j \in places : k <= j
  <2>1. places # {}
    BY <1>3, <1>6
  <2>. QED
    BY <2>1, LeastNatural
<1>8. PICK last \in S : last[1] = p[1] /\ k = most - last[2]
  BY <1>7
<1>9. \A q \in S : q[1] = p[1] => q[2] <= last[2]
  <2>1. \A q \in S : q[1] = p[1] => k <= most - q[2]
    BY <1>6, <1>7
  <2>. QED
    BY <1>1, <1>8, <2>1
<1>10. ASSUME NEW q \in S PROVE ~Before(last, q)
  BY <1>1, <1>4, <1>8, <1>9 DEF Before
<1>. QED
  BY <1>8, <1>10

LEMMA FirstPosition ==
  ASSUME MeshAssumption, NEW S \in SUBSET Position, S # {}
  PROVE  \E p \in S : \A q \in S : p = q \/ Before(p, q)
<1>1. \A p \in S : p[1] \in Nat /\ p[2] \in Nat /\ p = <<p[1], p[2]>>
  BY Positions
<1> DEFINE cells == {n \in Nat : \E p \in S : n = p[1]}
<1>2. PICK n \in cells : \A m \in cells : n <= m
  <2>1. cells # {}
    BY <1>1
  <2>. QED
    BY <2>1, LeastNatural
<1>3. \A q \in S : n <= q[1]
  BY <1>1, <1>2
<1> DEFINE places == {k \in Nat : \E q \in S : q[1] = n /\ k = q[2]}
<1>4. PICK k \in places : \A j \in places : k <= j
  <2>1. places # {}
    BY <1>1, <1>2
  <2>. QED
    BY <2>1, LeastNatural
<1>5. PICK p \in S : p[1] = n /\ p[2] = k
  BY <1>4
<1>6. \A q \in S : q[1] = n => k <= q[2]
  BY <1>1, <1>4
<1>7. ASSUME NEW q \in S PROVE p = q \/ Before(p, q)
  <2>1. CASE q[1] = n /\ q[2] = k
    BY <1>1, <1>5, <2>1
  <2>2. CASE ~(q[1] = n /\ q[2] = k)
    <3>1. n < q[1] \/ (n = q[1] /\ k < q[2])
      BY <1>1, <1>2, <1>3, <1>4, <1>6, <2>2
    <3>. QED
      BY <1>5, <3>1 DEF Before
  <2>. QED
    BY <2>1, <2>2
<1>. QED
  BY <1>7

-----------------------------------------------------------------------------
(* The search.  Ahead(p) is what it may find from p on: the intersections  *)
(* of the interface in later cells, and in the cell of p, which is known   *)
(* to be in the first subdomain, those whose outside is in the second.     *)
Facing(i) == neighbor(i) /\ containsForSubDomain(subDomain2, outside(i))

Ahead(p) ==
  {i \in Intersection :
     /\ Facing(i)
     /\ \/ i[1] = p[1] /\ p[2] <= i[2]
        \/ p[1] < i[1] /\ containsForSubDomain(subDomain1, i[1])}

FirstOf(S) ==
  IF S = {} THEN <<End, 1>> ELSE CHOOSE i \in S : \A j \in S : i = j \/ Before(i, j)

LEMMA BeforeOrder ==
  ASSUME MeshAssumption, NEW i \in Position, NEW j \in Position
  PROVE  /\ ~Before(i, i)
         /\ i = j \/ Before(i, j) \/ Before(j, i)
         /\ ~(Before(i, j) /\ Before(j, i))
<1>1. /\ i = <<i[1], i[2]>> /\ i[1] \in Nat /\ i[2] \in Nat
      /\ j = <<j[1], j[2]>> /\ j[1] \in Nat /\ j[2] \in Nat
  BY Positions
<1>2. i[1] = j[1] /\ i[2] = j[2] => i = j
  BY <1>1
<1>. QED
  BY <1>1, <1>2 DEF Before

LEMMA FirstIs ==
  ASSUME MeshAssumption, NEW S \in SUBSET Intersection
  PROVE  /\ S = {} => FirstOf(S) = <<End, 1>>
         /\ S # {} => FirstOf(S) \in S /\ \A j \in S : FirstOf(S) = j \/ Before(FirstOf(S), j)
         /\ \A i \in S : (\A j \in S : i = j \/ Before(i, j)) => FirstOf(S) = i
<1>1. S \subseteq Position
  BY Positions
<1>2. S # {} => FirstOf(S) \in S /\ \A j \in S : FirstOf(S) = j \/ Before(FirstOf(S), j)
  <2>. SUFFICES ASSUME S # {}
       PROVE  FirstOf(S) \in S /\ \A j \in S : FirstOf(S) = j \/ Before(FirstOf(S), j)
    OBVIOUS
  <2>1. \E i \in S : \A j \in S : i = j \/ Before(i, j)
    BY <1>1, FirstPosition
  <2>2. FirstOf(S) = CHOOSE i \in S : \A j \in S : i = j \/ Before(i, j)
    BY DEF FirstOf
  <2>. QED
    BY <2>1, <2>2, Zenon
<1>3. ASSUME NEW i \in S, \A j \in S : i = j \/ Before(i, j)
      PROVE  FirstOf(S) = i
  <2>1. FirstOf(S) \in S /\ (FirstOf(S) = i \/ Before(FirstOf(S), i))
    BY <1>2
  <2>2. i = FirstOf(S) \/ Before(i, FirstOf(S))
    BY <1>3, <2>1
  <2>. QED
    BY <1>1, <2>1, <2>2, BeforeOrder
<1>. QED
  BY <1>2, <1>3 DEF FirstOf

(* Controller::incrementToNextValidEntity() finds the next cell.           *)
LEMMA NextEntity ==
  ASSUME MeshAssumption, NEW c \in 1 .. End
  PROVE  /\ NextValidEntity(c) \in Position
         /\ NextValidEntity(c)[1] \in c .. End /\ NextValidEntity(c)[2] = 1
         /\ NextValidEntity(c)[1] = End \/ containsForSubDomain(subDomain1, NextValidEntity(c)[1])
         /\ \A d \in c .. NextValidEntity(c)[1] - 1 : ~containsForSubDomain(subDomain1, d)
<1>1. End \in Nat /\ MeshCell = 1 .. End - 1 /\ <<End, 1>> \in Position
  BY Positions
<1> DEFINE valid == {d \in c .. End : d = End \/ containsForSubDomain(subDomain1, d)}
<1>2. PICK first \in valid : \A d \in valid : first <= d
  <2>1. End \in valid /\ valid \in SUBSET Nat
    BY <1>1
  <2>. HIDE DEF valid
  <2>. QED
    BY <2>1, LeastNatural
<1>3. first \in c .. End /\ (first = End \/ containsForSubDomain(subDomain1, first))
  BY <1>2
<1>4. \A d \in c .. first - 1 : ~containsForSubDomain(subDomain1, d)
  <2>. SUFFICES ASSUME NEW d \in c .. first - 1, containsForSubDomain(subDomain1, d)
       PROVE  FALSE
    OBVIOUS
  <2>1. d \in valid /\ d < first
    BY <1>1, <1>3
  <2>2. first <= d
    BY <1>2, <2>1
  <2>. QED
    BY <1>1, <1>3, <2>1, <2>2
<1> DEFINE Found(p) == /\ p[1] = End \/ containsForSubDomain(subDomain1, p[1])
                       /\ \A d \in c .. p[1] - 1 : ~containsForSubDomain(subDomain1, d)
           places == {<<d, 1>> : d \in c .. End}
<1>5. <<first, 1>> \in places /\ Found(<<first, 1>>)
  BY <1>3, <1>4
<1>6. NextValidEntity(c) = CHOOSE p \in places : Found(p)
  BY Zenon DEF NextValidEntity
<1>7. NextValidEntity(c) \in places /\ Found(NextValidEntity(c))
  <2>. HIDE DEF places, Found
  <2>. QED
    BY <1>5, <1>6
<1>8. PICK d \in c .. End : NextValidEntity(c) = <<d, 1>>
  BY <1>7
<1>9. <<d, 1>> \in Position
  <2>1. CASE d = End
    BY <1>1, <2>1
  <2>2. CASE d # End
    <3>1. d \in MeshCell
      BY <1>1, <2>2
    <3>2. Len(Faces[d]) + 1 \in Nat \ {0}
      BY <3>1 DEF MeshAssumption
    <3>. QED
      BY <3>1, <3>2, Positions
  <2>. QED
    BY <2>1, <2>2
<1>. QED
  BY <1>7, <1>8, <1>9

(* What is ahead of the places the loops of the search go through.         *)
LEMMA AheadOfEnd ==
  ASSUME MeshAssumption, NEW p \in Position, p[1] = End
  PROVE  Ahead(p) = {} /\ p = <<End, 1>>
BY Positions DEF Ahead

LEMMA AheadOfNextEntity ==
  ASSUME MeshAssumption, NEW c \in 1 .. End
  PROVE  Ahead(NextValidEntity(c)) =
           {i \in Intersection : /\ Facing(i) /\ c <= i[1]
                                 /\ containsForSubDomain(subDomain1, i[1])}
<1> DEFINE e == NextValidEntity(c)
<1>1. /\ e[1] \in c .. End /\ e[2] = 1
      /\ e[1] = End \/ containsForSubDomain(subDomain1, e[1])
      /\ \A d \in c .. e[1] - 1 : ~containsForSubDomain(subDomain1, d)
  BY NextEntity
<1>. HIDE DEF e
<1>2. ASSUME NEW i \in Intersection
      PROVE  (\/ i[1] = e[1] /\ e[2] <= i[2]
              \/ e[1] < i[1] /\ containsForSubDomain(subDomain1, i[1]))
             <=> c <= i[1] /\ containsForSubDomain(subDomain1, i[1])
  <2>1. i[1] \in 1 .. End - 1 /\ i[2] \in Nat \ {0} /\ End \in Nat
    BY Positions
  <2>. QED
    BY <1>1, <2>1
<1>3. Ahead(e) = {i \in Intersection : /\ Facing(i) /\ c <= i[1]
                                       /\ containsForSubDomain(subDomain1, i[1])}
  BY <1>2 DEF Ahead
<1>. QED
  BY <1>3 DEF e

LEMMA AheadOfCell ==
  ASSUME MeshAssumption, NEW p \in Position, p[1] # End, p[2] > Len(Faces[p[1]])
  PROVE  /\ p[1] + 1 \in 1 .. End
         /\ Ahead(p) = Ahead(NextValidEntity(p[1] + 1))
<1>1. p[1] \in MeshCell /\ p[1] \in 1 .. End - 1 /\ End \in Nat
  BY Positions
<1>2. p[1] + 1 \in 1 .. End
  BY <1>1
<1>3. ASSUME NEW i \in Intersection
      PROVE  (\/ i[1] = p[1] /\ p[2] <= i[2]
              \/ p[1] < i[1] /\ containsForSubDomain(subDomain1, i[1]))
             <=> p[1] + 1 <= i[1] /\ containsForSubDomain(subDomain1, i[1])
  <2>1. i[1] \in Nat /\ i[2] \in 1 .. Len(Faces[i[1]])
    BY Positions
  <2>2. ~(i[1] = p[1] /\ p[2] <= i[2])
    <3>1. Len(Faces[p[1]]) \in Nat /\ p[2] \in Nat
      BY <1>1, Positions
    <3>. QED
      BY <2>1, <3>1
  <2>3. p[1] < i[1] <=> p[1] + 1 <= i[1]
    BY <1>1, <2>1
  <2>. QED
    BY <2>2, <2>3
<1>4. Ahead(p) = {i \in Intersection : /\ Facing(i) /\ p[1] + 1 <= i[1]
                                       /\ containsForSubDomain(subDomain1, i[1])}
  BY <1>3 DEF Ahead
<1>. QED
  BY <1>2, <1>4, AheadOfNextEntity

LEMMA AheadOfFace ==
  ASSUME MeshAssumption, NEW p \in Position, p[1] # End, ~(p[2] > Len(Faces[p[1]]))
  PROVE  /\ p \in Intersection /\ <<p[1], p[2] + 1>> \in Position
         /\ Facing(p) => FirstOf(Ahead(p)) = p
         /\ ~Facing(p) => Ahead(p) = Ahead(<<p[1], p[2] + 1>>)
<1>1. /\ p[1] \in MeshCell /\ p[1] \in Nat /\ p[2] \in Nat \ {0} /\ p = <<p[1], p[2]>>
      /\ Len(Faces[p[1]]) \in Nat /\ p \in Intersection
      /\ p[2] + 1 \in 1 .. Len(Faces[p[1]]) + 1
  <2>1. p[1] \in MeshCell /\ p[1] \in 1 .. End /\ End \in Nat /\ p[2] \in Nat \ {0}
        /\ p = <<p[1], p[2]>> /\ Len(Faces[p[1]]) \in Nat
    BY Positions
  <2>2. p[2] <= Len(Faces[p[1]])
    BY <2>1
  <2>. QED
    BY <2>1, <2>2, Positions
<1>2. <<p[1], p[2] + 1>> \in Position
  BY <1>1, Positions
<1>3. \A i \in Intersection : i[1] \in Nat /\ i[2] \in Nat /\ i = <<i[1], i[2]>>
  BY Positions
<1>4. ASSUME Facing(p) PROVE FirstOf(Ahead(p)) = p
  <2>1. p \in Ahead(p)
    BY <1>1, <1>4 DEF Ahead
  <2>2. ASSUME NEW i \in Ahead(p) PROVE p = i \/ Before(p, i)
    <3>1. i \in Intersection /\ ((i[1] = p[1] /\ p[2] <= i[2]) \/ p[1] < i[1])
      BY DEF Ahead
    <3>2. i[2] = p[2] /\ i[1] = p[1] => p = i
      BY <1>1, <1>3, <3>1
    <3>. QED
      BY <1>1, <1>3, <3>1, <3>2 DEF Before
  <2>3. Ahead(p) \in SUBSET Intersection
    BY DEF Ahead
  <2>. QED
    BY <2>1, <2>2, <2>3, FirstIs
<1>5. ASSUME ~Facing(p) PROVE Ahead(p) = Ahead(<<p[1], p[2] + 1>>)
  <2>1. ASSUME NEW i \in Intersection, Facing(i)
        PROVE  i[1] = p[1] /\ p[2] <= i[2] <=> i[1] = p[1] /\ p[2] + 1 <= i[2]
    <3>1. ~(i[1] = p[1] /\ i[2] = p[2])
      BY <1>1, <1>3, <1>5, <2>1
    <3>. QED
      BY <1>1, <1>3, <3>1
  <2>. QED
    BY <2>1 DEF Ahead
<1>. QED
  BY <1>1, <1>2, <1>4, <1>5

(* The search finds the first of what is ahead.                            *)
SearchTurn(f, p) ==
  CASE p[1] = End -> p
    [] p[1] # End /\ p[2] > Len(Faces[p[1]]) -> f[NextValidEntity(p[1] + 1)]
    [] OTHER -> IF neighbor(p) /\ containsForSubDomain(subDomain2, outside(p))
                THEN p
                ELSE f[<<p[1], p[2] + 1>>]

Search(f) == [p \in Position |-> SearchTurn(f, p)]

LEMMA SearchCases ==
  ASSUME NEW f, NEW p \in Position
  PROVE  /\ p[1] = End => Search(f)[p] = p
         /\ p[1] # End /\ p[2] > Len(Faces[p[1]]) => Search(f)[p] = f[NextValidEntity(p[1] + 1)]
         /\ p[1] # End /\ ~(p[2] > Len(Faces[p[1]])) =>
              Search(f)[p] = IF Facing(p) THEN p ELSE f[<<p[1], p[2] + 1>>]
<1>1. Facing(p) <=> neighbor(p) /\ containsForSubDomain(subDomain2, outside(p))
  BY DEF Facing
<1>2. Search(f)[p] = SearchTurn(f, p)
  BY DEF Search
<1>. QED
  BY <1>1, <1>2 DEF SearchTurn

LEMMA SearchFindsFirst ==
  ASSUME MeshAssumption
  PROVE  \A p \in Position : NextValidPosition[p] = FirstOf(Ahead(p))
<1> DEFINE first == [p \in Position |-> FirstOf(Ahead(p))]
           next == CHOOSE f : f = Search(f)
<1>1. ASSUME NEW p \in Position, p[1] = End
      PROVE  FirstOf(Ahead(p)) = p
  BY <1>1, AheadOfEnd DEF FirstOf
<1>2. first = Search(first)
  <2>1. ASSUME NEW p \in Position PROVE Search(first)[p] = FirstOf(Ahead(p))
    <3>1. CASE p[1] = End
      BY <1>1, <3>1, SearchCases
    <3>2. CASE p[1] # End /\ p[2] > Len(Faces[p[1]])
      <4>1. /\ NextValidEntity(p[1] + 1) \in Position
            /\ Ahead(p) = Ahead(NextValidEntity(p[1] + 1))
        BY <3>2, AheadOfCell, NextEntity
      <4>2. Search(first)[p] = first[NextValidEntity(p[1] + 1)]
        BY <3>2, SearchCases
      <4>. QED
        BY <4>1, <4>2
    <3>3. CASE p[1] # End /\ ~(p[2] > Len(Faces[p[1]]))
      <4>1. Search(first)[p] = IF Facing(p) THEN p ELSE first[<<p[1], p[2] + 1>>]
        BY <3>3, SearchCases
      <4>. QED
        BY <3>3, <4>1, AheadOfFace
    <3>. QED
      BY <3>1, <3>2, <3>3
  <2>2. Search(first) = [p \in Position |-> Search(first)[p]]
    BY DEF Search
  <2>. QED
    BY <2>1, <2>2
<1>3. next = Search(next)
  <2>. HIDE DEF first
  <2>. QED
    BY <1>2, Zenon
<1>4. NextValidPosition = next
  BY Zenon DEF NextValidPosition, Search, SearchTurn
<1>. HIDE DEF next
<1> DEFINE wrong == {p \in Position : next[p] # FirstOf(Ahead(p))}
<1>5. wrong = {}
  <2>. SUFFICES ASSUME wrong # {} PROVE FALSE
    OBVIOUS
  <2>1. PICK p \in wrong : \A q \in wrong : ~Before(p, q)
    BY LastPosition
  <2>2. p \in Position /\ next[p] # FirstOf(Ahead(p)) /\ next[p] = Search(next)[p]
    BY <1>3
  <2>3. \A q \in Position : Before(p, q) => next[q] = FirstOf(Ahead(q))
    BY <2>1
  <2>4. p[1] \in Nat /\ p[2] \in Nat
    BY <2>2, Positions
  <2>5. CASE p[1] = End
    BY <1>1, <2>2, <2>5, SearchCases
  <2>6. CASE p[1] # End /\ p[2] > Len(Faces[p[1]])
    <3> DEFINE e == NextValidEntity(p[1] + 1)
    <3>1. e \in Position /\ Ahead(p) = Ahead(e) /\ e[1] \in p[1] + 1 .. End
      BY <2>2, <2>6, AheadOfCell, NextEntity
    <3>2. next[p] = next[e]
      BY <2>2, <2>6, SearchCases
    <3>. HIDE DEF e
    <3>3. Before(p, e)
      BY <2>4, <3>1 DEF Before
    <3>. QED
      BY <2>2, <2>3, <3>1, <3>2, <3>3
  <2>7. CASE p[1] # End /\ ~(p[2] > Len(Faces[p[1]]))
    <3>1. next[p] = IF Facing(p) THEN p ELSE next[<<p[1], p[2] + 1>>]
      BY <2>2, <2>7, SearchCases
    <3>2. Before(p, <<p[1], p[2] + 1>>)
      BY <2>4 DEF Before
    <3>. QED
      BY <2>2, <2>3, <2>7, <3>1, <3>2, AheadOfFace
  <2>. QED
    BY <2>5, <2>6, <2>7
<1>. QED
  BY <1>4, <1>5

-----------------------------------------------------------------------------
(* The loop.                                                               *)
LEMMA InterfaceIs ==
  ASSUME MeshAssumption
  PROVE  /\ InterfaceOf(subDomain1, subDomain2) =
              {i \in Intersection : Facing(i) /\ containsForSubDomain(subDomain1, i[1])}
         /\ \A i \in InterfaceOf(subDomain1, subDomain2) :
              i \in Position /\ i \in Intersection /\ i[1] # End /\ neighbor(i)
<1>1. InterfaceOf(subDomain1, subDomain2) =
        {i \in Intersection : Facing(i) /\ containsForSubDomain(subDomain1, i[1])}
  BY DEF InterfaceOf, Facing, containsForSubDomain, inside
<1>2. \A i \in Intersection : i \in Position /\ i[1] # End
  BY Positions
<1>. QED
  BY <1>1, <1>2 DEF Facing

LEMMA StartIs ==
  ASSUME MeshAssumption
  PROVE  StartPosition = FirstOf(InterfaceOf(subDomain1, subDomain2))
<1>1. 1 \in 1 .. End
  BY DEF MeshAssumption, End
<1>2. \A i \in Intersection : 1 <= i[1]
  BY Positions
<1>3. Ahead(NextValidEntity(1)) = InterfaceOf(subDomain1, subDomain2)
  BY <1>1, <1>2, AheadOfNextEntity, InterfaceIs
<1>4. NextValidEntity(1) \in Position
  BY <1>1, NextEntity
<1>. QED
  BY <1>3, <1>4, SearchFindsFirst DEF StartPosition

LEMMA MoveIs ==
  ASSUME MeshAssumption, NEW p \in InterfaceOf(subDomain1, subDomain2)
  PROVE  NextValidPosition[<<p[1], p[2] + 1>>] =
           FirstOf({i \in InterfaceOf(subDomain1, subDomain2) : Before(p, i)})
<1>1. /\ p \in Intersection /\ p \in Position /\ p[1] # End
      /\ containsForSubDomain(subDomain1, p[1])
  BY InterfaceIs
<1>2. /\ p[1] \in MeshCell /\ p[1] \in Nat
      /\ p[2] \in 1 .. Len(Faces[p[1]]) /\ Len(Faces[p[1]]) \in Nat
  BY <1>1, Positions
<1>3. p[2] + 1 \in 1 .. Len(Faces[p[1]]) + 1
  BY <1>2
<1>4. <<p[1], p[2] + 1>> \in Position
  BY <1>2, <1>3, Positions
<1>5. ASSUME NEW i \in Intersection
      PROVE  (\/ i[1] = p[1] /\ p[2] + 1 <= i[2]
              \/ p[1] < i[1] /\ containsForSubDomain(subDomain1, i[1]))
             <=> Before(p, i) /\ containsForSubDomain(subDomain1, i[1])
  <2>1. i[1] \in Nat /\ i[2] \in Nat /\ p[2] \in Nat
    BY <1>2, Positions
  <2>2. p[2] + 1 <= i[2] <=> p[2] < i[2]
    BY <2>1
  <2>. QED
    BY <1>1, <2>2 DEF Before
<1>6. Ahead(<<p[1], p[2] + 1>>) = {i \in InterfaceOf(subDomain1, subDomain2) : Before(p, i)}
  BY <1>5, InterfaceIs DEF Ahead
<1>. QED
  BY <1>4, <1>6, SearchFindsFirst

LEMMA LoopInit == MeshAssumption /\ Init => LoopInv
<1>. SUFFICES ASSUME MeshAssumption, Init PROVE LoopInv
  OBVIOUS
<1> DEFINE I == InterfaceOf(subDomain1, subDomain2)
<1>1. position = FirstOf(I) /\ visited = {} /\ revisited = {}
  BY StartIs DEF Init, Constructed
<1>2. I \in SUBSET Intersection /\ \A i \in I : i \in Position /\ i[1] # End
  BY InterfaceIs
<1>3. CASE I = {}
  <2>1. position = <<End, 1>>
    BY <1>1, <1>3 DEF FirstOf
  <2>. QED
    BY <1>1, <1>3, <2>1, Positions DEF LoopInv, VisitsInterface, AtEnd
<1>4. CASE I # {}
  <2>1. position \in I /\ \A i \in I : position = i \/ Before(position, i)
    BY <1>1, <1>2, <1>4, FirstIs
  <2>2. ~AtEnd /\ \A i \in I : ~Before(i, position)
    BY <1>2, <2>1, BeforeOrder DEF AtEnd
  <2>. QED
    BY <1>1, <1>2, <2>1, <2>2 DEF LoopInv, VisitsInterface
<1>. QED
  BY <1>3, <1>4

LEMMA LoopMoves ==
  ASSUME MeshAssumption, LoopInv, ~AtEnd,
         position' = NextValidPosition[<<position[1], position[2] + 1>>],
         Visit, UNCHANGED controller
  PROVE  LoopInv'
<1> DEFINE I == InterfaceOf(subDomain1, subDomain2)
           rest == {i \in I : Before(position, i)}
<1>1. /\ position \in I /\ visited \subseteq I /\ revisited = {}
      /\ \A i \in I : i \in visited <=> Before(i, position)
  BY DEF LoopInv, VisitsInterface
<1>2. I \in SUBSET Intersection /\ \A i \in I : i \in Position /\ i[1] # End
  BY InterfaceIs
<1>3. position \notin visited
  BY <1>1, <1>2, BeforeOrder
<1>4. visited' = visited \cup {position} /\ revisited' = {}
  BY <1>1, <1>3 DEF Visit
<1>5. InterfaceOf(subDomain1, subDomain2)' = I
  BY DEF controller, InterfaceOf
<1>6. position' = FirstOf(rest) /\ rest \in SUBSET Intersection
  BY <1>1, <1>2, MoveIs
<1>7. \A i \in I : i \in visited' <=> ~Before(position, i)
  BY <1>1, <1>2, <1>4, BeforeOrder
<1>. HIDE DEF rest
<1>8. CASE rest = {}
  <2>1. position' = <<End, 1>>
    BY <1>6, <1>8 DEF FirstOf
  <2>2. \A i \in I : i \in visited'
    BY <1>7, <1>8 DEF rest
  <2>3. AtEnd' /\ position' \in Position
    BY <2>1, Positions DEF AtEnd
  <2>. QED
    BY <1>1, <1>4, <1>5, <2>2, <2>3 DEF LoopInv, VisitsInterface, Position
<1>9. CASE rest # {}
  <2>1. position' \in rest /\ \A i \in rest : position' = i \/ Before(position', i)
    BY <1>6, <1>9, FirstIs
  <2>2. position' \in I /\ Before(position, position')
    BY <2>1 DEF rest
  <2>3. ASSUME NEW i \in I PROVE i \in visited' <=> Before(i, position')
    <3>1. CASE Before(position, i)
      <4>1. position' = i \/ Before(position', i)
        BY <2>1, <3>1 DEF rest
      <4>. QED
        BY <1>2, <1>7, <2>2, <3>1, <4>1, BeforeOrder
    <3>2. CASE ~Before(position, i)
      <4>1. i = position \/ Before(i, position)
        BY <1>1, <1>2, <3>2, BeforeOrder
      <4>2. i[1] \in Nat /\ i[2] \in Nat /\ position[1] \in Nat /\ position[2] \in Nat
            /\ position'[1] \in Nat /\ position'[2] \in Nat
        BY <1>1, <1>2, <2>2, Positions
      <4>3. Before(i, position')
        BY <2>2, <4>1, <4>2 DEF Before
      <4>. QED
        BY <1>7, <3>2, <4>3
    <3>. QED
      BY <3>1, <3>2
  <2>4. ~AtEnd' /\ position' \in Position
    BY <1>2, <2>2 DEF AtEnd
  <2>. QED
    BY <1>1, <1>4, <1>5, <2>2, <2>3, <2>4 DEF LoopInv, VisitsInterface, Position
<1>. QED
  BY <1>8, <1>9

LEMMA LoopStands ==
  ASSUME LoopInv, UNCHANGED <<controller, position, history>>
  PROVE  LoopInv'
BY DEF LoopInv, VisitsInterface, controller, history, AtEnd, InterfaceOf, Position

LEMMA LoopStep == MeshAssumption /\ LoopInv /\ [Next]_vars => LoopInv'
<1>. SUFFICES ASSUME MeshAssumption, LoopInv, [Next]_vars PROVE LoopInv'
  OBVIOUS
<1>1. CASE Increment
  BY <1>1, LoopMoves DEF Increment
<1>2. CASE IntersectionOfFirst
  BY <1>2, LoopStands DEF IntersectionOfFirst
<1>3. CASE IntersectionOfSecond
  BY <1>3, LoopStands DEF IntersectionOfSecond
<1>4. CASE SubDomainIntersection
  BY <1>4, LoopStands DEF SubDomainIntersection
<1>5. CASE UNCHANGED vars
  BY <1>5, LoopStands DEF vars, controller, history
<1>. QED
  BY <1>1, <1>2, <1>3, <1>4, <1>5 DEF Next, CallerNext, Finished

-----------------------------------------------------------------------------
(* The two sides of an intersection.                                       *)

(* The search for the other side finds the place the host reports.         *)
LEMMA InverseIs ==
  ASSUME MeshAssumption, NEW i \in Intersection, neighbor(i)
  PROVE  Inverse(i) = <<outside(i), indexInOutside(i)>>
<1>1. /\ i[1] \in MeshCell /\ i[2] \in DOMAIN Faces[i[1]] /\ Faces[i[1]][i[2]] # Outer
  BY Positions DEF neighbor, MeshAssumption
<1>2. PICK d : d = outside(i)
  OBVIOUS
<1>3. PICK g \in DOMAIN Faces[d] : Faces[d][g] = inside(i)
  BY <1>1, <1>2 DEF MeshAssumption, outside, inside
<1>4. d \in MeshCell /\ inside(i) \in MeshCell /\ inside(i) # Outer
  BY <1>1, <1>2 DEF MeshAssumption, outside, inside, MeshCell, Outer
<1>5. \A h \in DOMAIN Faces[d] : Faces[d][h] = inside(i) => h = g
  BY <1>3, <1>4 DEF MeshAssumption
<1>6. DOMAIN Faces[d] = 1 .. Len(Faces[d]) /\ Len(Faces[d]) \in Nat
  BY <1>4 DEF MeshAssumption
<1>7. indexInOutside(i) = g
  BY <1>2, <1>3, <1>5 DEF indexInOutside
<1> DEFINE sides == {<<d, h>> : h \in DOMAIN Faces[d]}
           Back(j) == /\ outside(j) = inside(i)
                      /\ \A h \in 1 .. j[2] - 1 : Faces[j[1]][h] # inside(i)
<1>8. <<d, g>> \in sides /\ Back(<<d, g>>)
  <2>1. \A h \in 1 .. g - 1 : h \in DOMAIN Faces[d] /\ h # g
    BY <1>3, <1>6
  <2>. QED
    BY <1>3, <1>5, <2>1 DEF outside
<1>9. ASSUME NEW j \in sides, Back(j) PROVE j = <<d, g>>
  <2>1. PICK h \in DOMAIN Faces[d] : j = <<d, h>>
    OBVIOUS
  <2>2. Faces[d][h] = inside(i)
    BY <1>9, <2>1 DEF outside
  <2>. QED
    BY <1>5, <2>1, <2>2
<1>10. Inverse(i) = CHOOSE j \in sides : Back(j)
  BY <1>2, Zenon DEF Inverse
<1>. HIDE DEF sides, Back
<1>11. Inverse(i) = <<d, g>>
  BY <1>8, <1>9, <1>10
<1>. QED
  BY <1>2, <1>7, <1>11

LEMMA PresentInverse ==
  ASSUME MeshAssumption, LoopInv, ~AtEnd
  PROVE  /\ position = <<inside(position), position[2]>>
         /\ Inverse(position) = <<outside(position), indexInOutside(position)>>
<1>1. position \in InterfaceOf(subDomain1, subDomain2)
  BY DEF LoopInv, VisitsInterface
<1>2. position \in Intersection /\ neighbor(position) /\ position \in Position
  BY <1>1, InterfaceIs
<1>. QED
  BY <1>2, InverseIs, Positions DEF inside

LEMMA SideInit == MeshAssumption /\ Init => SideInv
BY LoopInit DEF Init, Constructed, SideInv, OwnSide

LEMMA SideStep == MeshAssumption /\ SideInv /\ [CallerNext]_vars => SideInv'
<1>. SUFFICES ASSUME MeshAssumption, SideInv, [CallerNext]_vars PROVE SideInv'
  OBVIOUS
<1>1. LoopInv'
  BY LoopStep DEF SideInv, Next
<1>2. CASE Increment
  BY <1>1, <1>2 DEF Increment, SideInv, OwnSide
<1>3. CASE IntersectionOfFirst
  <2>1. handedOut' = {[to |-> subDomain1, intersection |-> position]} /\ position' = position
        /\ subDomain1' = subDomain1 /\ subDomain2' = subDomain2
    BY <1>3 DEF IntersectionOfFirst, controller
  <2>2. position = <<inside(position), position[2]>>
    BY <1>3, PresentInverse DEF SideInv, IntersectionOfFirst
  <2>3. OwnSide'
    BY <2>1, <2>2 DEF OwnSide, Interface, inside
  <2>. QED
    BY <1>1, <1>3, <2>3 DEF SideInv, IntersectionOfFirst, Inverse, outside, inside
<1>4. CASE IntersectionOfSecond
  <2>1. /\ inverse' = Inverse(position) /\ position' = position
        /\ handedOut' = {[to |-> subDomain2, intersection |-> Inverse(position)]}
        /\ subDomain1' = subDomain1 /\ subDomain2' = subDomain2
    BY <1>4 DEF IntersectionOfSecond, SideInv, controller
  <2>2. Inverse(position) = <<outside(position), indexInOutside(position)>>
    BY <1>4, PresentInverse DEF SideInv, IntersectionOfSecond
  <2>3. OwnSide'
    BY <2>1, <2>2 DEF OwnSide, Interface, outside, indexInOutside, inside
  <2>. QED
    BY <1>1, <2>1, <2>3 DEF SideInv, Inverse, outside, inside
<1>5. CASE inverseValid /\ SubDomainIntersection
  <2>1. /\ inverse = Inverse(position) /\ position' = position
        /\ handedOut' = {[to |-> subDomain2, intersection |-> Inverse(position)]}
        /\ subDomain1' = subDomain1 /\ subDomain2' = subDomain2
        /\ inverse' = inverse
    BY <1>5 DEF SubDomainIntersection, SideInv, controller
  <2>2. Inverse(position) = <<outside(position), indexInOutside(position)>>
    BY <1>5, PresentInverse DEF SideInv, SubDomainIntersection
  <2>3. OwnSide'
    BY <2>1, <2>2 DEF OwnSide, Interface, outside, indexInOutside, inside
  <2>. QED
    BY <1>1, <2>1, <2>3 DEF SideInv, Inverse, outside, inside
<1>6. CASE UNCHANGED vars
  BY <1>1, <1>6 DEF vars, SideInv, OwnSide, Interface, Inverse, outside, inside, indexInOutside
<1>. QED
  BY <1>2, <1>3, <1>4, <1>5, <1>6 DEF CallerNext, Finished

-----------------------------------------------------------------------------
(* The iterator (subdomaininterfaceiterator.hh 52-60, 132-160, 293-297)    *)
(* shows every intersection of the interface once and no other.            *)
THEOREM EveryInterfaceVisited ==
  ASSUME MeshAssumption PROVE Spec => []VisitsInterface
<1>1. LoopInv => VisitsInterface
  BY DEF LoopInv
<1>2. Init => LoopInv
  BY LoopInit
<1>3. LoopInv /\ [Next]_vars => LoopInv'
  BY LoopStep
<1>. QED
  BY <1>1, <1>2, <1>3, PTL DEF Spec

(* The intersections handed out for the two subdomains are the present     *)
(* one, each from its own side (findInverseHostIntersection(), clear()).   *)
THEOREM OwnSideAlways ==
  ASSUME MeshAssumption PROVE CallerSpec => []OwnSide
<1>1. SideInv => OwnSide
  BY DEF SideInv
<1>2. Init => SideInv
  BY SideInit
<1>3. SideInv /\ [CallerNext]_vars => SideInv'
  BY SideStep
<1>. QED
  BY <1>1, <1>2, <1>3, PTL DEF CallerSpec

-----------------------------------------------------------------------------
(* The loop over all interfaces, on the same mesh.                         *)
VARIABLES interfacing2, iterator1, iterator2

All == INSTANCE AllSubDomainInterfaces

-----------------------------------------------------------------------------
(* Numbers in their order.                                                 *)
LEMMA Smallest ==
  ASSUME NEW S \in SUBSET Nat, S # {}
  PROVE  All!Min(S) \in S /\ \A y \in S : All!Min(S) <= y
<1>1. \E x \in S : \A y \in S : x <= y
  BY LeastNatural
<1>. QED
  BY <1>1 DEF All!Min

(* An iterator that stands at the smallest of T has passed what is smaller *)
(* in S.                                                                   *)
LEMMA PassedIs ==
  ASSUME NEW S \in SUBSET Nat, NEW T \in SUBSET S, T # {},
         \A x \in S \ T : x < All!Min(T)
  PROVE  /\ All!Passed(T) \in SUBSET S
         /\ All!Passed(T) = {} => \A x \in S : x <= All!Min(T)
         /\ All!Passed(T) # {} =>
              /\ \A x \in S \ All!Passed(T) : x < All!Min(All!Passed(T))
              /\ \A x \in S : x < All!Min(All!Passed(T)) <=> x <= All!Min(T)
<1> DEFINE m == All!Min(T)
           P == All!Passed(T)
           n == All!Min(P)
<1>1. P = T \ {m}
  BY DEF All!Passed
<1>2. m \in T /\ \A y \in T : m <= y
  BY Smallest
<1>3. P # {} => n \in P /\ \A y \in P : n <= y
  <2>1. P \in SUBSET Nat
    BY <1>1
  <2>. QED
    BY <2>1, Smallest
<1>4. m \in Nat /\ \A x \in S : x \in Nat
  BY <1>2
<1>. HIDE DEF m, P, n
<1>5. \A x \in S : x <= m \/ x \in P
  BY <1>1, <1>4 DEF m
<1>6. \A x \in P : m < x
  BY <1>1, <1>2, <1>4
<1>7. ASSUME P # {}, NEW x \in S PROVE x < n <=> x <= m
  <2>1. n \in P /\ n \in Nat /\ m < n
    BY <1>1, <1>3, <1>4, <1>6, <1>7
  <2>2. x \in P => ~(x < n)
    BY <1>3, <1>4, <1>7, <2>1
  <2>. QED
    BY <1>4, <1>5, <2>1, <2>2
<1>8. P # {} => \A x \in S \ P : x < n
  BY <1>5, <1>7
<1>. QED
  BY <1>1, <1>5, <1>7, <1>8 DEF m, P, n

-----------------------------------------------------------------------------
(* The search for the next cell whose first intersection shows something.  *)
LEMMA AllMesh ==
  /\ All!MeshAssumption <=> MeshAssumption
  /\ All!End = End /\ All!MeshCell = MeshCell /\ All!Intersection = Intersection
BY DEF All!MeshAssumption, MeshAssumption, All!End, End, All!MeshCell, MeshCell,
   All!Intersection, Intersection, All!Outer, Outer

Shows(c) == All!HasInterfaces(<<c, 1>>)

NextCell(c) ==
  CHOOSE d \in c + 1 .. End : /\ d = End \/ Shows(d)
                              /\ \A b \in c + 1 .. d - 1 : ~Shows(b)

LEMMA NextCellIs ==
  ASSUME MeshAssumption, NEW c \in 0 .. End - 1
  PROVE  /\ NextCell(c) \in c + 1 .. End
         /\ NextCell(c) = End \/ Shows(NextCell(c))
         /\ \A b \in c + 1 .. NextCell(c) - 1 : ~Shows(b)
         /\ \A d \in c + 1 .. End :
              (d = End \/ Shows(d)) /\ (\A b \in c + 1 .. d - 1 : ~Shows(b)) => NextCell(c) = d
<1> DEFINE Stop(d) == d = End \/ Shows(d)
           First(d) == Stop(d) /\ \A b \in c + 1 .. d - 1 : ~Shows(b)
           stops == {d \in c + 1 .. End : Stop(d)}
<1>1. End \in Nat
  BY Positions
<1>2. PICK d \in stops : \A b \in stops : d <= b
  <2>1. End \in stops /\ stops \in SUBSET Nat
    BY <1>1
  <2>. HIDE DEF stops
  <2>. QED
    BY <2>1, LeastNatural
<1>3. d \in c + 1 .. End /\ First(d)
  <2>1. ASSUME NEW b \in c + 1 .. d - 1, Shows(b) PROVE FALSE
    <3>1. b \in stops /\ b < d
      BY <1>1, <1>2, <2>1
    <3>2. d <= b /\ d \in Nat
      BY <1>1, <1>2, <3>1
    <3>. QED
      BY <3>1, <3>2, <2>1
  <2>. QED
    BY <1>2, <2>1
<1>4. ASSUME NEW e \in c + 1 .. End, First(e) PROVE e = d
  <2>1. e \in stops /\ d <= e
    BY <1>2, <1>4
  <2>2. ~(d < e)
    <3>. SUFFICES ASSUME d < e PROVE FALSE
      OBVIOUS
    <3>1. d \in c + 1 .. e - 1 /\ d # End
      BY <1>1, <1>3
    <3>. QED
      BY <1>3, <1>4, <3>1
  <2>. QED
    BY <1>1, <1>3, <2>1, <2>2
<1>5. NextCell(c) = CHOOSE e \in c + 1 .. End : First(e)
  BY Zenon DEF NextCell
<1>6. NextCell(c) = d
  <2>. HIDE DEF First
  <2>. QED
    BY <1>3, <1>4, <1>5
<1>. QED
  BY <1>3, <1>4, <1>6

LEMMA NextCellSkips ==
  ASSUME MeshAssumption, NEW c \in 0 .. End - 1
  PROVE  /\ c = End - 1 => NextCell(c) = End
         /\ c # End - 1 /\ Shows(c + 1) => NextCell(c) = c + 1
         /\ c # End - 1 /\ ~Shows(c + 1) => NextCell(c) = NextCell(c + 1)
<1>1. End \in Nat
  BY Positions
<1>2. CASE c = End - 1
  <2>1. NextCell(c) \in c + 1 .. End
    BY NextCellIs
  <2>. QED
    BY <1>1, <1>2, <2>1
<1>3. ASSUME c # End - 1, Shows(c + 1) PROVE NextCell(c) = c + 1
  <2>1. c + 1 \in c + 1 .. End /\ \A b \in c + 1 .. (c + 1) - 1 : ~Shows(b)
    BY <1>1, <1>3
  <2>. QED
    BY <1>3, <2>1, NextCellIs
<1>4. ASSUME c # End - 1, ~Shows(c + 1) PROVE NextCell(c) = NextCell(c + 1)
  <2> DEFINE d == NextCell(c + 1)
  <2>1. c + 1 \in 0 .. End - 1
    BY <1>1, <1>4
  <2>2. /\ d \in c + 2 .. End /\ (d = End \/ Shows(d))
        /\ \A b \in c + 2 .. d - 1 : ~Shows(b)
    BY <2>1, NextCellIs
  <2>. HIDE DEF d
  <2>3. d \in c + 1 .. End
    BY <1>1, <2>2
  <2>4. \A b \in c + 1 .. d - 1 : b = c + 1 \/ b \in c + 2 .. d - 1
    BY <1>1, <2>2
  <2>5. \A b \in c + 1 .. d - 1 : ~Shows(b)
    BY <1>4, <2>2, <2>4
  <2>6. NextCell(c) = d
    BY <2>2, <2>3, <2>5, NextCellIs
  <2>. QED
    BY <2>6 DEF d
<1>. QED
  BY <1>2, <1>3, <1>4

(* incrementToNextValidIntersection() comes to that cell.                  *)
Turn(f) ==
  [i \in All!NotLast |->
     IF i[1] = CellCount THEN <<All!End, 1>>
     ELSE IF All!HasInterfaces(<<i[1] + 1, 1>>)
          THEN <<i[1] + 1, 1>>
          ELSE f[<<i[1] + 1, 1>>]]

LEMMA NotLastAre ==
  ASSUME MeshAssumption
  PROVE  /\ \A c \in MeshCell : <<c, 1>> \in All!NotLast
         /\ \A i \in All!NotLast : i[1] \in MeshCell /\ i[1] \in 0 .. End - 1
         /\ End \in Nat /\ CellCount = End - 1 /\ MeshCell = 1 .. End - 1
<1>1. End \in Nat /\ CellCount = End - 1 /\ MeshCell = 1 .. End - 1
  BY Positions DEF End, MeshAssumption
<1>2. ASSUME NEW c \in MeshCell PROVE <<c, 1>> \in All!NotLast
  <2>1. Len(Faces[c]) > 1 /\ 1 \in DOMAIN Faces[c]
    BY DEF MeshAssumption
  <2>2. <<c, 1>> \in Intersection
    BY <2>1 DEF Intersection
  <2>. QED
    BY <2>1, <2>2, AllMesh DEF All!NotLast
<1>3. \A i \in All!NotLast : i[1] \in MeshCell
  BY Positions, AllMesh DEF All!NotLast
<1>. QED
  BY <1>1, <1>2, <1>3

LEMMA SearchIsNextCell ==
  ASSUME MeshAssumption
  PROVE  \A c \in MeshCell : All!NextValidIntersection[<<c, 1>>] = <<NextCell(c), 1>>
<1> DEFINE found == [i \in All!NotLast |-> <<NextCell(i[1]), 1>>]
           next == CHOOSE f : f = Turn(f)
<1>1. ASSUME NEW f, NEW i \in All!NotLast,
             i[1] # End - 1 => f[<<i[1] + 1, 1>>] = <<NextCell(i[1] + 1), 1>>
      PROVE  Turn(f)[i] = <<NextCell(i[1]), 1>>
  <2>1. i[1] \in 0 .. End - 1 /\ CellCount = End - 1
    BY NotLastAre
  <2>2. Turn(f)[i] = IF i[1] = End - 1 THEN <<End, 1>>
                     ELSE IF Shows(i[1] + 1) THEN <<i[1] + 1, 1>> ELSE f[<<i[1] + 1, 1>>]
    BY <2>1, AllMesh DEF Turn, Shows
  <2>. QED
    BY <1>1, <2>1, <2>2, NextCellSkips
<1>2. ASSUME NEW i \in All!NotLast, i[1] # End - 1
      PROVE  <<i[1] + 1, 1>> \in All!NotLast
  <2>1. i[1] + 1 \in MeshCell
    BY <1>2, NotLastAre
  <2>. QED
    BY <2>1, NotLastAre
<1>3. found = Turn(found)
  <2>1. ASSUME NEW i \in All!NotLast PROVE Turn(found)[i] = <<NextCell(i[1]), 1>>
    BY <1>1, <1>2
  <2>. QED
    BY <2>1 DEF Turn
<1>4. next = Turn(next)
  <2>. HIDE DEF found
  <2>. QED
    BY <1>3, Zenon
<1>5. All!NextValidIntersection = next
  BY Zenon DEF All!NextValidIntersection, Turn
<1>. HIDE DEF next, found
<1> DEFINE wrong == {n \in Nat : \E i \in All!NotLast : /\ n = End - i[1]
                                                         /\ next[i] # <<NextCell(i[1]), 1>>}
<1>6. wrong = {}
  <2>. SUFFICES ASSUME wrong # {} PROVE FALSE
    OBVIOUS
  <2>1. PICK n \in wrong : \A m \in wrong : n <= m
    <3>1. wrong \in SUBSET Nat
      OBVIOUS
    <3>. HIDE DEF wrong
    <3>. QED
      BY <3>1, LeastNatural
  <2>2. PICK i \in All!NotLast : n = End - i[1] /\ next[i] # <<NextCell(i[1]), 1>>
    BY <2>1
  <2>3. next[i] = Turn(next)[i]
    BY <1>4
  <2>4. i[1] # End - 1 => next[<<i[1] + 1, 1>>] = <<NextCell(i[1] + 1), 1>>
    <3>. SUFFICES ASSUME i[1] # End - 1, next[<<i[1] + 1, 1>>] # <<NextCell(i[1] + 1), 1>>
         PROVE  FALSE
      OBVIOUS
    <3>1. <<i[1] + 1, 1>> \in All!NotLast /\ i[1] \in 0 .. End - 1 /\ End \in Nat
      BY <1>2, NotLastAre
    <3>2. End - (i[1] + 1) \in Nat /\ End - (i[1] + 1) < n
      BY <2>2, <3>1
    <3>3. End - (i[1] + 1) \in wrong
      BY <3>1, <3>2
    <3>. QED
      BY <2>1, <3>2, <3>3
  <2>. QED
    BY <1>1, <2>2, <2>3, <2>4
<1>7. \A i \in All!NotLast : next[i] = <<NextCell(i[1]), 1>>
  <2>1. \A i \in All!NotLast : End - i[1] \in Nat
    BY NotLastAre
  <2>. QED
    BY <1>6, <2>1
<1>. QED
  BY <1>5, <1>7, NotLastAre

LEMMA StartIsNextCell ==
  ASSUME MeshAssumption
  PROVE  All!StartPosition = <<NextCell(0), 1>>
<1>1. 1 \in MeshCell /\ 0 \in 0 .. End - 1 /\ End \in Nat
  BY DEF MeshAssumption, MeshCell, End
<1>2. All!StartPosition = IF Shows(1) THEN <<1, 1>> ELSE <<NextCell(1), 1>>
  BY <1>1, SearchIsNextCell DEF All!StartPosition, Shows
<1>3. 0 # End - 1
  BY DEF MeshAssumption, End
<1>. QED
  BY <1>1, <1>2, <1>3, NextCellSkips

-----------------------------------------------------------------------------
(* The triples that the loop shows.                                        *)
Shown == UNION {All!InterfacesAt(i) : i \in All!Inspected}

LEMMA InspectedAre ==
  ASSUME MeshAssumption
  PROVE  /\ \A i \in All!Inspected : /\ i = <<i[1], 1>> /\ i[1] \in MeshCell /\ i[1] \in Nat
                                     /\ i[2] = 1 /\ i[1] < End
                                     /\ All!outside(i) \in MeshCell /\ All!inside(i) \in MeshCell
         /\ \A c \in MeshCell : Shows(c) => <<c, 1>> \in All!Inspected
<1>1. ASSUME NEW i \in All!Inspected
      PROVE  /\ i = <<i[1], 1>> /\ i[1] \in MeshCell /\ i[1] \in Nat /\ i[2] = 1 /\ i[1] < End
             /\ All!outside(i) \in MeshCell /\ All!inside(i) \in MeshCell
  <2>1. i \in Intersection /\ i[2] = 1 /\ Faces[i[1]][i[2]] # Outer
    BY AllMesh DEF All!Inspected, All!neighbor, All!Outer, Outer
  <2>2. /\ i = <<i[1], i[2]>> /\ i[1] \in MeshCell /\ i[2] \in 1 .. Len(Faces[i[1]])
        /\ i[1] \in 1 .. End - 1
    BY <2>1, Positions
  <2>3. Faces[i[1]][i[2]] \in MeshCell
    BY <2>1, <2>2 DEF MeshAssumption
  <2>. QED
    BY <2>1, <2>2, <2>3, Positions DEF All!outside, All!inside
<1>2. ASSUME NEW c \in MeshCell, Shows(c) PROVE <<c, 1>> \in All!Inspected
  <2>1. 1 \in DOMAIN Faces[c]
    BY DEF MeshAssumption
  <2>. QED
    BY <1>2, <2>1, AllMesh DEF Shows, All!HasInterfaces, All!Inspected, Intersection
<1>. QED
  BY <1>1, <1>2

LEMMA ShownAre ==
  ASSUME MeshAssumption, SubDomain \subseteq Nat, subDomains \in [MeshCell -> SUBSET SubDomain]
  PROVE  /\ \A i \in All!Inspected : All!Interfacing1(i) \in SUBSET Nat
                                     /\ All!Interfacing2(i) \in SUBSET Nat
         /\ \A i \in All!Inspected : \A s \in All!Interfacing1(i), t \in All!Interfacing2(i) :
              <<i, s, t>> \in All!InterfacesAt(i)
         /\ \A a \in Shown : /\ a = <<a[1], a[2], a[3]>> /\ a[1] \in All!Inspected
                             /\ a[2] \in All!Interfacing1(a[1]) /\ a[3] \in All!Interfacing2(a[1])
                             /\ Shows(a[1][1])
<1>1. ASSUME NEW i \in All!Inspected
      PROVE  /\ All!Interfacing1(i) \in SUBSET SubDomain
             /\ All!Interfacing2(i) \in SUBSET SubDomain
  BY InspectedAre DEF All!Interfacing1, All!Interfacing2
<1>2. ASSUME NEW i \in All!Inspected
      PROVE  All!InterfacesAt(i) =
               {<<i, s, t>> : s \in All!Interfacing1(i), t \in All!Interfacing2(i)}
  <2>1. /\ All!Interfacing1(i) = {s \in SubDomain : /\ s \in subDomains[All!inside(i)]
                                                    /\ s \notin subDomains[All!outside(i)]}
        /\ All!Interfacing2(i) = {t \in SubDomain : /\ t \in subDomains[All!outside(i)]
                                                    /\ t \notin subDomains[All!inside(i)]}
    BY <1>1 DEF All!Interfacing1, All!Interfacing2
  <2>. QED
    BY <2>1 DEF All!InterfacesAt
<1>3. ASSUME NEW a \in Shown
      PROVE  /\ a = <<a[1], a[2], a[3]>> /\ a[1] \in All!Inspected
             /\ a[2] \in All!Interfacing1(a[1]) /\ a[3] \in All!Interfacing2(a[1])
             /\ Shows(a[1][1])
  <2>1. PICK i \in All!Inspected : a \in All!InterfacesAt(i)
    BY DEF Shown
  <2>2. PICK s \in All!Interfacing1(i), t \in All!Interfacing2(i) : a = <<i, s, t>>
    BY <1>2, <2>1
  <2>3. i = <<i[1], 1>>
    BY InspectedAre
  <2>4. All!HasInterfaces(i)
    BY <2>2 DEF All!HasInterfaces, All!Inspected
  <2>5. All!HasInterfaces(<<i[1], 1>>)
    BY <2>3, <2>4
  <2>. QED
    BY <2>2, <2>5 DEF Shows
<1>4. ASSUME NEW i \in All!Inspected,
             NEW s \in All!Interfacing1(i), NEW t \in All!Interfacing2(i)
      PROVE  <<i, s, t>> \in All!InterfacesAt(i)
  BY <1>2
<1>. QED
  BY <1>1, <1>3, <1>4

LEMMA ShownStays ==
  ASSUME UNCHANGED subDomains
  PROVE  Shown' = Shown /\ \A i : All!InterfacesAt(i)' = All!InterfacesAt(i)
BY DEF Shown, All!InterfacesAt

(* A step of the loop, to the triple behind the present one or to the end. *)
LEMMA Advance ==
  ASSUME MeshAssumption, SubDomain \subseteq Nat, All!PairsInv, ~All!AtEnd,
         All!Increment,
         ~All!AtEnd' => All!Here' \in All!InterfacesAt(position'),
         \A a \in Shown : All!AtEnd' \/ All!Earlier(a, All!Here)'
                            <=> a = All!Here \/ All!Earlier(a, All!Here)
  PROVE  All!VisitsInspected'
<1>1. /\ All!Here \in All!InterfacesAt(position) /\ position \in All!Inspected
      /\ \A a \in Shown : a \in visited <=> All!Earlier(a, All!Here)
      /\ visited \subseteq Shown /\ revisited = {}
      /\ subDomains \in [MeshCell -> SUBSET SubDomain]
  BY AllMesh DEF All!PairsInv, All!VisitsInspected, Shown, All!AtEnd
<1>2. All!Here \in Shown
  BY <1>1 DEF Shown
<1>3. All!Here \notin visited
  <2>1. ~All!Earlier(All!Here, All!Here)
    <3>1. /\ All!Here[1][1] \in Nat /\ All!Here[1][2] \in Nat
          /\ All!Here[2] \in Nat /\ All!Here[3] \in Nat
      BY <1>1, <1>2, ShownAre, InspectedAre
    <3>. QED
      BY <3>1 DEF All!Earlier, All!Before
  <2>. QED
    BY <1>1, <1>2, <2>1
<1>4. visited' = visited \cup {All!Here} /\ revisited' = {} /\ subDomains' = subDomains
  BY <1>1, <1>3 DEF All!Increment
<1>5. Shown' = Shown /\ \A i : All!InterfacesAt(i)' = All!InterfacesAt(i)
  BY <1>4, ShownStays
<1>6. \A a \in Shown : a \in visited' <=> All!AtEnd' \/ All!Earlier(a, All!Here)'
  BY <1>1, <1>4
<1>7. visited' \subseteq Shown
  BY <1>1, <1>2, <1>4
<1>8. ~All!AtEnd' => All!Here' \in All!InterfacesAt(position)'
  BY <1>5
<1>. QED
  BY <1>4, <1>5, <1>6, <1>7, <1>8 DEF All!VisitsInspected, Shown, All!Inspected

(* Arriving at a cell that has something to show, or at the end.           *)
LEMMA Arrive ==
  ASSUME MeshAssumption, SubDomain \subseteq Nat, subDomains \in [MeshCell -> SUBSET SubDomain],
         NEW c \in 0 .. End - 1, NEW p, p = <<NextCell(c), 1>>
  PROVE  /\ p[1] = End => /\ p = <<End, 1>> /\ \A a \in Shown : a[1][1] <= c
         /\ p[1] # End =>
              /\ p \in All!Inspected
              /\ All!Interfacing1(p) # {} /\ All!Interfacing2(p) # {}
              /\ LET here == <<p, All!Min(All!Interfacing1(p)), All!Min(All!Interfacing2(p))>>
                 IN  /\ here \in All!InterfacesAt(p)
                     /\ \A a \in Shown : All!Earlier(a, here) <=> a[1][1] <= c
<1>1. p[1] = NextCell(c) /\ p[1] \in c + 1 .. End /\ (p[1] = End \/ Shows(p[1]))
      /\ \A b \in c + 1 .. p[1] - 1 : ~Shows(b)
  BY NextCellIs
<1>2. \A a \in Shown : a[1][1] \in MeshCell /\ a[1][1] \in Nat /\ a[1][1] < End
                       /\ Shows(a[1][1]) /\ a[1] = <<a[1][1], 1>> /\ a[1][2] = 1
  BY ShownAre, InspectedAre
<1>3. \A a \in Shown : a[1][1] < p[1] <=> a[1][1] <= c
  <2>1. End \in Nat
    BY Positions
  <2>2. \A a \in Shown : ~(a[1][1] \in c + 1 .. p[1] - 1)
    BY <1>1, <1>2
  <2>. QED
    BY <1>1, <1>2, <2>1, <2>2
<1>4. CASE p[1] = End
  BY <1>2, <1>3, <1>4
<1>5. CASE p[1] # End
  <2> DEFINE s == All!Min(All!Interfacing1(p))
             t == All!Min(All!Interfacing2(p))
  <2>1. p[1] \in MeshCell /\ Shows(p[1]) /\ p = <<p[1], 1>>
    BY <1>1, <1>5, NotLastAre
  <2>2. p \in All!Inspected /\ All!Interfacing1(p) # {} /\ All!Interfacing2(p) # {}
    BY <2>1, InspectedAre DEF Shows, All!HasInterfaces
  <2>3. /\ s \in All!Interfacing1(p) /\ t \in All!Interfacing2(p) /\ s \in Nat /\ t \in Nat
        /\ \A x \in All!Interfacing1(p) : s <= x /\ x \in Nat
        /\ \A y \in All!Interfacing2(p) : t <= y /\ y \in Nat
    <3>1. All!Interfacing1(p) \in SUBSET Nat /\ All!Interfacing2(p) \in SUBSET Nat
      BY <2>2, ShownAre
    <3>. QED
      BY <2>2, <3>1, Smallest
  <2>. HIDE DEF s, t
  <2>4. <<p, s, t>> \in All!InterfacesAt(p)
    BY <2>2, <2>3, ShownAre
  <2>5. ASSUME NEW a \in Shown PROVE All!Earlier(a, <<p, s, t>>) <=> a[1][1] < p[1]
    <3>1. a[1] = p => ~(a[2] < s) /\ ~(a[3] < t)
      BY <2>3, ShownAre
    <3>2. a[1][2] = 1 /\ p[2] = 1
      BY <1>2, <2>1
    <3>. QED
      BY <3>1, <3>2 DEF All!Earlier, All!Before
  <2>. QED
    BY <1>3, <1>5, <2>2, <2>4, <2>5 DEF s, t
<1>. QED
  BY <1>4, <1>5

LEMMA PairsInit == MeshAssumption /\ SubDomain \subseteq Nat /\ All!Init => All!PairsInv
<1>. SUFFICES ASSUME MeshAssumption, SubDomain \subseteq Nat, All!Init PROVE All!PairsInv
  OBVIOUS
<1>1. /\ position = <<NextCell(0), 1>> /\ 0 \in 0 .. End - 1
      /\ subDomains \in [MeshCell -> SUBSET SubDomain] /\ visited = {} /\ revisited = {}
  BY StartIsNextCell, AllMesh DEF All!Init, All!Constructed, MeshAssumption, End
<1>2. \A a \in Shown : ~(a[1][1] <= 0)
  BY <1>1, ShownAre, InspectedAre DEF MeshCell
<1>3. CASE position[1] = End
  <2>1. position = <<End, 1>> /\ Shown = {} /\ All!AtEnd
    BY <1>1, <1>2, <1>3, Arrive, AllMesh DEF All!AtEnd
  <2>. QED
    BY <1>1, <2>1, AllMesh DEF All!PairsInv, All!VisitsInspected, Shown
<1>4. CASE position[1] # End
  <2>1. ~All!AtEnd
    BY <1>4, AllMesh DEF All!AtEnd
  <2>2. /\ interfacing2 = All!Interfacing2(position) /\ iterator1 = All!Interfacing1(position)
        /\ iterator2 = All!Interfacing2(position)
    BY <2>1 DEF All!Init, All!Constructed
  <2>3. /\ position \in All!Inspected /\ iterator1 # {} /\ iterator2 # {}
        /\ All!Here \in All!InterfacesAt(position)
        /\ \A a \in Shown : ~All!Earlier(a, All!Here)
    <3>1. /\ position \in All!Inspected /\ iterator1 # {} /\ iterator2 # {}
          /\ LET here == <<position, All!Min(iterator1), All!Min(iterator2)>>
             IN  /\ here \in All!InterfacesAt(position)
                 /\ \A a \in Shown : All!Earlier(a, here) <=> a[1][1] <= 0
      BY <1>1, <1>4, <2>2, Arrive
    <3>2. All!Here = <<position, All!Min(iterator1), All!Min(iterator2)>>
      BY DEF All!Here, All!subDomain1, All!subDomain2
    <3>. QED
      BY <1>2, <3>1, <3>2
  <2>. QED
    BY <1>1, <2>1, <2>2, <2>3, AllMesh DEF All!PairsInv, All!VisitsInspected, Shown
<1>. QED
  BY <1>3, <1>4

(* Where the loop stands.                                                  *)
LEMMA Standing ==
  ASSUME MeshAssumption, SubDomain \subseteq Nat, All!PairsInv, ~All!AtEnd,
         NEW p, p = position, NEW s, s = All!subDomain1, NEW t, t = All!subDomain2,
         NEW S, S = All!Interfacing1(p), NEW T, T = All!Interfacing2(p)
  PROVE  /\ p \in All!Inspected /\ S \in SUBSET Nat /\ T \in SUBSET Nat
         /\ s \in S /\ t \in T /\ s \in Nat /\ t \in Nat
         /\ s = All!Min(iterator1) /\ t = All!Min(iterator2) /\ All!Here = <<p, s, t>>
         /\ interfacing2 = T
         /\ iterator1 # {} /\ iterator1 \in SUBSET S /\ \A x \in S \ iterator1 : x < s
         /\ iterator2 # {} /\ iterator2 \in SUBSET T /\ \A y \in T \ iterator2 : y < t
         /\ subDomains \in [MeshCell -> SUBSET SubDomain]
         /\ \A a \in Shown : a[1] = p => /\ a[2] \in S /\ a[3] \in T
                                         /\ (a = All!Here <=> a[2] = s /\ a[3] = t)
<1>1. /\ p \in All!Inspected /\ interfacing2 = T
      /\ iterator1 # {} /\ iterator1 \in SUBSET S /\ \A x \in S \ iterator1 : x < s
      /\ iterator2 # {} /\ iterator2 \in SUBSET T /\ \A y \in T \ iterator2 : y < t
      /\ subDomains \in [MeshCell -> SUBSET SubDomain]
  BY AllMesh DEF All!PairsInv, All!AtEnd
<1>2. S \in SUBSET Nat /\ T \in SUBSET Nat
  BY <1>1, ShownAre
<1>3. /\ s = All!Min(iterator1) /\ t = All!Min(iterator2) /\ All!Here = <<p, s, t>>
  BY DEF All!Here, All!subDomain1, All!subDomain2
<1>4. s \in iterator1 /\ t \in iterator2
  <2>1. iterator1 \in SUBSET Nat /\ iterator2 \in SUBSET Nat
    BY <1>1, <1>2
  <2>. QED
    BY <1>1, <1>3, <2>1, Smallest
<1>5. ASSUME NEW a \in Shown, a[1] = p
      PROVE  /\ a[2] \in S /\ a[3] \in T
             /\ (a = All!Here <=> a[2] = s /\ a[3] = t)
  BY <1>1, <1>3, <1>5, ShownAre
<1>. QED
  BY <1>1, <1>2, <1>3, <1>4, <1>5

(* ++_subDomain2Iterator, not at its end.                                  *)
LEMMA SecondMoves ==
  ASSUME MeshAssumption, SubDomain \subseteq Nat, All!PairsInv,
         All!Increment, All!NextSecondSubDomain
  PROVE  All!PairsInv'
<1>1. PICK p, s, t, S, T : /\ p = position /\ s = All!subDomain1 /\ t = All!subDomain2
                           /\ S = All!Interfacing1(p) /\ T = All!Interfacing2(p)
  OBVIOUS
<1>2. ~All!AtEnd
  BY DEF All!Increment
<1>3. /\ p \in All!Inspected /\ S \in SUBSET Nat /\ T \in SUBSET Nat
      /\ s \in S /\ t \in T /\ s \in Nat /\ t \in Nat
      /\ s = All!Min(iterator1) /\ t = All!Min(iterator2) /\ All!Here = <<p, s, t>>
      /\ interfacing2 = T
      /\ iterator1 # {} /\ iterator1 \in SUBSET S /\ \A x \in S \ iterator1 : x < s
      /\ iterator2 # {} /\ iterator2 \in SUBSET T /\ \A y \in T \ iterator2 : y < t
      /\ subDomains \in [MeshCell -> SUBSET SubDomain]
      /\ \A a \in Shown : a[1] = p => /\ a[2] \in S /\ a[3] \in T
                                      /\ (a = All!Here <=> a[2] = s /\ a[3] = t)
  BY <1>1, <1>2, Standing
<1>4. /\ position' = p /\ iterator1' = iterator1 /\ interfacing2' = T
      /\ iterator2' = All!Passed(iterator2) /\ iterator2' # {} /\ subDomains' = subDomains
  BY <1>1, <1>3 DEF All!NextSecondSubDomain, All!Increment
<1>5. PICK u : u = All!Min(iterator2')
  OBVIOUS
<1>6. /\ iterator2' \in SUBSET T /\ \A y \in T \ iterator2' : y < u
      /\ \A y \in T : y < u <=> y <= t
  BY <1>3, <1>4, <1>5, PassedIs
<1>7. u \in T
  <2>1. iterator2' \in SUBSET Nat
    BY <1>3, <1>6
  <2>. QED
    BY <1>4, <1>5, <1>6, <2>1, Smallest
<1>8. All!Here' = <<p, s, u>> /\ All!subDomain1' = s /\ All!subDomain2' = u
  BY <1>3, <1>4, <1>5 DEF All!Here, All!subDomain1, All!subDomain2
<1>9. /\ ~All!AtEnd' /\ All!Here' \in All!InterfacesAt(position')
      /\ All!Interfacing1(p)' = S /\ All!Interfacing2(p)' = T
  BY <1>1, <1>2, <1>3, <1>4, <1>7, <1>8, ShownAre
     DEF All!AtEnd, All!Interfacing1, All!Interfacing2
<1>10. ASSUME NEW a \in Shown
       PROVE  All!Earlier(a, <<p, s, u>>) <=> a = All!Here \/ All!Earlier(a, <<p, s, t>>)
  <2>1. CASE a[1] = p
    <3>1. a[2] \in Nat /\ a[3] \in Nat /\ (a[3] < u <=> a[3] <= t)
          /\ (a = All!Here <=> a[2] = s /\ a[3] = t)
      BY <1>3, <1>6, <2>1
    <3>2. p[1] \in Nat /\ p[2] \in Nat
      BY <1>3, InspectedAre
    <3>. QED
      BY <1>3, <2>1, <3>1, <3>2 DEF All!Earlier, All!Before
  <2>2. CASE a[1] # p
    BY <1>3, <2>2 DEF All!Earlier
  <2>. QED
    BY <2>1, <2>2
<1>11. All!VisitsInspected'
  BY <1>2, <1>3, <1>8, <1>9, <1>10, Advance
<1>. QED
  BY <1>3, <1>4, <1>6, <1>8, <1>9, <1>11, AllMesh DEF All!PairsInv, All!Inspected

(* ++_subDomain1Iterator, not at its end: the second starts over.          *)
LEMMA FirstMoves ==
  ASSUME MeshAssumption, SubDomain \subseteq Nat, All!PairsInv,
         All!Increment, All!NextFirstSubDomain
  PROVE  All!PairsInv'
<1>1. PICK p, s, t, S, T : /\ p = position /\ s = All!subDomain1 /\ t = All!subDomain2
                           /\ S = All!Interfacing1(p) /\ T = All!Interfacing2(p)
  OBVIOUS
<1>2. ~All!AtEnd
  BY DEF All!Increment
<1>3. /\ p \in All!Inspected /\ S \in SUBSET Nat /\ T \in SUBSET Nat
      /\ s \in S /\ t \in T /\ s \in Nat /\ t \in Nat
      /\ s = All!Min(iterator1) /\ t = All!Min(iterator2) /\ All!Here = <<p, s, t>>
      /\ interfacing2 = T
      /\ iterator1 # {} /\ iterator1 \in SUBSET S /\ \A x \in S \ iterator1 : x < s
      /\ iterator2 # {} /\ iterator2 \in SUBSET T /\ \A y \in T \ iterator2 : y < t
      /\ subDomains \in [MeshCell -> SUBSET SubDomain]
      /\ \A a \in Shown : a[1] = p => /\ a[2] \in S /\ a[3] \in T
                                      /\ (a = All!Here <=> a[2] = s /\ a[3] = t)
  BY <1>1, <1>2, Standing
<1>4. /\ position' = p /\ iterator2' = T /\ interfacing2' = T
      /\ iterator1' = All!Passed(iterator1) /\ iterator1' # {} /\ subDomains' = subDomains
      /\ All!Passed(iterator2) = {}
  BY <1>1, <1>3 DEF All!NextFirstSubDomain, All!Increment
<1>5. PICK r, u : r = All!Min(iterator1') /\ u = All!Min(T)
  OBVIOUS
<1>6. /\ iterator1' \in SUBSET S /\ \A x \in S \ iterator1' : x < r
      /\ \A x \in S : x < r <=> x <= s
      /\ \A y \in T : y <= t
  BY <1>3, <1>4, <1>5, PassedIs
<1>7. r \in S /\ u \in T /\ \A y \in T : u <= y
  <2>1. iterator1' \in SUBSET Nat /\ T # {}
    BY <1>3, <1>6
  <2>. QED
    BY <1>3, <1>4, <1>5, <1>6, <2>1, Smallest
<1>8. All!Here' = <<p, r, u>> /\ All!subDomain1' = r /\ All!subDomain2' = u
  BY <1>3, <1>4, <1>5 DEF All!Here, All!subDomain1, All!subDomain2
<1>9. /\ ~All!AtEnd' /\ All!Here' \in All!InterfacesAt(position')
      /\ All!Interfacing1(p)' = S /\ All!Interfacing2(p)' = T
  BY <1>1, <1>2, <1>3, <1>4, <1>7, <1>8, ShownAre
     DEF All!AtEnd, All!Interfacing1, All!Interfacing2
<1>10. ASSUME NEW a \in Shown
       PROVE  All!Earlier(a, <<p, r, u>>) <=> a = All!Here \/ All!Earlier(a, <<p, s, t>>)
  <2>1. CASE a[1] = p
    <3>1. p[1] \in Nat /\ p[2] \in Nat /\ r \in Nat /\ u \in Nat
      BY <1>3, <1>7, InspectedAre
    <3>2. /\ a[2] \in S /\ a[3] \in T /\ a[2] \in Nat /\ a[3] \in Nat
          /\ (a = All!Here <=> a[2] = s /\ a[3] = t)
      BY <1>3, <2>1
    <3>3. (a[2] < r <=> a[2] <= s) /\ a[3] <= t /\ u <= a[3]
      BY <1>6, <1>7, <3>2
    <3>4. ~(a[3] < u)
      BY <3>1, <3>2, <3>3
    <3>. QED
      BY <1>3, <2>1, <3>1, <3>2, <3>3, <3>4 DEF All!Earlier, All!Before
  <2>2. CASE a[1] # p
    BY <1>3, <2>2 DEF All!Earlier
  <2>. QED
    BY <2>1, <2>2
<1>11. All!VisitsInspected'
  BY <1>2, <1>3, <1>8, <1>9, <1>10, Advance
<1>. QED
  BY <1>3, <1>4, <1>6, <1>8, <1>9, <1>11, AllMesh DEF All!PairsInv, All!Inspected

(* Both at their ends: the search for the next intersection.               *)
LEMMA IntersectionMoves ==
  ASSUME MeshAssumption, SubDomain \subseteq Nat, All!PairsInv,
         All!Increment, All!NextIntersection
  PROVE  All!PairsInv'
<1>1. PICK p, s, t, S, T : /\ p = position /\ s = All!subDomain1 /\ t = All!subDomain2
                           /\ S = All!Interfacing1(p) /\ T = All!Interfacing2(p)
  OBVIOUS
<1>2. ~All!AtEnd
  BY DEF All!Increment
<1>3. /\ p \in All!Inspected /\ S \in SUBSET Nat /\ T \in SUBSET Nat
      /\ s \in S /\ t \in T /\ s \in Nat /\ t \in Nat
      /\ s = All!Min(iterator1) /\ t = All!Min(iterator2) /\ All!Here = <<p, s, t>>
      /\ interfacing2 = T
      /\ iterator1 # {} /\ iterator1 \in SUBSET S /\ \A x \in S \ iterator1 : x < s
      /\ iterator2 # {} /\ iterator2 \in SUBSET T /\ \A y \in T \ iterator2 : y < t
      /\ subDomains \in [MeshCell -> SUBSET SubDomain]
      /\ \A a \in Shown : a[1] = p => /\ a[2] \in S /\ a[3] \in T
                                      /\ (a = All!Here <=> a[2] = s /\ a[3] = t)
  BY <1>1, <1>2, Standing
<1>4. PICK c, q : c = p[1] /\ q = <<NextCell(c), 1>>
  OBVIOUS
<1>5. p = <<c, 1>> /\ c \in MeshCell /\ c \in 0 .. End - 1 /\ c \in Nat
  BY <1>3, <1>4, InspectedAre, NotLastAre
<1>6. /\ All!GoTo(q) /\ position' = q /\ subDomains' = subDomains
      /\ All!Passed(iterator1) = {} /\ All!Passed(iterator2) = {}
  <2>1. All!NextValidIntersection[position] = q
    BY <1>1, <1>4, <1>5, SearchIsNextCell
  <2>. QED
    BY <2>1 DEF All!NextIntersection, All!GoTo, All!Increment
<1>7. (\A x \in S : x <= s) /\ (\A y \in T : y <= t)
  BY <1>3, <1>6, PassedIs
<1>8. ASSUME NEW a \in Shown
      PROVE  a[1][1] <= c <=> a = All!Here \/ All!Earlier(a, <<p, s, t>>)
  <2>1. a[1] = <<a[1][1], 1>> /\ a[1][1] \in Nat /\ a[1][2] = 1
    BY <1>3, ShownAre, InspectedAre
  <2>2. CASE a[1][1] = c
    <3>1. a[1] = p
      BY <1>5, <2>1, <2>2
    <3>2. /\ a[2] \in Nat /\ a[3] \in Nat /\ a[2] <= s /\ a[3] <= t
          /\ (a = All!Here <=> a[2] = s /\ a[3] = t)
      BY <1>3, <1>7, <3>1
    <3>3. a = All!Here \/ a[2] < s \/ (a[2] = s /\ a[3] < t)
      BY <1>3, <3>2
    <3>. QED
      BY <1>5, <2>2, <3>1, <3>3 DEF All!Earlier
  <2>3. CASE a[1][1] # c
    BY <1>3, <1>5, <2>1, <2>3 DEF All!Earlier, All!Before
  <2>. QED
    BY <2>2, <2>3
<1>9. CASE q[1] = End
  <2>1. q = <<End, 1>> /\ \A a \in Shown : a[1][1] <= c
    BY <1>3, <1>4, <1>5, <1>9, Arrive
  <2>2. All!AtEnd'
    BY <1>6, <1>9, AllMesh DEF All!AtEnd
  <2>3. All!VisitsInspected'
    BY <1>2, <1>3, <1>8, <2>1, <2>2, Advance
  <2>. QED
    BY <1>3, <1>6, <2>1, <2>2, <2>3, AllMesh DEF All!PairsInv
<1>10. CASE q[1] # End
  <2>1. ~All!AtEnd'
    BY <1>6, <1>10, AllMesh DEF All!AtEnd
  <2>2. /\ interfacing2' = All!Interfacing2(q) /\ iterator1' = All!Interfacing1(q)
        /\ iterator2' = All!Interfacing2(q)
    BY <1>6, <1>10, AllMesh DEF All!GoTo
  <2>3. All!Here' = <<q, All!Min(All!Interfacing1(q)), All!Min(All!Interfacing2(q))>>
    BY <1>6, <2>2 DEF All!Here, All!subDomain1, All!subDomain2
  <2>4. /\ q \in All!Inspected
        /\ All!Interfacing1(q) # {} /\ All!Interfacing2(q) # {}
        /\ All!Here' \in All!InterfacesAt(q)
        /\ \A a \in Shown : All!Earlier(a, All!Here') <=> a[1][1] <= c
    BY <1>3, <1>4, <1>5, <1>10, <2>3, Arrive
  <2>5. All!VisitsInspected'
    BY <1>2, <1>3, <1>6, <1>8, <2>1, <2>4, Advance
  <2>6. All!Interfacing1(q)' = All!Interfacing1(q) /\ All!Interfacing2(q)' = All!Interfacing2(q)
    BY <1>6 DEF All!Interfacing1, All!Interfacing2
  <2>. QED
    BY <1>3, <1>6, <2>1, <2>2, <2>4, <2>5, <2>6, AllMesh DEF All!PairsInv, All!Inspected
<1>. QED
  BY <1>9, <1>10

LEMMA PairsStep ==
  MeshAssumption /\ SubDomain \subseteq Nat /\ All!PairsInv /\ [All!Next]_(All!vars) => All!PairsInv'
<1>. SUFFICES ASSUME MeshAssumption, SubDomain \subseteq Nat, All!PairsInv, [All!Next]_(All!vars)
     PROVE  All!PairsInv'
  OBVIOUS
<1>1. CASE All!Increment
  BY <1>1, FirstMoves, SecondMoves, IntersectionMoves DEF All!Increment
<1>2. CASE UNCHANGED All!vars
  BY <1>2 DEF All!vars, All!PairsInv, All!VisitsInspected, All!AtEnd, All!Here, All!subDomain1,
     All!subDomain2, All!InterfacesAt, All!Interfacing1, All!Interfacing2, All!Inspected
<1>. QED
  BY <1>1, <1>2 DEF All!Next, All!Finished

(* What the loop has left behind.                                          *)
LEMMA ShownOrNot ==
  ASSUME MeshAssumption, SubDomain \subseteq Nat, All!PairsInv
  PROVE  All!InterfacesShown
<1>1. /\ ~All!AtEnd => All!Here \in All!InterfacesAt(position)
      /\ \A a \in Shown : a \in visited <=> (All!AtEnd \/ All!Earlier(a, All!Here))
      /\ visited \subseteq Shown /\ revisited = {}
      /\ subDomains \in [MeshCell -> SUBSET SubDomain]
      /\ position \in All!Inspected \cup {<<End, 1>>}
  BY AllMesh DEF All!PairsInv, All!VisitsInspected, Shown
<1>2. All!Inspected \subseteq {j \in All!Intersection : All!neighbor(j)}
  BY DEF All!Inspected
<1>3. Shown \subseteq All!Interfaces
  BY <1>2 DEF Shown, All!Interfaces
<1>4. ASSUME NEW i \in All!Intersection \ {position}, All!neighbor(i)
      PROVE  All!InterfacesAt(i) \subseteq visited \/ All!InterfacesAt(i) \cap visited = {}
  <2>1. \A a \in All!InterfacesAt(i) : a[1] = i
    BY DEF All!InterfacesAt
  <2>2. CASE i \in All!Inspected
    <3>1. All!InterfacesAt(i) \subseteq Shown
      BY <2>2 DEF Shown
    <3>2. \A a \in All!InterfacesAt(i) :
            a \in visited <=> (All!AtEnd \/ All!Before(i, position))
      BY <1>1, <2>1, <3>1 DEF All!Earlier, All!Here
    <3>. QED
      BY <3>2
  <2>3. CASE i \notin All!Inspected
    <3>1. \A a \in visited : a[1] \in All!Inspected
      BY <1>1, ShownAre
    <3>. QED
      BY <2>1, <2>3, <3>1
  <2>. QED
    BY <2>2, <2>3
<1>. QED
  BY <1>1, <1>3, <1>4 DEF All!InterfacesShown

(* The loop over all interfaces (allsubdomaininterfacesiterator.hh 45-113) *)
(* shows interfaces only, none twice, and at each intersection it has left *)
(* behind all the pairs of disjoint subdomains or none: on any mesh, with  *)
(* any layout.                                                             *)
THEOREM InterfacesAlwaysShown ==
  ASSUME MeshAssumption, All!SubDomainAssumption PROVE All!Spec => []All!InterfacesShown
<1>1. All!PairsInv => All!InterfacesShown
  BY ShownOrNot DEF All!SubDomainAssumption
<1>2. All!Init => All!PairsInv
  BY PairsInit DEF All!SubDomainAssumption
<1>3. All!PairsInv /\ [All!Next]_(All!vars) => All!PairsInv'
  BY PairsStep DEF All!SubDomainAssumption
<1>. QED
  BY <1>1, <1>2, <1>3, PTL DEF All!Spec
=============================================================================
