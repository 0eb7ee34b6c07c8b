----------------------- MODULE ParallelMarkingProofs -----------------------
(***************************************************************************)
(* Marking on any number of ranks, with any partition of any grid among    *)
(* them, any ghosts and any number of cycles: the copies of an entity      *)
(* agree, and have what the owners of the cells gave.  Then communicate(), *)
(* called for any grid after each cycle, with any order of the host's      *)
(* iterators: every entity gets its own data.  Then loadBalance(), with    *)
(* any cells, subdomains and ways to move the cells: the caller's handle   *)
(* reads its own data, and a rank restores what it has shown.              *)
(***************************************************************************)
EXTENDS SubDomainGridExchange, SequenceTheorems, FiniteSetTheorems, WellFoundedInduction, TLAPS

LEMMA Entities ==
  ASSUME NEW r \in Rank
  PROVE  /\ CellsOn(r) \subseteq Cell /\ CellsOn(r) \subseteq EntitiesOn(r)
         /\ \A e \in EntitiesOn(r) : e \in Cell => e \in CellsOn(r)
         /\ \A e \in EntitiesOn(r) : e \notin Cell => e \in SubEntity
         /\ Ghosts[r] \subseteq CellsOn(r) /\ Interior(r) \subseteq CellsOn(r)
         /\ \A c \in CellsOn(r) : Owner[c] = r \/ c \in Ghosts[r]
         /\ \A q, kind : Shared(q, r, kind) \subseteq EntitiesOn(r)
BY PartitionAssumption DEF CellsOn, EntitiesOn, SubEntitiesOf, Interior, Shared

(* What a rank sends is there on both sides.                               *)
LEMMA SharedEntities ==
  ASSUME NEW q \in Rank, NEW r \in Rank, NEW kind \in Kind
  PROVE  /\ Shared(q, r, kind) \subseteq EntitiesOn(q)
         /\ Shared(q, r, kind) \subseteq EntitiesOn(r)
         /\ kind = "selection" => Shared(q, r, kind) = {c \in CellsOn(r) : Owner[c] = q}
         /\ kind = "border" => Shared(q, r, kind) \cap Cell = {}
<1>1. Interior(q) \subseteq Cell /\ Interior(q) \subseteq EntitiesOn(q)
  BY DEF Interior, EntitiesOn, CellsOn
<1>2. SubEntitiesOf(Interior(q)) \subseteq EntitiesOn(q) /\ SubEntitiesOf(Interior(q)) \subseteq SubEntity
  BY PartitionAssumption DEF Interior, EntitiesOn, CellsOn, SubEntitiesOf
<1>3. CASE kind = "selection"
  <2>1. Sends(q, kind) = Interior(q)
    BY <1>3 DEF Sends
  <2>. QED
    BY <1>1, <1>3, <2>1, Entities DEF Shared, Interior
<1>4. CASE kind = "border"
  <2>1. Sends(q, kind) = SubEntitiesOf(Interior(q))
    BY <1>4 DEF Sends
  <2>. QED
    BY <1>2, <1>4, <2>1, PartitionAssumption DEF Shared
<1>. QED
  BY <1>3, <1>4 DEF Kind

-----------------------------------------------------------------------------
(* Types.                                                                  *)

LEMMA MessageType ==
  ASSUME TypeOK, NEW q \in Rank, NEW r \in Rank, NEW kind \in Kind,
         NEW dom \in [EntitiesOn(q) -> SUBSET SubDomain]
  PROVE  Message(q, kind, Shared(q, r, kind), dom) \in MessageTo(q, r)
<1>1. [e \in Shared(q, r, kind) |-> dom[e]] \in [Shared(q, r, kind) -> SUBSET SubDomain]
  BY SharedEntities
<1>2. cycle[q] \in 0 .. CycleBound
  BY DEF TypeOK
<1>. QED
  BY <1>1, <1>2 DEF Message, MessageTo

(* A message of a channel, taken apart.                                    *)
LEMMA MessageParts ==
  ASSUME NEW q \in Rank, NEW r \in Rank, NEW m \in MessageTo(q, r)
  PROVE  /\ m.kind \in Kind /\ m.cycle \in 0 .. CycleBound
         /\ m.data \in [Shared(q, r, m.kind) -> SUBSET SubDomain]
BY DEF MessageTo

(* Sending appends one message to some channels of the sender.             *)
LEMMA Sending ==
  ASSUME TypeOK, NEW q \in Rank, NEW kind \in Kind,
         NEW dom \in [EntitiesOn(q) -> SUBSET SubDomain], Send(q, kind, dom)
  PROVE  /\ \A p, r \in Rank :
              channel'[p][r] =
                IF p = q /\ r # q /\ Shared(q, r, kind) # {}
                THEN Append(channel[p][r], Message(q, kind, Shared(q, r, kind), dom))
                ELSE channel[p][r]
         /\ \A p, r \in Rank : channel'[p][r] \in Seq(MessageTo(p, r))
         /\ channel' = [p \in Rank |-> [r \in Rank |-> channel'[p][r]]]
<1> DEFINE row == [r \in Rank |->
          IF r # q /\ Shared(q, r, kind) # {}
          THEN Append(channel[q][r], Message(q, kind, Shared(q, r, kind), dom))
          ELSE channel[q][r]]
<1>1. channel' = [channel EXCEPT ![q] = row]
  BY DEF Send
<1>2. channel = [p \in Rank |-> [r \in Rank |-> channel[p][r]]]
  BY DEF TypeOK
<1>3. \A p, r \in Rank :
        channel'[p][r] =
          IF p = q /\ r # q /\ Shared(q, r, kind) # {}
          THEN Append(channel[p][r], Message(q, kind, Shared(q, r, kind), dom))
          ELSE channel[p][r]
  BY <1>1, <1>2
<1>4. channel' = [p \in Rank |-> [r \in Rank |-> channel'[p][r]]]
  <2>1. row = [r \in Rank |-> row[r]]
    OBVIOUS
  <2> HIDE DEF row
  <2>2. channel' = [p \in Rank |-> IF p = q THEN row ELSE channel[p]]
    BY <1>1, <1>2
  <2>3. \A p \in Rank : channel[p] = [r \in Rank |-> channel[p][r]]
    BY <1>2
  <2>4. \A p \in Rank : channel'[p] = [r \in Rank |-> channel'[p][r]]
    BY <2>1, <2>2, <2>3
  <2>. QED
    BY <2>2, <2>4
<1>5. ASSUME NEW p \in Rank, NEW r \in Rank
      PROVE  channel'[p][r] \in Seq(MessageTo(p, r))
  <2>1. channel[p][r] \in Seq(MessageTo(p, r))
    BY DEF TypeOK
  <2>2. Message(q, kind, Shared(q, r, kind), dom) \in MessageTo(q, r)
    BY MessageType
  <2>3. p = q => Append(channel[p][r], Message(q, kind, Shared(q, r, kind), dom)) \in Seq(MessageTo(p, r))
    BY <2>1, <2>2
  <2>. QED
    BY <2>1, <2>3, <1>3
<1>. QED
  BY <1>3, <1>4, <1>5

(* Receiving takes the first message of one channel.                       *)
LEMMA Receiving ==
  ASSUME TypeOK, NEW r \in Rank, NEW q \in Rank, Receive(r, q)
  PROVE  /\ \A p, t \in Rank :
              channel'[p][t] = IF p = q /\ t = r THEN Tail(channel[q][r]) ELSE channel[p][t]
         /\ \A p, t \in Rank : channel'[p][t] \in Seq(MessageTo(p, t))
         /\ channel' = [p \in Rank |-> [t \in Rank |-> channel'[p][t]]]
         /\ channel[q][r] \in Seq(MessageTo(q, r)) /\ channel[q][r] # <<>>
         /\ Head(channel[q][r]) \in MessageTo(q, r)
<1>1. channel[q][r] \in Seq(MessageTo(q, r)) /\ channel[q][r] # <<>>
  BY DEF TypeOK, Receive
<1>2. Head(channel[q][r]) \in MessageTo(q, r) /\ Tail(channel[q][r]) \in Seq(MessageTo(q, r))
  BY <1>1
<1>3. channel' = [channel EXCEPT ![q][r] = Tail(channel[q][r])]
  BY DEF Receive, TypeOK
<1>4. channel = [p \in Rank |-> [t \in Rank |-> channel[p][t]]]
  BY DEF TypeOK
<1>5. channel' = [p \in Rank |-> [t \in Rank |->
         IF p = q /\ t = r THEN Tail(channel[q][r]) ELSE channel[p][t]]]
  BY <1>3, <1>4
<1>6. \A p, t \in Rank :
        channel'[p][t] = IF p = q /\ t = r THEN Tail(channel[q][r]) ELSE channel[p][t]
  BY <1>5
<1>7. \A p, t \in Rank : channel'[p][t] \in Seq(MessageTo(p, t))
  BY <1>2, <1>6 DEF TypeOK
<1>8. channel' = [p \in Rank |-> [t \in Rank |-> channel'[p][t]]]
  BY <1>5
<1>. QED
  BY <1>1, <1>2, <1>6, <1>7, <1>8

LEMMA TypeInit == Init => TypeOK
<1>. SUFFICES ASSUME Init PROVE TypeOK
  OBVIOUS
<1>1. /\ domains = [r \in Rank |-> domains[r]]
      /\ \A r \in Rank : domains[r] \in [EntitiesOn(r) -> SUBSET SubDomain]
  BY DEF Init
<1>2. /\ phase \in [Rank -> Phase] /\ cycle \in [Rank -> 0 .. CycleBound]
      /\ received \in [Rank -> SUBSET Rank] /\ removed \in BOOLEAN
  <2>1. 0 \in 0 .. CycleBound
    BY PartitionAssumption
  <2>2. cycle \in [Rank -> 0 .. CycleBound]
    BY <2>1 DEF Init
  <2>3. phase \in [Rank -> Phase] /\ received \in [Rank -> SUBSET Rank] /\ removed \in BOOLEAN
    BY DEF Init, Phase
  <2>. QED
    BY <2>2, <2>3
<1>3. channel = [q \in Rank |-> [r \in Rank |-> channel[q][r]]]
  BY DEF Init
<1>4. \A q, r \in Rank : channel[q][r] \in Seq(MessageTo(q, r))
  BY DEF Init
<1>5. \A r \in Rank : phase[r] = "fixed" /\ received[r] = {}
  BY DEF Init
<1>. QED
  BY <1>1, <1>2, <1>3, <1>4, <1>5 DEF TypeOK

(* Only the subdomains of one rank change in a step.                       *)
LEMMA DomainsType ==
  ASSUME TypeOK, NEW r \in Rank, NEW dom \in [EntitiesOn(r) -> SUBSET SubDomain],
         domains' = [domains EXCEPT ![r] = dom]
  PROVE  /\ domains' = [q \in Rank |-> domains'[q]]
         /\ \A q \in Rank : domains'[q] = IF q = r THEN dom ELSE domains[q]
         /\ \A q \in Rank : domains'[q] \in [EntitiesOn(q) -> SUBSET SubDomain]
BY DEF TypeOK

(* What markSubIndices() leaves of the subdomains of a rank.               *)
LEMMA MarkedType ==
  ASSUME TypeOK, NEW r \in Rank
  PROVE  /\ MarkedSubEntities(r) \in [EntitiesOn(r) -> SUBSET SubDomain]
         /\ \A c \in CellsOn(r) : MarkedSubEntities(r)[c] = domains[r][c]
<1>1. domains[r] \in [EntitiesOn(r) -> SUBSET SubDomain]
  BY DEF TypeOK
<1>2. CellsOn(r) \subseteq EntitiesOn(r) /\ CellsOn(r) \subseteq Cell
  BY Entities
<1>3. \A c \in CellsOn(r) : {d \in CellsOn(r) : c \in Closure[d]} = {}
  BY <1>2, PartitionAssumption
<1>. QED
  BY <1>1, <1>2, <1>3 DEF MarkedSubEntities

(* What receiving leaves of them.                                          *)
LEMMA ReceivedDomains ==
  ASSUME TypeOK, NEW r \in Rank, NEW q \in Rank, Receive(r, q)
  PROVE  /\ domains' = [p \in Rank |-> domains'[p]]
         /\ \A p \in Rank : domains'[p] \in [EntitiesOn(p) -> SUBSET SubDomain]
         /\ \A p \in Rank : p # r => domains'[p] = domains[p]
         /\ \A e \in EntitiesOn(r) :
              domains'[r][e] =
                IF e \in DOMAIN Head(channel[q][r]).data
                THEN domains[r][e] \cup Head(channel[q][r]).data[e]
                ELSE domains[r][e]
<1> DEFINE news == Head(channel[q][r]).data
           dom  == [e \in EntitiesOn(r) |->
                      IF e \in DOMAIN news THEN domains[r][e] \cup news[e] ELSE domains[r][e]]
<1>1. domains' = [domains EXCEPT ![r] = dom]
  BY DEF Receive
<1>2. /\ Head(channel[q][r]).kind \in Kind
      /\ news \in [Shared(q, r, Head(channel[q][r]).kind) -> SUBSET SubDomain]
  BY Receiving, MessageParts
<1>3. domains[r] \in [EntitiesOn(r) -> SUBSET SubDomain]
  BY DEF TypeOK
<1>4. dom \in [EntitiesOn(r) -> SUBSET SubDomain]
  BY <1>2, <1>3
<1>5. \A e \in EntitiesOn(r) :
        dom[e] = IF e \in DOMAIN news THEN domains[r][e] \cup news[e] ELSE domains[r][e]
  OBVIOUS
<1> HIDE DEF dom
<1>6. /\ domains' = [p \in Rank |-> domains'[p]]
      /\ \A p \in Rank : domains'[p] = IF p = r THEN dom ELSE domains[p]
      /\ \A p \in Rank : domains'[p] \in [EntitiesOn(p) -> SUBSET SubDomain]
  BY <1>1, <1>4, DomainsType
<1>. QED
  BY <1>5, <1>6

LEMMA TypeStep == TypeOK /\ [Next]_vars => TypeOK'
<1>. SUFFICES ASSUME TypeOK, [Next]_vars PROVE TypeOK'
  OBVIOUS
<1>. USE DEF InUpdate, Kind, Phase
<1>1. ASSUME NEW r \in Rank, StartMarking(r) PROVE TypeOK'
  <2>1. [e \in EntitiesOn(r) |-> IF e \in Cell THEN domains[r][e] ELSE {}]
          \in [EntitiesOn(r) -> SUBSET SubDomain]
    BY DEF TypeOK
  <2>2. /\ domains' = [q \in Rank |-> domains'[q]]
        /\ \A q \in Rank : domains'[q] \in [EntitiesOn(q) -> SUBSET SubDomain]
    BY <1>1, <2>1, DomainsType DEF StartMarking
  <2>3. /\ phase' \in [Rank -> Phase]
        /\ \A q \in Rank : phase'[q] = IF q = r THEN "marking" ELSE phase[q]
    BY <1>1 DEF StartMarking, TypeOK
  <2>. QED
    BY <1>1, <2>2, <2>3 DEF StartMarking, TypeOK
<1>2. ASSUME NEW r \in Rank, Mark(r) PROVE TypeOK'
  <2>1. PICK c \in Cell, s \in SubDomain : AddToSubDomain(r, s, c) \/ RemoveFromSubDomain(r, s, c)
    BY <1>2 DEF Mark
  <2>2. PICK D : Assigned(r, c, D) /\ D \in SUBSET SubDomain
    <3>1. c \in EntitiesOn(r)
      BY <2>1 DEF AddToSubDomain, RemoveFromSubDomain, Assigned, EntitiesOn, CellsOn, Interior
    <3>2. domains[r][c] \in SUBSET SubDomain
      BY <3>1 DEF TypeOK
    <3>. QED
      BY <2>1, <3>2 DEF AddToSubDomain, RemoveFromSubDomain
  <2>3. [domains[r] EXCEPT ![c] = D] \in [EntitiesOn(r) -> SUBSET SubDomain]
    BY <2>2 DEF TypeOK
  <2>4. domains' = [domains EXCEPT ![r] = [domains[r] EXCEPT ![c] = D]]
    BY <2>2 DEF Assigned
  <2>5. /\ domains' = [q \in Rank |-> domains'[q]]
        /\ \A q \in Rank : domains'[q] \in [EntitiesOn(q) -> SUBSET SubDomain]
    BY <2>3, <2>4, DomainsType
  <2>6. removed' \in BOOLEAN
    BY <2>1 DEF TypeOK, AddToSubDomain, RemoveFromSubDomain
  <2>. QED
    BY <2>2, <2>5, <2>6 DEF Assigned, TypeOK
<1>3. ASSUME NEW r \in Rank, CommunicateSelection(r) PROVE TypeOK'
  <2>1. /\ \A q, p \in Rank : channel'[q][p] \in Seq(MessageTo(q, p))
        /\ channel' = [q \in Rank |-> [p \in Rank |-> channel'[q][p]]]
    BY <1>3, Sending DEF CommunicateSelection, TypeOK
  <2>2. /\ phase' \in [Rank -> Phase] /\ received' \in [Rank -> SUBSET Rank]
        /\ \A q \in Rank : phase'[q] = IF q = r THEN "selection" ELSE phase[q]
        /\ \A q \in Rank : received'[q] = IF q = r THEN {} ELSE received[q]
    BY <1>3 DEF CommunicateSelection, TypeOK
  <2>. QED
    BY <1>3, <2>1, <2>2 DEF CommunicateSelection, TypeOK
<1>4. ASSUME NEW r \in Rank, MarkAndPropagate(r) PROVE TypeOK'
  <2>1. /\ domains' = [q \in Rank |-> domains'[q]]
        /\ \A q \in Rank : domains'[q] = IF q = r THEN MarkedSubEntities(r) ELSE domains[q]
        /\ \A q \in Rank : domains'[q] \in [EntitiesOn(q) -> SUBSET SubDomain]
    BY <1>4, MarkedType, DomainsType DEF MarkAndPropagate
  <2>2. /\ \A q, p \in Rank : channel'[q][p] \in Seq(MessageTo(q, p))
        /\ channel' = [q \in Rank |-> [p \in Rank |-> channel'[q][p]]]
    BY <1>4, <2>1, Sending DEF MarkAndPropagate
  <2>3. /\ phase' \in [Rank -> Phase] /\ received' \in [Rank -> SUBSET Rank]
        /\ \A q \in Rank : phase'[q] = IF q = r THEN "border" ELSE phase[q]
        /\ \A q \in Rank : received'[q] = IF q = r THEN {} ELSE received[q]
    BY <1>4 DEF MarkAndPropagate, TypeOK
  <2>. QED
    BY <1>4, <2>1, <2>2, <2>3 DEF MarkAndPropagate, TypeOK
<1>5. ASSUME NEW r \in Rank, EndUpdate(r) PROVE TypeOK'
  <2>1. cycle[r] \in Nat /\ cycle[r] < CycleBound /\ CycleBound \in Nat
    BY <1>5, PartitionAssumption DEF EndUpdate, TypeOK
  <2>2. /\ cycle' \in [Rank -> 0 .. CycleBound]
        /\ \A q \in Rank : q # r => cycle'[q] = cycle[q]
    BY <1>5, <2>1 DEF EndUpdate, TypeOK
  <2>3. /\ phase' \in [Rank -> Phase] /\ received' \in [Rank -> SUBSET Rank]
        /\ \A q \in Rank : phase'[q] = IF q = r THEN "fixed" ELSE phase[q]
        /\ \A q \in Rank : received'[q] = IF q = r THEN {} ELSE received[q]
    BY <1>5 DEF EndUpdate, TypeOK
  <2>. QED
    BY <1>5, <2>2, <2>3 DEF EndUpdate, TypeOK
<1>6. ASSUME NEW r \in Rank, NEW q \in Rank, Receive(r, q) PROVE TypeOK'
  <2>1. /\ \A p, t \in Rank : channel'[p][t] \in Seq(MessageTo(p, t))
        /\ channel' = [p \in Rank |-> [t \in Rank |-> channel'[p][t]]]
        /\ Head(channel[q][r]) \in MessageTo(q, r)
    BY <1>6, Receiving
  <2>2. /\ domains' = [p \in Rank |-> domains'[p]]
        /\ \A p \in Rank : domains'[p] \in [EntitiesOn(p) -> SUBSET SubDomain]
    BY <1>6, ReceivedDomains
  <2>3. phase[r] \in Kind
    BY <1>6, <2>1, MessageParts DEF Receive
  <2>4. received' \in [Rank -> SUBSET Rank] /\ \A p \in Rank : p # r => received'[p] = received[p]
    BY <1>6 DEF Receive, TypeOK
  <2>. QED
    BY <1>6, <2>1, <2>2, <2>3, <2>4 DEF Receive, TypeOK
<1>7. CASE UNCHANGED vars
  BY <1>7 DEF vars, TypeOK
<1>. QED
  BY <1>1, <1>2, <1>3, <1>4, <1>5, <1>6, <1>7 DEF Next, Exchange, AllDone

-----------------------------------------------------------------------------
(* The channels.                                                           *)

(* No two exchanges have the same place.                                   *)
LEMMA Places ==
  ASSUME NEW k \in Kind, NEW l \in Kind, NEW m \in Nat, NEW n \in Nat
  PROVE  /\ Place(k, m) \in Nat
         /\ Place(k, m) = Place(l, n) => k = l /\ m = n
         /\ k = l /\ Place(k, m) < Place(l, n) => m < n
         /\ Place("border", m) = Place("selection", m) + 1
BY DEF Place, Kind

(* A message more at the end ...                                           *)
LEMMA QueueSend ==
  ASSUME NEW q \in Rank, NEW r \in Rank, NEW s \in Seq(MessageTo(q, r)),
         NEW m \in MessageTo(q, r), NEW from \in Nat, NEW to \in Nat,
         Queue(s, q, r, from, to), Number(m) = to, q # r, Shared(q, r, m.kind) # {}
  PROVE  Queue(Append(s, m), q, r, from, to + 1)
<1> DEFINE t == Append(s, m)
<1>1. /\ DOMAIN s = 1 .. Len(s) /\ DOMAIN t = 1 .. Len(s) + 1 /\ Len(s) \in Nat
      /\ t[Len(s) + 1] = m /\ \A i \in DOMAIN s : t[i] = s[i]
  OBVIOUS
<1>2. \A i \in DOMAIN s : s[i] \in MessageTo(q, r)
  BY <1>1
<1>3. /\ m.kind \in Kind /\ m.cycle \in 0 .. CycleBound
      /\ \A i \in DOMAIN s : s[i].kind \in Kind /\ s[i].cycle \in 0 .. CycleBound
  BY <1>2, MessageParts
<1>4. \A k \in 0 .. CycleBound : k \in Nat
  BY PartitionAssumption
<1>5. Place(m.kind, m.cycle) = to
  BY DEF Number
<1>6. \A i \in DOMAIN s : Number(s[i]) < to
  <2>. SUFFICES ASSUME NEW i \in DOMAIN s PROVE Place(s[i].kind, s[i].cycle) < to
    BY DEF Number
  <2>. QED
    BY <1>3 DEF Queue
<1> HIDE DEF t
<1>7. ASSUME NEW i \in DOMAIN t, NEW j \in DOMAIN t, i < j
      PROVE  Number(t[i]) < Number(t[j])
  <2>1. i \in DOMAIN s
    BY <1>1, <1>7
  <2>2. CASE j \in DOMAIN s
    BY <1>1, <1>7, <2>1, <2>2 DEF Queue
  <2>3. CASE j \notin DOMAIN s
    <3>1. t[j] = m
      BY <1>1, <2>3
    <3>. QED
      BY <1>1, <1>6, <2>1, <3>1
  <2>. QED
    BY <2>2, <2>3
<1>8. ASSUME NEW kind \in Kind, NEW n \in 0 .. CycleBound
      PROVE  LET sent == q # r /\ Shared(q, r, kind) # {} IN
             /\ (\E i \in DOMAIN t : t[i].kind = kind /\ t[i].cycle = n) <=>
                  sent /\ from <= Place(kind, n) /\ Place(kind, n) < to + 1
             /\ sent /\ Place(kind, n) < from => Place(kind, n) < to + 1
  <2>1. Place(kind, n) \in Nat /\ (Place(kind, n) = to <=> kind = m.kind /\ n = m.cycle)
    BY <1>3, <1>4, <1>5, Places
  <2>2. (\E i \in DOMAIN t : t[i].kind = kind /\ t[i].cycle = n) <=>
          \/ \E i \in DOMAIN s : s[i].kind = kind /\ s[i].cycle = n
          \/ kind = m.kind /\ n = m.cycle
    BY <1>1
  <2>3. from <= to
    BY <1>3, <1>5 DEF Queue
  <2>. QED
    BY <2>1, <2>2, <2>3 DEF Queue
<1>. QED
  BY <1>7, <1>8 DEF Queue, t

(* ... and an exchange in which there is none, at the end and at the front.*)
LEMMA QueueSkip ==
  ASSUME NEW q \in Rank, NEW r \in Rank, NEW s, NEW from \in Nat, NEW to \in Nat,
         NEW kind \in Kind, NEW n \in Nat, q = r \/ Shared(q, r, kind) = {},
         Queue(s, q, r, from, to)
  PROVE  /\ to = Place(kind, n) => Queue(s, q, r, from, to + 1)
         /\ from = Place(kind, n) => Queue(s, q, r, from + 1, to)
<1>. SUFFICES ASSUME NEW k \in Kind, NEW i \in 0 .. CycleBound,
                     q # r, Shared(q, r, k) # {}
              PROVE  /\ Place(k, i) \in Nat
                     /\ to = Place(kind, n) => (Place(k, i) < to <=> Place(k, i) < to + 1)
                     /\ from = Place(kind, n) =>
                          /\ from <= Place(k, i) <=> from + 1 <= Place(k, i)
                          /\ Place(k, i) < from <=> Place(k, i) < from + 1
  BY DEF Queue
<1>1. i \in Nat
  BY PartitionAssumption
<1>2. Place(k, i) \in Nat /\ Place(k, i) # Place(kind, n)
  BY <1>1, Places
<1>. QED
  BY <1>2

(* The next message of an exchange that is not over is one of its own.     *)
LEMMA QueueHead ==
  ASSUME NEW q \in Rank, NEW r \in Rank, NEW s \in Seq(MessageTo(q, r)), s # <<>>,
         NEW to \in Nat, NEW kind \in Kind, NEW n \in 0 .. CycleBound,
         Queue(s, q, r, Place(kind, n), to), Head(s).kind = kind
  PROVE  Head(s).cycle = n /\ q # r /\ Shared(q, r, kind) # {}
<1> DEFINE m == Head(s)
<1>1. 1 \in DOMAIN s /\ s[1] = m /\ m \in MessageTo(q, r) /\ DOMAIN s = 1 .. Len(s) /\ Len(s) \in Nat
  OBVIOUS
<1>2. m.kind = kind /\ m.cycle \in 0 .. CycleBound
  BY <1>1, MessageParts
<1>3. m.cycle \in Nat /\ n \in Nat
  BY <1>2, PartitionAssumption
<1>4. /\ q # r /\ Shared(q, r, kind) # {}
      /\ Place(kind, n) <= Place(kind, m.cycle) /\ Place(kind, m.cycle) < to
  BY <1>1, <1>2 DEF Queue
<1>5. Place(kind, n) \in Nat /\ Place(kind, m.cycle) \in Nat
  BY <1>3, Places
<1>6. PICK i \in DOMAIN s : s[i].kind = kind /\ s[i].cycle = n
  BY <1>4, <1>5 DEF Queue
<1>7. ~ 1 < i
  <2>1. 1 < i => Number(m) < Number(s[i])
    BY <1>1 DEF Queue
  <2>2. Number(m) = Place(kind, m.cycle) /\ Number(s[i]) = Place(kind, n)
    BY <1>2, <1>6 DEF Number
  <2>. QED
    BY <1>4, <1>5, <2>1, <2>2
<1>8. i = 1
  BY <1>1, <1>6, <1>7
<1>. QED
  BY <1>1, <1>4, <1>6, <1>8

(* Taking it leaves those behind it.                                       *)
LEMMA QueueTake ==
  ASSUME NEW q \in Rank, NEW r \in Rank, NEW s \in Seq(MessageTo(q, r)), s # <<>>,
         NEW to \in Nat, NEW kind \in Kind, NEW n \in 0 .. CycleBound,
         Queue(s, q, r, Place(kind, n), to), Head(s).kind = kind, Head(s).cycle = n
  PROVE  Queue(Tail(s), q, r, Place(kind, n) + 1, to)
<1> DEFINE t == Tail(s)
<1>1. /\ DOMAIN s = 1 .. Len(s) /\ Len(s) \in Nat \ {0} /\ DOMAIN t = 1 .. Len(s) - 1
      /\ s[1] = Head(s) /\ \A i \in DOMAIN t : t[i] = s[i + 1]
      /\ \A i \in DOMAIN s : s[i] \in MessageTo(q, r)
  OBVIOUS
<1>2. \A i \in DOMAIN s : s[i].kind \in Kind /\ s[i].cycle \in 0 .. CycleBound
  BY <1>1, MessageParts
<1>3. \A k \in 0 .. CycleBound : k \in Nat
  BY PartitionAssumption
<1>4. Place(kind, n) \in Nat
  BY <1>3, Places
<1> HIDE DEF t
<1>5. \A i, j \in DOMAIN t : i < j => Number(t[i]) < Number(t[j])
  <2>. SUFFICES ASSUME NEW i \in DOMAIN t, NEW j \in DOMAIN t, i < j
                PROVE  Number(t[i]) < Number(t[j])
    OBVIOUS
  <2>1. i + 1 \in DOMAIN s /\ j + 1 \in DOMAIN s /\ i + 1 < j + 1
    BY <1>1
  <2>. QED
    BY <1>1, <2>1 DEF Queue
<1>6. ASSUME NEW k \in Kind, NEW i \in 0 .. CycleBound
      PROVE  (\E j \in DOMAIN t : t[j].kind = k /\ t[j].cycle = i) <=>
               /\ \E j \in DOMAIN s : s[j].kind = k /\ s[j].cycle = i
               /\ ~ (k = kind /\ i = n)
  <2>1. ASSUME NEW j \in DOMAIN t, t[j].kind = k, t[j].cycle = i
        PROVE  /\ \E l \in DOMAIN s : s[l].kind = k /\ s[l].cycle = i
               /\ ~ (k = kind /\ i = n)
    <3>1. j + 1 \in DOMAIN s /\ 1 \in DOMAIN s /\ 1 < j + 1 /\ t[j] = s[j + 1]
      BY <1>1
    <3>2. Number(s[1]) < Number(s[j + 1])
      BY <3>1 DEF Queue
    <3>3. Number(s[1]) = Place(kind, n) /\ Number(s[j + 1]) = Place(k, i)
      BY <1>1, <2>1, <3>1 DEF Number
    <3>4. ~ (k = kind /\ i = n)
      BY <1>4, <3>2, <3>3
    <3>. QED
      BY <2>1, <3>1, <3>4
  <2>2. ASSUME NEW j \in DOMAIN s, s[j].kind = k, s[j].cycle = i, ~ (k = kind /\ i = n)
        PROVE  \E l \in DOMAIN t : t[l].kind = k /\ t[l].cycle = i
    <3>1. j # 1
      BY <1>1, <2>2
    <3>2. j - 1 \in DOMAIN t /\ t[j - 1] = s[j]
      BY <1>1, <3>1
    <3>. QED
      BY <2>2, <3>2
  <2>. QED
    BY <2>1, <2>2
<1>7. ASSUME NEW k \in Kind, NEW i \in 0 .. CycleBound
      PROVE  /\ Place(k, i) \in Nat
             /\ Place(k, i) = Place(kind, n) <=> k = kind /\ i = n
  <2>1. i \in Nat /\ n \in Nat
    BY <1>3
  <2>2. Place(k, i) \in Nat /\ (Place(k, i) = Place(kind, n) => k = kind /\ i = n)
    BY <2>1, Places
  <2>. QED
    BY <2>2
<1>8. Place(kind, n) < to
  BY <1>1 DEF Queue
<1>9. ASSUME NEW k \in Kind, NEW i \in 0 .. CycleBound
      PROVE  LET sent == q # r /\ Shared(q, r, k) # {} IN
             /\ (\E j \in DOMAIN t : t[j].kind = k /\ t[j].cycle = i) <=>
                  sent /\ Place(kind, n) + 1 <= Place(k, i) /\ Place(k, i) < to
             /\ sent /\ Place(k, i) < Place(kind, n) + 1 => Place(k, i) < to
  <2>1. Place(k, i) \in Nat /\ (Place(k, i) = Place(kind, n) <=> k = kind /\ i = n)
    BY <1>7
  <2>2. LET sent == q # r /\ Shared(q, r, k) # {} IN
        /\ (\E j \in DOMAIN s : s[j].kind = k /\ s[j].cycle = i) <=>
             sent /\ Place(kind, n) <= Place(k, i) /\ Place(k, i) < to
        /\ sent /\ Place(k, i) < Place(kind, n) => Place(k, i) < to
    BY DEF Queue
  <2>3. Place(kind, n) + 1 <= Place(k, i) <=>
          Place(kind, n) <= Place(k, i) /\ ~ (k = kind /\ i = n)
    BY <1>4, <2>1
  <2>4. Place(k, i) < Place(kind, n) + 1 =>
          Place(k, i) < Place(kind, n) \/ (k = kind /\ i = n)
    BY <1>4, <2>1
  <2>. QED
    BY <1>6, <1>8, <2>2, <2>3, <2>4
<1>10. Queue(t, q, r, Place(kind, n) + 1, to)
  BY <1>5, <1>9 DEF Queue
<1>. QED
  BY <1>10 DEF t

(* Where the ranks are in the order of all exchanges.                      *)
LEMMA Counts ==
  ASSUME TypeOK, NEW r \in Rank, NEW q \in Rank
  PROVE  /\ Taken(r, q) \in Nat /\ Begun(q) \in Nat
         /\ cycle[q] \in Nat /\ (phase[q] # "fixed" => cycle[q] < CycleBound)
         /\ phase[q] \in {"fixed", "marking"} =>
              received[q] = {} /\ Begun(q) = Place("selection", cycle[q])
         /\ phase[q] = "selection" => Begun(q) = Place("border", cycle[q])
         /\ phase[q] = "border" => Begun(q) = Place("selection", cycle[q] + 1)
         /\ phase[r] \in {"fixed", "marking"} => Taken(r, q) = Place("selection", cycle[r])
         /\ phase[r] \in Kind /\ q \notin received[r] => Taken(r, q) = Place(phase[r], cycle[r])
         /\ phase[r] \in Kind /\ q \in received[r] => Taken(r, q) = Place(phase[r], cycle[r]) + 1
<1>1. /\ cycle[r] \in Nat /\ cycle[q] \in Nat
      /\ phase[r] \in Phase /\ phase[q] \in Phase
      /\ phase[q] # "fixed" => cycle[q] < CycleBound
      /\ ~ InUpdate(r) => received[r] = {}
      /\ ~ InUpdate(q) => received[q] = {}
  BY PartitionAssumption DEF TypeOK
<1>2. phase[r] \in {"fixed", "marking"} => received[r] = {} /\ phase[r] # "border"
  BY <1>1 DEF InUpdate, Kind
<1>3. phase[q] \in {"fixed", "marking"} =>
        received[q] = {} /\ Begun(q) = Place("selection", cycle[q])
  BY <1>1 DEF InUpdate, Kind, Begun, Entered, Place
<1>4. /\ phase[q] = "selection" => Begun(q) = Place("border", cycle[q])
      /\ phase[q] = "border" => Begun(q) = Place("selection", cycle[q] + 1)
  BY <1>1 DEF InUpdate, Kind, Begun, Entered, Place
<1>5. /\ phase[r] \in {"fixed", "marking"} => Taken(r, q) = Place("selection", cycle[r])
      /\ phase[r] \in Kind /\ q \notin received[r] => Taken(r, q) = Place(phase[r], cycle[r])
      /\ phase[r] \in Kind /\ q \in received[r] => Taken(r, q) = Place(phase[r], cycle[r]) + 1
  BY <1>1, <1>2 DEF Taken, Place, Kind
<1>6. Taken(r, q) \in Nat /\ Begun(q) \in Nat
  BY <1>1 DEF Taken, Begun, Entered
<1>. QED
  BY <1>1, <1>3, <1>4, <1>5, <1>6

LEMMA ChannelsInit == Init => ChannelsInStep
<1>. SUFFICES ASSUME Init, NEW q \in Rank, NEW r \in Rank
              PROVE  Queue(channel[q][r], q, r, Taken(r, q), Begun(q))
  BY DEF ChannelsInStep
<1>1. channel[q][r] = <<>> /\ Taken(r, q) = 0 /\ Begun(q) = 0
  BY DEF Init, Taken, Begun, Entered, InUpdate, Kind
<1>2. \A kind \in Kind, n \in 0 .. CycleBound : Place(kind, n) \in Nat
  BY Places, PartitionAssumption
<1>3. DOMAIN <<>> = {}
  OBVIOUS
<1>. QED
  BY <1>1, <1>2, <1>3 DEF Queue

(* What a rank sends belongs to the exchange it begins.                    *)
LEMMA ChannelsSend ==
  ASSUME TypeOK, ChannelsInStep, NEW q \in Rank, NEW r \in Rank, NEW kind \in Kind,
         NEW dom \in [EntitiesOn(q) -> SUBSET SubDomain], Send(q, kind, dom),
         Begun(q) = Place(kind, cycle[q])
  PROVE  Queue(channel'[q][r], q, r, Taken(r, q), Begun(q) + 1)
<1> DEFINE m == Message(q, kind, Shared(q, r, kind), dom)
<1>1. m \in MessageTo(q, r)
  BY MessageType
<1>2. m.kind = kind /\ Number(m) = Begun(q)
  BY DEF Message, Number
<1>3. /\ channel[q][r] \in Seq(MessageTo(q, r))
      /\ Queue(channel[q][r], q, r, Taken(r, q), Begun(q))
      /\ Taken(r, q) \in Nat /\ Begun(q) \in Nat /\ cycle[q] \in Nat
  BY Counts DEF TypeOK, ChannelsInStep
<1>4. CASE r # q /\ Shared(q, r, kind) # {}
  <2>1. channel'[q][r] = Append(channel[q][r], m)
    BY <1>4, Sending
  <2> HIDE DEF m
  <2>. QED
    BY <1>1, <1>2, <1>3, <1>4, <2>1, QueueSend
<1>5. CASE r = q \/ Shared(q, r, kind) = {}
  <2>1. channel'[q][r] = channel[q][r]
    BY <1>5, Sending
  <2>. QED
    BY <1>3, <1>5, <2>1, QueueSkip
<1>. QED
  BY <1>4, <1>5

(* A rank that has received from all its sources misses nothing by going   *)
(* on to the next exchange.                                                *)
LEMMA ChannelsGoOn ==
  ASSUME TypeOK, NEW r \in Rank, NEW q \in Rank, NEW s, NEW to \in Nat,
         phase[r] \in Kind, received[r] = Sources(r, phase[r]),
         Queue(s, q, r, Taken(r, q), to)
  PROVE  Queue(s, q, r, Place(phase[r], cycle[r]) + 1, to)
<1>1. /\ cycle[r] \in Nat /\ Place(phase[r], cycle[r]) \in Nat
      /\ q \notin received[r] => Taken(r, q) = Place(phase[r], cycle[r])
      /\ q \in received[r] => Taken(r, q) = Place(phase[r], cycle[r]) + 1
  BY Counts, Places
<1>2. CASE q \in received[r]
  BY <1>1, <1>2
<1>3. CASE q \notin received[r]
  <2>1. q = r \/ Shared(q, r, phase[r]) = {}
    BY <1>3 DEF Sources
  <2>. QED
    BY <1>1, <1>3, <2>1, QueueSkip
<1>. QED
  BY <1>2, <1>3

(* What a rank takes from a channel belongs to the exchange it is in.      *)
LEMMA ChannelsHead ==
  ASSUME TypeOK, ChannelsInStep, NEW r \in Rank, NEW q \in Rank, Receive(r, q)
  PROVE  /\ phase[r] \in Kind /\ q # r /\ Head(channel[q][r]).kind = phase[r]
         /\ Head(channel[q][r]).cycle = cycle[r]
         /\ Queue(Tail(channel[q][r]), q, r, Taken(r, q) + 1, Begun(q))
<1>1. /\ channel[q][r] \in Seq(MessageTo(q, r)) /\ channel[q][r] # <<>>
      /\ Head(channel[q][r]) \in MessageTo(q, r)
      /\ Head(channel[q][r]).kind = phase[r] /\ q \notin received[r]
  BY Receiving DEF Receive
<1>2. phase[r] \in Kind
  BY <1>1, MessageParts
<1>3. /\ Taken(r, q) = Place(phase[r], cycle[r]) /\ Begun(q) \in Nat
      /\ cycle[r] \in 0 .. CycleBound
  BY <1>1, <1>2, Counts DEF TypeOK
<1>4. Queue(channel[q][r], q, r, Place(phase[r], cycle[r]), Begun(q))
  BY <1>3 DEF ChannelsInStep
<1>5. Head(channel[q][r]).cycle = cycle[r] /\ q # r
  BY <1>1, <1>2, <1>3, <1>4, QueueHead
<1>6. Queue(Tail(channel[q][r]), q, r, Place(phase[r], cycle[r]) + 1, Begun(q))
  BY <1>1, <1>2, <1>3, <1>4, <1>5, QueueTake
<1>. QED
  BY <1>1, <1>2, <1>3, <1>5, <1>6

LEMMA ChannelsStep == TypeOK /\ ChannelsInStep /\ [Next]_vars => ChannelsInStep'
<1>. SUFFICES ASSUME TypeOK, ChannelsInStep, [Next]_vars,
                     NEW q \in Rank, NEW r \in Rank
              PROVE  Queue(channel'[q][r], q, r, Taken(r, q)', Begun(q)')
  BY DEF ChannelsInStep
<1>1. TypeOK'
  BY TypeStep
<1>2. Queue(channel[q][r], q, r, Taken(r, q), Begun(q))
  BY DEF ChannelsInStep
<1>3. /\ Taken(r, q) \in Nat /\ Begun(q) \in Nat
      /\ cycle[r] \in Nat /\ cycle[q] \in Nat
      /\ phase \in [Rank -> Phase] /\ cycle \in [Rank -> 0 .. CycleBound]
      /\ received \in [Rank -> SUBSET Rank]
  BY Counts DEF TypeOK
<1>4. ASSUME NEW t \in Rank, StartMarking(t) \/ Mark(t)
      PROVE  Queue(channel'[q][r], q, r, Taken(r, q)', Begun(q)')
  <2>1. UNCHANGED <<cycle, channel, received>>
    BY <1>4 DEF StartMarking, Mark, AddToSubDomain, RemoveFromSubDomain, Assigned
  <2>2. \A p \in Rank : (phase'[p] \in Kind <=> phase[p] \in Kind)
                     /\ (phase'[p] = "border" <=> phase[p] = "border")
    BY <1>3, <1>4 DEF StartMarking, Mark, AddToSubDomain, RemoveFromSubDomain, Assigned, Kind
  <2>3. Taken(r, q)' = Taken(r, q) /\ Begun(q)' = Begun(q)
    BY <2>1, <2>2 DEF Taken, Begun, Entered, InUpdate
  <2>. QED
    BY <1>2, <2>1, <2>3
<1>5. ASSUME NEW t \in Rank, CommunicateSelection(t)
      PROVE  Queue(channel'[q][r], q, r, Taken(r, q)', Begun(q)')
  <2>1. /\ phase[t] = "marking" /\ cycle' = cycle
        /\ \A p \in Rank : phase'[p] = IF p = t THEN "selection" ELSE phase[p]
        /\ \A p \in Rank : received'[p] = IF p = t THEN {} ELSE received[p]
    BY <1>3, <1>5 DEF CommunicateSelection
  <2>2. Taken(r, q)' = Taken(r, q)
    <3>1. received[t] = {}
      BY <2>1, Counts
    <3>. QED
      BY <2>1, <3>1 DEF Taken
  <2>3. Send(t, "selection", domains[t]) /\ domains[t] \in [EntitiesOn(t) -> SUBSET SubDomain]
    BY <1>5 DEF CommunicateSelection, TypeOK
  <2>4. CASE q = t
    <3>1. Begun(q) = Place("selection", cycle[q])
      BY <2>1, <2>4, Counts
    <3>2. Begun(q)' = Begun(q) + 1
      BY <1>3, <2>1, <2>4 DEF Begun, Entered, InUpdate, Kind
    <3>. QED
      BY <2>2, <2>3, <2>4, <3>1, <3>2, ChannelsSend DEF Kind
  <2>5. CASE q # t
    <3>1. channel'[q][r] = channel[q][r]
      BY <2>3, <2>5, Sending DEF Kind
    <3>2. Begun(q)' = Begun(q)
      BY <2>1, <2>5 DEF Begun, Entered, InUpdate
    <3>. QED
      BY <1>2, <2>2, <3>1, <3>2
  <2>. QED
    BY <2>4, <2>5
<1>6. ASSUME NEW t \in Rank, MarkAndPropagate(t)
      PROVE  Queue(channel'[q][r], q, r, Taken(r, q)', Begun(q)')
  <2>1. /\ phase[t] = "selection" /\ cycle' = cycle /\ received[t] = Sources(t, phase[t])
        /\ \A p \in Rank : phase'[p] = IF p = t THEN "border" ELSE phase[p]
        /\ \A p \in Rank : received'[p] = IF p = t THEN {} ELSE received[p]
    BY <1>3, <1>6 DEF MarkAndPropagate
  <2>2. Send(t, "border", domains'[t]) /\ domains'[t] \in [EntitiesOn(t) -> SUBSET SubDomain]
    BY <1>1, <1>6 DEF MarkAndPropagate, TypeOK
  <2>3. Begun(q)' \in Nat /\ Queue(channel'[q][r], q, r, Taken(r, q), Begun(q)')
    <3>1. CASE q = t
      <4>1. Begun(q) = Place("border", cycle[q])
        BY <2>1, <3>1, Counts
      <4>2. Begun(q)' = Begun(q) + 1
        BY <1>3, <2>1, <3>1 DEF Begun, Entered, InUpdate, Kind
      <4>. QED
        BY <1>3, <2>2, <3>1, <4>1, <4>2, ChannelsSend DEF Kind
    <3>2. CASE q # t
      <4>1. channel'[q][r] = channel[q][r]
        BY <2>2, <3>2, Sending DEF Kind
      <4>2. Begun(q)' = Begun(q)
        BY <2>1, <3>2 DEF Begun, Entered, InUpdate
      <4>. QED
        BY <1>2, <1>3, <4>1, <4>2
    <3>. QED
      BY <3>1, <3>2
  <2>4. CASE r = t
    <3>1. Queue(channel'[q][r], q, r, Place(phase[r], cycle[r]) + 1, Begun(q)')
      BY <2>1, <2>3, <2>4, ChannelsGoOn DEF Kind
    <3>2. Taken(r, q)' = Place(phase[r], cycle[r]) + 1
      BY <1>3, <2>1, <2>4 DEF Taken, Place
    <3>. QED
      BY <3>1, <3>2
  <2>5. CASE r # t
    <3>1. Taken(r, q)' = Taken(r, q)
      BY <2>1, <2>5 DEF Taken
    <3>. QED
      BY <2>3, <3>1
  <2>. QED
    BY <2>4, <2>5
<1>7. ASSUME NEW t \in Rank, EndUpdate(t)
      PROVE  Queue(channel'[q][r], q, r, Taken(r, q)', Begun(q)')
  <2>1. /\ phase[t] = "border" /\ received[t] = Sources(t, phase[t]) /\ channel' = channel
        /\ \A p \in Rank : cycle'[p] = IF p = t THEN cycle[p] + 1 ELSE cycle[p]
        /\ \A p \in Rank : phase'[p] = IF p = t THEN "fixed" ELSE phase[p]
        /\ \A p \in Rank : received'[p] = IF p = t THEN {} ELSE received[p]
    BY <1>3, <1>7 DEF EndUpdate
  <2>2. Begun(q)' = Begun(q)
    BY <1>3, <2>1 DEF Begun, Entered, InUpdate, Kind
  <2>3. CASE r = t
    <3>1. Queue(channel[q][r], q, r, Place(phase[r], cycle[r]) + 1, Begun(q))
      BY <1>2, <1>3, <2>1, <2>3, ChannelsGoOn DEF Kind
    <3>2. Taken(r, q)' = Place(phase[r], cycle[r]) + 1
      BY <1>3, <2>1, <2>3 DEF Taken, Place
    <3>. QED
      BY <2>1, <2>2, <3>1, <3>2
  <2>4. CASE r # t
    <3>1. Taken(r, q)' = Taken(r, q)
      BY <2>1, <2>4 DEF Taken
    <3>. QED
      BY <1>2, <2>1, <2>2, <3>1
  <2>. QED
    BY <2>3, <2>4
<1>8. ASSUME NEW t \in Rank, NEW p \in Rank, Receive(t, p)
      PROVE  Queue(channel'[q][r], q, r, Taken(r, q)', Begun(q)')
  <2>1. /\ p \notin received[t] /\ UNCHANGED <<phase, cycle>>
        /\ \A u \in Rank : received'[u] = IF u = t THEN received[u] \cup {p} ELSE received[u]
    BY <1>3, <1>8 DEF Receive
  <2>2. Begun(q)' = Begun(q)
    BY <2>1 DEF Begun, Entered, InUpdate
  <2>3. channel'[q][r] = IF q = p /\ r = t THEN Tail(channel[p][t]) ELSE channel[q][r]
    BY <1>8, Receiving
  <2>4. CASE q = p /\ r = t
    <3>1. Queue(Tail(channel[q][r]), q, r, Taken(r, q) + 1, Begun(q))
      BY <1>8, <2>4, ChannelsHead
    <3>2. Taken(r, q)' = Taken(r, q) + 1
      <4>1. q \notin received[r] /\ q \in received'[r] /\ phase' = phase /\ cycle' = cycle
        BY <2>1, <2>4
      <4>. QED
        BY <1>3, <4>1 DEF Taken
    <3>. QED
      BY <2>2, <2>3, <2>4, <3>1, <3>2
  <2>5. CASE ~ (q = p /\ r = t)
    <3>1. Taken(r, q)' = Taken(r, q)
      BY <2>1, <2>5 DEF Taken
    <3>. QED
      BY <1>2, <2>2, <2>3, <2>5, <3>1
  <2>. QED
    BY <2>4, <2>5
<1>9. CASE UNCHANGED vars
  BY <1>2, <1>9 DEF vars, Taken, Begun, Entered, InUpdate
<1>. QED
  BY <1>4, <1>5, <1>6, <1>7, <1>8, <1>9 DEF Next, Exchange, AllDone

(* Every message is taken in the exchange of the cycle it was sent in      *)
(* (communicate 1049-1059), on any number of ranks.                        *)
THEOREM MessagesMeetTheirExchange == Spec => []ChannelsInStep
<1>1. Init => TypeOK /\ ChannelsInStep
  BY TypeInit, ChannelsInit
<1>2. TypeOK /\ ChannelsInStep /\ [Next]_vars => (TypeOK /\ ChannelsInStep)'
  BY TypeStep, ChannelsStep
<1>. QED
  BY <1>1, <1>2, PTL DEF Spec

-----------------------------------------------------------------------------
(* What is known where.                                                    *)

LEMMA Updates ==
  ASSUME TypeOK, NEW r \in Rank, NEW q \in Rank
  PROVE  /\ Entered(r) \in 0 .. CycleBound /\ Heard(r, q) \in 0 .. CycleBound
         /\ cycle[r] \in 0 .. CycleBound
         /\ phase[r] \in Kind => Entered(r) = cycle[r] + 1
         /\ phase[r] \notin Kind => Entered(r) = cycle[r]
<1>1. /\ cycle[r] \in 0 .. CycleBound /\ CycleBound \in Nat
      /\ phase[r] # "fixed" => cycle[r] < CycleBound
      /\ phase[r] \notin Kind => received[r] = {}
  BY PartitionAssumption DEF TypeOK, InUpdate
<1>2. "fixed" \notin Kind /\ "border" \in Kind
  BY DEF Kind
<1>3. Entered(r) = IF phase[r] \in Kind THEN cycle[r] + 1 ELSE cycle[r]
  BY <1>1 DEF Entered, InUpdate
<1>4. Heard(r, q) = cycle[r] \/ (Heard(r, q) = cycle[r] + 1 /\ phase[r] # "fixed")
  BY <1>1, <1>2 DEF Heard
<1>. QED
  BY <1>1, <1>2, <1>3, <1>4

(* A rank hears of its ghosts, and of the cells around its sub-entities    *)
(* that are not its own.                                                   *)
LEMMA Neighbours ==
  ASSUME NEW r \in Rank
  PROVE  /\ \A c \in Ghosts[r] :
              /\ c \in Cell /\ c \in EntitiesOn(r) /\ Owner[c] \in Rank /\ Owner[c] # r
              /\ c \in Shared(Owner[c], r, "selection")
              /\ Owner[c] \in Sources(r, "selection")
         /\ \A e \in EntitiesOn(r) \ Cell : \A c \in Around(e) :
              /\ c \in Cell /\ Owner[c] \in Rank
              /\ e \in Shared(Owner[c], r, "border")
              /\ Owner[c] # r => Owner[c] \in Sources(r, "border")
         /\ \A c \in Cell : Owner[c] = r => c \in EntitiesOn(r)
<1>1. ASSUME NEW c \in Ghosts[r]
      PROVE  /\ c \in Cell /\ c \in EntitiesOn(r) /\ Owner[c] \in Rank /\ Owner[c] # r
             /\ c \in Shared(Owner[c], r, "selection")
             /\ Owner[c] \in Sources(r, "selection")
  <2>1. c \in Cell /\ c \in EntitiesOn(r) /\ Owner[c] \in Rank /\ Owner[c] # r
    BY PartitionAssumption, Entities
  <2>2. c \in Shared(Owner[c], r, "selection")
    BY <2>1 DEF Shared, Sends, Interior
  <2>. QED
    BY <2>1, <2>2 DEF Sources
<1>2. ASSUME NEW e \in EntitiesOn(r) \ Cell, NEW c \in Around(e)
      PROVE  /\ c \in Cell /\ Owner[c] \in Rank
             /\ e \in Shared(Owner[c], r, "border")
             /\ Owner[c] # r => Owner[c] \in Sources(r, "border")
  <2>1. c \in Cell /\ e \in Closure[c] /\ Owner[c] \in Rank
    BY PartitionAssumption DEF Around
  <2>2. e \in SubEntitiesOf(Interior(Owner[c]))
    BY <2>1 DEF SubEntitiesOf, Interior
  <2>3. e \in Shared(Owner[c], r, "border")
    BY <2>2 DEF Shared, Sends
  <2>. QED
    BY <2>1, <2>3 DEF Sources
<1>3. \A c \in Cell : Owner[c] = r => c \in EntitiesOn(r)
  BY DEF EntitiesOn, CellsOn, Interior
<1>. QED
  BY <1>1, <1>2, <1>3

LEMMA FollowInit == Init => \E h \in Histories : Follow(h)
<1>. SUFFICES ASSUME Init PROVE \E h \in Histories : Follow(h)
  OBVIOUS
<1> DEFINE h == [c \in Cell |-> [n \in 0 .. CycleBound |-> {}]]
<1>1. h \in Histories
  BY DEF Histories
<1>2. \A c \in Cell : \A n \in 0 .. CycleBound : h[c][n] = {}
  OBVIOUS
<1> HIDE DEF h
<1>3. /\ \A r \in Rank : phase[r] = "fixed" /\ cycle[r] = 0 /\ received[r] = {}
      /\ \A r \in Rank : \A e \in EntitiesOn(r) : domains[r][e] = {}
      /\ \A q, r \in Rank : channel[q][r] = <<>>
  BY DEF Init
<1>4. /\ \A r \in Rank : Entered(r) = 0
      /\ \A r, q \in Rank : Heard(r, q) = 0
  BY <1>3 DEF Entered, Heard, InUpdate, Kind
<1>5. 0 \in 0 .. CycleBound
  BY PartitionAssumption
<1>6. OwnersFollow(h)
  <2>. SUFFICES ASSUME NEW c \in Cell, NEW o \in Rank, o = Owner[c]
       PROVE  /\ h[c][0] = {}
              /\ \A n \in 0 .. CycleBound : n > Entered(o) => h[c][n] = {}
              /\ phase[o] # "marking" => domains[o][c] = h[c][Entered(o)]
              /\ ~ removed =>
                   /\ \A m, n \in 0 .. Entered(o) : m <= n => h[c][m] \subseteq h[c][n]
                   /\ h[c][Entered(o)] \subseteq domains[o][c]
    BY PartitionAssumption DEF OwnersFollow
  <2>1. Entered(o) = 0 /\ domains[o][c] = {} /\ h[c][0] = {}
    BY <1>2, <1>3, <1>4, <1>5, Neighbours
  <2>. QED
    BY <1>2, <2>1
<1>7. CopiesFollow(h)
  BY <1>2, <1>3, <1>4, <1>5, Neighbours DEF CopiesFollow, Has, Within
<1>8. SubEntitiesFollow(h)
  BY <1>2, <1>3, <1>4, <1>5, Neighbours DEF SubEntitiesFollow, Has, Within
<1>9. MessagesFollow(h)
  BY <1>3 DEF MessagesFollow
<1>. QED
  BY <1>1, <1>6, <1>7, <1>8, <1>9 DEF Follow

(* A step that leaves the owners' cells alone.                             *)
LEMMA OwnersKept ==
  ASSUME NEW h \in Histories, OwnersFollow(h), removed' = removed,
         \A p \in Rank : Entered(p)' = Entered(p),
         \A p \in Rank : phase'[p] # "marking" => phase[p] # "marking",
         \A c \in Cell : domains'[Owner[c]][c] = domains[Owner[c]][c]
  PROVE  OwnersFollow(h)'
<1>. SUFFICES ASSUME NEW c \in Cell, NEW o \in Rank, o = Owner[c]
     PROVE  /\ h[c][0] = {}
            /\ \A n \in 0 .. CycleBound : n > Entered(o)' => h[c][n] = {}
            /\ phase'[o] # "marking" => domains'[o][c] = h[c][Entered(o)']
            /\ ~ removed' =>
                 /\ \A m, n \in 0 .. Entered(o)' : m <= n => h[c][m] \subseteq h[c][n]
                 /\ h[c][Entered(o)'] \subseteq domains'[o][c]
  BY PartitionAssumption DEF OwnersFollow
<1>1. domains'[o][c] = domains[o][c]
  OBVIOUS
<1>. QED
  BY <1>1 DEF OwnersFollow

(* A step that sends nothing.                                              *)
LEMMA MessagesKept ==
  ASSUME NEW h \in Histories, MessagesFollow(h), channel' = channel,
         \A p \in Rank : Entered(p)' = Entered(p)
  PROVE  MessagesFollow(h)'
<1>. SUFFICES ASSUME NEW q \in Rank, NEW p \in Rank, NEW i \in DOMAIN channel[q][p],
                     NEW e \in DOMAIN channel[q][p][i].data
              PROVE  LET m == channel[q][p][i] IN
                     /\ Within(h, m.data[e], Around(e), m.cycle + 1)
                     /\ \A c \in Around(e) : Owner[c] = q =>
                          m.cycle + 1 <= Entered(q)' /\ h[c][m.cycle + 1] \subseteq m.data[e]
  BY DEF MessagesFollow, Has, Within
<1>. QED
  BY DEF MessagesFollow, Has

LEMMA FollowStart ==
  ASSUME TypeOK, NEW h \in Histories, Follow(h), NEW r \in Rank, StartMarking(r)
  PROVE  Follow(h)'
<1>1. /\ phase[r] = "fixed" /\ UNCHANGED <<cycle, channel, received, removed>>
      /\ \A p \in Rank : phase'[p] = IF p = r THEN "marking" ELSE phase[p]
      /\ \A p \in Rank : p # r => domains'[p] = domains[p]
      /\ \A e \in EntitiesOn(r) : domains'[r][e] = IF e \in Cell THEN domains[r][e] ELSE {}
  BY DEF StartMarking, TypeOK
<1>2. \A p \in Rank : Entered(p)' = Entered(p)
  BY <1>1 DEF Entered, InUpdate, Kind
<1>3. \A p, q \in Rank : Heard(p, q)' = Heard(p, q)
  BY <1>1 DEF Heard
<1>4. \A p \in Rank : \A c \in EntitiesOn(p) : c \in Cell => domains'[p][c] = domains[p][c]
  BY <1>1
<1>5. OwnersFollow(h)'
  <2>1. \A c \in Cell : domains'[Owner[c]][c] = domains[Owner[c]][c]
    BY <1>4, Neighbours, PartitionAssumption
  <2>. QED
    BY <1>1, <1>2, <2>1, OwnersKept DEF Follow
<1>6. CopiesFollow(h)'
  BY <1>2, <1>3, <1>4, Neighbours DEF Follow, CopiesFollow, Has, Within
<1>7. SubEntitiesFollow(h)'
  BY <1>1, <1>2, <1>3, Neighbours DEF Follow, SubEntitiesFollow, Has, Within
<1>8. MessagesFollow(h)'
  BY <1>1, <1>2, MessagesKept DEF Follow
<1>. QED
  BY <1>5, <1>6, <1>7, <1>8 DEF Follow

LEMMA FollowMark ==
  ASSUME TypeOK, NEW h \in Histories, Follow(h), NEW r \in Rank, Mark(r)
  PROVE  Follow(h)'
<1>1. PICK c \in Cell, s \in SubDomain : AddToSubDomain(r, s, c) \/ RemoveFromSubDomain(r, s, c)
  BY DEF Mark
<1>2. /\ phase[r] = "marking" /\ Owner[c] = r
      /\ UNCHANGED <<phase, cycle, channel, received>>
      /\ \A p \in Rank : p # r => domains'[p] = domains[p]
      /\ \A e \in EntitiesOn(r) : e # c => domains'[r][e] = domains[r][e]
  BY <1>1 DEF AddToSubDomain, RemoveFromSubDomain, Assigned, TypeOK
<1>3. \/ removed' = removed /\ domains[r][c] \subseteq domains'[r][c]
      \/ ~ removed' => ~ removed /\ ~ cycle[r] > 0
  <2>1. c \in EntitiesOn(r) /\ domains[r] \in [EntitiesOn(r) -> SUBSET SubDomain]
    BY <1>2, Neighbours DEF TypeOK
  <2>2. ASSUME AddToSubDomain(r, s, c) PROVE domains'[r][c] = domains[r][c] \cup {s}
    BY <2>1, <2>2 DEF AddToSubDomain, Assigned, TypeOK
  <2>3. ASSUME RemoveFromSubDomain(r, s, c) PROVE ~ removed' => ~ removed /\ ~ cycle[r] > 0
    BY <2>3, Zenon DEF RemoveFromSubDomain
  <2>. QED
    BY <1>1, <2>2, <2>3 DEF AddToSubDomain
<1>4. \A p \in Rank : Entered(p)' = Entered(p)
  BY <1>2 DEF Entered, InUpdate
<1>5. \A p, q \in Rank : Heard(p, q)' = Heard(p, q)
  BY <1>2 DEF Heard
<1>6. OwnersFollow(h)'
  <2>. SUFFICES ASSUME NEW d \in Cell, NEW o \in Rank, o = Owner[d]
       PROVE  /\ h[d][0] = {}
              /\ \A n \in 0 .. CycleBound : n > Entered(o)' => h[d][n] = {}
              /\ phase'[o] # "marking" => domains'[o][d] = h[d][Entered(o)']
              /\ ~ removed' =>
                   /\ \A m, n \in 0 .. Entered(o)' : m <= n => h[d][m] \subseteq h[d][n]
                   /\ h[d][Entered(o)'] \subseteq domains'[o][d]
    BY PartitionAssumption DEF OwnersFollow
  <2>1. /\ h[d][0] = {}
        /\ \A n \in 0 .. CycleBound : n > Entered(o) => h[d][n] = {}
        /\ phase[o] # "marking" => domains[o][d] = h[d][Entered(o)]
        /\ ~ removed =>
             /\ \A m, n \in 0 .. Entered(o) : m <= n => h[d][m] \subseteq h[d][n]
             /\ h[d][Entered(o)] \subseteq domains[o][d]
    BY DEF Follow, OwnersFollow
  <2>2. ~ removed' => ~ removed
    BY <1>3
  <2>3. CASE d # c
    <3>1. domains'[o][d] = domains[o][d]
      BY <1>2, <2>3, Neighbours
    <3>. QED
      BY <1>2, <1>4, <2>1, <2>2, <3>1
  <2>4. CASE d = c
    <3>1. o = r /\ phase'[o] = "marking"
      BY <1>2, <2>4
    <3>2. ~ removed' => h[d][Entered(o)] \subseteq domains'[o][d]
      <4>1. CASE removed' = removed /\ domains[r][c] \subseteq domains'[r][c]
        BY <2>1, <2>4, <3>1, <4>1
      <4>2. CASE ~ removed' => ~ removed /\ ~ cycle[r] > 0
        <5>1. cycle[r] \in Nat /\ Entered(r) = cycle[r]
          BY <1>2, Updates, PartitionAssumption DEF Kind
        <5>2. ~ removed' => Entered(o) = 0
          BY <3>1, <4>2, <5>1
        <5>. QED
          BY <2>1, <5>2
      <4>. QED
        BY <1>3, <4>1, <4>2
    <3>. QED
      BY <1>4, <2>1, <2>2, <3>1, <3>2
  <2>. QED
    BY <2>3, <2>4
<1>7. CopiesFollow(h)'
  <2>1. \A p \in Rank : \A d \in Ghosts[p] : domains'[p][d] = domains[p][d]
    BY <1>2, Neighbours
  <2>. QED
    BY <1>4, <1>5, <2>1, Neighbours DEF Follow, CopiesFollow, Has, Within
<1>8. SubEntitiesFollow(h)'
  <2>1. \A p \in Rank : \A e \in EntitiesOn(p) \ Cell : domains'[p][e] = domains[p][e]
    BY <1>2
  <2>. QED
    BY <1>2, <1>4, <2>1, Neighbours DEF Follow, SubEntitiesFollow, Has, Within
<1>9. MessagesFollow(h)'
  BY <1>2, <1>4, MessagesKept DEF Follow
<1>. QED
  BY <1>6, <1>7, <1>8, <1>9 DEF Follow

(* The end of the second exchange: all ranks around have been heard.       *)
LEMMA FollowEnd ==
  ASSUME TypeOK, NEW h \in Histories, Follow(h), NEW r \in Rank, EndUpdate(r)
  PROVE  Follow(h)'
<1>1. /\ phase[r] = "border" /\ received[r] = Sources(r, "border")
      /\ UNCHANGED <<domains, channel, removed>>
      /\ \A p \in Rank : phase'[p] = IF p = r THEN "fixed" ELSE phase[p]
      /\ \A p \in Rank : cycle'[p] = IF p = r THEN cycle[p] + 1 ELSE cycle[p]
      /\ \A p \in Rank : received'[p] = IF p = r THEN {} ELSE received[p]
  BY DEF EndUpdate, TypeOK
<1>2. \A p \in Rank : cycle[p] \in Nat
  BY PartitionAssumption DEF TypeOK
<1>3. \A p \in Rank : Entered(p)' = Entered(p)
  BY <1>1, <1>2 DEF Entered, InUpdate, Kind
<1>4. \A p, q \in Rank : Heard(p, q)' = Heard(p, q)
  BY <1>1, <1>2 DEF Heard
<1>5. OwnersFollow(h)'
  BY <1>1, <1>3, OwnersKept DEF Follow
<1>6. CopiesFollow(h)'
  BY <1>1, <1>3, <1>4, Neighbours DEF Follow, CopiesFollow, Has, Within
<1>7. SubEntitiesFollow(h)'
  <2>. SUFFICES ASSUME NEW p \in Rank, NEW e \in EntitiesOn(p) \ Cell
       PROVE  /\ phase'[p] \in {"marking", "selection"} => domains[p][e] = {}
              /\ phase'[p] \in {"fixed", "border"} =>
                   /\ Within(h, domains[p][e], Around(e), Entered(p)')
                   /\ \A c \in Around(e) :
                        phase'[p] = "fixed" \/ Owner[c] \in received'[p] \cup {p} =>
                          Entered(p)' <= Entered(Owner[c])' /\ h[c][Entered(p)'] \subseteq domains[p][e]
    BY <1>1 DEF SubEntitiesFollow, Has, Within
  <2>1. /\ phase[p] \in {"marking", "selection"} => domains[p][e] = {}
        /\ phase[p] \in {"fixed", "border"} =>
             /\ Within(h, domains[p][e], Around(e), Entered(p))
             /\ \A c \in Around(e) :
                  phase[p] = "fixed" \/ Owner[c] \in received[p] \cup {p} =>
                    Entered(p) <= Entered(Owner[c]) /\ h[c][Entered(p)] \subseteq domains[p][e]
    BY DEF Follow, SubEntitiesFollow, Has
  <2>2. \A c \in Around(e) :
          /\ Entered(Owner[c])' = Entered(Owner[c])
          /\ p = r => Owner[c] \in received[p] \cup {p}
    BY <1>1, <1>3, Neighbours
  <2>. QED
    BY <1>1, <1>3, <2>1, <2>2
<1>8. MessagesFollow(h)'
  BY <1>1, <1>3, MessagesKept DEF Follow
<1>. QED
  BY <1>5, <1>6, <1>7, <1>8 DEF Follow

LEMMA WithinLater ==
  ASSUME NEW h, NEW D, NEW C, NEW m \in Nat, NEW n \in Nat, m <= n, Within(h, D, C, m)
  PROVE  Within(h, D, C, n)
<1>. SUFFICES ASSUME NEW s \in D PROVE \E c \in C, i \in 0 .. n : s \in h[c][i]
  BY DEF Within
<1>1. PICK c \in C, i \in 0 .. m : s \in h[c][i]
  BY DEF Within
<1>2. i \in 0 .. n
  OBVIOUS
<1>. QED
  BY <1>1, <1>2

(* What MessagesFollow says of one message, of q in its n-th update after  *)
(* it has entered so many.                                                 *)
Tells(h, q, news, n, entered) ==
  \A e \in DOMAIN news :
    /\ Within(h, news[e], Around(e), n)
    /\ \A c \in Around(e) : Owner[c] = q => n <= entered /\ h[c][n] \subseteq news[e]

LEMMA MessagesTell ==
  ASSUME NEW h
  PROVE  /\ MessagesFollow(h) <=>
              \A q, r \in Rank : \A i \in DOMAIN channel[q][r] :
                Tells(h, q, channel[q][r][i].data, channel[q][r][i].cycle + 1, Entered(q))
         /\ MessagesFollow(h)' <=>
              \A q, r \in Rank : \A i \in DOMAIN channel'[q][r] :
                Tells(h, q, channel'[q][r][i].data, channel'[q][r][i].cycle + 1, Entered(q)')
BY DEF MessagesFollow, Tells, Has, Within

(* A step that sends: the old messages, and the new ones.                  *)
LEMMA MessagesSent ==
  ASSUME TypeOK, NEW h \in Histories, NEW q \in Rank, NEW kind \in Kind,
         NEW dom \in [EntitiesOn(q) -> SUBSET SubDomain], Send(q, kind, dom),
         \A p, r \in Rank : \A i \in DOMAIN channel[p][r] :
           Tells(h, p, channel[p][r][i].data, channel[p][r][i].cycle + 1, Entered(p)'),
         \A r \in Rank : Tells(h, q, [e \in Shared(q, r, kind) |-> dom[e]], cycle[q] + 1, Entered(q)')
  PROVE  MessagesFollow(h)'
<1>. SUFFICES ASSUME NEW p \in Rank, NEW r \in Rank, NEW i \in DOMAIN channel'[p][r]
     PROVE  Tells(h, p, channel'[p][r][i].data, channel'[p][r][i].cycle + 1, Entered(p)')
  BY MessagesTell
<1> DEFINE m == Message(q, kind, Shared(q, r, kind), dom)
<1>1. channel'[p][r] = IF p = q /\ r # q /\ Shared(q, r, kind) # {}
                       THEN Append(channel[p][r], m) ELSE channel[p][r]
  BY Sending
<1>2. channel[p][r] \in Seq(MessageTo(p, r)) /\ (p = q => m \in MessageTo(p, r))
  BY MessageType DEF TypeOK
<1>3. m.data = [e \in Shared(q, r, kind) |-> dom[e]] /\ m.cycle = cycle[q]
  BY DEF Message
<1> HIDE DEF m
<1>4. \/ i \in DOMAIN channel[p][r] /\ channel'[p][r][i] = channel[p][r][i]
      \/ p = q /\ channel'[p][r][i] = m
  <2>1. CASE channel'[p][r] = channel[p][r]
    BY <2>1
  <2>2. CASE p = q /\ channel'[p][r] = Append(channel[p][r], m)
    BY <1>2, <2>2
  <2>. QED
    BY <1>1, <2>1, <2>2
<1>. QED
  BY <1>3, <1>4

(* The end of the first exchange: the ghosts are as their owners sent      *)
(* them, and with the own cells make what the sub-entities get.            *)
LEMMA FollowPropagate ==
  ASSUME TypeOK, TypeOK', NEW h \in Histories, Follow(h), NEW r \in Rank, MarkAndPropagate(r)
  PROVE  Follow(h)'
<1>1. /\ phase[r] = "selection" /\ received[r] = Sources(r, "selection")
      /\ UNCHANGED <<cycle, removed>>
      /\ \A p \in Rank : phase'[p] = IF p = r THEN "border" ELSE phase[p]
      /\ \A p \in Rank : received'[p] = IF p = r THEN {} ELSE received[p]
      /\ \A p \in Rank : domains'[p] = IF p = r THEN MarkedSubEntities(r) ELSE domains[p]
      /\ Send(r, "border", domains'[r])
  BY DEF MarkAndPropagate, TypeOK
<1>2. \A p \in Rank : Entered(p)' = Entered(p)
  BY <1>1 DEF Entered, InUpdate, Kind
<1>3. Entered(r) = cycle[r] + 1 /\ Entered(r) \in 0 .. CycleBound
  BY <1>1, Updates DEF Kind
<1>4. \A p \in Rank : \A c \in CellsOn(p) : domains'[p][c] = domains[p][c]
  BY <1>1, MarkedType
<1>5. ASSUME NEW p \in Rank, NEW c \in Ghosts[p]
      PROVE  Heard(p, Owner[c])' = Heard(p, Owner[c]) /\ (p = r => Heard(p, Owner[c]) = cycle[r] + 1)
  <2>1. p = r => Owner[c] \in received[p]
    BY <1>1, Neighbours
  <2>. QED
    BY <1>1, <2>1 DEF Heard
<1>6. OwnersFollow(h)'
  <2>1. \A c \in Cell : domains'[Owner[c]][c] = domains[Owner[c]][c]
    BY <1>4, PartitionAssumption DEF CellsOn, Interior
  <2>. QED
    BY <1>1, <1>2, <2>1, OwnersKept DEF Follow
<1>7. CopiesFollow(h)'
  <2>. SUFFICES ASSUME NEW p \in Rank, NEW c \in Ghosts[p]
       PROVE  /\ Heard(p, Owner[c])' <= Entered(Owner[c])'
              /\ h[c][Heard(p, Owner[c])'] \subseteq domains'[p][c]
              /\ Within(h, domains'[p][c], {c}, Heard(p, Owner[c])')
    BY DEF CopiesFollow, Has, Within
  <2>1. domains'[p][c] = domains[p][c] /\ Entered(Owner[c])' = Entered(Owner[c])
    BY <1>2, <1>4, Neighbours, Entities
  <2>. QED
    BY <1>5, <2>1 DEF Follow, CopiesFollow, Has
<1>8. ASSUME NEW e \in EntitiesOn(r) \ Cell
      PROVE  /\ Within(h, domains'[r][e], Around(e), cycle[r] + 1)
             /\ \A c \in Around(e) : Owner[c] = r => h[c][cycle[r] + 1] \subseteq domains'[r][e]
  <2>1. domains[r][e] = {}
    BY <1>1 DEF Follow, SubEntitiesFollow
  <2>2. domains'[r][e] = UNION {domains[r][c] : c \in {c \in CellsOn(r) : e \in Closure[c]}}
    <3>1. domains'[r][e] =
            domains[r][e] \cup UNION {domains[r][c] : c \in {c \in CellsOn(r) : e \in Closure[c]}}
      BY <1>1 DEF MarkedSubEntities
    <3>. QED
      BY <2>1, <3>1
  <2>3. \A c \in Cell : Owner[c] = r => domains[r][c] = h[c][cycle[r] + 1]
    BY <1>1, <1>3 DEF Follow, OwnersFollow
  <2>4. Within(h, domains'[r][e], Around(e), cycle[r] + 1)
    <3>. SUFFICES ASSUME NEW s \in domains'[r][e]
                  PROVE  \E c \in Around(e), m \in 0 .. cycle[r] + 1 : s \in h[c][m]
      BY DEF Within
    <3>1. PICK c \in CellsOn(r) : e \in Closure[c] /\ s \in domains[r][c]
      BY <2>2
    <3>2. c \in Cell /\ c \in Around(e) /\ (Owner[c] = r \/ c \in Ghosts[r])
      BY <3>1, Entities DEF Around
    <3>3. CASE Owner[c] = r
      BY <1>3, <2>3, <3>1, <3>2, <3>3
    <3>4. CASE c \in Ghosts[r]
      <4>1. Within(h, domains[r][c], {c}, cycle[r] + 1)
        BY <1>5, <3>4 DEF Follow, CopiesFollow
      <4>. QED
        BY <3>1, <3>2, <4>1 DEF Within
    <3>. QED
      BY <3>2, <3>3, <3>4
  <2>5. ASSUME NEW c \in Around(e), Owner[c] = r
        PROVE  h[c][cycle[r] + 1] \subseteq domains'[r][e]
    <3>1. c \in CellsOn(r) /\ e \in Closure[c] /\ c \in Cell
      BY <2>5 DEF Around, CellsOn, Interior
    <3>. QED
      BY <2>2, <2>3, <2>5, <3>1
  <2>. QED
    BY <2>4, <2>5
<1>9. SubEntitiesFollow(h)'
  <2>. SUFFICES ASSUME NEW p \in Rank, NEW e \in EntitiesOn(p) \ Cell
       PROVE  /\ phase'[p] \in {"marking", "selection"} => domains'[p][e] = {}
              /\ phase'[p] \in {"fixed", "border"} =>
                   /\ Within(h, domains'[p][e], Around(e), Entered(p)')
                   /\ \A c \in Around(e) :
                        phase'[p] = "fixed" \/ Owner[c] \in received'[p] \cup {p} =>
                          Entered(p)' <= Entered(Owner[c])' /\ h[c][Entered(p)'] \subseteq domains'[p][e]
    BY DEF SubEntitiesFollow, Has, Within
  <2>1. CASE p = r
    BY <1>1, <1>2, <1>3, <1>8, <2>1
  <2>2. CASE p # r
    <3>1. \A c \in Around(e) : Entered(Owner[c])' = Entered(Owner[c])
      BY <1>2, Neighbours
    <3>. QED
      BY <1>1, <1>2, <2>2, <3>1 DEF Follow, SubEntitiesFollow, Has
  <2>. QED
    BY <2>1, <2>2
<1>10. MessagesFollow(h)'
  <2>1. \A p \in Rank : Tells(h, r, [e \in Shared(r, p, "border") |-> domains'[r][e]],
                              cycle[r] + 1, Entered(r)')
    <3>1. \A p \in Rank : Shared(r, p, "border") \subseteq EntitiesOn(r) \ Cell
      BY SharedEntities DEF Kind
    <3>. QED
      BY <1>2, <1>3, <1>8, <3>1 DEF Tells
  <2>2. \A p, q \in Rank : \A i \in DOMAIN channel[p][q] :
          Tells(h, p, channel[p][q][i].data, channel[p][q][i].cycle + 1, Entered(p)')
    BY <1>2, MessagesTell DEF Follow
  <2>3. domains'[r] \in [EntitiesOn(r) -> SUBSET SubDomain]
    BY DEF TypeOK
  <2>. QED
    BY <1>1, <2>1, <2>2, <2>3, MessagesSent DEF Kind
<1>. QED
  BY <1>6, <1>7, <1>9, <1>10 DEF Follow


(* What comes in was sent in the same update, and tells all that the       *)
(* sender has given.                                                       *)
LEMMA FollowReceive ==
  ASSUME TypeOK, ChannelsInStep, NEW h \in Histories, Follow(h),
         NEW r \in Rank, NEW q \in Rank, Receive(r, q)
  PROVE  Follow(h)'
<1> DEFINE news == Head(channel[q][r]).data
<1>1. /\ UNCHANGED <<phase, cycle, removed>>
      /\ \A p \in Rank : received'[p] = IF p = r THEN received[p] \cup {q} ELSE received[p]
  BY DEF Receive, TypeOK
<1>2. /\ phase[r] \in Kind /\ q # r
      /\ DOMAIN news = Shared(q, r, phase[r])
      /\ Head(channel[q][r]).cycle = cycle[r]
  BY ChannelsHead, Receiving, MessageParts
<1>3. /\ \A p \in Rank : p # r => domains'[p] = domains[p]
      /\ \A e \in EntitiesOn(r) :
           domains'[r][e] = IF e \in Shared(q, r, phase[r]) THEN domains[r][e] \cup news[e]
                            ELSE domains[r][e]
  BY <1>2, ReceivedDomains
<1>4. Tells(h, q, news, cycle[r] + 1, Entered(q))
  <2>1. /\ 1 \in DOMAIN channel[q][r] /\ channel[q][r][1] = Head(channel[q][r])
    BY Receiving
  <2>. QED
    BY <1>2, <2>1, MessagesTell DEF Follow
<1> HIDE DEF news
<1>5. \A p \in Rank : Entered(p)' = Entered(p)
  BY <1>1 DEF Entered, InUpdate
<1>6. Entered(r) = cycle[r] + 1 /\ Entered(r) \in 0 .. CycleBound
  BY <1>2, Updates
<1>7. /\ phase[r] = "selection" =>
           Shared(q, r, phase[r]) = {c \in CellsOn(r) : Owner[c] = q}
      /\ phase[r] = "border" => Shared(q, r, phase[r]) \cap Cell = {}
      /\ phase[r] = "selection" \/ phase[r] = "border"
  BY <1>2, SharedEntities DEF Kind
<1>8. OwnersFollow(h)'
  <2>1. \A c \in Cell : domains'[Owner[c]][c] = domains[Owner[c]][c]
    <3>. SUFFICES ASSUME NEW c \in Cell, Owner[c] = r PROVE domains'[r][c] = domains[r][c]
      BY <1>3, PartitionAssumption
    <3>1. c \in EntitiesOn(r) /\ c \notin Shared(q, r, phase[r])
      BY <1>2, <1>7, Neighbours
    <3>. QED
      BY <1>3, <3>1
  <2>. QED
    BY <1>1, <1>5, <2>1, OwnersKept DEF Follow
<1>9. CopiesFollow(h)'
  <2>. SUFFICES ASSUME NEW p \in Rank, NEW c \in Ghosts[p]
       PROVE  /\ Heard(p, Owner[c])' <= Entered(Owner[c])
              /\ h[c][Heard(p, Owner[c])'] \subseteq domains'[p][c]
              /\ Within(h, domains'[p][c], {c}, Heard(p, Owner[c])')
    BY <1>5, Neighbours DEF CopiesFollow, Has, Within
  <2>1. /\ Heard(p, Owner[c]) <= Entered(Owner[c])
        /\ h[c][Heard(p, Owner[c])] \subseteq domains[p][c]
        /\ Within(h, domains[p][c], {c}, Heard(p, Owner[c]))
    BY DEF Follow, CopiesFollow, Has
  <2>2. CASE p = r /\ phase[r] = "selection" /\ Owner[c] = q
    <3>1. c \in Shared(q, r, phase[r]) /\ c \in EntitiesOn(r)
      BY <1>7, <2>2, Entities, Neighbours
    <3>2. domains'[r][c] = domains[r][c] \cup news[c]
      BY <1>3, <3>1
    <3>3. /\ Heard(r, q)' = cycle[r] + 1
          /\ Heard(r, q) \in 0 .. cycle[r] + 1
      <4>1. cycle[r] \in Nat
        BY Updates, PartitionAssumption
      <4>2. q \in received'[r]
        BY <1>1
      <4>. QED
        BY <1>1, <4>1, <4>2 DEF Heard
    <3>4. /\ Within(h, news[c], {c}, cycle[r] + 1)
          /\ cycle[r] + 1 <= Entered(q) /\ h[c][cycle[r] + 1] \subseteq news[c]
      <4>1. c \in DOMAIN news /\ c \in Around(c) /\ Around(c) = {c}
        BY <1>2, <3>1, Neighbours DEF Around, news
      <4>. QED
        BY <1>4, <2>2, <4>1 DEF Tells
    <3>5. Within(h, domains'[r][c], {c}, cycle[r] + 1)
      <4>1. Heard(r, q) \in Nat /\ cycle[r] + 1 \in Nat /\ Heard(r, q) <= cycle[r] + 1
        BY <1>6, <3>3, PartitionAssumption
      <4>2. Within(h, domains[r][c], {c}, cycle[r] + 1)
        BY <2>1, <2>2, <4>1, WithinLater
      <4>. QED
        BY <3>2, <3>4, <4>2 DEF Within
    <3>. QED
      BY <2>2, <3>2, <3>3, <3>4, <3>5
  <2>3. CASE ~ (p = r /\ phase[r] = "selection" /\ Owner[c] = q)
    <3>1. domains'[p][c] = domains[p][c]
      <4>1. p = r => c \notin Shared(q, r, phase[r])
        BY <1>7, <2>3, Neighbours
      <4>. QED
        BY <1>3, <4>1, Neighbours
    <3>2. Heard(p, Owner[c])' = Heard(p, Owner[c])
      <4>1. \/ phase[p] = "border"
            \/ Owner[c] \in received'[p] <=> Owner[c] \in received[p]
        BY <1>1, <1>7, <2>3
      <4>. QED
        BY <1>1, <4>1 DEF Heard
    <3>. QED
      BY <2>1, <3>1, <3>2
  <2>. QED
    BY <2>2, <2>3
<1>10. SubEntitiesFollow(h)'
  <2>. SUFFICES ASSUME NEW p \in Rank, NEW e \in EntitiesOn(p) \ Cell
       PROVE  /\ phase[p] \in {"marking", "selection"} => domains'[p][e] = {}
              /\ phase[p] \in {"fixed", "border"} =>
                   /\ Within(h, domains'[p][e], Around(e), Entered(p))
                   /\ \A c \in Around(e) :
                        phase[p] = "fixed" \/ Owner[c] \in received'[p] \cup {p} =>
                          Entered(p) <= Entered(Owner[c]) /\ h[c][Entered(p)] \subseteq domains'[p][e]
    BY <1>1, <1>5, Neighbours DEF SubEntitiesFollow, Has, Within
  <2>1. /\ phase[p] \in {"marking", "selection"} => domains[p][e] = {}
        /\ phase[p] \in {"fixed", "border"} =>
             /\ Within(h, domains[p][e], Around(e), Entered(p))
             /\ \A c \in Around(e) :
                  phase[p] = "fixed" \/ Owner[c] \in received[p] \cup {p} =>
                    Entered(p) <= Entered(Owner[c]) /\ h[c][Entered(p)] \subseteq domains[p][e]
    BY DEF Follow, SubEntitiesFollow, Has
  <2>2. CASE p # r
    BY <1>1, <1>3, <2>1, <2>2
  <2>3. CASE p = r /\ phase[r] = "selection"
    <3>1. e \notin Shared(q, r, phase[r])
      BY <1>7, <2>3, Entities
    <3>. QED
      BY <1>3, <2>1, <2>3, <3>1
  <2>4. CASE p = r /\ phase[r] = "border"
    <3>1. /\ Within(h, domains[r][e], Around(e), cycle[r] + 1)
          /\ \A c \in Around(e) : Owner[c] \in received[r] \cup {r} =>
               cycle[r] + 1 <= Entered(Owner[c]) /\ h[c][cycle[r] + 1] \subseteq domains[r][e]
      BY <1>6, <2>1, <2>4
    <3>2. CASE e \in Shared(q, r, phase[r])
      <4>1. domains'[r][e] = domains[r][e] \cup news[e] /\ e \in DOMAIN news
        BY <1>2, <1>3, <2>4, <3>2 DEF news
      <4>2. Within(h, domains'[r][e], Around(e), cycle[r] + 1)
        BY <1>4, <3>1, <4>1 DEF Tells, Within
      <4>3. \A c \in Around(e) : Owner[c] = q =>
              cycle[r] + 1 <= Entered(Owner[c]) /\ h[c][cycle[r] + 1] \subseteq news[e]
        BY <1>4, <4>1 DEF Tells
      <4>. QED
        BY <1>1, <1>6, <2>4, <3>1, <4>1, <4>2, <4>3
    <3>3. CASE e \notin Shared(q, r, phase[r])
      <4>1. domains'[r][e] = domains[r][e]
        BY <1>3, <2>4, <3>3
      <4>2. \A c \in Around(e) : Owner[c] # q
        BY <2>4, <3>3, Neighbours
      <4>. QED
        BY <1>1, <1>6, <2>4, <3>1, <4>1, <4>2
    <3>. QED
      BY <3>2, <3>3
  <2>. QED
    BY <1>7, <2>2, <2>3, <2>4
<1>11. MessagesFollow(h)'
  <2>. SUFFICES ASSUME NEW p \in Rank, NEW t \in Rank, NEW i \in DOMAIN channel'[p][t]
       PROVE  Tells(h, p, channel'[p][t][i].data, channel'[p][t][i].cycle + 1, Entered(p)')
    BY MessagesTell
  <2>1. PICK j \in DOMAIN channel[p][t] : channel'[p][t][i] = channel[p][t][j]
    <3>1. CASE p = q /\ t = r
      <4>1. channel'[p][t] = Tail(channel[q][r]) /\ channel[q][r] \in Seq(MessageTo(q, r))
            /\ channel[q][r] # <<>>
        BY <3>1, Receiving
      <4>2. i + 1 \in DOMAIN channel[q][r] /\ channel'[p][t][i] = channel[q][r][i + 1]
        BY <4>1
      <4>. QED
        BY <3>1, <4>2
    <3>2. CASE ~ (p = q /\ t = r)
      <4>1. channel'[p][t] = channel[p][t]
        BY <3>2, Receiving
      <4>. QED
        BY <4>1
    <3>. QED
      BY <3>1, <3>2
  <2>2. Tells(h, p, channel[p][t][j].data, channel[p][t][j].cycle + 1, Entered(p))
    BY MessagesTell DEF Follow
  <2>. QED
    BY <1>5, <2>1, <2>2
<1>. QED
  BY <1>8, <1>9, <1>10, <1>11 DEF Follow


(* What is on its way was sent in an update that its sender has entered.   *)
LEMMA MessageCycle ==
  ASSUME TypeOK, ChannelsInStep, NEW q \in Rank, NEW r \in Rank, NEW i \in DOMAIN channel[q][r]
  PROVE  /\ channel[q][r][i] \in MessageTo(q, r)
         /\ channel[q][r][i].cycle + 1 \in 0 .. Entered(q)
<1> DEFINE m == channel[q][r][i]
<1>1. m \in MessageTo(q, r)
  BY DEF TypeOK
<1>2. m.kind \in Kind /\ m.cycle \in 0 .. CycleBound
  BY <1>1, MessageParts
<1>3. Place(m.kind, m.cycle) < Begun(q)
  BY <1>2 DEF ChannelsInStep, Queue
<1>4. cycle[q] \in Nat /\ Entered(q) \in Nat /\ CycleBound \in Nat
  BY Updates, PartitionAssumption
<1>5. Begun(q) \in Nat /\ Begun(q) <= 2 * Entered(q)
  <2>1. phase[q] = "border" => Entered(q) = cycle[q] + 1
    BY Updates DEF Kind
  <2>2. Entered(q) = cycle[q] \/ Entered(q) = cycle[q] + 1
    BY Updates
  <2>. QED
    BY <1>4, <2>1, <2>2 DEF Begun
<1>6. 2 * m.cycle <= Place(m.kind, m.cycle) /\ Place(m.kind, m.cycle) \in Nat
  BY <1>2, PartitionAssumption DEF Place
<1>. QED
  BY <1>1, <1>2, <1>3, <1>4, <1>5, <1>6

(* After a step, a history that says the same of all updates entered       *)
(* before, which stay entered.                                             *)
Continues(g, h) ==
  \A c \in Cell : \A n \in 0 .. CycleBound :
    n <= Entered(Owner[c]) => g[c][n] = h[c][n] /\ n <= Entered(Owner[c])'

(* A rank that enters update() writes what it has given into the history.  *)
LEMMA FollowCommunicate ==
  ASSUME TypeOK, ChannelsInStep, NEW h \in Histories, Follow(h), NEW r \in Rank, CommunicateSelection(r)
  PROVE  \E g \in Histories : Follow(g)' /\ Continues(g, h)
<1> DEFINE n1 == cycle[r] + 1
<1>1. /\ phase[r] = "marking" /\ received[r] = {}
      /\ UNCHANGED <<domains, cycle, received, removed>>
      /\ \A p \in Rank : phase'[p] = IF p = r THEN "selection" ELSE phase[p]
      /\ Send(r, "selection", domains[r])
      /\ domains[r] \in [EntitiesOn(r) -> SUBSET SubDomain]
  <2>1. phase[r] = "marking" /\ received[r] = {}
    BY Counts DEF CommunicateSelection
  <2>2. received' = received
    BY <2>1 DEF CommunicateSelection, TypeOK
  <2>. QED
    BY <2>1, <2>2 DEF CommunicateSelection, TypeOK
<1>2. /\ cycle[r] \in Nat /\ n1 \in 1 .. CycleBound /\ CycleBound \in Nat
      /\ Entered(r) = cycle[r] /\ Entered(r)' = n1
      /\ \A p \in Rank : p # r => Entered(p)' = Entered(p)
      /\ \A p \in Rank : Entered(p) \in 0 .. CycleBound
  <2>1. cycle[r] \in Nat /\ n1 \in 1 .. CycleBound /\ CycleBound \in Nat
    BY <1>1, Counts, PartitionAssumption
  <2>2. Entered(r) = cycle[r] /\ \A p \in Rank : Entered(p) \in 0 .. CycleBound
    BY <1>1, Updates DEF Kind
  <2>3. Entered(r)' = n1 /\ \A p \in Rank : p # r => Entered(p)' = Entered(p)
    BY <1>1 DEF Entered, InUpdate, Kind
  <2>. QED
    BY <2>1, <2>2, <2>3
<1>3. \E x \in Histories : \A c \in Cell, n \in 0 .. CycleBound :
        x[c][n] = IF Owner[c] = r /\ n = n1 THEN domains[r][c] ELSE h[c][n]
  <2> DEFINE x == [c \in Cell |->
                     IF Owner[c] = r THEN [h[c] EXCEPT ![n1] = domains[r][c]] ELSE h[c]]
  <2>1. \A c \in Cell : Owner[c] = r => domains[r][c] \in SUBSET SubDomain
    BY <1>1, Neighbours
  <2>2. \A c \in Cell : Owner[c] = r =>
          [h[c] EXCEPT ![n1] = domains[r][c]] \in [0 .. CycleBound -> SUBSET SubDomain]
    BY <2>1 DEF Histories
  <2>3. x \in Histories
    BY <2>2 DEF Histories
  <2>4. \A c \in Cell, n \in 0 .. CycleBound :
          x[c][n] = IF Owner[c] = r /\ n = n1 THEN domains[r][c] ELSE h[c][n]
    BY DEF Histories
  <2>. QED
    BY <2>3, <2>4
<1>4. PICK g \in Histories : \A c \in Cell, n \in 0 .. CycleBound :
        g[c][n] = IF Owner[c] = r /\ n = n1 THEN domains[r][c] ELSE h[c][n]
  BY <1>3
<1>5. ASSUME NEW c \in Cell, NEW n \in 0 .. CycleBound
      PROVE  /\ h[c][n] \subseteq g[c][n]
             /\ n <= Entered(Owner[c]) => g[c][n] = h[c][n] /\ n <= Entered(Owner[c])'
  <2>1. Owner[c] = r => h[c][n1] = {}
    BY <1>2 DEF Follow, OwnersFollow
  <2>2. Owner[c] \in Rank
    BY PartitionAssumption
  <2>. QED
    BY <1>2, <1>4, <2>1, <2>2
<1>6. ASSUME NEW D, NEW C \in SUBSET Cell, NEW n \in 0 .. CycleBound, Within(h, D, C, n)
      PROVE  Within(g, D, C, n)
  <2>. SUFFICES ASSUME NEW s \in D PROVE \E c \in C, m \in 0 .. n : s \in g[c][m]
    BY DEF Within
  <2>1. PICK c \in C, m \in 0 .. n : s \in h[c][m]
    BY <1>6 DEF Within
  <2>2. c \in Cell /\ m \in 0 .. CycleBound
    BY <1>2
  <2>. QED
    BY <1>5, <2>1, <2>2
<1>7. OwnersFollow(g)'
  <2>. SUFFICES ASSUME NEW c \in Cell, NEW o \in Rank, o = Owner[c]
       PROVE  /\ g[c][0] = {}
              /\ \A n \in 0 .. CycleBound : n > Entered(o)' => g[c][n] = {}
              /\ phase'[o] # "marking" => domains[o][c] = g[c][Entered(o)']
              /\ ~ removed =>
                   /\ \A m, n \in 0 .. Entered(o)' : m <= n => g[c][m] \subseteq g[c][n]
                   /\ g[c][Entered(o)'] \subseteq domains[o][c]
    BY <1>1, PartitionAssumption DEF OwnersFollow
  <2>1. /\ h[c][0] = {}
        /\ \A n \in 0 .. CycleBound : n > Entered(o) => h[c][n] = {}
        /\ phase[o] # "marking" => domains[o][c] = h[c][Entered(o)]
        /\ ~ removed =>
             /\ \A m, n \in 0 .. Entered(o) : m <= n => h[c][m] \subseteq h[c][n]
             /\ h[c][Entered(o)] \subseteq domains[o][c]
    BY DEF Follow, OwnersFollow
  <2>2. CASE o # r
    <3>1. \A n \in 0 .. CycleBound : g[c][n] = h[c][n]
      BY <1>4, <2>2
    <3>. QED
      BY <1>1, <1>2, <2>1, <2>2, <3>1
  <2>3. CASE o = r
    <3>1. /\ g[c][n1] = domains[r][c]
          /\ \A n \in 0 .. CycleBound : n # n1 => g[c][n] = h[c][n]
      <4>1. n1 \in 0 .. CycleBound
        BY <1>2
      <4>2. Owner[c] = r
        BY <2>3
      <4> HIDE DEF n1
      <4>. QED
        BY <1>4, <4>1, <4>2
    <3>2. g[c][0] = {} /\ \A n \in 0 .. CycleBound : n > n1 => g[c][n] = {}
      BY <1>2, <2>1, <2>3, <3>1
    <3>3. ASSUME ~ removed, NEW m \in 0 .. n1, NEW n \in 0 .. n1, m <= n
          PROVE  g[c][m] \subseteq g[c][n]
      <4>1. CASE m = n
        BY <4>1
      <4>2. CASE m # n /\ n = n1
        <5>1. m \in 0 .. cycle[r] /\ cycle[r] \in 0 .. cycle[r] /\ m <= cycle[r]
          BY <1>2, <3>3, <4>2
        <5>2. h[c][m] \subseteq h[c][cycle[r]] /\ h[c][cycle[r]] \subseteq domains[r][c]
          BY <1>2, <2>1, <2>3, <3>3, <5>1
        <5>3. g[c][m] = h[c][m]
          BY <1>2, <3>1, <4>2
        <5>. QED
          BY <3>1, <4>2, <5>2, <5>3
      <4>3. CASE m # n /\ n # n1
        <5>1. m \in 0 .. cycle[r] /\ n \in 0 .. cycle[r]
          BY <1>2, <3>3, <4>3
        <5>2. h[c][m] \subseteq h[c][n]
          BY <1>2, <2>1, <2>3, <3>3, <5>1
        <5>3. g[c][m] = h[c][m] /\ g[c][n] = h[c][n]
          BY <1>2, <3>1, <5>1
        <5>. QED
          BY <5>2, <5>3
      <4>. QED
        BY <4>1, <4>2, <4>3
    <3>. QED
      BY <1>2, <2>3, <3>1, <3>2, <3>3
  <2>. QED
    BY <2>2, <2>3
<1>8. \A p, q \in Rank : Heard(p, q)' = Heard(p, q)
  BY <1>1 DEF Heard
<1>9. CopiesFollow(g)'
  <2>. SUFFICES ASSUME NEW p \in Rank, NEW c \in Ghosts[p]
       PROVE  /\ Heard(p, Owner[c]) <= Entered(Owner[c])'
              /\ g[c][Heard(p, Owner[c])] \subseteq domains[p][c]
              /\ Within(g, domains[p][c], {c}, Heard(p, Owner[c]))
    BY <1>1, <1>8, Neighbours DEF CopiesFollow, Has, Within
  <2>1. /\ Heard(p, Owner[c]) <= Entered(Owner[c])
        /\ h[c][Heard(p, Owner[c])] \subseteq domains[p][c]
        /\ Within(h, domains[p][c], {c}, Heard(p, Owner[c]))
    BY DEF Follow, CopiesFollow, Has
  <2>2. c \in Cell /\ Heard(p, Owner[c]) \in 0 .. CycleBound
    BY Neighbours, Updates
  <2>. QED
    BY <1>5, <1>6, <2>1, <2>2
<1>10. SubEntitiesFollow(g)'
  <2>. SUFFICES ASSUME NEW p \in Rank, NEW e \in EntitiesOn(p) \ Cell
       PROVE  /\ phase'[p] \in {"marking", "selection"} => domains[p][e] = {}
              /\ phase'[p] \in {"fixed", "border"} =>
                   /\ Within(g, domains[p][e], Around(e), Entered(p)')
                   /\ \A c \in Around(e) :
                        phase'[p] = "fixed" \/ Owner[c] \in received[p] \cup {p} =>
                          Entered(p)' <= Entered(Owner[c])' /\ g[c][Entered(p)'] \subseteq domains[p][e]
    BY <1>1 DEF SubEntitiesFollow, Has, Within
  <2>1. /\ phase[p] \in {"marking", "selection"} => domains[p][e] = {}
        /\ phase[p] \in {"fixed", "border"} =>
             /\ Within(h, domains[p][e], Around(e), Entered(p))
             /\ \A c \in Around(e) :
                  phase[p] = "fixed" \/ Owner[c] \in received[p] \cup {p} =>
                    Entered(p) <= Entered(Owner[c]) /\ h[c][Entered(p)] \subseteq domains[p][e]
    BY DEF Follow, SubEntitiesFollow, Has
  <2>2. CASE p = r
    BY <1>1, <2>1, <2>2
  <2>3. CASE p # r
    <3>1. phase'[p] = phase[p] /\ Entered(p)' = Entered(p) /\ Entered(p) \in 0 .. CycleBound
      BY <1>1, <1>2, <2>3
    <3>2. Around(e) \in SUBSET Cell
      BY Neighbours
    <3>3. Within(h, domains[p][e], Around(e), Entered(p)) => Within(g, domains[p][e], Around(e), Entered(p))
      BY <1>6, <3>1, <3>2
    <3>4. \A c \in Around(e) :
            Entered(p) <= Entered(Owner[c]) =>
              Entered(p) <= Entered(Owner[c])' /\ g[c][Entered(p)] = h[c][Entered(p)]
      BY <1>5, <3>1, <3>2
    <3>. QED
      BY <2>1, <3>1, <3>3, <3>4
  <2>. QED
    BY <2>2, <2>3
<1>11. MessagesFollow(g)'
  <2>1. ASSUME NEW p \in Rank, NEW q \in Rank, NEW i \in DOMAIN channel[p][q]
        PROVE  Tells(g, p, channel[p][q][i].data, channel[p][q][i].cycle + 1, Entered(p)')
    <3> DEFINE m == channel[p][q][i]
    <3>1. Tells(h, p, m.data, m.cycle + 1, Entered(p))
      BY MessagesTell DEF Follow
    <3>2. m \in MessageTo(p, q) /\ m.cycle + 1 \in 0 .. CycleBound
      BY <1>2, MessageCycle
    <3>. SUFFICES ASSUME NEW e \in DOMAIN m.data
         PROVE  /\ Within(g, m.data[e], Around(e), m.cycle + 1)
                /\ \A c \in Around(e) : Owner[c] = p =>
                     m.cycle + 1 <= Entered(p)' /\ g[c][m.cycle + 1] \subseteq m.data[e]
      BY DEF Tells
    <3> HIDE DEF m
    <3>3. Around(e) \in SUBSET Cell
      BY DEF Around
    <3>4. Within(g, m.data[e], Around(e), m.cycle + 1)
      BY <1>6, <3>1, <3>2, <3>3 DEF Tells
    <3>. QED
      BY <1>5, <3>1, <3>2, <3>3, <3>4 DEF Tells
  <2>2. \A p \in Rank : Tells(g, r, [e \in Shared(r, p, "selection") |-> domains[r][e]],
                              cycle[r] + 1, Entered(r)')
    <3>. SUFFICES ASSUME NEW p \in Rank, NEW e \in Shared(r, p, "selection")
         PROVE  /\ Within(g, domains[r][e], Around(e), n1)
                /\ \A c \in Around(e) : Owner[c] = r => n1 <= Entered(r)' /\ g[c][n1] \subseteq domains[r][e]
      BY DEF Tells
    <3>1. e \in Cell /\ Owner[e] = r /\ Around(e) = {e}
      BY SharedEntities, Entities DEF Kind, Around
    <3>2. g[e][n1] = domains[r][e] /\ n1 \in 0 .. n1
      BY <1>2, <1>4, <3>1
    <3>. QED
      BY <1>2, <3>1, <3>2 DEF Within
  <2>. QED
    BY <1>1, <2>1, <2>2, MessagesSent DEF Kind
<1>12. Continues(g, h)
  BY <1>5 DEF Continues
<1>. QED
  BY <1>7, <1>9, <1>10, <1>11, <1>12 DEF Follow


-----------------------------------------------------------------------------
(* The invariant, and what it says between two cycles.                     *)

LEMMA MarkingInit == Init => MarkingInv
BY TypeInit, ChannelsInit, FollowInit DEF MarkingInv

(* One step takes a history to one that continues it.                      *)
LEMMA HistoryStep ==
  ASSUME TypeOK, ChannelsInStep, TypeOK', NEW h \in Histories, Follow(h), [Next]_vars
  PROVE  \E g \in Histories : Follow(g)' /\ Continues(g, h)
<1>1. ASSUME NEW r \in Rank, CommunicateSelection(r)
      PROVE  \E g \in Histories : Follow(g)' /\ Continues(g, h)
  BY <1>1, FollowCommunicate
<1>2. ASSUME Follow(h)', \A p \in Rank : Entered(p)' = Entered(p)
      PROVE  \E g \in Histories : Follow(g)' /\ Continues(g, h)
  <2>1. Continues(h, h)
    BY <1>2, PartitionAssumption DEF Continues
  <2>. QED
    BY <1>2, <2>1
<1>3. \A p \in Rank : cycle[p] \in Nat
  BY Updates
<1>4. ASSUME NEW r \in Rank, StartMarking(r)
      PROVE  Follow(h)' /\ \A p \in Rank : Entered(p)' = Entered(p)
  BY <1>4, FollowStart DEF StartMarking, TypeOK, Entered, InUpdate, Kind
<1>5. ASSUME NEW r \in Rank, Mark(r)
      PROVE  Follow(h)' /\ \A p \in Rank : Entered(p)' = Entered(p)
  <2>1. UNCHANGED <<phase, cycle>>
    BY <1>5 DEF Mark, AddToSubDomain, RemoveFromSubDomain, Assigned
  <2>. QED
    BY <1>5, <2>1, FollowMark DEF Entered, InUpdate
<1>6. ASSUME NEW r \in Rank, MarkAndPropagate(r)
      PROVE  Follow(h)' /\ \A p \in Rank : Entered(p)' = Entered(p)
  BY <1>6, FollowPropagate DEF MarkAndPropagate, TypeOK, Entered, InUpdate, Kind
<1>7. ASSUME NEW r \in Rank, EndUpdate(r)
      PROVE  Follow(h)' /\ \A p \in Rank : Entered(p)' = Entered(p)
  <2>1. /\ phase[r] = "border"
        /\ \A p \in Rank : phase'[p] = IF p = r THEN "fixed" ELSE phase[p]
        /\ \A p \in Rank : cycle'[p] = IF p = r THEN cycle[p] + 1 ELSE cycle[p]
    BY <1>7 DEF EndUpdate, TypeOK
  <2>2. \A p \in Rank : Entered(p)' = Entered(p)
    BY <1>3, <2>1 DEF Entered, InUpdate, Kind
  <2>. QED
    BY <1>7, <2>2, FollowEnd
<1>8. ASSUME NEW r \in Rank, NEW q \in Rank, Receive(r, q)
      PROVE  Follow(h)' /\ \A p \in Rank : Entered(p)' = Entered(p)
  BY <1>8, FollowReceive DEF Receive, Entered, InUpdate
<1>9. CASE UNCHANGED vars
  <2>1. \A p \in Rank : Entered(p)' = Entered(p)
    BY <1>9 DEF vars, Entered, InUpdate
  <2>2. \A p, q \in Rank : Heard(p, q)' = Heard(p, q)
    BY <1>9 DEF vars, Heard
  <2>3. OwnersFollow(h)'
    BY <1>9, <2>1, OwnersKept DEF Follow, vars
  <2>4. CopiesFollow(h)'
    BY <1>9, <2>1, <2>2, Neighbours DEF Follow, CopiesFollow, Has, Within, vars
  <2>5. SubEntitiesFollow(h)'
    BY <1>9, <2>1, Neighbours DEF Follow, SubEntitiesFollow, Has, Within, vars
  <2>6. MessagesFollow(h)'
    BY <1>9, <2>1, MessagesKept DEF Follow, vars
  <2>. QED
    BY <1>2, <2>1, <2>3, <2>4, <2>5, <2>6 DEF Follow
<1>. QED
  BY <1>1, <1>2, <1>4, <1>5, <1>6, <1>7, <1>8, <1>9 DEF Next, Exchange, AllDone

LEMMA MarkingStep == MarkingInv /\ [Next]_vars => MarkingInv'
<1>. SUFFICES ASSUME MarkingInv, [Next]_vars PROVE MarkingInv'
  OBVIOUS
<1>1. TypeOK /\ ChannelsInStep /\ TypeOK' /\ ChannelsInStep'
  BY TypeStep, ChannelsStep DEF MarkingInv
<1>2. PICK h \in Histories : Follow(h)
  BY DEF MarkingInv
<1>. QED
  BY <1>1, <1>2, HistoryStep DEF MarkingInv

(* Every entity of a rank between two cycles has nothing but what the      *)
(* cells around it had, and all they had in the last cycle.                *)
LEMMA BetweenCycles ==
  ASSUME TypeOK, NEW h \in Histories, Follow(h),
         NEW r \in Rank, phase[r] = "fixed", NEW e \in EntitiesOn(r)
  PROVE  /\ Within(h, domains[r][e], Around(e), cycle[r])
         /\ \A c \in Around(e) :
              c \in Cell /\ cycle[r] <= Entered(Owner[c]) /\ h[c][cycle[r]] \subseteq domains[r][e]
<1>1. /\ Entered(r) = cycle[r] /\ cycle[r] \in Nat
      /\ \A q \in Rank : Heard(r, q) = cycle[r]
  <2>1. Entered(r) = cycle[r] /\ cycle[r] \in Nat /\ received[r] = {}
    BY Updates, Counts DEF Kind
  <2>. QED
    BY <2>1 DEF Heard
<1>2. CASE e \in Cell /\ Owner[e] = r
  <2>1. domains[r][e] = h[e][cycle[r]] /\ Around(e) = {e}
    BY <1>1, <1>2 DEF Follow, OwnersFollow, Around
  <2>2. cycle[r] \in 0 .. cycle[r]
    BY <1>1
  <2>. QED
    BY <1>1, <1>2, <2>1, <2>2 DEF Within
<1>3. CASE e \in Cell /\ Owner[e] # r
  <2>1. e \in Ghosts[r] /\ Owner[e] \in Rank /\ Around(e) = {e}
    BY <1>3, Entities, PartitionAssumption DEF Around
  <2>. QED
    BY <1>1, <1>3, <2>1 DEF Follow, CopiesFollow, Has
<1>4. CASE e \notin Cell
  BY <1>1, <1>4, Neighbours DEF Follow, SubEntitiesFollow, Has
<1>. QED
  BY <1>2, <1>3, <1>4

LEMMA Agreement == MarkingInv => CopiesAgree
<1>. SUFFICES ASSUME MarkingInv, ~ removed, NEW r \in Rank, NEW q \in Rank, SameCycle(r, q),
                     NEW e \in EntitiesOn(r) \cap EntitiesOn(q)
              PROVE  domains[r][e] \subseteq domains[q][e]
  <2>1. ASSUME MarkingInv, ~ removed, NEW r \in Rank, NEW q \in Rank, SameCycle(r, q),
               NEW e \in EntitiesOn(r) \cap EntitiesOn(q)
        PROVE  domains[r][e] = domains[q][e]
    <3>1. SameCycle(q, r)
      BY <2>1 DEF SameCycle
    <3>2. domains[r][e] \subseteq domains[q][e] /\ domains[q][e] \subseteq domains[r][e]
      BY <2>1, <3>1
    <3>. QED
      BY <3>2
  <2>. QED
    BY <2>1 DEF CopiesAgree
<1>1. TypeOK /\ phase[r] = "fixed" /\ phase[q] = "fixed" /\ cycle[r] = cycle[q]
  BY DEF MarkingInv, SameCycle
<1>2. PICK h \in Histories : Follow(h)
  BY DEF MarkingInv
<1>3. SUFFICES ASSUME NEW s \in domains[r][e] PROVE s \in domains[q][e]
  OBVIOUS
<1>4. PICK c \in Around(e), m \in 0 .. cycle[r] : s \in h[c][m]
  BY <1>1, <1>2, BetweenCycles DEF Within
<1>5. /\ c \in Cell /\ cycle[q] <= Entered(Owner[c])
      /\ h[c][cycle[q]] \subseteq domains[q][e]
  BY <1>1, <1>2, BetweenCycles
<1>6. h[c][m] \subseteq h[c][cycle[q]]
  <2>1. Owner[c] \in Rank
    BY <1>5, PartitionAssumption
  <2>2. cycle[q] \in Nat /\ Entered(Owner[c]) \in Nat
    BY <1>1, <2>1, Updates, PartitionAssumption
  <2>3. m \in 0 .. Entered(Owner[c]) /\ cycle[q] \in 0 .. Entered(Owner[c]) /\ m <= cycle[q]
    BY <1>1, <1>5, <2>2
  <2>. QED
    BY <1>2, <1>5, <2>3 DEF Follow, OwnersFollow
<1>. QED
  BY <1>4, <1>5, <1>6

LEMMA Coverage == MarkingInv => CopiesCover
<1>. SUFFICES ASSUME MarkingInv, \A r, q \in Rank : SameCycle(r, q),
                     NEW r \in Rank, NEW e \in EntitiesOn(r), NEW s \in Given(e)
              PROVE  s \in domains[r][e]
  BY DEF CopiesCover
<1>1. TypeOK
  BY DEF MarkingInv
<1>2. PICK h \in Histories : Follow(h)
  BY DEF MarkingInv
<1>3. PICK c \in Around(e) : s \in domains[Owner[c]][c]
  BY DEF Given, Around
<1>4. /\ c \in Cell /\ Owner[c] \in Rank
      /\ phase[r] = "fixed" /\ h[c][cycle[r]] \subseteq domains[r][e]
  BY <1>1, <1>2, BetweenCycles, PartitionAssumption DEF SameCycle
<1>5. phase[Owner[c]] = "fixed" /\ cycle[Owner[c]] = cycle[r]
  BY <1>4 DEF SameCycle
<1>6. Entered(Owner[c]) = cycle[r]
  BY <1>1, <1>4, <1>5, Updates DEF Kind
<1>7. domains[Owner[c]][c] = h[c][cycle[r]]
  BY <1>2, <1>4, <1>5, <1>6 DEF Follow, OwnersFollow
<1>. QED
  BY <1>3, <1>4, <1>7

(* Two ranks that have finished the same cycle have the same subdomains on *)
(* what they share (communicateSubDomainSelection, markSubIndices and      *)
(* propagateBorderEntitySubDomains of update()), as long as no cell leaves *)
(* a subdomain of an earlier cycle.                                        *)
THEOREM CopiesAlwaysAgree == Spec => []CopiesAgree
BY MarkingInit, MarkingStep, Agreement, PTL DEF Spec

(* When all ranks have finished the same cycle every copy has what the     *)
(* owners of the cells around it gave, also after removals.                *)
THEOREM CopiesAlwaysCover == Spec => []CopiesCover
BY MarkingInit, MarkingStep, Coverage, PTL DEF Spec
-----------------------------------------------------------------------------
(* Data handles between the cycles (SubDomainGridExchange).                *)

LEMMA ExchangedEntities ==
  ASSUME NEW q \in Rank, NEW r \in Rank
  PROVE  Exchanged(q, r) \subseteq EntitiesOn(q) \cap EntitiesOn(r)
BY SharedEntities DEF Exchanged, Kind

(* Between two cycles every entity has what the cells around it had in the *)
(* last one, and their owners have entered that cycle.                     *)
LEMMA BetweenLayouts ==
  ASSUME TypeOK, NEW h \in Histories, Follow(h), ~removed,
         NEW r \in Rank, phase[r] = "fixed", NEW e \in EntitiesOn(r)
  PROVE  /\ domains[r][e] = LayoutOf(h, e, cycle[r])
         /\ \A c \in Around(e) : cycle[r] <= Entered(Owner[c])
<1>1. \A c \in Around(e) :
        c \in Cell /\ cycle[r] <= Entered(Owner[c]) /\ h[c][cycle[r]] \subseteq domains[r][e]
  BY BetweenCycles
<1>2. ASSUME NEW s \in domains[r][e]
      PROVE  s \in LayoutOf(h, e, cycle[r])
  <2>1. PICK c \in Around(e), m \in 0 .. cycle[r] : s \in h[c][m]
    BY BetweenCycles DEF Within
  <2>2. c \in Cell /\ Owner[c] \in Rank /\ cycle[r] <= Entered(Owner[c])
    BY <1>1, PartitionAssumption
  <2>3. cycle[r] \in Nat /\ Entered(Owner[c]) \in Nat
    BY <2>2, Updates, PartitionAssumption
  <2>4. m \in 0 .. Entered(Owner[c]) /\ cycle[r] \in 0 .. Entered(Owner[c]) /\ m <= cycle[r]
    BY <2>2, <2>3
  <2>5. h[c][m] \subseteq h[c][cycle[r]]
    BY <2>2, <2>4 DEF Follow, OwnersFollow
  <2>. QED
    BY <2>1, <2>5 DEF LayoutOf
<1>3. LayoutOf(h, e, cycle[r]) \subseteq domains[r][e]
  BY <1>1 DEF LayoutOf
<1>. QED
  BY <1>1, <1>2, <1>3

(* A layout that all owners have entered is what it was.                   *)
LEMMA StreamKept ==
  ASSUME NEW g, NEW h, Continues(g, h), NEW q \in Rank, NEW r \in Rank,
         NEW n \in 0 .. CycleBound, Settled(q, r, n)
  PROVE  /\ StreamOf(g, q, r, n) = StreamOf(h, q, r, n)
         /\ Settled(q, r, n)'
<1>1. ASSUME NEW e \in Exchanged(q, r)
      PROVE  /\ LayoutOf(g, e, n) = LayoutOf(h, e, n)
             /\ \A c \in Around(e) : n <= Entered(Owner[c])'
  <2>1. e \in EntitiesOn(q)
    BY ExchangedEntities
  <2>2. Around(e) \subseteq Cell
    BY DEF Around
  <2>3. \A c \in Around(e) : g[c][n] = h[c][n] /\ n <= Entered(Owner[c])'
    BY <2>2 DEF Continues, Settled
  <2>. QED
    BY <2>3 DEF LayoutOf
<1>2. {e \in Exchanged(q, r) : CallOn[n] = MultiDomain \/ CallOn[n] \in LayoutOf(g, e, n)}
      = {e \in Exchanged(q, r) : CallOn[n] = MultiDomain \/ CallOn[n] \in LayoutOf(h, e, n)}
  BY <1>1
<1>3. StreamOf(g, q, r, n) = StreamOf(h, q, r, n)
  BY <1>2, Zenon DEF StreamOf
<1>4. Settled(q, r, n)'
  BY <1>1 DEF Settled
<1>. QED
  BY <1>3, <1>4

(* What takes part on a rank after its cycle.                              *)
LEMMA Participants ==
  ASSUME TypeOK, NEW h \in Histories, Follow(h), ~removed,
         NEW r \in Rank, phase[r] = "fixed", NEW E \in SUBSET EntitiesOn(r)
  PROVE  /\ {e \in E : Participates(CallOn[cycle[r]], r, e)}
            = {e \in E : CallOn[cycle[r]] = MultiDomain \/ CallOn[cycle[r]] \in LayoutOf(h, e, cycle[r])}
         /\ \A e \in E : \A c \in Around(e) : cycle[r] <= Entered(Owner[c])
BY BetweenLayouts DEF Participates

-----------------------------------------------------------------------------
(* The calls and the cycles of a rank take turns.                          *)

LEMMA CycleStepMoves ==
  ASSUME TypeOK, NEW r \in Rank, StartMarking(r) \/ Mark(r) \/ Exchange(r)
  PROVE  /\ \A p \in Rank : p # r => phase'[p] = phase[p] /\ cycle'[p] = cycle[p]
         /\ \/ phase'[r] = phase[r] /\ cycle'[r] = cycle[r]
            \/ phase'[r] # "fixed" /\ cycle'[r] = cycle[r]
            \/ phase'[r] = "fixed" /\ cycle'[r] = cycle[r] + 1
<1>1. CASE StartMarking(r)
  BY <1>1 DEF StartMarking, TypeOK
<1>2. CASE Mark(r)
  BY <1>2 DEF Mark, AddToSubDomain, RemoveFromSubDomain, Assigned
<1>3. CASE CommunicateSelection(r)
  BY <1>3 DEF CommunicateSelection, TypeOK
<1>4. CASE MarkAndPropagate(r)
  BY <1>4 DEF MarkAndPropagate, TypeOK
<1>5. CASE EndUpdate(r)
  BY <1>5 DEF EndUpdate, TypeOK
<1>6. CASE \E q \in Rank : Receive(r, q)
  BY <1>6 DEF Receive
<1>. QED
  BY <1>1, <1>2, <1>3, <1>4, <1>5, <1>6 DEF Exchange

LEMMA CallsInit == InitExchange => CallsInTurn /\ StreamsInTurn /\ \A h : StreamsFollow(h)
<1>. SUFFICES ASSUME InitExchange PROVE CallsInTurn /\ StreamsInTurn /\ \A h : StreamsFollow(h)
  OBVIOUS
<1>1. /\ posted = [r \in Rank |-> 0] /\ taken = [r \in Rank |-> {}]
      /\ streams = [r \in Rank |-> [q \in Rank |-> <<>>]]
      /\ phase = [r \in Rank |-> "fixed"] /\ cycle = [r \in Rank |-> 0]
  BY DEF InitExchange, Init
<1>2. CallsInTurn
  BY <1>1 DEF CallsInTurn
<1>3. \A S : <<>> \in Seq(S) /\ Len(<<>>) = 0 /\ DOMAIN <<>> = {}
  <2>. SUFFICES ASSUME NEW S PROVE <<>> \in Seq(S) /\ Len(<<>>) = 0 /\ DOMAIN <<>> = {}
    OBVIOUS
  <2>1. <<>> \in Seq(S) /\ Len(<<>>) = 0
    BY EmptySeq
  <2>2. DOMAIN <<>> = 1 .. Len(<<>>)
    BY <2>1, LenProperties
  <2>. QED
    BY <2>1, <2>2
<1>4. PICK none : none = <<>>
  OBVIOUS
<1>5. \A q, r \in Rank : streams[q][r] = none
  BY <1>1, <1>4
<1>6. streams = [q \in Rank |-> [r \in Rank |-> streams[q][r]]]
  <2>1. streams = [r \in Rank |-> [q \in Rank |-> none]]
    BY <1>1, <1>4, Zenon
  <2>. QED
    BY <2>1
<1>7. StreamsInTurn
  BY <1>1, <1>3, <1>4, <1>5, <1>6 DEF StreamsInTurn, Done
<1>8. \A h : StreamsFollow(h)
  <2>1. \A q, r \in Rank : DOMAIN streams[q][r] = {}
    BY <1>3, <1>4, <1>5
  <2>. QED
    BY <2>1 DEF StreamsFollow
<1>. QED
  BY <1>2, <1>7, <1>8

LEMMA CallsInCycleStep ==
  ASSUME TypeOK, CallsInTurn, CycleStep
  PROVE  CallsInTurn'
<1>1. PICK r \in Rank :
        /\ phase[r] = "fixed" => posted[r] = cycle[r] /\ ~Communicating(r)
        /\ StartMarking(r) \/ Mark(r) \/ Exchange(r)
  BY DEF CycleStep
<1>2. UNCHANGED <<posted, taken>>
  BY DEF CycleStep, data
<1>3. /\ \A p \in Rank : p # r => phase'[p] = phase[p] /\ cycle'[p] = cycle[p]
      /\ \/ phase'[r] = phase[r] /\ cycle'[r] = cycle[r]
         \/ phase'[r] # "fixed" /\ cycle'[r] = cycle[r]
         \/ phase'[r] = "fixed" /\ cycle'[r] = cycle[r] + 1
  BY <1>1, CycleStepMoves
<1>4. \A p \in Rank : posted[p] \in Nat /\ cycle[p] \in Nat
  BY PartitionAssumption DEF CallsInTurn, TypeOK
<1>5. posted[r] = cycle[r] /\ (posted[r] # 0 => taken[r] = DataSources(r))
  BY <1>1, <1>4 DEF CallsInTurn, Communicating
<1>6. ASSUME NEW p \in Rank
      PROVE  /\ posted[p] <= cycle'[p] /\ cycle'[p] <= posted[p] + 1
             /\ phase'[p] # "fixed" => posted[p] = cycle'[p]
             /\ posted[p] # 0 /\ (phase'[p] # "fixed" \/ posted[p] # cycle'[p]) =>
                  taken[p] = DataSources(p)
  <2>1. CASE p # r
    BY <1>3, <2>1 DEF CallsInTurn
  <2>2. CASE p = r
    BY <1>3, <1>4, <1>5, <2>2
  <2>. QED
    BY <2>1, <2>2
<1>. QED
  BY <1>2, <1>6 DEF CallsInTurn

LEMMA CallsInGather ==
  ASSUME TypeOK, CallsInTurn, NEW r \in Rank, Gather(r)
  PROVE  /\ CallsInTurn'
         /\ cycle[r] = posted[r] + 1 /\ cycle[r] \in 1 .. CycleBound
         /\ \A p \in Rank : posted'[p] = IF p = r THEN posted[p] + 1 ELSE posted[p]
         /\ \A p \in Rank : \A q \in DataSources(p) : Done(p, q)' = Done(p, q)
<1>1. /\ phase[r] = "fixed" /\ posted[r] < cycle[r]
      /\ posted' = [posted EXCEPT ![r] = cycle[r]]
      /\ taken' = [taken EXCEPT ![r] = {}]
      /\ UNCHANGED <<phase, cycle>>
  BY DEF Gather, vars
<1>2. \A p \in Rank : posted[p] \in Nat /\ cycle[p] \in 0 .. CycleBound /\ cycle[p] \in Nat
  BY PartitionAssumption DEF CallsInTurn, TypeOK
<1>3. cycle[r] = posted[r] + 1 /\ cycle[r] \in 1 .. CycleBound
  BY <1>1, <1>2 DEF CallsInTurn
<1>4. \A p \in Rank : /\ posted'[p] = IF p = r THEN posted[p] + 1 ELSE posted[p]
                      /\ taken'[p] = IF p = r THEN {} ELSE taken[p]
  BY <1>1, <1>3 DEF CallsInTurn
<1>5. CallsInTurn'
  <2>1. posted' \in [Rank -> Nat] /\ taken' \in [Rank -> SUBSET Rank]
    BY <1>1, <1>2 DEF CallsInTurn
  <2>2. ASSUME NEW p \in Rank
        PROVE  /\ posted'[p] <= cycle[p] /\ cycle[p] <= posted'[p] + 1
               /\ phase[p] # "fixed" => posted'[p] = cycle[p]
               /\ taken'[p] \subseteq DataSources(p)
               /\ posted'[p] = 0 => taken'[p] = {}
               /\ posted'[p] # 0 /\ (phase[p] # "fixed" \/ posted'[p] # cycle[p]) =>
                    taken'[p] = DataSources(p)
    <3>1. CASE p = r
      BY <1>1, <1>2, <1>3, <1>4, <3>1
    <3>2. CASE p # r
      BY <1>4, <3>2 DEF CallsInTurn
    <3>. QED
      BY <3>1, <3>2
  <2>. QED
    BY <1>1, <2>1, <2>2 DEF CallsInTurn
<1>6. ASSUME NEW p \in Rank, NEW q \in DataSources(p)
      PROVE  Done(p, q)' = Done(p, q)
  <2>1. CASE p = r
    <3>1. posted[r] # 0 => taken[r] = DataSources(r)
      BY <1>2, <1>3 DEF CallsInTurn
    <3>2. Done(r, q) = posted[r]
      BY <2>1, <3>1 DEF Done
    <3>3. Done(r, q)' = posted[r]
      BY <1>2, <1>4 DEF Done
    <3>. QED
      BY <2>1, <3>2, <3>3
  <2>2. CASE p # r
    BY <1>4, <2>2 DEF Done
  <2>. QED
    BY <2>1, <2>2
<1>. QED
  BY <1>3, <1>4, <1>5, <1>6

LEMMA CallsInScatter ==
  ASSUME TypeOK, CallsInTurn, StreamsInTurn, NEW r \in Rank, NEW q \in Rank, Scatter(r, q)
  PROVE  /\ CallsInTurn'
         /\ phase[r] = "fixed" /\ cycle[r] = posted[r] /\ posted[r] \in 1 .. CycleBound
         /\ q \in DataSources(r) /\ Done(r, q) = posted[r] - 1 /\ Done(r, q)' = posted[r]
         /\ \A p, o \in Rank : p # r \/ o # q => Done(p, o)' = Done(p, o)
<1>1. /\ Communicating(r) /\ q \notin taken[r] /\ streams[q][r] # <<>>
      /\ taken' = [taken EXCEPT ![r] = @ \cup {q}]
      /\ UNCHANGED <<posted, phase, cycle>>
  BY DEF Scatter, vars
<1>2. \A p \in Rank : posted[p] \in Nat /\ cycle[p] \in 0 .. CycleBound /\ taken[p] \in SUBSET Rank
  BY DEF CallsInTurn, TypeOK
<1>3. cycle[r] = posted[r] /\ posted[r] \in 1 .. CycleBound /\ posted[r] # 0
  BY <1>1, <1>2, PartitionAssumption DEF Communicating
<1>4. phase[r] = "fixed"
  BY <1>1, <1>3 DEF CallsInTurn, Communicating
<1>5. q \in DataSources(r)
  <2>1. streams[q][r] \in Seq({InOrder(E) : E \in SUBSET Exchanged(q, r)})
    BY DEF StreamsInTurn
  <2>2. Len(streams[q][r]) # 0
    BY <1>1, <2>1, EmptySeq
  <2>. QED
    BY <2>2 DEF StreamsInTurn
<1>6. \A p \in Rank : taken'[p] = IF p = r THEN taken[p] \cup {q} ELSE taken[p]
  BY <1>1 DEF CallsInTurn
<1>7. CallsInTurn'
  <2>1. taken' \in [Rank -> SUBSET Rank]
    BY <1>1, <1>2 DEF CallsInTurn
  <2>2. ASSUME NEW p \in Rank
        PROVE  /\ taken'[p] \subseteq DataSources(p)
               /\ posted[p] = 0 => taken'[p] = {}
               /\ posted[p] # 0 /\ (phase[p] # "fixed" \/ posted[p] # cycle[p]) =>
                    taken'[p] = DataSources(p)
    <3>1. CASE p = r
      BY <1>3, <1>4, <1>5, <1>6, <3>1 DEF CallsInTurn
    <3>2. CASE p # r
      BY <1>6, <3>2 DEF CallsInTurn
    <3>. QED
      BY <3>1, <3>2
  <2>. QED
    BY <1>1, <2>1, <2>2 DEF CallsInTurn
<1>8. Done(r, q) = posted[r] - 1 /\ Done(r, q)' = posted[r]
  <2>1. posted'[r] = posted[r] /\ q \in taken'[r]
    BY <1>1, <1>6
  <2>2. Done(r, q) = posted[r] - 1
    BY <1>1, <1>3, Zenon DEF Done
  <2>3. Done(r, q)' = posted[r]
    BY <2>1, Zenon DEF Done
  <2>. QED
    BY <2>2, <2>3
<1>9. \A p, o \in Rank : p # r \/ o # q => Done(p, o)' = Done(p, o)
  BY <1>1, <1>6 DEF Done
<1>. QED
  BY <1>3, <1>4, <1>5, <1>7, <1>8, <1>9

(* A stream on its way belongs to a call its sender has made.              *)
LEMMA StreamCall ==
  ASSUME TypeOK, CallsInTurn, StreamsInTurn, NEW q \in Rank, NEW r \in Rank,
         NEW i \in DOMAIN streams[q][r]
  PROVE  /\ q \in DataSources(r)
         /\ Done(r, q) + i \in 1 .. posted[q]
         /\ Done(r, q) + i \in 0 .. CycleBound
<1>1. streams[q][r] \in Seq({InOrder(E) : E \in SUBSET Exchanged(q, r)})
  BY DEF StreamsInTurn
<1>2. Len(streams[q][r]) \in Nat /\ i \in 1 .. Len(streams[q][r])
  BY <1>1, LenProperties
<1>3. q \in DataSources(r) /\ Len(streams[q][r]) = posted[q] - Done(r, q)
  <2>1. Len(streams[q][r]) = IF q \in DataSources(r) THEN posted[q] - Done(r, q) ELSE 0
    BY Zenon DEF StreamsInTurn
  <2>2. Len(streams[q][r]) # 0
    BY <1>2
  <2>. QED
    BY <2>1, <2>2, Zenon
<1>4. \A p \in Rank : posted[p] \in Nat /\ cycle[p] \in 0 .. CycleBound /\ posted[p] <= cycle[p]
  BY DEF CallsInTurn, TypeOK
<1>5. Done(r, q) \in Nat
  BY <1>4 DEF Done
<1>6. posted[q] <= CycleBound /\ CycleBound \in Nat
  BY <1>4, PartitionAssumption
<1>. QED
  BY <1>2, <1>3, <1>4, <1>5, <1>6
-----------------------------------------------------------------------------
(* What is on its way.                                                     *)

LEMMA CallKept ==
  ASSUME TypeOK, CallsInTurn, StreamsInTurn, NEW g, NEW h, StreamsFollow(h), Continues(g, h),
         NEW q \in Rank, NEW r \in Rank, NEW i \in DOMAIN streams[q][r],
         NEW n, n = Done(r, q) + i
  PROVE  Settled(q, r, n)' /\ streams[q][r][i] = StreamOf(g, q, r, n)
<1>1. n \in 0 .. CycleBound
  BY StreamCall
<1>2. Settled(q, r, n) /\ streams[q][r][i] = StreamOf(h, q, r, n)
  BY DEF StreamsFollow
<1>. QED
  BY <1>1, <1>2, StreamKept

(* The stream to write and the one to read of the present call.            *)
LEMMA PresentCall ==
  ASSUME TypeOK, NEW g, NEW h \in Histories, Follow(h), Continues(g, h), ~removed,
         NEW q \in Rank, NEW r \in Rank, NEW p \in {q, r}, phase[p] = "fixed",
         NEW n \in 0 .. CycleBound, n = cycle[p]
  PROVE  /\ InOrder({e \in Exchanged(q, r) : Participates(CallOn[n], p, e)}) = StreamOf(h, q, r, n)
         /\ Settled(q, r, n)' /\ StreamOf(g, q, r, n) = StreamOf(h, q, r, n)
<1>1. Exchanged(q, r) \in SUBSET EntitiesOn(p)
  BY ExchangedEntities
<1>2. /\ {e \in Exchanged(q, r) : Participates(CallOn[n], p, e)}
         = {e \in Exchanged(q, r) : CallOn[n] = MultiDomain \/ CallOn[n] \in LayoutOf(h, e, n)}
      /\ Settled(q, r, n)
  BY <1>1, Participants DEF Settled
<1>3. InOrder({e \in Exchanged(q, r) : Participates(CallOn[n], p, e)}) = StreamOf(h, q, r, n)
  BY <1>2, Zenon DEF StreamOf
<1>. QED
  BY <1>2, <1>3, StreamKept

LEMMA StreamsInCycleStep ==
  ASSUME StreamsInTurn, CycleStep
  PROVE  StreamsInTurn'
<1>1. UNCHANGED <<posted, taken, streams>>
  BY DEF CycleStep, data
<1>. QED
  BY <1>1 DEF StreamsInTurn, Done

LEMMA FollowInCycleStep ==
  ASSUME TypeOK, CallsInTurn, StreamsInTurn, NEW g, NEW h, StreamsFollow(h), Continues(g, h), CycleStep
  PROVE  StreamsFollow(g)' /\ misread' = misread
<1>1. UNCHANGED <<posted, taken, streams, misread>>
  BY DEF CycleStep, data
<1>2. ASSUME NEW q \in Rank, NEW r \in Rank, NEW i \in DOMAIN streams'[q][r]
      PROVE  /\ Settled(q, r, Done(r, q) + i)'
             /\ streams'[q][r][i] = StreamOf(g, q, r, Done(r, q)' + i)
  <2>1. PICK n : n = Done(r, q) + i
    OBVIOUS
  <2>2. Done(r, q)' = Done(r, q) /\ i \in DOMAIN streams[q][r]
    BY <1>1 DEF Done
  <2>3. Settled(q, r, n)' /\ streams[q][r][i] = StreamOf(g, q, r, n)
    BY <2>1, <2>2, CallKept
  <2>4. n = Done(r, q)' + i
    BY <2>1, <2>2
  <2>. QED
    BY <1>1, <2>3, <2>4
<1>. QED
  BY <1>1, <1>2 DEF StreamsFollow
LEMMA StreamsInGather ==
  ASSUME TypeOK, CallsInTurn, StreamsInTurn, NEW r \in Rank, Gather(r)
  PROVE  /\ StreamsInTurn'
         /\ \A q, p \in Rank :
              \/ streams'[q][p] = streams[q][p]
              \/ /\ q = r /\ q \in DataSources(p)
                 /\ DOMAIN streams'[q][p] = 1 .. Len(streams[q][p]) + 1
                 /\ \A i \in 1 .. Len(streams[q][p]) : streams'[q][p][i] = streams[q][p][i]
                 /\ streams'[q][p][Len(streams[q][p]) + 1] = Gathered(CallOn[cycle[r]], r, p)
                 /\ Done(p, q)' + Len(streams[q][p]) + 1 = cycle[r]
<1>1. /\ cycle[r] = posted[r] + 1
      /\ \A p \in Rank : posted'[p] = IF p = r THEN posted[p] + 1 ELSE posted[p]
      /\ \A p \in Rank : \A q \in DataSources(p) : Done(p, q)' = Done(p, q)
      /\ \A p \in Rank : posted[p] \in Nat /\ posted'[p] \in Nat
  BY CallsInGather DEF CallsInTurn
<1>2. /\ streams' = [streams EXCEPT ![r] = streams'[r]]
      /\ \A p \in Rank :
           streams'[r][p] = IF r \in DataSources(p)
                            THEN Append(streams[r][p], Gathered(CallOn[cycle[r]], r, p))
                            ELSE streams[r][p]
      /\ streams'[r] = [p \in Rank |-> streams'[r][p]]
  <2> DEFINE row == [p \in Rank |-> IF r \in DataSources(p)
                       THEN Append(streams[r][p], Gathered(CallOn[cycle[r]], r, p))
                       ELSE streams[r][p]]
  <2>1. streams' = [streams EXCEPT ![r] = row]
    BY DEF Gather
  <2>2. r \in DOMAIN streams
    BY DEF StreamsInTurn
  <2>3. row = [p \in Rank |-> row[p]]
    OBVIOUS
  <2>4. \A p \in Rank : row[p] = IF r \in DataSources(p)
                       THEN Append(streams[r][p], Gathered(CallOn[cycle[r]], r, p))
                       ELSE streams[r][p]
    OBVIOUS
  <2> HIDE DEF row
  <2>5. streams'[r] = row
    BY <2>1, <2>2
  <2>. QED
    BY <2>1, <2>3, <2>4, <2>5
<1>3. streams' = [q \in Rank |-> [p \in Rank |-> streams'[q][p]]]
  <2>1. \A q \in Rank : streams'[q] = [p \in Rank |-> streams'[q][p]]
    BY <1>2 DEF StreamsInTurn
  <2>2. streams' = [q \in Rank |-> streams'[q]]
    BY <1>2 DEF StreamsInTurn
  <2>. QED
    BY <2>1, <2>2
<1>4. ASSUME NEW q \in Rank, NEW p \in Rank
      PROVE  /\ streams'[q][p] \in Seq({InOrder(E) : E \in SUBSET Exchanged(q, p)})
             /\ Len(streams'[q][p]) = IF q \in DataSources(p) THEN posted'[q] - Done(p, q)' ELSE 0
             /\ \/ streams'[q][p] = streams[q][p]
                \/ /\ q = r /\ q \in DataSources(p)
                   /\ DOMAIN streams'[q][p] = 1 .. Len(streams[q][p]) + 1
                   /\ \A i \in 1 .. Len(streams[q][p]) : streams'[q][p][i] = streams[q][p][i]
                   /\ streams'[q][p][Len(streams[q][p]) + 1] = Gathered(CallOn[cycle[r]], r, p)
                   /\ Done(p, q)' + Len(streams[q][p]) + 1 = cycle[r]
  <2> DEFINE S == {InOrder(E) : E \in SUBSET Exchanged(q, p)}
  <2>1. /\ streams[q][p] \in Seq(S)
        /\ Len(streams[q][p]) = IF q \in DataSources(p) THEN posted[q] - Done(p, q) ELSE 0
    BY Zenon DEF StreamsInTurn
  <2>2. CASE q # r \/ q \notin DataSources(p)
    <3>1. streams'[q][p] = streams[q][p]
      BY <1>2, <2>2 DEF StreamsInTurn
    <3>2. q \in DataSources(p) => posted'[q] = posted[q] /\ Done(p, q)' = Done(p, q)
      BY <1>1, <2>2
    <3>. QED
      BY <2>1, <3>1, <3>2
  <2>3. CASE q = r /\ q \in DataSources(p)
    <3>1. PICK new : new = Gathered(CallOn[cycle[r]], r, p)
      OBVIOUS
    <3>2. new \in S
      BY <2>3, <3>1 DEF Gathered
    <3>3. streams'[q][p] = Append(streams[q][p], new)
      BY <1>2, <2>3, <3>1
    <3>4. Done(p, q)' = Done(p, q) /\ posted'[q] = posted[q] + 1
      BY <1>1, <2>3
    <3>5. Len(streams[q][p]) = posted[q] - Done(p, q) /\ Len(streams[q][p]) \in Nat /\ posted[q] \in Nat
      BY <1>1, <2>1, <2>3, LenProperties
    <3>6. Done(p, q) \in Int
      BY <1>1 DEF Done
    <3> HIDE DEF S
    <3>7. /\ Append(streams[q][p], new) \in Seq(S)
          /\ Len(Append(streams[q][p], new)) = Len(streams[q][p]) + 1
          /\ \A i \in 1 .. Len(streams[q][p]) : Append(streams[q][p], new)[i] = streams[q][p][i]
          /\ Append(streams[q][p], new)[Len(streams[q][p]) + 1] = new
      BY <2>1, <3>2, AppendProperties
    <3>8. DOMAIN streams'[q][p] = 1 .. Len(streams[q][p]) + 1
      BY <3>3, <3>7, LenProperties
    <3>9. /\ Len(streams[q][p]) + 1 = posted'[q] - Done(p, q)'
          /\ Done(p, q)' + Len(streams[q][p]) + 1 = cycle[r]
      BY <1>1, <2>3, <3>4, <3>5, <3>6
    <3>. QED
      BY <2>3, <3>1, <3>3, <3>7, <3>8, <3>9 DEF S
  <2>. QED
    BY <2>2, <2>3
<1>. QED
  BY <1>3, <1>4 DEF StreamsInTurn
LEMMA FollowInGather ==
  ASSUME TypeOK, CallsInTurn, StreamsInTurn, NEW g, NEW h \in Histories, Follow(h), Continues(g, h),
         ~removed, StreamsFollow(h), NEW r \in Rank, Gather(r)
  PROVE  StreamsFollow(g)' /\ misread' = misread
<1>1. misread' = misread /\ phase[r] = "fixed"
  BY DEF Gather
<1>2. /\ cycle[r] \in 1 .. CycleBound /\ cycle[r] \in 0 .. CycleBound
      /\ \A p \in Rank : \A q \in DataSources(p) : Done(p, q)' = Done(p, q)
  BY CallsInGather, PartitionAssumption
<1>3. ASSUME NEW q \in Rank, NEW p \in Rank, NEW i \in DOMAIN streams'[q][p]
      PROVE  /\ Settled(q, p, Done(p, q) + i)'
             /\ streams'[q][p][i] = StreamOf(g, q, p, Done(p, q)' + i)
  <2>1. CASE i \in DOMAIN streams[q][p] /\ streams'[q][p][i] = streams[q][p][i]
    <3>1. PICK n : n = Done(p, q) + i
      OBVIOUS
    <3>2. q \in DataSources(p)
      BY <2>1, StreamCall
    <3>3. Settled(q, p, n)' /\ streams[q][p][i] = StreamOf(g, q, p, n)
      BY <2>1, <3>1, CallKept
    <3>4. n = Done(p, q)' + i
      BY <1>2, <3>1, <3>2
    <3>. QED
      BY <2>1, <3>3, <3>4
  <2>2. CASE streams'[q][p] # streams[q][p]
    <3>1. /\ q = r /\ q \in DataSources(p)
          /\ DOMAIN streams'[q][p] = 1 .. Len(streams[q][p]) + 1
          /\ \A k \in 1 .. Len(streams[q][p]) : streams'[q][p][k] = streams[q][p][k]
          /\ streams'[q][p][Len(streams[q][p]) + 1] = Gathered(CallOn[cycle[r]], r, p)
          /\ Done(p, q)' + Len(streams[q][p]) + 1 = cycle[r]
      BY <2>2, StreamsInGather
    <3>2. /\ DOMAIN streams[q][p] = 1 .. Len(streams[q][p])
          /\ Len(streams[q][p]) \in Nat
      <4>1. streams[q][p] \in Seq({InOrder(E) : E \in SUBSET Exchanged(q, p)})
        BY DEF StreamsInTurn
      <4>. QED
        BY <4>1, LenProperties
    <3>3. i \in DOMAIN streams[q][p] \/ i = Len(streams[q][p]) + 1
      BY <3>1, <3>2
    <3>4. CASE i \in DOMAIN streams[q][p]
      BY <2>1, <3>1, <3>2, <3>4
    <3>5. CASE i = Len(streams[q][p]) + 1
      <4>1. PICK n \in 0 .. CycleBound : n = cycle[r]
        BY <1>2
      <4>2. /\ InOrder({e \in Exchanged(q, p) : Participates(CallOn[n], r, e)}) = StreamOf(h, q, p, n)
            /\ Settled(q, p, n)' /\ StreamOf(g, q, p, n) = StreamOf(h, q, p, n)
        BY <1>1, <3>1, <4>1, PresentCall
      <4>3. streams'[q][p][i] = StreamOf(g, q, p, n)
        BY <3>1, <3>5, <4>1, <4>2 DEF Gathered
      <4>4. CallsInTurn'
        BY CallsInGather
      <4>5. Done(p, q)' \in Int
        BY <4>4 DEF CallsInTurn, Done
      <4>6. Done(p, q)' + i = n
        BY <3>1, <3>2, <3>5, <4>1, <4>5
      <4>. QED
        BY <4>2, <4>3, <4>6
    <3>. QED
      BY <3>3, <3>4, <3>5
  <2>. QED
    BY <2>1, <2>2
<1>. QED
  BY <1>1, <1>3 DEF StreamsFollow

LEMMA StreamsInScatter ==
  ASSUME TypeOK, CallsInTurn, StreamsInTurn, NEW r \in Rank, NEW q \in Rank, Scatter(r, q)
  PROVE  /\ StreamsInTurn'
         /\ 1 \in DOMAIN streams[q][r] /\ Head(streams[q][r]) = streams[q][r][1]
         /\ \A i \in DOMAIN streams'[q][r] :
              /\ i \in Nat /\ i + 1 \in DOMAIN streams[q][r]
              /\ streams'[q][r][i] = streams[q][r][i + 1]
         /\ \A o, p \in Rank : o # q \/ p # r => streams'[o][p] = streams[o][p]
<1>1. /\ q \in DataSources(r) /\ Done(r, q) = posted[r] - 1 /\ Done(r, q)' = posted[r]
      /\ \A p, o \in Rank : p # r \/ o # q => Done(p, o)' = Done(p, o)
  BY CallsInScatter
<1>2. /\ streams[q][r] # <<>> /\ posted' = posted
      /\ streams' = [streams EXCEPT ![q][r] = Tail(@)]
  BY DEF Scatter
<1>3. \A o, p \in Rank : streams'[o][p] = IF o = q /\ p = r THEN Tail(streams[q][r]) ELSE streams[o][p]
  BY <1>2 DEF StreamsInTurn
<1>4. streams' = [o \in Rank |-> [p \in Rank |-> streams'[o][p]]]
  <2>1. PICK row : row = [streams[q] EXCEPT ![r] = Tail(@)]
    OBVIOUS
  <2>2. streams[q] = [p \in Rank |-> streams[q][p]]
    BY DEF StreamsInTurn
  <2>3. row = [p \in Rank |-> row[p]]
    BY <2>1, <2>2
  <2>4. streams' = [streams EXCEPT ![q] = row]
    BY <1>2, <2>1
  <2>5. \A o \in Rank : streams'[o] = [p \in Rank |-> streams'[o][p]]
    BY <2>3, <2>4 DEF StreamsInTurn
  <2>6. streams' = [o \in Rank |-> streams'[o]]
    BY <2>4 DEF StreamsInTurn
  <2>. QED
    BY <2>5, <2>6
<1>5. PICK S : S = {InOrder(E) : E \in SUBSET Exchanged(q, r)}
  OBVIOUS
<1>6. streams[q][r] \in Seq(S) /\ Len(streams[q][r]) = posted[q] - Done(r, q)
  BY <1>1, <1>5, Zenon DEF StreamsInTurn
<1>7. /\ Tail(streams[q][r]) \in Seq(S)
      /\ Len(Tail(streams[q][r])) = Len(streams[q][r]) - 1
      /\ \A i \in 1 .. Len(Tail(streams[q][r])) : Tail(streams[q][r])[i] = streams[q][r][i + 1]
      /\ Len(streams[q][r]) \in Nat \ {0}
      /\ DOMAIN streams[q][r] = 1 .. Len(streams[q][r])
      /\ DOMAIN Tail(streams[q][r]) = 1 .. Len(Tail(streams[q][r]))
  BY <1>2, <1>6, HeadTailProperties, LenProperties, EmptySeq
<1>8. /\ 1 \in DOMAIN streams[q][r] /\ Head(streams[q][r]) = streams[q][r][1]
      /\ \A i \in DOMAIN Tail(streams[q][r]) :
           /\ i \in Nat /\ i + 1 \in DOMAIN streams[q][r]
           /\ Tail(streams[q][r])[i] = streams[q][r][i + 1]
  BY <1>6, <1>7
<1>9. Len(Tail(streams[q][r])) = posted[q] - Done(r, q)'
  <2>1. posted[q] \in Nat /\ posted[r] \in Nat
    BY DEF CallsInTurn
  <2>. QED
    BY <1>1, <1>6, <1>7, <2>1
<1>10. ASSUME NEW o \in Rank, NEW p \in Rank
       PROVE  /\ streams'[o][p] \in Seq({InOrder(E) : E \in SUBSET Exchanged(o, p)})
              /\ Len(streams'[o][p]) = IF o \in DataSources(p) THEN posted'[o] - Done(p, o)' ELSE 0
  <2>1. CASE o = q /\ p = r
    <3>1. streams'[q][r] = Tail(streams[q][r])
      BY <1>3
    <3>2. Len(streams'[q][r]) = posted'[q] - Done(r, q)'
      BY <1>2, <1>9, <3>1
    <3>3. streams'[q][r] \in Seq(S)
      BY <1>7, <3>1
    <3>. QED
      BY <1>1, <1>5, <2>1, <3>2, <3>3, Zenon
  <2>2. CASE o # q \/ p # r
    <3>1. streams'[o][p] = streams[o][p] /\ Done(p, o)' = Done(p, o)
      BY <1>1, <1>3, <2>2
    <3>2. /\ streams[o][p] \in Seq({InOrder(E) : E \in SUBSET Exchanged(o, p)})
          /\ Len(streams[o][p]) = IF o \in DataSources(p) THEN posted[o] - Done(p, o) ELSE 0
      BY Zenon DEF StreamsInTurn
    <3>. QED
      BY <1>2, <3>1, <3>2
  <2>. QED
    BY <2>1, <2>2
<1>11. StreamsInTurn'
  BY <1>4, <1>10 DEF StreamsInTurn
<1>. QED
  BY <1>3, <1>8, <1>11

LEMMA FollowInScatter ==
  ASSUME TypeOK, CallsInTurn, StreamsInTurn, NEW g, NEW h \in Histories, Follow(h), Continues(g, h),
         ~removed, StreamsFollow(h), NEW r \in Rank, NEW q \in Rank, Scatter(r, q)
  PROVE  StreamsFollow(g)' /\ misread' = misread
<1>1. /\ phase[r] = "fixed" /\ cycle[r] = posted[r] /\ posted[r] \in 1 .. CycleBound
      /\ posted[r] \in 0 .. CycleBound /\ posted[r] \in Nat
      /\ q \in DataSources(r) /\ Done(r, q) = posted[r] - 1 /\ Done(r, q)' = posted[r]
      /\ \A p, o \in Rank : p # r \/ o # q => Done(p, o)' = Done(p, o)
  BY CallsInScatter, PartitionAssumption
<1>2. /\ 1 \in DOMAIN streams[q][r] /\ Head(streams[q][r]) = streams[q][r][1]
      /\ \A i \in DOMAIN streams'[q][r] :
           /\ i \in Nat /\ i + 1 \in DOMAIN streams[q][r]
           /\ streams'[q][r][i] = streams[q][r][i + 1]
      /\ \A o, p \in Rank : o # q \/ p # r => streams'[o][p] = streams[o][p]
  BY StreamsInScatter
<1>3. misread' = misread
  <2>1. PICK n \in 0 .. CycleBound : n = posted[r]
    BY <1>1
  <2>2. InOrder({e \in Exchanged(q, r) : Participates(CallOn[n], r, e)}) = StreamOf(h, q, r, n)
    BY <1>1, <2>1, PresentCall
  <2>3. n = Done(r, q) + 1
    BY <1>1, <2>1
  <2>4. streams[q][r][1] = StreamOf(h, q, r, n)
    BY <1>2, <2>3 DEF StreamsFollow
  <2>5. PICK read : read = Scattered(CallOn[cycle[r]], r, q)
    OBVIOUS
  <2>6. Head(streams[q][r]) = read
    BY <1>1, <1>2, <2>1, <2>2, <2>4, <2>5 DEF Scattered
  <2>7. misread' = misread \cup
          {<<r, read[k], IF k \in DOMAIN read THEN read[k] ELSE "nothing">> :
             k \in {k \in DOMAIN read : k \notin DOMAIN read \/ read[k] # read[k]}}
    BY <2>5, <2>6, Zenon DEF Scatter
  <2>8. {k \in DOMAIN read : k \notin DOMAIN read \/ read[k] # read[k]} = {}
    OBVIOUS
  <2>. QED
    BY <2>7, <2>8
<1>4. ASSUME NEW o \in Rank, NEW p \in Rank, NEW i \in DOMAIN streams'[o][p]
      PROVE  /\ Settled(o, p, Done(p, o) + i)'
             /\ streams'[o][p][i] = StreamOf(g, o, p, Done(p, o)' + i)
  <2>1. CASE o = q /\ p = r
    <3>1. PICK j : j = i + 1
      OBVIOUS
    <3>2. i \in Nat /\ j \in DOMAIN streams[q][r] /\ streams'[q][r][i] = streams[q][r][j]
      BY <1>2, <2>1, <3>1
    <3>3. PICK n : n = Done(r, q) + j
      OBVIOUS
    <3>4. Settled(q, r, n)' /\ streams[q][r][j] = StreamOf(g, q, r, n)
      BY <3>2, <3>3, CallKept
    <3>5. n = Done(r, q)' + i
      BY <1>1, <3>1, <3>2, <3>3
    <3>. QED
      BY <2>1, <3>2, <3>4, <3>5
  <2>2. CASE o # q \/ p # r
    <3>1. PICK n : n = Done(p, o) + i
      OBVIOUS
    <3>2. streams'[o][p] = streams[o][p] /\ Done(p, o)' = Done(p, o)
      BY <1>1, <1>2, <2>2
    <3>3. Settled(o, p, n)' /\ streams[o][p][i] = StreamOf(g, o, p, n)
      BY <3>1, <3>2, CallKept
    <3>. QED
      BY <3>1, <3>2, <3>3
  <2>. QED
    BY <2>1, <2>2
<1>. QED
  BY <1>3, <1>4 DEF StreamsFollow

-----------------------------------------------------------------------------
(* The invariant.                                                          *)

LEMMA ExchangeInit == InitExchange => ExchangeInv
<1>. SUFFICES ASSUME InitExchange PROVE ExchangeInv
  OBVIOUS
<1>1. MarkingInv /\ misread = {}
  BY MarkingInit DEF InitExchange
<1>. QED
  BY <1>1, CallsInit DEF MarkingInv, ExchangeInv

LEMMA ExchangeStep == ExchangeInv /\ [NextExchange]_allVars => ExchangeInv'
<1>. SUFFICES ASSUME ExchangeInv, [NextExchange]_allVars PROVE ExchangeInv'
  OBVIOUS
<1>1. /\ TypeOK /\ ChannelsInStep /\ CallsInTurn /\ StreamsInTurn
      /\ \E h \in Histories : Follow(h) /\ (~removed => StreamsFollow(h) /\ misread = {})
  BY DEF ExchangeInv
<1>2. PICK h \in Histories : Follow(h) /\ (~removed => StreamsFollow(h) /\ misread = {})
  BY <1>1
<1>3. [Next]_vars
  BY DEF NextExchange, CycleStep, Gather, Scatter, AllExchanged, allVars, Next
<1>4. TypeOK' /\ ChannelsInStep'
  BY <1>1, <1>3, TypeStep, ChannelsStep
<1>5. PICK g \in Histories : Follow(g)' /\ Continues(g, h)
  BY <1>1, <1>2, <1>3, <1>4, HistoryStep
<1>6. ~removed' => ~removed
  <2>1. removed \in BOOLEAN
    BY <1>1 DEF TypeOK
  <2>. QED
    BY <1>3, <2>1 DEF Next, vars, StartMarking, Mark, AddToSubDomain, RemoveFromSubDomain, Exchange,
       CommunicateSelection, MarkAndPropagate, EndUpdate, Receive, AllDone
<1>7. SUFFICES /\ CallsInTurn' /\ StreamsInTurn'
               /\ ~removed /\ StreamsFollow(h) => StreamsFollow(g)' /\ misread' = misread
  BY <1>2, <1>4, <1>5, <1>6 DEF ExchangeInv
<1>8. CASE CycleStep
  BY <1>1, <1>5, <1>8, CallsInCycleStep, StreamsInCycleStep, FollowInCycleStep
<1>9. ASSUME NEW r \in Rank, Gather(r)
      PROVE  /\ CallsInTurn' /\ StreamsInTurn'
             /\ ~removed /\ StreamsFollow(h) => StreamsFollow(g)' /\ misread' = misread
  BY <1>1, <1>2, <1>5, <1>9, CallsInGather, StreamsInGather, FollowInGather
<1>10. ASSUME NEW r \in Rank, NEW q \in Rank, Scatter(r, q)
       PROVE  /\ CallsInTurn' /\ StreamsInTurn'
              /\ ~removed /\ StreamsFollow(h) => StreamsFollow(g)' /\ misread' = misread
  BY <1>1, <1>2, <1>5, <1>10, CallsInScatter, StreamsInScatter, FollowInScatter
<1>11. CASE UNCHANGED allVars
  <2>1. UNCHANGED <<phase, cycle, posted, taken, streams, misread>>
    BY <1>11 DEF allVars, vars, data
  <2>2. CallsInTurn'
    BY <1>1, <2>1 DEF CallsInTurn
  <2>3. StreamsInTurn'
    BY <1>1, <2>1 DEF StreamsInTurn, Done
  <2>4. ASSUME StreamsFollow(h), NEW q \in Rank, NEW r \in Rank, NEW i \in DOMAIN streams'[q][r]
        PROVE  /\ Settled(q, r, Done(r, q) + i)'
               /\ streams'[q][r][i] = StreamOf(g, q, r, Done(r, q)' + i)
    <3>1. PICK n : n = Done(r, q) + i
      OBVIOUS
    <3>2. Done(r, q)' = Done(r, q)
      BY <2>1 DEF Done
    <3>3. Settled(q, r, n)' /\ streams[q][r][i] = StreamOf(g, q, r, n)
      BY <1>1, <1>5, <2>1, <2>4, <3>1, CallKept
    <3>. QED
      BY <2>1, <3>1, <3>2, <3>3
  <2>5. StreamsFollow(h) => StreamsFollow(g)'
    BY <2>4 DEF StreamsFollow
  <2>. QED
    BY <2>1, <2>2, <2>3, <2>5
<1>. QED
  BY <1>8, <1>9, <1>10, <1>11 DEF NextExchange, AllExchanged

(* While no cell leaves a subdomain, whatever grid's communicate() is      *)
(* called after each cycle, however far apart the ranks are: scatter()     *)
(* hands to each entity what gather() wrote for it (DataHandleWrapper of   *)
(* subdomaingrid.hh).                                                      *)
THEOREM DataAlwaysRead == SpecExchange => []EachReadsItsOwn
<1>1. ExchangeInv => EachReadsItsOwn
  BY DEF ExchangeInv, EachReadsItsOwn
<1>. QED
  BY <1>1, ExchangeInit, ExchangeStep, PTL DEF SpecExchange
-----------------------------------------------------------------------------
(***************************************************************************)
(* loadBalance() on any number of ranks, with any cells and subdomains.    *)
(***************************************************************************)
CONSTANTS DataBits, VertexData
VARIABLES owner, indices, live, prepared, stateMap, pc, balanceStreams, got, failed, shown

Balance == INSTANCE LoadBalance WITH streams <- balanceStreams

LEMMA LeastNatural ==
  ASSUME NEW S \in SUBSET Nat, S # {}
  PROVE  \E n \in S : \A m \in S : n <= m
<1>1. PICK n \in S : \A m \in S : <<m, n>> \notin OpToRel(<, Nat)
  BY NatLessThanWellFounded, WFMin
<1>2. \A m \in S : ~(m < n)
  BY <1>1 DEF OpToRel
<1>. QED
  BY <1>2

(* The caller's data type is wide enough for the subdomains and their      *)
(* number: they survive the union.                                         *)
NothingCut ==
  \A x \in SubDomain \cup 0 .. Cardinality(SubDomain) : Balance!Through(x) = x

(* The cardinality of the instance is the one of FiniteSets.               *)
LEMMA SameNumber ==
  ASSUME NEW D PROVE Balance!Cardinality(D) = Cardinality(D)
BY Zenon DEF Balance!Cardinality, Cardinality

(* gather() writes every subdomain of the cell once.                       *)
LEMMA NumbersOf ==
  ASSUME Balance!BalanceAssumption, NEW D \in SUBSET SubDomain
  PROVE  /\ Cardinality(D) \in Nat /\ Cardinality(D) <= Cardinality(SubDomain)
         /\ Balance!Numbers(D) \in [1 .. Cardinality(D) -> D]
         /\ \A s \in D : \E i \in 1 .. Cardinality(D) : Balance!Numbers(D)[i] = s
<1>1. IsFiniteSet(SubDomain)
  <2>1. \A S : Balance!IsFiniteSet(S) <=> IsFiniteSet(S)
    BY Zenon DEF Balance!IsFiniteSet, IsFiniteSet
  <2>. QED
    BY <2>1 DEF Balance!BalanceAssumption
<1>2. IsFiniteSet(D) /\ Cardinality(D) <= Cardinality(SubDomain)
  BY <1>1, FS_Subset
<1>3. PICK c \in Nat : c = Cardinality(D)
  BY <1>2, FS_CardinalityType
<1>4. PICK b : b \in Bijection(1 .. c, D)
  <2>1. ExistsBijection(1 .. Cardinality(D), D)
    BY <1>2, FS_CardinalityType
  <2>. QED
    BY <1>3, <2>1 DEF ExistsBijection
<1> DEFINE chosen == CHOOSE f \in [1 .. Balance!Cardinality(D) -> D] : Balance!IsInjective(f)
<1>5. Balance!Numbers(D) = chosen
  BY Zenon DEF Balance!Numbers, Balance!SetToSeq
<1>6. chosen \in [1 .. Balance!Cardinality(D) -> D] /\ Balance!IsInjective(chosen)
  <2>1. Balance!Cardinality(D) = c
    BY <1>3, SameNumber
  <2>2. b \in [1 .. c -> D] /\ Balance!IsInjective(b)
    BY <1>4 DEF Bijection, Injection, IsInjective, Balance!IsInjective
  <2>. QED
    BY <2>1, <2>2, Zenon
<1>. HIDE DEF chosen
<1>7. PICK f : f = Balance!Numbers(D) /\ f \in [1 .. c -> D] /\ Balance!IsInjective(f)
  BY <1>3, <1>5, <1>6, SameNumber
<1>8. f \in Injection(1 .. c, D)
  BY <1>7 DEF Injection, IsInjective, Balance!IsInjective
<1>9. Cardinality(1 .. c) = c
  <2>1. \A m \in Nat : Cardinality(1 .. m) = m
    BY FS_Interval
  <2>. QED
    BY <2>1
<1>10. f \in Surjection(1 .. c, D)
  BY <1>2, <1>3, <1>8, <1>9, FS_Injection
<1>11. \A s \in D : \E i \in 1 .. c : f[i] = s
  BY <1>10 DEF Surjection
<1>. QED
  BY <1>2, <1>3, <1>7, <1>11

(* What gather() writes for a cell: the number of its subdomains, these,   *)
(* and the caller's data.                                                  *)
LEMMA GatheredOf ==
  ASSUME Balance!BalanceAssumption, NothingCut, NEW D \in SUBSET SubDomain, NEW c \in Cell
  PROVE  /\ Balance!Gathered(D, c) \in Seq(Int)
         /\ Len(Balance!Gathered(D, c)) = Cardinality(D) + 2
         /\ Balance!size(D, c) = Cardinality(D) + 2
         /\ Balance!Gathered(D, c)[1] = Cardinality(D)
         /\ \A i \in 1 .. Cardinality(D) :
              Balance!Gathered(D, c)[i + 1] = Balance!Numbers(D)[i]
         /\ Balance!Gathered(D, c)[Cardinality(D) + 2] = -1 - c
<1>1. PICK k \in Nat : k = Cardinality(D) /\ k <= Cardinality(SubDomain)
  BY NumbersOf
<1>2. PICK f : f = Balance!Numbers(D) /\ f \in [1 .. k -> D]
  BY <1>1, NumbersOf
<1>3. SubDomain \in SUBSET Nat /\ c \in Nat
  BY DEF Balance!BalanceAssumption
<1>4. \A s \in SubDomain : Balance!Through(s) = s
  BY DEF NothingCut
<1>5. Balance!Through(k) = k
  <2>1. Cardinality(SubDomain) \in Nat
    <3>1. SubDomain \in SUBSET SubDomain
      OBVIOUS
    <3>. QED
      BY <3>1, NumbersOf
  <2>2. k \in 0 .. Cardinality(SubDomain)
    BY <1>1, <2>1
  <2>. QED
    BY <2>2 DEF NothingCut
<1>6. PICK a : a = <<k>> /\ a \in Seq(Int) /\ Len(a) = 1 /\ a[1] = k
  <2>1. k \in Int
    OBVIOUS
  <2>2. <<k>> \in Seq(Int) /\ Len(<<k>>) = 1 /\ <<k>>[1] = k
    BY <2>1
  <2>. QED
    BY <2>2, Zenon
<1>7. PICK b : b = [i \in DOMAIN f |-> Balance!Through(f[i])] /\ b = [i \in 1 .. k |-> f[i]]
  <2>1. DOMAIN f = 1 .. k /\ \A i \in 1 .. k : Balance!Through(f[i]) = f[i]
    BY <1>2, <1>4
  <2>. QED
    BY <2>1
<1>8. b \in Seq(Int) /\ Len(b) = k /\ \A i \in 1 .. k : b[i] = f[i]
  <2>0. \A i \in 1 .. k : f[i] \in Int
    <3>1. \A i \in 1 .. k : f[i] \in SubDomain
      BY <1>2
    <3>2. \A x \in Nat : x \in Int
      OBVIOUS
    <3>. QED
      BY <1>3, <3>1, <3>2, Zenon
  <2>1. b \in [1 .. k -> Int]
    BY <1>7, <2>0
  <2>2. b \in Seq(Int) /\ Len(b) = k
    BY <2>1, LenProperties
  <2>. QED
    BY <1>7, <2>2
<1>9. PICK u : u = <<-1 - c>> /\ u \in Seq(Int) /\ Len(u) = 1 /\ u[1] = -1 - c
  <2>1. -1 - c \in Int
    BY <1>3
  <2>2. <<-1 - c>> \in Seq(Int) /\ Len(<<-1 - c>>) = 1 /\ <<-1 - c>>[1] = -1 - c
    BY <2>1
  <2>. QED
    BY <2>2, Zenon
<1>10. Balance!Gathered(D, c) = a \o b \o u
  BY <1>1, <1>2, <1>5, <1>6, <1>7, <1>9, SameNumber DEF Balance!Gathered, Balance!UserData
<1>11. PICK ab : /\ ab = a \o b /\ ab \in Seq(Int) /\ Len(ab) = k + 1
                 /\ \A i \in 1 .. k + 1 : ab[i] = IF i <= 1 THEN a[i] ELSE b[i - 1]
  <2>1. /\ a \o b \in Seq(Int) /\ Len(a \o b) = 1 + k
        /\ \A i \in 1 .. 1 + k : (a \o b)[i] = IF i <= 1 THEN a[i] ELSE b[i - 1]
    BY <1>6, <1>8, ConcatProperties
  <2>2. 1 + k = k + 1
    OBVIOUS
  <2>. QED
    BY <2>1, <2>2
<1>12. PICK g : /\ g = Balance!Gathered(D, c) /\ g \in Seq(Int) /\ Len(g) = k + 2
                /\ \A i \in 1 .. k + 2 : g[i] = IF i <= k + 1 THEN ab[i] ELSE u[i - (k + 1)]
  <2>1. /\ ab \o u \in Seq(Int) /\ Len(ab \o u) = k + 1 + 1
        /\ \A i \in 1 .. k + 1 + 1 : (ab \o u)[i] = IF i <= k + 1 THEN ab[i] ELSE u[i - (k + 1)]
    BY <1>9, <1>11, ConcatProperties
  <2>2. k + 1 + 1 = k + 2
    OBVIOUS
  <2>. QED
    BY <1>10, <1>11, <2>1, <2>2
<1>13. g[1] = k
  <2>1. 1 \in 1 .. k + 2 /\ 1 <= k + 1 /\ 1 \in 1 .. k + 1 /\ 1 <= 1
    OBVIOUS
  <2>. QED
    BY <1>6, <1>11, <1>12, <2>1
<1>14. ASSUME NEW i \in 1 .. k PROVE g[i + 1] = f[i]
  <2>1. PICK j \in 1 .. k + 2 : j = i + 1 /\ j <= k + 1 /\ j \in 1 .. k + 1 /\ ~(j <= 1) /\ j - 1 = i
    <3>1. i + 1 \in 1 .. k + 2 /\ i + 1 <= k + 1 /\ i + 1 \in 1 .. k + 1
      OBVIOUS
    <3>2. ~(i + 1 <= 1) /\ i + 1 - 1 = i
      OBVIOUS
    <3>. QED
      BY <3>1, <3>2
  <2>2. g[j] = ab[j] /\ ab[j] = b[i]
    BY <1>11, <1>12, <2>1
  <2>. QED
    BY <1>8, <2>1, <2>2
<1>15. g[k + 2] = -1 - c
  <2>1. k + 2 \in 1 .. k + 2 /\ ~(k + 2 <= k + 1) /\ k + 2 - (k + 1) = 1
    OBVIOUS
  <2>. QED
    BY <1>9, <1>12, <2>1
<1>16. Balance!size(D, c) = k + 2
  <2>1. Balance!size(D, c) = k + 1 + Len(u)
    BY <1>1, <1>9, SameNumber DEF Balance!size, Balance!UserData
  <2>. QED
    BY <1>9, <2>1
<1>. QED
  BY <1>1, <1>2, <1>12, <1>13, <1>14, <1>15, <1>16

(* A part of a sequence.                                                   *)
LEMMA Window ==
  ASSUME NEW s \in Seq(Int), NEW m \in Nat, NEW e \in Nat, 1 <= m, m <= e + 1, e <= Len(s)
  PROVE  /\ SubSeq(s, m, e) \in Seq(Int)
         /\ Len(SubSeq(s, m, e)) = e - m + 1
         /\ \A i \in 1 .. e - m + 1 : SubSeq(s, m, e)[i] = s[m + i - 1]
<1>1. PICK n \in Nat : n = Len(s) /\ \A i \in 1 .. n : s[i] \in Int
  BY LenProperties
<1>2. \A i \in m .. e : i \in 1 .. n
  BY <1>1
<1>3. \A i \in m .. e : s[i] \in Int
  BY <1>1, <1>2
<1>4. m \in Int /\ e \in Int
  OBVIOUS
<1>5. SubSeq(s, m, e) \in Seq(Int)
  BY <1>3, <1>4, SubSeqProperties, Zenon
<1>6. Len(SubSeq(s, m, e)) = IF m <= e THEN e - m + 1 ELSE 0
  BY <1>3, <1>4, SubSeqProperties
<1>7. \A i \in 1 .. e - m + 1 : SubSeq(s, m, e)[i] = s[m + i - 1]
  OBVIOUS
<1>8. (IF m <= e THEN e - m + 1 ELSE 0) = e - m + 1
  OBVIOUS
<1>9. Len(SubSeq(s, m, e)) = e - m + 1
  BY <1>6, <1>8
<1>. QED
  BY <1>5, <1>7, <1>9, Zenon

(* What scatter() reads from the front of items: D and the caller's data   *)
(* for c, or all of it with the caller's data at the end, and rest is left. *)
Reads(items, k, D, c, rest) ==
  /\ Balance!EndsIn(SubSeq(items, 1, Balance!size(D, c)), Balance!UserData(c))
  /\ Balance!ToSet(SubSeq(items, 2, k + 1)) = D
  /\ SubSeq(items, k + 2, Balance!size(D, c)) = Balance!UserData(c)
  /\ SubSeq(items, Balance!size(D, c) + 1, Len(items)) = rest

(* It is what gather() wrote.                                              *)
LEMMA ReadBack ==
  ASSUME Balance!BalanceAssumption, NothingCut, NEW D \in SUBSET SubDomain, NEW c \in Cell,
         NEW rest \in Seq(Int), NEW items, items = Balance!Gathered(D, c) \o rest,
         NEW k, k = Head(items)
  PROVE  Reads(items, k, D, c, rest)
<1>1. PICK n \in Nat : n = Cardinality(D)
  BY NumbersOf
<1>2. PICK g : /\ g = Balance!Gathered(D, c) /\ g \in Seq(Int) /\ Len(g) = n + 2
               /\ g[1] = n /\ g[n + 2] = -1 - c
               /\ \A i \in 1 .. n : g[i + 1] = Balance!Numbers(D)[i]
  BY <1>1, GatheredOf
<1>3. PICK f : f = Balance!Numbers(D) /\ f \in [1 .. n -> D] /\ \A s \in D : \E i \in 1 .. n : f[i] = s
  BY <1>1, NumbersOf
<1>4. PICK l \in Nat : l = Len(rest)
  BY LenProperties
<1>5. /\ items \in Seq(Int) /\ Len(items) = n + 2 + l
      /\ \A i \in 1 .. n + 2 + l : items[i] = IF i <= n + 2 THEN g[i] ELSE rest[i - (n + 2)]
  <2>1. /\ g \o rest \in Seq(Int) /\ Len(g \o rest) = Len(g) + Len(rest)
        /\ \A i \in 1 .. Len(g) + Len(rest) :
             (g \o rest)[i] = IF i <= Len(g) THEN g[i] ELSE rest[i - Len(g)]
    BY <1>2, ConcatProperties
  <2>2. Len(g) + Len(rest) = n + 2 + l
    BY <1>2, <1>4
  <2>3. items = g \o rest
    BY <1>2
  <2>. QED
    BY <1>2, <2>1, <2>2, <2>3
<1>6. \A i \in 1 .. n + 2 : items[i] = g[i]
  <2>1. \A i \in 1 .. n + 2 : i \in 1 .. n + 2 + l /\ i <= n + 2
    OBVIOUS
  <2>. QED
    BY <1>5, <2>1
<1>7. k = n
  <2>1. Head(items) = items[1]
    BY <1>5
  <2>2. 1 \in 1 .. n + 2
    OBVIOUS
  <2>. QED
    BY <1>2, <1>6, <2>1, <2>2
<1>8. \A i \in 1 .. n + 2 + l : items[i] \in Int
  BY <1>5, LenProperties
<1>9. Balance!ToSet(SubSeq(items, 2, k + 1)) = D
  <2>1. n + 1 \in Nat /\ n + 1 <= n + 2 + l
    OBVIOUS
  <2>3. PICK m \in Nat : m = n + 1 /\ m <= Len(items)
    BY <1>5, <2>1
  <2>4. /\ SubSeq(items, 2, m) \in Seq(Int)
        /\ Len(SubSeq(items, 2, m)) = m - 2 + 1
        /\ \A i \in 1 .. m - 2 + 1 : SubSeq(items, 2, m)[i] = items[2 + i - 1]
    <3>1. 2 \in Nat /\ 1 <= 2 /\ 2 <= m + 1
      BY <2>3
    <3>. QED
      BY <1>5, <2>3, <3>1, Window, Zenon
  <2>5. m - 2 + 1 = n
    BY <2>3
  <2>6. PICK z \in Seq(Int) : /\ z = SubSeq(items, 2, k + 1) /\ Len(z) = n
                              /\ \A i \in 1 .. n : z[i] = items[2 + i - 1]
    BY <1>7, <2>3, <2>4, <2>5
  <2>7. ASSUME NEW i \in 1 .. n PROVE z[i] = f[i]
    <3>1. PICK j \in 1 .. n + 2 : j = i + 1 /\ 2 + i - 1 = j
      <4>1. i + 1 \in 1 .. n + 2 /\ 2 + i - 1 = i + 1
        OBVIOUS
      <4>. QED
        BY <4>1
    <3>2. z[i] = items[j]
      BY <2>6, <3>1
    <3>3. g[j] = f[i]
      BY <1>2, <1>3, <3>1
    <3>. QED
      BY <1>6, <3>1, <3>2, <3>3
  <2>8. DOMAIN z = 1 .. n
    BY <2>6, LenProperties
  <2>9. Balance!ToSet(z) = {z[i] : i \in 1 .. n}
    BY <2>8 DEF Balance!ToSet
  <2>10. \A i \in 1 .. n : z[i] \in D
    BY <1>3, <2>7
  <2>11. \A s \in D : \E i \in 1 .. n : z[i] = s
    BY <1>3, <2>7
  <2>12. {z[i] : i \in 1 .. n} = D
    BY <2>10, <2>11
  <2>. QED
    BY <2>6, <2>9, <2>12
<1>10. Balance!size(D, c) = n + 2
  BY <1>1, GatheredOf
<1>11. SubSeq(items, k + 2, Balance!size(D, c)) = Balance!UserData(c)
  <2>1. PICK m \in Nat : m = n + 2 /\ m \in 1 .. n + 2 /\ m \in 1 .. n + 2 + l
    <3>1. n + 2 \in Nat /\ n + 2 \in 1 .. n + 2 /\ n + 2 \in 1 .. n + 2 + l
      OBVIOUS
    <3>. QED
      BY <3>1
  <2>4. /\ SubSeq(items, m, m) \in Seq(Int)
        /\ Len(SubSeq(items, m, m)) = m - m + 1
        /\ \A i \in 1 .. m - m + 1 : SubSeq(items, m, m)[i] = items[m + i - 1]
    <3>1. 1 <= m /\ m <= m + 1 /\ m <= Len(items)
      BY <1>5, <2>1
    <3>. QED
      BY <1>5, <3>1, Window, Zenon
  <2>5. m - m + 1 = 1 /\ 1 \in 1 .. m - m + 1 /\ m + 1 - 1 = m
    OBVIOUS
  <2>6. PICK z \in Seq(Int) : z = SubSeq(items, m, m) /\ Len(z) = 1 /\ z[1] = items[m]
    BY <2>4, <2>5
  <2>7. z[1] = -1 - c
    BY <1>2, <1>6, <2>1, <2>6
  <2>8. z = <<-1 - c>>
    <3>1. \A x \in Int : <<x>> \in Seq(Int) /\ Len(<<x>>) = 1 /\ <<x>>[1] = x
      OBVIOUS
    <3>2. PICK x \in Int : x = -1 - c
      BY DEF Balance!BalanceAssumption
    <3>3. PICK w : w = <<x>> /\ w \in Seq(Int) /\ Len(w) = 1 /\ w[1] = x
      BY <3>1, Zenon
    <3>4. \A i \in 1 .. 1 : z[i] = w[i]
      BY <2>7, <3>2, <3>3
    <3>5. z = w
      BY <2>6, <3>3, <3>4, SeqEqual
    <3>. QED
      BY <3>2, <3>3, <3>5
  <2>. QED
    BY <1>7, <1>10, <2>1, <2>6, <2>8 DEF Balance!UserData
<1>12. SubSeq(items, Balance!size(D, c) + 1, Len(items)) = rest
  <2>1. PICK m \in Nat : m = n + 2 + 1
    OBVIOUS
  <2>2. PICK e \in Nat : e = n + 2 + l
    OBVIOUS
  <2>5. /\ SubSeq(items, m, e) \in Seq(Int)
        /\ Len(SubSeq(items, m, e)) = e - m + 1
        /\ \A i \in 1 .. e - m + 1 : SubSeq(items, m, e)[i] = items[m + i - 1]
    <3>1. 1 <= m /\ m <= e + 1 /\ e <= Len(items)
      BY <1>5, <2>1, <2>2
    <3>. QED
      BY <1>5, <3>1, Window, Zenon
  <2>6. e - m + 1 = l
    BY <2>1, <2>2
  <2>7. PICK z \in Seq(Int) : /\ z = SubSeq(items, m, e) /\ Len(z) = l
                              /\ \A i \in 1 .. l : z[i] = items[m + i - 1]
    BY <2>5, <2>6
  <2>8. ASSUME NEW i \in 1 .. l PROVE z[i] = rest[i]
    <3>1. PICK j \in 1 .. n + 2 + l : j = m + i - 1 /\ ~(j <= n + 2) /\ j - (n + 2) = i
      <4>1. m + i - 1 \in 1 .. n + 2 + l /\ ~(m + i - 1 <= n + 2) /\ m + i - 1 - (n + 2) = i
        BY <2>1
      <4>. QED
        BY <4>1
    <3>. QED
      BY <1>5, <2>7, <3>1
  <2>9. z = rest
    BY <1>4, <2>7, <2>8, SeqEqual
  <2>. QED
    BY <1>5, <1>10, <2>1, <2>2, <2>7, <2>9
<1>13. Balance!EndsIn(SubSeq(items, 1, Balance!size(D, c)), Balance!UserData(c))
  <2>1. PICK m \in Nat : m = n + 2 /\ m \in 1 .. n + 2 /\ m \in 1 .. m /\ 1 <= m
    <3>1. n + 2 \in Nat /\ n + 2 \in 1 .. n + 2 /\ 1 <= n + 2
      OBVIOUS
    <3>. QED
      BY <3>1
  <2>2. /\ SubSeq(items, 1, m) \in Seq(Int)
        /\ Len(SubSeq(items, 1, m)) = m - 1 + 1
        /\ \A i \in 1 .. m - 1 + 1 : SubSeq(items, 1, m)[i] = items[1 + i - 1]
    <3>1. 1 \in Nat /\ 1 <= 1 /\ 1 <= m + 1 /\ m <= Len(items)
      BY <1>5, <2>1
    <3>. QED
      BY <1>5, <3>1, Window, Zenon
  <2>3. m - 1 + 1 = m /\ 1 + m - 1 = m
    OBVIOUS
  <2>4. PICK d \in Seq(Int) : d = SubSeq(items, 1, m) /\ Len(d) = m /\ d[m] = items[m]
    BY <2>1, <2>2, <2>3
  <2>5. /\ SubSeq(d, m, m) \in Seq(Int)
        /\ Len(SubSeq(d, m, m)) = m - m + 1
        /\ \A i \in 1 .. m - m + 1 : SubSeq(d, m, m)[i] = d[m + i - 1]
    <3>1. m <= m + 1 /\ m <= Len(d)
      BY <2>4
    <3>. QED
      BY <2>1, <2>4, <3>1, Window, Zenon
  <2>6. m - m + 1 = 1 /\ 1 \in 1 .. m - m + 1 /\ m + 1 - 1 = m
    OBVIOUS
  <2>7. PICK z \in Seq(Int) : z = SubSeq(d, m, m) /\ Len(z) = 1 /\ z[1] = d[m]
    BY <2>5, <2>6
  <2>8. z[1] = -1 - c
    BY <1>2, <1>6, <2>1, <2>4, <2>7
  <2>9. z = Balance!UserData(c)
    <3>1. \A x \in Int : <<x>> \in Seq(Int) /\ Len(<<x>>) = 1 /\ <<x>>[1] = x
      OBVIOUS
    <3>2. PICK x \in Int : x = -1 - c
      BY DEF Balance!BalanceAssumption
    <3>3. PICK w : w = <<x>> /\ w \in Seq(Int) /\ Len(w) = 1 /\ w[1] = x
      BY <3>1, Zenon
    <3>4. \A i \in 1 .. 1 : z[i] = w[i]
      BY <2>8, <3>2, <3>3
    <3>5. z = w
      BY <2>7, <3>3, <3>4, SeqEqual
    <3>. QED
      BY <3>2, <3>3, <3>5 DEF Balance!UserData
  <2>. QED
    BY <1>10, <2>1, <2>4, <2>7, <2>9 DEF Balance!EndsIn
<1>. QED
  BY <1>9, <1>11, <1>12, <1>13 DEF Reads

(* F[n] is what the last n pieces of N make, the first of them in front.   *)
Joined(N, piece, F) ==
  /\ F = [n \in 0 .. N |-> F[n]]
  /\ F[0] = <<>>
  /\ \A n \in 1 .. N : F[n] = piece[n] \o F[n - 1]

LEMMA JoinsExist ==
  ASSUME NEW N \in Nat, NEW piece
  PROVE  \E F : Joined(N, piece, F)
<1> DEFINE S == {m \in Nat : m <= N /\ ~ \E F : Joined(m, piece, F)}
<1>1. SUFFICES ASSUME S # {} PROVE FALSE
  <2>1. N <= N
    OBVIOUS
  <2>2. N \notin S
    BY <1>1, Zenon
  <2>. QED
    BY <2>1, <2>2, Zenon
<1>2. PICK m \in S : \A j \in S : m <= j
  <2>1. S \in SUBSET Nat
    OBVIOUS
  <2>. HIDE DEF S
  <2>. QED
    BY <1>1, <2>1, LeastNatural
<1>3. m \in Nat /\ m <= N /\ ~ \E F : Joined(m, piece, F)
  OBVIOUS
<1>4. CASE m = 0
  <2>1. PICK F : F = [n \in 0 .. 0 |-> <<>>]
    OBVIOUS
  <2>2. 0 \in 0 .. 0 /\ ~ \E n : n \in 1 .. 0
    OBVIOUS
  <2>3. F = [n \in 0 .. 0 |-> F[n]] /\ F[0] = <<>>
    BY <2>1, <2>2
  <2>4. Joined(0, piece, F)
    BY <2>2, <2>3 DEF Joined
  <2>. QED
    BY <1>3, <1>4, <2>4
<1>5. CASE m # 0
  <2>1. PICK j \in Nat : j = m - 1 /\ j <= N /\ ~(m <= j)
    BY <1>3, <1>5
  <2>2. j \notin S
    BY <1>2, <2>1
  <2>3. PICK h : Joined(j, piece, h)
    BY <2>1, <2>2
  <2>4. PICK top : top = piece[m] \o h[j]
    OBVIOUS
  <2>5. PICK F : F = [n \in 0 .. m |-> IF n = m THEN top ELSE h[n]]
    OBVIOUS
  <2>6. F = [n \in 0 .. m |-> F[n]]
    BY <2>5
  <2>7. \A n \in 0 .. j : F[n] = h[n]
    <3>1. \A n \in 0 .. j : n \in 0 .. m /\ n # m
      BY <2>1
    <3>. QED
      BY <2>5, <3>1
  <2>8. F[m] = top
    BY <1>3, <2>5
  <2>9. F[0] = <<>>
    <3>1. 0 \in 0 .. j
      OBVIOUS
    <3>. QED
      BY <2>3, <2>7, <3>1 DEF Joined
  <2>10. ASSUME NEW n \in 1 .. m PROVE F[n] = piece[n] \o F[n - 1]
    <3>1. CASE n = m
      <4>1. n - 1 = j /\ j \in 0 .. j
        BY <2>1, <3>1
      <4>2. F[n - 1] = h[j]
        BY <2>7, <4>1
      <4>. QED
        BY <2>4, <2>8, <3>1, <4>2
    <3>2. CASE n # m
      <4>1. n \in 1 .. j /\ n \in 0 .. j /\ n - 1 \in 0 .. j
        BY <2>1, <3>2
      <4>2. h[n] = piece[n] \o h[n - 1]
        BY <2>3, <4>1 DEF Joined
      <4>. QED
        BY <2>7, <4>1, <4>2
    <3>. QED
      BY <3>1, <3>2
  <2>11. Joined(m, piece, F)
    BY <2>6, <2>9, <2>10 DEF Joined
  <2>. QED
    BY <1>3, <2>11
<1>. QED
  BY <1>4, <1>5

LEMMA JoinedSequences ==
  ASSUME NEW N \in Nat, NEW piece, NEW F, Joined(N, piece, F),
         \A n \in 1 .. N : piece[n] \in Seq(Int)
  PROVE  \A n \in 0 .. N : F[n] \in Seq(Int)
<1> DEFINE S == {n \in 0 .. N : F[n] \notin Seq(Int)}
<1>1. SUFFICES ASSUME S # {} PROVE FALSE
  OBVIOUS
<1>2. PICK m \in S : \A j \in S : m <= j
  <2>1. S \in SUBSET Nat
    OBVIOUS
  <2>. HIDE DEF S
  <2>. QED
    BY <1>1, <2>1, LeastNatural
<1>3. m \in 0 .. N /\ F[m] \notin Seq(Int)
  OBVIOUS
<1>4. m # 0
  <2>1. <<>> \in Seq(Int)
    OBVIOUS
  <2>. QED
    BY <1>3, <2>1 DEF Joined
<1>5. PICK j \in 0 .. N : j = m - 1 /\ ~(m <= j) /\ m \in 1 .. N
  BY <1>3, <1>4
<1>6. F[j] \in Seq(Int)
  BY <1>2, <1>5
<1>7. F[m] = piece[m] \o F[j] /\ piece[m] \in Seq(Int)
  BY <1>5 DEF Joined
<1>8. piece[m] \o F[j] \in Seq(Int)
  BY <1>6, <1>7, ConcatProperties
<1>. QED
  BY <1>3, <1>7, <1>8

(* A stream that can be read: every cell has the size of what D has for    *)
(* it, and the items are those of the cells, F[n] those of the last n.     *)
Readable(s, D, F) ==
  /\ s.cells \in Seq([cell : Cell, size : Nat])
  /\ F[0] = <<>>
  /\ \A n \in 0 .. Len(s.cells) : F[n] \in Seq(Int)
  /\ \A n \in 1 .. Len(s.cells) :
       LET next == s.cells[Len(s.cells) - n + 1]
       IN  /\ next.size = Balance!size(D[next.cell], next.cell)
           /\ F[n] = Balance!Gathered(D[next.cell], next.cell) \o F[n - 1]
  /\ s.items = F[Len(s.cells)]

(* The host gives a rank a stream that can be read.                        *)
LEMMA StreamReadable ==
  ASSUME Balance!BalanceAssumption, NothingCut, NEW order \in Seq(Cell),
         NEW D \in [Cell -> SUBSET SubDomain], \A c \in Cell : Balance!OwnersSet(c) = D[c]
  PROVE  \E F : Readable(Balance!StreamOf(order), D, F)
<1>1. PICK N \in Nat : N = Len(order) /\ DOMAIN order = 1 .. N /\ order \in [1 .. N -> Cell]
  BY LenProperties
<1>2. PICK piece : piece = [n \in 1 .. N |-> Balance!Gathered(D[order[N - n + 1]], order[N - n + 1])]
  OBVIOUS
<1>3. \A n \in 1 .. N : N - n + 1 \in 1 .. N
  OBVIOUS
<1>4. ASSUME NEW n \in 1 .. N
      PROVE  /\ order[N - n + 1] \in Cell
             /\ piece[n] = Balance!Gathered(D[order[N - n + 1]], order[N - n + 1])
             /\ piece[n] \in Seq(Int)
  <2>1. order[N - n + 1] \in Cell
    BY <1>1, <1>3
  <2>2. piece[n] = Balance!Gathered(D[order[N - n + 1]], order[N - n + 1])
    BY <1>2
  <2>3. D[order[N - n + 1]] \in SUBSET SubDomain
    BY <2>1
  <2>. QED
    BY <2>1, <2>2, <2>3, GatheredOf
<1> DEFINE Turn(g) == [n \in 0 .. Len(order) |->
                         IF n = 0 THEN <<>>
                         ELSE Balance!Gathered(Balance!OwnersSet(order[Len(order) - n + 1]),
                                               order[Len(order) - n + 1]) \o g[n - 1]]
           last == CHOOSE g : g = Turn(g)
<1>5. \A n \in 1 .. N :
        Balance!Gathered(Balance!OwnersSet(order[Len(order) - n + 1]), order[Len(order) - n + 1])
          = piece[n]
  BY <1>1, <1>4
<1>6. PICK h : Joined(N, piece, h)
  BY JoinsExist
<1>7. h = Turn(h)
  <2>1. \A n \in 0 .. N : n # 0 => n \in 1 .. N
    OBVIOUS
  <2>2. \A n \in 0 .. N :
          h[n] = IF n = 0 THEN <<>>
                 ELSE Balance!Gathered(Balance!OwnersSet(order[Len(order) - n + 1]),
                                       order[Len(order) - n + 1]) \o h[n - 1]
    BY <1>5, <1>6, <2>1, Zenon DEF Joined
  <2>3. h = [n \in 0 .. N |-> h[n]]
    BY <1>6, Zenon DEF Joined
  <2>. QED
    BY <1>1, <2>2, <2>3, Zenon
<1>8. last = Turn(last)
  BY <1>7, Zenon
<1>9. /\ Balance!StreamOf(order).items = last[Len(order)]
      /\ Balance!StreamOf(order).cells
           = [k \in DOMAIN order |->
                [cell |-> order[k],
                 size |-> Balance!size(Balance!OwnersSet(order[k]), order[k])]]
  BY DEF Balance!StreamOf
<1>. HIDE DEF last, Turn
<1>10. PICK F : F = last /\ F = Turn(F)
  BY <1>8
<1>11. Joined(N, piece, F)
  <2>1. F = [n \in 0 .. N |->
               IF n = 0 THEN <<>>
               ELSE Balance!Gathered(Balance!OwnersSet(order[Len(order) - n + 1]),
                                     order[Len(order) - n + 1]) \o F[n - 1]]
    BY <1>1, <1>10, Zenon DEF Turn
  <2>2. F = [n \in 0 .. N |-> F[n]]
    BY <2>1, Zenon
  <2>3. 0 \in 0 .. N /\ \A n \in 1 .. N : n \in 0 .. N /\ n # 0
    OBVIOUS
  <2>4. F[0] = <<>>
    BY <2>1, <2>3, Zenon
  <2>5. \A n \in 1 .. N : F[n] = piece[n] \o F[n - 1]
    BY <1>5, <2>1, <2>3, Zenon
  <2>. QED
    BY <2>2, <2>4, <2>5 DEF Joined
<1>12. PICK s : s = Balance!StreamOf(order)
  OBVIOUS
<1>13. s.cells = [k \in 1 .. N |-> [cell |-> order[k], size |-> Balance!size(D[order[k]], order[k])]]
  <2>1. \A k \in 1 .. N : Balance!OwnersSet(order[k]) = D[order[k]]
    BY <1>1
  <2>. QED
    BY <1>1, <1>9, <1>12, <2>1
<1>14. ASSUME NEW k \in 1 .. N PROVE Balance!size(D[order[k]], order[k]) \in Nat
  <2>1. order[k] \in Cell /\ D[order[k]] \in SUBSET SubDomain
    BY <1>1
  <2>2. PICK n \in Nat : n = Cardinality(D[order[k]])
    BY <2>1, NumbersOf
  <2>3. Balance!size(D[order[k]], order[k]) = n + 2
    BY <2>1, <2>2, GatheredOf
  <2>. QED
    BY <2>3
<1>15. s.cells \in Seq([cell : Cell, size : Nat]) /\ Len(s.cells) = N
  <2>1. \A k \in 1 .. N : order[k] \in Cell
    BY <1>1
  <2>2. s.cells \in [1 .. N -> [cell : Cell, size : Nat]]
    BY <1>13, <1>14, <2>1
  <2>3. PICK R : R = [cell : Cell, size : Nat]
    OBVIOUS
  <2>4. PICK q \in [1 .. N -> R] : q = s.cells
    BY <2>2, <2>3
  <2>5. q \in Seq(R) /\ Len(q) = N
    BY <2>4, LenProperties
  <2>. QED
    BY <2>3, <2>4, <2>5
<1>16. \A k \in 1 .. N : /\ s.cells[k].cell = order[k]
                         /\ s.cells[k].size = Balance!size(D[order[k]], order[k])
  BY <1>13
<1>17. \A n \in 0 .. N : F[n] \in Seq(Int)
  BY <1>4, <1>11, JoinedSequences
<1>18. s.items = F[N]
  BY <1>1, <1>9, <1>10, <1>12
<1>19. ASSUME NEW n \in 1 .. N
       PROVE  LET next == s.cells[N - n + 1]
              IN  /\ next.size = Balance!size(D[next.cell], next.cell)
                  /\ F[n] = Balance!Gathered(D[next.cell], next.cell) \o F[n - 1]
  <2>1. PICK k \in 1 .. N : k = N - n + 1
    BY <1>3
  <2>2. F[n] = piece[n] \o F[n - 1] /\ piece[n] = Balance!Gathered(D[order[k]], order[k])
    BY <1>4, <1>11, <2>1 DEF Joined
  <2>. QED
    BY <1>16, <2>1, <2>2
<1>20. Readable(s, D, F)
  <2>2. F[0] = <<>>
    BY <1>11 DEF Joined
  <2>3. Len(s.cells) = N
    BY <1>15
  <2>. QED
    BY <1>15, <1>17, <1>18, <1>19, <2>2, <2>3, Zenon DEF Readable
<1>. QED
  BY <1>12, <1>20

(* The cells in a stream.                                                  *)
Waiting(s) == {s.cells[i].cell : i \in 1 .. Len(s.cells)}

(* The stream without its first cell.                                      *)
Rest(s) == [cells |-> Tail(s.cells),
            items |-> SubSeq(s.items, Head(s.cells).size + 1, Len(s.items))]

(* scatter() reads for the first cell what D has and the caller's data     *)
(* for it, and the rest can be read.                                       *)
ReadsFirst(s, D, F, next, k, rest) ==
  /\ next.cell \in Cell
  /\ next.size = Balance!size(D[next.cell], next.cell)
  /\ Reads(s.items, k, D[next.cell], next.cell, rest.items)
  /\ Readable(rest, D, F)
  /\ Waiting(s) = Waiting(rest) \cup {next.cell}

LEMMA OneRead ==
  ASSUME Balance!BalanceAssumption, NothingCut,
         NEW D \in [Cell -> SUBSET SubDomain], NEW F, NEW s, Readable(s, D, F), s.cells # <<>>,
         NEW next, next = Head(s.cells), NEW k, k = Head(s.items),
         NEW rest, rest = Rest(s)
  PROVE  ReadsFirst(s, D, F, next, k, rest)
<1>1. PICK R : R = [cell : Cell, size : Nat]
  OBVIOUS
<1>2. PICK q \in Seq(R) : q = s.cells /\ q # <<>>
  BY <1>1 DEF Readable
<1>3. PICK N \in Nat : N = Len(q) /\ N # 0
  BY <1>2, LenProperties, EmptySeq
<1>4. PICK M \in Nat : M = N - 1 /\ M + 1 = N
  BY <1>3
<1>5. 1 \in 1 .. N /\ q[1] = next /\ next \in R
  <2>1. 1 \in 1 .. N
    BY <1>3
  <2>2. Head(q) = q[1]
    BY <1>2
  <2>. QED
    BY <1>2, <1>3, <2>1, <2>2, ElementOfSeq
<1>6. next.cell \in Cell /\ next.size \in Nat
  BY <1>1, <1>5
<1>7. PICK t \in Seq(R) : t = Tail(q) /\ Len(t) = M /\ \A i \in 1 .. M : t[i] = q[i + 1]
  <2>1. /\ Tail(q) \in Seq(R) /\ Len(Tail(q)) = Len(q) - 1
        /\ \A i \in 1 .. Len(Tail(q)) : Tail(q)[i] = q[i + 1]
    BY <1>2, HeadTailProperties
  <2>. QED
    BY <1>3, <1>4, <2>1
<1>8. s.items = F[N] /\ F[N] \in Seq(Int) /\ F[M] \in Seq(Int)
  <2>1. N \in 0 .. N /\ M \in 0 .. N
    BY <1>4
  <2>. QED
    BY <1>2, <1>3, <2>1 DEF Readable
<1>9. next.size = Balance!size(D[next.cell], next.cell) /\ F[N] = Balance!Gathered(D[next.cell], next.cell) \o F[M]
  <2>1. N \in 1 .. N /\ N - N + 1 = 1
    BY <1>3
  <2>2. /\ q[N - N + 1].size = Balance!size(D[q[N - N + 1].cell], q[N - N + 1].cell)
        /\ F[N] = Balance!Gathered(D[q[N - N + 1].cell], q[N - N + 1].cell) \o F[N - 1]
    BY <1>2, <1>3, <2>1 DEF Readable
  <2>. QED
    BY <1>4, <1>5, <2>1, <2>2
<1>10. D[next.cell] \in SUBSET SubDomain
  BY <1>6
<1>11. Reads(s.items, k, D[next.cell], next.cell, F[M])
  <2>1. PICK w \in Seq(Int) : w = F[M]
    BY <1>8
  <2>2. PICK items : items = s.items
    OBVIOUS
  <2>3. PICK set \in SUBSET SubDomain : set = D[next.cell]
    BY <1>10
  <2>4. PICK c \in Cell : c = next.cell
    BY <1>6
  <2>5. items = Balance!Gathered(set, c) \o w /\ k = Head(items)
    BY <1>8, <1>9, <2>1, <2>2, <2>3, <2>4
  <2>6. Reads(items, k, set, c, w)
    BY <2>5, ReadBack
  <2>. QED
    BY <2>1, <2>2, <2>3, <2>4, <2>6
<1>12. rest.cells = t /\ rest.items = F[M]
  BY <1>2, <1>7, <1>9, <1>11 DEF Reads, Rest
<1>13. \A i \in 1 .. M : i + 1 \in 1 .. N /\ i \in 1 .. N
  BY <1>4
<1>15. Readable(rest, D, F)
  <2>2. \A n \in 0 .. M : F[n] \in Seq(Int)
    <3>1. \A n \in 0 .. M : n \in 0 .. N
      BY <1>4
    <3>. QED
      BY <1>2, <1>3, <3>1 DEF Readable
  <2>3. F[0] = <<>>
    BY DEF Readable
  <2>4. ASSUME NEW n \in 1 .. M
        PROVE  LET first == t[M - n + 1]
               IN  /\ first.size = Balance!size(D[first.cell], first.cell)
                   /\ F[n] = Balance!Gathered(D[first.cell], first.cell) \o F[n - 1]
    <3>1. PICK i \in 1 .. M : i = M - n + 1 /\ i + 1 = N - n + 1
      <4>1. M - n + 1 \in 1 .. M /\ M - n + 1 + 1 = N - n + 1
        BY <1>4
      <4>. QED
        BY <4>1
    <3>2. t[i] = q[N - n + 1]
      BY <1>7, <3>1
    <3>3. n \in 1 .. N
      BY <1>13
    <3>4. /\ q[N - n + 1].size = Balance!size(D[q[N - n + 1].cell], q[N - n + 1].cell)
          /\ F[n] = Balance!Gathered(D[q[N - n + 1].cell], q[N - n + 1].cell) \o F[n - 1]
      BY <1>2, <1>3, <3>3 DEF Readable
    <3>. QED
      BY <3>1, <3>2, <3>4
  <2>. QED
    <3>1. Len(rest.cells) = M /\ rest.cells \in Seq([cell : Cell, size : Nat])
      BY <1>1, <1>7, <1>12
    <3>3. \A n \in 1 .. Len(rest.cells) :
            LET first == rest.cells[Len(rest.cells) - n + 1]
            IN  /\ first.size = Balance!size(D[first.cell], first.cell)
                /\ F[n] = Balance!Gathered(D[first.cell], first.cell) \o F[n - 1]
      BY <1>12, <2>4, <3>1
    <3>4. rest.items = F[Len(rest.cells)]
      BY <1>12, <3>1
    <3>. QED
      BY <2>2, <2>3, <3>1, <3>3, <3>4 DEF Readable
<1>16. Waiting(s) = {q[i].cell : i \in 1 .. N} /\ Waiting(rest) = {t[i].cell : i \in 1 .. M}
  BY <1>2, <1>3, <1>7, <1>12 DEF Waiting
<1>17. Waiting(s) = Waiting(rest) \cup {next.cell}
  <2>1. \A i \in 1 .. N : i = 1 \/ \E j \in 1 .. M : i = j + 1
    <3>1. \A i \in 1 .. N : i = 1 \/ (i - 1 \in 1 .. M /\ i = i - 1 + 1)
      BY <1>4
    <3>. QED
      BY <3>1
  <2>2. ASSUME NEW i \in 1 .. N PROVE q[i].cell \in Waiting(rest) \cup {next.cell}
    BY <1>5, <1>7, <1>16, <2>1
  <2>3. ASSUME NEW i \in 1 .. M PROVE t[i].cell \in Waiting(s)
    BY <1>7, <1>13, <1>16
  <2>4. Waiting(s) \subseteq Waiting(rest) \cup {next.cell}
    BY <1>16, <2>2
  <2>5. Waiting(rest) \subseteq Waiting(s)
    BY <1>16, <2>3
  <2>6. next.cell \in Waiting(s)
    BY <1>5, <1>16
  <2>. QED
    BY <2>4, <2>5, <2>6
<1>. QED
  BY <1>6, <1>9, <1>11, <1>12, <1>15, <1>17 DEF ReadsFirst

LEMMA WaitingCells ==
  ASSUME NEW s, NEW D, NEW F, Readable(s, D, F) PROVE Waiting(s) \subseteq Cell
<1>1. PICK q \in Seq([cell : Cell, size : Nat]) : q = s.cells
  BY DEF Readable
<1>2. \A i \in 1 .. Len(q) : q[i] \in [cell : Cell, size : Nat]
  BY ElementOfSeq
<1>3. \A i \in 1 .. Len(q) : q[i].cell \in Cell
  BY <1>2
<1>. QED
  BY <1>1, <1>3 DEF Waiting

BalanceTypes ==
  /\ owner \in [Cell -> Rank]
  /\ indices \in [Rank -> Balance!Numberings]
  /\ live \in [Rank -> [Balance!Index -> SUBSET SubDomain]]
  /\ prepared \in [Rank -> [Balance!Index -> SUBSET SubDomain]]
  /\ stateMap \in [Rank -> [Cell -> SUBSET SubDomain]]
  /\ shown \in [Rank -> [Cell -> SUBSET SubDomain]]
  /\ pc \in [Rank -> {"idle", "saved", "balanced", "restored"}]
  /\ balanceStreams = [r \in Rank |-> balanceStreams[r]]
  /\ got = [r \in Rank |-> [c \in Cell |-> got[r][c]]]

(* The stream of r can be read, and tells it nothing about a cell that its *)
(* views did not show.                                                     *)
Streamed(r) ==
  \E D \in [Cell -> SUBSET SubDomain] :
    /\ \A c \in Waiting(balanceStreams[r]) : D[c] \subseteq shown[r][c]
    /\ \E F : Readable(balanceStreams[r], D, F)

StreamsInv == \A r \in Rank : pc[r] = "balanced" => Streamed(r)

(* Until the host balances, a rank shows the cells as its entries have     *)
(* them, a copy of a cell is in each subdomain that its owner shows, and   *)
(* the caller's scatter() has read nothing.                                *)
ViewsInv ==
  (\A r \in Rank : pc[r] \in {"idle", "saved"}) =>
    \A r \in Rank, c \in Cell :
      /\ live[r][indices[r][c]] = shown[r][c]
      /\ shown[owner[c]][c] \subseteq shown[r][c]
      /\ got[r][c] = {}

BalanceInv ==
  /\ BalanceTypes
  /\ StreamsInv
  /\ ViewsInv
  /\ Balance!SavedIsShown
  /\ Balance!EachReadsItsOwn

(* A rank has one index for each cell, another one for another cell.       *)
LEMMA IndicesOf ==
  ASSUME BalanceTypes, NEW r \in Rank
  PROVE  /\ \A c \in Cell : indices[r][c] \in Balance!Index
         /\ \A c \in Cell : {d \in Cell : indices[r][d] = indices[r][c]} = {c}
<1>1. indices[r] \in Balance!Numberings
  BY DEF BalanceTypes
<1>2. \A c \in Cell : indices[r][c] \in Balance!Index
  BY <1>1 DEF Balance!Numberings
<1>3. \A c, d \in Cell : indices[r][c] = indices[r][d] => c = d
  BY <1>1 DEF Balance!Numberings
<1>. QED
  BY <1>2, <1>3

LEMMA BalanceInit ==
  ASSUME Balance!BalanceAssumption, Balance!Init PROVE BalanceInv
<1>1. BalanceTypes
  BY DEF BalanceTypes, Balance!Init, Balance!NoStream
<1>2. StreamsInv /\ Balance!SavedIsShown
  BY DEF StreamsInv, Balance!SavedIsShown, Balance!Init
<1>3. ViewsInv
  <2>1. ASSUME NEW r \in Rank, NEW c \in Cell
        PROVE  live[r][indices[r][c]] = {} /\ shown[r][c] = {} /\ got[r][c] = {}
    BY <1>1, IndicesOf DEF Balance!Init
  <2>2. \A c \in Cell : owner[c] \in Rank
    BY <1>1 DEF BalanceTypes
  <2>. QED
    BY <2>1, <2>2 DEF ViewsInv
<1>4. Balance!EachReadsItsOwn
  BY DEF Balance!EachReadsItsOwn, Balance!Init
<1>. QED
  BY <1>1, <1>2, <1>3, <1>4 DEF BalanceInv

LEMMA BalanceMark ==
  ASSUME BalanceInv, NEW c \in Cell, NEW D \in SUBSET SubDomain, Balance!Mark(c, D)
  PROVE  BalanceInv'
<1>1. BalanceTypes /\ ViewsInv /\ \A r \in Rank : pc[r] = "idle"
  BY DEF BalanceInv, Balance!Mark, Balance!AllAt
<1>2. /\ live' = [r \in Rank |->
           [live[r] EXCEPT ![indices[r][c]] = Balance!Given(r, c, D, @)]]
      /\ shown' = [r \in Rank |-> [shown[r] EXCEPT ![c] = Balance!Given(r, c, D, @)]]
      /\ UNCHANGED <<owner, indices, prepared, stateMap, pc, balanceStreams, got>>
  BY DEF Balance!Mark
<1>3. ASSUME NEW r \in Rank, NEW S \in SUBSET SubDomain
      PROVE  /\ Balance!Given(r, c, D, S) \in SUBSET SubDomain
             /\ D \subseteq Balance!Given(r, c, D, S)
             /\ owner[c] = r => Balance!Given(r, c, D, S) = D
  BY DEF Balance!Given
<1>4. ASSUME NEW r \in Rank
      PROVE  /\ live'[r] = [live[r] EXCEPT ![indices[r][c]] =
                              Balance!Given(r, c, D, live[r][indices[r][c]])]
             /\ shown'[r] = [shown[r] EXCEPT ![c] = Balance!Given(r, c, D, shown[r][c])]
             /\ live'[r] \in [Balance!Index -> SUBSET SubDomain]
             /\ shown'[r] \in [Cell -> SUBSET SubDomain]
  <2>1. live[r] \in [Balance!Index -> SUBSET SubDomain] /\ shown[r] \in [Cell -> SUBSET SubDomain]
    BY <1>1 DEF BalanceTypes
  <2>2. indices[r][c] \in Balance!Index
    BY <1>1, IndicesOf
  <2>3. live[r][indices[r][c]] \in SUBSET SubDomain /\ shown[r][c] \in SUBSET SubDomain
    BY <2>1, <2>2
  <2>. QED
    BY <1>2, <1>3, <2>1, <2>2, <2>3
<1>5. BalanceTypes'
  <2>1. /\ live' \in [Rank -> [Balance!Index -> SUBSET SubDomain]]
        /\ shown' \in [Rank -> [Cell -> SUBSET SubDomain]]
    BY <1>2, <1>4
  <2>. QED
    BY <1>1, <1>2, <2>1 DEF BalanceTypes, Balance!Numberings, Balance!Index
<1>6. StreamsInv' /\ Balance!SavedIsShown'
  BY <1>1, <1>2 DEF StreamsInv, Balance!SavedIsShown
<1>7. ViewsInv'
  <2>1. ASSUME NEW r \in Rank, NEW d \in Cell
        PROVE  /\ live[r][indices[r][d]] = shown[r][d] /\ got[r][d] = {}
               /\ shown[owner[d]][d] \subseteq shown[r][d]
    BY <1>1 DEF ViewsInv
  <2>2. ASSUME NEW r \in Rank, NEW d \in Cell
        PROVE  /\ live'[r][indices[r][d]] = shown'[r][d]
               /\ shown'[r][d] = IF d = c THEN Balance!Given(r, c, D, shown[r][c]) ELSE shown[r][d]
               /\ shown[r][d] \in SUBSET SubDomain
    <3>1. indices[r][d] \in Balance!Index /\ (indices[r][d] = indices[r][c] <=> d = c)
      BY <1>1, IndicesOf
    <3>2. live[r] \in [Balance!Index -> SUBSET SubDomain] /\ shown[r] \in [Cell -> SUBSET SubDomain]
      BY <1>1 DEF BalanceTypes
    <3>5. live[r][indices[r][c]] = shown[r][c] /\ live[r][indices[r][d]] = shown[r][d]
      BY <2>1
    <3>7. PICK given : given = Balance!Given(r, c, D, shown[r][c])
      OBVIOUS
    <3>8. /\ live'[r] = [live[r] EXCEPT ![indices[r][c]] = given]
          /\ shown'[r] = [shown[r] EXCEPT ![c] = given]
      BY <1>4, <3>5, <3>7
    <3>3. shown'[r][d] = IF d = c THEN given ELSE shown[r][d]
      BY <3>2, <3>8
    <3>4. live'[r][indices[r][d]] = IF d = c THEN given ELSE live[r][indices[r][d]]
      BY <3>1, <3>2, <3>8
    <3>6. live'[r][indices[r][d]] = shown'[r][d]
      BY <3>3, <3>4, <3>5
    <3>. QED
      BY <3>2, <3>3, <3>6, <3>7
  <2>3. ASSUME NEW r \in Rank, NEW d \in Cell
        PROVE  shown'[owner[d]][d] \subseteq shown'[r][d]
    <3>1. PICK o \in Rank : o = owner[d]
      BY <1>1 DEF BalanceTypes
    <3>2. shown[o][d] \subseteq shown[r][d]
      BY <2>1, <3>1
    <3>3. CASE d = c
      <4>1. shown'[o][c] = D /\ D \subseteq shown'[r][c]
        BY <1>3, <2>2, <3>1, <3>3
      <4>. QED
        BY <3>1, <3>3, <4>1
    <3>4. CASE d # c
      BY <2>2, <3>1, <3>2, <3>4
    <3>. QED
      BY <3>3, <3>4
  <2>4. owner' = owner /\ indices' = indices /\ got' = got
    BY <1>2
  <2>. QED
    BY <2>1, <2>2, <2>3, <2>4 DEF ViewsInv
<1>8. Balance!EachReadsItsOwn'
  BY <1>2 DEF BalanceInv, Balance!EachReadsItsOwn
<1>. QED
  BY <1>5, <1>6, <1>7, <1>8 DEF BalanceInv

LEMMA BalanceSave ==
  ASSUME BalanceInv, NEW r \in Rank, Balance!Save(r)
  PROVE  BalanceInv'
<1>1. BalanceTypes /\ ViewsInv /\ \A q \in Rank : pc[q] \in {"idle", "saved"}
  BY DEF BalanceInv, Balance!Save
<1>2. /\ stateMap' = [stateMap EXCEPT ![r] = [c \in Cell |-> live[r][indices[r][c]]]]
      /\ pc' = [pc EXCEPT ![r] = "saved"]
      /\ UNCHANGED <<owner, indices, live, prepared, balanceStreams, got, shown>>
  BY DEF Balance!Save
<1>3. [c \in Cell |-> live[r][indices[r][c]]] = shown[r] /\ shown[r] \in [Cell -> SUBSET SubDomain]
  <2>1. shown[r] \in [Cell -> SUBSET SubDomain]
    BY <1>1 DEF BalanceTypes
  <2>2. \A c \in Cell : live[r][indices[r][c]] = shown[r][c]
    BY <1>1 DEF ViewsInv
  <2>. QED
    BY <2>1, <2>2
<1>4. BalanceTypes'
  <2>1. stateMap' \in [Rank -> [Cell -> SUBSET SubDomain]]
    BY <1>1, <1>2, <1>3 DEF BalanceTypes
  <2>2. pc' \in [Rank -> {"idle", "saved", "balanced", "restored"}]
    BY <1>1, <1>2 DEF BalanceTypes
  <2>. QED
    BY <1>1, <1>2, <2>1, <2>2 DEF BalanceTypes, Balance!Numberings, Balance!Index
<1>5. \A q \in Rank : pc'[q] = IF q = r THEN "saved" ELSE pc[q]
  BY <1>1, <1>2 DEF BalanceTypes
<1>6. StreamsInv' /\ ViewsInv'
  <2>1. \A q \in Rank : pc'[q] # "balanced"
    BY <1>1, <1>5
  <2>. QED
    BY <1>1, <1>2, <2>1 DEF StreamsInv, ViewsInv
<1>7. Balance!SavedIsShown'
  <2>1. \A q \in Rank : stateMap'[q] = IF q = r THEN shown[r] ELSE stateMap[q]
    BY <1>1, <1>2, <1>3 DEF BalanceTypes
  <2>. QED
    BY <1>2, <1>5, <2>1 DEF BalanceInv, Balance!SavedIsShown
<1>8. Balance!EachReadsItsOwn'
  BY <1>2 DEF BalanceInv, Balance!EachReadsItsOwn
<1>. QED
  BY <1>4, <1>6, <1>7, <1>8 DEF BalanceInv

LEMMA BalanceDecline ==
  ASSUME BalanceInv, Balance!Decline PROVE BalanceInv'
<1>1. /\ \A r \in Rank : pc[r] = "saved"
      /\ pc' = [r \in Rank |-> "idle"]
      /\ UNCHANGED <<owner, indices, live, prepared, stateMap, balanceStreams, got, shown>>
  BY DEF Balance!Decline, Balance!AllAt
<1>2. BalanceTypes'
  BY <1>1 DEF BalanceInv, BalanceTypes, Balance!Numberings, Balance!Index
<1>3. StreamsInv' /\ ViewsInv' /\ Balance!SavedIsShown' /\ Balance!EachReadsItsOwn'
  BY <1>1 DEF BalanceInv, StreamsInv, ViewsInv, Balance!SavedIsShown, Balance!EachReadsItsOwn
<1>. QED
  BY <1>2, <1>3 DEF BalanceInv

LEMMA BalanceHost ==
  ASSUME Balance!BalanceAssumption, NothingCut, BalanceInv, Balance!HostBalances
  PROVE  BalanceInv'
<1>1. BalanceTypes /\ ViewsInv /\ \A r \in Rank : pc[r] = "saved"
  BY DEF BalanceInv, Balance!HostBalances, Balance!AllAt
<1>2. /\ pc' = [r \in Rank |-> "balanced"]
      /\ UNCHANGED <<live, prepared, stateMap, got, shown>>
  BY DEF Balance!HostBalances
<1>3. owner' \in [Cell -> Rank] /\ indices' \in [Rank -> Balance!Numberings]
  BY DEF Balance!HostBalances
<1>4. balanceStreams' \in [Rank -> {Balance!StreamOf(order) :
                                      order \in Balance!SetToAllKPermutations(Cell)}]
  BY DEF Balance!HostBalances
<1>5. PICK D \in [Cell -> SUBSET SubDomain] :
        /\ \A c \in Cell : Balance!OwnersSet(c) = D[c]
        /\ \A r \in Rank, c \in Cell : D[c] \subseteq shown[r][c]
  <2>1. ASSUME NEW c \in Cell
        PROVE  /\ Balance!OwnersSet(c) \in SUBSET SubDomain
               /\ \A r \in Rank : Balance!OwnersSet(c) \subseteq shown[r][c]
    <3>1. PICK o \in Rank : o = owner[c]
      BY <1>1 DEF BalanceTypes
    <3>2. Balance!OwnersSet(c) = shown[o][c]
      BY <1>1, <3>1 DEF ViewsInv, Balance!OwnersSet
    <3>3. \A r \in Rank : shown[o][c] \subseteq shown[r][c]
      BY <1>1, <3>1 DEF ViewsInv
    <3>4. shown[o][c] \in SUBSET SubDomain
      BY <1>1 DEF BalanceTypes
    <3>. QED
      BY <3>2, <3>3, <3>4
  <2>2. PICK D : D = [c \in Cell |-> Balance!OwnersSet(c)]
    OBVIOUS
  <2>3. D \in [Cell -> SUBSET SubDomain] /\ \A c \in Cell : D[c] = Balance!OwnersSet(c)
    BY <2>1, <2>2
  <2>. QED
    BY <2>1, <2>3
<1>6. BalanceTypes'
  <2>1. balanceStreams' = [r \in Rank |-> balanceStreams'[r]]
    BY <1>4
  <2>2. pc' \in [Rank -> {"idle", "saved", "balanced", "restored"}]
    BY <1>2
  <2>. QED
    BY <1>1, <1>2, <1>3, <2>1, <2>2 DEF BalanceTypes, Balance!Numberings, Balance!Index
<1>7. ASSUME NEW r \in Rank PROVE Streamed(r)'
  <2>1. PICK order \in Balance!SetToAllKPermutations(Cell) : balanceStreams'[r] = Balance!StreamOf(order)
    BY <1>4
  <2>2. PICK q : q = order
    OBVIOUS
  <2>3. q \in Seq(Cell)
    <3>1. PICK C \in SUBSET Cell : order \in Balance!SetToSeqs(C)
      BY <2>1, Zenon DEF Balance!SetToAllKPermutations
    <3>2. PICK n : n = Balance!Cardinality(C)
      OBVIOUS
    <3>3. q \in [1 .. n -> C]
      BY <2>2, <3>1, <3>2, Zenon DEF Balance!SetToSeqs
    <3>4. n \in Nat
      <4>1. \A S : Balance!IsFiniteSet(S) <=> IsFiniteSet(S)
        BY Zenon DEF Balance!IsFiniteSet, IsFiniteSet
      <4>2. IsFiniteSet(C)
        BY <4>1, FS_Subset DEF Balance!BalanceAssumption
      <4>. QED
        BY <3>2, <4>2, FS_CardinalityType, SameNumber
    <3>5. q \in [1 .. n -> Cell]
      BY <3>3
    <3>. QED
      BY <3>4, <3>5, LenProperties
  <2>4. PICK F : Readable(Balance!StreamOf(q), D, F)
    BY <1>5, <2>3, StreamReadable
  <2>5. Readable(balanceStreams'[r], D, F)
    BY <2>1, <2>2, <2>4
  <2>6. \A c \in Waiting(balanceStreams'[r]) : D[c] \subseteq shown[r][c]
    <3>1. PICK s : s = balanceStreams'[r]
      OBVIOUS
    <3>2. Waiting(s) \subseteq Cell
      BY <2>5, <3>1, WaitingCells
    <3>. QED
      BY <1>5, <3>1, <3>2
  <2>. QED
    BY <1>2, <2>5, <2>6 DEF Streamed
<1>8. StreamsInv' /\ ViewsInv'
  <2>1. \A r \in Rank : pc'[r] = "balanced"
    BY <1>2
  <2>2. StreamsInv'
    BY <1>7 DEF StreamsInv
  <2>3. (\A r \in Rank : pc'[r] \in {"idle", "saved"}) => Rank = {}
    BY <2>1
  <2>. QED
    BY <2>2, <2>3 DEF ViewsInv
<1>9. Balance!SavedIsShown'
  BY <1>1, <1>2 DEF BalanceInv, Balance!SavedIsShown
<1>10. Balance!EachReadsItsOwn'
  BY <1>1, <1>2 DEF ViewsInv, Balance!EachReadsItsOwn
<1>. QED
  BY <1>6, <1>8, <1>9, <1>10 DEF BalanceInv

LEMMA BalanceScatter ==
  ASSUME Balance!BalanceAssumption, NothingCut, BalanceInv, NEW r \in Rank, Balance!Scatter(r)
  PROVE  BalanceInv'
<1>1. BalanceTypes /\ pc[r] = "balanced" /\ Streamed(r)
  BY DEF BalanceInv, StreamsInv, Balance!Scatter
<1>2. PICK s : s = balanceStreams[r]
  OBVIOUS
<1>3. PICK next : next = Head(s.cells)
  OBVIOUS
<1>4. PICK k : k = Head(s.items)
  OBVIOUS
<1>5. PICK rest : rest = Rest(s)
  OBVIOUS
<1>6. /\ s.cells # <<>>
      /\ Balance!ScatterOnCopy(r, next, s.items) \/ Balance!ScatterOnOwner(r, next, s.items)
      /\ balanceStreams' = [balanceStreams EXCEPT ![r] = rest]
      /\ UNCHANGED <<owner, indices, live, prepared, pc, shown>>
  BY <1>2, <1>3, <1>5, Zenon DEF Balance!Scatter, Rest
<1>7. PICK D \in [Cell -> SUBSET SubDomain] :
        (\A c \in Waiting(s) : D[c] \subseteq shown[r][c]) /\ \E F : Readable(s, D, F)
  BY <1>1, <1>2 DEF Streamed
<1>8. PICK F : Readable(s, D, F)
  BY <1>7
<1>9. /\ next.cell \in Cell
      /\ next.size = Balance!size(D[next.cell], next.cell)
      /\ Reads(s.items, k, D[next.cell], next.cell, rest.items)
      /\ Readable(rest, D, F)
      /\ Waiting(s) = Waiting(rest) \cup {next.cell}
  <2>1. s.cells # <<>>
    BY <1>6
  <2>2. ReadsFirst(s, D, F, next, k, rest)
    BY <1>3, <1>4, <1>5, <1>8, <2>1, OneRead
  <2>. QED
    BY <2>2, Zenon DEF ReadsFirst
<1>10. PICK c \in Cell : c = next.cell
  BY <1>9
<1>11. PICK read : /\ got' = [got EXCEPT ![r][c] = {read}]
                   /\ Balance!EndsIn(read, Balance!UserData(c))
                   /\ owner[c] # r => read = Balance!UserData(c)
                   /\ \/ stateMap' = [stateMap EXCEPT ![r][c] = @ \cup D[c]]
                      \/ stateMap' = stateMap
  <2>0. /\ Balance!EndsIn(SubSeq(s.items, 1, next.size), Balance!UserData(c))
        /\ Balance!ToSet(SubSeq(s.items, 2, k + 1)) = D[c]
        /\ SubSeq(s.items, k + 2, next.size) = Balance!UserData(c)
    BY <1>9, <1>10 DEF Reads
  <2>1. CASE Balance!ScatterOnCopy(r, next, s.items)
    <3>1. /\ stateMap' = [stateMap EXCEPT ![r][c] =
                            @ \cup Balance!ToSet(SubSeq(s.items, 2, k + 1))]
          /\ got' = [got EXCEPT ![r][c] = {SubSeq(s.items, k + 2, next.size)}]
      BY <1>4, <1>10, <2>1, Zenon DEF Balance!ScatterOnCopy
    <3>2. Balance!EndsIn(Balance!UserData(c), Balance!UserData(c))
      <4>1. PICK x \in Int : x = -1 - c
        BY DEF Balance!BalanceAssumption
      <4>0. \A y \in Int : <<y>> \in Seq(Int) /\ Len(<<y>>) = 1
        OBVIOUS
      <4>2. PICK w \in Seq(Int) : w = <<x>> /\ Len(w) = 1
        BY <4>0, Zenon
      <4>3. /\ SubSeq(w, 1, 1) \in Seq(Int)
            /\ Len(SubSeq(w, 1, 1)) = 1 - 1 + 1
            /\ \A i \in 1 .. 1 - 1 + 1 : SubSeq(w, 1, 1)[i] = w[1 + i - 1]
        <5>1. 1 \in Nat /\ 1 <= 1 /\ 1 <= 1 + 1 /\ 1 <= Len(w)
          BY <4>2
        <5>. QED
          BY <5>1, Window, Zenon
      <4>7. 1 - 1 + 1 = 1 /\ \A i \in 1 .. 1 : 1 + i - 1 = i
        OBVIOUS
      <4>4. PICK z \in Seq(Int) : z = SubSeq(w, 1, 1) /\ Len(z) = 1 /\ \A i \in 1 .. 1 : z[i] = w[i]
        BY <4>3, <4>7
      <4>5. z = w
        BY <4>2, <4>4, SeqEqual
      <4>8. Len(w) = 1 /\ 1 \in 1 .. 1
        BY <4>2
      <4>6. 1 \in 1 .. Len(w) /\ SubSeq(w, 1, Len(w)) = w
        BY <4>4, <4>5, <4>8, Zenon
      <4>. QED
        BY <4>1, <4>2, <4>6 DEF Balance!EndsIn, Balance!UserData
    <3>. QED
      BY <2>0, <3>1, <3>2, Zenon
  <2>2. CASE Balance!ScatterOnOwner(r, next, s.items)
    <3>1. /\ stateMap' = stateMap /\ owner[c] = r
          /\ got' = [got EXCEPT ![r][c] = {SubSeq(s.items, 1, next.size)}]
      BY <1>10, <2>2, Zenon DEF Balance!ScatterOnOwner
    <3>. QED
      BY <2>0, <3>1, Zenon
  <2>. QED
    BY <1>6, <2>1, <2>2
<1>12. ASSUME NEW q \in Rank, NEW d \in Cell
       PROVE  /\ \/ stateMap'[q][d] = stateMap[q][d]
                 \/ (q = r /\ d = c /\ stateMap'[q][d] = stateMap[q][d] \cup D[d])
              /\ got'[q][d] = IF q = r /\ d = c THEN {read} ELSE got[q][d]
  BY <1>1, <1>11 DEF BalanceTypes
<1>13. BalanceTypes'
  <2>1. stateMap' \in [Rank -> [Cell -> SUBSET SubDomain]]
    <3>1. stateMap \in [Rank -> [Cell -> SUBSET SubDomain]]
      BY <1>1 DEF BalanceTypes
    <3>2. stateMap[r] \in [Cell -> SUBSET SubDomain] /\ D[c] \in SUBSET SubDomain
      BY <3>1
    <3>3. PICK m : m = [stateMap[r] EXCEPT ![c] = @ \cup D[c]]
      OBVIOUS
    <3>4. m \in [Cell -> SUBSET SubDomain]
      BY <3>2, <3>3
    <3>5. stateMap' = [stateMap EXCEPT ![r] = m] \/ stateMap' = stateMap
      BY <1>11, <3>1, <3>3
    <3>. QED
      BY <3>1, <3>4, <3>5
  <2>2. got' = [q \in Rank |-> [d \in Cell |-> got'[q][d]]]
    BY <1>1, <1>11 DEF BalanceTypes
  <2>3. balanceStreams' = [q \in Rank |-> balanceStreams'[q]]
    BY <1>1, <1>6 DEF BalanceTypes
  <2>. QED
    BY <1>1, <1>6, <2>1, <2>2, <2>3 DEF BalanceTypes, Balance!Numberings, Balance!Index
<1>14. balanceStreams'[r] = rest /\ \A q \in Rank : q # r => balanceStreams'[q] = balanceStreams[q]
  BY <1>1, <1>6 DEF BalanceTypes
<1>15. StreamsInv'
  <2>1. Streamed(r)'
    <3>1. \A d \in Waiting(rest) : D[d] \subseteq shown[r][d]
      BY <1>7, <1>9
    <3>. QED
      BY <1>6, <1>9, <1>14, <3>1 DEF Streamed
  <2>2. ASSUME NEW q \in Rank, q # r, pc[q] = "balanced" PROVE Streamed(q)'
    <3>1. balanceStreams'[q] = balanceStreams[q] /\ Streamed(q)
      BY <1>14, <2>2 DEF BalanceInv, StreamsInv
    <3>. QED
      BY <1>6, <3>1 DEF Streamed
  <2>. QED
    BY <1>6, <2>1, <2>2 DEF StreamsInv
<1>16. ViewsInv'
  BY <1>1, <1>6 DEF ViewsInv
<1>17. Balance!SavedIsShown'
  <2>1. ASSUME NEW q \in Rank, pc[q] # "idle" PROVE stateMap'[q] = shown[q]
    <3>1. stateMap[q] = shown[q] /\ stateMap[q] \in [Cell -> SUBSET SubDomain]
      BY <1>1, <2>1 DEF BalanceInv, BalanceTypes, Balance!SavedIsShown
    <3>2. D[c] \subseteq shown[r][c]
      BY <1>7, <1>9, <1>10
    <3>3. \A d \in Cell : stateMap'[q][d] = stateMap[q][d]
      BY <1>12, <3>1, <3>2
    <3>4. stateMap'[q] \in [Cell -> SUBSET SubDomain]
      BY <1>13 DEF BalanceTypes
    <3>. QED
      BY <3>1, <3>3, <3>4
  <2>. QED
    BY <1>6, <2>1 DEF Balance!SavedIsShown
<1>18. Balance!EachReadsItsOwn'
  <2>1. \A q \in Rank, d \in Cell : \A x \in got[q][d] :
          Balance!EndsIn(x, Balance!UserData(d)) /\ (owner[d] # q => x = Balance!UserData(d))
    BY DEF BalanceInv, Balance!EachReadsItsOwn
  <2>2. \A q \in Rank, d \in Cell : \A x \in got'[q][d] :
          Balance!EndsIn(x, Balance!UserData(d)) /\ (owner[d] # q => x = Balance!UserData(d))
    BY <1>11, <1>12, <2>1
  <2>. QED
    BY <1>6, <2>2 DEF Balance!EachReadsItsOwn
<1>. QED
  BY <1>13, <1>15, <1>16, <1>17, <1>18 DEF BalanceInv

LEMMA BalanceRestore ==
  ASSUME BalanceInv, NEW r \in Rank, Balance!Restore(r)
  PROVE  BalanceInv'
<1>1. BalanceTypes /\ pc[r] = "balanced"
  BY DEF BalanceInv, Balance!Restore
<1>2. /\ prepared' = [prepared EXCEPT ![r] = live[r]]
      /\ live' = [live EXCEPT ![r] = [i \in Balance!Index |->
           @[i] \cup UNION {stateMap[r][c] : c \in {d \in Cell : indices[r][d] = i}}]]
      /\ pc' = [pc EXCEPT ![r] = "restored"]
      /\ UNCHANGED <<owner, indices, stateMap, balanceStreams, got, shown>>
  BY DEF Balance!Restore, Balance!Copy
<1>3. live[r] \in [Balance!Index -> SUBSET SubDomain] /\ stateMap[r] \in [Cell -> SUBSET SubDomain]
  BY <1>1 DEF BalanceTypes
<1>4. PICK joined : joined = [i \in Balance!Index |->
        live[r][i] \cup UNION {stateMap[r][c] : c \in {d \in Cell : indices[r][d] = i}}]
  OBVIOUS
<1>5. joined \in [Balance!Index -> SUBSET SubDomain]
  <2>1. ASSUME NEW i \in Balance!Index
        PROVE  live[r][i] \cup UNION {stateMap[r][c] : c \in {d \in Cell : indices[r][d] = i}}
                 \in SUBSET SubDomain
    BY <1>3
  <2>. QED
    BY <1>4, <2>1
<1>6. live' = [live EXCEPT ![r] = joined]
  BY <1>1, <1>2, <1>4 DEF BalanceTypes
<1>7. BalanceTypes'
  <2>1. live' \in [Rank -> [Balance!Index -> SUBSET SubDomain]]
    BY <1>1, <1>5, <1>6 DEF BalanceTypes
  <2>2. prepared' \in [Rank -> [Balance!Index -> SUBSET SubDomain]]
    BY <1>1, <1>2, <1>3 DEF BalanceTypes
  <2>3. pc' \in [Rank -> {"idle", "saved", "balanced", "restored"}]
    BY <1>1, <1>2 DEF BalanceTypes
  <2>. QED
    BY <1>1, <1>2, <2>1, <2>2, <2>3 DEF BalanceTypes, Balance!Numberings, Balance!Index
<1>8. \A q \in Rank : pc'[q] = IF q = r THEN "restored" ELSE pc[q]
  BY <1>1, <1>2 DEF BalanceTypes
<1>9. StreamsInv'
  BY <1>2, <1>8 DEF BalanceInv, StreamsInv, Streamed
<1>10. ViewsInv'
  BY <1>8 DEF ViewsInv
<1>11. Balance!SavedIsShown'
  BY <1>1, <1>2, <1>8 DEF BalanceInv, Balance!SavedIsShown
<1>12. Balance!EachReadsItsOwn'
  BY <1>2 DEF BalanceInv, Balance!EachReadsItsOwn
<1>. QED
  BY <1>7, <1>9, <1>10, <1>11, <1>12 DEF BalanceInv

LEMMA BalanceUpdate ==
  ASSUME BalanceInv, Balance!Update
  PROVE  BalanceInv'
<1>1. BalanceTypes
  BY DEF BalanceInv
<1>2. /\ live' = [r \in Rank |-> [i \in Balance!Index |->
           prepared[r][i] \cup UNION {prepared[owner[c]][indices[owner[c]][c]] :
                                        c \in {d \in Cell : indices[r][d] = i}}]]
      /\ prepared' = [r \in Rank |-> [i \in Balance!Index |-> {}]]
      /\ stateMap' = [r \in Rank |-> [c \in Cell |-> {}]]
      /\ pc' = [r \in Rank |-> "idle"]
      /\ got' = [r \in Rank |-> [c \in Cell |-> {}]]
      /\ shown' = [r \in Rank |-> [c \in Cell |-> live'[r][indices[r][c]]]]
      /\ UNCHANGED <<owner, indices, balanceStreams>>
  BY DEF Balance!Update
<1>3. ASSUME NEW c \in Cell
      PROVE  /\ prepared[owner[c]][indices[owner[c]][c]] \in SUBSET SubDomain
             /\ owner[c] \in Rank
  <2>1. owner[c] \in Rank
    BY <1>1 DEF BalanceTypes
  <2>2. indices[owner[c]][c] \in Balance!Index
    BY <1>1, <2>1, IndicesOf
  <2>3. prepared[owner[c]] \in [Balance!Index -> SUBSET SubDomain]
    BY <1>1, <2>1 DEF BalanceTypes
  <2>. QED
    BY <2>1, <2>2, <2>3
<1>4. live' \in [Rank -> [Balance!Index -> SUBSET SubDomain]]
  <2>1. ASSUME NEW r \in Rank, NEW i \in Balance!Index
        PROVE  prepared[r][i] \cup UNION {prepared[owner[c]][indices[owner[c]][c]] :
                                            c \in {d \in Cell : indices[r][d] = i}} \in SUBSET SubDomain
    <3>1. prepared[r] \in [Balance!Index -> SUBSET SubDomain]
      BY <1>1 DEF BalanceTypes
    <3>. QED
      BY <1>3, <3>1
  <2>. QED
    BY <1>2, <2>1
<1>5. ASSUME NEW r \in Rank, NEW c \in Cell
      PROVE  /\ shown'[r][c] = live'[r][indices[r][c]]
             /\ shown'[r][c] \in SUBSET SubDomain
             /\ shown'[r][c] = prepared[r][indices[r][c]] \cup prepared[owner[c]][indices[owner[c]][c]]
  <2>1. PICK i \in Balance!Index : i = indices[r][c] /\ {d \in Cell : indices[r][d] = i} = {c}
    BY <1>1, IndicesOf
  <2>2. shown'[r][c] = live'[r][i]
    BY <1>2, <2>1
  <2>3. live'[r][i] = prepared[r][i] \cup UNION {prepared[owner[d]][indices[owner[d]][d]] : d \in {c}}
    BY <1>2, <2>1
  <2>4. live'[r][i] = prepared[r][i] \cup prepared[owner[c]][indices[owner[c]][c]]
    BY <2>3
  <2>5. live'[r][i] \in SUBSET SubDomain
    BY <1>4
  <2>. QED
    BY <2>1, <2>2, <2>4, <2>5
<1>6. BalanceTypes'
  <2>1. /\ prepared' \in [Rank -> [Balance!Index -> SUBSET SubDomain]]
        /\ stateMap' \in [Rank -> [Cell -> SUBSET SubDomain]]
        /\ pc' \in [Rank -> {"idle", "saved", "balanced", "restored"}]
        /\ got' = [r \in Rank |-> [c \in Cell |-> got'[r][c]]]
    BY <1>2
  <2>2. shown' \in [Rank -> [Cell -> SUBSET SubDomain]]
    BY <1>2, <1>5
  <2>. QED
    BY <1>1, <1>2, <1>4, <2>1, <2>2 DEF BalanceTypes, Balance!Numberings, Balance!Index
<1>7. StreamsInv' /\ Balance!SavedIsShown'
  BY <1>2 DEF StreamsInv, Balance!SavedIsShown
<1>8. ViewsInv'
  <2>1. ASSUME NEW r \in Rank, NEW c \in Cell PROVE shown'[owner[c]][c] \subseteq shown'[r][c]
    <3>1. PICK o \in Rank : o = owner[c]
      BY <1>3
    <3>2. shown'[o][c] = prepared[o][indices[o][c]] \cup prepared[o][indices[o][c]]
      BY <1>5, <3>1
    <3>3. shown'[r][c] = prepared[r][indices[r][c]] \cup prepared[o][indices[o][c]]
      BY <1>5, <3>1
    <3>. QED
      BY <3>1, <3>2, <3>3
  <2>2. \A r \in Rank, c \in Cell : got'[r][c] = {}
    BY <1>2
  <2>3. owner' = owner /\ indices' = indices
    BY <1>2
  <2>. QED
    BY <1>5, <2>1, <2>2, <2>3 DEF ViewsInv
<1>9. Balance!EachReadsItsOwn'
  BY <1>2 DEF Balance!EachReadsItsOwn
<1>. QED
  BY <1>6, <1>7, <1>8, <1>9 DEF BalanceInv

LEMMA BalanceStep ==
  ASSUME Balance!BalanceAssumption, NothingCut, BalanceInv, [Balance!Next]_(Balance!vars)
  PROVE  BalanceInv'
<1>1. CASE UNCHANGED Balance!vars
  <2>1. UNCHANGED <<owner, indices, live, prepared, stateMap, pc, balanceStreams, got, shown>>
    BY <1>1 DEF Balance!vars
  <2>2. BalanceTypes'
    BY <2>1 DEF BalanceInv, BalanceTypes, Balance!Numberings, Balance!Index
  <2>3. StreamsInv' /\ ViewsInv'
    BY <2>1 DEF BalanceInv, StreamsInv, Streamed, ViewsInv
  <2>4. Balance!SavedIsShown' /\ Balance!EachReadsItsOwn'
    BY <2>1 DEF BalanceInv, Balance!SavedIsShown, Balance!EachReadsItsOwn
  <2>. QED
    BY <2>2, <2>3, <2>4 DEF BalanceInv
<1>. QED
  BY <1>1, BalanceMark, BalanceSave, BalanceDecline, BalanceHost, BalanceScatter, BalanceRestore,
     BalanceUpdate DEF Balance!Next

(* What the caller's data handle reads in loadBalance() ends in what it    *)
(* wrote for the same cell, and is that on a rank which does not own the   *)
(* cell: whatever subdomains travel in front of it, whichever way the host *)
(* moves the cells and in whatever order it sends them, to new owners as   *)
(* to copies, if the caller's data type is wide enough                     *)
(* (multidomaingrid.hh 1205-1286).                                         *)
THEOREM BalancedDataRead ==
  ASSUME Balance!BalanceAssumption, NothingCut
  PROVE  Balance!Spec => []Balance!EachReadsItsOwn
<1>1. ASSUME BalanceInv PROVE Balance!EachReadsItsOwn
  BY <1>1 DEF BalanceInv
<1>. QED
  BY <1>1, BalanceInit, BalanceStep, PTL DEF Balance!Spec

(* What a rank restores in loadBalance() is what its views showed when the *)
(* call began: nothing is left of calls that the host declined, and the    *)
(* subdomains sent by the owners add nothing, after any marking cycles and *)
(* any moves of the cells (multidomaingrid.hh 824-846, 1261-1272).         *)
THEOREM SavedAlwaysShown ==
  ASSUME Balance!BalanceAssumption, NothingCut
  PROVE  Balance!Spec => []Balance!SavedIsShown
<1>1. ASSUME BalanceInv PROVE Balance!SavedIsShown
  BY <1>1 DEF BalanceInv
<1>. QED
  BY <1>1, BalanceInit, BalanceStep, PTL DEF Balance!Spec
=============================================================================
