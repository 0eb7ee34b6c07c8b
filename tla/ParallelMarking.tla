--------------------------- MODULE ParallelMarking --------------------------
(***************************************************************************)
(* A marking cycle on several ranks.  Every rank has the leaf index set of *)
(* its part of the grid: its interior cells, copies of cells of other      *)
(* ranks (ghosts), and the sub-entities of both.  Subdomains are assigned  *)
(* to interior cells only.  update() then exchanges twice: the subdomains  *)
(* of cells go to their copies, and, after each rank has marked the sub-   *)
(* entities of all its cells, those of sub-entities go to theirs.          *)
(*                                                                         *)
(* An exchange of the host grid (InteriorBorder_All, forward): a rank      *)
(* gathers from its interior and border entities one message for every     *)
(* rank with copies of them, sends it, and scatters what comes in as it    *)
(* comes.  Messages between two ranks keep their order.                    *)
(***************************************************************************)
EXTENDS Integers, Sequences, FiniteSets

CONSTANTS
  Rank,
  Cell,
  SubEntity,   \* vertices, edges, faces
  Closure,     \* Closure[c]: the sub-entities of the cell c
  Owner,       \* Owner[c]: the rank on which c is an interior cell
  Ghosts,      \* Ghosts[r]: the cells of other ranks of which r has a copy
  SubDomain,
  CycleBound   \* bound on the marking cycles of a rank

ASSUME PartitionAssumption ==
  /\ Cell \cap SubEntity = {}
  /\ Closure \in [Cell -> SUBSET SubEntity]
  /\ Owner \in [Cell -> Rank]
  /\ Ghosts \in [Rank -> SUBSET Cell]
  /\ \A r \in Rank : \A c \in Ghosts[r] : Owner[c] # r
  /\ CycleBound \in Nat

Interior(r) == {c \in Cell : Owner[c] = r}

CellsOn(r) == Interior(r) \cup Ghosts[r]

SubEntitiesOf(C) == UNION {Closure[c] : c \in C}

EntitiesOn(r) == CellsOn(r) \cup SubEntitiesOf(CellsOn(r))

(* The sending side of InteriorBorder_All, for the codimensions that the   *)
(* contains() of the two data handles select.                              *)
Sends(r, kind) ==
  CASE kind = "selection" -> Interior(r)
    [] kind = "border" -> SubEntitiesOf(Interior(r))

(* A bug: InteriorBorder_InteriorBorder, which reaches no copies beyond    *)
(* the border.                                                             *)
SharedBorderOnly(r, q, kind) ==
  Sends(r, kind) \cap (IF kind = "selection" THEN EntitiesOn(q) ELSE Sends(q, kind))

Shared(r, q, kind) == Sends(r, kind) \cap EntitiesOn(q)

Sources(r, kind) == {q \in Rank \ {r} : Shared(q, r, kind) # {}}

VARIABLES
  domains,   \* domains[r][e]: the subdomains of e in r's leaf index set
  phase,     \* phase[r]: where r is in the cycle
  cycle,     \* cycle[r]: the cycles r has completed
  channel,   \* channel[r][q]: messages from r on their way to q
  received,  \* received[r]: ranks whose message of this exchange has come
  removed    \* history: has a cell been removed from a subdomain after cycle 0?

vars == <<domains, phase, cycle, channel, received, removed>>

Init ==
  /\ domains = [r \in Rank |-> [e \in EntitiesOn(r) |-> {}]]
  /\ phase = [r \in Rank |-> "fixed"]
  /\ cycle = [r \in Rank |-> 0]
  /\ channel = [r \in Rank |-> [q \in Rank |-> <<>>]]
  /\ received = [r \in Rank |-> {}]
  /\ removed = FALSE

(* startSubDomainMarking(): a copy of the index set in which the cells     *)
(* keep their subdomains, on every rank also the ghosts.                   *)
StartMarking(r) ==
  /\ phase[r] = "fixed"
  /\ cycle[r] < CycleBound
  /\ phase' = [phase EXCEPT ![r] = "marking"]
  /\ domains' = [domains EXCEPT ![r] =
                   [e \in EntitiesOn(r) |-> IF e \in Cell THEN domains[r][e] ELSE {}]]
  /\ UNCHANGED <<cycle, channel, received, removed>>

Assigned(r, c, D) ==
  /\ phase[r] = "marking"
  /\ Owner[c] = r
  /\ domains' = [domains EXCEPT ![r][c] = D]
  /\ UNCHANGED <<phase, cycle, channel, received>>

AddToSubDomain(r, s, c) ==
  /\ Assigned(r, c, domains[r][c] \cup {s})
  /\ UNCHANGED removed

RemoveFromSubDomain(r, s, c) ==
  /\ Assigned(r, c, domains[r][c] \ {s})
  /\ removed' = (removed \/ cycle[r] > 0)

(* gather() of the interior and border entities, with the subdomains in    *)
(* dom: one message to every rank that has copies.  The cycle is history:  *)
(* nothing the code sends or reads.                                        *)
Message(r, kind, E, dom) ==
  [kind |-> kind, cycle |-> cycle[r], data |-> [e \in E |-> dom[e]]]

(* A bug: nothing is sent when there is nothing to tell.                   *)
SendUnlessEmpty(r, kind, dom) ==
  channel' = [channel EXCEPT ![r] =
    [q \in Rank |->
       IF q # r /\ (\E e \in Shared(r, q, kind) : dom[e] # {})
       THEN Append(channel[r][q], Message(r, kind, Shared(r, q, kind), dom))
       ELSE channel[r][q]]]

Send(r, kind, dom) ==
  channel' = [channel EXCEPT ![r] =
    [q \in Rank |->
       IF q # r /\ Shared(r, q, kind) # {}
       THEN Append(channel[r][q], Message(r, kind, Shared(r, q, kind), dom))
       ELSE channel[r][q]]]

(* communicateSubDomainSelection(), called first by update().              *)
CommunicateSelection(r) ==
  /\ phase[r] = "marking"
  /\ phase' = [phase EXCEPT ![r] = "selection"]
  /\ received' = [received EXCEPT ![r] = {}]
  /\ Send(r, "selection", domains[r])
  /\ UNCHANGED <<domains, cycle, removed>>

(* A bug: scatter() replaces the subdomains of the copy.                    *)
ReceiveInstead(r, q) ==
  /\ channel[q][r] # <<>>
  /\ Head(channel[q][r]).kind = phase[r]
  /\ q \notin received[r]
  /\ LET data == Head(channel[q][r]).data
     IN domains' = [domains EXCEPT ![r] =
          [e \in EntitiesOn(r) |->
             IF e \in DOMAIN data THEN data[e] ELSE domains[r][e]]]
  /\ channel' = [channel EXCEPT ![q][r] = Tail(@)]
  /\ received' = [received EXCEPT ![r] = @ \cup {q}]
  /\ UNCHANGED <<phase, cycle, removed>>

(* scatter() of the message from q: its subdomains are added to those the  *)
(* copies have.                                                            *)
Receive(r, q) ==
  /\ channel[q][r] # <<>>
  /\ Head(channel[q][r]).kind = phase[r]
  /\ q \notin received[r]
  /\ LET data == Head(channel[q][r]).data
     IN domains' = [domains EXCEPT ![r] =
          [e \in EntitiesOn(r) |->
             IF e \in DOMAIN data THEN domains[r][e] \cup data[e] ELSE domains[r][e]]]
  /\ channel' = [channel EXCEPT ![q][r] = Tail(@)]
  /\ received' = [received EXCEPT ![r] = @ \cup {q}]
  /\ UNCHANGED <<phase, cycle, removed>>

(* markSubIndices() of all cells of the rank.                              *)
MarkedSubEntities(r) ==
  [e \in EntitiesOn(r) |->
     domains[r][e] \cup UNION {domains[r][c] : c \in {c \in CellsOn(r) : e \in Closure[c]}}]

(* The loop over the cells, then propagateBorderEntitySubDomains().        *)
MarkAndPropagate(r) ==
  /\ phase[r] = "selection"
  /\ received[r] = Sources(r, "selection")
  /\ phase' = [phase EXCEPT ![r] = "border"]
  /\ received' = [received EXCEPT ![r] = {}]
  /\ domains' = [domains EXCEPT ![r] = MarkedSubEntities(r)]
  /\ Send(r, "border", domains'[r])
  /\ UNCHANGED <<cycle, removed>>

(* The rest of update() numbers what is marked; the layout is then         *)
(* published on this rank.                                                 *)
EndUpdate(r) ==
  /\ phase[r] = "border"
  /\ received[r] = Sources(r, "border")
  /\ phase' = [phase EXCEPT ![r] = "fixed"]
  /\ cycle' = [cycle EXCEPT ![r] = @ + 1]
  /\ received' = [received EXCEPT ![r] = {}]
  /\ UNCHANGED <<domains, channel, removed>>

AllDone ==
  /\ \A r \in Rank : phase[r] = "fixed" /\ cycle[r] = CycleBound
  /\ UNCHANGED vars

Exchange(r) ==
  \/ CommunicateSelection(r)
  \/ MarkAndPropagate(r)
  \/ EndUpdate(r)
  \/ \E q \in Rank : Receive(r, q)

Mark(r) ==
  \E c \in Cell : \E s \in SubDomain : AddToSubDomain(r, s, c) \/ RemoveFromSubDomain(r, s, c)

Next ==
  \/ \E r \in Rank : StartMarking(r) \/ Mark(r) \/ Exchange(r)
  \/ AllDone

(* Marking is a collective operation: a rank that marks comes to its       *)
(* update(), all ranks go through the same cycles, and messages arrive.    *)
Fairness == \A r \in Rank : WF_vars(StartMarking(r)) /\ WF_vars(Exchange(r))

Spec == Init /\ [][Next]_vars /\ Fairness
-----------------------------------------------------------------------------
Kind == {"selection", "border"}

MessageTo(q, r) ==
  UNION {[kind : {k}, cycle : 0 .. CycleBound, data : [Shared(q, r, k) -> SUBSET SubDomain]] :
           k \in Kind}

InUpdate(r) == phase[r] \in Kind

(* The updates that r has entered.                                         *)
Entered(r) == cycle[r] + IF InUpdate(r) THEN 1 ELSE 0

(* The exchanges in the order of all of them, two to a cycle; how many q   *)
(* has begun, and in how many r has what q sends.                          *)
Place(kind, n) == 2 * n + IF kind = "border" THEN 1 ELSE 0
Number(m) == Place(m.kind, m.cycle)
Begun(q) == cycle[q] + Entered(q) + IF phase[q] = "border" THEN 1 ELSE 0
Taken(r, q) ==
  2 * cycle[r] + (IF phase[r] = "border" THEN 1 ELSE 0) + IF q \in received[r] THEN 1 ELSE 0

(* In how many cycles r has heard from q of cells.                         *)
Heard(r, q) ==
  cycle[r] + IF phase[r] = "border" \/ q \in received[r] THEN 1 ELSE 0

(* Two ranks have both finished the same cycle.                            *)
SameCycle(r, q) == phase[r] = "fixed" /\ phase[q] = "fixed" /\ cycle[r] = cycle[q]

(* The cells give their sub-entities what their owners gave them.          *)
Given(e) ==
  IF e \in Cell THEN domains[Owner[e]][e]
  ELSE UNION {domains[Owner[c]][c] : c \in {c \in Cell : e \in Closure[c]}}

(* As long as no cell leaves a subdomain it had in an earlier layout, any  *)
(* two ranks that have finished a cycle have the same subdomains on all    *)
(* entities they share, although no rank sees all cells around a border    *)
(* vertex, ranks go through both exchanges at their own speed, and what    *)
(* arrives first is added first.                                           *)
CopiesAgree ==
  ~removed =>
    \A r, q \in Rank :
      SameCycle(r, q) =>
        \A e \in EntitiesOn(r) \cap EntitiesOn(q) : domains[r][e] = domains[q][e]

(* Every copy has at least what the owners of the cell, or of the cells    *)
(* around it, assigned, whatever was assigned and removed before.          *)
CopiesCover ==
  (\A r, q \in Rank : SameCycle(r, q)) =>
     \A r \in Rank : \A e \in EntitiesOn(r) : Given(e) \subseteq domains[r][e]

(* A rank that has entered update() leaves it: no exchange waits for a     *)
(* message that nobody sends, or for one that is behind another.           *)
UpdateEnds == \A r \in Rank : phase[r] = "selection" ~> phase[r] = "fixed"

(* In a channel are in their order the messages of the exchanges from one  *)
(* place up to another, and before the first of them nothing is missing.   *)
Queue(s, q, r, from, to) ==
  /\ \A i, j \in DOMAIN s : i < j => Number(s[i]) < Number(s[j])
  /\ \A kind \in Kind, n \in 0 .. CycleBound :
       LET sent == q # r /\ Shared(q, r, kind) # {} IN
       /\ (\E i \in DOMAIN s : s[i].kind = kind /\ s[i].cycle = n) <=>
            sent /\ from <= Place(kind, n) /\ Place(kind, n) < to
       /\ sent /\ Place(kind, n) < from => Place(kind, n) < to

(* Messages carry no number, and yet no exchange takes one that was sent   *)
(* in another cycle (communicate 1049-1059): what is on its way from q to  *)
(* r are exactly the messages of the exchanges that q has begun and in     *)
(* which r has not heard from q, in their order, however far q is ahead.   *)
ChannelsInStep ==
  \A q, r \in Rank : Queue(channel[q][r], q, r, Taken(r, q), Begun(q))

-----------------------------------------------------------------------------
(* The inductive invariant behind CopiesAgree and CopiesCover.             *)

Phase == {"fixed", "marking", "selection", "border"}

TypeOK ==
  /\ domains = [r \in Rank |-> domains[r]]
  /\ \A r \in Rank : domains[r] \in [EntitiesOn(r) -> SUBSET SubDomain]
  /\ phase \in [Rank -> Phase]
  /\ cycle \in [Rank -> 0 .. CycleBound]
  /\ channel = [q \in Rank |-> [r \in Rank |-> channel[q][r]]]
  /\ \A q, r \in Rank : channel[q][r] \in Seq(MessageTo(q, r))
  /\ received \in [Rank -> SUBSET Rank]
  /\ removed \in BOOLEAN
  /\ \A r \in Rank : phase[r] # "fixed" => cycle[r] < CycleBound
  /\ \A r \in Rank : ~ InUpdate(r) => received[r] = {}

(* A history h says what h[c][n] the owner of c had given it when it       *)
(* entered its n-th update().                                              *)
Histories == [Cell -> [0 .. CycleBound -> SUBSET SubDomain]]

(* The cells whose subdomains an entity has.                               *)
Around(e) == IF e \in Cell THEN {e} ELSE {c \in Cell : e \in Closure[c]}

(* D has all that c had in its n-th update.                                *)
Has(h, D, c, n) == n <= Entered(Owner[c]) /\ h[c][n] \subseteq D

(* D has nothing but what cells of C had up to their n-th update.          *)
Within(h, D, C, n) == \A s \in D : \E c \in C, m \in 0 .. n : s \in h[c][m]

(* A cell has on its owner what the history says, nothing beyond it is     *)
(* known yet, and as long as nothing is removed the history only grows.    *)
OwnersFollow(h) ==
  \A c \in Cell :
    LET o == Owner[c] IN
    /\ h[c][0] = {}
    /\ \A n \in 0 .. CycleBound : n > Entered(o) => h[c][n] = {}
    /\ phase[o] # "marking" => domains[o][c] = h[c][Entered(o)]
    /\ ~ removed =>
         /\ \A m, n \in 0 .. Entered(o) : m <= n => h[c][m] \subseteq h[c][n]
         /\ h[c][Entered(o)] \subseteq domains[o][c]

(* A copy has what it heard last, and nothing it never heard.              *)
CopiesFollow(h) ==
  \A r \in Rank : \A c \in Ghosts[r] :
    /\ Has(h, domains[r][c], c, Heard(r, Owner[c]))
    /\ Within(h, domains[r][c], {c}, Heard(r, Owner[c]))

(* A sub-entity has nothing before the cells are marked, then what its own *)
(* rank and those heard from know of the cells around it.                  *)
SubEntitiesFollow(h) ==
  \A r \in Rank : \A e \in EntitiesOn(r) \ Cell :
    /\ phase[r] \in {"marking", "selection"} => domains[r][e] = {}
    /\ phase[r] \in {"fixed", "border"} =>
         /\ Within(h, domains[r][e], Around(e), Entered(r))
         /\ \A c \in Around(e) :
              phase[r] = "fixed" \/ Owner[c] \in received[r] \cup {r} =>
                Has(h, domains[r][e], c, Entered(r))

(* A message tells all its sender has given, and nothing else.             *)
MessagesFollow(h) ==
  \A q, r \in Rank : \A i \in DOMAIN channel[q][r] :
    LET m == channel[q][r][i] IN
    \A e \in DOMAIN m.data :
      /\ Within(h, m.data[e], Around(e), m.cycle + 1)
      /\ \A c \in Around(e) : Owner[c] = q => Has(h, m.data[e], c, m.cycle + 1)

Follow(h) == OwnersFollow(h) /\ CopiesFollow(h) /\ SubEntitiesFollow(h) /\ MessagesFollow(h)

MarkingInv == TypeOK /\ ChannelsInStep /\ \E h \in Histories : Follow(h)

(* What reset() promises for marking again: no "stale entries if elements  *)
(* are removed from a subdomain".                                          *)
NoStaleEntries ==
  (\A r, q \in Rank : SameCycle(r, q)) =>
     \A r \in Rank : \A e \in EntitiesOn(r) : domains[r][e] \subseteq Given(e)
=============================================================================
