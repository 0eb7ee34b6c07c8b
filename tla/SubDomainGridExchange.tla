----------------------- MODULE SubDomainGridExchange ------------------------
(***************************************************************************)
(* communicate() of the MultiDomainGrid and of its SubDomainGrids, between *)
(* marking cycles.  The caller's data handle writes one value per entity.  *)
(* The host grid goes over the shared entities of two ranks, in the same   *)
(* order on both, and calls gather() here and scatter() there; the wrapper *)
(* of a SubDomainGrid leaves out the entities that are not in it.  What    *)
(* gather() writes is one stream, and scatter() reads from where the       *)
(* previous entity stopped.                                                *)
(***************************************************************************)
EXTENDS ParallelMarking

CONSTANTS
  MultiDomain,  \* the MultiDomainGrid itself, beside the subdomains
  CallOn,       \* CallOn[k]: the grid whose communicate() is called after cycle k
  Order         \* the order in which the host grid lists shared entities

ASSUME ExchangeAssumption ==
  /\ MultiDomain \notin SubDomain
  /\ CallOn \in [1 .. CycleBound -> SubDomain \cup {MultiDomain}]
  /\ Order \in Seq(Cell \cup SubEntity)

VARIABLES
  posted,   \* posted[r]: the communicate() calls r has begun
  taken,    \* taken[r]: ranks whose stream of the present call r has read
  streams,  \* streams[r][q]: the streams from r on their way to q
  misread   \* history: <<r, e, f>>: on r the data of f was given to e

data == <<posted, taken, streams, misread>>

allVars == <<vars, data>>

(* The entities that r and q exchange data of: all that r owns or has on   *)
(* its border and q has a copy of.                                         *)
Exchanged(r, q) == Shared(r, q, "selection") \cup Shared(r, q, "border")

DataSources(r) == {q \in Rank \ {r} : Exchanged(q, r) # {}}

InOrder(E) == SelectSeq(Order, LAMBDA e : e \in E)

(* Entities the wrapper passes on: the SubDomainGrid's containsHostEntity().*)
Participates(g, r, e) == g = MultiDomain \/ g \in domains[r][e]

(* A bug: gather() passes on every entity.                                 *)
GatheredAll(g, r, q) == InOrder(Exchanged(r, q))

Gathered(g, r, q) == InOrder({e \in Exchanged(r, q) : Participates(g, r, e)})

(* scatter(): the entities on r that read from the stream sent by q.       *)
Scattered(g, r, q) == InOrder({e \in Exchanged(q, r) : Participates(g, r, e)})

Communicating(r) == posted[r] = cycle[r] /\ cycle[r] > 0 /\ taken[r] # DataSources(r)

InitExchange ==
  /\ Init
  /\ posted = [r \in Rank |-> 0]
  /\ taken = [r \in Rank |-> {}]
  /\ streams = [r \in Rank |-> [q \in Rank |-> <<>>]]
  /\ misread = {}

Gather(r) ==
  /\ phase[r] = "fixed"
  /\ posted[r] < cycle[r]
  /\ posted' = [posted EXCEPT ![r] = cycle[r]]
  /\ taken' = [taken EXCEPT ![r] = {}]
  /\ streams' = [streams EXCEPT ![r] =
       [q \in Rank |-> IF r \in DataSources(q)
                       THEN Append(streams[r][q], Gathered(CallOn[cycle[r]], r, q))
                       ELSE streams[r][q]]]
  /\ UNCHANGED <<vars, misread>>

Scatter(r, q) ==
  /\ Communicating(r)
  /\ q \notin taken[r]
  /\ streams[q][r] # <<>>
  /\ LET sent == Head(streams[q][r])
         read == Scattered(CallOn[cycle[r]], r, q)
     IN misread' = misread \cup
          {<<r, read[k], IF k \in DOMAIN sent THEN sent[k] ELSE "nothing">> :
             k \in {k \in DOMAIN read : k \notin DOMAIN sent \/ sent[k] # read[k]}}
  /\ taken' = [taken EXCEPT ![r] = @ \cup {q}]
  /\ streams' = [streams EXCEPT ![q][r] = Tail(@)]
  /\ UNCHANGED <<vars, posted>>

(* communicate() returns when it has read all streams; then the caller     *)
(* goes on with the next cycle.                                            *)
CycleStep ==
  /\ \E r \in Rank : /\ phase[r] = "fixed" => posted[r] = cycle[r] /\ ~Communicating(r)
                     /\ StartMarking(r) \/ Mark(r) \/ Exchange(r)
  /\ UNCHANGED data

AllExchanged ==
  /\ \A r \in Rank : phase[r] = "fixed" /\ posted[r] = CycleBound /\ ~Communicating(r)
  /\ UNCHANGED allVars

NextExchange ==
  \/ CycleStep
  \/ \E r \in Rank : Gather(r) \/ (\E q \in Rank : Scatter(r, q))
  \/ AllExchanged

SpecExchange == InitExchange /\ [][NextExchange]_allVars
-----------------------------------------------------------------------------
(* Unless cells have left subdomains, every entity of the grid gets, on     *)
(* every rank, the value that was written for it on the other one,         *)
(* although the ranks decide on their own which entities take part, may be *)
(* a cycle apart, and nothing in the stream says where the data of an      *)
(* entity begins.                                                          *)
EachReadsItsOwn == ~removed => misread = {}

(* "Full support for MPI-parallel computations on the subdomains"          *)
(* (README.md): the same without the assumption.                           *)
DataArrives == misread = {}

-----------------------------------------------------------------------------
(* The inductive invariant behind EachReadsItsOwn.                         *)

(* Every rank communicates once after each cycle and has read all streams  *)
(* before it begins the next.                                              *)
CallsInTurn ==
  /\ posted \in [Rank -> Nat]
  /\ taken \in [Rank -> SUBSET Rank]
  /\ \A r \in Rank :
       /\ posted[r] <= cycle[r] /\ cycle[r] <= posted[r] + 1
       /\ phase[r] # "fixed" => posted[r] = cycle[r]
       /\ taken[r] \subseteq DataSources(r)
       /\ posted[r] = 0 => taken[r] = {}
       /\ posted[r] # 0 /\ (phase[r] # "fixed" \/ posted[r] # cycle[r]) => taken[r] = DataSources(r)

(* The calls in which r has read the stream of q.                          *)
Done(r, q) == IF posted[r] = 0 \/ q \in taken[r] THEN posted[r] ELSE posted[r] - 1

(* On their way are the streams of the calls in which r has not read yet,  *)
(* in their order.                                                         *)
StreamsInTurn ==
  /\ streams = [q \in Rank |-> [r \in Rank |-> streams[q][r]]]
  /\ \A q, r \in Rank :
       /\ streams[q][r] \in Seq({InOrder(E) : E \in SUBSET Exchanged(q, r)})
       /\ Len(streams[q][r]) = IF q \in DataSources(r) THEN posted[q] - Done(r, q) ELSE 0

(* What an entity has after the n-th update on all ranks that have it.     *)
LayoutOf(h, e, n) == UNION {h[c][n] : c \in Around(e)}

(* The stream of the n-th call, as long as both ranks see that layout.     *)
StreamOf(h, q, r, n) ==
  InOrder({e \in Exchanged(q, r) : CallOn[n] = MultiDomain \/ CallOn[n] \in LayoutOf(h, e, n)})

(* The owners around all that q and r exchange have entered update() n.    *)
Settled(q, r, n) == \A e \in Exchanged(q, r) : \A c \in Around(e) : n <= Entered(Owner[c])

(* A stream has the data of the entities that were in the grid after the   *)
(* cycle it belongs to.                                                    *)
StreamsFollow(h) ==
  \A q, r \in Rank : \A i \in DOMAIN streams[q][r] :
    /\ Settled(q, r, Done(r, q) + i)
    /\ streams[q][r][i] = StreamOf(h, q, r, Done(r, q) + i)

ExchangeInv ==
  /\ TypeOK /\ ChannelsInStep
  /\ CallsInTurn /\ StreamsInTurn
  /\ \E h \in Histories : Follow(h) /\ (~removed => StreamsFollow(h) /\ misread = {})
=============================================================================
