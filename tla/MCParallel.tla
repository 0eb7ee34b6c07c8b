----------------------------- MODULE MCParallel -----------------------------
(* What a caller does on several ranks: marking cycles, marking cycles     *)
(* with a communicate() after each, or calls to loadBalance().             *)
(*                                                                         *)
(* The first two with three cells in a fan around the vertex v, one on     *)
(* each rank; p is the other vertex of the face between a and b, q of that *)
(* between b and c.  The host grid has ghosts across faces only, so A and  *)
(* C do not know each other's cells, share v and have it on their borders. *)
(* The MultiDomainGrid communicates after the first cycle, the             *)
(* SubDomainGrid 0 after the second.                                       *)
EXTENDS SubDomainGridExchange, TLC

CONSTANTS A, B, C, a, b, c, v, p, q

MCClosure == (a :> {v, p}) @@ (b :> {v, p, q}) @@ (c :> {v, q})
MCOwner == (a :> A) @@ (b :> B) @@ (c :> C)
MCGhosts == (A :> {b}) @@ (B :> {a, c}) @@ (C :> {b})
MCOrder == <<a, b, c, p, v, q>>
MCCallOn == <<MultiDomain, 0>>

VARIABLES
  calls,  \* which of the three
  owner, indices, live, prepared, stateMap, pc, balanceStreams, got, failed, shown

balance == <<owner, indices, live, prepared, stateMap, pc, balanceStreams, got, failed, shown>>

(* loadBalance() with two cells on two ranks, of which the second numbers  *)
(* them the other way round at first.  The host may change both.           *)
Balance == INSTANCE LoadBalance
  WITH Rank <- {0, 1}, Cell <- {1, 2}, SubDomain <- {2}, DataBits <- 4,
       VertexData <- FALSE, streams <- balanceStreams

ASSUME LoadBalanceAssumption == Balance!BalanceAssumption

InitParallel ==
  /\ calls \in {"mark", "mark and communicate", "loadBalance"}
  /\ InitExchange
  /\ owner = <<1, 0>>
  /\ indices = (0 :> <<1, 2>>) @@ (1 :> <<2, 1>>)
  /\ Balance!Init

Marking == calls = "mark" /\ UNCHANGED <<calls, data, balance>>
Communication == calls = "mark and communicate" /\ UNCHANGED <<calls, balance>>
Balancing == calls = "loadBalance" /\ UNCHANGED <<calls, allVars>>

NextParallel ==
  \/ Next /\ Marking
  \/ NextExchange /\ Communication
  \/ Balance!Next /\ Balancing

parallelVars == <<calls, allVars, balance>>

(* As in ParallelMarking, for cycles without communicate().                *)
FairMarking ==
  \A r \in Rank : /\ WF_parallelVars(StartMarking(r) /\ Marking)
                  /\ WF_parallelVars(Exchange(r) /\ Marking)

SpecParallel == InitParallel /\ [][NextParallel]_parallelVars /\ FairMarking
-----------------------------------------------------------------------------
(* A rank that has entered update() leaves it (UpdateEnds of               *)
(* ParallelMarking): no exchange waits for a message that nobody sends, or *)
(* for one that is behind another.                                         *)
EveryUpdateEnds == calls = "mark" => UpdateEnds

(* In loadBalance() the caller's scatter() reads what its gather() wrote   *)
(* for the same cell, behind the subdomains, wherever the host has moved   *)
(* the cell (EachReadsItsOwn of LoadBalance).                              *)
BalanceReadsItsOwn == Balance!EachReadsItsOwn

(* What a rank has saved when it restores is what it showed when the call  *)
(* began, whatever earlier calls left (SavedIsShown of LoadBalance).       *)
SavedIsShown == Balance!SavedIsShown
=============================================================================
