----------------------------- MODULE LoadBalance ----------------------------
(***************************************************************************)
(* loadBalance() of a MultiDomainGrid (multidomaingrid.hh 824-855) with    *)
(* the data handle around the caller's (1205-1286).  Every rank saves the  *)
(* subdomains of its leaf cells by id, the host grid balances or declines, *)
(* the owners' subdomains travel with the caller's data, and a marking     *)
(* cycle follows.                                                          *)
(*                                                                         *)
(* The host is external.  It may make other ranks the owners of cells and  *)
(* give cells other indices.  It gathers on the owner before the cells     *)
(* move and scatters afterwards on whichever ranks it sends the data to:   *)
(* the new owner of a cell as well as ranks that keep a copy.  Entries of  *)
(* the index set are found by host index, saved entries by id.             *)
(* Codimension 0 only: the sets of sub-entities follow from the cells      *)
(* (IndexSet), the exchange inside the marking cycle is ParallelMarking.   *)
(***************************************************************************)
EXTENDS Integers, Sequences, FiniteSets, SequencesExt

CONSTANTS
  Rank,
  Cell,        \* leaf cells, all held by every rank, as numbers
  SubDomain,   \* SubDomainIndex, as numbers
  DataBits,    \* the width of the caller's DataType; SubDomainIndex is wider
  VertexData   \* the caller's handle contains() vertices as well

BalanceAssumption ==
  /\ Cell \subseteq Nat /\ IsFiniteSet(Cell)
  /\ SubDomain \subseteq Nat /\ IsFiniteSet(SubDomain)
  /\ DataBits \in Nat
  /\ VertexData \in BOOLEAN

VARIABLES
  owner,      \* owner[c]: the rank where c is interior
  indices,    \* indices[r][c]: the host index of c on r
  live,       \* live[r][i]: the domains of entry i in _leafIndexSet
  prepared,   \* prepared[r][i]: the same in _tmpLeafIndexSet
  stateMap,   \* stateMap[r][c]: _loadBalanceStateMap, {} without an entry
  pc,         \* where rank r is in loadBalance()
  streams,    \* streams[r]: what r has yet to scatter, a cell and its size
              \*   followed by the items of all cells
  got,        \* got[r][c]: {} or what the caller's scatter() has read
              \*   in this call
  failed,     \* an assertion failed
  shown       \* history: shown[r][c]: the domains of c in r's views after the
              \*   last marking cycle or call

vars == <<owner, indices, live, prepared, stateMap, pc, streams, got, failed, shown>>

Index == 1 .. Cardinality(Cell)
Numberings == {f \in [Cell -> Index] : \A c, d \in Cell : f[c] = f[d] => c = d}

NoStream == [cells |-> <<>>, items |-> <<>>]

(* What the caller's handle writes for a cell, told apart from numbers of  *)
(* subdomains by being negative.                                           *)
UserData(c) == <<-1 - c>>

Init ==
  /\ owner \in [Cell -> Rank]
  /\ indices \in [Rank -> Numberings]
  /\ live = [r \in Rank |-> [i \in Index |-> {}]]
  /\ prepared = live
  /\ stateMap = [r \in Rank |-> [c \in Cell |-> {}]]
  /\ pc = [r \in Rank |-> "idle"]
  /\ streams = [r \in Rank |-> NoStream]
  /\ got = [r \in Rank |-> [c \in Cell |-> {}]]
  /\ failed = FALSE
  /\ shown = stateMap

AllAt(where) == \A r \in Rank : pc[r] = where

(* The owner of c gives it the subdomains D: what c has then on r, whose   *)
(* entries are those of domains.  reset(false) keeps the entries of cells, *)
(* only the owner takes a cell out of a subdomain, and the exchange joins  *)
(* what the owner has to what a copy has.                                  *)
Given(r, c, D, domains) == IF owner[c] = r THEN D ELSE domains \cup D

(* A marking cycle on all ranks, as ParallelMarking executes it.           *)
Mark(c, D) ==
  /\ AllAt("idle")
  /\ live' = [r \in Rank |-> [live[r] EXCEPT ![indices[r][c]] = Given(r, c, D, @)]]
  /\ shown' = [r \in Rank |-> [shown[r] EXCEPT ![c] = Given(r, c, D, @)]]
  /\ UNCHANGED <<owner, indices, prepared, stateMap, pc, streams, got, failed>>

(* A bug: what a cell has is joined to an entry left from an earlier call. *)
SaveJoins(r) ==
  /\ pc[r] = "idle"
  /\ \A q \in Rank : pc[q] \in {"idle", "saved"}
  /\ stateMap' = [stateMap EXCEPT ![r] =
                    [c \in Cell |-> @[c] \cup live[r][indices[r][c]]]]
  /\ pc' = [pc EXCEPT ![r] = "saved"]
  /\ UNCHANGED <<owner, indices, live, prepared, streams, got, failed, shown>>

(* The first loop of loadBalance().                                        *)
Save(r) ==
  /\ pc[r] = "idle"
  /\ \A q \in Rank : pc[q] \in {"idle", "saved"}
  /\ stateMap' = [stateMap EXCEPT ![r] = [c \in Cell |-> live[r][indices[r][c]]]]
  /\ pc' = [pc EXCEPT ![r] = "saved"]
  /\ UNCHANGED <<owner, indices, live, prepared, streams, got, failed, shown>>

(* The host declines: return false, the saved entries stay.                *)
Decline ==
  /\ AllAt("saved")
  /\ pc' = [r \in Rank |-> "idle"]
  /\ UNCHANGED <<owner, indices, live, prepared, stateMap, streams, got, failed, shown>>

(* A union Data is written and read through its member buffer.             *)
Through(x) == IF x < 0 THEN x ELSE x % 2^DataBits

(* The elements in the order of the set's iterator, of which nothing but   *)
(* that it shows each once is used.                                        *)
Numbers(D) == SetToSeq(D)

(* size() and gather() for an interior cell with the subdomains D.         *)
size(D, c) == Cardinality(D) + 1 + Len(UserData(c))

Gathered(D, c) ==
  <<Through(Cardinality(D))>> \o [i \in DOMAIN Numbers(D) |-> Through(Numbers(D)[i])]
    \o UserData(c)

(* gather() asserts that the entity is a cell; contains() lets the host    *)
(* ask for vertices if the caller's handle has data on them.               *)
GatherAsserts == ~ VertexData

(* What the owner of c writes for it.                                      *)
OwnersSet(c) == live[owner[c]][indices[owner[c]][c]]

(* The stream a rank gets: the cells the host sends it, in some order,     *)
(* with what their owners wrote.                                           *)
StreamOf(order) ==
  LET last[n \in 0 .. Len(order)] ==
        IF n = 0 THEN <<>>
        ELSE LET next == order[Len(order) - n + 1]
             IN  Gathered(OwnersSet(next), next) \o last[n - 1]
  IN  [cells |-> [k \in DOMAIN order |->
                    [cell |-> order[k], size |-> size(OwnersSet(order[k]), order[k])]],
       items |-> last[Len(order)]]

(* The host balances the load and sends every rank data of cells that the  *)
(* rank did not own.                                                       *)
HostBalances ==
  /\ AllAt("saved")
  /\ owner' \in [Cell -> Rank]
  /\ indices' \in [Rank -> Numberings]
  /\ streams' \in [Rank -> {StreamOf(order) : order \in SetToAllKPermutations(Cell)}]
  /\ \A r \in Rank : \A k \in DOMAIN streams'[r].cells :
       owner[streams'[r].cells[k].cell] # r
  /\ failed' = (failed \/ ~ GatherAsserts)
  /\ pc' = [r \in Rank |-> "balanced"]
  /\ UNCHANGED <<live, prepared, stateMap, got, shown>>

(* scatter() for the next cell where it is not interior: the number of     *)
(* subdomains, that many indices, and the rest for the caller's handle.    *)
ScatterOnCopy(r, next, items) ==
  LET k == Head(items)
      restored == SubSeq(items, 2, k + 1)
  IN  /\ owner[next.cell] # r
      /\ stateMap' = [stateMap EXCEPT ![r][next.cell] = @ \cup ToSet(restored)]
      /\ got' = [got EXCEPT ![r][next.cell] = {SubSeq(items, k + 2, next.size)}]

(* A bug: the new owner passes on as many items as a copy would.           *)
ScatterOnOwnerShort(r, next, items) ==
  /\ owner[next.cell] = r
  /\ got' = [got EXCEPT ![r][next.cell] = {SubSeq(items, 1, next.size - (Head(items) + 1))}]
  /\ UNCHANGED stateMap

(* scatter() on the new owner: all items are left to the caller's handle.  *)
ScatterOnOwner(r, next, items) ==
  /\ owner[next.cell] = r
  /\ got' = [got EXCEPT ![r][next.cell] = {SubSeq(items, 1, next.size)}]
  /\ UNCHANGED stateMap

Scatter(r) ==
  LET next == Head(streams[r].cells)
      items == streams[r].items
  IN  /\ pc[r] = "balanced" /\ streams[r].cells # <<>>
      /\ ScatterOnCopy(r, next, items) \/ ScatterOnOwner(r, next, items)
      /\ streams' = [streams EXCEPT ![r] =
           [cells |-> Tail(streams[r].cells),
            items |-> SubSeq(items, next.size + 1, Len(items))]]
      /\ UNCHANGED <<owner, indices, live, prepared, pc, failed, shown>>

(* startSubDomainMarking(): the copy keeps the cells' entries.             *)
Copy(entries) == entries

(* startSubDomainMarking() and the loop that adds the saved subdomains,    *)
(* which writes to _leafIndexSet.                                          *)
Restore(r) ==
  /\ pc[r] = "balanced" /\ streams[r].cells = <<>>
  /\ prepared' = [prepared EXCEPT ![r] = Copy(live[r])]
  /\ live' = [live EXCEPT ![r] = [i \in Index |->
                @[i] \cup UNION {stateMap[r][c] : c \in {d \in Cell : indices[r][d] = i}}]]
  /\ pc' = [pc EXCEPT ![r] = "restored"]
  /\ UNCHANGED <<owner, indices, stateMap, streams, got, failed, shown>>

(* preUpdateSubDomains(), in which the copies of a cell get the subdomains *)
(* of the owner as well, updateSubDomains(), which swaps, and clear().     *)
Update ==
  /\ AllAt("restored")
  /\ live' = [r \in Rank |-> [i \in Index |->
       prepared[r][i] \cup UNION {prepared[owner[c]][indices[owner[c]][c]] :
                                    c \in {d \in Cell : indices[r][d] = i}}]]
  /\ prepared' = [r \in Rank |-> [i \in Index |-> {}]]
  /\ stateMap' = [r \in Rank |-> [c \in Cell |-> {}]]
  /\ pc' = [r \in Rank |-> "idle"]
  /\ got' = [r \in Rank |-> [c \in Cell |-> {}]]
  /\ shown' = [r \in Rank |-> [c \in Cell |-> live'[r][indices[r][c]]]]
  /\ UNCHANGED <<owner, indices, streams, failed>>

Next ==
  \/ \E c \in Cell, D \in SUBSET SubDomain : Mark(c, D)
  \/ \E r \in Rank : Save(r) \/ Scatter(r) \/ Restore(r)
  \/ Decline
  \/ HostBalances
  \/ Update

Spec == Init /\ [][Next]_vars
-----------------------------------------------------------------------------
(* What a rank has saved for a cell, from the time it saves to the end of  *)
(* the call, is what the cell had on this rank when the call began: a call *)
(* that was declined leaves nothing behind that survives, and what a copy  *)
(* is sent by the owner, through a stream it shares with the caller's      *)
(* data, is nothing new to it (824-846, 1261-1272).                        *)
SavedIsShown ==
  \A r \in Rank : pc[r] # "idle" => stateMap[r] = shown[r]

EndsIn(s, end) == \E n \in 1 .. Len(s) : SubSeq(s, n, Len(s)) = end

(* The caller's data handle reads for each cell what it wrote for that     *)
(* cell, although subdomains travel in front of it and the host may have   *)
(* moved and renumbered cells in between.  On a copy it reads nothing      *)
(* else.  On the new owner of a cell scatter() leaves it the subdomains    *)
(* too, in front of its own, and they do not shift what follows (size      *)
(* 1231-1239, gather 1242-1258, scatter 1261-1279).                        *)
EachReadsItsOwn ==
  \A r \in Rank, c \in Cell : \A data \in got[r][c] :
    /\ EndsIn(data, UserData(c))
    /\ owner[c] # r => data = UserData(c)

(* The caller's data handle reads what it wrote and nothing else, also on  *)
(* the new owner of a cell.                                                *)
NothingInFront ==
  \A r \in Rank, c \in Cell : got[r][c] \subseteq {UserData(c)}

(* The subdomains that a rank puts back at the end of loadBalance() are    *)
(* those the cell has afterwards.                                          *)
RestoredIsShown ==
  [][Update => \A r \in Rank, c \in Cell : stateMap[r][c] \subseteq shown'[r][c]]_vars

(* gather() asserts "Entity::codimension == 0".                            *)
OnlyCellsGathered == ~ failed
=============================================================================
