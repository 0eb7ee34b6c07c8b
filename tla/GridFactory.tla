----------------------------- MODULE GridFactory ----------------------------
(***************************************************************************)
(* How a MultiDomainGrid comes into being: elements are inserted one by    *)
(* one or read from a gmsh file that gives every element a domain, the     *)
(* factory makes the grid with room for a number of subdomains, createGrid *)
(* hands it over, and the caller goes on marking cells.  The three traits  *)
(* classes (mdgridtraits.hh) say which subdomains there is room for.       *)
(*                                                                         *)
(* The host grid visits its cells in the order of insertion, which the     *)
(* reader relies on.  Files number domains from 1.  How many subdomains   *)
(* the set of one entity has room for is left out.                         *)
(***************************************************************************)
EXTENDS Integers, Sequences, FiniteSetsExt

CONSTANTS
  Kind,         \* the traits class: "few", "array" or "dynamic"
  Count,        \* its template parameter, the number of subdomains
  MaxElements,  \* bound on the elements of one grid
  MaxDomain     \* bound on the domains in a file

(* What the constants are.                                                 *)
FactoryAssumption ==
  /\ Kind \in {"few", "array", "dynamic"}
  /\ Count \in Nat \ {0}
  /\ MaxElements \in Nat /\ MaxDomain \in Nat

VARIABLES
  elements,  \* the elements the host grid factory holds
  gridPtr,   \* {} or _grid_ptr
  hostPtr,   \* {} or _host_grid_ptr
  handed,    \* {} or the grid createGrid() returned
  result,    \* how the last call ended
  file,      \* history: the domains of the elements in a file read without error
  added,     \* history: the cells and subdomains the caller marked
  inserted   \* history: the elements inserted or read in all

vars == <<elements, gridPtr, hostPtr, handed, result, file, added, inserted>>

(* maxSubDomainIndex() and the indices of a SizeContainer, for traits that *)
(* are default constructed or, if "dynamic", constructed with n.           *)
maxSubDomainIndex(n) ==
  CASE Kind = "few"     -> Count - 1
    [] Kind = "array"   -> Count
    [] Kind = "dynamic" -> n

SizeContainer(n) == 0 .. (IF Kind = "dynamic" THEN n ELSE Count) - 1

(* A bug: makeGrid() accepts any number of subdomains.                     *)
NeverTooMany(n) == FALSE

TooMany(n) == maxSubDomainIndex(n) < n

Grid(n, cells) ==
  [asked |-> n, last |-> maxSubDomainIndex(n), room |-> SizeContainer(n),
   layout |-> cells]

NoSubDomains(k) == [i \in 1 .. k |-> {}]

Init ==
  /\ elements = 0 /\ gridPtr = {} /\ hostPtr = {} /\ handed = {}
  /\ result = "ok" /\ file = <<>> /\ added = {} /\ inserted = 0

InsertElement ==
  /\ gridPtr = {} /\ handed = {} /\ file = <<>>
  /\ elements < MaxElements
  /\ elements' = elements + 1
  /\ inserted' = inserted + 1
  /\ result' = "ok"
  /\ UNCHANGED <<gridPtr, hostPtr, handed, file, added>>

(* A bug: the host grid is created before the number is checked.           *)
MakeGridTooEarly(n) ==
  /\ gridPtr = {} /\ handed = {}
  /\ elements' = 0
  /\ IF TooMany(n)
     THEN result' = "IOError" /\ UNCHANGED gridPtr
     ELSE result' = "ok" /\ gridPtr' = {Grid(n, NoSubDomains(elements))}
  /\ UNCHANGED <<hostPtr, handed, file, added, inserted>>

(* makeGrid(max_subdomains): the traits are made, the number is compared,  *)
(* then the host factory creates its grid.                                 *)
MakeGrid(n) ==
  /\ gridPtr = {} /\ handed = {}
  /\ IF TooMany(n)
     THEN result' = "IOError" /\ UNCHANGED <<elements, gridPtr>>
     ELSE /\ result' = "ok"
          /\ gridPtr' = {Grid(n, NoSubDomains(elements))}
          /\ elements' = 0
  /\ UNCHANGED <<hostPtr, handed, file, added, inserted>>

(* read(): the elements go into the host factory; if there are any, the    *)
(* grid is made and a marking cycle puts the i-th cell into the i-th       *)
(* domain.  The caller gives the reader a fresh factory.                   *)
ReadFile(domains) ==
  LET n == Max({domains[i] : i \in DOMAIN domains}) - 1
  IN  /\ inserted = 0 /\ gridPtr = {} /\ handed = {}
      /\ inserted' = Len(domains)
      /\ IF domains = <<>> THEN result' = "ok" /\ UNCHANGED <<elements, gridPtr, file>>
         ELSE IF TooMany(n)
         THEN result' = "IOError" /\ elements' = Len(domains) /\ UNCHANGED <<gridPtr, file>>
         ELSE /\ result' = "ok"
              /\ gridPtr' = {Grid(n, [i \in DOMAIN domains |-> {domains[i] - 1}])}
              /\ file' = domains /\ UNCHANGED elements
      /\ UNCHANGED <<hostPtr, handed, added>>

(* A bug: createGrid() makes the grid whether or not there is one.         *)
CreateGridAfresh ==
  /\ handed = {}
  /\ IF TooMany(1)
     THEN result' = "IOError" /\ UNCHANGED <<elements, handed>>
     ELSE /\ result' = "ok" /\ elements' = 0
          /\ handed' = {Grid(1, NoSubDomains(elements))}
  /\ gridPtr' = {}
  /\ UNCHANGED <<hostPtr, file, added, inserted>>

(* createGrid(): hands over the grid, which is made for one subdomain if   *)
(* nobody has made it before.                                              *)
CreateGrid ==
  /\ handed = {}
  /\ IF gridPtr # {}
     THEN result' = "ok" /\ handed' = gridPtr /\ gridPtr' = {} /\ UNCHANGED elements
     ELSE IF TooMany(1)
     THEN result' = "IOError" /\ UNCHANGED <<elements, gridPtr, handed>>
     ELSE /\ result' = "ok" /\ elements' = 0
          /\ handed' = {Grid(1, NoSubDomains(elements))}
          /\ UNCHANGED gridPtr
  /\ UNCHANGED <<hostPtr, file, added, inserted>>

(* hostGrid() asserts that _host_grid_ptr is set.                          *)
HostGrid ==
  /\ gridPtr # {}
  /\ result' = IF hostPtr = {} THEN "assertion failed" ELSE "ok"
  /\ UNCHANGED <<elements, gridPtr, hostPtr, handed, file, added, inserted>>

(* A marking cycle of the caller, who asked for a number of subdomains and *)
(* numbers them from 0.                                                    *)
AddToSubDomain(i, s) ==
  \E g \in handed :
    /\ i \in DOMAIN g.layout /\ s < g.asked
    /\ handed' = {[g EXCEPT !.layout[i] = @ \cup {s}]}
    /\ added' = added \cup {<<i, s>>}
    /\ result' = "ok"
    /\ UNCHANGED <<elements, gridPtr, hostPtr, file, inserted>>

Files == UNION {[1 .. k -> 1 .. MaxDomain] : k \in 0 .. MaxElements}

Next ==
  \/ InsertElement
  \/ \E n \in 0 .. MaxDomain : MakeGrid(n)
  \/ \E domains \in Files : ReadFile(domains)
  \/ CreateGrid
  \/ HostGrid
  \/ \E i \in 1 .. MaxElements, s \in 0 .. MaxDomain : AddToSubDomain(i, s)

Spec == Init /\ [][Next]_vars
-----------------------------------------------------------------------------
(* The subdomains of each element that the file and the caller ask for.    *)
Wanted ==
  [i \in 1 .. inserted |->
     {s \in 0 .. MaxDomain : <<i, s>> \in added \/ (file # <<>> /\ s = file[i] - 1)}]

(* Whatever calls fail on the way, every element inserted or read is in    *)
(* one place: still in the host factory, in the grid the factory keeps, or *)
(* in the grid handed over.  After a file was rejected the caller can      *)
(* still create a grid of its elements (makeGrid 54-67).                   *)
ElementsKept ==
  inserted = elements + MapThenSumSet(LAMBDA g : Len(g.layout), gridPtr \cup handed)

(* The grid the caller gets has the subdomains of the file, if one was     *)
(* read without an error, and those the caller added, cell by cell and     *)
(* nothing else, however the grid came to be made (createGrid 47-52, read  *)
(* 35-46).                                                                 *)
LayoutOfFile == \A g \in handed : g.layout = Wanted

(* Every subdomain of a cell has a counter in the size containers the      *)
(* index sets count in (setupSizeContainer, updateMapEntry).               *)
CountersCover ==
  \A g \in gridPtr \cup handed :
    \A i \in DOMAIN g.layout : g.layout[i] \subseteq g.room

(* maxSubDomainIndex() is "The largest allowed index for a subdomain."     *)
(* (multidomaingrid.hh): subdomains up to it have a counter.               *)
AllowedHasCounter ==
  \A g \in gridPtr \cup handed :
    \A i \in DOMAIN g.layout : \A s \in g.layout[i] : s <= g.last => s \in g.room

(* "Maximum number of sub-domains is bigger than what grid traits allows": *)
(* a call for as many subdomains as there are counters is not refused.     *)
RefusedOnlyIfBigger ==
  [][\A n \in SizeContainer(0) : MakeGrid(n + 1) => result' # "IOError"]_vars

(* hostGrid() asserts "_host_grid_ptr": it is set once there is a grid.    *)
HostGridKnown == result # "assertion failed"

(* The inductive invariant behind the first three: until there is a grid   *)
(* the host factory has all elements and nothing is known of subdomains;   *)
(* then there is one grid, made for a number of subdomains that the traits *)
(* have room for, with what was wanted.                                    *)
NoGrid ==
  gridPtr = {} /\ handed = {} /\ elements = inserted /\ file = <<>> /\ added = {}

OneGrid ==
  /\ elements = 0
  /\ gridPtr = {} \/ handed = {}
  /\ \E n \in {1} \cup 0 .. MaxDomain :
       /\ ~TooMany(n)
       /\ gridPtr \cup handed = {Grid(n, Wanted)}
       /\ \A i \in 1 .. inserted : Wanted[i] \subseteq 0 .. n

FactoryInv == inserted \in Nat /\ (NoGrid \/ OneGrid)
=============================================================================
