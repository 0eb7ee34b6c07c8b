-------------------------- MODULE MCSetsAndFactory --------------------------
(* What a traits class decides: the representation of sets of subdomains,  *)
(* of which there are three, and which subdomains the factory makes a grid *)
(* for.  One of these four is called from the start; the others stay as    *)
(* they are constructed.                                                   *)
EXTENDS IntegralTypeSubDomainSet

CONSTANTS
  Kind, Count, MaxElements, MaxDomain  \* of GridFactory

VARIABLES
  inUse,          \* the component that is called
  array, length,  \* of ArrayBasedSet
  value, message, \* of SingleValueSet
  elements, gridPtr, hostPtr, handed, result, file, added, inserted \* of GridFactory

Array == INSTANCE ArrayBasedSet WITH maxSize <- 2, emptyTag <- 3
Single == INSTANCE SingleValueSet WITH emptyTag <- 99
Factory == INSTANCE GridFactory

ASSUME TraitsAssumption ==
  Array!ArrayAssumption /\ Single!TagAssumption /\ Factory!FactoryAssumption

setVars == <<bits, array, length, value, message>>

factoryVars ==
  <<elements, gridPtr, hostPtr, handed, result, file, added, inserted>>

vars == <<inUse, setVars, factoryVars>>

InitAll ==
  /\ inUse \in {"bits", "array", "single", "factory"}
  /\ Init
  /\ Array!Init
  /\ inUse # "array" => array = [n \in Name |-> <<0, 0>>]
  /\ Single!Init
  /\ Factory!Init

NextBits ==
  /\ inUse = "bits"
  /\ Next
  /\ UNCHANGED <<array, length, value, message>>

NextArray ==
  /\ inUse = "array"
  /\ Array!NextWithoutRemove
  /\ UNCHANGED <<bits, value, message>>

NextSingle ==
  /\ inUse = "single"
  /\ Single!Next
  /\ UNCHANGED <<bits, array, length>>

NextFactory ==
  /\ inUse = "factory"
  /\ Factory!Next
  /\ UNCHANGED <<inUse, setVars>>

(* After the grid has been handed over the factory is not used any more.   *)
FactoryDone ==
  /\ inUse = "factory" /\ handed # {}
  /\ UNCHANGED vars

NextAll ==
  \/ /\ NextBits \/ NextArray \/ NextSingle
     /\ UNCHANGED <<inUse, factoryVars>>
  \/ NextFactory
  \/ FactoryDone

SpecAll == InitAll /\ [][NextAll]_vars
-----------------------------------------------------------------------------
(* Whichever representation the traits choose, what the queries answer is  *)
(* what the iterator shows (the properties of that name in the modules).   *)
AllQueriesAgree ==
  CASE inUse = "bits" -> QueriesAgree
    [] inUse = "array" -> Array!QueriesAgree
    [] inUse = "single" -> Single!QueriesAgree
    [] OTHER -> TRUE

(* Whichever representation the traits choose, each operation the library  *)
(* calls, other than remove() of the array, does to the elements what it   *)
(* does to a set: all three implement SubDomainSet.                        *)
AllImplementSet ==
  /\ AsSet!Init /\ Array!AsSet!Init /\ Single!AsSet!Init
  /\ [][CASE inUse = "bits" -> StepsAsSet
         [] inUse = "array" -> Array!StepsAsSet
         [] inUse = "single" -> Single!StepsAsSet
         [] OTHER -> TRUE]_setVars

(* The properties of the factory, under their names in GridFactory: no     *)
(* element is lost when makeGrid() refuses,                                *)
ElementsKept == Factory!ElementsKept

(* the grid handed over has the layout of the file and of the caller,      *)
LayoutOfFile == Factory!LayoutOfFile

(* and every subdomain in use has a counter.                               *)
CountersCover == Factory!CountersCover
=============================================================================
