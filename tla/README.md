# MultiDomainGrid in TLA+

dune-multidomaingrid wraps a DUNE grid (the *host grid*) and lets its cells
belong to overlapping *subdomains*.  Each subdomain looks like a grid of its
own: it has leaf and level views, and index sets that number its entities
consecutively.  This directory holds TLA+ models of that code, TLC
configurations that check them on small grids, and proofs that hold for every
grid.  Paths below are relative to `src/dune/grid/multidomaingrid/`.

## 1. The system

| component | source | state | operations |
|---|---|---|---|
| life cycle | `multidomaingrid.hh` | `_state`, `_adaptState`, the live and temporary index sets, `_adaptationStateMap`, `_maxAssignedSubDomainIndex` | `startSubDomainMarking`, four assignment calls, `pre-`, `-`, `postUpdateSubDomains`; `mark`, `preAdapt`, `adapt`, `postAdapt`, `globalRefine`; `updateIndexSets`, `saveMultiDomainState`, `restoreMultiDomainState` |
| index sets | `indexsets.hh` | per codimension: `indexMap` (subdomains and index of each entity), `sizeMap`, `codimSizeMap`, `multiIndexMap` | `reset`, `update`, `updateLevelIndexSet`, `markAncestors`, `markSubIndices`, `updateMapEntry`, `updateSubIndices`, `swap`, `index`, sizes |
| subdomain sets | `subdomainset.hh`, `arraybasedset.hh`, `singlevalueset.hh`, `mdgridtraits.hh` | a bit field, a sorted array or one value | `add`, `remove`, `set`, `clear`, `addAll`, `containsAll`, `difference`, `state`, `domainOffset` |
| SubDomainGrid | `subdomaingrid/*.hh` | wrappers that refer to the index sets of the MultiDomainGrid | creation on first use, `update`, queries forwarded with the subdomain as an argument |
| parallel | `indexsets.hh` 978-1059, data handles | none of its own | subdomains of cells and sub-entities are sent to other ranks during `update` |
| factory | `factory.hh`, `gmshreader.hh` | the host's factory, the grid made but not yet handed over | insert elements, read a file, `makeGrid`, `createGrid` |
| load balancing | `multidomaingrid.hh` 824-861 | `_loadBalanceStateMap` | `loadBalance` |
| interfaces | `*interface*iterator.hh` | position in cell, intersection and subdomain pair | increment over all interfaces of two or of all subdomains |
| mapper | `multidomainmcmgmapper.hh` | offsets per subdomain and geometry type | `update`, `index`, `contains` |
| wrappers | entities, geometries, iterators, ids | one host object each | forwarding |

How they interact: the life cycle owns one leaf index set and, unless switched
off, one index set per level.  A marking cycle copies the leaf index set,
changes the copy, builds new level index sets beside it and finally exchanges
the *containers* of old and new objects, so that references to the objects (the
SubDomainGrids hold such references) stay good.  An adaptation saves the
subdomains of every leaf, and of every ancestor that might become a leaf, under
its id; lets the host grid change; rebuilds the index sets empty; tells the
SubDomainGrids; and finds for every new leaf the saved cell it came from.
`update()` walks the leaf cells once, handing their subdomains to the level
index sets (upward to all ancestors) and to the sub-entities, and numbers what
it has marked.  There are no threads; what is hard is that one state is kept in
several redundant forms (leaf and level views, cells and sub-entities, entries
and counters, objects and references), that cycles of calls interleave, that
the orders of the host's iterators are arbitrary, that the host may throw in the
middle of a cycle, that ranks go through the exchanges at their own speed, and
that the parallel and the adaptive code assume things of each other.

Correctness, by component:

* life cycle: a layout is published as a whole; it survives adaptation; marking
  and adaptation exclude each other; leaf and level views agree;
* index sets: consecutive indices without repetition in every subdomain, per
  geometry type, on every view; sub-entities and ancestors belong to exactly
  the subdomains of the cells around or below them; sizes count entities;
* subdomain sets: each representation behaves as a finite set within its
  capacity;
* SubDomainGrid: what it shows is the layout in use, on objects that exist;
* parallel: all copies of an entity have the same subdomains;
* load balancing: a cell keeps its subdomains when it moves;
* interfaces: every pair of subdomains across every face, once;
* mapper: no two entities of a subdomain share an index below `size()`;
* factory: elements and domains of a file survive a failed `makeGrid`, and every
  subdomain that is used has counters.

`PROJECT.json` lists every component with its status, and under `hazards` each
place where these could fail in a way a test would hardly reach.

## 2. The modules

| module | models | state and actions against the code |
|---|---|---|
| `HostTree` | the host grid: cells, ancestors, refinement rules, what `adapt` and `globalRefine` of the host may do (external) | constants only; a "tree" is the set of cells existing at one time |
| `SubDomainLayout` | the abstract promise of the life cycle | `layout` of the leaves, a `draft`, a phase; `Begin`, `Edit`, `Finish`, `Publish`, `Forget`, `Reshape` |
| `MultiDomainGrid` | the life cycle | one variable per member, one action per public call; asserts are guards |
| `MapEntries` | `updateMapEntry()` and `index()` as pure operators on a numbering | `index`, `sizes`, `multi` are `MapEntry::index`, `sizeMap`, `multiIndexMap` |
| `IndexSet` | `reset()` and `update()` entity by entity on a host grid that stands still | `domains`, `num`, `codimSizes` per view; one action per turn of a loop |
| `SubDomainGridLevels` | which level index set objects exist and who refers to them | objects are numbers; `content` is what a container holds |
| `SubDomainSet` | the abstract promise of a set of subdomains: a finite set within a capacity | one action per operation |
| `IntegralTypeSubDomainSet` | the bit set: one unsigned integer, the arithmetic of its iterator and of its queries | `bits` is `_set` of each object; one action per operation |
| `ArrayBasedSet` | the sorted array with what lies behind its end | `array` and `length` are `_set` and `_size` of each object; one action per operation |
| `SingleValueSet` | one value or a tag, with its data handle | `value` is `_set` of each object; asserts are guards |
| `SubDomainIndexSets` | what callers ask the index sets: `contains`, `index`, `subIndex`, `types`, sizes, dispatched over codimensions; the index sets of a SubDomainGrid forward here | operators on the state of `IndexSet` |
| `FailedAdaptation` | `adapt()`, `globalRefine()` and the saved state when the host throws, and the next attempt | on top of `MultiDomainGrid`: an action per call that may throw, `_adaptationStateMap` with what failed calls left |
| `ParallelMarking` | a marking cycle on several ranks with both exchanges of `update()` | `domains[r]` is the leaf index set of rank r, `channel` the messages of the host's `communicate()`, in which the cycle is history; one action per call, message or loop |
| `SubDomainGridExchange` | `communicate()` of the MultiDomainGrid and of SubDomainGrids, between cycles | `streams` are the buffers; `gather` and `scatter` of one neighbour are one action |
| `LoadBalance` | `loadBalance()` and the data handle around the caller's, with marking cycles between the calls | one variable per member; the host's `loadBalance()` is external: it may give cells to other ranks, number them anew and send their data to the new owner and to copies |
| `InterfaceMesh` | the cells and intersections of one view, as the interface iterators see them (external) | constants only |
| `SubDomainInterfaces` | the loop over the interface of two subdomains, with the cached view from the other side | the controller's members and the interface's cache; `increment()` and each question of the caller is an action |
| `AllSubDomainInterfaces` | the loop over all interfaces | an iterator over a set is the set of what it has not passed; the three outcomes of `increment()` are actions |
| `SubDomainView` | a caller of a SubDomainGrid: iterators of level, leaf and hierarchic views, intersections and their cached type, fathers, vertices | the caller holds an iterator or an intersection and an entity; one action per call |
| `MultiDomainMCMGMapper` | the offsets of the mapper | `_offsets`; `update()` and changes of the grid are actions |
| `GridFactory` | insertion, gmsh reader, `makeGrid`, `createGrid`, the three traits classes' indices | one variable per pointer of the factory; one action per call, with its failures |
| `MCMultiDomainGrid`, `MCFailedAdaptation`, `MCIndexSets` | instances for TLC | |
| `MCSetsAndFactory`, `MCReaders`, `MCParallel` | instances for TLC that put components side by side | a variable chooses which component takes the steps; the others stay in a fixed state |
| `HostTreeProofs`, `MultiDomainGridProofs` (with those of `FailedAdaptation`), `IndexSetProofs` (with those of `MapEntries`, `SubDomainIndexSets`, `ArrayBasedSet` and `SingleValueSet`), `SubDomainGridLevelsProofs`, `ParallelMarkingProofs` (with those of `SubDomainGridExchange` and `LoadBalance`), `SubDomainInterfacesProofs` (with those of `AllSubDomainInterfaces`), `SubDomainViewProofs` (with those of `MultiDomainMCMGMapper`), `GridFactoryProofs` | proofs | |

`MultiDomainGrid` and `IndexSet` look at the same code at two depths:
`MultiDomainGrid` treats the construction of level index sets as one function
(`LevelSetsOf`); `IndexSet` executes it and checks that the result is that
function (`LevelsFollowLeaves`), in every order of the cells.  Likewise
`ParallelMarking` treats the marking of sub-entities on one rank as one step
(`MarkedSubEntities`), which `IndexSet` executes (`SubEntitiesFollowCells`), and
`LoadBalance` the marking cycle on all ranks, which `ParallelMarking` executes: the
owner's cell gets what it is given, copies have it added to what they have.
`FailedAdaptation` extends `MultiDomainGrid`, `SubDomainIndexSets` extends
`IndexSet`, `SubDomainGridExchange` extends `ParallelMarking`.

Modelling decisions:

* a debug build is modelled: an assert that fails stops the program, so asserts
  are guards.  `partitionType() == InteriorEntity` always holds on one rank;
* a cell and its id are the same value (`idsets.hh` forwards to the host's ids);
  a host entity keeps its id while it exists, as DUNE demands;
* `mark()` forwards to the host; the marks show only in what the host's
  `adapt()` does, a choice in `Adapt`.  `HostMayAdapt` says that only cells that
  answered `mightVanish()` disappear and level 0 never does;
* `globalRefine()` with a negative count (coarsening) is left out;
* `IndexSet` follows the index set being built; exchanging it with the live one
  is in `MultiDomainGrid` and `SubDomainGridLevels`.  An assignment call there
  sets the entry of a leaf to any set; which set is decided in `MultiDomainGrid`;
* memory that was never written (the array of a new `ArrayBasedSet`, the temporary
  array of `setAdd`) holds any value that could be taken for an element;
* `remove()` of a subdomain that is not in the set is an error of the caller with
  the array (asserted) and does nothing with the bit set; the result of
  `difference()` goes to a third object, as in its only use;
* ranks: messages between two ranks keep their order and are not lost (the
  host's `communicate()` promises that); everything else interleaves.  Set
  operations act on each subdomain by itself, so one subdomain is enough where
  only membership matters (`ParallelMarking`, `FailedAdaptation`);
* `std::sort` and `std::set_difference` are described by their results, an
  arrangement or a selection of places with ascending values; the stream of a
  data handle is put together cell by cell;
* an iterator over a sub-domain set in a loop is the set of what it has still to
  show, in ascending order; `sets_and_factory` checks that the representations
  behave so;
* a `SubDomainGrid` view is seen through one layout; entities and iterators of
  before an update are not used after it, as DUNE demands, but an intersection
  may be (its cached type is then out of date);
* a slot of a `MultiIndexContainer` that no subdomain uses is 0; nobody reads it;
* `domainOffset()` is a parameter: injective within one set is all that is
  assumed, so the results hold for the bit set and for the sorted array
  (`QueriesAgree` of `ArrayBasedSet` checks it there).  `MCIndexSets` takes that
  of the array.

## 3. The runs

| run | question | bounds |
|---|---|---|
| `life_cycle` | Do all interleavings of marking, adaptation and refinement implement `SubDomainLayout` (`LayoutKept`)?  Do leaf and level views agree (`ViewsAgree`), does the maximum bound every index (`AssignedBelowMax`), do the containers have the right slots (`TypeOK`)? | one macro cell, two refinement rules, two levels below it, five trees, two subdomains |
| `refine_while_marking` | Does the grid enforce that marking and adaptation exclude each other, as documented? Violated. | same |
| `failed_adaptation` | If the host throws in `adapt()` or `globalRefine()`, is a later attempt exact (`RetryIsExact`), and is nothing lost (`NothingLost`)? | one macro cell, two refinement rules, four trees, one subdomain |
| `index_sets` | Consecutive indices on four views of three levels (`IndicesConsecutive`) and the inductive invariant of its proof (`NumberingInv`); level views follow the leaves (`LevelsFollowLeaves`) and vertices the cells (`SubEntitiesFollowCells`) in whatever order cells are visited; caches of sizes are right (`CodimSizesCount`); callers get one index per shared vertex and sizes that add up (`SharedSubIndices`, `SizesAgree`) | five cells of two types on three levels, three vertices, two subdomains, no indices for codimension 1 |
| `levels_settled` | Do references of SubDomainGrids stay good and current across swaps and adaptations that do not bring a lost level back? | three levels, two subdomains, two layouts, nine objects |
| `levels_return` | And when a level comes back? Violated. | same |
| `sets_and_factory` | Do the three representations (the array without `remove()`) do what a set does (`AllImplementSet`), and do their queries agree with their iterators (`AllQueriesAgree`)?  Do elements survive failed calls of the factory (`ElementsKept`), does the grid have the layout of the file (`LayoutOfFile`), has every subdomain in use counters (`CountersCover`)? | three objects, three subdomains; three bits; an array of capacity two; bit set traits for three subdomains, three elements, files with up to four domains |
| `array_remove` | Does `remove()` of the array take out one element and no other? Violated. | one object, capacity three |
| `readers` | Does the loop over one interface show each intersection of it once (`VisitsInterface`), and each side its own (`OwnSide`)?  Does the loop over all interfaces show only interfaces, none twice, and at an intersection all pairs or none (`InterfacesShown`)?  Do both end (`LoopEnds`)?  Do iterators of a SubDomainGrid show what is in the subdomain (`IteratorVisits`), do walks stay inside (`WalkStaysInside`), are boundaries those of the leaf view (`BoundaryOfLeaves`)?  Are mapper indices distinct (`IndicesDistinct`)? | four cells with a hanging node and two subdomains; three triangles around a vertex and four subdomains; seven cells on three levels; four geometry types |
| `all_interfaces` | Does the loop over all interfaces show every interface, as documented? Violated. | same |
| `parallel` | Do all copies agree (`CopiesAgree`) and have what their owners gave (`CopiesCover`), does every `update()` end (`EveryUpdateEnds`)?  Does an exchange take only messages of its own (`ChannelsInStep`)?  Do data handles read what was written for their entity, in `communicate()` (`EachReadsItsOwn`) and in `loadBalance()` (`BalanceReadsItsOwn`)?  Does `loadBalance()` save and receive what the ranks had, whatever calls were declined before (`SavedIsShown`)? | three ranks with one cell each around a vertex, ghosts across faces, two cycles, one subdomain; `loadBalance()` on two ranks, two cells, one subdomain, all ways to move and renumber them, any number of calls |
| `parallel_stale` | Are the copies free of subdomains that the owner has taken away? Violated. | same |

Why the bounds are enough to be interesting.  The trees contain coarsening over
two levels at once, refinement of one child while the other is coarsened, and
one refinement rule replaced by another (a leaf whose father was saved but not
itself); two subdomains give empty, simple and multiple sets and every change
between them; two children below a father make the saved sets join; three
levels make the early end of `markAncestors` skip a cell; a shared vertex
belongs to cells of different subdomains.  `ObjectBound` and `DepthBound` bound
the objects allocated and the depth; `levels_settled` reaches every state but
allocation stops at the bound; `CycleBound` bounds the marking cycles of a rank,
and two make what an earlier layout left on a copy visible; `MaxElements` and
`MaxDomain` bound what a factory is given, with files of more domains than the
traits have room for.  No state constraint is used.
For the sets, three objects let `difference` and `addAll` mix two operands into a
third; a capacity of the array below the number of subdomains makes full sets and
stale values happen; the bit set has no bit to spare, so the last bit and the full
set occur (the widths above the capacity differ in bits that are always 0).  The hanging node
gives cells different numbers of neighbours in different places, so that the
cell behind an intersection sees it at another place than the cell in front.  In the
fan of three triangles the search passes a cell without an interface at its first
intersection, and two cells can share one that is the first of neither.  Two refinements of one macro cell of three give a leaf view in which
cells of levels 0 and 2 meet.  Of three ranks around a vertex, two share it
without seeing each other's cells: with two ranks every ghost layer would be
complete.

Fairness is assumed in two places only.  The body of a loop over interfaces may
ask the interface as often as it likes but goes on to the next (weak fairness of
`increment()`); under this `LoopEnds` says that the controllers' searches come to
the end.  Marking is collective: a rank that has begun a cycle comes to its
`update()`, all ranks go through the same cycles, and the host's `communicate()`
delivers (weak fairness of each rank's steps); under this `EveryUpdateEnds` says
that no exchange waits for a message that is not sent or that is stuck behind
another.  Whether a caller ever marks, adapts or reads is up to the caller:
everything else is safety.  No configuration
switches the search for deadlocks off.

What the violations show:

* `globalRefine()` (`multidomaingrid.hh` 745) has no guard, while lines 877-879
  say that the exclusion of marking and adaptation is enforced by the grid.
  After `startSubDomainMarking`, `globalRefine` the temporary leaf index set has
  slots for the old grid;
* `SubDomainGrid::update()` (`subdomaingrid/subdomaingrid.hh` 598-604) only
  appends.  When the grid is coarsened by a level, that level index set is freed
  (`multidomaingrid.hh` 1077); when the level returns, a new object is made and
  the SubDomainGrid still refers to the old one;
* `ArrayBasedSet::remove()` (`arraybasedset.hh` 151) sorts up to
  `_set.end() + _size`.  Stale values behind the end of the set come to the front
  and memory behind the array takes part; removing 0 from {0, 1} in a zeroed
  array leaves {0}.  `MultiDomainGrid` describes removal as the bit set does it;
  with `ArrayBasedTraits` `removeFromSubDomain()` is as this run shows;
* `scatter()` of the exchanges adds what it receives to what a copy has
  (`subdomainset.hh` 246), and a marking cycle starts from the cells' old entries,
  ghosts included.  A subdomain that an owner takes from a cell stays on its
  copies and, through them, on shared vertices.  `CopiesAgree` and
  `EachReadsItsOwn` are therefore stated as long as no cell has left a
  subdomain.

* the search for the next interface of any two subdomains leaves a cell as soon as
  the next intersection exists (`allsubdomaininterfacesiterator.hh` 79) and looks at
  an intersection only when it is past the end, so it inspects the first intersection of
  each cell and no other, while `leafAllSubDomainInterfacesBegin()` is documented to
  visit all interfaces (`multidomaingrid.hh` 655-656).  Of three triangles around a
  vertex, the first in subdomain 0, the third in subdomain 1 and the second in none,
  the first and the third share an intersection that is the second of both: the begin
  iterator is at the end already.  `InterfacesShown` is the part of the promise that
  is kept.

### Other disagreements

Some modules end with properties that a comment, an assertion or the README of
the library states and that TLC refutes for the instances below.  No
configuration here lists them; each shows in a configuration for the module with
the property as its INVARIANT.

| property | module, instance | what happens |
|---|---|---|
| `OwnSide` | `SubDomainInterfaces` with `Spec` for `CallerSpec` | `subDomainIntersectionIterator()` copies the interface, the copy has no `_hostCell` (`subdomaininterfaceiterator.hh` 87), and its search for the other side goes past the right intersection |
| `SizeIsTotal` | `MultiDomainMCMGMapper`, as in `MCReaders` | `update()` (`multidomainmcmgmapper.hh` 233) sums up the offsets once per codimension: `size()` is too large, though no index is used twice |
| `EverySubDomainMapped` | the same with `Traits = "FewSubDomains"` | `maxSubDomainIndex()` is one less than the number of subdomains there, the mapper takes it for the number: the last subdomain has no offsets |
| `DataArrives` | `SubDomainGridExchange`, as in `MCParallel` | with stale copies the ranks disagree about the entities that take part, and `scatter()` (`subdomaingrid/subdomaingrid.hh` 777) reads the data of another |
| `IdDefined` | `SubDomainView`, as in `MCReaders` | `containsHostEntity()` asks the index set of the entity's own level; a vertex of the leaf view can be in the subdomain there and not on its level, and `id()` asserts (`subdomaingrid/idsets.hh` 35) |
| `AllowedHasCounter` | `GridFactory` with `Kind = "dynamic"` | the largest allowed index has no counter (`mdgridtraits.hh` 109) |
| `RefusedOnlyIfBigger` | `GridFactory`, as in `MCSetsAndFactory` | a call for exactly the allowed number of subdomains is refused (`factory.hh` 63) |
| `HostGridKnown` | the same | `_host_grid_ptr` is never set (`factory.hh` 75) |
| `UnionWithRoomAllowed` | `SingleValueSet`, as in `MCSetsAndFactory` | `setAdd()` with an empty operand fails its assertion (`singlevalueset.hh` 162), and without it empties the set |
| `RestoredIsShown` | `LoadBalance`, as in `MCParallel` | the saved subdomains are restored into the index set that `updateSubDomains()` is about to replace (`multidomaingrid.hh` 842-845): when the host has numbered cells anew they are lost |
| `NothingInFront` | `LoadBalance`, as in `MCParallel` | on the new owner of a cell `scatter()` (`multidomaingrid.hh` 1262, 1275) takes no subdomains out of the stream, and the caller's data handle reads their number and indices as data of its own |
| `SavedIsShown` | `LoadBalance` with `DataBits = 1`, else as in `MCParallel` | subdomains travel through a union with the caller's data type and are cut; the static assertion (`multidomaingrid.hh` 1218) compares the size of the union |
| `OnlyCellsGathered` | `LoadBalance` with `VertexData = TRUE` | `gather()` asserts codimension 0 (`multidomaingrid.hh` 1244), `contains()` lets the host ask for others |

Read in the code and not modelled: a cell set has room for twice the subdomains
per cell (`mdgridtraits.hh` 52), and `markAncestors()` puts the subdomains of all
leaves below a cell into one set; with one subdomain per cell, three leaves in
three subdomains below one cell need a place more than there is
(`arraybasedset.hh` 203 asserts).

Ten inductive invariants of section 4 are stronger than what the runs list.
TLC finds them invariant on the instances of these runs: `FailingInv` of
`failed_adaptation`; `MarksInv` and `SizesInv` of `index_sets`; `LevelsInv` of
`levels_settled`; `MarkingInv` (under `Spec`) and `ExchangeInv` (under
`SpecExchange`) of `parallel`, with all histories enumerated; `SideInv`,
`PairsInv` and `ViewInv` of `readers`; `FactoryInv` of `sets_and_factory`.  Those of the
components that stand in a proof module by `INSTANCE` (`MapperInv`, `ArrayInv`,
`SingleInv`, `BalanceInv`) and `VisitInv`, which compares with `Order` by position,
are proved and not run.

Each passing property has a mutant: a plausible bug in one mapped definition
(its name ends in what is wrong) with which TLC finds the property violated.

## 4. The proofs

`HostTreeProofs`: the walks `e = e.father()`.  From `HostAssumption` only (the
line of a cell is a finite chain, a cell is refined as a whole, every grid is
closed upward and holds level 0) it follows that a walk from a leaf `c` of a new
grid finds a lowest cell of the old grid, its *survivor*, and
that no cell below the survivor is in both grids unless the
survivor was a leaf (`SurvivorIsBare`: the survivor would have the same children
in both grids, and one of them lies between it and `c`).

`MultiDomainGridProofs`, for `CallerSpec`, every host grid and every set of
subdomains: `TypeCorrect`, `ViewsAlwaysAgree`, `AssignedAlwaysBelowMax` and
`LayoutAlwaysKept`, the refinement of `SubDomainLayout`.  `TypeOK` is inductive;
its hard case is a change of the host grid, where a leaf that found no
saved cell would have no subdomains at all.  The lemmas: a leaf below a
survivor that was not a leaf climbs up to it while the state is saved, because
no cell in between stays (`SurvivorClimbed`), so the survivor is saved with the
union over exactly the leaves below it (`SurvivorSaved`); the walk of
`restoreMultiDomainState()` ends there, whether the new cells are marked
`isNew()` (`adapt`) or nothing is (`globalRefine`) (`SavedCellIsSurvivor`).  That
union is what the abstract layout hands on (`InheritedIsKept`).  The refinement
is stated for `CallerSpec`; under `Spec`, where `globalRefine()` may come at any
time, it is false, as the run `refine_while_marking` shows.

For `FailedAdaptation`, in the same module, every host grid and any number of
calls that throw: `RetryIsAlwaysExact` and `NothingEverLost`.  The invariant `FailingInv`
says of the map that failed calls leave behind that it is about existing cells
only and, while nothing was reassigned, holds for a cell nothing but what leaves at
or below it have (`SavedFollows`).  The lemma `WalkEndsAtSurvivor` is stated for any
such map, as long as the survivor is in
it: entries for cells that do not vanish after all are above the survivor
or bare, so the walk does not stop at them.  What the survivor has in the map is
at least what is kept of it (`KeptInSaving`), and at most if `SavedFollows`.

In `IndexSetProofs`, first the lemmas about `MapEntries`: `updateMapEntry()` keeps the type of a
numbering, changes no number given before (`UpdateKeeps`), gives the new entity
the old counter of each of its subdomains (`UpdateNumbers`) and therefore keeps
every subdomain numbered consecutively (`UpdateConsecutive`).  From
`EntryAssumption` only: `domainOffset()` is injective within one set.

Then `Spec => []IndicesConsecutive` for every host grid, set of
subdomains, number of levels and order of iteration.  `IndicesConsecutive` is
not inductive.  The invariant `NumberingInv` (theorem `NumberingAlways`) adds
three things: types; that an
entity in several subdomains points into `multiIndexMap` (`Stored`); and
`RebuildingEmpty`: during a rebuild no entity has a subdomain.  The last one is
why the second `update()` of a rebuild, which does not reset the counters of the
leaf index set, is right: the first one counted nothing.  One lemma per action;
`NumberOne` is what the steps share that number an entity.

Last, for the same specification: sub-entities follow the cells
(`SubEntitiesAlwaysFollow`), levels follow the leaves (`LevelsAlwaysFollow`), and
two cells give a shared sub-entity one index (`SharedAlwaysSame`).  The invariant
`MarksInv` says what is true in the middle of `update()`: `Visited(v)` are the
cells of a view that the loops have passed, and every sub-entity has the
subdomains of the *visited* cells around it, every cell of a level those of the
*visited* leaves below it (`MarkedSoFar`).  With this the early end of
`markAncestors()` is right (`WalkEndsRightly`): an ancestor that has all
subdomains of the leaf got them from leaves that are below its own ancestors too.
`NumberingInv` is needed beside it: a rebuild leaves marks of sub-entities alone
only because there are none (`RebuildingEmpty`).  `SharedAlwaysSame` combines
both invariants: the shared entity is in the subdomain because a cell around it
is, and its index is in range and its own because indices are consecutive.

And the sizes: `CodimSizesAlwaysCount`, `SizesAlwaysAgree` and, because it includes
the sizes, `IndexSetsTyped`.  `CollectedSizes` and the sum in `SizesAgree` are folds
over a set, which are recursive functions on its subsets.  `SumIsCount` shows that
such a sum over disjoint finite sets is the number of elements of their union: the
function "number of elements below the subset" solves the recursion, and it is the
only solution, because a *smallest* subset where another differs is impossible (strict
inclusion between finite sets is well founded).  Counters count because numbers are
a bijection onto `0 .. size - 1` (`NumberedOfTypes`, from `NumberingInv`).  `SizesInv`
says that the sizes kept per codimension are the sums for exactly those views that
`update()` has completed: a marking cycle drops the numbers of the leaf view and not
its sizes, and a rebuild drops both.  That geometry types are finitely many is a
named assumption.

Two set representations are in this module too, for any objects, subdomains and
capacity: `ArrayImplementsSet` (the array without `remove()`) and
`SingleImplementsSet`.  Both say that the representation implements `SubDomainSet`
with what its iterator shows as the set, operation by operation as long as no
assertion fails, and that its queries agree with its iterator.  The array is right because its elements stand in ascending order
(`ArrayInv`): then the number of smaller elements is the place (`ValuesBelow`), so the
binary search of `contains` and `domainOffset` finds an element where it is
(`LowerBoundFinds`); sorting keeps the values and makes them ascend, from
which with no value twice it follows that they ascend strictly (`SortedRight`); the
merge of two arrays has no value twice, so its length is the number of elements of
the union, and what fits into the array is within the capacity of the set
(`UnionRight`, `DifferenceRight`).  What
lies behind the end of an array is never shown, although it is never cleared; this
fails with `remove()`, as the run `array_remove` shows.

`SubDomainGridLevelsProofs`, for any number of levels, subdomains, layouts and
objects: `LevelsOwned` and `LevelSetsAlwaysCurrent`, the references held by
SubDomainGrids.  The invariant `LevelsInv` adds that live and temporary objects
are all different (`ObjectsOwned`), that each live one holds the layout in use
and the prepared ones hold one layout (`LayoutsInPlace`), and that a reference at
a level of the grid is the live object of that level (`WrappersFollow`).  A swap
of containers then changes what all references show and none of the references.
Both are stated for `SettledSpec`.  Its condition `NoLevelReturns` is used in one
place, where `adapt()` adds a level that a SubDomainGrid has a reference for
already; the run `levels_return` shows that it cannot be dropped.

`ParallelMarkingProofs`, for any ranks, any distribution of cells, any ghosts and
any number of cycles, in two steps.

* `MessagesMeetTheirExchange`: a message does not say which cycle it belongs to,
  and a rank may be in an exchange that its neighbours have left or not yet
  reached.  `Place` numbers all exchanges, two to a cycle.  `ChannelsInStep`
  says that a channel holds exactly the messages of the exchanges that the sender
  has begun and the receiver has not taken from it, in order.  It is inductive
  together with `TypeOK`; that a rank waits for all `Sources` before it goes on is
  why the receiver's count is never behind by more than the exchange it is in.
* `CopiesAlwaysAgree` and `CopiesAlwaysCover`: the invariant `MarkingInv` says
  that there is a history `h[c][n]`, what the owner of the cell `c` gave it in
  its `n`-th update, from which all copies, sub-entities and messages follow
  (`Follow`).  A bound from below says that a copy has all it can have
  heard of (`Has`), a bound from above that it has nothing that was never given
  (`Within`).  The history is not a variable of the model: it exists, and a rank
  that enters `update()` extends it at one place (`FollowCommunicate`).  While nothing is
  removed the history grows and the two bounds meet, which is agreement; without
  that condition the lower bound alone is coverage.

In the same module, for `SubDomainGridExchange` and any order in which the host lists
shared entities: `DataAlwaysRead`, that `scatter()` hands to every entity what
`gather()` wrote for it.  Nothing in a stream says where the data of an entity
begins or which call it belongs to, and the two ranks decide on their own, maybe
a cycle apart, which entities take part.  `ExchangeInv` has three parts beside
`MarkingInv`.  `CallsInTurn`: a rank reads all streams of a call before its next
cycle.  `StreamsInTurn`: from `q` to `r` are on their way as many streams as `q`
is calls ahead.  `StreamsFollow`: each lists the entities that have the
subdomain in the history of the cells around them, at the index of its call.  A
layout of the past stays what it was, because a step of marking continues the
history and changes none of it (`HistoryStep`, `StreamKept`), and a rank between
two cycles has the layout of its own (`BetweenLayouts`).  So the reader lists what the
writer listed, whichever of them is ahead.

Then `loadBalance()`, for any ranks, cells and subdomains and a host that gives cells
to whatever ranks it likes, numbers them anew and sends their data, in any order, to
any ranks that did not own them.  `BalancedDataRead`: at each cell the
caller's `scatter()` reads the data its `gather()` wrote for this cell, on a
copy nothing else, on the new owner behind the subdomains, and never what belongs to
another cell.  `SavedAlwaysShown`: what a rank has saved for a cell is what the cell had on
that rank, stale entries of copies included, and still is when the owner's subdomains
have come in.  Both have the hypothesis `NothingCut`: the numbers of subdomains and
how many there are survive the union with the caller's data type; the instance of the run
satisfies it, and without it `SavedIsShown` fails (section 3).  `BalanceInv` says that every copy of a cell shows at least what the owner shows
(`ViewsInv`), which a marking cycle and a completed call establish whoever the owners
are, so what arrives is nothing new to a copy; and that a stream is `Readable`: some
layout explains all items and sizes left, of which the first cell's are in front
(`OneRead`), whatever rank reads them.  `ReadBack` says that `scatter()` undoes
`gather()` for one cell and leaves the rest.  The stream is a recursive function; `JoinsExist` gives the one that
satisfies its equation.

`SubDomainInterfacesProofs`, for any mesh of a view and any layout
(`MeshAssumption` is a hypothesis of the theorems: cells have at least two
intersections, and neighbours see each other through one):
`EveryInterfaceVisited` and `OwnSideAlways` for the loop over one interface,
`InterfacesAlwaysShown` for the loop over all.

* A search is a recursive function on positions.  What it finds has a closed form:
  the first (`FirstOf`) of what is `Ahead(p)`, the intersections in later cells of
  the first subdomain and the later ones of the same cell; for the other loop the
  `NextCell` with something to show.  The closed form satisfies the equation of the
  search, and any function that does is equal to it: there is no last position at
  which they differ.  So a search that passes over any number of cells skips nothing
  (`MoveIs`, `Arrive`), and `LoopInv` is inductive.
* `SideInv` adds that the cached intersection, while valid, is the present one from
  the other side; that the search for it finds the place the host reports is
  `InverseIs`.  `OwnSideAlways` is stated for `CallerSpec`: a caller who passes an
  iterator on before asking it gets a copy without `_hostCell`, see above.
* `PairsInv` says of the two iterators at an intersection that they have passed
  exactly what is smaller than where they stand; the second starts over with each
  step of the first.  The three outcomes of `increment()` each go to the
  triple that follows in order (`SecondMoves`, `FirstMoves`, `IntersectionMoves`).
  Order gives `InterfacesShown`: of an intersection that is behind both iterators all
  pairs were shown, of one the search did not inspect none.

`SubDomainViewProofs`, for any host grid, any layouts and any sequence of calls:
`WalksAlwaysStayInside`, `BoundaryAlwaysOfLeaves` and `IteratorsAlwaysVisit`.
`ViewInv` adds to `WalkStaysInside` that an iterator is at its end or at an
entity of its view that the view shows (`IteratorsInPlace`), and that an
intersection belongs to a cell of its view and has, once tested, its own type
cached unless the layout changed (`IntersectionsOwn`).  Each call moves the caller
to an entity for which the *next* question is asked of another index set: of
the leaf, of the own level, of the view of the intersection.  Why the answers
agree is geometry of the host, stated in `HostAssumption`: a child is one level
above its father, the vertices of a cell in a level view are on its level, and
`FacesAgree`, which says that neighbours see each other and that a face of a leaf
cell is also a face in the leaf view, with a leaf below the neighbour of the level
view behind it.  The last is what
makes `hasBoundaryIntersections()` right, which returns after the level view if it
found something there.  `Below` is a recursive function: `BelowFather` gives the
function that satisfies its equation, with chains of fathers, and `BelowGrows`
(what is below a cell is below its father) looks at the least level at which it
could fail.

`IteratorsAlwaysVisit` says that an iterator has passed the entities of its view
that are in the subdomain, each once and in the host's order, and at the end of a
view below a cell all leaves there.  `VisitInv` says it for a position in `Order`: what
was passed are the shown places before it (`PassedUpTo`), and the search for the next
one skips only places that are not shown.  That `Order` lists every entity once is
`OrderAssumption`.

In the same module the mapper, for any dimension, geometry types, numbers of
subdomains and of entities: `IndicesAlwaysDistinct`.  `update()` sums up the vector of
offsets once per codimension, so earlier sizes are counted repeatedly and nothing in
the result is a plain sum.  `RoomForAll` says what is still true: after the turn for a
codimension the offsets do not decrease, and between the offset of a type of this or
an earlier codimension and the next offset is room for all entities of the type.
Partial sums keep both (`PartialSums`, `SumsGrow`).  Distinct indices below `size()` follow
(`RoomSeparates`), with `MapperInv` for the time between a change of the grid and
`update()`.

`GridFactoryProofs`, for any number of elements and subdomains and any files:
`ElementsAlwaysKept`, `LayoutAlwaysOfFile` and `CountersAlwaysCover`.
`FactoryInv` says that either there is no grid and the host factory has all
elements (`NoGrid`), or there is one, kept or handed over, made for a number
the traits have room for, with exactly what the file and the caller want
(`OneGrid`).  The
reader sizes the grid by the largest domain in the file; that this is a bound
for all of them is proved from the definition of `Max`, with the order on numbers
well founded.  `CountersAlwaysCover` is stated for `FewSubDomains` traits
(`Kind = "few"`); `FactoryAssumption`, what the constants are, is a hypothesis.  With the other two `maxSubDomainIndex()` is the number of
subdomains itself, so the last domain of a file has no counter: TLC refutes
`CountersCover` for them.

## 5. Only model-checked, and not modelled

Every safety property of the runs is stated by a theorem but one part: that the
*bit set* does what a set does and answers as its iterator shows is only
model-checked, in the run `sets_and_factory`, because `IntegralTypeSubDomainSet` reaches
RECURSIVE operators through the bit operations, and those are out of the prover's
reach.  So are liveness under fairness (`LoopEnds`, `EveryUpdateEnds`, both checked by
TLC), ENABLED, and the library's induction theorems; the searches, sums and streams of
section 4 are proved by a least counterexample or by uniqueness of their solution
instead.  Some runs put components side by side and name their properties anew; the
theorem is then about the component:

| run | property | theorem |
|---|---|---|
| `sets_and_factory` | `AllQueriesAgree`, `AllImplementSet` | `ArrayImplementsSet`, `SingleImplementsSet` |
| `sets_and_factory` | `ElementsKept`, `LayoutOfFile`, `CountersCover` | `ElementsAlwaysKept`, `LayoutAlwaysOfFile`, `CountersAlwaysCover` |
| `readers` | `VisitsInterface`, `OwnSide`, `InterfacesShown` | `EveryInterfaceVisited`, `OwnSideAlways`, `InterfacesAlwaysShown` |
| `readers` | `IndicesDistinct` | `IndicesAlwaysDistinct` |
| `parallel` | `BalanceReadsItsOwn` | `BalancedDataRead` |
| `parallel` | `SavedIsShown` | `SavedAlwaysShown` |

Not modelled, or only in part:

* geometries, local geometries, entity seeds and the wrappers of a
  MultiDomainGrid hold one host object and forward every call; capabilities are
  compile-time constants.  There is no state to lose;
* capacities of the sets of single entities (see above): whether they suffice is a
  property of the host grid, not of this code;
* hosts that create or delete cells on a rank in `loadBalance()`: the layout is
  lost already when the host numbers cells anew (`RestoredIsShown`);
* inclusion of one array set in another, `std::includes` on two ranges that
  `QueriesAgree` shows to be ascending;
* the exchanges of the level views in `update()`, the same code on other views,
  and an exchange in which ranks have different numbers of levels;
* `globalRefine()` between `adapt()` and `postAdapt()`: what `isNew()` answers then
  is up to the host;
* copies of interface iterators that a caller keeps: they share iterators with
  the loop's own;
* parsing of a gmsh file, and host grids that do not list cells in the order of
  insertion;
* what happens after a failed assertion in a release build, and calls on level
  index sets that are switched off.

## 6. The plan

Modelled and checked: the life cycle with and without exceptions of the host, the
index sets and their queries, SubDomainGrids and what a caller walks through them,
the set representations, the interface loops, the mapper, marking on several ranks,
both kinds of data handles, load balancing, and the factory.  Proved: for the
life cycle type correctness, agreement of views, the maximum, the refinement of `SubDomainLayout`, and that failed calls
lose nothing and add nothing; for the index sets that indices are
consecutive, that sub-entities and levels follow the cells and that shared
sub-entities have one index, and that sizes count; that references of SubDomainGrids stay current;
that ranks take the right messages, agree and cover, and that data handles read
their own data; that both interface loops show what they look at once, each side its own;
that walks through a SubDomainGrid stay inside, that its iterators show what is in the subdomain, and that
mapper indices are distinct; that two of the set representations are sets; that
`loadBalance()` gives callers their own data and saves what the cells had; that the factory keeps elements and layout.

What is left, in this order:

1. a description of the bit operations that the prover can read, and with it
   the bit set;
2. larger instances: two subdomains and a fourth rank in `parallel`, a second macro
   cell in `failed_adaptation`;
3. the exchanges of the level views with ranks of different depth.
