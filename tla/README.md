# A verification project for suncatcher

suncatcher is a C++ library that answers two questions about a grid of cells
with costs and doors: *is there a path from a to b* in constant time, and *which
path is shortest*.  The map may be changed, and the first question keeps its
constant-time answer: areas of cells carry colours, and two union-finds over the
colours, one that sees every door closed and one that sees the open doors open,
are updated incrementally by every change.  Whether the incremental updates keep
those structures exact is the heart of the program, and of this project.

## 1. The system

| part | source | state | operations | what makes it correct |
|---|---|---|---|---|
| `MapImpl` | `src/MapImpl.cc`, `include/suncatcher/MapImpl*.hh` | cost and colour of each cell, the doors, two union-finds over the colours, two colour counters | construction from a builder, `update(mutator, incremental)`, `path_exists`, `is_passable`, `is_door`, `move_cost` | after any sequence of updates both union-finds name the areas of the present map; nothing distinguishes the map from one rebuilt from scratch |
| `MapMutator` | `MapMutator.hh`, `MapMutator.cc` | a list of mutations | `make_normal`, `make_door` | the last call for a cell is what counts |
| `UnionFind` | `util/UnionFind*.hh` | rank and parent tables, the handles of the elements, boost's raw pointers into the tables | `operator[]`, `at`, `union_sets`, `disconnect_all_sets`, copies and moves | objects stay independent partitions; no pointer into freed or foreign memory; finds may run at once |
| `MapBuilder`, `EuclideanGraphBuilder` | `MapBuilder.hh`, `graph/EuclideanGraphBuilder.*` | costs, doors | `cost`, `add_door`, reading a map from a stream | each character of the stream goes to the cell it stands for |
| `MapView` | `MapView.*` | a shared pointer to an immutable `MapImpl` | `path`, `path_exists`, `apply` | `path` is shortest, and exists iff `path_exists` says so; `apply` leaves older views as they are |
| `EuclideanPatherState` | `graph/EuclideanPatherState*.hh` | version, expanded, distance and previous of each cell | getters, setters, `clear` | `clear` forgets everything, although it only advances a one-byte version |
| `CowGrid`, `Grid` | `graph/CowGrid*.hh`, `util/Grid*.hh` | chunks shared between copies; an array | `at`, `fill`, copies | a write to one grid is not seen in another |
| delegates, polymorphic wrappers, `any_iterator` | `GraphDelegate*.hh`, `PathStateDelegate*.hh`, `graph/Polymorphic*.hh`, `thirdparty/any_iterator` | a pointer to an object that the handle owns; the temporaries of a range-for | copies by cloning, assignment, moves, conversions of iterators, `begin`, `end`, `++`, `==` | each object has one owner, and deleting it takes what it owns along (not so for states: section 6); behind their pointers the handles are plain values; a loop over `domain()` visits each cell once |
| the repl, `MicropatherGraph` | `src/tool/repl.cc`, `micropather/MicropatherGraph.hh` | the view, a copy of a view, the doors in order | the commands `p`, `d`, `w`, `x` | the two paths printed side by side are of one map |
| coordinates | `graph/EuclideanCoord*.hh`, `util/util.hh` | 16-bit row, column and layer | neighbours, order, numbering, ranges | the wrap-around of the arithmetic never lands in the grid |

How they interact.  A `MapView` hands its `MapImpl` to any number of readers;
`apply` copies that `MapImpl` (sharing the chunks of its `CowGrid`, copying its
union-finds), calls `update` on the copy and returns a new view of it.  Nothing
is locked: the class relies on its maps being immutable, and on two things that
are not quite so, the path compression in the const `UnionFind::at` and the
reference counts of shared chunks.  `path` asks `path_exists` first, keeps its
working state in an `EuclideanPatherState` that is reused from search to search,
and asserts that a search that was begun cannot fail.

**What is hard here.**  The incremental updates: union-finds cannot split, so
each change of a cell must find out which colours remain right (a wall that cuts
a room in up to four, a door that closes, two open doors side by side).  The
threads: finds that write, copies of tables that others write, chunks tested for
uniqueness before they are written.  The life-cycle of `UnionFind`: tables that
move while boost points into them.  The numeric edges: a version that wraps
every 255 searches, neighbours that wrap around 16 bits, a number of base 65535
for digits up to 65535, a colour supply that only a rebuild refills.  Nothing is
persisted and no messages are sent, so there is no recovery and no delivery to
model.

## 2. The modules

| module | models | composed with |
|---|---|---|
| `Connectivity` | what it is to be connected, without recursion: no saturated set of vertices separates the two | used by all modules on maps |
| `Partition` | what `UnionFind` promises to `MapImpl`: colours and representatives | `MapImpl`, `PartitionStore` |
| `MapImpl` | the map: `UpdateIncremental`, `UpdateAndRebuild`, `UpdateEmpty`, one operator per `incremental_*` helper, `Rebuild`, the queries | `MCMapImpl` gives it a grid |
| `Views` | `MapView`: views made, copied and dropped while `apply` works on a copy one mutation at a time | extends `MapImpl`; implements `Worlds`; `MCViews` gives it a row of cells |
| `Worlds` | abstract: a view is an unchanging picture, and a batch gives a new one by the last call for each cell | |
| `DisjointSets` | boost's `disjoint_sets` (external): link by rank, find with full compression | `UnionFind`, `MCConcurrentFind` |
| `UnionFind` | objects in memory: construction, empty or from a list, growth in place or by reallocation, copies, moves, destruction | implements `PartitionStore` |
| `PartitionStore` | abstract: each object is a partition of its own | |
| `ConcurrentFind` | threads inside `at()` and inside the copy constructor, one table access per step | `MCConcurrentFind` gives it every forest of four elements |
| `EuclideanGraph` | neighbours (diagonals included), `move_cost`, the estimate | `MCSearch` |
| `Search` | `MapView::path`, one turn of the loop per step | `MCSearch` gives it every map of a small grid |
| `PatherState` | the versioned state of a search | implements `PathMemory` |
| `PathMemory` | abstract: a memory reset at every `clear` | |
| `CowGrid` | threads that copy, write, share and drop grids, with the test of uniqueness and the write as steps of their own | implements `GridStore` |
| `GridStore` | abstract: each grid has contents of its own | |
| `Coordinates` | unsigned arithmetic, comparison, iteration, indices of cells and of chunks | `MapReader` |
| `MapReader` | the loop over the cells of a map, as the constructor that reads one from a stream goes through it | |
| `Delegates` | the polymorphic build: who owns the objects behind graphs, domains, iterators and states, and a range-for among all other operations | implements `Values` |
| `Values` | abstract: variables that share nothing | |
| `Repl` | the commands that change the map or ask for a path, and the `MicropatherGraph` beside it | on `EuclideanGraph` |
| `MapProofs` | lemmas and theorems on `MapImpl` and `Views` | extends `Views` |
| `UnionFindProofs`, `ConcurrentFindProofs`, `SearchProofs`, `DelegatesProofs`, `PatherStateProofs`, `MapReaderProofs`, `CowGridProofs` | lemmas and theorems on the module of that name | each extends that module |

**State.**  In `MapImpl` the whole object is one record, `map`, with the fields
of the class; each helper of `MapImpl.cc` is an operator of the same name from a
map to the map it leaves, so that `update` with a list of mutations is the
composition of `Mutate` over the list.  `MapImpl` takes the list one mutation at
a time; `Views` has whole batches: `BeginApply` copies the map of a view,
`ApplyOne` is one turn of the loop of `update`, and `EndApply` rebuilds if the
call is not incremental and gives the copy to a view.  Between these steps the
program makes, copies and drops other views.  In `UnionFind`, `heap` is the memory that is allocated and a vector's
memory is a *buffer*: whether growing moves a vector is left open, as its
capacity decides, and the raw pointers of boost are the field `uf` of each
object.  In `CowGrid`, `chunks` holds pointers to blocks of `heap`, and a
thread's `write` says how far in `at()` or `fill` it is.  In `Search`, the queue
may give any entry of the least cost.  In `Delegates`, `holds` has the pointer of
each living handle, `heap` the objects, and `grids` says which states' vectors are
there; addresses of deleted objects are used again, the lowest first, unless
such vectors still take them.  `Drop` is the end of the scope of any handle.
`PatherStateDelegate` deletes its state, there and in its implicit move assignment
(`AssignState`), through `PatherStateInterface`, which has no virtual destructor
(`PatherStateInterface.hh:22`): `Delete` leaves open whether the vectors go
with the object, or stay without an owner, as they do in a build that runs the
destructor of the interface alone.

**What is abstracted.**
- *Flood fills* are modelled by the area they reach, not cell by cell.  What
  restarts them, in which order and with which colours, is modelled.
- *Representatives.*  Which member stands for a class is an arbitrary but fixed
  choice in `Partition`; `MapImpl` only compares representatives.  `UnionFind`
  and `ConcurrentFind` have the real forest.
- *Lengths* of moves are in tenths (10 straight, 14 diagonal) in place of
  floats.
- *Atomicity.*  Reads and writes of one word of the shared parent table are
  atomic and seen by every thread at once; weaker memory orders, which the C++
  standard would allow for this race, are not considered.  `shared_ptr` counts
  are exact.
- *Indices* into arrays are unbounded integers: products beyond 2^31 cells,
  which the code computes in `int`, are not modelled.  Coordinates keep their
  width (`WIDTH`, 65536 in the code).
- *Iterators.*  A domain gives single-pass iterators, and these convert to the
  incrementable ones only; the classes of `any_iterator` for stronger traversals
  are never instantiated.
- *The repl's view* is what it shows of a map (`Views` is where a view is shown
  to be that), and a path is its length (`Search` finds it).
- *The stream* has a character for each cell; the reader asserts as much.

## 3. The runs

Each run is the configuration of its name.

| run | shows | instance | distinct states |
|---|---|---|---|
| `maps` | `DoorsAgree`, `StaticExact`, `PathExistsExact`, `IInv`, `AgreesWithRebuild`, `MutationsShow`, `NoColorWasted`: colours, doors, costs and both union-finds tell one story after every mutation, and each mutation leaves every cell what it should be | 2x3 cells; in one floor plan a square of four changes, in the other a junction of three that splits its room in up to three | 27616 |
| `views` | `PrefixShown`, `ViewsAnswer`; `ViewsShowWorlds` (implements `Worlds`): batches, snapshots, and answers that depend on what a view shows and on nothing else | a row of two cells, two views, batches of up to two mutations | 894537 |
| `delegates` | `OwnedOnce`, `LoopVisitsDomain`; `IndependentValues` (implements `Values`) | two graphs, two domains, three iterators of two classes, two states, five addresses | 316155 |
| `union_find` | `PointersOwn`, `CountSetsExact`, `ShallowForest`; `IndependentPartitions` (implements `PartitionStore`) | two objects, three elements, five buffers, lists of one or two elements | 7464 |
| `concurrent_find` | `RootsStand`, `FindsRoot`, `CopyLeadsToRoots`; `CallsReturn` | two threads, every forest that unions of four elements leave | 106272 |
| `search` | `NeverLost`, `ExpandedIsSettled`, `ReturnsShortest`, `ReturnsWalk`; `PathReturns` | every map of 2x3 cells with costs 1, 3 and impassable, every pair of cells | 80956 |
| `pather_state` | `VersionsPast`; `ClearForgets` (implements `PathMemory`) | two cells, a version of two bits | 2316 |
| `cow_grid` | `TypeOK`, `WritesUnique`; `IndependentGrids` (implements `GridStore`) | two threads, three grids, one chunk of two cells, five blocks | 39387 |
| `map_reader` | `ReadInStep`, `StaysInside`, `EachCellItsCharacter`, `NeighborsExact`, `ToNumberTellsApart`; `ReadsWholeMap` | coordinates of two bits, every number and size of chunks | 8192 |
| `closed_cost` | `DoorsAgree` is violated (section 5) | 1x2 cells | |
| `repl` | `LengthsAgree` is violated (section 5) | 2x2 cells, one of them a door or not | |
| `search_zero_cost` | `ReturnsShortest` is violated (section 5) | 2x3 cells, costs 0 and 1 | |

**The bounds, and why they are enough.**
- *Maps.*  A square of four changing cells has cycles, doors side by side, and
  rooms that split in two and meet again around a corner; the junction is the
  least cell at which a fill restarts twice and may find a neighbour another fill
  reached.  Changing all six cells, or a split in four, which needs a 3x3 grid, is
  beyond TLC; the theorems of section 4 cover every graph.
  `COLOR_MULTIPLE` = -7 leaves four colours for doors, -5 two; `MaxColor` (8, 4
  and 3) and `most` (5, in the square) bound the component colours.
  `ColorsLeft`, the guard of the updates, names this bound and stands for a supply
  of 2^31 colours that the code does not check.  A rebuild refills it, so
  histories are unboundedly long all the same.  That colours stay in range, which
  `IInv` has among its parts, therefore holds by the guard: no property here would
  notice a history that runs out of them (section 6).
- *Views.*  Two views are the one that `apply` is called on and the one that is
  made, dropped or overwritten meanwhile; two mutations are the least batch in
  which calls for one cell follow each other or calls for two cells commute.  The
  row looks the same from both ends, so batches begin in cell 0.
- *Delegates.*  Five addresses: a loop over a graph takes three objects besides
  the graph, and one is left for its body; states that are deleted leave their
  grids in up to all five.  The `VIEW` of this run drops the
  numbers of addresses: what an operation does to the values and to the sharing
  does not depend on them.
- *Costs.*  Code of `MapImpl` tells only finite from infinite costs apart, hence
  {1, 255}.  The search adds costs up, hence a cheap and a dear one.
- *Union-find.*  Two objects are enough for every pointer into a foreign table;
  three elements grow the tables twice; five buffers are one more than two
  objects hold, so that growth finds a free one and addresses are used again.
  Forests of four elements have the paths of two edges that compression
  shortens.
- *Coordinates.*  With two bits, all of wrap-around, empty ranges, the full
  width and sizes that overflow occur; the theorems hold for each width.
- *Version.*  Two bits wrap after three clears, several times in a run.

**Symmetry** is used where the members are interchangeable (`union_find`,
`cow_grid`, the graphs and the states of `delegates`), in runs without liveness.  **Deadlock** is checked except in `search`,
`search_zero_cost`, `map_reader` and `repl`, where the loop really ends.

**Fairness.**  The specifications of `MapImpl`, `Views`, `UnionFind`,
`PatherState`, `CowGrid`, `Delegates` and `Repl` have none: their callers may stop calling.  `ConcurrentFind` assumes that a
thread *inside* a call keeps being scheduled, and nothing of threads outside;
finds wait for nobody, and the property is that compressions of other threads
cannot keep one going for ever.  `Search` and `MapReader` are sequential loops
without a wait, and weak fairness of the next step says only that they run.

## 4. The theorems

All are proved for every value of the constants, under the assumptions each
module names.

**`MapProofs`, on `MapImpl`**: `Invariance`, `TypeCorrect`,
`DoorsAlwaysAgree`, `StaticAlwaysExact`, `PathExistsAlwaysExact`,
`AlwaysAgreesWithRebuild` -- on every finite graph with symmetric neighbours
(`CellAssumption`, `AdjacentAssumption`), under two hypotheses: `EnoughColors`
(a rebuild of the map fits in the colours) and `ClosedDoorsBlock` (builders give
closed doors an infinite `cost_closed`; without it the properties are false, as
the run `closed_cost` shows).

The properties alone are not inductive.  `closed_door_to_open_door` unites the
*dynamic* components of *static* representatives, and this is right only while
each dynamic component is a union of static ones; nothing in
`PathExistsExact` says so.  The inductive invariant `IInv` adds that
(`Coarsens`), and states exactness by `Labels`: the ends of an edge have one
label and no saturated set separates two vertices of one label.  In that form
one lemma on labels serves for each helper:
- a cell joins its neighbours (`LabelsJoined`, `UniteNewVertex`): a wall becomes
  clear, a door opens;
- a set of links is united (`UniteLabels`, `UniteCoarser`): the dynamic
  components are regenerated;
- a cell leaves and the fills from its neighbours rename what they reach
  (`CutReached`, `CutLabels`): a clear cell becomes a wall.  The lemma's content is
  that the areas reached are whole areas of the new map, so that what keeps the
  old colour is connected without them.

Each helper then has a lemma (`...Good`) that it leaves a consistent map;
`MutateGood` puts them together, `RebuildGood` does the same for the rebuild by
counting areas and doors, and `Invariance` is their sum.

**`MapProofs`, on what shows**: `MutationsAlwaysShow` -- the costs and the doors, which a
caller sees, rather than the colours behind them.  A lemma (`...Shows`) says
what each helper writes, `MutateShows` puts them together, and the invariant adds to
`IInv` that doors keep an infinite `cost_closed`: a mutation of a door that is
there already leaves the `cost_closed` the door had, and so shows what it asks
for only because that is what a new door would have.

**`MapProofs`, on the colours taken**: `NeverColorWasted` -- a step leaves no component
colour it takes unused, by a lemma (`...Wears`) per helper.  It needs that ranks
leave no gap (`RankOnto`: an injection between finite sets of one size reaches
all of the second), that each fill of a new wall colours at least the neighbour it
starts from, since none before it came there (`TransparentToWallWears`), and that
`create_door`, which colours its own cell after those fills, takes no colour
from them.

**`MapProofs`, on `Views`**: `ViewsInvariance`, `PrefixAlwaysShown`,
`ViewsAlwaysShowWorlds` (the refinement of `Worlds`) and `ViewsAlwaysAnswer`,
under the same two hypotheses, for any number of views and batches of any
length.  The invariant `ViewsInv` says that each view's map is consistent, that
the copy the running call works on is, and that this copy shows the batch up to
where the call is.  The step
of `apply` needs that a prefix with one more call changes one cell of the
picture (`AfterOneMore`), which is where "the last call for each cell" meets
the loop; the answers then follow from `PathExistsCompares`, which holds of any
consistent map.

**`UnionFindProofs`**: `Invariance`, `AlwaysPointersOwn`, `AlwaysShallow`,
`AlwaysCountsSets`, `BehavesLikePartitions` (the refinement of `PartitionStore`)
-- for any sets of objects, elements, lists (`ListsAssumption`: not empty and
without repetitions, as the constructor is used) and addresses.  The invariant
`UFInv` has two halves.
- *The tables* (`Tabled`, `PointersOwn`): every buffer has one owner and every
  owner two buffers, unless its value was moved away.  All calls that write an
  object's tables, in place or in new buffers, have the form `Assigns`, and one
  lemma (`Assigned`) says that in that form nothing of another object changes;
  `Moved` and `Destroyed` are the other two ways a buffer changes hands.
- *The forest* (`Sound`): the ids number the elements, ranks grow along the parents
  (`Forest`) and a root of rank r has at least 2^r ids under it (`Heavy`).  The
  ranks are what makes `Root` and `Path` well defined: recursive functions are
  reached through the least counterexample (`UpTheParents`, `ClimbExists`,
  `RootIs`), the measure being how far the rank is below the greatest.  Then a find
  moves no root (`CompressSound`), a link makes one of the two roots the root of
  both trees and doubles the ids when it raises a rank (`LinkSound`, `LinkHeavy`),
  and a new element is a tree of its own (`AddSound`).  That 2^(n+1) is twice 2^n
  comes from counting subsets (`TwicePower`).

That `PartitionStore` is implemented then needs the tables of the object alone,
call by call (`...Step`).  Finds, and the destruction of an object whose value was
moved away, change no partition.

**`ConcurrentFindProofs`**: `Invariance`, `RootsAlwaysStand`, `AlwaysFindsRoot`,
`CopyAlwaysLeadsToRoots` -- for any threads, any table `ForestAssumption` admits
(parents lead to roots by growing ranks) and any interleaving.  The invariant
says that every id in a thread's hands is under the root of the id asked for;
the ranks, which no find changes, keep compression from making a cycle.

**`SearchProofs`**: `Invariance`, `NeverIsLost`, `AlwaysReturnsWalk`,
`ExpandedAlwaysSettled`, `AlwaysReturnsShortest`, `CornersLinkNothing` -- for any
finite map and any natural estimates and lengths (`CellAssumption`,
`MapAssumption`), some bound of which times the number of cells is below
`INFINITY` (`InfinityAssumption`), and whatever of the cheapest entries the queue
gives.
- The invariant `IInv` says what each expanded cell has done for its neighbours
  (`Opened`), that a cell that is reached and not expanded waits in the queue at
  its present key (`Queued`), that distances stay below `INFINITY` (`Bounded`), and
  that the trail of `prev` from any reached cell leads back to the source through
  expanded cells, each as far on as the move between them (`Traced`).  Without
  `Traced` the loop that reads the path back could run in circles; without `Queued`
  the queue could run dry while the target is still to be found.
- `NeverIsLost` adds `LinkedAssumption`: what `path_exists` links is closed under
  moves.  `path_exists` follows Manhattan moves and the search cuts corners, so
  this is a theorem on grids of its own, `CornersLinkNothing`.
- *Shortest* is about estimates.  `Ordered` says that no open entry is below the
  last key expanded, and `Frontier` lemmas that any shorter walk to the target
  would have to leave the expanded cells at an open one whose key is at most its
  length.  Both need that no move gains more on the target than it costs
  (`Consistent`), and so do the two theorems, as a hypothesis and not as an
  assumption of the module: the code does not guarantee it, which is what the run
  `search_zero_cost` shows.  It holds of the lengths of the code on any map whose
  costs are 1 or more, by the triangle inequality; of the tenths of the model it
  holds on the grids that are checked (`ConsistentAssumption` of `MCSearch`), and
  no longer on very large ones, 14 being a little less than 10 times the root of 2.
- Distances (`Within`) and lengths of paths (`LengthOf`) are recursive functions;
  that they are defined goes by the least counterexample.

**`DelegatesProofs`**: `Invariance`, `AlwaysOwnedOnce`, `LoopAlwaysVisitsDomain`,
`BehavesLikeValues` (the refinement of `Values`) -- for any handles of the four
classes, no handle being of two of them (`KindAssumption`: a variable has one
type), and any addresses.  The invariant is that each handle holds nothing, if it
is one that may, or one object of its class (`Held`), that no object is held twice
(`Apart`) or by nobody (`Reached`), that of the living just the states have grids
(`Furnished`), and `Looping`: at each place of the range-for, which temporaries
live and what they show.  `OwnedOnce` alone would not do: that the
body of the loop, which may do anything to all other handles, leaves the
temporaries as they are follows from `Apart`, and that the loop ends after as many
turns as the graph had cells, from the size its iterators were made with.
`AlwaysOwnedOnce` is about objects: of what a state owns it says that it is there
while the state is, and not that it goes with it, which is false.

**`CowGridProofs`**: `Invariance`, `TypeCorrect`, `WritesAlwaysUnique`,
`GridsAlwaysIndependent` (the refinement of `GridStore`) -- for any threads and
blocks, and for finite sets of grids and of chunks (`SizeAssumption`: the count
of a shared pointer is a number).  `WritesUnique` is not inductive: the
invariant adds that a thread which has tested writes a grid of its own, which
nobody can copy until it is shared (`Turn`); that the chunk a thread has made and
not yet assigned is a copy of the one it replaces, and *stays* one although other
threads write meanwhile, since whatever they write is theirs alone; and that
what is allocated is exactly what is pointed at (`Counted`), so that no drop in
another thread frees what this one is about to write.

**`PatherStateProofs`**: `Invariance` (no cell is of a version yet to come) and
`ClearAlwaysForgets`, the refinement of `PathMemory`, for each width of the
version.  The reset at the wrap is what keeps `Stale` exact, so the
invariant is about versions against the current one.

**`MapReaderProofs`**: `Invariance`, `AlwaysStaysInside`,
`EachCellAlwaysItsCharacter`, `NeighborsAlwaysExact`, `ToNumberAlwaysTellsApart`
-- for each width of a coordinate and each number and size of chunks.  The
invariant is that as many characters have been read as the index of the
iterator says; the proofs go by the order of numbers by their digits (index and
`to_number` are both three-digit numbers) and by division with remainder for the
place in a chunk.

**Only model-checked**: all liveness (`CallsReturn`,
`PathReturns`, `ReadsWholeMap`), since liveness under fairness and `ENABLED` are
beyond the prover; and the sequence of commands of `Repl`, whose one property is
violated.  The properties of recursive functions that are used above are proved
without the induction rules of the library, which take an operator as a parameter
that none of the provers can instantiate: a least counterexample does instead.

## 5. Where the code and its documentation part

- **`closed_cost`.**  `is_passable` (`MapImpl-inl.hh:119`) decides by the cost and
  asserts that a door is passable exactly when it is open.
  `EuclideanGraphBuilder::add_door` gives the cell of a closed door its
  `cost_closed`, documented as "cost to walk through when closed"
  (`Door.hh:36`).  With a finite one the assertion fails; in a build without
  assertions, `path` can walk through the door and no component says so.
- **`repl`.**  `platform.hh:47` says that the repl is able to delta against
  MicroPather for sanity.  It makes its `MicropatherGraph` once
  (`repl.cc:93`), which keeps a copy of the view (`MicropatherGraph.hh:40`, `:88`);
  `d` and `w` assign a new view to `my_map` (`repl.cc:165`, `:186`), and from then
  on MicroPather answers for the map as it was read.
- **`search_zero_cost`.**  `MapView.hh:61` promises the shortest path.  The
  estimate is the straight distance as if every cell cost at least 1; with cells
  of cost 0, which the tests use (`test_layers.cc:81`), it is more than what is
  left to go and `path` returns a longer path.

## 6. What is not modelled

- `CheckedMutator`: `MapView.cc`, the repl and the tests include it, but the
  repository has neither its header nor its source.  `MapView::apply` only turns it
  into a `MapMutator`; `Repl` says what it takes it to refuse.
- Printing of maps and components, the commands of the repl that only print, and
  the third-party `micropather`: pure output, and a search that the program only
  compares with (what its `Solve` returns is an external definition of `Repl`).
- The forward, bidirectional and random-access parts of `any_iterator`, which
  nothing instantiates, and its metaprogramming, which has no state.
- The harness of the tests, except its oracle `DeltaMap::check_invariant`, which is
  the property `AgreesWithRebuild`.
- The vectors of a deleted state beyond their being left or not.  Deleting through an
  interface without a virtual destructor is undefined; `Delegates` has the
  object's storage given back and the vectors kept or given back, which is what a
  build with an allocator that is not told sizes, or does not use them, can do.  A
  program disturbed in any other way is outside of the model.  No doc or test of
  the repository speaks of it, so there is no property for it to violate; the
  defect is listed among the hazards.
- Running out of colours.  `next_component_color` (`MapImpl.cc:96`) and
  `next_door_color` (`MapImpl.cc:202`) are used unchecked; `ColorsLeft` keeps the
  models from the end of the supply, and `EnoughColors` says of a rebuild that it
  fits.
- The container inside `MapMutator`; a whole `Grid`, which is just its array.
- `int` overflow of array sizes beyond 2^31 cells.

## 7. The plan

Done: the map and its union-finds, modelled, checked and proved; views, batches
and snapshots; the memory and the forests of `UnionFind`; concurrent finds and
copies; the search and its state; copy on write; the delegates and their
iterators; the repl; coordinates and the loop over a map.  Every safety property of
a passing run is a theorem.

What is left, in this order:
1. That the lengths of the code, real numbers, are `Consistent` when costs are 1 or
   more: a triangle inequality over pairs of integers (whole steps and diagonals).
2. `FloodFill`, cell by cell, as an implementation of the `Areas` that `MapImpl`
   takes it to reach.
3. `path_exists` on coordinates outside of the map: `MapView.hh:66` says
   "Invalid inputs result in false", and the access to the grid is not checked.
