# A verification project for the terrain mesh generator

`lonestar/graphgrammar2` turns an elevation map into a triangle mesh. It starts
from two triangles and, `config.steps` times, marks the triangles the terrain
deviates from by more than a tolerance and rewrites the mesh with the six
productions of a hypergraph grammar (longest-edge bisection in the style of
Rivara). The mesh is a Galois `MorphGraph` and both loops are `galois::for_each`
loops: iterations run speculatively on several threads, a node is locked when it
is first touched, and an iteration that meets a node locked by another is
aborted and tried again. **Nothing an aborted iteration has written is undone.**

This directory holds TLA+ modules for that program and for the parts of the
Galois runtime it runs on, configurations that check them with TLC, and proofs
for TLAPS. `PROJECT.json` maps each definition to the lines it models and lists
the components, the runs, the mutations each property is known to detect, and
the hazards of the code.

## Parts of the system

| part | source | module |
|---|---|---|
| productions, `ProductionState`, `ConnectivityManager` | `graphgrammar2/src/productions`, `model`, `utils` | `Geometry`, `MeshGrammar`, `MeshProperties`; ties within `EPS` in `LongestEdges` |
| main loop | `GraphGrammar.cpp` | `MeshRefinement` (any order), `SequentialMesh` (one thread), `ParallelMesh` (threads and locks) |
| initial mesh | `utils/GraphGenerator.h` | `MeshInit` in `MeshGrammar` |
| refinement criterion | `conditions/TerrainConditionChecker.h` | `TerrainCondition`; a parameter of the mesh modules |
| SRTM reader, elevation map | `readers/SrtmReader.cpp`, `model/Map.cpp` | `SrtmReader`, `ElevationMap`, `Rounding`; a parameter of the mesh modules |
| coordinate conversion | `utils/Utils.cpp`, `libmgrs/` | `Conversion`: the state its calls share |
| graph writer | `utils/MyGraphFormatWriter.h` | `MeshWriter`; its locks in `ParallelMesh` |
| `for_each` | `runtime/Executor_ForEach.h` | `ForEach`; its promise is `UnorderedSet` |
| worklist | `worklists/Chunk.h`, `WorkListHelpers.h` | `ChunkedWorklist`; its queues are `LinkedQueue`, their promise `Fifo` |
| termination detection | `substrate/Termination.h` | `Termination` |
| locks and contexts | `src/Context.cpp`, `runtime/Context.h`, `PtrLock.h` | `LockManager`; its promise is `NodeLocks` |
| barriers | `src/Barrier_*.cpp` | `TopoBarrier`, `CountingBarrier`; their promise is `Barrier` |
| thread pool | `src/ThreadPool.cpp`, `ThreadPool.h` | `ThreadPool` |
| topology of the machine | `src/HWTopoLinux.cpp`, `ThreadPool.h` | `Topology` |
| nodes of the graph | `graphs/MorphGraph.h`, `Bag.h` | `InsertBag`; what its methods lock, in `ParallelMesh` |
| distributed and GPU libraries, other benchmarks | `libdist`, `libgluon`, ... | no: the program does not use them |

The modules stack up:

    MeshRefinement = main loop over MeshGrammar, properties in MeshProperties
    MeshRefinement  <=  SequentialMesh         (one thread, fixed order)
    MeshRefinement  <=  ParallelMesh           (threads, locks, aborts)
    UnorderedSet  <=  ForEach = ChunkedWorklist + Termination + Topology
    Fifo          <=  LinkedQueue              (store buffers, a lock)
    NodeLocks     <=  LockManager              (bit, owner, intrusive lists)
    Barrier       <=  TopoBarrier              (trees over the sockets)
    Barrier       <=  CountingBarrier          (proved)
    MeshWriter    = writer over InsertBag
    ElevationMap  = heights over SrtmReader

`A <= B` means that `B` implements `A` under a refinement mapping. TLC checks it,
except for `CountingBarrier`; TLAPS proves it for `ForEach`, `LockManager` (safety)
and `CountingBarrier`. The promises say what the module
above relies on: `ForEach` takes a queue's push and pop, the release of an
iteration's locks and the barrier before `go` as single steps.

## How the models correspond to the code

**MeshGrammar.** A vertex node is `<<x, y, z, k>>`: position, height, and `k`,
the number of vertices that were at the position before (so that two vertices
created at one place stay two). An interior is the triple of its vertices in the
order of its edge list, which is the order in which productions number the
sides. `edges` gives the border flag of each edge; a side without an edge is
broken. `toRefine` and `hanging` are the flags of `NodeData`. The operators
`P1Edges` ... `P6Edges` are the applicability tests and the choice of the edge,
`BreakElementWithHangingNode` and `BreakElementWithoutHangingNode` the two ways
of rewriting. Stored lengths are recomputed (vertices never move). The middle
points stored in edges are left out: nothing reads them. The position of an
interior, the centroid of its triangle, is left out too: it is printed by the
writer, and `findNodeBetween` compares it with a middle point, to which it is
equal only in a triangle without area.

*Lengths.* They are compared as exact squares on an integer grid.
`SumLess` decides `sqrt(a) + sqrt(b) < sqrt(c)` without roots. On these grids two
different lengths differ by more than `EPS`, so the tolerance has no effect.
`LongestEdges` is about lengths that are nearly equal.

**MeshRefinement.** `CheckConditions` is the first loop, `Iterate` an iteration of
the second: `Commit`, `Pass` (removed node, or no production applies), or
`AbortAfterWrite`. The last one exists because the operator calls `afterStep`
after a successful production, and `afterStep` locks every node: when that
conflicts, the mesh is rewritten but the new triangles are not pushed. The
criterion may answer anything, but the same for the same triangle; the terrain
may have any height at a position out of `Heights`. Iterations on vertices
return at once and are left out.

**SequentialMesh.** With one thread the order is fixed: the graph's `InsertBag`
lists nodes in the order of creation, and the chunked worklist is a queue.

**ParallelMesh.** An iteration locks its item (`basicCondition`), then the three
vertices (`ProductionState`), then the neighbours of a broken side's ends
(`findNodeBetween`), then writes, then locks everything (`afterStep`). What one
method locks is locked in one step: a method that fails half way has changed
nothing but its own locks, which the abort releases. `written` records what an
unfinished iteration has changed, so that the mapping to `MeshRefinement` can
subtract it: an iteration takes effect when it ends.

**ForEach.** One step is one access to shared state: a push, a look at one
socket's queue, an acquisition, a release of an iteration's locks, one write of
the token. The operator is any cautious one, given by the locks and the pushes
of each item. The path without conflicts (`runQueueSimple`) is that of
`SequentialMesh`. `retries` is kept below 4 since the policies only use its
parity. `Limit` is the 64 of `go`.

**LockManager.** The word of a `PtrLock` is a bit and an owner, read and written
separately as `try_lock`, `setValue` and `getOwner` do. `next` is the link inside
a `Lockable`, `locks` the head of a context's list. An iteration takes locks
until it commits or meets a conflict, and then releases them one by one, in the
order the code marks with "ORDER MATTERS".

**LinkedQueue.** Each thread has a store buffer, as x86 processors have; a locked
operation and an unlock come after the thread's earlier stores. `pop` looks at
`tail` without the lock first. `Contents` is the queue that memory and all
buffers together describe.

**Topology, TopoBarrier.** The machine is a variable that never changes, so that
one run covers several. `wait` is one step per access to a shared word: a report
to the socket or to its parent, a wake-up down the second tree. Senses are
counted modulo `2^SenseBits`. `Reinit` changes the number of threads while nobody
is inside. `CountingBarrier` is of the same kind, with one counter.

**ThreadPool.** `Call` is one of `run`, `burnPower`, `beKind`, `runDedicated` and
the destructor, which are sequences of runs. A worker waits on its condition
variable, asleep or about to look at `done` (it may wake up by itself), or spins
on `fastRelease`. The work of a run is called when the wake-ups have come down the
tree, and the run ends up the same tree. A call names any number of threads up to
`MaxThreads`, since `setActiveThreads` limits it when it is called and
`runDedicated` does not limit it again; `runInternal` does, when the run starts.
In fast mode no loop runs on more threads than `burnPower` was called for.

**InsertBag, MeshWriter.** A chunk is `dend` and how many of its elements are
constructed. The iterator is a thread, a chunk and a place, moved as
`increment`, `advance_local`, `advance_chunk` and `advance_thread` move it.
`MeshWriter` adds what the places hold, and the walk of `writeToFile`: numbers for
vertices and triangles in the order they are met, edges with these numbers.
Removed nodes, which the graph's iterator skips, are not there.

**SrtmReader, ElevationMap.** Borders are whole numbers of parts of a cell. A cell
of the map holds the position in the terrain that its value was read from, so a
misplaced read shows as a wrong position. Names of tiles are their south-west
corners. `get_height` gives the weight of each cell, in squares of parts. Heights
are asked for inside the rectangle and up to a cell outside: the mesh's edges are
straight in UTM, and a border edge is a chord that leaves its parallel, on a
rectangle of one degree by more than a cell.

**Conversion.** The projection's parameters are static variables of
`libmgrs/tranmerc.c`. All threads set them to the same values, but the range they
test against is set in several writes, two of them increments; each read and
write is a step.

**LongestEdges** has the two functions that choose longest edges with a
tolerance, the loop of one as a state machine. **TerrainCondition** has the two
loops of `inside_condition` over the grid; areas are doubled and heights
multiplied by the triangle's area, so that all numbers are whole. The tolerance of
`is_inside_triangle` is modelled: a point counts as inside as long as its weights
are above 1 by less than `EPS` in sum.

## What is checked

| run | instance | shows |
|---|---|---|
| `mesh_steep` | a 32 x 8 strip with three peaks, two steps, any order, aborts | the mesh properties below; termination |
| `sequential` | a square, every terrain with heights 0 and 90, three steps | one thread implements `MeshRefinement`, ends |
| `parallel` | a strip with two peaks, two threads, two steps | snapshots stay current; `MeshRefinement` is implemented |
| `cautious` | the same | **violated**: an iteration meets a conflict after writing |
| `foreach` | two threads, four items, conflicts, pushes; on one socket (`doublePolicy`) and on a machine with three (`basicPolicy`) | `UnorderedSet` is implemented; the loop ends |
| `foreach_sockets` | three threads on two sockets, numbered alternately | the same, with stealing between sockets |
| `topo_barrier` | seven threads on six sockets, two rounds, changing numbers of threads | `Barrier` is implemented: nobody leaves early, all leave |
| `lock_manager` | three contexts, three nodes | the assertions of `Context`; exact lists; `NodeLocks` is implemented |
| `linked_queue` | three threads, three chunks, store buffers | `Fifo` is implemented; what a `pop` without the lock may miss |
| `thread_pool` | five threads, three calls | each thread works once in a run and is woken the way it waits; calls return |
| `mesh_writer` | three threads, two triangles in every order of creation and of edges | iterators visit each element once; the file has the right edges |
| `terrain` | every rectangle on three by three tiles | cells and heights are of their places; the reader ends |

The properties of the mesh, which hold between any two iterations:

- `OnlyFirmEdgesBreak`: an edge is broken only while neither of its ends hangs.
  Productions 1 and 3 test this for inner edges; for border edges and in
  production 5 the code does not test, and need not.
- `BrokenSidesHaveTheirNode`: a broken side has exactly one node half way that is
  joined to both ends, so `findNodeBetween(...).get()` is never taken of nothing.
- `OneVertexPerLocation`, `TrianglesTile`: an edge is broken once, and the
  triangles tile the terrain.
- `HangingFlagsAreExact`: the flag is set on exactly the nodes on broken sides.
- `NeverStuck`: while a node hangs, some triangle with a broken side can be
  rewritten; production 3's refusals never block everything.

Of the loops: `ImplementsUnorderedSet` (each item once, and the end announced
only when none is left anywhere), `NothingAfterTermination` (the assertions of
`localTermination`), `Terminates`.

Of what is below them: `AssertionsHold` and `ListsAreExact` (no lock is leaked or
in two lists, though the lists run through the nodes); `OnlyUnseenPushesAreMissed`
(a queue that looks empty without the lock lacks only what another thread has
just pushed); `EachThreadOnce`, `WokenAsTheyWait`, `PoolTypeOK` and
`CallsReturn` of the pool. Of the data: `OnlyElements` and `ReadsAllElements` of
the bag; `VertexEdgesAreWritten` and `TrianglesAreWritten` of the file;
`CellsAreTheirPositions`, `OutliersAreReplaced`, `InterpolatesInside`,
`HeightsAreOfTheirPlace` and `ReadingAdvances` of the terrain.

No run checks `TypeOK`, `BorderIsFirm` and `BrokenSidesAreFirm` of the mesh or
`ManagerTypeOK` of the locks: they are proved, and the runs are kept to what is
not.

`cautious` is a disagreement with the documentation. `docs/tutorial.dox` says
"Operators must be cautious: All locks should be acquired successfully before the
first write to user state"; the call of `afterStep` in `GraphGrammar.cpp:105`
breaks this. `mesh_steep` and `parallel` show what it costs: the mesh stays
correct, since the retried item is no longer in the graph; but the triangles the
iteration pushed are dropped and wait for the next step.

### Observations outside the runs

Modelling met some behaviours that the runs' instances or properties leave out.

- `afterStep` walks the bag while others insert, and `Bag.h` says "reading the bag
  can only be done serially". With `Serial = FALSE` TLC shows an iterator at a
  place without an element: `emplace` links a chunk before it has one.
- `runDedicated` clears `done`, and `wakeup` clears it again. A worker that wakes
  up by itself in between answers the first, and the caller waits for ever.
  `CallsReturn` excepts this wait.
  In fast mode it may also wait for a thread that does not spin.
- `runInternal` asserts that `masterFastmode` is 0 or the number of threads of the
  run (`ThreadPool.cpp:215`). This does not hold: `test/wakeup-overhead.cpp` sets
  the active threads, dedicates one, and calls `burnPower(getActiveThreads())`,
  after which a run has one thread less. Nor does it hold when a loop runs on fewer
  threads than are in fast mode. The default build leaves the assertion out, and
  nothing depends on it: `WokenAsTheyWait` is what the wake-ups need, and it holds
  in these cases. With more threads than are in fast mode it would not.
- The run that shuts the pool down returns before all threads have called its
  work, which is a local variable of `run`.
- When several threads have created nodes, a triangle can come before its vertices
  in the bag; the writer then numbers a vertex as a triangle.
  `TrianglesAreWritten` excepts these orders.
- `floor2` of a negative number that is not whole is one more than the number
  rounded up (1 for -0.3), so beyond the north and west borders, where the mesh
  does ask for heights, the weights of `get_height` leave 0 .. 1.
  `InterpolatesInside` and `HeightsAreOfTheirPlace` except these positions.
- `SimpleBarrier` resets its count as soon as thread 0 has passed; a thread that
  was asleep and looks again later sleeps on. No loop uses it.

### Bounds

The terrain of `mesh_steep` was chosen so that all six productions apply, in
competing orders, with up to three broken sides of a triangle.
`sequential` leaves the heights open instead and goes one step further, with the
fixed order. `parallel` has two threads because a conflict is between two. In
`ForEach` two items that lock the same two nodes in opposite orders give every
kind of conflict, the chunk size of 1 makes every second push hand a chunk over,
`Limit` of 1 or 2 lets leaders leave the queue early, and three threads are the
fewest with a ring in which someone is neither the sender nor the receiver.

`topo_barrier` has six sockets so that both trees have inner nodes, a seventh
thread so that one socket has two, and senses of one bit: the strictest width,
since a wider one tells more rounds apart. A second round is needed for threads
that come back while others leave. Three contexts and three nodes let a node
pass from one list to another while a third context looks. Three chunks give a
queue that is empty, has one, and has an inner one. Five threads give the pool a
tree of wake-ups with two levels, and three calls a change into and out of fast
mode around a run. A chunk of the bag has room for two, so that six nodes fill
chunks, open new ones and leave some threads without any. Tiles of two cells and
borders on halves of a cell have borders on a tile's edge, on a cell, and half way
between cells, which the reader rounds up; no border of this run is rounded down.
The same properties hold with thirds of a cell (`Part = 3`), where borders are
rounded both ways, but that takes TLC longer. `HeightIsAsked` asks for one height per map, and only
where no outlier was replaced, since weights do not depend on values.

### Fairness

`MeshRefinement` and `SequentialMesh` assume weak fairness of the whole next-state
relation: the program does not stop while it can go on. `ForEach`, `TopoBarrier`
and `ThreadPool` assume weak fairness of each thread: every thread of the pool is
an operating system thread that is scheduled again and again. Calls of the pool
and spurious wake-ups are not fair: they need not happen. `LockManager` assumes
that an iteration that has begun to release, or has met a conflict, goes on. No
fairness between the threads' attempts at a lock is assumed; that two iterations
do not abort each other for ever is the work of the abort policies. A loop with
`eagerPolicy`, which keeps aborted items where they are, does not end under the
same fairness.

## What is proved

Everything in this section holds for every value of the constants: any terrain
and criterion, any number of steps, threads, sockets, nodes and items, any order
and any conflicts. Eight modules hold the theorems.

| module | about | proves |
|---|---|---|
| `GrammarProofs`, `TilingProofs` | the productions | the lemmas of the two below |
| `MeshProofs` | the mesh, any order of iterations | `TypeCorrect`, `BordersStayFirm`, `BrokenSidesStayFirm`, `OnlyFirmEdgesAreBroken`, `BrokenSidesKeepTheirNode`, `OneVertexForEver`, `HangingFlagsStayExact`, `TrianglesAlwaysTile` |
| `ParallelProofs` | the mesh shared by threads | `SnapshotsStayCurrent`, `OneIterationPerTriangle`, `WritesStayLocked`, `ThreadsBreakOnlyFirmEdges`, `ThreadsKeepTheTiling` |
| `ForEachProofs` | the loop's state and its end | `LoopStateIsSound`, `NoWorkAfterTheEnd` |
| `ForEachRefinement` | the loop's items | `LoopImplementsUnorderedSet` |
| `LockProofs` | the lock manager | `LockAssertionsHold`, `ListsStayExact`, `LocksAreImplemented` |
| `UtilityProofs` | parts without a run | `CountingIsBarrier`, `ConversionsAlwaysSucceed`, `LongestAreFound`, `CriterionIsRight` |

### The mesh

*Which edges break.* The invariant is `FirmInv`: types, `BorderIsFirm` and
`BrokenSidesAreFirm`. `BrokenSidesAreFirm` is not inductive alone: productions 1
and 3 break a border edge without a test of its ends, which is safe only by
`BorderIsFirm`; and both need the types, by which a new node is on no edge and no
triangle yet. A node that is created hangs unless it is on the border, and lies
on unbroken sides only; so breaking an edge whose ends do not hang keeps both
(`BreakWithoutHangingNode`). In production 5 two sides are broken; their ends are
all three vertices, which by `BrokenSidesAreFirm` do not hang
(`Production5IsFirm`). Productions 2, 4 and 6 only clear a flag and remove no
edge (`BreakWithHangingNode`). `ProductionsBreak` sums the six up: a production
either splits a triangle at the hanging node of a broken side or breaks an
unbroken side with firm ends.

*Why the triangles tile.* `TilingInv` adds positions to `FirmInv`:

- `Plane`: no triangle is degenerate, no two vertices are in one place, and any
  two triangles have a line through two vertices between them;
- `Outer`: all vertices are on one side of a border edge;
- `Beside`: an edge has a triangle on each side, or is on the border;
- `NodesHang`, `HangingAreNodes`, `HangOnce`: the hanging nodes are the middles
  of the broken sides, each of exactly one side of one triangle.

The step that needs all of it is that a new node has a place of its own. By
`NothingHalfWay` no vertex is half way on an unbroken side that is on the border
or has a triangle on both sides: the vertex would be a corner of a triangle that
no line separates from one of the two. That an edge to be broken is the full side
of a second triangle, and not half of a broken one, is because its ends do not
hang (`SecondBeside`). Cutting a triangle then keeps the separating lines
(`CutKeepsPlane`), replaces its sides one for one (`CutPairs`), and leaves an edge
with at most two triangles along it (`TwoPerLine`, `OnePerBorder`). The four
properties follow from `TilingInv`.

This rests on `CornerAssumption`: the four corners, in the order of
`GraphGenerator.h`, are a convex quadrilateral. The corners of a rectangle of
longitudes and latitudes are one after the conversion to UTM, though no
rectangle, as long as they are in one zone. TLC evaluates it on the instances.
The grid bounds the model: where it is too coarse for a middle point, there is no
new node (`NewNodes`); the runs' grids are fine enough for all their steps.

*Threads.* `ParInv` says what each iteration's locks protect at each of its
places: once `basicCondition` has found a locked interior in the graph, it is
this iteration's (`OwnTriangle`); vertices are locked by one
iteration (`VerticesApart`); before it writes, an iteration holds the three
corners and all neighbours of a broken side's ends (`Holds`). A production changes
nothing outside of what is locked or new (`Touches`), so no other iteration's
snapshot changes. An iteration that conflicts in `afterStep` has written, but its
interiors are locked until it aborts. The productions' lemmas then apply to the
shared graph as it is between any two steps, and not only to the one a serial
execution would have.

### The loop

*The end.* `FirstRound` and `SecondRound` say what the token knows. `FirstRound`:
while the token is white and no thread has started an iteration since the token
was last there, whatever a visited thread has found empty in its present pass
over the queues still is. `SecondRound`: in a round after a white one, if neither
thread 0 nor a thread that the token has yet to reach has worked, then nobody
has, and the visited threads have nothing left. One round is not enough: a pass
over the queues takes several steps, and a thread the token has not reached may
still push to a queue that has been looked at. When thread 0 ends the loop,
nothing is left anywhere (`Ended`).

*The items.* Places are the chunks, push buffers, aborted items and hands of the
threads, the queues of the sockets, and the finished items. No item is in two
(`Apart`) nor twice in one (`NoneTwice`), and each comes from the range or from a
finished one (`Descend`). Each step moves items between two places or adds the
pushes of an item that finishes, and is a step of `UnorderedSet` or none.
`ItemsAreDistinct` says that no item is pushed twice: the range is the nodes of
the graph, and the operator pushes interiors it has just created.

### Locks

That a released node is in no list depends on all lists at once, so `LockInv` says
that links stay among nodes of one owner (`LinksStayHome`), that no two links meet
(`LinksDoNotMeet`), and that what a context has in hand is in no list (`InHand`).
For `ListsStayExact` a list must also reach all that is owned. `NoCycles` says that
every set of nodes has one that none of the set links to, and `OwnedAreLinked` that
an owned node is first or linked to: the nodes that are owned and not in the list
would be a set without such a member. `LocksAreImplemented` is the safety part of
`NodeLocks`.

### Parts without a run

Four parts are proved and have no run. Their theorems take what they need of the
constants as a hypothesis.

- `CountingIsBarrier` (`CountingAssumption`: there is a thread): the steps of
  `CountingBarrier` are steps of `Barrier`. By `CountingInv` the counter is the
  number of threads whose sense has not changed yet, except between its reset and
  the flip, when the last thread is alone; and who has come is one round ahead.
- `ConversionsAlwaysSucceed` (`ConvAssumption`: how the ends of UTM's range lie to
  those of the projection's): no conversion fails through other threads' writes.
  `RangeIsWide` is the reason: every value the range passes through, in memory or
  in a register, is at least that of the pole, and UTM's points are within that.
- `LongestAreFound` (`LengthsAssumption`): `indexesOfMaxElems` returns all longest
  elements and none shorter by twice `EPS`, and shares one with `getLongestEdges`.
  By `MaxInv` everything seen is below the current maximum plus `EPS`, and
  everything kept is above it minus `EPS`.
- `CriterionIsRight` (`ConditionAssumption`: the triangle has an area): a triangle
  is marked if its plane is further from the terrain than the tolerance at a point
  of the grid that it covers. Conversely a marked triangle has such a point up to
  the tolerance of `is_inside_triangle`: areas of less than half of `EPS` of the
  triangle's may be on wrong sides of the edges (`AlmostInside`), and the distance
  may be short by `EPS` of the greatest height of a vertex (`AlmostFar`), since the
  weights add up to more than 1. The signed areas of a point add up to the
  triangle's and weigh the vertices to the plane (`SignedAreas`); without signs the
  sum, and the height, are greater by twice what is on wrong sides
  (`UnsignedAreas`), which `OffByLittle` bounds (`SampleIsRight`); and no grid point
  before the loops' position deviates (`ConditionInv`).

### Only model-checked

- Liveness: `Terminates`, `SeqTerminates`, `CallsReturn`, and what
  `ImplementsNodeLocks` says of progress are out of the prover's reach.
- `NeverStuck`: its argument follows ever longer edges from triangle to triangle
  and ends since there are finitely many, an induction over the mesh.
- `Serializable`: the mapping subtracts what unfinished iterations have written
  from every part of the mesh. Proving it takes that their writes are apart from
  each other and from what others read, part by part; `WritesStayLocked` and
  `OneIterationPerTriangle` are the beginning of that.
- `LinkedQueue` and `SrtmReader`: the contents of a linked list, and of an
  array filled by a loop, are recursive over the data.
- `TopoBarrier`: its trees are computed; the pool, the bag and the writer: not
  tried.

## Plan

Left to do: a proof of `ThreadPool`'s rounds; the writer's walk while others
insert, with what the places without an element can hold; the zones of a terrain
that crosses a border of UTM zones.

## Not modelled

The command line, the ASCII reader, logging and statistics, memory allocation:
sequential input or no protocol. The arithmetic of the projection: numerical.
Doubles: lengths, areas and borders are exact numbers, and `EPS` is modelled in
`LongestEdges` and `TerrainCondition` only. Rectangles with negative borders in the reader: the names it
forms for their tiles are no names of SRTM files. The MCS, dissemination and
simple barriers: no loop uses them. Weak memory outside of `LinkedQueue`: the
shared words of the other protocols are taken to be sequentially consistent.
`needsBreak`, deterministic execution, other worklists, `do_all`: not used here.

The repository holds the whole Galois distribution, some 560,000 lines, of which
the terrain program is a small part: most of the rest is other benchmarks,
distributed and GPU libraries and containers that it never calls. The modules
cover the program and what it runs on, hence only a small share of the tree.
