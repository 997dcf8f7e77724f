# Verification of the Adaptive Hybrid Edge Partitioner

This directory holds TLA+ modules that model AHEP, the edge partitioner in
`src/`, and the thread pool and lock-free queue in `threadpool11/`; TLC runs
that check the models on small instances; and proofs for graphs of any size.
Paths are relative to the repository; `hpp` and `cpp` alone mean
`src/ahep_partitioner.hpp` and `src/ahep_partitioner.cpp`.

## The program

`main` builds an `AHEPartitioner` and calls `split()` once. One thread does
everything; the "hard" behaviour is not concurrency but long sequences of
small updates to data that several loops share, floating-point and unsigned
arithmetic at its limits, randomness, and files that outlive a run. The only
concurrent code is `threadpool11`, a pool of worker threads over
moodycamel's queue. It is in the tree, and `util.hpp` names its include, but
the partitioner does not build it; it is modelled for what its own headers
promise.

| part | state | operations | what makes it correct |
|---|---|---|---|
| Conversion (`conversions.*`) | `.binedgelist`, `.degree`; `name2vid`, `degrees` | `done`, `init`, `add_edge`, `finalize` | a file that is trusted is the whole graph, renamed one to one |
| `stream_build` and the constructor (cpp 68-176, 533-690) | `count`, `.low_edgelist`, `.h2h_edgelist`; `edges`, `degrees` | two passes in chunks, size check, load | every edge in exactly one of memory and the streamed file |
| Cluster tables (`cluster.cpp`) | `comps`, `comms`, `min_comm`, `bs`, `capacities` | `set_ability`, `calculateMinComm`, `set_delta` | capacities add up to all edges at least |
| HCNE, first phase of `split()` (hpp 88-273, cpp 178-297) | adjacency lists, `edges[]` as validity, `is_cores`, `is_boundarys`, heap, `degree_temp`, `occupied`, `degrees` | choose a vertex, `occupy_vertex`, `add_boundary`, purge, `assign_remaining` | no edge lost or assigned twice; bitsets are the end points of the edges |
| Streaming, second phase (cpp 299-530) | `min_size`, `max_size`, recomputed `capacities` | `random_streaming` or `hcsg_streaming` | as above; edges go where there is room |
| `NeMinHeap` (`ne_min_heap.hpp`) | `heap`, `key2idx`, `n` | `insert`, `remove`, `get_min`, four ways to change a value | a priority queue |
| `tset`, `TSetManager` (`cluster.hpp`) | communication cost per vertex and partition, the partitions a vertex was inserted for | `insertTSet`, `getValue`, `undate_value*` | costs are those of core vertices and never out of date |
| `dense_bitset` | words of bits | set, clear, flip, resize, binary operators, search, transfer | a set; padding bits stay clear |
| `ne_graph` | offsets into one array | `build`, `build_reverse` | the edges of a vertex |
| `Pool`, `Worker` (`threadpool11/src`) | counters, flag, mutex, condition, works | `postWork`, `waitAll`, changes of the number of workers; `execute` | every work is run, waiting calls return |
| `ConcurrentQueue` (`concurrentqueue.h`) | indices, block index, blocks, free list | `try_enqueue`, `try_dequeue` and bulk forms | each element is taken once; no block is reused under a reader |
| `MemGraph`, `TextConverter` | | | no caller in the program |

The parts interact through members of one object and through four files named
after `-output`. `Converter` writes two of them and a run that finds the first
skips it. `stream_build` writes the other two, the constructor reads the
low-degree file back, `split()` streams the h2h file. Within `split()` the
heap, the lists and the bitsets are updated by `occupy_vertex` and
`add_boundary`, which call each other once per neighbour. `Pool` posts works
into the queue under a mutex; workers take them without it and sleep on a
condition; the queue's producers and consumers share its indices and blocks.

The hazards this code has, each with its line, are in `PROJECT.json`.

## Modules

`EdgePartition` is the abstract specification: every edge is given to one
partition, once, and then the exact end points of every partition are
reported. `HCNE` is `split()` with random streaming and implements it;
`HCSG` extends `HCNE` with the other second phase and implements it too.
`CommTable` extends `HCNE` with the records of communication costs. `Cluster`
is where the capacities come from, `Ingest` what comes before `split()`.
`PriorityQueue` is what `HCNE` takes the heap for; `MinHeap` is the heap itself
and implements it. `BitSet` is what it takes a bitset for; `DenseBitset`
implements that. `ThreadPool` is the pool and its workers, with a queue that
is a sequence per client; `ImplicitQueue` is that queue, and it extends
`FreeList`, the list its blocks return to. `HCNEInv` holds the inductive
invariant of `HCNE`; the modules whose names end in `Proofs` hold the proofs, and the
inductive invariants of the other components. The `MC` modules define the graphs,
flags, tables and symmetries of the runs; `MCFreeList` also gives the free list
threads that use it, with the properties that need them.

### HCNE

Variables have the names of the code. `adj[v]` is the set of edges with an
entry in one of the two lists of `v`; `valid` is the set of edges `e` with
`edges[e].valid()`; `owner` records the calls of `assign_edge`.

| action | code |
|---|---|
| `SelectFromHeap`, `SelectFreeVertex` | the body of the while of `split()` up to the first loop of `occupy_vertex` (d = 0 ends it there) |
| `AssignToCore`, `AssignToBoundary`, `SkipEdge` | one turn of the loop of `add_boundary`, in-edges first |
| `ExpandEdge`, `FinishOccupy` | one call of `add_boundary` from `occupy_vertex`; clearing the lists and filling the heap |
| `BucketFull`, `BucketStop` | the two ways to leave a partition, with the purge of the lists |
| `StartRemaining`, `AssignRemaining`, `FinishRemaining` | `assign_remaining` |
| `StreamEdge`, `FinishStream` | `random_streaming`, then `count_mirrors` |

Abstractions:

* The order of entries in a list is free, because swaps with the last entry
  shuffle it; entries of in-edges come before those of out-edges as in the code.
* Heap values are exact fractions. `update_tset` is modelled, with one cost
  `CommCost`; `CommTermVanishes` shows that no cost is ever added, because
  `min_comm` holds integers that are 0 and no vertex entering the heap has a
  valid edge to a core vertex. Values keep what the code makes of them
  afterwards: `decrease_key` returns at once, and a value below 1 becomes the
  `vid_t` 0, which makes a core vertex that is not expanded.
* `get_free_vertex` starts anywhere and probes at the triangular offsets of the
  code. It fails for a start from which no probe is eligible.
* The shares of the partitions are a parameter; `set_delta` rounds up, and takes the
  number of edges modulo `VidRange` (2^32), because its parameter is a `vid_t` and its
  argument a `size_t`.
* Loops are excluded, as `convert` excludes them (assumption on `Graphs`).

### HCSG

Adds `costs` (`bs` in units of `1/Scale`), `min_size` and `max_size`. Scores of
all partitions for one edge have a common denominator, and the numerators are
compared exactly. Two places are free: where the base `1 + max_size - min_size`
of the balance is 0 the doubles are infinite or not numbers and any partition
may be chosen; and the terms taken from `comm_temp` for a core vertex are any
member of `CommTerms`; `CostsOfCores` of `CommTable` shows that other vertices
have none. The costs of the second phase and the shares of the
first are independent parameters, which allows more than one cluster would.

The second call of `set_delta` cuts the number of edges off as well. From 2^32 edges on
the capacities may be used up while edges are left; then every score is -1.0 and
`best_scored_partition` returns partition 0. `RoomIsLeft` says how far the capacities
reach, and `LightestHasRoom` and `AfterFirstInRoom` go that far. `NextSplit` is `split()`
with either value of `-random_streaming`.

### MinHeap

One action per method, one step per swap of `shift_up` and `shift_down`, so
the invariants are also seen in the middle of a sift. `heap` has a slot for
every key, as `reserve(num_vertices)` provides. `remove` of the last entry is
as in the code: `n` falls first, the vacated slot is copied to itself, its
index is written, and the sift starts there. Callers insert only absent keys;
`HeapIsFrontier` of `HCNE` is what entitles them to.

### Ingest

Several runs, one after the other, with the four files on disk between them.
Each run has its own input, `-hybrid_NE`, `-write_low_degree_edgelist` and
`-hdf`. A run may end at any step (crash, or an abort by `LOG(FATAL)` or
`CHECK`), and then a file that is open keeps nothing, or its first header and
any prefix of its edges (`Torn`; a buffer holds the header and at least one
edge, and a file is cut between edges: a part of an edge would only make the
size check fail). Files that were closed are taken to be safe, that is, the
process dies and the machine does not. `num_h2h_edges`, which no constructor
sets, starts from any member of `UnsetCount`; an empty binary file leaves
`num_vertices` and `num_edges` at any member of `Unset`. `size_t` has the range
`SizeRange`. Degrees and identifiers are exact. Text is a sequence of pairs;
a line with one field is malformed.

### CommTable

`comm_temp` and `comms_set` beside the variables of `HCNE`. Each action is one of
`HCNE` with the calls on the table the code makes in it: `insertTSet` and
`undate_value` in `occupy_vertex` (`InsertCore`, `InsertReached`), `insertTSet` in
`update_tset` (`InsertLooked`), `comms_set.clear()` between partitions. `comm_id`
is a sequence of decimal digits, as the code builds and reads it, so a partition
above 9 would be read back as two. Costs are integers. A vertex without a record
is one with an empty `comm_id`. Streaming inserts only costs of 0 and is left out.

### Cluster

`SetAbility`, `CalculateMinComm`, `SetLowDelta` (from `split()`) and `SetAllDelta`
(from `hcsg_streaming`). The tables are integers beside the sums the code divides
them by (`compSum`, `commSum`), which are written down, as in the code, apart from
the loops that fill the tables. Where elements out of range are written the
program may stop or go on. `Rounded` is `ceil` of a double that may lie just above
a whole number. `set_delta` counts edges with a `vid_t` of `VidRange` values. The
capacities are `NaN` where the code divides by 0: without edges (a number of edges that
is 0 modulo 2^32, that is), and with one partition in topologies 22 and 44, whose sum of
speeds takes half of one machine to be none (cluster.cpp:47).

### DenseBitset

A word is the set of its positions that are 1; operations are those of the class,
the loop of `transfer_approximate_unsafe` one word at a time. `set_bit` stands for
`set_bit_unsync` too, and so on: one thread uses a bitset. `first_bit`, `next_bit`
and the others that only look are operators compared with the set in `LooksAgree`.

`call` names the call a step makes, with its arguments. `BitSet` has the same variable
and one action per call, so a step of the words refines only the set operation of its own
name with its own bit. A step of a transfer moves any bits of one word, since which words
it takes, and how many, is what makes it approximate. The comment on `resize`
(dense_bitset.hpp:46-51) says that new bits are undefined and that bits cut off may stay;
the code clears both, as `ImplementsSet` shows.

### ThreadPool

One step for each access to state that other threads touch without the lock the
thread holds.

| actions | code |
|---|---|
| `Enter`, `Take`, `TakeNothing`, `CountTaken`, `Run` | the inner loop of `Worker::execute` |
| `LockSignal`, `CheckSize`, `Finish`, `Leave`, `Wake`, `Exit` | its critical section, the wait, and the end of the thread |
| `PostWork`, `Enqueue` | `postWork` and `push`, before and under the lock |
| `Spawn`, `Detach`, `CountWorker` | `spawnWorkers`, with the constructor of `Worker` |
| `BeginSet`, `SetCount`, `BeginDec`, `Limit` | `setWorkerCount` with two readings of the count, `decWorkerCountBy` with one more |
| `Return`, `Destroy` | the wait for the futures, `~Pool` |

Two variables are history. `piled`: a call was made while `worker_count_` counted
workers that were about to leave. The headers warn of calls in that state only for
`ASYNC`, but a `SYNC` decrease leaves it too, since a future is ready before the
worker counts itself out. `CallsReturn` and `NewWorkerSurvives` say what holds
outside of it; `DestructorReturns` and `OnlyWorkersDie` are the same claims without
the exception, and do not hold (see Findings). `crowded` has the clients whose
change of the number of workers overlapped with another client's: either may then
undo the other's, and `SetLeavesAtMost` says nothing of them. It does cover calls on
a pool where requests of earlier calls have piled up, which is when the three
readings differ.

A work that `try_enqueue` refuses is in `lost`; `Room` stands for the 32 blocks of
32 works the block index of one thread can hold.

### ImplicitQueue and FreeList

One step for each access to a word another thread writes; memory is sequentially
consistent, so what the acquire and release orders of the code allow beyond that
is not covered. `enqueue` and `dequeue` are the bulk calls for one element, except
for the order in which producers are tried. In `ImplicitQueue`, `tailIndex`,
`headIndex`, `dequeueOptimisticCount` and `dequeueOvercommit` are the members of
`ProducerBase`; `blockIndex` keeps all headers a producer has had, because a
consumer may still look at an old one; `key` and `value` are the entries they share.

| actions | code |
|---|---|
| `BeginEnqueue` ... `Publish` | `enqueue_bulk`, with `insert_block_index_entry`, `new_block_index`, `requisition_block` and the undoing of a call that fails |
| `BeginDequeue`, `Look`, `Looked`, `Turn`, `EndDequeue` | `try_dequeue` and `try_dequeue_bulk` |
| `ReadTail` ... `TakeHead` | a claim, verified and given back |
| `LoadHeader`, `LoadSlot`, `LoadKey` | `get_block_index_index_for_index` |
| `Take`, `SetEmpty`, `Unindex`, `Freed` | taking the elements block by block |
| `Add` ... `Unlink`, `GetHead` ... `Drop` (`FreeList`) | `add`, `add_knowing_refcount_is_zero`, `try_get` |

Two loops are coarser than their accesses. `Ref` is both the load and the exchange
of a block's count in `try_get` (concurrentqueue.h:1384-1385). When another thread
changes the count in between, the exchange fails, nothing has been written, and the
head is read again; the same states are reached by reading the head later, but
`SomeoneEnds` does not count such rounds. `UndoIndex` takes back the entries of a
bulk call that fails in one step (2575-2580): a consumer that would find the tail
moved back part of the way is not explored. `try_dequeue` chooses among the first
three producers that are not empty; `QueueAssumption` allows no more than three, so
that these are all, and the theorems about the queue are for up to three producers.

## Runs

| run | instance | shows |
|---|---|---|
| `expansion` | simple graphs, 5 vertices, 5 edges, 4 partitions; first machine equal, slow or fast; no two links of a partition cost the same | invariants of the expansion and of the cost records |
| `split` | multigraphs directed from the lower end, 4 vertices, 5 edges, 3 partitions; threshold 2; equal shares and a smaller first one, two cost tables; random and greedy streaming | counters, bitsets, termination, refinement of `EdgePartition`; what greedy streaming guarantees |
| `stop_message` | 5 vertices, 5 edges, 3 partitions | "no free vertices" although one is free (violation) |
| `heap` | 4 keys, 2 values | index, order, refinement of `PriorityQueue` |
| `ingest` | 3 runs, 4 inputs, 12 flag settings, chunks of 2 | what a run may trust and load |
| `cluster` | every topology and an unknown one, 1 to 5 partitions, numbers of edges below and above the 16 values of a `vid_t` | which tables are normalised; capacities hold the edges that were counted |
| `bitset` | 2 bitsets of up to 5 bits, words of 2 | refinement of `BitSet`, call by call; searches; when a transfer ends |
| `bitset_full` | as `bitset`, sizes 1 and 5 | `first_zero_bit` finds a bit beyond a full bitset (violation) |
| `pool` | 1 client, 2 calls and the destructor, 2 workers and 1 more | wake-ups, counters, `setWorkerCount`, waiting calls |
| `pool_waitall` | as `pool` | `waitAll` returns too early (violation) |
| `queue` | 1 producer, 2 consumers, 6 elements, 3 blocks of 2, index of 2 growing to 4 | no element lost or taken twice, no block reused too early |
| `freelist` | 2 threads, 3 blocks, no bound on calls | no block lost or doubled; lock-freedom |

Why these bounds are enough to see the cases: on five vertices a probe of
`get_free_vertex` misses a free vertex while the partition has room, and there is
space for a region with an inside edge next to another region. Three partitions are
two grown ones, so that lists purged after one are used by the next, and the one
that takes the rest; `expansion` has a third grown one, in which a vertex that was
reached and became a core vertex for the two before is reached again. A first
machine that is faster has room left when a triangle closes (`BoundaryIsClosed` says
nothing before that), and a slower one is overfilled at once. Parallel edges need
only three vertices, but with three the grown partitions take every edge; four leave
one for the last. Every such multigraph can be numbered so that an edge joins the
first two vertices. With threshold 2 anything from no edge to all of them is
streamed, after a first phase that may have overfilled a partition, and the balance
base reaches 0. A `vid_t` has 64 values where all edges are to be counted, and 16 in
`cluster`. Four keys give a heap of three levels. Five edges in chunks of two end in
a short chunk; three runs allow an interrupted one, one that finds its files, and
one that finds the files of both. Five partitions give odd and even halves, and
machines beside 1 and 3; the ratios of speeds and links are smaller integers than
0.30 to 0.17 and 121 to 4.5, which keep the order of the machines. Words of two bits
make a bitset of three words with padding. Two workers suffice for one to sleep
while the other decides, and the third to be started meanwhile. Six elements in
three blocks of two use a block again through the free list and an index entry again
through the ring; a batch of three spans two blocks, so that it can fail at the
second. `MaxOvercommit` only ends executions in which claims are made and given back
again and again.

Larger or other instances than fit a run were checked by hand: the free list with
three threads and with two and three blocks; `pool` without `CallsReturn`, for two
clients that make two calls between them on two workers (736,194 states); greedy
streaming of six edges, with a `vid_t` of 64 values and of 4, where capacities are
those of two edges and every partition may be full (`AfterFirstInRoom` and
`HcsgKeepsPromise` hold).

Fairness: `FairSplit` of `HCSG` assumes weak fairness of the whole next-state
relation: the program is one thread
that runs until `split()` returns, and nothing it does waits; likewise the loop of
`TransferWord`. `ThreadPool` assumes weak fairness for each thread, as the
operating system runs all of them, and none for the start of a call. `Take` has
strong fairness, because the queue may look empty to a worker while another one
takes from it, but not for ever if works remain. `MCFreeList` assumes weak fairness
for threads inside an operation. `ImplicitQueue` assumes none: a dequeue may be
beaten for ever, and its properties are invariants.

The run `split` shows more than the comments of `hpp` 48-49 admit: `max_size` starts
at 0, below the loads of the first phase, and `min_size` moves up too early, so
neither is the size its comment names. `BalanceRecovers` states what is true of
them after one streamed edge, and `AfterFirstInRoom` that only that first edge can
go to a full partition.

## Findings

1. `stop_message`: the quadratic probe visits every vertex only when their number
   is a power of two.
2. `bitset_full`: `first_zero_bit` on a full bitset returns a padding position of the last
   word, where dense_bitset.hpp:333-335 promises `false`.
3. `pool_waitall`: `waitAll` may return with a work queued. `push` clears the flag
   before it takes the lock, and a worker going to sleep in between sets it again
   (pool.hpp:73 guarantees that all queued works are finished).

`ThreadPool` states four more claims of pool.hpp that do not hold. They have no run;
each is violated on the instance given here, with the other constants as in
`ThreadPool.cfg`.

* `SyncMeansDestroyed` (pool.hpp:111, :166; that of `pool`): a call with `SYNC` waits for its
  requests to be run, not for the workers to be destroyed, because a future is ready
  before the worker takes the lock to leave.
* `DestructorReturns` (pool.hpp:78-82; `Started = 2`, `MaxWorkers = 2`, `MaxCalls = 1`, `Room = 4`):
  after a call that decreased the number of workers `worker_count_` still counts one that is
  leaving; the destructor posts one request more than there are workers and waits for ever.
* `OnlyWorkersDie` (pool.hpp:107-109; that of `pool`): requests that piled up kill not only
  new workers but the program, when one runs before the constructor of `Worker` has
  detached its thread.
* `NoWorkRefused` (pool.hpp:59-61; `Started = 0`, `MaxWorkers = 2`, `MaxCalls = 3`): a work beyond
  the room of the block index is dropped.

Other behaviour a reader of the documents may not expect, and the models show, but
no run singles out: capacities are not upper bounds (README.md:5), since edges of
core vertices, the last partition and random streaming are not held to them;
from 2^32 edges on they are those of the number modulo 2^32;
partition 0 is chosen when no score is above -1.0; with
`-write_low_degree_edgelist=false` a run partitions the low-degree file of an
earlier one; `-filename` is ignored when `-output` names existing files; with the
topologies 33 and 44 only the links of machine 0 are slow, because a loop variable
is shadowed (cluster.cpp:132-141); and
`transfer_approximate_unsafe`, started at the first word, does not end if fewer bits
are there than asked for.

## What is proved

Every theorem holds for all values of the constants that satisfy the named
assumptions of the modules. Each component has one inductive invariant; its theorems
follow from `Spec => []Inv`. The proofs have one lemma for each part of an invariant
and in it one step per action, or one case for the actions that leave its variables
alone.

| module | invariant | theorems |
|---|---|---|
| `HCNEProofs` | `IInv` (in `HCNEInv`) | all invariants of `HCNE` that `expansion` and `split` check; `SplitKeepsPromise`: every step of `split()` is a step of `EdgePartition` or a stutter |
| `HCNEProofs` | `HcsgInv` | `LightestHasRoom`, `BalanceRecovers`, `AfterFirstInRoom`, `HcsgKeepsPromise` of `HCSG` |
| `HCNEProofs` | `CommInv` | `CostsOfCores` of `CommTable`, for at most ten partitions |
| `ClusterProofs` | `ClusterInv` | `Normalised`, `CapacitiesSuffice` |
| `MinHeapProofs` | `HeapInv` | `IndexExact`, `HeapOrdered`, `QueueKept` |
| `IngestProofs` | `IngestInv` | `TypeOK`, `HeaderIsLast`, `SplitExact`, `DegreesLoaded`, `InterruptedStays` |
| `DenseBitsetProofs` | `BitsetInv` | `ImplementsSet`, `LooksAgree` |
| `ThreadPoolProofs` | `PoolInv` | `WorkIsCounted`, `NoWorkForgotten`, `NewWorkerSurvives`, `SetLeavesAtMost` |
| `ImplicitQueueProofs` | `UserInv` | `Conserved` of `MCFreeList` |
| `ImplicitQueueProofs` | `ClaimInv` | `ClaimsBalance` |
| `ImplicitQueueProofs` | `ClaimInv` and `PlacesInv` | `ElementsInPlace`, `BlocksOnce` of `ImplicitQueue` |
| `FoldProofs` | | lemmas: induction; sums and products by folds over finite sets; folds from the left; multiples of a number |

**HCNE.** None of the invariants is inductive alone. The argument is this. `NoEdgeLost`
needs to know that clearing the lists of the core vertex `vid` loses nothing,
which is so because the far end of each of its valid edges has been through
`add_boundary` and found a core vertex there. So the invariant says where the
scans stand (`ScanOK`), that a valid edge inside the boundary either is still
to be scanned or found no room and touches no core vertex (`InsideOK`), and
that valid edges stand in the lists of both ends while a vertex outside the
boundary has only valid ones (`ListsOK`). With `FrontierOK` (heap and reached
vertices are the boundary without the core) a vertex chosen next is never a
core vertex, so its scan meets no stale key. `CoverOK` carries the exactness of
the bitsets through the moments when a boundary bit is set before its edge is
assigned. `DegreeTempOK` and `CountersOK` follow the counters. `RoomOK` says
that only a partition with room starts a vertex, and gives
`OvershootOnlyAtCores` its first core edge. Cardinalities change by one per
assigned edge. The shares are positive numbers (`SharesAssumption`), and that their
total is not 0, so that `set_delta` divides by it, is a lemma.

**HCSG.** The first phase keeps the parts of `IInv` about edges, lists, heap and
scans (`SInv`), bitsets and counters, and hands them to `Streamed`, which says that
what is left to stream is what has no partition, and that the books and bitsets are
exact. `Balanced` says that `min_size` is at most every load at the first streamed
edge, and later at most `max_size`, which some load does not exceed.
`LightestHasRoom` multiplies out: a lightest partition that is full carries at least
its share of all edges, then so does every other one, and as many edges would be
assigned as the capacities were computed for. `AfterFirstInRoom` compares scores:
once the two sizes are in order, a partition with room scores above the -1.0 from
which the search starts.

**CommTable.** `CommInv` keeps with every record that its digits are partitions, that
what `comms_set` holds is what adding up would give (`SumsCurrent`), and that the last
digit of a core vertex is the partition being filled and its cost the sum over all of
them (`CoresAddedUp`). It rests on `SInv`: `occupy_vertex` inserts a neighbour only
outside the boundary, so no core vertex is inserted again, and the vertex it brings up
to date is the core vertex itself. The theorem assumes `P <= 10`. Above that a
partition has two digits, `updates_comm` reads them back as two partitions
(cluster.hpp:46-48), and the sum is another.

**Cluster.** `ClusterInv` has the shape of the tables for each topology (`Described`),
relates the capacities to the shares they are rounded from (`Assigned`), and says that
every machine has one (`Shared`). `Normalised` adds up tables with two or three values
(`SumTwoValued`, `SumByValue`). `CapacitiesSuffice` brings the shares to a common
denominator, the product of the values other machines have: rounded up, or up to one
more, they add up to the edges, as a `vid_t` counts them, and at most one more per
machine. That no sum is 0, but for one machine in topologies 22 and 44, is `SumsPositive`.

**MinHeap.** `IndexExact` and `HeapOrdered` are inductive with the types and `CurOK`:
the position being sifted is in the heap or the one just vacated. `n < NumKeys` before
an insertion of an absent key comes from the injection of positions into keys. That
`get_min` returns a least value follows from the first position with a value below that
of the root, if there were one: its parent would be another.

**Ingest.** The invariant says, for each place a run can be at, what it has read and
what the files hold. `Converting`: the edges written are the lines read, without loops
and with names replaced by numbers one to one (`Numbered`, `Translated`,
`DegreesCounted`). `Counting` and `Splitting`: the counts and the two files are those of
the part of the binary file that was passed (`Passed`). `HeaderIsLast` and
`DegreesWritten` say what files a later run finds after a crash, and `HeaderKnown` what a
run knows once it has read the header. `SplitExact` rests on the size check of the
constructor. `InterruptedStays` has an invariant of its own: with a header of zeros no
run gets past the count of degrees, which aborts on a graph without vertices.

**DenseBitset.** `WordsFit`: an array has the words its size calls for and no
padding bit is set. `Transferring` is about the sets of a transfer under way. The
lemmas relate the position of a bit to its word, for words of any width, and what an
operation makes of the words to what it makes of the set; the refinement has a case
for each call, in which `call` picks the set operation to compare with. `LooksAgree`
follows operator by operator; the search across words and the iterator by induction
on the word.

**ThreadPool.** `PlacesApart` and `NoWorkMissing` say that every work is in exactly
one place. With the exact counters (`SizeExact`, `ActiveExact`) a work queued or run
shows in one of the two counters `Worker::execute` reads: `push` adds to the size
before it queues, and a worker is counted active before it takes. `EnoughAwake`
strengthens `NoWorkForgotten`: while one worker sleeps there are as many awake
without a work as there are works queued, since a push wakes one and a worker that
leaves has run the `TERMINAL` work it leaves for. `CountExact` gives `worker_count_`
modulo its width. `Orderly` follows the calls that change the number of workers
while they have not piled up: one at a time, and how far it has got. `SetOnCourse`
follows `setWorkerCount` whether or not they have: while no other client changes the
number (`Alone`), it only falls, and the workers left exceed the number asked for by
no more than the requests still to be posted or to be run. The second difference is
smaller than the first only by workers that have left, the limit read last counts
all workers that are left, and a difference that wraps is more than enough.

**FreeList.** Each block has one reference from the list, if it is on it, and one from
each thread that holds it, and the flag if its push is due (`RefsAddUp`, `FlagKept`). The
list is a stack: positions that `freeListNext` leads through, and no other (`Stack`;
`OnList` is the least closed set, and `StackIsClosure` that the two are the same). A
thread that has read the next pointer of the head holds a reference to it, so the block
does not come back to the list before that thread has let go, and the pointer is still
the right one if the head is (`NextKnown`): the ABA problem does not arise. `ChargesApart`
says that no two threads push or hold the same block, and `Apart` that none of these is in
the hands of a caller. The invariant is stated for any set of held blocks.

**ImplicitQueue.** `Balanced` adds up where each optimistic claim is: given back, taken,
or with a consumer that has yet to verify, take or return it. A claim is verified against
a tail that may be stale and in any order, so that no sum alone bounds what is taken.
`HasOrder` therefore says there is an order of the claims, by the optimistic count at the
claim, and a cut in it: claims before the cut fit in the queue with all that is taken,
and each later one leaves room for those before it up to the count it compares with. The
overcommit a consumer has read is at most the present one (`Fits`), which is what makes a
claim safe. TLC found `ClaimInv` to hold on the instance of `queue` before it was proved.

`PlacesInv` says where the blocks are. A consumer finds a block from the distance of its
number from the one at the tail, in a header, a slot and a key it reads one after the
other while the producer moves the tail, takes it back when a call fails, or replaces the
header by one of twice the size. So `ElementsInPlace` needs the order of the index:

* The entries of the current header go round (`Ring`): what they hold are the numbers from
  `lo` to `hi`, each once, and the place of a number counted from the tail is its distance
  from the last one, up to whole rounds (`AtTail`). `insert_block_index_entry` takes the
  entry after the tail only when its block is gone, which leaves the ring whole
  (`InsertFacts`); a call that fails moves the tail back and leaves numbers past the end.
* In a header that is no longer current, which a consumer may still have, places and
  numbers agree up to whole rounds of that header (`Aligned`), and later reuse of an entry
  keeps that, because the size of a newer header is a multiple of the older one's
  (`SizeGrows`). A number in use is in each header a consumer may have read
  (`HeaderKnown`), so the distance still leads to its entry (`PlaceFound`).
* What nobody has read of a block (`Unread`) is what no consumer has claimed and what some
  consumer has still to read. While there is any, the block is in the index under its
  number, holds these elements, and its count of elements dequeued is what is missing to
  `BlockSize` (`Kept`, `Stores`). The consumer that takes the last of them is the only one
  to see the count full, and unindexes the block once nobody looks for it.
* Every block has one home (`HomesApart`): never handed out, one entry of one producer's
  index, the hands of a call that failed, or the free list, whose invariant is that of
  `Conserved` with these homes as the blocks held (`ListInv(InUse)`).

Both theorems follow. They assume `QueueAssumption`; that a block has at least two
elements is the code's `static_assert` (concurrentqueue.h:701). That sizes are
powers of two is not needed. TLC found `PlacesInv` to hold on an instance of the
size of `queue` before it was proved.

Four things had to be written differently to be reasoned about, with the same
meaning. `Ingest` filters with `Kept`, a fold, since the prover has no definition of
`SelectSeq`; it declares `Names` and assumes that the inputs are sequences of lines,
that `Absent` is not a file and that unset numbers are natural numbers. `FreeList`
assumes that the threads are finitely many, because a reference or a claim is one
term of a sum, takes `ShouldBeOn` as a constant above any number of references (the
code's is bit 31), and says what is on the list by closed sets instead of recursion.
Inductions, on numbers and on finite sets, are stated in `FoldProofs` for the set of
the values for which a claim holds, so that no lemma has an operator as a parameter.

## Model-checked only

* `Termination` and the fairness part of `PromiseKept`, `CallsReturn`, `SomeoneEnds` and
  `TransferEnds`: liveness is out of the prover's reach.

## Not modelled

Reports (`set_lf`, `set_load`), the writer of edge assignments and logging change no
state that is used later. `MemGraph`, `TextConverter`, `set_ability_haep`,
`set_delta_haep` and the tie-breaking score have no caller. Of the queue, explicit
producers, tokens, the hash from threads to producers, the destructor, exceptions of
element constructors and the wrap-around of 64-bit indices are left out: `Pool`
stores pointers and uses no token, and the hash only gives a thread its own
producer, whose creation is taken as done. The layout of adjacency lists in one
array (`ne_graph`) is abstracted to sets of edges. Rounding of doubles is not
modelled: heap values and scores are exact, and comparisons within `EPSILON` are
equality. The streaming's calls on the cost records (`insertTSet`,
`undate_value_hcsg`, cpp:342-352) only insert costs of 0. Of 32-bit numbers, the
edge count given to `set_delta` is modelled with its width; vertex numbers are taken
to fit; the wrap of `degrees` at 0 is what `DegreesExact` excludes.

## Plan

1. Done: all modules above, and the proofs listed under "What is proved".
2. Open: `ThreadPool` over `ImplicitQueue` in place of its sequences, and weaker
   memory orders.
