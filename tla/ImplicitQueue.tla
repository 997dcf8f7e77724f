--------------------------- MODULE ImplicitQueue ----------------------------
(***************************************************************************)
(* The queue threadpool11 keeps its works in: each thread that enqueues    *)
(* has a producer of its own, an unbounded array cut into blocks that any  *)
(* consumer takes from.  Blocks come from an initial pool and, once all    *)
(* their elements are taken, from the free list; a producer finds the      *)
(* block of an index through its block index, which may grow.              *)
(*                                                                         *)
(* enqueue and enqueue_bulk, dequeue and dequeue_bulk access the shared    *)
(* words in the same order: the former are the latter for one element,     *)
(* except for the producers they turn to.  A step is an access to a word   *)
(* another thread writes; the memory order is sequential consistency.      *)
(***************************************************************************)
EXTENDS FreeList

CONSTANTS
    Producers, Consumers,
    BlockSize,           \* BLOCK_SIZE
    IndexSize,           \* IMPLICIT_INITIAL_INDEX_SIZE
    MaxHeaders,          \* bound: block indexes malloc provides a producer with
    Pool,                \* blocks of the initial pool; the others are malloc's
    Batches, Takes,      \* numbers of elements a call enqueues, asks for
    MaxItems,            \* bound: elements enqueued by each producer
    MaxOvercommit        \* bound: no call takes from here on once this many were given back

ASSUME QueueAssumption ==
    /\ Threads = Producers \cup Consumers /\ Producers \cap Consumers = {}
    /\ Pool \subseteq Blocks
    /\ {BlockSize, IndexSize, MaxHeaders, MaxItems} \cup Batches \cup Takes \subseteq Nat \ {0}
    /\ BlockSize >= 2
    /\ MaxOvercommit \in Nat
    /\ Cardinality(Producers) <= 3   \* try_dequeue compares the first three that are not empty

InvalidBase == 1           \* INVALID_BLOCK_BASE

VARIABLES
    tailIndex, headIndex, dequeueOptimisticCount, dequeueOvercommit,
    blockIndex,  \* block index headers of each producer, oldest first
    key, value,  \* its entries, which the headers share
    data,        \* what the slots of each block hold
    elementsCompletelyDequeued,
    unused,      \* blocks never handed out: initial pool and heap
    pc, loc,     \* where each thread is, and its locals
    tailBlock    \* of each producer

indices == <<tailIndex, headIndex, dequeueOptimisticCount, dequeueOvercommit>>
entries == <<blockIndex, key, value>>
blocks == <<data, elementsCompletelyDequeued, unused>>
threads == <<pc, loc, tailBlock>>
vars == <<freeList, indices, entries, blocks, threads>>

Entries == 1 .. IndexSize * 2^(MaxHeaders - 1)
Base(i) == i - (i % BlockSize)
Current(p) == blockIndex[p][Len(blockIndex[p])]
Newest(p) == Current(p).slots[Current(p).tail]
Later(h, pos, k) == (pos + k) % Cardinality(DOMAIN h.slots)

NoCall == [n |-> 0, mode |-> "none", got |-> <<>>, entry |-> 0, left |-> {}, from |-> Null,
           count |-> 0, extra |-> 0, base |-> 0, header |-> 0, pos |-> 0, block |-> Null]

Init ==
    /\ FreeListInit
    /\ LET zero == [p \in Producers |-> 0]
       IN  /\ tailIndex = zero /\ headIndex = zero
           /\ dequeueOptimisticCount = zero /\ dequeueOvercommit = zero
    /\ blockIndex = [p \in Producers |->
                        <<[slots |-> [s \in 0 .. IndexSize - 1 |-> s + 1],
                           tail |-> IndexSize - 1]>>]
    /\ key = [p \in Producers |-> [e \in Entries |-> InvalidBase]]
    /\ value = [p \in Producers |-> [e \in Entries |-> Null]]
    /\ data = [b \in Blocks |-> [s \in 0 .. BlockSize - 1 |-> Null]]
    /\ elementsCompletelyDequeued = [b \in Blocks |-> 0]
    /\ unused = Blocks
    /\ pc = [t \in Threads |-> "idle"] /\ loc = [t \in Threads |-> NoCall]
    /\ tailBlock = [p \in Producers |-> Null]

Go(t, from, to) == pc[t] = from /\ pc' = [pc EXCEPT ![t] = to]
Set(t, field, v) == loc' = [loc EXCEPT ![t][field] = v]

-----------------------------------------------------------------------------
(* enqueue and enqueue_bulk *)

\* loc.got collects the blocks of a call, loc.entry the index entry for the next one.
BeginEnqueue(p, n, mode) ==
    /\ Go(p, "idle", "reserve")
    /\ tailIndex[p] + n <= MaxItems
    /\ loc' = [loc EXCEPT ![p] = [NoCall EXCEPT !.n = n, !.mode = mode]]
    /\ UNCHANGED <<freeList, indices, entries, blocks, tailBlock>>

\* The first index of the next block the call needs, if it needs one.
NextBase(p) == Base(tailIndex[p] + BlockSize - 1) + BlockSize * Len(loc[p].got)
NeedsBlock(p) == NextBase(p) < tailIndex[p] + loc[p].n
\* Mutant: the entry after the tail is taken whatever it holds.
HasRoomAlways(p) == TRUE
HasRoom(p) ==
    LET e == Current(p).slots[Later(Current(p), Current(p).tail, 1)]
    IN  key[p][e] = InvalidBase \/ value[p][e] = Null

InsertEntry(p) ==
    LET to == Later(Current(p), Current(p).tail, 1)
    IN  /\ Go(p, "reserve", "block")
        /\ NeedsBlock(p) /\ HasRoom(p)
        /\ key' = [key EXCEPT ![p][Current(p).slots[to]] = NextBase(p)]
        /\ blockIndex' = [blockIndex EXCEPT ![p][Len(blockIndex[p])].tail = to]
        /\ Set(p, "entry", Current(p).slots[to])
        /\ UNCHANGED <<freeList, indices, value, blocks, tailBlock>>

\* new_block_index: the old entries, oldest first, then as many new ones.
Grow(p) ==
    LET h == Current(p)
        size == Cardinality(DOMAIN h.slots)
    IN  /\ pc[p] = "reserve" /\ loc[p].mode = "CanAlloc"
        /\ NeedsBlock(p) /\ ~HasRoom(p) /\ Len(blockIndex[p]) < MaxHeaders
        /\ blockIndex' = [blockIndex EXCEPT ![p] = Append(@,
              [slots |-> [s \in 0 .. 2 * size - 1 |->
                            IF s < size THEN h.slots[Later(h, h.tail, s + 1)] ELSE s + 1],
               tail |-> size - 1])]
        /\ UNCHANGED <<freeList, indices, key, value, blocks, threads>>

NoRoom(p) ==
    /\ Go(p, "reserve", "undo")
    /\ NeedsBlock(p) /\ ~HasRoom(p)
    /\ loc[p].mode = "CannotAlloc" \/ Len(blockIndex[p]) = MaxHeaders
    /\ UNCHANGED <<freeList, indices, entries, blocks, loc, tailBlock>>

\* The block is reset and inserted into the index before an element is in it.
Use(p, b) ==
    /\ elementsCompletelyDequeued' = [elementsCompletelyDequeued EXCEPT ![b] = 0]
    /\ value' = [value EXCEPT ![p][loc[p].entry] = b]
    /\ loc' = [loc EXCEPT ![p].got = Append(@, b), ![p].entry = 0]

\* requisition_block: the initial pool, then the free list, then the heap.
FromPool(p) ==
    /\ Go(p, "block", "reserve")
    /\ \E b \in unused \cap Pool : Use(p, b) /\ unused' = unused \ {b}
    /\ UNCHANGED <<freeList, indices, blockIndex, key, data, tailBlock>>

FromFreeList(p) ==
    /\ Go(p, "block", "list")
    /\ unused \cap Pool = {} /\ CallTryGet(p)
    /\ UNCHANGED <<indices, entries, blocks, loc, tailBlock>>

GotBlock(p) ==
    /\ Go(p, "list", "reserve") /\ EndTryGet(p)
    /\ Cand(p) # Null /\ Use(p, Cand(p))
    /\ UNCHANGED <<indices, blockIndex, key, data, unused, tailBlock>>

FromHeap(p) ==
    /\ Go(p, "list", "reserve") /\ EndTryGet(p)
    /\ Cand(p) = Null /\ loc[p].mode = "CanAlloc"
    /\ \E b \in unused : Use(p, b) /\ unused' = unused \ {b}
    /\ UNCHANGED <<indices, blockIndex, key, data, tailBlock>>

Rewound(p, k) == [blockIndex EXCEPT ![p][Len(blockIndex[p])].tail = Later(Current(p), @, -k)]

NoBlock(p) ==
    /\ Go(p, "list", "undo") /\ EndTryGet(p)
    /\ Cand(p) = Null /\ (loc[p].mode = "CannotAlloc" \/ unused = {})
    /\ blockIndex' = Rewound(p, 1)
    /\ value' = [value EXCEPT ![p][loc[p].entry] = Null]
    /\ UNCHANGED <<indices, key, blocks, loc, tailBlock>>

\* A call that fails takes its blocks out of the index, then frees them one by one.
UndoIndex(p) ==
    LET mine(e) == \E i \in DOMAIN loc[p].got : value[p][e] = loc[p].got[i]
    IN  /\ Go(p, "undo", "free")
        /\ value' = [value EXCEPT ![p] = [e \in Entries |-> IF mine(e) THEN Null ELSE @[e]]]
        /\ blockIndex' = Rewound(p, Len(loc[p].got))
        /\ UNCHANGED <<freeList, indices, key, blocks, loc, tailBlock>>

UndoBlock(p) ==
    /\ pc[p] = "free" /\ loc[p].got # <<>>
    /\ CallAdd(p, Head(loc[p].got))
    /\ Set(p, "got", Tail(loc[p].got))
    /\ UNCHANGED <<indices, entries, blocks, pc, tailBlock>>

Refuse(p) ==
    /\ Go(p, "free", "idle") /\ fpc[p] = "idle" /\ loc[p].got = <<>>
    /\ loc' = [loc EXCEPT ![p] = NoCall]
    /\ UNCHANGED <<freeList, indices, entries, blocks, tailBlock>>

\* The elements are written block by block, the first ones to the block at the tail.
BlockOf(p, i) ==
    LET k == (Base(i) - Base(tailIndex[p] + BlockSize - 1)) \div BlockSize
    IN  IF k < 0 THEN tailBlock[p] ELSE loc[p].got[k + 1]

Place(p) ==
    LET new == tailIndex[p] .. tailIndex[p] + loc[p].n - 1
        at(b, s) == {i \in new : BlockOf(p, i) = b /\ i % BlockSize = s}
    IN  /\ Go(p, "reserve", "publish")
        /\ ~NeedsBlock(p)
        /\ data' = [b \in Blocks |-> [s \in 0 .. BlockSize - 1 |->
                      IF at(b, s) = {} THEN data[b][s]
                      ELSE <<p, CHOOSE i \in at(b, s) : TRUE>>]]
        /\ tailBlock' = [tailBlock EXCEPT ![p] = BlockOf(p, tailIndex[p] + loc[p].n - 1)]
        /\ UNCHANGED <<freeList, indices, entries, elementsCompletelyDequeued, unused, loc>>

Publish(p) ==
    /\ Go(p, "publish", "idle")
    /\ tailIndex' = [tailIndex EXCEPT ![p] = @ + loc[p].n]
    /\ loc' = [loc EXCEPT ![p] = NoCall]
    /\ UNCHANGED <<freeList, headIndex, dequeueOptimisticCount, dequeueOvercommit, entries,
                   blocks, tailBlock>>

Producer(p) ==
    \/ InsertEntry(p) \/ Grow(p) \/ NoRoom(p) \/ FromPool(p) \/ FromFreeList(p) \/ GotBlock(p)
    \/ FromHeap(p) \/ NoBlock(p) \/ UndoIndex(p) \/ UndoBlock(p) \/ Refuse(p) \/ Place(p)
    \/ Publish(p)

-----------------------------------------------------------------------------
(* try_dequeue and try_dequeue_bulk *)

Step(c, from, to) ==
    Go(c, from, to) /\ UNCHANGED <<freeList, indices, entries, blocks, tailBlock>>
From(c) == loc[c].from

\* A call for one element looks for the longest queue first.
BeginDequeue(c, n) ==
    /\ Step(c, "idle", IF n = 1 THEN "look" ELSE "turn")
    /\ \A p \in Producers : dequeueOvercommit[p] <= MaxOvercommit
    /\ loc' = [loc EXCEPT ![c] = [NoCall EXCEPT !.n = n, !.left = Producers]]

Look(c) ==
    /\ Step(c, "look", "look")
    /\ \E p \in loc[c].left :
          LET longer == tailIndex[p] - headIndex[p] > loc[c].count
          IN  loc' = [loc EXCEPT ![c].left = @ \ {p},
                                 ![c].count = IF longer THEN tailIndex[p] - headIndex[p] ELSE @,
                                 ![c].from = IF longer THEN p ELSE @]

Looked(c) ==
    /\ Step(c, "look", IF From(c) = Null THEN "idle" ELSE "tail")
    /\ loc[c].left = {}
    /\ loc' = [loc EXCEPT ![c] = IF From(c) = Null THEN NoCall
                                 ELSE [@ EXCEPT !.left = Producers \ {From(c)}]]

Turn(c) ==
    /\ Step(c, "turn", "tail")
    /\ loc[c].n > 0
    /\ \E p \in loc[c].left : loc' = [loc EXCEPT ![c].from = p, ![c].left = @ \ {p}]

EndDequeue(c) ==
    /\ Step(c, "turn", "idle")
    /\ loc[c].left = {} \/ loc[c].n = 0
    /\ loc' = [loc EXCEPT ![c] = NoCall]

\* What is left of a call once it is done with a producer it got k elements from.
Done(c, k) == [NoCall EXCEPT !.n = loc[c].n - k, !.left = loc[c].left]

-----------------------------------------------------------------------------
(* dequeue and dequeue_bulk: claim elements, then find their blocks *)

ReadTail(c) ==
    /\ Step(c, "tail", "overcommit")
    /\ Set(c, "count", tailIndex[From(c)])

ReadOvercommit(c) ==
    /\ Step(c, "overcommit", "optimistic")
    /\ Set(c, "base", dequeueOvercommit[From(c)])

ReadOptimistic(c) ==
    LET desired == loc[c].count - (dequeueOptimisticCount[From(c)] - loc[c].base)
    IN  /\ Step(c, "optimistic", IF desired > 0 THEN "claim" ELSE "turn")
        /\ IF desired > 0
           THEN Set(c, "count", IF desired < loc[c].n THEN desired ELSE loc[c].n)
           ELSE loc' = [loc EXCEPT ![c] = Done(c, 0)]

\* From here on base is myDequeueCount - overcommit.
Claim(c) ==
    LET p == From(c)
    IN  /\ Go(c, "claim", "verify")
        /\ dequeueOptimisticCount' = [dequeueOptimisticCount EXCEPT ![p] = @ + loc[c].count]
        /\ Set(c, "base", dequeueOptimisticCount[p] - loc[c].base)
        /\ UNCHANGED <<freeList, tailIndex, headIndex, dequeueOvercommit, entries, blocks,
                       tailBlock>>

\* Mutant: a call that gets some of what it claimed gives all of it back.
VerifyAll(c) ==
    LET there == tailIndex[From(c)] - loc[c].base
        actual == IF there < 0 THEN 0 ELSE IF there < loc[c].count THEN there ELSE loc[c].count
    IN  /\ Step(c, "verify", IF actual = loc[c].count THEN "head" ELSE "give")
        /\ loc' = [loc EXCEPT ![c].count = actual, ![c].extra = loc[c].count, ![c].base = 0]

Verify(c) ==
    LET there == tailIndex[From(c)] - loc[c].base
        actual == IF there < 0 THEN 0 ELSE IF there < loc[c].count THEN there ELSE loc[c].count
    IN  /\ Step(c, "verify", IF actual = loc[c].count THEN "head" ELSE "give")
        /\ loc' = [loc EXCEPT ![c].count = actual, ![c].extra = loc[c].count - actual, ![c].base = 0]

GiveBack(c) ==
    /\ Go(c, "give", IF loc[c].count = 0 THEN "turn" ELSE "head")
    /\ dequeueOvercommit' = [dequeueOvercommit EXCEPT ![From(c)] = @ + loc[c].extra]
    /\ loc' = [loc EXCEPT ![c] = IF loc[c].count = 0 THEN Done(c, 0) ELSE [@ EXCEPT !.extra = 0]]
    /\ UNCHANGED <<freeList, tailIndex, headIndex, dequeueOptimisticCount, entries, blocks,
                   tailBlock>>

\* From here on base is the next index to take and extra the end of the claim.
TakeHead(c) ==
    LET first == headIndex[From(c)]
    IN  /\ Go(c, "head", "header")
        /\ headIndex' = [headIndex EXCEPT ![From(c)] = @ + loc[c].count]
        /\ loc' = [loc EXCEPT ![c].base = first, ![c].extra = first + loc[c].count]
        /\ UNCHANGED <<freeList, tailIndex, dequeueOptimisticCount, dequeueOvercommit, entries,
                       blocks, tailBlock>>

Header(c) == blockIndex[From(c)][loc[c].header]
Entry(c) == Header(c).slots[loc[c].pos]

LoadHeader(c) ==
    /\ Step(c, "header", "slot")
    /\ Set(c, "header", Len(blockIndex[From(c)]))

LoadSlot(c) ==
    /\ Step(c, "slot", "key")
    /\ Set(c, "pos", Header(c).tail)

LoadKey(c) ==
    /\ Step(c, "key", "take")
    /\ Set(c, "pos", Later(Header(c), loc[c].pos,
                           (Base(loc[c].base) - key[From(c)][Entry(c)]) \div BlockSize))

-----------------------------------------------------------------------------
(* ... and take the elements, block by block *)

Take(c) ==
    /\ Step(c, "take", "read")
    /\ Set(c, "block", value[From(c)][Entry(c)])

\* The indices of the claim in the block it is at, and what the call is then left with.
Mine(c) == {i \in loc[c].base .. loc[c].extra - 1 : Base(i) = Base(loc[c].base)}
End(c) == loc[c].base + Cardinality(Mine(c))
Onward(c) == IF End(c) = loc[c].extra THEN "turn" ELSE "take"
NextBlock(c) ==
    IF End(c) = loc[c].extra THEN Done(c, loc[c].count)
    ELSE [loc[c] EXCEPT !.base = End(c), !.pos = Later(Header(c), @, 1), !.block = Null]

\* The elements are read, then counted as taken; the last one sees the block empty.
SetEmpty(c) ==
    LET b == loc[c].block
        taken == elementsCompletelyDequeued[b] + Cardinality(Mine(c))
    IN  /\ Go(c, "read", IF taken = BlockSize THEN "unindex" ELSE Onward(c))
        /\ elementsCompletelyDequeued' = [elementsCompletelyDequeued EXCEPT ![b] = taken]
        /\ loc' = [loc EXCEPT ![c] = IF taken = BlockSize THEN @ ELSE NextBlock(c)]
        /\ UNCHANGED <<freeList, indices, entries, data, unused, tailBlock>>

\* Mutant: the block is freed but stays in the index.
UnindexNot(c) ==
    /\ Go(c, "unindex", "free")
    /\ CallAdd(c, loc[c].block)
    /\ UNCHANGED <<indices, entries, blocks, loc, tailBlock>>

Unindex(c) ==
    /\ Go(c, "unindex", "free")
    /\ value' = [value EXCEPT ![From(c)][Entry(c)] = Null]
    /\ CallAdd(c, loc[c].block)
    /\ UNCHANGED <<indices, blockIndex, key, blocks, loc, tailBlock>>

Freed(c) ==
    /\ Step(c, "free", Onward(c)) /\ fpc[c] = "idle"
    /\ loc' = [loc EXCEPT ![c] = NextBlock(c)]

Consumer(c) ==
    \/ Look(c) \/ Looked(c) \/ Turn(c) \/ EndDequeue(c) \/ ReadTail(c) \/ ReadOvercommit(c)
    \/ ReadOptimistic(c) \/ Claim(c) \/ Verify(c) \/ GiveBack(c) \/ TakeHead(c)
    \/ LoadHeader(c) \/ LoadSlot(c) \/ LoadKey(c) \/ Take(c) \/ SetEmpty(c) \/ Unindex(c)
    \/ Freed(c)

-----------------------------------------------------------------------------
OnFreeList(t) ==
    FreeListStep(t) /\ UNCHANGED <<indices, entries, blocks, threads>>

Calls ==
    \/ \E p \in Producers, n \in Batches, mode \in {"CanAlloc", "CannotAlloc"} :
          BeginEnqueue(p, n, mode)
    \/ \E c \in Consumers, n \in Takes : BeginDequeue(c, n)

Next ==
    \/ Calls
    \/ \E p \in Producers : Producer(p)
    \/ \E c \in Consumers : Consumer(c)
    \/ \E t \in Threads : OnFreeList(t)

Spec == Init /\ [][Next]_vars

-----------------------------------------------------------------------------
\* While a consumer reads the elements it claimed, the block it found through the index
\* holds exactly them: no block is recycled, and no index entry reused, under it (the
\* asserts of get_block_index_index_for_index).
ElementsInPlace ==
    \A c \in Consumers : pc[c] = "read" =>
        /\ loc[c].block # Null
        /\ key[From(c)][Entry(c)] = Base(loc[c].base)
        /\ \A i \in Mine(c) : data[loc[c].block][i % BlockSize] = <<From(c), i>>

\* The counts of claims given and given back never let consumers take more elements than
\* were enqueued, and once no consumer is in a call nothing enqueued is out of reach.
ClaimsBalance ==
    \A p \in Producers :
        /\ headIndex[p] <= tailIndex[p]
        /\ (\A c \in Consumers : pc[c] = "idle") =>
              dequeueOptimisticCount[p] - dequeueOvercommit[p] = headIndex[p]

\* A block taken from the free list belongs to the thread alone until it is in the index.
Held(t) ==
    (IF fpc[t] = "add" THEN {Node(t)} ELSE IF fpc[t] \in {"unref", "got"} THEN {Cand(t)} ELSE {})
        \cup (IF t \in Producers /\ pc[t] = "free"
              THEN {loc[t].got[i] : i \in DOMAIN loc[t].got} ELSE {})

\* Every block is in one place: never handed out, on the free list, about to be pushed on
\* it, in a thread's hands or in the block index of one producer.  None is lost and none
\* is given to two, whatever the order in which references are let go of.
BlocksOnce ==
    \A b \in Blocks :
        LET inIndex == {x \in Producers \X Entries : value[x[1]][x[2]] = b}
            holders == {t \in Threads : b \in Held(t)}
            homes == {h \in {"unused", "list", "pending"} :
                        b \in CASE h = "unused" -> unused [] h = "list" -> OnList
                                 [] h = "pending" -> Pending}
        IN  Cardinality(inIndex) + Cardinality(holders) + Cardinality(homes) = 1
=============================================================================
