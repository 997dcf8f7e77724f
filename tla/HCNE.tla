-------------------------------- MODULE HCNE --------------------------------
(***************************************************************************)
(* AHEPartitioner::split(): the in-memory neighbour expansion that grows   *)
(* one partition after the other, the clean-up partition that takes what   *)
(* is left (assign_remaining), and the streaming of the edges between two  *)
(* high-degree vertices (random_streaming, the default second phase).      *)
(*                                                                         *)
(* The program is sequential.  An action is one edge visited by one of its *)
(* loops, or one decision of the loop over partitions; the order in which  *)
(* the code walks an adjacency list depends on earlier swaps with the last *)
(* entry and is left open, in-edges before out-edges or the reverse        *)
(* excepted, which the code fixes.                                         *)
(*                                                                         *)
(* Data abstracted: adj_in[v] and adj_out[v] are one set of edge positions *)
(* adj[v] (an edge is in adj_out of its first end and in adj_in of its     *)
(* second, and no edge is a loop); mark and mpids, written and cleared     *)
(* together, are one set; a heap is a function from its keys to their      *)
(* values; values are exact fractions where the code has doubles.          *)
(***************************************************************************)
EXTENDS Integers, FiniteSets, FiniteSetsExt, Functions

CONSTANTS
    N,           \* num_vertices
    P,           \* p, the number of partitions
    EdgeIds,     \* positions in the edge list
    Graphs,      \* the input graphs: functions from EdgeIds to end points
    Thresholds,  \* candidate values of high_degree_threshold
    Shares,      \* candidate relative speeds 1/bs[i] of the partitions
    CommCost,    \* p times the communication cost a core vertex would add
    VidRange,    \* how many values a vid_t has: 2^32
    NoPart

Vertices == 0 .. N - 1
Parts    == 0 .. P - 1
EndPoints == [first : Vertices, second : Vertices]

\* set_delta: sum, the relative speeds added up.
Total(s) == MapThenSumSet(LAMBDA i : s[i], Parts)

ASSUME SizeAssumption ==
    /\ N \in Nat \ {0}
    /\ P \in Nat \ {0}
    /\ CommCost \in Nat \ {0}
    /\ VidRange \in Nat \ {0}
ASSUME EdgesAssumption == IsFiniteSet(EdgeIds)
ASSUME NoPartAssumption == NoPart \notin Parts
\* The converter drops self-edges, so no input graph has one.
ASSUME GraphsAssumption ==
    \A g \in Graphs : /\ g \in [EdgeIds -> EndPoints]
                      /\ \A e \in EdgeIds : g[e].first # g[e].second
ASSUME SharesAssumption == Shares \subseteq [Parts -> Nat \ {0}]

VARIABLES
    edges,          \* end points of every edge; never changes
    h2h,            \* edges between two high-degree vertices; never changes
    capacities,     \* capacities[i], set by set_delta; never changes here
    pc,             \* where split() stands
    bucket,         \* the partition being filled
    vid,            \* occupy_vertex: the vertex turned into a core vertex
    cur,            \* add_boundary: the vertex whose edges are visited
    toScan,         \* the entries the current loop has still to visit
    mpids,          \* vertices the current occupy_vertex reached (and mark)
    adj,            \* adj_in[v] and adj_out[v] together
    valid,          \* edges[e].valid()
    owner,          \* the partition written for an edge by assign_edge
    assigned_edges, occupied, degrees, degree_temp,
    heap,           \* min_heap
    is_cores, is_boundarys

params == <<edges, h2h, capacities>>
vars == <<edges, h2h, capacities, pc, bucket, vid, cur, toScan, mpids, adj,
          valid, owner, assigned_edges, occupied, degrees, degree_temp, heap,
          is_cores, is_boundarys>>

-----------------------------------------------------------------------------
(* The graph.                                                              *)

Ends(e) == {edges[e].first, edges[e].second}
Other(e, v) == IF edges[e].first = v THEN edges[e].second ELSE edges[e].first
Incident(v) == {e \in EdgeIds : v \in Ends(e)}
Low == EdgeIds \ h2h

\* stream_build: both ends have more than high_degree_threshold edges.
IsH2H(e, t) == \A v \in Ends(e) : Cardinality(Incident(v)) > t

\* set_delta: the share of partition i is proportional to 1/bs[i], rounded up.  Its parameter
\* is a vid_t, so of n only the remainder arrives.  Where that is 0 the code computes a NaN,
\* which is neither above nor below a number; 0 stands for it.
Ceil(a, b) == (a + b - 1) \div b
SetDelta(n, s) == [i \in Parts |-> Ceil((n % VidRange) * s[i], Total(s))]

-----------------------------------------------------------------------------
(* Heap values.  update_min_heap_new computes, for a vertex v, the sum of  *)
(* update_tset over the far ends of its valid edges, plus 1/degree_temp[v].*)
(* A value is <<numerator, denominator>>.  min_comm is a vector<int> and   *)
(* every link cost is below 1, so the min_comm terms are 0.                *)

ValidAt(v) == adj[v] \cap valid

HaveEdge(lists, u) ==
    \E e \in lists[u] \cap valid :
        Other(e, u) \notin is_boundarys[bucket] \cap is_cores[bucket]

\* comm_temp can hold a cost other than 0 for (u, bucket) only once
\* undate_value(u, bucket) has run, which occupy_vertex does for the core
\* vertex it adds.  The model gives every core vertex such a cost;
\* CommTermVanishes shows that it is never read, whatever it is.
HasCommValue(u) == bucket # 0 /\ u \in is_cores[bucket]

\* p times update_tset(u).
UpdateTSet(lists, u) ==
    (IF HasCommValue(u) THEN P + CommCost ELSE 0)
      + (IF HaveEdge(lists, u) /\ ~HasCommValue(u) THEN P - 1 ELSE 0)

HeapValue(lists, v) ==
    LET tsets == MapThenSumSet(LAMBDA e : UpdateTSet(lists, Other(e, v)),
                               lists[v] \cap valid)
    IN  <<tsets * degree_temp[v] + P, P * degree_temp[v]>>

Leq(x, y) == x[1] * y[2] <= y[1] * x[2]
\* occupy_vertex takes the value as a vid_t: the fraction is cut off.
Truncate(x) == x[1] \div x[2]

IsMin(v) == v \in DOMAIN heap /\ \A w \in DOMAIN heap : Leq(heap[v], heap[w])

-----------------------------------------------------------------------------
(* get_free_vertex: from a random start the probe moves on by 1, 2, 3, ... *)
(* positions modulo num_vertices and gives up after num_vertices probes.   *)

Degree(v) == Cardinality(adj[v])

\* adj size above 2 * average_degree, average_degree = 2 |edges| / n.
TooLarge(v) == Degree(v) * N > 4 * Cardinality(Low)

Eligible(v) == /\ Degree(v) # 0
               /\ ~TooLarge(v)
               /\ v \notin is_cores[bucket]

Probe(start, c) == (start + (c * (c + 1)) \div 2) % N

ProbeStopsAt(start, c) ==
    /\ Eligible(Probe(start, c))
    /\ \A d \in 0 .. c - 1 : ~Eligible(Probe(start, d))

ProbeFails(start) == \A c \in 0 .. N - 1 : ~Eligible(Probe(start, c))

-----------------------------------------------------------------------------
(* assign_edge, add_boundary, occupy_vertex.                               *)

\* Mutated form: one edge too many.
HasRoomForOneMore == occupied[bucket] <= capacities[bucket]

HasRoom == occupied[bucket] < capacities[bucket]

\* Mutated form: only the first end loses a degree.
LessFirst(e) == [degrees EXCEPT ![edges[e].first] = @ - 1]

DegreesWithout(e) ==
    [v \in Vertices |-> IF v \in Ends(e) THEN degrees[v] - 1 ELSE degrees[v]]

AssignEdge(b, e) ==
    /\ owner' = [owner EXCEPT ![e] = b]
    /\ assigned_edges' = assigned_edges + 1
    /\ occupied' = [occupied EXCEPT ![b] = @ + 1]
    /\ degrees' = DegreesWithout(e)

\* add_boundary(v): return if v is in the boundary already, otherwise set
\* its bit and go through its edges (ScanEdge below is the loop body).
AddBoundary(v) ==
    IF v \in is_boundarys[bucket]
    THEN UNCHANGED <<is_boundarys, cur, toScan>>
    ELSE /\ is_boundarys' = [is_boundarys EXCEPT ![bucket] = @ \cup {v}]
         /\ cur' = v
         /\ toScan' = adj[v]

\* occupy_vertex(v, d) up to its first loop.  With d = 0 only the core bit
\* is set.
OccupyVertex(v, d) ==
    /\ is_cores' = [is_cores EXCEPT ![bucket] = @ \cup {v}]
    /\ IF d = 0
       THEN UNCHANGED <<pc, vid, cur, toScan, is_boundarys>>
       ELSE /\ pc' = "expand"
            /\ vid' = v
            /\ AddBoundary(v)

\* The entries of vid that the two loops of occupy_vertex still act on.
ToExpand == {e \in ValidAt(vid) : Other(e, vid) \notin mpids}

\* What occupy_vertex leaves of the lists of its vertex.
ClearedAdj(v) == [adj EXCEPT ![v] = {}]

\* The lists of v after the entry of e was swapped out.
WithoutEntry(v, e) == [adj EXCEPT ![v] = @ \ {e}]

-----------------------------------------------------------------------------

Init ==
    /\ edges \in Graphs
    /\ \A v \in Vertices : Incident(v) # {}
    /\ \E t \in Thresholds : h2h = {e \in EdgeIds : IsH2H(e, t)}
    /\ \E s \in Shares : capacities = SetDelta(Cardinality(Low), s)
    /\ pc = "select"
    /\ bucket = 0
    /\ vid = 0
    /\ cur = 0
    /\ toScan = {}
    /\ mpids = {}
    /\ adj = [v \in Vertices |-> Incident(v) \cap Low]
    /\ valid = Low
    /\ owner = [e \in EdgeIds |-> NoPart]
    /\ assigned_edges = 0
    /\ occupied = [b \in Parts |-> 0]
    /\ degrees = [v \in Vertices |-> Cardinality(Incident(v))]
    /\ degree_temp = [v \in Vertices |-> 0]
    /\ heap = [v \in {} |-> <<0, 1>>]
    /\ is_cores = [b \in Parts |-> {}]
    /\ is_boundarys = [b \in Parts |-> {}]

-----------------------------------------------------------------------------
(* The loop of split() over partitions 0 .. p - 2.                         *)

SelectFromHeap(v) ==
    /\ pc = "select" /\ bucket < P - 1
    /\ HasRoom
    /\ IsMin(v)
    /\ heap' = Restrict(heap, DOMAIN heap \ {v})
    /\ OccupyVertex(v, Truncate(heap[v]))
    /\ UNCHANGED <<params, bucket, mpids, adj, valid, owner, assigned_edges,
                   occupied, degrees, degree_temp>>

SelectFreeVertex(start, c) ==
    /\ pc = "select" /\ bucket < P - 1
    /\ HasRoom
    /\ DOMAIN heap = {}
    /\ ProbeStopsAt(start, c)
    /\ LET v == Probe(start, c) IN OccupyVertex(v, Degree(v))
    /\ UNCHANGED <<params, bucket, mpids, adj, valid, owner, assigned_edges,
                   occupied, degrees, degree_temp, heap>>

\* Mutated forms: the lists keep the entries of removed edges; the heap
\* survives the partition.
Unpurged(v) == adj[v]
KeptHeap == heap

Purged(v) == ValidAt(v)
NoKeys == [v \in {} |-> <<0, 1>>]

\* Leaving a partition: the heap is emptied, degree_temp reset and every
\* list purged of the entries of removed edges.
LeaveBucket ==
    /\ bucket' = bucket + 1
    /\ heap' = NoKeys
    /\ degree_temp' = [v \in Vertices |-> 0]
    /\ adj' = [v \in Vertices |-> Purged(v)]
    /\ UNCHANGED <<params, pc, vid, cur, toScan, mpids, valid, owner,
                   assigned_edges, occupied, degrees, is_cores, is_boundarys>>

BucketFull ==
    /\ pc = "select" /\ bucket < P - 1
    /\ ~HasRoom
    /\ LeaveBucket

\* Mutated form: the loop over partitions runs once too often.
StopsLate(start) ==
    /\ pc = "select" /\ bucket <= P - 1
    /\ DOMAIN heap = {} /\ ProbeFails(start)
    /\ LeaveBucket

BucketStop(start) ==
    /\ pc = "select" /\ bucket < P - 1
    /\ HasRoom
    /\ DOMAIN heap = {}
    /\ ProbeFails(start)
    /\ LeaveBucket

-----------------------------------------------------------------------------
(* add_boundary(cur): the loop over its edges, in-edges first.             *)

ScanNext(e) ==
    /\ pc = "expand"
    /\ e \in toScan
    /\ (\E f \in toScan : edges[f].second = cur) => edges[e].second = cur
    /\ toScan' = toScan \ {e}

\* Mutated form: degree_temp is not counted.
NotCounted(v) == degree_temp

Counted(v) == [degree_temp EXCEPT ![v] = @ + 1]
Removed(e) == valid \ {e}

\* The far end is a core vertex: the edge is taken whatever the capacity.
AssignToCore(e) ==
    /\ ScanNext(e)
    /\ e \in valid
    /\ Other(e, cur) \in is_cores[bucket]
    /\ AssignEdge(bucket, e)
    /\ degree_temp' = Counted(cur)
    /\ valid' = Removed(e)
    /\ adj' = WithoutEntry(cur, e)
    /\ UNCHANGED <<params, pc, bucket, vid, cur, mpids, heap, is_cores,
                   is_boundarys>>

\* The far end is in the boundary and there is room.  decrease_key, called
\* when the far end is not marked, returns without changing the heap once
\* its CHECKs have found the key.
AssignToBoundary(e) ==
    LET u == Other(e, cur) IN
    /\ ScanNext(e)
    /\ e \in valid
    /\ u \notin is_cores[bucket]
    /\ u \in is_boundarys[bucket]
    /\ HasRoom
    /\ AssignEdge(bucket, e)
    /\ degree_temp' = [v \in Vertices |-> IF v \in {cur, u}
                                          THEN degree_temp[v] + 1
                                          ELSE degree_temp[v]]
    /\ valid' = Removed(e)
    /\ adj' = WithoutEntry(cur, e)
    /\ UNCHANGED <<params, pc, bucket, vid, cur, mpids, heap, is_cores,
                   is_boundarys>>

\* Mutated forms: the capacity test guards core edges too; edges inside
\* the boundary are never taken.
StaysWhenFull(u) == ~(u \in is_boundarys[bucket] /\ HasRoom)
StaysInside(u) == u \notin is_cores[bucket]

Stays(u) == /\ u \notin is_cores[bucket]
            /\ ~(u \in is_boundarys[bucket] /\ HasRoom)

\* Mutated form: the loop does not move on from an edge that stays.
SkipStuck(e) ==
    /\ pc = "expand" /\ e \in toScan
    /\ e \in valid => Stays(Other(e, cur))
    /\ toScan' = toScan \ ({e} \ valid)
    /\ adj' = IF e \in valid THEN adj ELSE WithoutEntry(cur, e)
    /\ UNCHANGED <<params, pc, bucket, vid, cur, mpids, valid, owner,
                   assigned_edges, occupied, degrees, degree_temp, heap,
                   is_cores, is_boundarys>>

\* A valid edge stays in the list; the entry of a removed one is dropped.
SkipEdge(e) ==
    /\ ScanNext(e)
    /\ e \in valid => Stays(Other(e, cur))
    /\ adj' = IF e \in valid THEN adj ELSE WithoutEntry(cur, e)
    /\ UNCHANGED <<params, pc, bucket, vid, cur, mpids, valid, owner,
                   assigned_edges, occupied, degrees, degree_temp, heap,
                   is_cores, is_boundarys>>

-----------------------------------------------------------------------------
(* occupy_vertex(vid): the loops over its edges, out-edges first.          *)

ExpandEdge(e) ==
    /\ pc = "expand" /\ toScan = {}
    /\ e \in ToExpand
    /\ (\E f \in ToExpand : edges[f].first = vid) => edges[e].first = vid
    /\ mpids' = mpids \cup {Other(e, vid)}
    /\ AddBoundary(Other(e, vid))
    /\ UNCHANGED <<params, pc, bucket, vid, adj, valid, owner, assigned_edges,
                   occupied, degrees, degree_temp, heap, is_cores>>

\* Both loops are over: the lists of vid are cleared and every vertex
\* reached that is not a core vertex enters the heap.
FinishOccupy ==
    /\ pc = "expand" /\ toScan = {} /\ ToExpand = {}
    /\ adj' = ClearedAdj(vid)
    /\ heap' = [v \in DOMAIN heap \cup (mpids \ is_cores[bucket]) |->
                   IF v \in mpids \ is_cores[bucket] THEN HeapValue(adj', v)
                                                     ELSE heap[v]]
    /\ mpids' = {}
    /\ pc' = "select"
    /\ UNCHANGED <<params, bucket, vid, cur, toScan, valid, owner,
                   assigned_edges, occupied, degrees, degree_temp, is_cores,
                   is_boundarys>>

-----------------------------------------------------------------------------
(* assign_remaining: the last partition takes every valid edge found in an *)
(* adj_out list, whatever its capacity.                                    *)

\* Mutated form: a vertex some partition has reached is passed over.
StartAtFresh ==
    /\ pc = "select" /\ bucket = P - 1
    /\ pc' = "remaining"
    /\ toScan' = {e \in valid : \A b \in Parts :
                                    edges[e].first \notin is_boundarys[b]}
    /\ UNCHANGED <<params, bucket, vid, cur, mpids, adj, valid, owner,
                   assigned_edges, occupied, degrees, degree_temp, heap,
                   is_cores, is_boundarys>>

StartRemaining ==
    /\ pc = "select" /\ bucket = P - 1
    /\ pc' = "remaining"
    /\ toScan' = {e \in valid : e \in adj[edges[e].first]}
    /\ UNCHANGED <<params, bucket, vid, cur, mpids, adj, valid, owner,
                   assigned_edges, occupied, degrees, degree_temp, heap,
                   is_cores, is_boundarys>>

\* Mutated form: only the end whose list is read is marked.
AssignOneEnd(e) ==
    /\ pc = "remaining"
    /\ e \in toScan
    /\ toScan' = toScan \ {e}
    /\ AssignEdge(P - 1, e)
    /\ is_boundarys' = [is_boundarys EXCEPT ![P - 1] = @ \cup {edges[e].first}]
    /\ UNCHANGED <<params, pc, bucket, vid, cur, mpids, adj, valid,
                   degree_temp, heap, is_cores>>

AssignRemaining(e) ==
    /\ pc = "remaining"
    /\ e \in toScan
    /\ toScan' = toScan \ {e}
    /\ AssignEdge(P - 1, e)
    /\ is_boundarys' = [is_boundarys EXCEPT ![P - 1] = @ \cup Ends(e)]
    /\ UNCHANGED <<params, pc, bucket, vid, cur, mpids, adj, valid,
                   degree_temp, heap, is_cores>>

\* A vertex of the last partition that is a core vertex nowhere else
\* becomes one there; then the file of h2h edges is opened.
FinishRemaining ==
    /\ pc = "remaining" /\ toScan = {}
    /\ is_cores' = [is_cores EXCEPT ![P - 1] =
          {v \in Vertices :
              IF v \in is_boundarys[P - 1]
              THEN \A j \in 0 .. P - 2 : v \notin is_cores[j]
              ELSE v \in is_cores[P - 1]}]
    /\ pc' = "stream"
    /\ toScan' = h2h
    /\ UNCHANGED <<params, bucket, vid, cur, mpids, adj, valid, owner,
                   assigned_edges, occupied, degrees, degree_temp, heap,
                   is_boundarys>>

-----------------------------------------------------------------------------
(* random_streaming: rand() % p for every h2h edge.                        *)

StreamEdge(e, b) ==
    /\ pc = "stream"
    /\ e \in toScan
    /\ toScan' = toScan \ {e}
    /\ bucket' = b
    /\ AssignEdge(b, e)
    /\ is_boundarys' = [is_boundarys EXCEPT ![b] = @ \cup Ends(e)]
    /\ UNCHANGED <<params, pc, vid, cur, mpids, adj, valid, degree_temp, heap,
                   is_cores>>

FinishStream ==
    /\ pc = "stream" /\ toScan = {}
    /\ pc' = "done"
    /\ UNCHANGED <<params, bucket, vid, cur, toScan, mpids, adj, valid, owner,
                   assigned_edges, occupied, degrees, degree_temp, heap,
                   is_cores, is_boundarys>>

\* split() has returned.
Terminated == pc = "done" /\ UNCHANGED vars

-----------------------------------------------------------------------------

NextExpansion ==
    \/ \E v \in Vertices : SelectFromHeap(v)
    \/ \E start \in Vertices, c \in 0 .. N - 1 : SelectFreeVertex(start, c)
    \/ BucketFull
    \/ \E start \in Vertices : BucketStop(start)
    \/ \E e \in EdgeIds : \/ AssignToCore(e)
                          \/ AssignToBoundary(e)
                          \/ SkipEdge(e)
                          \/ ExpandEdge(e)
    \/ FinishOccupy

NextRemaining ==
    \/ StartRemaining
    \/ \E e \in EdgeIds : AssignRemaining(e)
    \/ FinishRemaining

NextStreaming ==
    \/ \E e \in EdgeIds, b \in Parts : StreamEdge(e, b)
    \/ FinishStream

Next == NextExpansion \/ NextRemaining \/ NextStreaming \/ Terminated

Spec == Init /\ [][Next]_vars

-----------------------------------------------------------------------------
(* Properties.                                                             *)

Expanding == pc \in {"select", "expand"}
Owned(b) == {e \in EdgeIds : owner[e] = b}
Covered(b) == UNION {Ends(e) : e \in Owned(b)}
Unassigned == {e \in EdgeIds : owner[e] = NoPart}

\* The types of the variables.
TypeOK ==
    /\ edges \in [EdgeIds -> EndPoints]
    /\ h2h \subseteq EdgeIds
    /\ pc \in {"select", "expand", "remaining", "stream", "hcsg", "done"}
    /\ bucket \in Parts
    /\ vid \in Vertices /\ cur \in Vertices
    /\ toScan \subseteq EdgeIds
    /\ mpids \subseteq Vertices
    /\ adj \in [Vertices -> SUBSET EdgeIds]
    /\ valid \subseteq EdgeIds
    /\ owner \in [EdgeIds -> Parts \cup {NoPart}]
    /\ assigned_edges \in Nat
    /\ occupied \in [Parts -> Nat]
    /\ degrees \in [Vertices -> Int]
    /\ degree_temp \in [Vertices -> Nat]
    /\ DOMAIN heap \subseteq Vertices
    /\ is_cores \in [Parts -> SUBSET Vertices]
    /\ is_boundarys \in [Parts -> SUBSET Vertices]

\* No edge is lost: at every moment an edge without a partition can still be
\* reached by the loops to come.  While partitions are grown, an unassigned
\* low-degree edge is valid and stands in the lists of both its ends, in
\* spite of the clearing of lists in occupy_vertex and of the swaps with the
\* last entry in add_boundary; afterwards it is still to be visited by
\* assign_remaining or by the streaming, and nothing is left at the end.
NoEdgeLost ==
    /\ Expanding => \A e \in Unassigned \cap Low :
                        e \in valid /\ \A v \in Ends(e) : e \in adj[v]
    /\ pc = "remaining" => Unassigned \cap Low = toScan
    /\ pc = "stream" => Unassigned = toScan
    /\ pc = "done" => Unassigned = {}

\* The last line of split(): CHECK_EQ(assigned_edges, num_edges), where
\* num_edges has become the number of low-degree and streamed edges.
AllEdgesCounted == pc = "done" => assigned_edges = Cardinality(EdgeIds)

\* The heap and the vertices reached by the running occupy_vertex are
\* together the boundary vertices that are not core vertices, and they do
\* not overlap.  The key looked up by decrease_key is therefore always in the
\* heap ("key not found"), no vertex enters the heap twice, and a vertex
\* taken from the heap is not a core vertex ("add ... to core again").
HeapIsFrontier ==
    /\ Expanding => /\ DOMAIN heap \cup mpids = is_boundarys[bucket] \ is_cores[bucket]
                    /\ DOMAIN heap \cap mpids = {}
    /\ pc = "select" => mpids = {}
    /\ Expanding => is_cores[bucket] \subseteq is_boundarys[bucket]

\* Whenever split() chooses the next vertex, the boundary bitset of every
\* partition is exactly the set of end points of its edges; so it is at the
\* end, where count_mirrors adds the bitsets up.
BoundaryIsCovered ==
    pc # "expand" => \A b \in Parts : is_boundarys[b] = Covered(b)

\* As long as a partition has room, no unassigned edge joins two of its
\* boundary vertices: the expansion leaves no edge inside a region behind.
BoundaryIsClosed ==
    pc = "select" /\ HasRoom =>
        \A e \in valid : ~(Ends(e) \subseteq is_boundarys[bucket])

\* No valid edge of a vertex about to enter the heap leads to a core vertex,
\* so the communication cost held in comm_temp never enters a heap value:
\* the order of the heap depends on numbers of edges only.
CommTermVanishes ==
    pc = "expand" /\ toScan = {} /\ ToExpand = {} =>
        \A v \in mpids, e \in valid :
            v \in Ends(e) => ~HasCommValue(Other(e, v))

\* 1/degree_temp[v], the last term of a heap value, is never a division by 0.
HeapValueDefined ==
    pc = "expand" /\ toScan = {} /\ ToExpand = {} =>
        \A v \in mpids : degree_temp[v] > 0

\* degrees[v] is the number of edges of v not assigned yet, streamed edges
\* included: the unsigned counters never wrap around, and both ends of an
\* edge being streamed still count it, which keeps the denominators of the
\* streaming scores positive.
DegreesExact ==
    \A v \in Vertices : degrees[v] = Cardinality(Incident(v) \cap Unassigned)

\* A partition grown by expansion exceeds its capacity by edges of its core
\* vertices only: it has such an edge as soon as it has any, and the others
\* are fewer than the capacity.
Peripheral(b) == {e \in Owned(b) : Ends(e) \cap is_cores[b] = {}}
OvershootOnlyAtCores ==
    pc \in {"select", "expand", "remaining"} =>
        \A b \in 0 .. P - 2 : Owned(b) # {} =>
            /\ Peripheral(b) # Owned(b)
            /\ Cardinality(Peripheral(b)) < capacities[b]

\* split() returns.
Termination == <>(pc = "done")

\* What split() promises to its caller.
Promise == INSTANCE EdgePartition WITH
    finished <- pc = "done",
    replicas <- IF pc = "done" THEN is_boundarys ELSE [b \in Parts |-> {}]
PromiseKept == Promise!Spec

-----------------------------------------------------------------------------
(* What a message of the program says and the code does not do.            *)

\* The message of ahep_partitioner.cpp:236, "partition ... stop: no free
\* vertices": a partition with room is left only when no vertex is free.
StopMeansNoFreeVertex ==
    [][bucket' = bucket + 1 /\ pc = "select" /\ HasRoom
           => ~\E v \in Vertices : Eligible(v)]_vars
=============================================================================
