----------------------------- MODULE HCNEProofs -----------------------------
(***************************************************************************)
(* Proofs about split(): about its first phase (HCNE), for every graph,    *)
(* every number of partitions and every capacity; about the second phase   *)
(* that scores the partitions (HCSG), for all costs; and about the records *)
(* of communication cost (CommTable), for all links between at most ten    *)
(* partitions.                                                             *)
(***************************************************************************)
EXTENDS HCNEInv, HCSG, CommTable, FoldProofs, FiniteSetTheorems, TLAPS

-----------------------------------------------------------------------------
(* Facts about the constants and the operators.                            *)

\* A probe is a vertex.
LEMMA ProbeIsVertex ==
    ASSUME NEW start \in Vertices, NEW c \in 0 .. N - 1
    PROVE  Probe(start, c) \in Vertices
<1>1. (c * (c + 1)) \div 2 \in Nat
  <2>1. c * (c + 1) \in Nat
    BY SizeAssumption
  <2>2. \A x \in Nat : x \div 2 \in Nat
    OBVIOUS
  <2> QED
    BY <2>1, <2>2
<1>2. \A x \in Nat : (start + x) % N \in 0 .. N - 1
  BY SizeAssumption DEF Vertices
<1> QED
  BY <1>1, <1>2 DEF Probe, Vertices

\* The two ends of an edge.
LEMMA EndsOfEdge ==
    ASSUME edges \in Graphs, NEW e \in EdgeIds
    PROVE  /\ edges[e].first \in Vertices
           /\ edges[e].second \in Vertices
           /\ NotLoop(e)
           /\ Ends(e) \subseteq Vertices
           /\ \A v \in Ends(e) : /\ Other(e, v) \in Vertices
                                 /\ Ends(e) = {v, Other(e, v)}
                                 /\ Other(e, v) # v
BY GraphsAssumption DEF Ends, Other, EndPoints, NotLoop

\* The relative speeds add up to a positive number.
LEMMA TotalIsPositive ==
    ASSUME NEW s \in [Parts -> Nat \ {0}]
    PROVE  Total(s) \in Nat \ {0}
<1>1. IsFiniteSet(Parts) /\ 0 \in Parts
  BY SizeAssumption, FS_Interval DEF Parts
<1>2. Total(s) = SumOver(s, Parts)
  BY DEF Total, SumOver
<1>3. \A i \in Parts : s[i] \in Nat
  OBVIOUS
<1>4. SumOver(s, Parts) \in Nat /\ s[0] <= SumOver(s, Parts)
  BY <1>1, <1>3, SumNatural
<1>5. s[0] \in Nat \ {0}
  BY <1>1
<1> QED
  BY <1>2, <1>4, <1>5

\* The capacities are natural numbers.
LEMMA SetDeltaType ==
    ASSUME NEW n \in Nat, NEW s \in [Parts -> Nat \ {0}]
    PROVE  SetDelta(n, s) \in [Parts -> Nat]
<1>1. \A x \in Nat, y \in Nat \ {0} : Ceil(x, y) \in Nat
  BY DEF Ceil
<1>2. n % VidRange \in Nat
  BY SizeAssumption
<1>3. \A m \in Nat : \A i \in Parts : m * s[i] \in Nat
  OBVIOUS
<1> QED
  BY <1>1, <1>2, <1>3, TotalIsPositive DEF SetDelta

-----------------------------------------------------------------------------
(* Type correctness.                                                       *)

TypeInv == TypeOK /\ InputOK

LEMMA InitTypeInv == Init => TypeInv
<1> SUFFICES ASSUME Init PROVE TypeInv
  OBVIOUS
<1>1. \A S \in SUBSET EdgeIds : IsFiniteSet(S) /\ Cardinality(S) \in Nat
  BY EdgesAssumption, FS_Subset, FS_CardinalityType
<1>2. capacities \in [Parts -> Nat]
  <2>1. PICK s \in Shares : capacities = SetDelta(Cardinality(Low), s)
    BY DEF Init
  <2>2. Cardinality(Low) \in Nat
    BY <1>1 DEF Low
  <2> QED
    BY <2>1, <2>2, SharesAssumption, SetDeltaType
<1>3. degrees \in [Vertices -> Int]
  BY <1>1 DEF Init, Incident
<1>4. edges \in Graphs /\ edges \in [EdgeIds -> EndPoints] /\ h2h \subseteq EdgeIds
  BY GraphsAssumption DEF Init
<1>5. adj \in [Vertices -> SUBSET EdgeIds]
  BY DEF Init, Incident, Low
<1> QED
  BY <1>2, <1>3, <1>4, <1>5, SizeAssumption
  DEF Init, TypeInv, TypeOK, InputOK, Low, Parts, Vertices

\* What the lemmas about an assignment need.
LedgerTypes ==
    /\ edges \in Graphs /\ edges \in [EdgeIds -> EndPoints]
    /\ owner \in [EdgeIds -> Parts \cup {NoPart}]
    /\ assigned_edges \in Nat
    /\ occupied \in [Parts -> Nat]
    /\ degrees \in [Vertices -> Int]

LEMMA LedgerTyped == TypeInv => LedgerTypes
BY DEF TypeInv, TypeOK, InputOK, LedgerTypes

LEMMA AssignEdgeType ==
    ASSUME LedgerTypes, NEW b \in Parts, NEW e \in EdgeIds, AssignEdge(b, e)
    PROVE  /\ owner' \in [EdgeIds -> Parts \cup {NoPart}]
           /\ assigned_edges' \in Nat
           /\ occupied' \in [Parts -> Nat]
           /\ degrees' \in [Vertices -> Int]
BY DEF LedgerTypes, AssignEdge, DegreesWithout

LEMMA AddBoundaryType ==
    ASSUME TypeInv, NEW v \in Vertices, AddBoundary(v)
    PROVE  /\ is_boundarys' \in [Parts -> SUBSET Vertices]
           /\ cur' \in Vertices
           /\ toScan' \subseteq EdgeIds
BY DEF TypeInv, TypeOK, AddBoundary

LEMMA OccupyVertexType ==
    ASSUME TypeInv, NEW v \in Vertices, NEW d, OccupyVertex(v, d), pc = "select"
    PROVE  /\ is_boundarys' \in [Parts -> SUBSET Vertices]
           /\ is_cores' \in [Parts -> SUBSET Vertices]
           /\ cur' \in Vertices /\ vid' \in Vertices
           /\ toScan' \subseteq EdgeIds
           /\ pc' \in {"select", "expand"}
BY AddBoundaryType DEF TypeInv, TypeOK, OccupyVertex

LEMMA StepTypeInv == TypeInv /\ [Next]_vars => TypeInv'
<1> SUFFICES ASSUME TypeInv, [Next]_vars PROVE TypeInv'
  OBVIOUS
<1> USE DEF TypeInv, TypeOK, InputOK
<1> P - 1 \in Parts
  BY SizeAssumption DEF Parts
<1>1. ASSUME NEW v \in Vertices, SelectFromHeap(v) PROVE TypeInv'
  <2>1. DOMAIN heap' \subseteq Vertices
    BY <1>1 DEF SelectFromHeap, Restrict
  <2> QED
    BY <1>1, <2>1, OccupyVertexType DEF SelectFromHeap, params
<1>2. ASSUME NEW start \in Vertices, NEW c \in 0 .. N - 1, SelectFreeVertex(start, c)
      PROVE TypeInv'
  BY <1>2, ProbeIsVertex, OccupyVertexType DEF SelectFreeVertex, params
<1>3. ASSUME BucketFull \/ \E start \in Vertices : BucketStop(start)
      PROVE TypeInv'
  <2>1. bucket < P - 1 /\ LeaveBucket
    BY <1>3 DEF BucketFull, BucketStop
  <2>2. bucket' \in Parts
    BY <2>1, SizeAssumption DEF LeaveBucket, Parts
  <2> QED
    BY <2>1, <2>2 DEF LeaveBucket, params, NoKeys, Purged, ValidAt
<1>4. ASSUME NEW e \in EdgeIds, AssignToCore(e) PROVE TypeInv'
  BY <1>4, AssignEdgeType, LedgerTyped
  DEF AssignToCore, ScanNext, Counted, Removed, WithoutEntry, params
<1>5. ASSUME NEW e \in EdgeIds, AssignToBoundary(e) PROVE TypeInv'
  BY <1>5, AssignEdgeType, LedgerTyped
  DEF AssignToBoundary, ScanNext, Removed, WithoutEntry, params
<1>6. ASSUME NEW e \in EdgeIds, SkipEdge(e) PROVE TypeInv'
  BY <1>6 DEF SkipEdge, ScanNext, WithoutEntry, params
<1>7. ASSUME NEW e \in EdgeIds, ExpandEdge(e) PROVE TypeInv'
  <2>1. Other(e, vid) \in Vertices
    BY DEF Other, EndPoints
  <2> QED
    BY <1>7, <2>1, AddBoundaryType DEF ExpandEdge, params
<1>8. CASE FinishOccupy
  <2>1. DOMAIN heap' \subseteq Vertices
    BY <1>8 DEF FinishOccupy
  <2> QED
    BY <1>8, <2>1 DEF FinishOccupy, ClearedAdj, params
<1>9. CASE StartRemaining
  BY <1>9 DEF StartRemaining, params
<1>10. ASSUME NEW e \in EdgeIds, AssignRemaining(e) PROVE TypeInv'
  BY <1>10, AssignEdgeType, LedgerTyped, EndsOfEdge DEF AssignRemaining, params
<1>11. CASE FinishRemaining
  BY <1>11 DEF FinishRemaining, params
<1>12. ASSUME NEW e \in EdgeIds, NEW b \in Parts, StreamEdge(e, b) PROVE TypeInv'
  BY <1>12, AssignEdgeType, LedgerTyped, EndsOfEdge DEF StreamEdge, params
<1>13. CASE FinishStream
  BY <1>13 DEF FinishStream, params
<1>14. CASE UNCHANGED vars
  BY <1>14 DEF vars
<1> QED
  BY <1>1, <1>2, <1>3, <1>4, <1>5, <1>6, <1>7, <1>8, <1>9, <1>10, <1>11,
     <1>12, <1>13, <1>14
  DEF Next, NextExpansion, NextRemaining, NextStreaming, Terminated

\* Every variable keeps its type in every behaviour of split().
THEOREM TypeCorrect == Spec => []TypeOK
<1>1. TypeInv => TypeOK
  BY DEF TypeInv
<1> QED
  BY <1>1, InitTypeInv, StepTypeInv, PTL DEF Spec

-----------------------------------------------------------------------------
(* The structures of the expansion: which edges are pending, what the      *)
(* lists hold, what the bitsets and the heap hold.                         *)

SInv ==
    /\ TypeInv
    /\ PendingOK
    /\ ListsOK
    /\ FrontierOK
    /\ ScanOK
    /\ InsideOK

LEMMA InitSInv == Init => SInv
<1> SUFFICES ASSUME Init PROVE SInv
  OBVIOUS
<1>1. TypeInv
  BY InitTypeInv
<1>2. PendingOK
  BY NoPartAssumption, <1>1
  DEF Init, PendingOK, Expanding, Unassigned, Low, TypeInv, InputOK
<1>3. ListsOK
  <2>1. \A e \in valid : \A v \in Ends(e) : e \in adj[v]
    BY <1>1, EndsOfEdge DEF Init, Incident, Low, TypeInv, InputOK
  <2>2. \A v \in Vertices : adj[v] \subseteq Incident(v) \cap Low /\ adj[v] \subseteq valid
    BY DEF Init
  <2> QED
    BY <2>1, <2>2 DEF ListsOK
<1>4. FrontierOK /\ ScanOK
  BY <1>1 DEF Init, FrontierOK, ScanOK, Expanding, Core, Boundary, TypeInv, TypeOK
<1>5. InsideOK
  BY <1>1, EndsOfEdge
  DEF Init, InsideOK, Inside, Boundary, Ends, TypeInv, TypeOK, InputOK
<1> QED
  BY <1>1, <1>2, <1>3, <1>4, <1>5 DEF SInv

LEMMA SelectFromHeapSInv ==
    ASSUME SInv, TypeInv', NEW v \in Vertices, SelectFromHeap(v)
    PROVE  SInv'
<1> USE DEF SInv, TypeInv, TypeOK
<1>1. v \in Boundary \ Core /\ v \in DOMAIN heap /\ mpids = {} /\ toScan = {}
  BY DEF SelectFromHeap, IsMin, FrontierOK, ScanOK, Expanding
<1>2. /\ UNCHANGED <<params, bucket, mpids, adj, valid, owner, occupied, is_boundarys,
                      cur, toScan>>
      /\ is_cores' = [is_cores EXCEPT ![bucket] = @ \cup {v}]
      /\ pc' \in {"select", "expand"}
      /\ pc' = "expand" => vid' = v
      /\ bucket < P - 1
  BY <1>1 DEF SelectFromHeap, OccupyVertex, AddBoundary, Boundary, params
<1>3. DOMAIN heap' = DOMAIN heap \ {v}
  BY DEF SelectFromHeap, Restrict
<1>4. Core' = Core \cup {v} /\ Boundary' = Boundary
  BY <1>2 DEF Core, Boundary
<1>5. PendingOK'
  BY <1>2 DEF SelectFromHeap, PendingOK, Expanding, Unassigned, Low, params
<1>6. ListsOK'
  BY <1>2, <1>4 DEF SelectFromHeap, ListsOK, Expanding, Incident, Low, Ends, params
<1>7. FrontierOK'
  <2>1. \A b \in Parts : b > bucket => is_cores'[b] = {} /\ is_boundarys'[b] = {}
    BY <1>2 DEF SelectFromHeap, FrontierOK, Expanding, Parts
  <2>2. /\ Core' \subseteq Boundary'
        /\ DOMAIN heap' \cup mpids' = Boundary' \ Core'
        /\ DOMAIN heap' \cap mpids' = {}
    BY <1>1, <1>2, <1>3, <1>4 DEF SelectFromHeap, FrontierOK, Expanding
  <2> QED
    BY <1>2, <2>1, <2>2 DEF FrontierOK
<1>8. ScanOK'
  BY <1>1, <1>2, <1>4 DEF ScanOK
<1>9. InsideOK'
  <2>1. HasRoom
    BY DEF SelectFromHeap
  <2>2. \A e \in valid : ~Inside(e)
    BY <1>1, <2>1 DEF InsideOK, SelectFromHeap, Expanding
  <2> QED
    BY <1>2, <1>4, <2>2 DEF InsideOK, Inside, Ends, params
<1> QED
  BY <1>5, <1>6, <1>7, <1>8, <1>9

\* The effect of SelectFreeVertex: a vertex outside the boundary becomes the
\* core vertex to expand.
FreeVertexTaken(v) ==
    /\ v \in Vertices \ Boundary
    /\ adj[v] # {}
    /\ DOMAIN heap = {} /\ mpids = {} /\ toScan = {} /\ Boundary = Core
    /\ UNCHANGED <<params, bucket, mpids, adj, valid, owner, assigned_edges,
                   occupied, degrees, degree_temp, heap>>
    /\ bucket < P - 1 /\ pc = "select"
    /\ pc' = "expand" /\ vid' = v /\ cur' = v
    /\ is_cores' = [is_cores EXCEPT ![bucket] = @ \cup {v}]
    /\ is_boundarys' = [is_boundarys EXCEPT ![bucket] = @ \cup {v}]
    /\ toScan' = adj[v]

LEMMA SelectFreeVertexEffect ==
    ASSUME SInv, NEW start \in Vertices, NEW c \in 0 .. N - 1,
           SelectFreeVertex(start, c)
    PROVE  \E v \in Vertices : FreeVertexTaken(v)
<1> DEFINE v == Probe(start, c)
<1>1. v \in Vertices
  BY ProbeIsVertex
<1>2. Degree(v) # 0 /\ v \notin Core
  BY DEF SelectFreeVertex, ProbeStopsAt, Eligible, Core
<1>3. adj[v] # {}
  BY <1>2, FS_EmptySet DEF Degree
<1>4. Boundary = Core /\ mpids = {} /\ toScan = {} /\ DOMAIN heap = {}
  BY DEF SelectFreeVertex, SInv, FrontierOK, ScanOK, Expanding
<1>5. OccupyVertex(v, Degree(v))
  BY DEF SelectFreeVertex
<1>6. /\ is_boundarys' = [is_boundarys EXCEPT ![bucket] = @ \cup {v}]
      /\ cur' = v /\ toScan' = adj[v]
      /\ is_cores' = [is_cores EXCEPT ![bucket] = @ \cup {v}]
      /\ pc' = "expand" /\ vid' = v
  BY <1>2, <1>4, <1>5 DEF OccupyVertex, AddBoundary, Boundary
<1> QED
  BY <1>1, <1>2, <1>3, <1>4, <1>6 DEF SelectFreeVertex, FreeVertexTaken

LEMMA SelectFreeVertexSInv ==
    ASSUME SInv, TypeInv', NEW v \in Vertices, FreeVertexTaken(v)
    PROVE  SInv'
<1> USE DEF SInv, TypeInv, TypeOK, FreeVertexTaken
<1>1. Core' = Core \cup {v} /\ Boundary' = Boundary \cup {v}
  BY DEF Core, Boundary
<1>2. PendingOK'
  BY DEF PendingOK, Expanding, Unassigned, Low, params
<1>3. ListsOK'
  BY <1>1 DEF ListsOK, Expanding, Incident, Low, Ends, params
<1>4. FrontierOK'
  <2>1. \A b \in Parts : b > bucket => is_cores'[b] = {} /\ is_boundarys'[b] = {}
    BY DEF FrontierOK, Expanding, Parts
  <2>2. /\ Core' \subseteq Boundary'
        /\ DOMAIN heap' \cup mpids' = Boundary' \ Core'
        /\ DOMAIN heap' \cap mpids' = {}
    BY <1>1
  <2> QED
    BY <2>1, <2>2 DEF FrontierOK
<1>5. ScanOK'
  BY <1>1 DEF ScanOK
<1>6. InsideOK'
  <2> SUFFICES ASSUME NEW e \in valid, Inside(e)', e \notin toScan'
               PROVE  (~HasRoom /\ Ends(e) \cap Core = {})'
    BY DEF InsideOK
  <2>1. e \in EdgeIds /\ v \notin Ends(e)
    BY DEF ListsOK, Expanding
  <2>2. Inside(e) /\ Ends(e)' = Ends(e)
    BY <1>1, <2>1 DEF Inside, Ends, params
  <2>3. ~HasRoom /\ Ends(e) \cap Core = {}
    BY <2>2 DEF InsideOK, Expanding
  <2> QED
    BY <1>1, <2>1, <2>2, <2>3 DEF HasRoom, params
<1> QED
  BY <1>2, <1>3, <1>4, <1>5, <1>6

\* The next partition starts from nothing.
LEMMA NextIsFresh ==
    ASSUME FrontierOK, bucket \in Parts, P \in Nat, LeaveBucket, pc = "select", bucket < P - 1
    PROVE  Core' = {} /\ Boundary' = {}
<1>1. bucket' \in Parts /\ bucket' > bucket
  BY DEF LeaveBucket, Parts
<1>2. is_cores[bucket'] = {} /\ is_boundarys[bucket'] = {}
  BY <1>1 DEF FrontierOK, Expanding
<1> QED
  BY <1>2 DEF Core, Boundary, LeaveBucket

LEMMA LeaveBucketSInv ==
    ASSUME SInv, TypeInv', LeaveBucket, pc = "select", bucket < P - 1
    PROVE  SInv'
<1>1. Core' = {} /\ Boundary' = {}
  <2>1. bucket \in Parts /\ P \in Nat
    BY SizeAssumption DEF SInv, TypeInv, TypeOK
  <2> QED
    BY <2>1, NextIsFresh DEF SInv
<1> USE DEF SInv, TypeInv, TypeOK, LeaveBucket
<1>2. PendingOK'
  BY DEF PendingOK, Expanding, Unassigned, Low, params
<1>3. ListsOK'
  <2>1. \A v \in Vertices : adj'[v] = adj[v] \cap valid
    BY DEF Purged, ValidAt
  <2>2. \A e \in valid : \A v \in Ends(e) : v \in Vertices
    BY EndsOfEdge DEF InputOK
  <2>3. UNCHANGED <<edges, h2h, valid, pc>>
    BY DEF params
  <2> QED
    BY <2>1, <2>2, <2>3 DEF ListsOK, Expanding, Incident, Low, Ends
<1>4. FrontierOK'
  <2>1. \A b \in Parts : b > bucket' => is_cores'[b] = {} /\ is_boundarys'[b] = {}
    BY DEF FrontierOK, Expanding, Parts
  <2>2. DOMAIN heap' = {} /\ mpids' = {}
    BY DEF NoKeys, ScanOK
  <2> QED
    BY <1>1, <2>1, <2>2 DEF FrontierOK
<1>5. ScanOK'
  BY DEF ScanOK
<1>6. InsideOK'
  BY <1>1 DEF InsideOK, Inside, Ends
<1> QED
  BY <1>2, <1>3, <1>4, <1>5, <1>6

\* The effect shared by AssignToCore and AssignToBoundary.
EdgeTaken(e) ==
    /\ pc = "expand" /\ UNCHANGED pc
    /\ e \in toScan \cap valid /\ toScan' = toScan \ {e}
    /\ Other(e, cur) \in Boundary
    /\ AssignEdge(bucket, e)
    /\ valid' = valid \ {e}
    /\ adj' = [adj EXCEPT ![cur] = @ \ {e}]
    /\ UNCHANGED <<params, bucket, vid, cur, mpids, heap, is_cores, is_boundarys>>

LEMMA EdgeTakenEffect ==
    ASSUME SInv, NEW e \in EdgeIds, AssignToCore(e) \/ AssignToBoundary(e)
    PROVE  EdgeTaken(e)
<1>1. CASE AssignToCore(e)
  BY <1>1
  DEF AssignToCore, ScanNext, EdgeTaken, Removed, WithoutEntry, SInv, FrontierOK,
      Expanding, Core, Boundary
<1>2. CASE AssignToBoundary(e)
  BY <1>2 DEF AssignToBoundary, ScanNext, EdgeTaken, Removed, WithoutEntry, Boundary
<1> QED
  BY <1>1, <1>2

\* An edge being visited joins cur to the vertex at its far end.
LEMMA ScannedEdge ==
    ASSUME SInv, pc = "expand", NEW e \in toScan
    PROVE  /\ e \in EdgeIds /\ e \in adj[cur] /\ cur \in Boundary /\ cur \in Ends(e)
           /\ Ends(e) = {cur, Other(e, cur)} /\ Other(e, cur) \in Vertices
           /\ Other(e, cur) # cur
<1>1. e \in EdgeIds /\ e \in adj[cur] /\ cur \in Boundary
  BY DEF SInv, TypeInv, TypeOK, ScanOK
<1>2. cur \in Ends(e)
  BY <1>1 DEF SInv, TypeInv, TypeOK, ListsOK, Incident
<1> QED
  BY <1>1, <1>2, EndsOfEdge DEF SInv, TypeInv, InputOK

LEMMA EdgeTakenSInv ==
    ASSUME SInv, TypeInv', NEW e \in EdgeIds, EdgeTaken(e)
    PROVE  SInv'
<1> USE DEF SInv, TypeInv, TypeOK, EdgeTaken
<1>1. Core' = Core /\ Boundary' = Boundary
  BY DEF Core, Boundary
<1>2. Ends(e) = {cur, Other(e, cur)} /\ Ends(e) \subseteq Boundary
  BY ScannedEdge
<1>3. PendingOK'
  <2>1. owner' = [owner EXCEPT ![e] = bucket] /\ bucket # NoPart
    BY NoPartAssumption DEF AssignEdge
  <2>2. e \notin h2h
    BY DEF PendingOK, Expanding, Low
  <2>3. Unassigned' = Unassigned \ {e}
    BY <2>1 DEF Unassigned
  <2> QED
    BY <2>2, <2>3 DEF PendingOK, Expanding, Low, params
<1>4. ListsOK'
  <2>1. \A v \in Vertices : adj'[v] \subseteq adj[v] /\ adj[v] \ {e} \subseteq adj'[v]
    OBVIOUS
  <2>2. \A v \in Vertices \ Boundary : e \notin adj[v]
    BY <1>2 DEF ListsOK, Incident
  <2>3. \A f \in valid' : \A v \in Ends(f) : v \in Vertices
    BY EndsOfEdge DEF InputOK
  <2>4. \A v \in Vertices : adj'[v] \subseteq (Incident(v) \cap Low)'
    BY <2>1 DEF ListsOK, Incident, Low, Ends, params
  <2>5. \A f \in valid' : \A v \in Ends(f) : f \in adj'[v]
    BY <2>1, <2>3 DEF ListsOK, Expanding
  <2>6. \A v \in Vertices \ Boundary : adj'[v] \subseteq valid'
    BY <2>1, <2>2 DEF ListsOK, Expanding
  <2> QED
    BY <1>1, <2>4, <2>5, <2>6 DEF ListsOK, Ends, params
<1>5. FrontierOK'
  BY <1>1 DEF FrontierOK, Expanding
<1>6. ScanOK'
  BY <1>1 DEF ScanOK
<1>7. InsideOK'
  <2>1. HasRoom' => HasRoom
    BY DEF HasRoom, AssignEdge, params, InputOK
  <2> QED
    BY <1>1, <2>1 DEF InsideOK, Inside, Ends, Expanding, params
<1> QED
  BY <1>3, <1>4, <1>5, <1>6, <1>7

LEMMA SkipEdgeSInv ==
    ASSUME SInv, TypeInv', NEW e \in EdgeIds, SkipEdge(e)
    PROVE  SInv'
<1> USE DEF SInv, TypeInv, TypeOK, SkipEdge, ScanNext
<1>1. Core' = Core /\ Boundary' = Boundary
  BY DEF Core, Boundary
<1>2. Ends(e) = {cur, Other(e, cur)} /\ cur \in Boundary
  BY ScannedEdge
<1>3. PendingOK'
  BY DEF PendingOK, Expanding, Low, Unassigned, params
<1>4. /\ \A v \in Vertices : adj'[v] \subseteq adj[v] /\ adj[v] \cap valid \subseteq adj'[v]
      /\ adj[cur] \ {e} \subseteq adj'[cur]
  BY DEF WithoutEntry
<1>5. ListsOK'
  <2>1. \A f \in valid : \A v \in Ends(f) : v \in Vertices
    BY EndsOfEdge DEF InputOK
  <2>2. \A v \in Vertices : adj'[v] \subseteq (Incident(v) \cap Low)'
    BY <1>4 DEF ListsOK, Incident, Low, Ends, params
  <2>3. \A f \in valid : \A v \in Ends(f) : f \in adj'[v]
    BY <1>4, <2>1 DEF ListsOK, Expanding
  <2> QED
    BY <1>1, <1>4, <2>2, <2>3 DEF ListsOK, Expanding, Ends, params
<1>6. FrontierOK'
  BY <1>1 DEF FrontierOK, Expanding
<1>7. ScanOK'
  BY <1>1, <1>4 DEF ScanOK
<1>8. InsideOK'
  <2>1. e \in valid /\ Inside(e) => ~HasRoom /\ Ends(e) \cap Core = {}
    BY <1>2 DEF Stays, Inside, Boundary, Core, ScanOK
  <2> QED
    BY <1>1, <2>1 DEF InsideOK, Inside, Ends, HasRoom, Expanding, params
<1> QED
  BY <1>3, <1>5, <1>6, <1>7, <1>8

\* The effect of ExpandEdge(e): a vertex outside the boundary is reached over
\* e from the core vertex vid.
VertexReached(e, u) ==
    /\ pc = "expand" /\ toScan = {} /\ UNCHANGED pc
    /\ e \in valid \cap adj[u] /\ Ends(e) = {vid, u} /\ Other(e, u) = vid
    /\ u \in Vertices \ Boundary
    /\ mpids' = mpids \cup {u}
    /\ is_boundarys' = [is_boundarys EXCEPT ![bucket] = @ \cup {u}]
    /\ cur' = u /\ toScan' = adj[u]
    /\ UNCHANGED <<params, bucket, vid, adj, valid, owner, assigned_edges,
                   occupied, degrees, degree_temp, heap, is_cores>>

LEMMA ExpandEdgeEffect ==
    ASSUME SInv, NEW e \in EdgeIds, ExpandEdge(e)
    PROVE  VertexReached(e, Other(e, vid))
<1> DEFINE u == Other(e, vid)
<1>1. e \in valid /\ e \in adj[vid] /\ vid \in Vertices /\ vid \in Core
  BY DEF ExpandEdge, ToExpand, ValidAt, SInv, TypeInv, TypeOK, ScanOK
<1>2. vid \in Ends(e)
  BY <1>1 DEF SInv, ListsOK, Incident
<1>3. Ends(e) = {vid, u} /\ u \in Vertices /\ u # vid
  BY <1>2, EndsOfEdge DEF SInv, TypeInv, InputOK
<1>4. Other(e, u) = vid
  BY <1>3 DEF Other, Ends
<1>5. u \notin Boundary
  <2> SUFFICES ASSUME u \in Boundary PROVE FALSE
    OBVIOUS
  <2>1. Inside(e) /\ Ends(e) \cap Core # {}
    BY <1>1, <1>3 DEF Inside, SInv, FrontierOK, Expanding, ExpandEdge
  <2> QED
    BY <1>1, <2>1 DEF SInv, InsideOK, Expanding, ExpandEdge
<1>6. e \in adj[u]
  BY <1>1, <1>3 DEF SInv, ListsOK, Expanding, ExpandEdge
<1> QED
  BY <1>1, <1>3, <1>4, <1>5, <1>6 DEF ExpandEdge, AddBoundary, VertexReached, Boundary

LEMMA ExpandEdgeSInv ==
    ASSUME SInv, TypeInv', NEW e \in EdgeIds, NEW u, VertexReached(e, u)
    PROVE  SInv'
<1> USE DEF SInv, TypeInv, TypeOK, VertexReached
<1>1. Core' = Core /\ Boundary' = Boundary \cup {u} /\ u \notin Core
  BY DEF Core, Boundary, FrontierOK, Expanding
<1>2. PendingOK'
  BY DEF PendingOK, Expanding, Low, Unassigned, params
<1>3. ListsOK'
  BY <1>1 DEF ListsOK, Expanding, Incident, Low, Ends, params
<1>4. FrontierOK'
  <2>1. \A b \in Parts : b > bucket => is_cores'[b] = {} /\ is_boundarys'[b] = {}
    BY DEF FrontierOK, Expanding, Parts
  <2>2. /\ Core' \subseteq Boundary'
        /\ DOMAIN heap' \cup mpids' = Boundary' \ Core'
        /\ DOMAIN heap' \cap mpids' = {}
    BY <1>1 DEF FrontierOK, Expanding
  <2> QED
    BY <2>1, <2>2 DEF FrontierOK
<1>5. ScanOK'
  BY <1>1 DEF ScanOK
<1>6. InsideOK'
  <2> SUFFICES ASSUME NEW f \in valid, Inside(f)', f \notin toScan'
               PROVE  (~HasRoom /\ Ends(f) \cap Core = {})'
    BY DEF InsideOK
  <2>1. f \in EdgeIds /\ u \notin Ends(f)
    BY DEF ListsOK, Expanding
  <2>2. Inside(f) /\ Ends(f)' = Ends(f)
    BY <1>1, <2>1 DEF Inside, Ends, params
  <2>3. ~HasRoom /\ Ends(f) \cap Core = {}
    BY <2>2 DEF InsideOK, Expanding
  <2> QED
    BY <1>1, <2>2, <2>3 DEF HasRoom, params
<1> QED
  BY <1>2, <1>3, <1>4, <1>5, <1>6

\* When occupy_vertex clears the lists of its vertex, no valid edge is left
\* at that vertex, nor any from a vertex reached to a core vertex.
LEMMA NothingLeftAtVid ==
    ASSUME SInv, pc = "expand", toScan = {}, ToExpand = {}
    PROVE  /\ mpids \cap Core = {} /\ mpids \subseteq Boundary
           /\ \A e \in valid : vid \notin Ends(e)
           /\ \A e \in valid : Ends(e) \cap mpids # {} => Ends(e) \cap Core = {}
<1> USE DEF SInv, TypeInv, TypeOK, InputOK
<1>1. mpids \cap Core = {} /\ mpids \subseteq Boundary /\ Core \subseteq Boundary
      /\ vid \in Core
  BY DEF FrontierOK, ScanOK, Expanding
<1>2. ASSUME NEW e \in valid, Ends(e) \cap mpids # {}, Ends(e) \cap Core # {}
      PROVE  FALSE
  <2>1. PICK v \in Ends(e) : v \in mpids
    BY <1>2
  <2>2. e \in EdgeIds /\ Ends(e) = {v, Other(e, v)} /\ Other(e, v) \in Core
    BY <1>1, <1>2, <2>1, EndsOfEdge
  <2>3. Inside(e)
    BY <1>1, <2>1, <2>2 DEF Inside
  <2> QED
    BY <1>2, <2>3 DEF InsideOK, Expanding
<1>3. ASSUME NEW e \in valid, vid \in Ends(e)
      PROVE  FALSE
  <2>1. e \in adj[vid] /\ e \in EdgeIds
    BY <1>3 DEF ListsOK, Expanding
  <2>2. Other(e, vid) \in mpids /\ Other(e, vid) \in Ends(e)
    BY <1>3, <2>1, EndsOfEdge DEF ToExpand, ValidAt
  <2> QED
    BY <1>1, <1>2, <1>3, <2>2
<1> QED
  BY <1>1, <1>2, <1>3

LEMMA FinishOccupySInv ==
    ASSUME SInv, TypeInv', FinishOccupy
    PROVE  SInv'
<1> USE DEF SInv, TypeInv, TypeOK, FinishOccupy
<1>1. Core' = Core /\ Boundary' = Boundary
  BY DEF Core, Boundary
<1>2. PendingOK'
  BY DEF PendingOK, Expanding, Low, Unassigned, params
<1>3. \A v \in Vertices : adj'[v] = IF v = vid THEN {} ELSE adj[v]
  BY DEF ClearedAdj
<1>4. ListsOK'
  <2>1. \A e \in valid : vid \notin Ends(e)
    BY NothingLeftAtVid
  <2>2. \A e \in valid : \A v \in Ends(e) : v \in Vertices
    BY EndsOfEdge DEF InputOK
  <2> QED
    BY <1>1, <1>3, <2>1, <2>2 DEF ListsOK, Expanding, Incident, Low, Ends, params
<1>5. FrontierOK'
  <2>1. DOMAIN heap' = DOMAIN heap \cup mpids
    BY NothingLeftAtVid DEF Core
  <2> QED
    BY <1>1, <2>1 DEF FrontierOK, Expanding
<1>6. ScanOK'
  BY DEF ScanOK
<1>7. InsideOK'
  BY <1>1 DEF InsideOK, Inside, Ends, Expanding, HasRoom, params
<1> QED
  BY <1>2, <1>4, <1>5, <1>6, <1>7

\* assign_remaining finds every valid edge in an adj_out list.
LEMMA StartRemainingSInv ==
    ASSUME SInv, TypeInv', StartRemaining
    PROVE  SInv' /\ toScan' = valid
<1> USE DEF SInv, TypeInv, TypeOK, StartRemaining
<1>1. toScan' = valid
  BY DEF ListsOK, Expanding, Ends
<1>2. PendingOK'
  BY <1>1 DEF PendingOK, Expanding, Low, Unassigned, params
<1>3. ListsOK'
  BY DEF ListsOK, Expanding, Incident, Low, Ends, params
<1>4. FrontierOK' /\ ScanOK' /\ InsideOK'
  BY DEF FrontierOK, ScanOK, InsideOK, Expanding
<1> QED
  BY <1>1, <1>2, <1>3, <1>4

\* The effect shared by AssignRemaining and StreamEdge.
PendingTaken(b, e) ==
    /\ pc \in {"remaining", "stream"} /\ UNCHANGED pc
    /\ pc = "remaining" => b = P - 1
    /\ e \in toScan /\ toScan' = toScan \ {e}
    /\ bucket' = b
    /\ AssignEdge(b, e)
    /\ is_boundarys' = [is_boundarys EXCEPT ![b] = @ \cup Ends(e)]
    /\ UNCHANGED <<params, vid, cur, mpids, adj, valid, degree_temp, heap, is_cores>>

LEMMA PendingTakenEffect ==
    ASSUME SInv, NEW e \in EdgeIds, NEW b \in Parts,
           (AssignRemaining(e) /\ b = P - 1) \/ StreamEdge(e, b)
    PROVE  PendingTaken(b, e)
BY DEF AssignRemaining, StreamEdge, PendingTaken, SInv, PendingOK

LEMMA PendingTakenSInv ==
    ASSUME SInv, TypeInv', NEW e \in EdgeIds, NEW b \in Parts, PendingTaken(b, e)
    PROVE  SInv'
<1> USE DEF SInv, TypeInv, TypeOK, PendingTaken
<1>1. Unassigned' = Unassigned \ {e}
  BY NoPartAssumption DEF AssignEdge, Unassigned
<1>2. PendingOK'
  BY <1>1 DEF PendingOK, Expanding, Low, params
<1>3. ListsOK'
  BY DEF ListsOK, Expanding, Incident, Low, Ends, params
<1>4. FrontierOK' /\ ScanOK' /\ InsideOK'
  BY DEF FrontierOK, ScanOK, InsideOK, Expanding
<1> QED
  BY <1>2, <1>3, <1>4

LEMMA FinishSInv ==
    ASSUME SInv, TypeInv', FinishRemaining \/ FinishStream
    PROVE  SInv'
<1> USE DEF SInv, TypeInv, TypeOK, FinishRemaining, FinishStream
<1>1. PendingOK'
  BY DEF PendingOK, Expanding, Low, Unassigned, params
<1>2. ListsOK'
  BY DEF ListsOK, Expanding, Incident, Low, Ends, params
<1>3. FrontierOK' /\ ScanOK' /\ InsideOK'
  BY DEF FrontierOK, ScanOK, InsideOK, Expanding
<1> QED
  BY <1>1, <1>2, <1>3

LEMMA StepSInv == SInv /\ [Next]_vars => SInv'
<1> SUFFICES ASSUME SInv, [Next]_vars PROVE SInv'
  OBVIOUS
<1> TypeInv'
  BY StepTypeInv DEF SInv
<1> P - 1 \in Parts
  BY SizeAssumption DEF Parts
<1>1. ASSUME NEW v \in Vertices, SelectFromHeap(v) PROVE SInv'
  BY <1>1, SelectFromHeapSInv
<1>2. ASSUME NEW start \in Vertices, NEW c \in 0 .. N - 1, SelectFreeVertex(start, c)
      PROVE SInv'
  BY <1>2, SelectFreeVertexEffect, SelectFreeVertexSInv
<1>3. ASSUME BucketFull \/ \E start \in Vertices : BucketStop(start)
      PROVE SInv'
  BY <1>3, LeaveBucketSInv DEF BucketFull, BucketStop
<1>4. ASSUME NEW e \in EdgeIds, AssignToCore(e) \/ AssignToBoundary(e) PROVE SInv'
  BY <1>4, EdgeTakenEffect, EdgeTakenSInv
<1>5. ASSUME NEW e \in EdgeIds, SkipEdge(e) PROVE SInv'
  BY <1>5, SkipEdgeSInv
<1>6. ASSUME NEW e \in EdgeIds, ExpandEdge(e) PROVE SInv'
  BY <1>6, ExpandEdgeEffect, ExpandEdgeSInv
<1>7. CASE FinishOccupy
  BY <1>7, FinishOccupySInv
<1>8. CASE StartRemaining
  BY <1>8, StartRemainingSInv
<1>9. ASSUME NEW e \in EdgeIds, NEW b \in Parts,
             (AssignRemaining(e) /\ b = P - 1) \/ StreamEdge(e, b)
      PROVE SInv'
  BY <1>9, PendingTakenEffect, PendingTakenSInv
<1>10. CASE FinishRemaining \/ FinishStream
  BY <1>10, FinishSInv
<1>11. CASE UNCHANGED vars
  <2> USE <1>11 DEF vars, SInv
  <2>1. PendingOK' /\ ListsOK'
    BY DEF PendingOK, ListsOK, Expanding, Low, Unassigned, Incident, Ends, Boundary
  <2>2. FrontierOK' /\ ScanOK' /\ InsideOK'
    BY DEF FrontierOK, ScanOK, InsideOK, Inside, Ends, HasRoom, Expanding, Core, Boundary
  <2> QED
    BY <2>1, <2>2
<1> QED
  BY <1>1, <1>2, <1>3, <1>4, <1>5, <1>6, <1>7, <1>8, <1>9, <1>10, <1>11
  DEF Next, NextExpansion, NextRemaining, NextStreaming, Terminated

THEOREM StructureOK == Spec => []SInv
BY InitSInv, StepSInv, PTL DEF Spec

-----------------------------------------------------------------------------
(* What follows from the structures in every state.                        *)

\* No edge is lost by the clearing of lists, the swaps with the last entry,
\* or the passing from one phase of split() to the next.
THEOREM NoEdgeIsLost == Spec => []NoEdgeLost
<1>1. SInv => NoEdgeLost
  BY DEF SInv, TypeInv, TypeOK, PendingOK, ListsOK, NoEdgeLost, Expanding, Low, Unassigned
<1> QED
  BY <1>1, StructureOK, PTL

\* decrease_key always finds its key, no vertex is in the heap twice, and no
\* core vertex is taken from it.
THEOREM HeapHoldsFrontier == Spec => []HeapIsFrontier
<1>1. SInv => HeapIsFrontier
  BY DEF SInv, FrontierOK, ScanOK, HeapIsFrontier, Core, Boundary
<1> QED
  BY <1>1, StructureOK, PTL

\* While a partition has room, no unassigned edge joins two of its boundary
\* vertices when the next vertex is chosen.
THEOREM RegionIsClosed == Spec => []BoundaryIsClosed
<1>1. SInv => BoundaryIsClosed
  BY DEF SInv, ScanOK, InsideOK, Inside, BoundaryIsClosed, Boundary, Expanding
<1> QED
  BY <1>1, StructureOK, PTL

\* The communication cost never enters a heap value.
THEOREM CommTermIsZero == Spec => []CommTermVanishes
<1>1. SInv => CommTermVanishes
  <2> SUFFICES ASSUME SInv, pc = "expand", toScan = {}, ToExpand = {},
                      NEW v \in mpids, NEW e \in valid, v \in Ends(e)
               PROVE  ~HasCommValue(Other(e, v))
    BY DEF CommTermVanishes
  <2>1. Ends(e) \cap Core = {}
    BY NothingLeftAtVid
  <2>2. Other(e, v) \in Ends(e)
    BY EndsOfEdge DEF SInv, TypeInv, TypeOK, InputOK
  <2> QED
    BY <2>1, <2>2 DEF HasCommValue, Core
<1> QED
  BY <1>1, StructureOK, PTL

-----------------------------------------------------------------------------
(* The boundary bitsets and the ends of the assigned edges.                *)

\* Every assignment is the first of its edge, and adds its ends to those of
\* the edges of its partition.
LEMMA CoveredAfterAssign ==
    ASSUME LedgerTypes, UNCHANGED edges, NEW b \in Parts, NEW e \in Unassigned, AssignEdge(b, e)
    PROVE  \A c \in Parts :
              /\ Owned(c)' = IF c = b THEN Owned(c) \cup {e} ELSE Owned(c)
              /\ Covered(c)' = IF c = b THEN Covered(c) \cup Ends(e) ELSE Covered(c)
<1>1. \A f \in EdgeIds : Ends(f)' = Ends(f)
  BY DEF Ends
<1>2. ASSUME NEW c \in Parts
      PROVE  Owned(c)' = IF c = b THEN Owned(c) \cup {e} ELSE Owned(c)
  BY NoPartAssumption DEF AssignEdge, Owned, Unassigned, LedgerTypes
<1>3. ASSUME NEW c \in Parts
      PROVE  Covered(c)' = IF c = b THEN Covered(c) \cup Ends(e) ELSE Covered(c)
  <2>1. CASE c = b
    BY <1>1, <1>2, <2>1 DEF Covered, Owned, Unassigned
  <2>2. CASE c # b
    BY <1>1, <1>2, <2>2 DEF Covered, Owned
  <2> QED
    BY <2>1, <2>2
<1> QED
  BY <1>2, <1>3

LEMMA CoveredUnchanged ==
    ASSUME UNCHANGED <<edges, owner>>
    PROVE  \A b \in Parts : Owned(b)' = Owned(b) /\ Covered(b)' = Covered(b)
BY DEF Owned, Covered, Ends

\* Outside occupy_vertex the two sets are the same.
LEMMA CoverSettled ==
    ASSUME CoverOK, pc # "expand"
    PROVE  \A b \in Parts : is_boundarys[b] = Covered(b)
<1>1. \A b \in Parts : is_boundarys[b] \subseteq Covered(b)
  BY DEF CoverOK, CoverAt, Awaited
<1>2. \A b \in Parts : Covered(b) \subseteq is_boundarys[b]
  BY DEF CoverOK, EndsInBoundary, Covered, Owned
<1> QED
  BY <1>1, <1>2

LEMMA InitCover == Init => CoverOK
<1> SUFFICES ASSUME Init PROVE CoverOK
  OBVIOUS
<1> QED
  BY NoPartAssumption DEF Init, CoverOK, EndsInBoundary

LEMMA EdgeTakenCover ==
    ASSUME SInv, CoverOK, NEW e \in EdgeIds, EdgeTaken(e)
    PROVE  CoverOK'
<1> USE DEF SInv, TypeInv, TypeOK, EdgeTaken
<1>1. e \in Unassigned
  BY DEF PendingOK, Expanding
<1>2. \A c \in Parts :
         Covered(c)' = IF c = bucket THEN Covered(c) \cup Ends(e) ELSE Covered(c)
  BY <1>1, CoveredAfterAssign, LedgerTyped DEF params
<1>3. Ends(e) = {cur, Other(e, cur)} /\ Ends(e) \subseteq is_boundarys[bucket]
  BY ScannedEdge DEF Boundary
<1>4. EndsInBoundary'
  <2>1. \A f \in EdgeIds : owner'[f] = IF f = e THEN bucket ELSE owner[f]
    BY DEF AssignEdge
  <2> QED
    BY <1>3, <2>1 DEF CoverOK, EndsInBoundary, Ends, params
<1>5. ASSUME NEW b \in Parts, NEW v \in is_boundarys[b] PROVE CoverAt(b, v)'
  <2>1. CASE v \in Covered(b)
    BY <1>2, <2>1 DEF CoverAt
  <2>2. CASE b = bucket /\ v = cur
    BY <1>2, <1>3, <2>2 DEF CoverAt
  <2>3. CASE b = bucket /\ v = vid /\ \E f \in valid : v \in Ends(f)
    <3>1. PICK f \in valid : v \in Ends(f)
      BY <2>3
    <3>2. CASE f = e
      BY <1>2, <2>3, <3>1, <3>2 DEF CoverAt
    <3>3. CASE f # e
      BY <2>3, <3>1, <3>3 DEF CoverAt, Ends, params
    <3> QED
      BY <3>2, <3>3
  <2> QED
    BY <2>1, <2>2, <2>3 DEF CoverOK, CoverAt
<1> QED
  BY <1>4, <1>5 DEF CoverOK

LEMMA PendingTakenCover ==
    ASSUME SInv, CoverOK, NEW e \in EdgeIds, NEW b \in Parts, PendingTaken(b, e)
    PROVE  CoverOK'
<1> USE DEF SInv, TypeInv, TypeOK, PendingTaken
<1>1. e \in Unassigned
  BY DEF PendingOK, Expanding
<1>2. \A c \in Parts :
         Covered(c)' = IF c = b THEN Covered(c) \cup Ends(e) ELSE Covered(c)
  BY <1>1, CoveredAfterAssign, LedgerTyped DEF params
<1>3. \A c \in Parts : is_boundarys'[c] = IF c = b THEN is_boundarys[c] \cup Ends(e)
                                                 ELSE is_boundarys[c]
  OBVIOUS
<1>4. \A c \in Parts : is_boundarys[c] = Covered(c)
  BY CoverSettled
<1>5. EndsInBoundary'
  <2>1. \A f \in EdgeIds : owner'[f] = IF f = e THEN b ELSE owner[f]
    BY DEF AssignEdge
  <2> QED
    BY <1>3, <2>1 DEF CoverOK, EndsInBoundary, Ends, params
<1> QED
  BY <1>2, <1>3, <1>4, <1>5 DEF CoverOK, CoverAt

LEMMA StepCover == SInv /\ CoverOK /\ [Next]_vars => CoverOK'
<1> SUFFICES ASSUME SInv, CoverOK, [Next]_vars PROVE CoverOK'
  OBVIOUS
<1> USE DEF SInv, TypeInv, TypeOK
<1> P - 1 \in Parts
  BY SizeAssumption DEF Parts
<1>a. \A b \in Parts : UNCHANGED <<edges, owner>> =>
         Covered(b)' = Covered(b) /\ \A e \in EdgeIds : Ends(e)' = Ends(e)
  BY CoveredUnchanged DEF Ends
\* A step that leaves the owners and the bitsets alone, before or after
\* which no vertex is being expanded.
<1>b. ASSUME pc # "expand", UNCHANGED <<edges, owner, is_boundarys>> PROVE CoverOK'
  BY <1>a, <1>b, CoverSettled DEF CoverOK, CoverAt, EndsInBoundary
<1>1. ASSUME NEW v \in Vertices, SelectFromHeap(v) PROVE CoverOK'
  <2>1. v \in Boundary
    BY <1>1 DEF SelectFromHeap, IsMin, FrontierOK, Expanding
  <2> QED
    BY <1>1, <1>b, <2>1
    DEF SelectFromHeap, OccupyVertex, AddBoundary, Boundary, params
<1>2. ASSUME NEW start \in Vertices, NEW c \in 0 .. N - 1, SelectFreeVertex(start, c)
      PROVE CoverOK'
  <2>1. PICK v \in Vertices : FreeVertexTaken(v)
    BY <1>2, SelectFreeVertexEffect
  <2> USE <2>1 DEF FreeVertexTaken
  <2>2. EndsInBoundary'
    BY DEF CoverOK, EndsInBoundary, Ends, params
  <2>3. CoverAt(bucket, v)'
    <3>1. PICK e \in adj[v] : e \in valid /\ v \in Ends(e)
      BY DEF ListsOK, Expanding, Incident
    <3> QED
      BY <3>1 DEF CoverAt, Ends, params
  <2>4. ASSUME NEW b \in Parts, NEW u \in is_boundarys[b] PROVE CoverAt(b, u)'
    BY <1>a, CoverSettled DEF CoverAt, params
  <2> QED
    BY <2>2, <2>3, <2>4 DEF CoverOK
<1>3. ASSUME BucketFull \/ \E start \in Vertices : BucketStop(start)
      PROVE CoverOK'
  BY <1>3, <1>b DEF BucketFull, BucketStop, LeaveBucket, params
<1>4. ASSUME NEW e \in EdgeIds, AssignToCore(e) \/ AssignToBoundary(e) PROVE CoverOK'
  BY <1>4, EdgeTakenEffect, EdgeTakenCover
<1>5. ASSUME NEW e \in EdgeIds, SkipEdge(e) PROVE CoverOK'
  <2> USE <1>5 DEF SkipEdge, ScanNext, params
  <2>1. EndsInBoundary'
    BY DEF CoverOK, EndsInBoundary, Ends
  <2>2. Awaited => Awaited'
    BY DEF Awaited, Stays, Core, Other
  <2> QED
    BY <1>a, <2>1, <2>2 DEF CoverOK, CoverAt, Ends
<1>6. ASSUME NEW e \in EdgeIds, ExpandEdge(e) PROVE CoverOK'
  <2> DEFINE u == Other(e, vid)
  <2> VertexReached(e, u)
    BY <1>6, ExpandEdgeEffect
  <2> HIDE DEF u
  <2> USE DEF VertexReached
  <2>1. EndsInBoundary'
    BY DEF CoverOK, EndsInBoundary, Ends, params
  <2>2. Awaited' /\ cur' = u
    BY DEF Awaited, ScanOK, Core, Other, params
  <2>3. ~Awaited
    BY DEF Awaited
  <2>4. ASSUME NEW b \in Parts, NEW v \in is_boundarys[b] PROVE CoverAt(b, v)'
    BY <1>a, <2>3 DEF CoverOK, CoverAt, Ends, params
  <2> QED
    BY <2>1, <2>2, <2>4 DEF CoverOK, CoverAt
<1>7. CASE FinishOccupy
  <2> USE <1>7 DEF FinishOccupy
  <2>1. EndsInBoundary'
    BY DEF CoverOK, EndsInBoundary, Ends, params
  <2>2. ASSUME NEW b \in Parts, NEW v \in is_boundarys[b] PROVE v \in Covered(b)
    BY NothingLeftAtVid DEF CoverOK, CoverAt, Awaited
  <2> QED
    BY <1>a, <2>1, <2>2 DEF CoverOK, CoverAt, params
<1>8. CASE StartRemaining
  BY <1>8, <1>b DEF StartRemaining, params
<1>9. ASSUME NEW e \in EdgeIds, NEW b \in Parts,
             (AssignRemaining(e) /\ b = P - 1) \/ StreamEdge(e, b)
      PROVE CoverOK'
  BY <1>9, PendingTakenEffect, PendingTakenCover
<1>10. CASE FinishRemaining \/ FinishStream
  BY <1>10, <1>b DEF FinishRemaining, FinishStream, params
<1>11. CASE UNCHANGED vars
  BY <1>11, <1>a
  DEF CoverOK, vars, CoverAt, EndsInBoundary, Awaited, Ends, Other, Core
<1> QED
  BY <1>1, <1>2, <1>3, <1>4, <1>5, <1>6, <1>7, <1>8, <1>9, <1>10, <1>11
  DEF Next, NextExpansion, NextRemaining, NextStreaming, Terminated

LEMMA CoverAlways == Spec => [](SInv /\ CoverOK)
BY InitSInv, InitCover, StepSInv, StepCover, PTL DEF Spec

\* Outside occupy_vertex the boundary bitset of a partition is the set of end
\* points of its edges; count_mirrors adds these bitsets up at the end.
THEOREM BoundaryIsExact == Spec => []BoundaryIsCovered
<1>1. CoverOK => BoundaryIsCovered
  BY CoverSettled DEF BoundaryIsCovered
<1> QED
  BY <1>1, CoverAlways, PTL

-----------------------------------------------------------------------------
(* degree_temp: heap values are never divisions by 0.                      *)

LEMMA StepDegreeTemp == SInv /\ DegreeTempOK /\ [Next]_vars => DegreeTempOK'
<1> SUFFICES ASSUME SInv, DegreeTempOK, [Next]_vars PROVE DegreeTempOK'
  OBVIOUS
<1> USE DEF SInv, TypeInv, TypeOK, DegreeTempOK
<1>1. ASSUME NEW v \in Vertices, SelectFromHeap(v) PROVE DegreeTempOK'
  BY <1>1 DEF SelectFromHeap, ScanOK
<1>2. ASSUME NEW start \in Vertices, NEW c \in 0 .. N - 1, SelectFreeVertex(start, c)
      PROVE DegreeTempOK'
  BY <1>2 DEF SelectFreeVertex, ScanOK
<1>3. ASSUME BucketFull \/ \E start \in Vertices : BucketStop(start)
      PROVE DegreeTempOK'
  BY <1>3 DEF BucketFull, BucketStop, LeaveBucket
<1>4. ASSUME NEW e \in EdgeIds, AssignToCore(e) PROVE DegreeTempOK'
  <2>1. \A v \in Vertices : degree_temp'[v] = IF v = cur THEN degree_temp[v] + 1
                                                         ELSE degree_temp[v]
    BY <1>4 DEF AssignToCore, Counted
  <2> QED
    BY <1>4, <2>1 DEF AssignToCore
<1>5. ASSUME NEW e \in EdgeIds, AssignToBoundary(e) PROVE DegreeTempOK'
  <2>1. /\ \A v \in Vertices : degree_temp'[v] >= degree_temp[v]
        /\ degree_temp'[cur] > 0
    BY <1>5 DEF AssignToBoundary
  <2> QED
    BY <1>5, <2>1 DEF AssignToBoundary
<1>6. ASSUME NEW e \in EdgeIds, SkipEdge(e) PROVE DegreeTempOK'
  <2> USE <1>6 DEF SkipEdge, ScanNext, params
  <2>1. Awaited => Awaited'
    BY DEF Awaited, Stays, Core, Other
  <2> QED
    BY <2>1
<1>7. ASSUME NEW e \in EdgeIds, ExpandEdge(e) PROVE DegreeTempOK'
  <2> DEFINE u == Other(e, vid)
  <2> VertexReached(e, u)
    BY <1>7, ExpandEdgeEffect
  <2> HIDE DEF u
  <2> USE DEF VertexReached
  <2>1. Awaited' /\ cur' = u
    BY DEF Awaited, ScanOK, Core, Other, params
  <2>2. ~Awaited
    BY DEF Awaited
  <2> QED
    BY <2>1, <2>2
<1>8. CASE FinishOccupy
  BY <1>8 DEF FinishOccupy
<1>9. CASE NextRemaining \/ NextStreaming
  BY <1>9 DEF NextRemaining, NextStreaming, StartRemaining, AssignRemaining,
              FinishRemaining, StreamEdge, FinishStream
<1>10. CASE UNCHANGED vars
  BY <1>10 DEF vars, Awaited, Other, Core
<1> QED
  BY <1>1, <1>2, <1>3, <1>4, <1>5, <1>6, <1>7, <1>8, <1>9, <1>10
  DEF Next, NextExpansion, Terminated

LEMMA DegreeTempAlways == Spec => []DegreeTempOK
<1>1. Init => DegreeTempOK
  BY DEF Init, DegreeTempOK
<1> QED
  BY <1>1, InitSInv, StepSInv, StepDegreeTemp, PTL DEF Spec

\* When a vertex enters the heap its degree_temp is positive.
THEOREM HeapValueIsDefined == Spec => []HeapValueDefined
<1>1. DegreeTempOK => HeapValueDefined
  BY DEF DegreeTempOK, HeapValueDefined, Awaited
<1> QED
  BY <1>1, DegreeTempAlways, PTL

-----------------------------------------------------------------------------
(* The counters.                                                           *)

\* The steps that assign an edge are those of add_boundary, of
\* assign_remaining and of random_streaming, and each takes an edge that has
\* no partition; the others leave the counters alone.
Assigns(b, e) ==
    /\ b \in Parts /\ e \in Unassigned
    /\ AssignEdge(b, e)
    /\ UNCHANGED params

LEMMA OtherStepsAssignNothing ==
    ASSUME [Next]_vars
    PROVE  \/ \E e \in EdgeIds : \/ AssignToCore(e) \/ AssignToBoundary(e)
                                 \/ AssignRemaining(e)
                                 \/ \E b \in Parts : StreamEdge(e, b)
           \/ UNCHANGED <<params, owner, assigned_edges, occupied, degrees>>
<1>1. CASE \/ \E v \in Vertices : SelectFromHeap(v)
           \/ \E start \in Vertices, c \in 0 .. N - 1 : SelectFreeVertex(start, c)
           \/ BucketFull \/ \E start \in Vertices : BucketStop(start)
           \/ \E e \in EdgeIds : SkipEdge(e) \/ ExpandEdge(e)
           \/ FinishOccupy \/ StartRemaining \/ FinishRemaining \/ FinishStream
  BY <1>1 DEF SelectFromHeap, SelectFreeVertex, BucketFull, BucketStop, LeaveBucket,
              SkipEdge, ExpandEdge, FinishOccupy, StartRemaining, FinishRemaining,
              FinishStream
<1>2. CASE UNCHANGED vars
  BY <1>2 DEF vars, params
<1> QED
  BY <1>1, <1>2 DEF Next, NextExpansion, NextRemaining, NextStreaming, Terminated

LEMMA AssignsOrNot ==
    ASSUME SInv, [Next]_vars
    PROVE  \/ \E b \in Parts, e \in EdgeIds : Assigns(b, e)
           \/ UNCHANGED <<params, owner, assigned_edges, occupied, degrees>>
<1> USE DEF SInv, TypeInv, TypeOK
<1> P - 1 \in Parts
  BY SizeAssumption DEF Parts
<1>1. ASSUME NEW e \in EdgeIds, AssignToCore(e) \/ AssignToBoundary(e)
      PROVE  Assigns(bucket, e)
  BY <1>1, EdgeTakenEffect DEF EdgeTaken, Assigns, PendingOK, Expanding
<1>2. ASSUME NEW e \in EdgeIds, NEW b \in Parts,
             (AssignRemaining(e) /\ b = P - 1) \/ StreamEdge(e, b)
      PROVE  Assigns(b, e)
  BY <1>2, PendingTakenEffect DEF PendingTaken, Assigns, PendingOK, Expanding
<1> QED
  BY <1>1, <1>2, OtherStepsAssignNothing

LEMMA EdgeSetsFinite ==
    \A S \in SUBSET EdgeIds : IsFiniteSet(S) /\ Cardinality(S) \in Nat
BY EdgesAssumption, FS_Subset, FS_CardinalityType

LEMMA InitCounters == Init => CountersOK
<1> SUFFICES ASSUME Init PROVE CountersOK
  OBVIOUS
<1>1. Unassigned = EdgeIds
  BY NoPartAssumption DEF Init, Unassigned
<1>2. assigned_edges = Cardinality(EdgeIds \ Unassigned)
  <2>1. EdgeIds \ Unassigned = {}
    BY <1>1
  <2> QED
    BY <2>1, FS_EmptySet DEF Init
<1>3. \A b \in Parts : occupied[b] = Cardinality(Owned(b))
  <2>1. \A b \in Parts : Owned(b) = {}
    BY NoPartAssumption DEF Init, Owned
  <2> QED
    BY <2>1, FS_EmptySet DEF Init
<1>4. DegreesExact
  <2>1. \A v \in Vertices : Incident(v) \cap Unassigned = Incident(v)
    BY <1>1 DEF Incident
  <2> QED
    BY <2>1 DEF Init, DegreesExact
<1> QED
  BY <1>2, <1>3, <1>4 DEF CountersOK

LEMMA AssignsCounters ==
    ASSUME LedgerTypes, CountersOK, NEW b, NEW e \in EdgeIds, Assigns(b, e)
    PROVE  CountersOK'
<1> USE DEF LedgerTypes, CountersOK, Assigns
<1>1. Unassigned' = Unassigned \ {e}
  BY NoPartAssumption DEF AssignEdge, Unassigned
<1>2. (assigned_edges = Cardinality(EdgeIds \ Unassigned))'
  <2>1. EdgeIds \ Unassigned' = (EdgeIds \ Unassigned) \cup {e}
    BY <1>1
  <2>2. Cardinality((EdgeIds \ Unassigned) \cup {e}) = Cardinality(EdgeIds \ Unassigned) + 1
    BY EdgeSetsFinite, FS_AddElement
  <2> QED
    BY <2>1, <2>2 DEF AssignEdge
<1>3. ASSUME NEW c \in Parts PROVE (occupied[c] = Cardinality(Owned(c)))'
  <2>1. Owned(c)' = IF c = b THEN Owned(c) \cup {e} ELSE Owned(c)
    BY CoveredAfterAssign DEF params
  <2>2. e \notin Owned(c)
    BY NoPartAssumption DEF Owned, Unassigned
  <2>3. Cardinality(Owned(c) \cup {e}) = Cardinality(Owned(c)) + 1
    BY <2>2, EdgeSetsFinite, FS_AddElement DEF Owned
  <2> QED
    BY <2>1, <2>3 DEF AssignEdge
<1>4. ASSUME NEW v \in Vertices
      PROVE  (degrees[v] = Cardinality(Incident(v) \cap Unassigned))'
  <2> DEFINE S == Incident(v) \cap Unassigned
             T == (Incident(v) \cap Unassigned)'
  <2>1. degrees'[v] = IF v \in Ends(e) THEN degrees[v] - 1 ELSE degrees[v]
    BY DEF AssignEdge, DegreesWithout
  <2>2. T = S \ {e}
    BY <1>1 DEF Incident, Ends, params
  <2>3. e \in S <=> v \in Ends(e)
    BY DEF Incident
  <2>4. IsFiniteSet(S) /\ degrees[v] = Cardinality(S)
    BY EdgeSetsFinite DEF Incident, DegreesExact
  <2>5. Cardinality(S \ {e}) = IF e \in S THEN Cardinality(S) - 1 ELSE Cardinality(S)
    BY <2>4, FS_RemoveElement
  <2>6. degrees'[v] = Cardinality(T)
    <3> HIDE DEF S, T
    <3> QED
      BY <2>1, <2>2, <2>3, <2>4, <2>5
  <2> QED
    BY <2>6
<1>5. DegreesExact'
  BY <1>4 DEF DegreesExact
<1> QED
  BY <1>2, <1>3, <1>5

LEMMA StepCounters == SInv /\ CountersOK /\ [Next]_vars => CountersOK'
<1> SUFFICES ASSUME SInv, CountersOK, [Next]_vars PROVE CountersOK'
  OBVIOUS
<1>1. CASE \E b \in Parts, e \in EdgeIds : Assigns(b, e)
  BY <1>1, AssignsCounters, LedgerTyped DEF SInv
<1>2. CASE UNCHANGED <<params, owner, assigned_edges, occupied, degrees>>
  BY <1>2 DEF CountersOK, DegreesExact, Owned, Unassigned, Incident, Ends, params
<1> QED
  BY <1>1, <1>2, AssignsOrNot

LEMMA CountersAlways == Spec => [](SInv /\ CountersOK)
BY InitSInv, InitCounters, StepSInv, StepCounters, PTL DEF Spec

\* degrees[v] counts the unassigned edges of v, so it is never decremented at
\* 0: the unsigned counters of the code do not wrap around.
THEOREM DegreesAreExact == Spec => []DegreesExact
<1>1. CountersOK => DegreesExact
  BY DEF CountersOK
<1> QED
  BY <1>1, CountersAlways, PTL

\* The final CHECK_EQ of split() holds.
THEOREM CountIsComplete == Spec => []AllEdgesCounted
<1>1. SInv /\ CountersOK => AllEdgesCounted
  <2> SUFFICES ASSUME SInv, CountersOK, pc = "done"
               PROVE  assigned_edges = Cardinality(EdgeIds)
    BY DEF AllEdgesCounted
  <2>1. EdgeIds \ Unassigned = EdgeIds
    BY DEF SInv, PendingOK
  <2> QED
    BY <2>1 DEF CountersOK
<1> QED
  BY <1>1, CountersAlways, PTL

-----------------------------------------------------------------------------
(* Capacities.                                                             *)

\* Core vertices stay core vertices until assign_remaining is over.
LEMMA CoresGrow ==
    ASSUME TypeOK, [Next]_vars, NEW b \in 0 .. P - 2
    PROVE  is_cores[b] \subseteq is_cores'[b]
<1>1. b \in Parts /\ b # P - 1
  BY SizeAssumption DEF Parts
<1>2. CASE \/ \E v \in Vertices : SelectFromHeap(v)
           \/ \E start \in Vertices, c \in 0 .. N - 1 : SelectFreeVertex(start, c)
  <2>1. PICK v, d : OccupyVertex(v, d)
    BY <1>2 DEF SelectFromHeap, SelectFreeVertex
  <2>2. is_cores' = [is_cores EXCEPT ![bucket] = @ \cup {v}]
    BY <2>1 DEF OccupyVertex
  <2> QED
    BY <1>1, <2>2 DEF TypeOK
<1>3. CASE FinishRemaining
  BY <1>1, <1>3 DEF FinishRemaining, TypeOK
<1>4. CASE UNCHANGED is_cores
  BY <1>4
<1> QED
  BY <1>2, <1>3, <1>4
  DEF Next, NextExpansion, NextRemaining, NextStreaming, Terminated, BucketFull,
      BucketStop, LeaveBucket, AssignToCore, AssignToBoundary, SkipEdge, ExpandEdge,
      FinishOccupy, StartRemaining, AssignRemaining, StreamEdge, FinishStream, vars

\* A partition without room is left before any vertex is expanded in it.
LEMMA StepRoom == SInv /\ RoomOK /\ [Next]_vars => RoomOK'
<1> SUFFICES ASSUME SInv, RoomOK, [Next]_vars, pc' = "expand"
             PROVE  capacities'[bucket'] > 0
  BY DEF RoomOK
<1> USE DEF SInv, TypeInv, TypeOK, InputOK
<1>1. CASE HasRoom /\ UNCHANGED <<params, bucket>>
  BY <1>1 DEF HasRoom, params
<1>2. CASE pc = "expand" /\ UNCHANGED <<params, bucket>>
  BY <1>2 DEF RoomOK, params
<1>3. CASE \/ \E v \in Vertices : SelectFromHeap(v)
           \/ \E start \in Vertices, c \in 0 .. N - 1 : SelectFreeVertex(start, c)
  <2>1. HasRoom /\ UNCHANGED <<params, bucket>>
    BY <1>3 DEF SelectFromHeap, SelectFreeVertex
  <2> QED
    BY <1>1, <2>1
<1>4. CASE \E e \in EdgeIds : \/ AssignToCore(e) \/ AssignToBoundary(e)
                              \/ SkipEdge(e) \/ ExpandEdge(e)
  <2>1. pc = "expand" /\ UNCHANGED <<params, bucket>>
    BY <1>4 DEF AssignToCore, AssignToBoundary, SkipEdge, ScanNext, ExpandEdge
  <2> QED
    BY <1>2, <2>1
<1>5. CASE UNCHANGED vars
  <2>1. pc = "expand" /\ UNCHANGED <<params, bucket>>
    BY <1>5 DEF vars, params
  <2> QED
    BY <1>2, <2>1
<1> QED
  BY <1>3, <1>4, <1>5
  DEF Next, NextExpansion, NextRemaining, NextStreaming, Terminated, BucketFull,
      BucketStop, LeaveBucket, FinishOccupy, StartRemaining, AssignRemaining,
      FinishRemaining, StreamEdge, FinishStream

\* The invariant the next lemma is about, and what it rests on.
Growth == SInv /\ CoverOK /\ CountersOK /\ RoomOK /\ OvershootOnlyAtCores

\* What OvershootOnlyAtCores says of one partition.
Held(b) == Owned(b) # {} => /\ Peripheral(b) # Owned(b)
                            /\ Cardinality(Peripheral(b)) < capacities[b]

LEMMA StepOvershoot == Growth /\ [Next]_vars => OvershootOnlyAtCores'
<1> SUFFICES ASSUME Growth, [Next]_vars,
                    pc' \in {"select", "expand", "remaining"}, NEW b \in 0 .. P - 2
             PROVE  Held(b)'
  BY DEF OvershootOnlyAtCores, Held
<1> USE DEF Growth, SInv, TypeInv, TypeOK, InputOK
<1>1. b \in Parts /\ b # P - 1 /\ P - 1 \in Parts
  BY SizeAssumption DEF Parts
<1>2. pc \in {"select", "expand", "remaining"}
  BY DEF Next, NextExpansion, NextRemaining, NextStreaming, Terminated, SelectFromHeap,
         SelectFreeVertex, BucketFull, BucketStop, AssignToCore, AssignToBoundary,
         SkipEdge, ScanNext, ExpandEdge, FinishOccupy, StartRemaining, AssignRemaining,
         FinishRemaining, StreamEdge, FinishStream, vars
<1>3. Held(b) /\ capacities[b] \in Nat
  BY <1>1, <1>2 DEF OvershootOnlyAtCores, Held
<1>4. /\ Peripheral(b) \subseteq Owned(b) /\ Owned(b) \subseteq EdgeIds
      /\ Peripheral(b)' \subseteq Owned(b)' /\ Owned(b)' \subseteq EdgeIds
  BY DEF Peripheral, Owned
<1>5. UNCHANGED params /\ is_cores[b] \subseteq is_cores'[b]
  BY AssignsOrNot, CoresGrow DEF Assigns
\* A step that gives the partition no edge.
<1>a. ASSUME UNCHANGED Owned(b) PROVE Held(b)'
  <2>1. Peripheral(b)' \subseteq Peripheral(b)
    BY <1>a, <1>5 DEF Peripheral, Ends, params
  <2>2. Cardinality(Peripheral(b)') <= Cardinality(Peripheral(b))
    BY <1>4, <2>1, EdgeSetsFinite, FS_Subset
  <2>3. Cardinality(Peripheral(b)) \in Nat /\ Cardinality(Peripheral(b)') \in Nat
    BY <1>4, EdgeSetsFinite
  <2>4. Peripheral(b) # Owned(b) => Peripheral(b)' # Owned(b)'
    BY <1>4, <1>a, <2>1
  <2>5. capacities'[b] = capacities[b]
    BY <1>5 DEF params
  <2>6. Owned(b)' = Owned(b)
    BY <1>a
  <2> HIDE DEF Growth, SInv, TypeInv, TypeOK, InputOK
  <2> QED
    BY <1>3, <2>2, <2>3, <2>4, <2>5, <2>6 DEF Held
<1>6. CASE UNCHANGED <<params, owner, assigned_edges, occupied, degrees>>
  BY <1>a, <1>6 DEF Owned
<1>7. ASSUME NEW e \in EdgeIds, AssignToCore(e) PROVE Held(b)'
  <2>1. Other(e, cur) \in Ends(e) /\ e \in Unassigned
    BY <1>7, ScannedEdge DEF AssignToCore, ScanNext, PendingOK, Expanding
  <2>2. Owned(b)' = IF b = bucket THEN Owned(b) \cup {e} ELSE Owned(b)
    BY <1>1, <1>7, <2>1, CoveredAfterAssign, LedgerTyped DEF AssignToCore, params
  <2>3. CASE b = bucket
    <3>1. e \in Owned(b)' /\ e \notin Peripheral(b)'
      BY <1>7, <2>1, <2>2, <2>3 DEF AssignToCore, Peripheral, Ends, params
    <3>2. Peripheral(b)' \subseteq Peripheral(b)
      BY <1>7, <2>1, <2>2 DEF AssignToCore, Peripheral, Ends, params
    <3>3. CASE Owned(b) = {}
      <4>1. Peripheral(b)' = {}
        BY <1>4, <3>2, <3>3
      <4>2. Cardinality(Peripheral(b)') = 0
        BY <4>1, FS_EmptySet
      <4>3. capacities[b] > 0
        BY <1>7, <2>3 DEF AssignToCore, ScanNext, RoomOK
      <4> QED
        BY <1>5, <3>1, <4>2, <4>3 DEF Held, params
    <3>4. CASE Owned(b) # {}
      <4>1. Cardinality(Peripheral(b)') <= Cardinality(Peripheral(b))
        BY <1>4, <3>2, EdgeSetsFinite, FS_Subset
      <4>2. Cardinality(Peripheral(b)) \in Nat /\ Cardinality(Peripheral(b)') \in Nat
        BY <1>4, EdgeSetsFinite
      <4> QED
        BY <1>3, <1>5, <3>1, <3>4, <4>1, <4>2 DEF Held, params
    <3> QED
      BY <3>3, <3>4
  <2>4. CASE b # bucket
    BY <1>a, <2>2, <2>4
  <2> QED
    BY <2>3, <2>4
<1>8. ASSUME NEW e \in EdgeIds, AssignToBoundary(e) PROVE Held(b)'
  <2>1. e \in Unassigned
    BY <1>8 DEF AssignToBoundary, ScanNext, PendingOK, Expanding
  <2>2. Owned(b)' = IF b = bucket THEN Owned(b) \cup {e} ELSE Owned(b)
    BY <1>1, <1>8, <2>1, CoveredAfterAssign, LedgerTyped DEF AssignToBoundary, params
  <2>3. CASE b = bucket
    \* The far end was reached by an edge of the partition, so the partition
    \* has edges, and then one of a core vertex.
    <3>1. Owned(b) # {}
      <4>1. /\ Other(e, cur) \in is_boundarys[bucket]
            /\ Other(e, cur) # cur
            /\ Other(e, cur) # vid
        BY <1>8, ScannedEdge
        DEF AssignToBoundary, ScanNext, ScanOK, Core, NotLoop
      <4>2. CoverAt(bucket, Other(e, cur))
        BY <4>1 DEF CoverOK
      <4>3. Other(e, cur) \in Covered(bucket)
        BY <4>1, <4>2 DEF CoverAt
      <4> QED
        BY <2>3, <4>3 DEF Covered
    <3>2. Peripheral(b)' # Owned(b)'
      <4>1. PICK f \in Owned(b) : f \notin Peripheral(b)
        BY <1>3, <1>4, <3>1 DEF Held
      <4>2. f \in Owned(b)' /\ f \notin Peripheral(b)'
        BY <1>5, <2>2, <4>1 DEF Peripheral, Ends, params
      <4> QED
        BY <4>2
    <3>3. Cardinality(Owned(b)') <= capacities'[b]
      <4>1. occupied'[b] = occupied[b] + 1 /\ occupied[b] < capacities[b]
        BY <1>1, <1>8, <2>3 DEF AssignToBoundary, AssignEdge, HasRoom
      <4>2. occupied'[b] = Cardinality(Owned(b)')
        <5>1. CountersOK'
          BY StepCounters
        <5> QED
          BY <1>1, <5>1 DEF CountersOK
      <4> QED
        BY <1>1, <1>3, <1>5, <4>1, <4>2 DEF params
    <3>4. Cardinality(Peripheral(b)') < Cardinality(Owned(b)')
      <4>1. IsFiniteSet(Owned(b)')
        BY <1>4, EdgeSetsFinite
      <4>2. /\ Cardinality(Peripheral(b)') <= Cardinality(Owned(b)')
            /\ Cardinality(Peripheral(b)') # Cardinality(Owned(b)')
        BY <1>4, <3>2, <4>1, FS_Subset
      <4> QED
        BY <1>4, <4>2, EdgeSetsFinite
    <3>5. /\ Cardinality(Peripheral(b)') \in Nat
          /\ Cardinality(Owned(b)') \in Nat
          /\ capacities'[b] \in Nat
      BY <1>3, <1>4, <1>5, EdgeSetsFinite DEF params
    <3> QED
      BY <3>2, <3>3, <3>4, <3>5 DEF Held
  <2>4. CASE b # bucket
    BY <1>a, <2>2, <2>4
  <2> QED
    BY <2>3, <2>4
<1>9. ASSUME NEW e \in EdgeIds, AssignRemaining(e) PROVE Held(b)'
  <2>1. e \in Unassigned
    BY <1>9 DEF AssignRemaining, PendingOK
  <2>2. Owned(b)' = Owned(b)
    BY <1>1, <1>9, <2>1, CoveredAfterAssign, LedgerTyped DEF AssignRemaining, params
  <2> QED
    BY <1>a, <2>2
<1>10. pc # "stream"
  BY <1>2
<1> QED
  BY <1>a, <1>5, <1>6, <1>7, <1>8, <1>9, <1>10, OtherStepsAssignNothing
  DEF StreamEdge, params

LEMMA GrowthAlways == Spec => []Growth
<1>1. Init => RoomOK
  BY DEF Init, RoomOK
<1>2. Init => OvershootOnlyAtCores
  <2> SUFFICES ASSUME Init, NEW b \in 0 .. P - 2 PROVE Owned(b) = {}
    BY DEF OvershootOnlyAtCores
  <2>1. b \in Parts
    BY SizeAssumption DEF Parts
  <2> QED
    BY <2>1, NoPartAssumption DEF Init, Owned
<1>3. Growth /\ [Next]_vars => SInv' /\ CoverOK' /\ CountersOK' /\ RoomOK'
  BY StepSInv, StepCover, StepCounters, StepRoom DEF Growth
<1>4. Growth /\ [Next]_vars => Growth'
  BY <1>3, StepOvershoot DEF Growth
<1>5. Init => Growth
  BY <1>1, <1>2, InitSInv, InitCover, InitCounters DEF Growth
<1> QED
  BY <1>4, <1>5, PTL DEF Spec

\* A partition grown by expansion exceeds its capacity by edges of its core
\* vertices only.
THEOREM OvershootIsCore == Spec => []OvershootOnlyAtCores
<1>1. Growth => OvershootOnlyAtCores
  BY DEF Growth
<1> QED
  BY <1>1, GrowthAlways, PTL

-----------------------------------------------------------------------------
(* split() implements EdgePartition: every assignment is the first and only *)
(* one of its edge, and at the end every edge has a partition and the      *)
(* boundary bitsets are the end points of the edges of each partition.     *)

LEMMA PromiseInit == Init => Promise!Init
BY DEF Init, Promise!Init

\* Only FinishStream reaches "done".
LEMMA DoneByFinish ==
    ASSUME [Next]_vars, pc # "done", pc' = "done"
    PROVE  FinishStream
BY DEF Next, NextExpansion, NextRemaining, NextStreaming, Terminated, SelectFromHeap,
       SelectFreeVertex, OccupyVertex, BucketFull, BucketStop, LeaveBucket, AssignToCore,
       AssignToBoundary, SkipEdge, ScanNext, ExpandEdge, FinishOccupy, StartRemaining,
       AssignRemaining, FinishRemaining, StreamEdge, vars

\* After "done" nothing changes.
LEMMA NothingAfterDone ==
    ASSUME [Next]_vars, pc = "done"
    PROVE  UNCHANGED vars
BY DEF Next, NextExpansion, NextRemaining, NextStreaming, Terminated, SelectFromHeap,
       SelectFreeVertex, BucketFull, BucketStop, AssignToCore, AssignToBoundary, SkipEdge,
       ScanNext, ExpandEdge, FinishOccupy, StartRemaining, AssignRemaining,
       FinishRemaining, StreamEdge, FinishStream

LEMMA PromiseStep ==
    ASSUME SInv, CoverOK, [Next]_vars
    PROVE  [Promise!Next]_(Promise!vars)
<1> USE DEF SInv, TypeInv, TypeOK
<1>1. CASE pc = "done"
  BY <1>1, NothingAfterDone DEF vars, Promise!vars
<1>2. CASE pc # "done" /\ pc' = "done"
  <2>1. FinishStream
    BY <1>2, DoneByFinish
  <2>2. \A e \in EdgeIds : owner[e] # NoPart
    BY <2>1 DEF FinishStream, PendingOK, Unassigned
  <2>3. \A b \in Parts : is_boundarys[b] = Covered(b)
    BY <1>2, <2>1, CoverSettled DEF FinishStream
  <2>4. is_boundarys = [b \in Parts |-> Promise!Covered(b)]
    BY <2>3 DEF Covered, Owned, Ends, Promise!Covered, Promise!Ends
  <2>5. Promise!Finish
    BY <1>2, <2>1, <2>2, <2>4 DEF FinishStream, Promise!Finish, params
  <2> QED
    BY <2>5 DEF Promise!Next
<1>3. CASE pc # "done" /\ pc' # "done"
  <2>1. CASE UNCHANGED <<params, owner, assigned_edges, occupied, degrees>>
    BY <1>3, <2>1 DEF Promise!vars, params
  <2>2. ASSUME NEW b \in Parts, NEW e \in EdgeIds, Assigns(b, e)
        PROVE  Promise!Assign(e, b)
    BY <1>3, <2>2 DEF Assigns, AssignEdge, Unassigned, Promise!Assign, params
  <2> QED
    BY <2>1, <2>2, AssignsOrNot DEF Promise!Next
<1> QED
  BY <1>1, <1>2, <1>3

\* split() refines the safety part of EdgePartition.
THEOREM SplitKeepsPromise == Spec => Promise!SafeSpec
<1>1. SInv /\ CoverOK /\ [Next]_vars => [Promise!Next]_(Promise!vars)
  BY PromiseStep
<1> QED
  BY <1>1, CoverAlways, PromiseInit, PTL DEF Spec, Promise!SafeSpec

-----------------------------------------------------------------------------

\* Every part of the inductive invariant holds in every behaviour of split().
THEOREM InvariantHolds == Spec => []IInv
<1>1. Growth /\ DegreeTempOK => IInv
  BY DEF IInv, Growth, SInv, TypeInv
<1> QED
  BY <1>1, DegreeTempAlways, GrowthAlways, PTL

-----------------------------------------------------------------------------
(* The streaming by scores: the first phase is HCNE's and keeps its        *)
(* invariant; of the second the invariant is Streamed and Balanced.        *)

Expanded == pc \in {"select", "expand", "remaining", "stream"}

\* Once the streaming has begun: what is left to stream is what has no partition, the
\* books are kept, and every boundary bitset is that of the ends of the edges.
Streamed ==
    /\ LedgerTypes /\ h2h \subseteq EdgeIds /\ toScan \subseteq h2h
    /\ is_boundarys \in [Parts -> SUBSET Vertices]
    /\ Unassigned = toScan /\ (pc = "done" => toScan = {})
    /\ CountersOK
    /\ \A b \in Parts : is_boundarys[b] = Covered(b)

\* The sizes: exact enough at the first edge, and in order ever after.
Balanced ==
    IF toScan = h2h THEN \A b \in Parts : min_size <= LoadOf(b)
    ELSE min_size <= max_size /\ \E b \in Parts : LoadOf(b) <= max_size

HcsgInv ==
    /\ costs \in [Parts -> Nat \ {0}] /\ min_size \in Nat /\ max_size \in Nat
    /\ Expanded \/ pc \in {"hcsg", "done"}
    /\ Expanded => SInv /\ CoverOK /\ CountersOK
    /\ pc = "stream" => toScan = h2h
    /\ pc \in {"hcsg", "done"} => Streamed /\ Balanced /\ capacities = AllCapacities

LEMMA CardinalityOfDisjoint ==
    ASSUME NEW S, NEW T, IsFiniteSet(S), IsFiniteSet(T), S \cap T = {}
    PROVE  /\ Cardinality(S \cup T) = Cardinality(S) + Cardinality(T)
           /\ Cardinality(S) \in Nat /\ Cardinality(T) \in Nat
<1>1. Cardinality(S \cup T) = Cardinality(S) + Cardinality(T) - Cardinality(S \cap T)
  BY FS_Union
<1>2. Cardinality(S \cap T) = 0 /\ Cardinality(S) \in Nat /\ Cardinality(T) \in Nat
  BY FS_EmptySet, FS_CardinalityType
<1> QED
  BY ONLY <1>1, <1>2

\* What the occupied counters add up to.
LEMMA OccupiedAddUp ==
    ASSUME LedgerTypes, CountersOK
    PROVE  SumOver(occupied, Parts) = assigned_edges
<1> DEFINE OwnedIn(S) == {e \in EdgeIds : owner[e] \in S}
<1> DEFINE Good == {S \in SUBSET Parts : SumOver(occupied, S) = Cardinality(OwnedIn(S))}
<1>1. IsFiniteSet(Parts) /\ CanFold(occupied, Parts)
  BY SizeAssumption, FS_Interval DEF Parts, CanFold, LedgerTypes
<1>2. {} \in Good
  <2>1. OwnedIn({}) = {}
    OBVIOUS
  <2> QED
    BY <2>1, SumEmpty, FS_EmptySet
<1>3. ASSUME NEW S \in SUBSET Parts, S \in Good, NEW b \in Parts \ S PROVE S \cup {b} \in Good
  <2>1. SumOver(occupied, S \cup {b}) = occupied[b] + SumOver(occupied, S)
    BY <1>1, SumInsert
  <2>2. OwnedIn(S \cup {b}) = OwnedIn(S) \cup Owned(b) /\ OwnedIn(S) \cap Owned(b) = {}
    BY DEF Owned
  <2>3. IsFiniteSet(OwnedIn(S)) /\ IsFiniteSet(Owned(b))
    BY EdgeSetsFinite DEF Owned
  <2>4. /\ Cardinality(OwnedIn(S) \cup Owned(b)) = Cardinality(OwnedIn(S)) + Cardinality(Owned(b))
        /\ Cardinality(OwnedIn(S)) \in Nat /\ Cardinality(Owned(b)) \in Nat
    <3> HIDE DEF OwnedIn
    <3> QED
      BY ONLY <2>2, <2>3, CardinalityOfDisjoint
  <2>5. occupied[b] = Cardinality(Owned(b)) /\ SumOver(occupied, S) = Cardinality(OwnedIn(S))
    BY <1>3 DEF CountersOK
  <2>6. SumOver(occupied, S \cup {b}) = Cardinality(OwnedIn(S \cup {b}))
    <3> HIDE DEF OwnedIn
    <3> QED
      BY ONLY <2>1, <2>2, <2>4, <2>5
  <2> QED
    BY <2>6
<1>4. SUBSET Parts \subseteq Good
  <2> HIDE DEF Good
  <2> QED
    BY ONLY <1>1, <1>2, <1>3, InductionOnSubsets
<1>5. OwnedIn(Parts) = EdgeIds \ Unassigned
  BY NoPartAssumption DEF Unassigned, LedgerTypes
<1> QED
  BY <1>4, <1>5 DEF CountersOK

-----------------------------------------------------------------------------
(* Room: the capacities add up to all edges that are counted.              *)

\* A share times its cost is the same for every partition.
LEMMA SharesFacts ==
    ASSUME NEW c \in [Parts -> Nat \ {0}]
    PROVE  /\ ShareOf(c) \in [Parts -> Nat \ {0}]
           /\ \A i, j \in Parts : c[i] * ShareOf(c)[i] = c[j] * ShareOf(c)[j]
<1>1. IsFiniteSet(Parts)
  BY SizeAssumption, FS_Interval DEF Parts
<1>2. \A i \in Parts : ShareOf(c)[i] = ProductOver(c, Parts \ {i})
  BY DEF ShareOf, ProductOver
<1>3. \A i \in Parts : /\ ProductOver(c, Parts \ {i}) \in Nat \ {0}
                       /\ ProductOver(c, Parts) = c[i] * ProductOver(c, Parts \ {i})
  BY <1>1, ProductSplit
<1>4. ShareOf(c) = [i \in Parts |-> ProductOver(c, Parts \ {i})]
  BY DEF ShareOf, ProductOver
<1> QED
  BY ONLY <1>2, <1>3, <1>4

LEMMA CeilCovers ==
    ASSUME NEW a \in Nat, NEW b \in Nat \ {0}
    PROVE  Ceil(a, b) \in Nat /\ a <= b * Ceil(a, b)
BY DEF Ceil

LEMMA TimesOrder ==
    /\ \A k, a, b \in Nat : a <= b => k * a <= k * b
    /\ \A k \in Nat \ {0}, a, b \in Nat : k * a <= k * b => a <= b
    /\ \A x, y, z \in Nat : x * (y * z) = y * (x * z) /\ x * y \in Nat
<1>1. \A k, a, b \in Nat : a <= b => k * a <= k * b
  <2> TAKE k, a, b \in Nat
  <2> HAVE a <= b
  <2>1. PICK d \in Nat : b = a + d
    <3>1. b - a \in Nat /\ b = a + (b - a)
      OBVIOUS
    <3> QED
      BY ONLY <3>1
  <2>2. k * b = k * a + k * d /\ k * d \in Nat /\ k * a \in Nat
    BY <2>1
  <2> QED
    BY ONLY <2>2
<1>2. \A k \in Nat \ {0}, a, b \in Nat : k * a <= k * b => a <= b
  <2> TAKE k \in Nat \ {0}, a, b \in Nat
  <2> SUFFICES ASSUME b < a PROVE k * b < k * a
    OBVIOUS
  <2>1. PICK d \in Nat \ {0} : a = b + d
    <3>1. a - b \in Nat \ {0} /\ a = b + (a - b)
      OBVIOUS
    <3> QED
      BY ONLY <3>1
  <2>2. k * a = k * b + k * d /\ k * b \in Nat
    BY <2>1
  <2>3. k * d \in Nat /\ k * d > 0
    OBVIOUS
  <2> QED
    BY ONLY <2>2, <2>3
<1>3. \A x, y, z \in Nat : x * (y * z) = y * (x * z) /\ x * y \in Nat
  OBVIOUS
<1> QED
  BY <1>1, <1>2, <1>3

\* The lightest partition cannot be full before as many edges are assigned as the capacities
\* are for: its load is at least the share of them that is due to it, and so is that of
\* every other.
LEMMA RoomAtTheLightest ==
    ASSUME costs \in [Parts -> Nat \ {0}], LedgerTypes, CountersOK,
           capacities = AllCapacities, NEW b \in Lightest, Full(b)
    PROVE  Cardinality(EdgeIds) % VidRange <= assigned_edges
<1> DEFINE E == Cardinality(EdgeIds) % VidRange
           share == ShareOf(costs)
           T == Total(share)
<1>1. IsFiniteSet(Parts)
  BY SizeAssumption, FS_Interval DEF Parts
<1>2. E \in Nat
  BY EdgeSetsFinite, SizeAssumption
<1>3. share \in [Parts -> Nat \ {0}] /\ \A i, j \in Parts : costs[i] * share[i] = costs[j] * share[j]
  BY SharesFacts
<1>4. T \in Nat \ {0} /\ T = SumOver(share, Parts)
  BY <1>3, TotalIsPositive DEF Total, SumOver
<1>5. b \in Parts /\ \A c \in Parts : costs[b] * occupied[b] <= costs[c] * occupied[c]
  BY DEF Lightest, LoadOf, Load
<1>6. E * share[b] <= T * occupied[b]
  <2>1. capacities[b] = Ceil(E * share[b], T)
    BY <1>5 DEF AllCapacities, SetDelta
  <2>2. E * share[b] \in Nat
    BY <1>2, <1>3, <1>5
  <2>3. E * share[b] <= T * capacities[b] /\ capacities[b] \in Nat
    BY <1>4, <2>1, <2>2, CeilCovers
  <2>4. capacities[b] <= occupied[b] /\ occupied[b] \in Nat
    BY <1>5 DEF Full, LedgerTypes
  <2> QED
    BY ONLY <1>4, <2>2, <2>3, <2>4
<1>7. ASSUME NEW c \in Parts PROVE E * share[c] <= T * occupied[c]
  <2>1. /\ costs[b] \in Nat /\ share[b] \in Nat /\ occupied[b] \in Nat
        /\ costs[c] \in Nat \ {0} /\ share[c] \in Nat /\ occupied[c] \in Nat /\ T \in Nat
    BY <1>3, <1>4, <1>5 DEF LedgerTypes
  <2>2. costs[b] * share[b] = costs[c] * share[c] /\ costs[b] * occupied[b] <= costs[c] * occupied[c]
    BY <1>3, <1>5
  <2> HIDE DEF E, T, share
  <2>3. PICK cb \in Nat, sb \in Nat, ob \in Nat :
            cb = costs[b] /\ sb = share[b] /\ ob = occupied[b]
    BY ONLY <2>1
  <2>4. PICK cc \in Nat \ {0}, sc \in Nat, oc \in Nat :
            cc = costs[c] /\ sc = share[c] /\ oc = occupied[c]
    BY ONLY <2>1
  <2>5. cb * sb = cc * sc /\ cb * ob <= cc * oc /\ E * sb <= T * ob
    BY ONLY <1>6, <2>2, <2>3, <2>4
  <2>6. cc * (E * sc) = cb * (E * sb)
    <3>1. cc * (E * sc) = E * (cc * sc) /\ cb * (E * sb) = E * (cb * sb)
      BY <1>2, <2>1, TimesOrder
    <3> QED
      BY ONLY <2>5, <3>1
  <2>7. cb * (E * sb) <= cb * (T * ob)
    BY <1>2, <2>1, <2>5, TimesOrder
  <2>8. cb * (T * ob) = T * (cb * ob) /\ cc * (T * oc) = T * (cc * oc)
    BY <1>2, <2>1, <2>5, TimesOrder
  <2>9. T * (cb * ob) <= T * (cc * oc)
    BY <1>2, <2>1, <2>5, TimesOrder
  <2>10. E * sc \in Nat /\ T * oc \in Nat /\ E * sb \in Nat /\ T * ob \in Nat
    BY <1>2, <2>1, <2>5, TimesOrder
  <2>11. /\ cc * (E * sc) \in Nat /\ cb * (E * sb) \in Nat /\ cb * (T * ob) \in Nat
        /\ cc * (T * oc) \in Nat
    BY <1>2, <2>10, TimesOrder
  <2>12. cc * (E * sc) <= cc * (T * oc)
    BY ONLY <2>6, <2>7, <2>8, <2>9, <2>11
  <2>13. E * sc <= T * oc
    BY <2>10, <2>12, TimesOrder
  <2> QED
    BY ONLY <2>4, <2>13
<1> DEFINE due == [c \in Parts |-> E * share[c]]
           got == [c \in Parts |-> T * occupied[c]]
<1>8. CanFold(share, Parts) /\ CanFold(occupied, Parts)
  BY <1>1, <1>3 DEF CanFold, LedgerTypes
<1>9. \A c \in Parts : due[c] \in Int /\ got[c] \in Int
  <2> TAKE c \in Parts
  <2>1. share[c] \in Nat /\ occupied[c] \in Nat /\ T \in Nat
    BY <1>3, <1>4 DEF LedgerTypes
  <2>2. E * share[c] \in Int /\ T * occupied[c] \in Int
    <3> HIDE DEF E, T, share
    <3> QED
      BY ONLY <1>2, <2>1
  <2> QED
    BY <2>2
<1>10. CanFold(due, Parts) /\ CanFold(got, Parts)
  BY <1>1, <1>9 DEF CanFold
<1>11. SumOver(due, Parts) <= SumOver(got, Parts)
  <2>1. \A c \in Parts : due[c] <= got[c]
    BY <1>7
  <2> HIDE DEF due, got
  <2> QED
    BY ONLY <1>10, <2>1, SumMonotone
<1>12. SumOver(due, Parts) = E * T
  <2>1. \A c \in Parts : due[c] = E * share[c]
    OBVIOUS
  <2>2. SumOver(due, Parts) = E * SumOver(share, Parts)
    <3> HIDE DEF E, share, due
    <3> QED
      BY <1>2, <1>8, <1>10, <2>1, SumScaled
  <2> QED
    BY <1>4, <2>2
<1>13. SumOver(got, Parts) = T * assigned_edges
  <2>1. \A c \in Parts : got[c] = T * occupied[c]
    OBVIOUS
  <2>2. SumOver(got, Parts) = T * SumOver(occupied, Parts)
    <3>1. T \in Int
      BY <1>4
    <3> HIDE DEF T, got
    <3> QED
      BY <3>1, <1>8, <1>10, <2>1, SumScaled
  <2> QED
    BY <2>2, OccupiedAddUp
<1>14. T * E <= T * assigned_edges
  <2>1. E * T = T * E
    <3> HIDE DEF E, T
    <3> QED
      BY ONLY <1>2, <1>4
  <2> QED
    BY <1>11, <1>12, <1>13, <2>1
<1>15. assigned_edges \in Nat
  BY DEF LedgerTypes
<1> QED
  <2> HIDE DEF E, T
  <2>1. E <= assigned_edges
    BY ONLY <1>2, <1>4, <1>14, <1>15, TimesOrder
  <2> QED
    BY <2>1 DEF E

-----------------------------------------------------------------------------
(* The steps.                                                              *)

LEMMA InitHcsgInv == InitHcsg => HcsgInv
<1> SUFFICES ASSUME InitHcsg PROVE HcsgInv
  OBVIOUS
<1>1. SInv /\ CoverOK /\ CountersOK
  BY InitSInv, InitCover, InitCounters DEF InitHcsg
<1> QED
  BY <1>1, CostsAssumption DEF InitHcsg, Init, HcsgInv, Expanded

\* The first phase stays in the first phase.
LEMMA ExpandedStays ==
    ASSUME NextExpansion \/ NextRemaining
    PROVE  /\ pc \in {"select", "expand", "remaining"}
           /\ pc' \in {"select", "expand", "remaining", "stream"}
           /\ pc' = "stream" => toScan' = h2h'
BY DEF NextExpansion, NextRemaining, SelectFromHeap, SelectFreeVertex, OccupyVertex, BucketFull,
       BucketStop, LeaveBucket, AssignToCore, AssignToBoundary, SkipEdge, ScanNext, ExpandEdge,
       FinishOccupy, StartRemaining, AssignRemaining, FinishRemaining, params

LEMMA ExpandedInv ==
    ASSUME HcsgInv, NextExpansion \/ NextRemaining, UNCHANGED hvars
    PROVE  HcsgInv'
<1>1. /\ pc \in {"select", "expand", "remaining"}
      /\ pc' \in {"select", "expand", "remaining", "stream"}
      /\ pc' = "stream" => toScan' = h2h'
  BY ExpandedStays
<1>2. SInv /\ CoverOK /\ CountersOK /\ [Next]_vars
  BY <1>1 DEF HcsgInv, Expanded, Next
<1>3. SInv' /\ CoverOK' /\ CountersOK'
  BY ONLY <1>2, StepSInv, StepCover, StepCounters
<1> QED
  BY <1>1, <1>3 DEF HcsgInv, hvars, Expanded

LEMMA LoadsFacts ==
    ASSUME LedgerTypes, costs \in [Parts -> Nat \ {0}]
    PROVE  \A b \in Parts : LoadOf(b) \in Nat
BY DEF LedgerTypes, LoadOf, Load

LEMMA CapacitiesStay == UNCHANGED costs => AllCapacities' = AllCapacities
BY DEF AllCapacities

LEMMA StartHcsgInv ==
    ASSUME HcsgInv, StartHcsg
    PROVE  HcsgInv'
<1>1. SInv /\ CoverOK /\ CountersOK /\ toScan = h2h /\ pc = "stream" /\ LedgerTypes
  BY LedgerTyped DEF HcsgInv, StartHcsg, Expanded, SInv
<1>2. \A b \in Parts : is_boundarys[b] = Covered(b)
  BY <1>1, CoverSettled
<1>3. /\ UNCHANGED <<edges, h2h, owner, assigned_edges, occupied, degrees, toScan>>
      /\ UNCHANGED <<is_boundarys, costs, max_size>> /\ pc' = "hcsg"
      /\ capacities' = AllCapacities
  BY DEF StartHcsg
<1>4. Streamed'
  <2>1. LedgerTypes'
    BY <1>1, <1>3 DEF LedgerTypes
  <2>2. CountersOK'
    BY <1>1, <1>3 DEF CountersOK, DegreesExact, Owned, Unassigned, Incident, Ends
  <2>3. \A b \in Parts : (is_boundarys[b] = Covered(b))'
    BY <1>2, <1>3, CoveredUnchanged
  <2>4. (h2h \subseteq EdgeIds /\ toScan \subseteq h2h /\ Unassigned = toScan)'
    BY <1>1, <1>3 DEF SInv, TypeInv, TypeOK, PendingOK, Unassigned
  <2>5. is_boundarys' \in [Parts -> SUBSET Vertices]
    BY <1>1, <1>3 DEF SInv, TypeInv, TypeOK
  <2> QED
    BY <1>3, <2>1, <2>2, <2>3, <2>4, <2>5 DEF Streamed
<1>5. Balanced' /\ min_size' \in Nat
  <2>1. PICK b \in Parts : (\A c \in Parts : LoadOf(b) <= LoadOf(c)) /\ min_size' = LoadOf(b)
    BY DEF StartHcsg
  <2>2. \A c \in Parts : LoadOf(c)' = LoadOf(c)
    BY <1>3 DEF LoadOf, Load
  <2>3. min_size' \in Nat
    BY <1>1, <2>1, LoadsFacts DEF HcsgInv
  <2> QED
    BY <1>1, <1>3, <2>1, <2>2, <2>3 DEF Balanced
<1>6. (capacities = AllCapacities)'
  BY <1>3, CapacitiesStay
<1> QED
  BY <1>3, <1>4, <1>5, <1>6 DEF HcsgInv, Expanded

LEMMA HcsgEdgeStreamed ==
    ASSUME HcsgInv, NEW e \in EdgeIds, NEW b \in Parts, HcsgEdge(e, b)
    PROVE  Streamed'
<1>1. Streamed /\ e \in toScan /\ e \in Unassigned
  BY DEF HcsgInv, HcsgEdge, Streamed
<1>2. Assigns(b, e) /\ UNCHANGED <<pc, edges, h2h>> /\ toScan' = toScan \ {e} /\ pc = "hcsg"
  BY <1>1 DEF HcsgEdge, Assigns, params
<1>3. LedgerTypes'
  BY <1>1, <1>2, AssignEdgeType DEF Streamed, Assigns, LedgerTypes
<1>4. CountersOK'
  BY <1>1, <1>2, AssignsCounters DEF Streamed
<1>5. Unassigned' = Unassigned \ {e}
  BY <1>1, <1>2, NoPartAssumption DEF Assigns, AssignEdge, Unassigned, Streamed, LedgerTypes
<1>6. \A c \in Parts : Covered(c)' = IF c = b THEN Covered(c) \cup Ends(e) ELSE Covered(c)
  BY <1>1, <1>2, CoveredAfterAssign DEF Streamed, Assigns
<1>7. \A c \in Parts : is_boundarys'[c] = IF c = b THEN is_boundarys[c] \cup Ends(e)
                                                 ELSE is_boundarys[c]
  BY <1>1 DEF Streamed, HcsgEdge, BothPresent
<1>8. is_boundarys' \in [Parts -> SUBSET Vertices]
  <2>1. Ends(e) \subseteq Vertices
    BY <1>1, EndsOfEdge DEF Streamed, LedgerTypes
  <2> QED
    BY <1>1, <2>1 DEF Streamed, HcsgEdge, BothPresent
<1> QED
  BY <1>1, <1>2, <1>3, <1>4, <1>5, <1>6, <1>7, <1>8 DEF Streamed

\* One streamed edge mends max_size, and no other breaks it again.
LEMMA HcsgEdgeBalanced ==
    ASSUME HcsgInv, NEW e \in EdgeIds, NEW b \in Parts, HcsgEdge(e, b)
    PROVE  Balanced' /\ min_size' \in Nat /\ max_size' \in Nat
<1>1. Streamed /\ Balanced /\ LedgerTypes /\ costs \in [Parts -> Nat \ {0}]
  BY DEF HcsgInv, HcsgEdge, Streamed
<1>2. /\ toScan' = toScan \ {e} /\ e \in toScan /\ toScan \subseteq h2h /\ UNCHANGED <<h2h, costs>>
      /\ occupied' = [occupied EXCEPT ![b] = @ + 1]
      /\ max_size' = LargerOf(b) /\ min_size' = SmallerOf(b)
  BY <1>1 DEF HcsgEdge, AssignEdge, params, Streamed
<1>3. toScan' # h2h'
  BY <1>2
<1>4. PICK old \in Nat, new \in Nat :
         old = LoadOf(b) /\ new = Load(b, occupied[b] + 1) /\ old <= new
  <2>1. costs[b] \in Nat /\ occupied[b] \in Nat
    BY <1>1 DEF LedgerTypes
  <2>2. /\ costs[b] * occupied[b] \in Nat /\ costs[b] * (occupied[b] + 1) \in Nat
        /\ costs[b] * occupied[b] <= costs[b] * (occupied[b] + 1)
    BY <2>1, TimesOrder
  <2> QED
    BY <2>2 DEF LoadOf, Load
<1>5. LoadOf(b)' = new
  BY <1>1, <1>2, <1>4 DEF LoadOf, Load, LedgerTypes
<1>6. min_size \in Nat /\ max_size \in Nat
  BY DEF HcsgInv
<1>7. max_size' = IF new > max_size THEN new ELSE max_size
  BY <1>2, <1>4 DEF LargerOf
<1>8. min_size' = new \/ min_size' = min_size
  BY <1>2, <1>4 DEF SmallerOf
<1>9. min_size <= old \/ min_size <= max_size
  BY <1>1, <1>4 DEF Balanced
<1>10. min_size' <= max_size' /\ new <= max_size' /\ min_size' \in Nat /\ max_size' \in Nat
  BY ONLY <1>4, <1>6, <1>7, <1>8, <1>9
<1> QED
  BY <1>3, <1>5, <1>10 DEF Balanced

LEMMA StepHcsgInv == HcsgInv /\ [NextHcsg]_<<vars, hvars>> => HcsgInv'
<1> SUFFICES ASSUME HcsgInv, [NextHcsg]_<<vars, hvars>> PROVE HcsgInv'
  OBVIOUS
<1>1. ASSUME NEW e \in EdgeIds, NEW b \in Parts, HcsgEdge(e, b) PROVE HcsgInv'
  <2>1. Streamed' /\ Balanced' /\ min_size' \in Nat /\ max_size' \in Nat
    BY <1>1, HcsgEdgeStreamed, HcsgEdgeBalanced
  <2>2. UNCHANGED <<costs, capacities, pc>> /\ pc = "hcsg" /\ capacities = AllCapacities
    BY <1>1 DEF HcsgEdge, params, HcsgInv
  <2>3. AllCapacities' = AllCapacities
    BY <2>2, CapacitiesStay
  <2> QED
    BY <2>1, <2>2, <2>3 DEF HcsgInv, Expanded
<1>2. CASE FinishHcsg \/ (pc \in {"hcsg", "done"} /\ UNCHANGED <<vars, hvars>>)
  <2>1. /\ UNCHANGED <<edges, h2h, owner, assigned_edges, occupied, degrees, toScan>>
        /\ UNCHANGED <<is_boundarys, costs, max_size, min_size, capacities>>
        /\ Streamed /\ Balanced /\ capacities = AllCapacities
        /\ pc' \in {"hcsg", "done"} /\ (pc' = "done" => toScan = {})
    BY <1>2 DEF FinishHcsg, vars, hvars, params, HcsgInv, Streamed
  <2>2. LedgerTypes' /\ CountersOK'
    BY <2>1
    DEF Streamed, LedgerTypes, CountersOK, DegreesExact, Owned, Unassigned, Incident, Ends
  <2>3. \A b \in Parts : (is_boundarys[b] = Covered(b))'
    BY <2>1, CoveredUnchanged DEF Streamed
  <2>4. Streamed'
    BY <2>1, <2>2, <2>3 DEF Streamed, Unassigned
  <2>5. Balanced' /\ (capacities = AllCapacities)'
    BY <2>1, CapacitiesStay DEF Balanced, LoadOf, Load
  <2> QED
    BY <2>1, <2>4, <2>5 DEF HcsgInv, Expanded
<1>3. CASE Expanded /\ UNCHANGED <<vars, hvars>>
  <2>1. SInv /\ CoverOK /\ CountersOK /\ [Next]_vars
    BY <1>3 DEF HcsgInv
  <2>2. SInv' /\ CoverOK' /\ CountersOK'
    BY ONLY <2>1, StepSInv, StepCover, StepCounters
  <2> QED
    BY <1>3, <2>2 DEF HcsgInv, Expanded, vars, hvars
<1>4. CASE (NextExpansion \/ NextRemaining) /\ UNCHANGED hvars
  BY <1>4, ExpandedInv
<1>5. CASE StartHcsg
  BY <1>5, StartHcsgInv
<1>6. Expanded \/ pc \in {"hcsg", "done"}
  BY DEF HcsgInv
<1> QED
  BY <1>1, <1>2, <1>3, <1>4, <1>5, <1>6 DEF NextHcsg, Terminated

LEMMA HcsgInvAlways == SpecHcsg => []HcsgInv
BY InitHcsgInv, StepHcsgInv, PTL DEF SpecHcsg

-----------------------------------------------------------------------------
(* What follows.                                                           *)

LEMMA RoomFromInv == ASSUME HcsgInv PROVE LightestHasRoom
<1> DEFINE E == Cardinality(EdgeIds)
<1> SUFFICES ASSUME Streaming, E >= VidRange => RoomIsLeft, NEW b \in Lightest, Full(b)
             PROVE  FALSE
  BY DEF LightestHasRoom
<1>1. Streamed /\ capacities = AllCapacities /\ costs \in [Parts -> Nat \ {0}]
  BY DEF HcsgInv, Streaming
<1>2. E % VidRange <= assigned_edges
  BY <1>1, RoomAtTheLightest DEF Streamed
<1>3. assigned_edges = Cardinality(EdgeIds \ Unassigned)
  BY <1>1 DEF Streamed, CountersOK
<1>4. IsFiniteSet(EdgeIds) /\ EdgeIds \ Unassigned \in SUBSET EdgeIds
  BY EdgesAssumption
<1>5. /\ Cardinality(EdgeIds \ Unassigned) <= E
      /\ Cardinality(EdgeIds \ Unassigned) \in Nat /\ E \in Nat
      /\ E = Cardinality(EdgeIds \ Unassigned) => EdgeIds = EdgeIds \ Unassigned
  BY <1>4, FS_Subset, FS_CardinalityType
<1>6. Unassigned # {} /\ Unassigned \subseteq EdgeIds
  BY <1>1 DEF Streamed, Streaming, Unassigned
<1>7. CASE E < VidRange
  <2>1. E % VidRange = E
    <3> HIDE DEF E
    <3> QED
      BY <1>5, <1>7, SizeAssumption
  <2>2. EdgeIds = EdgeIds \ Unassigned
    <3> HIDE DEF E
    <3> QED
      BY ONLY <1>2, <1>3, <1>5, <2>1
  <2> QED
    BY <1>6, <2>2
<1>8. CASE E >= VidRange
  <2>1. assigned_edges < E % VidRange
    <3>1. assigned_edges < (IF E < VidRange THEN E ELSE E % VidRange)
      BY <1>8 DEF RoomIsLeft
    <3>2. ~(E < VidRange)
      <4> HIDE DEF E
      <4> QED
        BY <1>5, <1>8, SizeAssumption
    <3> QED
      BY <3>1, <3>2
  <2>2. E % VidRange \in Nat
    <3> HIDE DEF E
    <3> QED
      BY <1>5, SizeAssumption
  <2> HIDE DEF E
  <2> QED
    BY ONLY <1>2, <1>3, <1>5, <2>1, <2>2
<1> QED
  <2>1. VidRange \in Nat
    BY SizeAssumption
  <2> HIDE DEF E
  <2> QED
    BY <1>5, <1>7, <1>8, <2>1

\* While an edge is left to stream, no partition with the least load is full, whatever the
\* first phase overfilled: the capacities of set_delta add up to all edges, if these are
\* fewer than a vid_t counts.  With more edges it holds until as many are assigned as the
\* capacities were computed for.
THEOREM LightestAlwaysHasRoom == SpecHcsg => []LightestHasRoom
BY RoomFromInv, HcsgInvAlways, PTL

LEMMA BalanceFromInv == ASSUME HcsgInv PROVE BalanceRecovers
<1> SUFFICES ASSUME Streaming, toScan # h2h
             PROVE  min_size <= max_size /\ \A b \in Lightest : LoadOf(b) <= max_size
  BY DEF BalanceRecovers
<1>1. min_size <= max_size /\ \E c \in Parts : LoadOf(c) <= max_size
  BY DEF HcsgInv, Streaming, Balanced
<1>2. max_size \in Nat /\ \A b \in Parts : LoadOf(b) \in Nat
  BY LoadsFacts DEF HcsgInv, Streaming, Streamed
<1>3. PICK c \in Parts : LoadOf(c) <= max_size
  BY <1>1
<1>4. ASSUME NEW b \in Lightest PROVE LoadOf(b) <= max_size
  <2>1. LoadOf(b) <= LoadOf(c) /\ b \in Parts
    BY DEF Lightest
  <2>2. LoadOf(b) \in Nat /\ LoadOf(c) \in Nat
    BY <1>2, <2>1
  <2> QED
    BY ONLY <1>2, <1>3, <2>1, <2>2
<1> QED
  BY <1>1, <1>4

\* From the second streamed edge on the two sizes are in order, and the balance score of
\* the lightest partitions is not negative.
THEOREM BalanceAlwaysRecovers == SpecHcsg => []BalanceRecovers
BY BalanceFromInv, HcsgInvAlways, PTL

LEMMA HcsgPromiseInit == InitHcsg => Promise!Init
BY PromiseInit DEF InitHcsg

LEMMA HcsgPromiseStep ==
    ASSUME HcsgInv, [NextHcsg]_<<vars, hvars>>
    PROVE  [Promise!Next]_(Promise!vars)
<1>1. CASE (NextExpansion \/ NextRemaining)
  <2>1. pc \in {"select", "expand", "remaining"}
    BY <1>1, ExpandedStays
  <2> QED
    BY <1>1, <2>1, PromiseStep DEF HcsgInv, Expanded, Next
<1>2. CASE StartHcsg
  BY <1>2 DEF StartHcsg, Promise!vars
<1>3. ASSUME NEW e \in EdgeIds, NEW b \in Parts, HcsgEdge(e, b)
      PROVE  Promise!Assign(e, b)
  <2>1. Streamed
    BY <1>3 DEF HcsgEdge, HcsgInv
  <2> QED
    BY <1>3, <2>1 DEF HcsgEdge, AssignEdge, params, Streamed, Unassigned, Promise!Assign
<1>4. CASE FinishHcsg
  <2>1. Streamed
    BY <1>4 DEF FinishHcsg, HcsgInv
  <2>2. \A e \in EdgeIds : owner[e] # NoPart
    BY <1>4, <2>1 DEF FinishHcsg, Streamed, Unassigned
  <2>3. is_boundarys = [b \in Parts |-> Promise!Covered(b)]
    BY <2>1 DEF Streamed, Covered, Owned, Ends, Promise!Covered, Promise!Ends
  <2>4. Promise!Finish
    BY <1>4, <2>2, <2>3 DEF FinishHcsg, Promise!Finish, params
  <2> QED
    BY <2>4 DEF Promise!Next
<1>5. CASE UNCHANGED vars
  BY <1>5 DEF vars, Promise!vars
<1> QED
  BY <1>1, <1>2, <1>3, <1>4, <1>5 DEF NextHcsg, Terminated, Promise!Next

\* split() with hcsg_streaming keeps the promise of EdgePartition.
THEOREM HcsgKeepsItsPromise == SpecHcsg => HcsgKeepsPromise
<1>1. HcsgInv /\ [NextHcsg]_<<vars, hvars>> => [Promise!Next]_(Promise!vars)
  BY HcsgPromiseStep
<1> QED
  BY <1>1, HcsgInvAlways, HcsgPromiseInit, PTL
  DEF SpecHcsg, HcsgKeepsPromise, Promise!SafeSpec

-----------------------------------------------------------------------------
(* The choice of best_scored_partition.                                    *)

\* What a set of partitions that is not empty has: one with the greatest value, the first
\* of those.
LEMMA BestExists ==
    ASSUME NEW f \in [Parts -> Int], NEW C \in SUBSET Parts, C # {}
    PROVE  \E b \in C : \A c \in C : f[c] < f[b] \/ (f[c] = f[b] /\ b <= c)
<1> DEFINE Best(b, D) == \A c \in D : f[c] < f[b] \/ (f[c] = f[b] /\ b <= c)
<1> DEFINE Good == {D \in SUBSET Parts : D # {} => \E b \in D : Best(b, D)}
<1>1. IsFiniteSet(Parts)
  BY SizeAssumption, FS_Interval DEF Parts
<1>2. Parts \subseteq Int
  BY DEF Parts
<1>3. ASSUME NEW D \in SUBSET Parts, D \in Good, NEW x \in Parts \ D PROVE D \cup {x} \in Good
  <2>1. CASE D = {}
    <3>1. Best(x, D \cup {x})
      BY <1>2, <2>1
    <3> QED
      BY <3>1
  <2>2. CASE D # {}
    <3>1. PICK b \in D : Best(b, D)
      BY <1>3, <2>2
    <3>2. f[b] \in Int /\ f[x] \in Int /\ b \in Int /\ x \in Int /\ \A c \in D : f[c] \in Int /\ c \in Int
      BY <1>2, <3>1
    <3>3. CASE f[x] < f[b] \/ (f[x] = f[b] /\ b <= x)
      <4>1. Best(b, D \cup {x})
        BY <3>1, <3>3
      <4> QED
        BY <3>1, <4>1
    <3>4. CASE ~(f[x] < f[b] \/ (f[x] = f[b] /\ b <= x))
      <4>1. ASSUME NEW c \in D PROVE f[c] < f[x] \/ (f[c] = f[x] /\ x <= c)
        <5>1. f[c] < f[b] \/ (f[c] = f[b] /\ b <= c)
          BY <3>1
        <5>2. f[c] \in Int /\ c \in Int
          BY <3>2
        <5> QED
          BY ONLY <3>2, <3>4, <5>1, <5>2
      <4>2. Best(x, D \cup {x})
        BY <3>2, <4>1
      <4> QED
        BY <4>2
    <3> QED
      BY <3>3, <3>4
  <2> QED
    BY <2>1, <2>2
<1>4. SUBSET Parts \subseteq Good
  <2>1. {} \in Good
    OBVIOUS
  <2> HIDE DEF Good
  <2> QED
    BY ONLY <1>1, <1>3, <2>1, InductionOnSubsets
<1> QED
  BY <1>4

LEMMA LightestExists ==
    ASSUME LedgerTypes, costs \in [Parts -> Nat \ {0}]
    PROVE  Lightest # {}
<1> DEFINE f == [b \in Parts |-> 0 - LoadOf(b)]
<1>1. \A b \in Parts : LoadOf(b) \in Nat
  BY LoadsFacts
<1>2. f \in [Parts -> Int] /\ Parts # {} /\ Parts \in SUBSET Parts
  BY <1>1, SizeAssumption DEF Parts
<1>3. PICK b \in Parts : \A c \in Parts : f[c] < f[b] \/ (f[c] = f[b] /\ b <= c)
  <2> HIDE DEF f
  <2> QED
    BY ONLY <1>2, BestExists
<1>4. ASSUME NEW c \in Parts PROVE LoadOf(b) <= LoadOf(c)
  <2>1. 0 - LoadOf(c) <= 0 - LoadOf(b)
    BY <1>1, <1>3
  <2>2. LoadOf(c) \in Nat /\ LoadOf(b) \in Nat
    BY <1>1, <1>3
  <2> QED
    BY ONLY <2>1, <2>2
<1> QED
  BY <1>3, <1>4 DEF Lightest

\* The numerators are numbers, and what is added to the balance is not negative.
LEMMA AttractionNatural ==
    ASSUME NEW b \in Parts, NEW e \in EdgeIds, NEW l, \A v \in Ends(e) : l[v] \in Nat
    PROVE  Attraction(b, e, l) \in Nat
<1> DEFINE f == [v \in Ends(e) |-> IF v \in is_boundarys[b] THEN 0 ELSE l[v]]
<1> DEFINE Body(it, s) ==
               IF s = {} THEN 0
               ELSE (IF (CHOOSE x \in s : TRUE) \in is_boundarys[b] THEN 0
                     ELSE l[CHOOSE x \in s : TRUE]) + it[s \ {CHOOSE x \in s : TRUE}]
           Rec(it) == [s \in SUBSET Ends(e) |-> Body(it, s)]
<1> DEFINE Iter == CHOOSE it : it = Rec(it)
<1>1. Attraction(b, e, l) = Iter[Ends(e)]
  BY DEF Attraction, MapThenSumSet, MapThenFoldSet
<1>2. IsFiniteSet(Ends(e)) /\ \A v \in Ends(e) : f[v] \in Nat
  <2>1. Ends(e) = {edges[e].first} \cup {edges[e].second}
    BY DEF Ends
  <2>2. IsFiniteSet(Ends(e))
    <3>1. IsFiniteSet({edges[e].first})
      BY FS_Singleton
    <3> QED
      BY ONLY <2>1, <3>1, FS_AddElement
  <2> QED
    BY <2>2
<1>3. CanFold(f, Ends(e))
  BY <1>2 DEF CanFold
<1>4. PICK F : IsFold("sum", f, Ends(e), F)
  BY <1>3, FoldsExist
<1>5. \A it : Rec(it) = [s \in SUBSET Ends(e) |-> Folded("sum", f, s, it)]
  <2> TAKE it
  <2>1. ASSUME NEW s \in SUBSET Ends(e)
        PROVE  Body(it, s) = Folded("sum", f, s, it)
    <3>1. CASE s = {}
      BY <3>1 DEF Folded, Unit
    <3>2. CASE s # {}
      <4>1. (CHOOSE x \in s : TRUE) \in Ends(e)
        BY <3>2
      <4> QED
        BY <3>2, <4>1 DEF Folded, Combined, Pick
    <3> QED
      BY <3>1, <3>2
  <2> HIDE DEF Body
  <2> QED
    BY <2>1
<1>6. F = Rec(F)
  BY <1>4, <1>5 DEF IsFold
<1>7. Iter = Rec(Iter)
  <2> HIDE DEF Rec
  <2>1. \E it : it = Rec(it)
    BY <1>6
  <2> QED
    BY ONLY <2>1
<1>8. IsFold("sum", f, Ends(e), Iter)
  BY <1>5, <1>7 DEF IsFold
<1>9. PICK G : IsFold("sum", f, Ends(e), G) /\ SumOver(f, Ends(e)) = G[Ends(e)]
  BY <1>3, SumIsFold
<1>10. Iter[Ends(e)] = G[Ends(e)]
  <2> HIDE DEF f, Rec, Iter
  <2>1. Ends(e) \in SUBSET Ends(e)
    OBVIOUS
  <2> QED
    BY ONLY <1>3, <1>8, <1>9, <2>1, FoldsAgree
<1>11. SumOver(f, Ends(e)) \in Nat
  BY <1>2, SumNatural
<1> QED
  BY <1>1, <1>9, <1>10, <1>11

LEMMA TermsFacts ==
    ASSUME NEW e \in EdgeIds, NEW l \in [Ends(e) -> UNION {Terms(v) : v \in Ends(e)}]
    PROVE  \A v \in Ends(e) : l[v] \in Nat
<1>1. CommTerms \subseteq Nat
  BY ScaleAssumption
<1>2. \A v : Terms(v) \subseteq Nat
  BY <1>1 DEF Terms
<1> QED
  BY <1>2

\* What the scores are made of while edges are streamed.
LEMMA ScoreParts ==
    ASSUME HcsgInv, Streaming, toScan # h2h, NEW e \in toScan
    PROVE  /\ BalanceBase \in Nat \ {0} /\ Abs(BalanceBase) = BalanceBase
           /\ DegreeSum(e) \in Nat \ {0} /\ DegreeGap(e) \in Nat
           /\ \A b \in Parts : Presence(b, e) \in Nat
<1>1. Streamed /\ Balanced /\ min_size \in Nat /\ max_size \in Nat /\ e \in EdgeIds
  BY DEF HcsgInv, Streaming, Streamed
<1>2. BalanceBase \in Nat \ {0}
  <2>1. Scale \in Nat \ {0} /\ min_size <= max_size
    BY <1>1, ScaleAssumption DEF Balanced
  <2> QED
    BY ONLY <1>1, <2>1 DEF BalanceBase
<1>3. \A v \in Ends(e) : degrees[v] \in Nat \ {0}
  <2> TAKE v \in Ends(e)
  <2>1. v \in Vertices /\ e \in Incident(v) \cap Unassigned
    BY <1>1, EndsOfEdge DEF Streamed, LedgerTypes, Incident
  <2>2. IsFiniteSet(Incident(v) \cap Unassigned)
    BY EdgeSetsFinite DEF Incident
  <2>3. Cardinality(Incident(v) \cap Unassigned) \in Nat \ {0}
    BY <2>1, <2>2, FS_EmptySet, FS_CardinalityType
  <2> QED
    BY <1>1, <2>1, <2>3 DEF Streamed, CountersOK, DegreesExact
<1>4. degrees[edges[e].first] \in Nat \ {0} /\ degrees[edges[e].second] \in Nat \ {0}
  BY <1>3 DEF Ends
<1>5. DegreeSum(e) \in Nat \ {0} /\ DegreeGap(e) \in Nat
  BY ONLY <1>4 DEF DegreeSum, DegreeGap, Abs
<1>6. \A b \in Parts : Presence(b, e) \in Nat
  BY ONLY <1>4 DEF Presence
<1> QED
  BY <1>2, <1>5, <1>6 DEF Abs

LEMMA ScoreFacts ==
    ASSUME HcsgInv, Streaming, toScan # h2h, NEW e \in toScan, NEW l,
           \A v \in Ends(e) : l[v] \in Nat, NEW b \in Parts
    PROVE  /\ Score(b, e, l) \in Int /\ ScoreUnit(e) \in Nat \ {0}
           /\ LoadOf(b) <= max_size => Score(b, e, l) >= 0
<1>1. /\ BalanceBase \in Nat \ {0} /\ Abs(BalanceBase) = BalanceBase
      /\ DegreeSum(e) \in Nat \ {0} /\ DegreeGap(e) \in Nat /\ Presence(b, e) \in Nat
  BY ScoreParts
<1>2. Attraction(b, e, l) \in Nat
  BY AttractionNatural DEF HcsgInv, Streaming, Streamed
<1>3. max_size \in Nat /\ LoadOf(b) \in Nat
  BY LoadsFacts DEF HcsgInv, Streaming, Streamed
<1>4. PICK B \in Nat \ {0}, D \in Nat \ {0}, G \in Nat, p \in Nat, a \in Nat, gap \in Int :
         /\ B = BalanceBase /\ D = DegreeSum(e) /\ G = DegreeGap(e) /\ p = Presence(b, e)
         /\ a = Attraction(b, e, l) /\ gap = max_size - LoadOf(b)
  BY ONLY <1>1, <1>2, <1>3
<1>5. Score(b, e, l) = 10 * B * (4 * p + G * a) + 44 * D * 1 * gap
  BY <1>1, <1>4 DEF Score
<1>6. ScoreUnit(e) = 40 * D * B
  BY <1>1, <1>4 DEF ScoreUnit
<1>7. 10 * B * (4 * p + G * a) \in Nat
  BY ONLY <1>4, TimesOrder
<1>8. 44 * D * 1 * gap \in Int /\ (gap >= 0 => 44 * D * 1 * gap >= 0)
  BY ONLY <1>4, TimesOrder
<1>9. 40 * D * B \in Nat \ {0}
  BY ONLY <1>4
<1>10. LoadOf(b) <= max_size => gap >= 0
  BY ONLY <1>3, <1>4
<1> QED
  BY ONLY <1>5, <1>6, <1>7, <1>8, <1>9, <1>10

\* There is a candidate, so the one chosen is one.
LEMMA ChosenHasRoom ==
    ASSUME HcsgInv, Streaming, toScan # h2h, Cardinality(EdgeIds) >= VidRange => RoomIsLeft,
           NEW e \in toScan, NEW b \in Parts, MayChoose(e, b)
    PROVE  ~Full(b)
<1>1. BalanceBase \in Nat \ {0} /\ e \in EdgeIds
  BY ScoreParts DEF HcsgInv, Streaming, Streamed
<1>2. PICK l \in [Ends(e) -> UNION {Terms(v) : v \in Ends(e)}] : b = BestScored(e, l)
  BY <1>1 DEF MayChoose
<1>3. \A v \in Ends(e) : l[v] \in Nat
  BY <1>1, TermsFacts
<1>4. \A c \in Parts : /\ Score(c, e, l) \in Int /\ ScoreUnit(e) \in Nat \ {0}
                       /\ LoadOf(c) <= max_size => Score(c, e, l) >= 0
  BY <1>3, ScoreFacts
<1>5. Candidates(e, l) # {}
  <2>1. PICK c \in Lightest : TRUE
    BY LightestExists DEF HcsgInv, Streaming, Streamed
  <2>2. ~Full(c) /\ LoadOf(c) <= max_size /\ c \in Parts
    BY <2>1, RoomFromInv, BalanceFromInv DEF LightestHasRoom, BalanceRecovers, Lightest
  <2>3. Score(c, e, l) >= 0 /\ Score(c, e, l) \in Int /\ ScoreUnit(e) \in Nat \ {0}
    BY <1>4, <2>2
  <2>4. Score(c, e, l) > -ScoreUnit(e)
    BY ONLY <2>3
  <2> QED
    BY <2>2, <2>4 DEF Candidates
<1>6. BestScored(e, l) \in Candidates(e, l)
  <2> DEFINE f == [c \in Parts |-> Score(c, e, l)]
  <2>1. f \in [Parts -> Int] /\ Candidates(e, l) \in SUBSET Parts
    BY <1>4 DEF Candidates
  <2>2. PICK c \in Candidates(e, l) :
            \A d \in Candidates(e, l) : f[d] < f[c] \/ (f[d] = f[c] /\ c <= d)
    <3> HIDE DEF f
    <3> QED
      BY ONLY <1>5, <2>1, BestExists
  <2>3. \A d \in Candidates(e, l) : \/ Score(d, e, l) < Score(c, e, l)
                                    \/ Score(d, e, l) = Score(c, e, l) /\ c <= d
    BY <2>1, <2>2
  <2> QED
    BY <1>5, <2>2, <2>3 DEF BestScored
<1> QED
  BY <1>2, <1>6 DEF Candidates

\* After the first one, no streamed edge goes to a partition that is full: a partition
\* with room always scores better than the -1 the search starts from, so the choice of
\* best_scored_partition never falls back to partition 0.  For any number of edges a vid_t
\* counts, and for more as long as room is left.
THEOREM AlwaysInRoomAfterFirst == SpecHcsg => AfterFirstInRoom
<1> DEFINE InRoom ==
      Streaming /\ toScan # h2h /\ (Cardinality(EdgeIds) >= VidRange => RoomIsLeft) =>
         \A b \in Parts : Full(b) => occupied'[b] = occupied[b]
<1>1. HcsgInv /\ [NextHcsg]_<<vars, hvars>> => [InRoom]_<<vars, hvars>>
  <2> SUFFICES ASSUME HcsgInv, NextHcsg, Streaming, toScan # h2h,
                      Cardinality(EdgeIds) >= VidRange => RoomIsLeft, NEW b \in Parts, Full(b)
               PROVE  occupied'[b] = occupied[b]
    OBVIOUS
  <2>1. PICK e \in EdgeIds, c \in Parts : HcsgEdge(e, c)
    BY ExpandedStays DEF NextHcsg, Streaming, Terminated, StartHcsg, FinishHcsg
  <2>2. e \in toScan /\ MayChoose(e, c)
    BY <2>1 DEF HcsgEdge
  <2>3. ~Full(c)
    BY <2>2, ChosenHasRoom
  <2>4. b # c /\ occupied \in [Parts -> Nat]
    BY <2>3 DEF HcsgInv, Streaming, Streamed, LedgerTypes
  <2> QED
    BY <2>1, <2>4 DEF HcsgEdge, AssignEdge
<1> QED
  BY <1>1, HcsgInvAlways, PTL DEF SpecHcsg, AfterFirstInRoom

-----------------------------------------------------------------------------
(* The records of communication cost.  A partition is one digit as long as *)
(* there are at most ten; with more the digits read back are no longer the *)
(* partitions inserted for.                                                *)

Records == [data : [Parts -> Nat], comm_id : Seq(Parts)]

\* What comms_set holds is no older than what adding up would give.
SumsCurrent ==
    \A id \in DOMAIN comms_set :
        id \in Seq(Parts) /\ id # <<>> /\ comms_set[id] = CostOf(id)

\* A cost other than 0 is one of a core vertex, and none is for the first partition.
CostlyAreCores ==
    \A v \in Vertices : \A b \in Parts : comm_temp[v].data[b] # 0 => b # 0 /\ v \in is_cores[b]

\* All that is inserted for the first partition is the digit 0, and Comms[0][0] = 0.
FirstIsFree ==
    bucket = 0 => \A v \in Vertices : \A i \in DOMAIN comm_temp[v].comm_id :
                      comm_temp[v].comm_id[i] = 0

\* What was last inserted for a core vertex is the partition being filled, and nothing
\* has set its cost back since.
CoresAddedUp ==
    \A v \in Core : LET id == comm_temp[v].comm_id IN
        id # <<>> /\ id[Len(id)] = bucket /\ comm_temp[v].data[bucket] = CostOf(id)

CommInv ==
    Expanding => /\ comm_temp \in [Vertices -> Records]
                 /\ SumsCurrent /\ CostlyAreCores /\ FirstIsFree /\ CoresAddedUp

\* The sum over the digits from the partition b, as the fold that it is.
LEMMA LinkSum ==
    ASSUME NEW id, NEW b
    PROVE  MapThenSumSet(LAMBDA i : Comms[b][id[i]], DOMAIN id)
              = SumOver([i \in DOMAIN id |-> Comms[b][id[i]]], DOMAIN id)
<1> DEFINE S == DOMAIN id
           f == [i \in S |-> Comms[b][id[i]]]
           Rec(it) == [s \in SUBSET S |-> IF s = {} THEN 0
                                          ELSE Comms[b][id[CHOOSE i \in s : TRUE]]
                                                 + it[s \ {CHOOSE i \in s : TRUE}]]
           Iter == CHOOSE it : it = Rec(it)
           RecF(it) == [s \in SUBSET S |-> IF s = {} THEN 0
                                           ELSE f[CHOOSE i \in s : TRUE]
                                                  + it[s \ {CHOOSE i \in s : TRUE}]]
           IterF == CHOOSE it : it = RecF(it)
<1>1. MapThenSumSet(LAMBDA i : Comms[b][id[i]], DOMAIN id) = Iter[S]
  BY DEF MapThenSumSet, MapThenFoldSet
<1>2. SumOver(f, S) = IterF[S]
  BY DEF SumOver, MapThenSumSet, MapThenFoldSet
<1>3. \A it : Rec(it) = RecF(it)
  OBVIOUS
<1>4. Iter = IterF
  <2> HIDE DEF Rec, RecF
  <2> QED
    BY <1>3
<1> QED
  BY <1>1, <1>2, <1>4

LEMMA CostIsSum ==
    ASSUME NEW id
    PROVE  CostOf(id) = MapThenSumSet(LAMBDA i : Comms[id[Len(id)]][id[i]], DOMAIN id)
BY DEF CostOf, FoldFunction, FoldFunctionOnSet, MapThenFoldSet, MapThenSumSet

\* For the partition being filled it is what CostsOfCores adds up.
LEMMA CostFromBucket ==
    ASSUME NEW v, comm_temp[v].comm_id[Len(comm_temp[v].comm_id)] = bucket
    PROVE  CostOf(comm_temp[v].comm_id)
              = MapThenSumSet(LAMBDA i : Comms[bucket][comm_temp[v].comm_id[i]],
                              DOMAIN comm_temp[v].comm_id)
<1> DEFINE id == comm_temp[v].comm_id
           S == DOMAIN id
           Rec(it) == [s \in SUBSET S |-> IF s = {} THEN 0
                                          ELSE Comms[bucket][id[CHOOSE i \in s : TRUE]]
                                                 + it[s \ {CHOOSE i \in s : TRUE}]]
           Iter == CHOOSE it : it = Rec(it)
           RecC(it) == [s \in SUBSET S |-> IF s = {} THEN 0
                                           ELSE Comms[id[Len(id)]][id[CHOOSE i \in s : TRUE]]
                                                  + it[s \ {CHOOSE i \in s : TRUE}]]
           IterC == CHOOSE it : it = RecC(it)
<1>1. MapThenSumSet(LAMBDA i : Comms[bucket][comm_temp[v].comm_id[i]],
                    DOMAIN comm_temp[v].comm_id) = Iter[S]
  BY DEF MapThenSumSet, MapThenFoldSet
<1>2. CostOf(comm_temp[v].comm_id) = IterC[S]
  BY DEF CostOf, FoldFunction, FoldFunctionOnSet, MapThenFoldSet
<1>3. \A it : Rec(it) = RecC(it)
  OBVIOUS
<1>4. Iter = IterC
  <2> HIDE DEF Rec, RecC
  <2> QED
    BY <1>3
<1> QED
  BY <1>1, <1>2, <1>4

LEMMA CostFacts ==
    ASSUME NEW id \in Seq(Parts), id # <<>>
    PROVE  /\ CostOf(id) \in Nat
           /\ (\A i \in DOMAIN id : id[i] = 0) => CostOf(id) = 0
<1> DEFINE last == id[Len(id)]
           f == [i \in DOMAIN id |-> Comms[last][id[i]]]
<1>1. last \in Parts /\ IsFiniteSet(DOMAIN id) /\ \A i \in DOMAIN id : id[i] \in Parts
  <2>1. Len(id) \in Nat \ {0} /\ DOMAIN id = 1 .. Len(id)
    OBVIOUS
  <2> QED
    BY <2>1, FS_Interval
<1>2. \A i \in DOMAIN id : f[i] \in Nat
  BY <1>1, CommsAssumption
<1>3. CostOf(id) = SumOver(f, DOMAIN id)
  BY CostIsSum, LinkSum
<1>4. SumOver(f, DOMAIN id) \in Nat
  BY <1>1, <1>2, SumNatural
<1>5. ASSUME \A i \in DOMAIN id : id[i] = 0 PROVE SumOver(f, DOMAIN id) = 0
  <2>1. last = 0 /\ 0 \in Parts
    BY <1>1, <1>5, SizeAssumption DEF Parts
  <2>2. \A i \in DOMAIN id : f[i] = 0
    BY <1>5, <2>1, CommsAssumption
  <2>3. SumOver(f, DOMAIN id) = 0 * Cardinality(DOMAIN id) + (0 - 0) * Cardinality({})
    <3> HIDE DEF f
    <3> QED
      BY <1>1, <2>2, SumTwoValued
  <2>4. Cardinality(DOMAIN id) \in Nat /\ Cardinality({}) = 0
    BY <1>1, FS_CardinalityType, FS_EmptySet
  <2> QED
    BY ONLY <2>3, <2>4
<1> QED
  BY <1>3, <1>4, <1>5

\* Inserting a vertex: one more digit, and the cost of the partition starts anew.
LEMMA InsertedFacts ==
    ASSUME P <= 10, bucket \in Parts, NEW r \in Records
    PROVE  /\ Inserted(r) \in Records
           /\ Inserted(r).data = [r.data EXCEPT ![bucket] = 0]
           /\ LET id == Inserted(r).comm_id IN
              /\ id \in Seq(Parts) /\ id # <<>> /\ id[Len(id)] = bucket
              /\ \A i \in DOMAIN id : id[i] = bucket \/ \E j \in DOMAIN r.comm_id : id[i] = r.comm_id[j]
<1>1. Digits(bucket) = <<bucket>>
  BY SizeAssumption DEF Digits, Parts
<1>2. r.comm_id \in Seq(Parts) /\ r.data \in [Parts -> Nat]
  BY DEF Records
<1>3. Inserted(r).comm_id = r.comm_id \o <<bucket>>
      /\ Inserted(r).data = [r.data EXCEPT ![bucket] = 0]
  BY <1>1 DEF Inserted
<1> DEFINE id == r.comm_id \o <<bucket>>
<1>4. /\ id \in Seq(Parts) /\ Len(id) = Len(r.comm_id) + 1 /\ id[Len(r.comm_id) + 1] = bucket
      /\ \A i \in 1 .. Len(r.comm_id) : id[i] = r.comm_id[i]
      /\ Len(r.comm_id) \in Nat
  BY <1>2
<1>5. id # <<>> /\ id[Len(id)] = bucket
  BY <1>4
<1>6. \A i \in DOMAIN id : id[i] = bucket \/ \E j \in DOMAIN r.comm_id : id[i] = r.comm_id[j]
  <2> TAKE i \in DOMAIN id
  <2>1. i \in 1 .. Len(r.comm_id) + 1
    BY <1>4
  <2>2. CASE i = Len(r.comm_id) + 1
    BY <1>4, <2>2
  <2>3. CASE i # Len(r.comm_id) + 1
    <3>1. i \in 1 .. Len(r.comm_id)
      BY <1>4, <2>1, <2>3
    <3> QED
      BY <1>2, <1>4, <3>1
  <2> QED
    BY <2>2, <2>3
<1>7. Inserted(r) \in Records
  <2>1. [r.data EXCEPT ![bucket] = 0] \in [Parts -> Nat]
    BY <1>2
  <2> QED
    BY <1>1, <1>4, <2>1 DEF Inserted, Records
<1> QED
  BY <1>3, <1>4, <1>5, <1>6, <1>7

\* Bringing a cost up to date stores what adding up gives, whether it had been stored or not.
LEMMA UpdatedFacts ==
    ASSUME SumsCurrent, bucket \in Parts, NEW tab \in [Vertices -> Records],
           NEW v \in Vertices, tab[v].comm_id # <<>>, UpdateValue(tab, v)
    PROVE  /\ CostOf(tab[v].comm_id) \in Nat
           /\ comm_temp' \in [Vertices -> Records]
           /\ \A w \in Vertices \ {v} : comm_temp'[w] = tab[w]
           /\ comm_temp'[v].comm_id = tab[v].comm_id
           /\ comm_temp'[v].data = [tab[v].data EXCEPT ![bucket] = CostOf(tab[v].comm_id)]
           /\ SumsCurrent'
<1> DEFINE id == tab[v].comm_id
           r == tab[v]
<1>1. r \in Records /\ id \in Seq(Parts) /\ r.data \in [Parts -> Nat]
  BY DEF Records
<1>2. CostOf(id) \in Nat
  BY <1>1, CostFacts
<1>3. \A k \in DOMAIN comms_set \cup {id} : Cost(k) = CostOf(k)
  BY DEF Cost, SumsCurrent
<1>4. SumsCurrent'
  <2>1. comms_set' = [k \in DOMAIN comms_set \cup {id} |-> Cost(k)]
    BY DEF UpdateValue
  <2>2. \A k \in DOMAIN comms_set' :
           k \in DOMAIN comms_set \cup {id} /\ comms_set'[k] = CostOf(k)
    BY <1>3, <2>1
  <2>3. \A k \in DOMAIN comms_set \cup {id} : k \in Seq(Parts) /\ k # <<>>
    BY <1>1 DEF SumsCurrent
  <2>4. ASSUME NEW k \in DOMAIN comms_set'
        PROVE  k \in Seq(Parts) /\ k # <<>> /\ comms_set'[k] = CostOf(k)
    BY <2>2, <2>3
  <2> QED
    BY <2>4 DEF SumsCurrent
<1>5. comm_temp' = [tab EXCEPT ![v].data[bucket] = CostOf(id)]
  BY <1>3 DEF UpdateValue
<1>6. /\ comm_temp' \in [Vertices -> Records]
      /\ \A w \in Vertices \ {v} : comm_temp'[w] = tab[w]
      /\ comm_temp'[v].comm_id = id
      /\ comm_temp'[v].data = [r.data EXCEPT ![bucket] = CostOf(id)]
  <2> HIDE DEF id
  <2>1. comm_temp' = [tab EXCEPT ![v] = [r EXCEPT !.data = [r.data EXCEPT ![bucket] = CostOf(id)]]]
    BY <1>5
  <2>2. [r EXCEPT !.data = [r.data EXCEPT ![bucket] = CostOf(id)]] \in Records
    BY <1>1, <1>2 DEF Records
  <2> QED
    BY <1>1, <2>1, <2>2 DEF id, Records
<1> QED
  BY <1>2, <1>4, <1>6

\* A vertex becomes a core vertex and is inserted.
LEMMA InsertCoreInv ==
    ASSUME P <= 10, CommInv, TypeOK, Expanding, NEW v \in Vertices, InsertCore(v),
           is_cores' = [is_cores EXCEPT ![bucket] = @ \cup {v}], bucket' = bucket
    PROVE  CommInv'
<1> DEFINE r == comm_temp[v]
           tab == [comm_temp EXCEPT ![v] = Inserted(r)]
           id == Inserted(r).comm_id
<1>1. /\ bucket \in Parts /\ is_cores \in [Parts -> SUBSET Vertices]
      /\ comm_temp \in [Vertices -> Records] /\ SumsCurrent /\ CostlyAreCores
      /\ FirstIsFree /\ CoresAddedUp
  BY DEF CommInv, TypeOK
<1>2. /\ Inserted(r) \in Records
      /\ Inserted(r).data = [r.data EXCEPT ![bucket] = 0]
      /\ id \in Seq(Parts) /\ id # <<>> /\ id[Len(id)] = bucket
      /\ \A i \in DOMAIN id : id[i] = bucket \/ \E j \in DOMAIN r.comm_id : id[i] = r.comm_id[j]
  BY <1>1, InsertedFacts
<1>3. /\ tab \in [Vertices -> Records] /\ tab[v] = Inserted(r)
      /\ \A w \in Vertices \ {v} : tab[w] = comm_temp[w]
  BY <1>1, <1>2
<1>4. UpdateValue(tab, v)
  BY DEF InsertCore
<1>5. /\ CostOf(id) \in Nat
      /\ comm_temp' \in [Vertices -> Records]
      /\ \A w \in Vertices \ {v} : comm_temp'[w] = comm_temp[w]
      /\ comm_temp'[v].comm_id = id
      /\ comm_temp'[v].data = [Inserted(r).data EXCEPT ![bucket] = CostOf(id)]
      /\ SumsCurrent'
  <2> HIDE DEF tab, r
  <2> QED
    BY <1>1, <1>2, <1>3, <1>4, UpdatedFacts
<1>6. r \in Records /\ r.data \in [Parts -> Nat]
  BY <1>1 DEF Records
<1>7. /\ comm_temp'[v].data[bucket] = CostOf(id)
      /\ \A b \in Parts \ {bucket} : comm_temp'[v].data[b] = comm_temp[v].data[b]
  BY <1>1, <1>2, <1>5, <1>6
<1> HIDE DEF id, tab
<1>8. FirstIsFree'
  <2> SUFFICES ASSUME bucket = 0, NEW w \in Vertices, NEW i \in DOMAIN comm_temp'[w].comm_id
               PROVE  comm_temp'[w].comm_id[i] = 0
    BY DEF FirstIsFree
  <2>1. CASE w = v
    BY <1>1, <1>2, <1>5, <2>1 DEF FirstIsFree
  <2>2. CASE w # v
    BY <1>1, <1>5, <2>2 DEF FirstIsFree
  <2> QED
    BY <2>1, <2>2
<1>9. bucket = 0 => CostOf(id) = 0
  <2>1. bucket = 0 => \A i \in DOMAIN id : id[i] = 0
    BY <1>1, <1>2 DEF FirstIsFree
  <2> QED
    BY <1>2, <2>1, CostFacts
<1>10. CostlyAreCores'
  <2> SUFFICES ASSUME NEW w \in Vertices, NEW b \in Parts, comm_temp'[w].data[b] # 0
               PROVE  b # 0 /\ w \in is_cores'[b]
    BY DEF CostlyAreCores
  <2>1. CASE w = v /\ b = bucket
    BY <1>1, <1>7, <1>9, <2>1
  <2>2. CASE ~(w = v /\ b = bucket)
    <3>1. comm_temp'[w].data[b] = comm_temp[w].data[b]
      BY <1>5, <1>7, <2>2
    <3> QED
      BY <1>1, <3>1 DEF CostlyAreCores
  <2> QED
    BY <2>1, <2>2
<1>11. CoresAddedUp'
  <2>1. Core' = Core \cup {v} /\ Core \subseteq Vertices
    BY <1>1 DEF Core
  <2> SUFFICES ASSUME NEW w \in Core'
               PROVE  /\ comm_temp'[w].comm_id # <<>>
                      /\ comm_temp'[w].comm_id[Len(comm_temp'[w].comm_id)] = bucket
                      /\ comm_temp'[w].data[bucket] = CostOf(comm_temp'[w].comm_id)
    BY DEF CoresAddedUp
  <2>2. CASE w = v
    BY <1>2, <1>5, <1>7, <2>2
  <2>3. CASE w # v
    BY <1>1, <1>5, <2>1, <2>3 DEF CoresAddedUp
  <2> QED
    BY <2>2, <2>3
<1> QED
  BY <1>5, <1>8, <1>10, <1>11 DEF CommInv

\* A vertex outside the core is inserted, and the core vertex it was reached from is
\* brought up to date.
LEMMA InsertReachedInv ==
    ASSUME P <= 10, CommInv, TypeOK, Expanding, NEW u \in Vertices \ Core, InsertReached(u),
           vid \in Core, UNCHANGED <<is_cores, bucket>>
    PROVE  CommInv'
<1> DEFINE r == comm_temp[u]
           tab == [comm_temp EXCEPT ![u] = Inserted(r)]
           id == comm_temp[vid].comm_id
<1>1. /\ bucket \in Parts /\ is_cores \in [Parts -> SUBSET Vertices]
      /\ comm_temp \in [Vertices -> Records] /\ SumsCurrent /\ CostlyAreCores
      /\ FirstIsFree /\ CoresAddedUp
      /\ Core \subseteq Vertices /\ vid \in Vertices /\ vid # u
  BY DEF CommInv, TypeOK, Core
<1>2. /\ Inserted(r) \in Records
      /\ Inserted(r).data = [r.data EXCEPT ![bucket] = 0]
      /\ \A i \in DOMAIN Inserted(r).comm_id :
            \/ Inserted(r).comm_id[i] = bucket
            \/ \E j \in DOMAIN r.comm_id : Inserted(r).comm_id[i] = r.comm_id[j]
  BY <1>1, InsertedFacts
<1>3. /\ tab \in [Vertices -> Records] /\ tab[u] = Inserted(r)
      /\ \A w \in Vertices \ {u} : tab[w] = comm_temp[w]
  BY <1>1, <1>2
<1>4. UpdateValue(tab, vid)
  BY DEF InsertReached
<1>5. id # <<>> /\ id[Len(id)] = bucket /\ comm_temp[vid].data[bucket] = CostOf(id)
  BY <1>1 DEF CoresAddedUp
<1>6. /\ comm_temp' \in [Vertices -> Records]
      /\ \A w \in Vertices \ {vid} : comm_temp'[w] = tab[w]
      /\ comm_temp'[vid].comm_id = id
      /\ comm_temp'[vid].data = [comm_temp[vid].data EXCEPT ![bucket] = CostOf(id)]
      /\ SumsCurrent'
  <2>1. tab[vid] = comm_temp[vid] /\ tab[vid].comm_id # <<>>
    BY <1>1, <1>3, <1>5
  <2> HIDE DEF tab, r
  <2> QED
    BY <1>1, <1>3, <1>4, <2>1, UpdatedFacts
<1>7. /\ comm_temp'[u] = Inserted(r)
      /\ \A w \in Vertices \ {u, vid} : comm_temp'[w] = comm_temp[w]
  BY <1>1, <1>3, <1>6
<1>8. \A w \in Vertices : comm_temp[w].data \in [Parts -> Nat]
  BY <1>1 DEF Records
<1>9. comm_temp'[vid].data = comm_temp[vid].data
  BY <1>1, <1>5, <1>6, <1>8
<1>10. /\ comm_temp'[u].data[bucket] = 0
       /\ \A b \in Parts \ {bucket} : comm_temp'[u].data[b] = comm_temp[u].data[b]
  BY <1>1, <1>2, <1>7, <1>8
<1> HIDE DEF id, tab
<1>11. FirstIsFree'
  <2> SUFFICES ASSUME bucket = 0, NEW w \in Vertices, NEW i \in DOMAIN comm_temp'[w].comm_id
               PROVE  comm_temp'[w].comm_id[i] = 0
    BY DEF FirstIsFree
  <2>1. CASE w = u
    BY <1>1, <1>2, <1>7, <2>1 DEF FirstIsFree
  <2>2. CASE w # u
    BY <1>1, <1>6, <1>7, <2>2 DEF FirstIsFree, id
  <2> QED
    BY <2>1, <2>2
<1>12. CostlyAreCores'
  BY <1>1, <1>7, <1>9, <1>10 DEF CostlyAreCores
<1>13. CoresAddedUp'
  <2> SUFFICES ASSUME NEW w \in Core
               PROVE  /\ comm_temp'[w].comm_id # <<>>
                      /\ comm_temp'[w].comm_id[Len(comm_temp'[w].comm_id)] = bucket
                      /\ comm_temp'[w].data[bucket] = CostOf(comm_temp'[w].comm_id)
    BY DEF CoresAddedUp, Core
  <2>1. w # u /\ w \in Vertices
    BY <1>1
  <2>2. CASE w = vid
    BY <1>5, <1>6, <1>9, <2>2
  <2>3. CASE w # vid
    BY <1>1, <1>7, <2>1, <2>3 DEF CoresAddedUp
  <2> QED
    BY <2>2, <2>3
<1> QED
  BY <1>6, <1>11, <1>12, <1>13 DEF CommInv

\* Only records with no digit are written when a vertex enters the heap, and a core vertex
\* has one.
LEMMA InsertLookedInv ==
    ASSUME P <= 10, CommInv, TypeOK, Expanding, InsertLooked, UNCHANGED <<is_cores, bucket>>
    PROVE  CommInv'
<1>1. /\ bucket \in Parts /\ is_cores \in [Parts -> SUBSET Vertices]
      /\ comm_temp \in [Vertices -> Records] /\ SumsCurrent /\ CostlyAreCores
      /\ FirstIsFree /\ CoresAddedUp /\ Core \subseteq Vertices
  BY DEF CommInv, TypeOK, Core
<1>2. \A w \in Vertices : /\ comm_temp[w].data \in [Parts -> Nat]
                          /\ Inserted(comm_temp[w]) \in Records
                          /\ Inserted(comm_temp[w]).data = [comm_temp[w].data EXCEPT ![bucket] = 0]
                          /\ \A i \in DOMAIN Inserted(comm_temp[w]).comm_id :
                               \/ Inserted(comm_temp[w]).comm_id[i] = bucket
                               \/ \E j \in DOMAIN comm_temp[w].comm_id :
                                     Inserted(comm_temp[w]).comm_id[i] = comm_temp[w].comm_id[j]
  BY <1>1, InsertedFacts DEF Records
<1>3. /\ comms_set' = comms_set /\ DOMAIN comm_temp' = Vertices
      /\ \A w \in Vertices : \/ comm_temp'[w] = comm_temp[w]
                             \/ /\ comm_temp[w].comm_id = <<>>
                                /\ comm_temp'[w] = Inserted(comm_temp[w])
      /\ comm_temp' = [w \in Vertices |-> comm_temp'[w]]
  BY DEF InsertLooked
<1>4. comm_temp' \in [Vertices -> Records]
  <2>1. \A w \in Vertices : comm_temp'[w] \in Records
    BY <1>1, <1>2, <1>3
  <2> QED
    BY <1>3, <2>1
<1>5. SumsCurrent'
  BY <1>1, <1>3 DEF SumsCurrent
<1>6. FirstIsFree'
  <2> SUFFICES ASSUME bucket = 0, NEW w \in Vertices, NEW i \in DOMAIN comm_temp'[w].comm_id
               PROVE  comm_temp'[w].comm_id[i] = 0
    BY DEF FirstIsFree
  <2>1. CASE comm_temp'[w] = comm_temp[w]
    BY <1>1, <2>1 DEF FirstIsFree
  <2>2. CASE comm_temp'[w] = Inserted(comm_temp[w])
    <3>1. i \in DOMAIN Inserted(comm_temp[w]).comm_id
      BY <2>2
    <3>2. comm_temp'[w].comm_id[i] = Inserted(comm_temp[w]).comm_id[i]
      BY <2>2
    <3>3. CASE Inserted(comm_temp[w]).comm_id[i] = bucket
      BY <3>2, <3>3
    <3>4. CASE \E j \in DOMAIN comm_temp[w].comm_id :
                  Inserted(comm_temp[w]).comm_id[i] = comm_temp[w].comm_id[j]
      BY <1>1, <3>2, <3>4 DEF FirstIsFree
    <3> QED
      BY <1>2, <3>1, <3>3, <3>4
  <2> QED
    BY <1>3, <2>1, <2>2
<1>7. CostlyAreCores'
  <2> SUFFICES ASSUME NEW w \in Vertices, NEW b \in Parts, comm_temp'[w].data[b] # 0
               PROVE  comm_temp[w].data[b] # 0
    BY <1>1 DEF CostlyAreCores
  <2>1. CASE comm_temp'[w] = Inserted(comm_temp[w])
    <3>1. comm_temp'[w].data = [comm_temp[w].data EXCEPT ![bucket] = 0]
      BY <1>2, <2>1
    <3> QED
      BY <1>2, <3>1
  <2> QED
    BY <1>3, <2>1
<1>8. CoresAddedUp'
  <2> SUFFICES ASSUME NEW w \in Core
               PROVE  /\ comm_temp'[w].comm_id # <<>>
                      /\ comm_temp'[w].comm_id[Len(comm_temp'[w].comm_id)] = bucket
                      /\ comm_temp'[w].data[bucket] = CostOf(comm_temp'[w].comm_id)
    BY DEF CoresAddedUp, Core
  <2>1. comm_temp'[w] = comm_temp[w]
    BY <1>1, <1>3 DEF CoresAddedUp
  <2> QED
    BY <1>1, <2>1 DEF CoresAddedUp
<1> QED
  BY <1>4, <1>5, <1>6, <1>7, <1>8 DEF CommInv

LEMMA ClearSetInv ==
    ASSUME CommInv, SInv, pc = "select", bucket < P - 1, LeaveBucket, ClearSet
    PROVE  CommInv'
<1>1. /\ bucket \in Parts /\ comm_temp \in [Vertices -> Records] /\ CostlyAreCores
      /\ is_cores[bucket + 1] = {}
  <2>1. bucket \in Parts /\ Expanding
    BY DEF SInv, TypeInv, TypeOK, Expanding
  <2>2. bucket + 1 \in Parts /\ bucket + 1 > bucket
    BY <2>1, SizeAssumption DEF Parts
  <2> QED
    BY <2>1, <2>2 DEF CommInv, SInv, FrontierOK
<1>2. bucket' = bucket + 1 /\ is_cores' = is_cores /\ comm_temp' = comm_temp
      /\ DOMAIN comms_set' = {}
  BY DEF LeaveBucket, ClearSet
<1>3. SumsCurrent' /\ CostlyAreCores'
  BY <1>1, <1>2 DEF SumsCurrent, CostlyAreCores
<1>4. bucket' # 0 /\ Core' = {}
  BY <1>1, <1>2 DEF Parts, Core
<1> QED
  BY <1>1, <1>2, <1>3, <1>4 DEF CommInv, FirstIsFree, CoresAddedUp

LEMMA TableUntouchedInv ==
    ASSUME CommInv, UNCHANGED table, Expanding' => Expanding /\ UNCHANGED <<is_cores, bucket>>
    PROVE  CommInv'
<1> SUFFICES ASSUME Expanding' PROVE CommInv'
  BY DEF CommInv
<1>1. /\ Expanding /\ UNCHANGED <<is_cores, bucket, comm_temp, comms_set>>
  BY DEF table
<1> QED
  BY <1>1 DEF CommInv, SumsCurrent, CostlyAreCores, FirstIsFree, CoresAddedUp, Core

LEMMA InitCommInv == CommInit => CommInv
<1> SUFFICES ASSUME CommInit PROVE CommInv
  OBVIOUS
<1>1. /\ comm_temp = [v \in Vertices |-> NoRecord] /\ DOMAIN comms_set = {}
      /\ bucket = 0 /\ is_cores = [b \in Parts |-> {}]
  BY DEF CommInit, Init
<1>2. NoRecord \in Records /\ NoRecord.comm_id = <<>> /\ \A b \in Parts : NoRecord.data[b] = 0
  BY DEF NoRecord, Records
<1>3. 0 \in Parts
  BY SizeAssumption DEF Parts
<1>4. SumsCurrent /\ CostlyAreCores
  BY <1>1, <1>2 DEF SumsCurrent, CostlyAreCores
<1>5. FirstIsFree
  BY <1>1, <1>2 DEF FirstIsFree
<1>6. Core = {}
  BY <1>1, <1>3 DEF Core
<1> QED
  BY <1>1, <1>2, <1>4, <1>5, <1>6 DEF CommInv, CoresAddedUp

LEMMA StepCommInv ==
    ASSUME P <= 10, SInv, CommInv, [CommNext]_commVars
    PROVE  CommInv'
<1>1. TypeOK
  BY DEF SInv, TypeInv
<1>2. ASSUME NEW v \in Vertices, SelectFromHeap(v), InsertCore(v) PROVE CommInv'
  BY <1>1, <1>2, InsertCoreInv DEF SelectFromHeap, OccupyVertex, Expanding
<1>3. ASSUME NEW start \in Vertices, NEW c \in 0 .. N - 1, SelectFreeVertex(start, c),
             InsertCore(Probe(start, c))
      PROVE  CommInv'
  <2>1. Probe(start, c) \in Vertices
    BY ProbeIsVertex
  <2> QED
    BY <1>1, <1>3, <2>1, InsertCoreInv DEF SelectFreeVertex, OccupyVertex, Expanding
<1>4. ASSUME NEW e \in EdgeIds, ExpandEdge(e), InsertReached(Other(e, vid)) PROVE CommInv'
  <2>1. VertexReached(e, Other(e, vid))
    BY <1>4, ExpandEdgeEffect
  <2>2. Other(e, vid) \in Vertices \ Core /\ vid \in Core /\ Expanding
        /\ UNCHANGED <<is_cores, bucket>>
    BY <2>1 DEF VertexReached, SInv, FrontierOK, ScanOK, Expanding
  <2> QED
    BY <1>1, <1>4, <2>2, InsertReachedInv
<1>5. ASSUME FinishOccupy, InsertLooked PROVE CommInv'
  BY <1>1, <1>5, InsertLookedInv DEF FinishOccupy, Expanding
<1>6. ASSUME BucketFull \/ \E start \in Vertices : BucketStop(start), ClearSet PROVE CommInv'
  BY <1>6, ClearSetInv DEF BucketFull, BucketStop
<1>7. ASSUME NEW e \in EdgeIds, AssignToCore(e) \/ AssignToBoundary(e) \/ SkipEdge(e),
             UNCHANGED table
      PROVE  CommInv'
  BY <1>7, TableUntouchedInv DEF AssignToCore, AssignToBoundary, SkipEdge, ScanNext, Expanding
<1>8. ASSUME NextRemaining \/ NextStreaming \/ Terminated, UNCHANGED table PROVE CommInv'
  <2>1. ~Expanding'
    BY <1>8 DEF NextRemaining, StartRemaining, AssignRemaining, FinishRemaining, NextStreaming,
                StreamEdge, FinishStream, Terminated, Expanding, vars
  <2> QED
    BY <2>1 DEF CommInv
<1>9. ASSUME UNCHANGED commVars PROVE CommInv'
  BY <1>9, TableUntouchedInv DEF commVars, vars, Expanding
<1> QED
  BY <1>2, <1>3, <1>4, <1>5, <1>6, <1>7, <1>8, <1>9 DEF CommNext

LEMMA CommStepIsStep == [CommNext]_commVars => [Next]_vars
BY DEF CommNext, commVars, Next, NextExpansion

\* Costs of communication are held for core vertices only, the first partition's excepted,
\* and the cost of a core vertex of the partition being filled is the sum over all it was
\* inserted for, for all links between at most ten partitions: comm_temp is what the
\* expansion and the streaming take it for.
THEOREM CostsOfCoresHold == P <= 10 => (CommSpec => []CostsOfCores)
<1> SUFFICES ASSUME P <= 10 PROVE CommSpec => []CostsOfCores
  OBVIOUS
<1>1. CommInit => SInv /\ CommInv
  BY InitSInv, InitCommInv DEF CommInit
<1>2. (SInv /\ CommInv) /\ [CommNext]_commVars => (SInv /\ CommInv)'
  BY CommStepIsStep, StepSInv, StepCommInv
<1>3. SInv /\ CommInv => CostsOfCores
  <2> SUFFICES ASSUME SInv, CommInv, Expanding, NEW v \in Core
               PROVE  comm_temp[v].data[bucket]
                         = MapThenSumSet(LAMBDA i : Comms[bucket][comm_temp[v].comm_id[i]],
                                         DOMAIN comm_temp[v].comm_id)
    BY DEF CommInv, CostlyAreCores, CostsOfCores, Core
  <2>1. /\ comm_temp[v].comm_id[Len(comm_temp[v].comm_id)] = bucket
        /\ comm_temp[v].data[bucket] = CostOf(comm_temp[v].comm_id)
    BY DEF CommInv, CoresAddedUp
  <2> QED
    BY <2>1, CostFromBucket
<1> QED
  BY <1>1, <1>2, <1>3, PTL DEF CommSpec
=============================================================================
