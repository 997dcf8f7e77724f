------------------------------ MODULE HCNEInv ------------------------------
(***************************************************************************)
(* An inductive invariant of HCNE, one named part for each thing split()   *)
(* relies on.  HCNEProofs proves that it is inductive and that it implies  *)
(* the invariants of HCNE.                                                 *)
(***************************************************************************)
EXTENDS HCNE

Core == is_cores[bucket]
Boundary == is_boundarys[bucket]
Inside(e) == Ends(e) \subseteq Boundary
NotLoop(e) == edges[e].first # edges[e].second

\* What stream_build and set_delta left, and never changes.
InputOK ==
    /\ edges \in Graphs
    /\ h2h \subseteq EdgeIds
    /\ capacities \in [Parts -> Nat]

\* The edges without a partition, phase by phase.
PendingOK ==
    /\ Expanding => valid \subseteq Low /\ Unassigned = valid \cup h2h
    /\ pc = "remaining" => /\ bucket = P - 1
                           /\ toScan \subseteq Low
                           /\ Unassigned = toScan \cup h2h
    /\ pc = "stream" => toScan = Unassigned
    /\ pc = "done" => Unassigned = {}

\* A valid edge is in the lists of both its ends; a vertex outside the
\* boundary has nothing but valid edges in its lists.
ListsOK ==
    /\ \A v \in Vertices : adj[v] \subseteq Incident(v) \cap Low
    /\ Expanding => /\ \A e \in valid : \A v \in Ends(e) : e \in adj[v]
                    /\ \A v \in Vertices \ Boundary : adj[v] \subseteq valid

\* The bitsets of the running partition, and of those to come.
FrontierOK ==
    Expanding =>
        /\ Core \subseteq Boundary
        /\ DOMAIN heap \cup mpids = Boundary \ Core
        /\ DOMAIN heap \cap mpids = {}
        /\ \A b \in Parts : b > bucket => is_cores[b] = {} /\ is_boundarys[b] = {}

\* Where add_boundary and occupy_vertex stand.
ScanOK ==
    /\ pc = "select" => mpids = {} /\ toScan = {}
    /\ pc = "expand" => /\ bucket < P - 1
                        /\ vid \in Core
                        /\ toScan \subseteq adj[cur]
                        /\ toScan # {} => cur \in Boundary
                        /\ toScan # {} /\ cur \in Core => Boundary = Core

\* A valid edge inside the boundary that is not still to be visited: there
\* was no room for it, and neither of its ends is a core vertex.
InsideOK ==
    Expanding => \A e \in valid : Inside(e) /\ e \notin toScan =>
                                     ~HasRoom /\ Ends(e) \cap Core = {}

\* cur has a valid edge to a core vertex still to be visited: the edge that
\* add_boundary is going to take for it.
Awaited == pc = "expand" /\ \E e \in toScan \cap valid : Other(e, cur) \in Core

\* The boundary bits are those of the ends of assigned edges, but for the
\* vertex add_boundary is at and the core vertex not yet expanded.
EndsInBoundary ==
    \A e \in EdgeIds : \A b \in Parts :
        owner[e] = b => Ends(e) \subseteq is_boundarys[b]

CoverAt(b, v) ==
    \/ v \in Covered(b)
    \/ b = bucket /\ v = cur /\ Awaited
    \/ b = bucket /\ v = vid /\ pc = "expand" /\ \E e \in valid : v \in Ends(e)

CoverOK ==
    /\ EndsInBoundary
    /\ \A b \in Parts : \A v \in is_boundarys[b] : CoverAt(b, v)

\* A vertex reached by occupy_vertex has an assigned edge, or is about to.
DegreeTempOK ==
    pc = "expand" => \A v \in mpids : degree_temp[v] > 0 \/ (v = cur /\ Awaited)

\* The counters.
CountersOK ==
    /\ assigned_edges = Cardinality(EdgeIds \ Unassigned)
    /\ \A b \in Parts : occupied[b] = Cardinality(Owned(b))
    /\ DegreesExact

\* Only a partition with room starts to expand.
RoomOK == pc = "expand" => capacities[bucket] > 0

\* Every part together.
IInv ==
    /\ TypeOK
    /\ InputOK
    /\ PendingOK
    /\ ListsOK
    /\ FrontierOK
    /\ ScanOK
    /\ InsideOK
    /\ CoverOK
    /\ DegreeTempOK
    /\ CountersOK
    /\ RoomOK
    /\ OvershootOnlyAtCores
=============================================================================
