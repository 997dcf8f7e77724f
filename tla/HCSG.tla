-------------------------------- MODULE HCSG --------------------------------
(***************************************************************************)
(* The other second phase of split(): with -random_streaming=false the     *)
(* edges between two high-degree vertices go through hcsg_streaming, which *)
(* recomputes the capacities for all edges and gives each edge to the      *)
(* partition with the best score.  The first phase is HCNE's.              *)
(*                                                                         *)
(* The cost per edge bs[i] is costs[i] / Scale, and min_size and max_size  *)
(* are counted in the same unit.  The score of a partition is              *)
(*     gu + gv + cha * (gu_l + gv_l) + lambda * bal;                       *)
(* for one edge the scores of all partitions have one denominator, and the *)
(* model compares the numerators.  What comm_temp makes of gu_l and gv_l   *)
(* is chosen from CommTerms, in quarters.                                  *)
(***************************************************************************)
EXTENDS HCNE

CONSTANTS
    Costs,      \* candidate costs per edge of the partitions, bs * Scale
    Scale,
    CommTerms   \* candidate values of 4 * gu_l for a core vertex

ASSUME CostsAssumption == Costs \subseteq [Parts -> Nat \ {0}]
ASSUME ScaleAssumption == Scale \in Nat \ {0} /\ CommTerms \subseteq 0 .. 4

VARIABLES costs, min_size, max_size

hvars == <<costs, min_size, max_size>>

-----------------------------------------------------------------------------
(* Loads, capacities and scores.                                           *)

Load(b, n) == costs[b] * n
LoadOf(b) == Load(b, occupied[b])
Full(b) == capacities[b] # 0 /\ occupied[b] >= capacities[b]    \* 0 is the NaN of set_delta

\* set_delta: the share of a partition is proportional to 1/bs[i].
ShareOf(c) ==
    [i \in Parts |-> FoldSet(LAMBDA j, r : c[j] * r, 1, Parts \ {i})]

\* The denominator of bal: 1 + max_size - min_size.
BalanceBase == Scale + max_size - min_size
Abs(x) == IF x < 0 THEN -x ELSE x

\* gu + gv, times the sum of the degrees of the ends of e.
Presence(b, e) ==
    LET d(v) == degrees[v]
        u == edges[e].first
        v == edges[e].second
    IN  (IF u \in is_boundarys[b] THEN d(u) + 2 * d(v) ELSE 0)
          + (IF v \in is_boundarys[b] THEN d(v) + 2 * d(u) ELSE 0)

\* 4 * (gu_l + gv_l), l being the terms of the two ends: an end counts where
\* it is not present yet.  (The term is that of the partition of the edge
\* before, which the member variable bucket still names.)
Attraction(b, e, l) ==
    MapThenSumSet(LAMBDA v : IF v \in is_boundarys[b] THEN 0 ELSE l[v], Ends(e))

DegreeSum(e) == degrees[edges[e].first] + degrees[edges[e].second]
DegreeGap(e) == Abs(degrees[edges[e].first] - degrees[edges[e].second])

\* The score of b for e is Score / ScoreUnit; lambda is 11/10.
ScoreUnit(e) == 40 * DegreeSum(e) * Abs(BalanceBase)
Score(b, e, l) ==
    10 * Abs(BalanceBase) * (4 * Presence(b, e) + DegreeGap(e) * Attraction(b, e, l))
      + 44 * DegreeSum(e) * (IF BalanceBase > 0 THEN 1 ELSE -1)
           * (max_size - LoadOf(b))

\* Mutated form: the capacities are not looked at.
AnyScore(e, l) == {b \in Parts : Score(b, e, l) > -ScoreUnit(e)}

\* A full partition scores -1.0, and best_score starts there.
Candidates(e, l) == {b \in Parts : ~Full(b) /\ Score(b, e, l) > -ScoreUnit(e)}

\* best_scored_partition: the first best candidate, and 0 if there is none.
BestScored(e, l) ==
    IF Candidates(e, l) = {} THEN 0
    ELSE CHOOSE b \in Candidates(e, l) : \A c \in Candidates(e, l) :
             \/ Score(c, e, l) < Score(b, e, l)
             \/ Score(c, e, l) = Score(b, e, l) /\ b <= c

\* The values gu_l and gv_l may have: only occupy_vertex stores a cost.
Terms(v) == IF bucket \in 1 .. P - 2 /\ v \in is_cores[bucket]
            THEN CommTerms \cup {0} ELSE {0}

\* Where the base of bal is 0 the doubles are infinite or not numbers, and
\* the comparison may end anywhere.
MayChoose(e, b) ==
    \/ BalanceBase = 0
    \/ \E l \in [Ends(e) -> UNION {Terms(v) : v \in Ends(e)}] :
          /\ \A v \in Ends(e) : l[v] \in Terms(v)
          /\ b = BestScored(e, l)

-----------------------------------------------------------------------------

InitHcsg ==
    /\ Init
    /\ costs \in Costs
    /\ min_size = 0
    /\ max_size = 0

\* Mutated form: the capacities of the first phase stay.
LowCapacities == capacities

AllCapacities == SetDelta(Cardinality(EdgeIds), ShareOf(costs))

\* The capacities for all edges; min_size is the least load.
StartHcsg ==
    /\ pc = "stream"
    /\ pc' = "hcsg"
    /\ capacities' = AllCapacities
    /\ \E b \in Parts : /\ \A c \in Parts : LoadOf(b) <= LoadOf(c)
                        /\ min_size' = LoadOf(b)
    /\ UNCHANGED <<edges, h2h, bucket, vid, cur, toScan, mpids, adj, valid,
                   owner, assigned_edges, occupied, degrees, degree_temp,
                   heap, is_cores, is_boundarys, costs, max_size>>

\* Mutated form: max_size is never updated.
SameMax(b) == max_size

\* max_size: the load of b if it is larger.
LargerOf(b) ==
    LET load == Load(b, occupied[b] + 1)
    IN  IF load > max_size THEN load ELSE max_size

\* min_size moves when b was the smallest and, as the code counts (numbers
\* of edges, against a cost), one partition is.
SmallerOf(b) ==
    LET now(i) == IF i = b THEN occupied[i] + 1 ELSE occupied[i]
    IN  IF /\ LoadOf(b) = min_size
           /\ Cardinality({i \in Parts : now(i) * Scale = min_size}) = 1
        THEN Load(b, occupied[b] + 1)
        ELSE min_size

\* Mutated form: only the bit of the first end is set.
FirstPresent(b, e) == [is_boundarys EXCEPT ![b] = @ \cup {edges[e].first}]

BothPresent(b, e) == [is_boundarys EXCEPT ![b] = @ \cup Ends(e)]

HcsgEdge(e, b) ==
    /\ pc = "hcsg"
    /\ e \in toScan
    /\ MayChoose(e, b)
    /\ toScan' = toScan \ {e}
    /\ bucket' = b
    /\ AssignEdge(b, e)
    /\ is_boundarys' = BothPresent(b, e)
    /\ max_size' = LargerOf(b)
    /\ min_size' = SmallerOf(b)
    /\ UNCHANGED <<params, pc, vid, cur, mpids, adj, valid, degree_temp, heap,
                   is_cores, costs>>

FinishHcsg ==
    /\ pc = "hcsg" /\ toScan = {}
    /\ pc' = "done"
    /\ UNCHANGED <<params, bucket, vid, cur, toScan, mpids, adj, valid, owner,
                   assigned_edges, occupied, degrees, degree_temp, heap,
                   is_cores, is_boundarys, hvars>>

NextHcsg ==
    \/ (NextExpansion \/ NextRemaining \/ Terminated) /\ UNCHANGED hvars
    \/ StartHcsg
    \/ \E e \in EdgeIds, b \in Parts : HcsgEdge(e, b)
    \/ FinishHcsg

SpecHcsg == InitHcsg /\ [][NextHcsg]_<<vars, hvars>>

\* split() with either value of -random_streaming: the first streamed edge shows which.
NextSplit ==
    \/ NextHcsg /\ (pc = "stream" => toScan = h2h)
    \/ NextStreaming /\ UNCHANGED hvars

\* The program has one thread, which runs until it returns from split().
FairSplit == InitHcsg /\ [][NextSplit]_<<vars, hvars>> /\ WF_<<vars, hvars>>(NextSplit)

-----------------------------------------------------------------------------
(* Properties.                                                             *)

Streaming == pc = "hcsg" /\ toScan # {}
Lightest == {b \in Parts : \A c \in Parts : LoadOf(b) <= LoadOf(c)}

\* The edges the capacities were computed for, all or what a vid_t keeps of their number,
\* are not yet assigned.
RoomIsLeft ==
    LET all == Cardinality(EdgeIds)
    IN  assigned_edges < (IF all < VidRange THEN all ELSE all % VidRange)

\* As long as an edge is left to stream, every partition with the least
\* load has room: the capacities computed anew add up to all edges at least,
\* and the first phase, whatever it overfilled, cannot have used them up.
\* So best_scored_partition always has a partition with room to choose.  This
\* goes for fewer than 2^32 edges; with more it ends with RoomIsLeft, and all
\* partitions may be full.
LightestHasRoom ==
    Streaming /\ (Cardinality(EdgeIds) >= VidRange => RoomIsLeft) => \A b \in Lightest : ~Full(b)

\* max_size starts at 0, below the loads of the first phase, which turns the
\* balance score around or makes it very low.  One streamed edge mends
\* this: from then on the sizes are in order and the lightest partitions
\* have a balance score that is not negative, although neither size is exact.
BalanceRecovers ==
    Streaming /\ toScan # h2h =>
        /\ min_size <= max_size
        /\ \A b \in Lightest : LoadOf(b) <= max_size

\* After the first one, no streamed edge goes to a partition that is full; with 2^32 edges
\* or more, as long as RoomIsLeft.
AfterFirstInRoom ==
    [][Streaming /\ toScan # h2h /\ (Cardinality(EdgeIds) >= VidRange => RoomIsLeft) =>
          \A b \in Parts : Full(b) => occupied'[b] = occupied[b]]_<<vars, hvars>>

\* split() with hcsg_streaming promises what it does with random streaming:
\* every edge once, and the exact end points of each partition at the end.
HcsgKeepsPromise == Promise!SafeSpec
=============================================================================
