------------------------------- MODULE MCHCSG -------------------------------
(* Small instances of HCSG for TLC. *)
EXTENDS HCSG

CONSTANTS MaxEdges, CostRange, Speeds

MCEdgeIds == 1 .. MaxEdges
Code(x) == x.first * N + x.second
\* Multigraphs without loops, edges directed from the lower end, one
\* representative per order of the edges, the vertices numbered so that an
\* edge joins the first two.
MCGraphs ==
    {g \in [MCEdgeIds -> {x \in EndPoints : x.first < x.second}] :
        /\ g[1] = [first |-> 0, second |-> 1]
        /\ \A i \in 1 .. MaxEdges - 1 : Code(g[i]) <= Code(g[i + 1])}
\* Equal machines, and the first one with a smaller share.
MCShares == {[i \in Parts |-> IF i = 0 THEN 1 ELSE s] : s \in Speeds}
Least == CHOOSE c \in CostRange : \A d \in CostRange : c <= d
\* Equal machines, and the first one slower.
MCCosts == {[i \in Parts |-> IF i = 0 THEN c ELSE Least] : c \in CostRange}
=============================================================================
