------------------------------- MODULE MCHCNE -------------------------------
(* Small instances of HCNE for TLC. *)
EXTENDS HCNEInv

CONSTANTS MaxEdges, Speeds

MCEdgeIds == 1 .. MaxEdges
Code(x) == x.first * N + x.second
\* Every simple graph, with the edges directed from the lower end: the
\* direction of an edge decides in which of the two lists of a vertex it is.
MCSimple ==
    {g \in [MCEdgeIds -> {x \in EndPoints : x.first < x.second}] :
        \A i \in 1 .. MaxEdges - 1 : Code(g[i]) < Code(g[i + 1])}
\* Equal machines, and machines of which the first is slower, or faster.
MCShares ==
    UNION {{[i \in Parts |-> IF i = 0 THEN 1 ELSE s],
            [i \in Parts |-> IF i = 0 THEN s ELSE 1]} : s \in Speeds}
=============================================================================
