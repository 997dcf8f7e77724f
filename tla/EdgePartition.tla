--------------------------- MODULE EdgePartition ---------------------------
(***************************************************************************)
(* What a caller of AHEPartitioner::split() relies on, with every internal *)
(* structure of the partitioner removed: the edges of the input graph are  *)
(* given, one at a time and in some order, to partitions; an edge that has *)
(* a partition keeps it; the run ends only when every edge has one; and    *)
(* what it then reports as the vertices present in a partition are exactly *)
(* the end points of the edges given to that partition (the number of such *)
(* pairs is the "total mirrors" of the log, from which the replication     *)
(* factor is computed).                                                    *)
(***************************************************************************)
EXTENDS Integers

CONSTANTS EdgeIds,    \* positions of the edges in the input
          Parts,      \* the partitions
          NoPart      \* the owner of an edge not assigned yet; not a partition

VARIABLES edges,      \* the input graph: end points of every edge
          owner,      \* the partition an edge was given to
          finished,   \* the run has ended
          replicas    \* per partition, the vertices reported at the end

vars == <<edges, owner, finished, replicas>>

Ends(e) == {edges[e].first, edges[e].second}

\* The vertices that a partition must hold: end points of its edges.
Covered(b) == UNION {Ends(e) : e \in {f \in EdgeIds : owner[f] = b}}

Init ==
    /\ owner = [e \in EdgeIds |-> NoPart]
    /\ finished = FALSE
    /\ replicas = [b \in Parts |-> {}]

Assign(e, b) ==
    /\ ~finished
    /\ owner[e] = NoPart
    /\ owner' = [owner EXCEPT ![e] = b]
    /\ UNCHANGED <<edges, finished, replicas>>

Finish ==
    /\ ~finished
    /\ \A e \in EdgeIds : owner[e] # NoPart
    /\ finished' = TRUE
    /\ replicas' = [b \in Parts |-> Covered(b)]
    /\ UNCHANGED <<edges, owner>>

Next == Finish \/ \E e \in EdgeIds, b \in Parts : Assign(e, b)

SafeSpec == Init /\ [][Next]_vars

\* An edge that can be given to a partition is, and the run then ends.
Spec == SafeSpec /\ WF_vars(Next)
=============================================================================
