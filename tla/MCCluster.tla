----------------------------- MODULE MCCluster ------------------------------
(* Small instances of Cluster: ratios smaller than those of the code, whose products TLC
   could not hold. *)
EXTENDS Cluster

MCComp == [i \in 0 .. 1 |-> i + 1]
MCComm == [i \in 0 .. 2 |-> IF i = 0 THEN 1 ELSE 3]
=============================================================================
