------------------------------ MODULE Cluster -------------------------------
(***************************************************************************)
(* cluster.cpp: what split() makes of -topo and -p before it fills a       *)
(* partition.  set_ability describes the machines (comps, the time each    *)
(* takes for an edge, and comms, the cost of the link between two) and     *)
(* normalises both tables by a sum of its own; calculateMinComm and        *)
(* set_delta derive min_comm and the capacities from them.  hcsg_streaming *)
(* calls set_delta again, for all edges.                                   *)
(*                                                                         *)
(* The tables are kept as integers beside the sums the code divides them   *)
(* by, compSum and commSum; arithmetic is exact, up to the rounding of a   *)
(* capacity that is a whole number.  What is divided by 0 is infinite, and *)
(* what comes of an infinite value is NaN in the end.  set_ability_haep    *)
(* and set_delta_haep have no caller.                                      *)
(***************************************************************************)
EXTENDS Integers, FiniteSets, FiniteSetsExt, SequencesExt

CONSTANTS
    Topos, MaxParts,     \* candidate values of -topo, largest -p
    Comp, Comm,          \* comp[0..1] and comm[0..2], in units of their own
    VertexCounts, EdgeCounts,   \* candidate numbers of vertices; of low-degree and of other edges
    VidRange,            \* how many values a vid_t has: 2^32
    NaN

Layouts == {1, 2, 3, 4, 11, 22, 33, 44}    \* the topologies set_ability knows

ASSUME ClusterAssumption ==
    /\ Topos \subseteq Nat /\ MaxParts \in Nat \ {0}
    /\ Comp \in [0 .. 1 -> Nat \ {0}] /\ Comm \in [0 .. 2 -> Nat \ {0}]
    /\ Comp[0] < Comp[1] /\ Comm[0] < Comm[1] /\ Comm[1] = Comm[2]
    /\ VertexCounts \subseteq Nat \ {0} /\ EdgeCounts \subseteq Nat /\ VidRange \in Nat \ {0}
    /\ NaN \notin Int

VARIABLES topo, p, numVertices, lowEdges, h2hEdges,  \* the call; never change
          pc, comps, compSum, comms, commSum, minComm, capacities

call == <<topo, p, numVertices, lowEdges, h2hEdges>>
tables == <<comps, compSum, comms, commSum>>
vars == <<call, pc, tables, minComm, capacities>>

Machines == 0 .. p - 1

Init ==
    /\ topo \in Topos /\ p \in 1 .. MaxParts
    /\ numVertices \in VertexCounts /\ lowEdges \in EdgeCounts /\ h2hEdges \in EdgeCounts
    /\ pc = "ability"
    /\ comps = [i \in Machines |-> 0] /\ compSum = 1
    /\ comms = [i \in Machines |-> [j \in Machines |-> 0]] /\ commSum = 1
    /\ minComm = [i \in Machines |-> 0]
    /\ capacities = [i \in Machines |-> 0]

-----------------------------------------------------------------------------
(* set_ability *)

half == p \div 2

\* Two slow machines, 1 and 3, or the second half of them all.
Slow(i) ==
    \/ topo \in {2, 4} /\ i \in {1, 3}
    \/ topo \in {22, 44} /\ i >= half

\* Mutant: the slow machines are not in the sum.
EqualSum == Comp[0] * p

SpeedSum ==
    CASE topo \in {2, 4} -> Comp[0] * (p - 2) + Comp[1] * 2
      [] topo \in {22, 44} -> (Comp[0] + Comp[1]) * half
      [] OTHER -> Comp[0] * p

\* The links of machines 1 and 3 are slow; in topologies 33 and 44 those of machine 0 to
\* the machines of odd number, the loop variable that was meant being shadowed.
SlowLink(i, j) ==
    \/ topo \in {3, 4} /\ {i, j} \cap {1, 3} # {}
    \/ topo \in {33, 44} /\ ({i, j} = {1, 3} \/ (0 \in {i, j} /\ (i + j) % 2 = 1))

Link(i, j) ==
    IF i = j THEN 0
    ELSE IF topo \notin {3, 4, 33, 44} THEN 1
    ELSE IF SlowLink(i, j) THEN Comm[1] ELSE Comm[0]

LinkSum ==
    CASE topo \in {3, 4} ->
            (Comm[0] * (p - 3) + Comm[1] * 2) * (p - 2) + Comm[1] * (p - 1) * 2
               - Comm[1] * 2 + Comm[2] * 2
      [] topo \in {33, 44} ->
            (Comm[0] * (half - 1) + Comm[2] * half) * half + Comm[2] * (p - 1) * half
      [] OTHER -> p * (p - 1)

\* Elements 1 and 3 are written whatever -p is.
OutOfRange == topo \in {2, 3, 4, 33, 44} /\ p < 4

\* A topology that is not known leaves both tables 0.  Where an element out of range was
\* written the program may stop; if it goes on, nobody reads that element.  The second half
\* of one machine alone has no speed: the sum is 0 in topologies 22 and 44.  A machine alone
\* has no link, and the sum of the costs divides none.
SetAbility ==
    /\ pc = "ability"
    /\ \/ pc' = "min"
       \/ OutOfRange /\ pc' = "stopped"
    /\ IF topo \in Layouts
       THEN /\ comps' = [i \in Machines |-> IF Slow(i) THEN Comp[1] ELSE Comp[0]]
            /\ compSum' = SpeedSum
            /\ comms' = [i \in Machines |-> [j \in Machines |-> Link(i, j)]]
            /\ commSum' = IF p = 1 THEN 1 ELSE LinkSum
       ELSE UNCHANGED tables
    /\ UNCHANGED <<call, minComm, capacities>>

-----------------------------------------------------------------------------
(* calculateMinComm, set_delta *)

IntMax == 1000     \* numeric_limits<int>::max(), above every cost

\* min_comm is a vector of int: a cost is cut off when it is stored.
Least(b) ==
    FoldLeft(LAMBDA m, n : LET i == n - 1 IN
                IF i # b /\ comms[b][i] < m * commSum THEN comms[b][i] \div commSum ELSE m,
             IntMax, [n \in 1 .. p |-> n])

CalculateMinComm ==
    /\ pc = "min" /\ pc' = "low"
    /\ minComm' = [b \in Machines |-> Least(b)]
    /\ UNCHANGED <<call, tables, capacities>>

\* What the links of machine i to the others cost (b_i_m).
Links(i) == MapThenSumSet(LAMBDA j : comms[i][j], Machines \ {i})

\* bs[i] times compSum * commSum * n, for n edges.
Bs(i, n) == 2 * comps[i] * commSum * n + Links(i) * numVertices * compSum

\* n / (b * sum), sum being that of 1/bs[i] over all machines, as a numerator and a
\* denominator: the product of the other values b may have, and the sum of such products.
Others(b, values) == FoldSet(LAMBDA c, r : c * r, 1, values \ {b})
Count(b, n) == Cardinality({i \in Machines : Bs(i, n) = b})

Numerator(b, n, values) == n * Others(b, values)
\* Mutant: every value is counted once, however many machines have it.
DenominatorOnce(n, values) == MapThenSumSet(LAMBDA b : Others(b, values), values)
Denominator(n, values) == MapThenSumSet(LAMBDA b : Count(b, n) * Others(b, values), values)

Ceil(a, b) == (a + b - 1) \div b

\* What ceil may make of the share of b: the double may lie above a whole number.
Rounded(b, n, values) ==
    LET num == Numerator(b, n, values)
        den == Denominator(n, values)
    IN  {Ceil(num, den)} \cup (IF num % den = 0 THEN {num \div den + 1} ELSE {})

\* The parameter is a vid_t, the argument a size_t: n is cut off.  Machines of one bs get
\* one capacity.  No edges: 0 times infinity, which is not a number; and so is the share of
\* a machine whose time was divided by 0.
SetDelta(n) ==
    LET m == n % VidRange
        values == {Bs(i, m) : i \in Machines}
    IN  /\ IF m = 0 \/ compSum = 0 THEN capacities' = [i \in Machines |-> NaN]
           ELSE IF values = {0} THEN capacities' = [i \in Machines |-> 0]
           ELSE \E r \in [values -> UNION {Rounded(b, m, values) : b \in values}] :
                   /\ \A b \in values : r[b] \in Rounded(b, m, values)
                   /\ capacities' = [i \in Machines |-> r[Bs(i, m)]]
        /\ UNCHANGED <<call, tables, minComm>>

SetLowDelta == pc = "low" /\ pc' = "expand" /\ SetDelta(lowEdges)
SetAllDelta == pc = "expand" /\ pc' = "hcsg" /\ SetDelta(lowEdges + h2hEdges)
Terminated == pc \in {"hcsg", "stopped"} /\ UNCHANGED vars

Next == SetAbility \/ CalculateMinComm \/ SetLowDelta \/ SetAllDelta \/ Terminated

Spec == Init /\ [][Next]_vars

-----------------------------------------------------------------------------
\* The sums the code divides by, written down for each topology apart from the loops that
\* fill the tables, are the sums of the tables: the speeds of all machines add up to 1, and
\* so do the costs of all links.  Excepted are the topologies with halves for an odd -p,
\* and 33 and 44 as to links.  Every link then costs less than 1 and min_comm is 0.
Normalised ==
    pc \in {"low", "expand", "hcsg"} /\ topo \in Layouts /\ p >= 4 =>
        /\ (topo \in {22, 44} => p % 2 = 0) =>
              MapThenSumSet(LAMBDA i : comps[i], Machines) = compSum
        /\ topo \notin {33, 44} => MapThenSumSet(LAMBDA i : Links(i), Machines) = commSum
        /\ \A b \in Machines : minComm[b] = 0

\* For a known topology, whatever -p and its sums are, the capacities are those HCNE and
\* HCSG start from: each is positive, together they hold the edges and at most one more per
\* machine, and a machine that is slower and has dearer links than another never gets more.
\* The edges are all there are when they are fewer than 2^32, and what remains of their
\* number modulo 2^32 when not.  Excepted are the two cases without a capacity: no edge
\* (remains), and topologies 22 and 44 with one partition, whose speeds are divided by 0.
CapacitiesSuffice ==
    LET n == IF pc = "expand" THEN lowEdges ELSE lowEdges + h2hEdges
        m == IF n < VidRange THEN n ELSE n % VidRange
    IN  pc \in {"expand", "hcsg"} /\ topo \in Layouts /\ m > 0 /\ (topo \in {22, 44} => p > 1) =>
            /\ MapThenSumSet(LAMBDA i : capacities[i], Machines) \in m .. m + p
            /\ \A i, j \in Machines :
                  /\ capacities[i] >= 1
                  /\ comps[i] <= comps[j] /\ Links(i) <= Links(j) =>
                        capacities[i] >= capacities[j]
=============================================================================
