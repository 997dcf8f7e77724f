--------------------------- MODULE ClusterProofs ----------------------------
(***************************************************************************)
(* Proofs about Cluster, for any number of partitions, any costs and any   *)
(* numbers of edges: the sums written down for the topologies are those of *)
(* the tables, and the capacities hold the edges that are left of their    *)
(* number in a vid_t.                                                      *)
(***************************************************************************)
EXTENDS Cluster, FoldProofs

-----------------------------------------------------------------------------
(* The inductive invariant.                                                *)

Called ==
    /\ topo \in Topos /\ p \in 1 .. MaxParts
    /\ numVertices \in VertexCounts /\ lowEdges \in EdgeCounts /\ h2hEdges \in EdgeCounts

\* What set_ability leaves for a topology it knows.
Described ==
    /\ comps = [i \in Machines |-> IF Slow(i) THEN Comp[1] ELSE Comp[0]]
    /\ compSum = SpeedSum
    /\ comms = [i \in Machines |-> [j \in Machines |-> Link(i, j)]]
    /\ commSum = IF p = 1 THEN 1 ELSE LinkSum

\* What set_delta leaves for n edges: the share of each machine, rounded.
Shared(n) ==
    LET values == {Bs(i, n) : i \in Machines}
    IN  /\ \A i \in Machines : capacities[i] \in Rounded(Bs(i, n), n, values)
        /\ \A i, j \in Machines : Bs(i, n) = Bs(j, n) => capacities[i] = capacities[j]

\* The edges set_delta was called for last, as it knows them.
Assigned == (IF pc = "expand" THEN lowEdges ELSE lowEdges + h2hEdges) % VidRange

ClusterInv ==
    /\ Called
    /\ pc \in {"ability", "min", "low", "expand", "hcsg", "stopped"}
    /\ topo \in Layouts =>
          /\ pc \in {"min", "low", "expand", "hcsg"} => Described
          /\ pc \in {"low", "expand", "hcsg"} /\ p >= 4 => \A b \in Machines : minComm[b] = 0
          /\ pc \in {"expand", "hcsg"} /\ compSum # 0 => \A n \in {Assigned} \ {0} : Shared(n)

-----------------------------------------------------------------------------
(* The sums and products of the module, as those of FoldProofs.            *)

LEMMA MachinesFinite ==
    ASSUME NEW q \in Nat
    PROVE  IsFiniteSet(0 .. q - 1) /\ Cardinality(0 .. q - 1) = q
<1>1. CASE q = 0
  BY <1>1, FS_EmptySet
<1>2. CASE q # 0
  BY <1>2, FS_Interval
<1> QED
  BY <1>1, <1>2

\* The product of the other values.
LEMMA OthersIsProduct ==
    ASSUME NEW values, IsFiniteSet(values), values \subseteq Nat \ {0}, NEW b
    PROVE  Others(b, values) = ProductOver([c \in values |-> c], values \ {b})
<1> DEFINE S == values \ {b}
           f == [c \in values |-> c]
           Rec(it) == [s \in SUBSET S |-> IF s = {} THEN 1
                                          ELSE (CHOOSE x \in s : TRUE)
                                                 * it[s \ {CHOOSE x \in s : TRUE}]]
           Iter == CHOOSE it : it = Rec(it)
           RecF(it) == [s \in SUBSET S |-> IF s = {} THEN 1
                                          ELSE f[CHOOSE x \in s : TRUE]
                                                 * it[s \ {CHOOSE x \in s : TRUE}]]
           IterF == CHOOSE it : it = RecF(it)
<1>1. Others(b, values) = Iter[S]
  BY DEF Others, FoldSet, MapThenFoldSet
<1>2. ProductOver(f, S) = IterF[S]
  BY DEF ProductOver, FoldSet, MapThenFoldSet
<1>3. \A it : Rec(it) = RecF(it)
  OBVIOUS
<1>4. Iter = IterF
  <2> HIDE DEF Rec, RecF
  <2> QED
    BY <1>3
<1> QED
  BY <1>1, <1>2, <1>4


\* The sum of 1/b over all machines, times the product of all values b.
LEMMA DenominatorIsSum ==
    ASSUME NEW n, NEW values
    PROVE  /\ Denominator(n, values)
                 = SumOver([b \in values |-> Count(b, n) * Others(b, values)], values)
           /\ Denominator(n, values)'
                 = SumOver([b \in values |-> Count(b, n)' * Others(b, values)], values)
<1>1. Denominator(n, values)
         = SumOver([b \in values |-> Count(b, n) * Others(b, values)], values)
  <2> DEFINE Rec(it) == [s \in SUBSET values |->
                            IF s = {} THEN 0
                            ELSE Count(CHOOSE x \in s : TRUE, n) * Others(CHOOSE x \in s : TRUE, values)
                                    + it[s \ {CHOOSE x \in s : TRUE}]]
             f == [b \in values |-> Count(b, n) * Others(b, values)]
             RecF(it) == [s \in SUBSET values |->
                            IF s = {} THEN 0
                            ELSE f[CHOOSE x \in s : TRUE] + it[s \ {CHOOSE x \in s : TRUE}]]
             Iter == CHOOSE it : it = Rec(it)
             IterF == CHOOSE it : it = RecF(it)
  <2>1. Denominator(n, values) = Iter[values]
    BY DEF Denominator, MapThenSumSet, MapThenFoldSet
  <2>2. SumOver(f, values) = IterF[values]
    BY DEF SumOver, MapThenSumSet, MapThenFoldSet
  <2>3. \A it : Rec(it) = RecF(it)
    OBVIOUS
  <2>4. Iter = IterF
    <3> HIDE DEF Rec, RecF
    <3> QED
      BY <2>3
  <2> QED
    BY <2>1, <2>2, <2>4
<1>2. Denominator(n, values)'
         = SumOver([b \in values |-> Count(b, n)' * Others(b, values)], values)
  <2> DEFINE Rec(it) == [s \in SUBSET values |->
                            IF s = {} THEN 0
                            ELSE Count(CHOOSE x \in s : TRUE, n)' * Others(CHOOSE x \in s : TRUE, values)
                                    + it[s \ {CHOOSE x \in s : TRUE}]]
             f == [b \in values |-> Count(b, n)' * Others(b, values)]
             RecF(it) == [s \in SUBSET values |->
                            IF s = {} THEN 0
                            ELSE f[CHOOSE x \in s : TRUE] + it[s \ {CHOOSE x \in s : TRUE}]]
             Iter == CHOOSE it : it = Rec(it)
             IterF == CHOOSE it : it = RecF(it)
  <2>1. Denominator(n, values)' = Iter[values]
    BY DEF Denominator, MapThenSumSet, MapThenFoldSet
  <2>2. SumOver(f, values) = IterF[values]
    BY DEF SumOver, MapThenSumSet, MapThenFoldSet
  <2>3. \A it : Rec(it) = RecF(it)
    OBVIOUS
  <2>4. Iter = IterF
    <3> HIDE DEF Rec, RecF
    <3> QED
      BY <2>3
  <2> QED
    BY <2>1, <2>2, <2>4
<1> QED
  BY <1>1, <1>2

LEMMA LinksAreSums ==
    /\ \A i : Links(i) = SumOver(comms[i], Machines \ {i})
    /\ \A i : Links(i)' = SumOver(comms'[i], Machines' \ {i})
    /\ MapThenSumSet(LAMBDA i : Links(i), Machines)
          = SumOver([i \in Machines |-> Links(i)], Machines)
<1>1. /\ \A i : Links(i) = SumOver(comms[i], Machines \ {i})
      /\ \A i : Links(i)' = SumOver(comms'[i], Machines' \ {i})
  <2>1. ASSUME NEW i PROVE Links(i) = SumOver(comms[i], Machines \ {i})
    BY DEF Links, SumOver
  <2>2. ASSUME NEW i PROVE Links(i)' = SumOver(comms'[i], Machines' \ {i})
    BY DEF Links, SumOver, MapThenSumSet, MapThenFoldSet
  <2> QED
    BY <2>1, <2>2
<1> DEFINE f == [i \in Machines |-> Links(i)]
           Rec(it) == [s \in SUBSET Machines |->
                          IF s = {} THEN 0
                          ELSE Links(CHOOSE x \in s : TRUE) + it[s \ {CHOOSE x \in s : TRUE}]]
           Iter == CHOOSE it : it = Rec(it)
           RecF(it) == [s \in SUBSET Machines |->
                          IF s = {} THEN 0
                          ELSE f[CHOOSE x \in s : TRUE] + it[s \ {CHOOSE x \in s : TRUE}]]
           IterF == CHOOSE it : it = RecF(it)
<1>2. MapThenSumSet(LAMBDA i : Links(i), Machines) = Iter[Machines]
  BY DEF MapThenSumSet, MapThenFoldSet
<1>3. SumOver(f, Machines) = IterF[Machines]
  BY DEF SumOver, MapThenSumSet, MapThenFoldSet
<1>4. \A it : Rec(it) = RecF(it)
  OBVIOUS
<1>5. Iter = IterF
  <2> HIDE DEF Rec, RecF
  <2> QED
    BY <1>4
<1> QED
  BY <1>1, <1>2, <1>3, <1>5


-----------------------------------------------------------------------------
(* The invariant is inductive.                                             *)

LEMMA SharesStay ==
    ASSUME UNCHANGED <<call, tables>>, NEW n
    PROVE  /\ Machines' = Machines
           /\ \A i : Bs(i, n)' = Bs(i, n)
           /\ \A b, values : Rounded(b, n, values)' = Rounded(b, n, values)
<1>1. p' = p /\ numVertices' = numVertices /\ comps' = comps /\ compSum' = compSum
      /\ comms' = comms /\ commSum' = commSum
  BY DEF call, tables
<1>2. Machines' = Machines
  BY <1>1 DEF Machines
<1>3. \A i : Links(i)' = Links(i)
  BY <1>1, <1>2, LinksAreSums
<1>4. \A i : Bs(i, n)' = Bs(i, n)
  BY <1>1, <1>3 DEF Bs
<1>5. \A b : Count(b, n)' = Count(b, n)
  BY <1>2, <1>4 DEF Count
<1>6. ASSUME NEW values PROVE Denominator(n, values)' = Denominator(n, values)
  <2>1. [b \in values |-> Count(b, n)' * Others(b, values)]
           = [b \in values |-> Count(b, n) * Others(b, values)]
    BY <1>5
  <2>2. Denominator(n, values)
           = SumOver([b \in values |-> Count(b, n) * Others(b, values)], values)
    BY DenominatorIsSum
  <2>3. Denominator(n, values)'
           = SumOver([b \in values |-> Count(b, n)' * Others(b, values)], values)
    BY DenominatorIsSum
  <2> QED
    BY ONLY <2>1, <2>2, <2>3
<1>7. \A b, values : Rounded(b, n, values)' = Rounded(b, n, values)
  BY <1>6 DEF Rounded, Numerator
<1> QED
  BY <1>2, <1>4, <1>7

LEMMA DescribedStays ==
    ASSUME UNCHANGED <<call, tables>>, Described
    PROVE  Described'
BY DEF Described, call, tables, Machines, Slow, SpeedSum, Link, LinkSum, SlowLink, half

\* Two machines with the same b_i have the same capacity.
LEMMA SetDeltaShares ==
    ASSUME NEW total \in Nat, SetDelta(total), NEW n \in Nat \ {0}, n = total % VidRange,
           compSum # 0, \A i \in Machines : Bs(i, n) # 0, Machines # {}
    PROVE  Shared(n)'
<1> DEFINE values == {Bs(i, n) : i \in Machines}
<1>1. UNCHANGED <<call, tables>>
  BY DEF SetDelta
<1>2. values # {0}
  OBVIOUS
<1>3. PICK r : /\ \A b \in values : r[b] \in Rounded(b, n, values)
               /\ capacities' = [i \in Machines |-> r[Bs(i, n)]]
  <2> DEFINE m == total % VidRange
             all == {Bs(i, m) : i \in Machines}
  <2>1. m = n /\ all = values
    OBVIOUS
  <2>2. all # {0} /\ m # 0
    BY <1>2, <2>1
  <2>3. PICK r : /\ \A b \in all : r[b] \in Rounded(b, m, all)
                 /\ capacities' = [i \in Machines |-> r[Bs(i, m)]]
    BY <2>2 DEF SetDelta
  <2> HIDE DEF m, all, values
  <2> QED
    BY <2>1, <2>3
<1>4. /\ Machines' = Machines
      /\ \A i : Bs(i, n)' = Bs(i, n)
      /\ \A b, V : Rounded(b, n, V)' = Rounded(b, n, V)
  BY <1>1, SharesStay
<1>5. \A i \in Machines : Bs(i, n) \in values /\ capacities'[i] = r[Bs(i, n)]
  BY <1>3
<1>6. {Bs(i, n)' : i \in Machines'} = values
  BY <1>4
<1>7. \A i \in Machines : capacities'[i] \in Rounded(Bs(i, n), n, values)
  <2> HIDE DEF values
  <2> QED
    BY <1>3, <1>5
<1>8. \A i, j \in Machines : Bs(i, n) = Bs(j, n) => capacities'[i] = capacities'[j]
  BY <1>5
<1>9. ASSUME NEW i \in Machines PROVE capacities'[i] \in Rounded(Bs(i, n), n, values)'
  <2>1. PICK b : b = Bs(i, n)
    OBVIOUS
  <2>2. PICK V : V = values
    OBVIOUS
  <2>3. capacities'[i] \in Rounded(b, n, V)'
    <3> HIDE DEF values
    <3> QED
      BY <1>4, <1>7, <2>1, <2>2
  <2>4. V = values' /\ b = Bs(i, n)'
    BY <1>4, <1>6, <2>1, <2>2
  <2> HIDE DEF values
  <2> QED
    BY ONLY <2>3, <2>4 DEF Rounded, Numerator
<1>10. \A i, j \in Machines : Bs(i, n)' = Bs(j, n)' => capacities'[i] = capacities'[j]
  BY <1>4, <1>8
<1> QED
  BY <1>4, <1>6, <1>9, <1>10 DEF Shared


-----------------------------------------------------------------------------
(* The tables.                                                             *)

LEMMA CallFacts ==
    ASSUME Called
    PROVE  /\ p \in Nat \ {0} /\ numVertices \in Nat \ {0} /\ lowEdges \in Nat /\ h2hEdges \in Nat
           /\ topo \in Nat /\ IsFiniteSet(Machines) /\ Cardinality(Machines) = p /\ 0 \in Machines
           /\ half \in Nat /\ (p % 2 = 0 => p = 2 * half)
           /\ {Comp[0], Comp[1], Comm[0], Comm[1], Comm[2]} \subseteq Nat \ {0}
           /\ Comp[0] < Comp[1] /\ Comm[0] < Comm[1] /\ Comm[1] = Comm[2]
<1>1. /\ p \in Nat \ {0} /\ numVertices \in Nat \ {0} /\ lowEdges \in Nat /\ h2hEdges \in Nat
      /\ topo \in Nat
  BY ClusterAssumption DEF Called
<1>2. half \in Nat /\ (p % 2 = 0 => p = 2 * half)
  BY <1>1 DEF half
<1>3. IsFiniteSet(Machines) /\ Cardinality(Machines) = p /\ 0 \in Machines
  BY <1>1, MachinesFinite DEF Machines
<1> QED
  BY <1>1, <1>2, <1>3, ClusterAssumption

LEMMA LinkSumType ==
    ASSUME Called
    PROVE  SpeedSum \in Int /\ LinkSum \in Int
<1>1. \A a, b \in Int : a * b \in Int /\ a + b \in Int /\ a - b \in Int
  OBVIOUS
<1>2. {p, half, Comp[0], Comp[1], Comm[0], Comm[1], Comm[2], 1, 2, 3} \subseteq Int
  BY CallFacts
<1>3. SpeedSum \in Int
  <2>1. {p - 2, Comp[0] + Comp[1], Comp[1] * 2} \subseteq Int
    BY <1>1, <1>2
  <2>2. {Comp[0] * (p - 2), (Comp[0] + Comp[1]) * half, Comp[0] * p} \subseteq Int
    BY <1>1, <1>2, <2>1
  <2>3. Comp[0] * (p - 2) + Comp[1] * 2 \in Int
    BY <1>1, <2>1, <2>2
  <2> QED
    BY <2>2, <2>3 DEF SpeedSum
<1>4. LinkSum \in Int
  <2>1. {p - 1, p - 2, p - 3, half - 1, Comm[1] * 2, Comm[2] * 2} \subseteq Int
    BY <1>1, <1>2
  <2>2. /\ {Comm[0] * (p - 3), Comm[1] * (p - 1), Comm[0] * (half - 1), Comm[2] * half,
            Comm[2] * (p - 1), p * (p - 1)} \subseteq Int
    BY <1>1, <1>2, <2>1
  <2>3. {Comm[0] * (p - 3) + Comm[1] * 2, Comm[1] * (p - 1) * 2,
         Comm[0] * (half - 1) + Comm[2] * half, Comm[2] * (p - 1) * half} \subseteq Int
    BY <1>1, <1>2, <2>1, <2>2
  <2>4. {(Comm[0] * (p - 3) + Comm[1] * 2) * (p - 2),
         (Comm[0] * (half - 1) + Comm[2] * half) * half} \subseteq Int
    BY <1>1, <1>2, <2>1, <2>3
  <2>5. /\ (Comm[0] * (p - 3) + Comm[1] * 2) * (p - 2) + Comm[1] * (p - 1) * 2
              - Comm[1] * 2 + Comm[2] * 2 \in Int
        /\ (Comm[0] * (half - 1) + Comm[2] * half) * half + Comm[2] * (p - 1) * half \in Int
    <3>1. \A a, b, c, d \in Int : a + b - c + d \in Int /\ a + b \in Int
      OBVIOUS
    <3> QED
      BY ONLY <2>1, <2>3, <2>4, <3>1
  <2> QED
    BY <2>2, <2>5 DEF LinkSum
<1> QED
  BY <1>3, <1>4

LEMMA ProductFacts ==
    /\ \A a, b \in Nat : a * b \in Nat
    /\ \A a, b \in Nat \ {0} : a * b \in Nat \ {0}
    /\ \A a, b, c \in Nat : a <= b => a * c <= b * c
<1>1. \A a, b \in Nat : a * b \in Nat
  OBVIOUS
<1>2. \A a, b \in Nat \ {0} : a * b \in Nat \ {0}
  OBVIOUS
<1>3. \A a, b, c \in Nat : a <= b => a * c <= b * c
  <2>1. ASSUME NEW a \in Nat, NEW b \in Nat, NEW c \in Nat, a <= b PROVE a * c <= b * c
    <3>1. (b - a) \in Nat /\ b * c = a * c + (b - a) * c
      BY <2>1
    <3>2. (b - a) * c \in Nat /\ a * c \in Nat
      BY <1>1, <3>1
    <3> QED
      BY ONLY <3>1, <3>2
  <2> QED
    BY <2>1
<1> QED
  BY <1>1, <1>2, <1>3

\* The sums are positive, but for the speeds of one machine in two halves and for the links
\* of one machine.
LEMMA SumsPositive ==
    ASSUME Called
    PROVE  /\ SpeedSum \in Nat /\ (SpeedSum = 0 => topo \in {22, 44} /\ p = 1)
           /\ p > 1 => LinkSum \in Nat \ {0}
<1>1. /\ p \in Nat \ {0} /\ half \in Nat /\ (p > 1 => half >= 1)
      /\ Comp[0] \in Nat \ {0} /\ Comp[1] \in Nat \ {0} /\ Comp[0] < Comp[1]
      /\ Comm[0] \in Nat \ {0} /\ Comm[1] \in Nat \ {0} /\ Comm[2] = Comm[1]
  BY CallFacts DEF half
<1>2. SpeedSum \in Nat /\ (SpeedSum = 0 => topo \in {22, 44} /\ p = 1)
  <2>1. CASE topo \in {2, 4}
    <3>1. \A a, b, q \in Nat \ {0} : a < b => a * (q - 2) + b * 2 >= 1
      <4>1. ASSUME NEW a \in Nat \ {0}, NEW b \in Nat \ {0}, NEW q \in Nat \ {0}, a < b
            PROVE  a * (q - 2) + b * 2 >= 1
        <5>1. CASE q = 1
          BY <4>1, <5>1
        <5>2. CASE q >= 2
          <6>1. q - 2 \in Nat
            BY <5>2
          <6>2. a * (q - 2) \in Nat
            BY <6>1, ProductFacts
          <6> QED
            BY <6>2
        <5> QED
          BY <5>1, <5>2
      <4> QED
        BY <4>1
    <3>2. SpeedSum = Comp[0] * (p - 2) + Comp[1] * 2
      BY <2>1 DEF SpeedSum
    <3>3. SpeedSum >= 1
      BY ONLY <1>1, <3>1, <3>2
    <3> QED
      BY <3>3, LinkSumType
  <2>2. CASE topo \in {22, 44}
    <3>1. SpeedSum = (Comp[0] + Comp[1]) * half
      BY <2>2 DEF SpeedSum
    <3>2. Comp[0] + Comp[1] \in Nat \ {0}
      BY <1>1
    <3>3. SpeedSum \in Nat /\ (half \in Nat \ {0} => SpeedSum \in Nat \ {0})
      BY ONLY <1>1, <3>1, <3>2, ProductFacts
    <3> QED
      BY <1>1, <2>2, <3>3
  <2>3. CASE topo \notin {2, 4, 22, 44}
    <3>1. SpeedSum = Comp[0] * p
      BY <2>3 DEF SpeedSum
    <3>2. SpeedSum \in Nat \ {0}
      BY ONLY <1>1, <3>1, ProductFacts
    <3> QED
      BY <3>2
  <2> QED
    BY <2>1, <2>2, <2>3
<1>3. ASSUME p > 1 PROVE LinkSum \in Nat \ {0}
  <2>1. /\ p - 1 \in Nat \ {0} /\ p - 2 \in Nat /\ half \in Nat \ {0} /\ half - 1 \in Nat
    BY <1>1, <1>3
  <2>2. CASE topo \in {3, 4}
    <3>1. LinkSum = (Comm[0] * (p - 3) + Comm[1] * 2) * (p - 2) + Comm[1] * (p - 1) * 2
                       - Comm[1] * 2 + Comm[2] * 2
      BY <2>2 DEF LinkSum
    <3>2. PICK y \in Nat : y = (Comm[0] * (p - 3) + Comm[1] * 2) * (p - 2)
      <4>1. CASE p = 2
        <5>1. \A x \in Int : x * 0 = 0
          OBVIOUS
        <5>2. Comm[0] * (p - 3) + Comm[1] * 2 \in Int
          BY <1>1
        <5>3. (Comm[0] * (p - 3) + Comm[1] * 2) * (p - 2) = 0
          BY <4>1, <5>1, <5>2
        <5> QED
          BY <5>3
      <4>2. CASE p # 2
        <5>1. p - 3 \in Nat
          BY <1>1, <1>3, <4>2
        <5>2. Comm[0] * (p - 3) \in Nat /\ Comm[1] * 2 \in Nat
          BY <1>1, <5>1, ProductFacts
        <5>3. Comm[0] * (p - 3) + Comm[1] * 2 \in Nat
          BY <5>2
        <5>4. (Comm[0] * (p - 3) + Comm[1] * 2) * (p - 2) \in Nat
          BY <2>1, <5>3, ProductFacts
        <5> QED
          BY <5>4
      <4> QED
        BY <4>1, <4>2
    <3>3. PICK z \in Nat \ {0} : z = Comm[1] * (p - 1)
      BY <1>1, <2>1, ProductFacts
    <3>4. LinkSum = y + z * 2
      BY ONLY <1>1, <3>1, <3>2, <3>3
    <3> QED
      BY ONLY <3>3, <3>4, y \in Nat
  <2>3. CASE topo \in {33, 44}
    <3>1. LinkSum = (Comm[0] * (half - 1) + Comm[2] * half) * half + Comm[2] * (p - 1) * half
      BY <2>3 DEF LinkSum
    <3>2. PICK y \in Nat : y = (Comm[0] * (half - 1) + Comm[2] * half) * half
      <4>1. Comm[0] * (half - 1) \in Nat /\ Comm[2] * half \in Nat
        BY <1>1, <2>1, ProductFacts
      <4>2. Comm[0] * (half - 1) + Comm[2] * half \in Nat
        BY <4>1
      <4>3. (Comm[0] * (half - 1) + Comm[2] * half) * half \in Nat
        BY <1>1, <4>2, ProductFacts
      <4> QED
        BY <4>3
    <3>3. PICK z \in Nat \ {0} : z = Comm[2] * (p - 1) * half
      <4>1. Comm[2] * (p - 1) \in Nat \ {0}
        BY <1>1, <2>1, ProductFacts
      <4>2. Comm[2] * (p - 1) * half \in Nat \ {0}
        BY <2>1, <4>1, ProductFacts
      <4> QED
        BY <4>2
    <3> QED
      BY ONLY <3>1, <3>2, <3>3
  <2>4. CASE topo \notin {3, 4, 33, 44}
    <3>1. LinkSum = p * (p - 1)
      BY <2>4 DEF LinkSum
    <3> QED
      BY ONLY <1>1, <2>1, <3>1, ProductFacts
  <2> QED
    BY <2>2, <2>3, <2>4
<1> QED
  BY <1>2, <1>3

LEMMA TableFacts ==
    ASSUME Called, Described
    PROVE  /\ comps \in [Machines -> Nat \ {0}] /\ compSum \in Nat
           /\ compSum = 0 => topo \in {22, 44} /\ p = 1
           /\ comms \in [Machines -> [Machines -> Nat]] /\ commSum \in Nat \ {0}
           /\ \A i \in Machines : Links(i) \in Nat
<1>1. \A i, j : Link(i, j) \in Nat
  BY CallFacts DEF Link
<1>2. comps \in [Machines -> Nat \ {0}] /\ comms \in [Machines -> [Machines -> Nat]]
  BY <1>1, CallFacts DEF Described
<1>3. /\ compSum \in Nat /\ (compSum = 0 => topo \in {22, 44} /\ p = 1)
      /\ commSum \in Nat \ {0}
  <2>1. CASE p = 1
    BY <2>1, SumsPositive DEF Described
  <2>2. CASE p # 1
    <3>1. p > 1
      BY <2>2, CallFacts
    <3> QED
      BY <2>2, <3>1, SumsPositive DEF Described
  <2> QED
    BY <2>1, <2>2
<1>4. ASSUME NEW i \in Machines PROVE Links(i) \in Nat
  <2>1. IsFiniteSet(Machines \ {i})
    BY CallFacts, FS_Subset
  <2>2. \A x \in Machines \ {i} : comms[i][x] \in Nat
    BY <1>2, <1>4
  <2>3. SumOver(comms[i], Machines \ {i}) \in Nat
    BY ONLY <2>1, <2>2, SumNatural
  <2> QED
    BY <2>3, LinksAreSums
<1> QED
  BY <1>2, <1>3, <1>4

\* b_i is positive, and grows with the time machine i takes and with the cost of its links.
LEMMA BsFacts ==
    ASSUME Called, Described, NEW n \in Nat \ {0}
    PROVE  /\ \A i \in Machines : Bs(i, n) \in Nat \ {0}
           /\ \A i, j \in Machines :
                 comps[i] <= comps[j] /\ Links(i) <= Links(j) => Bs(i, n) <= Bs(j, n)
<1> DEFINE time(i) == 2 * comps[i] * commSum * n
           cost(i) == Links(i) * numVertices * compSum
<1>1. ASSUME NEW i \in Machines
      PROVE  time(i) \in Nat \ {0} /\ cost(i) \in Nat /\ Bs(i, n) = time(i) + cost(i)
  <2>1. comps[i] \in Nat \ {0} /\ commSum \in Nat \ {0} /\ Links(i) \in Nat /\ compSum \in Nat
        /\ numVertices \in Nat
    BY TableFacts, CallFacts
  <2>2. 2 * comps[i] \in Nat \ {0}
    BY <2>1
  <2>3. 2 * comps[i] * commSum \in Nat \ {0}
    BY <2>1, <2>2, ProductFacts
  <2>4. time(i) \in Nat \ {0}
    BY <2>3, ProductFacts
  <2>5. Links(i) * numVertices \in Nat
    BY <2>1, ProductFacts
  <2>6. cost(i) \in Nat
    BY <2>1, <2>5, ProductFacts
  <2> QED
    BY <2>4, <2>6 DEF Bs
<1>2. ASSUME NEW i \in Machines, NEW j \in Machines, comps[i] <= comps[j], Links(i) <= Links(j)
      PROVE  time(i) <= time(j) /\ cost(i) <= cost(j)
  <2>1. /\ comps[i] \in Nat /\ comps[j] \in Nat /\ commSum \in Nat /\ Links(i) \in Nat
        /\ Links(j) \in Nat /\ compSum \in Nat /\ numVertices \in Nat
    BY <1>2, TableFacts, CallFacts
  <2>2. 2 * comps[i] <= 2 * comps[j] /\ 2 * comps[i] \in Nat /\ 2 * comps[j] \in Nat
    BY <1>2, <2>1
  <2>3. /\ 2 * comps[i] * commSum <= 2 * comps[j] * commSum
        /\ 2 * comps[i] * commSum \in Nat /\ 2 * comps[j] * commSum \in Nat
    BY <2>1, <2>2, ProductFacts
  <2>4. time(i) <= time(j)
    BY <2>3, ProductFacts
  <2>5. /\ Links(i) * numVertices <= Links(j) * numVertices
        /\ Links(i) * numVertices \in Nat /\ Links(j) * numVertices \in Nat
    BY <1>2, <2>1, ProductFacts
  <2>6. cost(i) <= cost(j)
    BY <2>1, <2>5, ProductFacts
  <2> QED
    BY <2>4, <2>6
<1> HIDE DEF time, cost
<1> QED
  BY <1>1, <1>2


-----------------------------------------------------------------------------
(* The sums of the tables are those written down.                          *)

LEMMA TwoMachines ==
    ASSUME Called, p >= 4
    PROVE  /\ {1, 3} \in SUBSET Machines /\ Cardinality({1, 3}) = 2
           /\ half >= 2
<1>1. {1, 3} \in SUBSET Machines
  BY CallFacts DEF Machines
<1>2. Cardinality({1, 3}) = 2
  <2>1. {1} \cup {3} = {1, 3} /\ 3 \notin {1}
    OBVIOUS
  <2>2. IsFiniteSet({1}) /\ Cardinality({1}) = 1
    BY FS_Singleton
  <2>3. Cardinality({1} \cup {3}) = Cardinality({1}) + 1
    BY ONLY <2>1, <2>2, FS_AddElement
  <2> QED
    BY <2>1, <2>2, <2>3
<1>3. half >= 2
  BY CallFacts DEF half
<1> QED
  BY <1>1, <1>2, <1>3

LEMMA SpeedsAddUp ==
    ASSUME Called, Described, topo \in Layouts, p >= 4, topo \in {22, 44} => p % 2 = 0
    PROVE  SumOver(comps, Machines) = compSum
<1> DEFINE A == {i \in Machines : Slow(i)}
<1>1. \A i \in Machines : comps[i] = IF i \in A THEN Comp[1] ELSE Comp[0]
  BY DEF Described
<1>2. SumOver(comps, Machines) = Comp[0] * p + (Comp[1] - Comp[0]) * Cardinality(A)
  <2>1. A \in SUBSET Machines /\ IsFiniteSet(Machines) /\ Cardinality(Machines) = p
        /\ Comp[0] \in Int /\ Comp[1] \in Int
    BY CallFacts
  <2> HIDE DEF A
  <2> QED
    BY ONLY <1>1, <2>1, SumTwoValued
<1>3. SumOver(comps, Machines) = SpeedSum
  <2>1. CASE topo \in {2, 4}
    <3>1. A = {1, 3}
      BY <2>1, TwoMachines DEF Slow
    <3>2. Cardinality(A) = 2
      BY <3>1, TwoMachines
    <3>3. SpeedSum = Comp[0] * (p - 2) + Comp[1] * 2
      BY <2>1 DEF SpeedSum
    <3>4. \A a, b, q \in Int : a * q + (b - a) * 2 = a * (q - 2) + b * 2
      OBVIOUS
    <3>5. Comp[0] \in Int /\ Comp[1] \in Int /\ p \in Int
      BY CallFacts
    <3> QED
      BY ONLY <1>2, <3>2, <3>3, <3>4, <3>5
  <2>2. CASE topo \in {22, 44}
    <3>1. A = half .. p - 1
      BY <2>2, CallFacts DEF Slow, Machines
    <3>2. p = 2 * half /\ half \in Nat /\ half >= 2
      BY <2>2, CallFacts, TwoMachines
    <3>3. Cardinality(A) = half
      <4>1. half \in Int /\ p - 1 \in Int /\ half <= p - 1 /\ p - 1 - half + 1 = half
        BY <3>2
      <4>2. Cardinality(half .. p - 1) = p - 1 - half + 1
        BY ONLY <4>1, FS_Interval
      <4> QED
        BY ONLY <3>1, <4>1, <4>2
    <3>4. SpeedSum = (Comp[0] + Comp[1]) * half
      BY <2>2 DEF SpeedSum
    <3>5. \A a, b, h \in Int : a * (2 * h) + (b - a) * h = (a + b) * h
      OBVIOUS
    <3>6. Comp[0] \in Int /\ Comp[1] \in Int
      BY CallFacts
    <3> QED
      BY ONLY <1>2, <3>2, <3>3, <3>4, <3>5, <3>6
  <2>3. CASE topo \notin {2, 4, 22, 44}
    <3>1. A = {}
      BY <2>3 DEF Slow
    <3>2. Cardinality(A) = 0
      BY <3>1, FS_EmptySet
    <3>3. SpeedSum = Comp[0] * p
      BY <2>3 DEF SpeedSum
    <3>5. Comp[0] \in Int /\ Comp[1] \in Int /\ p \in Int
      BY CallFacts
    <3>6. \A a, b, q \in Int : a * q + (b - a) * 0 = a * q
      OBVIOUS
    <3> QED
      BY ONLY <1>2, <3>2, <3>3, <3>5, <3>6
  <2> QED
    BY <2>1, <2>2, <2>3
<1> QED
  BY <1>3 DEF Described


\* What the links of one machine cost.
LEMMA LinksOfOne ==
    ASSUME Called, Described, p >= 4, NEW i \in Machines
    PROVE  /\ topo \notin {3, 4, 33, 44} => Links(i) = p - 1
           /\ topo \in {3, 4} =>
                 Links(i) = IF i \in {1, 3} THEN Comm[1] * (p - 1)
                            ELSE Comm[0] * (p - 3) + Comm[1] * 2
<1> DEFINE S == Machines \ {i}
<1>1. IsFiniteSet(S) /\ Cardinality(S) = p - 1
  BY CallFacts, FS_RemoveElement
<1>2. \A j \in S : comms[i][j] = Link(i, j) /\ i # j
  BY DEF Described
<1>3. Links(i) = SumOver(comms[i], S)
  BY LinksAreSums
<1>4. p \in Int /\ Comm[0] \in Int /\ Comm[1] \in Int
  BY CallFacts
<1>5. ASSUME NEW x \in Int, NEW y \in Int, NEW A \in SUBSET S,
             \A j \in S : comms[i][j] = IF j \in A THEN x ELSE y
      PROVE  Links(i) = y * (p - 1) + (x - y) * Cardinality(A)
  <2>1. PICK f : f = comms[i]
    OBVIOUS
  <2>2. \A j \in S : f[j] = IF j \in A THEN x ELSE y
    BY <1>5, <2>1
  <2> HIDE DEF S
  <2>3. SumOver(f, S) = y * Cardinality(S) + (x - y) * Cardinality(A)
    BY ONLY <1>1, x \in Int, y \in Int, A \in SUBSET S, <2>2, SumTwoValued
  <2> QED
    BY ONLY <1>1, <1>3, <2>1, <2>3
<1>6. CASE topo \notin {3, 4, 33, 44}
  <2>1. \A j \in S : comms[i][j] = IF j \in S THEN 1 ELSE 1
    BY <1>2, <1>6 DEF Link
  <2>2. Links(i) = 1 * (p - 1) + (1 - 1) * Cardinality(S)
    <3> HIDE DEF S
    <3> QED
      BY <1>5, <2>1
  <2> QED
    BY <1>1, <1>4, <1>6, <2>2
<1>7. CASE topo \in {3, 4} /\ i \in {1, 3}
  <2>1. \A j \in S : comms[i][j] = IF j \in S THEN Comm[1] ELSE Comm[1]
    BY <1>2, <1>7 DEF Link, SlowLink
  <2>2. Links(i) = Comm[1] * (p - 1) + (Comm[1] - Comm[1]) * Cardinality(S)
    <3> HIDE DEF S
    <3> QED
      BY <1>4, <1>5, <2>1
  <2>3. (Comm[1] - Comm[1]) * Cardinality(S) = 0
    BY <1>1, <1>4
  <2> QED
    BY <1>4, <1>7, <2>2, <2>3
<1>8. CASE topo \in {3, 4} /\ i \notin {1, 3}
  <2>1. ASSUME NEW j \in S PROVE comms[i][j] = IF j \in {1, 3} THEN Comm[1] ELSE Comm[0]
    <3>1. SlowLink(i, j) <=> j \in {1, 3}
      <4>1. SlowLink(i, j) <=> {i, j} \cap {1, 3} # {}
        BY <1>8 DEF SlowLink
      <4>2. CASE j \in {1, 3}
        <5>1. j \in {i, j} \cap {1, 3}
          BY <4>2
        <5> QED
          BY <4>1, <4>2, <5>1
      <4>3. CASE j \notin {1, 3}
        <5>1. {i, j} \cap {1, 3} = {}
          BY <1>8, <4>3
        <5> QED
          BY <4>1, <4>3, <5>1
      <4> QED
        BY <4>2, <4>3
    <3> QED
      BY <1>2, <1>8, <3>1 DEF Link
  <2>2. {1, 3} \in SUBSET S /\ Cardinality({1, 3}) = 2
    BY <1>8, TwoMachines
  <2>3. Links(i) = Comm[0] * (p - 1) + (Comm[1] - Comm[0]) * Cardinality({1, 3})
    <3> HIDE DEF S
    <3> QED
      BY <1>4, <1>5, <2>1, <2>2
  <2>4. \A a, b, q \in Int : a * (q - 1) + (b - a) * 2 = a * (q - 3) + b * 2
    OBVIOUS
  <2>5. Links(i) = Comm[0] * (p - 3) + Comm[1] * 2
    BY ONLY <1>4, <2>2, <2>3, <2>4
  <2> QED
    BY <1>8, <2>5
<1> QED
  BY <1>6, <1>7, <1>8

LEMMA LinksAddUp ==
    ASSUME Called, Described, topo \in Layouts, p >= 4, topo \notin {33, 44}
    PROVE  MapThenSumSet(LAMBDA i : Links(i), Machines) = commSum
<1> DEFINE f == [i \in Machines |-> Links(i)]
<1>1. MapThenSumSet(LAMBDA i : Links(i), Machines) = SumOver(f, Machines)
  BY LinksAreSums
<1>2. p \in Nat /\ Comm[0] \in Nat \ {0} /\ Comm[1] \in Nat \ {0} /\ Comm[2] = Comm[1]
  BY CallFacts
<1>3. ASSUME NEW x \in Int, NEW y \in Int, NEW A \in SUBSET Machines,
             \A i \in Machines : f[i] = IF i \in A THEN x ELSE y
      PROVE  SumOver(f, Machines) = y * p + (x - y) * Cardinality(A)
  <2> HIDE DEF f
  <2>1. IsFiniteSet(Machines) /\ Cardinality(Machines) = p
    BY CallFacts
  <2>2. SumOver(f, Machines) = y * Cardinality(Machines) + (x - y) * Cardinality(A)
    BY ONLY <1>3, <2>1, SumTwoValued
  <2> QED
    BY ONLY <2>1, <2>2
<1>4. CASE topo \in {3, 4}
  <2> DEFINE x == Comm[1] * (p - 1)
             y == Comm[0] * (p - 3) + Comm[1] * 2
  <2>1. \A i \in Machines : f[i] = IF i \in {1, 3} THEN x ELSE y
    BY <1>4, LinksOfOne
  <2>2. x \in Int /\ y \in Int
    BY <1>2
  <2>3. SumOver(f, Machines) = y * p + (x - y) * 2
    <3> HIDE DEF f, x, y
    <3> QED
      BY <1>3, <2>1, <2>2, TwoMachines
  <2>4. LinkSum = (Comm[0] * (p - 3) + Comm[1] * 2) * (p - 2) + Comm[1] * (p - 1) * 2
                     - Comm[1] * 2 + Comm[2] * 2
    BY <1>4 DEF LinkSum
  <2>5. LinkSum = y * (p - 2) + x * 2
    <3>1. Comm[1] * (p - 1) * 2 \in Int /\ Comm[1] * 2 \in Int /\ y * (p - 2) \in Int
      BY <1>2, <2>2
    <3>2. \A a, b, c \in Int : a + b - c + c = a + b
      OBVIOUS
    <3> QED
      BY ONLY <1>2, <2>4, <3>1, <3>2
  <2>6. \A a, b, q \in Int : b * q + (a - b) * 2 = b * (q - 2) + a * 2
    OBVIOUS
  <2>7. SumOver(f, Machines) = LinkSum
    <3> HIDE DEF x, y
    <3> QED
      BY ONLY <1>2, <2>2, <2>3, <2>5, <2>6
  <2> QED
    BY <1>1, <1>2, <2>7 DEF Described
<1>5. CASE topo \notin {3, 4}
  <2>1. \A i \in Machines : f[i] = IF i \in {} THEN 0 ELSE p - 1
    BY <1>5, LinksOfOne
  <2>2. SumOver(f, Machines) = (p - 1) * p + (0 - (p - 1)) * Cardinality({})
    <3> HIDE DEF f
    <3> QED
      BY <1>2, <1>3, <2>1
  <2>3. Cardinality({}) = 0
    BY FS_EmptySet
  <2>4. LinkSum = p * (p - 1)
    BY <1>5 DEF LinkSum
  <2>5. \A q \in Nat : (q - 1) * q + (0 - (q - 1)) * 0 = q * (q - 1)
    OBVIOUS
  <2>6. SumOver(f, Machines) = LinkSum
    BY ONLY <1>2, <2>2, <2>3, <2>4, <2>5
  <2> QED
    BY <1>1, <1>2, <2>6 DEF Described
<1> QED
  BY <1>4, <1>5


-----------------------------------------------------------------------------
(* min_comm.                                                               *)

\* No link costs as much as all together.
LEMMA LinkBelowSum ==
    ASSUME Called, Described, topo \in Layouts, p >= 4, NEW b \in Machines, NEW i \in Machines
    PROVE  comms[b][i] < commSum
<1>1. comms[b][i] = Link(b, i)
  BY DEF Described
<1>2. /\ p \in Nat /\ half \in Nat /\ half >= 2 /\ Comm[0] \in Nat \ {0} /\ Comm[1] \in Nat \ {0}
      /\ Comm[2] = Comm[1] /\ Comm[0] < Comm[1]
  BY CallFacts, TwoMachines
<1>3. LinkSum = commSum /\ LinkSum \in Int /\ commSum \in Int
  BY <1>2, LinkSumType DEF Described
<1>4. CASE topo \in {3, 4}
  <2>1. Link(b, i) <= Comm[1] /\ Link(b, i) \in Int
    BY <1>2, <1>4 DEF Link
  <2>2. LinkSum = (Comm[0] * (p - 3) + Comm[1] * 2) * (p - 2) + Comm[1] * (p - 1) * 2
                     - Comm[1] * 2 + Comm[2] * 2
    BY <1>4 DEF LinkSum
  <2>3. ASSUME NEW a \in Nat, NEW c \in Nat \ {0}, NEW q \in Nat, q >= 4
        PROVE  (a * (q - 3) + c * 2) * (q - 2) + c * (q - 1) * 2 - c * 2 + c * 2 > c
    <3>1. a * (q - 3) >= 0 /\ a * (q - 3) \in Int
      BY <2>3
    <3>2. PICK y \in Nat : y = a * (q - 3) + c * 2
      BY <3>1
    <3>3. y * (q - 2) >= 0 /\ y * (q - 2) \in Int
      BY <2>3
    <3>4. c * (q - 1) >= c /\ c * (q - 1) \in Int
      BY <2>3
    <3> QED
      BY ONLY c \in Nat \ {0}, <3>2, <3>3, <3>4
  <2>4. LinkSum > Comm[1]
    BY ONLY <1>2, <2>2, <2>3, p >= 4
  <2> QED
    BY ONLY <1>1, <1>2, <1>3, <2>1, <2>4
<1>5. CASE topo \in {33, 44}
  <2>1. Link(b, i) <= Comm[1] /\ Link(b, i) \in Int
    BY <1>2, <1>5 DEF Link
  <2>2. LinkSum = (Comm[0] * (half - 1) + Comm[2] * half) * half + Comm[2] * (p - 1) * half
    BY <1>5 DEF LinkSum
  <2>3. ASSUME NEW a \in Nat, NEW c \in Nat \ {0}, NEW q \in Nat, q >= 4, NEW h \in Nat, h >= 2
        PROVE  (a * (h - 1) + c * h) * h + c * (q - 1) * h > c
    <3>1. a * (h - 1) >= 0 /\ a * (h - 1) \in Int /\ c * h >= 0 /\ c * h \in Int
      BY <2>3
    <3>2. PICK y \in Nat : y = a * (h - 1) + c * h
      BY <3>1
    <3>3. y * h >= 0 /\ y * h \in Int
      BY <2>3
    <3>4. PICK z \in Nat : z = c * (q - 1) /\ z > c
      <4>1. c * (q - 1) > c /\ c * (q - 1) \in Nat
        BY <2>3
      <4> QED
        BY <4>1
    <3>5. z * h >= z /\ z * h \in Int
      BY <2>3
    <3> QED
      BY ONLY c \in Nat \ {0}, <3>2, <3>3, <3>4, <3>5
  <2>4. LinkSum > Comm[1]
    BY ONLY <1>2, <2>2, <2>3, p >= 4
  <2> QED
    BY ONLY <1>1, <1>2, <1>3, <2>1, <2>4
<1>6. CASE topo \notin {3, 4, 33, 44}
  <2>1. Link(b, i) <= 1 /\ Link(b, i) \in Int
    BY <1>6 DEF Link
  <2>2. LinkSum = p * (p - 1)
    BY <1>6 DEF LinkSum
  <2>3. \A q \in Nat : q >= 4 => q * (q - 1) > 1
    OBVIOUS
  <2>4. LinkSum > 1
    BY ONLY <1>2, <2>2, <2>3, p >= 4
  <2> QED
    BY ONLY <1>1, <1>3, <2>1, <2>4
<1> QED
  BY <1>4, <1>5, <1>6

\* So the integer cost of the cheapest one is 0.
LEMMA LeastIsZero ==
    ASSUME Called, Described, topo \in Layouts, p >= 4, NEW b \in Machines
    PROVE  Least(b) = 0
<1> DEFINE Next1(m, k) == IF k - 1 # b /\ comms[b][k - 1] < m * commSum
                          THEN comms[b][k - 1] \div commSum ELSE m
           step == [x \in Nat \X (1 .. p) |-> Next1(x[1], x[2])]
           seq == [n \in 1 .. p |-> n]
           Rec(it) == [S \in SUBSET (1 .. p) |->
                         IF S = {} THEN IntMax ELSE Next1(it[S \ {Max(S)}], Max(S))]
           Iter == CHOOSE it : it = Rec(it)
<1>1. Least(b) = Iter[1 .. p]
  <2> DEFINE RecS(it) == [S \in SUBSET (DOMAIN seq) |->
                            IF S = {} THEN IntMax ELSE Next1(it[S \ {Max(S)}], seq[Max(S)])]
             IterS == CHOOSE it : it = RecS(it)
  <2>1. Least(b) = IterS[DOMAIN seq]
    BY DEF Least, FoldLeft, MapThenFoldSet
  <2>2. DOMAIN seq = 1 .. p
    OBVIOUS
  <2>3. ASSUME NEW S \in SUBSET (1 .. p), S # {} PROVE seq[Max(S)] = Max(S)
    <3>1. Max(S) \in 1 .. p
      BY <2>3, CallFacts, MaxFacts
    <3> QED
      BY <3>1
  <2>4. \A it : RecS(it) = Rec(it)
    <3> HIDE DEF seq, Next1
    <3> QED
      BY ONLY <2>2, <2>3
  <2>5. IterS = Iter
    <3> HIDE DEF RecS, Rec
    <3> QED
      BY ONLY <2>4
  <2> QED
    BY <2>1, <2>2, <2>5
<1>2. p \in Nat /\ b \in 0 .. p - 1 /\ commSum \in Nat \ {0}
  BY CallFacts, TableFacts DEF Machines
<1>3. ASSUME NEW k \in 1 .. p
      PROVE  comms[b][k - 1] \in Nat /\ comms[b][k - 1] < commSum
  <2>1. k - 1 \in Machines
    BY <1>2 DEF Machines
  <2> QED
    BY <2>1, TableFacts, LinkBelowSum
<1>4. ASSUME NEW k \in 1 .. p, NEW m \in Nat
      PROVE  /\ Next1(m, k) \in Nat
             /\ k - 1 = b => Next1(m, k) = m
             /\ k - 1 # b => Next1(m, k) = 0
  <2>1. PICK c \in Nat : c = comms[b][k - 1] /\ c < commSum
    BY <1>3
  <2>2. c \div commSum = 0
    BY ONLY <1>2, <2>1
  <2>3. m # 0 => c < m * commSum
    <3>1. m # 0 => m * commSum >= commSum /\ m * commSum \in Int
      BY ONLY <1>2, m \in Nat
    <3> QED
      BY ONLY <1>2, <2>1, <3>1, m \in Nat
  <2>4. m = 0 => ~(c < m * commSum)
    BY ONLY <1>2, <2>1
  <2> QED
    BY <2>1, <2>2, <2>3, <2>4
<1>5. PICK F : IsLeftFold(p, Nat, IntMax, step, F)
  <2>1. LeftFoldable(p, Nat, IntMax, step)
    <3>1. step \in [Nat \X (1 .. p) -> Nat]
      <4> HIDE DEF Next1
      <4> QED
        BY <1>4
    <3> HIDE DEF step
    <3> QED
      BY <1>2, <3>1 DEF LeftFoldable, IntMax
  <2> HIDE DEF step
  <2> QED
    BY ONLY <2>1, LeftFoldsExist
<1>6. F = Rec(F)
  <2>1. ASSUME NEW S \in SUBSET (1 .. p), S # {}
        PROVE  step[<<F[S \ {Max(S)}], Max(S)>>] = Next1(F[S \ {Max(S)}], Max(S))
    <3>1. Max(S) \in 1 .. p
      BY ONLY <1>2, <2>1, MaxFacts
    <3>2. F[S \ {Max(S)}] \in Nat
      BY <1>5 DEF IsLeftFold
    <3> HIDE DEF Next1
    <3> QED
      BY <3>1, <3>2
  <2>2. F = [S \in SUBSET (1 .. p) |->
               IF S = {} THEN IntMax ELSE step[<<F[S \ {Max(S)}], Max(S)>>]]
    BY <1>5 DEF IsLeftFold
  <2> HIDE DEF step, Next1
  <2> QED
    BY ONLY <2>1, <2>2
<1>7. Iter = Rec(Iter)
  <2> HIDE DEF Rec
  <2> QED
    BY ONLY <1>6
<1>8. Iter[1 .. 0] = IntMax /\ \A k \in 1 .. p : Iter[1 .. k] = Next1(Iter[1 .. k - 1], k)
  <2>1. Iter[1 .. 0] = IntMax
    <3>1. 1 .. 0 = {}
      OBVIOUS
    <3> HIDE DEF Iter, Next1
    <3> QED
      BY ONLY <1>7, <3>1
  <2>2. ASSUME NEW k \in 1 .. p PROVE Iter[1 .. k] = Next1(Iter[1 .. k - 1], k)
    <3>1. /\ 1 .. k \in SUBSET (1 .. p) /\ 1 .. k # {} /\ Max(1 .. k) = k
          /\ (1 .. k) \ {k} = 1 .. k - 1
      BY ONLY <1>2, k \in 1 .. p, PrefixFacts
    <3> HIDE DEF Iter, Next1
    <3> QED
      BY ONLY <1>7, <3>1
  <2> QED
    BY <2>1, <2>2
<1> DEFINE Good == {k \in Nat : k <= p => /\ Iter[1 .. k] \in Nat
                                          /\ k >= 2 \/ (k = 1 /\ b # 0) => Iter[1 .. k] = 0}
<1>9. 0 \in Good
  <2> HIDE DEF Iter
  <2> QED
    BY <1>8 DEF IntMax
<1>10. ASSUME NEW k \in Nat, k \in Good PROVE k + 1 \in Good
  <2>1. SUFFICES ASSUME k + 1 <= p
                 PROVE  /\ Iter[1 .. k + 1] \in Nat
                        /\ k + 1 >= 2 \/ (k + 1 = 1 /\ b # 0) => Iter[1 .. k + 1] = 0
    <3> HIDE DEF Iter
    <3> QED
      OBVIOUS
  <2>2. k + 1 \in 1 .. p /\ k + 1 - 1 = k /\ k <= p
    BY <1>2, <2>1
  <2>3. Iter[1 .. k] \in Nat /\ (k >= 2 \/ (k = 1 /\ b # 0) => Iter[1 .. k] = 0)
    <3> HIDE DEF Iter
    <3> QED
      BY <1>10, <2>2
  <2>4. Iter[1 .. k + 1] = Next1(Iter[1 .. k], k + 1)
    <3> HIDE DEF Iter, Next1
    <3> QED
      BY <1>8, <2>2
  <2> HIDE DEF Iter, Next1
  <2>5. /\ Next1(Iter[1 .. k], k + 1) \in Nat
        /\ k = b => Next1(Iter[1 .. k], k + 1) = Iter[1 .. k]
        /\ k # b => Next1(Iter[1 .. k], k + 1) = 0
    <3>1. PICK m \in Nat : m = Iter[1 .. k]
      BY <2>3
    <3>2. PICK j \in 1 .. p : j = k + 1 /\ j - 1 = k
      BY <2>2
    <3>3. /\ Next1(m, j) \in Nat
          /\ j - 1 = b => Next1(m, j) = m
          /\ j - 1 # b => Next1(m, j) = 0
      BY <1>4
    <3> HIDE DEF Good
    <3> QED
      BY ONLY <3>1, <3>2, <3>3
  <2> QED
    BY <1>2, <2>3, <2>4, <2>5
<1>11. p \in Good
  <2> HIDE DEF Good
  <2> QED
    BY ONLY <1>2, <1>9, <1>10, InductionOnNat
<1> QED
  <2> HIDE DEF Iter
  <2> QED
    BY <1>1, <1>2, <1>11


-----------------------------------------------------------------------------
(* The shares.                                                             *)

ValuesFor(n) == {Bs(i, n) : i \in Machines}

\* Ceil(num, den), or one more where that is exact: not below num/den, and at most 1 above.
LEMMA RoundedFacts ==
    ASSUME NEW num \in Nat \ {0}, NEW den \in Nat \ {0},
           NEW c, c \in {Ceil(num, den)} \cup (IF num % den = 0 THEN {num \div den + 1} ELSE {})
    PROVE  c \in Nat \ {0} /\ num <= den * c /\ den * c <= num + den
<1>1. CASE c = Ceil(num, den)
  <2>1. PICK x \in Nat : x = num + den - 1 /\ x >= den
    OBVIOUS
  <2>2. x = den * (x \div den) + (x % den) /\ 0 <= x % den /\ x % den < den
        /\ x \div den \in Int /\ x % den \in Int
    BY <2>1
  <2>3. c = x \div den
    BY <1>1, <2>1 DEF Ceil
  <2>4. c \in Int /\ den * c \in Int /\ num <= den * c /\ den * c <= num + den
    BY <2>1, <2>2, <2>3
  <2>5. c >= 1
    BY <2>4
  <2> QED
    BY <2>4, <2>5
<1>2. CASE num % den = 0 /\ c = num \div den + 1
  <2>1. num = den * (num \div den) + (num % den) /\ num \div den \in Nat
    OBVIOUS
  <2>2. c \in Nat \ {0} /\ den * c = num + den
    BY <1>2, <2>1
  <2> QED
    BY <2>2
<1> QED
  BY <1>1, <1>2

LEMMA OthersFacts ==
    ASSUME NEW values, IsFiniteSet(values), values \subseteq Nat \ {0}
    PROVE  \E P \in Nat : \A b \in values : Others(b, values) \in Nat \ {0} /\ b * Others(b, values) = P
<1> DEFINE id == [c \in values |-> c]
<1>1. \A x \in values : id[x] \in Nat \ {0} /\ id[x] = x
  OBVIOUS
<1> HIDE DEF id
<1>2. /\ ProductOver(id, values) \in Nat \ {0}
      /\ \A x \in values : /\ ProductOver(id, values \ {x}) \in Nat \ {0}
                           /\ ProductOver(id, values) = id[x] * ProductOver(id, values \ {x})
  BY ONLY <1>1, IsFiniteSet(values), ProductSplit
<1>3. \A b \in values : Others(b, values) = ProductOver(id, values \ {b})
  BY OthersIsProduct DEF id
<1> QED
  BY <1>1, <1>2, <1>3

\* The shares of all machines add up to all edges.
LEMMA SharesAddUp ==
    ASSUME Called, Described, NEW n \in Nat \ {0}
    PROVE  LET values == ValuesFor(n)
               num == [i \in Machines |-> Numerator(Bs(i, n), n, values)]
           IN  /\ Denominator(n, values) \in Nat \ {0}
               /\ SumOver(num, Machines) = n * Denominator(n, values)
               /\ \A i \in Machines : num[i] \in Nat \ {0}
               /\ \A i, j \in Machines : Bs(i, n) < Bs(j, n) => num[j] < num[i]
<1> DEFINE values == ValuesFor(n)
           b == [i \in Machines |-> Bs(i, n)]
           oth == [v \in values |-> Others(v, values)]
           each == [i \in Machines |-> oth[b[i]]]
           num == [i \in Machines |-> Numerator(Bs(i, n), n, values)]
<1>1. /\ IsFiniteSet(Machines) /\ 0 \in Machines
      /\ values \subseteq Nat \ {0} /\ \A i \in Machines : b[i] \in values /\ b[i] = Bs(i, n)
  BY CallFacts, BsFacts DEF ValuesFor
<1>2. IsFiniteSet(values)
  <2>1. b \in Surjection(Machines, values)
    BY DEF Surjection, ValuesFor
  <2> HIDE DEF values, b
  <2> QED
    BY ONLY <1>1, <2>1, FS_Surjection
<1>3. PICK P \in Nat : \A v \in values :
         Others(v, values) \in Nat \ {0} /\ v * Others(v, values) = P
  <2> HIDE DEF values
  <2> QED
    BY <1>1, <1>2, OthersFacts
<1>4. \A v \in values : oth[v] = Others(v, values) /\ oth[v] \in Nat \ {0}
  <2> HIDE DEF values
  <2> QED
    BY <1>3
<1>5. \A i \in Machines : num[i] = n * oth[b[i]] /\ each[i] = oth[b[i]] /\ each[i] \in Nat \ {0}
  <2> HIDE DEF values, b
  <2>1. \A i \in Machines : num[i] = n * Others(b[i], values)
    BY <1>1 DEF Numerator
  <2> QED
    BY <1>1, <1>4, <2>1
<1>6. Denominator(n, values) = SumOver(each, Machines)
  <2> DEFINE times == [v \in values |-> Count(v, n) * Others(v, values)]
             grouped == [v \in values |-> Cardinality({i \in Machines : b[i] = v}) * oth[v]]
  <2>1. Denominator(n, values) = SumOver(times, values)
    BY DenominatorIsSum
  <2>2. times = grouped
    <3>1. \A v \in values : Count(v, n) = Cardinality({i \in Machines : b[i] = v})
      <4>1. \A v : {i \in Machines : Bs(i, n) = v} = {i \in Machines : b[i] = v}
        OBVIOUS
      <4> HIDE DEF b
      <4> QED
        BY <4>1 DEF Count
    <3> HIDE DEF values, b
    <3> QED
      BY <1>4, <3>1
  <2>3. SumOver(each, Machines) = SumOver(grouped, values)
    <3> HIDE DEF values, b, oth
    <3>1. IsFiniteSet(Machines) /\ \A i \in Machines : b[i] \in values
      BY <1>1
    <3>2. \A v \in values : oth[v] \in Int
      BY <1>4
    <3>3. SumOver([i \in Machines |-> oth[b[i]]], Machines)
             = SumOver([v \in values |-> Cardinality({i \in Machines : b[i] = v}) * oth[v]], values)
      BY ONLY <1>2, <3>1, <3>2, SumByValue
    <3> QED
      BY <3>3
  <2> HIDE DEF times, grouped, each
  <2> QED
    BY ONLY <2>1, <2>2, <2>3
<1>7. Denominator(n, values) \in Nat \ {0}
  <2> HIDE DEF each
  <2>1. SumOver(each, Machines) \in Nat /\ each[0] <= SumOver(each, Machines)
    BY <1>1, <1>5, SumNatural
  <2>2. each[0] \in Nat \ {0}
    BY <1>1, <1>5
  <2>3. SumOver(each, Machines) \in Nat \ {0}
    BY ONLY <2>1, <2>2
  <2> QED
    BY ONLY <1>6, <2>3
<1>8. SumOver(num, Machines) = n * Denominator(n, values)
  <2>1. CanFold(each, Machines) /\ CanFold(num, Machines)
    <3> HIDE DEF each, num, oth, b
    <3> QED
      BY <1>1, <1>5 DEF CanFold
  <2>2. \A i \in Machines : num[i] = n * each[i]
    <3> HIDE DEF each, num, oth, b
    <3> QED
      BY <1>5
  <2> HIDE DEF each, num
  <2>3. SumOver(num, Machines) = n * SumOver(each, Machines)
    BY ONLY <2>1, <2>2, n \in Nat \ {0}, SumScaled
  <2> QED
    BY ONLY <1>6, <2>3
<1>9. \A i \in Machines : num[i] \in Nat \ {0}
  <2> HIDE DEF num, each, oth, b
  <2> QED
    BY <1>5
<1>10. ASSUME NEW i \in Machines, NEW j \in Machines, Bs(i, n) < Bs(j, n)
       PROVE  num[j] < num[i]
  <2>1. PICK x \in Nat \ {0}, y \in Nat \ {0} : x = oth[b[i]] /\ y = oth[b[j]]
    <3> HIDE DEF oth, b
    <3> QED
      BY <1>1, <1>4
  <2>2. PICK v \in Nat \ {0}, w \in Nat \ {0} : v = b[i] /\ w = b[j] /\ v < w
    <3> HIDE DEF b, values
    <3> QED
      BY <1>1, <1>10
  <2>3. v * x = P /\ w * y = P
    <3> HIDE DEF oth, b, values
    <3> QED
      BY <1>1, <1>3, <1>4, <2>1, <2>2
  <2>4. y < x
    <3>1. ASSUME x <= y PROVE FALSE
      <4>1. v * x <= v * y /\ v * x \in Int /\ v * y \in Int
        BY <3>1, ProductFacts
      <4>2. w * y = v * y + (w - v) * y
        OBVIOUS
      <4>3. (w - v) * y >= 1 /\ (w - v) * y \in Int
        <5>1. w - v \in Nat \ {0}
          BY <2>2
        <5> QED
          BY <5>1, ProductFacts
      <4> QED
        BY ONLY <2>3, <4>1, <4>2, <4>3
    <3> QED
      BY <3>1
  <2>5. n * y < n * x
    <3>1. n * x = n * y + n * (x - y)
      OBVIOUS
    <3>2. n * (x - y) \in Nat \ {0} /\ n * y \in Nat
      <4>1. x - y \in Nat \ {0}
        BY <2>4
      <4> QED
        BY <4>1, ProductFacts
    <3> QED
      BY <3>1, <3>2
  <2> HIDE DEF num, oth, b
  <2> QED
    BY <1>5, <2>1, <2>5
<1> QED
  BY <1>7, <1>8, <1>9, <1>10


LEMMA SharesSuffice ==
    ASSUME Called, Described, NEW n \in Nat \ {0}, Shared(n)
    PROVE  /\ MapThenSumSet(LAMBDA i : capacities[i], Machines) \in n .. n + p
           /\ \A i, j \in Machines :
                 /\ capacities[i] >= 1
                 /\ comps[i] <= comps[j] /\ Links(i) <= Links(j) => capacities[i] >= capacities[j]
<1> DEFINE values == ValuesFor(n)
           num == [i \in Machines |-> Numerator(Bs(i, n), n, values)]
<1>1. PICK den \in Nat \ {0} : den = Denominator(n, values)
  BY SharesAddUp
<1>2. /\ SumOver(num, Machines) = n * den
      /\ \A i \in Machines : num[i] \in Nat \ {0}
      /\ \A i, j \in Machines : Bs(i, n) < Bs(j, n) => num[j] < num[i]
  BY <1>1, SharesAddUp
<1>3. ASSUME NEW i \in Machines
      PROVE  /\ capacities[i] \in Nat \ {0}
             /\ num[i] <= den * capacities[i] /\ den * capacities[i] <= num[i] + den
  <2>1. capacities[i] \in Rounded(Bs(i, n), n, values)
    BY DEF Shared, ValuesFor
  <2>2. num[i] = Numerator(Bs(i, n), n, values) /\ num[i] \in Nat \ {0}
    BY <1>2
  <2>3. capacities[i] \in {Ceil(num[i], den)} \cup
           (IF num[i] % den = 0 THEN {num[i] \div den + 1} ELSE {})
    <3> HIDE DEF num, values
    <3> QED
      BY <1>1, <2>1, <2>2 DEF Rounded
  <2> HIDE DEF num
  <2> QED
    BY <2>2, <2>3, RoundedFacts
<1>4. ASSUME NEW i \in Machines, NEW j \in Machines, comps[i] <= comps[j], Links(i) <= Links(j)
      PROVE  capacities[i] >= capacities[j]
  <2>1. Bs(i, n) \in Nat /\ Bs(j, n) \in Nat /\ Bs(i, n) <= Bs(j, n)
    BY <1>4, BsFacts
  <2>2. CASE Bs(i, n) = Bs(j, n)
    <3>1. capacities[i] = capacities[j] /\ capacities[i] \in Nat
      BY <1>3, <2>2 DEF Shared
    <3> QED
      BY <3>1
  <2>3. CASE Bs(i, n) < Bs(j, n)
    <3>1. PICK x \in Nat, y \in Nat : x = num[i] /\ y = num[j] /\ y < x
      BY <1>2, <2>3
    <3>2. PICK c \in Nat, d \in Nat : c = capacities[i] /\ d = capacities[j]
      BY <1>3
    <3>3. x <= den * c /\ den * d <= y + den
      BY <1>3, <3>1, <3>2
    <3>4. ASSUME c + 1 <= d PROVE FALSE
      <4>1. den * d = den * (c + 1) + den * (d - (c + 1)) /\ den * (d - (c + 1)) >= 0
        <5>1. d - (c + 1) \in Nat
          BY <3>4
        <5>2. \A a, b \in Int : den * (a + b) = den * a + den * b
          OBVIOUS
        <5>3. \A a \in Nat : den * a >= 0
          OBVIOUS
        <5>4. d = (c + 1) + (d - (c + 1))
          BY <5>1
        <5> QED
          BY ONLY <5>1, <5>2, <5>3, <5>4, c \in Nat
      <4>2. den * (c + 1) = den * c + den
        OBVIOUS
      <4>3. den * c \in Nat /\ den * d \in Nat /\ den * (d - (c + 1)) \in Int
        OBVIOUS
      <4> QED
        BY ONLY <3>1, <3>3, <4>1, <4>2, <4>3
    <3> QED
      BY <3>2, <3>4
  <2> QED
    BY <2>1, <2>2, <2>3
<1>5. MapThenSumSet(LAMBDA i : capacities[i], Machines) = SumOver(capacities, Machines)
  BY DEF SumOver
<1> DEFINE scaled == [i \in Machines |-> den * capacities[i]]
           upper == [i \in Machines |-> num[i] + den]
<1>6. /\ CanFold(capacities, Machines) /\ CanFold(num, Machines) /\ CanFold(scaled, Machines)
      /\ CanFold(upper, Machines)
  <2>1. IsFiniteSet(Machines)
    BY CallFacts
  <2>2. \A i \in Machines : /\ capacities[i] \in Int /\ num[i] \in Int /\ den * capacities[i] \in Int
                            /\ num[i] + den \in Int
    <3> HIDE DEF num
    <3> QED
      BY <1>2, <1>3
  <2> HIDE DEF num
  <2> QED
    BY <2>1, <2>2 DEF CanFold
<1>7. SumOver(scaled, Machines) = den * SumOver(capacities, Machines)
  <2>1. \A i \in Machines : scaled[i] = den * capacities[i]
    OBVIOUS
  <2> HIDE DEF scaled
  <2> QED
    BY ONLY <1>6, <2>1, den \in Nat \ {0}, SumScaled
<1>8. SumOver(upper, Machines) = n * den + den * p
  <2>1. \A i \in Machines : upper[i] = num[i] + den
    BY DEF upper
  <2> HIDE DEF num, upper
  <2>2. SumOver(upper, Machines) = SumOver(num, Machines) + den * Cardinality(Machines)
    BY ONLY <1>6, <2>1, den \in Nat \ {0}, SumShifted
  <2> QED
    BY <1>2, <2>2, CallFacts
<1>9. SumOver(num, Machines) <= SumOver(scaled, Machines)
      /\ SumOver(scaled, Machines) <= SumOver(upper, Machines)
  <2>1. \A i \in Machines : num[i] <= scaled[i] /\ scaled[i] <= upper[i]
    <3> HIDE DEF num
    <3> QED
      BY <1>3
  <2> HIDE DEF num, scaled, upper
  <2> QED
    BY ONLY <1>6, <2>1, SumMonotone
<1>10. SumOver(capacities, Machines) \in Int
  BY <1>6, SumInsert
<1>11. n <= SumOver(capacities, Machines) /\ SumOver(capacities, Machines) <= n + p
  <2>1. PICK s \in Int : s = SumOver(capacities, Machines)
    BY <1>10
  <2>2. p \in Nat
    BY CallFacts
  <2>3. n * den <= den * s /\ den * s <= n * den + den * p
    <3> HIDE DEF num, scaled, upper
    <3> QED
      BY ONLY <1>2, <1>7, <1>8, <1>9, <2>1
  <2>4. ASSUME NEW a \in Int, NEW b \in Int, den * a <= den * b PROVE a <= b
    <3>1. ASSUME b + 1 <= a PROVE FALSE
      <4>1. den * a = den * b + den * (a - b)
        OBVIOUS
      <4>2. den * (a - b) >= 1 /\ den * (a - b) \in Int
        <5>1. a - b \in Nat \ {0}
          BY <3>1
        <5> QED
          BY <5>1, ProductFacts
      <4>3. den * a \in Int /\ den * b \in Int
        OBVIOUS
      <4> QED
        BY ONLY <2>4, <4>1, <4>2, <4>3
    <3> QED
      BY <3>1
  <2>5. n * den = den * n /\ n * den + den * p = den * (n + p)
    BY <2>2
  <2>6. n <= s /\ s <= n + p
    BY ONLY <2>2, <2>3, <2>4, <2>5, s \in Int, n \in Nat \ {0}
  <2> QED
    BY <2>1, <2>6
<1>12. SumOver(capacities, Machines) \in n .. n + p
  <2>1. p \in Nat
    BY CallFacts
  <2> QED
    BY ONLY <1>10, <1>11, <2>1, n \in Nat \ {0}
<1>13. \A i \in Machines : capacities[i] >= 1
  BY <1>3
<1> QED
  BY <1>4, <1>5, <1>12, <1>13

-----------------------------------------------------------------------------
(* The theorems.                                                           *)

LEMMA InitClusterInv == Init => ClusterInv
BY DEF Init, ClusterInv, Called

LEMMA CalledStays ==
    ASSUME Called, UNCHANGED call
    PROVE  Called'
BY DEF Called, call

LEMMA StepClusterInv ==
    ASSUME ClusterInv, [Next]_vars
    PROVE  ClusterInv'
<1> Called
  BY DEF ClusterInv
<1>1. CASE SetAbility
  <2>1. UNCHANGED call /\ pc' \in {"min", "stopped"} /\ topo' = topo
    BY <1>1 DEF SetAbility, call
  <2>2. Called'
    BY <2>1, CalledStays
  <2>3. topo \in Layouts => Described'
    <3>1. /\ Machines' = Machines /\ p' = p /\ SpeedSum' = SpeedSum /\ LinkSum' = LinkSum
          /\ \A i : Slow(i)' = Slow(i) /\ \A j : Link(i, j)' = Link(i, j)
      BY <2>1 DEF call, Machines, Slow, SpeedSum, Link, LinkSum, SlowLink, half
    <3>2. ASSUME topo \in Layouts
          PROVE  /\ comps' = [i \in Machines |-> IF Slow(i) THEN Comp[1] ELSE Comp[0]]
                 /\ compSum' = SpeedSum
                 /\ comms' = [i \in Machines |-> [j \in Machines |-> Link(i, j)]]
                 /\ commSum' = IF p = 1 THEN 1 ELSE LinkSum
      BY <1>1, <3>2 DEF SetAbility
    <3> HIDE DEF Layouts
    <3> QED
      BY <3>1, <3>2 DEF Described
  <2> HIDE DEF Layouts
  <2> QED
    BY <2>1, <2>2, <2>3 DEF ClusterInv
<1>2. CASE CalculateMinComm
  <2>1. UNCHANGED <<call, tables>> /\ pc = "min" /\ pc' = "low" /\ topo' = topo /\ p' = p
    BY <1>2 DEF CalculateMinComm, call
  <2>2. Called' /\ (topo \in Layouts => Described /\ Described')
    BY <2>1, CalledStays, DescribedStays DEF ClusterInv
  <2>3. ASSUME topo \in Layouts, p >= 4 PROVE \A b \in Machines : minComm'[b] = 0
    BY <1>2, <2>2, <2>3, LeastIsZero DEF CalculateMinComm
  <2>4. Machines' = Machines
    BY <2>1 DEF Machines
  <2> QED
    BY <2>1, <2>2, <2>3, <2>4 DEF ClusterInv, Layouts
<1>3. ASSUME NEW total \in Nat, SetDelta(total), pc \in {"low", "expand"}, topo \in Layouts,
             NEW n, n = total % VidRange, n # 0, compSum # 0
      PROVE  Shared(n)'
  <2>1. Described
    BY <1>3 DEF ClusterInv
  <2>2. n \in Nat \ {0}
    BY <1>3, ClusterAssumption
  <2>3. \A i \in Machines : Bs(i, n) # 0
    BY <2>1, <2>2, BsFacts
  <2>4. Machines # {}
    BY CallFacts
  <2> QED
    BY <1>3, <2>2, <2>3, <2>4, SetDeltaShares
<1>4. ASSUME NEW n, SetDelta(n), pc \in {"low", "expand"}
      PROVE  /\ Called' /\ (topo \in Layouts => Described') /\ topo' = topo
             /\ topo \in Layouts => (p' >= 4 => \A b \in Machines' : minComm'[b] = 0) \/ pc = "low"
             /\ minComm' = minComm /\ Machines' = Machines /\ p' = p
             /\ lowEdges' = lowEdges /\ h2hEdges' = h2hEdges /\ compSum' = compSum
  <2>1. UNCHANGED <<call, tables, minComm>>
    BY <1>4 DEF SetDelta
  <2>2. /\ topo' = topo /\ p' = p /\ lowEdges' = lowEdges /\ h2hEdges' = h2hEdges
        /\ compSum' = compSum
    BY <2>1 DEF call, tables
  <2>3. Machines' = Machines
    BY <2>2 DEF Machines
  <2>4. Called' /\ (topo \in Layouts => Described')
    BY <1>4, <2>1, CalledStays, DescribedStays DEF ClusterInv
  <2>5. topo \in Layouts => (p >= 4 => \A b \in Machines : minComm[b] = 0)
    BY <1>4 DEF ClusterInv
  <2> QED
    BY <2>1, <2>2, <2>3, <2>4, <2>5
<1>5. CASE SetLowDelta
  <2>1. SetDelta(lowEdges) /\ pc = "low" /\ pc' = "expand" /\ lowEdges \in Nat
    BY <1>5, CallFacts DEF SetLowDelta
  <2>2. topo \in Layouts /\ compSum # 0 => \A n \in {lowEdges % VidRange} \ {0} : Shared(n)'
    BY <1>3, <2>1
  <2>3. topo \in Layouts /\ p >= 4 => \A b \in Machines : minComm[b] = 0
    BY <2>1 DEF ClusterInv
  <2> HIDE DEF Layouts
  <2> QED
    BY <1>4, <2>1, <2>2, <2>3 DEF ClusterInv, Assigned
<1>6. CASE SetAllDelta
  <2>1. /\ SetDelta(lowEdges + h2hEdges) /\ pc = "expand" /\ pc' = "hcsg"
        /\ lowEdges + h2hEdges \in Nat
    BY <1>6, CallFacts DEF SetAllDelta
  <2>2. topo \in Layouts /\ compSum # 0 =>
           \A n \in {(lowEdges + h2hEdges) % VidRange} \ {0} : Shared(n)'
    BY <1>3, <2>1
  <2>3. topo \in Layouts /\ p >= 4 => \A b \in Machines : minComm[b] = 0
    BY <2>1 DEF ClusterInv
  <2> HIDE DEF Layouts
  <2> QED
    BY <1>4, <2>1, <2>2, <2>3 DEF ClusterInv, Assigned
<1>7. CASE UNCHANGED vars
  <2>1. UNCHANGED <<call, tables>> /\ pc' = pc /\ minComm' = minComm /\ capacities' = capacities
    BY <1>7 DEF vars
  <2>2. /\ topo' = topo /\ p' = p /\ lowEdges' = lowEdges /\ h2hEdges' = h2hEdges
        /\ compSum' = compSum
    BY <2>1 DEF call, tables
  <2>3. Called'
    BY <2>1, CalledStays
  <2>4. Described => Described'
    BY <2>1, DescribedStays
  <2>5. ASSUME NEW n, Shared(n) PROVE Shared(n)'
    <3>1. /\ Machines' = Machines
          /\ \A i : Bs(i, n)' = Bs(i, n)
          /\ \A b, V : Rounded(b, n, V)' = Rounded(b, n, V)
      BY <2>1, SharesStay
    <3>2. {Bs(i, n)' : i \in Machines'} = {Bs(i, n) : i \in Machines}
      BY <3>1
    <3> QED
      BY <2>1, <2>5, <3>1, <3>2 DEF Shared
  <2>6. Machines' = Machines
    BY <2>2 DEF Machines
  <2> HIDE DEF Layouts
  <2> QED
    BY <2>1, <2>2, <2>3, <2>4, <2>5, <2>6 DEF ClusterInv, Assigned
<1> QED
  BY <1>1, <1>2, <1>5, <1>6, <1>7 DEF Next, Terminated


LEMMA ClusterInvAlways == Spec => []ClusterInv
<1>1. ClusterInv /\ [Next]_vars => ClusterInv'
  BY StepClusterInv
<1> QED
  BY InitClusterInv, <1>1, PTL DEF Spec

LEMMA NormalisedHere ==
    ASSUME ClusterInv
    PROVE  Normalised
<1>1. SUFFICES ASSUME pc \in {"low", "expand", "hcsg"}, topo \in Layouts, p >= 4
               PROVE  /\ (topo \in {22, 44} => p % 2 = 0) =>
                            MapThenSumSet(LAMBDA i : comps[i], Machines) = compSum
                      /\ topo \notin {33, 44} =>
                            MapThenSumSet(LAMBDA i : Links(i), Machines) = commSum
                      /\ \A b \in Machines : minComm[b] = 0
  BY DEF Normalised
<1>2. Called /\ Described /\ \A b \in Machines : minComm[b] = 0
  BY <1>1 DEF ClusterInv
<1>3. MapThenSumSet(LAMBDA i : comps[i], Machines) = SumOver(comps, Machines)
  BY DEF SumOver
<1>4. (topo \in {22, 44} => p % 2 = 0) => SumOver(comps, Machines) = compSum
  BY <1>1, <1>2, SpeedsAddUp
<1>5. topo \notin {33, 44} => MapThenSumSet(LAMBDA i : Links(i), Machines) = commSum
  BY <1>1, <1>2, LinksAddUp
<1> QED
  BY <1>2, <1>3, <1>4, <1>5

\* For every number of partitions from 4 on the sums written down for the topologies
\* (cluster.cpp's set_ability) are those of the tables, and min_comm is 0.
THEOREM SumsNormalise == Spec => []Normalised
BY ClusterInvAlways, NormalisedHere, PTL

LEMMA CapacitiesHere ==
    ASSUME ClusterInv
    PROVE  CapacitiesSuffice
<1> DEFINE n == IF pc = "expand" THEN lowEdges ELSE lowEdges + h2hEdges
           m == IF n < VidRange THEN n ELSE n % VidRange
<1>1. SUFFICES ASSUME pc \in {"expand", "hcsg"}, topo \in Layouts, m > 0,
                      topo \in {22, 44} => p > 1
               PROVE  /\ MapThenSumSet(LAMBDA i : capacities[i], Machines) \in m .. m + p
                      /\ \A i, j \in Machines :
                            /\ capacities[i] >= 1
                            /\ comps[i] <= comps[j] /\ Links(i) <= Links(j) =>
                                  capacities[i] >= capacities[j]
  BY DEF CapacitiesSuffice
<1>2. Called /\ Described
  BY <1>1 DEF ClusterInv
<1>3. m \in Nat \ {0} /\ m = n % VidRange
  <2>1. n \in Nat /\ VidRange \in Nat \ {0}
    BY <1>2, CallFacts, ClusterAssumption
  <2> HIDE DEF n
  <2> QED
    BY <1>1, <2>1
<1>4. Shared(m)
  <2>1. m \in {Assigned} \ {0}
    BY <1>3 DEF Assigned
  <2>2. compSum # 0
    BY <1>1, <1>2, TableFacts
  <2> HIDE DEF m, n
  <2> QED
    BY <1>1, <2>1, <2>2 DEF ClusterInv
<1> HIDE DEF m, n
<1> QED
  BY <1>2, <1>3, <1>4, SharesSuffice

\* The capacities of set_delta hold all edges it is called for, when these are fewer than a
\* vid_t counts, and what remains of their number when not; and a machine that is slower with
\* dearer links never gets more: for any costs, any numbers of edges and any number of
\* partitions, but for one partition in topologies 22 and 44.
THEOREM CapacitiesHold == Spec => []CapacitiesSuffice
BY ClusterInvAlways, CapacitiesHere, PTL
=============================================================================
