----------------------------- MODULE FoldProofs -----------------------------
(***************************************************************************)
(* Facts about the sums and products the modules take over a finite set,   *)
(* and the folds from the left they take over a sequence, with the folds   *)
(* of the community modules; and about multiples of a number.              *)
(*                                                                         *)
(* An induction is stated for the set of the values it holds for, so that  *)
(* a proof that cites it has a set to name and no operator.                *)
(***************************************************************************)
EXTENDS Integers, FiniteSets, FiniteSetsExt, FiniteSetTheorems, WellFoundedInduction, TLAPS

-----------------------------------------------------------------------------
(* Induction.                                                              *)

LEMMA InductionOnNat ==
    ASSUME NEW Good, 0 \in Good, \A n \in Nat : n \in Good => n + 1 \in Good
    PROVE  Nat \subseteq Good
<1> DEFINE Bad == Nat \ Good
<1>1. SUFFICES ASSUME Bad # {} PROVE FALSE
  OBVIOUS
<1>2. PICK n \in Bad : \A m \in Bad : <<m, n>> \notin OpToRel(<, Nat)
  BY <1>1, NatLessThanWellFounded, WFMin
<1>3. n # 0 /\ n - 1 \in Nat /\ n - 1 < n /\ n = (n - 1) + 1
  OBVIOUS
<1>4. n - 1 \notin Bad
  BY <1>2, <1>3 DEF OpToRel
<1> QED
  BY <1>3, <1>4

\* What holds of the empty set, and of a subset with one element more, holds of every
\* subset.
LEMMA InductionOnSubsets ==
    ASSUME NEW S, IsFiniteSet(S), NEW Good, {} \in Good,
           \A s \in SUBSET S : s \in Good => \A x \in S \ s : s \cup {x} \in Good
    PROVE  SUBSET S \subseteq Good
<1> DEFINE Sizes == {n \in Nat : \A s \in SUBSET S : Cardinality(s) = n => s \in Good}
<1>1. \A s \in SUBSET S : IsFiniteSet(s) /\ Cardinality(s) \in Nat
  BY FS_Subset, FS_CardinalityType
<1>2. 0 \in Sizes
  BY <1>1, FS_EmptySet
<1>3. ASSUME NEW n \in Nat, n \in Sizes PROVE n + 1 \in Sizes
  <2> SUFFICES ASSUME NEW s \in SUBSET S, Cardinality(s) = n + 1 PROVE s \in Good
    OBVIOUS
  <2>1. PICK x \in s : TRUE
    BY <1>1, FS_EmptySet
  <2>2. Cardinality(s \ {x}) = n
    <3>1. Cardinality(s \ {x}) = Cardinality(s) - 1
      BY <1>1, <2>1, FS_RemoveElement
    <3> QED
      BY <3>1
  <2>3. s \ {x} \in Good /\ s = (s \ {x}) \cup {x} /\ x \in S \ (s \ {x})
    BY <1>3, <2>1, <2>2
  <2> QED
    BY <2>3
<1>4. Nat \subseteq Sizes
  BY ONLY <1>2, <1>3, InductionOnNat
<1> QED
  BY <1>1, <1>4

-----------------------------------------------------------------------------
(* The recursive function inside a fold, for sums and for products.        *)

Pick(s) == CHOOSE x \in s : TRUE
Unit(op) == IF op = "sum" THEN 0 ELSE 1
Combined(op, a, b) == IF op = "sum" THEN a + b ELSE a * b

Folded(op, f, s, rest) ==
    IF s = {} THEN Unit(op) ELSE Combined(op, f[Pick(s)], rest[s \ {Pick(s)}])

\* What can be folded, and the function that does it.
CanFold(f, S) == IsFiniteSet(S) /\ \A x \in S : f[x] \in Int
IsFold(op, f, S, F) == F = [s \in SUBSET S |-> Folded(op, f, s, F)]

LEMMA CanFoldSubset ==
    ASSUME NEW S, NEW f, CanFold(f, S), NEW s \in SUBSET S
    PROVE  CanFold(f, s) /\ Cardinality(s) \in Nat
BY FS_Subset, FS_CardinalityType DEF CanFold

LEMMA CanFoldLess ==
    ASSUME NEW S, NEW f, CanFold(f, S), NEW s \in SUBSET S, NEW x \in s
    PROVE  Cardinality(s \ {x}) = Cardinality(s) - 1
BY CanFoldSubset, FS_RemoveElement DEF CanFold

LEMMA CombinedFacts ==
    ASSUME NEW op
    PROVE  /\ Unit(op) \in Int
           /\ \A a, b \in Int : Combined(op, a, b) \in Int
           /\ \A a, b, c \in Int :
                 Combined(op, a, Combined(op, b, c)) = Combined(op, b, Combined(op, a, c))
<1>1. \A a, b \in Int : a + b \in Int /\ a * b \in Int
  OBVIOUS
<1>2. \A a, b, c \in Int : a + (b + c) = b + (a + c)
  OBVIOUS
<1>3. \A a, b, c \in Int : a * (b * c) = b * (a * c)
  OBVIOUS
<1> QED
  BY <1>1, <1>2, <1>3 DEF Unit, Combined

LEMMA PickFacts ==
    ASSUME NEW S, NEW s \in SUBSET S, s # {}
    PROVE  Pick(s) \in s /\ s \ {Pick(s)} \in SUBSET S /\ s = (s \ {Pick(s)}) \cup {Pick(s)}
BY DEF Pick

\* There is such a function.
LEMMA FoldsExist ==
    ASSUME NEW S, NEW f, CanFold(f, S), NEW op
    PROVE  \E F : IsFold(op, f, S, F)
<1> DEFINE Upto(n) == {s \in SUBSET S : Cardinality(s) <= n}
<1> DEFINE Good == {n \in Nat : \E F \in [SUBSET S -> Int] :
                                   \A s \in Upto(n) : F[s] = Folded(op, f, s, F)}
<1>1. \A s \in SUBSET S : IsFiniteSet(s) /\ Cardinality(s) \in Nat
  BY CanFoldSubset DEF CanFold
<1>2. 0 \in Good
  <2>1. \A s \in Upto(0) : s = {}
    BY <1>1, FS_EmptySet
  <2>2. [s \in SUBSET S |-> Unit(op)] \in [SUBSET S -> Int]
    BY CombinedFacts
  <2> QED
    BY <2>1, <2>2 DEF Folded
<1>3. ASSUME NEW n \in Nat, n \in Good PROVE n + 1 \in Good
  <2>1. PICK F \in [SUBSET S -> Int] : \A s \in Upto(n) : F[s] = Folded(op, f, s, F)
    BY <1>3
  <2>2. \A s \in SUBSET S : Folded(op, f, s, F) \in Int
    BY CombinedFacts, PickFacts DEF Folded, CanFold
  <2>3. PICK G \in [SUBSET S -> Int] : \A s \in SUBSET S : G[s] = Folded(op, f, s, F)
    <3>1. [s \in SUBSET S |-> Folded(op, f, s, F)] \in [SUBSET S -> Int]
      BY <2>2
    <3> QED
      BY ONLY <3>1
  <2>4. ASSUME NEW s \in Upto(n + 1) PROVE G[s] = Folded(op, f, s, G)
    <3>1. CASE s = {}
      BY <2>3, <3>1 DEF Folded
    <3>2. CASE s # {}
      <4>1. Pick(s) \in s /\ s \ {Pick(s)} \in SUBSET S
        BY <3>2, PickFacts
      <4>2. s \ {Pick(s)} \in Upto(n)
        BY <1>1, <4>1, CanFoldLess
      <4>3. G[s \ {Pick(s)}] = F[s \ {Pick(s)}]
        BY <2>1, <2>3, <4>1, <4>2
      <4> QED
        BY <2>3, <3>2, <4>3 DEF Folded
    <3> QED
      BY <3>1, <3>2
  <2> QED
    BY <2>4
<1>4. Nat \subseteq Good
  BY ONLY <1>2, <1>3, InductionOnNat
<1>5. Cardinality(S) \in Good
  BY <1>1, <1>4
<1>6. PICK F \in [SUBSET S -> Int] : \A s \in Upto(Cardinality(S)) : F[s] = Folded(op, f, s, F)
  BY <1>5
<1>7. \A s \in SUBSET S : s \in Upto(Cardinality(S))
  BY <1>1, FS_Subset
<1>8. \A s \in SUBSET S : F[s] = Folded(op, f, s, F)
  BY ONLY <1>6, <1>7
<1> QED
  BY ONLY <1>8, <1>6 DEF IsFold

\* It yields numbers.
LEMMA FoldsType ==
    ASSUME NEW S, NEW f, CanFold(f, S), NEW op, NEW F, IsFold(op, f, S, F)
    PROVE  \A s \in SUBSET S : F[s] \in Int
<1> DEFINE Sizes == {n \in Nat : \A s \in SUBSET S : Cardinality(s) = n => F[s] \in Int}
<1>1. \A s \in SUBSET S : F[s] = Folded(op, f, s, F)
  BY DEF IsFold
<1>2. \A s \in SUBSET S : IsFiniteSet(s) /\ Cardinality(s) \in Nat
  BY CanFoldSubset DEF CanFold
<1>3. 0 \in Sizes
  <2>1. \A s \in SUBSET S : Cardinality(s) = 0 => s = {}
    BY <1>2, FS_EmptySet
  <2> QED
    BY <1>1, <2>1, CombinedFacts DEF Folded
<1>4. ASSUME NEW n \in Nat, n \in Sizes PROVE n + 1 \in Sizes
  <2> SUFFICES ASSUME NEW s \in SUBSET S, Cardinality(s) = n + 1 PROVE F[s] \in Int
    OBVIOUS
  <2>1. s # {}
    BY FS_EmptySet
  <2>2. Pick(s) \in s
    BY <2>1, PickFacts
  <2>3. Cardinality(s \ {Pick(s)}) = n
    BY <2>2, CanFoldLess
  <2>4. F[s \ {Pick(s)}] \in Int /\ f[Pick(s)] \in Int
    BY <1>4, <2>2, <2>3 DEF CanFold
  <2>5. F[s] = Combined(op, f[Pick(s)], F[s \ {Pick(s)}])
    BY <1>1, <2>1 DEF Folded
  <2>6. \A a, b \in Int : Combined(op, a, b) \in Int
    BY CombinedFacts
  <2> QED
    BY ONLY <2>4, <2>5, <2>6
<1>5. Nat \subseteq Sizes
  BY ONLY <1>3, <1>4, InductionOnNat
<1> QED
  BY <1>2, <1>5

\* An element may be taken out in any order.
LEMMA FoldsInsert ==
    ASSUME NEW S, NEW f, CanFold(f, S), NEW op, NEW F, IsFold(op, f, S, F)
    PROVE  /\ F[{}] = Unit(op)
           /\ \A s \in SUBSET S : \A x \in S \ s : F[s \cup {x}] = Combined(op, f[x], F[s])
<1>1. \A s \in SUBSET S : F[s] = Folded(op, f, s, F)
  BY DEF IsFold
<1>2. F[{}] = Unit(op)
  BY <1>1 DEF Folded
<1> DEFINE Good == {s \in SUBSET S : \A x \in S \ s : F[s \cup {x}] = Combined(op, f[x], F[s])}
<1> DEFINE Sizes == {n \in Nat : \A s \in SUBSET S : Cardinality(s) = n => s \in Good}
<1>3. \A s \in SUBSET S : IsFiniteSet(s) /\ Cardinality(s) \in Nat
  BY CanFoldSubset DEF CanFold
<1>4. ASSUME NEW s \in SUBSET S, NEW x \in S \ s,
             \A y \in s : s \ {y} \in Good
      PROVE  F[s \cup {x}] = Combined(op, f[x], F[s])
  <2>1. PICK t \in SUBSET S : t = s \cup {x}
    OBVIOUS
  <2>2. PICK y \in t : y = Pick(t)
    <3>1. t # {}
      BY <2>1
    <3>2. Pick(t) \in t
      BY ONLY <3>1, PickFacts
    <3> QED
      BY ONLY <3>2
  <2>3. F[t] = Combined(op, f[y], F[t \ {y}])
    BY <1>1, <2>1, <2>2 DEF Folded
  <2>4. CASE y = x
    <3>1. t \ {y} = s
      BY <2>1, <2>4
    <3> QED
      BY <2>1, <2>3, <2>4, <3>1
  <2>5. CASE y # x
    <3>1. y \in s /\ t \ {y} = (s \ {y}) \cup {x} /\ s = (s \ {y}) \cup {y}
      BY <2>1, <2>5
    <3>2. F[t \ {y}] = Combined(op, f[x], F[s \ {y}])
      BY <1>4, <3>1
    <3>3. F[s] = Combined(op, f[y], F[s \ {y}])
      BY <1>4, <3>1
    <3>4. f[x] \in Int /\ f[y] \in Int /\ F[s \ {y}] \in Int
      BY <3>1, FoldsType DEF CanFold
    <3> QED
      BY ONLY <2>1, <2>3, <3>2, <3>3, <3>4, CombinedFacts
  <2> QED
    BY <2>4, <2>5
<1>5. 0 \in Sizes
  <2>1. \A s \in SUBSET S : Cardinality(s) = 0 => s = {}
    BY <1>3, FS_EmptySet
  <2> QED
    BY <1>4, <2>1
<1>6. ASSUME NEW n \in Nat, n \in Sizes PROVE n + 1 \in Sizes
  <2> SUFFICES ASSUME NEW s \in SUBSET S, Cardinality(s) = n + 1 PROVE s \in Good
    OBVIOUS
  <2>1. \A y \in s : Cardinality(s \ {y}) = n
    BY CanFoldLess
  <2>2. \A y \in s : s \ {y} \in Good
    BY <1>6, <2>1
  <2> QED
    BY <1>4, <2>2
<1>7. Nat \subseteq Sizes
  BY ONLY <1>5, <1>6, InductionOnNat
<1>8. \A s \in SUBSET S : s \in Good
  BY <1>3, <1>7
<1> QED
  BY <1>2, <1>8

\* Nor does it matter which set the recursion is for.
LEMMA FoldsAgree ==
    ASSUME NEW S, NEW f, CanFold(f, S), NEW op, NEW F, IsFold(op, f, S, F),
           NEW s \in SUBSET S, NEW G, IsFold(op, f, s, G)
    PROVE  G[s] = F[s]
<1> DEFINE Good == {t \in SUBSET s : G[t] = F[t]}
<1>1. CanFold(f, s) /\ IsFiniteSet(s)
  BY CanFoldSubset DEF CanFold
<1>2. /\ F[{}] = Unit(op)
      /\ \A t \in SUBSET S : \A x \in S \ t : F[t \cup {x}] = Combined(op, f[x], F[t])
  BY FoldsInsert
<1>3. /\ G[{}] = Unit(op)
      /\ \A t \in SUBSET s : \A x \in s \ t : G[t \cup {x}] = Combined(op, f[x], G[t])
  BY <1>1, FoldsInsert
<1>4. {} \in Good
  BY <1>2, <1>3
<1>5. ASSUME NEW t \in SUBSET s, t \in Good, NEW x \in s \ t PROVE t \cup {x} \in Good
  <2>1. F[t \cup {x}] = Combined(op, f[x], F[t]) /\ G[t \cup {x}] = Combined(op, f[x], G[t])
    BY <1>2, <1>3
  <2> QED
    BY <1>5, <2>1
<1>6. SUBSET s \subseteq Good
  <2> HIDE DEF Good
  <2> QED
    BY ONLY <1>1, <1>4, <1>5, InductionOnSubsets
<1> QED
  BY <1>6

-----------------------------------------------------------------------------
(* Sums.                                                                   *)

SumOver(f, S) == MapThenSumSet(LAMBDA i : f[i], S)

LEMMA SumIsFold ==
    ASSUME NEW S, NEW f, CanFold(f, S)
    PROVE  \E F : IsFold("sum", f, S, F) /\ SumOver(f, S) = F[S]
<1> DEFINE Rec(it) == [s \in SUBSET S |-> IF s = {} THEN 0
                                          ELSE f[CHOOSE x \in s : TRUE]
                                                 + it[s \ {CHOOSE x \in s : TRUE}]]
<1> DEFINE Iter == CHOOSE it : it = Rec(it)
<1>1. SumOver(f, S) = Iter[S]
  BY DEF SumOver, MapThenSumSet, MapThenFoldSet
<1>2. PICK F : IsFold("sum", f, S, F)
  BY FoldsExist
<1>3. \A it : Rec(it) = [s \in SUBSET S |-> Folded("sum", f, s, it)]
  BY DEF Folded, Unit, Combined, Pick
<1>4. F = Rec(F)
  BY <1>2, <1>3 DEF IsFold
<1>5. Iter = Rec(Iter)
  BY ONLY <1>4
<1>6. IsFold("sum", f, S, Iter)
  BY <1>3, <1>5 DEF IsFold
<1> QED
  BY ONLY <1>1, <1>6

LEMMA SumEmpty == ASSUME NEW f PROVE SumOver(f, {}) = 0
<1>1. CanFold(f, {})
  BY FS_EmptySet DEF CanFold
<1>2. PICK F : IsFold("sum", f, {}, F) /\ SumOver(f, {}) = F[{}]
  BY <1>1, SumIsFold
<1> QED
  BY <1>1, <1>2, FoldsInsert DEF Unit

LEMMA SumInsert ==
    ASSUME NEW S, NEW f, CanFold(f, S), NEW s \in SUBSET S
    PROVE  /\ SumOver(f, s) \in Int
           /\ \A x \in S \ s : SumOver(f, s \cup {x}) = f[x] + SumOver(f, s)
<1>1. PICK F : IsFold("sum", f, S, F)
  BY FoldsExist
<1>2. \A t \in SUBSET S : SumOver(f, t) = F[t]
  <2> TAKE t \in SUBSET S
  <2>1. CanFold(f, t)
    BY CanFoldSubset
  <2>2. PICK G : IsFold("sum", f, t, G) /\ SumOver(f, t) = G[t]
    BY <2>1, SumIsFold
  <2> QED
    BY <1>1, <2>2, FoldsAgree
<1>3. SumOver(f, s) \in Int
  BY <1>1, <1>2, FoldsType
<1>4. \A x \in S \ s : F[s \cup {x}] = Combined("sum", f[x], F[s])
  BY <1>1, FoldsInsert
<1> QED
  BY <1>2, <1>3, <1>4 DEF Combined

\* A greater function has a greater sum; the sum of a multiple is the multiple.
LEMMA SumMonotone ==
    ASSUME NEW S, NEW f, CanFold(f, S), NEW g, CanFold(g, S),
           \A x \in S : f[x] <= g[x]
    PROVE  SumOver(f, S) <= SumOver(g, S)
<1> DEFINE Good == {s \in SUBSET S : SumOver(f, s) <= SumOver(g, s)}
<1>1. {} \in Good
  BY SumEmpty
<1>2. ASSUME NEW s \in SUBSET S, s \in Good, NEW x \in S \ s PROVE s \cup {x} \in Good
  <2>1. /\ SumOver(f, s) \in Int /\ SumOver(g, s) \in Int
        /\ SumOver(f, s \cup {x}) = f[x] + SumOver(f, s)
        /\ SumOver(g, s \cup {x}) = g[x] + SumOver(g, s)
    BY SumInsert
  <2>2. f[x] \in Int /\ g[x] \in Int /\ f[x] <= g[x]
    BY DEF CanFold
  <2>3. SumOver(f, s \cup {x}) <= SumOver(g, s \cup {x})
    BY ONLY <1>2, <2>1, <2>2
  <2> QED
    BY ONLY <2>3
<1>3. SUBSET S \subseteq Good
  <2>1. IsFiniteSet(S)
    BY DEF CanFold
  <2> HIDE DEF Good
  <2> QED
    BY ONLY <1>1, <1>2, <2>1, InductionOnSubsets
<1> QED
  BY <1>3

LEMMA SumScaled ==
    ASSUME NEW S, NEW f, CanFold(f, S), NEW g, CanFold(g, S), NEW k \in Int,
           \A x \in S : g[x] = k * f[x]
    PROVE  SumOver(g, S) = k * SumOver(f, S)
<1> DEFINE Good == {s \in SUBSET S : SumOver(g, s) = k * SumOver(f, s)}
<1>1. {} \in Good
  BY SumEmpty
<1>2. ASSUME NEW s \in SUBSET S, s \in Good, NEW x \in S \ s PROVE s \cup {x} \in Good
  <2>1. /\ SumOver(f, s) \in Int /\ SumOver(g, s) \in Int
        /\ SumOver(f, s \cup {x}) = f[x] + SumOver(f, s)
        /\ SumOver(g, s \cup {x}) = g[x] + SumOver(g, s)
    BY SumInsert
  <2>2. f[x] \in Int /\ g[x] = k * f[x]
    BY DEF CanFold
  <2>3. \A a, b \in Int : k * a + k * b = k * (a + b)
    OBVIOUS
  <2>4. SumOver(g, s) = k * SumOver(f, s)
    BY <1>2
  <2>5. SumOver(g, s \cup {x}) = k * SumOver(f, s \cup {x})
    BY ONLY <2>1, <2>2, <2>3, <2>4
  <2> QED
    BY ONLY <2>5
<1>3. SUBSET S \subseteq Good
  <2>1. IsFiniteSet(S)
    BY DEF CanFold
  <2> HIDE DEF Good
  <2> QED
    BY ONLY <1>1, <1>2, <2>1, InductionOnSubsets
<1> QED
  BY <1>3

LEMMA SumSame ==
    ASSUME NEW S, NEW f, CanFold(f, S), NEW g, \A x \in S : f[x] = g[x]
    PROVE  SumOver(f, S) = SumOver(g, S)
<1>1. CanFold(g, S) /\ \A x \in S : f[x] <= g[x] /\ g[x] <= f[x]
  BY DEF CanFold
<1>2. SumOver(f, S) <= SumOver(g, S) /\ SumOver(g, S) <= SumOver(f, S)
  BY <1>1, SumMonotone
<1>3. SumOver(f, S) \in Int /\ SumOver(g, S) \in Int
  BY <1>1, SumInsert
<1> QED
  BY ONLY <1>2, <1>3

LEMMA SumSplit ==
    ASSUME NEW S, NEW f, CanFold(f, S), NEW x \in S
    PROVE  /\ SumOver(f, S) = f[x] + SumOver(f, S \ {x})
           /\ SumOver(f, S \ {x}) \in Int /\ SumOver(f, S) \in Int
<1>1. S = (S \ {x}) \cup {x} /\ S \ {x} \in SUBSET S /\ x \in S \ (S \ {x})
  OBVIOUS
<1> QED
  BY <1>1, SumInsert

LEMMA SumUpdated ==
    ASSUME NEW S, NEW f, CanFold(f, S), NEW g, NEW x \in S, NEW d \in Int,
           g[x] = f[x] + d, \A y \in S \ {x} : g[y] = f[y]
    PROVE  SumOver(g, S) = SumOver(f, S) + d
<1>1. CanFold(g, S)
  BY DEF CanFold
<1>2. CanFold(f, S \ {x})
  BY CanFoldSubset
<1>3. SumOver(f, S \ {x}) = SumOver(g, S \ {x})
  BY <1>2, SumSame
<1>4. /\ SumOver(f, S) = f[x] + SumOver(f, S \ {x})
      /\ SumOver(g, S) = g[x] + SumOver(g, S \ {x})
      /\ SumOver(f, S \ {x}) \in Int
  BY <1>1, SumSplit
<1>5. f[x] \in Int
  BY DEF CanFold
<1> QED
  BY <1>3, <1>4, <1>5

\* A sum of natural numbers is one, and no less than any of them.
LEMMA SumNatural ==
    ASSUME NEW S, IsFiniteSet(S), NEW f, \A x \in S : f[x] \in Nat
    PROVE  /\ SumOver(f, S) \in Nat
           /\ \A x \in S : f[x] <= SumOver(f, S)
<1> DEFINE Good == {s \in SUBSET S : SumOver(f, s) \in Nat}
<1>1. CanFold(f, S)
  BY DEF CanFold
<1>2. {} \in Good
  BY SumEmpty
<1>3. ASSUME NEW s \in SUBSET S, s \in Good, NEW x \in S \ s PROVE s \cup {x} \in Good
  BY <1>1, <1>3, SumInsert
<1>4. SUBSET S \subseteq Good
  <2> HIDE DEF Good
  <2> QED
    BY ONLY <1>1, <1>2, <1>3, InductionOnSubsets DEF CanFold
<1>5. SumOver(f, S) \in Nat /\ \A x \in S : SumOver(f, S \ {x}) \in Nat
  BY <1>4
<1>6. ASSUME NEW x \in S PROVE f[x] <= SumOver(f, S)
  <2>1. SumOver(f, S) = f[x] + SumOver(f, S \ {x}) /\ SumOver(f, S \ {x}) \in Nat
    BY <1>1, <1>5, SumSplit
  <2>2. f[x] \in Nat
    OBVIOUS
  <2> QED
    BY ONLY <2>1, <2>2
<1> QED
  BY <1>5, <1>6

\* The sum of a function of two values.
LEMMA SumTwoValued ==
    ASSUME NEW S, IsFiniteSet(S), NEW A \in SUBSET S, NEW x \in Int, NEW y \in Int,
           NEW f, \A i \in S : f[i] = IF i \in A THEN x ELSE y
    PROVE  SumOver(f, S) = y * Cardinality(S) + (x - y) * Cardinality(A)
<1> DEFINE Good == {s \in SUBSET S :
                      SumOver(f, s) = y * Cardinality(s) + (x - y) * Cardinality(A \cap s)}
<1>1. CanFold(f, S)
  BY DEF CanFold
<1>2. {} \in Good
  <2>1. A \cap {} = {} /\ Cardinality({}) = 0
    BY FS_EmptySet
  <2>2. SumOver(f, {}) = 0
    BY SumEmpty
  <2> QED
    BY <2>1, <2>2
<1>3. ASSUME NEW s \in SUBSET S, s \in Good, NEW z \in S \ s PROVE s \cup {z} \in Good
  <2>1. SumOver(f, s \cup {z}) = f[z] + SumOver(f, s)
    BY <1>1, SumInsert
  <2>2. IsFiniteSet(s) /\ IsFiniteSet(A \cap s)
    BY FS_Subset
  <2>3. /\ Cardinality(s \cup {z}) = Cardinality(s) + 1
        /\ Cardinality(s) \in Nat /\ Cardinality(A \cap s) \in Nat
    BY <2>2, FS_AddElement, FS_CardinalityType
  <2>4. CASE z \in A
    <3>1. A \cap (s \cup {z}) = (A \cap s) \cup {z} /\ z \notin A \cap s
      BY <2>4
    <3>2. Cardinality(A \cap (s \cup {z})) = Cardinality(A \cap s) + 1
      BY <2>2, <2>3, <3>1, FS_AddElement
    <3>3. f[z] = x
      BY <2>4
    <3>4. SumOver(f, s) = y * Cardinality(s) + (x - y) * Cardinality(A \cap s)
      BY <1>3
    <3>5. ASSUME NEW a \in Nat, NEW b \in Nat
          PROVE  x + (y * a + (x - y) * b) = y * (a + 1) + (x - y) * (b + 1)
      OBVIOUS
    <3>6. SumOver(f, s \cup {z})
             = y * Cardinality(s \cup {z}) + (x - y) * Cardinality(A \cap (s \cup {z}))
      BY ONLY <2>1, <2>3, <3>2, <3>3, <3>4, <3>5
    <3> QED
      BY <3>6
  <2>5. CASE z \notin A
    <3>1. A \cap (s \cup {z}) = A \cap s
      BY <2>5
    <3>3. f[z] = y
      BY <2>5
    <3>4. SumOver(f, s) = y * Cardinality(s) + (x - y) * Cardinality(A \cap s)
      BY <1>3
    <3>5. ASSUME NEW a \in Nat, NEW b \in Nat
          PROVE  y + (y * a + (x - y) * b) = y * (a + 1) + (x - y) * b
      OBVIOUS
    <3>6. SumOver(f, s \cup {z})
             = y * Cardinality(s \cup {z}) + (x - y) * Cardinality(A \cap (s \cup {z}))
      BY ONLY <2>1, <2>3, <3>1, <3>3, <3>4, <3>5
    <3> QED
      BY <3>6
  <2> QED
    BY <2>4, <2>5
<1>4. S \in Good
  <2> HIDE DEF Good
  <2> QED
    BY ONLY <1>2, <1>3, IsFiniteSet(S), InductionOnSubsets
<1>5. A \cap S = A
  OBVIOUS
<1> QED
  BY <1>4, <1>5

LEMMA SumShifted ==
    ASSUME NEW S, NEW f, CanFold(f, S), NEW g, NEW k \in Int, \A x \in S : g[x] = f[x] + k
    PROVE  SumOver(g, S) = SumOver(f, S) + k * Cardinality(S)
<1> DEFINE Good == {s \in SUBSET S : SumOver(g, s) = SumOver(f, s) + k * Cardinality(s)}
<1>1. CanFold(g, S)
  BY DEF CanFold
<1>2. {} \in Good
  <2>1. Cardinality({}) = 0 /\ SumOver(f, {}) = 0 /\ SumOver(g, {}) = 0
    BY FS_EmptySet, SumEmpty
  <2> QED
    BY <2>1
<1>3. ASSUME NEW s \in SUBSET S, s \in Good, NEW z \in S \ s PROVE s \cup {z} \in Good
  <2>1. /\ SumOver(f, s \cup {z}) = f[z] + SumOver(f, s) /\ SumOver(f, s) \in Int
        /\ SumOver(g, s \cup {z}) = g[z] + SumOver(g, s)
    BY <1>1, SumInsert
  <2>2. Cardinality(s \cup {z}) = Cardinality(s) + 1 /\ Cardinality(s) \in Nat
    BY CanFoldSubset, FS_AddElement DEF CanFold
  <2>3. g[z] = f[z] + k /\ f[z] \in Int
    BY DEF CanFold
  <2>4. SumOver(g, s) = SumOver(f, s) + k * Cardinality(s)
    BY <1>3
  <2>5. \A a, b, c \in Int : a + k + (b + k * c) = a + b + k * (c + 1)
    OBVIOUS
  <2>6. SumOver(g, s \cup {z}) = SumOver(f, s \cup {z}) + k * Cardinality(s \cup {z})
    BY ONLY <2>1, <2>2, <2>3, <2>4, <2>5
  <2> QED
    BY <2>6
<1>4. S \in Good
  <2>1. IsFiniteSet(S)
    BY DEF CanFold
  <2> HIDE DEF Good
  <2> QED
    BY ONLY <1>2, <1>3, <2>1, InductionOnSubsets
<1> QED
  BY <1>4

\* A sum may be taken value by value.
LEMMA SumByValue ==
    ASSUME NEW S, IsFiniteSet(S), NEW V, IsFiniteSet(V), NEW h, \A i \in S : h[i] \in V,
           NEW g, \A v \in V : g[v] \in Int
    PROVE  SumOver([i \in S |-> g[h[i]]], S)
              = SumOver([v \in V |-> Cardinality({i \in S : h[i] = v}) * g[v]], V)
<1> DEFINE f == [i \in S |-> g[h[i]]]
           having(s, v) == {i \in s : h[i] = v}
           times(s) == [v \in V |-> Cardinality(having(s, v)) * g[v]]
           Good == {s \in SUBSET S : SumOver(f, s) = SumOver(times(s), V)}
<1>1. CanFold(f, S)
  BY DEF CanFold
<1>2. ASSUME NEW s \in SUBSET S
      PROVE  /\ CanFold(times(s), V)
             /\ \A v \in V : IsFiniteSet(having(s, v)) /\ Cardinality(having(s, v)) \in Nat
  <2>1. ASSUME NEW v \in V
        PROVE  IsFiniteSet(having(s, v)) /\ Cardinality(having(s, v)) \in Nat
    <3>1. having(s, v) \in SUBSET S
      OBVIOUS
    <3> HIDE DEF having
    <3> QED
      BY <3>1, FS_Subset, FS_CardinalityType
  <2>2. \A v \in V : Cardinality(having(s, v)) * g[v] \in Int
    <3> HIDE DEF having
    <3> QED
      BY <2>1
  <2> HIDE DEF having
  <2> QED
    BY <2>1, <2>2 DEF CanFold
<1>3. {} \in Good
  <2>1. \A v \in V : having({}, v) = {}
    OBVIOUS
  <2>2. \A v \in V : times({})[v] = IF v \in {} THEN 0 ELSE 0
    <3>1. \A x \in Int : 0 * x = 0
      OBVIOUS
    <3> HIDE DEF having
    <3> QED
      BY <2>1, <3>1, FS_EmptySet
  <2>3. SumOver(times({}), V) = 0 * Cardinality(V) + (0 - 0) * Cardinality({})
    <3>1. PICK zero, none : zero = times({}) /\ none = {}
      OBVIOUS
    <3>2. (\A v \in V : zero[v] = IF v \in none THEN 0 ELSE 0) /\ none \in SUBSET V /\ 0 \in Int
      <4> HIDE DEF times
      <4> QED
        BY <2>2, <3>1
    <3>3. SumOver(zero, V) = 0 * Cardinality(V) + (0 - 0) * Cardinality(none)
      BY ONLY <3>2, IsFiniteSet(V), SumTwoValued
    <3> HIDE DEF times
    <3> QED
      BY <3>1, <3>3
  <2>4. Cardinality(V) \in Nat /\ Cardinality({}) = 0
    BY FS_CardinalityType, FS_EmptySet
  <2>5. SumOver(times({}), V) = 0
    BY ONLY <2>3, <2>4
  <2>6. SumOver(f, {}) = 0
    BY SumEmpty
  <2> HIDE DEF times, f
  <2> QED
    BY <2>5, <2>6
<1>4. ASSUME NEW s \in SUBSET S, s \in Good, NEW z \in S \ s PROVE s \cup {z} \in Good
  <2>1. SumOver(f, s \cup {z}) = f[z] + SumOver(f, s) /\ SumOver(f, s) \in Int
    <3> HIDE DEF f
    <3> QED
      BY <1>1, SumInsert
  <2>2. f[z] = g[h[z]] /\ h[z] \in V /\ g[h[z]] \in Int
    OBVIOUS
  <2>3. times(s \cup {z})[h[z]] = times(s)[h[z]] + g[h[z]]
    <3>1. having(s \cup {z}, h[z]) = having(s, h[z]) \cup {z} /\ z \notin having(s, h[z])
      OBVIOUS
    <3>2. IsFiniteSet(having(s, h[z])) /\ Cardinality(having(s, h[z])) \in Nat
      <4> HIDE DEF having
      <4> QED
        BY <1>2, <2>2
    <3>3. Cardinality(having(s \cup {z}, h[z])) = Cardinality(having(s, h[z])) + 1
      <4> HIDE DEF having
      <4> QED
        BY ONLY <3>1, <3>2, FS_AddElement
    <3>4. \A c \in Nat, x \in Int : (c + 1) * x = c * x + x
      OBVIOUS
    <3> HIDE DEF having
    <3> QED
      BY <2>2, <3>2, <3>3, <3>4
  <2>4. \A v \in V \ {h[z]} : times(s \cup {z})[v] = times(s)[v]
    <3>1. \A v \in V \ {h[z]} : having(s \cup {z}, v) = having(s, v)
      OBVIOUS
    <3> HIDE DEF having
    <3> QED
      BY <3>1
  <2>5. CanFold(times(s), V)
    <3> HIDE DEF times
    <3> QED
      BY <1>2
  <2>6. SumOver(times(s \cup {z}), V) = SumOver(times(s), V) + g[h[z]]
    <3> HIDE DEF times
    <3>1. PICK f1, g1, x, d : f1 = times(s) /\ g1 = times(s \cup {z}) /\ x = h[z] /\ d = g[h[z]]
      OBVIOUS
    <3>2. /\ CanFold(f1, V) /\ x \in V /\ d \in Int
          /\ g1[x] = f1[x] + d /\ \A v \in V \ {x} : g1[v] = f1[v]
      BY ONLY <2>2, <2>3, <2>4, <2>5, <3>1
    <3>3. SumOver(g1, V) = SumOver(f1, V) + d
      BY ONLY <3>2, SumUpdated
    <3> QED
      BY ONLY <3>1, <3>3
  <2> HIDE DEF times, f
  <2>7. SumOver(f, s) = SumOver(times(s), V)
    BY <1>4
  <2>8. SumOver(f, s \cup {z}) = SumOver(times(s \cup {z}), V)
    BY ONLY <2>1, <2>2, <2>6, <2>7
  <2> QED
    BY <2>8
<1>5. S \in Good
  <2> HIDE DEF Good
  <2> QED
    BY ONLY <1>3, <1>4, IsFiniteSet(S), InductionOnSubsets
<1> QED
  BY <1>5

-----------------------------------------------------------------------------
(* Products.                                                               *)

ProductOver(f, S) == FoldSet(LAMBDA j, r : f[j] * r, 1, S)

LEMMA ProductIsFold ==
    ASSUME NEW S, NEW f, CanFold(f, S)
    PROVE  \E F : IsFold("product", f, S, F) /\ ProductOver(f, S) = F[S]
<1> DEFINE Rec(it) == [s \in SUBSET S |-> IF s = {} THEN 1
                                          ELSE f[CHOOSE x \in s : TRUE]
                                                 * it[s \ {CHOOSE x \in s : TRUE}]]
<1> DEFINE Iter == CHOOSE it : it = Rec(it)
<1>1. ProductOver(f, S) = Iter[S]
  BY DEF ProductOver, FoldSet, MapThenFoldSet
<1>2. PICK F : IsFold("product", f, S, F)
  BY FoldsExist
<1>3. \A it : Rec(it) = [s \in SUBSET S |-> Folded("product", f, s, it)]
  BY DEF Folded, Unit, Combined, Pick
<1>4. F = Rec(F)
  BY <1>2, <1>3 DEF IsFold
<1>5. Iter = Rec(Iter)
  BY ONLY <1>4
<1>6. IsFold("product", f, S, Iter)
  BY <1>3, <1>5 DEF IsFold
<1> QED
  BY ONLY <1>1, <1>6

\* A product of positive numbers is one, and has each of them for a factor.
LEMMA ProductSplit ==
    ASSUME NEW S, IsFiniteSet(S), NEW f, \A x \in S : f[x] \in Nat \ {0}
    PROVE  /\ ProductOver(f, S) \in Nat \ {0}
           /\ \A x \in S : /\ ProductOver(f, S \ {x}) \in Nat \ {0}
                           /\ ProductOver(f, S) = f[x] * ProductOver(f, S \ {x})
<1>1. CanFold(f, S)
  BY DEF CanFold
<1>2. PICK F : IsFold("product", f, S, F)
  BY <1>1, FoldsExist
<1>3. \A s \in SUBSET S : ProductOver(f, s) = F[s]
  <2> TAKE s \in SUBSET S
  <2>1. CanFold(f, s)
    BY <1>1, CanFoldSubset
  <2>2. PICK G : IsFold("product", f, s, G) /\ ProductOver(f, s) = G[s]
    BY <2>1, ProductIsFold
  <2> QED
    BY <1>1, <1>2, <2>2, FoldsAgree
<1>4. F[{}] = 1 /\ \A s \in SUBSET S : \A x \in S \ s : F[s \cup {x}] = f[x] * F[s]
  <2>1. /\ F[{}] = Unit("product")
        /\ \A s \in SUBSET S : \A x \in S \ s : F[s \cup {x}] = Combined("product", f[x], F[s])
    BY <1>1, <1>2, FoldsInsert
  <2> QED
    BY <2>1 DEF Unit, Combined
<1> DEFINE Good == {s \in SUBSET S : F[s] \in Nat \ {0}}
<1>5. {} \in Good
  BY <1>4
<1>6. ASSUME NEW s \in SUBSET S, s \in Good, NEW x \in S \ s PROVE s \cup {x} \in Good
  <2>1. \A a, b \in Nat \ {0} : a * b \in Nat \ {0}
    OBVIOUS
  <2> QED
    BY <1>4, <1>6, <2>1
<1>7. SUBSET S \subseteq Good
  <2> HIDE DEF Good
  <2> QED
    BY ONLY <1>1, <1>5, <1>6, InductionOnSubsets DEF CanFold
<1>8. \A x \in S : F[S] = f[x] * F[S \ {x}]
  <2> TAKE x \in S
  <2>1. S = (S \ {x}) \cup {x} /\ S \ {x} \in SUBSET S /\ x \in S \ (S \ {x})
    OBVIOUS
  <2> QED
    BY <1>4, <2>1
<1> QED
  BY <1>3, <1>7, <1>8

-----------------------------------------------------------------------------
(* Folds from the left, over positions 1 .. n.                             *)

LEMMA MaxFacts ==
    ASSUME NEW n \in Nat, NEW S \in SUBSET (1 .. n), S # {}
    PROVE  Max(S) \in S /\ \A y \in S : y <= Max(S)
<1> DEFINE Greatest(R) == \E x \in R : \A y \in R : x >= y
<1> DEFINE Good == {k \in Nat : \A R \in SUBSET (1 .. k) : R # {} => Greatest(R)}
<1>1. 0 \in Good
  <2>1. 1 .. 0 = {}
    OBVIOUS
  <2> QED
    BY <2>1
<1>2. ASSUME NEW k \in Nat, k \in Good PROVE k + 1 \in Good
  <2>1. ASSUME NEW R \in SUBSET (1 .. k + 1), R # {} PROVE Greatest(R)
    <3>1. CASE k + 1 \in R
      BY <3>1
    <3>2. CASE k + 1 \notin R
      <4>1. R \in SUBSET (1 .. k)
        BY <3>2
      <4> QED
        BY <1>2, <2>1, <4>1
    <3> QED
      BY <3>1, <3>2
  <2>2. k + 1 \in Nat
    OBVIOUS
  <2> HIDE DEF Greatest
  <2> QED
    BY <2>1, <2>2
<1>3. n \in Good
  <2> HIDE DEF Good
  <2> QED
    BY ONLY <1>1, <1>2, n \in Nat, InductionOnNat
<1>4. \E x \in S : \A y \in S : x >= y
  BY <1>3
<1>5. Max(S) \in S /\ \A y \in S : Max(S) >= y
  BY <1>4 DEF Max
<1> QED
  BY <1>5

LEMMA PrefixFacts ==
    ASSUME NEW n \in Nat, NEW k \in 1 .. n
    PROVE  /\ 1 .. k \in SUBSET (1 .. n) /\ 1 .. k # {} /\ Max(1 .. k) = k
           /\ (1 .. k) \ {k} = 1 .. k - 1
<1>1. 1 .. k \in SUBSET (1 .. n) /\ 1 .. k # {} /\ k \in 1 .. k
  OBVIOUS
<1>2. Max(1 .. k) \in 1 .. k /\ k <= Max(1 .. k)
  BY <1>1, MaxFacts
<1> QED
  BY <1>1, <1>2

\* A fold from the left over positions 1 .. n exists, step being the function it folds
\* with.
LeftFoldable(n, V, base, step) ==
    n \in Nat /\ base \in V /\ step \in [V \X (1 .. n) -> V]
IsLeftFold(n, V, base, step, F) ==
    /\ F \in [SUBSET (1 .. n) -> V]
    /\ F = [S \in SUBSET (1 .. n) |->
               IF S = {} THEN base ELSE step[<<F[S \ {Max(S)}], Max(S)>>]]

LEMMA LeftFoldsExist ==
    ASSUME NEW n, NEW V, NEW base, NEW step, LeftFoldable(n, V, base, step)
    PROVE  \E F : IsLeftFold(n, V, base, step, F)
<1> n \in Nat /\ base \in V /\ step \in [V \X (1 .. n) -> V]
  BY DEF LeftFoldable
<1> DEFINE Subsets(k) == SUBSET (1 .. k)
<1> DEFINE Summed(F, S) ==
      F[S] = IF S = {} THEN base ELSE step[<<F[S \ {Max(S)}], Max(S)>>]
<1> DEFINE Exists(k) ==
      \E F \in [Subsets(n) -> V] : \A S \in Subsets(k) : Summed(F, S)
<1> DEFINE Good == {k \in Nat : k <= n => Exists(k)}
<1>1. 0 \in Good
  <2>1. [S \in Subsets(n) |-> base] \in [Subsets(n) -> V]
    OBVIOUS
  <2>2. \A S \in Subsets(0) : S = {} /\ S \in Subsets(n)
    <3>1. 1 .. 0 = {}
      OBVIOUS
    <3> QED
      BY <3>1
  <2>3. \A S \in Subsets(0) : Summed([R \in Subsets(n) |-> base], S)
    BY <2>2
  <2>4. Exists(0)
    <3> HIDE DEF Summed
    <3> QED
      BY ONLY <2>1, <2>3
  <2> QED
    BY <2>4
<1>2. ASSUME NEW k \in Nat, k \in Good PROVE k + 1 \in Good
  <2>1. ASSUME k + 1 <= n PROVE Exists(k + 1)
    <3>1. Exists(k)
      <4>1. k <= n
        BY ONLY k \in Nat, n \in Nat, <2>1
      <4> HIDE DEF Exists
      <4> QED
        BY ONLY <1>2, <4>1
    <3>2. PICK F \in [Subsets(n) -> V] : \A S \in Subsets(k) : Summed(F, S)
      BY ONLY <3>1
    <3> DEFINE G == [S \in Subsets(n) |->
                        IF k + 1 \in S THEN step[<<F[S \ {k + 1}], k + 1>>] ELSE F[S]]
    <3>3. G \in [Subsets(n) -> V]
      <4>1. ASSUME NEW S \in Subsets(n), k + 1 \in S
            PROVE  step[<<F[S \ {k + 1}], k + 1>>] \in V
        BY <4>1
      <4> QED
        BY <4>1
    <3>4. ASSUME NEW S \in Subsets(k + 1) PROVE Summed(G, S)
      <4>1. S \in Subsets(n) /\ S \ {k + 1} \in Subsets(n) /\ k + 1 \in Nat
        BY ONLY n \in Nat, k \in Nat, <2>1, S \in Subsets(k + 1)
      <4>2. CASE k + 1 \in S
        <5>1. Max(S) \in S /\ k + 1 <= Max(S)
          BY ONLY <4>1, <4>2, n \in Nat, MaxFacts
        <5>2. Max(S) \in 1 .. k + 1
          BY ONLY <5>1, S \in Subsets(k + 1)
        <5>3. Max(S) = k + 1
          BY ONLY k \in Nat, <5>1, <5>2
        <5>4. G[S] = step[<<F[S \ {k + 1}], k + 1>>] /\ G[S \ {k + 1}] = F[S \ {k + 1}]
          BY <4>1, <4>2
        <5> QED
          BY <4>2, <5>3, <5>4
      <4>3. CASE k + 1 \notin S
        <5>1. S \in Subsets(k)
          BY ONLY k \in Nat, <4>3, S \in Subsets(k + 1)
        <5>2. G[S] = F[S] /\ G[S \ {Max(S)}] = F[S \ {Max(S)}]
          BY <4>1, <4>3
        <5> QED
          BY <3>2, <5>1, <5>2
      <4> QED
        BY <4>2, <4>3
    <3> HIDE DEF G, Summed
    <3> QED
      BY ONLY <3>3, <3>4
  <2>2. k + 1 \in Nat
    OBVIOUS
  <2> HIDE DEF Exists
  <2> QED
    BY ONLY <2>1, <2>2
<1>3. n \in Good
  <2> HIDE DEF Good
  <2> QED
    BY ONLY <1>1, <1>2, n \in Nat, InductionOnNat
<1>4. Exists(n)
  <2> HIDE DEF Exists
  <2> QED
    BY ONLY <1>3, n \in Nat
<1>5. PICK F \in [Subsets(n) -> V] : \A S \in Subsets(n) : Summed(F, S)
  BY ONLY <1>4
<1>6. IsLeftFold(n, V, base, step, F)
  BY <1>5 DEF IsLeftFold
<1> QED
  BY <1>6


LEMMA LeftFoldSteps ==
    ASSUME NEW n, NEW V, NEW base, NEW step, n \in Nat, NEW F, IsLeftFold(n, V, base, step, F)
    PROVE  F[1 .. 0] = base /\ \A k \in 1 .. n : F[1 .. k] = step[<<F[1 .. k - 1], k>>]
<1>1. \A S \in SUBSET (1 .. n) :
         F[S] = IF S = {} THEN base ELSE step[<<F[S \ {Max(S)}], Max(S)>>]
  BY DEF IsLeftFold
<1>2. F[1 .. 0] = base
  <2>1. 1 .. 0 = {}
    OBVIOUS
  <2> QED
    BY ONLY <1>1, <2>1
<1>3. ASSUME NEW k \in 1 .. n PROVE F[1 .. k] = step[<<F[1 .. k - 1], k>>]
  <2>1. /\ 1 .. k \in SUBSET (1 .. n) /\ 1 .. k # {} /\ Max(1 .. k) = k
        /\ (1 .. k) \ {k} = 1 .. k - 1
    BY ONLY n \in Nat, k \in 1 .. n, PrefixFacts
  <2> QED
    BY ONLY <1>1, <2>1
<1> QED
  BY <1>2, <1>3

-----------------------------------------------------------------------------
(* Whole rounds: numbers that are a multiple of another.                   *)

Whole(d, n) == \E z \in Int : d = n * z

LEMMA PowerDoubles ==
    ASSUME NEW k \in Nat
    PROVE  2^k \in Nat /\ 2^(k + 1) = 2 * 2^k
<1> DEFINE S == SUBSET (1 .. k)
           T == SUBSET (1 .. k + 1)
           U == T \ S
           f == [s \in S |-> s \cup {k + 1}]
<1>1. /\ IsFiniteSet(S) /\ Cardinality(S) = 2^k
      /\ IsFiniteSet(T) /\ Cardinality(T) = 2^(k + 1)
  <2>1. /\ IsFiniteSet(1 .. k) /\ Cardinality(1 .. k) = k
        /\ IsFiniteSet(1 .. k + 1) /\ Cardinality(1 .. k + 1) = k + 1
    BY FS_Interval
  <2> QED
    BY <2>1, FS_SUBSET
<1>2. Cardinality(S) \in Nat
  BY <1>1, FS_CardinalityType
<1>3. f \in Bijection(S, U)
  <2>1. f \in [S -> U]
    OBVIOUS
  <2>2. \A s, t \in S : f[s] = f[t] => s = t
    <3>1. \A s \in S : k + 1 \notin s
      OBVIOUS
    <3> QED
      BY <3>1
  <2>3. \A u \in U : \E s \in S : f[s] = u
    <3> SUFFICES ASSUME NEW u \in U PROVE \E s \in S : f[s] = u
      OBVIOUS
    <3>1. k + 1 \in u /\ u \subseteq 1 .. k + 1
      OBVIOUS
    <3>2. u \ {k + 1} \in S
      BY <3>1
    <3>3. f[u \ {k + 1}] = u
      BY <3>1, <3>2
    <3> QED
      BY <3>2, <3>3
  <2> HIDE DEF S, U, f
  <2> QED
    BY ONLY <2>1, <2>2, <2>3 DEF Bijection, Injection, Surjection, IsInjective
<1>4. Cardinality(U) = Cardinality(S) /\ IsFiniteSet(U)
  BY <1>1, <1>3, FS_Bijection DEF ExistsBijection
<1>5. S \cup U = T /\ S \cap U = {}
  OBVIOUS
<1> HIDE DEF S, T, U
<1>6. Cardinality(T) = Cardinality(S) + Cardinality(U) - 0
  <2>1. Cardinality({}) = 0
    BY FS_EmptySet
  <2>2. Cardinality(S \cup U) = Cardinality(S) + Cardinality(U) - Cardinality(S \cap U)
    BY ONLY <1>1, <1>4, FS_Union
  <2> QED
    BY ONLY <1>5, <2>1, <2>2
<1> QED
  BY <1>1, <1>2, <1>4, <1>6

LEMMA WholeFacts ==
    ASSUME NEW n \in Nat
    PROVE  /\ Whole(0, n) /\ Whole(n, n)
           /\ \A d, e \in Int : Whole(d, n) /\ Whole(e, n) => Whole(d + e, n) /\ Whole(d - e, n)
<1>1. n * 0 = 0 /\ n * 1 = n
  OBVIOUS
<1>2. Whole(0, n) /\ Whole(n, n)
  BY <1>1 DEF Whole
<1>3. ASSUME NEW d \in Int, NEW e \in Int, Whole(d, n), Whole(e, n)
      PROVE  Whole(d + e, n) /\ Whole(d - e, n)
  <2>1. PICK y \in Int, z \in Int : d = n * y /\ e = n * z
    BY <1>3 DEF Whole
  <2>2. d + e = n * (y + z) /\ d - e = n * (y - z) /\ y + z \in Int /\ y - z \in Int
    BY <2>1
  <2> QED
    BY <2>2 DEF Whole
<1> QED
  BY <1>2, <1>3

\* The sum and the difference of whole rounds, in the form proofs use them.
LEMMA WholeSum ==
    ASSUME NEW n \in Nat, NEW d \in Int, NEW e \in Int, NEW f \in Int,
           Whole(d, n), Whole(e, n), f = d + e \/ f = d - e
    PROVE  Whole(f, n)
<1>1. Whole(d + e, n) /\ Whole(d - e, n)
  BY WholeFacts
<1> QED
  BY <1>1

LEMMA WholeNear ==
    ASSUME NEW n \in Nat, NEW d \in Int, Whole(d, n), -n < d, d < n
    PROVE  d = 0
<1>1. PICK z \in Int : d = n * z
  BY DEF Whole
<1>2. z >= 1 => n * z >= n
  <2>1. z >= 1 => n * (z - 1) >= 0
    OBVIOUS
  <2>2. n * (z - 1) = n * z - n
    OBVIOUS
  <2> QED
    BY <2>1, <2>2
<1>3. z <= -1 => n * z <= -n
  <2>1. z <= -1 => n * (-z - 1) >= 0
    OBVIOUS
  <2>2. n * (-z - 1) = -(n * z) - n /\ n * z \in Int
    OBVIOUS
  <2> QED
    BY <2>1, <2>2
<1>4. n * 0 = 0
  OBVIOUS
<1> QED
  BY <1>1, <1>2, <1>3, <1>4

LEMMA WholeMod ==
    ASSUME NEW n \in Nat, n >= 1, NEW x \in Int
    PROVE  /\ x % n \in 0 .. n - 1
           /\ Whole((x % n) - x, n)
<1>1. x % n \in 0 .. n - 1 /\ x = n * (x \div n) + (x % n) /\ x \div n \in Int
  OBVIOUS
<1>2. PICK q, r : q = x \div n /\ r = x % n
  OBVIOUS
<1>3. q \in Int /\ r \in 0 .. n - 1 /\ x = n * q + r
  BY <1>1, <1>2
<1>4. r - x = n * (-q) /\ -q \in Int
  BY <1>3
<1>5. Whole(r - x, n)
  BY <1>4 DEF Whole
<1> QED
  BY <1>2, <1>3, <1>5

LEMMA WholeThrough ==
    ASSUME NEW n \in Nat, NEW k \in Nat, NEW d \in Int, Whole(d, n), Whole(n, k)
    PROVE  Whole(d, k)
<1>1. PICK y \in Int, z \in Int : d = n * y /\ n = k * z
  BY DEF Whole
<1>2. d = k * (z * y) /\ z * y \in Int
  BY <1>1
<1> QED
  BY <1>2 DEF Whole

\* To count on from a place t, round by round, goes through every place of a round once.
Turns(L, n, t) ==
    \A s \in 0 .. n - 1 : L[s] \in 0 .. n - 1 /\ Whole(L[s] - (t + (s + 1)), n)
ThroughAll(L, n) ==
    /\ \A s, u \in 0 .. n - 1 : L[s] = L[u] => s = u
    /\ \A v \in 0 .. n - 1 : \E s \in 0 .. n - 1 : L[s] = v

LEMMA Turned ==
    ASSUME NEW n \in Nat, n >= 1, NEW t \in Nat, NEW L, Turns(L, n, t)
    PROVE  ThroughAll(L, n)
<1>1. \A d, e, f \in Int : Whole(d, n) /\ Whole(e, n) /\ (f = d + e \/ f = d - e) => Whole(f, n)
  BY WholeSum
<1> USE DEF Turns
<1>2. ASSUME NEW s \in 0 .. n - 1, NEW u \in 0 .. n - 1, L[s] = L[u] PROVE s = u
  <2>1. PICK v \in 0 .. n - 1 : v = L[s] /\ v = L[u]
    BY <1>2
  <2>2. Whole(v - (t + (s + 1)), n) /\ Whole(v - (t + (u + 1)), n)
    BY <2>1
  <2>3. PICK d \in Int : d = s - u
    OBVIOUS
  <2>4. /\ d = (v - (t + (u + 1))) - (v - (t + (s + 1)))
        /\ v - (t + (u + 1)) \in Int /\ v - (t + (s + 1)) \in Int
    BY <2>3
  <2>5. Whole(d, n)
    BY <1>1, <2>2, <2>4
  <2>6. -n < d /\ d < n
    BY <2>3
  <2>7. d = 0
    BY <2>5, <2>6, WholeNear
  <2> QED
    BY <2>3, <2>7
<1>3. ASSUME NEW v \in 0 .. n - 1 PROVE \E s \in 0 .. n - 1 : L[s] = v
  <2>1. PICK y \in Int : y = v - (t + 1)
    OBVIOUS
  <2>2. y % n \in 0 .. n - 1 /\ Whole((y % n) - y, n)
    BY WholeMod
  <2>3. PICK s \in 0 .. n - 1 : Whole(s - y, n)
    BY <2>2
  <2>4. PICK u \in 0 .. n - 1 : u = L[s] /\ Whole(u - (t + (s + 1)), n)
    OBVIOUS
  <2>5. PICK d \in Int : d = u - v
    OBVIOUS
  <2>6. d = (u - (t + (s + 1))) + (s - y) /\ u - (t + (s + 1)) \in Int /\ s - y \in Int
    BY <2>1, <2>5
  <2>7. Whole(d, n)
    BY <1>1, <2>3, <2>4, <2>6
  <2>8. -n < d /\ d < n
    BY <2>5
  <2>9. d = 0
    BY <2>7, <2>8, WholeNear
  <2> QED
    BY <2>4, <2>5, <2>9
<1> QED
  BY <1>2, <1>3 DEF ThroughAll
=============================================================================
