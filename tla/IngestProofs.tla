---------------------------- MODULE IngestProofs ----------------------------
(***************************************************************************)
(* Proofs about Ingest, for all inputs and flags, any number of runs, and  *)
(* an end of a run at any step.                                            *)
(***************************************************************************)
EXTENDS Ingest, SequenceTheorems, FoldProofs

-----------------------------------------------------------------------------
(* Kept.                                                                   *)

KeptUpTo(s, K, F) ==
    /\ F[0] = <<>>
    /\ \A k \in 1 .. Len(s) : F[k] = IF s[k] \in K THEN Append(F[k - 1], s[k]) ELSE F[k - 1]

LEMMA KeptFold ==
    ASSUME NEW E, NEW s \in Seq(E), NEW K
    PROVE  \E F \in [0 .. Len(s) -> Seq(E)] : KeptUpTo(s, K, F) /\ Kept(s, K) = F[Len(s)]
<1> DEFINE n == Len(s)
           Next1(x, i) == IF s[i] \in K THEN Append(x, s[i]) ELSE x
           step == [p \in Seq(E) \X (1 .. n) |-> Next1(p[1], p[2])]
           Rec(it) == [S \in SUBSET (DOMAIN s) |->
              IF S = {} THEN <<>> ELSE Next1(it[S \ {Max(S)}], Max(S))]
           Iter == CHOOSE it : it = Rec(it)
<1>1. Kept(s, K) = Iter[DOMAIN s]
  BY DEF Kept, FoldLeft, MapThenFoldSet
<1>2. n \in Nat /\ DOMAIN s = 1 .. n /\ \A k \in 1 .. n : s[k] \in E
  OBVIOUS
<1>3. <<>> \in Seq(E) /\ \A x \in Seq(E), i \in 1 .. n : Next1(x, i) \in Seq(E)
  BY <1>2
<1>4. step \in [Seq(E) \X (1 .. n) -> Seq(E)]
  BY <1>3
<1>5. PICK F : IsLeftFold(n, Seq(E), <<>>, step, F)
  <2>1. LeftFoldable(n, Seq(E), <<>>, step)
    BY <1>2, <1>3, <1>4 DEF LeftFoldable
  <2> HIDE DEF step, n
  <2> QED
    BY ONLY <2>1, LeftFoldsExist
<1>6. F = Rec(F)
  <2>1. ASSUME NEW S \in SUBSET (1 .. n), S # {}
        PROVE  step[<<F[S \ {Max(S)}], Max(S)>>] = Next1(F[S \ {Max(S)}], Max(S))
    <3>1. Max(S) \in 1 .. n
      BY ONLY <1>2, <2>1, MaxFacts
    <3>2. F[S \ {Max(S)}] \in Seq(E)
      BY <1>5 DEF IsLeftFold
    <3> QED
      BY <3>1, <3>2
  <2>2. F = [S \in SUBSET (1 .. n) |->
               IF S = {} THEN <<>> ELSE step[<<F[S \ {Max(S)}], Max(S)>>]]
    BY <1>5 DEF IsLeftFold
  <2> HIDE DEF step, Next1, n
  <2> QED
    BY ONLY <1>2, <2>1, <2>2
<1>7. Iter = Rec(Iter)
  <2> HIDE DEF Rec
  <2> QED
    BY ONLY <1>6
<1>8. Iter[1 .. 0] = <<>> /\ \A k \in 1 .. n : Iter[1 .. k] = Next1(Iter[1 .. k - 1], k)
  <2>1. Iter[1 .. 0] = <<>>
    <3>1. 1 .. 0 = {}
      OBVIOUS
    <3> HIDE DEF Iter, Next1
    <3> QED
      BY ONLY <1>7, <3>1
  <2>2. ASSUME NEW k \in 1 .. n PROVE Iter[1 .. k] = Next1(Iter[1 .. k - 1], k)
    <3>1. /\ 1 .. k \in SUBSET (1 .. n) /\ 1 .. k # {} /\ Max(1 .. k) = k
          /\ (1 .. k) \ {k} = 1 .. k - 1
      BY ONLY <1>2, k \in 1 .. n, PrefixFacts
    <3> HIDE DEF Iter, Next1, n
    <3> QED
      BY ONLY <1>2, <1>7, <3>1
  <2> QED
    BY <2>1, <2>2
<1> DEFINE G == [k \in 0 .. n |-> Iter[1 .. k]]
<1>9. KeptUpTo(s, K, G) /\ Kept(s, K) = G[n]
  <2>1. \A k \in 1 .. n : k \in 0 .. n /\ k - 1 \in 0 .. n
    BY <1>2
  <2>2. 0 \in 0 .. n /\ n \in 0 .. n
    BY <1>2
  <2> HIDE DEF Iter
  <2> QED
    BY <1>1, <1>2, <1>8, <2>1, <2>2 DEF KeptUpTo
<1>10. G \in [0 .. n -> Seq(E)]
  <2> DEFINE Good == {k \in Nat : k <= n => G[k] \in Seq(E)}
  <2>1. 0 \in Good
    <3>1. G[0] \in Seq(E)
      <4> HIDE DEF G
      <4> QED
        BY ONLY <1>3, <1>9 DEF KeptUpTo
    <3> HIDE DEF G
    <3> QED
      BY ONLY <3>1
  <2>2. ASSUME NEW k \in Nat, k \in Good PROVE k + 1 \in Good
    <3>1. ASSUME k + 1 <= n PROVE G[k + 1] \in Seq(E)
      <4>1. k + 1 \in 1 .. n /\ (k + 1) - 1 = k /\ G[k] \in Seq(E)
        BY ONLY <1>2, <2>2, <3>1
      <4>2. G[k + 1] = Next1(G[k], k + 1)
        <5> HIDE DEF G
        <5> QED
          BY <1>9, <4>1 DEF KeptUpTo
      <4> QED
        BY ONLY <1>3, <4>1, <4>2
    <3> HIDE DEF G
    <3> QED
      BY ONLY <3>1, k \in Nat
  <2>3. Nat \subseteq Good
    <3> HIDE DEF Good
    <3> QED
      BY ONLY <2>1, <2>2, InductionOnNat
  <2>4. \A k \in 0 .. n : G[k] \in Seq(E)
    <3> HIDE DEF G
    <3> QED
      BY ONLY <1>2, <2>3
  <2> QED
    BY ONLY <2>4
<1> QED
  BY <1>9, <1>10

\* s and t have the same items at 1 .. n, kept or not.
AlikeUpTo(n, s, t, K, L) ==
    /\ n \in Nat /\ n <= Len(s) /\ n <= Len(t)
    /\ \A k \in 1 .. n : s[k] = t[k] /\ (s[k] \in K <=> t[k] \in L)

LEMMA KeptAgree ==
    ASSUME NEW E, NEW s \in Seq(E), NEW t \in Seq(E), NEW K, NEW L, NEW F, NEW G,
           KeptUpTo(s, K, F), KeptUpTo(t, L, G),
           NEW n, AlikeUpTo(n, s, t, K, L)
    PROVE  F[n] = G[n]
<1> n \in Nat /\ n <= Len(s) /\ n <= Len(t)
  BY DEF AlikeUpTo
<1> DEFINE Good == {k \in Nat : k <= n => F[k] = G[k]}
<1>1. 0 \in Good
  BY DEF KeptUpTo
<1>2. ASSUME NEW k \in Nat, k \in Good PROVE k + 1 \in Good
  <2>1. ASSUME k + 1 <= n PROVE F[k + 1] = G[k + 1]
    <3>1. k + 1 \in 1 .. n /\ k + 1 \in 1 .. Len(s) /\ k + 1 \in 1 .. Len(t) /\ (k + 1) - 1 = k
      BY <2>1
    <3>2. F[k] = G[k]
      BY <1>2, <2>1
    <3> QED
      BY <3>1, <3>2 DEF KeptUpTo, AlikeUpTo
  <2> QED
    BY <2>1
<1>3. Nat \subseteq Good
  <2> HIDE DEF Good
  <2> QED
    BY ONLY <1>1, <1>2, InductionOnNat
<1> QED
  BY <1>3

LEMMA KeptType ==
    ASSUME NEW E, NEW s \in Seq(E), NEW K
    PROVE  Kept(s, K) \in Seq(E)
<1>1. PICK F \in [0 .. Len(s) -> Seq(E)] : KeptUpTo(s, K, F) /\ Kept(s, K) = F[Len(s)]
  BY KeptFold
<1>2. Len(s) \in 0 .. Len(s)
  OBVIOUS
<1> QED
  BY <1>1, <1>2

LEMMA KeptEmpty ==
    ASSUME NEW K
    PROVE  Kept(<<>>, K) = <<>>
<1>1. <<>> \in Seq({}) /\ Len(<<>>) = 0
  OBVIOUS
<1>2. PICK s \in Seq({}) : s = <<>> /\ Len(s) = 0
  BY <1>1
<1>3. PICK F \in [0 .. Len(s) -> Seq({})] : KeptUpTo(s, K, F) /\ Kept(s, K) = F[Len(s)]
  BY KeptFold
<1> QED
  BY <1>2, <1>3 DEF KeptUpTo

\* Only which items of s are kept matters.
LEMMA KeptSame ==
    ASSUME NEW E, NEW s \in Seq(E), NEW K, NEW L,
           \A k \in 1 .. Len(s) : s[k] \in K <=> s[k] \in L
    PROVE  Kept(s, K) = Kept(s, L)
<1>1. PICK F \in [0 .. Len(s) -> Seq(E)] : KeptUpTo(s, K, F) /\ Kept(s, K) = F[Len(s)]
  BY KeptFold
<1>2. PICK G \in [0 .. Len(s) -> Seq(E)] : KeptUpTo(s, L, G) /\ Kept(s, L) = G[Len(s)]
  BY KeptFold
<1>3. AlikeUpTo(Len(s), s, s, K, L)
  BY DEF AlikeUpTo
<1>4. F[Len(s)] = G[Len(s)]
  BY <1>1, <1>2, <1>3, KeptAgree
<1> QED
  BY <1>1, <1>2, <1>4

LEMMA KeptAppend ==
    ASSUME NEW E, NEW s \in Seq(E), NEW x \in E, NEW K
    PROVE  Kept(Append(s, x), K) = IF x \in K THEN Append(Kept(s, K), x) ELSE Kept(s, K)
<1> DEFINE t == Append(s, x)
<1>1. /\ t \in Seq(E) /\ Len(t) = Len(s) + 1 /\ t[Len(s) + 1] = x
      /\ \A k \in 1 .. Len(s) : t[k] = s[k]
      /\ Len(s) \in Nat
  BY AppendProperties
<1>2. PICK F \in [0 .. Len(s) -> Seq(E)] : KeptUpTo(s, K, F) /\ Kept(s, K) = F[Len(s)]
  BY KeptFold
<1>3. PICK G \in [0 .. Len(t) -> Seq(E)] : KeptUpTo(t, K, G) /\ Kept(t, K) = G[Len(t)]
  BY <1>1, KeptFold
<1>4. F[Len(s)] = G[Len(s)]
  <2>1. AlikeUpTo(Len(s), s, t, K, K)
    BY <1>1 DEF AlikeUpTo
  <2> HIDE DEF t
  <2> QED
    BY <1>1, <1>2, <1>3, <2>1, KeptAgree
<1>5. Len(t) \in 1 .. Len(t) /\ Len(t) - 1 = Len(s) /\ t[Len(t)] = x
  BY <1>1
<1> HIDE DEF t
<1>6. G[Len(t)] = IF x \in K THEN Append(G[Len(s)], x) ELSE G[Len(s)]
  BY <1>3, <1>5 DEF KeptUpTo
<1> QED
  BY <1>2, <1>3, <1>4, <1>6 DEF t

LEMMA KeptConcat ==
    ASSUME NEW E, NEW s \in Seq(E), NEW t \in Seq(E), NEW K
    PROVE  Kept(s \o t, K) = Kept(s, K) \o Kept(t, K)
<1> DEFINE Good == {n \in Nat : \A r \in Seq(E) :
                       Len(r) = n => Kept(s \o r, K) = Kept(s, K) \o Kept(r, K)}
<1>1. 0 \in Good
  <2> SUFFICES ASSUME NEW r \in Seq(E), Len(r) = 0
               PROVE  Kept(s \o r, K) = Kept(s, K) \o Kept(r, K)
    OBVIOUS
  <2>1. r = <<>> /\ s \o r = s
    BY ConcatEmptySeq
  <2>2. Kept(r, K) = <<>> /\ Kept(s, K) \in Seq(E)
    BY <2>1, KeptEmpty, KeptType
  <2> QED
    BY <2>1, <2>2, ConcatEmptySeq
<1>2. ASSUME NEW n \in Nat, n \in Good PROVE n + 1 \in Good
  <2> SUFFICES ASSUME NEW r \in Seq(E), Len(r) = n + 1
               PROVE  Kept(s \o r, K) = Kept(s, K) \o Kept(r, K)
    OBVIOUS
  <2>1. PICK q \in Seq(E), x \in E : r = Append(q, x)
    <3>1. r # <<>>
      OBVIOUS
    <3> QED
      BY <3>1, SequenceEmptyOrAppend
  <2>2. Len(q) = n /\ s \o q \in Seq(E) /\ s \o r = Append(s \o q, x)
    BY <2>1
  <2>3. Kept(s \o q, K) = Kept(s, K) \o Kept(q, K)
    BY <1>2, <2>2
  <2>4. Kept(s \o r, K)
          = IF x \in K THEN Append(Kept(s \o q, K), x) ELSE Kept(s \o q, K)
    <3>1. PICK sq \in Seq(E) : sq = s \o q
      BY <2>2
    <3>2. Kept(Append(sq, x), K) = IF x \in K THEN Append(Kept(sq, K), x) ELSE Kept(sq, K)
      BY KeptAppend
    <3> QED
      BY <2>2, <3>1, <3>2
  <2>5. Kept(r, K) = IF x \in K THEN Append(Kept(q, K), x) ELSE Kept(q, K)
    BY <2>1, KeptAppend
  <2>6. Kept(s, K) \in Seq(E) /\ Kept(q, K) \in Seq(E)
    BY KeptType
  <2>7. Append(Kept(s, K) \o Kept(q, K), x) = Kept(s, K) \o Append(Kept(q, K), x)
    <3>1. PICK a \in Seq(E), b \in Seq(E) : a = Kept(s, K) /\ b = Kept(q, K)
      BY <2>6
    <3>2. Append(a \o b, x) = a \o Append(b, x)
      <4>1. PICK c \in Seq(E) : c = Append(b, x)
        <5>1. Append(b, x) \in Seq(E)
          BY AppendProperties
        <5> QED
          BY ONLY <5>1, Zenon
      <4>2. a \o c = Append(a \o b, x)
        BY <4>1
      <4> QED
        BY ONLY <4>1, <4>2
    <3> QED
      BY ONLY <3>1, <3>2
  <2> QED
    BY <2>3, <2>4, <2>5, <2>7
<1>3. Nat \subseteq Good
  <2> HIDE DEF Good
  <2> QED
    BY ONLY <1>1, <1>2, InductionOnNat
<1> QED
  BY <1>3

-----------------------------------------------------------------------------
(* Occurrences.                                                            *)

Counted(x, e, v) == x + (IF e[1] = v THEN 1 ELSE 0) + (IF e[2] = v THEN 1 ELSE 0)

CountedUpTo(s, v, F) ==
    /\ F[0] = 0
    /\ \A k \in 1 .. Len(s) : F[k] = Counted(F[k - 1], s[k], v)

LEMMA CountedType ==
    ASSUME NEW x \in Nat, NEW e, NEW v
    PROVE  Counted(x, e, v) \in Nat
BY DEF Counted

LEMMA CountFold ==
    ASSUME NEW E, NEW s \in Seq(E), NEW v
    PROVE  \E F \in [0 .. Len(s) -> Nat] : CountedUpTo(s, v, F) /\ Occurrences(s, v) = F[Len(s)]
<1> DEFINE n == Len(s)
           step == [p \in Nat \X (1 .. n) |-> Counted(p[1], s[p[2]], v)]
           Rec(it) == [S \in SUBSET (DOMAIN s) |->
              IF S = {} THEN 0 ELSE Counted(it[S \ {Max(S)}], s[Max(S)], v)]
           Iter == CHOOSE it : it = Rec(it)
<1>1. Occurrences(s, v) = Iter[DOMAIN s]
  BY DEF Occurrences, FoldLeft, MapThenFoldSet, Counted
<1>2. n \in Nat /\ DOMAIN s = 1 .. n
  OBVIOUS
<1>3. step \in [Nat \X (1 .. n) -> Nat]
  BY CountedType
<1>4. PICK F : IsLeftFold(n, Nat, 0, step, F)
  <2>1. LeftFoldable(n, Nat, 0, step)
    BY <1>2, <1>3 DEF LeftFoldable
  <2> HIDE DEF step, n
  <2> QED
    BY ONLY <2>1, LeftFoldsExist
<1>5. F = Rec(F)
  <2>1. ASSUME NEW S \in SUBSET (1 .. n), S # {}
        PROVE  step[<<F[S \ {Max(S)}], Max(S)>>] = Counted(F[S \ {Max(S)}], s[Max(S)], v)
    <3>1. Max(S) \in 1 .. n
      BY ONLY <1>2, <2>1, MaxFacts
    <3>2. F[S \ {Max(S)}] \in Nat
      BY <1>4 DEF IsLeftFold
    <3> QED
      BY <3>1, <3>2
  <2>2. F = [S \in SUBSET (1 .. n) |->
               IF S = {} THEN 0 ELSE step[<<F[S \ {Max(S)}], Max(S)>>]]
    BY <1>4 DEF IsLeftFold
  <2> HIDE DEF step, n
  <2> QED
    BY ONLY <1>2, <2>1, <2>2
<1>6. Iter = Rec(Iter)
  <2> HIDE DEF Rec
  <2> QED
    BY ONLY <1>5
<1>7. Iter[1 .. 0] = 0 /\ \A k \in 1 .. n : Iter[1 .. k] = Counted(Iter[1 .. k - 1], s[k], v)
  <2>1. Iter[1 .. 0] = 0
    <3>1. 1 .. 0 = {}
      OBVIOUS
    <3> HIDE DEF Iter
    <3> QED
      BY ONLY <1>6, <3>1
  <2>2. ASSUME NEW k \in 1 .. n PROVE Iter[1 .. k] = Counted(Iter[1 .. k - 1], s[k], v)
    <3>1. /\ 1 .. k \in SUBSET (1 .. n) /\ 1 .. k # {} /\ Max(1 .. k) = k
          /\ (1 .. k) \ {k} = 1 .. k - 1
      BY ONLY <1>2, k \in 1 .. n, PrefixFacts
    <3> HIDE DEF Iter, n
    <3> QED
      BY ONLY <1>2, <1>6, <3>1
  <2> QED
    BY <2>1, <2>2
<1> DEFINE G == [k \in 0 .. n |-> Iter[1 .. k]]
<1>8. CountedUpTo(s, v, G) /\ Occurrences(s, v) = G[n]
  <2>1. \A k \in 1 .. n : k \in 0 .. n /\ k - 1 \in 0 .. n
    BY <1>2
  <2>2. 0 \in 0 .. n /\ n \in 0 .. n
    BY <1>2
  <2> HIDE DEF Iter
  <2> QED
    BY <1>1, <1>2, <1>7, <2>1, <2>2 DEF CountedUpTo
<1>9. G \in [0 .. n -> Nat]
  <2> DEFINE Good == {k \in Nat : k <= n => G[k] \in Nat}
  <2>1. 0 \in Good
    <3>1. G[0] \in Nat
      <4> HIDE DEF G
      <4> QED
        BY ONLY <1>8 DEF CountedUpTo
    <3> HIDE DEF G
    <3> QED
      BY ONLY <3>1
  <2>2. ASSUME NEW k \in Nat, k \in Good PROVE k + 1 \in Good
    <3>1. ASSUME k + 1 <= n PROVE G[k + 1] \in Nat
      <4>1. k + 1 \in 1 .. n /\ (k + 1) - 1 = k /\ G[k] \in Nat
        BY ONLY <1>2, <2>2, <3>1
      <4>2. G[k + 1] = Counted(G[k], s[k + 1], v)
        <5> HIDE DEF G
        <5> QED
          BY <1>8, <4>1 DEF CountedUpTo
      <4> QED
        BY ONLY <4>1, <4>2, CountedType
    <3> HIDE DEF G
    <3> QED
      BY ONLY <3>1, k \in Nat
  <2>3. Nat \subseteq Good
    <3> HIDE DEF Good
    <3> QED
      BY ONLY <2>1, <2>2, InductionOnNat
  <2>4. \A k \in 0 .. n : G[k] \in Nat
    <3> HIDE DEF G
    <3> QED
      BY ONLY <1>2, <2>3
  <2> QED
    BY ONLY <2>4
<1> QED
  BY <1>8, <1>9

LEMMA CountAgree ==
    ASSUME NEW E, NEW s \in Seq(E), NEW t \in Seq(E), NEW v, NEW F, NEW G,
           CountedUpTo(s, v, F), CountedUpTo(t, v, G),
           NEW n, AlikeUpTo(n, s, t, {}, {})
    PROVE  F[n] = G[n]
<1> n \in Nat /\ n <= Len(s) /\ n <= Len(t)
  BY DEF AlikeUpTo
<1> DEFINE Good == {k \in Nat : k <= n => F[k] = G[k]}
<1>1. 0 \in Good
  BY DEF CountedUpTo
<1>2. ASSUME NEW k \in Nat, k \in Good PROVE k + 1 \in Good
  <2>1. ASSUME k + 1 <= n PROVE F[k + 1] = G[k + 1]
    <3>1. k + 1 \in 1 .. n /\ k + 1 \in 1 .. Len(s) /\ k + 1 \in 1 .. Len(t) /\ (k + 1) - 1 = k
      BY <2>1
    <3>2. F[k] = G[k]
      BY <1>2, <2>1
    <3> QED
      BY <3>1, <3>2 DEF CountedUpTo, AlikeUpTo
  <2> QED
    BY <2>1
<1>3. Nat \subseteq Good
  <2> HIDE DEF Good
  <2> QED
    BY ONLY <1>1, <1>2, InductionOnNat
<1> QED
  BY <1>3

LEMMA OccurrencesType ==
    ASSUME NEW E, NEW s \in Seq(E), NEW v
    PROVE  Occurrences(s, v) \in Nat
<1>1. PICK F \in [0 .. Len(s) -> Nat] : CountedUpTo(s, v, F) /\ Occurrences(s, v) = F[Len(s)]
  BY CountFold
<1>2. Len(s) \in 0 .. Len(s)
  OBVIOUS
<1> QED
  BY <1>1, <1>2

LEMMA OccurrencesEmpty ==
    ASSUME NEW v
    PROVE  Occurrences(<<>>, v) = 0
<1>1. <<>> \in Seq({}) /\ Len(<<>>) = 0
  OBVIOUS
<1>2. PICK s \in Seq({}) : s = <<>> /\ Len(s) = 0
  BY <1>1
<1>3. PICK F \in [0 .. Len(s) -> Nat] : CountedUpTo(s, v, F) /\ Occurrences(s, v) = F[Len(s)]
  BY CountFold
<1> QED
  BY <1>2, <1>3 DEF CountedUpTo

LEMMA OccurrencesAppend ==
    ASSUME NEW E, NEW s \in Seq(E), NEW x \in E, NEW v
    PROVE  Occurrences(Append(s, x), v) = Counted(Occurrences(s, v), x, v)
<1> DEFINE t == Append(s, x)
<1>1. /\ t \in Seq(E) /\ Len(t) = Len(s) + 1 /\ t[Len(s) + 1] = x
      /\ \A k \in 1 .. Len(s) : t[k] = s[k]
      /\ Len(s) \in Nat
  BY AppendProperties
<1>2. PICK F \in [0 .. Len(s) -> Nat] : CountedUpTo(s, v, F) /\ Occurrences(s, v) = F[Len(s)]
  BY CountFold
<1>3. PICK G \in [0 .. Len(t) -> Nat] : CountedUpTo(t, v, G) /\ Occurrences(t, v) = G[Len(t)]
  BY <1>1, CountFold
<1>4. F[Len(s)] = G[Len(s)]
  <2>1. AlikeUpTo(Len(s), s, t, {}, {})
    BY <1>1 DEF AlikeUpTo
  <2> HIDE DEF t
  <2> QED
    BY <1>1, <1>2, <1>3, <2>1, CountAgree
<1>5. Len(t) \in 1 .. Len(t) /\ Len(t) - 1 = Len(s) /\ t[Len(t)] = x
  BY <1>1
<1> HIDE DEF t
<1>6. G[Len(t)] = Counted(G[Len(s)], x, v)
  BY <1>3, <1>5 DEF CountedUpTo
<1> QED
  BY <1>2, <1>3, <1>4, <1>6 DEF t

LEMMA OccurrencesConcat ==
    ASSUME NEW E, NEW s \in Seq(E), NEW t \in Seq(E), NEW v
    PROVE  Occurrences(s \o t, v) = Occurrences(s, v) + Occurrences(t, v)
<1> DEFINE Good == {n \in Nat : \A r \in Seq(E) : Len(r) = n =>
                       Occurrences(s \o r, v) = Occurrences(s, v) + Occurrences(r, v)}
<1>1. 0 \in Good
  <2> SUFFICES ASSUME NEW r \in Seq(E), Len(r) = 0
               PROVE  Occurrences(s \o r, v) = Occurrences(s, v) + Occurrences(r, v)
    OBVIOUS
  <2>1. r = <<>> /\ s \o r = s
    BY ConcatEmptySeq
  <2>2. Occurrences(r, v) = 0 /\ Occurrences(s, v) \in Nat
    BY <2>1, OccurrencesEmpty, OccurrencesType
  <2> QED
    BY <2>1, <2>2
<1>2. ASSUME NEW n \in Nat, n \in Good PROVE n + 1 \in Good
  <2> SUFFICES ASSUME NEW r \in Seq(E), Len(r) = n + 1
               PROVE  Occurrences(s \o r, v) = Occurrences(s, v) + Occurrences(r, v)
    OBVIOUS
  <2>1. PICK q \in Seq(E), x \in E : r = Append(q, x)
    <3>1. r # <<>>
      OBVIOUS
    <3> QED
      BY <3>1, SequenceEmptyOrAppend
  <2>2. Len(q) = n /\ s \o q \in Seq(E) /\ s \o r = Append(s \o q, x)
    BY <2>1
  <2>3. Occurrences(s \o q, v) = Occurrences(s, v) + Occurrences(q, v)
    BY <1>2, <2>2
  <2>4. Occurrences(s \o r, v) = Counted(Occurrences(s \o q, v), x, v)
    <3>1. PICK sq \in Seq(E) : sq = s \o q
      BY <2>2
    <3>2. Occurrences(Append(sq, x), v) = Counted(Occurrences(sq, v), x, v)
      BY OccurrencesAppend
    <3> QED
      BY <2>2, <3>1, <3>2
  <2>5. Occurrences(r, v) = Counted(Occurrences(q, v), x, v)
    BY <2>1, OccurrencesAppend
  <2>6. Occurrences(s, v) \in Nat /\ Occurrences(q, v) \in Nat
    BY OccurrencesType
  <2>7. \A a, b \in Nat : Counted(a + b, x, v) = a + Counted(b, x, v)
    BY DEF Counted
  <2> QED
    BY ONLY <2>3, <2>4, <2>5, <2>6, <2>7
<1>3. Nat \subseteq Good
  <2> HIDE DEF Good
  <2> QED
    BY ONLY <1>1, <1>2, InductionOnNat
<1> QED
  BY <1>3

-----------------------------------------------------------------------------
(* A conversion cut short.                                                 *)

\* The header is zeros, and no run gets further than the check of count[0].
Interrupted ==
    /\ bin # Absent /\ bin.header = <<0, 0>>
    /\ pc \in {"off", "open", "count"} /\ (pc = "count" => num_vertices = 0)

LEMMA InterruptedStep == Interrupted /\ [Next]_vars => Interrupted'
<1> SUFFICES ASSUME Interrupted, [Next]_vars PROVE Interrupted'
  OBVIOUS
<1> USE DEF Interrupted
<1>1. ASSUME NEW lines \in Inputs, NEW f \in Flags, StartRun(lines, f) PROVE Interrupted'
  BY <1>1 DEF StartRun, Done
<1>2. CASE Open
  <2>1. bin.header # <<>>
    OBVIOUS
  <2>2. num_vertices' = bin.header[1] /\ UNCHANGED bin /\ pc' = "count"
    BY <1>2, <2>1 DEF Open
  <2> QED
    BY <2>2
<1>3. CASE NoVertices \/ Crash
  BY <1>3 DEF NoVertices, Crash, Die
<1>4. ~AddEdge /\ ~SkipSelfEdge /\ ~FinishBin /\ ~WriteDegrees /\ ~CountChunk /\ ~StartSplit
  BY DEF AddEdge, SkipSelfEdge, FinishBin, WriteDegrees, CountChunk, StartSplit
<1>5. ~SplitChunk /\ ~FinishSplit /\ ~Loads /\ ~EndRun /\ ~Malformed /\ ~SizeDiffers
  BY DEF SplitChunk, FinishSplit, Loads, EndRun, Malformed, SizeDiffers
<1>6. CASE UNCHANGED vars
  BY <1>6 DEF vars, files, converter
<1> QED
  BY <1>1, <1>2, <1>3, <1>4, <1>5, <1>6 DEF Next, RunsOver

\* Once a run has died with the header still zeros, no later run loads a graph.
THEOREM InterruptedForever == Spec => InterruptedStays
<1>1. Interrupted /\ [Next]_vars => Interrupted'
  BY InterruptedStep
<1>2. pc = "off" /\ bin # Absent /\ bin.header = <<0, 0>> => Interrupted
  BY DEF Interrupted
<1>3. Interrupted => pc # "loaded"
  BY DEF Interrupted
<1> QED
  BY <1>1, <1>2, <1>3, PTL DEF Spec, InterruptedStays

-----------------------------------------------------------------------------
(* The invariant.                                                          *)

Typed == TypeOK /\ chunk <= left

\* The files a run has open are there; what it knew is gone when it has ended.
Opened ==
    /\ pc # "off" => bin \in File
    /\ pc \in {"count", "split"} =>
          left <= num_edges /\ h2h \in Seq(IdPairs) /\ (flags.write_low => low \in File)
    /\ pc = "off" =>
          num_vertices = 0 /\ num_edges = 0 /\ name2vid = <<>> /\ degrees = <<>>

\* The lines read so far, and those of them that are edges.
Read == SubSeq(source, 1, Len(source) - Len(input))
Proper == {l \in Lines : l[1] # l[Len(l)]}
Graph == Kept(Read, Proper)

\* name2vid numbers the names of the edges read, and the edges written are those with the
\* names replaced.
Numbered ==
    /\ DOMAIN name2vid \subseteq Names
    /\ name2vid \in [DOMAIN name2vid -> 0 .. num_vertices - 1]
    /\ \A v, w \in DOMAIN name2vid : name2vid[v] = name2vid[w] => v = w
Translated ==
    /\ Len(bin.edges) = Len(Graph)
    /\ \A i \in 1 .. Len(Graph), k \in {1, 2} :
          Graph[i][k] \in DOMAIN name2vid /\ bin.edges[i][k] = name2vid[Graph[i][k]]
    /\ \A id \in 0 .. num_vertices - 1 :
          \E i \in 1 .. Len(bin.edges), k \in {1, 2} : bin.edges[i][k] = id
DegreesCounted ==
    /\ Len(degrees) = num_vertices
    /\ \A i \in 1 .. num_vertices : degrees[i] = FileDegree(i - 1)

Converting ==
    pc = "convert" =>
        /\ bin.header = <<0, 0>> /\ deg = Absent
        /\ Len(input) <= Len(source)
        /\ input = SubSeq(source, Len(source) - Len(input) + 1, Len(source))
        /\ \A i \in 1 .. Len(Read) : Len(Read[i]) = 2
        /\ num_edges = Len(bin.edges)
        /\ Numbered /\ Translated /\ DegreesCounted
Converted == pc = "degrees" => deg = Absent /\ DegreesCounted

\* The degree file is about the binary file as it is.
DegreesWritten ==
    deg # Absent => bin \in File /\ \A i \in 1 .. Len(deg) : deg[i] = FileDegree(i - 1)

\* What a run knows of a binary file that is not empty.
HeaderKnown ==
    pc \in {"count", "split", "load"} /\ bin.header # <<>> =>
        /\ bin.header = <<num_vertices, num_edges>>
        /\ pc # "count" => num_vertices > 0
        /\ num_vertices > 0 => num_edges = Len(bin.edges)

\* The part of the binary file the current pass has read.
Passed == SubSeq(bin.edges, 1, num_edges - left)
Counting ==
    pc = "count" /\ bin.header # <<>> /\ num_vertices > 0 =>
        /\ Len(count) = num_vertices
        /\ \A i \in 1 .. num_vertices : count[i] = Occurrences(Passed, i - 1)
        /\ h2h = <<>> /\ (flags.write_low => low.edges = <<>>)
Splitting ==
    pc = "split" /\ bin.header # <<>> =>
        /\ Len(count) = num_vertices
        /\ \A i \in 1 .. num_vertices : count[i] = FileDegree(i - 1)
        /\ h2h = Kept(Passed, BothHigh)
        /\ flags.write_low => low.edges = Kept(Passed, ToSet(bin.edges) \ BothHigh)
SplitDone ==
    pc = "load" /\ bin.header # <<>> =>
        /\ h2h = Kept(bin.edges, BothHigh)
        /\ flags.write_low => low.edges = Kept(bin.edges, ToSet(bin.edges) \ BothHigh)

IngestInv ==
    /\ Typed /\ Opened /\ Converting /\ Converted /\ HeaderIsLast /\ DegreesWritten
    /\ HeaderKnown /\ Counting /\ Splitting /\ SplitDone /\ SplitExact /\ DegreesLoaded

-----------------------------------------------------------------------------
(* Lines and names.                                                        *)

LEMMA LineFacts ==
    ASSUME NEW l \in Lines
    PROVE  /\ Len(l) \in {1, 2} /\ l[1] \in Names /\ l[Len(l)] \in Names
           /\ Len(l) = 2 => l \in Names \X Names
BY DEF Lines

LEMMA KeptPair ==
    ASSUME NEW a, NEW b, NEW K
    PROVE  Kept(<<a, b>>, K) =
              IF a \in K THEN IF b \in K THEN <<a, b>> ELSE <<a>>
              ELSE IF b \in K THEN <<b>> ELSE <<>>
<1> DEFINE E == {a, b}
<1>1. <<>> \in Seq(E) /\ <<a>> \in Seq(E) /\ a \in E /\ b \in E
  OBVIOUS
<1>2. Append(<<>>, a) = <<a>> /\ Append(<<a>>, b) = <<a, b>> /\ Append(<<>>, b) = <<b>>
  <2>1. Append(<<>>, a) = <<a>>
    OBVIOUS
  <2>2. Append(<<>>, b) = <<b>>
    OBVIOUS
  <2>3. Append(<<a>>, b) = <<a, b>>
    <3>1. <<a, b>> \in Seq(E) /\ Len(<<a>>) = 1 /\ Len(<<a, b>>) = 2
      OBVIOUS
    <3>2. /\ Append(<<a>>, b) \in Seq(E) /\ Len(Append(<<a>>, b)) = 2
          /\ Append(<<a>>, b)[1] = a /\ Append(<<a>>, b)[2] = b
      BY <1>1, <3>1, AppendProperties
    <3>3. PICK s \in Seq(E), t \in Seq(E) : s = Append(<<a>>, b) /\ t = <<a, b>>
      BY ONLY <3>1, <3>2
    <3>4. Len(s) = Len(t) /\ \A i \in 1 .. Len(s) : s[i] = t[i]
      BY ONLY <3>1, <3>2, <3>3
    <3>5. s = t
      BY ONLY <3>4, s \in Seq(E), t \in Seq(E), SeqEqual
    <3> QED
      BY ONLY <3>3, <3>5
  <2> QED
    BY ONLY <2>1, <2>2, <2>3
<1>3. Kept(<<>>, K) = <<>>
  BY KeptEmpty
<1>4. PICK one \in Seq(E) : one = <<a>>
  BY <1>1
<1>5. Kept(one, K) = IF a \in K THEN <<a>> ELSE <<>>
  <2>1. PICK none \in Seq(E) : none = <<>>
    BY <1>1
  <2>2. Kept(Append(none, a), K) = IF a \in K THEN Append(Kept(none, K), a) ELSE Kept(none, K)
    BY <1>1, KeptAppend
  <2>3. Append(none, a) = one
    BY ONLY <1>2, <1>4, <2>1
  <2> QED
    BY ONLY <1>2, <1>3, <1>4, <2>1, <2>2, <2>3
<1>6. Kept(<<a, b>>, K) = IF b \in K THEN Append(Kept(one, K), b) ELSE Kept(one, K)
  <2>1. Kept(Append(one, b), K) = IF b \in K THEN Append(Kept(one, K), b) ELSE Kept(one, K)
    BY <1>1, KeptAppend
  <2> QED
    BY ONLY <1>2, <1>4, <2>1
<1> QED
  BY ONLY <1>2, <1>5, <1>6

\* What get_vid does to both ends of an edge: known names keep their identifiers, new
\* ones get the next.
LEMMA NamedFacts ==
    ASSUME Numbered, num_vertices \in Nat, NEW from \in Names, NEW to \in Names, from # to
    PROVE  LET m == Named(from, to)
               n == num_vertices + Len(NewNames(from, to))
           IN  /\ n \in Nat /\ num_vertices <= n
               /\ DOMAIN m = DOMAIN name2vid \cup {from, to}
               /\ m \in [DOMAIN m -> 0 .. n - 1]
               /\ \A v \in DOMAIN name2vid : m[v] = name2vid[v]
               /\ \A v, w \in DOMAIN m : m[v] = m[w] => v = w
               /\ \A id \in num_vertices .. n - 1 : m[from] = id \/ m[to] = id
<1> DEFINE new == NewNames(from, to)
           At(v) == SelectInSeq(new, LAMBDA w : w = v)
           m == Named(from, to)
           n == num_vertices + Len(new)
<1>1. new = IF ~Known(from) THEN IF ~Known(to) THEN <<from, to>> ELSE <<from>>
            ELSE IF ~Known(to) THEN <<to>> ELSE <<>>
  <2>1. \A v \in {from, to} : v \in {u \in {from, to} : ~Known(u)} <=> ~Known(v)
    OBVIOUS
  <2> QED
    BY <2>1, KeptPair DEF NewNames
<1>2. ToSet(new) = {v \in {from, to} : ~Known(v)}
  BY <1>1 DEF ToSet
<1>3. m = [v \in DOMAIN name2vid \cup ToSet(new) |->
              IF v \in ToSet(new) THEN num_vertices - 1 + At(v) ELSE name2vid[v]]
  BY DEF Named
<1>4. ASSUME NEW k \in 1 .. Len(new), NEW v, new[k] = v, \A j \in 1 .. Len(new) : new[j] = v => j = k
      PROVE  At(v) = k
  <2>1. {i \in 1 .. Len(new) : new[i] = v} = {k}
    BY <1>4
  <2>2. At(v) = Min({k})
    BY <2>1 DEF SelectInSeq
  <2>3. Min({k}) = k
    BY DEF Min
  <2> QED
    BY <2>2, <2>3
<1>5. DOMAIN m = DOMAIN name2vid \cup {from, to}
  BY <1>2, <1>3 DEF Known
<1>6. \A v \in DOMAIN name2vid : m[v] = name2vid[v] /\ m[v] \in 0 .. num_vertices - 1
  BY <1>2, <1>3 DEF Known, Numbered
<1>7. \A v \in {from, to} : ~Known(v) => m[v] = num_vertices - 1 + At(v)
  BY <1>2, <1>3
<1>8. Len(new) \in Nat
  BY <1>1
<1> DEFINE Fresh ==
      /\ \A v \in {from, to} : ~Known(v) => m[v] \in num_vertices .. n - 1
      /\ ~Known(from) /\ ~Known(to) => m[from] # m[to]
      /\ \A id \in num_vertices .. n - 1 :
            (~Known(from) /\ m[from] = id) \/ (~Known(to) /\ m[to] = id)
<1>9. ASSUME Known(from) /\ Known(to) PROVE Fresh
  <2>1. Len(new) = 0
    BY <1>1, <1>9
  <2> HIDE DEF m, new
  <2> QED
    BY <1>9, <2>1
<1>10. ASSUME ~Known(from) /\ Known(to) PROVE Fresh
  <2>1. new = <<from>> /\ Len(new) = 1 /\ new[1] = from
    BY <1>1, <1>10
  <2>2. At(from) = 1
    <3> HIDE DEF At
    <3> QED
      BY <1>4, <2>1
  <2>3. m[from] = num_vertices
    <3> HIDE DEF m, At
    <3> QED
      BY <1>7, <1>10, <2>2
  <2> HIDE DEF m, new
  <2> QED
    BY <1>10, <2>1, <2>3
<1>11. ASSUME Known(from) /\ ~Known(to) PROVE Fresh
  <2>1. new = <<to>> /\ Len(new) = 1 /\ new[1] = to
    BY <1>1, <1>11
  <2>2. At(to) = 1
    <3> HIDE DEF At
    <3> QED
      BY <1>4, <2>1
  <2>3. m[to] = num_vertices
    <3> HIDE DEF m, At
    <3> QED
      BY <1>7, <1>11, <2>2
  <2> HIDE DEF m, new
  <2> QED
    BY <1>11, <2>1, <2>3
<1>12. ASSUME ~Known(from) /\ ~Known(to) PROVE Fresh
  <2>1. new = <<from, to>> /\ Len(new) = 2 /\ new[1] = from /\ new[2] = to
    BY <1>1, <1>12
  <2>2. At(from) = 1 /\ At(to) = 2
    <3> HIDE DEF At
    <3> QED
      BY <1>4, <2>1
  <2>3. m[from] = num_vertices /\ m[to] = num_vertices + 1
    <3> HIDE DEF m, At
    <3> QED
      BY <1>7, <1>12, <2>2
  <2> HIDE DEF m, new
  <2> QED
    BY <1>12, <2>1, <2>3
<1>13. Fresh
  BY <1>9, <1>10, <1>11, <1>12
<1>14. n \in Nat /\ num_vertices <= n
  BY <1>8
<1> HIDE DEF m, n
<1>15. \A v \in DOMAIN m : m[v] \in 0 .. n - 1
  BY <1>5, <1>6, <1>13, <1>14 DEF Known
<1>16. ASSUME NEW v \in DOMAIN m, NEW w \in DOMAIN m, m[v] = m[w] PROVE v = w
  <2>1. CASE Known(v) /\ Known(w)
    BY <1>6, <1>16, <2>1 DEF Known, Numbered
  <2>2. CASE ~Known(v) /\ ~Known(w)
    BY <1>5, <1>13, <1>16, <2>2 DEF Known
  <2>3. CASE (Known(v) /\ ~Known(w)) \/ (~Known(v) /\ Known(w))
    <3>1. \A u \in DOMAIN m : IF Known(u) THEN m[u] \in 0 .. num_vertices - 1
                               ELSE m[u] \in num_vertices .. n - 1
      BY <1>5, <1>6, <1>13 DEF Known
    <3>2. m[v] \in 0 .. num_vertices - 1 <=> ~(m[w] \in 0 .. num_vertices - 1)
      BY <1>14, <1>16, <2>3, <3>1
    <3> QED
      BY <1>16, <3>2
  <2> QED
    BY <2>1, <2>2, <2>3
<1>17. m \in [DOMAIN m -> 0 .. n - 1]
  <2>1. m = [v \in DOMAIN m |-> m[v]]
    BY <1>3
  <2> QED
    BY <1>15, <2>1
<1> QED
  BY <1>5, <1>6, <1>13, <1>14, <1>16, <1>17 DEF m, n

-----------------------------------------------------------------------------
(* The steps.                                                              *)

LEMMA GraphStays ==
    ASSUME HeaderIsLast, UNCHANGED <<bin, source>>
    PROVE  HeaderIsLast'
BY DEF HeaderIsLast, HeaderDone, IsGraphOf

LEMMA DegreesStay ==
    ASSUME DegreesWritten, UNCHANGED <<bin, deg>>
    PROVE  DegreesWritten'
BY DEF DegreesWritten, FileDegree

LEMMA InitIngestInv == Init => IngestInv
<1> SUFFICES ASSUME Init PROVE IngestInv
  OBVIOUS
<1> USE DEF Init
<1>1. Typed
  BY SizeAssumption, ScaleAssumption DEF Typed, TypeOK
<1>2. Opened /\ Converting /\ Converted /\ HeaderIsLast /\ DegreesWritten
  BY DEF Opened, Converting, Converted, HeaderIsLast, HeaderDone, DegreesWritten
<1>3. HeaderKnown /\ Counting /\ Splitting /\ SplitDone /\ SplitExact /\ DegreesLoaded
  BY DEF HeaderKnown, Counting, Splitting, SplitDone, SplitExact, DegreesLoaded
<1> QED
  BY <1>1, <1>2, <1>3 DEF IngestInv

\* The steps at which the later parts of the invariant have nothing to say.
LEMMA EarlyPc ==
    ASSUME pc' \in {"off", "convert", "degrees", "open"}
    PROVE  (HeaderKnown /\ Counting /\ Splitting /\ SplitDone /\ SplitExact /\ DegreesLoaded)'
BY DEF HeaderKnown, Counting, Splitting, SplitDone, SplitExact, DegreesLoaded

LEMMA StartRunInv ==
    ASSUME IngestInv, NEW lines \in Inputs, NEW f \in Flags, StartRun(lines, f)
    PROVE  IngestInv'
<1> USE DEF StartRun
<1>1. Typed /\ Opened /\ HeaderIsLast /\ DegreesWritten
  BY DEF IngestInv
<1>2. /\ UNCHANGED <<deg, low, h2h, name2vid, num_vertices, num_edges, degrees>>
      /\ UNCHANGED <<left, chunk, count, num_h2h_edges, edges>>
      /\ runs' = runs + 1 /\ runs < MaxRuns /\ flags' = f /\ pc = "off"
      /\ num_vertices = 0 /\ num_edges = 0 /\ name2vid = <<>> /\ degrees = <<>>
  BY <1>1 DEF builder, Opened
<1>3. lines \in Seq(Lines)
  BY InputsAssumption
<1>4. CASE ~Done
  <2>1. /\ pc' = "convert" /\ bin' = [header |-> <<0, 0>>, edges |-> <<>>]
        /\ source' = lines /\ input' = lines /\ deg = Absent
    BY <1>1, <1>4, AbsentAssumption DEF DegreesWritten, Done
  <2>2. bin' \in File
    BY <2>1 DEF File, IdPairs
  <2>3. Typed' /\ Opened'
    BY SizeAssumption, <1>1, <1>2, <1>3, <2>1, <2>2 DEF Typed, TypeOK, Opened
  <2>4. Read' = <<>>
    BY <1>3, <2>1, SubSeqEmpty DEF Read
  <2>5. Graph' = <<>>
    <3>1. Graph' = Kept(Read', Proper)
      BY DEF Graph, Proper
    <3> QED
      BY <2>4, <3>1, KeptEmpty
  <2>6. Converting'
    <3>1. input' = SubSeq(source', Len(source') - Len(input') + 1, Len(source'))
      BY <1>3, <2>1, SubSeqFull
    <3>2. (Numbered /\ Translated /\ DegreesCounted)'
      BY <1>2, <2>1, <2>5 DEF Numbered, Translated, DegreesCounted
    <3> QED
      BY <1>2, <1>3, <2>1, <2>4, <3>1, <3>2 DEF Converting
  <2>7. (Converted /\ HeaderIsLast /\ DegreesWritten)'
    BY <1>2, <2>1 DEF Converted, HeaderIsLast, HeaderDone, DegreesWritten
  <2> QED
    BY <2>1, <2>3, <2>6, <2>7, EarlyPc DEF IngestInv
<1>5. CASE Done
  <2>1. pc' = "open" /\ UNCHANGED <<bin, source, input>> /\ bin \in File
    BY <1>1, <1>5 DEF Done, Typed, TypeOK
  <2>2. Typed' /\ Opened'
    BY SizeAssumption, <1>1, <1>2, <2>1 DEF Typed, TypeOK, Opened
  <2>3. (Converting /\ Converted /\ HeaderIsLast /\ DegreesWritten)'
    BY <1>1, <1>2, <2>1, GraphStays, DegreesStay DEF Converting, Converted
  <2> QED
    BY <2>1, <2>2, <2>3, EarlyPc DEF IngestInv
<1> QED
  BY <1>4, <1>5

LEMMA EdgeFacts ==
    ASSUME NEW e \in IdPairs
    PROVE  e[1] \in Nat /\ e[2] \in Nat /\ ToSet(e) = {e[1], e[2]}
BY DEF IdPairs, ToSet

\* No edge of s has the end v.
LEMMA OccurrencesNone ==
    ASSUME NEW E, NEW s \in Seq(E), NEW v,
           \A k \in 1 .. Len(s) : s[k][1] # v /\ s[k][2] # v
    PROVE  Occurrences(s, v) = 0
<1>1. PICK F \in [0 .. Len(s) -> Nat] : CountedUpTo(s, v, F) /\ Occurrences(s, v) = F[Len(s)]
  BY CountFold
<1> DEFINE Good == {k \in Nat : k <= Len(s) => F[k] = 0}
<1>2. 0 \in Good
  BY <1>1 DEF CountedUpTo
<1>3. ASSUME NEW k \in Nat, k \in Good PROVE k + 1 \in Good
  <2>1. ASSUME k + 1 <= Len(s) PROVE F[k + 1] = 0
    <3>1. k + 1 \in 1 .. Len(s) /\ (k + 1) - 1 = k /\ F[k] = 0
      BY <1>3, <2>1
    <3>2. F[k + 1] = Counted(F[k], s[k + 1], v)
      BY <1>1, <3>1 DEF CountedUpTo
    <3> QED
      BY <3>1, <3>2 DEF Counted
  <2> QED
    BY <2>1
<1>4. Nat \subseteq Good
  <2> HIDE DEF Good
  <2> QED
    BY ONLY <1>2, <1>3, InductionOnNat
<1> QED
  BY <1>1, <1>4

\* Reading one more line.
LEMMA ReadNext ==
    ASSUME source \in Seq(Lines), input # <<>>, input \in Seq(Lines),
           Len(input) <= Len(source),
           input = SubSeq(source, Len(source) - Len(input) + 1, Len(source)),
           UNCHANGED source, input' = Tail(input)
    PROVE  /\ input' \in Seq(Lines) /\ Len(input') <= Len(source')
           /\ input' = SubSeq(source', Len(source') - Len(input') + 1, Len(source'))
           /\ Read \in Seq(Lines) /\ Head(input) \in Lines
           /\ Read' = Append(Read, Head(input))
<1> DEFINE k == Len(source) - Len(input)
<1>1. k \in Nat /\ k + 1 \in 1 .. Len(source) /\ Len(source) \in k + 1 .. Len(source)
  BY EmptySeq
<1>2. Len(input') = Len(input) - 1 /\ input' \in Seq(Lines) /\ Head(input) \in Lines
  BY HeadTailProperties
<1>3. Len(source') - Len(input') = k + 1 /\ Len(input') <= Len(source')
  BY <1>1, <1>2
<1>4. Head(input) = source[k + 1] /\ Tail(input) = SubSeq(source, (k + 1) + 1, Len(source))
  <2> HIDE DEF k
  <2>1. input = SubSeq(source, k + 1, Len(source))
    BY DEF k
  <2> QED
    BY <1>1, <2>1, HeadTailOfSubSeq
<1>5. Read \in Seq(Lines)
  <2>1. \A i \in 1 .. k : source[i] \in Lines
    BY <1>1
  <2> QED
    BY <1>1, <2>1, SubSeqProperties DEF Read
<1>6. Read' = SubSeq(source, 1, k + 1)
  BY <1>3 DEF Read
<1>7. SubSeq(source, 1, k + 1) = SubSeq(source, 1, k) \o <<source[k + 1]>>
  <2>1. 1 \in 1 .. Len(source) /\ k + 1 \in 1 .. Len(source) /\ (k + 1) - 1 = k
    BY <1>1
  <2> HIDE DEF k
  <2>2. SubSeq(source, 1, k + 1) = SubSeq(source, 1, (k + 1) - 1) \o <<source[k + 1]>>
    BY <2>1, SubSeqRecursiveSecond
  <2> QED
    BY <2>1, <2>2
<1>8. Append(Read, Head(input)) = Read \o <<Head(input)>>
  BY <1>2, <1>5, AppendIsConcat
<1>9. Read = SubSeq(source, 1, k)
  BY DEF Read
<1> QED
  BY <1>2, <1>3, <1>4, <1>5, <1>6, <1>7, <1>8, <1>9

LEMMA SkipSelfEdgeInv ==
    ASSUME IngestInv, SkipSelfEdge
    PROVE  IngestInv'
<1> USE DEF SkipSelfEdge
<1>1. Typed /\ Opened /\ HeaderIsLast /\ DegreesWritten /\ Converting /\ pc = "convert"
  BY DEF IngestInv
<1>2. /\ UNCHANGED <<bin, deg, low, h2h, runs, pc, flags, source, name2vid, num_vertices>>
      /\ UNCHANGED <<num_edges, degrees, left, chunk, count, num_h2h_edges, edges>>
      /\ input' = Tail(input) /\ input # <<>>
  BY DEF files, params, builder
<1>3. /\ input' \in Seq(Lines) /\ Len(input') <= Len(source')
      /\ input' = SubSeq(source', Len(source') - Len(input') + 1, Len(source'))
      /\ Read \in Seq(Lines) /\ Head(input) \in Lines
      /\ Read' = Append(Read, Head(input))
  BY <1>1, <1>2, ReadNext DEF Typed, TypeOK, Converting
<1>4. Typed' /\ Opened'
  BY SizeAssumption, <1>1, <1>2, <1>3 DEF Typed, TypeOK, Opened
<1>5. Graph' = Graph
  <2>1. Head(input) \notin Proper
    BY <1>1 DEF Proper
  <2>2. Graph' = Kept(Read', Proper)
    BY DEF Graph, Proper
  <2>3. Kept(Append(Read, Head(input)), Proper) = Kept(Read, Proper)
    BY <1>3, <2>1, KeptAppend
  <2> QED
    BY <1>3, <2>2, <2>3 DEF Graph
<1>6. Converting'
  <2>1. \A i \in 1 .. Len(Read') : Len(Read'[i]) = 2
    BY <1>1, <1>3, AppendProperties DEF Converting
  <2>2. (Numbered /\ Translated /\ DegreesCounted)'
    BY <1>1, <1>2, <1>5 DEF Converting, Numbered, Translated, DegreesCounted, FileDegree
  <2> QED
    BY <1>1, <1>2, <1>3, <2>1, <2>2 DEF Converting
<1>7. Converted'
  BY <1>1, <1>2 DEF Converted
<1>8. HeaderIsLast' /\ DegreesWritten'
  BY <1>1, <1>2, GraphStays, DegreesStay
<1> QED
  BY <1>1, <1>2, <1>4, <1>6, <1>7, <1>8, EarlyPc DEF IngestInv

LEMMA AddEdgeInv ==
    ASSUME IngestInv, AddEdge
    PROVE  IngestInv'
<1> DEFINE from == Head(input)[1]
           to == Head(input)[2]
           m == Named(from, to)
           e == <<m[from], m[to]>>
           n == num_vertices + Len(NewNames(from, to))
           es == bin.edges
<1>1. Typed /\ Opened /\ HeaderIsLast /\ DegreesWritten /\ Converting /\ pc = "convert"
  BY DEF IngestInv, AddEdge
<1>2. /\ UNCHANGED <<deg, low, h2h, runs, pc, flags, source, left, chunk, count>>
      /\ UNCHANGED <<num_h2h_edges, edges>>
      /\ input' = Tail(input) /\ input # <<>> /\ Len(Head(input)) = 2
      /\ from # to /\ num_edges' = num_edges + 1 /\ name2vid' = m /\ num_vertices' = n
      /\ degrees' = BothCounted(degrees, e)
      /\ bin' = [bin EXCEPT !.edges = Append(@, e)]
  BY DEF AddEdge, params, builder
<1>3. /\ input' \in Seq(Lines) /\ Len(input') <= Len(source')
      /\ input' = SubSeq(source', Len(source') - Len(input') + 1, Len(source'))
      /\ Read \in Seq(Lines) /\ Head(input) \in Lines
      /\ Read' = Append(Read, Head(input))
  BY <1>1, <1>2, ReadNext DEF Typed, TypeOK, Converting
<1>4. from \in Names /\ to \in Names /\ Head(input) \in Proper
  BY <1>2, <1>3, LineFacts DEF Proper
<1>5. num_vertices \in Nat /\ Numbered /\ Translated /\ DegreesCounted /\ num_edges = Len(es)
  BY <1>1 DEF Typed, TypeOK, Converting
<1>6. /\ n \in Nat /\ num_vertices <= n
      /\ DOMAIN m = DOMAIN name2vid \cup {from, to}
      /\ m \in [DOMAIN m -> 0 .. n - 1]
      /\ \A v \in DOMAIN name2vid : m[v] = name2vid[v]
      /\ \A v, w \in DOMAIN m : m[v] = m[w] => v = w
      /\ \A id \in num_vertices .. n - 1 : m[from] = id \/ m[to] = id
  <2> HIDE DEF from, to
  <2> QED
    BY <1>2, <1>4, <1>5, NamedFacts
<1>7. e \in IdPairs /\ e[1] = m[from] /\ e[2] = m[to] /\ e[1] # e[2] /\ e[1] \in Nat /\ e[2] \in Nat
  <2> HIDE DEF from, to, m, n
  <2> QED
    BY <1>2, <1>6 DEF IdPairs
<1>8. /\ bin \in File /\ es \in Seq(IdPairs) /\ bin.header = <<0, 0>>
      /\ bin' \in File /\ bin'.edges = Append(es, e) /\ bin'.header = <<0, 0>>
  <2> HIDE DEF e
  <2>1. bin \in File /\ bin.header = <<0, 0>>
    BY <1>1 DEF Opened, Converting
  <2>2. bin'.edges = Append(es, e) /\ bin'.header = <<0, 0>>
    BY <1>2, <2>1 DEF File
  <2>3. es \in Seq(IdPairs)
    BY <2>1 DEF File
  <2>4. Append(es, e) \in Seq(IdPairs)
    <3> HIDE DEF es
    <3> QED
      BY <1>7, <2>3, AppendProperties
  <2>5. bin' \in File
    <3>1. bin' = [header |-> <<0, 0>>, edges |-> Append(es, e)]
      BY <1>2, <2>1 DEF File
    <3>2. <<0, 0>> \in {<<>>} \cup IdPairs
      BY DEF IdPairs
    <3> QED
      BY ONLY <2>4, <3>1, <3>2 DEF File
  <2> QED
    BY <2>1, <2>2, <2>3, <2>5
<1> HIDE DEF m, e, n, from, to
<1>9. /\ Append(es, e) \in Seq(IdPairs) /\ Len(Append(es, e)) = Len(es) + 1 /\ Len(es) \in Nat
      /\ Append(es, e)[Len(es) + 1] = e
      /\ \A i \in 1 .. Len(es) : Append(es, e)[i] = es[i]
  <2> HIDE DEF es
  <2> QED
    BY <1>7, <1>8, AppendProperties
<1>10. Graph' = Append(Graph, Head(input)) /\ Graph \in Seq(Lines)
  <2>1. Graph' = Kept(Read', Proper)
    BY DEF Graph, Proper
  <2>2. Kept(Append(Read, Head(input)), Proper) = Append(Kept(Read, Proper), Head(input))
    BY <1>3, <1>4, KeptAppend
  <2>3. Graph \in Seq(Lines)
    BY <1>3, KeptType DEF Graph
  <2> QED
    BY <1>3, <2>1, <2>2, <2>3 DEF Graph
<1>11. Len(Graph) = Len(es) /\ Len(Graph') = Len(es) + 1 /\ Graph'[Len(es) + 1] = Head(input)
       /\ \A i \in 1 .. Len(es) : Graph'[i] = Graph[i]
  BY <1>3, <1>5, <1>10, AppendProperties DEF Translated
<1>12. Numbered'
  BY <1>2, <1>4, <1>6, <1>5 DEF Numbered
<1>13. Translated'
  <2>1. ASSUME NEW i \in 1 .. Len(Graph'), NEW k \in {1, 2}
        PROVE  Graph'[i][k] \in DOMAIN m /\ bin'.edges[i][k] = m[Graph'[i][k]]
    <3>1. CASE i \in 1 .. Len(es)
      <4>1. Graph[i][k] \in DOMAIN name2vid /\ es[i][k] = name2vid[Graph[i][k]]
        BY <1>5, <1>11, <3>1 DEF Translated
      <4>2. Graph'[i] = Graph[i] /\ bin'.edges[i] = es[i]
        BY <1>8, <1>9, <1>11, <3>1
      <4> QED
        BY <1>6, <4>1, <4>2
    <3>2. CASE i = Len(es) + 1
      <4>1. Graph'[i] = Head(input) /\ bin'.edges[i] = e
        BY <1>8, <1>9, <1>11, <3>2
      <4>2. Head(input)[1] = from /\ Head(input)[2] = to
        BY DEF from, to
      <4> QED
        BY <1>6, <1>7, <4>1, <4>2
    <3> QED
      BY <1>9, <1>11, <3>1, <3>2
  <2>2. ASSUME NEW id \in 0 .. n - 1
        PROVE  \E i \in 1 .. Len(bin'.edges), k \in {1, 2} : bin'.edges[i][k] = id
    <3>1. CASE id \in 0 .. num_vertices - 1
      <4>1. PICK i \in 1 .. Len(es), k \in {1, 2} : es[i][k] = id
        BY <1>5, <3>1 DEF Translated
      <4>2. i \in 1 .. Len(bin'.edges) /\ bin'.edges[i] = es[i]
        BY <1>8, <1>9
      <4> QED
        BY <4>1, <4>2
    <3>2. CASE id \in num_vertices .. n - 1
      <4>1. Len(es) + 1 \in 1 .. Len(bin'.edges) /\ bin'.edges[Len(es) + 1] = e
        BY <1>8, <1>9
      <4>2. e[1] = id \/ e[2] = id
        BY <1>6, <1>7, <3>2
      <4> QED
        BY <4>1, <4>2
    <3> QED
      BY <1>5, <1>6, <3>1, <3>2
  <2>3. Len(bin'.edges) = Len(Graph')
    BY <1>8, <1>9, <1>11
  <2> QED
    BY <1>2, <2>1, <2>2, <2>3 DEF Translated
<1>14. DegreesCounted' /\ degrees' \in Seq(Nat)
  <2>1. degrees' = [i \in 1 .. n |->
            (IF i \in DOMAIN degrees THEN degrees[i] ELSE 0) + (IF i - 1 \in {e[1], e[2]} THEN 1 ELSE 0)]
    BY <1>2, <1>7, EdgeFacts DEF BothCounted
  <2>2. DOMAIN degrees = 1 .. num_vertices /\ \A i \in 1 .. num_vertices : degrees[i] \in Nat
    BY <1>1, <1>5 DEF Typed, TypeOK, DegreesCounted
  <2>3. degrees' \in Seq(Nat) /\ Len(degrees') = n
    <3>1. \A i \in 1 .. n : degrees'[i] \in Nat
      BY <2>1, <2>2
    <3>2. degrees' \in [1 .. n -> Nat]
      BY <2>1, <3>1
    <3> QED
      BY <1>6, <3>2
  <2>4. ASSUME NEW i \in 1 .. n PROVE degrees'[i] = Occurrences(bin'.edges, i - 1)
    <3>1. (IF i \in DOMAIN degrees THEN degrees[i] ELSE 0) = Occurrences(es, i - 1)
      <4>1. CASE i \in 1 .. num_vertices
        BY <1>5, <2>2, <4>1 DEF DegreesCounted, FileDegree
      <4>2. CASE i \notin 1 .. num_vertices
        <5>1. i - 1 \notin 0 .. num_vertices - 1
          BY <1>5, <4>2
        <5>2. \A k \in 1 .. Len(es) : es[k][1] # i - 1 /\ es[k][2] # i - 1
          <6>1. \A k \in 1 .. Len(es) : es[k][1] \in 0 .. num_vertices - 1 /\ es[k][2] \in 0 .. num_vertices - 1
            <7>1. ASSUME NEW k \in 1 .. Len(es), NEW j \in {1, 2}
                  PROVE  es[k][j] \in 0 .. num_vertices - 1
              <8>1. Graph[k][j] \in DOMAIN name2vid /\ es[k][j] = name2vid[Graph[k][j]]
                BY <1>5, <1>11 DEF Translated
              <8> QED
                BY <1>5, <8>1 DEF Numbered
            <7> QED
              BY <7>1
          <6> QED
            BY <5>1, <6>1
        <5>3. Occurrences(es, i - 1) = 0
          <6> HIDE DEF es
          <6> QED
            BY <1>8, <5>2, OccurrencesNone
        <5> QED
          BY <2>2, <4>2, <5>3
      <4> QED
        BY <4>1, <4>2
    <3>2. Occurrences(Append(es, e), i - 1) = Counted(Occurrences(es, i - 1), e, i - 1)
      <4> HIDE DEF es
      <4> QED
        BY <1>7, <1>8, OccurrencesAppend
    <3>3. Occurrences(es, i - 1) \in Nat
      <4> HIDE DEF es
      <4> QED
        BY <1>8, OccurrencesType
    <3>4. Counted(Occurrences(es, i - 1), e, i - 1)
            = Occurrences(es, i - 1) + (IF i - 1 \in {e[1], e[2]} THEN 1 ELSE 0)
      BY <1>7, <3>3 DEF Counted
    <3> QED
      BY <1>8, <2>1, <3>1, <3>2, <3>4
  <2> QED
    BY <1>2, <2>3, <2>4 DEF DegreesCounted, FileDegree
<1>15. Typed' /\ Opened'
  <2>1. num_edges' \in Nat
    BY <1>1, <1>2 DEF Typed, TypeOK
  <2> QED
    BY <1>1, <1>2, <1>3, <1>6, <1>8, <1>14, <2>1 DEF Typed, TypeOK, Opened
<1>16. Converting'
  <2>1. \A i \in 1 .. Len(Read') : Len(Read'[i]) = 2
    BY <1>1, <1>2, <1>3, AppendProperties DEF Converting
  <2>2. num_edges' = Len(bin'.edges)
    BY <1>2, <1>5, <1>8, <1>9
  <2> QED
    BY <1>1, <1>2, <1>3, <1>8, <1>12, <1>13, <1>14, <2>1, <2>2 DEF Converting
<1>17. (Converted /\ HeaderIsLast /\ DegreesWritten)'
  BY <1>1, <1>2, <1>8 DEF Converted, HeaderIsLast, HeaderDone, DegreesWritten, Converting
<1> QED
  BY <1>1, <1>2, <1>15, <1>16, <1>17, EarlyPc DEF IngestInv

\* All lines are read: what was written is the graph.
LEMMA ConvertedWhole ==
    ASSUME Typed, Converting, pc = "convert", input = <<>>, bin \in File
    PROVE  \A h : h = <<num_vertices, num_edges>> =>
              LET g == Kept(source, {l \in ToSet(source) : l[1] # l[Len(l)]})
              IN  /\ \A i \in DOMAIN source : Len(source[i]) = 2
                  /\ Len(bin.edges) = Len(g) /\ h[2] = Len(g)
                  /\ UNION {ToSet(bin.edges[i]) : i \in DOMAIN bin.edges} = 0 .. h[1] - 1
                  /\ \A i, j \in DOMAIN g, k, l \in {1, 2} :
                        g[i][k] = g[j][l] <=> bin.edges[i][k] = bin.edges[j][l]
<1> DEFINE S == {l \in ToSet(source) : l[1] # l[Len(l)]}
           g == Kept(source, S)
           es == bin.edges
<1>1. /\ source \in Seq(Lines) /\ num_vertices \in Nat /\ es \in Seq(IdPairs)
      /\ Numbered /\ Translated /\ num_edges = Len(es)
      /\ \A i \in 1 .. Len(Read) : Len(Read[i]) = 2
  BY DEF Typed, TypeOK, Converting, File
<1>2. Read = source
  <2>1. Len(source) - Len(input) = Len(source)
    BY <1>1
  <2> QED
    BY <1>1, <2>1, SubSeqFull DEF Read
<1>3. g = Graph
  <2>1. \A i \in 1 .. Len(source) : source[i] \in S <=> source[i] \in Proper
    BY <1>1 DEF ToSet, Proper
  <2> HIDE DEF S
  <2> QED
    BY <1>1, <1>2, <2>1, KeptSame DEF Graph
<1>4. /\ Len(Graph) = Len(es) /\ Graph \in Seq(Lines) /\ DOMAIN Graph = 1 .. Len(es)
      /\ DOMAIN es = 1 .. Len(es) /\ DOMAIN source = 1 .. Len(source)
  <2>1. Graph \in Seq(Lines)
    BY <1>1, <1>2, KeptType DEF Graph
  <2>2. Len(Graph) = Len(es)
    BY <1>1 DEF Translated
  <2> HIDE DEF es
  <2> QED
    BY <1>1, <2>1, <2>2
<1>5. \A i \in 1 .. Len(es), k \in {1, 2} :
          /\ Graph[i][k] \in DOMAIN name2vid /\ es[i][k] = name2vid[Graph[i][k]]
          /\ es[i][k] \in 0 .. num_vertices - 1
  <2> TAKE i \in 1 .. Len(es), k \in {1, 2}
  <2>1. Graph[i][k] \in DOMAIN name2vid /\ es[i][k] = name2vid[Graph[i][k]]
    BY <1>1, <1>4 DEF Translated
  <2>2. name2vid[Graph[i][k]] \in 0 .. num_vertices - 1
    BY <1>1, <2>1 DEF Numbered
  <2> QED
    BY <2>1, <2>2
<1>6. UNION {ToSet(es[i]) : i \in DOMAIN es} = 0 .. num_vertices - 1
  <2>1. \A i \in 1 .. Len(es) : ToSet(es[i]) = {es[i][1], es[i][2]}
    <3> TAKE i \in 1 .. Len(es)
    <3>1. es[i] \in IdPairs
      BY <1>1
    <3> QED
      BY <3>1, EdgeFacts
  <2>2. ASSUME NEW id \in 0 .. num_vertices - 1 PROVE id \in UNION {ToSet(es[i]) : i \in DOMAIN es}
    <3>1. PICK i \in 1 .. Len(es), k \in {1, 2} : es[i][k] = id
      BY <1>1 DEF Translated
    <3>2. id \in ToSet(es[i])
      BY <2>1, <3>1
    <3> QED
      BY <1>4, <3>2
  <2>3. ASSUME NEW i \in DOMAIN es PROVE ToSet(es[i]) \subseteq 0 .. num_vertices - 1
    <3>1. i \in 1 .. Len(es)
      BY <1>4
    <3>2. es[i][1] \in 0 .. num_vertices - 1 /\ es[i][2] \in 0 .. num_vertices - 1
      BY <1>5, <3>1
    <3> QED
      BY <2>1, <3>1, <3>2
  <2> QED
    BY <2>2, <2>3
<1>7. \A i, j \in DOMAIN Graph, k, l \in {1, 2} : Graph[i][k] = Graph[j][l] <=> es[i][k] = es[j][l]
  <2> TAKE i, j \in DOMAIN Graph, k, l \in {1, 2}
  <2>1. /\ Graph[i][k] \in DOMAIN name2vid /\ es[i][k] = name2vid[Graph[i][k]]
        /\ Graph[j][l] \in DOMAIN name2vid /\ es[j][l] = name2vid[Graph[j][l]]
    BY <1>4, <1>5
  <2> QED
    BY <1>1, <2>1 DEF Numbered
<1> HIDE DEF g
<1>8. \A i \in DOMAIN source : Len(source[i]) = 2
  BY <1>1, <1>2, <1>4
<1> SUFFICES ASSUME NEW h, h = <<num_vertices, num_edges>>
             PROVE  /\ \A i \in DOMAIN source : Len(source[i]) = 2
                    /\ Len(bin.edges) = Len(g) /\ h[2] = Len(g)
                    /\ UNION {ToSet(bin.edges[i]) : i \in DOMAIN bin.edges} = 0 .. h[1] - 1
                    /\ \A i, j \in DOMAIN g, k, l \in {1, 2} :
                          g[i][k] = g[j][l] <=> bin.edges[i][k] = bin.edges[j][l]
  BY DEF g
<1>9. h[1] = num_vertices /\ h[2] = Len(es)
  BY <1>1
<1> QED
  BY <1>3, <1>4, <1>6, <1>7, <1>8, <1>9

LEMMA FinishBinInv ==
    ASSUME IngestInv, FinishBin
    PROVE  IngestInv'
<1>1. Typed /\ Opened /\ Converting /\ pc = "convert" /\ bin \in File
  BY DEF IngestInv, FinishBin, Opened
<1>2. /\ UNCHANGED <<deg, low, h2h, runs, flags, source, left, chunk, count>>
      /\ UNCHANGED <<num_h2h_edges, edges, input, name2vid, num_vertices, num_edges, degrees>>
      /\ pc' = "degrees" /\ bin' = [bin EXCEPT !.header = <<num_vertices, num_edges>>]
      /\ input = <<>>
  BY DEF FinishBin, params, builder, converter
<1>3. bin'.header = <<num_vertices, num_edges>> /\ bin'.edges = bin.edges /\ bin' \in File
  <2>1. bin' = [header |-> <<num_vertices, num_edges>>, edges |-> bin.edges]
    BY <1>1, <1>2 DEF File
  <2>2. <<num_vertices, num_edges>> \in {<<>>} \cup IdPairs /\ bin.edges \in Seq(IdPairs)
    BY <1>1 DEF Typed, TypeOK, IdPairs, File
  <2> QED
    BY <2>1, <2>2 DEF File
<1>4. Typed' /\ Opened'
  BY <1>1, <1>2, <1>3 DEF Typed, TypeOK, Opened
<1>5. IsGraphOf(source)'
  BY <1>1, <1>2, <1>3, ConvertedWhole DEF IsGraphOf
<1>6. (Converting /\ Converted /\ HeaderIsLast /\ DegreesWritten)'
  BY <1>1, <1>2, <1>3, <1>5
  DEF Converting, Converted, HeaderIsLast, DegreesWritten, DegreesCounted, FileDegree
<1> QED
  BY <1>2, <1>4, <1>6, EarlyPc DEF IngestInv

LEMMA WriteDegreesInv ==
    ASSUME IngestInv, WriteDegrees
    PROVE  IngestInv'
<1>1. /\ Typed /\ Opened /\ Converted /\ HeaderIsLast /\ pc = "degrees" /\ bin \in File
      /\ DegreesCounted
  BY DEF IngestInv, WriteDegrees, Opened, Converted
<1>2. /\ UNCHANGED <<bin, low, h2h, runs, flags, source, left, chunk, count>>
      /\ UNCHANGED <<num_h2h_edges, edges, input, num_vertices, num_edges>>
      /\ pc' = "open" /\ deg' = degrees /\ degrees' = <<>>
  BY DEF WriteDegrees, params, builder
<1>3. Typed' /\ Opened'
  BY <1>1, <1>2 DEF Typed, TypeOK, Opened
<1>4. (Converting /\ Converted)' /\ HeaderIsLast'
  BY <1>1, <1>2, GraphStays DEF Converting, Converted
<1>5. DegreesWritten'
  BY <1>1, <1>2 DEF DegreesWritten, DegreesCounted, FileDegree, Opened
<1> QED
  BY <1>2, <1>3, <1>4, <1>5, EarlyPc DEF IngestInv

\* What has been converted stays as it is once the binary file is open.
LEMMA ConversionOver ==
    ASSUME IngestInv, UNCHANGED <<bin, deg, source>>, pc' \notin {"convert", "degrees"}
    PROVE  (Converting /\ Converted /\ HeaderIsLast /\ DegreesWritten)'
BY GraphStays, DegreesStay DEF IngestInv, Converting, Converted

LEMMA OpenInv ==
    ASSUME IngestInv, Open
    PROVE  IngestInv'
<1>1. Typed /\ Opened /\ HeaderIsLast /\ pc = "open" /\ bin \in File
  BY DEF IngestInv, Open, Opened
<1>2. /\ UNCHANGED <<bin, deg, runs, flags, source, input, degrees, edges>>
      /\ pc' = "count" /\ h2h' = <<>> /\ low' = IF flags.write_low THEN Empty ELSE low
      /\ num_h2h_edges' \in UnsetCount
  BY DEF Open, params
<1>3. PICK h \in IdPairs :
          /\ bin.header # <<>> => h = bin.header
          /\ num_vertices' = h[1] /\ num_edges' = h[2]
          /\ left' = h[2] /\ chunk' = FirstChunk(h[2])
          /\ count' = [i \in 1 .. h[1] |-> 0]
  <2>1. bin.header \in {<<>>} \cup IdPairs
    BY <1>1 DEF File
  <2> QED
    BY <2>1, UnsetAssumption DEF Open
<1>4. h[1] \in Nat /\ h[2] \in Nat /\ h = <<h[1], h[2]>>
  BY DEF IdPairs
<1>5. chunk' \in 0 .. ChunkSize /\ chunk' <= left'
  BY <1>3, <1>4, ScaleAssumption DEF FirstChunk
<1>6. Empty \in File /\ Empty.edges = <<>>
  BY DEF Empty, File
<1>7. count' \in Seq(Nat) /\ Len(count') = h[1] /\ num_h2h_edges' \in Nat
  BY <1>2, <1>3, <1>4, UnsetAssumption
<1>8. Typed'
  BY <1>1, <1>2, <1>3, <1>4, <1>5, <1>6, <1>7 DEF Typed, TypeOK
<1>9. Opened'
  BY <1>1, <1>2, <1>3, <1>4, <1>6 DEF Opened
<1>10. (Converting /\ Converted /\ HeaderIsLast /\ DegreesWritten)'
  BY <1>2, ConversionOver
<1>11. HeaderKnown'
  <2>1. CASE bin.header = <<>>
    BY <1>2, <2>1 DEF HeaderKnown
  <2>2. CASE bin.header # <<>>
    <3>1. bin.header = <<num_vertices', num_edges'>>
      BY <1>3, <1>4, <2>2
    <3>2. num_vertices' > 0 => num_edges' = Len(bin.edges)
      <4> SUFFICES ASSUME h[1] > 0 PROVE h[2] = Len(bin.edges)
        BY <1>3
      <4>1. HeaderDone
        BY <1>1, <1>3, <1>4, <2>2, AbsentAssumption DEF HeaderDone
      <4> QED
        BY <1>1, <1>3, <2>2, <4>1 DEF HeaderIsLast, IsGraphOf
    <3> QED
      BY <1>2, <3>1, <3>2 DEF HeaderKnown
  <2> QED
    BY <2>1, <2>2
<1>12. Counting'
  <2>1. ASSUME NEW i \in 1 .. num_vertices' PROVE count'[i] = Occurrences(Passed', i - 1)
    <3>1. Passed' = <<>>
      <4>1. Passed' = SubSeq(bin'.edges, 1, 0)
        BY <1>3, <1>4 DEF Passed
      <4> QED
        BY <4>1, SubSeqEmpty
    <3> QED
      BY <1>3, <2>1, <3>1, OccurrencesEmpty
  <2> QED
    BY <1>2, <1>3, <1>6, <1>7, <2>1 DEF Counting
<1>13. (Splitting /\ SplitDone /\ SplitExact /\ DegreesLoaded)'
  BY <1>2 DEF Splitting, SplitDone, SplitExact, DegreesLoaded
<1> QED
  BY <1>8, <1>9, <1>10, <1>11, <1>12, <1>13 DEF IngestInv

\* A chunk is the next part of the file, as long as the file is as long as the header says.
LEMMA ChunkFacts ==
    ASSUME Typed, bin \in File, left <= num_edges
    PROVE  /\ ChunkOf(bin) \in Seq(IdPairs) /\ Len(ChunkOf(bin)) = chunk
           /\ Passed \in Seq(IdPairs) \/ num_edges # Len(bin.edges)
           /\ num_edges = Len(bin.edges) =>
                 Passed \o ChunkOf(bin) = SubSeq(bin.edges, 1, num_edges - (left - chunk))
<1> DEFINE es == bin.edges
           k == num_edges - left
           c == ChunkOf(bin)
<1>1. /\ es \in Seq(IdPairs) /\ k \in Nat /\ chunk \in Nat /\ left \in Nat /\ num_edges \in Nat
      /\ chunk <= left /\ <<0, 0>> \in IdPairs
  BY ScaleAssumption DEF Typed, TypeOK, File, IdPairs
<1>2. c = [i \in 1 .. chunk |-> IF k + i <= Len(es) THEN es[k + i] ELSE <<0, 0>>]
  BY DEF ChunkOf
<1> HIDE DEF c
<1>3. \A i \in 1 .. chunk : c[i] \in IdPairs
  <2> TAKE i \in 1 .. chunk
  <2>1. CASE k + i <= Len(es)
    <3>1. k + i \in 1 .. Len(es)
      BY <1>1, <2>1
    <3> QED
      BY <1>1, <1>2, <2>1, <3>1
  <2> QED
    BY <1>1, <1>2, <2>1
<1>4. c \in Seq(IdPairs) /\ Len(c) = chunk
  <2>1. c \in [1 .. chunk -> IdPairs]
    BY <1>2, <1>3
  <2> QED
    BY <1>1, <2>1
<1>5. ASSUME num_edges = Len(es)
      PROVE  Passed \in Seq(IdPairs) /\ Passed \o c = SubSeq(es, 1, num_edges - (left - chunk))
  <2>1. Passed = SubSeq(es, 1, k)
    BY DEF Passed
  <2> HIDE DEF es, k
  <2>2. k + chunk <= Len(es) /\ k + chunk = num_edges - (left - chunk) /\ k <= k + chunk
    BY <1>1, <1>5 DEF k
  <2>3. c = SubSeq(es, k + 1, k + chunk)
    <3>1. \A i \in k + 1 .. k + chunk : es[i] \in IdPairs
      BY <1>1, <2>2
    <3>2. k + 1 \in Int /\ k + chunk \in Int
      BY <1>1
    <3>3. /\ SubSeq(es, k + 1, k + chunk) \in Seq(IdPairs)
          /\ Len(SubSeq(es, k + 1, k + chunk))
               = IF k + 1 <= k + chunk THEN (k + chunk) - (k + 1) + 1 ELSE 0
          /\ \A i \in 1 .. (k + chunk) - (k + 1) + 1 :
                SubSeq(es, k + 1, k + chunk)[i] = es[(k + 1) + i - 1]
      BY ONLY <3>1, <3>2, SubSeqProperties
    <3>4. PICK t \in Seq(IdPairs) : t = SubSeq(es, k + 1, k + chunk)
      BY <3>3
    <3>5. Len(t) = Len(c)
      BY <1>1, <1>4, <3>3, <3>4
    <3>6. \A i \in 1 .. Len(c) : c[i] = t[i]
      <4> TAKE i \in 1 .. Len(c)
      <4>1. c[i] = es[k + i]
        BY <1>1, <1>2, <1>4, <2>2
      <4>2. t[i] = es[(k + 1) + i - 1] /\ (k + 1) + i - 1 = k + i
        BY <1>1, <1>4, <3>3, <3>4
      <4> QED
        BY <4>1, <4>2
    <3>7. c = t
      BY ONLY <1>4, <3>5, <3>6, t \in Seq(IdPairs), SeqEqual
    <3> QED
      BY <3>4, <3>7
  <2>4. SubSeq(es, 1, k) \o SubSeq(es, k + 1, k + chunk) = SubSeq(es, 1, k + chunk)
    <3>1. 1 \in 1 .. Len(es) + 1 /\ k \in 1 - 1 .. Len(es) /\ k + chunk \in k .. Len(es)
      BY <1>1, <2>2
    <3> QED
      BY ONLY <1>1, <3>1, ConcatAdjacentSubSeq
  <2>5. SubSeq(es, 1, k) \in Seq(IdPairs)
    <3>1. \A i \in 1 .. k : es[i] \in IdPairs
      BY <1>1, <2>2
    <3>2. k \in Int /\ 1 \in Int
      BY <1>1
    <3> QED
      BY ONLY <3>1, <3>2, SubSeqProperties
  <2> QED
    BY <2>1, <2>2, <2>3, <2>4, <2>5
<1> QED
  BY <1>4, <1>5 DEF c

LEMMA NextChunkFacts ==
    ASSUME Typed
    PROVE  /\ left - chunk \in Nat
           /\ NextChunk(left - chunk, chunk) \in 0 .. ChunkSize
           /\ NextChunk(left - chunk, chunk) <= left - chunk
BY ScaleAssumption DEF Typed, TypeOK, NextChunk

LEMMA CountChunkInv ==
    ASSUME IngestInv, CountChunk
    PROVE  IngestInv'
<1>1. Typed /\ Opened /\ HeaderKnown /\ Counting /\ pc = "count" /\ bin \in File
  BY DEF IngestInv, CountChunk, Opened
<1>2. /\ UNCHANGED <<bin, deg, low, h2h, runs, pc, flags, source, input, degrees, edges>>
      /\ UNCHANGED <<num_vertices, num_edges, num_h2h_edges>>
      /\ count' = [i \in DOMAIN count |-> count[i] + Occurrences(ChunkOf(bin), i - 1)]
      /\ left' = left - chunk /\ chunk' = NextChunk(left - chunk, chunk) /\ num_vertices > 0
  BY DEF CountChunk, files, params, converter
<1>3. /\ ChunkOf(bin) \in Seq(IdPairs)
      /\ Passed \in Seq(IdPairs) \/ num_edges # Len(bin.edges)
      /\ num_edges = Len(bin.edges) =>
            Passed \o ChunkOf(bin) = SubSeq(bin.edges, 1, num_edges - (left - chunk))
  BY <1>1, ChunkFacts DEF Opened
<1>4. left' \in Nat /\ chunk' \in 0 .. ChunkSize /\ chunk' <= left' /\ left' <= num_edges
  <2>1. left \in Nat /\ chunk \in Nat /\ left <= num_edges /\ num_edges \in Nat
    BY <1>1, ScaleAssumption DEF Typed, TypeOK, Opened
  <2>2. left' <= num_edges
    BY <1>2, <2>1
  <2> QED
    BY <1>1, <1>2, <2>2, NextChunkFacts
<1>5. count' \in Seq(Nat) /\ Len(count') = Len(count) /\ DOMAIN count = 1 .. Len(count)
  <2>1. count \in Seq(Nat)
    BY <1>1 DEF Typed, TypeOK
  <2>2. \A i \in 1 .. Len(count) : count'[i] \in Nat
    <3> TAKE i \in 1 .. Len(count)
    <3>1. Occurrences(ChunkOf(bin), i - 1) \in Nat
      BY <1>3, OccurrencesType
    <3> QED
      BY <1>2, <2>1, <3>1
  <2>3. count' = [i \in 1 .. Len(count) |-> count[i] + Occurrences(ChunkOf(bin), i - 1)]
    <3>1. DOMAIN count = 1 .. Len(count)
      BY <2>1
    <3> QED
      BY <1>2, <3>1
  <2>4. count' \in [1 .. Len(count) -> Nat]
    BY ONLY <2>2, <2>3
  <2>5. Len(count) \in Nat /\ DOMAIN count = 1 .. Len(count)
    BY <2>1
  <2> QED
    BY ONLY <2>4, <2>5
<1>6. Typed' /\ Opened'
  BY <1>1, <1>2, <1>4, <1>5 DEF Typed, TypeOK, Opened
<1>7. (Converting /\ Converted /\ HeaderIsLast /\ DegreesWritten)'
  BY <1>1, <1>2, ConversionOver
<1>8. HeaderKnown'
  BY <1>1, <1>2 DEF HeaderKnown
<1>9. Counting'
  <2> SUFFICES ASSUME bin.header # <<>>
               PROVE  /\ Len(count') = num_vertices
                      /\ \A i \in 1 .. num_vertices : count'[i] = Occurrences(Passed', i - 1)
                      /\ h2h = <<>> /\ (flags.write_low => low.edges = <<>>)
    BY <1>2 DEF Counting
  <2>1. /\ num_edges = Len(bin.edges) /\ Len(count) = num_vertices
        /\ \A i \in 1 .. num_vertices : count[i] = Occurrences(Passed, i - 1)
        /\ h2h = <<>> /\ (flags.write_low => low.edges = <<>>)
    BY <1>1, <1>2 DEF HeaderKnown, Counting
  <2>2. Passed' = Passed \o ChunkOf(bin) /\ Passed \in Seq(IdPairs)
    BY <1>2, <1>3, <2>1 DEF Passed
  <2>3. ASSUME NEW i \in 1 .. num_vertices PROVE count'[i] = Occurrences(Passed', i - 1)
    <3>1. Occurrences(Passed \o ChunkOf(bin), i - 1)
            = Occurrences(Passed, i - 1) + Occurrences(ChunkOf(bin), i - 1)
      BY <1>3, <2>2, OccurrencesConcat
    <3>2. count'[i] = count[i] + Occurrences(ChunkOf(bin), i - 1)
      BY <1>2, <1>5, <2>1
    <3> QED
      BY <2>1, <2>2, <3>1, <3>2
  <2> QED
    BY <1>5, <2>1, <2>3
<1>10. (Splitting /\ SplitDone /\ SplitExact /\ DegreesLoaded)'
  BY <1>1, <1>2 DEF Splitting, SplitDone, SplitExact, DegreesLoaded
<1> QED
  BY <1>6, <1>7, <1>8, <1>9, <1>10 DEF IngestInv

LEMMA StartSplitInv ==
    ASSUME IngestInv, StartSplit
    PROVE  IngestInv'
<1>1. Typed /\ Opened /\ HeaderKnown /\ Counting /\ pc = "count" /\ bin \in File
  BY DEF IngestInv, StartSplit, Opened
<1>2. /\ UNCHANGED <<bin, deg, h2h, runs, flags, source, input, degrees, edges, count>>
      /\ UNCHANGED <<num_vertices, num_edges, num_h2h_edges>>
      /\ left = 0 /\ left' = num_edges /\ chunk' = FirstChunk(num_edges) /\ num_vertices > 0
      /\ low' = IF flags.write_low THEN [low EXCEPT !.header = <<num_vertices, 0>>] ELSE low
      /\ pc' = "split"
  BY DEF StartSplit, params, converter
<1>3. num_vertices \in Nat /\ num_edges \in Nat
  BY <1>1 DEF Typed, TypeOK
<1>4. left' \in Nat /\ chunk' \in 0 .. ChunkSize /\ chunk' <= left' /\ left' <= num_edges
  BY <1>2, <1>3, ScaleAssumption DEF FirstChunk
<1>5. flags.write_low => low' \in File /\ low'.edges = low.edges
  <2> SUFFICES ASSUME flags.write_low PROVE low' \in File /\ low'.edges = low.edges
    OBVIOUS
  <2>1. low \in File
    BY <1>1 DEF Opened
  <2>2. low' = [header |-> <<num_vertices, 0>>, edges |-> low.edges]
    BY <1>2, <2>1 DEF File
  <2>3. <<num_vertices, 0>> \in IdPairs /\ low.edges \in Seq(IdPairs)
    BY <1>3, <2>1 DEF IdPairs, File
  <2> QED
    BY <2>2, <2>3 DEF File
<1>6. Typed' /\ Opened'
  BY <1>1, <1>2, <1>3, <1>4, <1>5 DEF Typed, TypeOK, Opened
<1>7. (Converting /\ Converted /\ HeaderIsLast /\ DegreesWritten)'
  BY <1>2, ConversionOver
<1>8. HeaderKnown'
  BY <1>1, <1>2 DEF HeaderKnown
<1>9. Splitting'
  <2> SUFFICES ASSUME bin.header # <<>>
               PROVE  /\ Len(count) = num_vertices
                      /\ \A i \in 1 .. num_vertices : count[i] = FileDegree(i - 1)
                      /\ h2h = Kept(Passed', BothHigh')
                      /\ flags.write_low => low'.edges = Kept(Passed', ToSet(bin.edges) \ BothHigh')
    BY <1>2 DEF Splitting, FileDegree
  <2>1. /\ num_edges = Len(bin.edges) /\ Len(count) = num_vertices
        /\ \A i \in 1 .. num_vertices : count[i] = Occurrences(Passed, i - 1)
        /\ h2h = <<>> /\ (flags.write_low => low.edges = <<>>)
    BY <1>1, <1>2 DEF HeaderKnown, Counting
  <2>2. Passed = bin.edges
    <3>1. bin.edges \in Seq(IdPairs) /\ num_edges - left = Len(bin.edges)
      BY <1>1, <1>2, <1>3, <2>1 DEF File
    <3> QED
      BY <3>1, SubSeqFull DEF Passed
  <2>3. Passed' = <<>>
    <3>1. Passed' = SubSeq(bin.edges, 1, 0)
      BY <1>2, <1>3 DEF Passed
    <3> QED
      BY <3>1, SubSeqEmpty
  <2> QED
    BY <1>5, <2>1, <2>2, <2>3, KeptEmpty DEF FileDegree
<1>10. (Counting /\ SplitDone /\ SplitExact /\ DegreesLoaded)'
  BY <1>2 DEF Counting, SplitDone, SplitExact, DegreesLoaded
<1> QED
  BY <1>6, <1>7, <1>8, <1>9, <1>10 DEF IngestInv

\* High, which split() goes by, is what it means for the file.
LEMMA HighFacts ==
    ASSUME Typed, HeaderIsLast, HeaderKnown, Splitting, pc = "split", bin \in File,
           bin.header # <<>>, left <= num_edges
    PROVE  LET c == ChunkOf(bin)
           IN  \A i \in 1 .. Len(c) : /\ c[i] \in H2HEdges(c) <=> c[i] \in BothHigh
                                      /\ c[i] \in ToSet(c) /\ c[i] \in ToSet(bin.edges)
<1> DEFINE c == ChunkOf(bin)
           es == bin.edges
<1>1. /\ bin.header = <<num_vertices, num_edges>> /\ num_vertices > 0 /\ num_edges = Len(es)
      /\ Len(count) = num_vertices
      /\ \A i \in 1 .. num_vertices : count[i] = FileDegree(i - 1)
  BY DEF HeaderKnown, Splitting
<1>2. /\ es \in Seq(IdPairs) /\ left \in Nat /\ chunk \in Nat /\ chunk <= left
      /\ num_edges \in Nat /\ num_vertices \in Nat
  BY ScaleAssumption DEF Typed, TypeOK, File
<1>3. c \in Seq(IdPairs) /\ Len(c) = chunk
  BY ChunkFacts
<1>4. \A i \in 1 .. Len(es) : ToSet(es[i]) \subseteq 0 .. num_vertices - 1
  <2>1. IsGraphOf(source)
    BY <1>1, <1>2, AbsentAssumption DEF HeaderIsLast, HeaderDone
  <2>2. UNION {ToSet(es[i]) : i \in DOMAIN es} = 0 .. num_vertices - 1
    BY <1>1, <2>1 DEF IsGraphOf
  <2>3. DOMAIN es = 1 .. Len(es)
    BY <1>2
  <2> HIDE DEF es
  <2> QED
    BY <2>2, <2>3
<1>5. ASSUME NEW i \in 1 .. Len(c)
      PROVE  /\ c[i] \in H2HEdges(c) <=> c[i] \in BothHigh
             /\ c[i] \in ToSet(c) /\ c[i] \in ToSet(es)
  <2> DEFINE at == num_edges - left + i
  <2>1. at \in 1 .. Len(es) /\ c[i] = es[at]
    <3>1. at \in 1 .. Len(es)
      BY <1>1, <1>2, <1>3
    <3>2. c[i] = IF at <= Len(es) THEN es[at] ELSE <<0, 0>>
      BY <1>2, <1>3 DEF ChunkOf
    <3> QED
      BY <3>1, <3>2
  <2> HIDE DEF at
  <2>2. c[i] \in ToSet(c) /\ c[i] \in ToSet(es)
    <3>1. DOMAIN c = 1 .. Len(c) /\ DOMAIN es = 1 .. Len(es)
      BY <1>2, <1>3
    <3> HIDE DEF c, es
    <3> QED
      BY <2>1, <3>1 DEF ToSet
  <2>3. PICK x, y : x = c[i][1] /\ y = c[i][2]
    OBVIOUS
  <2>4. ToSet(c[i]) = {x, y} /\ x \in 0 .. num_vertices - 1 /\ y \in 0 .. num_vertices - 1
    <3>1. c[i] \in IdPairs
      BY <1>3
    <3>2. ToSet(c[i]) = {x, y}
      BY <2>3, <3>1, EdgeFacts
    <3>3. ToSet(c[i]) \subseteq 0 .. num_vertices - 1
      BY <1>4, <2>1
    <3> QED
      BY <3>2, <3>3
  <2>5. \A v \in 0 .. num_vertices - 1 : count[v + 1] = FileDegree(v)
    <3> TAKE v \in 0 .. num_vertices - 1
    <3>1. v + 1 \in 1 .. num_vertices /\ (v + 1) - 1 = v
      BY <1>2
    <3> QED
      BY <1>1, <3>1
  <2>6. high_degree_threshold = (2 * Len(bin.edges) * flags.hdf) \div (HdfScale * bin.header[1])
    BY <1>1 DEF high_degree_threshold
  <2>7. c[i] \in H2HEdges(c) <=> High(x) /\ High(y)
    BY <2>2, <2>3 DEF H2HEdges
  <2>8. c[i] \in BothHigh <=>
           \A v \in {x, y} : FileDegree(v) > high_degree_threshold
    BY <2>2, <2>4, <2>6 DEF BothHigh
  <2>9. High(x) <=> FileDegree(x) > high_degree_threshold
    BY <2>4, <2>5 DEF High
  <2>10. High(y) <=> FileDegree(y) > high_degree_threshold
    BY <2>4, <2>5 DEF High
  <2> QED
    BY <2>2, <2>7, <2>8, <2>9, <2>10
<1> QED
  BY <1>5


LEMMA SplitChunkInv ==
    ASSUME IngestInv, SplitChunk
    PROVE  IngestInv'
<1> DEFINE c == ChunkOf(bin)
           Up == H2HEdges(c)
           Down == ToSet(c) \ Up
           NotHigh == ToSet(bin.edges) \ BothHigh
<1>1. /\ Typed /\ Opened /\ HeaderIsLast /\ HeaderKnown /\ Splitting /\ pc = "split"
      /\ bin \in File /\ h2h \in Seq(IdPairs) /\ left <= num_edges
      /\ (flags.write_low => low \in File)
  BY DEF IngestInv, SplitChunk, Opened
<1>2. /\ UNCHANGED <<bin, deg, runs, pc, flags, source, input, degrees, count, edges>>
      /\ UNCHANGED <<num_vertices, num_edges>>
      /\ h2h' = h2h \o Kept(c, Up)
      /\ num_h2h_edges' = num_h2h_edges + Len(Kept(c, Up))
      /\ low' = IF flags.write_low THEN [low EXCEPT !.edges = @ \o Kept(c, Down)] ELSE low
      /\ left' = left - chunk /\ chunk' = NextChunk(left - chunk, chunk)
  BY DEF SplitChunk, params, converter
<1>3. /\ c \in Seq(IdPairs)
      /\ Passed \in Seq(IdPairs) \/ num_edges # Len(bin.edges)
      /\ num_edges = Len(bin.edges) =>
            Passed \o c = SubSeq(bin.edges, 1, num_edges - (left - chunk))
  BY <1>1, ChunkFacts
<1>4. left' \in Nat /\ chunk' \in 0 .. ChunkSize /\ chunk' <= left' /\ left' <= num_edges
  <2>1. left \in Nat /\ chunk \in Nat /\ left <= num_edges /\ num_edges \in Nat
    BY <1>1, ScaleAssumption DEF Typed, TypeOK
  <2>2. left' <= num_edges
    BY <1>2, <2>1
  <2> QED
    BY <1>1, <1>2, <2>2, NextChunkFacts
<1>5. bin.header # <<>> => \A i \in 1 .. Len(c) :
          /\ c[i] \in Up <=> c[i] \in BothHigh
          /\ c[i] \in Down <=> c[i] \in NotHigh
  <2> SUFFICES ASSUME bin.header # <<>>, NEW i \in 1 .. Len(c)
               PROVE  /\ c[i] \in Up <=> c[i] \in BothHigh
                      /\ c[i] \in Down <=> c[i] \in NotHigh
    OBVIOUS
  <2>1. /\ c[i] \in H2HEdges(c) <=> c[i] \in BothHigh
        /\ c[i] \in ToSet(c) /\ c[i] \in ToSet(bin.edges)
    BY <1>1, HighFacts
  <2> QED
    BY <2>1
<1> HIDE DEF c, Up, Down, NotHigh
<1>6. Kept(c, Up) \in Seq(IdPairs) /\ Kept(c, Down) \in Seq(IdPairs)
  BY <1>3, KeptType
<1>7. h2h' \in Seq(IdPairs)
  BY <1>1, <1>2, <1>6, ConcatProperties
<1>8. flags.write_low => low' \in File /\ low'.edges = low.edges \o Kept(c, Down)
  <2> SUFFICES ASSUME flags.write_low
               PROVE  low' \in File /\ low'.edges = low.edges \o Kept(c, Down)
    OBVIOUS
  <2>1. low.edges \in Seq(IdPairs) /\ low.header \in {<<>>} \cup IdPairs
    BY <1>1 DEF File
  <2>2. low' = [header |-> low.header, edges |-> low.edges \o Kept(c, Down)]
    BY <1>1, <1>2 DEF File
  <2>3. low.edges \o Kept(c, Down) \in Seq(IdPairs)
    BY ONLY <1>6, <2>1, ConcatProperties
  <2> QED
    BY ONLY <2>1, <2>2, <2>3 DEF File
<1>9. Typed' /\ Opened'
  <2>1. num_h2h_edges' \in Nat
    <3>1. Len(Kept(c, Up)) \in Nat /\ num_h2h_edges \in Nat
      BY <1>1, <1>6 DEF Typed, TypeOK
    <3> QED
      BY <1>2, <3>1
  <2>2. low' = Absent \/ low' \in File
    BY <1>1, <1>2, <1>8 DEF Typed, TypeOK
  <2> QED
    BY <1>1, <1>2, <1>4, <1>7, <1>8, <2>1, <2>2 DEF Typed, TypeOK, Opened
<1>10. (Converting /\ Converted /\ HeaderIsLast /\ DegreesWritten)'
  BY <1>1, <1>2, ConversionOver
<1>11. HeaderKnown'
  BY <1>1, <1>2 DEF HeaderKnown
<1>12. Splitting'
  <2> SUFFICES ASSUME bin.header # <<>>
               PROVE  /\ Len(count) = num_vertices
                      /\ \A i \in 1 .. num_vertices : count[i] = FileDegree(i - 1)
                      /\ h2h' = Kept(Passed', BothHigh)
                      /\ flags.write_low => low'.edges = Kept(Passed', NotHigh)
    BY <1>2 DEF Splitting, FileDegree, BothHigh, NotHigh
  <2>1. /\ num_edges = Len(bin.edges) /\ Len(count) = num_vertices
        /\ \A i \in 1 .. num_vertices : count[i] = FileDegree(i - 1)
        /\ h2h = Kept(Passed, BothHigh)
        /\ flags.write_low => low.edges = Kept(Passed, NotHigh)
    <3>1. num_vertices > 0
      BY <1>1 DEF HeaderKnown
    <3> QED
      BY <1>1, <3>1 DEF HeaderKnown, Splitting, NotHigh
  <2>2. Passed' = Passed \o c /\ Passed \in Seq(IdPairs)
    BY <1>2, <1>3, <2>1 DEF Passed
  <2>3. Kept(c, Up) = Kept(c, BothHigh) /\ Kept(c, Down) = Kept(c, NotHigh)
    <3>1. \A i \in 1 .. Len(c) : c[i] \in Up <=> c[i] \in BothHigh
      BY <1>5
    <3>2. \A i \in 1 .. Len(c) : c[i] \in Down <=> c[i] \in NotHigh
      BY <1>5
    <3>3. Kept(c, Up) = Kept(c, BothHigh)
      BY ONLY <1>3, <3>1, KeptSame
    <3>4. Kept(c, Down) = Kept(c, NotHigh)
      BY ONLY <1>3, <3>2, KeptSame
    <3> QED
      BY <3>3, <3>4
  <2>4. /\ Kept(Passed \o c, BothHigh) = Kept(Passed, BothHigh) \o Kept(c, BothHigh)
        /\ Kept(Passed \o c, NotHigh) = Kept(Passed, NotHigh) \o Kept(c, NotHigh)
    BY <1>3, <2>2, KeptConcat
  <2> QED
    BY <1>2, <1>8, <2>1, <2>2, <2>3, <2>4
<1>13. (Counting /\ SplitDone /\ SplitExact /\ DegreesLoaded)'
  BY <1>1, <1>2 DEF Counting, SplitDone, SplitExact, DegreesLoaded
<1> QED
  BY <1>9, <1>10, <1>11, <1>12, <1>13 DEF IngestInv

LEMMA FinishSplitInv ==
    ASSUME IngestInv, FinishSplit
    PROVE  IngestInv'
<1>1. /\ Typed /\ Opened /\ HeaderKnown /\ Splitting /\ pc = "split" /\ bin \in File
      /\ (flags.write_low => low \in File)
  BY DEF IngestInv, FinishSplit, Opened
<1>2. /\ UNCHANGED <<bin, deg, h2h, runs, flags, source, input, degrees, edges>>
      /\ UNCHANGED <<num_vertices, num_edges, num_h2h_edges, left, chunk>>
      /\ pc' = "load" /\ left = 0 /\ count' = <<>>
      /\ low' = IF flags.write_low
                THEN [low EXCEPT !.header = <<num_vertices, num_low_edges>>] ELSE low
  BY DEF FinishSplit, params, converter
<1>3. num_low_edges \in Nat /\ num_vertices \in Nat /\ num_edges \in Nat
  BY <1>1, SizeAssumption DEF Typed, TypeOK, num_low_edges
<1>4. flags.write_low => low' \in File /\ low'.edges = low.edges
  <2> SUFFICES ASSUME flags.write_low PROVE low' \in File /\ low'.edges = low.edges
    OBVIOUS
  <2>1. low' = [header |-> <<num_vertices, num_low_edges>>, edges |-> low.edges]
    BY <1>1, <1>2 DEF File
  <2>2. <<num_vertices, num_low_edges>> \in IdPairs /\ low.edges \in Seq(IdPairs)
    BY <1>1, <1>3 DEF IdPairs, File
  <2> QED
    BY <2>1, <2>2 DEF File
<1>5. Typed' /\ Opened'
  BY <1>1, <1>2, <1>4 DEF Typed, TypeOK, Opened
<1>6. (Converting /\ Converted /\ HeaderIsLast /\ DegreesWritten)'
  BY <1>2, ConversionOver
<1>7. HeaderKnown'
  BY <1>1, <1>2 DEF HeaderKnown
<1>8. SplitDone'
  <2> SUFFICES ASSUME bin.header # <<>>
               PROVE  /\ h2h = Kept(bin.edges, BothHigh)
                      /\ flags.write_low =>
                            low'.edges = Kept(bin.edges, ToSet(bin.edges) \ BothHigh)
    BY <1>2 DEF SplitDone, BothHigh, FileDegree
  <2>1. num_edges = Len(bin.edges)
    BY <1>1 DEF HeaderKnown
  <2>2. Passed = bin.edges
    <3>1. bin.edges \in Seq(IdPairs) /\ num_edges - left = Len(bin.edges)
      BY <1>1, <1>2, <1>3, <2>1 DEF File
    <3> QED
      BY <3>1, SubSeqFull DEF Passed
  <2> QED
    BY <1>1, <1>4, <2>2 DEF Splitting
<1>9. (Counting /\ Splitting /\ SplitExact /\ DegreesLoaded)'
  BY <1>2 DEF Counting, Splitting, SplitExact, DegreesLoaded
<1> QED
  BY <1>5, <1>6, <1>7, <1>8, <1>9 DEF IngestInv

\* The edges a run loads are those of the file whose size agrees with its header.
LEMMA LoadedWhole ==
    ASSUME NEW f \in File, f # Absent, SizeAgrees(f)
    PROVE  /\ LoadEdges(f) = f.edges
           /\ f.header[1] \in Nat /\ f.header[2] \in Nat /\ f.edges \in Seq(IdPairs)
<1>1. f.header \in IdPairs /\ f.edges \in Seq(IdPairs) /\ f.header[2] = Len(f.edges)
  BY DEF SizeAgrees, File
<1>2. PICK s \in Seq(IdPairs) : s = f.edges
  BY <1>1
<1>3. LoadEdges(f) = [i \in 1 .. Len(s) |-> IF i <= Len(s) THEN s[i] ELSE <<0, 0>>]
  BY <1>1, <1>2 DEF LoadEdges
<1>4. LoadEdges(f) = [i \in 1 .. Len(s) |-> s[i]]
  BY ONLY <1>3, s \in Seq(IdPairs)
<1>5. s = [i \in 1 .. Len(s) |-> s[i]]
  BY ONLY s \in Seq(IdPairs)
<1> QED
  BY <1>1, <1>2, <1>4, <1>5 DEF IdPairs

LEMMA LoadsInv ==
    ASSUME IngestInv, Loads
    PROVE  IngestInv'
<1> DEFINE f == LoadFile
<1>1. /\ Typed /\ Opened /\ HeaderIsLast /\ HeaderKnown /\ SplitDone /\ DegreesWritten
      /\ pc = "load" /\ bin \in File /\ SizeAgrees(f)
  BY DEF IngestInv, Loads, Opened
<1>2. /\ UNCHANGED <<bin, deg, low, h2h, runs, flags, source, input>>
      /\ UNCHANGED <<num_h2h_edges, left, chunk, count, name2vid>>
      /\ pc' = "loaded" /\ num_vertices' = f.header[1] /\ num_edges' = f.header[2]
      /\ edges' = LoadEdges(f) /\ degrees' = LoadDegrees(f.header[1])
  BY DEF Loads, files, params, builder
<1>3. /\ f \in File /\ edges' = f.edges /\ f.edges \in Seq(IdPairs)
      /\ num_vertices' \in Nat /\ num_edges' \in Nat
  <2>1. f # Absent
    BY <1>1 DEF SizeAgrees
  <2>2. f \in File
    BY <1>1, <2>1 DEF LoadFile, Typed, TypeOK
  <2> QED
    BY <1>1, <1>2, <2>1, <2>2, LoadedWhole
<1> HIDE DEF f
<1>4. /\ degrees' = [i \in 1 .. num_vertices' |->
                        IF deg # Absent /\ i <= Len(deg) THEN deg[i] ELSE 0]
      /\ deg # Absent => deg \in Seq(Nat)
  BY <1>1, <1>2 DEF LoadDegrees, Typed, TypeOK
<1>5. degrees' \in Seq(Nat)
  <2>1. \A i \in 1 .. num_vertices' : degrees'[i] \in Nat
    <3> TAKE i \in 1 .. num_vertices'
    <3>1. CASE deg # Absent /\ i <= Len(deg)
      <4>1. deg \in Seq(Nat) /\ i \in 1 .. Len(deg)
        BY <1>3, <1>4, <3>1
      <4>2. degrees'[i] = deg[i]
        BY <1>4, <3>1
      <4> QED
        BY <4>1, <4>2
    <3>2. CASE ~(deg # Absent /\ i <= Len(deg))
      BY <1>4, <3>2
    <3> QED
      BY <3>1, <3>2
  <2>2. degrees' \in [1 .. num_vertices' -> Nat]
    BY ONLY <1>4, <2>1
  <2> QED
    BY <1>3, <2>2
<1>6. Typed' /\ Opened'
  BY <1>1, <1>2, <1>3, <1>5 DEF Typed, TypeOK, Opened
<1>7. (Converting /\ Converted /\ HeaderIsLast /\ DegreesWritten)'
  BY <1>2, ConversionOver
<1>8. SplitExact'
  <2> SUFFICES ASSUME bin.header # <<>>, flags.hybrid => flags.write_low PROVE Split'
    BY <1>2 DEF SplitExact
  <2>1. /\ h2h = Kept(bin.edges, BothHigh)
        /\ flags.write_low => low.edges = Kept(bin.edges, ToSet(bin.edges) \ BothHigh)
    BY <1>1 DEF SplitDone
  <2>2. BothHigh' = BothHigh
    BY <1>2 DEF BothHigh, FileDegree
  <2>3. f = IF flags.hybrid THEN low ELSE bin
    BY DEF f, LoadFile
  <2> QED
    BY <1>2, <1>3, <2>1, <2>2, <2>3 DEF Split
<1>9. DegreesLoaded'
  <2> SUFFICES ASSUME NEW i \in DOMAIN degrees'
               PROVE  degrees'[i] = IF deg # Absent /\ i <= Len(deg) THEN FileDegree(i - 1) ELSE 0
    BY <1>2 DEF DegreesLoaded, FileDegree
  <2>1. i \in 1 .. num_vertices'
    BY <1>4
  <2>2. CASE deg # Absent /\ i <= Len(deg)
    <3>1. i \in 1 .. Len(deg)
      BY <1>3, <1>4, <2>1, <2>2
    <3> QED
      BY <1>1, <1>4, <2>1, <2>2, <3>1 DEF DegreesWritten
  <2>3. CASE ~(deg # Absent /\ i <= Len(deg))
    BY <1>4, <2>1, <2>3
  <2> QED
    BY <2>2, <2>3
<1>10. (HeaderKnown /\ Counting /\ Splitting /\ SplitDone)'
  BY <1>2 DEF HeaderKnown, Counting, Splitting, SplitDone
<1> QED
  BY <1>6, <1>7, <1>8, <1>9, <1>10 DEF IngestInv

-----------------------------------------------------------------------------
(* Runs that end.                                                          *)

\* A run that ends leaves the invariant to the files.
LEMMA RunEnds ==
    ASSUME Typed, Forgotten, pc' = "off", UNCHANGED <<runs, source>>,
           bin' = Absent \/ bin' \in File, low' = Absent \/ low' \in File,
           deg' = Absent \/ deg' \in Seq(Nat), h2h' = Absent \/ h2h' \in Seq(IdPairs),
           HeaderIsLast', DegreesWritten'
    PROVE  IngestInv'
<1>1. Typed' /\ Opened'
  BY ScaleAssumption DEF Typed, TypeOK, Opened, Forgotten
<1>2. Converting' /\ Converted'
  BY DEF Converting, Converted
<1> QED
  BY <1>1, <1>2, EarlyPc DEF IngestInv

LEMMA EndRunInv ==
    ASSUME IngestInv, EndRun
    PROVE  IngestInv'
<1>1. Typed /\ HeaderIsLast /\ DegreesWritten
  BY DEF IngestInv
<1>2. Forgotten /\ pc' = "off" /\ UNCHANGED <<runs, source, bin, deg, low, h2h>>
  BY DEF EndRun, files
<1>3. HeaderIsLast' /\ DegreesWritten'
  BY <1>1, <1>2, GraphStays, DegreesStay
<1> QED
  BY <1>1, <1>2, <1>3, RunEnds DEF Typed, TypeOK

\* What a file keeps is still a file.
LEMMA PrefixOf ==
    ASSUME NEW E, NEW s \in Seq(E), NEW p \in Prefixes(s)
    PROVE  /\ p \in Seq(E) /\ Len(p) <= Len(s)
           /\ \A i \in 1 .. Len(p) : p[i] = s[i]
<1>1. PICK k \in 0 .. Len(s) : p = SubSeq(s, 1, k)
  BY DEF Prefixes
<1>2. \A i \in 1 .. k : s[i] \in E
  OBVIOUS
<1>3. k \in Int /\ 1 \in Int
  OBVIOUS
<1>4. /\ SubSeq(s, 1, k) \in Seq(E)
      /\ Len(SubSeq(s, 1, k)) = IF 1 <= k THEN k - 1 + 1 ELSE 0
      /\ \A i \in 1 .. k - 1 + 1 : SubSeq(s, 1, k)[i] = s[1 + i - 1]
  BY ONLY <1>2, <1>3, SubSeqProperties
<1>5. Len(p) = k
  BY <1>1, <1>4
<1> QED
  BY <1>1, <1>4, <1>5

LEMMA TornFacts ==
    ASSUME NEW f \in File, NEW t \in Torn(f)
    PROVE  t \in File /\ t.header \in {<<>>, f.header}
<1>1. CASE t = Empty
  BY <1>1 DEF Empty, File
<1>2. ASSUME NEW p \in Prefixes(f.edges), t = [header |-> f.header, edges |-> p]
      PROVE  t \in File /\ t.header = f.header
  <2>1. f.edges \in Seq(IdPairs) /\ f.header \in {<<>>} \cup IdPairs
    BY DEF File
  <2>2. p \in Seq(IdPairs)
    BY <2>1, PrefixOf
  <2> QED
    BY <1>2, <2>1, <2>2 DEF File
<1> QED
  BY <1>1, <1>2 DEF Torn

LEMMA DieInv ==
    ASSUME IngestInv, Die, pc # "off"
    PROVE  IngestInv'
<1>1. Typed /\ Opened /\ HeaderIsLast /\ DegreesWritten /\ Converting /\ Converted /\ bin \in File
  BY DEF IngestInv, Opened
<1>2. /\ Forgotten /\ pc' = "off" /\ UNCHANGED <<runs, source>>
      /\ bin' \in IF pc = "convert" THEN Torn(bin) ELSE {bin}
      /\ deg' \in IF pc = "degrees" THEN {Absent} \cup Prefixes(degrees) ELSE {deg}
      /\ low' \in IF pc \in {"count", "split"} /\ flags.write_low THEN Torn(low) ELSE {low}
      /\ h2h' \in IF pc \in {"count", "split"} THEN Prefixes(h2h) ELSE {h2h}
  BY DEF Die
<1>3. bin' \in File /\ (pc = "convert" => bin'.header \in {<<>>, <<0, 0>>})
  <2>1. CASE pc = "convert"
    BY <1>1, <1>2, <2>1, TornFacts DEF Converting
  <2>2. CASE pc # "convert"
    BY <1>1, <1>2, <2>2
  <2> QED
    BY <2>1, <2>2
<1>4. degrees \in Seq(Nat) /\ (deg = Absent \/ deg \in Seq(Nat))
  BY <1>1 DEF Typed, TypeOK
<1>5. deg' = Absent \/ deg' \in Seq(Nat)
  <2>1. \A p \in Prefixes(degrees) : p \in Seq(Nat)
    BY <1>4, PrefixOf
  <2> QED
    BY <1>2, <1>4, <2>1
<1>6. low' = Absent \/ low' \in File
  <2>1. CASE pc \in {"count", "split"} /\ flags.write_low
    <3>1. low \in File /\ low' \in Torn(low)
      BY <1>1, <1>2, <2>1 DEF Opened
    <3> QED
      BY <3>1, TornFacts
  <2>2. CASE ~(pc \in {"count", "split"} /\ flags.write_low)
    BY <1>1, <1>2, <2>2 DEF Typed, TypeOK
  <2> QED
    BY <2>1, <2>2
<1>7. h2h' = Absent \/ h2h' \in Seq(IdPairs)
  <2>1. CASE pc \in {"count", "split"}
    <3>1. h2h \in Seq(IdPairs) /\ h2h' \in Prefixes(h2h)
      BY <1>1, <1>2, <2>1 DEF Opened
    <3> QED
      BY <3>1, PrefixOf
  <2>2. CASE pc \notin {"count", "split"}
    BY <1>1, <1>2, <2>2 DEF Typed, TypeOK
  <2> QED
    BY <2>1, <2>2
<1>8. HeaderIsLast'
  <2>1. CASE pc = "convert"
    BY <1>3, <2>1 DEF HeaderIsLast, HeaderDone
  <2>2. CASE pc # "convert"
    <3>1. UNCHANGED <<bin, source>>
      BY <1>2, <2>2
    <3> QED
      BY <1>1, <3>1, GraphStays
  <2> QED
    BY <2>1, <2>2
<1>9. DegreesWritten'
  <2>1. CASE pc = "convert"
    <3>1. deg' = Absent
      BY <1>1, <1>2, <2>1 DEF Converting
    <3> QED
      BY <3>1 DEF DegreesWritten
  <2>2. CASE pc = "degrees"
    <3>1. UNCHANGED bin /\ DegreesCounted
      BY <1>1, <1>2, <2>2 DEF Converted
    <3>2. ASSUME deg' # Absent, NEW i \in 1 .. Len(deg')
          PROVE  deg'[i] = FileDegree(i - 1)
      <4>1. deg' \in Prefixes(degrees)
        BY <1>2, <2>2, <3>2
      <4>2. Len(deg') <= Len(degrees) /\ deg'[i] = degrees[i] /\ Len(deg') \in Nat
        <5>1. PICK p \in Prefixes(degrees) : p = deg'
          BY <4>1
        <5>2. p \in Seq(Nat) /\ Len(p) <= Len(degrees) /\ \A j \in 1 .. Len(p) : p[j] = degrees[j]
          BY <1>4, PrefixOf
        <5> QED
          BY <3>2, <5>1, <5>2
      <4>3. i \in 1 .. num_vertices
        BY <3>1, <3>2, <4>2 DEF DegreesCounted
      <4> QED
        BY <3>1, <4>2, <4>3 DEF DegreesCounted
    <3> QED
      BY <1>3, <3>1, <3>2 DEF DegreesWritten, FileDegree
  <2>3. CASE pc \notin {"convert", "degrees"}
    BY <1>1, <1>2, <2>3, DegreesStay
  <2> QED
    BY <2>1, <2>2, <2>3
<1> QED
  BY <1>1, <1>2, <1>3, <1>5, <1>6, <1>7, <1>8, <1>9, RunEnds

-----------------------------------------------------------------------------
(* The theorems.                                                           *)

LEMMA StutterIngestInv ==
    ASSUME IngestInv, UNCHANGED vars
    PROVE  IngestInv'
<1>1. /\ UNCHANGED <<bin, deg, low, h2h, runs, pc, flags, filename, source, input, name2vid>>
      /\ UNCHANGED <<num_vertices, num_edges, degrees, left, chunk, count>>
      /\ UNCHANGED <<num_h2h_edges, edges>>
  BY DEF vars, files, params, converter, builder
<1>2. (Typed /\ Opened)'
  BY <1>1 DEF IngestInv, Typed, TypeOK, Opened
<1>3. (HeaderIsLast /\ DegreesWritten)'
  BY <1>1, GraphStays, DegreesStay DEF IngestInv
<1>4. BothHigh' = BothHigh /\ Passed' = Passed /\ Graph' = Graph
      /\ Read' = Read
  BY <1>1 DEF FileDegree, BothHigh, Passed, Graph, Read, Proper
<1>5. (Numbered <=> Numbered') /\ (Translated <=> Translated') /\ (DegreesCounted <=> DegreesCounted')
  BY <1>1, <1>4 DEF Numbered, Translated, DegreesCounted, FileDegree
<1>6. (Converting /\ Converted)'
  BY <1>1, <1>4, <1>5 DEF IngestInv, Converting, Converted
<1>7. (HeaderKnown /\ Counting)'
  BY <1>1, <1>4 DEF IngestInv, HeaderKnown, Counting
<1>8. (Splitting /\ SplitDone)'
  BY <1>1, <1>4 DEF IngestInv, Splitting, SplitDone, FileDegree
<1>9. (SplitExact /\ DegreesLoaded)'
  BY <1>1, <1>4 DEF IngestInv, SplitExact, Split, DegreesLoaded, FileDegree
<1> QED
  BY <1>2, <1>3, <1>6, <1>7, <1>8, <1>9 DEF IngestInv

LEMMA StepIngestInv == IngestInv /\ [Next]_vars => IngestInv'
<1> SUFFICES ASSUME IngestInv, [Next]_vars PROVE IngestInv'
  OBVIOUS
<1>1. ASSUME NEW lines \in Inputs, NEW f \in Flags, StartRun(lines, f) PROVE IngestInv'
  BY <1>1, StartRunInv
<1>2. CASE AddEdge
  BY <1>2, AddEdgeInv
<1>3. CASE SkipSelfEdge
  BY <1>3, SkipSelfEdgeInv
<1>4. CASE FinishBin
  BY <1>4, FinishBinInv
<1>5. CASE WriteDegrees
  BY <1>5, WriteDegreesInv
<1>6. CASE Open
  BY <1>6, OpenInv
<1>7. CASE CountChunk
  BY <1>7, CountChunkInv
<1>8. CASE StartSplit
  BY <1>8, StartSplitInv
<1>9. CASE SplitChunk
  BY <1>9, SplitChunkInv
<1>10. CASE FinishSplit
  BY <1>10, FinishSplitInv
<1>11. CASE Loads
  BY <1>11, LoadsInv
<1>12. CASE EndRun
  BY <1>12, EndRunInv
<1>13. CASE Malformed \/ NoVertices \/ SizeDiffers \/ Crash
  BY <1>13, DieInv DEF Malformed, NoVertices, SizeDiffers, Crash
<1>14. CASE RunsOver \/ UNCHANGED vars
  BY <1>14, StutterIngestInv DEF RunsOver
<1> QED
  BY <1>1, <1>2, <1>3, <1>4, <1>5, <1>6, <1>7, <1>8, <1>9, <1>10, <1>11, <1>12, <1>13, <1>14
  DEF Next

LEMMA IngestInvAlways == Spec => []IngestInv
BY InitIngestInv, StepIngestInv, PTL DEF Spec

\* Every variable keeps its kind, for any inputs, flags, chunk size and number of runs:
\* what is left to read never falls below 0.
THEOREM TypeCorrect == Spec => []TypeOK
<1>1. IngestInv => TypeOK
  BY DEF IngestInv, Typed
<1> QED
  BY <1>1, IngestInvAlways, PTL

\* Whatever run dies where, a binary file whose header is not zeros is the whole graph of
\* the input it was made from.
THEOREM HeaderAlwaysLast == Spec => []HeaderIsLast
<1>1. IngestInv => HeaderIsLast
  BY DEF IngestInv
<1> QED
  BY <1>1, IngestInvAlways, PTL

\* A run that gets to split() with the files of this run has every edge exactly once, in
\* memory or in the file that is streamed.
THEOREM SplitAlwaysExact == Spec => []SplitExact
<1>1. IngestInv => SplitExact
  BY DEF IngestInv
<1> QED
  BY <1>1, IngestInvAlways, PTL

\* The degrees it starts from are those of the graph, as far as the degree file goes.
THEOREM DegreesAlwaysLoaded == Spec => []DegreesLoaded
<1>1. IngestInv => DegreesLoaded
  BY DEF IngestInv
<1> QED
  BY <1>1, IngestInvAlways, PTL
=============================================================================
