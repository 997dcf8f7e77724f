------------------------- MODULE DenseBitsetProofs --------------------------
(***************************************************************************)
(* Proofs about DenseBitset, for words of any width, any number of sets    *)
(* and any sizes.                                                          *)
(***************************************************************************)
EXTENDS DenseBitset, SequenceTheorems, FoldProofs

-----------------------------------------------------------------------------
(* Positions, words and the bits in a word.                                *)

LEMMA Multiples ==
    ASSUME NEW a \in Int, NEW b \in Int
    PROVE  /\ a * W \in Int /\ (a + 1) * W = a * W + W /\ (a - 1) * W = a * W - W
           /\ a < b => a * W + W <= b * W
           /\ a <= b => a * W <= b * W
<1>1. W \in Nat \ {0} /\ W >= 1
  BY BitsetAssumption
<1>2. a * W \in Int /\ b * W \in Int /\ (a + 1) * W = a * W + W /\ (a - 1) * W = a * W - W
  BY <1>1
<1>3. ASSUME a < b PROVE a * W + W <= b * W
  <2>1. (b - a - 1) * W >= 0
    BY <1>1, <1>3
  <2>2. (b - a - 1) * W = b * W - a * W - W
    BY <1>1
  <2> QED
    BY <1>1, <1>2, <2>1, <2>2
<1>4. a = b => a * W = b * W
  OBVIOUS
<1> QED
  BY <1>1, <1>2, <1>3, <1>4

LEMMA DivMod ==
    ASSUME NEW b \in Nat
    PROVE  b \div W \in Nat /\ b % W \in Word /\ b = (b \div W) * W + (b % W)
<1>1. W \in Nat \ {0}
  BY BitsetAssumption
<1>2. b \div W \in Int /\ b % W \in 0 .. W - 1
  BY <1>1
<1>3. b = W * (b \div W) + (b % W)
  BY <1>1
<1>4. b \div W >= 0
  <2>1. ASSUME b \div W < 0 PROVE FALSE
    <3>1. (b \div W) * W + W <= 0 * W
      BY <1>2, <2>1, Multiples
    <3> QED
      BY <1>1, <1>2, <1>3, <3>1
  <2> QED
    BY <1>2, <2>1
<1> QED
  BY <1>1, <1>2, <1>3, <1>4 DEF Word

LEMMA DivModUnique ==
    ASSUME NEW q \in Nat, NEW r \in Word
    PROVE  /\ q * W + r \in Nat /\ (q * W + r) \div W = q /\ (q * W + r) % W = r
<1>1. W \in Nat \ {0} /\ r \in Nat /\ r < W
  BY BitsetAssumption DEF Word
<1>2. q * W + r \in Nat
  BY <1>1
<1> DEFINE b == q * W + r
<1>3. b \div W \in Nat /\ b % W \in 0 .. W - 1 /\ b = (b \div W) * W + (b % W)
  BY <1>2, DivMod DEF Word
<1>4. q * W \in Int /\ (b \div W) * W \in Int
  BY <1>3, Multiples
<1>5. (b \div W) < q => (b \div W) * W + W <= q * W
  BY <1>3, Multiples
<1>6. q < (b \div W) => q * W + W <= (b \div W) * W
  BY <1>3, Multiples
<1>7. b = q * W + r
  OBVIOUS
<1> HIDE DEF b
<1>8. b \div W = q
  BY <1>1, <1>3, <1>4, <1>5, <1>6, <1>7
<1>9. b % W = r
  BY <1>1, <1>3, <1>4, <1>7, <1>8
<1> QED
  BY <1>2, <1>8, <1>9 DEF b

Words == SUBSET Word
BitsOf(a) == {b \in 0 .. Len(a) * W - 1 : bitpos(b) \in a[arrpos(b)]}

\* Every position is that of one bit of one word.
LEMMA PositionFacts ==
    ASSUME NEW n \in Nat, NEW b \in 0 .. n * W - 1
    PROVE  /\ arrpos(b) \in 1 .. n /\ bitpos(b) \in Word /\ b \in Nat
           /\ b = (arrpos(b) - 1) * W + bitpos(b)
<1>1. W \in Nat \ {0} /\ n * W \in Int
  BY BitsetAssumption, Multiples
<1>2. b \in Nat /\ b < n * W
  BY <1>1
<1>3. b \div W \in Nat /\ b % W \in 0 .. W - 1 /\ b = (b \div W) * W + (b % W)
  BY <1>2, DivMod DEF Word
<1>4. (b \div W) * W \in Int /\ (n <= b \div W => n * W <= (b \div W) * W)
  BY <1>3, Multiples
<1>5. b \div W < n
  BY <1>1, <1>2, <1>3, <1>4
<1>6. arrpos(b) - 1 = b \div W
  BY <1>3 DEF arrpos
<1> QED
  BY <1>2, <1>3, <1>5, <1>6 DEF arrpos, bitpos, Word

LEMMA PositionOf ==
    ASSUME NEW n \in Nat, NEW i \in 1 .. n, NEW k \in Word
    PROVE  LET b == (i - 1) * W + k
           IN  b \in 0 .. n * W - 1 /\ arrpos(b) = i /\ bitpos(b) = k
<1> DEFINE q == i - 1
           b == q * W + k
<1>1. q \in Nat /\ q + 1 = i /\ q < n /\ W \in Nat \ {0} /\ k \in 0 .. W - 1
  BY BitsetAssumption DEF Word
<1> HIDE DEF q
<1>2. b \in Nat /\ b \div W = q /\ b % W = k
  BY <1>1, DivModUnique DEF Word
<1>3. q * W \in Int /\ n * W \in Int /\ q * W + W <= n * W
  BY <1>1, Multiples
<1>4. b < n * W
  BY <1>1, <1>3
<1> HIDE DEF b
<1>5. b \in 0 .. n * W - 1 /\ arrpos(b) = i /\ bitpos(b) = k
  BY <1>1, <1>2, <1>3, <1>4 DEF arrpos, bitpos
<1> QED
  BY <1>5 DEF b, q

\* Positions are ordered by their words, and within a word by their bits.
LEMMA PositionOrder ==
    ASSUME NEW n \in Nat, NEW b \in 0 .. n * W - 1, NEW c \in 0 .. n * W - 1
    PROVE  /\ b < c <=> arrpos(b) < arrpos(c) \/ (arrpos(b) = arrpos(c) /\ bitpos(b) < bitpos(c))
           /\ arrpos(b) = arrpos(c) /\ bitpos(b) = bitpos(c) => b = c
<1> DEFINE p == arrpos(b) - 1
           q == arrpos(c) - 1
<1>1. /\ p \in Nat /\ bitpos(b) \in 0 .. W - 1 /\ b = p * W + bitpos(b)
      /\ q \in Nat /\ bitpos(c) \in 0 .. W - 1 /\ c = q * W + bitpos(c)
      /\ arrpos(b) \in Nat /\ arrpos(c) \in Nat /\ b \in Nat /\ c \in Nat /\ W \in Nat
  <2>1. /\ arrpos(b) \in 1 .. n /\ bitpos(b) \in Word /\ b \in Nat
        /\ b = (arrpos(b) - 1) * W + bitpos(b)
    BY ONLY n \in Nat, b \in 0 .. n * W - 1, PositionFacts
  <2>2. /\ arrpos(c) \in 1 .. n /\ bitpos(c) \in Word /\ c \in Nat
        /\ c = (arrpos(c) - 1) * W + bitpos(c)
    BY ONLY n \in Nat, c \in 0 .. n * W - 1, PositionFacts
  <2> QED
    BY <2>1, <2>2, BitsetAssumption DEF Word
<1>2. /\ arrpos(b) < arrpos(c) <=> p < q
      /\ arrpos(b) = arrpos(c) <=> p = q
  BY <1>1
<1> HIDE DEF p, q
<1>3. /\ p * W \in Int /\ q * W \in Int
      /\ p < q => p * W + W <= q * W
      /\ q < p => q * W + W <= p * W
  BY <1>1, Multiples
<1>4. p < q \/ p = q \/ q < p
  BY <1>1
<1> QED
  BY <1>1, <1>2, <1>3, <1>4

\* The number of words a size calls for.
WordsFor(m, n) == m * W \in n .. n + W - 1

LEMMA WordsForUnique ==
    ASSUME NEW n \in Nat, NEW m \in Nat, NEW k \in Nat, WordsFor(m, n), WordsFor(k, n)
    PROVE  m = k
<1>1. W \in Nat \ {0} /\ m * W \in n .. n + W - 1 /\ k * W \in n .. n + W - 1
  BY BitsetAssumption DEF WordsFor
<1>2. (m < k => m * W + W <= k * W) /\ (k < m => k * W + W <= m * W)
  BY Multiples
<1> QED
  BY <1>1, <1>2

LEMMA WordsForSize ==
    ASSUME NEW n \in Nat
    PROVE  LET m == (n \div W) + (IF n % W > 0 THEN 1 ELSE 0)
           IN  m \in Nat /\ WordsFor(m, n)
<1> DEFINE q == n \div W
<1>1. q \in Nat /\ n % W \in 0 .. W - 1 /\ n = q * W + (n % W) /\ W \in Nat \ {0}
  BY DivMod, BitsetAssumption DEF Word
<1>2. q * W \in Int /\ (q + 1) * W = q * W + W
  BY <1>1, Multiples
<1>3. CASE n % W > 0
  BY <1>1, <1>2, <1>3 DEF WordsFor
<1>4. CASE n % W = 0
  <2>1. q + 0 = q
    BY <1>1
  <2> QED
    BY <1>1, <1>2, <1>4, <2>1 DEF WordsFor
<1> QED
  BY <1>1, <1>3, <1>4

\* Which bits of the last word are beyond the size.
LEMMA TrailingFacts ==
    ASSUME NEW n \in Nat, NEW m \in Nat, WordsFor(m, n)
    PROVE  /\ n % W = 0 => m * W = n
           /\ n % W # 0 => /\ m \in 1 .. m /\ n % W \in 1 .. W - 1
                           /\ \A b \in 0 .. m * W - 1 :
                                 b < n <=> arrpos(b) # m \/ bitpos(b) < n % W
<1> DEFINE q == n \div W
<1>1. q \in Nat /\ n % W \in 0 .. W - 1 /\ n = q * W + (n % W) /\ W \in Nat \ {0}
  BY DivMod, BitsetAssumption DEF Word
<1>2. m * W \in n .. n + W - 1 /\ q * W \in Int /\ (q + 1) * W = q * W + W
  BY <1>1, Multiples DEF WordsFor
<1>3. /\ WordsFor(q, n) \/ n % W # 0
      /\ WordsFor(q + 1, n) \/ n % W = 0
  BY <1>1, <1>2 DEF WordsFor
<1> HIDE DEF q
<1>4. CASE n % W = 0
  <2>1. m = q
    BY <1>1, <1>3, <1>4, WordsForUnique
  <2> QED
    BY <1>1, <1>4, <2>1
<1>5. CASE n % W # 0
  <2>1. m = q + 1
    <3>1. q + 1 \in Nat /\ WordsFor(q + 1, n)
      BY <1>1, <1>3, <1>5
    <3> QED
      BY <3>1, WordsForUnique
  <2>2. ASSUME NEW b \in 0 .. m * W - 1
        PROVE  b < n <=> arrpos(b) # m \/ bitpos(b) < n % W
    <3> DEFINE p == arrpos(b) - 1
    <3>1. /\ arrpos(b) \in 1 .. m /\ bitpos(b) \in 0 .. W - 1 /\ b \in Nat
          /\ b = p * W + bitpos(b) /\ p \in Nat
      BY PositionFacts DEF Word
    <3>2. p <= q /\ (arrpos(b) = m <=> p = q)
      BY <1>1, <2>1, <3>1
    <3> HIDE DEF p
    <3>3. p * W \in Int /\ (p < q => p * W + W <= q * W)
      BY <1>1, <3>1, Multiples
    <3> QED
      BY <1>1, <1>2, <3>1, <3>2, <3>3
  <2> QED
    BY <1>1, <1>5, <2>1, <2>2
<1> QED
  BY <1>4, <1>5

-----------------------------------------------------------------------------
(* The bits of an array.                                                   *)

LEMMA BitsOfFacts ==
    ASSUME NEW a \in Seq(Words), NEW b \in 0 .. Len(a) * W - 1
    PROVE  arrpos(b) \in 1 .. Len(a) /\ bitpos(b) \in Word /\ a[arrpos(b)] \in Words
BY PositionFacts

\* An array made word by word.
LEMMA ArrayMade ==
    ASSUME NEW n \in Nat, NEW a, a = [i \in 1 .. n |-> a[i]], \A i \in 1 .. n : a[i] \in Words
    PROVE  a \in Seq(Words) /\ Len(a) = n
<1>1. a \in [1 .. n -> Words]
  BY Zenon
<1> QED
  BY <1>1

LEMMA TrailingFixed ==
    ASSUME NEW a \in Seq(Words), NEW n \in Nat, WordsFor(Len(a), n)
    PROVE  /\ fix_trailing_bits(a, n) \in Seq(Words) /\ Len(fix_trailing_bits(a, n)) = Len(a)
           /\ BitsOf(fix_trailing_bits(a, n)) = BitsOf(a) \cap (0 .. n - 1)
<1> DEFINE m == Len(a)
           f == fix_trailing_bits(a, n)
<1>1. m \in Nat /\ DOMAIN a = 1 .. m /\ \A i \in 1 .. m : a[i] \in Words
  OBVIOUS
<1>2. CASE n % W = 0
  <2>1. f = a /\ m * W = n
    BY <1>1, <1>2, TrailingFacts DEF fix_trailing_bits
  <2>2. BitsOf(a) \subseteq 0 .. n - 1
    BY <2>1 DEF BitsOf
  <2> QED
    BY <2>1, <2>2
<1>3. CASE n % W # 0
  <2>1. /\ m \in 1 .. m /\ n % W \in 1 .. W - 1
        /\ \A b \in 0 .. m * W - 1 : b < n <=> arrpos(b) # m \/ bitpos(b) < n % W
    BY <1>1, <1>3, TrailingFacts
  <2>2. f = [a EXCEPT ![m] = a[m] \cap (0 .. (n % W) - 1)]
    BY <1>3 DEF fix_trailing_bits
  <2>3. /\ f = [i \in 1 .. m |-> f[i]]
        /\ \A i \in 1 .. m : f[i] = IF i = m THEN a[m] \cap (0 .. (n % W) - 1) ELSE a[i]
    BY <1>1, <2>1, <2>2
  <2>4. \A i \in 1 .. m : f[i] \in Words
    BY <1>1, <2>1, <2>3 DEF Words
  <2>5. f \in Seq(Words) /\ Len(f) = m
    <3> HIDE DEF f, m
    <3> QED
      BY ONLY <1>1, <2>3, <2>4, ArrayMade
  <2> HIDE DEF f, m
  <2>6. ASSUME NEW b \in 0 .. m * W - 1
        PROVE  bitpos(b) \in f[arrpos(b)] <=> bitpos(b) \in a[arrpos(b)] /\ b \in 0 .. n - 1
    <3>1. arrpos(b) \in 1 .. m /\ bitpos(b) \in 0 .. W - 1 /\ b \in Nat
      BY <1>1, PositionFacts DEF Word
    <3>2. b < n <=> arrpos(b) # m \/ bitpos(b) < n % W
      BY <2>1
    <3>3. CASE arrpos(b) = m
      <4>1. f[arrpos(b)] = a[m] \cap (0 .. (n % W) - 1)
        BY <2>3, <3>1, <3>3
      <4> QED
        BY <2>1, <3>1, <3>2, <3>3, <4>1
    <3>4. CASE arrpos(b) # m
      <4>1. f[arrpos(b)] = a[arrpos(b)]
        BY <2>3, <3>1, <3>4
      <4> QED
        BY <3>1, <3>2, <3>4, <4>1
    <3> QED
      BY <3>3, <3>4
  <2>7. BitsOf(f) = {b \in 0 .. m * W - 1 : bitpos(b) \in f[arrpos(b)]}
    BY <2>5 DEF BitsOf
  <2>8. BitsOf(a) = {b \in 0 .. m * W - 1 : bitpos(b) \in a[arrpos(b)]}
    BY DEF BitsOf, m
  <2>9. BitsOf(f) = BitsOf(a) \cap (0 .. n - 1)
    BY ONLY <2>6, <2>7, <2>8
  <2> QED
    BY <2>5, <2>9 DEF f, m
<1> QED
  BY <1>2, <1>3


\* The operations on whole arrays, word by word, are those on the sets.
LEMMA ArraysMapped ==
    ASSUME NEW a \in Seq(Words), NEW f, f = [i \in DOMAIN a |-> f[i]],
           \A i \in DOMAIN a : f[i] \in Words
    PROVE  /\ f \in Seq(Words) /\ Len(f) = Len(a)
           /\ BitsOf(f) = {b \in 0 .. Len(a) * W - 1 : bitpos(b) \in f[arrpos(b)]}
<1>1. Len(a) \in Nat /\ DOMAIN a = 1 .. Len(a)
  OBVIOUS
<1>2. f = [i \in 1 .. Len(a) |-> f[i]] /\ \A i \in 1 .. Len(a) : f[i] \in Words
  BY <1>1, Zenon
<1>3. f \in Seq(Words) /\ Len(f) = Len(a)
  BY ONLY <1>1, <1>2, ArrayMade
<1> QED
  BY <1>3 DEF BitsOf

LEMMA ClearedBits ==
    ASSUME NEW a \in Seq(Words)
    PROVE  LET f == [i \in DOMAIN a |-> {}]
           IN  f \in Seq(Words) /\ Len(f) = Len(a) /\ BitsOf(f) = {}
<1> DEFINE f == [i \in DOMAIN a |-> {}]
<1>1. f = [i \in DOMAIN a |-> f[i]] /\ \A i \in DOMAIN a : f[i] \in Words /\ f[i] = {}
  BY DEF Words
<1> HIDE DEF f
<1>2. /\ f \in Seq(Words) /\ Len(f) = Len(a)
      /\ BitsOf(f) = {b \in 0 .. Len(a) * W - 1 : bitpos(b) \in f[arrpos(b)]}
  BY ONLY <1>1, a \in Seq(Words), ArraysMapped
<1>3. \A b \in 0 .. Len(a) * W - 1 : bitpos(b) \notin f[arrpos(b)]
  <2> TAKE b \in 0 .. Len(a) * W - 1
  <2>1. arrpos(b) \in DOMAIN a
    BY BitsOfFacts
  <2> QED
    BY <1>1, <2>1
<1> QED
  BY <1>2, <1>3 DEF f

LEMMA FilledBits ==
    ASSUME NEW a \in Seq(Words)
    PROVE  LET f == [i \in DOMAIN a |-> FullWord]
           IN  f \in Seq(Words) /\ Len(f) = Len(a) /\ BitsOf(f) = 0 .. Len(a) * W - 1
<1> DEFINE f == [i \in DOMAIN a |-> FullWord]
<1>1. f = [i \in DOMAIN a |-> f[i]] /\ \A i \in DOMAIN a : f[i] \in Words /\ f[i] = Word
  BY DEF Words, FullWord
<1> HIDE DEF f
<1>2. /\ f \in Seq(Words) /\ Len(f) = Len(a)
      /\ BitsOf(f) = {b \in 0 .. Len(a) * W - 1 : bitpos(b) \in f[arrpos(b)]}
  BY ONLY <1>1, a \in Seq(Words), ArraysMapped
<1>3. \A b \in 0 .. Len(a) * W - 1 : bitpos(b) \in f[arrpos(b)]
  <2> TAKE b \in 0 .. Len(a) * W - 1
  <2>1. arrpos(b) \in DOMAIN a /\ bitpos(b) \in Word
    BY BitsOfFacts
  <2> QED
    BY <1>1, <2>1
<1> QED
  BY <1>2, <1>3 DEF f

LEMMA InvertedBits ==
    ASSUME NEW a \in Seq(Words)
    PROVE  LET f == [i \in DOMAIN a |-> FullWord \ a[i]]
           IN  /\ f \in Seq(Words) /\ Len(f) = Len(a)
               /\ BitsOf(f) = (0 .. Len(a) * W - 1) \ BitsOf(a)
<1> DEFINE f == [i \in DOMAIN a |-> FullWord \ a[i]]
<1>1. /\ f = [i \in DOMAIN a |-> f[i]]
      /\ \A i \in DOMAIN a : f[i] \in Words /\ f[i] = Word \ a[i]
  BY DEF Words, FullWord
<1> HIDE DEF f
<1>2. /\ f \in Seq(Words) /\ Len(f) = Len(a)
      /\ BitsOf(f) = {b \in 0 .. Len(a) * W - 1 : bitpos(b) \in f[arrpos(b)]}
  BY ONLY <1>1, a \in Seq(Words), ArraysMapped
<1>3. \A b \in 0 .. Len(a) * W - 1 : bitpos(b) \in f[arrpos(b)] <=> b \notin BitsOf(a)
  <2> TAKE b \in 0 .. Len(a) * W - 1
  <2>1. arrpos(b) \in DOMAIN a /\ bitpos(b) \in Word
    BY BitsOfFacts
  <2>2. b \in BitsOf(a) <=> bitpos(b) \in a[arrpos(b)]
    BY DEF BitsOf
  <2> QED
    BY <1>1, <2>1, <2>2
<1> QED
  BY <1>2, <1>3 DEF f

LEMMA CombinedBits ==
    ASSUME NEW a \in Seq(Words), NEW c \in Seq(Words), Len(a) = Len(c)
    PROVE  LET both == [i \in DOMAIN a |-> a[i] \cap c[i]]
               any == [i \in DOMAIN a |-> a[i] \cup c[i]]
               rest == [i \in DOMAIN a |-> a[i] \ (a[i] \cap c[i])]
           IN  /\ both \in Seq(Words) /\ any \in Seq(Words) /\ rest \in Seq(Words)
               /\ Len(both) = Len(a) /\ Len(any) = Len(a) /\ Len(rest) = Len(a)
               /\ BitsOf(both) = BitsOf(a) \cap BitsOf(c)
               /\ BitsOf(any) = BitsOf(a) \cup BitsOf(c)
               /\ BitsOf(rest) = BitsOf(a) \ BitsOf(c)
<1> DEFINE both == [i \in DOMAIN a |-> a[i] \cap c[i]]
           any == [i \in DOMAIN a |-> a[i] \cup c[i]]
           rest == [i \in DOMAIN a |-> a[i] \ (a[i] \cap c[i])]
<1>1. \A i \in DOMAIN a : a[i] \in Words /\ c[i] \in Words
  OBVIOUS
<1>2. /\ both = [i \in DOMAIN a |-> both[i]]
      /\ \A i \in DOMAIN a : both[i] \in Words /\ both[i] = a[i] \cap c[i]
  BY <1>1 DEF Words
<1>3. /\ any = [i \in DOMAIN a |-> any[i]]
      /\ \A i \in DOMAIN a : any[i] \in Words /\ any[i] = a[i] \cup c[i]
  BY <1>1 DEF Words
<1>4. /\ rest = [i \in DOMAIN a |-> rest[i]]
      /\ \A i \in DOMAIN a : rest[i] \in Words /\ rest[i] = a[i] \ c[i]
  BY <1>1 DEF Words
<1> HIDE DEF both, any, rest
<1>5. /\ both \in Seq(Words) /\ Len(both) = Len(a)
      /\ BitsOf(both) = {b \in 0 .. Len(a) * W - 1 : bitpos(b) \in both[arrpos(b)]}
  BY ONLY <1>2, a \in Seq(Words), ArraysMapped
<1>6. /\ any \in Seq(Words) /\ Len(any) = Len(a)
      /\ BitsOf(any) = {b \in 0 .. Len(a) * W - 1 : bitpos(b) \in any[arrpos(b)]}
  BY ONLY <1>3, a \in Seq(Words), ArraysMapped
<1>7. /\ rest \in Seq(Words) /\ Len(rest) = Len(a)
      /\ BitsOf(rest) = {b \in 0 .. Len(a) * W - 1 : bitpos(b) \in rest[arrpos(b)]}
  BY ONLY <1>4, a \in Seq(Words), ArraysMapped
<1>8. \A b \in 0 .. Len(a) * W - 1 :
          /\ bitpos(b) \in both[arrpos(b)] <=> b \in BitsOf(a) /\ b \in BitsOf(c)
          /\ bitpos(b) \in any[arrpos(b)] <=> b \in BitsOf(a) \/ b \in BitsOf(c)
          /\ bitpos(b) \in rest[arrpos(b)] <=> b \in BitsOf(a) /\ b \notin BitsOf(c)
  <2> TAKE b \in 0 .. Len(a) * W - 1
  <2>1. arrpos(b) \in DOMAIN a
    BY BitsOfFacts
  <2>2. /\ b \in BitsOf(a) <=> bitpos(b) \in a[arrpos(b)]
        /\ b \in BitsOf(c) <=> bitpos(b) \in c[arrpos(b)]
    BY DEF BitsOf
  <2> QED
    BY <1>2, <1>3, <1>4, <2>1, <2>2
<1>9. BitsOf(a) \subseteq 0 .. Len(a) * W - 1 /\ BitsOf(c) \subseteq 0 .. Len(a) * W - 1
  BY DEF BitsOf
<1>10. BitsOf(both) = BitsOf(a) \cap BitsOf(c)
  BY ONLY <1>5, <1>8, <1>9
<1>11. BitsOf(any) = BitsOf(a) \cup BitsOf(c)
  BY ONLY <1>6, <1>8, <1>9
<1>12. BitsOf(rest) = BitsOf(a) \ BitsOf(c)
  BY ONLY <1>7, <1>8, <1>9
<1> QED
  BY <1>5, <1>6, <1>7, <1>10, <1>11, <1>12 DEF both, any, rest

\* One word is replaced.
LEMMA WordReplaced ==
    ASSUME NEW a \in Seq(Words), NEW i \in 1 .. Len(a), NEW word \in Words
    PROVE  LET f == [a EXCEPT ![i] = word]
           IN  /\ f \in Seq(Words) /\ Len(f) = Len(a)
               /\ \A b \in 0 .. Len(a) * W - 1 :
                     b \in BitsOf(f) <=> IF arrpos(b) = i THEN bitpos(b) \in word
                                         ELSE b \in BitsOf(a)
               /\ BitsOf(f) \subseteq 0 .. Len(a) * W - 1
<1> DEFINE f == [a EXCEPT ![i] = word]
<1>1. /\ f = [j \in DOMAIN a |-> f[j]]
      /\ \A j \in DOMAIN a : f[j] \in Words /\ f[j] = IF j = i THEN word ELSE a[j]
  OBVIOUS
<1> HIDE DEF f
<1>2. /\ f \in Seq(Words) /\ Len(f) = Len(a)
      /\ BitsOf(f) = {b \in 0 .. Len(a) * W - 1 : bitpos(b) \in f[arrpos(b)]}
  BY ONLY <1>1, a \in Seq(Words), ArraysMapped
<1>3. \A b \in 0 .. Len(a) * W - 1 :
          bitpos(b) \in f[arrpos(b)] <=> IF arrpos(b) = i THEN bitpos(b) \in word
                                         ELSE b \in BitsOf(a)
  <2> TAKE b \in 0 .. Len(a) * W - 1
  <2>1. arrpos(b) \in DOMAIN a
    BY BitsOfFacts
  <2>2. b \in BitsOf(a) <=> bitpos(b) \in a[arrpos(b)]
    BY DEF BitsOf
  <2> QED
    BY <1>1, <2>1, <2>2
<1>4. BitsOf(f) \subseteq 0 .. Len(a) * W - 1
  BY <1>2
<1>5. \A b \in 0 .. Len(a) * W - 1 :
          b \in BitsOf(f) <=> IF arrpos(b) = i THEN bitpos(b) \in word ELSE b \in BitsOf(a)
  BY <1>2, <1>3
<1> QED
  BY <1>2, <1>4, <1>5 DEF f

\* One bit of a word is set, cleared or flipped; the whole word is cleared.
LEMMA BitReplaced ==
    ASSUME NEW a \in Seq(Words), NEW b \in 0 .. Len(a) * W - 1, NEW word \in Words,
           \A k \in Word : k # bitpos(b) => (k \in word <=> k \in a[arrpos(b)])
    PROVE  LET f == [a EXCEPT ![arrpos(b)] = word]
           IN  /\ f \in Seq(Words) /\ Len(f) = Len(a)
               /\ BitsOf(f) = IF bitpos(b) \in word THEN BitsOf(a) \cup {b} ELSE BitsOf(a) \ {b}
<1> DEFINE f == [a EXCEPT ![arrpos(b)] = word]
           i == arrpos(b)
<1>1. i \in 1 .. Len(a) /\ Len(a) \in Nat
  BY BitsOfFacts
<1>2. /\ f \in Seq(Words) /\ Len(f) = Len(a)
      /\ \A c \in 0 .. Len(a) * W - 1 :
            c \in BitsOf(f) <=> IF arrpos(c) = i THEN bitpos(c) \in word ELSE c \in BitsOf(a)
      /\ BitsOf(f) \subseteq 0 .. Len(a) * W - 1
  <2> HIDE DEF i
  <2>1. f = [a EXCEPT ![i] = word]
    BY DEF i
  <2> HIDE DEF f
  <2> QED
    BY <1>1, <2>1, WordReplaced
<1> HIDE DEF f
<1>3. ASSUME NEW c \in 0 .. Len(a) * W - 1
      PROVE  c \in BitsOf(f) <=> IF c = b THEN bitpos(b) \in word ELSE c \in BitsOf(a)
  <2>1. c \in BitsOf(a) <=> bitpos(c) \in a[arrpos(c)]
    BY DEF BitsOf
  <2>2. bitpos(c) \in Word /\ (arrpos(b) = arrpos(c) /\ bitpos(b) = bitpos(c) => b = c)
    BY <1>1, PositionFacts, PositionOrder
  <2> QED
    BY <1>2, <2>1, <2>2
<1>4. BitsOf(a) \subseteq 0 .. Len(a) * W - 1
  BY DEF BitsOf
<1> QED
  BY <1>2, <1>3, <1>4 DEF f


\* An array gets another number of words; new words are clear.
LEMMA GrownBits ==
    ASSUME NEW a \in Seq(Words), NEW m \in Nat
    PROVE  LET f == [i \in 1 .. m |-> IF i <= Len(a) THEN a[i] ELSE {}]
           IN  /\ f \in Seq(Words) /\ Len(f) = m
               /\ BitsOf(f) = BitsOf(a) \cap (0 .. m * W - 1)
<1> DEFINE f == [i \in 1 .. m |-> IF i <= Len(a) THEN a[i] ELSE {}]
<1>1. /\ f = [i \in 1 .. m |-> f[i]]
      /\ \A i \in 1 .. m : f[i] = IF i <= Len(a) THEN a[i] ELSE {}
      /\ Len(a) \in Nat /\ DOMAIN a = 1 .. Len(a)
  OBVIOUS
<1>2. \A i \in 1 .. m : f[i] \in Words
  <2> HIDE DEF f
  <2> TAKE i \in 1 .. m
  <2>1. CASE i <= Len(a)
    BY <1>1, <2>1
  <2>2. CASE ~(i <= Len(a))
    BY <1>1, <2>2 DEF Words
  <2> QED
    BY <2>1, <2>2
<1> HIDE DEF f
<1>3. f \in Seq(Words) /\ Len(f) = m
  BY ONLY <1>1, <1>2, m \in Nat, ArrayMade
<1>4. ASSUME NEW b \in 0 .. m * W - 1
      PROVE  b \in BitsOf(f) <=> b \in BitsOf(a)
  <2>1. /\ arrpos(b) \in 1 .. m /\ bitpos(b) \in Word
        /\ b = (arrpos(b) - 1) * W + bitpos(b)
    BY PositionFacts
  <2>2. b \in BitsOf(f) <=> bitpos(b) \in f[arrpos(b)]
    BY <1>3 DEF BitsOf
  <2>3. CASE arrpos(b) <= Len(a)
    <3>1. arrpos(b) \in 1 .. Len(a)
      BY <1>1, <2>1, <2>3
    <3>2. (arrpos(b) - 1) * W + bitpos(b) \in 0 .. Len(a) * W - 1
      BY <1>1, <2>1, <3>1, PositionOf
    <3>3. b \in BitsOf(a) <=> bitpos(b) \in a[arrpos(b)]
      BY <2>1, <3>2 DEF BitsOf
    <3> QED
      BY <1>1, <2>1, <2>2, <2>3, <3>3
  <2>4. CASE ~(arrpos(b) <= Len(a))
    <3>1. b \in BitsOf(a) => arrpos(b) \in 1 .. Len(a)
      BY BitsOfFacts DEF BitsOf
    <3>2. b \notin BitsOf(a)
      BY <1>1, <2>1, <2>4, <3>1
    <3> QED
      BY <1>1, <2>1, <2>2, <2>4, <3>2
  <2> QED
    BY <2>3, <2>4
<1>5. BitsOf(f) \subseteq 0 .. m * W - 1
  BY <1>3 DEF BitsOf
<1> QED
  BY <1>3, <1>4, <1>5 DEF f

-----------------------------------------------------------------------------
(* The invariant, and the set each step makes.                             *)

\* A transfer under way is between two sets of one size.
Transferring ==
    transfer.on =>
        /\ transfer.to \in Sets /\ transfer.from \in Sets /\ transfer.to # transfer.from
        /\ len[transfer.to] = len[transfer.from]
        /\ transfer.pos \in 1 .. arrlen(transfer.from)

\* Every array has the words its size calls for, and nothing set beyond the size.
WordsFit ==
    \A x \in Sets : WordsFor(arrlen(x), len[x]) /\ BitsOf(array[x]) \subseteq 0 .. len[x] - 1

Transfers ==
    [on : BOOLEAN, to : Sets \cup {0}, from : Sets \cup {0}, pos : Nat, initial : Nat, left : Nat]

BitsetInv ==
    /\ array \in [Sets -> Seq(Words)] /\ len \in [Sets -> Nat] /\ transfer \in Transfers
    /\ WordsFit /\ Transferring

LEMMA BitsFacts ==
    ASSUME BitsetInv
    PROVE  /\ bits = [x \in Sets |-> BitsOf(array[x])]
           /\ \A x \in Sets : /\ array[x] \in Seq(Words) /\ arrlen(x) = Len(array[x])
                              /\ len[x] \in Nat /\ bits[x] = BitsOf(array[x])
                              /\ 0 .. len[x] - 1 \subseteq 0 .. arrlen(x) * W - 1
                              /\ len[x] <= arrlen(x) * W
                              /\ bits[x] \subseteq 0 .. len[x] - 1
                              /\ WordsFor(arrlen(x), len[x])
<1>1. bits = [x \in Sets |-> BitsOf(array[x])]
  BY DEF bits, BitsOf, get, WordOf, arrlen
<1>2. ASSUME NEW x \in Sets
      PROVE  /\ array[x] \in Seq(Words) /\ arrlen(x) = Len(array[x])
             /\ len[x] \in Nat /\ 0 .. len[x] - 1 \subseteq 0 .. arrlen(x) * W - 1
             /\ len[x] <= arrlen(x) * W
             /\ WordsFor(arrlen(x), len[x])
             /\ BitsOf(array[x]) \subseteq 0 .. len[x] - 1
  <2>1. array[x] \in Seq(Words) /\ len[x] \in Nat /\ WordsFor(arrlen(x), len[x])
        /\ BitsOf(array[x]) \subseteq 0 .. len[x] - 1
    BY DEF BitsetInv, WordsFit
  <2>2. len[x] <= arrlen(x) * W /\ arrlen(x) * W \in Int
    BY <2>1, BitsetAssumption DEF WordsFor
  <2> QED
    BY <2>1, <2>2 DEF arrlen
<1> QED
  BY <1>1, <1>2

\* One array is replaced, its size staying or not.
LEMMA ArrayReplaced ==
    ASSUME BitsetInv, NEW x \in Sets, NEW a \in Seq(Words), NEW n \in Nat,
           WordsFor(Len(a), n), BitsOf(a) \subseteq 0 .. n - 1,
           array' = [array EXCEPT ![x] = a], len' = [len EXCEPT ![x] = n], Idle
    PROVE  BitsetInv' /\ bits' = [bits EXCEPT ![x] = BitsOf(a)]
<1>1. array' \in [Sets -> Seq(Words)] /\ len' \in [Sets -> Nat]
  BY DEF BitsetInv
<1>2. \A y \in Sets : /\ array'[y] = IF y = x THEN a ELSE array[y]
                      /\ len'[y] = IF y = x THEN n ELSE len[y]
  BY DEF BitsetInv
<1>3. WordsFit'
  BY <1>2 DEF BitsetInv, WordsFit, arrlen
<1>4. Transferring'
  BY DEF Idle, Transferring
<1>5. BitsetInv'
  BY <1>1, <1>3, <1>4 DEF BitsetInv, Idle
<1>6. bits' = [y \in Sets |-> BitsOf(array'[y])]
  BY DEF bits, BitsOf, get, WordOf, arrlen
<1>7. bits = [y \in Sets |-> BitsOf(array[y])]
  BY BitsFacts
<1>8. \A y \in Sets : bits'[y] = IF y = x THEN BitsOf(a) ELSE bits[y]
  BY <1>2, <1>6, <1>7
<1>9. bits' = [bits EXCEPT ![x] = BitsOf(a)]
  <2>1. DOMAIN bits = Sets /\ DOMAIN bits' = Sets
    BY <1>6, <1>7
  <2> HIDE DEF bits
  <2> QED
    BY <1>6, <1>7, <1>8, <2>1
<1> QED
  BY <1>5, <1>9

LEMMA StoreMade ==
    ASSUME BitsetInv, NEW x \in Sets, NEW a \in Seq(Words), Len(a) = arrlen(x),
           BitsOf(a) \subseteq 0 .. len[x] - 1, Store(x, a)
    PROVE  BitsetInv' /\ Abstract!Becomes(x, BitsOf(a))
<1>1. array' = [array EXCEPT ![x] = a] /\ UNCHANGED len /\ Idle
  BY DEF Store
<1>2. len' = [len EXCEPT ![x] = len[x]] /\ len[x] \in Nat /\ WordsFor(Len(a), len[x])
  BY <1>1, BitsFacts DEF BitsetInv
<1>3. BitsetInv' /\ bits' = [bits EXCEPT ![x] = BitsOf(a)]
  BY <1>1, <1>2, ArrayReplaced
<1> QED
  BY <1>1, <1>3 DEF Abstract!Becomes

LEMMA InitBitset == Init => BitsetInv /\ Abstract!Init
<1> SUFFICES ASSUME Init PROVE BitsetInv /\ Abstract!Init
  OBVIOUS
<1>1. /\ len = [x \in Sets |-> 0] /\ array = [x \in Sets |-> <<>>]
      /\ ~transfer.on /\ transfer \in Transfers
  BY DEF Init, NoTransfer, Transfers
<1>2. <<>> \in Seq(Words) /\ Len(<<>>) = 0
  OBVIOUS
<1>3. BitsOf(<<>>) = {} /\ WordsFor(0, 0)
  BY <1>2, BitsetAssumption DEF BitsOf, WordsFor
<1>4. BitsetInv
  BY <1>1, <1>2, <1>3 DEF BitsetInv, WordsFit, Transferring, arrlen
<1>5. bits = [x \in Sets |-> {}]
  BY <1>1, <1>3, <1>4, BitsFacts
<1> QED
  BY <1>1, <1>4, <1>5 DEF Init, Abstract!Init

LEMMA ResizeStep ==
    ASSUME BitsetInv, NEW x \in Sets, NEW n \in Sizes, resize(x, n)
    PROVE  BitsetInv' /\ Abstract!Resize(x, n)
<1> DEFINE m == (n \div W) + (IF n % W > 0 THEN 1 ELSE 0)
           g == [i \in 1 .. m |-> IF i <= Len(array[x]) THEN array[x][i] ELSE {}]
           f == fix_trailing_bits(g, n)
<1>1. n \in Nat /\ array[x] \in Seq(Words)
  BY BitsetAssumption, BitsFacts
<1>2. m \in Nat /\ WordsFor(m, n)
  BY <1>1, WordsForSize
<1>3. Idle /\ len' = [len EXCEPT ![x] = n] /\ array' = [array EXCEPT ![x] = f]
  BY DEF resize, Resized, arrlen
<1> HIDE DEF m
<1>4. g \in Seq(Words) /\ Len(g) = m /\ BitsOf(g) = BitsOf(array[x]) \cap (0 .. m * W - 1)
  BY <1>1, <1>2, GrownBits
<1> HIDE DEF g
<1>5. f \in Seq(Words) /\ Len(f) = m /\ BitsOf(f) = BitsOf(g) \cap (0 .. n - 1)
  BY <1>1, <1>2, <1>4, TrailingFixed
<1>6. BitsOf(f) = bits[x] \cap (0 .. n - 1)
  <2>1. n <= m * W /\ m * W \in Int
    BY <1>1, <1>2, BitsetAssumption DEF WordsFor
  <2>2. bits[x] = BitsOf(array[x])
    BY BitsFacts
  <2> QED
    BY <1>1, <1>4, <1>5, <2>1, <2>2
<1> HIDE DEF f
<1>7. BitsetInv' /\ bits' = [bits EXCEPT ![x] = BitsOf(f)]
  BY <1>1, <1>2, <1>3, <1>5, <1>6, ArrayReplaced
<1> QED
  BY <1>3, <1>6, <1>7 DEF resize, Calls, Abstract!Resize, Abstract!Calls


LEMMA ClearStep ==
    ASSUME BitsetInv, NEW x \in Sets, clear(x)
    PROVE  BitsetInv' /\ Abstract!Clear(x)
<1> DEFINE f == [i \in DOMAIN array[x] |-> {}]
<1>1. array[x] \in Seq(Words) /\ arrlen(x) = Len(array[x])
  BY BitsFacts
<1>2. f \in Seq(Words) /\ Len(f) = arrlen(x) /\ BitsOf(f) = {}
  BY <1>1, ClearedBits
<1>3. Store(x, f)
  BY DEF clear
<1> HIDE DEF f
<1>4. BitsetInv' /\ Abstract!Becomes(x, {})
  BY <1>2, <1>3, StoreMade
<1> QED
  BY <1>4 DEF clear, Calls, Abstract!Clear, Abstract!Calls

LEMMA FillStep ==
    ASSUME BitsetInv, NEW x \in Sets, fill(x)
    PROVE  BitsetInv' /\ Abstract!Fill(x)
<1> DEFINE g == [i \in DOMAIN array[x] |-> FullWord]
           f == fix_trailing_bits(g, len[x])
<1>1. /\ array[x] \in Seq(Words) /\ arrlen(x) = Len(array[x]) /\ len[x] \in Nat
      /\ WordsFor(arrlen(x), len[x]) /\ 0 .. len[x] - 1 \subseteq 0 .. arrlen(x) * W - 1
  BY BitsFacts
<1>2. g \in Seq(Words) /\ Len(g) = arrlen(x) /\ BitsOf(g) = 0 .. arrlen(x) * W - 1
  BY <1>1, FilledBits
<1>3. Store(x, f)
  BY DEF fill
<1> HIDE DEF g
<1>4. f \in Seq(Words) /\ Len(f) = arrlen(x) /\ BitsOf(f) = BitsOf(g) \cap (0 .. len[x] - 1)
  BY <1>1, <1>2, TrailingFixed
<1> HIDE DEF f
<1>5. BitsOf(f) = 0 .. len[x] - 1
  BY <1>1, <1>2, <1>4
<1>6. BitsetInv' /\ Abstract!Becomes(x, 0 .. len[x] - 1)
  BY <1>3, <1>4, <1>5, StoreMade
<1> QED
  BY <1>6 DEF fill, Calls, Abstract!Fill, Abstract!Calls, Abstract!Positions

LEMMA InvertStep ==
    ASSUME BitsetInv, NEW x \in Sets, invert(x)
    PROVE  BitsetInv' /\ Abstract!Invert(x)
<1> DEFINE g == [i \in DOMAIN array[x] |-> FullWord \ array[x][i]]
           f == fix_trailing_bits(g, len[x])
<1>1. /\ array[x] \in Seq(Words) /\ arrlen(x) = Len(array[x]) /\ len[x] \in Nat
      /\ WordsFor(arrlen(x), len[x]) /\ 0 .. len[x] - 1 \subseteq 0 .. arrlen(x) * W - 1
      /\ bits[x] = BitsOf(array[x])
  BY BitsFacts
<1>2. /\ g \in Seq(Words) /\ Len(g) = arrlen(x)
      /\ BitsOf(g) = (0 .. arrlen(x) * W - 1) \ BitsOf(array[x])
  BY <1>1, InvertedBits
<1>3. Store(x, f)
  BY DEF invert
<1> HIDE DEF g
<1>4. f \in Seq(Words) /\ Len(f) = arrlen(x) /\ BitsOf(f) = BitsOf(g) \cap (0 .. len[x] - 1)
  BY <1>1, <1>2, TrailingFixed
<1> HIDE DEF f
<1>5. BitsOf(f) = (0 .. len[x] - 1) \ bits[x]
  BY <1>1, <1>2, <1>4
<1>6. BitsetInv' /\ Abstract!Becomes(x, (0 .. len[x] - 1) \ bits[x])
  BY <1>3, <1>4, <1>5, StoreMade
<1> QED
  BY <1>6 DEF invert, Calls, Abstract!Invert, Abstract!Calls, Abstract!Positions

\* set_bit, clear_bit and xor_bit.
LEMMA BitStep ==
    ASSUME BitsetInv, NEW x \in Sets, NEW b \in 0 .. len[x] - 1, NEW word \in Words,
           \A k \in Word : k # bitpos(b) => (k \in word <=> k \in WordOf(x, b)),
           OnWord(x, b, word)
    PROVE  /\ BitsetInv'
           /\ Abstract!Becomes(x, IF bitpos(b) \in word THEN bits[x] \cup {b} ELSE bits[x] \ {b})
<1> DEFINE f == [array[x] EXCEPT ![arrpos(b)] = word]
<1>1. /\ array[x] \in Seq(Words) /\ arrlen(x) = Len(array[x])
      /\ bits[x] \subseteq 0 .. len[x] - 1 /\ bits[x] = BitsOf(array[x])
      /\ b \in 0 .. Len(array[x]) * W - 1
  BY BitsFacts
<1>2. \A k \in Word : k # bitpos(b) => (k \in word <=> k \in array[x][arrpos(b)])
  BY DEF WordOf
<1>3. /\ f \in Seq(Words) /\ Len(f) = Len(array[x])
      /\ BitsOf(f) = IF bitpos(b) \in word THEN BitsOf(array[x]) \cup {b}
                     ELSE BitsOf(array[x]) \ {b}
  BY ONLY <1>1, <1>2, word \in Words, BitReplaced
<1>4. Store(x, f)
  BY DEF OnWord
<1> HIDE DEF f
<1>5. BitsOf(f) = IF bitpos(b) \in word THEN bits[x] \cup {b} ELSE bits[x] \ {b}
  BY <1>1, <1>3
<1>6. BitsOf(f) \subseteq 0 .. len[x] - 1
  BY <1>1, <1>5
<1>7. BitsetInv' /\ Abstract!Becomes(x, BitsOf(f))
  BY <1>1, <1>3, <1>4, <1>6, StoreMade
<1> QED
  BY <1>5, <1>7

LEMMA OneBitStep ==
    ASSUME BitsetInv, NEW x \in Sets, NEW b \in 0 .. len[x] - 1,
           set_bit(x, b) \/ clear_bit(x, b) \/ xor_bit(x, b)
    PROVE  /\ BitsetInv'
           /\ Abstract!SetBit(x, b) \/ Abstract!ClearBit(x, b) \/ Abstract!XorBit(x, b)
<1>1. /\ array[x] \in Seq(Words) /\ arrlen(x) = Len(array[x])
      /\ bits[x] = BitsOf(array[x]) /\ b \in 0 .. Len(array[x]) * W - 1
  BY BitsFacts
<1>2. bitpos(b) \in Word /\ WordOf(x, b) \in Words
  BY <1>1, BitsOfFacts DEF WordOf
<1>3. b \in bits[x] <=> bitpos(b) \in WordOf(x, b)
  BY <1>1 DEF BitsOf, WordOf
<1>4. CASE set_bit(x, b)
  <2> DEFINE word == WordOf(x, b) \cup {bitpos(b)}
  <2>1. word \in Words /\ bitpos(b) \in word /\ OnWord(x, b, word)
    BY <1>2, <1>4 DEF Words, set_bit
  <2>2. \A k \in Word : k # bitpos(b) => (k \in word <=> k \in WordOf(x, b))
    OBVIOUS
  <2> HIDE DEF word
  <2>3. BitsetInv' /\ Abstract!Becomes(x, bits[x] \cup {b})
    BY <2>1, <2>2, BitStep
  <2> QED
    BY <1>4, <2>3 DEF set_bit, Calls, Abstract!SetBit, Abstract!Calls
<1>5. CASE clear_bit(x, b)
  <2> DEFINE word == WordOf(x, b) \ {bitpos(b)}
  <2>1. word \in Words /\ bitpos(b) \notin word /\ OnWord(x, b, word)
    BY <1>2, <1>5 DEF Words, clear_bit
  <2>2. \A k \in Word : k # bitpos(b) => (k \in word <=> k \in WordOf(x, b))
    OBVIOUS
  <2> HIDE DEF word
  <2>3. BitsetInv' /\ Abstract!Becomes(x, bits[x] \ {b})
    BY <2>1, <2>2, BitStep
  <2> QED
    BY <1>5, <2>3 DEF clear_bit, Calls, Abstract!ClearBit, Abstract!Calls
<1>6. CASE xor_bit(x, b)
  <2> DEFINE word == (WordOf(x, b) \ {bitpos(b)}) \cup ({bitpos(b)} \ WordOf(x, b))
  <2>1. /\ word \in Words /\ OnWord(x, b, word)
        /\ bitpos(b) \in word <=> bitpos(b) \notin WordOf(x, b)
    BY <1>2, <1>6 DEF Words, xor_bit
  <2>2. \A k \in Word : k # bitpos(b) => (k \in word <=> k \in WordOf(x, b))
    OBVIOUS
  <2> HIDE DEF word
  <2>3. BitsetInv' /\ Abstract!Becomes(x, IF bitpos(b) \in word THEN bits[x] \cup {b}
                                          ELSE bits[x] \ {b})
    BY <2>1, <2>2, BitStep
  <2>4. Abstract!Becomes(x, IF b \in bits[x] THEN bits[x] \ {b} ELSE bits[x] \cup {b})
    BY <1>3, <2>1, <2>3
  <2> QED
    BY <1>6, <2>3, <2>4 DEF xor_bit, Calls, Abstract!XorBit, Abstract!Calls
<1> QED
  BY <1>4, <1>5, <1>6

LEMMA TakeWordStep ==
    ASSUME BitsetInv, NEW x \in Sets, NEW b \in 0 .. len[x] - 1,
           get_containing_word_and_zero(x, b)
    PROVE  BitsetInv' /\ Abstract!TakeWord(x, b)
<1> DEFINE i == arrpos(b)
           f == [array[x] EXCEPT ![i] = {}]
           taken == {c \in bits[x] : arrpos(c) = i}
<1>1. /\ array[x] \in Seq(Words) /\ arrlen(x) = Len(array[x])
      /\ bits[x] \subseteq 0 .. len[x] - 1 /\ bits[x] = BitsOf(array[x])
      /\ b \in 0 .. Len(array[x]) * W - 1
      /\ 0 .. len[x] - 1 \subseteq 0 .. Len(array[x]) * W - 1
  BY BitsFacts
<1>2. i \in 1 .. Len(array[x]) /\ {} \in Words
  BY <1>1, BitsOfFacts DEF Words
<1>3. Store(x, f)
  BY DEF get_containing_word_and_zero, OnWord
<1> HIDE DEF i
<1>4. /\ f \in Seq(Words) /\ Len(f) = Len(array[x])
      /\ \A c \in 0 .. Len(array[x]) * W - 1 :
            c \in BitsOf(f) <=> IF arrpos(c) = i THEN bitpos(c) \in {} ELSE c \in BitsOf(array[x])
      /\ BitsOf(f) \subseteq 0 .. Len(array[x]) * W - 1
  BY ONLY <1>1, <1>2, WordReplaced
<1> HIDE DEF f
<1>5. BitsOf(f) = bits[x] \ taken
  BY <1>1, <1>4
<1>6. BitsetInv' /\ Abstract!Becomes(x, BitsOf(f))
  <2>1. BitsOf(f) \subseteq 0 .. len[x] - 1
    BY <1>1, <1>5
  <2> QED
    BY <1>1, <1>3, <1>4, <2>1, StoreMade
<1>7. taken = Abstract!InWordOf(x, b)
  <2>1. \A c \in bits[x] : c \div W \in Int /\ (arrpos(c) = arrpos(b) <=> c \div W = b \div W)
    <3> TAKE c \in bits[x]
    <3>1. c \in Nat /\ b \in Nat
      BY <1>1
    <3>2. c \div W \in Nat /\ b \div W \in Nat
      BY <3>1, DivMod
    <3> QED
      BY <3>2 DEF arrpos
  <2> QED
    BY <2>1 DEF i, Abstract!InWordOf
<1> HIDE DEF taken
<1>8. Abstract!Becomes(x, bits[x] \ Abstract!InWordOf(x, b))
  BY <1>5, <1>6, <1>7
<1> QED
  BY <1>6, <1>8 DEF get_containing_word_and_zero, Calls, Abstract!TakeWord, Abstract!Calls

LEMMA AssignStep ==
    ASSUME BitsetInv, NEW x \in Sets, NEW y \in Sets, assign(x, y)
    PROVE  BitsetInv' /\ Abstract!Copy(x, y)
<1>1. /\ array[y] \in Seq(Words) /\ arrlen(y) = Len(array[y]) /\ len[y] \in Nat
      /\ bits[y] = BitsOf(array[y]) /\ bits[y] \subseteq 0 .. len[y] - 1
      /\ WordsFor(Len(array[y]), len[y])
  BY BitsFacts DEF arrlen
<1>2. Idle /\ len' = [len EXCEPT ![x] = len[y]] /\ array' = [array EXCEPT ![x] = array[y]]
  BY DEF assign
<1>3. BitsetInv' /\ bits' = [bits EXCEPT ![x] = BitsOf(array[y])]
  BY <1>1, <1>2, ArrayReplaced
<1> QED
  BY <1>1, <1>2, <1>3 DEF assign, Calls, Abstract!Copy, Abstract!Calls

LEMMA BinaryStep ==
    ASSUME BitsetInv, NEW x \in Sets, NEW y \in Sets, len[x] = len[y],
           intersect(x, y) \/ unite(x, y) \/ subtract(x, y)
    PROVE  /\ BitsetInv'
           /\ Abstract!Intersect(x, y) \/ Abstract!Unite(x, y) \/ Abstract!Subtract(x, y)
<1> DEFINE a == array[x]
           c == array[y]
           both == [i \in DOMAIN a |-> a[i] \cap c[i]]
           any == [i \in DOMAIN a |-> a[i] \cup c[i]]
           rest == [i \in DOMAIN a |-> a[i] \ (a[i] \cap c[i])]
<1>1. /\ a \in Seq(Words) /\ c \in Seq(Words) /\ len[x] \in Nat /\ Len(a) = arrlen(x)
      /\ bits[x] = BitsOf(a) /\ bits[y] = BitsOf(c)
      /\ bits[x] \subseteq 0 .. len[x] - 1 /\ bits[y] \subseteq 0 .. len[x] - 1
      /\ WordsFor(Len(a), len[x]) /\ WordsFor(Len(c), len[x])
  BY BitsFacts DEF arrlen
<1>2. Len(a) = Len(c)
  <2> HIDE DEF a, c
  <2>1. Len(a) \in Nat /\ Len(c) \in Nat
    BY <1>1
  <2> QED
    BY <1>1, <2>1, WordsForUnique
<1>3. /\ intersect(x, y) => Store(x, both) /\ call' = <<"intersect", x, y>>
      /\ unite(x, y) => Store(x, any) /\ call' = <<"unite", x, y>>
      /\ subtract(x, y) => Store(x, rest) /\ call' = <<"subtract", x, y>>
  BY DEF intersect, unite, subtract, Calls
<1>4. /\ both \in Seq(Words) /\ any \in Seq(Words) /\ rest \in Seq(Words)
      /\ Len(both) = Len(a) /\ Len(any) = Len(a) /\ Len(rest) = Len(a)
      /\ BitsOf(both) = BitsOf(a) \cap BitsOf(c)
      /\ BitsOf(any) = BitsOf(a) \cup BitsOf(c)
      /\ BitsOf(rest) = BitsOf(a) \ BitsOf(c)
  <2> HIDE DEF a, c
  <2> QED
    BY ONLY <1>1, <1>2, CombinedBits
<1> HIDE DEF a, c, both, any, rest
<1>5. CASE intersect(x, y)
  <2>1. BitsetInv' /\ Abstract!Becomes(x, bits[x] \cap bits[y])
    BY <1>1, <1>3, <1>4, <1>5, StoreMade
  <2> QED
    BY <1>3, <1>5, <2>1 DEF Abstract!Intersect, Abstract!Calls
<1>6. CASE unite(x, y)
  <2>1. BitsetInv' /\ Abstract!Becomes(x, bits[x] \cup bits[y])
    BY <1>1, <1>3, <1>4, <1>6, StoreMade
  <2> QED
    BY <1>3, <1>6, <2>1 DEF Abstract!Unite, Abstract!Calls
<1>7. CASE subtract(x, y)
  <2>1. BitsetInv' /\ Abstract!Becomes(x, bits[x] \ bits[y])
    BY <1>1, <1>3, <1>4, <1>7, StoreMade
  <2> QED
    BY <1>3, <1>7, <2>1 DEF Abstract!Subtract, Abstract!Calls
<1> QED
  BY <1>5, <1>6, <1>7

LEMMA BitsSame ==
    ASSUME UNCHANGED array
    PROVE  bits' = bits
BY DEF bits, arrlen, get, WordOf

LEMMA BeginTransferStep ==
    ASSUME BitsetInv, NEW x \in Sets, NEW y \in Sets, NEW start \in 0 .. len[x],
           NEW b \in Amounts, BeginTransfer(x, y, start, b)
    PROVE  BitsetInv' /\ len[x] = len[y] /\ x # y /\ Abstract!Transfer(x, y)
<1>1. /\ x # y /\ len[x] = len[y] /\ arrlen(x) > 0 /\ UNCHANGED <<array, len>>
      /\ transfer'.on /\ transfer'.to = x /\ transfer'.from = y
      /\ transfer' = [on |-> TRUE, to |-> x, from |-> y, left |-> b, initial |-> arrpos(start),
                      pos |-> transfer'.pos]
      /\ transfer'.pos = IF arrpos(start) > arrlen(x) THEN 1 ELSE arrpos(start)
  BY DEF BeginTransfer
<1>2. arrlen(x) = arrlen(y) /\ arrlen(x) \in Nat
  <2>1. /\ WordsFor(arrlen(x), len[x]) /\ WordsFor(arrlen(y), len[x])
        /\ arrlen(x) \in Nat /\ arrlen(y) \in Nat /\ len[x] \in Nat
    BY <1>1, BitsFacts DEF arrlen
  <2> QED
    BY <2>1, WordsForUnique
<1>3. arrpos(start) \in Nat /\ arrpos(start) >= 1
  <2>1. start \in Nat
    BY BitsFacts
  <2>2. start \div W \in Nat
    BY <2>1, DivMod
  <2> QED
    BY <2>2 DEF arrpos
<1>4. transfer'.pos \in 1 .. arrlen(y)
  BY <1>1, <1>2, <1>3
<1>5. Transferring'
  BY <1>1, <1>4 DEF Transferring, arrlen
<1>6. transfer' \in Transfers
  <2>1. b \in Nat /\ transfer'.pos \in Nat
    BY <1>2, <1>4, BitsetAssumption
  <2>2. PICK p \in Nat, i \in Nat :
            transfer' = [on |-> TRUE, to |-> x, from |-> y, left |-> b, initial |-> i, pos |-> p]
    BY <1>1, <1>3, <2>1
  <2> QED
    BY ONLY <2>1, <2>2, x \in Sets, y \in Sets DEF Transfers
<1>7. BitsetInv'
  BY <1>1, <1>5, <1>6 DEF BitsetInv, WordsFit, arrlen
<1>8. bits' = bits /\ bits = [bits EXCEPT ![x] = @ \cup {}, ![y] = @ \ {}]
  <2>1. bits = [z \in Sets |-> BitsOf(array[z])]
    BY BitsFacts
  <2> HIDE DEF bits
  <2>2. bits = [bits EXCEPT ![x] = @ \cup {}, ![y] = @ \ {}]
    BY <2>1
  <2> QED
    BY <1>1, <2>2, BitsSame
<1>9. bits' = [bits EXCEPT ![x] = @ \cup {}, ![y] = @ \ {}]
  BY ONLY <1>8
<1>10. Abstract!Transfer(x, y)
  <2> HIDE DEF bits
  <2> QED
    BY <1>1, <1>9 DEF BeginTransfer, Calls, Abstract!Transfer, Abstract!Calls
<1> QED
  BY <1>1, <1>7, <1>10


LEMMA GreaterOfTwo ==
    ASSUME NEW z \in Int
    PROVE  Max({0, z}) \in Nat
<1>1. \E m \in {0, z} : \A y \in {0, z} : m >= y
  <2>1. CASE z >= 0
    BY <2>1
  <2>2. CASE z < 0
    BY <2>2
  <2> QED
    BY <2>1, <2>2
<1>2. Max({0, z}) \in {0, z} /\ \A y \in {0, z} : Max({0, z}) >= y
  BY <1>1 DEF Max
<1> QED
  BY <1>2

LEMMA WordFinite ==
    ASSUME NEW word \in Words
    PROVE  IsFiniteSet(word) /\ Cardinality(word) \in Nat
<1>1. IsFiniteSet(Word)
  BY BitsetAssumption, FS_Interval DEF Word
<1> QED
  BY <1>1, FS_Subset, FS_CardinalityType DEF Words

LEMMA TransferWordStep ==
    ASSUME BitsetInv, TransferWord
    PROVE  BitsetInv' /\ len[transfer.to] = len[transfer.from]
           /\ transfer.to \in Sets /\ transfer.from \in Sets /\ transfer.to # transfer.from
           /\ Abstract!Transfer(transfer.to, transfer.from)
<1> DEFINE x == transfer.to
           y == transfer.from
           i == transfer.pos
           a == array[x]
           c == array[y]
           word == c[i]
           f == [a EXCEPT ![i] = a[i] \cup word]
           g == [c EXCEPT ![i] = {}]
           moved == {b \in bits[y] : arrpos(b) = i}
           next == (i % arrlen(y)) + 1
           left == Max({0, transfer.left - Cardinality(word)})
<1>1. /\ transfer.on /\ UNCHANGED len
      /\ array' = [array EXCEPT ![x][i] = @ \cup word, ![y][i] = {}]
      /\ transfer' = NoTransfer \/ transfer' = [transfer EXCEPT !.pos = next, !.left = left]
  BY DEF TransferWord
<1>2. /\ x \in Sets /\ y \in Sets /\ x # y /\ len[x] = len[y] /\ i \in 1 .. arrlen(y)
      /\ transfer \in Transfers
  BY <1>1 DEF BitsetInv, Transferring
<1>3. /\ a \in Seq(Words) /\ c \in Seq(Words) /\ arrlen(x) = Len(a) /\ arrlen(y) = Len(c)
      /\ bits[x] = BitsOf(a) /\ bits[y] = BitsOf(c) /\ len[x] \in Nat
      /\ bits[x] \subseteq 0 .. len[x] - 1 /\ bits[y] \subseteq 0 .. len[x] - 1
      /\ WordsFor(Len(a), len[x]) /\ WordsFor(Len(c), len[x])
  BY <1>2, BitsFacts DEF arrlen
<1>4. Len(a) = Len(c) /\ Len(a) \in Nat /\ i \in 1 .. Len(a)
  <2> HIDE DEF a, c, i, x, y
  <2>1. Len(a) \in Nat /\ Len(c) \in Nat
    BY <1>3
  <2> QED
    BY <1>2, <1>3, <2>1, WordsForUnique
<1>5. \A z \in Sets : array'[z] = IF z = x THEN f ELSE IF z = y THEN g ELSE array[z]
  <2>1. array \in [Sets -> Seq(Words)]
    BY DEF BitsetInv
  <2> QED
    BY <1>1, <1>2, <2>1
<1>6. DOMAIN array' = Sets /\ array' = [z \in Sets |-> array'[z]]
  BY <1>1 DEF BitsetInv
<1> HIDE DEF x, y, i, a, c, left, next
<1>7. word \in Words /\ a[i] \cup word \in Words /\ {} \in Words
  <2>1. a[i] \in Words /\ c[i] \in Words
    BY <1>3, <1>4
  <2> QED
    BY <2>1 DEF Words
<1>8. /\ f \in Seq(Words) /\ Len(f) = Len(a) /\ BitsOf(f) \subseteq 0 .. Len(a) * W - 1
      /\ \A b \in 0 .. Len(a) * W - 1 :
            b \in BitsOf(f) <=> IF arrpos(b) = i THEN bitpos(b) \in a[i] \cup word
                                ELSE b \in BitsOf(a)
  <2> HIDE DEF word
  <2>1. PICK w \in Words : w = a[i] \cup word
    BY <1>7
  <2> QED
    BY ONLY <1>3, <1>4, <2>1, WordReplaced
<1>9. /\ g \in Seq(Words) /\ Len(g) = Len(a) /\ BitsOf(g) \subseteq 0 .. Len(a) * W - 1
      /\ \A b \in 0 .. Len(a) * W - 1 :
            b \in BitsOf(g) <=> IF arrpos(b) = i THEN bitpos(b) \in {} ELSE b \in BitsOf(c)
  BY ONLY <1>3, <1>4, <1>7, WordReplaced
<1>10. \A b \in 0 .. Len(a) * W - 1 :
           /\ b \in BitsOf(a) <=> bitpos(b) \in a[arrpos(b)]
           /\ b \in BitsOf(c) <=> bitpos(b) \in c[arrpos(b)]
  BY <1>4 DEF BitsOf
<1> HIDE DEF f, g
<1>11. BitsOf(f) = bits[x] \cup moved
  <2>1. BitsOf(a) \subseteq 0 .. Len(a) * W - 1 /\ BitsOf(c) \subseteq 0 .. Len(a) * W - 1
    BY <1>4 DEF BitsOf
  <2> QED
    BY <1>3, <1>8, <1>10, <2>1
<1>12. BitsOf(g) = bits[y] \ moved
  <2>1. BitsOf(c) \subseteq 0 .. Len(a) * W - 1
    BY <1>4 DEF BitsOf
  <2> QED
    BY <1>3, <1>9, <2>1
<1>13. moved \in SUBSET bits[y]
  OBVIOUS
<1>21. moved = {} \/ \E b \in 0 .. len[y] - 1 : moved = Abstract!InWordOf(y, b)
  <2>1. SUFFICES ASSUME NEW b \in bits[y], arrpos(b) = i PROVE moved = Abstract!InWordOf(y, b)
    BY <1>2, <1>3
  <2>2. \A e \in bits[y] : arrpos(e) = arrpos(b) <=> e \div W = b \div W
    <3> TAKE e \in bits[y]
    <3>1. e \in Nat /\ b \in Nat
      BY <1>3
    <3>2. e \div W \in Nat /\ b \div W \in Nat
      BY <3>1, DivMod
    <3> QED
      BY <3>2 DEF arrpos
  <2> QED
    BY <2>1, <2>2 DEF Abstract!InWordOf
<1> HIDE DEF moved, word
<1>14. WordsFit'
  <2>1. ASSUME NEW z \in Sets
        PROVE  WordsFor(Len(array'[z]), len[z]) /\ BitsOf(array'[z]) \subseteq 0 .. len[z] - 1
    <3>1. CASE z = x
      BY <1>2, <1>3, <1>5, <1>8, <1>11, <1>13, <3>1
    <3>2. CASE z = y
      BY <1>2, <1>3, <1>4, <1>5, <1>9, <1>12, <1>13, <3>2
    <3>3. CASE z # x /\ z # y
      BY <1>5, <3>3, BitsFacts DEF arrlen
    <3> QED
      BY <3>1, <3>2, <3>3
  <2> QED
    BY <1>1, <2>1 DEF WordsFit, arrlen
<1>15. array' \in [Sets -> Seq(Words)]
  <2>1. \A z \in Sets : array'[z] \in Seq(Words)
    BY <1>5, <1>8, <1>9, BitsFacts
  <2> QED
    BY <1>6, <2>1
<1>16. next \in 1 .. Len(a) /\ left \in Nat
  <2>1. \A m \in Nat \ {0}, k \in Nat : k % m \in 0 .. m - 1
    OBVIOUS
  <2>2. Len(a) \in Nat \ {0} /\ i \in Nat
    BY <1>4
  <2>3. i % Len(a) \in 0 .. Len(a) - 1
    BY <2>1, <2>2
  <2>4. next = (i % Len(a)) + 1
    BY <1>3, <1>4 DEF next
  <2>5. transfer.left - Cardinality(word) \in Int
    BY <1>2, <1>7, WordFinite DEF Transfers
  <2>6. left \in Nat
    BY <2>5, GreaterOfTwo DEF left
  <2> QED
    BY <2>2, <2>3, <2>4, <2>6
<1>17. transfer' \in Transfers /\ Transferring'
  <2>1. CASE transfer' = NoTransfer
    BY <2>1 DEF NoTransfer, Transfers, Transferring
  <2>2. CASE transfer' = [transfer EXCEPT !.pos = next, !.left = left]
    <3>1. /\ transfer'.to = x /\ transfer'.from = y /\ transfer'.pos = next
          /\ transfer' \in Transfers
      <4>1. PICK p \in Nat, l \in Nat : p = next /\ l = left
        BY <1>4, <1>16
      <4>2. transfer' = [transfer EXCEPT !.pos = p, !.left = l]
        BY <2>2, <4>1
      <4>3. /\ transfer'.to = transfer.to /\ transfer'.from = transfer.from
            /\ transfer'.pos = p /\ transfer' \in Transfers
        BY ONLY <4>2, <1>2, p \in Nat, l \in Nat DEF Transfers
      <4> QED
        BY <4>1, <4>3 DEF x, y
    <3>2. Len(array'[y]) = Len(a)
      BY <1>2, <1>5, <1>9
    <3> QED
      BY <1>1, <1>2, <1>16, <3>1, <3>2 DEF Transferring, arrlen
  <2> QED
    BY <1>1, <2>1, <2>2
<1>18. BitsetInv'
  BY <1>1, <1>14, <1>15, <1>17 DEF BitsetInv
<1>19. bits' = [bits EXCEPT ![x] = bits[x] \cup moved, ![y] = bits[y] \ moved]
  <2>1. bits' = [z \in Sets |-> BitsOf(array'[z])]
    BY DEF bits, BitsOf, get, WordOf, arrlen
  <2>2. bits = [z \in Sets |-> BitsOf(array[z])]
    BY BitsFacts
  <2>3. \A z \in Sets :
            bits'[z] = IF z = x THEN bits[x] \cup moved ELSE IF z = y THEN bits[y] \ moved ELSE bits[z]
    BY <1>5, <1>11, <1>12, <2>1, <2>2
  <2>4. DOMAIN bits = Sets /\ DOMAIN bits' = Sets
    BY <2>1, <2>2
  <2> HIDE DEF bits
  <2> QED
    BY <1>2, <2>1, <2>2, <2>3, <2>4
<1>20. Abstract!Transfer(x, y)
  <2>1. moved \in {{}} \cup {Abstract!InWordOf(y, b) : b \in Abstract!Positions(y)}
    BY <1>21 DEF Abstract!Positions
  <2>2. call' = <<"transfer", x, y>>
    BY DEF TransferWord, Calls, x, y
  <2> QED
    BY <1>1, <2>1, <2>2, <1>19 DEF Abstract!Transfer, Abstract!Calls
<1> QED
  BY <1>2, <1>18, <1>20 DEF x, y

LEMMA EndTransferStep ==
    ASSUME BitsetInv, EndTransfer
    PROVE  BitsetInv' /\ UNCHANGED <<bits, len, call>>
<1>1. UNCHANGED <<array, len, call>> /\ transfer' = NoTransfer
  BY DEF EndTransfer
<1>2. Transferring' /\ transfer' \in Transfers
  BY <1>1 DEF Transferring, NoTransfer, Transfers
<1> QED
  BY <1>1, <1>2, BitsSame DEF BitsetInv, WordsFit, arrlen

-----------------------------------------------------------------------------
(* The words implement the sets.                                           *)

LEMMA BitsetStep ==
    BitsetInv /\ [Next]_vars => BitsetInv' /\ [Abstract!Next]_<<bits, len, call>>
<1> SUFFICES ASSUME BitsetInv, [Next]_vars PROVE BitsetInv' /\ [Abstract!Next]_<<bits, len, call>>
  OBVIOUS
<1> DEFINE Goal == BitsetInv' /\ (Abstract!Next \/ UNCHANGED <<bits, len, call>>)
<1>1. ASSUME NEW x \in Sets, NEW n \in Sizes, resize(x, n) PROVE Goal
  BY <1>1, ResizeStep DEF Abstract!Next
<1>2. ASSUME NEW x \in Sets, clear(x) PROVE Goal
  BY <1>2, ClearStep DEF Abstract!Next
<1>3. ASSUME NEW x \in Sets, fill(x) PROVE Goal
  BY <1>3, FillStep DEF Abstract!Next, Abstract!Positions
<1>4. ASSUME NEW x \in Sets, invert(x) PROVE Goal
  BY <1>4, InvertStep DEF Abstract!Next, Abstract!Positions
<1>5. ASSUME NEW x \in Sets, NEW b \in 0 .. len[x] - 1,
             set_bit(x, b) \/ clear_bit(x, b) \/ xor_bit(x, b)
      PROVE  Goal
  BY <1>5, OneBitStep DEF Abstract!Next, Abstract!Positions
<1>6. ASSUME NEW x \in Sets, NEW b \in 0 .. len[x] - 1, get_containing_word_and_zero(x, b)
      PROVE  Goal
  BY <1>6, TakeWordStep DEF Abstract!Next, Abstract!Positions
<1>7. ASSUME NEW x \in Sets, NEW y \in Sets, assign(x, y) PROVE Goal
  BY <1>7, AssignStep DEF Abstract!Next
<1>8. ASSUME NEW x \in Sets, NEW y \in Sets, len[x] = len[y],
             intersect(x, y) \/ unite(x, y) \/ subtract(x, y)
      PROVE  Goal
  BY <1>8, BinaryStep DEF Abstract!Next
<1>9. ASSUME NEW x \in Sets, NEW y \in Sets, NEW start \in 0 .. len[x], NEW b \in Amounts,
             BeginTransfer(x, y, start, b)
      PROVE  Goal
  BY <1>9, BeginTransferStep DEF Abstract!Next
<1>10. ASSUME TransferWord PROVE Goal
  BY <1>10, TransferWordStep DEF Abstract!Next
<1>11. ASSUME EndTransfer PROVE Goal
  BY <1>11, EndTransferStep
<1>12. ASSUME UNCHANGED vars PROVE Goal
  BY <1>12, BitsSame DEF vars, BitsetInv, WordsFit, Transferring, arrlen
<1> HIDE DEF Goal
<1>13. ASSUME NEW x \in Sets, NEW b \in 0 .. len[x] - 1,
              \/ xor_bit(x, b) \/ get_containing_word_and_zero(x, b)
              \/ \E value \in BOOLEAN : set(x, b, value)
       PROVE  Goal
  <2>1. \A value \in BOOLEAN : set(x, b, value) => set_bit(x, b) \/ clear_bit(x, b)
    BY Zenon DEF set
  <2> QED
    BY <1>5, <1>6, <1>13, <2>1
<1>14. ASSUME NEW x \in Sets, NEW y \in Sets,
              \/ assign(x, y)
              \/ len[x] = len[y] /\ (intersect(x, y) \/ unite(x, y) \/ subtract(x, y))
              \/ \E start \in 0 .. len[x], b \in Amounts : BeginTransfer(x, y, start, b)
       PROVE  Goal
  BY <1>7, <1>8, <1>9, <1>14
<1>15. Goal
  <2>1. ASSUME NEW x \in Sets,
               \/ \E n \in Sizes : resize(x, n)
               \/ clear(x) \/ fill(x) \/ invert(x)
               \/ \E b \in 0 .. len[x] - 1 :
                     \/ xor_bit(x, b) \/ get_containing_word_and_zero(x, b)
                     \/ \E value \in BOOLEAN : set(x, b, value)
               \/ \E y \in Sets :
                     \/ assign(x, y)
                     \/ len[x] = len[y] /\ (intersect(x, y) \/ unite(x, y) \/ subtract(x, y))
                     \/ \E start \in 0 .. len[x], b \in Amounts : BeginTransfer(x, y, start, b)
        PROVE  Goal
    BY <1>1, <1>2, <1>3, <1>4, <1>13, <1>14, <2>1, Zenon
  <2>2. Next \/ UNCHANGED vars
    OBVIOUS
  <2>3. Next => Goal
    <3> SUFFICES ASSUME Next, ~TransferWord, ~EndTransfer PROVE Goal
      BY <1>10, <1>11
    <3> QED
      BY ONLY Next, ~TransferWord, ~EndTransfer, <2>1, Zenon DEF Next
  <2> QED
    BY ONLY <1>12, <2>2, <2>3
<1> QED
  BY <1>15 DEF Goal

LEMMA BitsetInvAlways == Spec => []BitsetInv
BY InitBitset, BitsetStep, PTL DEF Spec

\* For words of any width: every array has the words its size calls for, and no bit after
\* the last one is set, whatever was resized, filled or inverted before.
THEOREM TypeCorrect == Spec => []TypeOK
<1>1. BitsetInv => TypeOK
  <2> SUFFICES ASSUME BitsetInv PROVE TypeOK
    OBVIOUS
  <2>1. ASSUME NEW x \in Sets
        PROVE  /\ array[x] \in Seq(SUBSET Word)
               /\ arrlen(x) * W \in len[x] .. len[x] + W - 1
               /\ bits[x] \subseteq 0 .. len[x] - 1
    BY BitsFacts DEF WordsFor, Words
  <2> QED
    BY <2>1 DEF TypeOK, BitsetInv, Transferring
<1> QED
  BY <1>1, BitsetInvAlways, PTL

\* The words implement the set, call by call and for words of any width: an operation that
\* names a bit changes that bit and no other, get_containing_word_and_zero the word of the
\* bit, resize, fill and invert nothing beyond the size, and a transfer moves whole words.
THEOREM WordsImplementSet == Spec => ImplementsSet
<1>1. Init => Abstract!Init
  BY InitBitset
<1>2. BitsetInv /\ [Next]_vars => [Abstract!Next]_<<bits, len, call>>
  BY BitsetStep
<1> QED
  BY <1>1, <1>2, BitsetInvAlways, PTL DEF Spec, ImplementsSet, Abstract!Spec, Abstract!vars


-----------------------------------------------------------------------------
(* The operations that look.                                               *)

LEMMA MinFacts ==
    ASSUME NEW S \in SUBSET Nat, S # {}
    PROVE  Min(S) \in S /\ \A y \in S : Min(S) <= y
<1>1. ASSUME \A m \in S : \E y \in S : y < m PROVE FALSE
  <2> DEFINE Above == {k \in Nat : \A y \in S : y >= k}
  <2>1. 0 \in Above
    OBVIOUS
  <2>2. \A k \in Nat : k \in Above => k + 1 \in Above
    <3> SUFFICES ASSUME NEW k \in Nat, \A y \in S : y >= k, NEW z \in S PROVE z >= k + 1
      OBVIOUS
    <3>1. PICK y \in S : y < z
      BY <1>1
    <3> QED
      BY <3>1
  <2>3. Nat \subseteq Above
    <3> HIDE DEF Above
    <3> QED
      BY ONLY <2>1, <2>2, InductionOnNat
  <2>4. PICK m \in S : TRUE
    OBVIOUS
  <2>5. m + 1 \in Above
    BY <2>3
  <2> QED
    BY <2>4, <2>5
<1>2. \E m \in S : \A y \in S : m <= y
  BY <1>1
<1> QED
  BY <1>2 DEF Min

LEMMA MinIs ==
    ASSUME NEW S \in SUBSET Nat, NEW m \in S, \A y \in S : m <= y
    PROVE  S # {} /\ Min(S) = m
<1>1. Min(S) \in S /\ \A y \in S : Min(S) <= y
  BY MinFacts
<1>2. Min(S) \in Nat /\ m \in Nat /\ Min(S) <= m /\ m <= Min(S)
  BY <1>1
<1> HIDE DEF Min
<1> QED
  BY <1>1, <1>2

LEMMA LeastIs ==
    ASSUME NEW S \in SUBSET Nat, NEW m \in S, \A y \in S : m <= y
    PROVE  Least(S) = m
BY MinIs DEF Least

\* A search from a word on finds the least bit there is in it or in a later one.
LEMMA FirstFromFacts ==
    ASSUME NEW a \in Seq(Words), NEW i \in 1 .. Len(a) + 1
    PROVE  FirstFrom(a, i, Len(a)) = Least({b \in BitsOf(a) : arrpos(b) >= i})
<1> DEFINE n == Len(a)
           full == {j \in i .. n : a[j] # {}}
           S == {b \in BitsOf(a) : arrpos(b) >= i}
<1>1. n \in Nat /\ i \in Nat /\ i >= 1 /\ full \in SUBSET Nat /\ full \subseteq 1 .. n
  OBVIOUS
<1>2. ASSUME NEW b \in S
      PROVE  /\ b \in 0 .. n * W - 1 /\ b \in Nat
             /\ arrpos(b) \in full /\ bitpos(b) \in a[arrpos(b)] /\ bitpos(b) \in Word
  <2>1. b \in 0 .. n * W - 1 /\ bitpos(b) \in a[arrpos(b)] /\ arrpos(b) >= i
    BY DEF BitsOf
  <2>2. arrpos(b) \in 1 .. n /\ bitpos(b) \in Word /\ b \in Nat
    BY <1>1, <2>1, PositionFacts
  <2> QED
    BY <1>1, <2>1, <2>2
<1>3. CASE full = {}
  <2>1. S = {}
    BY <1>2, <1>3
  <2> QED
    BY <1>3, <2>1 DEF FirstFrom, Least
<1>4. CASE full # {}
  <2> DEFINE j == Min(full)
             k == Min(a[j])
             p == (j - 1) * W + k
  <2>1. j \in full /\ \A m \in full : j <= m
    BY <1>1, <1>4, MinFacts
  <2>2. a[j] \in Words /\ a[j] # {} /\ a[j] \in SUBSET Nat /\ j \in 1 .. n /\ j >= i
    <3>8. \A m \in full : m \in 1 .. n /\ m >= i /\ a[m] # {}
      BY <1>1
    <3>9. j \in full
      BY <2>1
    <3>1. j \in 1 .. n /\ j >= i /\ a[j] # {}
      <4> HIDE DEF j, full, n
      <4> QED
        BY ONLY <3>8, <3>9
    <3>2. a[j] \in Words
      BY <3>1
    <3>3. Word \subseteq Nat
      BY BitsetAssumption DEF Word
    <3> QED
      BY <3>1, <3>2, <3>3 DEF Words
  <2>3. k \in a[j] /\ k \in Word /\ \A m \in a[j] : k <= m
    BY <2>2, MinFacts DEF Words
  <2>4. FirstFrom(a, i, n) = p
    BY <1>4, <2>2 DEF FirstFrom, first_bit_in_block
  <2> HIDE DEF j, k, full, n
  <2>5. p \in 0 .. n * W - 1 /\ arrpos(p) = j /\ bitpos(p) = k
    BY <1>1, <2>2, <2>3, PositionOf
  <2>6. p \in S
    BY <2>2, <2>3, <2>5 DEF BitsOf, n
  <2> HIDE DEF p
  <2>7. ASSUME NEW b \in S PROVE p <= b
    <3>1. /\ b \in 0 .. n * W - 1 /\ b \in Nat
          /\ arrpos(b) \in full /\ bitpos(b) \in a[arrpos(b)] /\ bitpos(b) \in Word
      BY <1>2
    <3>2. j <= arrpos(b) /\ (arrpos(b) = j => k <= bitpos(b))
      BY <2>1, <2>3, <3>1
    <3>3. /\ b < p <=> arrpos(b) < j \/ (arrpos(b) = j /\ bitpos(b) < k)
      BY <1>1, <2>5, <3>1, PositionOrder
    <3>4. arrpos(b) \in Nat /\ j \in Nat /\ k \in Nat /\ bitpos(b) \in Nat /\ p \in Nat
      <4>1. Word \subseteq Nat
        BY BitsetAssumption DEF Word
      <4>2. arrpos(b) \in 1 .. n
        BY <1>1, <3>1, PositionFacts
      <4>3. p \in Nat
        BY <1>2, <2>6
      <4>4. k \in Nat /\ bitpos(b) \in Nat
        BY ONLY <2>3, <3>1, <4>1
      <4>5. j \in Nat /\ arrpos(b) \in Nat
        BY ONLY <1>1, <2>2, <4>2
      <4> QED
        BY ONLY <4>3, <4>4, <4>5
    <3> QED
      BY <3>1, <3>2, <3>3, <3>4
  <2>8. S \in SUBSET Nat
    BY <1>2
  <2> HIDE DEF S
  <2>9. Least(S) = p
    BY <2>6, <2>7, <2>8, LeastIs
  <2> QED
    BY <2>4, <2>9 DEF S, n
<1> QED
  BY <1>3, <1>4

LEMMA FirstBitFacts ==
    ASSUME BitsetInv, NEW x \in Sets
    PROVE  /\ first_bit(x) = Least(bits[x])
           /\ first_zero_bit(x) = Least((0 .. arrlen(x) * W - 1) \ bits[x])
<1> DEFINE a == array[x]
           z == [i \in DOMAIN a |-> FullWord \ a[i]]
<1>1. a \in Seq(Words) /\ bits[x] = BitsOf(a) /\ arrlen(x) = Len(a)
  BY BitsFacts
<1>2. z \in Seq(Words) /\ Len(z) = Len(a) /\ BitsOf(z) = (0 .. Len(a) * W - 1) \ BitsOf(a)
  <2> HIDE DEF a
  <2> QED
    BY <1>1, InvertedBits
<1>3. first_bit(x) = FirstFrom(a, 1, Len(a)) /\ first_zero_bit(x) = FirstFrom(z, 1, Len(a))
  BY DEF first_bit, first_zero_bit, arrlen
<1> HIDE DEF a, z
<1>4. ASSUME NEW f \in Seq(Words)
      PROVE  FirstFrom(f, 1, Len(f)) = Least(BitsOf(f))
  <2>1. 1 \in 1 .. Len(f) + 1
    OBVIOUS
  <2>2. \A b \in BitsOf(f) : arrpos(b) >= 1
    <3> TAKE b \in BitsOf(f)
    <3>1. b \in 0 .. Len(f) * W - 1
      BY DEF BitsOf
    <3>2. arrpos(b) \in 1 .. Len(f)
      BY <3>1, BitsOfFacts
    <3> QED
      BY <3>2
  <2>3. {b \in BitsOf(f) : arrpos(b) >= 1} = BitsOf(f)
    BY <2>2
  <2> QED
    BY <2>1, <2>3, FirstFromFacts
<1> QED
  BY <1>1, <1>2, <1>3, <1>4

LEMMA EmptyFacts ==
    ASSUME BitsetInv, NEW x \in Sets
    PROVE  empty(x) = (bits[x] = {})
<1> DEFINE a == array[x]
<1>1. a \in Seq(Words) /\ bits[x] = BitsOf(a) /\ DOMAIN a = 1 .. Len(a) /\ Len(a) \in Nat
  BY BitsFacts
<1>2. empty(x) <=> \A i \in 1 .. Len(a) : a[i] = {}
  BY <1>1 DEF empty
<1> HIDE DEF a
<1>3. ASSUME NEW b \in BitsOf(a) PROVE ~empty(x)
  <2>1. b \in 0 .. Len(a) * W - 1 /\ bitpos(b) \in a[arrpos(b)]
    BY DEF BitsOf
  <2>2. arrpos(b) \in 1 .. Len(a)
    BY <1>1, <2>1, BitsOfFacts
  <2> QED
    BY <1>2, <2>1, <2>2
<1>4. ASSUME NEW i \in 1 .. Len(a), a[i] # {} PROVE BitsOf(a) # {}
  <2>1. PICK k \in a[i] : k \in Word
    BY <1>1, <1>4 DEF Words
  <2>2. PICK b : b = (i - 1) * W + k
    OBVIOUS
  <2>3. b \in 0 .. Len(a) * W - 1 /\ arrpos(b) = i /\ bitpos(b) = k
    BY <1>1, <2>1, <2>2, PositionOf
  <2>4. b \in BitsOf(a)
    BY <2>1, <2>3 DEF BitsOf
  <2> QED
    BY <2>4
<1>5. empty(x) <=> bits[x] = {}
  BY <1>1, <1>2, <1>3, <1>4
<1>6. empty(x) \in BOOLEAN
  BY DEF empty
<1> QED
  BY <1>5, <1>6


\* The search that starts after a bit finds the next one, in its word or in a later one.
LEMMA NextBitFacts ==
    ASSUME BitsetInv, NEW x \in Sets, NEW b \in 0 .. len[x] - 1
    PROVE  next_bit(x, b) = Least({c \in bits[x] : c > b})
<1> DEFINE a == array[x]
           n == Len(a)
           i == arrpos(b)
           here == {k \in a[i] : k > bitpos(b)}
           later == {c \in BitsOf(a) : arrpos(c) >= i + 1}
           S == {c \in BitsOf(a) : c > b}
<1>1. a \in Seq(Words) /\ bits[x] = BitsOf(a) /\ arrlen(x) = n /\ n \in Nat
  BY BitsFacts
<1>2. b \in 0 .. n * W - 1 /\ b \in Nat
  BY BitsFacts
<1>3. i \in 1 .. n /\ bitpos(b) \in Word /\ a[i] \in Words /\ Word \subseteq Nat
  <2>1. Word \subseteq Nat
    BY BitsetAssumption DEF Word
  <2> HIDE DEF a
  <2>2. i \in 1 .. n /\ bitpos(b) \in Word
    BY <1>1, <1>2, PositionFacts
  <2>3. a[i] \in Words
    BY ONLY <1>1, <2>2
  <2> QED
    BY <2>1, <2>2, <2>3
<1>4. here \in SUBSET Nat /\ a[i] \in SUBSET Word
  BY <1>3 DEF Words
<1>5. S \in SUBSET Nat /\ S = {c \in bits[x] : c > b}
  <2> HIDE DEF a
  <2> QED
    BY <1>1 DEF BitsOf
<1>6. next_bit_in_block(bitpos(b), WordOf(x, b)) = IF here = {} THEN 0 ELSE Min(here)
  BY DEF next_bit_in_block, first_bit_in_block, WordOf
<1>7. next_bit(x, b) = LET k == IF here = {} THEN 0 ELSE Min(here)
                       IN  IF k # 0 THEN (i - 1) * W + k ELSE FirstFrom(a, i + 1, n)
  BY <1>1, <1>6 DEF next_bit
<1>8. ASSUME NEW c \in BitsOf(a)
      PROVE  /\ c \in 0 .. n * W - 1 /\ c \in Nat
             /\ arrpos(c) \in 1 .. n /\ bitpos(c) \in a[arrpos(c)] /\ bitpos(c) \in Word
             /\ b < c <=> i < arrpos(c) \/ (i = arrpos(c) /\ bitpos(b) < bitpos(c))
  <2>1. c \in 0 .. n * W - 1 /\ bitpos(c) \in a[arrpos(c)]
    BY DEF BitsOf
  <2> HIDE DEF a, n
  <2>2. b < c <=> i < arrpos(c) \/ (i = arrpos(c) /\ bitpos(b) < bitpos(c))
    BY <1>1, <1>2, <2>1, PositionOrder
  <2>3. arrpos(c) \in 1 .. n /\ bitpos(c) \in Word /\ c \in Nat
    BY <1>1, <2>1, PositionFacts
  <2> QED
    BY <2>1, <2>2, <2>3
<1> HIDE DEF a, n, i
<1>9. CASE here = {}
  <2>1. next_bit(x, b) = FirstFrom(a, i + 1, n)
    BY <1>7, <1>9
  <2>2. FirstFrom(a, i + 1, n) = Least(later)
    <3>1. i + 1 \in 1 .. n + 1
      BY <1>1, <1>3
    <3> QED
      BY ONLY <1>1, <3>1, FirstFromFacts DEF n
  <2>3. ASSUME NEW c \in BitsOf(a) PROVE c > b <=> arrpos(c) >= i + 1
    <3>1. ~(i = arrpos(c) /\ bitpos(b) < bitpos(c))
      <4> SUFFICES ASSUME i = arrpos(c), bitpos(b) < bitpos(c) PROVE FALSE
        OBVIOUS
      <4>1. bitpos(c) \in a[i] /\ bitpos(c) > bitpos(b)
        BY <1>3, <1>8
      <4> QED
        BY ONLY <1>9, <4>1
    <3>2. b < c <=> i < arrpos(c)
      BY <1>8, <3>1
    <3>3. b \in Nat /\ c \in Nat /\ i \in Nat /\ arrpos(c) \in Nat
      BY <1>2, <1>3, <1>8
    <3> QED
      BY ONLY <3>2, <3>3
  <2>4. S = later
    BY <2>3
  <2> QED
    BY <1>5, <2>1, <2>2, <2>4
<1>10. CASE here # {}
  <2> DEFINE k == Min(here)
             p == (i - 1) * W + k
  <2>1. k \in here /\ \A m \in here : k <= m
    BY <1>4, <1>10, MinFacts
  <2>2. k \in a[i] /\ k \in Word /\ k > bitpos(b) /\ k # 0 /\ k \in Nat
    <3> HIDE DEF k
    <3>1. k \in a[i] /\ k > bitpos(b)
      BY <2>1
    <3>2. k \in Word /\ k \in Nat /\ bitpos(b) \in Nat
      BY <1>3, <1>4, <3>1
    <3> QED
      BY <3>1, <3>2
  <2>3. next_bit(x, b) = p
    BY <1>7, <1>10, <2>2
  <2> HIDE DEF k, here
  <2>4. p \in 0 .. n * W - 1 /\ arrpos(p) = i /\ bitpos(p) = k
    BY <1>1, <1>3, <2>2, PositionOf
  <2>5. p \in BitsOf(a)
    BY <2>2, <2>4 DEF BitsOf, n
  <2> HIDE DEF p
  <2>6. p \in S
    BY <1>2, <1>8, <2>2, <2>4, <2>5
  <2>7. ASSUME NEW c \in S PROVE p <= c
    <3>1. c \in BitsOf(a) /\ b < c
      BY <1>2, <1>8
    <3>2. /\ c \in 0 .. n * W - 1 /\ c \in Nat
          /\ arrpos(c) \in 1 .. n /\ bitpos(c) \in a[arrpos(c)] /\ bitpos(c) \in Word
          /\ i < arrpos(c) \/ (i = arrpos(c) /\ bitpos(b) < bitpos(c))
      BY <1>8, <3>1
    <3>3. i = arrpos(c) => k <= bitpos(c)
      <4> SUFFICES ASSUME i = arrpos(c) PROVE k <= bitpos(c)
        OBVIOUS
      <4>1. bitpos(b) < bitpos(c)
        <5>1. i \in Nat
          BY ONLY <1>1, <1>3
        <5> QED
          BY <3>2, <5>1
      <4>2. bitpos(c) \in here
        BY <3>2, <4>1 DEF here
      <4> QED
        BY <2>1, <4>2
    <3>4. c < p <=> arrpos(c) < arrpos(p) \/ (arrpos(c) = arrpos(p) /\ bitpos(c) < bitpos(p))
      BY ONLY <1>1, <2>4, <3>2, PositionOrder
    <3>5. p \in Nat /\ i \in Nat /\ arrpos(c) \in Nat /\ k \in Nat /\ bitpos(c) \in Nat
      <4>1. p \in Nat
        BY ONLY <1>8, <2>5
      <4>2. bitpos(c) \in Nat /\ k \in Nat
        BY ONLY <1>3, <2>2, <3>2
      <4>3. i \in Nat /\ arrpos(c) \in Nat
        BY ONLY <1>1, <1>3, <3>2
      <4> QED
        BY <4>1, <4>2, <4>3
    <3> QED
      BY ONLY <2>4, <3>2, <3>3, <3>4, <3>5
  <2> HIDE DEF S
  <2>8. Least(S) = p
    BY <1>5, <2>6, <2>7, LeastIs
  <2> QED
    BY <1>5, <2>3, <2>8
<1> QED
  BY <1>9, <1>10


-----------------------------------------------------------------------------
(* The count.                                                              *)

\* Sets that a one-to-one function maps onto one another have the same size.
LEMMA SameSize ==
    ASSUME NEW S, IsFiniteSet(S), NEW T, NEW f \in [S -> T],
           \A x, y \in S : f[x] = f[y] => x = y, \A t \in T : \E x \in S : f[x] = t
    PROVE  IsFiniteSet(T) /\ Cardinality(T) = Cardinality(S)
<1>1. f \in Bijection(S, T)
  BY DEF Bijection, Injection, Surjection, IsInjective
<1> QED
  BY <1>1, FS_Bijection DEF ExistsBijection

Cards(a) == [i \in DOMAIN a |-> Cardinality(a[i])]

LEMMA CardsFacts ==
    ASSUME NEW a \in Seq(Words)
    PROVE  /\ CanFold(Cards(a), DOMAIN a) /\ DOMAIN a = 1 .. Len(a)
           /\ \A i \in DOMAIN a : IsFiniteSet(a[i]) /\ Cards(a)[i] = Cardinality(a[i])
<1>1. DOMAIN a = 1 .. Len(a) /\ Len(a) \in Nat
  OBVIOUS
<1>2. IsFiniteSet(Word)
  <2>1. 0 \in Int /\ W - 1 \in Int
    BY BitsetAssumption
  <2> QED
    BY <2>1, FS_Interval DEF Word
<1>3. ASSUME NEW i \in DOMAIN a
      PROVE  IsFiniteSet(a[i]) /\ Cards(a)[i] = Cardinality(a[i]) /\ Cards(a)[i] \in Int
  <2>1. a[i] \in SUBSET Word
    BY <1>1 DEF Words
  <2>2. IsFiniteSet(a[i]) /\ Cardinality(a[i]) \in Nat
    BY <1>2, <2>1, FS_Subset, FS_CardinalityType
  <2> QED
    BY <2>2 DEF Cards
<1>4. IsFiniteSet(DOMAIN a)
  BY <1>1, FS_Interval
<1> QED
  BY <1>1, <1>3, <1>4 DEF CanFold

LEMMA PopcountIsSum ==
    ASSUME NEW x \in Sets, array[x] \in Seq(Words)
    PROVE  popcount(x) = SumOver(Cards(array[x]), DOMAIN array[x])
<1> DEFINE a == array[x]
           S == DOMAIN a
           f == Cards(a)
<1> DEFINE Rec(it) == [s \in SUBSET S |-> IF s = {} THEN 0
                                          ELSE Cardinality(a[CHOOSE i \in s : TRUE])
                                                 + it[s \ {CHOOSE i \in s : TRUE}]]
<1> DEFINE Iter == CHOOSE it : it = Rec(it)
<1>1. popcount(x) = Iter[S]
  BY DEF popcount, FoldFunction, FoldFunctionOnSet, MapThenFoldSet
<1>2. CanFold(f, S) /\ \A i \in S : f[i] = Cardinality(a[i])
  BY CardsFacts
<1> HIDE DEF f, S, a
<1>3. PICK F : IsFold("sum", f, S, F) /\ SumOver(f, S) = F[S]
  BY <1>2, SumIsFold
<1>4. ASSUME NEW it PROVE Rec(it) = [s \in SUBSET S |-> Folded("sum", f, s, it)]
  <2>1. ASSUME NEW s \in SUBSET S
        PROVE  Folded("sum", f, s, it) = IF s = {} THEN 0
                                         ELSE Cardinality(a[CHOOSE i \in s : TRUE])
                                                + it[s \ {CHOOSE i \in s : TRUE}]
    <3>1. s # {} => Pick(s) \in S
      BY PickFacts
    <3> QED
      BY <1>2, <3>1 DEF Folded, Unit, Combined, Pick
  <2> QED
    BY <2>1
<1>5. F = Rec(F)
  BY <1>3, <1>4 DEF IsFold
<1>6. Iter = Rec(Iter)
  BY ONLY <1>5
<1>7. IsFold("sum", f, S, Iter)
  BY <1>4, <1>6 DEF IsFold
<1>8. Iter[S] = F[S]
  BY ONLY <1>2, <1>3, <1>7, FoldsAgree
<1> QED
  BY ONLY <1>1, <1>3, <1>8 DEF f, S, a

\* The bits of a word are as many in the array as in the word.
LEMMA WordCounted ==
    ASSUME NEW a \in Seq(Words), NEW i \in 1 .. Len(a)
    PROVE  LET in == {b \in BitsOf(a) : arrpos(b) = i}
           IN  IsFiniteSet(in) /\ Cardinality(in) = Cardinality(a[i])
<1> DEFINE n == Len(a)
           in == {b \in BitsOf(a) : arrpos(b) = i}
           f == [k \in a[i] |-> (i - 1) * W + k]
<1>1. n \in Nat /\ a[i] \in SUBSET Word /\ i \in Nat
  BY DEF Words
<1>2. IsFiniteSet(a[i])
  BY CardsFacts
<1>3. ASSUME NEW k \in a[i] PROVE f[k] \in in /\ bitpos(f[k]) = k
  <2>1. PICK b : b = (i - 1) * W + k
    OBVIOUS
  <2>2. f[k] = b
    BY <2>1
  <2>3. b \in 0 .. n * W - 1 /\ arrpos(b) = i /\ bitpos(b) = k
    BY <1>1, <2>1, PositionOf
  <2>4. b \in in
    BY <2>3 DEF BitsOf
  <2> QED
    BY ONLY <2>2, <2>3, <2>4
<1>4. ASSUME NEW b \in in PROVE \E k \in a[i] : f[k] = b
  <2>1. b \in 0 .. n * W - 1 /\ bitpos(b) \in a[i] /\ arrpos(b) = i
    BY DEF BitsOf
  <2>2. b = (arrpos(b) - 1) * W + bitpos(b)
    BY <1>1, <2>1, PositionFacts
  <2>3. f[bitpos(b)] = b
    BY <2>1, <2>2
  <2> QED
    BY <2>1, <2>3
<1>5. f \in [a[i] -> in]
  BY <1>3
<1>6. \A k, m \in a[i] : f[k] = f[m] => k = m
  BY ONLY <1>3
<1> HIDE DEF f, in
<1>7. IsFiniteSet(in) /\ Cardinality(in) = Cardinality(a[i])
  BY ONLY <1>2, <1>4, <1>5, <1>6, SameSize
<1> QED
  BY <1>7 DEF in

LEMMA BitsCounted ==
    ASSUME NEW a \in Seq(Words)
    PROVE  /\ IsFiniteSet(BitsOf(a))
           /\ SumOver(Cards(a), DOMAIN a) = Cardinality(BitsOf(a))
<1> DEFINE n == Len(a)
           upto(k) == {b \in BitsOf(a) : arrpos(b) <= k}
           Good == {k \in Nat : k <= n => /\ IsFiniteSet(upto(k))
                                          /\ SumOver(Cards(a), 1 .. k) = Cardinality(upto(k))}
<1>1. n \in Nat /\ DOMAIN a = 1 .. n /\ CanFold(Cards(a), 1 .. n)
      /\ \A i \in 1 .. n : Cards(a)[i] = Cardinality(a[i])
  BY CardsFacts
<1>2. ASSUME NEW b \in BitsOf(a) PROVE arrpos(b) \in 1 .. n /\ arrpos(b) \in Nat
  <2>1. b \in 0 .. n * W - 1
    BY DEF BitsOf
  <2>2. arrpos(b) \in 1 .. n
    BY <1>1, <2>1, PositionFacts
  <2> QED
    BY <1>1, <2>2
<1>3. 0 \in Good
  <2>1. upto(0) = {}
    BY <1>2
  <2>2. 1 .. 0 = {}
    OBVIOUS
  <2> QED
    BY <2>1, <2>2, SumEmpty, FS_EmptySet
<1>4. ASSUME NEW k \in Nat, k \in Good PROVE k + 1 \in Good
  <2> SUFFICES ASSUME k + 1 <= n
               PROVE  /\ IsFiniteSet(upto(k + 1))
                      /\ SumOver(Cards(a), 1 .. k + 1) = Cardinality(upto(k + 1))
    OBVIOUS
  <2> DEFINE in == {b \in BitsOf(a) : arrpos(b) = k + 1}
  <2>1. IsFiniteSet(upto(k)) /\ SumOver(Cards(a), 1 .. k) = Cardinality(upto(k))
    BY <1>1, <1>4
  <2>2. k + 1 \in 1 .. n
    BY <1>1
  <2>3. IsFiniteSet(in) /\ Cardinality(in) = Cardinality(a[k + 1])
    BY <2>2, WordCounted
  <2>4. upto(k + 1) = upto(k) \cup in /\ upto(k) \cap in = {}
    BY <1>2
  <2>5. 1 .. k + 1 = (1 .. k) \cup {k + 1} /\ 1 .. k \in SUBSET (1 .. n)
        /\ k + 1 \in (1 .. n) \ (1 .. k)
    BY <1>1
  <2>6. SumOver(Cards(a), 1 .. k + 1) = Cards(a)[k + 1] + SumOver(Cards(a), 1 .. k)
    <3>1. CanFold(Cards(a), 1 .. n)
      BY <1>1
    <3> HIDE DEF n
    <3> QED
      <4>1. \A S : \A s \in SUBSET S : CanFold(Cards(a), S) =>
               \A y \in S \ s : SumOver(Cards(a), s \cup {y}) = Cards(a)[y] + SumOver(Cards(a), s)
        BY ONLY SumInsert
      <4>2. \A s \in SUBSET (1 .. n) : \A y \in (1 .. n) \ s :
               SumOver(Cards(a), s \cup {y}) = Cards(a)[y] + SumOver(Cards(a), s)
        BY ONLY <3>1, <4>1, Zenon
      <4> QED
        BY ONLY <2>5, <4>2, Zenon
  <2>7. Cards(a)[k + 1] = Cardinality(a[k + 1])
    BY <1>1, <2>2
  <2>8. /\ IsFiniteSet(upto(k) \cup in)
        /\ Cardinality(upto(k) \cup in) = Cardinality(upto(k)) + Cardinality(in)
    <3>1. /\ IsFiniteSet(upto(k) \cup in)
          /\ Cardinality(upto(k) \cup in)
               = Cardinality(upto(k)) + Cardinality(in) - Cardinality(upto(k) \cap in)
      BY <2>1, <2>3, FS_Union
    <3>2. Cardinality(upto(k) \cap in) = 0
      BY <2>4, FS_EmptySet
    <3>3. Cardinality(upto(k)) \in Nat /\ Cardinality(in) \in Nat
      BY <2>1, <2>3, FS_CardinalityType
    <3> QED
      BY ONLY <3>1, <3>2, <3>3
  <2>9. Cardinality(upto(k)) \in Nat /\ Cardinality(in) \in Nat
    BY <2>1, <2>3, FS_CardinalityType
  <2> HIDE DEF upto, in
  <2>10. IsFiniteSet(upto(k + 1))
    BY ONLY <2>4, <2>8
  <2>11. Cardinality(upto(k + 1)) = Cardinality(upto(k)) + Cardinality(in)
    BY ONLY <2>4, <2>8
  <2>12. SumOver(Cards(a), 1 .. k + 1) = Cardinality(in) + Cardinality(upto(k))
    BY ONLY <2>1, <2>3, <2>6, <2>7
  <2> QED
    BY ONLY <2>9, <2>10, <2>11, <2>12
<1>5. n \in Good
  <2>1. Nat \subseteq Good
    <3> HIDE DEF Good
    <3> QED
      BY ONLY <1>3, <1>4, InductionOnNat
  <2> QED
    BY <1>1, <2>1
<1>6. upto(n) = BitsOf(a)
  BY <1>1, <1>2
<1>7. IsFiniteSet(upto(n)) /\ SumOver(Cards(a), 1 .. n) = Cardinality(upto(n))
  <2> HIDE DEF upto
  <2> QED
    BY <1>1, <1>5
<1> HIDE DEF upto
<1> QED
  BY ONLY <1>1, <1>6, <1>7

LEMMA PopcountFacts ==
    ASSUME BitsetInv, NEW x \in Sets
    PROVE  popcount(x) = Cardinality(bits[x]) /\ IsFiniteSet(bits[x])
BY BitsFacts, PopcountIsSum, BitsCounted


-----------------------------------------------------------------------------
(* The iterator.                                                           *)

LEMMA LeastFacts ==
    ASSUME NEW S \in SUBSET Nat
    PROVE  /\ S = {} => Least(S) = None
           /\ S # {} => Least(S) \in S /\ Least(S) # None /\ \A y \in S : Least(S) <= y
<1>1. S # {} => Min(S) \in S /\ \A y \in S : Min(S) <= y
  BY MinFacts
<1>2. None \notin Nat
  BY DEF None
<1> QED
  BY <1>1, <1>2 DEF Least

IsIteration(at, first, g) == at[0] = first /\ \A k \in Nat : at[k + 1] = g[at[k]]

\* A function can be applied over and over.
LEMMA IterationExists ==
    ASSUME NEW T, NEW first \in T, NEW g \in [T -> T]
    PROVE  \E at \in [Nat -> T] : IsIteration(at, first, g)
<1> DEFINE Upto(h, n) == h[0] = first /\ \A k \in Nat : k < n => h[k + 1] = g[h[k]]
           Some(n) == CHOOSE h \in [Nat -> T] : Upto(h, n)
           Exists == {n \in Nat : \E h \in [Nat -> T] : Upto(h, n)}
           at == [n \in Nat |-> Some(n)[n]]
<1>1. 0 \in Exists
  <2>1. [k \in Nat |-> first] \in [Nat -> T]
    OBVIOUS
  <2>2. Upto([k \in Nat |-> first], 0)
    OBVIOUS
  <2> QED
    BY <2>1, <2>2
<1>2. ASSUME NEW n \in Nat, n \in Exists PROVE n + 1 \in Exists
  <2>1. PICK h \in [Nat -> T] : Upto(h, n)
    BY <1>2
  <2> DEFINE h2 == [h EXCEPT ![n + 1] = g[h[n]]]
  <2>2. h2 \in [Nat -> T]
    BY <2>1
  <2>3. h2[0] = first
    BY <2>1
  <2>4. ASSUME NEW k \in Nat, k < n + 1 PROVE h2[k + 1] = g[h2[k]]
    <3>1. CASE k = n
      <4>1. h2[k + 1] = g[h[n]] /\ h2[k] = h[n]
        BY <2>1, <3>1
      <4> QED
        BY <3>1, <4>1
    <3>2. CASE k # n
      <4>1. k < n /\ k + 1 # n + 1 /\ k # n + 1
        BY <2>4, <3>2
      <4>2. h2[k + 1] = h[k + 1] /\ h2[k] = h[k]
        BY <2>1, <4>1
      <4> QED
        BY <2>1, <4>1, <4>2
    <3> QED
      BY <3>1, <3>2
  <2> HIDE DEF h2
  <2>5. \E h3 \in [Nat -> T] : Upto(h3, n + 1)
    BY <2>2, <2>3, <2>4
  <2> QED
    BY ONLY <2>5
<1>3. Nat \subseteq Exists
  <2> HIDE DEF Exists
  <2> QED
    BY ONLY <1>1, <1>2, InductionOnNat
<1>4. ASSUME NEW n \in Nat PROVE Some(n) \in [Nat -> T] /\ Upto(Some(n), n)
  BY <1>3
<1> HIDE DEF Some
<1>5. ASSUME NEW n \in Nat PROVE Some(n + 1)[n] = Some(n)[n]
  <2> DEFINE h == Some(n)
             i == Some(n + 1)
             Same == {k \in Nat : k <= n => h[k] = i[k]}
  <2>1. Upto(h, n) /\ Upto(i, n + 1)
    BY <1>4
  <2> HIDE DEF h, i
  <2>2. 0 \in Same
    BY <2>1
  <2>3. ASSUME NEW k \in Nat, k \in Same PROVE k + 1 \in Same
    <3> SUFFICES ASSUME k + 1 <= n PROVE h[k + 1] = i[k + 1]
      OBVIOUS
    <3>1. k < n /\ k < n + 1 /\ k <= n
      OBVIOUS
    <3> QED
      BY <2>1, <2>3, <3>1
  <2>4. Nat \subseteq Same
    <3> HIDE DEF Same
    <3> QED
      BY ONLY <2>2, <2>3, InductionOnNat
  <2>5. n \in Same
    BY <2>4
  <2> QED
    BY <2>5 DEF h, i
<1>6. at \in [Nat -> T]
  BY <1>4
<1>7. at[0] = first
  BY <1>4
<1>8. ASSUME NEW k \in Nat PROVE at[k + 1] = g[at[k]]
  <2>1. at[k + 1] = Some(k + 1)[k + 1] /\ at[k] = Some(k)[k]
    OBVIOUS
  <2>2. Some(k + 1)[k + 1] = g[Some(k + 1)[k]]
    <3>1. k + 1 \in Nat /\ k < k + 1
      OBVIOUS
    <3> QED
      BY <1>4, <3>1
  <2> QED
    BY <1>5, <2>1, <2>2
<1> HIDE DEF at
<1> QED
  BY <1>6, <1>7, <1>8 DEF IsIteration

After(B, v) == {c \in B : c > v}

IsWalk(at, B) ==
    /\ at[0] = Least(B)
    /\ \A k \in Nat : at[k + 1] = IF at[k] = None THEN None ELSE Least(After(B, at[k]))

SeenOn(at, n) == {at[k] : k \in 0 .. n}

\* A walk from the least element of a set of numbers below n to the next greater one, and
\* so on, has been everywhere after n steps.
LEMMA WalkFacts ==
    ASSUME NEW n \in Nat, NEW B \in SUBSET (0 .. n - 1), NEW at, IsWalk(at, B)
    PROVE  SeenOn(at, n) \ {None} = B
<1> DEFINE Seen(k) == {at[j] : j \in 0 .. k}
           Here(k) == at[k] # None => at[k] \in B /\ at[k] \in Nat /\ at[k] >= k
           Behind(k) == \A c \in B : c \in Seen(k) \/ (at[k] # None /\ c > at[k])
           Good == {k \in Nat : Here(k) /\ Behind(k)}
<1>1. B \in SUBSET Nat
  OBVIOUS
<1>10. /\ at[0] = Least(B)
      /\ \A k \in Nat : at[k + 1] = IF at[k] = None THEN None
                                    ELSE Least({c \in B : c > at[k]})
  BY DEF IsWalk, After
<1>2. 0 \in Good
  <2>1. B = {} => at[0] = None
    BY <1>1, <1>10, LeastFacts
  <2>2. B # {} => at[0] \in B /\ at[0] # None /\ \A y \in B : at[0] <= y
    BY <1>1, <1>10, LeastFacts
  <2>3. Here(0)
    <3> SUFFICES ASSUME at[0] # None PROVE at[0] \in B /\ at[0] \in Nat /\ at[0] >= 0
      OBVIOUS
    <3>1. at[0] \in B
      BY <2>1, <2>2
    <3>2. at[0] \in Nat
      BY <1>1, <3>1
    <3> QED
      BY ONLY <3>1, <3>2
  <2>4. ASSUME NEW c \in B PROVE c \in Seen(0) \/ (at[0] # None /\ c > at[0])
    <3>1. at[0] \in Seen(0)
      OBVIOUS
    <3>2. at[0] \in Nat /\ c \in Nat /\ at[0] <= c /\ at[0] # None
      BY <1>1, <2>2
    <3>3. c = at[0] \/ c > at[0]
      BY ONLY <3>2
    <3> QED
      BY <3>1, <3>2, <3>3
  <2> QED
    BY <2>3, <2>4
<1>3. ASSUME NEW k \in Nat, k \in Good PROVE k + 1 \in Good
  <2> DEFINE R == {c \in B : c > at[k]}
  <2>1. Here(k) /\ Behind(k)
    BY <1>3
  <2>2. Seen(k) \subseteq Seen(k + 1) /\ at[k + 1] \in Seen(k + 1)
    OBVIOUS
  <2>3. CASE at[k] = None
    <3>1. at[k + 1] = None
      BY <1>10, <2>3
    <3>2. B \subseteq Seen(k + 1)
      BY <2>1, <2>2, <2>3
    <3> HIDE DEF Seen
    <3> QED
      BY <3>1, <3>2
  <2>4. CASE at[k] # None
    <3>1. at[k + 1] = Least(R) /\ R \in SUBSET Nat
      BY <1>1, <1>10, <2>4
    <3>2. /\ R = {} => at[k + 1] = None
          /\ R # {} => at[k + 1] \in R /\ at[k + 1] # None /\ \A y \in R : at[k + 1] <= y
      <4> HIDE DEF R
      <4> QED
        BY ONLY <3>1, LeastFacts
    <3>3. at[k] \in Nat /\ at[k] >= k
      BY <2>1, <2>4
    <3>4. Here(k + 1)
      <4> SUFFICES ASSUME at[k + 1] # None
                   PROVE  at[k + 1] \in B /\ at[k + 1] \in Nat /\ at[k + 1] >= k + 1
        OBVIOUS
      <4>1. at[k + 1] \in R
        BY <3>2
      <4>2. at[k + 1] \in B /\ at[k + 1] > at[k]
        BY ONLY <4>1
      <4>3. at[k + 1] \in Nat
        BY ONLY <1>1, <4>2
      <4> QED
        BY ONLY <3>3, <4>2, <4>3
    <3>5. ASSUME NEW c \in B PROVE c \in Seen(k + 1) \/ (at[k + 1] # None /\ c > at[k + 1])
      <4>1. CASE c \in Seen(k)
        BY <2>2, <4>1
      <4>2. CASE c \notin Seen(k)
        <5>1. c \in R
          BY <2>1, <4>2
        <5>2. at[k + 1] # None /\ at[k + 1] \in Nat /\ c \in Nat /\ at[k + 1] <= c
          BY <3>1, <3>2, <5>1
        <5>3. c = at[k + 1] \/ c > at[k + 1]
          BY ONLY <5>2
        <5> QED
          BY <2>2, <5>2, <5>3
      <4> QED
        BY <4>1, <4>2
    <3>6. k + 1 \in Nat /\ Behind(k + 1)
      BY <3>5
    <3> HIDE DEF Here, Behind
    <3> QED
      BY <3>4, <3>6
  <2> QED
    BY <2>3, <2>4
<1>4. Nat \subseteq Good
  <2> HIDE DEF Good
  <2> QED
    BY ONLY <1>2, <1>3, InductionOnNat
<1>5. \A k \in Nat : Here(k) /\ Behind(k)
  BY <1>4
<1>6. at[n] = None
  BY <1>5
<1>7. B \subseteq Seen(n)
  BY <1>5, <1>6
<1>8. None \notin B
  BY DEF None
<1>9. Seen(n) \subseteq B \cup {None}
  BY <1>5
<1> QED
  BY <1>7, <1>8, <1>9 DEF SeenOn

LEMMA VisitedFacts ==
    ASSUME BitsetInv, NEW x \in Sets
    PROVE  visited(x) = bits[x]
<1> DEFINE B == bits[x]
           T == B \cup {None}
           Rec(at) == [k \in Nat |-> IF k = 0 THEN first_bit(x)
                                     ELSE IF at[k - 1] = None THEN None
                                     ELSE next_bit(x, at[k - 1])]
           Iter == CHOOSE at : at = Rec(at)
           g == [v \in T |-> IF v = None THEN None ELSE next_bit(x, v)]
<1>1. visited(x) = {Iter[k] : k \in 0 .. len[x]} \ {None}
  BY DEF visited
<1>2. len[x] \in Nat /\ B \in SUBSET (0 .. len[x] - 1) /\ B \in SUBSET Nat
  BY BitsFacts DEF BitsetInv
<1> HIDE DEF B
<1>3. first_bit(x) = Least(B) /\ \A b \in B : next_bit(x, b) = Least({c \in B : c > b})
  BY <1>2, FirstBitFacts, NextBitFacts DEF B
<1>4. \A S \in SUBSET B : Least(S) \in T
  <2> TAKE S \in SUBSET B
  <2>1. S \in SUBSET Nat
    BY <1>2
  <2> QED
    BY <2>1, LeastFacts
<1>5. first_bit(x) \in T /\ g \in [T -> T]
  <2>1. ASSUME NEW v \in T PROVE (IF v = None THEN None ELSE next_bit(x, v)) \in T
    <3>1. CASE v = None
      BY <3>1
    <3>2. CASE v # None
      <4>1. v \in B /\ {c \in B : c > v} \in SUBSET B
        BY <3>2
      <4>2. next_bit(x, v) = Least({c \in B : c > v})
        BY <1>3, <4>1
      <4> HIDE DEF T
      <4> QED
        BY ONLY <1>4, <3>2, <4>1, <4>2
    <3> QED
      BY <3>1, <3>2
  <2>2. first_bit(x) \in T
    BY <1>3, <1>4
  <2> QED
    BY <2>1, <2>2
<1>6. PICK at \in [Nat -> T] : at[0] = first_bit(x) /\ \A k \in Nat : at[k + 1] = g[at[k]]
  <2> HIDE DEF T, g
  <2>1. \E at \in [Nat -> T] : IsIteration(at, first_bit(x), g)
    BY ONLY <1>5, IterationExists, Zenon
  <2> QED
    BY ONLY <2>1 DEF IsIteration
<1>7. at = Rec(at)
  <2>1. ASSUME NEW k \in Nat
        PROVE  at[k] = IF k = 0 THEN first_bit(x)
                       ELSE IF at[k - 1] = None THEN None ELSE next_bit(x, at[k - 1])
    <3>1. CASE k = 0
      BY <1>6, <3>1
    <3>2. CASE k # 0
      <4>1. k - 1 \in Nat /\ (k - 1) + 1 = k
        BY <3>2
      <4>2. at[k] = g[at[k - 1]] /\ at[k - 1] \in T
        BY <1>6, <4>1
      <4> QED
        BY <3>2, <4>2
    <3> QED
      BY <3>1, <3>2
  <2>2. at = [k \in Nat |-> at[k]]
    BY <1>6
  <2> QED
    BY <2>1, <2>2
<1>8. Iter = Rec(Iter)
  <2> HIDE DEF Rec
  <2> QED
    BY ONLY <1>7
<1> HIDE DEF Iter
<1>9. Iter[0] = first_bit(x)
  BY <1>8
<1>10. ASSUME NEW k \in Nat
       PROVE  Iter[k + 1] = IF Iter[k] = None THEN None ELSE next_bit(x, Iter[k])
  <2>1. k + 1 \in Nat /\ k + 1 # 0 /\ (k + 1) - 1 = k
    OBVIOUS
  <2> QED
    BY <1>8, <2>1
<1>11. Nat \subseteq {k \in Nat : Iter[k] \in T}
  <2> DEFINE Typed == {k \in Nat : Iter[k] \in T}
  <2>1. 0 \in Typed
    BY <1>5, <1>9
  <2>2. \A k \in Nat : k \in Typed => k + 1 \in Typed
    BY <1>5, <1>10
  <2> HIDE DEF Typed
  <2>3. Nat \subseteq Typed
    BY ONLY <2>1, <2>2, InductionOnNat
  <2> QED
    BY <2>3 DEF Typed
<1>12. ASSUME NEW k \in Nat
       PROVE  Iter[k + 1] = IF Iter[k] = None THEN None ELSE Least({c \in B : c > Iter[k]})
  BY <1>3, <1>10, <1>11
<1>13. {Iter[k] : k \in 0 .. len[x]} \ {None} = B
  <2>1. IsWalk(Iter, B)
    BY ONLY <1>3, <1>9, <1>12 DEF IsWalk, After
  <2>2. SeenOn(Iter, len[x]) \ {None} = B
    BY ONLY <1>2, <2>1, WalkFacts, Zenon
  <2> QED
    BY ONLY <2>2 DEF SeenOn
<1> QED
  BY ONLY <1>1, <1>13 DEF B

\* For words of any width: every operation that looks answers for the whole set, and an
\* iterator visits every bit, across the borders of words.  first_zero_bit does so for a set
\* that is not full.
THEOREM LooksAlwaysAgree == Spec => []LooksAgree
<1>1. ASSUME BitsetInv, NEW x \in Sets, Zeros(x) # {}
      PROVE  first_zero_bit(x) = Least(Zeros(x))
  <2> DEFINE free == (0 .. arrlen(x) * W - 1) \ bits[x]
  <2>1. /\ first_zero_bit(x) = Least(free)
        /\ 0 .. len[x] - 1 \subseteq 0 .. arrlen(x) * W - 1 /\ len[x] \in Nat
    BY <1>1, FirstBitFacts, BitsFacts
  <2>2. /\ Zeros(x) \in SUBSET Nat /\ free \in SUBSET Nat /\ Zeros(x) \subseteq free
        /\ \A y \in Zeros(x), z \in free : z <= y => z \in Zeros(x)
    BY <2>1 DEF Zeros
  <2> HIDE DEF free
  <2>3. /\ Least(free) \in free /\ \A y \in free : Least(free) <= y
        /\ Least(Zeros(x)) \in Zeros(x)
    BY <1>1, <2>2, LeastFacts
  <2>4. Least(free) \in Zeros(x) /\ \A y \in Zeros(x) : Least(free) <= y
    BY <2>2, <2>3
  <2>5. Least(Zeros(x)) = Least(free)
    BY <2>2, <2>4, LeastIs
  <2> QED
    BY <2>1, <2>5
<1>2. BitsetInv => LooksAgree
  BY <1>1, PopcountFacts, EmptyFacts, FirstBitFacts, NextBitFacts, VisitedFacts DEF LooksAgree
<1> QED
  BY <1>2, BitsetInvAlways, PTL
=============================================================================
