--------------------------- MODULE MinHeapProofs ---------------------------
(***************************************************************************)
(* Proofs about MinHeap, for every number of keys and every bound on the   *)
(* values: the two arrays agree, the heap is ordered, and to its caller it *)
(* is a PriorityQueue.                                                     *)
(***************************************************************************)
EXTENDS MinHeap, FiniteSetTheorems, WellFoundedInduction, TLAPS

-----------------------------------------------------------------------------
(* Facts about numbers and positions.                                      *)

\* A set of natural numbers that is not empty has a least element.
LEMMA LeastElement ==
    ASSUME NEW T \in SUBSET Nat, T # {}
    PROVE  \E x \in T : \A y \in T : x <= y
<1>1. PICK x \in T : \A y \in T : <<y, x>> \notin OpToRel(<, Nat)
  BY NatLessThanWellFounded, WFMin
<1>2. \A y \in T : ~(y < x)
  BY <1>1 DEF OpToRel
<1> QED
  BY <1>2

\* The position above, and the two positions below.
LEMMA ParentFacts ==
    ASSUME NEW i \in Nat \ {0}
    PROVE  /\ Parent(i) \in Nat
           /\ Parent(i) < i
           /\ i = 2 * Parent(i) + 1 \/ i = 2 * Parent(i) + 2
BY DEF Parent

\* What the types say of the positions in use.
LEMMA SlotsFacts ==
    ASSUME TypeOK
    PROVE  /\ n \in Nat /\ n <= NumKeys /\ cur \in Nat
           /\ \A i \in 0 .. n - 1 : i \in Slots
           /\ \A i \in Slots : /\ i \in Nat
                               /\ heap[i] = [value |-> heap[i].value, key |-> heap[i].key]
                               /\ heap[i].key \in Keys
                               /\ heap[i].value \in Values
                               /\ heap[i].value \in Nat
<1>1. n \in Nat /\ n <= NumKeys /\ cur \in Nat /\ \A i \in 0 .. n - 1 : i \in Slots
  BY NumKeysAssumption DEF TypeOK, Slots
<1>2. ASSUME NEW i \in Slots
      PROVE  /\ i \in Nat
             /\ heap[i] = [value |-> heap[i].value, key |-> heap[i].key]
             /\ heap[i].key \in Keys
             /\ heap[i].value \in Values
  <2>1. heap[i] \in [value : Values, key : Keys]
    BY DEF TypeOK, Entries
  <2> QED
    BY <2>1, NumKeysAssumption DEF Slots
<1>3. \A v \in Values : v \in Nat
  BY MaxValueAssumption DEF Values
<1> QED
  BY <1>1, <1>2, <1>3

\* Every position but the first has one above it.
LEMMA PositionFacts ==
    ASSUME TypeOK
    PROVE  \A i \in 1 .. n - 1 : /\ i \in Slots /\ Parent(i) \in Slots /\ Parent(i) < i
                                 /\ Parent(i) \in 0 .. n - 1
                                 /\ heap[i].value \in Nat /\ heap[Parent(i)].value \in Nat
<1> SUFFICES ASSUME NEW i \in 1 .. n - 1
             PROVE  /\ i \in Slots /\ Parent(i) \in 0 .. n - 1 /\ Parent(i) < i
  BY SlotsFacts
<1>1. i \in Nat \ {0} /\ i \in 0 .. n - 1
  BY SlotsFacts
<1> QED
  BY <1>1, ParentFacts, SlotsFacts

-----------------------------------------------------------------------------
(* The inductive invariant: the types, the two arrays, the order, and that *)
(* the entry being moved is in the heap, or at the position just vacated.  *)

CurOK == pc # "idle" => cur <= n

HeapInv == TypeOK /\ IndexExact /\ HeapOrdered /\ CurOK

\* The keys of the heap are its positions' own; a key that is not there
\* leaves room for it.
LEMMA RoomForAnother ==
    ASSUME TypeOK, IndexExact, NEW k \in Keys, ~Contains(k)
    PROVE  n < NumKeys
<1> DEFINE f == [i \in 0 .. n - 1 |-> heap[i].key]
<1>1. \A i \in 0 .. n - 1 : heap[i].key \in Keys \ {k}
  BY SlotsFacts DEF IndexExact
<1>2. f \in Injection(0 .. n - 1, Keys \ {k})
  <2>1. f \in [0 .. n - 1 -> Keys \ {k}]
    BY <1>1
  <2>2. \A i, j \in 0 .. n - 1 : f[i] = f[j] => i = j
    BY DEF IndexExact
  <2> QED
    BY <2>1, <2>2 DEF Injection, IsInjective
<1>3. IsFiniteSet(Keys) /\ Cardinality(Keys) = NumKeys
  BY NumKeysAssumption, FS_Interval DEF Keys
<1>4. IsFiniteSet(Keys \ {k}) /\ Cardinality(Keys \ {k}) = NumKeys - 1
  BY <1>3, FS_RemoveElement
<1>5. Cardinality(0 .. n - 1) = n
  BY SlotsFacts, FS_Interval
<1>6. n <= NumKeys - 1
  BY <1>2, <1>4, <1>5, FS_Injection
<1> QED
  BY <1>6, SlotsFacts, NumKeysAssumption

\* A swap of two positions in use changes neither the types nor the keys.
LEMMA SwapKeepsIndex ==
    ASSUME TypeOK, IndexExact, NEW i \in 0 .. n - 1, NEW j \in 0 .. n - 1, i # j,
           Swap(i, j), n' = n
    PROVE  /\ heap' \in [Slots -> Entries]
           /\ key2idx' \in [Keys -> Slots]
           /\ heap'[i] = heap[j] /\ heap'[j] = heap[i]
           /\ \A x \in Slots \ {i, j} : heap'[x] = heap[x]
           /\ IndexExact'
<1>1. i \in Slots /\ j \in Slots /\ heap[i] \in Entries /\ heap[j] \in Entries
  BY SlotsFacts DEF TypeOK
<1>2. /\ heap[i].key \in Keys /\ heap[j].key \in Keys /\ heap[i].key # heap[j].key
      /\ key2idx[heap[i].key] = i /\ key2idx[heap[j].key] = j
  BY <1>1, SlotsFacts DEF IndexExact
<1>3. /\ heap' = [heap EXCEPT ![i] = heap[j], ![j] = heap[i]]
      /\ key2idx' = [key2idx EXCEPT ![heap[i].key] = j, ![heap[j].key] = i]
  BY <1>2 DEF Swap
<1>4. heap' \in [Slots -> Entries] /\ key2idx' \in [Keys -> Slots]
  BY <1>1, <1>3 DEF TypeOK
<1>5. /\ heap'[i] = heap[j] /\ heap'[j] = heap[i]
      /\ \A x \in Slots \ {i, j} : heap'[x] = heap[x]
  BY <1>1, <1>3 DEF TypeOK
<1>6. /\ key2idx'[heap[i].key] = j /\ key2idx'[heap[j].key] = i
      /\ \A k \in Keys \ {heap[i].key, heap[j].key} : key2idx'[k] = key2idx[k]
  BY <1>2, <1>3 DEF TypeOK
<1>7. \A x \in 0 .. n - 1 : key2idx'[heap'[x].key] = x
  <2> SUFFICES ASSUME NEW x \in 0 .. n - 1 PROVE key2idx'[heap'[x].key] = x
    OBVIOUS
  <2>1. CASE x \in {i, j}
    BY <2>1, <1>5, <1>6
  <2>2. CASE x \notin {i, j}
    <3>1. heap'[x] = heap[x] /\ heap[x].key \in Keys /\ key2idx[heap[x].key] = x
      BY <2>2, <1>5, SlotsFacts DEF IndexExact
    <3>2. heap[x].key \notin {heap[i].key, heap[j].key}
      BY <3>1, <1>2, <2>2
    <3> QED
      BY <3>1, <3>2, <1>6
  <2> QED
    BY <2>1, <2>2
<1>8. \A k \in Keys : key2idx'[k] \in Nat
  BY <1>4, NumKeysAssumption DEF Slots
<1> QED
  BY <1>4, <1>5, <1>7, <1>8, SlotsFacts DEF IndexExact, Contains

-----------------------------------------------------------------------------
(* One lemma for each action that moves an entry.                          *)

\* What the calls that return no entry answer.
LEMMA AnswerType ==
    /\ Answer(TRUE) \in [ok : BOOLEAN, value : Values, key : Keys]
    /\ Answer(FALSE) \in [ok : BOOLEAN, value : Values, key : Keys]
BY NumKeysAssumption, MaxValueAssumption DEF Answer, Values, Keys

LEMMA InitHeapInv == Init => HeapInv
<1> SUFFICES ASSUME Init PROVE HeapInv
  OBVIOUS
<1>1. TypeOK
  <2>1. [value |-> 0, key |-> 0] \in Entries
    BY NumKeysAssumption, MaxValueAssumption DEF Entries, Values, Keys
  <2>2. 0 \in Slots /\ 0 \in 0 .. NumKeys
    BY NumKeysAssumption DEF Slots
  <2>3. heap \in [Slots -> Entries] /\ key2idx \in [Keys -> Slots]
    BY <2>1, <2>2 DEF Init
  <2> QED
    BY <2>2, <2>3, AnswerType DEF Init, TypeOK
<1>2. IndexExact
  <2>1. \A k \in Keys : ~Contains(k)
    BY NumKeysAssumption DEF Init, Contains
  <2> QED
    BY <2>1 DEF Init, IndexExact
<1>3. HeapOrdered /\ CurOK
  BY DEF Init, HeapOrdered, CurOK
<1> QED
  BY <1>1, <1>2, <1>3 DEF HeapInv

\* The entry moved up is smaller than the one it changes places with, and so
\* than the other one below that; what was below it is no smaller than that.
LEMMA ShiftUpKeeps == HeapInv /\ ShiftUp => HeapInv'
<1> SUFFICES ASSUME HeapInv, ShiftUp PROVE HeapInv'
  OBVIOUS
<1> USE DEF HeapInv
<1>1. /\ cur \in Nat \ {0} /\ n \in Nat /\ cur < n
      /\ Parent(cur) \in Nat /\ Parent(cur) < cur
  <2>1. cur # 0 /\ cur \in Nat /\ n \in Nat /\ cur <= n
    BY SlotsFacts DEF ShiftUp, Rises, CurOK
  <2>2. Parent(cur) \in Nat /\ Parent(cur) < cur
    BY <2>1, ParentFacts
  <2>3. Parent(cur) \in Slots /\ cur \in Slots
    BY <2>2, <2>1, NumKeysAssumption DEF TypeOK, Slots
  <2>4. heap[Parent(cur)].value \in Nat /\ heap[cur].value \in Nat
    BY <2>3, SlotsFacts
  <2>5. cur # n
    BY <2>1, <2>4 DEF ShiftUp, Rises, Below, HeapOrdered, Ordered
  <2> QED
    BY <2>1, <2>2, <2>5
<1> PICK p \in Nat : p = Parent(cur)
  BY <1>1
<1> PICK c \in Nat \ {0} : c = cur
  BY <1>1
<1>2. Swap(c, p) /\ n' = n /\ cur' = p /\ pc = "up" /\ pc' = "up" /\ result' = result
  BY DEF ShiftUp
<1>3. /\ heap[c].value < heap[p].value
      /\ p # c /\ p < n /\ c < n /\ p \in 0 .. n - 1 /\ c \in 0 .. n - 1
  BY <1>1 DEF ShiftUp, Rises, Below
<1>4. /\ heap'[c] = heap[p] /\ heap'[p] = heap[c]
      /\ \A x \in Slots \ {c, p} : heap'[x] = heap[x]
      /\ heap' \in [Slots -> Entries] /\ key2idx' \in [Keys -> Slots]
      /\ IndexExact'
  BY <1>2, <1>3, SwapKeepsIndex
<1>5. TypeOK'
  BY <1>2, <1>3, <1>4, SlotsFacts DEF TypeOK
<1>6. \A i \in 1 .. n - 1 : /\ i \in Slots /\ Parent(i) \in Slots /\ Parent(i) < i
                            /\ heap[i].value \in Nat /\ heap[Parent(i)].value \in Nat
  BY PositionFacts
<1>7. HeapOrdered'
  <2>1. ASSUME NEW i \in 1 .. n - 1, i # p, Parent(i) # p
        PROVE  Ordered(Parent(i), i)'
    <3>1. CASE Parent(i) = c
      <4>1. heap[p].value <= heap[i].value
        BY <1>1, <1>2, <3>1 DEF HeapOrdered, Ordered
      <4>2. i # c /\ i \in Slots
        BY <1>1, <1>6, <3>1
      <4> QED
        BY <1>4, <2>1, <3>1, <4>1, <4>2 DEF Ordered
    <3>2. CASE Parent(i) # c
      <4>1. i # c
        BY <2>1
      <4>2. heap[Parent(i)].value <= heap[i].value
        BY <1>2, <3>2, <4>1 DEF HeapOrdered, Ordered
      <4> QED
        BY <1>4, <1>6, <2>1, <3>2, <4>1, <4>2 DEF Ordered
    <3> QED
      BY <3>1, <3>2
  <2>2. ASSUME p # 0, NEW i \in 1 .. n - 1, Parent(i) = p
        PROVE  Ordered(Parent(p), i)'
    <3>1. p \in 1 .. n - 1
      BY <1>3, <2>2
    <3>2. Parent(p) # c /\ Parent(p) # p /\ Parent(p) \in Slots
      BY <1>1, <1>6, <3>1
    <3>3. heap[Parent(p)].value <= heap[p].value
      BY <1>2, <1>3, <3>1, <3>2 DEF HeapOrdered, Ordered
    <3>4. heap'[Parent(p)] = heap[Parent(p)]
      BY <1>4, <3>2
    <3>5. CASE i = c
      BY <1>4, <3>3, <3>4, <3>5 DEF Ordered
    <3>6. CASE i # c
      <4>1. heap[p].value <= heap[i].value
        BY <1>2, <1>3, <2>2, <3>6 DEF HeapOrdered, Ordered
      <4>2. i # p /\ heap'[i] = heap[i]
        BY <1>4, <1>6, <2>2, <3>6
      <4>3. heap[Parent(p)].value <= heap[i].value
        BY <1>6, <2>2, <3>1, <3>3, <4>1
      <4> QED
        BY <3>4, <4>2, <4>3 DEF Ordered
    <3> QED
      BY <3>5, <3>6
  <2> QED
    BY <1>2, <1>3, <2>1, <2>2 DEF HeapOrdered
<1>8. CurOK'
  BY <1>1, <1>2, <1>3 DEF CurOK
<1> QED
  BY <1>4, <1>5, <1>7, <1>8

\* The positions below cur, the smallest of which Smaller picks.
LEMMA SmallerFacts ==
    ASSUME HeapInv, pc = "down"
    PROVE  /\ \A m \in Smaller : /\ m \in 1 .. n - 1 /\ Parent(m) = cur /\ Below(m, cur)
                                 /\ \A i \in 1 .. n - 1 : Parent(i) = cur => Ordered(m, i)
           /\ Smaller = {} => \A i \in 1 .. n - 1 : Parent(i) = cur => Ordered(cur, i)
<1> USE DEF HeapInv
<1>1. cur \in Nat /\ n \in Nat
  BY SlotsFacts
<1>2. \A i \in 1 .. n - 1 : Parent(i) = cur => i \in {2 * cur + 1, 2 * cur + 2}
  BY ParentFacts
<1>3. Parent(2 * cur + 1) = cur /\ Parent(2 * cur + 2) = cur
  BY <1>1 DEF Parent
<1>4. \A i \in 0 .. n - 1 : heap[i].value \in Nat
  BY SlotsFacts
<1>5. heap[cur].value \in Nat
  BY SlotsFacts DEF TypeOK
<1>6. ASSUME NEW m \in Smaller
      PROVE  /\ m \in 1 .. n - 1 /\ m \in {2 * cur + 1, 2 * cur + 2} /\ Below(m, cur)
             /\ 2 * cur + 1 < n => Ordered(m, 2 * cur + 1)
             /\ 2 * cur + 2 < n => Ordered(m, 2 * cur + 2)
  <2>1. CASE ~(2 * cur + 1 < n)
    BY <1>1, <2>1 DEF Smaller
  <2>2. CASE 2 * cur + 1 < n /\ ~(2 * cur + 2 < n)
    BY <1>1, <1>4, <2>2 DEF Smaller, Below, Ordered
  <2>3. CASE 2 * cur + 2 < n
    <3>1. heap[2 * cur + 1].value \in Nat /\ heap[2 * cur + 2].value \in Nat
      BY <1>1, <1>4, <2>3
    <3> QED
      BY <1>1, <1>5, <2>3, <3>1 DEF Smaller, Below, Ordered
  <2> QED
    BY <1>1, <2>1, <2>2, <2>3
<1>7. ASSUME Smaller = {}
      PROVE  /\ 2 * cur + 1 < n => Ordered(cur, 2 * cur + 1)
             /\ 2 * cur + 2 < n => Ordered(cur, 2 * cur + 2)
  <2>1. CASE 2 * cur + 1 < n
    <3>1. heap[2 * cur + 1].value \in Nat
      BY <1>1, <1>4, <2>1
    <3>2. ~Below(2 * cur + 1, cur)
      <4>1. 2 * cur + 1 # cur
        BY <1>1
      <4> QED
        BY <1>7, <2>1, <4>1, Zenon DEF Smaller
    <3>3. 2 * cur + 2 < n => ~Below(2 * cur + 2, cur)
      BY <1>1, <1>7, <2>1, <3>2 DEF Smaller
    <3>4. 2 * cur + 2 < n => heap[2 * cur + 2].value \in Nat
      BY <1>1, <1>4
    <3> QED
      BY <1>5, <3>1, <3>2, <3>3, <3>4 DEF Below, Ordered
  <2> QED
    BY <1>1, <2>1
<1> QED
  BY <1>1, <1>2, <1>3, <1>6, <1>7

\* The entry moved down is greater than the one it changes places with, which
\* is no greater than the other one there and no smaller than the one above.
LEMMA ShiftDownKeeps == ASSUME NEW m \in Slots PROVE HeapInv /\ ShiftDown(m) => HeapInv'
<1> SUFFICES ASSUME HeapInv, ShiftDown(m) PROVE HeapInv'
  OBVIOUS
<1> USE DEF HeapInv
<1> PICK c \in Nat : c = cur
  BY SlotsFacts
<1>1. /\ Swap(c, m) /\ n' = n /\ cur' = m /\ pc = "down" /\ pc' = "down"
      /\ result' = result /\ m \in Smaller
  BY DEF ShiftDown
<1>2. /\ n \in Nat /\ m \in 1 .. n - 1 /\ Parent(m) = c /\ c < m /\ c \in 0 .. n - 1
      /\ m \in 0 .. n - 1 /\ heap[m].value < heap[c].value
      /\ \A i \in 1 .. n - 1 : Parent(i) = c => heap[m].value <= heap[i].value
  <2>1. n \in Nat /\ m \in 1 .. n - 1 /\ Parent(m) = c
    BY <1>1, SmallerFacts, SlotsFacts
  <2>2. c < m /\ c \in 0 .. n - 1
    BY <2>1, PositionFacts
  <2> QED
    BY <1>1, <2>1, <2>2, SmallerFacts DEF Below, Ordered
<1>3. /\ heap'[c] = heap[m] /\ heap'[m] = heap[c]
      /\ \A x \in Slots \ {c, m} : heap'[x] = heap[x]
      /\ heap' \in [Slots -> Entries] /\ key2idx' \in [Keys -> Slots]
      /\ IndexExact'
  BY <1>1, <1>2, SwapKeepsIndex
<1>4. TypeOK' /\ CurOK'
  BY <1>1, <1>2, <1>3 DEF TypeOK, CurOK
<1>5. \A i \in 1 .. n - 1 : /\ i \in Slots /\ Parent(i) \in Slots /\ Parent(i) < i
                            /\ heap[i].value \in Nat /\ heap[Parent(i)].value \in Nat
  BY PositionFacts
<1>6. HeapOrdered'
  <2>1. ASSUME NEW i \in 1 .. n - 1, Parent(i) # m PROVE Ordered(Parent(i), i)'
    <3>1. CASE i = m
      BY <1>2, <1>3, <1>5, <3>1 DEF Ordered
    <3>2. CASE i = c
      <4>1. Parent(c) # c /\ Parent(c) # m /\ Parent(c) \in Slots
        BY <1>2, <1>5, <3>2
      <4>2. heap[Parent(c)].value <= heap[m].value
        BY <1>1, <1>2, <3>2 DEF HeapOrdered, Ordered
      <4> QED
        BY <1>3, <3>2, <4>1, <4>2 DEF Ordered
    <3>3. CASE i # m /\ i # c /\ Parent(i) = c
      BY <1>2, <1>3, <1>5, <3>3 DEF Ordered
    <3>4. CASE i # m /\ i # c /\ Parent(i) # c
      <4>1. heap[Parent(i)].value <= heap[i].value
        BY <1>1, <3>4 DEF HeapOrdered, Ordered
      <4>2. Parent(i) \in Slots \ {c, m} /\ i \in Slots \ {c, m}
        BY <1>5, <2>1, <3>4
      <4> QED
        BY <1>3, <4>1, <4>2 DEF Ordered
    <3> QED
      BY <3>1, <3>2, <3>3, <3>4
  <2>2. ASSUME NEW i \in 1 .. n - 1, Parent(i) = m PROVE Ordered(c, i)'
    <3>1. heap[m].value <= heap[i].value
      BY <1>1, <1>2, <2>2 DEF HeapOrdered, Ordered
    <3>2. i # m /\ i # c /\ i \in Slots
      BY <1>2, <1>5, <2>2
    <3> QED
      BY <1>3, <3>1, <3>2 DEF Ordered
  <2>3. Ordered(c, m)'
    BY <1>2, <1>3, <1>5 DEF Ordered
  <2> QED
    BY <1>1, <1>2, <2>1, <2>2, <2>3 DEF HeapOrdered
<1> QED
  BY <1>3, <1>4, <1>6

LEMMA EndsKeep == HeapInv /\ (ShiftUpEnds \/ ShiftDownEnds) => HeapInv'
<1> SUFFICES ASSUME HeapInv, ShiftUpEnds \/ ShiftDownEnds PROVE HeapInv'
  OBVIOUS
<1> USE DEF HeapInv
<1>1. UNCHANGED <<n, heap, key2idx, result>>
  BY DEF ShiftUpEnds, ShiftDownEnds
<1>2. IndexExact'
  BY <1>1 DEF IndexExact, Contains
<1>3. cur \in Nat /\ n \in Nat /\ 0 \in Slots
  BY SlotsFacts, NumKeysAssumption DEF Slots
<1>4. CASE ShiftUpEnds
  <2>1. pc = "up" /\ pc' = "down" /\ cur' = cur
    BY <1>4 DEF ShiftUpEnds
  <2>2. cur # 0 => Ordered(Parent(cur), cur)
    <3> SUFFICES ASSUME cur # 0 PROVE Ordered(Parent(cur), cur)
      OBVIOUS
    <3>1. Parent(cur) \in Slots /\ cur \in Slots
      BY <1>3, ParentFacts, NumKeysAssumption DEF TypeOK, Slots
    <3>2. heap[Parent(cur)].value \in Nat /\ heap[cur].value \in Nat
      BY <3>1, SlotsFacts
    <3> QED
      BY <1>4, <3>2 DEF ShiftUpEnds, Rises, Below, Ordered
  <2>3. \A i \in 1 .. n - 1 : Ordered(Parent(i), i) \/ cur = Parent(i)
    <3> SUFFICES ASSUME NEW i \in 1 .. n - 1, i = cur PROVE Ordered(Parent(i), i)
      BY <2>1 DEF HeapOrdered
    <3> QED
      BY <1>3, <2>2
  <2> QED
    BY <1>1, <1>2, <2>1, <2>2, <2>3 DEF HeapOrdered, Ordered, TypeOK, CurOK
<1>5. CASE ShiftDownEnds
  <2>1. pc = "down" /\ Smaller = {} /\ pc' = "idle" /\ cur' = 0
    BY <1>5 DEF ShiftDownEnds
  <2>2. \A i \in 1 .. n - 1 : Ordered(Parent(i), i)
    BY <2>1, SmallerFacts DEF HeapOrdered
  <2> QED
    BY <1>1, <1>2, <1>3, <2>1, <2>2 DEF HeapOrdered, Ordered, TypeOK, CurOK
<1> QED
  BY <1>4, <1>5

-----------------------------------------------------------------------------
(* The operations, called when nothing is being moved.                     *)

LEMMA InsertKeeps ==
    ASSUME HeapInv, NEW k \in Keys, NEW v \in Values, Insert(v, k)
    PROVE  HeapInv'
<1> USE DEF HeapInv
<1>1. /\ pc = "idle" /\ ~Contains(k) /\ n' = n + 1 /\ cur' = n /\ pc' = "up"
      /\ heap' = [heap EXCEPT ![n] = [value |-> v, key |-> k]]
      /\ key2idx' = [key2idx EXCEPT ![k] = n]
      /\ result' = Answer(TRUE)
  BY DEF Insert
<1>2. n \in Nat /\ n < NumKeys /\ n \in Slots /\ \A i \in 0 .. n - 1 : i \in Slots
  BY <1>1, RoomForAnother, SlotsFacts, NumKeysAssumption DEF Slots
<1>3. [value |-> v, key |-> k] \in Entries
  BY DEF Entries
<1>4. TypeOK' /\ CurOK'
  <2>1. /\ n' \in 0 .. NumKeys /\ cur' \in Slots /\ cur' <= n'
        /\ heap' \in [Slots -> Entries] /\ key2idx' \in [Keys -> Slots]
    BY <1>1, <1>2, <1>3, NumKeysAssumption DEF TypeOK
  <2> QED
    BY <1>1, <2>1, AnswerType DEF TypeOK, CurOK
<1>5. /\ heap'[n] = [value |-> v, key |-> k]
      /\ \A i \in 0 .. n - 1 : heap'[i] = heap[i] /\ heap[i].key \in Keys
  BY <1>1, <1>2, SlotsFacts DEF TypeOK
<1>6. \A i \in 0 .. n - 1 : heap[i].key # k
  BY <1>1 DEF IndexExact
<1>7. \A i \in 0 .. n : key2idx'[heap'[i].key] = i
  <2>1. key2idx'[k] = n /\ \A j \in Keys \ {k} : key2idx'[j] = key2idx[j]
    BY <1>1 DEF TypeOK
  <2> SUFFICES ASSUME NEW i \in 0 .. n PROVE key2idx'[heap'[i].key] = i
    OBVIOUS
  <2>2. CASE i = n
    BY <1>5, <2>1, <2>2
  <2>3. CASE i \in 0 .. n - 1
    BY <1>5, <1>6, <2>1, <2>3 DEF IndexExact
  <2> QED
    BY <1>2, <2>2, <2>3
<1>8. IndexExact'
  <2>1. \A j \in Keys : key2idx'[j] \in Nat
    BY <1>4, NumKeysAssumption DEF TypeOK, Slots
  <2> QED
    BY <1>1, <1>2, <1>7, <2>1 DEF IndexExact, Contains
<1>9. HeapOrdered'
  <2>1. \A i \in 1 .. n - 1 : Ordered(Parent(i), i)'
    <3> SUFFICES ASSUME NEW i \in 1 .. n - 1 PROVE Ordered(Parent(i), i)'
      OBVIOUS
    <3>1. Parent(i) \in 0 .. n - 1 /\ i \in 0 .. n - 1
      BY <1>2, PositionFacts
    <3> QED
      BY <1>1, <1>5, <3>1 DEF HeapOrdered, Ordered
  <2>2. \A i \in 1 .. n : Parent(i) # n
    BY <1>2, ParentFacts
  <2> QED
    BY <1>1, <1>2, <2>1, <2>2 DEF HeapOrdered
<1> QED
  BY <1>4, <1>8, <1>9

LEMMA RemoveKeeps ==
    ASSUME HeapInv, NEW k \in Keys, Remove(k)
    PROVE  HeapInv'
<1> USE DEF HeapInv
<1> PICK c \in Nat : c = key2idx[k]
  BY NumKeysAssumption DEF TypeOK, Slots
<1>1. /\ pc = "idle" /\ n \in Nat /\ n' = n - 1 /\ n > 0 /\ c < n /\ heap[c].key = k
      /\ c \in 0 .. n - 1
      /\ result' = Answer(TRUE)
  BY SlotsFacts DEF Remove, Contains
<1>2. CASE ~(n > 1)
  <2>1. n' = 0 /\ UNCHANGED <<heap, key2idx, cur, pc>>
    BY <1>1, <1>2 DEF Remove
  <2>2. TypeOK' /\ CurOK'
    <3>1. n' \in 0 .. NumKeys
      BY <2>1, NumKeysAssumption
    <3> QED
      BY <1>1, <2>1, <3>1, AnswerType DEF TypeOK, CurOK
  <2>3. IndexExact' /\ HeapOrdered'
    BY <1>1, <2>1, NumKeysAssumption
    DEF TypeOK, Slots, IndexExact, Contains, HeapOrdered, Ordered
  <2> QED
    BY <2>2, <2>3
<1>3. CASE n > 1
  <2>1. /\ heap' = [heap EXCEPT ![c] = heap[n - 1]]
        /\ key2idx' = [key2idx EXCEPT ![heap[n - 1].key] = c]
        /\ cur' = c /\ pc' = "up"
    BY <1>3 DEF Remove, MovedIndex
  <2>2. n - 1 \in 0 .. n - 1 /\ c \in Slots /\ n - 1 \in Slots
    BY <1>1, <1>3, SlotsFacts
  <2>3. heap[n - 1] \in Entries /\ heap[n - 1].key \in Keys
    BY <2>2, SlotsFacts DEF TypeOK
  <2>4. TypeOK' /\ CurOK'
    <3>1. /\ n' \in 0 .. NumKeys /\ cur' \in Slots /\ cur' <= n'
          /\ heap' \in [Slots -> Entries] /\ key2idx' \in [Keys -> Slots]
      BY <1>1, <1>3, <2>1, <2>2, <2>3, NumKeysAssumption DEF TypeOK
    <3> QED
      BY <1>1, <2>1, <3>1, AnswerType DEF TypeOK, CurOK
  <2>5. heap'[c] = heap[n - 1] /\ \A i \in Slots \ {c} : heap'[i] = heap[i]
    BY <2>1, <2>2 DEF TypeOK
  <2>6. \A i \in 0 .. n - 2 : key2idx'[heap'[i].key] = i
    <3> SUFFICES ASSUME NEW i \in 0 .. n - 2 PROVE key2idx'[heap'[i].key] = i
      OBVIOUS
    <3>1. i \in 0 .. n - 1 /\ i # n - 1
      BY <1>1
    <3>a. i \in Slots /\ heap[i].key \in Keys
      BY <3>1, SlotsFacts
    <3>2. heap[i].key # heap[n - 1].key
      BY <2>2, <3>1 DEF IndexExact
    <3> QED
      BY <2>1, <2>3, <2>5, <3>1, <3>a, <3>2 DEF IndexExact, TypeOK
  <2>7. IndexExact'
    <3>1. \A j \in Keys : key2idx'[j] \in Nat
      BY <2>4, NumKeysAssumption DEF TypeOK, Slots
    <3> QED
      BY <1>1, <2>6, <3>1 DEF IndexExact, Contains
  <2>8. \A i \in 1 .. n - 1 : Ordered(Parent(i), i)
    BY <1>1 DEF HeapOrdered
  <2>9. \A i \in 1 .. n - 1 : /\ i \in Slots /\ Parent(i) \in Slots /\ Parent(i) < i
                              /\ heap[i].value \in Nat /\ heap[Parent(i)].value \in Nat
    BY PositionFacts
  <2>10. ASSUME NEW i \in 1 .. n - 1, i # c, Parent(i) # c PROVE Ordered(Parent(i), i)'
    BY <2>5, <2>8, <2>9, <2>10 DEF Ordered
  <2>11. ASSUME c # 0, NEW i \in 1 .. n - 1, Parent(i) = c PROVE Ordered(Parent(c), i)'
    <3>1. c \in 1 .. n - 1
      BY <1>1, <2>11
    <3>2. heap[Parent(c)].value <= heap[i].value
      BY <2>8, <2>9, <2>11, <3>1 DEF Ordered
    <3>3. Parent(c) # c /\ i # c /\ Parent(c) \in Slots /\ i \in Slots
      BY <2>9, <2>11, <3>1
    <3> QED
      BY <2>5, <3>2, <3>3 DEF Ordered
  <2>12. ASSUME c # 0, c = n - 1 PROVE Ordered(Parent(c), c)'
    <3>1. c \in 1 .. n - 1
      BY <1>1, <2>12
    <3>2. Parent(c) # c /\ Parent(c) \in Slots
      BY <2>9, <3>1
    <3> QED
      BY <2>5, <2>8, <2>12, <3>1, <3>2 DEF Ordered
  <2>13. HeapOrdered'
    BY <1>1, <2>1, <2>10, <2>11, <2>12 DEF HeapOrdered
  <2> QED
    BY <2>4, <2>7, <2>13
<1> QED
  BY <1>2, <1>3

LEMMA SetValueKeeps ==
    ASSUME HeapInv, NEW k \in Keys, NEW v \in Values, SetValue(k, v)
    PROVE  HeapInv'
<1> USE DEF HeapInv
<1> PICK c \in Nat : c = key2idx[k]
  BY NumKeysAssumption DEF TypeOK, Slots
<1>1. /\ pc = "idle" /\ n' = n /\ key2idx' = key2idx /\ cur' = c /\ pc' = "up"
      /\ n \in Nat /\ c < n /\ c \in 0 .. n - 1 /\ result' = Answer(TRUE)
      /\ heap' = [heap EXCEPT ![c].value = v]
  BY SlotsFacts DEF SetValue, Contains
<1>2. c \in Slots /\ heap[c] = [value |-> heap[c].value, key |-> heap[c].key]
  BY <1>1, SlotsFacts
<1>3. /\ heap'[c] = [value |-> v, key |-> heap[c].key]
      /\ \A i \in Slots \ {c} : heap'[i] = heap[i]
      /\ heap' \in [Slots -> Entries]
  <2>1. [heap[c] EXCEPT !.value = v] = [value |-> v, key |-> heap[c].key]
    BY <1>2
  <2>2. heap' = [heap EXCEPT ![c] = [value |-> v, key |-> heap[c].key]]
    BY <1>1, <2>1 DEF TypeOK
  <2>3. [value |-> v, key |-> heap[c].key] \in Entries
    BY <1>2, SlotsFacts DEF Entries
  <2> QED
    BY <1>2, <2>2, <2>3 DEF TypeOK
<1>4. TypeOK' /\ CurOK'
  <2>1. /\ n' \in 0 .. NumKeys /\ cur' \in Slots /\ cur' <= n'
        /\ heap' \in [Slots -> Entries] /\ key2idx' \in [Keys -> Slots]
    BY <1>1, <1>2, <1>3 DEF TypeOK
  <2> QED
    BY <1>1, <2>1, AnswerType DEF TypeOK, CurOK
<1>5. \A i \in Slots : heap'[i].key = heap[i].key
  BY <1>3
<1>6. IndexExact'
  <2>1. \A i \in 0 .. n - 1 : key2idx'[heap'[i].key] = i
    BY <1>1, <1>5, SlotsFacts DEF IndexExact
  <2>2. \A j \in Keys : key2idx'[j] \in Nat
    BY <1>4, NumKeysAssumption DEF TypeOK, Slots
  <2> QED
    BY <1>1, <2>1, <2>2 DEF IndexExact, Contains
<1>7. \A i \in 1 .. n - 1 : Ordered(Parent(i), i)
  BY <1>1 DEF HeapOrdered
<1>8. \A i \in 1 .. n - 1 : /\ i \in Slots /\ Parent(i) \in Slots /\ Parent(i) < i
                            /\ heap[i].value \in Nat /\ heap[Parent(i)].value \in Nat
  BY PositionFacts
<1>9. ASSUME NEW i \in 1 .. n - 1, i # c, Parent(i) # c PROVE Ordered(Parent(i), i)'
  BY <1>3, <1>7, <1>8, <1>9 DEF Ordered
<1>10. ASSUME c # 0, NEW i \in 1 .. n - 1, Parent(i) = c PROVE Ordered(Parent(c), i)'
  <2>1. c \in 1 .. n - 1
    BY <1>1, <1>10
  <2>2. heap[Parent(c)].value <= heap[i].value
    BY <1>7, <1>8, <1>10, <2>1 DEF Ordered
  <2>3. Parent(c) # c /\ i # c /\ Parent(c) \in Slots /\ i \in Slots
    BY <1>8, <1>10, <2>1
  <2> QED
    BY <1>3, <2>2, <2>3 DEF Ordered
<1>11. HeapOrdered'
  BY <1>1, <1>9, <1>10 DEF HeapOrdered
<1> QED
  BY <1>4, <1>6, <1>11

\* The calls that move nothing, and stuttering.
LEMMA OthersKeep ==
    ASSUME HeapInv,
           GetMin \/ Clear \/ ZeroAmount \/ UNCHANGED vars
              \/ \E k \in Keys : RemoveAbsent(k) \/ DecreaseKey(k)
    PROVE  HeapInv'
<1> USE DEF HeapInv
<1>1. UNCHANGED <<heap, key2idx, pc, cur>>
  BY DEF GetMin, Clear, ZeroAmount, RemoveAbsent, DecreaseKey, vars
<1>2. result' \in [ok : BOOLEAN, value : Values, key : Keys]
  <2>1. CASE GetMin
    <3>1. 0 \in Slots
      BY NumKeysAssumption DEF Slots
    <3>2. heap[0].value \in Values /\ heap[0].key \in Keys
      BY <3>1, SlotsFacts
    <3> QED
      BY <2>1, <3>2, AnswerType DEF GetMin
  <2> QED
    BY <2>1, AnswerType DEF Clear, ZeroAmount, RemoveAbsent, DecreaseKey, vars, TypeOK
<1>3. CASE n' = n
  <2>1. IndexExact' /\ HeapOrdered'
    BY <1>1, <1>3 DEF IndexExact, Contains, HeapOrdered, Ordered
  <2> QED
    BY <1>1, <1>2, <1>3, <2>1 DEF TypeOK, CurOK
<1>4. CASE Clear
  <2>1. n' = 0 /\ pc = "idle"
    BY <1>4 DEF Clear
  <2>2. IndexExact' /\ HeapOrdered'
    BY <1>1, <2>1, NumKeysAssumption
    DEF TypeOK, Slots, IndexExact, Contains, HeapOrdered, Ordered
  <2> QED
    BY <1>1, <1>2, <2>1, <2>2, NumKeysAssumption DEF TypeOK, CurOK
<1> QED
  BY <1>3, <1>4 DEF GetMin, ZeroAmount, RemoveAbsent, DecreaseKey, vars

LEMMA StepHeapInv == HeapInv /\ [Next]_vars => HeapInv'
<1> SUFFICES ASSUME HeapInv, [Next]_vars PROVE HeapInv'
  OBVIOUS
<1>1. CASE Sift
  BY <1>1, ShiftUpKeeps, ShiftDownKeeps, EndsKeep DEF Sift
<1>2. ASSUME NEW k \in Keys, NEW v \in Values,
             UpdateKey(k, v) \/ IncreaseKey(k, v) \/ CompDecreaseKey(k, v)
      PROVE  HeapInv'
  <2>1. ASSUME IncreaseKey(k, v) PROVE heap[key2idx[k]].value + v \in Values
    <3>1. key2idx[k] \in Slots
      BY DEF HeapInv, TypeOK
    <3>2. heap[key2idx[k]].value \in Nat
      BY <3>1, SlotsFacts DEF HeapInv
    <3> QED
      BY <2>1, <3>2, MaxValueAssumption DEF IncreaseKey, Values
  <2> QED
    BY <1>2, <2>1, SetValueKeeps DEF UpdateKey, IncreaseKey, CompDecreaseKey
<1>3. CASE Call
  BY <1>2, <1>3, InsertKeeps, RemoveKeeps, OthersKeep DEF Call
<1> QED
  BY <1>1, <1>3, OthersKeep DEF Next

LEMMA HeapInvAlways == Spec => []HeapInv
BY InitHeapInv, StepHeapInv, PTL DEF Spec

\* The variables have their types: in particular an insertion never goes past
\* the end of the arrays that reserve has allocated.
THEOREM TypeCorrect == Spec => []TypeOK
BY HeapInvAlways, PTL DEF HeapInv

\* The position array is the inverse of the heap, so that contains, remove and
\* the "key not found" CHECKs answer rightly.
THEOREM IndexIsExact == Spec => []IndexExact
BY HeapInvAlways, PTL DEF HeapInv

\* The heap is ordered, but for the one entry being moved; the position that
\* remove has just vacated stays still.
THEOREM HeapIsOrdered == Spec => []HeapOrdered
BY HeapInvAlways, PTL DEF HeapInv

-----------------------------------------------------------------------------
(* The heap implements the priority queue.                                 *)

\* The keys present, and the value of each, in this state and in the next one.
LEMMA PresentFacts ==
    ASSUME HeapInv
    PROVE  /\ Present \subseteq Keys
           /\ \A k \in Keys : k \in Present <=> Contains(k)
           /\ \A k \in Present : /\ key2idx[k] \in 0 .. n - 1
                                 /\ heap[key2idx[k]].key = k
           /\ DOMAIN Content = Present
           /\ \A k \in Present : Content[k] = heap[key2idx[k]].value
           /\ \A i \in 0 .. n - 1 : /\ heap[i].key \in Present
                                    /\ Content[heap[i].key] = heap[i].value
<1> USE DEF HeapInv
<1>1. Present \subseteq Keys /\ \A k \in Keys : k \in Present <=> Contains(k)
  <2>1. \A k : k \in Present <=> \E i \in 0 .. n - 1 : heap[i].key = k
    BY DEF Present
  <2>2. \A i \in 0 .. n - 1 : heap[i].key \in Keys
    BY SlotsFacts
  <2> QED
    BY <2>1, <2>2 DEF IndexExact
<1>2. \A k \in Present : key2idx[k] \in 0 .. n - 1 /\ heap[key2idx[k]].key = k
  BY DEF Present, IndexExact
<1>3. \A i \in 0 .. n - 1 : heap[i].key \in Present /\ key2idx[heap[i].key] = i
  BY DEF Present, IndexExact
<1>4. DOMAIN Content = Present /\ \A k \in Present : Content[k] = heap[key2idx[k]].value
  BY DEF Content
<1> QED
  BY <1>1, <1>2, <1>3, <1>4

\* A function on the keys present that agrees with every entry is the content.
LEMMA NextContent ==
    ASSUME HeapInv', NEW f, f = [k \in Present' |-> f[k]],
           \A i \in 0 .. n' - 1 : f[heap'[i].key] = heap'[i].value
    PROVE  Content' = f
<1>1. \A k \in Present' : key2idx'[k] \in 0 .. n' - 1 /\ heap'[key2idx'[k]].key = k
  BY DEF HeapInv, Present, IndexExact
<1>2. \A k \in Present' : f[k] = heap'[key2idx'[k]].value
  BY <1>1
<1>3. Content' = [k \in Present' |-> heap'[key2idx'[k]].value]
  BY DEF Content
<1> QED
  BY <1>2, <1>3

\* A swap changes no entry.
LEMMA SwapKeepsContent ==
    ASSUME HeapInv, HeapInv', NEW i \in 0 .. n - 1, NEW j \in 0 .. n - 1, i # j,
           Swap(i, j), n' = n
    PROVE  Content' = Content
<1> PICK f : f = Content
  OBVIOUS
<1>1. /\ heap'[i] = heap[j] /\ heap'[j] = heap[i]
      /\ \A x \in (0 .. n - 1) \ {i, j} : heap'[x] = heap[x]
  BY SwapKeepsIndex, SlotsFacts DEF HeapInv
<1>2. Present' = Present
  <2>1. \A x \in 0 .. n - 1 : \E y \in 0 .. n - 1 : heap'[x] = heap[y]
    BY <1>1
  <2>2. \A x \in 0 .. n - 1 : \E y \in 0 .. n - 1 : heap[x] = heap'[y]
    BY <1>1
  <2>3. Present' = {heap'[x].key : x \in 0 .. n - 1}
    BY DEF Present
  <2>4. Present' \subseteq Present
    BY <2>1, <2>3 DEF Present
  <2>5. Present \subseteq Present'
    BY <2>2, <2>3 DEF Present
  <2> QED
    BY <2>4, <2>5
<1>3. \A x \in 0 .. n - 1 : f[heap'[x].key] = heap'[x].value
  BY <1>1, PresentFacts
<1>4. f = [k \in Present' |-> f[k]]
  BY <1>2 DEF Content
<1> QED
  BY <1>3, <1>4, NextContent

\* The entry at the first position is one of least value.
LEMMA FirstIsLeast ==
    ASSUME HeapInv, pc = "idle", NEW i \in 0 .. n - 1
    PROVE  heap[0].value <= heap[i].value
<1> DEFINE T == {x \in 0 .. n - 1 : heap[x].value < heap[0].value}
<1> USE DEF HeapInv
<1>1. n \in Nat /\ 0 \in 0 .. n - 1 /\ \A x \in 0 .. n - 1 : heap[x].value \in Nat
  <2>1. n \in Nat /\ \A x \in 0 .. n - 1 : heap[x].value \in Nat
    BY SlotsFacts
  <2> QED
    BY <2>1
<1>2. SUFFICES ASSUME T # {} PROVE FALSE
  BY <1>1
<1>3. PICK x \in T : \A y \in T : x <= y
  <2>1. T \in SUBSET Nat
    BY <1>1
  <2> HIDE DEF T
  <2> QED
    BY <1>2, <2>1, LeastElement
<1>4. x \in 1 .. n - 1
  BY <1>1
<1>5. Parent(x) \in 0 .. n - 1 /\ Parent(x) < x /\ heap[Parent(x)].value <= heap[x].value
  BY <1>4, PositionFacts DEF HeapOrdered, Ordered
<1>6. Parent(x) \in T
  BY <1>1, <1>5
<1> QED
  BY <1>3, <1>5, <1>6, <1>1

LEMMA SiftKeepsContent ==
    ASSUME HeapInv, HeapInv', Sift
    PROVE  UNCHANGED Queue!vars
<1> USE DEF HeapInv
<1>1. CASE ShiftUp
  <2>1. cur \in 0 .. n - 1 /\ Parent(cur) \in 0 .. n - 1 /\ cur # Parent(cur)
    <3>1. cur # 0 /\ cur \in Nat /\ n \in Nat /\ cur <= n
      BY <1>1, SlotsFacts DEF ShiftUp, Rises, CurOK
    <3>2. Parent(cur) \in Nat /\ Parent(cur) < cur
      BY <3>1, ParentFacts
    <3>3. Parent(cur) \in Slots /\ cur \in Slots
      BY <3>1, <3>2, NumKeysAssumption DEF TypeOK, Slots
    <3>4. heap[Parent(cur)].value \in Nat /\ heap[cur].value \in Nat
      BY <3>3, SlotsFacts
    <3>5. cur # n
      BY <1>1, <3>1, <3>4 DEF ShiftUp, Rises, Below, HeapOrdered, Ordered
    <3> QED
      BY <3>1, <3>2, <3>5
  <2> QED
    BY <1>1, <2>1, SwapKeepsContent DEF ShiftUp, Queue!vars
<1>2. ASSUME NEW m \in Slots, ShiftDown(m) PROVE UNCHANGED Queue!vars
  <2>1. m \in 1 .. n - 1 /\ Parent(m) = cur /\ n \in Nat
    BY <1>2, SmallerFacts, SlotsFacts DEF ShiftDown
  <2>2. m \in 0 .. n - 1 /\ cur \in 0 .. n - 1 /\ cur # m
    BY <2>1, PositionFacts
  <2> QED
    BY <1>2, <2>2, SwapKeepsContent DEF ShiftDown, Queue!vars
<1>3. CASE ShiftUpEnds \/ ShiftDownEnds
  BY <1>3 DEF ShiftUpEnds, ShiftDownEnds, Queue!vars, Content, Present
<1> QED
  BY <1>1, <1>2, <1>3 DEF Sift

LEMMA InsertPuts ==
    ASSUME HeapInv, HeapInv', NEW k \in Keys, NEW v \in Values, Insert(v, k)
    PROVE  Queue!Put(k, v)
<1> USE DEF HeapInv
<1> PICK f : f = [j \in DOMAIN Content \cup {k} |-> IF j = k THEN v ELSE Content[j]]
  OBVIOUS
<1>1. /\ ~Contains(k) /\ n' = n + 1 /\ result' = Answer(TRUE)
      /\ heap' = [heap EXCEPT ![n] = [value |-> v, key |-> k]]
  BY DEF Insert
<1>2. n \in Nat /\ n \in Slots /\ \A i \in 0 .. n - 1 : i \in Slots
  BY <1>1, RoomForAnother, SlotsFacts, NumKeysAssumption DEF Slots
<1>3. /\ heap'[n] = [value |-> v, key |-> k]
      /\ \A i \in 0 .. n - 1 : heap'[i] = heap[i]
  BY <1>1, <1>2 DEF TypeOK
<1>4. k \notin DOMAIN Content /\ DOMAIN Content = Present
  BY <1>1, PresentFacts
<1>5. Present' = Present \cup {k}
  <2>1. \A i \in 0 .. n : i \in 0 .. n - 1 \/ i = n
    BY <1>2
  <2> QED
    BY <1>1, <1>2, <1>3, <2>1 DEF Present
<1>6. \A i \in 0 .. n' - 1 : f[heap'[i].key] = heap'[i].value
  <2>0. n' - 1 = n
    BY <1>1, <1>2
  <2> SUFFICES ASSUME NEW i \in 0 .. n PROVE f[heap'[i].key] = heap'[i].value
    BY <2>0
  <2>1. CASE i = n
    BY <1>3, <2>1
  <2>2. CASE i \in 0 .. n - 1
    BY <1>3, <1>4, <2>2, PresentFacts
  <2> QED
    BY <1>2, <2>1, <2>2
<1>7. f = [j \in Present' |-> f[j]]
  BY <1>4, <1>5
<1>8. Content' = f
  BY <1>1, <1>2, <1>6, <1>7, NextContent
<1> QED
  BY <1>1, <1>4, <1>8 DEF Queue!Put, Queue!Answer, Answer

LEMMA RemoveTakes ==
    ASSUME HeapInv, HeapInv', NEW k \in Keys, Remove(k)
    PROVE  Queue!Take(k)
<1> USE DEF HeapInv
<1> PICK c \in Nat : c = key2idx[k]
  BY NumKeysAssumption DEF TypeOK, Slots
<1> PICK f : f = Queue!Restrict(Content, DOMAIN Content \ {k})
  OBVIOUS
<1>1. /\ n \in Nat /\ n' = n - 1 /\ n > 0 /\ heap[c].key = k /\ c \in 0 .. n - 1
      /\ result' = Answer(TRUE)
  BY SlotsFacts DEF Remove, Contains
<1>2. /\ DOMAIN Content = Present /\ k \in Present
      /\ f = [j \in Present \ {k} |-> Content[j]]
  BY <1>1, PresentFacts DEF Queue!Restrict
<1>3. \A i \in (0 .. n - 1) \ {c} : heap[i].key # k
  BY <1>1 DEF IndexExact
<1>4. /\ \A i \in 0 .. n - 2 : \E j \in (0 .. n - 1) \ {c} : heap'[i] = heap[j]
      /\ \A j \in (0 .. n - 1) \ {c} : \E i \in 0 .. n - 2 : heap'[i] = heap[j]
  <2>1. CASE ~(n > 1)
    BY <1>1, <2>1
  <2>2. CASE n > 1
    <3>1. heap' = [heap EXCEPT ![c] = heap[n - 1]]
      BY <2>2 DEF Remove
    <3>2. \A i \in 0 .. n - 1 : i \in Slots
      BY SlotsFacts
    <3>3. /\ c # n - 1 => heap'[c] = heap[n - 1]
          /\ \A i \in (0 .. n - 1) \ {c} : heap'[i] = heap[i]
      BY <1>1, <3>1, <3>2 DEF TypeOK
    <3>4. ASSUME NEW i \in 0 .. n - 2
          PROVE  \E j \in (0 .. n - 1) \ {c} : heap'[i] = heap[j]
      <4>1. CASE i = c
        <5>1. n - 1 \in (0 .. n - 1) \ {c}
          BY <1>1, <4>1
        <5> QED
          BY <3>3, <4>1, <5>1
      <4>2. CASE i # c
        BY <1>1, <3>3, <4>2
      <4> QED
        BY <4>1, <4>2
    <3>5. ASSUME NEW j \in (0 .. n - 1) \ {c}
          PROVE  \E i \in 0 .. n - 2 : heap'[i] = heap[j]
      <4>1. CASE j = n - 1
        <5>1. c \in 0 .. n - 2
          BY <1>1, <4>1
        <5> QED
          BY <1>1, <3>3, <4>1, <5>1
      <4>2. CASE j # n - 1
        BY <1>1, <3>3, <4>2
      <4> QED
        BY <4>1, <4>2
    <3> QED
      BY <3>4, <3>5
  <2> QED
    BY <2>1, <2>2
<1>5. Present' = Present \ {k}
  <2>1. n' - 1 = n - 2
    BY <1>1
  <2>2. Present' = {heap'[i].key : i \in 0 .. n - 2}
    BY <2>1 DEF Present
  <2> QED
    BY <1>1, <1>3, <1>4, <2>2 DEF Present
<1>6. \A i \in 0 .. n' - 1 : f[heap'[i].key] = heap'[i].value
  <2> SUFFICES ASSUME NEW i \in 0 .. n - 2 PROVE f[heap'[i].key] = heap'[i].value
    BY <1>1
  <2>1. PICK j \in (0 .. n - 1) \ {c} : heap'[i] = heap[j]
    BY <1>4
  <2>2. heap[j].key \in Present \ {k} /\ Content[heap[j].key] = heap[j].value
    BY <1>3, PresentFacts
  <2> QED
    BY <1>2, <2>1, <2>2
<1>7. Content' = f
  BY <1>2, <1>5, <1>6, NextContent
<1> QED
  BY <1>1, <1>2, <1>7 DEF Queue!Take, Queue!Answer, Answer

LEMMA SetValueReplaces ==
    ASSUME HeapInv, HeapInv', NEW k \in Keys, NEW v \in Values, SetValue(k, v)
    PROVE  Queue!Replace(k, v)
<1> USE DEF HeapInv
<1> PICK c \in Nat : c = key2idx[k]
  BY NumKeysAssumption DEF TypeOK, Slots
<1> PICK f : f = [Content EXCEPT ![k] = v]
  OBVIOUS
<1>1. /\ n' = n /\ n \in Nat /\ c \in 0 .. n - 1 /\ heap[c].key = k
      /\ heap' = [heap EXCEPT ![c].value = v] /\ result' = Answer(TRUE)
  BY SlotsFacts DEF SetValue, Contains
<1>2. /\ DOMAIN Content = Present /\ k \in Present
      /\ f = [j \in Present |-> IF j = k THEN v ELSE Content[j]]
  BY <1>1, PresentFacts DEF Content
<1>3. \A i \in 0 .. n - 1 : i \in Slots
  BY SlotsFacts
<1>4. /\ heap'[c].value = v /\ heap'[c].key = k
      /\ \A i \in (0 .. n - 1) \ {c} : heap'[i] = heap[i] /\ heap[i].key # k
  <2>1. \A i \in (0 .. n - 1) \ {c} : heap[i].key # k
    BY <1>1 DEF IndexExact
  <2>2. c \in Slots /\ heap[c] = [value |-> heap[c].value, key |-> heap[c].key]
    BY <1>1, SlotsFacts
  <2> QED
    BY <1>1, <1>3, <2>1, <2>2 DEF TypeOK
<1>5. Present' = Present
  BY <1>1, <1>4 DEF Present
<1>6. \A i \in 0 .. n' - 1 : f[heap'[i].key] = heap'[i].value
  BY <1>1, <1>2, <1>4, PresentFacts
<1>7. Content' = f
  <2>1. f = [j \in Present' |-> f[j]]
    BY <1>2, <1>5
  <2> QED
    BY <1>6, <2>1, NextContent
<1> QED
  BY <1>1, <1>2, <1>7 DEF Queue!Replace, Queue!Answer, Answer

LEMMA GetMinGets ==
    ASSUME HeapInv, GetMin
    PROVE  Queue!GetMin
<1>1. UNCHANGED Content /\ pc = "idle" /\ n \in Nat
  BY SlotsFacts DEF GetMin, Content, Present, HeapInv
<1>2. CASE n > 0
  <2>1. /\ 0 \in 0 .. n - 1 /\ heap[0].key \in Present
        /\ Content[heap[0].key] = heap[0].value /\ DOMAIN Content = Present
    BY <1>1, <1>2, PresentFacts
  <2>2. \A j \in Present : heap[0].value <= Content[j]
    BY <1>1, PresentFacts, FirstIsLeast
  <2>3. heap[0].key \in Queue!Least
    BY <2>1, <2>2 DEF Queue!Least
  <2>4. result' = [ok |-> TRUE, value |-> Content[heap[0].key], key |-> heap[0].key]
    BY <1>2, <2>1 DEF GetMin
  <2> QED
    BY <1>1, <2>3, <2>4 DEF Queue!GetMin
<1>3. CASE ~(n > 0)
  <2>1. DOMAIN Content = {}
    BY <1>1, <1>3 DEF Content, Present
  <2> QED
    BY <1>1, <1>3, <2>1 DEF GetMin, Queue!GetMin, Queue!Answer, Answer
<1> QED
  BY <1>2, <1>3

\* The calls that leave the map alone, or empty it.
LEMMA OthersMap ==
    ASSUME HeapInv, Clear \/ ZeroAmount \/ \E k \in Keys : RemoveAbsent(k) \/ DecreaseKey(k)
    PROVE  Queue!Next
<1>1. CASE Clear
  <2>1. n' = 0 /\ result' = Answer(TRUE)
    BY <1>1 DEF Clear
  <2>2. Present' = {}
    BY <2>1 DEF Present
  <2> QED
    BY <2>1, <2>2 DEF Content, Queue!Next, Queue!Clear, Queue!Answer, Answer
<1>2. ASSUME NEW k \in Keys, RemoveAbsent(k) PROVE Queue!Next
  <2>1. UNCHANGED Content /\ ~Contains(k) /\ result' = Answer(FALSE)
    BY <1>2 DEF RemoveAbsent, Content, Present
  <2>2. k \notin DOMAIN Content
    BY <2>1, PresentFacts
  <2>3. Content' = Queue!Restrict(Content, DOMAIN Content \ {k})
    BY <2>1, <2>2 DEF Queue!Restrict, Content
  <2>4. result' = Queue!Answer(k \in DOMAIN Content)
    <3>1. (k \in DOMAIN Content) = FALSE
      BY <2>2
    <3> QED
      BY <2>1, <3>1 DEF Queue!Answer, Answer
  <2> QED
    BY <2>3, <2>4 DEF Queue!Next, Queue!Take
<1>3. CASE ZeroAmount \/ \E k \in Keys : DecreaseKey(k)
  BY <1>3 DEF ZeroAmount, DecreaseKey, Content, Present, Queue!Next, Queue!Ignored,
              Queue!Answer, Answer
<1> QED
  BY <1>1, <1>2, <1>3

LEMMA StepMaps == HeapInv /\ HeapInv' /\ [Next]_vars => [Queue!Next]_(Queue!vars)
<1> SUFFICES ASSUME HeapInv, HeapInv', [Next]_vars PROVE [Queue!Next]_(Queue!vars)
  OBVIOUS
<1>1. CASE Sift
  BY <1>1, SiftKeepsContent
<1>2. ASSUME NEW k \in Keys, NEW v \in Values,
             \/ Insert(v, k) \/ UpdateKey(k, v)
             \/ IncreaseKey(k, v) \/ CompDecreaseKey(k, v)
      PROVE  Queue!Next
  <2>1. ASSUME NEW w \in Values, SetValue(k, w) PROVE Queue!Next
    BY <2>1, SetValueReplaces DEF Queue!Next, Queue!Values, Values
  <2>2. ASSUME IncreaseKey(k, v) PROVE heap[key2idx[k]].value + v \in Values
    <3>1. key2idx[k] \in Slots
      BY DEF HeapInv, TypeOK
    <3>2. heap[key2idx[k]].value \in Nat
      BY <3>1, SlotsFacts DEF HeapInv
    <3> QED
      BY <2>2, <3>2, MaxValueAssumption DEF IncreaseKey, Values
  <2>3. CASE Insert(v, k)
    BY <2>3, InsertPuts DEF Queue!Next, Queue!Values, Values
  <2> QED
    BY <1>2, <2>1, <2>2, <2>3 DEF UpdateKey, IncreaseKey, CompDecreaseKey
<1>3. CASE Call
  <2>1. ASSUME NEW k \in Keys, Remove(k) PROVE Queue!Next
    BY <2>1, RemoveTakes DEF Queue!Next
  <2>2. CASE GetMin
    BY <2>2, GetMinGets DEF Queue!Next
  <2> QED
    BY <1>2, <1>3, <2>1, <2>2, OthersMap DEF Call
<1>4. CASE UNCHANGED vars
  BY <1>4 DEF vars, Queue!vars, Content, Present
<1> QED
  BY <1>1, <1>3, <1>4 DEF Next

\* The heap is a priority queue to its caller: get_min returns an entry of
\* least value after any sequence of calls, sifting loses or changes no entry,
\* and a removal takes out exactly its key.
THEOREM HeapIsQueue == Spec => QueueKept
<1>1. Init => Queue!Init
  <2> SUFFICES ASSUME Init PROVE Queue!Init
    OBVIOUS
  <2>1. Present = {}
    BY DEF Init, Present
  <2> QED
    BY <2>1 DEF Init, Content, Queue!Init, Queue!Answer, Answer
<1> QED
  BY <1>1, HeapInvAlways, StepMaps, PTL DEF Spec, QueueKept, Queue!Spec

=============================================================================
