------------------------------- MODULE MinHeap -------------------------------
(***************************************************************************)
(* NeMinHeap: a binary heap of <value, key> pairs in an array, with the    *)
(* position of every key in a second array.  An operation changes the map  *)
(* at once and then moves one entry up and down; each swap is a step, with *)
(* cur the position of the entry being moved.  Nothing shrinks the arrays: *)
(* what stands at n and above, and the positions of keys that are not in   *)
(* the heap, are leftovers of earlier calls.                               *)
(*                                                                         *)
(* split() calls reserve, insert, get_min, remove, clear and decrease_key. *)
(* Values are numbers up to MaxValue where the code has doubles.           *)
(***************************************************************************)
EXTENDS Integers

CONSTANTS NumKeys,   \* reserve(NumKeys): num_vertices
          MaxValue   \* bound on the values

ASSUME NumKeysAssumption == NumKeys \in Nat \ {0}
ASSUME MaxValueAssumption == MaxValue \in Nat

Keys == 0 .. NumKeys - 1
Values == 0 .. MaxValue
Slots == 0 .. NumKeys - 1
Entries == [value : Values, key : Keys]

VARIABLES n, heap, key2idx,
          pc,        \* "idle" between calls, "up" in shift_up, "down" in shift_down
          cur,       \* their argument (0 between calls)
          result     \* what the last call returned

vars == <<n, heap, key2idx, pc, cur, result>>

\* A flag, TRUE for void calls, and the entry found by get_min.
Answer(ok) == [ok |-> ok, value |-> 0, key |-> 0]

-----------------------------------------------------------------------------

\* reserve: the arrays are allocated, and zero.
Init ==
    /\ n = 0
    /\ heap = [i \in Slots |-> [value |-> 0, key |-> 0]]
    /\ key2idx = [k \in Keys |-> 0]
    /\ pc = "idle" /\ cur = 0
    /\ result = Answer(TRUE)

\* contains, and the CHECKs "key not found" of the operations on one key.
Contains(k) == key2idx[k] < n /\ heap[key2idx[k]].key = k

Below(i, j) == heap[i].value < heap[j].value

Swap(i, j) ==
    /\ heap' = [heap EXCEPT ![i] = heap[j], ![j] = heap[i]]
    /\ key2idx' = [key2idx EXCEPT ![heap[i].key] = key2idx[heap[j].key],
                                  ![heap[j].key] = key2idx[heap[i].key]]

Parent(i) == (i - 1) \div 2

-----------------------------------------------------------------------------
(* The two sifting loops (recursive calls in the code).                    *)

\* Mutated form: the first entry is taken to have no smaller entry above it.
RisesWrongly == cur > 1 /\ Below(cur, Parent(cur))

Rises == cur # 0 /\ Below(cur, Parent(cur))

ShiftUp ==
    /\ pc = "up"
    /\ Rises
    /\ Swap(cur, Parent(cur))
    /\ cur' = Parent(cur)
    /\ UNCHANGED <<n, pc, result>>

\* Every operation that calls shift_up calls shift_down on what it returns.
ShiftUpEnds ==
    /\ pc = "up"
    /\ ~Rises
    /\ pc' = "down"
    /\ UNCHANGED <<n, heap, key2idx, cur, result>>

\* Mutated form: only the left child is looked at.
LeftChild == {i \in {2 * cur + 1} : i < n /\ Below(i, cur)}

\* The left child if it is smaller, or the right one if it is smaller still.
Smaller ==
    LET l == 2 * cur + 1
        r == 2 * cur + 2
        m == IF l < n /\ Below(l, cur) THEN l ELSE cur
    IN  IF l < n /\ r < n /\ Below(r, m) THEN {r} ELSE {m} \ {cur}

ShiftDown(m) ==
    /\ pc = "down"
    /\ m \in Smaller
    /\ Swap(cur, m)
    /\ cur' = m
    /\ UNCHANGED <<n, pc, result>>

ShiftDownEnds ==
    /\ pc = "down"
    /\ Smaller = {}
    /\ pc' = "idle" /\ cur' = 0
    /\ UNCHANGED <<n, heap, key2idx, result>>

-----------------------------------------------------------------------------
(* The operations.                                                         *)

\* The caller inserts no key twice (HCNE, HeapIsFrontier).
Insert(v, k) ==
    /\ pc = "idle"
    /\ ~Contains(k)
    /\ heap' = [heap EXCEPT ![n] = [value |-> v, key |-> k]]
    /\ key2idx' = [key2idx EXCEPT ![k] = n]
    /\ n' = n + 1
    /\ cur' = n /\ pc' = "up"
    /\ result' = Answer(TRUE)

RemoveAbsent(k) ==
    /\ pc = "idle"
    /\ ~Contains(k)
    /\ result' = Answer(FALSE)
    /\ UNCHANGED <<n, heap, key2idx, pc, cur>>

\* Mutated form: the index of the moved entry is not updated.
LeftIndex(c) == key2idx

MovedIndex(c) == [key2idx EXCEPT ![heap[n - 1].key] = c]

\* The last entry takes the place of the removed one.  When the last entry
\* is itself removed, shift_up and shift_down run on a position outside.
Remove(k) ==
    LET c == key2idx[k] IN
    /\ pc = "idle"
    /\ Contains(k)
    /\ n' = n - 1
    /\ result' = Answer(TRUE)
    /\ IF n > 1
       THEN /\ heap' = [heap EXCEPT ![c] = heap[n - 1]]
            /\ key2idx' = MovedIndex(c)
            /\ cur' = c /\ pc' = "up"
       ELSE UNCHANGED <<heap, key2idx, cur, pc>>

GetMin ==
    /\ pc = "idle"
    /\ result' = IF n > 0
                 THEN [ok |-> TRUE, value |-> heap[0].value, key |-> heap[0].key]
                 ELSE Answer(FALSE)
    /\ UNCHANGED <<n, heap, key2idx, pc, cur>>

Clear ==
    /\ pc = "idle"
    /\ n' = 0
    /\ result' = Answer(TRUE)
    /\ UNCHANGED <<heap, key2idx, pc, cur>>

\* decrease_key returns once its CHECKs have found the key.
DecreaseKey(k) ==
    /\ pc = "idle"
    /\ Contains(k)
    /\ result' = Answer(TRUE)
    /\ UNCHANGED <<n, heap, key2idx, pc, cur>>

\* update_key and increase_key: nothing happens for an amount of 0.
ZeroAmount ==
    /\ pc = "idle"
    /\ result' = Answer(TRUE)
    /\ UNCHANGED <<n, heap, key2idx, pc, cur>>

SetValue(k, v) ==
    /\ pc = "idle"
    /\ Contains(k)
    /\ heap' = [heap EXCEPT ![key2idx[k]].value = v]
    /\ cur' = key2idx[k] /\ pc' = "up"
    /\ result' = Answer(TRUE)
    /\ UNCHANGED <<n, key2idx>>

UpdateKey(k, d) == d # 0 /\ SetValue(k, d)
IncreaseKey(k, d) ==
    /\ d # 0
    /\ heap[key2idx[k]].value + d <= MaxValue
    /\ SetValue(k, heap[key2idx[k]].value + d)
CompDecreaseKey(k, comp) == SetValue(k, comp)

-----------------------------------------------------------------------------

Sift ==
    \/ ShiftUp
    \/ ShiftUpEnds
    \/ \E m \in Slots : ShiftDown(m)
    \/ ShiftDownEnds

Call ==
    \/ \E k \in Keys, v \in Values : \/ Insert(v, k)
                                     \/ UpdateKey(k, v)
                                     \/ IncreaseKey(k, v)
                                     \/ CompDecreaseKey(k, v)
    \/ \E k \in Keys : RemoveAbsent(k) \/ Remove(k) \/ DecreaseKey(k)
    \/ GetMin
    \/ Clear
    \/ ZeroAmount

Next == Sift \/ Call

Spec == Init /\ [][Next]_vars

-----------------------------------------------------------------------------
(* Properties.                                                             *)

TypeOK ==
    /\ n \in 0 .. NumKeys
    /\ heap \in [Slots -> Entries]
    /\ key2idx \in [Keys -> Slots]
    /\ pc \in {"idle", "up", "down"}
    /\ cur \in Slots
    /\ result \in [ok : BOOLEAN, value : Values, key : Keys]

\* The position array is the inverse of the heap, in the middle of a sift
\* too: every swap moves both positions, and no key occurs twice.  A stale
\* position left by remove or clear never points at its own key again, so
\* that contains, remove and the "key not found" CHECKs answer rightly.
IndexExact ==
    /\ \A i \in 0 .. n - 1 : key2idx[heap[i].key] = i
    /\ \A k \in Keys : Contains(k) <=> \E i \in 0 .. n - 1 : heap[i].key = k

\* No entry is smaller than the one above it, but for the entry on its way
\* up or down; and the entry above that one is no greater than those below
\* it.  remove of the last entry runs shift_up on the position just vacated,
\* which stays still only because that entry was in order.
Ordered(i, j) == heap[i].value <= heap[j].value
HeapOrdered ==
    /\ \A i \in 1 .. n - 1 : \/ Ordered(Parent(i), i)
                             \/ pc = "up" /\ cur \in {i, Parent(i)}
                             \/ pc = "down" /\ cur = Parent(i)
    /\ pc # "idle" /\ cur # 0 =>
           /\ \A i \in 1 .. n - 1 : Parent(i) = cur => Ordered(Parent(cur), i)
           /\ cur = n \/ pc = "down" => Ordered(Parent(cur), cur)

\* The map the heap stands for.
Present == {heap[i].key : i \in 0 .. n - 1}
Content == [k \in Present |-> heap[key2idx[k]].value]

\* The heap is a priority queue to its caller: get_min returns an entry of
\* least value after any sequence of calls, sifting loses or changes no
\* entry, and a removal takes out exactly its key.
Queue == INSTANCE PriorityQueue WITH content <- Content
QueueKept == Queue!Spec
=============================================================================
