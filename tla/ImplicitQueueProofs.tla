------------------------ MODULE ImplicitQueueProofs -------------------------
(***************************************************************************)
(* Proofs about FreeList, as the threads of MCFreeList use it, and about   *)
(* ImplicitQueue, for any number of threads, blocks and elements: the free *)
(* list loses no block and hands none out twice; the counts by which       *)
(* consumers claim elements never let them take more than was enqueued;    *)
(* an element stays where the index says until it is taken; and no block   *)
(* is in two places at once.                                               *)
(***************************************************************************)
EXTENDS ImplicitQueue, MCFreeList, FoldProofs

-----------------------------------------------------------------------------
(* The free list: the inductive invariant.                                 *)

\* The reference each thread holds, and the block it alone may give on: one it adds or
\* pushes, or one it took off the list.
RefOf(t) ==
    IF fpc[t] \in {"next", "pop", "unref"} THEN Cand(t)
    ELSE IF fpc[t] = "drop" THEN Node(t) ELSE Null
Charge(t) ==
    IF fpc[t] \in {"add", "load", "link", "push", "unlink"} THEN Node(t)
    ELSE IF fpc[t] \in {"unref", "got"} THEN Cand(t) ELSE Null

Referring(b) == {t \in Threads : RefOf(t) = b}
Flagged(b) == freeListRefs[b] >= ShouldBeOn

\* The list's own reference is there from before the block is pushed until after it is
\* taken off.
Counted(t) == fpc[t] \in {"push", "unlink", "unref"}
OfList(b) == b \in OnList \/ \E t \in Threads : Counted(t) /\ Charge(t) = b

FreeListPlaces == {"idle", "add", "load", "link", "push", "unlink", "get", "ref", "next", "pop",
                   "unref", "drop", "got"}

FreeListLocals == [op : {"none", "add", "get"}, node : Blocks \cup {Null},
                   cand : Blocks \cup {Null}, old : Blocks \cup {Null}]

PlaceFits(at, l) ==
    /\ at \in {"add", "load", "link", "push", "unlink", "drop"} => l.node # Null
    /\ at \in {"ref", "next", "pop", "unref"} => l.cand # Null

ListTyped ==
    /\ freeListRefs \in [Blocks -> Nat]
    /\ freeListHead \in Blocks \cup {Null}
    /\ freeListNext \in [Blocks -> Blocks \cup {Null}]
    /\ fpc \in [Threads -> FreeListPlaces] /\ floc \in [Threads -> FreeListLocals]
    /\ \A t \in Threads : PlaceFits(fpc[t], floc[t])

\* The list from its end to its head.
Stack(n, s) ==
    /\ n \in Nat /\ s \in [0 .. n -> Blocks \cup {Null}]
    /\ s[0] = Null /\ s[n] = freeListHead
    /\ \A i \in 1 .. n : s[i] \in Blocks /\ freeListNext[s[i]] = s[i - 1]
    /\ \A i, j \in 1 .. n : s[i] = s[j] => i = j

HasStack == \E n, s : Stack(n, s)

\* A next pointer that a thread is about to act on is still the one it read or wrote.
NextKnown(t) ==
    /\ fpc[t] = "pop" => freeListNext[Cand(t)] = floc[t].old
    /\ fpc[t] = "push" => freeListNext[Node(t)] = floc[t].old

\* Every reference is counted.
RefsAddUp(b) ==
    freeListRefs[b] =
        (IF Flagged(b) THEN ShouldBeOn ELSE 0) + Cardinality(Referring(b))
            + (IF OfList(b) THEN 1 ELSE 0)

\* A block left to its holders to push is nowhere else, and somebody will push it.
FlagKept(b) ==
    Flagged(b) =>
        /\ b \notin OnList
        /\ \A t \in Threads : Charge(t) = b => fpc[t] \in {"load", "link"}
        /\ Referring(b) # {} \/ \E t \in Threads : Charge(t) = b

LinkAlone(t) == fpc[t] \in {"load", "link"} => Flagged(Node(t)) /\ Referring(Node(t)) = {}

\* A charge is one thread's, and not the list's.
ChargesApart ==
    /\ \A t, u \in Threads : Charge(t) = Charge(u) /\ Charge(t) # Null => t = u
    /\ \A t \in Threads : Charge(t) \notin OnList

\* held: the blocks that are in use outside the list, apart from those of an operation.
Apart(held) ==
    /\ held \subseteq Blocks
    /\ \A t \in Threads : Charge(t) \notin held
    /\ \A b \in held : b \notin OnList /\ ~Flagged(b)
    /\ \A b \in Blocks :
          b \in held \/ b \in OnList \/ Flagged(b) \/ \E t \in Threads : Charge(t) = b

ListCore ==
    /\ ListTyped /\ HasStack /\ ChargesApart
    /\ \A t \in Threads : NextKnown(t) /\ LinkAlone(t)
    /\ \A b \in Blocks : RefsAddUp(b) /\ FlagKept(b)

ListInv(held) == ListCore /\ Apart(held)

UserInv ==
    /\ holds \in [Threads -> SUBSET Blocks]
    /\ \A t, u \in Threads : holds[t] \cap holds[u] # {} => t = u
    /\ ListInv(UNION {holds[t] : t \in Threads})

-----------------------------------------------------------------------------
(* The stack.                                                              *)

\* Closed and OnList as functions of what they depend on.
Shut(head, next, T) == head \in T \cup {Null} /\ \A b \in T : next[b] \in T \cup {Null}
Least(head, next) == {b \in Blocks : \A T \in SUBSET Blocks : Shut(head, next, T) => b \in T}

LEMMA StackIsClosure ==
    ASSUME NEW head, NEW next, NEW n \in Nat, NEW s, s[0] = Null, s[n] = head,
           \A i \in 1 .. n : s[i] \in Blocks /\ next[s[i]] = s[i - 1]
    PROVE  Least(head, next) = {s[i] : i \in 1 .. n}
<1> DEFINE S == {s[i] : i \in 1 .. n}
<1>1. Null \notin Blocks
  BY FreeListAssumption
<1>2. S \in SUBSET Blocks
  BY <1>1
<1>3. Shut(head, next, S)
  <2>1. head \in S \cup {Null}
    <3>1. CASE n = 0
      BY <1>1, <3>1
    <3>2. CASE n # 0
      BY <1>1, <3>2
    <3> QED
      BY <3>1, <3>2
  <2>2. ASSUME NEW i \in 1 .. n PROVE next[s[i]] \in S \cup {Null}
    <3>1. next[s[i]] = s[i - 1]
      BY <1>1
    <3>2. CASE i = 1
      BY <1>1, <3>1, <3>2
    <3>3. CASE i # 1
      <4>1. i - 1 \in 1 .. n
        BY <1>1, <3>3
      <4> QED
        BY <3>1, <4>1
    <3> QED
      BY <3>2, <3>3
  <2> QED
    BY <2>1, <2>2 DEF Shut
<1>4. ASSUME NEW T \in SUBSET Blocks, Shut(head, next, T) PROVE S \subseteq T
  <2> DEFINE Good == {k \in Nat : k < n => s[n - k] \in T}
  <2>1. head \in T \cup {Null} /\ \A b \in T : next[b] \in T \cup {Null}
    BY <1>4 DEF Shut
  <2>2. 0 \in Good
    <3>1. n > 0 => s[n] \in Blocks
      BY <1>1
    <3> QED
      BY <1>1, <2>1, <3>1
  <2>3. ASSUME NEW k \in Nat, k \in Good PROVE k + 1 \in Good
    <3> SUFFICES ASSUME k + 1 < n PROVE s[n - (k + 1)] \in T
      OBVIOUS
    <3>1. s[n - k] \in T
      BY <2>3, <1>1
    <3>2. n - k \in 1 .. n /\ n - (k + 1) \in 1 .. n /\ (n - k) - 1 = n - (k + 1)
      BY <1>1
    <3>3. next[s[n - k]] = s[n - (k + 1)] /\ s[n - (k + 1)] \in Blocks
      BY <1>1, <3>2
    <3> QED
      BY <1>1, <2>1, <3>1, <3>3
  <2>4. Nat \subseteq Good
    <3> HIDE DEF Good
    <3> QED
      BY ONLY <2>2, <2>3, InductionOnNat
  <2>5. ASSUME NEW i \in 1 .. n PROVE s[i] \in T
    <3>1. n - i \in Nat /\ n - i < n /\ n - (n - i) = i
      BY <1>1
    <3> QED
      BY <2>4, <3>1
  <2> QED
    BY <2>5
<1> QED
  BY <1>2, <1>3, <1>4 DEF Least

LEMMA StackIsList ==
    ASSUME NEW n, NEW s
    PROVE  /\ Stack(n, s) => OnList = {s[i] : i \in 1 .. n}
           /\ Stack(n, s)' => OnList' = {s[i] : i \in 1 .. n}
<1>1. OnList = Least(freeListHead, freeListNext) /\ OnList' = Least(freeListHead', freeListNext')
  BY DEF OnList, Closed, Least, Shut
<1>2. ASSUME NEW head, NEW next, n \in Nat, s[0] = Null, s[n] = head,
             \A i \in 1 .. n : s[i] \in Blocks /\ next[s[i]] = s[i - 1]
      PROVE  Least(head, next) = {s[i] : i \in 1 .. n}
  BY <1>2, StackIsClosure
<1>3. Stack(n, s) => OnList = {s[i] : i \in 1 .. n}
  BY <1>1, <1>2 DEF Stack
<1>4. Stack(n, s)' => OnList' = {s[i] : i \in 1 .. n}
  BY <1>1, <1>2 DEF Stack
<1> QED
  BY <1>3, <1>4

LEMMA StackKept ==
    ASSUME ListTyped, HasStack, ListTyped', freeListHead' = freeListHead,
           \A b \in OnList : freeListNext'[b] = freeListNext[b]
    PROVE  HasStack' /\ OnList' = OnList
<1>1. PICK n, s : Stack(n, s)
  BY DEF HasStack
<1>2. OnList = {s[i] : i \in 1 .. n}
  BY <1>1, StackIsList
<1>3. Stack(n, s)'
  BY <1>1, <1>2 DEF Stack
<1>4. OnList' = {s[i] : i \in 1 .. n}
  BY <1>3, StackIsList
<1> QED
  BY <1>2, <1>3, <1>4 DEF HasStack

-----------------------------------------------------------------------------
(* References and charges.                                                 *)

LEMMA RemainderFacts ==
    ASSUME NEW k \in Nat, k < ShouldBeOn
    PROVE  k % ShouldBeOn = k /\ (ShouldBeOn + k) % ShouldBeOn = k
BY FreeListAssumption

LEMMA ReferringFacts ==
    ASSUME NEW b
    PROVE  /\ Cardinality(Threads) \in Nat /\ ShouldBeOn \in Nat
           /\ ShouldBeOn > Cardinality(Threads) + 1
           /\ Cardinality(Referring(b)) \in Nat
           /\ Cardinality(Referring(b)) <= Cardinality(Threads)
           /\ (Cardinality(Referring(b)) = 0 <=> Referring(b) = {})
           /\ IsFiniteSet(Referring(b))
<1>1. Referring(b) \in SUBSET Threads
  BY DEF Referring
<1> QED
  BY <1>1, FreeListAssumption, FS_Subset, FS_CardinalityType, FS_EmptySet

\* A step of one thread leaves the references and charges of the others.
OnlyMoves(t) ==
    \A u \in Threads \ {t} : fpc'[u] = fpc[u] /\ floc'[u] = floc[u]

LEMMA OthersStay ==
    ASSUME NEW t, OnlyMoves(t), NEW u \in Threads \ {t}
    PROVE  /\ RefOf(u)' = RefOf(u) /\ Charge(u)' = Charge(u) /\ Counted(u)' = Counted(u)
           /\ Node(u)' = Node(u) /\ Cand(u)' = Cand(u)
BY DEF OnlyMoves, RefOf, Charge, Counted, Node, Cand

LEMMA ReferringMoves ==
    ASSUME NEW t \in Threads, OnlyMoves(t), NEW b
    PROVE  /\ Cardinality(Referring(b)') =
                Cardinality(Referring(b)) - (IF RefOf(t) = b THEN 1 ELSE 0)
                   + (IF RefOf(t)' = b THEN 1 ELSE 0)
           /\ Cardinality(Referring(b)') \in Nat
           /\ Cardinality(Referring(b)') <= Cardinality(Threads)
           /\ (Cardinality(Referring(b)') = 0 <=> Referring(b)' = {})
<1> DEFINE rest == Referring(b) \ {t}
<1>1. \A u \in Threads \ {t} : RefOf(u)' = RefOf(u)
  BY OthersStay
<1>2. Referring(b)' = IF RefOf(t)' = b THEN rest \cup {t} ELSE rest
  BY <1>1 DEF Referring
<1>3. IsFiniteSet(Referring(b)) /\ (t \in Referring(b) <=> RefOf(t) = b)
  BY ReferringFacts DEF Referring
<1>4. IsFiniteSet(rest)
      /\ Cardinality(rest) = Cardinality(Referring(b)) - (IF RefOf(t) = b THEN 1 ELSE 0)
  BY <1>3, ReferringFacts, FS_RemoveElement
<1>5. Cardinality(rest \cup {t}) = Cardinality(rest) + 1
  BY <1>4, FS_AddElement
<1>6. Referring(b)' \in SUBSET Threads
  BY DEF Referring
<1>7. Cardinality(Referring(b)') \in Nat /\ Cardinality(Referring(b)') <= Cardinality(Threads)
      /\ (Cardinality(Referring(b)') = 0 <=> Referring(b)' = {})
  BY <1>6, FreeListAssumption, FS_Subset, FS_CardinalityType, FS_EmptySet
<1> QED
  BY <1>2, <1>4, <1>5, <1>7, ReferringFacts

-----------------------------------------------------------------------------
(* Steps.  A step of thread t concerns one block, x.                       *)

\* Whatever else there is to know of x after the step.
SettledAt(t, x, held) ==
    /\ NextKnown(t) /\ LinkAlone(t) /\ RefsAddUp(x) /\ FlagKept(x)
    /\ \A u \in Threads \ {t} : Charge(t) = x => Charge(u) # x
    /\ \A u \in Threads : Charge(u) = x => x \notin held \cup OnList
    /\ x \in held => x \notin OnList /\ ~Flagged(x)
    /\ x \in held \/ x \in OnList \/ Flagged(x) \/ \E u \in Threads : Charge(u) = x

CalmBut(t, x) ==
    /\ \A b \in Blocks \ {x} :
          /\ freeListRefs'[b] = freeListRefs[b] /\ freeListNext'[b] = freeListNext[b]
          /\ b \in OnList' <=> b \in OnList
          /\ RefOf(t)' = b <=> RefOf(t) = b
          /\ Charge(t)' = b <=> Charge(t) = b
          /\ Charge(t) = b => /\ Counted(t)' <=> Counted(t)
                              /\ fpc'[t] \in {"load", "link"} <=> fpc[t] \in {"load", "link"}
    /\ \/ freeListNext'[x] = freeListNext[x]
       \/ Referring(x) = {} /\ \A u \in Threads \ {t} : Charge(u) # x
    /\ \A u \in Threads \ {t} : Charge(u) = x => fpc[u] \notin {"load", "link"}

LEMMA StepKeeps ==
    ASSUME NEW held, ListInv(held), NEW t \in Threads, NEW x \in Blocks, NEW after,
           OnlyMoves(t), ListTyped', HasStack', CalmBut(t, x), SettledAt(t, x, after)',
           after \subseteq Blocks, \A b \in Blocks \ {x} : b \in after <=> b \in held
    PROVE  ListInv(after)'
<1>1. \A u \in Threads \ {t} :
         /\ RefOf(u)' = RefOf(u) /\ Charge(u)' = Charge(u) /\ Counted(u)' = Counted(u)
         /\ Node(u)' = Node(u) /\ Cand(u)' = Cand(u)
         /\ fpc'[u] = fpc[u] /\ floc'[u] = floc[u]
  BY OthersStay DEF OnlyMoves
<1>2. ASSUME NEW b \in Blocks \ {x}
      PROVE  /\ Referring(b)' = Referring(b)
             /\ OfList(b)' <=> OfList(b)
             /\ Flagged(b)' <=> Flagged(b)
             /\ \A u \in Threads : Charge(u)' = b <=> Charge(u) = b
  <2>1. Referring(b)' = Referring(b)
    BY <1>1 DEF Referring, CalmBut
  <2>2. \A u \in Threads : Charge(u)' = b <=> Charge(u) = b
    BY <1>1 DEF CalmBut
  <2>3. \A u \in Threads : Charge(u) = b => (Counted(u)' <=> Counted(u))
    BY <1>1 DEF CalmBut
  <2>4. OfList(b)' <=> OfList(b)
    BY <2>2, <2>3 DEF OfList, CalmBut
  <2>5. Flagged(b)' <=> Flagged(b)
    BY DEF Flagged, CalmBut
  <2> QED
    BY <2>1, <2>2, <2>4, <2>5
<1>3. ASSUME NEW b \in Blocks PROVE RefsAddUp(b)' /\ FlagKept(b)'
  <2>1. CASE b = x
    BY <2>1 DEF SettledAt
  <2>2. CASE b # x
    <3>1. RefsAddUp(b) /\ FlagKept(b)
      BY DEF ListInv, ListCore
    <3>2. RefsAddUp(b)'
      BY <1>2, <2>2, <3>1 DEF RefsAddUp, CalmBut
    <3>3. \A u \in Threads : Charge(u) = b /\ fpc[u] \in {"load", "link"}
                                => fpc'[u] \in {"load", "link"}
      BY <1>1, <2>2 DEF CalmBut
    <3>4. b \in OnList' <=> b \in OnList
      BY <2>2 DEF CalmBut
    <3>5. FlagKept(b)'
      BY <1>2, <2>2, <3>1, <3>3, <3>4 DEF FlagKept
    <3> QED
      BY <3>2, <3>5
  <2> QED
    BY <2>1, <2>2
<1>4. ASSUME NEW u \in Threads PROVE NextKnown(u)' /\ LinkAlone(u)'
  <2>1. CASE u = t
    BY <2>1 DEF SettledAt
  <2>2. CASE u # t
    <3>1. NextKnown(u) /\ LinkAlone(u)
      BY DEF ListInv, ListCore
    <3>2. Node(u) \in Blocks \cup {Null} /\ Cand(u) \in Blocks \cup {Null}
          /\ (fpc[u] \in {"load", "link", "push"} => Node(u) \in Blocks /\ Charge(u) = Node(u))
          /\ (fpc[u] = "pop" => Cand(u) \in Blocks /\ RefOf(u) = Cand(u))
      BY DEF ListInv, ListCore, ListTyped, FreeListLocals, PlaceFits, Node, Cand, Charge, RefOf
    <3>3. NextKnown(u)'
      <4>1. fpc[u] = "pop" => freeListNext'[Cand(u)] = freeListNext[Cand(u)]
        BY <3>2 DEF CalmBut, Referring
      <4>2. fpc[u] = "push" => freeListNext'[Node(u)] = freeListNext[Node(u)]
        BY <2>2, <3>2 DEF CalmBut
      <4> QED
        BY <1>1, <2>2, <3>1, <4>1, <4>2 DEF NextKnown
    <3>4. LinkAlone(u)'
      <4>1. SUFFICES ASSUME fpc[u] \in {"load", "link"}
                     PROVE  Flagged(Node(u))' /\ Referring(Node(u))' = {}
        BY <1>1, <2>2 DEF LinkAlone
      <4>2. Node(u) \in Blocks \ {x} /\ Node(u)' = Node(u)
        BY <1>1, <2>2, <3>2, <4>1 DEF CalmBut
      <4>3. Flagged(Node(u)) /\ Referring(Node(u)) = {}
        BY <3>1, <4>1 DEF LinkAlone
      <4>4. PICK b \in Blocks \ {x} : b = Node(u)
        BY <4>2
      <4>5. Flagged(b)' /\ Referring(b)' = {}
        BY <1>2, <4>3, <4>4
      <4> QED
        BY <4>2, <4>4, <4>5 DEF Flagged, Referring
    <3> QED
      BY <3>3, <3>4
  <2> QED
    BY <2>1, <2>2
<1>5. \A u \in Threads : Charge(u)' \in Blocks \cup {Null} /\ Charge(u) \in Blocks \cup {Null}
  BY FreeListAssumption DEF ListInv, ListCore, ListTyped, FreeListLocals, Charge, Node, Cand
<1>6. Null \notin OnList' /\ Null \notin after
  BY FreeListAssumption DEF OnList
<1>7. ChargesApart'
  <2>1. ASSUME NEW u \in Threads, NEW v \in Threads, Charge(u)' = Charge(v)', Charge(u)' # Null
        PROVE  u = v
    <3>1. CASE Charge(u)' = x
      <4>1. u # t /\ v # t => Charge(u) = Charge(v) /\ Charge(u) # Null
        BY <1>1, <2>1
      <4> QED
        BY <2>1, <3>1, <4>1 DEF SettledAt, ListInv, ListCore, ChargesApart
    <3>2. CASE Charge(u)' # x
      BY <1>2, <1>5, <2>1, <3>2 DEF ListInv, ListCore, ChargesApart
    <3> QED
      BY <3>1, <3>2
  <2>2. ASSUME NEW u \in Threads PROVE Charge(u)' \notin OnList'
    <3>1. CASE Charge(u)' = x
      BY <3>1 DEF SettledAt
    <3>2. CASE Charge(u)' # x
      BY <1>2, <1>5, <1>6, <3>2 DEF ListInv, ListCore, ChargesApart, CalmBut
    <3> QED
      BY <3>1, <3>2
  <2> QED
    BY <2>1, <2>2 DEF ChargesApart
<1>8. Apart(after)'
  <2>1. ASSUME NEW u \in Threads PROVE Charge(u)' \notin after
    <3>1. CASE Charge(u)' = x
      BY <3>1 DEF SettledAt
    <3>2. CASE Charge(u)' # x
      BY <1>2, <1>5, <1>6, <3>2 DEF ListInv, Apart
    <3> QED
      BY <3>1, <3>2
  <2>2. ASSUME NEW b \in after PROVE b \notin OnList' /\ ~Flagged(b)'
    BY <1>2 DEF SettledAt, ListInv, Apart, CalmBut
  <2>3. ASSUME NEW b \in Blocks
        PROVE  b \in after \/ b \in OnList' \/ Flagged(b)' \/ \E u \in Threads : Charge(u)' = b
    BY <1>2 DEF SettledAt, ListInv, Apart, CalmBut
  <2> QED
    BY <2>1, <2>2, <2>3 DEF Apart
<1> QED
  BY <1>3, <1>4, <1>7, <1>8 DEF ListInv, ListCore

LEMMA TypedMove ==
    ASSUME ListTyped, NEW t \in Threads, NEW to \in FreeListPlaces, NEW l \in FreeListLocals,
           fpc' = [fpc EXCEPT ![t] = to], floc' = [floc EXCEPT ![t] = l], PlaceFits(to, l),
           freeListRefs' \in [Blocks -> Nat], freeListHead' \in Blocks \cup {Null},
           freeListNext' \in [Blocks -> Blocks \cup {Null}]
    PROVE  ListTyped' /\ OnlyMoves(t) /\ fpc'[t] = to /\ floc'[t] = l
<1>1. fpc'[t] = to /\ floc'[t] = l /\ OnlyMoves(t)
  BY DEF ListTyped, OnlyMoves
<1>2. fpc' \in [Threads -> FreeListPlaces] /\ floc' \in [Threads -> FreeListLocals]
  BY DEF ListTyped
<1>3. \A u \in Threads : PlaceFits(fpc'[u], floc'[u])
  BY <1>1 DEF ListTyped, OnlyMoves
<1> QED
  BY <1>1, <1>2, <1>3 DEF ListTyped

\* The locals of a thread, and their changes.
LEMMA LocalFacts ==
    ASSUME ListTyped, NEW t \in Threads
    PROVE  /\ floc[t] \in FreeListLocals /\ fpc[t] \in FreeListPlaces
           /\ PlaceFits(fpc[t], floc[t])
           /\ Node(t) = floc[t].node /\ Cand(t) = floc[t].cand
           /\ Node(t) \in Blocks \cup {Null} /\ Cand(t) \in Blocks \cup {Null}
           /\ floc[t].old \in Blocks \cup {Null} /\ floc[t].op \in {"none", "add", "get"}
           /\ floc = [floc EXCEPT ![t] = floc[t]]
           /\ \A v \in Blocks \cup {Null} :
                 /\ [floc[t] EXCEPT !.old = v] \in FreeListLocals
                 /\ [floc[t] EXCEPT !.cand = v] \in FreeListLocals
BY DEF ListTyped, FreeListLocals, Node, Cand

LEMMA Outlook ==
    ASSUME NEW held, ListInv(held), NEW t \in Threads, NEW x \in Blocks
    PROVE  /\ freeListRefs[x] \in Nat /\ RefsAddUp(x)
           /\ Charge(t) = x =>
                /\ x \notin OnList /\ x \notin held
                /\ \A u \in Threads \ {t} : Charge(u) # x
                /\ OfList(x) <=> Counted(t)
                /\ Flagged(x) => fpc[t] \in {"load", "link"}
                /\ fpc[t] \in {"load", "link"} => Flagged(x) /\ Cardinality(Referring(x)) = 0
           /\ RefOf(t) = x =>
                /\ Cardinality(Referring(x)) >= 1
                /\ \A u \in Threads : Charge(u) = x => fpc[u] \notin {"load", "link"}
           /\ Flagged(x) => ~OfList(x) /\ x \notin held
<1>1. freeListRefs[x] \in Nat /\ RefsAddUp(x) /\ x # Null
  BY FreeListAssumption DEF ListInv, ListCore, ListTyped
<1>2. ASSUME NEW u \in Threads, Charge(u) = x, fpc[u] \in {"load", "link"}
      PROVE  Node(u) = x /\ Flagged(x) /\ Referring(x) = {}
    BY <1>2 DEF ListInv, ListCore, LinkAlone, Charge
<1>3. ASSUME Charge(t) = x
      PROVE  /\ x \notin OnList /\ x \notin held
             /\ \A u \in Threads \ {t} : Charge(u) # x
             /\ OfList(x) <=> Counted(t)
             /\ Flagged(x) => fpc[t] \in {"load", "link"}
             /\ fpc[t] \in {"load", "link"} => Flagged(x) /\ Cardinality(Referring(x)) = 0
  <2>1. x \notin OnList /\ x \notin held /\ \A u \in Threads \ {t} : Charge(u) # x
    BY <1>1, <1>3 DEF ListInv, ListCore, ChargesApart, Apart
  <2>2. Flagged(x) => fpc[t] \in {"load", "link"}
    BY <1>3 DEF ListInv, ListCore, FlagKept
  <2> QED
    BY <1>2, <1>3, <2>1, <2>2, ReferringFacts DEF OfList
<1>4. ASSUME RefOf(t) = x
      PROVE  /\ Cardinality(Referring(x)) >= 1
             /\ \A u \in Threads : Charge(u) = x => fpc[u] \notin {"load", "link"}
  <2>1. Referring(x) # {}
    BY <1>4 DEF Referring
  <2> QED
    BY <1>2, <2>1, ReferringFacts
<1>5. Flagged(x) => ~OfList(x) /\ x \notin held
  BY DEF ListInv, ListCore, FlagKept, OfList, Counted, Apart
<1> QED
  BY <1>1, <1>3, <1>4, <1>5

\* A step that only a thread itself sees.
LEMMA QuietStep ==
    ASSUME NEW held, ListInv(held), NEW t \in Threads, OnlyMoves(t), ListTyped', UNCHANGED list,
           RefOf(t)' = RefOf(t), Charge(t)' = Charge(t), Counted(t)' <=> Counted(t),
           fpc'[t] \in {"load", "link"} <=> fpc[t] \in {"load", "link"},
           NextKnown(t)'
    PROVE  ListInv(held)'
<1>1. \A u \in Threads : /\ RefOf(u)' = RefOf(u) /\ Charge(u)' = Charge(u)
                         /\ Counted(u)' <=> Counted(u)
                         /\ fpc'[u] \in {"load", "link"} <=> fpc[u] \in {"load", "link"}
  BY OthersStay DEF OnlyMoves
<1>2. OnList' = OnList /\ HasStack'
  BY StackKept DEF ListInv, ListCore, list
<1>3. /\ \A b \in Blocks : Referring(b)' = Referring(b) /\ OfList(b)' <=> OfList(b)
      /\ \A b : Flagged(b)' <=> Flagged(b)
  BY <1>1, <1>2 DEF Referring, OfList, Flagged, list
<1>4. ASSUME NEW b \in Blocks PROVE RefsAddUp(b)' /\ FlagKept(b)'
  <2>1. RefsAddUp(b) /\ FlagKept(b) /\ freeListRefs' = freeListRefs
    BY DEF ListInv, ListCore, list
  <2>2. Referring(b)' = Referring(b) /\ (OfList(b)' <=> OfList(b)) /\ (Flagged(b)' <=> Flagged(b))
    BY <1>1, <1>2 DEF Referring, OfList, Flagged, list
  <2>3. RefsAddUp(b)'
    BY <2>1, <2>2 DEF RefsAddUp
  <2>4. FlagKept(b)'
    BY <1>1, <1>2, <2>1, <2>2 DEF FlagKept
  <2> QED
    BY <2>3, <2>4
<1>5. ASSUME NEW u \in Threads PROVE NextKnown(u)' /\ LinkAlone(u)'
  <2>1. NextKnown(u)'
    BY DEF ListInv, ListCore, NextKnown, OnlyMoves, list, Node, Cand
  <2>2. LinkAlone(u)'
    <3>1. SUFFICES ASSUME fpc'[u] \in {"load", "link"}
                   PROVE  Flagged(Node(u))' /\ Referring(Node(u))' = {}
      BY DEF LinkAlone
    <3>2. Charge(u)' = Node(u)' /\ Charge(u) = Node(u) /\ LinkAlone(u)
          /\ fpc[u] \in {"load", "link"}
      BY <1>1, <3>1 DEF Charge, ListInv, ListCore
    <3>3. Node(u)' = Node(u) /\ Flagged(Node(u)) /\ Referring(Node(u)) = {}
      BY <1>1, <3>2 DEF LinkAlone
    <3> QED
      BY <1>1, <3>3 DEF Flagged, Referring, list
  <2> QED
    BY <2>1, <2>2
<1>6. ChargesApart'
  BY <1>1, <1>2 DEF ListInv, ListCore, ChargesApart
<1>7. Apart(held)'
  BY <1>1, <1>2, <1>3 DEF ListInv, Apart
<1> QED
  BY <1>2, <1>4, <1>5, <1>6, <1>7 DEF ListInv, ListCore

\* Nothing happens on the list.
LEMMA ListStutter ==
    ASSUME NEW held, ListInv(held), UNCHANGED freeList
    PROVE  ListInv(held)'
<1>1. UNCHANGED <<freeListHead, freeListRefs, freeListNext, fpc, floc>>
  BY DEF freeList, list
<1>2. ListTyped' /\ HasStack' /\ OnList' = OnList
  BY <1>1 DEF ListInv, ListCore, ListTyped, HasStack, Stack, OnList, Closed
<1>3. \A t : /\ RefOf(t)' = RefOf(t) /\ Charge(t)' = Charge(t) /\ (Counted(t)' <=> Counted(t))
            /\ (NextKnown(t)' <=> NextKnown(t)) /\ Node(t)' = Node(t)
  BY <1>1 DEF RefOf, Charge, Counted, NextKnown, Node, Cand
<1>4. \A b : Referring(b)' = Referring(b) /\ (Flagged(b)' <=> Flagged(b))
            /\ (OfList(b)' <=> OfList(b))
  BY <1>1, <1>2, <1>3 DEF Referring, Flagged, OfList
<1>5. ASSUME NEW b \in Blocks PROVE RefsAddUp(b)' /\ FlagKept(b)'
  <2>1. RefsAddUp(b) /\ FlagKept(b)
    BY DEF ListInv, ListCore
  <2> QED
    BY <1>1, <1>2, <1>3, <1>4, <2>1 DEF RefsAddUp, FlagKept
<1>6. ASSUME NEW t \in Threads PROVE NextKnown(t)' /\ LinkAlone(t)'
  <2>1. NextKnown(t) /\ LinkAlone(t)
    BY DEF ListInv, ListCore
  <2>2. LinkAlone(t)'
    BY <1>1, <1>3, <1>4, <2>1 DEF LinkAlone, Flagged, Referring
  <2> QED
    BY <1>3, <2>1, <2>2
<1>7. ChargesApart' /\ Apart(held)'
  BY <1>2, <1>3, <1>4 DEF ListInv, ListCore, ChargesApart, Apart
<1> QED
  BY <1>2, <1>5, <1>6, <1>7 DEF ListInv, ListCore

LEMMA LoadHeadStep ==
    ASSUME NEW held, ListInv(held), NEW t \in Threads, LoadHead(t)
    PROVE  ListInv(held)'
<1> DEFINE l == [floc[t] EXCEPT !.old = freeListHead]
<1>1. /\ ListTyped /\ freeListHead \in Blocks \cup {Null}
      /\ fpc[t] = "load" /\ fpc' = [fpc EXCEPT ![t] = "link"] /\ floc' = [floc EXCEPT ![t] = l]
      /\ UNCHANGED list
  BY DEF ListInv, ListCore, ListTyped, LoadHead, At, Local
<1>2. l \in FreeListLocals /\ l.node = floc[t].node /\ PlaceFits("link", l)
      /\ "link" \in FreeListPlaces
  BY <1>1, LocalFacts DEF FreeListLocals, PlaceFits, FreeListPlaces
<1>3. ListTyped' /\ OnlyMoves(t) /\ fpc'[t] = "link" /\ floc'[t] = l
  BY <1>1, <1>2, TypedMove DEF ListTyped, list
<1> HIDE DEF l
<1>4. RefOf(t)' = RefOf(t) /\ Charge(t)' = Charge(t) /\ (Counted(t)' <=> Counted(t))
      /\ NextKnown(t)'
  BY <1>1, <1>2, <1>3 DEF RefOf, Charge, Counted, NextKnown, Node, Cand
<1> QED
  BY <1>1, <1>3, <1>4, QuietStep

LEMMA GetHeadStep ==
    ASSUME NEW held, ListInv(held), NEW t \in Threads, GetHead(t)
    PROVE  ListInv(held)'
<1> DEFINE l == [floc[t] EXCEPT !.cand = freeListHead]
           to == IF freeListHead = Null THEN "got" ELSE "ref"
<1>1. /\ ListTyped /\ freeListHead \in Blocks \cup {Null}
      /\ fpc[t] = "get" /\ fpc' = [fpc EXCEPT ![t] = to] /\ floc' = [floc EXCEPT ![t] = l]
      /\ UNCHANGED list
  BY DEF ListInv, ListCore, ListTyped, GetHead, At, Local
<1>2. l \in FreeListLocals /\ l.cand = freeListHead /\ PlaceFits(to, l) /\ to \in FreeListPlaces
  BY <1>1, LocalFacts DEF FreeListLocals, PlaceFits, FreeListPlaces
<1>3. ListTyped' /\ OnlyMoves(t) /\ fpc'[t] = to /\ floc'[t] = l
  BY <1>1, <1>2, TypedMove DEF ListTyped, list
<1> HIDE DEF l
<1>4. RefOf(t)' = RefOf(t) /\ Charge(t)' = Charge(t) /\ (Counted(t)' <=> Counted(t))
      /\ NextKnown(t)'
  BY <1>1, <1>2, <1>3 DEF RefOf, Charge, Counted, NextKnown, Node, Cand
<1> QED
  BY <1>1, <1>3, <1>4, QuietStep

LEMMA NextStep ==
    ASSUME NEW held, ListInv(held), NEW t \in Threads, Next_(t)
    PROVE  ListInv(held)'
<1> DEFINE l == [floc[t] EXCEPT !.old = freeListNext[Cand(t)]]
<1>1. /\ ListTyped /\ fpc[t] = "next" /\ fpc' = [fpc EXCEPT ![t] = "pop"]
      /\ floc' = [floc EXCEPT ![t] = l] /\ UNCHANGED list
  BY DEF ListInv, ListCore, Next_, At, Local
<1>2. Cand(t) \in Blocks /\ freeListNext[Cand(t)] \in Blocks \cup {Null}
  BY <1>1, LocalFacts DEF PlaceFits, ListTyped
<1>3. l \in FreeListLocals /\ l.cand = floc[t].cand /\ l.old = freeListNext[Cand(t)]
      /\ PlaceFits("pop", l) /\ "pop" \in FreeListPlaces
  BY <1>1, <1>2, LocalFacts DEF FreeListLocals, PlaceFits, FreeListPlaces
<1>4. ListTyped' /\ OnlyMoves(t) /\ fpc'[t] = "pop" /\ floc'[t] = l
  BY <1>1, <1>3, TypedMove DEF ListTyped, list
<1> HIDE DEF l
<1>5. RefOf(t)' = RefOf(t) /\ Charge(t)' = Charge(t) /\ (Counted(t)' <=> Counted(t))
      /\ NextKnown(t)'
  BY <1>1, <1>3, <1>4, LocalFacts DEF RefOf, Charge, Counted, NextKnown, Node, Cand, list
<1> QED
  BY <1>1, <1>4, <1>5, QuietStep

LEMMA CallTryGetStep ==
    ASSUME NEW held, ListInv(held), NEW t \in Threads, CallTryGet(t)
    PROVE  ListInv(held)'
<1> DEFINE l == [NoLocals EXCEPT !.op = "get"]
<1>1. /\ ListTyped /\ fpc[t] = "idle" /\ fpc' = [fpc EXCEPT ![t] = "get"]
      /\ floc' = [floc EXCEPT ![t] = l] /\ UNCHANGED list
  BY DEF ListInv, ListCore, CallTryGet, At
<1>2. l \in FreeListLocals /\ PlaceFits("get", l) /\ "get" \in FreeListPlaces
  BY DEF FreeListLocals, PlaceFits, FreeListPlaces, NoLocals
<1>3. ListTyped' /\ OnlyMoves(t) /\ fpc'[t] = "get" /\ floc'[t] = l
  BY <1>1, <1>2, TypedMove DEF ListTyped, list
<1> HIDE DEF l
<1>4. RefOf(t)' = RefOf(t) /\ Charge(t)' = Charge(t) /\ (Counted(t)' <=> Counted(t))
      /\ NextKnown(t)'
  BY <1>1, <1>3 DEF RefOf, Charge, Counted, NextKnown
<1> QED
  BY <1>1, <1>3, <1>4, QuietStep

LEMMA ContinueFacts ==
    ASSUME ListTyped, NEW t \in Threads
    PROVE  /\ Continue(t) \in FreeListPlaces /\ PlaceFits(Continue(t), floc[t])
           /\ fpc'[t] = Continue(t) /\ floc'[t] = floc[t] =>
                 /\ RefOf(t)' = Null /\ Charge(t)' = Null /\ ~Counted(t)'
                 /\ NextKnown(t)' /\ LinkAlone(t)'
                 /\ fpc'[t] \notin {"load", "link"}
BY DEF Continue, FreeListPlaces, PlaceFits, RefOf, Charge, Counted, NextKnown, LinkAlone, Node, Cand

\* What the step leaves of a block the thread has charge of.
LEMMA ChargeMoves ==
    ASSUME NEW held, ListInv(held), NEW t \in Threads, NEW x \in Blocks, Charge(t) = x,
           OnlyMoves(t)
    PROVE  /\ \A u \in Threads \ {t} : Charge(u)' # x
           /\ OfList(x)' <=> x \in OnList' \/ (Counted(t)' /\ Charge(t)' = x)
           /\ (\E u \in Threads : Charge(u)' = x) <=> Charge(t)' = x
<1>1. \A u \in Threads \ {t} : Charge(u)' # x
  BY OthersStay, Outlook
<1> QED
  BY <1>1 DEF OfList

LEMMA AddStep ==
    ASSUME NEW held, ListInv(held), NEW t \in Threads, Add(t)
    PROVE  ListInv(held)'
<1> DEFINE to == IF freeListRefs[Node(t)] = 0 THEN "load" ELSE "idle"
<1>1. /\ ListTyped /\ HasStack /\ fpc[t] = "add" /\ fpc' = [fpc EXCEPT ![t] = to]
      /\ freeListRefs' = [freeListRefs EXCEPT ![Node(t)] = @ + ShouldBeOn]
      /\ freeListHead' = freeListHead /\ freeListNext' = freeListNext /\ floc' = floc
  BY DEF ListInv, ListCore, Add, At, Refs
<1>2. PICK x \in Blocks : x = Node(t)
  BY <1>1, LocalFacts DEF PlaceFits
<1>3. Charge(t) = x /\ RefOf(t) = Null /\ ~Counted(t) /\ x # Null /\ Null \notin Blocks
  BY <1>1, <1>2, FreeListAssumption DEF Charge, RefOf, Counted
<1>4. freeListRefs[x] = Cardinality(Referring(x)) /\ x \notin OnList /\ x \notin held
  <2>1. ~Flagged(x) /\ ~OfList(x) /\ x \notin OnList /\ x \notin held /\ RefsAddUp(x)
    BY <1>1, <1>3, Outlook
  <2> QED
    BY <2>1, ReferringFacts DEF RefsAddUp
<1>5. ListTyped' /\ OnlyMoves(t) /\ fpc'[t] = to /\ floc'[t] = floc[t]
  <2>1. to \in FreeListPlaces /\ PlaceFits(to, floc[t])
    BY <1>1, LocalFacts DEF FreeListPlaces, PlaceFits
  <2>2. floc' = [floc EXCEPT ![t] = floc[t]] /\ floc[t] \in FreeListLocals
    BY <1>1, LocalFacts
  <2>3. freeListRefs' \in [Blocks -> Nat]
    BY <1>1, <1>2, FreeListAssumption DEF ListTyped
  <2> QED
    BY <1>1, <2>1, <2>2, <2>3, TypedMove DEF ListTyped
<1>6. HasStack' /\ OnList' = OnList
  BY <1>1, <1>5, StackKept
<1>7. freeListRefs'[x] = Cardinality(Referring(x)) + ShouldBeOn
      /\ \A b \in Blocks \ {x} : freeListRefs'[b] = freeListRefs[b]
  BY <1>1, <1>2, <1>4 DEF ListTyped
<1>8. /\ RefOf(t)' = Null /\ ~Counted(t)' /\ NextKnown(t)'
      /\ Charge(t)' = IF freeListRefs[x] = 0 THEN x ELSE Null
      /\ Cardinality(Referring(x)') = Cardinality(Referring(x))
      /\ (Cardinality(Referring(x)') = 0 <=> Referring(x)' = {})
  <2>1. RefOf(t)' = Null /\ ~Counted(t)' /\ NextKnown(t)'
        /\ Charge(t)' = IF freeListRefs[x] = 0 THEN x ELSE Null
    BY <1>1, <1>2, <1>5 DEF RefOf, Counted, NextKnown, Charge, Node
  <2> QED
    BY <1>3, <1>5, <2>1, ReferringMoves, ReferringFacts
<1>9. CalmBut(t, x)
  <2>1. \A b \in Blocks \ {x} :
           /\ RefOf(t)' = b <=> RefOf(t) = b
           /\ Charge(t)' = b <=> Charge(t) = b
           /\ Charge(t) # b
    BY <1>3, <1>8
  <2>2. \A u \in Threads \ {t} : Charge(u) # x
    BY <1>3, Outlook
  <2> QED
    BY <1>1, <1>6, <1>7, <2>1, <2>2 DEF CalmBut
<1>10. SettledAt(t, x, held)'
  <2>1. Flagged(x)' /\ ~OfList(x)' /\ RefsAddUp(x)'
    BY <1>3, <1>4, <1>5, <1>6, <1>7, <1>8, ChargeMoves, ReferringFacts DEF Flagged, RefsAddUp
  <2>2. LinkAlone(t)'
    BY <1>1, <1>2, <1>4, <1>5, <1>8, <2>1 DEF LinkAlone, Node
  <2>3. FlagKept(x)'
    <3>1. \A u \in Threads : Charge(u)' = x => u = t /\ fpc'[u] \in {"load", "link"}
      BY <1>2, <1>3, <1>5, <1>8, ChargeMoves
    <3>2. Referring(x)' # {} \/ Charge(t)' = x
      BY <1>4, <1>8, ReferringFacts
    <3> QED
      BY <1>4, <1>6, <3>1, <3>2 DEF FlagKept
  <2> QED
    BY <1>3, <1>4, <1>5, <1>6, <1>8, <2>1, <2>2, <2>3, ChargeMoves DEF SettledAt
<1>11. held \subseteq Blocks
  BY DEF ListInv, Apart
<1> QED
  BY <1>5, <1>6, <1>9, <1>10, <1>11, StepKeeps

LEMMA StackPushed ==
    ASSUME ListTyped, HasStack, ListTyped', NEW x \in Blocks, x \notin OnList,
           freeListHead' = x, freeListNext' = freeListNext, freeListNext[x] = freeListHead
    PROVE  HasStack' /\ OnList' = OnList \cup {x}
<1>1. PICK n, s : Stack(n, s)
  BY DEF HasStack
<1>2. OnList = {s[i] : i \in 1 .. n} /\ n \in Nat
  <2>1. n \in Nat
    BY <1>1 DEF Stack
  <2>2. OnList = {s[i] : i \in 1 .. n}
    BY <1>1, StackIsList
  <2> QED
    BY <2>1, <2>2
<1> DEFINE z == [i \in 0 .. n + 1 |-> IF i = n + 1 THEN x ELSE s[i]]
<1>3. /\ z \in [0 .. n + 1 -> Blocks \cup {Null}] /\ z[n + 1] = x
      /\ \A i \in 0 .. n : z[i] = s[i]
  BY <1>1, <1>2 DEF Stack
<1>4. n + 1 \in Nat /\ z[0] = Null /\ z[n + 1] = freeListHead'
  BY <1>1, <1>2, <1>3 DEF Stack
<1>5. \A i \in 1 .. n + 1 : z[i] \in Blocks /\ freeListNext'[z[i]] = z[i - 1]
  <2>1. \A i \in 1 .. n : z[i] \in Blocks /\ freeListNext'[z[i]] = z[i - 1]
    BY <1>1, <1>2, <1>3 DEF Stack
  <2>2. z[n + 1] \in Blocks /\ freeListNext'[z[n + 1]] = z[n]
    BY <1>1, <1>2, <1>3 DEF Stack
  <2>3. 1 .. n + 1 = (1 .. n) \cup {n + 1}
    BY <1>2
  <2>4. ASSUME NEW i \in 1 .. n + 1 PROVE z[i] \in Blocks /\ freeListNext'[z[i]] = z[i - 1]
    <3> HIDE DEF z
    <3>1. CASE i = n + 1
      <4>1. i - 1 = n
        BY <1>2, <3>1
      <4> QED
        BY <2>2, <3>1, <4>1
    <3>2. CASE i # n + 1
      BY <2>1, <2>3, <3>2
    <3> QED
      BY <3>1, <3>2
  <2> QED
    BY <2>4
<1>6. ASSUME NEW i \in 1 .. n + 1, NEW j \in 1 .. n + 1, z[i] = z[j] PROVE i = j
  <2>1. \A k \in 1 .. n : z[k] = s[k] /\ z[k] # x
    BY <1>2, <1>3
  <2>2. i \in 1 .. n /\ j \in 1 .. n => i = j
    BY <1>1, <1>6, <2>1 DEF Stack
  <2> QED
    BY <1>2, <1>3, <1>6, <2>1, <2>2
<1>7. Stack(n + 1, z)'
  BY <1>3, <1>4, <1>5, <1>6 DEF Stack
<1>8. OnList' = {z[i] : i \in 1 .. n + 1}
  <2> HIDE DEF z
  <2> QED
    BY <1>7, StackIsList
<1>9. {z[i] : i \in 1 .. n + 1} = {s[i] : i \in 1 .. n} \cup {x}
  BY <1>2, <1>3
<1> QED
  BY <1>2, <1>7, <1>8, <1>9 DEF HasStack

LEMMA StackPopped ==
    ASSUME ListTyped, HasStack, ListTyped', NEW x \in Blocks, freeListHead = x,
           freeListHead' = freeListNext[x], freeListNext' = freeListNext
    PROVE  HasStack' /\ x \in OnList /\ OnList' = OnList \ {x}
<1>1. PICK n, s : Stack(n, s)
  BY DEF HasStack
<1>2. OnList = {s[i] : i \in 1 .. n} /\ n \in Nat
  <2>1. n \in Nat
    BY <1>1 DEF Stack
  <2>2. OnList = {s[i] : i \in 1 .. n}
    BY <1>1, StackIsList
  <2> QED
    BY <2>1, <2>2
<1>3. n >= 1 /\ s[n] = x /\ freeListNext[x] = s[n - 1]
  <2>1. n # 0
    BY <1>1, FreeListAssumption DEF Stack
  <2> QED
    BY <1>1, <1>2, <2>1 DEF Stack
<1> DEFINE z == [i \in 0 .. n - 1 |-> s[i]]
<1>4. n - 1 \in Nat /\ z \in [0 .. n - 1 -> Blocks \cup {Null}] /\ \A i \in 0 .. n - 1 : z[i] = s[i]
  BY <1>1, <1>2, <1>3 DEF Stack
<1>5. /\ z[0] = Null /\ z[n - 1] = freeListHead'
      /\ \A i \in 1 .. n - 1 : z[i] \in Blocks /\ freeListNext'[z[i]] = z[i - 1]
      /\ \A i, j \in 1 .. n - 1 : z[i] = z[j] => i = j
  BY <1>1, <1>2, <1>3, <1>4 DEF Stack
<1>6. Stack(n - 1, z)'
  BY <1>4, <1>5 DEF Stack
<1>7. OnList' = {z[i] : i \in 1 .. n - 1}
  <2> HIDE DEF z
  <2> QED
    BY <1>6, StackIsList
<1>8. \A i \in 1 .. n - 1 : s[i] # x
  BY <1>1, <1>2, <1>3 DEF Stack
<1>9. {s[i] : i \in 1 .. n} = {z[i] : i \in 1 .. n - 1} \cup {x}
  <2>1. 1 .. n = (1 .. n - 1) \cup {n}
    BY <1>2, <1>3
  <2>2. \A i \in 1 .. n - 1 : z[i] = s[i]
    BY <1>2, <1>4
  <2> HIDE DEF z
  <2> QED
    BY <1>3, <2>1, <2>2
<1>10. \A i \in 1 .. n - 1 : z[i] # x
  BY <1>2, <1>4, <1>8
<1>11. HasStack'
  BY <1>6 DEF HasStack
<1> HIDE DEF z
<1> QED
  BY <1>2, <1>7, <1>9, <1>10, <1>11

LEMMA LinkStep ==
    ASSUME NEW held, ListInv(held), NEW t \in Threads, Link(t)
    PROVE  ListInv(held)'
<1>1. /\ ListTyped /\ HasStack /\ fpc[t] = "link" /\ fpc' = [fpc EXCEPT ![t] = "push"]
      /\ freeListNext' = [freeListNext EXCEPT ![Node(t)] = floc[t].old]
      /\ freeListRefs' = [freeListRefs EXCEPT ![Node(t)] = 1]
      /\ freeListHead' = freeListHead /\ floc' = floc
  BY DEF ListInv, ListCore, Link, At
<1>2. PICK x \in Blocks : x = Node(t)
  BY <1>1, LocalFacts DEF PlaceFits
<1>3. Charge(t) = x /\ RefOf(t) = Null /\ Null \notin Blocks
  BY <1>1, <1>2, FreeListAssumption DEF Charge, RefOf
<1>4. /\ x \notin OnList /\ x \notin held /\ Cardinality(Referring(x)) = 0
      /\ Referring(x) = {} /\ \A u \in Threads \ {t} : Charge(u) # x
  BY <1>1, <1>3, Outlook, ReferringFacts
<1>5. ListTyped' /\ OnlyMoves(t) /\ fpc'[t] = "push" /\ floc'[t] = floc[t]
  <2>1. "push" \in FreeListPlaces /\ PlaceFits("push", floc[t])
    BY <1>1, LocalFacts DEF FreeListPlaces, PlaceFits
  <2>2. /\ floc' = [floc EXCEPT ![t] = floc[t]] /\ floc[t] \in FreeListLocals
        /\ floc[t].old \in Blocks \cup {Null}
    BY <1>1, LocalFacts
  <2>3. freeListRefs' \in [Blocks -> Nat] /\ freeListNext' \in [Blocks -> Blocks \cup {Null}]
    BY <1>1, <1>2, <2>2 DEF ListTyped
  <2> QED
    BY <1>1, <2>1, <2>2, <2>3, TypedMove DEF ListTyped
<1>6. /\ freeListRefs'[x] = 1 /\ freeListNext'[x] = floc[t].old
      /\ \A b \in Blocks \ {x} : freeListRefs'[b] = freeListRefs[b]
                                 /\ freeListNext'[b] = freeListNext[b]
  BY <1>1, <1>2 DEF ListTyped
<1>7. HasStack' /\ OnList' = OnList
  <2>1. \A b \in OnList : b \in Blocks \ {x}
    BY <1>4 DEF OnList
  <2> QED
    BY <1>1, <1>5, <1>6, <2>1, StackKept
<1>8. /\ RefOf(t)' = Null /\ Counted(t)' /\ NextKnown(t)' /\ LinkAlone(t)' /\ Charge(t)' = x
      /\ Cardinality(Referring(x)') = 0 /\ Referring(x)' = {}
  <2>1. RefOf(t)' = Null /\ Counted(t)' /\ NextKnown(t)' /\ LinkAlone(t)' /\ Charge(t)' = x
    BY <1>1, <1>2, <1>5, <1>6 DEF RefOf, Counted, NextKnown, LinkAlone, Charge, Node
  <2> QED
    BY <1>3, <1>4, <1>5, <2>1, ReferringMoves
<1>9. CalmBut(t, x)
  <2>1. \A b \in Blocks \ {x} :
           /\ RefOf(t)' = b <=> RefOf(t) = b
           /\ Charge(t)' = b <=> Charge(t) = b
           /\ Charge(t) # b
    BY <1>3, <1>8
  <2> QED
    BY <1>4, <1>6, <1>7, <2>1 DEF CalmBut
<1>10. SettledAt(t, x, held)'
  <2>1. ~Flagged(x)' /\ OfList(x)' /\ RefsAddUp(x)'
    BY <1>3, <1>5, <1>6, <1>8, ChargeMoves, ReferringFacts DEF Flagged, RefsAddUp
  <2> QED
    BY <1>3, <1>4, <1>5, <1>7, <1>8, <2>1, ChargeMoves DEF SettledAt, FlagKept
<1>11. held \subseteq Blocks
  BY DEF ListInv, Apart
<1> QED
  BY <1>5, <1>7, <1>9, <1>10, <1>11, StepKeeps

LEMMA PushStep ==
    ASSUME NEW held, ListInv(held), NEW t \in Threads, Push(t)
    PROVE  ListInv(held)'
<1>1. /\ ListTyped /\ HasStack /\ fpc[t] = "push" /\ freeListHead \in Blocks \cup {Null}
      /\ freeListRefs' = freeListRefs /\ freeListNext' = freeListNext
  BY DEF ListInv, ListCore, ListTyped, Push, At
<1>2. PICK x \in Blocks : x = Node(t)
  BY <1>1, LocalFacts DEF PlaceFits
<1>3. Charge(t) = x /\ RefOf(t) = Null /\ Counted(t) /\ Null \notin Blocks
  BY <1>1, <1>2, FreeListAssumption DEF Charge, RefOf, Counted
<1>4. CASE freeListHead = floc[t].old
  <2>1. /\ fpc' = [fpc EXCEPT ![t] = Continue(t)] /\ floc' = [floc EXCEPT ![t] = floc[t]]
        /\ freeListHead' = x
    BY <1>1, <1>2, <1>4, LocalFacts DEF Push, At
  <2>2. /\ x \notin OnList /\ x \notin held /\ OfList(x) /\ ~Flagged(x) /\ RefsAddUp(x)
        /\ \A u \in Threads \ {t} : Charge(u) # x
    BY <1>1, <1>3, Outlook
  <2>3. freeListNext[x] = freeListHead
    BY <1>1, <1>2, <1>4 DEF ListInv, ListCore, NextKnown
  <2>4. ListTyped' /\ OnlyMoves(t) /\ fpc'[t] = Continue(t) /\ floc'[t] = floc[t]
    BY <1>1, <2>1, ContinueFacts, LocalFacts, TypedMove DEF ListTyped
  <2>5. HasStack' /\ OnList' = OnList \cup {x}
    BY <1>1, <2>1, <2>2, <2>3, <2>4, StackPushed
  <2>6. /\ RefOf(t)' = Null /\ Charge(t)' = Null /\ ~Counted(t)' /\ NextKnown(t)' /\ LinkAlone(t)'
        /\ Cardinality(Referring(x)') = Cardinality(Referring(x))
    BY <1>1, <1>3, <2>4, ContinueFacts, ReferringMoves, ReferringFacts
  <2>7. CalmBut(t, x)
    <3>1. \A b \in Blocks \ {x} :
             /\ RefOf(t)' = b <=> RefOf(t) = b
             /\ Charge(t)' = b <=> Charge(t) = b
             /\ Charge(t) # b
      BY <1>3, <2>6
    <3> QED
      BY <1>1, <2>2, <2>5, <3>1 DEF CalmBut
  <2>8. SettledAt(t, x, held)'
    <3>1. ~Flagged(x)' /\ OfList(x)' /\ RefsAddUp(x)'
      BY <1>1, <2>2, <2>5, <2>6 DEF Flagged, OfList, RefsAddUp
    <3>2. \A u \in Threads : Charge(u)' # x
      BY <1>3, <2>4, <2>6, ChargeMoves
    <3> QED
      BY <2>2, <2>5, <2>6, <3>1, <3>2 DEF SettledAt, FlagKept
  <2>9. held \subseteq Blocks
    BY DEF ListInv, Apart
  <2> QED
    BY <2>4, <2>5, <2>7, <2>8, <2>9, StepKeeps
<1>5. CASE freeListHead # floc[t].old
  <2> DEFINE l == [floc[t] EXCEPT !.old = freeListHead]
  <2>1. /\ fpc' = [fpc EXCEPT ![t] = "unlink"] /\ floc' = [floc EXCEPT ![t] = l]
        /\ UNCHANGED list
    BY <1>5, <1>1 DEF Push, At, Local, list
  <2>2. l \in FreeListLocals /\ l.node = floc[t].node /\ PlaceFits("unlink", l)
        /\ "unlink" \in FreeListPlaces
    BY <1>1, LocalFacts DEF FreeListLocals, PlaceFits, FreeListPlaces
  <2>3. ListTyped' /\ OnlyMoves(t) /\ fpc'[t] = "unlink" /\ floc'[t] = l
    BY <1>1, <2>1, <2>2, TypedMove DEF ListTyped, list
  <2> HIDE DEF l
  <2>4. RefOf(t)' = RefOf(t) /\ Charge(t)' = Charge(t) /\ (Counted(t)' <=> Counted(t))
        /\ NextKnown(t)'
    BY <1>1, <2>2, <2>3 DEF RefOf, Charge, Counted, NextKnown, Node, Cand
  <2> QED
    BY <1>1, <2>1, <2>3, <2>4, QuietStep
<1> QED
  BY <1>4, <1>5

LEMMA UnlinkStep ==
    ASSUME NEW held, ListInv(held), NEW t \in Threads, Unlink(t)
    PROVE  ListInv(held)'
<1> DEFINE to == IF freeListRefs[Node(t)] = 1 THEN "link" ELSE Continue(t)
<1>1. /\ ListTyped /\ HasStack /\ fpc[t] = "unlink" /\ fpc' = [fpc EXCEPT ![t] = to]
      /\ freeListRefs' = [freeListRefs EXCEPT ![Node(t)] = @ + (ShouldBeOn - 1)]
      /\ freeListHead' = freeListHead /\ freeListNext' = freeListNext /\ floc' = floc
  BY DEF ListInv, ListCore, Unlink, At, Refs
<1>2. PICK x \in Blocks : x = Node(t)
  BY <1>1, LocalFacts DEF PlaceFits
<1>3. Charge(t) = x /\ RefOf(t) = Null /\ Counted(t) /\ x # Null /\ Null \notin Blocks
  BY <1>1, <1>2, FreeListAssumption DEF Charge, RefOf, Counted
<1>4. freeListRefs[x] = Cardinality(Referring(x)) + 1 /\ x \notin OnList /\ x \notin held
  <2>1. ~Flagged(x) /\ OfList(x) /\ x \notin OnList /\ x \notin held /\ RefsAddUp(x)
    BY <1>1, <1>3, Outlook
  <2> QED
    BY <2>1, ReferringFacts DEF RefsAddUp
<1>5. ListTyped' /\ OnlyMoves(t) /\ fpc'[t] = to /\ floc'[t] = floc[t]
  <2>1. to \in FreeListPlaces /\ PlaceFits(to, floc[t])
    BY <1>1, LocalFacts, ContinueFacts DEF FreeListPlaces, PlaceFits
  <2>2. floc' = [floc EXCEPT ![t] = floc[t]] /\ floc[t] \in FreeListLocals
    BY <1>1, LocalFacts
  <2>3. freeListRefs' \in [Blocks -> Nat]
    BY <1>1, <1>2, ReferringFacts DEF ListTyped
  <2> HIDE DEF to
  <2> QED
    BY <1>1, <2>1, <2>2, <2>3, TypedMove DEF ListTyped
<1>6. HasStack' /\ OnList' = OnList
  BY <1>1, <1>5, StackKept
<1>7. freeListRefs'[x] = Cardinality(Referring(x)) + ShouldBeOn
      /\ \A b \in Blocks \ {x} : freeListRefs'[b] = freeListRefs[b]
  BY <1>1, <1>2, <1>4, ReferringFacts DEF ListTyped
<1>8. /\ RefOf(t)' = Null /\ ~Counted(t)' /\ NextKnown(t)'
      /\ Charge(t)' = IF freeListRefs[x] = 1 THEN x ELSE Null
      /\ Charge(t)' = x => fpc'[t] = "link"
      /\ fpc'[t] \in {"load", "link"} => freeListRefs[x] = 1
      /\ Node(t)' = x
      /\ Cardinality(Referring(x)') = Cardinality(Referring(x))
      /\ (Cardinality(Referring(x)') = 0 <=> Referring(x)' = {})
  <2>1. /\ RefOf(t)' = Null /\ ~Counted(t)' /\ NextKnown(t)' /\ Node(t)' = x
        /\ Charge(t)' = IF freeListRefs[x] = 1 THEN x ELSE Null
        /\ Charge(t)' = x => fpc'[t] = "link"
        /\ fpc'[t] \in {"load", "link"} => freeListRefs[x] = 1
    <3>1. Node(t)' = x
      BY <1>2, <1>5 DEF Node
    <3>2. CASE freeListRefs[x] = 1
      BY <1>1, <1>2, <1>5, <3>1, <3>2 DEF RefOf, Counted, NextKnown, Charge
    <3>3. CASE freeListRefs[x] # 1
      BY <1>1, <1>2, <1>3, <1>5, <3>1, <3>3, ContinueFacts
    <3> QED
      BY <3>2, <3>3
  <2> QED
    BY <1>3, <1>5, <2>1, ReferringMoves, ReferringFacts
<1>9. CalmBut(t, x)
  <2>1. \A b \in Blocks \ {x} :
           /\ RefOf(t)' = b <=> RefOf(t) = b
           /\ Charge(t)' = b <=> Charge(t) = b
           /\ Charge(t) # b
    BY <1>3, <1>8
  <2>2. \A u \in Threads \ {t} : Charge(u) # x
    BY <1>3, Outlook
  <2> QED
    BY <1>1, <1>6, <1>7, <2>1, <2>2 DEF CalmBut
<1>10. SettledAt(t, x, held)'
  <2>1. Flagged(x)' /\ ~OfList(x)' /\ RefsAddUp(x)'
    BY <1>3, <1>4, <1>5, <1>6, <1>7, <1>8, ChargeMoves, ReferringFacts DEF Flagged, RefsAddUp
  <2>2. LinkAlone(t)'
    <3>1. SUFFICES ASSUME fpc'[t] \in {"load", "link"}
                   PROVE  Flagged(Node(t))' /\ Referring(Node(t))' = {}
      BY DEF LinkAlone
    <3>2. Referring(x)' = {}
      BY <1>4, <1>8, <3>1, ReferringFacts
    <3> QED
      BY <1>8, <2>1, <3>2 DEF Flagged, Referring
  <2>3. FlagKept(x)'
    <3>1. \A u \in Threads : Charge(u)' = x => u = t /\ fpc'[u] \in {"load", "link"}
      BY <1>3, <1>5, <1>8, ChargeMoves
    <3>2. Referring(x)' # {} \/ Charge(t)' = x
      BY <1>4, <1>8, ReferringFacts
    <3> QED
      BY <1>4, <1>6, <3>1, <3>2 DEF FlagKept
  <2> QED
    BY <1>3, <1>4, <1>5, <1>6, <1>8, <2>1, <2>2, <2>3, ChargeMoves DEF SettledAt
<1>11. held \subseteq Blocks
  BY DEF ListInv, Apart
<1> QED
  BY <1>5, <1>6, <1>9, <1>10, <1>11, StepKeeps

LEMMA RefStep ==
    ASSUME NEW held, ListInv(held), NEW t \in Threads, Ref(t)
    PROVE  ListInv(held)'
<1> DEFINE got == freeListRefs[Cand(t)] % ShouldBeOn # 0
<1>1. /\ ListTyped /\ HasStack /\ fpc[t] = "ref"
      /\ fpc' = [fpc EXCEPT ![t] = IF got THEN "next" ELSE "get"]
      /\ freeListRefs' = IF got THEN [freeListRefs EXCEPT ![Cand(t)] = @ + 1] ELSE freeListRefs
      /\ freeListHead' = freeListHead /\ freeListNext' = freeListNext
      /\ floc' = [floc EXCEPT ![t] = floc[t]]
  BY LocalFacts DEF ListInv, ListCore, Ref, At, Refs
<1>2. PICK x \in Blocks : x = Cand(t)
  BY <1>1, LocalFacts DEF PlaceFits
<1>3. Charge(t) = Null /\ RefOf(t) = Null /\ ~Counted(t) /\ x # Null /\ Null \notin Blocks
  BY <1>1, <1>2, FreeListAssumption DEF Charge, RefOf, Counted
<1>4. freeListRefs' \in [Blocks -> Nat]
  BY <1>1, <1>2 DEF ListTyped
<1>5. /\ ListTyped' /\ OnlyMoves(t) /\ floc'[t] = floc[t]
      /\ fpc'[t] = IF got THEN "next" ELSE "get"
  <2>1. {"next", "get"} \subseteq FreeListPlaces
        /\ PlaceFits("next", floc[t]) /\ PlaceFits("get", floc[t])
    BY <1>1, LocalFacts DEF FreeListPlaces, PlaceFits
  <2>2. CASE got
    BY <1>1, <1>4, <2>1, <2>2, LocalFacts, TypedMove DEF ListTyped
  <2>3. CASE ~got
    BY <1>1, <1>4, <2>1, <2>3, LocalFacts, TypedMove DEF ListTyped
  <2> QED
    BY <2>2, <2>3
<1>6. NextKnown(t)' /\ LinkAlone(t)' /\ Charge(t)' = Null /\ ~Counted(t)'
      /\ RefOf(t)' = IF got THEN x ELSE Null
  BY <1>2, <1>5 DEF NextKnown, LinkAlone, Charge, Counted, RefOf, Cand
<1>7. CASE ~got
  BY <1>1, <1>3, <1>5, <1>6, <1>7, QuietStep DEF list
<1>8. CASE got
  <2> DEFINE k == Cardinality(Referring(x)) + (IF OfList(x) THEN 1 ELSE 0)
  <2>1. /\ k \in Nat /\ k < ShouldBeOn /\ freeListRefs[x] \in Nat
        /\ freeListRefs[x] = (IF Flagged(x) THEN ShouldBeOn ELSE 0) + k
    BY Outlook, ReferringFacts DEF RefsAddUp
  <2>2. k # 0
    BY <1>2, <1>8, <2>1, RemainderFacts, FreeListAssumption
  <2>3. Flagged(x) => Cardinality(Referring(x)) >= 1
    BY <2>2, Outlook, ReferringFacts
  <2>4. /\ freeListRefs'[x] = freeListRefs[x] + 1
        /\ \A b \in Blocks \ {x} : freeListRefs'[b] = freeListRefs[b]
    BY <1>1, <1>2, <1>8 DEF ListTyped
  <2>5. HasStack' /\ OnList' = OnList
    BY <1>1, <1>5, StackKept
  <2>6. \A u \in Threads : Charge(u)' = Charge(u) /\ (Counted(u)' <=> Counted(u))
                           /\ (u # t => fpc'[u] = fpc[u])
    BY <1>3, <1>5, <1>6, OthersStay DEF OnlyMoves
  <2>7. OfList(x)' <=> OfList(x)
    BY <2>5, <2>6 DEF OfList
  <2>8. /\ Cardinality(Referring(x)') = Cardinality(Referring(x)) + 1
        /\ Cardinality(Referring(x)') <= Cardinality(Threads) /\ Referring(x)' # {}
    BY <1>3, <1>5, <1>6, <1>8, ReferringMoves, ReferringFacts
  <2>9. (Flagged(x)' <=> Flagged(x)) /\ RefsAddUp(x)'
    <3>1. Flagged(x)' <=> Flagged(x)
      BY <2>1, <2>4, <2>8, ReferringFacts DEF Flagged
    <3> QED
      BY <2>1, <2>4, <2>7, <2>8, <3>1, ReferringFacts DEF RefsAddUp
  <2>10. CalmBut(t, x)
    <3>1. \A b \in Blocks \ {x} :
             /\ RefOf(t)' = b <=> RefOf(t) = b
             /\ Charge(t)' = b <=> Charge(t) = b
             /\ Charge(t) # b
      BY <1>3, <1>6
    <3>2. ASSUME NEW u \in Threads, Charge(u) = x, fpc[u] \in {"load", "link"} PROVE FALSE
      <4>1. Flagged(x) /\ Cardinality(Referring(x)) = 0
        BY <3>2, Outlook
      <4> QED
        BY <2>3, <4>1, ReferringFacts
    <3> QED
      <4>1. \A u \in Threads \ {t} : Charge(u) = x => fpc[u] \notin {"load", "link"}
        BY <3>2
      <4>2. freeListNext' = freeListNext /\ OnList' = OnList
        BY <1>1, <2>5
      <4> QED
        BY <2>4, <3>1, <4>1, <4>2 DEF CalmBut
  <2>11. SettledAt(t, x, held)'
    <3>1. FlagKept(x) /\ ChargesApart /\ Apart(held)
      BY DEF ListInv, ListCore
    <3>2. FlagKept(x)'
      BY <1>3, <2>5, <2>6, <2>8, <2>9, <3>1 DEF FlagKept
    <3>3. \A u \in Threads : Charge(u)' = x => x \notin held \cup OnList'
      BY <2>5, <2>6, <3>1 DEF ChargesApart, Apart
    <3>4. x \in held => x \notin OnList' /\ ~Flagged(x)'
      BY <2>5, <2>9, <3>1 DEF Apart
    <3>5. x \in held \/ x \in OnList' \/ Flagged(x)' \/ \E u \in Threads : Charge(u)' = x
      BY <2>5, <2>6, <2>9, <3>1 DEF Apart
    <3> QED
      BY <1>3, <1>6, <2>9, <3>2, <3>3, <3>4, <3>5 DEF SettledAt
  <2>12. held \subseteq Blocks
    BY DEF ListInv, Apart
  <2> QED
    BY <1>5, <2>5, <2>10, <2>11, <2>12, StepKeeps
<1> QED
  BY <1>7, <1>8

LEMMA PopStep ==
    ASSUME NEW held, ListInv(held), NEW t \in Threads, Pop(t)
    PROVE  ListInv(held)'
<1>1. /\ ListTyped /\ HasStack /\ fpc[t] = "pop" /\ freeListHead \in Blocks \cup {Null}
      /\ freeListRefs' = freeListRefs /\ freeListNext' = freeListNext
  BY DEF ListInv, ListCore, ListTyped, Pop, At
<1>2. PICK x \in Blocks : x = Cand(t)
  BY <1>1, LocalFacts DEF PlaceFits
<1>3. Charge(t) = Null /\ RefOf(t) = x /\ ~Counted(t) /\ x # Null /\ Null \notin Blocks
  BY <1>1, <1>2, FreeListAssumption DEF Charge, RefOf, Counted
<1>4. CASE freeListHead = Cand(t)
  <2>1. /\ fpc' = [fpc EXCEPT ![t] = "unref"] /\ floc' = [floc EXCEPT ![t] = floc[t]]
        /\ freeListHead' = freeListNext[x]
    BY <1>1, <1>2, <1>4, LocalFacts DEF Pop, At, ListInv, ListCore, NextKnown
  <2>2. freeListNext[x] \in Blocks \cup {Null}
    BY <1>1 DEF ListTyped
  <2>3. ListTyped' /\ OnlyMoves(t) /\ fpc'[t] = "unref" /\ floc'[t] = floc[t]
    <3>1. "unref" \in FreeListPlaces /\ PlaceFits("unref", floc[t])
      BY <1>1, LocalFacts DEF FreeListPlaces, PlaceFits
    <3> QED
      BY <1>1, <2>1, <2>2, <3>1, LocalFacts, TypedMove DEF ListTyped
  <2>4. HasStack' /\ x \in OnList /\ OnList' = OnList \ {x}
    BY <1>1, <1>2, <1>4, <2>1, <2>3, StackPopped
  <2>5. /\ RefOf(t)' = x /\ Charge(t)' = x /\ Counted(t)' /\ NextKnown(t)' /\ LinkAlone(t)'
        /\ Cardinality(Referring(x)') = Cardinality(Referring(x))
    <3>1. RefOf(t)' = x /\ Charge(t)' = x /\ Counted(t)' /\ NextKnown(t)' /\ LinkAlone(t)'
      BY <1>2, <2>3 DEF RefOf, Charge, Counted, NextKnown, LinkAlone, Cand
    <3> QED
      BY <1>3, <2>3, <3>1, ReferringMoves, ReferringFacts
  <2>6. RefsAddUp(x) /\ ~Flagged(x) /\ x \notin held
        /\ \A u \in Threads : Charge(u) # x
    BY <2>4, Outlook DEF ListInv, ListCore, FlagKept, ChargesApart, Apart
  <2>7. CalmBut(t, x)
    <3>1. \A b \in Blocks \ {x} :
             /\ RefOf(t)' = b <=> RefOf(t) = b
             /\ Charge(t)' = b <=> Charge(t) = b
             /\ Charge(t) # b
      BY <1>3, <2>5
    <3> QED
      BY <1>1, <2>4, <2>6, <3>1 DEF CalmBut
  <2>8. SettledAt(t, x, held)'
    <3>1. \A u \in Threads \ {t} : Charge(u)' # x
      BY <2>3, <2>6, OthersStay
    <3>2. ~Flagged(x)' /\ OfList(x)' /\ RefsAddUp(x)'
      BY <1>1, <2>4, <2>5, <2>6 DEF Flagged, OfList, RefsAddUp
    <3> QED
      BY <2>4, <2>5, <2>6, <3>1, <3>2 DEF SettledAt, FlagKept
  <2>9. held \subseteq Blocks
    BY DEF ListInv, Apart
  <2> QED
    BY <2>3, <2>4, <2>7, <2>8, <2>9, StepKeeps
<1>5. CASE freeListHead # Cand(t)
  <2> DEFINE l == [floc[t] EXCEPT !.node = Cand(t), !.cand = freeListHead]
  <2>1. /\ fpc' = [fpc EXCEPT ![t] = "drop"] /\ floc' = [floc EXCEPT ![t] = l]
        /\ UNCHANGED list
    BY <1>5, <1>1 DEF Pop, At, list
  <2>2. l \in FreeListLocals /\ l.node = x /\ PlaceFits("drop", l)
        /\ "drop" \in FreeListPlaces
    <3>1. /\ floc[t] \in FreeListLocals /\ Cand(t) \in Blocks \cup {Null}
          /\ freeListHead \in Blocks \cup {Null}
      BY <1>1, LocalFacts
    <3>2. l \in FreeListLocals /\ l.node = Cand(t)
      BY <3>1 DEF FreeListLocals
    <3> QED
      BY <1>2, <1>3, <3>2 DEF PlaceFits, FreeListPlaces
  <2>3. ListTyped' /\ OnlyMoves(t) /\ fpc'[t] = "drop" /\ floc'[t] = l
    BY <1>1, <2>1, <2>2, TypedMove DEF ListTyped, list
  <2> HIDE DEF l
  <2>4. RefOf(t)' = RefOf(t) /\ Charge(t)' = Charge(t) /\ (Counted(t)' <=> Counted(t))
        /\ NextKnown(t)'
    BY <1>3, <2>2, <2>3 DEF RefOf, Charge, Counted, NextKnown, Node, Cand
  <2> QED
    BY <1>1, <2>1, <2>3, <2>4, QuietStep
<1> QED
  BY <1>4, <1>5

LEMMA UnrefStep ==
    ASSUME NEW held, ListInv(held), NEW t \in Threads, Unref(t)
    PROVE  ListInv(held)'
<1>1. /\ ListTyped /\ HasStack /\ fpc[t] = "unref" /\ fpc' = [fpc EXCEPT ![t] = "got"]
      /\ freeListRefs' = [freeListRefs EXCEPT ![Cand(t)] = @ + (-2)]
      /\ freeListHead' = freeListHead /\ freeListNext' = freeListNext
      /\ floc' = [floc EXCEPT ![t] = floc[t]]
  BY LocalFacts DEF ListInv, ListCore, Unref, At, Refs
<1>2. PICK x \in Blocks : x = Cand(t)
  BY <1>1, LocalFacts DEF PlaceFits
<1>3. Charge(t) = x /\ RefOf(t) = x /\ Counted(t) /\ x # Null /\ Null \notin Blocks
  BY <1>1, <1>2, FreeListAssumption DEF Charge, RefOf, Counted
<1>4. /\ freeListRefs[x] = Cardinality(Referring(x)) + 1 /\ Cardinality(Referring(x)) >= 1
      /\ ~Flagged(x) /\ x \notin OnList /\ x \notin held
      /\ \A u \in Threads \ {t} : Charge(u) # x
  <2>1. /\ ~Flagged(x) /\ OfList(x) /\ x \notin OnList /\ x \notin held /\ RefsAddUp(x)
        /\ Cardinality(Referring(x)) >= 1 /\ \A u \in Threads \ {t} : Charge(u) # x
    BY <1>1, <1>3, Outlook
  <2> QED
    BY <2>1, ReferringFacts DEF RefsAddUp
<1>5. /\ freeListRefs' \in [Blocks -> Nat]
      /\ freeListRefs'[x] = freeListRefs[x] - 2
      /\ \A b \in Blocks \ {x} : freeListRefs'[b] = freeListRefs[b]
  <2>1. freeListRefs[x] + (-2) \in Nat /\ freeListRefs[x] + (-2) = freeListRefs[x] - 2
    BY <1>4, ReferringFacts
  <2> QED
    BY <1>1, <1>2, <2>1 DEF ListTyped
<1>6. ListTyped' /\ OnlyMoves(t) /\ fpc'[t] = "got" /\ floc'[t] = floc[t]
  <2>1. "got" \in FreeListPlaces /\ PlaceFits("got", floc[t])
    BY DEF FreeListPlaces, PlaceFits
  <2> QED
    BY <1>1, <1>5, <2>1, LocalFacts, TypedMove DEF ListTyped
<1>7. HasStack' /\ OnList' = OnList
  BY <1>1, <1>6, StackKept
<1>8. /\ RefOf(t)' = Null /\ Charge(t)' = x /\ ~Counted(t)' /\ NextKnown(t)' /\ LinkAlone(t)'
      /\ Cardinality(Referring(x)') = Cardinality(Referring(x)) - 1
  <2>1. RefOf(t)' = Null /\ Charge(t)' = x /\ ~Counted(t)' /\ NextKnown(t)' /\ LinkAlone(t)'
    BY <1>2, <1>6 DEF RefOf, Charge, Counted, NextKnown, LinkAlone, Cand
  <2> QED
    BY <1>3, <1>6, <2>1, ReferringMoves, ReferringFacts
<1>9. CalmBut(t, x)
  <2>1. \A b \in Blocks \ {x} :
           /\ RefOf(t)' = b <=> RefOf(t) = b
           /\ Charge(t)' = b <=> Charge(t) = b
           /\ Charge(t) # b
    BY <1>3, <1>8
  <2> QED
    BY <1>1, <1>4, <1>5, <1>7, <2>1 DEF CalmBut
<1>10. SettledAt(t, x, held)'
  <2>1. ~OfList(x)' /\ \A u \in Threads \ {t} : Charge(u)' # x
    BY <1>3, <1>4, <1>6, <1>7, <1>8, ChargeMoves
  <2>2. ~Flagged(x)' /\ RefsAddUp(x)'
    BY <1>4, <1>5, <1>8, <2>1, ReferringFacts DEF Flagged, RefsAddUp
  <2> QED
    BY <1>4, <1>7, <1>8, <2>1, <2>2 DEF SettledAt, FlagKept
<1>11. held \subseteq Blocks
  BY DEF ListInv, Apart
<1> QED
  BY <1>6, <1>7, <1>9, <1>10, <1>11, StepKeeps

LEMMA DropStep ==
    ASSUME NEW held, ListInv(held), NEW t \in Threads, Drop(t)
    PROVE  ListInv(held)'
<1> DEFINE to == IF freeListRefs[Node(t)] = ShouldBeOn + 1 THEN "load" ELSE Continue(t)
<1>1. /\ ListTyped /\ HasStack /\ fpc[t] = "drop" /\ fpc' = [fpc EXCEPT ![t] = to]
      /\ freeListRefs' = [freeListRefs EXCEPT ![Node(t)] = @ + (-1)]
      /\ freeListHead' = freeListHead /\ freeListNext' = freeListNext
      /\ floc' = [floc EXCEPT ![t] = floc[t]]
  BY LocalFacts DEF ListInv, ListCore, Drop, At, Refs
<1>2. PICK x \in Blocks : x = Node(t)
  BY <1>1, LocalFacts DEF PlaceFits
<1>3. Charge(t) = Null /\ RefOf(t) = x /\ ~Counted(t) /\ x # Null /\ Null \notin Blocks
  BY <1>1, <1>2, FreeListAssumption DEF Charge, RefOf, Counted
<1> DEFINE k == Cardinality(Referring(x)) + (IF OfList(x) THEN 1 ELSE 0)
<1>4. /\ freeListRefs[x] = (IF Flagged(x) THEN ShouldBeOn ELSE 0) + k
      /\ Cardinality(Referring(x)) >= 1 /\ k \in Nat /\ k < ShouldBeOn
      /\ Flagged(x) => ~OfList(x)
      /\ \A u \in Threads : Charge(u) = x => fpc[u] \notin {"load", "link"}
  BY <1>3, Outlook, ReferringFacts DEF RefsAddUp
<1>5. freeListRefs[x] = ShouldBeOn + 1 <=> Flagged(x) /\ Cardinality(Referring(x)) = 1
  BY <1>4, ReferringFacts
<1>6. /\ freeListRefs' \in [Blocks -> Nat]
      /\ freeListRefs'[x] = freeListRefs[x] - 1
      /\ \A b \in Blocks \ {x} : freeListRefs'[b] = freeListRefs[b]
  <2>1. freeListRefs[x] + (-1) \in Nat /\ freeListRefs[x] + (-1) = freeListRefs[x] - 1
    BY <1>4, ReferringFacts
  <2> QED
    BY <1>1, <1>2, <2>1 DEF ListTyped
<1>7. ListTyped' /\ OnlyMoves(t) /\ fpc'[t] = to /\ floc'[t] = floc[t]
  <2>1. to \in FreeListPlaces /\ PlaceFits(to, floc[t])
    BY <1>1, LocalFacts, ContinueFacts DEF FreeListPlaces, PlaceFits
  <2> HIDE DEF to
  <2> QED
    BY <1>1, <1>6, <2>1, LocalFacts, TypedMove DEF ListTyped
<1>8. HasStack' /\ OnList' = OnList
  BY <1>1, <1>7, StackKept
<1>9. /\ RefOf(t)' = Null /\ ~Counted(t)' /\ NextKnown(t)' /\ Node(t)' = x
      /\ Charge(t)' = IF freeListRefs[x] = ShouldBeOn + 1 THEN x ELSE Null
      /\ fpc'[t] \in {"load", "link"} <=> freeListRefs[x] = ShouldBeOn + 1
  <2>1. Node(t)' = x
    BY <1>2, <1>7 DEF Node
  <2>2. CASE freeListRefs[x] = ShouldBeOn + 1
    BY <1>1, <1>2, <1>7, <2>1, <2>2 DEF RefOf, Counted, NextKnown, Charge
  <2>3. CASE freeListRefs[x] # ShouldBeOn + 1
    BY <1>1, <1>2, <1>3, <1>7, <2>1, <2>3, ContinueFacts
  <2> QED
    BY <2>2, <2>3
<1>10. /\ Cardinality(Referring(x)') = Cardinality(Referring(x)) - 1
       /\ (Cardinality(Referring(x)') = 0 <=> Referring(x)' = {})
  BY <1>3, <1>7, <1>9, ReferringMoves, ReferringFacts
<1>11. \A u \in Threads \ {t} : /\ Charge(u)' = Charge(u) /\ (Counted(u)' <=> Counted(u))
                                /\ fpc'[u] = fpc[u]
  BY <1>7, OthersStay DEF OnlyMoves
\* If nobody but the thread referred to the block, nobody has charge of it.
<1>12. Flagged(x) => \A u \in Threads \ {t} : Charge(u) # x
  BY <1>4 DEF ListInv, ListCore, FlagKept
<1>13. CalmBut(t, x)
  <2>1. \A b \in Blocks \ {x} :
           /\ RefOf(t)' = b <=> RefOf(t) = b
           /\ Charge(t)' = b <=> Charge(t) = b
           /\ Charge(t) # b
    BY <1>3, <1>9
  <2> QED
    BY <1>1, <1>4, <1>6, <1>8, <2>1 DEF CalmBut
<1>14. SettledAt(t, x, held)'
  <2>1. Flagged(x)' <=> Flagged(x)
    BY <1>4, <1>6, ReferringFacts DEF Flagged
  <2>2. Charge(t)' = x => Flagged(x) /\ Referring(x)' = {}
    BY <1>3, <1>5, <1>9, <1>10, ReferringFacts
  <2>3. OfList(x)' <=> OfList(x)
    BY <1>3, <1>8, <1>9, <1>11 DEF OfList
  <2>4. RefsAddUp(x)'
    BY <1>4, <1>6, <1>10, <2>1, <2>3, ReferringFacts DEF RefsAddUp
  <2>5. LinkAlone(t)'
    <3>1. SUFFICES ASSUME fpc'[t] \in {"load", "link"}
                   PROVE  Flagged(Node(t))' /\ Referring(Node(t))' = {}
      BY DEF LinkAlone
    <3>2. Flagged(x)' /\ Referring(x)' = {}
      BY <1>9, <2>1, <2>2, <3>1
    <3> QED
      BY <1>9, <3>2 DEF Flagged, Referring
  <2>6. FlagKept(x) /\ ChargesApart /\ Apart(held)
    BY DEF ListInv, ListCore
  <2>7. FlagKept(x)'
    <3>1. SUFFICES ASSUME Flagged(x)
                   PROVE  /\ x \notin OnList'
                          /\ \A u \in Threads : Charge(u)' = x => fpc'[u] \in {"load", "link"}
                          /\ Referring(x)' # {} \/ \E u \in Threads : Charge(u)' = x
      BY <2>1 DEF FlagKept
    <3>2. \A u \in Threads : Charge(u)' = x => fpc'[u] \in {"load", "link"}
      BY <1>3, <1>9, <1>11, <1>12, <3>1
    <3>3. Referring(x)' # {} \/ Charge(t)' = x
      BY <1>4, <1>5, <1>9, <1>10, <3>1, ReferringFacts
    <3> QED
      BY <1>8, <2>6, <3>1, <3>2, <3>3 DEF FlagKept
  <2>8. \A u \in Threads \ {t} : Charge(t)' = x => Charge(u)' # x
    BY <1>11, <1>12, <2>2
  <2>9. \A u \in Threads : Charge(u)' = x => x \notin held \cup OnList'
    BY <1>8, <1>11, <2>2, <2>6 DEF ChargesApart, Apart, FlagKept
  <2>10. x \in held => x \notin OnList' /\ ~Flagged(x)'
    BY <1>8, <2>1, <2>6 DEF Apart
  <2>11. x \in held \/ x \in OnList' \/ Flagged(x)' \/ \E u \in Threads : Charge(u)' = x
    BY <1>3, <1>8, <1>11, <2>1, <2>6 DEF Apart
  <2> QED
    BY <1>9, <2>4, <2>5, <2>7, <2>8, <2>9, <2>10, <2>11 DEF SettledAt
<1>15. held \subseteq Blocks
  BY DEF ListInv, Apart
<1> QED
  BY <1>7, <1>8, <1>13, <1>14, <1>15, StepKeeps

LEMMA ListStep ==
    ASSUME NEW held, ListInv(held), NEW t \in Threads, FreeListStep(t)
    PROVE  ListInv(held)'
BY AddStep, LoadHeadStep, LinkStep, PushStep, UnlinkStep, GetHeadStep, RefStep, NextStep,
   PopStep, UnrefStep, DropStep DEF FreeListStep

\* A block a thread adds is no longer held ...
LEMMA CallAddStep ==
    ASSUME NEW held, ListInv(held), NEW t \in Threads, NEW x \in held, CallAdd(t, x)
    PROVE  ListInv(held \ {x})'
<1> DEFINE l == [NoLocals EXCEPT !.op = "add", !.node = x]
<1>1. /\ ListTyped /\ HasStack /\ fpc[t] = "idle" /\ fpc' = [fpc EXCEPT ![t] = "add"]
      /\ floc' = [floc EXCEPT ![t] = l] /\ UNCHANGED list
  BY DEF ListInv, ListCore, CallAdd, At
<1>2. /\ x \in Blocks /\ x # Null /\ Null \notin Blocks /\ held \subseteq Blocks
      /\ x \notin OnList /\ ~Flagged(x) /\ \A u \in Threads : Charge(u) # x
  BY FreeListAssumption DEF ListInv, Apart
<1>3. l \in FreeListLocals /\ l.node = x /\ PlaceFits("add", l) /\ "add" \in FreeListPlaces
  BY <1>2 DEF FreeListLocals, PlaceFits, FreeListPlaces, NoLocals
<1>4. ListTyped' /\ OnlyMoves(t) /\ fpc'[t] = "add" /\ floc'[t] = l
  BY <1>1, <1>3, TypedMove DEF ListTyped, list
<1> HIDE DEF l
<1>5. HasStack' /\ OnList' = OnList
  BY <1>1, <1>4, StackKept DEF list
<1>6. RefOf(t) = Null /\ Charge(t) = Null /\ ~Counted(t)
  BY <1>1 DEF RefOf, Charge, Counted
<1>7. RefOf(t)' = Null /\ Charge(t)' = x /\ ~Counted(t)' /\ NextKnown(t)' /\ LinkAlone(t)'
  BY <1>3, <1>4 DEF RefOf, Charge, Counted, NextKnown, LinkAlone, Node
<1>8. \A u \in Threads \ {t} : Charge(u)' # x /\ Charge(u)' = Charge(u)
                               /\ (Counted(u)' <=> Counted(u))
  BY <1>2, <1>4, OthersStay
<1>9. CalmBut(t, x)
  <2>1. \A b \in Blocks \ {x} :
           /\ RefOf(t)' = b <=> RefOf(t) = b
           /\ Charge(t)' = b <=> Charge(t) = b
           /\ Charge(t) # b
    BY <1>2, <1>6, <1>7
  <2> QED
    BY <1>1, <1>2, <1>5, <2>1 DEF CalmBut, list
<1>10. SettledAt(t, x, held \ {x})'
  <2>1. Cardinality(Referring(x)') = Cardinality(Referring(x))
    BY <1>2, <1>4, <1>6, <1>7, ReferringMoves, ReferringFacts
  <2>2. ~Flagged(x)' /\ (OfList(x)' <=> OfList(x)) /\ RefsAddUp(x)
    BY <1>1, <1>2, <1>5, <1>6, <1>7, <1>8, Outlook DEF Flagged, OfList, list
  <2>3. RefsAddUp(x)'
    BY <1>1, <1>2, <2>1, <2>2 DEF RefsAddUp, list
  <2> QED
    BY <1>2, <1>5, <1>7, <1>8, <2>2, <2>3 DEF SettledAt, FlagKept
<1> QED
  BY <1>2, <1>4, <1>5, <1>9, <1>10, StepKeeps

\* ... and the one it got is.
LEMMA EndTryGetStep ==
    ASSUME NEW held, ListInv(held), NEW t \in Threads, EndTryGet(t),
           NEW after, after = held \cup ({Cand(t)} \ {Null})
    PROVE  ListInv(after)' /\ Cand(t) \notin held
<1>1. /\ ListTyped /\ HasStack /\ fpc[t] = "got" /\ fpc' = [fpc EXCEPT ![t] = "idle"]
      /\ floc' = [floc EXCEPT ![t] = NoLocals] /\ UNCHANGED list
  BY DEF ListInv, ListCore, EndTryGet, At
<1>2. NoLocals \in FreeListLocals /\ PlaceFits("idle", NoLocals) /\ "idle" \in FreeListPlaces
  BY DEF FreeListLocals, PlaceFits, FreeListPlaces, NoLocals
<1>3. ListTyped' /\ OnlyMoves(t) /\ fpc'[t] = "idle"
  BY <1>1, <1>2, TypedMove DEF ListTyped, list
<1>4. RefOf(t) = Null /\ Charge(t) = Cand(t) /\ ~Counted(t)
      /\ Cand(t) \in Blocks \cup {Null} /\ held \subseteq Blocks /\ Null \notin Blocks
  BY <1>1, LocalFacts, FreeListAssumption DEF RefOf, Charge, Counted, ListInv, Apart
<1>5. RefOf(t)' = Null /\ Charge(t)' = Null /\ ~Counted(t)' /\ NextKnown(t)' /\ LinkAlone(t)'
  BY <1>3 DEF RefOf, Charge, Counted, NextKnown, LinkAlone
<1>6. CASE Cand(t) = Null
  <2>1. ListInv(held)'
    BY <1>1, <1>3, <1>4, <1>5, <1>6, QuietStep
  <2>2. after = held
    BY <1>4, <1>6
  <2> QED
    BY <1>4, <1>6, <2>1, <2>2
<1>7. CASE Cand(t) # Null
  <2>1. PICK x \in Blocks : x = Cand(t)
    BY <1>4, <1>7
  <2>2. /\ x \notin OnList /\ x \notin held /\ ~Flagged(x) /\ ~OfList(x) /\ RefsAddUp(x)
        /\ \A u \in Threads \ {t} : Charge(u) # x
    BY <1>1, <1>4, <2>1, Outlook
  <2>3. HasStack' /\ OnList' = OnList
    BY <1>1, <1>3, StackKept DEF list
  <2>4. \A u \in Threads : Charge(u)' # x
    BY <1>3, <1>4, <1>5, <2>1, <2>2, OthersStay
  <2>5. CalmBut(t, x)
    <3>1. \A b \in Blocks \ {x} :
             /\ RefOf(t)' = b <=> RefOf(t) = b
             /\ Charge(t)' = b <=> Charge(t) = b
             /\ Charge(t) # b
      BY <1>4, <1>5, <2>1
    <3> QED
      BY <1>1, <2>2, <2>3, <3>1 DEF CalmBut, list
  <2>6. SettledAt(t, x, after)'
    <3>1. Cardinality(Referring(x)') = Cardinality(Referring(x))
      BY <1>3, <1>4, <1>5, <2>1, ReferringMoves, ReferringFacts
    <3>2. ~Flagged(x)' /\ ~OfList(x)'
      BY <1>1, <2>2, <2>3, <2>4 DEF Flagged, OfList, list
    <3>3. RefsAddUp(x)'
      BY <1>1, <2>2, <3>1, <3>2 DEF RefsAddUp, list
    <3> QED
      BY <1>5, <1>7, <2>1, <2>2, <2>3, <2>4, <3>2, <3>3 DEF SettledAt, FlagKept
  <2>7. after \subseteq Blocks /\ \A b \in Blocks \ {x} : b \in after <=> b \in held
    BY <1>4, <2>1
  <2>8. ListInv(after)'
    BY <1>3, <2>3, <2>5, <2>6, <2>7, StepKeeps
  <2> QED
    BY <2>1, <2>2, <2>8
<1> QED
  BY <1>6, <1>7

LEMMA ListStart ==
    ASSUME FreeListInit
    PROVE  ListInv(Blocks)
<1>1. /\ freeListHead = Null /\ freeListRefs = [b \in Blocks |-> 0]
      /\ freeListNext = [b \in Blocks |-> Null]
      /\ fpc = [t \in Threads |-> "idle"] /\ floc = [t \in Threads |-> NoLocals]
      /\ Null \notin Blocks
  BY FreeListAssumption DEF FreeListInit
<1>2. ListTyped
  <2>1. NoLocals \in FreeListLocals /\ PlaceFits("idle", NoLocals) /\ "idle" \in FreeListPlaces
    BY DEF FreeListLocals, PlaceFits, FreeListPlaces, NoLocals
  <2> QED
    BY <1>1, <2>1 DEF ListTyped
<1> DEFINE s == [i \in 0 .. 0 |-> Null]
<1>3. Stack(0, s)
  BY <1>1 DEF Stack
<1>4. OnList = {}
  <2>1. OnList = {s[i] : i \in 1 .. 0}
    <3> HIDE DEF s
    <3> QED
      BY <1>3, StackIsList
  <2> QED
    BY <2>1
<1>5. \A t \in Threads : RefOf(t) = Null /\ Charge(t) = Null /\ ~Counted(t)
                         /\ NextKnown(t) /\ LinkAlone(t)
  BY <1>1 DEF RefOf, Charge, Counted, NextKnown, LinkAlone
<1>6. ASSUME NEW b \in Blocks
      PROVE  ~Flagged(b) /\ ~OfList(b) /\ RefsAddUp(b) /\ FlagKept(b)
  <2>1. Referring(b) = {}
    BY <1>1, <1>5 DEF Referring
  <2>2. ~Flagged(b) /\ ~OfList(b)
    BY <1>1, <1>4, <1>5, FreeListAssumption, ReferringFacts DEF Flagged, OfList
  <2>3. Cardinality(Referring(b)) = 0 /\ freeListRefs[b] = 0
    BY <1>1, <2>1, ReferringFacts
  <2> QED
    BY <2>2, <2>3 DEF RefsAddUp, FlagKept
<1>7. ListCore
  BY <1>2, <1>3, <1>4, <1>5, <1>6 DEF ListCore, HasStack, ChargesApart
<1>8. Apart(Blocks)
  BY <1>1, <1>4, <1>5, <1>6 DEF Apart
<1> QED
  BY <1>7, <1>8 DEF ListInv

-----------------------------------------------------------------------------
(* The free list and threads that hold blocks.                             *)

HeldByAll == UNION {holds[t] : t \in Threads}

LEMMA UserStart == UserInit => UserInv
<1> SUFFICES ASSUME UserInit PROVE UserInv
  OBVIOUS
<1>1. PICK t \in Threads : holds = [u \in Threads |-> IF u = t THEN Blocks ELSE {}]
  BY DEF UserInit
<1>2. HeldByAll = Blocks
  BY <1>1 DEF HeldByAll
<1>3. ListInv(Blocks)
  BY ListStart DEF UserInit
<1> QED
  BY <1>1, <1>2, <1>3 DEF UserInv, HeldByAll

\* A step for a list that nobody takes from or gives to.
LEMMA UserStep == UserInv /\ [UserNext]_all => UserInv'
<1> SUFFICES ASSUME UserInv, [UserNext]_all PROVE UserInv'
  OBVIOUS
<1>1. /\ holds \in [Threads -> SUBSET Blocks] /\ ListInv(HeldByAll)
      /\ \A t, u \in Threads : holds[t] \cap holds[u] # {} => t = u
  BY DEF UserInv, HeldByAll
<1>2. PICK held : held = HeldByAll
  OBVIOUS
<1>3. ListInv(held)
  BY <1>1, <1>2
<1>4. ASSUME UNCHANGED holds, ListInv(held)' PROVE UserInv'
  <2>1. HeldByAll' = held
    BY <1>2, <1>4 DEF HeldByAll
  <2> QED
    BY <1>1, <1>4, <2>1 DEF UserInv, HeldByAll, ListInv, Apart
<1>5. CASE UNCHANGED all
  <2>1. UNCHANGED freeList /\ UNCHANGED holds
    BY <1>5 DEF all
  <2>2. ListInv(held)'
    BY <1>3, <2>1, ListStutter
  <2> QED
    BY <1>4, <2>1, <2>2
<1>6. ASSUME NEW t \in Threads, Give(t) PROVE UserInv'
  <2>1. PICK b \in holds[t] : CallAdd(t, b) /\ holds' = [holds EXCEPT ![t] = @ \ {b}]
    BY <1>6 DEF Give
  <2>2. b \in held
    BY <1>2 DEF HeldByAll
  <2>3. ListInv(held \ {b})'
    BY <1>3, <2>1, <2>2, CallAddStep
  <2>4. holds' \in [Threads -> SUBSET Blocks]
        /\ (\A u \in Threads \ {t} : holds'[u] = holds[u] /\ b \notin holds[u])
        /\ holds'[t] = holds[t] \ {b}
    BY <1>1, <2>1
  <2>5. HeldByAll' = held \ {b}
    BY <1>2, <2>4 DEF HeldByAll
  <2>6. \A v, u \in Threads : holds'[v] \cap holds'[u] # {} => v = u
    BY <1>1, <2>4
  <2> QED
    BY <2>3, <2>4, <2>5, <2>6 DEF UserInv, HeldByAll, ListInv, Apart
<1>7. ASSUME NEW t \in Threads, Keep(t) PROVE UserInv'
  <2>1. EndTryGet(t) /\ holds' = [holds EXCEPT ![t] = @ \cup ({Cand(t)} \ {Null})]
    BY <1>7 DEF Keep
  <2>2. PICK after : after = held \cup ({Cand(t)} \ {Null})
    OBVIOUS
  <2>3. ListInv(after)' /\ Cand(t) \notin held
    BY <1>3, <2>1, <2>2, EndTryGetStep
  <2>4. Cand(t) \in Blocks \cup {Null}
    BY <1>3, LocalFacts DEF ListInv, ListCore
  <2>5. holds' \in [Threads -> SUBSET Blocks]
        /\ (\A u \in Threads \ {t} : holds'[u] = holds[u] /\ Cand(t) \notin holds[u])
        /\ holds'[t] = holds[t] \cup ({Cand(t)} \ {Null})
    BY <1>1, <1>2, <2>1, <2>3, <2>4 DEF HeldByAll
  <2>6. HeldByAll' = after
    BY <1>2, <2>2, <2>5 DEF HeldByAll
  <2>7. \A v, u \in Threads : holds'[v] \cap holds'[u] # {} => v = u
    BY <1>1, <2>5
  <2> QED
    BY <2>3, <2>5, <2>6, <2>7 DEF UserInv, HeldByAll, ListInv, Apart
<1>8. ASSUME NEW t \in Threads, Ask(t) \/ (FreeListStep(t) /\ UNCHANGED holds) PROVE UserInv'
  BY <1>3, <1>4, <1>8, CallTryGetStep, ListStep DEF Ask
<1> QED
  BY <1>5, <1>6, <1>7, <1>8 DEF UserNext, Work

LEMMA UserInvAlways == UserSpec => []UserInv
BY UserStart, UserStep, PTL DEF UserSpec

\* Every block is in one place.
LEMMA HomeOnce ==
    ASSUME NEW held, ListInv(held), NEW b \in Blocks
    PROVE  /\ Pending = {x \in Blocks : Flagged(x)}
                 \cup {Node(t) : t \in {s \in Threads : fpc[s] \in {"push", "unlink"}}}
           /\ ~(b \in OnList /\ b \in Pending)
           /\ b \in held => b \notin OnList /\ b \notin Pending
           /\ \A t \in Threads : Charge(t) = b /\ fpc[t] \in {"add", "unref", "got"} =>
                 /\ b \notin OnList /\ b \notin Pending /\ b \notin held
                 /\ \A u \in Threads : Charge(u) = b => u = t
           /\ \/ b \in held \/ b \in OnList \/ b \in Pending
              \/ \E t \in Threads : Charge(t) = b /\ fpc[t] \in {"add", "unref", "got"}
<1>1. \A t \in Threads : fpc[t] \in {"load", "link", "push", "unlink"} =>
                            Charge(t) = Node(t) /\ Node(t) \in Blocks
  BY LocalFacts DEF Charge, ListInv, ListCore, PlaceFits
<1>2. \A t \in Threads : fpc[t] \in {"load", "link"} => Flagged(Node(t))
  BY DEF ListInv, ListCore, LinkAlone
<1>3. Pending = {x \in Blocks : Flagged(x)}
                 \cup {Node(t) : t \in {s \in Threads : fpc[s] \in {"push", "unlink"}}}
  BY <1>1, <1>2 DEF Pending, Flagged
<1>4. b \in Pending <=> \/ Flagged(b)
                        \/ \E t \in Threads : Charge(t) = b /\ fpc[t] \in {"push", "unlink"}
  BY <1>1, <1>3
<1>5. b # Null /\ FlagKept(b) /\ ChargesApart /\ Apart(held)
  BY FreeListAssumption DEF ListInv, ListCore
<1>6. ~(b \in OnList /\ b \in Pending) /\ (b \in held => b \notin OnList /\ b \notin Pending)
  BY <1>4, <1>5 DEF FlagKept, ChargesApart, Apart
<1>7. ASSUME NEW t \in Threads, Charge(t) = b, fpc[t] \in {"add", "unref", "got"}
      PROVE  /\ b \notin OnList /\ b \notin Pending /\ b \notin held
             /\ \A u \in Threads : Charge(u) = b => u = t
  BY <1>4, <1>5, <1>7 DEF FlagKept, ChargesApart, Apart
<1>8. \/ b \in held \/ b \in OnList \/ b \in Pending
      \/ \E t \in Threads : Charge(t) = b /\ fpc[t] \in {"add", "unref", "got"}
  <2>1. \A t \in Threads : Charge(t) = b =>
           fpc[t] \in {"add", "load", "link", "push", "unlink", "unref", "got"}
    BY <1>5 DEF Charge
  <2> QED
    BY <1>2, <1>1, <1>4, <1>5, <2>1 DEF Apart
<1> QED
  BY <1>3, <1>6, <1>7, <1>8

LEMMA OwnFacts ==
    ASSUME NEW t \in Threads, NEW b \in Blocks
    PROVE  b \in Own(t) <=> b \in holds[t]
                              \/ (Charge(t) = b /\ fpc[t] \in {"add", "unref", "got"})
<1>1. b # Null
  BY FreeListAssumption
<1>2. CASE fpc[t] = "add"
  BY <1>1, <1>2 DEF Own, Charge
<1>3. CASE fpc[t] \in {"unref", "got"}
  BY <1>1, <1>3 DEF Own, Charge
<1>4. CASE fpc[t] \notin {"add", "unref", "got"}
  BY <1>1, <1>4 DEF Own, Charge
<1> QED
  BY <1>2, <1>3, <1>4

LEMMA ConservedHere == UserInv => Conserved
<1> SUFFICES ASSUME UserInv PROVE Conserved
  OBVIOUS
<1>1. /\ holds \in [Threads -> SUBSET Blocks] /\ ListInv(HeldByAll)
      /\ \A t, u \in Threads : holds[t] \cap holds[u] # {} => t = u
  BY DEF UserInv, HeldByAll
<1>2. ASSUME NEW b \in Blocks
      PROVE  Cardinality({t \in Threads : b \in Own(t)})
                + Cardinality({s \in {"list", "pending"} :
                                 b \in IF s = "list" THEN OnList ELSE Pending}) = 1
  <2> DEFINE owners == {t \in Threads : b \in Own(t)}
             homes == {s \in {"list", "pending"} : b \in IF s = "list" THEN OnList ELSE Pending}
  <2>1. /\ ~(b \in OnList /\ b \in Pending)
        /\ b \in HeldByAll => b \notin OnList /\ b \notin Pending
        /\ \A t \in Threads : Charge(t) = b /\ fpc[t] \in {"add", "unref", "got"} =>
              /\ b \notin OnList /\ b \notin Pending /\ b \notin HeldByAll
              /\ \A u \in Threads : Charge(u) = b => u = t
        /\ \/ b \in HeldByAll \/ b \in OnList \/ b \in Pending
           \/ \E t \in Threads : Charge(t) = b /\ fpc[t] \in {"add", "unref", "got"}
    BY <1>1, HomeOnce
  <2>2. b \in HeldByAll <=> \E t \in Threads : b \in holds[t]
    BY DEF HeldByAll
  <2>3. \A t, u \in Threads : b \in holds[t] /\ b \in holds[u] => t = u
    BY <1>1
  <2>4. \A t \in Threads : t \in owners <=> b \in holds[t]
                              \/ (Charge(t) = b /\ fpc[t] \in {"add", "unref", "got"})
    BY OwnFacts
  <2>5. CASE b \in OnList
    <3>1. owners = {} /\ homes = {"list"}
      BY <2>1, <2>2, <2>4, <2>5
    <3>2. Cardinality(owners) = 0 /\ Cardinality(homes) = 1
      <4> HIDE DEF owners, homes
      <4> QED
        BY <3>1, FS_EmptySet, FS_Singleton
    <3> QED
      BY <3>2
  <2>6. CASE b \in Pending
    <3>1. owners = {} /\ homes = {"pending"}
      BY <2>1, <2>2, <2>4, <2>6
    <3>2. Cardinality(owners) = 0 /\ Cardinality(homes) = 1
      <4> HIDE DEF owners, homes
      <4> QED
        BY <3>1, FS_EmptySet, FS_Singleton
    <3> QED
      BY <3>2
  <2>7. CASE b \notin OnList /\ b \notin Pending
    <3>1. homes = {}
      BY <2>7
    <3>2. PICK t \in Threads : t \in owners
      BY <2>1, <2>2, <2>4, <2>7
    <3>3. owners = {t}
      <4> HIDE DEF owners
      <4>1. \A u \in Threads : u \in owners => u = t
        BY <2>1, <2>2, <2>3, <2>4, <3>2
      <4>2. owners \subseteq Threads
        BY DEF owners
      <4> QED
        BY <3>2, <4>1, <4>2
    <3>4. Cardinality(owners) = 1 /\ Cardinality(homes) = 0
      <4> HIDE DEF owners, homes
      <4> QED
        BY <3>1, <3>3, FS_EmptySet, FS_Singleton
    <3> QED
      BY <3>4
  <2> QED
    BY <2>5, <2>6, <2>7
<1>3. ASSUME \A t \in Threads : ~Busy(t) PROVE Pending = {}
  <2>1. \A t \in Threads : fpc[t] \in {"idle", "got"}
    BY <1>3 DEF Busy
  <2>2. \A t \in Threads : RefOf(t) = Null
    BY <2>1 DEF RefOf
  <2>3. ASSUME NEW b \in Blocks, Flagged(b) PROVE FALSE
    <3>1. Referring(b) = {}
      BY <2>2, FreeListAssumption DEF Referring
    <3>2. \E t \in Threads : Charge(t) = b /\ fpc[t] \in {"load", "link"}
      BY <1>1, <2>3, <3>1 DEF ListInv, ListCore, FlagKept
    <3> QED
      BY <2>1, <3>2
  <2> QED
    BY <2>1, <2>3 DEF Pending, Flagged
<1>4. ASSUME NEW t \in Threads, fpc[t] = "unref" PROVE freeListRefs[Cand(t)] < ShouldBeOn
  <2>1. ListTyped
    BY <1>1 DEF ListInv, ListCore
  <2>2. Cand(t) \in Blocks /\ Charge(t) = Cand(t)
    BY <1>4, <2>1, LocalFacts DEF PlaceFits, Charge
  <2>3. ~Flagged(Cand(t))
    BY <1>1, <1>4, <2>2 DEF ListInv, ListCore, FlagKept
  <2> QED
    BY <2>1, <2>2, <2>3, FreeListAssumption DEF Flagged, ListTyped
<1> QED
  BY <1>2, <1>3, <1>4 DEF Conserved

\* No block is lost and none is in two places, for any number of threads and blocks: neither
\* the ABA problem nor the hand-over of the push between threads (concurrentqueue.h's
\* FreeList) breaks the list.
THEOREM BlocksConserved == UserSpec => []Conserved
BY UserInvAlways, ConservedHere, PTL

-----------------------------------------------------------------------------
(* Claims: the inductive invariant.                                        *)

Fields == {"n", "mode", "got", "entry", "left", "from", "count", "extra", "base", "header",
           "pos", "block"}

\* Where a consumer has chosen a producer.
AtProducer == {"tail", "overcommit", "optimistic", "claim", "verify", "give", "head", "header",
               "slot", "key", "take", "read", "unindex", "free"}

\* What a consumer knows of its call where it is.  The overcommit it has read is at most
\* the present one, which only grows; it turns to a producer, and claims, for one element or
\* more.
Fits(call, at) ==
    /\ call.n \in Int /\ call.count \in Int
    /\ call.left \subseteq Producers /\ call.from \in Producers \cup {Null}
    /\ at \in AtProducer => call.from \in Producers
    /\ at \in {"look", "tail", "overcommit", "optimistic"} => call.n >= 1
    /\ at \in {"optimistic", "claim"} =>
          call.base \in Nat /\ call.base <= dequeueOvercommit[call.from]
    /\ at \in {"claim", "verify"} => call.count >= 1
    /\ at = "verify" => call.base \in Int
    /\ at \in {"give", "head"} => call.count >= 0
    /\ at = "give" => call.extra \in Nat

Knows(c) == Fits(loc[c], pc[c])

Typed ==
    /\ tailIndex \in [Producers -> Nat] /\ headIndex \in [Producers -> Nat]
    /\ dequeueOptimisticCount \in [Producers -> Nat] /\ dequeueOvercommit \in [Producers -> Nat]
    /\ DOMAIN pc = Threads /\ DOMAIN loc = Threads
    /\ \A t \in Threads : DOMAIN loc[t] = Fields
    /\ \A p \in Producers : loc[p].n \in Nat

\* What each consumer has claimed and not yet verified, has verified and not yet taken, and
\* is about to give back.
Claims(c, p) == pc[c] = "verify" /\ From(c) = p

Claimed(p) == [c \in Consumers |-> IF Claims(c, p) THEN loc[c].count ELSE 0]
Sure(p) ==
    [c \in Consumers |-> IF pc[c] \in {"give", "head"} /\ From(c) = p THEN loc[c].count ELSE 0]
Returned(p) ==
    [c \in Consumers |-> IF pc[c] = "give" /\ From(c) = p THEN loc[c].extra ELSE 0]

Total(f) == SumOver(f, Consumers)

\* Nothing claimed is forgotten.
Balanced(p) ==
    dequeueOptimisticCount[p]
        = dequeueOvercommit[p] + headIndex[p]
             + Total(Claimed(p)) + Total(Sure(p)) + Total(Returned(p))

Taken(p) == headIndex[p] + Total(Sure(p))

\* The claims not yet verified of which at[c], the optimistic count at the claim, is below m.
Before(p, at, m) == [c \in Consumers |-> IF at[c] < m THEN Claimed(p)[c] ELSE 0]

\* Claims are verified in any order.  Those before cut, up to the last one that got an
\* element, fit in the queue with all that is taken; for a later one, base leaves room for
\* what is taken and for the claims between.
Orderly(p, at, cut) ==
    /\ at \in [Consumers -> Nat] /\ cut \in Nat /\ cut <= dequeueOptimisticCount[p]
    /\ \A c \in Consumers : Claims(c, p) => at[c] < dequeueOptimisticCount[p]
    /\ \A c, d \in Consumers : Claims(c, p) /\ Claims(d, p) /\ at[c] = at[d] => c = d
    /\ Taken(p) + Total(Before(p, at, cut)) <= tailIndex[p]
    /\ \A c \in Consumers :
          Claims(c, p) /\ at[c] >= cut =>
              Taken(p) + Total(Before(p, at, at[c])) <= loc[c].base

HasOrder(p) == \E at, cut : Orderly(p, at, cut)

ClaimInv ==
    /\ Typed
    /\ \A c \in Consumers : Knows(c)
    /\ \A p \in Producers : Balanced(p) /\ HasOrder(p)

-----------------------------------------------------------------------------
(* The sums.                                                               *)

LEMMA Assumed ==
    /\ Threads = Producers \cup Consumers /\ Producers \cap Consumers = {}
    /\ IsFiniteSet(Consumers)
    /\ Batches \subseteq Nat \ {0} /\ Takes \subseteq Nat \ {0} /\ Null \notin Blocks
<1>1. IsFiniteSet(Threads) /\ Consumers \subseteq Threads
  BY QueueAssumption, FreeListAssumption
<1>2. IsFiniteSet(Consumers)
  BY <1>1, FS_Subset
<1> QED
  BY <1>2, QueueAssumption, FreeListAssumption

Summable(f) == \A c \in Consumers : f[c] \in Nat

LEMMA TotalFacts ==
    ASSUME NEW f, Summable(f)
    PROVE  Total(f) \in Nat /\ CanFold(f, Consumers)
<1>1. IsFiniteSet(Consumers) /\ \A c \in Consumers : f[c] \in Nat
  BY Assumed DEF Summable
<1> QED
  BY <1>1, SumNatural DEF Total, CanFold

LEMMA TotalSame ==
    ASSUME NEW f, NEW g, Summable(f), \A c \in Consumers : g[c] = f[c]
    PROVE  Total(g) = Total(f) /\ Summable(g)
<1>1. CanFold(f, Consumers)
  BY TotalFacts
<1> QED
  BY <1>1, SumSame DEF Total, Summable

LEMMA TotalChanged ==
    ASSUME NEW f, NEW g, Summable(f), NEW c \in Consumers, NEW d \in Int,
           g[c] = f[c] + d, \A e \in Consumers \ {c} : g[e] = f[e]
    PROVE  Total(g) = Total(f) + d
<1>1. CanFold(f, Consumers)
  BY TotalFacts
<1> QED
  BY <1>1, SumUpdated DEF Total

LEMMA TotalZero ==
    ASSUME NEW f, \A c \in Consumers : f[c] = 0
    PROVE  Total(f) = 0
<1> DEFINE zero == [c \in Consumers |-> 0]
<1>1. CanFold(zero, Consumers) /\ CanFold(f, Consumers)
  BY Assumed DEF CanFold
<1>2. \A c \in Consumers : f[c] = 0 * f[c]
  OBVIOUS
<1>3. Total(f) = 0 * Total(f) /\ Total(f) \in Int
  BY <1>1, <1>2, SumScaled, SumInsert DEF Total
<1> QED
  BY <1>3

LEMMA WeightFacts ==
    ASSUME ClaimInv, NEW p \in Producers
    PROVE  /\ Summable(Claimed(p)) /\ Summable(Sure(p)) /\ Summable(Returned(p))
           /\ \A at, m : Summable(Before(p, at, m))
           /\ Total(Claimed(p)) \in Nat /\ Total(Sure(p)) \in Nat /\ Total(Returned(p)) \in Nat
           /\ \A at, m : Total(Before(p, at, m)) \in Nat
<1>1. Summable(Claimed(p)) /\ Summable(Sure(p)) /\ Summable(Returned(p))
  <2> SUFFICES ASSUME NEW c \in Consumers
               PROVE  Claimed(p)[c] \in Nat /\ Sure(p)[c] \in Nat /\ Returned(p)[c] \in Nat
    BY DEF Summable
  <2>1. Knows(c)
    BY DEF ClaimInv
  <2>2. Claimed(p)[c] \in Nat
    BY <2>1 DEF Claimed, Claims, Knows, Fits, From
  <2>3. Sure(p)[c] \in Nat
    BY <2>1 DEF Sure, Knows, Fits
  <2>4. Returned(p)[c] \in Nat
    BY <2>1 DEF Returned, Knows, Fits
  <2> QED
    BY <2>2, <2>3, <2>4
<1>2. ASSUME NEW at, NEW m PROVE Summable(Before(p, at, m))
  BY <1>1 DEF Summable, Before
<1> QED
  BY <1>1, <1>2, TotalFacts


-----------------------------------------------------------------------------
(* Steps that claim nothing.                                               *)

LEMMA OrderKept ==
    ASSUME ClaimInv, NEW p \in Producers,
           dequeueOptimisticCount'[p] = dequeueOptimisticCount[p],
           Taken(p)' = Taken(p), tailIndex'[p] \in Nat, tailIndex'[p] >= tailIndex[p],
           \A c \in Consumers :
              /\ Claims(c, p)' <=> Claims(c, p)
              /\ Claims(c, p) => loc'[c].count = loc[c].count /\ loc'[c].base = loc[c].base
    PROVE  HasOrder(p)' /\ Total(Claimed(p))' = Total(Claimed(p))
<1>1. Claimed(p)' = Claimed(p)
  BY DEF Claimed
<1>2. ASSUME NEW at, NEW m PROVE Before(p, at, m)' = Before(p, at, m)
  BY <1>1 DEF Before
<1>3. PICK at, cut : Orderly(p, at, cut)
  BY DEF ClaimInv, HasOrder
<1>4. \A m : Total(Before(p, at, m))' = Total(Before(p, at, m))
  BY <1>2 DEF Total
<1>5. Taken(p) \in Int /\ tailIndex[p] \in Nat /\ \A m : Total(Before(p, at, m)) \in Nat
  BY WeightFacts DEF Taken, ClaimInv, Typed
<1>6. Taken(p)' + Total(Before(p, at, cut))' <= tailIndex'[p]
  <2>1. Taken(p) + Total(Before(p, at, cut)) <= tailIndex[p]
    BY <1>3 DEF Orderly
  <2> QED
    BY <1>4, <1>5, <2>1
<1>7. ASSUME NEW c \in Consumers, Claims(c, p)', at[c] >= cut
      PROVE  Taken(p)' + Total(Before(p, at, at[c]))' <= loc'[c].base
  BY <1>3, <1>4, <1>7 DEF Orderly
<1>8. Orderly(p, at, cut)'
  BY <1>3, <1>6, <1>7 DEF Orderly
<1> QED
  BY <1>1, <1>8 DEF HasOrder, Total

Counting == {"verify", "give", "head"}

LEMMA CalmStep ==
    ASSUME ClaimInv, Typed', \A c \in Consumers : Knows(c)',
           UNCHANGED <<headIndex, dequeueOptimisticCount, dequeueOvercommit>>,
           \A p \in Producers : tailIndex'[p] >= tailIndex[p],
           \A c \in Consumers :
              \/ pc'[c] = pc[c] /\ loc'[c] = loc[c]
              \/ pc[c] \notin Counting /\ pc'[c] \notin Counting
    PROVE  ClaimInv'
<1> SUFFICES ASSUME NEW p \in Producers PROVE Balanced(p)' /\ HasOrder(p)'
  BY DEF ClaimInv
<1>1. Sure(p)' = Sure(p) /\ Returned(p)' = Returned(p)
  BY DEF Sure, Returned, Counting, From
<1>2. \A c \in Consumers :
         /\ Claims(c, p)' <=> Claims(c, p)
         /\ Claims(c, p) => loc'[c].count = loc[c].count /\ loc'[c].base = loc[c].base
  BY DEF Claims, Counting, From
<1>3. Taken(p)' = Taken(p)
  BY <1>1 DEF Taken, Total
<1>4. tailIndex'[p] \in Nat
  BY DEF Typed
<1>5. HasOrder(p)' /\ Total(Claimed(p))' = Total(Claimed(p))
  BY <1>2, <1>3, <1>4, OrderKept
<1>6. Balanced(p)
  BY DEF ClaimInv
<1> QED
  BY <1>1, <1>5, <1>6 DEF Balanced, Total

\* A step of a producer, or on the free list, leaves every consumer where it is.
LEMMA ElsewhereStep ==
    ASSUME ClaimInv, UNCHANGED <<headIndex, dequeueOptimisticCount, dequeueOvercommit>>,
           tailIndex' \in [Producers -> Nat],
           \A p \in Producers : tailIndex'[p] >= tailIndex[p],
           \A c \in Consumers : pc'[c] = pc[c] /\ loc'[c] = loc[c],
           DOMAIN pc' = Threads, DOMAIN loc' = Threads,
           \A p \in Producers : DOMAIN loc'[p] = Fields /\ loc'[p].n \in Nat
    PROVE  ClaimInv'
<1>1. Typed'
  BY Assumed DEF ClaimInv, Typed
<1>2. \A c \in Consumers : Knows(c)'
  BY DEF ClaimInv, Knows, Fits
<1> QED
  BY <1>1, <1>2, CalmStep

\* What a call leaves behind is a call.
LEMMA CallFacts ==
    /\ DOMAIN NoCall = Fields /\ NoCall.n = 0 /\ NoCall.count = 0
    /\ NoCall.left = {} /\ NoCall.from = Null
    /\ \A c, k : /\ DOMAIN Done(c, k) = Fields /\ Done(c, k).n = loc[c].n - k
                 /\ Done(c, k).count = 0 /\ Done(c, k).left = loc[c].left
                 /\ Done(c, k).from = Null
BY DEF NoCall, Done, Fields

\* A producer has a place and a call of its own.
LEMMA ProducerMoves ==
    ASSUME ClaimInv, NEW p \in Producers, NEW call, DOMAIN call = Fields, call.n \in Nat,
           \/ UNCHANGED pc
           \/ \E to : pc' = [pc EXCEPT ![p] = to],
           UNCHANGED loc \/ loc' = [loc EXCEPT ![p] = call]
    PROVE  /\ \A c \in Consumers : pc'[c] = pc[c] /\ loc'[c] = loc[c]
           /\ DOMAIN pc' = Threads /\ DOMAIN loc' = Threads
           /\ \A q \in Producers : DOMAIN loc'[q] = Fields /\ loc'[q].n \in Nat
<1>1. p \in Threads /\ \A c \in Consumers : c \in Threads /\ c # p
  BY Assumed
<1>2. DOMAIN pc = Threads /\ DOMAIN loc = Threads
      /\ \A q \in Producers : q \in Threads /\ DOMAIN loc[q] = Fields /\ loc[q].n \in Nat
  BY Assumed DEF ClaimInv, Typed
<1>3. DOMAIN pc' = Threads /\ \A c \in Consumers : pc'[c] = pc[c]
  BY <1>1, <1>2
<1>4. DOMAIN loc' = Threads /\ \A c \in Consumers : loc'[c] = loc[c]
  BY <1>1, <1>2
<1>5. \A q \in Producers : DOMAIN loc'[q] = Fields /\ loc'[q].n \in Nat
  BY <1>1, <1>2
<1> QED
  BY <1>3, <1>4, <1>5

LEMMA ProducerStep ==
    ASSUME ClaimInv, NEW p \in Producers, Producer(p)
    PROVE  ClaimInv'
<1> DEFINE Moves(call) == /\ DOMAIN call = Fields /\ call.n \in Nat
                          /\ UNCHANGED pc \/ \E to : pc' = [pc EXCEPT ![p] = to]
                          /\ UNCHANGED loc \/ loc' = [loc EXCEPT ![p] = call]
<1>1. /\ DOMAIN loc[p] = Fields /\ loc[p].n \in Nat /\ p \in Threads
      /\ DOMAIN NoCall = Fields /\ NoCall.n \in Nat
  BY Assumed, CallFacts DEF ClaimInv, Typed
<1>2. ASSUME UNCHANGED indices, \E call : Moves(call) PROVE ClaimInv'
  <2>1. PICK call : Moves(call)
    BY <1>2
  <2>2. /\ \A c \in Consumers : pc'[c] = pc[c] /\ loc'[c] = loc[c]
        /\ DOMAIN pc' = Threads /\ DOMAIN loc' = Threads
        /\ \A q \in Producers : DOMAIN loc'[q] = Fields /\ loc'[q].n \in Nat
    BY <2>1, ProducerMoves
  <2>3. /\ tailIndex' \in [Producers -> Nat]
        /\ \A q \in Producers : tailIndex'[q] >= tailIndex[q]
    BY <1>2 DEF indices, ClaimInv, Typed
  <2> QED
    BY <1>2, <2>2, <2>3, ElsewhereStep DEF indices
<1>3. CASE Publish(p)
  <2>1. Moves(NoCall)
    BY <1>1, <1>3 DEF Publish, Go
  <2>2. /\ \A c \in Consumers : pc'[c] = pc[c] /\ loc'[c] = loc[c]
        /\ DOMAIN pc' = Threads /\ DOMAIN loc' = Threads
        /\ \A q \in Producers : DOMAIN loc'[q] = Fields /\ loc'[q].n \in Nat
    BY <2>1, ProducerMoves
  <2>3. tailIndex' = [tailIndex EXCEPT ![p] = @ + loc[p].n] /\ tailIndex \in [Producers -> Nat]
    BY <1>3 DEF Publish, ClaimInv, Typed
  <2>4. /\ tailIndex' \in [Producers -> Nat]
        /\ \A q \in Producers : tailIndex'[q] >= tailIndex[q]
    BY <1>1, <2>3
  <2> QED
    BY <1>3, <2>2, <2>4, ElsewhereStep DEF Publish
<1>4. ASSUME \/ InsertEntry(p) \/ Grow(p) \/ NoRoom(p) \/ FromFreeList(p) \/ NoBlock(p)
             \/ UndoIndex(p) \/ UndoBlock(p) \/ Refuse(p) \/ Place(p)
      PROVE  ClaimInv'
  <2>1. UNCHANGED indices
    BY <1>4 DEF InsertEntry, Grow, NoRoom, FromFreeList, NoBlock, UndoIndex, UndoBlock, Refuse,
                Place
  <2>2. UNCHANGED pc \/ \E to : pc' = [pc EXCEPT ![p] = to]
    BY <1>4 DEF InsertEntry, Grow, NoRoom, FromFreeList, NoBlock, UndoIndex, UndoBlock, Refuse,
                Place, Go, threads
  <2>3. \E call : /\ DOMAIN call = Fields /\ call.n \in Nat
                  /\ UNCHANGED loc \/ loc' = [loc EXCEPT ![p] = call]
    <3>1. ASSUME NEW v PROVE /\ DOMAIN [loc[p] EXCEPT !.entry = v] = Fields
                             /\ [loc[p] EXCEPT !.entry = v].n \in Nat
                             /\ DOMAIN [loc[p] EXCEPT !.got = v] = Fields
                             /\ [loc[p] EXCEPT !.got = v].n \in Nat
      BY <1>1 DEF Fields
    <3>2. CASE InsertEntry(p)
      <4>1. PICK v : loc' = [loc EXCEPT ![p].entry = v]
        BY <3>2 DEF InsertEntry, Set
      <4> QED
        BY <3>1, <4>1
    <3>3. CASE UndoBlock(p)
      <4>1. PICK v : loc' = [loc EXCEPT ![p].got = v]
        BY <3>3 DEF UndoBlock, Set
      <4> QED
        BY <3>1, <4>1
    <3>4. CASE Refuse(p)
      BY <1>1, <3>4 DEF Refuse
    <3>5. CASE Grow(p) \/ NoRoom(p) \/ FromFreeList(p) \/ NoBlock(p) \/ UndoIndex(p) \/ Place(p)
      BY <1>1, <3>5 DEF Grow, NoRoom, FromFreeList, NoBlock, UndoIndex, Place, threads
    <3> QED
      BY <1>4, <3>2, <3>3, <3>4, <3>5
  <2> QED
    BY <1>2, <2>1, <2>2, <2>3
<1>5. ASSUME FromPool(p) \/ GotBlock(p) \/ FromHeap(p) PROVE ClaimInv'
  <2>1. UNCHANGED indices /\ pc' = [pc EXCEPT ![p] = "reserve"]
    BY <1>5 DEF FromPool, GotBlock, FromHeap, Go
  <2>2. PICK b : Use(p, b)
    BY <1>5 DEF FromPool, GotBlock, FromHeap
  <2> DEFINE call == [loc[p] EXCEPT !.got = Append(@, b), !.entry = 0]
  <2>3. loc' = [loc EXCEPT ![p] = call]
    BY <2>2 DEF Use
  <2>4. DOMAIN call = Fields /\ call.n \in Nat
    BY <1>1 DEF Fields
  <2> QED
    BY <1>2, <2>1, <2>3, <2>4
<1> QED
  BY <1>3, <1>4, <1>5 DEF Producer


-----------------------------------------------------------------------------
(* Steps of a consumer.                                                    *)

LEMMA CallMoves ==
    ASSUME ClaimInv, NEW c \in Consumers, NEW to, NEW call, DOMAIN call = Fields,
           pc' = [pc EXCEPT ![c] = to], loc' = [loc EXCEPT ![c] = call]
    PROVE  /\ DOMAIN pc' = Threads /\ DOMAIN loc' = Threads
           /\ \A t \in Threads : DOMAIN loc'[t] = Fields
           /\ \A p \in Producers : loc'[p].n \in Nat
           /\ pc'[c] = to /\ loc'[c] = call
           /\ \A d \in Consumers \ {c} : pc'[d] = pc[d] /\ loc'[d] = loc[d]
<1>1. /\ DOMAIN pc = Threads /\ DOMAIN loc = Threads
      /\ \A t \in Threads : DOMAIN loc[t] = Fields
      /\ \A p \in Producers : loc[p].n \in Nat /\ p \in Threads /\ p # c
      /\ c \in Threads /\ \A d \in Consumers : d \in Threads
  BY Assumed DEF ClaimInv, Typed
<1>2. DOMAIN pc' = Threads /\ pc'[c] = to /\ \A d \in Consumers \ {c} : pc'[d] = pc[d]
  BY <1>1
<1>3. DOMAIN loc' = Threads /\ loc'[c] = call /\ \A t \in Threads \ {c} : loc'[t] = loc[t]
  BY <1>1
<1> QED
  BY <1>1, <1>2, <1>3

\* A step that does not touch the counts.
LEMMA LightMove ==
    ASSUME ClaimInv, NEW c \in Consumers, Typed', UNCHANGED indices,
           \A d \in Consumers \ {c} : pc'[d] = pc[d] /\ loc'[d] = loc[d],
           pc[c] \notin Counting, pc'[c] \notin Counting, Fits(loc'[c], pc'[c])
    PROVE  ClaimInv'
<1>1. Knows(c)'
  BY DEF Knows, Fits, indices
<1>2. \A d \in Consumers \ {c} : Knows(d)'
  BY DEF ClaimInv, Knows, Fits, indices
<1>3. \A p \in Producers : tailIndex'[p] >= tailIndex[p]
  BY DEF ClaimInv, Typed, indices
<1>4. \A d \in Consumers : \/ pc'[d] = pc[d] /\ loc'[d] = loc[d]
                           \/ pc[d] \notin Counting /\ pc'[d] \notin Counting
  OBVIOUS
<1> QED
  BY <1>1, <1>2, <1>3, <1>4, CalmStep DEF indices

LEMMA LightStep ==
    ASSUME ClaimInv, NEW c \in Consumers, NEW to, NEW call, DOMAIN call = Fields,
           pc' = [pc EXCEPT ![c] = to], loc' = [loc EXCEPT ![c] = call], UNCHANGED indices,
           pc[c] \notin Counting, to \notin Counting, Fits(call, to)
    PROVE  ClaimInv'
<1>1. /\ DOMAIN pc' = Threads /\ DOMAIN loc' = Threads
      /\ \A t \in Threads : DOMAIN loc'[t] = Fields
      /\ \A p \in Producers : loc'[p].n \in Nat
      /\ pc'[c] = to /\ loc'[c] = call
      /\ \A d \in Consumers \ {c} : pc'[d] = pc[d] /\ loc'[d] = loc[d]
  BY CallMoves
<1>2. Typed'
  BY <1>1 DEF ClaimInv, Typed, indices
<1> QED
  BY <1>1, <1>2, LightMove

LEMMA BeginDequeueStep ==
    ASSUME ClaimInv, NEW c \in Consumers, NEW n \in Takes, BeginDequeue(c, n)
    PROVE  ClaimInv'
<1> DEFINE to == IF n = 1 THEN "look" ELSE "turn"
           call == [NoCall EXCEPT !.n = n, !.left = Producers]
<1>1. /\ pc[c] = "idle" /\ pc' = [pc EXCEPT ![c] = to] /\ loc' = [loc EXCEPT ![c] = call]
      /\ UNCHANGED indices
  BY DEF BeginDequeue, Step, Go
<1>2. /\ DOMAIN call = Fields /\ call.n = n /\ call.left = Producers
      /\ call.count = 0 /\ call.from = Null /\ n \in Nat \ {0}
  BY Assumed DEF NoCall, Fields
<1> HIDE DEF call
<1>3. Fits(call, to)
  BY <1>2 DEF Fits, AtProducer
<1> QED
  BY <1>1, <1>2, <1>3, LightStep DEF Counting

\* Choosing a producer.
LEMMA ChoosingStep ==
    ASSUME ClaimInv, NEW c \in Consumers, Look(c) \/ Looked(c) \/ Turn(c) \/ EndDequeue(c)
    PROVE  ClaimInv'
<1>1. /\ DOMAIN loc[c] = Fields /\ Fits(loc[c], pc[c]) /\ c \in Threads
      /\ tailIndex \in [Producers -> Nat] /\ headIndex \in [Producers -> Nat]
  BY Assumed DEF ClaimInv, Typed, Knows
<1>2. CASE Look(c)
  <2>1. PICK p \in loc[c].left :
           LET longer == tailIndex[p] - headIndex[p] > loc[c].count
           IN  loc' = [loc EXCEPT ![c].left = @ \ {p},
                                  ![c].count = IF longer THEN tailIndex[p] - headIndex[p] ELSE @,
                                  ![c].from = IF longer THEN p ELSE @]
    BY <1>2 DEF Look
  <2> DEFINE longer == tailIndex[p] - headIndex[p] > loc[c].count
             call == [loc[c] EXCEPT
                        !.left = @ \ {p},
                        !.count = IF longer THEN tailIndex[p] - headIndex[p] ELSE @,
                        !.from = IF longer THEN p ELSE @]
  <2>2. /\ pc[c] = "look" /\ pc' = [pc EXCEPT ![c] = "look"]
        /\ loc' = [loc EXCEPT ![c] = call] /\ UNCHANGED indices
    BY <1>2, <2>1 DEF Look, Step, Go, From
  <2>3. p \in Producers /\ tailIndex[p] - headIndex[p] \in Int
    BY <1>1, <2>1 DEF Fits
  <2>4. /\ DOMAIN call = Fields /\ call.n = loc[c].n /\ call.left \subseteq Producers
        /\ call.count \in Int /\ call.from \in Producers \cup {Null}
    BY <1>1, <2>3 DEF Fits, Fields
  <2> HIDE DEF call
  <2>5. Fits(call, "look")
    BY <1>1, <2>2, <2>4 DEF Fits, AtProducer
  <2> QED
    BY <2>2, <2>4, <2>5, LightStep DEF Counting
<1>3. CASE Looked(c)
  <2> DEFINE to == IF From(c) = Null THEN "idle" ELSE "tail"
             call == IF From(c) = Null THEN NoCall
                     ELSE [loc[c] EXCEPT !.left = Producers \ {From(c)}]
  <2>1. /\ pc[c] = "look" /\ pc' = [pc EXCEPT ![c] = to]
        /\ loc' = [loc EXCEPT ![c] = call] /\ UNCHANGED indices
    BY <1>3 DEF Looked, Step, Go
  <2>2. DOMAIN call = Fields /\ Fits(call, to)
    <3>1. CASE From(c) = Null
      BY <3>1, CallFacts DEF Fits, AtProducer
    <3>2. CASE From(c) # Null
      <4>1. /\ DOMAIN call = Fields /\ call.n = loc[c].n /\ call.count = loc[c].count
            /\ call.from = loc[c].from /\ call.left = Producers \ {From(c)} /\ to = "tail"
        BY <1>1, <3>2 DEF Fields
      <4> HIDE DEF call, to
      <4> QED
        BY <1>1, <2>1, <3>2, <4>1 DEF Fits, From
    <3> QED
      BY <3>1, <3>2
  <2> HIDE DEF call
  <2> QED
    BY <2>1, <2>2, LightStep DEF Counting
<1>4. CASE Turn(c)
  <2>1. PICK p \in loc[c].left : loc' = [loc EXCEPT ![c].from = p, ![c].left = @ \ {p}]
    BY <1>4 DEF Turn
  <2> DEFINE call == [loc[c] EXCEPT !.from = p, !.left = @ \ {p}]
  <2>2. /\ pc[c] = "turn" /\ pc' = [pc EXCEPT ![c] = "tail"] /\ loc[c].n > 0
        /\ loc' = [loc EXCEPT ![c] = call] /\ UNCHANGED indices
    BY <1>4, <2>1 DEF Turn, Step, Go
  <2>3. /\ DOMAIN call = Fields /\ call.n = loc[c].n /\ call.count = loc[c].count
        /\ call.from = p /\ call.left \subseteq Producers /\ p \in Producers
    BY <1>1, <2>1 DEF Fields, Fits
  <2> HIDE DEF call
  <2>4. Fits(call, "tail")
    BY <1>1, <2>2, <2>3 DEF Fits
  <2> QED
    BY <2>2, <2>3, <2>4, LightStep DEF Counting
<1>5. CASE EndDequeue(c)
  <2>1. /\ pc[c] = "turn" /\ pc' = [pc EXCEPT ![c] = "idle"]
        /\ loc' = [loc EXCEPT ![c] = NoCall] /\ UNCHANGED indices
    BY <1>5 DEF EndDequeue, Step, Go
  <2>2. DOMAIN NoCall = Fields /\ Fits(NoCall, "idle")
    BY CallFacts DEF Fits, AtProducer
  <2> QED
    BY <2>1, <2>2, LightStep DEF Counting
<1> QED
  BY <1>2, <1>3, <1>4, <1>5

\* Reading the counts.
LEMMA ReadingStep ==
    ASSUME ClaimInv, NEW c \in Consumers,
           ReadTail(c) \/ ReadOvercommit(c) \/ ReadOptimistic(c)
    PROVE  ClaimInv'
<1>1. /\ DOMAIN loc[c] = Fields /\ Fits(loc[c], pc[c]) /\ c \in Threads
      /\ tailIndex \in [Producers -> Nat] /\ dequeueOvercommit \in [Producers -> Nat]
      /\ dequeueOptimisticCount \in [Producers -> Nat]
  BY Assumed DEF ClaimInv, Typed, Knows
<1>2. CASE ReadTail(c)
  <2> DEFINE call == [loc[c] EXCEPT !.count = tailIndex[From(c)]]
  <2>1. /\ pc[c] = "tail" /\ pc' = [pc EXCEPT ![c] = "overcommit"]
        /\ loc' = [loc EXCEPT ![c] = call] /\ UNCHANGED indices
    BY <1>2 DEF ReadTail, Step, Go, Set
  <2>2. From(c) \in Producers
    BY <1>1, <2>1 DEF Fits, AtProducer, From
  <2>3. /\ DOMAIN call = Fields /\ call.n = loc[c].n /\ call.count \in Int
        /\ call.from = loc[c].from /\ call.left = loc[c].left
    BY <1>1, <2>2 DEF Fields
  <2> HIDE DEF call
  <2>4. Fits(call, "overcommit")
    BY <1>1, <2>1, <2>2, <2>3 DEF Fits, From
  <2> QED
    BY <2>1, <2>3, <2>4, LightStep DEF Counting
<1>3. CASE ReadOvercommit(c)
  <2> DEFINE call == [loc[c] EXCEPT !.base = dequeueOvercommit[From(c)]]
  <2>1. /\ pc[c] = "overcommit" /\ pc' = [pc EXCEPT ![c] = "optimistic"]
        /\ loc' = [loc EXCEPT ![c] = call] /\ UNCHANGED indices
    BY <1>3 DEF ReadOvercommit, Step, Go, Set
  <2>2. From(c) \in Producers
    BY <1>1, <2>1 DEF Fits, AtProducer, From
  <2>3. /\ DOMAIN call = Fields /\ call.n = loc[c].n /\ call.count = loc[c].count
        /\ call.from = loc[c].from /\ call.left = loc[c].left
        /\ call.base = dequeueOvercommit[From(c)] /\ call.base \in Nat
    BY <1>1, <2>2 DEF Fields
  <2> HIDE DEF call
  <2>4. Fits(call, "optimistic")
    BY <1>1, <2>1, <2>2, <2>3 DEF Fits, From
  <2> QED
    BY <2>1, <2>3, <2>4, LightStep DEF Counting
<1>4. CASE ReadOptimistic(c)
  <2> DEFINE desired == loc[c].count - (dequeueOptimisticCount[From(c)] - loc[c].base)
             few == IF desired < loc[c].n THEN desired ELSE loc[c].n
             to == IF desired > 0 THEN "claim" ELSE "turn"
             call == IF desired > 0 THEN [loc[c] EXCEPT !.count = few] ELSE Done(c, 0)
  <2>1. /\ pc[c] = "optimistic" /\ pc' = [pc EXCEPT ![c] = to]
        /\ loc' = [loc EXCEPT ![c] = call] /\ UNCHANGED indices
    <3>1. pc[c] = "optimistic" /\ pc' = [pc EXCEPT ![c] = to] /\ UNCHANGED indices
      BY <1>4 DEF ReadOptimistic, Step, Go
    <3>2. loc' = [loc EXCEPT ![c] = call]
      BY <1>4 DEF ReadOptimistic, Set
    <3> QED
      BY <3>1, <3>2
  <2>2. From(c) \in Producers /\ loc[c].n >= 1 /\ loc[c].n \in Int /\ loc[c].count \in Int
        /\ loc[c].base \in Nat /\ loc[c].base <= dequeueOvercommit[From(c)]
        /\ loc[c].left \subseteq Producers
    BY <1>1, <2>1 DEF Fits, AtProducer, From
  <2>3. desired \in Int /\ (desired > 0 => few \in Nat /\ few >= 1)
    BY <1>1, <2>2
  <2> HIDE DEF desired, few
  <2>4. DOMAIN call = Fields /\ Fits(call, to)
    <3>1. CASE desired > 0
      <4>1. /\ DOMAIN call = Fields /\ call.n = loc[c].n /\ call.count = few
            /\ call.from = loc[c].from /\ call.left = loc[c].left
            /\ call.base = loc[c].base /\ to = "claim"
        BY <1>1, <3>1 DEF Fields
      <4> HIDE DEF call, to
      <4> QED
        BY <2>2, <2>3, <3>1, <4>1 DEF Fits, From
    <3>2. CASE ~(desired > 0)
      <4>1. /\ DOMAIN call = Fields /\ call.n = loc[c].n - 0 /\ call.count = 0
            /\ call.from = Null /\ call.left = loc[c].left /\ to = "turn"
        BY <3>2, CallFacts
      <4> HIDE DEF call, to
      <4> QED
        BY <2>2, <4>1 DEF Fits, AtProducer
    <3> QED
      BY <3>1, <3>2
  <2> HIDE DEF call
  <2> QED
    BY <2>1, <2>4, LightStep DEF Counting
<1> QED
  BY <1>2, <1>3, <1>4

\* Taking what was claimed.
LEMMA TakingStep ==
    ASSUME ClaimInv, NEW c \in Consumers,
           \/ LoadHeader(c) \/ LoadSlot(c) \/ LoadKey(c) \/ Take(c) \/ SetEmpty(c)
           \/ Unindex(c) \/ Freed(c)
    PROVE  ClaimInv'
<1> DEFINE Loaded == {"header", "slot", "key", "take", "read", "unindex", "free"}
<1>1. /\ DOMAIN loc[c] = Fields /\ Fits(loc[c], pc[c]) /\ c \in Threads
      /\ DOMAIN loc = Threads
  BY Assumed DEF ClaimInv, Typed, Knows
<1>2. ASSUME pc[c] \in Loaded
      PROVE  Fits(Done(c, loc[c].count), "turn")
  BY <1>1, <1>2, CallFacts DEF Fits, AtProducer
<1>3. ASSUME pc[c] \in Loaded, NEW to \in Loaded, NEW call, call.n = loc[c].n,
             call.count = loc[c].count, call.left = loc[c].left, call.from = loc[c].from
      PROVE  Fits(call, to)
  <2>1. pc[c] \in AtProducer /\ to \in AtProducer
    BY <1>3 DEF AtProducer
  <2> QED
    BY <1>1, <1>3, <2>1 DEF Fits
<1>4. ASSUME NEW v, NEW w, NEW u
      PROVE  LET call == [loc[c] EXCEPT !.base = v, !.pos = w, !.block = u]
             IN  /\ DOMAIN call = Fields /\ call.n = loc[c].n /\ call.count = loc[c].count
                 /\ call.left = loc[c].left /\ call.from = loc[c].from
  BY <1>1 DEF Fields
<1>5. ASSUME pc[c] \in Loaded
      PROVE  DOMAIN NextBlock(c) = Fields /\ Fits(NextBlock(c), Onward(c))
             /\ Onward(c) \in {"turn", "take"}
  <2>1. CASE End(c) = loc[c].extra
    BY <1>2, <1>5, <2>1, CallFacts DEF NextBlock, Onward
  <2>2. CASE End(c) # loc[c].extra
    <3>1. PICK v : v = Later(Header(c), loc[c].pos, 1)
      OBVIOUS
    <3> DEFINE call == [loc[c] EXCEPT !.base = End(c), !.pos = v, !.block = Null]
    <3>2. NextBlock(c) = call /\ Onward(c) = "take"
      BY <2>2, <3>1 DEF NextBlock, Onward
    <3>3. /\ DOMAIN call = Fields /\ call.n = loc[c].n /\ call.count = loc[c].count
          /\ call.left = loc[c].left /\ call.from = loc[c].from
      BY <1>4
    <3> HIDE DEF call
    <3>4. Fits(call, "take")
      BY <1>3, <1>5, <3>3
    <3> QED
      BY <3>2, <3>3, <3>4
  <2> QED
    BY <2>1, <2>2
<1>6. ASSUME LoadHeader(c) \/ LoadSlot(c) \/ LoadKey(c) \/ Take(c) PROVE ClaimInv'
  <2>0. PICK field \in {"header", "pos", "block"} : \E v : Set(c, field, v)
    BY <1>6 DEF LoadHeader, LoadSlot, LoadKey, Take
  <2>1. PICK v : Set(c, field, v)
    BY <2>0
  <2>2. PICK to \in Loaded : Step(c, pc[c], to) /\ pc[c] \in Loaded
    BY <1>6 DEF LoadHeader, LoadSlot, LoadKey, Take, Step, Go
  <2> DEFINE call == [loc[c] EXCEPT ![field] = v]
  <2>3. loc' = [loc EXCEPT ![c] = call]
    BY <2>1 DEF Set
  <2>4. /\ DOMAIN call = Fields /\ call.n = loc[c].n /\ call.count = loc[c].count
        /\ call.left = loc[c].left /\ call.from = loc[c].from
    BY <1>1, <2>1 DEF Fields
  <2> HIDE DEF call
  <2>5. Fits(call, to)
    BY <1>3, <2>2, <2>4
  <2>6. pc' = [pc EXCEPT ![c] = to] /\ UNCHANGED indices
    BY <2>2 DEF Step, Go
  <2> QED
    BY <2>2, <2>3, <2>4, <2>5, <2>6, LightStep DEF Counting
<1>7. CASE Freed(c)
  <2>1. /\ pc[c] = "free" /\ pc' = [pc EXCEPT ![c] = Onward(c)]
        /\ loc' = [loc EXCEPT ![c] = NextBlock(c)] /\ UNCHANGED indices
    BY <1>7 DEF Freed, Step, Go
  <2> QED
    BY <1>5, <2>1, LightStep DEF Counting
<1>8. CASE SetEmpty(c)
  <2>1. /\ UNCHANGED indices /\ pc[c] \in Loaded
        /\ \/ pc' = [pc EXCEPT ![c] = Onward(c)] /\ loc' = [loc EXCEPT ![c] = NextBlock(c)]
           \/ pc' = [pc EXCEPT ![c] = "unindex"] /\ loc' = [loc EXCEPT ![c] = loc[c]]
    BY <1>8 DEF SetEmpty, Go
  <2>2. Fits(loc[c], "unindex")
    BY <1>3, <2>1
  <2> QED
    BY <1>1, <1>5, <2>1, <2>2, LightStep DEF Counting
<1>9. CASE Unindex(c)
  <2>1. /\ UNCHANGED indices /\ UNCHANGED loc
        /\ pc[c] = "unindex" /\ pc' = [pc EXCEPT ![c] = "free"]
    BY <1>9 DEF Unindex, Go
  <2>2. Fits(loc[c], "free")
    BY <1>3, <2>1
  <2>3. /\ DOMAIN pc' = Threads /\ pc'[c] = "free"
        /\ \A d \in Consumers \ {c} : pc'[d] = pc[d] /\ loc'[d] = loc[d]
    BY <1>1, <2>1, Assumed DEF ClaimInv, Typed
  <2>4. Typed'
    BY <2>1, <2>3 DEF ClaimInv, Typed, indices
  <2> QED
    BY <2>1, <2>2, <2>3, <2>4, LightMove DEF Counting
<1> QED
  BY <1>6, <1>7, <1>8, <1>9


-----------------------------------------------------------------------------
(* Claiming, verifying, giving back and taking.                            *)

\* What consumer c does to the counts of producer p leaves the other producers alone.
CountsAt(c, p) ==
    /\ p \in Producers /\ From(c) = p
    /\ pc'[c] \in Counting => loc'[c].from = p
    /\ \A d \in Consumers \ {c} : pc'[d] = pc[d] /\ loc'[d] = loc[d]
    /\ UNCHANGED tailIndex
    /\ \A q \in Producers \ {p} :
          /\ headIndex'[q] = headIndex[q] /\ dequeueOvercommit'[q] = dequeueOvercommit[q]
          /\ dequeueOptimisticCount'[q] = dequeueOptimisticCount[q]

LEMMA OthersKept ==
    ASSUME ClaimInv, NEW c \in Consumers, NEW p, CountsAt(c, p), NEW q \in Producers, q # p
    PROVE  Balanced(q)' /\ HasOrder(q)'
<1>1. \A d \in Consumers :
         \/ pc'[d] = pc[d] /\ loc'[d] = loc[d]
         \/ loc[d].from # q /\ (pc'[d] \in Counting => loc'[d].from # q)
  BY DEF CountsAt, From
<1>2. Sure(q)' = Sure(q) /\ Returned(q)' = Returned(q)
  BY <1>1 DEF Sure, Returned, From, Counting
<1>3. \A d \in Consumers :
         /\ Claims(d, q)' <=> Claims(d, q)
         /\ Claims(d, q) => loc'[d].count = loc[d].count /\ loc'[d].base = loc[d].base
  BY <1>1 DEF Claims, From, Counting
<1>4. Taken(q)' = Taken(q)
  BY <1>2 DEF Taken, Total, CountsAt
<1>5. tailIndex'[q] \in Nat /\ tailIndex'[q] >= tailIndex[q]
  BY DEF CountsAt, ClaimInv, Typed
<1>6. dequeueOptimisticCount'[q] = dequeueOptimisticCount[q]
  BY DEF CountsAt
<1>7. HasOrder(q)' /\ Total(Claimed(q))' = Total(Claimed(q))
  BY <1>3, <1>4, <1>5, <1>6, OrderKept
<1>8. Balanced(q)
  BY DEF ClaimInv
<1> QED
  BY <1>2, <1>7, <1>8 DEF Balanced, Total, CountsAt

\* The sums before and after a step of c: each changes by what it changes at c.
LEMMA SumsMove ==
    ASSUME ClaimInv, NEW c \in Consumers, NEW p, CountsAt(c, p),
           NEW u \in Int, NEW v \in Int, NEW w \in Int,
           Claimed(p)'[c] = Claimed(p)[c] + u,
           Sure(p)'[c] = Sure(p)[c] + v,
           Returned(p)'[c] = Returned(p)[c] + w
    PROVE  /\ Total(Claimed(p))' = Total(Claimed(p)) + u
           /\ Total(Sure(p))' = Total(Sure(p)) + v
           /\ Total(Returned(p))' = Total(Returned(p)) + w
           /\ \A at, m : at[c] < m =>
                 Total(Before(p, at, m))' = Total(Before(p, at, m)) + u
           /\ \A at, m : ~(at[c] < m) =>
                 Total(Before(p, at, m))' = Total(Before(p, at, m))
<1>1. /\ p \in Producers /\ \A d \in Consumers \ {c} : pc'[d] = pc[d] /\ loc'[d] = loc[d]
  BY DEF CountsAt
<1>2. \A d \in Consumers \ {c} : /\ Claimed(p)'[d] = Claimed(p)[d]
                                 /\ Sure(p)'[d] = Sure(p)[d]
                                 /\ Returned(p)'[d] = Returned(p)[d]
  BY <1>1 DEF Claimed, Claims, Sure, Returned, From
<1>3. /\ Summable(Claimed(p)) /\ Summable(Sure(p)) /\ Summable(Returned(p))
      /\ \A at, m : Summable(Before(p, at, m))
  BY <1>1, WeightFacts
<1>4. Total(Claimed(p)') = Total(Claimed(p)) + u
  BY <1>2, <1>3, TotalChanged
<1>5. Total(Sure(p)') = Total(Sure(p)) + v
  BY <1>2, <1>3, TotalChanged
<1>6. Total(Returned(p)') = Total(Returned(p)) + w
  BY <1>2, <1>3, TotalChanged
<1>7. ASSUME NEW at, NEW m, at[c] < m
      PROVE  Total(Before(p, at, m)') = Total(Before(p, at, m)) + u
  <2> DEFINE f == Before(p, at, m)
             g == Before(p, at, m)'
  <2>1. g[c] = f[c] + u /\ \A d \in Consumers \ {c} : g[d] = f[d]
    BY <1>2, <1>7 DEF Before
  <2>2. Summable(f)
    BY <1>3
  <2> HIDE DEF f, g
  <2>3. Total(g) = Total(f) + u
    BY ONLY <2>1, <2>2, TotalChanged, c \in Consumers, u \in Int
  <2> QED
    BY <2>3 DEF f, g
<1>8. ASSUME NEW at, NEW m, ~(at[c] < m)
      PROVE  Total(Before(p, at, m)') = Total(Before(p, at, m))
  <2> DEFINE f == Before(p, at, m)
             g == Before(p, at, m)'
  <2>1. \A d \in Consumers : g[d] = f[d]
    BY <1>2, <1>8 DEF Before
  <2>2. Summable(f)
    BY <1>3
  <2> HIDE DEF f, g
  <2>3. Total(g) = Total(f)
    BY ONLY <2>1, <2>2, TotalSame
  <2> QED
    BY <2>3 DEF f, g
<1> QED
  BY <1>4, <1>5, <1>6, <1>7, <1>8 DEF Total


LEMMA CountingMove ==
    ASSUME ClaimInv, NEW c \in Consumers, NEW p, CountsAt(c, p), Typed', Knows(c)',
           \A q \in Producers : dequeueOvercommit'[q] >= dequeueOvercommit[q],
           Balanced(p)', HasOrder(p)'
    PROVE  ClaimInv'
<1>1. ASSUME NEW d \in Consumers \ {c} PROVE Knows(d)'
  <2>1. Fits(loc[d], pc[d]) /\ pc'[d] = pc[d] /\ loc'[d] = loc[d]
    BY DEF CountsAt, ClaimInv, Knows
  <2>2. pc[d] \in {"optimistic", "claim"} =>
           loc[d].from \in Producers /\ loc[d].base \in Nat
             /\ loc[d].base <= dequeueOvercommit[loc[d].from]
    BY <2>1 DEF Fits, AtProducer
  <2>3. \A q \in Producers : dequeueOvercommit'[q] \in Nat /\ dequeueOvercommit[q] \in Nat
    BY DEF ClaimInv, Typed
  <2>4. pc[d] \in {"optimistic", "claim"} => loc[d].base <= dequeueOvercommit'[loc[d].from]
    BY <2>2, <2>3
  <2> QED
    BY <2>1, <2>4 DEF Knows, Fits
<1>2. ASSUME NEW q \in Producers PROVE Balanced(q)' /\ HasOrder(q)'
  BY OthersKept
<1> QED
  BY <1>1, <1>2 DEF ClaimInv

\* A claim is made at the end of all claims: there base leaves room for them.
LEMMA ClaimStep ==
    ASSUME ClaimInv, NEW c \in Consumers, Claim(c), NEW p, From(c) = p
    PROVE  ClaimInv'
<1>17. PICK k : k = loc[c].count
  OBVIOUS
<1>18. PICK old : old = dequeueOptimisticCount[p]
  OBVIOUS
<1> DEFINE call == [loc[c] EXCEPT !.base = old - loc[c].base]
<1>1. /\ pc[c] = "claim" /\ pc' = [pc EXCEPT ![c] = "verify"] /\ loc' = [loc EXCEPT ![c] = call]
      /\ dequeueOptimisticCount' = [dequeueOptimisticCount EXCEPT ![p] = @ + k]
      /\ UNCHANGED <<tailIndex, headIndex, dequeueOvercommit>>
  BY <1>17, <1>18 DEF Claim, Go, Set
<1>2. /\ p \in Producers /\ k \in Int /\ k >= 1 /\ loc[c].base \in Nat
      /\ loc[c].base <= dequeueOvercommit[p] /\ DOMAIN loc[c] = Fields /\ Fits(loc[c], "claim")
      /\ c \in Threads
  BY <1>1, <1>17, Assumed DEF ClaimInv, Knows, Fits, AtProducer, From, Typed
<1>3. /\ old \in Nat /\ dequeueOvercommit[p] \in Nat /\ headIndex[p] \in Nat
      /\ tailIndex[p] \in Nat
  BY <1>2, <1>18 DEF ClaimInv, Typed
<1>4. /\ DOMAIN call = Fields /\ call.n = loc[c].n /\ call.count = k /\ call.left = loc[c].left
      /\ call.from = p /\ call.base = old - loc[c].base
  BY <1>2, <1>17 DEF Fields, From
<1> HIDE DEF call
<1>5. /\ DOMAIN pc' = Threads /\ DOMAIN loc' = Threads
      /\ \A t \in Threads : DOMAIN loc'[t] = Fields
      /\ \A q \in Producers : loc'[q].n \in Nat
      /\ pc'[c] = "verify" /\ loc'[c] = call
      /\ \A d \in Consumers \ {c} : pc'[d] = pc[d] /\ loc'[d] = loc[d]
  BY <1>1, <1>4, CallMoves
<1>6. /\ dequeueOptimisticCount' \in [Producers -> Nat]
      /\ dequeueOptimisticCount'[p] = old + k
      /\ \A q \in Producers \ {p} : dequeueOptimisticCount'[q] = dequeueOptimisticCount[q]
  <2>1. old + k \in Nat /\ dequeueOptimisticCount \in [Producers -> Nat]
    BY <1>2, <1>3 DEF ClaimInv, Typed
  <2> QED
    BY <1>1, <1>2, <1>18, <2>1
<1>7. Typed'
  BY <1>1, <1>5, <1>6 DEF ClaimInv, Typed
<1>8. Knows(c)'
  <2>1. call.base \in Int
    BY <1>2, <1>3, <1>4
  <2> QED
    BY <1>1, <1>2, <1>4, <1>5, <2>1 DEF Knows, Fits
<1>9. CountsAt(c, p)
  BY <1>1, <1>2, <1>4, <1>5, <1>6 DEF CountsAt
<1>10. /\ Claimed(p)'[c] = Claimed(p)[c] + k /\ Claimed(p)[c] = 0
       /\ Sure(p)'[c] = Sure(p)[c] + 0 /\ Returned(p)'[c] = Returned(p)[c] + 0
  BY <1>1, <1>2, <1>4, <1>5 DEF Claimed, Claims, Sure, Returned, From
<1>11. /\ Total(Claimed(p))' = Total(Claimed(p)) + k
       /\ Total(Sure(p))' = Total(Sure(p)) + 0
       /\ Total(Returned(p))' = Total(Returned(p)) + 0
       /\ \A at, m : ~(at[c] < m) => Total(Before(p, at, m))' = Total(Before(p, at, m))
  <2>1. 0 \in Int
    OBVIOUS
  <2> QED
    BY ONLY <1>2, <1>9, <1>10, <2>1, ClaimInv, c \in Consumers, SumsMove
<1>12. /\ Total(Claimed(p)) \in Nat /\ Total(Sure(p)) \in Nat /\ Total(Returned(p)) \in Nat
       /\ \A at, m : Total(Before(p, at, m)) \in Nat
  BY <1>2, WeightFacts
<1>13. old = dequeueOvercommit[p] + headIndex[p]
                + Total(Claimed(p)) + Total(Sure(p)) + Total(Returned(p))
  BY <1>2, <1>18 DEF ClaimInv, Balanced
<1>14. Balanced(p)'
  <2>1. headIndex' = headIndex /\ dequeueOvercommit' = dequeueOvercommit
    BY <1>1
  <2> QED
    BY <1>2, <1>3, <1>6, <1>11, <1>12, <1>13, <2>1 DEF Balanced
<1>15. HasOrder(p)'
  <2>1. PICK at, cut : Orderly(p, at, cut)
    BY <1>2 DEF ClaimInv, HasOrder
  <2>3. PICK at2 : at2 = [at EXCEPT ![c] = old]
    OBVIOUS
  <2>2. /\ at \in [Consumers -> Nat] /\ cut \in Nat /\ cut <= old
        /\ \A d \in Consumers : Claims(d, p) => at[d] < old
        /\ \A d, e \in Consumers : Claims(d, p) /\ Claims(e, p) /\ at[d] = at[e] => d = e
        /\ Taken(p) + Total(Before(p, at, cut)) <= tailIndex[p]
        /\ \A d \in Consumers : Claims(d, p) /\ at[d] >= cut =>
              Taken(p) + Total(Before(p, at, at[d])) <= loc[d].base
    BY <1>18, <2>1 DEF Orderly
  <2>14. /\ at2 \in [Consumers -> Nat] /\ at2[c] = old
        /\ \A d \in Consumers \ {c} : at2[d] = at[d]
    BY <1>3, <2>2, <2>3
  <2>4. \A d \in Consumers \ {c} : Claims(d, p)' <=> Claims(d, p)
    BY <1>5 DEF Claims, From
  <2>6. ASSUME NEW m \in Nat, m <= old
        PROVE  Total(Before(p, at2, m))' = Total(Before(p, at, m))
    <3>1. ~(at2[c] < m)
      BY <1>3, <2>14, <2>6
    <3>2. Total(Before(p, at2, m))' = Total(Before(p, at2, m))
      BY <1>11, <3>1
    <3>3. \A d \in Consumers : Before(p, at2, m)[d] = Before(p, at, m)[d]
      BY <1>10, <2>14 DEF Before
    <3>4. Summable(Before(p, at, m))
      BY <1>2, WeightFacts
    <3>5. Total(Before(p, at2, m)) = Total(Before(p, at, m))
      BY <3>3, <3>4, TotalSame
    <3> QED
      BY <3>2, <3>5
  <2>7. Taken(p)' = Taken(p) /\ Taken(p) \in Int
    BY <1>1, <1>3, <1>11, <1>12 DEF Taken
  <2>8. Taken(p)' + Total(Before(p, at2, cut))' <= tailIndex'[p]
    <3>1. Total(Before(p, at2, cut))' = Total(Before(p, at, cut))
      BY <2>2, <2>6
    <3> QED
      BY <1>1, <2>2, <2>7, <3>1
  <2>9. ASSUME NEW d \in Consumers \ {c}, Claims(d, p)', at2[d] >= cut
        PROVE  Taken(p)' + Total(Before(p, at2, at2[d]))' <= loc'[d].base
    <3>1. Claims(d, p) /\ at2[d] = at[d] /\ at[d] \in Nat /\ at[d] <= old /\ at[d] >= cut
      BY <1>3, <2>2, <2>14, <2>4, <2>9
    <3>2. Total(Before(p, at2, at[d]))' = Total(Before(p, at, at[d]))
      BY <2>6, <3>1
    <3> QED
      BY <1>5, <2>2, <2>7, <3>1, <3>2
  <2>10. Taken(p)' + Total(Before(p, at2, at2[c]))' <= loc'[c].base
    <3>1. Total(Before(p, at2, old))' = Total(Before(p, at, old))
      BY <1>3, <2>6
    <3>2. \A d \in Consumers : Before(p, at, old)[d] = Claimed(p)[d]
      BY <2>2 DEF Before, Claimed
    <3>3. Total(Before(p, at, old)) = Total(Claimed(p))
      <4>1. Summable(Claimed(p))
        BY <1>2, WeightFacts
      <4> QED
        BY <3>2, <4>1, TotalSame
    <3>4. loc'[c].base = old - loc[c].base
      BY <1>4, <1>5
    <3>5. Taken(p) = headIndex[p] + Total(Sure(p))
      BY DEF Taken
    <3>6. Taken(p) + Total(Claimed(p)) <= old - loc[c].base
      BY ONLY <1>2, <1>3, <1>12, <1>13, <3>5
    <3> QED
      BY ONLY <2>14, <2>7, <3>1, <3>3, <3>4, <3>6
  <2>11. /\ cut <= dequeueOptimisticCount'[p]
         /\ \A d \in Consumers : Claims(d, p)' => at2[d] < dequeueOptimisticCount'[p]
    <3>1. \A d \in Consumers : Claims(d, p)' => at2[d] <= old
      BY <1>3, <2>2, <2>14, <2>4
    <3>2. \A d \in Consumers : at2[d] \in Nat
      BY <2>14
    <3> QED
      BY ONLY <1>2, <1>3, <1>6, <2>2, <3>1, <3>2
  <2>12. \A d, e \in Consumers : Claims(d, p)' /\ Claims(e, p)' /\ at2[d] = at2[e] => d = e
    <3>1. \A d \in Consumers \ {c} : Claims(d, p)' => Claims(d, p) /\ at2[d] = at[d] /\ at[d] < old
      BY <2>2, <2>14, <2>4
    <3>2. \A d \in Consumers : at[d] \in Nat
      BY <2>2
    <3> QED
      BY <1>3, <2>2, <2>14, <3>1, <3>2
  <2>13. Orderly(p, at2, cut)'
    BY <2>2, <2>14, <2>8, <2>9, <2>10, <2>11, <2>12 DEF Orderly
  <2> QED
    BY <2>13 DEF HasOrder
<1>16. \A q \in Producers : dequeueOvercommit'[q] >= dequeueOvercommit[q]
  BY <1>1 DEF ClaimInv, Typed
<1> QED
  BY <1>7, <1>8, <1>9, <1>14, <1>15, <1>16, CountingMove


\* A claim is verified: what it gets is taken, the rest will be given back.  If it gets
\* anything, the claims before it are those that must fit.
LEMMA VerifyStep ==
    ASSUME ClaimInv, NEW c \in Consumers, Verify(c), NEW p, From(c) = p
    PROVE  ClaimInv'
<1>1. PICK k : k = loc[c].count
  OBVIOUS
<1>2. PICK base : base = loc[c].base
  OBVIOUS
<1>3. PICK there : there = tailIndex[p] - base
  OBVIOUS
<1>4. PICK actual : actual = IF there < 0 THEN 0 ELSE IF there < k THEN there ELSE k
  OBVIOUS
<1> DEFINE to == IF actual = k THEN "head" ELSE "give"
           call == [loc[c] EXCEPT !.count = actual, !.extra = k - actual, !.base = 0]
<1>5. /\ pc[c] = "verify" /\ pc' = [pc EXCEPT ![c] = to] /\ loc' = [loc EXCEPT ![c] = call]
      /\ UNCHANGED <<tailIndex, headIndex, dequeueOptimisticCount, dequeueOvercommit>>
  BY <1>1, <1>2, <1>3, <1>4 DEF Verify, Step, Go, indices
<1>6. /\ p \in Producers /\ k \in Int /\ k >= 1 /\ base \in Int
      /\ DOMAIN loc[c] = Fields /\ Fits(loc[c], "verify") /\ c \in Threads
  BY <1>1, <1>2, <1>5, Assumed DEF ClaimInv, Knows, Fits, AtProducer, From, Typed
<1>7. /\ dequeueOptimisticCount[p] \in Nat /\ dequeueOvercommit[p] \in Nat
      /\ headIndex[p] \in Nat /\ tailIndex[p] \in Nat
  BY <1>6 DEF ClaimInv, Typed
<1>8. /\ actual \in Nat /\ actual <= k /\ k - actual \in Nat
      /\ actual > 0 => base + actual <= tailIndex[p]
  BY <1>3, <1>4, <1>6, <1>7
<1>9. /\ DOMAIN call = Fields /\ call.n = loc[c].n /\ call.count = actual
      /\ call.left = loc[c].left /\ call.from = p /\ call.extra = k - actual
  BY <1>6 DEF Fields, From
<1> HIDE DEF call
<1>10. /\ DOMAIN pc' = Threads /\ DOMAIN loc' = Threads
       /\ \A t \in Threads : DOMAIN loc'[t] = Fields
       /\ \A q \in Producers : loc'[q].n \in Nat
       /\ pc'[c] = to /\ loc'[c] = call
       /\ \A d \in Consumers \ {c} : pc'[d] = pc[d] /\ loc'[d] = loc[d]
  <2>1. pc' = [pc EXCEPT ![c] = to] /\ loc' = [loc EXCEPT ![c] = call]
    BY <1>5
  <2>2. DOMAIN call = Fields
    BY <1>9
  <2> HIDE DEF to
  <2> QED
    BY <2>1, <2>2, CallMoves
<1>11. Typed'
  BY <1>5, <1>10 DEF ClaimInv, Typed
<1>12. Knows(c)'
  BY <1>5, <1>6, <1>8, <1>9, <1>10 DEF Knows, Fits
<1>13. CountsAt(c, p)
  BY <1>5, <1>6, <1>9, <1>10 DEF CountsAt
<1>14. /\ Claimed(p)'[c] = Claimed(p)[c] + -k
       /\ Sure(p)'[c] = Sure(p)[c] + actual
       /\ Returned(p)'[c] = Returned(p)[c] + (k - actual)
  <2>1. Claimed(p)[c] = k /\ Sure(p)[c] = 0 /\ Returned(p)[c] = 0
    BY <1>1, <1>5 DEF Claimed, Claims, Sure, Returned
  <2>2. Claimed(p)'[c] = 0 /\ Sure(p)'[c] = actual
    BY <1>9, <1>10 DEF Claimed, Claims, Sure, From
  <2>3. Returned(p)'[c] = k - actual
    <3>1. CASE actual = k
      BY <1>6, <1>10, <3>1 DEF Returned
    <3>2. CASE actual # k
      BY <1>9, <1>10, <3>2 DEF Returned, From
    <3> QED
      BY <3>1, <3>2
  <2> QED
    BY <1>6, <1>8, <2>1, <2>2, <2>3
<1>15. /\ Total(Claimed(p))' = Total(Claimed(p)) + -k
       /\ Total(Sure(p))' = Total(Sure(p)) + actual
       /\ Total(Returned(p))' = Total(Returned(p)) + (k - actual)
       /\ \A at, m : at[c] < m =>
             Total(Before(p, at, m))' = Total(Before(p, at, m)) + -k
       /\ \A at, m : ~(at[c] < m) => Total(Before(p, at, m))' = Total(Before(p, at, m))
  <2>1. -k \in Int /\ actual \in Int /\ k - actual \in Int
    BY <1>6, <1>8
  <2> QED
    BY ONLY <1>13, <1>14, <2>1, ClaimInv, c \in Consumers, SumsMove
<1>16. /\ Total(Claimed(p)) \in Nat /\ Total(Sure(p)) \in Nat /\ Total(Returned(p)) \in Nat
       /\ \A at, m : Total(Before(p, at, m)) \in Nat
  BY <1>6, WeightFacts
<1>17. Balanced(p)'
  <2>1. dequeueOptimisticCount[p] = dequeueOvercommit[p] + headIndex[p]
                + Total(Claimed(p)) + Total(Sure(p)) + Total(Returned(p))
    BY <1>6 DEF ClaimInv, Balanced
  <2>2. /\ headIndex'[p] = headIndex[p] /\ dequeueOvercommit'[p] = dequeueOvercommit[p]
        /\ dequeueOptimisticCount'[p] = dequeueOptimisticCount[p]
    BY <1>5
  <2>3. dequeueOptimisticCount'[p] = dequeueOvercommit'[p] + headIndex'[p]
                + Total(Claimed(p))' + Total(Sure(p))' + Total(Returned(p))'
    BY ONLY <1>6, <1>7, <1>8, <1>15, <1>16, <2>1, <2>2
  <2> QED
    BY <2>3 DEF Balanced
<1>18. HasOrder(p)'
  <2>1. PICK at, cut : Orderly(p, at, cut)
    BY <1>6 DEF ClaimInv, HasOrder
  <2>2. /\ at \in [Consumers -> Nat] /\ cut \in Nat /\ cut <= dequeueOptimisticCount[p]
        /\ \A d \in Consumers : Claims(d, p) => at[d] < dequeueOptimisticCount[p]
        /\ \A d, e \in Consumers : Claims(d, p) /\ Claims(e, p) /\ at[d] = at[e] => d = e
        /\ Taken(p) + Total(Before(p, at, cut)) <= tailIndex[p]
        /\ \A d \in Consumers : Claims(d, p) /\ at[d] >= cut =>
              Taken(p) + Total(Before(p, at, at[d])) <= loc[d].base
    BY <2>1 DEF Orderly
  <2>3. /\ Claims(c, p) /\ ~Claims(c, p)'
        /\ \A d \in Consumers \ {c} : Claims(d, p)' <=> Claims(d, p)
    BY <1>5, <1>10 DEF Claims, From
  <2>4. Taken(p)' = Taken(p) + actual /\ Taken(p) \in Nat
    <3>1. Taken(p) = headIndex[p] + Total(Sure(p))
      BY DEF Taken
    <3>2. Taken(p)' = headIndex'[p] + Total(Sure(p))' /\ headIndex'[p] = headIndex[p]
      BY <1>5 DEF Taken
    <3> QED
      BY ONLY <1>7, <1>8, <1>15, <1>16, <3>1, <3>2
  <2>5. \A d \in Consumers : at[d] \in Nat
    BY <2>2
  <2> DEFINE cut2 == IF at[c] >= cut /\ actual > 0 THEN at[c] ELSE cut
  <2>6. cut2 \in Nat /\ cut2 >= cut /\ cut2 <= dequeueOptimisticCount[p]
    BY <1>7, <2>2, <2>3, <2>5
  <2>7. Taken(p)' + Total(Before(p, at, cut2))' <= tailIndex[p]
    <3>1. CASE at[c] < cut
      <4>1. cut2 = cut /\ Total(Before(p, at, cut))' = Total(Before(p, at, cut)) + -k
        BY <1>15, <2>2, <2>5, <3>1
      <4>2. Total(Before(p, at, cut)) \in Nat
        BY <1>16
      <4>3. Taken(p) + Total(Before(p, at, cut)) <= tailIndex[p]
        BY <2>2
      <4> HIDE DEF cut2
      <4> QED
        BY ONLY <1>6, <1>7, <1>8, <2>4, <4>1, <4>2, <4>3
    <3>2. CASE at[c] >= cut /\ actual > 0
      <4>1. cut2 = at[c] /\ ~(at[c] < at[c])
        BY <2>5, <3>2
      <4>2. Total(Before(p, at, at[c]))' = Total(Before(p, at, at[c]))
        BY <1>15, <4>1
      <4>3. Taken(p) + Total(Before(p, at, at[c])) <= base
        BY <1>2, <2>2, <2>3, <3>2
      <4>4. Total(Before(p, at, at[c])) \in Nat
        BY <1>16
      <4>5. base + actual <= tailIndex[p]
        BY <1>8, <3>2
      <4> HIDE DEF cut2
      <4> QED
        BY ONLY <1>6, <1>7, <1>8, <2>4, <4>1, <4>2, <4>3, <4>4, <4>5
    <3>3. CASE at[c] >= cut /\ actual = 0
      <4>1. cut2 = cut /\ ~(at[c] < cut)
        BY <2>2, <2>5, <3>3
      <4>2. Total(Before(p, at, cut))' = Total(Before(p, at, cut))
        BY <1>15, <4>1
      <4>3. Total(Before(p, at, cut)) \in Nat
        BY <1>16
      <4>4. Taken(p) + Total(Before(p, at, cut)) <= tailIndex[p]
        BY <2>2
      <4> HIDE DEF cut2
      <4> QED
        BY ONLY <1>7, <2>4, <3>3, <4>1, <4>2, <4>3, <4>4
    <3> QED
      BY <1>8, <2>2, <2>5, <3>1, <3>2, <3>3
  <2>8. ASSUME NEW d \in Consumers, Claims(d, p)', at[d] >= cut2
        PROVE  Taken(p)' + Total(Before(p, at, at[d]))' <= loc'[d].base
    <3>1. /\ d # c /\ Claims(d, p) /\ loc'[d] = loc[d] /\ at[d] \in Nat /\ at[c] \in Nat
          /\ at[d] # at[c]
      BY <1>10, <2>2, <2>3, <2>5, <2>8
    <3>2. at[d] >= cut
      BY <2>2, <2>6, <2>8, <3>1
    <3>3. Taken(p) + Total(Before(p, at, at[d])) <= loc[d].base
      BY <2>2, <3>1, <3>2
    <3>4. Total(Before(p, at, at[d])) \in Nat
      BY <1>16
    <3>5. loc[d].base \in Int
      BY <3>1 DEF ClaimInv, Knows, Fits, Claims
    <3>6. CASE at[c] < at[d]
      <4>1. Total(Before(p, at, at[d]))' = Total(Before(p, at, at[d])) + -k
        BY <1>15, <3>6
      <4> QED
        BY ONLY <1>6, <1>8, <2>4, <3>1, <3>3, <3>4, <3>5, <4>1
    <3>7. CASE ~(at[c] < at[d])
      <4>1. Total(Before(p, at, at[d]))' = Total(Before(p, at, at[d]))
        BY <1>15, <3>7
      <4>2. actual = 0
        <5>1. ~(actual > 0)
          BY <2>2, <2>8, <3>1, <3>2, <3>7
        <5> QED
          BY <1>8, <5>1
      <4> QED
        BY ONLY <2>4, <3>1, <3>3, <3>4, <3>5, <4>1, <4>2
    <3> QED
      BY <3>6, <3>7
  <2>9. PICK last : last = cut2
    OBVIOUS
  <2>10. Taken(p)' + Total(Before(p, at, last))' <= tailIndex'[p]
    <3>1. tailIndex'[p] = tailIndex[p]
      BY <1>5
    <3> HIDE DEF cut2
    <3> QED
      BY ONLY <2>7, <2>9, <3>1
  <2>11. \A d \in Consumers : Claims(d, p)' /\ at[d] >= last =>
            Taken(p)' + Total(Before(p, at, at[d]))' <= loc'[d].base
    <3> HIDE DEF cut2
    <3> QED
      BY <2>8, <2>9
  <2>12. /\ last \in Nat /\ last <= dequeueOptimisticCount'[p]
         /\ \A d \in Consumers : Claims(d, p)' => at[d] < dequeueOptimisticCount'[p]
         /\ \A d, e \in Consumers : Claims(d, p)' /\ Claims(e, p)' /\ at[d] = at[e] => d = e
    <3> HIDE DEF cut2
    <3> QED
      BY <1>5, <2>2, <2>3, <2>6, <2>9
  <2>13. Orderly(p, at, last)'
    BY <2>2, <2>10, <2>11, <2>12 DEF Orderly
  <2> QED
    BY <2>13 DEF HasOrder
<1>19. \A q \in Producers : dequeueOvercommit'[q] >= dequeueOvercommit[q]
  BY <1>5 DEF ClaimInv, Typed
<1> QED
  BY <1>11, <1>12, <1>13, <1>17, <1>18, <1>19, CountingMove


\* A step that only moves elements between the counts keeps the order of the claims.
LEMMA OrderStays ==
    ASSUME ClaimInv, NEW c \in Consumers, NEW p, CountsAt(c, p), Typed',
           UNCHANGED dequeueOptimisticCount,
           pc[c] # "verify", pc'[c] # "verify", Taken(p)' = Taken(p)
    PROVE  HasOrder(p)'
<1>1. /\ p \in Producers /\ tailIndex'[p] \in Nat /\ tailIndex'[p] >= tailIndex[p]
      /\ dequeueOptimisticCount'[p] = dequeueOptimisticCount[p]
      /\ \A d \in Consumers \ {c} : pc'[d] = pc[d] /\ loc'[d] = loc[d]
  BY DEF CountsAt, Typed, ClaimInv
<1>2. \A d \in Consumers :
         /\ Claims(d, p)' <=> Claims(d, p)
         /\ Claims(d, p) => loc'[d].count = loc[d].count /\ loc'[d].base = loc[d].base
  BY <1>1 DEF Claims, From
<1> QED
  BY <1>1, <1>2, OrderKept

LEMMA GiveBackStep ==
    ASSUME ClaimInv, NEW c \in Consumers, GiveBack(c), NEW p, From(c) = p
    PROVE  ClaimInv'
<1>1. PICK k : k = loc[c].count
  OBVIOUS
<1>2. PICK extra : extra = loc[c].extra
  OBVIOUS
<1> DEFINE to == IF k = 0 THEN "turn" ELSE "head"
           call == IF k = 0 THEN Done(c, 0) ELSE [loc[c] EXCEPT !.extra = 0]
<1>3. /\ pc[c] = "give" /\ pc' = [pc EXCEPT ![c] = to] /\ loc' = [loc EXCEPT ![c] = call]
      /\ UNCHANGED <<tailIndex, headIndex, dequeueOptimisticCount>>
      /\ dequeueOvercommit' = [dequeueOvercommit EXCEPT ![p] = @ + extra]
  BY <1>1, <1>2 DEF GiveBack, Go
<1>4. /\ p \in Producers /\ k \in Int /\ k >= 0 /\ extra \in Nat
      /\ DOMAIN loc[c] = Fields /\ Fits(loc[c], "give") /\ c \in Threads
  BY <1>1, <1>2, <1>3, Assumed DEF ClaimInv, Knows, Fits, AtProducer, From, Typed
<1>5. /\ dequeueOptimisticCount[p] \in Nat /\ dequeueOvercommit[p] \in Nat
      /\ headIndex[p] \in Nat /\ tailIndex[p] \in Nat
  BY <1>4 DEF ClaimInv, Typed
<1>6. /\ DOMAIN call = Fields /\ call.n \in Int /\ call.count = k
      /\ call.left \subseteq Producers
      /\ call.from \in Producers \cup {Null} /\ (k # 0 => call.from = p)
  <2>1. CASE k = 0
    BY <1>4, <2>1, CallFacts DEF Fits
  <2>2. CASE k # 0
    BY <1>1, <1>4, <2>2 DEF Fields, Fits, From
  <2> QED
    BY <2>1, <2>2
<1> HIDE DEF call
<1>7. /\ DOMAIN pc' = Threads /\ DOMAIN loc' = Threads
      /\ \A t \in Threads : DOMAIN loc'[t] = Fields
      /\ \A q \in Producers : loc'[q].n \in Nat
      /\ pc'[c] = to /\ loc'[c] = call
      /\ \A d \in Consumers \ {c} : pc'[d] = pc[d] /\ loc'[d] = loc[d]
  BY <1>3, <1>6, CallMoves
<1>8. /\ dequeueOvercommit' \in [Producers -> Nat] /\ dequeueOvercommit \in [Producers -> Nat]
      /\ dequeueOvercommit'[p] = dequeueOvercommit[p] + extra
      /\ \A q \in Producers \ {p} : dequeueOvercommit'[q] = dequeueOvercommit[q]
  <2>1. dequeueOvercommit[p] + extra \in Nat /\ dequeueOvercommit \in [Producers -> Nat]
    BY <1>4, <1>5 DEF ClaimInv, Typed
  <2> QED
    BY <1>3, <1>4, <2>1
<1>9. Typed'
  BY <1>3, <1>7, <1>8 DEF ClaimInv, Typed
<1>10. Knows(c)'
  BY <1>4, <1>6, <1>7 DEF Knows, Fits, AtProducer
<1>11. CountsAt(c, p)
  BY <1>3, <1>4, <1>6, <1>7, <1>8 DEF CountsAt, Counting
<1>12. /\ Claimed(p)'[c] = Claimed(p)[c] + 0
       /\ Sure(p)'[c] = Sure(p)[c] + 0
       /\ Returned(p)'[c] = Returned(p)[c] + -extra
  <2>1. Claimed(p)[c] = 0 /\ Sure(p)[c] = k /\ Returned(p)[c] = extra
    BY <1>1, <1>2, <1>3 DEF Claimed, Claims, Sure, Returned
  <2>2. Claimed(p)'[c] = 0 /\ Returned(p)'[c] = 0
    BY <1>7 DEF Claimed, Claims, Returned
  <2>3. Sure(p)'[c] = k
    <3>1. CASE k = 0
      BY <1>7, <3>1 DEF Sure
    <3>2. CASE k # 0
      BY <1>6, <1>7, <3>2 DEF Sure, From
    <3> QED
      BY <3>1, <3>2
  <2> QED
    BY <1>4, <2>1, <2>2, <2>3
<1>13. /\ Total(Claimed(p))' = Total(Claimed(p)) + 0
       /\ Total(Sure(p))' = Total(Sure(p)) + 0
       /\ Total(Returned(p))' = Total(Returned(p)) + -extra
  <2>1. 0 \in Int /\ -extra \in Int
    BY <1>4
  <2> QED
    BY ONLY <1>11, <1>12, <2>1, ClaimInv, c \in Consumers, SumsMove
<1>14. Total(Claimed(p)) \in Nat /\ Total(Sure(p)) \in Nat /\ Total(Returned(p)) \in Nat
  BY <1>4, WeightFacts
<1>15. Balanced(p)'
  <2>1. dequeueOptimisticCount[p] = dequeueOvercommit[p] + headIndex[p]
                + Total(Claimed(p)) + Total(Sure(p)) + Total(Returned(p))
    BY <1>4 DEF ClaimInv, Balanced
  <2>2. /\ headIndex'[p] = headIndex[p]
        /\ dequeueOptimisticCount'[p] = dequeueOptimisticCount[p]
    BY <1>3
  <2>3. dequeueOptimisticCount'[p] = dequeueOvercommit'[p] + headIndex'[p]
                + Total(Claimed(p))' + Total(Sure(p))' + Total(Returned(p))'
    BY ONLY <1>4, <1>5, <1>8, <1>13, <1>14, <2>1, <2>2
  <2> QED
    BY <2>3 DEF Balanced
<1>16. HasOrder(p)'
  <2>1. Taken(p)' = Taken(p)
    BY <1>3, <1>13, <1>14 DEF Taken
  <2> QED
    BY <1>3, <1>7, <1>9, <1>11, <2>1, OrderStays
<1>17. \A q \in Producers : dequeueOvercommit'[q] >= dequeueOvercommit[q]
  BY <1>4, <1>8
<1> QED
  BY <1>9, <1>10, <1>11, <1>15, <1>16, <1>17, CountingMove

LEMMA TakeHeadStep ==
    ASSUME ClaimInv, NEW c \in Consumers, TakeHead(c), NEW p, From(c) = p
    PROVE  ClaimInv'
<1>1. PICK k : k = loc[c].count
  OBVIOUS
<1> DEFINE call == [loc[c] EXCEPT !.base = headIndex[p], !.extra = headIndex[p] + k]
<1>2. /\ pc[c] = "head" /\ pc' = [pc EXCEPT ![c] = "header"] /\ loc' = [loc EXCEPT ![c] = call]
      /\ UNCHANGED <<tailIndex, dequeueOvercommit, dequeueOptimisticCount>>
      /\ headIndex' = [headIndex EXCEPT ![p] = @ + k]
  BY <1>1 DEF TakeHead, Go
<1>3. /\ p \in Producers /\ k \in Int /\ k >= 0
      /\ DOMAIN loc[c] = Fields /\ Fits(loc[c], "head") /\ c \in Threads
  BY <1>1, <1>2, Assumed DEF ClaimInv, Knows, Fits, AtProducer, From, Typed
<1>4. /\ dequeueOptimisticCount[p] \in Nat /\ dequeueOvercommit[p] \in Nat
      /\ headIndex[p] \in Nat /\ tailIndex[p] \in Nat
  BY <1>3 DEF ClaimInv, Typed
<1>5. /\ DOMAIN call = Fields /\ call.n = loc[c].n /\ call.count = k
      /\ call.left = loc[c].left /\ call.from = p
  BY <1>1, <1>3 DEF Fields, From
<1> HIDE DEF call
<1>6. /\ DOMAIN pc' = Threads /\ DOMAIN loc' = Threads
      /\ \A t \in Threads : DOMAIN loc'[t] = Fields
      /\ \A q \in Producers : loc'[q].n \in Nat
      /\ pc'[c] = "header" /\ loc'[c] = call
      /\ \A d \in Consumers \ {c} : pc'[d] = pc[d] /\ loc'[d] = loc[d]
  BY <1>2, <1>5, CallMoves
<1>7. /\ headIndex' \in [Producers -> Nat] /\ headIndex'[p] = headIndex[p] + k
      /\ \A q \in Producers \ {p} : headIndex'[q] = headIndex[q]
  <2>1. headIndex[p] + k \in Nat /\ headIndex \in [Producers -> Nat]
    BY <1>3, <1>4 DEF ClaimInv, Typed
  <2> QED
    BY <1>2, <1>3, <2>1
<1>8. Typed'
  BY <1>2, <1>6, <1>7 DEF ClaimInv, Typed
<1>9. Knows(c)'
  BY <1>3, <1>5, <1>6 DEF Knows, Fits, AtProducer
<1>10. CountsAt(c, p)
  BY <1>2, <1>3, <1>5, <1>6, <1>7 DEF CountsAt
<1>11. /\ Claimed(p)'[c] = Claimed(p)[c] + 0
       /\ Sure(p)'[c] = Sure(p)[c] + -k
       /\ Returned(p)'[c] = Returned(p)[c] + 0
  <2>1. Claimed(p)[c] = 0 /\ Sure(p)[c] = k /\ Returned(p)[c] = 0
    BY <1>1, <1>2 DEF Claimed, Claims, Sure, Returned
  <2>2. Claimed(p)'[c] = 0 /\ Sure(p)'[c] = 0 /\ Returned(p)'[c] = 0
    BY <1>6 DEF Claimed, Claims, Sure, Returned
  <2> QED
    BY <1>3, <2>1, <2>2
<1>12. /\ Total(Claimed(p))' = Total(Claimed(p)) + 0
       /\ Total(Sure(p))' = Total(Sure(p)) + -k
       /\ Total(Returned(p))' = Total(Returned(p)) + 0
  <2>1. 0 \in Int /\ -k \in Int
    BY <1>3
  <2> QED
    BY ONLY <1>10, <1>11, <2>1, ClaimInv, c \in Consumers, SumsMove
<1>13. Total(Claimed(p)) \in Nat /\ Total(Sure(p)) \in Nat /\ Total(Returned(p)) \in Nat
  BY <1>3, WeightFacts
<1>14. Balanced(p)'
  <2>1. dequeueOptimisticCount[p] = dequeueOvercommit[p] + headIndex[p]
                + Total(Claimed(p)) + Total(Sure(p)) + Total(Returned(p))
    BY <1>3 DEF ClaimInv, Balanced
  <2>2. /\ dequeueOvercommit'[p] = dequeueOvercommit[p]
        /\ dequeueOptimisticCount'[p] = dequeueOptimisticCount[p]
    BY <1>2
  <2>3. dequeueOptimisticCount'[p] = dequeueOvercommit'[p] + headIndex'[p]
                + Total(Claimed(p))' + Total(Sure(p))' + Total(Returned(p))'
    BY ONLY <1>3, <1>4, <1>7, <1>12, <1>13, <2>1, <2>2
  <2> QED
    BY <2>3 DEF Balanced
<1>15. HasOrder(p)'
  <2>1. Taken(p) = headIndex[p] + Total(Sure(p))
    BY DEF Taken
  <2>2. Taken(p)' = headIndex'[p] + Total(Sure(p))'
    BY DEF Taken
  <2>3. Taken(p)' = Taken(p)
    BY ONLY <1>3, <1>4, <1>7, <1>12, <1>13, <2>1, <2>2
  <2> QED
    BY <1>2, <1>6, <1>8, <1>10, <2>3, OrderStays
<1>16. \A q \in Producers : dequeueOvercommit'[q] >= dequeueOvercommit[q]
  BY <1>2 DEF ClaimInv, Typed
<1> QED
  BY <1>8, <1>9, <1>10, <1>14, <1>15, <1>16, CountingMove

-----------------------------------------------------------------------------
(* The theorem.                                                            *)

LEMMA InitClaims == Init => ClaimInv
<1> SUFFICES ASSUME Init PROVE ClaimInv
  OBVIOUS
<1>1. /\ \A p \in Producers : tailIndex[p] = 0 /\ headIndex[p] = 0
      /\ \A p \in Producers : dequeueOptimisticCount[p] = 0 /\ dequeueOvercommit[p] = 0
      /\ tailIndex \in [Producers -> Nat] /\ headIndex \in [Producers -> Nat]
      /\ dequeueOptimisticCount \in [Producers -> Nat] /\ dequeueOvercommit \in [Producers -> Nat]
      /\ DOMAIN pc = Threads /\ DOMAIN loc = Threads
      /\ \A t \in Threads : pc[t] = "idle" /\ loc[t] = NoCall
  BY DEF Init
<1>2. Typed
  BY <1>1, CallFacts, Assumed DEF Typed
<1>3. \A c \in Consumers : Knows(c)
  BY <1>1, CallFacts, Assumed DEF Knows, Fits, AtProducer
<1>4. ASSUME NEW p \in Producers PROVE Balanced(p) /\ HasOrder(p)
  <2>1. \A c \in Consumers : /\ Claimed(p)[c] = 0 /\ Sure(p)[c] = 0 /\ Returned(p)[c] = 0
                             /\ ~Claims(c, p)
    BY <1>1, Assumed DEF Claimed, Claims, Sure, Returned
  <2>2. Total(Claimed(p)) = 0 /\ Total(Sure(p)) = 0 /\ Total(Returned(p)) = 0
    BY <2>1, TotalZero
  <2>3. Balanced(p)
    BY <1>1, <2>2 DEF Balanced
  <2>4. PICK at : at = [c \in Consumers |-> 0]
    OBVIOUS
  <2>5. Total(Before(p, at, 0)) = 0
    BY <2>1, TotalZero DEF Before
  <2>6. Orderly(p, at, 0)
    BY <1>1, <2>1, <2>2, <2>4, <2>5 DEF Orderly, Taken
  <2> QED
    BY <2>3, <2>6 DEF HasOrder
<1> QED
  BY <1>2, <1>3, <1>4 DEF ClaimInv

LEMMA ClaimInvStep == ClaimInv /\ [Next]_vars => ClaimInv'
<1> SUFFICES ASSUME ClaimInv, [Next]_vars PROVE ClaimInv'
  OBVIOUS
<1>1. ASSUME UNCHANGED <<indices, threads>> PROVE ClaimInv'
  <2>1. /\ tailIndex' = tailIndex /\ headIndex' = headIndex
        /\ dequeueOptimisticCount' = dequeueOptimisticCount
        /\ dequeueOvercommit' = dequeueOvercommit /\ pc' = pc /\ loc' = loc
    BY <1>1 DEF indices, threads
  <2>2. /\ DOMAIN pc' = Threads /\ DOMAIN loc' = Threads
        /\ tailIndex' \in [Producers -> Nat]
        /\ \A p \in Producers : /\ tailIndex'[p] >= tailIndex[p]
                                /\ DOMAIN loc'[p] = Fields /\ loc'[p].n \in Nat
    BY <2>1, Assumed DEF ClaimInv, Typed
  <2> QED
    BY <2>1, <2>2, ElsewhereStep
<1>2. ASSUME NEW p \in Producers, NEW n \in Batches, NEW mode, BeginEnqueue(p, n, mode)
      PROVE  ClaimInv'
  <2> DEFINE call == [NoCall EXCEPT !.n = n, !.mode = mode]
  <2>1. /\ pc' = [pc EXCEPT ![p] = "reserve"] /\ loc' = [loc EXCEPT ![p] = call]
        /\ UNCHANGED indices
    BY <1>2 DEF BeginEnqueue, Go
  <2>2. DOMAIN call = Fields /\ call.n \in Nat
    BY Assumed DEF NoCall, Fields
  <2> HIDE DEF call
  <2>3. /\ \A c \in Consumers : pc'[c] = pc[c] /\ loc'[c] = loc[c]
        /\ DOMAIN pc' = Threads /\ DOMAIN loc' = Threads
        /\ \A q \in Producers : DOMAIN loc'[q] = Fields /\ loc'[q].n \in Nat
    BY <2>1, <2>2, ProducerMoves
  <2>4. /\ tailIndex' \in [Producers -> Nat]
        /\ \A q \in Producers : tailIndex'[q] >= tailIndex[q]
    BY <2>1 DEF indices, ClaimInv, Typed
  <2> QED
    BY <2>1, <2>3, <2>4, ElsewhereStep DEF indices
<1>3. ASSUME NEW c \in Consumers, Consumer(c) PROVE ClaimInv'
  <2>1. PICK p : From(c) = p
    OBVIOUS
  <2> QED
    BY <1>3, <2>1, ChoosingStep, ReadingStep, TakingStep, ClaimStep, VerifyStep, GiveBackStep,
       TakeHeadStep DEF Consumer
<1>4. ASSUME NEW t \in Threads, OnFreeList(t) PROVE ClaimInv'
  BY <1>1, <1>4 DEF OnFreeList
<1>5. CASE UNCHANGED vars
  BY <1>1, <1>5 DEF vars
<1>6. CASE Next
  <2>1. Calls => ClaimInv'
    BY <1>2, BeginDequeueStep DEF Calls
  <2> QED
    BY <1>3, <1>4, <1>6, <2>1, ProducerStep DEF Next
<1> QED
  BY <1>5, <1>6

LEMMA ClaimInvAlways == Spec => []ClaimInv
BY InitClaims, ClaimInvStep, PTL DEF Spec

\* For any number of threads and elements, and in whatever order claims are made, verified
\* and given back: consumers never take more elements than were enqueued, and once no
\* consumer is in a call the claims given add up to the elements taken, so that nothing
\* enqueued is out of reach.
THEOREM ClaimsAlwaysBalance == Spec => []ClaimsBalance
<1>1. ClaimInv => ClaimsBalance
  <2> SUFFICES ASSUME ClaimInv, NEW p \in Producers
               PROVE  /\ headIndex[p] <= tailIndex[p]
                      /\ (\A c \in Consumers : pc[c] = "idle") =>
                            dequeueOptimisticCount[p] - dequeueOvercommit[p] = headIndex[p]
    BY DEF ClaimsBalance
  <2>1. /\ headIndex[p] \in Nat /\ tailIndex[p] \in Nat /\ dequeueOvercommit[p] \in Nat
        /\ dequeueOptimisticCount[p] \in Nat
    BY DEF ClaimInv, Typed
  <2>2. headIndex[p] <= tailIndex[p]
    <3>1. PICK at, cut : Orderly(p, at, cut)
      BY DEF ClaimInv, HasOrder
    <3>2. headIndex[p] + Total(Sure(p)) + Total(Before(p, at, cut)) <= tailIndex[p]
      BY <3>1 DEF Orderly, Taken
    <3>3. Total(Sure(p)) \in Nat /\ Total(Before(p, at, cut)) \in Nat
      BY WeightFacts
    <3> QED
      BY ONLY <2>1, <3>2, <3>3
  <2>3. ASSUME \A c \in Consumers : pc[c] = "idle"
        PROVE  dequeueOptimisticCount[p] - dequeueOvercommit[p] = headIndex[p]
    <3>1. \A c \in Consumers : Claimed(p)[c] = 0 /\ Sure(p)[c] = 0 /\ Returned(p)[c] = 0
      BY <2>3 DEF Claimed, Claims, Sure, Returned
    <3>2. Total(Claimed(p)) = 0 /\ Total(Sure(p)) = 0 /\ Total(Returned(p)) = 0
      BY <3>1, TotalZero
    <3>3. Balanced(p)
      BY DEF ClaimInv
    <3> QED
      BY <2>1, <3>2, <3>3 DEF Balanced
  <2> QED
    BY <2>2, <2>3
<1> QED
  BY <1>1, ClaimInvAlways, PTL

-----------------------------------------------------------------------------
(* The blocks of a producer: numbers and rounds.                           *)

\* The block that holds index i of a producer has the number Num(i); its first index, the
\* base of its entry, is Start of the number.
Start(m) == BlockSize * m
Num(i) == i \div BlockSize
Cells(m) == Start(m) .. Start(m) + BlockSize - 1

\* The entries of the k-th header.
Size(k) == IndexSize * 2^(k - 1)
Places(k) == 0 .. Size(k) - 1

LEMMA BlockSizeFact == BlockSize \in Nat /\ BlockSize >= 2
BY QueueAssumption

LEMMA StartFacts ==
    ASSUME NEW m \in Int, NEW n \in Int
    PROVE  /\ Start(m) \in Int
           /\ m \in Nat => Start(m) \in Nat
           /\ m < n => Start(m) + BlockSize <= Start(n)
           /\ Start(m) = Start(n) => m = n
           /\ Start(m) # InvalidBase
<1>1. BlockSize \in Nat /\ BlockSize >= 2
  BY BlockSizeFact
<1>2. /\ BlockSize * m \in Int /\ BlockSize * n \in Int
  BY <1>1
<1>3. ASSUME NEW a \in Int, NEW b \in Int, a < b
      PROVE  BlockSize * a + BlockSize <= BlockSize * b
  <2>1. BlockSize * (b - a - 1) >= 0
    BY <1>1, <1>3
  <2>2. BlockSize * (b - a - 1) = BlockSize * b - BlockSize * a - BlockSize
    BY <1>1
  <2> QED
    BY <1>1, <2>1, <2>2
<1>4. m \in Nat => BlockSize * m \in Nat
  BY <1>1
<1>5. BlockSize * m = BlockSize * n => m = n
  <2>1. m < n => BlockSize * m + BlockSize <= BlockSize * n
    BY <1>3
  <2>2. n < m => BlockSize * n + BlockSize <= BlockSize * m
    BY <1>3
  <2> QED
    BY <1>1, <1>2, <2>1, <2>2
<1>6. BlockSize * m # 1
  <2>1. 0 < m => BlockSize * 0 + BlockSize <= BlockSize * m
    BY <1>3
  <2>2. m < 0 => BlockSize * m + BlockSize <= BlockSize * 0
    BY <1>3
  <2>3. BlockSize * 0 = 0
    BY <1>1
  <2>4. m = 0 => BlockSize * m = 0
    BY <1>1
  <2> QED
    BY <1>1, <1>2, <2>1, <2>2, <2>3, <2>4
<1> QED
  BY <1>2, <1>3, <1>4, <1>5, <1>6 DEF Start, InvalidBase

LEMMA StartNat ==
    ASSUME NEW m \in Nat
    PROVE  Start(m) \in Nat
BY StartFacts

LEMMA StartNext ==
    ASSUME NEW m \in Int
    PROVE  Start(m + 1) = Start(m) + BlockSize
BY BlockSizeFact DEF Start

LEMMA StartSum ==
    ASSUME NEW m \in Int, NEW n \in Int
    PROVE  Start(m) + Start(n) = Start(m + n) /\ Start(m) - Start(n) = Start(m - n)
BY BlockSizeFact DEF Start

LEMMA NumFacts ==
    ASSUME NEW i \in Nat
    PROVE  /\ Num(i) \in Nat /\ Start(Num(i)) <= i /\ i < Start(Num(i)) + BlockSize
           /\ Start(Num(i)) \in Nat
           /\ Base(i) = Start(Num(i)) /\ i % BlockSize = i - Start(Num(i))
<1>1. BlockSize \in Nat \ {0}
  BY BlockSizeFact
<1>2. i \div BlockSize \in Int /\ i % BlockSize \in 0 .. BlockSize - 1
  BY <1>1
<1>3. i = BlockSize * (i \div BlockSize) + (i % BlockSize)
  BY <1>1
<1> DEFINE q == i \div BlockSize
           r == i % BlockSize
<1>4. Start(q) \in Int /\ (q < 0 => Start(q) + BlockSize <= Start(0)) /\ Start(0) = 0
      /\ (q \in Nat => Start(q) \in Nat)
  BY <1>1, <1>2, StartFacts DEF Start
<1>5. i = Start(q) + r
  BY <1>3 DEF Start
<1> HIDE DEF q, r
<1>6. q \in Int /\ r \in 0 .. BlockSize - 1
  BY <1>2 DEF q, r
<1>7. q >= 0
  BY <1>1, <1>4, <1>5, <1>6
<1>8. Num(i) = q /\ Base(i) = i - r /\ i % BlockSize = r
  BY DEF Num, Base, q, r
<1>9. i - r = Start(q)
  BY <1>4, <1>5, <1>6
<1>10. q \in Nat /\ Start(q) \in Nat /\ Start(q) <= i /\ i < Start(q) + BlockSize
  BY <1>1, <1>4, <1>5, <1>6, <1>7
<1>11. r = i - Start(q)
  BY <1>4, <1>5, <1>6
<1>12. Base(i) = Start(q) /\ i % BlockSize = i - Start(q)
  BY ONLY <1>8, <1>9, <1>11
<1> QED
  BY ONLY <1>8, <1>10, <1>12

LEMMA NumUnique ==
    ASSUME NEW i \in Nat, NEW m \in Int, Start(m) <= i, i < Start(m) + BlockSize
    PROVE  Num(i) = m
<1>1. /\ Num(i) \in Nat /\ Start(Num(i)) <= i /\ i < Start(Num(i)) + BlockSize
      /\ Start(m) \in Int /\ Start(Num(i)) \in Int /\ BlockSize \in Nat
  BY NumFacts, StartFacts, BlockSizeFact
<1>2. m < Num(i) => Start(m) + BlockSize <= Start(Num(i))
  BY <1>1, StartFacts
<1>3. Num(i) < m => Start(Num(i)) + BlockSize <= Start(m)
  BY <1>1, StartFacts
<1> QED
  BY <1>1, <1>2, <1>3

LEMMA NumOrder ==
    ASSUME NEW i \in Nat, NEW m \in Int
    PROVE  /\ i < Start(m) <=> Num(i) < m
           /\ i \in Cells(m) <=> Num(i) = m
<1>1. /\ Num(i) \in Nat /\ Start(Num(i)) <= i /\ i < Start(Num(i)) + BlockSize
      /\ Start(m) \in Int /\ Start(Num(i)) \in Int /\ BlockSize \in Nat
  BY NumFacts, StartFacts, BlockSizeFact
<1>2. Num(i) < m => Start(Num(i)) + BlockSize <= Start(m)
  BY <1>1, StartFacts
<1>3. m < Num(i) => Start(m) + BlockSize <= Start(Num(i))
  BY <1>1, StartFacts
<1> QED
  BY <1>1, <1>2, <1>3 DEF Cells

\* Two indices of one block at the same place in it are one.
LEMMA NumSame ==
    ASSUME NEW i \in Nat, NEW j \in Nat, Num(i) = Num(j), i % BlockSize = j % BlockSize
    PROVE  i = j
BY NumFacts

LEMMA CellsFacts ==
    ASSUME NEW m \in Nat
    PROVE  /\ IsFiniteSet(Cells(m)) /\ Cardinality(Cells(m)) = BlockSize
           /\ Cells(m) \subseteq Nat
<1>1. Start(m) \in Nat /\ BlockSize \in Nat /\ BlockSize >= 2
  BY StartFacts, BlockSizeFact
<1>2. Cells(m) \subseteq Nat
  BY <1>1 DEF Cells
<1>3. Start(m) <= Start(m) + BlockSize - 1 /\ Start(m) + BlockSize - 1 \in Int
  BY <1>1
<1>4. (Start(m) + BlockSize - 1) - Start(m) + 1 = BlockSize
  BY <1>1
<1>5. IsFiniteSet(Cells(m)) /\ Cardinality(Cells(m)) = BlockSize
  <2>1. PICK a, b : a = Start(m) /\ b = Start(m) + BlockSize - 1
    OBVIOUS
  <2>2. a \in Int /\ b \in Int /\ a <= b /\ b - a + 1 = BlockSize /\ Cells(m) = a .. b
    BY <1>1, <1>3, <1>4, <2>1 DEF Cells
  <2>3. IsFiniteSet(a .. b) /\ Cardinality(a .. b) = IF a > b THEN 0 ELSE b - a + 1
    BY ONLY <2>2, FS_Interval
  <2> QED
    BY ONLY <2>2, <2>3
<1> QED
  BY <1>2, <1>5

-----------------------------------------------------------------------------
LEMMA SizeFacts ==
    ASSUME NEW k \in Nat \ {0}
    PROVE  Size(k) \in Nat /\ Size(k) >= 1 /\ Size(k + 1) = 2 * Size(k)
<1>1. IndexSize \in Nat /\ IndexSize >= 1
  BY QueueAssumption
<1> DEFINE Good == {j \in Nat : 2^j \in Nat /\ 2^j >= 1}
<1>2. \A j \in Nat : j \in Good
  <2>1. 0 \in Good
    OBVIOUS
  <2>2. \A j \in Nat : j \in Good => j + 1 \in Good
    BY PowerDoubles
  <2> HIDE DEF Good
  <2> QED
    BY ONLY <2>1, <2>2, InductionOnNat
<1>3. PICK j \in Nat : j = k - 1
  OBVIOUS
<1>4. PICK a, b : a = 2^j /\ b = 2^(j + 1)
  OBVIOUS
<1>5. a \in Nat /\ a >= 1 /\ b = 2 * a
  BY <1>2, <1>3, <1>4, PowerDoubles
<1>6. Size(k) = IndexSize * a /\ Size(k + 1) = IndexSize * b
  BY <1>3, <1>4 DEF Size
<1>7. IndexSize * a \in Nat /\ IndexSize * a >= 1 /\ IndexSize * (2 * a) = 2 * (IndexSize * a)
  BY <1>1, <1>5
<1> QED
  BY <1>5, <1>6, <1>7

LEMMA SizeGrows ==
    ASSUME NEW k \in Nat \ {0}, NEW n \in Nat \ {0}, k <= n
    PROVE  Size(k) <= Size(n) /\ Whole(Size(n), Size(k))
<1> DEFINE Good == {d \in Nat : Size(k) <= Size(k + d) /\ Whole(Size(k + d), Size(k))}
<1>1. \A d \in Nat : Size(k + d) \in Nat /\ Size(k) \in Nat /\ Size(k + d + 1) = 2 * Size(k + d)
                     /\ Size(k + d) >= 1
  BY SizeFacts
<1>2. 0 \in Good
  <2>1. Size(k) = Size(k) * 1 /\ k + 0 = k /\ Size(k) <= Size(k)
    BY <1>1, SizeFacts
  <2> QED
    BY <2>1 DEF Whole
<1>3. \A d \in Nat : d \in Good => d + 1 \in Good
  <2> SUFFICES ASSUME NEW d \in Nat, d \in Good PROVE d + 1 \in Good
    OBVIOUS
  <2>1. PICK z \in Int : Size(k + d) = Size(k) * z
    BY DEF Whole
  <2>2. /\ Size(k + d) \in Nat /\ Size(k) \in Nat /\ Size(k + d + 1) = 2 * Size(k + d)
    BY <1>1
  <2>5. k + (d + 1) = k + d + 1
    OBVIOUS
  <2>3. Size(k + d + 1) = Size(k) * (2 * z) /\ 2 * z \in Int
    BY <2>1, <2>2
  <2>4. Size(k) <= Size(k + d + 1)
    BY <2>2
  <2> QED
    BY <2>3, <2>4, <2>5 DEF Whole
<1> HIDE DEF Good
<1>4. \A d \in Nat : d \in Good
  BY ONLY <1>2, <1>3, InductionOnNat
<1>5. n - k \in Good /\ k + (n - k) = n
  BY <1>4
<1> QED
  BY <1>5 DEF Good

LEMMA WholeSize ==
    ASSUME NEW k \in Nat \ {0}, NEW n \in Nat \ {0}, k <= n, NEW d \in Int, Whole(d, Size(n))
    PROVE  Whole(d, Size(k))
<1>1. Size(k) \in Nat /\ Size(n) \in Nat
  BY SizeFacts
<1> QED
  BY <1>1, SizeGrows, WholeThrough

\* Places of a header that are whole rounds apart are one.
LEMMA WholePlaces ==
    ASSUME NEW k \in Nat \ {0}, NEW s \in Places(k), NEW u \in Places(k), Whole(s - u, Size(k))
    PROVE  s = u
<1>1. Size(k) \in Nat /\ s \in 0 .. Size(k) - 1 /\ u \in 0 .. Size(k) - 1
  BY SizeFacts DEF Places
<1> QED
  BY <1>1, WholeNear

-----------------------------------------------------------------------------
(* The blocks of a producer: the inductive invariant.                      *)

Building == {"reserve", "block", "list", "undo", "publish"}
Halfway == {"block", "list"}
Reading == {"header", "slot", "key", "take", "read"}
Parting == {"unindex", "free"}

\* Blocks are allocated in the order of their numbers, also those of a call that is not over.
FirstNew(p) == Num(tailIndex[p] + BlockSize - 1)
Reserved(p) == IF pc[p] \in Building THEN Len(loc[p].got) ELSE 0
Allocated(p) == FirstNew(p) + Reserved(p)
Written(p) == tailIndex[p] + (IF pc[p] = "publish" THEN loc[p].n ELSE 0)

\* What an index entry says.
Holds(p, e, m) == key[p][e] = Start(m)
Finds(p, e, m) == Holds(p, e, m) /\ value[p][e] # Null
Newer(p) == Len(blockIndex[p])
Slot(p, k, s) == blockIndex[p][k].slots[s]

\* A header has the first Size(k) entries there are, each once.
HeaderFits(h, k) ==
    /\ h.slots \in [Places(k) -> 1 .. Size(k)] /\ h.tail \in Places(k)
    /\ \A s, u \in Places(k) : h.slots[s] = h.slots[u] => s = u
    /\ \A e \in 1 .. Size(k) : \E s \in Places(k) : h.slots[s] = e

HeaderSet == [slots : UNION {[Places(k) -> 1 .. Size(k)] : k \in 1 .. MaxHeaders},
              tail : UNION {Places(k) : k \in 1 .. MaxHeaders}]

HeadersFit(p) ==
    /\ blockIndex[p] \in Seq(HeaderSet)
    /\ Newer(p) \in 1 .. MaxHeaders
    /\ \A k \in 1 .. Newer(p) : HeaderFits(blockIndex[p][k], k)

\* In a header the numbers stay in their order, up to whole rounds; one that is no longer
\* current is full.
Aligned(p, k) ==
    \A s, u \in Places(k), m, n \in Nat :
        Holds(p, Slot(p, k, s), m) /\ Holds(p, Slot(p, k, u), n) =>
            Whole((m - n) - (s - u), Size(k))
Full(p, k) == \A s \in Places(k) : \E m \in Nat : Holds(p, Slot(p, k, s), m)

\* The number at the tail of the current header.
Last(p) == IF pc[p] \in Halfway THEN Allocated(p) ELSE Allocated(p) - 1

\* The entries of the current header go round: from lo to hi, each number has one; those
\* from Allocated on are what a call that failed has left.
AtTail(p) ==
    \A s \in Places(Newer(p)), m \in Nat :
        Holds(p, Slot(p, Newer(p), s), m) =>
            Whole((m - s) - (Last(p) - Current(p).tail), Size(Newer(p)))
Ring(p, lo, hi) ==
    /\ lo \in Nat /\ hi \in Int /\ lo <= FirstNew(p)
    /\ Allocated(p) - 1 <= hi /\ Last(p) <= hi /\ hi - lo < Size(Newer(p))
    /\ \A s \in Places(Newer(p)), m \in Nat : Holds(p, Slot(p, Newer(p), s), m) => m \in lo .. hi
    /\ \A m \in lo .. hi : \E s \in Places(Newer(p)) : Holds(p, Slot(p, Newer(p), s), m)
HasRing(p) == \E lo, hi : Ring(p, lo, hi)

EntriesFit(p) ==
    \A e \in Entries :
        /\ key[p][e] = InvalidBase \/ \E m \in Nat : Holds(p, e, m)
        /\ value[p][e] # Null
               => e <= Size(Newer(p)) /\ \E m \in Nat : m < Allocated(p) /\ Holds(p, e, m)
        /\ e > Size(Newer(p)) => key[p][e] = InvalidBase

IndexFits(p) ==
    /\ HeadersFit(p) /\ AtTail(p) /\ HasRing(p) /\ EntriesFit(p)
    /\ \A k \in 1 .. Newer(p) - 1 : Aligned(p, k) /\ Full(p, k)

\* A call that is under way.
CallFits(p) ==
    /\ pc[p] \in Building \cup {"idle", "free"}
    /\ loc[p].got \in Seq(Blocks)
    /\ pc[p] \in Building => loc[p].n >= 1
    /\ pc[p] \in Building /\ Len(loc[p].got) >= 1 =>
          Start(Allocated(p) - 1) < tailIndex[p] + loc[p].n
    /\ pc[p] \in Halfway => Start(Allocated(p)) < tailIndex[p] + loc[p].n
    /\ pc[p] = "publish" => Start(Allocated(p)) >= tailIndex[p] + loc[p].n

BlocksFit(p) ==
    /\ pc[p] \in Building =>
          \A j \in 1 .. Len(loc[p].got) : \E e \in Entries :
             Finds(p, e, FirstNew(p) + j - 1) /\ value[p][e] = loc[p].got[j]
    /\ pc[p] \in Halfway =>
          /\ loc[p].entry \in Entries /\ loc[p].entry = Newest(p)
          /\ Holds(p, loc[p].entry, Allocated(p)) /\ value[p][loc[p].entry] = Null

\* The block that is not full.
TailFits(p) ==
    \A m \in Nat : Start(m) < Written(p) /\ Written(p) < Start(m) + BlockSize =>
        \E e \in Entries : Finds(p, e, m) /\ value[p][e] = tailBlock[p]

ProducerFits(p) == IndexFits(p) /\ CallFits(p) /\ BlocksFit(p) /\ TailFits(p)

\* The elements a consumer has claimed and not read, and those of a block nobody has read.
Remaining(c) ==
    IF pc[c] \in Reading THEN loc[c].base .. loc[c].extra - 1
    ELSE IF pc[c] \in Parting THEN End(c) .. loc[c].extra - 1 ELSE {}
Unread(p, m) ==
    {i \in Cells(m) : i >= headIndex[p] \/ \E c \in Consumers : From(c) = p /\ i \in Remaining(c)}

\* What is not read is where the index says.
Stores(p, e, m) ==
    /\ Finds(p, e, m)
    /\ elementsCompletelyDequeued[value[p][e]] = BlockSize - Cardinality(Unread(p, m))
    /\ \A i \in Unread(p, m) : i < Written(p) => data[value[p][e]][i % BlockSize] = <<p, i>>
Kept(p) ==
    \A m \in Nat : m < Allocated(p) /\ Unread(p, m) # {} => \E e \in Entries : Stores(p, e, m)

\* A consumer in a claim.
ClaimedFits(c) ==
    /\ pc[c] = "head" => loc[c].count >= 1
    /\ pc[c] \in Reading \cup Parting =>
          /\ loc[c].base \in Nat /\ loc[c].extra \in Nat
          /\ loc[c].base < loc[c].extra /\ loc[c].extra <= headIndex[From(c)]
HeaderKnown(c) ==
    pc[c] \in {"slot", "key", "take", "read", "unindex", "free"} =>
        /\ loc[c].header \in 1 .. Newer(From(c))
        /\ \A i \in Remaining(c), e \in Entries :
              Finds(From(c), e, Num(i)) => e <= Size(loc[c].header)
EntryKnown(c) ==
    /\ pc[c] \in {"key", "take", "read", "unindex", "free"} =>
          loc[c].pos \in Places(loc[c].header) /\ \E m \in Nat : Holds(From(c), Entry(c), m)
    /\ pc[c] \in {"take", "read", "unindex"} => Finds(From(c), Entry(c), Num(loc[c].base))
    /\ pc[c] \in {"read", "unindex"} => loc[c].block = value[From(c)][Entry(c)]
    /\ pc[c] = "unindex" => Unread(From(c), Num(loc[c].base)) = {}
    /\ pc[c] = "free" => \E m \in Nat : /\ Holds(From(c), Entry(c), m)
                                        /\ Whole(m - Num(loc[c].base), Size(loc[c].header))
ConsumerFits(c) == ClaimedFits(c) /\ HeaderKnown(c) /\ EntryKnown(c)

ClaimsApart ==
    \A c, d \in Consumers : c # d /\ From(c) = From(d) =>
        /\ Remaining(c) \cap Remaining(d) = {}
        /\ pc[c] = "unindex" /\ pc[d] = "unindex" => Num(loc[c].base) # Num(loc[d].base)

-----------------------------------------------------------------------------
(* The homes of the blocks.                                                *)

Indexed == {b \in Blocks : \E p \in Producers, e \in Entries : value[p][e] = b}
Undone(p) == IF pc[p] = "free" THEN {loc[p].got[j] : j \in DOMAIN loc[p].got} ELSE {}
InUse == unused \cup Indexed \cup UNION {Undone(p) : p \in Producers}

HomesApart ==
    /\ \A p, q \in Producers, e, f \in Entries :
          value[p][e] = value[q][f] /\ value[p][e] # Null => p = q /\ e = f
    /\ unused \cap Indexed = {}
    /\ \A p \in Producers :
          /\ Undone(p) \cap (unused \cup Indexed) = {}
          /\ \A q \in Producers : Undone(p) \cap Undone(q) # {} => p = q
          /\ pc[p] = "free" => \A i, j \in DOMAIN loc[p].got : loc[p].got[i] = loc[p].got[j]
                 => i = j

PlacesTyped ==
    /\ key \in [Producers -> [Entries -> Nat]]
    /\ value \in [Producers -> [Entries -> Blocks \cup {Null}]]
    /\ DOMAIN blockIndex = Producers /\ DOMAIN tailBlock = Producers
    /\ unused \subseteq Blocks
    /\ elementsCompletelyDequeued \in [Blocks -> Nat]

PlacesInv ==
    /\ PlacesTyped
    /\ \A p \in Producers : ProducerFits(p) /\ Kept(p)
    /\ \A c \in Consumers : ConsumerFits(c)
    /\ ClaimsApart
    /\ HomesApart
    /\ ListInv(InUse)

LEMMA EntriesAre ==
    /\ MaxHeaders \in Nat \ {0} /\ Entries = 1 .. Size(MaxHeaders)
    /\ \A k \in 1 .. MaxHeaders :
          /\ k \in Nat \ {0} /\ Size(k) \in Nat /\ Size(k) >= 1 /\ Size(k) <= Size(MaxHeaders)
          /\ Places(k) \subseteq Nat /\ 1 .. Size(k) \subseteq Entries
<1>1. MaxHeaders \in Nat \ {0}
  BY QueueAssumption
<1>2. Entries = 1 .. Size(MaxHeaders) /\ Size(MaxHeaders) \in Nat
  BY <1>1, SizeFacts DEF Entries, Size
<1>3. ASSUME NEW k \in 1 .. MaxHeaders
      PROVE  /\ k \in Nat \ {0} /\ Size(k) \in Nat /\ Size(k) >= 1 /\ Size(k) <= Size(MaxHeaders)
             /\ Places(k) \subseteq Nat /\ 1 .. Size(k) \subseteq Entries
  <2>1. k \in Nat \ {0} /\ k <= MaxHeaders
    BY <1>1
  <2>2. Size(k) \in Nat /\ Size(k) >= 1 /\ Size(k) <= Size(MaxHeaders)
    BY <1>1, <2>1, SizeFacts, SizeGrows
  <2>3. Places(k) \subseteq Nat
    BY <2>2 DEF Places
  <2> QED
    BY <1>2, <2>1, <2>2, <2>3
<1> QED
  BY <1>1, <1>2, <1>3

LEMMA HeaderFacts ==
    ASSUME NEW p, HeadersFit(p), NEW k \in 1 .. Newer(p)
    PROVE  /\ k \in 1 .. MaxHeaders /\ k \in Nat \ {0} /\ Newer(p) \in Nat \ {0} /\ k <= Newer(p)
           /\ Size(k) \in Nat /\ Size(k) >= 1 /\ Size(k) <= Size(Newer(p))
           /\ Places(k) \subseteq Nat
           /\ \A s \in Places(k) : Slot(p, k, s) \in 1 .. Size(k) /\ Slot(p, k, s) \in Entries
           /\ \A s, u \in Places(k) : Slot(p, k, s) = Slot(p, k, u) => s = u
           /\ \A e \in 1 .. Size(k) : \E s \in Places(k) : Slot(p, k, s) = e
           /\ blockIndex[p][k].tail \in Places(k)
           /\ DOMAIN blockIndex[p][k].slots = Places(k)
<1>1. Newer(p) \in 1 .. MaxHeaders /\ HeaderFits(blockIndex[p][k], k)
  BY DEF HeadersFit
<1>2. k \in 1 .. MaxHeaders /\ k \in Nat \ {0} /\ Newer(p) \in Nat \ {0} /\ k <= Newer(p)
  BY <1>1, EntriesAre
<1>3. /\ Size(k) \in Nat /\ Size(k) >= 1 /\ Places(k) \subseteq Nat /\ 1 .. Size(k) \subseteq Entries
  BY <1>2, EntriesAre
<1>4. Size(k) <= Size(Newer(p))
  BY <1>2, SizeGrows
<1>5. \A s \in Places(k) : Slot(p, k, s) \in 1 .. Size(k)
  BY <1>1 DEF HeaderFits, Slot
<1>6. /\ \A s, u \in Places(k) : Slot(p, k, s) = Slot(p, k, u) => s = u
      /\ \A e \in 1 .. Size(k) : \E s \in Places(k) : Slot(p, k, s) = e
      /\ blockIndex[p][k].tail \in Places(k)
      /\ DOMAIN blockIndex[p][k].slots = Places(k)
  BY <1>1 DEF HeaderFits, Slot
<1> QED
  BY <1>2, <1>3, <1>4, <1>5, <1>6

\* A place counted from another one of a header.
LEMMA LaterFacts ==
    ASSUME NEW h, NEW k \in Nat \ {0}, DOMAIN h.slots = Places(k), NEW pos \in Int, NEW j \in Int
    PROVE  /\ Later(h, pos, j) \in Places(k)
           /\ Whole(Later(h, pos, j) - (pos + j), Size(k))
<1>1. Size(k) \in Nat /\ Size(k) >= 1
  BY SizeFacts
<1>2. Cardinality(Places(k)) = Size(k)
  <2>1. PICK a \in Int, b \in Int : a = 0 /\ b = Size(k) - 1
    BY <1>1
  <2>2. Cardinality(a .. b) = b - a + 1
    BY <1>1, <2>1, FS_Interval
  <2> QED
    BY <1>1, <2>1, <2>2 DEF Places
<1>3. Later(h, pos, j) = (pos + j) % Size(k)
  BY <1>2 DEF Later
<1>4. (pos + j) % Size(k) \in 0 .. Size(k) - 1 /\ Whole(((pos + j) % Size(k)) - (pos + j), Size(k))
  <2>1. PICK n \in Nat, x \in Int : n = Size(k) /\ x = pos + j
    BY <1>1
  <2>2. x % n \in 0 .. n - 1 /\ Whole((x % n) - x, n)
    BY <1>1, <2>1, WholeMod
  <2> QED
    BY <2>1, <2>2
<1> QED
  BY <1>3, <1>4 DEF Places

LEMMA NumberOnce ==
    ASSUME NEW p, NEW e, NEW m \in Nat, NEW n \in Nat, Holds(p, e, m), Holds(p, e, n)
    PROVE  m = n
<1>1. Start(m) = Start(n) /\ m \in Int /\ n \in Int
  BY DEF Holds
<1> QED
  BY ONLY <1>1, StartFacts

LEMMA HeldNumber ==
    ASSUME NEW p, IndexFits(p), NEW e \in Entries, NEW m \in Nat, Holds(p, e, m)
    PROVE  /\ key[p][e] # InvalidBase
           /\ \E s \in Places(Newer(p)) : Slot(p, Newer(p), s) = e
<1>1. key[p][e] # InvalidBase
  BY StartFacts DEF Holds
<1>2. HeadersFit(p) /\ Newer(p) \in 1 .. Newer(p)
  BY DEF IndexFits, HeadersFit
<1>3. Size(Newer(p)) \in Nat /\ \A f \in 1 .. Size(Newer(p)) : \E s \in Places(Newer(p)) : Slot(p, Newer(p), s) = f
  BY <1>2, HeaderFacts
<1>4. ~(e > Size(Newer(p))) /\ e \in Nat /\ e >= 1
  BY <1>1, EntriesAre DEF IndexFits, EntriesFit
<1>5. e \in 1 .. Size(Newer(p))
  BY <1>3, <1>4
<1> QED
  BY <1>1, <1>3, <1>5

LEMMA AllAligned ==
    ASSUME NEW p, IndexFits(p), Last(p) \in Int, NEW k \in 1 .. Newer(p)
    PROVE  Aligned(p, k)
<1>1. CASE k < Newer(p)
  <2>1. k \in 1 .. Newer(p) - 1
    BY <1>1 DEF IndexFits, HeadersFit
  <2> QED
    BY <2>1 DEF IndexFits
<1>2. CASE k = Newer(p)
  <2>1. HeadersFit(p) /\ AtTail(p)
    BY DEF IndexFits
  <2>2. Size(k) \in Nat /\ Places(k) \subseteq Nat
    BY <2>1, HeaderFacts
  <2> SUFFICES ASSUME NEW s \in Places(k), NEW u \in Places(k), NEW m \in Nat, NEW n \in Nat,
                      Holds(p, Slot(p, k, s), m), Holds(p, Slot(p, k, u), n)
               PROVE  Whole((m - n) - (s - u), Size(k))
    BY DEF Aligned
  <2>3. PICK x : x = Last(p) - Current(p).tail
    OBVIOUS
  <2>4. /\ Whole((m - s) - x, Size(k)) /\ Whole((n - u) - x, Size(k))
    BY <1>2, <2>1, <2>3 DEF AtTail
  <2>5. x \in Int
    <3>1. Current(p).tail \in Nat
      BY <1>2, <2>1, <2>2, HeaderFacts DEF Current, Newer
    <3> QED
      BY <2>3, <3>1
  <2>6. s \in Int /\ u \in Int
    BY <2>2
  <2>7. (m - n) - (s - u) = ((m - s) - x) - ((n - u) - x)
    BY <2>5, <2>6
  <2> QED
    BY <2>2, <2>4, <2>5, <2>6, <2>7, WholeSum
<1> QED
  BY <1>1, <1>2 DEF IndexFits, HeadersFit

\* An entry has one number, a number one entry.
LEMMA EntryOnce ==
    ASSUME NEW p, IndexFits(p), Last(p) \in Int, NEW e \in Entries, NEW f \in Entries,
           NEW m \in Nat, Holds(p, e, m), Holds(p, f, m)
    PROVE  e = f
<1>1. PICK s \in Places(Newer(p)) : Slot(p, Newer(p), s) = e
  BY HeldNumber
<1>2. PICK u \in Places(Newer(p)) : Slot(p, Newer(p), u) = f
  BY HeldNumber
<1>3. HeadersFit(p) /\ Newer(p) \in 1 .. Newer(p) /\ Newer(p) \in Nat \ {0}
  BY DEF IndexFits, HeadersFit
<1>4. Aligned(p, Newer(p))
  BY <1>3, AllAligned
<1>5. Whole((m - m) - (s - u), Size(Newer(p))) /\ Whole((m - m) - (u - s), Size(Newer(p)))
  BY <1>1, <1>2, <1>4 DEF Aligned
<1>6. (m - m) - (u - s) = s - u
  BY <1>3, HeaderFacts
<1>7. s = u
  BY <1>3, <1>5, <1>6, WholePlaces
<1> QED
  BY <1>1, <1>2, <1>7

-----------------------------------------------------------------------------
(* Indices and numbers.                                                    *)

LEMMA FirstNewFacts ==
    ASSUME NEW p, tailIndex[p] \in Nat
    PROVE  /\ FirstNew(p) \in Nat /\ Start(FirstNew(p)) \in Nat
           /\ tailIndex[p] <= Start(FirstNew(p))
           /\ Start(FirstNew(p)) < tailIndex[p] + BlockSize
           /\ Base(tailIndex[p] + BlockSize - 1) = Start(FirstNew(p))
           /\ \A m \in Nat : Start(m) < tailIndex[p] <=> m < FirstNew(p)
           /\ \A i \in Nat : i < tailIndex[p] => Num(i) < FirstNew(p)
<1>1. BlockSize \in Nat /\ BlockSize >= 2
  BY BlockSizeFact
<1>2. PICK i \in Nat : i = tailIndex[p] + BlockSize - 1
  BY <1>1
<1>3. PICK f \in Nat : f = FirstNew(p)
  BY <1>2, NumFacts DEF FirstNew
<1>4. Start(f) \in Nat /\ Start(f) <= i /\ i < Start(f) + BlockSize /\ Base(i) = Start(f)
  BY <1>2, <1>3, NumFacts DEF FirstNew
<1>5. tailIndex[p] <= Start(f) /\ Start(f) < tailIndex[p] + BlockSize
  BY <1>1, <1>2, <1>4
<1>6. ASSUME NEW m \in Nat PROVE Start(m) < tailIndex[p] <=> m < f
  <2>1. m < f => Start(m) + BlockSize <= Start(f)
    BY StartFacts
  <2>2. f < m => Start(f) + BlockSize <= Start(m)
    BY StartFacts
  <2>3. Start(m) \in Nat
    BY StartFacts
  <2> QED
    BY <1>1, <1>4, <1>5, <2>1, <2>2, <2>3
<1>7. ASSUME NEW j \in Nat, j < tailIndex[p] PROVE Num(j) < f
  <2>1. Num(j) \in Nat /\ Start(Num(j)) \in Nat /\ Start(Num(j)) <= j
    BY NumFacts
  <2>2. Start(Num(j)) < tailIndex[p]
    BY <1>7, <2>1
  <2> QED
    BY <1>6, <2>1, <2>2
<1> QED
  BY <1>2, <1>3, <1>4, <1>5, <1>6, <1>7

LEMMA AllocatedFacts ==
    ASSUME NEW p, tailIndex[p] \in Nat, loc[p].n \in Nat, CallFits(p)
    PROVE  /\ Reserved(p) \in Nat /\ Allocated(p) \in Nat /\ FirstNew(p) <= Allocated(p)
           /\ Allocated(p) = FirstNew(p) + Reserved(p)
           /\ Last(p) \in Int /\ Written(p) \in Nat /\ tailIndex[p] <= Written(p)
           /\ pc[p] \in Building =>
                 /\ Reserved(p) = Len(loc[p].got)
                 /\ NextBase(p) = Start(Allocated(p))
                 /\ NeedsBlock(p) <=> Start(Allocated(p)) < tailIndex[p] + loc[p].n
<1>1. FirstNew(p) \in Nat /\ Base(tailIndex[p] + BlockSize - 1) = Start(FirstNew(p))
  BY FirstNewFacts
<1>2. Len(loc[p].got) \in Nat
  BY DEF CallFits
<1>3. Reserved(p) \in Nat /\ Allocated(p) = FirstNew(p) + Reserved(p)
  BY <1>2 DEF Reserved, Allocated
<1>4. Allocated(p) \in Nat /\ FirstNew(p) <= Allocated(p)
  BY <1>1, <1>3
<1>5. Last(p) \in Int
  BY <1>4 DEF Last
<1>6. Written(p) \in Nat /\ tailIndex[p] <= Written(p)
  BY DEF Written
<1>7. ASSUME pc[p] \in Building
      PROVE  /\ Reserved(p) = Len(loc[p].got)
             /\ NextBase(p) = Start(Allocated(p))
             /\ NeedsBlock(p) <=> Start(Allocated(p)) < tailIndex[p] + loc[p].n
  <2>1. Reserved(p) = Len(loc[p].got)
    BY <1>7 DEF Reserved
  <2>2. Start(FirstNew(p)) + Start(Len(loc[p].got)) = Start(Allocated(p))
    <3>1. PICK a \in Int, b \in Int : a = FirstNew(p) /\ b = Len(loc[p].got)
      BY <1>1, <1>2
    <3>2. Start(a) + Start(b) = Start(a + b)
      BY ONLY <3>1, StartSum
    <3>3. Allocated(p) = a + b
      BY <1>3, <2>1, <3>1
    <3> QED
      BY ONLY <3>1, <3>2, <3>3
  <2>3. NextBase(p) = Start(Allocated(p))
    BY <1>1, <2>2 DEF NextBase, Start
  <2> QED
    BY <2>1, <2>3 DEF NeedsBlock
<1> QED
  BY <1>3, <1>4, <1>5, <1>6, <1>7

-----------------------------------------------------------------------------
(* What a step leaves alone.                                               *)

StillCounted(q) == tailIndex'[q] = tailIndex[q] /\ pc'[q] = pc[q] /\ loc'[q] = loc[q]
StillIndexed(q) == blockIndex'[q] = blockIndex[q] /\ key'[q] = key[q]
Still(q) == StillCounted(q) /\ StillIndexed(q) /\ value'[q] = value[q] /\ tailBlock'[q] = tailBlock[q]

LEMMA StillNumbers ==
    ASSUME NEW q, StillCounted(q)
    PROVE  /\ FirstNew(q)' = FirstNew(q) /\ Reserved(q)' = Reserved(q)
           /\ Allocated(q)' = Allocated(q) /\ Written(q)' = Written(q) /\ Last(q)' = Last(q)
           /\ CallFits(q) => CallFits(q)'
<1>1. tailIndex'[q] = tailIndex[q] /\ pc'[q] = pc[q] /\ loc'[q] = loc[q]
  BY DEF StillCounted
<1>2. FirstNew(q)' = FirstNew(q) /\ Reserved(q)' = Reserved(q) /\ Written(q)' = Written(q)
  BY <1>1 DEF FirstNew, Reserved, Written
<1>3. Allocated(q)' = Allocated(q)
  BY <1>2 DEF Allocated
<1>4. Last(q)' = Last(q)
  BY <1>1, <1>3 DEF Last
<1>5. CallFits(q) => CallFits(q)'
  BY <1>1, <1>3 DEF CallFits
<1> QED
  BY <1>2, <1>3, <1>4, <1>5

LEMMA StillEntries ==
    ASSUME NEW q, StillIndexed(q)
    PROVE  /\ Newer(q)' = Newer(q) /\ Current(q)' = Current(q) /\ Newest(q)' = Newest(q)
           /\ \A k, s : Slot(q, k, s)' = Slot(q, k, s)
           /\ \A e, m : Holds(q, e, m)' <=> Holds(q, e, m)
           /\ HeadersFit(q)' <=> HeadersFit(q)
           /\ \A k : (Aligned(q, k)' <=> Aligned(q, k)) /\ (Full(q, k)' <=> Full(q, k))
<1>1. blockIndex'[q] = blockIndex[q] /\ key'[q] = key[q]
  BY DEF StillIndexed
<1>2. Newer(q)' = Newer(q) /\ Current(q)' = Current(q)
  BY <1>1 DEF Newer, Current
<1>3. Newest(q)' = Newest(q)
  BY <1>2 DEF Newest
<1>4. /\ \A k, s : Slot(q, k, s)' = Slot(q, k, s)
      /\ \A e, m : Holds(q, e, m)' <=> Holds(q, e, m)
  BY <1>1 DEF Slot, Holds
<1>5. HeadersFit(q)' <=> HeadersFit(q)
  BY <1>1, <1>2 DEF HeadersFit
<1>6. \A k : (Aligned(q, k)' <=> Aligned(q, k)) /\ (Full(q, k)' <=> Full(q, k))
  BY <1>4 DEF Aligned, Full
<1> QED
  BY <1>2, <1>3, <1>4, <1>5, <1>6

\* The entries of a producer, when its numbers have not changed.
LEMMA StillRing ==
    ASSUME NEW q, IndexFits(q), StillIndexed(q), FirstNew(q)' >= FirstNew(q),
           FirstNew(q) \in Int, FirstNew(q)' \in Int, Allocated(q)' = Allocated(q), Last(q)' = Last(q), EntriesFit(q)'
    PROVE  IndexFits(q)'
<1>1. /\ Newer(q)' = Newer(q) /\ Current(q)' = Current(q)
      /\ \A k, s : Slot(q, k, s)' = Slot(q, k, s)
      /\ \A e, m : Holds(q, e, m)' <=> Holds(q, e, m)
      /\ HeadersFit(q)' <=> HeadersFit(q)
      /\ \A k : (Aligned(q, k)' <=> Aligned(q, k)) /\ (Full(q, k)' <=> Full(q, k))
  BY StillEntries
<1>2. AtTail(q)'
  BY <1>1 DEF IndexFits, AtTail
<1>3. PICK lo, hi : Ring(q, lo, hi)
  BY DEF IndexFits, HasRing
<1>4. Ring(q, lo, hi)'
  BY <1>1, <1>3 DEF Ring
<1>5. HasRing(q)'
  BY <1>4 DEF HasRing
<1> QED
  BY <1>1, <1>2, <1>5 DEF IndexFits

LEMMA StillFits ==
    ASSUME NEW q, ProducerFits(q), Still(q), FirstNew(q) \in Int
    PROVE  /\ ProducerFits(q)'
           /\ Allocated(q)' = Allocated(q) /\ Written(q)' = Written(q)
           /\ FirstNew(q)' = FirstNew(q)
           /\ \A e, m : Finds(q, e, m)' <=> Finds(q, e, m)
<1>1. StillCounted(q) /\ StillIndexed(q) /\ value'[q] = value[q] /\ tailBlock'[q] = tailBlock[q]
      /\ loc'[q] = loc[q] /\ pc'[q] = pc[q] /\ key'[q] = key[q]
  BY DEF Still, StillCounted, StillIndexed
<1>2. /\ FirstNew(q)' = FirstNew(q) /\ Reserved(q)' = Reserved(q)
      /\ Allocated(q)' = Allocated(q) /\ Written(q)' = Written(q) /\ Last(q)' = Last(q)
      /\ CallFits(q)'
  BY <1>1, StillNumbers DEF ProducerFits
<1>3. /\ Newer(q)' = Newer(q) /\ Newest(q)' = Newest(q)
      /\ \A e, m : Holds(q, e, m)' <=> Holds(q, e, m)
  BY <1>1, StillEntries
<1>4. \A e, m : Finds(q, e, m)' <=> Finds(q, e, m)
  BY <1>1, <1>3 DEF Finds
<1>5. EntriesFit(q)'
  BY <1>1, <1>2, <1>3 DEF ProducerFits, IndexFits, EntriesFit
<1>6. IndexFits(q)'
  BY <1>1, <1>2, <1>5, StillRing DEF ProducerFits
<1>7. BlocksFit(q)'
  BY <1>1, <1>2, <1>3, <1>4 DEF ProducerFits, BlocksFit
<1>8. TailFits(q)'
  BY <1>1, <1>2, <1>4 DEF ProducerFits, TailFits
<1> QED
  BY <1>2, <1>4, <1>6, <1>7, <1>8 DEF ProducerFits

\* The elements of a producer stay where they are.
LEMMA KeptStays ==
    ASSUME NEW q, Kept(q), Allocated(q)' = Allocated(q), Written(q)' = Written(q),
           \A m \in Nat : Unread(q, m)' = Unread(q, m),
           \A e \in Entries, m \in Nat : m < Allocated(q) /\ Finds(q, e, m) =>
              /\ Finds(q, e, m)' /\ value'[q][e] = value[q][e]
              /\ elementsCompletelyDequeued'[value[q][e]] = elementsCompletelyDequeued[value[q][e]]
              /\ \A s \in 0 .. BlockSize - 1 : data'[value[q][e]][s] = data[value[q][e]][s]
    PROVE  Kept(q)'
<1> SUFFICES ASSUME NEW m \in Nat, m < Allocated(q), Unread(q, m) # {}
             PROVE  \E e \in Entries : Stores(q, e, m)'
  BY DEF Kept
<1>1. PICK e \in Entries : Stores(q, e, m)
  BY DEF Kept
<1>2. /\ Finds(q, e, m)' /\ value'[q][e] = value[q][e]
      /\ elementsCompletelyDequeued'[value[q][e]] = elementsCompletelyDequeued[value[q][e]]
      /\ \A s \in 0 .. BlockSize - 1 : data'[value[q][e]][s] = data[value[q][e]][s]
  BY <1>1 DEF Stores
<1>3. Unread(q, m)' = Unread(q, m)
  OBVIOUS
<1>4. \A i \in Unread(q, m) : i % BlockSize \in 0 .. BlockSize - 1
  BY CellsFacts, BlockSizeFact DEF Unread
<1>5. Stores(q, e, m)'
  BY <1>1, <1>2, <1>3, <1>4 DEF Stores
<1> QED
  BY <1>5

-----------------------------------------------------------------------------
(* What a consumer knows, when others take a step.                         *)

\* The entries of producer q may get numbers whole rounds from those they had.
IndexMoves(q) ==
    /\ Newer(q)' \in Nat /\ Newer(q)' >= Newer(q)
    /\ \A k \in 1 .. Newer(q) : blockIndex'[q][k].slots = blockIndex[q][k].slots
    /\ \A e \in Entries, m \in Nat : Holds(q, e, m) =>
          \E n \in Nat : Holds(q, e, n)' /\ Whole(n - m, Size(Newer(q)))
FindsSame(q, m) ==
    \A e \in Entries : /\ Finds(q, e, m)' <=> Finds(q, e, m)
                       /\ Finds(q, e, m) => value'[q][e] = value[q][e]

LEMMA RemainingStays ==
    ASSUME NEW c, pc'[c] = pc[c], loc'[c] = loc[c]
    PROVE  Remaining(c)' = Remaining(c) /\ From(c)' = From(c) /\ End(c)' = End(c)
<1>1. From(c)' = From(c) /\ End(c)' = End(c)
  BY DEF From, End, Mine
<1> QED
  BY <1>1 DEF Remaining

\* What a consumer has left are indices of the producer, claimed before.
LEMMA MineFacts ==
    ASSUME NEW c, pc[c] \in Reading \cup Parting, ClaimedFits(c)
    PROVE  /\ IsFiniteSet(Mine(c)) /\ Mine(c) = loc[c].base .. End(c) - 1
           /\ Mine(c) \subseteq Cells(Num(loc[c].base))
           /\ Cardinality(Mine(c)) \in Nat
           /\ End(c) \in Nat /\ End(c) > loc[c].base /\ End(c) <= loc[c].extra
           /\ End(c) < loc[c].extra => End(c) = Start(Num(loc[c].base) + 1)
           /\ \A i \in loc[c].base .. loc[c].extra - 1 : i < End(c) <=> i \in Mine(c)
<1>1. PICK b \in Nat, x \in Nat : b = loc[c].base /\ x = loc[c].extra /\ b < x
  BY DEF ClaimedFits
<1>2. PICK m \in Nat : m = Num(b)
  BY NumFacts
<1>3. /\ Start(m) \in Nat /\ Start(m) <= b /\ b < Start(m) + BlockSize
      /\ BlockSize \in Nat /\ BlockSize >= 2 /\ Base(b) = Start(m)
  BY <1>2, NumFacts, BlockSizeFact
<1>4. ASSUME NEW i \in Nat PROVE Base(i) = Start(m) <=> Num(i) = m
  <2>1. Base(i) = Start(Num(i)) /\ Num(i) \in Int /\ m \in Int
    BY NumFacts
  <2>2. Start(Num(i)) = Start(m) => Num(i) = m
    BY <2>1, StartFacts
  <2> QED
    BY <2>1, <2>2
<1>5. \A i \in Nat : i \in Cells(m) <=> Num(i) = m
  BY NumOrder
<1>6. Mine(c) = {i \in b .. x - 1 : i \in Cells(m)}
  BY <1>1, <1>3, <1>4, <1>5 DEF Mine
<1>7. PICK e \in Nat : e = IF x < Start(m) + BlockSize THEN x ELSE Start(m) + BlockSize
  BY <1>3
<1>8. Mine(c) = b .. e - 1
  BY <1>1, <1>3, <1>6, <1>7 DEF Cells
<1>9. b < e /\ e <= x
  BY <1>1, <1>3, <1>7
<1>10. IsFiniteSet(Mine(c)) /\ Cardinality(Mine(c)) = e - b
  <2>1. PICK l \in Int : l = e - 1
    OBVIOUS
  <2>2. IsFiniteSet(b .. l) /\ Cardinality(b .. l) = IF b > l THEN 0 ELSE l - b + 1
    BY FS_Interval
  <2> QED
    BY <1>8, <1>9, <2>1, <2>2
<1>11. End(c) = e
  BY <1>1, <1>10 DEF End
<1>12. e < x => e = Start(m + 1)
  BY <1>3, <1>7, StartNext
<1>13. Mine(c) \subseteq Cells(m)
  BY <1>6
<1>14. Cardinality(Mine(c)) \in Nat
  BY <1>9, <1>10
<1> QED
  BY <1>1, <1>2, <1>8, <1>9, <1>10, <1>11, <1>12, <1>13, <1>14

LEMMA RemainingNat ==
    ASSUME NEW c, ClaimedFits(c), NEW i \in Remaining(c)
    PROVE  /\ i \in Nat /\ pc[c] \in Reading \cup Parting
           /\ i >= loc[c].base /\ i < loc[c].extra /\ loc[c].extra <= headIndex[From(c)]
           /\ loc[c].extra \in Nat
<1>1. pc[c] \in Reading \cup Parting
  BY DEF Remaining
<1>2. End(c) \in Nat /\ End(c) > loc[c].base /\ loc[c].base \in Nat /\ loc[c].extra \in Nat
      /\ loc[c].extra <= headIndex[From(c)]
  BY <1>1, MineFacts DEF ClaimedFits
<1>3. i \in loc[c].base .. loc[c].extra - 1 \/ i \in End(c) .. loc[c].extra - 1
  BY <1>1 DEF Remaining
<1> QED
  BY <1>1, <1>2, <1>3

\* Where a consumer in a claim is, an entry of its header is meant.
LEMMA EntryFacts ==
    ASSUME NEW c, HeadersFit(From(c)), HeaderKnown(c), EntryKnown(c),
           pc[c] \in {"key", "take", "read", "unindex", "free"}
    PROVE  /\ loc[c].header \in 1 .. Newer(From(c)) /\ loc[c].pos \in Places(loc[c].header)
           /\ Entry(c) = Slot(From(c), loc[c].header, loc[c].pos)
           /\ Entry(c) \in Entries
           /\ Size(loc[c].header) \in Nat /\ loc[c].pos \in Nat
           /\ DOMAIN Header(c).slots = Places(loc[c].header)
<1>1. loc[c].header \in 1 .. Newer(From(c)) /\ loc[c].pos \in Places(loc[c].header)
  BY DEF HeaderKnown, EntryKnown
<1>2. Entry(c) = Slot(From(c), loc[c].header, loc[c].pos)
  BY DEF Entry, Header, Slot
<1>3. DOMAIN Header(c).slots = Places(loc[c].header)
  BY <1>1, HeaderFacts DEF Header
<1> QED
  BY <1>1, <1>2, <1>3, HeaderFacts

\* Its number is that of the block it looks for, up to whole rounds.
LEMMA EntryNear ==
    ASSUME NEW c, HeadersFit(From(c)), HeaderKnown(c), EntryKnown(c), ClaimedFits(c),
           pc[c] \in {"take", "read", "unindex", "free"}
    PROVE  \E m \in Nat : /\ Holds(From(c), Entry(c), m)
                          /\ Whole(m - Num(loc[c].base), Size(loc[c].header))
<1>1. CASE pc[c] = "free"
  BY <1>1 DEF EntryKnown
<1>2. CASE pc[c] # "free"
  <2>1. Num(loc[c].base) \in Nat
    BY NumFacts DEF ClaimedFits, Reading, Parting
  <2>2. Finds(From(c), Entry(c), Num(loc[c].base)) /\ Size(loc[c].header) \in Nat
    BY <1>2, EntryFacts DEF EntryKnown
  <2>3. Whole(Num(loc[c].base) - Num(loc[c].base), Size(loc[c].header))
    BY <2>1, <2>2, WholeFacts
  <2> QED
    BY <2>1, <2>2, <2>3 DEF Finds
<1> QED
  BY <1>1, <1>2

LEMMA ConsumerStays ==
    ASSUME NEW c, NEW q, From(c) = q, pc'[c] = pc[c], loc'[c] = loc[c], ConsumerFits(c),
           pc[c] \in AtProducer =>
              /\ headIndex'[q] \in Nat /\ headIndex[q] \in Nat /\ headIndex'[q] >= headIndex[q]
              /\ HeadersFit(q) /\ IndexMoves(q)
              /\ \A m \in Nat :
                    \/ \E i \in Remaining(c) : Num(i) = m
                    \/ pc[c] = "unindex" /\ m = Num(loc[c].base)
                    => FindsSame(q, m)
              /\ pc[c] = "unindex" => Unread(q, Num(loc[c].base))' = {}
    PROVE  ConsumerFits(c)'
<1>1. From(c)' = q /\ Remaining(c)' = Remaining(c) /\ From(c) = q
  BY RemainingStays
<1>2. CASE pc[c] \notin AtProducer
  <2>1. pc'[c] \notin {"head", "header", "slot", "key", "take", "read", "unindex", "free"}
    BY <1>2 DEF AtProducer
  <2> QED
    BY <2>1 DEF ConsumerFits, ClaimedFits, HeaderKnown, EntryKnown, Reading, Parting
<1>3. CASE pc[c] \in AtProducer
  <2>1. ClaimedFits(c) /\ HeaderKnown(c) /\ EntryKnown(c)
    BY DEF ConsumerFits
  <2>2. ClaimedFits(c)'
    <3>1. pc[c] \in Reading \cup Parting =>
            loc[c].extra \in Nat /\ loc[c].extra <= headIndex[q]
      BY <1>1, <2>1 DEF ClaimedFits
    <3>2. pc[c] \in Reading \cup Parting => loc[c].extra <= headIndex'[q]
      BY <1>3, <3>1
    <3> QED
      BY <1>1, <2>1, <3>2 DEF ClaimedFits
  <2>3. /\ Newer(q)' \in Nat /\ Newer(q)' >= Newer(q)
        /\ \A k \in 1 .. Newer(q) : blockIndex'[q][k].slots = blockIndex[q][k].slots
        /\ \A e \in Entries, m \in Nat : Holds(q, e, m) =>
              \E n \in Nat : Holds(q, e, n)' /\ Whole(n - m, Size(Newer(q)))
    BY <1>3 DEF IndexMoves
  <2>4. ASSUME pc[c] \in Reading \cup Parting, NEW i \in Remaining(c)
        PROVE  i \in Nat /\ Num(i) \in Nat /\ FindsSame(q, Num(i))
    <3>1. i \in Nat
      BY <2>1, <2>4, RemainingNat
    <3> QED
      BY <1>3, <3>1, NumFacts
  <2>5. HeaderKnown(c)'
    <3> SUFFICES ASSUME pc[c] \in {"slot", "key", "take", "read", "unindex", "free"}
                 PROVE  /\ loc[c].header \in 1 .. Newer(q)'
                        /\ \A i \in Remaining(c), e \in Entries :
                              Finds(q, e, Num(i))' => e <= Size(loc[c].header)
      BY <1>1 DEF HeaderKnown
    <3>1. pc[c] \in Reading \cup Parting
      BY DEF Reading, Parting
    <3>2. /\ loc[c].header \in 1 .. Newer(q)
          /\ \A i \in Remaining(c), e \in Entries : Finds(q, e, Num(i)) => e <= Size(loc[c].header)
      BY <1>1, <2>1 DEF HeaderKnown
    <3>3. Newer(q) \in Nat
      BY <1>3 DEF HeadersFit
    <3> QED
      BY <2>3, <2>4, <3>1, <3>2, <3>3 DEF FindsSame
  <2>6. EntryKnown(c)'
    <3> SUFFICES ASSUME pc[c] \in {"key", "take", "read", "unindex", "free"} PROVE EntryKnown(c)'
      BY DEF EntryKnown
    <3>1. /\ loc[c].header \in 1 .. Newer(q) /\ loc[c].pos \in Places(loc[c].header)
          /\ Entry(c) \in Entries /\ Size(loc[c].header) \in Nat
      BY <1>1, <1>3, <2>1, EntryFacts
    <3>7. PICK x \in Entries : x = Entry(c)
      BY <3>1
    <3>2. Entry(c)' = x
      BY <1>1, <2>3, <3>1, <3>7 DEF Entry, Header
    <3>3. ASSUME NEW m \in Nat, Holds(q, x, m)
          PROVE  \E n \in Nat : Holds(q, x, n)' /\ Whole(n - m, Size(loc[c].header))
      <4>1. PICK n \in Nat : Holds(q, x, n)' /\ Whole(n - m, Size(Newer(q)))
        BY <2>3, <3>1, <3>3
      <4>2. /\ loc[c].header \in Nat \ {0} /\ Newer(q) \in Nat \ {0} /\ loc[c].header <= Newer(q)
        BY <1>3, <3>1, HeaderFacts
      <4>3. Whole(n - m, Size(loc[c].header))
        BY <4>1, <4>2, WholeSize
      <4> QED
        BY <4>1, <4>3
    <3>4. loc'[c].pos \in Places(loc'[c].header) /\ \E m \in Nat : Holds(q, x, m)'
      BY <1>1, <2>1, <3>1, <3>3, <3>7 DEF EntryKnown
    <3>8. PICK y : y = Num(loc[c].base)
      OBVIOUS
    <3>5. ASSUME pc[c] \in {"take", "read", "unindex"}
          PROVE  /\ Finds(q, x, y)'
                 /\ pc[c] \in {"read", "unindex"} => loc[c].block = value'[q][x]
      <4>1. Finds(q, x, Num(loc[c].base)) /\ loc[c].base \in Nat /\ Num(loc[c].base) \in Nat
            /\ (pc[c] \in {"read", "unindex"} => loc[c].block = value[q][x])
        BY <1>1, <2>1, <3>5, <3>7, NumFacts DEF EntryKnown, ClaimedFits, Reading, Parting
      <4>2. FindsSame(q, Num(loc[c].base))
        <5>1. CASE pc[c] = "unindex"
          BY <1>3, <4>1, <5>1
        <5>2. CASE pc[c] # "unindex"
          <6>1. loc[c].base \in Remaining(c) /\ pc[c] \in Reading \cup Parting
            BY <2>1, <3>5, <5>2 DEF Remaining, ClaimedFits, Reading, Parting
          <6> QED
            BY <2>4, <6>1
        <5> QED
          BY <5>1, <5>2
      <4> QED
        BY <3>8, <4>1, <4>2 DEF FindsSame
    <3>6. ASSUME pc[c] = "free"
          PROVE  \E m \in Nat : /\ Holds(q, x, m)'
                                /\ Whole(m - Num(loc[c].base), Size(loc[c].header))
      <4>1. PICK m \in Nat : /\ Holds(q, x, m)
                             /\ Whole(m - Num(loc[c].base), Size(loc[c].header))
        BY <1>1, <2>1, <3>6, <3>7 DEF EntryKnown
      <4>2. PICK n \in Nat : Holds(q, x, n)' /\ Whole(n - m, Size(loc[c].header))
        BY <3>3, <4>1
      <4>3. Num(loc[c].base) \in Nat
        BY <2>1, <3>6, NumFacts DEF ClaimedFits, Parting
      <4>4. n - Num(loc[c].base) = (n - m) + (m - Num(loc[c].base))
        BY <4>3
      <4>5. Whole(n - Num(loc[c].base), Size(loc[c].header))
        BY <3>1, <4>1, <4>2, <4>3, <4>4, WholeSum
      <4> QED
        BY <4>2, <4>5
    <3> QED
      BY <1>1, <1>3, <3>2, <3>4, <3>5, <3>6, <3>8 DEF EntryKnown
  <2> QED
    BY <2>2, <2>5, <2>6 DEF ConsumerFits
<1> QED
  BY <1>2, <1>3

LEMMA HeadBehind ==
    ASSUME ClaimInv, NEW p \in Producers
    PROVE  /\ headIndex[p] \in Nat /\ tailIndex[p] \in Nat /\ headIndex[p] <= tailIndex[p]
           /\ loc[p].n \in Nat /\ DOMAIN loc[p] = Fields
           /\ p \in Threads /\ DOMAIN pc = Threads /\ DOMAIN loc = Threads
<1>1. /\ headIndex[p] \in Nat /\ tailIndex[p] \in Nat
      /\ loc[p].n \in Nat /\ DOMAIN loc[p] = Fields
      /\ p \in Threads /\ DOMAIN pc = Threads /\ DOMAIN loc = Threads
  BY Assumed DEF ClaimInv, Typed
<1>2. PICK at, cut : Orderly(p, at, cut)
  BY DEF ClaimInv, HasOrder
<1>3. headIndex[p] + Total(Sure(p)) + Total(Before(p, at, cut)) <= tailIndex[p]
  BY <1>2 DEF Orderly, Taken
<1>4. Total(Sure(p)) \in Nat /\ Total(Before(p, at, cut)) \in Nat
  BY WeightFacts
<1>5. headIndex[p] <= tailIndex[p]
  BY ONLY <1>1, <1>3, <1>4
<1> QED
  BY <1>1, <1>5

LEMMA ProducerKnown ==
    ASSUME ClaimInv, PlacesInv, NEW p \in Producers
    PROVE  /\ ProducerFits(p) /\ Kept(p)
           /\ IndexFits(p) /\ CallFits(p) /\ BlocksFit(p) /\ TailFits(p) /\ HeadersFit(p)
           /\ FirstNew(p) \in Nat /\ Reserved(p) \in Nat /\ Allocated(p) \in Nat
           /\ FirstNew(p) <= Allocated(p) /\ Last(p) \in Int
           /\ Newer(p) \in 1 .. MaxHeaders /\ Newer(p) \in Nat \ {0}
           /\ pc[p] \in Building \cup {"idle", "free"}
           /\ loc[p].got \in Seq(Blocks)
<1>1. ProducerFits(p) /\ Kept(p) /\ tailIndex[p] \in Nat /\ loc[p].n \in Nat
  BY HeadBehind DEF PlacesInv
<1>2. IndexFits(p) /\ CallFits(p) /\ BlocksFit(p) /\ TailFits(p) /\ HeadersFit(p)
  BY <1>1 DEF ProducerFits, IndexFits
<1>3. /\ FirstNew(p) \in Nat /\ Reserved(p) \in Nat /\ Allocated(p) \in Nat
      /\ FirstNew(p) <= Allocated(p) /\ Last(p) \in Int
  BY <1>1, <1>2, FirstNewFacts, AllocatedFacts
<1>4. Newer(p) \in 1 .. MaxHeaders /\ Newer(p) \in Nat \ {0}
  BY <1>2 DEF HeadersFit
<1> QED
  BY <1>1, <1>2, <1>3, <1>4 DEF CallFits

LEMMA ConsumerKnown ==
    ASSUME ClaimInv, PlacesInv, NEW c \in Consumers
    PROVE  /\ ConsumerFits(c) /\ ClaimedFits(c) /\ HeaderKnown(c) /\ EntryKnown(c)
           /\ c \in Threads /\ DOMAIN loc[c] = Fields /\ DOMAIN pc = Threads /\ DOMAIN loc = Threads
           /\ pc[c] \in AtProducer => From(c) \in Producers
<1>1. ConsumerFits(c) /\ Knows(c)
  BY DEF PlacesInv, ClaimInv
<1>2. /\ c \in Threads /\ DOMAIN loc[c] = Fields /\ DOMAIN pc = Threads /\ DOMAIN loc = Threads
  BY Assumed DEF ClaimInv, Typed
<1>3. pc[c] \in AtProducer => From(c) \in Producers
  BY <1>1 DEF Knows, Fits, From
<1> QED
  BY <1>1, <1>2, <1>3 DEF ConsumerFits

LEMMA UnreadStays ==
    ASSUME NEW q, headIndex'[q] = headIndex[q],
           \A c \in Consumers : From(c)' = From(c) /\ Remaining(c)' = Remaining(c),
           NEW m
    PROVE  Unread(q, m)' = Unread(q, m)
BY DEF Unread

LEMMA StillMoves ==
    ASSUME NEW q, IndexFits(q), StillIndexed(q), value'[q] = value[q]
    PROVE  IndexMoves(q) /\ \A m : FindsSame(q, m)
<1>1. /\ blockIndex'[q] = blockIndex[q] /\ key'[q] = key[q]
  BY DEF StillIndexed
<1>2. Newer(q)' = Newer(q) /\ Newer(q) \in Nat /\ Size(Newer(q)) \in Nat
  BY StillEntries, SizeFacts, EntriesAre DEF IndexFits, HeadersFit
<1>3. \A m \in Nat : Whole(m - m, Size(Newer(q)))
  BY <1>2, WholeFacts
<1>4. \A e, m : Holds(q, e, m)' <=> Holds(q, e, m)
  BY StillEntries
<1>5. IndexMoves(q)
  BY <1>1, <1>2, <1>3, <1>4 DEF IndexMoves
<1>6. \A m : FindsSame(q, m)
  BY <1>4 DEF FindsSame, Finds
<1> QED
  BY <1>5, <1>6

\* What is left to show of a step of a producer.
LEMMA ProducerFrame ==
    ASSUME ClaimInv, PlacesInv, NEW p \in Producers, headIndex' = headIndex,
           \A c \in Consumers : pc'[c] = pc[c] /\ loc'[c] = loc[c],
           \A q \in Producers \ {p} : Still(q),
           \A q \in Producers \ {p}, e \in Entries : value[q][e] # Null =>
              /\ elementsCompletelyDequeued'[value[q][e]] = elementsCompletelyDequeued[value[q][e]]
              /\ \A s \in 0 .. BlockSize - 1 : data'[value[q][e]][s] = data[value[q][e]][s],
           PlacesTyped', ProducerFits(p)', Kept(p)',
           IndexMoves(p), \A m \in Nat : m < FirstNew(p) => FindsSame(p, m),
           HomesApart', ListInv(InUse)'
    PROVE  PlacesInv'
<1>1. \A c \in Consumers : /\ Remaining(c)' = Remaining(c) /\ From(c)' = From(c)
                           /\ pc'[c] = pc[c] /\ loc'[c] = loc[c]
  BY RemainingStays
<1>2. \A q, m : Unread(q, m)' = Unread(q, m)
  BY <1>1, UnreadStays
<1>3. ASSUME NEW q \in Producers PROVE ProducerFits(q)' /\ Kept(q)'
  <2>1. CASE q = p
    BY <2>1
  <2>2. CASE q # p
    <3>1. Still(q) /\ ProducerFits(q) /\ Kept(q) /\ FirstNew(q) \in Int
      BY <2>2, ProducerKnown
    <3>2. /\ ProducerFits(q)' /\ Allocated(q)' = Allocated(q) /\ Written(q)' = Written(q)
          /\ \A e, m : Finds(q, e, m)' <=> Finds(q, e, m)
      BY <3>1, StillFits
    <3>3. value'[q] = value[q]
      BY <3>1 DEF Still
    <3>4. \A e \in Entries : \A m : Finds(q, e, m) =>
              /\ elementsCompletelyDequeued'[value[q][e]] = elementsCompletelyDequeued[value[q][e]]
              /\ \A s \in 0 .. BlockSize - 1 : data'[value[q][e]][s] = data[value[q][e]][s]
      BY <2>2 DEF Finds
    <3>5. Kept(q)'
      BY <1>2, <3>1, <3>2, <3>3, <3>4, KeptStays
    <3> QED
      BY <3>2, <3>5
  <2> QED
    BY <2>1, <2>2
<1>4. ASSUME NEW c \in Consumers PROVE ConsumerFits(c)'
  <2>1. PICK q : q = From(c)
    OBVIOUS
  <2>2. pc'[c] = pc[c] /\ loc'[c] = loc[c] /\ ConsumerFits(c) /\ ClaimedFits(c) /\ EntryKnown(c)
        /\ (pc[c] \in AtProducer => q \in Producers)
    BY <2>1, ConsumerKnown
  <2>3. ASSUME pc[c] \in AtProducer
        PROVE  /\ headIndex'[q] \in Nat /\ headIndex[q] \in Nat /\ headIndex'[q] >= headIndex[q]
               /\ HeadersFit(q) /\ IndexMoves(q)
               /\ \A m \in Nat :
                     \/ \E i \in Remaining(c) : Num(i) = m
                     \/ pc[c] = "unindex" /\ m = Num(loc[c].base)
                     => FindsSame(q, m)
               /\ pc[c] = "unindex" => Unread(q, Num(loc[c].base))' = {}
    <3>1. q \in Producers
      BY <2>2, <2>3
    <3>2. /\ headIndex'[q] \in Nat /\ headIndex[q] \in Nat /\ headIndex'[q] >= headIndex[q]
          /\ tailIndex[q] \in Nat /\ headIndex[q] <= tailIndex[q]
      BY <3>1, HeadBehind
    <3>3. IndexFits(q) /\ HeadersFit(q)
      BY <3>1, ProducerKnown
    <3>4. IndexMoves(q) /\ \A m \in Nat : m < FirstNew(q) => FindsSame(q, m)
      <4>1. CASE q = p
        BY <4>1
      <4>2. CASE q # p
        BY <3>1, <3>3, <4>2, StillMoves DEF Still
      <4> QED
        BY <4>1, <4>2
    <3>5. \A i \in Nat : i < headIndex[q] => Num(i) < FirstNew(q)
      BY <3>2, FirstNewFacts
    <3>6. ASSUME NEW i \in Remaining(c) PROVE i \in Nat /\ i < headIndex[q]
      <4>1. i \in Nat /\ i < loc[c].extra /\ loc[c].extra <= headIndex[q] /\ loc[c].extra \in Nat
        BY <2>1, <2>2, RemainingNat
      <4> QED
        BY <3>2, <4>1
    <3>7. pc[c] = "unindex" => loc[c].base \in Nat /\ loc[c].base < headIndex[q]
      <4>1. pc[c] = "unindex" => /\ loc[c].base \in Nat /\ loc[c].extra \in Nat
                                 /\ loc[c].base < loc[c].extra /\ loc[c].extra <= headIndex[q]
        BY <2>1, <2>2 DEF ClaimedFits, Parting
      <4> QED
        BY <3>2, <4>1
    <3>8. \A i \in Remaining(c) : FindsSame(q, Num(i))
      BY <3>4, <3>5, <3>6, NumFacts
    <3>9. pc[c] = "unindex" => FindsSame(q, Num(loc[c].base))
      BY <3>4, <3>5, <3>7, NumFacts
    <3>10. pc[c] = "unindex" => Unread(q, Num(loc[c].base))' = {}
      <4>1. PICK m : m = Num(loc[c].base)
        OBVIOUS
      <4>2. Num(loc[c].base)' = m
        BY <2>2, <4>1 DEF Num
      <4>3. pc[c] = "unindex" => Unread(q, m) = {}
        BY <2>1, <2>2, <4>1 DEF EntryKnown
      <4> QED
        BY <1>2, <4>1, <4>2, <4>3
    <3> QED
      BY <3>2, <3>3, <3>4, <3>8, <3>9, <3>10
  <2> QED
    BY <2>1, <2>2, <2>3, ConsumerStays
<1>5. ClaimsApart'
  BY <1>1 DEF PlacesInv, ClaimsApart
<1> QED
  BY <1>3, <1>4, <1>5 DEF PlacesInv

-----------------------------------------------------------------------------
(* The homes, when no block changes hands.                                 *)

LEMMA InUseBecomes ==
    ASSUME NEW held, ListInv(held)', InUse' = held
    PROVE  ListInv(InUse)'
BY DEF ListInv, Apart

LEMMA HomesStay ==
    ASSUME PlacesInv, value' = value, unused' = unused, freeList' = freeList,
           \A q \in Producers : /\ pc'[q] = "free" <=> pc[q] = "free"
                                /\ pc[q] = "free" => loc'[q].got = loc[q].got
    PROVE  HomesApart' /\ ListInv(InUse)' /\ InUse' = InUse
<1>1. \A q \in Producers : Undone(q)' = Undone(q)
  BY DEF Undone
<1>2. Indexed' = Indexed
  BY DEF Indexed
<1>3. InUse' = InUse
  BY <1>1, <1>2 DEF InUse
<1>4. HomesApart'
  BY <1>1, <1>2 DEF PlacesInv, HomesApart
<1>5. PICK held : held = InUse
  OBVIOUS
<1>6. ListInv(held)'
  BY <1>5, ListStutter DEF PlacesInv
<1> QED
  BY <1>3, <1>4, <1>5, <1>6, InUseBecomes

\* A step that changes only where a producer is and its call.
LEMMA QuietProducer ==
    ASSUME ClaimInv, PlacesInv, NEW p \in Producers, headIndex' = headIndex,
           \A c \in Consumers : pc'[c] = pc[c] /\ loc'[c] = loc[c],
           \A q \in Producers \ {p} : StillCounted(q),
           UNCHANGED <<entries, blocks, tailBlock>>,
           CallFits(p)', BlocksFit(p)', Allocated(p)' = Allocated(p), Written(p)' = Written(p),
           Last(p)' = Last(p), FirstNew(p)' \in Int, FirstNew(p)' >= FirstNew(p),
           HomesApart', ListInv(InUse)'
    PROVE  PlacesInv'
<1>1. /\ blockIndex' = blockIndex /\ key' = key /\ value' = value /\ data' = data
      /\ elementsCompletelyDequeued' = elementsCompletelyDequeued /\ unused' = unused
      /\ tailBlock' = tailBlock
  BY DEF entries, blocks
<1>2. \A q \in Producers : StillIndexed(q)
  BY <1>1 DEF StillIndexed
<1>3. /\ IndexFits(p) /\ TailFits(p) /\ Kept(p) /\ FirstNew(p) \in Int
  BY ProducerKnown
<1>4. \A e, m : (Holds(p, e, m)' <=> Holds(p, e, m)) /\ (Finds(p, e, m)' <=> Finds(p, e, m))
  BY <1>1, <1>2, StillEntries DEF Finds
<1>5. EntriesFit(p)'
  <2>1. Newer(p)' = Newer(p)
    BY <1>2, StillEntries
  <2> QED
    BY <1>1, <1>3, <1>4, <2>1 DEF IndexFits, EntriesFit
<1>6. IndexFits(p)'
  BY <1>2, <1>3, <1>5, StillRing
<1>7. TailFits(p)'
  BY <1>1, <1>3, <1>4 DEF TailFits
<1>8. ProducerFits(p)'
  BY <1>6, <1>7 DEF ProducerFits
<1>9. \A q, m : Unread(q, m)' = Unread(q, m)
  BY RemainingStays, UnreadStays
<1>10. Kept(p)'
  BY <1>1, <1>3, <1>4, <1>9, KeptStays
<1>11. IndexMoves(p) /\ \A m : FindsSame(p, m)
  BY <1>1, <1>2, <1>3, StillMoves
<1>12. PlacesTyped'
  BY <1>1 DEF PlacesInv, PlacesTyped
<1>13. \A q \in Producers \ {p} : Still(q)
  BY <1>1, <1>2 DEF Still
<1> QED
  BY <1>1, <1>8, <1>10, <1>11, <1>12, <1>13, ProducerFrame

\* The places and calls after a step of a producer.
LEMMA ProducerMoved ==
    ASSUME ClaimInv, NEW p \in Producers, NEW to, pc' = [pc EXCEPT ![p] = to]
    PROVE  /\ pc'[p] = to /\ \A t \in Threads \ {p} : pc'[t] = pc[t]
           /\ \A c \in Consumers : pc'[c] = pc[c] /\ c # p
BY HeadBehind, Assumed

LEMMA ProducerCalled ==
    ASSUME ClaimInv, NEW p \in Producers, NEW call, loc' = [loc EXCEPT ![p] = call]
    PROVE  /\ loc'[p] = call /\ \A t \in Threads \ {p} : loc'[t] = loc[t]
           /\ \A c \in Consumers : loc'[c] = loc[c]
BY HeadBehind, Assumed

LEMMA BeginEnqueuePlaces ==
    ASSUME ClaimInv, PlacesInv, NEW p \in Producers, NEW n \in Batches, NEW mode,
           BeginEnqueue(p, n, mode)
    PROVE  PlacesInv'
<1>1. /\ pc[p] = "idle" /\ pc' = [pc EXCEPT ![p] = "reserve"]
      /\ loc' = [loc EXCEPT ![p] = [NoCall EXCEPT !.n = n, !.mode = mode]]
      /\ UNCHANGED <<freeList, indices, entries, blocks, tailBlock>>
  BY DEF BeginEnqueue, Go
<1>2. PICK call : call = [NoCall EXCEPT !.n = n, !.mode = mode]
  OBVIOUS
<1>3. call.n = n /\ n \in Nat /\ n >= 1 /\ call.got = <<>> /\ Len(call.got) = 0
  BY <1>2, Assumed DEF NoCall
<1>4. /\ pc'[p] = "reserve" /\ loc'[p] = call
      /\ \A c \in Consumers : pc'[c] = pc[c] /\ loc'[c] = loc[c]
      /\ \A q \in Producers \ {p} : pc'[q] = pc[q] /\ loc'[q] = loc[q]
  <2>1. loc' = [loc EXCEPT ![p] = call]
    BY <1>1, <1>2
  <2>2. loc'[p] = call /\ \A t \in Threads \ {p} : loc'[t] = loc[t]
    BY <2>1, ProducerCalled
  <2>3. pc'[p] = "reserve" /\ \A t \in Threads \ {p} : pc'[t] = pc[t]
    BY <1>1, ProducerMoved
  <2> QED
    BY <2>2, <2>3, Assumed
<1>5. tailIndex' = tailIndex /\ headIndex' = headIndex /\ freeList' = freeList
      /\ value' = value /\ unused' = unused
  BY <1>1 DEF indices, entries, blocks
<1>6. FirstNew(p) \in Nat /\ FirstNew(p)' = FirstNew(p)
  BY <1>5, ProducerKnown DEF FirstNew
<1>7. Reserved(p) = 0 /\ Reserved(p)' = 0
  BY <1>1, <1>3, <1>4 DEF Reserved, Building
<1>8. Allocated(p)' = Allocated(p)
  BY <1>6, <1>7 DEF Allocated
<1>9. Last(p)' = Last(p) /\ Written(p)' = Written(p)
  BY <1>1, <1>4, <1>5, <1>8 DEF Last, Written, Halfway
<1>10. CallFits(p)'
  <2>1. <<>> \in Seq(Blocks)
    OBVIOUS
  <2>2. /\ pc'[p] = "reserve" /\ loc'[p].n >= 1 /\ loc'[p].got \in Seq(Blocks)
        /\ ~(Len(loc'[p].got) >= 1)
    <3>1. pc'[p] = "reserve" /\ loc'[p].n >= 1 /\ loc'[p].got \in Seq(Blocks)
      BY ONLY <1>3, <1>4, <2>1
    <3>2. Len(loc'[p].got) = 0
      BY ONLY <1>3, <1>4
    <3> QED
      BY ONLY <3>1, <3>2
  <2> QED
    BY <2>2 DEF CallFits, Building, Halfway
<1>11. BlocksFit(p)'
  BY <1>3, <1>4 DEF BlocksFit, Halfway
<1>12. \A q \in Producers \ {p} : StillCounted(q)
  BY <1>4, <1>5 DEF StillCounted
<1>13. HomesApart' /\ ListInv(InUse)'
  BY <1>1, <1>4, <1>5, HomesStay
<1> QED
  BY <1>1, <1>4, <1>5, <1>6, <1>8, <1>9, <1>10, <1>11, <1>12, <1>13, QuietProducer

LEMMA NoRoomPlaces ==
    ASSUME ClaimInv, PlacesInv, NEW p \in Producers, NoRoom(p)
    PROVE  PlacesInv'
<1>1. /\ pc[p] = "reserve" /\ pc' = [pc EXCEPT ![p] = "undo"] /\ loc' = loc
      /\ UNCHANGED <<freeList, indices, entries, blocks, tailBlock>>
  BY DEF NoRoom, Go
<1>2. /\ pc'[p] = "undo" /\ \A c \in Consumers : pc'[c] = pc[c] /\ loc'[c] = loc[c]
      /\ \A q \in Producers \ {p} : pc'[q] = pc[q] /\ loc'[q] = loc[q]
  BY <1>1, ProducerMoved, Assumed
<1>3. /\ tailIndex' = tailIndex /\ headIndex' = headIndex /\ freeList' = freeList
      /\ value' = value /\ unused' = unused /\ key' = key /\ blockIndex' = blockIndex
  BY <1>1 DEF indices, entries, blocks
<1>4. /\ FirstNew(p) \in Nat /\ CallFits(p) /\ BlocksFit(p)
  BY ProducerKnown
<1>5. FirstNew(p)' = FirstNew(p) /\ Reserved(p)' = Reserved(p)
  BY <1>1, <1>2, <1>3 DEF FirstNew, Reserved, Building
<1>6. Allocated(p)' = Allocated(p)
  BY <1>5 DEF Allocated
<1>7. Last(p)' = Last(p) /\ Written(p)' = Written(p)
  BY <1>1, <1>2, <1>3, <1>6 DEF Last, Written, Halfway
<1>8. CallFits(p)'
  BY <1>1, <1>2, <1>3, <1>4, <1>6 DEF CallFits, Building, Halfway
<1>9. BlocksFit(p)'
  <2>1. \A e, m : Finds(p, e, m)' <=> Finds(p, e, m)
    BY <1>3 DEF Finds, Holds
  <2> QED
    BY <1>1, <1>2, <1>3, <1>4, <1>5, <2>1 DEF BlocksFit, Building, Halfway
<1>10. \A q \in Producers \ {p} : StillCounted(q)
  BY <1>2, <1>3 DEF StillCounted
<1>11. HomesApart' /\ ListInv(InUse)'
  BY <1>1, <1>2, <1>3, HomesStay
<1> QED
  BY <1>1, <1>2, <1>3, <1>4, <1>5, <1>6, <1>7, <1>8, <1>9, <1>10, <1>11, QuietProducer

LEMMA RefusePlaces ==
    ASSUME ClaimInv, PlacesInv, NEW p \in Producers, Refuse(p)
    PROVE  PlacesInv'
<1>1. /\ pc[p] = "free" /\ pc' = [pc EXCEPT ![p] = "idle"]
      /\ loc[p].got = <<>> /\ loc' = [loc EXCEPT ![p] = NoCall]
      /\ UNCHANGED <<freeList, indices, entries, blocks, tailBlock>>
  BY DEF Refuse, Go
<1>2. /\ pc'[p] = "idle" /\ loc'[p] = NoCall
      /\ \A c \in Consumers : pc'[c] = pc[c] /\ loc'[c] = loc[c]
      /\ \A q \in Producers \ {p} : pc'[q] = pc[q] /\ loc'[q] = loc[q]
  BY <1>1, ProducerMoved, ProducerCalled, Assumed
<1>3. /\ tailIndex' = tailIndex /\ headIndex' = headIndex /\ freeList' = freeList
      /\ value' = value /\ unused' = unused
  BY <1>1 DEF indices, entries, blocks
<1>4. FirstNew(p) \in Nat /\ FirstNew(p)' = FirstNew(p) /\ Reserved(p)' = 0 /\ Reserved(p) = 0
  BY <1>1, <1>2, <1>3, ProducerKnown DEF FirstNew, Reserved, Building
<1>5. Allocated(p)' = Allocated(p)
  BY <1>4 DEF Allocated
<1>6. Last(p)' = Last(p) /\ Written(p)' = Written(p)
  BY <1>1, <1>2, <1>3, <1>5 DEF Last, Written, Halfway
<1>7. CallFits(p)' /\ BlocksFit(p)'
  <2>1. NoCall.got = <<>> /\ <<>> \in Seq(Blocks)
    BY DEF NoCall
  <2> QED
    BY <1>2, <2>1 DEF CallFits, BlocksFit, Building, Halfway
<1>8. \A q \in Producers \ {p} : StillCounted(q)
  BY <1>2, <1>3 DEF StillCounted
<1>9. HomesApart' /\ ListInv(InUse)'
  <2>1. \A q \in Producers : Undone(q)' = Undone(q)
    <3>1. Undone(p) = {} /\ Undone(p)' = {}
      BY <1>1, <1>2 DEF Undone
    <3> QED
      BY <1>2, <3>1 DEF Undone
  <2>2. Indexed' = Indexed /\ InUse' = InUse
    BY <1>3, <2>1 DEF Indexed, InUse
  <2>3. HomesApart'
    BY <1>2, <1>3, <2>1, <2>2 DEF PlacesInv, HomesApart
  <2>4. PICK held : held = InUse
    OBVIOUS
  <2>5. ListInv(held)'
    BY <1>3, <2>4, ListStutter DEF PlacesInv
  <2> QED
    BY <2>2, <2>3, <2>4, <2>5, InUseBecomes
<1> QED
  BY <1>1, <1>2, <1>3, <1>4, <1>5, <1>6, <1>7, <1>8, <1>9, QuietProducer

LEMMA FromFreeListPlaces ==
    ASSUME ClaimInv, PlacesInv, NEW p \in Producers, FromFreeList(p)
    PROVE  PlacesInv'
<1>1. /\ pc[p] = "block" /\ pc' = [pc EXCEPT ![p] = "list"] /\ loc' = loc
      /\ CallTryGet(p) /\ UNCHANGED <<indices, entries, blocks, tailBlock>>
  BY DEF FromFreeList, Go
<1>2. /\ pc'[p] = "list" /\ \A c \in Consumers : pc'[c] = pc[c] /\ loc'[c] = loc[c]
      /\ \A q \in Producers \ {p} : pc'[q] = pc[q] /\ loc'[q] = loc[q]
  BY <1>1, ProducerMoved, Assumed
<1>3. /\ tailIndex' = tailIndex /\ headIndex' = headIndex
      /\ value' = value /\ unused' = unused /\ key' = key /\ blockIndex' = blockIndex
  BY <1>1 DEF indices, entries, blocks
<1>4. /\ FirstNew(p) \in Nat /\ CallFits(p) /\ BlocksFit(p)
  BY ProducerKnown
<1>5. FirstNew(p)' = FirstNew(p) /\ Reserved(p)' = Reserved(p)
  BY <1>1, <1>2, <1>3 DEF FirstNew, Reserved, Building
<1>6. Allocated(p)' = Allocated(p)
  BY <1>5 DEF Allocated
<1>7. Last(p)' = Last(p) /\ Written(p)' = Written(p)
  BY <1>1, <1>2, <1>3, <1>6 DEF Last, Written, Halfway
<1>8. CallFits(p)'
  BY <1>1, <1>2, <1>3, <1>4, <1>6 DEF CallFits, Building, Halfway
<1>9. BlocksFit(p)'
  <2>1. (\A e, m : (Finds(p, e, m)' <=> Finds(p, e, m)) /\ (Holds(p, e, m)' <=> Holds(p, e, m)))
        /\ Newest(p)' = Newest(p)
    BY <1>3 DEF Finds, Holds, Newest, Current
  <2> QED
    BY <1>1, <1>2, <1>3, <1>4, <1>5, <1>6, <2>1 DEF BlocksFit, Building, Halfway
<1>10. \A q \in Producers \ {p} : StillCounted(q)
  BY <1>2, <1>3 DEF StillCounted
<1>11. HomesApart' /\ ListInv(InUse)'
  <2>1. \A q \in Producers : Undone(q)' = Undone(q)
    BY <1>1, <1>2 DEF Undone
  <2>2. Indexed' = Indexed /\ InUse' = InUse
    BY <1>3, <2>1 DEF Indexed, InUse
  <2>3. HomesApart'
    BY <1>1, <1>2, <1>3, <2>1, <2>2 DEF PlacesInv, HomesApart
  <2>4. PICK held : held = InUse
    OBVIOUS
  <2>5. ListInv(held)'
    BY <1>1, <2>4, HeadBehind, CallTryGetStep DEF PlacesInv
  <2> QED
    BY <2>2, <2>3, <2>4, <2>5, InUseBecomes
<1> QED
  BY <1>1, <1>2, <1>3, <1>4, <1>5, <1>6, <1>7, <1>8, <1>9, <1>10, <1>11, QuietProducer

LEMMA PublishPlaces ==
    ASSUME ClaimInv, PlacesInv, NEW p \in Producers, Publish(p)
    PROVE  PlacesInv'
<1>1. /\ pc[p] = "publish" /\ pc' = [pc EXCEPT ![p] = "idle"]
      /\ tailIndex' = [tailIndex EXCEPT ![p] = @ + loc[p].n]
      /\ loc' = [loc EXCEPT ![p] = NoCall]
      /\ UNCHANGED <<freeList, headIndex, entries, blocks, tailBlock>>
  BY DEF Publish, Go
<1>2. /\ pc'[p] = "idle" /\ loc'[p] = NoCall
      /\ \A c \in Consumers : pc'[c] = pc[c] /\ loc'[c] = loc[c]
      /\ \A q \in Producers \ {p} : pc'[q] = pc[q] /\ loc'[q] = loc[q]
  BY <1>1, ProducerMoved, ProducerCalled, Assumed
<1>3. /\ headIndex' = headIndex /\ freeList' = freeList
      /\ value' = value /\ unused' = unused
  BY <1>1 DEF entries, blocks
<1>4. /\ tailIndex[p] \in Nat /\ loc[p].n \in Nat /\ FirstNew(p) \in Nat /\ CallFits(p)
      /\ Allocated(p) \in Nat /\ FirstNew(p) <= Allocated(p)
      /\ Allocated(p) = FirstNew(p) + Reserved(p) /\ Reserved(p) = Len(loc[p].got)
  BY <1>1, HeadBehind, ProducerKnown, AllocatedFacts DEF Building
<1>5. /\ tailIndex'[p] = tailIndex[p] + loc[p].n
      /\ \A q \in Producers \ {p} : tailIndex'[q] = tailIndex[q]
  BY <1>1 DEF ClaimInv, Typed
<1>6. PICK t \in Nat, n \in Nat, a \in Nat, f \in Nat :
          /\ t = tailIndex[p] /\ n = loc[p].n /\ a = Allocated(p) /\ f = FirstNew(p)
  BY <1>4
<1>7. /\ n >= 1 /\ Start(a) >= t + n
      /\ Len(loc[p].got) >= 1 => Start(a - 1) < t + n
  BY <1>1, <1>4, <1>6 DEF CallFits, Building
<1>8. Start(a) < t + n + BlockSize
  <2>1. BlockSize \in Nat /\ Start(a) \in Nat /\ Start(a - 1) \in Int /\ Start(f) \in Nat
    BY <1>6, BlockSizeFact, StartFacts
  <2>2. CASE Len(loc[p].got) >= 1
    <3>1. Start((a - 1) + 1) = Start(a - 1) + BlockSize /\ (a - 1) + 1 = a
      BY StartNext
    <3> QED
      BY <1>7, <2>1, <2>2, <3>1
  <2>3. CASE ~(Len(loc[p].got) >= 1)
    <3>1. a = f
      BY <1>4, <1>6, <2>3
    <3>2. Start(f) < t + BlockSize
      BY <1>4, <1>6, FirstNewFacts
    <3> QED
      BY <2>1, <3>1, <3>2
  <2> QED
    BY <2>2, <2>3
<1>9. FirstNew(p)' = a
  <2>1. PICK i \in Nat : i = t + n + BlockSize - 1
    BY BlockSizeFact
  <2>2. Start(a) <= i /\ i < Start(a) + BlockSize
    <3>1. PICK b \in Nat, st \in Nat : b = BlockSize /\ st = Start(a)
      BY <1>6, BlockSizeFact, StartNat
    <3>2. st >= t + n /\ st < t + n + b /\ i = t + n + b - 1
      BY ONLY <1>7, <1>8, <2>1, <3>1
    <3>3. st <= i /\ i < st + b
      BY ONLY <3>2, st \in Nat, b \in Nat, t \in Nat, n \in Nat, i \in Nat
    <3> QED
      BY ONLY <3>1, <3>3
  <2>3. Num(i) = a
    BY <2>2, NumUnique
  <2>4. FirstNew(p)' = Num(i)
    BY <1>5, <1>6, <2>1 DEF FirstNew, Num
  <2> QED
    BY <2>3, <2>4
<1>10. Reserved(p)' = 0
  BY <1>2 DEF Reserved, Building
<1>11. Allocated(p)' = Allocated(p)
  BY <1>6, <1>9, <1>10 DEF Allocated
<1>12. Last(p)' = Last(p) /\ Written(p)' = Written(p)
  BY <1>1, <1>2, <1>4, <1>5, <1>11 DEF Last, Written, Halfway
<1>13. CallFits(p)' /\ BlocksFit(p)'
  <2>1. NoCall.got = <<>> /\ <<>> \in Seq(Blocks)
    BY DEF NoCall
  <2> QED
    BY <1>2, <2>1 DEF CallFits, BlocksFit, Building, Halfway
<1>14. \A q \in Producers \ {p} : StillCounted(q)
  BY <1>2, <1>5 DEF StillCounted
<1>15. HomesApart' /\ ListInv(InUse)'
  BY <1>1, <1>2, <1>3, HomesStay
<1>16. FirstNew(p)' \in Int /\ FirstNew(p)' >= FirstNew(p)
  BY <1>4, <1>6, <1>9
<1> QED
  BY <1>1, <1>2, <1>3, <1>11, <1>12, <1>13, <1>14, <1>15, <1>16, QuietProducer

LEMMA UndoBlockPlaces ==
    ASSUME ClaimInv, PlacesInv, NEW p \in Producers, UndoBlock(p)
    PROVE  PlacesInv'
<1>1. PICK got, x : got = loc[p].got /\ x = Head(got)
  OBVIOUS
<1>2. /\ pc[p] = "free" /\ pc' = pc /\ got # <<>> /\ CallAdd(p, x)
      /\ loc' = [loc EXCEPT ![p].got = Tail(got)]
      /\ UNCHANGED <<indices, entries, blocks, tailBlock>>
  BY <1>1 DEF UndoBlock, Set
<1>3. DOMAIN loc[p] = Fields /\ p \in Threads /\ got \in Seq(Blocks)
  BY <1>1, HeadBehind, ProducerKnown
<1>4. /\ loc'[p].got = Tail(got)
      /\ \A c \in Consumers : pc'[c] = pc[c] /\ loc'[c] = loc[c]
      /\ \A q \in Producers \ {p} : pc'[q] = pc[q] /\ loc'[q] = loc[q]
  <2>1. PICK call : call = [loc[p] EXCEPT !.got = Tail(got)]
    OBVIOUS
  <2>2. call.got = Tail(got)
    BY <1>3, <2>1 DEF Fields
  <2>3. loc' = [loc EXCEPT ![p] = call]
    BY <1>2, <2>1
  <2> QED
    BY <1>2, <2>2, <2>3, ProducerCalled, Assumed
<1>5. /\ tailIndex' = tailIndex /\ headIndex' = headIndex
      /\ value' = value /\ unused' = unused
  BY <1>2 DEF indices, entries, blocks
<1>6. FirstNew(p) \in Nat /\ FirstNew(p)' = FirstNew(p) /\ Reserved(p)' = 0 /\ Reserved(p) = 0
  BY <1>2, <1>5, ProducerKnown DEF FirstNew, Reserved, Building
<1>7. Allocated(p)' = Allocated(p)
  BY <1>6 DEF Allocated
<1>8. Last(p)' = Last(p) /\ Written(p)' = Written(p)
  BY <1>2, <1>5, <1>7 DEF Last, Written, Halfway
<1>9. /\ Tail(got) \in Seq(Blocks) /\ DOMAIN got = 1 .. Len(got) /\ Len(got) >= 1
      /\ DOMAIN Tail(got) = 1 .. Len(got) - 1 /\ Len(got) \in Nat
      /\ \A j \in 1 .. Len(got) - 1 : Tail(got)[j] = got[j + 1]
      /\ x = got[1] /\ x \in Blocks
  BY <1>1, <1>2, <1>3
<1>10. CallFits(p)' /\ BlocksFit(p)'
  BY <1>2, <1>4, <1>9 DEF CallFits, BlocksFit, Building, Halfway
<1>11. \A q \in Producers \ {p} : StillCounted(q)
  BY <1>4, <1>5 DEF StillCounted
<1>12. \A i, j \in DOMAIN got : got[i] = got[j] => i = j
  BY <1>1, <1>2 DEF PlacesInv, HomesApart
<1>13. Undone(p) = {got[j] : j \in 1 .. Len(got)}
  BY <1>1, <1>2, <1>9 DEF Undone
<1>14. Undone(p)' = {Tail(got)[j] : j \in 1 .. Len(got) - 1}
  BY <1>2, <1>4, <1>9 DEF Undone
<1>15. Undone(p)' = Undone(p) \ {x} /\ x \in Undone(p)
  <2>1. \A j \in 2 .. Len(got) : got[j] = Tail(got)[j - 1] /\ j - 1 \in 1 .. Len(got) - 1
                                 /\ got[j] # x
    BY <1>9, <1>12
  <2>2. \A j \in 1 .. Len(got) - 1 : j + 1 \in 2 .. Len(got)
    BY <1>9
  <2>3. 1 \in 1 .. Len(got)
    BY <1>9
  <2>4. \A j \in 1 .. Len(got) : j = 1 \/ j \in 2 .. Len(got)
    BY <1>9
  <2>5. \A b : b \in Undone(p)' => b \in Undone(p) /\ b # x
    BY <1>9, <1>13, <1>14, <2>1, <2>2
  <2>6. \A b : b \in Undone(p) /\ b # x => b \in Undone(p)'
    BY <1>9, <1>13, <1>14, <2>1, <2>4
  <2> QED
    BY <1>9, <1>13, <2>3, <2>5, <2>6
<1>16. \A q \in Producers \ {p} : Undone(q)' = Undone(q)
  BY <1>4 DEF Undone
<1>17. Indexed' = Indexed
  BY <1>5 DEF Indexed
<1>18. HomesApart'
  <2>1. \A i, j \in DOMAIN Tail(got) : Tail(got)[i] = Tail(got)[j] => i = j
    <3> SUFFICES ASSUME NEW i \in 1 .. Len(got) - 1, NEW j \in 1 .. Len(got) - 1,
                        Tail(got)[i] = Tail(got)[j]
                 PROVE  i = j
      BY <1>9
    <3>1. i + 1 \in 1 .. Len(got) /\ j + 1 \in 1 .. Len(got) /\ got[i + 1] = got[j + 1]
      BY <1>9
    <3>2. i + 1 = j + 1
      BY <1>9, <1>12, <3>1
    <3> QED
      BY <1>9, <3>2
  <2>2. \A q \in Producers : Undone(q)' \subseteq Undone(q)
    BY <1>15, <1>16
  <2>3. \A q \in Producers \ {p} : loc'[q].got = loc[q].got
    BY <1>4
  <2> QED
    BY <1>2, <1>4, <1>5, <1>17, <2>1, <2>2, <2>3 DEF PlacesInv, HomesApart
<1>19. InUse' = InUse \ {x} /\ x \in InUse
  <2>1. x \notin unused /\ x \notin Indexed
    BY <1>15 DEF PlacesInv, HomesApart
  <2>2. \A q \in Producers \ {p} : x \notin Undone(q)
    BY <1>15 DEF PlacesInv, HomesApart
  <2> QED
    BY <1>5, <1>15, <1>16, <1>17, <2>1, <2>2 DEF InUse
<1>20. ListInv(InUse)'
  <2>1. PICK held, less : held = InUse /\ less = InUse \ {x}
    OBVIOUS
  <2>2. ListInv(held) /\ x \in held /\ less = held \ {x}
    BY <1>19, <2>1 DEF PlacesInv
  <2>3. ListInv(less)'
    BY <1>2, <1>3, <2>2, CallAddStep
  <2> QED
    BY <1>19, <2>1, <2>3, InUseBecomes
<1> QED
  BY <1>2, <1>4, <1>5, <1>6, <1>7, <1>8, <1>10, <1>11, <1>18, <1>20, QuietProducer

LEMMA DivStart ==
    ASSUME NEW d \in Int
    PROVE  Start(d) \div BlockSize = d
<1>1. BlockSize \in Nat \ {0} /\ Start(d) \in Int
  BY BlockSizeFact, StartFacts
<1>2. PICK q, r : q = Start(d) \div BlockSize /\ r = Start(d) % BlockSize
  OBVIOUS
<1>3. q \in Int /\ r \in 0 .. BlockSize - 1 /\ Start(d) = BlockSize * q + r
  BY <1>1, <1>2
<1>4. Start(d) = Start(q) + r /\ Start(q) \in Int
  BY <1>3, StartFacts DEF Start
<1>5. q < d => Start(q) + BlockSize <= Start(d)
  BY <1>3, StartFacts
<1>6. d < q => Start(d) + BlockSize <= Start(q)
  BY <1>3, StartFacts
<1>7. q = d
  BY <1>1, <1>3, <1>4, <1>5, <1>6
<1> QED
  BY <1>2, <1>7

\* The block an element is placed in is the one the index has for it.
LEMMA PlacedWhere ==
    ASSUME ClaimInv, PlacesInv, NEW p \in Producers, pc[p] = "reserve", ~NeedsBlock(p),
           NEW i \in tailIndex[p] .. tailIndex[p] + loc[p].n - 1
    PROVE  \E e \in Entries : Finds(p, e, Num(i)) /\ value[p][e] = BlockOf(p, i)
<1>1. /\ tailIndex[p] \in Nat /\ loc[p].n \in Nat /\ FirstNew(p) \in Nat /\ CallFits(p)
      /\ Allocated(p) \in Nat /\ Allocated(p) = FirstNew(p) + Reserved(p)
      /\ Reserved(p) = Len(loc[p].got) /\ Reserved(p) \in Nat
      /\ ~(Start(Allocated(p)) < tailIndex[p] + loc[p].n)
      /\ BlocksFit(p) /\ TailFits(p)
  BY HeadBehind, ProducerKnown, AllocatedFacts DEF Building
<1>2. i \in Nat /\ tailIndex[p] <= i /\ i < tailIndex[p] + loc[p].n
  BY <1>1
<1>3. PICK m \in Nat, f \in Nat : m = Num(i) /\ f = FirstNew(p)
  BY <1>1, <1>2, NumFacts
<1>4. Start(m) <= i /\ i < Start(m) + BlockSize /\ Start(m) \in Nat /\ Base(i) = Start(m)
  BY <1>2, <1>3, NumFacts
<1>5. (Base(i) - Base(tailIndex[p] + BlockSize - 1)) \div BlockSize = m - f
  <2>1. Base(tailIndex[p] + BlockSize - 1) = Start(f)
    BY <1>1, <1>3, FirstNewFacts
  <2>2. Start(m) - Start(f) = Start(m - f) /\ m - f \in Int
    BY StartSum
  <2> QED
    BY <1>4, <2>1, <2>2, DivStart
<1>6. BlockOf(p, i) = IF m - f < 0 THEN tailBlock[p] ELSE loc[p].got[m - f + 1]
  BY <1>5 DEF BlockOf
<1>7. CASE m < f
  <2>1. Start(m) < tailIndex[p]
    BY <1>1, <1>3, <1>7, FirstNewFacts
  <2>2. Written(p) = tailIndex[p]
    BY <1>1 DEF Written
  <2>3. tailIndex[p] < Start(m) + BlockSize
    BY <1>1, <1>2, <1>4, BlockSizeFact
  <2>4. \E e \in Entries : Finds(p, e, m) /\ value[p][e] = tailBlock[p]
    BY <1>1, <2>1, <2>2, <2>3 DEF TailFits
  <2> QED
    BY <1>3, <1>6, <1>7, <2>4
<1>8. CASE ~(m < f)
  <2>1. m < Allocated(p)
    <3>1. Start(Allocated(p)) \in Nat
      BY <1>1, StartNat
    <3>2. i < Start(Allocated(p))
      BY <1>1, <1>2, <3>1
    <3> QED
      BY <1>1, <1>2, <1>3, <3>2, NumOrder
  <2>2. PICK j \in 1 .. Len(loc[p].got) : j = m - f + 1
    BY <1>1, <1>3, <1>8, <2>1
  <2>3. PICK e \in Entries : Finds(p, e, f + j - 1) /\ value[p][e] = loc[p].got[j]
    BY <1>1, <1>3 DEF BlocksFit, Building
  <2>4. f + j - 1 = m
    BY <2>2
  <2> QED
    BY <1>3, <1>6, <1>8, <2>2, <2>3, <2>4
<1> QED
  BY <1>7, <1>8

LEMMA PlacePlaces ==
    ASSUME ClaimInv, PlacesInv, NEW p \in Producers, Place(p)
    PROVE  PlacesInv'
<1>1. PICK new, t, n : /\ new = t .. t + n - 1 /\ t = tailIndex[p] /\ n = loc[p].n
  OBVIOUS
<1> DEFINE at(b, s) == {i \in new : BlockOf(p, i) = b /\ i % BlockSize = s}
<1>2. /\ pc[p] = "reserve" /\ pc' = [pc EXCEPT ![p] = "publish"] /\ loc' = loc
      /\ ~NeedsBlock(p)
      /\ data' = [b \in Blocks |-> [s \in 0 .. BlockSize - 1 |->
                      IF at(b, s) = {} THEN data[b][s]
                      ELSE <<p, CHOOSE i \in at(b, s) : TRUE>>]]
      /\ tailBlock' = [tailBlock EXCEPT ![p] = BlockOf(p, t + n - 1)]
      /\ UNCHANGED <<freeList, indices, entries, elementsCompletelyDequeued, unused>>
  BY <1>1 DEF Place, Go
<1>26. ASSUME NEW b \in Blocks, NEW s \in 0 .. BlockSize - 1
       PROVE  IF at(b, s) = {} THEN data'[b][s] = data[b][s]
              ELSE \E j \in at(b, s) : data'[b][s] = <<p, j>>
  <2>1. data'[b][s] = IF at(b, s) = {} THEN data[b][s]
                      ELSE <<p, CHOOSE i \in at(b, s) : TRUE>>
    BY <1>2
  <2> HIDE DEF at
  <2>2. at(b, s) # {} => (CHOOSE i \in at(b, s) : TRUE) \in at(b, s)
    OBVIOUS
  <2> QED
    BY <2>1, <2>2
<1>27. \A b, s, j : j \in at(b, s) <=> j \in new /\ BlockOf(p, j) = b /\ j % BlockSize = s
  OBVIOUS
<1> HIDE DEF at
<1>3. /\ pc'[p] = "publish" /\ \A c \in Consumers : pc'[c] = pc[c] /\ loc'[c] = loc[c]
      /\ \A q \in Producers \ {p} : pc'[q] = pc[q] /\ loc'[q] = loc[q]
  BY <1>2, ProducerMoved, Assumed
<1>4. /\ tailIndex' = tailIndex /\ headIndex' = headIndex /\ freeList' = freeList
      /\ value' = value /\ unused' = unused /\ key' = key /\ blockIndex' = blockIndex
      /\ elementsCompletelyDequeued' = elementsCompletelyDequeued
  BY <1>2 DEF indices, entries
<1>5. /\ t \in Nat /\ n \in Nat /\ CallFits(p) /\ BlocksFit(p) /\ IndexFits(p) /\ Kept(p)
      /\ FirstNew(p) \in Nat /\ Allocated(p) \in Nat /\ Last(p) \in Int
      /\ ~(Start(Allocated(p)) < t + n) /\ n >= 1
  <2>1. pc[p] \in Building
    BY <1>2 DEF Building
  <2> QED
    BY <1>1, <1>2, <2>1, HeadBehind, ProducerKnown, AllocatedFacts DEF CallFits
<1>6. \A q \in Producers : StillIndexed(q)
  BY <1>4 DEF StillIndexed
<1>7. FirstNew(p)' = FirstNew(p) /\ Reserved(p)' = Reserved(p)
  BY <1>2, <1>3, <1>4 DEF FirstNew, Reserved, Building
<1>8. Allocated(p)' = Allocated(p)
  BY <1>7 DEF Allocated
<1>9. Last(p)' = Last(p) /\ Written(p)' = t + n /\ Written(p) = t
  BY <1>1, <1>2, <1>3, <1>4, <1>5, <1>8 DEF Last, Written, Halfway
<1>10. \A e, m : (Holds(p, e, m)' <=> Holds(p, e, m)) /\ (Finds(p, e, m)' <=> Finds(p, e, m))
  BY <1>4, <1>6, StillEntries DEF Finds
<1>11. IndexFits(p)'
  <2>1. Newer(p)' = Newer(p)
    BY <1>6, StillEntries
  <2>2. EntriesFit(p)'
    BY <1>4, <1>5, <1>8, <1>10, <2>1 DEF IndexFits, EntriesFit
  <2> QED
    BY <1>5, <1>6, <1>7, <1>8, <1>9, <2>2, StillRing
<1>12. CallFits(p)'
  <2>1. Start(Allocated(p)) \in Nat
    BY <1>5, StartNat
  <2>2. Start(Allocated(p)) >= t + n
    BY <1>5, <2>1
  <2> QED
    BY <1>1, <1>2, <1>3, <1>4, <1>5, <1>8, <2>2 DEF CallFits, Building, Halfway
<1>13. BlocksFit(p)'
  BY <1>2, <1>3, <1>4, <1>5, <1>7, <1>10 DEF BlocksFit, Building, Halfway
<1>14. \A i \in new : i \in Nat /\ i >= t /\ i < t + n /\
                      \E e \in Entries : Finds(p, e, Num(i)) /\ value[p][e] = BlockOf(p, i)
  BY <1>1, <1>2, <1>5, PlacedWhere
<1>15. TailFits(p)'
  <2> SUFFICES ASSUME NEW m \in Nat, Start(m) < t + n, t + n < Start(m) + BlockSize
               PROVE  \E e \in Entries : Finds(p, e, m)' /\ value'[p][e] = tailBlock'[p]
    BY <1>9 DEF TailFits
  <2>1. PICK i \in Nat : i = t + n - 1
    BY <1>5
  <2>2. i \in new
    BY <1>1, <1>5, <2>1
  <2>3. Num(i) = m
    <3>1. Start(m) \in Nat /\ BlockSize \in Nat
      BY StartNat, BlockSizeFact
    <3>2. Start(m) <= i /\ i < Start(m) + BlockSize
      BY <1>5, <2>1, <3>1
    <3> QED
      BY <3>2, NumUnique
  <2>4. PICK e \in Entries : Finds(p, e, m) /\ value[p][e] = BlockOf(p, i)
    BY <1>14, <2>2, <2>3
  <2>5. tailBlock'[p] = BlockOf(p, i)
    BY <1>2, <2>1 DEF PlacesInv, PlacesTyped
  <2> QED
    BY <1>4, <1>10, <2>4, <2>5
<1>16. ProducerFits(p)'
  BY <1>11, <1>12, <1>13, <1>15 DEF ProducerFits
<1>17. \A q \in Producers, e \in Entries : value[q][e] # Null => value[q][e] \in Blocks
  BY DEF PlacesInv, PlacesTyped
<1>18. \A q, r \in Producers, e, f \in Entries :
          value[q][e] = value[r][f] /\ value[q][e] # Null => q = r /\ e = f
  BY DEF PlacesInv, HomesApart
<1>19. ASSUME NEW m \in Nat, NEW e \in Entries, Finds(p, e, m), NEW i \in Cells(m),
              NEW j \in at(value[p][e], i % BlockSize)
       PROVE  j = i
  <2>1. j \in new /\ BlockOf(p, j) = value[p][e] /\ j % BlockSize = i % BlockSize
    BY <1>27
  <2>2. PICK f \in Entries : Finds(p, f, Num(j)) /\ value[p][f] = BlockOf(p, j)
    BY <1>14, <2>1
  <2>3. f = e
    BY <1>18, <1>19, <2>1, <2>2 DEF Finds
  <2>4. j \in Nat /\ i \in Nat /\ Num(j) \in Nat /\ Num(i) = m
    BY <1>14, <2>1, CellsFacts, NumFacts, NumOrder
  <2>5. Num(j) = m
    BY <1>19, <2>2, <2>3, <2>4, NumberOnce DEF Finds
  <2> QED
    BY <2>1, <2>4, <2>5, NumSame
<1>20. Kept(p)'
  <2> SUFFICES ASSUME NEW m \in Nat, m < Allocated(p), Unread(p, m)' # {}
               PROVE  \E e \in Entries : Stores(p, e, m)'
    BY <1>8 DEF Kept
  <2>1. Unread(p, m)' = Unread(p, m)
    BY <1>3, <1>4, RemainingStays, UnreadStays
  <2>2. PICK e \in Entries : Stores(p, e, m)
    BY <1>5, <2>1 DEF Kept
  <2>3. PICK b \in Blocks : b = value[p][e]
    BY <1>17, <2>2 DEF Stores, Finds
  <2>4. ASSUME NEW i \in Unread(p, m), i < t + n PROVE data'[b][i % BlockSize] = <<p, i>>
    <3>1. i \in Cells(m) /\ i \in Nat /\ i % BlockSize \in 0 .. BlockSize - 1 /\ Num(i) = m
      BY CellsFacts, BlockSizeFact, NumOrder DEF Unread
    <3>2. PICK s \in 0 .. BlockSize - 1 : s = i % BlockSize
      BY <3>1
    <3>3. \A j \in at(b, s) : j = i
      BY <1>19, <2>2, <2>3, <3>1, <3>2 DEF Stores
    <3>4. IF at(b, s) = {} THEN data'[b][s] = data[b][s]
          ELSE \E j \in at(b, s) : data'[b][s] = <<p, j>>
      BY <1>26
    <3>5. CASE i < t
      <4>1. at(b, s) = {}
        <5>1. \A j \in at(b, s) : j \in new /\ j >= t /\ j = i
          BY <1>14, <1>27, <3>3
        <5>2. \A j \in at(b, s) : FALSE
          BY <1>5, <3>1, <3>5, <5>1
        <5> QED
          BY <5>2
      <4>2. data[b][s] = <<p, i>>
        BY <1>9, <2>2, <2>3, <3>2, <3>5 DEF Stores
      <4> QED
        BY <3>2, <3>4, <4>1, <4>2
    <3>6. CASE ~(i < t)
      <4>1. i \in new
        <5>1. t \in Nat /\ n \in Nat /\ i \in Nat /\ i < t + n
          BY <1>5, <2>4, <3>1
        <5>2. i \in t .. t + n - 1
          BY ONLY <3>6, <5>1
        <5> QED
          BY <1>1, <5>2
      <4>2. PICK f \in Entries : Finds(p, f, m) /\ value[p][f] = BlockOf(p, i)
        BY <1>14, <3>1, <4>1
      <4>3. f = e
        BY <1>5, <2>2, <4>2, EntryOnce DEF Stores, Finds
      <4>4. i \in at(b, s)
        BY <1>27, <2>3, <3>2, <4>1, <4>2, <4>3
      <4> QED
        BY <3>2, <3>3, <3>4, <4>4
    <3> QED
      BY <3>5, <3>6
  <2>5. Stores(p, e, m)'
    BY <1>4, <1>9, <1>10, <2>1, <2>2, <2>3, <2>4 DEF Stores
  <2> QED
    BY <2>5
<1>21. ASSUME NEW q \in Producers \ {p}, NEW f \in Entries, value[q][f] # Null
       PROVE  \A s \in 0 .. BlockSize - 1 : data'[value[q][f]][s] = data[value[q][f]][s]
  <2>1. PICK b \in Blocks : b = value[q][f]
    BY <1>17, <1>21
  <2>2. ASSUME NEW s \in 0 .. BlockSize - 1 PROVE at(b, s) = {}
    <3>1. ASSUME NEW j \in at(b, s) PROVE FALSE
      <4>1. PICK e \in Entries : value[p][e] = BlockOf(p, j)
        BY <1>14, <1>27
      <4>2. BlockOf(p, j) = b /\ j \in new
        BY <1>27
      <4> QED
        BY <1>18, <1>21, <2>1, <4>1, <4>2
    <3> QED
      BY <3>1
  <2> QED
    BY <1>26, <2>1, <2>2
<1>22. IndexMoves(p) /\ \A m : FindsSame(p, m)
  BY <1>4, <1>5, <1>6, StillMoves
<1>23. PlacesTyped'
  <2>1. DOMAIN tailBlock' = Producers
    BY <1>2 DEF PlacesInv, PlacesTyped
  <2> QED
    BY <1>4, <2>1 DEF PlacesInv, PlacesTyped
<1>24. \A q \in Producers \ {p} : Still(q)
  <2>1. \A q \in Producers \ {p} : tailBlock'[q] = tailBlock[q]
    BY <1>2 DEF PlacesInv, PlacesTyped
  <2> QED
    BY <1>3, <1>4, <1>6, <2>1 DEF Still, StillCounted
<1>25. HomesApart' /\ ListInv(InUse)'
  BY <1>2, <1>3, <1>4, HomesStay
<1> QED
  BY <1>3, <1>4, <1>16, <1>20, <1>21, <1>22, <1>23, <1>24, <1>25, ProducerFrame

\* The ring from lo to hi once the entry at place to has the number a.
RingWith(p, k, to, a, lo, hi) ==
    /\ lo <= FirstNew(p) /\ a <= hi /\ hi - lo < Size(k)
    /\ \A s \in Places(k) \ {to}, m \in Nat : Holds(p, Slot(p, k, s), m) => m \in lo .. hi
    /\ \A m \in lo .. hi : m = a \/ \E s \in Places(k) \ {to} : Holds(p, Slot(p, k, s), m)

\* The entry after the tail is free, whole rounds from the number it is to get, and the ring
\* goes on with it.
LEMMA InsertFacts ==
    ASSUME ClaimInv, PlacesInv, NEW p \in Producers, pc[p] = "reserve", HasRoom(p),
           NEW k, k = Newer(p), NEW a, a = Allocated(p),
           NEW to, to = Later(Current(p), Current(p).tail, 1)
    PROVE  /\ to \in Places(k) /\ Slot(p, k, to) \in Entries /\ Slot(p, k, to) <= Size(k)
           /\ Slot(p, k, to) = Current(p).slots[to] /\ value[p][Slot(p, k, to)] = Null
           /\ \A m \in Nat : Holds(p, Slot(p, k, to), m) => Whole(a - m, Size(k))
           /\ \A s \in Places(k), m \in Nat :
                 Holds(p, Slot(p, k, s), m) => Whole((m - s) - (a - to), Size(k))
           /\ \E lo, hi \in Nat : RingWith(p, k, to, a, lo, hi)
<1>1. /\ IndexFits(p) /\ HeadersFit(p) /\ k \in 1 .. Newer(p) /\ k \in Nat \ {0}
      /\ a \in Nat /\ FirstNew(p) \in Nat /\ FirstNew(p) <= a /\ BlocksFit(p) /\ Last(p) \in Int
      /\ Reserved(p) = Len(loc[p].got) /\ a = FirstNew(p) + Reserved(p) /\ Reserved(p) \in Nat
  BY ProducerKnown DEF Reserved, Building, Allocated
<1>2. Last(p) = a - 1
  BY DEF Last, Halfway
<1>3. PICK N \in Nat : N = Size(k) /\ N >= 1
  BY <1>1, SizeFacts
<1>4. PICK t \in Nat : t = Current(p).tail /\ t \in Places(k)
  BY <1>1, HeaderFacts DEF Current, Newer
<1>5. to \in Places(k) /\ Whole(to - (t + 1), N) /\ to \in Nat
  <2>1. DOMAIN Current(p).slots = Places(k) /\ Places(k) \subseteq Nat
    BY <1>1, HeaderFacts DEF Current, Newer
  <2>2. PICK h : h = Current(p)
    OBVIOUS
  <2>3. to = Later(h, t, 1) /\ DOMAIN h.slots = Places(k) /\ t \in Int /\ k \in Nat \ {0}
    BY <1>1, <1>4, <2>1, <2>2
  <2>4. to \in Places(k) /\ Whole(to - (t + 1), Size(k))
    BY ONLY <2>3, LaterFacts
  <2> QED
    BY <1>3, <2>1, <2>4
<1>23. a \in Nat /\ t \in Nat /\ to \in Nat /\ N \in Nat /\ N >= 1
  BY <1>1, <1>3, <1>4, <1>5
<1>24. \A s \in Places(k) : s \in Nat
  BY <1>1, HeaderFacts
<1>25. \A d, e, f \in Int : Whole(d, N) /\ Whole(e, N) /\ (f = d + e \/ f = d - e) => Whole(f, N)
  BY <1>3, WholeSum
<1>6. PICK x : x = Slot(p, k, to)
  OBVIOUS
<1>7. x \in Entries /\ x <= N /\ x = Current(p).slots[to]
  <2>1. Slot(p, k, to) \in 1 .. Size(k) /\ Slot(p, k, to) \in Entries
    BY <1>1, <1>5, HeaderFacts
  <2> QED
    BY <1>3, <1>6, <2>1 DEF Slot, Current, Newer
<1>8. key[p][x] = InvalidBase \/ value[p][x] = Null
  BY <1>7 DEF HasRoom
<1>9. value[p][x] = Null
  <2>1. ASSUME value[p][x] # Null PROVE FALSE
    <3>1. PICK m \in Nat : Holds(p, x, m)
      BY <1>1, <1>7, <2>1 DEF IndexFits, EntriesFit
    <3>2. key[p][x] # InvalidBase
      BY <3>1, StartFacts DEF Holds
    <3> QED
      BY <1>8, <2>1, <3>2
  <2> QED
    BY <2>1
<1>10. \A s \in Places(k), m \in Nat : Holds(p, Slot(p, k, s), m)
           => Whole((m - s) - (a - to), N) /\ s \in Nat
  <2> SUFFICES ASSUME NEW s \in Places(k), NEW m \in Nat, Holds(p, Slot(p, k, s), m)
               PROVE  Whole((m - s) - (a - to), N) /\ s \in Nat
    OBVIOUS
  <2>1. s \in Nat
    BY <1>24
  <2>2. Whole((m - s) - ((a - 1) - t), N)
    BY <1>1, <1>2, <1>3, <1>4 DEF IndexFits, AtTail
  <2>3. (m - s) - (a - to) = ((m - s) - ((a - 1) - t)) + (to - (t + 1))
    BY <1>23, <2>1
  <2>4. (m - s) - (a - to) \in Int /\ (m - s) - ((a - 1) - t) \in Int /\ to - (t + 1) \in Int
    BY <1>23, <2>1
  <2> QED
    BY <1>5, <1>25, <2>1, <2>2, <2>3, <2>4
\* A number whole rounds from a is at the place.
<1>11. \A s \in Places(k), m \in Nat : Holds(p, Slot(p, k, s), m) /\ Whole(m - a, N) => s = to
  <2> SUFFICES ASSUME NEW s \in Places(k), NEW m \in Nat, Holds(p, Slot(p, k, s), m), Whole(m - a, N)
               PROVE  s = to
    OBVIOUS
  <2>1. Whole((m - s) - (a - to), N) /\ s \in Nat
    BY <1>10
  <2>2. /\ s - to = (m - a) - ((m - s) - (a - to)) /\ s - to \in Int
        /\ m - a \in Int /\ (m - s) - (a - to) \in Int
    BY <1>23, <2>1
  <2>3. Whole(s - to, N)
    BY <1>25, <2>1, <2>2
  <2> QED
    BY <1>1, <1>3, <1>5, <2>3, WholePlaces
<1>12. \A m \in Nat : Holds(p, x, m) => Whole(m - a, N) /\ Whole(a - m, N)
  <2> SUFFICES ASSUME NEW m \in Nat, Holds(p, x, m) PROVE Whole(m - a, N) /\ Whole(a - m, N)
    OBVIOUS
  <2>1. Whole((m - to) - (a - to), N)
    BY <1>5, <1>6, <1>10
  <2>2. m - a = (m - to) - (a - to) /\ a - m = 0 - (m - a) /\ m - a \in Int /\ a - m \in Int
    BY <1>23
  <2>3. Whole(m - a, N)
    BY <2>1, <2>2
  <2>4. Whole(0, N)
    BY <1>3, WholeFacts
  <2> QED
    BY <1>25, <2>2, <2>3, <2>4
<1>13. PICK lo, hi : Ring(p, lo, hi)
  BY <1>1 DEF IndexFits, HasRing
<1>26. PICK f \in Nat : f = FirstNew(p)
  BY <1>1
<1>14. /\ \A s \in Places(k), m \in Nat : Holds(p, Slot(p, k, s), m) => m \in lo .. hi
       /\ \A m \in lo .. hi : \E s \in Places(k) : Holds(p, Slot(p, k, s), m)
  BY <1>13 DEF Ring
<1>15. /\ lo \in Nat /\ hi \in Int /\ lo <= f /\ a - 1 <= hi /\ hi - lo < N /\ lo <= a
       /\ f <= a
  <2>1. lo \in Nat /\ hi \in Int /\ lo <= f /\ a - 1 <= hi /\ hi - lo < N
    BY <1>3, <1>13, <1>26 DEF Ring
  <2> QED
    BY <1>1, <1>23, <1>26, <2>1
<1>27. \A m \in lo .. hi : m \in Nat
  BY <1>15
<1>16. \A m, n \in Nat : Holds(p, x, m) /\ Holds(p, x, n) => m = n
  BY NumberOnce
<1> DEFINE Goal == \E l \in Nat, h \in Nat :
                     /\ l <= f /\ a <= h /\ h - l < N
                     /\ \A s \in Places(k) \ {to}, m \in Nat : Holds(p, Slot(p, k, s), m)
                            => m \in l .. h
                     /\ \A m \in l .. h : m = a \/ \E s \in Places(k) \ {to} : Holds(p, Slot(p, k, s), m)
<1>17. ASSUME hi >= a PROVE Goal
  <2>1. hi \in Nat /\ a \in lo .. hi
    BY <1>15, <1>17, <1>23
  <2>2. Holds(p, x, a)
    <3>1. PICK s \in Places(k) : Holds(p, Slot(p, k, s), a)
      BY <1>14, <2>1
    <3>2. Whole(a - a, N)
      BY <1>23, WholeFacts
    <3> QED
      BY <1>23, <1>6, <1>11, <3>1, <3>2
  <2>3. ASSUME NEW m \in lo .. hi, m # a
        PROVE  \E s \in Places(k) \ {to} : Holds(p, Slot(p, k, s), m)
    <3>1. PICK s \in Places(k) : Holds(p, Slot(p, k, s), m)
      BY <1>14
    <3>2. m \in Nat
      BY <1>27
    <3>3. s # to
      BY <1>23, <1>6, <1>16, <2>2, <2>3, <3>1, <3>2
    <3> QED
      BY <3>1, <3>3
  <2> QED
    BY <1>14, <1>15, <1>17, <2>1, <2>3
<1>18. ASSUME ~(hi >= a) PROVE Goal
  <2>1. hi = a - 1
    BY <1>15, <1>18, <1>23
  <2>2. CASE \A m \in Nat : ~Holds(p, x, m)
    <3>1. a - lo < N
      <4>1. ASSUME ~(a - lo < N) PROVE FALSE
        <5>1. lo = a - N /\ lo \in lo .. hi
          BY <1>15, <1>23, <2>1, <4>1
        <5>2. PICK s \in Places(k) : Holds(p, Slot(p, k, s), lo)
          BY <1>14, <5>1
        <5>3. Whole(lo - a, N)
          <6>1. Whole(0, N) /\ Whole(N, N)
            BY <1>3, WholeFacts
          <6>2. lo - a = 0 - N /\ lo - a \in Int
            BY <1>15, <1>23, <5>1
          <6> QED
            BY <1>23, <1>25, <6>1, <6>2
        <5> QED
          BY <1>6, <1>11, <1>15, <2>2, <5>2, <5>3
      <4> QED
        BY <4>1
    <3>2. \A m \in lo .. a : m = a \/ m \in lo .. hi
      BY <1>15, <1>23, <2>1
    <3>3. \A m \in lo .. hi : m \in lo .. a /\ m \in Nat
      BY <1>15, <1>23, <2>1
    <3>4. \A s \in Places(k) \ {to}, m \in Nat : Holds(p, Slot(p, k, s), m) => m \in lo .. a
      BY <1>14, <3>3
    <3>5. \A m \in lo .. a : m = a \/ \E s \in Places(k) \ {to} : Holds(p, Slot(p, k, s), m)
      BY <1>6, <1>14, <2>2, <3>2, <3>3
    <3>6. lo \in Nat /\ a \in Nat /\ lo <= f /\ a <= a
      BY <1>15, <1>23
    <3> QED
      BY ONLY <3>1, <3>4, <3>5, <3>6
  <2>3. CASE \E m \in Nat : Holds(p, x, m)
    <3>1. PICK m0 \in Nat : Holds(p, x, m0)
      BY <2>3
    <3>2. m0 \in lo .. hi
      BY <1>5, <1>6, <1>14, <3>1
    <3>3. Whole(m0 - a, N) /\ Whole(N, N)
      BY <1>3, <1>12, <3>1, WholeFacts
    <3>4. Whole((m0 - a) + N, N)
      <4>1. m0 - a \in Int /\ N \in Int /\ (m0 - a) + N \in Int
        BY <1>23
      <4> QED
        BY <1>25, <3>3, <4>1
    <3>5. m0 <= a - 1 /\ m0 >= lo /\ a - 1 - lo < N
      BY <1>15, <1>23, <2>1, <3>2
    <3>6. -N < (m0 - a) + N /\ (m0 - a) + N < N
      BY <1>15, <1>23, <3>5
    <3>7. (m0 - a) + N = 0
      <4>1. PICK d \in Int : d = (m0 - a) + N
        BY <1>23
      <4> QED
        BY <1>3, <3>4, <3>6, <4>1, WholeNear
    <3>8. m0 = a - N /\ lo = m0
      BY <1>15, <1>23, <3>5, <3>7
    <3>9. lo # FirstNew(p)
      <4>1. ASSUME lo = FirstNew(p) PROVE FALSE
        <5>1. Reserved(p) = N
          <6>1. PICK r \in Nat : r = Reserved(p)
            BY <1>1
          <6>2. a = f + r /\ f = a - N
            BY <1>1, <1>26, <3>8, <4>1, <6>1
          <6> QED
            BY ONLY <1>23, <6>1, <6>2, f \in Nat
        <5>2. 1 \in 1 .. Len(loc[p].got) /\ FirstNew(p) + 1 - 1 = lo
          BY <1>1, <1>15, <1>23, <4>1, <5>1
        <5>3. PICK e \in Entries : Finds(p, e, lo)
          BY <1>1, <5>2 DEF BlocksFit, Building
        <5>4. e = x
          BY <1>1, <1>7, <3>1, <3>8, <5>3, EntryOnce DEF Finds
        <5> QED
          BY <1>9, <5>3, <5>4 DEF Finds
      <4> QED
        BY <4>1
    <3>10. \A m \in lo + 1 .. a : m = a \/ (m \in lo .. hi /\ m # m0)
      BY <1>15, <1>23, <2>1, <3>8
    <3>11. \A m \in lo .. hi : m \in Nat /\ (m = m0 \/ m \in lo + 1 .. a)
      BY <1>15, <1>23, <2>1, <3>8
    <3>12. \A s \in Places(k) \ {to}, m \in Nat : Holds(p, Slot(p, k, s), m) => m # m0
      BY <1>11, <3>3
    <3>13. \A s \in Places(k) \ {to}, m \in Nat : Holds(p, Slot(p, k, s), m) => m \in lo + 1 .. a
      BY <1>14, <3>11, <3>12
    <3>14. \A m \in lo + 1 .. a : m = a \/ \E s \in Places(k) \ {to} : Holds(p, Slot(p, k, s), m)
      <4> SUFFICES ASSUME NEW m \in lo + 1 .. a, m # a
                   PROVE  \E s \in Places(k) \ {to} : Holds(p, Slot(p, k, s), m)
        OBVIOUS
      <4>1. m \in lo .. hi /\ m # m0 /\ m \in Nat
        BY <3>10, <3>11
      <4>2. PICK s \in Places(k) : Holds(p, Slot(p, k, s), m)
        BY <1>14, <4>1
      <4>3. s # to
        BY <1>6, <1>16, <3>1, <4>1, <4>2
      <4> QED
        BY <4>2, <4>3
    <3>15. lo + 1 \in Nat /\ lo + 1 <= f /\ a - (lo + 1) < N /\ a <= a /\ a \in Nat
      <4>1. lo # f
        BY <1>26, <3>9
      <4> QED
        BY <1>15, <1>23, <3>8, <4>1
    <3> QED
      BY ONLY <3>13, <3>14, <3>15
  <2> QED
    BY <2>2, <2>3
<1>19. Goal
  BY <1>17, <1>18
<1> HIDE DEF Goal
<1>20. Goal => \E l, h \in Nat : RingWith(p, k, to, a, l, h)
  BY <1>3, <1>26 DEF Goal, RingWith
<1>21. \A s \in Places(k), m \in Nat :
                 Holds(p, Slot(p, k, s), m) => Whole((m - s) - (a - to), Size(k))
  BY <1>3, <1>10
<1>22. \A m \in Nat : Holds(p, Slot(p, k, to), m) => Whole(a - m, Size(k))
  BY <1>3, <1>6, <1>12
<1> QED
  BY <1>3, <1>5, <1>6, <1>7, <1>9, <1>19, <1>20, <1>21, <1>22

\* Other producers do not notice a step on the index of one.
LEMMA OthersStill ==
    ASSUME NEW p, \A q \in Producers \ {p} : pc'[q] = pc[q] /\ loc'[q] = loc[q],
           tailIndex' = tailIndex, tailBlock' = tailBlock,
           \A q \in Producers \ {p} : /\ blockIndex'[q] = blockIndex[q]
                                      /\ key'[q] = key[q] /\ value'[q] = value[q]
    PROVE  \A q \in Producers \ {p} : Still(q)
BY DEF Still, StillCounted, StillIndexed

\* A step that moves only the tail of the current header.
TailGoes(p, k, to) == blockIndex' = [blockIndex EXCEPT ![p][k].tail = to]
LEMMA TailMoves ==
    ASSUME NEW p \in Producers, DOMAIN blockIndex = Producers, HeadersFit(p),
           NEW k, k = Newer(p), NEW to \in Places(k),
           TailGoes(p, k, to)
    PROVE  /\ DOMAIN blockIndex' = Producers
           /\ \A q \in Producers \ {p} : blockIndex'[q] = blockIndex[q]
           /\ HeadersFit(p)' /\ Newer(p)' = k /\ Current(p)'.tail = to
           /\ \A j \in 1 .. k : /\ blockIndex'[p][j].slots = blockIndex[p][j].slots
                                /\ \A s : Slot(p, j, s)' = Slot(p, j, s)
           /\ Newest(p)' = Current(p).slots[to]
<1>1. k \in 1 .. k /\ k \in Nat \ {0}
  BY DEF HeadersFit
<1>2. /\ DOMAIN blockIndex' = Producers
      /\ \A q \in Producers \ {p} : blockIndex'[q] = blockIndex[q]
      /\ blockIndex'[p] = [blockIndex[p] EXCEPT ![k].tail = to]
  BY DEF TailGoes
<1>3. PICK I, J : I = blockIndex[p] /\ J = blockIndex'[p]
  OBVIOUS
<1>4. /\ I \in Seq(HeaderSet) /\ Len(I) = k /\ k \in 1 .. MaxHeaders
      /\ \A j \in 1 .. k : HeaderFits(I[j], j) /\ I[j] \in HeaderSet
  BY <1>1, <1>3 DEF HeadersFit, Newer
<1>5. /\ J \in Seq(HeaderSet) /\ Len(J) = k /\ J[k].slots = I[k].slots /\ J[k].tail = to
      /\ \A j \in 1 .. k : j # k => J[j] = I[j]
  <2>1. PICK h : h = [I[k] EXCEPT !.tail = to]
    OBVIOUS
  <2>2. h \in HeaderSet /\ h.slots = I[k].slots /\ h.tail = to
    <3>1. I[k] \in HeaderSet
      BY <1>1, <1>4
    <3>2. to \in UNION {Places(j) : j \in 1 .. MaxHeaders}
      BY <1>4
    <3> QED
      BY <2>1, <3>1, <3>2 DEF HeaderSet
  <2>3. J = [I EXCEPT ![k] = h]
    BY <1>2, <1>3, <2>1
  <2>4. J \in Seq(HeaderSet) /\ Len(J) = k /\ J[k] = h /\ \A j \in 1 .. k : j # k => J[j] = I[j]
    BY <1>1, <1>4, <2>2, <2>3
  <2> QED
    BY <2>2, <2>4
<1>6. Newer(p)' = k /\ Current(p)' = J[k] /\ Current(p) = I[k]
  BY <1>3, <1>4, <1>5 DEF Newer, Current
<1>7. /\ \A j \in 1 .. k : /\ blockIndex'[p][j].slots = blockIndex[p][j].slots
                           /\ \A s : Slot(p, j, s)' = Slot(p, j, s)
      /\ Newest(p)' = Current(p).slots[to]
  <2>1. \A j \in 1 .. k : J[j].slots = I[j].slots
    BY <1>5
  <2>2. Newest(p)' = Current(p).slots[to]
    BY <1>5, <1>6 DEF Newest
  <2>3. \A j \in 1 .. k : \A s : Slot(p, j, s)' = Slot(p, j, s)
    BY <1>3, <2>1 DEF Slot
  <2> QED
    BY <1>3, <2>1, <2>2, <2>3
<1>8. HeadersFit(p)'
  <2>1. \A j \in 1 .. k : HeaderFits(J[j], j)
    <3>1. HeaderFits(J[k], k)
      BY <1>1, <1>4, <1>5 DEF HeaderFits
    <3> QED
      BY <1>4, <1>5, <3>1
  <2> QED
    BY <1>3, <1>4, <1>5, <1>6, <2>1 DEF HeadersFit
<1> QED
  BY <1>2, <1>5, <1>6, <1>7, <1>8

LEMMA InsertEntryPlaces ==
    ASSUME ClaimInv, PlacesInv, NEW p \in Producers, InsertEntry(p)
    PROVE  PlacesInv'
<1>1. PICK k, a, to, x : /\ k = Newer(p) /\ a = Allocated(p) /\ to = Later(Current(p), Current(p).tail, 1)
                         /\ x = Current(p).slots[to]
  OBVIOUS
<1>2. /\ pc[p] = "reserve" /\ pc' = [pc EXCEPT ![p] = "block"]
      /\ NeedsBlock(p) /\ HasRoom(p)
      /\ key' = [key EXCEPT ![p][x] = NextBase(p)]
      /\ blockIndex' = [blockIndex EXCEPT ![p][k].tail = to]
      /\ loc' = [loc EXCEPT ![p].entry = x]
      /\ UNCHANGED <<freeList, indices, value, blocks, tailBlock>>
  BY <1>1 DEF InsertEntry, Go, Set, Newer
<1>3. /\ to \in Places(k) /\ x \in Entries /\ x <= Size(k) /\ x = Slot(p, k, to) /\ value[p][x] = Null
      /\ \A m \in Nat : Holds(p, x, m) => Whole(a - m, Size(k))
      /\ \A s \in Places(k), m \in Nat :
            Holds(p, Slot(p, k, s), m) => Whole((m - s) - (a - to), Size(k))
  BY <1>1, <1>2, InsertFacts
<1>4. PICK lo, hi \in Nat : RingWith(p, k, to, a, lo, hi)
  BY <1>1, <1>2, InsertFacts
<1>5. /\ IndexFits(p) /\ HeadersFit(p) /\ k \in 1 .. k /\ k \in Nat \ {0} /\ CallFits(p) /\ TailFits(p)
      /\ a \in Nat /\ FirstNew(p) \in Nat /\ FirstNew(p) <= a /\ BlocksFit(p) /\ Kept(p)
      /\ NextBase(p) = Start(a) /\ Start(a) < tailIndex[p] + loc[p].n
  BY <1>1, <1>2, HeadBehind, ProducerKnown, AllocatedFacts DEF Building
<1>6. PICK N \in Nat : N = Size(k) /\ N >= 1
  BY <1>5, SizeFacts
<1>7. DOMAIN loc[p] = Fields /\ p \in Threads
  BY HeadBehind
<1>8. /\ pc'[p] = "block" /\ loc'[p].entry = x /\ loc'[p].got = loc[p].got /\ loc'[p].n = loc[p].n
      /\ \A c \in Consumers : pc'[c] = pc[c] /\ loc'[c] = loc[c]
      /\ \A q \in Producers \ {p} : pc'[q] = pc[q] /\ loc'[q] = loc[q]
  <2>1. PICK call : call = [loc[p] EXCEPT !.entry = x]
    OBVIOUS
  <2>2. call.entry = x /\ call.got = loc[p].got /\ call.n = loc[p].n
    BY <1>7, <2>1 DEF Fields
  <2>3. loc' = [loc EXCEPT ![p] = call]
    BY <1>2, <2>1
  <2>4. loc'[p] = call /\ \A t \in Threads \ {p} : loc'[t] = loc[t]
    BY <2>3, ProducerCalled
  <2>5. /\ pc'[p] = "block" /\ \A t \in Threads \ {p} : pc'[t] = pc[t]
    BY <1>2, ProducerMoved
  <2>6. \A t \in Producers \cup Consumers : t # p => t \in Threads \ {p}
    BY Assumed
  <2> QED
    BY <2>2, <2>4, <2>5, <2>6, Assumed
<1>9. /\ tailIndex' = tailIndex /\ headIndex' = headIndex /\ freeList' = freeList /\ value' = value
      /\ unused' = unused /\ data' = data /\ tailBlock' = tailBlock
      /\ elementsCompletelyDequeued' = elementsCompletelyDequeued
  BY <1>2 DEF indices, blocks
<1>10. /\ key'[p][x] = Start(a) /\ \A e \in Entries \ {x} : key'[p][e] = key[p][e]
       /\ \A q \in Producers \ {p} : key'[q] = key[q]
       /\ key' \in [Producers -> [Entries -> Nat]]
  <2>1. key \in [Producers -> [Entries -> Nat]]
    BY DEF PlacesInv, PlacesTyped
  <2>2. Start(a) \in Nat
    BY <1>5, StartNat
  <2> QED
    BY <1>2, <1>3, <1>5, <2>1, <2>2
<1>11. /\ DOMAIN blockIndex' = Producers
       /\ \A q \in Producers \ {p} : blockIndex'[q] = blockIndex[q]
       /\ HeadersFit(p)' /\ Newer(p)' = k /\ Newer(p) = k /\ Current(p)'.tail = to
       /\ \A j \in 1 .. k : /\ blockIndex'[p][j].slots = blockIndex[p][j].slots
                            /\ \A s : Slot(p, j, s)' = Slot(p, j, s)
       /\ Newest(p)' = x
  <2>1. DOMAIN blockIndex = Producers
    BY DEF PlacesInv, PlacesTyped
  <2>2. /\ p \in Producers /\ DOMAIN blockIndex = Producers /\ HeadersFit(p) /\ k = Newer(p)
        /\ to \in Places(k) /\ TailGoes(p, k, to)
    BY <1>1, <1>2, <1>3, <1>5, <2>1 DEF TailGoes
  <2>3. Newest(p)' = Current(p).slots[to]
    BY ONLY <2>2, TailMoves
  <2> QED
    BY ONLY <1>1, <2>2, <2>3, TailMoves
<1>17. \A e \in Entries : \A m : e # x => (Holds(p, e, m)' <=> Holds(p, e, m))
  BY <1>10 DEF Holds
<1>18. \A m \in Nat : Holds(p, x, m)' <=> m = a
  BY <1>5, <1>10, StartFacts DEF Holds
<1>19. \A e \in Entries : \A m : Finds(p, e, m)' <=> Finds(p, e, m)
  BY <1>3, <1>9, <1>17 DEF Finds
<1>20. FirstNew(p)' = FirstNew(p) /\ Reserved(p)' = Reserved(p)
  BY <1>2, <1>8, <1>9 DEF FirstNew, Reserved, Building
<1>21. Allocated(p)' = a /\ Last(p)' = a /\ Written(p)' = Written(p)
  <2>1. Allocated(p)' = a
    BY <1>1, <1>20 DEF Allocated
  <2> QED
    BY <1>2, <1>8, <1>9, <2>1 DEF Last, Written, Halfway
<1>22. \A j \in 1 .. k : \A s \in Places(j) : Slot(p, j, s) \in Entries
  BY <1>1, <1>5, HeaderFacts
<1>23. \A s \in Places(k) : Slot(p, k, s) = x => s = to
  BY <1>1, <1>3, <1>5, HeaderFacts
<1>24. /\ \A s \in Places(k) \ {to}, m \in Nat :
             Holds(p, Slot(p, k, s), m)' <=> Holds(p, Slot(p, k, s), m)
       /\ \A m \in Nat : Holds(p, Slot(p, k, to), m)' <=> m = a
  <2>1. \A s \in Places(k) : Slot(p, k, s)' = Slot(p, k, s)
    BY <1>5, <1>11
  <2>2. ASSUME NEW s \in Places(k), NEW m \in Nat
        PROVE  /\ s # to => (Holds(p, Slot(p, k, s), m)' <=> Holds(p, Slot(p, k, s), m))
               /\ s = to => (Holds(p, Slot(p, k, s), m)' <=> m = a)
    <3>1. PICK y \in Entries : y = Slot(p, k, s)
      BY <1>5, <1>22
    <3>2. Slot(p, k, s)' = y
      BY <2>1, <3>1
    <3>3. Holds(p, Slot(p, k, s), m)' <=> Holds(p, y, m)'
      BY <3>2 DEF Holds
    <3>4. (y = x <=> s = to)
      BY <1>3, <1>23, <3>1
    <3> QED
      BY <1>17, <1>18, <3>1, <3>3, <3>4
  <2> QED
    BY <1>3, <2>2
<1>25. AtTail(p)'
  <2>1. \A s \in Places(k), m \in Nat : Holds(p, Slot(p, k, s), m)' => Whole((m - s) - (a - to), N)
    <3>1. to \in Nat
      BY <1>1, <1>3, <1>5, HeaderFacts
    <3>2. Whole((a - to) - (a - to), N)
      BY <1>5, <1>6, <3>1, WholeFacts
    <3> QED
      BY <1>3, <1>6, <1>24, <3>2
  <2> QED
    BY <1>6, <1>11, <1>21, <2>1 DEF AtTail
<1>26. HasRing(p)'
  <2>1. a \in lo .. hi /\ a - 1 <= hi
    BY <1>4, <1>5 DEF RingWith
  <2>2. \A s \in Places(k), m \in Nat : Holds(p, Slot(p, k, s), m)' => m \in lo .. hi
    BY <1>4, <1>24, <2>1 DEF RingWith
  <2>3. ASSUME NEW m \in lo .. hi PROVE \E s \in Places(k) : Holds(p, Slot(p, k, s), m)'
    <3>1. m \in Nat
      BY <1>4
    <3> QED
      BY <1>3, <1>4, <1>24, <3>1 DEF RingWith
  <2>4. /\ lo \in Nat /\ hi \in Int /\ lo <= FirstNew(p)' /\ Allocated(p)' - 1 <= hi
        /\ Last(p)' <= hi /\ hi - lo < Size(Newer(p)')
    BY <1>4, <1>11, <1>20, <1>21, <2>1 DEF RingWith
  <2>5. Ring(p, lo, hi)'
    BY <1>11, <2>2, <2>3, <2>4 DEF Ring
  <2> QED
    BY <2>5 DEF HasRing
<1>27. EntriesFit(p)'
  <2>1. EntriesFit(p)
    BY <1>5 DEF IndexFits
  <2>2. ASSUME NEW e \in Entries
        PROVE  /\ key'[p][e] = InvalidBase \/ \E m \in Nat : Holds(p, e, m)'
               /\ value'[p][e] # Null => e <= Size(k) /\ \E m \in Nat : m < a /\ Holds(p, e, m)'
               /\ e > Size(k) => key'[p][e] = InvalidBase
    <3>1. CASE e = x
      <4>1. ~(e > Size(k)) /\ value'[p][e] = Null /\ Holds(p, e, a)'
        <5>1. PICK n \in Nat : n = e
          BY <1>3, <3>1, EntriesAre
        <5> QED
          BY <1>3, <1>5, <1>6, <1>9, <1>18, <3>1, <5>1
      <4> QED
        BY <1>5, <4>1
    <3>2. CASE e # x
      BY <1>1, <1>9, <1>10, <1>17, <2>1, <3>2 DEF EntriesFit
    <3> QED
      BY <3>1, <3>2
  <2> QED
    BY <1>11, <1>21, <2>2 DEF EntriesFit
<1>28. IndexFits(p)'
  <2>1. ASSUME NEW j \in 1 .. k - 1 PROVE Aligned(p, j)' /\ Full(p, j)'
    <3>1. j \in 1 .. k /\ Aligned(p, j) /\ Full(p, j) /\ Newer(p) = k
      BY <1>1, <1>5 DEF IndexFits
    <3>2. \A s \in Places(j) : \A m : Holds(p, Slot(p, j, s), m)' <=> key'[p][Slot(p, j, s)] = Start(m)
      BY <1>11, <3>1 DEF Holds
    <3>3. Size(j) \in Nat /\ j \in Nat \ {0} /\ j <= k /\ Places(j) \subseteq Nat
      BY <1>1, <1>5, <3>1, HeaderFacts
    <3>4. \A s \in Places(j) : Slot(p, j, s) \in Entries
      BY <1>1, <1>5, <3>1, HeaderFacts
\* A slot that gets a number had one whole rounds from it.
    <3>5. \A s \in Places(j), m \in Nat : Holds(p, Slot(p, j, s), m)' =>
             \E n \in Nat : Holds(p, Slot(p, j, s), n) /\ Whole(m - n, Size(j))
      <4> SUFFICES ASSUME NEW s \in Places(j), NEW m \in Nat, Holds(p, Slot(p, j, s), m)'
                   PROVE  \E n \in Nat : Holds(p, Slot(p, j, s), n) /\ Whole(m - n, Size(j))
        OBVIOUS
      <4>1. PICK y \in Entries : y = Slot(p, j, s)
        BY <3>4
      <4>2. Holds(p, y, m)'
        BY <3>2, <4>1 DEF Holds
      <4>3. PICK n \in Nat : Holds(p, y, n)
        BY <3>1, <4>1 DEF Full
      <4>4. CASE y = x
        <5>1. m = a /\ Whole(a - n, Size(k))
          BY <1>3, <1>18, <4>2, <4>3, <4>4
        <5>2. Whole(a - n, Size(j))
          BY <1>5, <3>3, <5>1, WholeSize
        <5> QED
          BY <4>1, <4>3, <5>1, <5>2
      <4>5. CASE y # x
        <5>1. m = n
          BY <1>17, <4>2, <4>3, <4>5, NumberOnce
        <5>2. Whole(m - n, Size(j))
          BY <3>3, <5>1, WholeFacts
        <5> QED
          BY <4>1, <4>3, <5>2
      <4> QED
        BY <4>4, <4>5
    <3>6. Aligned(p, j)'
      <4> SUFFICES ASSUME NEW s \in Places(j), NEW u \in Places(j), NEW m \in Nat, NEW n \in Nat,
                          Holds(p, Slot(p, j, s), m)', Holds(p, Slot(p, j, u), n)'
                   PROVE  Whole((m - n) - (s - u), Size(j))
        BY DEF Aligned
      <4>1. PICK m1 \in Nat : Holds(p, Slot(p, j, s), m1) /\ Whole(m - m1, Size(j))
        BY <3>5
      <4>2. PICK n1 \in Nat : Holds(p, Slot(p, j, u), n1) /\ Whole(n - n1, Size(j))
        BY <3>5
      <4>3. Whole((m1 - n1) - (s - u), Size(j))
        BY <3>1, <4>1, <4>2 DEF Aligned
      <4>4. /\ s \in Nat /\ u \in Nat
            /\ (m - n) - (s - u) = (((m1 - n1) - (s - u)) + (m - m1)) - (n - n1)
        BY <3>3
      <4>5. \A d, e, f \in Int : Whole(d, Size(j)) /\ Whole(e, Size(j)) /\ (f = d + e \/ f = d - e)
                                  => Whole(f, Size(j))
        BY <3>3, WholeSum
      <4>6. /\ (m1 - n1) - (s - u) \in Int /\ m - m1 \in Int /\ n - n1 \in Int
            /\ ((m1 - n1) - (s - u)) + (m - m1) \in Int /\ (m - n) - (s - u) \in Int
        BY <4>4
      <4>7. Whole(((m1 - n1) - (s - u)) + (m - m1), Size(j))
        BY ONLY <4>1, <4>3, <4>5, <4>6
      <4> QED
        BY ONLY <4>2, <4>4, <4>5, <4>6, <4>7
    <3>7. Full(p, j)'
      <4> SUFFICES ASSUME NEW s \in Places(j) PROVE \E m \in Nat : Holds(p, Slot(p, j, s), m)'
        BY DEF Full
      <4>1. PICK y \in Entries, m \in Nat : y = Slot(p, j, s) /\ Holds(p, y, m)
        BY <3>1, <3>4 DEF Full
      <4>2. \E n \in Nat : Holds(p, y, n)'
        BY <1>5, <1>17, <1>18, <4>1
      <4> QED
        BY <3>2, <4>1, <4>2 DEF Holds
    <3> QED
      BY <3>6, <3>7
  <2> QED
    BY <1>11, <1>25, <1>26, <1>27, <2>1 DEF IndexFits
<1>29. CallFits(p)'
  BY <1>1, <1>2, <1>5, <1>8, <1>9, <1>21 DEF CallFits, Building, Halfway
<1>30. BlocksFit(p)'
  <2>1. /\ loc'[p].entry \in Entries /\ loc'[p].entry = Newest(p)'
        /\ key'[p][loc'[p].entry] = Start(Allocated(p)') /\ value'[p][loc'[p].entry] = Null
    BY <1>3, <1>8, <1>9, <1>10, <1>11, <1>21
  <2>2. ASSUME NEW j \in 1 .. Len(loc[p].got)
        PROVE  \E e \in Entries : Finds(p, e, FirstNew(p) + j - 1)' /\ value'[p][e] = loc'[p].got[j]
    <3>1. PICK m : m = FirstNew(p) + j - 1
      OBVIOUS
    <3>2. PICK e \in Entries : Finds(p, e, m) /\ value[p][e] = loc[p].got[j]
      BY <1>2, <1>5, <3>1 DEF BlocksFit, Building
    <3>3. Finds(p, e, m)' /\ (FirstNew(p) + j - 1)' = m
      BY <1>19, <1>20, <3>1, <3>2
    <3> QED
      BY <1>8, <1>9, <3>2, <3>3 DEF Finds, Holds
  <2> QED
    BY <1>8, <2>1, <2>2 DEF BlocksFit, Holds
<1>31. TailFits(p)'
  BY <1>5, <1>9, <1>19, <1>21 DEF TailFits
<1>32. ProducerFits(p)'
  BY <1>28, <1>29, <1>30, <1>31 DEF ProducerFits
<1>33. \A q, m : Unread(q, m)' = Unread(q, m)
  BY <1>8, <1>9, RemainingStays, UnreadStays
<1>34. Kept(p)'
  BY <1>1, <1>5, <1>9, <1>19, <1>21, <1>33, KeptStays
<1>35. IndexMoves(p)
  <2>1. ASSUME NEW e \in Entries, NEW m \in Nat, Holds(p, e, m)
        PROVE  \E n \in Nat : Holds(p, e, n)' /\ Whole(n - m, Size(k))
    <3>1. CASE e = x
      BY <1>3, <1>5, <1>18, <2>1, <3>1
    <3>2. CASE e # x
      <4>1. Whole(m - m, Size(k))
        BY <1>6, WholeFacts
      <4> QED
        BY <1>17, <2>1, <3>2, <4>1
    <3> QED
      BY <3>1, <3>2
  <2> QED
    BY <1>5, <1>11, <2>1 DEF IndexMoves
<1>36. \A m \in Nat : FindsSame(p, m)
  BY <1>9, <1>19 DEF FindsSame
<1>37. PlacesTyped'
  BY <1>9, <1>10, <1>11 DEF PlacesInv, PlacesTyped
<1>38. HomesApart' /\ ListInv(InUse)'
  <2>1. \A q \in Producers : /\ pc'[q] = "free" <=> pc[q] = "free"
                             /\ pc[q] = "free" => loc'[q].got = loc[q].got
    BY <1>2, <1>8
  <2> QED
    BY <1>9, <2>1, HomesStay
<1>39. \A q \in Producers \ {p} : Still(q)
  BY <1>8, <1>9, <1>10, <1>11, OthersStill
<1> QED
  BY <1>8, <1>9, <1>32, <1>34, <1>35, <1>36, <1>37, <1>38, <1>39, ProducerFrame

\* Without room for another entry, every entry of the current header has a number, those of
\* the last round in their order from the one after the tail.
LEMMA NoRoomFacts ==
    ASSUME ClaimInv, PlacesInv, NEW p \in Producers, pc[p] = "reserve", ~HasRoom(p),
           NEW k, k = Newer(p), NEW a, a = Allocated(p), NEW n, n = Size(k),
           NEW h, h = Current(p), NEW lo, NEW hi, Ring(p, lo, hi)
    PROVE  /\ lo = a - n /\ hi = a - 1 /\ Full(p, k)
           /\ \A s \in 0 .. n - 1, m \in Nat :
                 Holds(p, h.slots[Later(h, h.tail, s + 1)], m) => m = a - n + s
<1>1. /\ IndexFits(p) /\ HeadersFit(p) /\ k \in 1 .. Newer(p) /\ k \in Nat \ {0}
      /\ a \in Nat /\ FirstNew(p) \in Nat /\ FirstNew(p) <= a
  BY ProducerKnown DEF Reserved, Building, Allocated
<1>2. Last(p) = a - 1
  BY DEF Last, Halfway
<1>3. n \in Nat /\ n >= 1 /\ a \in Nat
  BY <1>1, SizeFacts
<1>4. /\ h.tail \in Places(k) /\ DOMAIN h.slots = Places(k)
      /\ \A s : h.slots[s] = Slot(p, k, s)
  BY <1>1, HeaderFacts DEF Current, Newer, Slot
<1>5. PICK t \in Nat : t = h.tail
  BY <1>1, <1>4, HeaderFacts
<1>6. \A s \in Places(k) : s \in Nat /\ Slot(p, k, s) \in Entries
  BY <1>1, HeaderFacts
<1>7. \A d, e, f \in Int : Whole(d, n) /\ Whole(e, n) /\ (f = d + e \/ f = d - e) => Whole(f, n)
  BY <1>3, WholeSum
<1>8. ASSUME NEW s \in Int
      PROVE  /\ Later(h, t, s + 1) \in Places(k)
             /\ Whole(Later(h, t, s + 1) - (t + (s + 1)), n)
  <2>1. s + 1 \in Int /\ t \in Int
    OBVIOUS
  <2> QED
    BY <1>1, <1>4, <2>1, LaterFacts
<1>9. \A s \in Places(k), m \in Nat : Holds(p, Slot(p, k, s), m)
          => Whole((m - s) - ((a - 1) - t), n)
  BY <1>1, <1>2, <1>5 DEF IndexFits, AtTail
\* What the place s + 1 after the tail holds.
<1>10. \A s \in Int, m \in Nat : Holds(p, Slot(p, k, Later(h, t, s + 1)), m)
           => Whole(m - (a + s), n)
  <2> SUFFICES ASSUME NEW s \in Int, NEW m \in Nat, Holds(p, Slot(p, k, Later(h, t, s + 1)), m)
               PROVE  Whole(m - (a + s), n)
    OBVIOUS
  <2>1. PICK v \in Nat : v = Later(h, t, s + 1) /\ v \in Places(k)
    BY <1>6, <1>8
  <2>2. Whole(v - (t + (s + 1)), n) /\ Whole((m - v) - ((a - 1) - t), n)
    BY <1>8, <1>9, <2>1
  <2>3. m - (a + s) = ((m - v) - ((a - 1) - t)) + (v - (t + (s + 1)))
    BY <1>3
  <2>4. m - (a + s) \in Int /\ (m - v) - ((a - 1) - t) \in Int /\ v - (t + (s + 1)) \in Int
    BY <1>3
  <2> QED
    BY <1>7, <2>2, <2>3, <2>4
<1>11. /\ lo \in Nat /\ hi \in Int /\ a - 1 <= hi /\ hi - lo < n
       /\ \A s \in Places(k), m \in Nat : Holds(p, Slot(p, k, s), m) => m \in lo .. hi
       /\ \A m \in lo .. hi : \E s \in Places(k) : Holds(p, Slot(p, k, s), m)
  BY DEF Ring
<1>12. lo = a - n /\ hi = a - 1
  <2>1. PICK v : v = Later(h, t, 0 + 1) /\ v \in Places(k)
    BY <1>8
  <2>2. 0 + 1 = 1
    OBVIOUS
  <2>3. value[p][Slot(p, k, v)] # Null
    BY <1>4, <1>5, <2>1, <2>2 DEF HasRoom
  <2>4. PICK m \in Nat : m < a /\ Holds(p, Slot(p, k, v), m)
    BY <1>1, <1>6, <2>1, <2>3 DEF IndexFits, EntriesFit
  <2>5. Whole(m - (a + 0), n) /\ a + 0 = a
    BY <1>3, <1>10, <2>1, <2>4
  <2>6. m <= a - n
    <3>1. ASSUME ~(m <= a - n) PROVE FALSE
      <4>1. PICK d \in Int : d = m - a
        BY <1>3
      <4>2. -n < d /\ d < n /\ d # 0
        BY <1>3, <2>4, <3>1, <4>1
      <4> QED
        BY <1>3, <2>5, <4>1, <4>2, WholeNear
    <3> QED
      BY <3>1
  <2>7. m \in lo .. hi
    BY <1>11, <2>1, <2>4
  <2> QED
    BY <1>3, <1>11, <2>6, <2>7
<1>13. ASSUME NEW s \in 0 .. n - 1, NEW m \in Nat, Holds(p, h.slots[Later(h, h.tail, s + 1)], m)
       PROVE  m = a - n + s
  <2>1. Holds(p, Slot(p, k, Later(h, t, s + 1)), m) /\ Later(h, t, s + 1) \in Places(k)
    BY <1>4, <1>5, <1>8, <1>13
  <2>2. Whole(m - (a + s), n) /\ Whole(n, n)
    BY <1>3, <1>10, <2>1, WholeFacts
  <2>3. m \in lo .. hi
    BY <1>11, <2>1
  <2>4. PICK d \in Int : d = (m - (a + s)) + n
    BY <1>3
  <2>5. m - (a + s) \in Int /\ n \in Int
    BY <1>3
  <2>6. Whole(d, n)
    BY <1>7, <2>2, <2>4, <2>5
  <2>7. -n < d /\ d < n
    BY <1>3, <1>12, <2>3, <2>4
  <2>8. d = 0
    BY <1>3, <2>6, <2>7, WholeNear
  <2> QED
    BY <1>3, <2>4, <2>8
<1>14. Full(p, k)
  <2> SUFFICES ASSUME NEW s \in Places(k) PROVE \E m \in Nat : Holds(p, Slot(p, k, s), m)
    BY DEF Full
  <2>1. s \in Nat
    BY <1>6
  <2>2. PICK y \in Int : y = (s + ((a - 1) - t)) - lo
    BY <1>3, <1>11, <2>1
  <2>3. y % n \in 0 .. n - 1 /\ Whole((y % n) - y, n)
    BY <1>3, WholeMod
  <2>4. PICK r \in 0 .. n - 1 : Whole(r - y, n)
    BY <2>3
  <2>5. lo + r \in lo .. hi /\ lo + r \in Nat /\ r \in Nat
    BY <1>3, <1>11, <1>12, <2>4
  <2>6. PICK u \in Places(k) : Holds(p, Slot(p, k, u), lo + r)
    BY <1>11, <2>5
  <2>7. Whole(((lo + r) - u) - ((a - 1) - t), n) /\ u \in Nat
    BY <1>6, <1>9, <2>5, <2>6
  <2>8. /\ s - u = (((lo + r) - u) - ((a - 1) - t)) - (r - y)
        /\ ((lo + r) - u) - ((a - 1) - t) \in Int /\ r - y \in Int /\ s - u \in Int
    BY <1>3, <1>11, <2>1, <2>2, <2>5, <2>7
  <2>9. Whole(s - u, n)
    BY <1>7, <2>4, <2>7, <2>8
  <2>10. s = u
    BY <1>1, <2>9, WholePlaces
  <2> QED
    BY <2>5, <2>6, <2>10
<1> QED
  BY <1>12, <1>13, <1>14

\* The header that follows h in new_block_index.
Doubled(h, n) ==
    [slots |-> [s \in 0 .. 2 * n - 1 |->
                  IF s < n THEN h.slots[Later(h, h.tail, s + 1)] ELSE s + 1],
     tail |-> n - 1]

\* It has the entries of the current one, then as many new ones.
LEMMA GrownHeader ==
    ASSUME NEW k \in Nat \ {0}, NEW h, HeaderFits(h, k), NEW n, n = Size(k),
           NEW g, g = Doubled(h, n)
    PROVE  /\ HeaderFits(g, k + 1) /\ n \in Nat /\ g.tail = n - 1
           /\ \A s \in 0 .. n - 1 : /\ g.slots[s] = h.slots[Later(h, h.tail, s + 1)]
                                    /\ Later(h, h.tail, s + 1) \in Places(k)
           /\ \A s \in Places(k + 1) : s \in 0 .. n - 1 \/ g.slots[s] > n
           /\ \A v \in Places(k) : \E s \in 0 .. n - 1 : g.slots[s] = h.slots[v]
<1>1. n \in Nat /\ n >= 1 /\ Size(k + 1) = 2 * n /\ Places(k) = 0 .. n - 1
      /\ Places(k + 1) = 0 .. 2 * n - 1
  BY SizeFacts DEF Places
<1>19. n \in Nat /\ n >= 1
  BY <1>1
<1>2. PICK t \in Nat : t = h.tail /\ t \in Places(k)
  BY <1>1 DEF HeaderFits
<1>3. /\ \A s \in Places(k) : h.slots[s] \in 1 .. n
      /\ \A s, u \in Places(k) : h.slots[s] = h.slots[u] => s = u
      /\ \A e \in 1 .. n : \E s \in Places(k) : h.slots[s] = e
      /\ DOMAIN h.slots = Places(k)
  BY DEF HeaderFits
<1>4. PICK L : L = [s \in 0 .. n - 1 |-> Later(h, t, s + 1)]
  OBVIOUS
<1>5. \A s \in 0 .. n - 1 : /\ L[s] = Later(h, t, s + 1) /\ L[s] \in Places(k)
                            /\ Whole(L[s] - (t + (s + 1)), n)
  <2> SUFFICES ASSUME NEW s \in 0 .. n - 1
               PROVE  /\ Later(h, t, s + 1) \in Places(k)
                      /\ Whole(Later(h, t, s + 1) - (t + (s + 1)), n)
    BY <1>4
  <2>1. s + 1 \in Int /\ t \in Int
    BY <1>1
  <2> QED
    BY <1>3, <2>1, LaterFacts
<1>6. /\ \A s, u \in 0 .. n - 1 : L[s] = L[u] => s = u
      /\ \A v \in Places(k) : \E s \in 0 .. n - 1 : L[s] = v
  <2>1. Turns(L, n, t)
    BY <1>1, <1>5 DEF Turns
  <2>2. ThroughAll(L, n)
    BY ONLY <1>19, t \in Nat, <2>1, Turned
  <2> QED
    BY <1>1, <2>2 DEF ThroughAll
<1>9. /\ g.slots = [s \in 0 .. 2 * n - 1 |-> IF s < n THEN h.slots[Later(h, t, s + 1)] ELSE s + 1]
      /\ g.tail = n - 1
  BY <1>2 DEF Doubled
<1>10. ASSUME NEW s \in 0 .. n - 1
       PROVE  g.slots[s] = h.slots[L[s]] /\ g.slots[s] \in 1 .. n
  <2>1. s \in 0 .. 2 * n - 1 /\ s < n
    BY <1>19
  <2>2. g.slots[s] = h.slots[Later(h, t, s + 1)]
    BY <1>9, <2>1
  <2>3. L[s] = Later(h, t, s + 1) /\ L[s] \in Places(k)
    BY <1>5
  <2>4. h.slots[L[s]] \in 1 .. n
    BY <1>3, <2>3
  <2> QED
    BY <2>2, <2>3, <2>4
<1>11. \A s \in n .. 2 * n - 1 : g.slots[s] = s + 1
  BY <1>9, <1>19
<1>12. \A s \in 0 .. 2 * n - 1 : s \in 0 .. n - 1 \/ s \in n .. 2 * n - 1
  BY <1>19
<1>13. g.slots \in [Places(k + 1) -> 1 .. Size(k + 1)]
  <2>1. \A s \in 0 .. 2 * n - 1 : g.slots[s] \in 1 .. 2 * n
    <3>1. \A s \in 0 .. n - 1 : g.slots[s] \in 1 .. 2 * n
      <4>1. \A e \in 1 .. n : e \in 1 .. 2 * n
        BY <1>19
      <4> QED
        BY <1>10, <4>1
    <3>2. \A s \in n .. 2 * n - 1 : g.slots[s] \in 1 .. 2 * n
      BY <1>11, <1>19
    <3> QED
      BY <1>12, <3>1, <3>2
  <2>2. \A s \in 0 .. 2 * n - 1 :
           (IF s < n THEN h.slots[Later(h, t, s + 1)] ELSE s + 1) \in 1 .. 2 * n
    BY <1>9, <2>1
  <2> QED
    BY <1>1, <1>9, <2>2
<1>14. \A s, u \in 0 .. 2 * n - 1 : g.slots[s] = g.slots[u] => s = u
  <2> SUFFICES ASSUME NEW s \in 0 .. 2 * n - 1, NEW u \in 0 .. 2 * n - 1, g.slots[s] = g.slots[u]
               PROVE  s = u
    OBVIOUS
  <2>1. CASE s \in 0 .. n - 1 /\ u \in 0 .. n - 1
    <3>1. h.slots[L[s]] = h.slots[L[u]] /\ L[s] \in Places(k) /\ L[u] \in Places(k)
      BY <1>5, <1>10, <2>1
    <3>2. L[s] = L[u]
      BY <1>3, <3>1
    <3> QED
      BY <1>6, <2>1, <3>2
  <2>2. CASE s \in n .. 2 * n - 1 /\ u \in n .. 2 * n - 1
    BY <1>11, <1>19, <2>2
  <2>3. CASE s \in 0 .. n - 1 /\ u \in n .. 2 * n - 1
    <3>1. g.slots[s] \in 1 .. n /\ g.slots[u] = u + 1
      BY <1>10, <1>11, <2>3
    <3> QED
      BY <1>19, <2>3, <3>1
  <2>4. CASE s \in n .. 2 * n - 1 /\ u \in 0 .. n - 1
    <3>1. g.slots[u] \in 1 .. n /\ g.slots[s] = s + 1
      BY <1>10, <1>11, <2>4
    <3> QED
      BY <1>19, <2>4, <3>1
  <2> QED
    BY <1>12, <2>1, <2>2, <2>3, <2>4
<1>15. \A v \in Places(k) : \E s \in 0 .. n - 1 : g.slots[s] = h.slots[v]
  BY <1>6, <1>10
<1>16. ASSUME NEW e \in 1 .. 2 * n PROVE \E s \in 0 .. 2 * n - 1 : g.slots[s] = e
  <2>1. CASE e <= n
    <3>1. PICK v \in Places(k) : h.slots[v] = e
      BY <1>1, <1>3, <2>1
    <3>2. \A s \in 0 .. n - 1 : s \in 0 .. 2 * n - 1
      BY <1>1
    <3> QED
      BY <1>15, <3>1, <3>2
  <2>2. CASE e > n
    <3>1. e - 1 \in n .. 2 * n - 1 /\ e - 1 \in 0 .. 2 * n - 1 /\ (e - 1) + 1 = e
      BY <1>19, <2>2
    <3> QED
      BY <1>11, <3>1
  <2> QED
    BY <1>19, <2>1, <2>2
<1>17. HeaderFits(g, k + 1)
  <2>1. n - 1 \in 0 .. 2 * n - 1
    BY <1>1
  <2> QED
    BY <1>1, <1>9, <1>13, <1>14, <1>16, <2>1 DEF HeaderFits
<1>18. \A s \in Places(k + 1) : s \in 0 .. n - 1 \/ g.slots[s] > n
  BY <1>1, <1>11, <1>12
<1>20. \A s \in 0 .. n - 1 : /\ g.slots[s] = h.slots[Later(h, h.tail, s + 1)]
                             /\ Later(h, h.tail, s + 1) \in Places(k)
  BY <1>2, <1>5, <1>10
<1> QED
  BY <1>9, <1>15, <1>17, <1>18, <1>19, <1>20

LEMMA GrowPlaces ==
    ASSUME ClaimInv, PlacesInv, NEW p \in Producers, Grow(p)
    PROVE  PlacesInv'
<1>1. PICK k, a, h, n, g : /\ k = Newer(p) /\ a = Allocated(p) /\ h = Current(p) /\ n = Size(k)
                          /\ g = Doubled(h, n)
  OBVIOUS
<1>2. /\ IndexFits(p) /\ HeadersFit(p) /\ k \in 1 .. k /\ k \in Nat \ {0} /\ CallFits(p) /\ TailFits(p)
      /\ a \in Nat /\ FirstNew(p) \in Nat /\ FirstNew(p) <= a /\ BlocksFit(p) /\ Kept(p)
      /\ Last(p) \in Int
  BY <1>1, ProducerKnown
<1>3. PICK I, J : I = blockIndex[p] /\ J = blockIndex'[p]
  OBVIOUS
<1>4. /\ I \in Seq(HeaderSet) /\ Len(I) = k /\ k \in 1 .. MaxHeaders /\ h = I[k]
      /\ \A j \in 1 .. k : HeaderFits(I[j], j)
  BY <1>1, <1>2, <1>3 DEF HeadersFit, Newer, Current
<1>5. /\ HeaderFits(h, k) /\ DOMAIN h.slots = Places(k)
  BY <1>2, <1>4 DEF HeaderFits
<1>6. n \in Nat /\ n >= 1 /\ Size(k + 1) = 2 * n /\ Cardinality(DOMAIN h.slots) = n /\ Places(k) = 0 .. n - 1
  <2>1. n \in Nat /\ n >= 1 /\ Size(k + 1) = 2 * n
    BY <1>1, <1>2, SizeFacts
  <2>2. Places(k) = 0 .. n - 1
    BY <1>1 DEF Places
  <2>3. Cardinality(0 .. n - 1) = n
    BY <2>1, FS_Interval
  <2> QED
    BY <1>5, <2>1, <2>2, <2>3
<1>7. /\ pc[p] = "reserve" /\ ~HasRoom(p) /\ Len(I) < MaxHeaders
      /\ blockIndex' = [blockIndex EXCEPT ![p] = Append(I, g)]
      /\ UNCHANGED <<freeList, indices, key, value, blocks, threads>>
  BY <1>1, <1>3, <1>6 DEF Grow, Doubled
<1>8. PICK lo, hi : Ring(p, lo, hi)
  BY <1>2 DEF IndexFits, HasRing
<1>9. /\ lo = a - n /\ hi = a - 1 /\ Full(p, k)
      /\ \A s \in 0 .. n - 1, m \in Nat :
            Holds(p, h.slots[Later(h, h.tail, s + 1)], m) => m = a - n + s
  BY <1>1, <1>7, <1>8, NoRoomFacts
<1>10. /\ HeaderFits(g, k + 1) /\ g.tail = n - 1
       /\ \A s \in 0 .. n - 1 : /\ g.slots[s] = h.slots[Later(h, h.tail, s + 1)]
                                /\ Later(h, h.tail, s + 1) \in Places(k)
       /\ \A s \in Places(k + 1) : s \in 0 .. n - 1 \/ g.slots[s] > n
       /\ \A v \in Places(k) : \E s \in 0 .. n - 1 : g.slots[s] = h.slots[v]
  <2>1. /\ k \in Nat \ {0} /\ HeaderFits(h, k) /\ n = Size(k)
        /\ g = Doubled(h, n)
    BY <1>1, <1>2, <1>5
  <2> QED
    BY ONLY <2>1, GrownHeader
<1>11. /\ tailIndex' = tailIndex /\ headIndex' = headIndex /\ freeList' = freeList /\ value' = value
       /\ unused' = unused /\ data' = data /\ tailBlock' = tailBlock /\ key' = key
       /\ elementsCompletelyDequeued' = elementsCompletelyDequeued /\ pc' = pc /\ loc' = loc
  BY <1>7 DEF indices, blocks, threads
<1>12. /\ DOMAIN blockIndex' = Producers /\ J = Append(I, g)
       /\ \A q \in Producers \ {p} : blockIndex'[q] = blockIndex[q]
  BY <1>3, <1>7 DEF PlacesInv, PlacesTyped
<1>13. k + 1 \in 1 .. MaxHeaders /\ k + 1 \in Nat \ {0}
  BY <1>2, <1>4, <1>7, EntriesAre
<1>14. g \in HeaderSet
  <2>1. g.slots \in [Places(k + 1) -> 1 .. Size(k + 1)] /\ g.tail \in Places(k + 1)
    BY <1>10 DEF HeaderFits
  <2>2. g.slots \in UNION {[Places(j) -> 1 .. Size(j)] : j \in 1 .. MaxHeaders}
        /\ g.tail \in UNION {Places(j) : j \in 1 .. MaxHeaders}
    BY <1>13, <2>1
  <2>3. g = [slots |-> g.slots, tail |-> g.tail]
    BY <1>1 DEF Doubled
  <2> QED
    BY <2>2, <2>3 DEF HeaderSet
<1>15. /\ J \in Seq(HeaderSet) /\ Len(J) = k + 1 /\ J[k + 1] = g
       /\ \A j \in 1 .. k : J[j] = I[j]
  BY <1>2, <1>4, <1>12, <1>14
<1>16. HeadersFit(p)' /\ Newer(p)' = k + 1 /\ Current(p)' = g
  <2>1. Newer(p)' = k + 1 /\ Current(p)' = g
    BY <1>3, <1>15 DEF Newer, Current
  <2>2. \A j \in 1 .. k + 1 : HeaderFits(J[j], j)
    <3>1. \A j \in 1 .. k + 1 : j = k + 1 \/ j \in 1 .. k
      BY <1>2
    <3> QED
      BY <1>4, <1>10, <1>15, <3>1
  <2> QED
    BY <1>3, <1>13, <1>15, <2>1, <2>2 DEF HeadersFit
<1>17. /\ \A j \in 1 .. k : \A s : Slot(p, j, s)' = Slot(p, j, s)
       /\ \A s : Slot(p, k + 1, s)' = g.slots[s]
  <2>1. \A j \in 1 .. k : blockIndex'[p][j] = blockIndex[p][j]
    BY <1>3, <1>15
  <2>2. blockIndex'[p][k + 1] = g
    BY <1>3, <1>15
  <2> QED
    BY <2>1, <2>2 DEF Slot
<1>18. \A e, m : (Holds(p, e, m)' <=> Holds(p, e, m)) /\ (Finds(p, e, m)' <=> Finds(p, e, m))
  BY <1>11 DEF Holds, Finds
<1>19. /\ FirstNew(p)' = FirstNew(p) /\ Reserved(p)' = Reserved(p) /\ Allocated(p)' = a
       /\ Last(p)' = a - 1 /\ Written(p)' = Written(p)
  <2>1. FirstNew(p)' = FirstNew(p) /\ Reserved(p)' = Reserved(p)
    BY <1>11 DEF FirstNew, Reserved
  <2>2. Allocated(p)' = a
    BY <1>1, <2>1 DEF Allocated
  <2> QED
    BY <1>7, <1>11, <2>1, <2>2 DEF Last, Written, Halfway
\* What the new header holds.
<1>20. ASSUME NEW s \in Places(k + 1), NEW m \in Nat, Holds(p, g.slots[s], m)
       PROVE  s \in 0 .. n - 1 /\ m = a - n + s
  <2>1. s \in 0 .. n - 1
    <3>1. ASSUME s \notin 0 .. n - 1 PROVE FALSE
      <4>1. g.slots[s] > n /\ g.slots[s] \in 1 .. Size(k + 1)
        BY <1>10, <1>20, <3>1 DEF HeaderFits
      <4>2. g.slots[s] \in Entries
        BY <1>13, <4>1, EntriesAre
      <4>3. key[p][g.slots[s]] = InvalidBase
        BY <1>1, <1>2, <4>1, <4>2 DEF IndexFits, EntriesFit
      <4>4. PICK e \in Entries : e = g.slots[s]
        BY <4>2
      <4>5. key[p][e] = Start(m) /\ key[p][e] = InvalidBase
        BY <1>20, <4>3, <4>4 DEF Holds
      <4>6. Start(m) # InvalidBase
        BY StartFacts
      <4> QED
        BY <4>5, <4>6
    <3> QED
      BY <3>1
  <2> QED
    BY <1>9, <1>10, <1>20, <2>1
<1>21. AtTail(p)'
  <2>1. \A s \in Places(k + 1), m \in Nat : Holds(p, g.slots[s], m) =>
            Whole((m - s) - ((a - 1) - (n - 1)), Size(k + 1))
    <3> SUFFICES ASSUME NEW s \in Places(k + 1), NEW m \in Nat, Holds(p, g.slots[s], m)
                 PROVE  Whole((m - s) - ((a - 1) - (n - 1)), Size(k + 1))
      OBVIOUS
    <3>1. s \in 0 .. n - 1 /\ m = a - n + s
      BY <1>20
    <3>2. (m - s) - ((a - 1) - (n - 1)) = 0
      BY <1>2, <1>6, <3>1
    <3> QED
      BY <1>6, <3>2, WholeFacts
  <2>2. \A s, m : Holds(p, Slot(p, k + 1, s), m)' <=> Holds(p, g.slots[s], m)
    BY <1>11, <1>17 DEF Holds
  <2> QED
    BY <1>10, <1>16, <1>19, <2>1, <2>2 DEF AtTail
<1>22. /\ lo \in Nat /\ hi \in Int /\ lo <= FirstNew(p) /\ hi - lo < n
       /\ \A s \in Places(k), m \in Nat : Holds(p, Slot(p, k, s), m) => m \in lo .. hi
       /\ \A m \in lo .. hi : \E s \in Places(k) : Holds(p, Slot(p, k, s), m)
  BY <1>1, <1>8 DEF Ring
<1>23. HasRing(p)'
  <2>1. \A s \in Places(k + 1), m \in Nat : Holds(p, g.slots[s], m) => m \in lo .. hi
    <3> SUFFICES ASSUME NEW s \in Places(k + 1), NEW m \in Nat, Holds(p, g.slots[s], m)
                 PROVE  m \in lo .. hi
      OBVIOUS
    <3>1. s \in 0 .. n - 1 /\ m = a - n + s
      BY <1>20
    <3> QED
      BY <1>2, <1>6, <1>9, <3>1
  <2>2. ASSUME NEW m \in lo .. hi PROVE \E s \in Places(k + 1) : Holds(p, g.slots[s], m)
    <3>1. PICK v \in Places(k) : Holds(p, Slot(p, k, v), m)
      BY <1>22
    <3>2. Slot(p, k, v) = h.slots[v]
      BY <1>3, <1>4 DEF Slot
    <3>3. PICK s \in 0 .. n - 1 : g.slots[s] = h.slots[v]
      BY <1>10
    <3>4. s \in Places(k + 1)
      BY <1>6 DEF Places
    <3> QED
      BY <3>1, <3>2, <3>3, <3>4
  <2>3. \A s, m : Holds(p, Slot(p, k + 1, s), m)' <=> Holds(p, g.slots[s], m)
    BY <1>11, <1>17 DEF Holds
  <2>4. /\ lo \in Nat /\ hi \in Int /\ lo <= FirstNew(p)' /\ Allocated(p)' - 1 <= hi
        /\ Last(p)' <= hi /\ hi - lo < Size(k + 1)
    BY <1>2, <1>6, <1>9, <1>19, <1>22
  <2>5. Ring(p, lo, hi)'
    BY <1>16, <2>1, <2>2, <2>3, <2>4 DEF Ring
  <2> QED
    BY <2>5 DEF HasRing
<1>24. EntriesFit(p)'
  <2>1. \A e \in Entries : e \in Nat /\ (e <= n => e <= Size(k + 1)) /\ (e > Size(k + 1) => e > n)
    BY <1>6, EntriesAre
  <2> QED
    BY <1>1, <1>2, <1>11, <1>16, <1>18, <1>19, <2>1 DEF IndexFits, EntriesFit
<1>25. IndexFits(p)'
  <2>1. ASSUME NEW j \in 1 .. k PROVE Aligned(p, j)' /\ Full(p, j)'
    <3>1. Aligned(p, j)
      BY <1>1, <1>2, AllAligned
    <3>2. Full(p, j)
      <4>1. j = k \/ j \in 1 .. k - 1
        BY <1>2
      <4> QED
        BY <1>1, <1>2, <1>9, <4>1 DEF IndexFits
    <3>3. \A s, m : Holds(p, Slot(p, j, s), m)' <=> Holds(p, Slot(p, j, s), m)
      BY <1>11, <1>17 DEF Holds
    <3> QED
      BY <3>1, <3>2, <3>3 DEF Aligned, Full
  <2>2. 1 .. (k + 1) - 1 = 1 .. k
    BY <1>2
  <2> QED
    BY <1>16, <1>21, <1>23, <1>24, <2>1, <2>2 DEF IndexFits
<1>26. CallFits(p)'
  BY <1>1, <1>2, <1>11, <1>19 DEF CallFits
<1>27. BlocksFit(p)'
  BY <1>2, <1>7, <1>11, <1>18, <1>19 DEF BlocksFit, Halfway
<1>28. TailFits(p)'
  BY <1>2, <1>11, <1>18, <1>19 DEF TailFits
<1>29. ProducerFits(p)'
  BY <1>25, <1>26, <1>27, <1>28 DEF ProducerFits
<1>30. \A q, m : Unread(q, m)' = Unread(q, m)
  BY <1>11, RemainingStays, UnreadStays
<1>31. Kept(p)'
  BY <1>1, <1>2, <1>11, <1>18, <1>19, <1>30, KeptStays
<1>32. IndexMoves(p) /\ \A m : FindsSame(p, m)
  <2>1. \A j \in 1 .. k : blockIndex'[p][j].slots = blockIndex[p][j].slots
    BY <1>3, <1>15
  <2>2. \A m \in Nat : Whole(m - m, n)
    BY <1>6, WholeFacts
  <2>3. Newer(p)' \in Nat /\ Newer(p)' >= k
    BY <1>2, <1>16
  <2> QED
    BY <1>1, <1>11, <1>18, <2>1, <2>2, <2>3 DEF IndexMoves, FindsSame
<1>33. PlacesTyped'
  BY <1>11, <1>12 DEF PlacesInv, PlacesTyped
<1>34. HomesApart' /\ ListInv(InUse)'
  BY <1>11, HomesStay
<1>35. \A q \in Producers \ {p} : Still(q)
  BY <1>11, <1>12, OthersStill
<1> QED
  BY <1>11, <1>29, <1>31, <1>32, <1>33, <1>34, <1>35, ProducerFrame

\* A producer inserts block b, which no one else uses, where its call is to go on.
LEMMA UsePlaces ==
    ASSUME ClaimInv, PlacesInv, NEW p \in Producers, NEW b \in Blocks, pc[p] \in Halfway,
           pc' = [pc EXCEPT ![p] = "reserve"], Use(p, b), unused' = unused \ {b},
           UNCHANGED <<indices, blockIndex, key, data, tailBlock>>,
           b \notin Indexed, \A q \in Producers : b \notin Undone(q),
           NEW held, held = InUse \cup {b}, ListInv(held)'
    PROVE  PlacesInv'
<1>1. PICK a, x, got : a = Allocated(p) /\ x = loc[p].entry /\ got = loc[p].got
  OBVIOUS
<1>2. /\ elementsCompletelyDequeued' = [elementsCompletelyDequeued EXCEPT ![b] = 0]
      /\ value' = [value EXCEPT ![p][x] = b]
      /\ loc' = [loc EXCEPT ![p].got = Append(got, b), ![p].entry = 0]
  BY <1>1 DEF Use
<1>3. /\ IndexFits(p) /\ CallFits(p) /\ TailFits(p) /\ HeadersFit(p) /\ Newer(p) \in 1 .. Newer(p)
      /\ a \in Nat /\ FirstNew(p) \in Nat /\ FirstNew(p) <= a /\ BlocksFit(p) /\ Kept(p)
      /\ a = FirstNew(p) + Len(got) /\ got \in Seq(Blocks) /\ Len(got) \in Nat
      /\ Start(a) < tailIndex[p] + loc[p].n /\ loc[p].n >= 1
  <2>1. pc[p] \in Building
    BY DEF Building, Halfway
  <2>2. CallFits(p) /\ got \in Seq(Blocks)
    BY <1>1, ProducerKnown
  <2> QED
    BY <1>1, <2>1, <2>2, HeadBehind, ProducerKnown, AllocatedFacts DEF CallFits
<1>4. /\ x \in Entries /\ x = Newest(p) /\ Holds(p, x, a) /\ value[p][x] = Null
  BY <1>1, <1>3 DEF BlocksFit
<1>5. b # Null /\ DOMAIN loc[p] = Fields
  BY Assumed, HeadBehind
<1>6. /\ pc'[p] = "reserve" /\ loc'[p].got = Append(got, b) /\ loc'[p].n = loc[p].n
      /\ \A c \in Consumers : pc'[c] = pc[c] /\ loc'[c] = loc[c]
      /\ \A q \in Producers \ {p} : pc'[q] = pc[q] /\ loc'[q] = loc[q]
  <2>1. PICK call : call = [loc[p] EXCEPT !.got = Append(got, b), !.entry = 0]
    OBVIOUS
  <2>2. call.got = Append(got, b) /\ call.n = loc[p].n
    BY <1>5, <2>1 DEF Fields
  <2>3. loc' = [loc EXCEPT ![p] = call]
    BY <1>2, <2>1
  <2>4. loc'[p] = call /\ \A t \in Threads \ {p} : loc'[t] = loc[t]
    BY <2>3, ProducerCalled
  <2>5. /\ pc'[p] = "reserve" /\ \A t \in Threads \ {p} : pc'[t] = pc[t]
    BY ProducerMoved
  <2>6. \A t \in Producers \cup Consumers : t # p => t \in Threads \ {p}
    BY Assumed
  <2> QED
    BY <2>2, <2>4, <2>5, <2>6, Assumed
<1>7. /\ tailIndex' = tailIndex /\ headIndex' = headIndex /\ blockIndex' = blockIndex /\ key' = key
      /\ data' = data /\ tailBlock' = tailBlock
  BY DEF indices
<1>8. /\ value'[p][x] = b /\ \A e \in Entries \ {x} : value'[p][e] = value[p][e]
      /\ \A q \in Producers \ {p} : value'[q] = value[q]
      /\ value' \in [Producers -> [Entries -> Blocks \cup {Null}]]
  <2>1. value \in [Producers -> [Entries -> Blocks \cup {Null}]]
    BY DEF PlacesInv, PlacesTyped
  <2> QED
    BY <1>2, <1>4, <2>1
<1>9. /\ elementsCompletelyDequeued'[b] = 0
      /\ \A d \in Blocks \ {b} : elementsCompletelyDequeued'[d] = elementsCompletelyDequeued[d]
      /\ elementsCompletelyDequeued' \in [Blocks -> Nat]
  BY <1>2 DEF PlacesInv, PlacesTyped
<1>10. \A q \in Producers, e \in Entries : value[q][e] # Null => value[q][e] \in Blocks \ {b}
  <2>1. \A q \in Producers, e \in Entries : value[q][e] # Null => value[q][e] \in Blocks
    BY DEF PlacesInv, PlacesTyped
  <2> QED
    BY <2>1 DEF Indexed
<1>11. \A q \in Producers : StillIndexed(q)
  BY <1>7 DEF StillIndexed
<1>12. /\ Newer(p)' = Newer(p) /\ Current(p)' = Current(p)
       /\ \A k, s : Slot(p, k, s)' = Slot(p, k, s)
       /\ \A e, m : Holds(p, e, m)' <=> Holds(p, e, m)
       /\ HeadersFit(p)' <=> HeadersFit(p)
       /\ \A k : (Aligned(p, k)' <=> Aligned(p, k)) /\ (Full(p, k)' <=> Full(p, k))
  BY <1>11, StillEntries
<1>13. /\ \A e \in Entries \ {x}, m \in Nat : Finds(p, e, m)' <=> Finds(p, e, m)
       /\ \A m \in Nat : Finds(p, x, m)' <=> m = a
       /\ \A m \in Nat : ~Finds(p, x, m)
  <2>1. \A m \in Nat : Holds(p, x, m) => m = a
    BY <1>3, <1>4, NumberOnce
  <2> QED
    BY <1>3, <1>4, <1>5, <1>8, <1>12, <2>1 DEF Finds
<1>14. \A e \in Entries, m \in Nat : Finds(p, e, m) => Finds(p, e, m)' /\ value'[p][e] = value[p][e]
  BY <1>8, <1>13
<1>15. Len(loc'[p].got) = Len(got) + 1 /\ loc'[p].got \in Seq(Blocks)
       /\ loc'[p].got[Len(got) + 1] = b /\ \A j \in 1 .. Len(got) : loc'[p].got[j] = got[j]
  BY <1>3, <1>6
<1>16. FirstNew(p)' = FirstNew(p) /\ Allocated(p)' = a + 1
  <2>1. FirstNew(p)' = FirstNew(p)
    BY <1>7 DEF FirstNew
  <2>2. Reserved(p)' = Len(got) + 1
    BY <1>6, <1>15 DEF Reserved, Building
  <2>3. Allocated(p)' = FirstNew(p) + (Len(got) + 1)
    BY <2>1, <2>2 DEF Allocated
  <2> QED
    BY <1>3, <2>1, <2>3
<1>17. Last(p) = a /\ Last(p)' = a /\ Written(p)' = tailIndex[p] /\ Written(p) = tailIndex[p]
  <2>1. Last(p) = a
    BY <1>1 DEF Last
  <2>2. Last(p)' = a
    BY <1>3, <1>6, <1>16 DEF Last, Halfway
  <2>3. tailIndex[p] \in Nat
    BY HeadBehind
  <2> QED
    BY <1>6, <1>7, <2>1, <2>2, <2>3 DEF Written, Halfway
<1>18. AtTail(p)'
  BY <1>3, <1>12, <1>17 DEF IndexFits, AtTail
<1>19. HasRing(p)'
  <2>1. PICK lo, hi : Ring(p, lo, hi)
    BY <1>3 DEF IndexFits, HasRing
  <2>2. /\ lo \in Nat /\ hi \in Int /\ lo <= FirstNew(p) /\ a <= hi /\ hi - lo < Size(Newer(p))
    BY <1>17, <2>1 DEF Ring
  <2>3. /\ lo <= FirstNew(p)' /\ Allocated(p)' - 1 <= hi /\ Last(p)' <= hi
    BY <1>3, <1>16, <1>17, <2>2
  <2>4. Ring(p, lo, hi)'
    BY <1>12, <2>1, <2>2, <2>3 DEF Ring
  <2> QED
    BY <2>4 DEF HasRing
<1>20. EntriesFit(p)'
  <2> SUFFICES ASSUME NEW e \in Entries
               PROVE  /\ key[p][e] = InvalidBase \/ \E m \in Nat : Holds(p, e, m)
                      /\ value'[p][e] # Null =>
                            e <= Size(Newer(p)) /\ \E m \in Nat : m < a + 1 /\ Holds(p, e, m)
                      /\ e > Size(Newer(p)) => key[p][e] = InvalidBase
    BY <1>7, <1>12, <1>16 DEF EntriesFit
  <2>1. /\ key[p][e] = InvalidBase \/ \E m \in Nat : Holds(p, e, m)
        /\ value[p][e] # Null => e <= Size(Newer(p)) /\ \E m \in Nat : m < a /\ Holds(p, e, m)
        /\ e > Size(Newer(p)) => key[p][e] = InvalidBase
    BY <1>1, <1>3 DEF IndexFits, EntriesFit
  <2>2. Size(Newer(p)) \in Nat /\ e \in Nat
    BY <1>3, HeaderFacts, EntriesAre
  <2>3. CASE e = x
    <3>1. key[p][e] # InvalidBase
      <4>1. key[p][e] = Start(a)
        BY <1>4, <2>3 DEF Holds
      <4>2. Start(a) # InvalidBase
        BY <1>3, StartFacts
      <4> QED
        BY <4>1, <4>2
    <3>2. e <= Size(Newer(p))
      BY <2>1, <2>2, <3>1
    <3>3. a < a + 1
      BY <1>3
    <3> QED
      BY <1>3, <1>4, <2>1, <2>3, <3>2, <3>3
  <2>4. CASE e # x
    <3>1. \A m \in Nat : m < a => m < a + 1
      BY <1>3
    <3> QED
      BY <1>8, <2>1, <2>4, <3>1
  <2> QED
    BY <2>3, <2>4
<1>21. IndexFits(p)'
  BY <1>3, <1>12, <1>18, <1>19, <1>20 DEF IndexFits
<1>22. CallFits(p)'
  <2>1. Allocated(p)' - 1 = a
    BY <1>3, <1>16
  <2> QED
    BY <1>3, <1>6, <1>7, <1>15, <2>1 DEF CallFits, Building, Halfway
<1>23. BlocksFit(p)'
  <2>1. ASSUME NEW j \in 1 .. Len(got) + 1
        PROVE  \E e \in Entries : Finds(p, e, FirstNew(p) + j - 1)' /\ value'[p][e] = loc'[p].got[j]
    <3>1. PICK m \in Nat : m = FirstNew(p) + j - 1
      BY <1>3
    <3>2. (FirstNew(p) + j - 1)' = m
      BY <1>16, <3>1
    <3>3. \E e \in Entries : Finds(p, e, m)' /\ value'[p][e] = loc'[p].got[j]
      <4>1. CASE j = Len(got) + 1
        <5>1. m = a
          BY <1>3, <3>1, <4>1
        <5> QED
          BY <1>4, <1>8, <1>13, <1>15, <4>1, <5>1
      <4>2. CASE j # Len(got) + 1
        <5>1. j \in 1 .. Len(got)
          BY <1>3, <4>2
        <5>2. PICK e \in Entries : Finds(p, e, m) /\ value[p][e] = got[j]
          BY <1>1, <1>3, <3>1, <5>1 DEF BlocksFit, Building, Halfway
        <5> QED
          BY <1>14, <1>15, <5>1, <5>2
      <4> QED
        BY <4>1, <4>2
    <3> QED
      BY <3>2, <3>3 DEF Finds, Holds
  <2> QED
    BY <1>6, <1>15, <2>1 DEF BlocksFit, Halfway
<1>24. TailFits(p)'
  BY <1>3, <1>7, <1>14, <1>17 DEF TailFits
<1>25. ProducerFits(p)'
  BY <1>21, <1>22, <1>23, <1>24 DEF ProducerFits
<1>26. \A q, m : Unread(q, m)' = Unread(q, m)
  BY <1>6, <1>7, RemainingStays, UnreadStays
<1>27. Kept(p)'
  <2> SUFFICES ASSUME NEW m \in Nat, m < a + 1, Unread(p, m) # {}
               PROVE  \E e \in Entries : Stores(p, e, m)'
    BY <1>16, <1>26 DEF Kept
  <2>1. CASE m < a
    <3>1. PICK e \in Entries : Stores(p, e, m)
      BY <1>1, <1>3, <2>1 DEF Kept
    <3>2. /\ Finds(p, e, m)' /\ value'[p][e] = value[p][e]
          /\ elementsCompletelyDequeued'[value[p][e]] = elementsCompletelyDequeued[value[p][e]]
      BY <1>9, <1>10, <1>14, <3>1 DEF Stores, Finds
    <3>3. Stores(p, e, m)'
      BY <1>7, <1>17, <1>26, <3>1, <3>2 DEF Stores
    <3> QED
      BY <3>3
  <2>2. CASE m = a
    <3>1. PICK h \in Nat, t \in Nat : h = headIndex[p] /\ t = tailIndex[p] /\ h <= t
      BY HeadBehind
    <3>2. t <= Start(a)
      <4>1. t <= Start(FirstNew(p)) /\ Start(FirstNew(p)) \in Nat
        BY <3>1, FirstNewFacts
      <4>2. FirstNew(p) < a => Start(FirstNew(p)) + BlockSize <= Start(a)
        BY <1>3, StartFacts
      <4>3. Start(a) \in Nat /\ BlockSize \in Nat
        BY <1>3, StartNat, BlockSizeFact
      <4> QED
        BY <1>3, <3>1, <4>1, <4>2, <4>3
    <3>3. \A i \in Cells(a) : i \in Nat /\ i >= h /\ ~(i < t)
      <4>1. Start(a) \in Nat
        BY <1>3, StartNat
      <4> QED
        BY <3>1, <3>2, <4>1, BlockSizeFact DEF Cells
    <3>4. Unread(p, a) = Cells(a)
      BY <3>1, <3>3 DEF Unread
    <3>5. Unread(p, a)' = Cells(a)
      BY <1>26, <3>4
    <3>6. Cardinality(Cells(a)) = BlockSize /\ BlockSize \in Nat
      BY <1>3, CellsFacts, BlockSizeFact
    <3>7. elementsCompletelyDequeued'[value'[p][x]] = BlockSize - Cardinality(Cells(a))
      BY <1>8, <1>9, <3>6
    <3>8. Finds(p, x, a)'
      BY <1>3, <1>13
    <3>9. \A i \in Cells(a) : ~(i < Written(p)')
      BY <1>17, <3>1, <3>3
    <3>10. Stores(p, x, a)'
      BY <3>5, <3>7, <3>8, <3>9 DEF Stores
    <3> QED
      BY <1>4, <2>2, <3>10
  <2> QED
    BY <1>3, <2>1, <2>2
<1>28. IndexMoves(p)
  <2>1. Size(Newer(p)) \in Nat /\ Newer(p) \in Nat
    BY <1>3, HeaderFacts
  <2>2. \A m \in Nat : Whole(m - m, Size(Newer(p)))
    BY <2>1, WholeFacts
  <2> QED
    BY <1>7, <1>12, <2>1, <2>2 DEF IndexMoves
<1>29. \A m \in Nat : m < FirstNew(p) => FindsSame(p, m)
  <2>1. \A m \in Nat : m < FirstNew(p) => m # a
    BY <1>3
  <2> QED
    BY <1>8, <1>13, <2>1 DEF FindsSame
<1>30. PlacesTyped'
  BY <1>7, <1>8, <1>9 DEF PlacesInv, PlacesTyped
<1>31. Indexed' = Indexed \cup {b}
  <2>1. ASSUME NEW d \in Blocks PROVE d \in Indexed' <=> d \in Indexed \cup {b}
    <3>1. ASSUME NEW q \in Producers, NEW e \in Entries, value[q][e] = d
          PROVE  value'[q][e] = d
      BY <1>4, <1>8, <3>1, Assumed
    <3>2. ASSUME NEW q \in Producers, NEW e \in Entries, value'[q][e] = d, d # b
          PROVE  value[q][e] = d
      BY <1>8, <3>2
    <3> QED
      BY <1>4, <1>8, <3>1, <3>2 DEF Indexed
  <2> QED
    BY <2>1 DEF Indexed
<1>32. \A q \in Producers : Undone(q)' = Undone(q)
  <2>1. Undone(p) = {} /\ Undone(p)' = {}
    BY <1>6 DEF Undone, Halfway
  <2>2. ASSUME NEW q \in Producers, q # p PROVE Undone(q)' = Undone(q)
    <3>1. pc'[q] = pc[q] /\ loc'[q] = loc[q]
      BY <1>6, <2>2
    <3> QED
      BY <3>1 DEF Undone
  <2> QED
    BY <2>1, <2>2
<1>33. HomesApart'
  <2>1. ASSUME NEW q \in Producers, NEW r \in Producers, NEW e \in Entries, NEW f \in Entries,
               value'[q][e] = value'[r][f], value'[q][e] # Null
        PROVE  q = r /\ e = f
    <3>1. \A s \in Producers, g \in Entries : (s = p /\ g = x) \/ value'[s][g] = value[s][g]
      BY <1>8
    <3>2. \A s \in Producers, g \in Entries : value[s][g] # b
      BY <1>5, <1>10
    <3>3. CASE q = p /\ e = x
      BY <1>8, <2>1, <3>1, <3>2, <3>3
    <3>4. CASE r = p /\ f = x
      BY <1>8, <2>1, <3>1, <3>2, <3>4
    <3>5. CASE ~(q = p /\ e = x) /\ ~(r = p /\ f = x)
      <4>1. value[q][e] = value[r][f] /\ value[q][e] # Null
        BY <2>1, <3>1, <3>5
      <4> QED
        BY <4>1 DEF PlacesInv, HomesApart
    <3> QED
      BY <3>3, <3>4, <3>5
  <2>2. unused' \cap Indexed' = {}
    BY <1>31 DEF PlacesInv, HomesApart
  <2>3. \A q \in Producers :
          /\ Undone(q)' \cap (unused' \cup Indexed') = {}
          /\ \A r \in Producers : Undone(q)' \cap Undone(r)' # {} => q = r
    BY <1>31, <1>32 DEF PlacesInv, HomesApart
  <2>4. \A q \in Producers :
          pc'[q] = "free" =>
             \A i, j \in DOMAIN loc'[q].got : loc'[q].got[i] = loc'[q].got[j] => i = j
    BY <1>6 DEF PlacesInv, HomesApart
  <2> QED
    BY <2>1, <2>2, <2>3, <2>4 DEF HomesApart
<1>34. InUse' = held
  <2>1. UNION {Undone(q)' : q \in Producers} = UNION {Undone(q) : q \in Producers}
    BY <1>32
  <2> QED
    BY <1>31, <2>1 DEF InUse
<1>35. ListInv(InUse)'
  BY <1>34, InUseBecomes
<1>36. \A q \in Producers \ {p} : Still(q)
  BY <1>6, <1>7, <1>8, OthersStill
<1>37. \A q \in Producers \ {p}, e \in Entries : value[q][e] # Null =>
          /\ elementsCompletelyDequeued'[value[q][e]] = elementsCompletelyDequeued[value[q][e]]
          /\ \A s \in 0 .. BlockSize - 1 : data'[value[q][e]][s] = data[value[q][e]][s]
  BY <1>7, <1>9, <1>10
<1> QED
  BY <1>6, <1>7, <1>25, <1>27, <1>28, <1>29, <1>30, <1>33, <1>35, <1>36, <1>37, ProducerFrame

LEMMA FromPoolPlaces ==
    ASSUME ClaimInv, PlacesInv, NEW p \in Producers, FromPool(p)
    PROVE  PlacesInv'
<1>1. PICK b \in unused \cap Pool : Use(p, b) /\ unused' = unused \ {b}
  BY DEF FromPool
<1>2. /\ pc[p] = "block" /\ pc' = [pc EXCEPT ![p] = "reserve"]
      /\ UNCHANGED <<freeList, indices, blockIndex, key, data, tailBlock>>
  BY DEF FromPool, Go
<1>3. /\ b \in Blocks /\ b \notin Indexed /\ \A q \in Producers : b \notin Undone(q)
      /\ b \in InUse
  BY DEF PlacesInv, HomesApart, PlacesTyped, InUse
<1>4. PICK held : held = InUse \cup {b}
  OBVIOUS
<1>5. ListInv(held)'
  <2>1. ListInv(held)
    <3>1. held = InUse
      BY <1>3, <1>4
    <3> QED
      BY <3>1 DEF PlacesInv
  <2> QED
    BY <1>2, <2>1, ListStutter
<1> QED
  BY <1>1, <1>2, <1>3, <1>4, <1>5, UsePlaces DEF Halfway

LEMMA FromHeapPlaces ==
    ASSUME ClaimInv, PlacesInv, NEW p \in Producers, FromHeap(p)
    PROVE  PlacesInv'
<1>1. PICK b \in unused : Use(p, b) /\ unused' = unused \ {b}
  BY DEF FromHeap
<1>2. /\ pc[p] = "list" /\ pc' = [pc EXCEPT ![p] = "reserve"] /\ EndTryGet(p) /\ Cand(p) = Null
      /\ UNCHANGED <<indices, blockIndex, key, data, tailBlock>>
  BY DEF FromHeap, Go
<1>3. /\ b \in Blocks /\ b \notin Indexed /\ \A q \in Producers : b \notin Undone(q)
      /\ b \in InUse
  BY DEF PlacesInv, HomesApart, PlacesTyped, InUse
<1>4. PICK held : held = InUse \cup {b}
  OBVIOUS
<1>5. ListInv(held)'
  <2>1. ListInv(held) /\ held = held \cup ({Cand(p)} \ {Null})
    <3>1. held = InUse
      BY <1>3, <1>4
    <3> QED
      BY <1>2, <3>1 DEF PlacesInv
  <2>2. p \in Threads
    BY HeadBehind
  <2> QED
    BY <1>2, <2>1, <2>2, EndTryGetStep
<1> QED
  BY <1>1, <1>2, <1>3, <1>4, <1>5, UsePlaces DEF Halfway

LEMMA GotBlockPlaces ==
    ASSUME ClaimInv, PlacesInv, NEW p \in Producers, GotBlock(p)
    PROVE  PlacesInv'
<1>1. PICK b : b = Cand(p)
  OBVIOUS
<1>2. /\ pc[p] = "list" /\ pc' = [pc EXCEPT ![p] = "reserve"] /\ EndTryGet(p)
      /\ b # Null /\ Use(p, b) /\ unused' = unused
      /\ UNCHANGED <<indices, blockIndex, key, data, tailBlock>>
  BY <1>1 DEF GotBlock, Go
<1>3. PICK before, held : before = InUse /\ held = InUse \cup {b}
  OBVIOUS
<1>4. p \in Threads /\ ListInv(before)
  BY <1>3, HeadBehind DEF PlacesInv
<1>5. b \in Blocks
  <2>1. Cand(p) \in Blocks \cup {Null}
    BY <1>4, LocalFacts DEF ListInv, ListCore
  <2> QED
    BY <1>1, <1>2, <2>1
<1>6. ListInv(held)' /\ b \notin before
  <2>1. held = before \cup ({Cand(p)} \ {Null})
    BY <1>1, <1>2, <1>3
  <2> QED
    BY <1>1, <1>2, <1>4, <2>1, EndTryGetStep
<1>7. b \notin unused /\ b \notin Indexed /\ \A q \in Producers : b \notin Undone(q)
  BY <1>3, <1>6 DEF InUse
<1>8. unused' = unused \ {b}
  BY <1>2, <1>7
<1> QED
  BY <1>2, <1>3, <1>5, <1>6, <1>7, <1>8, UsePlaces DEF Halfway

\* The index once the tail has gone back by j entries and the last number with it.
LEMMA RewoundFacts ==
    ASSUME ClaimInv, PlacesInv, NEW p \in Producers, NEW j \in Nat,
           blockIndex' = Rewound(p, j), key' = key,
           Last(p)' = Last(p) - j, FirstNew(p)' = FirstNew(p),
           Allocated(p)' \in Nat, Allocated(p)' <= Allocated(p)
    PROVE  /\ DOMAIN blockIndex' = Producers
           /\ \A q \in Producers \ {p} : blockIndex'[q] = blockIndex[q]
           /\ Newer(p)' = Newer(p)
           /\ \A e \in Entries : \A m : Holds(p, e, m)' <=> Holds(p, e, m)
           /\ IndexMoves(p)
           /\ EntriesFit(p)' => IndexFits(p)'
<1>1. PICK k, h : k = Newer(p) /\ h = Current(p)
  OBVIOUS
<1>2. /\ IndexFits(p) /\ HeadersFit(p) /\ k \in 1 .. Newer(p) /\ k \in Nat \ {0}
      /\ Last(p) \in Int /\ FirstNew(p) \in Nat /\ Allocated(p) \in Nat
  BY <1>1, ProducerKnown
<1>3. PICK N \in Nat : N = Size(k) /\ N >= 1
  BY <1>2, SizeFacts
<1>4. PICK t \in Nat : t = h.tail /\ t \in Places(k)
  BY <1>1, <1>2, HeaderFacts DEF Current, Newer
<1>5. PICK to : to = Later(h, t, -j)
  OBVIOUS
<1>6. to \in Places(k) /\ Whole(to - (t - j), N) /\ to \in Nat
  <2>1. DOMAIN h.slots = Places(k) /\ Places(k) \subseteq Nat
    BY <1>1, <1>2, HeaderFacts DEF Current, Newer
  <2>2. DOMAIN h.slots = Places(k) /\ t \in Int /\ -j \in Int /\ k \in Nat \ {0}
    BY <1>2, <1>4, <2>1
  <2>3. to \in Places(k) /\ Whole(to - (t + (-j)), Size(k))
    BY ONLY <1>5, <2>2, LaterFacts
  <2>4. t + (-j) = t - j
    OBVIOUS
  <2> QED
    BY <1>3, <2>1, <2>3, <2>4
<1>7. DOMAIN blockIndex = Producers
  BY DEF PlacesInv, PlacesTyped
<1>8. TailGoes(p, k, to)
  BY <1>1, <1>2, <1>4, <1>5, <1>7 DEF TailGoes, Rewound, Newer, Current
<1>9. /\ p \in Producers /\ DOMAIN blockIndex = Producers /\ HeadersFit(p) /\ k = Newer(p)
      /\ to \in Places(k) /\ TailGoes(p, k, to)
  BY <1>1, <1>2, <1>6, <1>7, <1>8
<1>10. /\ DOMAIN blockIndex' = Producers
       /\ \A q \in Producers \ {p} : blockIndex'[q] = blockIndex[q]
       /\ HeadersFit(p)' /\ Newer(p)' = k /\ Current(p)'.tail = to
       /\ \A i \in 1 .. k : /\ blockIndex'[p][i].slots = blockIndex[p][i].slots
                            /\ \A s : Slot(p, i, s)' = Slot(p, i, s)
  BY ONLY <1>9, TailMoves
<1>11. \A e, m : Holds(p, e, m)' <=> Holds(p, e, m)
  BY DEF Holds
<1>12. IndexMoves(p)
  <2>1. \A m \in Nat : Whole(m - m, N)
    BY WholeFacts
  <2> QED
    BY <1>1, <1>2, <1>3, <1>10, <1>11, <2>1 DEF IndexMoves
<1>13. \A i \in 1 .. k : \A s, m : Holds(p, Slot(p, i, s), m)' <=> Holds(p, Slot(p, i, s), m)
  BY <1>10 DEF Holds
<1>14. AtTail(p)'
  <2>1. \A s \in Places(k), m \in Nat : Holds(p, Slot(p, k, s), m)
            => Whole((m - s) - (Last(p)' - to), N)
    <3> SUFFICES ASSUME NEW s \in Places(k), NEW m \in Nat, Holds(p, Slot(p, k, s), m)
                 PROVE  Whole((m - s) - (Last(p)' - to), N)
      OBVIOUS
    <3>1. PICK l \in Int : l = Last(p)
      BY <1>2
    <3>2. Whole((m - s) - (l - t), N)
      BY <1>1, <1>2, <1>3, <1>4, <3>1 DEF IndexFits, AtTail
    <3>3. s \in Nat
      BY <1>1, <1>2, HeaderFacts
    <3>4. /\ (m - s) - ((l - j) - to) = ((m - s) - (l - t)) + (to - (t - j))
          /\ (m - s) - ((l - j) - to) \in Int /\ (m - s) - (l - t) \in Int /\ to - (t - j) \in Int
      BY <1>4, <1>6, <3>1, <3>3
    <3>5. Whole((m - s) - ((l - j) - to), N)
      BY <1>6, <3>2, <3>4, WholeSum
    <3> QED
      BY <3>1, <3>5
  <2>2. k \in 1 .. k
    BY <1>2
  <2> QED
    BY <1>3, <1>10, <1>13, <2>1, <2>2 DEF AtTail
<1>15. HasRing(p)'
  <2>1. PICK lo, hi : Ring(p, lo, hi)
    BY <1>2 DEF IndexFits, HasRing
  <2>2. k \in 1 .. k
    BY <1>2
  <2>3. /\ lo \in Nat /\ hi \in Int /\ lo <= FirstNew(p) /\ Allocated(p) - 1 <= hi /\ Last(p) <= hi
        /\ hi - lo < N
    BY <1>1, <1>3, <2>1 DEF Ring
  <2>4. Allocated(p)' - 1 <= hi /\ Last(p)' <= hi
    BY <1>2, <2>3
  <2>5. Ring(p, lo, hi)'
    BY <1>1, <1>3, <1>10, <1>13, <2>1, <2>2, <2>3, <2>4 DEF Ring
  <2> QED
    BY <2>5 DEF HasRing
<1>16. ASSUME NEW i \in 1 .. k - 1 PROVE Aligned(p, i)' /\ Full(p, i)'
  <2>1. i \in 1 .. k /\ Aligned(p, i) /\ Full(p, i)
    BY <1>1, <1>2 DEF IndexFits
  <2> QED
    BY <1>13, <2>1 DEF Aligned, Full
<1> QED
  BY <1>1, <1>10, <1>11, <1>12, <1>14, <1>15, <1>16 DEF IndexFits

LEMMA NoBlockPlaces ==
    ASSUME ClaimInv, PlacesInv, NEW p \in Producers, NoBlock(p)
    PROVE  PlacesInv'
<1>1. PICK a, x : a = Allocated(p) /\ x = loc[p].entry
  OBVIOUS
<1>2. /\ pc[p] = "list" /\ pc' = [pc EXCEPT ![p] = "undo"] /\ EndTryGet(p) /\ Cand(p) = Null
      /\ blockIndex' = Rewound(p, 1) /\ value' = [value EXCEPT ![p][x] = Null]
      /\ UNCHANGED <<indices, key, blocks, loc, tailBlock>>
  BY <1>1 DEF NoBlock, Go
<1>3. /\ pc'[p] = "undo" /\ \A c \in Consumers : pc'[c] = pc[c] /\ loc'[c] = loc[c]
      /\ \A q \in Producers \ {p} : pc'[q] = pc[q] /\ loc'[q] = loc[q]
  BY <1>2, ProducerMoved, Assumed
<1>4. /\ tailIndex' = tailIndex /\ headIndex' = headIndex /\ unused' = unused /\ data' = data
      /\ elementsCompletelyDequeued' = elementsCompletelyDequeued /\ tailBlock' = tailBlock
      /\ key' = key /\ loc' = loc
  BY <1>2 DEF indices, blocks
<1>5. /\ FirstNew(p) \in Nat /\ CallFits(p) /\ BlocksFit(p) /\ TailFits(p) /\ Kept(p)
      /\ IndexFits(p) /\ Newer(p) \in Nat \ {0} /\ a \in Nat
      /\ FirstNew(p) <= Allocated(p)
  BY <1>1, ProducerKnown
<1>6. value' = value
  <2>1. value[p][x] = Null
    BY <1>1, <1>2, <1>5 DEF BlocksFit, Halfway
  <2>2. value \in [Producers -> [Entries -> Blocks \cup {Null}]]
    BY DEF PlacesInv, PlacesTyped
  <2> QED
    BY <1>2, <2>1, <2>2
<1>7. FirstNew(p)' = FirstNew(p) /\ Reserved(p)' = Reserved(p)
  BY <1>2, <1>3, <1>4 DEF FirstNew, Reserved, Building
<1>8. Allocated(p)' = a /\ Last(p)' = Last(p) - 1 /\ Written(p)' = Written(p)
  <2>1. Allocated(p)' = a
    BY <1>1, <1>7 DEF Allocated
  <2> QED
    BY <1>1, <1>2, <1>3, <1>4, <1>5, <2>1 DEF Last, Written, Halfway
<1>9. /\ DOMAIN blockIndex' = Producers
      /\ \A q \in Producers \ {p} : blockIndex'[q] = blockIndex[q]
      /\ Newer(p)' = Newer(p)
      /\ \A e \in Entries : \A m : Holds(p, e, m)' <=> Holds(p, e, m)
      /\ IndexMoves(p)
      /\ EntriesFit(p)' => IndexFits(p)'
  <2>1. Allocated(p)' \in Nat /\ Allocated(p)' <= Allocated(p)
    BY <1>1, <1>5, <1>8
  <2> QED
    BY <1>2, <1>4, <1>7, <1>8, <2>1, RewoundFacts
<1>10. \A e \in Entries : \A m : Finds(p, e, m)' <=> Finds(p, e, m)
  BY <1>6, <1>9 DEF Finds
<1>11. EntriesFit(p)'
  BY <1>1, <1>4, <1>5, <1>6, <1>8, <1>9 DEF IndexFits, EntriesFit
<1>12. CallFits(p)'
  BY <1>1, <1>2, <1>3, <1>4, <1>5, <1>8 DEF CallFits, Building, Halfway
<1>13. BlocksFit(p)'
  <2>1. ASSUME NEW i \in 1 .. Len(loc[p].got)
        PROVE  \E e \in Entries : Finds(p, e, FirstNew(p) + i - 1)' /\ value'[p][e] = loc'[p].got[i]
    <3>1. PICK m : m = FirstNew(p) + i - 1
      OBVIOUS
    <3>2. (FirstNew(p) + i - 1)' = m
      BY <1>7, <3>1
    <3>3. PICK e \in Entries : Finds(p, e, m) /\ value[p][e] = loc[p].got[i]
      BY <1>2, <1>5, <3>1 DEF BlocksFit, Building
    <3>4. Finds(p, e, m)' /\ value'[p][e] = loc'[p].got[i]
      BY <1>4, <1>6, <1>10, <3>3
    <3> QED
      BY <3>2, <3>4 DEF Finds, Holds
  <2> QED
    BY <1>3, <1>4, <2>1 DEF BlocksFit, Halfway
<1>14. TailFits(p)'
  BY <1>4, <1>5, <1>6, <1>8, <1>10 DEF TailFits
<1>15. ProducerFits(p)'
  BY <1>9, <1>11, <1>12, <1>13, <1>14 DEF ProducerFits
<1>16. \A q, m : Unread(q, m)' = Unread(q, m)
  BY <1>3, <1>4, RemainingStays, UnreadStays
<1>17. Kept(p)'
  BY <1>1, <1>4, <1>5, <1>6, <1>8, <1>10, <1>16, KeptStays
<1>18. \A m \in Nat : FindsSame(p, m)
  BY <1>6, <1>10 DEF FindsSame
<1>19. PlacesTyped'
  BY <1>4, <1>6, <1>9 DEF PlacesInv, PlacesTyped
<1>20. \A q \in Producers \ {p} : Still(q)
  BY <1>3, <1>4, <1>6, <1>9, OthersStill
<1>21. HomesApart' /\ ListInv(InUse)'
  <2>1. \A q \in Producers : Undone(q)' = Undone(q)
    <3>1. ASSUME NEW q \in Producers PROVE Undone(q)' = Undone(q)
      <4>1. (pc'[q] = "free" <=> pc[q] = "free") /\ loc'[q] = loc[q]
        BY <1>2, <1>3, <1>4
      <4> QED
        BY <4>1 DEF Undone
    <3> QED
      BY <3>1
  <2>2. Indexed' = Indexed /\ InUse' = InUse
    BY <1>4, <1>6, <2>1 DEF Indexed, InUse
  <2>3. HomesApart'
    <3>1. \A q \in Producers : pc'[q] = "free" => pc[q] = "free"
      BY <1>3
    <3> QED
      BY <1>4, <1>6, <2>1, <2>2, <3>1 DEF PlacesInv, HomesApart
  <2>4. PICK held : held = InUse
    OBVIOUS
  <2>5. ListInv(held)'
    <3>1. ListInv(held) /\ p \in Threads /\ held = held \cup ({Cand(p)} \ {Null})
      BY <1>2, <2>4, HeadBehind DEF PlacesInv
    <3> QED
      BY <1>2, <3>1, EndTryGetStep
  <2> QED
    BY <2>2, <2>3, <2>4, <2>5, InUseBecomes
<1> QED
  BY <1>3, <1>4, <1>9, <1>15, <1>17, <1>18, <1>19, <1>20, <1>21, ProducerFrame

LEMMA UndoIndexPlaces ==
    ASSUME ClaimInv, PlacesInv, NEW p \in Producers, UndoIndex(p)
    PROVE  PlacesInv'
<1> DEFINE mine(e) == \E i \in DOMAIN loc[p].got : value[p][e] = loc[p].got[i]
<1>1. PICK f, got, L : f = FirstNew(p) /\ got = loc[p].got /\ L = Len(got)
  OBVIOUS
<1>2. /\ pc[p] = "undo" /\ pc' = [pc EXCEPT ![p] = "free"]
      /\ value' = [value EXCEPT ![p] = [e \in Entries |-> IF mine(e) THEN Null ELSE @[e]]]
      /\ blockIndex' = Rewound(p, L)
      /\ UNCHANGED <<freeList, indices, key, blocks, loc, tailBlock>>
  BY <1>1 DEF UndoIndex, Go
<1>3. /\ pc'[p] = "free" /\ \A c \in Consumers : pc'[c] = pc[c] /\ loc'[c] = loc[c]
      /\ \A q \in Producers \ {p} : pc'[q] = pc[q] /\ loc'[q] = loc[q]
  BY <1>2, ProducerMoved, Assumed
<1>4. /\ tailIndex' = tailIndex /\ headIndex' = headIndex /\ unused' = unused /\ data' = data
      /\ elementsCompletelyDequeued' = elementsCompletelyDequeued /\ tailBlock' = tailBlock
      /\ key' = key /\ loc' = loc /\ freeList' = freeList
  BY <1>2 DEF indices, blocks
<1>5. /\ f \in Nat /\ CallFits(p) /\ BlocksFit(p) /\ TailFits(p) /\ Kept(p)
      /\ IndexFits(p) /\ Newer(p) \in Nat \ {0} /\ got \in Seq(Blocks) /\ L \in Nat
      /\ DOMAIN got = 1 .. L /\ Allocated(p) = f + L /\ Last(p) = f + L - 1 /\ Last(p) \in Int
  <2>1. /\ f \in Nat /\ CallFits(p) /\ BlocksFit(p) /\ TailFits(p) /\ Kept(p)
        /\ IndexFits(p) /\ Newer(p) \in Nat \ {0} /\ got \in Seq(Blocks) /\ Last(p) \in Int
    BY <1>1, ProducerKnown
  <2>2. Allocated(p) = f + L
    BY <1>1, <1>2 DEF Allocated, Reserved, Building
  <2>3. Last(p) = f + L - 1
    <3>1. pc[p] \notin Halfway
      BY <1>2 DEF Halfway
    <3>2. Last(p) = Allocated(p) - 1
      BY <3>1 DEF Last
    <3>3. f \in Nat /\ L \in Nat
      BY <1>1, <2>1
    <3> QED
      BY <2>2, <3>2, <3>3
  <2> QED
    BY <1>1, <2>1, <2>2, <2>3
<1>6. /\ \A q \in Producers \ {p} : value'[q] = value[q]
      /\ \A e \in Entries : value'[p][e] = IF mine(e) THEN Null ELSE value[p][e]
      /\ value' \in [Producers -> [Entries -> Blocks \cup {Null}]]
  <2>1. value \in [Producers -> [Entries -> Blocks \cup {Null}]]
    BY DEF PlacesInv, PlacesTyped
  <2> HIDE DEF mine
  <2>2. /\ \A q \in Producers \ {p} : value'[q] = value[q]
        /\ value'[p] = [e \in Entries |-> IF mine(e) THEN Null ELSE value[p][e]]
        /\ DOMAIN value' = Producers
    BY <1>2, <2>1
  <2>3. [e \in Entries |-> IF mine(e) THEN Null ELSE value[p][e]] \in [Entries -> Blocks \cup {Null}]
    BY <2>1
  <2>4. value' \in [Producers -> [Entries -> Blocks \cup {Null}]]
    <3>1. \A q \in Producers : value'[q] \in [Entries -> Blocks \cup {Null}]
      BY <2>1, <2>2, <2>3
    <3>2. value' = [q \in Producers |-> value'[q]]
      BY <1>2, <2>1
    <3> QED
      BY <3>1, <3>2
  <2> QED
    BY <2>2, <2>4
\* The entries of the blocks of the call are those of the numbers from f on.
<1>7. \A i \in 1 .. L : got[i] \in Blocks /\ got[i] # Null
                        /\ \E e \in Entries : Finds(p, e, f + i - 1) /\ value[p][e] = got[i]
  <2>1. \A i \in 1 .. L : got[i] \in Blocks /\ Null \notin Blocks
    BY <1>5, Assumed
  <2>2. \A i \in 1 .. L : \E e \in Entries : Finds(p, e, f + i - 1) /\ value[p][e] = got[i]
    BY <1>1, <1>2, <1>5 DEF BlocksFit, Building
  <2> QED
    BY <2>1, <2>2
<1>8. \A e \in Entries : mine(e) <=> \E i \in 1 .. L : value[p][e] = got[i]
  BY <1>1, <1>5
<1> HIDE DEF mine
<1>9. \A e, g \in Entries : value[p][e] = value[p][g] /\ value[p][e] # Null => e = g
  BY DEF PlacesInv, HomesApart
<1>10. ASSUME NEW e \in Entries, NEW i \in 1 .. L, value[p][e] = got[i] PROVE Finds(p, e, f + i - 1)
  <2>1. PICK g \in Entries : Finds(p, g, f + i - 1) /\ value[p][g] = got[i]
    BY <1>7
  <2>2. e = g
    BY <1>7, <1>9, <1>10, <2>1
  <2> QED
    BY <2>1, <2>2
<1>11. ASSUME NEW e \in Entries, NEW m \in Nat, m < f, Finds(p, e, m) PROVE ~mine(e)
  <2>1. ASSUME mine(e) PROVE FALSE
    <3>1. PICK i \in 1 .. L : value[p][e] = got[i]
      BY <1>8, <2>1
    <3>2. Finds(p, e, f + i - 1) /\ f + i - 1 \in Nat
      BY <1>5, <1>10, <3>1
    <3>3. m = f + i - 1
      BY <1>11, <3>2, NumberOnce DEF Finds
    <3> QED
      BY <1>5, <1>11, <3>3
  <2> QED
    BY <2>1
<1>12. ASSUME NEW e \in Entries, NEW m \in Nat, m < f + L, Finds(p, e, m), ~mine(e) PROVE m < f
  <2>1. ASSUME ~(m < f) PROVE FALSE
    <3>1. PICK i \in 1 .. L : m = f + i - 1
      <4>1. m - f + 1 \in 1 .. L /\ m = f + (m - f + 1) - 1
        BY <1>5, <1>12, <2>1
      <4> QED
        BY <4>1
    <3>2. PICK g \in Entries : Finds(p, g, m) /\ value[p][g] = got[i]
      BY <1>7, <3>1
    <3>3. g = e
      BY <1>5, <1>12, <3>2, EntryOnce DEF Finds
    <3> QED
      BY <1>8, <1>12, <3>2, <3>3
  <2> QED
    BY <2>1
<1>13. FirstNew(p)' = f /\ Allocated(p)' = f /\ Last(p)' = Last(p) - L /\ Written(p)' = Written(p)
  <2>1. FirstNew(p)' = f
    BY <1>1, <1>4 DEF FirstNew
  <2>2. Reserved(p)' = 0
    BY <1>3 DEF Reserved, Building
  <2>3. Allocated(p)' = f
    BY <1>5, <2>1, <2>2 DEF Allocated
  <2>4. Last(p)' = f - 1
    BY <1>3, <2>3 DEF Last, Halfway
  <2>5. Written(p)' = Written(p)
    BY <1>2, <1>3, <1>4 DEF Written
  <2> QED
    BY <1>5, <2>1, <2>3, <2>4, <2>5
<1>14. /\ DOMAIN blockIndex' = Producers
       /\ \A q \in Producers \ {p} : blockIndex'[q] = blockIndex[q]
       /\ Newer(p)' = Newer(p)
       /\ \A e \in Entries : \A m : Holds(p, e, m)' <=> Holds(p, e, m)
       /\ IndexMoves(p)
       /\ EntriesFit(p)' => IndexFits(p)'
  <2>1. Allocated(p)' \in Nat /\ Allocated(p)' <= Allocated(p) /\ FirstNew(p)' = FirstNew(p)
        /\ L \in Nat
    BY <1>1, <1>5, <1>13
  <2> QED
    BY <1>2, <1>4, <1>13, <2>1, RewoundFacts
<1>15. \A e \in Entries : \A m \in Nat : m < f =>
          /\ Finds(p, e, m)' <=> Finds(p, e, m)
          /\ Finds(p, e, m) => value'[p][e] = value[p][e]
  <2> SUFFICES ASSUME NEW e \in Entries, NEW m \in Nat, m < f
               PROVE  /\ Finds(p, e, m)' <=> Finds(p, e, m)
                      /\ Finds(p, e, m) => value'[p][e] = value[p][e]
    OBVIOUS
  <2>1. Finds(p, e, m) => value'[p][e] = value[p][e]
    BY <1>6, <1>11
  <2>2. Finds(p, e, m)' => value[p][e] # Null
    BY <1>6 DEF Finds
  <2> QED
    BY <1>14, <2>1, <2>2 DEF Finds
<1>16. EntriesFit(p)'
  <2> SUFFICES ASSUME NEW e \in Entries
               PROVE  /\ key[p][e] = InvalidBase \/ \E m \in Nat : Holds(p, e, m)'
                      /\ value'[p][e] # Null =>
                            e <= Size(Newer(p)) /\ \E m \in Nat : m < f /\ Holds(p, e, m)'
                      /\ e > Size(Newer(p)) => key[p][e] = InvalidBase
    BY <1>4, <1>13, <1>14 DEF EntriesFit
  <2>1. /\ key[p][e] = InvalidBase \/ \E m \in Nat : Holds(p, e, m)
        /\ value[p][e] # Null => e <= Size(Newer(p)) /\ \E m \in Nat : m < f + L /\ Holds(p, e, m)
        /\ e > Size(Newer(p)) => key[p][e] = InvalidBase
    BY <1>5 DEF IndexFits, EntriesFit
  <2>2. ASSUME value'[p][e] # Null
        PROVE  e <= Size(Newer(p)) /\ \E m \in Nat : m < f /\ Holds(p, e, m)'
    <3>1. ~mine(e) /\ value[p][e] # Null
      BY <1>6, <2>2
    <3>2. PICK m \in Nat : m < f + L /\ Holds(p, e, m)
      BY <2>1, <3>1
    <3>3. m < f
      BY <1>12, <3>1, <3>2 DEF Finds
    <3> QED
      BY <1>14, <2>1, <3>1, <3>2, <3>3
  <2> QED
    BY <1>14, <2>1, <2>2
<1>17. CallFits(p)' /\ BlocksFit(p)'
  BY <1>1, <1>3, <1>4, <1>5 DEF CallFits, BlocksFit, Building, Halfway
<1>18. TailFits(p)'
  <2> SUFFICES ASSUME NEW m \in Nat, Start(m) < Written(p), Written(p) < Start(m) + BlockSize
               PROVE  \E e \in Entries : Finds(p, e, m)' /\ value'[p][e] = tailBlock[p]
    BY <1>4, <1>13 DEF TailFits
  <2>1. PICK e \in Entries : Finds(p, e, m) /\ value[p][e] = tailBlock[p]
    BY <1>5 DEF TailFits
  <2>2. Written(p) = tailIndex[p] /\ tailIndex[p] \in Nat
    BY <1>2, HeadBehind DEF Written
  <2>3. m < f
    <3>1. Start(m) \in Nat /\ Num(Start(m)) = m
      <4>1. Start(m) \in Nat /\ BlockSize \in Nat /\ BlockSize >= 2
        BY StartNat, BlockSizeFact
      <4>2. Start(m) <= Start(m) /\ Start(m) < Start(m) + BlockSize
        BY <4>1
      <4> QED
        BY <4>1, <4>2, NumUnique
    <3> QED
      BY <1>1, <2>2, <3>1, FirstNewFacts
  <2> QED
    BY <1>15, <2>1, <2>3
<1>19. ProducerFits(p)'
  BY <1>14, <1>16, <1>17, <1>18 DEF ProducerFits
<1>20. \A q, m : Unread(q, m)' = Unread(q, m)
  BY <1>3, <1>4, RemainingStays, UnreadStays
<1>21. Kept(p)'
  <2> SUFFICES ASSUME NEW m \in Nat, m < f, Unread(p, m) # {}
               PROVE  \E e \in Entries : Stores(p, e, m)'
    BY <1>13, <1>20 DEF Kept
  <2>1. PICK e \in Entries : Stores(p, e, m)
    BY <1>5 DEF Kept
  <2>2. Finds(p, e, m)' /\ value'[p][e] = value[p][e]
    BY <1>15, <2>1 DEF Stores
  <2>3. Stores(p, e, m)'
    BY <1>4, <1>13, <1>20, <2>1, <2>2 DEF Stores
  <2> QED
    BY <2>3
<1>22. \A m \in Nat : m < FirstNew(p) => FindsSame(p, m)
  BY <1>1, <1>15 DEF FindsSame
<1>23. PlacesTyped'
  BY <1>4, <1>6, <1>14 DEF PlacesInv, PlacesTyped
<1>24. \A q \in Producers \ {p} : Still(q)
  BY <1>3, <1>4, <1>6, <1>14, OthersStill
<1>25. PICK G : G = {got[j] : j \in 1 .. L}
  OBVIOUS
<1>26. /\ Undone(p)' = G /\ Undone(p) = {} /\ G \subseteq Indexed
       /\ \A q \in Producers \ {p} : Undone(q)' = Undone(q)
  <2>1. Undone(p) = {}
    BY <1>2 DEF Undone
  <2>2. Undone(p)' = G
    BY <1>1, <1>3, <1>4, <1>5, <1>25 DEF Undone
  <2>3. G \subseteq Indexed
    BY <1>7, <1>25 DEF Indexed
  <2>4. ASSUME NEW q \in Producers \ {p} PROVE Undone(q)' = Undone(q)
    <3>1. pc'[q] = pc[q] /\ loc'[q] = loc[q]
      BY <1>3
    <3> QED
      BY <3>1 DEF Undone
  <2> QED
    BY <2>1, <2>2, <2>3, <2>4
<1>27. \A q \in Producers, e \in Entries : value'[q][e] # Null =>
           value'[q][e] = value[q][e] /\ value[q][e] \notin G
  <2> SUFFICES ASSUME NEW q \in Producers, NEW e \in Entries, value'[q][e] # Null
               PROVE  value'[q][e] = value[q][e] /\ value[q][e] \notin G
    OBVIOUS
  <2>1. CASE q = p
    BY <1>6, <1>8, <1>25, <2>1
  <2>2. CASE q # p
    <3>1. value'[q][e] = value[q][e]
      BY <1>6, <2>2
    <3>2. ASSUME NEW j \in 1 .. L, value[q][e] = got[j] PROVE FALSE
      <4>1. PICK g \in Entries : value[p][g] = got[j]
        BY <1>7
      <4>2. value[q][e] = value[p][g] /\ value[q][e] # Null
        BY <1>7, <3>2, <4>1
      <4> QED
        BY <2>2, <4>2 DEF PlacesInv, HomesApart
    <3> QED
      BY <1>25, <3>1, <3>2
  <2> QED
    BY <2>1, <2>2
<1>28. Indexed' = Indexed \ G
  <2>1. \A b \in Blocks : b \in Indexed' => b \in Indexed \ G
    <3> SUFFICES ASSUME NEW b \in Blocks, NEW q \in Producers, NEW e \in Entries, value'[q][e] = b
                 PROVE  b \in Indexed \ G
      BY DEF Indexed
    <3>1. value'[q][e] # Null
      BY Assumed
    <3> QED
      BY <1>27, <3>1 DEF Indexed
  <2>2. \A b \in Blocks : b \in Indexed \ G => b \in Indexed'
    <3> SUFFICES ASSUME NEW b \in Blocks, b \notin G,
                        NEW q \in Producers, NEW e \in Entries, value[q][e] = b
                 PROVE  value'[q][e] = b
      BY DEF Indexed
    <3>1. CASE q = p
      <4>1. ~mine(e)
        BY <1>8, <1>25, <3>1
      <4> QED
        BY <1>6, <3>1, <4>1
    <3>2. CASE q # p
      BY <1>6, <3>2
    <3> QED
      BY <3>1, <3>2
  <2> QED
    BY <2>1, <2>2 DEF Indexed
<1>29. HomesApart'
  <2>1. \A q, r \in Producers, e, g \in Entries :
           value'[q][e] = value'[r][g] /\ value'[q][e] # Null => q = r /\ e = g
    BY <1>27 DEF PlacesInv, HomesApart
  <2>2. unused' \cap Indexed' = {}
    BY <1>4, <1>28 DEF PlacesInv, HomesApart
  <2>3. \A q \in Producers : Undone(q)' \cap (unused' \cup Indexed') = {}
    BY <1>4, <1>26, <1>28 DEF PlacesInv, HomesApart
  <2>4. \A q, r \in Producers : Undone(q)' \cap Undone(r)' # {} => q = r
    BY <1>26 DEF PlacesInv, HomesApart
  <2>5. \A i, j \in 1 .. L : got[i] = got[j] => i = j
    <3> SUFFICES ASSUME NEW i \in 1 .. L, NEW j \in 1 .. L, got[i] = got[j] PROVE i = j
      OBVIOUS
    <3>1. PICK e \in Entries : value[p][e] = got[i]
      BY <1>7
    <3>2. Finds(p, e, f + i - 1) /\ Finds(p, e, f + j - 1)
      BY <1>10, <3>1
    <3>3. f + i - 1 \in Nat /\ f + j - 1 \in Nat
      BY <1>5
    <3>4. f + i - 1 = f + j - 1
      BY <3>2, <3>3, NumberOnce DEF Finds
    <3> QED
      BY <1>5, <3>4
  <2>6. ASSUME NEW q \in Producers, pc'[q] = "free"
        PROVE  \A i, j \in DOMAIN loc'[q].got : loc'[q].got[i] = loc'[q].got[j] => i = j
    <3>1. CASE q = p
      <4>1. loc'[q].got = got
        BY <1>1, <1>4, <3>1
      <4> QED
        BY <1>5, <2>5, <4>1
    <3>2. CASE q # p
      <4>1. pc[q] = "free" /\ loc'[q] = loc[q]
        BY <1>3, <2>6, <3>2
      <4> QED
        BY <4>1 DEF PlacesInv, HomesApart
    <3> QED
      BY <3>1, <3>2
  <2> QED
    BY <2>1, <2>2, <2>3, <2>4, <2>6 DEF HomesApart
<1>30. InUse' = InUse
  <2>1. UNION {Undone(q)' : q \in Producers} = G \cup UNION {Undone(q) : q \in Producers}
    BY <1>26
  <2> QED
    BY <1>4, <1>26, <1>28, <2>1 DEF InUse
<1>31. ListInv(InUse)'
  <2>1. PICK held : held = InUse
    OBVIOUS
  <2>2. ListInv(held)'
    BY <1>4, <2>1, ListStutter DEF PlacesInv
  <2> QED
    BY <1>30, <2>1, <2>2, InUseBecomes
<1> QED
  BY <1>3, <1>4, <1>14, <1>19, <1>21, <1>22, <1>23, <1>24, <1>29, <1>31, ProducerFrame

-----------------------------------------------------------------------------
(* The steps of the consumers.                                             *)

\* What is left to show of a step of the consumers in T, at most.
LEMMA ConsumerFrame ==
    ASSUME ClaimInv, PlacesInv, NEW T \in SUBSET Consumers,
           UNCHANGED <<tailIndex, blockIndex, key, tailBlock>>,
           \A t \in Threads \ T : pc'[t] = pc[t] /\ loc'[t] = loc[t],
           \A q \in Producers : headIndex'[q] \in Nat /\ headIndex'[q] >= headIndex[q],
           PlacesTyped', \A q \in Producers : ProducerFits(q)' /\ Kept(q)',
           \A d \in Consumers \ T, q \in Producers, m \in Nat :
              /\ pc[d] \in AtProducer /\ From(d) = q
              /\ (\E i \in Remaining(d) : Num(i) = m) \/ (pc[d] = "unindex" /\ m = Num(loc[d].base))
              => FindsSame(q, m),
           \A d \in Consumers \ T, q \in Producers, m \in Nat :
              pc[d] = "unindex" /\ From(d) = q /\ Unread(q, m) = {} => Unread(q, m)' = {},
           \A c \in T : ConsumerFits(c)',
           ClaimsApart', HomesApart', ListInv(InUse)'
    PROVE  PlacesInv'
<1>1. ASSUME NEW d \in Consumers PROVE ConsumerFits(d)'
  <2>1. CASE d \in T
    BY <2>1
  <2>2. CASE d \notin T
    <3>1. PICK q : q = From(d)
      OBVIOUS
    <3>2. pc'[d] = pc[d] /\ loc'[d] = loc[d] /\ ConsumerFits(d) /\ EntryKnown(d)
          /\ (pc[d] \in AtProducer => q \in Producers)
          /\ (pc[d] = "unindex" => Num(loc[d].base) \in Nat)
      <4>1. pc[d] = "unindex" => Num(loc[d].base) \in Nat
        BY ConsumerKnown, NumFacts DEF ClaimedFits, Parting
      <4> QED
        BY <2>2, <3>1, <4>1, ConsumerKnown
    <3>3. ASSUME pc[d] \in AtProducer
          PROVE  /\ headIndex'[q] \in Nat /\ headIndex[q] \in Nat /\ headIndex'[q] >= headIndex[q]
                 /\ HeadersFit(q) /\ IndexMoves(q)
                 /\ \A m \in Nat :
                       \/ \E i \in Remaining(d) : Num(i) = m
                       \/ pc[d] = "unindex" /\ m = Num(loc[d].base)
                       => FindsSame(q, m)
                 /\ pc[d] = "unindex" => Unread(q, Num(loc[d].base))' = {}
      <4>1. q \in Producers
        BY <3>2, <3>3
      <4>2. headIndex'[q] \in Nat /\ headIndex[q] \in Nat /\ headIndex'[q] >= headIndex[q]
        BY <4>1, HeadBehind
      <4>3. IndexFits(q) /\ HeadersFit(q) /\ StillIndexed(q)
        BY <4>1, ProducerKnown DEF StillIndexed
      <4>4. IndexMoves(q)
        <5>1. Newer(q)' = Newer(q) /\ Newer(q) \in Nat /\ Size(Newer(q)) \in Nat
          BY <4>3, StillEntries, SizeFacts, EntriesAre DEF IndexFits, HeadersFit
        <5>2. \A m \in Nat : Whole(m - m, Size(Newer(q)))
          BY <5>1, WholeFacts
        <5>3. \A e, m : Holds(q, e, m)' <=> Holds(q, e, m)
          BY <4>3, StillEntries
        <5> QED
          BY <5>1, <5>2, <5>3 DEF IndexMoves
      <4>5. \A m \in Nat :
              \/ \E i \in Remaining(d) : Num(i) = m
              \/ pc[d] = "unindex" /\ m = Num(loc[d].base)
              => FindsSame(q, m)
        BY <2>2, <3>1, <3>3, <4>1
      <4>6. pc[d] = "unindex" => Unread(q, Num(loc[d].base))' = {}
        <5>1. PICK m : m = Num(loc[d].base)
          OBVIOUS
        <5>2. Num(loc[d].base)' = m
          BY <3>2, <5>1 DEF Num
        <5>3. pc[d] = "unindex" => Unread(q, m) = {}
          BY <3>1, <3>2, <5>1 DEF EntryKnown
        <5>4. pc[d] = "unindex" => Unread(q, m)' = {}
          BY <2>2, <3>1, <3>2, <4>1, <5>1, <5>3
        <5> QED
          BY <5>1, <5>2, <5>4 DEF Unread
      <4> QED
        BY <4>2, <4>3, <4>4, <4>5, <4>6
    <3> QED
      BY <3>1, <3>2, <3>3, ConsumerStays
  <2> QED
    BY <2>1, <2>2
<1> QED
  BY <1>1 DEF PlacesInv

\* A step that moves consumers from where they have something left to where they have as
\* much, and changes nothing else but counts and the free list.
LEMMA QuietConsumers ==
    ASSUME ClaimInv, PlacesInv, NEW T \in SUBSET Consumers,
           UNCHANGED <<tailIndex, entries, blocks, tailBlock>>,
           \A t \in Threads \ T : pc'[t] = pc[t] /\ loc'[t] = loc[t],
           \A q \in Producers : headIndex'[q] \in Nat /\ headIndex'[q] >= headIndex[q],
           \A q \in Producers : \A m \in Nat : Unread(q, m)' = Unread(q, m),
           \A c \in T : ConsumerFits(c)', ClaimsApart',
           ListInv(InUse) => ListInv(InUse)'
    PROVE  PlacesInv'
<1>1. /\ tailIndex' = tailIndex /\ blockIndex' = blockIndex /\ key' = key /\ value' = value
      /\ data' = data /\ elementsCompletelyDequeued' = elementsCompletelyDequeued
      /\ unused' = unused /\ tailBlock' = tailBlock
  BY DEF entries, blocks
<1>2. \A q \in Producers : pc'[q] = pc[q] /\ loc'[q] = loc[q]
  BY Assumed
<1>3. \A q \in Producers : Still(q)
  BY <1>1, <1>2 DEF Still, StillCounted, StillIndexed
<1>4. ASSUME NEW q \in Producers PROVE ProducerFits(q)' /\ Kept(q)'
  <2>1. Still(q) /\ ProducerFits(q) /\ Kept(q) /\ FirstNew(q) \in Int
    BY <1>3, ProducerKnown
  <2>2. /\ ProducerFits(q)' /\ Allocated(q)' = Allocated(q) /\ Written(q)' = Written(q)
        /\ \A e, m : Finds(q, e, m)' <=> Finds(q, e, m)
    BY <2>1, StillFits
  <2>3. Kept(q)'
    BY <1>1, <2>1, <2>2, KeptStays
  <2> QED
    BY <2>2, <2>3
<1>5. \A q \in Producers : \A m \in Nat : FindsSame(q, m)
  BY <1>1 DEF FindsSame, Finds, Holds
<1>7. PlacesTyped'
  BY <1>1 DEF PlacesInv, PlacesTyped
<1>8. HomesApart' /\ ListInv(InUse)'
  <2>1. \A q \in Producers : Undone(q)' = Undone(q)
    <3>1. ASSUME NEW q \in Producers PROVE Undone(q)' = Undone(q)
      BY <1>2 DEF Undone
    <3> QED
      BY <3>1
  <2>2. Indexed' = Indexed
    BY <1>1 DEF Indexed
  <2> QED
    BY <1>1, <1>2, <2>1, <2>2 DEF PlacesInv, HomesApart
<1> QED
  BY <1>1, <1>4, <1>5, <1>7, <1>8, ConsumerFrame

\* Consumers stay apart in a step of one that claims nothing another has.
LEMMA ApartBesides ==
    ASSUME ClaimsApart, NEW c \in Consumers,
           \A d \in Consumers \ {c} :
              /\ Remaining(d)' = Remaining(d) /\ From(d)' = From(d)
              /\ pc'[d] = pc[d] /\ loc'[d] = loc[d]
              /\ From(d) = From(c)' =>
                    /\ Remaining(d) \cap Remaining(c)' = {}
                    /\ pc[d] = "unindex" /\ pc'[c] = "unindex" =>
                          Num(loc[d].base) # Num(loc'[c].base)
    PROVE  ClaimsApart'
<1> SUFFICES ASSUME NEW d \in Consumers, NEW e \in Consumers, d # e, From(d)' = From(e)'
             PROVE  /\ Remaining(d)' \cap Remaining(e)' = {}
                    /\ pc'[d] = "unindex" /\ pc'[e] = "unindex" =>
                          Num(loc'[d].base) # Num(loc'[e].base)
  BY DEF ClaimsApart, Num
<1>1. CASE d = c \/ e = c
  BY <1>1
<1>2. CASE d # c /\ e # c
  BY <1>2 DEF ClaimsApart
<1> QED
  BY <1>1, <1>2

\* Steps before a consumer has claimed something and after it has taken it.
LEMMA OutsideStep ==
    ASSUME ClaimInv, PlacesInv, NEW c \in Consumers, NEW to,
           pc[c] \notin Reading \cup Parting, to \notin Reading \cup Parting,
           to = "head" => loc'[c].count >= 1,
           pc' = [pc EXCEPT ![c] = to],
           \A t \in Threads \ {c} : loc'[t] = loc[t],
           UNCHANGED <<freeList, tailIndex, headIndex, entries, blocks, tailBlock>>
    PROVE  PlacesInv'
<1>1. /\ pc'[c] = to /\ \A t \in Threads \ {c} : pc'[t] = pc[t] /\ loc'[t] = loc[t]
  BY ConsumerKnown
<1>2. Remaining(c) = {} /\ Remaining(c)' = {}
  BY <1>1 DEF Remaining
<1>3. \A d \in Consumers \ {c} : /\ Remaining(d)' = Remaining(d) /\ From(d)' = From(d)
                                 /\ pc'[d] = pc[d] /\ loc'[d] = loc[d]
  BY <1>1, Assumed, RemainingStays
<1>4. ASSUME NEW q \in Producers, NEW m \in Nat PROVE Unread(q, m)' = Unread(q, m)
  <2>1. \A i : (\E d \in Consumers : From(d)' = q /\ i \in Remaining(d)')
                 <=> \E d \in Consumers : From(d) = q /\ i \in Remaining(d)
    BY <1>2, <1>3
  <2> QED
    BY <2>1 DEF Unread
<1>5. ConsumerFits(c)'
  <2>1. pc'[c] \notin {"header", "slot", "key", "take", "read", "unindex", "free"}
    BY <1>1 DEF Reading, Parting
  <2>2. ClaimedFits(c)' /\ HeaderKnown(c)' /\ EntryKnown(c)'
    BY <1>1, <2>1 DEF ClaimedFits, HeaderKnown, EntryKnown, Reading, Parting
  <2> QED
    BY <2>2 DEF ConsumerFits
<1>6. ClaimsApart'
  BY <1>1, <1>2, <1>3, ApartBesides DEF PlacesInv, Parting
<1>7. ListInv(InUse) => ListInv(InUse)'
  <2>1. \A q \in Producers : (pc'[q] = "free" <=> pc[q] = "free") /\ loc'[q].got = loc[q].got
    BY <1>1, Assumed
  <2> QED
    BY <2>1, HomesStay DEF entries, blocks
<1>8. \A q \in Producers : headIndex'[q] \in Nat /\ headIndex'[q] >= headIndex[q]
  BY HeadBehind
<1>9. PICK T \in SUBSET Consumers : T = {c}
  OBVIOUS
<1>10. /\ \A t \in Threads \ T : pc'[t] = pc[t] /\ loc'[t] = loc[t]
       /\ \A d \in T : ConsumerFits(d)'
  BY <1>1, <1>5, <1>9
<1>11. UNCHANGED <<tailIndex, entries, blocks, tailBlock>>
  OBVIOUS
<1> QED
  BY <1>4, <1>6, <1>7, <1>8, <1>10, <1>11, QuietConsumers

\* Such a step as the handlers write it.
LEMMA OutsideMove ==
    ASSUME ClaimInv, PlacesInv, NEW c \in Consumers, NEW from, NEW to, NEW call,
           Step(c, from, to), loc' = [loc EXCEPT ![c] = call],
           from \notin Reading \cup Parting, to \notin Reading \cup Parting,
           to = "head" => call.count >= 1
    PROVE  PlacesInv'
<1>1. /\ pc[c] = from /\ pc' = [pc EXCEPT ![c] = to]
      /\ UNCHANGED <<freeList, tailIndex, headIndex, entries, blocks, tailBlock>>
  BY DEF Step, Go, indices
<1>2. loc'[c] = call /\ \A t \in Threads \ {c} : loc'[t] = loc[t]
  BY ConsumerKnown
<1> QED
  BY <1>1, <1>2, OutsideStep

LEMMA ChoosingPlaces ==
    ASSUME ClaimInv, PlacesInv, NEW c \in Consumers,
           \/ \E n \in Takes : BeginDequeue(c, n)
           \/ Look(c) \/ Looked(c) \/ Turn(c) \/ EndDequeue(c)
    PROVE  PlacesInv'
<1>1. /\ "idle" \notin Reading \cup Parting /\ "look" \notin Reading \cup Parting
      /\ "turn" \notin Reading \cup Parting /\ "tail" \notin Reading \cup Parting
  BY DEF Reading, Parting
<1>2. ASSUME NEW n \in Takes, BeginDequeue(c, n) PROVE PlacesInv'
  BY <1>1, <1>2, OutsideMove DEF BeginDequeue
<1>3. CASE Look(c)
  <2>1. PICK call :
            /\ Step(c, "look", "look") /\ loc' = [loc EXCEPT ![c] = call]
    <3>1. Step(c, "look", "look")
      BY <1>3 DEF Look
    <3>2. PICK p \in loc[c].left :
             LET longer == tailIndex[p] - headIndex[p] > loc[c].count
             IN  loc' = [loc EXCEPT ![c].left = @ \ {p},
                                    ![c].count = IF longer THEN tailIndex[p] - headIndex[p] ELSE @,
                                    ![c].from = IF longer THEN p ELSE @]
      BY <1>3 DEF Look
    <3>4. loc' = [loc EXCEPT ![c] = loc'[c]]
      BY <3>2
    <3> QED
      BY <3>1, <3>2, <3>4
  <2> QED
    BY <1>1, <2>1, OutsideMove
<1>4. CASE Looked(c)
  <2>1. PICK to, call : /\ to \in {"idle", "tail"} /\ Step(c, "look", to)
                        /\ loc' = [loc EXCEPT ![c] = call]
    BY <1>4 DEF Looked
  <2> QED
    BY <1>1, <2>1, OutsideMove
<1>5. CASE Turn(c)
  <2>1. PICK p : loc' = [loc EXCEPT ![c].from = p, ![c].left = @ \ {p}]
    BY <1>5 DEF Turn
  <2>2. Step(c, "turn", "tail")
    BY <1>5 DEF Turn
  <2>3. PICK call : call = [loc[c] EXCEPT !.from = p, !.left = @ \ {p}]
    OBVIOUS
  <2>4. loc' = [loc EXCEPT ![c] = call]
    BY <2>1, <2>3
  <2> QED
    BY <1>1, <2>2, <2>4, OutsideMove
<1>6. CASE EndDequeue(c)
  BY <1>1, <1>6, OutsideMove DEF EndDequeue
<1> QED
  BY <1>2, <1>3, <1>4, <1>5, <1>6

LEMMA CountingPlaces ==
    ASSUME ClaimInv, PlacesInv, NEW c \in Consumers,
           ReadTail(c) \/ ReadOvercommit(c) \/ ReadOptimistic(c)
    PROVE  PlacesInv'
<1>1. /\ "tail" \notin Reading \cup Parting /\ "overcommit" \notin Reading \cup Parting
      /\ "optimistic" \notin Reading \cup Parting /\ "claim" \notin Reading \cup Parting
      /\ "turn" \notin Reading \cup Parting
  BY DEF Reading, Parting
<1>2. CASE ReadTail(c)
  <2>1. Step(c, "tail", "overcommit") /\ loc' = [loc EXCEPT ![c].count = tailIndex[From(c)]]
    BY <1>2 DEF ReadTail, Set
  <2>2. PICK call : call = [loc[c] EXCEPT !.count = tailIndex[From(c)]]
    OBVIOUS
  <2>3. loc' = [loc EXCEPT ![c] = call]
    BY <2>1, <2>2
  <2> QED
    BY <1>1, <2>1, <2>3, OutsideMove
<1>3. CASE ReadOvercommit(c)
  <2>1. Step(c, "overcommit", "optimistic") /\ loc' = [loc EXCEPT ![c].base = dequeueOvercommit[From(c)]]
    BY <1>3 DEF ReadOvercommit, Set
  <2>2. PICK call : call = [loc[c] EXCEPT !.base = dequeueOvercommit[From(c)]]
    OBVIOUS
  <2>3. loc' = [loc EXCEPT ![c] = call]
    BY <2>1, <2>2
  <2> QED
    BY <1>1, <2>1, <2>3, OutsideMove
<1>4. CASE ReadOptimistic(c)
  <2>1. PICK desired : desired = loc[c].count - (dequeueOptimisticCount[From(c)] - loc[c].base)
    OBVIOUS
  <2>2. CASE desired > 0
    <3>1. PICK v : /\ Step(c, "optimistic", "claim") /\ loc' = [loc EXCEPT ![c].count = v]
      BY <1>4, <2>1, <2>2 DEF ReadOptimistic, Set
    <3>2. PICK call : call = [loc[c] EXCEPT !.count = v]
      OBVIOUS
    <3>3. loc' = [loc EXCEPT ![c] = call]
      BY <3>1, <3>2
    <3> QED
      BY <1>1, <3>1, <3>3, OutsideMove
  <2>3. CASE ~(desired > 0)
    <3>1. Step(c, "optimistic", "turn") /\ loc' = [loc EXCEPT ![c] = Done(c, 0)]
      BY <1>4, <2>1, <2>3 DEF ReadOptimistic
    <3> QED
      BY <1>1, <3>1, OutsideMove
  <2> QED
    BY <2>2, <2>3
<1> QED
  BY <1>2, <1>3, <1>4

LEMMA ClaimPlaces ==
    ASSUME ClaimInv, PlacesInv, NEW c \in Consumers, Claim(c) \/ Verify(c) \/ GiveBack(c)
    PROVE  PlacesInv'
<1>1. /\ "claim" \notin Reading \cup Parting /\ "verify" \notin Reading \cup Parting
      /\ "give" \notin Reading \cup Parting /\ "head" \notin Reading \cup Parting
      /\ "turn" \notin Reading \cup Parting
  BY DEF Reading, Parting
<1>2. DOMAIN loc = Threads /\ c \in Threads /\ DOMAIN loc[c] = Fields
  BY ConsumerKnown
<1>3. CASE Claim(c)
  <2>1. PICK v : loc' = [loc EXCEPT ![c].base = v]
    BY <1>3 DEF Claim, Set
  <2>2. /\ pc[c] = "claim" /\ pc' = [pc EXCEPT ![c] = "verify"]
        /\ UNCHANGED <<freeList, tailIndex, headIndex, entries, blocks, tailBlock>>
    BY <1>3 DEF Claim, Go
  <2>3. \A t \in Threads \ {c} : loc'[t] = loc[t]
    BY <1>2, <2>1
  <2> QED
    BY <1>1, <2>2, <2>3, OutsideStep
<1>4. CASE Verify(c)
  <2>1. PICK there : there = tailIndex[From(c)] - loc[c].base
    OBVIOUS
  <2>2. PICK actual : actual = IF there < 0 THEN 0 ELSE IF there < loc[c].count THEN there ELSE loc[c].count
    OBVIOUS
  <2>3. PICK to : to = IF actual = loc[c].count THEN "head" ELSE "give"
    OBVIOUS
  <2>4. /\ Step(c, "verify", to)
        /\ loc' = [loc EXCEPT ![c].count = actual, ![c].extra = loc[c].count - actual, ![c].base = 0]
    BY <1>4, <2>1, <2>2, <2>3 DEF Verify
  <2>5. PICK call : call = [loc[c] EXCEPT !.count = actual, !.extra = loc[c].count - actual, !.base = 0]
    OBVIOUS
  <2>6. loc' = [loc EXCEPT ![c] = call]
    BY <2>4, <2>5
  <2>7. call.count = actual
    BY <1>2, <2>5 DEF Fields
  <2>8. loc[c].count >= 1
    BY <2>4 DEF ClaimInv, Knows, Fits, Step, Go
  <2>9. to = "head" => call.count >= 1
    BY <2>3, <2>7, <2>8
  <2>10. to \notin Reading \cup Parting
    BY <1>1, <2>3
  <2> QED
    BY <1>1, <2>4, <2>6, <2>9, <2>10, OutsideMove
<1>5. CASE GiveBack(c)
  <2>1. PICK to, call : /\ to = IF loc[c].count = 0 THEN "turn" ELSE "head"
                        /\ call = IF loc[c].count = 0 THEN Done(c, 0) ELSE [loc[c] EXCEPT !.extra = 0]
    OBVIOUS
  <2>2. /\ pc[c] = "give" /\ pc' = [pc EXCEPT ![c] = to] /\ loc' = [loc EXCEPT ![c] = call]
        /\ UNCHANGED <<freeList, tailIndex, headIndex, entries, blocks, tailBlock>>
    BY <1>5, <2>1 DEF GiveBack, Go
  <2>3. loc'[c] = call /\ \A t \in Threads \ {c} : loc'[t] = loc[t]
    BY <1>2, <2>2
  <2>4. loc[c].count \in Int /\ loc[c].count >= 0
    BY <2>2 DEF ClaimInv, Knows, Fits
  <2>5. to = "head" => call.count = loc[c].count /\ loc[c].count # 0
    BY <1>2, <2>1 DEF Fields
  <2>6. to = "head" => call.count >= 1
    BY <2>4, <2>5
  <2>7. to \notin Reading \cup Parting
    BY <1>1, <2>1
  <2> QED
    BY <1>1, <2>2, <2>3, <2>6, <2>7, OutsideStep
<1> QED
  BY <1>3, <1>4, <1>5

\* What a consumer has left is stored.
LEMMA ClaimedStored ==
    ASSUME ClaimInv, PlacesInv, NEW c \in Consumers, NEW i \in Remaining(c), NEW p, p = From(c)
    PROVE  /\ p \in Producers /\ i \in Nat /\ Num(i) \in Nat /\ Num(i) < FirstNew(p)
           /\ i \in Unread(p, Num(i)) /\ i < headIndex[p]
           /\ \E e \in Entries : Stores(p, e, Num(i))
<1>1. ClaimedFits(c) /\ (pc[c] \in AtProducer => p \in Producers)
  BY ConsumerKnown
<1>2. /\ i \in Nat /\ pc[c] \in Reading \cup Parting
      /\ i < loc[c].extra /\ loc[c].extra <= headIndex[p] /\ loc[c].extra \in Nat
  BY <1>1, RemainingNat
<1>3. p \in Producers
  BY <1>1, <1>2 DEF Reading, Parting, AtProducer
<1>4. headIndex[p] \in Nat /\ tailIndex[p] \in Nat /\ headIndex[p] <= tailIndex[p]
  BY <1>3, HeadBehind
<1>5. i < headIndex[p] /\ i < tailIndex[p]
  BY <1>2, <1>4
<1>6. Num(i) \in Nat /\ Num(i) < FirstNew(p) /\ i \in Cells(Num(i))
  BY <1>2, <1>4, <1>5, NumFacts, NumOrder, FirstNewFacts
<1>7. i \in Unread(p, Num(i))
  BY <1>6 DEF Unread
<1>8. Num(i) < Allocated(p) /\ Kept(p)
  <2>1. /\ FirstNew(p) \in Nat /\ Allocated(p) \in Nat /\ FirstNew(p) <= Allocated(p) /\ Kept(p)
    BY <1>3, ProducerKnown
  <2> QED
    BY <1>6, <2>1
<1>9. \E e \in Entries : Stores(p, e, Num(i))
  BY <1>6, <1>7, <1>8 DEF Kept
<1> QED
  BY <1>2, <1>3, <1>5, <1>6, <1>7, <1>9

\* Where the next block of a claim is, from where the consumer is in its header.
LEMMA PlaceFound ==
    ASSUME ClaimInv, PlacesInv, NEW c \in Consumers, NEW p, p = From(c),
           pc[c] \in {"key", "take", "read", "free"}, NEW i \in Remaining(c),
           NEW m \in Nat, Holds(p, Entry(c), m), NEW d \in Int,
           Whole((Num(i) - m) - d, Size(loc[c].header))
    PROVE  /\ Later(Header(c), loc[c].pos, d) \in Places(loc[c].header)
           /\ Slot(p, loc[c].header, Later(Header(c), loc[c].pos, d)) \in Entries
           /\ Stores(p, Slot(p, loc[c].header, Later(Header(c), loc[c].pos, d)), Num(i))
<1>1. PICK k, pos, h, n, to : /\ k = loc[c].header /\ pos = loc[c].pos /\ h = Header(c) /\ n = Num(i)
                              /\ to = Later(h, pos, d)
  OBVIOUS
<1>2. p \in Producers /\ n \in Nat
  BY <1>1, ClaimedStored
<1>3. PICK e \in Entries : Stores(p, e, n)
  BY <1>1, ClaimedStored
<1>4. /\ HeadersFit(p) /\ IndexFits(p) /\ Last(p) \in Int /\ HeaderKnown(c) /\ EntryKnown(c)
  BY <1>2, ProducerKnown, ConsumerKnown
<1>5. /\ k \in 1 .. Newer(p) /\ pos \in Places(k) /\ Entry(c) = Slot(p, k, pos)
      /\ Size(k) \in Nat /\ pos \in Nat /\ DOMAIN h.slots = Places(k)
  BY <1>1, <1>4, EntryFacts
<1>6. e <= Size(k) /\ e \in Nat /\ e >= 1
  BY <1>1, <1>3, <1>4, EntriesAre DEF HeaderKnown, Stores
<1>7. /\ k \in Nat \ {0} /\ Places(k) \subseteq Nat
      /\ \A s \in Places(k) : Slot(p, k, s) \in Entries
  BY <1>4, <1>5, HeaderFacts
<1>8. PICK s \in Places(k) : Slot(p, k, s) = e
  <2>1. e \in 1 .. Size(k)
    BY <1>5, <1>6
  <2> QED
    BY <1>4, <1>5, <2>1, HeaderFacts
<1>9. Whole((n - m) - (s - pos), Size(k))
  <2>1. Aligned(p, k)
    BY <1>4, <1>5, AllAligned
  <2>2. Holds(p, Slot(p, k, s), n) /\ Holds(p, Slot(p, k, pos), m)
    BY <1>3, <1>5, <1>8 DEF Stores, Finds
  <2> QED
    BY <1>2, <1>5, <2>1, <2>2 DEF Aligned
<1>10. to \in Places(k) /\ Whole(to - (pos + d), Size(k))
  <2>1. DOMAIN h.slots = Places(k) /\ k \in Nat \ {0} /\ pos \in Int /\ d \in Int
    BY <1>5, <1>7
  <2>2. Later(h, pos, d) \in Places(k) /\ Whole(Later(h, pos, d) - (pos + d), Size(k))
    BY ONLY <2>1, LaterFacts
  <2> QED
    BY <1>1, <2>2
<1>11. to \in Nat /\ s \in Nat /\ Whole((n - m) - d, Size(k))
  BY <1>1, <1>7, <1>8, <1>10
<1>12. PICK N \in Nat : N = Size(k)
  BY <1>5
<1>13. Whole(to - s, N)
  <2>1. /\ to \in Nat /\ s \in Nat /\ pos \in Nat /\ d \in Int /\ n \in Nat /\ m \in Nat
    BY <1>2, <1>5, <1>11
  <2>8. PICK u, v, w : u = to - (pos + d) /\ v = (n - m) - (s - pos) /\ w = (n - m) - d
    OBVIOUS
  <2>9. u \in Int /\ v \in Int /\ w \in Int
    BY <2>1, <2>8
  <2>10. PICK x \in Int : x = v - w
    BY <2>9
  <2>11. PICK y \in Int : y = u + x
    BY <2>9, <2>10
  <2>2. /\ u \in Int /\ v \in Int /\ w \in Int /\ x \in Int /\ y \in Int
        /\ u = to - (pos + d) /\ v = (n - m) - (s - pos) /\ w = (n - m) - d
        /\ x = v - w /\ y = u + x
    BY <2>8, <2>9, <2>10, <2>11
  <2>3. y = to - s - d + d /\ to - s \in Int
    BY ONLY <2>1, <2>2
  <2>4. Whole(u, N) /\ Whole(v, N) /\ Whole(w, N)
    BY <1>9, <1>10, <1>11, <1>12, <2>2
  <2>5. Whole(x, N)
    BY ONLY <2>2, <2>4, WholeSum, N \in Nat
  <2>6. Whole(y, N)
    BY ONLY <2>2, <2>4, <2>5, WholeSum, N \in Nat
  <2>7. y = to - s
    BY ONLY <2>1, <2>3
  <2> QED
    BY <2>6, <2>7
<1>14. to = s
  BY <1>7, <1>8, <1>10, <1>12, <1>13, WholePlaces
<1> QED
  BY <1>1, <1>3, <1>7, <1>8, <1>10, <1>14

\* A step of a consumer within its claim that takes nothing.
LEMMA WithinStep ==
    ASSUME ClaimInv, PlacesInv, NEW c \in Consumers, NEW from, NEW to, NEW call,
           Step(c, from, to), loc' = [loc EXCEPT ![c] = call],
           Remaining(c)' = Remaining(c), Remaining(c) # {} => call.from = From(c),
           to # "unindex", ConsumerFits(c)'
    PROVE  PlacesInv'
<1>1. /\ pc[c] = from /\ pc' = [pc EXCEPT ![c] = to]
      /\ UNCHANGED <<freeList, tailIndex, headIndex, entries, blocks, tailBlock>>
  BY DEF Step, Go, indices
<1>2. /\ pc'[c] = to /\ loc'[c] = call
      /\ \A t \in Threads \ {c} : pc'[t] = pc[t] /\ loc'[t] = loc[t]
  BY <1>1, ConsumerKnown
<1>3. \A d \in Consumers \ {c} : /\ Remaining(d)' = Remaining(d) /\ From(d)' = From(d)
                                 /\ pc'[d] = pc[d] /\ loc'[d] = loc[d]
  BY <1>2, Assumed, RemainingStays
<1>4. Remaining(c) # {} => From(c)' = From(c)
  BY <1>2 DEF From
<1>5. ASSUME NEW q \in Producers, NEW m \in Nat PROVE Unread(q, m)' = Unread(q, m)
  <2>1. \A i : (\E d \in Consumers : From(d)' = q /\ i \in Remaining(d)')
                 <=> \E d \in Consumers : From(d) = q /\ i \in Remaining(d)
    BY <1>3, <1>4
  <2> QED
    BY <1>1, <2>1 DEF Unread
<1>6. ClaimsApart'
  <2>1. \A d \in Consumers \ {c} : From(d) = From(c)' => Remaining(d) \cap Remaining(c)' = {}
    BY <1>3, <1>4 DEF PlacesInv, ClaimsApart
  <2> QED
    BY <1>2, <1>3, <2>1, ApartBesides DEF PlacesInv
<1>7. ListInv(InUse) => ListInv(InUse)'
  <2>1. \A q \in Producers : (pc'[q] = "free" <=> pc[q] = "free") /\ loc'[q].got = loc[q].got
    BY <1>2, Assumed
  <2> QED
    BY <1>1, <2>1, HomesStay DEF entries, blocks
<1>8. \A q \in Producers : headIndex'[q] \in Nat /\ headIndex'[q] >= headIndex[q]
  BY <1>1, HeadBehind
<1>9. PICK T \in SUBSET Consumers : T = {c}
  OBVIOUS
<1>10. /\ \A t \in Threads \ T : pc'[t] = pc[t] /\ loc'[t] = loc[t]
       /\ \A d \in T : ConsumerFits(d)'
  BY <1>2, <1>9
<1> QED
  BY <1>1, <1>5, <1>6, <1>7, <1>8, <1>10, QuietConsumers

\* What a step of a consumer on its own locals changes and does not.
LEMMA StepLeaves ==
    ASSUME ClaimInv, NEW c \in Consumers, NEW from, NEW to, NEW call,
           Step(c, from, to), loc' = [loc EXCEPT ![c] = call]
    PROVE  /\ pc[c] = from /\ pc'[c] = to /\ loc'[c] = call /\ From(c)' = call.from
           /\ headIndex' = headIndex /\ blockIndex' = blockIndex /\ key' = key /\ value' = value
           /\ \A q, e, m : (Holds(q, e, m)' <=> Holds(q, e, m)) /\ (Finds(q, e, m)' <=> Finds(q, e, m))
           /\ \A q : Newer(q)' = Newer(q)
<1>1. /\ pc[c] = from /\ pc' = [pc EXCEPT ![c] = to]
      /\ headIndex' = headIndex /\ blockIndex' = blockIndex /\ key' = key /\ value' = value
  BY DEF Step, Go, indices, entries
<1>2. pc'[c] = to /\ loc'[c] = call
  BY <1>1, Assumed DEF ClaimInv, Typed
<1> QED
  BY <1>1, <1>2 DEF From, Holds, Finds, Newer

LEMMA LoadHeaderPlaces ==
    ASSUME ClaimInv, PlacesInv, NEW c \in Consumers, LoadHeader(c)
    PROVE  PlacesInv'
<1>1. PICK p, call : p = From(c) /\ call = [loc[c] EXCEPT !.header = Newer(p)]
  OBVIOUS
<1>2. Step(c, "header", "slot") /\ loc' = [loc EXCEPT ![c] = call]
  BY <1>1 DEF LoadHeader, Set, Newer
<1>3. /\ pc[c] = "header" /\ pc'[c] = "slot" /\ loc'[c] = call /\ From(c)' = call.from
      /\ headIndex' = headIndex
      /\ \A q, e, m : Finds(q, e, m)' <=> Finds(q, e, m)
      /\ \A q : Newer(q)' = Newer(q)
  BY <1>2, StepLeaves
<1>4. ConsumerFits(c) /\ ClaimedFits(c) /\ DOMAIN loc[c] = Fields /\ p \in Producers
  BY <1>1, <1>3, ConsumerKnown DEF AtProducer
<1>5. /\ call.base = loc[c].base /\ call.extra = loc[c].extra /\ call.from = p
      /\ call.header = Newer(p)
  BY <1>1, <1>4 DEF Fields, From
<1>6. Remaining(c)' = Remaining(c)
  BY <1>3, <1>5 DEF Remaining, Reading
<1>7. IndexFits(p) /\ Newer(p) \in 1 .. MaxHeaders /\ Newer(p) \in 1 .. Newer(p)
  BY <1>4, ProducerKnown
<1>8. \A e \in Entries : \A m : Finds(p, e, m) => e <= Size(Newer(p))
  BY <1>7 DEF IndexFits, EntriesFit, Finds
<1>9. ClaimedFits(c)'
  BY <1>1, <1>3, <1>4, <1>5 DEF ClaimedFits, Reading, From
<1>10. HeaderKnown(c)'
  BY <1>3, <1>5, <1>7, <1>8 DEF HeaderKnown
<1>11. EntryKnown(c)'
  BY <1>3 DEF EntryKnown
<1> QED
  BY <1>1, <1>2, <1>5, <1>6, <1>9, <1>10, <1>11, WithinStep DEF ConsumerFits

\* An entry of a header that a consumer in a claim has loaded has had a number.
LEMMA TailHeld ==
    ASSUME ClaimInv, PlacesInv, NEW c \in Consumers, pc[c] = "slot", NEW p, p = From(c),
           NEW k, k = loc[c].header
    PROVE  /\ blockIndex[p][k].tail \in Places(k)
           /\ \E m \in Nat : Holds(p, Slot(p, k, blockIndex[p][k].tail), m)
<1>1. ClaimedFits(c) /\ HeaderKnown(c) /\ p \in Producers
  BY ConsumerKnown DEF AtProducer
<1>2. k \in 1 .. Newer(p)
  BY <1>1 DEF HeaderKnown
<1>3. /\ HeadersFit(p) /\ IndexFits(p) /\ FirstNew(p) \in Nat /\ Allocated(p) \in Nat
      /\ FirstNew(p) <= Allocated(p) /\ Last(p) \in Int /\ Newer(p) \in Nat \ {0}
  BY <1>1, ProducerKnown
<1>4. PICK t : t = blockIndex[p][k].tail
  OBVIOUS
<1>5. t \in Places(k)
  BY <1>2, <1>3, <1>4, HeaderFacts
<1>6. CASE k < Newer(p)
  <2>1. Full(p, k)
    BY <1>2, <1>3, <1>6 DEF IndexFits
  <2> QED
    BY <1>4, <1>5, <2>1 DEF Full
<1>7. CASE ~(k < Newer(p))
  <2>1. k = Newer(p)
    BY <1>2, <1>3, <1>7
  <2>2. PICK lo, hi : Ring(p, lo, hi)
    BY <1>3 DEF IndexFits, HasRing
  <2>3. /\ lo \in Nat /\ hi \in Int /\ Last(p) <= hi
        /\ \A s \in Places(k), m \in Nat : Holds(p, Slot(p, k, s), m) => m \in lo .. hi
        /\ \A m \in lo .. hi : \E s \in Places(k) : Holds(p, Slot(p, k, s), m)
    BY <2>1, <2>2 DEF Ring
  <2>4. PICK n \in Nat : n < FirstNew(p) /\ \E e \in Entries : Holds(p, e, n)
    <3>1. loc[c].base \in Remaining(c)
      BY <1>1 DEF ClaimedFits, Remaining, Reading
    <3>2. PICK i \in Remaining(c) : i = loc[c].base
      BY <3>1
    <3>3. Num(i) \in Nat /\ Num(i) < FirstNew(p) /\ \E e \in Entries : Stores(p, e, Num(i))
      BY ClaimedStored
    <3> QED
      BY <3>3 DEF Stores, Finds
  <2>5. n \in lo .. hi
    <3>1. PICK e \in Entries : Holds(p, e, n)
      BY <2>4
    <3>2. PICK s \in Places(k) : Slot(p, k, s) = e
      BY <1>3, <2>1, <3>1, HeldNumber
    <3> QED
      BY <2>3, <3>1, <3>2
  <2>6. Last(p) \in lo .. hi /\ Last(p) \in Nat
    <3>1. Last(p) >= Allocated(p) - 1
      BY <1>3 DEF Last
    <3> QED
      BY <1>3, <2>3, <2>4, <2>5, <3>1
  <2>7. PICK l \in Nat : l = Last(p)
    BY <2>6
  <2>8. PICK s \in Places(k) : Holds(p, Slot(p, k, s), l)
    BY <2>3, <2>6, <2>7
  <2>9. Whole((l - s) - (l - t), Size(k))
    <3>1. Current(p).tail = t
      BY <1>4, <2>1 DEF Current, Newer
    <3> QED
      BY <1>3, <2>1, <2>7, <2>8, <3>1 DEF IndexFits, AtTail
  <2>10. k \in Nat \ {0} /\ s \in Nat /\ t \in Nat
    BY <1>2, <1>3, <1>5, <2>8, HeaderFacts
  <2>11. t - s = (l - s) - (l - t)
    BY <2>10
  <2>12. Whole(t - s, Size(k))
    BY <2>9, <2>11
  <2>13. t = s
    BY <1>5, <2>8, <2>10, <2>12, WholePlaces
  <2> QED
    BY <1>4, <1>5, <2>8, <2>13
<1> QED
  BY <1>6, <1>7

LEMMA LoadSlotPlaces ==
    ASSUME ClaimInv, PlacesInv, NEW c \in Consumers, LoadSlot(c)
    PROVE  PlacesInv'
<1>1. PICK p, k, t, call : /\ p = From(c) /\ k = loc[c].header /\ t = blockIndex[p][k].tail
                           /\ call = [loc[c] EXCEPT !.pos = t]
  OBVIOUS
<1>2. Step(c, "slot", "key") /\ loc' = [loc EXCEPT ![c] = call]
  BY <1>1 DEF LoadSlot, Set, Header
<1>3. /\ pc[c] = "slot" /\ pc'[c] = "key" /\ loc'[c] = call /\ From(c)' = call.from
      /\ headIndex' = headIndex /\ blockIndex' = blockIndex
      /\ \A q, e, m : (Holds(q, e, m)' <=> Holds(q, e, m)) /\ (Finds(q, e, m)' <=> Finds(q, e, m))
      /\ \A q : Newer(q)' = Newer(q)
  BY <1>2, StepLeaves
<1>4. ConsumerFits(c) /\ ClaimedFits(c) /\ HeaderKnown(c) /\ DOMAIN loc[c] = Fields /\ p \in Producers
  BY <1>1, <1>3, ConsumerKnown DEF AtProducer
<1>5. /\ call.base = loc[c].base /\ call.extra = loc[c].extra /\ call.from = p
      /\ call.header = k /\ call.pos = t
  BY <1>1, <1>4 DEF Fields, From
<1>6. Remaining(c)' = Remaining(c)
  BY <1>3, <1>5 DEF Remaining, Reading
<1>7. t \in Places(k) /\ \E m \in Nat : Holds(p, Slot(p, k, t), m)
  BY <1>1, <1>3, TailHeld
<1>8. PICK x : x = Slot(p, k, t)
  OBVIOUS
<1>9. Entry(c)' = x
  BY <1>3, <1>5, <1>8 DEF Entry, Header, Slot
<1>10. ClaimedFits(c)'
  BY <1>1, <1>3, <1>4, <1>5 DEF ClaimedFits, Reading, From
<1>11. HeaderKnown(c)'
  BY <1>1, <1>3, <1>4, <1>5, <1>6 DEF HeaderKnown
<1>12. EntryKnown(c)'
  <2>1. \E m \in Nat : Holds(p, x, m)'
    BY <1>3, <1>7, <1>8
  <2> QED
    BY <1>3, <1>5, <1>7, <1>9, <2>1 DEF EntryKnown
<1> QED
  BY <1>1, <1>2, <1>5, <1>6, <1>10, <1>11, <1>12, WithinStep DEF ConsumerFits

LEMMA LoadKeyPlaces ==
    ASSUME ClaimInv, PlacesInv, NEW c \in Consumers, LoadKey(c)
    PROVE  PlacesInv'
<1>1. PICK p, k, n, d, t, call :
         /\ p = From(c) /\ k = loc[c].header /\ n = Num(loc[c].base)
         /\ d = (Base(loc[c].base) - key[p][Entry(c)]) \div BlockSize
         /\ t = Later(Header(c), loc[c].pos, d)
         /\ call = [loc[c] EXCEPT !.pos = t]
  OBVIOUS
<1>2. Step(c, "key", "take") /\ loc' = [loc EXCEPT ![c] = call]
  BY <1>1 DEF LoadKey, Set
<1>3. /\ pc[c] = "key" /\ pc'[c] = "take" /\ loc'[c] = call /\ From(c)' = call.from
      /\ headIndex' = headIndex /\ blockIndex' = blockIndex
      /\ \A q, e, m : (Holds(q, e, m)' <=> Holds(q, e, m)) /\ (Finds(q, e, m)' <=> Finds(q, e, m))
      /\ \A q : Newer(q)' = Newer(q)
  BY <1>2, StepLeaves
<1>4. ConsumerFits(c) /\ ClaimedFits(c) /\ HeaderKnown(c) /\ EntryKnown(c) /\ DOMAIN loc[c] = Fields
      /\ p \in Producers
  BY <1>1, <1>3, ConsumerKnown DEF AtProducer
<1>5. /\ call.base = loc[c].base /\ call.extra = loc[c].extra /\ call.from = p
      /\ call.header = k /\ call.pos = t
  BY <1>1, <1>4 DEF Fields, From
<1>6. Remaining(c)' = Remaining(c)
  BY <1>3, <1>5 DEF Remaining, Reading
<1>7. PICK m \in Nat : Holds(p, Entry(c), m)
  BY <1>1, <1>3, <1>4 DEF EntryKnown
<1>8. n \in Nat /\ Base(loc[c].base) = Start(n) /\ loc[c].base \in Remaining(c)
  <2>1. loc[c].base \in Nat /\ loc[c].base \in Remaining(c)
    BY <1>3, <1>4 DEF ClaimedFits, Remaining, Reading
  <2> QED
    BY <1>1, <2>1, NumFacts
<1>9. d = n - m
  <2>1. d = (Start(n) - Start(m)) \div BlockSize
    BY <1>1, <1>7, <1>8 DEF Holds
  <2>2. Start(n) - Start(m) = Start(n - m) /\ n - m \in Int
    BY <1>8, StartSum
  <2>3. PICK z \in Int : z = n - m
    BY <2>2
  <2>4. Start(z) \div BlockSize = z
    BY ONLY <2>3, DivStart
  <2> QED
    BY <2>1, <2>2, <2>3, <2>4
<1>10. t \in Places(k) /\ Slot(p, k, t) \in Entries /\ Stores(p, Slot(p, k, t), n)
  <2>1. PICK i \in Remaining(c) : i = loc[c].base
    BY <1>8
  <2>2. Whole((Num(i) - m) - d, Size(k)) /\ d \in Int
    <3>1. (n - m) - d = 0 /\ d \in Int
      BY <1>8, <1>9
    <3>2. Size(k) \in Nat
      BY <1>1, <1>3, <1>4, EntryFacts, ProducerKnown
    <3>3. Whole(0, Size(k))
      BY <3>2, WholeFacts
    <3> QED
      BY <1>1, <2>1, <3>1, <3>3
  <2>3. /\ Later(Header(c), loc[c].pos, d) \in Places(loc[c].header)
        /\ Slot(p, loc[c].header, Later(Header(c), loc[c].pos, d)) \in Entries
        /\ Stores(p, Slot(p, loc[c].header, Later(Header(c), loc[c].pos, d)), Num(i))
    BY <1>1, <1>3, <1>7, <2>2, PlaceFound
  <2> QED
    BY <1>1, <2>1, <2>3
<1>11. PICK x : x = Slot(p, k, t)
  OBVIOUS
<1>12. Entry(c)' = x
  BY <1>3, <1>5, <1>11 DEF Entry, Header, Slot
<1>13. ClaimedFits(c)'
  BY <1>1, <1>3, <1>4, <1>5 DEF ClaimedFits, Reading, From
<1>14. HeaderKnown(c)'
  BY <1>1, <1>3, <1>4, <1>5, <1>6 DEF HeaderKnown
<1>15. EntryKnown(c)'
  <2>1. Finds(p, x, n)' /\ \E j \in Nat : Holds(p, x, j)'
    BY <1>3, <1>8, <1>10, <1>11 DEF Stores, Finds
  <2>2. Num(loc[c].base)' = n
    BY <1>1, <1>3, <1>5 DEF Num
  <2> QED
    BY <1>3, <1>5, <1>10, <1>12, <2>1, <2>2 DEF EntryKnown
<1> QED
  BY <1>1, <1>2, <1>5, <1>6, <1>13, <1>14, <1>15, WithinStep DEF ConsumerFits

LEMMA TakePlaces ==
    ASSUME ClaimInv, PlacesInv, NEW c \in Consumers, Take(c)
    PROVE  PlacesInv'
<1>1. PICK p, n, x, call : /\ p = From(c) /\ n = Num(loc[c].base) /\ x = Entry(c)
                           /\ call = [loc[c] EXCEPT !.block = value[p][x]]
  OBVIOUS
<1>2. Step(c, "take", "read") /\ loc' = [loc EXCEPT ![c] = call]
  BY <1>1 DEF Take, Set
<1>3. /\ pc[c] = "take" /\ pc'[c] = "read" /\ loc'[c] = call /\ From(c)' = call.from
      /\ headIndex' = headIndex /\ blockIndex' = blockIndex /\ value' = value
      /\ \A q, e, m : (Holds(q, e, m)' <=> Holds(q, e, m)) /\ (Finds(q, e, m)' <=> Finds(q, e, m))
      /\ \A q : Newer(q)' = Newer(q)
  BY <1>2, StepLeaves
<1>4. ConsumerFits(c) /\ ClaimedFits(c) /\ HeaderKnown(c) /\ EntryKnown(c) /\ DOMAIN loc[c] = Fields
      /\ p \in Producers
  BY <1>1, <1>3, ConsumerKnown DEF AtProducer
<1>5. /\ call.base = loc[c].base /\ call.extra = loc[c].extra /\ call.from = p
      /\ call.header = loc[c].header /\ call.pos = loc[c].pos /\ call.block = value[p][x]
  BY <1>1, <1>4 DEF Fields, From
<1>6. Remaining(c)' = Remaining(c)
  BY <1>3, <1>5 DEF Remaining, Reading
<1>7. Entry(c)' = x
  BY <1>1, <1>3, <1>5 DEF Entry, Header, From
<1>8. ClaimedFits(c)'
  BY <1>1, <1>3, <1>4, <1>5 DEF ClaimedFits, Reading, From
<1>9. HeaderKnown(c)'
  BY <1>1, <1>3, <1>4, <1>5, <1>6 DEF HeaderKnown
<1>10. EntryKnown(c)'
  <2>1. Finds(p, x, n) /\ (\E j \in Nat : Holds(p, x, j)) /\ loc[c].pos \in Places(loc[c].header)
    BY <1>1, <1>3, <1>4 DEF EntryKnown
  <2>2. Num(loc[c].base)' = n
    BY <1>1, <1>3, <1>5 DEF Num
  <2> QED
    BY <1>3, <1>5, <1>7, <2>1, <2>2 DEF EntryKnown
<1> QED
  BY <1>1, <1>2, <1>5, <1>6, <1>8, <1>9, <1>10, WithinStep DEF ConsumerFits

\* The next block of a claim is one place further in the header.
LEMMA NextFound ==
    ASSUME ClaimInv, PlacesInv, NEW c \in Consumers, NEW p, p = From(c),
           pc[c] \in {"read", "free"}, End(c) # loc[c].extra,
           NEW to, to = Later(Header(c), loc[c].pos, 1)
    PROVE  /\ to \in Places(loc[c].header) /\ End(c) \in Nat /\ End(c) < loc[c].extra
           /\ Slot(p, loc[c].header, to) \in Entries
           /\ Stores(p, Slot(p, loc[c].header, to), Num(End(c)))
           /\ loc[c].extra \in Nat /\ loc[c].extra <= headIndex[p]
<1>1. /\ ClaimedFits(c) /\ HeaderKnown(c) /\ EntryKnown(c) /\ p \in Producers
  BY ConsumerKnown DEF AtProducer
<1>2. HeadersFit(p)
  BY <1>1, ProducerKnown
<1>3. pc[c] \in Reading \cup Parting
  BY DEF Reading, Parting
<1>4. /\ loc[c].base \in Nat /\ loc[c].extra \in Nat /\ loc[c].extra <= headIndex[p]
  BY <1>1, <1>3 DEF ClaimedFits
<1>5. /\ End(c) \in Nat /\ End(c) > loc[c].base /\ End(c) <= loc[c].extra
      /\ End(c) < loc[c].extra => End(c) = Start(Num(loc[c].base) + 1)
  BY <1>1, <1>3, MineFacts
<1>6. PICK i \in Nat, n \in Nat : i = End(c) /\ n = Num(loc[c].base)
  BY <1>4, <1>5, NumFacts
<1>7. i < loc[c].extra /\ i = Start(n + 1)
  BY <1>4, <1>5, <1>6
<1>8. Num(i) = n + 1
  <2>1. Start(n + 1) <= i /\ i < Start(n + 1) + BlockSize /\ n + 1 \in Int
    BY <1>7, BlockSizeFact
  <2> QED
    BY <2>1, NumUnique
<1>9. i \in Remaining(c)
  <2>1. i \in loc[c].base .. loc[c].extra - 1 /\ i \in End(c) .. loc[c].extra - 1
    BY <1>4, <1>5, <1>6, <1>7
  <2> QED
    BY <2>1 DEF Remaining, Reading, Parting
<1>10. PICK m \in Nat : Holds(p, Entry(c), m) /\ Whole(m - n, Size(loc[c].header))
  <2>1. pc[c] \in {"take", "read", "unindex", "free"}
    OBVIOUS
  <2> QED
    BY <1>1, <1>2, <1>6, <2>1, EntryNear
<1>11. Whole((Num(i) - m) - 1, Size(loc[c].header))
  <2>1. Size(loc[c].header) \in Nat
    BY <1>1, <1>2, EntryFacts
  <2>2. Whole(0, Size(loc[c].header))
    BY <2>1, WholeFacts
  <2>3. (Num(i) - m) - 1 = 0 - (m - n)
    BY <1>8
  <2>4. (Num(i) - m) - 1 \in Int /\ m - n \in Int
    BY <1>8
  <2> QED
    BY <1>10, <2>1, <2>2, <2>3, <2>4, WholeSum
<1>12. /\ Later(Header(c), loc[c].pos, 1) \in Places(loc[c].header)
       /\ Slot(p, loc[c].header, Later(Header(c), loc[c].pos, 1)) \in Entries
       /\ Stores(p, Slot(p, loc[c].header, Later(Header(c), loc[c].pos, 1)), Num(i))
  <2>1. pc[c] \in {"key", "take", "read", "free"} /\ 1 \in Int
    OBVIOUS
  <2>2. PICK d \in Int : d = 1
    OBVIOUS
  <2>3. Whole((Num(i) - m) - d, Size(loc[c].header))
    BY <1>11, <2>2
  <2> QED
    BY <1>9, <1>10, <2>1, <2>2, <2>3, PlaceFound
<1> QED
  BY <1>4, <1>5, <1>6, <1>7, <1>12

\* A consumer that is done with a block goes on with the next one.
LEMMA OnwardFits ==
    ASSUME ClaimInv, PlacesInv, NEW c \in Consumers, pc[c] \in {"read", "free"},
           pc'[c] = Onward(c), loc'[c] = NextBlock(c), headIndex' = headIndex,
           UNCHANGED entries
    PROVE  /\ Remaining(c)' = End(c) .. loc[c].extra - 1
           /\ Remaining(c)' # {} => loc'[c].from = From(c)
           /\ pc'[c] # "unindex" /\ ConsumerFits(c)'
<1>1. PICK p : p = From(c)
  OBVIOUS
<1>2. /\ ClaimedFits(c) /\ HeaderKnown(c) /\ p \in Producers /\ DOMAIN loc[c] = Fields
  BY <1>1, ConsumerKnown DEF AtProducer
<1>3. /\ loc[c].extra \in Nat /\ End(c) \in Nat
  BY <1>2, MineFacts DEF ClaimedFits, Reading, Parting
<1>4. CASE End(c) = loc[c].extra
  <2>1. pc'[c] = "turn" /\ End(c) .. loc[c].extra - 1 = {}
    BY <1>3, <1>4 DEF Onward
  <2>2. Remaining(c)' = {}
    BY <2>1 DEF Remaining, Reading, Parting
  <2>3. ClaimedFits(c)' /\ HeaderKnown(c)' /\ EntryKnown(c)'
    BY <2>1 DEF ClaimedFits, HeaderKnown, EntryKnown, Reading, Parting
  <2> QED
    BY <2>1, <2>2, <2>3 DEF ConsumerFits
<1>5. CASE End(c) # loc[c].extra
  <2>1. PICK k, i, to, x : /\ k = loc[c].header /\ i = End(c) /\ x = Slot(p, k, to)
                           /\ to = Later(Header(c), loc[c].pos, 1)
    OBVIOUS
  <2>2. pc'[c] = "take" /\ loc'[c] = [loc[c] EXCEPT !.base = i, !.pos = to, !.block = Null]
    BY <1>5, <2>1 DEF Onward, NextBlock
  <2>3. PICK call : call = loc'[c]
    OBVIOUS
  <2>4. /\ call.base = i /\ call.pos = to /\ call.extra = loc[c].extra /\ call.header = k
        /\ call.from = p
    BY <1>1, <1>2, <2>1, <2>2, <2>3 DEF Fields, From
  <2>5. /\ to \in Places(k) /\ i \in Nat /\ i < loc[c].extra /\ x \in Entries
        /\ Stores(p, x, Num(i)) /\ loc[c].extra <= headIndex[p]
    BY <1>1, <1>5, <2>1, NextFound
  <2>6. /\ blockIndex' = blockIndex /\ value' = value /\ key' = key
    BY DEF entries
  <2>7. /\ \A q, e, m : (Holds(q, e, m)' <=> Holds(q, e, m)) /\ (Finds(q, e, m)' <=> Finds(q, e, m))
        /\ \A q : Newer(q)' = Newer(q)
    BY <2>6 DEF Holds, Finds, Newer
  <2>8. From(c)' = p /\ Entry(c)' = x
    BY <2>1, <2>3, <2>4, <2>6 DEF From, Entry, Header, Slot
  <2>9. Remaining(c)' = i .. loc[c].extra - 1
    BY <2>2, <2>3, <2>4 DEF Remaining, Reading
  <2>10. ClaimedFits(c)'
    BY <1>3, <2>2, <2>3, <2>4, <2>5, <2>8 DEF ClaimedFits, Parting
  <2>11. HeaderKnown(c)'
    <3>1. /\ k \in 1 .. Newer(p)
          /\ \A j \in Remaining(c), e \in Entries : Finds(p, e, Num(j)) => e <= Size(k)
      BY <1>1, <1>2, <2>1 DEF HeaderKnown
    <3>2. i .. loc[c].extra - 1 \subseteq Remaining(c)
      <4>1. loc[c].base \in Nat /\ End(c) > loc[c].base
        BY <1>2, MineFacts DEF ClaimedFits, Reading, Parting
      <4>2. i .. loc[c].extra - 1 \subseteq loc[c].base .. loc[c].extra - 1
        BY <1>3, <2>1, <4>1
      <4> QED
        BY <2>1, <4>2 DEF Remaining, Reading, Parting
    <3> QED
      BY <2>3, <2>4, <2>7, <2>8, <2>9, <3>1, <3>2 DEF HeaderKnown
  <2>12. EntryKnown(c)'
    <3>1. PICK n : n = Num(i)
      OBVIOUS
    <3>2. Num(loc[c].base)' = n
      BY <2>3, <2>4, <3>1 DEF Num
    <3>3. n \in Nat /\ Finds(p, x, n)' /\ Holds(p, x, n)'
      BY <2>5, <2>7, <3>1, NumFacts DEF Stores, Finds
    <3> QED
      BY <2>2, <2>3, <2>4, <2>5, <2>8, <3>2, <3>3 DEF EntryKnown
  <2> QED
    BY <2>1, <2>2, <2>3, <2>4, <2>9, <2>10, <2>11, <2>12, <1>1 DEF ConsumerFits
<1> QED
  BY <1>4, <1>5

LEMMA FreedPlaces ==
    ASSUME ClaimInv, PlacesInv, NEW c \in Consumers, Freed(c)
    PROVE  PlacesInv'
<1>1. PICK to, call : to = Onward(c) /\ call = NextBlock(c)
  OBVIOUS
<1>2. Step(c, "free", to) /\ loc' = [loc EXCEPT ![c] = call]
  BY <1>1 DEF Freed
<1>3. /\ pc[c] = "free" /\ pc'[c] = to /\ loc'[c] = call /\ headIndex' = headIndex
  BY <1>2, StepLeaves
<1>4. UNCHANGED entries
  BY <1>2 DEF Step
<1>5. /\ Remaining(c)' = End(c) .. loc[c].extra - 1
      /\ Remaining(c)' # {} => loc'[c].from = From(c)
      /\ pc'[c] # "unindex" /\ ConsumerFits(c)'
  BY <1>1, <1>3, <1>4, OnwardFits
<1>6. Remaining(c)' = Remaining(c)
  BY <1>3, <1>5 DEF Remaining, Reading, Parting
<1> QED
  BY <1>2, <1>3, <1>5, <1>6, WithinStep

LEMMA TakeHeadPlaces ==
    ASSUME ClaimInv, PlacesInv, NEW c \in Consumers, TakeHead(c)
    PROVE  PlacesInv'
<1>1. PICK p, h, n, call : /\ p = From(c) /\ h = headIndex[p] /\ n = loc[c].count
                           /\ call = [loc[c] EXCEPT !.base = h, !.extra = h + n]
  OBVIOUS
<1>2. /\ pc[c] = "head" /\ pc' = [pc EXCEPT ![c] = "header"]
      /\ headIndex' = [headIndex EXCEPT ![p] = @ + n] /\ loc' = [loc EXCEPT ![c] = call]
      /\ UNCHANGED <<freeList, tailIndex, entries, blocks, tailBlock>>
  BY <1>1 DEF TakeHead, Go
<1>3. /\ pc'[c] = "header" /\ loc'[c] = call
      /\ \A t \in Threads \ {c} : pc'[t] = pc[t] /\ loc'[t] = loc[t]
  BY <1>2, ConsumerKnown
<1>4. /\ ClaimedFits(c) /\ DOMAIN loc[c] = Fields /\ p \in Producers
  BY <1>1, <1>2, ConsumerKnown DEF AtProducer
<1>5. h \in Nat /\ n \in Nat /\ n >= 1
  <2>1. n >= 1 /\ n \in Int
    BY <1>1, <1>2, <1>4 DEF ClaimedFits, ClaimInv, Knows, Fits
  <2> QED
    BY <1>1, <1>4, <2>1, HeadBehind
<1>6. /\ call.base = h /\ call.extra = h + n /\ call.from = p
  BY <1>1, <1>4 DEF Fields, From
<1>7. /\ headIndex'[p] = h + n /\ \A q \in Producers \ {p} : headIndex'[q] = headIndex[q]
  BY <1>1, <1>2, <1>4 DEF ClaimInv, Typed
<1>8. Remaining(c) = {} /\ Remaining(c)' = h .. h + n - 1 /\ From(c)' = p
  <2>1. pc[c] \notin Reading \cup Parting
    BY <1>2 DEF Reading, Parting
  <2>2. Remaining(c) = {}
    BY <2>1 DEF Remaining
  <2>3. pc'[c] \in Reading
    BY <1>3 DEF Reading
  <2>4. Remaining(c)' = loc'[c].base .. loc'[c].extra - 1
    BY <2>3 DEF Remaining, Reading
  <2>5. loc'[c].base = h /\ loc'[c].extra = h + n /\ loc'[c].from = p
    BY <1>3, <1>6
  <2>6. From(c)' = p
    BY <2>5 DEF From
  <2>7. PICK e : e = h + n
    OBVIOUS
  <2>8. loc'[c].base .. loc'[c].extra - 1 = h .. e - 1
    BY <2>5, <2>7
  <2>9. Remaining(c)' = h .. e - 1
    BY <2>4, <2>8
  <2>10. Remaining(c)' = h .. h + n - 1
    BY <1>5, <2>7, <2>9
  <2> QED
    BY <2>2, <2>6, <2>10
<1>9. \A d \in Consumers \ {c} : /\ Remaining(d)' = Remaining(d) /\ From(d)' = From(d)
                                 /\ pc'[d] = pc[d] /\ loc'[d] = loc[d]
  BY <1>3, Assumed, RemainingStays
<1>10. ASSUME NEW q \in Producers, NEW m \in Nat PROVE Unread(q, m)' = Unread(q, m)
  <2>1. Cells(m) \subseteq Nat
    BY CellsFacts
  <2>2. CASE q = p
    <3>1. \A i \in Nat : i >= h <=> i >= h + n \/ i \in h .. h + n - 1
      BY <1>5
    <3>2. \A i : (\E d \in Consumers : From(d)' = q /\ i \in Remaining(d)')
                 <=> i \in h .. h + n - 1 \/ \E d \in Consumers : From(d) = q /\ i \in Remaining(d)
      BY <1>8, <1>9, <2>2
    <3>3. \A i \in Cells(m) : i \in Unread(q, m)' <=> i \in Unread(q, m)
      BY <1>1, <1>7, <2>1, <2>2, <3>1, <3>2 DEF Unread
    <3> QED
      BY <3>3 DEF Unread
  <2>3. CASE q # p
    <3>1. \A i : (\E d \in Consumers : From(d)' = q /\ i \in Remaining(d)')
                 <=> \E d \in Consumers : From(d) = q /\ i \in Remaining(d)
      BY <1>1, <1>8, <1>9, <2>3
    <3>2. headIndex'[q] = headIndex[q]
      BY <1>7, <2>3
    <3> QED
      BY <3>1, <3>2 DEF Unread
  <2> QED
    BY <2>2, <2>3
<1>11. ConsumerFits(c)'
  <2>1. ClaimedFits(c)'
    <3>1. h < h + n /\ h + n \in Nat
      BY <1>5
    <3> QED
      BY <1>3, <1>5, <1>6, <1>7, <1>8, <3>1 DEF ClaimedFits, Parting
  <2>2. HeaderKnown(c)' /\ EntryKnown(c)'
    BY <1>3 DEF HeaderKnown, EntryKnown
  <2> QED
    BY <2>1, <2>2 DEF ConsumerFits
<1>12. ASSUME NEW d \in Consumers, d # c, From(d) = p, NEW i \in Remaining(d)
       PROVE  i \notin h .. h + n - 1
  <2>1. i \in Nat /\ i < h
    BY <1>1, <1>12, ClaimedStored
  <2> QED
    BY <1>5, <2>1
<1>13. ClaimsApart'
  BY <1>3, <1>8, <1>9, <1>12, ApartBesides DEF PlacesInv
<1>14. ListInv(InUse) => ListInv(InUse)'
  <2>1. \A q \in Producers : (pc'[q] = "free" <=> pc[q] = "free") /\ loc'[q].got = loc[q].got
    BY <1>3, Assumed
  <2> QED
    BY <1>2, <2>1, HomesStay DEF entries, blocks
<1>15. \A q \in Producers : headIndex'[q] \in Nat /\ headIndex'[q] >= headIndex[q]
  <2>1. h + n \in Nat /\ h + n >= h
    BY <1>5
  <2> QED
    BY <1>1, <1>7, <2>1, HeadBehind
<1>16. PICK T \in SUBSET Consumers : T = {c}
  OBVIOUS
<1>17. /\ \A t \in Threads \ T : pc'[t] = pc[t] /\ loc'[t] = loc[t]
       /\ \A d \in T : ConsumerFits(d)'
  BY <1>3, <1>11, <1>16
<1> QED
  BY <1>2, <1>10, <1>13, <1>14, <1>15, <1>17, QuietConsumers

LEMMA UnreadFinite ==
    ASSUME NEW q, NEW m \in Nat
    PROVE  /\ Unread(q, m) \subseteq Cells(m) /\ IsFiniteSet(Unread(q, m))
           /\ Cardinality(Unread(q, m)) \in Nat
<1>1. Unread(q, m) \subseteq Cells(m)
  BY DEF Unread
<1> QED
  BY <1>1, CellsFacts, FS_Subset, FS_CardinalityType

\* Where a consumer that reads is.
LEMMA ReadFacts ==
    ASSUME ClaimInv, PlacesInv, NEW c \in Consumers, pc[c] \in {"read", "unindex"},
           NEW p, p = From(c), NEW n, n = Num(loc[c].base), NEW x, x = Entry(c),
           NEW b, b = loc[c].block
    PROVE  /\ p \in Producers /\ n \in Nat /\ x \in Entries /\ b \in Blocks /\ b = value[p][x]
           /\ Finds(p, x, n) /\ n < FirstNew(p)
           /\ pc[c] = "read" => Stores(p, x, n)
<1>1. /\ ClaimedFits(c) /\ HeaderKnown(c) /\ EntryKnown(c) /\ p \in Producers
  BY ConsumerKnown DEF AtProducer
<1>2. HeadersFit(p) /\ IndexFits(p) /\ Last(p) \in Int
  BY <1>1, ProducerKnown
<1>3. x \in Entries /\ Finds(p, x, n) /\ b = value[p][x]
  BY <1>1, <1>2, EntryFacts DEF EntryKnown
<1>4. b \in Blocks
  <2>1. value[p][x] \in Blocks \cup {Null}
    BY <1>1, <1>3 DEF PlacesInv, PlacesTyped
  <2> QED
    BY <1>3, <2>1 DEF Finds
<1>5. /\ loc[c].base \in Nat /\ loc[c].extra \in Nat /\ loc[c].base < loc[c].extra
      /\ loc[c].extra <= headIndex[p]
  BY <1>1 DEF ClaimedFits, Reading, Parting
<1>6. n \in Nat
  BY <1>5, NumFacts
<1>7. n < FirstNew(p)
  <2>1. headIndex[p] \in Nat /\ tailIndex[p] \in Nat /\ headIndex[p] <= tailIndex[p]
    BY <1>1, HeadBehind
  <2>2. loc[c].base < tailIndex[p]
    BY <1>5, <2>1
  <2> QED
    BY <1>5, <2>1, <2>2, FirstNewFacts
<1>8. ASSUME pc[c] = "read" PROVE Stores(p, x, n)
  <2>1. PICK i \in Nat : i = loc[c].base
    BY <1>5
  <2>2. i \in Remaining(c)
    <3>1. i \in loc[c].base .. loc[c].extra - 1
      BY <1>5, <2>1
    <3> QED
      BY <1>8, <3>1 DEF Remaining, Reading
  <2>3. PICK e \in Entries : Stores(p, e, n)
    BY <2>1, <2>2, ClaimedStored
  <2>4. e = x
    BY <1>2, <1>3, <1>6, <2>3, EntryOnce DEF Stores, Finds
  <2> QED
    BY <2>3, <2>4
<1> QED
  BY <1>1, <1>3, <1>4, <1>6, <1>7, <1>8

TakesBlock(c, p, n) ==
    /\ pc[c] = "read" /\ p = From(c) /\ n = Num(loc[c].base) /\ headIndex' = headIndex
    /\ \A d \in Consumers \ {c} : pc'[d] = pc[d] /\ loc'[d] = loc[d]
    /\ Remaining(c)' = End(c) .. loc[c].extra - 1
    /\ Remaining(c)' # {} => From(c)' = p
UnreadSame(q, m) == Unread(q, m)' = Unread(q, m)

\* What a step that takes the elements of a block leaves unread.
LEMMA UnreadTaken ==
    ASSUME ClaimInv, PlacesInv, NEW c \in Consumers, NEW p, NEW n, TakesBlock(c, p, n)
    PROVE  /\ Mine(c) \subseteq Unread(p, n) /\ Mine(c) # {}
           /\ Unread(p, n)' = Unread(p, n) \ Mine(c)
           /\ \A q \in Producers : \A m \in Nat : q # p \/ m # n => UnreadSame(q, m)
           /\ Remaining(c)' \subseteq Remaining(c)
<1> USE DEF TakesBlock
<1>1. /\ ClaimedFits(c) /\ p \in Producers
  BY ConsumerKnown DEF AtProducer
<1>2. PICK lo, mid, hi : lo = loc[c].base /\ mid = End(c) /\ hi = loc[c].extra
  OBVIOUS
<1>3. /\ lo \in Nat /\ mid \in Nat /\ hi \in Nat /\ lo < mid /\ mid <= hi
      /\ Mine(c) = lo .. mid - 1 /\ Mine(c) \subseteq Cells(n)
      /\ hi <= headIndex[p]
  BY <1>1, <1>2, MineFacts DEF ClaimedFits, Reading, Parting
<1>4. Remaining(c) = lo .. hi - 1 /\ Remaining(c)' = mid .. hi - 1
  BY <1>2 DEF Remaining, Reading
<1>5. n \in Nat /\ headIndex[p] \in Nat
  BY <1>1, <1>2, <1>3, NumFacts, HeadBehind
<1>6. /\ Mine(c) # {} /\ Mine(c) \subseteq Remaining(c) /\ Remaining(c)' \subseteq Remaining(c)
      /\ \A i \in Remaining(c) : i \in Mine(c) \/ i \in Remaining(c)'
      /\ \A i \in Mine(c) : i \notin Remaining(c)' /\ i < headIndex[p] /\ ~(i >= headIndex[p])
  <2>1. lo \in lo .. mid - 1
    BY <1>3
  <2>2. lo .. mid - 1 \subseteq lo .. hi - 1 /\ mid .. hi - 1 \subseteq lo .. hi - 1
    BY <1>3
  <2>3. \A i \in lo .. hi - 1 : i \in lo .. mid - 1 \/ i \in mid .. hi - 1
    BY <1>3
  <2>4. \A i \in lo .. mid - 1 : i \notin mid .. hi - 1 /\ i < headIndex[p] /\ ~(i >= headIndex[p])
    BY <1>3, <1>5
  <2> QED
    BY <1>3, <1>4, <2>1, <2>2, <2>3, <2>4
<1>7. Mine(c) \subseteq Unread(p, n)
  BY <1>3, <1>6 DEF Unread
<1>8. \A d \in Consumers \ {c} : Remaining(d)' = Remaining(d) /\ From(d)' = From(d)
  BY RemainingStays
<1>9. \A d \in Consumers \ {c} : From(d) = p => Remaining(d) \cap Remaining(c) = {}
  BY DEF PlacesInv, ClaimsApart
<1>10. Unread(p, n)' = Unread(p, n) \ Mine(c)
  <2>1. ASSUME NEW i \in Cells(n)
        PROVE  i \in Unread(p, n)' <=> i \in Unread(p, n) /\ i \notin Mine(c)
    <3>1. CASE i \in Mine(c)
      <4>1. \A d \in Consumers : ~(From(d)' = p /\ i \in Remaining(d)')
        BY <1>6, <1>8, <1>9, <3>1
      <4>2. ~(i >= headIndex'[p])
        BY <1>6, <3>1
      <4> QED
        BY <3>1, <4>1, <4>2 DEF Unread
    <3>2. CASE i \notin Mine(c)
      <4>1. (\E d \in Consumers : From(d)' = p /\ i \in Remaining(d)')
              <=> \E d \in Consumers : From(d) = p /\ i \in Remaining(d)
        BY <1>6, <1>8, <3>2
      <4> QED
        BY <3>2, <4>1 DEF Unread
    <3> QED
      BY <3>1, <3>2
  <2> QED
    BY <2>1 DEF Unread
<1>11. ASSUME NEW q \in Producers, NEW m \in Nat, q # p \/ m # n PROVE UnreadSame(q, m)
  <2>1. ASSUME NEW i \in Cells(m)
        PROVE  (\E d \in Consumers : From(d)' = q /\ i \in Remaining(d)')
                  <=> \E d \in Consumers : From(d) = q /\ i \in Remaining(d)
    <3>1. CASE q # p
      BY <1>8, <3>1
    <3>2. CASE q = p
      <4>1. i \notin Mine(c)
        <5>1. i \in Nat
          BY CellsFacts
        <5>2. i \in Mine(c) => Num(i) = n /\ Num(i) = m
          BY <1>3, <1>5, <5>1, NumOrder
        <5> QED
          BY <1>11, <3>2, <5>2
      <4> QED
        BY <1>6, <1>8, <3>2, <4>1
    <3> QED
      BY <3>1, <3>2
  <2> QED
    BY <2>1 DEF Unread, UnreadSame
<1> QED
  BY <1>6, <1>7, <1>10, <1>11

\* What a step that takes the elements of a block comes to.
LEMMA TakenFits ==
    ASSUME ClaimInv, PlacesInv, NEW c \in Consumers, pc[c] = "read",
           NEW p, p = From(c), NEW n, n = Num(loc[c].base), NEW x, x = Entry(c),
           NEW taken \in Nat, taken = BlockSize <=> Unread(p, n)' = {},
           headIndex' = headIndex, UNCHANGED entries,
           pc' = [pc EXCEPT ![c] = IF taken = BlockSize THEN "unindex" ELSE Onward(c)],
           loc' = [loc EXCEPT ![c] = IF taken = BlockSize THEN @ ELSE NextBlock(c)]
    PROVE  /\ Remaining(c)' = End(c) .. loc[c].extra - 1
           /\ Remaining(c)' # {} => From(c)' = p
           /\ pc'[c] = "unindex" => From(c)' = p /\ loc'[c].base = loc[c].base /\ Unread(p, n)' = {}
           /\ ConsumerFits(c)'
<1>1. c \in Threads /\ DOMAIN pc = Threads /\ DOMAIN loc = Threads
  BY ConsumerKnown
<1>2. CASE taken = BlockSize
  <2>1. pc'[c] = "unindex" /\ loc'[c] = loc[c]
    BY <1>1, <1>2
  <2>2. From(c)' = p /\ End(c)' = End(c) /\ Num(loc[c].base)' = n
    BY <2>1 DEF From, End, Mine, Num
  <2>3. Remaining(c)' = End(c) .. loc[c].extra - 1
    BY <2>1, <2>2 DEF Remaining, Reading, Parting
  <2>4. blockIndex' = blockIndex /\ key' = key /\ value' = value
    BY DEF entries
  <2>5. /\ \A q, e, m : (Holds(q, e, m)' <=> Holds(q, e, m)) /\ (Finds(q, e, m)' <=> Finds(q, e, m))
        /\ \A q : Newer(q)' = Newer(q)
        /\ Entry(c)' = x
    BY <2>1, <2>4 DEF Holds, Finds, Newer, Entry, Header, From
  <2>6. /\ ClaimedFits(c) /\ HeaderKnown(c) /\ EntryKnown(c)
    BY ConsumerKnown
  <2>7. ClaimedFits(c)'
    BY <2>1, <2>2, <2>6 DEF ClaimedFits, Reading, Parting
  <2>8. Remaining(c)' \subseteq Remaining(c)
    <3>1. loc[c].base \in Nat /\ loc[c].extra \in Nat /\ End(c) \in Nat /\ End(c) > loc[c].base
      BY <2>6, MineFacts DEF ClaimedFits, Reading, Parting
    <3>2. End(c) .. loc[c].extra - 1 \subseteq loc[c].base .. loc[c].extra - 1
      BY <3>1
    <3> QED
      BY <2>3, <3>2 DEF Remaining, Reading
  <2>9. HeaderKnown(c)'
    BY <2>1, <2>2, <2>5, <2>6, <2>8 DEF HeaderKnown
  <2>10. EntryKnown(c)'
    <3>1. Unread(p, n)' = {}
      BY <1>2
    <3>2. /\ loc[c].pos \in Places(loc[c].header) /\ \E m \in Nat : Holds(p, x, m)
          /\ Finds(p, x, n) /\ loc[c].block = value[p][x]
      BY <2>6 DEF EntryKnown
    <3>3. Unread(From(c), Num(loc[c].base))' = {}
      BY <2>2, <3>1 DEF Unread
    <3> QED
      BY <2>1, <2>2, <2>4, <2>5, <3>2, <3>3 DEF EntryKnown
  <2> QED
    BY <1>2, <2>1, <2>2, <2>3, <2>7, <2>9, <2>10 DEF ConsumerFits
<1>3. CASE taken # BlockSize
  <2>1. pc'[c] = Onward(c) /\ loc'[c] = NextBlock(c)
    BY <1>1, <1>3
  <2>2. /\ Remaining(c)' = End(c) .. loc[c].extra - 1
        /\ Remaining(c)' # {} => loc'[c].from = From(c)
        /\ pc'[c] # "unindex" /\ ConsumerFits(c)'
    BY <2>1, OnwardFits
  <2> QED
    BY <2>2 DEF From
<1> QED
  BY <1>2, <1>3

LEMMA SetEmptyPlaces ==
    ASSUME ClaimInv, PlacesInv, NEW c \in Consumers, SetEmpty(c)
    PROVE  PlacesInv'
<1>1. PICK p, n, x, b : p = From(c) /\ n = Num(loc[c].base) /\ x = Entry(c) /\ b = loc[c].block
  OBVIOUS
<1>2. PICK taken : taken = elementsCompletelyDequeued[b] + Cardinality(Mine(c))
  OBVIOUS
<1>3. /\ pc[c] = "read"
      /\ pc' = [pc EXCEPT ![c] = IF taken = BlockSize THEN "unindex" ELSE Onward(c)]
      /\ elementsCompletelyDequeued' = [elementsCompletelyDequeued EXCEPT ![b] = taken]
      /\ loc' = [loc EXCEPT ![c] = IF taken = BlockSize THEN @ ELSE NextBlock(c)]
      /\ UNCHANGED <<freeList, indices, entries, data, unused, tailBlock>>
  BY <1>1, <1>2 DEF SetEmpty, Go
<1>4. /\ p \in Producers /\ n \in Nat /\ x \in Entries /\ b \in Blocks /\ b = value[p][x]
      /\ Finds(p, x, n) /\ n < FirstNew(p) /\ Stores(p, x, n)
  BY <1>1, <1>3, ReadFacts
<1>5. /\ headIndex' = headIndex /\ tailIndex' = tailIndex /\ blockIndex' = blockIndex
      /\ key' = key /\ value' = value /\ data' = data /\ unused' = unused
      /\ tailBlock' = tailBlock /\ freeList' = freeList
  BY <1>3 DEF indices, entries
<1>6. \A t \in Threads \ {c} : pc'[t] = pc[t] /\ loc'[t] = loc[t]
  BY <1>3, ConsumerKnown
<1>7. \A d \in Consumers \ {c} : pc'[d] = pc[d] /\ loc'[d] = loc[d]
  BY <1>6, Assumed
<1>8. \A q \in Producers : pc'[q] = pc[q] /\ loc'[q] = loc[q]
  BY <1>6, Assumed
<1>9. /\ elementsCompletelyDequeued[b] = BlockSize - Cardinality(Unread(p, n))
      /\ elementsCompletelyDequeued \in [Blocks -> Nat]
  BY <1>4 DEF Stores, PlacesInv, PlacesTyped
<1>10. /\ Remaining(c)' = End(c) .. loc[c].extra - 1
       /\ Remaining(c)' # {} => From(c)' = p
  <2>1. CASE taken = BlockSize
    <3>1. pc'[c] = "unindex" /\ loc'[c] = loc[c]
      BY <1>3, <2>1, ConsumerKnown
    <3>2. End(c)' = End(c) /\ From(c)' = p
      BY <1>1, <3>1 DEF End, Mine, From
    <3> QED
      BY <3>1, <3>2 DEF Remaining, Reading, Parting
  <2>2. CASE taken # BlockSize
    <3>1. pc'[c] = Onward(c) /\ loc'[c] = NextBlock(c)
      BY <1>3, <2>2, ConsumerKnown
    <3>2. UNCHANGED entries
      BY <1>3
    <3> QED
      BY <1>1, <1>3, <1>5, <3>1, <3>2, OnwardFits DEF From
  <2> QED
    BY <2>1, <2>2
<1>11. /\ Mine(c) \subseteq Unread(p, n) /\ Mine(c) # {}
       /\ Unread(p, n)' = Unread(p, n) \ Mine(c)
       /\ \A q \in Producers : \A m \in Nat : q # p \/ m # n => UnreadSame(q, m)
       /\ Remaining(c)' \subseteq Remaining(c)
  <2>1. TakesBlock(c, p, n)
    BY <1>1, <1>3, <1>5, <1>7, <1>10 DEF TakesBlock
  <2> QED
    BY ONLY ClaimInv, PlacesInv, c \in Consumers, <2>1, UnreadTaken
<1>12. PICK U, V : U = Unread(p, n) /\ V = Unread(p, n)'
  OBVIOUS
<1>13. /\ taken \in Nat /\ taken = BlockSize - Cardinality(V)
       /\ taken = BlockSize <=> V = {}
  <2>1. IsFiniteSet(U) /\ Cardinality(U) \in Nat
    BY <1>4, <1>12, UnreadFinite
  <2>2. IsFiniteSet(Mine(c)) /\ Cardinality(Mine(c)) \in Nat
    BY <1>11, <1>12, <2>1, FS_Subset, FS_CardinalityType
  <2>3. V = U \ Mine(c) /\ U \cap Mine(c) = Mine(c)
    BY <1>11, <1>12
  <2>4. IsFiniteSet(V) /\ Cardinality(V) = Cardinality(U) - Cardinality(Mine(c))
    BY <2>1, <2>3, FS_Difference
  <2>5. Cardinality(V) \in Nat /\ (Cardinality(V) = 0 <=> V = {})
    BY <2>4, FS_CardinalityType, FS_EmptySet
  <2>6. PICK e, u, v, k : /\ e = elementsCompletelyDequeued[b] /\ u = Cardinality(U)
                          /\ v = Cardinality(V) /\ k = Cardinality(Mine(c))
    OBVIOUS
  <2>7. e \in Nat /\ u \in Nat /\ v \in Nat /\ k \in Nat /\ e = BlockSize - u /\ v = u - k
    BY <1>4, <1>9, <1>12, <2>1, <2>2, <2>4, <2>5, <2>6
  <2>8. taken = e + k
    BY <1>2, <2>6
  <2>9. taken \in Nat /\ taken = BlockSize - v /\ (taken = BlockSize <=> v = 0)
    BY <2>7, <2>8, BlockSizeFact
  <2> QED
    BY <2>5, <2>6, <2>9
<1>14. /\ pc'[c] = "unindex" => From(c)' = p /\ loc'[c].base = loc[c].base /\ V = {}
       /\ ConsumerFits(c)'
  <2>1. taken = BlockSize <=> Unread(p, n)' = {}
    BY <1>12, <1>13
  <2>2. UNCHANGED entries
    BY <1>3
  <2> QED
    BY <1>1, <1>3, <1>5, <1>12, <1>13, <2>1, <2>2, TakenFits
<1>15. \A d \in Consumers \ {c} : Remaining(d)' = Remaining(d) /\ From(d)' = From(d)
  BY <1>7, RemainingStays
<1>16. ASSUME NEW d \in Consumers \ {c}, pc[d] = "unindex", From(d) = p
       PROVE  Num(loc[d].base) # n
  <2>1. Unread(p, Num(loc[d].base)) = {}
    BY <1>16, ConsumerKnown DEF EntryKnown
  <2>2. Unread(p, n) # {}
    BY <1>11
  <2> QED
    BY <2>1, <2>2
<1>17. ClaimsApart'
  <2>1. ASSUME NEW f \in Consumers \ {c}, From(f) = From(c)'
        PROVE  /\ Remaining(f) \cap Remaining(c)' = {}
               /\ pc[f] = "unindex" /\ pc'[c] = "unindex" => Num(loc[f].base) # Num(loc'[c].base)
    <3>1. Remaining(c)' # {} => From(f) = p
      BY <1>10, <2>1
    <3>2. From(f) = p => Remaining(c) \cap Remaining(f) = {}
      BY <1>1 DEF PlacesInv, ClaimsApart
    <3>3. pc'[c] = "unindex" => From(f) = p /\ Num(loc'[c].base) = n
      BY <1>1, <1>14, <2>1
    <3> QED
      BY <1>11, <1>16, <3>1, <3>2, <3>3
  <2> QED
    BY <1>7, <1>15, <2>1, ApartBesides DEF PlacesInv
<1>18. \A q \in Producers : Still(q)
  BY <1>5, <1>8 DEF Still, StillCounted, StillIndexed
<1>19. ASSUME NEW q \in Producers PROVE ProducerFits(q)' /\ Kept(q)'
  <2>1. /\ Still(q) /\ ProducerFits(q) /\ Kept(q) /\ FirstNew(q) \in Int /\ IndexFits(q)
        /\ Last(q) \in Int
    BY <1>18, ProducerKnown
  <2>2. /\ ProducerFits(q)' /\ Allocated(q)' = Allocated(q) /\ Written(q)' = Written(q)
        /\ \A e, m : Finds(q, e, m)' <=> Finds(q, e, m)
    BY <2>1, StillFits
  <2>3. ASSUME NEW m \in Nat, m < Allocated(q), Unread(q, m)' # {}
        PROVE  \E e \in Entries : Stores(q, e, m)'
    <3>1. CASE q = p /\ m = n
      <4>1. /\ Finds(p, x, n)
            /\ \A i \in Unread(p, n) : i < Written(p) => data[b][i % BlockSize] = <<p, i>>
        BY <1>4 DEF Stores
      <4>2. elementsCompletelyDequeued'[b] = BlockSize - Cardinality(Unread(p, n)')
        BY <1>3, <1>4, <1>9, <1>12, <1>13
      <4>3. \A i \in Unread(p, n)' : i < Written(p) => data[b][i % BlockSize] = <<p, i>>
        BY <1>11, <4>1
      <4>4. Stores(p, x, n)'
        BY <1>4, <1>5, <2>2, <3>1, <4>1, <4>2, <4>3 DEF Stores, Unread
      <4> QED
        BY <1>4, <3>1, <4>4
    <3>2. CASE q # p \/ m # n
      <4>1. Unread(q, m)' = Unread(q, m)
        BY <1>11, <3>2 DEF UnreadSame
      <4>2. PICK e \in Entries : Stores(q, e, m)
        BY <2>1, <2>3, <4>1 DEF Kept
      <4>3. value[q][e] # b
        <5>1. SUFFICES ASSUME value[q][e] = b PROVE FALSE
          OBVIOUS
        <5>2. Finds(q, e, m) /\ value[q][e] # Null /\ Holds(q, e, m)
          BY <4>2 DEF Stores, Finds
        <5>3. q = p /\ e = x
          BY <1>4, <5>1, <5>2 DEF PlacesInv, HomesApart
        <5>4. Holds(p, x, n)
          BY <1>4 DEF Finds
        <5>5. m = n
          BY <1>4, <5>2, <5>3, <5>4, NumberOnce
        <5> QED
          BY <3>2, <5>3, <5>5
      <4>4. elementsCompletelyDequeued'[value[q][e]] = elementsCompletelyDequeued[value[q][e]]
        <5>1. value[q][e] \in Blocks
          BY <4>2 DEF PlacesInv, PlacesTyped, Stores, Finds
        <5> QED
          BY <1>3, <1>9, <4>3, <5>1
      <4>5. PICK w : w = value[q][e]
        OBVIOUS
      <4>6. value'[q][e] = w
        BY <1>5, <4>5
      <4>7. /\ Finds(q, e, m)' /\ elementsCompletelyDequeued'[w] = BlockSize - Cardinality(Unread(q, m))
            /\ \A i \in Unread(q, m) : i < Written(q) => data[w][i % BlockSize] = <<q, i>>
        BY <2>2, <4>2, <4>4, <4>5 DEF Stores
      <4>8. Stores(q, e, m)'
        BY <1>5, <2>2, <4>1, <4>5, <4>6, <4>7 DEF Stores, Unread
      <4> QED
        BY <4>8
    <3> QED
      BY <3>1, <3>2
  <2> QED
    BY <2>2, <2>3 DEF Kept, Unread
<1>20. PlacesTyped'
  BY <1>3, <1>5, <1>9, <1>13 DEF PlacesInv, PlacesTyped
<1>21. HomesApart' /\ ListInv(InUse)'
  <2>1. \A q \in Producers : (pc'[q] = "free" <=> pc[q] = "free") /\ loc'[q].got = loc[q].got
    BY <1>8
  <2> QED
    BY <1>5, <2>1, HomesStay
<1>22. \A q \in Producers, m \in Nat : FindsSame(q, m) /\ (Unread(q, m) = {} => Unread(q, m)' = {})
  <2>1. ASSUME NEW q \in Producers, NEW m \in Nat
        PROVE  FindsSame(q, m) /\ (Unread(q, m) = {} => Unread(q, m)' = {})
    <3>1. FindsSame(q, m)
      BY <1>5 DEF FindsSame, Finds, Holds
    <3>2. Unread(q, m)' \subseteq Unread(q, m)
      BY <1>11 DEF UnreadSame
    <3> QED
      BY <3>1, <3>2
  <2> QED
    BY <2>1
<1>23. \A q \in Producers : headIndex'[q] \in Nat /\ headIndex'[q] >= headIndex[q]
  BY <1>5, HeadBehind
<1>24. PICK T \in SUBSET Consumers : T = {c}
  OBVIOUS
<1>25. /\ \A t \in Threads \ T : pc'[t] = pc[t] /\ loc'[t] = loc[t]
       /\ \A d \in T : ConsumerFits(d)'
  BY <1>6, <1>14, <1>24
<1>26. /\ \A d \in Consumers \ T, q \in Producers, m \in Nat :
              /\ pc[d] \in AtProducer /\ From(d) = q
              /\ (\E i \in Remaining(d) : Num(i) = m) \/ (pc[d] = "unindex" /\ m = Num(loc[d].base))
              => FindsSame(q, m)
       /\ \A d \in Consumers \ T, q \in Producers, m \in Nat :
              pc[d] = "unindex" /\ From(d) = q /\ Unread(q, m) = {} => Unread(q, m)' = {}
  BY <1>22
<1>27. UNCHANGED <<tailIndex, blockIndex, key, tailBlock>>
  BY <1>5
<1> QED
  BY ONLY ClaimInv, PlacesInv, T \in SUBSET Consumers, <1>17, <1>19, <1>20, <1>21, <1>23, <1>25,
          <1>26, <1>27, ConsumerFrame

\* A block all of whose elements were taken is behind the block at the tail.
LEMMA EmptyBehind ==
    ASSUME ClaimInv, PlacesInv, NEW p \in Producers, NEW n \in Nat, Unread(p, n) = {}
    PROVE  ~(Written(p) < Start(n) + BlockSize)
<1>1. PICK s, h, t, w : /\ s = Start(n) /\ h = headIndex[p] /\ t = tailIndex[p] /\ w = Written(p)
                        /\ s \in Nat /\ h \in Nat /\ t \in Nat
  BY StartNat, HeadBehind
<1>2. h <= t /\ w \in Nat /\ t <= w
  <2>1. loc[p].n \in Nat /\ CallFits(p)
    BY HeadBehind, ProducerKnown
  <2> QED
    BY <1>1, <2>1, HeadBehind, AllocatedFacts
<1>3. s + BlockSize - 1 \in Cells(n)
  BY <1>1, BlockSizeFact DEF Cells
<1>4. ~(s + BlockSize - 1 >= h)
  BY <1>1, <1>3 DEF Unread
<1>5. ~(w < s + BlockSize)
  BY <1>1, <1>2, <1>4, BlockSizeFact
<1> QED
  BY <1>1, <1>5

LEMMA UnindexPlaces ==
    ASSUME ClaimInv, PlacesInv, NEW c \in Consumers, Unindex(c)
    PROVE  PlacesInv'
<1>1. PICK p, n, x, b : p = From(c) /\ n = Num(loc[c].base) /\ x = Entry(c) /\ b = loc[c].block
  OBVIOUS
<1>2. /\ pc[c] = "unindex" /\ pc' = [pc EXCEPT ![c] = "free"]
      /\ value' = [value EXCEPT ![p][x] = Null] /\ CallAdd(c, b)
      /\ UNCHANGED <<indices, blockIndex, key, blocks, loc, tailBlock>>
  BY <1>1 DEF Unindex, Go
<1>3. /\ p \in Producers /\ n \in Nat /\ x \in Entries /\ b \in Blocks /\ b = value[p][x]
      /\ Finds(p, x, n) /\ n < FirstNew(p) /\ Unread(p, n) = {}
  <2>1. Unread(p, n) = {}
    BY <1>1, <1>2, ConsumerKnown DEF EntryKnown
  <2>2. pc[c] \in {"read", "unindex"}
    BY <1>2
  <2> QED
    BY <1>1, <2>1, <2>2, ReadFacts
<1>4. /\ headIndex' = headIndex /\ tailIndex' = tailIndex /\ blockIndex' = blockIndex
      /\ key' = key /\ data' = data /\ unused' = unused /\ tailBlock' = tailBlock
      /\ elementsCompletelyDequeued' = elementsCompletelyDequeued /\ loc' = loc
  BY <1>2 DEF indices, blocks
<1>5. /\ pc'[c] = "free"
      /\ \A t \in Threads \ {c} : pc'[t] = pc[t] /\ loc'[t] = loc[t]
  BY <1>2, <1>4, ConsumerKnown
<1>6. \A d \in Consumers \ {c} : pc'[d] = pc[d] /\ loc'[d] = loc[d]
  BY <1>5, Assumed
<1>7. \A q \in Producers : pc'[q] = pc[q] /\ loc'[q] = loc[q]
  BY <1>5, Assumed
<1>8. value \in [Producers -> [Entries -> Blocks \cup {Null}]] /\ b # Null
  BY <1>3, Assumed DEF PlacesInv, PlacesTyped
<1>9. /\ \A q \in Producers \ {p} : value'[q] = value[q]
      /\ \A e \in Entries \ {x} : value'[p][e] = value[p][e]
      /\ value'[p][x] = Null
      /\ value' \in [Producers -> [Entries -> Blocks \cup {Null}]]
  BY <1>2, <1>3, <1>8
<1>10. \A q \in Producers, e \in Entries : value'[q][e] # Null => value'[q][e] = value[q][e]
  BY <1>9
<1>11. \A q, e, m : Holds(q, e, m)' <=> Holds(q, e, m)
  BY <1>4 DEF Holds
<1>12. ASSUME NEW q \in Producers, NEW m \in Nat, q # p \/ m # n PROVE FindsSame(q, m)
  <2> SUFFICES ASSUME NEW e \in Entries
               PROVE  /\ Finds(q, e, m)' <=> Finds(q, e, m)
                      /\ Finds(q, e, m) => value'[q][e] = value[q][e]
    BY DEF FindsSame
  <2>1. CASE q = p /\ e = x
    <3>1. ~Holds(p, x, m)
      BY <1>3, <1>12, <2>1, NumberOnce DEF Finds
    <3> QED
      BY <1>11, <2>1, <3>1 DEF Finds
  <2>2. CASE q # p \/ e # x
    <3>1. value'[q][e] = value[q][e]
      BY <1>9, <2>2
    <3> QED
      BY <1>11, <3>1 DEF Finds
  <2> QED
    BY <2>1, <2>2
<1>13. \A d \in Consumers : Remaining(d)' = Remaining(d) /\ From(d)' = From(d)
  <2>1. From(c)' = From(c) /\ End(c)' = End(c)
    BY <1>4 DEF From, End, Mine
  <2>2. Remaining(c)' = Remaining(c)
    BY <1>2, <1>4, <1>5, <2>1 DEF Remaining, Reading, Parting
  <2> QED
    BY <1>6, <2>1, <2>2, RemainingStays
<1>14. \A q, m : Unread(q, m)' = Unread(q, m)
  BY <1>4, <1>13, UnreadStays
<1>15. \A q \in Producers : StillCounted(q) /\ StillIndexed(q)
  BY <1>4, <1>7 DEF StillCounted, StillIndexed
<1>16. \A q \in Producers : /\ Allocated(q)' = Allocated(q) /\ Written(q)' = Written(q)
                            /\ FirstNew(q)' = FirstNew(q) /\ Last(q)' = Last(q)
                            /\ CallFits(q)'
  BY <1>15, ProducerKnown, StillNumbers
<1>17. ProducerFits(p)'
  <2>1. /\ IndexFits(p) /\ CallFits(p) /\ BlocksFit(p) /\ TailFits(p) /\ FirstNew(p) \in Nat
    BY <1>3, ProducerKnown
  <2>2. /\ Newer(p)' = Newer(p) /\ Newest(p)' = Newest(p)
    BY <1>3, <1>15, StillEntries
  <2>3. EntriesFit(p)'
    <3>1. EntriesFit(p)
      BY <2>1 DEF IndexFits
    <3> QED
      BY <1>3, <1>4, <1>10, <1>11, <1>16, <2>2, <3>1 DEF EntriesFit
  <2>4. IndexFits(p)'
    <3>1. FirstNew(p)' >= FirstNew(p) /\ FirstNew(p) \in Int /\ FirstNew(p)' \in Int
      BY <1>3, <1>16, <2>1
    <3> QED
      BY <1>3, <1>15, <1>16, <2>1, <2>3, <3>1, StillRing
  <2>5. BlocksFit(p)'
    <3>1. ASSUME pc[p] \in Building, NEW j \in 1 .. Len(loc[p].got)
          PROVE  \E e \in Entries : Finds(p, e, FirstNew(p) + j - 1)' /\ value'[p][e] = loc[p].got[j]
      <4>1. PICK m \in Nat : m = FirstNew(p) + j - 1 /\ m # n
        <5>1. FirstNew(p) + j - 1 \in Nat /\ FirstNew(p) + j - 1 # n
          BY <1>3, <2>1
        <5> QED
          BY <5>1
      <4>2. PICK e \in Entries : Finds(p, e, m) /\ value[p][e] = loc[p].got[j]
        BY <2>1, <3>1, <4>1 DEF BlocksFit
      <4>3. Finds(p, e, m)' /\ value'[p][e] = loc[p].got[j]
        BY <1>3, <1>12, <4>1, <4>2 DEF FindsSame
      <4>4. FirstNew(p)' + j - 1 = m
        BY <1>3, <1>16, <4>1
      <4> QED
        BY <4>3, <4>4
    <3>2. ASSUME pc[p] \in Halfway
          PROVE  /\ loc[p].entry \in Entries /\ loc[p].entry = Newest(p)
                 /\ Holds(p, loc[p].entry, Allocated(p)) /\ value'[p][loc[p].entry] = Null
      <4>1. /\ loc[p].entry \in Entries /\ loc[p].entry = Newest(p)
            /\ Holds(p, loc[p].entry, Allocated(p)) /\ value[p][loc[p].entry] = Null
        BY <2>1, <3>2 DEF BlocksFit
      <4> QED
        BY <1>3, <1>10, <4>1
    <3>4. pc'[p] = pc[p] /\ loc'[p] = loc[p]
      BY <1>3, <1>7
    <3>5. pc'[p] \in Building =>
            \A j \in 1 .. Len(loc'[p].got) : \E e \in Entries :
               Finds(p, e, FirstNew(p) + j - 1)' /\ value'[p][e] = loc'[p].got[j]
      BY <3>1, <3>4
    <3>6. pc'[p] \in Halfway =>
            /\ loc'[p].entry \in Entries /\ loc'[p].entry = Newest(p)'
            /\ Holds(p, loc'[p].entry, Allocated(p)') /\ value'[p][loc'[p].entry] = Null
      BY <1>3, <1>16, <2>2, <3>2, <3>4
    <3> QED
      BY <1>4, <3>5, <3>6 DEF BlocksFit, Finds, Holds
  <2>6. TailFits(p)'
    <3> SUFFICES ASSUME NEW m \in Nat, Start(m) < Written(p), Written(p) < Start(m) + BlockSize
                 PROVE  \E e \in Entries : Finds(p, e, m)' /\ value'[p][e] = tailBlock[p]
      BY <1>3, <1>4, <1>16 DEF TailFits
    <3>1. PICK e \in Entries : Finds(p, e, m) /\ value[p][e] = tailBlock[p]
      BY <2>1 DEF TailFits
    <3>2. m # n
      BY <1>3, EmptyBehind
    <3> QED
      BY <1>3, <1>12, <3>1, <3>2 DEF FindsSame
  <2> QED
    BY <1>3, <1>16, <2>4, <2>5, <2>6 DEF ProducerFits
<1>18. ASSUME NEW q \in Producers PROVE ProducerFits(q)' /\ Kept(q)'
  <2>1. ProducerFits(q)'
    <3>1. CASE q = p
      BY <1>17, <3>1
    <3>2. CASE q # p
      <4>1. Still(q) /\ ProducerFits(q) /\ FirstNew(q) \in Int
        BY <1>4, <1>9, <1>15, <3>2, ProducerKnown DEF Still
      <4> QED
        BY <4>1, StillFits
    <3> QED
      BY <3>1, <3>2
  <2>2. ASSUME NEW m \in Nat, m < Allocated(q), Unread(q, m) # {}
        PROVE  \E e \in Entries : Stores(q, e, m)'
    <3>1. PICK e \in Entries : Stores(q, e, m)
      BY <2>2, ProducerKnown DEF Kept
    <3>2. q # p \/ m # n
      BY <1>3, <2>2
    <3>3. Finds(q, e, m)' /\ value'[q][e] = value[q][e]
      BY <1>12, <3>1, <3>2 DEF FindsSame, Stores
    <3>4. Stores(q, e, m)'
      BY <1>4, <1>14, <1>16, <3>1, <3>3 DEF Stores
    <3> QED
      BY <3>4
  <2> QED
    BY <1>14, <1>16, <2>1, <2>2 DEF Kept
<1>19. ConsumerFits(c)'
  <2>1. /\ ClaimedFits(c) /\ HeaderKnown(c) /\ EntryKnown(c) /\ HeadersFit(p)
    BY <1>3, ConsumerKnown, ProducerKnown
  <2>2. Newer(p)' = Newer(p)
    BY <1>3, <1>15, StillEntries
  <2>3. ClaimedFits(c)'
    BY <1>2, <1>4, <1>5, <1>13, <2>1 DEF ClaimedFits, Reading, Parting
  <2>4. HeaderKnown(c)'
    <3>1. \A e \in Entries : \A m : Finds(p, e, m)' => Finds(p, e, m)
      BY <1>3, <1>10, <1>11 DEF Finds
    <3>2. \A e \in Entries : \A i \in Remaining(c) : Finds(p, e, Num(i)) => e <= Size(loc[c].header)
      BY <1>1, <1>2, <2>1 DEF HeaderKnown
    <3>3. loc[c].header \in 1 .. Newer(p)
      BY <1>1, <1>2, <2>1 DEF HeaderKnown
    <3> QED
      BY <1>1, <1>4, <1>13, <2>2, <3>1, <3>2, <3>3 DEF HeaderKnown
  <2>5. EntryKnown(c)'
    <3>1. Entry(c)' = x
      BY <1>1, <1>4, <1>13 DEF Entry, Header
    <3>2. loc[c].pos \in Places(loc[c].header)
      BY <1>2, <2>1 DEF EntryKnown
    <3>3. Size(loc[c].header) \in Nat
      BY <1>1, <1>2, <2>1, EntryFacts
    <3>4. Whole(n - n, Size(loc[c].header))
      BY <1>3, <3>3, WholeFacts
    <3>5. Holds(p, x, n)'
      BY <1>3, <1>11 DEF Finds
    <3>6. Num(loc[c].base)' = n
      BY <1>1, <1>4 DEF Num
    <3> QED
      BY <1>1, <1>3, <1>4, <1>5, <1>13, <3>1, <3>2, <3>4, <3>5, <3>6 DEF EntryKnown
  <2> QED
    BY <2>3, <2>4, <2>5 DEF ConsumerFits
<1>20. ClaimsApart'
  <2>1. \A d \in Consumers : pc'[d] = "unindex" => pc[d] = "unindex"
    BY <1>5, <1>6
  <2> QED
    BY <1>4, <1>13, <2>1 DEF PlacesInv, ClaimsApart, Num
<1>21. ASSUME NEW d \in Consumers \ {c}, NEW q \in Producers, NEW m \in Nat,
              From(d) = q,
              (\E i \in Remaining(d) : Num(i) = m) \/ (pc[d] = "unindex" /\ m = Num(loc[d].base))
       PROVE  FindsSame(q, m)
  <2>1. ASSUME q = p, m = n PROVE FALSE
    <3>1. CASE \E i \in Remaining(d) : Num(i) = m
      <4>1. PICK i \in Remaining(d) : Num(i) = n
        BY <2>1, <3>1
      <4>2. i \in Unread(p, Num(i))
        BY <1>21, <2>1, ClaimedStored
      <4> QED
        BY <1>3, <4>1, <4>2
    <3>2. CASE pc[d] = "unindex" /\ m = Num(loc[d].base)
      BY <1>1, <1>2, <1>21, <2>1, <3>2 DEF PlacesInv, ClaimsApart
    <3> QED
      BY <1>21, <3>1, <3>2
  <2> QED
    BY <1>12, <2>1
<1>22. PlacesTyped'
  BY <1>4, <1>9 DEF PlacesInv, PlacesTyped
<1>23. \A q \in Producers : Undone(q)' = Undone(q)
  BY <1>7 DEF Undone
<1>24. \A q \in Producers, e \in Entries : value'[q][e] # Null => value[q][e] # b
  <2> SUFFICES ASSUME NEW q \in Producers, NEW e \in Entries, value'[q][e] # Null, value[q][e] = b
               PROVE  FALSE
    OBVIOUS
  <2>1. q = p /\ e = x
    BY <1>3, <1>8 DEF PlacesInv, HomesApart
  <2> QED
    BY <1>9, <2>1
<1>25. Indexed' = Indexed \ {b} /\ b \in Indexed
  <2>1. \A y \in Blocks : y \in Indexed' => y \in Indexed \ {b}
    <3> SUFFICES ASSUME NEW y \in Blocks, NEW q \in Producers, NEW e \in Entries, value'[q][e] = y
                 PROVE  y \in Indexed \ {b}
      BY DEF Indexed
    <3>1. value'[q][e] # Null
      BY Assumed
    <3> QED
      BY <1>10, <1>24, <3>1 DEF Indexed
  <2>2. \A y \in Blocks : y \in Indexed \ {b} => y \in Indexed'
    <3> SUFFICES ASSUME NEW y \in Blocks, y # b,
                        NEW q \in Producers, NEW e \in Entries, value[q][e] = y
                 PROVE  value'[q][e] = y
      BY DEF Indexed
    <3>1. q # p \/ e # x
      BY <1>3
    <3> QED
      BY <1>9, <3>1
  <2>3. b \in Indexed
    BY <1>3 DEF Indexed
  <2> QED
    BY <2>1, <2>2, <2>3 DEF Indexed
<1>26. HomesApart'
  <2>1. \A q, r \in Producers, e, g \in Entries :
           value'[q][e] = value'[r][g] /\ value'[q][e] # Null => q = r /\ e = g
    BY <1>10 DEF PlacesInv, HomesApart
  <2> QED
    BY <1>4, <1>7, <1>23, <1>25, <2>1 DEF PlacesInv, HomesApart
<1>27. InUse' = InUse \ {b} /\ b \in InUse
  <2>1. b \notin unused
    BY <1>25 DEF PlacesInv, HomesApart
  <2>2. \A q \in Producers : b \notin Undone(q)
    BY <1>25 DEF PlacesInv, HomesApart
  <2> QED
    BY <1>4, <1>23, <1>25, <2>1, <2>2 DEF InUse
<1>28. ListInv(InUse)'
  <2>1. PICK held, less : held = InUse /\ less = InUse \ {b}
    OBVIOUS
  <2>2. ListInv(held) /\ b \in held /\ less = held \ {b}
    BY <1>27, <2>1 DEF PlacesInv
  <2>3. ListInv(less)'
    BY <1>2, <2>2, CallAddStep, Assumed
  <2> QED
    BY <1>27, <2>1, <2>3, InUseBecomes
<1>29. \A q \in Producers : headIndex'[q] \in Nat /\ headIndex'[q] >= headIndex[q]
  BY <1>4, HeadBehind
<1>30. PICK T \in SUBSET Consumers : T = {c}
  OBVIOUS
<1>31. /\ \A t \in Threads \ T : pc'[t] = pc[t] /\ loc'[t] = loc[t]
       /\ \A d \in T : ConsumerFits(d)'
  BY <1>5, <1>19, <1>30
<1>32. /\ \A d \in Consumers \ T, q \in Producers, m \in Nat :
              /\ pc[d] \in AtProducer /\ From(d) = q
              /\ (\E i \in Remaining(d) : Num(i) = m) \/ (pc[d] = "unindex" /\ m = Num(loc[d].base))
              => FindsSame(q, m)
       /\ \A d \in Consumers \ T, q \in Producers, m \in Nat :
              pc[d] = "unindex" /\ From(d) = q /\ Unread(q, m) = {} => Unread(q, m)' = {}
  BY <1>14, <1>21, <1>30
<1>33. UNCHANGED <<tailIndex, blockIndex, key, tailBlock>>
  BY <1>4
<1> QED
  BY ONLY ClaimInv, PlacesInv, T \in SUBSET Consumers, <1>18, <1>20, <1>22, <1>26, <1>28, <1>29,
          <1>31, <1>32, <1>33, ConsumerFrame

\* A step on the free list, or one that changes nothing.
LEMMA ElsewherePlaces ==
    ASSUME ClaimInv, PlacesInv, UNCHANGED <<indices, entries, blocks, threads>>,
           ListInv(InUse) => ListInv(InUse)'
    PROVE  PlacesInv'
<1>1. /\ tailIndex' = tailIndex /\ headIndex' = headIndex /\ pc' = pc /\ loc' = loc
      /\ UNCHANGED <<tailIndex, entries, blocks, tailBlock>>
  BY DEF indices, threads
<1>2. \A c \in Consumers : Remaining(c)' = Remaining(c) /\ From(c)' = From(c)
  BY <1>1, RemainingStays
<1>3. \A q \in Producers : \A m \in Nat : Unread(q, m)' = Unread(q, m)
  BY <1>1, <1>2, UnreadStays
<1>4. ClaimsApart'
  BY <1>1, <1>2 DEF PlacesInv, ClaimsApart, Num
<1>5. \A q \in Producers : headIndex'[q] \in Nat /\ headIndex'[q] >= headIndex[q]
  BY <1>1, HeadBehind
<1>6. PICK T \in SUBSET Consumers : T = {}
  OBVIOUS
<1>7. /\ \A t \in Threads \ T : pc'[t] = pc[t] /\ loc'[t] = loc[t]
      /\ \A d \in T : ConsumerFits(d)'
  BY <1>1, <1>6
<1> QED
  BY ONLY ClaimInv, PlacesInv, T \in SUBSET Consumers, ListInv(InUse) => ListInv(InUse)',
          <1>1, <1>3, <1>4, <1>5, <1>7, QuietConsumers

LEMMA InUseStays ==
    ASSUME UNCHANGED <<indices, entries, blocks, threads>>
    PROVE  InUse' = InUse
<1>1. value' = value /\ unused' = unused /\ pc' = pc /\ loc' = loc
  BY DEF entries, blocks, threads
<1>2. Indexed' = Indexed
  BY <1>1 DEF Indexed
<1>3. \A q \in Producers : Undone(q)' = Undone(q)
  BY <1>1 DEF Undone
<1> QED
  BY <1>1, <1>2, <1>3 DEF InUse

LEMMA OnFreeListPlaces ==
    ASSUME ClaimInv, PlacesInv, NEW t \in Threads, OnFreeList(t)
    PROVE  PlacesInv'
<1>1. FreeListStep(t) /\ UNCHANGED <<indices, entries, blocks, threads>>
  BY DEF OnFreeList
<1>2. PICK held : held = InUse
  OBVIOUS
<1>3. InUse' = held
  BY <1>1, <1>2, InUseStays
<1>4. ASSUME ListInv(InUse) PROVE ListInv(InUse)'
  <2>1. ListInv(held)'
    BY <1>1, <1>2, <1>4, ListStep
  <2> QED
    BY <1>3, <2>1, InUseBecomes
<1> QED
  BY <1>1, <1>4, ElsewherePlaces

LEMMA StutterPlaces ==
    ASSUME ClaimInv, PlacesInv, UNCHANGED vars
    PROVE  PlacesInv'
<1>1. UNCHANGED freeList /\ UNCHANGED <<indices, entries, blocks, threads>>
  BY DEF vars
<1>2. PICK held : held = InUse
  OBVIOUS
<1>3. InUse' = held
  BY <1>1, <1>2, InUseStays
<1>4. ASSUME ListInv(InUse) PROVE ListInv(InUse)'
  <2>1. ListInv(held)'
    BY <1>1, <1>2, <1>4, ListStutter
  <2> QED
    BY <1>3, <2>1, InUseBecomes
<1> QED
  BY <1>1, <1>4, ElsewherePlaces

LEMMA ProducerPlaces ==
    ASSUME ClaimInv, PlacesInv, NEW p \in Producers, Producer(p)
    PROVE  PlacesInv'
<1>1. CASE InsertEntry(p) \/ Grow(p) \/ NoRoom(p)
  BY <1>1, InsertEntryPlaces, GrowPlaces, NoRoomPlaces
<1>2. CASE FromPool(p) \/ FromFreeList(p) \/ GotBlock(p) \/ FromHeap(p) \/ NoBlock(p)
  BY <1>2, FromPoolPlaces, FromFreeListPlaces, GotBlockPlaces, FromHeapPlaces, NoBlockPlaces
<1>3. CASE UndoIndex(p) \/ UndoBlock(p) \/ Refuse(p)
  BY <1>3, UndoIndexPlaces, UndoBlockPlaces, RefusePlaces
<1>4. CASE Place(p) \/ Publish(p)
  BY <1>4, PlacePlaces, PublishPlaces
<1> QED
  BY <1>1, <1>2, <1>3, <1>4 DEF Producer

LEMMA ConsumerPlaces ==
    ASSUME ClaimInv, PlacesInv, NEW c \in Consumers, Consumer(c)
    PROVE  PlacesInv'
<1>1. CASE Look(c) \/ Looked(c) \/ Turn(c) \/ EndDequeue(c)
  BY <1>1, ChoosingPlaces
<1>2. CASE ReadTail(c) \/ ReadOvercommit(c) \/ ReadOptimistic(c)
  BY <1>2, CountingPlaces
<1>3. CASE Claim(c) \/ Verify(c) \/ GiveBack(c)
  BY <1>3, ClaimPlaces
<1>4. CASE TakeHead(c) \/ LoadHeader(c) \/ LoadSlot(c) \/ LoadKey(c) \/ Take(c)
  BY <1>4, TakeHeadPlaces, LoadHeaderPlaces, LoadSlotPlaces, LoadKeyPlaces, TakePlaces
<1>5. CASE SetEmpty(c) \/ Unindex(c) \/ Freed(c)
  BY <1>5, SetEmptyPlaces, UnindexPlaces, FreedPlaces
<1> QED
  BY <1>1, <1>2, <1>3, <1>4, <1>5 DEF Consumer

LEMMA PlacesInvStep == ClaimInv /\ PlacesInv /\ [Next]_vars => PlacesInv'
<1> SUFFICES ASSUME ClaimInv, PlacesInv, [Next]_vars PROVE PlacesInv'
  OBVIOUS
<1>1. CASE Calls
  <2>1. CASE \E p \in Producers, n \in Batches, mode \in {"CanAlloc", "CannotAlloc"} :
                BeginEnqueue(p, n, mode)
    BY <2>1, BeginEnqueuePlaces
  <2>2. CASE \E c \in Consumers, n \in Takes : BeginDequeue(c, n)
    BY <2>2, ChoosingPlaces
  <2> QED
    BY <1>1, <2>1, <2>2 DEF Calls
<1>2. CASE \E p \in Producers : Producer(p)
  BY <1>2, ProducerPlaces
<1>3. CASE \E c \in Consumers : Consumer(c)
  BY <1>3, ConsumerPlaces
<1>4. CASE \E t \in Threads : OnFreeList(t)
  BY <1>4, OnFreeListPlaces
<1>5. CASE UNCHANGED vars
  BY <1>5, StutterPlaces
<1> QED
  BY <1>1, <1>2, <1>3, <1>4, <1>5 DEF Next

LEMMA InitProducers ==
    ASSUME Init, NEW p \in Producers
    PROVE  ProducerFits(p) /\ Kept(p)
<1>1. PICK h : h = [slots |-> [s \in 0 .. IndexSize - 1 |-> s + 1], tail |-> IndexSize - 1]
  OBVIOUS
<1>2. /\ tailIndex[p] = 0 /\ blockIndex[p] = <<h>>
      /\ \A e \in Entries : key[p][e] = InvalidBase /\ value[p][e] = Null
      /\ pc[p] = "idle" /\ loc[p] = NoCall
  BY <1>1, Assumed DEF Init
<1>3. /\ Newer(p) = 1 /\ Current(p) = h /\ \A k \in 1 .. 1 : blockIndex[p][k] = h
  BY <1>2 DEF Newer, Current
<1>4. /\ Size(1) = IndexSize /\ IndexSize \in Nat \ {0} /\ Places(1) = 0 .. IndexSize - 1
      /\ 1 \in 1 .. MaxHeaders
  <2>1. 2^0 = 1
    OBVIOUS
  <2>2. IndexSize \in Nat \ {0} /\ MaxHeaders \in Nat \ {0}
    BY QueueAssumption
  <2>3. Size(1) = IndexSize
    BY <2>1, <2>2 DEF Size
  <2> QED
    BY <2>2, <2>3 DEF Places
<1>5. FirstNew(p) = 0 /\ Reserved(p) = 0 /\ Allocated(p) = 0 /\ Last(p) = -1 /\ Written(p) = 0
  <2>1. tailIndex[p] + BlockSize - 1 = BlockSize - 1 /\ BlockSize - 1 \in Nat
    BY <1>2, BlockSizeFact
  <2>2. Num(BlockSize - 1) = 0
    <3>1. Start(0) = 0
      BY BlockSizeFact DEF Start
    <3>2. Start(0) <= BlockSize - 1 /\ BlockSize - 1 < Start(0) + BlockSize
      BY <3>1, BlockSizeFact
    <3> QED
      BY <2>1, <3>2, NumUnique
  <2>3. FirstNew(p) = 0
    BY <2>1, <2>2 DEF FirstNew
  <2> QED
    BY <1>2, <2>3 DEF Reserved, Allocated, Last, Written, Building, Halfway
<1>6. ASSUME NEW e \in Entries, NEW m \in Nat PROVE ~Holds(p, e, m)
  <2>1. Start(m) # InvalidBase
    BY StartFacts
  <2> QED
    BY <1>2, <2>1 DEF Holds
<1>7. HeaderFits(h, 1)
  <2>1. h.slots = [s \in Places(1) |-> s + 1] /\ h.tail = IndexSize - 1
    BY <1>1, <1>4
  <2>2. \A s \in Places(1) : s + 1 \in 1 .. Size(1)
    BY <1>4
  <2>3. \A e \in 1 .. Size(1) : e - 1 \in Places(1) /\ (e - 1) + 1 = e
    BY <1>4
  <2>4. h.slots \in [Places(1) -> 1 .. Size(1)]
    BY <2>1, <2>2
  <2>5. h.tail \in Places(1)
    BY <1>4, <2>1
  <2>6. \A s, u \in Places(1) : s + 1 = u + 1 => s = u
    BY <1>4
  <2>7. ASSUME NEW e \in 1 .. Size(1) PROVE \E s \in Places(1) : h.slots[s] = e
    <3>1. h.slots[e - 1] = e
      BY <2>1, <2>3
    <3> QED
      BY <2>3, <3>1
  <2> QED
    BY <2>1, <2>4, <2>5, <2>6, <2>7 DEF HeaderFits
<1>8. HeadersFit(p)
  <2>1. h \in HeaderSet
    <3>1. h.slots \in [Places(1) -> 1 .. Size(1)] /\ h.tail \in Places(1)
      BY <1>7 DEF HeaderFits
    <3>2. /\ h.slots \in UNION {[Places(k) -> 1 .. Size(k)] : k \in 1 .. MaxHeaders}
          /\ h.tail \in UNION {Places(k) : k \in 1 .. MaxHeaders}
      BY <1>4, <3>1
    <3>3. h = [slots |-> h.slots, tail |-> h.tail]
      BY <1>1
    <3> QED
      BY <3>2, <3>3 DEF HeaderSet
  <2>2. <<h>> \in Seq(HeaderSet)
    BY <2>1
  <2>3. \A k \in 1 .. 1 : HeaderFits(blockIndex[p][k], k)
    <3>1. \A k \in 1 .. 1 : k = 1
      OBVIOUS
    <3> QED
      BY <1>3, <1>7, <3>1
  <2> QED
    BY <1>2, <1>3, <1>4, <2>2, <2>3 DEF HeadersFit
<1>9. \A s \in Places(1) : Slot(p, 1, s) \in Entries
  <2>1. 1 \in 1 .. Newer(p)
    BY <1>3
  <2> QED
    BY <1>8, <2>1, HeaderFacts
<1>10. IndexFits(p)
  <2>1. \A s \in Places(Newer(p)) : \A m \in Nat : ~Holds(p, Slot(p, Newer(p), s), m)
    BY <1>3, <1>6, <1>9
  <2>2. AtTail(p)
    BY <2>1 DEF AtTail
  <2>3. Ring(p, 0, -1)
    <3>1. 0 .. -1 = {} /\ 0 \in Nat /\ -1 \in Int
      OBVIOUS
    <3>2. /\ 0 <= FirstNew(p) /\ Allocated(p) - 1 <= -1 /\ Last(p) <= -1
          /\ -1 - 0 < Size(Newer(p))
      BY <1>3, <1>4, <1>5
    <3> QED
      BY <2>1, <3>1, <3>2 DEF Ring
  <2>4. HasRing(p)
    BY <2>3 DEF HasRing
  <2>5. EntriesFit(p)
    BY <1>2 DEF EntriesFit
  <2>6. 1 .. Newer(p) - 1 = {}
    BY <1>3
  <2> QED
    BY <1>8, <2>2, <2>4, <2>5, <2>6 DEF IndexFits
<1>11. CallFits(p)
  <2>1. loc[p].got = <<>>
    BY <1>2 DEF NoCall
  <2>2. <<>> \in Seq(Blocks)
    OBVIOUS
  <2> QED
    BY <1>2, <2>1, <2>2 DEF CallFits, Building, Halfway
<1>12. BlocksFit(p)
  BY <1>2 DEF BlocksFit, Building, Halfway
<1>13. TailFits(p) /\ Kept(p)
  <2>1. \A m \in Nat : ~(Start(m) < Written(p)) /\ ~(m < Allocated(p))
    <3> SUFFICES ASSUME NEW m \in Nat PROVE ~(Start(m) < 0) /\ ~(m < 0)
      BY <1>5
    <3>1. Start(m) \in Nat
      BY StartNat
    <3> QED
      BY <3>1
  <2> QED
    BY <2>1 DEF TailFits, Kept
<1> QED
  BY <1>10, <1>11, <1>12, <1>13 DEF ProducerFits

LEMMA InitPlaces == Init => PlacesInv
<1> SUFFICES ASSUME Init PROVE PlacesInv
  OBVIOUS
<1>1. \A p \in Producers : ProducerFits(p) /\ Kept(p)
  BY InitProducers
<1>2. \A t \in Threads : pc[t] = "idle"
  BY DEF Init
<1>3. \A c \in Consumers : pc[c] = "idle"
  BY <1>2, Assumed
<1>4. \A c \in Consumers : ConsumerFits(c) /\ Remaining(c) = {}
  BY <1>3 DEF ConsumerFits, ClaimedFits, HeaderKnown, EntryKnown, Remaining, Reading, Parting
<1>5. ClaimsApart
  BY <1>3, <1>4 DEF ClaimsApart
<1>6. \A q \in Producers, e \in Entries : value[q][e] = Null
  BY DEF Init
<1>7. Indexed = {} /\ \A q \in Producers : Undone(q) = {}
  <2>1. Indexed = {}
    BY <1>6, Assumed DEF Indexed
  <2>2. \A q \in Producers : pc[q] = "idle"
    BY <1>2, Assumed
  <2> QED
    BY <2>1, <2>2 DEF Undone
<1>8. unused = Blocks
  BY DEF Init
<1>9. HomesApart
  <2>1. \A q \in Producers : pc[q] # "free"
    BY <1>2, Assumed
  <2> QED
    BY <1>6, <1>7, <2>1 DEF HomesApart
<1>10. ListInv(InUse)
  <2>1. InUse = Blocks
    BY <1>7, <1>8 DEF InUse
  <2>2. FreeListInit
    BY DEF Init
  <2>3. ListInv(Blocks)
    BY <2>2, ListStart
  <2> QED
    BY <2>1, <2>3
<1>11. PlacesTyped
  BY <1>8 DEF Init, PlacesTyped, InvalidBase
<1> QED
  BY <1>1, <1>4, <1>5, <1>9, <1>10, <1>11 DEF PlacesInv

LEMMA PlacesInvAlways == Spec => [](ClaimInv /\ PlacesInv)
BY InitClaims, ClaimInvStep, InitPlaces, PlacesInvStep, PTL DEF Spec

-----------------------------------------------------------------------------
(* What the blocks of a producer come to.                                  *)

\* For any number of threads and elements, any sizes of blocks and of the block index, and
\* however often the index grows and wraps around: while a consumer reads the elements it
\* claimed, the block it found through the index holds exactly them.
THEOREM ElementsStayInPlace == Spec => []ElementsInPlace
<1>1. ClaimInv /\ PlacesInv => ElementsInPlace
  <2> SUFFICES ASSUME ClaimInv, PlacesInv, NEW c \in Consumers, pc[c] = "read"
               PROVE  /\ loc[c].block # Null
                      /\ key[From(c)][Entry(c)] = Base(loc[c].base)
                      /\ \A i \in Mine(c) :
                            data[loc[c].block][i % BlockSize] = <<From(c), i>>
    BY DEF ElementsInPlace
  <2>1. PICK p, n, x, b : p = From(c) /\ n = Num(loc[c].base) /\ x = Entry(c) /\ b = loc[c].block
    OBVIOUS
  <2>2. /\ p \in Producers /\ n \in Nat /\ b \in Blocks /\ b = value[p][x]
        /\ Finds(p, x, n) /\ Stores(p, x, n)
    BY <2>1, ReadFacts
  <2>3. /\ ClaimedFits(c) /\ loc[c].base \in Nat /\ loc[c].extra \in Nat /\ IndexFits(p)
    BY <2>2, ConsumerKnown, ProducerKnown DEF ClaimedFits, Reading
  <2>4. b # Null
    BY <2>2, Assumed
  <2>5. key[p][x] = Base(loc[c].base)
    BY <2>1, <2>2, <2>3, NumFacts DEF Finds, Holds
  <2>6. ASSUME NEW i \in Mine(c) PROVE data[b][i % BlockSize] = <<p, i>>
    <3>1. i \in Remaining(c)
      BY <2>6 DEF Mine, Remaining, Reading
    <3>2. i \in Nat /\ i \in Unread(p, Num(i)) /\ i < headIndex[p]
      BY <2>1, <3>1, ClaimedStored
    <3>3. i \in Cells(n)
      BY <2>1, <2>3, <2>6, MineFacts DEF Reading
    <3>4. Num(i) = n
      BY <2>2, <3>2, <3>3, NumOrder
    <3>5. i < Written(p)
      <4>1. loc[p].n \in Nat /\ CallFits(p)
        BY <2>2, HeadBehind, ProducerKnown
      <4>2. /\ headIndex[p] \in Nat /\ tailIndex[p] \in Nat /\ headIndex[p] <= tailIndex[p]
            /\ Written(p) \in Nat /\ tailIndex[p] <= Written(p)
        BY <2>2, <4>1, HeadBehind, AllocatedFacts
      <4> QED
        BY <3>2, <4>2
    <3> QED
      BY <2>2, <3>2, <3>4, <3>5 DEF Stores
  <2> QED
    BY <2>1, <2>4, <2>5, <2>6
<1> QED
  BY <1>1, PlacesInvAlways, PTL

LEMMA HeldFacts ==
    ASSUME NEW t \in Threads, NEW b \in Blocks
    PROVE  b \in Held(t) <=>
              \/ t \in Producers /\ b \in Undone(t)
              \/ Charge(t) = b /\ fpc[t] \in {"add", "unref", "got"}
<1>1. b # Null
  BY Assumed
<1> QED
  BY <1>1 DEF Held, Undone, Charge

\* The same for the blocks: each is in one place, whatever the order in which threads take
\* blocks from the pool and the list, undo a call that failed, and free what they emptied.
THEOREM BlocksAlwaysOnce == Spec => []BlocksOnce
<1>1. ClaimInv /\ PlacesInv => BlocksOnce
  <2> SUFFICES ASSUME PlacesInv, NEW b \in Blocks
               PROVE  Cardinality({y \in Producers \X Entries : value[y[1]][y[2]] = b})
                         + Cardinality({t \in Threads : b \in Held(t)})
                         + Cardinality({h \in {"unused", "list", "pending"} :
                               b \in CASE h = "unused" -> unused [] h = "list" -> OnList
                                        [] h = "pending" -> Pending}) = 1
    BY DEF BlocksOnce
  <2> DEFINE inIndex == {y \in Producers \X Entries : value[y[1]][y[2]] = b}
             holders == {t \in Threads : b \in Held(t)}
             homes == {h \in {"unused", "list", "pending"} :
                         b \in CASE h = "unused" -> unused [] h = "list" -> OnList
                                  [] h = "pending" -> Pending}
  <2>1. PICK own : own = {t \in Threads : Charge(t) = b /\ fpc[t] \in {"add", "unref", "got"}}
    OBVIOUS
  <2>2. /\ ~(b \in OnList /\ b \in Pending)
        /\ b \in InUse => b \notin OnList /\ b \notin Pending
        /\ \A t \in own : /\ b \notin OnList /\ b \notin Pending /\ b \notin InUse
                          /\ \A u \in own : u = t
        /\ b \in InUse \/ b \in OnList \/ b \in Pending \/ own # {}
    <3>1. PICK held : held = InUse
      OBVIOUS
    <3>2. ListInv(held)
      BY <3>1 DEF PlacesInv
    <3> QED
      BY <2>1, <3>1, <3>2, HomeOnce
  <2>3. own \subseteq Threads /\ \A t \in Threads : t \in holders <=> t \in own \/ (t \in Producers /\ b \in Undone(t))
    BY <2>1, HeldFacts
  <2>4. /\ "unused" \in homes <=> b \in unused
        /\ "list" \in homes <=> b \in OnList
        /\ "pending" \in homes <=> b \in Pending
        /\ homes \subseteq {"unused", "list", "pending"}
    OBVIOUS
  <2>5. /\ \A y \in inIndex : y \in Producers \X Entries /\ value[y[1]][y[2]] = b
        /\ b \notin Indexed => inIndex = {}
    BY DEF Indexed
  <2>6. /\ \A q, r \in Producers, e, f \in Entries :
              value[q][e] = b /\ value[r][f] = b => q = r /\ e = f
        /\ ~(b \in unused /\ b \in Indexed)
        /\ \A q \in Producers : b \in Undone(q) =>
              b \notin unused /\ b \notin Indexed /\ \A r \in Producers : b \in Undone(r) => r = q
    BY Assumed DEF PlacesInv, HomesApart
  <2>7. b \in InUse <=> b \in unused \/ b \in Indexed \/ \E q \in Producers : b \in Undone(q)
    BY DEF InUse
  <2>8. \A S, x : S = {} => Cardinality(S) = 0
    BY FS_EmptySet
  <2>9. \A S, x : S = {x} => Cardinality(S) = 1
    BY FS_Singleton
  <2>10. CASE b \in Indexed
    <3>1. PICK q \in Producers, e \in Entries : value[q][e] = b
      BY <2>10 DEF Indexed
    <3>2. inIndex = {<<q, e>>}
      <4>1. <<q, e>> \in inIndex
        BY <3>1
      <4>2. ASSUME NEW y \in inIndex PROVE y = <<q, e>>
        <5>1. y \in Producers \X Entries /\ value[y[1]][y[2]] = b
          BY <4>2
        <5>2. y[1] \in Producers /\ y[2] \in Entries /\ y = <<y[1], y[2]>>
          BY <5>1
        <5> QED
          BY <2>6, <3>1, <5>1, <5>2
      <4> HIDE DEF inIndex
      <4> QED
        BY <4>1, <4>2
    <3> HIDE DEF inIndex, holders, homes
    <3>3. holders = {}
      <4>1. holders \subseteq Threads
        BY DEF holders
      <4> QED
        BY <2>2, <2>3, <2>6, <2>7, <2>10, <4>1
    <3>4. homes = {}
      BY <2>2, <2>4, <2>6, <2>7, <2>10
    <3>5. Cardinality(inIndex) = 1 /\ Cardinality(holders) = 0 /\ Cardinality(homes) = 0
      BY <2>8, <2>9, <3>2, <3>3, <3>4
    <3>10. Cardinality(inIndex) + Cardinality(holders) + Cardinality(homes) = 1
      BY <3>5
    <3> QED
      BY <3>10 DEF inIndex, holders, homes
  <2>11. CASE b \notin Indexed /\ holders # {}
    <3>1. inIndex = {}
      BY <2>5, <2>11
    <3>2. holders \subseteq Threads
      OBVIOUS
    <3> HIDE DEF inIndex, holders, homes
    <3>3. PICK t \in Threads : t \in holders
      BY <2>11, <3>2
    <3>4. holders = {t}
      <4>1. \A u \in Threads : u \in holders => u = t
        BY <2>2, <2>3, <2>6, <2>7, <3>3
      <4> QED
        BY <3>2, <3>3, <4>1
    <3>5. homes = {}
      BY <2>2, <2>3, <2>4, <2>6, <2>7, <3>3
    <3>6. Cardinality(inIndex) = 0 /\ Cardinality(holders) = 1 /\ Cardinality(homes) = 0
      BY <2>8, <2>9, <3>1, <3>4, <3>5
    <3>10. Cardinality(inIndex) + Cardinality(holders) + Cardinality(homes) = 1
      BY <3>6
    <3> QED
      BY <3>10 DEF inIndex, holders, homes
  <2>12. CASE b \notin Indexed /\ holders = {}
    <3>1. inIndex = {}
      BY <2>5, <2>12
    <3> HIDE DEF inIndex, holders, homes
    <3>2. own = {} /\ \A q \in Producers : b \notin Undone(q)
      BY <2>3, <2>12, Assumed
    <3>3. \/ b \in unused /\ b \notin OnList /\ b \notin Pending
          \/ b \in OnList /\ b \notin unused /\ b \notin Pending
          \/ b \in Pending /\ b \notin unused /\ b \notin OnList
      BY <2>2, <2>7, <2>12, <3>2
    <3>4. homes = {"unused"} \/ homes = {"list"} \/ homes = {"pending"}
      BY <2>4, <3>3
    <3>5. Cardinality(inIndex) = 0 /\ Cardinality(holders) = 0 /\ Cardinality(homes) = 1
      BY <2>8, <2>9, <2>12, <3>1, <3>4
    <3>10. Cardinality(inIndex) + Cardinality(holders) + Cardinality(homes) = 1
      BY <3>5
    <3> QED
      BY <3>10 DEF inIndex, holders, homes
  <2> QED
    BY <2>10, <2>11, <2>12
<1> QED
  BY <1>1, PlacesInvAlways, PTL
=============================================================================
