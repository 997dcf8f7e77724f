------------------------------ MODULE FreeList ------------------------------
(***************************************************************************)
(* FreeList of concurrentqueue.h: a stack of blocks without locks.  A      *)
(* block's freeListRefs counts the threads that hold it and, while it is   *)
(* on the list, the list; the bit SHOULD_BE_ON_FREELIST leaves the pushing *)
(* to the last thread that lets go of it.  A step is an access to shared   *)
(* memory; a load whose value the next compare-exchange expects is one     *)
(* step with it, the failed exchange being the retry it leads to.          *)
(*                                                                         *)
(* A caller starts an operation with CallAdd or CallTryGet and goes on     *)
(* when fpc is "idle" or "got"; what try_get returns is floc[t].cand.      *)
(***************************************************************************)
EXTENDS Integers, Sequences, FiniteSets

CONSTANTS
    Threads, Blocks, Null,
    ShouldBeOn     \* SHOULD_BE_ON_FREELIST, the bit above any number of references

ASSUME FreeListAssumption ==
    /\ Null \notin Blocks
    /\ IsFiniteSet(Threads)
    /\ ShouldBeOn \in Nat /\ ShouldBeOn > Cardinality(Threads) + 1

VARIABLES
    freeListHead, freeListRefs, freeListNext,
    fpc,      \* where each thread is in an operation on the list
    floc      \* its locals: the node to add, the head try_get is at, a next pointer

list == <<freeListHead, freeListRefs, freeListNext>>
freeList == <<list, fpc, floc>>

NoLocals == [op |-> "none", node |-> Null, cand |-> Null, old |-> Null]
Node(t) == floc[t].node
Cand(t) == floc[t].cand

FreeListInit ==
    /\ freeListHead = Null
    /\ freeListRefs = [b \in Blocks |-> 0]
    /\ freeListNext = [b \in Blocks |-> Null]
    /\ fpc = [t \in Threads |-> "idle"]
    /\ floc = [t \in Threads |-> NoLocals]

At(t, from, to) == fpc[t] = from /\ fpc' = [fpc EXCEPT ![t] = to]
Refs(b, d) == freeListRefs' = [freeListRefs EXCEPT ![b] = @ + d]
Local(t, field, v) == floc' = [floc EXCEPT ![t][field] = v]

CallAdd(t, b) ==
    /\ At(t, "idle", "add")
    /\ floc' = [floc EXCEPT ![t] = [NoLocals EXCEPT !.op = "add", !.node = b]]
    /\ UNCHANGED list

CallTryGet(t) ==
    /\ At(t, "idle", "get")
    /\ floc' = [floc EXCEPT ![t] = [NoLocals EXCEPT !.op = "get"]]
    /\ UNCHANGED list

EndTryGet(t) ==
    /\ At(t, "got", "idle")
    /\ floc' = [floc EXCEPT ![t] = NoLocals]
    /\ UNCHANGED list

Add(t) ==
    /\ At(t, "add", IF freeListRefs[Node(t)] = 0 THEN "load" ELSE "idle")
    /\ Refs(Node(t), ShouldBeOn)
    /\ UNCHANGED <<freeListHead, freeListNext, floc>>

-----------------------------------------------------------------------------
(* add_knowing_refcount_is_zero, called by add and by try_get *)

\* Where the caller goes on: try_get with the head its failed exchange left.
Continue(t) ==
    IF floc[t].op = "add" THEN "idle" ELSE IF Cand(t) = Null THEN "got" ELSE "ref"

LoadHead(t) ==
    /\ At(t, "load", "link")
    /\ Local(t, "old", freeListHead)
    /\ UNCHANGED list

Link(t) ==
    /\ At(t, "link", "push")
    /\ freeListNext' = [freeListNext EXCEPT ![Node(t)] = floc[t].old]
    /\ freeListRefs' = [freeListRefs EXCEPT ![Node(t)] = 1]
    /\ UNCHANGED <<freeListHead, floc>>

Push(t) ==
    /\ At(t, "push", IF freeListHead = floc[t].old THEN Continue(t) ELSE "unlink")
    /\ IF freeListHead = floc[t].old
       THEN freeListHead' = Node(t) /\ UNCHANGED floc
       ELSE Local(t, "old", freeListHead) /\ UNCHANGED freeListHead
    /\ UNCHANGED <<freeListRefs, freeListNext>>

\* Mutant: the failed push does not give back the reference it set.
UnlinkKeeping(t) ==
    /\ At(t, "unlink", Continue(t))
    /\ Refs(Node(t), ShouldBeOn)
    /\ UNCHANGED <<freeListHead, freeListNext, floc>>

\* The push failed: whoever brings the count back to zero tries again.
Unlink(t) ==
    /\ At(t, "unlink", IF freeListRefs[Node(t)] = 1 THEN "link" ELSE Continue(t))
    /\ Refs(Node(t), ShouldBeOn - 1)
    /\ UNCHANGED <<freeListHead, freeListNext, floc>>

-----------------------------------------------------------------------------
(* try_get *)

GetHead(t) ==
    /\ At(t, "get", IF freeListHead = Null THEN "got" ELSE "ref")
    /\ Local(t, "cand", freeListHead)
    /\ UNCHANGED list

\* Mutant: a head that no longer is one is not read again.
RefStale(t) ==
    LET held == freeListRefs[Cand(t)] % ShouldBeOn # 0
    IN  /\ At(t, "ref", IF held THEN "next" ELSE "ref")
        /\ IF held THEN Refs(Cand(t), 1) ELSE UNCHANGED freeListRefs
        /\ UNCHANGED <<freeListHead, freeListNext, floc>>

Ref(t) ==
    LET held == freeListRefs[Cand(t)] % ShouldBeOn # 0
    IN  /\ At(t, "ref", IF held THEN "next" ELSE "get")
        /\ IF held THEN Refs(Cand(t), 1) ELSE UNCHANGED freeListRefs
        /\ UNCHANGED <<freeListHead, freeListNext, floc>>

Next_(t) ==
    /\ At(t, "next", "pop")
    /\ Local(t, "old", freeListNext[Cand(t)])
    /\ UNCHANGED list

Pop(t) ==
    /\ At(t, "pop", IF freeListHead = Cand(t) THEN "unref" ELSE "drop")
    /\ IF freeListHead = Cand(t)
       THEN freeListHead' = floc[t].old /\ UNCHANGED floc
       ELSE /\ floc' = [floc EXCEPT ![t].node = Cand(t), ![t].cand = freeListHead]
            /\ UNCHANGED freeListHead
    /\ UNCHANGED <<freeListRefs, freeListNext>>

\* One reference of the thread, one of the list.
Unref(t) ==
    /\ At(t, "unref", "got")
    /\ Refs(Cand(t), -2)
    /\ UNCHANGED <<freeListHead, freeListNext, floc>>

Drop(t) ==
    /\ At(t, "drop", IF freeListRefs[Node(t)] = ShouldBeOn + 1 THEN "load" ELSE Continue(t))
    /\ Refs(Node(t), -1)
    /\ UNCHANGED <<freeListHead, freeListNext, floc>>

FreeListStep(t) ==
    \/ Add(t) \/ LoadHead(t) \/ Link(t) \/ Push(t) \/ Unlink(t)
    \/ GetHead(t) \/ Ref(t) \/ Next_(t) \/ Pop(t) \/ Unref(t) \/ Drop(t)

-----------------------------------------------------------------------------
\* The blocks on the list: those in every set with the head and what follows its members.
Closed(S) ==
    freeListHead \in S \cup {Null} /\ \A b \in S : freeListNext[b] \in S \cup {Null}
OnList == {b \in Blocks : \A S \in SUBSET Blocks : Closed(S) => b \in S}

\* A block a thread may still push: it has been let go of but waits for its references,
\* or the thread is about to push it.
Pending == {b \in Blocks : freeListRefs[b] >= ShouldBeOn}
              \cup {Node(t) : t \in {s \in Threads : fpc[s] \in {"load", "link", "push", "unlink"}}}
=============================================================================
