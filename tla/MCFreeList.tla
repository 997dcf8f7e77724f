----------------------------- MODULE MCFreeList -----------------------------
(***************************************************************************)
(* FreeList used by threads that hold blocks: one that holds a block may   *)
(* add it, any one may ask for a block, and keeps the block it gets.  The  *)
(* threads of ImplicitQueue do no more than that to the list.              *)
(***************************************************************************)
EXTENDS FreeList

VARIABLE holds    \* the blocks of each thread

all == <<freeList, holds>>

\* Every block is in the hands of some thread.
UserInit ==
    /\ FreeListInit
    /\ \E t \in Threads : holds = [u \in Threads |-> IF u = t THEN Blocks ELSE {}]

Give(t) ==
    \E b \in holds[t] :
        CallAdd(t, b) /\ holds' = [holds EXCEPT ![t] = @ \ {b}]

Ask(t) == CallTryGet(t) /\ UNCHANGED holds

Keep(t) ==
    /\ EndTryGet(t)
    /\ holds' = [holds EXCEPT ![t] = @ \cup ({Cand(t)} \ {Null})]

Work(t) == (FreeListStep(t) /\ UNCHANGED holds) \/ Keep(t)

UserNext == \E t \in Threads : Give(t) \/ Ask(t) \/ Work(t)

UserSpec == UserInit /\ [][UserNext]_all /\ \A t \in Threads : WF_all(Work(t))

-----------------------------------------------------------------------------
Busy(t) == fpc[t] \notin {"idle", "got"}

\* A thread has the block of an operation on it to itself: one it is adding until it is on
\* the list or left to another thread, one it got from the moment the head moved on.
Own(t) ==
    holds[t] \cup CASE fpc[t] = "add" -> {Node(t)}
                     [] fpc[t] \in {"unref", "got"} -> {Cand(t)} \ {Null}
                     [] OTHER -> {}

\* No block is lost and none is in two places: a try_get that read a next pointer before
\* the block left the list and came back does not install it (the ABA problem).  Once no
\* operation is under way no block waits for somebody to push it, and whoever takes a
\* block off the list finds no order to push it (the assert of try_get).
Conserved ==
    /\ \A b \in Blocks :
          Cardinality({t \in Threads : b \in Own(t)})
              + Cardinality({s \in {"list", "pending"} :
                               b \in IF s = "list" THEN OnList ELSE Pending}) = 1
    /\ (\A t \in Threads : ~Busy(t)) => Pending = {}
    /\ \A t \in Threads : fpc[t] = "unref" => freeListRefs[Cand(t)] < ShouldBeOn

\* Lock-freedom: some operation ends as long as one is under way, although each may have to
\* try again because of another.
SomeoneEnds ==
    \A t \in Threads : []<><<\E u \in Threads : Busy(u) /\ ~Busy(u)'>>_all \/ <>[]~Busy(t)
=============================================================================
