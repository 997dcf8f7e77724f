----------------------------- MODULE ThreadPool -----------------------------
(***************************************************************************)
(* threadpool11::Pool: clients post works, wait for all of them, and       *)
(* change the number of workers; worker threads take works from a queue,   *)
(* sleep on work_signal_ and leave when they run a TERMINAL work.          *)
(*                                                                         *)
(* A step is one access to state another thread touches without the lock   *)
(* that is held.  The critical section of push is one step, because what   *)
(* it writes is read under the same lock; that of a worker is not, because *)
(* active_worker_count_, work_queue_size_ and are_all_really_finished_     *)
(* change outside of it.  The memory order is sequential consistency.      *)
(***************************************************************************)
EXTENDS Integers, Sequences, FiniteSets

CONSTANTS Clients,     \* threads that call the pool, one queue producer each
          MaxWorkers,  \* bound: worker threads ever started
          Started,     \* number of workers the constructor spawns
          Room,        \* works of one client try_enqueue can hold
          Counts,      \* numbers of workers a call may name
          MaxCalls,    \* bound: calls made, the last one excepted
          Destroyer    \* the client that destroys the pool, or no client

Width == 64               \* size_t counts modulo Width

ASSUME PoolAssumption ==
    /\ IsFiniteSet(Clients)
    /\ {Room, MaxCalls} \subseteq Nat
    /\ {MaxWorkers} \cup Counts \subseteq 0 .. Width - 1
    /\ Started \in 0 .. MaxWorkers

STD == "STD"
TERMINAL == "TERMINAL"
SYNC == "SYNC"
ASYNC == "ASYNC"
Free == 0
Workers == 1 .. MaxWorkers   \* in the order they are started

VARIABLES
    wpc,          \* where each worker is
    work,         \* the work a worker took, 0 if none
    terminal,     \* workers whose work_type is TERMINAL
    detached,     \* workers whose thread object has been detached
    worker_count, active_worker_count, work_queue_size,
    are_all_really_finished,
    signal_mutex, \* who holds work_signal_mutex_
    work_queue,   \* a queue for each client
    type,         \* type of each posted work, in the order postWork was called
    done,         \* works whose future is ready
    lost,         \* works try_enqueue refused
    cpc, call,    \* where each client is, and the call it is in
    calls,        \* calls that may still be made
    piled,        \* a call was made while worker_count_ was no measure (history)
    crowded       \* clients whose change of the number of workers ran beside another
                  \* client's (history)

own == <<work, terminal, detached>>
counts == <<worker_count, active_worker_count, work_queue_size>>
pool == <<counts, are_all_really_finished, signal_mutex>>
works == <<type, done, lost, work_queue>>
past == <<calls, piled, crowded>>
client == <<cpc, call, past>>
vars == <<wpc, own, pool, works, client>>

Works == 1 .. Len(type)
Queued == UNION {{work_queue[c][i] : i \in DOMAIN work_queue[c]} : c \in Clients}
At(L) == {w \in Workers : wpc[w] \in L}
Lasting == {"top", "scan", "took", "run", "lock", "check", "finish", "leave", "wait", "woken"}
Running == At(Lasting) \ terminal

Resizing(c) == call[c].op \in {"inc", "dec", "set"}

\* worker_count_ is not what a call may rely on: it still counts workers that have run a
\* TERMINAL work, or that a queued one will make leave, or another client is changing it.
Miscounted ==
    \/ \E c \in Clients : Resizing(c)
    \/ worker_count # Cardinality(Running)
    \/ \E i \in Works \ done : type[i] = TERMINAL

Terminated == At({"terminated"}) # {}   \* std::terminate was called

NoCall == [op |-> "none", n |-> 0, method |-> ASYNC, mine |-> {}, want |-> 0]

Init ==
    /\ wpc = [w \in Workers |-> IF w <= Started THEN "top" ELSE "none"]
    /\ detached = 1 .. Started
    /\ work = [w \in Workers |-> 0] /\ terminal = {}
    /\ worker_count = Started /\ active_worker_count = 0 /\ work_queue_size = 0
    /\ are_all_really_finished = TRUE
    /\ signal_mutex = Free
    /\ work_queue = [c \in Clients |-> <<>>]
    /\ type = <<>> /\ done = {} /\ lost = {}
    /\ cpc = [c \in Clients |-> "idle"]
    /\ call = [c \in Clients |-> NoCall]
    /\ calls = MaxCalls
    /\ piled = FALSE /\ crowded = {}

-----------------------------------------------------------------------------
(* Worker::execute *)

Go(w, from, to) ==
    /\ wpc[w] = from /\ ~Terminated
    /\ wpc' = [wpc EXCEPT ![w] = to]

\* Mutant: a worker that is about to take works is not counted as active.
EnterUncounted(w) ==
    /\ Go(w, "top", "scan")
    /\ UNCHANGED active_worker_count
    /\ UNCHANGED <<own, worker_count, work_queue_size, are_all_really_finished, signal_mutex,
                   works, client>>

\* ++active_worker_count_, outside of any lock.
Enter(w) ==
    /\ Go(w, "top", "scan")
    /\ active_worker_count' = active_worker_count + 1
    /\ UNCHANGED <<own, worker_count, work_queue_size, are_all_really_finished, signal_mutex,
                   works, client>>

\* try_dequeue returns the oldest work of some client.
Take(w) ==
    /\ Go(w, "scan", "took")
    /\ \E c \in Clients :
          /\ work_queue[c] # <<>>
          /\ work' = [work EXCEPT ![w] = Head(work_queue[c])]
          /\ work_queue' = [work_queue EXCEPT ![c] = Tail(@)]
    /\ UNCHANGED <<terminal, detached, pool, type, done, lost, client>>

\* ... or nothing, also of a queue that is not empty while another worker takes from it.
TakeNothing(w) ==
    /\ Go(w, "scan", "lock")
    /\ Queued = {} \/ At({"scan"}) # {w}
    /\ UNCHANGED <<own, pool, works, client>>

CountTaken(w) ==
    /\ Go(w, "took", "run")
    /\ work_queue_size' = work_queue_size - 1
    /\ UNCHANGED <<own, worker_count, active_worker_count, are_all_really_finished, signal_mutex,
                   works, client>>

\* Mutant: the wrapper returns TERMINAL whatever the type.
RunLast(w) ==
    /\ Go(w, "run", "lock")
    /\ done' = done \cup {work[w]}
    /\ terminal' = terminal \cup {w}
    /\ work' = [work EXCEPT ![w] = 0]
    /\ UNCHANGED <<detached, pool, type, lost, work_queue, client>>

\* The callable postWork wrapped: it runs, makes the future ready, returns the type.
Run(w) ==
    /\ Go(w, "run", IF type[work[w]] = TERMINAL THEN "lock" ELSE "scan")
    /\ done' = done \cup {work[w]}
    /\ terminal' = IF type[work[w]] = TERMINAL THEN terminal \cup {w} ELSE terminal
    /\ work' = [work EXCEPT ![w] = 0]
    /\ UNCHANGED <<detached, pool, type, lost, work_queue, client>>

\* Locks work_signal_mutex_; --active_worker_count_ == 0 decides what is read next.
LockSignal(w) ==
    /\ signal_mutex = Free
    /\ signal_mutex' = w
    /\ active_worker_count' = active_worker_count - 1
    /\ Go(w, "lock", IF active_worker_count = 1 THEN "check" ELSE "leave")
    /\ UNCHANGED <<own, worker_count, work_queue_size, are_all_really_finished, works, client>>

CheckSize(w) ==
    /\ Go(w, "check", IF work_queue_size = 0 THEN "finish" ELSE "leave")
    /\ UNCHANGED <<own, pool, works, client>>

Finish(w) ==
    /\ Go(w, "finish", "leave")
    /\ are_all_really_finished' = TRUE
    /\ UNCHANGED <<own, counts, signal_mutex, works, client>>

\* Mutant: the wait does not look at the size before it sleeps.
LeaveBlindly(w) ==
    /\ signal_mutex' = Free
    /\ IF w \in terminal
       THEN Go(w, "leave", "exit") /\ worker_count' = (worker_count - 1) % Width
       ELSE /\ Go(w, "leave", "wait")
            /\ UNCHANGED worker_count
    /\ UNCHANGED <<own, active_worker_count, work_queue_size, are_all_really_finished, works,
                   client>>

\* A worker that ran a TERMINAL work returns; another one waits unless works are queued.
Leave(w) ==
    /\ signal_mutex' = Free
    /\ IF w \in terminal
       THEN Go(w, "leave", "exit") /\ worker_count' = (worker_count - 1) % Width
       ELSE /\ Go(w, "leave", IF work_queue_size > 0 THEN "top" ELSE "wait")
            /\ UNCHANGED worker_count
    /\ UNCHANGED <<own, active_worker_count, work_queue_size, are_all_really_finished, works,
                   client>>

\* The wait returns with the lock, tests the size again, and gives the lock back.
Wake(w) ==
    /\ signal_mutex = Free
    /\ Go(w, "woken", IF work_queue_size > 0 THEN "top" ELSE "wait")
    /\ UNCHANGED <<own, pool, works, client>>

\* self is destroyed; a std::thread that is destroyed before it is detached terminates
\* the program.
Exit(w) ==
    /\ Go(w, "exit", IF w \in detached THEN "gone" ELSE "terminated")
    /\ UNCHANGED <<own, pool, works, client>>

Worker(w) ==
    \/ Enter(w) \/ Take(w) \/ TakeNothing(w) \/ CountTaken(w) \/ Run(w) \/ LockSignal(w)
    \/ CheckSize(w) \/ Finish(w) \/ Leave(w) \/ Wake(w) \/ Exit(w)

-----------------------------------------------------------------------------
(* Calls *)

In(c, pc) == cpc[c] = pc /\ ~Terminated

Begin(c, op, n, method, pc) ==
    /\ In(c, "idle") /\ calls > 0
    /\ calls' = calls - 1
    /\ call' = [call EXCEPT ![c] = [op |-> op, n |-> n, method |-> method,
                                    want |-> IF op = "set" THEN n ELSE 0,
                                    mine |-> IF op = "waitAll" THEN Works ELSE {}]]
    /\ cpc' = [cpc EXCEPT ![c] = pc]
    /\ piled' = (piled \/ (op # "post" /\ Miscounted))
    /\ crowded' = LET others == {d \in Clients \ {c} : Resizing(d)}
                  IN  IF op \notin {"inc", "dec", "set"} THEN crowded
                      ELSE IF others = {} THEN crowded \ {c}
                      ELSE crowded \cup others \cup {c}
    /\ UNCHANGED <<wpc, own, pool, works>>

BeginPost(c) == Begin(c, "post", 1, ASYNC, "push")
BeginWaitAll(c) == Begin(c, "waitAll", 0, ASYNC, "waitAll")
BeginInc(c, n) == Begin(c, "inc", n, ASYNC, "spawn")

BeginDec(c, n, method) == Begin(c, "dec", n, method, "limit")

\* setWorkerCount compares with one reading of the count and subtracts from another one.
BeginSet(c, n, method) ==
    Begin(c, "set", n, method, IF worker_count < n THEN "setInc" ELSE "setDec")

SetCount(c) ==
    LET n == call[c].n
    IN  /\ \/ /\ In(c, "setInc")
              /\ cpc' = [cpc EXCEPT ![c] = "spawn"]
              /\ call' = [call EXCEPT ![c].n = (n - worker_count) % Width]
           \/ /\ In(c, "setDec")
              /\ cpc' = [cpc EXCEPT ![c] = "limit"]
              /\ call' = [call EXCEPT ![c].n = (worker_count - n) % Width]
        /\ UNCHANGED <<wpc, own, pool, works, past>>

\* n = std::min(n, getWorkerCount()), then n TERMINAL works are posted one by one.
Limit(c) ==
    /\ In(c, "limit")
    /\ cpc' = [cpc EXCEPT ![c] = "push"]
    /\ call' = [call EXCEPT ![c].n = IF @ < worker_count THEN @ ELSE worker_count]
    /\ UNCHANGED <<wpc, own, pool, works, past>>

\* postWork and the start of push: the flag is cleared before the lock is taken.
PostWork(c) ==
    /\ In(c, "push") /\ call[c].n > 0
    /\ type' = Append(type, IF call[c].op = "post" THEN STD ELSE TERMINAL)
    /\ call' = [call EXCEPT ![c].n = @ - 1, ![c].mine = @ \cup {Len(type) + 1}]
    /\ are_all_really_finished' = FALSE
    /\ cpc' = [cpc EXCEPT ![c] = "enqueue"]
    /\ UNCHANGED <<wpc, own, counts, signal_mutex, done, lost, work_queue, past>>

Latest(c) == CHOOSE i \in call[c].mine : \A j \in call[c].mine : j <= i

\* Mutant: push does not notify.
EnqueueSilently(c) ==
    /\ In(c, "enqueue") /\ signal_mutex = Free
    /\ cpc' = [cpc EXCEPT ![c] = "push"]
    /\ work_queue_size' = work_queue_size + 1
    /\ IF Len(work_queue[c]) < Room
       THEN work_queue' = [work_queue EXCEPT ![c] = Append(@, Latest(c))] /\ UNCHANGED lost
       ELSE lost' = lost \cup {Latest(c)} /\ UNCHANGED work_queue
    /\ UNCHANGED wpc
    /\ UNCHANGED <<own, worker_count, active_worker_count, are_all_really_finished, signal_mutex,
                   type, done, call, past>>

\* The rest of push, under the lock.  The result of try_enqueue is not looked at.
Enqueue(c) ==
    /\ In(c, "enqueue") /\ signal_mutex = Free
    /\ cpc' = [cpc EXCEPT ![c] = "push"]
    /\ work_queue_size' = work_queue_size + 1
    /\ IF Len(work_queue[c]) < Room
       THEN work_queue' = [work_queue EXCEPT ![c] = Append(@, Latest(c))] /\ UNCHANGED lost
       ELSE lost' = lost \cup {Latest(c)} /\ UNCHANGED work_queue
    /\ IF At({"wait"}) = {} THEN UNCHANGED wpc
       ELSE \E w \in At({"wait"}) : wpc' = [wpc EXCEPT ![w] = "woken"]
    /\ UNCHANGED <<own, worker_count, active_worker_count, are_all_really_finished, signal_mutex,
                   type, done, call, past>>

\* new Worker(*this): the thread runs before its constructor detaches it.
Spawn(c) ==
    /\ In(c, "spawn") /\ call[c].n > 0
    /\ \E w \in At({"none"}) :
          /\ \A v \in At({"none"}) : w <= v
          /\ wpc' = [wpc EXCEPT ![w] = "top"]
          /\ call' = [call EXCEPT ![c].mine = {w}, ![c].n = @ - 1]
    /\ cpc' = [cpc EXCEPT ![c] = "detach"]
    /\ UNCHANGED <<own, pool, works, past>>

Detach(c) ==
    /\ In(c, "detach")
    /\ detached' = detached \cup call[c].mine
    /\ call' = [call EXCEPT ![c].mine = {}]
    /\ cpc' = [cpc EXCEPT ![c] = "count"]
    /\ UNCHANGED <<wpc, work, terminal, pool, works, past>>

CountWorker(c) ==
    /\ In(c, "count")
    /\ worker_count' = (worker_count + 1) % Width
    /\ cpc' = [cpc EXCEPT ![c] = "spawn"]
    /\ UNCHANGED <<wpc, own, active_worker_count, work_queue_size, are_all_really_finished,
                   signal_mutex, works, call, past>>

\* Mutant: a synchronous call does not wait for its futures.
ReturnAtOnce(c) ==
    /\ \/ In(c, "spawn") /\ call[c].n = 0
       \/ In(c, "push") /\ call[c].n = 0
       \/ In(c, "waitAll") /\ are_all_really_finished
    /\ cpc' = [cpc EXCEPT ![c] = IF call[c].op = "destroy" THEN "destroyed" ELSE "idle"]
    /\ call' = [call EXCEPT ![c] = NoCall]
    /\ UNCHANGED <<wpc, own, pool, works, past>>

\* The call returns: from its loop, from waitAll, or once every future is ready.
Return(c) ==
    /\ \/ In(c, "spawn") /\ call[c].n = 0
       \/ /\ In(c, "push") /\ call[c].n = 0
          /\ call[c].method = SYNC => call[c].mine \subseteq done
       \/ In(c, "waitAll") /\ are_all_really_finished
    /\ cpc' = [cpc EXCEPT ![c] = IF call[c].op = "destroy" THEN "destroyed" ELSE "idle"]
    /\ call' = [call EXCEPT ![c] = NoCall]
    /\ UNCHANGED <<wpc, own, pool, works, past>>

\* ~Pool, when nobody else is in a call: joinAll, that is decWorkerCountBy(max, SYNC).
Destroy(c) ==
    /\ c = Destroyer /\ In(c, "idle") /\ calls = 0
    /\ \A d \in Clients \ {c} : cpc[d] = "idle"
    /\ call' = [call EXCEPT ![c] = [op |-> "destroy", n |-> Width - 1, method |-> SYNC,
                                    mine |-> {}, want |-> 0]]
    /\ cpc' = [cpc EXCEPT ![c] = "limit"]
    /\ piled' = (piled \/ Miscounted)
    /\ UNCHANGED <<wpc, own, pool, works, calls, crowded>>

Client(c) ==
    \/ SetCount(c) \/ Limit(c) \/ PostWork(c) \/ Enqueue(c) \/ Spawn(c) \/ Detach(c) \/ CountWorker(c)
    \/ Return(c)

Calls(c) ==
    \/ BeginPost(c) \/ BeginWaitAll(c) \/ Destroy(c)
    \/ \E n \in Counts :
          \/ n <= Cardinality(At({"none"})) /\ BeginInc(c, n)
          \/ \E m \in {SYNC, ASYNC} : BeginDec(c, n, m) \/ BeginSet(c, n, m)

Next ==
    \/ \E w \in Workers : Worker(w)
    \/ \E c \in Clients : Client(c) \/ Calls(c)

\* The operating system runs every thread; a client need not make a call.  A thread that
\* others beat to the mutex again and again may wait for ever.
Spec ==
    /\ Init /\ [][Next]_vars
    /\ \A w \in Workers : WF_vars(Worker(w)) /\ SF_vars(Take(w))
    /\ \A c \in Clients : WF_vars(Client(c))

-----------------------------------------------------------------------------
(* Properties *)

TypeOK ==
    /\ wpc \in [Workers -> {"none", "top", "scan", "took", "run", "lock", "check", "finish",
                            "leave", "wait", "woken", "exit", "gone", "terminated"}]
    /\ work \in [Workers -> 0 .. Len(type)]
    /\ detached \cup terminal \subseteq Workers
    /\ worker_count \in 0 .. Width - 1
    /\ {active_worker_count, work_queue_size} \subseteq Nat
    /\ are_all_really_finished \in BOOLEAN
    /\ signal_mutex \in {Free} \cup Workers
    /\ done \cup lost \subseteq Works
    /\ work_queue \in [Clients -> Seq(Works)]

\* What the comment in Worker::execute rests on: while a work is queued or being run,
\* the queue size or the number of active workers is above zero (worker.cpp:57-58).
WorkIsCounted ==
    \/ work_queue_size > 0 \/ active_worker_count > 0
    \/ Works \ (done \cup lost) \subseteq
          {Latest(c) : c \in {d \in Clients : cpc[d] = "enqueue"}}

\* No wake-up is lost: while works are queued and a worker is left to run them, one of
\* them is not asleep, although push wakes one worker only and a worker that leaves
\* wakes none (pool.cpp:97, worker.cpp:66-73).
NoWorkForgotten ==
    Queued # {} /\ Running # {} => \E w \in Running : wpc[w] # "wait"

\* A worker is never destroyed before its constructor has detached its thread, which
\* would terminate the program, unless termination requests had piled up (pool.cpp:86).
NewWorkerSurvives == Terminated => piled

\* setWorkerCount(n, SYNC) reads the count three times while workers leave that an earlier
\* call dismissed.  Whatever the three readings are, and a difference of two of them may
\* wrap, no more than n workers are left to run works when it returns, unless another
\* client's change of the number ran beside it (pool.cpp:51-56, :67).
SetLeavesAtMost ==
    [][\A c \in Clients \ crowded :
         cpc[c] # "idle" /\ cpc'[c] = "idle" /\ call[c].op = "set" /\ call[c].method = SYNC
         => Cardinality(Running) <= call[c].want]_vars

\* No wake-up is lost for those who wait: waitAll returns, unless no worker is left, and so
\* does a synchronous call that decreases the number of workers, the destructor's too.
\* What it says nothing of, calls made while the count was no measure and works the queue
\* refused, is what DestructorReturns and NoWorkRefused are about.
CallsReturn ==
    \A c \in Clients :
        (cpc[c] = "waitAll" \/ (cpc[c] = "push" /\ call[c].method = SYNC))
            ~> \/ cpc[c] \in {"idle", "destroyed"}
               \/ cpc[c] = "waitAll" /\ Running = {}
               \/ piled \/ lost # {} \/ Terminated

\* Violated.  waitAll "guarantees you that before the function returns, all queued works
\* are finished" (pool.hpp:73).
WaitAllMeansDone ==
    [][\A c \in Clients :
         cpc[c] = "waitAll" /\ cpc'[c] = "idle" => call[c].mine \subseteq done \cup lost]_vars

\* Violated.  A call with Method::SYNC "won't return until the specified number of workers
\* are actually destroyed" (pool.hpp:111, :166).
SyncMeansDestroyed ==
    [][\A c \in Clients :
         cpc[c] = "push" /\ cpc'[c] = "idle" /\ call[c].op = "dec" /\ call[c].method = SYNC
         => Cardinality(At({"gone"})) >= Cardinality(call[c].mine)]_vars

\* Violated.  joinAll, the destructor's call, "joins all the threads in the thread pool"
\* and "this function returns" (pool.hpp:78-80).
DestructorReturns == \A c \in Clients : call[c].op = "destroy" ~> cpc[c] = "destroyed"

\* Violated.  Piled termination requests "can even kill the newly created workers"
\* (pool.hpp:107-109): they kill workers, not the program.
OnlyWorkersDie == ~Terminated

\* Violated.  "If there are no threads left (...) all the works you post gets enqueued"
\* (pool.hpp:59-60).
NoWorkRefused == [][At(Lasting) = {} => lost' = lost]_vars
=============================================================================
