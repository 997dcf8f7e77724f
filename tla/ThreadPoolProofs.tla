-------------------------- MODULE ThreadPoolProofs --------------------------
(***************************************************************************)
(* Proofs about ThreadPool, for any number of clients, workers and calls:  *)
(* the counters agree with where the threads are, no wake-up is lost,      *)
(* while calls do not pile up no worker is destroyed too early, and        *)
(* setWorkerCount(n, SYNC) leaves n workers or fewer.                      *)
(***************************************************************************)
EXTENDS ThreadPool, FiniteSetTheorems, SequenceTheorems, TLAPS

-----------------------------------------------------------------------------
(* The inductive invariant, in parts.                                      *)

Leaving == {"lock", "check", "finish", "leave", "exit", "gone", "terminated"}
CallStates == {"idle", "push", "enqueue", "waitAll", "spawn", "detach", "count", "setInc",
               "setDec", "limit", "destroyed"}
CallRecords == [op : {"none", "post", "waitAll", "inc", "dec", "set", "destroy"},
                n : Nat, method : {SYNC, ASYNC}, want : Nat, mine : SUBSET Nat]

\* The types of the variables TypeOK leaves out.
CallsOK ==
    /\ type \in Seq({STD, TERMINAL})
    /\ cpc \in [Clients -> CallStates]
    /\ call \in [Clients -> CallRecords]
    /\ calls \in Nat /\ piled \in BOOLEAN /\ crowded \subseteq Clients

\* What a call is doing, by where it is.
CallShape(c) ==
    /\ cpc[c] \in {"idle", "destroyed"} => call[c].op = "none"
    /\ cpc[c] \in {"push", "enqueue"} =>
           call[c].op \in {"post", "dec", "set", "destroy"} /\ call[c].mine \subseteq Works
    /\ cpc[c] \in {"spawn", "detach", "count"} => call[c].op \in {"inc", "set"}
    /\ cpc[c] \in {"setInc", "setDec"} =>
           /\ call[c].op = "set" /\ call[c].mine = {}
           /\ call[c].n = call[c].want /\ call[c].n < Width
    /\ cpc[c] = "limit" => call[c].op \in {"dec", "set", "destroy"} /\ call[c].mine = {}
    /\ cpc[c] = "waitAll" => call[c].op = "waitAll"
    /\ cpc[c] = "detach" => \E w \in Workers : call[c].mine = {w}
    /\ call[c].op = "destroy" => calls = 0

\* Every work is in one place: about to be queued, queued, refused, with one worker, done.
Pushing == {c \in Clients : cpc[c] = "enqueue"}
Busy == At({"took", "run"})

PlacesApart ==
    /\ \A c, d \in Clients : \A i \in 1 .. Len(work_queue[c]), j \in 1 .. Len(work_queue[d]) :
           work_queue[c][i] = work_queue[d][j] => c = d /\ i = j
    /\ \A w, v \in Busy : work[w] = work[v] => w = v
    /\ \A c, d \in Pushing : Latest(c) = Latest(d) => c = d
    /\ \A w \in Busy : work[w] \in Works \ (Queued \cup lost \cup done)
    /\ \A c \in Pushing : /\ Latest(c) \in Works \ (Queued \cup lost \cup done)
                          /\ \A w \in Busy : work[w] # Latest(c)
    /\ Queued \cap (lost \cup done) = {} /\ lost \cap done = {}

NoWorkMissing ==
    \A i \in Works \ (Queued \cup lost \cup done) : \/ \E w \in Busy : work[w] = i
                                                    \/ \E c \in Pushing : Latest(c) = i

\* The counters.
Taken == {work[w] : w \in At({"took"})}
SizeExact == work_queue_size = Cardinality(Queued \cup lost \cup Taken)
ActiveExact == active_worker_count = Cardinality(At({"scan", "took", "run", "lock"}))

Counting == {c \in Clients : cpc[c] \in {"detach", "count"}}
CountExact ==
    worker_count = (Cardinality(At(Lasting)) - Cardinality(Counting)) % Width

\* A worker that has run a TERMINAL work is on its way out, and no other one is.
TerminalLeave ==
    /\ terminal \subseteq At(Leaving)
    /\ At({"exit", "gone", "terminated"}) \subseteq terminal

\* While a worker sleeps, there are as many workers awake and without a work as there are
\* works queued.
Ready == {w \in Running : wpc[w] \notin {"wait", "took", "run"}}
EnoughAwake == At({"wait"}) # {} => Cardinality(Queued) <= Cardinality(Ready)

\* A thread that is not detached is one a client is about to detach.
ThreadsDetached ==
    \A w \in Workers : wpc[w] # "none" /\ w \notin detached =>
        \E c \in Clients : cpc[c] = "detach" /\ call[c].mine = {w}

\* While calls have not piled up, one call at a time changes the number of workers, and the
\* TERMINAL works that have not been run are its own.
Changing(c) == call[c].op \in {"inc", "dec", "set", "destroy"}
Undone == {i \in Works \ done : type[i] = TERMINAL}
Orderly ==
    ~piled =>
        /\ \A c, d \in Clients : Changing(c) /\ Changing(d) => c = d
        /\ \A c \in Clients :
               /\ cpc[c] \in {"spawn", "detach", "count", "setInc", "setDec", "limit"} =>
                      Undone = {}
               /\ cpc[c] \in {"push", "enqueue"} /\ Changing(c) => Undone \subseteq call[c].mine
               /\ cpc[c] = "detach" => call[c].mine \cap terminal = {}
        /\ ~Terminated

\* Two changes of the number of workers that overlap are both crowded.
Alone ==
    \A c, d \in Clients : Resizing(c) /\ Resizing(d) /\ c # d => c \in crowded

\* How far setWorkerCount has got.
OnCourse(c) ==
    /\ cpc[c] = "setInc" => Cardinality(At(Lasting)) <= call[c].want
    /\ cpc[c] \in {"spawn", "detach", "count"} =>
           Cardinality(Running) + call[c].n <= call[c].want
    /\ cpc[c] = "limit" => Cardinality(Running) <= call[c].want + call[c].n
    /\ cpc[c] \in {"push", "enqueue"} =>
           /\ \A i \in call[c].mine : type[i] = TERMINAL
           /\ Cardinality(Running)
                  <= call[c].want + call[c].n + Cardinality(call[c].mine \ done)
SetOnCourse == Alone /\ \A c \in Clients \ crowded : call[c].op = "set" => OnCourse(c)

PoolInv ==
    /\ TypeOK /\ CallsOK /\ \A c \in Clients : CallShape(c)
    /\ PlacesApart /\ NoWorkMissing
    /\ SizeExact /\ ActiveExact /\ CountExact
    /\ TerminalLeave /\ EnoughAwake
    /\ ThreadsDetached /\ Orderly /\ SetOnCourse

-----------------------------------------------------------------------------
(* What the parts read, and when they stay as they are.                    *)

WorkerStates == {"none", "top", "scan", "took", "run", "lock", "check", "finish", "leave",
                 "wait", "woken", "exit", "gone", "terminated"}

\* Sets of workers are finite.
LEMMA WorkersFinite ==
    /\ MaxWorkers \in Nat /\ MaxWorkers < Width /\ Started \in Nat /\ Started <= MaxWorkers
    /\ \A S \in SUBSET Workers : /\ IsFiniteSet(S) /\ Cardinality(S) \in Nat
                                 /\ Cardinality(S) <= MaxWorkers
<1>1. MaxWorkers \in Nat /\ MaxWorkers < Width /\ Started \in Nat /\ Started <= MaxWorkers
  BY PoolAssumption DEF Width
<1>2. IsFiniteSet(Workers) /\ Cardinality(Workers) = MaxWorkers
  BY <1>1, FS_Interval DEF Workers
<1>3. ASSUME NEW S \in SUBSET Workers
      PROVE  /\ IsFiniteSet(S) /\ Cardinality(S) \in Nat
             /\ Cardinality(S) <= MaxWorkers
  BY <1>2, FS_Subset, FS_CardinalityType
<1> QED
  BY <1>1, <1>3

\* The workers at a place, and those left to run works.
LEMMA AtFacts ==
    /\ \A L : At(L) \in SUBSET Workers
    /\ Running = At(Lasting) \ terminal
    /\ Ready = Running \ At({"wait", "took", "run"})
    /\ Running \in SUBSET Workers /\ Ready \in SUBSET Workers
BY DEF At, Running, Lasting, Ready

\* Counting a set that gains or loses an element.
LEMMA OneMore ==
    ASSUME NEW S, IsFiniteSet(S), NEW x, x \notin S
    PROVE  /\ IsFiniteSet(S \cup {x}) /\ Cardinality(S) \in Nat
           /\ Cardinality(S \cup {x}) = Cardinality(S) + 1
BY FS_AddElement, FS_CardinalityType

LEMMA OneLess ==
    ASSUME NEW S, IsFiniteSet(S), NEW x \in S
    PROVE  /\ IsFiniteSet(S \ {x}) /\ Cardinality(S) \in Nat /\ Cardinality(S \ {x}) \in Nat
           /\ Cardinality(S \ {x}) = Cardinality(S) - 1
BY FS_RemoveElement, FS_CardinalityType

LEMMA OneMoved ==
    ASSUME NEW a \in Nat, NEW b \in Nat, NEW m \in Nat, NEW x, NEW y, x = b - 1, y = m + 1
    PROVE  a + x + y = a + b + m
OBVIOUS

\* The difference of two counts.
LEMMA Difference ==
    ASSUME NEW a \in Nat, NEW b \in Nat, b <= a, a < Width
    PROVE  (a - b) % Width = a - b /\ a - b \in Nat
<1>1. a - b \in 0 .. 63
  BY DEF Width
<1>2. \A x \in 0 .. 63 : x % 64 = x
  OBVIOUS
<1> QED
  BY <1>1, <1>2 DEF Width

\* A worker's step takes it from one place to another.
LEMMA GoMoves ==
    ASSUME TypeOK, NEW w \in Workers, NEW from, NEW to \in WorkerStates, Go(w, from, to)
    PROVE  /\ wpc' \in [Workers -> WorkerStates]
           /\ wpc[w] = from /\ wpc'[w] = to
           /\ \A v \in Workers \ {w} : wpc'[v] = wpc[v]
BY DEF TypeOK, Go, WorkerStates

LEMMA GoAt ==
    ASSUME NEW w \in Workers, wpc'[w] \in WorkerStates,
           \A v \in Workers \ {w} : wpc'[v] = wpc[v],
           NEW L
    PROVE  /\ wpc[w] \in L /\ wpc'[w] \notin L => At(L)' = At(L) \ {w} /\ w \in At(L)
           /\ wpc[w] \notin L /\ wpc'[w] \in L => At(L)' = At(L) \cup {w} /\ w \notin At(L)
           /\ (wpc[w] \in L <=> wpc'[w] \in L) => At(L)' = At(L)
BY DEF At

\* The works queued.
LEMMA QueuedIs ==
    \A x : x \in Queued <=> \E c \in Clients : \E i \in DOMAIN work_queue[c] : work_queue[c][i] = x
BY DEF Queued

LEMMA QueuedNext ==
    \A x : x \in Queued' <=>
               \E c \in Clients : \E i \in DOMAIN work_queue'[c] : work_queue'[c][i] = x
BY DEF Queued

LEMMA QueuedFacts ==
    ASSUME TypeOK, CallsOK
    PROVE  /\ Len(type) \in Nat
           /\ \A x : x \in Queued <=>
                  \E c \in Clients : \E i \in 1 .. Len(work_queue[c]) : work_queue[c][i] = x
           /\ Queued \subseteq Works /\ IsFiniteSet(Queued) /\ Cardinality(Queued) \in Nat
           /\ lost \subseteq Works /\ done \subseteq Works
           /\ IsFiniteSet(Works)
<1>1. \A c \in Clients : work_queue[c] \in Seq(Works)
  BY DEF TypeOK
<1>2. \A c \in Clients : /\ DOMAIN work_queue[c] = 1 .. Len(work_queue[c])
                         /\ \A i \in 1 .. Len(work_queue[c]) : work_queue[c][i] \in Works
  BY <1>1
<1>0. Len(type) \in Nat
  BY DEF CallsOK
<1>3. IsFiniteSet(Works)
  BY <1>0, FS_Interval DEF Works
<1>4. Queued \subseteq Works
  BY <1>2, QueuedIs
<1>5. IsFiniteSet(Queued) /\ Cardinality(Queued) \in Nat
  BY <1>3, <1>4, FS_Subset, FS_CardinalityType
<1> QED
  BY <1>0, <1>2, <1>3, <1>4, <1>5, QueuedIs DEF TypeOK

\* The work a client is queueing is the latest of its call.
LEMMA LatestStays ==
    ASSUME NEW c \in Clients, call'[c] = call[c]
    PROVE  Latest(c)' = Latest(c)
BY DEF Latest

\* What a worker has taken.
LEMMA FramePlaces ==
    ASSUME PlacesApart, NoWorkMissing, UNCHANGED <<type, done, lost, work_queue, work>>,
           Busy' = Busy, Pushing' = Pushing,
           \A c \in Pushing : call'[c] = call[c]
    PROVE  PlacesApart' /\ NoWorkMissing'
<1>1. Works' = Works /\ Queued' = Queued
  BY DEF Works, Queued
<1>2. \A c \in Pushing : Latest(c)' = Latest(c)
  BY LatestStays DEF Pushing
<1>3. PlacesApart'
  <2>1. \A c, d \in Pushing : Latest(c)' = Latest(d)' => c = d
    BY <1>2 DEF PlacesApart
  <2>2. \A c \in Pushing : /\ Latest(c)' \in Works \ (Queued \cup lost \cup done)
                           /\ \A w \in Busy : work[w] # Latest(c)'
    BY <1>2 DEF PlacesApart
  <2> QED
    BY <1>1, <2>1, <2>2 DEF PlacesApart
<1>4. NoWorkMissing'
  BY <1>1, <1>2 DEF NoWorkMissing
<1> QED
  BY <1>3, <1>4

LEMMA FrameSize ==
    ASSUME SizeExact, UNCHANGED <<work_queue_size, work_queue, lost, work>>,
           At({"took"})' = At({"took"})
    PROVE  SizeExact'
<1>1. Queued' = Queued /\ Taken' = Taken
  BY DEF Queued, Taken
<1> QED
  BY <1>1 DEF SizeExact

\* Fewer works queued, or more workers awake.
LEMMA FrameAwake ==
    ASSUME EnoughAwake, NEW k \in Nat, At({"wait"})' \subseteq At({"wait"}),
           Cardinality(Queued) \in Nat, Cardinality(Queued') \in Nat,
           Cardinality(Ready) \in Nat, Cardinality(Ready') \in Nat,
           Cardinality(Queued') + k <= Cardinality(Queued),
           Cardinality(Ready') + k >= Cardinality(Ready)
    PROVE  EnoughAwake'
BY DEF EnoughAwake

LEMMA FrameThreads ==
    ASSUME ThreadsDetached, UNCHANGED <<detached, cpc, call>>,
           \A w \in Workers : wpc'[w] # "none" => wpc[w] # "none"
    PROVE  ThreadsDetached'
BY DEF ThreadsDetached

LEMMA FrameOrderly ==
    ASSUME Orderly, UNCHANGED <<type, done, cpc, call, piled>>,
           terminal' \subseteq terminal, Terminated' => Terminated
    PROVE  Orderly'
<1>1. Undone' = Undone /\ \A c \in Clients : Changing(c)' = Changing(c)
  BY DEF Undone, Works, Changing
<1> QED
  BY <1>1 DEF Orderly

LEMMA FrameAlone ==
    ASSUME Alone, \A c \in Clients : Resizing(c)' => Resizing(c), crowded' = crowded
    PROVE  Alone'
BY DEF Alone

LEMMA FrameSet ==
    ASSUME CallsOK, SetOnCourse, UNCHANGED <<type, done, cpc, call, crowded>>,
           Running' = Running, At(Lasting)' \subseteq At(Lasting)
    PROVE  SetOnCourse'
<1>1. /\ Cardinality(At(Lasting)) \in Nat /\ Cardinality(At(Lasting)') \in Nat
      /\ Cardinality(At(Lasting)') <= Cardinality(At(Lasting))
  <2>1. IsFiniteSet(At(Lasting)) /\ Cardinality(At(Lasting)) \in Nat
    BY AtFacts, WorkersFinite
  <2> QED
    BY <2>1, FS_Subset, FS_CardinalityType
<1>2. Alone'
  BY FrameAlone DEF SetOnCourse, Resizing
<1>3. ASSUME NEW c \in Clients \ crowded, call[c].op = "set" PROVE OnCourse(c)'
  <2>1. OnCourse(c) /\ call[c].want \in Nat
    BY <1>3 DEF SetOnCourse, CallsOK, CallRecords
  <2>2. cpc[c] = "setInc" => Cardinality(At(Lasting)') <= call[c].want
    BY <1>1, <2>1 DEF OnCourse
  <2> QED
    BY <2>1, <2>2 DEF OnCourse
<1> QED
  BY <1>2, <1>3 DEF SetOnCourse

\* What a step of one client leaves of the others' calls of setWorkerCount.
LEMMA OthersOnCourse ==
    ASSUME SetOnCourse, NEW c \in Clients, \A d \in Clients : CallShape(d),
           \A d \in Clients \ {c} : cpc'[d] = cpc[d] /\ call'[d] = call[d],
           crowded \ {c} \subseteq crowded', done' = done,
           \A i \in Works : type'[i] = type[i],
           Running' = Running, At(Lasting)' = At(Lasting)
    PROVE  \A d \in Clients \ crowded' : d # c /\ call'[d].op = "set" => OnCourse(d)'
<1> SUFFICES ASSUME NEW d \in Clients \ crowded', d # c, call'[d].op = "set"
             PROVE  OnCourse(d)'
  OBVIOUS
<1>1. OnCourse(d) /\ cpc'[d] = cpc[d] /\ call'[d] = call[d]
  BY DEF SetOnCourse
<1>2. cpc[d] \in {"push", "enqueue"} => \A i \in call[d].mine : type'[i] = type[i]
  BY DEF CallShape
<1> QED
  BY <1>1, <1>2 DEF OnCourse

LEMMA FrameShape ==
    ASSUME NEW c \in Clients, CallShape(c), cpc'[c] = cpc[c], call'[c] = call[c],
           calls' = calls, Works \subseteq Works'
    PROVE  CallShape(c)'
BY DEF CallShape

LEMMA FrameCalls ==
    ASSUME CallsOK, \A c \in Clients : CallShape(c),
           UNCHANGED <<type, cpc, call, calls, piled, crowded>>
    PROVE  CallsOK' /\ \A c \in Clients : CallShape(c)'
BY DEF CallsOK, CallShape, Works

-----------------------------------------------------------------------------
(* The steps of a worker.                                                  *)

Plain == {"top", "scan", "lock", "check", "finish", "leave", "woken"}
Active == {"scan", "took", "run", "lock"}

\* Everything but the types and the number of active workers is kept by a step between two
\* places where a worker is awake and without a work.
LEMMA PlainMove ==
    ASSUME PoolInv, NEW w \in Workers, NEW from \in Plain, NEW to \in Plain, Go(w, from, to),
           w \in terminal => to \in Leaving,
           UNCHANGED <<own, worker_count, work_queue_size, works, client>>
    PROVE  /\ CallsOK' /\ \A c \in Clients : CallShape(c)'
           /\ PlacesApart' /\ NoWorkMissing' /\ SizeExact' /\ CountExact'
           /\ TerminalLeave' /\ EnoughAwake'
           /\ ThreadsDetached' /\ Orderly' /\ SetOnCourse'
<1> USE DEF PoolInv
<1>1. /\ from \notin {"none", "took", "run", "wait", "exit", "gone", "terminated"}
      /\ to \notin {"none", "took", "run", "wait", "exit", "gone", "terminated"}
      /\ from \in Lasting /\ to \in Lasting /\ to \in WorkerStates
  BY DEF Plain, Lasting, WorkerStates
<1>2. /\ wpc[w] = from /\ wpc'[w] = to /\ wpc'[w] \in WorkerStates
      /\ \A v \in Workers \ {w} : wpc'[v] = wpc[v]
  BY <1>1, GoMoves
<1>3. /\ At({"took"})' = At({"took"}) /\ Busy' = Busy /\ At({"wait"})' = At({"wait"})
      /\ At(Lasting)' = At(Lasting)
      /\ At({"wait", "took", "run"})' = At({"wait", "took", "run"})
      /\ At({"exit", "gone", "terminated"})' = At({"exit", "gone", "terminated"})
      /\ At({"terminated"})' = At({"terminated"})
  BY <1>1, <1>2, GoAt DEF Busy
<1>4. /\ UNCHANGED <<work, terminal, detached, type, done, lost, work_queue, cpc, call, calls,
                     piled, crowded>>
      /\ Queued' = Queued
  BY DEF own, works, client, past, Queued
<1>5. Running' = Running /\ Ready' = Ready
  BY <1>3, <1>4, AtFacts DEF Running, Ready, Lasting, At
<1>6. Pushing' = Pushing /\ Counting' = Counting
  BY <1>4 DEF Pushing, Counting
<1>7. CallsOK' /\ \A c \in Clients : CallShape(c)'
  BY <1>4, FrameCalls
<1>8. PlacesApart' /\ NoWorkMissing'
  BY <1>3, <1>4, <1>6, FramePlaces
<1>9. SizeExact' /\ CountExact'
  BY <1>3, <1>4, <1>6, FrameSize DEF CountExact
<1>10. TerminalLeave'
  BY <1>2, <1>3, <1>4 DEF TerminalLeave, At
<1>11. EnoughAwake'
  BY <1>3, <1>4, <1>5 DEF EnoughAwake
<1>12. ThreadsDetached' /\ Orderly' /\ SetOnCourse'
  BY <1>1, <1>2, <1>3, <1>4, <1>5, FrameThreads, FrameOrderly, FrameSet DEF Terminated
<1> QED
  BY <1>7, <1>8, <1>9, <1>10, <1>11, <1>12

\* The number of active workers follows a worker in and out.
LEMMA ActiveFollows ==
    ASSUME TypeOK, ActiveExact, NEW w \in Workers, wpc'[w] \in WorkerStates,
           \A v \in Workers \ {w} : wpc'[v] = wpc[v],
           \/ /\ wpc[w] \notin Active /\ wpc'[w] \in Active
              /\ active_worker_count' = active_worker_count + 1
           \/ /\ wpc[w] \in Active /\ wpc'[w] \notin Active
              /\ active_worker_count' = active_worker_count - 1
           \/ /\ wpc[w] \in Active <=> wpc'[w] \in Active
              /\ active_worker_count' = active_worker_count
    PROVE  ActiveExact' /\ active_worker_count' \in Nat
<1>1. IsFiniteSet(At(Active)) /\ Cardinality(At(Active)) \in Nat
  BY AtFacts, WorkersFinite
<1>2. active_worker_count = Cardinality(At(Active))
  BY DEF ActiveExact, Active
<1>3. CASE wpc[w] \notin Active /\ wpc'[w] \in Active
  <2>1. At(Active)' = At(Active) \cup {w} /\ w \notin At(Active)
    BY <1>3, GoAt
  <2>2. Cardinality(At(Active)') = Cardinality(At(Active)) + 1
    BY <1>1, <2>1, FS_AddElement
  <2> QED
    BY <1>1, <1>2, <1>3, <2>2 DEF ActiveExact, Active
<1>4. CASE wpc[w] \in Active /\ wpc'[w] \notin Active
  <2>1. At(Active)' = At(Active) \ {w} /\ w \in At(Active)
    BY <1>4, GoAt
  <2>2. /\ Cardinality(At(Active)') = Cardinality(At(Active)) - 1
        /\ Cardinality(At(Active)') \in Nat
    BY <1>1, <2>1, FS_RemoveElement, FS_CardinalityType
  <2> QED
    BY <1>1, <1>2, <1>4, <2>2 DEF ActiveExact, Active
<1>5. CASE wpc[w] \in Active <=> wpc'[w] \in Active
  <2>1. At(Active)' = At(Active)
    BY <1>5, GoAt
  <2> QED
    BY <1>1, <1>2, <1>5, <2>1 DEF ActiveExact, Active
<1> QED
  BY <1>3, <1>4, <1>5

LEMMA EnterKeeps == ASSUME PoolInv, NEW w \in Workers, Enter(w) PROVE PoolInv'
<1>1. /\ Go(w, "top", "scan") /\ active_worker_count' = active_worker_count + 1
      /\ UNCHANGED <<own, worker_count, work_queue_size, are_all_really_finished, signal_mutex,
                     works, client>>
  BY DEF Enter
<1>2. /\ wpc' \in [Workers -> WorkerStates] /\ wpc[w] = "top" /\ wpc'[w] = "scan"
      /\ \A v \in Workers \ {w} : wpc'[v] = wpc[v]
  BY <1>1, GoMoves DEF PoolInv, WorkerStates
<1>3. w \notin terminal
  BY <1>2 DEF PoolInv, TerminalLeave, At, Leaving
<1>4. ActiveExact' /\ active_worker_count' \in Nat
  BY <1>1, <1>2, ActiveFollows DEF PoolInv, Active
<1>5. TypeOK'
  BY <1>1, <1>2, <1>4 DEF PoolInv, TypeOK, WorkerStates, own, works, Works
<1> QED
  BY <1>1, <1>3, <1>4, <1>5, PlainMove DEF PoolInv, Plain

LEMMA TakeNothingKeeps == ASSUME PoolInv, NEW w \in Workers, TakeNothing(w) PROVE PoolInv'
<1>1. Go(w, "scan", "lock") /\ UNCHANGED <<own, pool, works, client>>
  BY DEF TakeNothing
<1>2. /\ wpc' \in [Workers -> WorkerStates] /\ wpc[w] = "scan" /\ wpc'[w] = "lock"
      /\ \A v \in Workers \ {w} : wpc'[v] = wpc[v]
  BY <1>1, GoMoves DEF PoolInv, WorkerStates
<1>3. ActiveExact' /\ active_worker_count' \in Nat
  BY <1>1, <1>2, ActiveFollows DEF PoolInv, Active, pool, counts
<1>4. TypeOK'
  BY <1>1, <1>2, <1>3 DEF PoolInv, TypeOK, WorkerStates, own, pool, counts, works, Works
<1> QED
  BY <1>1, <1>3, <1>4, PlainMove DEF PoolInv, Plain, Leaving, pool, counts

LEMMA LockSignalKeeps == ASSUME PoolInv, NEW w \in Workers, LockSignal(w) PROVE PoolInv'
<1> PICK to \in {"check", "leave"} : Go(w, "lock", to)
  BY DEF LockSignal
<1>1. /\ active_worker_count' = active_worker_count - 1 /\ signal_mutex' = w
      /\ UNCHANGED <<own, worker_count, work_queue_size, are_all_really_finished, works, client>>
  BY DEF LockSignal
<1>2. /\ wpc' \in [Workers -> WorkerStates] /\ wpc[w] = "lock" /\ wpc'[w] = to
      /\ \A v \in Workers \ {w} : wpc'[v] = wpc[v]
  BY GoMoves DEF PoolInv, WorkerStates
<1>3. ActiveExact' /\ active_worker_count' \in Nat
  BY <1>1, <1>2, ActiveFollows DEF PoolInv, Active
<1>4. TypeOK'
  BY <1>1, <1>2, <1>3 DEF PoolInv, TypeOK, WorkerStates, own, works, Works
<1> QED
  BY <1>1, <1>3, <1>4, PlainMove DEF PoolInv, Plain, Leaving

LEMMA CheckKeeps == ASSUME PoolInv, NEW w \in Workers, CheckSize(w) \/ Finish(w) PROVE PoolInv'
<1> PICK from \in {"check", "finish"}, to \in {"finish", "leave"} : Go(w, from, to)
  BY DEF CheckSize, Finish
<1>1. /\ are_all_really_finished' \in BOOLEAN
      /\ UNCHANGED <<own, counts, signal_mutex, works, client>>
  BY DEF CheckSize, Finish, PoolInv, TypeOK, pool
<1>2. /\ wpc' \in [Workers -> WorkerStates] /\ wpc[w] = from /\ wpc'[w] = to
      /\ \A v \in Workers \ {w} : wpc'[v] = wpc[v]
  BY GoMoves DEF PoolInv, WorkerStates
<1>3. ActiveExact' /\ active_worker_count' \in Nat
  BY <1>1, <1>2, ActiveFollows DEF PoolInv, Active, counts
<1>4. TypeOK'
  BY <1>1, <1>2, <1>3 DEF PoolInv, TypeOK, WorkerStates, own, counts, works, Works
<1> QED
  BY <1>1, <1>3, <1>4, PlainMove DEF PoolInv, Plain, Leaving, counts

\* What work_queue_size_ counts.
LEMMA SizeFacts ==
    ASSUME PoolInv
    PROVE  /\ Taken \subseteq Works
           /\ IsFiniteSet(Queued \cup lost \cup Taken)
           /\ work_queue_size \in Nat
           /\ work_queue_size = 0 => Queued = {} /\ Cardinality(Queued) = 0
<1> USE DEF PoolInv
<1>1. Taken \subseteq Works
  BY DEF Taken, PlacesApart, Busy, At
<1>2. IsFiniteSet(Queued \cup lost \cup Taken)
  BY <1>1, QueuedFacts, FS_Subset
<1>3. work_queue_size = 0 => Queued = {}
  BY <1>2, FS_EmptySet DEF SizeExact
<1> QED
  BY <1>1, <1>2, <1>3, FS_EmptySet, FS_CardinalityType DEF SizeExact

\* A worker goes to sleep when nothing is queued.
LEMMA SleepKeeps ==
    ASSUME PoolInv, NEW w \in Workers, NEW from \in {"leave", "woken"}, Go(w, from, "wait"),
           w \notin terminal, work_queue_size = 0, signal_mutex' \in {Free} \cup Workers,
           UNCHANGED <<own, counts, are_all_really_finished, works, client>>
    PROVE  PoolInv'
<1> USE DEF PoolInv
<1>1. /\ wpc' \in [Workers -> WorkerStates] /\ wpc[w] = from /\ wpc'[w] = "wait"
      /\ \A v \in Workers \ {w} : wpc'[v] = wpc[v]
  BY GoMoves DEF WorkerStates
<1>2. /\ At({"took"})' = At({"took"}) /\ Busy' = Busy /\ At(Lasting)' = At(Lasting)
      /\ At({"exit", "gone", "terminated"})' = At({"exit", "gone", "terminated"})
      /\ At({"terminated"})' = At({"terminated"})
  BY <1>1, GoAt DEF Busy, Lasting
<1>3. /\ UNCHANGED <<work, terminal, detached, type, done, lost, work_queue, cpc, call, calls,
                     piled, crowded, worker_count, active_worker_count, work_queue_size>>
      /\ Queued' = Queued
  BY DEF own, works, client, past, counts, Queued
<1>4. Running' = Running /\ Pushing' = Pushing /\ Counting' = Counting
  BY <1>2, <1>3, AtFacts DEF Running, Lasting, At, Pushing, Counting
<1>5. ActiveExact' /\ active_worker_count' \in Nat
  BY <1>1, <1>3, ActiveFollows DEF Active
<1>6. TypeOK'
  BY <1>1, <1>3, <1>5 DEF TypeOK, WorkerStates, Works
<1>7. CallsOK' /\ \A c \in Clients : CallShape(c)'
  BY <1>3, FrameCalls
<1>8. PlacesApart' /\ NoWorkMissing'
  BY <1>2, <1>3, <1>4, FramePlaces
<1>9. SizeExact' /\ CountExact'
  BY <1>2, <1>3, <1>4, FrameSize DEF CountExact
<1>10. TerminalLeave'
  BY <1>1, <1>2, <1>3 DEF TerminalLeave, At
<1>11. EnoughAwake'
  <2>1. Cardinality(Queued') = 0 /\ Cardinality(Ready') \in Nat
    <3>1. Ready' \in SUBSET Workers
      BY DEF Ready, Running, At
    <3> QED
      BY <1>3, <3>1, SizeFacts, WorkersFinite
  <2> QED
    BY <2>1 DEF EnoughAwake
<1>12. ThreadsDetached' /\ Orderly' /\ SetOnCourse'
  BY <1>1, <1>2, <1>3, <1>4, FrameThreads, FrameOrderly, FrameSet DEF Terminated
<1> QED
  BY <1>5, <1>6, <1>7, <1>8, <1>9, <1>10, <1>11, <1>12

\* An awake worker goes back to take works.
LEMMA BackKeeps ==
    ASSUME PoolInv, NEW w \in Workers, NEW from \in {"leave", "woken"}, Go(w, from, "top"),
           w \notin terminal, signal_mutex' \in {Free} \cup Workers,
           UNCHANGED <<own, counts, are_all_really_finished, works, client>>
    PROVE  PoolInv'
<1>1. /\ wpc' \in [Workers -> WorkerStates] /\ wpc[w] = from /\ wpc'[w] = "top"
      /\ \A v \in Workers \ {w} : wpc'[v] = wpc[v]
  BY GoMoves DEF PoolInv, WorkerStates
<1>2. ActiveExact' /\ active_worker_count' \in Nat
  BY <1>1, ActiveFollows DEF PoolInv, Active, counts
<1>3. TypeOK'
  BY <1>1, <1>2 DEF PoolInv, TypeOK, WorkerStates, own, counts, works, Works
<1> QED
  BY <1>2, <1>3, PlainMove DEF PoolInv, Plain, counts

\* A worker that leaves the pool has run a TERMINAL work.
LEMMA QuitKeeps ==
    ASSUME PoolInv, NEW w \in Workers, Go(w, "leave", "exit"), w \in terminal,
           worker_count' = (worker_count - 1) % Width, signal_mutex' = Free,
           UNCHANGED <<own, active_worker_count, work_queue_size, are_all_really_finished, works,
                       client>>
    PROVE  PoolInv'
<1> USE DEF PoolInv
<1>1. /\ wpc' \in [Workers -> WorkerStates] /\ wpc[w] = "leave" /\ wpc'[w] = "exit"
      /\ \A v \in Workers \ {w} : wpc'[v] = wpc[v]
  BY GoMoves DEF WorkerStates
<1>2. /\ At({"took"})' = At({"took"}) /\ Busy' = Busy /\ At({"wait"})' = At({"wait"})
      /\ At({"wait", "took", "run"})' = At({"wait", "took", "run"})
      /\ At(Lasting)' = At(Lasting) \ {w} /\ w \in At(Lasting)
      /\ At({"terminated"})' = At({"terminated"})
  BY <1>1, GoAt DEF Busy, Lasting
<1>3. /\ UNCHANGED <<work, terminal, detached, type, done, lost, work_queue, cpc, call, calls,
                     piled, crowded, active_worker_count, work_queue_size,
                     are_all_really_finished>>
      /\ Queued' = Queued
  BY DEF own, works, client, past, Queued
<1>4. Pushing' = Pushing /\ Counting' = Counting
  BY <1>3 DEF Pushing, Counting
<1>5. Running' = Running /\ Ready' = Ready
  <2>1. Running' = At(Lasting)' \ terminal' /\ Ready' = Running' \ At({"wait", "took", "run"})'
    BY DEF Running, Lasting, At, Ready
  <2> QED
    BY <1>2, <1>3, <2>1, AtFacts
<1>6. ActiveExact' /\ active_worker_count' \in Nat
  BY <1>1, <1>3, ActiveFollows DEF Active
<1>7. CountExact'
  <2>1. IsFiniteSet(At(Lasting)) /\ Cardinality(At(Lasting)) \in Nat
    BY AtFacts, WorkersFinite
  <2>2. Cardinality(At(Lasting)') = Cardinality(At(Lasting)) - 1
    BY <1>2, <2>1, FS_RemoveElement
  <2>3. Cardinality(Counting) \in Nat
    BY PoolAssumption, FS_Subset, FS_CardinalityType DEF Counting
  <2> QED
    BY <1>4, <2>1, <2>2, <2>3 DEF CountExact, Width
<1>8. TypeOK'
  BY <1>1, <1>3, <1>6 DEF TypeOK, WorkerStates, Works, Width
<1>9. CallsOK' /\ \A c \in Clients : CallShape(c)'
  BY <1>3, FrameCalls
<1>10. PlacesApart' /\ NoWorkMissing' /\ SizeExact'
  BY <1>2, <1>3, <1>4, FramePlaces, FrameSize
<1>11. TerminalLeave'
  BY <1>1, <1>3 DEF TerminalLeave, At, Leaving
<1>12. EnoughAwake'
  BY <1>2, <1>3, <1>5 DEF EnoughAwake
<1>13. ThreadsDetached' /\ Orderly' /\ SetOnCourse'
  BY <1>1, <1>2, <1>3, <1>5, FrameThreads, FrameOrderly, FrameSet DEF Terminated
<1> QED
  BY <1>6, <1>7, <1>8, <1>9, <1>10, <1>11, <1>12, <1>13

LEMMA LeaveKeeps == ASSUME PoolInv, NEW w \in Workers, Leave(w) PROVE PoolInv'
<1>1. /\ signal_mutex' = Free
      /\ UNCHANGED <<own, active_worker_count, work_queue_size, are_all_really_finished, works,
                     client>>
  BY DEF Leave
<1>2. CASE w \in terminal
  BY <1>1, <1>2, QuitKeeps DEF Leave
<1>3. CASE w \notin terminal
  <2>1. UNCHANGED <<own, counts, are_all_really_finished, works, client>>
    BY <1>1, <1>3 DEF Leave, counts
  <2>2. work_queue_size \in Nat
    BY SizeFacts
  <2> QED
    BY <1>1, <1>3, <2>1, <2>2, SleepKeeps, BackKeeps DEF Leave
<1> QED
  BY <1>2, <1>3

LEMMA WakeKeeps == ASSUME PoolInv, NEW w \in Workers, Wake(w) PROVE PoolInv'
<1>1. wpc[w] = "woken" /\ UNCHANGED <<own, counts, are_all_really_finished, works, client>>
  BY DEF Wake, Go, pool
<1>2. w \notin terminal /\ signal_mutex' \in {Free} \cup Workers
  BY <1>1 DEF PoolInv, TerminalLeave, At, Leaving, Wake, pool
<1>3. work_queue_size \in Nat
  BY SizeFacts
<1> QED
  BY <1>1, <1>2, <1>3, SleepKeeps, BackKeeps DEF Wake

\* A worker that leaves while its thread is not detached is one that a TERMINAL work has
\* been run by while it was being started.
LEMMA ExitKeeps == ASSUME PoolInv, NEW w \in Workers, Exit(w) PROVE PoolInv'
<1> USE DEF PoolInv
<1> PICK to \in {"gone", "terminated"} : Go(w, "exit", to)
  BY DEF Exit
<1>1. UNCHANGED <<own, pool, works, client>>
  BY DEF Exit
<1>2. /\ wpc' \in [Workers -> WorkerStates] /\ wpc[w] = "exit" /\ wpc'[w] = to
      /\ \A v \in Workers \ {w} : wpc'[v] = wpc[v]
  BY GoMoves DEF WorkerStates
<1>3. /\ At({"took"})' = At({"took"}) /\ Busy' = Busy /\ At({"wait"})' = At({"wait"})
      /\ At({"wait", "took", "run"})' = At({"wait", "took", "run"})
      /\ At(Lasting)' = At(Lasting)
      /\ At({"exit", "gone", "terminated"})' = At({"exit", "gone", "terminated"})
  BY <1>2, GoAt DEF Busy, Lasting
<1>4. /\ UNCHANGED <<work, terminal, detached, type, done, lost, work_queue, cpc, call, calls,
                     piled, crowded, worker_count, active_worker_count, work_queue_size,
                     are_all_really_finished, signal_mutex>>
      /\ Queued' = Queued
  BY <1>1 DEF own, works, client, past, pool, counts, Queued
<1>5. Pushing' = Pushing /\ Counting' = Counting
  BY <1>4 DEF Pushing, Counting
<1>6. Running' = Running /\ Ready' = Ready
  <2>1. Running' = At(Lasting)' \ terminal' /\ Ready' = Running' \ At({"wait", "took", "run"})'
    BY DEF Running, Lasting, At, Ready
  <2> QED
    BY <1>3, <1>4, <2>1, AtFacts
<1>7. ActiveExact' /\ active_worker_count' \in Nat
  BY <1>2, <1>4, ActiveFollows DEF Active
<1>8. TypeOK'
  BY <1>2, <1>4 DEF TypeOK, WorkerStates, Works
<1>9. CallsOK' /\ \A c \in Clients : CallShape(c)'
  BY <1>4, FrameCalls
<1>10. PlacesApart' /\ NoWorkMissing' /\ SizeExact' /\ CountExact'
  BY <1>3, <1>4, <1>5, FramePlaces, FrameSize DEF CountExact
<1>11. TerminalLeave'
  BY <1>2, <1>4 DEF TerminalLeave, At, Leaving
<1>12. EnoughAwake'
  BY <1>3, <1>4, <1>6 DEF EnoughAwake
<1>13. ThreadsDetached' /\ SetOnCourse'
  BY <1>2, <1>3, <1>4, <1>6, FrameThreads, FrameSet
<1>14. Orderly'
  <2>1. ASSUME ~piled PROVE ~Terminated'
    <3>1. w \in detached
      <4> SUFFICES ASSUME w \notin detached PROVE FALSE
        OBVIOUS
      <4>1. PICK c \in Clients : cpc[c] = "detach" /\ call[c].mine = {w}
        BY <1>2 DEF ThreadsDetached
      <4>2. w \in terminal
        BY <1>2 DEF TerminalLeave, At
      <4> QED
        BY <2>1, <4>1, <4>2 DEF Orderly
    <3>2. wpc'[w] = "gone"
      BY <1>2, <3>1 DEF Exit, Go, TypeOK
    <3> QED
      BY <1>2, <2>1, <3>2 DEF Terminated, At, Orderly
  <2>2. Undone' = Undone /\ \A c \in Clients : Changing(c)' = Changing(c)
    BY <1>4 DEF Undone, Works, Changing
  <2> QED
    BY <1>4, <2>1, <2>2 DEF Orderly
<1> QED
  BY <1>7, <1>8, <1>9, <1>10, <1>11, <1>12, <1>13, <1>14

\* Taking a work out of a queue moves it, and no other one.
LEMMA TakeKeeps == ASSUME PoolInv, NEW w \in Workers, Take(w) PROVE PoolInv'
<1> USE DEF PoolInv
<1> PICK c \in Clients : /\ work_queue[c] # <<>>
                         /\ work' = [work EXCEPT ![w] = Head(work_queue[c])]
                         /\ work_queue' = [work_queue EXCEPT ![c] = Tail(@)]
  BY DEF Take
<1> PICK h : h = Head(work_queue[c])
  OBVIOUS
<1>1. /\ wpc' \in [Workers -> WorkerStates] /\ wpc[w] = "scan" /\ wpc'[w] = "took"
      /\ \A v \in Workers \ {w} : wpc'[v] = wpc[v]
  BY GoMoves DEF Take, WorkerStates
<1>2. /\ At({"took"})' = At({"took"}) \cup {w} /\ w \notin At({"took"})
      /\ Busy' = Busy \cup {w} /\ w \notin Busy
      /\ At({"wait"})' = At({"wait"}) /\ At(Lasting)' = At(Lasting)
      /\ At({"wait", "took", "run"})' = At({"wait", "took", "run"}) \cup {w}
      /\ At({"terminated"})' = At({"terminated"})
      /\ w \notin At({"wait", "took", "run"}) /\ w \in At(Lasting)
  BY <1>1, GoAt DEF Busy, Lasting, At
<1>3. UNCHANGED <<terminal, detached, type, done, lost, cpc, call, calls, piled, crowded,
                  worker_count, active_worker_count, work_queue_size, are_all_really_finished, signal_mutex>>
  BY DEF Take, client, past, pool, counts
<1>4. Pushing' = Pushing /\ Counting' = Counting /\ Works' = Works
  BY <1>3 DEF Pushing, Counting, Works
<1>5. w \notin terminal
  BY <1>1 DEF TerminalLeave, At, Leaving
<1>6. /\ work_queue[c] \in Seq(Works) /\ Len(work_queue[c]) \in Nat \ {0}
      /\ h = work_queue[c][1] /\ h \in Works
      /\ Tail(work_queue[c]) \in Seq(Works)
      /\ Len(Tail(work_queue[c])) = Len(work_queue[c]) - 1
      /\ \A i \in 1 .. Len(work_queue[c]) - 1 : Tail(work_queue[c])[i] = work_queue[c][i + 1]
  BY DEF TypeOK
<1>7. /\ work_queue' \in [Clients -> Seq(Works)]
      /\ work_queue'[c] = Tail(work_queue[c])
      /\ \A d \in Clients \ {c} : work_queue'[d] = work_queue[d]
  BY <1>6 DEF TypeOK
<1>8. work' \in [Workers -> 0 .. Len(type)] /\ work'[w] = h
      /\ \A v \in Workers \ {w} : work'[v] = work[v]
  BY <1>6, QueuedFacts DEF TypeOK, Works
<1>9. /\ \A d \in Clients : /\ Len(work_queue[d]) \in Nat
                            /\ Len(work_queue'[d]) \in Nat
      /\ \A d \in Clients : \A i \in 1 .. Len(work_queue'[d]) :
           LET j == IF d = c THEN i + 1 ELSE i IN
           /\ j \in 1 .. Len(work_queue[d]) /\ work_queue'[d][i] = work_queue[d][j]
           /\ d = c => j # 1
  BY <1>6, <1>7 DEF TypeOK
<1>10. /\ h \in Queued /\ Queued' = Queued \ {h}
  <2>1. h \in Queued
    BY <1>6, QueuedFacts
  <2>2. \A x : x \in Queued' <=>
                 \E d \in Clients : \E i \in 1 .. Len(work_queue'[d]) : work_queue'[d][i] = x
    <3>1. \A d \in Clients : DOMAIN work_queue'[d] = 1 .. Len(work_queue'[d])
      BY <1>7
    <3>2. ASSUME NEW x \in Queued'
          PROVE  \E d \in Clients : \E i \in 1 .. Len(work_queue'[d]) : work_queue'[d][i] = x
      <4>1. PICK d \in Clients : \E i \in DOMAIN work_queue'[d] : work_queue'[d][i] = x
        BY QueuedNext
      <4>2. \E i \in 1 .. Len(work_queue'[d]) : work_queue'[d][i] = x
        BY <3>1, <4>1, Zenon
      <4> QED
        BY <4>2
    <3>3. ASSUME NEW d \in Clients, NEW i \in 1 .. Len(work_queue'[d])
          PROVE  work_queue'[d][i] \in Queued'
      <4>1. i \in DOMAIN work_queue'[d]
        BY <3>1, Zenon
      <4> QED
        BY <4>1, QueuedNext
    <3> QED
      BY <3>2, <3>3
  <2>3. ASSUME NEW x \in Queued' PROVE x \in Queued \ {h}
    <3>0. PICK d \in Clients : \E i \in 1 .. Len(work_queue'[d]) : work_queue'[d][i] = x
      BY <2>2
    <3>1. PICK i \in 1 .. Len(work_queue'[d]) : work_queue'[d][i] = x
      BY <3>0
    <3>2. PICK j \in 1 .. Len(work_queue[d]) : work_queue[d][j] = x /\ (d = c => j # 1)
      BY <1>9, <3>1
    <3>3. 1 \in 1 .. Len(work_queue[c])
      BY <1>6
    <3> QED
      BY <1>6, <3>2, <3>3, QueuedFacts DEF PlacesApart
  <2>4. ASSUME NEW x \in Queued, x # h PROVE x \in Queued'
    <3>0. PICK d \in Clients : \E j \in 1 .. Len(work_queue[d]) : work_queue[d][j] = x
      BY QueuedFacts
    <3>1. PICK j \in 1 .. Len(work_queue[d]) : work_queue[d][j] = x
      BY <3>0
    <3>2. CASE d = c
      <4>1. j # 1 /\ j - 1 \in 1 .. Len(work_queue'[c])
        BY <1>6, <1>7, <2>4, <3>1, <3>2
      <4>2. work_queue'[c][j - 1] = x
        BY <1>6, <1>7, <3>1, <3>2, <4>1
      <4> QED
        BY <2>2, <4>1, <4>2
    <3>3. CASE d # c
      BY <1>7, <2>2, <3>1, <3>3
    <3> QED
      BY <3>2, <3>3
  <2> QED
    BY <2>1, <2>3, <2>4
<1>11. PlacesApart'
  <2>1. \A d, e \in Clients : \A i \in 1 .. Len(work_queue'[d]), j \in 1 .. Len(work_queue'[e]) :
           work_queue'[d][i] = work_queue'[e][j] => d = e /\ i = j
    <3> SUFFICES ASSUME NEW d \in Clients, NEW e \in Clients,
                        NEW i \in 1 .. Len(work_queue'[d]), NEW j \in 1 .. Len(work_queue'[e]),
                        work_queue'[d][i] = work_queue'[e][j]
                 PROVE  d = e /\ i = j
      OBVIOUS
    <3> PICK k \in 1 .. Len(work_queue[d]) : /\ k = IF d = c THEN i + 1 ELSE i
                                             /\ work_queue'[d][i] = work_queue[d][k]
      BY <1>9
    <3> PICK l \in 1 .. Len(work_queue[e]) : /\ l = IF e = c THEN j + 1 ELSE j
                                             /\ work_queue'[e][j] = work_queue[e][l]
      BY <1>9
    <3>1. d = e /\ k = l
      BY DEF PlacesApart
    <3> QED
      BY <1>9, <3>1
  <2>2. \A v \in Busy : work'[v] = work[v] /\ work[v] # h
    BY <1>2, <1>8, <1>10 DEF PlacesApart, Busy, At
  <2>3. \A d \in Pushing : Latest(d)' = Latest(d) /\ Latest(d) # h
    BY <1>3, <1>10, LatestStays DEF PlacesApart, Pushing
  <2>4. h \notin Queued' /\ h \notin lost /\ h \notin done /\ h \in Works
    BY <1>6, <1>10 DEF PlacesApart
  <2>5. \A v, u \in Busy' : work'[v] = work'[u] => v = u
    BY <1>2, <1>8, <2>2 DEF PlacesApart
  <2>6. \A v \in Busy' : work'[v] \in Works \ (Queued' \cup lost \cup done)
    BY <1>2, <1>8, <1>10, <2>2, <2>4 DEF PlacesApart
  <2>7. \A d \in Pushing : /\ Latest(d)' \in Works \ (Queued' \cup lost \cup done)
                           /\ \A v \in Busy' : work'[v] # Latest(d)'
    BY <1>2, <1>8, <1>10, <2>2, <2>3 DEF PlacesApart
  <2>8. \A d, e \in Pushing : Latest(d)' = Latest(e)' => d = e
    BY <2>3 DEF PlacesApart
  <2>9. Queued' \cap (lost \cup done) = {} /\ lost \cap done = {}
    BY <1>10 DEF PlacesApart
  <2> QED
    BY <1>3, <1>4, <2>1, <2>5, <2>6, <2>7, <2>8, <2>9 DEF PlacesApart
<1>12. NoWorkMissing'
  <2>1. \A v \in Busy : work'[v] = work[v]
    BY <1>2, <1>8 DEF Busy, At
  <2>2. \A d \in Pushing : Latest(d)' = Latest(d)
    BY <1>3, LatestStays DEF Pushing
  <2> QED
    BY <1>2, <1>3, <1>4, <1>8, <1>10, <2>1, <2>2 DEF NoWorkMissing
<1>13. SizeExact'
  <2>1. \A v \in At({"took"}) : work'[v] = work[v]
    BY <1>2, <1>8 DEF At
  <2>2. Taken' = {work'[v] : v \in At({"took"}) \cup {w}}
    BY <1>2 DEF Taken
  <2>3. Taken' = Taken \cup {h}
    BY <1>8, <2>1, <2>2 DEF Taken
  <2>4. Queued' \cup lost \cup Taken' = Queued \cup lost \cup Taken
    BY <1>10, <2>3
  <2> QED
    BY <1>3, <2>4 DEF SizeExact
<1>14. ActiveExact' /\ active_worker_count' \in Nat
  BY <1>1, <1>3, ActiveFollows DEF Active
<1>15. TypeOK'
  BY <1>1, <1>3, <1>4, <1>7, <1>8, <1>14 DEF TypeOK, WorkerStates
<1>16. CallsOK' /\ \A d \in Clients : CallShape(d)'
  BY <1>3, FrameCalls
<1>17. CountExact'
  BY <1>2, <1>3, <1>4 DEF CountExact
<1>18. TerminalLeave'
  BY <1>1, <1>3, <1>5 DEF TerminalLeave, At
<1>19. Running' = Running
  BY <1>2, <1>3, AtFacts DEF Running, Lasting, At
<1>20. EnoughAwake'
  <2>1. Ready' = Ready \ {w} /\ w \in Ready
    <3>1. Ready' = Running' \ At({"wait", "took", "run"})'
      BY DEF Ready, Running, At
    <3>2. w \in Running
      BY <1>2, <1>5, AtFacts
    <3> QED
      BY <1>2, <1>19, <3>1, <3>2, AtFacts
  <2>2. IsFiniteSet(Ready) /\ Cardinality(Ready) \in Nat
    BY AtFacts, WorkersFinite
  <2>3. Cardinality(Ready') = Cardinality(Ready) - 1 /\ Cardinality(Ready') \in Nat
    BY <2>1, <2>2, FS_RemoveElement, FS_CardinalityType
  <2>4. /\ Cardinality(Queued') = Cardinality(Queued) - 1
        /\ Cardinality(Queued) \in Nat /\ Cardinality(Queued') \in Nat
    BY <1>10, QueuedFacts, FS_RemoveElement, FS_CardinalityType
  <2> QED
    BY <1>2, <2>2, <2>3, <2>4, FrameAwake
<1>21. ThreadsDetached' /\ Orderly' /\ SetOnCourse'
  BY <1>1, <1>2, <1>3, <1>19, FrameThreads, FrameOrderly, FrameSet DEF Terminated
<1> QED
  BY <1>11, <1>12, <1>13, <1>14, <1>15, <1>16, <1>17, <1>18, <1>20, <1>21

LEMMA CountTakenKeeps == ASSUME PoolInv, NEW w \in Workers, CountTaken(w) PROVE PoolInv'
<1> USE DEF PoolInv
<1>1. /\ wpc' \in [Workers -> WorkerStates] /\ wpc[w] = "took" /\ wpc'[w] = "run"
      /\ \A v \in Workers \ {w} : wpc'[v] = wpc[v]
  BY GoMoves DEF CountTaken, WorkerStates
<1>2. /\ At({"took"})' = At({"took"}) \ {w} /\ w \in At({"took"})
      /\ Busy' = Busy /\ At({"wait"})' = At({"wait"}) /\ At(Lasting)' = At(Lasting)
      /\ At({"wait", "took", "run"})' = At({"wait", "took", "run"})
      /\ At({"terminated"})' = At({"terminated"}) /\ At({"took"}) \subseteq Busy
  BY <1>1, GoAt DEF Busy, Lasting, At
<1>3. /\ UNCHANGED <<work, terminal, detached, type, done, lost, work_queue, cpc, call, calls,
                     piled, crowded, worker_count, active_worker_count, are_all_really_finished,
                     signal_mutex>>
      /\ Queued' = Queued /\ work_queue_size' = work_queue_size - 1
  BY DEF CountTaken, own, works, client, past, Queued
<1>4. Pushing' = Pushing /\ Counting' = Counting /\ Works' = Works
  BY <1>3 DEF Pushing, Counting, Works
<1>5. w \notin terminal
  BY <1>1 DEF TerminalLeave, At, Leaving
<1>6. Running' = Running /\ Ready' = Ready
  BY <1>2, <1>3, AtFacts DEF Running, Ready, Lasting, At
<1>7. SizeExact' /\ work_queue_size' \in Nat
  <2>1. Taken' = {work[v] : v \in At({"took"}) \ {w}}
    BY <1>2, <1>3 DEF Taken
  <2>2. \A v \in At({"took"}) \ {w} : work[v] # work[w]
    BY <1>2 DEF PlacesApart
  <2>3. Taken' = Taken \ {work[w]} /\ work[w] \in Taken
    BY <1>2, <2>1, <2>2 DEF Taken
  <2>4. work[w] \notin Queued \cup lost
    BY <1>2 DEF PlacesApart
  <2>5. Queued \cup lost \cup Taken' = (Queued \cup lost \cup Taken) \ {work[w]}
    BY <2>3, <2>4
  <2>6. work_queue_size = Cardinality(Queued \cup lost \cup Taken)
    BY DEF SizeExact
  <2>7. /\ Cardinality(Queued \cup lost \cup Taken') = work_queue_size - 1
        /\ Cardinality(Queued \cup lost \cup Taken') \in Nat
    BY <2>3, <2>5, <2>6, SizeFacts, OneLess
  <2> QED
    BY <1>3, <2>7 DEF SizeExact
<1>8. ActiveExact' /\ active_worker_count' \in Nat
  BY <1>1, <1>3, ActiveFollows DEF Active
<1>9. TypeOK'
  BY <1>1, <1>3, <1>4, <1>7, <1>8 DEF TypeOK, WorkerStates
<1>10. CallsOK' /\ \A c \in Clients : CallShape(c)'
  BY <1>3, FrameCalls
<1>11. PlacesApart' /\ NoWorkMissing' /\ CountExact'
  BY <1>2, <1>3, <1>4, FramePlaces DEF CountExact
<1>12. TerminalLeave'
  BY <1>1, <1>3, <1>5 DEF TerminalLeave, At
<1>13. EnoughAwake'
  BY <1>2, <1>3, <1>6 DEF EnoughAwake
<1>14. ThreadsDetached' /\ Orderly' /\ SetOnCourse'
  BY <1>1, <1>2, <1>3, <1>6, FrameThreads, FrameOrderly, FrameSet DEF Terminated
<1> QED
  BY <1>7, <1>8, <1>9, <1>10, <1>11, <1>12, <1>13, <1>14

\* A TERMINAL work is run by a worker that then leaves.
LEMMA RunKeeps == ASSUME PoolInv, NEW w \in Workers, Run(w) PROVE PoolInv'
<1> USE DEF PoolInv
<1> PICK r : r = work[w]
  OBVIOUS
<1> PICK to \in {"lock", "scan"} : Go(w, "run", to) /\ (to = "lock" <=> type[r] = TERMINAL)
  BY DEF Run
<1>1. /\ wpc' \in [Workers -> WorkerStates] /\ wpc[w] = "run" /\ wpc'[w] = to
      /\ \A v \in Workers \ {w} : wpc'[v] = wpc[v]
  BY GoMoves DEF WorkerStates
<1>2. /\ At({"took"})' = At({"took"}) /\ w \notin At({"took"})
      /\ Busy' = Busy \ {w} /\ w \in Busy
      /\ At({"wait"})' = At({"wait"}) /\ At(Lasting)' = At(Lasting) /\ w \in At(Lasting)
      /\ At({"wait", "took", "run"})' = At({"wait", "took", "run"}) \ {w}
      /\ w \in At({"wait", "took", "run"})
      /\ At({"terminated"})' = At({"terminated"})
  BY <1>1, GoAt DEF Busy, Lasting, At
<1>3. /\ UNCHANGED <<detached, type, lost, work_queue, cpc, call, calls, piled, crowded,
                     worker_count, active_worker_count, work_queue_size, are_all_really_finished,
                     signal_mutex>>
      /\ done' = done \cup {r} /\ work' = [work EXCEPT ![w] = 0]
      /\ terminal' = IF to = "lock" THEN terminal \cup {w} ELSE terminal
      /\ Queued' = Queued
  BY DEF Run, client, past, pool, counts, Queued
<1>4. Pushing' = Pushing /\ Counting' = Counting /\ Works' = Works
  BY <1>3 DEF Pushing, Counting, Works
<1>5. w \notin terminal /\ w \in Running
  BY <1>1, <1>2, AtFacts DEF TerminalLeave, At, Leaving
<1>6. r \in Works \ (Queued \cup lost \cup done)
  BY <1>2 DEF PlacesApart
<1>7. \A v \in Workers \ {w} : work'[v] = work[v]
  BY <1>3 DEF TypeOK
<1>8. PlacesApart' /\ NoWorkMissing'
  <2>1. \A v \in Busy' : v \in Busy /\ work'[v] = work[v] /\ work[v] # r
    BY <1>2, <1>7 DEF PlacesApart, Busy, At
  <2>2. \A c \in Pushing : Latest(c)' = Latest(c) /\ Latest(c) # r
    BY <1>2, <1>3, LatestStays DEF PlacesApart, Pushing
  <2>3. PlacesApart'
    <3>1. \A v, u \in Busy' : work'[v] = work'[u] => v = u
      BY <2>1 DEF PlacesApart
    <3>2. \A v \in Busy' : work'[v] \in Works \ (Queued \cup lost \cup done')
      BY <1>3, <2>1 DEF PlacesApart
    <3>3. \A c \in Pushing : /\ Latest(c)' \in Works \ (Queued \cup lost \cup done')
                             /\ \A v \in Busy' : work'[v] # Latest(c)'
      BY <1>3, <2>1, <2>2 DEF PlacesApart
    <3>4. \A c, d \in Pushing : Latest(c)' = Latest(d)' => c = d
      BY <2>2 DEF PlacesApart
    <3>5. Queued \cap (lost \cup done') = {} /\ lost \cap done' = {}
      BY <1>3, <1>6 DEF PlacesApart
    <3> QED
      BY <1>3, <1>4, <3>1, <3>2, <3>3, <3>4, <3>5 DEF PlacesApart
  <2>4. NoWorkMissing'
    <3> SUFFICES ASSUME NEW i \in Works \ (Queued \cup lost \cup done'),
                        ~ \E c \in Pushing : Latest(c) = i
                 PROVE  \E v \in Busy' : work'[v] = i
      BY <1>3, <1>4, <2>2 DEF NoWorkMissing
    <3>1. PICK v \in Busy : work[v] = i
      BY <1>3 DEF NoWorkMissing
    <3>2. v # w
      BY <1>3, <3>1
    <3> QED
      BY <1>2, <1>7, <3>1, <3>2 DEF Busy, At
  <2> QED
    BY <2>3, <2>4
<1>9. SizeExact'
  <2>1. Taken' = {work'[v] : v \in At({"took"})}
    BY <1>2 DEF Taken
  <2>2. \A v \in At({"took"}) : work'[v] = work[v]
    BY <1>2, <1>7 DEF At
  <2>3. Taken' = Taken
    BY <2>1, <2>2 DEF Taken
  <2> QED
    BY <1>3, <2>3 DEF SizeExact
<1>10. ActiveExact' /\ active_worker_count' \in Nat
  BY <1>1, <1>3, ActiveFollows DEF Active
<1>11. TypeOK'
  <2>1. work' \in [Workers -> 0 .. Len(type)] /\ done' \subseteq Works /\ terminal' \subseteq Workers
    BY <1>3, <1>6, QueuedFacts DEF TypeOK
  <2> QED
    BY <1>1, <1>3, <1>4, <1>10, <2>1 DEF TypeOK, WorkerStates
<1>12. CallsOK' /\ \A c \in Clients : CallShape(c)'
  BY <1>3, FrameCalls
<1>13. CountExact'
  BY <1>2, <1>3, <1>4 DEF CountExact
<1>14. TerminalLeave'
  BY <1>1, <1>3, <1>5 DEF TerminalLeave, At, Leaving
<1>15. /\ to = "lock" => Running' = Running \ {w} /\ Ready' = Ready
       /\ to = "scan" => Running' = Running /\ Ready' = Ready \cup {w} /\ w \notin Ready
  <2>1. Running' = At(Lasting)' \ terminal' /\ Ready' = Running' \ At({"wait", "took", "run"})'
    BY DEF Running, Lasting, At, Ready
  <2> QED
    BY <1>2, <1>3, <1>5, <2>1, AtFacts
<1>16. EnoughAwake'
  <2>1. IsFiniteSet(Ready) /\ Cardinality(Ready) \in Nat
    BY AtFacts, WorkersFinite
  <2>2. Cardinality(Ready') >= Cardinality(Ready) /\ Cardinality(Ready') \in Nat
    BY <1>15, <2>1, FS_AddElement
  <2> QED
    BY <1>2, <1>3, <2>1, <2>2, QueuedFacts, FrameAwake
<1>17. ThreadsDetached'
  BY <1>1, <1>3, FrameThreads
<1>18. /\ Undone' = Undone \ {r}
       /\ to = "lock" => r \in Undone
  BY <1>3, <1>4, <1>6 DEF Undone
<1>19. Orderly'
  <2>1. \A c \in Clients : Changing(c)' = Changing(c)
    BY <1>3 DEF Changing
  <2> SUFFICES ASSUME ~piled, NEW c \in Clients, cpc[c] = "detach"
               PROVE  call[c].mine \cap terminal' = {}
    BY <1>2, <1>3, <1>18, <2>1 DEF Orderly, Terminated
  <2> QED
    BY <1>3, <1>18 DEF Orderly
<1>20. SetOnCourse'
  <2>1. Alone'
    BY <1>3, FrameAlone DEF SetOnCourse, Resizing
  <2> SUFFICES ASSUME NEW c \in Clients \ crowded, call[c].op = "set" PROVE OnCourse(c)'
    BY <1>3, <2>1 DEF SetOnCourse
  <2>2. OnCourse(c) /\ call[c].want \in Nat /\ call[c].n \in Nat
    BY DEF SetOnCourse, CallsOK, CallRecords
  <2>3. CASE to = "scan"
    <3>1. ASSUME cpc[c] \in {"push", "enqueue"} PROVE call[c].mine \ done' = call[c].mine \ done
      BY <1>3, <2>2, <2>3, <3>1 DEF OnCourse
    <3> QED
      BY <1>2, <1>3, <1>15, <2>2, <2>3, <3>1 DEF OnCourse
  <2>4. CASE to = "lock"
    <3>1. /\ Cardinality(Running') = Cardinality(Running) - 1
          /\ Cardinality(Running) \in Nat /\ Cardinality(Running') \in Nat
      <4>1. IsFiniteSet(Running)
        BY AtFacts, WorkersFinite
      <4> QED
        BY <1>5, <1>15, <2>4, <4>1, OneLess
    <3>2. ASSUME cpc[c] \in {"push", "enqueue"}
          PROVE  Cardinality(Running')
                     <= call[c].want + call[c].n + Cardinality(call[c].mine \ done')
      <4>1. IsFiniteSet(call[c].mine \ done) /\ Cardinality(call[c].mine \ done) \in Nat
        <5>1. call[c].mine \ done \subseteq Works
          BY <3>2 DEF CallShape
        <5> QED
          BY <5>1, QueuedFacts, FS_Subset, FS_CardinalityType
      <4>2. Cardinality(Running)
                <= call[c].want + call[c].n + Cardinality(call[c].mine \ done)
        BY <2>2, <3>2 DEF OnCourse
      <4>3. CASE r \in call[c].mine
        <5>1. r \in call[c].mine \ done /\ call[c].mine \ done' = (call[c].mine \ done) \ {r}
          BY <1>3, <1>6, <4>3
        <5>2. /\ Cardinality(call[c].mine \ done') = Cardinality(call[c].mine \ done) - 1
              /\ Cardinality(call[c].mine \ done') \in Nat
          BY <4>1, <5>1, OneLess
        <5> QED
          BY ONLY <2>2, <3>1, <4>1, <4>2, <5>2
      <4>4. CASE r \notin call[c].mine
        <5>1. call[c].mine \ done' = call[c].mine \ done
          BY <1>3, <4>4
        <5> QED
          BY <2>2, <3>1, <4>1, <4>2, <5>1
      <4> QED
        BY <4>3, <4>4
    <3>3. /\ cpc[c] \in {"spawn", "detach", "count"} =>
                Cardinality(Running') + call[c].n <= call[c].want
          /\ cpc[c] = "limit" => Cardinality(Running') <= call[c].want + call[c].n
      BY <2>2, <3>1 DEF OnCourse
    <3>4. /\ cpc'[c] = cpc[c] /\ call'[c] = call[c] /\ type' = type
          /\ At(Lasting)' = At(Lasting)
      BY <1>2, <1>3
    <3> QED
      BY <2>2, <3>2, <3>3, <3>4 DEF OnCourse
  <2> QED
    BY <2>3, <2>4
<1> QED
  BY <1>8, <1>9, <1>10, <1>11, <1>12, <1>13, <1>14, <1>16, <1>17, <1>19, <1>20

-----------------------------------------------------------------------------
(* The steps of a client.                                                  *)

\* A step of a client that neither queues a work nor starts a worker.
LEMMA ClientFrame ==
    ASSUME PoolInv, NEW c \in Clients, UNCHANGED <<wpc, own, pool, works>>,
           \A d \in Clients \ {c} : cpc'[d] = cpc[d] /\ call'[d] = call[d],
           {cpc[c], cpc'[c]} \cap {"enqueue", "detach", "count"} = {}
    PROVE  /\ TypeOK' /\ PlacesApart' /\ NoWorkMissing'
           /\ SizeExact' /\ ActiveExact' /\ CountExact'
           /\ TerminalLeave' /\ EnoughAwake' /\ ThreadsDetached'
           /\ Works' = Works /\ Undone' = Undone /\ Running' = Running
           /\ At(Lasting)' = At(Lasting)
           /\ Terminated' = Terminated
<1> USE DEF PoolInv
<1>1. /\ UNCHANGED <<work, terminal, detached, type, done, lost, work_queue, worker_count,
                     active_worker_count, work_queue_size, are_all_really_finished,
                     signal_mutex, wpc>>
      /\ Queued' = Queued /\ Works' = Works /\ Undone' = Undone
  BY DEF own, works, pool, counts, Queued, Works, Undone
<1>2. \A L : At(L)' = At(L)
  BY <1>1 DEF At
<1>3. Pushing' = Pushing /\ Counting' = Counting
  BY DEF Pushing, Counting
<1>4. Running' = Running /\ Ready' = Ready /\ Busy' = Busy /\ Terminated' = Terminated
  BY <1>1, <1>2 DEF Running, Ready, Busy, Terminated
<1>5. TypeOK'
  BY <1>1 DEF TypeOK
<1>6. PlacesApart' /\ NoWorkMissing'
  BY <1>1, <1>3, <1>4, FramePlaces DEF Pushing
<1>7. SizeExact' /\ ActiveExact' /\ CountExact'
  BY <1>1, <1>2, <1>3, FrameSize DEF ActiveExact, CountExact
<1>8. TerminalLeave' /\ EnoughAwake'
  BY <1>1, <1>2, <1>4 DEF TerminalLeave, EnoughAwake
<1>9. ThreadsDetached'
  BY <1>1 DEF ThreadsDetached
<1> QED
  BY <1>1, <1>2, <1>4, <1>5, <1>6, <1>7, <1>8, <1>9

\* While no worker is being started, the count is that of the workers that have not left
\* yet; those left to run works are fewer when some have run a TERMINAL work.
LEMMA CountIsMeasure ==
    ASSUME PoolInv, Counting = {}
    PROVE  /\ worker_count = Cardinality(At(Lasting))
           /\ Cardinality(Running) \in Nat /\ Cardinality(Running) <= MaxWorkers
           /\ Cardinality(Running) <= worker_count /\ worker_count \in Nat
           /\ worker_count = Cardinality(Running) <=> terminal \cap At(Lasting) = {}
<1>1. /\ IsFiniteSet(At(Lasting)) /\ Cardinality(At(Lasting)) \in Nat
      /\ Cardinality(At(Lasting)) <= MaxWorkers /\ MaxWorkers < Width /\ MaxWorkers \in Nat
      /\ Cardinality(Running) \in Nat /\ Cardinality(Running) <= MaxWorkers
  BY AtFacts, WorkersFinite
<1>2. worker_count = Cardinality(At(Lasting))
  <2>1. Cardinality(Counting) = 0
    BY FS_EmptySet
  <2>2. worker_count = (Cardinality(At(Lasting)) - 0) % Width
    BY <2>1 DEF PoolInv, CountExact
  <2> QED
    BY <1>1, <2>2 DEF Width
<1>3. Running \subseteq At(Lasting) /\ Running = At(Lasting) \ terminal
  BY AtFacts
<1>4. Cardinality(Running) = Cardinality(At(Lasting)) => Running = At(Lasting)
  BY <1>1, <1>3, FS_Subset
<1>5. terminal \cap At(Lasting) = {} => Running = At(Lasting)
  BY <1>3
<1>6. Running = At(Lasting) => terminal \cap At(Lasting) = {}
  BY <1>3
<1>7. Cardinality(Running) <= Cardinality(At(Lasting))
  BY <1>1, <1>3, FS_Subset
<1> QED
  BY <1>1, <1>2, <1>4, <1>5, <1>6, <1>7

\* A call of setWorkerCount that is not crowded is the only one that changes the number.
LEMMA NotCrowded ==
    ASSUME PoolInv, NEW c \in Clients \ crowded, call[c].op = "set"
    PROVE  /\ \A d \in Clients : d # c => ~Resizing(d)
           /\ cpc[c] \notin {"detach", "count"} => Counting = {}
<1>1. \A d \in Clients : d # c => ~Resizing(d)
  BY DEF PoolInv, SetOnCourse, Alone, Resizing
<1>2. \A d \in Counting : Resizing(d)
  BY DEF PoolInv, Counting, CallShape, Resizing
<1> QED
  BY <1>1, <1>2 DEF Counting

\* What a call begins with.
LEMMA BeginFacts ==
    ASSUME PoolInv, NEW c \in Clients, NEW op, NEW n \in Nat, NEW method, NEW p,
           Begin(c, op, n, method, p)
    PROVE  /\ cpc[c] = "idle" /\ calls \in Nat \ {0} /\ calls' = calls - 1
           /\ UNCHANGED <<wpc, own, pool, works>>
           /\ call'[c] = [op |-> op, n |-> n, method |-> method,
                          want |-> IF op = "set" THEN n ELSE 0,
                          mine |-> IF op = "waitAll" THEN Works ELSE {}]
           /\ cpc'[c] = p
           /\ \A d \in Clients \ {c} : cpc'[d] = cpc[d] /\ call'[d] = call[d]
           /\ DOMAIN cpc' = Clients /\ DOMAIN call' = Clients
           /\ cpc' = [cpc EXCEPT ![c] = p]
           /\ piled' = (piled \/ (op # "post" /\ Miscounted))
           /\ crowded' \subseteq Clients /\ crowded \ {c} \subseteq crowded'
           /\ op \notin {"inc", "dec", "set"} => crowded' = crowded
           /\ op \in {"inc", "dec", "set"} =>
                  \A d \in Clients \ {c} : Resizing(d) => {c, d} \subseteq crowded'
<1>1. /\ cpc[c] = "idle" /\ calls \in Nat \ {0} /\ calls' = calls - 1
      /\ UNCHANGED <<wpc, own, pool, works>>
      /\ call'[c] = [op |-> op, n |-> n, method |-> method,
                     want |-> IF op = "set" THEN n ELSE 0,
                     mine |-> IF op = "waitAll" THEN Works ELSE {}]
      /\ cpc'[c] = p
      /\ \A d \in Clients \ {c} : cpc'[d] = cpc[d] /\ call'[d] = call[d]
      /\ DOMAIN cpc' = Clients /\ DOMAIN call' = Clients
      /\ cpc' = [cpc EXCEPT ![c] = p]
      /\ piled' = (piled \/ (op # "post" /\ Miscounted))
  BY DEF PoolInv, Begin, In, CallsOK
<1>2. PICK others : /\ others = {d \in Clients \ {c} : Resizing(d)}
                    /\ crowded' = IF op \notin {"inc", "dec", "set"} THEN crowded
                                  ELSE IF others = {} THEN crowded \ {c}
                                  ELSE crowded \cup others \cup {c}
  BY DEF Begin
<1>3. crowded \subseteq Clients
  BY DEF PoolInv, CallsOK
<1>4. /\ crowded' \subseteq Clients /\ crowded \ {c} \subseteq crowded'
      /\ op \notin {"inc", "dec", "set"} => crowded' = crowded
      /\ op \in {"inc", "dec", "set"} =>
             \A d \in Clients \ {c} : Resizing(d) => {c, d} \subseteq crowded'
  BY <1>2, <1>3
<1> QED
  BY <1>1, <1>4

\* A call that is not miscounted begins alone, when no TERMINAL work is left.
LEMMA BeginsAlone ==
    ASSUME PoolInv, ~piled, ~Miscounted, calls # 0
    PROVE  /\ \A d \in Clients : ~Changing(d)
           /\ Undone = {} /\ Counting = {} /\ terminal \cap At(Lasting) = {}
           /\ worker_count = Cardinality(Running)
<1> USE DEF PoolInv
<1>1. \A d \in Clients : ~Changing(d)
  <2> SUFFICES ASSUME NEW d \in Clients, Changing(d) PROVE FALSE
    OBVIOUS
  <2>1. call[d].op # "destroy" /\ cpc[d] # "idle"
    BY DEF CallShape, Changing
  <2> QED
    BY <2>1 DEF Miscounted, Changing, Resizing
<1>2. Undone = {}
  BY DEF Miscounted, Undone
<1>3. Counting = {}
  BY <1>1 DEF Counting, CallShape, Changing
<1> QED
  BY <1>1, <1>2, <1>3, CountIsMeasure DEF Miscounted

LEMMA BeginKeeps ==
    ASSUME PoolInv, NEW c \in Clients,
           NEW op \in {"post", "waitAll", "inc", "dec", "set"}, NEW n \in Nat,
           NEW method \in {SYNC, ASYNC}, NEW p \in CallStates, Begin(c, op, n, method, p),
           op = "post" => p = "push", op = "waitAll" => p = "waitAll",
           op = "inc" => p = "spawn", op = "dec" => p = "limit",
           op = "set" => /\ p \in {"setInc", "setDec"} /\ n < Width
                         /\ p = "setInc" => worker_count < n
                         /\ p = "setDec" => n <= worker_count
    PROVE  PoolInv'
<1> USE DEF PoolInv
<1> DEFINE r == [op |-> op, n |-> n, method |-> method, want |-> IF op = "set" THEN n ELSE 0,
                 mine |-> IF op = "waitAll" THEN Works ELSE {}]
<1>1. /\ cpc[c] = "idle" /\ calls \in Nat \ {0} /\ calls' = calls - 1
      /\ UNCHANGED <<wpc, own, pool, works>>
      /\ call'[c] = r /\ cpc'[c] = p
      /\ \A d \in Clients \ {c} : cpc'[d] = cpc[d] /\ call'[d] = call[d]
      /\ DOMAIN cpc' = Clients /\ DOMAIN call' = Clients
      /\ cpc' = [cpc EXCEPT ![c] = p] /\ call' = [call EXCEPT ![c] = r]
      /\ piled' = (piled \/ (op # "post" /\ Miscounted))
      /\ crowded' \subseteq Clients /\ crowded \ {c} \subseteq crowded'
      /\ op \notin {"inc", "dec", "set"} => crowded' = crowded
      /\ op \in {"inc", "dec", "set"} =>
             \A d \in Clients \ {c} : Resizing(d) => {c, d} \subseteq crowded'
  BY BeginFacts DEF Begin
<1>2. p \in {"push", "waitAll", "spawn", "setInc", "setDec", "limit"}
  OBVIOUS
<1>3. /\ TypeOK' /\ PlacesApart' /\ NoWorkMissing'
      /\ SizeExact' /\ ActiveExact' /\ CountExact'
      /\ TerminalLeave' /\ EnoughAwake' /\ ThreadsDetached'
      /\ Works' = Works /\ Undone' = Undone /\ Running' = Running
      /\ At(Lasting)' = At(Lasting)
      /\ Terminated' = Terminated
  BY <1>1, <1>2, ClientFrame
<1>4. UNCHANGED <<terminal, type, done, worker_count>>
  BY <1>1 DEF own, works, pool, counts
<1>5. CallsOK'
  <2>1. r \in CallRecords
    <3>1. Works \subseteq Nat
      BY QueuedFacts DEF Works
    <3> QED
      BY <3>1 DEF CallRecords
  <2>2. call' \in [Clients -> CallRecords]
    BY <1>1, <2>1 DEF CallsOK
  <2>3. cpc' \in [Clients -> CallStates]
    BY <1>1 DEF CallsOK
  <2> QED
    BY <1>1, <1>4, <2>2, <2>3 DEF CallsOK
<1>6. \A d \in Clients : CallShape(d)'
  <2>1. CallShape(c)'
    BY <1>1, <1>2 DEF CallShape
  <2>2. ASSUME NEW d \in Clients \ {c} PROVE CallShape(d)'
    <3>1. call[d].op # "destroy"
      BY <1>1 DEF CallShape
    <3> QED
      BY <1>1, <1>3, <3>1 DEF CallShape
  <2> QED
    BY <2>1, <2>2
<1>7. ASSUME ~piled', op # "post"
      PROVE  /\ \A d \in Clients : ~Changing(d)
             /\ Undone = {} /\ Counting = {} /\ terminal \cap At(Lasting) = {}
             /\ worker_count = Cardinality(Running)
  BY <1>1, <1>7, BeginsAlone
<1>8. \A d \in Clients \ {c} : Changing(d)' = Changing(d)
  BY <1>1 DEF Changing
<1>9. Orderly'
  <2>1. CASE op = "post"
    <3>1. ~Changing(c)' /\ ~Changing(c)
      BY <1>1, <2>1 DEF Changing, CallShape
    <3> QED
      BY <1>1, <1>3, <1>4, <1>8, <2>1, <3>1 DEF Orderly
  <2>2. CASE op # "post"
    BY <1>1, <1>2, <1>3, <1>4, <1>7, <1>8, <2>2 DEF Orderly
  <2> QED
    BY <2>1, <2>2
<1>10. SetOnCourse'
  <2>1. Alone'
    <3>1. \A d \in Clients \ {c} : Resizing(d)' = Resizing(d)
      BY <1>1 DEF Resizing
    <3>2. Resizing(c)' => op \in {"inc", "dec", "set"}
      BY <1>1 DEF Resizing
    <3> SUFFICES ASSUME NEW d \in Clients, NEW e \in Clients, Resizing(d)', Resizing(e)', d # e
                 PROVE  d \in crowded'
      BY DEF Alone
    <3>3. CASE c \in {d, e}
      BY <1>1, <3>1, <3>2, <3>3
    <3>4. CASE c \notin {d, e}
      BY <1>1, <3>1, <3>4 DEF SetOnCourse, Alone
    <3> QED
      BY <3>3, <3>4
  <2>2. \A d \in Clients \ crowded' : d # c /\ call'[d].op = "set" => OnCourse(d)'
    BY <1>1, <1>3, <1>4, OthersOnCourse
  <2>3. ASSUME c \notin crowded', op = "set" PROVE OnCourse(c)'
    <3>1. \A d \in Clients : ~Resizing(d)
      <4>1. ~Resizing(c)
        BY <1>1 DEF CallShape, Resizing
      <4> QED
        BY <1>1, <2>3, <4>1
    <3>2. Counting = {}
      BY <3>1 DEF Counting, CallShape, Resizing
    <3>3. p = "setInc" => Cardinality(At(Lasting)) <= n
      BY <2>3, <3>2, CountIsMeasure
    <3>4. cpc'[c] \in {"setInc", "setDec"} /\ call'[c].want = n
      BY <1>1, <2>3
    <3> QED
      BY <1>1, <1>3, <3>3, <3>4 DEF OnCourse
  <2>4. call'[c].op = "set" => op = "set"
    BY <1>1
  <2> QED
    BY <2>1, <2>2, <2>3, <2>4 DEF SetOnCourse
<1> QED
  BY <1>3, <1>5, <1>6, <1>9, <1>10

LEMMA CallsKeep == ASSUME PoolInv, NEW c \in Clients, Calls(c) PROVE PoolInv'
<1>1. \A n \in Counts : n \in Nat /\ n < Width
  BY PoolAssumption DEF Width
<1>2. worker_count \in Nat
  BY DEF PoolInv, TypeOK, Width
<1>3. CASE BeginPost(c)
  BY <1>3, BeginKeeps DEF BeginPost, CallStates
<1>4. CASE BeginWaitAll(c)
  BY <1>4, BeginKeeps DEF BeginWaitAll, CallStates
<1>5. ASSUME NEW n \in Counts, BeginInc(c, n) PROVE PoolInv'
  BY <1>1, <1>5, BeginKeeps DEF BeginInc, CallStates
<1>6. ASSUME NEW n \in Counts, NEW m \in {SYNC, ASYNC}, BeginDec(c, n, m) PROVE PoolInv'
  BY <1>1, <1>6, BeginKeeps DEF BeginDec, CallStates
<1>7. ASSUME NEW n \in Counts, NEW m \in {SYNC, ASYNC}, BeginSet(c, n, m) PROVE PoolInv'
  <2> DEFINE p == IF worker_count < n THEN "setInc" ELSE "setDec"
  <2>1. /\ p \in {"setInc", "setDec"} /\ (p = "setInc" => worker_count < n)
        /\ (p = "setDec" => n <= worker_count) /\ p \in CallStates
    BY <1>1, <1>2 DEF CallStates
  <2>2. Begin(c, "set", n, m, p)
    BY <1>7 DEF BeginSet
  <2> HIDE DEF p
  <2> QED
    BY <1>1, <2>1, <2>2, BeginKeeps
<1>8. CASE Destroy(c)
  <2> USE DEF PoolInv
  <2> DEFINE r == [op |-> "destroy", n |-> Width - 1, method |-> SYNC, mine |-> {}, want |-> 0]
  <2>1. /\ cpc[c] = "idle" /\ calls = 0 /\ calls' = calls
        /\ \A d \in Clients \ {c} : cpc[d] = "idle"
        /\ call' = [call EXCEPT ![c] = r] /\ cpc' = [cpc EXCEPT ![c] = "limit"]
        /\ UNCHANGED <<wpc, own, pool, works, crowded>>
        /\ piled' = (piled \/ Miscounted)
    BY <1>8 DEF Destroy, In
  <2>2. /\ call'[c] = r /\ cpc'[c] = "limit"
        /\ \A d \in Clients \ {c} : cpc'[d] = cpc[d] /\ call'[d] = call[d]
    BY <2>1 DEF CallsOK
  <2>3. /\ TypeOK' /\ PlacesApart' /\ NoWorkMissing'
        /\ SizeExact' /\ ActiveExact' /\ CountExact'
        /\ TerminalLeave' /\ EnoughAwake' /\ ThreadsDetached'
        /\ Works' = Works /\ Undone' = Undone /\ Running' = Running
        /\ At(Lasting)' = At(Lasting)
        /\ Terminated' = Terminated
    BY <2>1, <2>2, ClientFrame
  <2>4. UNCHANGED <<terminal, type, done>>
    BY <2>1 DEF own, works
  <2>5. CallsOK'
    <3>1. r \in CallRecords
      BY DEF CallRecords, Width
    <3>2. call' \in [Clients -> CallRecords] /\ cpc' \in [Clients -> CallStates]
      BY <2>1, <3>1 DEF CallsOK, CallStates
    <3> QED
      BY <2>1, <2>4, <3>2 DEF CallsOK
  <2>6. \A d \in Clients : CallShape(d)'
    BY <2>1, <2>2, <2>3 DEF CallShape
  <2>7. \A d \in Clients \ {c} : call'[d].op = "none"
    BY <2>1, <2>2 DEF CallShape
  <2>8. Orderly'
    <3>1. ~piled' => Undone = {}
      BY <2>1 DEF Miscounted, Undone
    <3>2. \A d, e \in Clients : Changing(d)' /\ Changing(e)' => d = e
      BY <2>7 DEF Changing
    <3> QED
      BY <2>1, <2>2, <2>3, <2>4, <3>1, <3>2 DEF Orderly
  <2>9. SetOnCourse'
    <3>1. \A d \in Clients : call'[d].op # "set" /\ ~Resizing(d)'
      BY <2>2, <2>7 DEF Resizing
    <3> QED
      BY <3>1 DEF SetOnCourse, Alone
  <2> QED
    BY <2>3, <2>5, <2>6, <2>8, <2>9
<1> QED
  BY <1>3, <1>4, <1>5, <1>6, <1>7, <1>8 DEF Calls

\* The second reading of the count may differ from the first, as workers leave: the
\* difference with it never asks for so many workers, or posts so few TERMINAL works, that
\* too many are left.
LEMMA SetCountKeeps == ASSUME PoolInv, NEW c \in Clients, SetCount(c) PROVE PoolInv'
<1> USE DEF PoolInv
<1> PICK n \in Nat : n = call[c].n
  BY DEF CallsOK, CallRecords
<1>1. /\ UNCHANGED <<wpc, own, pool, works, past>>
      /\ worker_count \in Nat /\ worker_count < Width
  <2>1. UNCHANGED <<wpc, own, pool, works, past>>
    BY DEF SetCount
  <2>2. worker_count \in 0 .. Width - 1
    BY DEF TypeOK
  <2> QED
    BY <2>1, <2>2 DEF Width
<1>a. (n - worker_count) % Width \in Nat /\ (worker_count - n) % Width \in Nat
  BY <1>1 DEF Width
<1> PICK p \in {"setInc", "setDec"}, q \in {"spawn", "limit"}, k \in Nat :
         /\ cpc[c] = p /\ cpc' = [cpc EXCEPT ![c] = q] /\ call' = [call EXCEPT ![c].n = k]
         /\ p = "setInc" => q = "spawn" /\ k = (n - worker_count) % Width
         /\ p = "setDec" => q = "limit" /\ k = (worker_count - n) % Width
  BY <1>1, <1>a DEF SetCount, In
<1>2. /\ cpc'[c] = q /\ call'[c] = [call[c] EXCEPT !.n = k]
      /\ \A d \in Clients \ {c} : cpc'[d] = cpc[d] /\ call'[d] = call[d]
      /\ call[c].op = "set" /\ call[c].mine = {} /\ call[c].want = n /\ n < Width
  BY DEF CallsOK, CallShape
<1>3. /\ TypeOK' /\ PlacesApart' /\ NoWorkMissing'
      /\ SizeExact' /\ ActiveExact' /\ CountExact'
      /\ TerminalLeave' /\ EnoughAwake' /\ ThreadsDetached'
      /\ Works' = Works /\ Undone' = Undone /\ Running' = Running
      /\ At(Lasting)' = At(Lasting)
      /\ Terminated' = Terminated
  BY <1>1, <1>2, ClientFrame
<1>4. UNCHANGED <<terminal, type, done, worker_count, calls, piled, crowded>>
  BY <1>1 DEF own, works, pool, counts, past
<1>5. /\ call'[c].op = "set" /\ call'[c].mine = {} /\ call'[c].want = n /\ call'[c].n = k
      /\ call' \in [Clients -> CallRecords] /\ cpc' \in [Clients -> CallStates]
  <2>1. call[c] \in CallRecords
    BY DEF CallsOK
  <2>2. /\ [call[c] EXCEPT !.n = k] \in CallRecords
        /\ [call[c] EXCEPT !.n = k].op = call[c].op
        /\ [call[c] EXCEPT !.n = k].mine = call[c].mine
        /\ [call[c] EXCEPT !.n = k].want = call[c].want
        /\ [call[c] EXCEPT !.n = k].n = k
    BY <1>1, <2>1 DEF CallRecords
  <2> QED
    BY <1>2, <2>2 DEF CallsOK, CallStates
<1>6. CallsOK'
  BY <1>4, <1>5 DEF CallsOK
<1>7. \A d \in Clients : CallShape(d)'
  BY <1>2, <1>3, <1>4, <1>5 DEF CallShape
<1>8. Orderly'
  <2>1. \A d \in Clients : Changing(d)' = Changing(d)
    BY <1>2, <1>5 DEF Changing
  <2>2. piled \/ Undone = {}
    BY DEF Orderly
  <2> QED
    BY <1>2, <1>3, <1>4, <2>1, <2>2 DEF Orderly
<1>9. SetOnCourse'
  <2>1. Alone'
    BY <1>2, <1>4, <1>5, FrameAlone DEF SetOnCourse, Resizing
  <2>2. \A d \in Clients \ crowded' : d # c /\ call'[d].op = "set" => OnCourse(d)'
    BY <1>2, <1>3, <1>4, OthersOnCourse
  <2>3. ASSUME c \notin crowded PROVE OnCourse(c)'
    <3>1. /\ worker_count = Cardinality(At(Lasting))
          /\ Cardinality(Running) \in Nat /\ Cardinality(Running) <= worker_count
      <4>1. Counting = {}
        BY <1>2, <2>3, NotCrowded
      <4> QED
        BY <4>1, CountIsMeasure
    <3>2. ASSUME p = "setInc" PROVE Cardinality(Running) + k <= n
      <4>1. worker_count <= n
        <5>1. OnCourse(c) /\ cpc[c] = "setInc"
          BY <1>2, <2>3, <3>2 DEF SetOnCourse
        <5> QED
          BY ONLY <1>2, <3>1, <5>1 DEF OnCourse
      <4>2. k = n - worker_count
        BY <1>1, <1>2, <3>2, <4>1, Difference
      <4> QED
        BY ONLY <1>1, <3>1, <4>1, <4>2
    <3>3. ASSUME p = "setDec" PROVE Cardinality(Running) <= n + k
      <4>1. CASE n <= worker_count
        <5>1. k = worker_count - n
          BY <1>1, <3>3, <4>1, Difference
        <5> QED
          BY ONLY <1>1, <3>1, <4>1, <5>1
      <4>2. CASE ~(n <= worker_count)
        BY <1>1, <3>1, <4>2
      <4> QED
        BY <4>1, <4>2
    <3>4. /\ cpc'[c] = q /\ call'[c].want = n /\ call'[c].n = k
          /\ q = "spawn" => p = "setInc"
          /\ q = "limit" => p = "setDec"
      BY <1>2, <1>5
    <3> QED
      BY <1>3, <3>2, <3>3, <3>4 DEF OnCourse
  <2> QED
    BY <1>4, <2>1, <2>2, <2>3 DEF SetOnCourse
<1> QED
  BY <1>3, <1>6, <1>7, <1>8, <1>9

\* The third reading may be lower still: as many TERMINAL works as there were workers then
\* are enough.
LEMMA LimitKeeps == ASSUME PoolInv, NEW c \in Clients, Limit(c) PROVE PoolInv'
<1> USE DEF PoolInv
<1> PICK n \in Nat : n = call[c].n
  BY DEF CallsOK, CallRecords
<1>1. /\ UNCHANGED <<wpc, own, pool, works, past>> /\ cpc[c] = "limit"
      /\ cpc' = [cpc EXCEPT ![c] = "push"] /\ worker_count \in Nat
  <2>1. worker_count \in 0 .. Width - 1
    BY DEF TypeOK
  <2> QED
    BY <2>1 DEF Limit, In, Width
<1> PICK k \in Nat : /\ call' = [call EXCEPT ![c].n = k]
                     /\ k = IF n < worker_count THEN n ELSE worker_count
  BY <1>1 DEF Limit, CallsOK
<1>2. /\ cpc'[c] = "push" /\ call'[c] = [call[c] EXCEPT !.n = k]
      /\ \A d \in Clients \ {c} : cpc'[d] = cpc[d] /\ call'[d] = call[d]
      /\ call[c].op \in {"dec", "set", "destroy"} /\ call[c].mine = {}
  BY <1>1 DEF CallsOK, CallShape
<1>3. /\ TypeOK' /\ PlacesApart' /\ NoWorkMissing'
      /\ SizeExact' /\ ActiveExact' /\ CountExact'
      /\ TerminalLeave' /\ EnoughAwake' /\ ThreadsDetached'
      /\ Works' = Works /\ Undone' = Undone /\ Running' = Running
      /\ At(Lasting)' = At(Lasting)
      /\ Terminated' = Terminated
  BY <1>1, <1>2, ClientFrame
<1>4. UNCHANGED <<terminal, type, done, worker_count, calls, piled, crowded>>
  BY <1>1 DEF own, works, pool, counts, past
<1>5. /\ call'[c].op = call[c].op /\ call'[c].mine = {} /\ call'[c].want = call[c].want
      /\ call'[c].n = k /\ call[c].want \in Nat
      /\ call' \in [Clients -> CallRecords] /\ cpc' \in [Clients -> CallStates]
  <2>1. call[c] \in CallRecords
    BY DEF CallsOK
  <2>2. /\ [call[c] EXCEPT !.n = k] \in CallRecords
        /\ [call[c] EXCEPT !.n = k].op = call[c].op
        /\ [call[c] EXCEPT !.n = k].mine = call[c].mine
        /\ [call[c] EXCEPT !.n = k].want = call[c].want
        /\ [call[c] EXCEPT !.n = k].n = k /\ call[c].want \in Nat
    BY <2>1 DEF CallRecords
  <2> QED
    BY <1>1, <1>2, <2>2 DEF CallsOK, CallStates
<1>6. CallsOK'
  BY <1>4, <1>5 DEF CallsOK
<1>7. \A d \in Clients : CallShape(d)'
  <2>1. CallShape(c)'
    BY <1>1, <1>2, <1>4, <1>5 DEF CallShape
  <2>2. ASSUME NEW d \in Clients \ {c} PROVE CallShape(d)'
    BY <1>2, <1>3, <1>4, FrameShape
  <2> QED
    BY <2>1, <2>2
<1>8. Orderly'
  <2>1. \A d \in Clients : Changing(d)' = Changing(d)
    BY <1>2, <1>5 DEF Changing
  <2>2. piled \/ Undone = {}
    BY <1>1 DEF Orderly
  <2> QED
    BY <1>1, <1>2, <1>3, <1>4, <2>1, <2>2 DEF Orderly
<1>9. SetOnCourse'
  <2>1. Alone'
    BY <1>2, <1>4, <1>5, FrameAlone DEF SetOnCourse, Resizing
  <2>2. \A d \in Clients \ crowded' : d # c /\ call'[d].op = "set" => OnCourse(d)'
    BY <1>2, <1>3, <1>4, OthersOnCourse
  <2>3. ASSUME c \notin crowded, call[c].op = "set" PROVE OnCourse(c)'
    <3>1. Counting = {}
      BY <1>1, <2>3, NotCrowded
    <3>2. Cardinality(Running) \in Nat /\ Cardinality(Running) <= worker_count
      BY <3>1, CountIsMeasure
    <3>3. Cardinality(Running) <= call[c].want + n
      BY <1>1, <2>3 DEF SetOnCourse, OnCourse
    <3>4. Cardinality({} \ done) = 0
      BY FS_EmptySet
    <3>5. Cardinality(Running) <= call[c].want + k + 0
      BY <1>1, <1>5, <3>2, <3>3
    <3> QED
      BY <1>2, <1>3, <1>4, <1>5, <3>4, <3>5 DEF OnCourse
  <2> QED
    BY <1>4, <1>5, <2>1, <2>2, <2>3 DEF SetOnCourse
<1> QED
  BY <1>3, <1>6, <1>7, <1>8, <1>9

LEMMA ReturnKeeps == ASSUME PoolInv, NEW c \in Clients, Return(c) PROVE PoolInv'
<1> USE DEF PoolInv
<1> PICK q \in {"idle", "destroyed"} :
         /\ cpc' = [cpc EXCEPT ![c] = q] /\ call' = [call EXCEPT ![c] = NoCall]
  BY DEF Return
<1>1. UNCHANGED <<wpc, own, pool, works, past>> /\ cpc[c] \in {"spawn", "push", "waitAll"}
  BY DEF Return, In
<1>2. /\ cpc'[c] = q /\ call'[c] = NoCall
      /\ \A d \in Clients \ {c} : cpc'[d] = cpc[d] /\ call'[d] = call[d]
  BY DEF CallsOK
<1>3. /\ TypeOK' /\ PlacesApart' /\ NoWorkMissing'
      /\ SizeExact' /\ ActiveExact' /\ CountExact'
      /\ TerminalLeave' /\ EnoughAwake' /\ ThreadsDetached'
      /\ Works' = Works /\ Undone' = Undone /\ Running' = Running
      /\ At(Lasting)' = At(Lasting)
      /\ Terminated' = Terminated
  BY <1>1, <1>2, ClientFrame
<1>4. UNCHANGED <<terminal, type, done, calls, piled, crowded>>
  BY <1>1 DEF own, works, past
<1>5. CallsOK'
  <2>1. NoCall \in CallRecords
    BY DEF NoCall, CallRecords
  <2>2. call' \in [Clients -> CallRecords] /\ cpc' \in [Clients -> CallStates]
    BY <2>1 DEF CallsOK, CallStates
  <2> QED
    BY <1>4, <2>2 DEF CallsOK
<1>6. \A d \in Clients : CallShape(d)'
  BY <1>2, <1>3, <1>4 DEF CallShape, NoCall
<1>7. Orderly'
  <2>1. ~Changing(c)' /\ \A d \in Clients \ {c} : Changing(d)' = Changing(d)
    BY <1>2 DEF Changing, NoCall
  <2> QED
    BY <1>2, <1>3, <1>4, <2>1 DEF Orderly
<1>8. SetOnCourse'
  <2>1. Alone'
    <3>1. ~Resizing(c)' /\ \A d \in Clients \ {c} : Resizing(d)' = Resizing(d)
      BY <1>2 DEF Resizing, NoCall
    <3> QED
      BY <1>4, <3>1, FrameAlone DEF SetOnCourse
  <2>2. \A d \in Clients \ crowded' : d # c /\ call'[d].op = "set" => OnCourse(d)'
    BY <1>2, <1>3, <1>4, OthersOnCourse
  <2>3. call'[c].op # "set"
    BY <1>2 DEF NoCall
  <2> QED
    BY <2>1, <2>2, <2>3 DEF SetOnCourse
<1> QED
  BY <1>3, <1>5, <1>6, <1>7, <1>8

\* The new work is the latest of its call.
LEMMA LatestPosted ==
    ASSUME NEW c \in Clients, NEW S, NEW k \in Nat, call'[c].mine = S \cup {k + 1},
           S \subseteq 1 .. k
    PROVE  Latest(c)' = k + 1
<1> PICK M : M = call'[c].mine
  OBVIOUS
<1>1. M = S \cup {k + 1} /\ \A j \in S : j \in Nat /\ j <= k
  OBVIOUS
<1>2. k + 1 \in M /\ \A j \in M : j \in Nat /\ j <= k + 1
  BY <1>1
<1>3. \A i \in M : (\A j \in M : j <= i) => i = k + 1
  <2> SUFFICES ASSUME NEW i \in M, \A j \in M : j <= i
               PROVE  i = k + 1
    OBVIOUS
  <2>1. k + 1 <= i /\ i <= k + 1 /\ i \in Nat
    BY <1>2
  <2> QED
    BY <2>1
<1>4. Latest(c)' = CHOOSE i \in M : \A j \in M : j <= i
  BY DEF Latest
<1> QED
  BY <1>2, <1>3, <1>4

\* A call posts one more work: its own, or a TERMINAL one while it is the only call that
\* changes the number of workers.
LEMMA PostWorkKeeps == ASSUME PoolInv, NEW c \in Clients, PostWork(c) PROVE PoolInv'
<1> USE DEF PoolInv
<1> PICK k \in Nat : k = Len(type)
  BY QueuedFacts
<1> PICK t \in {STD, TERMINAL} : /\ type' = Append(type, t)
                                 /\ t = TERMINAL <=> call[c].op # "post"
  BY DEF PostWork, STD, TERMINAL
<1>1. /\ cpc[c] = "push" /\ call[c].n > 0
      /\ call' = [call EXCEPT ![c].n = @ - 1, ![c].mine = @ \cup {k + 1}]
      /\ cpc' = [cpc EXCEPT ![c] = "enqueue"]
      /\ UNCHANGED <<wpc, own, counts, signal_mutex, done, lost, work_queue, past>>
      /\ are_all_really_finished' = FALSE
  BY DEF PostWork, In
<1>2. /\ UNCHANGED <<work, terminal, detached, worker_count, active_worker_count,
                     work_queue_size, calls, piled, crowded>>
      /\ Queued' = Queued
  BY <1>1 DEF own, counts, past, Queued
<1>3. /\ type \in Seq({STD, TERMINAL}) /\ type' \in Seq({STD, TERMINAL}) /\ Len(type') = k + 1
      /\ Works = 1 .. k /\ Works' = Works \cup {k + 1} /\ k + 1 \notin Works
      /\ type'[k + 1] = t /\ \A i \in Works : type'[i] = type[i]
  <2>1. type \in Seq({STD, TERMINAL})
    BY DEF CallsOK
  <2>2. /\ type' \in Seq({STD, TERMINAL}) /\ Len(type') = k + 1 /\ type'[k + 1] = t
        /\ \A i \in 1 .. k : type'[i] = type[i]
    BY <2>1
  <2>3. 1 .. k + 1 = (1 .. k) \cup {k + 1} /\ k + 1 \notin 1 .. k
    OBVIOUS
  <2> QED
    BY <2>1, <2>2, <2>3 DEF Works
<1>4. /\ call[c] \in CallRecords /\ call[c].mine \subseteq Works
      /\ call[c].op \in {"post", "dec", "set", "destroy"}
      /\ call[c].n \in Nat /\ call[c].want \in Nat
  BY <1>1 DEF CallsOK, CallShape, CallRecords
<1>5. /\ call'[c] = [call[c] EXCEPT !.n = @ - 1, !.mine = @ \cup {k + 1}]
      /\ cpc'[c] = "enqueue"
      /\ \A d \in Clients \ {c} : cpc'[d] = cpc[d] /\ call'[d] = call[d]
  BY <1>1 DEF CallsOK
<1>6. /\ call'[c].n = call[c].n - 1 /\ call'[c].mine = call[c].mine \cup {k + 1}
      /\ call'[c].op = call[c].op /\ call'[c].want = call[c].want
      /\ call'[c] \in CallRecords
  <2>1. call[c].n - 1 \in Nat /\ call[c].mine \cup {k + 1} \in SUBSET Nat
    BY <1>1, <1>4 DEF CallRecords
  <2> QED
    BY <1>4, <1>5, <2>1 DEF CallRecords
<1>7. Latest(c)' = k + 1
  BY <1>3, <1>4, <1>6, LatestPosted
<1>8. /\ Pushing' = Pushing \cup {c} /\ c \notin Pushing /\ Counting' = Counting
      /\ \A d \in Pushing : Latest(d)' = Latest(d)
  <2>1. Pushing' = Pushing \cup {c} /\ c \notin Pushing /\ Counting' = Counting
    BY <1>1, <1>5 DEF Pushing, Counting
  <2> QED
    BY <1>5, <2>1, LatestStays DEF Pushing
<1>9. \A L : At(L)' = At(L)
  BY <1>1 DEF At
<1>10. Running' = Running /\ Ready' = Ready /\ Busy' = Busy
  BY <1>1, <1>2, <1>9 DEF Running, Ready, Busy
<1>11. TypeOK'
  <2>1. \A d \in Clients : work_queue[d] \in Seq(Works')
    <3> SUFFICES ASSUME NEW d \in Clients PROVE work_queue[d] \in Seq(Works')
      OBVIOUS
    <3>1. work_queue[d] \in Seq(Works)
      BY DEF TypeOK
    <3>2. Works \subseteq Works'
      BY <1>3
    <3> QED
      BY <3>1, <3>2, SeqMonotonic, Zenon
  <2>2. work_queue' \in [Clients -> Seq(Works')]
    BY <1>1, <2>1 DEF TypeOK
  <2>3. work' \in [Workers -> 0 .. Len(type')]
    BY <1>2, <1>3 DEF TypeOK
  <2>4. done' \cup lost' \subseteq Works' /\ are_all_really_finished' \in BOOLEAN
    BY <1>1, <1>3 DEF TypeOK
  <2>5. /\ wpc' = wpc /\ detached' = detached /\ terminal' = terminal
        /\ worker_count' = worker_count /\ active_worker_count' = active_worker_count
        /\ work_queue_size' = work_queue_size /\ signal_mutex' = signal_mutex
    BY <1>1, <1>2
  <2> QED
    BY <2>2, <2>3, <2>4, <2>5 DEF TypeOK
<1>12. CallsOK'
  <2>1. call' \in [Clients -> CallRecords] /\ cpc' \in [Clients -> CallStates]
    BY <1>1, <1>5, <1>6 DEF CallsOK, CallStates
  <2> QED
    BY <1>2, <1>3, <2>1 DEF CallsOK
<1>13. \A d \in Clients : CallShape(d)'
  <2>1. CallShape(c)'
    BY <1>1, <1>2, <1>3, <1>4, <1>5, <1>6 DEF CallShape
  <2>2. ASSUME NEW d \in Clients \ {c} PROVE CallShape(d)'
    <3>1. cpc'[d] = cpc[d] /\ call'[d] = call[d] /\ calls' = calls
      BY <1>2, <1>5
    <3>2. Works \subseteq Works'
      BY <1>3
    <3> QED
      BY <3>1, <3>2 DEF CallShape
  <2> QED
    BY <2>1, <2>2
<1>14. k + 1 \notin Queued \cup lost \cup done /\ \A w \in Busy : work[w] # k + 1
  BY <1>3, QueuedFacts DEF PlacesApart
<1>15. \A d \in Pushing : Latest(d) # k + 1
  BY <1>3 DEF PlacesApart
<1>16. PlacesApart'
  <2>1. \A d, e \in Pushing' : Latest(d)' = Latest(e)' => d = e
    BY <1>7, <1>8, <1>15 DEF PlacesApart
  <2>2. \A d \in Pushing' : /\ Latest(d)' \in Works' \ (Queued \cup lost \cup done)
                            /\ \A w \in Busy : work[w] # Latest(d)'
    BY <1>3, <1>7, <1>8, <1>14 DEF PlacesApart
  <2>3. \A w \in Busy : work[w] \in Works' \ (Queued \cup lost \cup done)
    BY <1>3 DEF PlacesApart
  <2>4. done' = done /\ lost' = lost /\ work_queue' = work_queue /\ work' = work
    BY <1>1, <1>2
  <2> QED
    BY <1>2, <1>10, <2>1, <2>2, <2>3, <2>4 DEF PlacesApart
<1>17. NoWorkMissing'
  <2>1. done' = done /\ lost' = lost /\ work' = work
    BY <1>1, <1>2
  <2> QED
    BY <1>2, <1>3, <1>7, <1>8, <1>10, <2>1 DEF NoWorkMissing
<1>18. SizeExact' /\ ActiveExact' /\ CountExact'
  <2>1. UNCHANGED <<work_queue_size, work_queue, lost, work>>
    BY <1>1, <1>2
  <2>2. SizeExact'
    BY <1>9, <2>1, FrameSize
  <2> QED
    BY <1>2, <1>8, <1>9, <2>2 DEF ActiveExact, CountExact
<1>19. TerminalLeave' /\ EnoughAwake'
  BY <1>2, <1>9, <1>10 DEF TerminalLeave, EnoughAwake
<1>20. ThreadsDetached'
  <2> SUFFICES ASSUME NEW w \in Workers, wpc[w] # "none", w \notin detached
               PROVE  \E d \in Clients : cpc'[d] = "detach" /\ call'[d].mine = {w}
    BY <1>1, <1>2 DEF ThreadsDetached
  <2>1. PICK d \in Clients : cpc[d] = "detach" /\ call[d].mine = {w}
    BY DEF ThreadsDetached
  <2> QED
    BY <1>1, <1>5, <2>1
<1>21. /\ t = STD => Undone' = Undone
       /\ t = TERMINAL => Undone' = Undone \cup {k + 1}
  <2>1. done' = done /\ k + 1 \notin done
    BY <1>1, <1>14
  <2>2. \A i : i \in Undone' <=> i \in Works' /\ i \notin done /\ type'[i] = TERMINAL
    BY <2>1 DEF Undone
  <2>3. \A i : i \in Undone <=> i \in Works /\ i \notin done /\ type[i] = TERMINAL
    BY DEF Undone
  <2> QED
    BY <1>3, <2>1, <2>2, <2>3 DEF STD, TERMINAL
<1>22. \A d \in Clients : Changing(d)' = Changing(d)
  BY <1>5, <1>6 DEF Changing
<1>23. Orderly'
  <2> SUFFICES ASSUME ~piled
               PROVE  \A d \in Clients :
                        /\ cpc'[d] \in {"spawn", "detach", "count", "setInc", "setDec", "limit"} =>
                               Undone' = {}
                        /\ cpc'[d] \in {"push", "enqueue"} /\ Changing(d) =>
                               Undone' \subseteq call'[d].mine
                        /\ cpc'[d] = "detach" => call'[d].mine \cap terminal = {}
    BY <1>2, <1>9, <1>22 DEF Orderly, Terminated
  <2>1. CASE t = STD
    <3>1. ~Changing(c)
      BY <2>1 DEF Changing, STD, TERMINAL
    <3> QED
      BY <1>5, <1>21, <2>1, <3>1 DEF Orderly
  <2>2. CASE t = TERMINAL
    <3>1. Changing(c)
      BY <1>4, <2>2 DEF Changing
    <3>2. \A d \in Clients \ {c} : ~Changing(d)
      BY <3>1 DEF Orderly
    <3>3. \A d \in Clients \ {c} :
             cpc[d] \notin {"spawn", "detach", "count", "setInc", "setDec", "limit"}
      BY <3>2 DEF Changing, CallShape
    <3>4. Undone' \subseteq call'[c].mine
      BY <1>1, <1>6, <1>21, <2>2, <3>1 DEF Orderly
    <3> QED
      BY <1>5, <3>2, <3>3, <3>4
  <2> QED
    BY <2>1, <2>2
<1>24. SetOnCourse'
  <2>1. Alone'
    BY <1>2, <1>5, <1>6, FrameAlone DEF SetOnCourse, Resizing
  <2>2. \A d \in Clients \ crowded' : d # c /\ call'[d].op = "set" => OnCourse(d)'
    <3>1. done' = done
      BY <1>1
    <3> QED
      BY <1>2, <1>3, <1>5, <1>9, <1>10, <3>1, OthersOnCourse
  <2>3. ASSUME c \notin crowded, call[c].op = "set"
        PROVE  /\ \A i \in call'[c].mine : type'[i] = TERMINAL
               /\ Cardinality(Running)
                     <= call'[c].want + call'[c].n + Cardinality(call'[c].mine \ done)
    <3>1. t = TERMINAL
      BY <2>3
    <3>2. /\ \A i \in call[c].mine : type[i] = TERMINAL
          /\ Cardinality(Running)
                <= call[c].want + call[c].n + Cardinality(call[c].mine \ done)
      BY <1>1, <2>3 DEF SetOnCourse, OnCourse
    <3>3. call'[c].mine \ done = (call[c].mine \ done) \cup {k + 1}
      BY <1>6, <1>14
    <3>4. IsFiniteSet(call[c].mine \ done) /\ k + 1 \notin call[c].mine \ done
      BY <1>3, <1>4, QueuedFacts, FS_Subset
    <3>5. /\ Cardinality(call'[c].mine \ done) = Cardinality(call[c].mine \ done) + 1
          /\ Cardinality(call[c].mine \ done) \in Nat
      BY <3>3, <3>4, OneMore
    <3>6. call'[c].want + call'[c].n + Cardinality(call'[c].mine \ done)
             = call[c].want + call[c].n + Cardinality(call[c].mine \ done)
      <4>1. call'[c].want = call[c].want /\ call'[c].n = call[c].n - 1
        BY <1>6
      <4> QED
        BY ONLY <1>4, <3>5, <4>1, OneMoved
    <3>7. \A i \in call'[c].mine : type'[i] = TERMINAL
      BY <1>3, <1>4, <1>6, <3>1, <3>2
    <3> QED
      BY <3>2, <3>6, <3>7
  <2>4. done' = done
    BY <1>1
  <2>5. c \notin crowded /\ call[c].op = "set" => OnCourse(c)'
    BY <1>5, <1>6, <1>10, <2>3, <2>4 DEF OnCourse
  <2> QED
    BY <1>2, <1>6, <2>1, <2>2, <2>5 DEF SetOnCourse
<1> QED
  BY <1>11, <1>12, <1>13, <1>16, <1>17, <1>18, <1>19, <1>20, <1>23, <1>24

\* The work goes to the end of the client's queue, or is refused.
LEMMA EnqueueMoves ==
    ASSUME PoolInv, NEW c \in Clients, Enqueue(c), NEW x, x = Latest(c)
    PROVE  /\ work_queue' \in [Clients -> Seq(Works)]
           /\ lost' \subseteq lost \cup {x}
           /\ \/ Queued' = Queued \cup {x} /\ lost' = lost
              \/ Queued' = Queued /\ lost' = lost \cup {x}
           /\ \A d, e \in Clients : \A i \in 1 .. Len(work_queue'[d]) :
                 \A j \in 1 .. Len(work_queue'[e]) :
                     work_queue'[d][i] = work_queue'[e][j] => d = e /\ i = j
<1> USE DEF PoolInv
<1>1. x \in Works /\ x \notin Queued
  BY DEF PlacesApart, Pushing, Enqueue, In
<1>2. work_queue[c] \in Seq(Works) /\ Len(work_queue[c]) \in Nat
  BY DEF TypeOK
<1>3. CASE work_queue' = work_queue
  <2>1. lost' = lost \cup {x}
    <3>1. ASSUME Len(work_queue[c]) < Room PROVE FALSE
      <4>1. work_queue' = [work_queue EXCEPT ![c] = Append(@, x)]
        BY <3>1 DEF Enqueue
      <4>2. work_queue'[c] = Append(work_queue[c], x)
        BY <4>1 DEF TypeOK
      <4>3. Len(Append(work_queue[c], x)) = Len(work_queue[c]) + 1
        BY <1>1, <1>2
      <4> QED
        BY <1>2, <1>3, <4>2, <4>3
    <3> QED
      BY <3>1 DEF Enqueue
  <2>2. Queued' = Queued
    BY <1>3 DEF Queued
  <2>3. work_queue' \in [Clients -> Seq(Works)]
    BY <1>3 DEF TypeOK
  <2>4. \A d, e \in Clients : \A i \in 1 .. Len(work_queue[d]) :
           \A j \in 1 .. Len(work_queue[e]) :
              work_queue[d][i] = work_queue[e][j] => d = e /\ i = j
    BY DEF PlacesApart
  <2> QED
    BY <1>3, <2>1, <2>2, <2>3, <2>4
<1>4. CASE work_queue' # work_queue
  <2> PICK l \in Nat : l = Len(work_queue[c])
    BY <1>2
  <2>1. work_queue' = [work_queue EXCEPT ![c] = Append(@, x)] /\ lost' = lost
    BY <1>4 DEF Enqueue
  <2>2. /\ Append(work_queue[c], x) \in Seq(Works)
        /\ Len(Append(work_queue[c], x)) = l + 1
        /\ Append(work_queue[c], x)[l + 1] = x
        /\ \A i \in 1 .. l : Append(work_queue[c], x)[i] = work_queue[c][i]
    BY <1>1, <1>2
  <2>3. /\ work_queue' \in [Clients -> Seq(Works)]
        /\ work_queue'[c] = Append(work_queue[c], x)
        /\ \A d \in Clients \ {c} : work_queue'[d] = work_queue[d]
    BY <2>1, <2>2 DEF TypeOK
  <2>4. /\ Len(work_queue'[c]) = l + 1 /\ work_queue'[c][l + 1] = x
        /\ \A i \in 1 .. l : work_queue'[c][i] = work_queue[c][i]
        /\ 1 .. l + 1 = (1 .. l) \cup {l + 1} /\ l + 1 \notin 1 .. l
    BY <2>2, <2>3
  <2>5. \A d \in Clients : \A i \in 1 .. Len(work_queue'[d]) :
            \/ d = c /\ i = l + 1 /\ work_queue'[d][i] = x
            \/ i \in 1 .. Len(work_queue[d]) /\ work_queue'[d][i] = work_queue[d][i]
    BY <2>3, <2>4
  <2>6. \A d \in Clients : \A i \in 1 .. Len(work_queue[d]) :
            work_queue[d][i] \in Queued /\ work_queue[d][i] # x
    BY <1>1, QueuedFacts
  <2>7. Queued' = Queued \cup {x}
    <3>1. \A d \in Clients : DOMAIN work_queue'[d] = 1 .. Len(work_queue'[d])
      BY <2>3
    <3>2. ASSUME NEW y \in Queued' PROVE y \in Queued \cup {x}
      <4>1. PICK d \in Clients : \E i \in DOMAIN work_queue'[d] : work_queue'[d][i] = y
        BY QueuedNext
      <4>2. PICK i \in 1 .. Len(work_queue'[d]) : work_queue'[d][i] = y
        BY <3>1, <4>1, Zenon
      <4> QED
        BY <2>5, <2>6, <4>2
    <3>3. ASSUME NEW d \in Clients, NEW i \in 1 .. Len(work_queue'[d])
          PROVE  work_queue'[d][i] \in Queued'
      <4>1. i \in DOMAIN work_queue'[d]
        BY <3>1, Zenon
      <4> QED
        BY <4>1, QueuedNext
    <3>4. x \in Queued'
      <4>1. l + 1 \in 1 .. Len(work_queue'[c])
        BY <2>4
      <4> QED
        BY <2>4, <3>3, <4>1
    <3>5. ASSUME NEW y \in Queued PROVE y \in Queued'
      <4>1. PICK d \in Clients : \E i \in 1 .. Len(work_queue[d]) : work_queue[d][i] = y
        BY QueuedFacts
      <4>2. PICK i \in 1 .. Len(work_queue[d]) : work_queue[d][i] = y
        BY <4>1
      <4>3. i \in 1 .. Len(work_queue'[d]) /\ work_queue'[d][i] = y
        BY <2>3, <2>4, <4>2
      <4> QED
        BY <3>3, <4>3
    <3> QED
      BY <3>2, <3>4, <3>5
  <2>8. ASSUME NEW d \in Clients, NEW e \in Clients, NEW i \in 1 .. Len(work_queue'[d]),
               NEW j \in 1 .. Len(work_queue'[e]), work_queue'[d][i] = work_queue'[e][j]
        PROVE  d = e /\ i = j
    <3>1. CASE d = c /\ i = l + 1
      BY <2>5, <2>6, <2>8, <3>1
    <3>2. CASE e = c /\ j = l + 1
      BY <2>5, <2>6, <2>8, <3>2
    <3>3. CASE ~(d = c /\ i = l + 1) /\ ~(e = c /\ j = l + 1)
      BY <2>5, <2>8, <3>3 DEF PlacesApart
    <3> QED
      BY <3>1, <3>2, <3>3
  <2> QED
    BY <2>1, <2>3, <2>7, <2>8
<1> QED
  BY <1>3, <1>4

\* One worker is woken, if one sleeps: as many are awake as works are queued.
LEMMA EnqueueKeeps == ASSUME PoolInv, NEW c \in Clients, Enqueue(c) PROVE PoolInv'
<1> USE DEF PoolInv
<1> PICK x : x = Latest(c)
  OBVIOUS
<1>1. /\ cpc[c] = "enqueue" /\ cpc' = [cpc EXCEPT ![c] = "push"]
      /\ work_queue_size' = work_queue_size + 1
      /\ UNCHANGED <<work, terminal, detached, worker_count, active_worker_count,
                     are_all_really_finished, signal_mutex, type, done, call, calls, piled,
                     crowded>>
  BY DEF Enqueue, In, own, past
<1>2. /\ cpc'[c] = "push" /\ \A d \in Clients \ {c} : cpc'[d] = cpc[d]
      /\ cpc' \in [Clients -> CallStates]
  BY <1>1 DEF CallsOK, CallStates
<1>3. /\ work_queue' \in [Clients -> Seq(Works)]
      /\ lost' \subseteq lost \cup {x}
      /\ \/ Queued' = Queued \cup {x} /\ lost' = lost
         \/ Queued' = Queued /\ lost' = lost \cup {x}
      /\ \A d, e \in Clients : \A i \in 1 .. Len(work_queue'[d]) :
            \A j \in 1 .. Len(work_queue'[e]) :
               work_queue'[d][i] = work_queue'[e][j] => d = e /\ i = j
  BY EnqueueMoves
<1>4. Pushing' = Pushing \ {c} /\ c \in Pushing /\ Counting' = Counting /\ Works' = Works
  BY <1>1, <1>2 DEF Pushing, Counting, Works
<1>5. /\ x \in Works \ (Queued \cup lost \cup done)
      /\ \A w \in Busy : work[w] # x
      /\ \A d \in Pushing \ {c} : Latest(d) # x
  BY <1>4 DEF PlacesApart
<1>6. /\ \A d \in Pushing : Latest(d)' = Latest(d)
      /\ \A d \in Pushing' : d \in Pushing /\ Latest(d)' = Latest(d) /\ Latest(d) # x
  <2>1. \A d \in Pushing : Latest(d)' = Latest(d)
    BY <1>1, LatestStays DEF Pushing
  <2> QED
    BY <1>4, <1>5, <2>1
<1>7. \/ At({"wait"}) = {} /\ wpc' = wpc
      \/ \E w \in At({"wait"}) : wpc' = [wpc EXCEPT ![w] = "woken"]
  BY DEF Enqueue
<1>8. /\ wpc' \in [Workers -> WorkerStates]
      /\ \A v \in Workers : wpc'[v] = wpc[v] \/ (wpc[v] = "wait" /\ wpc'[v] = "woken")
  BY <1>7 DEF TypeOK, WorkerStates, At
<1>9. /\ Busy' = Busy /\ At({"took"})' = At({"took"}) /\ At(Lasting)' = At(Lasting)
      /\ At(Active)' = At(Active) /\ At(Leaving)' = At(Leaving)
      /\ At({"exit", "gone", "terminated"})' = At({"exit", "gone", "terminated"})
      /\ At({"terminated"})' = At({"terminated"})
  BY <1>8 DEF Busy, At, Lasting, Active, Leaving
<1>10. Running' = Running
  BY <1>1, <1>9, AtFacts DEF Running, Lasting, At
<1>11. /\ Queued' \cup lost' = Queued \cup lost \cup {x}
       /\ Queued' \cap (lost' \cup done) = {} /\ lost' \cap done = {}
  BY <1>3, <1>5 DEF PlacesApart
<1>12. TypeOK'
  <2>1. done' \cup lost' \subseteq Works
    BY <1>1, <1>3, <1>5 DEF TypeOK
  <2>2. work_queue_size' \in Nat
    BY <1>1 DEF TypeOK
  <2> QED
    BY <1>1, <1>3, <1>4, <1>8, <2>1, <2>2 DEF TypeOK, WorkerStates
<1>13. CallsOK'
  BY <1>1, <1>2 DEF CallsOK
<1>14. \A d \in Clients : CallShape(d)'
  BY <1>1, <1>2, <1>4 DEF CallShape
<1>15. PlacesApart'
  <2>a. \A d, e \in Pushing' : Latest(d)' = Latest(e)' => d = e
    BY <1>6 DEF PlacesApart
  <2>b. \A d \in Pushing' : /\ Latest(d)' \in Works \ (Queued' \cup lost' \cup done)
                            /\ \A w \in Busy : work[w] # Latest(d)'
    BY <1>6, <1>11 DEF PlacesApart
  <2>2. \A w \in Busy : work[w] \in Works \ (Queued' \cup lost' \cup done)
    BY <1>5, <1>11 DEF PlacesApart
  <2>3. \A w, v \in Busy : work[w] = work[v] => w = v
    BY DEF PlacesApart
  <2>4. work' = work /\ done' = done
    BY <1>1
  <2> QED
    BY <1>3, <1>4, <1>9, <1>11, <2>a, <2>b, <2>2, <2>3, <2>4 DEF PlacesApart
<1>16. NoWorkMissing'
  <2>1. work' = work /\ done' = done
    BY <1>1
  <2> SUFFICES ASSUME NEW i \in Works \ (Queued' \cup lost' \cup done),
                      ~ \E w \in Busy : work[w] = i
               PROVE  \E d \in Pushing' : Latest(d)' = i
    BY <1>4, <1>9, <2>1 DEF NoWorkMissing
  <2>2. i \notin Queued \cup lost \cup done /\ i # x
    BY <1>11
  <2>3. PICK d \in Pushing : Latest(d) = i
    BY <2>2 DEF NoWorkMissing
  <2> QED
    BY <1>4, <1>6, <2>2, <2>3
<1>17. SizeExact'
  <2>1. Taken' = Taken
    BY <1>1, <1>9 DEF Taken
  <2>2. x \notin Taken
    BY <1>5 DEF Taken, Busy, At
  <2>3. Queued' \cup lost' \cup Taken' = (Queued \cup lost \cup Taken) \cup {x}
    BY <1>11, <2>1
  <2>4. x \notin Queued \cup lost \cup Taken
    BY <1>5, <2>2
  <2>5. Cardinality(Queued' \cup lost' \cup Taken') = work_queue_size + 1
    BY <2>3, <2>4, SizeFacts, OneMore DEF SizeExact
  <2> QED
    BY <1>1, <2>5 DEF SizeExact
<1>18. ActiveExact' /\ CountExact'
  BY <1>1, <1>4, <1>9 DEF ActiveExact, Active, CountExact
<1>19. TerminalLeave'
  BY <1>1, <1>9 DEF TerminalLeave
<1>20. EnoughAwake'
  <2>1. CASE At({"wait"}) = {} /\ wpc' = wpc
    BY <2>1 DEF EnoughAwake, At
  <2>2. CASE \E w \in At({"wait"}) : wpc' = [wpc EXCEPT ![w] = "woken"]
    <3> PICK w \in At({"wait"}) : wpc' = [wpc EXCEPT ![w] = "woken"]
      BY <2>2
    <3>1. /\ w \in Workers /\ wpc[w] = "wait" /\ wpc'[w] = "woken"
          /\ \A v \in Workers \ {w} : wpc'[v] = wpc[v]
      BY DEF At, TypeOK
    <3>2. w \notin terminal /\ w \in Running /\ w \notin Ready
      <4>1. w \notin terminal
        BY <3>1 DEF TerminalLeave, At, Leaving
      <4>2. w \in At(Lasting) /\ w \in At({"wait", "took", "run"})
        BY <3>1 DEF At, Lasting
      <4> QED
        BY <4>1, <4>2, AtFacts
    <3>3. At({"wait", "took", "run"})' = At({"wait", "took", "run"}) \ {w}
      BY <3>1 DEF At
    <3>4. Ready' = Ready \cup {w}
      <4>1. Ready' = Running' \ At({"wait", "took", "run"})'
        BY DEF Ready, Running, At
      <4> QED
        BY <1>10, <3>2, <3>3, <4>1, AtFacts
    <3>5. IsFiniteSet(Ready)
      BY AtFacts, WorkersFinite
    <3>6. Cardinality(Ready') = Cardinality(Ready) + 1 /\ Cardinality(Ready) \in Nat
      BY <3>2, <3>4, <3>5, OneMore
    <3>7. Cardinality(Queued') <= Cardinality(Queued) + 1 /\ Cardinality(Queued') \in Nat
      <4>1. IsFiniteSet(Queued) /\ Cardinality(Queued) \in Nat
        BY QueuedFacts
      <4>2. Cardinality(Queued \cup {x}) = Cardinality(Queued) + 1
        BY <1>5, <4>1, OneMore
      <4>3. CASE Queued' = Queued \cup {x}
        BY ONLY <4>1, <4>2, <4>3
      <4>4. CASE Queued' = Queued
        BY ONLY <4>1, <4>4
      <4> QED
        BY <1>3, <4>3, <4>4
    <3>8. Cardinality(Queued) <= Cardinality(Ready)
      BY DEF EnoughAwake
    <3>9. Cardinality(Queued) \in Nat
      BY QueuedFacts
    <3>10. Cardinality(Queued') <= Cardinality(Ready')
      BY ONLY <3>6, <3>7, <3>8, <3>9
    <3> QED
      BY <3>10 DEF EnoughAwake
  <2> QED
    BY <1>7, <2>1, <2>2
<1>21. ThreadsDetached'
  <2> SUFFICES ASSUME NEW w \in Workers, wpc'[w] # "none", w \notin detached
               PROVE  \E d \in Clients : cpc'[d] = "detach" /\ call[d].mine = {w}
    BY <1>1 DEF ThreadsDetached
  <2>1. wpc[w] # "none"
    BY <1>8
  <2>2. PICK d \in Clients : cpc[d] = "detach" /\ call[d].mine = {w}
    BY <2>1 DEF ThreadsDetached
  <2> QED
    BY <1>1, <1>2, <2>2
<1>22. Orderly'
  <2>1. Undone' = Undone
    BY <1>1, <1>4 DEF Undone
  <2>2. \A d \in Clients : Changing(d)' = Changing(d)
    BY <1>1 DEF Changing
  <2> QED
    BY <1>1, <1>2, <1>9, <2>1, <2>2 DEF Orderly, Terminated
<1>23. SetOnCourse'
  <2>1. Alone'
    BY <1>1, FrameAlone DEF SetOnCourse, Resizing
  <2> SUFFICES ASSUME NEW d \in Clients \ crowded, call[d].op = "set" PROVE OnCourse(d)'
    BY <1>1, <2>1 DEF SetOnCourse
  <2>2. OnCourse(d)
    BY DEF SetOnCourse
  <2> QED
    BY <1>1, <1>2, <1>9, <1>10, <2>2 DEF OnCourse
<1> QED
  BY <1>12, <1>13, <1>14, <1>15, <1>16, <1>17, <1>18, <1>19, <1>20, <1>21, <1>22, <1>23

\* A new worker runs before it is detached and counted.
LEMMA SpawnKeeps == ASSUME PoolInv, NEW c \in Clients, Spawn(c) PROVE PoolInv'
<1> USE DEF PoolInv
<1> PICK w \in At({"none"}) :
         /\ wpc' = [wpc EXCEPT ![w] = "top"]
         /\ call' = [call EXCEPT ![c].mine = {w}, ![c].n = @ - 1]
  BY DEF Spawn
<1>1. /\ cpc[c] = "spawn" /\ call[c].n > 0 /\ cpc' = [cpc EXCEPT ![c] = "detach"]
      /\ UNCHANGED <<own, pool, works, past>>
  BY DEF Spawn, In
<1>2. /\ UNCHANGED <<work, terminal, detached, type, done, lost, work_queue, worker_count,
                     active_worker_count, work_queue_size, are_all_really_finished,
                     signal_mutex, calls, piled, crowded>>
      /\ Queued' = Queued /\ Works' = Works /\ Undone' = Undone
  BY <1>1 DEF own, works, pool, counts, past, Queued, Works, Undone
<1>3. /\ w \in Workers /\ wpc[w] = "none" /\ wpc'[w] = "top" /\ wpc' \in [Workers -> WorkerStates]
      /\ \A v \in Workers \ {w} : wpc'[v] = wpc[v]
  BY DEF At, TypeOK, WorkerStates
<1>4. /\ At({"took"})' = At({"took"}) /\ Busy' = Busy /\ At({"wait"})' = At({"wait"})
      /\ At({"wait", "took", "run"})' = At({"wait", "took", "run"})
      /\ w \notin At({"wait", "took", "run"})
      /\ At(Lasting)' = At(Lasting) \cup {w} /\ w \notin At(Lasting)
      /\ At({"scan", "took", "run", "lock"})' = At({"scan", "took", "run", "lock"})
      /\ At({"exit", "gone", "terminated"})' = At({"exit", "gone", "terminated"})
      /\ At({"terminated"})' = At({"terminated"})
  <2>1. wpc'[w] \in WorkerStates
    BY <1>3 DEF WorkerStates
  <2> QED
    BY <1>3, <2>1, GoAt DEF Busy, Lasting, At
<1>5. w \notin terminal
  BY <1>3 DEF TerminalLeave, At, Leaving
<1>6. Running' = Running \cup {w} /\ w \notin Running /\ Ready' = Ready \cup {w}
  <2>1. Running' = At(Lasting)' \ terminal' /\ Ready' = Running' \ At({"wait", "took", "run"})'
    BY DEF Running, Lasting, At, Ready
  <2> QED
    BY <1>2, <1>4, <1>5, <2>1, AtFacts
<1>7. /\ call[c] \in CallRecords /\ call[c].op \in {"inc", "set"}
      /\ call[c].n \in Nat /\ call[c].want \in Nat
  BY <1>1 DEF CallsOK, CallShape, CallRecords
<1>8. /\ call'[c] = [call[c] EXCEPT !.mine = {w}, !.n = @ - 1] /\ cpc'[c] = "detach"
      /\ \A d \in Clients \ {c} : cpc'[d] = cpc[d] /\ call'[d] = call[d]
  BY <1>1 DEF CallsOK
<1>9. /\ call'[c].n = call[c].n - 1 /\ call'[c].mine = {w} /\ call'[c].op = call[c].op
      /\ call'[c].want = call[c].want /\ call'[c] \in CallRecords
  <2>1. call[c].n - 1 \in Nat /\ {w} \in SUBSET Nat
    BY <1>1, <1>3, <1>7 DEF Workers
  <2> QED
    BY ONLY <1>7, <1>8, <2>1 DEF CallRecords
<1>10. Pushing' = Pushing /\ Counting' = Counting \cup {c} /\ c \notin Counting
  BY <1>1, <1>8 DEF Pushing, Counting
<1>11. TypeOK'
  BY <1>2, <1>3 DEF TypeOK, WorkerStates
<1>12. CallsOK'
  <2>1. call' \in [Clients -> CallRecords] /\ cpc' \in [Clients -> CallStates]
    <3>1. DOMAIN call' = Clients
      BY DEF CallsOK
    <3>2. call' \in [Clients -> CallRecords]
      <4>1. call' = [call EXCEPT ![c] = [call[c] EXCEPT !.mine = {w}, !.n = @ - 1]]
        BY DEF CallsOK
      <4>2. [call[c] EXCEPT !.mine = {w}, !.n = @ - 1] \in CallRecords
        BY <1>8, <1>9
      <4> QED
        BY <4>1, <4>2 DEF CallsOK
    <3> QED
      BY <1>1, <3>2 DEF CallsOK, CallStates
  <2> QED
    BY <1>2, <2>1 DEF CallsOK
<1>13. \A d \in Clients : CallShape(d)'
  <2>1. CallShape(c)'
    BY <1>2, <1>3, <1>7, <1>8, <1>9 DEF CallShape
  <2>2. ASSUME NEW d \in Clients \ {c} PROVE CallShape(d)'
    BY <1>2, <1>8, FrameShape
  <2> QED
    BY <2>1, <2>2
<1>14. PlacesApart' /\ NoWorkMissing'
  <2>1. \A d \in Pushing : call'[d] = call[d]
    BY <1>1, <1>8 DEF Pushing
  <2> QED
    BY <1>2, <1>4, <1>10, <2>1, FramePlaces
<1>15. SizeExact' /\ ActiveExact'
  BY <1>2, <1>4, FrameSize DEF ActiveExact
<1>16. CountExact'
  <2>1. IsFiniteSet(At(Lasting)) /\ IsFiniteSet(Counting)
    BY AtFacts, WorkersFinite, PoolAssumption, FS_Subset DEF Counting
  <2>2. /\ Cardinality(At(Lasting)') = Cardinality(At(Lasting)) + 1
        /\ Cardinality(At(Lasting)) \in Nat
        /\ Cardinality(Counting') = Cardinality(Counting) + 1
        /\ Cardinality(Counting) \in Nat
    BY <1>4, <1>10, <2>1, OneMore
  <2>3. Cardinality(At(Lasting)') - Cardinality(Counting')
          = Cardinality(At(Lasting)) - Cardinality(Counting)
    BY ONLY <2>2
  <2> QED
    BY <1>2, <2>3 DEF CountExact
<1>17. TerminalLeave'
  BY <1>2, <1>3, <1>4, <1>5 DEF TerminalLeave, At
<1>18. EnoughAwake'
  <2>1. IsFiniteSet(Ready) /\ Cardinality(Ready) \in Nat
    BY AtFacts, WorkersFinite
  <2>2. w \notin Ready
    BY <1>6, AtFacts
  <2>3. Cardinality(Ready') = Cardinality(Ready) + 1
    BY <1>6, <2>1, <2>2, OneMore
  <2>4. Cardinality(Queued) \in Nat
    BY QueuedFacts
  <2>5. Cardinality(Queued) <= Cardinality(Ready) => Cardinality(Queued) <= Cardinality(Ready')
    BY ONLY <2>1, <2>3, <2>4
  <2> QED
    BY <1>2, <1>4, <2>5 DEF EnoughAwake
<1>19. ThreadsDetached'
  <2> SUFFICES ASSUME NEW v \in Workers \ {w}, wpc[v] # "none", v \notin detached
               PROVE  \E d \in Clients : cpc'[d] = "detach" /\ call'[d].mine = {v}
    BY <1>2, <1>3, <1>8, <1>9 DEF ThreadsDetached
  <2>1. PICK d \in Clients : cpc[d] = "detach" /\ call[d].mine = {v}
    BY DEF ThreadsDetached
  <2> QED
    BY <1>1, <1>8, <2>1
<1>20. Orderly'
  <2>1. \A d \in Clients : Changing(d)' = Changing(d)
    BY <1>8, <1>9 DEF Changing
  <2>2. {w} \cap terminal = {}
    BY <1>5
  <2> QED
    BY <1>1, <1>2, <1>4, <1>8, <1>9, <2>1, <2>2 DEF Orderly, Terminated
<1>21. SetOnCourse'
  <2>1. Alone'
    BY <1>2, <1>8, <1>9, FrameAlone DEF SetOnCourse, Resizing
  <2> SUFFICES ASSUME NEW d \in Clients \ crowded, call'[d].op = "set" PROVE OnCourse(d)'
    BY <1>2, <2>1 DEF SetOnCourse
  <2>2. OnCourse(d)
    BY <1>8, <1>9 DEF SetOnCourse
  <2>3. CASE d = c
    <3>1. Cardinality(Running) + call[c].n <= call[c].want
      BY <1>1, <2>2, <2>3 DEF OnCourse
    <3>2. IsFiniteSet(Running)
      BY AtFacts, WorkersFinite
    <3>3. Cardinality(Running') = Cardinality(Running) + 1 /\ Cardinality(Running) \in Nat
      BY <1>6, <3>2, OneMore
    <3>4. call'[c].n = call[c].n - 1 /\ call'[c].want = call[c].want /\ call[c].n \in Nat
      BY <1>7, <1>9
    <3>5. Cardinality(Running') + call'[c].n <= call'[c].want
      BY ONLY <1>7, <3>1, <3>3, <3>4
    <3> QED
      BY <1>8, <2>3, <3>5 DEF OnCourse
  <2>4. CASE d # c
    <3>1. Resizing(c) /\ Resizing(d)
      BY <1>7, <1>8, <2>4 DEF Resizing
    <3> QED
      BY <2>4, <3>1 DEF SetOnCourse, Alone
  <2> QED
    BY <2>3, <2>4
<1> QED
  BY <1>11, <1>12, <1>13, <1>14, <1>15, <1>16, <1>17, <1>18, <1>19, <1>20, <1>21

LEMMA DetachKeeps == ASSUME PoolInv, NEW c \in Clients, Detach(c) PROVE PoolInv'
<1> USE DEF PoolInv
<1>1. /\ cpc[c] = "detach" /\ cpc' = [cpc EXCEPT ![c] = "count"]
      /\ call' = [call EXCEPT ![c].mine = {}] /\ detached' = detached \cup call[c].mine
      /\ UNCHANGED <<wpc, work, terminal, pool, works, past>>
  BY DEF Detach, In
<1>2. /\ UNCHANGED <<type, done, lost, work_queue, worker_count, active_worker_count,
                     work_queue_size, are_all_really_finished, signal_mutex, calls, piled,
                     crowded>>
      /\ Queued' = Queued /\ Works' = Works /\ Undone' = Undone
  BY <1>1 DEF works, pool, counts, past, Queued, Works, Undone
<1>3. \A L : At(L)' = At(L)
  BY <1>1 DEF At
<1>4. Running' = Running /\ Ready' = Ready /\ Busy' = Busy /\ Terminated' = Terminated
  BY <1>1, <1>3 DEF Running, Ready, Busy, Terminated
<1>5. call[c] \in CallRecords /\ call[c].op \in {"inc", "set"}
  BY <1>1 DEF CallsOK, CallShape
<1>6. /\ call'[c] = [call[c] EXCEPT !.mine = {}] /\ cpc'[c] = "count"
      /\ \A d \in Clients \ {c} : cpc'[d] = cpc[d] /\ call'[d] = call[d]
  BY <1>1 DEF CallsOK
<1>7. /\ call'[c].n = call[c].n /\ call'[c].mine = {} /\ call'[c].op = call[c].op
      /\ call'[c].want = call[c].want /\ call'[c] \in CallRecords
  BY ONLY <1>5, <1>6 DEF CallRecords
<1>8. Pushing' = Pushing /\ Counting' = Counting
  BY <1>1, <1>6 DEF Pushing, Counting
<1>9. PICK w \in Workers : call[c].mine = {w}
  BY <1>1 DEF CallShape
<1>10. TypeOK'
  <2>1. detached' \cup terminal' \subseteq Workers
    BY <1>1, <1>9 DEF TypeOK
  <2> QED
    BY <1>1, <1>2, <2>1 DEF TypeOK
<1>11. CallsOK'
  <2>1. call' \in [Clients -> CallRecords]
    <3>1. call' = [call EXCEPT ![c] = [call[c] EXCEPT !.mine = {}]]
      BY <1>1 DEF CallsOK
    <3>2. [call[c] EXCEPT !.mine = {}] \in CallRecords
      BY <1>6, <1>7
    <3> QED
      BY <3>1, <3>2 DEF CallsOK
  <2>2. cpc' \in [Clients -> CallStates]
    BY <1>1 DEF CallsOK, CallStates
  <2> QED
    BY <1>2, <2>1, <2>2 DEF CallsOK
<1>12. \A d \in Clients : CallShape(d)'
  <2>1. CallShape(c)'
    BY <1>2, <1>5, <1>6, <1>7 DEF CallShape
  <2>2. ASSUME NEW d \in Clients \ {c} PROVE CallShape(d)'
    BY <1>2, <1>6, FrameShape
  <2> QED
    BY <2>1, <2>2
<1>13. PlacesApart' /\ NoWorkMissing'
  <2>1. \A d \in Pushing : call'[d] = call[d]
    BY <1>1, <1>6 DEF Pushing
  <2> QED
    BY <1>1, <1>2, <1>4, <1>8, <2>1, FramePlaces
<1>14. SizeExact' /\ ActiveExact' /\ CountExact'
  BY <1>1, <1>2, <1>3, <1>8, FrameSize DEF ActiveExact, CountExact
<1>15. TerminalLeave' /\ EnoughAwake'
  BY <1>1, <1>2, <1>3, <1>4 DEF TerminalLeave, EnoughAwake
<1>16. ThreadsDetached'
  <2> SUFFICES ASSUME NEW v \in Workers, wpc[v] # "none", v \notin detached, v # w
               PROVE  \E d \in Clients : cpc'[d] = "detach" /\ call'[d].mine = {v}
    BY <1>1, <1>9 DEF ThreadsDetached
  <2>1. PICK d \in Clients : cpc[d] = "detach" /\ call[d].mine = {v}
    BY DEF ThreadsDetached
  <2>2. d # c
    BY <1>9, <2>1
  <2> QED
    BY <1>6, <2>1, <2>2
<1>17. Orderly'
  <2>1. \A d \in Clients : Changing(d)' = Changing(d)
    BY <1>6, <1>7 DEF Changing
  <2> QED
    BY <1>1, <1>2, <1>4, <1>6, <1>7, <2>1 DEF Orderly
<1>18. SetOnCourse'
  <2>1. Alone'
    BY <1>2, <1>6, <1>7, FrameAlone DEF SetOnCourse, Resizing
  <2>2. \A d \in Clients \ crowded' : d # c /\ call'[d].op = "set" => OnCourse(d)'
    <3>1. done' = done
      BY <1>1 DEF works
    <3> QED
      BY <1>2, <1>3, <1>4, <1>6, <3>1, OthersOnCourse
  <2>3. c \notin crowded /\ call[c].op = "set" => OnCourse(c)'
    BY <1>1, <1>4, <1>6, <1>7 DEF SetOnCourse, OnCourse
  <2> QED
    BY <1>2, <1>7, <2>1, <2>2, <2>3 DEF SetOnCourse
<1> QED
  BY <1>10, <1>11, <1>12, <1>13, <1>14, <1>15, <1>16, <1>17, <1>18

LEMMA CountWorkerKeeps == ASSUME PoolInv, NEW c \in Clients, CountWorker(c) PROVE PoolInv'
<1> USE DEF PoolInv
<1>1. /\ cpc[c] = "count" /\ cpc' = [cpc EXCEPT ![c] = "spawn"]
      /\ worker_count' = (worker_count + 1) % Width
      /\ UNCHANGED <<wpc, own, active_worker_count, work_queue_size, are_all_really_finished,
                     signal_mutex, works, call, past>>
  BY DEF CountWorker, In
<1>2. /\ UNCHANGED <<work, terminal, detached, type, done, lost, work_queue, calls, piled, crowded>>
      /\ Queued' = Queued /\ Works' = Works /\ Undone' = Undone
  BY <1>1 DEF own, works, past, Queued, Works, Undone
<1>3. \A L : At(L)' = At(L)
  BY <1>1 DEF At
<1>4. Running' = Running /\ Ready' = Ready /\ Busy' = Busy /\ Terminated' = Terminated
  BY <1>1, <1>2, <1>3 DEF Running, Ready, Busy, Terminated
<1>5. /\ cpc'[c] = "spawn" /\ \A d \in Clients \ {c} : cpc'[d] = cpc[d]
      /\ cpc' \in [Clients -> CallStates] /\ call[c].op \in {"inc", "set"}
  BY <1>1 DEF CallsOK, CallStates, CallShape
<1>6. Pushing' = Pushing /\ Counting' = Counting \ {c} /\ c \in Counting
  BY <1>1, <1>5 DEF Pushing, Counting
<1>7. worker_count \in Nat /\ worker_count' \in 0 .. Width - 1
  <2>1. worker_count \in 0 .. Width - 1
    BY DEF TypeOK
  <2> QED
    BY <1>1, <2>1 DEF Width
<1>8. TypeOK'
  BY <1>1, <1>2, <1>7 DEF TypeOK
<1>9. CallsOK'
  BY <1>1, <1>2, <1>5 DEF CallsOK
<1>10. \A d \in Clients : CallShape(d)'
  <2>1. CallShape(c)'
    BY <1>1, <1>2, <1>5 DEF CallShape
  <2>2. ASSUME NEW d \in Clients \ {c} PROVE CallShape(d)'
    BY <1>1, <1>2, <1>5, FrameShape
  <2> QED
    BY <2>1, <2>2
<1>11. PlacesApart' /\ NoWorkMissing'
  BY <1>1, <1>2, <1>4, <1>6, FramePlaces
<1>12. SizeExact' /\ ActiveExact'
  BY <1>1, <1>2, <1>3, FrameSize DEF ActiveExact
<1>13. CountExact'
  <2>1. IsFiniteSet(Counting)
    BY PoolAssumption, FS_Subset DEF Counting
  <2>2. /\ Cardinality(Counting') = Cardinality(Counting) - 1
        /\ Cardinality(Counting) \in Nat
    BY <1>6, <2>1, OneLess
  <2>3. Cardinality(At(Lasting)) \in Nat
    BY AtFacts, WorkersFinite
  <2>4. worker_count = (Cardinality(At(Lasting)) - Cardinality(Counting)) % Width
    BY DEF CountExact
  <2>5. worker_count' = (Cardinality(At(Lasting)) - (Cardinality(Counting) - 1)) % Width
    BY ONLY <1>1, <2>2, <2>3, <2>4 DEF Width
  <2> QED
    BY <1>3, <2>2, <2>5 DEF CountExact
<1>14. TerminalLeave' /\ EnoughAwake'
  BY <1>2, <1>3, <1>4 DEF TerminalLeave, EnoughAwake
<1>15. ThreadsDetached'
  <2> SUFFICES ASSUME NEW v \in Workers, wpc[v] # "none", v \notin detached
               PROVE  \E d \in Clients : cpc'[d] = "detach" /\ call[d].mine = {v}
    BY <1>1, <1>2 DEF ThreadsDetached
  <2>1. PICK d \in Clients : cpc[d] = "detach" /\ call[d].mine = {v}
    BY DEF ThreadsDetached
  <2> QED
    BY <1>1, <1>5, <2>1
<1>16. Orderly'
  <2>1. \A d \in Clients : Changing(d)' = Changing(d)
    BY <1>1 DEF Changing
  <2> QED
    BY <1>1, <1>2, <1>4, <1>5, <2>1 DEF Orderly
<1>17. SetOnCourse'
  <2>1. Alone'
    BY <1>1, <1>2, FrameAlone DEF SetOnCourse, Resizing
  <2> SUFFICES ASSUME NEW d \in Clients \ crowded, call[d].op = "set" PROVE OnCourse(d)'
    BY <1>1, <1>2, <2>1 DEF SetOnCourse
  <2>2. OnCourse(d)
    BY DEF SetOnCourse
  <2> QED
    BY <1>1, <1>2, <1>3, <1>4, <1>5, <2>2 DEF OnCourse
<1> QED
  BY <1>8, <1>9, <1>10, <1>11, <1>12, <1>13, <1>14, <1>15, <1>16, <1>17

-----------------------------------------------------------------------------
(* The invariant, and what follows from it.                                *)

LEMMA InitPoolInv == Init => PoolInv
<1> SUFFICES ASSUME Init PROVE PoolInv
  OBVIOUS
<1>1. /\ \A w \in Workers : wpc[w] = IF w <= Started THEN "top" ELSE "none"
      /\ \A w \in Workers : wpc[w] \in {"top", "none"}
      /\ wpc \in [Workers -> WorkerStates] /\ detached = 1 .. Started
      /\ \A w \in Workers : wpc[w] = "top" <=> w \in 1 .. Started
      /\ 1 .. Started \subseteq Workers
  BY WorkersFinite DEF Init, WorkerStates, Workers
<1>2. Works = {} /\ Queued = {} /\ Len(type) = 0
  <2>1. Works = {} /\ Len(type) = 0
    BY DEF Init, Works
  <2>2. \A c \in Clients : DOMAIN work_queue[c] = {}
    BY DEF Init
  <2> QED
    BY <2>1, <2>2, QueuedIs
<1>3. Started \in Nat /\ Started < Width
  BY WorkersFinite DEF Width
<1>4. TypeOK
  <2>1. work_queue \in [Clients -> Seq(Works)] /\ work \in [Workers -> 0 .. Len(type)]
    BY <1>2 DEF Init
  <2> QED
    BY <1>1, <1>2, <1>3, <2>1 DEF Init, TypeOK, WorkerStates, Width
<1>5. CallsOK
  <2>1. NoCall \in CallRecords
    BY DEF NoCall, CallRecords
  <2>2. call \in [Clients -> CallRecords]
    BY <2>1 DEF Init
  <2>3. cpc \in [Clients -> CallStates]
    BY DEF Init, CallStates
  <2>4. type \in Seq({STD, TERMINAL})
    BY DEF Init
  <2>5. calls \in Nat /\ piled \in BOOLEAN /\ crowded \subseteq Clients
    BY PoolAssumption DEF Init
  <2> QED
    BY ONLY <2>2, <2>3, <2>4, <2>5 DEF CallsOK
<1>6. \A c \in Clients : CallShape(c)
  BY DEF Init, CallShape, NoCall
<1>7. /\ Busy = {} /\ Pushing = {} /\ Counting = {} /\ At({"took"}) = {} /\ At({"wait"}) = {}
      /\ At({"exit", "gone", "terminated"}) = {} /\ At({"terminated"}) = {}
      /\ At({"scan", "took", "run", "lock"}) = {} /\ At(Lasting) = 1 .. Started
  BY <1>1 DEF Init, Busy, Pushing, Counting, At, Lasting
<1>8. PlacesApart /\ NoWorkMissing
  BY <1>2, <1>7 DEF Init, PlacesApart, NoWorkMissing
<1>9. SizeExact /\ ActiveExact
  <2>1. Queued \cup lost \cup Taken = {}
    BY <1>2, <1>7 DEF Init, Taken
  <2> QED
    BY <1>7, <2>1, FS_EmptySet DEF Init, SizeExact, ActiveExact
<1>10. CountExact
  <2>1. Cardinality(1 .. Started) = Started /\ Cardinality({}) = 0
    BY <1>3, FS_Interval, FS_EmptySet
  <2>2. (Started - 0) % Width = Started
    BY <1>3 DEF Width
  <2> QED
    BY <1>7, <2>1, <2>2 DEF Init, CountExact
<1>11. TerminalLeave /\ EnoughAwake /\ ThreadsDetached
  BY <1>1, <1>7 DEF Init, TerminalLeave, EnoughAwake, ThreadsDetached
<1>12. Orderly /\ SetOnCourse
  BY <1>2, <1>7 DEF Init, Orderly, SetOnCourse, Alone, Changing, Resizing, Undone, NoCall, Terminated
<1> QED
  BY <1>4, <1>5, <1>6, <1>8, <1>9, <1>10, <1>11, <1>12 DEF PoolInv

LEMMA StillPoolInv == PoolInv /\ UNCHANGED vars => PoolInv'
<1> SUFFICES ASSUME PoolInv, UNCHANGED vars PROVE PoolInv'
  OBVIOUS
<1>1. /\ UNCHANGED <<wpc, own, pool, works, cpc, call, calls, piled, crowded>>
      /\ UNCHANGED <<type, done, lost, work_queue, work, terminal>>
  BY DEF vars, client, past, works, own
<1>2. \A L : At(L)' = At(L)
  BY <1>1 DEF At
<1>3. /\ Works' = Works /\ Undone' = Undone /\ Queued' = Queued
      /\ Pushing' = Pushing /\ Counting' = Counting /\ Busy' = Busy
      /\ Running' = Running /\ Ready' = Ready /\ Terminated' = Terminated
  BY <1>1, <1>2 DEF Works, Undone, Queued, Pushing, Counting, Busy, Running, Ready, Terminated
<1>4. TypeOK'
  BY <1>1, <1>3 DEF PoolInv, TypeOK, own, pool, counts
<1>5. CallsOK' /\ \A c \in Clients : CallShape(c)'
  BY <1>1, FrameCalls DEF PoolInv
<1>6. PlacesApart' /\ NoWorkMissing'
  BY <1>1, <1>3, FramePlaces DEF PoolInv
<1>7. SizeExact' /\ ActiveExact' /\ CountExact'
  BY <1>1, <1>2, <1>3, FrameSize DEF PoolInv, ActiveExact, CountExact, pool, counts
<1>8. TerminalLeave' /\ EnoughAwake' /\ ThreadsDetached'
  BY <1>1, <1>2, <1>3 DEF PoolInv, TerminalLeave, EnoughAwake, ThreadsDetached, own
<1>9. Orderly' /\ SetOnCourse'
  BY <1>1, <1>2, <1>3, FrameOrderly, FrameSet DEF PoolInv
<1> QED
  BY <1>4, <1>5, <1>6, <1>7, <1>8, <1>9 DEF PoolInv

LEMMA StepPoolInv == PoolInv /\ [Next]_vars => PoolInv'
<1> SUFFICES ASSUME PoolInv, [Next]_vars PROVE PoolInv'
  OBVIOUS
<1>1. ASSUME NEW w \in Workers, Worker(w) PROVE PoolInv'
  BY <1>1, EnterKeeps, TakeKeeps, TakeNothingKeeps, CountTakenKeeps, RunKeeps,
     LockSignalKeeps, CheckKeeps, LeaveKeeps, WakeKeeps, ExitKeeps DEF Worker
<1>2. ASSUME NEW c \in Clients, Client(c) PROVE PoolInv'
  BY <1>2, SetCountKeeps, LimitKeeps, PostWorkKeeps, EnqueueKeeps, SpawnKeeps, DetachKeeps,
     CountWorkerKeeps, ReturnKeeps DEF Client
<1> QED
  BY <1>1, <1>2, CallsKeep, StillPoolInv DEF Next

LEMMA PoolInvAlways == Spec => []PoolInv
BY InitPoolInv, StepPoolInv, PTL DEF Spec

\* The variables have their types: no counter is ever decremented below zero.
THEOREM TypeCorrect == Spec => []TypeOK
BY PoolInvAlways, PTL DEF PoolInv

\* While a work is queued or being run, the queue size or the number of active workers is
\* above zero, which Worker::execute rests on when it decides that all works are finished.
THEOREM WorkAlwaysCounted == Spec => []WorkIsCounted
<1>1. PoolInv => WorkIsCounted
  <2> SUFFICES ASSUME PoolInv, NEW i \in Works \ (done \cup lost),
                      i \notin {Latest(c) : c \in {d \in Clients : cpc[d] = "enqueue"}}
               PROVE  work_queue_size > 0 \/ active_worker_count > 0
    BY DEF WorkIsCounted
  <2> USE DEF PoolInv
  <2>1. work_queue_size \in Nat /\ active_worker_count \in Nat
    BY DEF TypeOK
  <2>2. CASE i \in Queued
    BY <2>1, <2>2, SizeFacts
  <2>3. CASE i \notin Queued
    <3>1. PICK w \in Busy : work[w] = i
      BY <2>3 DEF NoWorkMissing, Pushing
    <3>2. w \in At({"scan", "took", "run", "lock"})
      BY DEF Busy, At
    <3>3. active_worker_count # 0
      BY <3>2, AtFacts, WorkersFinite, FS_EmptySet DEF ActiveExact
    <3> QED
      BY <2>1, <3>3
  <2> QED
    BY <2>2, <2>3
<1> QED
  BY <1>1, PoolInvAlways, PTL

\* No wake-up is lost: while works are queued and a worker is left to run them, one of them
\* is not asleep, although push wakes one worker only and one that leaves wakes none.
THEOREM WorkNotForgotten == Spec => []NoWorkForgotten
<1>1. PoolInv => NoWorkForgotten
  <2> SUFFICES ASSUME PoolInv, Queued # {}, Running # {},
                      \A w \in Running : wpc[w] = "wait"
               PROVE  FALSE
    BY DEF NoWorkForgotten
  <2> USE DEF PoolInv
  <2>1. At({"wait"}) # {}
    BY DEF Running, At
  <2>2. Ready = {}
    BY DEF Ready
  <2>3. Cardinality(Queued) <= 0 /\ Cardinality(Queued) \in Nat /\ IsFiniteSet(Queued)
    BY <2>1, <2>2, QueuedFacts, FS_EmptySet DEF EnoughAwake
  <2> QED
    BY <2>3, FS_EmptySet
<1> QED
  BY <1>1, PoolInvAlways, PTL

\* A worker is never destroyed before its constructor has detached its thread, unless
\* termination requests had piled up.
THEOREM NewWorkersSurvive == Spec => []NewWorkerSurvives
<1>1. PoolInv => NewWorkerSurvives
  BY DEF PoolInv, Orderly, NewWorkerSurvives
<1> QED
  BY <1>1, PoolInvAlways, PTL

\* When setWorkerCount(n, SYNC) returns, n workers or fewer are left to run works, whatever
\* its three readings of the count were, if no other client's change of the number of
\* workers ran beside it.
THEOREM SetWorkerCountBounds == Spec => SetLeavesAtMost
<1>1. ASSUME PoolInv, [Next]_vars, NEW c \in Clients \ crowded, cpc[c] # "idle",
             cpc'[c] = "idle", call[c].op = "set", call[c].method = SYNC
      PROVE  Cardinality(Running) <= call[c].want
  <2> USE DEF PoolInv
  <2>1. OnCourse(c)
    BY <1>1 DEF SetOnCourse
  <2>2. Return(c)
    <3>1. cpc' # cpc
      BY <1>1
    <3>2. ~ \E w \in Workers : Worker(w)
      BY <3>1 DEF Worker, Enter, Take, TakeNothing, CountTaken, Run, LockSignal, CheckSize,
                  Finish, Leave, Wake, Exit, client, pool
    <3>3. PICK d \in Clients : Client(d) \/ Calls(d)
      BY <1>1, <3>1, <3>2 DEF Next, vars, client
    <3>4. d = c
      BY <1>1, <3>3 DEF Client, Calls, SetCount, Limit, PostWork, Enqueue, Spawn, Detach, CountWorker,
                        Return, BeginPost, BeginWaitAll, BeginInc, BeginDec, BeginSet, Begin,
                        Destroy, CallsOK
    <3> QED
      BY <1>1, <3>3, <3>4
      DEF Client, Calls, SetCount, Limit, PostWork, Enqueue, Spawn, Detach, CountWorker, BeginPost,
          BeginWaitAll, BeginInc, BeginDec, BeginSet, Begin, Destroy, CallsOK, In
  <2>3. Cardinality(Running) \in Nat /\ call[c].want \in Nat /\ call[c].n \in Nat
    <3>1. Cardinality(Running) \in Nat
      BY AtFacts, WorkersFinite
    <3>2. call[c] \in CallRecords
      BY <1>1 DEF CallsOK
    <3>3. call[c].want \in Nat /\ call[c].n \in Nat
      BY ONLY <3>2 DEF CallRecords
    <3> QED
      BY ONLY <3>1, <3>3
  <2>4. CASE cpc[c] = "spawn"
    BY <2>1, <2>2, <2>3, <2>4 DEF OnCourse, Return, In
  <2>5. CASE cpc[c] = "push"
    <3>1. call[c].n = 0 /\ call[c].mine \ done = {}
      BY <1>1, <2>2, <2>5 DEF Return, In
    <3>2. Cardinality(call[c].mine \ done) = 0
      BY <3>1, FS_EmptySet
    <3>3. Cardinality(Running)
            <= call[c].want + call[c].n + Cardinality(call[c].mine \ done)
      BY ONLY <2>1, <2>5 DEF OnCourse
    <3> QED
      BY ONLY <2>3, <3>1, <3>2, <3>3
  <2>6. cpc[c] # "waitAll"
    BY <1>1 DEF CallShape
  <2> QED
    BY <2>2, <2>4, <2>5, <2>6 DEF Return, In
<1>2. PoolInv /\ [Next]_vars =>
        [\A c \in Clients \ crowded :
           cpc[c] # "idle" /\ cpc'[c] = "idle" /\ call[c].op = "set" /\ call[c].method = SYNC
           => Cardinality(Running) <= call[c].want]_vars
  BY <1>1
<1> QED
  BY <1>2, PoolInvAlways, PTL DEF Spec, SetLeavesAtMost

=============================================================================
