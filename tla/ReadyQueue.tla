----------------------------- MODULE ReadyQueue -----------------------------
(***************************************************************************)
(* 10_9 "Multiple Threads FIFO": the main thread creates N workers; each   *)
(* worker, when it is ready, puts its id into a ring buffer shared by all  *)
(* and then waits for a proceed flag of its own; the main thread takes the *)
(* ids out in order, sets the flag of each, and at last collects every     *)
(* worker with pthread_tryjoin_np and destroys its mutex and condition     *)
(* variables.                                                              *)
(*                                                                         *)
(* A pc value names the call the thread makes next.  Between two steps of  *)
(* a thread any other thread may run: every pthread call, and the code     *)
(* between two of them, is a step of its own.                              *)
(*                                                                         *)
(* The definitions PopsNext, PopsNewest, PushUnlocked, WakeUpUntested,     *)
(* WaitsForAll, JoinsRunning and AllAndOneCollected are wrong variants of  *)
(* the definitions they precede, for mutation testing.                     *)
(***************************************************************************)
EXTENDS Naturals, FiniteSets, Pthreads

CONSTANTS N,           \* COUNT_OF_THREADS
          Main,        \* the main thread, as the owner of a mutex
          GSync        \* mutex_g_sync, and cond_g_to_main that is used with it

Workers == 0 .. (N - 1)                  \* a worker is its thread_data_t.id
QueueSize == N + 1                       \* READY_QUEUE_SIZE
Threads == Workers \cup {Main}
Mutexes == Workers \cup {GSync}          \* w stands for t_data[w].mutex

ASSUME ConstantsAssumption ==
    /\ N \in Nat \ {0}
    /\ Main \notin Workers
    /\ GSync \notin Workers
    /\ NoThread \notin Threads

VARIABLES mpc, wpc,                \* control state: main thread, each worker
          i,                       \* the index of main's for loops
          id,                      \* main's local id, set by ready_queue_pop
          count_of_ready_threads,
          finished_threads,
          joined,                  \* [w -> t[w] == 0]
          ready_queue, rq_head, rq_tail,
          ready, to_proceed,       \* the flags of t_data
          live                     \* the w whose mutex and condition variables
                                   \* are initialised and not destroyed

sync == <<owner, waiters>>
queue == <<ready_queue, rq_head, rq_tail>>
locals == <<i, id, count_of_ready_threads, finished_threads>>
flags == <<ready, to_proceed>>
vars == <<mpc, wpc, sync, queue, locals, flags, joined, live>>

Init ==
    /\ mpc = "create"
    /\ wpc = [w \in Workers |-> "none"]
    /\ owner = [m \in Mutexes |-> NoThread]
    /\ waiters = [m \in Mutexes |-> {}]
    /\ ready_queue = [s \in 0 .. (QueueSize - 1) |-> 0]
    /\ rq_head = 0 /\ rq_tail = 0
    /\ i = 0 /\ id = 0
    /\ count_of_ready_threads = 0
    /\ finished_threads = 0
    /\ joined = [w \in Workers |-> FALSE]
    /\ ready = [w \in Workers |-> FALSE]
    /\ to_proceed = [w \in Workers |-> FALSE]
    /\ live = {}

WorkerGoto(w, from, to) ==
    /\ wpc[w] = from
    /\ wpc' = [wpc EXCEPT ![w] = to]
    /\ mpc # "failed"              \* exit() ends every thread
    /\ UNCHANGED mpc

MainGoto(from, to) ==
    /\ mpc = from
    /\ mpc' = to

-----------------------------------------------------------------------------
(* ready_queue_push and ready_queue_pop                                    *)

NextSlot(s) == (s + 1) % QueueSize

ready_queue_push(w) ==
    IF NextSlot(rq_tail) = rq_head
    THEN UNCHANGED queue           \* "ready queue overflow": the id is dropped
    ELSE /\ ready_queue' = [ready_queue EXCEPT ![rq_tail] = w]
         /\ rq_tail' = NextSlot(rq_tail)
         /\ UNCHANGED rq_head

QueueEmpty == rq_head = rq_tail

PopsNext ==
    /\ ~QueueEmpty
    /\ id' = ready_queue[NextSlot(rq_head)]
    /\ rq_head' = NextSlot(rq_head)
    /\ UNCHANGED <<ready_queue, rq_tail>>

PopsNewest ==
    /\ ~QueueEmpty
    /\ id' = ready_queue[rq_tail - 1]
    /\ rq_tail' = rq_tail - 1
    /\ UNCHANGED <<ready_queue, rq_head>>

ready_queue_pop ==
    /\ ~QueueEmpty
    /\ id' = ready_queue[rq_head]
    /\ rq_head' = NextSlot(rq_head)
    /\ UNCHANGED <<ready_queue, rq_tail>>

-----------------------------------------------------------------------------
(* thread_handler                                                          *)

PushUnlocked(w) == WorkerGoto(w, "lock_g", "push") /\ UNCHANGED owner
LockForPush(w) == WorkerGoto(w, "lock_g", "push") /\ Lock(w, GSync)

(* pthread_cond_wait returns: the flag is tested again.                    *)
WakeUpUntested(w) == WorkerGoto(w, "blocked", "unlock2") /\ CondResume(w, w, w)
WakeUp(w) == WorkerGoto(w, "blocked", "test") /\ CondResume(w, w, w)

WorkerLock(w) ==
    /\ \/ WorkerGoto(w, "lock1", "ready") /\ Lock(w, w)
       \/ LockForPush(w)
       \/ WorkerGoto(w, "lock2", "test") /\ Lock(w, w)
       \/ WakeUp(w)
    /\ UNCHANGED <<waiters, queue, locals, flags, joined, live>>

WorkerUnlock(w) ==
    /\ \/ WorkerGoto(w, "unlock1", "lock_g") /\ Unlock(w)
       \/ WorkerGoto(w, "unlock_g", "lock2") /\ Unlock(GSync)
       \/ WorkerGoto(w, "unlock2", "exiting") /\ Unlock(w)
    /\ UNCHANGED <<waiters, queue, locals, flags, joined, live>>

(* ready = 1; nobody ever waits on cond_from_t, so its signal is lost.     *)
WorkerReady(w) ==
    /\ WorkerGoto(w, "ready", "unlock1")
    /\ ready' = [ready EXCEPT ![w] = TRUE]
    /\ UNCHANGED <<sync, queue, locals, to_proceed, joined, live>>

WorkerPush(w) ==
    /\ WorkerGoto(w, "push", "signal_g")
    /\ ready_queue_push(w)
    /\ UNCHANGED <<sync, locals, flags, joined, live>>

WorkerSignal(w) ==
    /\ WorkerGoto(w, "signal_g", "unlock_g")
    /\ CondSignal(GSync)
    /\ UNCHANGED <<owner, queue, locals, flags, joined, live>>

(* while (to_proceed != 1) pthread_cond_wait(cond_to_t, mutex)             *)
WorkerTest(w) ==
    /\ WorkerGoto(w, "test", IF to_proceed[w] THEN "unlock2" ELSE "wait")
    /\ UNCHANGED <<sync, queue, locals, flags, joined, live>>

WorkerWait(w) ==
    /\ WorkerGoto(w, "wait", "blocked")
    /\ CondWait(w, w, w)
    /\ UNCHANGED <<queue, locals, flags, joined, live>>

WorkerExit(w) ==
    /\ WorkerGoto(w, "exiting", "done")
    /\ UNCHANGED <<sync, queue, locals, flags, joined, live>>

-----------------------------------------------------------------------------
(* main                                                                    *)

CreateThread ==
    /\ MainGoto("create", IF i + 1 = N THEN "loop" ELSE "create")
    /\ live' = live \cup {i}
    /\ ready' = [ready EXCEPT ![i] = FALSE]
    /\ to_proceed' = [to_proceed EXCEPT ![i] = FALSE]
    /\ wpc' = [wpc EXCEPT ![i] = "lock1"]
    /\ i' = IF i + 1 = N THEN 0 ELSE i + 1
    /\ UNCHANGED <<sync, queue, id, count_of_ready_threads, finished_threads,
                   joined>>

(* An init or pthread_create fails.  CHECK_ERR names its argument twice,   *)
(* so the call is made again to be passed to strerror, and the thread may  *)
(* be created after all, while main is on its way to exit().               *)
CreateFails ==
    /\ MainGoto("create", "failing")
    /\ \/ /\ live' = live \cup {i}
          /\ wpc' = [wpc EXCEPT ![i] = "lock1"]
       \/ UNCHANGED <<wpc, live>>
    /\ UNCHANGED <<sync, queue, locals, flags, joined>>

ExitFailure ==
    /\ MainGoto("failing", "failed")
    /\ UNCHANGED <<wpc, sync, queue, locals, flags, joined, live>>

MainLock ==
    /\ \/ /\ count_of_ready_threads < N
          /\ MainGoto("loop", "test_g")
          /\ Lock(Main, GSync)
       \/ MainGoto("blocked_g", "test_g") /\ CondResume(Main, GSync, GSync)
       \/ MainGoto("lock_t", "release") /\ Lock(Main, id)
       \/ MainGoto("relock_g", "pop") /\ Lock(Main, GSync)
    /\ UNCHANGED <<wpc, waiters, queue, locals, flags, joined, live>>

UnlockToRelease == MainGoto("unlock_pop", "lock_t") /\ Unlock(GSync)

MainUnlock ==
    /\ \/ UnlockToRelease
       \/ MainGoto("unlock_t", "relock_g") /\ Unlock(id)
       \/ MainGoto("unlock_g", "loop") /\ Unlock(GSync)
    /\ UNCHANGED <<wpc, waiters, queue, locals, flags, joined, live>>

WaitsForAll ==
    /\ MainGoto("test_g", IF rq_tail < N THEN "wait_g" ELSE "pop")
    /\ UNCHANGED <<wpc, sync, queue, locals, flags, joined, live>>

(* while (rq_head == rq_tail) pthread_cond_wait(cond_g_to_main, ...)       *)
MainTest ==
    /\ MainGoto("test_g", IF QueueEmpty THEN "wait_g" ELSE "pop")
    /\ UNCHANGED <<wpc, sync, queue, locals, flags, joined, live>>

MainWait ==
    /\ MainGoto("wait_g", "blocked_g")
    /\ CondWait(Main, GSync, GSync)
    /\ UNCHANGED <<wpc, queue, locals, flags, joined, live>>

(* while (ready_queue_pop(&id) != 0)                                       *)
MainPop ==
    /\ \/ /\ MainGoto("pop", "unlock_pop")
          /\ ready_queue_pop
       \/ /\ QueueEmpty
          /\ MainGoto("pop", "unlock_g")
          /\ UNCHANGED <<queue, id>>
    /\ UNCHANGED <<wpc, sync, i, count_of_ready_threads, finished_threads,
                   flags, joined, live>>

(* if (!to_proceed) { ...; otherwise the signal is skipped too.            *)
MainRelease ==
    /\ MainGoto("release", IF to_proceed[id] THEN "unlock_t" ELSE "signal_t")
    /\ count_of_ready_threads' = IF to_proceed[id] THEN count_of_ready_threads
                                 ELSE count_of_ready_threads + 1
    /\ to_proceed' = [to_proceed EXCEPT ![id] = TRUE]
    /\ UNCHANGED <<wpc, sync, queue, i, id, finished_threads, ready, joined,
                   live>>

MainSignal ==
    /\ MainGoto("signal_t", "unlock_t")
    /\ CondSignal(id)
    /\ UNCHANGED <<wpc, owner, queue, locals, flags, joined, live>>

AllReleased == count_of_ready_threads >= N

LeaveLoop ==
    /\ AllReleased
    /\ MainGoto("loop", "poll")
    /\ UNCHANGED <<wpc, sync, queue, locals, flags, joined, live>>

(* Whether pthread_tryjoin_np returns 0 for worker i, and the test of t[i].*)
JoinsRunning == ~joined[i]
CanJoin == ~joined[i] /\ wpc[i] = "done"

(* One turn of the for loop: skip a worker collected before or still       *)
(* running (EBUSY), or collect one that has finished.                      *)
PollWorker ==
    /\ i < N
    /\ \/ /\ ~CanJoin
          /\ MainGoto("poll", "poll")
          /\ i' = i + 1
          /\ UNCHANGED <<joined, finished_threads>>
       \/ /\ CanJoin
          /\ MainGoto("poll", "destroy")
          /\ joined' = [joined EXCEPT ![i] = TRUE]
          /\ finished_threads' = finished_threads + 1
          /\ UNCHANGED i
    /\ UNCHANGED <<wpc, sync, queue, id, count_of_ready_threads, flags, live>>

DestroySync ==
    /\ MainGoto("destroy", "poll")
    /\ live' = live \ {i}
    /\ i' = i + 1
    /\ UNCHANGED <<wpc, sync, queue, id, count_of_ready_threads,
                   finished_threads, flags, joined>>

AllAndOneCollected == finished_threads > N
AllCollected == finished_threads >= N

(* usleep, and the test of the outer while.                                *)
EndOfRound ==
    /\ i = N
    /\ MainGoto("poll", IF AllCollected THEN "done" ELSE "poll")
    /\ i' = 0
    /\ UNCHANGED <<wpc, sync, queue, id, count_of_ready_threads,
                   finished_threads, flags, joined, live>>

-----------------------------------------------------------------------------
Worker(w) ==
    \/ WorkerLock(w)
    \/ WorkerUnlock(w)
    \/ WorkerReady(w)
    \/ WorkerPush(w)
    \/ WorkerSignal(w)
    \/ WorkerTest(w)
    \/ WorkerWait(w)
    \/ WorkerExit(w)

MainStep ==
    \/ CreateThread
    \/ ExitFailure
    \/ MainLock
    \/ MainUnlock
    \/ MainTest
    \/ MainWait
    \/ MainPop
    \/ MainRelease
    \/ MainSignal
    \/ LeaveLoop
    \/ PollWorker
    \/ DestroySync
    \/ EndOfRound

Spurious ==
    /\ mpc # "failed"
    /\ \E m \in Mutexes : SpuriousWakeup(m)
    /\ UNCHANGED <<mpc, wpc, queue, locals, flags, joined, live>>

AllDone == mpc = "done" /\ \A w \in Workers : wpc[w] = "done"

(* The process is over: every thread has exited, or exit() was called.     *)
Terminated ==
    /\ AllDone \/ mpc = "failed"
    /\ UNCHANGED vars

Next ==
    \/ MainStep
    \/ CreateFails
    \/ \E w \in Workers : Worker(w)
    \/ Spurious
    \/ Terminated

Spec == Init /\ [][Next]_vars

(* Every thread is scheduled, and a thread that finds a mutex free again   *)
(* and again gets it at last.  Nothing forces a spurious wakeup, the       *)
(* failure of pthread_create, or the end of the sleep before a worker's    *)
(* first lock (lines 146-162).                                             *)
Awake(w) == wpc[w] # "lock1"

Fairness ==
    /\ WF_vars(MainStep)
    /\ SF_vars(MainLock)
    /\ \A w \in Workers : /\ WF_vars(Awake(w) /\ Worker(w))
                          /\ SF_vars(Awake(w) /\ WorkerLock(w))

FairSpec == Spec /\ Fairness
-----------------------------------------------------------------------------
(* Properties                                                              *)

MainPC == {"create", "loop", "test_g", "wait_g", "blocked_g", "pop",
           "unlock_pop", "lock_t", "release", "signal_t", "unlock_t", "relock_g",
           "unlock_g", "poll", "destroy", "done", "failing", "failed"}

WorkerPC == {"none", "lock1", "ready", "unlock1", "lock_g", "push",
             "signal_g", "unlock_g", "lock2", "test", "wait", "blocked",
             "unlock2", "exiting", "done"}

(* Every variable stays in its type (lines 15-37 and 64-66); the bounds of *)
(* the ring buffer indices, of the counters and of i are part of it.       *)
TypeOK ==
    /\ mpc \in MainPC
    /\ wpc \in [Workers -> WorkerPC]
    /\ owner \in [Mutexes -> Threads \cup {NoThread}]
    /\ waiters \in [Mutexes -> SUBSET Threads]
    /\ ready_queue \in [0 .. (QueueSize - 1) -> Workers]
    /\ rq_head \in 0 .. (QueueSize - 1)
    /\ rq_tail \in 0 .. (QueueSize - 1)
    /\ i \in 0 .. N
    /\ (mpc \in {"create", "failing", "destroy"}) => (i < N)
    /\ id \in Workers
    /\ count_of_ready_threads \in 0 .. N
    /\ finished_threads \in 0 .. N
    /\ joined \in [Workers -> BOOLEAN]
    /\ ready \in [Workers -> BOOLEAN]
    /\ to_proceed \in [Workers -> BOOLEAN]
    /\ live \subseteq Workers

(* The worker has put its id into the queue.                               *)
HasPushed(w) ==
    wpc[w] \in {"signal_g", "unlock_g", "lock2", "test", "wait", "blocked",
                "unlock2", "exiting", "done"}

(* The slots between the head and the tail.                                *)
Occupied(s) ==
    IF rq_head <= rq_tail THEN rq_head <= s /\ s < rq_tail
                          ELSE rq_head <= s \/ s < rq_tail

Slots == 0 .. (QueueSize - 1)

Queued(w) == \E s \in Slots : Occupied(s) /\ ready_queue[s] = w

(* Main has taken id from the queue and has not released it yet.           *)
InFlight(w) == mpc \in {"unlock_pop", "lock_t", "release"} /\ id = w

(* The "ready queue overflow" branch (lines 193-197) is dead code: there   *)
(* is a free slot whenever a worker is about to push.  A dropped id would  *)
(* leave its worker waiting for ever.                                      *)
NeverOverflows ==
    \A w \in Workers : (wpc[w] = "push") => (NextSlot(rq_tail) # rq_head)

(* No announcement is lost or doubled: a worker that has pushed and is not *)
(* released is in exactly one place, one slot of the queue or main's id,   *)
(* and nobody else is (lines 91-99 and 190-218).                           *)
NothingLost ==
    \A w \in Workers :
        /\ (HasPushed(w) /\ ~to_proceed[w]) <=> (Queued(w) \/ InFlight(w))
        /\ ~(Queued(w) /\ InFlight(w))
        /\ \A s, r \in Slots :
              (Occupied(s) /\ Occupied(r) /\ ready_queue[s] = w
                                        /\ ready_queue[r] = w) => (s = r)

(* No wakeup is lost: main is never blocked on cond_g_to_main while the    *)
(* queue holds an id, nor a worker on cond_to_t after its flag was set,    *)
(* unless the signal that wakes it is the next call of the thread that     *)
(* holds the mutex (lines 85-88, 170-171; 99-100, 177-180).                *)
NoLostWakeup ==
    /\ (Main \in waiters[GSync] /\ ~QueueEmpty) =>
          \E w \in Workers : wpc[w] = "signal_g" /\ owner[GSync] = w
    /\ \A w \in Workers :
          (w \in waiters[w] /\ to_proceed[w]) =>
              (mpc = "signal_t" /\ id = w /\ owner[w] = Main)

(* Shared data is touched only under its mutex: the queue under            *)
(* mutex_g_sync (lines 84-92, 169-172), to_proceed under the worker's own  *)
(* mutex (94-103, 164-167, 176-182).                                       *)
WorkerHoldsOwn(w) == wpc[w] \in {"ready", "unlock1", "test", "wait", "unlock2"}
WorkerHoldsG(w) == wpc[w] \in {"push", "signal_g", "unlock_g"}
MainHoldsG == mpc \in {"test_g", "wait_g", "pop", "unlock_pop", "unlock_g"}
MainHoldsT == mpc \in {"release", "signal_t", "unlock_t"}

LockDiscipline ==
    /\ \A w \in Workers :
          /\ (owner[w] = w) <=> WorkerHoldsOwn(w)
          /\ (owner[w] = Main) <=> (MainHoldsT /\ id = w)
          /\ (owner[GSync] = w) <=> WorkerHoldsG(w)
    /\ (owner[GSync] = Main) <=> MainHoldsG

(* A mutex or condition variable of t_data[w] is used only between its     *)
(* initialisation and its destruction, and is destroyed only when nobody   *)
(* owns it or is blocked on it (lines 70-72, 126-128: "IS THIS NECESSARY") *)
SyncLifetime ==
    /\ \A w \in Workers :
          (w \notin live) => /\ wpc[w] \in {"none", "done"}
                             /\ owner[w] = NoThread
                             /\ waiters[w] = {}
    /\ (mpc \in {"lock_t", "release", "signal_t", "unlock_t"}) => (id \in live)

(* count_of_ready_threads (line 98) is the number of released workers, so  *)
(* main stops looking at the queue (line 82) exactly when all of them are  *)
(* released.                                                               *)
CountIsReleased ==
    /\ count_of_ready_threads = Cardinality({w \in Workers : to_proceed[w]})
    /\ (mpc \in {"poll", "destroy", "done"}) => \A w \in Workers : to_proceed[w]

(* finished_threads (line 125) is the number of collected workers, and     *)
(* main ends only when all are collected and all they used is destroyed.   *)
CountIsCollected ==
    /\ finished_threads = Cardinality({w \in Workers : joined[w]})
    /\ (mpc = "done") => (live = {} /\ \A w \in Workers : joined[w])

(* The inductive invariant: the properties above and what they rest on.    *)
Released == {w \in Workers : to_proceed[w]}
Collected == {w \in Workers : joined[w]}
Pushed == {w \in Workers : HasPushed(w)}

Counting ==
    /\ count_of_ready_threads = Cardinality(Released)
    /\ finished_threads = Cardinality(Collected)

(* Which worker states go with which part of main.                         *)
Progress ==
    /\ (mpc = "create") => \A w \in Workers :
                              ~to_proceed[w] /\ (i <= w <=> wpc[w] = "none")
    /\ (mpc \in {"failing", "failed"}) => \A w \in Workers : ~to_proceed[w]
    /\ (mpc \notin {"create", "failing", "failed"}) => \A w \in Workers : wpc[w] # "none"
    /\ (mpc \in {"poll", "destroy", "done"}) => \A w \in Workers : to_proceed[w]
    /\ \A w \in Workers :
          (wpc[w] \in {"unlock2", "exiting", "done"}) => to_proceed[w]

(* A worker's mutex and condition variables live until it is collected.    *)
Lifetime ==
    /\ \A w \in Workers :
          /\ joined[w] => /\ wpc[w] = "done"
                          /\ mpc \in {"poll", "destroy", "done"}
                          /\ (w \in live) => (mpc = "destroy" /\ i = w)
          /\ (w \notin live) => (wpc[w] = "none" \/ joined[w])
    /\ (mpc = "destroy") => joined[i]
    /\ (mpc = "done") => Collected = Workers

(* Who may own a mutex and be in a wait set.                               *)
Ownership ==
    /\ LockDiscipline
    /\ \A w \in Workers : owner[w] \in {w, Main, NoThread}

WaitSets ==
    /\ waiters[GSync] \subseteq {Main}
    /\ (Main \in waiters[GSync]) => (mpc = "blocked_g")
    /\ \A w \in Workers : /\ waiters[w] \subseteq {w}
                          /\ (w \in waiters[w]) => (wpc[w] = "blocked")

(* The slots below the tail hold the workers that have pushed, each once,  *)
(* in order; those below the head are released, but the one in flight.     *)
(* Every worker pushes once, so the indices never wrap around.             *)
QueueOrder ==
    /\ rq_head <= rq_tail
    /\ rq_tail = Cardinality(Pushed)
    /\ \A s, r \in 0 .. (rq_tail - 1) :
          (ready_queue[s] = ready_queue[r]) => (s = r)
    /\ \A s \in 0 .. (rq_tail - 1) :
          /\ ready_queue[s] \in Pushed
          /\ to_proceed[ready_queue[s]] <=>
                (s < rq_head /\ ~InFlight(ready_queue[s]))
    /\ \A w \in Pushed : \E s \in 0 .. (rq_tail - 1) : ready_queue[s] = w
    /\ Released \subseteq Pushed
    /\ (mpc \in {"unlock_pop", "lock_t", "release", "signal_t", "unlock_t"}) =>
          (0 < rq_head /\ id = ready_queue[rq_head - 1])

Wakeups ==
    /\ NoLostWakeup
    /\ (mpc = "wait_g") => QueueEmpty
    /\ \A w \in Workers : (wpc[w] = "wait") => ~to_proceed[w]

IInv ==
    /\ TypeOK
    /\ Counting
    /\ Progress
    /\ Lifetime
    /\ Ownership
    /\ WaitSets
    /\ QueueOrder
    /\ Wakeups

(* Once no worker sleeps any more the process ends: main leaves both loops *)
(* and every worker has been released and has finished.                    *)
Termination ==
    (\A w \in Workers : wpc[w] \notin {"none", "lock1"}) ~> (AllDone \/ mpc = "failed")

(* A worker that has pushed is released and finishes even if some other    *)
(* workers sleep (lines 146-162) for ever: main serves the ids it has.     *)
ServedIndependently ==
    \A w \in Workers : HasPushed(w) ~> (wpc[w] = "done" \/ mpc = "failed")

-----------------------------------------------------------------------------
(* 10_9 implements FifoRelease: its queue is the ring buffer read from the *)
(* head to the tail.                                                       *)
QueueLength == IF rq_head <= rq_tail THEN rq_tail - rq_head
                                     ELSE QueueSize - rq_head + rq_tail

PhaseOf(w) ==
    CASE joined[w] -> "collected"
      [] ~joined[w] /\ wpc[w] = "done" -> "finished"
      [] to_proceed[w] /\ wpc[w] # "done" -> "released"
      [] ~to_proceed[w] /\ HasPushed(w) -> "announced"
      [] OTHER -> "working"

Abstract == INSTANCE FifoRelease WITH
    Nobody <- NoThread,
    phase <- [w \in Workers |-> PhaseOf(w)],
    announced <- [k \in 1 .. QueueLength |->
                     ready_queue[(rq_head + k - 1) % QueueSize]],
    taken <- IF mpc \in {"unlock_pop", "lock_t", "release"} THEN id ELSE NoThread

(* Workers are released in the order in which they pushed, each once       *)
(* (lines 82-107 and 190-218).                                             *)
ReleasesInOrder == Abstract!Spec
=============================================================================
