------------------------------ MODULE Pthreads ------------------------------
(***************************************************************************)
(* The POSIX mutexes and condition variables the programs of 10_Threads    *)
(* are built on, as those programs use them (the library itself is not in  *)
(* the repository).  A default mutex has at most one owner.  A thread      *)
(* blocked in pthread_cond_wait is in the wait set of the condition        *)
(* variable; it leaves the set when it is signalled, or for no reason at   *)
(* all, and must then own the mutex again before the call returns.         *)
(***************************************************************************)
CONSTANT NoThread      \* the owner of a free mutex

VARIABLES owner,       \* [mutex -> thread that has it locked, or NoThread]
          waiters      \* [condition variable -> set of the threads blocked on it]

(* pthread_mutex_lock returns to t: the mutex was free.                    *)
Lock(t, m) ==
    /\ owner[m] = NoThread
    /\ owner' = [owner EXCEPT ![m] = t]

(* pthread_mutex_unlock by the thread that has it locked.                  *)
Unlock(m) == owner' = [owner EXCEPT ![m] = NoThread]

(* The first half of pthread_cond_wait: release the mutex and block, in    *)
(* one step.                                                               *)
CondWait(t, c, m) ==
    /\ Unlock(m)
    /\ waiters' = [waiters EXCEPT ![c] = @ \cup {t}]

(* The second half of pthread_cond_wait: t is no longer blocked and locks  *)
(* the mutex again.                                                        *)
CondResume(t, c, m) ==
    /\ t \notin waiters[c]
    /\ Lock(t, m)

(* pthread_cond_signal wakes one of the blocked threads, if there is any.  *)
CondSignal(c) ==
    \/ waiters[c] = {} /\ UNCHANGED waiters
    \/ \E t \in waiters[c] : waiters' = [waiters EXCEPT ![c] = @ \ {t}]

(* A spurious wakeup: pthread_cond_wait may return without a signal.       *)
SpuriousWakeup(c) ==
    /\ \E t \in waiters[c] : waiters' = [waiters EXCEPT ![c] = @ \ {t}]
    /\ UNCHANGED owner
=============================================================================
