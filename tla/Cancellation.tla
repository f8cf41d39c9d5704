---------------------------- MODULE Cancellation ----------------------------
(***************************************************************************)
(* 10_5 "Canceling a Thread": the detached thread t1 counts to MAX_COUNT   *)
(* under a mutex and signals every count; the main thread waits until the  *)
(* counter has reached COUNT_TO_STOP and cancels t1.  The cancellation is  *)
(* deferred: t1 acts on it at its next cancellation point, which is        *)
(* pthread_testcancel() at the end of a turn of its loop, or a printf.     *)
(*                                                                         *)
(* A pc value names the call the thread makes next.  NeverTests,           *)
(* EndsLocked and NeverSignals are wrong variants of the definitions they  *)
(* precede, for mutation testing.  Names that SharedMemorySemaphore has    *)
(* too carry a "Cancel" here: SynchronisingProofs extends both.            *)
(***************************************************************************)
EXTENDS Naturals, Pthreads

CONSTANTS MAX_COUNT, COUNT_TO_STOP,
          Main, T1,                \* the two threads
          Mutex, FromT1, FromMain  \* the mutex and the condition variables

Threads == {Main, T1}

ASSUME CountsAssumption ==
    /\ MAX_COUNT \in Nat
    /\ COUNT_TO_STOP \in 1 .. MAX_COUNT
    /\ Main # T1
    /\ NoThread \notin Threads
    /\ FromT1 # FromMain

VARIABLES mpc, tpc,                \* control state of main and of t1
          t1_ready, t1_to_continue,
          counter,
          i,                       \* t1's loop variable
          cancelled,               \* pthread_cancel was called: pending in t1
          at_cancel                \* history: the counter at that moment

sync == <<owner, waiters>>
flags == <<t1_ready, t1_to_continue>>
cancel == <<cancelled, at_cancel>>
cancelVars == <<mpc, tpc, sync, flags, counter, i, cancel>>

CancelInit ==
    /\ mpc = "create" /\ tpc = "none"
    /\ owner = [m \in {Mutex} |-> NoThread]
    /\ waiters = [c \in {FromT1, FromMain} |-> {}]
    /\ t1_ready = FALSE /\ t1_to_continue = FALSE
    /\ counter = 0 /\ i = 0
    /\ cancelled = FALSE /\ at_cancel = 0

MainGoto(from, to) ==
    /\ mpc = from /\ mpc' = to
    /\ UNCHANGED <<tpc, counter, i>>

T1Goto(from, to) ==
    /\ mpc # "failed"              \* exit() ends every thread
    /\ tpc = from /\ tpc' = to
    /\ UNCHANGED <<mpc, cancel>>

-----------------------------------------------------------------------------
(* main                                                                    *)

CreateThread ==
    /\ mpc = "create" /\ mpc' = "detach"
    /\ tpc' = "lock"
    /\ UNCHANGED <<sync, flags, counter, i, cancel>>

(* CHECK_ERR evaluates the failed call again, which may then succeed.      *)
CreateFails ==
    /\ mpc = "create" /\ mpc' = "failing"
    /\ tpc' \in {"none", "lock"}
    /\ UNCHANGED <<sync, flags, counter, i, cancel>>

ExitFailure ==
    /\ MainGoto("failing", "failed")
    /\ UNCHANGED <<sync, flags, cancel>>

DetachT1 ==
    /\ MainGoto("detach", "lock")
    /\ UNCHANGED <<sync, flags, cancel>>

MainLock ==
    /\ \/ MainGoto("lock", "test") /\ Lock(Main, Mutex)
       \/ MainGoto("blocked", "test") /\ CondResume(Main, FromT1, Mutex)
       \/ MainGoto("lock_count", "test_count") /\ Lock(Main, Mutex)
       \/ MainGoto("blocked_count", "test_count") /\ CondResume(Main, FromT1, Mutex)
    /\ UNCHANGED <<waiters, flags, cancel>>

KeepWaiting == counter < COUNT_TO_STOP

(* while (t1_ready != 1), while (counter < COUNT_TO_STOP)                  *)
MainTest ==
    /\ \/ MainGoto("test", IF t1_ready THEN "continue" ELSE "wait")
       \/ MainGoto("test_count", IF KeepWaiting THEN "wait_count" ELSE "cancel")
    /\ UNCHANGED <<sync, flags, cancel>>

MainWait ==
    /\ MainGoto("wait", "blocked") \/ MainGoto("wait_count", "blocked_count")
    /\ CondWait(Main, FromT1, Mutex)
    /\ UNCHANGED <<flags, cancel>>

Continue ==
    /\ MainGoto("continue", "signal")
    /\ t1_to_continue' = TRUE
    /\ UNCHANGED <<sync, t1_ready, cancel>>

MainSignal ==
    /\ MainGoto("signal", "unlock")
    /\ CondSignal(FromMain)
    /\ UNCHANGED <<owner, flags, cancel>>

MainUnlock ==
    /\ MainGoto("unlock", "lock_count") \/ MainGoto("unlock_count", "exit")
    /\ Unlock(Mutex)
    /\ UNCHANGED <<waiters, flags, cancel>>

T1Over == tpc \in {"finished", "cancelled"}

Cancel ==
    /\ ~T1Over
    /\ MainGoto("cancel", "unlock_count")
    /\ cancelled' = TRUE
    /\ at_cancel' = counter
    /\ UNCHANGED <<sync, flags>>

(* t1 is detached, so its id means nothing once it is over: pthread_cancel *)
(* may return 0, or an error and main exits, or crash.                     *)
CancelNobody ==
    /\ T1Over
    /\ MainGoto("cancel", "unlock_count") \/ MainGoto("cancel", "failed")
    /\ UNCHANGED <<sync, flags, cancel>>

MainExit ==
    /\ MainGoto("exit", "done")
    /\ UNCHANGED <<sync, flags, cancel>>

-----------------------------------------------------------------------------
(* thread_function                                                         *)

T1Lock ==
    /\ \/ T1Goto("lock", "ready") /\ Lock(T1, Mutex)
       \/ T1Goto("blocked", "test") /\ CondResume(T1, FromMain, Mutex)
       \/ i < MAX_COUNT /\ T1Goto("loop", "count") /\ Lock(T1, Mutex)
    /\ UNCHANGED <<waiters, flags, counter, i>>

T1Ready ==
    /\ T1Goto("ready", "signal")
    /\ t1_ready' = TRUE
    /\ UNCHANGED <<sync, t1_to_continue, counter, i>>

NeverSignals == T1Goto("signal_count", "unlock_count") /\ UNCHANGED waiters
SignalCount == T1Goto("signal_count", "unlock_count") /\ CondSignal(FromT1)

T1Signal ==
    /\ \/ T1Goto("signal", "test") /\ CondSignal(FromT1)
       \/ SignalCount
    /\ UNCHANGED <<owner, flags, counter, i>>

(* while (t1_to_continue != 1)                                             *)
T1Test ==
    /\ T1Goto("test", IF t1_to_continue THEN "unlock" ELSE "wait")
    /\ UNCHANGED <<sync, flags, counter, i>>

T1Wait ==
    /\ T1Goto("wait", "blocked")
    /\ CondWait(T1, FromMain, Mutex)
    /\ UNCHANGED <<flags, counter, i>>

EndsLocked == T1Goto("unlock_count", "testcancel") /\ UNCHANGED owner
UnlockCount == T1Goto("unlock_count", "testcancel") /\ Unlock(Mutex)

T1Unlock ==
    /\ \/ T1Goto("unlock", "loop") /\ Unlock(Mutex)
       \/ UnlockCount
    /\ UNCHANGED <<waiters, flags, counter, i>>

Increment == counter' = counter + 1

Count ==
    /\ T1Goto("count", "signal_count")
    /\ Increment
    /\ UNCHANGED <<sync, flags, i>>

NeverTests == "loop"
AfterTestcancel == IF cancelled THEN "cancelled" ELSE "loop"

(* pthread_testcancel(), and i++ if the thread goes on.                    *)
Testcancel ==
    /\ T1Goto("testcancel", AfterTestcancel)
    /\ i' = IF tpc' = "loop" THEN i + 1 ELSE i
    /\ UNCHANGED <<sync, flags, counter>>

(* The end of the loop: the printf may act on a pending cancellation.      *)
LeaveLoop ==
    /\ i >= MAX_COUNT
    /\ \/ T1Goto("loop", "finished")
       \/ cancelled /\ T1Goto("loop", "cancelled")
    /\ UNCHANGED <<sync, flags, counter, i>>

-----------------------------------------------------------------------------
MainStep ==
    \/ CreateThread
    \/ ExitFailure
    \/ DetachT1
    \/ MainLock
    \/ MainTest
    \/ MainWait
    \/ Continue
    \/ MainSignal
    \/ MainUnlock
    \/ Cancel
    \/ CancelNobody
    \/ MainExit

T1Step ==
    \/ T1Lock
    \/ T1Ready
    \/ T1Signal
    \/ T1Test
    \/ T1Wait
    \/ T1Unlock
    \/ Count
    \/ Testcancel
    \/ LeaveLoop

Spurious ==
    /\ mpc # "failed"
    /\ SpuriousWakeup(FromT1) \/ SpuriousWakeup(FromMain)
    /\ UNCHANGED <<mpc, tpc, flags, counter, i, cancel>>

Terminated ==
    /\ mpc = "failed" \/ (mpc = "done" /\ T1Over)
    /\ UNCHANGED cancelVars

CancelNext == MainStep \/ CreateFails \/ T1Step \/ Spurious \/ Terminated

CancelSpec == CancelInit /\ [][CancelNext]_cancelVars

(* Both threads are scheduled, and one that finds the mutex free again and *)
(* again gets it at last.                                                  *)
CancelFairSpec ==
    /\ CancelSpec
    /\ WF_cancelVars(MainStep) /\ SF_cancelVars(MainLock)
    /\ WF_cancelVars(T1Step) /\ SF_cancelVars(T1Lock)

-----------------------------------------------------------------------------
(* Properties                                                              *)

MainPC == {"create", "failing", "failed", "detach", "lock", "test", "wait",
           "blocked", "continue", "signal", "unlock", "lock_count",
           "test_count", "wait_count", "blocked_count", "cancel",
           "unlock_count", "exit", "done"}

T1PC == {"none", "lock", "ready", "signal", "test", "wait", "blocked",
         "unlock", "loop", "count", "signal_count", "unlock_count",
         "testcancel", "finished", "cancelled"}

(* Every variable stays in its type; the counter never passes MAX_COUNT.   *)
CancelTypeOK ==
    /\ mpc \in MainPC /\ tpc \in T1PC
    /\ owner \in [{Mutex} -> Threads \cup {NoThread}]
    /\ waiters \in [{FromT1, FromMain} -> SUBSET Threads]
    /\ t1_ready \in BOOLEAN /\ t1_to_continue \in BOOLEAN
    /\ counter \in 0 .. MAX_COUNT /\ i \in 0 .. MAX_COUNT
    /\ cancelled \in BOOLEAN /\ at_cancel \in 0 .. MAX_COUNT

MainHolds == mpc \in {"test", "wait", "continue", "signal", "unlock",
                      "test_count", "wait_count", "cancel", "unlock_count"}
T1Holds == tpc \in {"ready", "signal", "test", "wait", "unlock", "count",
                    "signal_count", "unlock_count"}

(* The mutex is owned by a thread exactly between its lock and its unlock; *)
(* so a cancelled or finished t1 never leaves it locked, which would block *)
(* main for ever ("your current code can deadlock ...", lines 24-36).      *)
NeverOrphaned ==
    /\ (mpc # "failed") => ((owner[Mutex] = Main) <=> MainHolds)
    /\ (owner[Mutex] = T1) <=> T1Holds

(* After pthread_cancel t1 counts once more at most: it does not hold the  *)
(* mutex when main calls it, and tests for it after every count (lines     *)
(* 4-12, 106 and 130-145).  And it was not called below COUNT_TO_STOP.     *)
StopsSoon ==
    cancelled => /\ at_cancel >= COUNT_TO_STOP
                 /\ counter <= at_cancel + 1

(* Main is not blocked when what it waits for is true, nor is t1, unless   *)
(* the signal that wakes it is the next call of the other thread.          *)
NoLostWakeup ==
    /\ (Main \in waiters[FromT1] /\ mpc = "blocked" /\ t1_ready) => tpc = "signal"
    /\ (Main \in waiters[FromT1] /\ mpc = "blocked_count" /\ counter >= COUNT_TO_STOP)
          => tpc = "signal_count"
    /\ (T1 \in waiters[FromMain] /\ t1_to_continue) => mpc = "signal"

(* The inductive invariant: these, and what they rest on.  The counter is  *)
(* that of t1's loop, and is only looked at or moved by the owner of the   *)
(* mutex; t1 gets no further than its next test after a cancellation.      *)
Counted == tpc \in {"signal_count", "unlock_count", "testcancel"}

Counting ==
    /\ Counted => (counter = i + 1)
    /\ (~Counted /\ tpc # "cancelled") => (counter = i)
    /\ (Counted \/ tpc = "count") => (i < MAX_COUNT)
    /\ (mpc \in {"create", "failing"}) => ~cancelled
    /\ (tpc = "none") => (mpc \in {"create", "failing", "failed"} /\ ~cancelled)
    /\ (mpc = "create") => (tpc = "none")

Cancelling ==
    /\ StopsSoon
    /\ (mpc = "cancel") => (counter >= COUNT_TO_STOP /\ ~cancelled)
    /\ cancelled => \/ counter = at_cancel
                    \/ Counted \/ tpc = "cancelled"
    /\ cancelled => mpc \in {"unlock_count", "exit", "done"}

Wakeups ==
    /\ NoLostWakeup
    /\ waiters[FromT1] \subseteq {Main}
    /\ waiters[FromMain] \subseteq {T1}
    /\ (Main \in waiters[FromT1]) => (mpc \in {"blocked", "blocked_count"})
    /\ (T1 \in waiters[FromMain]) => (tpc = "blocked")
    /\ (mpc = "wait") => ~t1_ready
    /\ (mpc = "wait_count") => (counter < COUNT_TO_STOP)
    /\ (tpc = "wait") => ~t1_to_continue

CancelInv == CancelTypeOK /\ Counting /\ NeverOrphaned /\ Cancelling /\ Wakeups

(* Both threads come to their end once t1 exists.                          *)
Termination == (mpc = "detach") ~> (mpc = "failed" \/ (mpc = "done" /\ T1Over))

(* "MT : I'll terminate t1 when the counter reaches %d" (line 99): t1 is   *)
(* still there when main cancels it.                                       *)
CancelsLiveThread == (mpc = "cancel") => ~T1Over
=============================================================================
