------------------------- MODULE SynchronisingProofs -------------------------
(***************************************************************************)
(* Proofs about Cancellation, ThreadSemaphore and SharedMemorySemaphore,   *)
(* three programs that synchronise by a mutex, by a semaphore and a mutex, *)
(* and by two semaphores.                                                  *)
(*                                                                         *)
(* Cancellation, for all counts MAX_COUNT >= COUNT_TO_STOP: CancelInv is   *)
(* inductive, so the mutex is never orphaned, t1 counts once more at most  *)
(* after it was cancelled, and no wakeup is lost.                          *)
(*                                                                         *)
(* ThreadSemaphore, for every number of threads, loop count and initial    *)
(* value: ThreadsInv is inductive, so no addition to glob is lost, permits *)
(* are conserved and nothing is destroyed while it is used.                *)
(*                                                                         *)
(* SharedMemorySemaphore, for any sets of writers and readers and any      *)
(* number of faults: IInv is inductive.  Its parts need each other: that a *)
(* semaphore is never above one (TypeOK) rests on nobody having posted it  *)
(* before (Announced, Answered), that on its object being the writer's own *)
(* (ExclusiveName, Attached), and that an answer is still to come on there *)
(* being one reader for one message (OneTaker).                            *)
(***************************************************************************)
EXTENDS Cancellation, ThreadSemaphore, SharedMemorySemaphore,
        FiniteSetTheorems, TLAPS

-----------------------------------------------------------------------------
(* A thread that is cancelled (10_5).                                      *)

LEMMA CancelInitInv == CancelInit => CancelInv
<1> SUFFICES ASSUME CancelInit PROVE CancelInv
  OBVIOUS
<1> USE CountsAssumption DEF CancelInit
<1>1. CancelTypeOK
  <2>1. /\ owner \in [{Mutex} -> Threads \cup {NoThread}]
        /\ waiters \in [{FromT1, FromMain} -> SUBSET Threads]
    OBVIOUS
  <2>2. counter \in 0 .. MAX_COUNT /\ i \in 0 .. MAX_COUNT
        /\ at_cancel \in 0 .. MAX_COUNT
    OBVIOUS
  <2>. QED
    BY <2>1, <2>2 DEF CancelTypeOK, MainPC, T1PC
<1>2. Counting
  BY DEF Counting, Counted
<1>3. NeverOrphaned
  BY DEF NeverOrphaned, MainHolds, T1Holds, Threads
<1>4. Cancelling /\ Wakeups
  BY DEF Cancelling, StopsSoon, Wakeups, NoLostWakeup
<1>. QED
  BY <1>1, <1>2, <1>3, <1>4 DEF CancelInv

LEMMA CreateThreadStep ==
    ASSUME CancelInv, CreateThread
    PROVE  CancelInv'
<1> USE CountsAssumption
        DEF CreateThread, sync, flags, cancel, CancelInv, CancelTypeOK, Threads
<1>1. CancelTypeOK' /\ Counting'
  BY DEF MainPC, T1PC, Counting, Counted, Cancelling
<1>2. NeverOrphaned'
  BY DEF NeverOrphaned, MainHolds, T1Holds, Counting
<1>3. Cancelling'
  BY DEF Cancelling, StopsSoon, Counting, Counted, NeverOrphaned, MainHolds,
         T1Holds
<1>4. Wakeups'
  BY DEF Wakeups, NoLostWakeup, Counting, Counted, NeverOrphaned, MainHolds,
         T1Holds
<1>. QED
  BY <1>1, <1>2, <1>3, <1>4

LEMMA ExitFailureStep ==
    ASSUME CancelInv, ExitFailure
    PROVE  CancelInv'
<1> USE CountsAssumption
        DEF ExitFailure, MainGoto, sync, flags, cancel, CancelInv, CancelTypeOK, Threads
<1>1. CancelTypeOK' /\ Counting'
  BY DEF MainPC, T1PC, Counting, Counted, Cancelling
<1>2. NeverOrphaned'
  BY DEF NeverOrphaned, MainHolds, T1Holds
<1>3. Cancelling'
  BY DEF Cancelling, StopsSoon, Counting, Counted, NeverOrphaned, MainHolds,
         T1Holds
<1>4. Wakeups'
  BY DEF Wakeups, NoLostWakeup, Counting, Counted, NeverOrphaned, MainHolds,
         T1Holds
<1>. QED
  BY <1>1, <1>2, <1>3, <1>4

LEMMA DetachT1Step ==
    ASSUME CancelInv, DetachT1
    PROVE  CancelInv'
<1> USE CountsAssumption
        DEF DetachT1, MainGoto, sync, flags, cancel, CancelInv, CancelTypeOK, Threads
<1>1. CancelTypeOK' /\ Counting'
  BY DEF MainPC, T1PC, Counting, Counted, Cancelling
<1>2. NeverOrphaned'
  BY DEF NeverOrphaned, MainHolds, T1Holds
<1>3. Cancelling'
  BY DEF Cancelling, StopsSoon, Counting, Counted, NeverOrphaned, MainHolds,
         T1Holds
<1>4. Wakeups'
  BY DEF Wakeups, NoLostWakeup, Counting, Counted, NeverOrphaned, MainHolds,
         T1Holds
<1>. QED
  BY <1>1, <1>2, <1>3, <1>4

LEMMA MainLockStep ==
    ASSUME CancelInv, MainLock
    PROVE  CancelInv'
<1> USE CountsAssumption
        DEF MainLock, MainGoto, Lock, CondResume, sync, flags, cancel,
            CancelInv, CancelTypeOK, Threads
<1>1. CancelTypeOK' /\ Counting'
  BY DEF MainPC, T1PC, Counting, Counted, Cancelling
<1>2. NeverOrphaned'
  BY DEF NeverOrphaned, MainHolds, T1Holds
<1>3. Cancelling'
  BY DEF Cancelling, StopsSoon, Counting, Counted, NeverOrphaned, MainHolds,
         T1Holds
<1>4. Wakeups'
  BY DEF Wakeups, NoLostWakeup, Counting, Counted, NeverOrphaned, MainHolds,
         T1Holds
<1>. QED
  BY <1>1, <1>2, <1>3, <1>4

LEMMA MainTestStep ==
    ASSUME CancelInv, MainTest
    PROVE  CancelInv'
<1> USE CountsAssumption
        DEF MainTest, MainGoto, KeepWaiting, sync, flags, cancel,
            CancelInv, CancelTypeOK, Threads
<1>1. CancelTypeOK' /\ Counting'
  BY DEF MainPC, T1PC, Counting, Counted, Cancelling
<1>2. NeverOrphaned'
  BY DEF NeverOrphaned, MainHolds, T1Holds
<1>3. Cancelling'
  BY DEF Cancelling, StopsSoon, Counting, Counted, NeverOrphaned, MainHolds,
         T1Holds
<1>4. Wakeups'
  BY DEF Wakeups, NoLostWakeup, Counting, Counted, NeverOrphaned, MainHolds,
         T1Holds
<1>. QED
  BY <1>1, <1>2, <1>3, <1>4

LEMMA MainWaitStep ==
    ASSUME CancelInv, MainWait
    PROVE  CancelInv'
<1> USE CountsAssumption
        DEF MainWait, MainGoto, CondWait, Unlock, sync, flags, cancel,
            CancelInv, CancelTypeOK, Threads
<1>1. CancelTypeOK' /\ Counting'
  BY DEF MainPC, T1PC, Counting, Counted, Cancelling
<1>2. NeverOrphaned'
  BY DEF NeverOrphaned, MainHolds, T1Holds
<1>3. Cancelling'
  BY DEF Cancelling, StopsSoon, Counting, Counted, NeverOrphaned, MainHolds,
         T1Holds
<1>4. Wakeups'
  BY DEF Wakeups, NoLostWakeup, Counting, Counted, NeverOrphaned, MainHolds,
         T1Holds
<1>. QED
  BY <1>1, <1>2, <1>3, <1>4

LEMMA ContinueStep ==
    ASSUME CancelInv, Continue
    PROVE  CancelInv'
<1> USE CountsAssumption
        DEF Continue, MainGoto, sync, flags, cancel, CancelInv, CancelTypeOK, Threads
<1>1. CancelTypeOK' /\ Counting'
  BY DEF MainPC, T1PC, Counting, Counted, Cancelling
<1>2. NeverOrphaned'
  BY DEF NeverOrphaned, MainHolds, T1Holds
<1>3. Cancelling'
  BY DEF Cancelling, StopsSoon, Counting, Counted, NeverOrphaned, MainHolds,
         T1Holds
<1>4. Wakeups'
  BY DEF Wakeups, NoLostWakeup, Counting, Counted, NeverOrphaned, MainHolds,
         T1Holds
<1>. QED
  BY <1>1, <1>2, <1>3, <1>4

LEMMA MainSignalStep ==
    ASSUME CancelInv, MainSignal
    PROVE  CancelInv'
<1> USE CountsAssumption
        DEF MainSignal, MainGoto, CondSignal, sync, flags, cancel,
            CancelInv, CancelTypeOK, Threads
<1>1. CancelTypeOK' /\ Counting'
  BY DEF MainPC, T1PC, Counting, Counted, Cancelling
<1>2. NeverOrphaned'
  BY DEF NeverOrphaned, MainHolds, T1Holds
<1>3. Cancelling'
  BY DEF Cancelling, StopsSoon, Counting, Counted, NeverOrphaned, MainHolds,
         T1Holds
<1>4. Wakeups'
  BY DEF Wakeups, NoLostWakeup, Counting, Counted, NeverOrphaned, MainHolds,
         T1Holds
<1>. QED
  BY <1>1, <1>2, <1>3, <1>4

LEMMA MainUnlockStep ==
    ASSUME CancelInv, MainUnlock
    PROVE  CancelInv'
<1> USE CountsAssumption
        DEF MainUnlock, MainGoto, Unlock, sync, flags, cancel,
            CancelInv, CancelTypeOK, Threads
<1>1. CancelTypeOK' /\ Counting'
  BY DEF MainPC, T1PC, Counting, Counted, Cancelling
<1>2. NeverOrphaned'
  BY DEF NeverOrphaned, MainHolds, T1Holds
<1>3. Cancelling'
  BY DEF Cancelling, StopsSoon, Counting, Counted, NeverOrphaned, MainHolds,
         T1Holds
<1>4. Wakeups'
  BY DEF Wakeups, NoLostWakeup, Counting, Counted, NeverOrphaned, MainHolds,
         T1Holds
<1>. QED
  BY <1>1, <1>2, <1>3, <1>4

LEMMA CancelStep ==
    ASSUME CancelInv, Cancel
    PROVE  CancelInv'
<1> USE CountsAssumption
        DEF Cancel, MainGoto, T1Over, sync, flags, cancel, CancelInv, CancelTypeOK, Threads
<1>1. CancelTypeOK' /\ Counting'
  BY DEF MainPC, T1PC, Counting, Counted, Cancelling
<1>2. NeverOrphaned'
  BY DEF NeverOrphaned, MainHolds, T1Holds
<1>3. Cancelling'
  BY DEF Cancelling, StopsSoon, Counting, Counted, NeverOrphaned, MainHolds,
         T1Holds
<1>4. Wakeups'
  BY DEF Wakeups, NoLostWakeup, Counting, Counted, NeverOrphaned, MainHolds,
         T1Holds
<1>. QED
  BY <1>1, <1>2, <1>3, <1>4

LEMMA CancelNobodyStep ==
    ASSUME CancelInv, CancelNobody
    PROVE  CancelInv'
<1> USE CountsAssumption
        DEF CancelNobody, MainGoto, T1Over, sync, flags, cancel,
            CancelInv, CancelTypeOK, Threads
<1>1. CancelTypeOK' /\ Counting'
  BY DEF MainPC, T1PC, Counting, Counted, Cancelling
<1>2. NeverOrphaned'
  BY DEF NeverOrphaned, MainHolds, T1Holds
<1>3. Cancelling'
  BY DEF Cancelling, StopsSoon, Counting, Counted, NeverOrphaned, MainHolds,
         T1Holds
<1>4. Wakeups'
  BY DEF Wakeups, NoLostWakeup, Counting, Counted, NeverOrphaned, MainHolds,
         T1Holds
<1>. QED
  BY <1>1, <1>2, <1>3, <1>4

LEMMA MainExitStep ==
    ASSUME CancelInv, MainExit
    PROVE  CancelInv'
<1> USE CountsAssumption
        DEF MainExit, MainGoto, sync, flags, cancel, CancelInv, CancelTypeOK, Threads
<1>1. CancelTypeOK' /\ Counting'
  BY DEF MainPC, T1PC, Counting, Counted, Cancelling
<1>2. NeverOrphaned'
  BY DEF NeverOrphaned, MainHolds, T1Holds
<1>3. Cancelling'
  BY DEF Cancelling, StopsSoon, Counting, Counted, NeverOrphaned, MainHolds,
         T1Holds
<1>4. Wakeups'
  BY DEF Wakeups, NoLostWakeup, Counting, Counted, NeverOrphaned, MainHolds,
         T1Holds
<1>. QED
  BY <1>1, <1>2, <1>3, <1>4

LEMMA T1LockStep ==
    ASSUME CancelInv, T1Lock
    PROVE  CancelInv'
<1> USE CountsAssumption
        DEF T1Lock, T1Goto, Lock, CondResume, sync, flags, cancel,
            CancelInv, CancelTypeOK, Threads
<1>1. CancelTypeOK' /\ Counting'
  BY DEF MainPC, T1PC, Counting, Counted, Cancelling
<1>2. NeverOrphaned'
  BY DEF NeverOrphaned, MainHolds, T1Holds
<1>3. Cancelling'
  BY DEF Cancelling, StopsSoon, Counting, Counted, NeverOrphaned, MainHolds,
         T1Holds
<1>4. Wakeups'
  BY DEF Wakeups, NoLostWakeup, Counting, Counted, NeverOrphaned, MainHolds,
         T1Holds
<1>. QED
  BY <1>1, <1>2, <1>3, <1>4

LEMMA T1ReadyStep ==
    ASSUME CancelInv, T1Ready
    PROVE  CancelInv'
<1> USE CountsAssumption
        DEF T1Ready, T1Goto, sync, flags, cancel, CancelInv, CancelTypeOK, Threads
<1>1. CancelTypeOK' /\ Counting'
  BY DEF MainPC, T1PC, Counting, Counted, Cancelling
<1>2. NeverOrphaned'
  BY DEF NeverOrphaned, MainHolds, T1Holds
<1>3. Cancelling'
  BY DEF Cancelling, StopsSoon, Counting, Counted, NeverOrphaned, MainHolds,
         T1Holds
<1>4. Wakeups'
  BY DEF Wakeups, NoLostWakeup, Counting, Counted, NeverOrphaned, MainHolds,
         T1Holds
<1>. QED
  BY <1>1, <1>2, <1>3, <1>4

LEMMA T1SignalStep ==
    ASSUME CancelInv, T1Signal
    PROVE  CancelInv'
<1> USE CountsAssumption
        DEF T1Signal, T1Goto, CondSignal, SignalCount, sync, flags, cancel,
            CancelInv, CancelTypeOK, Threads
<1>1. CancelTypeOK' /\ Counting'
  BY DEF MainPC, T1PC, Counting, Counted, Cancelling
<1>2. NeverOrphaned'
  BY DEF NeverOrphaned, MainHolds, T1Holds
<1>3. Cancelling'
  BY DEF Cancelling, StopsSoon, Counting, Counted, NeverOrphaned, MainHolds,
         T1Holds
<1>4. Wakeups'
  BY DEF Wakeups, NoLostWakeup, Counting, Counted, NeverOrphaned, MainHolds,
         T1Holds
<1>. QED
  BY <1>1, <1>2, <1>3, <1>4

LEMMA T1TestStep ==
    ASSUME CancelInv, T1Test
    PROVE  CancelInv'
<1> USE CountsAssumption
        DEF T1Test, T1Goto, sync, flags, cancel, CancelInv, CancelTypeOK, Threads
<1>1. CancelTypeOK' /\ Counting'
  BY DEF MainPC, T1PC, Counting, Counted, Cancelling
<1>2. NeverOrphaned'
  BY DEF NeverOrphaned, MainHolds, T1Holds
<1>3. Cancelling'
  BY DEF Cancelling, StopsSoon, Counting, Counted, NeverOrphaned, MainHolds,
         T1Holds
<1>4. Wakeups'
  BY DEF Wakeups, NoLostWakeup, Counting, Counted, NeverOrphaned, MainHolds,
         T1Holds
<1>. QED
  BY <1>1, <1>2, <1>3, <1>4

LEMMA T1WaitStep ==
    ASSUME CancelInv, T1Wait
    PROVE  CancelInv'
<1> USE CountsAssumption
        DEF T1Wait, T1Goto, CondWait, Unlock, sync, flags, cancel,
            CancelInv, CancelTypeOK, Threads
<1>1. CancelTypeOK' /\ Counting'
  BY DEF MainPC, T1PC, Counting, Counted, Cancelling
<1>2. NeverOrphaned'
  BY DEF NeverOrphaned, MainHolds, T1Holds
<1>3. Cancelling'
  BY DEF Cancelling, StopsSoon, Counting, Counted, NeverOrphaned, MainHolds,
         T1Holds
<1>4. Wakeups'
  BY DEF Wakeups, NoLostWakeup, Counting, Counted, NeverOrphaned, MainHolds,
         T1Holds
<1>. QED
  BY <1>1, <1>2, <1>3, <1>4

LEMMA T1UnlockStep ==
    ASSUME CancelInv, T1Unlock
    PROVE  CancelInv'
<1> USE CountsAssumption
        DEF T1Unlock, T1Goto, Unlock, UnlockCount, sync, flags, cancel,
            CancelInv, CancelTypeOK, Threads
<1>1. CancelTypeOK' /\ Counting'
  BY DEF MainPC, T1PC, Counting, Counted, Cancelling
<1>2. NeverOrphaned'
  BY DEF NeverOrphaned, MainHolds, T1Holds
<1>3. Cancelling'
  BY DEF Cancelling, StopsSoon, Counting, Counted, NeverOrphaned, MainHolds,
         T1Holds
<1>4. Wakeups'
  BY DEF Wakeups, NoLostWakeup, Counting, Counted, NeverOrphaned, MainHolds,
         T1Holds
<1>. QED
  BY <1>1, <1>2, <1>3, <1>4

LEMMA CountStep ==
    ASSUME CancelInv, Count
    PROVE  CancelInv'
<1> USE CountsAssumption
        DEF Count, T1Goto, Increment, sync, flags, cancel, CancelInv, CancelTypeOK, Threads
<1>1. CancelTypeOK' /\ Counting'
  BY DEF MainPC, T1PC, Counting, Counted, Cancelling
<1>2. NeverOrphaned'
  BY DEF NeverOrphaned, MainHolds, T1Holds
<1>3. Cancelling'
  BY DEF Cancelling, StopsSoon, Counting, Counted, NeverOrphaned, MainHolds,
         T1Holds
<1>4. Wakeups'
  BY DEF Wakeups, NoLostWakeup, Counting, Counted, NeverOrphaned, MainHolds,
         T1Holds
<1>. QED
  BY <1>1, <1>2, <1>3, <1>4

LEMMA TestcancelStep ==
    ASSUME CancelInv, Testcancel
    PROVE  CancelInv'
<1> USE CountsAssumption
        DEF Testcancel, T1Goto, AfterTestcancel, sync, flags, cancel,
            CancelInv, CancelTypeOK, Threads
<1>1. CancelTypeOK' /\ Counting'
  BY DEF MainPC, T1PC, Counting, Counted, Cancelling
<1>2. NeverOrphaned'
  BY DEF NeverOrphaned, MainHolds, T1Holds
<1>3. Cancelling'
  BY DEF Cancelling, StopsSoon, Counting, Counted, NeverOrphaned, MainHolds,
         T1Holds
<1>4. Wakeups'
  BY DEF Wakeups, NoLostWakeup, Counting, Counted, NeverOrphaned, MainHolds,
         T1Holds
<1>. QED
  BY <1>1, <1>2, <1>3, <1>4

LEMMA LeaveLoopStep ==
    ASSUME CancelInv, LeaveLoop
    PROVE  CancelInv'
<1> USE CountsAssumption
        DEF LeaveLoop, T1Goto, sync, flags, cancel, CancelInv, CancelTypeOK, Threads
<1>1. CancelTypeOK' /\ Counting'
  BY DEF MainPC, T1PC, Counting, Counted, Cancelling
<1>2. NeverOrphaned'
  BY DEF NeverOrphaned, MainHolds, T1Holds
<1>3. Cancelling'
  BY DEF Cancelling, StopsSoon, Counting, Counted, NeverOrphaned, MainHolds,
         T1Holds
<1>4. Wakeups'
  BY DEF Wakeups, NoLostWakeup, Counting, Counted, NeverOrphaned, MainHolds,
         T1Holds
<1>. QED
  BY <1>1, <1>2, <1>3, <1>4

LEMMA CreateFailsStep ==
    ASSUME CancelInv, CreateFails
    PROVE  CancelInv'
<1> USE CountsAssumption
        DEF CreateFails, sync, flags, cancel, CancelInv, CancelTypeOK, Threads
<1>1. CancelTypeOK' /\ Counting'
  BY DEF MainPC, T1PC, Counting, Counted, Cancelling
<1>2. NeverOrphaned'
  BY DEF NeverOrphaned, MainHolds, T1Holds, Counting
<1>3. Cancelling'
  BY DEF Cancelling, StopsSoon, Counting, Counted, NeverOrphaned, MainHolds,
         T1Holds
<1>4. Wakeups'
  BY DEF Wakeups, NoLostWakeup, Counting, Counted, NeverOrphaned, MainHolds,
         T1Holds
<1>. QED
  BY <1>1, <1>2, <1>3, <1>4

LEMMA SpuriousStep ==
    ASSUME CancelInv, Spurious
    PROVE  CancelInv'
<1>1. NeverOrphaned'
  <2>1. UNCHANGED <<owner, mpc, tpc>>
    BY DEF Spurious, SpuriousWakeup
  <2>. QED
    BY <2>1 DEF CancelInv, NeverOrphaned, MainHolds, T1Holds
<1> USE CountsAssumption
        DEF Spurious, SpuriousWakeup, sync, flags, cancel, CancelInv, CancelTypeOK, Threads
<1>2. CancelTypeOK' /\ Counting'
  BY DEF MainPC, T1PC, Counting, Counted, Cancelling
<1>3. Cancelling'
  BY DEF Cancelling, StopsSoon, Counting, Counted, NeverOrphaned, MainHolds,
         T1Holds
<1>4. Wakeups'
  BY DEF Wakeups, NoLostWakeup, Counting, Counted, NeverOrphaned, MainHolds,
         T1Holds
<1>. QED
  BY <1>1, <1>2, <1>3, <1>4

LEMMA CancelNextInv == CancelInv /\ [CancelNext]_cancelVars => CancelInv'
<1> SUFFICES ASSUME CancelInv, [CancelNext]_cancelVars PROVE CancelInv'
  OBVIOUS
<1>1. CASE MainStep
  BY <1>1, CreateThreadStep, ExitFailureStep, DetachT1Step, MainLockStep,
     MainTestStep, MainWaitStep, ContinueStep, MainSignalStep,
     MainUnlockStep, CancelStep, CancelNobodyStep, MainExitStep
     DEF MainStep
<1>2. CASE T1Step
  BY <1>2, T1LockStep, T1ReadyStep, T1SignalStep, T1TestStep, T1WaitStep,
     T1UnlockStep, CountStep, TestcancelStep, LeaveLoopStep
     DEF T1Step
<1>3. CASE CreateFails \/ Spurious
  BY <1>3, CreateFailsStep, SpuriousStep
<1>4. CASE UNCHANGED cancelVars
  BY <1>4 DEF cancelVars, sync, flags, cancel, CancelInv, CancelTypeOK, Counting, Counted,
       NeverOrphaned, MainHolds, T1Holds, Cancelling, StopsSoon, Wakeups,
       NoLostWakeup
<1>. QED
  BY <1>1, <1>2, <1>3, <1>4 DEF CancelNext, Terminated

(* IInv holds in every reachable state, whatever the two counts are.       *)
THEOREM CancelInvariance == CancelSpec => []CancelInv
BY CancelInitInv, CancelNextInv, PTL DEF CancelSpec

(* Types, and that the counter never passes MAX_COUNT.                     *)
THEOREM CancelTypeCorrect == CancelSpec => []CancelTypeOK
<1>1. CancelInv => CancelTypeOK
  BY DEF CancelInv
<1>. QED
  BY <1>1, CancelInvariance, PTL

(* A cancelled t1 never leaves the mutex locked: it is owned exactly       *)
(* between a lock and its unlock, and no cancellation point is in between. *)
THEOREM MutexNeverOrphaned == CancelSpec => []NeverOrphaned
<1>1. CancelInv => NeverOrphaned
  BY DEF CancelInv
<1>. QED
  BY <1>1, CancelInvariance, PTL

(* t1 counts at most once more after pthread_cancel.                       *)
THEOREM CancelStopsSoon == CancelSpec => []StopsSoon
<1>1. CancelInv => StopsSoon
  BY DEF CancelInv, Cancelling
<1>. QED
  BY <1>1, CancelInvariance, PTL

(* No signal between main and t1 is lost.                                  *)
THEOREM NoWakeupLost == CancelSpec => []NoLostWakeup
<1>1. CancelInv => NoLostWakeup
  BY DEF CancelInv, Wakeups
<1>. QED
  BY <1>1, CancelInvariance, PTL

-----------------------------------------------------------------------------
(* Threads that share a semaphore and a mutex (12_2_1).                    *)

LEMMA ThreadsFinite ==
    /\ IsFiniteSet(T) /\ Cardinality(T) = CNT_THREADS
    /\ \A S \in SUBSET T : IsFiniteSet(S) /\ Cardinality(S) \in Nat
    /\ Added \in SUBSET T /\ Inside \in SUBSET T
<1>1. IsFiniteSet(T) /\ Cardinality(T) = CNT_THREADS
  BY FS_Interval, ThreadsAssumption DEF T
<1>2. ASSUME NEW S \in SUBSET T
      PROVE  IsFiniteSet(S) /\ Cardinality(S) \in Nat
  BY <1>1, FS_Subset, FS_CardinalityType
<1>. QED
  BY <1>1, <1>2 DEF Added, Inside

(* One thread more, or less, in a set of threads.                          *)
LEMMA OneMore ==
    ASSUME NEW S \in SUBSET T, NEW t \in T, t \notin S
    PROVE  Cardinality(S \cup {t}) = Cardinality(S) + 1
BY ThreadsFinite, FS_AddElement

LEMMA OneLess ==
    ASSUME NEW S \in SUBSET T, NEW t \in S
    PROVE  Cardinality(S \ {t}) = Cardinality(S) - 1
BY ThreadsFinite, FS_RemoveElement

(* A step that neither enters or leaves the semaphore nor adds to glob.    *)
LEMMA CountsFrame ==
    ASSUME ThreadsTypeOK, PermitsConserved, Sums, UNCHANGED <<sem, glob>>,
           "sem" \in usable' => "sem" \in usable,
           Inside' = Inside, Added' = Added
    PROVE  PermitsConserved' /\ Sums'
BY DEF PermitsConserved, Sums

LEMMA ThreadsInitInv == ThreadsInit => ThreadsInv
<1> SUFFICES ASSUME ThreadsInit PROVE ThreadsInv
  OBVIOUS
<1> USE ThreadsAssumption DEF ThreadsInit
<1>1. ThreadsTypeOK /\ Locking /\ Joining /\ PermitsConserved
  BY DEF ThreadsTypeOK, ThreadPC, Locking, Joining, PermitsConserved, T
<1>2. Added = {}
  BY DEF Added
<1>3. Sums
  BY <1>2, FS_EmptySet DEF Sums
<1>. QED
  BY <1>1, <1>3 DEF ThreadsInv

LEMMA InitSemStep ==
    ASSUME ThreadsInv, InitSem
    PROVE  ThreadsInv'
<1> USE ThreadsAssumption DEF ThreadsInv
<1>0. /\ main_pc = "sem_init" /\ usable = {"mtx"} /\ \A t \in T : thread_pc[t] = "none"
      /\ UNCHANGED <<thread_pc, idx, mtx, glob, read>>
  BY DEF InitSem, Joining
<1>1. CASE main_pc' = "create" /\ sem' = SVAL_INITIAL /\ usable' = usable \cup {"sem"}
  <2>1. ThreadsTypeOK'
    BY <1>0, <1>1 DEF ThreadsTypeOK, ThreadPC, T
  <2>2. idx = 0
    BY DEF Joining, InitSem
  <2>3. Locking' /\ Joining'
    BY <1>0, <1>1, <2>2 DEF ThreadsTypeOK, Locking, Joining, T
  <2>4. Inside' = {} /\ Added' = Added
    BY <1>0 DEF ThreadsTypeOK, Inside, Added
  <2>5. PermitsConserved' /\ Sums'
    BY <1>0, <1>1, <2>4, FS_EmptySet DEF PermitsConserved, Sums
  <2>. QED
    BY <2>1, <2>3, <2>5
<1>2. CASE main_pc' = "failed" /\ UNCHANGED <<sem, usable>>
  <2>1. ThreadsTypeOK'
    BY <1>0, <1>2 DEF ThreadsTypeOK, ThreadPC, T
  <2>2. Locking' /\ Joining'
    BY <1>0, <1>2 DEF ThreadsTypeOK, Locking, Joining, T
  <2>3. Added' = Added
    BY <1>0 DEF Added
  <2>4. PermitsConserved' /\ Sums'
    BY <1>0, <1>2, <2>3 DEF PermitsConserved, Sums
  <2>. QED
    BY <2>1, <2>2, <2>4
<1>. QED
  BY <1>1, <1>2 DEF InitSem

LEMMA CreateWorkerStep ==
    ASSUME ThreadsInv, CreateWorker
    PROVE  ThreadsInv'
<1> USE ThreadsAssumption DEF ThreadsInv, CreateWorker
<1>1. ThreadsTypeOK'
  BY DEF ThreadsTypeOK, ThreadPC, T
<1>2. Locking' /\ Joining'
  BY DEF ThreadsTypeOK, Locking, Joining, T
<1>3. PermitsConserved' /\ Sums'
  <2>1. thread_pc[idx] = "none"
    BY DEF Joining, ThreadsTypeOK, T
  <2>2. Inside' = Inside /\ Added' = Added
    BY <2>1 DEF ThreadsTypeOK, Inside, Added
  <2>. QED
    BY <2>2, CountsFrame
<1>. QED
  BY <1>1, <1>2, <1>3

LEMMA CreateWorkerFailsStep ==
    ASSUME ThreadsInv, CreateWorkerFails
    PROVE  ThreadsInv'
<1> USE ThreadsAssumption DEF ThreadsInv, CreateWorkerFails
<1>1. ThreadsTypeOK'
  BY DEF ThreadsTypeOK, ThreadPC, T
<1>2. Locking' /\ Joining'
  BY DEF ThreadsTypeOK, Locking, Joining, T
<1>3. PermitsConserved' /\ Sums'
  <2>1. Inside' = Inside /\ Added' = Added
    BY DEF ThreadsTypeOK, Inside, Added
  <2>. QED
    BY <2>1, CountsFrame
<1>. QED
  BY <1>1, <1>2, <1>3

LEMMA JoinStep ==
    ASSUME ThreadsInv, Join
    PROVE  ThreadsInv'
<1> USE ThreadsAssumption DEF ThreadsInv, Join, IsOver
<1>1. ThreadsTypeOK'
  BY DEF ThreadsTypeOK, ThreadPC, T
<1>2. Locking' /\ Joining'
  BY DEF ThreadsTypeOK, Locking, Joining, T
<1>3. PermitsConserved' /\ Sums'
  <2>1. Inside' = Inside /\ Added' = Added
    BY DEF ThreadsTypeOK, Inside, Added
  <2>. QED
    BY <2>1, CountsFrame
<1>. QED
  BY <1>1, <1>2, <1>3

LEMMA DestroyBothStep ==
    ASSUME ThreadsInv, DestroyBoth
    PROVE  ThreadsInv'
<1> USE ThreadsAssumption DEF ThreadsInv, DestroyBoth
<1>1. ThreadsTypeOK'
  BY DEF ThreadsTypeOK, ThreadPC, T
<1>2. Locking' /\ Joining'
  BY DEF ThreadsTypeOK, Locking, Joining, T
<1>3. PermitsConserved' /\ Sums'
  <2>1. Inside' = Inside /\ Added' = Added
    BY DEF ThreadsTypeOK, Inside, Added
  <2>. QED
    BY <2>1, CountsFrame
<1>. QED
  BY <1>1, <1>2, <1>3

LEMMA WaitSemStep ==
    ASSUME ThreadsInv, NEW t \in T, WaitSem(t)
    PROVE  ThreadsInv'
<1> USE ThreadsAssumption DEF ThreadsInv, WaitSem, ThreadGoto, TakePermit
<1>1. ThreadsTypeOK'
  BY DEF ThreadsTypeOK, ThreadPC, T
<1>2. Locking' /\ Joining'
  BY DEF ThreadsTypeOK, Locking, Joining, T
<1>3. PermitsConserved' /\ Sums'
  <2>1. Inside' = Inside \cup {t} /\ t \notin Inside /\ Added' = Added
    BY DEF ThreadsTypeOK, Inside, Added
  <2>2. Cardinality(Inside') = Cardinality(Inside) + 1
    BY <2>1, OneMore, ThreadsFinite
  <2>3. Cardinality(Inside) \in Nat
    BY ThreadsFinite
  <2>. QED
    BY <2>1, <2>2, <2>3 DEF PermitsConserved, Sums, ThreadsTypeOK
<1>. QED
  BY <1>1, <1>2, <1>3

LEMMA LockGlobStep ==
    ASSUME ThreadsInv, NEW t \in T, LockGlob(t)
    PROVE  ThreadsInv'
<1> USE ThreadsAssumption DEF ThreadsInv, LockGlob, ThreadGoto, LockMtx
<1>1. ThreadsTypeOK'
  BY DEF ThreadsTypeOK, ThreadPC, T
<1>2. Locking' /\ Joining'
  BY DEF ThreadsTypeOK, Locking, Joining, T
<1>3. PermitsConserved' /\ Sums'
  <2>1. Inside' = Inside /\ Added' = Added
    BY DEF ThreadsTypeOK, Inside, Added
  <2>. QED
    BY <2>1, CountsFrame
<1>. QED
  BY <1>1, <1>2, <1>3

LEMMA ReadGlobStep ==
    ASSUME ThreadsInv, NEW t \in T, ReadGlob(t)
    PROVE  ThreadsInv'
<1> USE ThreadsAssumption DEF ThreadsInv, ReadGlob, ThreadGoto
<1>1. ThreadsTypeOK'
  BY DEF ThreadsTypeOK, ThreadPC, T
<1>2. Locking' /\ Joining'
  BY DEF ThreadsTypeOK, Locking, Joining, T
<1>3. PermitsConserved' /\ Sums'
  <2>1. Inside' = Inside /\ Added' = Added
    BY DEF ThreadsTypeOK, Inside, Added
  <2>. QED
    BY <2>1, CountsFrame
<1>. QED
  BY <1>1, <1>2, <1>3

LEMMA UnlockGlobStep ==
    ASSUME ThreadsInv, NEW t \in T, UnlockGlob(t)
    PROVE  ThreadsInv'
<1> USE ThreadsAssumption DEF ThreadsInv, UnlockGlob, ThreadGoto
<1>1. ThreadsTypeOK'
  BY DEF ThreadsTypeOK, ThreadPC, T
<1>2. Locking' /\ Joining'
  BY DEF ThreadsTypeOK, Locking, Joining, T
<1>3. PermitsConserved' /\ Sums'
  <2>1. Inside' = Inside /\ Added' = Added
    BY DEF ThreadsTypeOK, Inside, Added
  <2>. QED
    BY <2>1, CountsFrame
<1>. QED
  BY <1>1, <1>2, <1>3

LEMMA WriteGlobStep ==
    ASSUME ThreadsInv, NEW t \in T, WriteGlob(t)
    PROVE  ThreadsInv'
<1> USE ThreadsAssumption DEF ThreadsInv, WriteGlob, ThreadGoto, AddLocal
<1>1. ThreadsTypeOK'
  BY DEF ThreadsTypeOK, ThreadPC, T
<1>2. Locking' /\ Joining'
  BY DEF ThreadsTypeOK, Locking, Joining, T
<1>3. PermitsConserved' /\ Sums'
  <2>1. Added' = Added \cup {t} /\ t \notin Added /\ Inside' = Inside
    BY DEF ThreadsTypeOK, Inside, Added
  <2>2. Cardinality(Added') = Cardinality(Added) + 1
    BY <2>1, OneMore, ThreadsFinite
  <2>3. Cardinality(Added) \in Nat
    BY ThreadsFinite
  <2>4. glob' = glob + LOOP_COUNT
    BY DEF Locking
  <2>5. LOOP_COUNT * (Cardinality(Added) + 1) =
            LOOP_COUNT * Cardinality(Added) + LOOP_COUNT
    BY <2>3
  <2>. QED
    BY <2>1, <2>2, <2>4, <2>5 DEF PermitsConserved, Sums
<1>. QED
  BY <1>1, <1>2, <1>3

LEMMA PostSemStep ==
    ASSUME ThreadsInv, NEW t \in T, PostSem(t)
    PROVE  ThreadsInv'
<1> USE ThreadsAssumption DEF ThreadsInv, PostSem, ThreadGoto, GivePermit
<1>1. ThreadsTypeOK'
  <2>1. t \in Inside /\ "sem" \in usable
    BY DEF Inside, Joining
  <2>2. Cardinality(Inside \ {t}) = Cardinality(Inside) - 1
        /\ Cardinality(Inside \ {t}) \in Nat /\ Cardinality(Inside) \in Nat
    BY <2>1, OneLess, ThreadsFinite
  <2>3. sem + 1 <= SVAL_INITIAL
    BY <2>1, <2>2 DEF PermitsConserved, ThreadsTypeOK
  <2>. QED
    BY <2>3 DEF ThreadsTypeOK, ThreadPC
<1>2. Locking' /\ Joining'
  BY DEF ThreadsTypeOK, Locking, Joining, T
<1>3. PermitsConserved' /\ Sums'
  <2>1. Inside' = Inside \ {t} /\ t \in Inside /\ Added' = Added
    BY DEF ThreadsTypeOK, Inside, Added
  <2>2. Cardinality(Inside') = Cardinality(Inside) - 1
    BY <2>1, OneLess, ThreadsFinite
  <2>3. Cardinality(Inside) \in Nat
    BY ThreadsFinite
  <2>. QED
    BY <2>1, <2>2, <2>3 DEF PermitsConserved, Sums, ThreadsTypeOK
<1>. QED
  BY <1>1, <1>2, <1>3

LEMMA ThreadsNextInv == ThreadsInv /\ [ThreadsNext]_threadVars => ThreadsInv'
<1> SUFFICES ASSUME ThreadsInv, [ThreadsNext]_threadVars PROVE ThreadsInv'
  OBVIOUS
<1>1. CASE InitSem \/ ThreadsMainStep \/ CreateWorkerFails
  BY <1>1, InitSemStep, CreateWorkerStep, CreateWorkerFailsStep, JoinStep,
     DestroyBothStep DEF ThreadsMainStep
<1>2. ASSUME NEW t \in T, Thread(t) PROVE ThreadsInv'
  BY <1>2, WaitSemStep, LockGlobStep, ReadGlobStep, WriteGlobStep,
     UnlockGlobStep, PostSemStep DEF Thread
<1>3. CASE UNCHANGED threadVars
  BY <1>3 DEF threadVars, ThreadsInv, ThreadsTypeOK, Locking, Joining, PermitsConserved, Sums,
       Inside, Added
<1>. QED
  BY <1>1, <1>2, <1>3 DEF ThreadsNext, ThreadsTerminated

(* ThreadsInv holds in every reachable state.                                    *)
THEOREM ThreadsInvariance == ThreadsSpec => []ThreadsInv
BY ThreadsInitInv, ThreadsNextInv, PTL DEF ThreadsSpec

(* No addition is lost, and main prints CNT_THREADS * LOOP_COUNT, for      *)
(* every number of threads past the semaphore at once.                     *)
THEOREM SumIsRight == ThreadsSpec => []NoLostUpdate
<1>1. ThreadsInv => NoLostUpdate
  <2> SUFFICES ASSUME ThreadsInv,
                      main_pc \in {"destroy_sem", "destroy_mtx", "done"}
               PROVE  Added = T
    BY ThreadsFinite DEF NoLostUpdate, ThreadsInv, Sums
  <2>. QED
    BY DEF ThreadsInv, Joining, Added
<1>. QED
  BY <1>1, ThreadsInvariance, PTL

(* The semaphore and the threads inside share the permits.                 *)
THEOREM PermitsKept == ThreadsSpec => []PermitsConserved
<1>1. ThreadsInv => PermitsConserved
  BY DEF ThreadsInv
<1>. QED
  BY <1>1, ThreadsInvariance, PTL

(* Nothing is destroyed before every thread has returned.                  *)
THEOREM NoUseAfterDestroy == ThreadsSpec => []DestroyedUnused
<1>1. ThreadsInv => DestroyedUnused
  BY ThreadsAssumption
     DEF ThreadsInv, ThreadsTypeOK, Joining, Locking, DestroyedUnused
<1>. QED
  BY <1>1, ThreadsInvariance, PTL

-----------------------------------------------------------------------------
(* Processes that share two semaphores (12_2_2).                           *)

LEMMA InitIInv == Init => IInv
BY ConstantsAssumption
DEF Init, IInv, TypeOK, WriterPC, ReaderPC, Procs, Objects, Sems,
    ExclusiveName, Holding, Attached, OneTaker, Announced, Unposted,
    Answered, Acknowledged, Released, Acked, Took

-----------------------------------------------------------------------------
(* The steps of the writer. *)

LEMMA OpenStep ==
    ASSUME IInv, NEW w \in Writers, Open(w)
    PROVE  IInv'
<1> USE ConstantsAssumption DEF IInv, Open, WGoto, CreateShm, region,
           TypeOK, Procs, Objects, Sems
<1>1. TypeOK'
  BY DEF WriterPC, ReaderPC
<1>2. ExclusiveName'
  BY DEF ExclusiveName, Holding, Attached
<1>3. Attached'
  BY DEF Attached, ExclusiveName, Holding
<1>4. OneTaker'
  BY DEF OneTaker, Announced, Unposted, Attached, ExclusiveName,
         Holding, Took
<1>5. Announced'
  BY DEF Announced, OneTaker, Unposted, Attached, ExclusiveName,
         Holding, Took
<1>6. Answered'
  BY DEF Answered, OneTaker, Announced, Unposted, Attached,
         ExclusiveName, Holding, Acked, Took
<1>7. Acknowledged'
  BY DEF Acknowledged, Released, Answered, OneTaker, Announced,
         Unposted, Attached, ExclusiveName, Holding, Acked, Took
<1>. QED
  BY <1>1, <1>2, <1>3, <1>4, <1>5, <1>6, <1>7

LEMMA OpenFailsStep ==
    ASSUME IInv, NEW w \in Writers, OpenFails(w)
    PROVE  IInv'
<1> USE ConstantsAssumption DEF IInv, OpenFails, WGoto, region,
           TypeOK, Procs, Objects, Sems
<1>1. TypeOK'
  BY DEF WriterPC, ReaderPC
<1>2. ExclusiveName'
  BY DEF ExclusiveName, Holding, Attached
<1>3. Attached'
  BY DEF Attached, ExclusiveName, Holding
<1>4. OneTaker'
  BY DEF OneTaker, Announced, Unposted, Attached, ExclusiveName,
         Holding, Took
<1>5. Announced'
  BY DEF Announced, OneTaker, Unposted, Attached, ExclusiveName,
         Holding, Took
<1>6. Answered'
  BY DEF Answered, OneTaker, Announced, Unposted, Attached,
         ExclusiveName, Holding, Acked, Took
<1>7. Acknowledged'
  BY DEF Acknowledged, Released, Answered, OneTaker, Announced,
         Unposted, Attached, ExclusiveName, Holding, Acked, Took
<1>. QED
  BY <1>1, <1>2, <1>3, <1>4, <1>5, <1>6, <1>7

LEMMA TruncateStep ==
    ASSUME IInv, NEW w \in Writers, Truncate(w)
    PROVE  IInv'
<1> USE ConstantsAssumption DEF IInv, Truncate, WGoto,
           TypeOK, Procs, Objects, Sems
<1>0. shm_ptr[w] = w
  BY DEF ExclusiveName, Holding
<1>1. TypeOK'
  BY <1>0 DEF WriterPC, ReaderPC
<1>2. ExclusiveName'
  BY <1>0 DEF ExclusiveName, Holding, Attached
<1>3. Attached'
  BY <1>0 DEF Attached, ExclusiveName, Holding
<1>4. OneTaker'
  BY <1>0 DEF OneTaker, Announced, Unposted, Attached, ExclusiveName,
         Holding, Took
<1>5. Announced'
  BY <1>0 DEF Announced, OneTaker, Unposted, Attached, ExclusiveName,
         Holding, Took
<1>6. Answered'
  BY <1>0 DEF Answered, OneTaker, Announced, Unposted, Attached,
         ExclusiveName, Holding, Acked, Took
<1>7. Acknowledged'
  BY <1>0 DEF Acknowledged, Released, Answered, OneTaker, Announced,
         Unposted, Attached, ExclusiveName, Holding, Acked, Took
<1>. QED
  BY <1>1, <1>2, <1>3, <1>4, <1>5, <1>6, <1>7

LEMMA MapStep ==
    ASSUME IInv, NEW w \in Writers, Map(w)
    PROVE  IInv'
<1> USE ConstantsAssumption DEF IInv, Map, WGoto, region,
           TypeOK, Procs, Objects, Sems
<1>1. TypeOK'
  BY DEF WriterPC, ReaderPC
<1>2. ExclusiveName'
  BY DEF ExclusiveName, Holding, Attached
<1>3. Attached'
  BY DEF Attached, ExclusiveName, Holding
<1>4. OneTaker'
  BY DEF OneTaker, Announced, Unposted, Attached, ExclusiveName,
         Holding, Took
<1>5. Announced'
  BY DEF Announced, OneTaker, Unposted, Attached, ExclusiveName,
         Holding, Took
<1>6. Answered'
  BY DEF Answered, OneTaker, Announced, Unposted, Attached,
         ExclusiveName, Holding, Acked, Took
<1>7. Acknowledged'
  BY DEF Acknowledged, Released, Answered, OneTaker, Announced,
         Unposted, Attached, ExclusiveName, Holding, Acked, Took
<1>. QED
  BY <1>1, <1>2, <1>3, <1>4, <1>5, <1>6, <1>7

LEMMA InitSemsStep ==
    ASSUME IInv, NEW w \in Writers, InitSems(w)
    PROVE  IInv'
<1> USE ConstantsAssumption DEF IInv, InitSems, WGoto, SemInit,
           TypeOK, Procs, Objects, Sems
<1>0. shm_ptr[w] = w
  BY DEF ExclusiveName, Holding
<1>1. TypeOK'
  <2>1. PICK s \in Sems : /\ live' = [live EXCEPT ![w] = @ \cup {s}]
                           /\ value' = [value EXCEPT ![w][s] = 0]
    BY <1>0
  <2>2. /\ value' \in [Objects -> [Sems -> {0, 1}]]
        /\ live' \in [Objects -> SUBSET Sems]
    BY <2>1
  <2>. QED
    BY <2>2 DEF WriterPC, ReaderPC
<1>2. ExclusiveName'
  BY <1>0 DEF ExclusiveName, Holding, Attached
<1>3. Attached'
  BY <1>0 DEF Attached, ExclusiveName, Holding
<1>4. OneTaker'
  BY <1>0 DEF OneTaker, Announced, Unposted, Attached, ExclusiveName,
         Holding, Took
<1>5. Announced'
  BY DEF Announced, OneTaker, Unposted, Attached, ExclusiveName,
         Holding, Took
<1>6. Answered'
  BY <1>0, SMTT(20) DEF Answered, OneTaker, Announced, Unposted, Attached,
         ExclusiveName, Holding, Acked, Took
<1>7. Acknowledged'
  BY <1>0, SMTT(20) DEF Acknowledged, Released, Answered, OneTaker, Announced,
         Unposted, Attached, ExclusiveName, Holding, Acked, Took
<1>. QED
  BY <1>1, <1>2, <1>3, <1>4, <1>5, <1>6, <1>7

LEMMA WriteStep ==
    ASSUME IInv, NEW w \in Writers, Write(w)
    PROVE  IInv'
<1> USE ConstantsAssumption DEF IInv, Write, WGoto, WriteMessage,
           TypeOK, Procs, Objects, Sems
<1>0. shm_ptr[w] = w
  BY DEF ExclusiveName, Holding
<1>1. TypeOK'
  BY <1>0 DEF WriterPC, ReaderPC
<1>2. ExclusiveName'
  BY <1>0 DEF ExclusiveName, Holding, Attached
<1>3. Attached'
  BY <1>0 DEF Attached, ExclusiveName, Holding
<1>4. OneTaker'
  BY <1>0 DEF OneTaker, Announced, Unposted, Attached, ExclusiveName,
         Holding, Took
<1>5. Announced'
  BY <1>0 DEF Announced, OneTaker, Unposted, Attached, ExclusiveName,
         Holding, Took
<1>6. Answered'
  BY <1>0 DEF Answered, OneTaker, Announced, Unposted, Attached,
         ExclusiveName, Holding, Acked, Took
<1>7. Acknowledged'
  BY <1>0 DEF Acknowledged, Released, Answered, OneTaker, Announced,
         Unposted, Attached, ExclusiveName, Holding, Acked, Took
<1>. QED
  BY <1>1, <1>2, <1>3, <1>4, <1>5, <1>6, <1>7

LEMMA PostStep ==
    ASSUME IInv, NEW w \in Writers, Post(w)
    PROVE  IInv'
<1> USE ConstantsAssumption DEF IInv, Post, WGoto, SemPost,
           TypeOK, Procs, Objects, Sems
<1>0. shm_ptr[w] = w
  BY DEF ExclusiveName, Holding
<1>1. TypeOK'
  <2>1. value[w]["data_ready"] = 0
    BY <1>0 DEF Announced, Unposted
  <2>2. value' \in [Objects -> [Sems -> {0, 1}]]
    BY <1>0, <2>1
  <2>. QED
    BY <2>2 DEF WriterPC, ReaderPC
<1>2. ExclusiveName'
  BY <1>0 DEF ExclusiveName, Holding, Attached
<1>3. Attached'
  BY <1>0 DEF Attached, ExclusiveName, Holding
<1>4. OneTaker'
  BY <1>0 DEF OneTaker, Announced, Unposted, Attached, ExclusiveName,
         Holding, Took
<1>5. Announced'
  BY <1>0 DEF Announced, OneTaker, Unposted, Attached, ExclusiveName,
         Holding, Took
<1>6. Answered'
  BY <1>0 DEF Answered, OneTaker, Announced, Unposted, Attached,
         ExclusiveName, Holding, Acked, Took
<1>7. Acknowledged'
  BY <1>0 DEF Acknowledged, Released, Answered, OneTaker, Announced,
         Unposted, Attached, ExclusiveName, Holding, Acked, Took
<1>. QED
  BY <1>1, <1>2, <1>3, <1>4, <1>5, <1>6, <1>7

LEMMA WaitStep ==
    ASSUME IInv, NEW w \in Writers, Wait(w)
    PROVE  IInv'
<1> USE ConstantsAssumption DEF IInv, Wait, WGoto, AwaitReader, SemWait,
           TypeOK, Procs, Objects, Sems
<1>0. shm_ptr[w] = w
  BY DEF ExclusiveName, Holding
<1>1. TypeOK'
  <2>1. value[w]["reader_done"] = 1
    BY <1>0
  <2>2. value' \in [Objects -> [Sems -> {0, 1}]]
    BY <1>0, <2>1
  <2>. QED
    BY <2>2 DEF WriterPC, ReaderPC
<1>2. ExclusiveName'
  BY <1>0 DEF ExclusiveName, Holding, Attached
<1>3. Attached'
  BY <1>0 DEF Attached, ExclusiveName, Holding
<1>4. OneTaker'
  BY <1>0 DEF OneTaker, Announced, Unposted, Attached, ExclusiveName,
         Holding, Took
<1>5. Announced'
  BY <1>0 DEF Announced, OneTaker, Unposted, Attached, ExclusiveName,
         Holding, Took
<1>6. Answered'
  BY <1>0 DEF Answered, OneTaker, Announced, Unposted, Attached,
         ExclusiveName, Holding, Acked, Took
<1>7. Acknowledged'
  BY <1>0 DEF Acknowledged, Released, Answered, OneTaker, Announced,
         Unposted, Attached, ExclusiveName, Holding, Acked, Took
<1>. QED
  BY <1>1, <1>2, <1>3, <1>4, <1>5, <1>6, <1>7

LEMMA DestroyStep ==
    ASSUME IInv, NEW w \in Writers, Destroy(w)
    PROVE  IInv'
<1> USE ConstantsAssumption DEF IInv, Destroy, WGoto,
           TypeOK, Procs, Objects, Sems
<1>0. shm_ptr[w] = w
  BY DEF ExclusiveName, Holding
<1>1. TypeOK'
  BY DEF WriterPC, ReaderPC
<1>2. ExclusiveName'
  BY <1>0 DEF ExclusiveName, Holding, Attached
<1>3. Attached'
  BY <1>0 DEF Attached, ExclusiveName, Holding
<1>4. OneTaker'
  BY <1>0 DEF OneTaker, Announced, Unposted, Attached, ExclusiveName,
         Holding, Took
<1>5. Announced'
  BY <1>0 DEF Announced, OneTaker, Unposted, Attached, ExclusiveName,
         Holding, Took
<1>6. Answered'
  BY <1>0 DEF Answered, OneTaker, Announced, Unposted, Attached,
         ExclusiveName, Holding, Acked, Took
<1>7. Acknowledged'
  BY <1>0, SMTT(20) DEF Acknowledged, Released, Answered, OneTaker, Announced,
         Unposted, Attached, ExclusiveName, Holding, Acked, Took
<1>. QED
  BY <1>1, <1>2, <1>3, <1>4, <1>5, <1>6, <1>7

LEMMA MunmapStep ==
    ASSUME IInv, NEW w \in Writers, Munmap(w)
    PROVE  IInv'
<1> USE ConstantsAssumption DEF IInv, Munmap, WGoto, region,
           TypeOK, Procs, Objects, Sems
<1>1. TypeOK'
  BY DEF WriterPC, ReaderPC
<1>2. ExclusiveName'
  BY DEF ExclusiveName, Holding, Attached
<1>3. Attached'
  BY DEF Attached, ExclusiveName, Holding
<1>4. OneTaker'
  BY DEF OneTaker, Announced, Unposted, Attached, ExclusiveName,
         Holding, Took
<1>5. Announced'
  BY DEF Announced, OneTaker, Unposted, Attached, ExclusiveName,
         Holding, Took
<1>6. Answered'
  BY DEF Answered, OneTaker, Announced, Unposted, Attached,
         ExclusiveName, Holding, Acked, Took
<1>7. Acknowledged'
  BY DEF Acknowledged, Released, Answered, OneTaker, Announced,
         Unposted, Attached, ExclusiveName, Holding, Acked, Took
<1>. QED
  BY <1>1, <1>2, <1>3, <1>4, <1>5, <1>6, <1>7

LEMMA UnlinkStep ==
    ASSUME IInv, NEW w \in Writers, Unlink(w)
    PROVE  IInv'
<1> USE ConstantsAssumption DEF IInv, Unlink, WGoto, region,
           TypeOK, Procs, Objects, Sems
<1>1. TypeOK'
  BY DEF WriterPC, ReaderPC
<1>2. ExclusiveName'
  BY DEF ExclusiveName, Holding, Attached
<1>3. Attached'
  BY DEF Attached, ExclusiveName, Holding
<1>4. OneTaker'
  BY DEF OneTaker, Announced, Unposted, Attached, ExclusiveName,
         Holding, Took
<1>5. Announced'
  BY DEF Announced, OneTaker, Unposted, Attached, ExclusiveName,
         Holding, Took
<1>6. Answered'
  BY DEF Answered, OneTaker, Announced, Unposted, Attached,
         ExclusiveName, Holding, Acked, Took
<1>7. Acknowledged'
  BY DEF Acknowledged, Released, Answered, OneTaker, Announced,
         Unposted, Attached, ExclusiveName, Holding, Acked, Took
<1>. QED
  BY <1>1, <1>2, <1>3, <1>4, <1>5, <1>6, <1>7

LEMMA WriterFailsStep ==
    ASSUME IInv, NEW w \in Writers, WriterFails(w)
    PROVE  IInv'
<1> USE ConstantsAssumption DEF IInv, WriterFails, CleanupFrom, region,
           TypeOK, Procs, Objects, Sems
<1>1. TypeOK'
  BY DEF WriterPC, ReaderPC
<1>2. ExclusiveName'
  BY DEF ExclusiveName, Holding, Attached
<1>3. Attached'
  BY DEF Attached, ExclusiveName, Holding
<1>4. OneTaker'
  BY DEF OneTaker, Announced, Unposted, Attached, ExclusiveName,
         Holding, Took
<1>5. Announced'
  BY DEF Announced, OneTaker, Unposted, Attached, ExclusiveName,
         Holding, Took
<1>6. Answered'
  BY DEF Answered, OneTaker, Announced, Unposted, Attached,
         ExclusiveName, Holding, Acked, Took
<1>7. Acknowledged'
  BY DEF Acknowledged, Released, Answered, OneTaker, Announced,
         Unposted, Attached, ExclusiveName, Holding, Acked, Took
<1>. QED
  BY <1>1, <1>2, <1>3, <1>4, <1>5, <1>6, <1>7

-----------------------------------------------------------------------------
(* The steps of the reader. *)

LEMMA AttachStep ==
    ASSUME IInv, NEW r \in Readers, Attach(r)
    PROVE  IInv'
<1> USE ConstantsAssumption DEF IInv, Attach, RGoto, region,
           TypeOK, Procs, Objects, Sems
<1>1. TypeOK'
  BY DEF WriterPC, ReaderPC
<1>2. ExclusiveName'
  BY DEF ExclusiveName, Holding, Attached
<1>3. Attached'
  BY DEF Attached, ExclusiveName, Holding
<1>4. OneTaker'
  BY DEF OneTaker, Announced, Unposted, Attached, ExclusiveName,
         Holding, Took
<1>5. Announced'
  BY DEF Announced, OneTaker, Unposted, Attached, ExclusiveName,
         Holding, Took
<1>6. Answered'
  BY SMTT(20) DEF Answered, OneTaker, Announced, Unposted, Attached,
         ExclusiveName, Holding, Acked, Took
<1>7. Acknowledged'
  BY DEF Acknowledged, Released, Answered, OneTaker, Announced,
         Unposted, Attached, ExclusiveName, Holding, Acked, Took
<1>. QED
  BY <1>1, <1>2, <1>3, <1>4, <1>5, <1>6, <1>7

LEMMA AttachFailsStep ==
    ASSUME IInv, NEW r \in Readers, AttachFails(r)
    PROVE  IInv'
<1> USE ConstantsAssumption DEF IInv, AttachFails, RGoto, region,
           TypeOK, Procs, Objects, Sems
<1>1. TypeOK'
  BY DEF WriterPC, ReaderPC
<1>2. ExclusiveName'
  BY DEF ExclusiveName, Holding, Attached
<1>3. Attached'
  BY DEF Attached, ExclusiveName, Holding
<1>4. OneTaker'
  BY DEF OneTaker, Announced, Unposted, Attached, ExclusiveName,
         Holding, Took
<1>5. Announced'
  BY DEF Announced, OneTaker, Unposted, Attached, ExclusiveName,
         Holding, Took
<1>6. Answered'
  BY DEF Answered, OneTaker, Announced, Unposted, Attached,
         ExclusiveName, Holding, Acked, Took
<1>7. Acknowledged'
  BY DEF Acknowledged, Released, Answered, OneTaker, Announced,
         Unposted, Attached, ExclusiveName, Holding, Acked, Took
<1>. QED
  BY <1>1, <1>2, <1>3, <1>4, <1>5, <1>6, <1>7

LEMMA MapReaderStep ==
    ASSUME IInv, NEW r \in Readers, MapReader(r)
    PROVE  IInv'
<1> USE ConstantsAssumption DEF IInv, MapReader, RGoto, region,
           TypeOK, Procs, Objects, Sems
<1>1. TypeOK'
  BY DEF WriterPC, ReaderPC
<1>2. ExclusiveName'
  BY DEF ExclusiveName, Holding, Attached
<1>3. Attached'
  BY DEF Attached, ExclusiveName, Holding
<1>4. OneTaker'
  BY DEF OneTaker, Announced, Unposted, Attached, ExclusiveName,
         Holding, Took
<1>5. Announced'
  BY DEF Announced, OneTaker, Unposted, Attached, ExclusiveName,
         Holding, Took
<1>6. Answered'
  BY DEF Answered, OneTaker, Announced, Unposted, Attached,
         ExclusiveName, Holding, Acked, Took
<1>7. Acknowledged'
  BY SMTT(20) DEF Acknowledged, Released, Answered, OneTaker, Announced,
         Unposted, Attached, ExclusiveName, Holding, Acked, Took
<1>. QED
  BY <1>1, <1>2, <1>3, <1>4, <1>5, <1>6, <1>7

LEMMA WaitDataStep ==
    ASSUME IInv, NEW r \in Readers, WaitData(r)
    PROVE  IInv'
<1> USE ConstantsAssumption DEF IInv, WaitData, RGoto, region,
           TypeOK, Procs, Objects, Sems
<1>1. TypeOK'
  BY DEF WriterPC, ReaderPC
<1>2. ExclusiveName'
  BY DEF ExclusiveName, Holding, Attached
<1>3. Attached'
  BY DEF Attached, ExclusiveName, Holding
<1>4. OneTaker'
  BY DEF OneTaker, Announced, Unposted, Attached, ExclusiveName,
         Holding, Took
<1>5. Announced'
  BY DEF Announced, OneTaker, Unposted, Attached, ExclusiveName,
         Holding, Took
<1>6. Answered'
  BY DEF Answered, OneTaker, Announced, Unposted, Attached,
         ExclusiveName, Holding, Acked, Took
<1>7. Acknowledged'
  BY DEF Acknowledged, Released, Answered, OneTaker, Announced,
         Unposted, Attached, ExclusiveName, Holding, Acked, Took
<1>. QED
  BY <1>1, <1>2, <1>3, <1>4, <1>5, <1>6, <1>7

LEMMA WakeStep ==
    ASSUME IInv, NEW r \in Readers, Wake(r)
    PROVE  IInv'
<1> USE ConstantsAssumption DEF IInv, Wake, RGoto, TakeData, SemWait,
           TypeOK, Procs, Objects, Sems
<1>1. TypeOK'
  <2>1. shm_ptr[r] \in Objects /\ value[shm_ptr[r]]["data_ready"] = 1
    BY DEF Attached
  <2>2. value' \in [Objects -> [Sems -> {0, 1}]]
    BY <2>1
  <2>. QED
    BY <2>2 DEF WriterPC, ReaderPC
<1>2. ExclusiveName'
  BY DEF ExclusiveName, Holding, Attached
<1>3. Attached'
  BY DEF Attached, ExclusiveName, Holding
<1>4. OneTaker'
  BY DEF OneTaker, Announced, Unposted, Attached, ExclusiveName,
         Holding, Took
<1>5. Announced'
  BY DEF Announced, OneTaker, Unposted, Attached, ExclusiveName,
         Holding, Took
<1>6. Answered'
  BY DEF Answered, OneTaker, Announced, Unposted, Attached,
         ExclusiveName, Holding, Acked, Took
<1>7. Acknowledged'
  BY DEF Acknowledged, Released, Answered, OneTaker, Announced,
         Unposted, Attached, ExclusiveName, Holding, Acked, Took
<1>. QED
  BY <1>1, <1>2, <1>3, <1>4, <1>5, <1>6, <1>7

LEMMA ReadStep ==
    ASSUME IInv, NEW r \in Readers, Read(r)
    PROVE  IInv'
<1> USE ConstantsAssumption DEF IInv, Read, RGoto, region,
           TypeOK, Procs, Objects, Sems
<1>1. TypeOK'
  BY DEF WriterPC, ReaderPC
<1>2. ExclusiveName'
  BY DEF ExclusiveName, Holding, Attached
<1>3. Attached'
  BY DEF Attached, ExclusiveName, Holding
<1>4. OneTaker'
  BY DEF OneTaker, Announced, Unposted, Attached, ExclusiveName,
         Holding, Took
<1>5. Announced'
  BY DEF Announced, OneTaker, Unposted, Attached, ExclusiveName,
         Holding, Took
<1>6. Answered'
  BY DEF Answered, OneTaker, Announced, Unposted, Attached,
         ExclusiveName, Holding, Acked, Took
<1>7. Acknowledged'
  BY DEF Acknowledged, Released, Answered, OneTaker, Announced,
         Unposted, Attached, ExclusiveName, Holding, Acked, Took
<1>. QED
  BY <1>1, <1>2, <1>3, <1>4, <1>5, <1>6, <1>7

LEMMA PostDoneStep ==
    ASSUME IInv, NEW r \in Readers, PostDone(r)
    PROVE  IInv'
<1> USE ConstantsAssumption DEF IInv, PostDone, RGoto, Acknowledge, SemPost,
           TypeOK, Procs, Objects, Sems
<1>1. TypeOK'
  <2>1. shm_ptr[r] \in Objects
    BY DEF Attached
  <2>2. value[shm_ptr[r]]["reader_done"] = 0
    BY <2>1 DEF Answered, OneTaker, Acked, Took
  <2>3. value' \in [Objects -> [Sems -> {0, 1}]]
    BY <2>1, <2>2
  <2>. QED
    BY <2>3 DEF WriterPC, ReaderPC
<1>2. ExclusiveName'
  BY DEF ExclusiveName, Holding, Attached
<1>3. Attached'
  BY DEF Attached, ExclusiveName, Holding
<1>4. OneTaker'
  BY DEF OneTaker, Announced, Unposted, Attached, ExclusiveName,
         Holding, Took
<1>5. Announced'
  BY DEF Announced, OneTaker, Unposted, Attached, ExclusiveName,
         Holding, Took
<1>6. Answered'
  BY DEF Answered, OneTaker, Announced, Unposted, Attached,
         ExclusiveName, Holding, Acked, Took
<1>7. Acknowledged'
  BY DEF Acknowledged, Released, Answered, OneTaker, Announced,
         Unposted, Attached, ExclusiveName, Holding, Acked, Took
<1>. QED
  BY <1>1, <1>2, <1>3, <1>4, <1>5, <1>6, <1>7

LEMMA DetachStep ==
    ASSUME IInv, NEW r \in Readers, Detach(r)
    PROVE  IInv'
<1> USE ConstantsAssumption DEF IInv, Detach, RGoto, region,
           TypeOK, Procs, Objects, Sems
<1>1. TypeOK'
  BY DEF WriterPC, ReaderPC
<1>2. ExclusiveName'
  BY DEF ExclusiveName, Holding, Attached
<1>3. Attached'
  BY DEF Attached, ExclusiveName, Holding
<1>4. OneTaker'
  BY DEF OneTaker, Announced, Unposted, Attached, ExclusiveName,
         Holding, Took
<1>5. Announced'
  BY DEF Announced, OneTaker, Unposted, Attached, ExclusiveName,
         Holding, Took
<1>6. Answered'
  BY DEF Answered, OneTaker, Announced, Unposted, Attached,
         ExclusiveName, Holding, Acked, Took
<1>7. Acknowledged'
  BY DEF Acknowledged, Released, Answered, OneTaker, Announced,
         Unposted, Attached, ExclusiveName, Holding, Acked, Took
<1>. QED
  BY <1>1, <1>2, <1>3, <1>4, <1>5, <1>6, <1>7

LEMMA ReaderFailsStep ==
    ASSUME IInv, NEW r \in Readers, ReaderFails(r)
    PROVE  IInv'
<1> USE ConstantsAssumption DEF IInv, ReaderFails, region,
           TypeOK, Procs, Objects, Sems
<1>1. TypeOK'
  BY DEF WriterPC, ReaderPC
<1>2. ExclusiveName'
  BY DEF ExclusiveName, Holding, Attached
<1>3. Attached'
  BY DEF Attached, ExclusiveName, Holding
<1>4. OneTaker'
  BY DEF OneTaker, Announced, Unposted, Attached, ExclusiveName,
         Holding, Took
<1>5. Announced'
  BY DEF Announced, OneTaker, Unposted, Attached, ExclusiveName,
         Holding, Took
<1>6. Answered'
  BY DEF Answered, OneTaker, Announced, Unposted, Attached,
         ExclusiveName, Holding, Acked, Took
<1>7. Acknowledged'
  BY DEF Acknowledged, Released, Answered, OneTaker, Announced,
         Unposted, Attached, ExclusiveName, Holding, Acked, Took
<1>. QED
  BY <1>1, <1>2, <1>3, <1>4, <1>5, <1>6, <1>7

-----------------------------------------------------------------------------
LEMMA KilledStep ==
    ASSUME IInv, NEW p \in Procs, Killed(p)
    PROVE  IInv'
<1> USE ConstantsAssumption DEF IInv, Killed, region
<1>1. TypeOK'
  BY DEF TypeOK
<1>2. ExclusiveName' /\ Attached'
  BY DEF ExclusiveName, Holding, Attached
<1>3. OneTaker' /\ Announced' /\ Answered'
  BY DEF OneTaker, Announced, Unposted, Answered, Acked, Took
<1>4. Acknowledged'
  BY DEF Acknowledged, Released, Acked, Took
<1>. QED
  BY <1>1, <1>2, <1>3, <1>4

LEMMA Stuttering ==
    ASSUME IInv, UNCHANGED vars
    PROVE  IInv'
BY DEF IInv, vars, control, region, TypeOK, ExclusiveName, Holding, Attached,
       OneTaker, Announced, Unposted, Answered, Acknowledged, Released,
       Acked, Took

LEMMA NextIInv ==
    ASSUME IInv, [Next]_vars
    PROVE  IInv'
<1>1. ASSUME NEW w \in Writers, Writer(w) \/ WriterFails(w)
      PROVE  IInv'
  BY <1>1, OpenStep, OpenFailsStep, TruncateStep, MapStep, InitSemsStep,
     WriteStep, PostStep, WaitStep, DestroyStep, MunmapStep, UnlinkStep,
     WriterFailsStep
     DEF Writer
<1>2. ASSUME NEW r \in Readers, Reader(r) \/ ReaderFails(r)
      PROVE  IInv'
  BY <1>2, AttachStep, AttachFailsStep, MapReaderStep, WaitDataStep, WakeStep,
     ReadStep, PostDoneStep, DetachStep, ReaderFailsStep
     DEF Reader
<1>. QED
  BY <1>1, <1>2, KilledStep, Stuttering DEF Next

(* The inductive invariant holds, whatever fails or is killed.             *)
THEOREM Invariance == Spec => []IInv
<1>1. IInv /\ [Next]_vars => IInv'
  BY NextIInv
<1>. QED
  BY InitIInv, <1>1, PTL DEF Spec

(* Types; the semaphores in the shared region never count above one.       *)
THEOREM TypeCorrect == Spec => []TypeOK
<1>1. IInv => TypeOK
  BY DEF IInv
<1>. QED
  BY Invariance, <1>1, PTL

(* O_EXCL makes the name a lock: no writer touches the object of another.  *)
THEOREM OneWriterAtATime == Spec => []ExclusiveName
<1>1. IInv => ExclusiveName
  BY DEF IInv
<1>. QED
  BY Invariance, <1>1, PTL

(* No reader reads the region before the message has been written to it.   *)
THEOREM NothingUnwrittenRead == Spec => []ReadsWritten
<1>1. IInv => ReadsWritten
  BY DEF IInv, ReadsWritten, Announced, Attached, Took, TypeOK, Procs, Objects
<1>. QED
  BY Invariance, <1>1, PTL

(* A message is taken by one reader only, however many wait for it.        *)
THEOREM ReadOnce == Spec => []OneTaker
<1>1. IInv => OneTaker
  BY DEF IInv
<1>. QED
  BY Invariance, <1>1, PTL

(* A writer that has met no failure destroys the semaphores only when its  *)
(* reader has made its last use of them.                                   *)
THEOREM AnsweredBeforeCleanup == Spec => []Acknowledged
<1>1. IInv => Acknowledged
  BY DEF IInv
<1>. QED
  BY Invariance, <1>1, PTL

(* Every way out of the writer, but a kill or a failing shm_unlink, leaves *)
(* no object behind.                                                       *)
THEOREM NothingLeft == Spec => []LeavesNothing
<1>1. IInv => LeavesNothing
  BY ConstantsAssumption
     DEF IInv, LeavesNothing, Attached, Holding, TypeOK, Objects
<1>. QED
  BY Invariance, <1>1, PTL
=============================================================================
