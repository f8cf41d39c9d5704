-------------------------- MODULE ReadyQueueProofs --------------------------
(***************************************************************************)
(* Proofs about ReadyQueue, for every number of threads N: IInv is         *)
(* inductive, so it holds in every reachable state, and with it the safety *)
(* properties of 10_9; and ReadyQueue implements FifoRelease.              *)
(***************************************************************************)
EXTENDS ReadyQueue, FiniteSetTheorems, SequenceTheorems, TLAPS

(* An index below the last slot moves without wrapping around.             *)
LEMMA Modulo ==
    ASSUME NEW s \in Nat, s < N
    PROVE  NextSlot(s) = s + 1
BY ConstantsAssumption DEF NextSlot, QueueSize

(* There are N workers, and no set of workers is larger.                   *)
LEMMA WorkersFinite ==
    /\ IsFiniteSet(Workers)
    /\ Cardinality(Workers) = N
    /\ \A S \in SUBSET Workers :
          /\ IsFiniteSet(S)
          /\ Cardinality(S) \in 0 .. N
          /\ (Cardinality(S) = N) => (S = Workers)
<1>1. IsFiniteSet(Workers) /\ Cardinality(Workers) = N
  BY FS_Interval, ConstantsAssumption DEF Workers
<1>2. ASSUME NEW S \in SUBSET Workers
      PROVE  /\ IsFiniteSet(S)
             /\ Cardinality(S) \in 0 .. N
             /\ (Cardinality(S) = N) => (S = Workers)
  <2>1. /\ IsFiniteSet(S)
        /\ Cardinality(S) <= N
        /\ (Cardinality(S) = N) => (S = Workers)
    BY <1>1, FS_Subset
  <2>2. Cardinality(S) \in Nat
    BY <2>1, FS_CardinalityType
  <2>. QED
    BY <2>1, <2>2, ConstantsAssumption
<1>. QED
  BY <1>1, <1>2

-----------------------------------------------------------------------------
(* Steps that touch neither the queue, nor who has pushed, is released or  *)
(* in flight, keep QueueOrder.                                             *)
LEMMA QueueFrame ==
    ASSUME TypeOK, QueueOrder, UNCHANGED <<queue, to_proceed, id>>,
           \A v \in Workers : HasPushed(v)' <=> HasPushed(v),
           mpc' \in {"unlock_pop", "lock_t", "release"} <=>
               mpc \in {"unlock_pop", "lock_t", "release"},
           mpc' \in {"signal_t", "unlock_t"} =>
               mpc \in {"signal_t", "unlock_t"}
    PROVE  QueueOrder'
<1>1. Pushed' = Pushed
  BY DEF Pushed
<1>2. Released' = Released
  BY DEF Released
<1>. QED
  BY <1>1, <1>2 DEF TypeOK, QueueOrder, InFlight, queue

(* While a worker has not pushed, the tail is not at the last slot.        *)
LEMMA RoomToPush ==
    ASSUME TypeOK, QueueOrder, NEW w \in Workers, ~HasPushed(w)
    PROVE  rq_tail \in 0 .. (N - 1)
<1>1. Pushed \in SUBSET Workers /\ Pushed # Workers
  BY DEF Pushed
<1>2. Cardinality(Pushed) \in 0 .. N /\ Cardinality(Pushed) # N
  BY <1>1, WorkersFinite
<1>. QED
  BY <1>2, ConstantsAssumption DEF QueueOrder

LEMMA WorkerLockStep ==
    ASSUME IInv, NEW w \in Workers, WorkerLock(w)
    PROVE  IInv'
<1> USE ConstantsAssumption
        DEF WorkerLock, LockForPush, WakeUp, WorkerGoto, Lock, CondResume, locals, queue, flags, sync, Threads,
            Mutexes
<1>1. TypeOK' /\ Counting' /\ Progress' /\ Lifetime'
  BY DEF IInv, TypeOK, WorkerPC, MainPC, Counting, Released, Collected,
         Progress, Lifetime
<1>2. Ownership' /\ WaitSets' /\ Wakeups'
  BY DEF IInv, TypeOK, Ownership, LockDiscipline, WorkerHoldsOwn,
         WorkerHoldsG, MainHoldsG, MainHoldsT, WaitSets, Wakeups,
         NoLostWakeup, QueueEmpty
<1>3. QueueOrder'
  <2>1. \A v \in Workers : HasPushed(v)' <=> HasPushed(v)
    BY DEF IInv, TypeOK, HasPushed
  <2>. QED
    BY <2>1, QueueFrame DEF IInv
<1>. QED
  BY <1>1, <1>2, <1>3 DEF IInv

LEMMA WorkerUnlockStep ==
    ASSUME IInv, NEW w \in Workers, WorkerUnlock(w)
    PROVE  IInv'
<1> USE ConstantsAssumption
        DEF WorkerUnlock, WorkerGoto, Unlock, locals, queue, flags, sync, Threads,
            Mutexes
<1>1. TypeOK' /\ Counting' /\ Progress' /\ Lifetime'
  BY DEF IInv, TypeOK, WorkerPC, MainPC, Counting, Released, Collected,
         Progress, Lifetime
<1>2. Ownership' /\ WaitSets' /\ Wakeups'
  BY DEF IInv, TypeOK, Ownership, LockDiscipline, WorkerHoldsOwn,
         WorkerHoldsG, MainHoldsG, MainHoldsT, WaitSets, Wakeups,
         NoLostWakeup, QueueEmpty
<1>3. QueueOrder'
  <2>1. \A v \in Workers : HasPushed(v)' <=> HasPushed(v)
    BY DEF IInv, TypeOK, HasPushed
  <2>. QED
    BY <2>1, QueueFrame DEF IInv
<1>. QED
  BY <1>1, <1>2, <1>3 DEF IInv

LEMMA WorkerReadyStep ==
    ASSUME IInv, NEW w \in Workers, WorkerReady(w)
    PROVE  IInv'
<1> USE ConstantsAssumption
        DEF WorkerReady, WorkerGoto, locals, queue, flags, sync, Threads,
            Mutexes
<1>1. TypeOK' /\ Counting' /\ Progress' /\ Lifetime'
  BY DEF IInv, TypeOK, WorkerPC, MainPC, Counting, Released, Collected,
         Progress, Lifetime
<1>2. Ownership' /\ WaitSets' /\ Wakeups'
  BY DEF IInv, TypeOK, Ownership, LockDiscipline, WorkerHoldsOwn,
         WorkerHoldsG, MainHoldsG, MainHoldsT, WaitSets, Wakeups,
         NoLostWakeup, QueueEmpty
<1>3. QueueOrder'
  <2>1. \A v \in Workers : HasPushed(v)' <=> HasPushed(v)
    BY DEF IInv, TypeOK, HasPushed
  <2>. QED
    BY <2>1, QueueFrame DEF IInv
<1>. QED
  BY <1>1, <1>2, <1>3 DEF IInv

LEMMA WorkerSignalStep ==
    ASSUME IInv, NEW w \in Workers, WorkerSignal(w)
    PROVE  IInv'
<1> USE ConstantsAssumption
        DEF WorkerSignal, WorkerGoto, CondSignal, locals, queue, flags, sync, Threads,
            Mutexes
<1>1. TypeOK' /\ Counting' /\ Progress' /\ Lifetime'
  BY DEF IInv, TypeOK, WorkerPC, MainPC, Counting, Released, Collected,
         Progress, Lifetime
<1>2. Ownership' /\ WaitSets' /\ Wakeups'
  BY DEF IInv, TypeOK, Ownership, LockDiscipline, WorkerHoldsOwn,
         WorkerHoldsG, MainHoldsG, MainHoldsT, WaitSets, Wakeups,
         NoLostWakeup, QueueEmpty
<1>3. QueueOrder'
  <2>1. \A v \in Workers : HasPushed(v)' <=> HasPushed(v)
    BY DEF IInv, TypeOK, HasPushed
  <2>. QED
    BY <2>1, QueueFrame DEF IInv
<1>. QED
  BY <1>1, <1>2, <1>3 DEF IInv

LEMMA WorkerTestStep ==
    ASSUME IInv, NEW w \in Workers, WorkerTest(w)
    PROVE  IInv'
<1> USE ConstantsAssumption
        DEF WorkerTest, WorkerGoto, locals, queue, flags, sync, Threads,
            Mutexes
<1>1. TypeOK' /\ Counting' /\ Progress' /\ Lifetime'
  BY DEF IInv, TypeOK, WorkerPC, MainPC, Counting, Released, Collected,
         Progress, Lifetime
<1>2. Ownership' /\ WaitSets' /\ Wakeups'
  BY DEF IInv, TypeOK, Ownership, LockDiscipline, WorkerHoldsOwn,
         WorkerHoldsG, MainHoldsG, MainHoldsT, WaitSets, Wakeups,
         NoLostWakeup, QueueEmpty
<1>3. QueueOrder'
  <2>1. \A v \in Workers : HasPushed(v)' <=> HasPushed(v)
    BY DEF IInv, TypeOK, HasPushed
  <2>. QED
    BY <2>1, QueueFrame DEF IInv
<1>. QED
  BY <1>1, <1>2, <1>3 DEF IInv

LEMMA WorkerWaitStep ==
    ASSUME IInv, NEW w \in Workers, WorkerWait(w)
    PROVE  IInv'
<1> USE ConstantsAssumption
        DEF WorkerWait, WorkerGoto, CondWait, Unlock, locals, queue, flags, sync, Threads,
            Mutexes
<1>1. TypeOK' /\ Counting' /\ Progress' /\ Lifetime'
  BY DEF IInv, TypeOK, WorkerPC, MainPC, Counting, Released, Collected,
         Progress, Lifetime
<1>2. Ownership' /\ WaitSets' /\ Wakeups'
  BY DEF IInv, TypeOK, Ownership, LockDiscipline, WorkerHoldsOwn,
         WorkerHoldsG, MainHoldsG, MainHoldsT, WaitSets, Wakeups,
         NoLostWakeup, QueueEmpty
<1>3. QueueOrder'
  <2>1. \A v \in Workers : HasPushed(v)' <=> HasPushed(v)
    BY DEF IInv, TypeOK, HasPushed
  <2>. QED
    BY <2>1, QueueFrame DEF IInv
<1>. QED
  BY <1>1, <1>2, <1>3 DEF IInv

LEMMA WorkerExitStep ==
    ASSUME IInv, NEW w \in Workers, WorkerExit(w)
    PROVE  IInv'
<1> USE ConstantsAssumption
        DEF WorkerExit, WorkerGoto, locals, queue, flags, sync, Threads,
            Mutexes
<1>1. TypeOK' /\ Counting' /\ Progress' /\ Lifetime'
  BY DEF IInv, TypeOK, WorkerPC, MainPC, Counting, Released, Collected,
         Progress, Lifetime
<1>2. Ownership' /\ WaitSets' /\ Wakeups'
  BY DEF IInv, TypeOK, Ownership, LockDiscipline, WorkerHoldsOwn,
         WorkerHoldsG, MainHoldsG, MainHoldsT, WaitSets, Wakeups,
         NoLostWakeup, QueueEmpty
<1>3. QueueOrder'
  <2>1. \A v \in Workers : HasPushed(v)' <=> HasPushed(v)
    BY DEF IInv, TypeOK, HasPushed
  <2>. QED
    BY <2>1, QueueFrame DEF IInv
<1>. QED
  BY <1>1, <1>2, <1>3 DEF IInv

LEMMA MainLockStep ==
    ASSUME IInv, MainLock
    PROVE  IInv'
<1> USE ConstantsAssumption
        DEF MainLock, MainGoto, Lock, CondResume, locals, queue, flags, sync, Threads,
            Mutexes
<1>1. TypeOK' /\ Counting' /\ Progress' /\ Lifetime'
  BY DEF IInv, TypeOK, WorkerPC, MainPC, Counting, Released, Collected,
         Progress, Lifetime
<1>2. Ownership' /\ WaitSets' /\ Wakeups'
  BY DEF IInv, TypeOK, Ownership, LockDiscipline, WorkerHoldsOwn,
         WorkerHoldsG, MainHoldsG, MainHoldsT, WaitSets, Wakeups,
         NoLostWakeup, QueueEmpty
<1>3. QueueOrder'
  <2>1. \A v \in Workers : HasPushed(v)' <=> HasPushed(v)
    BY DEF IInv, TypeOK, HasPushed
  <2>. QED
    BY <2>1, QueueFrame DEF IInv
<1>. QED
  BY <1>1, <1>2, <1>3 DEF IInv

LEMMA MainUnlockStep ==
    ASSUME IInv, MainUnlock
    PROVE  IInv'
<1> USE ConstantsAssumption
        DEF MainUnlock, MainGoto, UnlockToRelease, Unlock, locals, queue, flags, sync, Threads,
            Mutexes
<1>1. TypeOK' /\ Counting' /\ Progress' /\ Lifetime'
  BY DEF IInv, TypeOK, WorkerPC, MainPC, Counting, Released, Collected,
         Progress, Lifetime
<1>2. Ownership' /\ WaitSets' /\ Wakeups'
  BY DEF IInv, TypeOK, Ownership, LockDiscipline, WorkerHoldsOwn,
         WorkerHoldsG, MainHoldsG, MainHoldsT, WaitSets, Wakeups,
         NoLostWakeup, QueueEmpty
<1>3. QueueOrder'
  <2>1. \A v \in Workers : HasPushed(v)' <=> HasPushed(v)
    BY DEF IInv, TypeOK, HasPushed
  <2>. QED
    BY <2>1, QueueFrame DEF IInv
<1>. QED
  BY <1>1, <1>2, <1>3 DEF IInv

LEMMA MainTestStep ==
    ASSUME IInv, MainTest
    PROVE  IInv'
<1> USE ConstantsAssumption
        DEF MainTest, MainGoto, QueueEmpty, locals, queue, flags, sync, Threads,
            Mutexes
<1>1. TypeOK' /\ Counting' /\ Progress' /\ Lifetime'
  BY DEF IInv, TypeOK, WorkerPC, MainPC, Counting, Released, Collected,
         Progress, Lifetime
<1>2. Ownership' /\ WaitSets' /\ Wakeups'
  BY DEF IInv, TypeOK, Ownership, LockDiscipline, WorkerHoldsOwn,
         WorkerHoldsG, MainHoldsG, MainHoldsT, WaitSets, Wakeups,
         NoLostWakeup, QueueEmpty
<1>3. QueueOrder'
  <2>1. \A v \in Workers : HasPushed(v)' <=> HasPushed(v)
    BY DEF IInv, TypeOK, HasPushed
  <2>. QED
    BY <2>1, QueueFrame DEF IInv
<1>. QED
  BY <1>1, <1>2, <1>3 DEF IInv

LEMMA MainWaitStep ==
    ASSUME IInv, MainWait
    PROVE  IInv'
<1> USE ConstantsAssumption
        DEF MainWait, MainGoto, CondWait, Unlock, locals, queue, flags, sync, Threads,
            Mutexes
<1>1. TypeOK' /\ Counting' /\ Progress' /\ Lifetime'
  BY DEF IInv, TypeOK, WorkerPC, MainPC, Counting, Released, Collected,
         Progress, Lifetime
<1>2. Ownership' /\ WaitSets' /\ Wakeups'
  BY DEF IInv, TypeOK, Ownership, LockDiscipline, WorkerHoldsOwn,
         WorkerHoldsG, MainHoldsG, MainHoldsT, WaitSets, Wakeups,
         NoLostWakeup, QueueEmpty
<1>3. QueueOrder'
  <2>1. \A v \in Workers : HasPushed(v)' <=> HasPushed(v)
    BY DEF IInv, TypeOK, HasPushed
  <2>. QED
    BY <2>1, QueueFrame DEF IInv
<1>. QED
  BY <1>1, <1>2, <1>3 DEF IInv

LEMMA MainSignalStep ==
    ASSUME IInv, MainSignal
    PROVE  IInv'
<1> USE ConstantsAssumption
        DEF MainSignal, MainGoto, CondSignal, locals, queue, flags, sync, Threads,
            Mutexes
<1>1. TypeOK' /\ Counting' /\ Progress' /\ Lifetime'
  BY DEF IInv, TypeOK, WorkerPC, MainPC, Counting, Released, Collected,
         Progress, Lifetime
<1>2. Ownership' /\ WaitSets' /\ Wakeups'
  BY DEF IInv, TypeOK, Ownership, LockDiscipline, WorkerHoldsOwn,
         WorkerHoldsG, MainHoldsG, MainHoldsT, WaitSets, Wakeups,
         NoLostWakeup, QueueEmpty
<1>3. QueueOrder'
  <2>1. \A v \in Workers : HasPushed(v)' <=> HasPushed(v)
    BY DEF IInv, TypeOK, HasPushed
  <2>. QED
    BY <2>1, QueueFrame DEF IInv
<1>. QED
  BY <1>1, <1>2, <1>3 DEF IInv

LEMMA LeaveLoopStep ==
    ASSUME IInv, LeaveLoop
    PROVE  IInv'
<1> USE ConstantsAssumption
        DEF LeaveLoop, MainGoto, AllReleased, locals, queue, flags, sync, Threads,
            Mutexes
<1>1. TypeOK' /\ Counting' /\ Lifetime'
  BY DEF IInv, TypeOK, WorkerPC, MainPC, Counting, Released, Collected,
         Lifetime
<1>2. Ownership' /\ WaitSets' /\ Wakeups'
  BY DEF IInv, TypeOK, Ownership, LockDiscipline, WorkerHoldsOwn,
         WorkerHoldsG, MainHoldsG, MainHoldsT, WaitSets, Wakeups,
         NoLostWakeup, QueueEmpty
<1>3. Progress'
  <2>1. Cardinality(Released) >= N
    BY DEF IInv, Counting
  <2>2. Released = Workers
    BY <2>1, WorkersFinite DEF Released
  <2>. QED
    BY <2>2 DEF IInv, TypeOK, Progress, Released
<1>4. QueueOrder'
  <2>1. \A v \in Workers : HasPushed(v)' <=> HasPushed(v)
    BY DEF IInv, TypeOK, HasPushed
  <2>. QED
    BY <2>1, QueueFrame DEF IInv
<1>. QED
  BY <1>1, <1>2, <1>3, <1>4 DEF IInv

LEMMA DestroySyncStep ==
    ASSUME IInv, DestroySync
    PROVE  IInv'
<1> USE ConstantsAssumption
        DEF DestroySync, MainGoto, locals, queue, flags, sync, Threads,
            Mutexes
<1>1. TypeOK' /\ Counting' /\ Progress' /\ Lifetime'
  BY DEF IInv, TypeOK, WorkerPC, MainPC, Counting, Released, Collected,
         Progress, Lifetime
<1>2. Ownership' /\ WaitSets' /\ Wakeups'
  BY DEF IInv, TypeOK, Ownership, LockDiscipline, WorkerHoldsOwn,
         WorkerHoldsG, MainHoldsG, MainHoldsT, WaitSets, Wakeups,
         NoLostWakeup, QueueEmpty
<1>3. QueueOrder'
  <2>1. \A v \in Workers : HasPushed(v)' <=> HasPushed(v)
    BY DEF IInv, TypeOK, HasPushed
  <2>. QED
    BY <2>1, QueueFrame DEF IInv
<1>. QED
  BY <1>1, <1>2, <1>3 DEF IInv

LEMMA EndOfRoundStep ==
    ASSUME IInv, EndOfRound
    PROVE  IInv'
<1> USE ConstantsAssumption
        DEF EndOfRound, MainGoto, AllCollected, locals, queue, flags, sync, Threads,
            Mutexes
<1>1. TypeOK' /\ Counting' /\ Progress'
  BY DEF IInv, TypeOK, WorkerPC, MainPC, Counting, Released, Collected,
         Progress
<1>2. Ownership' /\ WaitSets' /\ Wakeups'
  BY DEF IInv, TypeOK, Ownership, LockDiscipline, WorkerHoldsOwn,
         WorkerHoldsG, MainHoldsG, MainHoldsT, WaitSets, Wakeups,
         NoLostWakeup, QueueEmpty
<1>3. Lifetime'
  <2>1. (mpc' = "done") => (Cardinality(Collected) >= N)
    BY DEF IInv, TypeOK, Counting
  <2>2. (mpc' = "done") => (Collected = Workers)
    BY <2>1, WorkersFinite DEF Collected
  <2>. QED
    BY <2>2 DEF IInv, TypeOK, Lifetime, Collected
<1>4. QueueOrder'
  <2>1. \A v \in Workers : HasPushed(v)' <=> HasPushed(v)
    BY DEF IInv, TypeOK, HasPushed
  <2>. QED
    BY <2>1, QueueFrame DEF IInv
<1>. QED
  BY <1>1, <1>2, <1>3, <1>4 DEF IInv

LEMMA ExitFailureStep ==
    ASSUME IInv, ExitFailure
    PROVE  IInv'
<1> USE ConstantsAssumption
        DEF ExitFailure, MainGoto, locals, queue, flags, sync, Threads,
            Mutexes
<1>1. TypeOK' /\ Counting' /\ Progress' /\ Lifetime'
  BY DEF IInv, TypeOK, WorkerPC, MainPC, Counting, Released, Collected,
         Progress, Lifetime
<1>2. Ownership' /\ WaitSets' /\ Wakeups'
  BY DEF IInv, TypeOK, Ownership, LockDiscipline, WorkerHoldsOwn,
         WorkerHoldsG, MainHoldsG, MainHoldsT, WaitSets, Wakeups,
         NoLostWakeup, QueueEmpty
<1>3. QueueOrder'
  <2>1. \A v \in Workers : HasPushed(v)' <=> HasPushed(v)
    BY DEF IInv, TypeOK, HasPushed
  <2>. QED
    BY <2>1, QueueFrame DEF IInv
<1>. QED
  BY <1>1, <1>2, <1>3 DEF IInv

LEMMA SpuriousStep ==
    ASSUME IInv, Spurious PROVE IInv'
<1> USE ConstantsAssumption
        DEF Spurious, SpuriousWakeup, locals, queue, flags, sync, Threads,
            Mutexes
<1>1. TypeOK' /\ Counting' /\ Progress' /\ Lifetime'
  BY DEF IInv, TypeOK, WorkerPC, MainPC, Counting, Released, Collected,
         Progress, Lifetime
<1>2. Ownership' /\ WaitSets' /\ Wakeups'
  BY DEF IInv, TypeOK, Ownership, LockDiscipline, WorkerHoldsOwn,
         WorkerHoldsG, MainHoldsG, MainHoldsT, WaitSets, Wakeups,
         NoLostWakeup, QueueEmpty
<1>3. QueueOrder'
  <2>1. \A v \in Workers : HasPushed(v)' <=> HasPushed(v)
    BY DEF IInv, TypeOK, HasPushed
  <2>. QED
    BY <2>1, QueueFrame DEF IInv
<1>. QED
  BY <1>1, <1>2, <1>3 DEF IInv

LEMMA CreateThreadStep ==
    ASSUME IInv, CreateThread
    PROVE  IInv'
<1> USE ConstantsAssumption
        DEF CreateThread, MainGoto, locals, queue, flags, sync, Threads,
            Mutexes
<1>1. TypeOK'
  <2>1. i \in Workers
    BY DEF IInv, TypeOK, Workers
  <2>. QED
    BY <2>1 DEF IInv, TypeOK, WorkerPC, MainPC
<1>2. Counting'
  <2>1. to_proceed' = to_proceed
    BY DEF IInv, TypeOK, Progress, Workers
  <2>. QED
    BY <2>1 DEF IInv, Counting, Released, Collected
<1>3. Progress'
  BY DEF IInv, TypeOK, Progress, Workers
<1>4. Lifetime'
  BY DEF IInv, TypeOK, Progress, Lifetime, Collected, Workers
<1>5. Ownership'
  <2>1. i \in Workers /\ wpc[i] = "none"
    BY DEF IInv, TypeOK, Progress, Workers
  <2>. QED
    BY <2>1 DEF IInv, TypeOK, Ownership, LockDiscipline,
         WorkerHoldsOwn, WorkerHoldsG, MainHoldsG, MainHoldsT
<1>6. WaitSets'
  <2>1. i \in Workers /\ wpc[i] = "none"
    BY DEF IInv, TypeOK, Progress, Workers
  <2>. QED
    BY <2>1 DEF IInv, TypeOK, WaitSets
<1>7. QueueOrder'
  <2>1. i \in Workers /\ wpc[i] = "none" /\ to_proceed' = to_proceed
    BY DEF IInv, TypeOK, Progress, Workers
  <2>2. \A v \in Workers : HasPushed(v)' <=> HasPushed(v)
    BY <2>1 DEF IInv, TypeOK, HasPushed
  <2>. QED
    BY <2>1, <2>2, QueueFrame DEF IInv
<1>8. Wakeups'
  <2>1. i \in Workers /\ wpc[i] = "none" /\ to_proceed' = to_proceed
    BY DEF IInv, TypeOK, Progress, Workers
  <2>. QED
    BY <2>1 DEF IInv, TypeOK, Wakeups, NoLostWakeup, QueueEmpty, WaitSets
<1>. QED
  BY <1>1, <1>2, <1>3, <1>4, <1>5, <1>6, <1>7, <1>8 DEF IInv

LEMMA CreateFailsStep ==
    ASSUME IInv, CreateFails
    PROVE  IInv'
<1> USE ConstantsAssumption
        DEF CreateFails, MainGoto, locals, queue, flags, sync, Threads,
            Mutexes
<1>1. Counting' /\ Progress' /\ Lifetime'
  BY DEF IInv, Counting, Released, Collected, TypeOK, Progress, Lifetime
<1>2. TypeOK'
  <2>1. i \in Workers
    BY DEF IInv, TypeOK, Workers
  <2>. QED
    BY <2>1 DEF IInv, TypeOK, WorkerPC, MainPC
<1>3. Ownership'
  <2>1. i \in Workers /\ wpc[i] = "none"
    BY DEF IInv, TypeOK, Progress, Workers
  <2>. QED
    BY <2>1 DEF IInv, TypeOK, Ownership, LockDiscipline,
         WorkerHoldsOwn, WorkerHoldsG, MainHoldsG, MainHoldsT
<1>4. WaitSets'
  <2>1. i \in Workers /\ wpc[i] = "none"
    BY DEF IInv, TypeOK, Progress, Workers
  <2>. QED
    BY <2>1 DEF IInv, TypeOK, WaitSets
<1>5. QueueOrder'
  <2>1. i \in Workers /\ wpc[i] = "none"
    BY DEF IInv, TypeOK, Progress, Workers
  <2>2. \A v \in Workers : HasPushed(v)' <=> HasPushed(v)
    BY <2>1 DEF IInv, TypeOK, HasPushed
  <2>. QED
    BY <2>2, QueueFrame DEF IInv
<1>6. Wakeups'
  <2>1. i \in Workers /\ wpc[i] = "none"
    BY DEF IInv, TypeOK, Progress, Workers
  <2>. QED
    BY <2>1 DEF IInv, TypeOK, Wakeups, NoLostWakeup, QueueEmpty, WaitSets
<1>. QED
  BY <1>1, <1>2, <1>3, <1>4, <1>5, <1>6 DEF IInv

LEMMA PollWorkerStep ==
    ASSUME IInv, PollWorker
    PROVE  IInv'
<1> USE ConstantsAssumption
        DEF PollWorker, MainGoto, CanJoin, locals, queue, flags, sync, Threads,
            Mutexes
<1>1. Progress'
  BY DEF IInv, TypeOK, Progress
<1>2. Ownership' /\ WaitSets' /\ Wakeups'
  BY DEF IInv, TypeOK, Ownership, LockDiscipline, WorkerHoldsOwn,
         WorkerHoldsG, MainHoldsG, MainHoldsT, WaitSets, Wakeups,
         NoLostWakeup, QueueEmpty
<1>3. TypeOK'
  <2>1. CASE joined[i] \/ wpc[i] # "done"
    BY <2>1 DEF IInv, TypeOK, MainPC
  <2>2. CASE ~joined[i] /\ wpc[i] = "done"
    <3>1. i \in Workers /\ Collected # Workers
      <4>1. i \in Workers
        BY DEF IInv, TypeOK, Workers
      <4>. QED
        BY <2>2, <4>1 DEF Collected
    <3>2. finished_threads + 1 \in 0 .. N
      BY <3>1, WorkersFinite DEF IInv, TypeOK, Counting, Collected
    <3>. QED
      BY <2>2, <3>1, <3>2 DEF IInv, TypeOK, MainPC, Workers
  <2>. QED
    BY <2>1, <2>2
<1>4. Counting'
  <2>1. Released' = Released
    BY DEF Released
  <2>2. CASE UNCHANGED <<joined, finished_threads>>
    BY <2>1, <2>2 DEF IInv, Counting, Collected
  <2>3. CASE /\ ~joined[i] /\ joined' = [joined EXCEPT ![i] = TRUE]
             /\ finished_threads' = finished_threads + 1
    <3>1. i \in Workers
      BY DEF IInv, TypeOK, Workers
    <3>2. Collected' = Collected \cup {i} /\ i \notin Collected
      BY <2>3, <3>1 DEF IInv, TypeOK, Collected
    <3>3. Cardinality(Collected') = Cardinality(Collected) + 1
      <4>1. IsFiniteSet(Collected)
        <5>1. Collected \in SUBSET Workers
          BY DEF Collected
        <5>. QED
          BY <5>1, WorkersFinite
      <4>2. Cardinality(Collected \cup {i}) = Cardinality(Collected) + 1
        BY <3>2, <4>1, FS_AddElement
      <4>. QED
        BY <3>2, <4>2
    <3>. QED
      BY <2>1, <2>3, <3>3 DEF IInv, Counting
  <2>. QED
    BY <2>2, <2>3
<1>5. Lifetime'
  <2>1. i \in Workers
    BY DEF IInv, TypeOK, Workers
  <2>. QED
    BY <2>1 DEF IInv, TypeOK, Lifetime, Collected
<1>6. QueueOrder'
  <2>1. \A v \in Workers : HasPushed(v)' <=> HasPushed(v)
    BY DEF IInv, TypeOK, HasPushed
  <2>. QED
    BY <2>1, QueueFrame DEF IInv
<1>. QED
  BY <1>1, <1>2, <1>3, <1>4, <1>5, <1>6 DEF IInv

LEMMA MainReleaseStep ==
    ASSUME IInv, MainRelease
    PROVE  IInv'
<1> USE ConstantsAssumption
        DEF MainRelease, MainGoto, locals, queue, flags, sync, Threads,
            Mutexes
<1>1. Progress' /\ Lifetime'
  BY DEF IInv, TypeOK, Progress, Lifetime, Collected
<1>2. Ownership' /\ WaitSets' /\ Wakeups'
  BY DEF IInv, TypeOK, Ownership, LockDiscipline, WorkerHoldsOwn,
         WorkerHoldsG, MainHoldsG, MainHoldsT, WaitSets, Wakeups,
         NoLostWakeup, QueueEmpty
<1>3. TypeOK'
  <2>1. CASE to_proceed[id]
    BY <2>1 DEF IInv, TypeOK, MainPC
  <2>2. CASE ~to_proceed[id]
    <3>1. Released # Workers
      BY <2>2 DEF IInv, TypeOK, Released
    <3>2. count_of_ready_threads + 1 \in 0 .. N
      BY <3>1, WorkersFinite DEF IInv, TypeOK, Counting, Released
    <3>. QED
      BY <2>2, <3>2 DEF IInv, TypeOK, MainPC
  <2>. QED
    BY <2>1, <2>2
<1>4. Counting'
  <2>1. Released' = Released \cup {id} /\ Collected' = Collected
    BY DEF IInv, TypeOK, Released, Collected
  <2>2. Cardinality(Released') = IF id \in Released
                                 THEN Cardinality(Released)
                                 ELSE Cardinality(Released) + 1
    BY <2>1, FS_AddElement, WorkersFinite DEF Released
  <2>3. to_proceed[id] <=> id \in Released
    BY DEF IInv, TypeOK, Released
  <2>. QED
    BY <2>1, <2>2, <2>3 DEF IInv, Counting
<1>5. QueueOrder'
  <2>1. Released' = Released \cup {id} /\ Pushed' = Pushed
    BY DEF IInv, TypeOK, Released, Pushed, HasPushed
  <2>2. \A s \in 0 .. (rq_tail - 1) : (ready_queue[s] = id) <=> (s = rq_head - 1)
    BY DEF IInv, TypeOK, QueueOrder
  <2>3. id \in Pushed
    BY DEF IInv, TypeOK, QueueOrder
  <2>. QED
    BY <2>1, <2>2, <2>3 DEF IInv, TypeOK, QueueOrder, InFlight
<1>. QED
  BY <1>1, <1>2, <1>3, <1>4, <1>5 DEF IInv

LEMMA MainPopStep ==
    ASSUME IInv, MainPop
    PROVE  IInv'
<1> USE ConstantsAssumption
        DEF MainPop, MainGoto, ready_queue_pop, QueueEmpty, locals, queue, flags, sync, Threads,
            Mutexes
<1>1. Counting' /\ Progress' /\ Lifetime'
  BY DEF IInv, Counting, Released, Collected, TypeOK, Progress, Lifetime
<1>2. Ownership' /\ WaitSets' /\ Wakeups'
  BY DEF IInv, TypeOK, Ownership, LockDiscipline, WorkerHoldsOwn,
         WorkerHoldsG, MainHoldsG, MainHoldsT, WaitSets, Wakeups,
         NoLostWakeup, QueueEmpty
<1>3. TypeOK'
  <2>1. (rq_head # rq_tail) => (NextSlot(rq_head) = rq_head + 1 /\ rq_head < N)
    BY Modulo DEF IInv, TypeOK, QueueOrder, QueueSize
  <2>. QED
    BY <2>1 DEF IInv, TypeOK, MainPC, QueueSize
<1>4. QueueOrder'
  <2>1. Released' = Released /\ Pushed' = Pushed
    BY DEF Released, Pushed, HasPushed
  <2>2. (rq_head # rq_tail) => (NextSlot(rq_head) = rq_head + 1 /\ rq_head < N)
    BY Modulo DEF IInv, TypeOK, QueueOrder, QueueSize
  <2>3. CASE rq_head = rq_tail
    BY <2>1, <2>3 DEF IInv, TypeOK, QueueOrder, InFlight
  <2>4. CASE rq_head # rq_tail
    <3>1. /\ rq_head' = rq_head + 1 /\ rq_tail' = rq_tail
          /\ ready_queue' = ready_queue /\ to_proceed' = to_proceed
          /\ id' = ready_queue[rq_head]
      BY <2>2, <2>4
    <3>2. \A s \in 0 .. (rq_tail - 1) :
            (ready_queue[s] = ready_queue[rq_head]) <=> (s = rq_head)
      BY <2>4 DEF IInv, TypeOK, QueueOrder
    <3>3. \A s \in 0 .. (rq_tail - 1) :
            to_proceed[ready_queue[s]] <=> s < rq_head
      BY DEF IInv, QueueOrder, InFlight
    <3>. QED
      BY <2>1, <2>2, <2>4, <3>1, <3>2, <3>3
         DEF IInv, TypeOK, QueueOrder, InFlight
  <2>. QED
    BY <2>3, <2>4
<1>. QED
  BY <1>1, <1>2, <1>3, <1>4 DEF IInv

LEMMA WorkerPushStep ==
    ASSUME IInv, NEW w \in Workers, WorkerPush(w)
    PROVE  IInv'
<1> USE ConstantsAssumption
        DEF WorkerPush, WorkerGoto, ready_queue_push, locals, queue, flags, sync, Threads,
            Mutexes
<1>1. Counting' /\ Progress' /\ Lifetime'
  BY DEF IInv, Counting, Released, Collected, TypeOK, Progress, Lifetime
<1>2. Ownership' /\ WaitSets' /\ Wakeups'
  BY DEF IInv, TypeOK, Ownership, LockDiscipline, WorkerHoldsOwn,
         WorkerHoldsG, MainHoldsG, MainHoldsT, WaitSets, Wakeups,
         NoLostWakeup, QueueEmpty
<1>3. TypeOK'
  <2>1. NextSlot(rq_tail) \in 0 .. (QueueSize - 1)
    BY DEF IInv, TypeOK, NextSlot, QueueSize
  <2>. QED
    BY <2>1 DEF IInv, TypeOK, WorkerPC, MainPC
<1>4. QueueOrder'
  <2>1. w \notin Pushed
    BY DEF Pushed, HasPushed
  <2>2. Pushed' = Pushed \cup {w}
    BY DEF IInv, TypeOK, Pushed, HasPushed
  <2>3. rq_tail < N
    BY RoomToPush DEF IInv, HasPushed
  <2>4. NextSlot(rq_tail) = rq_tail + 1 /\ NextSlot(rq_tail) # rq_head
    BY <2>3, Modulo DEF IInv, TypeOK, QueueOrder
  <2>5. Cardinality(Pushed') = rq_tail + 1
    <3>1. IsFiniteSet(Pushed)
      BY WorkersFinite DEF Pushed
    <3>2. Cardinality(Pushed \cup {w}) = Cardinality(Pushed) + 1
      BY <2>1, <3>1, FS_AddElement
    <3>. QED
      BY <2>2, <3>2 DEF IInv, QueueOrder
  <2>6. Released' = Released
    BY DEF Released
  <2>7. ready_queue' = [ready_queue EXCEPT ![rq_tail] = w] /\ rq_tail' = rq_tail + 1
    BY <2>4
  <2>8. \A s \in 0 .. (rq_tail' - 1) :
          ready_queue'[s] = IF s = rq_tail THEN w ELSE ready_queue[s]
    BY <2>3, <2>7 DEF IInv, TypeOK, QueueSize
  <2>9. \A s, r \in 0 .. (rq_tail' - 1) :
          (ready_queue'[s] = ready_queue'[r]) => (s = r)
    BY <2>1, <2>7, <2>8 DEF IInv, TypeOK, QueueOrder
  <2>10. \A s \in 0 .. (rq_tail' - 1) :
           /\ ready_queue'[s] \in Pushed'
           /\ to_proceed'[ready_queue'[s]] <=>
                 (s < rq_head /\ ~(/\ mpc \in {"unlock_pop", "lock_t", "release"}
                                  /\ id = ready_queue'[s]))
    <3>1. w \notin Released
      BY <2>1 DEF IInv, QueueOrder
    <3>. QED
      BY <2>2, <2>7, <2>8, <3>1 DEF IInv, TypeOK, QueueOrder, InFlight, Released
  <2>11. \A v \in Pushed' : \E s \in 0 .. (rq_tail' - 1) : ready_queue'[s] = v
    BY <2>2, <2>7, <2>8 DEF IInv, TypeOK, QueueOrder
  <2>12. (mpc' \in {"unlock_pop", "lock_t", "release", "signal_t", "unlock_t"})
           => (0 < rq_head' /\ id' = ready_queue'[rq_head' - 1])
    BY <2>7, <2>8 DEF IInv, TypeOK, QueueOrder
  <2>. QED
    BY <2>2, <2>5, <2>6, <2>7, <2>9, <2>10, <2>11, <2>12
       DEF IInv, TypeOK, QueueOrder, InFlight
<1>. QED
  BY <1>1, <1>2, <1>3, <1>4 DEF IInv

-----------------------------------------------------------------------------
LEMMA InitIInv == Init => IInv
<1> SUFFICES ASSUME Init PROVE IInv
  OBVIOUS
<1> USE ConstantsAssumption DEF Init, Mutexes, Threads, QueueSize
<1>1. Released = {} /\ Collected = {} /\ Pushed = {}
  BY DEF Released, Collected, Pushed, HasPushed
<1>2. 0 \in Workers
  BY DEF Workers
<1>3. TypeOK
  BY <1>2 DEF TypeOK, MainPC, WorkerPC
<1>4. Counting
  BY <1>1, FS_EmptySet DEF Counting
<1>5. Progress /\ Lifetime
  BY DEF Progress, Lifetime, Workers
<1>6. Ownership /\ WaitSets /\ Wakeups
  BY DEF Ownership, LockDiscipline, WorkerHoldsOwn, WorkerHoldsG, MainHoldsG,
         MainHoldsT, WaitSets, Wakeups, NoLostWakeup, QueueEmpty
<1>7. QueueOrder
  BY <1>1, FS_EmptySet DEF QueueOrder
<1>. QED
  BY <1>3, <1>4, <1>5, <1>6, <1>7 DEF IInv

(* Every step of 10_9 keeps the invariant.                                 *)
LEMMA NextIInv == IInv /\ [Next]_vars => IInv'
<1> SUFFICES ASSUME IInv, [Next]_vars PROVE IInv'
  OBVIOUS
<1>1. CASE MainStep
  BY <1>1, CreateThreadStep, ExitFailureStep, MainLockStep,
     MainUnlockStep, MainTestStep, MainWaitStep, MainPopStep, MainReleaseStep, MainSignalStep,
     LeaveLoopStep, PollWorkerStep, DestroySyncStep, EndOfRoundStep
     DEF MainStep
<1>2. CASE CreateFails
  BY <1>2, CreateFailsStep
<1>3. ASSUME NEW w \in Workers, Worker(w) PROVE IInv'
  BY <1>3, WorkerLockStep, WorkerUnlockStep, WorkerReadyStep, WorkerPushStep,
     WorkerSignalStep, WorkerTestStep, WorkerWaitStep, WorkerExitStep
     DEF Worker
<1>4. CASE Spurious
  BY <1>4, SpuriousStep
<1>5. CASE UNCHANGED vars
  <2> USE <1>5 DEF vars, sync, locals, flags
  <2>1. TypeOK' /\ Counting' /\ Progress' /\ Lifetime'
    BY DEF IInv, TypeOK, queue, Counting, Released, Collected, Progress,
           Lifetime
  <2>2. Ownership' /\ WaitSets' /\ Wakeups'
    BY DEF IInv, Ownership, LockDiscipline, WorkerHoldsOwn, WorkerHoldsG,
           MainHoldsG, MainHoldsT, WaitSets, Wakeups, NoLostWakeup,
           QueueEmpty, queue
  <2>3. QueueOrder'
    BY QueueFrame DEF IInv, HasPushed
  <2>. QED
    BY <2>1, <2>2, <2>3 DEF IInv
<1>. QED
  BY <1>1, <1>2, <1>3, <1>4, <1>5 DEF Next, Terminated

(* IInv holds in every reachable state, for every number of threads.       *)
THEOREM Invariance == Spec => []IInv
BY InitIInv, NextIInv, PTL DEF Spec

(* The indices of the ring buffer, the counters and every other variable   *)
(* stay in range for every N (the C type of the ids is int, of the indices *)
(* and counters size_t).                                                   *)
THEOREM TypeCorrect == Spec => []TypeOK
<1>1. IInv => TypeOK
  BY DEF IInv
<1>. QED
  BY <1>1, Invariance, PTL

(* A queue of N + 1 slots is enough: ready_queue_push never takes its      *)
(* overflow branch, because the ids below the tail are those of distinct   *)
(* workers, and the one about to push is not among them.                   *)
THEOREM NoOverflow == Spec => []NeverOverflows
<1>1. IInv => NeverOverflows
  <2> SUFFICES ASSUME IInv, NEW w \in Workers, wpc[w] = "push"
               PROVE  NextSlot(rq_tail) # rq_head
    BY DEF NeverOverflows
  <2>1. rq_tail \in 0 .. (N - 1)
    BY RoomToPush DEF IInv, HasPushed
  <2>. QED
    BY <2>1, Modulo, ConstantsAssumption
       DEF IInv, TypeOK, QueueOrder, QueueSize
<1>. QED
  BY <1>1, Invariance, PTL

(* Every announced and unreleased worker is in exactly one place.          *)
THEOREM NoIdLost == Spec => []NothingLost
<1>1. IInv => NothingLost
  <2> SUFFICES ASSUME IInv, NEW w \in Workers
      PROVE  /\ (HasPushed(w) /\ ~to_proceed[w]) <=> (Queued(w) \/ InFlight(w))
             /\ ~(Queued(w) /\ InFlight(w))
             /\ \A s, r \in Slots :
                   (Occupied(s) /\ Occupied(r) /\ ready_queue[s] = w
                                             /\ ready_queue[r] = w) => (s = r)
    BY DEF NothingLost
  <2>1. \A s \in Slots : Occupied(s) <=> (rq_head <= s /\ s < rq_tail)
    BY DEF IInv, QueueOrder, Occupied
  <2>2. Slots = 0 .. N /\ rq_tail \in 0 .. N /\ rq_head \in 0 .. N
    BY ConstantsAssumption DEF IInv, TypeOK, Slots, QueueSize
  <2>3. w \in Pushed <=> HasPushed(w)
    BY DEF Pushed
  <2>4. w \in Released <=> to_proceed[w]
    BY DEF Released
  <2>5. \A s \in 0 .. (rq_tail - 1) : s \in Slots
    BY <2>2, ConstantsAssumption
  <2>6. InFlight(w) => (HasPushed(w) /\ ~to_proceed[w] /\ ~Queued(w))
    BY <2>1, <2>2, <2>3, <2>5 DEF IInv, TypeOK, QueueOrder, InFlight, Queued
  <2>7. Queued(w) => (HasPushed(w) /\ ~to_proceed[w])
    BY <2>1, <2>2, <2>3 DEF IInv, TypeOK, QueueOrder, Queued
  <2>8. (HasPushed(w) /\ ~to_proceed[w]) => (Queued(w) \/ InFlight(w))
    BY <2>1, <2>2, <2>3, <2>5 DEF IInv, TypeOK, QueueOrder, Queued
  <2>9. \A s, r \in Slots :
           (Occupied(s) /\ Occupied(r) /\ ready_queue[s] = w
                                     /\ ready_queue[r] = w) => (s = r)
    BY <2>1, <2>2 DEF IInv, QueueOrder
  <2>. QED
    BY <2>6, <2>7, <2>8, <2>9
<1>. QED
  BY <1>1, Invariance, PTL

(* Neither main nor a worker misses the signal it waits for.               *)
THEOREM NoWakeupLost == Spec => []NoLostWakeup
<1>1. IInv => NoLostWakeup
  BY DEF IInv, Wakeups
<1>. QED
  BY <1>1, Invariance, PTL

(* Each mutex protects what it is for.                                     *)
THEOREM LocksHeld == Spec => []LockDiscipline
<1>1. IInv => LockDiscipline
  BY DEF IInv, Ownership
<1>. QED
  BY <1>1, Invariance, PTL

(* No mutex or condition variable is used before its initialisation or     *)
(* after its destruction.                                                  *)
THEOREM NoUseAfterDestroy == Spec => []SyncLifetime
<1>1. IInv => SyncLifetime
  <2> SUFFICES ASSUME IInv PROVE SyncLifetime
    OBVIOUS
  <2>1. ASSUME NEW w \in Workers, w \notin live
        PROVE  /\ wpc[w] \in {"none", "done"}
               /\ owner[w] = NoThread
               /\ waiters[w] = {}
    <3>1. wpc[w] = "none" \/ (wpc[w] = "done" /\ mpc \in {"poll", "destroy", "done"})
      BY <2>1 DEF IInv, Lifetime
    <3>2. (mpc \in {"release", "signal_t", "unlock_t"}) => (id \in Pushed)
      BY DEF IInv, TypeOK, QueueOrder
    <3>. QED
      BY <3>1, <3>2 DEF IInv, TypeOK, Ownership, LockDiscipline, WaitSets,
           WorkerHoldsOwn, MainHoldsT, Pushed, HasPushed, Mutexes
  <2>2. (mpc \in {"lock_t", "release", "signal_t", "unlock_t"}) => (id \in live)
    <3>1. (mpc \in {"lock_t", "release", "signal_t", "unlock_t"}) => (id \in Pushed)
      BY DEF IInv, TypeOK, QueueOrder
    <3>. QED
      BY <3>1 DEF IInv, TypeOK, Lifetime, Pushed, HasPushed
  <2>. QED
    BY <2>1, <2>2 DEF SyncLifetime
<1>. QED
  BY <1>1, Invariance, PTL

(* Main leaves its release loop only when every worker is released.        *)
THEOREM CountOfReady == Spec => []CountIsReleased
<1>1. IInv => CountIsReleased
  BY DEF IInv, Counting, Progress, CountIsReleased, Released
<1>. QED
  BY <1>1, Invariance, PTL

(* Main ends only when every worker is collected and all is destroyed.     *)
THEOREM CountOfFinished == Spec => []CountIsCollected
<1>1. IInv => CountIsCollected
  BY DEF IInv, TypeOK, Counting, Lifetime, CountIsCollected, Collected
<1>. QED
  BY <1>1, Invariance, PTL

-----------------------------------------------------------------------------
(* The refinement.  WorkerPush is Announce, a successful MainPop is Take,  *)
(* MainRelease is Release, WorkerExit is Finish, a successful join is      *)
(* Collect, and every other step is a stutter.                             *)

(* The slots from h to t, when the indices have not wrapped around.        *)
Ring(q, h, t) == [k \in 1 .. (t - h) |-> q[h + k - 1]]

AnnouncedNow ==
    [k \in 1 .. QueueLength |-> ready_queue[(rq_head + k - 1) % QueueSize]]

TakenNow ==
    IF mpc \in {"unlock_pop", "lock_t", "release"} THEN id ELSE NoThread

PhasesNow == [w \in Workers |-> PhaseOf(w)]

LEMMA AnnouncedIsRing ==
    IInv => (AnnouncedNow = Ring(ready_queue, rq_head, rq_tail))
<1> SUFFICES ASSUME IInv PROVE AnnouncedNow = Ring(ready_queue, rq_head, rq_tail)
  OBVIOUS
<1>1. QueueLength = rq_tail - rq_head
  BY DEF IInv, QueueOrder, QueueLength
<1>2. ASSUME NEW k \in 1 .. (rq_tail - rq_head)
      PROVE (rq_head + k - 1) % QueueSize = rq_head + k - 1
  <2>1. rq_head + k - 1 \in 0 .. N
    BY ConstantsAssumption DEF IInv, TypeOK, QueueOrder, QueueSize
  <2>. QED
    BY <2>1, ConstantsAssumption DEF QueueSize
<1>. QED
  BY <1>1, <1>2 DEF Ring, AnnouncedNow

LEMMA RingIsSeq ==
    ASSUME NEW n \in Nat, NEW q \in [0 .. n -> Workers],
           NEW h \in 0 .. n, NEW t \in 0 .. n, h <= t
    PROVE  /\ Ring(q, h, t) \in Seq(Workers)
           /\ Len(Ring(q, h, t)) = t - h
<1>1. t - h \in Nat /\ Ring(q, h, t) \in [1 .. (t - h) -> Workers]
  BY DEF Ring
<1>. QED
  BY <1>1, IsASeq DEF Ring

(* Storing at the tail appends.                                            *)
LEMMA RingAppend ==
    ASSUME NEW n \in Nat, NEW q \in [0 .. n -> Workers],
           NEW h \in 0 .. n, NEW t \in 0 .. n, h <= t, NEW w \in Workers
    PROVE  Ring([q EXCEPT ![t] = w], h, t + 1) = Append(Ring(q, h, t), w)
<1>1. /\ Ring(q, h, t) \in Seq(Workers)
      /\ Len(Ring(q, h, t)) = t - h
  BY RingIsSeq
<1>. QED
  BY <1>1 DEF Ring

(* Advancing the head removes the first element.                           *)
LEMMA RingTail ==
    ASSUME NEW n \in Nat, NEW q \in [0 .. n -> Workers],
           NEW h \in 0 .. n, NEW t \in 0 .. n, h < t
    PROVE  /\ Ring(q, h, t) # <<>>
           /\ Head(Ring(q, h, t)) = q[h]
           /\ Ring(q, h + 1, t) = Tail(Ring(q, h, t))
<1>1. /\ Ring(q, h, t) \in Seq(Workers)
      /\ Len(Ring(q, h, t)) = t - h
  <2>1. h <= t
    OBVIOUS
  <2>. QED
    BY <2>1, RingIsSeq
<1>2. Ring(q, h, t) # <<>>
  BY <1>1
<1>3. Head(Ring(q, h, t)) = q[h]
  BY <1>1, <1>2 DEF Ring
<1>4. Ring(q, h + 1, t) = Tail(Ring(q, h, t))
  BY <1>1, <1>2, SMTT(20) DEF Ring
<1>. QED
  BY <1>2, <1>3, <1>4

-----------------------------------------------------------------------------
LEMMA RefinesInit == Init => Abstract!Init
<1> SUFFICES ASSUME Init PROVE Abstract!Init
  OBVIOUS
<1>1. IInv
  BY InitIInv
<1>2. AnnouncedNow = <<>>
  BY <1>1, AnnouncedIsRing DEF Init, Ring
<1>3. TakenNow = NoThread
  BY DEF Init, TakenNow
<1>4. PhasesNow = [w \in Workers |-> "working"]
  BY DEF Init, PhasesNow, PhaseOf, HasPushed
<1>. QED
  BY <1>2, <1>3, <1>4 DEF Abstract!Init, AnnouncedNow, TakenNow, PhasesNow

(* A step that changes none of the things the mapping looks at.            *)
LEMMA Stutter ==
    ASSUME UNCHANGED <<queue, to_proceed, joined>>, UNCHANGED TakenNow,
           \A w \in Workers : /\ HasPushed(w)' <=> HasPushed(w)
                              /\ wpc'[w] = "done" <=> wpc[w] = "done"
    PROVE  UNCHANGED Abstract!vars
<1>1. UNCHANGED AnnouncedNow
  BY DEF AnnouncedNow, QueueLength, queue
<1>2. UNCHANGED PhasesNow
  BY DEF PhasesNow, PhaseOf
<1>. QED
  BY <1>1, <1>2 DEF Abstract!vars, AnnouncedNow, TakenNow, PhasesNow

LEMMA RefinesPush ==
    ASSUME IInv, IInv', NEW w \in Workers, WorkerPush(w)
    PROVE  Abstract!Announce(w)
<1> USE DEF WorkerPush, WorkerGoto, ready_queue_push, locals, flags
<1>1. rq_tail < N
  BY RoomToPush, ConstantsAssumption DEF IInv, HasPushed
<1>2. /\ ready_queue' = [ready_queue EXCEPT ![rq_tail] = w]
      /\ rq_tail' = rq_tail + 1
      /\ rq_head' = rq_head
  BY <1>1, Modulo DEF IInv, TypeOK, QueueOrder
<1>3. AnnouncedNow' = Append(AnnouncedNow, w)
  <2>1. (AnnouncedNow = Ring(ready_queue, rq_head, rq_tail))'
    BY AnnouncedIsRing, PTL
  <2>2. AnnouncedNow = Ring(ready_queue, rq_head, rq_tail)
    BY AnnouncedIsRing
  <2>3. /\ ready_queue \in [0 .. N -> Workers] /\ N \in Nat
        /\ rq_head \in 0 .. N /\ rq_tail \in 0 .. N /\ rq_head <= rq_tail
    BY ConstantsAssumption DEF IInv, TypeOK, QueueOrder, QueueSize
  <2>4. Ring([ready_queue EXCEPT ![rq_tail] = w], rq_head, rq_tail + 1)
          = Append(Ring(ready_queue, rq_head, rq_tail), w)
    BY <2>3, RingAppend, ZenonT(30)
  <2>. QED
    BY <1>2, <2>1, <2>2, <2>4
<1>4. TakenNow' = TakenNow
  BY DEF TakenNow
<1>5. /\ wpc[w] = "push" /\ wpc' = [wpc EXCEPT ![w] = "signal_g"]
      /\ ~to_proceed[w] /\ ~joined[w]
      /\ UNCHANGED <<to_proceed, joined>>
  BY DEF IInv, TypeOK, Lifetime, QueueOrder, Released, Pushed, HasPushed
<1>6. PhaseOf(w) = "working" /\ PhaseOf(w)' = "announced"
  BY <1>5 DEF IInv, TypeOK, PhaseOf, HasPushed
<1>7. \A v \in Workers : (v # w) => (PhaseOf(v)' = PhaseOf(v))
  BY <1>5 DEF IInv, TypeOK, PhaseOf, HasPushed
<1>8. /\ PhasesNow[w] = "working"
      /\ PhasesNow' = [PhasesNow EXCEPT ![w] = "announced"]
  BY <1>6, <1>7 DEF PhasesNow
<1>. QED
  BY <1>3, <1>4, <1>8 DEF Abstract!Announce, Abstract!Advance, AnnouncedNow,
     TakenNow, PhasesNow

LEMMA RefinesPop ==
    ASSUME IInv, IInv', MainPop
    PROVE  Abstract!Take \/ UNCHANGED Abstract!vars
<1> USE DEF MainPop, MainGoto, ready_queue_pop, QueueEmpty, flags
<1>1. CASE rq_head = rq_tail
  BY <1>1, Stutter DEF TakenNow, HasPushed
<1>2. CASE rq_head # rq_tail
  <2>1. /\ ready_queue \in [0 .. N -> Workers] /\ N \in Nat
        /\ rq_head \in 0 .. N /\ rq_tail \in 0 .. N /\ rq_head < rq_tail
    BY <1>2, ConstantsAssumption DEF IInv, TypeOK, QueueOrder, QueueSize
  <2>2. /\ id' = ready_queue[rq_head] /\ mpc = "pop" /\ mpc' = "unlock_pop"
        /\ rq_head' = rq_head + 1 /\ UNCHANGED <<ready_queue, rq_tail>>
    BY <1>2, <2>1, Modulo
  <2>3. (AnnouncedNow = Ring(ready_queue, rq_head, rq_tail))'
    BY AnnouncedIsRing, PTL
  <2>4. AnnouncedNow = Ring(ready_queue, rq_head, rq_tail)
    BY AnnouncedIsRing
  <2>5. /\ AnnouncedNow # <<>>
        /\ Head(AnnouncedNow) = ready_queue[rq_head]
        /\ AnnouncedNow' = Tail(AnnouncedNow)
    BY <2>1, <2>2, <2>3, <2>4, RingTail
  <2>6. TakenNow = NoThread /\ TakenNow' = Head(AnnouncedNow)
    BY <2>2, <2>5 DEF TakenNow
  <2>7. PhasesNow' = PhasesNow
    BY DEF PhasesNow, PhaseOf, HasPushed
  <2>. QED
    BY <2>5, <2>6, <2>7 DEF Abstract!Take, AnnouncedNow, TakenNow, PhasesNow
<1>. QED
  BY <1>1, <1>2

LEMMA RefinesRelease ==
    ASSUME IInv, MainRelease
    PROVE  Abstract!Release
<1> USE DEF MainRelease, MainGoto, queue
<1>1. /\ id \in Workers /\ mpc = "release" /\ ~to_proceed[id]
      /\ HasPushed(id) /\ ~joined[id] /\ wpc[id] # "done"
      /\ to_proceed' = [to_proceed EXCEPT ![id] = TRUE]
  BY DEF IInv, TypeOK, QueueOrder, InFlight, Pushed, Lifetime, Progress
<1>2. /\ TakenNow = id /\ TakenNow # NoThread /\ TakenNow' = NoThread
      /\ AnnouncedNow' = AnnouncedNow
  BY <1>1, ConstantsAssumption DEF TakenNow, AnnouncedNow, QueueLength, Threads
<1>3. PhaseOf(id) = "announced" /\ PhaseOf(id)' = "released"
  BY <1>1 DEF IInv, TypeOK, PhaseOf, HasPushed
<1>4. \A v \in Workers : (v # id) => (PhaseOf(v)' = PhaseOf(v))
  BY <1>1 DEF IInv, TypeOK, PhaseOf, HasPushed
<1>5. /\ PhasesNow[id] = "announced"
      /\ PhasesNow' = [PhasesNow EXCEPT ![TakenNow] = "released"]
  BY <1>1, <1>2, <1>3, <1>4 DEF PhasesNow
<1>. QED
  BY <1>2, <1>5 DEF Abstract!Release, Abstract!Advance, AnnouncedNow,
     TakenNow, PhasesNow

LEMMA RefinesExit ==
    ASSUME IInv, NEW w \in Workers, WorkerExit(w)
    PROVE  Abstract!Finish(w)
<1> USE DEF WorkerExit, WorkerGoto, queue, locals, flags
<1>1. /\ wpc[w] = "exiting" /\ wpc' = [wpc EXCEPT ![w] = "done"]
      /\ to_proceed[w] /\ ~joined[w] /\ UNCHANGED <<to_proceed, joined>>
  BY DEF IInv, TypeOK, Progress, Lifetime
<1>2. TakenNow' = TakenNow /\ AnnouncedNow' = AnnouncedNow
  BY DEF TakenNow, AnnouncedNow, QueueLength
<1>3. PhaseOf(w) = "released" /\ PhaseOf(w)' = "finished"
  BY <1>1 DEF IInv, TypeOK, PhaseOf
<1>4. \A v \in Workers : (v # w) => (PhaseOf(v)' = PhaseOf(v))
  BY <1>1 DEF IInv, TypeOK, PhaseOf, HasPushed
<1>5. /\ PhasesNow[w] = "released"
      /\ PhasesNow' = [PhasesNow EXCEPT ![w] = "finished"]
  BY <1>3, <1>4 DEF PhasesNow
<1>. QED
  BY <1>2, <1>5 DEF Abstract!Finish, Abstract!Advance, AnnouncedNow,
     TakenNow, PhasesNow

LEMMA RefinesPoll ==
    ASSUME IInv, PollWorker
    PROVE  Abstract!Collect(i) \/ UNCHANGED Abstract!vars
<1> USE DEF PollWorker, CanJoin, MainGoto, queue, flags
<1>0. i \in Workers /\ mpc = "poll"
  BY ConstantsAssumption DEF IInv, TypeOK, Workers
<1>1. CASE joined[i] \/ wpc[i] # "done"
  <2>1. UNCHANGED <<mpc, joined>>
    BY <1>0, <1>1
  <2>. QED
    BY <2>1, Stutter DEF TakenNow, HasPushed
<1>2. CASE ~joined[i] /\ wpc[i] = "done"
  <2>1. joined' = [joined EXCEPT ![i] = TRUE] /\ mpc' = "destroy" /\ i' = i
    BY <1>0, <1>2
  <2>2. TakenNow' = TakenNow /\ AnnouncedNow' = AnnouncedNow
    BY <1>0, <2>1 DEF TakenNow, AnnouncedNow, QueueLength
  <2>3. PhaseOf(i) = "finished" /\ PhaseOf(i)' = "collected"
    BY <1>0, <1>2, <2>1 DEF IInv, TypeOK, Progress, PhaseOf
  <2>4. \A v \in Workers : (v # i) => (PhaseOf(v)' = PhaseOf(v))
    BY <1>0, <2>1 DEF IInv, TypeOK, PhaseOf, HasPushed
  <2>5. \A v \in Workers : PhaseOf(v) \in {"released", "finished", "collected"}
    BY <1>0 DEF IInv, TypeOK, Progress, PhaseOf
  <2>6. /\ PhasesNow[i] = "finished"
        /\ PhasesNow' = [PhasesNow EXCEPT ![i] = "collected"]
    BY <1>0, <2>1, <2>3, <2>4 DEF PhasesNow
  <2>. QED
    BY <2>2, <2>5, <2>6 DEF Abstract!Collect, Abstract!Advance, AnnouncedNow,
       TakenNow, PhasesNow
<1>. QED
  BY <1>1, <1>2

(* The other steps of a worker: none of them is a first push or an exit.   *)
LEMMA RefinesWorker ==
    ASSUME IInv, NEW w \in Workers,
           \/ WorkerLock(w) \/ WorkerUnlock(w) \/ WorkerReady(w)
           \/ WorkerSignal(w) \/ WorkerTest(w) \/ WorkerWait(w)
    PROVE  UNCHANGED Abstract!vars
<1>1. /\ UNCHANGED <<queue, to_proceed, joined, mpc, id>>
      /\ \A v \in Workers : /\ HasPushed(v)' <=> HasPushed(v)
                            /\ wpc'[v] = "done" <=> wpc[v] = "done"
  BY DEF IInv, TypeOK, HasPushed, WorkerGoto, WorkerLock,
     LockForPush, WakeUp, WorkerUnlock,
     WorkerReady, WorkerSignal, WorkerTest, WorkerWait, locals, flags
<1>. QED
  BY <1>1, Stutter DEF TakenNow

(* The other steps of main: id and the in-flight part of main stay.        *)
LEMMA RefinesMain ==
    ASSUME IInv,
           \/ CreateThread \/ CreateFails \/ ExitFailure \/ MainLock \/ MainUnlock
           \/ MainTest \/ MainWait \/ MainSignal \/ LeaveLoop
           \/ DestroySync \/ EndOfRound \/ Spurious
    PROVE  UNCHANGED Abstract!vars
<1>1. /\ UNCHANGED <<queue, joined, id>>
      /\ mpc' \in {"unlock_pop", "lock_t", "release"} <=>
             mpc \in {"unlock_pop", "lock_t", "release"}
  BY DEF MainGoto, CreateThread, CreateFails, ExitFailure, MainLock, MainUnlock,
     UnlockToRelease, MainTest, MainWait, MainSignal, LeaveLoop, DestroySync, EndOfRound,
     Spurious, locals
<1>2. /\ UNCHANGED to_proceed
      /\ \A v \in Workers : /\ HasPushed(v)' <=> HasPushed(v)
                            /\ wpc'[v] = "done" <=> wpc[v] = "done"
  <2>1. CASE CreateThread
    BY <2>1 DEF CreateThread, MainGoto, IInv, TypeOK, Progress, Workers,
       HasPushed
  <2>2. CASE UNCHANGED <<wpc, flags>>
    BY <2>2 DEF HasPushed, flags
  <2>3. CASE CreateFails
    <3>1. i \in Workers /\ wpc[i] = "none" /\ UNCHANGED to_proceed
      BY <2>3, ConstantsAssumption
         DEF CreateFails, MainGoto, IInv, TypeOK, Progress, Workers, flags
    <3>2. wpc' = [wpc EXCEPT ![i] = "lock1"] \/ UNCHANGED wpc
      BY <2>3 DEF CreateFails
    <3>. QED
      BY <3>1, <3>2 DEF IInv, TypeOK, HasPushed
  <2>. QED
    BY <2>1, <2>2, <2>3 DEF ExitFailure, MainLock, MainUnlock, MainTest,
       MainWait, MainSignal, LeaveLoop, DestroySync, EndOfRound, Spurious
<1>. QED
  BY <1>1, <1>2, Stutter DEF TakenNow

LEMMA RefinesNext ==
    IInv /\ IInv' /\ [Next]_vars => [Abstract!Next]_(Abstract!vars)
<1> SUFFICES ASSUME IInv, IInv', [Next]_vars
             PROVE  [Abstract!Next]_(Abstract!vars)
  OBVIOUS
<1>1. CASE MainStep
  <2>1. i \in Workers \/ ~PollWorker
    BY ConstantsAssumption DEF IInv, TypeOK, Workers, PollWorker
  <2>. QED
    BY <1>1, <2>1, RefinesMain, RefinesPop, RefinesRelease, RefinesPoll
       DEF MainStep, Abstract!Next
<1>2. CASE CreateFails \/ Spurious
  BY <1>2, RefinesMain
<1>3. ASSUME NEW w \in Workers, Worker(w)
      PROVE  [Abstract!Next]_(Abstract!vars)
  BY <1>3, RefinesWorker, RefinesPush, RefinesExit DEF Worker, Abstract!Next
<1>4. CASE UNCHANGED vars
  <2>1. /\ UNCHANGED <<queue, to_proceed, joined, mpc, id>>
        /\ \A v \in Workers : /\ HasPushed(v)' <=> HasPushed(v)
                              /\ wpc'[v] = "done" <=> wpc[v] = "done"
    BY <1>4 DEF vars, flags, locals, HasPushed
  <2>. QED
    BY <2>1, Stutter DEF TakenNow
<1>. QED
  BY <1>1, <1>2, <1>3, <1>4 DEF Next, Terminated

(* The workers are released in the order in which they pushed, each once,  *)
(* and collected after they finished, for every number of threads and      *)
(* every interleaving (lines 82-132).                                      *)
THEOREM Refinement == Spec => ReleasesInOrder
BY RefinesInit, RefinesNext, Invariance, PTL DEF Spec, ReleasesInOrder, Abstract!Spec
=============================================================================
