--------------------------- MODULE HandshakeProofs ---------------------------
(***************************************************************************)
(* Proofs about Handshake, for any threads, mutex and condition variables: *)
(* IInv is inductive, so in each of the seven programs nobody uses what is *)
(* destroyed or freed, the rendezvous keeps its order, and a process that  *)
(* is over by itself has left nothing behind.                              *)
(***************************************************************************)
EXTENDS Handshake, TLAPS

(* The sets of control points are expanded everywhere.                     *)
USE DEF Programs, OnHeap, Detaches, PassesLocal, Shakes, MainShakes, T1Shakes,
        MainAwaitsDone, T1Reports, Cleanup, Shaking, MainHolds, T1Holds, Starts,
        Ended, MainPast, T1Past, Threads, Sync, LiveAt, Cleaner, Running, EvaluatesTwice

(* main, before there is another thread.                                   *)
LEMMA MallocStep == ASSUME IInv, Malloc PROVE IInv'
<1> USE ConstantsAssumption DEF IInv, Malloc, MainGoto, sync, flags
<1>1. TypeOK'
  BY ZenonT(30) DEF TypeOK
<1>2. Ownership'
  BY DEF Ownership, Progress, TypeOK
<1>3. Progress'
  BY DEF Progress, Ownership, TypeOK
<1>4. Lifetime'
  BY DEF Lifetime, Progress, TypeOK
<1>. QED
  BY <1>1, <1>2, <1>3, <1>4

LEMMA InitSyncStep == ASSUME IInv, InitSync PROVE IInv'
<1> USE ConstantsAssumption DEF IInv, InitSync, MainGoto, sync, flags
<1>1. TypeOK'
  BY DEF TypeOK
<1>2. Ownership'
  BY DEF Ownership, Progress, TypeOK
<1>3. Progress'
  BY DEF Progress, Ownership, TypeOK
<1>4. Lifetime'
  BY DEF Lifetime, Progress, TypeOK
<1>. QED
  BY <1>1, <1>2, <1>3, <1>4

LEMMA CreateThreadStep == ASSUME IInv, CreateThread PROVE IInv'
<1> USE ConstantsAssumption DEF IInv, CreateThread, AfterCreate, sync, flags, data
<1>1. TypeOK'
  BY DEF TypeOK
<1>2. Ownership'
  BY DEF Ownership, Progress, TypeOK
<1>3. Progress'
  BY DEF Progress, Ownership, TypeOK
<1>4. Lifetime'
  BY DEF Lifetime, Progress, TypeOK
<1>. QED
  BY <1>1, <1>2, <1>3, <1>4

(* The second pthread_create of CHECK_ERR may have made the thread.        *)
LEMMA CreateFailsStep == ASSUME IInv, CreateFails PROVE IInv'
<1> USE ConstantsAssumption DEF IInv, CreateFails, sync, flags, data
<1>1. TypeOK'
  BY DEF TypeOK
<1>2. Ownership'
  BY DEF Ownership, Progress, TypeOK
<1>3. Progress'
  BY DEF Progress, Ownership, TypeOK
<1>4. Lifetime'
  BY DEF Lifetime, Progress, TypeOK
<1>. QED
  BY <1>1, <1>2, <1>3, <1>4

LEMMA ExitFailureStep == ASSUME IInv, ExitFailure PROVE IInv'
<1> USE ConstantsAssumption DEF IInv, ExitFailure, MainGoto, sync, flags, data
<1>1. TypeOK'
  BY DEF TypeOK
<1>2. Ownership'
  BY DEF Ownership, Progress, TypeOK
<1>3. Progress'
  BY DEF Progress, Ownership, TypeOK
<1>4. Lifetime'
  BY DEF Lifetime, Progress, TypeOK
<1>. QED
  BY <1>1, <1>2, <1>3, <1>4

LEMMA DetachStep == ASSUME IInv, Detach PROVE IInv'
<1> USE ConstantsAssumption DEF IInv, Detach, MainGoto, AfterDetach, sync, flags, data
<1>1. TypeOK'
  BY DEF TypeOK
<1>2. Ownership'
  BY DEF Ownership, Progress, TypeOK
<1>3. Progress'
  BY DEF Progress, Ownership, TypeOK
<1>4. Lifetime'
  BY DEF Lifetime, Progress, TypeOK
<1>. QED
  BY <1>1, <1>2, <1>3, <1>4

LEMMA CreateT2Step == ASSUME IInv, CreateT2 PROVE IInv'
<1> USE ConstantsAssumption DEF IInv, CreateT2, sync, flags, data
<1>1. TypeOK'
  BY DEF TypeOK
<1>2. Ownership'
  BY DEF Ownership, Progress, TypeOK
<1>3. Progress'
  BY DEF Progress, Ownership, TypeOK
<1>4. Lifetime'
  BY DEF Lifetime, Progress, TypeOK
<1>. QED
  BY <1>1, <1>2, <1>3, <1>4

LEMMA DetachT2Step == ASSUME IInv, DetachT2 PROVE IInv'
<1> USE ConstantsAssumption DEF IInv, DetachT2, MainGoto, sync, flags, data
<1>1. TypeOK'
  BY DEF TypeOK
<1>2. Ownership'
  BY DEF Ownership, Progress, TypeOK
<1>3. Progress'
  BY DEF Progress, Ownership, TypeOK
<1>4. Lifetime'
  BY DEF Lifetime, Progress, TypeOK
<1>. QED
  BY <1>1, <1>2, <1>3, <1>4

(* The handshake, as main goes through it.                                 *)
LEMMA MainLockStep == ASSUME IInv, MainLock PROVE IInv'
<1> USE ConstantsAssumption DEF IInv, MainLock, MainGoto, Lock, CondResume, flags, data
<1>1. TypeOK'
  BY DEF TypeOK
<1>2. Ownership'
  BY DEF Ownership, Progress, TypeOK
<1>3. Progress'
  BY DEF Progress, Ownership, TypeOK
<1>4. Lifetime'
  BY DEF Lifetime, Progress, TypeOK
<1>. QED
  BY <1>1, <1>2, <1>3, <1>4

LEMMA MainTestStep == ASSUME IInv, MainTest PROVE IInv'
<1> USE ConstantsAssumption DEF IInv, MainTest, MainGoto, sync, flags, data
<1>1. TypeOK'
  BY DEF TypeOK
<1>2. Ownership'
  BY DEF Ownership, Progress, TypeOK
<1>3. Progress'
  BY DEF Progress, Ownership, TypeOK
<1>4. Lifetime'
  BY DEF Lifetime, Progress, TypeOK
<1>. QED
  BY <1>1, <1>2, <1>3, <1>4

LEMMA MainWaitStep == ASSUME IInv, MainWait PROVE IInv'
<1> USE ConstantsAssumption DEF IInv, MainWait, MainGoto, CondWait, Unlock, flags, data
<1>1. TypeOK'
  BY DEF TypeOK
<1>2. Ownership'
  BY DEF Ownership, Progress, TypeOK
<1>3. Progress'
  BY DEF Progress, Ownership, TypeOK
<1>4. Lifetime'
  BY DEF Lifetime, Progress, TypeOK
<1>. QED
  BY <1>1, <1>2, <1>3, <1>4

LEMMA ProceedStep == ASSUME IInv, Proceed PROVE IInv'
<1> USE ConstantsAssumption DEF IInv, Proceed, MainGoto, sync, data
<1>1. TypeOK'
  BY DEF TypeOK
<1>2. Ownership'
  BY DEF Ownership, Progress, TypeOK
<1>3. Progress'
  BY DEF Progress, Ownership, TypeOK
<1>4. Lifetime'
  BY DEF Lifetime, Progress, TypeOK
<1>. QED
  BY <1>1, <1>2, <1>3, <1>4

LEMMA MainSignalStep == ASSUME IInv, MainSignal PROVE IInv'
<1> USE ConstantsAssumption DEF IInv, MainSignal, MainGoto, CondSignal, flags, data
<1>1. TypeOK'
  BY DEF TypeOK
<1>2. Ownership'
  BY DEF Ownership, Progress, TypeOK
<1>3. Progress'
  BY DEF Progress, Ownership, TypeOK
<1>4. Lifetime'
  BY DEF Lifetime, Progress, TypeOK
<1>. QED
  BY <1>1, <1>2, <1>3, <1>4

LEMMA MainUnlockStep == ASSUME IInv, MainUnlock PROVE IInv'
<1> USE ConstantsAssumption DEF IInv, MainUnlock, MainGoto, AfterUnlock, Unlock, flags, data
<1>1. TypeOK'
  BY DEF TypeOK
<1>2. Ownership'
  BY DEF Ownership, Progress, TypeOK
<1>3. Progress'
  BY DEF Progress, Ownership, TypeOK
<1>4. Lifetime'
  BY DEF Lifetime, Progress, TypeOK
<1>. QED
  BY <1>1, <1>2, <1>3, <1>4

(* main after t1 is over: t1_state, and the block of 10_8.                 *)
LEMMA JoinStep == ASSUME IInv, Join PROVE IInv'
<1> USE ConstantsAssumption DEF IInv, Join, MainGoto, Joins, AfterJoin, sync, flags, data
<1>1. TypeOK'
  BY DEF TypeOK
<1>2. Ownership'
  BY DEF Ownership, Progress, TypeOK
<1>3. Progress'
  BY DEF Progress, Ownership, TypeOK
<1>4. Lifetime'
  BY DEF Lifetime, Progress, TypeOK
<1>. QED
  BY <1>1, <1>2, <1>3, <1>4

LEMMA ExitStep == ASSUME IInv, Exit PROVE IInv'
<1> USE ConstantsAssumption DEF IInv, Exit, MainGoto, sync, flags, data
<1>1. TypeOK'
  BY DEF TypeOK
<1>2. Ownership'
  BY DEF Ownership, Progress, TypeOK
<1>3. Progress'
  BY DEF Progress, Ownership, TypeOK
<1>4. Lifetime'
  BY DEF Lifetime, Progress, TypeOK
<1>. QED
  BY <1>1, <1>2, <1>3, <1>4

(* The block of 10_8: tpc is "done", so that t1 holds nothing.             *)
LEMMA DestroysMainStep == ASSUME IInv, Destroys(Main) PROVE IInv'
<1> USE ConstantsAssumption DEF IInv, Destroys, Goto, MainGoto, sync, flags
<1>1. TypeOK'
  BY DEF TypeOK
<1>2. Ownership'
  BY DEF Ownership, Progress, TypeOK
<1>3. Progress'
  BY DEF Progress, Ownership, TypeOK
<1>4. Lifetime'
  BY DEF Lifetime, Progress, TypeOK
<1>. QED
  BY <1>1, <1>2, <1>3, <1>4

LEMMA FreesMainStep == ASSUME IInv, Frees(Main) PROVE IInv'
<1> USE ConstantsAssumption DEF IInv, Frees, Goto, MainGoto, sync, flags
<1>1. TypeOK'
  BY DEF TypeOK
<1>2. Ownership'
  BY DEF Ownership, Progress, TypeOK
<1>3. Progress'
  BY DEF Progress, Ownership, TypeOK
<1>4. Lifetime'
  BY DEF Lifetime, Progress, TypeOK
<1>. QED
  BY <1>1, <1>2, <1>3, <1>4

(* t1.  Its tests of t1_to_proceed find main past its last call.           *)
LEMMA T1StartStep == ASSUME IInv, T1Start PROVE IInv'
<1> USE ConstantsAssumption DEF IInv, T1Start, T1Goto, AfterStart, sync, flags, data
<1>1. TypeOK'
  BY DEF TypeOK
<1>2. Ownership'
  BY DEF Ownership, Progress, TypeOK
<1>3. Progress'
  BY DEF Progress, Ownership, TypeOK
<1>4. Lifetime'
  BY DEF Lifetime, Progress, TypeOK
<1>. QED
  BY <1>1, <1>2, <1>3, <1>4

LEMMA T1LockStep == ASSUME IInv, T1Lock PROVE IInv'
<1> USE ConstantsAssumption DEF IInv, T1Lock, T1Goto, LockForReady, T1Wakes, Lock, CondResume, flags, data
<1>1. TypeOK'
  BY DEF TypeOK
<1>2. Ownership'
  BY DEF Ownership, Progress, TypeOK
<1>3. Progress'
  BY DEF Progress, Ownership, TypeOK
<1>4. Lifetime'
  BY DEF Lifetime, Progress, TypeOK
<1>. QED
  BY <1>1, <1>2, <1>3, <1>4

LEMMA T1ReadyStep == ASSUME IInv, T1Ready PROVE IInv'
<1> USE ConstantsAssumption DEF IInv, T1Ready, T1Goto, sync, data
<1>1. TypeOK'
  BY DEF TypeOK
<1>2. Ownership'
  BY DEF Ownership, Progress, TypeOK
<1>3. Progress'
  BY DEF Progress, Ownership, TypeOK
<1>4. Lifetime'
  BY DEF Lifetime, Progress, TypeOK
<1>. QED
  BY <1>1, <1>2, <1>3, <1>4

LEMMA T1SignalStep == ASSUME IInv, T1Signal PROVE IInv'
<1> USE ConstantsAssumption DEF IInv, T1Signal, T1Goto, CondSignal, flags, data
<1>1. TypeOK'
  BY DEF TypeOK
<1>2. Ownership'
  BY DEF Ownership, Progress, TypeOK
<1>3. Progress'
  BY DEF Progress, Ownership, TypeOK
<1>4. Lifetime'
  BY DEF Lifetime, Progress, TypeOK
<1>. QED
  BY <1>1, <1>2, <1>3, <1>4

LEMMA T1TestStep == ASSUME IInv, T1Test PROVE IInv'
<1> USE ConstantsAssumption DEF IInv, T1Test, T1Goto, sync, flags, data
<1>1. TypeOK'
  BY DEF TypeOK
<1>2. Ownership'
  BY DEF Ownership, Progress, TypeOK
<1>3. Progress'
  BY DEF Progress, Ownership, TypeOK
<1>4. Lifetime'
  BY DEF Lifetime, Progress, TypeOK
<1>. QED
  BY <1>1, <1>2, <1>3, <1>4

LEMMA T1WaitStep == ASSUME IInv, T1Wait PROVE IInv'
<1> USE ConstantsAssumption DEF IInv, T1Wait, T1Goto, CondWait, Unlock, flags, data
<1>1. TypeOK'
  BY DEF TypeOK
<1>2. Ownership'
  BY DEF Ownership, Progress, TypeOK
<1>3. Progress'
  BY DEF Progress, Ownership, TypeOK
<1>4. Lifetime'
  BY DEF Lifetime, Progress, TypeOK
<1>. QED
  BY <1>1, <1>2, <1>3, <1>4

LEMMA T1UnlockStep == ASSUME IInv, T1Unlock PROVE IInv'
<1> USE ConstantsAssumption DEF IInv, T1Unlock, T1Goto, Unlock, flags, data
<1>1. TypeOK'
  BY DEF TypeOK
<1>2. Ownership'
  BY DEF Ownership, Progress, TypeOK
<1>3. Progress'
  BY DEF Progress, Ownership, TypeOK
<1>4. Lifetime'
  BY DEF Lifetime, Progress, TypeOK
<1>. QED
  BY <1>1, <1>2, <1>3, <1>4

LEMMA T1WorkStep == ASSUME IInv, T1Work PROVE IInv'
<1> USE ConstantsAssumption DEF IInv, T1Work, T1Goto, AfterWork, sync, flags, data
<1>1. TypeOK'
  BY DEF TypeOK
<1>2. Ownership'
  BY DEF Ownership, Progress, TypeOK
<1>3. Progress'
  BY DEF Progress, Ownership, TypeOK
<1>4. Lifetime'
  BY DEF Lifetime, Progress, TypeOK
<1>. QED
  BY <1>1, <1>2, <1>3, <1>4

LEMMA ReportStep == ASSUME IInv, Report PROVE IInv'
<1> USE ConstantsAssumption DEF IInv, Report, T1Goto, sync, data
<1>1. TypeOK'
  BY DEF TypeOK
<1>2. Ownership'
  BY DEF Ownership, Progress, TypeOK
<1>3. Progress'
  BY DEF Progress, Ownership, TypeOK
<1>4. Lifetime'
  BY DEF Lifetime, Progress, TypeOK
<1>. QED
  BY <1>1, <1>2, <1>3, <1>4

(* The block of 10_7: main is past its unlock.                             *)
LEMMA DestroysT1Step == ASSUME IInv, Destroys(T1) PROVE IInv'
<1> USE ConstantsAssumption DEF IInv, Destroys, Goto, T1Goto, sync, flags
<1>1. TypeOK'
  BY DEF TypeOK
<1>2. Ownership'
  BY DEF Ownership, Progress, TypeOK
<1>3. Progress'
  BY DEF Progress, Ownership, TypeOK
<1>4. Lifetime'
  BY DEF Lifetime, Progress, TypeOK
<1>. QED
  BY <1>1, <1>2, <1>3, <1>4

LEMMA FreesT1Step == ASSUME IInv, Frees(T1) PROVE IInv'
<1> USE ConstantsAssumption DEF IInv, Frees, Goto, T1Goto, sync, flags
<1>1. TypeOK'
  BY ZenonT(30) DEF TypeOK
<1>2. Ownership'
  BY DEF Ownership, Progress, TypeOK
<1>3. Progress'
  BY DEF Progress, Ownership, TypeOK
<1>4. Lifetime'
  BY DEF Lifetime, Progress, TypeOK
<1>. QED
  BY <1>1, <1>2, <1>3, <1>4

LEMMA T1ExitStep == ASSUME IInv, T1Exit PROVE IInv'
<1> USE ConstantsAssumption DEF IInv, T1Exit, T1Goto, sync, flags, data
<1>1. TypeOK'
  BY DEF TypeOK
<1>2. Ownership'
  BY DEF Ownership, Progress, TypeOK
<1>3. Progress'
  BY DEF Progress, Ownership, TypeOK
<1>4. Lifetime'
  BY DEF Lifetime, Progress, TypeOK
<1>. QED
  BY <1>1, <1>2, <1>3, <1>4

LEMMA SpinStep == ASSUME IInv, Spin PROVE IInv'
<1> USE ConstantsAssumption DEF IInv, Spin, T1Goto, sync, flags, data
<1>1. TypeOK'
  BY DEF TypeOK
<1>2. Ownership'
  BY DEF Ownership, Progress, TypeOK
<1>3. Progress'
  BY DEF Progress, Ownership, TypeOK
<1>4. Lifetime'
  BY DEF Lifetime, Progress, TypeOK
<1>. QED
  BY <1>1, <1>2, <1>3, <1>4

(* t2 of 10_6, and spurious wakeups.                                       *)
LEMMA TimedLockStep == ASSUME IInv, TimedLock PROVE IInv'
<1> USE ConstantsAssumption DEF IInv, TimedLock, T2Goto, Lock, flags, data
<1>1. TypeOK'
  BY DEF TypeOK
<1>2. Ownership'
  BY DEF Ownership, Progress, TypeOK
<1>3. Progress'
  BY DEF Progress, Ownership, TypeOK
<1>4. Lifetime'
  BY DEF Lifetime, Progress, TypeOK
<1>. QED
  BY <1>1, <1>2, <1>3, <1>4

LEMMA TimesOutStep == ASSUME IInv, TimesOut PROVE IInv'
<1> USE ConstantsAssumption DEF IInv, TimesOut, GivesUp, sync, flags, data
<1>1. TypeOK'
  BY DEF TypeOK
<1>2. Ownership'
  BY DEF Ownership, Progress, TypeOK
<1>3. Progress'
  BY DEF Progress, Ownership, TypeOK
<1>4. Lifetime'
  BY DEF Lifetime, Progress, TypeOK
<1>. QED
  BY <1>1, <1>2, <1>3, <1>4

LEMMA T2UnlockStep == ASSUME IInv, T2Unlock PROVE IInv'
<1> USE ConstantsAssumption DEF IInv, T2Unlock, T2Goto, Unlock, flags, data
<1>1. TypeOK'
  BY DEF TypeOK
<1>2. Ownership'
  BY DEF Ownership, Progress, TypeOK
<1>3. Progress'
  BY DEF Progress, Ownership, TypeOK
<1>4. Lifetime'
  BY DEF Lifetime, Progress, TypeOK
<1>. QED
  BY <1>1, <1>2, <1>3, <1>4

LEMMA SpuriousStep == ASSUME IInv, Spurious PROVE IInv'
<1> USE ConstantsAssumption DEF IInv, Spurious, SpuriousWakeup, flags, data
<1>1. TypeOK'
  BY DEF TypeOK
<1>2. Ownership'
  BY DEF Ownership, Progress, TypeOK
<1>3. Progress'
  BY DEF Progress, Ownership, TypeOK
<1>4. Lifetime'
  BY DEF Lifetime, Progress, TypeOK
<1>. QED
  BY <1>1, <1>2, <1>3, <1>4

(* Every program starts with its data alive, or in malloc without any.     *)
LEMMA InitIInv == Init => IInv
<1> SUFFICES ASSUME Init PROVE IInv
  OBVIOUS
<1> USE ConstantsAssumption DEF Init
<1>1. TypeOK
  BY DEF TypeOK
<1>2. Ownership /\ Progress /\ Lifetime
  BY DEF Ownership, Progress, Lifetime
<1>. QED
  BY <1>1, <1>2 DEF IInv

LEMMA NextIInv == IInv /\ [Next]_vars => IInv'
<1> SUFFICES ASSUME IInv, [Next]_vars PROVE IInv'
  OBVIOUS
<1>1. CASE MainStep
  BY <1>1, MallocStep, InitSyncStep, CreateThreadStep, ExitFailureStep,
     DetachStep, CreateT2Step, DetachT2Step, MainLockStep,
     MainTestStep, MainWaitStep, ProceedStep, MainSignalStep,
     MainUnlockStep, JoinStep, ExitStep, DestroysMainStep,
     FreesMainStep
     DEF MainStep
<1>2. CASE T1Step
  BY <1>2, T1StartStep, T1LockStep, T1ReadyStep, T1SignalStep, T1TestStep,
     T1WaitStep, T1UnlockStep, T1WorkStep, ReportStep, DestroysT1Step,
     FreesT1Step, T1ExitStep, SpinStep
     DEF T1Step
<1>3. CASE T2Step
  BY <1>3, TimedLockStep, TimesOutStep, T2UnlockStep DEF T2Step
<1>4. CASE CreateFails \/ Spurious
  BY <1>4, CreateFailsStep, SpuriousStep
<1>5. CASE UNCHANGED vars
  <2> USE <1>5 DEF vars, sync, flags, data
  <2>1. TypeOK' /\ Ownership'
    BY DEF IInv, TypeOK, Ownership
  <2>2. Progress' /\ Lifetime'
    BY DEF IInv, Progress, Lifetime
  <2>. QED
    BY <2>1, <2>2 DEF IInv
<1>. QED
  BY <1>1, <1>2, <1>3, <1>4, <1>5 DEF Next, Terminated

(* IInv holds in every reachable state.                                    *)
THEOREM Invariance == Spec => []IInv
BY InitIInv, NextIInv, PTL DEF Spec

(* Types; each thread makes only the calls of its own program.             *)
THEOREM TypeCorrect == Spec => []TypeOK
<1>1. IInv => TypeOK
  BY DEF IInv
<1>. QED
  BY <1>1, Invariance, PTL

(* Nobody uses shared data that is not there yet or not there any more; a  *)
(* destroy finds the mutex free and nobody blocked; t1 reads its argument  *)
(* while the frame of main that holds it exists.                           *)
THEOREM NoUseAfterFree == Spec => []UsedWhileAlive
<1>1. IInv => UsedWhileAlive
  <2> SUFFICES ASSUME IInv PROVE UsedWhileAlive
    OBVIOUS
  <2> USE ConstantsAssumption DEF IInv
  <2>1. (\/ mpc \in MainShakes \cup MainAwaitsDone
         \/ tpc \in T1Shakes \cup T1Reports
         \/ tpc = "work" /\ program \in OnHeap) => (allocated /\ live = Sync)
    BY DEF TypeOK, Progress, Lifetime
  <2>2. ASSUME mpc \in Cleanup \/ tpc \in Cleanup
        PROVE  /\ allocated /\ owner[Mutex] = NoThread
               /\ waiters[FromT1] = {} /\ waiters[FromMain] = {}
    <3>1. allocated
      BY <2>2 DEF TypeOK, Progress, Lifetime
    <3>2. mpc \notin MainHolds \cup {"blocked", "blocked_done"}
      BY <2>2 DEF TypeOK, Progress
    <3>3. tpc \notin T1Holds \cup {"blocked"} /\ t2pc = "none"
      BY <2>2 DEF TypeOK, Progress
    <3>4. owner[Mutex] = NoThread
      BY <3>2, <3>3 DEF TypeOK, Ownership
    <3>5. waiters[FromT1] = {} /\ waiters[FromMain] = {}
      BY <3>2, <3>3 DEF TypeOK, Ownership
    <3>. QED
      BY <3>1, <3>4, <3>5
  <2>3. (program \in PassesLocal /\ tpc = "start") => mpc \notin {"done", "returned"}
    BY DEF Progress
  <2>. QED
    BY <2>1, <2>2, <2>3 DEF UsedWhileAlive
<1>. QED
  BY <1>1, Invariance, PTL

(* t1 works only after main told it to, and main goes on from its last     *)
(* wait, or its join, only after t1 has reported, or is over.              *)
THEOREM Rendezvous == Spec => []RendezvousOrder
<1>1. IInv => RendezvousOrder
  <2> SUFFICES ASSUME IInv PROVE RendezvousOrder
    OBVIOUS
  <2>1. (tpc \in {"work"} \cup Cleanup) => t1_to_proceed
    BY DEF IInv, TypeOK, Progress
  <2>2. (program = "10_3" /\ t1_done) => t1_to_proceed
    BY DEF IInv, Progress
  <2>. QED
    BY <2>1, <2>2 DEF IInv, Progress, RendezvousOrder
<1>. QED
  BY <1>1, Invariance, PTL

(* A process that is over by itself has joined or detached its thread, and *)
(* has destroyed and freed exactly what came from malloc.                  *)
THEOREM NothingLeft == Spec => []EverythingReclaimed
<1>1. IInv => EverythingReclaimed
  <2> SUFFICES ASSUME IInv, AllDone
               PROVE  /\ t1_state # "joinable"
                      /\ IF program \in OnHeap THEN ~allocated /\ live = {}
                                               ELSE allocated /\ live = Sync
    BY DEF EverythingReclaimed
  <2>1. t1_state # "joinable"
    BY DEF IInv, AllDone, Progress
  <2>2. IF program \in OnHeap THEN ~allocated /\ live = {}
                             ELSE allocated /\ live = Sync
    BY DEF IInv, AllDone, TypeOK, Lifetime
  <2>. QED
    BY <2>1, <2>2
<1>. QED
  BY <1>1, Invariance, PTL
=============================================================================
