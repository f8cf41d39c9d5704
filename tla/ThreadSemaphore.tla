-------------------------- MODULE ThreadSemaphore --------------------------
(***************************************************************************)
(* 12_2_1 "Unnamed Semaphores, Inter Threads": the main thread creates     *)
(* CNT_THREADS threads and joins them.  Each takes a permit of a semaphore *)
(* initialised to SVAL_INITIAL, counts to LOOP_COUNT in a local variable,  *)
(* adds it to glob under a mutex, and gives the permit back.               *)
(*                                                                         *)
(* With SVAL_INITIAL > 1 it is the mutex alone that makes "glob += local"  *)
(* one step: it is a read and a write here.  JoinsRunning, AddsUnlocked    *)
(* and KeepsPermit are wrong variants of the definitions they precede, for *)
(* mutation testing.  Names that SharedMemorySemaphore or Cancellation     *)
(* has too carry a "Threads" here, or are other words:                     *)
(* SynchronisingProofs extends all three.                                  *)
(***************************************************************************)
EXTENDS Naturals, FiniteSets

CONSTANTS CNT_THREADS, LOOP_COUNT, SVAL_INITIAL,
          None                     \* the mutex is free

T == 0 .. (CNT_THREADS - 1)

ASSUME ThreadsAssumption ==
    /\ CNT_THREADS \in Nat \ {0}
    /\ LOOP_COUNT \in Nat
    /\ SVAL_INITIAL \in Nat \ {0}
    /\ None \notin T

VARIABLES main_pc, thread_pc,      \* control state: main, each thread
          idx,                     \* the index of main's for loops
          sem,                     \* value of the semaphore
          mtx,                     \* the thread that has locked the mutex, or None
          glob,
          read,                    \* [t -> glob as t read it]
          usable                   \* of "sem", "mtx": initialised, not destroyed

threadVars == <<main_pc, thread_pc, idx, sem, mtx, glob, read, usable>>

ThreadsInit ==
    /\ main_pc = "sem_init"
    /\ thread_pc = [t \in T |-> "none"]
    /\ idx = 0
    /\ sem = 0
    /\ mtx = None
    /\ glob = 0
    /\ read = [t \in T |-> 0]
    /\ usable = {"mtx"}

ThreadGoto(t, from, to) ==
    /\ main_pc # "failed"          \* exit() ends every thread
    /\ thread_pc[t] = from
    /\ thread_pc' = [thread_pc EXCEPT ![t] = to]
    /\ UNCHANGED <<main_pc, idx, usable>>

-----------------------------------------------------------------------------
(* main                                                                    *)

InitSem ==
    /\ main_pc = "sem_init"
    /\ \/ main_pc' = "create" /\ sem' = SVAL_INITIAL /\ usable' = usable \cup {"sem"}
       \/ main_pc' = "failed" /\ UNCHANGED <<sem, usable>>
    /\ UNCHANGED <<thread_pc, idx, mtx, glob, read>>

CreateWorker ==
    /\ main_pc = "create"
    /\ thread_pc' = [thread_pc EXCEPT ![idx] = "wait"]
    /\ IF idx + 1 < CNT_THREADS THEN main_pc' = "create" /\ idx' = idx + 1
                              ELSE main_pc' = "join" /\ idx' = 0
    /\ UNCHANGED <<sem, mtx, glob, read, usable>>

CreateWorkerFails ==
    /\ main_pc = "create" /\ main_pc' = "failed"
    /\ UNCHANGED <<thread_pc, idx, sem, mtx, glob, read, usable>>

JoinsRunning == TRUE
IsOver == thread_pc[idx] = "done"

Join ==
    /\ main_pc = "join"
    /\ IsOver
    /\ IF idx + 1 < CNT_THREADS THEN main_pc' = "join" /\ idx' = idx + 1
                              ELSE main_pc' = "destroy_sem" /\ idx' = 0
    /\ UNCHANGED <<thread_pc, sem, mtx, glob, read, usable>>

DestroyBoth ==
    /\ \/ /\ main_pc = "destroy_sem" /\ main_pc' = "destroy_mtx"
          /\ usable' = usable \ {"sem"}
       \/ /\ main_pc = "destroy_mtx" /\ main_pc' = "done"
          /\ usable' = usable \ {"mtx"}
    /\ UNCHANGED <<thread_pc, idx, sem, mtx, glob, read>>

-----------------------------------------------------------------------------
(* threadFunc                                                              *)

TakePermit == sem > 0 /\ sem' = sem - 1

(* sem_wait, then the local loop.                                          *)
WaitSem(t) ==
    /\ ThreadGoto(t, "wait", "lock")
    /\ TakePermit
    /\ UNCHANGED <<mtx, glob, read>>

AddsUnlocked(t) == UNCHANGED mtx
LockMtx(t) == mtx = None /\ mtx' = t

LockGlob(t) ==
    /\ ThreadGoto(t, "lock", "read")
    /\ LockMtx(t)
    /\ UNCHANGED <<sem, glob, read>>

ReadGlob(t) ==
    /\ ThreadGoto(t, "read", "write")
    /\ read' = [read EXCEPT ![t] = glob]
    /\ UNCHANGED <<sem, mtx, glob>>

AddLocal(t) == glob' = read[t] + LOOP_COUNT

WriteGlob(t) ==
    /\ ThreadGoto(t, "write", "unlock")
    /\ AddLocal(t)
    /\ UNCHANGED <<sem, mtx, read>>

UnlockGlob(t) ==
    /\ ThreadGoto(t, "unlock", "post")
    /\ mtx' = None
    /\ UNCHANGED <<sem, glob, read>>

KeepsPermit == UNCHANGED sem
GivePermit == sem' = sem + 1

(* sem_post, then the thread returns.                                      *)
PostSem(t) ==
    /\ ThreadGoto(t, "post", "done")
    /\ GivePermit
    /\ UNCHANGED <<mtx, glob, read>>

-----------------------------------------------------------------------------
ThreadsMainStep == CreateWorker \/ Join \/ DestroyBoth

Thread(t) ==
    \/ WaitSem(t)
    \/ LockGlob(t)
    \/ ReadGlob(t)
    \/ WriteGlob(t)
    \/ UnlockGlob(t)
    \/ PostSem(t)

ThreadsTerminated == main_pc \in {"done", "failed"} /\ UNCHANGED threadVars

ThreadsNext ==
    \/ InitSem
    \/ ThreadsMainStep
    \/ CreateWorkerFails
    \/ \E t \in T : Thread(t)
    \/ ThreadsTerminated

ThreadsSpec == ThreadsInit /\ [][ThreadsNext]_threadVars

(* Every thread is scheduled; each wants the permit and the mutex once, so *)
(* nobody can overtake it for ever.                                        *)
ThreadsFairSpec ==
    /\ ThreadsSpec
    /\ WF_threadVars(ThreadsMainStep)
    /\ \A t \in T : WF_threadVars(Thread(t))

-----------------------------------------------------------------------------
(* Properties                                                              *)

ThreadPC == {"none", "wait", "lock", "read", "write", "unlock", "post", "done"}

(* Every variable stays in its type, the semaphore between 0 and its       *)
(* initial value.                                                          *)
ThreadsTypeOK ==
    /\ main_pc \in {"sem_init", "create", "join", "destroy_sem", "destroy_mtx",
                "done", "failed"}
    /\ thread_pc \in [T -> ThreadPC]
    /\ idx \in T
    /\ sem \in 0 .. SVAL_INITIAL
    /\ mtx \in T \cup {None}
    /\ glob \in Nat /\ read \in [T -> Nat]
    /\ usable \subseteq {"sem", "mtx"}

Added == {t \in T : thread_pc[t] \in {"unlock", "post", "done"}}
Inside == {t \in T : thread_pc[t] \in {"lock", "read", "write", "unlock", "post"}}

(* No update of glob is lost though several threads are past the semaphore *)
(* at once ("We used mutex exclusively since it prevents race conditions   *)
(* ...", lines 23-24): glob is what the threads that wrote it have added,  *)
(* and the sum of all when main prints it.                                 *)
NoLostUpdate ==
    /\ glob = LOOP_COUNT * Cardinality(Added)
    /\ (main_pc \in {"destroy_sem", "destroy_mtx", "done"}) =>
          (glob = LOOP_COUNT * CNT_THREADS)

(* The threads inside have the permits that the semaphore has not.         *)
PermitsConserved ==
    ("sem" \in usable) => (sem + Cardinality(Inside) = SVAL_INITIAL)

(* "... since main joins all worker threads before destroying the          *)
(* semaphore, it knows all threads have finished using it" (lines 18-21).  *)
DestroyedUnused ==
    (main_pc \notin {"sem_init", "failed"} /\ usable # {"sem", "mtx"}) =>
        (mtx = None /\ \A t \in T : thread_pc[t] = "done")

(* The inductive invariant.                                                *)
Locking ==
    /\ \A t \in T : (mtx = t) <=> (thread_pc[t] \in {"read", "write", "unlock"})
    /\ \A t \in T : (thread_pc[t] = "write") => (read[t] = glob)

Joining ==
    /\ (main_pc = "sem_init") => (idx = 0 /\ usable = {"mtx"} /\ \A t \in T : thread_pc[t] = "none")
    /\ (main_pc = "create") => \A t \in T : (thread_pc[t] = "none") <=> (idx <= t)
    /\ (main_pc = "join") => \A t \in T : (t < idx) => (thread_pc[t] = "done")
    /\ (main_pc \in {"create", "join", "destroy_sem"}) => (usable = {"sem", "mtx"})
    /\ (main_pc \in {"destroy_sem", "destroy_mtx", "done"}) =>
          \A t \in T : thread_pc[t] = "done"
    /\ ("sem" \notin usable) =>
          \A t \in T : thread_pc[t] \in {"none", "done"}

Sums == glob = LOOP_COUNT * Cardinality(Added)

ThreadsInv == ThreadsTypeOK /\ Locking /\ Joining /\ PermitsConserved /\ Sums

(* All threads get through and main prints the sum.                        *)
ThreadsTermination == (main_pc = "join") ~> (main_pc = "done")
=============================================================================
