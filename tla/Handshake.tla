----------------------------- MODULE Handshake -----------------------------
(***************************************************************************)
(* The programs of 10_Threads with one worker thread t1: 10_1 (join), 10_2 *)
(* (t1 signals that its work is done), 10_3 (the two-way handshake ready / *)
(* proceed, then done), 10_4 (detach), 10_7 and 10_8 (the handshake with   *)
(* the mutex and condition variables in a heap block, which the detached   *)
(* thread of 10_7 frees itself and the main thread of 10_8 frees after its *)
(* join); and 10_6, where t1 locks the mutex for ever and a second worker  *)
(* t2 waits for it two seconds at most.                                    *)
(*                                                                         *)
(* They are parts of the same text, so they are one module: `program` says *)
(* which one runs, and the operators After... which call follows another   *)
(* in it.  A pc value names the call the thread makes next.  The flag      *)
(* work_done of 10_2 is t1_done here, its condition variable cond FromT1.  *)
(*                                                                         *)
(* NeverDetaches, MainFreesAtOnce, FreesStatic, WakesUntested and          *)
(* WaitsForever are wrong variants of the definitions they precede, for    *)
(* mutation testing.                                                       *)
(***************************************************************************)
EXTENDS Pthreads

CONSTANTS Main, T1, T2,            \* the threads; only 10_6 has t2
          Mutex, FromT1, FromMain  \* the mutex and the condition variables

Threads == {Main, T1, T2}
Sync == {Mutex, FromT1, FromMain}

ASSUME ConstantsAssumption ==
    /\ Main # T1 /\ Main # T2 /\ T1 # T2
    /\ NoThread \notin Threads
    /\ Mutex # FromT1 /\ Mutex # FromMain /\ FromT1 # FromMain

Programs == {"10_1", "10_2", "10_3", "10_4", "10_6", "10_7", "10_8"}
OnHeap == {"10_7", "10_8"}         \* shared_data_t comes from malloc
Detaches == {"10_4", "10_6", "10_7"}
PassesLocal == {"10_1", "10_2", "10_3"}       \* t1's argument is &val_to_pass
EvaluatesTwice == {"10_3", "10_4", "10_6", "10_7", "10_8"}  \* CHECK_ERR(pthread_create())

VARIABLES program,
          mpc, tpc, t2pc,          \* control state of main, of t1 and of t2
          t1_ready, t1_to_proceed, t1_done,
          allocated,               \* the shared data may be used
          live,                    \* the initialised, not destroyed part of Sync
          t1_state                 \* "joinable", "detached" or "joined"

sync == <<owner, waiters>>
flags == <<t1_ready, t1_to_proceed, t1_done>>
data == <<allocated, live>>
vars == <<program, mpc, tpc, t2pc, sync, flags, data, t1_state>>

Init ==
    /\ program \in Programs
    /\ mpc = IF program \in OnHeap THEN "malloc" ELSE "create"
    /\ tpc = "none" /\ t2pc = "none"
    /\ owner = [m \in {Mutex} |-> NoThread]
    /\ waiters = [c \in {FromT1, FromMain} |-> {}]
    /\ t1_ready = FALSE /\ t1_to_proceed = FALSE /\ t1_done = FALSE
    /\ allocated = (program \notin OnHeap)
    /\ live = IF program \in OnHeap THEN {} ELSE Sync
    /\ t1_state = "joinable"

Running == mpc \notin {"failed", "returned"}     \* exit() ends every thread

MainGoto(from, to) ==
    /\ mpc = from /\ mpc' = to
    /\ UNCHANGED <<program, tpc, t2pc>>

T1Goto(from, to) ==
    /\ Running
    /\ tpc = from /\ tpc' = to
    /\ UNCHANGED <<program, mpc, t2pc>>

T2Goto(from, to) ==
    /\ Running
    /\ t2pc = from /\ t2pc' = to
    /\ UNCHANGED <<program, mpc, tpc>>

-----------------------------------------------------------------------------
(* Which call of main follows which.                                       *)
NeverDetaches == CASE program \in {"10_4", "10_6"} -> "exit"
                   [] program = "10_1" -> "join"
                   [] program = "10_2" -> "lock_done"
                   [] OTHER -> "lock"
AfterCreate == CASE program \in Detaches -> "detach"
                 [] program = "10_1" -> "join"
                 [] program = "10_2" -> "lock_done"
                 [] OTHER -> "lock"
AfterDetach == CASE program = "10_4" -> "exit"
                 [] program = "10_6" -> "create_t2"
                 [] OTHER -> "lock"
MainFreesAtOnce == CASE program = "10_3" -> "lock_done"
                     [] program = "10_7" -> "destroy_mutex"
                     [] OTHER -> "join"
AfterUnlock == CASE program = "10_3" -> "lock_done"
                 [] program = "10_7" -> "exit"
                 [] OTHER -> "join"
FreesStatic == "destroy_mutex"
AfterJoin == IF program = "10_8" THEN "destroy_mutex" ELSE "exit"

(* Which call of t1 follows which.                                         *)
AfterStart == CASE program \in {"10_1", "10_4"} -> "exit"
                [] program = "10_2" -> "lock_done"
                [] OTHER -> "lock"
AfterWork == CASE program = "10_3" -> "lock_done"
               [] program = "10_7" -> "destroy_mutex"
               [] OTHER -> "exit"

-----------------------------------------------------------------------------
(* main                                                                    *)

Malloc ==
    /\ \/ MainGoto("malloc", "init") /\ allocated' = TRUE
       \/ MainGoto("malloc", "failed") /\ UNCHANGED allocated
    /\ UNCHANGED <<sync, flags, live, t1_state>>

InitSync ==
    /\ \/ MainGoto("init", "create") /\ live' = Sync
       \/ MainGoto("init", "failed") /\ UNCHANGED live
    /\ UNCHANGED <<sync, flags, allocated, t1_state>>

CreateThread ==
    /\ mpc = "create" /\ mpc' = AfterCreate
    /\ tpc' = "start"
    /\ UNCHANGED <<program, t2pc, sync, flags, data, t1_state>>

CreateT2 ==
    /\ mpc = "create_t2" /\ mpc' = "detach_t2"
    /\ t2pc' = "timedlock"
    /\ UNCHANGED <<program, tpc, sync, flags, data, t1_state>>

DetachT2 ==
    /\ MainGoto("detach_t2", "exit")
    /\ UNCHANGED <<sync, flags, data, t1_state>>

(* pthread_create fails.  Where it is the argument of CHECK_ERR it is      *)
(* called again to be passed to strerror, and that call may succeed.       *)
CreateFails ==
    /\ mpc \in {"create", "create_t2"} /\ mpc' = "failing"
    /\ \/ UNCHANGED <<tpc, t2pc>>
       \/ /\ program \in EvaluatesTwice
          /\ IF mpc = "create" THEN tpc' = "start" /\ UNCHANGED t2pc
                               ELSE t2pc' = "timedlock" /\ UNCHANGED tpc
    /\ UNCHANGED <<program, sync, flags, data, t1_state>>

ExitFailure ==
    /\ MainGoto("failing", "failed")
    /\ UNCHANGED <<sync, flags, data, t1_state>>

Detach ==
    /\ MainGoto("detach", AfterDetach)
    /\ t1_state' = "detached"
    /\ UNCHANGED <<sync, flags, data>>

MainLock ==
    /\ \/ MainGoto("lock", "test") /\ Lock(Main, Mutex)
       \/ MainGoto("blocked", "test") /\ CondResume(Main, FromT1, Mutex)
       \/ MainGoto("lock_done", "test_done") /\ Lock(Main, Mutex)
       \/ MainGoto("blocked_done", "test_done") /\ CondResume(Main, FromT1, Mutex)
    /\ UNCHANGED <<waiters, flags, data, t1_state>>

(* while (t1_ready != 1), while (t1_done != 1)                             *)
MainTest ==
    /\ \/ MainGoto("test", IF t1_ready THEN "proceed" ELSE "wait")
       \/ MainGoto("test_done", IF t1_done THEN "unlock_done" ELSE "wait_done")
    /\ UNCHANGED <<sync, flags, data, t1_state>>

MainWait ==
    /\ MainGoto("wait", "blocked") \/ MainGoto("wait_done", "blocked_done")
    /\ CondWait(Main, FromT1, Mutex)
    /\ UNCHANGED <<flags, data, t1_state>>

Proceed ==
    /\ MainGoto("proceed", "signal")
    /\ t1_to_proceed' = TRUE
    /\ UNCHANGED <<sync, t1_ready, t1_done, data, t1_state>>

MainSignal ==
    /\ MainGoto("signal", "unlock")
    /\ CondSignal(FromMain)
    /\ UNCHANGED <<owner, flags, data, t1_state>>

MainUnlock ==
    /\ MainGoto("unlock", AfterUnlock) \/ MainGoto("unlock_done", "join")
    /\ Unlock(Mutex)
    /\ UNCHANGED <<waiters, flags, data, t1_state>>

Joins == MainGoto("join", AfterJoin) /\ tpc = "done" /\ t1_state' = "joined"

Join ==
    /\ Joins
    /\ UNCHANGED <<sync, flags, data>>

(* pthread_exit lets t1 go on; the return of main in 10_8 ends the process.*)
Exit ==
    /\ MainGoto("exit", IF program = "10_8" THEN "returned" ELSE "done")
    /\ UNCHANGED <<sync, flags, data, t1_state>>

-----------------------------------------------------------------------------
(* The end of the heap block, made by main in 10_8 and by t1 in 10_7.      *)

Goto(th, from, to) == IF th = Main THEN MainGoto(from, to) ELSE T1Goto(from, to)

Destroys(th) ==
    /\ \/ Goto(th, "destroy_mutex", "destroy_from_main") /\ live' = live \ {Mutex}
       \/ Goto(th, "destroy_from_main", "destroy_from_t1") /\ live' = live \ {FromMain}
       \/ Goto(th, "destroy_from_t1", "free") /\ live' = live \ {FromT1}
    /\ UNCHANGED <<sync, flags, allocated, t1_state>>

Frees(th) ==
    /\ Goto(th, "free", "exit")
    /\ allocated' = FALSE
    /\ UNCHANGED <<sync, flags, live, t1_state>>

-----------------------------------------------------------------------------
(* thread_function                                                         *)

(* Reading the argument; in 10_2 the work too.                             *)
T1Start ==
    /\ T1Goto("start", AfterStart)
    /\ UNCHANGED <<sync, flags, data, t1_state>>

LockForReady ==
    /\ T1Goto("lock", IF program = "10_6" THEN "spin" ELSE "ready")
    /\ Lock(T1, Mutex)

(* pthread_cond_wait returns: the flag is tested again.                    *)
WakesUntested == T1Goto("blocked", "unlock") /\ CondResume(T1, FromMain, Mutex)
T1Wakes == T1Goto("blocked", "test") /\ CondResume(T1, FromMain, Mutex)

T1Lock ==
    /\ \/ LockForReady
       \/ T1Wakes
       \/ T1Goto("lock_done", "report") /\ Lock(T1, Mutex)
    /\ UNCHANGED <<waiters, flags, data, t1_state>>

T1Ready ==
    /\ T1Goto("ready", "signal")
    /\ t1_ready' = TRUE
    /\ UNCHANGED <<sync, t1_to_proceed, t1_done, data, t1_state>>

T1Signal ==
    /\ T1Goto("signal", "test") \/ T1Goto("signal_done", "unlock_done")
    /\ CondSignal(FromT1)
    /\ UNCHANGED <<owner, flags, data, t1_state>>

(* while (t1_to_proceed != 1)                                              *)
T1Test ==
    /\ T1Goto("test", IF t1_to_proceed THEN "unlock" ELSE "wait")
    /\ UNCHANGED <<sync, flags, data, t1_state>>

T1Wait ==
    /\ T1Goto("wait", "blocked")
    /\ CondWait(T1, FromMain, Mutex)
    /\ UNCHANGED <<flags, data, t1_state>>

T1Unlock ==
    /\ T1Goto("unlock", "work") \/ T1Goto("unlock_done", "exit")
    /\ Unlock(Mutex)
    /\ UNCHANGED <<waiters, flags, data, t1_state>>

T1Work ==
    /\ T1Goto("work", AfterWork)
    /\ UNCHANGED <<sync, flags, data, t1_state>>

Report ==
    /\ T1Goto("report", "signal_done")
    /\ t1_done' = TRUE
    /\ UNCHANGED <<sync, t1_ready, t1_to_proceed, data, t1_state>>

T1Exit ==
    /\ T1Goto("exit", "done")
    /\ UNCHANGED <<sync, flags, data, t1_state>>

(* while (1);                                                              *)
Spin ==
    /\ T1Goto("spin", "spin")
    /\ UNCHANGED <<sync, flags, data, t1_state>>

-----------------------------------------------------------------------------
(* thread_func_t2 of 10_6                                                  *)

TimedLock ==
    /\ T2Goto("timedlock", "unlock")
    /\ Lock(T2, Mutex)
    /\ UNCHANGED <<waiters, flags, data, t1_state>>

(* The two seconds are over: CHECK_ERR calls pthread_mutex_timedlock once  *)
(* more for the text of its message, now with a time that has passed, and  *)
(* then ends the process.                                                  *)
WaitsForever == UNCHANGED <<mpc, t2pc>>
GivesUp == mpc' = "failed" /\ UNCHANGED t2pc

TimesOut ==
    /\ Running
    /\ t2pc = "timedlock" /\ owner[Mutex] # NoThread
    /\ GivesUp
    /\ UNCHANGED <<program, tpc, sync, flags, data, t1_state>>

T2Unlock ==
    /\ T2Goto("unlock", "done")
    /\ Unlock(Mutex)
    /\ UNCHANGED <<waiters, flags, data, t1_state>>

-----------------------------------------------------------------------------
MainStep ==
    \/ Malloc
    \/ InitSync
    \/ CreateThread
    \/ ExitFailure
    \/ Detach
    \/ CreateT2
    \/ DetachT2
    \/ MainLock
    \/ MainTest
    \/ MainWait
    \/ Proceed
    \/ MainSignal
    \/ MainUnlock
    \/ Join
    \/ Destroys(Main)
    \/ Frees(Main)
    \/ Exit

T1Step ==
    \/ T1Start
    \/ T1Lock
    \/ T1Ready
    \/ T1Signal
    \/ T1Test
    \/ T1Wait
    \/ T1Unlock
    \/ T1Work
    \/ Report
    \/ Destroys(T1)
    \/ Frees(T1)
    \/ T1Exit
    \/ Spin

T2Step ==
    \/ TimedLock
    \/ TimesOut
    \/ T2Unlock

Spurious ==
    /\ Running
    /\ SpuriousWakeup(FromT1) \/ SpuriousWakeup(FromMain)
    /\ UNCHANGED <<program, mpc, tpc, t2pc, flags, data, t1_state>>

AllDone == mpc \in {"done", "returned"} /\ tpc = "done"

Terminated ==
    /\ AllDone \/ ~Running
    /\ UNCHANGED vars

Next == MainStep \/ CreateFails \/ T1Step \/ T2Step \/ Spurious \/ Terminated

Spec == Init /\ [][Next]_vars

(* The threads are scheduled, and one that finds the mutex free again and  *)
(* again gets it at last; time passes for t2; nothing forces a spurious    *)
(* wakeup or a failure of pthread_create.                                  *)
FairSpec ==
    /\ Spec
    /\ WF_vars(MainStep) /\ SF_vars(MainLock)
    /\ WF_vars(T1Step) /\ SF_vars(T1Lock)
    /\ WF_vars(T2Step)

-----------------------------------------------------------------------------
(* Properties                                                              *)

Shakes == {"lock", "test", "wait", "blocked", "unlock"}
MainShakes == Shakes \cup {"proceed", "signal"}
T1Shakes == Shakes \cup {"ready", "signal"}
MainAwaitsDone == {"lock_done", "test_done", "wait_done", "blocked_done", "unlock_done"}
T1Reports == {"lock_done", "report", "signal_done", "unlock_done"}
Cleanup == {"destroy_mutex", "destroy_from_main", "destroy_from_t1", "free"}

(* Each thread makes the calls of its own program, in its own thread: the  *)
(* handshake is in 10_3, 10_7 and 10_8 only, the report in 10_2 and 10_3,  *)
(* the cleanup in main for 10_8 and in t1 for 10_7, t2 in 10_6.            *)
TypeOK ==
    /\ program \in Programs
    /\ mpc \in {"create", "failing", "failed", "exit", "done"}
              \cup (IF program \in OnHeap THEN {"malloc", "init"} ELSE {})
              \cup (IF program \in {"10_3", "10_7", "10_8"} THEN MainShakes ELSE {})
              \cup (IF program \in {"10_2", "10_3"} THEN MainAwaitsDone ELSE {})
              \cup (IF program \in Detaches THEN {"detach"} ELSE {"join"})
              \cup (IF program = "10_6" THEN {"create_t2", "detach_t2"} ELSE {})
              \cup (IF program = "10_8" THEN Cleanup \cup {"returned"} ELSE {})
    /\ tpc \in {"none", "start", "exit", "done"}
              \cup (IF program \in {"10_3", "10_7", "10_8"}
                       THEN T1Shakes \cup {"work"} ELSE {})
              \cup (IF program \in {"10_2", "10_3"} THEN T1Reports ELSE {})
              \cup (IF program = "10_7" THEN Cleanup ELSE {})
              \cup (IF program = "10_6" THEN {"lock", "spin"} ELSE {})
    /\ t2pc \in {"none"} \cup (IF program = "10_6" THEN {"timedlock", "unlock", "done"}
                                                    ELSE {})
    /\ owner \in [{Mutex} -> Threads \cup {NoThread}]
    /\ waiters \in [{FromT1, FromMain} -> SUBSET Threads]
    /\ waiters[FromT1] \subseteq {Main} /\ waiters[FromMain] \subseteq {T1}
    /\ {t1_ready, t1_to_proceed, t1_done, allocated} \subseteq BOOLEAN
    /\ live \subseteq Sync
    /\ t1_state \in {"joinable", "detached", "joined"}

(* "A mutex/cond var must stay valid until all threads that might use it   *)
(* are finished" (10_7 lines 3-6): while a thread has a call on the shared *)
(* data before it, the block is allocated and nothing in it is destroyed,  *)
(* and a destroy finds the mutex free and no thread blocked.  Likewise t1  *)
(* reads its argument (10_1 line 64, 10_2 line 132, 10_3 line 91) while    *)
(* the frame of main that holds val_to_pass exists.                        *)
UsedWhileAlive ==
    /\ (\/ mpc \in MainShakes \cup MainAwaitsDone
        \/ tpc \in T1Shakes \cup T1Reports
        \/ tpc = "work" /\ program \in OnHeap) => (allocated /\ live = Sync)
    /\ (mpc \in Cleanup \/ tpc \in Cleanup) =>
          /\ allocated
          /\ owner[Mutex] = NoThread
          /\ waiters[FromT1] = {} /\ waiters[FromMain] = {}
    /\ (program \in PassesLocal /\ tpc = "start") =>
          mpc \notin {"done", "returned"}

(* t1 works only after main, which saw that it was ready, told it to; main *)
(* goes on from its last wait only after t1 reported, and from a join only *)
(* after t1 is over (10_3 lines 54-59, 68, 78 and 99; 10_8 line 105).      *)
RendezvousOrder ==
    /\ (tpc \in {"work"} \cup Cleanup) => t1_to_proceed
    /\ t1_to_proceed => t1_ready
    /\ (program = "10_3" /\ t1_done) => t1_to_proceed
    /\ (program \in {"10_2", "10_3"} /\ mpc \in {"unlock_done", "join", "exit", "done"})
          => t1_done
    /\ (program \notin Detaches /\ mpc \in {"exit", "done", "returned"} \cup Cleanup)
          => tpc = "done"

(* When the process is over by itself, nothing is left behind: the thread  *)
(* was detached or joined (10_4 lines 2-6), what came from malloc is freed *)
(* and its mutex and condition variables were destroyed before (10_7 lines *)
(* 14-20), and static ones were not.                                       *)
EverythingReclaimed ==
    AllDone => /\ t1_state # "joinable"
               /\ IF program \in OnHeap THEN ~allocated /\ live = {}
                                        ELSE allocated /\ live = Sync

(* Once t1 exists main finishes and so does t1, or in 10_6 t2: whatever t1 *)
(* does with the mutex, "blocked state until timeout ends" (10_6 line 90)  *)
(* is not for ever.                                                        *)
Termination ==
    (tpc = "start" /\ mpc # "failing") ~>
        \/ mpc = "failed"
        \/ IF program = "10_6" THEN mpc = "done" /\ t2pc = "done" ELSE AllDone

-----------------------------------------------------------------------------
(* The inductive invariant                                                 *)

Shaking == {"10_3", "10_7", "10_8"}
MainHolds == {"test", "wait", "proceed", "signal", "unlock",
              "test_done", "wait_done", "unlock_done"}
T1Holds == {"ready", "signal", "test", "wait", "unlock",
            "report", "signal_done", "unlock_done", "spin"}
Starts == {"malloc", "init", "create"}
Ended == {"exit", "done", "returned"}
MainPast == MainAwaitsDone \cup {"join"} \cup Ended \cup Cleanup
T1Past == {"unlock", "work", "exit", "done"} \cup T1Reports \cup Cleanup

(* Who has the mutex, and who is blocked, follows from the control state.  *)
Ownership ==
    /\ (owner[Mutex] = Main) <=> (mpc \in MainHolds)
    /\ (owner[Mutex] = T1) <=> (tpc \in T1Holds)
    /\ (owner[Mutex] = T2) <=> (t2pc = "unlock")
    /\ (Main \in waiters[FromT1]) => (mpc \in {"blocked", "blocked_done"})
    /\ (T1 \in waiters[FromMain]) => (tpc = "blocked")

(* Who is how far.  That t1 sees t1_to_proceed only with the mutex in its  *)
(* hands makes sure that main has made its last call on it.                *)
Progress ==
    /\ mpc \in Starts => tpc = "none"
    /\ tpc = "none" => mpc \in Starts \cup {"failing", "failed"}
    /\ t2pc # "none" => mpc \in {"detach_t2", "exit", "done", "failing", "failed"}
    /\ mpc = "proceed" => t1_ready
    /\ t1_to_proceed => /\ t1_ready /\ program \in Shaking
                        /\ mpc \in {"signal", "unlock"} \cup MainPast
    /\ (program \in Shaking /\ tpc \in T1Past) => (t1_to_proceed /\ mpc \in MainPast)
    /\ t1_done => tpc \in {"signal_done", "unlock_done", "exit", "done"}
    /\ (program \in {"10_2", "10_3"} /\ mpc \in {"unlock_done", "join", "exit", "done"})
          => t1_done
    /\ (program \notin Detaches /\ mpc \in Ended \cup Cleanup)
          => (tpc = "done" /\ t1_state = "joined")
    /\ (program \in Detaches /\ mpc \notin Starts \cup {"detach", "failing", "failed"})
          => (t1_state = "detached")

(* What is left of the heap block when its cleaner is at c.                *)
LiveAt(c) == CASE c = "destroy_from_main" -> {FromMain, FromT1}
               [] c = "destroy_from_t1" -> {FromT1}
               [] c \in {"free"} \cup Ended -> {}
               [] OTHER -> Sync

Cleaner == IF program = "10_8" THEN mpc ELSE tpc

Lifetime ==
    /\ program \notin OnHeap => (allocated /\ live = Sync)
    /\ mpc = "malloc" => (~allocated /\ live = {})
    /\ mpc = "init" => (allocated /\ live = {})
    /\ (/\ program \in OnHeap
        /\ mpc \notin {"malloc", "init"} /\ (mpc = "failed" => tpc # "none"))
          => (/\ allocated <=> (Cleaner \notin Ended)
              /\ live = LiveAt(Cleaner))

IInv == TypeOK /\ Ownership /\ Progress /\ Lifetime
=============================================================================
