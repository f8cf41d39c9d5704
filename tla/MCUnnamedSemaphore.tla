------------------------- MODULE MCUnnamedSemaphore -------------------------
(***************************************************************************)
(* ThreadSemaphore and SharedMemorySemaphore for TLC: one of the two       *)
(* programs on unnamed semaphores runs, and the variables of the other     *)
(* stay as they are.                                                       *)
(***************************************************************************)
EXTENDS ThreadSemaphore, SharedMemorySemaphore

VARIABLE program

unnamedVars == <<threadVars, vars, program>>

UnnamedInit == program \in {"12_2_1", "12_2_2"} /\ ThreadsInit /\ Init

UnnamedNext ==
    \/ program = "12_2_1" /\ ThreadsNext /\ UNCHANGED <<vars, program>>
    \/ program = "12_2_2" /\ Next /\ UNCHANGED <<threadVars, program>>

MainRuns == program = "12_2_1" /\ ThreadsMainStep /\ UNCHANGED <<vars, program>>
ThreadRuns(t) == program = "12_2_1" /\ Thread(t) /\ UNCHANGED <<vars, program>>
WriterRuns(w) == program = "12_2_2" /\ Writer(w) /\ UNCHANGED <<threadVars, program>>
ReaderRuns(r) ==
    program = "12_2_2" /\ Reader(r) /\ r \notin early /\ UNCHANGED <<threadVars, program>>

(* The fairness of ThreadsFairSpec and of FairSpec.                        *)
UnnamedFairSpec ==
    /\ UnnamedInit /\ [][UnnamedNext]_unnamedVars
    /\ WF_unnamedVars(MainRuns)
    /\ \A t \in T : WF_unnamedVars(ThreadRuns(t))
    /\ \A w \in Writers : WF_unnamedVars(WriterRuns(w))
    /\ \A r \in Readers : WF_unnamedVars(ReaderRuns(r))
=============================================================================
