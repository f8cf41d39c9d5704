--------------------------- MODULE NamedSemaphore ---------------------------
(***************************************************************************)
(* 12_1 "Named Semaphore": Process_1 creates the semaphores /sem1 and      *)
(* /sem_done_cnt, and it and the joiners (Process_2, Process_3) run their  *)
(* critical sections under /sem1.  Process_1 waits until                   *)
(* CNT_JOINERS_EXPECTED joiners have posted /sem_done_cnt and unlinks both *)
(* names.  The processes are started by hand: in any order, and again when *)
(* they have failed or died.                                               *)
(*                                                                         *)
(* A semaphore lives apart from its name: sem_open takes the semaphore     *)
(* that has the name at that moment, and who has it open keeps it when the *)
(* name is unlinked or given to a new one.                                 *)
(*                                                                         *)
(* A pc value names the call the process makes next.  WaitsOneLess,        *)
(* LeavesName and KeepsPermit are wrong variants of the definitions they   *)
(* precede, for mutation testing.                                          *)
(***************************************************************************)
EXTENDS Integers, FiniteSets

CONSTANTS P1, Joiners,
          SEM_INITIAL_VALUE,
          CNT_JOINERS_EXPECTED,
          Sems, Dones,             \* semaphores that may get either name
          None,                    \* no semaphore: SEM_FAILED, or a free name
          Mortal,                  \* the processes that may be killed
          MaxFaults                \* bound: how often something is killed or fails

Procs == Joiners \cup {P1}

ASSUME ConstantsAssumption ==
    /\ IsFiniteSet(Joiners)
    /\ P1 \notin Joiners
    /\ SEM_INITIAL_VALUE \in Nat /\ CNT_JOINERS_EXPECTED \in Nat
    /\ Sems \cap Dones = {}
    /\ None \notin Sems \cup Dones
    /\ Mortal \subseteq Procs
    /\ MaxFaults \in Nat

VARIABLES pc,
          sem_name, done_name,     \* the semaphores named /sem1, /sem_done_cnt
          sem, sem_done_cnt,       \* [process -> what its sem_open returned]
          value,                   \* [semaphore -> its count]
          used,                    \* the semaphores created so far
          i,                       \* Process_1's loop variable
          lost,                    \* [semaphore -> permits of killed processes]
          faults

names == <<sem_name, done_name>>
handles == <<sem, sem_done_cnt>>
faulty == <<lost, faults>>
vars == <<pc, names, handles, value, used, i, faulty>>

Init ==
    /\ pc = [p \in Procs |-> "off"]
    /\ sem_name = None /\ done_name = None
    /\ sem = [p \in Procs |-> None]
    /\ sem_done_cnt = [p \in Procs |-> None]
    /\ value = [s \in Sems \cup Dones |-> 0]
    /\ used = {}
    /\ i = 0
    /\ lost = [s \in Sems |-> 0]
    /\ faults = 0

Goto(p, from, to) ==
    /\ pc[p] = from
    /\ pc' = [pc EXCEPT ![p] = to]

SemWait(s) == value[s] > 0 /\ value' = [value EXCEPT ![s] = @ - 1]
SemPost(s) == value' = [value EXCEPT ![s] = @ + 1]

(* The user starts a process, or starts it again.                          *)
Launch(p) ==
    /\ \E from \in {"off", "failed", "killed"} : Goto(p, from, "open_sem")
    /\ sem' = [sem EXCEPT ![p] = None]
    /\ sem_done_cnt' = [sem_done_cnt EXCEPT ![p] = None]
    /\ UNCHANGED <<names, value, used, i, faulty>>

-----------------------------------------------------------------------------
(* Process_1                                                               *)

(* sem_open with O_CREAT: the semaphore that has the name, whatever its    *)
(* value is, or a new one with the initial value.                          *)
CreateSem ==
    /\ Goto(P1, "open_sem", "open_done")
    /\ IF sem_name # None
       THEN UNCHANGED <<sem_name, value, used>>
       ELSE \E s \in Sems \ used :
                /\ sem_name' = s
                /\ value' = [value EXCEPT ![s] = SEM_INITIAL_VALUE]
                /\ used' = used \cup {s}
    /\ sem' = [sem EXCEPT ![P1] = sem_name']
    /\ UNCHANGED <<done_name, sem_done_cnt, i, faulty>>

(* Both were tried before the check of both.                               *)
CreateDone ==
    /\ Goto(P1, "open_done", IF sem[P1] = None THEN "failed" ELSE "wait")
    /\ IF done_name # None
       THEN UNCHANGED <<done_name, value, used>>
       ELSE \E d \in Dones \ used :
                /\ done_name' = d
                /\ value' = [value EXCEPT ![d] = 0]
                /\ used' = used \cup {d}
    /\ sem_done_cnt' = [sem_done_cnt EXCEPT ![P1] = done_name']
    /\ i' = 0
    /\ UNCHANGED <<sem_name, sem, faulty>>

(* One of the two fails: Process_1 exits, what it created stays.           *)
CreateFails ==
    /\ faults < MaxFaults
    /\ \/ Goto(P1, "open_sem", "open_done")
       \/ Goto(P1, "open_done", "failed")
    /\ faults' = faults + 1
    /\ UNCHANGED <<names, handles, value, used, i, lost>>

WaitsOneLess == i + 1 < CNT_JOINERS_EXPECTED
JoinersMissing == i < CNT_JOINERS_EXPECTED

WaitDone ==
    /\ JoinersMissing
    /\ Goto(P1, "wait_done", "wait_done")
    /\ SemWait(sem_done_cnt[P1])
    /\ i' = i + 1
    /\ UNCHANGED <<names, handles, used, faulty>>

CloseAll ==
    /\ ~JoinersMissing
    /\ Goto(P1, "wait_done", "unlink_done")
    /\ sem' = [sem EXCEPT ![P1] = None]
    /\ sem_done_cnt' = [sem_done_cnt EXCEPT ![P1] = None]
    /\ UNCHANGED <<names, value, used, i, faulty>>

UnlinkDone ==
    /\ Goto(P1, "unlink_done", "unlink_sem")
    /\ done_name' = None
    /\ UNCHANGED <<sem_name, handles, value, used, i, faulty>>

LeavesName == UNCHANGED sem_name
FreesName == sem_name' = None

UnlinkSem ==
    /\ Goto(P1, "unlink_sem", "done")
    /\ FreesName
    /\ UNCHANGED <<done_name, handles, value, used, i, faulty>>

-----------------------------------------------------------------------------
(* The joiners                                                             *)

OpenSem(j) ==
    /\ Goto(j, "open_sem", "open_done")
    /\ sem' = [sem EXCEPT ![j] = sem_name]
    /\ UNCHANGED <<names, sem_done_cnt, value, used, i, faulty>>

EitherFailed(j) == sem[j] = None \/ done_name = None

(* Opening the second name, and the check of both.                         *)
OpenDone(j) ==
    /\ Goto(j, "open_done", IF EitherFailed(j) THEN "failed" ELSE "wait")
    /\ sem_done_cnt' = [sem_done_cnt EXCEPT ![j] = done_name]
    /\ UNCHANGED <<names, sem, value, used, i, faulty>>

Report(j) == SemPost(sem_done_cnt[j])

PostDone(j) ==
    /\ Goto(j, "post_done", "close")
    /\ Report(j)
    /\ UNCHANGED <<names, handles, used, i, faulty>>

Close(j) ==
    /\ Goto(j, "close", "done")
    /\ sem' = [sem EXCEPT ![j] = None]
    /\ sem_done_cnt' = [sem_done_cnt EXCEPT ![j] = None]
    /\ UNCHANGED <<names, value, used, i, faulty>>

-----------------------------------------------------------------------------
(* The critical section, the same in all processes.                        *)

TakePermit(p) == Goto(p, "wait", "critical") /\ SemWait(sem[p])

Enter(p) ==
    /\ TakePermit(p)
    /\ UNCHANGED <<names, handles, used, i, faulty>>


(* Process_1 goes on to count the joiners, a joiner to report.             *)
AfterCritical(p) == IF p = P1 THEN "wait_done" ELSE "post_done"

KeepsPermit(p) == Goto(p, "critical", AfterCritical(p)) /\ UNCHANGED value
GivePermit(p) == Goto(p, "critical", AfterCritical(p)) /\ SemPost(sem[p])

Leave(p) ==
    /\ GivePermit(p)
    /\ UNCHANGED <<names, handles, used, i, faulty>>

(* A process is killed: it gives back nothing.                             *)
Killed(p) ==
    /\ p \in Mortal /\ faults < MaxFaults
    /\ pc[p] \notin {"off", "failed", "killed", "done"}
    /\ pc' = [pc EXCEPT ![p] = "killed"]
    /\ lost' = IF pc[p] = "critical" THEN [lost EXCEPT ![sem[p]] = @ + 1]
                                     ELSE lost
    /\ faults' = faults + 1
    /\ UNCHANGED <<names, handles, value, used, i>>

-----------------------------------------------------------------------------
Manager ==
    \/ Launch(P1)
    \/ CreateSem
    \/ CreateDone
    \/ Enter(P1)
    \/ Leave(P1)
    \/ WaitDone
    \/ CloseAll
    \/ UnlinkDone
    \/ UnlinkSem

Joiner(j) ==
    \/ Launch(j)
    \/ OpenSem(j)
    \/ OpenDone(j)
    \/ Enter(j)
    \/ Leave(j)
    \/ PostDone(j)
    \/ Close(j)

AllDone == \A p \in Procs : pc[p] = "done"

Terminated == AllDone /\ UNCHANGED vars

Next ==
    \/ Manager
    \/ \E j \in Joiners : Joiner(j)
    \/ CreateFails
    \/ \E p \in Procs : Killed(p)
    \/ Terminated

Spec == Init /\ [][Next]_vars

(* Every process is scheduled, and the user starts everything and starts   *)
(* again what has failed or was killed.  A permit is wanted once by each   *)
(* process, so weak fairness is enough for sem_wait.                       *)
FairSpec ==
    /\ Spec
    /\ WF_vars(Manager)
    /\ \A j \in Joiners : WF_vars(Joiner(j))

-----------------------------------------------------------------------------
(* Properties                                                              *)

PC == {"off", "open_sem", "open_done", "wait", "critical", "wait_done",
       "unlink_done", "unlink_sem", "post_done", "close", "done", "failed",
       "killed"}

(* Types; a process that uses its semaphores has opened both.              *)
TypeOK ==
    /\ pc \in [Procs -> PC]
    /\ sem_name \in Sems \cup {None} /\ done_name \in Dones \cup {None}
    /\ sem \in [Procs -> Sems \cup {None}]
    /\ sem_done_cnt \in [Procs -> Dones \cup {None}]
    /\ value \in [Sems \cup Dones -> Nat]
    /\ used \subseteq Sems \cup Dones
    /\ i \in 0 .. CNT_JOINERS_EXPECTED
    /\ lost \in [Sems -> Nat] /\ faults \in 0 .. MaxFaults
    /\ \A p \in Procs :
          pc[p] \in {"wait", "critical", "wait_done", "post_done", "close"} =>
              (sem[p] # None /\ sem_done_cnt[p] # None)

(* The processes in the critical section of semaphore s.                   *)
Holders(s) == {p \in Procs : pc[p] = "critical" /\ sem[p] = s}

(* No permit appears or vanishes: of the initial ones each is in the       *)
(* semaphore, with a process in its critical section, or lost with one     *)
(* that was killed there (Process_1 lines 42-52, 101-112).                 *)
PermitsConserved ==
    \A s \in Sems \cap used :
        value[s] + Cardinality(Holders(s)) + lost[s] = SEM_INITIAL_VALUE

(* "By adjusting SEM_INITIAL_VALUE, setting how many processes can execute *)
(* the critical section parallelly" (Process_1 lines 48-52).               *)
AtMostInitial ==
    \A s \in Sems : Cardinality(Holders(s)) <= SEM_INITIAL_VALUE

(* A process that has left the critical section for good.                  *)
Reported(j) == pc[j] \in {"close", "done"}

(* The unlink is made "after everyone is done using it" (Process_1 lines   *)
(* 5-6, 18-20, 118-136): if nothing failed and no more joiners run than    *)
(* Process_1 expects, each has reported before the first name goes.        *)
UnlinksLast ==
    (/\ faults = 0
     /\ CNT_JOINERS_EXPECTED = Cardinality(Joiners)
     /\ pc[P1] \in {"unlink_done", "unlink_sem", "done"})
        => \A j \in Joiners : Reported(j)

(* A run without a fault leaves nothing for the next: no name, every       *)
(* permit back, no report uncounted (Process_1 line 14: a semaphore stays  *)
(* in /dev/shm until it is unlinked).                                      *)
LeavesNothing ==
    (AllDone /\ faults = 0 /\ CNT_JOINERS_EXPECTED = Cardinality(Joiners)) =>
        /\ sem_name = None /\ done_name = None
        /\ \A s \in Sems \cap used : value[s] = SEM_INITIAL_VALUE
        /\ \A d \in Dones \cap used : value[d] = 0

(* The inductive invariant.  A process has open, and a name is given to,   *)
(* only what was created; a semaphore that was not has lost no permit.     *)
Roles ==
    /\ \A j \in Joiners :
          pc[j] \notin {"wait_done", "unlink_done", "unlink_sem"}
    /\ pc[P1] \notin {"post_done", "close"}
    /\ (pc[P1] = "open_done" /\ faults = 0) => (sem[P1] # None)

Created ==
    /\ {sem_name, done_name} \subseteq used \cup {None}
    /\ \A p \in Procs : {sem[p], sem_done_cnt[p]} \subseteq used \cup {None}
    /\ \A s \in Sems \ used : lost[s] = 0

(* Without a fault there is one /sem_done_cnt, and every report is in it   *)
(* or counted by Process_1.                                                *)
Reporters == {j \in Joiners : Reported(j)}

Reports ==
    (faults = 0) =>
        /\ pc[P1] \notin {"failed", "killed"}
        /\ (pc[P1] \in {"off", "open_sem", "open_done"}) =>
              (i = 0 /\ Reporters = {} /\ Dones \cap used = {})
        /\ \A d, e \in Dones \cap used : d = e
        /\ \A d \in Dones \cap used : value[d] + i = Cardinality(Reporters)
        /\ (pc[P1] \notin {"off", "open_sem", "open_done"}) =>
              (Dones \cap used # {})
        /\ (pc[P1] \in {"unlink_done", "unlink_sem", "done"}) =>
              (i = CNT_JOINERS_EXPECTED)

IInv == TypeOK /\ Roles /\ Created /\ PermitsConserved /\ Reports

(* Inductive on its own: what Process_1 has unlinked stays so, since only  *)
(* Process_1 gives names; without a fault no permit is lost.               *)
Cleaned ==
    /\ (pc[P1] \in {"unlink_sem", "done"}) => (done_name = None)
    /\ (pc[P1] = "done") => (sem_name = None)
    /\ (faults = 0) => \A s \in Sems : lost[s] = 0

(* Process_1 comes to its end, whatever the order in which the processes   *)
(* start, though joiners are killed or fail: they are started again and    *)
(* report, as long as a permit is left.  Without a fault all of them end.  *)
(* (If Process_1 dies while it counts, the reports it counted are gone.)   *)
Termination ==
    [](pc[P1] \notin {"failed", "killed"}) =>
        <>(pc[P1] = "done" /\ (faults = 0 => AllDone))
=============================================================================
