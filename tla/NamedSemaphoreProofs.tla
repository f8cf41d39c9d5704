------------------------ MODULE NamedSemaphoreProofs ------------------------
(***************************************************************************)
(* Proofs about NamedSemaphore, for every set of joiners, every initial    *)
(* value and any number of faults: IInv is inductive, so no permit is lost *)
(* but with a process killed in its critical section, and without faults   *)
(* Process_1 unlinks the names after every joiner has reported.            *)
(***************************************************************************)
EXTENDS NamedSemaphore, FiniteSetTheorems, TLAPS

LEMMA ProcsFinite ==
    /\ IsFiniteSet(Procs)
    /\ \A S \in SUBSET Procs : IsFiniteSet(S) /\ Cardinality(S) \in Nat
    /\ \A S \in SUBSET Joiners : IsFiniteSet(S) /\ Cardinality(S) \in Nat
<1>1. IsFiniteSet(Procs)
  BY FS_AddElement, ConstantsAssumption DEF Procs
<1>2. ASSUME NEW S \in SUBSET Procs PROVE IsFiniteSet(S) /\ Cardinality(S) \in Nat
  BY <1>1, FS_Subset, FS_CardinalityType
<1>. QED
  BY <1>1, <1>2 DEF Procs

(* A process that enters, or leaves, is the only change to the holders.    *)
LEMMA HoldersAdd ==
    ASSUME TypeOK, NEW p \in Procs, pc[p] # "critical", UNCHANGED sem,
           pc' = [pc EXCEPT ![p] = "critical"], NEW s \in Sems
    PROVE  Cardinality(Holders(s))' =
               Cardinality(Holders(s)) + (IF s = sem[p] THEN 1 ELSE 0)
<1>1. Holders(s)' = IF s = sem[p] THEN Holders(s) \cup {p} ELSE Holders(s)
  BY DEF Holders, TypeOK
<1>2. p \notin Holders(s) /\ Holders(s) \in SUBSET Procs
  BY DEF Holders
<1>3. IsFiniteSet(Holders(s)) /\ Cardinality(Holders(s)) \in Nat
  BY <1>2, ProcsFinite
<1>4. Cardinality(Holders(s) \cup {p}) = Cardinality(Holders(s)) + 1
  BY <1>2, <1>3, FS_AddElement
<1>. QED
  BY <1>1, <1>3, <1>4

LEMMA HoldersRemove ==
    ASSUME TypeOK, NEW p \in Procs, pc[p] = "critical", UNCHANGED sem,
           NEW to \in PC, to # "critical", pc' = [pc EXCEPT ![p] = to],
           NEW s \in Sems
    PROVE  Cardinality(Holders(s))' =
               Cardinality(Holders(s)) - (IF s = sem[p] THEN 1 ELSE 0)
<1>1. Holders(s)' = IF s = sem[p] THEN Holders(s) \ {p} ELSE Holders(s)
  BY DEF Holders, TypeOK
<1>2. (s = sem[p] => p \in Holders(s)) /\ Holders(s) \in SUBSET Procs
  BY DEF Holders
<1>3. IsFiniteSet(Holders(s)) /\ Cardinality(Holders(s)) \in Nat
  BY <1>2, ProcsFinite
<1>4. s = sem[p] => Cardinality(Holders(s) \ {p}) = Cardinality(Holders(s)) - 1
  BY <1>2, <1>3, FS_RemoveElement
<1>. QED
  BY <1>1, <1>3, <1>4

(* A step outside the critical section that leaves the permits alone.      *)
LEMMA PermitsFrame ==
    ASSUME TypeOK, PermitsConserved, UNCHANGED lost,
           NEW p \in Procs, NEW to \in PC, pc[p] # "critical", to # "critical",
           pc' = [pc EXCEPT ![p] = to],
           \A q \in Procs : q # p => sem'[q] = sem[q],
           Sems \cap used' \subseteq used,
           \A s \in Sems \cap used : value'[s] = value[s]
    PROVE  PermitsConserved'
<1>1. \A s \in Sems : Holders(s)' = Holders(s)
  BY DEF Holders, TypeOK
<1>. QED
  BY <1>1 DEF PermitsConserved

(* A step of a joiner that does not report.                                *)
LEMMA ReportsFrame ==
    ASSUME TypeOK, Reports, NEW j \in Joiners, NEW to \in PC,
           pc' = [pc EXCEPT ![j] = to],
           Reported(j) <=> to \in {"close", "done"},
           UNCHANGED <<i, used, faults>>,
           \A d \in Dones \cap used : value'[d] = value[d]
    PROVE  Reports'
<1>1. pc'[P1] = pc[P1]
  BY ConstantsAssumption DEF TypeOK, Procs
<1>2. Reporters' = Reporters
  BY DEF Reporters, Reported, TypeOK, Procs
<1>. QED
  BY <1>1, <1>2 DEF Reports

(* A step of Process_1 leaves the reporters.                               *)
LEMMA ReportersFrame ==
    ASSUME TypeOK, NEW to \in PC, pc' = [pc EXCEPT ![P1] = to]
    PROVE  Reporters' = Reporters /\ pc'[P1] = to
BY ConstantsAssumption DEF Reporters, Reported, TypeOK, Procs

LEMMA InitIInv == Init => IInv
<1> SUFFICES ASSUME Init PROVE IInv
  OBVIOUS
<1> USE DEF Init
<1>1. TypeOK
  BY ConstantsAssumption DEF TypeOK, PC
<1>2. Roles /\ Created /\ PermitsConserved
  BY ConstantsAssumption DEF Roles, Created, PermitsConserved, Procs
<1>3. Reporters = {}
  BY DEF Reporters, Reported, Procs
<1>4. Reports
  BY <1>3, ConstantsAssumption DEF Reports, Procs
<1>. QED
  BY <1>1, <1>2, <1>4 DEF IInv

LEMMA LaunchStep ==
    ASSUME IInv, NEW p \in Procs, Launch(p)
    PROVE  IInv'
<1> USE ConstantsAssumption
        DEF IInv, Launch, Goto, names, handles, faulty
<1>1. TypeOK'
  BY DEF TypeOK, PC, Roles, Procs
<1>2. Roles' /\ Created'
  BY DEF Roles, Created, TypeOK, Procs
<1>3. PermitsConserved'
  BY PermitsFrame DEF TypeOK, PC
<1>4. Reports'
  <2>1. CASE p = P1
    <3>1. Reporters' = Reporters
      BY <2>1, ReportersFrame DEF PC
    <3>. QED
      BY <2>1, <3>1 DEF Reports, TypeOK, Procs
  <2>2. CASE p \in Joiners
    BY <2>2, ReportsFrame DEF TypeOK, PC, Procs, Reported
  <2>. QED
    BY <2>1, <2>2 DEF Procs
<1>. QED
  BY <1>1, <1>2, <1>3, <1>4

LEMMA CreateSemStep ==
    ASSUME IInv, CreateSem
    PROVE  IInv'
<1> USE ConstantsAssumption
        DEF IInv, CreateSem, Goto, names, handles, faulty
<1>1. TypeOK'
  BY DEF TypeOK, PC, Roles, Procs
<1>2. Roles' /\ Created'
  BY DEF Roles, Created, TypeOK, Procs
<1>3. PermitsConserved'
  <2>1. \A s \in Sems : Holders(s)' = Holders(s)
    BY DEF Holders, TypeOK, Procs
  <2>2. ASSUME NEW s \in Sems \ used
        PROVE  Holders(s) = {} /\ Cardinality(Holders(s)) = 0
    <3>1. Holders(s) = {}
      BY DEF Holders, Created
    <3>. QED
      BY <3>1, FS_EmptySet
  <2>. QED
    BY <2>1, <2>2 DEF PermitsConserved, Created, TypeOK
<1>4. Reports'
  <2>1. Reporters' = Reporters
    BY ReportersFrame DEF PC
  <2>. QED
    BY <2>1 DEF Reports, TypeOK, Procs, Created
<1>. QED
  BY <1>1, <1>2, <1>3, <1>4

LEMMA CreateDoneStep ==
    ASSUME IInv, CreateDone
    PROVE  IInv'
<1> USE ConstantsAssumption
        DEF IInv, CreateDone, Goto, names, handles, faulty
<1>1. TypeOK'
  BY DEF TypeOK, PC, Roles, Procs
<1>2. Roles' /\ Created'
  BY DEF Roles, Created, TypeOK, Procs
<1>3. PermitsConserved'
  BY PermitsFrame, ZenonT(30) DEF TypeOK, PC, Procs, Created
<1>4. Reports'
  <2> SUFFICES ASSUME faults = 0 PROVE Reports'
    BY DEF Reports
  <2>1. Reporters' = Reporters /\ pc'[P1] = "wait"
    BY ReportersFrame DEF PC, Roles
  <2>2. i = 0 /\ Reporters = {} /\ Dones \cap used = {}
    BY DEF Reports
  <2>3. Cardinality(Reporters') = 0
    BY <2>1, <2>2, FS_EmptySet
  <2>4. done_name = None
    BY <2>2 DEF Created, TypeOK
  <2>5. PICK d \in Dones \ used : /\ value' = [value EXCEPT ![d] = 0]
                                 /\ used' = used \cup {d}
    BY <2>4
  <2>. QED
    BY <2>1, <2>2, <2>3, <2>5 DEF Reports, TypeOK
<1>. QED
  BY <1>1, <1>2, <1>3, <1>4

LEMMA CreateFailsStep ==
    ASSUME IInv, CreateFails
    PROVE  IInv'
<1> USE ConstantsAssumption
        DEF IInv, CreateFails, Goto, names, handles, faulty
<1>1. TypeOK'
  BY DEF TypeOK, PC, Roles, Procs
<1>2. Roles' /\ Created'
  BY DEF Roles, Created, TypeOK, Procs
<1>3. PermitsConserved'
  <2>1. CASE Goto(P1, "open_sem", "open_done")
    BY <2>1, PermitsFrame DEF TypeOK, PC, Procs
  <2>2. CASE Goto(P1, "open_done", "failed")
    BY <2>2, PermitsFrame DEF TypeOK, PC, Procs
  <2>. QED
    BY <2>1, <2>2
<1>4. Reports'
  BY DEF TypeOK, Reports
<1>. QED
  BY <1>1, <1>2, <1>3, <1>4

LEMMA WaitDoneStep ==
    ASSUME IInv, WaitDone
    PROVE  IInv'
<1> USE ConstantsAssumption
        DEF IInv, WaitDone, Goto, SemWait, JoinersMissing, names, handles, faulty
<1>1. TypeOK'
  BY DEF TypeOK, PC, Roles, Procs
<1>2. Roles' /\ Created'
  BY DEF Roles, Created, TypeOK, Procs
<1>3. PermitsConserved'
  <2>1. \A s \in Sems : value'[s] = value[s]
    BY DEF TypeOK, Procs
  <2>2. pc[P1] # "critical" /\ P1 \in Procs
    BY DEF Procs
  <2>. QED
    BY <2>1, <2>2, PermitsFrame DEF PC
<1>4. Reports'
  <2>1. Reporters' = Reporters /\ pc'[P1] = "wait_done"
    BY ReportersFrame DEF PC
  <2>2. sem_done_cnt[P1] \in Dones \cap used
    BY DEF TypeOK, Created, Procs
  <2>. QED
    BY <2>1, <2>2 DEF Reports, TypeOK, Procs
<1>. QED
  BY <1>1, <1>2, <1>3, <1>4

LEMMA CloseAllStep ==
    ASSUME IInv, CloseAll
    PROVE  IInv'
<1> USE ConstantsAssumption
        DEF IInv, CloseAll, Goto, JoinersMissing, names, handles, faulty
<1>1. TypeOK'
  BY DEF TypeOK, PC, Roles, Procs
<1>2. Roles' /\ Created'
  BY DEF Roles, Created, TypeOK, Procs
<1>3. PermitsConserved'
  BY PermitsFrame DEF TypeOK, PC, Procs, Created
<1>4. Reports'
  <2>1. Reporters' = Reporters
    BY ReportersFrame DEF PC
  <2>. QED
    BY <2>1 DEF Reports, TypeOK, Procs, Created
<1>. QED
  BY <1>1, <1>2, <1>3, <1>4

LEMMA UnlinkDoneStep ==
    ASSUME IInv, UnlinkDone
    PROVE  IInv'
<1> USE ConstantsAssumption
        DEF IInv, UnlinkDone, Goto, names, handles, faulty
<1>1. TypeOK'
  BY DEF TypeOK, PC, Roles, Procs
<1>2. Roles' /\ Created'
  BY DEF Roles, Created, TypeOK, Procs
<1>3. PermitsConserved'
  BY PermitsFrame DEF TypeOK, PC, Procs, Created
<1>4. Reports'
  <2>1. Reporters' = Reporters
    BY ReportersFrame DEF PC
  <2>. QED
    BY <2>1 DEF Reports, TypeOK, Procs, Created
<1>. QED
  BY <1>1, <1>2, <1>3, <1>4

LEMMA UnlinkSemStep ==
    ASSUME IInv, UnlinkSem
    PROVE  IInv'
<1> USE ConstantsAssumption
        DEF IInv, UnlinkSem, Goto, FreesName, names, handles, faulty
<1>1. TypeOK'
  BY DEF TypeOK, PC, Roles, Procs
<1>2. Roles' /\ Created'
  BY DEF Roles, Created, TypeOK, Procs
<1>3. PermitsConserved'
  BY PermitsFrame DEF TypeOK, PC, Procs, Created
<1>4. Reports'
  <2>1. Reporters' = Reporters
    BY ReportersFrame DEF PC
  <2>. QED
    BY <2>1 DEF Reports, TypeOK, Procs, Created
<1>. QED
  BY <1>1, <1>2, <1>3, <1>4

LEMMA OpenSemStep ==
    ASSUME IInv, NEW j \in Joiners, OpenSem(j)
    PROVE  IInv'
<1> USE ConstantsAssumption
        DEF IInv, OpenSem, Goto, names, handles, faulty
<1>1. TypeOK'
  BY DEF TypeOK, PC, Roles, Procs
<1>2. Roles' /\ Created'
  BY DEF Roles, Created, TypeOK, Procs
<1>3. PermitsConserved'
  BY PermitsFrame DEF TypeOK, PC, Procs, Created
<1>4. Reports'
  BY ReportsFrame DEF TypeOK, PC, Procs, Reported
<1>. QED
  BY <1>1, <1>2, <1>3, <1>4

LEMMA OpenDoneStep ==
    ASSUME IInv, NEW j \in Joiners, OpenDone(j)
    PROVE  IInv'
<1> USE ConstantsAssumption
        DEF IInv, OpenDone, Goto, EitherFailed, names, handles, faulty
<1>1. TypeOK'
  BY DEF TypeOK, PC, Roles, Procs
<1>2. Roles' /\ Created'
  BY DEF Roles, Created, TypeOK, Procs
<1>3. PermitsConserved'
  BY PermitsFrame DEF TypeOK, PC, Procs, Created
<1>4. Reports'
  BY ReportsFrame DEF TypeOK, PC, Procs, Reported
<1>. QED
  BY <1>1, <1>2, <1>3, <1>4

LEMMA PostDoneStep ==
    ASSUME IInv, NEW j \in Joiners, PostDone(j)
    PROVE  IInv'
<1> USE ConstantsAssumption
        DEF IInv, PostDone, Goto, Report, SemPost, names, handles, faulty
<1>1. TypeOK'
  BY DEF TypeOK, PC, Roles, Procs
<1>2. Roles' /\ Created'
  BY DEF Roles, Created, TypeOK, Procs
<1>3. PermitsConserved'
  BY PermitsFrame, ZenonT(30) DEF TypeOK, PC, Procs, Created
<1>4. Reports'
  <2>1. Reporters' = Reporters \cup {j} /\ j \notin Reporters
    BY DEF Reporters, Reported, TypeOK, Procs
  <2>2. IsFiniteSet(Reporters) /\ Cardinality(Reporters) \in Nat
    BY ProcsFinite DEF Reporters
  <2>3. Cardinality(Reporters') = Cardinality(Reporters) + 1
    BY <2>1, <2>2, FS_AddElement
  <2>4. sem_done_cnt[j] \in Dones \cap used
    BY DEF TypeOK, Created, Procs
  <2>5. pc'[P1] = pc[P1]
    BY DEF TypeOK, Procs
  <2>. QED
    BY <2>2, <2>3, <2>4, <2>5 DEF Reports, TypeOK, Procs
<1>. QED
  BY <1>1, <1>2, <1>3, <1>4

LEMMA CloseStep ==
    ASSUME IInv, NEW j \in Joiners, Close(j)
    PROVE  IInv'
<1> USE ConstantsAssumption
        DEF IInv, Close, Goto, names, handles, faulty
<1>1. TypeOK'
  BY DEF TypeOK, PC, Roles, Procs
<1>2. Roles' /\ Created'
  BY DEF Roles, Created, TypeOK, Procs
<1>3. PermitsConserved'
  BY PermitsFrame DEF TypeOK, PC, Procs, Created
<1>4. Reports'
  BY ReportsFrame DEF TypeOK, PC, Procs, Reported
<1>. QED
  BY <1>1, <1>2, <1>3, <1>4

LEMMA EnterStep ==
    ASSUME IInv, NEW p \in Procs, Enter(p)
    PROVE  IInv'
<1> USE ConstantsAssumption
        DEF IInv, Enter, Goto, TakePermit, SemWait, names, handles, faulty
<1>1. TypeOK'
  BY DEF TypeOK, PC, Roles, Procs
<1>2. Roles' /\ Created'
  BY DEF Roles, Created, TypeOK, Procs
<1>3. PermitsConserved'
  <2>1. sem[p] \in Sems \cap used
    BY DEF TypeOK, Created
  <2>2. \A s \in Sems : Cardinality(Holders(s)) \in Nat
    BY ProcsFinite DEF Holders
  <2>3. \A s \in Sems : Cardinality(Holders(s))' =
                Cardinality(Holders(s)) + (IF s = sem[p] THEN 1 ELSE 0)
    BY HoldersAdd
  <2>4. \A s \in Sems : value'[s] = value[s] - (IF s = sem[p] THEN 1 ELSE 0)
    BY <2>1 DEF TypeOK
  <2>. QED
    BY <2>1, <2>2, <2>3, <2>4 DEF PermitsConserved, TypeOK
<1>4. Reports'
  <2>1. CASE p = P1
    <3>1. Reporters' = Reporters
      BY <2>1, ReportersFrame DEF PC
    <3>2. \A d \in Dones \cap used : value'[d] = value[d]
      BY <2>1 DEF TypeOK
    <3>. QED
      BY <2>1, <3>1, <3>2 DEF Reports, TypeOK, Procs
  <2>2. CASE p \in Joiners
    <3>1. \A d \in Dones \cap used : value'[d] = value[d]
      BY DEF TypeOK
    <3>2. p # P1
      BY <2>2
    <3>. QED
      BY <2>2, <3>1, <3>2, ReportsFrame DEF TypeOK, PC, Procs, Reported
  <2>. QED
    BY <2>1, <2>2 DEF Procs
<1>. QED
  BY <1>1, <1>2, <1>3, <1>4

LEMMA LeaveStep ==
    ASSUME IInv, NEW p \in Procs, Leave(p)
    PROVE  IInv'
<1> USE ConstantsAssumption
        DEF IInv, Leave, Goto, GivePermit, SemPost, AfterCritical, names, handles, faulty
<1>1. TypeOK'
  BY DEF TypeOK, PC, Roles, Procs
<1>2. Roles' /\ Created'
  BY DEF Roles, Created, TypeOK, Procs
<1>3. PermitsConserved'
  <2>1. sem[p] \in Sems \cap used
    BY DEF TypeOK, Created
  <2>2. \A s \in Sems : Cardinality(Holders(s)) \in Nat
    BY ProcsFinite DEF Holders
  <2>3. \A s \in Sems : Cardinality(Holders(s))' =
                Cardinality(Holders(s)) - (IF s = sem[p] THEN 1 ELSE 0)
    BY HoldersRemove DEF PC
  <2>4. \A s \in Sems : value'[s] = value[s] + (IF s = sem[p] THEN 1 ELSE 0)
    BY <2>1 DEF TypeOK
  <2>. QED
    BY <2>1, <2>2, <2>3, <2>4 DEF PermitsConserved, TypeOK
<1>4. Reports'
  <2>1. CASE p = P1
    <3>1. Reporters' = Reporters
      BY <2>1, ReportersFrame DEF PC
    <3>2. \A d \in Dones \cap used : value'[d] = value[d]
      BY <2>1 DEF TypeOK
    <3>. QED
      BY <2>1, <3>1, <3>2 DEF Reports, TypeOK, Procs
  <2>2. CASE p \in Joiners
    <3>1. \A d \in Dones \cap used : value'[d] = value[d]
      BY DEF TypeOK
    <3>2. p # P1
      BY <2>2
    <3>. QED
      BY <2>2, <3>1, <3>2, ReportsFrame DEF TypeOK, PC, Procs, Reported
  <2>. QED
    BY <2>1, <2>2 DEF Procs
<1>. QED
  BY <1>1, <1>2, <1>3, <1>4

LEMMA KilledStep ==
    ASSUME IInv, NEW p \in Procs, Killed(p)
    PROVE  IInv'
<1> USE ConstantsAssumption
        DEF IInv, Killed, Goto, names, handles, faulty
<1>1. TypeOK'
  BY DEF TypeOK, PC, Roles, Procs
<1>2. Roles' /\ Created'
  BY DEF Roles, Created, TypeOK, Procs
<1>3. PermitsConserved'
  <2>1. CASE pc[p] = "critical"
    <3>1. sem[p] \in Sems \cap used
      BY <2>1 DEF TypeOK, Created
    <3>2. \A s \in Sems : Cardinality(Holders(s)) \in Nat
      BY ProcsFinite DEF Holders
    <3>3. \A s \in Sems : Cardinality(Holders(s))' =
                  Cardinality(Holders(s)) - (IF s = sem[p] THEN 1 ELSE 0)
      BY <2>1, HoldersRemove DEF PC
    <3>4. \A s \in Sems : lost'[s] = lost[s] + (IF s = sem[p] THEN 1 ELSE 0)
      BY <2>1, <3>1 DEF TypeOK
    <3>. QED
      BY <2>1, <3>1, <3>2, <3>3, <3>4 DEF PermitsConserved, TypeOK
  <2>2. CASE pc[p] # "critical"
    BY <2>2, PermitsFrame DEF TypeOK, PC
  <2>. QED
    BY <2>1, <2>2
<1>4. Reports'
  BY DEF TypeOK, Reports
<1>. QED
  BY <1>1, <1>2, <1>3, <1>4

LEMMA NextIInv == IInv /\ [Next]_vars => IInv'
<1> SUFFICES ASSUME IInv, [Next]_vars PROVE IInv'
  OBVIOUS
<1>1. CASE Manager
  BY <1>1, LaunchStep, CreateSemStep, CreateDoneStep, EnterStep, LeaveStep,
     WaitDoneStep, CloseAllStep, UnlinkDoneStep, UnlinkSemStep
     DEF Manager, Procs
<1>2. ASSUME NEW j \in Joiners, Joiner(j) PROVE IInv'
  BY <1>2, LaunchStep, OpenSemStep, OpenDoneStep, EnterStep, LeaveStep,
     PostDoneStep, CloseStep
     DEF Joiner, Procs
<1>3. CASE CreateFails
  BY <1>3, CreateFailsStep
<1>4. ASSUME NEW p \in Procs, Killed(p) PROVE IInv'
  BY <1>4, KilledStep
<1>5. CASE UNCHANGED vars
  <2> USE <1>5 DEF vars, names, handles, faulty
  <2>1. TypeOK' /\ Roles' /\ Created'
    BY DEF IInv, TypeOK, Roles, Created
  <2>2. PermitsConserved'
    BY DEF IInv, PermitsConserved, Holders
  <2>3. Reports'
    BY DEF IInv, Reports, Reporters, Reported
  <2>. QED
    BY <2>1, <2>2, <2>3 DEF IInv
<1>. QED
  BY <1>1, <1>2, <1>3, <1>4, <1>5 DEF Next, Terminated

(* IInv holds in every reachable state.                                    *)
THEOREM Invariance == Spec => []IInv
BY InitIInv, NextIInv, PTL DEF Spec

(* Types; nobody waits on, posts or closes a semaphore it has not opened.  *)
THEOREM TypeCorrect == Spec => []TypeOK
<1>1. IInv => TypeOK
  BY DEF IInv
<1>. QED
  BY <1>1, Invariance, PTL

(* Every permit is in the semaphore, with a holder, or lost with a killed  *)
(* one, for any number of processes, restarts and faults.                  *)
THEOREM PermitsKept == Spec => []PermitsConserved
<1>1. IInv => PermitsConserved
  BY DEF IInv
<1>. QED
  BY <1>1, Invariance, PTL

(* SEM_INITIAL_VALUE bounds the processes in a critical section.           *)
THEOREM Exclusion == Spec => []AtMostInitial
<1>1. IInv => AtMostInitial
  <2> SUFFICES ASSUME IInv, NEW s \in Sems
               PROVE  Cardinality(Holders(s)) <= SEM_INITIAL_VALUE
    BY DEF AtMostInitial
  <2>1. Cardinality(Holders(s)) \in Nat
    BY ProcsFinite DEF Holders
  <2>2. CASE s \in used
    BY <2>1, <2>2, ConstantsAssumption DEF IInv, PermitsConserved, TypeOK
  <2>3. CASE s \notin used
    <3>1. Holders(s) = {}
      BY <2>3, ConstantsAssumption DEF Holders, IInv, Created
    <3>. QED
      BY <3>1, FS_EmptySet, ConstantsAssumption
  <2>. QED
    BY <2>2, <2>3
<1>. QED
  BY <1>1, Invariance, PTL

(* Without faults Process_1 unlinks after every joiner has reported.       *)
THEOREM UnlinkAfterUse == Spec => []UnlinksLast
<1>1. IInv => UnlinksLast
  <2> SUFFICES ASSUME IInv, faults = 0,
                      CNT_JOINERS_EXPECTED = Cardinality(Joiners),
                      pc[P1] \in {"unlink_done", "unlink_sem", "done"}
               PROVE  Reporters = Joiners
    BY DEF UnlinksLast, Reporters
  <2>1. PICK d \in Dones \cap used : value[d] + i = Cardinality(Reporters)
    BY DEF IInv, Reports
  <2>2. i = Cardinality(Joiners) /\ value[d] \in Nat
    BY DEF IInv, Reports, TypeOK
  <2>3. Reporters \in SUBSET Joiners /\ IsFiniteSet(Joiners)
    BY ConstantsAssumption DEF Reporters
  <2>4. Cardinality(Reporters) <= Cardinality(Joiners)
        /\ (Cardinality(Reporters) = Cardinality(Joiners) => Reporters = Joiners)
    BY <2>3, FS_Subset
  <2>5. Cardinality(Joiners) \in Nat
    BY <2>3, ProcsFinite
  <2>6. Cardinality(Reporters) \in Nat
    BY <2>3, ProcsFinite
  <2>. QED
    BY <2>1, <2>2, <2>4, <2>5, <2>6
<1>. QED
  BY <1>1, Invariance, PTL

(* What Process_1 has cleaned up stays clean, whatever anybody does.       *)
LEMMA CleanedInductive ==
    ASSUME IInv, Cleaned, [Next]_vars
    PROVE  Cleaned'
<1> USE ConstantsAssumption
        DEF IInv, TypeOK, Cleaned, Goto, names, handles, faulty
<1>1. CASE Manager
  <2>1. CASE Launch(P1) \/ CreateSem
    BY <2>1 DEF Launch, CreateSem, Procs
  <2>2. CASE CreateDone
    BY <2>2 DEF CreateDone, Procs
  <2>3. CASE Enter(P1) \/ Leave(P1)
    BY <2>3 DEF Enter, TakePermit, Leave, GivePermit, AfterCritical, Procs
  <2>4. CASE WaitDone \/ CloseAll
    BY <2>4 DEF WaitDone, CloseAll, Procs
  <2>5. CASE UnlinkDone \/ UnlinkSem
    BY <2>5 DEF UnlinkDone, UnlinkSem, FreesName, Procs
  <2>. QED
    BY <1>1, <2>1, <2>2, <2>3, <2>4, <2>5 DEF Manager
<1>2. ASSUME NEW j \in Joiners, Joiner(j) PROVE Cleaned'
  <2>1. UNCHANGED <<names, faulty>>
    BY <1>2 DEF Joiner, Launch, OpenSem, OpenDone, Enter, Leave, PostDone, Close
  <2>2. pc'[P1] = pc[P1]
    BY <1>2 DEF Joiner, Launch, OpenSem, OpenDone, Enter, TakePermit, Leave,
                GivePermit, PostDone, Close, Procs
  <2>. QED
    BY <2>1, <2>2
<1>3. CASE CreateFails
  BY <1>3 DEF CreateFails, Procs
<1>4. ASSUME NEW p \in Procs, Killed(p) PROVE Cleaned'
  BY <1>4 DEF Killed, Procs
<1>5. CASE UNCHANGED vars
  BY <1>5 DEF vars
<1>. QED
  BY <1>1, <1>2, <1>3, <1>4, <1>5 DEF Next, Terminated

(* A run without faults leaves no name, every permit in its semaphore and  *)
(* no report uncounted, for any number of joiners.                         *)
THEOREM NothingLeft == Spec => []LeavesNothing
<1>1. Init => Cleaned
  BY ConstantsAssumption DEF Init, Cleaned, Procs
<1>2. IInv /\ Cleaned => LeavesNothing
  <2> SUFFICES ASSUME IInv, Cleaned, AllDone, faults = 0,
                      CNT_JOINERS_EXPECTED = Cardinality(Joiners)
               PROVE  /\ sem_name = None /\ done_name = None
                      /\ \A s \in Sems \cap used : value[s] = SEM_INITIAL_VALUE
                      /\ \A d \in Dones \cap used : value[d] = 0
    BY DEF LeavesNothing
  <2>1. sem_name = None /\ done_name = None
    BY DEF AllDone, Cleaned, Procs
  <2>2. ASSUME NEW s \in Sems \cap used PROVE value[s] = SEM_INITIAL_VALUE
    <3>1. Holders(s) = {}
      BY DEF AllDone, Holders
    <3>2. Cardinality(Holders(s)) = 0
      BY <3>1, FS_EmptySet
    <3>3. value[s] + 0 + lost[s] = SEM_INITIAL_VALUE
      BY <3>2 DEF IInv, PermitsConserved
    <3>. QED
      BY <3>3, ConstantsAssumption DEF Cleaned, IInv, TypeOK
  <2>3. ASSUME NEW d \in Dones \cap used PROVE value[d] = 0
    <3>1. Reporters = Joiners
      BY DEF AllDone, Reporters, Reported, Procs
    <3>2. value[d] + i = Cardinality(Joiners) /\ i = Cardinality(Joiners)
      BY <3>1 DEF IInv, Reports, AllDone, Procs
    <3>. QED
      BY <3>2, ProcsFinite, ConstantsAssumption DEF IInv, TypeOK
  <2>. QED
    BY <2>1, <2>2, <2>3
<1>. QED
  BY <1>1, <1>2, Invariance, CleanedInductive, PTL DEF Spec
=============================================================================
