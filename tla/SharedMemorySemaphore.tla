----------------------- MODULE SharedMemorySemaphore -----------------------
(***************************************************************************)
(* 12_2_2 "Unnamed Semaphores, Inter Processes with Shared Memory": a      *)
(* writer creates /shm1 with O_EXCL, sizes and maps it, makes the          *)
(* semaphores sem_data_ready and sem_reader_done in it, writes the         *)
(* message, posts the first and waits on the second; then it destroys both *)
(* and unlinks the name.  A reader maps what /shm1 names, waits on the     *)
(* first, reads, and posts the second.                                     *)
(*                                                                         *)
(* The user starts writers and readers in any order; a call may fail and a *)
(* process may be killed.  An object lives apart from its name, so the     *)
(* object a process has mapped is a variable; objects are named after the  *)
(* writer that creates them.  A pc value names the next call; mmap and the *)
(* close after it are one step, as nobody else sees either.                *)
(*                                                                         *)
(* Using a semaphore before sem_init, or after sem_destroy, is undefined.  *)
(* glibc finds a zero in the fresh page and blocks, and forgets who is     *)
(* blocked in sem_init: such a reader may or may not be woken (early).     *)
(* sem_destroy leaves the count as it is.                                  *)
(*                                                                         *)
(* StartsAtOne, OpensExisting, PassesAtOnce, SkipsUnlink, WakesWithout and *)
(* AcksNothing are wrong variants of the definitions they precede, for     *)
(* mutation testing.                                                       *)
(***************************************************************************)
EXTENDS Naturals, FiniteSets

CONSTANTS Writers, Readers,
          NoObject,                \* the name is free; nothing is mapped
          MaxFaults                \* bound: calls that fail, processes killed

Procs == Writers \cup Readers
Objects == Writers
Sems == {"data_ready", "reader_done"}

ASSUME ConstantsAssumption ==
    /\ Writers \cap Readers = {}
    /\ NoObject \notin Objects
    /\ MaxFaults \in Nat

VARIABLES wpc, rpc,
          shm,                     \* the object named /shm1
          shm_ptr,                 \* [process -> object it has opened]
          sized,                   \* objects after ftruncate; empty before
          live,                    \* [object -> semaphores in it, see above]
          value,                   \* [object -> [semaphore -> count]]
          message,                 \* the objects with the message in them
          failing,                 \* writers that clean up after a failure
          early,                   \* readers that blocked before sem_init
          ended,                   \* killed processes, readers that gave up
          faults

control == <<wpc, rpc, ended, failing, faults>>
region == <<sized, live, value, message>>
vars == <<control, region, shm, shm_ptr, early>>

Init ==
    /\ wpc = [w \in Writers |-> "open"]
    /\ rpc = [r \in Readers |-> "open"]
    /\ shm = NoObject
    /\ shm_ptr = [p \in Procs |-> NoObject]
    /\ sized = {}
    /\ live = [o \in Objects |-> {}]
    /\ value = [o \in Objects |-> [s \in Sems |-> 0]]
    /\ message = {}
    /\ failing = {} /\ early = {} /\ ended = {}
    /\ faults = 0

WGoto(w, from, to) ==
    /\ w \notin ended
    /\ wpc[w] = from
    /\ wpc' = [wpc EXCEPT ![w] = to]
    /\ UNCHANGED <<rpc, ended, failing, faults, early>>

RGoto(r, from, to) ==
    /\ r \notin ended
    /\ rpc[r] = from
    /\ rpc' = [rpc EXCEPT ![r] = to]
    /\ UNCHANGED <<wpc, ended, failing, faults, shm>>

SemWait(o, s) == value[o][s] > 0 /\ value' = [value EXCEPT ![o][s] = @ - 1]
SemPost(o, s) == value' = [value EXCEPT ![o][s] = @ + 1]

StartsAtOne(o, s) ==
    /\ live' = [live EXCEPT ![o] = @ \cup {s}]
    /\ value' = [value EXCEPT ![o][s] = 1]
SemInit(o, s) ==
    /\ live' = [live EXCEPT ![o] = @ \cup {s}]
    /\ value' = [value EXCEPT ![o][s] = 0]

-----------------------------------------------------------------------------
(* The writer                                                              *)

(* O_CREAT | O_EXCL: a new object, or failure when the name is taken.      *)
OpensExisting(w) ==
    /\ shm' = IF shm = NoObject THEN w ELSE shm
    /\ shm_ptr' = [shm_ptr EXCEPT ![w] = shm']
CreateShm(w) ==
    /\ shm = NoObject
    /\ shm' = w
    /\ shm_ptr' = [shm_ptr EXCEPT ![w] = w]

Open(w) ==
    /\ WGoto(w, "open", "truncate")
    /\ CreateShm(w)
    /\ UNCHANGED region

OpenFails(w) ==
    /\ shm # NoObject
    /\ WGoto(w, "open", "exit")
    /\ UNCHANGED <<region, shm, shm_ptr>>

Truncate(w) ==
    /\ WGoto(w, "truncate", "map")
    /\ sized' = sized \cup {shm_ptr[w]}
    /\ UNCHANGED <<live, value, message, shm, shm_ptr>>

Map(w) ==
    /\ WGoto(w, "map", "init_data_ready")
    /\ UNCHANGED <<region, shm, shm_ptr>>

InitSems(w) ==
    /\ \/ /\ WGoto(w, "init_data_ready", "init_reader_done")
          /\ SemInit(shm_ptr[w], "data_ready")
       \/ /\ WGoto(w, "init_reader_done", "write")
          /\ SemInit(shm_ptr[w], "reader_done")
    /\ UNCHANGED <<sized, message, shm, shm_ptr>>

WriteMessage(w) == message' = message \cup {shm_ptr[w]}

Write(w) ==
    /\ WGoto(w, "write", "post")
    /\ WriteMessage(w)
    /\ UNCHANGED <<sized, live, value, shm, shm_ptr>>

Post(w) ==
    /\ WGoto(w, "post", "wait")
    /\ SemPost(shm_ptr[w], "data_ready")
    /\ UNCHANGED <<sized, live, message, shm, shm_ptr>>

PassesAtOnce(w) == UNCHANGED value
AwaitReader(w) == SemWait(shm_ptr[w], "reader_done")

Wait(w) ==
    /\ WGoto(w, "wait", "destroy_reader_done")
    /\ AwaitReader(w)
    /\ UNCHANGED <<sized, live, message, shm, shm_ptr>>

Destroy(w) ==
    /\ \/ /\ WGoto(w, "destroy_reader_done", "destroy_data_ready")
          /\ live' = [live EXCEPT ![shm_ptr[w]] = @ \ {"reader_done"}]
       \/ /\ WGoto(w, "destroy_data_ready", "munmap")
          /\ live' = [live EXCEPT ![shm_ptr[w]] = @ \ {"data_ready"}]
    /\ UNCHANGED <<sized, value, message, shm, shm_ptr>>

Munmap(w) ==
    /\ WGoto(w, "munmap", "unlink")
    /\ UNCHANGED <<region, shm, shm_ptr>>

(* The object itself goes when the last process that has it mapped ends.   *)
Unlink(w) ==
    /\ WGoto(w, "unlink", "exit")
    /\ shm' = NoObject
    /\ UNCHANGED <<region, shm_ptr>>

(* What is left to do when a call fails.  A failing sem_destroy is only    *)
(* reported; a failing shm_unlink leaves the name.                         *)
SkipsUnlink(pc) == IF pc = "map" THEN "exit" ELSE "unlink"
CleanupFrom(pc) ==
    CASE pc = "open" -> "exit"
      [] pc \in {"truncate", "map", "munmap"} -> "unlink"
      [] pc = "init_data_ready" -> "munmap"
      [] pc = "init_reader_done" -> "destroy_data_ready"
      [] pc \in {"post", "wait"} -> "destroy_reader_done"
      [] OTHER -> "left"

WriterFails(w) ==
    /\ faults < MaxFaults /\ faults' = faults + 1
    /\ w \notin ended
    /\ wpc[w] \in {"open", "truncate", "map", "init_data_ready",
                   "init_reader_done", "post", "wait", "munmap", "unlink"}
    /\ wpc' = [wpc EXCEPT ![w] = CleanupFrom(wpc[w])]
    /\ failing' = failing \cup {w}
    /\ UNCHANGED <<region, shm, shm_ptr, rpc, early, ended>>

-----------------------------------------------------------------------------
(* The reader                                                              *)

Attach(r) ==
    /\ shm # NoObject
    /\ RGoto(r, "open", "map")
    /\ shm_ptr' = [shm_ptr EXCEPT ![r] = shm]
    /\ UNCHANGED <<region, early>>

AttachFails(r) ==
    /\ shm = NoObject
    /\ RGoto(r, "open", "exit")
    /\ UNCHANGED <<region, shm_ptr, early>>

(* Mapping an object that is still empty succeeds; touching it is what     *)
(* raises SIGBUS.                                                          *)
MapReader(r) ==
    /\ RGoto(r, "map", "wait")
    /\ UNCHANGED <<region, shm_ptr, early>>

WaitData(r) ==
    /\ RGoto(r, "wait", IF shm_ptr[r] \in sized THEN "blocked" ELSE "sigbus")
    /\ early' = IF "data_ready" \in live[shm_ptr[r]] THEN early
                                                     ELSE early \cup {r}
    /\ UNCHANGED <<region, shm_ptr>>

WakesWithout(r) == UNCHANGED value
TakeData(r) == SemWait(shm_ptr[r], "data_ready")

Wake(r) ==
    /\ RGoto(r, "blocked", "read")
    /\ TakeData(r)
    /\ early' = early \ {r}
    /\ UNCHANGED <<sized, live, message, shm_ptr>>

Read(r) ==
    /\ RGoto(r, "read", "post")
    /\ UNCHANGED <<region, shm_ptr, early>>

AcksNothing(r) == UNCHANGED value
Acknowledge(r) == SemPost(shm_ptr[r], "reader_done")

PostDone(r) ==
    /\ RGoto(r, "post", "munmap")
    /\ Acknowledge(r)
    /\ UNCHANGED <<sized, live, message, shm_ptr, early>>

Detach(r) ==
    /\ RGoto(r, "munmap", "exit")
    /\ UNCHANGED <<region, shm_ptr, early>>

(* Any call of the reader fails, and it exits.                             *)
ReaderFails(r) ==
    /\ faults < MaxFaults /\ faults' = faults + 1
    /\ r \notin ended
    /\ rpc[r] \in {"open", "map", "wait", "blocked", "post", "munmap"}
    /\ ended' = ended \cup {r}
    /\ UNCHANGED <<region, shm, shm_ptr, wpc, rpc, early, failing>>

-----------------------------------------------------------------------------
Running(p) == IF p \in Writers THEN wpc[p] \notin {"exit", "left"}
                               ELSE rpc[p] \notin {"exit", "sigbus"}

(* SIGKILL at any point.                                                   *)
Killed(p) ==
    /\ faults < MaxFaults /\ faults' = faults + 1
    /\ p \notin ended
    /\ Running(p)
    /\ ended' = ended \cup {p}
    /\ UNCHANGED <<region, shm, shm_ptr, wpc, rpc, early, failing>>

Writer(w) ==
    \/ Open(w)
    \/ OpenFails(w)
    \/ Truncate(w)
    \/ Map(w)
    \/ InitSems(w)
    \/ Write(w)
    \/ Post(w)
    \/ Wait(w)
    \/ Destroy(w)
    \/ Munmap(w)
    \/ Unlink(w)

Reader(r) ==
    \/ Attach(r)
    \/ AttachFails(r)
    \/ MapReader(r)
    \/ WaitData(r)
    \/ Wake(r)
    \/ Read(r)
    \/ PostDone(r)
    \/ Detach(r)

Next ==
    \/ \E w \in Writers : Writer(w) \/ WriterFails(w)
    \/ \E r \in Readers : Reader(r) \/ ReaderFails(r)
    \/ \E p \in Procs : Killed(p)

Spec == Init /\ [][Next]_vars

(* Every process is scheduled; a reader that blocked before sem_init need  *)
(* not be woken.                                                           *)
FairSpec ==
    /\ Spec
    /\ \A w \in Writers : WF_vars(Writer(w))
    /\ \A r \in Readers : WF_vars(Reader(r) /\ r \notin early)

-----------------------------------------------------------------------------
(* Properties                                                              *)

WriterPC == {"open", "truncate", "map", "init_data_ready", "init_reader_done",
             "write", "post", "wait", "destroy_reader_done",
             "destroy_data_ready", "munmap", "unlink", "exit", "left"}
ReaderPC == {"open", "map", "wait", "blocked", "sigbus", "read", "post",
             "munmap", "exit"}

(* Every variable stays in its type; the semaphores are never above one.   *)
TypeOK ==
    /\ wpc \in [Writers -> WriterPC] /\ rpc \in [Readers -> ReaderPC]
    /\ shm \in Objects \cup {NoObject}
    /\ shm_ptr \in [Procs -> Objects \cup {NoObject}]
    /\ sized \subseteq Objects /\ message \subseteq Objects
    /\ live \in [Objects -> SUBSET Sems]
    /\ value \in [Objects -> [Sems -> {0, 1}]]
    /\ failing \subseteq Writers /\ early \subseteq Readers
    /\ ended \subseteq Procs
    /\ faults \in 0 .. MaxFaults

(* From its shm_open until it has unlinked the name, or for ever when it   *)
(* dies before, a writer is alone: the name is that of its own object, no  *)
(* other writer has one that is not unlinked yet.  So no writer sets up    *)
(* semaphores that are in use or unlinks the object of another (FILE_MODES *)
(* with O_EXCL, line 51).                                                  *)
Holding(w) == wpc[w] \notin {"open", "exit"}

ExclusiveName ==
    \A w \in Writers : Holding(w) =>
        /\ shm = w /\ shm_ptr[w] = w
        /\ \A v \in Writers \ {w} : ~Holding(v)

(* r has been let through by the writer of o; r has acknowledged it.       *)
Took(r, o) == shm_ptr[r] = o /\ rpc[r] \in {"read", "post", "munmap", "exit"}
Acked(r, o) == Took(r, o) /\ rpc[r] \in {"munmap", "exit"}

(* What a reader reads has been written ("waits until writer posts         *)
(* sem_data_ready, reads the message"), by whichever writer, at whatever   *)
(* point it was started.                                                   *)
ReadsWritten ==
    \A r \in Readers : (rpc[r] = "read") => (shm_ptr[r] \in message)

(* A message is read by at most one reader, and none is while it is still  *)
(* announced.                                                              *)
OneTaker ==
    \A o \in Objects, r \in Readers : Took(r, o) =>
        /\ value[o]["data_ready"] = 0
        /\ \A q \in Readers \ {r} : ~Took(q, o)

(* A writer that cleans up without having met a failure has been answered: *)
(* the reader of its message has read it and no longer needs the           *)
(* semaphores.                                                             *)
Released(w) ==
    /\ shm_ptr[w] = w /\ w \notin failing
    /\ wpc[w] \in {"destroy_reader_done", "destroy_data_ready", "munmap",
                   "unlink", "exit"}

Acknowledged ==
    \A w \in Writers : Released(w) =>
        /\ \E r \in Readers : Acked(r, w)
        /\ \A r \in Readers : Took(r, w) => Acked(r, w)

(* However a writer ends, the name is gone, unless it was killed or its    *)
(* shm_unlink failed.                                                      *)
LeavesNothing == \A w \in Writers : (wpc[w] = "exit") => (shm # w)

(* The inductive invariant.                                                *)
Attached ==
    /\ (shm # NoObject) => Holding(shm)
    /\ \A w \in Writers : (wpc[w] = "open") => (shm_ptr[w] = NoObject)
    /\ \A w \in Writers : shm_ptr[w] \in {NoObject, w}
    /\ \A r \in Readers :
          /\ (rpc[r] = "open") => (shm_ptr[r] = NoObject)
          /\ (rpc[r] \notin {"open", "exit"}) => (shm_ptr[r] # NoObject)
          /\ (shm_ptr[r] # NoObject) => (shm_ptr[shm_ptr[r]] = shm_ptr[r])

Unposted(w) == \/ shm_ptr[w] = NoObject
               \/ wpc[w] \in {"truncate", "map", "init_data_ready",
                              "init_reader_done", "write", "post"}

Announced ==
    \A w \in Writers :
        /\ Unposted(w) =>
              /\ value[w]["data_ready"] = 0
              /\ \A r \in Readers : ~Took(r, w)
        /\ (wpc[w] \in {"post", "wait"}) => (w \in message)
        /\ (value[w]["data_ready"] = 1) => (w \in message)
        /\ \A r \in Readers : Took(r, w) => (w \in message)

Answered ==
    \A w \in Writers :
        (value[w]["reader_done"] = 1) => \E r \in Readers : Acked(r, w)

IInv ==
    /\ TypeOK /\ ExclusiveName /\ Attached
    /\ OneTaker /\ Announced /\ Answered /\ Acknowledged

(* "Reader: opens existing shared memory, waits on sem_data_ready" (Writer *)
(* lines 17-19): a reader that has opened the object gets to wait.         *)
WaitsForData == \A r \in Readers : rpc[r] # "sigbus"

(* When nothing fails, a writer with a reader that waits on a semaphore    *)
(* that had been initialised gets its answer and ends, and so does the     *)
(* reader that took the message.                                           *)
HandshakeCompletes ==
    [](faults = 0) =>
        /\ \A w \in Writers, r \in Readers :
              (shm_ptr[r] = w /\ rpc[r] = "blocked" /\ r \notin early) ~>
                  (wpc[w] = "exit" /\ \E q \in Readers : Acked(q, w))
        /\ \A r \in Readers : (rpc[r] = "read") ~> (rpc[r] = "exit")
=============================================================================
