# Linux system programming programs: a TLA+ verification development

The repository is a course on Linux system programming: about sixty small C
programs, one directory per topic. Most are sequential demonstrations of one
system call. The ones that carry logic of their own are the thread programs of
`10_Threads`, the semaphore programs of `12_Semaphore`, the message programs
of `11_IPC` and those with children and signals in `7_Process_Monitor` and
`9_Signals`: there several threads or processes share state, in an order nobody
controls. This directory models those programs, and the files, `fork` and `exec`
they are built on, model-checks them with TLC and proves every safety invariant
the model checking checks with TLAPS.

Directories below are relative to `src/Course_MohanM`.

## 1. Inventory

| Program | State | Operations | Interaction | What is hard | Correct means |
|---|---|---|---|---|---|
| 10_1 create/join | one thread, its argument in main's frame | create, join | argument pointer, join | thread outliving the frame | the argument exists when it is read |
| 10_2 signal at the end of the work | mutex, condition variable, `work_done` | report, wait, join | condition variable | the signal may come first | no lost wakeup, main goes on only after the report |
| 10_3 two-way handshake | mutex, two condition variables, three flags | ready, proceed, done | condition variables, one used for two waits | all orders of four rendezvous | order of the handshake, no lost wakeup |
| 10_4 detach | one thread | create, detach | - | t1 may be over before the detach | the thread is reclaimed |
| 10_5 cancellation | mutex, two condition variables, `counter` | count, testcancel, cancel | deferred cancellation | cancelling while the mutex is held; cancelling a thread that is gone | the mutex is never orphaned, t1 stops soon |
| 10_6 timedlock | mutex | lock for ever, timed lock | mutex with a timeout | `CHECK_ERR` repeats the call | t2 gives up, or gets by if it comes first |
| 10_7, 10_8 handshake on the heap | as 10_3 in a `malloc` block | init, handshake, destroy, free | ownership of the block moves (10_7) or stays (10_8) | use after destroy or free | nothing is used after its end, everything is reclaimed |
| 10_9 FIFO ready queue | ring buffer, counters, `N` thread records with a mutex and flags each | push, pop, release, collect, destroy | global mutex and condition variable, one pair per worker | `N + 1` mutexes, two-level locking, lost ids or wakeups | released in order of announcement, nobody forgotten, nothing destroyed in use |
| 11_1 - 11_3 pipes | descriptors of each end | write, read, close, wait | kernel pipe, fork | a forgotten open end hides the end of file; SIGPIPE | end of file reaches the reader |
| 11_4 FIFO | path, byte stream, `stop_flag` | mkfifo, open, write length, write payload, read, unlink | named pipe, signals | a frame is two writes, several writers, partial reads, EINTR | frames arrive whole |
| 11_5 FIFO with poll | as 11_4 | as 11_4, poll | named pipe, non-blocking | EAGAIN, POLLHUP, spinning loops | a stop signal is obeyed |
| 11_6 message queue | queue behind a name | open, send, receive, unlink | kernel queue | receiver unlinks and recreates it; full queue; kills | nothing of an earlier session is printed; what is sent to a serving receiver is printed |
| 12_1 named semaphores | two named semaphores, three processes | open, wait, post, close, unlink | names and counts kept by the kernel | start order, kills, a name that is reused | permits conserved, unlink last |
| 12_2_1 thread semaphore | semaphore, mutex, `glob` | wait, add, post, join, destroy | both | several threads past the semaphore | no lost update, destroyed only when unused |
| 12_2_2 semaphores in shared memory | object behind a name, two semaphores, message | create, size, map, init, post, wait, destroy, unlink | shared memory | reader in the middle of the set-up, kills, failures of any call | read only what is written, one reader, nothing left behind |
| 13_1 shared memory | object behind a name | size, map, copy | shared memory, no synchronisation | excluded by its notes (run one after the other) | - |
| 9_1, 9_2 signals, timer | flags set by a handler, signal mask | sigsuspend, alarm | signals | signal between the test of a flag and the sleep | no lost signal |
| 9_3 signal handshake | flags in two processes | kill, sigsuspend, waitpid | signals, fork, exec | all orders; the mask survives exec, handlers do not | both end |
| 7_1 - 7_8 process monitor | children, exit status | fork, exit, wait, waitpid | parent and child | children end in any order or are killed, a fork failure that falls through | every child is reaped and its end told truly |
| 7_9 shared descriptor | file, one offset for two processes | open, write, fork, wait | offset shared through fork | - | both texts in order |
| 6_x, 8_x fork, exec | - | fork, exec, wait | parent and child | failures | both end |
| 2_1 - 2_6 files | offset, buffer | open, read, write, lseek, dup | one offset behind several descriptors | short writes, a search that is not reset, files longer than a buffer, stdio's buffer | what is written is in the file, what fits a buffer is read whole |
| 1_1, 3_x, 4_x, 5_x | none worth a model | - | - | - | - |
| RPi3B boundary extraction | constant image | one arithmetic loop | - | unfinished | - |

`PROJECT.json` lists every program as a component with its status, and under
"hazards" what could go wrong at which line.

## 2. Plan

Modelled, in this order:

1. `ReadyQueue` (10_9), the richest program, with its abstract specification
   `FifoRelease` and the proofs.
2. `Handshake` (10_1 - 10_4, 10_6 - 10_8) and `Cancellation` (10_5).
3. `NamedSemaphore` (12_1), `ThreadSemaphore` (12_2_1),
   `SharedMemorySemaphore` (12_2_2), with proofs.
4. `Fifo` (11_4, 11_5): frames of two writes over a named pipe, blocking and
   with poll.
5. `MessageQueue` (11_6): a bounded queue behind a name that receivers replace.
6. `Processes` and `Programs` (2_x, 6_x - 9_x, 11_1 - 11_3): what the kernel does
   for a process, and the programs as sequences of system calls.

7. Proofs about `Handshake`, `MessageQueue` and `Fifo`.
8. Proofs about `Programs`.

Left: `SignalsHeard` and liveness are only model-checked (section 6).

## 3. Modelling conventions

- One module per program, or per family where programs share text. A `pc`
  variable per thread or process names the system or library call it makes
  next; the code between two calls that touches shared data is a step of its
  own, so that every interleaving the scheduler can produce is there. Local
  code between two calls that nobody else sees is part of the neighbouring step.
- `Pthreads` models mutexes and condition variables of the library: mutexes
  have one owner, `pthread_cond_wait` releases and blocks atomically and locks
  again when it returns, spurious wakeups happen, `pthread_cond_signal` wakes
  some waiter or nobody.
- `CHECK_ERR` and `exit`: a call that fails ends the whole process. The macro
  names its argument twice (`fprintf(..., strerror(call))`), so a failing
  `pthread_create` is called again on the way out and may create the thread
  after all; where the source has this form the model has it.
- Printing and sleeping are left out. A `sleep` is no step: any delay is already
  possible between two steps.
- Undefined behaviour is a choice between the outcomes of the actual library:
  see `SharedMemorySemaphore`.
- Each module has some definitions named in its header comment as wrong
  variants. They are used by no specification; each is a plausible bug that the
  property it belongs to must detect.

## 4. Modules

### `Pthreads`, external library
`owner`, `waiters`; `Lock`, `Unlock`, `CondWait`, `CondResume`, `CondSignal`,
`SpuriousWakeup`.

### `ReadyQueue`, 10_9
State: the ring buffer (`ready_queue`, `rq_head`, `rq_tail`), the two counters,
per worker the flags `ready` and `to_proceed`, its mutex and its condition
variable (`live` while initialised), and main's loop index and `id`. Worker
actions follow `thread_handler` from its first lock to its exit; main's follow
the creation loop, the release loop (wait for an id; pop, unlock, release,
lock again, until empty) and the collection loop (`pthread_tryjoin_np`,
destroy). `ready_queue_push` keeps the overflow branch; the invariant shows it
is dead.

`FifoRelease` is what 10_9 promises without any of this: workers announce
themselves, are released in that order one at a time, and are collected when
they have finished. The refinement mapping reads the abstract queue out of the
ring buffer from head to tail (with `% QueueSize`, though each worker pushes
once and the indices never wrap, which the invariant also says).

### `Handshake`, 10_1 - 10_4, 10_6 - 10_8
The programs with one worker are the same text with pieces added and
removed, so they are one module: the variable `program` is chosen in `Init`, and
`AfterCreate`, `AfterUnlock`, ... say which call follows another in which
program. `allocated` and `live` are the heap block and what is initialised in
it. 10_6 has a second worker, `t2pc`: its timed lock returns when the mutex is
free, or times out when it is not (`TimesOut`); `CHECK_ERR` then makes the call
again, which finds the mutex as it was, since t1 never unlocks it.

### `Cancellation`, 10_5
`cancelled` is the pending request; t1 acts on it in `pthread_testcancel` or in
the `printf` after the loop. `at_cancel` is a history variable. What other
modules name alike is called `CancelInit`, `CancelNext`, ... here, so that one
module can prove about this one and those of 12_2.

### `NamedSemaphore`, 12_1
Semaphores are separate from their names (`sem_name`, `done_name`), since an
opened semaphore survives `sem_unlink`. The user starts processes in any order
and starts again one that failed or was killed (`Launch`). `lost` is a history
variable: permits that died with a killed process.

### `ThreadSemaphore`, 12_2_1
`glob += local` is a read and a write; the semaphore admits two threads. `Init`,
`Next`, `Spec` and what else `SharedMemorySemaphore` or `Cancellation` names alike
are called `ThreadsInit`, `ThreadsNext`, ... here (`main_pc`, `thread_pc` and `idx` are
`mpc`, `tpc` and `i` there), so that one module can prove about all three.

`MCUnnamedSemaphore` composes it with `SharedMemorySemaphore` for one run: the
variable `program` says which of the two runs, the other's variables stay.

### `SharedMemorySemaphore`, 12_2_2
The object is separate from its name; each writer and reader has its own control
state, each call of the set-up is a step, any call may fail (`WriterFails`,
`ReaderFails`) and any process may be killed. A reader may map the object
before `ftruncate` (SIGBUS when touched) or before `sem_init`: glibc then finds
a zero count and blocks, and whether the later post wakes it depends on where
`sem_init` fell; the model leaves that open (`early`).

### `Fifo`, 11_4 and 11_5
The two pairs of programs differ in O_NONBLOCK, poll and where `stop_flag` is
tested: `nonblocking` tells which pair runs. A pipe is separate from its name
(`path`): a reader that ends unlinks the name, another makes a new pipe under
it. A frame is a header and a payload of bytes that know whose frame they belong to and at
which place they stand; a read takes as many of the missing bytes as there are. A
header that is not one may be taken for any length (`Lengths`). A blocking
`open` waits for the other side. A signal interrupts a process that sleeps in a
call; one that comes between the test of `stop_flag` and the call only sets the
flag (`Signalled`). SIGKILL closes without clean-up. `sent`, `received`,
`opened` and `at_eof` are history.

### `MessageQueue`, 11_6
A queue is separate from its name, as a pipe is in `Fifo`, and named after the
process that made it: senders open or create it (with whatever length the
missing argument of `mq_open` leads to, `OtherMaxMsg`), receivers unlink the name
first and unlink it again when they end. Any program may be started at any time,
be signalled or killed, and have its `mq_open` or its set-up fail. A full queue
blocks the sender, an empty one the receiver. `accepted`, `printed`, `before` and
`serving` are history: what was sent, what was printed, and the moments at which
a receiver unlinked the old queue and a sender opened its own.

### `Processes` and `Programs`, 2_x, 6_x - 9_x, 11_1 - 11_3
`Processes` is the part of the kernel that these programs use; `Programs` holds
the programs. The rest of a program that a process has yet to run is a sequence
of call records, `code[p]`; each action of `Processes` takes the first of them. A call
record has a field for what the program does when the call fails: that is put
before the rest, and mostly ends with an exit, as in the source. Where the source
goes on after a failure (2_4, 2_6, 7_8, 8_4, 11_3), or falls through into the
child's part (7_3, 7_4, 7_5), so does the model. A loop is a call that puts itself back
(`ReadPipe`, `SuspendWhileNot`, `WaitNoHangWhile`, `Search`).

The kernel's part: a process that ends becomes a zombie until its parent waits
for it, or is reaped by init if the parent is over; a status is encoded as `wait`
does it, an exit truncated to 8 bits; signals stay pending while blocked,
`sigsuspend` opens the mask and sleeps in one step, a second signal of the same kind is
merged; `exec` keeps the mask, ignored and pending signals and drops handlers;
a pipe is at its end when no process has its write end open. A file is opened
once in each program, so there is one offset, shared by `dup` and `fork`.

A read into a buffer has the room that the code gives it (`SIZE_BUF_STORAGE`, 30
bytes in 2_2; `SIZE_BUF_READ` in 2_5), which neither program looks at. `buffer`
is the memory from the start of the buffer on; once it is longer than the room
(`Overrun`) the behaviour is undefined. What was overwritten may be the index,
so that the next bytes go anywhere (`Places`) and another byte than the one read
may be compared (`DoSearch`); the descriptor, so that the next call fails; or
the canary or the return address, so that the program dies (`Clobbered`). The
index of 2_5 is a `uint8_t`: it reaches the end of the 250 bytes before it
starts again at 0, so it saves nobody, and the proofs take any room up to 255.
`told`, `written`, `got`, `torn` and `original` are history.

Left out of these programs: what they print, and the values they only print (6_2,
the arguments of 8_x); the close of a file's descriptor; stdio's buffers (a
`printf` before a `fork` or `exec` is written twice or lost if stdout is not a
terminal).

## 5. Runs

| Run | Instance | Shows |
|---|---|---|
| `ready_queue` | 3 workers, create failures, spurious wakeups, any worker may sleep for ever | `NothingLost`, `NoLostWakeup`, `SyncLifetime`, the inductive invariant; `ReleasesInOrder` (refinement of `FifoRelease`); `Termination` when nobody sleeps for ever, `ServedIndependently`: nobody waits for a sleeper |
| `handshake` | all seven programs | lifetime, order, nothing left behind, termination |
| `cancellation` | 5 counts, stop at 3 | the mutex is never orphaned, at most one more count after the cancellation, termination |
| `cancellation_alive` | same | a counterexample: main cancels a thread that is gone |
| `named_semaphore` | 3 processes, 2 permits, one kill or failing open | permits conserved, unlink last, nothing left behind, termination |
| `unnamed_semaphore` | 12_2_1 with 4 threads and 2 permits, or 12_2_2 with 2 writers, 2 readers and 2 faults | 12_2_1: no lost update, destroyed unused, termination; 12_2_2: exclusive name, reads what was written, one taker, acknowledged, nothing left, handshake completes |
| `shared_memory_semaphore_early` | 1 writer, 1 reader, no fault | a counterexample: SIGBUS before `ftruncate` |
| `fifo` | 1 writer, 2 readers, 2 lines, one signal or kill, both program pairs | frames arrive whole and in order, an end of file leaves nothing unread, a reader obeys a stop signal unless, in 11_4, it sleeps for a writer that never writes or closes |
| `fifo_writers` | 2 writers, 1 reader, no fault | a counterexample: frames of two writers interleave |
| `message_queue` | 1 sender, 2 receivers, 2 lines, 2 faults | nothing of an earlier session is printed; what a sender sends to the one receiver that serves is printed |
| `message_queue_offline` | 1 sender, 1 receiver, 2 lines, no fault | a counterexample: what was sent before the receiver came is never printed |
| `processes` | 27 programs, up to 3 faults; all texts of up to 5 letters in 2_5 | parents learn the true end of every child, data arrives, no signal is missed, everything ends |

### Bounds
- Three workers in 10_9: two can compete for the queue while main is busy with a
  third, and every pair of mutexes is contended. Four take too long with the
  temporal properties; the safety part is proved for every `N`.
- In 10_5 the numbers 5 and 3 leave two counts before main is woken at all, the
  count it waits for, and two after.
- In 12_1 two permits and three processes: one has to wait. One fault at any
  place; two objects for each name, so that a name is reused after an unlink.
- In 12_2_1 four threads, two permits: two wait while two are inside.
- In 12_2_2 two writers and two readers: O_EXCL is contended, a reader can take
  the message of the other's writer or arrive late; two faults, so that a
  failure during the clean-up after a failure is included.
- In 11_4 and 11_5 a header of 2 and payloads of 1 or 2 bytes in a pipe of 3:
  the pipe fills up between header and payload, parts are read one by one, two
  readers of one pipe can split a frame, and a second reader can make a second
  pipe. Two lines, so that a lost part would be followed by another frame.
- In 11_6 a receiver's queue holds one message and a sender's two, so both fill
  up with the two lines; two receivers, so that one replaces the other's queue,
  before or after a kill; two faults, a kill and another failure.
- In `processes` no program has more than two children or six calls that can
  fail in a row; three faults kill both children and the parent, or one of them
  with two failing calls. In 2_5 three letters stand for "Rohan", over those and one
  other; a text of four letters has room for one in the middle of the target and
  fits the buffer, which has room for four, one of five does not.
  2_2 reads files of 0 to 41 bytes in pieces of 10, around each boundary; its
  buffer has 30, so that 31 run over its end once and 41 twice.

### Fairness
Each thread or process is weakly fair: the scheduler runs it. Mutex acquisition
is strongly fair where a thread may find the mutex taken, free and taken again
(10_x): the kernel's futex queue gives no formal guarantee, but a thread that
is overtaken for ever would need an infinite number of acquisitions by the others,
which only loops with a mutex in them could provide. In 10_6 t2 is weakly fair,
which includes that its two seconds pass. For semaphores every
process wants a permit once, so weak fairness is enough. No fairness forces a
spurious wakeup, a failing call, a kill or a start of a process that has not
been asked for; in 12_1 the user starts every process, again if it failed or
died. In `ready_queue` a worker that sleeps has no fairness until it wakes up:
`Termination` assumes that all do, `ServedIndependently` does not. In 12_2_2 a
reader that blocked before `sem_init` has none. In 11_4, 11_5 and 11_6 every
started process runs; the user need not start a program, type a line or close
the input. In `Programs` every process runs, a pending signal that is not blocked is
delivered and the timer expires.

### Deadlock
Checked, with a `Terminated` step for a process that is over, but in
`named_semaphore` (Process_1 killed while it counts: joiners and manager really
wait for ever), in `unnamed_semaphore` and `shared_memory_semaphore_early` (in
12_2_2 a reader whose writer died, or that came second, waits for ever, and the
processes end; that the threads of 12_2_1 do not stop is said by `ThreadsTermination`),
in the two `fifo` and the two `message_queue` runs (a program waits for its
other side or for the user, who need not come, and the programs end) and in
`processes` (9_1 waits for the user; the programs end; `Termination` says which
ends are reached).

## 6. Proofs

All proofs are for every value of the constants that satisfies the module's
assumption: `ConstantsAssumption`, `CountsAssumption` in `Cancellation`,
`ThreadsAssumption` in `ThreadSemaphore`, and `ProcessesAssumption`,
`ChildrenAssumption` and `SizesAssumption` for `Programs`.

| Module | Theorems | Argument |
|---|---|---|
| `ReadyQueueProofs` | `Invariance`, `TypeCorrect`, `NoOverflow`, `NoIdLost`, `NoWakeupLost`, `LocksHeld`, `NoUseAfterDestroy`, `CountOfReady`, `CountOfFinished`, `Refinement` | `IInv`: the queue below `rq_tail` is a permutation of the workers that pushed, those below `rq_head` are released but for the one in flight (`QueueOrder`); the counters are the cardinalities of the released and the collected (`Counting`); ownership follows from control state (`Ownership`, `WaitSets`); what lives follows from who is collected (`Lifetime`, `Progress`). `Refinement`: under `IInv` every step is a step of `FifoRelease` or stutters: a push appends, a pop takes the head, setting `to_proceed` releases |
| `HandshakeProofs` | `Invariance`, `TypeCorrect`, `NoUseAfterFree`, `Rendezvous`, `NothingLeft` | the owner of the mutex follows from control state (`Ownership`), so does who is how far (`Progress`); what is left of the heap block follows from how far the thread is that cleans up (`Lifetime`) |
| `SynchronisingProofs`, on `Cancellation` | `CancelInvariance`, `CancelTypeCorrect`, `MutexNeverOrphaned`, `CancelStopsSoon`, `NoWakeupLost` | `CancelInv` ties `counter` to `i` by control state and bounds what is left after a cancellation |
| `NamedSemaphoreProofs` | `Invariance`, `TypeCorrect`, `PermitsKept`, `Exclusion`, `UnlinkAfterUse`, `NothingLeft` | permits of each semaphore are counted by cardinality of its holders plus the lost; without faults there is one counting semaphore and every report is in it or counted (`Reports`); what Process_1 has unlinked stays so (`Cleaned`) |
| `SynchronisingProofs`, on `ThreadSemaphore` | `ThreadsInvariance`, `SumIsRight`, `PermitsKept`, `NoUseAfterDestroy` | `glob` is `LOOP_COUNT` times the number of threads that have written; the value a thread has read is still current under the mutex |
| `SynchronisingProofs`, on `SharedMemorySemaphore` | `Invariance`, `TypeCorrect`, `OneWriterAtATime`, `NothingUnwrittenRead`, `ReadOnce`, `AnsweredBeforeCleanup`, `NothingLeft` | while a writer holds the name nobody else does; an announced message is written, taken once, and an answer exists only after it was taken |
| `MessageQueueProofs` | `Invariance`, `TypeCorrect`, `NoStaleMessage` | when a process has a queue open (`Opened`); what a sender sends next is newer than all it has sent (`Numbered`); the queue that a receiver has open, or is about to open, holds only messages newer than its unlink (`Fresh`) |
| `FifoProofs` | `Invariance`, `TypeCorrect`, `InOrder`, `AllPrinted` | between one writer and one reader the bytes in the pipe lead without a gap from the place the reader has come to, to the place the writer has come to (`Streams`); neither comes far before both have opened the pipe (`OneSided`) |
| `ProgramsProofs` | `TypeCorrect`, `ChildrenToldOf` | the code ahead of a process is made of calls of its kind and ends with an exit (`Coded`); every child of a waiting parent has a wait of its own ahead (`Covered`). For every `MaxFaults`, `MaxLetters`, `InputSizes` and `SIZE_BUF_READ` |
| `DataProofs` | `DataArrive` | per program, what file and pipe hold at each place of its code (`DataInv`), for the same constants |

The properties alone are not inductive. `NothingLost` in 10_9, for example, says
where each announced id is, but that a pop keeps it true needs that no id is in
two slots, which needs that a worker that has pushed never pushes again, which is
a fact about control state. `IInv` adds such facts; `Init => IInv`,
`IInv /\ [Next]_vars => IInv'` (one step per action) and the consequences are
proved. `ready_queue` checks `IInv` with TLC as well. In the other modules it was checked
with TLC before it was proved, `Fifo`'s in a second instance too, of two writers and
two readers with one line and one fault (6.6 million states); the configurations
do not repeat that.

In `Fifo` the stream is the argument. A byte knows its frame and its place in
it, so a `Place` (a frame and how many of its bytes are over) says which byte may
come next (`Fits`), and `After` gives the place behind a byte. `ReaderAt` and
`WriterAt` read the places of the two sides out of their control state; a writer
that gave up may have done so before or after the write that was due, so
`WriterAt` is a set. Two lemmas carry the proof: whole pieces of a
frame that start where the pipe ends may be appended (`FramesExtend`), and bytes of
one frame may be taken from the front, which moves the reader's place behind them
(`FramesTake`). That a reader takes the right length follows: its header's bytes
are those of the next frame. With two writers `Private` fails and `fifo_writers`
shows what then happens.

In `Programs` all that differs between the programs is the data in `code`, so
the invariants speak of that data. `Coded` says that each process has calls of
its kind ahead of it and ends with an exit; it is inductive because what a
failing call puts before the rest is again such calls (`Fields`,
`FieldsOfCalls`), and it gives `TypeCorrect` once a search is known to find its
target only at a place that is as far into the file as the target is long
(`Replaces`), since 2_5 seeks back by that length. `ToldOfEveryChild` is not
inductive: it says nothing of a parent that runs. `Covered` says it of what is
left to run: either the parent is about to exit badly, or each child that is
there or will be forked has a `wait` of its own ahead that may collect it
(`OwnWaits`), or the polling loop ahead still counts as many (`Polls`). That
each such wait is its child's own is what the mutant of 7_2 breaks. `DataInv`
names for each program on a file or a pipe the places it can be at and what
file, offset, buffer and pipe then hold. In 2_3 it does not depend on how many
writes fell short; in 2_6 and 7_9 the file holds a part of the first text, then
a part of the second, whole ones if no write fell short; 2_4 is covered without
faults, as in the property. In 2_2 and 2_5 it speaks only of files and places
that fit the buffer, whatever the number of bytes a read returned: the buffer is
then the part of the file before the offset, and in 2_5 as many letters of the
target `Stand` in that part as the search has found, and no more. In 11_2 the
parent holds the write end until it has written, and the child leaves its loop
only when the pipe is empty and nobody holds that end, so nothing can follow. In
11_3, where the child reads once, the invariant is how much has been written and
read by the time each of the two is where it is (`Sends`).

Only model-checked: liveness (`Termination`, `ThreadsTermination`, `ServedIndependently`,
`HandshakeCompletes`, `StopsOnSignal`, `Delivered`, `SignalsHeard`), since it
rests on fairness and ENABLED. Each safety invariant of a passing run is stated by
a theorem. The proofs about `Programs` are about the texts and
sizes of the sources; of any length are the text of 2_5 (`MaxLetters`), the file of
2_2 (`InputSizes`), the buffer of 2_5 (`SIZE_BUF_READ`) and the sequence of faults
(`MaxFaults`). `DataArrive` says nothing of a file that runs past a buffer, nor of a
2_4 in which a write falls short.

## 7. Findings

- 10_5: t1 may take the mutex for all remaining counts before main gets it and
  end by itself; main then cancels the id of a detached thread that is gone
  (`cancellation_alive`).
- 12_2_2: a reader that opens the object between the writer's `shm_open` and
  `ftruncate` is killed by SIGBUS (`shared_memory_semaphore_early`). A reader
  between `ftruncate` and `sem_init` uses an uninitialised semaphore; with glibc
  it may sleep for ever, which is why `HandshakeCompletes` excludes `early`.
- 11_4, 11_5: the length and the payload of a frame are two writes; the notes
  allow several writers, but two of them interleave and the reader prints bytes
  that are nobody's message (`fifo_writers`).
- 11_6: a receiver unlinks the queue it finds and makes its own, so that what
  was sent while no receiver ran is never printed, nor what a sender sends that
  runs on after it. The notes give two rules that exclude each other: "the
  writer can send it's messages to the message queue even when the reader is
  disconnected. Reader gets them whenever it goes online"
  (`11_6_2_Receiver/main.c` line 20), and that stale messages must not be
  printed (line 24). The code follows the second, `NothingStale`;
  `message_queue_offline` shows that the first does not hold
  (`KeptForReceiver`).

What the models also show and no document denies, so that no run expects it to
be violated (each is a hazard in `PROJECT.json`, and outside the properties):
- 12_1: Process_1 restarted after it was killed while counting waits for ever.
- 9_3: when `execl` fails in the child, the parent waits for a signal for ever.
- 7_3, 7_4, 7_5: when the second fork fails, the parent runs the child's code.
- 2_2: a file of more than 30 bytes is read past the end of `buf_storage` (line 80),
  and a text of 2_5 whose target does not end in the first 250 letters past that of
  `buf_read_bytes` (line 64): undefined behaviour, see section 4.
- 2_5: the letters of the target count wherever they stand in the text, since a
  letter that differs does not start the search again; in "Rxohan" the `x` is
  replaced. The comment of lines 55-56 asks for no more than to find the target
  "if you can". `DataArrives` says which letter is replaced in every text.
- 2_4, 2_6, 7_9: a short write goes unnoticed.

A comment of 2_4 is stale: line 67 says that the offset is at 6, behind the
"123456" written; the text has 19 bytes, and the offset is 19, as the comment of
line 81 says of the end.

And, outside the models: 2_6 with dup2 closes descriptor 1 while the line it
printed is still in the buffer of stdout; the line does not get into the file. It
shows only if `newFile.log` was not there before, since the file is not truncated.

## 8. Not modelled

- 1_1, 3_x, 4_x, 5_x: print identifiers, addresses, arguments, the environment or
  constant text, or allocate, use and free in one function. No state outlives a
  call and no order of steps matters.
- 2_6 with dup2: depends on stdio's buffering, see above.
- 13_1: its notes say that it works only when its programs run one after the
  other; 12_2_2 is the same with synchronisation, and is
  modelled.
- The image program is unfinished: one loop over a constant, without result.
