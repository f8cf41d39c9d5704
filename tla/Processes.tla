------------------------------- MODULE Processes -------------------------------
(***************************************************************************)
(* What the kernel does for a parent and its children: fork, exec, exit    *)
(* and the wait calls; signals, with the mask, the pending set and         *)
(* sigsuspend; a pipe; a file, opened once, whose offset all descriptors   *)
(* that come from that one by dup or fork share.                           *)
(*                                                                         *)
(* The rest of a program that a process has yet to run is a sequence of    *)
(* calls, code[p]; each call is a record, and an action takes the first    *)
(* one.  "fail" is what the program does when the call fails, put before   *)
(* the rest.  A sleep is no call: any time may pass between two calls.     *)
(* Untruncated is a wrong variant of ExitStatus, for mutation testing.     *)
(***************************************************************************)
EXTENDS Integers, Sequences, FiniteSetsExt

CONSTANTS Parent, Children,
          MaxFaults                \* bound: kills, signals of the user, calls
                                   \* that fail

Procs == Children \cup {Parent}

ASSUME ProcessesAssumption == Parent \notin Children /\ MaxFaults \in Nat

VARIABLES run,                     \* "none", "running", "zombie" or "reaped"
          code,
          status,                  \* what wait will report
          killed,                  \* the processes that a signal has ended
          told,                    \* [child -> what the parent said of its end]
          mask, handled, ignored, pending,
          caught,                  \* the flags that the handlers set
          timer,                   \* alarm() is running
          counter,                 \* alarms counted
          ends,                    \* [process -> ends of the pipe it has open]
          pipe,                    \* bytes in the pipe
          written, got,            \* history: bytes written and read
          file,                    \* its bytes
          offset,
          buffer,                  \* the bytes read from the file
          torn,                    \* history: a write was cut short for good
          faults

life == <<run, status, killed, told>>
dispositions == <<mask, handled, ignored>>
sigs == <<pending, caught, timer, counter>>
disk == <<file, offset, buffer, torn>>
io == <<ends, pipe, written, got, disk>>
kernel == <<life, code, dispositions, sigs, io, faults>>

Booted ==
    /\ run = [p \in Procs |-> IF p = Parent THEN "running" ELSE "none"]
    /\ status = [p \in Procs |-> 0]
    /\ killed = {}
    /\ told = [c \in Children |-> "untold"]
    /\ mask = [p \in Procs |-> {}] /\ handled = mask /\ ignored = mask
    /\ pending = mask /\ caught = mask
    /\ timer = [p \in Procs |-> FALSE]
    /\ counter = 0
    /\ ends = [p \in Procs |-> {}]
    /\ pipe = 0 /\ written = 0 /\ got = 0
    /\ offset = 0 /\ buffer = <<>> /\ torn = FALSE
    /\ faults = 0

-----------------------------------------------------------------------------
(* The calls                                                               *)

Exit(n) == [op |-> "exit", status |-> n]
Fork(c, program, fail) == [op |-> "fork", child |-> c, program |-> program, fail |-> fail]
Exec(program) == [op |-> "exec", program |-> program, fail |-> <<>>]
Wait(who, says, fail) == [op |-> "wait", who |-> who, says |-> says, none |-> fail]
WaitNoHang(who, fail) == [op |-> "poll", who |-> who, says |-> "unsaid", none |-> fail]
WaitNoHangWhile(count, fail) == [op |-> "poll_while", count |-> count, none |-> fail]
Block(signals) == [op |-> "block", signals |-> signals]
Handle(s) == [op |-> "handle", signal |-> s]
Ignore(s) == [op |-> "ignore", signal |-> s]
SuspendWhileNot(flags, body) == [op |-> "test", flags |-> flags, body |-> body]
SigSuspend == [op |-> "suspend"]
IfCaught(s, then) == [op |-> "if", signal |-> s, then |-> then]
Kill(p, s, refused) == [op |-> "kill", to |-> p, signal |-> s, refused |-> refused]
Alarm == [op |-> "alarm"]
CountAlarm(end) == [op |-> "count", end |-> end]
OpenPipe == [op |-> "pipe", fail |-> <<Exit(1)>>]
CloseEnd(e) == [op |-> "close", end |-> e]
WritePipe(n, fail) == [op |-> "write", bytes |-> n, fail |-> fail]
ReadPipe(n, again) == [op |-> "read", bytes |-> n, again |-> again, fail |-> <<Exit(1)>>]
OpenFile(truncate, fail) == [op |-> "open", truncate |-> truncate, fail |-> fail]
Dup(fail) == [op |-> "dup", fail |-> fail]
WriteFile(text, fail) ==
    [op |-> "write_file", text |-> text, append |-> FALSE, again |-> FALSE, fail |-> fail]
AppendAll(text, fail) ==
    [op |-> "write_file", text |-> text, append |-> TRUE, again |-> TRUE, fail |-> fail]
ReadFile(n, room, again, fail) ==
    [op |-> "read_file", bytes |-> n, room |-> room, again |-> again, fail |-> fail]
LSeek(by, from) == [op |-> "lseek", by |-> by, from |-> from]
Search(target, found, room, then, fail) ==
    [op |-> "search", target |-> target, found |-> found, room |-> room, then |-> then,
     fail |-> fail]

-----------------------------------------------------------------------------
Running(p) == run[p] = "running"
Now(p) == Head(code[p])
Calls(p, op) == Running(p) /\ Now(p).op = op
GoOn(p, first) == code' = [code EXCEPT ![p] = first \o Tail(@)]

(* How wait encodes the end of a process.                                  *)
Untruncated(n) == n * 256
ExitStatus(n) == (n % 256) * 256
Number == [KILL |-> 9, INT |-> 2, TERM |-> 15, PIPE |-> 13, ALRM |-> 14,
           USR1 |-> 10, USR2 |-> 12, SEGV |-> 11]

(* p is over.  Its descriptors are closed; it stays a zombie until its     *)
(* parent waits for it, or until init does, if the parent is over.         *)
End(p, st, by) ==
    /\ run' = [q \in Procs |->
                  IF q = p THEN IF p = Parent \/ Running(Parent) THEN "zombie" ELSE "reaped"
                  ELSE IF p = Parent /\ run[q] = "zombie" THEN "reaped" ELSE run[q]]
    /\ status' = [status EXCEPT ![p] = st]
    /\ killed' = killed \cup by
    /\ ends' = [ends EXCEPT ![p] = {}]
    /\ pending' = [pending EXCEPT ![p] = {}]
    /\ caught' = [caught EXCEPT ![p] = {}]
    /\ timer' = [timer EXCEPT ![p] = FALSE]
    /\ UNCHANGED <<code, told, dispositions, counter, pipe, written, got, disk>>

EndBySignal(p, s) == End(p, Number[s], {p})

DoExit(p) ==
    /\ Calls(p, "exit")
    /\ End(p, ExitStatus(Now(p).status), {})
    /\ UNCHANGED faults

DoFork(p) ==
    LET c == Now(p).child
        Copy(f) == [f EXCEPT ![c] = f[p]]
    IN /\ Calls(p, "fork")
       /\ run' = [run EXCEPT ![c] = "running"]
       /\ code' = [code EXCEPT ![p] = Tail(@), ![c] = Now(p).program]
       /\ mask' = Copy(mask) /\ handled' = Copy(handled) /\ ignored' = Copy(ignored)
       /\ caught' = Copy(caught) /\ ends' = Copy(ends)
       /\ UNCHANGED <<status, killed, told, pending, timer, counter, pipe, written, got, disk, faults>>

(* exec keeps the mask and what is ignored or pending; handlers and        *)
(* variables go.                                                           *)
DoExec(p) ==
    /\ Calls(p, "exec")
    /\ code' = [code EXCEPT ![p] = Now(p).program]
    /\ handled' = [handled EXCEPT ![p] = {}]
    /\ caught' = [caught EXCEPT ![p] = {}]
    /\ UNCHANGED <<life, mask, ignored, pending, timer, counter, io, faults>>

(* The call fails.                                                         *)
CallFails(p) ==
    /\ Running(p)
    /\ "fail" \in DOMAIN Now(p)
    /\ faults < MaxFaults /\ faults' = faults + 1
    /\ GoOn(p, Now(p).fail)
    /\ UNCHANGED <<life, dispositions, sigs, io>>

-----------------------------------------------------------------------------
(* wait and waitpid                                                        *)

Zombies(p) == IF p = Parent THEN {c \in Children : run[c] = "zombie"} ELSE {}
Unreaped(p) == IF p = Parent THEN {c \in Children : run[c] \in {"running", "zombie"}} ELSE {}

(* What the parent says of the end of a child: nothing, or what it takes   *)
(* the status for.                                                         *)
Verdict(says, st) ==
    IF says = "unsaid" THEN "unsaid"
    ELSE IF (says = "range" /\ st # 0 /\ st < 256) \/ (says = "WIFEXITED" /\ st % 128 # 0)
         THEN "killed" ELSE "exited"

Reap(c, says) ==
    /\ run' = [run EXCEPT ![c] = "reaped"]
    /\ told' = [told EXCEPT ![c] = Verdict(says, status[c])]
    /\ UNCHANGED <<status, killed, dispositions, sigs, io, faults>>

DoWait(p) ==
    /\ Calls(p, "wait")
    /\ IF Unreaped(p) \cap Now(p).who = {}
       THEN GoOn(p, Now(p).none) /\ UNCHANGED <<life, dispositions, sigs, io, faults>>
       ELSE \E c \in Zombies(p) \cap Now(p).who : Reap(c, Now(p).says) /\ GoOn(p, <<>>)

(* With WNOHANG: a child that is still running is not waited for.          *)
DoPoll(p) ==
    /\ Calls(p, "poll")
    /\ IF Zombies(p) \cap Now(p).who = {}
       THEN /\ GoOn(p, IF Unreaped(p) \cap Now(p).who = {} THEN Now(p).none ELSE <<>>)
            /\ UNCHANGED <<life, dispositions, sigs, io, faults>>
       ELSE \E c \in Zombies(p) \cap Now(p).who : Reap(c, Now(p).says) /\ GoOn(p, <<>>)

(* while (count != 0) waitpid(-1, WNOHANG); a turn that reaps nobody is no *)
(* step.                                                                   *)
DoPollWhile(p) ==
    LET n == Now(p).count
    IN /\ Calls(p, "poll_while")
       /\ IF n = 0 \/ Unreaped(p) = {}
          THEN /\ GoOn(p, IF n = 0 THEN <<>> ELSE Now(p).none)
               /\ UNCHANGED <<life, dispositions, sigs, io, faults>>
          ELSE \E c \in Zombies(p) :
                  /\ Reap(c, "unsaid")
                  /\ GoOn(p, <<WaitNoHangWhile(n - 1, Now(p).none)>>)

-----------------------------------------------------------------------------
(* Signals                                                                 *)

DoBlock(p) ==
    /\ Calls(p, "block")
    /\ mask' = [mask EXCEPT ![p] = @ \cup Now(p).signals]
    /\ GoOn(p, <<>>)
    /\ UNCHANGED <<life, handled, ignored, sigs, io, faults>>

DoHandle(p) ==
    /\ Calls(p, "handle")
    /\ handled' = [handled EXCEPT ![p] = @ \cup {Now(p).signal}]
    /\ GoOn(p, <<>>)
    /\ UNCHANGED <<life, mask, ignored, sigs, io, faults>>

DoIgnore(p) ==
    /\ Calls(p, "ignore")
    /\ ignored' = [ignored EXCEPT ![p] = @ \cup {Now(p).signal}]
    /\ GoOn(p, <<>>)
    /\ UNCHANGED <<life, mask, handled, sigs, io, faults>>

(* A signal that is pending already is merged with the new one.            *)
Arrives(p, s) == pending' = IF Running(p) THEN [pending EXCEPT ![p] = @ \cup {s}] ELSE pending

(* kill finds a zombie too; an orphan whose parent is over may not signal  *)
(* the process that adopted it.                                            *)
DoKill(p) ==
    LET q == Now(p).to
    IN /\ Calls(p, "kill")
       /\ IF run[q] = "reaped" \/ (q = Parent /\ ~Running(q))
          THEN GoOn(p, Now(p).refused) /\ UNCHANGED pending
          ELSE GoOn(p, <<>>) /\ Arrives(q, Now(p).signal)
       /\ UNCHANGED <<life, dispositions, caught, timer, counter, io, faults>>

(* A pending signal that is not blocked takes effect.  The handler sets    *)
(* its flag; p may be asleep in sigsuspend, or about to call it.           *)
Deliver(p) ==
    /\ Running(p)
    /\ \E s \in pending[p] \ mask[p] :
          IF s \in handled[p]
          THEN /\ pending' = [pending EXCEPT ![p] = @ \ {s}]
               /\ caught' = [caught EXCEPT ![p] = @ \cup {s}]
               /\ \E rest \in {code[p], IF Now(p) = SigSuspend THEN Tail(code[p]) ELSE code[p]} :
                     code' = [code EXCEPT ![p] = rest]
               /\ UNCHANGED <<life, dispositions, timer, counter, io>>
          ELSE EndBySignal(p, s)
    /\ UNCHANGED faults

(* while (!flags) { sigsuspend; body }                                     *)
DoTest(p) ==
    /\ Calls(p, "test")
    /\ GoOn(p, IF Now(p).flags \cap caught[p] # {} THEN <<>>
               ELSE <<SigSuspend>> \o Now(p).body \o <<Now(p)>>)
    /\ UNCHANGED <<life, dispositions, sigs, io, faults>>

(* sigsuspend with the empty mask: returns when a handler has run, for all *)
(* that is pending.                                                        *)
DoSuspend(p) ==
    /\ Calls(p, "suspend")
    /\ pending[p] # {}
    /\ pending' = [pending EXCEPT ![p] = {}]
    /\ caught' = [caught EXCEPT ![p] = @ \cup pending[p]]
    /\ GoOn(p, <<>>)
    /\ UNCHANGED <<life, dispositions, timer, counter, io, faults>>

(* if (caught) { caught = 0; then }                                        *)
DoIfCaught(p) ==
    /\ Calls(p, "if")
    /\ GoOn(p, IF Now(p).signal \in caught[p] THEN Now(p).then ELSE <<>>)
    /\ caught' = [caught EXCEPT ![p] = @ \ {Now(p).signal}]
    /\ UNCHANGED <<life, dispositions, pending, timer, counter, io, faults>>

DoAlarm(p) ==
    /\ Calls(p, "alarm")
    /\ timer' = [timer EXCEPT ![p] = TRUE]
    /\ GoOn(p, <<>>)
    /\ UNCHANGED <<life, dispositions, pending, caught, counter, io, faults>>

Expire(p) ==
    /\ timer[p]
    /\ timer' = [timer EXCEPT ![p] = FALSE]
    /\ Arrives(p, "ALRM")
    /\ UNCHANGED <<life, code, dispositions, caught, counter, io, faults>>

(* counter++; at the end break, else caught = 0                            *)
DoCount(p) ==
    /\ Calls(p, "count")
    /\ counter' = counter + 1
    /\ IF counter + 1 = Now(p).end
       THEN GoOn(p, <<Exit(0)>>) /\ UNCHANGED caught
       ELSE GoOn(p, <<>>) /\ caught' = [caught EXCEPT ![p] = {}]
    /\ UNCHANGED <<life, dispositions, pending, timer, io, faults>>

(* The user sends p a signal.                                              *)
Signalled(p, s) ==
    /\ Running(p)
    /\ faults < MaxFaults /\ faults' = faults + 1
    /\ Arrives(p, s)
    /\ UNCHANGED <<life, code, dispositions, caught, timer, counter, io>>

Killed(p) ==
    /\ Running(p)
    /\ faults < MaxFaults /\ faults' = faults + 1
    /\ EndBySignal(p, "KILL")

-----------------------------------------------------------------------------
(* The pipe and the file                                                   *)

DoPipe(p) ==
    /\ Calls(p, "pipe")
    /\ ends' = [ends EXCEPT ![p] = {"read", "write"}]
    /\ GoOn(p, <<>>)
    /\ UNCHANGED <<life, dispositions, sigs, pipe, written, got, disk, faults>>

DoClose(p) ==
    /\ Calls(p, "close")
    /\ ends' = [ends EXCEPT ![p] = @ \ {Now(p).end}]
    /\ GoOn(p, <<>>)
    /\ UNCHANGED <<life, dispositions, sigs, pipe, written, got, disk, faults>>

OpenAt(e) == \E q \in Procs : e \in ends[q]

DoWrite(p) ==
    /\ Calls(p, "write")
    /\ OpenAt("read")
    /\ pipe' = pipe + Now(p).bytes
    /\ written' = written + Now(p).bytes
    /\ GoOn(p, <<>>)
    /\ UNCHANGED <<life, dispositions, sigs, ends, got, disk, faults>>

(* EPIPE, after SIGPIPE if that is not ignored.                            *)
BrokenPipe(p) ==
    /\ Calls(p, "write")
    /\ ~OpenAt("read")
    /\ IF "PIPE" \in ignored[p]
       THEN GoOn(p, Now(p).fail) /\ UNCHANGED <<life, dispositions, sigs, io>>
       ELSE EndBySignal(p, "PIPE")
    /\ UNCHANGED faults

(* read returns what there is, up to the size asked for, or 0 when no      *)
(* write end is open.                                                      *)
DoRead(p) ==
    LET n == Min({Now(p).bytes, pipe})
    IN /\ Calls(p, "read")
       /\ n > 0 \/ ~OpenAt("write")
       /\ pipe' = pipe - n
       /\ got' = got + n
       /\ GoOn(p, IF n > 0 /\ Now(p).again THEN <<Now(p)>> ELSE <<>>)
       /\ UNCHANGED <<life, dispositions, sigs, ends, written, disk, faults>>

DoOpenFile(p) ==
    /\ Calls(p, "open")
    /\ offset' = 0
    /\ file' = IF Now(p).truncate THEN <<>> ELSE file
    /\ GoOn(p, <<>>)
    /\ UNCHANGED <<life, dispositions, sigs, ends, pipe, written, got, buffer, torn, faults>>

DoDup(p) ==
    /\ Calls(p, "dup")
    /\ GoOn(p, <<>>)
    /\ UNCHANGED <<life, dispositions, sigs, io, faults>>

(* The file with text written at position at; bytes never written read as  *)
(* zero.                                                                   *)
Zero == <<"zero", 1>>
Overwrite(at, text) ==
    [k \in 1 .. Max({Len(file), at + Len(text)}) |->
        IF k \in (at + 1) .. (at + Len(text)) THEN text[k - at]
        ELSE IF k <= Len(file) THEN file[k] ELSE Zero]

(* write puts the first n bytes of its text into the file.                 *)
PutBytes(p, n) ==
    LET at == IF Now(p).append THEN Len(file) ELSE offset
    IN /\ file' = Overwrite(at, SubSeq(Now(p).text, 1, n))
       /\ offset' = at + n
       /\ UNCHANGED <<life, dispositions, sigs, ends, pipe, written, got, buffer>>

DoWriteFile(p) ==
    /\ Calls(p, "write_file")
    /\ PutBytes(p, Len(Now(p).text))
    /\ GoOn(p, <<>>)
    /\ UNCHANGED <<torn, faults>>

(* write may put less than all; what it says of that, only some programs   *)
(* look at.                                                                *)
ShortWrite(p) ==
    /\ Calls(p, "write_file")
    /\ faults < MaxFaults /\ faults' = faults + 1
    /\ \E n \in 1 .. (Len(Now(p).text) - 1) :
          /\ PutBytes(p, n)
          /\ GoOn(p, IF Now(p).again
                      THEN <<[Now(p) EXCEPT !.text = SubSeq(@, n + 1, Len(@))]>> ELSE <<>>)
    /\ torn' = (torn \/ ~Now(p).again)

(* Where in the memory from the start of a buffer the next bytes go.  Once *)
(* bytes were put behind its room the index itself may be among what they  *)
(* have overwritten.                                                       *)
Places(room) == IF Len(buffer) <= room THEN {Len(buffer)} ELSE 0 .. Len(buffer)

DoReadFile(p) ==
    LET n == Min({Now(p).bytes, Max({0, Len(file) - offset})})
    IN /\ Calls(p, "read_file")
       /\ \E at \in Places(Now(p).room) :
             buffer' = SubSeq(buffer, 1, at) \o SubSeq(file, offset + 1, offset + n)
                          \o SubSeq(buffer, at + n + 1, Len(buffer))
       /\ offset' = offset + n
       /\ GoOn(p, IF n > 0 /\ Now(p).again THEN <<Now(p)>> ELSE <<>>)
       /\ UNCHANGED <<life, dispositions, sigs, ends, pipe, written, got, file, torn, faults>>

(* Bytes were put behind the room of a buffer, where other variables and   *)
(* the check of the stack are: p dies of it, at once or at its return, of  *)
(* SIGSEGV, which stands for SIGABRT too, or makes a call with a           *)
(* descriptor that is none.                                                *)
Clobbered(p) ==
    /\ Running(p)
    /\ \/ EndBySignal(p, "SEGV")
       \/ /\ "fail" \in DOMAIN Now(p)
          /\ GoOn(p, Now(p).fail)
          /\ UNCHANGED <<life, dispositions, sigs, io>>
    /\ UNCHANGED faults

DoLSeek(p) ==
    /\ Calls(p, "lseek")
    /\ offset' = Now(p).by + (CASE Now(p).from = "SET" -> 0
                                [] Now(p).from = "CUR" -> offset
                                [] Now(p).from = "END" -> Len(file))
    /\ GoOn(p, <<>>)
    /\ UNCHANGED <<life, dispositions, sigs, ends, pipe, written, got, file, buffer, torn, faults>>

(* One turn of the loop that reads a letter and compares it with the next  *)
(* one of the target; a letter that differs does not start the target      *)
(* again.  Behind the room another byte may be compared.                   *)
DoSearch(p) ==
    LET call == Now(p)
        letter == file[offset + 1]
        next == IF letter = call.target[call.found + 1] THEN call.found + 1 ELSE call.found
    IN /\ Calls(p, "search")
       /\ IF offset = Len(file)
          THEN GoOn(p, <<>>) /\ UNCHANGED <<offset, buffer>>
          ELSE /\ offset' = offset + 1
               /\ buffer' = Append(buffer, letter)
               /\ \E found \in IF Len(buffer) < call.room THEN {next}
                               ELSE {call.found, call.found + 1} :
                     GoOn(p, IF found = Len(call.target) THEN call.then
                             ELSE <<[call EXCEPT !.found = found]>>)
       /\ UNCHANGED <<life, dispositions, sigs, ends, pipe, written, got, file, torn, faults>>

-----------------------------------------------------------------------------
(* What p does next, if it may go on.                                      *)
Step(p) ==
    \/ DoExit(p)
    \/ DoFork(p)
    \/ DoExec(p)
    \/ DoWait(p)
    \/ DoPoll(p)
    \/ DoPollWhile(p)
    \/ DoBlock(p)
    \/ DoHandle(p)
    \/ DoIgnore(p)
    \/ DoKill(p)
    \/ DoTest(p)
    \/ DoSuspend(p)
    \/ DoIfCaught(p)
    \/ DoAlarm(p)
    \/ DoCount(p)
    \/ DoPipe(p)
    \/ DoClose(p)
    \/ DoWrite(p)
    \/ BrokenPipe(p)
    \/ DoRead(p)
    \/ DoOpenFile(p)
    \/ DoDup(p)
    \/ DoWriteFile(p)
    \/ DoReadFile(p)
    \/ DoLSeek(p)
    \/ DoSearch(p)
=============================================================================
