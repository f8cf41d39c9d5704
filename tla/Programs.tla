-------------------------------- MODULE Programs --------------------------------
(***************************************************************************)
(* The programs in which a process forks, waits, execs, signals, writes to *)
(* a pipe or works on a file: 2_1 to 2_6, 6_1, 6_2, 7_1 to 7_9, 8_1 to     *)
(* 8_4, 9_1 to 9_3 and 11_1 to 11_3, one of which runs.  A program is the  *)
(* sequence of its system calls, with what it does when one fails;         *)
(* Processes says what they do.  C1 and C2 are its first and second child. *)
(*                                                                         *)
(* Calls that cannot fail here (sigprocmask and sigaction with valid       *)
(* arguments, close of an open descriptor, lseek on a file) have no        *)
(* failure.  WaitsOnce, Unblocked, ReadsOnce and KeepsWriteEnd are wrong   *)
(* variants of the definitions they precede, for mutation testing.         *)
(***************************************************************************)
EXTENDS Processes

CONSTANTS C1, C2,
          InputSizes,              \* bound: lengths of the file that 2_2 reads
          SIZE_BUF_READ,           \* letters that the buffer of 2_5 has room for
          MaxLetters               \* bound: letters of a text in 2_5

ASSUME ChildrenAssumption == Children = {C1, C2} /\ C1 # C2

(* The index of 2_5 into its buffer, a uint8_t, reaches the end of the     *)
(* buffer before it starts again at 0 (lines 23 and 59).                   *)
ASSUME SizesAssumption ==
    InputSizes \subseteq Nat /\ SIZE_BUF_READ \in 0 .. 255 /\ MaxLetters \in Nat

VARIABLES program,
          original                 \* history: the file as it was

vars == <<kernel, program, original>>

Fails == <<Exit(1)>>                     \* EXIT_FAILURE
FailsMinus1 == <<Exit(-1)>>

-----------------------------------------------------------------------------
(* 2: a file.  A byte is the text it comes from and its place in it.       *)

Text(name, n) == [k \in 1 .. n |-> <<name, k>>]
Letter(c) == <<c, 1>>

Main_2_1 == <<OpenFile(FALSE, <<Exit(-10)>>), Exit(0)>>
SIZE_BUF_STORAGE == 30
Main_2_2 == <<OpenFile(FALSE, <<Exit(-10)>>),
              ReadFile(10, SIZE_BUF_STORAGE, TRUE, <<Exit(-5)>>), Exit(0)>>
Main_2_3 == <<OpenFile(FALSE, <<Exit(-10)>>), AppendAll(Text("Hello", 3), <<Exit(-2)>>), Exit(0)>>

(* The results of the reads and writes are not looked at.                  *)
Main_2_4 == <<OpenFile(TRUE, <<Exit(-2)>>), LSeek(0, "SET"),
              WriteFile(Text("digits", 19), <<>>), LSeek(0, "CUR"),
              LSeek(2, "SET"), WriteFile(Text("00", 2), <<>>),
              LSeek(6, "CUR"), ReadFile(10, 100, FALSE, <<>>),
              LSeek(0, "END"), WriteFile(Text("tabbed", 11), <<>>), LSeek(0, "CUR"),
              LSeek(0, "SET"), ReadFile(19, 100, FALSE, <<>>), Exit(0)>>

(* Three letters stand for the five of "Rohan".                            *)
STRING_TARGET == <<Letter("R"), Letter("o"), Letter("h")>>
LETTER_NEW == Letter("M")
Main_2_5 == <<OpenFile(FALSE, <<Exit(-2)>>),
              Search(STRING_TARGET, 0, SIZE_BUF_READ,
                     <<LSeek(-Len(STRING_TARGET), "CUR"), WriteFile(<<LETTER_NEW>>, <<Exit(-4)>>)>>,
                     <<Exit(-3)>>),
              Exit(0)>>

(* Without newfd, the write to it and its close fail too.                  *)
Main_2_6 == <<OpenFile(FALSE, <<Exit(-2)>>),
              Dup(<<WriteFile(Text("oldfd", 2), <<>>), Exit(-3)>>),
              WriteFile(Text("newfd", 2), <<>>), WriteFile(Text("oldfd", 2), <<>>), Exit(0)>>

(* What the file may hold before.                                          *)
Letters == {Letter("R"), Letter("o"), Letter("h"), Letter("x")}
Originals ==
    CASE program = "2_2" -> {Text("input", n) : n \in InputSizes}
      [] program = "2_5" -> UNION {[1 .. n -> Letters] : n \in 0 .. MaxLetters}
      [] program \in {"2_3", "2_4", "2_6", "7_9"} -> {<<>>, Text("input", 5)}
      [] OTHER -> {<<>>}

-----------------------------------------------------------------------------
(* 6: one fork; 8: exec                                                    *)

Main_6_1 == <<Fork(C1, <<Exit(0)>>, FailsMinus1), Exit(0)>>
Main_6_2 == <<Fork(C1, <<Exit(0)>>, FailsMinus1), Exit(0)>>

Main_8_1 == <<Exec(<<Exit(0)>>), Exit(0)>>
Main_8_2 == <<Exec(<<Exit(0)>>), Exit(0)>>
Main_8_3 == <<Exec(<<Exit(0)>>), Exit(0)>>

P2_8_4 == <<Exit(5)>>
Main_8_4 == <<Fork(C1, <<Exec(P2_8_4), Exit(0)>>, FailsMinus1),
              Wait(Children, "unsaid", <<>>), Exit(0)>>

-----------------------------------------------------------------------------
(* 7: waiting for children.  In 7_3, 7_4 and 7_5 case -1 of the second     *)
(* fork falls through into the code of the second child.                   *)

Main_7_1 == <<Fork(C1, <<Exit(3)>>, FailsMinus1),
              Wait(Children, "range", FailsMinus1), Exit(0)>>

WaitsOnce == <<Fork(C1, <<Exit(1)>>, FailsMinus1), Fork(C2, <<Exit(2)>>, FailsMinus1),
               Wait(Children, "range", FailsMinus1), Exit(0)>>
Main_7_2 == <<Fork(C1, <<Exit(1)>>, FailsMinus1), Fork(C2, <<Exit(2)>>, FailsMinus1),
              Wait(Children, "range", FailsMinus1),
              Wait(Children, "range", FailsMinus1), Exit(0)>>

Child2_7_3 == <<Exit(1)>>
Main_7_3 == <<Fork(C1, <<Exit(0)>>, FailsMinus1), Fork(C2, Child2_7_3, Child2_7_3),
              Wait({C1}, "unsaid", FailsMinus1),
              Wait({C2}, "unsaid", FailsMinus1), Exit(0)>>

Child2_7_4 == <<Exit(1)>>
Main_7_4 == <<Fork(C1, <<Exit(0)>>, FailsMinus1), Fork(C2, Child2_7_4, Child2_7_4),
              WaitNoHang({C1}, FailsMinus1), WaitNoHang({C2}, FailsMinus1), Exit(0)>>

Child2_7_5 == <<Exit(1)>>
Main_7_5 == <<Fork(C1, <<Exit(2)>>, FailsMinus1), Fork(C2, Child2_7_5, Child2_7_5),
              WaitNoHangWhile(2, FailsMinus1), Exit(0)>>

Main_7_6 == <<Fork(C1, <<Exit(2)>>, FailsMinus1), Exit(0)>>
Main_7_7 == <<Fork(C1, <<Exit(2)>>, FailsMinus1), Exit(0)>>
Main_7_8 == <<Fork(C1, <<Exit(2)>>, FailsMinus1), Wait({C1}, "unsaid", <<>>), Exit(0)>>

(* The file is open in both; ERR_FILE_OPEN is -2 and ERR_FILE_WRITE -4.    *)
Child_7_9 == <<WriteFile(Text("Child", 2), <<Exit(-4)>>), Exit(0)>>
Main_7_9 == <<OpenFile(TRUE, <<Exit(-2)>>), WriteFile(Text("Parent", 2), <<Exit(-4)>>),
              Fork(C1, Child_7_9, FailsMinus1), Wait({C1}, "unsaid", FailsMinus1), Exit(0)>>

-----------------------------------------------------------------------------
(* 9: signals                                                              *)

Unblocked == <<Handle("INT"), Handle("TERM"),
               SuspendWhileNot({"INT", "TERM"},
                               <<IfCaught("INT", <<>>), IfCaught("TERM", <<Exit(0)>>)>>),
               Exit(0)>>
Main_9_1 == <<Block({"INT", "TERM"}), Handle("INT"), Handle("TERM"),
              SuspendWhileNot({"INT", "TERM"},
                              <<IfCaught("INT", <<>>), IfCaught("TERM", <<Exit(0)>>)>>),
              Exit(0)>>

T_END == 5
Main_9_2 == <<Block({"ALRM"}), Handle("ALRM"), Alarm,
              SuspendWhileNot({"ALRM"}, <<CountAlarm(T_END), Alarm>>), Exit(0)>>

Program_2_9_3 == <<Block({"USR1"}), Handle("USR1"), Kill(Parent, "USR1", <<>>),
                   SuspendWhileNot({"USR1"}, <<>>), Kill(Parent, "USR2", Fails), Exit(0)>>
Main_9_3 == <<Block({"USR1", "USR2"}), Handle("USR1"), Handle("USR2"),
              Fork(C1, <<Exec(Program_2_9_3), Exit(1)>>, Fails),
              SuspendWhileNot({"USR1"}, <<>>), Kill(C1, "USR1", Fails),
              SuspendWhileNot({"USR2"}, <<>>),
              Wait({C1}, "WIFEXITED", Fails), Exit(0)>>

-----------------------------------------------------------------------------
(* 11: a pipe                                                              *)

Main_11_1 == <<OpenPipe, WritePipe(20, Fails), CloseEnd("write"), ReadPipe(6, TRUE),
               CloseEnd("read"), Exit(0)>>

ReadsOnce == <<CloseEnd("write"), ReadPipe(8, FALSE), CloseEnd("read"), Exit(0)>>
KeepsWriteEnd == <<ReadPipe(8, TRUE), CloseEnd("read"), Exit(0)>>
Child_11_2 == <<CloseEnd("write"), ReadPipe(8, TRUE), CloseEnd("read"), Exit(0)>>
Main_11_2 == <<OpenPipe, Fork(C1, Child_11_2, Fails), CloseEnd("read"),
               WritePipe(15, Fails), CloseEnd("write"),
               Wait(Children, "unsaid", Fails), Exit(0)>>

(* The child reads once; the parent goes on when nobody reads any more.    *)
Child_11_3 == <<CloseEnd("write"), ReadPipe(4, FALSE), CloseEnd("read"), Exit(0)>>
Main_11_3 == <<Ignore("PIPE"), OpenPipe, Fork(C1, Child_11_3, Fails), CloseEnd("read"),
               WritePipe(4, <<>>), WritePipe(4, <<>>), CloseEnd("write"),
               Wait(Children, "unsaid", Fails), Exit(0)>>

-----------------------------------------------------------------------------
Names == {"2_1", "2_2", "2_3", "2_4", "2_5", "2_6", "6_1", "6_2", "7_1",
          "7_2", "7_3", "7_4", "7_5", "7_6", "7_7", "7_8", "7_9", "8_1",
          "8_2", "8_3", "8_4", "9_1", "9_2", "9_3", "11_1", "11_2", "11_3"}

Main(name) ==
    CASE name = "2_1" -> Main_2_1 [] name = "2_2" -> Main_2_2 [] name = "2_3" -> Main_2_3
      [] name = "2_4" -> Main_2_4 [] name = "2_5" -> Main_2_5 [] name = "2_6" -> Main_2_6
      [] name = "6_1" -> Main_6_1 [] name = "6_2" -> Main_6_2 [] name = "7_1" -> Main_7_1
      [] name = "7_2" -> Main_7_2 [] name = "7_3" -> Main_7_3 [] name = "7_4" -> Main_7_4
      [] name = "7_5" -> Main_7_5 [] name = "7_6" -> Main_7_6 [] name = "7_7" -> Main_7_7
      [] name = "7_8" -> Main_7_8 [] name = "7_9" -> Main_7_9 [] name = "8_1" -> Main_8_1
      [] name = "8_2" -> Main_8_2 [] name = "8_3" -> Main_8_3 [] name = "8_4" -> Main_8_4
      [] name = "9_1" -> Main_9_1 [] name = "9_2" -> Main_9_2 [] name = "9_3" -> Main_9_3
      [] name = "11_1" -> Main_11_1 [] name = "11_2" -> Main_11_2 [] name = "11_3" -> Main_11_3

Init ==
    /\ program \in Names
    /\ Booted
    /\ original \in Originals /\ file = original
    /\ code = [p \in Procs |-> IF p = Parent THEN Main(program) ELSE <<>>]

(* 2_2 or 2_5 has put bytes behind its buffer.                             *)
Overrun ==
    \/ program = "2_2" /\ Len(buffer) > SIZE_BUF_STORAGE
    \/ program = "2_5" /\ Len(buffer) > SIZE_BUF_READ

(* The user may type SIGINT or SIGTERM at 9_1, and may kill any process.   *)
Next ==
    /\ \/ \E p \in Procs : Step(p) \/ CallFails(p) \/ ShortWrite(p)
       \/ \E p \in Procs : Deliver(p) \/ Expire(p) \/ Killed(p)
       \/ Overrun /\ Clobbered(Parent)
       \/ program = "9_1" /\ \E s \in {"INT", "TERM"} : Signalled(Parent, s)
    /\ UNCHANGED <<program, original>>

Spec == Init /\ [][Next]_vars

(* Every process is scheduled, the timer expires and a signal is delivered *)
(* at last; nothing need fail, and the user need do nothing.               *)
FairSpec ==
    /\ Spec
    /\ \A p \in Procs : /\ WF_vars(Step(p) /\ UNCHANGED <<program, original>>)
                        /\ WF_vars(Deliver(p) /\ UNCHANGED <<program, original>>)
                        /\ WF_vars(Expire(p) /\ UNCHANGED <<program, original>>)

-----------------------------------------------------------------------------
(* Properties                                                              *)

Signals == DOMAIN Number
Texts == {"Hello", "digits", "00", "tabbed", "R", "o", "h", "x", "M", "newfd", "oldfd",
          "input", "Parent", "Child", "zero"}
Bytes == Texts \X Nat

Statuses == 0 .. 65535

(* Every variable stays in its type; a status fits the 16 bits of wait,    *)
(* who is over holds no descriptor and no timer, a program never runs past *)
(* its end, and a child is told of after it was reaped.                    *)
TypeOK ==
    /\ program \in Names
    /\ run \in [Procs -> {"none", "running", "zombie", "reaped"}]
    /\ \A p \in Procs : Running(p) => code[p] # <<>>
    /\ status \in [Procs -> Statuses]
    /\ killed \subseteq Procs
    /\ told \in [Children -> {"untold", "unsaid", "exited", "killed"}]
    /\ \A c \in Children : told[c] # "untold" => run[c] = "reaped"
    /\ {mask, handled, ignored, pending, caught} \subseteq [Procs -> SUBSET Signals]
    /\ timer \in [Procs -> BOOLEAN]
    /\ counter \in 0 .. T_END
    /\ ends \in [Procs -> SUBSET {"read", "write"}]
    /\ \A p \in Procs : ~Running(p) => ends[p] = {} /\ ~timer[p]
    /\ pipe \in Nat /\ got + pipe = written
    /\ \A text \in {file, buffer} : text \in Seq(Bytes)
    /\ offset \in Nat /\ torn \in BOOLEAN
    /\ faults \in 0 .. MaxFaults

Succeeded(p) == run[p] \in {"zombie", "reaped"} /\ p \notin killed /\ status[p] = 0

(* The programs whose parent is to wait for all its children.              *)
Waiting == {"7_1", "7_2", "7_3", "7_5", "7_8", "7_9", "8_4", "9_3", "11_2", "11_3"}

(* A parent that ends well has collected every child it made, and what it  *)
(* prints of the end of one is true, whichever child ends first and        *)
(* however: the test status # 0 && status < 256 says "killed by a signal"  *)
(* of the right ones (7_1 line 52, 7_2 lines 55 and 69), and so does       *)
(* WIFEXITED (9_3 Program_1 line 119); 7_5 counts each child once.         *)
ToldOfEveryChild ==
    /\ (program \in Waiting /\ Succeeded(Parent)) =>
          \A c \in Children : run[c] # "none" => told[c] # "untold"
    /\ \A c \in Children : /\ told[c] = "killed" => c \in killed
                           /\ told[c] = "exited" => c \notin killed

(* A reader of a pipe that takes an end of file for the end of the data    *)
(* has read all that was written (11_1 lines 64-68, 11_2 lines 80-104).    *)
(* 11_3 reads once, and has a part of the parent's then, if the parent     *)
(* could write any; that nobody reads the other part does not end the      *)
(* parent, which ignores SIGPIPE (11_3 lines 5-6 and 44).                  *)
PipeIsEmptied ==
    /\ (program = "11_1" /\ Succeeded(Parent)) => (written > 0 /\ got = written)
    /\ (program = "11_2" /\ Succeeded(C1)) => got = written
    /\ (program = "11_3" /\ Succeeded(C1) /\ written > 0) => got = 4
    /\ (program = "11_3" /\ Parent \in killed) => status[Parent] # Number.PIPE

(* The first n letters of the target stand in this order, though maybe     *)
(* with others between, among the first k letters of the text.             *)
Stand(n, k) ==
    \E at \in [1 .. n -> 1 .. k] :
        /\ \A i, j \in 1 .. n : i < j => at[i] < at[j]
        /\ \A i \in 1 .. n : original[at[i]] = STRING_TARGET[i]

(* The target has been found when the k-th letter is read.                 *)
FoundAt(k) == Stand(Len(STRING_TARGET), k) /\ ~Stand(Len(STRING_TARGET), k - 1)

(* 2_5 changes one letter, as many places before the one at which it has   *)
(* found the target as the target is long, and nothing if it finds none,   *)
(* in what its buffer has room for (lines 62-96).  If the target stands    *)
(* there without a gap, and not behind another R, that is its first        *)
(* letter.                                                                 *)
LetterReplaced ==
    /\ \A k \in DOMAIN original :
          (FoundAt(k) /\ k <= SIZE_BUF_READ) =>
              file = [original EXCEPT ![k + 1 - Len(STRING_TARGET)] = LETTER_NEW]
    /\ (Len(original) <= SIZE_BUF_READ /\ ~Stand(Len(STRING_TARGET), Len(original))) =>
          file = original

(* text was written over the beginning of the file.                        *)
Begins(text) == file = text \o SubSeq(original, Len(text) + 1, Len(original))

(* Two texts were written behind each other, of each a part from its       *)
(* start.                                                                  *)
Follows(first, second) ==
    \E i \in 0 .. Len(first), j \in 0 .. Len(second) :
        Begins(SubSeq(first, 1, i) \o SubSeq(second, 1, j))

(* 2_2 has a file that fits its buffer whole in it; 2_3 appends the whole  *)
(* text, in however many writes.  Through two descriptors of 2_6, and of   *)
(* the parent and the child of 7_9, the second text follows what was       *)
(* written of the first, and is whole like it if no write fell short or    *)
(* failed.  2_4, if none did, writes and reads at the offsets 2, 10, 19    *)
(* and 0 that its comments name (lines 70-89).                             *)
FileHolds ==
    /\ (program = "2_2" /\ Succeeded(Parent) /\ Len(original) <= SIZE_BUF_STORAGE) =>
          buffer = original
    /\ (program = "2_3" /\ Succeeded(Parent)) => file = original \o Text("Hello", 3)
    /\ (program = "2_4" /\ Succeeded(Parent) /\ faults = 0) =>
          LET digits == Text("digits", 19)
              start == SubSeq(digits, 1, 2) \o Text("00", 2) \o SubSeq(digits, 5, 19)
          IN /\ file = start \o Text("tabbed", 11)
             /\ buffer = SubSeq(start, 11, 19) \o start
    /\ (program = "2_5" /\ Succeeded(Parent)) => LetterReplaced
    /\ (program = "2_6" /\ Succeeded(Parent)) =>
          /\ Follows(Text("newfd", 2), Text("oldfd", 2))
          /\ faults = 0 => Begins(Text("newfd", 2) \o Text("oldfd", 2))
    /\ (program = "7_9" /\ Succeeded(C1)) =>
          /\ \E i, j \in 1 .. 2 : file = Text("Parent", i) \o Text("Child", j)
          /\ ~torn => file = Text("Parent", 2) \o Text("Child", 2)

(* What a program writes arrives, in order, and whole where the parts of   *)
(* this property say so.                                                   *)
DataArrives == PipeIsEmptied /\ FileHolds

(* Some part of the program still to run waits for s or asks for it.       *)
Awaits(p, s) ==
    \E k \in DOMAIN code[p] :
        LET call == code[p][k]
        IN (call.op = "test" /\ s \in call.flags) \/ (call.op = "if" /\ call.signal = s)

Unheard(p, s) == Running(p) /\ s \in pending[p] \cup caught[p] /\ Awaits(p, s)

(* No signal that a program waits for is missed, whenever it comes: it is  *)
(* reported (9_1 lines 85-101), counted (9_2) or ends the wait for it      *)
(* (9_3), if it does not end the process before the handlers are set.      *)
SignalsHeard == \A p \in Procs, s \in Signals : Unheard(p, s) ~> ~Unheard(p, s)

Over ==
    /\ run[Parent] = "zombie"
    /\ \A c \in Children : run[c] \in {"none", "reaped"}

(* All processes end and every child is collected, by the parent or by     *)
(* init: no two of them wait for each other, and none for a child that has *)
(* been collected.  9_1 ends with a SIGTERM, and the handshake of 9_3      *)
(* needs both processes.                                                   *)
Termination ==
    [](program = "9_3" => faults = 0) =>
        ((program = "9_1" => "TERM" \in pending[Parent] \cup caught[Parent]) ~> Over)
=============================================================================
