-------------------------------- MODULE Fifo --------------------------------
(***************************************************************************)
(* 11_4 "FIFO Basics" and 11_5 "FIFO with poll and O_NONBLOCK": a reader   *)
(* makes a named pipe, reads frames from it, and unlinks it when it ends;  *)
(* writers open it, and send each line the user types as a frame of two    *)
(* writes, the length and then the payload.  SIGINT, SIGTERM and SIGHUP    *)
(* set stop_flag.  11_4 blocks in open, read and write; 11_5 does not, but *)
(* polls between two frames: nonblocking says which of the two runs.       *)
(*                                                                         *)
(* The user starts readers and writers in any order.  A pipe lives apart   *)
(* from its name, and is named after the reader that made it; what is in   *)
(* it is dropped when nobody has it open.  A pc value names the next call; *)
(* a write of up to PIPE_BUF bytes is atomic, a read takes what there is.  *)
(* A read or write that would block, an EAGAIN that is tried again and a   *)
(* poll without result are no steps.                                       *)
(*                                                                         *)
(* GivesUpWhenFull, PollsOnly, ReadsTerminator and EmptyIsEnd are wrong    *)
(* variants of the definitions they precede, for mutation testing.         *)
(***************************************************************************)
EXTENDS Naturals, Sequences, FiniteSetsExt

CONSTANTS Writers, Readers,
          NoPipe,                  \* the path is free; nothing is open
          HeaderSize,              \* sizeof(msg_len)
          BUF_SIZE,                \* the longest payload
          Capacity,                \* of a pipe, in bytes
          MaxLines,                \* bound: lines typed at each writer
          MaxFaults                \* bound: signals and kills

Procs == Writers \cup Readers
Pipes == Readers

ASSUME ConstantsAssumption ==
    /\ Writers \cap Readers = {}
    /\ NoPipe \notin Pipes
    /\ {HeaderSize, BUF_SIZE} \subseteq Nat \ {0}
    /\ Capacity \in Nat /\ Capacity >= HeaderSize /\ Capacity >= BUF_SIZE
    /\ {MaxLines, MaxFaults} \subseteq Nat

VARIABLES nonblocking,
          pc,
          path,                    \* the pipe named FIFO_PATH
          fd,                      \* [process -> pipe it has open]
          content,                 \* [pipe -> bytes]
          line,                    \* [writer -> the line it sends]
          buf, msg_len,            \* [reader -> what it has read of the part it
                                   \* is reading, the length of the payload]
          stop_flag,
          faults,
          sent, received,          \* history: frames written, frames printed
          opened,                  \* history: [pipe -> who has opened it]
          at_eof                   \* history: readers that "Writer closed FIFO"

reading == <<buf, msg_len, received, at_eof>>
writing == <<line, sent>>
signals == <<stop_flag, faults>>
kernel == <<path, fd, content, opened>>
vars == <<nonblocking, pc, kernel, writing, reading, signals>>

Init ==
    /\ nonblocking \in BOOLEAN
    /\ pc = [p \in Procs |-> "off"]
    /\ path = NoPipe
    /\ fd = [p \in Procs |-> NoPipe]
    /\ content = [o \in Pipes |-> <<>>]
    /\ opened = [o \in Pipes |-> {}]
    /\ line = [w \in Writers |-> [no |-> 0, len |-> 0]]
    /\ sent = [w \in Writers |-> 0]
    /\ buf = [r \in Readers |-> <<>>]
    /\ msg_len = [r \in Readers |-> 0]
    /\ received = [r \in Readers |-> 0]
    /\ at_eof = {}
    /\ stop_flag = [p \in Procs |-> FALSE]
    /\ faults = 0

Goto(p, from, to) ==
    /\ pc[p] = from
    /\ pc' = [pc EXCEPT ![p] = to]
    /\ UNCHANGED nonblocking

ReadersOf(o) == {r \in Readers : fd[r] = o}
WritersOf(o) == {w \in Writers : fd[w] = o}

-----------------------------------------------------------------------------
(* The bytes of a frame.                                                   *)
Byte(w, l, k) == [from |-> w, no |-> l.no, len |-> l.len, pos |-> k]
Header(w, l) == [k \in 1 .. HeaderSize |-> Byte(w, l, k)]
Payload(w, l) == [k \in 1 .. l.len |-> Byte(w, l, HeaderSize + k)]

(* The lengths the reader may take a header for: the right one if it is a  *)
(* header, any value if it is bytes of something else.                     *)
Lengths(bytes) ==
    LET b == bytes[1]
    IN IF bytes = Header(b.from, b) THEN {b.len} ELSE 0 .. (BUF_SIZE + 1)

-----------------------------------------------------------------------------
(* The user starts a program.                                              *)
Start(p) ==
    /\ Goto(p, "off", IF p \in Readers THEN "mkfifo" ELSE "open")
    /\ UNCHANGED <<kernel, writing, reading, signals>>

(* open                                                                    *)

(* A blocking open waits for the other side, and lets it go on if that     *)
(* waits for us.                                                           *)
OpenPipe(p, others) ==
    /\ path # NoPipe
    /\ fd' = [fd EXCEPT ![p] = path]
    /\ opened' = [opened EXCEPT ![path] = @ \cup {p}]
    /\ pc' = [q \in Procs |->
                IF q = p THEN IF nonblocking \/ others # {} THEN "check" ELSE "opening"
                ELSE IF q \in others /\ pc[q] = "opening" THEN "check" ELSE pc[q]]
    /\ UNCHANGED <<nonblocking, path, content, writing, reading, signals>>

OpenReader(r) == pc[r] = "open" /\ OpenPipe(r, WritersOf(path))

OpenWriter(w) ==
    /\ pc[w] = "open"
    /\ nonblocking => ReadersOf(path) # {}        \* else ENXIO
    /\ OpenPipe(w, ReadersOf(path))

(* No such path, or a writer that may not block finds no reader.           *)
OpenFails(p) ==
    /\ path = NoPipe \/ (p \in Writers /\ nonblocking /\ ReadersOf(path) = {})
    /\ Goto(p, "open", IF p \in Readers THEN "unlink" ELSE "exit")
    /\ UNCHANGED <<kernel, writing, reading, signals>>

(* The pipe is closed; who was the last one drops what is in it.           *)
ClosePipe(p) ==
    /\ fd' = [fd EXCEPT ![p] = NoPipe]
    /\ content' = [o \in Pipes |-> IF fd[p] = o /\ \A q \in Procs \ {p} : fd[q] # o
                                   THEN <<>> ELSE content[o]]
    /\ UNCHANGED <<path, opened>>

Close(p) ==
    /\ Goto(p, "close", IF p \in Readers THEN "unlink" ELSE "exit")
    /\ ClosePipe(p)
    /\ UNCHANGED <<writing, reading, signals>>

-----------------------------------------------------------------------------
(* The writer                                                              *)

CheckWriter(w) ==
    /\ Goto(w, "check", IF stop_flag[w] THEN "close" ELSE "fgets")
    /\ \/ stop_flag[w]
       \/ ~nonblocking
       \/ Len(content[fd[w]]) < Capacity
       \/ ReadersOf(fd[w]) = {}
    /\ UNCHANGED <<kernel, writing, reading, signals>>

(* The user types a line; its length includes the '\0'.                    *)
TypeLine(w) ==
    /\ line[w].no < MaxLines
    /\ Goto(w, "fgets", "write_len")
    /\ \E l \in 1 .. BUF_SIZE :
          line' = [line EXCEPT ![w] = [no |-> line[w].no + 1, len |-> l]]
    /\ UNCHANGED <<kernel, sent, reading, signals>>

EndOfInput(w) ==
    /\ Goto(w, "fgets", "close")
    /\ UNCHANGED <<kernel, writing, reading, signals>>

HasRoom(w, bytes) == Len(content[fd[w]]) + Len(bytes) <= Capacity

SendBytes(w, bytes) ==
    /\ ReadersOf(fd[w]) # {}
    /\ HasRoom(w, bytes)
    /\ content' = [content EXCEPT ![fd[w]] = @ \o bytes]
    /\ UNCHANGED <<path, fd, opened>>

WriteLen(w) ==
    /\ Goto(w, "write_len", IF nonblocking THEN "write_payload" ELSE "check_payload")
    /\ SendBytes(w, Header(w, line[w]))
    /\ UNCHANGED <<writing, reading, signals>>

(* The test of stop_flag before the write of the payload, in 11_4 only.    *)
CheckWriting(w) ==
    /\ Goto(w, "check_payload", IF stop_flag[w] THEN "close" ELSE "write_payload")
    /\ UNCHANGED <<kernel, writing, reading, signals>>

GivesUpWhenFull(w) ==
    \/ SendBytes(w, Payload(w, line[w]))
    \/ ~HasRoom(w, Payload(w, line[w])) /\ UNCHANGED kernel
SendPayload(w) == SendBytes(w, Payload(w, line[w]))

WritePayload(w) ==
    /\ Goto(w, "write_payload", "check")
    /\ SendPayload(w)
    /\ sent' = [sent EXCEPT ![w] = @ + 1]
    /\ UNCHANGED <<line, reading, signals>>

(* EPIPE: no reader has the pipe open any more; SIGPIPE is ignored.        *)
BrokenPipe(w) ==
    /\ Goto(w, pc[w], "close")
    /\ pc[w] \in {"write_len", "write_payload"}
    /\ ReadersOf(fd[w]) = {}
    /\ UNCHANGED <<kernel, writing, reading, signals>>

-----------------------------------------------------------------------------
(* The reader                                                              *)

MakeFifo(r) ==
    /\ Goto(r, "mkfifo", "open")
    /\ path' = IF path = NoPipe THEN r ELSE path  \* EEXIST: reuse it
    /\ UNCHANGED <<fd, content, opened, writing, reading, signals>>

(* The test of stop_flag; in 11_5 also poll, until there is data.          *)
PollsOnly(r) == "len"
NextFrame(r) == IF stop_flag[r] THEN "close" ELSE "len"

CheckReader(r) ==
    /\ Goto(r, "check", NextFrame(r))
    /\ nonblocking => (pc'[r] = "close" \/ content[fd[r]] # <<>>)
    /\ buf' = [buf EXCEPT ![r] = <<>>]
    /\ UNCHANGED <<kernel, writing, msg_len, received, at_eof, signals>>

(* One read: as many of the missing bytes as there are.                    *)
ReadBytes(r, missing) ==
    LET n == Min({missing, Len(content[fd[r]])})
    IN /\ n > 0
       /\ buf' = [buf EXCEPT ![r] = @ \o SubSeq(content[fd[r]], 1, n)]
       /\ content' = [content EXCEPT ![fd[r]] = SubSeq(@, n + 1, Len(@))]
       /\ UNCHANGED <<path, fd, opened>>

ReadLenPart(r) ==
    /\ pc[r] = "len"
    /\ ReadBytes(r, HeaderSize - Len(buf[r]))
    /\ Goto(r, "len", IF Len(buf'[r]) = HeaderSize THEN "decode" ELSE "len")
    /\ UNCHANGED <<writing, msg_len, received, at_eof, signals>>

ReadsPayload == IF nonblocking THEN "payload" ELSE "check_payload"

(* The length is used if it is one; malloc.                                *)
Decode(r) ==
    /\ pc[r] = "decode"
    /\ \E l \in Lengths(buf[r]) :
          /\ Goto(r, "decode", IF l = 0 \/ l > BUF_SIZE THEN "close" ELSE ReadsPayload)
          /\ msg_len' = [msg_len EXCEPT ![r] = l]
    /\ buf' = [buf EXCEPT ![r] = <<>>]
    /\ UNCHANGED <<kernel, writing, received, at_eof, signals>>

ReadsTerminator(r) == msg_len[r] + 1 - Len(buf[r])
MissingPayload(r) == msg_len[r] - Len(buf[r])

(* The test of stop_flag before each read of the payload, in 11_4 only.    *)
CheckReading(r) ==
    /\ Goto(r, "check_payload", IF stop_flag[r] THEN "close" ELSE "payload")
    /\ UNCHANGED <<kernel, writing, reading, signals>>

ReadPayload(r) ==
    /\ pc[r] = "payload"
    /\ ReadBytes(r, MissingPayload(r))
    /\ Goto(r, "payload", IF Len(buf'[r]) - Len(buf[r]) = MissingPayload(r)
                          THEN "print" ELSE ReadsPayload)
    /\ UNCHANGED <<writing, msg_len, received, at_eof, signals>>

(* read returns 0: no byte is left and no writer has the pipe open.        *)
EmptyIsEnd(r) == content[fd[r]] = <<>>
AtEnd(r) == content[fd[r]] = <<>> /\ WritersOf(fd[r]) = {}

EndOfFile(r) ==
    /\ Goto(r, pc[r], "close")
    /\ pc[r] \in {"len", "payload"}
    /\ AtEnd(r)
    /\ at_eof' = IF pc[r] = "len" THEN at_eof \cup {r} ELSE at_eof
    /\ UNCHANGED <<kernel, writing, buf, msg_len, received, signals>>

PrintMessage(r) ==
    /\ Goto(r, "print", "check")
    /\ received' = [received EXCEPT ![r] = @ + 1]
    /\ UNCHANGED <<kernel, writing, buf, msg_len, at_eof, signals>>

Unlink(r) ==
    /\ Goto(r, "unlink", "exit")
    /\ path' = NoPipe
    /\ UNCHANGED <<fd, content, opened, writing, reading, signals>>

-----------------------------------------------------------------------------
(* Signals                                                                 *)

(* p is, or is about to be, in a call that does not return as things are.  *)
Sleeps(p) ==
    \/ pc[p] \in {"opening", "fgets"}
    \/ /\ ~nonblocking
       /\ \/ /\ pc[p] \in {"len", "payload"}
             /\ content[fd[p]] = <<>> /\ WritersOf(fd[p]) # {}
          \/ /\ pc[p] = "write_len"
             /\ ReadersOf(fd[p]) # {} /\ ~HasRoom(p, Header(p, line[p]))
          \/ /\ pc[p] = "write_payload"
             /\ ReadersOf(fd[p]) # {} /\ ~HasRoom(p, Payload(p, line[p]))

(* SIGINT, SIGTERM or SIGHUP.  A process that sleeps is interrupted and,   *)
(* since stop_flag is set, cleans up; one on its way to the call is not.   *)
Signalled(p) ==
    /\ faults < MaxFaults /\ faults' = faults + 1
    /\ pc[p] \notin {"off", "exit", "killed"}
    /\ stop_flag' = [stop_flag EXCEPT ![p] = TRUE]
    /\ \/ Sleeps(p) /\ Goto(p, pc[p], "close")
       \/ UNCHANGED <<nonblocking, pc>>
    /\ UNCHANGED <<kernel, writing, reading>>

(* SIGKILL: no cleanup.                                                    *)
Killed(p) ==
    /\ faults < MaxFaults /\ faults' = faults + 1
    /\ pc[p] \notin {"off", "exit", "killed"}
    /\ Goto(p, pc[p], "killed")
    /\ ClosePipe(p)
    /\ UNCHANGED <<writing, reading, stop_flag>>

-----------------------------------------------------------------------------
Writer(w) ==
    \/ OpenWriter(w)
    \/ OpenFails(w)
    \/ CheckWriter(w)
    \/ WriteLen(w)
    \/ CheckWriting(w)
    \/ WritePayload(w)
    \/ BrokenPipe(w)
    \/ Close(w)


Reader(r) ==
    \/ MakeFifo(r)
    \/ OpenReader(r)
    \/ OpenFails(r)
    \/ CheckReader(r)
    \/ ReadLenPart(r)
    \/ Decode(r)
    \/ CheckReading(r)
    \/ ReadPayload(r)
    \/ EndOfFile(r)
    \/ PrintMessage(r)
    \/ Close(r)
    \/ Unlink(r)

Next ==
    \/ \E w \in Writers : Writer(w) \/ TypeLine(w) \/ EndOfInput(w)
    \/ \E r \in Readers : Reader(r)
    \/ \E p \in Procs : Start(p) \/ Signalled(p) \/ Killed(p)

Spec == Init /\ [][Next]_vars

(* Every process that was started is scheduled; the user need not start    *)
(* one or type anything.                                                   *)
FairSpec ==
    /\ Spec
    /\ \A w \in Writers : WF_vars(Writer(w))
    /\ \A r \in Readers : WF_vars(Reader(r))

-----------------------------------------------------------------------------
(* Properties                                                              *)

WriterPC == {"off", "open", "opening", "check", "fgets", "write_len", "check_payload",
             "write_payload", "close", "exit", "killed"}
ReaderPC == {"off", "mkfifo", "open", "opening", "check", "len", "decode",
             "check_payload", "payload", "print", "close", "unlink", "exit",
             "killed"}

Bytes == [from : Writers, no : 1 .. MaxLines, len : 1 .. BUF_SIZE,
          pos : 1 .. (HeaderSize + BUF_SIZE)]

(* Every variable stays in its type: no pipe holds more than its capacity, *)
(* no buffer of a reader more than the msg_len bytes it was allocated for. *)
TypeOK ==
    /\ nonblocking \in BOOLEAN
    /\ pc \in [Procs -> WriterPC \cup ReaderPC]
    /\ \A w \in Writers : pc[w] \in WriterPC
    /\ \A r \in Readers : pc[r] \in ReaderPC
    /\ path \in Pipes \cup {NoPipe}
    /\ fd \in [Procs -> Pipes \cup {NoPipe}]
    /\ content \in [Pipes -> Seq(Bytes)]
    /\ \A o \in Pipes : Len(content[o]) <= Capacity
    /\ opened \in [Pipes -> SUBSET Procs]
    /\ line \in [Writers -> [no : 0 .. MaxLines, len : 0 .. BUF_SIZE]]
    /\ msg_len \in [Readers -> 0 .. (BUF_SIZE + 1)]
    /\ buf \in [Readers -> Seq(Bytes)]
    /\ \A r \in Readers :
          Len(buf[r]) <= CASE pc[r] \in {"len", "decode"} -> HeaderSize
                           [] pc[r] \in {"check_payload", "payload", "print"} -> msg_len[r]
                           [] OTHER -> HeaderSize + BUF_SIZE
    /\ sent \in [Writers -> 0 .. MaxLines] /\ received \in [Readers -> Nat]
    /\ at_eof \subseteq Readers
    /\ stop_flag \in [Procs -> BOOLEAN]
    /\ faults \in 0 .. MaxFaults

(* Nobody but one writer and one reader has ever opened pipe o.            *)
Private(o) ==
    /\ \A v, w \in opened[o] \cap Writers : v = w
    /\ \A q, r \in opened[o] \cap Readers : q = r

(* What r prints is a whole payload of some writer, none of its bytes lost *)
(* or taken for something else.                                            *)
PrintsPayload(r) ==
    \E w \in Writers, l \in [no : {received[r] + 1}, len : {Len(buf[r])}] :
        buf[r] = Payload(w, l)

(* Between one writer and one reader the frames arrive whole and in order, *)
(* whatever is interrupted or killed when, though a frame is two writes    *)
(* and the reader takes what there is (11_4 Reader lines 118-196, Writer   *)
(* 75-117).                                                                *)
ArriveInOrder ==
    \A r \in Readers :
        (pc[r] = "print" /\ Private(fd[r])) => PrintsPayload(r)

(* The reader takes an end of file between two frames for "Writer closed   *)
(* FIFO" only when it has printed everything the writer had sent.          *)
NothingUnread ==
    \A r \in at_eof, o \in Pipes, w \in Writers :
        (opened[o] = {r, w}) => received[r] = sent[w]

(* A reader that was told to stop ends.  That of 11_4 may come to sleep    *)
(* after its last look at stop_flag: then it ends when its writer sends    *)
(* more or closes, and only one whose writer never does sleeps for ever.   *)
(* That of 11_5 never sleeps, and though its loops try EAGAIN again        *)
(* without a look at stop_flag, the other half of a frame, or the end of   *)
(* file, comes if there is one writer (11_4 Reader 116-138; 11_5 86-189).  *)
StopsOnSignal ==
    [](\A o \in Pipes : Private(o)) =>
        \A r \in Readers :
            <>stop_flag[r] => \/ <>(pc[r] \in {"exit", "killed"})
                              \/ <>[](~nonblocking /\ Sleeps(r))

(* "Client (Writer(s))" may be several (11_4 Reader lines 28-32): what is  *)
(* printed is always somebody's message.                                   *)
FramesWhole ==
    \A r \in Readers : (pc[r] = "print") =>
        \E w \in Writers, n \in 1 .. MaxLines :
            buf[r] = Payload(w, [no |-> n, len |-> Len(buf[r])])

-----------------------------------------------------------------------------
(* The inductive invariant                                                 *)

(* Who has a pipe open follows from the control state; a process opens one *)
(* pipe at most, and once.                                                 *)
Opens ==
    \A p \in Procs :
        /\ pc[p] \in {"off", "mkfifo", "open"} => \A o \in Pipes : p \notin opened[o]
        /\ (pc[p] \in {"off", "mkfifo", "open", "unlink", "exit", "killed"})
              <=> (fd[p] = NoPipe)
        /\ \A o \in Pipes : fd[p] = o => p \in opened[o]
        /\ \A n, o \in Pipes : (p \in opened[n] /\ p \in opened[o]) => n = o

LineOf(w) ==
    /\ pc[w] \in {"off", "open", "opening"} => (sent[w] = 0 /\ line[w].no = 0)
    /\ pc[w] \in {"check", "fgets"} => line[w].no = sent[w]
    /\ pc[w] \in {"write_len", "check_payload", "write_payload"} =>
          (line[w].no = sent[w] + 1 /\ line[w].len > 0)

Lines == \A w \in Writers : LineOf(w)

BufferOf(r) ==
    /\ pc[r] \in {"off", "mkfifo", "open", "opening"} => received[r] = 0
    /\ pc[r] = "len" => Len(buf[r]) < HeaderSize
    /\ pc[r] = "decode" => Len(buf[r]) = HeaderSize
    /\ pc[r] \in {"check_payload", "payload"} =>
          (Len(buf[r]) < msg_len[r] /\ msg_len[r] <= BUF_SIZE)
    /\ pc[r] = "print" => (Len(buf[r]) = msg_len[r] /\ msg_len[r] \in 1 .. BUF_SIZE)

Buffers == \A r \in Readers : BufferOf(r)

(* Nothing is in a pipe, and neither side has come far, before both sides  *)
(* have opened it.                                                         *)
Gone == {"close", "unlink", "exit", "killed"}

BeforeReader(o) ==
    (opened[o] \cap Readers = {}) =>
        /\ content[o] = <<>>
        /\ \A w \in opened[o] \cap Writers :
              sent[w] = 0 /\ pc[w] \in {"opening"} \cup Gone

BeforeWriter(o) ==
    (opened[o] \cap Writers = {}) =>
        /\ content[o] = <<>>
        /\ \A r \in opened[o] \cap Readers :
              /\ received[r] = 0 /\ r \notin at_eof
              /\ \/ pc[r] \in {"opening"} \cup Gone
                 \/ nonblocking /\ pc[r] = "check"

OneSided == \A o \in Pipes : BeforeReader(o) /\ BeforeWriter(o)

(* A place in the stream of bytes: so many bytes of frame no, whose length *)
(* is len if there is at least one.                                        *)
Place(no, pos, len) == [no |-> no, pos |-> pos, len |-> len]
Between(no) == Place(no, 0, 0)

After(b) == IF b.pos = HeaderSize + b.len THEN Between(b.no + 1)
                                          ELSE Place(b.no, b.pos, b.len)

Fits(place, b) ==
    b.no = place.no /\ b.pos = place.pos + 1 /\ (place.pos # 0 => b.len = place.len)

ReaderAt(r) ==
    CASE pc[r] \in {"len", "decode"} /\ buf[r] # <<>> ->
            Place(received[r] + 1, Len(buf[r]), buf[r][1].len)
      [] pc[r] \in {"check_payload", "payload"} ->
            Place(received[r] + 1, HeaderSize + Len(buf[r]), msg_len[r])
      [] pc[r] = "print" -> Between(received[r] + 2)
      [] OTHER -> Between(received[r] + 1)

(* A writer that is gone may have stopped before or after a header.        *)
WriterAt(w) ==
    LET outside == Between(sent[w] + 1)
        inside == Place(sent[w] + 1, HeaderSize, line[w].len)
    IN IF pc[w] \in {"check_payload", "write_payload"} THEN {inside}
       ELSE IF pc[w] \in Gone THEN {outside, inside} ELSE {outside}

(* The bytes c are a piece of the stream of w: each byte of a frame tells  *)
(* where the others are, and after a frame comes the next one.             *)
Frames(c, w) ==
    /\ \A k \in 1 .. Len(c) :
          c[k].from = w /\ c[k].pos <= HeaderSize + c[k].len
    /\ \A j, k \in 1 .. Len(c) :
          j - k + c[k].pos \in 1 .. (HeaderSize + c[k].len)
              => c[j] = Byte(w, c[k], j - k + c[k].pos)
    /\ \A k \in 1 .. (Len(c) - 1) :
          c[k].pos = HeaderSize + c[k].len
              => (c[k + 1].no = c[k].no + 1 /\ c[k + 1].pos = 1)

(* They lead from a place to one of several places.                        *)
Links(c, from, to) ==
    IF c = <<>> THEN from \in to ELSE Fits(from, c[1]) /\ After(c[Len(c)]) \in to

(* What r has in its buffer is the beginning of the part of a frame of w   *)
(* that it is reading.                                                     *)
Collects(r, w) ==
    /\ pc[r] \in {"len", "decode"} =>
          \A k \in 1 .. Len(buf[r]) :
              buf[r][k] = Byte(w, Place(received[r] + 1, 0, buf[r][1].len), k)
    /\ pc[r] \in {"check_payload", "payload", "print"} =>
          \A k \in 1 .. Len(buf[r]) :
              buf[r][k] = Byte(w, Place(received[r] + 1, 0, msg_len[r]), HeaderSize + k)

Reading(r) == pc[r] \in {"opening", "check", "len", "decode", "check_payload",
                         "payload", "print"}

(* Between one writer and one reader, the buffer, the pipe and what the    *)
(* writer has yet to write of its frame make up the stream without a gap.  *)
Stream(o, w, r) ==
    /\ Frames(content[o], w)
    /\ Links(content[o], ReaderAt(r), WriterAt(w))
    /\ Collects(r, w)

Streams ==
    \A o \in Pipes : Private(o) =>
        \A w \in opened[o] \cap Writers, r \in opened[o] \cap Readers :
            Reading(r) => Stream(o, w, r)

(* A reader that took an end of file between two frames is over, and so is *)
(* its writer.                                                             *)
Ends ==
    \A r \in at_eof :
        /\ pc[r] \in Gone
        /\ \A o \in Pipes : (Private(o) /\ r \in opened[o]) =>
              \A w \in opened[o] \cap Writers :
                  pc[w] \in {"exit", "killed"} /\ received[r] = sent[w]

IInv == TypeOK /\ Opens /\ Lines /\ Buffers /\ OneSided /\ Streams /\ Ends
=============================================================================
