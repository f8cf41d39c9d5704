---------------------------- MODULE ProgramsProofs ----------------------------
(***************************************************************************)
(* Proofs about Programs, for every MaxFaults, every set of InputSizes and *)
(* every SIZE_BUF_READ and MaxLetters that SizesAssumption allows.         *)
(*                                                                         *)
(* TypeInv is inductive: the calls ahead of a process are of the kinds     *)
(* that its program is made of, and end with an exit (Coded); what a       *)
(* failing call puts before the rest is such calls again.  2_5 seeks back  *)
(* as far as its target is long, so its type rests on what it has found    *)
(* (Replaces).                                                             *)
(*                                                                         *)
(* Covered says of the calls ahead of a parent what ToldOfEveryChild says  *)
(* of a parent that is over: unless it is about to fail, every child it    *)
(* has made or will make is collected by a call still to come.             *)
(***************************************************************************)
EXTENDS Programs, SequenceTheorems, TLAPS

-----------------------------------------------------------------------------
(* The calls                                                               *)

(* A sequence of calls that ends the process.                              *)
Whole(s) == s # <<>> /\ s[Len(s)].op = "exit"

Bad(n) == n % 256 # 0
Exits == {s \in Seq([op : {"exit"}, status : Int]) : Len(s) <= 1}

(* What parent and child may call; N are the sequences of calls in a call. *)
SharedCalls(N) ==
    [op : {"exit"}, status : Int]
    \cup [op : {"exec"}, program : {s \in N : Whole(s)}, fail : {<<>>}]
    \cup [op : {"block"}, signals : SUBSET Signals]
    \cup [op : {"handle", "ignore"}, signal : Signals]
    \cup [op : {"test"}, flags : SUBSET Signals, body : N]
    \cup [op : {"suspend", "alarm"}]
    \cup [op : {"if"}, signal : Signals, then : N]
    \cup [op : {"kill"}, to : Procs, signal : Signals, refused : N]
    \cup [op : {"pipe", "dup"}, fail : N]
    \cup [op : {"close"}, end : {"read", "write"}]
    \cup [op : {"write"}, bytes : Nat, fail : N]
    \cup [op : {"read"}, bytes : Nat, again : BOOLEAN, fail : N]
    \cup [op : {"open"}, truncate : BOOLEAN, fail : N]
    \cup [op : {"write_file"}, text : Seq(Bytes), append : BOOLEAN, again : BOOLEAN, fail : N]
    \cup [op : {"read_file"}, bytes : Nat, room : Nat, again : BOOLEAN, fail : N]

Counts == [op : {"count"}, end : {T_END}]
Seeks == [op : {"lseek"}, by : Nat, from : {"SET", "CUR", "END"}]
Waits(N) ==
    [op : {"wait"}, who : SUBSET Children, says : {"unsaid", "range", "WIFEXITED"}, none : N]
    \cup [op : {"poll"}, who : SUBSET Children, says : {"unsaid"}, none : N]
    \cup [op : {"poll_while"}, count : Nat, none : N]
Forks(M, N) == [op : {"fork"}, child : Children, program : M, fail : N]

(* The search of 2_5, and the seek back to the start of what it found.     *)
StepBack == LSeek(-Len(STRING_TARGET), "CUR")
Replace == <<StepBack, WriteFile(<<LETTER_NEW>>, <<Exit(-4)>>)>>
Searching(n) == Search(STRING_TARGET, n, SIZE_BUF_READ, Replace, <<Exit(-3)>>)
Searches == {Searching(n) : n \in 0 .. 2}

ChildNested == Seq(SharedCalls(Exits))
ChildCalls == SharedCalls(ChildNested)
ChildCode == {s \in Seq(ChildCalls) : Whole(s)}
Nested == Seq(SharedCalls(Exits) \cup Counts)
ParentCalls ==
    SharedCalls(Nested) \cup Counts \cup Seeks \cup Waits(Nested) \cup Forks(ChildCode, Nested)

CallsOf(name, p) ==
    IF p # Parent THEN ChildCalls
    ELSE ParentCalls \cup (IF name = "2_5" THEN Searches \cup {StepBack} ELSE {})

(* Each process has calls of its kind ahead of it, and ends with an exit.  *)
Coded ==
    /\ DOMAIN code = Procs
    /\ \A p \in Procs : /\ code[p] \in Seq(CallsOf(program, p))
                        /\ run[p] # "none" => Whole(code[p])

-----------------------------------------------------------------------------
(* Who lives, and how he ended                                             *)

IsOver(p) == run[p] \in {"zombie", "reaped"}

(* A fork that is still to come makes a child that is not there yet.       *)
ForksOnce ==
    /\ \A k \in DOMAIN code[Parent] :
          code[Parent][k].op = "fork" => run[code[Parent][k].child] = "none"
    /\ \A j, k \in DOMAIN code[Parent] :
          (j # k /\ code[Parent][j].op = "fork" /\ code[Parent][k].op = "fork") =>
              code[Parent][j].child # code[Parent][k].child

Lives ==
    /\ run[Parent] \in {"running", "zombie"}
    /\ \A p \in Procs :
          /\ p \in killed => IsOver(p)
          /\ (IsOver(p) /\ p \in killed) => status[p] > 0 /\ status[p] < 128
          /\ (IsOver(p) /\ p \notin killed) => \E n \in Nat : status[p] = n * 256
    /\ \A c \in Children :
          /\ (Running(Parent) /\ run[c] = "reaped") => told[c] # "untold"
          /\ (~Running(Parent)) => run[c] # "zombie"
          /\ told[c] = "killed" => c \in killed
          /\ told[c] = "exited" => c \notin killed

(* The alarm that reaches T_END is followed by exit.                       *)
Counted == (Running(Parent) /\ Now(Parent).op # "exit") => counter < T_END

-----------------------------------------------------------------------------
(* The programs that wait                                                  *)

Escapes == {s \in Exits : s # <<>> => Bad(s[1].status)}

Careful(call) ==
    /\ "fail" \in DOMAIN call => call.fail \in Escapes
    /\ "none" \in DOMAIN call => call.none \in Escapes
    /\ "refused" \in DOMAIN call => call.refused \in Escapes
    /\ call.op = "test" => call.body = <<>>
    /\ call.op \notin {"exec", "if", "search", "count", "poll"}

Escaping == Now(Parent).op = "exit" /\ Bad(Now(Parent).status)

(* All exits but the last are bad, and no fork comes after a wait.         *)
Patient(s) ==
    /\ \A k \in DOMAIN s : Careful(s[k])
    /\ \A k \in DOMAIN s : (k # Len(s) /\ s[k].op = "exit") => Bad(s[k].status)
    /\ \A j, k \in DOMAIN s :
          (j < k /\ s[j].op \in {"wait", "poll_while"}) => s[k].op # "fork"

(* The children that are to be waited for.                                 *)
Forked(s) == {s[k].child : k \in {j \in DOMAIN s : s[j].op = "fork"}}
Due == {c \in Children : run[c] \in {"running", "zombie"}} \cup Forked(code[Parent])

WaitsAt(s, k, c) == k \in DOMAIN s /\ s[k].op = "wait" /\ c \in s[k].who

(* Each child of D has a wait of its own in s.                             *)
OwnWaits(s, D) ==
    /\ \A c \in D : \E k \in DOMAIN s : WaitsAt(s, k, c)
    /\ {C1, C2} \subseteq D =>
          \E j, k \in DOMAIN s : j # k /\ WaitsAt(s, j, C1) /\ WaitsAt(s, k, C2)
    /\ \A j, k \in DOMAIN s :
          (WaitsAt(s, j, C1) /\ WaitsAt(s, j, C2) /\ s[k].op = "wait") =>
              WaitsAt(s, k, C1) /\ WaitsAt(s, k, C2)
    /\ \A k \in DOMAIN s : s[k].op # "poll_while"

(* A loop of s counts the children of D.                                   *)
Polls(s, D) ==
    /\ D # {} => \E k \in DOMAIN s :
                    /\ s[k].op = "poll_while"
                    /\ s[k].count >= 1
                    /\ {C1, C2} \subseteq D => s[k].count >= 2
    /\ \A k \in DOMAIN s : s[k].op # "wait"

Collects == \A c \in Children : run[c] # "none" => told[c] # "untold"

Covered ==
    program \in Waiting =>
        IF Running(Parent)
        THEN /\ Patient(code[Parent])
             /\ Escaping \/ OwnWaits(code[Parent], Due) \/ Polls(code[Parent], Due)
        ELSE Succeeded(Parent) => Collects

-----------------------------------------------------------------------------
(* Where a program is, and how 2_5 gets there                              *)

(* What is left of s from its k-th call.                                   *)
Left(s, k) == SubSeq(s, k, Len(s))
AtCall(k) == code[Parent] = Left(Main(program), k)

(* A program without children that is at one of the places, until it is    *)
(* done.                                                                   *)
Alone(places, done) ==
    /\ \A c \in Children : run[c] = "none"
    /\ Running(Parent) => Escaping \/ places
    /\ Succeeded(Parent) => done

(* As long as its buffer has room, the search knows how much of the target *)
(* stands in what it has read.                                             *)
Unfound(k) == \A i \in 0 .. k : i <= SIZE_BUF_READ => ~Stand(3, i)
FindsAt(k) == \A i \in DOMAIN original : (FoundAt(i) /\ i <= SIZE_BUF_READ) => i = k
MayFind == Len(original) <= SIZE_BUF_READ => Stand(3, Len(original))

SearchesAt(n) ==
    /\ file = original
    /\ code[Parent] = <<Searching(n)>> \o Left(Main_2_5, 3)
    /\ n <= offset /\ offset <= Len(original) /\ Len(buffer) = offset
    /\ offset <= SIZE_BUF_READ => Stand(n, offset) /\ ~Stand(n + 1, offset)
    /\ Unfound(offset)

StepsBack ==
    /\ file = original
    /\ code[Parent] = Replace \o Left(Main_2_5, 3)
    /\ Len(STRING_TARGET) <= offset
    /\ FindsAt(offset) /\ MayFind

Rewrites ==
    /\ file = original
    /\ code[Parent] = Left(Replace, 2) \o Left(Main_2_5, 3)
    /\ FindsAt(offset + Len(STRING_TARGET)) /\ MayFind

Replaces ==
    Alone(\/ AtCall(1) /\ file = original /\ buffer = <<>>
          \/ \E n \in 0 .. 2 : SearchesAt(n)
          \/ StepsBack
          \/ Rewrites
          \/ AtCall(3) /\ LetterReplaced,
          LetterReplaced)

-----------------------------------------------------------------------------
(* Sequences of calls                                                      *)

(* What GoOn makes of the calls ahead.                                     *)
LEMMA Splice ==
    ASSUME NEW S, NEW s \in Seq(S), NEW first \in Seq(S), s # <<>>
    PROVE  /\ first \o Tail(s) \in Seq(S)
           /\ Len(first \o Tail(s)) = Len(first) + Len(s) - 1
           /\ \A k \in 1 .. Len(first) : (first \o Tail(s))[k] = first[k]
           /\ \A k \in Len(first) + 1 .. Len(first) + Len(s) - 1 :
                 (first \o Tail(s))[k] = s[k - Len(first) + 1]
<1>1. Tail(s) \in Seq(S) /\ Len(Tail(s)) = Len(s) - 1
  OBVIOUS
<1>2. \A k \in 1 .. Len(s) - 1 : Tail(s)[k] = s[k + 1]
  OBVIOUS
<1>. QED
  BY <1>1, <1>2

LEMMA StaysWhole ==
    ASSUME NEW S, NEW s \in Seq(S), NEW first \in Seq(S), Whole(s), Head(s).op # "exit"
    PROVE  Whole(first \o Tail(s))
<1>1. Head(s) = s[1] /\ Len(s) \in Nat /\ Len(s) # 0 /\ Len(first) \in Nat
  BY DEF Whole
<1>2. Len(s) > 1
  BY <1>1 DEF Whole
<1>3. (first \o Tail(s))[Len(first) + Len(s) - 1] = s[Len(s)]
  BY <1>1, <1>2, Splice DEF Whole
<1>. QED
  BY <1>1, <1>2, <1>3, Splice DEF Whole

LEMMA MoreCalls ==
    ASSUME NEW M, NEW N, M \subseteq N
    PROVE  SharedCalls(M) \subseteq SharedCalls(N)
BY DEF SharedCalls

LEMMA MoreSequences ==
    ASSUME NEW M, NEW N, M \subseteq N
    PROVE  Seq(M) \subseteq Seq(N)
OBVIOUS

LEMMA NestedTyped ==
    /\ Exits \subseteq ChildNested /\ Exits \subseteq Nested /\ ChildNested \subseteq Nested
    /\ ChildCalls \subseteq ParentCalls
    /\ ChildNested \subseteq Seq(ChildCalls)
    /\ Nested \subseteq Seq(ParentCalls)
    /\ \A name : ParentCalls \subseteq CallsOf(name, Parent)
<1>1. Exits \subseteq ChildNested
  <2>1. [op : {"exit"}, status : Int] \subseteq SharedCalls(Exits)
    BY DEF SharedCalls
  <2>2. Seq([op : {"exit"}, status : Int]) \subseteq ChildNested
    BY <2>1, MoreSequences DEF ChildNested
  <2>. QED
    BY <2>2 DEF Exits
<1>2. ChildNested \subseteq Nested
  BY DEF ChildNested, Nested
<1>3. Exits \subseteq Nested
  BY <1>1, <1>2
<1>4. /\ SharedCalls(Exits) \subseteq SharedCalls(ChildNested)
      /\ SharedCalls(Exits) \subseteq SharedCalls(Nested)
      /\ SharedCalls(ChildNested) \subseteq SharedCalls(Nested)
  BY <1>1, <1>2, <1>3, MoreCalls
<1>5. ChildNested \subseteq Seq(ChildCalls)
  BY <1>4 DEF ChildNested, ChildCalls
<1>6. SharedCalls(Exits) \cup Counts \subseteq ParentCalls
  BY <1>4 DEF ParentCalls
<1>7. Nested \subseteq Seq(ParentCalls)
  BY <1>6 DEF Nested
<1>8. ChildCalls \subseteq ParentCalls
  BY <1>4 DEF ParentCalls, ChildCalls
<1>. QED
  BY <1>1, <1>2, <1>3, <1>5, <1>7, <1>8 DEF CallsOf

(* What a process may put before the rest; no fork is among that.          *)
Inserts(name, p) ==
    {s \in Seq(CallsOf(name, p)) : \A k \in DOMAIN s : s[k].op # "fork"}

(* What is in a call.                                                      *)
Fields(name, p, c) ==
    LET More == Inserts(name, p)
    IN /\ "fail" \in DOMAIN c => c.fail \in More /\ c.op \notin {"exit", "wait", "poll_while"}
       /\ "none" \in DOMAIN c <=> c.op \in {"wait", "poll", "poll_while"}
       /\ "refused" \in DOMAIN c <=> c.op = "kill"
       /\ c.op = "exit" => c.status \in Int
       /\ c.op = "fork" => p = Parent /\ c.child \in Children /\ c.program \in ChildCode
       /\ c.op = "exec" => c.program \in More /\ Whole(c.program)
       /\ c.op \in {"wait", "poll"} => c.none \in More /\ c.who \subseteq Children
       /\ c.op = "wait" => c.says \in {"unsaid", "range", "WIFEXITED"}
       /\ c.op = "poll" => c.says = "unsaid"
       /\ c.op = "poll_while" => c.none \in More /\ c.count \in Nat
       /\ c.op = "block" => c.signals \subseteq Signals
       /\ c.op \in {"handle", "ignore", "if", "kill"} => c.signal \in Signals
       /\ c.op = "kill" => c.to \in Procs /\ c.refused \in More
       /\ c.op = "test" => c.body \in More
       /\ c.op = "if" => c.then \in More
       /\ c.op = "count" => p = Parent /\ c.end = T_END
       /\ c.op \in {"write", "read", "read_file"} => c.bytes \in Nat
       /\ c.op = "write" => c.fail \in More
       /\ c.op = "write_file" => c.text \in Seq(Bytes) /\ c.again \in BOOLEAN
       /\ c.op = "lseek" => p = Parent /\ c.from \in {"SET", "CUR", "END"}
       /\ (c.op = "lseek" /\ c.by \notin Nat) => name = "2_5" /\ c = StepBack
       /\ c.op = "search" => p = Parent /\ name = "2_5" /\ c \in Searches

LEMMA FieldsOfCalls ==
    ASSUME NEW name, NEW p \in Procs, NEW c \in CallsOf(name, p)
    PROVE  Fields(name, p, c)
<1> DEFINE N == IF p = Parent THEN Nested ELSE ChildNested
           More == Inserts(name, p)
<1>1. N \subseteq More /\ {<<>>} \subseteq N
  <2>1. \A c1 \in SharedCalls(Exits) \cup Counts : c1.op # "fork"
    BY DEF SharedCalls, Counts
  <2>2. \A s \in N : \A k \in DOMAIN s : s[k].op # "fork"
    BY <2>1 DEF Nested, ChildNested
  <2>3. N \subseteq Seq(CallsOf(name, p)) /\ {<<>>} \subseteq N
    BY NestedTyped DEF CallsOf, Nested, ChildNested
  <2>. QED
    BY <2>2, <2>3 DEF Inserts
<1>. HIDE DEF N, More
<1>2. CASE c \in SharedCalls(N)
  BY <1>1, <1>2 DEF SharedCalls, Fields, More
<1>3. CASE p = Parent /\ c \in Counts \cup Seeks \cup Waits(N)
  BY <1>1, <1>3 DEF Counts, Seeks, Waits, Fields, More
<1>4. CASE p = Parent /\ c \in Forks(ChildCode, N)
  BY <1>1, <1>4 DEF Forks, Fields, More
<1>5. CASE p = Parent /\ name = "2_5" /\ c = StepBack
  BY <1>5 DEF StepBack, LSeek, Fields
<1>6. CASE p = Parent /\ name = "2_5" /\ c \in Searches
  <2>1. <<Exit(-3)>> \in More
    <3>1. <<Exit(-3)>> \in Exits
      BY DEF Exits, Exit
    <3>. QED
      BY <1>1, <1>6, <3>1, NestedTyped DEF N
  <2>. QED
    <3>1. PICK n \in 0 .. 2 : c = Searching(n)
      BY <1>6 DEF Searches
    <3>2. /\ c.op = "search" /\ c.fail = <<Exit(-3)>>
          /\ "none" \notin DOMAIN c /\ "refused" \notin DOMAIN c
      BY <3>1 DEF Searching, Search
    <3>. QED
      BY <1>6, <2>1, <3>2 DEF Fields, More
<1>. QED
  BY <1>2, <1>3, <1>4, <1>5, <1>6 DEF CallsOf, ChildCalls, ParentCalls, N

-----------------------------------------------------------------------------
(* One step                                                                *)

(* The parts of TypeOK.                                                    *)
LivesTyped ==
    /\ program \in Names
    /\ run \in [Procs -> {"none", "running", "zombie", "reaped"}]
    /\ status \in [Procs -> Statuses]
    /\ killed \subseteq Procs
    /\ told \in [Children -> {"untold", "unsaid", "exited", "killed"}]
    /\ \A c \in Children : told[c] # "untold" => run[c] = "reaped"
SignalsTyped ==
    /\ mask \in [Procs -> SUBSET Signals] /\ handled \in [Procs -> SUBSET Signals]
    /\ ignored \in [Procs -> SUBSET Signals]
    /\ pending \in [Procs -> SUBSET Signals] /\ caught \in [Procs -> SUBSET Signals]
TimersTyped == timer \in [Procs -> BOOLEAN] /\ \A p \in Procs : ~Running(p) => ~timer[p]
CounterTyped == counter \in 0 .. T_END
PipeTyped ==
    /\ ends \in [Procs -> SUBSET {"read", "write"}]
    /\ \A p \in Procs : ~Running(p) => ends[p] = {}
    /\ pipe \in Nat /\ got \in Nat /\ got + pipe = written
FileTyped ==
    /\ file \in Seq(Bytes) /\ buffer \in Seq(Bytes)
    /\ offset \in Nat /\ torn \in BOOLEAN
FaultsTyped == faults \in 0 .. MaxFaults

Base ==
    /\ LivesTyped /\ SignalsTyped /\ TimersTyped /\ CounterTyped /\ PipeTyped /\ FileTyped
    /\ FaultsTyped
    /\ Coded /\ ForksOnce /\ Lives /\ Counted

LEMMA BaseIsTyped ==
    ASSUME Base
    PROVE  TypeOK
<1>1. \A p \in Procs : Running(p) => code[p] # <<>>
  BY DEF Base, Coded, Whole, Running
<1>2. {mask, handled, ignored, pending, caught} \subseteq [Procs -> SUBSET Signals]
  BY DEF Base, SignalsTyped
<1>3. \A text \in {file, buffer} : text \in Seq(Bytes)
  BY DEF Base, FileTyped
<1>4. \A p \in Procs : ~Running(p) => ends[p] = {} /\ ~timer[p]
  BY DEF Base, PipeTyped, TimersTyped
<1>. QED
  BY <1>1, <1>2, <1>3, <1>4
  DEF Base, TypeOK, LivesTyped, TimersTyped, CounterTyped, PipeTyped, FileTyped, FaultsTyped

(* The bounds of Statuses are too large for the provers to list.           *)
LEMMA InStatuses ==
    /\ Statuses \subseteq Int
    /\ \A n \in Int : (0 <= n /\ n <= 65535) => n \in Statuses
<1> DEFINE last == 65535
<1>1. last \in Int /\ \A n \in Int : n <= 65535 => n <= last
  OBVIOUS
<1>2. Statuses = 0 .. last
  BY DEF Statuses
<1>. HIDE DEF last
<1>3. ASSUME NEW n \in Int, 0 <= n, n <= last
      PROVE  n \in Statuses
  BY <1>1, <1>2, <1>3
<1>4. Statuses \subseteq Int
  BY <1>1, <1>2
<1>. QED
  BY <1>1, <1>3, <1>4

LEMMA StatusesAreIntegers ==
    ASSUME NEW n \in Statuses
    PROVE  n \in Int
BY InStatuses

LEMMA NowTyped ==
    ASSUME Base, NEW p \in Procs, Running(p)
    PROVE  /\ code[p] \in Seq(CallsOf(program, p)) /\ code[p] # <<>>
           /\ Whole(code[p])
           /\ Now(p) = code[p][1] /\ Now(p) \in CallsOf(program, p)
           /\ Fields(program, p, Now(p))
<1>1. code[p] \in Seq(CallsOf(program, p)) /\ Whole(code[p])
  BY DEF Base, Coded, Running
<1>2. Now(p) = code[p][1] /\ Now(p) \in CallsOf(program, p)
  BY <1>1 DEF Now, Whole
<1>. QED
  BY <1>1, <1>2, FieldsOfCalls DEF Whole

LEMMA ForksTyped ==
    ASSUME Coded, NEW k \in DOMAIN code[Parent], code[Parent][k].op = "fork"
    PROVE  code[Parent][k].child \in Children /\ code[Parent][k].child \in Procs
<1>1. code[Parent][k] \in CallsOf(program, Parent) /\ Parent \in Procs
  BY DEF Coded, Procs
<1>2. Fields(program, Parent, code[Parent][k])
  BY <1>1, FieldsOfCalls
<1>. QED
  BY <1>2 DEF Fields, Procs

(* A step that puts something before the rest makes no process.            *)
LEMMA GoOnStep ==
    ASSUME Base, UNCHANGED program,
           NEW p \in Procs, Running(p), Now(p).op # "exit",
           NEW first \in Inserts(program, p), GoOn(p, first),
           \A q \in Procs : run'[q] = "none" <=> run[q] = "none"
    PROVE  Coded' /\ ForksOnce'
<1> DEFINE s == code[p]
           t == first \o Tail(s)
<1>1. /\ s \in Seq(CallsOf(program, p)) /\ s # <<>> /\ Whole(s)
      /\ Head(s) = Now(p) /\ s[1] = Now(p)
  BY NowTyped DEF Now
<1>2. first \in Seq(CallsOf(program, p)) /\ \A k \in DOMAIN first : first[k].op # "fork"
  BY DEF Inserts
<1>3. /\ code'[p] = t /\ \A q \in Procs : q # p => code'[q] = code[q]
      /\ DOMAIN code' = Procs
  BY DEF Base, Coded, GoOn
<1>. HIDE DEF s
<1>4. t \in Seq(CallsOf(program, p)) /\ Whole(t)
  BY <1>1, <1>2, Splice, StaysWhole
<1>5. \A k \in DOMAIN t : t[k].op = "fork" =>
         k > Len(first) /\ k - Len(first) + 1 \in DOMAIN s /\ t[k] = s[k - Len(first) + 1]
  BY <1>1, <1>2, Splice
<1>. HIDE DEF t
<1>6. Coded'
  BY <1>3, <1>4 DEF Base, Coded
<1>7. ForksOnce'
  <2>. DEFINE old == code[Parent]
              new == code'[Parent]
  <2>1. \A k \in DOMAIN new : new[k].op = "fork" =>
            \E i \in DOMAIN old : /\ new[k] = old[i]
                                  /\ i = IF p = Parent THEN k - Len(first) + 1 ELSE k
    BY <1>3, <1>5 DEF s, Procs
  <2>2. \A i \in DOMAIN old : old[i].op = "fork" =>
            old[i].child \in Procs /\ run[old[i].child] = "none"
    BY ForksTyped DEF Base, ForksOnce
  <2>3. \A i, j \in DOMAIN old :
            (i # j /\ old[i].op = "fork" /\ old[j].op = "fork") => old[i].child # old[j].child
    BY DEF Base, ForksOnce
  <2>4. Len(first) \in Nat /\ DOMAIN new \subseteq Int
    BY <1>2, <1>3, <1>4 DEF Base, Coded, Procs
  <2>. HIDE DEF old, new
  <2>5. \A k \in DOMAIN new : new[k].op = "fork" => run'[new[k].child] = "none"
    BY <2>1, <2>2
  <2>6. \A k, l \in DOMAIN new :
            (k # l /\ new[k].op = "fork" /\ new[l].op = "fork") => new[k].child # new[l].child
    BY <2>1, <2>3, <2>4
  <2>. QED
    BY <2>5, <2>6 DEF ForksOnce, new
<1>. QED
  BY <1>6, <1>7

(* The sequences that the calls put before the rest.                       *)
LEMMA Inserted ==
    ASSUME NEW name, NEW p \in Procs
    PROVE  /\ <<>> \in Inserts(name, p)
           /\ <<Exit(0)>> \in Inserts(name, p)
           /\ SigSuspend \in CallsOf(name, p)
           /\ \A c \in CallsOf(name, p) : c.op # "fork" => <<c>> \in Inserts(name, p)
           /\ \A f, g \in Inserts(name, p) : f \o g \in Inserts(name, p)
<1>1. <<>> \in Inserts(name, p)
  BY DEF Inserts
<1>2. Exit(0) \in CallsOf(name, p) /\ SigSuspend \in CallsOf(name, p)
  BY DEF CallsOf, ChildCalls, ParentCalls, SharedCalls, Exit, SigSuspend
<1>3. ASSUME NEW c \in CallsOf(name, p), c.op # "fork"
      PROVE  <<c>> \in Inserts(name, p)
  BY <1>3 DEF Inserts
<1>4. <<Exit(0)>> \in Inserts(name, p)
  BY <1>2, <1>3 DEF Exit
<1>5. ASSUME NEW f \in Inserts(name, p), NEW g \in Inserts(name, p)
      PROVE  f \o g \in Inserts(name, p)
  <2>1. f \in Seq(CallsOf(name, p)) /\ g \in Seq(CallsOf(name, p))
    BY DEF Inserts
  <2>2. /\ f \o g \in Seq(CallsOf(name, p))
        /\ \A k \in DOMAIN (f \o g) :
              \/ k \in DOMAIN f /\ (f \o g)[k] = f[k]
              \/ k - Len(f) \in DOMAIN g /\ (f \o g)[k] = g[k - Len(f)]
    BY <2>1
  <2>. QED
    BY <2>2 DEF Inserts
<1>. QED
  BY <1>1, <1>2, <1>3, <1>4, <1>5

(* What becomes of a call that is put before the rest again.               *)
LEMMA Variants ==
    ASSUME NEW name, NEW p \in Procs, NEW c \in CallsOf(name, p)
    PROVE  /\ c.op = "poll_while" =>
                  \A n \in Nat : WaitNoHangWhile(n, c.none) \in CallsOf(name, p)
           /\ c.op = "write_file" =>
                  \A text \in Seq(Bytes) : [c EXCEPT !.text = text] \in CallsOf(name, p)
           /\ c.op = "search" =>
                  \A n \in 0 .. 2 : [c EXCEPT !.found = n] \in CallsOf(name, p)
<1>1. ASSUME c.op = "poll_while", NEW n \in Nat
      PROVE  WaitNoHangWhile(n, c.none) \in CallsOf(name, p)
  <2>1. p = Parent /\ c \in [op : {"poll_while"}, count : Nat, none : Nested]
    BY <1>1 DEF CallsOf, ChildCalls, ParentCalls, SharedCalls, Waits, Counts, Seeks, Forks,
                Searches, Searching, Search, StepBack, LSeek
  <2>2. WaitNoHangWhile(n, c.none) \in Waits(Nested)
    BY <2>1 DEF WaitNoHangWhile, Waits
  <2>. QED
    BY <2>1, <2>2 DEF CallsOf, ParentCalls
<1>2. ASSUME c.op = "write_file", NEW text \in Seq(Bytes)
      PROVE  [c EXCEPT !.text = text] \in CallsOf(name, p)
  <2>. DEFINE N == IF p = Parent THEN Nested ELSE ChildNested
              W == [op : {"write_file"}, text : Seq(Bytes), append : BOOLEAN, again : BOOLEAN,
                    fail : N]
  <2>1. c \in W
    BY <1>2 DEF CallsOf, ChildCalls, ParentCalls, SharedCalls, Waits, Counts, Seeks, Forks,
                Searches, Searching, Search, StepBack, LSeek
  <2>2. W \subseteq SharedCalls(N)
    BY DEF SharedCalls
  <2>3. [c EXCEPT !.text = text] \in W
    BY <2>1
  <2>. QED
    BY <2>2, <2>3 DEF CallsOf, ChildCalls, ParentCalls
<1>3. ASSUME c.op = "search", NEW n \in 0 .. 2
      PROVE  [c EXCEPT !.found = n] \in CallsOf(name, p)
  <2>1. p = Parent /\ name = "2_5" /\ c \in Searches
    BY <1>3, FieldsOfCalls DEF Fields
  <2>2. [c EXCEPT !.found = n] = Searching(n)
    BY <2>1 DEF Searches, Searching, Search
  <2>. QED
    BY <2>1, <2>2 DEF CallsOf, Searches
<1>. QED
  BY <1>1, <1>2, <1>3

(* A step that changes nobody's life.                                      *)
LEMMA QuietStep ==
    ASSUME Base, UNCHANGED <<program, life, counter>>,
           NEW p \in Procs, Running(p), Now(p).op # "exit",
           NEW first \in Inserts(program, p), GoOn(p, first)
    PROVE  Coded' /\ ForksOnce' /\ Lives' /\ Counted'
<1>1. Coded' /\ ForksOnce'
  BY GoOnStep DEF life
<1>2. Lives'
  BY DEF Base, Lives, life, Running, IsOver
<1>3. Counted'
  <2>1. CASE p = Parent
    BY <2>1 DEF Base, Counted, Running, life
  <2>2. CASE p # Parent
    <3>1. code'[Parent] = code[Parent]
      BY <2>2 DEF GoOn, Base, Coded, Procs
    <3>. QED
      BY <3>1 DEF Base, Counted, Running, Now, life
  <2>. QED
    BY <2>1, <2>2
<1>. QED
  BY <1>1, <1>2, <1>3

(* What a step leaves alone keeps its type.                                *)
LEMMA Frame ==
    ASSUME Base, UNCHANGED program
    PROVE  /\ UNCHANGED life => LivesTyped'
           /\ UNCHANGED <<dispositions, pending, caught>> => SignalsTyped'
           /\ UNCHANGED <<run, timer>> => TimersTyped'
           /\ UNCHANGED counter => CounterTyped'
           /\ UNCHANGED <<run, ends, pipe, got, written>> => PipeTyped'
           /\ UNCHANGED disk => FileTyped'
           /\ UNCHANGED faults => FaultsTyped'
<1>1. UNCHANGED life => LivesTyped'
  BY DEF Base, LivesTyped, life
<1>2. UNCHANGED <<dispositions, pending, caught>> => SignalsTyped'
  BY DEF Base, SignalsTyped, dispositions
<1>3. UNCHANGED <<run, timer>> => TimersTyped'
  BY DEF Base, TimersTyped, Running
<1>4. UNCHANGED <<run, ends, pipe, got, written>> => PipeTyped'
  BY DEF Base, PipeTyped, Running
<1>5. /\ UNCHANGED counter => CounterTyped'
      /\ UNCHANGED disk => FileTyped'
      /\ UNCHANGED faults => FaultsTyped'
  BY DEF Base, CounterTyped, FileTyped, FaultsTyped, disk
<1>. QED
  BY <1>1, <1>2, <1>3, <1>4, <1>5

LEMMA DoBlockStep ==
    ASSUME Base, UNCHANGED <<program, original>>, NEW p \in Procs, DoBlock(p)
    PROVE  Base'
<1> USE DEF DoBlock
<1>0. Running(p)
  BY DEF Calls
<1>1. <<>> \in Inserts(program, p)
  BY Inserted
<1>2. Coded' /\ ForksOnce' /\ Lives' /\ Counted'
  BY <1>0, <1>1, QuietStep DEF Calls, sigs
<1>3. /\ LivesTyped' /\ TimersTyped' /\ CounterTyped' /\ PipeTyped'
      /\ FileTyped' /\ FaultsTyped'
  BY Frame DEF life, dispositions, sigs, io, disk
<1>4. SignalsTyped'
  BY <1>0, NowTyped DEF Base, SignalsTyped, Calls, Fields, sigs
<1>. QED
  BY <1>2, <1>3, <1>4 DEF Base

LEMMA DoHandleStep ==
    ASSUME Base, UNCHANGED <<program, original>>, NEW p \in Procs, DoHandle(p)
    PROVE  Base'
<1> USE DEF DoHandle
<1>0. Running(p)
  BY DEF Calls
<1>1. <<>> \in Inserts(program, p)
  BY Inserted
<1>2. Coded' /\ ForksOnce' /\ Lives' /\ Counted'
  BY <1>0, <1>1, QuietStep DEF Calls, sigs
<1>3. /\ LivesTyped' /\ TimersTyped' /\ CounterTyped' /\ PipeTyped'
      /\ FileTyped' /\ FaultsTyped'
  BY Frame DEF life, dispositions, sigs, io, disk
<1>4. SignalsTyped'
  BY <1>0, NowTyped DEF Base, SignalsTyped, Calls, Fields, sigs
<1>. QED
  BY <1>2, <1>3, <1>4 DEF Base

LEMMA DoIgnoreStep ==
    ASSUME Base, UNCHANGED <<program, original>>, NEW p \in Procs, DoIgnore(p)
    PROVE  Base'
<1> USE DEF DoIgnore
<1>0. Running(p)
  BY DEF Calls
<1>1. <<>> \in Inserts(program, p)
  BY Inserted
<1>2. Coded' /\ ForksOnce' /\ Lives' /\ Counted'
  BY <1>0, <1>1, QuietStep DEF Calls, sigs
<1>3. /\ LivesTyped' /\ TimersTyped' /\ CounterTyped' /\ PipeTyped'
      /\ FileTyped' /\ FaultsTyped'
  BY Frame DEF life, dispositions, sigs, io, disk
<1>4. SignalsTyped'
  BY <1>0, NowTyped DEF Base, SignalsTyped, Calls, Fields, sigs
<1>. QED
  BY <1>2, <1>3, <1>4 DEF Base

LEMMA DoAlarmStep ==
    ASSUME Base, UNCHANGED <<program, original>>, NEW p \in Procs, DoAlarm(p)
    PROVE  Base'
<1> USE DEF DoAlarm
<1>0. Running(p)
  BY DEF Calls
<1>1. <<>> \in Inserts(program, p)
  BY Inserted
<1>2. Coded' /\ ForksOnce' /\ Lives' /\ Counted'
  BY <1>0, <1>1, QuietStep DEF Calls, sigs
<1>3. /\ LivesTyped' /\ SignalsTyped' /\ CounterTyped' /\ PipeTyped'
      /\ FileTyped' /\ FaultsTyped'
  BY Frame DEF life, dispositions, sigs, io, disk
<1>4. TimersTyped'
  BY <1>0 DEF Base, TimersTyped, Running, life
<1>. QED
  BY <1>2, <1>3, <1>4 DEF Base

LEMMA DoSuspendStep ==
    ASSUME Base, UNCHANGED <<program, original>>, NEW p \in Procs, DoSuspend(p)
    PROVE  Base'
<1> USE DEF DoSuspend
<1>0. Running(p)
  BY DEF Calls
<1>1. <<>> \in Inserts(program, p)
  BY Inserted
<1>2. Coded' /\ ForksOnce' /\ Lives' /\ Counted'
  BY <1>0, <1>1, QuietStep DEF Calls, sigs
<1>3. /\ LivesTyped' /\ TimersTyped' /\ CounterTyped' /\ PipeTyped'
      /\ FileTyped' /\ FaultsTyped'
  BY Frame DEF life, dispositions, sigs, io, disk
<1>4. SignalsTyped'
  BY DEF Base, SignalsTyped, dispositions
<1>. QED
  BY <1>2, <1>3, <1>4 DEF Base

LEMMA DoIfCaughtStep ==
    ASSUME Base, UNCHANGED <<program, original>>, NEW p \in Procs, DoIfCaught(p)
    PROVE  Base'
<1> USE DEF DoIfCaught
<1>0. Running(p)
  BY DEF Calls
<1>1. (IF Now(p).signal \in caught[p] THEN Now(p).then ELSE <<>>) \in Inserts(program, p)
  BY <1>0, NowTyped, Inserted DEF Calls, Fields
<1>2. Coded' /\ ForksOnce' /\ Lives' /\ Counted'
  BY <1>0, <1>1, QuietStep DEF Calls, sigs
<1>3. /\ LivesTyped' /\ TimersTyped' /\ CounterTyped' /\ PipeTyped'
      /\ FileTyped' /\ FaultsTyped'
  BY Frame DEF life, dispositions, sigs, io, disk
<1>4. SignalsTyped'
  BY DEF Base, SignalsTyped, dispositions
<1>. QED
  BY <1>2, <1>3, <1>4 DEF Base

LEMMA DoTestStep ==
    ASSUME Base, UNCHANGED <<program, original>>, NEW p \in Procs, DoTest(p)
    PROVE  Base'
<1> USE DEF DoTest
<1>0. Running(p)
  BY DEF Calls
<1>1. (IF Now(p).flags \cap caught[p] # {} THEN <<>>
     ELSE <<SigSuspend>> \o Now(p).body \o <<Now(p)>>) \in Inserts(program, p)
  <2>1. Now(p) \in CallsOf(program, p) /\ Now(p).op = "test"
    BY <1>0, NowTyped DEF Calls
  <2>2. Now(p).body \in Inserts(program, p)
    BY <1>0, <2>1, NowTyped DEF Fields
  <2>3. /\ <<SigSuspend>> \in Inserts(program, p)
        /\ <<Now(p)>> \in Inserts(program, p)
    BY <2>1, Inserted DEF SigSuspend
  <2>. QED
    BY <2>2, <2>3, Inserted
<1>2. Coded' /\ ForksOnce' /\ Lives' /\ Counted'
  BY <1>0, <1>1, QuietStep DEF Calls, sigs
<1>3. /\ LivesTyped' /\ SignalsTyped' /\ TimersTyped' /\ CounterTyped'
      /\ PipeTyped' /\ FileTyped' /\ FaultsTyped'
  BY Frame DEF life, dispositions, sigs, io, disk
<1>. QED
  BY <1>2, <1>3 DEF Base

LEMMA DoKillStep ==
    ASSUME Base, UNCHANGED <<program, original>>, NEW p \in Procs, DoKill(p)
    PROVE  Base'
<1> USE DEF DoKill
<1>0. Running(p)
  BY DEF Calls
<1>1. (IF run[Now(p).to] = "reaped" \/ (Now(p).to = Parent /\ ~Running(Now(p).to))
     THEN Now(p).refused ELSE <<>>) \in Inserts(program, p)
  BY <1>0, NowTyped, Inserted DEF Calls, Fields
<1>2. Coded' /\ ForksOnce' /\ Lives' /\ Counted'
  BY <1>0, <1>1, QuietStep DEF Calls, sigs
<1>3. /\ LivesTyped' /\ TimersTyped' /\ CounterTyped' /\ PipeTyped'
      /\ FileTyped' /\ FaultsTyped'
  BY Frame DEF life, dispositions, sigs, io, disk
<1>4. SignalsTyped'
  BY <1>0, NowTyped DEF Base, SignalsTyped, Calls, Fields, Arrives, dispositions
<1>. QED
  BY <1>2, <1>3, <1>4 DEF Base

LEMMA DoPipeStep ==
    ASSUME Base, UNCHANGED <<program, original>>, NEW p \in Procs, DoPipe(p)
    PROVE  Base'
<1> USE DEF DoPipe
<1>0. Running(p)
  BY DEF Calls
<1>1. <<>> \in Inserts(program, p)
  BY Inserted
<1>2. Coded' /\ ForksOnce' /\ Lives' /\ Counted'
  BY <1>0, <1>1, QuietStep DEF Calls, sigs
<1>3. /\ LivesTyped' /\ SignalsTyped' /\ TimersTyped' /\ CounterTyped'
      /\ FileTyped' /\ FaultsTyped'
  BY Frame DEF life, dispositions, sigs, io, disk
<1>4. PipeTyped'
  BY <1>0 DEF Base, PipeTyped, Running, life
<1>. QED
  BY <1>2, <1>3, <1>4 DEF Base

LEMMA DoCloseStep ==
    ASSUME Base, UNCHANGED <<program, original>>, NEW p \in Procs, DoClose(p)
    PROVE  Base'
<1> USE DEF DoClose
<1>0. Running(p)
  BY DEF Calls
<1>1. <<>> \in Inserts(program, p)
  BY Inserted
<1>2. Coded' /\ ForksOnce' /\ Lives' /\ Counted'
  BY <1>0, <1>1, QuietStep DEF Calls, sigs
<1>3. /\ LivesTyped' /\ SignalsTyped' /\ TimersTyped' /\ CounterTyped'
      /\ FileTyped' /\ FaultsTyped'
  BY Frame DEF life, dispositions, sigs, io, disk
<1>4. PipeTyped'
  BY <1>0 DEF Base, PipeTyped, Running, life
<1>. QED
  BY <1>2, <1>3, <1>4 DEF Base

LEMMA DoWriteStep ==
    ASSUME Base, UNCHANGED <<program, original>>, NEW p \in Procs, DoWrite(p)
    PROVE  Base'
<1> USE DEF DoWrite
<1>0. Running(p)
  BY DEF Calls
<1>1. <<>> \in Inserts(program, p)
  BY Inserted
<1>2. Coded' /\ ForksOnce' /\ Lives' /\ Counted'
  BY <1>0, <1>1, QuietStep DEF Calls, sigs
<1>3. /\ LivesTyped' /\ SignalsTyped' /\ TimersTyped' /\ CounterTyped'
      /\ FileTyped' /\ FaultsTyped'
  BY Frame DEF life, dispositions, sigs, io, disk
<1>4. PipeTyped'
  <2>1. Now(p).bytes \in Nat
    BY <1>0, NowTyped DEF Calls, Fields
  <2>. QED
    BY <1>0, <2>1 DEF Base, PipeTyped, Running, life
<1>. QED
  BY <1>2, <1>3, <1>4 DEF Base

LEMMA DoOpenFileStep ==
    ASSUME Base, UNCHANGED <<program, original>>, NEW p \in Procs, DoOpenFile(p)
    PROVE  Base'
<1> USE DEF DoOpenFile
<1>0. Running(p)
  BY DEF Calls
<1>1. <<>> \in Inserts(program, p)
  BY Inserted
<1>2. Coded' /\ ForksOnce' /\ Lives' /\ Counted'
  BY <1>0, <1>1, QuietStep DEF Calls, sigs
<1>3. /\ LivesTyped' /\ SignalsTyped' /\ TimersTyped' /\ CounterTyped'
      /\ PipeTyped' /\ FaultsTyped'
  BY Frame DEF life, dispositions, sigs, io, disk
<1>4. FileTyped'
  BY DEF Base, FileTyped
<1>. QED
  BY <1>2, <1>3, <1>4 DEF Base

LEMMA DoDupStep ==
    ASSUME Base, UNCHANGED <<program, original>>, NEW p \in Procs, DoDup(p)
    PROVE  Base'
<1> USE DEF DoDup
<1>0. Running(p)
  BY DEF Calls
<1>1. <<>> \in Inserts(program, p)
  BY Inserted
<1>2. Coded' /\ ForksOnce' /\ Lives' /\ Counted'
  BY <1>0, <1>1, QuietStep DEF Calls, sigs
<1>3. /\ LivesTyped' /\ SignalsTyped' /\ TimersTyped' /\ CounterTyped'
      /\ PipeTyped' /\ FileTyped' /\ FaultsTyped'
  BY Frame DEF life, dispositions, sigs, io, disk
<1>. QED
  BY <1>2, <1>3 DEF Base

-----------------------------------------------------------------------------
(* The length and the bytes of what write leaves in the file.              *)

LEMMA MinMax ==
    ASSUME NEW a \in Int, NEW b \in Int
    PROVE  /\ Min({a, b}) \in {a, b} /\ Min({a, b}) <= a /\ Min({a, b}) <= b
           /\ Max({a, b}) \in {a, b} /\ Max({a, b}) >= a /\ Max({a, b}) >= b
<1>1. CASE a <= b
  <2>1. \E x \in {a, b} : \A y \in {a, b} : x <= y
    BY <1>1
  <2>2. \E x \in {a, b} : \A y \in {a, b} : x >= y
    BY <1>1
  <2>. QED
    BY <2>1, <2>2 DEF Min, Max
<1>2. CASE b <= a
  <2>1. \E x \in {a, b} : \A y \in {a, b} : x <= y
    BY <1>2
  <2>2. \E x \in {a, b} : \A y \in {a, b} : x >= y
    BY <1>2
  <2>. QED
    BY <2>1, <2>2 DEF Min, Max
<1>. QED
  BY <1>1, <1>2

LEMMA FunctionIsSeq ==
    ASSUME NEW S, NEW n \in Nat, NEW f \in [1 .. n -> S]
    PROVE  f \in Seq(S) /\ Len(f) = n
OBVIOUS

(* How much read_file gets.                                                *)
LEMMA ReadSize ==
    ASSUME NEW bytes \in Nat, NEW size \in Nat, NEW at \in Nat
    PROVE  LET n == Min({bytes, Max({0, size - at})})
           IN /\ n \in Nat /\ n <= bytes
              /\ n = 0 \/ at + n <= size
              /\ (n = 0 /\ bytes > 0) => at >= size
              /\ (at <= size /\ size - at <= bytes) => n = size - at
<1> DEFINE left == Max({0, size - at})
<1>1. 0 \in Int /\ size - at \in Int
  OBVIOUS
<1>2. left \in {0, size - at} /\ left >= 0 /\ left >= size - at
  BY <1>1, MinMax
<1>. HIDE DEF left
<1>3. bytes \in Int /\ left \in Int
  BY <1>1, <1>2
<1>4. Min({bytes, left}) \in {bytes, left} /\ Min({bytes, left}) <= bytes /\ Min({bytes, left}) <= left
  BY <1>3, MinMax
<1>. QED
  BY <1>2, <1>3, <1>4 DEF left

LEMMA LettersTyped ==
    Zero \in Bytes /\ LETTER_NEW \in Bytes /\ Letters \subseteq Bytes
<1>1. 1 \in Nat
  OBVIOUS
<1>2. {"zero", "M", "R", "o", "h", "x"} \subseteq Texts
  BY DEF Texts
<1>. QED
  BY <1>1, <1>2 DEF Bytes, Zero, LETTER_NEW, Letter, Letters

LEMMA OverwriteTyped ==
    ASSUME file \in Seq(Bytes), NEW at \in Nat, NEW text \in Seq(Bytes)
    PROVE  /\ Overwrite(at, text) \in Seq(Bytes)
           /\ Len(Overwrite(at, text)) = Max({Len(file), at + Len(text)})
           /\ \A k \in 1 .. Len(Overwrite(at, text)) :
                 Overwrite(at, text)[k] =
                     IF k \in (at + 1) .. (at + Len(text)) THEN text[k - at]
                     ELSE IF k <= Len(file) THEN file[k] ELSE Zero
<1> DEFINE n == Max({Len(file), at + Len(text)})
<1>1. n \in Nat /\ n \in {Len(file), at + Len(text)} /\ n >= Len(file) /\ n >= at + Len(text)
  <2>1. Len(file) \in Int /\ at + Len(text) \in Int
    OBVIOUS
  <2>2. n \in {Len(file), at + Len(text)} /\ n >= Len(file) /\ n >= at + Len(text)
    BY <2>1, MinMax
  <2>. QED
    BY <2>2
<1>2. Zero \in Bytes
  BY LettersTyped
<1>. HIDE DEF n
<1>3. Overwrite(at, text) = [k \in 1 .. n |-> IF k \in (at + 1) .. (at + Len(text)) THEN text[k - at]
                                              ELSE IF k <= Len(file) THEN file[k] ELSE Zero]
  BY DEF Overwrite, n
<1>4. \A k \in 1 .. n : (IF k \in (at + 1) .. (at + Len(text)) THEN text[k - at]
                          ELSE IF k <= Len(file) THEN file[k] ELSE Zero) \in Bytes
  BY <1>1, <1>2
<1>5. Overwrite(at, text) \in [1 .. n -> Bytes]
  BY <1>3, <1>4
<1>6. Overwrite(at, text) \in Seq(Bytes) /\ Len(Overwrite(at, text)) = n
  BY <1>1, <1>5, FunctionIsSeq
<1>. QED
  BY <1>3, <1>6 DEF n

(* The bytes that a write may put, and where.                              *)
LEMMA PutBytesTyped ==
    ASSUME Base, NEW p \in Procs, Running(p), Now(p).op = "write_file",
           NEW n \in 0 .. Len(Now(p).text), PutBytes(p, n)
    PROVE  file' \in Seq(Bytes) /\ offset' \in Nat
<1>1. file \in Seq(Bytes) /\ offset \in Nat
  BY DEF Base, FileTyped
<1>2. Now(p).text \in Seq(Bytes)
  BY NowTyped DEF Fields
<1>3. SubSeq(Now(p).text, 1, n) \in Seq(Bytes)
  BY <1>2
<1> DEFINE at == IF Now(p).append THEN Len(file) ELSE offset
<1>4. at \in Nat
  BY <1>1
<1>5. n \in Nat
  BY <1>2
<1>. HIDE DEF at
<1>6. Overwrite(at, SubSeq(Now(p).text, 1, n)) \in Seq(Bytes)
  BY <1>1, <1>3, <1>4, OverwriteTyped
<1>. QED
  BY <1>4, <1>5, <1>6 DEF PutBytes, at

LEMMA DoWriteFileStep ==
    ASSUME Base, UNCHANGED <<program, original>>, NEW p \in Procs, DoWriteFile(p)
    PROVE  Base'
<1> USE DEF DoWriteFile
<1>0. Running(p)
  BY DEF Calls
<1>1. <<>> \in Inserts(program, p)
  BY Inserted
<1>2. Coded' /\ ForksOnce' /\ Lives' /\ Counted'
  BY <1>0, <1>1, QuietStep DEF Calls, PutBytes, sigs
<1>3. /\ LivesTyped' /\ SignalsTyped' /\ TimersTyped' /\ CounterTyped'
      /\ PipeTyped' /\ FaultsTyped'
  BY Frame DEF PutBytes, life, dispositions, sigs, io, disk
<1>4. FileTyped'
  <2>1. Len(Now(p).text) \in Nat /\ Now(p).op = "write_file"
    BY <1>0, NowTyped DEF Calls, Fields
  <2>2. file' \in Seq(Bytes) /\ offset' \in Nat
    BY <1>0, <2>1, PutBytesTyped
  <2>. QED
    BY <2>2 DEF Base, FileTyped, PutBytes
<1>. QED
  BY <1>2, <1>3, <1>4 DEF Base

LEMMA ShortWriteStep ==
    ASSUME Base, UNCHANGED <<program, original>>, NEW p \in Procs, ShortWrite(p)
    PROVE  Base'
<1>0. Running(p) /\ Now(p).op = "write_file"
  BY DEF ShortWrite, Calls
<1> DEFINE rest(n) == IF Now(p).again
                      THEN <<[Now(p) EXCEPT !.text = SubSeq(@, n + 1, Len(@))]>> ELSE <<>>
<1>1. PICK n \in 1 .. (Len(Now(p).text) - 1) : PutBytes(p, n) /\ GoOn(p, rest(n))
  BY DEF ShortWrite
<1>2. Now(p) \in CallsOf(program, p) /\ Now(p).text \in Seq(Bytes)
      /\ Now(p).again \in BOOLEAN
  BY <1>0, NowTyped DEF Fields
<1>3. rest(n) \in Inserts(program, p)
  <2>1. SubSeq(Now(p).text, n + 1, Len(Now(p).text)) \in Seq(Bytes)
    BY <1>2
  <2>2. [Now(p) EXCEPT !.text = SubSeq(@, n + 1, Len(@))] \in CallsOf(program, p)
    BY <1>0, <1>2, <2>1, Variants
  <2>3. [Now(p) EXCEPT !.text = SubSeq(@, n + 1, Len(@))].op = "write_file"
    BY <1>0
  <2>. QED
    BY <2>2, <2>3, Inserted
<1>. HIDE DEF rest
<1>4. Coded' /\ ForksOnce' /\ Lives' /\ Counted'
  BY <1>0, <1>1, <1>3, QuietStep DEF PutBytes, sigs
<1>5. /\ LivesTyped' /\ SignalsTyped' /\ TimersTyped' /\ CounterTyped'
      /\ PipeTyped'
  BY <1>1, Frame DEF PutBytes, life, dispositions, sigs
<1>6. FileTyped'
  <2>1. file' \in Seq(Bytes) /\ offset' \in Nat
    BY <1>0, <1>1, <1>2, PutBytesTyped
  <2>. QED
    BY <1>1, <1>2, <2>1 DEF Base, FileTyped, PutBytes, ShortWrite
<1>7. FaultsTyped'
  BY ProcessesAssumption DEF Base, FaultsTyped, ShortWrite
<1>. QED
  BY <1>4, <1>5, <1>6, <1>7 DEF Base

LEMMA DoReadStep ==
    ASSUME Base, UNCHANGED <<program, original>>, NEW p \in Procs, DoRead(p)
    PROVE  Base'
<1> USE DEF DoRead
<1>0. Running(p)
  BY DEF Calls
<1>1. (IF Min({Now(p).bytes, pipe}) > 0 /\ Now(p).again THEN <<Now(p)>> ELSE <<>>) \in Inserts(program, p)
  BY <1>0, NowTyped, Inserted DEF Calls
<1>2. Coded' /\ ForksOnce' /\ Lives' /\ Counted'
  BY <1>0, <1>1, QuietStep DEF Calls, sigs
<1>3. /\ LivesTyped' /\ SignalsTyped' /\ TimersTyped' /\ CounterTyped'
      /\ FileTyped' /\ FaultsTyped'
  BY Frame DEF life, dispositions, sigs, io, disk
<1>4. PipeTyped'
  <2>1. Now(p).bytes \in Nat
    BY <1>0, NowTyped DEF Calls, Fields
  <2>2. pipe \in Nat /\ Now(p).bytes \in Int /\ pipe \in Int
    BY <2>1 DEF Base, PipeTyped
  <2>3. Min({Now(p).bytes, pipe}) \in Nat /\ Min({Now(p).bytes, pipe}) <= pipe
    BY <2>1, <2>2, MinMax
  <2>. QED
    BY <2>2, <2>3 DEF Base, PipeTyped, Running, life
<1>. QED
  BY <1>2, <1>3, <1>4 DEF Base

LEMMA DoReadFileStep ==
    ASSUME Base, UNCHANGED <<program, original>>, NEW p \in Procs, DoReadFile(p)
    PROVE  Base'
<1> USE DEF DoReadFile
<1>0. Running(p)
  BY DEF Calls
<1>1. (IF Min({Now(p).bytes, Max({0, Len(file) - offset})}) > 0 /\ Now(p).again
     THEN <<Now(p)>> ELSE <<>>) \in Inserts(program, p)
  BY <1>0, NowTyped, Inserted DEF Calls
<1>2. Coded' /\ ForksOnce' /\ Lives' /\ Counted'
  BY <1>0, <1>1, QuietStep DEF Calls, sigs
<1>3. /\ LivesTyped' /\ SignalsTyped' /\ TimersTyped' /\ CounterTyped'
      /\ PipeTyped' /\ FaultsTyped'
  BY Frame DEF life, dispositions, sigs, io, disk
<1>4. FileTyped'
  <2> DEFINE n == Min({Now(p).bytes, Max({0, Len(file) - offset})})
  <2>1. Now(p).bytes \in Nat
    BY <1>0, NowTyped DEF Calls, Fields
  <2>2. file \in Seq(Bytes) /\ buffer \in Seq(Bytes) /\ offset \in Nat /\ torn \in BOOLEAN
    BY DEF Base, FileTyped
  <2>4. n \in Nat /\ (n = 0 \/ offset + n <= Len(file))
    <3>1. Len(file) \in Nat
      BY <2>2
    <3>. QED
      BY <2>1, <2>2, <3>1, ReadSize
  <2>. HIDE DEF n
  <2>5. SubSeq(file, offset + 1, offset + n) \in Seq(Bytes)
    BY <2>2, <2>4
  <2>6. PICK at \in Places(Now(p).room) :
           buffer' = SubSeq(buffer, 1, at) \o SubSeq(file, offset + 1, offset + n)
                        \o SubSeq(buffer, at + n + 1, Len(buffer))
    BY DEF n
  <2>7. buffer' \in Seq(Bytes)
    <3>1. at \in Nat /\ at <= Len(buffer) /\ Len(buffer) \in Nat
      BY <2>2 DEF Places
    <3>2. SubSeq(buffer, 1, at) \in Seq(Bytes)
      BY <2>2, <3>1
    <3>3. SubSeq(buffer, at + n + 1, Len(buffer)) \in Seq(Bytes)
      BY <2>2, <2>4, <3>1
    <3>. QED
      BY <2>5, <2>6, <3>2, <3>3, ConcatProperties
  <2>8. offset' = offset + n /\ offset + n \in Nat
    BY <2>2, <2>4 DEF n
  <2>. QED
    BY <2>2, <2>7, <2>8 DEF FileTyped
<1>. QED
  BY <1>2, <1>3, <1>4 DEF Base

-----------------------------------------------------------------------------
(* Ends, waits, forks                                                       *)

LEMMA DoLSeekStep ==
    ASSUME Base, UNCHANGED <<program, original>>, NEW p \in Procs, DoLSeek(p),
           Now(p) = StepBack => offset >= Len(STRING_TARGET)
    PROVE  Base'
<1> USE DEF DoLSeek
<1>0. Running(p)
  BY DEF Calls
<1>1. <<>> \in Inserts(program, p)
  BY Inserted
<1>2. Coded' /\ ForksOnce' /\ Lives' /\ Counted'
  BY <1>0, <1>1, QuietStep DEF Calls, sigs
<1>3. /\ LivesTyped' /\ SignalsTyped' /\ TimersTyped' /\ CounterTyped'
      /\ PipeTyped' /\ FaultsTyped'
  BY Frame DEF life, dispositions, sigs, io, disk
<1>4. FileTyped'
  <2>1. /\ Now(p).from \in {"SET", "CUR", "END"}
        /\ Now(p).by \notin Nat => Now(p) = StepBack
    BY <1>0, NowTyped DEF Calls, Fields
  <2>2. file \in Seq(Bytes) /\ Len(file) \in Nat /\ offset \in Nat
    BY DEF Base, FileTyped
  <2>3. Now(p) = StepBack => Now(p).by = -3 /\ Now(p).from = "CUR" /\ Len(STRING_TARGET) = 3
    BY DEF StepBack, LSeek, STRING_TARGET
  <2>4. offset' \in Nat
    <3>1. CASE Now(p).by \in Nat
      BY <2>1, <2>2, <3>1
    <3>2. CASE Now(p).by \notin Nat
      <4>1. offset >= 3 /\ Now(p).by = -3 /\ Now(p).from = "CUR"
        BY <2>1, <2>3, <3>2
      <4>2. offset' = -3 + offset
        BY <4>1
      <4>. QED
        BY <2>2, <4>1, <4>2
    <3>. QED
      BY <3>1, <3>2
  <2>. QED
    BY <2>4 DEF Base, FileTyped
<1>. QED
  BY <1>2, <1>3, <1>4 DEF Base

LEMMA DoSearchStep ==
    ASSUME Base, UNCHANGED <<program, original>>, NEW p \in Procs, DoSearch(p),
           offset <= Len(file)
    PROVE  Base'
<1> DEFINE call == Now(p)
           First(found) == IF offset = Len(file) THEN <<>>
                           ELSE IF found = Len(call.target) THEN call.then
                           ELSE <<[call EXCEPT !.found = found]>>
<1>0. Running(p) /\ call.op = "search"
  BY DEF DoSearch, Calls
<1>1. /\ call \in CallsOf(program, p)
      /\ \E n \in 0 .. 2 : call = Searching(n)
      /\ p = Parent /\ program = "2_5"
  BY <1>0, NowTyped DEF Fields, Searches
<1>2. /\ call.found \in 0 .. 2 /\ call.then = Replace /\ Len(call.target) = 3
      /\ DOMAIN call = {"op", "target", "found", "room", "then", "fail"}
  BY <1>1 DEF Searching, Search, STRING_TARGET
<1>3. PICK found \in {call.found, call.found + 1} : GoOn(p, First(found))
  BY DEF DoSearch
<1>4. First(found) \in Inserts(program, p)
  <2>1. Replace \in Inserts(program, p)
    <3>1. StepBack \in CallsOf(program, p)
      BY <1>1 DEF CallsOf
    <3>2. WriteFile(<<LETTER_NEW>>, <<Exit(-4)>>) \in CallsOf(program, p)
      <4>1. <<LETTER_NEW>> \in Seq(Bytes)
        BY LettersTyped
      <4>2. <<Exit(-4)>> \in Nested
        <5>1. <<Exit(-4)>> \in Exits
          BY DEF Exits, Exit
        <5>. QED
          BY <5>1, NestedTyped
      <4>3. WriteFile(<<LETTER_NEW>>, <<Exit(-4)>>) \in
               [op : {"write_file"}, text : Seq(Bytes), append : BOOLEAN, again : BOOLEAN,
                fail : Nested]
        BY <4>1, <4>2 DEF WriteFile
      <4>. QED
        BY <1>1, <4>3 DEF CallsOf, ParentCalls, SharedCalls
    <3>. QED
      BY <3>1, <3>2 DEF Replace, Inserts, StepBack, LSeek, WriteFile
  <2>2. ASSUME found # Len(call.target)
        PROVE  <<[call EXCEPT !.found = found]>> \in Inserts(program, p)
    <3>1. found \in 0 .. 2
      BY <1>2, <2>2
    <3>2. [call EXCEPT !.found = found] \in CallsOf(program, p)
      BY <1>0, <1>1, <3>1, Variants
    <3>3. [call EXCEPT !.found = found].op = "search"
      BY <1>0
    <3>. QED
      BY <3>2, <3>3, Inserted
  <2>. QED
    BY <1>2, <2>1, <2>2, Inserted
<1>. HIDE DEF First
<1>5. Coded' /\ ForksOnce' /\ Lives' /\ Counted'
  BY <1>0, <1>3, <1>4, QuietStep DEF DoSearch, sigs
<1>6. /\ LivesTyped' /\ SignalsTyped' /\ TimersTyped' /\ CounterTyped'
      /\ PipeTyped' /\ FaultsTyped'
  BY Frame DEF DoSearch, life, dispositions, sigs
<1>7. FileTyped'
  <2>1. file \in Seq(Bytes) /\ buffer \in Seq(Bytes) /\ offset \in Nat /\ torn \in BOOLEAN
    BY DEF Base, FileTyped
  <2>2. CASE offset = Len(file)
    BY <2>1, <2>2 DEF DoSearch, FileTyped
  <2>3. CASE offset # Len(file)
    <3>1. file[offset + 1] \in Bytes
      BY <2>1, <2>3
    <3>. QED
      BY <2>1, <2>3, <3>1 DEF DoSearch, FileTyped
  <2>. QED
    BY <2>2, <2>3
<1>. QED
  BY <1>5, <1>6, <1>7 DEF Base

LEMMA CallFailsStep ==
    ASSUME Base, UNCHANGED <<program, original>>, NEW p \in Procs, CallFails(p)
    PROVE  Base'
<1>0. Running(p)
  BY DEF CallFails
<1>1. Now(p).fail \in Inserts(program, p) /\ Now(p).op # "exit"
  BY NowTyped DEF CallFails, Fields
<1>2. Coded' /\ ForksOnce' /\ Lives' /\ Counted'
  BY <1>0, <1>1, QuietStep DEF CallFails, sigs
<1>3. /\ LivesTyped' /\ SignalsTyped' /\ TimersTyped' /\ CounterTyped'
      /\ PipeTyped' /\ FileTyped'
  BY Frame DEF CallFails, life, dispositions, sigs, io
<1>4. FaultsTyped'
  BY ProcessesAssumption DEF Base, FaultsTyped, CallFails
<1>. QED
  BY <1>2, <1>3, <1>4 DEF Base

(* The end of a process, by exit or by a signal.                           *)
LEMMA EndStep ==
    ASSUME Base, UNCHANGED <<program, original>>, FaultsTyped',
           NEW p \in Procs, Running(p), NEW st, NEW by, End(p, st, by),
           \/ by = {} /\ \E n \in Nat : n < 256 /\ st = n * 256
           \/ by = {p} /\ st \in Nat /\ st > 0 /\ st < 128
    PROVE  Base'
<1> USE DEF End
<1>0. /\ run \in [Procs -> {"none", "running", "zombie", "reaped"}] /\ run[p] = "running"
      /\ Parent \in Procs /\ Parent \notin Children /\ Children \subseteq Procs
  BY ProcessesAssumption DEF Base, LivesTyped, Running, Procs
<1>1. \A q \in Procs : /\ run'[q] = "none" <=> run[q] = "none"
                       /\ IsOver(q)' <=> (IsOver(q) \/ q = p)
                       /\ Running(q)' <=> (Running(q) /\ q # p)
  BY <1>0 DEF IsOver, Running
<1>2. p \notin killed /\ \A c \in Children : told[c] # "untold" => c # p
  BY <1>0 DEF Base, Lives, LivesTyped, IsOver
<1>3. LivesTyped'
  <2>1. st \in Statuses
    BY InStatuses
  <2>2. run' \in [Procs -> {"none", "running", "zombie", "reaped"}]
    BY <1>0
  <2>3. \A c \in Children : told[c] # "untold" => run'[c] = "reaped"
    BY <1>0, <1>2 DEF Base, LivesTyped
  <2>. QED
    BY <2>1, <2>2, <2>3 DEF Base, LivesTyped
<1>4. SignalsTyped'
  BY DEF Base, SignalsTyped, dispositions
<1>5. TimersTyped'
  BY <1>1 DEF Base, TimersTyped
<1>6. PipeTyped'
  BY <1>1 DEF Base, PipeTyped
<1>7. CounterTyped' /\ FileTyped'
  BY Frame
<1>8. Coded' /\ ForksOnce'
  <2>1. Coded'
    BY <1>1 DEF Base, Coded
  <2>2. ForksOnce'
    BY <1>1, ForksTyped DEF Base, ForksOnce
  <2>. QED
    BY <2>1, <2>2
<1>9. Lives'
  <2>1. run'[Parent] \in {"running", "zombie"}
    BY <1>0 DEF Base, Lives, Running
  <2>2. status' = [status EXCEPT ![p] = st] /\ status \in [Procs -> Statuses]
    BY DEF Base, LivesTyped
  <2>3. ASSUME NEW q \in Procs
        PROVE  /\ q \in killed' => IsOver(q)'
               /\ (IsOver(q)' /\ q \in killed') => status'[q] > 0 /\ status'[q] < 128
               /\ (IsOver(q)' /\ q \notin killed') => \E n \in Nat : status'[q] = n * 256
    <3>1. CASE q = p
      BY <1>1, <1>2, <2>2, <3>1
    <3>2. CASE q # p
      BY <1>1, <2>2, <3>2 DEF Base, Lives
    <3>. QED
      BY <3>1, <3>2
  <2>4. ASSUME NEW c \in Children
        PROVE  /\ (Running(Parent)' /\ run'[c] = "reaped") => told'[c] # "untold"
               /\ (~Running(Parent)') => run'[c] # "zombie"
    <3>1. c \in Procs /\ c # Parent
      BY <1>0
    <3>. QED
      BY <1>0, <1>1, <3>1 DEF Base, Lives, Running
  <2>5. ASSUME NEW c \in Children
        PROVE  /\ told'[c] = "killed" => c \in killed'
               /\ told'[c] = "exited" => c \notin killed'
    BY <1>2 DEF Base, Lives
  <2>. QED
    BY <2>1, <2>3, <2>4, <2>5 DEF Lives
<1>10. Counted'
  BY <1>0, <1>1 DEF Base, Counted, Now
<1>. QED
  BY <1>3, <1>4, <1>5, <1>6, <1>7, <1>8, <1>9, <1>10 DEF Base

LEMMA NumberTyped ==
    ASSUME NEW s \in Signals
    PROVE  Number[s] \in Nat /\ Number[s] > 0 /\ Number[s] < 128
BY DEF Signals, Number

LEMMA DoExitStep ==
    ASSUME Base, UNCHANGED <<program, original>>, NEW p \in Procs, DoExit(p)
    PROVE  Base'
<1>0. Running(p) /\ Now(p).op = "exit" /\ FaultsTyped'
  BY Frame DEF DoExit, Calls
<1>1. Now(p).status \in Int
  BY <1>0, NowTyped DEF Fields
<1>2. Now(p).status % 256 \in Nat /\ Now(p).status % 256 < 256
  BY <1>1
<1>. QED
  BY <1>0, <1>2, EndStep DEF DoExit, ExitStatus

LEMMA EndBySignalStep ==
    ASSUME Base, UNCHANGED <<program, original>>, FaultsTyped',
           NEW p \in Procs, Running(p), NEW s \in Signals, EndBySignal(p, s)
    PROVE  Base'
BY NumberTyped, EndStep DEF EndBySignal

LEMMA KilledStep ==
    ASSUME Base, UNCHANGED <<program, original>>, NEW p \in Procs, Killed(p)
    PROVE  Base'
<1>1. FaultsTyped'
  BY ProcessesAssumption DEF Base, FaultsTyped, Killed
<1>2. "KILL" \in Signals
  BY DEF Signals, Number
<1>. QED
  BY <1>1, <1>2, EndBySignalStep DEF Killed

LEMMA ClobberedStep ==
    ASSUME Base, UNCHANGED <<program, original>>, NEW p \in Procs, Clobbered(p)
    PROVE  Base'
<1>0. Running(p) /\ UNCHANGED faults /\ FaultsTyped'
  BY Frame DEF Clobbered
<1>1. CASE EndBySignal(p, "SEGV")
  BY <1>0, <1>1, EndBySignalStep DEF Signals, Number
<1>2. CASE /\ "fail" \in DOMAIN Now(p) /\ GoOn(p, Now(p).fail)
           /\ UNCHANGED <<life, dispositions, sigs, io>>
  <2>1. Now(p).fail \in Inserts(program, p) /\ Now(p).op # "exit"
    BY <1>0, <1>2, NowTyped DEF Fields
  <2>2. Coded' /\ ForksOnce' /\ Lives' /\ Counted'
    BY <1>0, <1>2, <2>1, QuietStep DEF sigs
  <2>3. /\ LivesTyped' /\ SignalsTyped' /\ TimersTyped' /\ CounterTyped'
        /\ PipeTyped' /\ FileTyped'
    BY <1>2, Frame DEF life, dispositions, sigs, io
  <2>. QED
    BY <1>0, <2>2, <2>3 DEF Base
<1>. QED
  BY <1>1, <1>2 DEF Clobbered

LEMMA BrokenPipeStep ==
    ASSUME Base, UNCHANGED <<program, original>>, NEW p \in Procs, BrokenPipe(p)
    PROVE  Base'
<1> USE DEF BrokenPipe
<1>0. Running(p) /\ Now(p).op = "write" /\ FaultsTyped'
  BY Frame DEF Calls
<1>1. CASE "PIPE" \in ignored[p]
  <2>1. Now(p).fail \in Inserts(program, p)
    BY <1>0, NowTyped DEF Fields
  <2>2. Coded' /\ ForksOnce' /\ Lives' /\ Counted'
    BY <1>0, <1>1, <2>1, QuietStep DEF sigs
  <2>3. /\ LivesTyped' /\ SignalsTyped' /\ TimersTyped' /\ CounterTyped'
        /\ PipeTyped' /\ FileTyped'
    BY <1>1, Frame DEF life, dispositions, sigs, io
  <2>. QED
    BY <1>0, <2>2, <2>3 DEF Base
<1>2. CASE "PIPE" \notin ignored[p]
  <2>1. "PIPE" \in Signals
    BY DEF Signals, Number
  <2>. QED
    BY <1>0, <1>2, <2>1, EndBySignalStep
<1>. QED
  BY <1>1, <1>2

(* A child is waited for.                                                *)
LEMMA VerdictIsTrue ==
    ASSUME Base, NEW c \in Children, run[c] = "zombie",
           NEW says \in {"unsaid", "range", "WIFEXITED"}
    PROVE  /\ Verdict(says, status[c]) \in {"unsaid", "exited", "killed"}
           /\ Verdict(says, status[c]) = "killed" => c \in killed
           /\ Verdict(says, status[c]) = "exited" => c \notin killed
<1>1. c \in Procs /\ IsOver(c)
  BY DEF Procs, IsOver
<1>2. CASE c \in killed
  <2>1. status[c] > 0 /\ status[c] < 128
    BY <1>1, <1>2 DEF Base, Lives
  <2>2. status[c] \in Int
    <3>1. status[c] \in Statuses
      BY <1>1 DEF Base, LivesTyped
    <3>. QED
      BY <3>1, StatusesAreIntegers
  <2>3. status[c] # 0 /\ status[c] < 256 /\ status[c] % 128 # 0
    BY <2>1, <2>2
  <2>. QED
    BY <1>2, <2>3 DEF Verdict
<1>3. CASE c \notin killed
  <2>1. PICK n \in Nat : status[c] = n * 256
    BY <1>1, <1>3 DEF Base, Lives
  <2>2. (status[c] = 0 \/ status[c] >= 256) /\ status[c] % 128 = 0
    BY <2>1
  <2>3. ~(status[c] # 0 /\ status[c] < 256)
    BY <2>1, <2>2
  <2>. QED
    BY <1>3, <2>2, <2>3 DEF Verdict
<1>. QED
  BY <1>2, <1>3

LEMMA ReapStep ==
    ASSUME Base, UNCHANGED <<program, original>>, Running(Parent), Now(Parent).op # "exit",
           NEW c \in Children, run[c] = "zombie",
           NEW says \in {"unsaid", "range", "WIFEXITED"}, Reap(c, says),
           NEW first \in Inserts(program, Parent), GoOn(Parent, first)
    PROVE  Base'
<1> USE DEF Reap
<1>0. /\ run \in [Procs -> {"none", "running", "zombie", "reaped"}]
      /\ told \in [Children -> {"untold", "unsaid", "exited", "killed"}]
      /\ Parent \in Procs /\ Parent \notin Children /\ Children \subseteq Procs
  BY ProcessesAssumption DEF Base, LivesTyped, Procs
<1>1. \A q \in Procs : /\ run'[q] = "none" <=> run[q] = "none"
                       /\ IsOver(q)' <=> IsOver(q)
                       /\ Running(q)' <=> Running(q)
  BY <1>0 DEF IsOver, Running
<1>2. Coded' /\ ForksOnce'
  BY <1>0, <1>1, GoOnStep
<1>3. LivesTyped'
  BY <1>0, VerdictIsTrue DEF Base, LivesTyped
<1>4. SignalsTyped' /\ CounterTyped' /\ FileTyped' /\ FaultsTyped'
  BY Frame DEF dispositions, sigs, io
<1>5. TimersTyped'
  BY <1>1 DEF Base, TimersTyped, sigs
<1>6. PipeTyped'
  BY <1>1 DEF Base, PipeTyped, io
<1>7. Lives'
  <2>1. run'[Parent] \in {"running", "zombie"}
    BY <1>0 DEF Base, Lives
  <2>2. ASSUME NEW q \in Procs
        PROVE  /\ q \in killed' => IsOver(q)'
               /\ (IsOver(q)' /\ q \in killed') => status'[q] > 0 /\ status'[q] < 128
               /\ (IsOver(q)' /\ q \notin killed') => \E n \in Nat : status'[q] = n * 256
    BY <1>1 DEF Base, Lives
  <2>3. ASSUME NEW d \in Children
        PROVE  /\ (Running(Parent)' /\ run'[d] = "reaped") => told'[d] # "untold"
               /\ (~Running(Parent)') => run'[d] # "zombie"
               /\ told'[d] = "killed" => d \in killed'
               /\ told'[d] = "exited" => d \notin killed'
    BY <1>0, <1>1, VerdictIsTrue DEF Base, Lives
  <2>. QED
    BY <2>1, <2>2, <2>3 DEF Lives
<1>8. Counted'
  BY <1>0, <1>1 DEF Base, Counted, sigs
<1>. QED
  BY <1>2, <1>3, <1>4, <1>5, <1>6, <1>7, <1>8 DEF Base

(* The wait fails, or WNOHANG finds nobody: nothing changes but what is    *)
(* ahead.                                                                  *)
LEMMA OnlyGoesOn ==
    ASSUME Base, UNCHANGED <<program, original, life, dispositions, sigs, io, faults>>,
           NEW p \in Procs, Running(p), Now(p).op # "exit",
           NEW first \in Inserts(program, p), GoOn(p, first)
    PROVE  Base'
<1>1. Coded' /\ ForksOnce' /\ Lives' /\ Counted'
  BY QuietStep DEF sigs
<1>2. /\ LivesTyped' /\ SignalsTyped' /\ TimersTyped' /\ CounterTyped'
      /\ PipeTyped' /\ FileTyped' /\ FaultsTyped'
  BY Frame DEF life, dispositions, sigs, io
<1>. QED
  BY <1>1, <1>2 DEF Base

LEMMA DoWaitStep ==
    ASSUME Base, UNCHANGED <<program, original>>, NEW p \in Procs, DoWait(p)
    PROVE  Base'
<1>0. Running(p) /\ Now(p).op = "wait"
  BY DEF DoWait, Calls
<1>1. /\ Now(p).none \in Inserts(program, p) /\ <<>> \in Inserts(program, p)
      /\ Now(p).says \in {"unsaid", "range", "WIFEXITED"}
  BY <1>0, NowTyped, Inserted DEF Fields
<1>2. CASE Unreaped(p) \cap Now(p).who = {}
  BY <1>0, <1>1, <1>2, OnlyGoesOn DEF DoWait
<1>3. CASE Unreaped(p) \cap Now(p).who # {}
  <2>1. PICK c \in Zombies(p) \cap Now(p).who : Reap(c, Now(p).says) /\ GoOn(p, <<>>)
    BY <1>3 DEF DoWait
  <2>2. p = Parent /\ c \in Children /\ run[c] = "zombie"
    BY <2>1 DEF Zombies
  <2>. QED
    BY <1>0, <1>1, <2>1, <2>2, ReapStep
<1>. QED
  BY <1>2, <1>3

LEMMA DoPollStep ==
    ASSUME Base, UNCHANGED <<program, original>>, NEW p \in Procs, DoPoll(p)
    PROVE  Base'
<1>0. Running(p) /\ Now(p).op = "poll"
  BY DEF DoPoll, Calls
<1>1. /\ Now(p).none \in Inserts(program, p) /\ <<>> \in Inserts(program, p)
      /\ Now(p).says \in {"unsaid", "range", "WIFEXITED"}
  BY <1>0, NowTyped, Inserted DEF Fields
<1>2. CASE Zombies(p) \cap Now(p).who = {}
  BY <1>0, <1>1, <1>2, OnlyGoesOn DEF DoPoll
<1>3. CASE Zombies(p) \cap Now(p).who # {}
  <2>1. PICK c \in Zombies(p) \cap Now(p).who : Reap(c, Now(p).says) /\ GoOn(p, <<>>)
    BY <1>3 DEF DoPoll
  <2>2. p = Parent /\ c \in Children /\ run[c] = "zombie"
    BY <2>1 DEF Zombies
  <2>. QED
    BY <1>0, <1>1, <2>1, <2>2, ReapStep
<1>. QED
  BY <1>2, <1>3

LEMMA DoPollWhileStep ==
    ASSUME Base, UNCHANGED <<program, original>>, NEW p \in Procs, DoPollWhile(p)
    PROVE  Base'
<1>0. Running(p) /\ Now(p).op = "poll_while"
  BY DEF DoPollWhile, Calls
<1>1. /\ Now(p).none \in Inserts(program, p) /\ <<>> \in Inserts(program, p)
      /\ Now(p).count \in Nat /\ Now(p) \in CallsOf(program, p)
  BY <1>0, NowTyped, Inserted DEF Fields
<1>2. CASE Now(p).count = 0 \/ Unreaped(p) = {}
  BY <1>0, <1>1, <1>2, OnlyGoesOn DEF DoPollWhile
<1>3. CASE ~(Now(p).count = 0 \/ Unreaped(p) = {})
  <2> DEFINE again == <<WaitNoHangWhile(Now(p).count - 1, Now(p).none)>>
  <2>1. PICK c \in Zombies(p) : Reap(c, "unsaid") /\ GoOn(p, again)
    BY <1>3 DEF DoPollWhile
  <2>2. p = Parent /\ c \in Children /\ run[c] = "zombie"
    BY <2>1 DEF Zombies
  <2>3. again \in Inserts(program, p)
    <3>. DEFINE n == Now(p).count - 1
    <3>0. n \in Nat
      BY <1>1, <1>3
    <3>. HIDE DEF n
    <3>1. WaitNoHangWhile(n, Now(p).none) \in CallsOf(program, p)
      BY <1>0, <1>1, <3>0, Variants
    <3>2. WaitNoHangWhile(n, Now(p).none).op = "poll_while"
      BY DEF WaitNoHangWhile
    <3>. QED
      BY <3>1, <3>2, Inserted DEF n
  <2>. HIDE DEF again
  <2>. QED
    BY <1>0, <2>1, <2>2, <2>3, ReapStep
<1>. QED
  BY <1>2, <1>3

LEMMA DoCountStep ==
    ASSUME Base, UNCHANGED <<program, original>>, NEW p \in Procs, DoCount(p)
    PROVE  Base'
<1> USE DEF DoCount
<1> DEFINE last == counter + 1 = Now(p).end
           first == IF last THEN <<Exit(0)>> ELSE <<>>
<1>0. Running(p) /\ Now(p).op = "count"
  BY DEF Calls
<1>1. p = Parent /\ Now(p).end = T_END /\ counter < T_END /\ counter \in Nat
  <2>1. p = Parent /\ Now(p).end = T_END
    BY <1>0, NowTyped DEF Fields
  <2>. QED
    BY <1>0, <2>1 DEF Base, Counted, CounterTyped, T_END
<1>2. first \in Inserts(program, p) /\ GoOn(p, first)
  BY Inserted
<1>3. Coded' /\ ForksOnce'
  BY <1>0, <1>2, GoOnStep DEF life
<1>4. Lives'
  BY DEF Base, Lives, life, Running, IsOver
<1>5. counter' = counter + 1 /\ CounterTyped'
  BY <1>1 DEF CounterTyped, T_END
<1>6. Counted'
  <2>1. CASE last
    <3>1. code'[p] = <<Exit(0)>> \o Tail(code[p])
      BY <2>1 DEF GoOn, Base, Coded
    <3>2. /\ code[p] \in Seq(CallsOf(program, p)) /\ code[p] # <<>>
          /\ <<Exit(0)>> \in Seq(CallsOf(program, p))
      BY <1>0, Inserted, NowTyped DEF Inserts
    <3>3. code'[p][1] = Exit(0) /\ code'[p] # <<>>
      BY <3>1, <3>2, Splice
    <3>. QED
      BY <1>1, <3>3 DEF Counted, Now, Exit
  <2>2. CASE ~last
    BY <1>1, <1>5, <2>2 DEF Counted, T_END
  <2>. QED
    BY <2>1, <2>2
<1>7. LivesTyped' /\ TimersTyped' /\ PipeTyped' /\ FileTyped' /\ FaultsTyped'
  BY Frame DEF life, io
<1>8. SignalsTyped'
  BY DEF Base, SignalsTyped, dispositions
<1>. QED
  BY <1>3, <1>4, <1>5, <1>6, <1>7, <1>8 DEF Base

LEMMA DoForkStep ==
    ASSUME Base, UNCHANGED <<program, original>>, NEW p \in Procs, DoFork(p)
    PROVE  Base'
<1> USE DEF DoFork
<1> DEFINE c == Now(p).child
           old == code[p]
<1>0. Running(p) /\ Now(p).op = "fork"
  BY DEF Calls
<1>1. /\ p = Parent /\ c \in Children /\ Now(p).program \in ChildCode
      /\ old \in Seq(CallsOf(program, p)) /\ Whole(old) /\ old[1] = Now(p) /\ old # <<>>
  BY <1>0, NowTyped DEF Fields
<1>2. /\ c \in Procs /\ c # p /\ Parent \in Procs /\ run[c] = "none" /\ IsOver(c) = FALSE
      /\ c \notin killed /\ told[c] = "untold" /\ Children \subseteq Procs
  <2>1. c \in Procs /\ c # p /\ Parent \in Procs /\ Children \subseteq Procs
    BY <1>1, ProcessesAssumption DEF Procs
  <2>2. 1 \in DOMAIN old
    BY <1>1
  <2>3. run[c] = "none"
    BY <1>0, <1>1, <2>2 DEF Base, ForksOnce
  <2>. QED
    BY <1>1, <2>1, <2>3 DEF Base, Lives, LivesTyped, IsOver
<1>. HIDE DEF c
<1>3. /\ run' = [run EXCEPT ![c] = "running"]
      /\ run \in [Procs -> {"none", "running", "zombie", "reaped"}]
  BY DEF c, Base, LivesTyped
<1>4. \A q \in Procs : /\ run'[q] = "none" <=> (run[q] = "none" /\ q # c)
                       /\ IsOver(q)' <=> IsOver(q)
                       /\ Running(q)' <=> (Running(q) \/ q = c)
  BY <1>2, <1>3 DEF IsOver, Running
<1>5. /\ code'[p] = Tail(old) /\ code'[c] = Now(p).program /\ DOMAIN code' = Procs
      /\ \A q \in Procs \ {p, c} : code'[q] = code[q]
  BY <1>2 DEF c, Base, Coded
<1>6. /\ Tail(old) \in Seq(CallsOf(program, p)) /\ Whole(Tail(old))
      /\ \A k \in DOMAIN Tail(old) : k + 1 \in DOMAIN old /\ Tail(old)[k] = old[k + 1]
  <2>1. /\ Tail(old) \in Seq(CallsOf(program, p)) /\ Len(Tail(old)) = Len(old) - 1
        /\ \A k \in DOMAIN Tail(old) : k + 1 \in DOMAIN old /\ Tail(old)[k] = old[k + 1]
    BY <1>1
  <2>2. Whole(Tail(old))
    <3>1. Head(old).op # "exit"
      BY <1>0, <1>1
    <3>2. <<>> \in Seq(CallsOf(program, p))
      OBVIOUS
    <3>. HIDE DEF old
    <3>3. Whole(<<>> \o Tail(old))
      BY <1>1, <3>1, <3>2, StaysWhole
    <3>4. <<>> \o Tail(old) = Tail(old)
      BY <2>1, ConcatEmptySeq
    <3>. QED
      BY <3>3, <3>4
  <2>. QED
    BY <2>1, <2>2
<1>7. Coded'
  <2>1. Now(p).program \in Seq(CallsOf(program, c)) /\ Whole(Now(p).program)
    BY <1>1, <1>2 DEF ChildCode, CallsOf
  <2>. QED
    BY <1>2, <1>4, <1>5, <1>6, <2>1 DEF Base, Coded
<1>8. ForksOnce'
  <2> DEFINE new == code'[Parent]
  <2>1. \A k \in DOMAIN new :
            k + 1 \in DOMAIN old /\ new[k] = old[k + 1] /\ k + 1 # 1 /\ k \in Int
    BY <1>1, <1>5, <1>6
  <2>2. \A i \in DOMAIN old : old[i].op = "fork" =>
            old[i].child \in Procs /\ run[old[i].child] = "none"
    BY <1>1, ForksTyped DEF Base, ForksOnce
  <2>3. \A i, j \in DOMAIN old :
            (i # j /\ old[i].op = "fork" /\ old[j].op = "fork") => old[i].child # old[j].child
    BY <1>1 DEF Base, ForksOnce
  <2>4. 1 \in DOMAIN old /\ old[1].op = "fork" /\ old[1].child = c
    BY <1>0, <1>1 DEF c
  <2>. HIDE DEF new, old
  <2>5. \A k \in DOMAIN new : new[k].op = "fork" => run'[new[k].child] = "none"
    BY <1>4, <2>1, <2>2, <2>3, <2>4
  <2>6. \A k, l \in DOMAIN new :
            (k # l /\ new[k].op = "fork" /\ new[l].op = "fork") => new[k].child # new[l].child
    BY <2>1, <2>3
  <2>. QED
    BY <2>5, <2>6 DEF ForksOnce, new
<1>9. LivesTyped'
  BY <1>2, <1>3 DEF Base, LivesTyped
<1>10. SignalsTyped'
  <2>1. \A f : [f EXCEPT ![c] = f[p]] = [f EXCEPT ![Now(p).child] = f[p]]
    BY DEF c
  <2>. QED
    BY <1>0, <2>1 DEF Base, SignalsTyped
<1>11. TimersTyped'
  BY <1>2, <1>4 DEF Base, TimersTyped
<1>12. PipeTyped'
  <2>1. ends' = [ends EXCEPT ![c] = ends[p]]
    BY DEF c
  <2>. QED
    BY <1>0, <1>2, <1>4, <2>1 DEF Base, PipeTyped
<1>13. CounterTyped' /\ FileTyped' /\ FaultsTyped'
  BY Frame
<1>14. Lives'
  BY <1>1, <1>2, <1>3, <1>4 DEF Base, Lives, LivesTyped
<1>15. Counted'
  BY <1>0, <1>1 DEF Base, Counted
<1>. QED
  BY <1>7, <1>8, <1>9, <1>10, <1>11, <1>12, <1>13, <1>14, <1>15 DEF Base

LEMMA DoExecStep ==
    ASSUME Base, UNCHANGED <<program, original>>, NEW p \in Procs, DoExec(p)
    PROVE  Base'
<1> USE DEF DoExec
<1>0. Running(p) /\ Now(p).op = "exec"
  BY DEF Calls
<1>1. Now(p).program \in Inserts(program, p) /\ Whole(Now(p).program)
  BY <1>0, NowTyped DEF Fields
<1>2. Coded' /\ ForksOnce'
  BY <1>1 DEF Base, Coded, ForksOnce, Inserts, life, Procs
<1>3. Lives' /\ Counted'
  BY <1>0 DEF Base, Lives, Counted, life, Running, IsOver, Now, Coded
<1>4. /\ LivesTyped' /\ TimersTyped' /\ CounterTyped' /\ PipeTyped' /\ FileTyped'
      /\ FaultsTyped'
  BY Frame DEF life, io
<1>5. SignalsTyped'
  BY DEF Base, SignalsTyped
<1>. QED
  BY <1>2, <1>3, <1>4, <1>5 DEF Base

-----------------------------------------------------------------------------
(* Steps that no call makes                                                *)

LEMMA CodeKept ==
    ASSUME Base, UNCHANGED <<program, original, life, counter>>,
           DOMAIN code' = DOMAIN code, \A p \in Procs : code'[p] = code[p]
    PROVE  Coded' /\ ForksOnce' /\ Lives' /\ Counted'
BY DEF Base, Coded, ForksOnce, Lives, Counted, life, Running, IsOver, Now, Procs

LEMMA ExpireStep ==
    ASSUME Base, UNCHANGED <<program, original>>, NEW p \in Procs, Expire(p)
    PROVE  Base'
<1> USE DEF Expire
<1>1. Coded' /\ ForksOnce' /\ Lives' /\ Counted'
  BY CodeKept
<1>2. LivesTyped' /\ CounterTyped' /\ PipeTyped' /\ FileTyped' /\ FaultsTyped'
  BY Frame DEF life, io
<1>3. TimersTyped'
  BY DEF Base, TimersTyped, life, Running
<1>4. SignalsTyped'
  <2>1. "ALRM" \in Signals
    BY DEF Signals, Number
  <2>. QED
    BY <2>1 DEF Base, SignalsTyped, Arrives, dispositions
<1>. QED
  BY <1>1, <1>2, <1>3, <1>4 DEF Base

LEMMA SignalledStep ==
    ASSUME Base, UNCHANGED <<program, original>>, NEW p \in Procs,
           NEW s \in {"INT", "TERM"}, Signalled(p, s)
    PROVE  Base'
<1> USE DEF Signalled
<1>1. Coded' /\ ForksOnce' /\ Lives' /\ Counted'
  BY CodeKept
<1>2. LivesTyped' /\ TimersTyped' /\ CounterTyped' /\ PipeTyped' /\ FileTyped'
  BY Frame DEF life, io
<1>3. SignalsTyped'
  <2>1. s \in Signals
    BY DEF Signals, Number
  <2>. QED
    BY <2>1 DEF Base, SignalsTyped, Arrives, dispositions
<1>4. FaultsTyped'
  BY ProcessesAssumption DEF Base, FaultsTyped
<1>. QED
  BY <1>1, <1>2, <1>3, <1>4 DEF Base

LEMMA DeliverStep ==
    ASSUME Base, UNCHANGED <<program, original>>, NEW p \in Procs, Deliver(p)
    PROVE  Base'
<1>0. Running(p) /\ FaultsTyped'
  BY Frame DEF Deliver
<1>1. PICK s \in pending[p] \ mask[p] :
         IF s \in handled[p]
         THEN /\ pending' = [pending EXCEPT ![p] = @ \ {s}]
              /\ caught' = [caught EXCEPT ![p] = @ \cup {s}]
              /\ \E rest \in {code[p], IF Now(p) = SigSuspend THEN Tail(code[p]) ELSE code[p]} :
                    code' = [code EXCEPT ![p] = rest]
              /\ UNCHANGED <<life, dispositions, timer, counter, io>>
         ELSE EndBySignal(p, s)
  BY DEF Deliver
<1>2. s \in Signals
  BY DEF Base, SignalsTyped
<1>3. CASE s \notin handled[p]
  BY <1>0, <1>1, <1>2, <1>3, EndBySignalStep
<1>4. CASE s \in handled[p]
  <2>1. /\ LivesTyped' /\ TimersTyped' /\ CounterTyped' /\ PipeTyped' /\ FileTyped'
    BY <1>1, <1>4, Frame DEF life, io
  <2>2. SignalsTyped'
    BY <1>1, <1>2, <1>4 DEF Base, SignalsTyped, dispositions
  <2>3. Coded' /\ ForksOnce' /\ Lives' /\ Counted'
    <3>1. CASE code' = [code EXCEPT ![p] = code[p]]
      <4>1. DOMAIN code' = DOMAIN code /\ \A q \in Procs : code'[q] = code[q]
        BY <3>1 DEF Base, Coded
      <4>. QED
        BY <1>1, <1>4, <4>1, CodeKept
    <3>2. CASE Now(p) = SigSuspend /\ code' = [code EXCEPT ![p] = Tail(code[p])]
      <4>1. <<>> \o Tail(code[p]) = Tail(code[p])
        BY <1>0, NowTyped, ConcatEmptySeq, HeadTailProperties
      <4>2. GoOn(p, <<>>) /\ <<>> \in Inserts(program, p) /\ Now(p).op # "exit"
        BY <3>2, <4>1, Inserted DEF GoOn, SigSuspend
      <4>. QED
        BY <1>0, <1>1, <1>4, <4>2, QuietStep
    <3>. QED
      BY <1>1, <1>4, <3>1, <3>2
  <2>. QED
    BY <1>0, <2>1, <2>2, <2>3 DEF Base
<1>. QED
  BY <1>3, <1>4

-----------------------------------------------------------------------------
(* The programs at their start                                             *)

LEMMA TextTyped ==
    ASSUME NEW name \in Texts, NEW n \in Nat
    PROVE  /\ Text(name, n) \in Seq(Bytes) /\ Len(Text(name, n)) = n
           /\ \A k \in 1 .. n : Text(name, n)[k] = <<name, k>>
<1>1. \A k \in 1 .. n : <<name, k>> \in Bytes
  BY DEF Bytes
<1>2. Text(name, n) \in [1 .. n -> Bytes]
  BY <1>1 DEF Text
<1>. QED
  BY <1>2, FunctionIsSeq DEF Text

(* What makes a call makes one of SharedCalls.                             *)
LEMMA Made ==
    ASSUME NEW N
    PROVE  /\ \A n \in Int : Exit(n) \in SharedCalls(N)
           /\ \A s \in N : Whole(s) => Exec(s) \in SharedCalls(N)
           /\ \A signals \in SUBSET Signals : Block(signals) \in SharedCalls(N)
           /\ \A s \in Signals : Handle(s) \in SharedCalls(N) /\ Ignore(s) \in SharedCalls(N)
           /\ \A flags \in SUBSET Signals, s \in N : SuspendWhileNot(flags, s) \in SharedCalls(N)
           /\ \A s \in Signals, t \in N : IfCaught(s, t) \in SharedCalls(N)
           /\ Alarm \in SharedCalls(N)
           /\ \A p \in Procs, s \in Signals, t \in N : Kill(p, s, t) \in SharedCalls(N)
           /\ <<Exit(1)>> \in N => OpenPipe \in SharedCalls(N)
           /\ \A s \in N : Dup(s) \in SharedCalls(N)
           /\ CloseEnd("read") \in SharedCalls(N) /\ CloseEnd("write") \in SharedCalls(N)
           /\ \A n \in Nat, s \in N : WritePipe(n, s) \in SharedCalls(N)
           /\ \A n \in Nat : <<Exit(1)>> \in N =>
                 ReadPipe(n, TRUE) \in SharedCalls(N) /\ ReadPipe(n, FALSE) \in SharedCalls(N)
           /\ \A s \in N : OpenFile(TRUE, s) \in SharedCalls(N) /\ OpenFile(FALSE, s) \in SharedCalls(N)
           /\ \A text \in Seq(Bytes), s \in N : WriteFile(text, s) \in SharedCalls(N)
           /\ \A text \in Seq(Bytes), s \in N : AppendAll(text, s) \in SharedCalls(N)
           /\ \A n, room \in Nat, s \in N :
                 /\ ReadFile(n, room, TRUE, s) \in SharedCalls(N)
                 /\ ReadFile(n, room, FALSE, s) \in SharedCalls(N)
<1>1. \A n \in Int : Exit(n) \in SharedCalls(N)
  BY DEF SharedCalls, Exit
<1>2. \A s \in N : Whole(s) => Exec(s) \in SharedCalls(N)
  BY DEF SharedCalls, Exec
<1>3. \A signals \in SUBSET Signals : Block(signals) \in SharedCalls(N)
  BY DEF SharedCalls, Block
<1>4. \A s \in Signals : Handle(s) \in SharedCalls(N) /\ Ignore(s) \in SharedCalls(N)
  BY DEF SharedCalls, Handle, Ignore
<1>5. \A flags \in SUBSET Signals, s \in N : SuspendWhileNot(flags, s) \in SharedCalls(N)
  BY DEF SharedCalls, SuspendWhileNot
<1>6. \A s \in Signals, t \in N : IfCaught(s, t) \in SharedCalls(N)
  BY DEF SharedCalls, IfCaught
<1>7. Alarm \in SharedCalls(N)
  BY DEF SharedCalls, Alarm
<1>8. \A p \in Procs, s \in Signals, t \in N : Kill(p, s, t) \in SharedCalls(N)
  BY DEF SharedCalls, Kill
<1>9. (<<Exit(1)>> \in N => OpenPipe \in SharedCalls(N)) /\ \A s \in N : Dup(s) \in SharedCalls(N)
  BY DEF SharedCalls, OpenPipe, Dup
<1>10. CloseEnd("read") \in SharedCalls(N) /\ CloseEnd("write") \in SharedCalls(N)
  BY DEF SharedCalls, CloseEnd
<1>11. \A n \in Nat, s \in N : WritePipe(n, s) \in SharedCalls(N)
  BY DEF SharedCalls, WritePipe
<1>12. \A n \in Nat : <<Exit(1)>> \in N =>
          ReadPipe(n, TRUE) \in SharedCalls(N) /\ ReadPipe(n, FALSE) \in SharedCalls(N)
  BY DEF SharedCalls, ReadPipe
<1>13. \A s \in N : OpenFile(TRUE, s) \in SharedCalls(N) /\ OpenFile(FALSE, s) \in SharedCalls(N)
  BY DEF SharedCalls, OpenFile
<1>14. \A text \in Seq(Bytes), s \in N : WriteFile(text, s) \in SharedCalls(N)
  BY DEF SharedCalls, WriteFile
<1>15. \A text \in Seq(Bytes), s \in N : AppendAll(text, s) \in SharedCalls(N)
  BY DEF SharedCalls, AppendAll
<1>16. \A n, room \in Nat, s \in N :
                 /\ ReadFile(n, room, TRUE, s) \in SharedCalls(N)
                 /\ ReadFile(n, room, FALSE, s) \in SharedCalls(N)
  BY DEF SharedCalls, ReadFile
<1>. QED
  BY <1>1, <1>2, <1>3, <1>4, <1>5, <1>6, <1>7, <1>8, <1>9, <1>10, <1>11, <1>12, <1>13, <1>14,
     <1>15, <1>16

LEMMA ExitsNested ==
    \A n \in Int : /\ <<Exit(n)>> \in Exits /\ <<Exit(n)>> \in Nested
                   /\ <<Exit(n)>> \in ChildNested
                   /\ Whole(<<Exit(n)>>) /\ Exit(n).op = "exit" /\ Exit(n).status = n
<1>1. \A n \in Int : <<Exit(n)>> \in Exits
  BY DEF Exits, Exit
<1>2. \A n \in Int : Whole(<<Exit(n)>>)
  BY DEF Whole, Exit
<1>. QED
  BY <1>1, <1>2, NestedTyped DEF Exit

LEMMA EmptyNested == <<>> \in Exits /\ <<>> \in Nested /\ <<>> \in ChildNested
<1>1. <<>> \in Exits
  BY DEF Exits
<1>. QED
  BY <1>1, NestedTyped

LEMMA ParentMade ==
    /\ \A n \in Int : Exit(n) \in ParentCalls
    /\ \A s \in Nested : Whole(s) => Exec(s) \in ParentCalls
    /\ \A signals \in SUBSET Signals : Block(signals) \in ParentCalls
    /\ \A s \in Signals : Handle(s) \in ParentCalls /\ Ignore(s) \in ParentCalls
    /\ \A flags \in SUBSET Signals, s \in Nested : SuspendWhileNot(flags, s) \in ParentCalls
    /\ Alarm \in ParentCalls
    /\ \A p \in Procs, s \in Signals, t \in Nested : Kill(p, s, t) \in ParentCalls
    /\ OpenPipe \in ParentCalls
    /\ \A s \in Nested : Dup(s) \in ParentCalls
    /\ CloseEnd("read") \in ParentCalls /\ CloseEnd("write") \in ParentCalls
    /\ \A n \in Nat, s \in Nested : WritePipe(n, s) \in ParentCalls
    /\ \A n \in Nat : ReadPipe(n, TRUE) \in ParentCalls /\ ReadPipe(n, FALSE) \in ParentCalls
    /\ \A s \in Nested : OpenFile(TRUE, s) \in ParentCalls /\ OpenFile(FALSE, s) \in ParentCalls
    /\ \A text \in Seq(Bytes), s \in Nested :
          WriteFile(text, s) \in ParentCalls /\ AppendAll(text, s) \in ParentCalls
    /\ \A n, room \in Nat, s \in Nested :
          /\ ReadFile(n, room, TRUE, s) \in ParentCalls
          /\ ReadFile(n, room, FALSE, s) \in ParentCalls
    /\ \A n \in Nat, e \in {"SET", "CUR", "END"} : LSeek(n, e) \in ParentCalls
    /\ \A who \in SUBSET Children, s \in Nested :
          /\ Wait(who, "unsaid", s) \in ParentCalls /\ Wait(who, "range", s) \in ParentCalls
          /\ Wait(who, "WIFEXITED", s) \in ParentCalls
    /\ \A who \in SUBSET Children, s \in Nested : WaitNoHang(who, s) \in ParentCalls
    /\ \A n \in Nat, s \in Nested : WaitNoHangWhile(n, s) \in ParentCalls
    /\ \A c \in Children, s \in ChildCode, t \in Nested : Fork(c, s, t) \in ParentCalls
<1> DEFINE C == SharedCalls(Nested)
<1>1. C \subseteq ParentCalls
  BY DEF ParentCalls
<1>2. <<Exit(1)>> \in Nested
  BY ExitsNested
<1>3. \A n \in Nat, e \in {"SET", "CUR", "END"} : LSeek(n, e) \in ParentCalls
  BY DEF ParentCalls, Seeks, LSeek
<1>4. \A who \in SUBSET Children, s \in Nested :
          /\ Wait(who, "unsaid", s) \in ParentCalls /\ Wait(who, "range", s) \in ParentCalls
          /\ Wait(who, "WIFEXITED", s) \in ParentCalls
  BY DEF ParentCalls, Waits, Wait
<1>5. \A who \in SUBSET Children, s \in Nested : WaitNoHang(who, s) \in ParentCalls
  BY DEF ParentCalls, Waits, WaitNoHang
<1>6. \A n \in Nat, s \in Nested : WaitNoHangWhile(n, s) \in ParentCalls
  BY DEF ParentCalls, Waits, WaitNoHangWhile
<1>7. \A c \in Children, s \in ChildCode, t \in Nested : Fork(c, s, t) \in ParentCalls
  BY DEF ParentCalls, Forks, Fork
<1>. HIDE DEF C
<1>8. /\ \A n \in Int : Exit(n) \in C
      /\ \A s \in Nested : Whole(s) => Exec(s) \in C
      /\ \A signals \in SUBSET Signals : Block(signals) \in C
      /\ \A s \in Signals : Handle(s) \in C /\ Ignore(s) \in C
      /\ \A flags \in SUBSET Signals, s \in Nested : SuspendWhileNot(flags, s) \in C
      /\ Alarm \in C
      /\ \A p \in Procs, s \in Signals, t \in Nested : Kill(p, s, t) \in C
      /\ OpenPipe \in C
      /\ \A s \in Nested : Dup(s) \in C
      /\ CloseEnd("read") \in C /\ CloseEnd("write") \in C
      /\ \A n \in Nat, s \in Nested : WritePipe(n, s) \in C
      /\ \A n \in Nat : ReadPipe(n, TRUE) \in C /\ ReadPipe(n, FALSE) \in C
      /\ \A s \in Nested : OpenFile(TRUE, s) \in C /\ OpenFile(FALSE, s) \in C
      /\ \A text \in Seq(Bytes), s \in Nested : WriteFile(text, s) \in C /\ AppendAll(text, s) \in C
      /\ \A n, room \in Nat, s \in Nested :
            ReadFile(n, room, TRUE, s) \in C /\ ReadFile(n, room, FALSE, s) \in C
  BY <1>2, Made DEF C
<1>. QED
  BY <1>1, <1>3, <1>4, <1>5, <1>6, <1>7, <1>8

(* No two forks make the same child.                                       *)
ForksApart(s) ==
    \A j, k \in DOMAIN s :
        (j # k /\ s[j].op = "fork" /\ s[k].op = "fork") => s[j].child # s[k].child

Starts(s) == s \in Seq(ParentCalls) /\ Whole(s) /\ ForksApart(s)

LEMMA SignalsAre == {"KILL", "INT", "TERM", "PIPE", "ALRM", "USR1", "USR2", "SEGV"} = Signals
BY DEF Signals, Number

LEMMA TextsTyped ==
    /\ Text("Hello", 3) \in Seq(Bytes) /\ Text("digits", 19) \in Seq(Bytes)
    /\ Text("00", 2) \in Seq(Bytes) /\ Text("tabbed", 11) \in Seq(Bytes)
    /\ Text("oldfd", 2) \in Seq(Bytes) /\ Text("newfd", 2) \in Seq(Bytes)
    /\ Text("Parent", 2) \in Seq(Bytes) /\ Text("Child", 2) \in Seq(Bytes)
    /\ Text("input", 5) \in Seq(Bytes)
<1>1. Texts = {"Hello", "digits", "00", "tabbed", "R", "o", "h", "x", "M", "newfd", "oldfd",
               "input", "Parent", "Child", "zero"}
  BY DEF Texts
<1>2. /\ "Hello" \in Texts /\ "digits" \in Texts /\ "00" \in Texts /\ "tabbed" \in Texts
      /\ "oldfd" \in Texts /\ "newfd" \in Texts /\ "Parent" \in Texts /\ "Child" \in Texts
      /\ "input" \in Texts
  BY <1>1
<1>. QED
  BY <1>2, TextTyped

(* What the children run.                                                  *)
LEMMA ChildrenStart ==
    /\ \A n \in Int : <<Exit(n)>> \in ChildCode
    /\ Child_7_9 \in ChildCode /\ Child_11_2 \in ChildCode /\ Child_11_3 \in ChildCode
    /\ <<Exec(P2_8_4), Exit(0)>> \in ChildCode
    /\ <<Exec(Program_2_9_3), Exit(1)>> \in ChildCode
<1> DEFINE C == ChildCalls
<1>0. /\ \A n \in Int : Exit(n) \in C
      /\ \A s \in ChildNested : Whole(s) => Exec(s) \in C
      /\ CloseEnd("read") \in C /\ CloseEnd("write") \in C
      /\ \A n \in Nat : ReadPipe(n, TRUE) \in C /\ ReadPipe(n, FALSE) \in C
      /\ \A text \in Seq(Bytes), s \in ChildNested : WriteFile(text, s) \in C
  <2>1. <<Exit(1)>> \in ChildNested
    BY ExitsNested
  <2>. QED
    BY <2>1, Made, Zenon DEF ChildCalls
<1>. HIDE DEF C
<1>1. \A n \in Int : <<Exit(n)>> \in Seq(C) /\ Whole(<<Exit(n)>>)
  BY <1>0, ExitsNested
<1>2. Child_7_9 \in Seq(C) /\ Whole(Child_7_9)
  <2>1. WriteFile(Text("Child", 2), <<Exit(-4)>>) \in C /\ Exit(0) \in C
    <3>1. <<Exit(-4)>> \in ChildNested /\ Text("Child", 2) \in Seq(Bytes)
      BY ExitsNested, TextsTyped
    <3>2. WriteFile(Text("Child", 2), <<Exit(-4)>>) \in C
      BY <1>0, <3>1, Zenon
    <3>. QED
      BY <1>0, <3>2
  <2>2. Child_7_9 \in Seq(C)
    BY <2>1 DEF Child_7_9
  <2>. QED
    BY <2>2 DEF Child_7_9, Whole, Exit
<1>3. Child_11_2 \in Seq(C) /\ Whole(Child_11_2)
  <2> DEFINE read == ReadPipe(8, TRUE)
  <2>1. CloseEnd("write") \in C /\ CloseEnd("read") \in C /\ Exit(0) \in C
    BY <1>0
  <2>2. read \in C
    <3>1. 8 \in Nat
      OBVIOUS
    <3>. QED
      BY <1>0, <3>1, Zenon
  <2>3. Child_11_2 = <<CloseEnd("write"), read, CloseEnd("read"), Exit(0)>>
    BY DEF Child_11_2
  <2>. HIDE DEF read
  <2>4. Child_11_2 \in Seq(C)
    BY <2>1, <2>2, <2>3
  <2>. QED
    BY <2>4 DEF Child_11_2, Whole, Exit
<1>4. Child_11_3 \in Seq(C) /\ Whole(Child_11_3)
  <2> DEFINE read == ReadPipe(4, FALSE)
  <2>1. CloseEnd("write") \in C /\ CloseEnd("read") \in C /\ Exit(0) \in C
    BY <1>0
  <2>2. read \in C
    <3>1. 4 \in Nat
      OBVIOUS
    <3>. QED
      BY <1>0, <3>1, Zenon
  <2>3. Child_11_3 = <<CloseEnd("write"), read, CloseEnd("read"), Exit(0)>>
    BY DEF Child_11_3
  <2>. HIDE DEF read
  <2>4. Child_11_3 \in Seq(C)
    BY <2>1, <2>2, <2>3
  <2>. QED
    BY <2>4 DEF Child_11_3, Whole, Exit
<1>5. <<Exec(P2_8_4), Exit(0)>> \in Seq(C) /\ Whole(<<Exec(P2_8_4), Exit(0)>>)
  <2>1. Exec(P2_8_4) \in C /\ Exit(0) \in C
    BY <1>0, ExitsNested DEF P2_8_4
  <2>. QED
    BY <2>1 DEF Whole, Exit
<1>6. <<Exec(Program_2_9_3), Exit(1)>> \in Seq(C) /\ Whole(<<Exec(Program_2_9_3), Exit(1)>>)
  <2> DEFINE D == SharedCalls(Exits)
  <2>1. /\ Block({"USR1"}) \in D /\ Handle("USR1") \in D
        /\ Kill(Parent, "USR1", <<>>) \in D /\ SuspendWhileNot({"USR1"}, <<>>) \in D
        /\ Kill(Parent, "USR2", Fails) \in D /\ Exit(0) \in D
    <3>1. Parent \in Procs /\ <<>> \in Exits /\ Fails \in Exits /\ {"USR1"} \subseteq Signals
      BY SignalsAre, ExitsNested, EmptyNested DEF Procs, Fails
    <3>2. /\ \A n \in Int : Exit(n) \in D
          /\ \A signals \in SUBSET Signals : Block(signals) \in D
          /\ \A s \in Signals : Handle(s) \in D
          /\ \A flags \in SUBSET Signals, s \in Exits : SuspendWhileNot(flags, s) \in D
          /\ \A p \in Procs, s \in Signals, t \in Exits : Kill(p, s, t) \in D
      BY Made
    <3>. HIDE DEF D
    <3>3. "USR1" \in Signals /\ "USR2" \in Signals
      BY SignalsAre
    <3>. QED
      BY <3>1, <3>2, <3>3
  <2>. HIDE DEF D
  <2>2. Program_2_9_3 \in Seq(D)
    BY <2>1 DEF Program_2_9_3
  <2>3. Whole(Program_2_9_3)
    BY DEF Program_2_9_3, Whole, Exit
  <2>4. Exec(Program_2_9_3) \in C /\ Exit(1) \in C
    BY <1>0, <2>2, <2>3 DEF ChildNested, D
  <2>. QED
    BY <2>4 DEF Whole, Exit
<1>. QED
  BY <1>1, <1>2, <1>3, <1>4, <1>5, <1>6 DEF ChildCode, C

LEMMA Start_2_1 == Starts(Main_2_1)
<1>1. /\ OpenFile(FALSE, <<Exit(-10)>>) \in ParentCalls
      /\ Exit(0) \in ParentCalls
  <2>1. <<Exit(-10)>> \in Nested
    BY ExitsNested, EmptyNested
  <2>2. /\ OpenFile(FALSE, <<Exit(-10)>>) \in ParentCalls
    BY <2>1, ParentMade, Zenon
  <2>3. /\ Exit(0) \in ParentCalls
    BY ExitsNested, ParentMade
  <2>. QED
    BY <2>2, <2>3
<1>2. Main_2_1 \in Seq(ParentCalls)
  <2> DEFINE a0 == OpenFile(FALSE, <<Exit(-10)>>)
  <2>1. Main_2_1 = <<a0, Exit(0)>>
    BY DEF Main_2_1
  <2>2. a0 \in ParentCalls
    BY <1>1
  <2>. HIDE DEF a0
  <2>. QED
    BY <1>1, <2>1, <2>2
<1>3. Whole(Main_2_1)
  BY DEF Main_2_1, Whole, Exit
<1>4. ForksApart(Main_2_1)
  BY DEF ForksApart, Main_2_1, Exit, OpenFile
<1>. QED
  BY <1>2, <1>3, <1>4 DEF Starts

LEMMA Start_2_2 == Starts(Main_2_2)
<1>1. /\ OpenFile(FALSE, <<Exit(-10)>>) \in ParentCalls
      /\ ReadFile(10, SIZE_BUF_STORAGE, TRUE, <<Exit(-5)>>) \in ParentCalls
      /\ Exit(0) \in ParentCalls
  <2>1. <<Exit(-10)>> \in Nested /\ <<Exit(-5)>> \in Nested
        /\ 10 \in Nat /\ SIZE_BUF_STORAGE \in Nat
    BY ExitsNested, EmptyNested DEF SIZE_BUF_STORAGE
  <2>2. /\ OpenFile(FALSE, <<Exit(-10)>>) \in ParentCalls
        /\ ReadFile(10, SIZE_BUF_STORAGE, TRUE, <<Exit(-5)>>) \in ParentCalls
    BY <2>1, ParentMade, Zenon
  <2>3. /\ Exit(0) \in ParentCalls
    BY ExitsNested, ParentMade
  <2>. QED
    BY <2>2, <2>3
<1>2. Main_2_2 \in Seq(ParentCalls)
  <2> DEFINE a0 == OpenFile(FALSE, <<Exit(-10)>>)
  <2> DEFINE a1 == ReadFile(10, SIZE_BUF_STORAGE, TRUE, <<Exit(-5)>>)
  <2>1. Main_2_2 = <<a0, a1, Exit(0)>>
    BY DEF Main_2_2
  <2>2. a0 \in ParentCalls /\ a1 \in ParentCalls
    BY <1>1
  <2>. HIDE DEF a0, a1
  <2>. QED
    BY <1>1, <2>1, <2>2
<1>3. Whole(Main_2_2)
  BY DEF Main_2_2, Whole, Exit
<1>4. ForksApart(Main_2_2)
  BY DEF ForksApart, Main_2_2, Exit, OpenFile, ReadFile
<1>. QED
  BY <1>2, <1>3, <1>4 DEF Starts

LEMMA Start_2_3 == Starts(Main_2_3)
<1>1. /\ OpenFile(FALSE, <<Exit(-10)>>) \in ParentCalls
      /\ AppendAll(Text("Hello", 3), <<Exit(-2)>>) \in ParentCalls
      /\ Exit(0) \in ParentCalls
  <2>1. <<Exit(-10)>> \in Nested /\ <<Exit(-2)>> \in Nested
    BY ExitsNested, EmptyNested
  <2>2. /\ OpenFile(FALSE, <<Exit(-10)>>) \in ParentCalls
        /\ AppendAll(Text("Hello", 3), <<Exit(-2)>>) \in ParentCalls
    BY <2>1, TextsTyped, ParentMade, Zenon
  <2>3. /\ Exit(0) \in ParentCalls
    BY ExitsNested, ParentMade, TextsTyped
  <2>. QED
    BY <2>2, <2>3
<1>2. Main_2_3 \in Seq(ParentCalls)
  <2> DEFINE a0 == OpenFile(FALSE, <<Exit(-10)>>)
  <2> DEFINE a1 == AppendAll(Text("Hello", 3), <<Exit(-2)>>)
  <2>1. Main_2_3 = <<a0, a1, Exit(0)>>
    BY DEF Main_2_3
  <2>2. a0 \in ParentCalls /\ a1 \in ParentCalls
    BY <1>1
  <2>. HIDE DEF a0, a1
  <2>. QED
    BY <1>1, <2>1, <2>2
<1>3. Whole(Main_2_3)
  BY DEF Main_2_3, Whole, Exit
<1>4. ForksApart(Main_2_3)
  BY DEF ForksApart, Main_2_3, Exit, OpenFile, AppendAll
<1>. QED
  BY <1>2, <1>3, <1>4 DEF Starts

LEMMA Start_2_4 == Starts(Main_2_4)
<1>1. /\ OpenFile(TRUE, <<Exit(-2)>>) \in ParentCalls
      /\ LSeek(0, "SET") \in ParentCalls
      /\ WriteFile(Text("digits", 19), <<>>) \in ParentCalls
      /\ LSeek(0, "CUR") \in ParentCalls
      /\ LSeek(2, "SET") \in ParentCalls
      /\ WriteFile(Text("00", 2), <<>>) \in ParentCalls
      /\ LSeek(6, "CUR") \in ParentCalls
      /\ ReadFile(10, 100, FALSE, <<>>) \in ParentCalls
      /\ LSeek(0, "END") \in ParentCalls
      /\ WriteFile(Text("tabbed", 11), <<>>) \in ParentCalls
      /\ ReadFile(19, 100, FALSE, <<>>) \in ParentCalls
      /\ Exit(0) \in ParentCalls
  <2>1. <<Exit(-2)>> \in Nested /\ <<>> \in Nested
        /\ 10 \in Nat /\ 19 \in Nat /\ 100 \in Nat
    BY ExitsNested, EmptyNested
  <2>2. /\ OpenFile(TRUE, <<Exit(-2)>>) \in ParentCalls
        /\ WriteFile(Text("digits", 19), <<>>) \in ParentCalls
        /\ WriteFile(Text("00", 2), <<>>) \in ParentCalls
        /\ ReadFile(10, 100, FALSE, <<>>) \in ParentCalls
        /\ WriteFile(Text("tabbed", 11), <<>>) \in ParentCalls
        /\ ReadFile(19, 100, FALSE, <<>>) \in ParentCalls
    BY <2>1, TextsTyped, ParentMade, Zenon
  <2>3. /\ LSeek(0, "SET") \in ParentCalls
        /\ LSeek(0, "CUR") \in ParentCalls
        /\ LSeek(2, "SET") \in ParentCalls
        /\ LSeek(6, "CUR") \in ParentCalls
        /\ LSeek(0, "END") \in ParentCalls
        /\ Exit(0) \in ParentCalls
    BY ExitsNested, ParentMade, TextsTyped, EmptyNested
  <2>. QED
    BY <2>2, <2>3
<1>2. Main_2_4 \in Seq(ParentCalls)
  <2> DEFINE a0 == OpenFile(TRUE, <<Exit(-2)>>)
  <2> DEFINE a1 == WriteFile(Text("digits", 19), <<>>)
  <2> DEFINE a2 == WriteFile(Text("00", 2), <<>>)
  <2> DEFINE a3 == ReadFile(10, 100, FALSE, <<>>)
  <2> DEFINE a4 == WriteFile(Text("tabbed", 11), <<>>)
  <2> DEFINE a5 == ReadFile(19, 100, FALSE, <<>>)
  <2>1. Main_2_4 = <<a0, LSeek(0, "SET"), a1, LSeek(0, "CUR"), LSeek(2, "SET"), a2, LSeek(6, "CUR"), a3, LSeek(0, "END"), a4, LSeek(0, "CUR"), LSeek(0, "SET"), a5, Exit(0)>>
    BY DEF Main_2_4
  <2>2. a0 \in ParentCalls /\ a1 \in ParentCalls /\ a2 \in ParentCalls /\ a3 \in ParentCalls /\ a4 \in ParentCalls /\ a5 \in ParentCalls
    BY <1>1
  <2>. HIDE DEF a0, a1, a2, a3, a4, a5
  <2>. QED
    BY <1>1, <2>1, <2>2
<1>3. Whole(Main_2_4)
  BY DEF Main_2_4, Whole, Exit
<1>4. ForksApart(Main_2_4)
  BY DEF ForksApart, Main_2_4, Exit, OpenFile, WriteFile, ReadFile, LSeek
<1>. QED
  BY <1>2, <1>3, <1>4 DEF Starts

LEMMA DupNested == <<WriteFile(Text("oldfd", 2), <<>>), Exit(-3)>> \in Nested
<1> DEFINE D == SharedCalls(Exits) \cup Counts
<1>1. /\ \A text \in Seq(Bytes), s \in Exits : WriteFile(text, s) \in D
      /\ \A n \in Int : Exit(n) \in D
  BY Made
<1>. HIDE DEF D
<1>2. WriteFile(Text("oldfd", 2), <<>>) \in D /\ Exit(-3) \in D
  BY <1>1, TextsTyped, EmptyNested
<1>3. <<WriteFile(Text("oldfd", 2), <<>>), Exit(-3)>> \in Seq(D)
  BY <1>2
<1>. QED
  BY <1>3 DEF Nested, D

LEMMA Start_2_6 == Starts(Main_2_6)
<1>1. /\ OpenFile(FALSE, <<Exit(-2)>>) \in ParentCalls
      /\ Dup(<<WriteFile(Text("oldfd", 2), <<>>), Exit(-3)>>) \in ParentCalls
      /\ WriteFile(Text("newfd", 2), <<>>) \in ParentCalls
      /\ WriteFile(Text("oldfd", 2), <<>>) \in ParentCalls
      /\ Exit(0) \in ParentCalls
  <2>1. <<Exit(-2)>> \in Nested /\ <<>> \in Nested
    BY ExitsNested, EmptyNested
  <2>2. /\ OpenFile(FALSE, <<Exit(-2)>>) \in ParentCalls
        /\ Dup(<<WriteFile(Text("oldfd", 2), <<>>), Exit(-3)>>) \in ParentCalls
        /\ WriteFile(Text("newfd", 2), <<>>) \in ParentCalls
        /\ WriteFile(Text("oldfd", 2), <<>>) \in ParentCalls
    BY <2>1, TextsTyped, DupNested, ParentMade, Zenon
  <2>3. /\ Exit(0) \in ParentCalls
    BY ExitsNested, ParentMade, TextsTyped, EmptyNested
  <2>. QED
    BY <2>2, <2>3
<1>2. Main_2_6 \in Seq(ParentCalls)
  <2> DEFINE a0 == OpenFile(FALSE, <<Exit(-2)>>)
  <2> DEFINE a1 == Dup(<<WriteFile(Text("oldfd", 2), <<>>), Exit(-3)>>)
  <2> DEFINE a2 == WriteFile(Text("newfd", 2), <<>>)
  <2> DEFINE a3 == WriteFile(Text("oldfd", 2), <<>>)
  <2>1. Main_2_6 = <<a0, a1, a2, a3, Exit(0)>>
    BY DEF Main_2_6
  <2>2. a0 \in ParentCalls /\ a1 \in ParentCalls /\ a2 \in ParentCalls /\ a3 \in ParentCalls
    BY <1>1
  <2>. HIDE DEF a0, a1, a2, a3
  <2>. QED
    BY <1>1, <2>1, <2>2
<1>3. Whole(Main_2_6)
  BY DEF Main_2_6, Whole, Exit
<1>4. ForksApart(Main_2_6)
  <2>1. /\ Main_2_6[1].op = "open" /\ Main_2_6[2].op = "dup" /\ Main_2_6[3].op = "write_file"
        /\ Main_2_6[4].op = "write_file" /\ Main_2_6[5].op = "exit" /\ DOMAIN Main_2_6 = 1 .. 5
    BY DEF Main_2_6, Exit, OpenFile, Dup, WriteFile
  <2>. QED
    BY <2>1 DEF ForksApart
<1>. QED
  BY <1>2, <1>3, <1>4 DEF Starts

LEMMA Start_6_1 == Starts(Main_6_1)
<1>1. /\ Fork(C1, <<Exit(0)>>, FailsMinus1) \in ParentCalls
      /\ Exit(0) \in ParentCalls
  BY ExitsNested, ParentMade, ChildrenStart, ChildrenAssumption DEF FailsMinus1
<1>2. Main_6_1 \in Seq(ParentCalls)
  BY <1>1 DEF Main_6_1
<1>3. Whole(Main_6_1)
  BY DEF Main_6_1, Whole, Exit
<1>4. ForksApart(Main_6_1)
  BY ChildrenAssumption DEF ForksApart, Main_6_1, Exit, Fork
<1>. QED
  BY <1>2, <1>3, <1>4 DEF Starts

LEMMA Start_6_2 == Starts(Main_6_2)
<1>1. /\ Fork(C1, <<Exit(0)>>, FailsMinus1) \in ParentCalls
      /\ Exit(0) \in ParentCalls
  BY ExitsNested, ParentMade, ChildrenStart, ChildrenAssumption DEF FailsMinus1
<1>2. Main_6_2 \in Seq(ParentCalls)
  BY <1>1 DEF Main_6_2
<1>3. Whole(Main_6_2)
  BY DEF Main_6_2, Whole, Exit
<1>4. ForksApart(Main_6_2)
  BY ChildrenAssumption DEF ForksApart, Main_6_2, Exit, Fork
<1>. QED
  BY <1>2, <1>3, <1>4 DEF Starts

LEMMA Start_7_1 == Starts(Main_7_1)
<1>1. /\ Fork(C1, <<Exit(3)>>, FailsMinus1) \in ParentCalls
      /\ Wait(Children, "range", FailsMinus1) \in ParentCalls
      /\ Exit(0) \in ParentCalls
  BY ExitsNested, ParentMade, ChildrenStart, ChildrenAssumption DEF FailsMinus1
<1>2. Main_7_1 \in Seq(ParentCalls)
  BY <1>1 DEF Main_7_1
<1>3. Whole(Main_7_1)
  BY DEF Main_7_1, Whole, Exit
<1>4. ForksApart(Main_7_1)
  BY ChildrenAssumption DEF ForksApart, Main_7_1, Exit, Fork, Wait
<1>. QED
  BY <1>2, <1>3, <1>4 DEF Starts

LEMMA Start_7_2 == Starts(Main_7_2)
<1>1. /\ Fork(C1, <<Exit(1)>>, FailsMinus1) \in ParentCalls
      /\ Fork(C2, <<Exit(2)>>, FailsMinus1) \in ParentCalls
      /\ Wait(Children, "range", FailsMinus1) \in ParentCalls
      /\ Exit(0) \in ParentCalls
  BY ExitsNested, ParentMade, ChildrenStart, ChildrenAssumption DEF FailsMinus1
<1>2. Main_7_2 \in Seq(ParentCalls)
  BY <1>1 DEF Main_7_2
<1>3. Whole(Main_7_2)
  BY DEF Main_7_2, Whole, Exit
<1>4. ForksApart(Main_7_2)
  BY ChildrenAssumption DEF ForksApart, Main_7_2, Exit, Fork, Wait
<1>. QED
  BY <1>2, <1>3, <1>4 DEF Starts

LEMMA Start_7_3 == Starts(Main_7_3)
<1>1. /\ Fork(C1, <<Exit(0)>>, FailsMinus1) \in ParentCalls
      /\ Fork(C2, Child2_7_3, Child2_7_3) \in ParentCalls
      /\ Wait({C1}, "unsaid", FailsMinus1) \in ParentCalls
      /\ Wait({C2}, "unsaid", FailsMinus1) \in ParentCalls
      /\ Exit(0) \in ParentCalls
  BY ExitsNested, ParentMade, ChildrenStart, ChildrenAssumption DEF FailsMinus1, Child2_7_3
<1>2. Main_7_3 \in Seq(ParentCalls)
  BY <1>1 DEF Main_7_3
<1>3. Whole(Main_7_3)
  BY DEF Main_7_3, Whole, Exit
<1>4. ForksApart(Main_7_3)
  BY ChildrenAssumption DEF ForksApart, Main_7_3, Exit, Fork, Wait
<1>. QED
  BY <1>2, <1>3, <1>4 DEF Starts

LEMMA Start_7_4 == Starts(Main_7_4)
<1>1. /\ Fork(C1, <<Exit(0)>>, FailsMinus1) \in ParentCalls
      /\ Fork(C2, Child2_7_4, Child2_7_4) \in ParentCalls
      /\ WaitNoHang({C1}, FailsMinus1) \in ParentCalls
      /\ WaitNoHang({C2}, FailsMinus1) \in ParentCalls
      /\ Exit(0) \in ParentCalls
  BY ExitsNested, ParentMade, ChildrenStart, ChildrenAssumption DEF FailsMinus1, Child2_7_4
<1>2. Main_7_4 \in Seq(ParentCalls)
  BY <1>1 DEF Main_7_4
<1>3. Whole(Main_7_4)
  BY DEF Main_7_4, Whole, Exit
<1>4. ForksApart(Main_7_4)
  BY ChildrenAssumption DEF ForksApart, Main_7_4, Exit, Fork, WaitNoHang
<1>. QED
  BY <1>2, <1>3, <1>4 DEF Starts

LEMMA Start_7_5 == Starts(Main_7_5)
<1>1. /\ Fork(C1, <<Exit(2)>>, FailsMinus1) \in ParentCalls
      /\ Fork(C2, Child2_7_5, Child2_7_5) \in ParentCalls
      /\ WaitNoHangWhile(2, FailsMinus1) \in ParentCalls
      /\ Exit(0) \in ParentCalls
  BY ExitsNested, ParentMade, ChildrenStart, ChildrenAssumption DEF FailsMinus1, Child2_7_5
<1>2. Main_7_5 \in Seq(ParentCalls)
  BY <1>1 DEF Main_7_5
<1>3. Whole(Main_7_5)
  BY DEF Main_7_5, Whole, Exit
<1>4. ForksApart(Main_7_5)
  BY ChildrenAssumption DEF ForksApart, Main_7_5, Exit, Fork, WaitNoHangWhile
<1>. QED
  BY <1>2, <1>3, <1>4 DEF Starts

LEMMA Start_7_6 == Starts(Main_7_6)
<1>1. /\ Fork(C1, <<Exit(2)>>, FailsMinus1) \in ParentCalls
      /\ Exit(0) \in ParentCalls
  BY ExitsNested, ParentMade, ChildrenStart, ChildrenAssumption DEF FailsMinus1
<1>2. Main_7_6 \in Seq(ParentCalls)
  BY <1>1 DEF Main_7_6
<1>3. Whole(Main_7_6)
  BY DEF Main_7_6, Whole, Exit
<1>4. ForksApart(Main_7_6)
  BY ChildrenAssumption DEF ForksApart, Main_7_6, Exit, Fork
<1>. QED
  BY <1>2, <1>3, <1>4 DEF Starts

LEMMA Start_7_7 == Starts(Main_7_7)
<1>1. /\ Fork(C1, <<Exit(2)>>, FailsMinus1) \in ParentCalls
      /\ Exit(0) \in ParentCalls
  BY ExitsNested, ParentMade, ChildrenStart, ChildrenAssumption DEF FailsMinus1
<1>2. Main_7_7 \in Seq(ParentCalls)
  BY <1>1 DEF Main_7_7
<1>3. Whole(Main_7_7)
  BY DEF Main_7_7, Whole, Exit
<1>4. ForksApart(Main_7_7)
  BY ChildrenAssumption DEF ForksApart, Main_7_7, Exit, Fork
<1>. QED
  BY <1>2, <1>3, <1>4 DEF Starts

LEMMA Start_7_8 == Starts(Main_7_8)
<1>1. /\ Fork(C1, <<Exit(2)>>, FailsMinus1) \in ParentCalls
      /\ Wait({C1}, "unsaid", <<>>) \in ParentCalls
      /\ Exit(0) \in ParentCalls
  BY ExitsNested, ParentMade, ChildrenStart, ChildrenAssumption, EmptyNested DEF FailsMinus1
<1>2. Main_7_8 \in Seq(ParentCalls)
  BY <1>1 DEF Main_7_8
<1>3. Whole(Main_7_8)
  BY DEF Main_7_8, Whole, Exit
<1>4. ForksApart(Main_7_8)
  BY ChildrenAssumption DEF ForksApart, Main_7_8, Exit, Fork, Wait
<1>. QED
  BY <1>2, <1>3, <1>4 DEF Starts

LEMMA Start_7_9 == Starts(Main_7_9)
<1>1. /\ OpenFile(TRUE, <<Exit(-2)>>) \in ParentCalls
      /\ WriteFile(Text("Parent", 2), <<Exit(-4)>>) \in ParentCalls
      /\ Fork(C1, Child_7_9, FailsMinus1) \in ParentCalls
      /\ Wait({C1}, "unsaid", FailsMinus1) \in ParentCalls
      /\ Exit(0) \in ParentCalls
  <2>1. <<Exit(-2)>> \in Nested /\ <<Exit(-4)>> \in Nested
    BY ExitsNested, EmptyNested
  <2>2. /\ OpenFile(TRUE, <<Exit(-2)>>) \in ParentCalls
        /\ WriteFile(Text("Parent", 2), <<Exit(-4)>>) \in ParentCalls
    BY <2>1, TextsTyped, ParentMade, Zenon
  <2>3. /\ Fork(C1, Child_7_9, FailsMinus1) \in ParentCalls
        /\ Wait({C1}, "unsaid", FailsMinus1) \in ParentCalls
        /\ Exit(0) \in ParentCalls
    BY ExitsNested, ParentMade, TextsTyped, ChildrenStart, ChildrenAssumption DEF FailsMinus1
  <2>. QED
    BY <2>2, <2>3
<1>2. Main_7_9 \in Seq(ParentCalls)
  <2> DEFINE a0 == OpenFile(TRUE, <<Exit(-2)>>)
  <2> DEFINE a1 == WriteFile(Text("Parent", 2), <<Exit(-4)>>)
  <2>1. Main_7_9 = <<a0, a1, Fork(C1, Child_7_9, FailsMinus1), Wait({C1}, "unsaid", FailsMinus1), Exit(0)>>
    BY DEF Main_7_9
  <2>2. a0 \in ParentCalls /\ a1 \in ParentCalls
    BY <1>1
  <2>. HIDE DEF a0, a1
  <2>. QED
    BY <1>1, <2>1, <2>2
<1>3. Whole(Main_7_9)
  BY DEF Main_7_9, Whole, Exit
<1>4. ForksApart(Main_7_9)
  BY ChildrenAssumption DEF ForksApart, Main_7_9, Exit, Fork, Wait, OpenFile, WriteFile
<1>. QED
  BY <1>2, <1>3, <1>4 DEF Starts

LEMMA Start_8_1 == Starts(Main_8_1)
<1>1. /\ Exec(<<Exit(0)>>) \in ParentCalls
      /\ Exit(0) \in ParentCalls
  BY ExitsNested, ParentMade
<1>2. Main_8_1 \in Seq(ParentCalls)
  BY <1>1 DEF Main_8_1
<1>3. Whole(Main_8_1)
  BY DEF Main_8_1, Whole, Exit
<1>4. ForksApart(Main_8_1)
  BY DEF ForksApart, Main_8_1, Exit, Exec
<1>. QED
  BY <1>2, <1>3, <1>4 DEF Starts

LEMMA Start_8_2 == Starts(Main_8_2)
<1>1. /\ Exec(<<Exit(0)>>) \in ParentCalls
      /\ Exit(0) \in ParentCalls
  BY ExitsNested, ParentMade
<1>2. Main_8_2 \in Seq(ParentCalls)
  BY <1>1 DEF Main_8_2
<1>3. Whole(Main_8_2)
  BY DEF Main_8_2, Whole, Exit
<1>4. ForksApart(Main_8_2)
  BY DEF ForksApart, Main_8_2, Exit, Exec
<1>. QED
  BY <1>2, <1>3, <1>4 DEF Starts

LEMMA Start_8_3 == Starts(Main_8_3)
<1>1. /\ Exec(<<Exit(0)>>) \in ParentCalls
      /\ Exit(0) \in ParentCalls
  BY ExitsNested, ParentMade
<1>2. Main_8_3 \in Seq(ParentCalls)
  BY <1>1 DEF Main_8_3
<1>3. Whole(Main_8_3)
  BY DEF Main_8_3, Whole, Exit
<1>4. ForksApart(Main_8_3)
  BY DEF ForksApart, Main_8_3, Exit, Exec
<1>. QED
  BY <1>2, <1>3, <1>4 DEF Starts

LEMMA Start_8_4 == Starts(Main_8_4)
<1>1. /\ Fork(C1, <<Exec(P2_8_4), Exit(0)>>, FailsMinus1) \in ParentCalls
      /\ Wait(Children, "unsaid", <<>>) \in ParentCalls
      /\ Exit(0) \in ParentCalls
  BY ExitsNested, ParentMade, ChildrenStart, ChildrenAssumption, EmptyNested DEF FailsMinus1
<1>2. Main_8_4 \in Seq(ParentCalls)
  BY <1>1 DEF Main_8_4
<1>3. Whole(Main_8_4)
  BY DEF Main_8_4, Whole, Exit
<1>4. ForksApart(Main_8_4)
  BY ChildrenAssumption DEF ForksApart, Main_8_4, Exit, Fork, Wait
<1>. QED
  BY <1>2, <1>3, <1>4 DEF Starts

LEMMA BodiesNested ==
    /\ <<IfCaught("INT", <<>>), IfCaught("TERM", <<Exit(0)>>)>> \in Nested
    /\ <<CountAlarm(T_END), Alarm>> \in Nested
<1> DEFINE D == SharedCalls(Exits) \cup Counts
<1>1. (\A s \in Signals, t \in Exits : IfCaught(s, t) \in D) /\ Alarm \in D
  BY Made
<1>2. CountAlarm(T_END) \in D
  BY DEF Counts, CountAlarm
<1>. HIDE DEF D
<1>3. "INT" \in Signals /\ "TERM" \in Signals /\ <<>> \in Exits /\ <<Exit(0)>> \in Exits
  BY SignalsAre, ExitsNested, EmptyNested
<1>4. IfCaught("INT", <<>>) \in D /\ IfCaught("TERM", <<Exit(0)>>) \in D
  BY <1>1, <1>3
<1>5. /\ <<IfCaught("INT", <<>>), IfCaught("TERM", <<Exit(0)>>)>> \in Seq(D)
      /\ <<CountAlarm(T_END), Alarm>> \in Seq(D)
  BY <1>1, <1>2, <1>4
<1>. QED
  BY <1>5 DEF Nested, D

LEMMA Start_9_1 == Starts(Main_9_1)
<1>1. /\ Block({"INT", "TERM"}) \in ParentCalls
      /\ Handle("INT") \in ParentCalls
      /\ Handle("TERM") \in ParentCalls
      /\ SuspendWhileNot({"INT", "TERM"}, <<IfCaught("INT", <<>>), IfCaught("TERM", <<Exit(0)>>)>>) \in ParentCalls
      /\ Exit(0) \in ParentCalls
  BY ExitsNested, ParentMade, EmptyNested, SignalsAre, BodiesNested
<1>2. Main_9_1 \in Seq(ParentCalls)
  BY <1>1 DEF Main_9_1
<1>3. Whole(Main_9_1)
  BY DEF Main_9_1, Whole, Exit
<1>4. ForksApart(Main_9_1)
  BY DEF ForksApart, Main_9_1, Exit, Block, Handle, SuspendWhileNot
<1>. QED
  BY <1>2, <1>3, <1>4 DEF Starts

LEMMA Start_9_2 == Starts(Main_9_2)
<1>1. /\ Block({"ALRM"}) \in ParentCalls
      /\ Handle("ALRM") \in ParentCalls
      /\ Alarm \in ParentCalls
      /\ SuspendWhileNot({"ALRM"}, <<CountAlarm(T_END), Alarm>>) \in ParentCalls
      /\ Exit(0) \in ParentCalls
  BY ExitsNested, ParentMade, SignalsAre, BodiesNested
<1>2. Main_9_2 \in Seq(ParentCalls)
  BY <1>1 DEF Main_9_2
<1>3. Whole(Main_9_2)
  BY DEF Main_9_2, Whole, Exit
<1>4. ForksApart(Main_9_2)
  BY DEF ForksApart, Main_9_2, Exit, Block, Handle, SuspendWhileNot, Alarm
<1>. QED
  BY <1>2, <1>3, <1>4 DEF Starts

LEMMA Start_9_3 == Starts(Main_9_3)
<1>1. /\ Block({"USR1", "USR2"}) \in ParentCalls
      /\ Handle("USR1") \in ParentCalls
      /\ Handle("USR2") \in ParentCalls
      /\ Fork(C1, <<Exec(Program_2_9_3), Exit(1)>>, Fails) \in ParentCalls
      /\ SuspendWhileNot({"USR1"}, <<>>) \in ParentCalls
      /\ Kill(C1, "USR1", Fails) \in ParentCalls
      /\ SuspendWhileNot({"USR2"}, <<>>) \in ParentCalls
      /\ Wait({C1}, "WIFEXITED", Fails) \in ParentCalls
      /\ Exit(0) \in ParentCalls
  BY ExitsNested, ParentMade, ChildrenStart, ChildrenAssumption, EmptyNested, SignalsAre DEF Fails, Procs
<1>2. Main_9_3 \in Seq(ParentCalls)
  BY <1>1 DEF Main_9_3
<1>3. Whole(Main_9_3)
  BY DEF Main_9_3, Whole, Exit
<1>4. ForksApart(Main_9_3)
  BY ChildrenAssumption DEF ForksApart, Main_9_3, Exit, Fork, Wait, Block, Handle, SuspendWhileNot, Kill
<1>. QED
  BY <1>2, <1>3, <1>4 DEF Starts

LEMMA Start_11_1 == Starts(Main_11_1)
<1>1. /\ OpenPipe \in ParentCalls
      /\ WritePipe(20, Fails) \in ParentCalls
      /\ CloseEnd("write") \in ParentCalls
      /\ ReadPipe(6, TRUE) \in ParentCalls
      /\ CloseEnd("read") \in ParentCalls
      /\ Exit(0) \in ParentCalls
  <2>1. 6 \in Nat
    BY ExitsNested, EmptyNested
  <2>2. /\ ReadPipe(6, TRUE) \in ParentCalls
    BY <2>1, ParentMade, Zenon
  <2>3. /\ OpenPipe \in ParentCalls
        /\ WritePipe(20, Fails) \in ParentCalls
        /\ CloseEnd("write") \in ParentCalls
        /\ CloseEnd("read") \in ParentCalls
        /\ Exit(0) \in ParentCalls
    BY ExitsNested, ParentMade DEF Fails
  <2>. QED
    BY <2>2, <2>3
<1>2. Main_11_1 \in Seq(ParentCalls)
  <2> DEFINE a0 == ReadPipe(6, TRUE)
  <2>1. Main_11_1 = <<OpenPipe, WritePipe(20, Fails), CloseEnd("write"), a0, CloseEnd("read"), Exit(0)>>
    BY DEF Main_11_1
  <2>2. a0 \in ParentCalls
    BY <1>1
  <2>. HIDE DEF a0
  <2>. QED
    BY <1>1, <2>1, <2>2
<1>3. Whole(Main_11_1)
  BY DEF Main_11_1, Whole, Exit
<1>4. ForksApart(Main_11_1)
  BY DEF ForksApart, Main_11_1, Exit, OpenPipe, CloseEnd, WritePipe, ReadPipe
<1>. QED
  BY <1>2, <1>3, <1>4 DEF Starts

LEMMA Start_11_2 == Starts(Main_11_2)
<1>1. /\ OpenPipe \in ParentCalls
      /\ Fork(C1, Child_11_2, Fails) \in ParentCalls
      /\ CloseEnd("read") \in ParentCalls
      /\ WritePipe(15, Fails) \in ParentCalls
      /\ CloseEnd("write") \in ParentCalls
      /\ Wait(Children, "unsaid", Fails) \in ParentCalls
      /\ Exit(0) \in ParentCalls
  BY ExitsNested, ParentMade, ChildrenStart, ChildrenAssumption DEF Fails
<1>2. Main_11_2 \in Seq(ParentCalls)
  BY <1>1 DEF Main_11_2
<1>3. Whole(Main_11_2)
  BY DEF Main_11_2, Whole, Exit
<1>4. ForksApart(Main_11_2)
  BY ChildrenAssumption DEF ForksApart, Main_11_2, Exit, Fork, Wait, OpenPipe, CloseEnd, WritePipe
<1>. QED
  BY <1>2, <1>3, <1>4 DEF Starts

LEMMA Start_11_3 == Starts(Main_11_3)
<1>1. /\ Ignore("PIPE") \in ParentCalls
      /\ OpenPipe \in ParentCalls
      /\ Fork(C1, Child_11_3, Fails) \in ParentCalls
      /\ CloseEnd("read") \in ParentCalls
      /\ WritePipe(4, <<>>) \in ParentCalls
      /\ CloseEnd("write") \in ParentCalls
      /\ Wait(Children, "unsaid", Fails) \in ParentCalls
      /\ Exit(0) \in ParentCalls
  BY ExitsNested, ParentMade, ChildrenStart, ChildrenAssumption, EmptyNested, SignalsAre DEF Fails
<1>2. Main_11_3 \in Seq(ParentCalls)
  BY <1>1 DEF Main_11_3
<1>3. Whole(Main_11_3)
  BY DEF Main_11_3, Whole, Exit
<1>4. ForksApart(Main_11_3)
  BY ChildrenAssumption DEF ForksApart, Main_11_3, Exit, Fork, Wait, Ignore, OpenPipe, CloseEnd, WritePipe
<1>. QED
  BY <1>2, <1>3, <1>4 DEF Starts

(* The search of 2_5 is in no other program.                               *)
LEMMA Start_2_5 ==
    /\ Main_2_5 \in Seq(CallsOf("2_5", Parent)) /\ Whole(Main_2_5) /\ ForksApart(Main_2_5)
<1> DEFINE open == OpenFile(FALSE, <<Exit(-2)>>)
           search == Searching(0)
           C == CallsOf("2_5", Parent)
<1>1. <<Exit(-2)>> \in Nested
  BY ExitsNested
<1>2. open \in C /\ Exit(0) \in C
  <2>1. open \in ParentCalls
    BY <1>1, ParentMade, Zenon
  <2>2. Exit(0) \in ParentCalls
    BY ParentMade
  <2>. QED
    BY <2>1, <2>2, NestedTyped
<1>3. search \in C
  BY DEF CallsOf, Searches
<1>4. Main_2_5 = <<open, search, Exit(0)>>
  BY DEF Main_2_5, Replace, StepBack, Searching
<1>5. open.op = "open" /\ search.op = "search"
  BY DEF OpenFile, Searching, Search
<1>. HIDE DEF open, search, C
<1>6. Main_2_5 \in Seq(C)
  BY <1>2, <1>3, <1>4
<1>7. Whole(Main_2_5) /\ ForksApart(Main_2_5)
  BY <1>4, <1>5 DEF Whole, ForksApart, Exit
<1>. QED
  BY <1>6, <1>7 DEF C

LEMMA MainTyped ==
    ASSUME NEW name \in Names
    PROVE  /\ Main(name) \in Seq(CallsOf(name, Parent))
           /\ Whole(Main(name)) /\ ForksApart(Main(name))
<1>1. CASE name = "2_5"
  BY <1>1, Start_2_5 DEF Main
<1>2. CASE name # "2_5"
  <2>1. Starts(Main(name))
    BY <1>2, Start_2_1, Start_2_2, Start_2_3, Start_2_4, Start_2_6, Start_6_1, Start_6_2,
       Start_7_1, Start_7_2, Start_7_3, Start_7_4, Start_7_5, Start_7_6, Start_7_7, Start_7_8,
       Start_7_9, Start_8_1, Start_8_2, Start_8_3, Start_8_4, Start_9_1, Start_9_2, Start_9_3,
       Start_11_1, Start_11_2, Start_11_3
    DEF Names, Main
  <2>. QED
    BY <2>1, NestedTyped, MoreSequences DEF Starts
<1>. QED
  BY <1>1, <1>2

LEMMA OriginalsTyped == Originals \subseteq Seq(Bytes)
<1>1. \A n \in InputSizes : Text("input", n) \in Seq(Bytes)
  BY TextTyped, SizesAssumption DEF Texts
<1>2. ASSUME NEW n \in 0 .. MaxLetters, NEW f \in [1 .. n -> Letters]
      PROVE  f \in Seq(Bytes)
  <2>1. n \in Nat /\ f \in [1 .. n -> Bytes]
    BY <1>2, LettersTyped, SizesAssumption
  <2>. QED
    BY <2>1, FunctionIsSeq
<1>3. <<>> \in Seq(Bytes) /\ Text("input", 5) \in Seq(Bytes)
  BY TextsTyped
<1>. QED
  BY <1>1, <1>2, <1>3 DEF Originals

LEMMA InitBase ==
    ASSUME Init
    PROVE  Base
<1>1. /\ program \in Names /\ Parent \in Procs /\ Parent \notin Children
      /\ Children \subseteq Procs /\ \A c \in Children : run[c] = "none"
      /\ run[Parent] = "running" /\ run \in [Procs -> {"none", "running", "zombie", "reaped"}]
  BY ProcessesAssumption DEF Init, Booted, Procs
<1>2. LivesTyped
  <2>1. 0 \in Statuses
    BY InStatuses
  <2>. QED
    BY <1>1, <2>1 DEF Init, Booted, LivesTyped
<1>3. SignalsTyped
  BY DEF Init, Booted, SignalsTyped
<1>4. TimersTyped /\ CounterTyped /\ PipeTyped
  BY DEF Init, Booted, TimersTyped, CounterTyped, PipeTyped, T_END
<1>5. FileTyped /\ FaultsTyped
  <2>1. file \in Seq(Bytes)
    BY OriginalsTyped DEF Init
  <2>2. buffer \in Seq(Bytes) /\ offset \in Nat /\ torn \in BOOLEAN
    <3>1. buffer = <<>> /\ offset = 0 /\ torn = FALSE
      BY DEF Init, Booted
    <3>. QED
      BY <3>1, EmptySeq
  <2>3. faults \in 0 .. MaxFaults
    BY ProcessesAssumption DEF Init, Booted
  <2>. QED
    BY <2>1, <2>2, <2>3 DEF FileTyped, FaultsTyped
<1>6. code[Parent] = Main(program) /\ \A p \in Children : code[p] = <<>>
  BY <1>1 DEF Init
<1>7. Coded
  <2>1. DOMAIN code = Procs
    BY DEF Init
  <2>2. code[Parent] \in Seq(CallsOf(program, Parent)) /\ Whole(code[Parent])
    BY <1>1, <1>6, MainTyped
  <2>3. \A c \in Children : code[c] \in Seq(CallsOf(program, c))
    BY <1>6, EmptySeq
  <2>. QED
    BY <1>1, <2>1, <2>2, <2>3 DEF Coded, Procs
<1>8. ForksOnce
  BY <1>1, <1>6, <1>7, MainTyped, ForksTyped DEF ForksOnce, ForksApart
<1>9. Lives /\ Counted
  BY <1>1 DEF Init, Booted, Lives, Counted, IsOver, Running, T_END
<1>. QED
  BY <1>2, <1>3, <1>4, <1>5, <1>7, <1>8, <1>9 DEF Base

-----------------------------------------------------------------------------
(* Which steps there are                                                   *)

(* A step of p is a step of the call that p has come to.                   *)
LEMMA StepOfCall ==
    ASSUME NEW p, Step(p)
    PROVE  /\ Running(p)
           /\ Now(p).op = "exit" => DoExit(p)
           /\ Now(p).op = "fork" => DoFork(p)
           /\ Now(p).op = "exec" => DoExec(p)
           /\ Now(p).op = "wait" => DoWait(p)
           /\ Now(p).op = "poll" => DoPoll(p)
           /\ Now(p).op = "poll_while" => DoPollWhile(p)
           /\ Now(p).op = "block" => DoBlock(p)
           /\ Now(p).op = "handle" => DoHandle(p)
           /\ Now(p).op = "ignore" => DoIgnore(p)
           /\ Now(p).op = "kill" => DoKill(p)
           /\ Now(p).op = "test" => DoTest(p)
           /\ Now(p).op = "suspend" => DoSuspend(p)
           /\ Now(p).op = "if" => DoIfCaught(p)
           /\ Now(p).op = "alarm" => DoAlarm(p)
           /\ Now(p).op = "count" => DoCount(p)
           /\ Now(p).op = "pipe" => DoPipe(p)
           /\ Now(p).op = "close" => DoClose(p)
           /\ Now(p).op = "write" => DoWrite(p) \/ BrokenPipe(p)
           /\ Now(p).op = "read" => DoRead(p)
           /\ Now(p).op = "open" => DoOpenFile(p)
           /\ Now(p).op = "dup" => DoDup(p)
           /\ Now(p).op = "write_file" => DoWriteFile(p)
           /\ Now(p).op = "read_file" => DoReadFile(p)
           /\ Now(p).op = "lseek" => DoLSeek(p)
           /\ Now(p).op = "search" => DoSearch(p)
           /\ Now(p).op \in {"exit", "fork", "exec", "wait", "poll", "poll_while", "block", "handle", "ignore", "kill", "test", "suspend", "if", "alarm", "count", "pipe", "close", "write", "read", "open", "dup", "write_file", "read_file", "lseek", "search"}
<1>1. DoExit(p) => Running(p) /\ Now(p).op = "exit"
  BY DEF DoExit, Calls
<1>2. DoFork(p) => Running(p) /\ Now(p).op = "fork"
  BY DEF DoFork, Calls
<1>3. DoExec(p) => Running(p) /\ Now(p).op = "exec"
  BY DEF DoExec, Calls
<1>4. DoWait(p) => Running(p) /\ Now(p).op = "wait"
  BY DEF DoWait, Calls
<1>5. DoPoll(p) => Running(p) /\ Now(p).op = "poll"
  BY DEF DoPoll, Calls
<1>6. DoPollWhile(p) => Running(p) /\ Now(p).op = "poll_while"
  BY DEF DoPollWhile, Calls
<1>7. DoBlock(p) => Running(p) /\ Now(p).op = "block"
  BY DEF DoBlock, Calls
<1>8. DoHandle(p) => Running(p) /\ Now(p).op = "handle"
  BY DEF DoHandle, Calls
<1>9. DoIgnore(p) => Running(p) /\ Now(p).op = "ignore"
  BY DEF DoIgnore, Calls
<1>10. DoKill(p) => Running(p) /\ Now(p).op = "kill"
  BY DEF DoKill, Calls
<1>11. DoTest(p) => Running(p) /\ Now(p).op = "test"
  BY DEF DoTest, Calls
<1>12. DoSuspend(p) => Running(p) /\ Now(p).op = "suspend"
  BY DEF DoSuspend, Calls
<1>13. DoIfCaught(p) => Running(p) /\ Now(p).op = "if"
  BY DEF DoIfCaught, Calls
<1>14. DoAlarm(p) => Running(p) /\ Now(p).op = "alarm"
  BY DEF DoAlarm, Calls
<1>15. DoCount(p) => Running(p) /\ Now(p).op = "count"
  BY DEF DoCount, Calls
<1>16. DoPipe(p) => Running(p) /\ Now(p).op = "pipe"
  BY DEF DoPipe, Calls
<1>17. DoClose(p) => Running(p) /\ Now(p).op = "close"
  BY DEF DoClose, Calls
<1>18. DoWrite(p) => Running(p) /\ Now(p).op = "write"
  BY DEF DoWrite, Calls
<1>19. BrokenPipe(p) => Running(p) /\ Now(p).op = "write"
  BY DEF BrokenPipe, Calls
<1>20. DoRead(p) => Running(p) /\ Now(p).op = "read"
  BY DEF DoRead, Calls
<1>21. DoOpenFile(p) => Running(p) /\ Now(p).op = "open"
  BY DEF DoOpenFile, Calls
<1>22. DoDup(p) => Running(p) /\ Now(p).op = "dup"
  BY DEF DoDup, Calls
<1>23. DoWriteFile(p) => Running(p) /\ Now(p).op = "write_file"
  BY DEF DoWriteFile, Calls
<1>24. DoReadFile(p) => Running(p) /\ Now(p).op = "read_file"
  BY DEF DoReadFile, Calls
<1>25. DoLSeek(p) => Running(p) /\ Now(p).op = "lseek"
  BY DEF DoLSeek, Calls
<1>26. DoSearch(p) => Running(p) /\ Now(p).op = "search"
  BY DEF DoSearch, Calls
<1>. QED
  BY <1>1, <1>2, <1>3, <1>4, <1>5, <1>6, <1>7, <1>8, <1>9, <1>10, <1>11, <1>12, <1>13,
     <1>14, <1>15, <1>16, <1>17, <1>18, <1>19, <1>20, <1>21, <1>22, <1>23, <1>24, <1>25, <1>26 DEF Step

(* Nothing changes that a program without handlers would notice.           *)
Same ==
    /\ UNCHANGED <<program, original, life, io, faults>>
    /\ DOMAIN code' = DOMAIN code /\ \A p \in Procs : code'[p] = code[p]

(* p is ended by a signal.                                                 *)
Dies(p) == Running(p) /\ \E s \in Signals : EndBySignal(p, s)

Moves(p) == Running(p) /\ (Step(p) \/ CallFails(p) \/ ShortWrite(p))

LEMMA NextSteps ==
    ASSUME Base, [Next]_vars, program # "9_1", ~(Overrun /\ Clobbered(Parent)),
           \A p \in Procs : Running(p) => Now(p).op # "suspend"
    PROVE  /\ UNCHANGED <<program, original>>
           /\ Same \/ \E p \in Procs : Moves(p) \/ Dies(p)
<1>0. UNCHANGED <<program, original>>
  BY DEF Next, vars
<1>1. CASE UNCHANGED vars
  BY <1>1 DEF vars, kernel, Same
<1>2. CASE \E p \in Procs : Step(p) \/ CallFails(p) \/ ShortWrite(p)
  <2>1. PICK p \in Procs : Step(p) \/ CallFails(p) \/ ShortWrite(p)
    BY <1>2
  <2>2. Step(p) => Running(p)
    BY StepOfCall
  <2>3. CallFails(p) \/ ShortWrite(p) => Running(p)
    BY DEF CallFails, ShortWrite, Calls
  <2>. QED
    BY <1>0, <2>1, <2>2, <2>3 DEF Moves
<1>3. ASSUME NEW p \in Procs, Deliver(p)
      PROVE  Same \/ Dies(p)
  <2>1. PICK s \in pending[p] \ mask[p] :
           IF s \in handled[p]
           THEN /\ pending' = [pending EXCEPT ![p] = @ \ {s}]
                /\ caught' = [caught EXCEPT ![p] = @ \cup {s}]
                /\ \E rest \in {code[p], IF Now(p) = SigSuspend THEN Tail(code[p]) ELSE code[p]} :
                      code' = [code EXCEPT ![p] = rest]
                /\ UNCHANGED <<life, dispositions, timer, counter, io>>
           ELSE EndBySignal(p, s)
    BY <1>3 DEF Deliver
  <2>2. Running(p) /\ UNCHANGED faults /\ s \in Signals
    BY <1>3 DEF Deliver, Base, SignalsTyped
  <2>3. CASE s \in handled[p]
    <3>1. Now(p) # SigSuspend
      BY <2>2 DEF SigSuspend
    <3>2. code' = [code EXCEPT ![p] = code[p]]
      BY <2>1, <2>3, <3>1
    <3>. QED
      BY <1>0, <2>1, <2>2, <2>3, <3>2 DEF Same
  <2>4. CASE s \notin handled[p]
    BY <2>1, <2>2, <2>4 DEF Dies
  <2>. QED
    BY <2>3, <2>4
<1>4. ASSUME NEW p \in Procs, Expire(p)
      PROVE  Same
  BY <1>0, <1>4 DEF Expire, Same
<1>5. ASSUME NEW p \in Procs, Killed(p)
      PROVE  Dies(p)
  BY <1>5, SignalsAre DEF Killed, Dies
<1>. QED
  BY <1>0, <1>1, <1>2, <1>3, <1>4, <1>5 DEF Next

(* Who died did not succeed.                                               *)
LEMMA DeathFails ==
    ASSUME Base, UNCHANGED <<program, original>>, NEW p \in Procs, Dies(p)
    PROVE  /\ ~Running(p)' /\ ~Succeeded(p)'
           /\ \A q \in Procs \ {p} : /\ Running(q)' <=> Running(q)
                                     /\ run'[q] = "none" <=> run[q] = "none"
                                     /\ Succeeded(q)' <=> Succeeded(q)
           /\ UNCHANGED <<code, pipe, written, got, disk>>
           /\ ends' = [ends EXCEPT ![p] = {}]
<1>1. PICK s \in Signals : EndBySignal(p, s)
  BY DEF Dies
<1>2. Running(p) /\ run \in [Procs -> {"none", "running", "zombie", "reaped"}]
  BY DEF Dies, Base, LivesTyped
<1>3. status \in [Procs -> Statuses]
  BY DEF Base, LivesTyped
<1>4. /\ p \in killed' /\ run'[p] # "running"
      /\ \A q \in Procs \ {p} : /\ q \in killed' <=> q \in killed
                                /\ status'[q] = status[q]
  BY <1>1, <1>2, <1>3 DEF EndBySignal, End
<1>5. \A q \in Procs \ {p} : \/ run'[q] = run[q]
                             \/ run[q] = "zombie" /\ run'[q] = "reaped"
  BY <1>1, <1>2 DEF EndBySignal, End
<1>. QED
  BY <1>1, <1>2, <1>4, <1>5 DEF EndBySignal, End, Succeeded, Running

LEMMA ExitEnds ==
    ASSUME Base, UNCHANGED <<program, original>>, NEW p \in Procs, DoExit(p)
    PROVE  /\ ~Running(p)'
           /\ Bad(Now(p).status) => ~Succeeded(p)'
           /\ \A q \in Procs \ {p} : /\ Running(q)' <=> Running(q)
                                     /\ run'[q] = "none" <=> run[q] = "none"
                                     /\ Succeeded(q)' <=> Succeeded(q)
           /\ UNCHANGED <<code, pipe, written, got, disk, faults>>
           /\ ends' = [ends EXCEPT ![p] = {}]
<1>1. /\ Running(p) /\ Now(p).op = "exit" /\ UNCHANGED faults
      /\ End(p, ExitStatus(Now(p).status), {})
  BY DEF DoExit, Calls
<1>2. /\ run \in [Procs -> {"none", "running", "zombie", "reaped"}]
      /\ status \in [Procs -> Statuses]
  BY DEF Base, LivesTyped
<1>3. /\ run'[p] # "running" /\ status'[p] = ExitStatus(Now(p).status) /\ killed' = killed
      /\ \A q \in Procs \ {p} : status'[q] = status[q]
  BY <1>1, <1>2 DEF End
<1>4. \A q \in Procs \ {p} : \/ run'[q] = run[q]
                             \/ run[q] = "zombie" /\ run'[q] = "reaped"
  BY <1>1, <1>2 DEF End
<1>5. Bad(Now(p).status) => status'[p] # 0
  <2>1. Now(p).status \in Int
    BY <1>1, NowTyped DEF Fields
  <2>. QED
    BY <1>3, <2>1 DEF Bad, ExitStatus
<1>. QED
  BY <1>1, <1>2, <1>3, <1>4, <1>5 DEF End, Succeeded, Running

LEMMA LeftOf ==
    ASSUME NEW S, NEW s \in Seq(S), NEW k \in 1 .. Len(s)
    PROVE  /\ Left(s, k) \in Seq(S) /\ Left(s, k) # <<>>
           /\ Head(Left(s, k)) = s[k]
           /\ Tail(Left(s, k)) = Left(s, k + 1)
           /\ Left(s, 1) = s
<1>1. Len(s) \in k .. Len(s) /\ Len(s) \in Int /\ k \in Int /\ \A i \in k .. Len(s) : s[i] \in S
  OBVIOUS
<1>2. Head(Left(s, k)) = s[k] /\ Tail(Left(s, k)) = Left(s, k + 1)
  BY <1>1, HeadTailOfSubSeq DEF Left
<1>3. Left(s, k) \in Seq(S) /\ Len(Left(s, k)) = Len(s) - k + 1
  BY <1>1, SubSeqProperties DEF Left
<1>4. Left(s, k) # <<>>
  BY <1>3
<1>5. Left(s, 1) = s
  BY SubSeqFull DEF Left
<1>. QED
  BY <1>2, <1>3, <1>4, <1>5

(* The calls of p become first and the rest.                               *)
LEMMA GoesOn ==
    ASSUME Base, NEW p \in Procs, Running(p), NEW first, GoOn(p, first)
    PROVE  /\ code'[p] = first \o Tail(code[p])
           /\ \A q \in Procs \ {p} : code'[q] = code[q]
           /\ first = <<>> => code'[p] = Tail(code[p])
           /\ first = <<Now(p)>> => code'[p] = code[p]
           /\ \A n \in Int : first = <<Exit(n)>> => Now(p)' = Exit(n)
           /\ \A c : first = <<c>> => Now(p)' = c
<1>1. code'[p] = first \o Tail(code[p]) /\ \A q \in Procs \ {p} : code'[q] = code[q]
  BY DEF GoOn, Base, Coded
<1> DEFINE s == code[p]
           S == CallsOf(program, p)
<1>2. s \in Seq(S) /\ s # <<>> /\ Now(p) = s[1] /\ Now(p) \in S
  BY NowTyped
<1>. HIDE DEF s, S
<1>3. Tail(s) \in Seq(S)
  BY <1>2, HeadTailProperties
<1>4. <<>> \o Tail(s) = Tail(s)
  BY <1>3, ConcatEmptySeq
<1>5. <<Now(p)>> \o Tail(s) = s
  <2>1. s = SubSeq(s, 1, Len(s)) /\ Tail(s) = SubSeq(s, 2, Len(s))
    BY <1>2, SubSeqFull, TailIsSubSeq
  <2>2. 1 \in 1 .. Len(s) /\ Len(s) \in 1 .. Len(s)
    BY <1>2
  <2>3. SubSeq(s, 1, Len(s)) = <<s[1]>> \o SubSeq(s, 1 + 1, Len(s))
    BY <1>2, <2>2, SubSeqRecursiveFirst
  <2>. QED
    BY <1>2, <2>1, <2>3
<1>6. ASSUME NEW c
      PROVE  Head(<<c>> \o Tail(s)) = c
  <2>1. <<c>> \in Seq(S \cup {c}) /\ Tail(s) \in Seq(S \cup {c}) /\ Len(<<c>>) = 1 /\ <<c>>[1] = c
    BY <1>3
  <2>2. /\ <<c>> \o Tail(s) \in Seq(S \cup {c}) /\ Len(<<c>> \o Tail(s)) = 1 + Len(Tail(s))
        /\ (<<c>> \o Tail(s))[1] = c
    BY <2>1, ConcatProperties
  <2>. QED
    BY <2>2
<1>. QED
  BY <1>1, <1>4, <1>5, <1>6 DEF Now, s

(* The parent is at call k of its program, and goes on or stays.           *)
LEMMA AtCalls ==
    ASSUME Base, UNCHANGED program, Running(Parent),
           NEW k \in 1 .. Len(Main(program)), AtCall(k)
    PROVE  /\ Now(Parent) = Main(program)[k]
           /\ GoOn(Parent, <<>>) => AtCall(k + 1)'
           /\ GoOn(Parent, <<Now(Parent)>>) => AtCall(k)'
<1>1. Main(program) \in Seq(CallsOf(program, Parent)) /\ Parent \in Procs
  BY MainTyped DEF Base, LivesTyped, Procs
<1>2. /\ Head(Left(Main(program), k)) = Main(program)[k]
      /\ Tail(Left(Main(program), k)) = Left(Main(program), k + 1)
  BY <1>1, LeftOf
<1>3. Main(program)' = Main(program)
  BY DEF Main
<1>. QED
  BY <1>1, <1>2, <1>3, GoesOn DEF AtCall, Now

(* What a failed call leads to.                                            *)
LEMMA FailsToExit ==
    ASSUME Base, NEW p \in Procs, CallFails(p), NEW n \in Int, Now(p).fail = <<Exit(n)>>
    PROVE  /\ Now(p)' = Exit(n) /\ UNCHANGED <<life, io>> /\ faults' # 0
           /\ \A q \in Procs \ {p} : code'[q] = code[q]
<1>1. Running(p) /\ GoOn(p, <<Exit(n)>>) /\ UNCHANGED <<life, io>> /\ faults' = faults + 1
  BY DEF CallFails
<1>. QED
  BY <1>1, GoesOn DEF Base, FaultsTyped

(* One step of a program that has no children.                             *)
LEMMA AloneStep ==
    ASSUME Base, [Next]_vars, program # "9_1", ~(Overrun /\ Clobbered(Parent)),
           \A c \in Children : run[c] = "none",
           Running(Parent) => Now(Parent).op \notin {"fork", "suspend"}
    PROVE  /\ UNCHANGED <<program, original>>
           /\ \A c \in Children : run'[c] = "none"
           /\ \/ Same
              \/ Running(Parent) /\ ~Running(Parent)' /\ ~Succeeded(Parent)'
              \/ /\ Running(Parent) /\ Now(Parent).op = "exit" /\ ~Escaping
                 /\ ~Running(Parent)' /\ UNCHANGED <<faults, pipe, written, got, disk>>
              \/ /\ Moves(Parent) /\ Running(Parent)'
                 /\ Now(Parent).op # "exit" /\ UNCHANGED run
<1>0. /\ \A p \in Procs : Running(p) => p = Parent /\ Now(p).op # "suspend"
      /\ Children \subseteq Procs /\ Parent \in Procs /\ Parent \notin Children
  BY ProcessesAssumption DEF Procs, Running
<1>1. /\ UNCHANGED <<program, original>>
      /\ Same \/ Moves(Parent) \/ Dies(Parent)
  BY <1>0, NextSteps DEF Moves, Dies
<1>2. CASE Same
  BY <1>1, <1>2 DEF Same, life
<1>3. CASE Dies(Parent)
  BY <1>0, <1>1, <1>3, DeathFails DEF Dies
<1>4. CASE Moves(Parent)
  <2>0. Running(Parent)
    BY <1>4 DEF Moves
  <2>1. CASE DoExit(Parent)
    BY <1>0, <1>1, <2>0, <2>1, ExitEnds DEF Escaping, DoExit, Calls
  <2>2. CASE BrokenPipe(Parent) /\ ~(UNCHANGED run)
    <3>1. Dies(Parent)
      BY <2>0, <2>2, SignalsAre DEF BrokenPipe, Dies, life
    <3>. QED
      BY <1>0, <1>1, <3>1, DeathFails DEF Dies
  <2>3. CASE ~DoExit(Parent) /\ UNCHANGED run
    <3>1. Now(Parent).op # "exit"
      <4>1. CASE Step(Parent)
        BY <2>3, <4>1, StepOfCall
      <4>2. CASE CallFails(Parent)
        BY <1>0, <2>0, <4>2, NowTyped DEF CallFails, Fields
      <4>3. CASE ShortWrite(Parent)
        BY <4>3 DEF ShortWrite, Calls
      <4>. QED
        BY <1>4, <4>1, <4>2, <4>3 DEF Moves
    <3>. QED
      BY <1>0, <1>1, <1>4, <2>0, <2>3, <3>1 DEF Running
  <2>4. CASE ~DoExit(Parent) /\ ~BrokenPipe(Parent)
    <3>1. CASE CallFails(Parent) \/ ShortWrite(Parent)
      BY <2>3, <2>4, <3>1 DEF CallFails, ShortWrite, PutBytes, life
    <3>2. CASE Step(Parent)
      <4>1. Zombies(Parent) = {}
        BY <1>0 DEF Zombies
      <4>2. ~DoFork(Parent)
        BY <2>0 DEF DoFork, Calls
      <4>3. UNCHANGED run
        BY <2>4, <3>2, <4>1, <4>2
        DEF Step, DoExec, DoWait, DoPoll, DoPollWhile, DoBlock, DoHandle, DoIgnore, DoKill, DoTest,
            DoSuspend, DoIfCaught, DoAlarm, DoCount, DoPipe, DoClose, DoWrite, DoRead, DoOpenFile,
            DoDup, DoWriteFile, DoReadFile, DoLSeek, DoSearch, PutBytes, life
      <4>. QED
        BY <2>3, <2>4, <4>3
    <3>. QED
      BY <1>4, <3>1, <3>2 DEF Moves
  <2>. QED
    BY <2>1, <2>2, <2>3, <2>4
<1>. QED
  BY <1>1, <1>2, <1>3, <1>4

LEMMA SameKeeps ==
    ASSUME Same
    PROVE  /\ \A p \in Procs : /\ code'[p] = code[p] /\ Now(p)' = Now(p)
                               /\ Running(p)' <=> Running(p)
                               /\ Succeeded(p)' <=> Succeeded(p)
           /\ Running(Parent)' <=> Running(Parent)
           /\ Succeeded(Parent)' <=> Succeeded(Parent)
           /\ \A k : AtCall(k)' <=> AtCall(k)
           /\ code'[Parent] = code[Parent]
           /\ Escaping' <=> Escaping
           /\ UNCHANGED <<program, original, run, file, offset, buffer, torn, pipe, written, got, ends,
                          faults>>
<1>1. Parent \in Procs
  BY DEF Procs
<1>2. /\ \A p \in Procs : code'[p] = code[p]
      /\ UNCHANGED <<program, original, run, status, killed>>
      /\ UNCHANGED <<file, offset, buffer, torn, pipe, written, got, ends, faults>>
  BY DEF Same, life, io, disk
<1>3. Main(program)' = Main(program)
  BY <1>2 DEF Main
<1>. QED
  BY <1>1, <1>2, <1>3 DEF Now, Running, Succeeded, AtCall, Escaping

LEMMA BadStatuses ==
    /\ Bad(-10) /\ Bad(-5) /\ Bad(-4) /\ Bad(-3) /\ Bad(-2) /\ Bad(-1) /\ Bad(1) /\ ~Bad(0)
    /\ \A n \in Int : Exit(n).op = "exit" /\ Exit(n).status = n
BY DEF Bad, Exit

LEMMA ParentFails ==
    ASSUME Base, CallFails(Parent), NEW n \in Int, Now(Parent).fail = <<Exit(n)>>, Bad(n)
    PROVE  Escaping'
BY FailsToExit, BadStatuses DEF Escaping, Procs

(* A move of the parent, by the call it has come to.                       *)
LEMMA MoveOfCall ==
    ASSUME Moves(Parent)
    PROVE  /\ Running(Parent) /\ (Step(Parent) \/ CallFails(Parent) \/ ShortWrite(Parent))
           /\ Now(Parent).op # "write_file" => Step(Parent) \/ CallFails(Parent)
           /\ CallFails(Parent) => "fail" \in DOMAIN Now(Parent)
BY DEF Moves, ShortWrite, CallFails, Calls

LEMMA ParentGoesOn ==
    ASSUME Base, Running(Parent)
    PROVE  /\ \A first : GoOn(Parent, first) => code'[Parent] = first \o Tail(code[Parent])
           /\ GoOn(Parent, <<>>) => code'[Parent] = Tail(code[Parent])
BY GoesOn DEF Procs

-----------------------------------------------------------------------------
(* 2_5 replaces the letter                                                 *)

LEMMA HeadTailOfConcat ==
    ASSUME NEW S, NEW s \in Seq(S), NEW t \in Seq(S), s # <<>>
    PROVE  Head(s \o t) = s[1] /\ Tail(s \o t) = Tail(s) \o t
<1>1. /\ s \o t \in Seq(S) /\ Len(s \o t) = Len(s) + Len(t)
      /\ \A i \in 1 .. Len(s) + Len(t) : (s \o t)[i] = IF i <= Len(s) THEN s[i] ELSE t[i - Len(s)]
  BY ConcatProperties
<1>2. Len(s) \in Nat /\ Len(s) # 0 /\ Len(t) \in Nat /\ s \o t # <<>>
  BY <1>1
<1>3. Head(s \o t) = s[1]
  BY <1>1, <1>2
<1>4. /\ Tail(s \o t) \in Seq(S) /\ Len(Tail(s \o t)) = Len(s) + Len(t) - 1
      /\ \A i \in 1 .. Len(s) + Len(t) - 1 : Tail(s \o t)[i] = (s \o t)[i + 1]
  BY <1>1, <1>2
<1>5. /\ Tail(s) \in Seq(S) /\ Len(Tail(s)) = Len(s) - 1
      /\ \A i \in 1 .. Len(s) - 1 : Tail(s)[i] = s[i + 1]
  BY <1>2
<1>6. /\ Tail(s) \o t \in Seq(S) /\ Len(Tail(s) \o t) = Len(s) - 1 + Len(t)
      /\ \A i \in 1 .. Len(s) - 1 + Len(t) :
            (Tail(s) \o t)[i] = IF i <= Len(s) - 1 THEN Tail(s)[i] ELSE t[i - (Len(s) - 1)]
  BY <1>5, ConcatProperties
<1>7. \A i \in 1 .. Len(s) + Len(t) - 1 : Tail(s \o t)[i] = (Tail(s) \o t)[i]
  <2> TAKE i \in 1 .. Len(s) + Len(t) - 1
  <2>1. Tail(s \o t)[i] = IF i + 1 <= Len(s) THEN s[i + 1] ELSE t[i + 1 - Len(s)]
    BY <1>1, <1>2, <1>4
  <2>2. (Tail(s) \o t)[i] = IF i <= Len(s) - 1 THEN s[i + 1] ELSE t[i - (Len(s) - 1)]
    BY <1>2, <1>5, <1>6
  <2>3. i + 1 - Len(s) = i - (Len(s) - 1) /\ (i + 1 <= Len(s) <=> i <= Len(s) - 1)
    BY <1>2
  <2>. QED
    BY <2>1, <2>2, <2>3
<1>8. Tail(s \o t) = Tail(s) \o t
  BY <1>2, <1>4, <1>6, <1>7, SeqEqual
<1>. QED
  BY <1>3, <1>8

(* The calls of 2_5, one after the other.                                  *)
LEMMA Calls_2_5 ==
    /\ Len(Main_2_5) = 3 /\ Main_2_5[1] = OpenFile(FALSE, <<Exit(-2)>>) /\ Main_2_5[3] = Exit(0)
    /\ Left(Main_2_5, 2)
          = <<Searching(0)>> \o Left(Main_2_5, 3)
    /\ \A n : LET s == <<Searching(n)>> \o Left(Main_2_5, 3)
              IN  /\ Head(s) = Searching(n)
                  /\ Tail(s) = Left(Main_2_5, 3)
    /\ LET s == Replace \o Left(Main_2_5, 3)
       IN  Head(s) = StepBack /\ Tail(s) = Left(Replace, 2) \o Left(Main_2_5, 3)
    /\ LET s == Left(Replace, 2) \o Left(Main_2_5, 3)
       IN  /\ Head(s) = WriteFile(<<LETTER_NEW>>, <<Exit(-4)>>)
           /\ Tail(s) = Left(Main_2_5, 3)
<1> DEFINE open == OpenFile(FALSE, <<Exit(-2)>>)
           search(n) == Searching(n)
           write == WriteFile(<<LETTER_NEW>>, <<Exit(-4)>>)
           rest == Left(Main_2_5, 3)
<1>1. Main_2_5 = <<open, search(0), Exit(0)>> /\ Replace = <<StepBack, write>>
  BY DEF Main_2_5, Replace, StepBack, Searching
<1>. HIDE DEF open, search, write
<1> DEFINE S == CallsOf("2_5", Parent)
<1>2. Main_2_5 \in Seq(S)
  BY Start_2_5
<1>. HIDE DEF S
<1>3. /\ Len(Main_2_5) = 3 /\ Main_2_5[1] = open /\ Main_2_5[2] = search(0) /\ Main_2_5[3] = Exit(0)
      /\ Len(Replace) = 2 /\ Replace[1] = StepBack /\ Replace[2] = write
      /\ Replace \in Seq({StepBack, write})
  BY <1>1
<1>4. rest \in Seq(S) /\ Left(Main_2_5, 2) = <<search(0)>> \o rest
  <2>1. 2 \in 1 .. Len(Main_2_5) /\ 3 \in 2 .. Len(Main_2_5) /\ 3 \in 1 .. Len(Main_2_5)
    BY <1>3
  <2>2. SubSeq(Main_2_5, 2, 3) = <<Main_2_5[2]>> \o SubSeq(Main_2_5, 2 + 1, 3)
    BY <1>2, <1>3, <2>1, SubSeqRecursiveFirst
  <2>. QED
    BY <1>2, <1>3, <2>1, <2>2, LeftOf DEF Left
<1>. HIDE DEF rest
<1>5. ASSUME NEW c
      PROVE  Head(<<c>> \o rest) = c /\ Tail(<<c>> \o rest) = rest
  <2> DEFINE T == S \cup {c}
  <2>1. <<c>> \in Seq(T) /\ rest \in Seq(T) /\ <<c>> # <<>> /\ <<c>>[1] = c /\ Tail(<<c>>) = <<>>
    BY <1>4
  <2>2. <<>> \o rest = rest
    BY <1>4, ConcatEmptySeq
  <2>. HIDE DEF T
  <2>. QED
    BY <2>1, <2>2, HeadTailOfConcat
<1>6. Tail(Replace) = <<write>> /\ Left(Replace, 2) = <<write>>
  <2>1. Tail(Replace) = <<write>> /\ Replace # <<>>
    BY <1>1
  <2>. QED
    BY <1>3, <2>1, TailIsSubSeq DEF Left
<1>7. Head(Replace \o rest) = StepBack /\ Tail(Replace \o rest) = <<write>> \o rest
  <2> DEFINE T == S \cup {StepBack, write}
  <2>1. Replace \in Seq(T) /\ rest \in Seq(T) /\ Replace # <<>>
    BY <1>1, <1>4
  <2>. HIDE DEF T
  <2>. QED
    BY <1>3, <1>6, <2>1, HeadTailOfConcat
<1>. QED
  BY <1>3, <1>4, <1>5, <1>6, <1>7 DEF open, search, write, rest

LEMMA TargetIs ==
    /\ Len(STRING_TARGET) = 3 /\ STRING_TARGET[1] # STRING_TARGET[2]
    /\ Len(<<LETTER_NEW>>) = 1
    /\ \A n \in 0 .. 2 :
          LET s == Searching(n)
          IN  /\ s.op = "search" /\ s.target = STRING_TARGET /\ s.found = n /\ s.then = Replace
              /\ s.room = SIZE_BUF_READ /\ s.fail = <<Exit(-3)>>
              /\ \A m \in 0 .. 2 : [s EXCEPT !.found = m]
                                      = Searching(m)
<1>1. Len(STRING_TARGET) = 3 /\ STRING_TARGET[1] # STRING_TARGET[2]
  BY DEF STRING_TARGET, Letter
<1>2. Len(<<LETTER_NEW>>) = 1
  OBVIOUS
<1>3. ASSUME NEW n \in 0 .. 2
      PROVE  LET s == Searching(n)
             IN  /\ s.op = "search" /\ s.target = STRING_TARGET /\ s.found = n /\ s.then = Replace
                 /\ s.room = SIZE_BUF_READ /\ s.fail = <<Exit(-3)>>
                 /\ \A m \in 0 .. 2 : [s EXCEPT !.found = m]
                                         = Searching(m)
  BY DEF Searching, Search
<1>. QED
  BY <1>1, <1>2, <1>3

(* One letter, written where it belongs, changes no other.                 *)
LEMMA OneLetter ==
    ASSUME file \in Seq(Bytes), NEW k \in 1 .. Len(file), NEW text \in Seq(Bytes), Len(text) = 1
    PROVE  Overwrite(k - 1, text) = [file EXCEPT ![k] = text[1]]
<1> DEFINE at == k - 1
<1>1. at \in Nat /\ at + Len(text) = k /\ Len(file) \in Int /\ k \in Int /\ k <= Len(file)
  OBVIOUS
<1>2. Max({Len(file), at + Len(text)}) = Len(file)
  <2>1. Max({Len(file), k}) \in {Len(file), k} /\ Max({Len(file), k}) >= Len(file)
    BY <1>1, MinMax
  <2>. QED
    BY <1>1, <2>1
<1>. HIDE DEF at
<1>3. /\ Overwrite(at, text) \in Seq(Bytes) /\ Len(Overwrite(at, text)) = Len(file)
      /\ \A i \in 1 .. Len(Overwrite(at, text)) :
            Overwrite(at, text)[i] = IF i \in (at + 1) .. (at + Len(text)) THEN text[i - at]
                                     ELSE IF i <= Len(file) THEN file[i] ELSE Zero
  BY <1>1, <1>2, OverwriteTyped
<1>4. \A i \in 1 .. Len(file) : Overwrite(at, text)[i] = IF i = k THEN text[1] ELSE file[i]
  <2>1. at + 1 = k /\ at + Len(text) = k /\ k - at = 1
    BY <1>1 DEF at
  <2>. QED
    BY <1>1, <1>3, <2>1
<1>5. text[1] \in Bytes
  <2>1. 1 \in 1 .. Len(text)
    OBVIOUS
  <2>. QED
    BY <2>1, ElementOfSeq
<1>6. /\ [file EXCEPT ![k] = text[1]] \in Seq(Bytes)
      /\ Len([file EXCEPT ![k] = text[1]]) = Len(file)
      /\ \A i \in 1 .. Len(file) : [file EXCEPT ![k] = text[1]][i] = IF i = k THEN text[1] ELSE file[i]
  BY <1>5, ExceptSeq
<1>7. Overwrite(at, text) = [file EXCEPT ![k] = text[1]]
  BY <1>3, <1>4, <1>6, SeqEqual
<1>. QED
  BY <1>7 DEF at

-----------------------------------------------------------------------------
(* How much of the target stands in a text                                 *)

LEMMA StandMore ==
    ASSUME NEW n \in Nat, NEW k \in Nat, NEW l \in Nat, k <= l, Stand(n, k)
    PROVE  Stand(n, l)
<1>1. PICK at \in [1 .. n -> 1 .. k] :
         /\ \A i, j \in 1 .. n : i < j => at[i] < at[j]
         /\ \A i \in 1 .. n : original[at[i]] = STRING_TARGET[i]
  BY DEF Stand
<1>2. at \in [1 .. n -> 1 .. l]
  BY <1>1
<1>. QED
  BY <1>1, <1>2 DEF Stand

LEMMA StandFewer ==
    ASSUME NEW n \in Nat, NEW m \in Nat, NEW k \in Nat, m <= n, Stand(n, k)
    PROVE  Stand(m, k)
<1>1. PICK at \in [1 .. n -> 1 .. k] :
         /\ \A i, j \in 1 .. n : i < j => at[i] < at[j]
         /\ \A i \in 1 .. n : original[at[i]] = STRING_TARGET[i]
  BY DEF Stand
<1> DEFINE some == [i \in 1 .. m |-> at[i]]
<1>2. some \in [1 .. m -> 1 .. k] /\ \A i \in 1 .. m : some[i] = at[i] /\ i \in 1 .. n
  BY <1>1
<1>. HIDE DEF some
<1>3. \A i, j \in 1 .. m : i < j => some[i] < some[j]
  BY <1>1, <1>2
<1>4. \A i \in 1 .. m : original[some[i]] = STRING_TARGET[i]
  BY <1>1, <1>2
<1>. QED
  BY <1>2, <1>3, <1>4 DEF Stand

LEMMA StandExtends ==
    ASSUME NEW n \in Nat, NEW k \in Nat, Stand(n, k), original[k + 1] = STRING_TARGET[n + 1]
    PROVE  Stand(n + 1, k + 1)
<1>1. PICK at \in [1 .. n -> 1 .. k] :
         /\ \A i, j \in 1 .. n : i < j => at[i] < at[j]
         /\ \A i \in 1 .. n : original[at[i]] = STRING_TARGET[i]
  BY DEF Stand
<1> DEFINE more == [i \in 1 .. n + 1 |-> IF i <= n THEN at[i] ELSE k + 1]
<1>2. /\ more \in [1 .. n + 1 -> 1 .. k + 1] /\ more[n + 1] = k + 1
      /\ \A i \in 1 .. n : more[i] = at[i] /\ at[i] \in 1 .. k
      /\ \A i \in 1 .. n + 1 : i \in 1 .. n \/ i = n + 1
  BY <1>1
<1>. HIDE DEF more
<1>3. \A i, j \in 1 .. n + 1 : i < j => more[i] < more[j]
  BY <1>1, <1>2
<1>4. \A i \in 1 .. n + 1 : original[more[i]] = STRING_TARGET[i]
  BY <1>1, <1>2
<1>. QED
  BY <1>2, <1>3, <1>4 DEF Stand

LEMMA StandShrinks ==
    ASSUME NEW n \in Nat, NEW k \in Nat, Stand(n + 1, k + 1)
    PROVE  Stand(n, k) /\ (Stand(n + 1, k) \/ original[k + 1] = STRING_TARGET[n + 1])
<1>1. PICK at \in [1 .. n + 1 -> 1 .. k + 1] :
         /\ \A i, j \in 1 .. n + 1 : i < j => at[i] < at[j]
         /\ \A i \in 1 .. n + 1 : original[at[i]] = STRING_TARGET[i]
  BY DEF Stand
<1> DEFINE some == [i \in 1 .. n |-> at[i]]
<1>2. \A i \in 1 .. n : at[i] \in 1 .. k
  <2>1. \A i \in 1 .. n : i \in 1 .. n + 1 /\ n + 1 \in 1 .. n + 1 /\ i < n + 1
    OBVIOUS
  <2>2. \A i \in 1 .. n : at[i] < at[n + 1] /\ at[i] \in 1 .. k + 1 /\ at[n + 1] \in 1 .. k + 1
    BY <1>1, <2>1
  <2>. QED
    BY <2>2
<1>3. some \in [1 .. n -> 1 .. k] /\ \A i \in 1 .. n : some[i] = at[i] /\ i \in 1 .. n + 1
  BY <1>2
<1>. HIDE DEF some
<1>4. Stand(n, k)
  <2>1. \A i, j \in 1 .. n : i < j => some[i] < some[j]
    BY <1>1, <1>3
  <2>2. \A i \in 1 .. n : original[some[i]] = STRING_TARGET[i]
    BY <1>1, <1>3
  <2>. QED
    BY <1>3, <2>1, <2>2 DEF Stand
<1>5. CASE at[n + 1] = k + 1
  BY <1>1, <1>4, <1>5
<1>6. CASE at[n + 1] # k + 1
  <2>1. at \in [1 .. n + 1 -> 1 .. k]
    BY <1>1, <1>2, <1>6
  <2>2. Stand(n + 1, k)
    BY <1>1, <2>1 DEF Stand
  <2>. QED
    BY <1>4, <2>2
<1>. QED
  BY <1>5, <1>6

LEMMA StandNothing == Stand(0, 0) /\ ~Stand(1, 0)
<1>1. [i \in 1 .. 0 |-> 0] \in [1 .. 0 -> 1 .. 0] /\ \A i \in 1 .. 0 : FALSE
  OBVIOUS
<1>2. Stand(0, 0)
  BY <1>1 DEF Stand
<1>3. ASSUME NEW at \in [1 .. 1 -> 1 .. 0]
      PROVE  FALSE
  <2>1. 1 \in 1 .. 1 /\ at[1] \in 1 .. 0
    OBVIOUS
  <2>. QED
    BY <2>1
<1>4. ~Stand(1, 0)
  BY <1>3 DEF Stand
<1>. QED
  BY <1>2, <1>4

(* The letter read next is compared with the next one of the target.       *)
LEMMA NextLetter ==
    ASSUME NEW n \in Nat, NEW k \in Nat, Stand(n, k), ~Stand(n + 1, k),
           NEW found, found = IF original[k + 1] = STRING_TARGET[n + 1] THEN n + 1 ELSE n
    PROVE  Stand(found, k + 1) /\ ~Stand(found + 1, k + 1)
<1>1. CASE original[k + 1] = STRING_TARGET[n + 1]
  <2>1. Stand(n + 1, k + 1)
    BY <1>1, StandExtends
  <2>2. n + 1 \in Nat /\ found = n + 1
    BY <1>1
  <2>. QED
    BY <2>1, <2>2, StandShrinks
<1>2. CASE original[k + 1] # STRING_TARGET[n + 1]
  <2>1. Stand(n, k + 1)
    <3>1. k + 1 \in Nat /\ k <= k + 1
      OBVIOUS
    <3>. QED
      BY <3>1, StandMore
  <2>2. ~Stand(n + 1, k + 1)
    BY <1>2, StandShrinks
  <2>. QED
    BY <1>2, <2>1, <2>2
<1>. QED
  BY <1>1, <1>2

(* What a step that leaves the text alone says of it.                      *)
LEMMA TextKept ==
    ASSUME UNCHANGED original
    PROVE  /\ \A n, k : Stand(n, k)' <=> Stand(n, k)
           /\ \A k : (FoundAt(k)' <=> FoundAt(k)) /\ (Unfound(k)' <=> Unfound(k))
           /\ \A k : FindsAt(k)' <=> FindsAt(k)
           /\ MayFind' <=> MayFind
           /\ UNCHANGED file => (LetterReplaced' <=> LetterReplaced)
<1>1. \A n, k : Stand(n, k)' <=> Stand(n, k)
  BY DEF Stand
<1>2. \A k : FoundAt(k)' <=> FoundAt(k)
  BY <1>1 DEF FoundAt
<1>3. \A k : Unfound(k)' <=> Unfound(k)
  BY <1>1 DEF Unfound
<1>4. \A k : FindsAt(k)' <=> FindsAt(k)
  BY <1>2 DEF FindsAt
<1>5. MayFind' <=> MayFind
  BY <1>1 DEF MayFind
<1>6. UNCHANGED file => (LetterReplaced' <=> LetterReplaced)
  BY <1>1, <1>2 DEF LetterReplaced
<1>. QED
  BY <1>1, <1>2, <1>3, <1>4, <1>5, <1>6

(* A search that went past the k-th letter, knowing all the time how much  *)
(* of the target stood in what it had read.                                *)
LEMMA SearchGoes ==
    ASSUME original \in Seq(Bytes), NEW n \in 0 .. 2, NEW k \in Nat, k < Len(original),
           k <= SIZE_BUF_READ => Stand(n, k) /\ ~Stand(n + 1, k), Unfound(k),
           NEW found \in {n, n + 1},
           k < SIZE_BUF_READ =>
               found = IF original[k + 1] = STRING_TARGET[n + 1] THEN n + 1 ELSE n
    PROVE  /\ k + 1 <= SIZE_BUF_READ => Stand(found, k + 1) /\ ~Stand(found + 1, k + 1)
           /\ found < 3 => Unfound(k + 1)
           /\ found = 3 => FindsAt(k + 1) /\ MayFind
<1>0. SIZE_BUF_READ \in Nat /\ n \in Nat /\ found \in 0 .. 3 /\ found + 1 \in Nat
  BY SizesAssumption
<1>1. ASSUME k + 1 <= SIZE_BUF_READ
      PROVE  Stand(found, k + 1) /\ ~Stand(found + 1, k + 1)
  <2>1. k <= SIZE_BUF_READ /\ k < SIZE_BUF_READ
    BY <1>0, <1>1
  <2>. QED
    BY <1>0, <2>1, NextLetter
<1>2. ASSUME found < 3, NEW i \in 0 .. k + 1, i <= SIZE_BUF_READ
      PROVE  ~Stand(3, i)
  <2>1. CASE i \in 0 .. k
    BY <1>2, <2>1 DEF Unfound
  <2>2. CASE i = k + 1
    <3>1. ~Stand(found + 1, k + 1) /\ found + 1 <= 3 /\ 3 \in Nat /\ k + 1 \in Nat
      BY <1>0, <1>1, <1>2, <2>2
    <3>. QED
      BY <1>0, <2>2, <3>1, StandFewer
  <2>. QED
    BY <2>1, <2>2
<1>3. ASSUME found = 3
      PROVE  FindsAt(k + 1) /\ MayFind
  <2>1. ASSUME NEW i \in DOMAIN original, FoundAt(i), i <= SIZE_BUF_READ
        PROVE  i = k + 1
    <3>1. i \in Nat /\ i - 1 \in Nat /\ 3 \in Nat
      OBVIOUS
    <3>2. Stand(3, i) /\ ~Stand(3, i - 1)
      BY <2>1, TargetIs DEF FoundAt
    <3>3. ~(i <= k)
      BY <2>1, <3>1, <3>2 DEF Unfound
    <3>4. CASE k + 1 < i
      <4>1. k + 1 <= SIZE_BUF_READ /\ k + 1 <= i - 1 /\ k + 1 \in Nat
        BY <1>0, <2>1, <3>1, <3>4
      <4>2. Stand(3, k + 1)
        BY <1>1, <1>3, <4>1
      <4>. QED
        BY <3>1, <3>2, <4>1, <4>2, StandMore
    <3>. QED
      BY <3>1, <3>3, <3>4
  <2>2. ASSUME Len(original) <= SIZE_BUF_READ
        PROVE  Stand(3, Len(original))
    <3>1. k + 1 <= Len(original) /\ k + 1 \in Nat /\ Len(original) \in Nat /\ 3 \in Nat
      OBVIOUS
    <3>2. Stand(3, k + 1)
      BY <1>0, <1>1, <1>3, <2>2, <3>1
    <3>. QED
      BY <3>1, <3>2, StandMore
  <2>. QED
    BY <2>1, <2>2 DEF FindsAt, MayFind
<1>4. found < 3 => Unfound(k + 1)
  BY <1>2 DEF Unfound
<1>. QED
  BY <1>1, <1>3, <1>4

-----------------------------------------------------------------------------
(* 2_5: one step                                                           *)

(* Where the parent of 2_5 may be.                                         *)
LEMMA ReplacesPlaces ==
    ASSUME Base, program = "2_5", Replaces, Running(Parent)
    PROVE  \/ Escaping
           \/ /\ AtCall(1) /\ file = original /\ buffer = <<>>
              /\ Now(Parent) = OpenFile(FALSE, <<Exit(-2)>>)
           \/ \E n \in 0 .. 2 :
                 SearchesAt(n) /\ Now(Parent) = Searching(n)
           \/ StepsBack /\ Now(Parent) = StepBack
           \/ Rewrites /\ Now(Parent) = WriteFile(<<LETTER_NEW>>, <<Exit(-4)>>)
           \/ AtCall(3) /\ Now(Parent) = Exit(0) /\ LetterReplaced
<1> DEFINE search(n) == Searching(n)
<1>0. Main(program) = Main_2_5
  BY DEF Main
<1>1. /\ AtCall(1) => Head(code[Parent]) = OpenFile(FALSE, <<Exit(-2)>>)
      /\ AtCall(3) => Head(code[Parent]) = Exit(0)
  <2>1. Main_2_5 \in Seq(CallsOf("2_5", Parent)) /\ 1 \in 1 .. Len(Main_2_5) /\ 3 \in 1 .. Len(Main_2_5)
    BY Start_2_5, Calls_2_5
  <2>2. Head(Left(Main_2_5, 1)) = Main_2_5[1] /\ Head(Left(Main_2_5, 3)) = Main_2_5[3]
    BY <2>1, LeftOf
  <2>. QED
    BY <1>0, <2>2, Calls_2_5 DEF AtCall
<1>2. \A n \in 0 .. 2 : SearchesAt(n) => Head(code[Parent]) = search(n)
  BY Calls_2_5 DEF SearchesAt
<1>3. StepsBack => Head(code[Parent]) = StepBack
  BY Calls_2_5 DEF StepsBack
<1>4. Rewrites => Head(code[Parent]) = WriteFile(<<LETTER_NEW>>, <<Exit(-4)>>)
  BY Calls_2_5 DEF Rewrites
<1>. QED
  BY <1>1, <1>2, <1>3, <1>4 DEF Replaces, Alone, Now

(* Where the buffer has no room any more, the parent may fail or be ended. *)
LEMMA ReplacesClobbered ==
    ASSUME Base, [Next]_vars, program = "2_5", Replaces, Clobbered(Parent)
    PROVE  Replaces'
<1>0. /\ \A c \in Children : run[c] = "none" /\ c \in Procs \ {Parent}
      /\ UNCHANGED <<program, original>> /\ Parent \in Procs /\ Running(Parent)
  BY ProcessesAssumption DEF Replaces, Alone, Procs, Next, vars, Clobbered
<1>1. CASE EndBySignal(Parent, "SEGV")
  <2>1. Dies(Parent)
    BY <1>0, <1>1, SignalsAre DEF Dies
  <2>. QED
    BY <1>0, <2>1, DeathFails DEF Replaces, Alone
<1>2. CASE "fail" \in DOMAIN Now(Parent) /\ GoOn(Parent, Now(Parent).fail) /\ UNCHANGED life
  <2>1. PICK n \in {-2, -3, -4} : Now(Parent).fail = <<Exit(n)>>
    <3>1. Now(Parent).op = "exit" => "fail" \notin DOMAIN Now(Parent)
      BY <1>0, NowTyped DEF Fields
    <3>. QED
      BY <1>0, <1>2, <3>1, ReplacesPlaces, TargetIs
      DEF Escaping, OpenFile, WriteFile, StepBack, LSeek, Exit
  <2>2. Now(Parent)' = Exit(n) /\ Bad(n) /\ n \in Int
    BY <1>0, <1>2, <2>1, GoesOn, BadStatuses
  <2>3. Escaping'
    BY <2>2, BadStatuses DEF Escaping
  <2>4. Running(Parent)' /\ ~Succeeded(Parent)' /\ UNCHANGED run
    BY <1>0, <1>2 DEF Running, Succeeded, life
  <2>. QED
    BY <1>0, <2>3, <2>4 DEF Replaces, Alone
<1>. QED
  BY <1>1, <1>2 DEF Clobbered

LEMMA ReplacesStep ==
    ASSUME Base, [Next]_vars, program = "2_5", original \in Seq(Bytes), Replaces
    PROVE  Replaces'
<1> DEFINE rest == Left(Main_2_5, 3)
           search(n) == Searching(n)
<1>0. /\ \A c \in Children : run[c] = "none"
      /\ Main(program) = Main_2_5 /\ Parent \in Procs
      /\ code[Parent] \in Seq(CallsOf(program, Parent))
  BY DEF Replaces, Alone, Main, Procs, Base, Coded
<1>1. Running(Parent) =>
          \/ Escaping
          \/ /\ AtCall(1) /\ file = original /\ buffer = <<>>
             /\ Now(Parent) = OpenFile(FALSE, <<Exit(-2)>>)
          \/ \E n \in 0 .. 2 : SearchesAt(n) /\ Now(Parent) = search(n)
          \/ StepsBack /\ Now(Parent) = StepBack
          \/ Rewrites /\ Now(Parent) = WriteFile(<<LETTER_NEW>>, <<Exit(-4)>>)
          \/ AtCall(3) /\ Now(Parent) = Exit(0) /\ LetterReplaced
  BY ReplacesPlaces
<1>2. Running(Parent) => Now(Parent).op \notin {"fork", "suspend"}
  BY <1>1, TargetIs DEF Escaping, OpenFile, StepBack, LSeek, WriteFile, Exit
<1>3. CASE Clobbered(Parent)
  BY <1>3, ReplacesClobbered
<1>. SUFFICES ASSUME ~Clobbered(Parent)
              PROVE  Replaces'
  BY <1>3
<1>4. /\ UNCHANGED <<program, original>>
      /\ \A c \in Children : run'[c] = "none"
      /\ \/ Same
         \/ Running(Parent) /\ ~Running(Parent)' /\ ~Succeeded(Parent)'
         \/ /\ Running(Parent) /\ Now(Parent).op = "exit" /\ ~Escaping
            /\ ~Running(Parent)' /\ UNCHANGED <<faults, pipe, written, got, disk>>
         \/ /\ Moves(Parent) /\ Running(Parent)'
            /\ Now(Parent).op # "exit" /\ UNCHANGED run
  BY <1>0, <1>2, AloneStep
<1>5. CASE Same
  <2>1. UNCHANGED <<original, file, offset, buffer>> /\ code'[Parent] = code[Parent]
    BY <1>5, SameKeeps
  <2>2. LetterReplaced' <=> LetterReplaced
    BY <2>1, TextKept
  <2>3. \A n : SearchesAt(n)' <=> SearchesAt(n)
    BY <2>1, TextKept DEF SearchesAt
  <2>4. (StepsBack' <=> StepsBack) /\ (Rewrites' <=> Rewrites)
    BY <2>1, TextKept DEF StepsBack, Rewrites
  <2>5. AtCall(1)' <=> AtCall(1)
    BY <1>5, SameKeeps
  <2>6. AtCall(3)' <=> AtCall(3)
    BY <1>5, SameKeeps
  <2>7. (Running(Parent)' <=> Running(Parent)) /\ (Succeeded(Parent)' <=> Succeeded(Parent))
    BY <1>5, SameKeeps
  <2>8. Escaping' <=> Escaping
    BY <1>5, SameKeeps
  <2>9. (\E n \in 0 .. 2 : SearchesAt(n)') <=> \E n \in 0 .. 2 : SearchesAt(n)
    BY <2>3
  <2>. QED
    BY <1>4, <2>1, <2>2, <2>4, <2>5, <2>6, <2>7, <2>8, <2>9, Zenon DEF Replaces, Alone
<1>6. CASE ~Running(Parent)' /\ ~Succeeded(Parent)'
  BY <1>4, <1>6 DEF Replaces, Alone
<1>7. CASE /\ Running(Parent) /\ Now(Parent).op = "exit" /\ ~Escaping
           /\ ~Running(Parent)' /\ UNCHANGED <<faults, pipe, written, got, disk>>
  <2>1. StepBack.op # "exit"
    BY DEF StepBack, LSeek
  <2>2. LetterReplaced /\ file' = file
    BY <1>1, <1>7, <2>1, TargetIs DEF OpenFile, WriteFile, disk
  <2>3. LetterReplaced'
    BY <1>4, <2>2, TextKept
  <2>. QED
    BY <1>4, <1>7, <2>3 DEF Replaces, Alone
<1>8. CASE Moves(Parent) /\ Running(Parent)' /\ Now(Parent).op # "exit" /\ UNCHANGED run
  <2>0. Running(Parent) /\ ~Escaping /\ ~Succeeded(Parent)'
    BY <1>8 DEF Moves, Escaping, Succeeded, Running
  <2>1. SUFFICES Escaping' \/ (AtCall(1) /\ file = original /\ buffer = <<>>)' \/ (\E n \in 0 .. 2 : SearchesAt(n)')
                   \/ StepsBack' \/ Rewrites' \/ (AtCall(3) /\ LetterReplaced)'
    BY <1>4, <2>0, Zenon DEF Replaces, Alone
  <2>2. CASE /\ AtCall(1) /\ file = original /\ buffer = <<>>
             /\ Now(Parent) = OpenFile(FALSE, <<Exit(-2)>>)
    <3>1. Now(Parent).op = "open" /\ Now(Parent).fail = <<Exit(-2)>> /\ Now(Parent).truncate = FALSE
      BY <2>2 DEF OpenFile
    <3>2. CASE CallFails(Parent)
      BY <3>1, <3>2, ParentFails, BadStatuses
    <3>3. CASE Step(Parent)
      <4>1. DoOpenFile(Parent)
        BY <3>1, <3>3, StepOfCall
      <4>2. offset' = 0 /\ file' = original /\ buffer' = <<>> /\ GoOn(Parent, <<>>)
        BY <2>2, <3>1, <4>1 DEF DoOpenFile
      <4>3. AtCall(2)'
        <5>1. 1 \in 1 .. Len(Main(program)) /\ 1 + 1 = 2
          <6>1. Len(Main_2_5) = 3
            BY Calls_2_5
          <6>2. Len(Main(program)) = 3
            BY <1>0, <6>1
          <6>. QED
            BY <6>2
        <5>. QED
          BY <1>4, <2>0, <2>2, <4>2, <5>1, AtCalls
      <4>4. code'[Parent] = <<search(0)>> \o rest
        BY <1>0, <1>4, <4>3, Calls_2_5 DEF AtCall, Main
      <4>5. SearchesAt(0)'
        <5>1. Len(original) \in Nat /\ Len(buffer') = 0
          BY <4>2
        <5>2. Stand(0, 0) /\ ~Stand(0 + 1, 0) /\ ~Stand(3, 0)
          <6>1. 1 \in Nat /\ 3 \in Nat /\ 0 \in Nat /\ 1 <= 3 /\ 0 + 1 = 1
            OBVIOUS
          <6>. QED
            BY <6>1, StandNothing, StandFewer
        <5>3. Unfound(0)
          BY <5>2 DEF Unfound
        <5>. QED
          BY <1>4, <4>2, <4>4, <5>1, <5>2, <5>3, TextKept DEF SearchesAt
      <4>. QED
        BY <4>5
    <3>. QED
      BY <1>8, <3>1, <3>2, <3>3, MoveOfCall
  <2>3. ASSUME NEW n \in 0 .. 2, SearchesAt(n), Now(Parent) = search(n)
        PROVE  Escaping' \/ (\E m \in 0 .. 2 : SearchesAt(m)') \/ StepsBack' \/ (AtCall(3) /\ LetterReplaced)'
    <3>1. /\ Now(Parent).op = "search" /\ Now(Parent).target = STRING_TARGET /\ Now(Parent).found = n
          /\ Now(Parent).then = Replace /\ Now(Parent).fail = <<Exit(-3)>>
          /\ Now(Parent).room = SIZE_BUF_READ
          /\ \A m \in 0 .. 2 : [Now(Parent) EXCEPT !.found = m] = search(m)
      BY <2>3, TargetIs
    <3>2. CASE CallFails(Parent)
      BY <3>1, <3>2, ParentFails, BadStatuses
    <3>3. CASE Step(Parent)
      <4>1. DoSearch(Parent)
        BY <3>1, <3>3, StepOfCall
      <4>2. /\ file = original /\ n <= offset /\ offset <= Len(original) /\ Len(buffer) = offset
            /\ offset <= SIZE_BUF_READ => Stand(n, offset) /\ ~Stand(n + 1, offset)
            /\ Unfound(offset)
        BY <2>3 DEF SearchesAt
      <4>3. offset \in Nat /\ Len(original) \in Nat /\ buffer \in Seq(Bytes) /\ file' = original
        BY <4>1, <4>2 DEF Base, FileTyped, DoSearch
      <4>4. CASE offset = Len(file)
        <5>1. GoOn(Parent, <<>>)
          BY <3>1, <4>1, <4>4 DEF DoSearch
        <5>2. \A k \in DOMAIN original : k <= SIZE_BUF_READ => ~FoundAt(k)
          <6>1. \A k \in DOMAIN original : k \in 0 .. offset
            BY <4>2, <4>4
          <6>. QED
            BY <4>2, <6>1, TargetIs DEF Unfound, FoundAt
        <5>3. LetterReplaced'
          BY <1>4, <4>3, <5>2, TextKept DEF LetterReplaced
        <5>4. code'[Parent] = rest
          <6>1. code'[Parent] = Tail(code[Parent])
            BY <2>0, <5>1, ParentGoesOn
          <6>. QED
            BY <2>3, <6>1, Calls_2_5 DEF SearchesAt
        <5>5. AtCall(3)'
          BY <1>0, <1>4, <5>4 DEF AtCall, Main
        <5>. QED
          BY <5>3, <5>5
      <4>5. CASE offset # Len(file)
        <5> DEFINE next == IF file[offset + 1] = STRING_TARGET[n + 1] THEN n + 1 ELSE n
        <5>1. /\ offset' = offset + 1 /\ buffer' = Append(buffer, file[offset + 1])
              /\ \E found \in IF Len(buffer) < Now(Parent).room
                             THEN {IF file[offset + 1] = Now(Parent).target[Now(Parent).found + 1]
                                   THEN Now(Parent).found + 1 ELSE Now(Parent).found}
                             ELSE {Now(Parent).found, Now(Parent).found + 1} :
                    GoOn(Parent, IF found = Len(Now(Parent).target) THEN Now(Parent).then
                                 ELSE <<[Now(Parent) EXCEPT !.found = found]>>)
          BY <4>1, <4>5 DEF DoSearch
        <5>2. PICK found \in {n, n + 1} :
                 /\ Len(buffer) < SIZE_BUF_READ => found = next
                 /\ GoOn(Parent, IF found = 3 THEN Replace ELSE <<[Now(Parent) EXCEPT !.found = found]>>)
          <6>1. PICK found \in IF Len(buffer) < SIZE_BUF_READ
                               THEN {IF file[offset + 1] = STRING_TARGET[n + 1] THEN n + 1 ELSE n}
                               ELSE {n, n + 1} :
                    GoOn(Parent, IF found = Len(Now(Parent).target) THEN Now(Parent).then
                                 ELSE <<[Now(Parent) EXCEPT !.found = found]>>)
            BY <3>1, <5>1, Zenon
          <6>2. (IF found = Len(Now(Parent).target) THEN Now(Parent).then
                 ELSE <<[Now(Parent) EXCEPT !.found = found]>>)
                = (IF found = 3 THEN Replace ELSE <<[Now(Parent) EXCEPT !.found = found]>>)
            BY <3>1, TargetIs
          <6>3. found \in {n, n + 1} /\ (Len(buffer) < SIZE_BUF_READ => found = next)
            BY <6>1
          <6>. QED
            BY <6>1, <6>2, <6>3, Zenon
        <5>3. offset < Len(original) /\ found \in 0 .. 3 /\ found <= offset + 1 /\ Len(buffer') = offset + 1
          <6>1. offset < Len(original)
            BY <4>2, <4>3, <4>5
          <6>2. file[offset + 1] \in Bytes
            BY <4>2, <4>3, <6>1
          <6>. QED
            BY <4>2, <4>3, <5>1, <6>1, <6>2, AppendProperties
        <5>4. /\ offset + 1 <= SIZE_BUF_READ => Stand(found, offset + 1) /\ ~Stand(found + 1, offset + 1)
              /\ found < 3 => Unfound(offset + 1)
              /\ found = 3 => FindsAt(offset + 1) /\ MayFind
          BY <4>2, <4>3, <5>2, <5>3, SearchGoes
        <5>. HIDE DEF next
        <5>5. CASE found = 3
          <6>1. code'[Parent] = Replace \o rest
            <7>1. code'[Parent] = Replace \o Tail(code[Parent])
              BY <2>0, <5>2, <5>5, ParentGoesOn
            <7>. QED
              BY <2>3, <7>1, Calls_2_5 DEF SearchesAt
          <6>2. StepsBack'
            BY <1>4, <4>3, <5>1, <5>3, <5>4, <5>5, <6>1, TargetIs, TextKept DEF StepsBack
          <6>. QED
            BY <6>2
        <5>6. CASE found # 3
          <6>0. PICK m \in 0 .. 2 : m = found
            BY <5>3, <5>6
          <6>1. GoOn(Parent, <<search(m)>>)
            BY <3>1, <5>2, <5>6, <6>0
          <6>2. code'[Parent] = <<search(m)>> \o rest
            <7>1. code'[Parent] = <<search(m)>> \o Tail(code[Parent])
              BY <2>0, <6>1, ParentGoesOn
            <7>. QED
              BY <2>3, <7>1, Calls_2_5 DEF SearchesAt
          <6>3. SearchesAt(m)'
            <7>1. /\ file' = original' /\ m <= offset' /\ offset' <= Len(original')
                  /\ Len(buffer') = offset'
              BY <1>4, <4>3, <5>1, <5>3, <6>0
            <7>2. /\ offset' <= SIZE_BUF_READ => Stand(m, offset') /\ ~Stand(m + 1, offset')
                  /\ Unfound(offset')
              BY <5>1, <5>3, <5>4, <5>6, <6>0
            <7>. QED
              BY <1>4, <6>2, <7>1, <7>2, TextKept DEF SearchesAt
          <6>. QED
            BY <6>3
        <5>. QED
          BY <5>5, <5>6
      <4>. QED
        BY <4>4, <4>5
    <3>. QED
      BY <1>8, <3>1, <3>2, <3>3, MoveOfCall
  <2>4. CASE StepsBack /\ Now(Parent) = StepBack
    <3>1. /\ Now(Parent).op = "lseek" /\ Now(Parent).by = -3 /\ Now(Parent).from = "CUR"
          /\ "fail" \notin DOMAIN Now(Parent)
      BY <2>4, TargetIs DEF StepBack, LSeek
    <3>2. DoLSeek(Parent)
      BY <1>8, <3>1, MoveOfCall, StepOfCall
    <3>3. offset' = -3 + offset /\ file' = file /\ GoOn(Parent, <<>>)
      BY <3>1, <3>2 DEF DoLSeek
    <3>4. code'[Parent] = Left(Replace, 2) \o rest
      <4>1. code'[Parent] = Tail(code[Parent])
        BY <2>0, <3>3, ParentGoesOn
      <4>. QED
        BY <2>4, <4>1, Calls_2_5 DEF StepsBack
    <3>5. offset' + Len(STRING_TARGET) = offset
      BY <3>3, TargetIs DEF Base, FileTyped
    <3>6. Rewrites'
      BY <1>4, <2>4, <3>3, <3>4, <3>5, TextKept DEF Rewrites, StepsBack
    <3>. QED
      BY <3>6
  <2>5. CASE Rewrites /\ Now(Parent) = WriteFile(<<LETTER_NEW>>, <<Exit(-4)>>)
    <3>1. /\ Now(Parent).op = "write_file" /\ Now(Parent).text = <<LETTER_NEW>>
          /\ Now(Parent).append = FALSE /\ Now(Parent).fail = <<Exit(-4)>>
      BY <2>5 DEF WriteFile
    <3>2. CASE CallFails(Parent)
      BY <3>1, <3>2, ParentFails, BadStatuses
    <3>3. ~ShortWrite(Parent)
      BY <3>1, TargetIs DEF ShortWrite
    <3>4. CASE Step(Parent)
      <4>1. DoWriteFile(Parent)
        BY <3>1, <3>4, StepOfCall
      <4>2. /\ file' = Overwrite(offset, SubSeq(<<LETTER_NEW>>, 1, 1)) /\ GoOn(Parent, <<>>)
            /\ file = original
        BY <2>5, <3>1, <4>1, TargetIs DEF DoWriteFile, PutBytes, Rewrites
      <4>3. <<LETTER_NEW>> \in Seq(Bytes) /\ SubSeq(<<LETTER_NEW>>, 1, 1) = <<LETTER_NEW>>
        <5>1. <<LETTER_NEW>> \in Seq(Bytes)
          BY LettersTyped
        <5>2. SubSeq(<<LETTER_NEW>>, 1, Len(<<LETTER_NEW>>)) = <<LETTER_NEW>>
          BY <5>1, SubSeqFull
        <5>. QED
          BY <5>1, <5>2, TargetIs
      <4>4. ASSUME NEW k \in DOMAIN original, FoundAt(k), k <= SIZE_BUF_READ
            PROVE  file' = [original EXCEPT ![k + 1 - Len(STRING_TARGET)] = LETTER_NEW]
        <5>1. offset + 3 = k /\ offset \in Nat /\ Len(original) \in Nat
          BY <2>5, <4>4, TargetIs DEF Rewrites, FindsAt, Base, FileTyped
        <5> DEFINE at == k - 2
        <5>2. at \in 1 .. Len(file) /\ at - 1 = offset /\ k + 1 - Len(STRING_TARGET) = at
          BY <4>2, <5>1, TargetIs
        <5>. HIDE DEF at
        <5>3. Overwrite(at - 1, <<LETTER_NEW>>) = [file EXCEPT ![at] = LETTER_NEW]
          <6>1. Len(<<LETTER_NEW>>) = 1 /\ <<LETTER_NEW>>[1] = LETTER_NEW
            OBVIOUS
          <6>2. Overwrite(at - 1, <<LETTER_NEW>>) = [file EXCEPT ![at] = <<LETTER_NEW>>[1]]
            BY <1>0, <4>2, <4>3, <5>2, <6>1, OneLetter
          <6>. QED
            BY <6>1, <6>2, Zenon
        <5>. QED
          BY <4>2, <4>3, <5>2, <5>3
      <4>5. LetterReplaced'
        <5>1. Len(original) <= SIZE_BUF_READ => Stand(Len(STRING_TARGET), Len(original))
          BY <2>5, TargetIs DEF Rewrites, MayFind
        <5>. QED
          BY <1>4, <4>4, <5>1, TextKept DEF LetterReplaced
      <4>6. code'[Parent] = rest
        <5>1. code'[Parent] = Tail(code[Parent])
          BY <2>0, <4>2, ParentGoesOn
        <5>. QED
          BY <2>5, <5>1, Calls_2_5 DEF Rewrites
      <4>7. AtCall(3)'
        BY <1>0, <1>4, <4>6 DEF AtCall, Main
      <4>. QED
        BY <4>5, <4>7
    <3>. QED
      BY <1>8, <3>2, <3>3, <3>4, MoveOfCall
  <2>6. ~(Now(Parent) = Exit(0))
    BY <1>8, BadStatuses
  <2>. QED
    BY <1>1, <2>0, <2>2, <2>3, <2>4, <2>5, <2>6
<1>. QED
  BY <1>4, <1>5, <1>6, <1>7, <1>8

-----------------------------------------------------------------------------
(* Types                                                                   *)

(* The step back of 2_5 does not leave the file.                           *)
LEMMA StepBackFits ==
    ASSUME Base, program = "2_5" => Replaces, NEW p \in Procs, Running(p), Now(p) = StepBack
    PROVE  offset >= Len(STRING_TARGET)
<1>1. Now(p).op = "lseek" /\ Now(p).by \notin Nat
  BY TargetIs DEF StepBack, LSeek
<1>2. p = Parent /\ program = "2_5"
  BY <1>1, NowTyped DEF Fields
<1>3. StepsBack
  BY <1>1, <1>2, ReplacesPlaces, TargetIs DEF Escaping, OpenFile, WriteFile, Exit
<1>. QED
  BY <1>3, TargetIs DEF StepsBack, Base, FileTyped

(* The search does not look for letters behind the end of the file.        *)
LEMMA SearchFits ==
    ASSUME Base, program = "2_5" => Replaces, NEW p \in Procs, Running(p), Now(p).op = "search"
    PROVE  offset <= Len(file)
<1>1. p = Parent /\ program = "2_5"
  BY NowTyped DEF Fields
<1>2. PICK n \in 0 .. 2 : SearchesAt(n)
  BY <1>1, ReplacesPlaces DEF Escaping, OpenFile, WriteFile, Exit, StepBack, LSeek
<1>. QED
  BY <1>2 DEF SearchesAt

LEMMA StepBase ==
    ASSUME Base, UNCHANGED <<program, original>>, NEW p \in Procs, Step(p),
           Running(p) /\ Now(p) = StepBack => offset >= Len(STRING_TARGET),
           Running(p) /\ Now(p).op = "search" => offset <= Len(file)
    PROVE  Base'
<1>1. Running(p)
  BY StepOfCall
<1>2. DoLSeek(p) => Base'
  BY <1>1, DoLSeekStep
<1>3. DoExit(p) \/ DoFork(p) \/ DoExec(p) \/ DoWait(p) \/ DoPoll(p) \/ DoPollWhile(p) => Base'
  BY DoExitStep, DoForkStep, DoExecStep, DoWaitStep, DoPollStep, DoPollWhileStep
<1>4. DoBlock(p) \/ DoHandle(p) \/ DoIgnore(p) \/ DoKill(p) \/ DoTest(p) \/ DoSuspend(p) => Base'
  BY DoBlockStep, DoHandleStep, DoIgnoreStep, DoKillStep, DoTestStep, DoSuspendStep
<1>5. DoIfCaught(p) \/ DoAlarm(p) \/ DoCount(p) \/ DoPipe(p) \/ DoClose(p) \/ DoWrite(p) => Base'
  BY DoIfCaughtStep, DoAlarmStep, DoCountStep, DoPipeStep, DoCloseStep, DoWriteStep
<1>6. BrokenPipe(p) \/ DoRead(p) \/ DoOpenFile(p) \/ DoDup(p) \/ DoWriteFile(p) => Base'
  BY BrokenPipeStep, DoReadStep, DoOpenFileStep, DoDupStep, DoWriteFileStep
<1>7. DoReadFile(p) \/ DoSearch(p) => Base'
  BY <1>1, DoReadFileStep, DoSearchStep DEF DoSearch, Calls
<1>. QED
  BY <1>2, <1>3, <1>4, <1>5, <1>6, <1>7 DEF Step

LEMMA StutterBase ==
    ASSUME Base, UNCHANGED vars
    PROVE  Base'
<1>1. Coded' /\ ForksOnce' /\ Lives' /\ Counted'
  BY CodeKept DEF vars, kernel, sigs
<1>2. /\ LivesTyped' /\ SignalsTyped' /\ TimersTyped' /\ CounterTyped'
      /\ PipeTyped' /\ FileTyped' /\ FaultsTyped'
  BY Frame DEF vars, kernel, life, dispositions, sigs, io
<1>. QED
  BY <1>1, <1>2 DEF Base

LEMMA NextBase ==
    ASSUME Base, program = "2_5" => Replaces, [Next]_vars
    PROVE  Base'
<1>1. CASE UNCHANGED vars
  BY <1>1, StutterBase
<1>2. CASE Next
  <2>1. UNCHANGED <<program, original>>
    BY <1>2 DEF Next
  <2>2. ASSUME NEW p \in Procs, Step(p)
        PROVE  Base'
    <3>1. Running(p) /\ Now(p) = StepBack => offset >= Len(STRING_TARGET)
      BY StepBackFits
    <3>2. Running(p) /\ Now(p).op = "search" => offset <= Len(file)
      BY SearchFits
    <3>. QED
      BY <2>1, <2>2, <3>1, <3>2, StepBase
  <2>3. ASSUME NEW p \in Procs, CallFails(p) \/ ShortWrite(p)
        PROVE  Base'
    BY <2>1, <2>3, CallFailsStep, ShortWriteStep
  <2>4. ASSUME NEW p \in Procs, Deliver(p) \/ Expire(p) \/ Killed(p)
        PROVE  Base'
    BY <2>1, <2>4, DeliverStep, ExpireStep, KilledStep
  <2>5. ASSUME NEW s \in {"INT", "TERM"}, Signalled(Parent, s)
        PROVE  Base'
    BY <2>1, <2>5, SignalledStep DEF Procs
  <2>6. ASSUME Clobbered(Parent)
        PROVE  Base'
    BY <2>1, <2>6, ClobberedStep DEF Procs
  <2>. QED
    BY <1>2, <2>2, <2>3, <2>4, <2>5, <2>6 DEF Next
<1>. QED
  BY <1>1, <1>2

LEMMA InitReplaces ==
    ASSUME Init, program = "2_5"
    PROVE  Replaces
<1>1. Parent \in Procs /\ Main(program) = Main_2_5 /\ \A c \in Children : run[c] = "none"
  BY ProcessesAssumption DEF Procs, Main, Init, Booted
<1>2. code[Parent] = Main_2_5 /\ file = original /\ buffer = <<>> /\ run[Parent] = "running"
  BY <1>1 DEF Init, Booted
<1>3. Left(Main_2_5, 1) = Main_2_5
  BY Start_2_5, SubSeqFull DEF Left
<1>. QED
  BY <1>1, <1>2, <1>3 DEF Replaces, Alone, AtCall, Succeeded

TypeInv ==
    /\ Base
    /\ original \in Seq(Bytes)
    /\ program = "2_5" => Replaces

LEMMA TypeInvariance == Spec => []TypeInv
<1>1. Init => TypeInv
  BY InitBase, InitReplaces, OriginalsTyped DEF TypeInv, Init
<1>2. TypeInv /\ [Next]_vars => TypeInv'
  <2> SUFFICES ASSUME TypeInv, [Next]_vars
               PROVE  TypeInv'
    OBVIOUS
  <2>1. UNCHANGED <<program, original>>
    BY DEF Next, vars
  <2>2. Base'
    BY NextBase DEF TypeInv
  <2>3. CASE program = "2_5"
    BY <2>1, <2>2, <2>3, ReplacesStep DEF TypeInv
  <2>4. CASE program # "2_5"
    BY <2>1, <2>2, <2>4 DEF TypeInv
  <2>. QED
    BY <2>3, <2>4
<1>. QED
  BY <1>1, <1>2, PTL DEF Spec

(* Every variable stays in its type, whatever the program: who is over     *)
(* holds no descriptor and no timer, a status fits 16 bits, nobody runs    *)
(* past the end of his code (Processes, TypeOK).                           *)
THEOREM TypeCorrect == Spec => []TypeOK
<1>1. TypeInv => TypeOK
  BY BaseIsTyped DEF TypeInv
<1>. QED
  BY <1>1, TypeInvariance, PTL

-----------------------------------------------------------------------------
(* The programs that wait: what is ahead of the parent                     *)

LEMMA Spliced ==
    ASSUME NEW S, NEW s \in Seq(S), NEW first \in Seq(S), s # <<>>, NEW t, t = first \o Tail(s),
           NEW n, n = Len(first)
    PROVE  /\ n \in Nat /\ Len(s) \in Nat /\ Len(s) # 0 /\ Len(t) = n + Len(s) - 1
           /\ DOMAIN t = 1 .. Len(t) /\ DOMAIN s = 1 .. Len(s) /\ DOMAIN first = 1 .. n
           /\ \A k \in DOMAIN t : \/ k \in DOMAIN first /\ t[k] = first[k]
                                  \/ /\ k > n /\ k - n + 1 \in DOMAIN s /\ k - n + 1 > 1
                                     /\ t[k] = s[k - n + 1]
           /\ \A i \in DOMAIN s : i > 1 => i - 1 + n \in DOMAIN t /\ t[i - 1 + n] = s[i]
<1>1. /\ n \in Nat /\ Len(s) \in Nat /\ Len(s) # 0 /\ Len(t) = n + Len(s) - 1
      /\ DOMAIN t = 1 .. Len(t) /\ DOMAIN s = 1 .. Len(s) /\ DOMAIN first = 1 .. n
  BY Splice
<1>2. /\ \A k \in 1 .. n : t[k] = first[k]
      /\ \A k \in n + 1 .. n + Len(s) - 1 : t[k] = s[k - n + 1]
  BY Splice
<1>3. \A k \in DOMAIN t : \/ k \in DOMAIN first /\ t[k] = first[k]
                          \/ /\ k > n /\ k - n + 1 \in DOMAIN s /\ k - n + 1 > 1
                             /\ t[k] = s[k - n + 1]
  BY <1>1, <1>2
<1>4. \A i \in DOMAIN s : i > 1 => i - 1 + n \in DOMAIN t /\ t[i - 1 + n] = s[i]
  <2>1. SUFFICES ASSUME NEW i \in DOMAIN s, i > 1
                 PROVE  i - 1 + n \in DOMAIN t /\ t[i - 1 + n] = s[i]
    OBVIOUS
  <2>2. i - 1 + n \in n + 1 .. n + Len(s) - 1 /\ (i - 1 + n) - n + 1 = i
    BY <1>1, <2>1
  <2>. QED
    BY <1>1, <1>2, <2>2
<1>. QED
  BY <1>1, <1>3, <1>4

(* A call that is put before the rest and changes nothing for the waits.   *)
Plain(first) ==
    \A k \in DOMAIN first :
        /\ Careful(first[k])
        /\ first[k].op \notin {"fork", "wait", "poll_while"}
        /\ first[k].op = "exit" => Bad(first[k].status)

LEMMA PatientOn ==
    ASSUME NEW S, NEW s \in Seq(S), NEW first \in Seq(S), s # <<>>, Patient(s),
           \A k \in DOMAIN first :
              /\ Careful(first[k]) /\ first[k].op # "fork"
              /\ first[k].op = "exit" => Bad(first[k].status)
              /\ first[k].op \in {"wait", "poll_while"} => s[1].op \in {"wait", "poll_while"}
    PROVE  Patient(first \o Tail(s)) /\ Forked(first \o Tail(s)) \subseteq Forked(s)
<1> DEFINE t == first \o Tail(s)
           n == Len(first)
<1>0. t = first \o Tail(s) /\ n = Len(first)
  OBVIOUS
<1>. HIDE DEF t, n
<1>1. /\ n \in Nat /\ Len(s) \in Nat /\ Len(s) # 0 /\ Len(t) = n + Len(s) - 1
      /\ DOMAIN t = 1 .. Len(t) /\ DOMAIN s = 1 .. Len(s) /\ DOMAIN first = 1 .. n
      /\ \A k \in DOMAIN t : \/ k \in DOMAIN first /\ t[k] = first[k]
                             \/ /\ k > n /\ k - n + 1 \in DOMAIN s /\ k - n + 1 > 1
                                /\ t[k] = s[k - n + 1]
  BY <1>0, Spliced
<1>2. \A k \in DOMAIN t : Careful(t[k])
  BY <1>1 DEF Patient
<1>3. ASSUME NEW k \in DOMAIN t, k # Len(t), t[k].op = "exit"
      PROVE  Bad(t[k].status)
  BY <1>1, <1>3 DEF Patient
<1>4. ASSUME NEW j \in DOMAIN t, NEW k \in DOMAIN t, j < k, t[j].op \in {"wait", "poll_while"},
             t[k].op = "fork"
      PROVE  FALSE
  <2>1. k > n /\ k - n + 1 \in DOMAIN s /\ k - n + 1 > 1 /\ t[k] = s[k - n + 1]
    BY <1>1, <1>4
  <2>2. CASE j \in DOMAIN first /\ t[j] = first[j]
    <3>1. s[1].op \in {"wait", "poll_while"} /\ 1 \in DOMAIN s
      BY <1>1, <1>4, <2>2
    <3>. QED
      BY <1>1, <1>4, <2>1, <3>1 DEF Patient
  <2>3. CASE j > n /\ j - n + 1 \in DOMAIN s /\ t[j] = s[j - n + 1]
    <3>1. j - n + 1 < k - n + 1
      BY <1>1, <1>4
    <3>. QED
      BY <1>4, <2>1, <2>3, <3>1 DEF Patient
  <2>. QED
    BY <1>1, <2>2, <2>3
<1>5. Patient(t)
  BY <1>2, <1>3, <1>4 DEF Patient
<1>6. ASSUME NEW k \in DOMAIN t, t[k].op = "fork"
      PROVE  \E i \in DOMAIN s : s[i].op = "fork" /\ s[i].child = t[k].child
  BY <1>1, <1>6
<1>7. Forked(t) \subseteq Forked(s)
  BY <1>6 DEF Forked
<1>. QED
  BY <1>5, <1>7 DEF t

(* The waits stay when another call is done.                               *)
LEMMA WaitsStay ==
    ASSUME NEW S, NEW s \in Seq(S), NEW first \in Seq(S), s # <<>>, Plain(first),
           s[1].op \notin {"wait", "poll_while"},
           NEW D, NEW E, E \subseteq D
    PROVE  /\ OwnWaits(s, D) => OwnWaits(first \o Tail(s), E)
           /\ Polls(s, D) => Polls(first \o Tail(s), E)
<1> DEFINE t == first \o Tail(s)
           n == Len(first)
<1>0. t = first \o Tail(s) /\ n = Len(first)
  OBVIOUS
<1>. HIDE DEF t, n
<1>1. /\ n \in Nat /\ Len(s) \in Nat /\ Len(s) # 0 /\ Len(t) = n + Len(s) - 1
      /\ DOMAIN t = 1 .. Len(t) /\ DOMAIN s = 1 .. Len(s) /\ DOMAIN first = 1 .. n
      /\ \A k \in DOMAIN t : \/ k \in DOMAIN first /\ t[k] = first[k]
                             \/ /\ k > n /\ k - n + 1 \in DOMAIN s /\ k - n + 1 > 1
                                /\ t[k] = s[k - n + 1]
      /\ \A i \in DOMAIN s : i > 1 => i - 1 + n \in DOMAIN t /\ t[i - 1 + n] = s[i]
  BY <1>0, Spliced, Z3T(30)
<1>2. \A k \in DOMAIN t : t[k].op \in {"wait", "poll_while"} =>
          k - n + 1 \in DOMAIN s /\ t[k] = s[k - n + 1]
  BY <1>1 DEF Plain
<1>3. \A i \in DOMAIN s : s[i].op \in {"wait", "poll_while"} =>
          i - 1 + n \in DOMAIN t /\ t[i - 1 + n] = s[i]
  BY <1>1
<1>4. \A i, c : WaitsAt(s, i, c) => WaitsAt(t, i - 1 + n, c)
  BY <1>3 DEF WaitsAt
<1>5. \A k, c : WaitsAt(t, k, c) => WaitsAt(s, k - n + 1, c)
  BY <1>2 DEF WaitsAt
<1>6. ASSUME OwnWaits(s, D)
      PROVE  OwnWaits(t, E)
  <2>1. \A c \in E : \E k \in DOMAIN t : WaitsAt(t, k, c)
    BY <1>4, <1>6 DEF OwnWaits, WaitsAt
  <2>2. {C1, C2} \subseteq E =>
            \E j, k \in DOMAIN t : j # k /\ WaitsAt(t, j, C1) /\ WaitsAt(t, k, C2)
    <3>1. SUFFICES ASSUME {C1, C2} \subseteq E
                   PROVE  \E j, k \in DOMAIN t : j # k /\ WaitsAt(t, j, C1) /\ WaitsAt(t, k, C2)
      OBVIOUS
    <3>2. PICK j, k \in DOMAIN s : j # k /\ WaitsAt(s, j, C1) /\ WaitsAt(s, k, C2)
      BY <1>6, <3>1 DEF OwnWaits
    <3>3. j - 1 + n # k - 1 + n
      BY <1>1, <3>2
    <3>4. WaitsAt(t, j - 1 + n, C1) /\ WaitsAt(t, k - 1 + n, C2)
      BY <1>4, <3>2
    <3>. QED
      BY <3>3, <3>4 DEF WaitsAt
  <2>3. ASSUME NEW j \in DOMAIN t, NEW k \in DOMAIN t,
               WaitsAt(t, j, C1) /\ WaitsAt(t, j, C2) /\ t[k].op = "wait"
        PROVE  WaitsAt(t, k, C1) /\ WaitsAt(t, k, C2)
    <3>1. WaitsAt(s, j - n + 1, C1) /\ WaitsAt(s, j - n + 1, C2)
      BY <1>5, <2>3
    <3>2. k - n + 1 \in DOMAIN s /\ t[k] = s[k - n + 1]
      BY <1>2, <2>3
    <3>3. WaitsAt(s, k - n + 1, C1) /\ WaitsAt(s, k - n + 1, C2)
      BY <1>6, <2>3, <3>1, <3>2 DEF OwnWaits, WaitsAt
    <3>. QED
      BY <3>2, <3>3 DEF WaitsAt
  <2>4. \A k \in DOMAIN t : t[k].op # "poll_while"
    BY <1>2, <1>6 DEF OwnWaits
  <2>. QED
    BY <2>1, <2>2, <2>3, <2>4 DEF OwnWaits
<1>7. ASSUME Polls(s, D)
      PROVE  Polls(t, E)
  <2>1. \A k \in DOMAIN t : t[k].op # "wait"
    BY <1>2, <1>7 DEF Polls
  <2>2. ASSUME E # {}
        PROVE  \E k \in DOMAIN t : /\ t[k].op = "poll_while" /\ t[k].count >= 1
                                   /\ {C1, C2} \subseteq E => t[k].count >= 2
    <3>1. PICK i \in DOMAIN s : /\ s[i].op = "poll_while" /\ s[i].count >= 1
                                /\ {C1, C2} \subseteq D => s[i].count >= 2
      BY <1>7, <2>2 DEF Polls
    <3>. QED
      BY <1>3, <3>1
  <2>. QED
    BY <2>1, <2>2 DEF Polls
<1>. QED
  BY <1>6, <1>7 DEF t

(* After a wait no fork is ahead.                                          *)
LEMMA NoForkAfterWait ==
    ASSUME NEW S, NEW s \in Seq(S), s # <<>>, Patient(s), s[1].op \in {"wait", "poll_while"}
    PROVE  Forked(s) = {}
<1>1. 1 \in DOMAIN s /\ \A k \in DOMAIN s : k = 1 \/ 1 < k
  OBVIOUS
<1>2. \A k \in DOMAIN s : s[k].op # "fork"
  BY <1>1 DEF Patient
<1>. QED
  BY <1>2 DEF Forked

(* A wait that has collected c, or has nobody of D to wait for.            *)
LEMMA WaitDone ==
    ASSUME NEW S, NEW s \in Seq(S), s # <<>>, s[1].op = "wait",
           NEW D, OwnWaits(s, D) \/ Polls(s, D)
    PROVE  /\ OwnWaits(s, D)
           /\ s[1].who \cap D = {} => OwnWaits(Tail(s), D)
           /\ \A c \in s[1].who \cap D : D \subseteq {C1, C2} => OwnWaits(Tail(s), D \ {c})
<1> DEFINE t == Tail(s)
<1>1. /\ Len(s) \in Nat /\ DOMAIN t = 1 .. Len(s) - 1 /\ DOMAIN s = 1 .. Len(s)
      /\ \A k \in DOMAIN t : t[k] = s[k + 1] /\ k + 1 \in DOMAIN s
      /\ \A i \in DOMAIN s : i = 1 \/ (i - 1 \in DOMAIN t /\ t[i - 1] = s[i])
      /\ 1 \in DOMAIN s
  OBVIOUS
<1>. HIDE DEF t
<1>2. OwnWaits(s, D)
  BY <1>1 DEF Polls
<1>3. \A i, c : WaitsAt(s, i, c) => i = 1 \/ (i - 1 \in DOMAIN t /\ WaitsAt(t, i - 1, c))
  BY <1>1 DEF WaitsAt
<1>4. \A k \in DOMAIN t : \A c : WaitsAt(t, k, c) => WaitsAt(s, k + 1, c)
  BY <1>1 DEF WaitsAt
<1>5. /\ \A k \in DOMAIN t : t[k].op # "poll_while"
      /\ \A j, k \in DOMAIN t :
            (WaitsAt(t, j, C1) /\ WaitsAt(t, j, C2) /\ t[k].op = "wait") =>
                WaitsAt(t, k, C1) /\ WaitsAt(t, k, C2)
  <2>1. \A k \in DOMAIN t : t[k].op # "poll_while"
    BY <1>1, <1>2 DEF OwnWaits
  <2>2. ASSUME NEW j \in DOMAIN t, NEW k \in DOMAIN t,
               WaitsAt(t, j, C1) /\ WaitsAt(t, j, C2) /\ t[k].op = "wait"
        PROVE  WaitsAt(t, k, C1) /\ WaitsAt(t, k, C2)
    <3>1. WaitsAt(s, j + 1, C1) /\ WaitsAt(s, j + 1, C2) /\ j + 1 \in DOMAIN s
      BY <1>1, <1>4, <2>2
    <3>2. k + 1 \in DOMAIN s /\ t[k] = s[k + 1]
      BY <1>1
    <3>3. WaitsAt(s, k + 1, C1) /\ WaitsAt(s, k + 1, C2)
      BY <1>2, <2>2, <3>1, <3>2 DEF OwnWaits
    <3>. QED
      BY <3>2, <3>3 DEF WaitsAt
  <2>. QED
    BY <2>1, <2>2
<1>6. ASSUME s[1].who \cap D = {}
      PROVE  OwnWaits(t, D)
  <2>1. \A c \in D : ~WaitsAt(s, 1, c)
    BY <1>6 DEF WaitsAt
  <2>2. \A c \in D : \E k \in DOMAIN t : WaitsAt(t, k, c)
    BY <1>2, <1>3, <2>1 DEF OwnWaits
  <2>3. ASSUME {C1, C2} \subseteq D
        PROVE  \E j, k \in DOMAIN t : j # k /\ WaitsAt(t, j, C1) /\ WaitsAt(t, k, C2)
    <3>1. PICK j, k \in DOMAIN s : j # k /\ WaitsAt(s, j, C1) /\ WaitsAt(s, k, C2)
      BY <1>2, <2>3 DEF OwnWaits
    <3>2. /\ j - 1 \in DOMAIN t /\ WaitsAt(t, j - 1, C1)
          /\ k - 1 \in DOMAIN t /\ WaitsAt(t, k - 1, C2)
      BY <1>3, <2>1, <2>3, <3>1
    <3>3. j - 1 # k - 1
      BY <1>1, <3>1
    <3>. QED
      BY <3>2, <3>3
  <2>. QED
    BY <1>5, <2>2, <2>3 DEF OwnWaits
<1>7. ASSUME NEW c \in s[1].who \cap D, D \subseteq {C1, C2}
      PROVE  OwnWaits(t, D \ {c})
  <2>1. ASSUME NEW d \in D \ {c}
        PROVE  \E k \in DOMAIN t : WaitsAt(t, k, d)
    <3>1. {C1, C2} \subseteq D /\ ((c = C1 /\ d = C2) \/ (c = C2 /\ d = C1))
      <4>1. c \in D /\ d \in D /\ c # d
        BY <1>7, <2>1
      <4>2. c \in {C1, C2} /\ d \in {C1, C2}
        BY <1>7, <4>1
      <4>. QED
        BY <4>1, <4>2
    <3>2. PICK j, k \in DOMAIN s : j # k /\ WaitsAt(s, j, C1) /\ WaitsAt(s, k, C2)
      BY <1>2, <3>1 DEF OwnWaits
    <3>3. WaitsAt(s, 1, c)
      BY <1>1 DEF WaitsAt
    <3>4. CASE WaitsAt(s, 1, d)
      <4>0. WaitsAt(s, 1, C1) /\ WaitsAt(s, 1, C2) /\ 1 \in DOMAIN s
        BY <1>1, <3>1, <3>3, <3>4
      <4>1. \A i \in DOMAIN s : s[i].op = "wait" => WaitsAt(s, i, d)
        <5>1. \A i \in DOMAIN s : s[i].op = "wait" => WaitsAt(s, i, C1) /\ WaitsAt(s, i, C2)
          BY <1>2, <4>0 DEF OwnWaits
        <5>. QED
          BY <3>1, <5>1
      <4>2. WaitsAt(s, j, d) /\ WaitsAt(s, k, d)
        BY <3>2, <4>1 DEF WaitsAt
      <4>. QED
        BY <1>3, <3>2, <4>2
    <3>5. CASE ~WaitsAt(s, 1, d)
      BY <1>3, <3>1, <3>2, <3>5
    <3>. QED
      BY <3>4, <3>5
  <2>2. ~({C1, C2} \subseteq D \ {c})
    BY <1>7
  <2>. QED
    BY <1>5, <2>1, <2>2 DEF OwnWaits
<1>. QED
  BY <1>2, <1>6, <1>7 DEF t

LEMMA Prepended ==
    ASSUME NEW S, NEW s \in Seq(S), s # <<>>, NEW c
    PROVE  LET u == <<c>> \o Tail(s)
           IN /\ \A i \in DOMAIN s : i > 1 => i \in DOMAIN u /\ u[i] = s[i]
              /\ \A k \in DOMAIN u : k > 1 => k \in DOMAIN s /\ u[k] = s[k]
              /\ 1 \in DOMAIN u /\ u[1] = c /\ \A k \in DOMAIN u : k = 1 \/ k > 1
<1> DEFINE T == S \cup {c}
           u == <<c>> \o Tail(s)
<1>1. <<c>> \in Seq(T) /\ s \in Seq(T) /\ Len(<<c>>) = 1 /\ <<c>>[1] = c
  OBVIOUS
<1>. HIDE DEF T
<1>2. /\ Tail(s) \in Seq(T) /\ Len(Tail(s)) = Len(s) - 1 /\ Len(s) \in Nat /\ Len(s) # 0
      /\ DOMAIN s = 1 .. Len(s) /\ \A k \in 1 .. Len(s) - 1 : Tail(s)[k] = s[k + 1]
  BY <1>1
<1>3. /\ u \in Seq(T) /\ Len(u) = 1 + Len(Tail(s))
      /\ \A i \in 1 .. 1 + Len(Tail(s)) :
            u[i] = IF i <= 1 THEN <<c>>[i] ELSE Tail(s)[i - 1]
  BY <1>1, <1>2, ConcatProperties
<1>. HIDE DEF u
<1>4. DOMAIN u = 1 .. Len(s)
  BY <1>2, <1>3
<1>. QED
  BY <1>1, <1>2, <1>3, <1>4 DEF u

(* A loop that has collected c, has counted to 0 or has nobody to wait for.*)
LEMMA PollDone ==
    ASSUME NEW S, NEW s \in Seq(S), s # <<>>, s[1].op = "poll_while", s[1].count \in Nat,
           NEW D, OwnWaits(s, D) \/ Polls(s, D), NEW none
    PROVE  /\ s[1].count = 0 \/ D = {} => Polls(Tail(s), D)
           /\ \A c \in D :
                 (D \subseteq {C1, C2} /\ s[1].count # 0) =>
                     Polls(<<WaitNoHangWhile(s[1].count - 1, none)>> \o Tail(s), D \ {c})
<1> DEFINE t == Tail(s)
           loop == WaitNoHangWhile(s[1].count - 1, none)
           u == <<loop>> \o Tail(s)
<1>1. /\ Len(s) \in Nat /\ DOMAIN t = 1 .. Len(s) - 1 /\ DOMAIN s = 1 .. Len(s)
      /\ \A k \in DOMAIN t : t[k] = s[k + 1] /\ k + 1 \in DOMAIN s
      /\ \A i \in DOMAIN s : i = 1 \/ (i - 1 \in DOMAIN t /\ t[i - 1] = s[i])
      /\ 1 \in DOMAIN s
  OBVIOUS
<1>2. Polls(s, D)
  BY <1>1 DEF OwnWaits
<1>3. /\ \A i \in DOMAIN s : i > 1 => i \in DOMAIN u /\ u[i] = s[i]
      /\ \A k \in DOMAIN u : k > 1 => k \in DOMAIN s /\ u[k] = s[k]
      /\ 1 \in DOMAIN u /\ u[1] = loop /\ \A k \in DOMAIN u : k = 1 \/ k > 1
  BY Prepended
<1>4. loop.op = "poll_while" /\ loop.count = s[1].count - 1
  BY DEF WaitNoHangWhile
<1>. HIDE DEF t, loop, u
<1>5. (s[1].count = 0 \/ D = {}) => Polls(t, D)
  <2>1. \A k \in DOMAIN t : t[k].op # "wait"
    BY <1>1, <1>2 DEF Polls
  <2>2. ASSUME D # {}, s[1].count = 0
        PROVE  \E k \in DOMAIN t : /\ t[k].op = "poll_while" /\ t[k].count >= 1
                                   /\ {C1, C2} \subseteq D => t[k].count >= 2
    <3>1. PICK i \in DOMAIN s : /\ s[i].op = "poll_while" /\ s[i].count >= 1
                                /\ {C1, C2} \subseteq D => s[i].count >= 2
      BY <1>2, <2>2 DEF Polls
    <3>2. i # 1
      BY <2>2, <3>1
    <3>. QED
      BY <1>1, <3>1, <3>2
  <2>. QED
    BY <2>1, <2>2 DEF Polls
<1>6. ASSUME NEW c \in D, D \subseteq {C1, C2}, s[1].count # 0
      PROVE  Polls(u, D \ {c})
  <2>1. \A k \in DOMAIN u : u[k].op # "wait"
    BY <1>2, <1>3, <1>4 DEF Polls
  <2>2. ~({C1, C2} \subseteq D \ {c})
    BY <1>6
  <2>3. ASSUME D \ {c} # {}
        PROVE  \E k \in DOMAIN u : u[k].op = "poll_while" /\ u[k].count >= 1
    <3>1. {C1, C2} \subseteq D
      BY <1>6, <2>3
    <3>2. PICK i \in DOMAIN s : s[i].op = "poll_while" /\ s[i].count >= 1 /\ s[i].count >= 2
      BY <1>2, <1>6, <3>1 DEF Polls
    <3>3. CASE i = 1
      BY <1>3, <1>4, <3>2, <3>3
    <3>4. CASE i # 1
      <4>1. i > 1
        BY <1>1, <3>4
      <4>. QED
        BY <1>3, <3>2, <4>1
    <3>. QED
      BY <3>3, <3>4
  <2>. QED
    BY <2>1, <2>2, <2>3 DEF Polls
<1>. QED
  BY <1>5, <1>6 DEF t, u, loop

-----------------------------------------------------------------------------
(* The programs that wait: their steps                                     *)

LEMMA HeadOfSplice ==
    ASSUME NEW S, NEW s \in Seq(S), NEW first \in Seq(S), s # <<>>, first # <<>>
    PROVE  Head(first \o Tail(s)) = first[1]
<1>1. /\ \A k \in 1 .. Len(first) : (first \o Tail(s))[k] = first[k]
      /\ first \o Tail(s) \in Seq(S) /\ Len(first \o Tail(s)) = Len(first) + Len(s) - 1
  BY Splice
<1>2. Len(s) \in Nat /\ Len(s) # 0 /\ Len(first) \in Nat /\ Len(first) # 0
  OBVIOUS
<1>. QED
  BY <1>1, <1>2

LEMMA EscapesArePlain ==
    ASSUME NEW first \in Escapes
    PROVE  /\ Plain(first) /\ first \in Seq(CallsOf(program, Parent))
           /\ \A k \in DOMAIN first : first[k].op = "exit"
           /\ first # <<>> => Len(first) = 1 /\ first[1].op = "exit" /\ Bad(first[1].status)
<1>1. first \in Exits /\ Exits \subseteq Seq(ParentCalls)
  BY NestedTyped DEF Escapes
<1>2. first \in Seq(CallsOf(program, Parent))
  BY <1>1, NestedTyped, MoreSequences
<1> DEFINE X == [op : {"exit"}, status : Int]
<1>0. first \in Seq(X) /\ Len(first) <= 1
  BY <1>1 DEF Exits
<1>. HIDE DEF X
<1>3. \A k \in DOMAIN first : k = 1 /\ first[k] \in X
  <2>1. DOMAIN first = 1 .. Len(first) /\ Len(first) \in Nat
    BY <1>0
  <2>2. \A k \in 1 .. Len(first) : first[k] \in X
    BY <1>0
  <2>. QED
    BY <1>0, <2>1, <2>2
<1>7. first # <<>> => Len(first) = 1 /\ 1 \in DOMAIN first
  <2>1. first # <<>> => Len(first) # 0
    BY <1>0
  <2>2. Len(first) \in Nat /\ DOMAIN first = 1 .. Len(first)
    BY <1>0
  <2>. QED
    BY <1>0, <2>1, <2>2
<1>4. \A c \in X : Careful(c) /\ c.op = "exit"
  BY DEF Careful, X
<1>5. first # <<>> => Bad(first[1].status)
  BY DEF Escapes
<1>6. \A k \in DOMAIN first : Bad(first[k].status)
  BY <1>3, <1>5, <1>7
<1>. QED
  BY <1>2, <1>3, <1>4, <1>5, <1>6, <1>7 DEF Plain

LEMMA EscapesEscape ==
    ASSUME Base, Running(Parent), NEW first \in Escapes, first # <<>>,
           code'[Parent] = first \o Tail(code[Parent])
    PROVE  Escaping'
<1>1. code[Parent] \in Seq(CallsOf(program, Parent)) /\ code[Parent] # <<>>
  BY NowTyped DEF Procs
<1>2. /\ first \in Seq(CallsOf(program, Parent)) /\ first[1].op = "exit" /\ Bad(first[1].status)
  BY EscapesArePlain
<1>3. Head(code'[Parent]) = first[1]
  BY <1>1, <1>2, HeadOfSplice
<1>. QED
  BY <1>2, <1>3 DEF Escaping, Now

(* The parent has done a call that is no wait.                             *)
LEMMA PlainGoes ==
    ASSUME Base, Covered, program \in Waiting, UNCHANGED program, Running(Parent), Running(Parent)',
           NEW first \in Seq(CallsOf(program, Parent)), Plain(first),
           code'[Parent] = first \o Tail(code[Parent]),
           Now(Parent).op \notin {"exit", "wait", "poll_while"},
           \A c \in Children : run'[c] \in {"running", "zombie"} => c \in Due
    PROVE  Covered'
<1> DEFINE s == code[Parent]
           t == code'[Parent]
           D == Due
           E == {c \in Children : run'[c] \in {"running", "zombie"}} \cup Forked(t)
<1>1. s \in Seq(CallsOf(program, Parent)) /\ s # <<>> /\ Now(Parent) = s[1]
  BY NowTyped DEF Procs
<1>2. Patient(s) /\ (OwnWaits(s, D) \/ Polls(s, D))
  BY DEF Covered, Escaping
<1>3. t = first \o Tail(s) /\ Forked(s) \subseteq D
  BY DEF Due
<1>4. E = Due' /\ \A c \in Children : run'[c] \in {"running", "zombie"} => c \in D
  BY DEF Due
<1>. HIDE DEF s, t, D
<1>5. Patient(t) /\ Forked(t) \subseteq Forked(s)
  BY <1>1, <1>2, <1>3, PatientOn DEF Plain
<1>6. E \subseteq D
  BY <1>3, <1>4, <1>5
<1>. HIDE DEF E
<1>7. OwnWaits(t, E) \/ Polls(t, E)
  BY <1>1, <1>2, <1>3, <1>6, WaitsStay
<1>. QED
  BY <1>4, <1>5, <1>7 DEF Covered, t

(* The parent has done all of its waiting when it comes to a good exit.    *)
LEMMA NobodyDue ==
    ASSUME Base, Covered, program \in Waiting, Running(Parent), Now(Parent).op = "exit",
           ~Bad(Now(Parent).status)
    PROVE  Collects
<1> DEFINE s == code[Parent]
           D == Due
<1>1. s \in Seq(CallsOf(program, Parent)) /\ s # <<>> /\ Now(Parent) = s[1]
  BY NowTyped DEF Procs
<1>2. Patient(s) /\ (OwnWaits(s, D) \/ Polls(s, D))
  BY DEF Covered, Escaping
<1>. HIDE DEF s, D
<1>3. \A k \in DOMAIN s : k = 1
  BY <1>1, <1>2 DEF Patient
<1>4. D = {}
  BY <1>1, <1>2, <1>3 DEF OwnWaits, Polls, WaitsAt
<1>5. \A c \in Children : run[c] \in {"none", "reaped"}
  <2>1. \A c \in Children : run[c] \in {"none", "running", "zombie", "reaped"}
    BY DEF Base, LivesTyped, Procs
  <2>. QED
    BY <1>4, <2>1 DEF Due, D
<1>. QED
  BY <1>5 DEF Base, Lives, Collects

(* The parent has collected c, or found nobody to wait for.                *)
LEMMA WaitGoes ==
    ASSUME Base, Covered, program \in Waiting, UNCHANGED <<program, original>>, DoWait(Parent)
    PROVE  Covered'
<1> DEFINE s == code[Parent]
           t == code'[Parent]
           D == Due
           live == {c \in Children : run[c] \in {"running", "zombie"}}
<1>1. /\ s \in Seq(CallsOf(program, Parent)) /\ s # <<>> /\ Now(Parent) = s[1]
      /\ Running(Parent) /\ s[1].op = "wait" /\ "none" \in DOMAIN s[1]
      /\ Parent \in Procs /\ Parent \notin Children
  BY NowTyped, ProcessesAssumption DEF Procs, DoWait, Calls, Fields
<1>2. Patient(s) /\ (OwnWaits(s, D) \/ Polls(s, D))
  BY <1>1 DEF Covered, Escaping
<1>3. Forked(s) = {} /\ D = live
  BY <1>1, <1>2, NoForkAfterWait DEF Due
<1>4. s[1].none \in Escapes
  BY <1>1, <1>2 DEF Patient, Careful
<1>5. D \subseteq {C1, C2}
  BY <1>3, ChildrenAssumption
<1>6. \A first \in Escapes : t = first \o Tail(s) => Patient(t) /\ Forked(t) = {}
  <2>. HIDE DEF s, t
  <2> TAKE first \in Escapes
  <2> HAVE t = first \o Tail(s)
  <2>1. /\ first \in Seq(CallsOf(program, Parent)) /\ Plain(first)
    BY EscapesArePlain
  <2>. QED
    BY <1>1, <1>2, <1>3, <2>1, PatientOn DEF Plain
<1>7. CASE Unreaped(Parent) \cap s[1].who = {}
  <2>1. /\ t = s[1].none \o Tail(s) /\ UNCHANGED life
        /\ s[1].none = <<>> => t = Tail(s)
    BY <1>1, <1>7, ParentGoesOn DEF DoWait
  <2>2. Patient(t) /\ Forked(t) = {}
    BY <1>4, <1>6, <2>1
  <2>3. Due' = D /\ Running(Parent)'
    BY <1>1, <1>3, <2>1, <2>2 DEF Due, life, Running
  <2>4. CASE s[1].none # <<>>
    <3>. DEFINE first == s[1].none
    <3>1. code'[Parent] = first \o Tail(code[Parent]) /\ first \in Escapes /\ first # <<>>
      BY <1>4, <2>1, <2>4
    <3>. HIDE DEF first, s
    <3>2. Escaping'
      BY <1>1, <3>1, EscapesEscape
    <3>. QED
      BY <2>2, <2>3, <3>2 DEF Covered, t
  <2>5. CASE s[1].none = <<>>
    <3>1. s[1].who \cap D = {}
      BY <1>3, <1>7 DEF Unreaped
    <3>. HIDE DEF s, D
    <3>2. OwnWaits(Tail(s), D)
      BY <1>1, <1>2, <3>1, WaitDone
    <3>. QED
      BY <2>1, <2>2, <2>3, <2>5, <3>2 DEF Covered, t
  <2>. QED
    BY <2>4, <2>5
<1>8. CASE Unreaped(Parent) \cap s[1].who # {}
  <2>1. PICK c \in Zombies(Parent) \cap s[1].who : Reap(c, Now(Parent).says) /\ GoOn(Parent, <<>>)
    BY <1>1, <1>8 DEF DoWait
  <2>2. /\ c \in Children /\ run[c] = "zombie" /\ run' = [run EXCEPT ![c] = "reaped"]
        /\ t = <<>> \o Tail(s) /\ t = Tail(s)
    BY <1>1, <2>1, ParentGoesOn DEF Zombies, Reap
  <2>3. Patient(t) /\ Forked(t) = {}
    BY <1>6, <2>2, EmptyNested DEF Escapes
  <2>4. Due' = D \ {c} /\ Running(Parent)'
    BY <1>1, <1>3, <2>2, <2>3 DEF Due, Running, Base, LivesTyped, Procs
  <2>5. c \in s[1].who \cap D
    BY <1>3, <2>1, <2>2
  <2>. HIDE DEF s, D
  <2>6. OwnWaits(Tail(s), D \ {c})
    BY <1>1, <1>2, <1>5, <2>5, WaitDone
  <2>. QED
    BY <2>2, <2>3, <2>4, <2>6 DEF Covered, t
<1>. QED
  BY <1>7, <1>8

LEMMA PollWhileGoes ==
    ASSUME Base, Covered, program \in Waiting, UNCHANGED <<program, original>>, DoPollWhile(Parent)
    PROVE  Covered'
<1> DEFINE s == code[Parent]
           t == code'[Parent]
           D == Due
           live == {c \in Children : run[c] \in {"running", "zombie"}}
<1>1. /\ s \in Seq(CallsOf(program, Parent)) /\ s # <<>> /\ Now(Parent) = s[1]
      /\ Running(Parent) /\ s[1].op = "poll_while" /\ "none" \in DOMAIN s[1] /\ s[1].count \in Nat
      /\ Parent \in Procs /\ Parent \notin Children /\ Now(Parent) \in CallsOf(program, Parent)
  BY NowTyped, ProcessesAssumption DEF Procs, DoPollWhile, Calls, Fields
<1>2. Patient(s) /\ (OwnWaits(s, D) \/ Polls(s, D))
  BY <1>1 DEF Covered, Escaping
<1>3. Forked(s) = {} /\ D = live
  BY <1>1, <1>2, NoForkAfterWait DEF Due
<1>4. s[1].none \in Escapes
  BY <1>1, <1>2 DEF Patient, Careful
<1>5. D \subseteq {C1, C2}
  BY <1>3, ChildrenAssumption
<1>6. \A first \in Escapes : t = first \o Tail(s) => Patient(t) /\ Forked(t) = {}
  <2>. HIDE DEF s, t
  <2> TAKE first \in Escapes
  <2> HAVE t = first \o Tail(s)
  <2>1. /\ first \in Seq(CallsOf(program, Parent)) /\ Plain(first)
    BY EscapesArePlain
  <2>. QED
    BY <1>1, <1>2, <1>3, <2>1, PatientOn DEF Plain
<1>7. CASE s[1].count = 0 \/ Unreaped(Parent) = {}
  <2>1. PICK first \in {<<>>, s[1].none} : GoOn(Parent, first) /\ UNCHANGED life
    BY <1>1, <1>7 DEF DoPollWhile
  <2>2. t = first \o Tail(s) /\ first \in Escapes /\ (first = <<>> => t = Tail(s))
    <3>1. <<>> \in Escapes
      BY EmptyNested DEF Escapes
    <3>. QED
      BY <1>1, <1>4, <2>1, <3>1, ParentGoesOn
  <2>3. Patient(t) /\ Forked(t) = {}
    BY <1>6, <2>2
  <2>4. Due' = D /\ Running(Parent)'
    BY <1>1, <1>3, <2>1, <2>3 DEF Due, life, Running
  <2>5. CASE first # <<>>
    <3>1. Escaping'
      BY <1>1, <2>2, <2>5, EscapesEscape
    <3>. QED
      BY <2>3, <2>4, <3>1 DEF Covered, t
  <2>6. CASE first = <<>>
    <3>1. s[1].count = 0 \/ D = {}
      BY <1>3, <1>7 DEF Unreaped
    <3>. HIDE DEF s, D
    <3>2. Polls(Tail(s), D)
      BY <1>1, <1>2, <3>1, PollDone
    <3>. QED
      BY <2>2, <2>3, <2>4, <2>6, <3>2 DEF Covered, t
  <2>. QED
    BY <2>5, <2>6
<1>8. CASE ~(s[1].count = 0 \/ Unreaped(Parent) = {})
  <2> DEFINE loop == WaitNoHangWhile(s[1].count - 1, s[1].none)
             first == <<loop>>
  <2>1. PICK c \in Zombies(Parent) : Reap(c, "unsaid") /\ GoOn(Parent, first)
    BY <1>1, <1>8 DEF DoPollWhile
  <2>2. /\ c \in Children /\ run[c] = "zombie" /\ run' = [run EXCEPT ![c] = "reaped"]
        /\ t = first \o Tail(s)
    BY <1>1, <2>1, ParentGoesOn DEF Zombies, Reap
  <2>3. Patient(t) /\ Forked(t) = {}
    <3>1. loop.op = "poll_while" /\ Careful(loop)
      BY <1>4 DEF WaitNoHangWhile, Careful
    <3>2. loop \in CallsOf(program, Parent)
      <4>. DEFINE n == s[1].count - 1
      <4>1. n \in Nat
        BY <1>1, <1>8
      <4>. HIDE DEF n
      <4>. QED
        BY <1>1, <4>1, Variants DEF n
    <3>. HIDE DEF loop, s, t
    <3>3. first \in Seq(CallsOf(program, Parent)) /\ DOMAIN first = {1} /\ first[1] = loop
      BY <3>2
    <3>. HIDE DEF first
    <3>. QED
      BY <1>1, <1>2, <1>3, <2>2, <3>1, <3>3, PatientOn
  <2>4. Due' = D \ {c} /\ Running(Parent)'
    BY <1>1, <1>3, <2>2, <2>3 DEF Due, Running, Base, LivesTyped, Procs
  <2>5. c \in D
    BY <1>3, <2>2
  <2>. HIDE DEF s, D
  <2>6. Polls(first \o Tail(s), D \ {c})
    BY <1>1, <1>2, <1>5, <1>8, <2>5, PollDone
  <2>. QED
    BY <2>2, <2>3, <2>4, <2>6 DEF Covered, t
<1>. QED
  BY <1>7, <1>8

(* What a call that is no wait, in a program that waits, puts before the   *)
(* rest.                                                                   *)
Puts(c, first) ==
    \/ first = <<>>
    \/ "fail" \in DOMAIN c /\ first = c.fail
    \/ c.op = "kill" /\ first = c.refused
    \/ c.op = "test" /\ first = <<SigSuspend>> \o c.body \o <<c>>
    \/ c.op \in {"read", "read_file"} /\ first = <<c>>
    \/ c.op = "write_file" /\ \E text \in Seq(Bytes) : first = <<[c EXCEPT !.text = text]>>

LEMMA MovePuts ==
    ASSUME Base, NEW p \in Procs, Moves(p),
           Now(p).op \notin {"exit", "fork", "exec", "wait", "poll", "poll_while", "if", "count",
                             "search"}
    PROVE  \/ EndBySignal(p, "PIPE")
           \/ UNCHANGED life /\ \E first : GoOn(p, first) /\ Puts(Now(p), first)
<1>0. Running(p)
  BY DEF Moves
<1>1. CASE CallFails(p)
  BY <1>1 DEF CallFails, Puts
<1>2. CASE ShortWrite(p)
  <2>1. PICK n \in 1 .. (Len(Now(p).text) - 1) :
           /\ PutBytes(p, n)
           /\ GoOn(p, IF Now(p).again
                      THEN <<[Now(p) EXCEPT !.text = SubSeq(@, n + 1, Len(@))]>> ELSE <<>>)
    BY <1>2 DEF ShortWrite
  <2>2. Now(p).op = "write_file" /\ UNCHANGED life
    BY <1>2, <2>1 DEF ShortWrite, Calls, PutBytes
  <2>3. Now(p).text \in Seq(Bytes)
    BY <1>0, <2>2, NowTyped DEF Fields
  <2>4. SubSeq(Now(p).text, n + 1, Len(Now(p).text)) \in Seq(Bytes)
    <3>. DEFINE text == Now(p).text
    <3>1. text \in Seq(Bytes) /\ Len(text) \in Nat /\ n \in Nat /\ n + 1 \in Nat
      BY <2>3
    <3>. HIDE DEF text
    <3>2. \A i \in n + 1 .. Len(text) : text[i] \in Bytes
      BY <3>1
    <3>3. SubSeq(text, n + 1, Len(text)) \in Seq(Bytes)
      BY <3>1, <3>2, SubSeqProperties
    <3>. QED
      BY <3>3 DEF text
  <2>. QED
    BY <2>1, <2>2, <2>4 DEF Puts
<1>3. CASE Step(p)
  <2> DEFINE c == Now(p)
             G == UNCHANGED life /\ \E first : GoOn(p, first) /\ Puts(c, first)
  <2>1. c.op \in {"block", "handle", "ignore", "suspend", "alarm", "pipe", "close", "open", "dup",
                  "lseek"} => G
    BY <1>3, StepOfCall
    DEF DoBlock, DoHandle, DoIgnore, DoSuspend, DoAlarm, DoPipe, DoClose, DoOpenFile, DoDup, DoLSeek,
        Puts
  <2>2. c.op = "kill" => G
    BY <1>3, StepOfCall DEF DoKill, Puts
  <2>3. c.op = "test" => G
    BY <1>3, StepOfCall DEF DoTest, Puts
  <2>4. c.op = "write" => EndBySignal(p, "PIPE") \/ G
    <3>1. CASE Now(p).op = "write" /\ DoWrite(p)
      BY <3>1 DEF DoWrite, Puts
    <3>2. CASE Now(p).op = "write" /\ BrokenPipe(p)
      <4>1. Now(p) \in CallsOf(program, p)
        BY <1>0, NowTyped
      <4>2. "fail" \in DOMAIN Now(p)
        BY <3>2, <4>1
        DEF CallsOf, ChildCalls, ParentCalls, SharedCalls, Counts, Seeks, Waits, Forks, Searches,
            Searching, Search, StepBack, LSeek
      <4>. QED
        BY <3>2, <4>2 DEF BrokenPipe, Puts
    <3>. QED
      BY <1>3, <3>1, <3>2, StepOfCall
  <2>5. c.op = "read" => G
    BY <1>3, StepOfCall DEF DoRead, Puts
  <2>6. c.op = "read_file" => G
    BY <1>3, StepOfCall DEF DoReadFile, Puts
  <2>7. c.op = "write_file" => G
    BY <1>3, StepOfCall DEF DoWriteFile, PutBytes, Puts
  <2>8. c.op \in {"block", "handle", "ignore", "suspend", "alarm", "pipe", "close", "open", "dup",
                  "lseek", "kill", "test", "write", "read", "read_file", "write_file"}
    BY <1>3, StepOfCall
  <2>. QED
    BY <2>1, <2>2, <2>3, <2>4, <2>5, <2>6, <2>7, <2>8
<1>. QED
  BY <1>1, <1>2, <1>3 DEF Moves

(* What a careful call puts before the rest is plain.                      *)
LEMMA PutsArePlain ==
    ASSUME NEW c \in CallsOf(program, Parent), Careful(c),
           c.op \notin {"exit", "exec", "wait", "poll", "poll_while"}, NEW first, Puts(c, first)
    PROVE  first \in Seq(CallsOf(program, Parent)) /\ Plain(first)
<1> DEFINE S == CallsOf(program, Parent)
<1>0. Parent \in Procs
  BY DEF Procs
<1>1. \A d \in S : (Careful(d) /\ d.op \notin {"exit", "fork", "wait", "poll_while"}) =>
          <<d>> \in Seq(S) /\ Plain(<<d>>)
  BY DEF Plain
<1>2. CASE first = <<>>
  BY <1>2 DEF Plain
<1>3. CASE "fail" \in DOMAIN c /\ first = c.fail
  BY <1>3, EscapesArePlain DEF Careful
<1>4. CASE c.op = "kill" /\ first = c.refused
  <2>1. "refused" \in DOMAIN c
    BY <1>0, <1>4, FieldsOfCalls DEF Fields
  <2>. QED
    BY <1>4, <2>1, EscapesArePlain DEF Careful
<1>5. CASE c.op = "test" /\ first = <<SigSuspend>> \o c.body \o <<c>>
  <2>1. c.body = <<>>
    BY <1>5 DEF Careful
  <2>2. SigSuspend \in S /\ SigSuspend.op = "suspend" /\ Careful(SigSuspend)
    <3>1. SigSuspend.op = "suspend" /\ DOMAIN SigSuspend = {"op"}
      BY DEF SigSuspend
    <3>2. SigSuspend \in S
      BY <1>0, Inserted
    <3>. QED
      BY <3>1, <3>2 DEF Careful
  <2>3. first \in Seq(S) /\ \A k \in DOMAIN first : first[k] \in {SigSuspend, c}
    <3>. DEFINE f == <<SigSuspend>>
                g == <<c>>
                h == <<>>
    <3>1. f \in Seq({SigSuspend, c}) /\ g \in Seq({SigSuspend, c}) /\ first = f \o h \o g
      BY <1>5, <2>1
    <3>2. h \in Seq({SigSuspend, c})
      BY EmptySeq
    <3>. HIDE DEF f, g, h
    <3>3. first \in Seq({SigSuspend, c})
      BY <3>1, <3>2, ConcatProperties
    <3>. QED
      BY <2>2, <3>3
  <2>. QED
    BY <1>5, <2>2, <2>3 DEF Plain
<1>6. CASE c.op \in {"read", "read_file"} /\ first = <<c>>
  BY <1>1, <1>6
<1>7. CASE c.op = "write_file" /\ \E text \in Seq(Bytes) : first = <<[c EXCEPT !.text = text]>>
  <2>1. PICK text \in Seq(Bytes) : first = <<[c EXCEPT !.text = text]>>
    BY <1>7
  <2>. DEFINE d == [c EXCEPT !.text = text]
  <2>2. d \in S
    BY <1>0, <1>7, Variants
  <2>3. /\ d.op = "write_file" /\ DOMAIN d = DOMAIN c /\ d.fail = c.fail
        /\ "none" \notin DOMAIN c /\ "refused" \notin DOMAIN c
    <3>1. "none" \notin DOMAIN c /\ "refused" \notin DOMAIN c
      BY <1>0, <1>7, FieldsOfCalls DEF Fields
    <3>2. c \in SharedCalls(Nested)
      BY <1>7 DEF CallsOf, ParentCalls, Counts, Seeks, Waits, Forks, Searches, Searching, Search, StepBack, LSeek
    <3>3. d.op = "write_file" /\ DOMAIN d = DOMAIN c /\ d.fail = c.fail
      BY <1>7, <3>2 DEF SharedCalls
    <3>. QED
      BY <3>1, <3>3
  <2>4. Careful(d)
    BY <2>3 DEF Careful
  <2>. HIDE DEF d
  <2>5. first = <<d>>
    BY <2>1 DEF d
  <2>. QED
    BY <1>1, <2>2, <2>3, <2>4, <2>5
<1>. QED
  BY <1>2, <1>3, <1>4, <1>5, <1>6, <1>7 DEF Puts

(* Nothing that concerns the parent's waits changes, but that a child may  *)
(* have come to its end.                                                   *)
Aside ==
    /\ code'[Parent] = code[Parent] /\ UNCHANGED told /\ run'[Parent] = run[Parent]
    /\ Parent \in killed' <=> Parent \in killed
    /\ status'[Parent] = status[Parent]
    /\ \A c \in Children :
          /\ run'[c] = "none" <=> run[c] = "none"
          /\ run'[c] \in {"running", "zombie"} => run[c] \in {"running", "zombie"}

LEMMA AsideCovered ==
    ASSUME Covered, UNCHANGED program, Aside
    PROVE  Covered'
<1>1. \A D, E : E \subseteq D =>
          /\ OwnWaits(code[Parent], D) => OwnWaits(code[Parent], E)
          /\ Polls(code[Parent], D) => Polls(code[Parent], E)
  BY DEF OwnWaits, Polls
<1>2. Due' \subseteq Due
  BY DEF Aside, Due
<1>3. Escaping' <=> Escaping
  BY DEF Aside, Escaping, Now
<1>4. Running(Parent)' <=> Running(Parent)
  BY DEF Aside, Running
<1>5. Succeeded(Parent)' <=> Succeeded(Parent)
  BY DEF Aside, Succeeded
<1>6. Collects => Collects'
  BY DEF Aside, Collects
<1>7. CASE Running(Parent)
  <2>1. OwnWaits(code[Parent], Due) => OwnWaits(code[Parent], Due')
    BY <1>1, <1>2
  <2>2. Polls(code[Parent], Due) => Polls(code[Parent], Due')
    BY <1>1, <1>2
  <2>. QED
    BY <1>3, <1>4, <1>7, <2>1, <2>2 DEF Covered, Aside
<1>8. CASE ~Running(Parent)
  BY <1>4, <1>5, <1>6, <1>8 DEF Covered
<1>. QED
  BY <1>7, <1>8

(* What does not change a life and does not touch the parent's calls.      *)
LEMMA QuietAside ==
    ASSUME UNCHANGED life, code'[Parent] = code[Parent]
    PROVE  Aside
BY DEF Aside, life

LEMMA EndAside ==
    ASSUME Base, NEW p \in Procs \ {Parent}, NEW st, NEW by \in SUBSET {p}, End(p, st, by),
           Running(p)
    PROVE  Aside
<1>1. /\ run \in [Procs -> {"none", "running", "zombie", "reaped"}] /\ Parent \in Procs
      /\ status \in [Procs -> Statuses] /\ p \in Procs /\ p # Parent /\ Children \subseteq Procs
      /\ Parent \notin Children
  BY ProcessesAssumption DEF Base, LivesTyped, Procs
<1>2. /\ run'[Parent] = run[Parent] /\ status'[Parent] = status[Parent]
      /\ Parent \in killed' <=> Parent \in killed
      /\ code' = code /\ told' = told
  BY <1>1 DEF End
<1>3. ASSUME NEW c \in Children
      PROVE  /\ run'[c] = "none" <=> run[c] = "none"
             /\ run'[c] \in {"running", "zombie"} => run[c] \in {"running", "zombie"}
  BY <1>1, <1>3 DEF End, Running
<1>. QED
  BY <1>2, <1>3 DEF Aside

LEMMA OthersStep ==
    ASSUME Base, NEW p \in Procs \ {Parent},
           Step(p) \/ CallFails(p) \/ ShortWrite(p) \/ Deliver(p) \/ Expire(p) \/ Killed(p)
    PROVE  Aside
<1>0. DOMAIN code = Procs /\ Parent \in Procs /\ p \in Procs /\ p # Parent
  BY DEF Base, Coded, Procs
<1>1. \A first : GoOn(p, first) => code'[Parent] = code[Parent]
  BY <1>0 DEF GoOn
<1>2. CASE Expire(p)
  BY <1>2, QuietAside DEF Expire
<1>3. CASE Killed(p)
  BY <1>3, EndAside DEF Killed, EndBySignal
<1>4. CASE Deliver(p)
  <2>1. PICK s \in pending[p] \ mask[p] :
         IF s \in handled[p]
         THEN /\ \E rest \in {code[p], IF Now(p) = SigSuspend THEN Tail(code[p]) ELSE code[p]} :
                    code' = [code EXCEPT ![p] = rest]
              /\ UNCHANGED life
         ELSE EndBySignal(p, s)
    BY <1>4 DEF Deliver
  <2>2. Running(p)
    BY <1>4 DEF Deliver
  <2>3. CASE s \in handled[p]
    BY <1>0, <2>1, <2>3, QuietAside
  <2>4. CASE s \notin handled[p]
    BY <2>1, <2>2, <2>4, EndAside DEF EndBySignal
  <2>. QED
    BY <2>3, <2>4
<1>5. CASE CallFails(p)
  BY <1>1, <1>5, QuietAside DEF CallFails
<1>6. CASE ShortWrite(p)
  BY <1>1, <1>6, QuietAside DEF ShortWrite, PutBytes
<1>7. CASE Step(p)
  <2>0. Running(p) /\ Zombies(p) = {} /\ Unreaped(p) = {}
    BY <1>0, <1>7, StepOfCall DEF Zombies, Unreaped
  <2>1. CASE DoExit(p)
    BY <2>0, <2>1, EndAside DEF DoExit
  <2>2. ~DoFork(p)
    BY <1>0, <2>0, NowTyped DEF DoFork, Calls, Fields
  <2>3. CASE DoExec(p)
    BY <1>0, <2>3, QuietAside DEF DoExec
  <2>4. CASE DoWait(p) \/ DoPoll(p) \/ DoPollWhile(p)
    BY <1>1, <2>0, <2>4, QuietAside DEF DoWait, DoPoll, DoPollWhile
  <2>5. CASE DoIfCaught(p) \/ DoCount(p) \/ DoSearch(p)
    BY <1>1, <2>5, QuietAside DEF DoIfCaught, DoCount, DoSearch
  <2>6. CASE Now(p).op \notin {"exit", "fork", "exec", "wait", "poll", "poll_while", "if", "count",
                               "search"}
    <3>1. Moves(p)
      BY <1>7, <2>0 DEF Moves
    <3>2. CASE EndBySignal(p, "PIPE")
      BY <2>0, <3>2, EndAside DEF EndBySignal
    <3>3. CASE UNCHANGED life /\ \E first : GoOn(p, first)
      BY <1>1, <3>3, QuietAside
    <3>. QED
      BY <2>6, <3>1, <3>2, <3>3, MovePuts
  <2>. QED
    BY <1>7, <2>1, <2>2, <2>3, <2>4, <2>5, <2>6, StepOfCall
<1>. QED
  BY <1>2, <1>3, <1>4, <1>5, <1>6, <1>7

(* The parent does a call.                                                 *)
LEMMA ParentMoves ==
    ASSUME Base, Base', Covered, program \in Waiting, UNCHANGED <<program, original>>, Moves(Parent)
    PROVE  Covered'
<1> DEFINE c == Now(Parent)
<1>0. /\ Running(Parent) /\ Parent \in Procs /\ Parent \notin Children
      /\ c \in CallsOf(program, Parent) /\ Fields(program, Parent, c)
      /\ code[Parent] \in Seq(CallsOf(program, Parent)) /\ code[Parent] # <<>> /\ c = code[Parent][1]
  BY NowTyped, ProcessesAssumption DEF Moves, Procs
<1>1. Careful(c)
  <2>1. 1 \in DOMAIN code[Parent]
    BY <1>0
  <2>. QED
    BY <1>0, <2>1 DEF Covered, Patient
<1>. HIDE DEF c
<1>2. c.op \notin {"exec", "if", "search", "count", "poll"}
  BY <1>1 DEF Careful
<1>3. CASE c.op = "exit"
  <2>1. DoExit(Parent)
    <3>1. ~CallFails(Parent) /\ ~ShortWrite(Parent)
      BY <1>0, <1>3 DEF CallFails, ShortWrite, Calls, Fields, c
    <3>. QED
      BY <1>3, <3>1, StepOfCall DEF Moves, c
  <2>2. ~Running(Parent)' /\ (Bad(c.status) => ~Succeeded(Parent)')
    BY <1>0, <2>1, ExitEnds DEF c
  <2>3. CASE Bad(c.status)
    BY <2>2, <2>3 DEF Covered
  <2>4. CASE ~Bad(c.status)
    <3>1. Collects
      BY <1>0, <1>3, <2>4, NobodyDue DEF c
    <3>2. UNCHANGED told /\ \A d \in Children : run'[d] = "none" <=> run[d] = "none"
      <4>1. UNCHANGED told
        BY <2>1 DEF DoExit, End
      <4>2. \A q \in Procs \ {Parent} : run'[q] = "none" <=> run[q] = "none"
        BY <1>0, <2>1, ExitEnds
      <4>. QED
        BY <1>0, <4>1, <4>2 DEF Procs
    <3>. QED
      BY <2>2, <3>1, <3>2 DEF Covered, Collects
  <2>. QED
    BY <2>3, <2>4
<1>4. CASE c.op = "wait"
  <2>1. DoWait(Parent)
    <3>1. ~CallFails(Parent) /\ ~ShortWrite(Parent)
      BY <1>0, <1>4 DEF CallFails, ShortWrite, Calls, Fields, c
    <3>. QED
      BY <1>4, <3>1, StepOfCall DEF Moves, c
  <2>. QED
    BY <2>1, WaitGoes
<1>5. CASE c.op = "poll_while"
  <2>1. DoPollWhile(Parent)
    <3>1. ~CallFails(Parent) /\ ~ShortWrite(Parent)
      BY <1>0, <1>5 DEF CallFails, ShortWrite, Calls, Fields, c
    <3>. QED
      BY <1>5, <3>1, StepOfCall DEF Moves, c
  <2>. QED
    BY <2>1, PollWhileGoes
<1>6. CASE c.op = "fork"
  <2>1. CASE DoFork(Parent)
    <3>1. /\ code'[Parent] = Tail(code[Parent]) /\ run' = [run EXCEPT ![c.child] = "running"]
          /\ c.child \in Children
      BY <1>0, <1>6, <2>1 DEF DoFork, c, Fields, Base, Coded
    <3>2. c.child \in Due
      <4>1. 1 \in DOMAIN code[Parent]
        BY <1>0
      <4>. QED
        BY <1>0, <1>6, <4>1 DEF Due, Forked
    <3>3. Running(Parent)' /\ \A d \in Children : run'[d] \in {"running", "zombie"} => d \in Due
      BY <1>0, <3>1, <3>2 DEF Running, Due, Base, LivesTyped, Procs
    <3>. DEFINE first == <<>>
    <3>4. first \in Seq(CallsOf(program, Parent)) /\ Plain(first)
      BY EmptySeq DEF Plain
    <3>5. code'[Parent] = first \o Tail(code[Parent])
      <4>1. Tail(code[Parent]) \in Seq(CallsOf(program, Parent))
        BY <1>0, HeadTailProperties
      <4>. QED
        BY <3>1, <4>1, ConcatEmptySeq
    <3>. HIDE DEF first
    <3>. QED
      BY <1>0, <1>6, <3>3, <3>4, <3>5, PlainGoes DEF c
  <2>2. CASE CallFails(Parent)
    <3>1. /\ "fail" \in DOMAIN c /\ GoOn(Parent, c.fail) /\ UNCHANGED life
      BY <2>2 DEF CallFails, c
    <3>2. c.fail \in Seq(CallsOf(program, Parent)) /\ Plain(c.fail)
      BY <1>1, <3>1, EscapesArePlain DEF Careful
    <3>3. /\ code'[Parent] = c.fail \o Tail(code[Parent]) /\ Running(Parent)'
          /\ \A d \in Children : run'[d] \in {"running", "zombie"} => d \in Due
      BY <1>0, <3>1, ParentGoesOn DEF life, Running, Due
    <3>. QED
      BY <1>0, <1>6, <3>2, <3>3, PlainGoes DEF c
  <2>. QED
    <3>1. ~ShortWrite(Parent)
      BY <1>6 DEF ShortWrite, Calls, c
    <3>. QED
      BY <1>6, <2>1, <2>2, <3>1, StepOfCall DEF Moves, c
<1>7. CASE c.op \notin {"exit", "wait", "poll_while", "fork"}
  <2>1. CASE EndBySignal(Parent, "PIPE")
    <3>1. Dies(Parent)
      BY <1>0, <2>1, SignalsAre DEF Dies
    <3>. QED
      BY <1>0, <3>1, DeathFails DEF Covered
  <2>2. CASE UNCHANGED life /\ \E first : GoOn(Parent, first) /\ Puts(c, first)
    <3>1. PICK first : GoOn(Parent, first) /\ Puts(c, first)
      BY <2>2
    <3>2. first \in Seq(CallsOf(program, Parent)) /\ Plain(first)
      BY <1>0, <1>1, <1>2, <1>7, <3>1, PutsArePlain
    <3>3. /\ code'[Parent] = first \o Tail(code[Parent]) /\ Running(Parent)'
          /\ \A d \in Children : run'[d] \in {"running", "zombie"} => d \in Due
      BY <1>0, <2>2, <3>1, ParentGoesOn DEF life, Running, Due
    <3>. QED
      BY <1>0, <1>7, <3>2, <3>3, PlainGoes DEF c
  <2>. QED
    BY <1>0, <1>2, <1>7, <2>1, <2>2, MovePuts DEF c
<1>. QED
  BY <1>3, <1>4, <1>5, <1>6, <1>7

LEMMA CoveredStep ==
    ASSUME Base, Base', Covered, [Next]_vars
    PROVE  Covered'
<1>0. UNCHANGED <<program, original>> /\ Parent \in Procs
  BY DEF Next, vars, Procs
<1>1. SUFFICES ASSUME program \in Waiting
               PROVE  Covered'
  BY <1>0 DEF Covered
<1>2. CASE UNCHANGED vars
  BY <1>2, QuietAside, AsideCovered DEF vars, kernel
<1>3. ASSUME NEW p \in Procs \ {Parent},
             Step(p) \/ CallFails(p) \/ ShortWrite(p) \/ Deliver(p) \/ Expire(p) \/ Killed(p)
      PROVE  Covered'
  BY <1>0, <1>3, OthersStep, AsideCovered
<1>4. CASE Step(Parent) \/ CallFails(Parent) \/ ShortWrite(Parent)
  <2>1. Moves(Parent)
    BY <1>4, StepOfCall DEF Moves, CallFails, ShortWrite, Calls
  <2>. QED
    BY <1>0, <1>1, <2>1, ParentMoves
<1>5. CASE Dies(Parent)
  BY <1>0, <1>5, DeathFails DEF Covered
<1>6. CASE Deliver(Parent)
  <2>1. PICK s \in pending[Parent] \ mask[Parent] :
         IF s \in handled[Parent]
         THEN /\ \E rest \in {code[Parent], IF Now(Parent) = SigSuspend THEN Tail(code[Parent])
                                            ELSE code[Parent]} :
                    code' = [code EXCEPT ![Parent] = rest]
              /\ UNCHANGED life
         ELSE EndBySignal(Parent, s)
    BY <1>6 DEF Deliver
  <2>2. Running(Parent) /\ s \in Signals
    BY <1>0, <1>6 DEF Deliver, Base, SignalsTyped
  <2>3. CASE s \notin handled[Parent]
    BY <1>5, <2>1, <2>2, <2>3 DEF Dies
  <2>4. CASE s \in handled[Parent] /\ code'[Parent] = code[Parent]
    BY <1>0, <2>1, <2>4, QuietAside, AsideCovered
  <2>5. CASE s \in handled[Parent] /\ Now(Parent) = SigSuspend /\ code'[Parent] = Tail(code[Parent])
    <3>. DEFINE first == <<>>
    <3>1. first \in Seq(CallsOf(program, Parent)) /\ Plain(first)
      BY EmptySeq DEF Plain
    <3>2. code'[Parent] = first \o Tail(code[Parent])
      <4>1. Tail(code[Parent]) \in Seq(CallsOf(program, Parent))
        BY <1>0, <2>2, NowTyped, HeadTailProperties
      <4>. QED
        BY <2>5, <4>1, ConcatEmptySeq
    <3>. HIDE DEF first
    <3>3. Now(Parent).op \notin {"exit", "wait", "poll_while"}
      BY <2>5 DEF SigSuspend
    <3>4. Running(Parent)' /\ \A d \in Children : run'[d] \in {"running", "zombie"} => d \in Due
      BY <2>1, <2>2, <2>5 DEF Running, Due, life
    <3>. QED
      BY <1>0, <1>1, <2>2, <3>1, <3>2, <3>3, <3>4, PlainGoes
  <2>6. s \in handled[Parent] =>
            \/ code'[Parent] = code[Parent]
            \/ Now(Parent) = SigSuspend /\ code'[Parent] = Tail(code[Parent])
    BY <1>0, <2>1 DEF Base, Coded
  <2>. QED
    BY <2>3, <2>4, <2>5, <2>6
<1>7. CASE Expire(Parent)
  BY <1>0, <1>7, QuietAside, AsideCovered DEF Expire
<1>8. CASE Killed(Parent)
  BY <1>5, <1>8, SignalsAre DEF Killed, Dies
<1>9. ASSUME NEW s \in {"INT", "TERM"}, Signalled(Parent, s)
      PROVE  Covered'
  BY <1>0, <1>9, QuietAside, AsideCovered DEF Signalled
<1>10. ~Overrun
  BY <1>1 DEF Overrun, Waiting
<1>. QED
  BY <1>0, <1>2, <1>3, <1>4, <1>6, <1>7, <1>8, <1>9, <1>10 DEF Next

-----------------------------------------------------------------------------
(* The programs that wait: their start                                     *)

LEMMA EscapesAre == <<>> \in Escapes /\ \A n \in Int : Bad(n) => <<Exit(n)>> \in Escapes
<1>1. <<>> \in Escapes
  BY EmptyNested DEF Escapes
<1>2. ASSUME NEW n \in Int, Bad(n)
      PROVE  <<Exit(n)>> \in Escapes
  BY <1>2, ExitsNested DEF Escapes
<1>. QED
  BY <1>1, <1>2

LEMMA CarefulCalls ==
    /\ \A n : Careful(Exit(n))
    /\ \A c, m : \A f \in Escapes : Careful(Fork(c, m, f))
    /\ \A who, says : \A f \in Escapes : Careful(Wait(who, says, f))
    /\ \A n : \A f \in Escapes : Careful(WaitNoHangWhile(n, f))
    /\ \A x : Careful(Block(x)) /\ Careful(Handle(x)) /\ Careful(Ignore(x)) /\ Careful(CloseEnd(x))
    /\ \A x : Careful(SuspendWhileNot(x, <<>>))
    /\ \A p, s : \A f \in Escapes : Careful(Kill(p, s, f))
    /\ Careful(OpenPipe)
    /\ \A n : \A f \in Escapes : Careful(WritePipe(n, f))
    /\ \A x : \A f \in Escapes : Careful(OpenFile(x, f))
    /\ \A x : \A f \in Escapes : Careful(WriteFile(x, f))
<1>1. /\ \A n : Careful(Exit(n))
      /\ \A x : Careful(Block(x)) /\ Careful(Handle(x)) /\ Careful(Ignore(x)) /\ Careful(CloseEnd(x))
  BY DEF Careful, Exit, Block, Handle, Ignore, CloseEnd
<1>2. /\ \A c, m : \A f \in Escapes : Careful(Fork(c, m, f))
      /\ \A p, s : \A f \in Escapes : Careful(Kill(p, s, f))
  BY DEF Careful, Fork, Kill
<1>3. /\ \A who, says : \A f \in Escapes : Careful(Wait(who, says, f))
      /\ \A n : \A f \in Escapes : Careful(WaitNoHangWhile(n, f))
  BY DEF Careful, Wait, WaitNoHangWhile
<1>4. \A x : Careful(SuspendWhileNot(x, <<>>))
  BY DEF Careful, SuspendWhileNot
<1>5. Careful(OpenPipe)
  BY EscapesAre, BadStatuses DEF Careful, OpenPipe
<1>6. /\ \A n : \A f \in Escapes : Careful(WritePipe(n, f))
      /\ \A x : \A f \in Escapes : Careful(OpenFile(x, f))
      /\ \A x : \A f \in Escapes : Careful(WriteFile(x, f))
  BY DEF Careful, WritePipe, OpenFile, WriteFile
<1>. QED
  BY <1>1, <1>2, <1>3, <1>4, <1>5, <1>6

(* Each child that s makes is waited for.                                  *)
AwaitsAll(s) ==
    Patient(s) /\ \E D : Forked(s) \subseteq D /\ (OwnWaits(s, D) \/ Polls(s, D))

LEMMA Awaits_7_1 == AwaitsAll(Main_7_1)
<1> DEFINE a1 == Fork(C1, <<Exit(3)>>, FailsMinus1)
           a2 == Wait(Children, "range", FailsMinus1)
           a3 == Exit(0)
<1>1. Main_7_1 = <<a1, a2, a3>>
  BY DEF Main_7_1
<1>2. /\ Careful(a1)
      /\ Careful(a2)
      /\ Careful(a3)
  <2>1. FailsMinus1 \in Escapes
    BY EscapesAre, BadStatuses DEF FailsMinus1
  <2>. QED
    BY <2>1, CarefulCalls, Zenon
<1>3. /\ a1.op = "fork"
      /\ a1.child = C1
      /\ a2.op = "wait"
      /\ a2.who = Children
      /\ a3.op = "exit"
  BY DEF Exit, Fork, Wait
<1>. HIDE DEF a1, a2, a3
<1>4. /\ DOMAIN Main_7_1 = 1 .. 3 /\ Len(Main_7_1) = 3
      /\ Main_7_1[1] = a1
      /\ Main_7_1[2] = a2
      /\ Main_7_1[3] = a3
  BY <1>1
<1>5. Patient(Main_7_1)
  BY <1>2, <1>3, <1>4 DEF Patient
<1>6. Forked(Main_7_1) \subseteq {C1}
  <2>1. \A k \in DOMAIN Main_7_1 : Main_7_1[k].op = "fork" => Main_7_1[k].child \in {C1}
    BY <1>3, <1>4
  <2>. QED
    BY <2>1 DEF Forked
<1>7. OwnWaits(Main_7_1, {C1})
  BY <1>3, <1>4, ChildrenAssumption DEF OwnWaits, WaitsAt
<1>. QED
  BY <1>5, <1>6, <1>7 DEF AwaitsAll

LEMMA Awaits_7_2 == AwaitsAll(Main_7_2)
<1> DEFINE a1 == Fork(C1, <<Exit(1)>>, FailsMinus1)
           a2 == Fork(C2, <<Exit(2)>>, FailsMinus1)
           a3 == Wait(Children, "range", FailsMinus1)
           a4 == Wait(Children, "range", FailsMinus1)
           a5 == Exit(0)
<1>1. Main_7_2 = <<a1, a2, a3, a4, a5>>
  BY DEF Main_7_2
<1>2. /\ Careful(a1)
      /\ Careful(a2)
      /\ Careful(a3)
      /\ Careful(a4)
      /\ Careful(a5)
  <2>1. FailsMinus1 \in Escapes
    BY EscapesAre, BadStatuses DEF FailsMinus1
  <2>. QED
    BY <2>1, CarefulCalls, Zenon
<1>3. /\ a1.op = "fork"
      /\ a1.child = C1
      /\ a2.op = "fork"
      /\ a2.child = C2
      /\ a3.op = "wait"
      /\ a3.who = Children
      /\ a4.op = "wait"
      /\ a4.who = Children
      /\ a5.op = "exit"
  BY DEF Exit, Fork, Wait
<1>. HIDE DEF a1, a2, a3, a4, a5
<1>4. /\ DOMAIN Main_7_2 = 1 .. 5 /\ Len(Main_7_2) = 5
      /\ Main_7_2[1] = a1
      /\ Main_7_2[2] = a2
      /\ Main_7_2[3] = a3
      /\ Main_7_2[4] = a4
      /\ Main_7_2[5] = a5
  BY <1>1
<1>5. Patient(Main_7_2)
  BY <1>2, <1>3, <1>4 DEF Patient
<1>6. Forked(Main_7_2) \subseteq {C1, C2}
  <2>1. \A k \in DOMAIN Main_7_2 : Main_7_2[k].op = "fork" => Main_7_2[k].child \in {C1, C2}
    BY <1>3, <1>4
  <2>. QED
    BY <2>1 DEF Forked
<1>7. OwnWaits(Main_7_2, {C1, C2})
  BY <1>3, <1>4, ChildrenAssumption DEF OwnWaits, WaitsAt
<1>. QED
  BY <1>5, <1>6, <1>7 DEF AwaitsAll

LEMMA Awaits_7_3 == AwaitsAll(Main_7_3)
<1> DEFINE a1 == Fork(C1, <<Exit(0)>>, FailsMinus1)
           a2 == Fork(C2, Child2_7_3, Child2_7_3)
           a3 == Wait({C1}, "unsaid", FailsMinus1)
           a4 == Wait({C2}, "unsaid", FailsMinus1)
           a5 == Exit(0)
<1>1. Main_7_3 = <<a1, a2, a3, a4, a5>>
  BY DEF Main_7_3
<1>2. /\ Careful(a1)
      /\ Careful(a2)
      /\ Careful(a3)
      /\ Careful(a4)
      /\ Careful(a5)
  <2>1. FailsMinus1 \in Escapes /\ Child2_7_3 \in Escapes
    BY EscapesAre, BadStatuses DEF FailsMinus1, Child2_7_3
  <2>. QED
    BY <2>1, CarefulCalls, Zenon
<1>3. /\ a1.op = "fork"
      /\ a1.child = C1
      /\ a2.op = "fork"
      /\ a2.child = C2
      /\ a3.op = "wait"
      /\ a3.who = {C1}
      /\ a4.op = "wait"
      /\ a4.who = {C2}
      /\ a5.op = "exit"
  BY DEF Exit, Fork, Wait
<1>. HIDE DEF a1, a2, a3, a4, a5
<1>4. /\ DOMAIN Main_7_3 = 1 .. 5 /\ Len(Main_7_3) = 5
      /\ Main_7_3[1] = a1
      /\ Main_7_3[2] = a2
      /\ Main_7_3[3] = a3
      /\ Main_7_3[4] = a4
      /\ Main_7_3[5] = a5
  BY <1>1
<1>5. Patient(Main_7_3)
  BY <1>2, <1>3, <1>4 DEF Patient
<1>6. Forked(Main_7_3) \subseteq {C1, C2}
  <2>1. \A k \in DOMAIN Main_7_3 : Main_7_3[k].op = "fork" => Main_7_3[k].child \in {C1, C2}
    BY <1>3, <1>4
  <2>. QED
    BY <2>1 DEF Forked
<1>7. OwnWaits(Main_7_3, {C1, C2})
  BY <1>3, <1>4, ChildrenAssumption DEF OwnWaits, WaitsAt
<1>. QED
  BY <1>5, <1>6, <1>7 DEF AwaitsAll

LEMMA Awaits_7_5 == AwaitsAll(Main_7_5)
<1> DEFINE a1 == Fork(C1, <<Exit(2)>>, FailsMinus1)
           a2 == Fork(C2, Child2_7_5, Child2_7_5)
           a3 == WaitNoHangWhile(2, FailsMinus1)
           a4 == Exit(0)
<1>1. Main_7_5 = <<a1, a2, a3, a4>>
  BY DEF Main_7_5
<1>2. /\ Careful(a1)
      /\ Careful(a2)
      /\ Careful(a3)
      /\ Careful(a4)
  <2>1. FailsMinus1 \in Escapes /\ Child2_7_5 \in Escapes
    BY EscapesAre, BadStatuses DEF FailsMinus1, Child2_7_5
  <2>. QED
    BY <2>1, CarefulCalls, Zenon
<1>3. /\ a1.op = "fork"
      /\ a1.child = C1
      /\ a2.op = "fork"
      /\ a2.child = C2
      /\ a3.op = "poll_while"
      /\ a3.count = 2
      /\ a4.op = "exit"
  BY DEF Exit, Fork, WaitNoHangWhile
<1>. HIDE DEF a1, a2, a3, a4
<1>4. /\ DOMAIN Main_7_5 = 1 .. 4 /\ Len(Main_7_5) = 4
      /\ Main_7_5[1] = a1
      /\ Main_7_5[2] = a2
      /\ Main_7_5[3] = a3
      /\ Main_7_5[4] = a4
  BY <1>1
<1>5. Patient(Main_7_5)
  BY <1>2, <1>3, <1>4 DEF Patient
<1>6. Forked(Main_7_5) \subseteq {C1, C2}
  <2>1. \A k \in DOMAIN Main_7_5 : Main_7_5[k].op = "fork" => Main_7_5[k].child \in {C1, C2}
    BY <1>3, <1>4
  <2>. QED
    BY <2>1 DEF Forked
<1>7. Polls(Main_7_5, {C1, C2})
  BY <1>3, <1>4, ChildrenAssumption DEF Polls
<1>. QED
  BY <1>5, <1>6, <1>7 DEF AwaitsAll

LEMMA Awaits_7_8 == AwaitsAll(Main_7_8)
<1> DEFINE a1 == Fork(C1, <<Exit(2)>>, FailsMinus1)
           a2 == Wait({C1}, "unsaid", <<>>)
           a3 == Exit(0)
<1>1. Main_7_8 = <<a1, a2, a3>>
  BY DEF Main_7_8
<1>2. /\ Careful(a1)
      /\ Careful(a2)
      /\ Careful(a3)
  <2>1. FailsMinus1 \in Escapes /\ <<>> \in Escapes
    BY EscapesAre, BadStatuses DEF FailsMinus1
  <2>. QED
    BY <2>1, CarefulCalls, Zenon
<1>3. /\ a1.op = "fork"
      /\ a1.child = C1
      /\ a2.op = "wait"
      /\ a2.who = {C1}
      /\ a3.op = "exit"
  BY DEF Exit, Fork, Wait
<1>. HIDE DEF a1, a2, a3
<1>4. /\ DOMAIN Main_7_8 = 1 .. 3 /\ Len(Main_7_8) = 3
      /\ Main_7_8[1] = a1
      /\ Main_7_8[2] = a2
      /\ Main_7_8[3] = a3
  BY <1>1
<1>5. Patient(Main_7_8)
  BY <1>2, <1>3, <1>4 DEF Patient
<1>6. Forked(Main_7_8) \subseteq {C1}
  <2>1. \A k \in DOMAIN Main_7_8 : Main_7_8[k].op = "fork" => Main_7_8[k].child \in {C1}
    BY <1>3, <1>4
  <2>. QED
    BY <2>1 DEF Forked
<1>7. OwnWaits(Main_7_8, {C1})
  BY <1>3, <1>4, ChildrenAssumption DEF OwnWaits, WaitsAt
<1>. QED
  BY <1>5, <1>6, <1>7 DEF AwaitsAll

LEMMA Awaits_7_9 == AwaitsAll(Main_7_9)
<1> DEFINE a1 == OpenFile(TRUE, <<Exit(-2)>>)
           a2 == WriteFile(Text("Parent", 2), <<Exit(-4)>>)
           a3 == Fork(C1, Child_7_9, FailsMinus1)
           a4 == Wait({C1}, "unsaid", FailsMinus1)
           a5 == Exit(0)
<1>1. Main_7_9 = <<a1, a2, a3, a4, a5>>
  BY DEF Main_7_9
<1>2. /\ Careful(a1)
      /\ Careful(a2)
      /\ Careful(a3)
      /\ Careful(a4)
      /\ Careful(a5)
  <2>1. <<Exit(-2)>> \in Escapes /\ <<Exit(-4)>> \in Escapes /\ FailsMinus1 \in Escapes
    BY EscapesAre, BadStatuses DEF FailsMinus1
  <2>. QED
    BY <2>1, CarefulCalls, Zenon
<1>3. /\ a1.op = "open"
      /\ a2.op = "write_file"
      /\ a3.op = "fork"
      /\ a3.child = C1
      /\ a4.op = "wait"
      /\ a4.who = {C1}
      /\ a5.op = "exit"
  BY DEF Exit, Fork, OpenFile, Wait, WriteFile
<1>. HIDE DEF a1, a2, a3, a4, a5
<1>4. /\ DOMAIN Main_7_9 = 1 .. 5 /\ Len(Main_7_9) = 5
      /\ Main_7_9[1] = a1
      /\ Main_7_9[2] = a2
      /\ Main_7_9[3] = a3
      /\ Main_7_9[4] = a4
      /\ Main_7_9[5] = a5
  BY <1>1
<1>5. Patient(Main_7_9)
  BY <1>2, <1>3, <1>4 DEF Patient
<1>6. Forked(Main_7_9) \subseteq {C1}
  <2>1. \A k \in DOMAIN Main_7_9 : Main_7_9[k].op = "fork" => Main_7_9[k].child \in {C1}
    BY <1>3, <1>4
  <2>. QED
    BY <2>1 DEF Forked
<1>7. OwnWaits(Main_7_9, {C1})
  BY <1>3, <1>4, ChildrenAssumption DEF OwnWaits, WaitsAt
<1>. QED
  BY <1>5, <1>6, <1>7 DEF AwaitsAll

LEMMA Awaits_8_4 == AwaitsAll(Main_8_4)
<1> DEFINE a1 == Fork(C1, <<Exec(P2_8_4), Exit(0)>>, FailsMinus1)
           a2 == Wait(Children, "unsaid", <<>>)
           a3 == Exit(0)
<1>1. Main_8_4 = <<a1, a2, a3>>
  BY DEF Main_8_4
<1>2. /\ Careful(a1)
      /\ Careful(a2)
      /\ Careful(a3)
  <2>1. FailsMinus1 \in Escapes /\ <<>> \in Escapes
    BY EscapesAre, BadStatuses DEF FailsMinus1
  <2>. QED
    BY <2>1, CarefulCalls, Zenon
<1>3. /\ a1.op = "fork"
      /\ a1.child = C1
      /\ a2.op = "wait"
      /\ a2.who = Children
      /\ a3.op = "exit"
  BY DEF Exit, Fork, Wait
<1>. HIDE DEF a1, a2, a3
<1>4. /\ DOMAIN Main_8_4 = 1 .. 3 /\ Len(Main_8_4) = 3
      /\ Main_8_4[1] = a1
      /\ Main_8_4[2] = a2
      /\ Main_8_4[3] = a3
  BY <1>1
<1>5. Patient(Main_8_4)
  BY <1>2, <1>3, <1>4 DEF Patient
<1>6. Forked(Main_8_4) \subseteq {C1}
  <2>1. \A k \in DOMAIN Main_8_4 : Main_8_4[k].op = "fork" => Main_8_4[k].child \in {C1}
    BY <1>3, <1>4
  <2>. QED
    BY <2>1 DEF Forked
<1>7. OwnWaits(Main_8_4, {C1})
  BY <1>3, <1>4, ChildrenAssumption DEF OwnWaits, WaitsAt
<1>. QED
  BY <1>5, <1>6, <1>7 DEF AwaitsAll

LEMMA Awaits_9_3 == AwaitsAll(Main_9_3)
<1> DEFINE a1 == Block({"USR1", "USR2"})
           a2 == Handle("USR1")
           a3 == Handle("USR2")
           a4 == Fork(C1, <<Exec(Program_2_9_3), Exit(1)>>, Fails)
           a5 == SuspendWhileNot({"USR1"}, <<>>)
           a6 == Kill(C1, "USR1", Fails)
           a7 == SuspendWhileNot({"USR2"}, <<>>)
           a8 == Wait({C1}, "WIFEXITED", Fails)
           a9 == Exit(0)
<1>1. Main_9_3 = <<a1, a2, a3, a4, a5, a6, a7, a8, a9>>
  BY DEF Main_9_3
<1>2. /\ Careful(a1)
      /\ Careful(a2)
      /\ Careful(a3)
      /\ Careful(a4)
      /\ Careful(a5)
      /\ Careful(a6)
      /\ Careful(a7)
      /\ Careful(a8)
      /\ Careful(a9)
  <2>1. Fails \in Escapes
    BY EscapesAre, BadStatuses DEF Fails
  <2>. QED
    BY <2>1, CarefulCalls, Zenon
<1>3. /\ a1.op = "block"
      /\ a2.op = "handle"
      /\ a3.op = "handle"
      /\ a4.op = "fork"
      /\ a4.child = C1
      /\ a5.op = "test"
      /\ a6.op = "kill"
      /\ a7.op = "test"
      /\ a8.op = "wait"
      /\ a8.who = {C1}
      /\ a9.op = "exit"
  BY DEF Block, Exit, Fork, Handle, Kill, SuspendWhileNot, Wait
<1>. HIDE DEF a1, a2, a3, a4, a5, a6, a7, a8, a9
<1>4. /\ DOMAIN Main_9_3 = 1 .. 9 /\ Len(Main_9_3) = 9
      /\ Main_9_3[1] = a1
      /\ Main_9_3[2] = a2
      /\ Main_9_3[3] = a3
      /\ Main_9_3[4] = a4
      /\ Main_9_3[5] = a5
      /\ Main_9_3[6] = a6
      /\ Main_9_3[7] = a7
      /\ Main_9_3[8] = a8
      /\ Main_9_3[9] = a9
  BY <1>1
<1>5. Patient(Main_9_3)
  BY <1>2, <1>3, <1>4 DEF Patient
<1>6. Forked(Main_9_3) \subseteq {C1}
  <2>1. \A k \in DOMAIN Main_9_3 : Main_9_3[k].op = "fork" => Main_9_3[k].child \in {C1}
    BY <1>3, <1>4
  <2>. QED
    BY <2>1 DEF Forked
<1>7. OwnWaits(Main_9_3, {C1})
  BY <1>3, <1>4, ChildrenAssumption DEF OwnWaits, WaitsAt
<1>. QED
  BY <1>5, <1>6, <1>7 DEF AwaitsAll

LEMMA Awaits_11_2 == AwaitsAll(Main_11_2)
<1> DEFINE a1 == OpenPipe
           a2 == Fork(C1, Child_11_2, Fails)
           a3 == CloseEnd("read")
           a4 == WritePipe(15, Fails)
           a5 == CloseEnd("write")
           a6 == Wait(Children, "unsaid", Fails)
           a7 == Exit(0)
<1>1. Main_11_2 = <<a1, a2, a3, a4, a5, a6, a7>>
  BY DEF Main_11_2
<1>2. /\ Careful(a1)
      /\ Careful(a2)
      /\ Careful(a3)
      /\ Careful(a4)
      /\ Careful(a5)
      /\ Careful(a6)
      /\ Careful(a7)
  <2>1. Fails \in Escapes
    BY EscapesAre, BadStatuses DEF Fails
  <2>. QED
    BY <2>1, CarefulCalls, Zenon
<1>3. /\ a1.op = "pipe"
      /\ a2.op = "fork"
      /\ a2.child = C1
      /\ a3.op = "close"
      /\ a4.op = "write"
      /\ a5.op = "close"
      /\ a6.op = "wait"
      /\ a6.who = Children
      /\ a7.op = "exit"
  BY DEF CloseEnd, Exit, Fork, OpenPipe, Wait, WritePipe
<1>. HIDE DEF a1, a2, a3, a4, a5, a6, a7
<1>4. /\ DOMAIN Main_11_2 = 1 .. 7 /\ Len(Main_11_2) = 7
      /\ Main_11_2[1] = a1
      /\ Main_11_2[2] = a2
      /\ Main_11_2[3] = a3
      /\ Main_11_2[4] = a4
      /\ Main_11_2[5] = a5
      /\ Main_11_2[6] = a6
      /\ Main_11_2[7] = a7
  BY <1>1
<1>5. Patient(Main_11_2)
  BY <1>2, <1>3, <1>4 DEF Patient
<1>6. Forked(Main_11_2) \subseteq {C1}
  <2>1. \A k \in DOMAIN Main_11_2 : Main_11_2[k].op = "fork" => Main_11_2[k].child \in {C1}
    BY <1>3, <1>4
  <2>. QED
    BY <2>1 DEF Forked
<1>7. OwnWaits(Main_11_2, {C1})
  BY <1>3, <1>4, ChildrenAssumption DEF OwnWaits, WaitsAt
<1>. QED
  BY <1>5, <1>6, <1>7 DEF AwaitsAll

LEMMA Awaits_11_3 == AwaitsAll(Main_11_3)
<1> DEFINE a1 == Ignore("PIPE")
           a2 == OpenPipe
           a3 == Fork(C1, Child_11_3, Fails)
           a4 == CloseEnd("read")
           a5 == WritePipe(4, <<>>)
           a6 == WritePipe(4, <<>>)
           a7 == CloseEnd("write")
           a8 == Wait(Children, "unsaid", Fails)
           a9 == Exit(0)
<1>1. Main_11_3 = <<a1, a2, a3, a4, a5, a6, a7, a8, a9>>
  BY DEF Main_11_3
<1>2. /\ Careful(a1)
      /\ Careful(a2)
      /\ Careful(a3)
      /\ Careful(a4)
      /\ Careful(a5)
      /\ Careful(a6)
      /\ Careful(a7)
      /\ Careful(a8)
      /\ Careful(a9)
  <2>1. Fails \in Escapes /\ <<>> \in Escapes
    BY EscapesAre, BadStatuses DEF Fails
  <2>. QED
    BY <2>1, CarefulCalls, Zenon
<1>3. /\ a1.op = "ignore"
      /\ a2.op = "pipe"
      /\ a3.op = "fork"
      /\ a3.child = C1
      /\ a4.op = "close"
      /\ a5.op = "write"
      /\ a6.op = "write"
      /\ a7.op = "close"
      /\ a8.op = "wait"
      /\ a8.who = Children
      /\ a9.op = "exit"
  BY DEF CloseEnd, Exit, Fork, Ignore, OpenPipe, Wait, WritePipe
<1>. HIDE DEF a1, a2, a3, a4, a5, a6, a7, a8, a9
<1>4. /\ DOMAIN Main_11_3 = 1 .. 9 /\ Len(Main_11_3) = 9
      /\ Main_11_3[1] = a1
      /\ Main_11_3[2] = a2
      /\ Main_11_3[3] = a3
      /\ Main_11_3[4] = a4
      /\ Main_11_3[5] = a5
      /\ Main_11_3[6] = a6
      /\ Main_11_3[7] = a7
      /\ Main_11_3[8] = a8
      /\ Main_11_3[9] = a9
  BY <1>1
<1>5. Patient(Main_11_3)
  BY <1>2, <1>3, <1>4 DEF Patient
<1>6. Forked(Main_11_3) \subseteq {C1}
  <2>1. \A k \in DOMAIN Main_11_3 : Main_11_3[k].op = "fork" => Main_11_3[k].child \in {C1}
    BY <1>3, <1>4
  <2>. QED
    BY <2>1 DEF Forked
<1>7. OwnWaits(Main_11_3, {C1})
  BY <1>3, <1>4, ChildrenAssumption DEF OwnWaits, WaitsAt
<1>. QED
  BY <1>5, <1>6, <1>7 DEF AwaitsAll

LEMMA InitCovered ==
    ASSUME Init
    PROVE  Covered
<1>1. SUFFICES ASSUME program \in Waiting
               PROVE  Covered
  BY DEF Covered
<1>2. AwaitsAll(Main(program))
  BY <1>1, Awaits_7_1, Awaits_7_2, Awaits_7_3, Awaits_7_5, Awaits_7_8, Awaits_7_9, Awaits_8_4, Awaits_9_3, Awaits_11_2, Awaits_11_3
  DEF Waiting, Main
<1>3. /\ code[Parent] = Main(program) /\ run[Parent] = "running"
      /\ \A c \in Children : run[c] = "none"
  BY ProcessesAssumption DEF Init, Booted, Procs
<1>4. Due = Forked(Main(program)) /\ Running(Parent)
  BY <1>3 DEF Due, Running
<1>5. \A D, E : E \subseteq D =>
          /\ OwnWaits(code[Parent], D) => OwnWaits(code[Parent], E)
          /\ Polls(code[Parent], D) => Polls(code[Parent], E)
  BY DEF OwnWaits, Polls
<1>. QED
  BY <1>2, <1>3, <1>4, <1>5 DEF Covered, AwaitsAll

(* Whichever child ends first, and however, a parent that ends well has    *)
(* collected every child it made, and what it printed of the end of each   *)
(* was true (ToldOfEveryChild; 7_1 line 52, 7_2 lines 55 and 69, 9_3       *)
(* Program_1 line 119).                                                    *)
THEOREM ChildrenToldOf == Spec => []ToldOfEveryChild
<1>1. Init => Covered
  BY InitCovered
<1>2. TypeInv /\ TypeInv' /\ Covered /\ [Next]_vars => Covered'
  BY CoveredStep DEF TypeInv
<1>3. TypeInv /\ Covered => ToldOfEveryChild
  <2> SUFFICES ASSUME TypeInv, Covered
               PROVE  ToldOfEveryChild
    OBVIOUS
  <2>1. \A c \in Children : /\ told[c] = "killed" => c \in killed
                            /\ told[c] = "exited" => c \notin killed
    BY DEF TypeInv, Base, Lives
  <2>2. (program \in Waiting /\ Succeeded(Parent)) => Collects
    BY DEF Covered, Succeeded, Running
  <2>. QED
    BY <2>1, <2>2 DEF ToldOfEveryChild, Collects
<1>. QED
  BY <1>1, <1>2, <1>3, TypeInvariance, PTL DEF Spec
=============================================================================
