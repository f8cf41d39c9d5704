----------------------------- MODULE MessageQueue -----------------------------
(***************************************************************************)
(* 11_6 "POSIX Message Queue": senders put the lines typed by the user     *)
(* into the queue called "/message_queue"; a receiver, when it starts,     *)
(* unlinks whatever has that name, creates the queue and prints what       *)
(* arrives, and unlinks the name again when it ends.  SIGINT, SIGTERM and  *)
(* SIGHUP set stop_flag.                                                   *)
(*                                                                         *)
(* The user starts programs in any order, each at most once.  A queue      *)
(* lives apart from its name, and is named after the process that made it; *)
(* it goes when it has no name and nobody has it open.  A pc value names   *)
(* the next call; mq_send on a full queue and mq_receive on an empty one   *)
(* block.  FullOneLater, KeepsOld and UnlinksOpened are wrong variants of  *)
(* the definitions they precede, for mutation testing.                     *)
(***************************************************************************)
EXTENDS Naturals, Sequences

CONSTANTS Senders, Receivers,
          NoQueue,                 \* the name is free; nothing is open
          OPTION_MAXMSG,           \* length of a queue made by a receiver
          OtherMaxMsg,             \* lengths of a queue made by a sender
          MaxMsgs,                 \* bound: lines typed at each sender
          MaxFaults                \* bound: signals, kills, failing calls

Procs == Senders \cup Receivers
Queues == Procs

ASSUME ConstantsAssumption ==
    /\ Senders \cap Receivers = {}
    /\ NoQueue \notin Queues
    /\ {OPTION_MAXMSG} \cup OtherMaxMsg \subseteq Nat \ {0}
    /\ {MaxMsgs, MaxFaults} \subseteq Nat

VARIABLES pc,
          name,                    \* the queue called MESSAGE_QUEUE_NAME
          mqd,                     \* [process -> queue it has open]
          content, maxmsg,         \* [queue -> its messages, its length]
          typed,                   \* [sender -> number of its last message]
          stop_flag,
          faults,
          accepted,                \* history: [sender -> messages it sent]
          printed,                 \* history: [receiver -> messages]
          before,                  \* history: [receiver -> accepted when it
                                   \* unlinked the old queue]
          serving                  \* history: [sender -> receivers that had a
                                   \* queue open when it opened its own]

queues == <<name, mqd, content, maxmsg>>
messages == <<typed, accepted, printed>>
signals == <<stop_flag, faults>>
times == <<before, serving>>
vars == <<pc, queues, messages, signals, times>>

Init ==
    /\ pc = [p \in Procs |-> "off"]
    /\ name = NoQueue
    /\ mqd = [p \in Procs |-> NoQueue]
    /\ content = [q \in Queues |-> <<>>]
    /\ maxmsg = [q \in Queues |-> 0]
    /\ typed = [s \in Senders |-> 0]
    /\ accepted = [s \in Senders |-> 0]
    /\ printed = [r \in Receivers |-> {}]
    /\ stop_flag = [p \in Procs |-> FALSE]
    /\ faults = 0
    /\ before = [r \in Receivers |-> accepted]
    /\ serving = [s \in Senders |-> {}]

Goto(p, from, to) ==
    /\ pc[p] = from
    /\ pc' = [pc EXCEPT ![p] = to]

Fault == faults < MaxFaults /\ faults' = faults + 1

-----------------------------------------------------------------------------
(* The queues of the kernel                                                *)

Free(q, n, d) == n # q /\ \A p \in Procs : d[p] # q

(* The new name and descriptors; a queue that lost its last use goes.      *)
Rebind(n, d) ==
    /\ name' = n
    /\ mqd' = d
    /\ content' = [q \in Queues |-> IF Free(q, n, d) THEN <<>> ELSE content[q]]

(* mq_open with O_CREAT, where max is the length of a new queue.           *)
UnlinksOpened(p, max) ==
    /\ Rebind(IF p \in Receivers THEN NoQueue ELSE IF name = NoQueue THEN p ELSE name,
              [mqd EXCEPT ![p] = IF name = NoQueue THEN p ELSE name])
    /\ maxmsg' = IF name = NoQueue THEN [maxmsg EXCEPT ![p] = max] ELSE maxmsg
OpenOrCreate(p, max) ==
    LET q == IF name = NoQueue THEN p ELSE name
    IN /\ Rebind(q, [mqd EXCEPT ![p] = q])
       /\ maxmsg' = IF name = NoQueue THEN [maxmsg EXCEPT ![p] = max] ELSE maxmsg

Unlinked == Rebind(NoQueue, mqd) /\ UNCHANGED maxmsg
Closed(p) == Rebind(name, [mqd EXCEPT ![p] = NoQueue]) /\ UNCHANGED maxmsg

-----------------------------------------------------------------------------
Start(p) ==
    /\ Goto(p, "off", IF p \in Receivers THEN "unlink_old" ELSE "open")
    /\ UNCHANGED <<queues, messages, signals, times>>

(* The sender's mq_open has no fourth argument, so that a new queue gets   *)
(* whatever attributes the kernel finds there, or the call fails.          *)
OpenSender(s) ==
    /\ Goto(s, "open", "getattr")
    /\ \E max \in OtherMaxMsg : OpenOrCreate(s, max)
    /\ serving' = [serving EXCEPT ![s] = {r \in Receivers : mqd[r] # NoQueue}]
    /\ UNCHANGED <<messages, signals, before>>

OpenReceiver(r) ==
    /\ Goto(r, "open", "getattr")
    /\ OpenOrCreate(r, OPTION_MAXMSG)
    /\ UNCHANGED <<messages, signals, times>>

OpenFails(p) ==
    /\ Goto(p, "open", "exit")
    /\ p \in Senders \/ name # NoQueue
    /\ Fault
    /\ UNCHANGED <<queues, messages, stop_flag, times>>

(* mq_getattr, and the receiver's malloc.                                  *)
Setup(p) ==
    /\ Goto(p, "getattr", "check")
    /\ UNCHANGED <<queues, messages, signals, times>>

SetupFails(p) ==
    /\ Goto(p, "getattr", "close")
    /\ Fault
    /\ UNCHANGED <<queues, messages, stop_flag, times>>

(* while (!stop_flag)                                                      *)
Check(p) ==
    /\ Goto(p, "check", IF stop_flag[p] THEN "close"
                        ELSE IF p \in Senders THEN "fgets" ELSE "receive")
    /\ UNCHANGED <<queues, messages, signals, times>>

Close(p) ==
    /\ Goto(p, "close", IF p \in Receivers THEN "unlink" ELSE "exit")
    /\ Closed(p)
    /\ UNCHANGED <<messages, signals, times>>

-----------------------------------------------------------------------------
(* The sender                                                              *)

TypeLine(s) ==
    /\ typed[s] < MaxMsgs
    /\ Goto(s, "fgets", "send")
    /\ typed' = [typed EXCEPT ![s] = @ + 1]
    /\ UNCHANGED <<queues, accepted, printed, signals, times>>

EndOfInput(s) ==
    /\ Goto(s, "fgets", "close")
    /\ UNCHANGED <<queues, messages, signals, times>>

FullOneLater(q) == Len(content[q]) > maxmsg[q]
Full(q) == Len(content[q]) >= maxmsg[q]

Send(s) ==
    /\ Goto(s, "send", "check")
    /\ ~Full(mqd[s])
    /\ content' = [content EXCEPT ![mqd[s]] = Append(@, [from |-> s, no |-> typed[s]])]
    /\ accepted' = [accepted EXCEPT ![s] = typed[s]]
    /\ UNCHANGED <<name, mqd, maxmsg, typed, printed, signals, times>>

-----------------------------------------------------------------------------
(* The receiver                                                            *)

KeepsOld == UNCHANGED queues
DropOld == Unlinked

UnlinkOld(r) ==
    /\ Goto(r, "unlink_old", "open")
    /\ DropOld
    /\ before' = [before EXCEPT ![r] = accepted]
    /\ UNCHANGED <<messages, signals, serving>>

Receive(r) ==
    /\ Goto(r, "receive", "check")
    /\ content[mqd[r]] # <<>>
    /\ printed' = [printed EXCEPT ![r] = @ \cup {Head(content[mqd[r]])}]
    /\ content' = [content EXCEPT ![mqd[r]] = Tail(@)]
    /\ UNCHANGED <<name, mqd, maxmsg, typed, accepted, signals, times>>

Unlink(r) ==
    /\ Goto(r, "unlink", "exit")
    /\ Unlinked
    /\ UNCHANGED <<messages, signals, times>>

-----------------------------------------------------------------------------
(* Signals                                                                 *)

Sleeps(p) ==
    \/ pc[p] = "fgets"
    \/ pc[p] = "send" /\ Full(mqd[p])
    \/ pc[p] = "receive" /\ content[mqd[p]] = <<>>

Running(p) == pc[p] \notin {"off", "exit", "killed"}

(* A process that sleeps is interrupted and cleans up; one that is on its  *)
(* way to the call is not.                                                 *)
Signalled(p) ==
    /\ Running(p)
    /\ Fault
    /\ stop_flag' = [stop_flag EXCEPT ![p] = TRUE]
    /\ \/ Sleeps(p) /\ Goto(p, pc[p], "close")
       \/ UNCHANGED pc
    /\ UNCHANGED <<queues, messages, times>>

(* SIGKILL: the descriptor is closed, the name stays.                      *)
Killed(p) ==
    /\ Running(p)
    /\ Fault
    /\ Goto(p, pc[p], "killed")
    /\ Closed(p)
    /\ UNCHANGED <<messages, stop_flag, times>>

-----------------------------------------------------------------------------
Sender(s) == OpenSender(s) \/ Setup(s) \/ Check(s) \/ Send(s) \/ Close(s)

Receiver(r) ==
    \/ UnlinkOld(r)
    \/ OpenReceiver(r)
    \/ Setup(r)
    \/ Check(r)
    \/ Receive(r)
    \/ Close(r)
    \/ Unlink(r)

Next ==
    \/ \E s \in Senders : Sender(s) \/ TypeLine(s) \/ EndOfInput(s)
    \/ \E r \in Receivers : Receiver(r)
    \/ \E p \in Procs : Start(p) \/ OpenFails(p) \/ SetupFails(p) \/ Signalled(p) \/ Killed(p)

Spec == Init /\ [][Next]_vars

(* Every process that was started is scheduled; the user need not start    *)
(* one or type anything.                                                   *)
FairSpec ==
    /\ Spec
    /\ \A s \in Senders : WF_vars(Sender(s))
    /\ \A r \in Receivers : WF_vars(Receiver(r))

-----------------------------------------------------------------------------
(* Properties                                                              *)

PC == {"off", "unlink_old", "open", "getattr", "check", "fgets", "send", "receive",
       "close", "unlink", "exit", "killed"}

Messages == [from : Senders, no : 1 .. MaxMsgs]

(* Every variable stays in its type; no queue holds more than its length,  *)
(* and one that nobody can reach any more is empty.                        *)
TypeOK ==
    /\ pc \in [Procs -> PC]
    /\ name \in Queues \cup {NoQueue}
    /\ mqd \in [Procs -> Queues \cup {NoQueue}]
    /\ maxmsg \in [Queues -> {0, OPTION_MAXMSG} \cup OtherMaxMsg]
    /\ content \in [Queues -> Seq(Messages)]
    /\ \A q \in Queues : /\ Len(content[q]) <= maxmsg[q]
                         /\ Free(q, name, mqd) => content[q] = <<>>
    /\ typed \in [Senders -> 0 .. MaxMsgs]
    /\ accepted \in [Senders -> 0 .. MaxMsgs]
    /\ printed \in [Receivers -> SUBSET Messages]
    /\ stop_flag \in [Procs -> BOOLEAN]
    /\ faults \in 0 .. MaxFaults
    /\ before \in [Receivers -> [Senders -> 0 .. MaxMsgs]]
    /\ serving \in [Senders -> SUBSET Receivers]

(* A receiver never prints a message of an earlier session: none that was  *)
(* accepted before its mq_unlink at the start, also when a sender has made *)
(* the queue between that call and its mq_open, or other receivers run.    *)
(* The notes want this (Receiver lines 22-24, stale messages); where they  *)
(* say that a receiver gets what was sent before it came (lines 19-20) the *)
(* code does not follow them: see KeptForReceiver.                         *)
NothingStale ==
    \A r \in Receivers : \A m \in printed[r] : m.no > before[r][m.from]

(* The inductive invariant.  A process that has not come to its mq_open    *)
(* has made no queue yet; one that uses its descriptor has it open.        *)
Roles ==
    /\ \A r \in Receivers : pc[r] \notin {"fgets", "send"}
    /\ \A s \in Senders : pc[s] \notin {"unlink_old", "receive", "unlink"}

Opened ==
    \A p \in Procs :
        /\ pc[p] \in {"off", "unlink_old", "open"} =>
              (mqd[p] = NoQueue /\ Free(p, name, mqd))
        /\ pc[p] \in {"getattr", "check", "fgets", "send", "receive", "close"} =>
              mqd[p] # NoQueue

(* What a sender sends next is newer than all it has sent, and so than all *)
(* that any receiver has unlinked.                                         *)
Numbered ==
    /\ \A s \in Senders : /\ accepted[s] <= typed[s]
                          /\ pc[s] = "send" => accepted[s] < typed[s]
    /\ \A r \in Receivers, s \in Senders : before[r][s] <= accepted[s]
    /\ \A r \in Receivers : pc[r] \in {"off", "unlink_old", "open"} => printed[r] = {}

(* The queue that r has open, or finds when it opens it.                   *)
Serves(r, q) == q = mqd[r] \/ (pc[r] = "open" /\ q = name)

Newer(r, q) ==
    \A k \in 1 .. Len(content[q]) : content[q][k].no > before[r][content[q][k].from]

Fresh == \A r \in Receivers, q \in Queues : Serves(r, q) => Newer(r, q)

IInv == TypeOK /\ Roles /\ Opened /\ Numbered /\ Fresh /\ NothingStale

(* "The writer can send its messages even when the reader is disconnected, *)
(* reader gets them whenever it goes online" (Receiver lines 19-20): what  *)
(* senders had sent when a receiver came is in the queue that it reads, or *)
(* was printed.  The code unlinks the queue first (line 77).               *)
KeptForReceiver ==
    \A r \in Receivers :
        pc[r] \in {"getattr", "check", "receive"} =>
            \A m \in Messages :
                m.no <= before[r][m.from] =>
                    \/ \E k \in DOMAIN content[mqd[r]] : content[mqd[r]][k] = m
                    \/ \E q \in Receivers : m \in printed[q]

(* A sender that opens its queue while a receiver serves is not cut off    *)
(* from it: as long as no second receiver is started, each of its messages *)
(* that mq_send accepts is printed, unless that receiver is stopped        *)
(* (Sender lines 46-95, Receiver lines 77-138).  Of a sender that came     *)
(* before the receiver this is not true: see KeptForReceiver.              *)
Delivered ==
    \A r \in Receivers :
        [](\A q \in Receivers \ {r} : pc[q] = "off") =>
            \A m \in Messages :
                (m.no <= accepted[m.from] /\ r \in serving[m.from])
                    ~> (m \in printed[r] \/ stop_flag[r]
                          \/ pc[r] \in {"close", "unlink", "exit", "killed"})
=============================================================================
