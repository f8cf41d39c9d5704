------------------------- MODULE MessageQueueProofs -------------------------
(***************************************************************************)
(* Proofs about MessageQueue, for any number of senders and receivers, any *)
(* lengths of the queues and any number of lines and faults: IInv is       *)
(* inductive, so a receiver never prints what was sent before it unlinked  *)
(* the old queue, whoever makes the new one.                               *)
(***************************************************************************)
EXTENDS MessageQueue, TLAPS

(* What happens to the queues when the name or a descriptor changes.       *)
LEMMA RebindContent ==
    ASSUME TypeOK, NEW n, NEW d, Rebind(n, d)
    PROVE  /\ content' \in [Queues -> Seq(Messages)]
           /\ \A q \in Queues : /\ content'[q] \in {content[q], <<>>}
                                /\ Len(content'[q]) <= Len(content[q])
                                /\ Free(q, name, mqd) => content'[q] = <<>>
                                /\ Free(q, name', mqd') => content'[q] = <<>>
<1> USE DEF Rebind, TypeOK
<1>1. \A q \in Queues : content[q] \in Seq(Messages) /\ <<>> \in Seq(Messages)
  OBVIOUS
<1>2. content' = [q \in Queues |-> IF Free(q, n, d) THEN <<>> ELSE content[q]]
  OBVIOUS
<1>3. content' \in [Queues -> Seq(Messages)]
  BY <1>1, <1>2
<1>4. ASSUME NEW q \in Queues
      PROVE  /\ content'[q] \in {content[q], <<>>}
             /\ Len(content'[q]) <= Len(content[q])
             /\ Free(q, name, mqd) => content'[q] = <<>>
             /\ Free(q, name', mqd') => content'[q] = <<>>
  <2>1. content'[q] \in {content[q], <<>>}
    BY <1>2
  <2>2. Len(content'[q]) <= Len(content[q])
    BY <1>1, <2>1
  <2>3. Free(q, name, mqd) => content'[q] = <<>>
    BY <2>1
  <2>4. Free(q, name', mqd') => content'[q] = <<>>
    BY <1>2
  <2>. QED
    BY <2>1, <2>2, <2>3, <2>4
<1>. QED
  BY <1>3, <1>4

(* A queue that loses its messages, or comes to r empty, is as new as it   *)
(* was before.                                                             *)
LEMMA FreshFrame ==
    ASSUME Fresh, UNCHANGED before,
           \A q \in Queues : content'[q] \in {content[q], <<>>},
           \A r \in Receivers, q \in Queues :
               Serves(r, q)' => (Serves(r, q) \/ content'[q] = <<>>)
    PROVE  Fresh'
<1> SUFFICES ASSUME NEW r \in Receivers, NEW q \in Queues, Serves(r, q)'
             PROVE  Newer(r, q)'
  BY DEF Fresh
<1>1. CASE content'[q] = <<>>
  BY <1>1 DEF Newer
<1>2. CASE content'[q] = content[q] /\ Serves(r, q)
  <2>1. Newer(r, q)
    BY <1>2 DEF Fresh
  <2>. QED
    BY <1>2, <2>1 DEF Newer
<1>. QED
  BY <1>1, <1>2

(* A step of p to `to` that changes no queue: Start, Setup, Check, ...     *)
LocalTo(p, to) ==
    /\ pc' = [pc EXCEPT ![p] = to]
    /\ UNCHANGED <<queues, accepted, printed, times>>
    /\ \A s \in Senders : typed'[s] \in typed[s] .. MaxMsgs
    /\ typed' \in [Senders -> 0 .. MaxMsgs]
    /\ stop_flag' \in [Procs -> BOOLEAN] /\ faults' \in 0 .. MaxFaults

Allowed(p, to) ==
    /\ to \in PC \ {"off", "unlink"}
    /\ to = "send" => (p \in Senders /\ accepted[p] < typed'[p])
    /\ to = "fgets" => p \in Senders
    /\ to = "receive" => p \in Receivers
    /\ to = "unlink_old" => (p \in Receivers /\ pc[p] = "off")
    /\ to = "open" => (p \in Senders /\ pc[p] = "off")
    /\ to \in {"getattr", "check", "fgets", "send", "receive", "close"} =>
          mqd[p] # NoQueue

LEMMA LocalStep ==
    ASSUME IInv, NEW p \in Procs, NEW to, LocalTo(p, to), Allowed(p, to)
    PROVE  IInv'
<1> USE ConstantsAssumption DEF IInv, LocalTo, Allowed, queues, times, Procs, Queues
<1>1. TypeOK'
  BY DEF TypeOK, Free
<1>2. Roles'
  BY DEF Roles, TypeOK
<1>3. Opened'
  BY DEF Opened, TypeOK, Free
<1>4. Numbered'
  BY SMTT(20) DEF Numbered, TypeOK, Roles
<1>5. Fresh'
  <2>1. \A r \in Receivers, q \in Queues : Serves(r, q)' => Serves(r, q)
    BY DEF Serves, TypeOK
  <2>. QED
    BY <2>1, FreshFrame
<1>6. NothingStale'
  BY DEF NothingStale
<1>. QED
  BY <1>1, <1>2, <1>3, <1>4, <1>5, <1>6

(* Without a new line or a signal, what LocalTo asks of the types is given.*)
LEMMA LocalFrame ==
    ASSUME TypeOK, NEW p \in Procs, NEW to, pc' = [pc EXCEPT ![p] = to],
           UNCHANGED <<queues, messages, stop_flag, times>>, faults' \in 0 .. MaxFaults
    PROVE  LocalTo(p, to)
BY ConstantsAssumption DEF LocalTo, TypeOK, messages

LEMMA StartStep ==
    ASSUME IInv, NEW p \in Procs, Start(p) PROVE IInv'
<1> DEFINE to == IF p \in Receivers THEN "unlink_old" ELSE "open"
<1>1. LocalTo(p, to)
  BY LocalFrame DEF IInv, TypeOK, Start, Goto, signals
<1>2. Allowed(p, to)
  BY DEF Allowed, Start, Goto, PC, Procs
<1>. QED
  BY <1>1, <1>2, LocalStep

LEMMA SetupStep ==
    ASSUME IInv, NEW p \in Procs, Setup(p) PROVE IInv'
<1>1. LocalTo(p, "check")
  BY LocalFrame DEF IInv, TypeOK, Setup, Goto, signals
<1>2. Allowed(p, "check")
  BY DEF Allowed, Setup, Goto, PC, IInv, Opened
<1>. QED
  BY <1>1, <1>2, LocalStep

LEMMA SetupFailsStep ==
    ASSUME IInv, NEW p \in Procs, SetupFails(p) PROVE IInv'
<1>1. LocalTo(p, "close")
  <2>1. faults' \in 0 .. MaxFaults
    BY ConstantsAssumption DEF IInv, TypeOK, SetupFails, Fault
  <2>. QED
    BY <2>1, LocalFrame DEF IInv, SetupFails, Goto
<1>2. Allowed(p, "close")
  BY DEF Allowed, SetupFails, Goto, PC, IInv, Opened
<1>. QED
  BY <1>1, <1>2, LocalStep

LEMMA CheckStep ==
    ASSUME IInv, NEW p \in Procs, Check(p) PROVE IInv'
<1> DEFINE to == IF stop_flag[p] THEN "close"
                 ELSE IF p \in Senders THEN "fgets" ELSE "receive"
<1>1. LocalTo(p, to)
  BY LocalFrame DEF IInv, TypeOK, Check, Goto, signals
<1>2. Allowed(p, to)
  BY DEF Allowed, Check, Goto, PC, Procs, IInv, Opened
<1>. QED
  BY <1>1, <1>2, LocalStep

LEMMA OpenFailsStep ==
    ASSUME IInv, NEW p \in Procs, OpenFails(p) PROVE IInv'
<1>1. LocalTo(p, "exit")
  <2>1. faults' \in 0 .. MaxFaults
    BY ConstantsAssumption DEF IInv, TypeOK, OpenFails, Fault
  <2>. QED
    BY <2>1, LocalFrame DEF IInv, OpenFails, Goto
<1>2. Allowed(p, "exit")
  BY DEF Allowed, PC
<1>. QED
  BY <1>1, <1>2, LocalStep

LEMMA TypeLineStep ==
    ASSUME IInv, NEW s \in Senders, TypeLine(s) PROVE IInv'
<1> USE ConstantsAssumption DEF IInv, TypeOK, TypeLine, Goto, Procs
<1>1. LocalTo(s, "send")
  BY DEF LocalTo, queues, signals, times
<1>2. Allowed(s, "send")
  BY DEF Allowed, PC, Opened, Numbered
<1>. QED
  BY <1>1, <1>2, LocalStep

LEMMA EndOfInputStep ==
    ASSUME IInv, NEW s \in Senders, EndOfInput(s) PROVE IInv'
<1>1. LocalTo(s, "close")
  BY LocalFrame DEF IInv, TypeOK, EndOfInput, Goto, signals, Procs
<1>2. Allowed(s, "close")
  BY DEF Allowed, EndOfInput, Goto, PC, Procs, IInv, Opened
<1>. QED
  BY <1>1, <1>2, LocalStep DEF Procs

(* A signal sets the flag, and wakes up who sleeps.                        *)
LEMMA SignalledStep ==
    ASSUME IInv, NEW p \in Procs, Signalled(p) PROVE IInv'
<1> DEFINE to == pc'[p]
<1>1. LocalTo(p, to)
  BY ConstantsAssumption DEF LocalTo, IInv, TypeOK, Signalled, Fault, Goto, messages
<1>2. CASE UNCHANGED pc
  <2> USE <1>1, <1>2 DEF LocalTo, IInv, queues, times
  <2>1. TypeOK'
    BY DEF TypeOK, Free
  <2>2. Roles' /\ Opened' /\ Numbered'
    BY DEF Roles, Opened, Numbered, Free, Signalled, messages
  <2>3. Fresh' /\ NothingStale'
    BY DEF Fresh, NothingStale, Serves, Newer
  <2>. QED
    BY <2>1, <2>2, <2>3
<1>3. CASE Sleeps(p) /\ Goto(p, pc[p], "close")
  <2>1. to = "close"
    BY <1>3 DEF Goto, IInv, TypeOK
  <2>2. Allowed(p, to)
    BY <1>3, <2>1 DEF Allowed, PC, Sleeps, IInv, Opened
  <2>. QED
    BY <1>1, <2>2, LocalStep
<1>. QED
  BY <1>2, <1>3 DEF Signalled

-----------------------------------------------------------------------------
(* The steps that change the name or a descriptor                          *)

(* p opens q: the queue that has the name, or, if it is free, its own,     *)
(* which is empty.                                                         *)
LEMMA OpenStep ==
    ASSUME IInv, NEW p \in Procs, NEW max \in {OPTION_MAXMSG} \cup OtherMaxMsg,
           Goto(p, "open", "getattr"), OpenOrCreate(p, max),
           serving' \in [Senders -> SUBSET Receivers],
           UNCHANGED <<messages, signals, before>>
    PROVE  IInv'
<1> DEFINE q == IF name = NoQueue THEN p ELSE name
<1> USE ConstantsAssumption DEF IInv, Goto, messages, signals
<1>1. /\ Rebind(q, [mqd EXCEPT ![p] = q])
      /\ maxmsg' = IF name = NoQueue THEN [maxmsg EXCEPT ![p] = max] ELSE maxmsg
  BY DEF OpenOrCreate
<1>2. name' = q /\ mqd' = [mqd EXCEPT ![p] = q] /\ q \in Queues /\ q # NoQueue
  BY <1>1 DEF Rebind, TypeOK, Queues
<1>3. Free(p, name, mqd) /\ mqd[p] = NoQueue /\ p \in Queues
  BY DEF Opened, Queues
<1>4. /\ content' \in [Queues -> Seq(Messages)]
      /\ \A x \in Queues : /\ content'[x] \in {content[x], <<>>}
                           /\ Len(content'[x]) <= Len(content[x])
                           /\ Free(x, name, mqd) => content'[x] = <<>>
                           /\ Free(x, name', mqd') => content'[x] = <<>>
  BY <1>1, RebindContent
<1>5. TypeOK'
  <2>1. maxmsg' \in [Queues -> {0, OPTION_MAXMSG} \cup OtherMaxMsg]
    BY <1>1, <1>3 DEF TypeOK
  <2>2. ASSUME NEW x \in Queues PROVE Len(content'[x]) <= maxmsg'[x]
    <3>1. CASE maxmsg'[x] = maxmsg[x]
      BY <1>4, <3>1 DEF TypeOK
    <3>2. CASE x = p /\ maxmsg'[x] = max
      BY <1>3, <1>4, <3>2
    <3>. QED
      BY <1>1, <1>3, <3>1, <3>2 DEF TypeOK
  <2>3. mqd' \in [Procs -> Queues \cup {NoQueue}] /\ name' \in Queues \cup {NoQueue}
    BY <1>2 DEF TypeOK
  <2>4. pc' \in [Procs -> PC]
    BY DEF TypeOK, PC
  <2>. QED
    BY <1>4, <2>1, <2>2, <2>3, <2>4 DEF TypeOK
<1>6. Roles'
  BY DEF Roles, TypeOK
<1>7. Opened'
  <2> SUFFICES ASSUME NEW x \in Procs
               PROVE  /\ pc'[x] \in {"off", "unlink_old", "open"} =>
                            (mqd'[x] = NoQueue /\ Free(x, name', mqd'))
                      /\ pc'[x] \in {"getattr", "check", "fgets", "send",
                                     "receive", "close"} => mqd'[x] # NoQueue
    BY DEF Opened
  <2>1. CASE x = p
    BY <1>2, <2>1 DEF TypeOK
  <2>2. CASE x # p
    <3>1. pc'[x] = pc[x] /\ mqd'[x] = mqd[x]
      BY <1>2, <2>2 DEF TypeOK
    <3>2. Free(x, name, mqd) => (q # x /\ Free(x, name', mqd'))
      BY <1>2, <2>2 DEF Free, TypeOK
    <3>. QED
      BY <3>1, <3>2 DEF Opened
  <2>. QED
    BY <2>1, <2>2
<1>8. Numbered'
  BY DEF Numbered, TypeOK
<1>9. Fresh'
  <2>1. ASSUME NEW r \in Receivers, NEW x \in Queues, Serves(r, x)'
        PROVE  Serves(r, x) \/ content'[x] = <<>>
    <3>1. CASE x = p /\ name = NoQueue
      BY <1>3, <1>4, <3>1
    <3>2. CASE ~(x = p /\ name = NoQueue)
      BY <1>2, <2>1, <3>2 DEF Serves, TypeOK, Procs
    <3>. QED
      BY <3>1, <3>2
  <2>. QED
    BY <1>4, <2>1, FreshFrame
<1>10. NothingStale'
  BY DEF NothingStale
<1>. QED
  BY <1>5, <1>6, <1>7, <1>8, <1>9, <1>10

LEMMA OpenSenderStep ==
    ASSUME IInv, NEW s \in Senders, OpenSender(s) PROVE IInv'
<1>1. serving' \in [Senders -> SUBSET Receivers]
  BY DEF OpenSender, IInv, TypeOK
<1>. QED
  BY <1>1, OpenStep DEF OpenSender, Procs

LEMMA OpenReceiverStep ==
    ASSUME IInv, NEW r \in Receivers, OpenReceiver(r) PROVE IInv'
BY OpenStep DEF OpenReceiver, times, Procs, IInv, TypeOK

(* A name or a descriptor goes: p unlinks, closes or is killed.            *)
LEMMA DropStep ==
    ASSUME IInv, NEW p \in Procs, NEW to \in PC, pc' = [pc EXCEPT ![p] = to],
           NEW n \in {name, NoQueue}, NEW d \in {mqd, [mqd EXCEPT ![p] = NoQueue]},
           Rebind(n, d), UNCHANGED <<maxmsg, messages, stop_flag, serving>>,
           faults' \in 0 .. MaxFaults,
           before' \in [Receivers -> [Senders -> 0 .. MaxMsgs]],
           \A r \in Receivers, s \in Senders : before'[r][s] <= accepted[s],
           \A r \in Receivers : before'[r] # before[r] =>
               (r = p /\ pc[p] = "unlink_old" /\ n = NoQueue /\ printed[r] = {}),
           to \in {"open", "unlink", "exit", "killed"},
           to = "open" => (pc[p] = "unlink_old" /\ n = NoQueue),
           to = "unlink" => p \in Receivers
    PROVE  IInv'
<1> USE ConstantsAssumption DEF IInv, messages
<1>1. name' = n /\ mqd' = d
  BY DEF Rebind
<1>2. /\ content' \in [Queues -> Seq(Messages)]
      /\ \A x \in Queues : /\ content'[x] \in {content[x], <<>>}
                           /\ Len(content'[x]) <= Len(content[x])
                           /\ Free(x, name', mqd') => content'[x] = <<>>
  BY RebindContent
<1>3. /\ mqd' \in [Procs -> Queues \cup {NoQueue}] /\ name' \in Queues \cup {NoQueue}
      /\ \A x \in Procs : mqd'[x] \in {mqd[x], NoQueue} /\ (x # p => mqd'[x] = mqd[x])
  BY <1>1 DEF TypeOK
<1>4. TypeOK'
  <2>1. pc' \in [Procs -> PC]
    BY DEF TypeOK
  <2>2. ASSUME NEW x \in Queues PROVE Len(content'[x]) <= maxmsg'[x]
    BY <1>2 DEF TypeOK
  <2>. QED
    BY <1>2, <1>3, <2>1, <2>2 DEF TypeOK
<1>5. Roles'
  BY DEF Roles, TypeOK, Procs
<1>6. Opened'
  <2>1. \A x \in Procs : Free(x, name, mqd) => Free(x, name', mqd')
    BY <1>1, <1>3 DEF Free, Procs, Queues
  <2>. QED
    BY <1>3, <2>1 DEF Opened, TypeOK
<1>7. Numbered'
  BY DEF Numbered, TypeOK
<1>8. Fresh'
  <2> SUFFICES ASSUME NEW r \in Receivers, NEW q \in Queues, Serves(r, q)'
               PROVE  Newer(r, q)'
    BY DEF Fresh
  <2>1. r \in Procs /\ q # NoQueue
    BY DEF Procs, Queues
  <2>2. Serves(r, q) /\ before'[r] = before[r]
    BY <1>1, <1>3, <2>1 DEF Serves, TypeOK, Opened
  <2>3. Newer(r, q)
    BY <2>2 DEF Fresh
  <2>4. CASE content'[q] = <<>>
    BY <2>4 DEF Newer
  <2>5. CASE content'[q] = content[q]
    BY <2>2, <2>3, <2>5 DEF Newer
  <2>. QED
    BY <1>2, <2>4, <2>5
<1>9. NothingStale'
  BY DEF NothingStale
<1>. QED
  BY <1>4, <1>5, <1>6, <1>7, <1>8, <1>9

LEMMA UnlinkOldStep ==
    ASSUME IInv, NEW r \in Receivers, UnlinkOld(r) PROVE IInv'
<1> USE DEF IInv, TypeOK, UnlinkOld, Goto
<1>1. Rebind(NoQueue, mqd) /\ UNCHANGED <<maxmsg, messages, signals, serving>>
  BY DEF DropOld, Unlinked
<1>2. /\ before' \in [Receivers -> [Senders -> 0 .. MaxMsgs]]
      /\ \A x \in Receivers, s \in Senders : before'[x][s] <= accepted[s]
  BY DEF Numbered
<1>3. \A x \in Receivers : before'[x] # before[x] => (x = r /\ printed[r] = {})
  BY DEF Numbered
<1>. QED
  BY <1>1, <1>2, <1>3, DropStep DEF signals, PC, Procs

LEMMA CloseStep ==
    ASSUME IInv, NEW p \in Procs, Close(p) PROVE IInv'
<1> DEFINE to == IF p \in Receivers THEN "unlink" ELSE "exit"
<1>1. /\ Rebind(name, [mqd EXCEPT ![p] = NoQueue])
      /\ UNCHANGED <<maxmsg, messages, signals, times>>
      /\ pc' = [pc EXCEPT ![p] = to]
  BY DEF Close, Closed, Goto
<1>2. to \in PC /\ to \in {"exit", "unlink"} /\ (to = "unlink" => p \in Receivers)
  BY DEF PC
<1>. QED
  BY <1>1, <1>2, DropStep DEF IInv, TypeOK, Numbered, signals, times

LEMMA UnlinkStep ==
    ASSUME IInv, NEW r \in Receivers, Unlink(r) PROVE IInv'
BY DropStep
   DEF IInv, TypeOK, Numbered, Unlink, Unlinked, Goto, signals, times, PC, Procs

LEMMA KilledStep ==
    ASSUME IInv, NEW p \in Procs, Killed(p) PROVE IInv'
<1>1. faults' \in 0 .. MaxFaults
  BY ConstantsAssumption DEF IInv, TypeOK, Killed, Fault
<1>. QED
  BY <1>1, DropStep DEF IInv, TypeOK, Numbered, Killed, Closed, Goto, times, PC

-----------------------------------------------------------------------------
(* The messages                                                            *)

(* What is appended is newer than everything that was ever unlinked.       *)
LEMMA SendStep ==
    ASSUME IInv, NEW s \in Senders, Send(s) PROVE IInv'
<1> DEFINE q == mqd[s]
           m == [from |-> s, no |-> typed[s]]
<1> USE ConstantsAssumption DEF IInv, Send, Goto, signals, times
<1>1. s \in Procs /\ q \in Queues /\ q # NoQueue
  BY DEF Procs, TypeOK, Opened
<1>2. m \in Messages /\ typed[s] > accepted[s] /\ typed[s] \in 0 .. MaxMsgs
  BY DEF TypeOK, Numbered, Messages
<1>3. content' = [content EXCEPT ![q] = Append(@, m)] /\ Len(content[q]) < maxmsg[q]
  <2>1. Len(content[q]) \in Nat /\ maxmsg[q] \in Nat
    BY <1>1 DEF TypeOK
  <2>. QED
    BY <2>1 DEF Full
<1>4. /\ content[q] \in Seq(Messages) /\ content'[q] = Append(content[q], m)
      /\ \A x \in Queues : x # q => content'[x] = content[x]
  BY <1>1, <1>3 DEF TypeOK
<1>5. /\ content'[q] \in Seq(Messages)
      /\ Len(content'[q]) = Len(content[q]) + 1
      /\ \A k \in 1 .. Len(content[q]) : content'[q][k] = content[q][k]
      /\ content'[q][Len(content[q]) + 1] = m
  BY <1>2, <1>4
<1>6. TypeOK'
  <2>1. ASSUME NEW x \in Queues
        PROVE  /\ Len(content'[x]) <= maxmsg'[x]
               /\ Free(x, name', mqd') => content'[x] = <<>>
    <3>1. CASE x = q
      <4>1. Len(content[q]) \in Nat /\ maxmsg[q] \in Nat
        BY <1>1 DEF TypeOK
      <4>2. Len(content'[q]) <= maxmsg[q]
        BY <1>3, <1>5, <4>1
      <4>. QED
        BY <1>1, <3>1, <4>2 DEF Free
    <3>2. CASE x # q
      BY <1>4, <3>2 DEF TypeOK, Free
    <3>. QED
      BY <3>1, <3>2
  <2>2. content' \in [Queues -> Seq(Messages)]
    BY <1>1, <1>3, <1>5 DEF TypeOK
  <2>3. pc' \in [Procs -> PC] /\ accepted' \in [Senders -> 0 .. MaxMsgs]
    BY <1>2 DEF TypeOK, PC
  <2>. QED
    BY <2>1, <2>2, <2>3 DEF TypeOK
<1>7. Roles' /\ Opened'
  BY <1>1 DEF Roles, Opened, TypeOK, Free
<1>8. Numbered'
  <2>1. \A t \in Senders : accepted'[t] = IF t = s THEN typed[s] ELSE accepted[t]
    BY DEF TypeOK
  <2>2. \A t \in Senders : accepted'[t] <= typed[t] /\ (pc'[t] = "send" => accepted'[t] < typed[t])
    BY <1>2, <2>1 DEF Numbered, TypeOK, Procs
  <2>3. \A r \in Receivers, t \in Senders : before[r][t] <= accepted'[t]
    BY <1>2, <2>1 DEF Numbered, TypeOK
  <2>4. \A r \in Receivers : pc'[r] = pc[r]
    BY DEF TypeOK, Procs
  <2>. QED
    BY <2>2, <2>3, <2>4 DEF Numbered
<1>9. Fresh'
  <2> SUFFICES ASSUME NEW r \in Receivers, NEW x \in Queues, Serves(r, x)'
               PROVE  Newer(r, x)'
    BY DEF Fresh
  <2>1. Newer(r, x)
    BY DEF Fresh, Serves, TypeOK
  <2>2. CASE x = q
    <3>1. before[r][s] < typed[s]
      BY <1>2 DEF Numbered, TypeOK
    <3>. QED
      BY <1>4, <1>5, <2>1, <2>2, <3>1 DEF Newer
  <2>3. CASE x # q
    BY <1>4, <2>1, <2>3 DEF Newer
  <2>. QED
    BY <2>2, <2>3
<1>10. NothingStale'
  BY DEF NothingStale
<1>. QED
  BY <1>6, <1>7, <1>8, <1>9, <1>10

(* What is taken was in the queue that r has open.                         *)
LEMMA ReceiveStep ==
    ASSUME IInv, NEW r \in Receivers, Receive(r) PROVE IInv'
<1> DEFINE q == mqd[r]
<1> USE ConstantsAssumption DEF IInv, Receive, Goto, signals, times
<1>1. r \in Procs /\ q \in Queues /\ q # NoQueue
  BY DEF Procs, TypeOK, Opened
<1>2. /\ content[q] \in Seq(Messages) /\ content[q] # <<>>
      /\ content' = [content EXCEPT ![q] = Tail(@)]
  BY <1>1 DEF TypeOK
<1>3. /\ content'[q] \in Seq(Messages)
      /\ Len(content'[q]) = Len(content[q]) - 1
      /\ \A k \in 1 .. Len(content'[q]) : content'[q][k] = content[q][k + 1]
      /\ \A x \in Queues : x # q => content'[x] = content[x]
  BY <1>1, <1>2 DEF TypeOK
<1>4. Head(content[q]) \in Messages /\ Head(content[q]) = content[q][1]
      /\ 1 \in 1 .. Len(content[q])
  BY <1>2
<1>5. TypeOK'
  <2>1. ASSUME NEW x \in Queues
        PROVE  /\ Len(content'[x]) <= maxmsg'[x]
               /\ Free(x, name', mqd') => content'[x] = <<>>
    <3>1. CASE x = q
      <4>1. Len(content[q]) <= maxmsg[q] /\ maxmsg[q] \in Nat /\ Len(content[q]) \in Nat
        BY <1>1, <1>2 DEF TypeOK
      <4>. QED
        BY <1>1, <1>3, <3>1, <4>1 DEF Free
    <3>2. CASE x # q
      BY <1>3, <3>2 DEF TypeOK, Free
    <3>. QED
      BY <3>1, <3>2
  <2>2. content' \in [Queues -> Seq(Messages)]
    BY <1>1, <1>2, <1>3 DEF TypeOK
  <2>3. pc' \in [Procs -> PC] /\ printed' \in [Receivers -> SUBSET Messages]
    BY <1>4 DEF TypeOK, PC
  <2>. QED
    BY <2>1, <2>2, <2>3 DEF TypeOK
<1>6. Roles' /\ Opened'
  BY <1>1 DEF Roles, Opened, TypeOK, Free
<1>7. Numbered'
  BY DEF Numbered, TypeOK
<1>8. Fresh'
  <2> SUFFICES ASSUME NEW x \in Receivers, NEW o \in Queues, Serves(x, o)'
               PROVE  Newer(x, o)'
    BY DEF Fresh
  <2>1. Newer(x, o)
    BY DEF Fresh, Serves, TypeOK
  <2>2. CASE o = q
    <3>1. \A k \in 1 .. Len(content'[q]) : k + 1 \in 1 .. Len(content[q])
      BY <1>2, <1>3
    <3>2. ASSUME NEW k \in 1 .. Len(content'[q])
          PROVE  content'[q][k].no > before[x][content'[q][k].from]
      BY <1>3, <2>1, <2>2, <3>1, <3>2 DEF Newer
    <3>. QED
      BY <2>2, <3>2 DEF Newer
  <2>3. CASE o # q
    BY <1>3, <2>1, <2>3 DEF Newer
  <2>. QED
    BY <2>2, <2>3
<1>9. NothingStale'
  <2>1. Newer(r, q)
    BY <1>1 DEF Fresh, Serves
  <2>2. content[q][1].no > before[r][content[q][1].from]
    BY <1>4, <2>1 DEF Newer
  <2>. QED
    BY <1>4, <2>2 DEF NothingStale, TypeOK
<1>. QED
  BY <1>5, <1>6, <1>7, <1>8, <1>9

-----------------------------------------------------------------------------
LEMMA InitIInv == Init => IInv
<1> SUFFICES ASSUME Init PROVE IInv
  OBVIOUS
<1> USE ConstantsAssumption DEF Init
<1>1. TypeOK
  BY DEF TypeOK, PC
<1>2. Roles /\ Opened /\ Numbered
  BY DEF Roles, Opened, Numbered, Free, Procs, Queues
<1>3. Fresh /\ NothingStale
  BY DEF Fresh, Newer, NothingStale
<1>. QED
  BY <1>1, <1>2, <1>3 DEF IInv

LEMMA NextIInv == IInv /\ [Next]_vars => IInv'
<1> SUFFICES ASSUME IInv, [Next]_vars PROVE IInv'
  OBVIOUS
<1>1. ASSUME NEW s \in Senders, Sender(s) \/ TypeLine(s) \/ EndOfInput(s)
      PROVE  IInv'
  BY <1>1, OpenSenderStep, SetupStep, CheckStep, SendStep, CloseStep,
     TypeLineStep, EndOfInputStep
     DEF Sender, Procs
<1>2. ASSUME NEW r \in Receivers, Receiver(r) PROVE IInv'
  BY <1>2, UnlinkOldStep, OpenReceiverStep, SetupStep, CheckStep, ReceiveStep,
     CloseStep, UnlinkStep
     DEF Receiver, Procs
<1>3. ASSUME NEW p \in Procs,
             Start(p) \/ OpenFails(p) \/ SetupFails(p) \/ Signalled(p) \/ Killed(p)
      PROVE  IInv'
  BY <1>3, StartStep, OpenFailsStep, SetupFailsStep, SignalledStep, KilledStep
<1>4. CASE UNCHANGED vars
  <2> USE <1>4 DEF vars, queues, messages, signals, times, IInv
  <2>1. TypeOK'
    BY DEF TypeOK, Free
  <2>2. Roles' /\ Opened' /\ Numbered'
    BY DEF Roles, Opened, Numbered, Free
  <2>3. Fresh' /\ NothingStale'
    BY DEF Fresh, NothingStale, Serves, Newer
  <2>. QED
    BY <2>1, <2>2, <2>3
<1>. QED
  BY <1>1, <1>2, <1>3, <1>4 DEF Next

(* IInv holds in every reachable state.                                    *)
THEOREM Invariance == Spec => []IInv
BY InitIInv, NextIInv, PTL DEF Spec

(* Types; no queue holds more than its length, and one that nobody can     *)
(* reach any more holds nothing.                                           *)
THEOREM TypeCorrect == Spec => []TypeOK
<1>1. IInv => TypeOK
  BY DEF IInv
<1>. QED
  BY <1>1, Invariance, PTL

(* No receiver prints a message that was accepted before it unlinked the   *)
(* old queue, though senders and other receivers make and drop queues.     *)
THEOREM NoStaleMessage == Spec => []NothingStale
<1>1. IInv => NothingStale
  BY DEF IInv
<1>. QED
  BY <1>1, Invariance, PTL
=============================================================================
