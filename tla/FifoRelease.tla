---------------------------- MODULE FifoRelease ----------------------------
(***************************************************************************)
(* What 10_9 promises, without mutexes, condition variables or ring        *)
(* buffer: a worker announces itself once, the main thread releases the    *)
(* workers one at a time in the order of their announcements, a worker     *)
(* finishes only after it was released, and is collected only after it     *)
(* finished.                                                               *)
(***************************************************************************)
EXTENDS Sequences

CONSTANTS Workers, Nobody

VARIABLES phase,       \* [worker -> how far it has come]
          announced,   \* the announcements not yet taken, oldest first
          taken        \* the worker whose announcement was taken last and
                       \* that is not released yet, or Nobody

vars == <<phase, announced, taken>>

Advance(w, from, to) ==
    /\ phase[w] = from
    /\ phase' = [phase EXCEPT ![w] = to]

Init ==
    /\ phase = [w \in Workers |-> "working"]
    /\ announced = <<>>
    /\ taken = Nobody

Announce(w) ==
    /\ Advance(w, "working", "announced")
    /\ announced' = Append(announced, w)
    /\ UNCHANGED taken

Take ==
    /\ taken = Nobody
    /\ announced # <<>>
    /\ taken' = Head(announced)
    /\ announced' = Tail(announced)
    /\ UNCHANGED phase

Release ==
    /\ taken # Nobody
    /\ Advance(taken, "announced", "released")
    /\ taken' = Nobody
    /\ UNCHANGED announced

Finish(w) ==
    /\ Advance(w, "released", "finished")
    /\ UNCHANGED <<announced, taken>>

(* Every worker is released before the first one is collected.             *)
Collect(w) ==
    /\ \A v \in Workers : phase[v] \in {"released", "finished", "collected"}
    /\ Advance(w, "finished", "collected")
    /\ UNCHANGED <<announced, taken>>

Next ==
    \/ Take
    \/ Release
    \/ \E w \in Workers : Announce(w) \/ Finish(w) \/ Collect(w)

Spec == Init /\ [][Next]_vars
=============================================================================
