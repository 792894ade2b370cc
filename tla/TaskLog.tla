------------------------------ MODULE TaskLog ------------------------------
(***************************************************************************)
(* What the event stream of one task promises a browser tab: the events of *)
(* the task form a log that only grows, and a tab hears the log from its   *)
(* first event on, in order, leaving nothing out and hearing nothing       *)
(* twice, until it gives the stream up.  Neither a lost connection nor a   *)
(* restart of the process is seen here.                                    *)
(***************************************************************************)
EXTENDS Sequences, Naturals

CONSTANT Events

VARIABLES
    log,   \* what has happened to the task
    got    \* what the tab has heard of it

Init == log = <<>> /\ got = <<>>

Happen ==
    /\ \E e \in Events : log' = Append(log, e)
    /\ UNCHANGED got

Hear ==
    /\ Len(got) < Len(log)
    /\ got' = Append(got, log[Len(got) + 1])
    /\ UNCHANGED log

GiveUp ==
    /\ got' = <<>>
    /\ UNCHANGED log

Next == Happen \/ Hear \/ GiveUp

Spec == Init /\ [][Next]_<<log, got>>

=============================================================================
