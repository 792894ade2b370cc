--------------------------- MODULE ApprovedWrite ---------------------------
(***************************************************************************)
(* What the service promises of the real write of a task, and all that the *)
(* outside world needs to know of it: the write is sealed until somebody   *)
(* approves it, it is then started at most once, and once started it takes *)
(* effect at most once.  It may stop at any stage.                         *)
(***************************************************************************)

CONSTANT Tasks

VARIABLE stage

Stages == {"sealed", "open", "under way", "done"}

Init == stage = [t \in Tasks |-> "sealed"]

Move(S, from, to) ==
    /\ \A t \in S : stage[t] = from
    /\ stage' = [t \in Tasks |-> IF t \in S THEN to ELSE stage[t]]

Approve(t) == Move({t}, "sealed", "open")

Start(t) == Move({t}, "open", "under way")

\* The writes of several tasks may be found to have taken effect at once.
TakeEffect(S) == Move(S, "under way", "done")

Next ==
    \/ \E t \in Tasks : Approve(t) \/ Start(t)
    \/ \E S \in SUBSET Tasks : TakeEffect(S)

Spec == Init /\ [][Next]_stage

=============================================================================
