----------------------------- MODULE LoginLife -----------------------------
(***************************************************************************)
(* What the service promises of a login, that is of everything that one    *)
(* login and the renewals that follow it keep alive: it begins once, it    *)
(* ends once, and nothing brings it back.  Many logins may end in a step.  *)
(***************************************************************************)

CONSTANT Logins

VARIABLE phase

Phases == {"unborn", "live", "over"}

Init == phase = [l \in Logins |-> "unborn"]

Begin(l) == phase[l] = "unborn" /\ phase'[l] = "live"

End(l) == phase[l] = "live" /\ phase'[l] = "over"

Next ==
    /\ phase' \in [Logins -> Phases]
    /\ \A l \in Logins : phase'[l] = phase[l] \/ Begin(l) \/ End(l)

Spec == Init /\ [][Next]_phase

=============================================================================
