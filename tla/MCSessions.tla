----------------------------- MODULE MCSessions -----------------------------
(* Instances of Sessions for TLC: two tabs of one browser, which are alike. *)
EXTENDS Sessions, TLC

CONSTANT b1

Swaps == Permutations(Tabs)

OneHome == [c \in Tabs |-> b1]

=============================================================================
