---------------------------- MODULE MCLiveTasks ----------------------------
(* LiveTasks for TLC. *)
EXTENDS LiveTasks

=============================================================================
