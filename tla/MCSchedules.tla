---------------------------- MODULE MCSchedules ----------------------------
(* Instances of Schedules for TLC: a form that turns a row off, changes    *)
(* its cron and has an objective too long to run, and a body that turns it *)
(* on and sets its due instant to a minute that is over.                   *)
EXTENDS Schedules

MCDrafts == { [enabled |-> TRUE, every |-> 1], [enabled |-> TRUE, every |-> 2] }

Form == [enabled |-> FALSE, every |-> 2, valid |-> FALSE, next |-> None]

Told == [enabled |-> TRUE, every |-> None, valid |-> None, next |-> 0]

MCEdits == { Form, Told }

=============================================================================
