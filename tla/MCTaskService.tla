--------------------------- MODULE MCTaskService ---------------------------
(* Instances of TaskService for TLC: the requests that take every branch   *)
(* of the planner and the gate.                                            *)
EXTENDS TaskService

Plain(topics, danger) ==
    [size |-> "long", chatty |-> FALSE, verb |-> TRUE,
     topics |-> topics, danger |-> danger]

Base ==
    [objective |-> Plain({"research"}, {}), mode |-> "auto", agent |-> "auto",
     target |-> FALSE, dryRun |-> FALSE, react |-> FALSE, maxSteps |-> 12]

Write == [Base EXCEPT !.target = TRUE]

MCRequests ==
    { Write,
      [Base EXCEPT !.objective = Plain({"data", "code"}, {"high", "medium"})],
      [Write EXCEPT !.dryRun = TRUE, !.agent = "document_agent"],
      [Write EXCEPT !.mode = "plan_only"],
      [Write EXCEPT !.react = TRUE],
      [Write EXCEPT !.maxSteps = 3],
      [Write EXCEPT !.objective =
          [size |-> "short", chatty |-> FALSE, verb |-> FALSE,
           topics |-> {}, danger |-> {"high"}]] }

WriteOnly == { Write }

MCEnabledChoices == { Workers, Workers \ {"research_agent"} }
AllEnabled == { Workers }

=============================================================================
