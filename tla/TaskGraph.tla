----------------------------- MODULE TaskGraph -----------------------------
(***************************************************************************)
(* The state graph of packages/general_agent/graph.py: what one node does  *)
(* to the values of a thread.  Values are the channels of                  *)
(* GeneralTaskState that steer the run, with the node that runs next; the  *)
(* texts, traces and tool audits a node adds are left out.  A worker's     *)
(* artifact exists exactly when the worker is in `done`, so only the       *)
(* outcome fields that other nodes read are kept:                          *)
(*   exec    - the execution record: simulated, or real and ok or failed   *)
(*   verdict - the verification agent's `verified`                         *)
(***************************************************************************)
EXTENDS Capabilities

Nodes == Agents \cup {"intake_agent", "planner_agent", "supervisor_agent"}

Decisions == {"approve", "reject"}

Terminal == {"completed", "needs_human", "rejected", "planned"}
Statuses == Terminal \cup {"running", "awaiting_approval"}

RequestType ==
    [objective : Objectives,
     mode      : {"auto", "plan_only"},
     agent     : Workers \cup {"auto"},
     target    : BOOLEAN,
     dryRun    : BOOLEAN,
     react     : BOOLEAN,
     maxSteps  : Nat]

Values ==
    [next    : Nodes \cup {"end"},
     status  : Statuses,
     reason  : {"none", "steps", "timeout", "failed"},
     type    : TaskTypes \cup {"unset"},
     risk    : Risks \cup {"unset"},
     plan    : SUBSET Agents,
     done    : SUBSET Nodes,
     steps   : Nat,
     exec    : {"none", "simulated", "ok", "failed"},
     verdict : {"none", "verified", "refuted"}]

-----------------------------------------------------------------------------
\* The values create_task and _ensure_checkpoint hand to a new thread.
Fresh ==
    [next |-> "intake_agent", status |-> "running", reason |-> "none",
     type |-> "unset", risk |-> "unset", plan |-> {}, done |-> {},
     steps |-> 0, exec |-> "none", verdict |-> "none"]

WillWrite(r) == r.target /\ ~r.dryRun

Intake(v, r) ==
    [v EXCEPT !.type = Classify(r.objective), !.risk = Risk(r.objective),
              !.done = @ \cup {"intake_agent"}, !.next = "planner_agent"]

Planner(v, r, enabled) ==
    [v EXCEPT !.plan = IF r.react THEN {"react_agent"}
                       ELSE PlanFor(enabled, v.type, v.risk, r.mode, r.agent,
                                    r.target, r.dryRun),
              !.done = @ \cup {"planner_agent"}, !.next = "supervisor_agent"]

Finish(v, status) == [v EXCEPT !.status = status, !.next = "end"]

\* Mutated: a rejection does not end the dispatch.
Dispatch_PastRejection(v, r) ==
    LET left == v.plan \ v.done IN
    IF r.mode = "plan_only" THEN Finish(v, "planned")
    ELSE IF left = {} THEN Finish(v, "completed")
    ELSE [v EXCEPT !.next = FirstOf(left), !.steps = @ + 1]

\* GeneralSupervisorAgent.dispatch.
Dispatch(v, r) ==
    LET left == v.plan \ v.done IN
    IF v.status = "rejected" THEN [v EXCEPT !.next = "end"]
    ELSE IF r.mode = "plan_only" /\ "planner_agent" \in v.done
         THEN Finish(v, "planned")
    ELSE IF left = {} THEN Finish(v, "completed")
    ELSE IF v.steps >= r.maxSteps
         THEN [Finish(v, "needs_human") EXCEPT !.reason = "steps"]
    ELSE [v EXCEPT !.next = FirstOf(left), !.steps = @ + 1]

\* A worker's edge leads back to the supervisor.
Complete(v, a) ==
    [v EXCEPT !.done = @ \cup {a}, !.next = "supervisor_agent"]

\* Mutated: any decision lets the run go on.
Gate_AnyDecision(v, decision) ==
    [Complete(v, "approval_gate") EXCEPT !.status = "running"]

Gate(v, decision) ==
    [Complete(v, "approval_gate") EXCEPT
        !.status = IF decision = "approve" THEN "running" ELSE "rejected"]

\* Mutated: the execution agent is not entered in completed_agents.
Execution_NotRecorded(v, result) ==
    [v EXCEPT !.exec = result, !.next = "supervisor_agent"]

Execution(v, result) ==
    [Complete(v, "execution_agent") EXCEPT !.exec = result]

\* Mutated: only the mode of the record is compared.
Verification_ModeOnly(v, r) ==
    LET expected == IF WillWrite(r) THEN {"ok", "failed"} ELSE {"simulated"} IN
    [Complete(v, "verification_agent") EXCEPT
        !.verdict = IF v.exec \in expected THEN "verified" ELSE "refuted"]

\* VerificationAgent: the mode is the expected one and a real write is ok.
Verification(v, r) ==
    LET expected == IF WillWrite(r) THEN {"ok"} ELSE {"simulated"} IN
    [Complete(v, "verification_agent") EXCEPT
        !.verdict = IF v.exec \in expected THEN "verified" ELSE "refuted"]

\* What a node other than the gate and a real write makes of the values.
RunNode(v, r, enabled) ==
    CASE v.next = "intake_agent"       -> Intake(v, r)
      [] v.next = "planner_agent"      -> Planner(v, r, enabled)
      [] v.next = "supervisor_agent"   -> Dispatch(v, r)
      [] v.next = "verification_agent" -> Verification(v, r)
      [] v.next = "execution_agent"    -> Execution(v, "simulated")
      [] OTHER                         -> Complete(v, v.next)

\* _digest takes a record made in execute mode for a write that happened,
\* whatever its `ok`; _summarize puts the digest in the final response.
ReportsRealWrite(v) == v.status = "completed" /\ v.exec \in {"ok", "failed"}


\* A thread's gate stands before its real write and opens for an approval.
ThreadOK(v, r, approved) ==
    /\ v.status # "awaiting_approval"
    /\ v.next \in Agents => v.next \in v.plan \ v.done /\ v.status # "rejected"
    /\ WillWrite(r) /\ "execution_agent" \in v.plan => "approval_gate" \in v.plan
    /\ WillWrite(r) /\ v.next = "execution_agent" => "approval_gate" \in v.done
    /\ "approval_gate" \in v.done => approved \/ v.status = "rejected"

=============================================================================
