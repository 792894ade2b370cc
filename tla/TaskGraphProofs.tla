-------------------------- MODULE TaskGraphProofs --------------------------
(***************************************************************************)
(* Facts about the nodes of the graph, for every request and every set of  *)
(* enabled agents: a node keeps the values well-formed and keeps the gate  *)
(* in front of a real write.                                               *)
(***************************************************************************)
EXTENDS TaskGraph, FiniteSets, FiniteSetTheorems, TLAPS

\* The next step of a plan is one of its open steps and none precedes it:
\* max_steps apart, GeneralSupervisorAgent.dispatch skips nothing.
LEMMA FirstOfLeast ==
    ASSUME NEW S \in SUBSET Agents, S # {}
    PROVE  /\ FirstOf(S) \in S
           /\ \A b \in S : Order[FirstOf(S)] <= Order[b]
<1> SUFFICES \E a \in S : \A b \in S : Order[a] <= Order[b]
  BY DEF FirstOf
<1>1. CASE "react_agent" \in S
  BY <1>1 DEF Order, Agents, Workers
<1>2. CASE "direct_agent" \in S /\ "react_agent" \notin S
  BY <1>2 DEF Order, Agents, Workers
<1>3. CASE "research_agent" \in S /\ {"react_agent", "direct_agent"} \cap S = {}
  BY <1>3 DEF Order, Agents, Workers
<1>4. CASE "data_agent" \in S /\ {"react_agent", "direct_agent"} \cap S = {}
  BY <1>4 DEF Order, Agents, Workers
<1>5. CASE "code_agent" \in S /\ {"react_agent", "direct_agent"} \cap S = {}
  BY <1>5 DEF Order, Agents, Workers
<1> DEFINE Early == {"react_agent", "direct_agent", "research_agent", "data_agent",
                     "code_agent"}
<1>6. CASE "document_agent" \in S /\ Early \cap S = {}
  BY <1>6 DEF Order, Agents, Workers
<1>7. CASE "review_agent" \in S /\ (Early \cup {"document_agent"}) \cap S = {}
  BY <1>7 DEF Order, Agents, Workers
<1>8. CASE S \subseteq {"approval_gate", "execution_agent", "verification_agent"}
  <2>1. CASE "approval_gate" \in S
    BY <1>8, <2>1 DEF Order
  <2>2. CASE "approval_gate" \notin S /\ "execution_agent" \in S
    BY <1>8, <2>2 DEF Order
  <2>3. CASE S = {"verification_agent"}
    BY <2>3 DEF Order
  <2>4. QED
    BY <1>8, <2>1, <2>2, <2>3
<1>9. QED
  BY <1>1, <1>2, <1>3, <1>4, <1>5, <1>6, <1>7, <1>8 DEF Agents, Workers

(* Each channel of the values may be updated on its own.                   *)

\* Replacing one channel by a value of its own set keeps values well-formed.
LEMMA Update ==
    ASSUME NEW v \in Values
    PROVE  /\ \A x \in Nodes \cup {"end"} : [v EXCEPT !.next = x] \in Values
           /\ \A x \in Statuses : [v EXCEPT !.status = x] \in Values
           /\ \A x \in {"none", "steps", "timeout", "failed"} :
                  [v EXCEPT !.reason = x] \in Values
           /\ \A x \in TaskTypes : [v EXCEPT !.type = x] \in Values
           /\ \A x \in Risks : [v EXCEPT !.risk = x] \in Values
           /\ \A x \in SUBSET Agents : [v EXCEPT !.plan = x] \in Values
           /\ \A x \in SUBSET Nodes : [v EXCEPT !.done = x] \in Values
           /\ \A x \in Nat : [v EXCEPT !.steps = x] \in Values
           /\ \A x \in {"simulated", "ok", "failed"} : [v EXCEPT !.exec = x] \in Values
           /\ \A x \in {"verified", "refuted"} : [v EXCEPT !.verdict = x] \in Values
  BY DEF Values

-----------------------------------------------------------------------------
(* Every node yields values.                                               *)

\* A new thread starts from well-formed values.
LEMMA FreshType == Fresh \in Values
  BY DEF Fresh, Values, Nodes, Statuses, Terminal

\* The intake agent always settles on a task type and a risk it knows.
LEMMA IntakeType ==
    ASSUME NEW v \in Values, NEW r \in RequestType
    PROVE  Intake(v, r) \in Values
<1>1. v.done \cup {"intake_agent"} \in SUBSET Nodes
  BY DEF Values, Nodes
<1>2. "planner_agent" \in Nodes
  BY DEF Nodes
<1>3. Risk(r.objective) \in Risks
  BY DEF Risk, Risks
<1>4. Classify(r.objective) \in TaskTypes
  <2> DEFINE found == r.objective.topics
             First == CHOOSE k \in found : \A j \in found : TopicRank[k] <= TopicRank[j]
  <2>1. found \in SUBSET Topics
    BY DEF RequestType, Objectives
  <2>2. found # {} => \E k \in found : \A j \in found : TopicRank[k] <= TopicRank[j]
    BY <2>1 DEF Topics, TopicRank
  <2>3. found # {} => First \in Topics
    BY <2>1, <2>2
  <2>4. QED
    BY <2>3 DEF Classify, TaskTypes, Topics
<1>5. QED
  BY <1>1, <1>2, <1>3, <1>4, Update DEF Intake

\* A plan consists of agents the graph has a node for.
LEMMA PlanType ==
    ASSUME NEW E \in SUBSET Workers, NEW k, NEW risk, NEW m, NEW only,
           NEW target, NEW dry
    PROVE  PlanFor(E, k, risk, m, only, target, dry) \in SUBSET Agents
  BY DEF PlanFor, Team, WriteChain, Agents

\* The planner agent keeps values well-formed, whatever plan it makes.
LEMMA PlannerType ==
    ASSUME NEW v \in Values, NEW r \in RequestType, NEW E \in SUBSET Workers
    PROVE  Planner(v, r, E) \in Values
<1>1. v.done \cup {"planner_agent"} \in SUBSET Nodes
  BY DEF Values, Nodes
<1>2. "supervisor_agent" \in Nodes
  BY DEF Nodes
<1>3. {"react_agent"} \in SUBSET Agents
  BY DEF Agents
<1>4. QED
  BY <1>1, <1>2, <1>3, PlanType, Update DEF Planner

\* The supervisor hands over to a node of the graph or ends the run with a
\* terminal status.
LEMMA DispatchType ==
    ASSUME NEW v \in Values, NEW r \in RequestType
    PROVE  Dispatch(v, r) \in Values
<1> DEFINE left == v.plan \ v.done
<1>1. left # {} => FirstOf(left) \in Nodes
  BY FirstOfLeast DEF Nodes, Values
<1>2. \A s \in {"completed", "planned", "needs_human"} : Finish(v, s) \in Values
  BY Update DEF Finish, Statuses, Terminal
<1>3. v.steps + 1 \in Nat
  BY DEF Values
<1>4. QED
  BY <1>1, <1>2, <1>3, Update DEF Dispatch

\* Entering an agent in completed_agents keeps values well-formed.
LEMMA CompleteType ==
    ASSUME NEW v \in Values, NEW a \in Nodes
    PROVE  Complete(v, a) \in Values
<1>1. v.done \cup {a} \in SUBSET Nodes
  BY DEF Values
<1>2. "supervisor_agent" \in Nodes
  BY DEF Nodes
<1>3. QED
  BY <1>1, <1>2, Update DEF Complete

\* The approval gate keeps values well-formed, whatever is decided.
LEMMA GateType ==
    ASSUME NEW v \in Values, NEW d \in Decisions
    PROVE  Gate(v, d) \in Values
<1>1. Complete(v, "approval_gate") \in Values
  BY CompleteType DEF Nodes, Agents
<1>2. QED
  BY <1>1, Update DEF Gate, Statuses, Terminal

\* The execution agent keeps values well-formed, whatever its receipt says.
LEMMA ExecutionType ==
    ASSUME NEW v \in Values, NEW x \in {"simulated", "ok", "failed"}
    PROVE  Execution(v, x) \in Values
<1>1. Complete(v, "execution_agent") \in Values
  BY CompleteType DEF Nodes, Agents
<1>2. QED
  BY <1>1, Update DEF Execution

\* The verification agent keeps values well-formed.
LEMMA VerificationType ==
    ASSUME NEW v \in Values, NEW r \in RequestType
    PROVE  Verification(v, r) \in Values
<1>1. Complete(v, "verification_agent") \in Values
  BY CompleteType DEF Nodes, Agents
<1>2. QED
  BY <1>1, Update DEF Verification

\* Every node of the graph keeps values well-formed.
LEMMA RunNodeType ==
    ASSUME NEW v \in Values, NEW r \in RequestType, NEW E \in SUBSET Workers,
           v.next # "end"
    PROVE  RunNode(v, r, E) \in Values
<1>1. v.next \in Nodes
  BY DEF Values
<1>2. QED
  BY <1>1, IntakeType, PlannerType, DispatchType, VerificationType,
     ExecutionType, CompleteType DEF RunNode

-----------------------------------------------------------------------------
(* No node breaks ThreadOK: the gate stands before the real write.         *)

\* A new thread has its gate in front of its write.
LEMMA FreshOK ==
    ASSUME NEW r, NEW ok \in BOOLEAN
    PROVE  ThreadOK(Fresh, r, ok)
  BY DEF ThreadOK, Fresh, Agents, Workers

\* A plan that writes for real has the gate in it, whatever the registry.
LEMMA WritePlanIsGated ==
    ASSUME NEW E, NEW k, NEW risk, NEW m, NEW only, NEW r, WillWrite(r),
           "execution_agent" \in PlanFor(E, k, risk, m, only, r.target, r.dryRun)
    PROVE  "approval_gate" \in PlanFor(E, k, risk, m, only, r.target, r.dryRun)
  BY DEF PlanFor, WriteChain, WillWrite, Team, Workers

\* The intake agent keeps the gate in front of the write.
LEMMA IntakeOK ==
    ASSUME NEW v \in Values, NEW r \in RequestType, NEW ok \in BOOLEAN,
           ThreadOK(v, r, ok)
    PROVE  ThreadOK(Intake(v, r), r, ok)
<1> DEFINE w == Intake(v, r)
<1>1. /\ w.next = "planner_agent" /\ w.status = v.status /\ w.plan = v.plan
      /\ w.done = v.done \cup {"intake_agent"}
  BY DEF Intake, Values
<1>2. QED
  BY <1>1 DEF ThreadOK, Agents, Workers

\* The planner keeps the gate in front of the write: its plan has one when the
\* plan writes.
LEMMA PlannerOK ==
    ASSUME NEW v \in Values, NEW r \in RequestType, NEW E \in SUBSET Workers,
           NEW ok \in BOOLEAN, ThreadOK(v, r, ok)
    PROVE  ThreadOK(Planner(v, r, E), r, ok)
<1> DEFINE w == Planner(v, r, E)
           P == PlanFor(E, v.type, v.risk, r.mode, r.agent, r.target, r.dryRun)
<1>1. /\ w.next = "supervisor_agent" /\ w.status = v.status
      /\ w.plan = IF r.react THEN {"react_agent"} ELSE P
      /\ w.done = v.done \cup {"planner_agent"}
  BY DEF Planner, Values
<1>2. WillWrite(r) /\ "execution_agent" \in w.plan => "approval_gate" \in w.plan
  BY <1>1, WritePlanIsGated
<1>3. QED
  BY <1>1, <1>2 DEF ThreadOK, Agents, Workers

\* The supervisor reaches the execution agent of a plan with a gate only
\* after the gate, for the gate comes first in the order.
LEMMA DispatchOK ==
    ASSUME NEW v \in Values, NEW r \in RequestType, NEW ok \in BOOLEAN,
           ThreadOK(v, r, ok)
    PROVE  ThreadOK(Dispatch(v, r), r, ok)
<1> DEFINE w == Dispatch(v, r)
           left == v.plan \ v.done
<1>1. /\ w.plan = v.plan /\ w.done = v.done
      /\ \/ /\ w.next = "end" /\ w.status # "awaiting_approval"
            /\ v.status = "rejected" => w.status = "rejected"
         \/ /\ left # {} /\ w.next = FirstOf(left) /\ w.status = v.status
            /\ v.status # "rejected"
  BY DEF Dispatch, Finish, Values, ThreadOK
<1>2. left # {} => /\ FirstOf(left) \in left
                   /\ FirstOf(left) = "execution_agent" => "approval_gate" \notin left
  <2>1. left \in SUBSET Agents
    BY DEF Values
  <2>2. Order["approval_gate"] = 90 /\ Order["execution_agent"] = 91
    BY DEF Order
  <2>3. QED
    BY <2>1, <2>2, FirstOfLeast
<1>3. "end" \notin Agents
  BY DEF Agents, Workers
<1>4. QED
  BY <1>1, <1>2, <1>3 DEF ThreadOK

\* What a node other than the gate leaves: it is done, the plan, the status
\* and the rest are as they were and the supervisor is next.
LEMMA WorkerOK ==
    ASSUME NEW v \in Values, NEW w \in Values, NEW a \in Nodes, NEW r,
           NEW ok \in BOOLEAN, ThreadOK(v, r, ok), a # "approval_gate",
           w.next = "supervisor_agent", w.done = v.done \cup {a},
           w.plan = v.plan, w.status = v.status
    PROVE  ThreadOK(w, r, ok)
  BY DEF ThreadOK, Agents, Workers

\* What the execution agent changes of the channels that steer the run.
LEMMA ExecutionFields ==
    ASSUME NEW v \in Values, NEW x
    PROVE  /\ Execution(v, x).next = "supervisor_agent"
           /\ Execution(v, x).plan = v.plan
           /\ Execution(v, x).status = v.status
           /\ Execution(v, x).done = v.done \cup {"execution_agent"}
  BY DEF Execution, Complete, Values

\* What the verification agent changes of the channels that steer the run.
LEMMA VerificationFields ==
    ASSUME NEW v \in Values, NEW r
    PROVE  /\ Verification(v, r).next = "supervisor_agent"
           /\ Verification(v, r).plan = v.plan
           /\ Verification(v, r).status = v.status
           /\ Verification(v, r).done = v.done \cup {"verification_agent"}
  BY DEF Verification, Complete, Values

\* What the gate changes of the channels that steer the run.
LEMMA GateFields ==
    ASSUME NEW v \in Values, NEW d
    PROVE  /\ Gate(v, d).next = "supervisor_agent"
           /\ Gate(v, d).plan = v.plan
           /\ Gate(v, d).status = IF d = "approve" THEN "running" ELSE "rejected"
           /\ Gate(v, d).done = v.done \cup {"approval_gate"}
  BY DEF Gate, Complete, Values

\* The execution agent keeps the gate in front of the write.
LEMMA ExecutionOK ==
    ASSUME NEW v \in Values, NEW x \in {"simulated", "ok", "failed"}, NEW r,
           NEW ok \in BOOLEAN, ThreadOK(v, r, ok)
    PROVE  ThreadOK(Execution(v, x), r, ok)
<1>1. "execution_agent" \in Nodes
  BY DEF Nodes, Agents
<1>2. QED
  BY <1>1, ExecutionType, ExecutionFields, WorkerOK

\* Every node but the gate keeps the gate in front of the write and needs no
\* approval for it.
LEMMA RunNodeOK ==
    ASSUME NEW v \in Values, NEW r \in RequestType, NEW E \in SUBSET Workers,
           NEW ok \in BOOLEAN, ThreadOK(v, r, ok),
           v.next \notin {"end", "approval_gate"}
    PROVE  ThreadOK(RunNode(v, r, E), r, ok)
<1>1. v.next \in Nodes /\ "verification_agent" \in Nodes
  BY DEF Values, Nodes, Agents
<1>2. ThreadOK(Complete(v, v.next), r, ok)
  <2> DEFINE w == Complete(v, v.next)
  <2>1. w \in Values
    BY <1>1, CompleteType
  <2>2. /\ w.next = "supervisor_agent" /\ w.plan = v.plan
        /\ w.done = v.done \cup {v.next} /\ w.status = v.status
    BY DEF Complete, Values
  <2>3. QED
    BY <1>1, <2>1, <2>2, WorkerOK
<1>3. ThreadOK(Verification(v, r), r, ok)
  BY <1>1, VerificationType, VerificationFields, WorkerOK
<1>4. QED
  BY <1>2, <1>3, IntakeOK, PlannerOK, DispatchOK, ExecutionOK DEF RunNode

\* completed_agents only grows.
LEMMA RunNodeKeepsDone ==
    ASSUME NEW v \in Values, NEW r, NEW E
    PROVE  v.done \subseteq RunNode(v, r, E).done
<1>1. v.done \subseteq Intake(v, r).done /\ v.done \subseteq Planner(v, r, E).done
  BY DEF Intake, Planner, Values
<1>2. Dispatch(v, r).done = v.done
  BY DEF Dispatch, Finish, Values
<1>3. /\ v.done \subseteq Verification(v, r).done
      /\ v.done \subseteq Execution(v, "simulated").done
      /\ v.done \subseteq Complete(v, v.next).done
  BY DEF Verification, Execution, Complete, Values
<1>4. QED
  BY <1>1, <1>2, <1>3 DEF RunNode

\* An approval opens the gate and anything else ends the task's run.
LEMMA GateOK ==
    ASSUME NEW v \in Values, NEW r, NEW ok \in BOOLEAN, NEW d \in Decisions,
           ThreadOK(v, r, ok)
    PROVE  ThreadOK(Gate(v, d), r, ok \/ d = "approve")
<1>1. "supervisor_agent" \notin Agents
  BY DEF Agents, Workers
<1>2. QED
  BY <1>1, GateFields DEF ThreadOK, Decisions

-----------------------------------------------------------------------------
(* What the values of a thread say of the outside world: n is the number   *)
(* of real writes of the task that were started and have ended.            *)

Guarded == {"approval_gate", "execution_agent", "verification_agent"}

\* Only a gate that was asked rejects, only a plan that is not run is planned,
\* what precedes the gate is done when it is reached, a receipt that is ok
\* comes of a write that has ended, and only such a receipt is vouched for.
ThreadFits(v, r, approved, n) ==
    /\ v.next \notin {"intake_agent", "planner_agent"} => "planner_agent" \in v.done
    /\ r.mode = "plan_only" => v.next \notin Agents
    /\ v.status = "rejected" => ~approved
    /\ v.status = "planned" => r.mode = "plan_only"
    /\ v.next = "approval_gate" => v.plan \ v.done \subseteq Guarded
    /\ v.exec # "none" => "execution_agent" \in v.done
    /\ WillWrite(r) /\ v.exec = "ok" => n = 1
    /\ WillWrite(r) /\ v.verdict = "verified" => v.exec = "ok"

\* A new thread claims nothing.
LEMMA FreshFits ==
    ASSUME NEW r, NEW ok \in BOOLEAN, NEW n
    PROVE  ThreadFits(Fresh, r, ok, n)
  BY DEF ThreadFits, Fresh, Agents, Workers

\* A node that records no result and changes no status.
LEMMA QuietNodeFits ==
    ASSUME NEW v \in Values, NEW w \in Values, NEW r \in RequestType, NEW ok \in BOOLEAN, NEW n,
           ThreadFits(v, r, ok, n), w.status = v.status, w.exec = v.exec,
           v.done \subseteq w.done, w.next \in {"planner_agent", "supervisor_agent"},
           w.next = "supervisor_agent" => "planner_agent" \in w.done,
           WillWrite(r) /\ w.verdict = "verified" => v.exec = "ok" \/ w.verdict = v.verdict
    PROVE  ThreadFits(w, r, ok, n)
  BY DEF ThreadFits, Agents, Workers

\* The supervisor plans only what it may and reaches the gate in its turn.
LEMMA DispatchFits ==
    ASSUME NEW v \in Values, NEW r \in RequestType, NEW ok \in BOOLEAN, NEW n,
           ThreadFits(v, r, ok, n), v.next = "supervisor_agent"
    PROVE  ThreadFits(Dispatch(v, r), r, ok, n)
<1> DEFINE w == Dispatch(v, r)
           left == v.plan \ v.done
<1>1. "planner_agent" \in v.done
  BY DEF ThreadFits
<1>2. /\ w.plan = v.plan /\ w.done = v.done /\ w.exec = v.exec /\ w.verdict = v.verdict
      /\ \/ w.next = "end" /\ w.status = v.status
         \/ w.next = "end" /\ w.status \in {"completed", "needs_human"}
         \/ w.next = "end" /\ w.status = "planned" /\ r.mode = "plan_only"
         \/ left # {} /\ w.next = FirstOf(left) /\ w.status = v.status /\ r.mode # "plan_only"
  BY <1>1 DEF Dispatch, Finish, Values
<1>3. left # {} /\ FirstOf(left) = "approval_gate" => left \subseteq Guarded
  <2>1. left \in SUBSET Agents
    BY DEF Values
  <2>2. \A b \in Agents : 90 <= Order[b] => b \in Guarded
    BY DEF Order, Agents, Workers, Guarded
  <2>3. Order["approval_gate"] = 90
    BY DEF Order
  <2>4. QED
    BY <2>1, <2>2, <2>3, FirstOfLeast
<1>4. "end" \notin Agents
  BY DEF Agents, Workers
<1>5. QED
  BY <1>1, <1>2, <1>3, <1>4 DEF ThreadFits

\* The execution agent: a receipt that is ok comes of a write, and there was
\* nothing to vouch for before it.
LEMMA ExecutionFits ==
    ASSUME NEW v \in Values, NEW r \in RequestType, NEW ok \in BOOLEAN, NEW n,
           NEW x \in {"simulated", "ok", "failed"},
           ThreadOK(v, r, ok), ThreadFits(v, r, ok, n), v.next = "execution_agent",
           WillWrite(r) /\ x = "ok" => n = 1
    PROVE  ThreadFits(Execution(v, x), r, ok, n)
<1> DEFINE w == Execution(v, x)
<1>1. /\ w.next = "supervisor_agent" /\ w.status = v.status /\ w.exec = x
      /\ w.verdict = v.verdict /\ v.done \subseteq w.done /\ "execution_agent" \in w.done
  BY DEF Execution, Complete, Values
<1>2. "planner_agent" \in v.done /\ "execution_agent" \notin v.done
  BY DEF ThreadFits, ThreadOK, Agents, Workers
<1>3. QED
  BY <1>1, <1>2 DEF ThreadFits, Agents, Workers

\* Every other node of the graph but the gate.
LEMMA RunNodeFits ==
    ASSUME NEW v \in Values, NEW r \in RequestType, NEW E \in SUBSET Workers,
           NEW ok \in BOOLEAN, NEW n, ThreadOK(v, r, ok),
           ThreadFits(v, r, ok, n), v.next \notin {"end", "approval_gate"},
           ~(WillWrite(r) /\ v.next = "execution_agent")
    PROVE  ThreadFits(RunNode(v, r, E), r, ok, n)
<1> DEFINE w == RunNode(v, r, E)
<1>1. w \in Values /\ v.done \subseteq w.done
  BY RunNodeType, RunNodeKeepsDone
<1>2. CASE v.next = "intake_agent"
  <2>1. w.status = v.status /\ w.exec = v.exec /\ w.verdict = v.verdict /\ w.next = "planner_agent"
    BY <1>2 DEF RunNode, Intake, Values
  <2>2. QED
    BY <1>1, <2>1, QuietNodeFits
<1>3. CASE v.next = "planner_agent"
  <2>1. /\ w.status = v.status /\ w.exec = v.exec /\ w.verdict = v.verdict
        /\ w.next = "supervisor_agent" /\ "planner_agent" \in w.done
    BY <1>3 DEF RunNode, Planner, Values
  <2>2. QED
    BY <1>1, <2>1, QuietNodeFits
<1>4. CASE v.next = "supervisor_agent"
  BY <1>4, DispatchFits DEF RunNode
<1>5. CASE v.next = "execution_agent"
  BY <1>5, ExecutionFits DEF RunNode
<1>6. CASE v.next \notin {"intake_agent", "planner_agent", "supervisor_agent", "execution_agent"}
  <2>1. "planner_agent" \in w.done
    BY <1>1, <1>6 DEF ThreadFits
  <2>2. /\ w.status = v.status /\ w.exec = v.exec /\ w.next = "supervisor_agent"
        /\ WillWrite(r) /\ w.verdict = "verified" => v.exec = "ok" \/ w.verdict = v.verdict
    BY <1>6 DEF RunNode, Verification, Complete, Values
  <2>3. QED
    BY <1>1, <2>1, <2>2, QuietNodeFits
<1>7. QED
  BY <1>2, <1>3, <1>4, <1>5, <1>6

\* The gate, for a task nobody has approved yet.
LEMMA GateFits ==
    ASSUME NEW v \in Values, NEW r \in RequestType, NEW d \in Decisions, NEW n,
           ThreadFits(v, r, FALSE, n), v.next = "approval_gate"
    PROVE  ThreadFits(Gate(v, d), r, d = "approve", n)
<1> DEFINE w == Gate(v, d)
<1>1. /\ w.next = "supervisor_agent" /\ v.done \subseteq w.done
      /\ w.status = IF d = "approve" THEN "running" ELSE "rejected"
      /\ w.exec = v.exec /\ w.verdict = v.verdict
  BY DEF Gate, Complete, Values
<1>2. "planner_agent" \in v.done
  BY DEF ThreadFits
<1>3. QED
  BY <1>1, <1>2 DEF ThreadFits, Agents, Workers

-----------------------------------------------------------------------------
(* How long a run may be.                                                  *)

\* The supersteps a thread has left, at most: two for each open step of the
\* plan (the supervisor's and the agent's), and those before there is one.
StepsLeft(v) ==
    LET open == Cardinality(v.plan \ v.done) IN
    CASE v.next = "intake_agent"     -> 23
      [] v.next = "planner_agent"    -> 22
      [] v.next = "supervisor_agent" -> 2 * open + 1
      [] v.next \in Agents           -> 2 * open
      [] v.next = "end"              -> 0

LEMMA TenAgents == IsFiniteSet(Agents) /\ Cardinality(Agents) = 10
<1> DEFINE A1 == {"direct_agent"}
           A2 == A1 \cup {"research_agent"}
           A3 == A2 \cup {"data_agent"}
           A4 == A3 \cup {"code_agent"}
           A5 == A4 \cup {"document_agent"}
           A6 == A5 \cup {"review_agent"}
           A7 == A6 \cup {"react_agent"}
           A8 == A7 \cup {"approval_gate"}
           A9 == A8 \cup {"execution_agent"}
           A10 == A9 \cup {"verification_agent"}
<1>1. IsFiniteSet(A1) /\ Cardinality(A1) = 1
  BY FS_Singleton
<1>2. IsFiniteSet(A2) /\ Cardinality(A2) = 2
  BY <1>1, FS_AddElement
<1>3. IsFiniteSet(A3) /\ Cardinality(A3) = 3
  BY <1>2, FS_AddElement
<1>4. IsFiniteSet(A4) /\ Cardinality(A4) = 4
  BY <1>3, FS_AddElement
<1>5. IsFiniteSet(A5) /\ Cardinality(A5) = 5
  BY <1>4, FS_AddElement
<1>6. IsFiniteSet(A6) /\ Cardinality(A6) = 6
  BY <1>5, FS_AddElement
<1>7. IsFiniteSet(A7) /\ Cardinality(A7) = 7
  BY <1>6, FS_AddElement
<1>8. IsFiniteSet(A8) /\ Cardinality(A8) = 8
  BY <1>7, FS_AddElement
<1>9. IsFiniteSet(A9) /\ Cardinality(A9) = 9
  BY <1>8, FS_AddElement
<1>10. IsFiniteSet(A10) /\ Cardinality(A10) = 10
  BY <1>9, FS_AddElement
<1>11. A10 = Agents
  BY DEF Agents, Workers
<1>12. QED
  BY <1>10, <1>11

\* The open steps of a plan are at most the agents there are.
LEMMA OpenSteps ==
    ASSUME NEW v \in Values
    PROVE  /\ IsFiniteSet(v.plan \ v.done)
           /\ Cardinality(v.plan \ v.done) \in 0 .. 10
<1>1. v.plan \ v.done \in SUBSET Agents
  BY DEF Values
<1>2. IsFiniteSet(v.plan \ v.done) /\ Cardinality(v.plan \ v.done) <= 10
  BY <1>1, TenAgents, FS_Subset
<1>3. QED
  BY <1>2, FS_CardinalityType

\* Where a thread is, by the node that runs next.
LEMMA StepsByNode ==
    ASSUME NEW v \in Values
    PROVE  LET open == Cardinality(v.plan \ v.done) IN
           /\ v.next = "intake_agent" => StepsLeft(v) = 23
           /\ v.next = "planner_agent" => StepsLeft(v) = 22
           /\ v.next = "supervisor_agent" => StepsLeft(v) = 2 * open + 1
           /\ v.next \in Agents => StepsLeft(v) = 2 * open
           /\ v.next = "end" => StepsLeft(v) = 0
           /\ StepsLeft(v) \in 0 .. 23
<1> DEFINE open == Cardinality(v.plan \ v.done)
<1>1. v.next \in Agents \cup {"intake_agent", "planner_agent", "supervisor_agent", "end"}
  BY DEF Values, Nodes
<1>2. {"intake_agent", "planner_agent", "supervisor_agent", "end"} \cap Agents = {}
  BY DEF Agents, Workers
<1>3. open \in 0 .. 10
  BY OpenSteps
<1>4. /\ v.next = "intake_agent" => StepsLeft(v) = 23
      /\ v.next = "planner_agent" => StepsLeft(v) = 22
      /\ v.next = "supervisor_agent" => StepsLeft(v) = 2 * open + 1
      /\ v.next \in Agents => StepsLeft(v) = 2 * open
      /\ v.next = "end" => StepsLeft(v) = 0
  BY <1>2 DEF StepsLeft
<1> HIDE DEF open
<1>5. StepsLeft(v) \in 0 .. 23
  BY <1>1, <1>3, <1>4
<1>6. QED
  BY <1>4, <1>5 DEF open

\* An agent that has run is no longer an open step.
LEMMA AgentShortens ==
    ASSUME NEW v \in Values, NEW w \in Values, v.next \in Agents, v.next \in v.plan \ v.done,
           w.next = "supervisor_agent", w.plan = v.plan, w.done = v.done \cup {v.next}
    PROVE  StepsLeft(w) < StepsLeft(v)
<1> DEFINE open == v.plan \ v.done
<1>1. w.plan \ w.done = open \ {v.next}
  OBVIOUS
<1>2. Cardinality(open \ {v.next}) = Cardinality(open) - 1 /\ Cardinality(open) \in 0 .. 10
  BY OpenSteps, FS_RemoveElement
<1>3. StepsLeft(v) = 2 * Cardinality(open) /\ StepsLeft(w) = 2 * (Cardinality(open) - 1) + 1
  BY <1>1, <1>2, StepsByNode
<1> HIDE DEF open
<1>4. QED
  BY <1>2, <1>3

\* The supervisor hands over to an open step of the plan, or ends the run.
LEMMA DispatchShortens ==
    ASSUME NEW v \in Values, NEW r \in RequestType, v.next = "supervisor_agent"
    PROVE  StepsLeft(Dispatch(v, r)) < StepsLeft(v)
<1> DEFINE w == Dispatch(v, r)
           open == v.plan \ v.done
<1>1. w \in Values /\ w.plan \ w.done = open
  <2>1. w \in Values
    BY DispatchType
  <2>2. w.plan \ w.done = open
    BY DEF Dispatch, Finish, Values
  <2>3. QED
    BY <2>1, <2>2
<1>2. w.next = "end" \/ w.next \in Agents
  <2>1. open \in SUBSET Agents
    BY DEF Values
  <2>2. w.next = "end" \/ (open # {} /\ w.next = FirstOf(open))
    BY DEF Dispatch, Finish, Values
  <2>3. QED
    BY <2>1, <2>2, FirstOfLeast
<1>3. Cardinality(open) \in 0 .. 10
  BY OpenSteps
<1>4. StepsLeft(v) = 2 * Cardinality(open) + 1
  BY StepsByNode
<1>5. StepsLeft(w) = 0 \/ StepsLeft(w) = 2 * Cardinality(open)
  BY <1>1, <1>2, StepsByNode
<1> HIDE DEF w, open
<1>6. StepsLeft(w) < StepsLeft(v)
  BY <1>3, <1>4, <1>5
<1>7. QED
  BY <1>6 DEF w

\* Every node leaves its thread fewer supersteps than it had.
LEMMA RunNodeShortens ==
    ASSUME NEW v \in Values, NEW r \in RequestType, NEW E \in SUBSET Workers,
           NEW ok \in BOOLEAN, ThreadOK(v, r, ok), v.next # "end"
    PROVE  StepsLeft(RunNode(v, r, E)) < StepsLeft(v)
<1> DEFINE w == RunNode(v, r, E)
<1>1. w \in Values
  BY RunNodeType
<1>2. {"intake_agent", "planner_agent", "supervisor_agent"} \cap Agents = {}
  BY DEF Agents, Workers
<1>3. CASE v.next = "intake_agent"
  <2>1. w = Intake(v, r) /\ w.next = "planner_agent"
    BY <1>3 DEF RunNode, Intake, Values
  <2>2. StepsLeft(w) = 22 /\ StepsLeft(v) = 23
    BY <1>1, <1>3, <2>1, StepsByNode
  <2>3. QED
    BY <2>2
<1>4. CASE v.next = "planner_agent"
  <2>1. w = Planner(v, r, E) /\ w.next = "supervisor_agent"
    BY <1>4 DEF RunNode, Planner, Values
  <2>2. StepsLeft(w) = 2 * Cardinality(w.plan \ w.done) + 1 /\ StepsLeft(v) = 22
    BY <1>1, <1>4, <2>1, StepsByNode
  <2>3. Cardinality(w.plan \ w.done) \in 0 .. 10
    BY <1>1, OpenSteps
  <2> HIDE DEF w
  <2>4. StepsLeft(w) < StepsLeft(v)
    BY <2>2, <2>3
  <2>5. QED
    BY <2>4 DEF w
<1>5. CASE v.next = "supervisor_agent"
  <2>1. w = Dispatch(v, r)
    BY <1>5 DEF RunNode
  <2>2. QED
    BY <1>5, <2>1, DispatchShortens
<1>6. CASE v.next \in Agents
  <2>1. v.next \in v.plan \ v.done
    BY <1>6 DEF ThreadOK
  <2>2. \/ v.next = "verification_agent" /\ w = Verification(v, r)
        \/ v.next = "execution_agent" /\ w = Execution(v, "simulated")
        \/ w = Complete(v, v.next)
    BY <1>2, <1>6 DEF RunNode
  <2>3. /\ Complete(v, v.next).next = "supervisor_agent" /\ Complete(v, v.next).plan = v.plan
        /\ Complete(v, v.next).done = v.done \cup {v.next}
    BY DEF Complete, Values
  <2>4. w.next = "supervisor_agent" /\ w.plan = v.plan /\ w.done = v.done \cup {v.next}
    BY <2>2, <2>3, VerificationFields, ExecutionFields
  <2>5. QED
    BY <1>1, <1>6, <2>1, <2>4, AgentShortens
<1>7. QED
  BY <1>3, <1>4, <1>5, <1>6 DEF Values, Nodes

\* So does the gate, and so does a real write.
LEMMA GateShortens ==
    ASSUME NEW v \in Values, NEW r, NEW ok, ThreadOK(v, r, ok),
           NEW d \in Decisions, v.next = "approval_gate"
    PROVE  StepsLeft(Gate(v, d)) < StepsLeft(v)
<1>1. Gate(v, d) \in Values /\ v.next \in Agents
  BY GateType DEF Agents
<1>2. v.next \in v.plan \ v.done
  BY <1>1 DEF ThreadOK
<1>3. QED
  BY <1>1, <1>2, GateFields, AgentShortens

LEMMA ExecutionShortens ==
    ASSUME NEW v \in Values, NEW r, NEW ok, ThreadOK(v, r, ok),
           NEW x \in {"ok", "failed"}, v.next = "execution_agent"
    PROVE  StepsLeft(Execution(v, x)) < StepsLeft(v)
<1>1. Execution(v, x) \in Values /\ v.next \in Agents
  BY ExecutionType DEF Agents
<1>2. v.next \in v.plan \ v.done
  BY <1>1 DEF ThreadOK
<1>3. QED
  BY <1>1, <1>2, ExecutionFields, AgentShortens

=============================================================================
