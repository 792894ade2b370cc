---------------------------- MODULE Capabilities ----------------------------
(***************************************************************************)
(* What a task is understood to be and which agents it needs: the intake   *)
(* rules of packages/general_agent/agents.py (TaskIntakeAgent) and the     *)
(* planning rules of packages/general_agent/capabilities.py                *)
(* (CapabilityRegistry).  Everything here is a pure function of the        *)
(* request and of the set of agents enabled in the workspace.              *)
(*                                                                         *)
(* An objective is abstracted to what the keyword tables tell apart: its   *)
(* size class, whether a chat pattern or a task verb occurs in it, the     *)
(* topics and the danger classes whose keywords occur in it.  A plan is    *)
(* the set of its agents; Order gives each agent its place in it.          *)
(***************************************************************************)
EXTENDS Naturals

TaskTypes == {"chat", "research", "data", "code", "document", "general"}
Topics    == {"research", "code", "data", "document"}
Risks     == {"low", "medium", "high"}

Objectives ==
    [size   : {"empty", "short", "medium", "long"},
     chatty : BOOLEAN,
     verb   : BOOLEAN,
     topics : SUBSET Topics,
     danger : SUBSET {"medium", "high"}]

-----------------------------------------------------------------------------
(* Intake *)

\* "empty": nothing is left without punctuation; "short": at most
\* CHAT_REPLY_MAX_CHARS are left; "long": more than CHAT_MAX_CHARS characters.
IsChat(o) ==
    /\ o.size \notin {"empty", "long"}
    /\ ~o.verb
    /\ o.chatty \/ o.size = "short"

\* The keyword groups are tried in this order; the first that occurs wins.
TopicRank == [research |-> 1, code |-> 2, data |-> 3, document |-> 4]

Classify(o) ==
    IF IsChat(o) THEN "chat"
    ELSE IF o.topics = {} THEN "general"
    ELSE CHOOSE k \in o.topics : \A j \in o.topics : TopicRank[k] <= TopicRank[j]

Risk(o) ==
    IF "high" \in o.danger THEN "high"
    ELSE IF "medium" \in o.danger THEN "medium"
    ELSE "low"

-----------------------------------------------------------------------------
(* The registry *)

Workers == {"direct_agent", "research_agent", "data_agent", "code_agent",
            "document_agent", "review_agent"}

Agents == Workers \cup {"react_agent", "approval_gate", "execution_agent",
                        "verification_agent"}

\* CapabilityRegistry.default: which task types each registered agent serves.
Serves ==
    [direct_agent   |-> {"chat"},
     research_agent |-> {"research", "general"},
     data_agent     |-> {"data"},
     code_agent     |-> {"code"},
     document_agent |-> TaskTypes \ {"chat"},
     review_agent   |-> TaskTypes \ {"chat"}]

\* Mutated: the gate sorts before the review.
Order_GateEarly ==
    [direct_agent |-> 5, research_agent |-> 10, data_agent |-> 10,
     code_agent |-> 10, document_agent |-> 50, review_agent |-> 80,
     approval_gate |-> 70, execution_agent |-> 91, verification_agent |-> 92,
     react_agent |-> 1]

\* Capability.order, with the orders plan_for gives the write chain; the
\* single step of a ReAct plan competes with no other.
Order ==
    [direct_agent |-> 5, research_agent |-> 10, data_agent |-> 10,
     code_agent |-> 10, document_agent |-> 50, review_agent |-> 80,
     approval_gate |-> 90, execution_agent |-> 91, verification_agent |-> 92,
     react_agent |-> 1]

\* Agents chosen for the work itself: by task type, or the one the request
\* pins when it is enabled.
Team(enabled, type, only) ==
    IF only \in Workers \cap enabled
    THEN {only}
    ELSE {a \in Workers \cap enabled : type \in Serves[a]}

\* Mutated: the gate is asked for by the risk of the text alone.
WriteChain_ByRisk(risk, mode, target, dryRun) ==
    IF mode = "plan_only" \/ ~(target \/ dryRun \/ risk = "high")
    THEN {}
    ELSE {"execution_agent", "verification_agent"}
           \cup (IF risk = "high" THEN {"approval_gate"} ELSE {})

\* The write chain: any execution that is real or of high risk is gated; a
\* rehearsal runs the chain without the gate.
WriteChain(risk, mode, target, dryRun) ==
    LET gated == (target /\ ~dryRun) \/ risk = "high" IN
    IF mode = "plan_only" \/ ~(gated \/ dryRun)
    THEN {}
    ELSE {"execution_agent", "verification_agent"}
           \cup (IF gated THEN {"approval_gate"} ELSE {})

PlanFor(enabled, type, risk, mode, only, target, dryRun) ==
    Team(enabled, type, only) \cup WriteChain(risk, mode, target, dryRun)

\* The first step of the plan that is not completed.
FirstOf(steps) ==
    CHOOSE a \in steps : \A b \in steps : Order[a] <= Order[b]

=============================================================================
