------------------------- MODULE TaskServiceProofs -------------------------
(***************************************************************************)
(* The safety of the task service for any number of tasks, decide calls,   *)
(* accounts, requests and restarts.                                        *)
(*                                                                         *)
(* IInv is inductive (NextInv).  Its heart is GrantInv: once an approval   *)
(* has passed a task's gate, the task no longer awaits approval and its    *)
(* one driver is past the gate, so that no later decide call is accepted,  *)
(* no replay is started, and no thread of the task comes to its write a    *)
(* second time (WriteInv).  Most steps are those of a handler that owns a  *)
(* task: they touch that task only (Keeps), and HandlerStep asks of them   *)
(* no more than what they leave the task in (Leaves).  The other steps     *)
(* have a lemma each.                                                      *)
(*                                                                         *)
(* ShownInv is the second invariant: what a task is shown as fits what its *)
(* thread did (Fits) and what took effect outside.  The refinement of      *)
(* ApprovedWrite follows, and last what every call's end rests on: a bound *)
(* on its steps, and that nobody is stuck.                                 *)
(***************************************************************************)
EXTENDS TaskService, TaskGraphProofs

\* Two handlers never drive one thread: the lock keeps decide calls apart and
\* create_task is over before a decide call gets past the status check.
LEMMA Alone == IInv => OneDriver
<1> SUFFICES ASSUME IInv,
                    NEW g \in Handlers, NEW h \in Handlers, Active(g), Active(h),
                    TaskOf(g) = TaskOf(h)
             PROVE  g = h
  BY DEF OneDriver, Active
<1>1. Tasks \cap Calls = {}
  BY Identities
<1>2. CASE g \in Tasks
  BY <1>1, <1>2 DEF IInv, LockInv, Handlers, TaskOf, Active, Driving
<1>3. CASE g \in Calls /\ h \in Tasks
  BY <1>1, <1>3 DEF IInv, LockInv, Handlers, TaskOf, Active, Driving
<1>4. CASE g \in Calls /\ h \in Calls
  BY <1>1, <1>4 DEF IInv, LockInv, TaskOf
<1>5. QED
  BY <1>2, <1>3, <1>4 DEF Handlers

\* What a handler that drives a thread may rely on.
LEMMA DriverFacts ==
    ASSUME IInv, NEW h \in Handlers, Active(h)
    PROVE  LET t == TaskOf(h)
           IN /\ t \in Tasks
              /\ tasks[t] \in Values /\ tasks[t] # None
              /\ req[t] \in RequestType
              /\ thread[t] \in Values /\ thread[t] # None
              /\ ThreadOK(thread[t], req[t], granted[t])
              /\ h \in Calls => pc[t] = "done" /\ lock[t] = h
              /\ h \notin Calls => h \in Tasks /\ t = h
              /\ \A g \in Handlers : Active(g) /\ TaskOf(g) = t => g = h
<1> DEFINE t == TaskOf(h)
<1>1. t \in Tasks /\ tasks[t] # None
  <2>1. CASE h \in Tasks
    BY <2>1 DEF IInv, CreateInv, TaskOf, Active, Driving
  <2>2. CASE h \in Calls
    BY <2>2, Identities DEF IInv, LockInv, TaskOf, Active, Driving
  <2>3. QED
    BY <2>1, <2>2 DEF Handlers
<1>2. thread[t] # None
  BY DEF IInv, GrantInv, Driver
<1>3. ThreadOK(thread[t], req[t], granted[t])
  BY <1>1, <1>2 DEF IInv, ThreadInv
<1>4. tasks[t] \in Values /\ thread[t] \in Values /\ req[t] \in RequestType
  BY <1>1, <1>2 DEF IInv, TypeOK, CreateInv
<1>5. h \in Calls => pc[t] = "done" /\ lock[t] = h
  BY Identities DEF IInv, LockInv, TaskOf
<1>6. h \notin Calls => h \in Tasks /\ t = h
  BY DEF Handlers, TaskOf
<1>7. \A g \in Handlers : Active(g) /\ TaskOf(g) = t => g = h
  BY Alone DEF OneDriver, Active
<1>8. QED
  BY <1>1, <1>2, <1>3, <1>4, <1>5, <1>6, <1>7

(* A step of one handler h on its task t.  Owns(h) is what it relies on,   *)
(* Keeps(h, p) what it leaves alone when it goes to p, and Leaves(h, p)    *)
(* what it must leave behind at t for IInv to hold again.                  *)

Owns(h) ==
    LET t == TaskOf(h) IN
    /\ t \in Tasks /\ tasks[t] # None
    /\ h \in Calls => pc[t] = "done" /\ said[h] \in Decisions
    /\ h \notin Calls => h \in Tasks /\ t = h
    /\ \A g \in Handlers \ {h} : Active(g) => TaskOf(g) # t

Keeps(h, p) ==
    LET t == TaskOf(h) IN
    /\ UNCHANGED Sources
    /\ pc' = [pc EXCEPT ![h] = p]
    /\ \A g \in Handlers \ {h} : g \in replaying' <=> g \in replaying
    /\ \A u \in Tasks \ {t} :
          /\ tasks'[u] = tasks[u] /\ stored'[u] = stored[u]
          /\ thread'[u] = thread[u] /\ resume'[u] = resume[u]
          /\ lock'[u] = lock[u] /\ granted'[u] = granted[u]
          /\ writing'[u] = writing[u] /\ attempts'[u] = attempts[u]
          /\ landed'[u] = landed[u]

Leaves(h, p) ==
    LET t == TaskOf(h) IN
    /\ tasks'[t] # None /\ stored'[t] = tasks'[t]
    /\ thread'[t] = None => resume'[t] = None /\ p = "done"
    /\ thread'[t] # None => ThreadOK(thread'[t], req[t], granted'[t])
    /\ p # "done" /\ h \in Calls => lock'[t] = h
    /\ p = "resume" => h \in Calls
    /\ h \in replaying' => p \in Driving /\ resume'[t] = None
    /\ tasks'[t].status = "awaiting_approval" => p \in {"resume", "done"} /\ ~granted'[t]
    /\ p = "stream" => thread'[t].next # "end"
    /\ p = "settle" => thread'[t].next \in {"end", "approval_gate"}
    /\ p # "done" /\ granted'[t] => /\ h \notin replaying' /\ p # "resume"
                                    /\ "approval_gate" \in thread'[t].done
    /\ attempts'[t] <= 1 /\ landed'[t] + writing'[t] <= attempts'[t]
    /\ attempts'[t] > 0 => granted'[t] /\ WillWrite(req[t])
    /\ p = "write" => /\ thread'[t].next = "execution_agent" /\ WillWrite(req[t])
                      /\ writing'[t] = 1
    /\ p # "done" /\ attempts'[t] > 0 =>
          p = "write" \/ "execution_agent" \in thread'[t].done

\* A step of a handler that owns its task preserves the invariant when it keeps
\* to that task (Keeps) and leaves the task as the handler's next place wants it
\* (Leaves).
LEMMA HandlerStep ==
    ASSUME IInv, TypeOK',
           NEW h \in Handlers, NEW p \in {"resume", "done"} \cup Driving,
           Owns(h), Keeps(h, p), Leaves(h, p)
    PROVE  IInv'
<1> DEFINE t == TaskOf(h)
<1>1. /\ t \in Tasks
      /\ \A g \in Handlers : TaskOf(g)' = TaskOf(g)
      /\ \A g \in Handlers \ {h} : pc'[g] = pc[g]
      /\ \A g \in Handlers \ {h} : Active(g)' <=> Active(g)
      /\ pc'[h] = p /\ (Active(h)' <=> p # "done")
  BY DEF Owns, Keeps, Sources, TaskOf, IInv, TypeOK, Active, Driving
<1>2. \A g \in Handlers \ {h} : Active(g) => TaskOf(g) \in Tasks \ {t}
  BY DriverFacts DEF Owns
<1>3. \A u \in Tasks \ {t} : pc'[u] = pc[u]
  BY <1>1, Identities DEF Owns, Handlers
<1>4. CreateInv'
  <2>1. \A u \in Tasks \ {t} :
          /\ pc[u] \notin {"lock", "resume"}
          /\ pc[u] = "idle" <=> tasks[u] = None
          /\ req[u] = None <=> tasks[u] = None
          /\ stored[u] = tasks[u]
          /\ tasks[u] = None => ~granted[u] /\ thread[u] = None
          /\ thread[u] = None => resume[u] = None
    BY DEF IInv, CreateInv
  <2>2. req'[t] # None /\ pc'[t] \notin {"lock", "resume", "idle"}
    BY <1>1, Identities DEF Owns, Leaves, Keeps, Sources, IInv, CreateInv, Driving, Handlers, TypeOK
  <2>3. QED
    BY <1>3, <2>1, <2>2 DEF CreateInv, Keeps, Leaves, Sources
<1>5. LockInv'
  <2> SUFFICES ASSUME NEW c \in Calls
      PROVE  /\ pc'[c] \notin {"idle", "done"} =>
                   on'[c] \in Tasks /\ said'[c] \in Decisions /\ tasks'[on'[c]] # None
             /\ Active(c)' => lock'[on'[c]] = c /\ pc'[on'[c]] = "done"
             /\ c \in replaying' => pc'[c] \in Driving
    BY DEF LockInv
  <2>1. c \in Handlers /\ TaskOf(c) = on[c] /\ on' = on /\ said' = said
    BY Identities DEF Handlers, TaskOf, Keeps, Sources
  <2>2. CASE c = h
    BY <1>1, <1>3, <2>1, <2>2, Identities DEF Owns, Leaves, Handlers
  <2>3. CASE c # h
    <3>1. /\ pc[c] \notin {"idle", "done"} =>
                on[c] \in Tasks /\ said[c] \in Decisions /\ tasks[on[c]] # None
          /\ Active(c) => lock[on[c]] = c /\ pc[on[c]] = "done"
          /\ c \in replaying => pc[c] \in Driving
      BY DEF IInv, LockInv
    <3>2. pc'[c] = pc[c] /\ (c \in replaying' <=> c \in replaying)
      BY <1>1, <2>1, <2>3 DEF Keeps
    <3>3. on[c] \in Tasks /\ tasks[on[c]] # None => tasks'[on[c]] # None
      BY DEF Keeps, Leaves
    <3>4. Active(c) => lock'[on[c]] = lock[on[c]] /\ pc'[on[c]] = pc[on[c]]
      BY <1>2, <1>3, <2>1, <2>3 DEF Keeps
    <3>5. QED
      BY <1>1, <2>1, <2>3, <3>1, <3>2, <3>3, <3>4
  <2>4. QED
    BY <2>2, <2>3
<1>6. ThreadInv'
  BY DEF ThreadInv, IInv, Keeps, Leaves, Sources
<1>7. GrantInv'
  <2>1. \A u \in Tasks : tasks'[u] # None /\ tasks'[u].status = "awaiting_approval" =>
              pc'[u] = "done" /\ ~granted'[u]
    <3> SUFFICES ASSUME NEW u \in Tasks, tasks'[u] # None,
                        tasks'[u].status = "awaiting_approval"
                 PROVE  pc'[u] = "done" /\ ~granted'[u]
      OBVIOUS
    <3>1. CASE u = t
      BY <1>1, <3>1, Identities DEF Owns, Leaves, Handlers
    <3>2. CASE u # t
      BY <1>3, <3>2 DEF Keeps, IInv, GrantInv
    <3>3. QED
      BY <3>1, <3>2
  <2>2. ASSUME NEW g \in Handlers, Active(g)'
        PROVE  Driver(g)'
    <3>1. CASE g = h
      BY <1>1, <2>2, <3>1 DEF Driver, Leaves, Driving
    <3>2. CASE g # h
      <4>1. Active(g) /\ Driver(g) /\ TaskOf(g) \in Tasks \ {t}
        BY <1>1, <1>2, <2>2, <3>2 DEF IInv, GrantInv
      <4>2. QED
        BY <1>1, <3>2, <4>1 DEF Driver, Keeps
    <3>3. QED
      BY <3>1, <3>2
  <2>3. QED
    BY <2>1, <2>2 DEF GrantInv
<1>8. WriteInv'
  <2>1. \A u \in Tasks :
          /\ attempts'[u] <= 1
          /\ landed'[u] + writing'[u] <= attempts'[u]
          /\ attempts'[u] > 0 => granted'[u] /\ WillWrite(req'[u])
    BY DEF Keeps, Leaves, Sources, IInv, WriteInv
  <2>2. ASSUME NEW g \in Handlers, Active(g)'
        PROVE  Writer(g)'
    <3>1. CASE g = h
      BY <1>1, <2>2, <3>1 DEF Writer, Leaves, Keeps, Sources, AtRealWrite
    <3>2. CASE g # h
      <4>1. Active(g) /\ Writer(g) /\ TaskOf(g) \in Tasks \ {t}
        BY <1>1, <1>2, <2>2, <3>2 DEF IInv, WriteInv
      <4>2. QED
        BY <1>1, <3>2, <4>1 DEF Writer, Keeps, Sources, AtRealWrite
    <3>3. QED
      BY <3>1, <3>2
  <2>3. QED
    BY <2>1, <2>2 DEF WriteInv
<1>9. QED
  BY <1>4, <1>5, <1>6, <1>7, <1>8 DEF IInv

-----------------------------------------------------------------------------
(* The steps of a handler that drives a thread.                            *)

\* A handler that drives a thread owns the thread's task.
LEMMA DriverOwns ==
    ASSUME IInv, NEW h \in Handlers, Active(h)
    PROVE  Owns(h)
<1>1. h \in Calls => said[h] \in Decisions
  BY DEF IInv, LockInv, Active, Driving
<1>2. QED
  BY <1>1, DriverFacts DEF Owns

\* What the local part of the invariant says of a driver before its step.
LEMMA DriverLocal ==
    ASSUME IInv, NEW h \in Handlers, Active(h)
    PROVE  LET t == TaskOf(h)
           IN /\ stored[t] = tasks[t]
              /\ tasks[t].status = "awaiting_approval" => pc[h] = "resume"
              /\ h \in replaying => resume[t] = None /\ h \in Calls /\ pc[h] \in Driving
              /\ pc[h] = "stream" => thread[t].next # "end"
              /\ pc[h] = "settle" => thread[t].next \in {"end", "approval_gate"}
              /\ granted[t] => /\ h \notin replaying /\ pc[h] # "resume"
                               /\ "approval_gate" \in thread[t].done
              /\ attempts[t] <= 1 /\ landed[t] + writing[t] <= attempts[t]
              /\ attempts[t] > 0 => granted[t] /\ WillWrite(req[t])
              /\ pc[h] = "write" => AtRealWrite(t) /\ writing[t] = 1
              /\ attempts[t] > 0 =>
                    pc[h] = "write" \/ "execution_agent" \in thread[t].done
              /\ pc[h] = "resume" => h \in Calls
<1>1. TaskOf(h) \in Tasks
  BY DriverFacts
<1>2. h \in replaying => h \in Calls /\ pc[h] \in Driving
  BY DEF IInv, TypeOK, LockInv
<1>3. pc[h] = "resume" => h \in Calls
  BY DEF IInv, CreateInv, Handlers
<1>4. stored[TaskOf(h)] = tasks[TaskOf(h)]
  BY <1>1 DEF IInv, CreateInv
<1>5. QED
  BY <1>1, <1>2, <1>3, <1>4 DEF IInv, GrantInv, Driver, WriteInv, Writer

\* Nothing was written for a task nobody has approved.
LEMMA NoWriteYet ==
    ASSUME IInv, NEW t \in Tasks, ~granted[t]
    PROVE  attempts[t] = 0 /\ landed[t] = 0 /\ writing[t] = 0
<1>1. attempts[t] \in Nat /\ landed[t] \in Nat /\ writing[t] \in Nat
  BY DEF IInv, TypeOK
<1>2. landed[t] + writing[t] <= attempts[t] /\ ~(attempts[t] > 0)
  BY DEF IInv, WriteInv
<1>3. QED
  BY <1>1, <1>2

\* A node's values are committed: the common end of every superstep.
LEMMA CommitType ==
    ASSUME TypeOK, NEW h \in Handlers, TaskOf(h) \in Tasks, NEW v \in Values,
           Commit(h, v)
    PROVE  /\ req' \in [Tasks -> RequestType \cup {None}]
           /\ tasks' \in [Tasks -> Values \cup {None}]
           /\ stored' \in [Tasks -> Values \cup {None}]
           /\ owners' \in [Tasks -> Users \cup {NoUser}]
           /\ storedOwners' \in [Tasks -> Users \cup {NoUser}]
           /\ thread' \in [Tasks -> Values \cup {None}]
           /\ resume' \in [Tasks -> Decisions \cup {None}]
           /\ lock' \in [Tasks -> Calls \cup {None}]
           /\ pc' \in [Handlers -> PCs]
           /\ on' \in [Calls -> Tasks \cup {None}]
           /\ said' \in [Calls -> Decisions \cup {None}]
           /\ replaying' \in SUBSET Calls
           /\ enabled' \in SUBSET Workers
           /\ creator' \in [Tasks -> Users \cup {NoUser}]
           /\ restarts' \in Nat
  BY DEF TypeOK, Commit, Save, SaveAs, Coalesce, Sources, PCs

\* A node that neither decides nor writes preserves the invariant.
LEMMA SuperstepInv ==
    ASSUME IInv, NEW h \in Handlers, Superstep(h)
    PROVE  IInv'
<1> DEFINE t == TaskOf(h)
           v == RunNode(thread[t], req[t], enabled)
           p == IF v.next = "end" THEN "settle" ELSE "stream"
<1>1. Active(h) /\ pc[h] = "stream"
  BY DEF Superstep, Active, Driving
<1>2. /\ t \in Tasks /\ v \in Values /\ ThreadOK(v, req[t], granted[t])
      /\ v.status # "awaiting_approval" /\ thread[t] \in Values
  BY <1>1, DriverFacts, DriverLocal, RunNodeType, RunNodeOK
     DEF IInv, TypeOK, Superstep, ThreadOK
<1>3. TypeOK'
  BY <1>2, CommitType DEF IInv, TypeOK, Superstep, Outside
<1>4. Keeps(h, p)
  BY <1>2 DEF IInv, TypeOK, Keeps, Superstep, Commit, Save, SaveAs, Outside
<1>5. /\ tasks'[t] = v /\ stored'[t] = v /\ thread'[t] = v /\ resume'[t] = None
      /\ granted'[t] = granted[t] /\ attempts'[t] = attempts[t]
      /\ landed'[t] = landed[t] /\ writing'[t] = writing[t]
      /\ lock' = lock /\ replaying' = replaying
  BY <1>2 DEF IInv, TypeOK, Superstep, Commit, Save, SaveAs, Outside
<1>6. thread[t].done \subseteq v.done
  BY <1>2, RunNodeKeepsDone
<1>7. Leaves(h, p)
  BY <1>1, <1>2, <1>5, <1>6, DriverFacts, DriverLocal, Identities DEF Leaves, Driving
<1>8. QED
  BY <1>1, <1>3, <1>4, <1>7, DriverOwns, HandlerStep DEF Driving

\* A run that stops at the gate preserves the invariant.
LEMMA InterruptInv ==
    ASSUME IInv, NEW h \in Handlers, Interrupt(h)
    PROVE  IInv'
<1> DEFINE t == TaskOf(h)
<1>1. Active(h) /\ pc[h] = "stream"
  BY DEF Interrupt, Active, Driving
<1>2. /\ t \in Tasks /\ thread[t] \in Values
      /\ ThreadOK(thread[t], req[t], granted[t])
      /\ thread[t].status # "awaiting_approval"
      /\ thread[t].next = "approval_gate"
  BY <1>1, DriverFacts DEF Interrupt, ThreadOK
<1>3. TypeOK'
  BY <1>2 DEF IInv, TypeOK, Interrupt, Save, SaveAs, Coalesce, Sources, Outside, PCs
<1>4. Keeps(h, "settle")
  BY <1>2 DEF IInv, TypeOK, Keeps, Interrupt, Save, SaveAs, Outside
<1>5. /\ tasks'[t] = thread[t] /\ stored'[t] = thread[t]
      /\ UNCHANGED <<thread, resume, lock, replaying, Outside>>
  BY <1>2 DEF IInv, TypeOK, Interrupt, Save, SaveAs
<1>6. Leaves(h, "settle")
  BY <1>1, <1>2, <1>5, DriverFacts, DriverLocal, Identities DEF Leaves, Driving, Outside
<1>7. QED
  BY <1>1, <1>3, <1>4, <1>6, DriverOwns, HandlerStep DEF Driving

\* The gate is passed with the decision the call has brought.
LEMMA PassGateInv ==
    ASSUME IInv, NEW h \in Handlers, PassGate(h)
    PROVE  IInv'
<1> DEFINE t == TaskOf(h)
           v == Gate(thread[t], resume[t])
<1>1. Active(h) /\ pc[h] = "stream"
  BY DEF PassGate, Active, Driving
<1>2. /\ t \in Tasks /\ thread[t] \in Values /\ resume[t] \in Decisions
      /\ ThreadOK(thread[t], req[t], granted[t]) /\ thread[t].next = "approval_gate"
      /\ granted[t] \in BOOLEAN
  BY <1>1, DriverFacts DEF PassGate, IInv, TypeOK
<1>3. /\ v \in Values /\ ThreadOK(v, req[t], granted[t] \/ resume[t] = "approve")
      /\ v.status # "awaiting_approval" /\ v.next = "supervisor_agent"
      /\ v.done = thread[t].done \cup {"approval_gate"}
  <2>1. v \in Values
    BY <1>2, GateType
  <2>2. ThreadOK(v, req[t], granted[t] \/ resume[t] = "approve")
    BY <1>2, GateOK
  <2>3. /\ v.next = "supervisor_agent" /\ v.done = thread[t].done \cup {"approval_gate"}
        /\ v.status \in {"running", "rejected"}
    BY <1>2, GateFields
  <2>4. QED
    BY <2>1, <2>2, <2>3
<1>4. ~granted[t] /\ attempts[t] = 0
  BY <1>1, <1>2, DriverFacts, DriverLocal DEF ThreadOK, Agents, IInv, TypeOK
<1>5. TypeOK'
  BY <1>2, <1>3, CommitType DEF IInv, TypeOK, PassGate
<1>6. Keeps(h, "stream")
  BY <1>2, <1>3 DEF IInv, TypeOK, Keeps, PassGate, Commit, Save, SaveAs
<1>7. /\ tasks'[t] = v /\ stored'[t] = v /\ thread'[t] = v /\ resume'[t] = None
      /\ granted'[t] = (granted[t] \/ resume[t] = "approve")
      /\ UNCHANGED <<lock, replaying, writing, attempts, landed>>
  BY <1>2 DEF IInv, TypeOK, PassGate, Commit, Save, SaveAs
<1>8. h \notin replaying
  BY <1>1, <1>2, DriverLocal, Identities
<1>9. Leaves(h, "stream")
  BY <1>1, <1>2, <1>3, <1>4, <1>7, <1>8, DriverFacts, DriverLocal, Identities
     DEF Leaves, Driving
<1>10. QED
  BY <1>1, <1>5, <1>6, <1>9, DriverOwns, HandlerStep DEF Driving

\* The write starts at the execution agent of a gated plan: the gate is done,
\* so it was approved, and the agent is not, so this is the first write.
LEMMA BeginWriteInv ==
    ASSUME IInv, NEW h \in Handlers, BeginWrite(h)
    PROVE  IInv' /\ granted[TaskOf(h)] /\ attempts[TaskOf(h)] = 0
                 /\ landed[TaskOf(h)] = 0
<1> DEFINE t == TaskOf(h)
<1>1. Active(h) /\ pc[h] = "stream"
  BY DEF BeginWrite, Active, Driving
<1>2. /\ t \in Tasks /\ thread[t] \in Values /\ AtRealWrite(t)
      /\ ThreadOK(thread[t], req[t], granted[t])
      /\ attempts[t] \in Nat /\ writing[t] \in Nat /\ landed[t] \in Nat
  BY <1>1, DriverFacts DEF BeginWrite, IInv, TypeOK
<1>3. /\ "execution_agent" \in thread[t].plan \ thread[t].done
      /\ granted[t] /\ "approval_gate" \in thread[t].done
  BY <1>2 DEF AtRealWrite, ThreadOK, Agents
<1>4. attempts[t] = 0 /\ landed[t] = 0 /\ writing[t] = 0
  BY <1>1, <1>2, <1>3, DriverLocal
<1>5. TypeOK'
  BY <1>2 DEF IInv, TypeOK, BeginWrite, Sources, PCs
<1>6. Keeps(h, "write")
  BY <1>2 DEF IInv, TypeOK, Keeps, BeginWrite
<1>7. /\ writing'[t] = 1 /\ attempts'[t] = 1
      /\ UNCHANGED <<tasks, stored, thread, resume, lock, replaying, landed, granted>>
  BY <1>2, <1>4 DEF IInv, TypeOK, BeginWrite
<1>8. Leaves(h, "write")
  BY <1>1, <1>2, <1>3, <1>4, <1>7, DriverFacts, DriverLocal
     DEF Leaves, Driving, AtRealWrite
<1>9. QED
  BY <1>1, <1>3, <1>4, <1>5, <1>6, <1>8, DriverOwns, HandlerStep DEF Driving

\* The receipt of a write preserves the invariant, and the write it is for is
\* the task's first.
LEMMA EndWriteInv ==
    ASSUME IInv, NEW h \in Handlers, NEW ok \in BOOLEAN, NEW effect \in BOOLEAN,
           EndWrite(h, ok, effect)
    PROVE  IInv' /\ attempts[TaskOf(h)] = 1 /\ landed[TaskOf(h)] = 0
<1> DEFINE t == TaskOf(h)
           v == Execution(thread[t], IF ok THEN "ok" ELSE "failed")
<1>1. Active(h) /\ pc[h] = "write"
  BY DEF EndWrite, Active, Driving
<1>2. /\ t \in Tasks /\ thread[t] \in Values
      /\ ThreadOK(thread[t], req[t], granted[t]) /\ granted[t] \in BOOLEAN
      /\ attempts[t] \in Nat /\ landed[t] \in Nat /\ writing[t] = 1
  BY <1>1, DriverFacts, DriverLocal DEF IInv, TypeOK
<1>3. attempts[t] = 1 /\ landed[t] = 0
  BY <1>1, <1>2, DriverLocal
<1>4. /\ v \in Values /\ ThreadOK(v, req[t], granted[t])
      /\ v.status # "awaiting_approval" /\ v.next = "supervisor_agent"
      /\ v.done = thread[t].done \cup {"execution_agent"}
  BY <1>2, ExecutionType, ExecutionOK, ExecutionFields DEF ThreadOK
<1>5. TypeOK'
  BY <1>2, <1>4, CommitType DEF IInv, TypeOK, EndWrite
<1>6. Keeps(h, "stream")
  BY <1>2, <1>4 DEF IInv, TypeOK, Keeps, EndWrite, Commit, Save, SaveAs
<1>7. /\ tasks'[t] = v /\ stored'[t] = v /\ thread'[t] = v /\ resume'[t] = None
      /\ writing'[t] = 0 /\ landed'[t] <= 1
      /\ UNCHANGED <<lock, replaying, attempts, granted>>
  BY <1>2, <1>3 DEF IInv, TypeOK, EndWrite, Commit, Save, SaveAs
<1>8. landed'[t] + writing'[t] <= attempts'[t]
  BY <1>2, <1>3, <1>7 DEF IInv, TypeOK, EndWrite
<1>9. Leaves(h, "stream")
  BY <1>1, <1>2, <1>3, <1>4, <1>7, <1>8, DriverFacts, DriverLocal, Identities
     DEF Leaves, Driving
<1>10. QED
  BY <1>1, <1>3, <1>5, <1>6, <1>9, DriverOwns, HandlerStep DEF Driving

-----------------------------------------------------------------------------
(* The end of a run.                                                       *)

\* _run's return keeps to the handler's task and puts the handler where its
\* mode has it: a replay before the resume, the others at their end.
LEMMA ReturnKeeps ==
    ASSUME IInv, NEW h \in Handlers, Active(h), NEW x \in Values,
           Save(TaskOf(h), x), Return(h), UNCHANGED <<thread, resume, Sources, Outside>>
    PROVE  LET t == TaskOf(h)
               p == IF h \in replaying THEN "resume" ELSE "done"
           IN /\ TypeOK' /\ Keeps(h, p)
              /\ tasks'[t] = x /\ stored'[t] = x
              /\ h \notin replaying'
              /\ p # "done" => lock' = lock
<1> DEFINE t == TaskOf(h)
<1>1. t \in Tasks
  BY DriverFacts
<1>2. CASE h \in replaying
  BY <1>1, <1>2, Identities
     DEF IInv, TypeOK, Save, SaveAs, Coalesce, Return, Keeps, Sources, Outside, PCs
<1>3. CASE h \notin replaying
  BY <1>1, <1>3, Identities
     DEF IInv, TypeOK, Save, SaveAs, Coalesce, Return, Keeps, Sources, Outside, PCs
<1>4. QED
  BY <1>2, <1>3

\* A stream that ends before the gate leaves a task that awaits approval, and
\* no approval has passed the gate then.
LEMMA SettleInv ==
    ASSUME IInv, NEW h \in Handlers, Settle(h)
    PROVE  IInv'
<1> DEFINE t == TaskOf(h)
           v == Settled(thread[t])
           p == IF h \in replaying THEN "resume" ELSE "done"
<1>1. Active(h) /\ pc[h] = "settle"
  BY DEF Settle, Active, Driving
<1>2. /\ t \in Tasks /\ thread[t] \in Values
      /\ ThreadOK(thread[t], req[t], granted[t])
  BY <1>1, DriverFacts
<1>3. v \in Values
  BY <1>2, Update DEF Settled, Statuses
<1>4. /\ TypeOK' /\ Keeps(h, p) /\ tasks'[t] = v /\ stored'[t] = v
      /\ h \notin replaying' /\ (p # "done" => lock' = lock)
  BY <1>1, <1>3, ReturnKeeps DEF Settle
<1>5. v.status = "awaiting_approval" => ~granted[t]
  <2>1. thread[t].next = "approval_gate" => "approval_gate" \notin thread[t].done
    BY <1>2 DEF ThreadOK, Agents
  <2>2. QED
    BY <1>1, <1>2, <2>1, DriverLocal DEF Settled, ThreadOK
<1>6. Leaves(h, p)
  BY <1>1, <1>2, <1>3, <1>4, <1>5, DriverFacts, DriverLocal, Identities
     DEF Leaves, Settle, Outside
<1>7. QED
  BY <1>1, <1>4, <1>6, DriverOwns, HandlerStep

\* _fail preserves the invariant wherever in the stream it cuts the handler off.
LEMMA FailInv ==
    ASSUME IInv, NEW h \in Handlers, NEW why \in {"timeout", "failed"},
           Active(h), pc[h] \in Driving, Fail(h, why)
    PROVE  IInv'
<1> DEFINE t == TaskOf(h)
           v == [tasks[t] EXCEPT !.status = "needs_human", !.reason = why]
           p == IF h \in replaying THEN "resume" ELSE "done"
<1>1. /\ t \in Tasks /\ tasks[t] \in Values /\ thread[t] \in Values
      /\ ThreadOK(thread[t], req[t], granted[t])
  BY DriverFacts
<1>2. v \in Values /\ v.status = "needs_human"
  <2>1. [tasks[t] EXCEPT !.status = "needs_human"] \in Values
    BY <1>1, Update DEF Statuses, Terminal
  <2>2. v \in Values
    BY <2>1, Update
  <2>3. v.status = "needs_human"
    BY <1>1 DEF Values
  <2>4. QED
    BY <2>2, <2>3
<1>3. /\ TypeOK' /\ Keeps(h, p) /\ tasks'[t] = v /\ stored'[t] = v
      /\ h \notin replaying' /\ (p # "done" => lock' = lock)
  BY <1>2, ReturnKeeps DEF Fail
<1>4. Leaves(h, p)
  BY <1>1, <1>2, <1>3, DriverFacts, DriverLocal, Identities DEF Leaves, Fail, Outside
<1>5. QED
  BY <1>3, <1>4, DriverOwns, HandlerStep

\* A timeout and a worker's exception preserve the invariant.
LEMMA StopInv ==
    ASSUME IInv, NEW h \in Handlers, Timeout(h) \/ NodeFails(h)
    PROVE  IInv'
<1>1. pc[h] \in Driving /\ Active(h) /\ (Fail(h, "timeout") \/ Fail(h, "failed"))
  BY DEF Timeout, NodeFails, Active, Driving
<1>2. QED
  BY <1>1, FailInv

-----------------------------------------------------------------------------
(* The steps of a decide call up to the stream.                            *)

\* The resume of a thread preserves the invariant.
LEMMA StartResumeInv ==
    ASSUME IInv, NEW c \in Calls, StartResume(c)
    PROVE  IInv'
<1> DEFINE t == TaskOf(c)
           p == IF thread[t].next = "end" THEN "settle" ELSE "stream"
<1>1. c \in Handlers /\ t = on[c] /\ Active(c) /\ pc[c] = "resume"
  BY Identities DEF StartResume, Active, Handlers, TaskOf
<1>2. /\ t \in Tasks /\ thread[t] \in Values /\ said[c] \in Decisions
      /\ ThreadOK(thread[t], req[t], granted[t])
      /\ thread[t].status # "awaiting_approval"
  BY <1>1, DriverFacts DEF ThreadOK, IInv, LockInv
<1>3. TypeOK'
  BY <1>1, <1>2 DEF IInv, TypeOK, StartResume, Save, SaveAs, Coalesce, Sources, Outside, PCs
<1>4. Keeps(c, p)
  BY <1>1, <1>2 DEF IInv, TypeOK, Keeps, StartResume, Save, SaveAs, Outside
<1>5. /\ tasks'[t] = thread[t] /\ stored'[t] = thread[t]
      /\ UNCHANGED <<thread, lock, replaying, Outside>>
  BY <1>1, <1>2 DEF IInv, TypeOK, StartResume, Save, SaveAs
<1>6. c \notin replaying
  BY <1>1 DEF IInv, LockInv, Driving
<1>7. Leaves(c, p)
  BY <1>1, <1>2, <1>5, <1>6, DriverFacts, DriverLocal, Identities
     DEF Leaves, Driving, Outside
<1>8. QED
  BY <1>1, <1>3, <1>4, <1>7, DriverOwns, HandlerStep DEF Driving

\* Under the lock nobody drives a task that awaits approval: its create_task
\* call is over and another decide call would hold the lock.
LEMMA WaiterOwns ==
    ASSUME IInv, NEW c \in Calls, pc[c] = "lock", HasLock(c),
           tasks[on[c]].status = "awaiting_approval"
    PROVE  /\ c \in Handlers /\ TaskOf(c) = on[c] /\ Owns(c)
           /\ tasks[on[c]] \in Values /\ req[on[c]] \in RequestType
           /\ ~granted[on[c]] /\ attempts[on[c]] = 0 /\ landed[on[c]] = 0
           /\ writing[on[c]] = 0 /\ stored[on[c]] = tasks[on[c]]
           /\ c \notin replaying
<1> DEFINE t == on[c]
<1>1. /\ c \in Handlers /\ TaskOf(c) = t /\ c \notin Tasks
      /\ t \in Tasks /\ said[c] \in Decisions /\ tasks[t] # None
      /\ c \notin replaying
  BY Identities DEF IInv, LockInv, Handlers, TaskOf, Driving
<1>2. pc[t] = "done" /\ ~granted[t]
  BY <1>1 DEF IInv, GrantInv
<1>3. \A g \in Handlers \ {c} : Active(g) => TaskOf(g) # t
  <2> SUFFICES ASSUME NEW g \in Handlers, Active(g), TaskOf(g) = t
               PROVE  FALSE
    OBVIOUS
  <2>1. g \in Calls
    BY <1>2, DriverFacts DEF Active, Driving
  <2>2. lock[t] = g
    BY <2>1, DriverFacts
  <2>3. QED
    BY <2>1, <2>2, Identities DEF HasLock
<1>4. attempts[t] = 0 /\ landed[t] = 0 /\ writing[t] = 0
  BY <1>1, <1>2, NoWriteYet
<1>5. QED
  BY <1>1, <1>2, <1>3, <1>4 DEF Owns, IInv, TypeOK, CreateInv

\* A decide call that finds its checkpoint preserves the invariant.
LEMMA AcceptInv ==
    ASSUME IInv, NEW c \in Calls, Accept(c)
    PROVE  IInv'
<1> DEFINE t == on[c]
<1>1. /\ c \in Handlers /\ TaskOf(c) = t /\ Owns(c) /\ t \in Tasks
      /\ ~granted[t] /\ attempts[t] = 0 /\ landed[t] = 0 /\ writing[t] = 0
      /\ tasks[t] # None /\ stored[t] = tasks[t] /\ c \notin replaying
  BY WaiterOwns DEF Accept, Owns
<1>2. TypeOK'
  BY <1>1 DEF IInv, TypeOK, Accept, Sources, Outside, PCs
<1>3. Keeps(c, "resume")
  BY <1>1 DEF IInv, TypeOK, Keeps, Accept, Outside
<1>4. lock'[t] = c /\ UNCHANGED <<tasks, stored, thread, resume, replaying, Outside>>
  BY <1>1 DEF IInv, TypeOK, Accept
<1>5. ThreadOK(thread[t], req[t], granted[t]) /\ thread[t] # None
  BY <1>1 DEF Accept, IInv, ThreadInv
<1>6. Leaves(c, "resume")
  BY <1>1, <1>4, <1>5 DEF Leaves, Outside
<1>7. QED
  BY <1>1, <1>2, <1>3, <1>6, HandlerStep

\* The replay of a task whose checkpoint is lost preserves the invariant: it is
\* started only for a task that was not approved yet.
LEMMA AcceptAndReplayInv ==
    ASSUME IInv, NEW c \in Calls, AcceptAndReplay(c)
    PROVE  IInv'
<1> DEFINE t == on[c]
<1>1. /\ c \in Handlers /\ TaskOf(c) = t /\ Owns(c) /\ t \in Tasks
      /\ ~granted[t] /\ attempts[t] = 0 /\ landed[t] = 0 /\ writing[t] = 0
  BY WaiterOwns DEF AcceptAndReplay, Owns
<1>2. TypeOK'
  BY <1>1, FreshType
     DEF IInv, TypeOK, AcceptAndReplay, Save, SaveAs, Coalesce, Sources, Outside, PCs
<1>3. Keeps(c, "stream")
  BY <1>1 DEF IInv, TypeOK, Keeps, AcceptAndReplay, Save, SaveAs, Outside
<1>4. /\ tasks'[t] = Fresh /\ stored'[t] = Fresh /\ thread'[t] = Fresh
      /\ lock'[t] = c /\ UNCHANGED <<resume, Outside>>
  BY <1>1 DEF IInv, TypeOK, AcceptAndReplay, Save, SaveAs
<1>5. /\ Fresh # None /\ Fresh.status = "running" /\ Fresh.next = "intake_agent"
      /\ ThreadOK(Fresh, req[t], granted[t])
  <2>1. Fresh # None /\ Fresh.status = "running" /\ Fresh.next = "intake_agent"
    BY FreshType, Identities DEF Fresh
  <2>2. granted[t] \in BOOLEAN
    BY <1>1 DEF IInv, TypeOK
  <2>3. QED
    BY <2>1, <2>2, FreshOK
<1>6. resume[t] = None
  BY <1>1 DEF AcceptAndReplay, IInv, CreateInv
<1>7. Leaves(c, "stream")
  BY <1>1, <1>4, <1>5, <1>6 DEF Leaves, Driving, Outside
<1>8. QED
  BY <1>1, <1>2, <1>3, <1>7, HandlerStep DEF Driving

-----------------------------------------------------------------------------
(* The other steps.                                                        *)

\* A new task preserves the invariant.
LEMMA CreateTaskInv ==
    ASSUME IInv, NEW t \in Tasks, NEW r \in Requests, NEW u \in Users \cup {NoUser},
           CreateTask(t, r, u)
    PROVE  IInv'
<1>1. /\ t \in Handlers /\ t \notin Calls /\ pc[t] = "idle" /\ r \in RequestType
      /\ tasks[t] = None /\ ~granted[t] /\ thread[t] = None /\ resume[t] = None
      /\ attempts[t] = 0 /\ landed[t] = 0 /\ writing[t] = 0
  BY Identities, Domains, NoWriteYet DEF CreateTask, IInv, CreateInv, Handlers
<1>2. TypeOK'
  BY <1>1, FreshType
     DEF IInv, TypeOK, CreateTask, SaveAs, Coalesce, Outside, PCs
<1>3. /\ Fresh # None /\ r # None /\ Fresh.status = "running"
      /\ Fresh.next = "intake_agent" /\ ThreadOK(Fresh, r, granted[t])
  <2>1. Fresh # None /\ r # None /\ Fresh.status = "running" /\ Fresh.next = "intake_agent"
    BY <1>1, FreshType, Identities DEF Fresh
  <2>2. granted[t] \in BOOLEAN
    BY DEF IInv, TypeOK
  <2>3. QED
    BY <2>1, <2>2, FreshOK
<1>4. /\ tasks' = [tasks EXCEPT ![t] = Fresh] /\ stored' = [stored EXCEPT ![t] = Fresh]
      /\ thread' = [thread EXCEPT ![t] = Fresh] /\ req' = [req EXCEPT ![t] = r]
      /\ pc' = [pc EXCEPT ![t] = "stream"]
      /\ UNCHANGED <<resume, lock, on, said, replaying, Outside>>
  BY DEF CreateTask, SaveAs
<1>5. CreateInv'
  BY <1>1, <1>3, <1>4, Identities DEF IInv, CreateInv, TypeOK, Outside, Handlers
<1>6. \A c \in Calls : Active(c) => on[c] \in Tasks \ {t}
  BY <1>1, Identities DEF IInv, LockInv, Active, Driving
<1>7. \A h \in Handlers \ {t} :
          /\ Active(h)' <=> Active(h)
          /\ Active(h) => TaskOf(h) \in Tasks \ {t}
          /\ TaskOf(h)' = TaskOf(h) /\ pc'[h] = pc[h]
  BY <1>1, <1>4, <1>6 DEF Active, TaskOf, Handlers, IInv, TypeOK
<1>8. LockInv'
  <2> SUFFICES ASSUME NEW c \in Calls
      PROVE  /\ pc'[c] \notin {"idle", "done"} =>
                   on'[c] \in Tasks /\ said'[c] \in Decisions /\ tasks'[on'[c]] # None
             /\ Active(c)' => lock'[on'[c]] = c /\ pc'[on'[c]] = "done"
             /\ c \in replaying' => pc'[c] \in Driving
    BY DEF LockInv
  <2>1. c \in Handlers \ {t}
    BY <1>1 DEF Handlers
  <2>2. QED
    BY <1>1, <1>3, <1>4, <1>6, <1>7, <2>1 DEF IInv, LockInv, TypeOK, Handlers
<1>9. ThreadInv'
  BY <1>3, <1>4 DEF IInv, ThreadInv, TypeOK, Outside
<1>10. TaskOf(t)' = t /\ pc'[t] = "stream"
  BY <1>1, <1>4 DEF TaskOf, IInv, TypeOK
<1>11. GrantInv'
  <2>1. \A w \in Tasks : tasks'[w] # None /\ tasks'[w].status = "awaiting_approval" =>
              pc'[w] = "done" /\ ~granted'[w]
    BY <1>1, <1>3, <1>4 DEF IInv, GrantInv, TypeOK, Outside
  <2>2. ASSUME NEW h \in Handlers, Active(h)'
        PROVE  Driver(h)'
    <3>1. CASE h = t
      BY <1>1, <1>3, <1>4, <1>10, <3>1 DEF Driver, IInv, TypeOK, Outside
    <3>2. CASE h # t
      BY <1>4, <1>7, <2>2, <3>2 DEF IInv, GrantInv, Driver, TypeOK, Outside
    <3>3. QED
      BY <3>1, <3>2
  <2>3. QED
    BY <2>1, <2>2 DEF GrantInv
<1>12. WriteInv'
  <2>1. \A w \in Tasks :
          /\ attempts'[w] <= 1 /\ landed'[w] + writing'[w] <= attempts'[w]
          /\ attempts'[w] > 0 => granted'[w] /\ WillWrite(req'[w])
    BY <1>1, <1>4 DEF IInv, WriteInv, TypeOK, Outside
  <2>2. ASSUME NEW h \in Handlers, Active(h)'
        PROVE  Writer(h)'
    <3>1. CASE h = t
      BY <1>1, <1>4, <1>10, <3>1 DEF Writer, IInv, TypeOK, Outside
    <3>2. CASE h # t
      BY <1>4, <1>7, <2>2, <3>2 DEF IInv, WriteInv, Writer, TypeOK, Outside, AtRealWrite
    <3>3. QED
      BY <3>1, <3>2
  <2>3. QED
    BY <2>1, <2>2 DEF WriteInv
<1>13. QED
  BY <1>2, <1>5, <1>8, <1>9, <1>11, <1>12 DEF IInv

\* A decide call that begins or ends without the lock disturbs nothing.
LEMMA BystanderInv ==
    ASSUME IInv, TypeOK', NEW c \in Calls, ~Active(c), pc'[c] \in {"lock", "done"},
           \A h \in Handlers \ {c} : pc'[h] = pc[h],
           \A b \in Calls \ {c} : on'[b] = on[b] /\ said'[b] = said[b],
           pc'[c] = "lock" => on'[c] \in Tasks /\ said'[c] \in Decisions
                              /\ tasks[on'[c]] # None,
           UNCHANGED <<req, tasks, stored, thread, resume, lock, replaying, Outside>>
    PROVE  IInv'
<1>1. /\ c \in Handlers /\ c \notin Tasks /\ ~Active(c)'
      /\ \A h \in Handlers \ {c} : /\ Active(h)' <=> Active(h)
                                   /\ TaskOf(h)' = TaskOf(h)
      /\ c \notin replaying
  BY Identities DEF Active, Driving, Handlers, TaskOf, IInv, LockInv
<1>2. \A t \in Tasks : pc'[t] = pc[t]
  BY <1>1 DEF Handlers
<1>3. CreateInv'
  BY <1>2 DEF IInv, CreateInv, Outside
<1>4. LockInv'
  <2> SUFFICES ASSUME NEW b \in Calls
      PROVE  /\ pc'[b] \notin {"idle", "done"} =>
                   on'[b] \in Tasks /\ said'[b] \in Decisions /\ tasks'[on'[b]] # None
             /\ Active(b)' => lock'[on'[b]] = b /\ pc'[on'[b]] = "done"
             /\ b \in replaying' => pc'[b] \in Driving
    BY DEF LockInv
  <2>1. CASE b = c
    BY <1>1, <2>1
  <2>2. CASE b # c
    <3>1. b \in Handlers
      BY DEF Handlers
    <3>2. /\ pc[b] \notin {"idle", "done"} =>
                on[b] \in Tasks /\ said[b] \in Decisions /\ tasks[on[b]] # None
          /\ Active(b) => lock[on[b]] = b /\ pc[on[b]] = "done" /\ on[b] \in Tasks
          /\ b \in replaying => pc[b] \in Driving
      BY DEF IInv, LockInv, Active, Driving
    <3>3. QED
      BY <1>1, <1>2, <2>2, <3>1, <3>2
  <2>3. QED
    BY <2>1, <2>2
<1>5. ThreadInv'
  BY DEF IInv, ThreadInv, Outside
<1>6. GrantInv'
  BY <1>1, <1>2 DEF IInv, GrantInv, Driver, Outside
<1>7. WriteInv'
  BY <1>1 DEF IInv, WriteInv, Writer, AtRealWrite, Outside
<1>8. QED
  BY <1>3, <1>4, <1>5, <1>6, <1>7 DEF IInv

\* The arrival of a decide call preserves the invariant.
LEMMA ArriveInv ==
    ASSUME IInv, NEW c \in Calls, NEW t \in Tasks, NEW d \in Decisions, NEW u \in Users,
           Arrive(c, t, d, u)
    PROVE  IInv'
<1>1. TypeOK'
  BY DEF IInv, TypeOK, Arrive, Outside, PCs
<1>2. ~Active(c) /\ pc'[c] \in {"lock", "done"} /\ on'[c] = t /\ said'[c] = d
  BY DEF IInv, TypeOK, Arrive, Active, Driving, Handlers
<1>3. \A h \in Handlers \ {c} : pc'[h] = pc[h]
  BY DEF IInv, TypeOK, Arrive
<1>4. \A b \in Calls \ {c} : on'[b] = on[b] /\ said'[b] = said[b]
  BY DEF IInv, TypeOK, Arrive
<1>5. tasks[t] # None
      /\ UNCHANGED <<req, tasks, stored, thread, resume, lock, replaying, Outside>>
  BY DEF Arrive
<1>6. QED
  BY <1>1, <1>2, <1>3, <1>4, <1>5, BystanderInv

\* A decide call that comes too late preserves the invariant.
LEMMA RefuseInv ==
    ASSUME IInv, NEW c \in Calls, Refuse(c)
    PROVE  IInv'
<1>1. TypeOK'
  BY DEF IInv, TypeOK, Refuse, Sources, Outside, PCs
<1>2. ~Active(c) /\ pc'[c] = "done"
  BY DEF IInv, TypeOK, Refuse, Active, Driving, Handlers
<1>3. \A h \in Handlers \ {c} : pc'[h] = pc[h]
  BY DEF IInv, TypeOK, Refuse
<1>4. /\ on' = on /\ said' = said
      /\ UNCHANGED <<req, tasks, stored, thread, resume, lock, replaying, Outside>>
  BY DEF Refuse, Sources
<1>5. QED
  BY <1>1, <1>2, <1>3, <1>4, BystanderInv

\* The end of a write nobody awaits preserves the invariant, and the write is
\* the task's first.
LEMMA OrphanWriteInv ==
    ASSUME IInv, NEW t \in Tasks, NEW effect \in BOOLEAN, OrphanWrite(t, effect)
    PROVE  IInv' /\ attempts[t] = 1 /\ landed[t] = 0
<1>1. attempts[t] \in Nat /\ landed[t] \in Nat /\ writing[t] \in Nat /\ writing[t] > 0
  BY DEF IInv, TypeOK, OrphanWrite
<1>2. attempts[t] <= 1 /\ landed[t] + writing[t] <= attempts[t]
  BY DEF IInv, WriteInv
<1>3. attempts[t] = 1 /\ landed[t] = 0 /\ writing[t] = 1
  BY <1>1, <1>2
<1>4. TypeOK'
  BY <1>3 DEF IInv, TypeOK, OrphanWrite, Sources
<1>5. /\ UNCHANGED <<req, tasks, stored, thread, resume, lock, pc, on, said,
                     replaying, attempts, granted>>
      /\ \A u \in Tasks \ {t} : writing'[u] = writing[u] /\ landed'[u] = landed[u]
      /\ landed'[t] + writing'[t] <= 1
      /\ \A h \in Handlers : pc[h] = "write" => TaskOf(h) # t
  BY <1>3 DEF OrphanWrite, Sources, IInv, TypeOK
<1>6. CreateInv' /\ LockInv' /\ ThreadInv'
  BY <1>5 DEF IInv, CreateInv, LockInv, ThreadInv, Active
<1>7. GrantInv'
  BY <1>5 DEF IInv, GrantInv, Driver, Active, TaskOf
<1>8. WriteInv'
  <2>1. \A u \in Tasks :
          /\ attempts'[u] <= 1 /\ landed'[u] + writing'[u] <= attempts'[u]
          /\ attempts'[u] > 0 => granted'[u] /\ WillWrite(req'[u])
    BY <1>3, <1>5 DEF IInv, WriteInv
  <2>2. ASSUME NEW h \in Handlers, Active(h)'
        PROVE  Writer(h)'
    <3>1. Active(h) /\ Writer(h) /\ TaskOf(h) \in Tasks
      BY <1>5, <2>2, DriverFacts DEF IInv, WriteInv, Active
    <3>2. QED
      BY <1>5, <3>1 DEF Writer, AtRealWrite, TaskOf
  <2>3. QED
    BY <2>1, <2>2 DEF WriteInv
<1>9. QED
  BY <1>3, <1>4, <1>6, <1>7, <1>8 DEF IInv

\* After a restart no handler is left, and what awaited approval still does.
LEMMA RestartInv ==
    ASSUME IInv, NEW S \in SUBSET Tasks, Restart(S)
    PROVE  IInv'
<1>1. \A t \in Tasks : /\ attempts[t] \in Nat /\ landed[t] \in Nat /\ writing[t] \in Nat
                       /\ landed'[t] \in Nat /\ landed'[t] <= landed[t] + writing[t]
                       /\ writing'[t] = 0
  BY DEF IInv, TypeOK, Restart
<1>2. TypeOK'
  BY <1>1 DEF IInv, TypeOK, Restart, PCs
<1>3. /\ \A h \in Handlers : ~Active(h)' /\ pc'[h] \in {"idle", "done"}
                             /\ (pc'[h] = "idle" <=> pc[h] = "idle")
      /\ UNCHANGED <<req, stored, on, said, attempts, granted>>
      /\ tasks' = stored /\ replaying' = {}
      /\ \A t \in Tasks : thread'[t] = None /\ resume'[t] = None
  BY DEF Restart, Active, Driving
<1>4. \A t \in Tasks : tasks'[t] = tasks[t]
  BY <1>3 DEF IInv, CreateInv
<1>5. \A t \in Tasks : t \in Handlers
  BY DEF Handlers
<1>6. CreateInv'
  BY <1>3, <1>4, <1>5 DEF IInv, CreateInv
<1>7. LockInv'
  BY <1>3 DEF LockInv, Handlers
<1>8. ThreadInv'
  BY <1>3 DEF ThreadInv
<1>9. GrantInv'
  BY <1>3, <1>4, <1>5 DEF IInv, GrantInv
<1>10. WriteInv'
  BY <1>1, <1>3 DEF IInv, WriteInv
<1>11. QED
  BY <1>2, <1>6, <1>7, <1>8, <1>9, <1>10 DEF IInv

\* A change of the enabled agents preserves the invariant, in the middle of
\* runs too.
LEMMA SetEnabledInv ==
    ASSUME IInv, NEW E \in EnabledChoices, SetEnabled(E)
    PROVE  IInv'
<1>1. TypeOK'
  BY Domains DEF IInv, TypeOK, SetEnabled, Outside
<1>2. QED
  BY <1>1 DEF SetEnabled, Outside, IInv, CreateInv, LockInv, ThreadInv, GrantInv, Driver,
              WriteInv, Writer, AtRealWrite, Active, TaskOf

\* A step that changes nothing preserves the invariant.
LEMMA StutterInv ==
    ASSUME IInv, UNCHANGED vars
    PROVE  IInv'
  BY DEF vars, IInv, TypeOK, CreateInv, LockInv, ThreadInv, GrantInv, Driver,
         WriteInv, Writer, AtRealWrite, Active, TaskOf

-----------------------------------------------------------------------------
(* The theorems.                                                           *)

\* The invariant holds in the initial states.
LEMMA InitInv == Init => IInv
<1> SUFFICES ASSUME Init PROVE IInv
  OBVIOUS
<1>1. TypeOK
  BY Domains DEF Init, TypeOK, PCs
<1>2. \A h \in Handlers : pc[h] = "idle" /\ ~Active(h)
  BY DEF Init, Active, Driving
<1>3. CreateInv /\ LockInv
  BY <1>2 DEF Init, CreateInv, LockInv, Handlers
<1>4. ThreadInv /\ GrantInv /\ WriteInv
  BY <1>2 DEF Init, ThreadInv, GrantInv, WriteInv
<1>5. QED
  BY <1>1, <1>3, <1>4 DEF IInv

\* Every disjunct of Next keeps the inductive invariant.
LEMMA NextInv == IInv /\ [Next]_vars => IInv'
<1> SUFFICES ASSUME IInv, [Next]_vars PROVE IInv'
  OBVIOUS
<1>1. ASSUME NEW t \in Tasks, NEW r \in Requests, NEW u \in Users \cup {NoUser},
             CreateTask(t, r, u)
      PROVE  IInv'
  BY <1>1, CreateTaskInv
<1>2. ASSUME NEW c \in Calls, NEW t \in Tasks, NEW d \in Decisions, NEW u \in Users,
             Arrive(c, t, d, u)
      PROVE  IInv'
  BY <1>2, ArriveInv
<1>3. ASSUME NEW c \in Calls, Answer(c)
      PROVE  IInv'
  BY <1>3, RefuseInv, AcceptInv, AcceptAndReplayInv, StartResumeInv DEF Answer
<1>4. ASSUME NEW h \in Handlers, Drive(h)
      PROVE  IInv'
  BY <1>4, SuperstepInv, InterruptInv, PassGateInv, BeginWriteInv, EndWriteInv,
     SettleInv DEF Drive
<1>5. ASSUME NEW h \in Handlers, Timeout(h) \/ NodeFails(h)
      PROVE  IInv'
  BY <1>5, StopInv
<1>6. ASSUME NEW t \in Tasks, NEW effect \in BOOLEAN, OrphanWrite(t, effect)
      PROVE  IInv'
  BY <1>6, OrphanWriteInv
<1>7. ASSUME NEW E \in EnabledChoices, SetEnabled(E)
      PROVE  IInv'
  BY <1>7, SetEnabledInv
<1>8. ASSUME NEW S \in SUBSET Tasks, Restart(S)
      PROVE  IInv'
  BY <1>8, RestartInv
<1>9. CASE UNCHANGED vars
  BY <1>9, StutterInv
<1>10. QED
  BY <1>1, <1>2, <1>3, <1>4, <1>5, <1>6, <1>7, <1>8, <1>9 DEF Next

\* The inductive invariant holds in every reachable state.
THEOREM Inductive == Spec => []IInv
<1>1. Init => IInv
  BY InitInv
<1>2. IInv /\ [Next]_vars => IInv'
  BY NextInv
<1>3. QED
  BY <1>1, <1>2, PTL DEF Spec

\* The state is well-formed: in particular the node a handler runs exists.
THEOREM TypeCorrect == Spec => []TypeOK
<1>1. IInv => TypeOK
  BY DEF IInv
<1>2. QED
  BY <1>1, Inductive, PTL

\* Two handlers never drive the same thread.
THEOREM OneDriverHolds == Spec => []OneDriver
BY Alone, Inductive, PTL

\* A task's real write is started and takes effect once at most.
THEOREM AtMostOneWriteHolds == Spec => []AtMostOneWrite
<1>1. IInv => AtMostOneWrite
  BY DEF IInv, WriteInv, AtMostOneWrite
<1>2. QED
  BY <1>1, Inductive, PTL

\* No real write is started without an approval.
THEOREM WriteNeedsApprovalHolds == Spec => []WriteNeedsApproval
<1>1. IInv => WriteNeedsApproval
  BY DEF IInv, WriteInv, WriteNeedsApproval
<1>2. QED
  BY <1>1, Inductive, PTL

\* A restart shows every task as it was shown before.
THEOREM RestartLosesNothingHolds == Spec => RestartLosesNothing
<1>1. ASSUME IInv, [Next]_vars, restarts' # restarts
      PROVE  tasks' = tasks
  <2>1. \E S \in SUBSET Tasks : Restart(S)
    BY <1>1, Zenon DEF Next, vars, CreateTask, Arrive, Answer, Refuse, Accept, AcceptAndReplay,
       StartResume, Drive, Superstep, Interrupt, PassGate, Commit, BeginWrite, EndWrite,
       Settle, Timeout, NodeFails, Fail, OrphanWrite, SetEnabled, Sources
  <2>2. tasks' = stored
    BY <2>1 DEF Restart
  <2>3. \A t \in Tasks : stored[t] = tasks[t]
    BY <1>1 DEF IInv, CreateInv
  <2>4. QED
    BY <1>1, <2>2, <2>3 DEF IInv, TypeOK
<1>2. QED
  BY <1>1, Inductive, PTL DEF Spec, RestartLosesNothing

-----------------------------------------------------------------------------
(* Ownership.  An update carries no owner, so the owner stored by the      *)
(* insert survives; a task that does not exist yet has no creator.         *)

OwnerInv ==
    \A t \in Tasks :
        /\ owners[t] = creator[t] /\ storedOwners[t] = creator[t]
        /\ tasks[t] = None => creator[t] = NoUser

\* Nobody owns a task that does not exist.
LEMMA OwnerInit == Init => OwnerInv
  BY DEF Init, OwnerInv

\* Saving without an owner changes no stored owner.
LEMMA SaveKeepsOwner ==
    ASSUME TypeOK, NEW t \in Tasks, NEW v, Save(t, v)
    PROVE  storedOwners' = storedOwners
  BY DEF TypeOK, Save, SaveAs, Coalesce

\* No step takes a task away from its creator, neither in memory nor in the
\* store.
LEMMA OwnerNext == IInv /\ IInv' /\ OwnerInv /\ [Next]_vars => OwnerInv'
<1> SUFFICES ASSUME IInv, IInv', OwnerInv, [Next]_vars PROVE OwnerInv'
  OBVIOUS
<1>1. ASSUME storedOwners' = storedOwners, owners' \in {owners, storedOwners},
             UNCHANGED <<req, creator>>
      PROVE  OwnerInv'
  BY <1>1 DEF OwnerInv, IInv, CreateInv
<1>2. ASSUME NEW t \in Tasks, NEW r \in Requests, NEW u \in Users \cup {NoUser},
             CreateTask(t, r, u)
      PROVE  OwnerInv'
  <2>1. tasks[t] = None /\ creator[t] = NoUser /\ storedOwners[t] = NoUser
    BY <1>2 DEF CreateTask, IInv, CreateInv, OwnerInv
  <2>2. /\ owners' = [owners EXCEPT ![t] = u] /\ creator' = [creator EXCEPT ![t] = u]
        /\ storedOwners' = [storedOwners EXCEPT ![t] = u]
    BY <1>2, <2>1 DEF CreateTask, SaveAs, Coalesce, IInv, TypeOK
  <2>3. \A w \in Tasks \ {t} : tasks'[w] = tasks[w]
    BY <1>2 DEF CreateTask, SaveAs, IInv, TypeOK
  <2>4. tasks'[t] # None
    BY <1>2, FreshType, Identities DEF CreateTask, SaveAs, IInv, TypeOK
  <2>5. QED
    BY <2>2, <2>3, <2>4 DEF OwnerInv, IInv, TypeOK
<1>3. ASSUME NEW c \in Calls, NEW t \in Tasks, NEW d \in Decisions, NEW u \in Users,
             Arrive(c, t, d, u)
      PROVE  OwnerInv'
  BY <1>1, <1>3 DEF Arrive
<1>4. ASSUME NEW c \in Calls, Answer(c)
      PROVE  OwnerInv'
  <2>1. on[c] \in Tasks
    BY <1>4 DEF Answer, Refuse, Accept, AcceptAndReplay, StartResume, IInv, LockInv
  <2>2. storedOwners' = storedOwners /\ UNCHANGED Sources
    BY <1>4, <2>1, SaveKeepsOwner
       DEF IInv, Answer, Refuse, Accept, AcceptAndReplay, StartResume
  <2>3. QED
    BY <1>1, <2>2 DEF Sources
<1>5. ASSUME NEW h \in Handlers, Drive(h) \/ Timeout(h) \/ NodeFails(h)
      PROVE  OwnerInv'
  <2>1. TaskOf(h) \in Tasks
    BY <1>5, DriverFacts DEF Drive, Superstep, Interrupt, PassGate, BeginWrite, EndWrite,
       Settle, Timeout, NodeFails, Active, Driving
  <2>2. storedOwners' = storedOwners /\ UNCHANGED Sources
    BY <1>5, <2>1, SaveKeepsOwner
       DEF IInv, Drive, Superstep, Interrupt, PassGate, Commit, BeginWrite, EndWrite,
           Settle, Timeout, NodeFails, Fail
  <2>3. QED
    BY <1>1, <2>2 DEF Sources
<1>6. ASSUME NEW t \in Tasks, NEW effect \in BOOLEAN, OrphanWrite(t, effect)
      PROVE  OwnerInv'
  BY <1>1, <1>6 DEF OrphanWrite, Sources
<1>7. ASSUME NEW E \in EnabledChoices, SetEnabled(E)
      PROVE  OwnerInv'
  BY <1>1, <1>7 DEF SetEnabled
<1>8. ASSUME NEW S \in SUBSET Tasks, Restart(S)
      PROVE  OwnerInv'
  BY <1>1, <1>8 DEF Restart
<1>9. CASE UNCHANGED vars
  BY <1>1, <1>9 DEF vars
<1>10. QED
  BY <1>2, <1>3, <1>4, <1>5, <1>6, <1>7, <1>8, <1>9 DEF Next

\* The creator of a task keeps it, in memory and in the store.
THEOREM OwnerKeptHolds == Spec => []OwnerKept
<1>1. Init => IInv /\ OwnerInv
  BY InitInv, OwnerInit
<1>2. (IInv /\ OwnerInv) /\ [Next]_vars => (IInv /\ OwnerInv)'
  BY NextInv, OwnerNext
<1>3. OwnerInv => OwnerKept
  BY DEF OwnerInv, OwnerKept
<1>4. QED
  BY <1>1, <1>2, <1>3, PTL DEF Spec

-----------------------------------------------------------------------------
(* What a task is shown as, and what has happened outside.                 *)

\* The real writes of each task that were started and have ended: awaited,
\* abandoned or cut by the end of the process.
Ended == [t \in Tasks |-> attempts[t] - writing[t]]

\* The public state v of a task whose thread has the values w.
ShownFits(v, w, r, approved, n) ==
    /\ v.status = "rejected" => ~approved
    /\ v.status = "planned" => r.mode = "plan_only"
    /\ WillWrite(r) /\ v.verdict = "verified" => v.exec = "ok" /\ n = 1
    /\ v.status = "awaiting_approval" =>
          /\ "approval_gate" \in v.plan \ v.done
          /\ v.plan \ v.done \subseteq Guarded
          /\ w # None => w.next = "approval_gate"

Fits(v, w, r, approved, n) ==
    /\ v # None /\ r.mode = "plan_only" => ~approved
    /\ w # None => ThreadFits(w, r, approved, n)
    /\ v # None => ShownFits(v, w, r, approved, n)

ShownInv ==
    \A t \in Tasks : Fits(tasks[t], thread[t], req[t], granted[t], Ended[t])

\* What was written stays written, and is written once.
LEMMA LaterFits ==
    ASSUME NEW v, NEW w, NEW u \in {w, None}, NEW r, NEW ok \in BOOLEAN,
           NEW m \in Nat, NEW n \in Nat, m <= n, n <= 1, Fits(v, w, r, ok, m)
    PROVE  Fits(v, u, r, ok, n)
<1>1. m = 1 => n = 1
  OBVIOUS
<1>2. QED
  BY <1>1 DEF Fits, ShownFits, ThreadFits

\* A thread that is shown as it is.
LEMMA ThreadShown ==
    ASSUME NEW v \in Values, NEW r, NEW ok \in BOOLEAN, NEW n, ThreadFits(v, r, ok, n),
           v.status # "awaiting_approval", r.mode = "plan_only" => ~ok
    PROVE  Fits(v, v, r, ok, n)
  BY DEF Fits, ShownFits, ThreadFits

\* The writes of a task that have ended: one at most, before and after a step.
LEMMA WrittenOnce ==
    ASSUME IInv, NEW t \in Tasks
    PROVE  Ended[t] \in Nat /\ Ended[t] <= 1 /\ granted[t] \in BOOLEAN
<1>1. attempts[t] \in Nat /\ landed[t] \in Nat /\ writing[t] \in Nat /\ granted[t] \in BOOLEAN
  BY DEF IInv, TypeOK
<1>2. attempts[t] <= 1 /\ landed[t] + writing[t] <= attempts[t]
  BY DEF IInv, WriteInv
<1>3. QED
  BY <1>1, <1>2 DEF Ended

\* The same after a step.
LEMMA WrittenOnceNext ==
    ASSUME IInv', NEW t \in Tasks
    PROVE  Ended'[t] \in Nat /\ Ended'[t] <= 1
<1>1. attempts'[t] \in Nat /\ landed'[t] \in Nat /\ writing'[t] \in Nat
  BY DEF IInv, TypeOK
<1>2. attempts'[t] <= 1 /\ landed'[t] + writing'[t] <= attempts'[t]
  BY DEF IInv, WriteInv
<1>3. QED
  BY <1>1, <1>2 DEF Ended

\* A step that shows nothing new of t.
LEMMA QuietFits ==
    ASSUME IInv, IInv', ShownInv, NEW t \in Tasks,
           tasks'[t] = tasks[t], thread'[t] \in {thread[t], None}, req'[t] = req[t],
           granted'[t] = granted[t], Ended[t] <= Ended'[t]
    PROVE  Fits(tasks'[t], thread'[t], req'[t], granted'[t], Ended'[t])
<1>1. /\ Ended[t] \in Nat /\ Ended'[t] \in Nat /\ Ended'[t] <= 1 /\ granted[t] \in BOOLEAN
  BY WrittenOnce, WrittenOnceNext
<1>2. Fits(tasks[t], thread[t], req[t], granted[t], Ended[t])
  BY DEF ShownInv
<1>3. QED
  BY <1>1, <1>2, LaterFits

\* A step that is about one task.
LEMMA OneTaskFits ==
    ASSUME IInv, IInv', ShownInv, NEW t \in Tasks, req' = req,
           \A u \in Tasks \ {t} :
               /\ tasks'[u] = tasks[u] /\ thread'[u] = thread[u]
               /\ granted'[u] = granted[u] /\ Ended'[u] = Ended[u],
           Fits(tasks'[t], thread'[t], req[t], granted'[t], Ended'[t])
    PROVE  ShownInv'
<1>1. ASSUME NEW u \in Tasks \ {t}
      PROVE  Fits(tasks'[u], thread'[u], req'[u], granted'[u], Ended'[u])
  <2>1. Ended[u] \in Nat
    BY WrittenOnce
  <2>2. QED
    BY <1>1, <2>1, QuietFits
<1>2. QED
  BY <1>1 DEF ShownInv

\* A step that shows nothing new of any task.
LEMMA AllQuietFits ==
    ASSUME IInv, IInv', ShownInv, tasks' = tasks, req' = req, granted' = granted,
           \A t \in Tasks : thread'[t] \in {thread[t], None} /\ Ended[t] <= Ended'[t]
    PROVE  ShownInv'
<1>1. ASSUME NEW t \in Tasks
      PROVE  Fits(tasks'[t], thread'[t], req'[t], granted'[t], Ended'[t])
  BY <1>1, QuietFits
<1>2. QED
  BY <1>1 DEF ShownInv

\* What is known of the task of a handler that drives its thread.
LEMMA DriverFits ==
    ASSUME IInv, ShownInv, NEW h \in Handlers, Active(h), NEW t \in Tasks, t = TaskOf(h)
    PROVE  /\ thread[t] \in Values /\ req[t] \in RequestType /\ granted[t] \in BOOLEAN
           /\ tasks[t] \in Values /\ tasks[t] # None
           /\ ThreadOK(thread[t], req[t], granted[t])
           /\ ThreadFits(thread[t], req[t], granted[t], Ended[t])
           /\ Fits(tasks[t], thread[t], req[t], granted[t], Ended[t])
           /\ req[t].mode = "plan_only" => ~granted[t]
           /\ Ended[t] \in Nat
<1>1. /\ thread[t] \in Values /\ thread[t] # None /\ req[t] \in RequestType
      /\ tasks[t] \in Values /\ tasks[t] # None
      /\ ThreadOK(thread[t], req[t], granted[t])
  BY DriverFacts
<1>2. Fits(tasks[t], thread[t], req[t], granted[t], Ended[t])
  BY DEF ShownInv
<1>3. QED
  BY <1>1, <1>2, WrittenOnce DEF Fits

\* A node that neither decides nor writes, and a run that stops at the gate.
LEMMA NodeFits ==
    ASSUME IInv, IInv', ShownInv, NEW h \in Handlers, Superstep(h) \/ Interrupt(h)
    PROVE  ShownInv'
<1>1. Active(h) /\ TaskOf(h) \in Tasks
  BY DriverFacts DEF Superstep, Interrupt, Active, Driving
<1>2. PICK t \in Tasks : t = TaskOf(h)
  BY <1>1
<1>3. /\ thread[t] \in Values /\ req[t] \in RequestType /\ granted[t] \in BOOLEAN
      /\ ThreadOK(thread[t], req[t], granted[t])
      /\ ThreadFits(thread[t], req[t], granted[t], Ended[t])
      /\ req[t].mode = "plan_only" => ~granted[t]
      /\ enabled \in SUBSET Workers
  BY <1>1, <1>2, DriverFits DEF IInv, TypeOK
<1>4. CASE Superstep(h)
  <2> DEFINE v == RunNode(thread[t], req[t], enabled)
  <2>1. thread[t].next \notin {"end", "approval_gate"} /\ ~AtRealWrite(t)
    BY <1>1, <1>2, <1>4, DriverLocal DEF Superstep
  <2>2. v \in Values /\ ThreadOK(v, req[t], granted[t]) /\ ThreadFits(v, req[t], granted[t], Ended[t])
    BY <1>3, <2>1, RunNodeType, RunNodeOK, RunNodeFits DEF AtRealWrite
  <2>3. /\ tasks' = [tasks EXCEPT ![t] = v] /\ thread' = [thread EXCEPT ![t] = v]
        /\ req' = req /\ granted' = granted /\ Ended' = Ended
    BY <1>2, <1>4 DEF Superstep, Commit, Save, SaveAs, Sources, Outside, Ended
  <2>4. Fits(v, v, req[t], granted[t], Ended[t])
    BY <1>3, <2>2, ThreadShown DEF ThreadOK
  <2> HIDE DEF v
  <2>5. QED
    BY <2>3, <2>4, OneTaskFits DEF IInv, TypeOK
<1>5. CASE Interrupt(h)
  <2>1. /\ tasks' = [tasks EXCEPT ![t] = thread[t]] /\ thread' = thread
        /\ req' = req /\ granted' = granted /\ Ended' = Ended
    BY <1>2, <1>5 DEF Interrupt, Save, SaveAs, Sources, Outside, Ended
  <2>2. Fits(thread[t], thread[t], req[t], granted[t], Ended[t])
    BY <1>3, ThreadShown DEF ThreadOK
  <2>3. QED
    BY <2>1, <2>2, OneTaskFits DEF IInv, TypeOK
<1>6. QED
  BY <1>4, <1>5

\* A decision passes the gate of a task nobody has approved yet.
LEMMA PassGateFits ==
    ASSUME IInv, IInv', ShownInv, NEW h \in Handlers, PassGate(h)
    PROVE  ShownInv'
<1>1. Active(h) /\ TaskOf(h) \in Tasks
  BY DriverFacts DEF PassGate, Active, Driving
<1>2. PICK t \in Tasks : t = TaskOf(h)
  BY <1>1
<1>3. /\ thread[t] \in Values /\ req[t] \in RequestType
      /\ ThreadOK(thread[t], req[t], granted[t])
      /\ ThreadFits(thread[t], req[t], granted[t], Ended[t])
  BY <1>1, <1>2, DriverFits
<1>4. thread[t].next = "approval_gate" /\ resume[t] \in Decisions /\ "approval_gate" \in Agents
  BY <1>2 DEF PassGate, IInv, TypeOK, Agents
<1>5. ~granted[t]
  BY <1>1, <1>2, <1>3, <1>4, DriverLocal DEF ThreadOK
<1>6. req[t].mode # "plan_only"
  BY <1>3, <1>4 DEF ThreadFits
<1> DEFINE d == resume[t]
           v == Gate(thread[t], d)
<1>7. /\ tasks' = [tasks EXCEPT ![t] = v] /\ thread' = [thread EXCEPT ![t] = v]
      /\ req' = req /\ Ended' = Ended /\ granted' = [granted EXCEPT ![t] = granted[t] \/ d = "approve"]
  BY <1>2 DEF PassGate, Commit, Save, SaveAs, Sources, Ended
<1>8. ThreadFits(v, req[t], d = "approve", Ended[t])
  <2>1. ThreadFits(thread[t], req[t], FALSE, Ended[t])
    BY <1>3, <1>5 DEF ThreadFits
  <2>2. QED
    BY <1>3, <1>4, <2>1, GateFits
<1>9. v \in Values /\ v.status # "awaiting_approval"
  BY <1>3, <1>4, GateType, GateFields
<1>10. Fits(v, v, req[t], d = "approve", Ended[t])
  BY <1>6, <1>8, <1>9, ThreadShown
<1>11. granted'[t] = (d = "approve")
  BY <1>5, <1>7 DEF IInv, TypeOK
<1> HIDE DEF v, d
<1>12. QED
  BY <1>7, <1>10, <1>11, OneTaskFits DEF IInv, TypeOK

\* A receipt that is ok comes of a write that has ended.
LEMMA EndWriteFits ==
    ASSUME IInv, IInv', ShownInv, NEW h \in Handlers, NEW ok \in BOOLEAN, NEW effect \in BOOLEAN,
           EndWrite(h, ok, effect)
    PROVE  ShownInv'
<1>1. Active(h) /\ TaskOf(h) \in Tasks
  BY DriverFacts DEF EndWrite, Active, Driving
<1>2. PICK t \in Tasks : t = TaskOf(h)
  BY <1>1
<1>3. /\ thread[t] \in Values /\ req[t] \in RequestType /\ granted[t] \in BOOLEAN
      /\ ThreadOK(thread[t], req[t], granted[t])
      /\ Fits(tasks[t], thread[t], req[t], granted[t], Ended[t])
      /\ req[t].mode = "plan_only" => ~granted[t]
      /\ Ended[t] \in Nat
  BY <1>1, <1>2, DriverFits
<1> DEFINE x == IF ok THEN "ok" ELSE "failed"
           v == Execution(thread[t], x)
<1>4. /\ tasks' = [tasks EXCEPT ![t] = v] /\ thread' = [thread EXCEPT ![t] = v]
      /\ req' = req /\ granted' = granted
      /\ attempts' = attempts /\ writing' = [writing EXCEPT ![t] = writing[t] - 1]
  BY <1>2 DEF EndWrite, Commit, Save, SaveAs, Sources
<1>5. /\ Ended'[t] = 1 /\ Ended[t] <= Ended'[t]
      /\ \A u \in Tasks \ {t} : Ended'[u] = Ended[u]
  <2>1. \A u \in Tasks : attempts[u] \in Nat /\ writing[u] \in Nat
    BY DEF IInv, TypeOK
  <2>2. \A u \in Tasks : writing'[u] = IF u = t THEN writing[t] - 1 ELSE writing[u]
    BY <1>4 DEF IInv, TypeOK
  <2>3. Ended'[t] = Ended[t] + 1 /\ \A u \in Tasks \ {t} : Ended'[u] = Ended[u]
    BY <1>2, <1>4, <2>1, <2>2 DEF Ended
  <2>4. QED
    BY <1>3, <2>3, WrittenOnceNext
<1>6. ThreadFits(thread[t], req[t], granted[t], Ended'[t])
  <2>1. thread[t] # None
    BY <1>1, <1>2, DriverFacts
  <2>2. Fits(tasks[t], thread[t], req[t], granted[t], Ended'[t])
    BY <1>3, <1>5, LaterFits
  <2>3. QED
    BY <2>1, <2>2 DEF Fits
<1>7. thread[t].next = "execution_agent"
  BY <1>1, <1>2, DriverLocal DEF EndWrite, AtRealWrite
<1>8. ThreadFits(v, req[t], granted[t], Ended'[t])
  BY <1>3, <1>5, <1>6, <1>7, ExecutionFits
<1>9. v \in Values /\ v.status # "awaiting_approval"
  BY <1>3, ExecutionType, ExecutionFields DEF ThreadOK
<1>10. Fits(v, v, req[t], granted[t], Ended'[t])
  BY <1>3, <1>8, <1>9, ThreadShown
<1> HIDE DEF v
<1>11. QED
  BY <1>4, <1>5, <1>10, OneTaskFits DEF IInv, TypeOK

\* A run that is over shows its thread, which awaits approval at its gate; one
\* that fails shows what it showed, in the hands of a human.
LEMMA EndFits ==
    ASSUME IInv, IInv', ShownInv, NEW h \in Handlers, Settle(h) \/ Timeout(h) \/ NodeFails(h)
    PROVE  ShownInv'
<1>1. Active(h) /\ TaskOf(h) \in Tasks
  BY DriverFacts DEF Settle, Timeout, NodeFails, Active, Driving
<1>2. PICK t \in Tasks : t = TaskOf(h)
  BY <1>1
<1>3. /\ thread[t] \in Values /\ granted[t] \in BOOLEAN /\ tasks[t] \in Values
      /\ ThreadOK(thread[t], req[t], granted[t])
      /\ ThreadFits(thread[t], req[t], granted[t], Ended[t])
      /\ Fits(tasks[t], thread[t], req[t], granted[t], Ended[t])
      /\ req[t].mode = "plan_only" => ~granted[t] /\ tasks[t] # None
  BY <1>1, <1>2, DriverFits
<1>4. CASE Settle(h)
  <2>1. /\ tasks' = [tasks EXCEPT ![t] = Settled(thread[t])] /\ thread' = thread
        /\ req' = req /\ granted' = granted /\ Ended' = Ended
    BY <1>2, <1>4 DEF Settle, Save, SaveAs, Sources, Outside, Ended
  <2>2. thread[t].next \in {"end", "approval_gate"}
    BY <1>1, <1>2, <1>4, DriverLocal DEF Settle
  <2>3. Fits(Settled(thread[t]), thread[t], req[t], granted[t], Ended[t])
    <3>1. CASE thread[t].next = "end"
      BY <1>3, <3>1, ThreadShown DEF Settled, ThreadOK
    <3>2. CASE thread[t].next = "approval_gate"
      <4>1. /\ Settled(thread[t]).status = "awaiting_approval"
            /\ Settled(thread[t]).plan = thread[t].plan /\ Settled(thread[t]).done = thread[t].done
            /\ Settled(thread[t]).verdict = thread[t].verdict
            /\ Settled(thread[t]).exec = thread[t].exec
        BY <1>3, <3>2 DEF Settled, Values
      <4>2. "approval_gate" \in thread[t].plan \ thread[t].done
        BY <1>3, <3>2 DEF ThreadOK, Agents
      <4>3. QED
        BY <1>3, <3>2, <4>1, <4>2 DEF Fits, ShownFits, ThreadFits
    <3>3. QED
      BY <2>2, <3>1, <3>2
  <2>4. QED
    BY <2>1, <2>3, OneTaskFits DEF IInv, TypeOK
<1>5. ASSUME NEW why \in {"timeout", "failed"}, Fail(h, why)
      PROVE  ShownInv'
  <2> DEFINE v == [tasks[t] EXCEPT !.status = "needs_human", !.reason = why]
  <2>1. /\ tasks' = [tasks EXCEPT ![t] = v] /\ thread' = thread
        /\ req' = req /\ granted' = granted /\ Ended' = Ended
    BY <1>2, <1>5 DEF Fail, Save, SaveAs, Sources, Outside, Ended
  <2>2. v.status = "needs_human" /\ v.verdict = tasks[t].verdict /\ v.exec = tasks[t].exec
    BY <1>3 DEF Values
  <2>3. tasks[t] # None
    BY <1>1, <1>2, DriverFacts
  <2>4. Fits(v, thread[t], req[t], granted[t], Ended[t])
    BY <1>3, <2>2, <2>3 DEF Fits, ShownFits
  <2> HIDE DEF v
  <2>5. QED
    BY <2>1, <2>4, OneTaskFits DEF IInv, TypeOK
<1>6. QED
  BY <1>4, <1>5 DEF Timeout, NodeFails

\* Create, replay and resume: a fresh thread, or the one that is there.
LEMMA StartFits ==
    ASSUME IInv, IInv', ShownInv
    PROVE  /\ \A t \in Tasks, r \in Requests, u \in Users \cup {NoUser} : CreateTask(t, r, u) => ShownInv'
           /\ \A c \in Calls : AcceptAndReplay(c) \/ StartResume(c) => ShownInv'
<1>1. ASSUME NEW t \in Tasks, NEW r \in Requests, NEW u \in Users \cup {NoUser}, CreateTask(t, r, u)
      PROVE  ShownInv'
  <2>1. /\ tasks' = [tasks EXCEPT ![t] = Fresh] /\ thread' = [thread EXCEPT ![t] = Fresh]
        /\ req' = [req EXCEPT ![t] = r] /\ granted' = granted /\ Ended' = Ended
    BY <1>1 DEF CreateTask, SaveAs, Outside, Ended
  <2>2. granted[t] = FALSE
    BY <1>1 DEF CreateTask, IInv, CreateInv, TypeOK
  <2>3. Fits(Fresh, Fresh, r, granted[t], Ended[t])
    <3>1. ThreadFits(Fresh, r, FALSE, Ended[t])
      BY FreshFits
    <3>2. Fresh.status # "awaiting_approval"
      BY DEF Fresh
    <3>3. QED
      BY <2>2, <3>1, <3>2, FreshType, ThreadShown
  <2>4. ASSUME NEW w \in Tasks \ {t}
        PROVE  Fits(tasks'[w], thread'[w], req'[w], granted'[w], Ended'[w])
    <3>1. /\ tasks'[w] = tasks[w] /\ thread'[w] = thread[w] /\ req'[w] = req[w]
          /\ granted'[w] = granted[w] /\ Ended[w] <= Ended'[w]
      BY <2>1, WrittenOnce DEF IInv, TypeOK
    <3>2. QED
      BY <3>1, QuietFits
  <2>5. Fits(tasks'[t], thread'[t], req'[t], granted'[t], Ended'[t])
    BY <2>1, <2>3 DEF IInv, TypeOK
  <2>6. QED
    BY <2>4, <2>5 DEF ShownInv
<1>2. ASSUME NEW c \in Calls, AcceptAndReplay(c)
      PROVE  ShownInv'
  <2>1. on[c] \in Tasks
    BY <1>2 DEF AcceptAndReplay, IInv, LockInv
  <2>2. PICK t \in Tasks : t = on[c]
    BY <2>1
  <2>3. /\ tasks' = [tasks EXCEPT ![t] = Fresh] /\ thread' = [thread EXCEPT ![t] = Fresh]
        /\ req' = req /\ granted' = granted /\ Ended' = Ended /\ tasks[t] # None
    BY <1>2, <2>2 DEF AcceptAndReplay, Save, SaveAs, Sources, Outside, IInv, LockInv, Ended
  <2>4. Fits(Fresh, Fresh, req[t], granted[t], Ended[t])
    <3>1. ThreadFits(Fresh, req[t], granted[t], Ended[t]) /\ granted[t] \in BOOLEAN
      BY FreshFits DEF IInv, TypeOK
    <3>2. Fresh.status # "awaiting_approval"
      BY DEF Fresh
    <3>3. req[t].mode = "plan_only" => ~granted[t]
      BY <2>3 DEF ShownInv, Fits
    <3>4. QED
      BY <3>1, <3>2, <3>3, FreshType, ThreadShown
  <2>5. QED
    BY <2>3, <2>4, OneTaskFits DEF IInv, TypeOK
<1>3. ASSUME NEW c \in Calls, StartResume(c)
      PROVE  ShownInv'
  <2>1. c \in Handlers /\ Active(c) /\ TaskOf(c) = on[c] /\ on[c] \in Tasks
    BY <1>3, Identities DEF StartResume, Active, Handlers, TaskOf, IInv, LockInv
  <2>2. PICK t \in Tasks : t = TaskOf(c)
    BY <2>1
  <2>3. /\ thread[t] \in Values /\ granted[t] \in BOOLEAN
        /\ ThreadOK(thread[t], req[t], granted[t])
        /\ ThreadFits(thread[t], req[t], granted[t], Ended[t])
        /\ req[t].mode = "plan_only" => ~granted[t]
    BY <2>1, <2>2, DriverFits
  <2>4. /\ tasks' = [tasks EXCEPT ![t] = thread[t]] /\ thread' = thread
        /\ req' = req /\ granted' = granted /\ Ended' = Ended
    BY <1>3, <2>1, <2>2 DEF StartResume, Save, SaveAs, Sources, Outside, Ended
  <2>5. Fits(thread[t], thread[t], req[t], granted[t], Ended[t])
    BY <2>3, ThreadShown DEF ThreadOK
  <2>6. QED
    BY <2>4, <2>5, OneTaskFits DEF IInv, TypeOK
<1>4. QED
  BY <1>1, <1>2, <1>3

\* The other steps show nothing new; those that write only add to what took
\* effect, and a restart shows what was stored.
LEMMA BystanderFits ==
    ASSUME IInv, IInv', ShownInv
    PROVE  /\ \A c \in Calls, t \in Tasks, d \in Decisions, u \in Users : Arrive(c, t, d, u) => ShownInv'
           /\ \A c \in Calls : Refuse(c) \/ Accept(c) => ShownInv'
           /\ \A h \in Handlers : BeginWrite(h) => ShownInv'
           /\ \A t \in Tasks, effect \in BOOLEAN : OrphanWrite(t, effect) => ShownInv'
           /\ \A agents \in EnabledChoices : SetEnabled(agents) => ShownInv'
           /\ \A effective \in SUBSET Tasks : Restart(effective) => ShownInv'
           /\ UNCHANGED vars => ShownInv'
<1>1. \A t \in Tasks : attempts[t] \in Nat /\ writing[t] \in Nat
  BY DEF IInv, TypeOK
<1>2. ASSUME UNCHANGED <<tasks, thread, req, granted, attempts, writing>>
      PROVE  ShownInv'
  BY <1>2 DEF ShownInv, Ended
<1>3. ASSUME NEW t \in Tasks, NEW effect \in BOOLEAN, OrphanWrite(t, effect)
      PROVE  ShownInv'
  <2>1. /\ tasks' = tasks /\ req' = req /\ granted' = granted /\ thread' = thread
        /\ attempts' = attempts /\ writing' = [writing EXCEPT ![t] = writing[t] - 1]
    BY <1>3 DEF OrphanWrite, Sources
  <2>2. \A u \in Tasks : Ended[u] <= Ended'[u]
    BY <1>1, <2>1 DEF Ended, IInv, TypeOK
  <2>3. QED
    BY <2>1, <2>2, AllQuietFits
<1>4. ASSUME NEW S \in SUBSET Tasks, Restart(S)
      PROVE  ShownInv'
  <2>1. /\ tasks' = stored /\ req' = req /\ granted' = granted
        /\ \A u \in Tasks : thread'[u] = None /\ writing'[u] = 0
        /\ attempts' = attempts
    BY <1>4 DEF Restart
  <2>2. tasks' = tasks
    <3>1. \A u \in Tasks : stored[u] = tasks[u]
      BY DEF IInv, CreateInv
    <3>2. QED
      BY <2>1, <3>1 DEF IInv, TypeOK
  <2>3. \A u \in Tasks : Ended[u] <= Ended'[u]
    BY <1>1, <2>1 DEF Ended
  <2>4. QED
    BY <2>1, <2>2, <2>3, AllQuietFits
<1>5. ASSUME NEW h \in Handlers, BeginWrite(h)
      PROVE  ShownInv'
  <2>1. TaskOf(h) \in Tasks
    BY <1>5, DriverFacts DEF BeginWrite, Active, Driving
  <2>2. PICK t \in Tasks : t = TaskOf(h)
    BY <2>1
  <2>3. /\ tasks' = tasks /\ req' = req /\ granted' = granted /\ thread' = thread
        /\ attempts' = [attempts EXCEPT ![t] = attempts[t] + 1]
        /\ writing' = [writing EXCEPT ![t] = writing[t] + 1]
    BY <1>5, <2>2 DEF BeginWrite, Sources
  <2>4. \A u \in Tasks : Ended[u] <= Ended'[u]
    BY <1>1, <2>3 DEF Ended, IInv, TypeOK
  <2>5. QED
    BY <2>3, <2>4, AllQuietFits
<1>6. QED
  BY <1>2, <1>3, <1>4, <1>5 DEF Arrive, Refuse, Accept, SetEnabled, vars, Sources, Outside

LEMMA ShownNext == IInv /\ IInv' /\ ShownInv /\ [Next]_vars => ShownInv'
<1> SUFFICES ASSUME IInv, IInv', ShownInv, [Next]_vars PROVE ShownInv'
  OBVIOUS
<1>1. ASSUME NEW h \in Handlers, Drive(h) \/ Timeout(h) \/ NodeFails(h)
      PROVE  ShownInv'
  BY <1>1, NodeFits, PassGateFits, EndWriteFits, EndFits, BystanderFits DEF Drive
<1>2. ASSUME NEW c \in Calls, Answer(c)
      PROVE  ShownInv'
  BY <1>2, StartFits, BystanderFits DEF Answer
<1>3. QED
  BY <1>1, <1>2, StartFits, BystanderFits DEF Next

\* What a task is shown as agrees with what its thread did and with the real
\* writes that were started and have ended (task_service.py:164-216).
THEOREM ShownAsIs == Spec => []ShownInv
<1>1. Init => IInv /\ ShownInv
  BY InitInv DEF Init, ShownInv, Fits
<1>2. (IInv /\ ShownInv) /\ [Next]_vars => (IInv /\ ShownInv)'
  BY NextInv, ShownNext
<1>3. QED
  BY <1>1, <1>2, PTL DEF Spec

\* What is put before the approver is finished but for the gate and what it
\* guards, and the gate is what runs next (graph.py:52-63, agents.py:607-632).
THEOREM AwaitingAtGateHolds == Spec => []AwaitingAtGate
<1>1. ShownInv => AwaitingAtGate
  BY DEF ShownInv, Fits, ShownFits, Guarded, AwaitingAtGate
<1>2. QED
  BY <1>1, ShownAsIs, PTL

\* A task that was rejected or only planned has touched nothing outside,
\* before a restart and after it (graph.py:64, task_service.py:227).
THEOREM RefusedIsUntouchedHolds == Spec => []RefusedIsUntouched
<1>1. IInv /\ ShownInv => RefusedIsUntouched
  <2> SUFFICES ASSUME IInv, ShownInv, NEW t \in Tasks, tasks[t] # None,
                      tasks[t].status \in {"rejected", "planned"}
               PROVE  attempts[t] = 0 /\ landed[t] = 0
    BY DEF RefusedIsUntouched
  <2>1. ~granted[t]
    BY DEF ShownInv, Fits, ShownFits
  <2>2. QED
    BY <2>1, NoWriteYet
<1>2. QED
  BY <1>1, ShownAsIs, Inductive, PTL

\* The verification agent vouches for a real write on its receipt and nothing
\* else: the write was approved and started once, its thread has ended, and its
\* receipt is ok (agents.py:563-599).
THEOREM VerifiedOnItsReceiptHolds == Spec => []VerifiedOnItsReceipt
<1>1. IInv /\ ShownInv => VerifiedOnItsReceipt
  <2> SUFFICES ASSUME IInv, ShownInv, NEW t \in Tasks, tasks[t] # None,
                      tasks[t].verdict = "verified", WillWrite(req[t])
               PROVE  /\ granted[t]
                      /\ attempts[t] = 1 /\ writing[t] = 0
                      /\ tasks[t].exec = "ok"
    BY DEF VerifiedOnItsReceipt
  <2>1. tasks[t].exec = "ok" /\ attempts[t] - writing[t] = 1
    BY DEF ShownInv, Fits, ShownFits, Ended
  <2>2. attempts[t] \in Nat /\ writing[t] \in Nat
    BY DEF IInv, TypeOK
  <2>3. attempts[t] <= 1 /\ (attempts[t] > 0 => granted[t])
    BY DEF IInv, WriteInv
  <2>4. QED
    BY <2>1, <2>2, <2>3
<1>2. QED
  BY <1>1, ShownAsIs, Inductive, PTL

-----------------------------------------------------------------------------
(* The refinement of ApprovedWrite.                                        *)

\* What a step does to the stage of a task, from what it does to its counts.
LEMMA StageUnchanged ==
    ASSUME UNCHANGED <<attempts, granted, landed>>
    PROVE  Stage' = Stage
  BY DEF Stage

\* One task's stage moves and the others stay.
LEMMA StageMoves ==
    ASSUME NEW t \in Tasks, NEW s,
           \A u \in Tasks \ {t} : Stage'[u] = Stage[u], Stage'[t] = s
    PROVE  Stage' = [u \in Tasks |-> IF u \in {t} THEN s ELSE Stage[u]]
<1>1. Stage' = [u \in Tasks |-> Stage'[u]]
  BY DEF Stage
<1>2. QED
  BY <1>1

\* At first every task's write is sealed.
LEMMA RefineInit == Init => Promise!Init
  BY DEF Init, Promise!Init, Stage

\* Every step of the service is a step of ApprovedWrite or leaves the stages
\* alone.
LEMMA RefineNext == IInv /\ IInv' /\ [Next]_vars => [Promise!Next]_Stage
<1> SUFFICES ASSUME IInv, IInv', [Next]_vars PROVE [Promise!Next]_Stage
  OBVIOUS
<1>1. CASE UNCHANGED <<attempts, granted, landed>>
  BY <1>1, StageUnchanged
<1>2. ASSUME NEW h \in Handlers, PassGate(h)
      PROVE  [Promise!Next]_Stage
  <2> DEFINE t == TaskOf(h)
  <2>1. t \in Tasks /\ UNCHANGED <<attempts, landed>>
        /\ granted' = [granted EXCEPT ![t] = @ \/ resume[t] = "approve"]
    BY <1>2, DriverFacts DEF PassGate, Active, Driving
  <2>2. CASE granted'[t] = granted[t]
    BY <1>1, <2>1, <2>2 DEF IInv, TypeOK
  <2>3. CASE ~granted[t] /\ granted'[t]
    <3>1. attempts[t] = 0
      BY <2>1, <2>3, NoWriteYet
    <3>2. Stage[t] = "sealed" /\ Stage'[t] = "open"
      BY <2>1, <2>3, <3>1 DEF Stage
    <3>3. \A u \in Tasks \ {t} : Stage'[u] = Stage[u]
      BY <2>1 DEF Stage, IInv, TypeOK
    <3>4. Promise!Approve(t)
      BY <2>1, <3>2, <3>3, StageMoves DEF Promise!Approve, Promise!Move
    <3>5. QED
      BY <2>1, <3>4 DEF Promise!Next
  <2>4. QED
    BY <2>1, <2>2, <2>3 DEF IInv, TypeOK
<1>3. ASSUME NEW h \in Handlers, BeginWrite(h)
      PROVE  [Promise!Next]_Stage
  <2> DEFINE t == TaskOf(h)
  <2>1. t \in Tasks /\ UNCHANGED <<granted, landed>>
        /\ attempts' = [attempts EXCEPT ![t] = @ + 1]
    BY <1>3, DriverFacts DEF BeginWrite, Active, Driving
  <2>2. granted[t] /\ attempts[t] = 0 /\ landed[t] = 0 /\ attempts'[t] = 1
    BY <1>3, <2>1, BeginWriteInv DEF IInv, TypeOK
  <2>3. Stage[t] = "open" /\ Stage'[t] = "under way"
    BY <2>1, <2>2 DEF Stage
  <2>4. \A u \in Tasks \ {t} : Stage'[u] = Stage[u]
    BY <2>1 DEF Stage, IInv, TypeOK
  <2>5. Promise!Start(t)
    BY <2>1, <2>3, <2>4, StageMoves DEF Promise!Start, Promise!Move
  <2>6. QED
    BY <2>1, <2>5 DEF Promise!Next
<1>4. ASSUME NEW t \in Tasks, attempts[t] = 1, landed[t] = 0,
             NEW effect \in BOOLEAN, UNCHANGED <<granted, attempts>>,
             landed' = [landed EXCEPT ![t] = IF effect THEN @ + 1 ELSE @]
      PROVE  [Promise!Next]_Stage
  <2>1. CASE ~effect
    BY <1>1, <1>4, <2>1 DEF IInv, TypeOK
  <2>2. CASE effect
    <3>1. landed'[t] = 1
      BY <1>4, <2>2 DEF IInv, TypeOK
    <3>2. Stage[t] = "under way" /\ Stage'[t] = "done"
      BY <1>4, <3>1 DEF Stage
    <3>3. \A u \in Tasks \ {t} : Stage'[u] = Stage[u]
      BY <1>4 DEF Stage, IInv, TypeOK
    <3>4. Promise!TakeEffect({t})
      BY <3>2, <3>3, StageMoves DEF Promise!TakeEffect, Promise!Move
    <3>5. QED
      BY <3>4 DEF Promise!Next
  <2>3. QED
    BY <2>1, <2>2
<1>5. ASSUME NEW h \in Handlers, NEW ok \in BOOLEAN, NEW effect \in BOOLEAN,
             EndWrite(h, ok, effect)
      PROVE  [Promise!Next]_Stage
  <2>1. TaskOf(h) \in Tasks
    BY <1>5, DriverFacts DEF EndWrite, Active, Driving
  <2>2. attempts[TaskOf(h)] = 1 /\ landed[TaskOf(h)] = 0
    BY <1>5, EndWriteInv
  <2>3. QED
    BY <1>4, <1>5, <2>1, <2>2 DEF EndWrite
<1>6. ASSUME NEW t \in Tasks, NEW effect \in BOOLEAN, OrphanWrite(t, effect)
      PROVE  [Promise!Next]_Stage
  BY <1>4, <1>6, OrphanWriteInv DEF OrphanWrite
<1>7. ASSUME NEW S \in SUBSET Tasks, Restart(S)
      PROVE  [Promise!Next]_Stage
  <2> DEFINE T == {t \in S : writing[t] > 0}
  <2>1. \A t \in Tasks : /\ attempts[t] \in Nat /\ landed[t] \in Nat /\ writing[t] \in Nat
                         /\ attempts[t] <= 1 /\ landed[t] + writing[t] <= attempts[t]
    BY DEF IInv, TypeOK, WriteInv
  <2>2. /\ UNCHANGED <<attempts, granted>>
        /\ \A t \in Tasks : landed'[t] = IF t \in T THEN 1 ELSE landed[t]
    BY <1>7, <2>1 DEF Restart
  <2>3. \A t \in T : Stage[t] = "under way" /\ Stage'[t] = "done"
    <3>1. TAKE t \in T
    <3>2. t \in Tasks /\ writing[t] > 0
      OBVIOUS
    <3>3. attempts[t] = 1 /\ landed[t] = 0
      BY <2>1, <3>2
    <3>4. attempts'[t] = 1 /\ landed'[t] = 1
      BY <2>2, <3>2, <3>3
    <3>5. Stage[t] = "under way"
      BY <3>2, <3>3 DEF Stage
    <3>6. Stage'[t] = "done"
      BY <3>2, <3>4 DEF Stage
    <3>7. QED
      BY <3>5, <3>6
  <2>4. \A t \in Tasks \ T : Stage'[t] = Stage[t]
    BY <2>2 DEF Stage
  <2>5. Stage' = [t \in Tasks |-> Stage'[t]]
    BY DEF Stage
  <2>6. Stage' = [t \in Tasks |-> IF t \in T THEN "done" ELSE Stage[t]]
    BY <2>3, <2>4, <2>5
  <2>7. Promise!TakeEffect(T)
    BY <2>3, <2>6 DEF Promise!TakeEffect, Promise!Move
  <2>8. QED
    BY <2>7 DEF Promise!Next
<1>8. QED
  <2>1. ASSUME NEW c \in Calls, Answer(c)
        PROVE  UNCHANGED <<attempts, granted, landed>>
    BY <2>1 DEF Answer, Refuse, Accept, AcceptAndReplay, StartResume, Outside
  <2>2. ASSUME NEW h \in Handlers, Superstep(h) \/ Interrupt(h) \/ Settle(h)
                                   \/ Timeout(h) \/ NodeFails(h)
        PROVE  UNCHANGED <<attempts, granted, landed>>
    BY <2>2 DEF Superstep, Interrupt, Settle, Timeout, NodeFails, Fail, Outside
  <2>3. QED
    BY <1>1, <1>2, <1>3, <1>5, <1>6, <1>7, <2>1, <2>2
       DEF Next, Drive, CreateTask, Arrive, SetEnabled, Outside, vars

\* The service refines ApprovedWrite: whatever handlers, threads, timeouts
\* and restarts do, the outside world sees a write that was approved first,
\* started once and taking effect once.
THEOREM Refinement == Spec => KeepsPromise
<1>1. Init => Promise!Init
  BY RefineInit
<1>2. IInv /\ IInv' /\ [Next]_vars => [Promise!Next]_Stage
  BY RefineNext
<1>3. QED
  BY <1>1, <1>2, Inductive, PTL DEF Spec, KeepsPromise, Promise!Spec

-----------------------------------------------------------------------------
(* Every call comes to an end: of EveryCallAnswered no more is left to     *)
(* fairness than that a step which can be taken is taken.                  *)

\* How far it is from a place to the end of a call, with n supersteps left.
Ahead(p, n) ==
    CASE p = "idle"   -> 200
      [] p = "lock"   -> 180
      [] p = "resume" -> 73
      [] p = "stream" -> 3 * n + 3
      [] p = "write"  -> 3 * n + 2
      [] p = "settle" -> 1
      [] p = "done"   -> 0

\* A bound on the steps handler h has before it; a replay is followed by the
\* resume of the thread.
Way(h) ==
    LET ahead == Ahead(pc[h], StepsLeft(thread[TaskOf(h)]))
    IN  IF h \in replaying THEN 100 + ahead ELSE ahead

\* What handler h does, the cancellation of what it awaits included.
MovesOf(h) ==
    \/ \E r \in Requests, u \in Users \cup {NoUser} : h \in Tasks /\ CreateTask(h, r, u)
    \/ \E t \in Tasks, d \in Decisions, u \in Users : h \in Calls /\ Arrive(h, t, d, u)
    \/ h \in Calls /\ Answer(h)
    \/ Drive(h) \/ Timeout(h) \/ NodeFails(h)

\* No call has more than that many before it.
FewSteps == \A h \in Handlers : Way(h) \in 0 .. 200

\* Each step of a call brings it nearer to its end, and no step of another,
\* no late write and no restart takes it back.
CallsRunDown ==
    [][\A h \in Handlers :
          /\ Way(h)' <= Way(h)
          /\ MovesOf(h) => Way(h)' < Way(h)]_vars

\* A lock is held by a decide call that is at work on the lock's task.
LockHeld ==
    \A t \in Tasks : lock[t] # None =>
        lock[t] \in Calls /\ on[lock[t]] = t /\ pc[lock[t]] \in Driving \cup {"resume"}

\* Nobody waits for a lock that nobody will give up, and whoever is to run a
\* node has a thread with a node to run.
NobodyIsStuck ==
    /\ LockHeld
    /\ \A h \in Handlers :
          pc[h] = "stream" => thread[TaskOf(h)] # None /\ thread[TaskOf(h)].next \in Nodes

LEMMA Distances ==
    ASSUME NEW n \in 0 .. 23, NEW x
    PROVE  /\ Ahead("idle", x) = 200 /\ Ahead("lock", x) = 180 /\ Ahead("resume", x) = 73
           /\ Ahead("settle", x) = 1 /\ Ahead("done", x) = 0
           /\ Ahead("stream", n) = 3 * n + 3 /\ Ahead("write", n) = 3 * n + 2
  BY DEF Ahead

\* Where a handler is says how far it has to go.
LEMMA WayByPlace ==
    ASSUME IInv, NEW h \in Handlers
    PROVE  LET n == StepsLeft(thread[TaskOf(h)]) IN
           /\ pc[h] = "idle" => Way(h) = 200
           /\ pc[h] = "lock" => Way(h) = 180
           /\ pc[h] = "resume" => Way(h) = 73
           /\ pc[h] = "done" => Way(h) = 0
           /\ pc[h] = "settle" => Way(h) = IF h \in replaying THEN 101 ELSE 1
           /\ pc[h] = "stream" => Way(h) = IF h \in replaying THEN 3 * n + 103 ELSE 3 * n + 3
           /\ pc[h] = "write" => Way(h) = IF h \in replaying THEN 3 * n + 102 ELSE 3 * n + 2
           /\ pc[h] \in {"stream", "write"} => n \in 0 .. 23
           /\ Way(h) \in 0 .. 200
           /\ pc[h] \in PCs
<1> DEFINE n == StepsLeft(thread[TaskOf(h)])
<1>1. h \in replaying => pc[h] \in Driving
  BY DEF IInv, TypeOK, LockInv
<1>2. pc[h] \in {"stream", "write"} => n \in 0 .. 23
  BY DriverFacts, StepsByNode DEF Active, Driving
<1>3. pc[h] \in PCs
  BY DEF IInv, TypeOK
<1>4. Way(h) = IF h \in replaying THEN 100 + Ahead(pc[h], n) ELSE Ahead(pc[h], n)
  BY DEF Way
<1> HIDE DEF n
<1>5. 0 \in 0 .. 23
  OBVIOUS
<1>6. /\ pc[h] = "idle" => Way(h) = 200
      /\ pc[h] = "lock" => Way(h) = 180
      /\ pc[h] = "resume" => Way(h) = 73
      /\ pc[h] = "done" => Way(h) = 0
      /\ pc[h] = "settle" => Way(h) = IF h \in replaying THEN 101 ELSE 1
  BY <1>1, <1>4, <1>5, Distances DEF Driving
<1>7. /\ pc[h] = "stream" => Way(h) = IF h \in replaying THEN 3 * n + 103 ELSE 3 * n + 3
      /\ pc[h] = "write" => Way(h) = IF h \in replaying THEN 3 * n + 102 ELSE 3 * n + 2
  BY <1>2, <1>4, Distances
<1>8. Way(h) \in 0 .. 200
  BY <1>2, <1>3, <1>6, <1>7 DEF PCs
<1>9. QED
  BY <1>2, <1>3, <1>6, <1>7, <1>8 DEF n

\* A step that leaves a handler's place, its task and the task's thread alone
\* leaves its way alone.
LEMMA WaySame ==
    ASSUME IInv, NEW h \in Handlers, pc'[h] = pc[h], TaskOf(h)' = TaskOf(h),
           h \in replaying' <=> h \in replaying,
           Active(h) => thread'[TaskOf(h)] = thread[TaskOf(h)]
    PROVE  Way(h)' = Way(h)
<1>1. CASE Active(h)
  BY <1>1 DEF Way
<1>2. CASE ~Active(h)
  <2>1. pc[h] \in {"idle", "lock", "done"}
    BY <1>2 DEF IInv, TypeOK, PCs, Active, Driving
  <2>2. \A x, y : Ahead(pc[h], x) = Ahead(pc[h], y)
    BY <2>1 DEF Ahead
  <2>3. QED
    BY <2>2 DEF Way
<1>3. QED
  BY <1>1, <1>2

\* What a handler that owns its task does leaves the ways of the others alone.
LEMMA OthersWays ==
    ASSUME IInv, NEW h \in Handlers, Owns(h), UNCHANGED on,
           \A g \in Handlers \ {h} : pc'[g] = pc[g] /\ (g \in replaying' <=> g \in replaying),
           \A u \in Tasks \ {TaskOf(h)} : thread'[u] = thread[u],
           NEW g \in Handlers \ {h}
    PROVE  Way(g)' = Way(g)
<1>1. TaskOf(g)' = TaskOf(g)
  BY DEF TaskOf
<1>2. Active(g) => TaskOf(g) \in Tasks \ {TaskOf(h)}
  BY DriverFacts DEF Owns
<1>3. QED
  BY <1>1, <1>2, WaySame

\* A step within a stream, to its end or to its write.
LEMMA StreamShortens ==
    ASSUME IInv, NEW h \in Handlers, pc[h] \in {"stream", "write"}, UNCHANGED <<on, replaying>>,
           NEW p, pc' = [pc EXCEPT ![h] = p], NEW w,
           thread' = [thread EXCEPT ![TaskOf(h)] = w],
           \/ p = "settle"
           \/ p = "stream" /\ w \in Values /\ StepsLeft(w) < StepsLeft(thread[TaskOf(h)])
           \/ p = "write" /\ pc[h] = "stream" /\ w = thread[TaskOf(h)]
    PROVE  Way(h)' < Way(h) /\ \A g \in Handlers \ {h} : Way(g)' = Way(g)
<1> DEFINE t == TaskOf(h)
           n == StepsLeft(thread[t])
<1>1. Active(h) /\ Owns(h) /\ t \in Tasks
  BY DriverOwns, DriverFacts DEF Active, Driving
<1>2. TaskOf(h)' = t /\ pc'[h] = p /\ thread'[t] = w
  BY <1>1 DEF TaskOf, IInv, TypeOK
<1>3. Way(h)' = IF h \in replaying THEN 100 + Ahead(p, StepsLeft(w)) ELSE Ahead(p, StepsLeft(w))
  BY <1>2 DEF Way
<1>4. n \in 0 .. 23 /\ Way(h) \in Nat
  BY WayByPlace
<1>5. Way(h) >= IF h \in replaying THEN 3 * n + 102 ELSE 3 * n + 2
  BY <1>4, WayByPlace
<1>6. Way(h)' < Way(h)
  <2>1. CASE p = "settle"
    <3>1. Ahead(p, StepsLeft(w)) = 1
      BY <1>4, <2>1, Distances
    <3> HIDE DEF n
    <3>2. QED
      BY <1>3, <1>4, <1>5, <3>1
  <2>2. CASE p = "stream" /\ w \in Values /\ StepsLeft(w) < n
    <3>1. StepsLeft(w) \in 0 .. 23
      BY <2>2, StepsByNode
    <3>2. Ahead(p, StepsLeft(w)) = 3 * StepsLeft(w) + 3
      BY <2>2, <3>1, Distances
    <3> HIDE DEF n
    <3>3. QED
      BY <1>3, <1>4, <1>5, <2>2, <3>1, <3>2
  <2>3. CASE p = "write" /\ pc[h] = "stream" /\ w = thread[t]
    <3>1. Ahead(p, StepsLeft(w)) = 3 * n + 2
      BY <1>4, <2>3, Distances
    <3>2. Way(h) = IF h \in replaying THEN 3 * n + 103 ELSE 3 * n + 3
      BY <2>3, WayByPlace
    <3> HIDE DEF n
    <3>3. QED
      BY <1>3, <1>4, <3>1, <3>2
  <2>4. QED
    BY <2>1, <2>2, <2>3
<1>7. \A g \in Handlers \ {h} : pc'[g] = pc[g]
  BY DEF IInv, TypeOK
<1>8. \A u \in Tasks \ {t} : thread'[u] = thread[u]
  BY DEF IInv, TypeOK
<1>9. QED
  BY <1>1, <1>6, <1>7, <1>8, OthersWays

\* Supersteps and writes.
LEMMA DriveShortens ==
    ASSUME IInv, NEW h \in Handlers,
           \/ Superstep(h) \/ Interrupt(h) \/ PassGate(h) \/ BeginWrite(h)
           \/ \E ok, effect \in BOOLEAN : EndWrite(h, ok, effect)
    PROVE  Way(h)' < Way(h) /\ \A g \in Handlers \ {h} : Way(g)' = Way(g)
<1> DEFINE t == TaskOf(h)
<1>1. pc[h] \in {"stream", "write"} /\ Active(h)
  BY DEF Superstep, Interrupt, PassGate, BeginWrite, EndWrite, Active, Driving
<1>2. /\ t \in Tasks /\ thread[t] \in Values /\ req[t] \in RequestType
      /\ ThreadOK(thread[t], req[t], granted[t]) /\ granted[t] \in BOOLEAN
      /\ enabled \in SUBSET Workers /\ thread \in [Tasks -> Values \cup {None}]
  BY <1>1, DriverFacts DEF IInv, TypeOK
<1>3. [thread EXCEPT ![t] = thread[t]] = thread
  BY <1>2
<1>4. ASSUME NEW v \in Values, Commit(h, v), StepsLeft(v) < StepsLeft(thread[t])
      PROVE  Way(h)' < Way(h) /\ \A g \in Handlers \ {h} : Way(g)' = Way(g)
  <2> DEFINE p == IF v.next = "end" THEN "settle" ELSE "stream"
  <2>1. /\ pc' = [pc EXCEPT ![h] = p] /\ thread' = [thread EXCEPT ![t] = v]
        /\ UNCHANGED <<on, replaying>>
    BY <1>4 DEF Commit, Sources
  <2>2. p = "settle" \/ p = "stream"
    OBVIOUS
  <2> HIDE DEF p
  <2>3. QED
    BY <1>1, <1>4, <2>1, <2>2, StreamShortens
<1>5. CASE Superstep(h)
  <2>1. thread[t].next \notin {"end", "approval_gate"}
    BY <1>1, <1>5, DriverLocal DEF Superstep
  <2>2. RunNode(thread[t], req[t], enabled) \in Values
    BY <1>2, <2>1, RunNodeType
  <2>3. StepsLeft(RunNode(thread[t], req[t], enabled)) < StepsLeft(thread[t])
    BY <1>2, <2>1, RunNodeShortens
  <2>4. Commit(h, RunNode(thread[t], req[t], enabled))
    BY <1>5 DEF Superstep
  <2>5. QED
    BY <1>4, <2>2, <2>3, <2>4
<1>6. CASE Interrupt(h)
  <2>1. pc' = [pc EXCEPT ![h] = "settle"] /\ UNCHANGED <<thread, on, replaying>>
    BY <1>6 DEF Interrupt, Sources
  <2>2. QED
    BY <1>1, <1>3, <2>1, StreamShortens
<1>7. CASE PassGate(h)
  <2>1. /\ thread[t].next = "approval_gate" /\ resume[t] \in Decisions
        /\ Commit(h, Gate(thread[t], resume[t]))
    BY <1>2, <1>7 DEF PassGate, IInv, TypeOK
  <2>2. Gate(thread[t], resume[t]) \in Values
    BY <1>2, <2>1, GateType
  <2>3. StepsLeft(Gate(thread[t], resume[t])) < StepsLeft(thread[t])
    BY <1>2, <2>1, GateShortens
  <2>4. QED
    BY <1>4, <2>1, <2>2, <2>3
<1>8. CASE BeginWrite(h)
  <2>1. pc[h] = "stream" /\ pc' = [pc EXCEPT ![h] = "write"] /\ UNCHANGED <<thread, on, replaying>>
    BY <1>8 DEF BeginWrite, Sources
  <2>2. QED
    BY <1>1, <1>3, <2>1, StreamShortens
<1>9. ASSUME NEW ok \in BOOLEAN, NEW effect \in BOOLEAN, EndWrite(h, ok, effect)
      PROVE  Way(h)' < Way(h) /\ \A g \in Handlers \ {h} : Way(g)' = Way(g)
  <2> DEFINE x == IF ok THEN "ok" ELSE "failed"
  <2>1. x \in {"ok", "failed"} /\ pc[h] = "write" /\ Commit(h, Execution(thread[t], x))
    BY <1>9 DEF EndWrite
  <2> HIDE DEF x
  <2>2. thread[t].next = "execution_agent"
    BY <1>1, <2>1, DriverLocal DEF AtRealWrite
  <2>3. Execution(thread[t], x) \in Values
    BY <1>2, <2>1, ExecutionType
  <2>4. StepsLeft(Execution(thread[t], x)) < StepsLeft(thread[t])
    BY <1>2, <2>1, <2>2, ExecutionShortens
  <2>5. QED
    BY <1>4, <2>1, <2>3, <2>4
<1>10. QED
  BY <1>5, <1>6, <1>7, <1>8, <1>9

\* The end of a run: a replay goes on to the resume.
LEMMA ReturnShortens ==
    ASSUME IInv, NEW h \in Handlers, pc[h] \in Driving, Return(h), UNCHANGED <<thread, on>>
    PROVE  Way(h)' < Way(h) /\ \A g \in Handlers \ {h} : Way(g)' = Way(g)
<1> DEFINE p == IF h \in replaying THEN "resume" ELSE "done"
<1>1. Active(h) /\ Owns(h)
  BY DriverOwns DEF Active
<1>2. pc' = [pc EXCEPT ![h] = p] /\ replaying' = replaying \ {h}
  BY DEF Return
<1>3. pc'[h] = p /\ h \notin replaying' /\ \A g \in Handlers \ {h} : pc'[g] = pc[g]
  BY <1>2 DEF IInv, TypeOK
<1>4. Way(h)' = IF h \in replaying THEN 73 ELSE 0
  <2>1. 0 \in 0 .. 23
    OBVIOUS
  <2>2. QED
    BY <1>3, <2>1, Distances DEF Way
<1>5. Way(h) \in Nat /\ Way(h) >= IF h \in replaying THEN 101 ELSE 1
  BY WayByPlace DEF Driving
<1>6. Way(h)' < Way(h)
  BY <1>4, <1>5
<1>7. QED
  BY <1>1, <1>2, <1>3, <1>6, OthersWays

\* A decide call that got the lock, or resumes its thread, or is refused.
LEMMA AnswerShortens ==
    ASSUME IInv, NEW c \in Calls, Answer(c)
    PROVE  c \in Handlers /\ Way(c)' < Way(c) /\ \A g \in Handlers \ {c} : Way(g)' = Way(g)
<1> DEFINE t == TaskOf(c)
<1>1. c \in Handlers /\ t = on[c] /\ 0 \in 0 .. 23
  BY Identities DEF Handlers, TaskOf
<1>2. CASE Refuse(c)
  <2>1. pc[c] = "lock" /\ pc' = [pc EXCEPT ![c] = "done"] /\ UNCHANGED <<thread, on, replaying>>
    BY <1>2 DEF Refuse, Sources
  <2>2. pc'[c] = "done" /\ c \notin replaying
    BY <1>1, <2>1 DEF IInv, TypeOK, LockInv, Driving
  <2>3. Way(c) = 180 /\ Way(c)' = 0
    BY <1>1, <2>1, <2>2, Distances, WayByPlace DEF Way
  <2>4. \A g \in Handlers \ {c} : pc'[g] = pc[g] /\ TaskOf(g)' = TaskOf(g)
    BY <2>1 DEF IInv, TypeOK, TaskOf
  <2>5. QED
    BY <1>1, <2>1, <2>3, <2>4, WaySame
<1>3. CASE Accept(c)
  <2>1. /\ pc[c] = "lock" /\ HasLock(c) /\ tasks[on[c]].status = "awaiting_approval"
        /\ pc' = [pc EXCEPT ![c] = "resume"] /\ UNCHANGED <<thread, on, replaying>>
    BY <1>3 DEF Accept, Sources
  <2>2. c \notin replaying /\ Owns(c)
    BY <2>1, WaiterOwns
  <2>3. pc'[c] = "resume" /\ \A g \in Handlers \ {c} : pc'[g] = pc[g]
    BY <1>1, <2>1 DEF IInv, TypeOK
  <2>4. Way(c) = 180 /\ Way(c)' = 73
    BY <1>1, <2>1, <2>2, <2>3, Distances, WayByPlace DEF Way
  <2>5. QED
    BY <1>1, <2>1, <2>2, <2>3, <2>4, OthersWays
<1>4. CASE AcceptAndReplay(c)
  <2>1. /\ pc[c] = "lock" /\ HasLock(c) /\ tasks[on[c]].status = "awaiting_approval"
        /\ pc' = [pc EXCEPT ![c] = "stream"] /\ thread' = [thread EXCEPT ![t] = Fresh]
        /\ replaying' = replaying \cup {c} /\ UNCHANGED on
    BY <1>1, <1>4 DEF AcceptAndReplay, Sources
  <2>2. Owns(c) /\ t \in Tasks
    BY <1>1, <2>1, WaiterOwns DEF Owns
  <2>3. /\ pc'[c] = "stream" /\ thread'[t] = Fresh /\ c \in replaying' /\ TaskOf(c)' = t
        /\ \A g \in Handlers \ {c} : pc'[g] = pc[g] /\ (g \in replaying' <=> g \in replaying)
        /\ \A u \in Tasks \ {t} : thread'[u] = thread[u]
    BY <1>1, <2>1, <2>2 DEF IInv, TypeOK, TaskOf
  <2>4. StepsLeft(Fresh) = 23
    BY FreshType, StepsByNode DEF Fresh
  <2>5. Ahead("stream", 23) = 72
    <3>1. 23 \in 0 .. 23
      OBVIOUS
    <3>2. QED
      BY <3>1, Distances
  <2>6. Way(c) = 180 /\ Way(c)' = 172
    BY <1>1, <2>1, <2>3, <2>4, <2>5, WayByPlace DEF Way
  <2>7. QED
    BY <1>1, <2>1, <2>2, <2>3, <2>6, OthersWays
<1>5. CASE StartResume(c)
  <2> DEFINE n == StepsLeft(thread[t])
             p == IF thread[t].next = "end" THEN "settle" ELSE "stream"
  <2>1. /\ pc[c] = "resume" /\ pc' = [pc EXCEPT ![c] = p]
        /\ UNCHANGED <<thread, on, replaying>>
    BY <1>1, <1>5 DEF StartResume, Sources
  <2>2. Active(c) /\ Owns(c) /\ thread[t] \in Values
    BY <1>1, <2>1, DriverOwns, DriverFacts DEF Active
  <2>3. /\ c \notin replaying /\ pc'[c] = p /\ TaskOf(c)' = t
        /\ \A g \in Handlers \ {c} : pc'[g] = pc[g]
    BY <1>1, <2>1 DEF IInv, TypeOK, LockInv, Driving, TaskOf
  <2>4. n \in 0 .. 23
    BY <2>2, StepsByNode
  <2>5. Way(c) = 73 /\ Way(c)' = Ahead(p, n)
    BY <1>1, <2>1, <2>3, WayByPlace DEF Way
  <2> HIDE DEF n
  <2>6. Ahead(p, n) = 1 \/ Ahead(p, n) = 3 * n + 3
    BY <2>4, Distances
  <2> HIDE DEF p
  <2>7. Way(c)' < Way(c)
    BY <2>4, <2>5, <2>6
  <2>8. QED
    BY <1>1, <2>1, <2>2, <2>3, <2>7, OthersWays
<1>6. QED
  BY <1>2, <1>3, <1>4, <1>5 DEF Answer

\* Calls begin.
LEMMA CreateTaskShortens ==
    ASSUME IInv, NEW t \in Tasks, NEW r \in Requests, NEW u \in Users \cup {NoUser},
           CreateTask(t, r, u)
    PROVE  t \in Handlers /\ Way(t)' < Way(t) /\ \A g \in Handlers \ {t} : Way(g)' = Way(g)
<1>1. t \in Handlers /\ TaskOf(t) = t /\ t \notin Calls /\ TaskOf(t)' = t
  BY Identities DEF Handlers, TaskOf
<1>2. /\ pc[t] = "idle" /\ pc' = [pc EXCEPT ![t] = "stream"]
      /\ thread' = [thread EXCEPT ![t] = Fresh] /\ UNCHANGED <<on, replaying>>
  BY DEF CreateTask
<1>3. t \notin replaying /\ tasks[t] = None
  BY <1>1, <1>2 DEF IInv, TypeOK, CreateInv
<1>4. /\ pc'[t] = "stream" /\ thread'[t] = Fresh
      /\ \A g \in Handlers \ {t} : pc'[g] = pc[g] /\ TaskOf(g)' = TaskOf(g)
      /\ \A v \in Tasks \ {t} : thread'[v] = thread[v]
  BY <1>1, <1>2 DEF IInv, TypeOK, TaskOf
<1>5. StepsLeft(Fresh) = 23 /\ 23 \in 0 .. 23
  BY FreshType, StepsByNode DEF Fresh
<1>6. Ahead("stream", 23) = 72
  BY <1>5, Distances
<1>7. Way(t) = 200 /\ Way(t)' = 72
  BY <1>1, <1>2, <1>3, <1>4, <1>5, <1>6, WayByPlace DEF Way
<1>8. ASSUME NEW g \in Handlers \ {t} PROVE Way(g)' = Way(g)
  <2>1. Active(g) => TaskOf(g) \in Tasks \ {t}
    BY <1>3, DriverFacts
  <2>2. Active(g) => thread'[TaskOf(g)] = thread[TaskOf(g)]
    BY <1>4, <2>1
  <2>3. QED
    BY <1>2, <1>4, <2>2, WaySame
<1>9. QED
  BY <1>1, <1>7, <1>8

LEMMA ArriveShortens ==
    ASSUME IInv, NEW c \in Calls, NEW t \in Tasks, NEW d \in Decisions, NEW u \in Users,
           Arrive(c, t, d, u)
    PROVE  c \in Handlers /\ Way(c)' < Way(c) /\ \A g \in Handlers \ {c} : Way(g)' = Way(g)
<1>1. c \in Handlers /\ 0 \in 0 .. 23
  BY DEF Handlers
<1>2. /\ pc[c] = "idle" /\ UNCHANGED <<thread, replaying>>
      /\ pc' = [pc EXCEPT ![c] = IF CanView(t, u) THEN "lock" ELSE "done"]
      /\ on' = [on EXCEPT ![c] = t]
  BY DEF Arrive
<1>3. pc'[c] \in {"lock", "done"} /\ c \notin replaying
  BY <1>1, <1>2 DEF IInv, TypeOK, LockInv, Driving
<1>4. Way(c) = 200 /\ Way(c)' \in {180, 0}
  BY <1>1, <1>2, <1>3, Distances, WayByPlace DEF Way
<1>5. \A g \in Handlers \ {c} : pc'[g] = pc[g] /\ TaskOf(g)' = TaskOf(g)
  BY <1>2 DEF IInv, TypeOK, TaskOf, Handlers
<1>6. QED
  BY <1>1, <1>2, <1>4, <1>5, WaySame

\* What a handler does brings it nearer to its end, and nobody else further
\* away from it.
LEMMA MovesShorten ==
    ASSUME IInv, NEW h \in Handlers, MovesOf(h)
    PROVE  Way(h)' < Way(h) /\ \A g \in Handlers \ {h} : Way(g)' = Way(g)
<1>1. ASSUME NEW r \in Requests, NEW u \in Users \cup {NoUser}, h \in Tasks, CreateTask(h, r, u)
      PROVE  Way(h)' < Way(h) /\ \A g \in Handlers \ {h} : Way(g)' = Way(g)
  BY <1>1, CreateTaskShortens
<1>2. ASSUME NEW t \in Tasks, NEW d \in Decisions, NEW u \in Users, h \in Calls, Arrive(h, t, d, u)
      PROVE  Way(h)' < Way(h) /\ \A g \in Handlers \ {h} : Way(g)' = Way(g)
  BY <1>2, ArriveShortens
<1>3. CASE h \in Calls /\ Answer(h)
  BY <1>3, AnswerShortens
<1>4. CASE Drive(h)
  <2>1. CASE Settle(h)
    BY <2>1, ReturnShortens DEF Settle, Sources, Driving
  <2>2. QED
    BY <1>4, <2>1, DriveShortens DEF Drive
<1>5. CASE Timeout(h) \/ NodeFails(h)
  BY <1>5, ReturnShortens DEF Timeout, NodeFails, Fail, Sources, Driving
<1>6. QED
  BY <1>1, <1>2, <1>3, <1>4, <1>5 DEF MovesOf

\* A restart ends every call that has begun.
LEMMA RestartShortens ==
    ASSUME IInv, NEW S \in SUBSET Tasks, Restart(S), NEW h \in Handlers
    PROVE  Way(h)' <= Way(h)
<1>1. /\ pc'[h] = IF pc[h] = "idle" THEN "idle" ELSE "done"
      /\ h \notin replaying'
  BY DEF Restart
<1>2. 0 \in 0 .. 23
  OBVIOUS
<1>3. Way(h)' = IF pc[h] = "idle" THEN 200 ELSE 0
  BY <1>1, <1>2, Distances DEF Way
<1>4. Way(h) \in 0 .. 200 /\ (pc[h] = "idle" => Way(h) = 200)
  BY WayByPlace
<1>5. QED
  BY <1>3, <1>4

\* Who moves in a step.
LEMMA WhoMoves ==
    ASSUME [Next]_vars
    PROVE  \/ \E h \in Handlers : MovesOf(h)
           \/ \E S \in SUBSET Tasks : Restart(S)
           \/ UNCHANGED <<pc, on, thread, replaying, lock>>
<1>1. CASE \E t \in Tasks, effect \in BOOLEAN : OrphanWrite(t, effect)
  BY <1>1 DEF OrphanWrite, Sources
<1>2. CASE \E agents \in EnabledChoices : SetEnabled(agents)
  BY <1>2 DEF SetEnabled
<1>3. CASE UNCHANGED vars
  BY <1>3 DEF vars
<1>4. CASE \E t \in Tasks, r \in Requests, u \in Users \cup {NoUser} : CreateTask(t, r, u)
  BY <1>4 DEF MovesOf, Handlers
<1>5. CASE \E c \in Calls, t \in Tasks, d \in Decisions, u \in Users : Arrive(c, t, d, u)
  BY <1>5 DEF MovesOf, Handlers
<1>6. CASE \E c \in Calls : Answer(c)
  BY <1>6 DEF MovesOf, Handlers
<1>7. CASE \E h \in Handlers : Drive(h) \/ Timeout(h) \/ NodeFails(h)
  BY <1>7 DEF MovesOf
<1>8. QED
  BY <1>1, <1>2, <1>3, <1>4, <1>5, <1>6, <1>7 DEF Next

\* A call takes a bounded number of steps, whatever others do meanwhile: each
\* of its steps brings it nearer to its end and nothing takes it back
\* (task_service.py:89-180, graph.py and agents.py's dispatch).
THEOREM CallsRunDownHolds == Spec => []FewSteps /\ CallsRunDown
<1>1. IInv => FewSteps
  BY WayByPlace DEF FewSteps
<1>2. ASSUME IInv, FewSteps, FewSteps', [Next]_vars, NEW h \in Handlers
      PROVE  Way(h)' <= Way(h) /\ (MovesOf(h) => Way(h)' < Way(h))
  <2>1. Way(h) \in 0 .. 200 /\ Way(h)' \in 0 .. 200
    BY <1>2 DEF FewSteps, Handlers
  <2>2. CASE MovesOf(h)
    <3>1. Way(h)' < Way(h)
      BY <1>2, <2>2, MovesShorten
    <3>2. \A a, b \in 0 .. 200 : b < a => b <= a
      OBVIOUS
    <3>3. Way(h)' <= Way(h)
      BY <2>1, <3>1, <3>2, Zenon
    <3>4. QED
      BY <3>1, <3>3, Zenon
  <2>3. ASSUME NEW g \in Handlers \ {h}, MovesOf(g), ~MovesOf(h) PROVE Way(h)' <= Way(h)
    <3>1. Way(h)' = Way(h)
      BY <1>2, <2>3, MovesShorten
    <3>2. QED
      BY <2>1, <3>1
  <2>4. ASSUME NEW S \in SUBSET Tasks, Restart(S), ~MovesOf(h) PROVE Way(h)' <= Way(h)
    BY <1>2, <2>4, RestartShortens
  <2>5. CASE UNCHANGED <<pc, on, thread, replaying, lock>> /\ ~MovesOf(h)
    <3>1. Way(h)' = Way(h)
      BY <2>5 DEF Way, TaskOf
    <3>2. QED
      BY <2>1, <2>5, <3>1
  <2>6. QED
    BY <1>2, <2>2, <2>3, <2>4, <2>5, WhoMoves
<1>3. ASSUME IInv, FewSteps, FewSteps', [Next]_vars
      PROVE  [\A h \in Handlers :
                 /\ Way(h)' <= Way(h)
                 /\ MovesOf(h) => Way(h)' < Way(h)]_vars
  BY <1>2, <1>3
<1>4. QED
  BY <1>1, <1>3, Inductive, PTL DEF Spec, CallsRunDown

-----------------------------------------------------------------------------
(* Locks are given up.                                                     *)

\* A handler at work goes on with its work.
LEMMA WorkKeepsLocks ==
    ASSUME IInv, LockHeld, NEW h \in Handlers, NEW p \in Driving \cup {"resume"},
           pc' = [pc EXCEPT ![h] = p], UNCHANGED <<on, lock>>
    PROVE  LockHeld'
<1>1. \A g \in Calls : pc'[g] = IF g = h THEN p ELSE pc[g]
  BY DEF IInv, TypeOK, Handlers
<1>2. QED
  BY <1>1 DEF LockHeld

\* A run that is over gives the lock up, or goes on to resume the thread.
LEMMA ReturnKeepsLocks ==
    ASSUME IInv, LockHeld, NEW h \in Handlers, Return(h), UNCHANGED on
    PROVE  LockHeld'
<1>1. CASE h \in replaying
  BY <1>1, WorkKeepsLocks DEF Return
<1>2. CASE h \notin replaying
  <2>1. \A g \in Calls : pc'[g] = IF g = h THEN "done" ELSE pc[g]
    BY <1>2 DEF Return, IInv, TypeOK, Handlers
  <2>2. \A t \in Tasks : lock'[t] = IF t = TaskOf(h) /\ h \in Calls THEN None ELSE lock[t]
    BY <1>2 DEF Return, IInv, TypeOK
  <2>3. h \in Calls => TaskOf(h) = on[h]
    BY Identities DEF TaskOf
  <2>4. QED
    BY <2>1, <2>2, <2>3 DEF LockHeld
<1>3. QED
  BY <1>1, <1>2

LEMMA AnswerKeepsLocks ==
    ASSUME IInv, LockHeld, NEW c \in Calls, Answer(c)
    PROVE  LockHeld'
<1>1. c \in Handlers
  BY DEF Handlers
<1>2. CASE Refuse(c)
  <2>1. pc[c] = "lock" /\ pc' = [pc EXCEPT ![c] = "done"] /\ UNCHANGED <<on, lock>>
    BY <1>2 DEF Refuse, Sources
  <2>2. \A g \in Calls \ {c} : pc'[g] = pc[g]
    BY <2>1 DEF IInv, TypeOK, Handlers
  <2>3. QED
    BY <2>1, <2>2 DEF LockHeld, Driving
<1>3. CASE Accept(c) \/ AcceptAndReplay(c)
  <2>1. /\ pc[c] = "lock" /\ lock' = [lock EXCEPT ![on[c]] = c] /\ UNCHANGED on
        /\ pc' = [pc EXCEPT ![c] = "resume"] \/ pc' = [pc EXCEPT ![c] = "stream"]
    BY <1>3 DEF Accept, AcceptAndReplay, Sources
  <2>2. pc'[c] \in {"resume", "stream"} /\ \A g \in Calls \ {c} : pc'[g] = pc[g]
    BY <1>1, <2>1 DEF IInv, TypeOK, Handlers
  <2>3. \A t \in Tasks : lock'[t] = IF t = on[c] THEN c ELSE lock[t]
    BY <2>1 DEF IInv, TypeOK
  <2>4. QED
    BY <2>1, <2>2, <2>3 DEF LockHeld, Driving
<1>4. CASE StartResume(c)
  <2> DEFINE p == IF thread[on[c]].next = "end" THEN "settle" ELSE "stream"
  <2>1. pc' = [pc EXCEPT ![c] = p] /\ p \in Driving \cup {"resume"} /\ UNCHANGED <<on, lock>>
    BY <1>4 DEF StartResume, Sources, Driving
  <2> HIDE DEF p
  <2>2. QED
    BY <1>1, <2>1, WorkKeepsLocks
<1>5. QED
  BY <1>2, <1>3, <1>4 DEF Answer

\* What a handler does leaves no lock behind.
LEMMA MovesKeepLocks ==
    ASSUME IInv, LockHeld, NEW h \in Handlers, MovesOf(h)
    PROVE  LockHeld'
<1>1. ASSUME NEW r \in Requests, NEW u \in Users \cup {NoUser}, h \in Tasks, CreateTask(h, r, u)
      PROVE  LockHeld'
  BY <1>1, WorkKeepsLocks DEF CreateTask, Driving
<1>2. ASSUME NEW t \in Tasks, NEW d \in Decisions, NEW u \in Users, h \in Calls, Arrive(h, t, d, u)
      PROVE  LockHeld'
  <2>1. pc[h] = "idle" /\ UNCHANGED lock
    BY <1>2 DEF Arrive
  <2>2. \A g \in Calls \ {h} : pc'[g] = pc[g] /\ on'[g] = on[g]
    BY <1>2 DEF Arrive, IInv, TypeOK, Handlers
  <2>3. QED
    BY <2>1, <2>2 DEF LockHeld, Driving
<1>3. CASE h \in Calls /\ Answer(h)
  BY <1>3, AnswerKeepsLocks
<1>4. CASE Superstep(h) \/ Interrupt(h) \/ PassGate(h) \/ BeginWrite(h)
           \/ \E ok, effect \in BOOLEAN : EndWrite(h, ok, effect)
  <2>1. \E p \in Driving : pc' = [pc EXCEPT ![h] = p]
    BY <1>4 DEF Superstep, Interrupt, PassGate, BeginWrite, EndWrite, Commit, Driving
  <2>2. UNCHANGED <<on, lock>>
    BY <1>4 DEF Superstep, Interrupt, PassGate, BeginWrite, EndWrite, Commit, Sources
  <2>3. QED
    BY <2>1, <2>2, WorkKeepsLocks
<1>5. CASE Settle(h) \/ Timeout(h) \/ NodeFails(h)
  BY <1>5, ReturnKeepsLocks DEF Settle, Timeout, NodeFails, Fail, Sources
<1>6. QED
  BY <1>1, <1>2, <1>3, <1>4, <1>5 DEF MovesOf, Drive

\* A lock is given up by whoever holds it: however a run ends, no later decide
\* call waits for a lock whose holder is gone; and a handler in a stream has a
\* node to run (task_service.py:122-180).
THEOREM NobodyIsStuckHolds == Spec => []NobodyIsStuck
<1>1. Init => LockHeld
  BY DEF Init, LockHeld
<1>2. ASSUME IInv, LockHeld, [Next]_vars PROVE LockHeld'
  <2>1. ASSUME NEW S \in SUBSET Tasks, Restart(S) PROVE LockHeld'
    BY <2>1 DEF Restart, LockHeld
  <2>2. CASE UNCHANGED <<pc, on, thread, replaying, lock>>
    BY <1>2, <2>2 DEF LockHeld
  <2>3. QED
    BY <1>2, <2>1, <2>2, MovesKeepLocks, WhoMoves
<1>3. ASSUME IInv, LockHeld PROVE NobodyIsStuck
  <2>1. ASSUME NEW h \in Handlers, pc[h] = "stream"
        PROVE  thread[TaskOf(h)] # None /\ thread[TaskOf(h)].next \in Nodes
    <3>1. Active(h)
      BY <2>1 DEF Active, Driving
    <3>2. thread[TaskOf(h)] \in Values /\ thread[TaskOf(h)] # None /\ thread[TaskOf(h)].next # "end"
      BY <1>3, <2>1, <3>1, DriverFacts, DriverLocal
    <3>3. QED
      BY <3>2 DEF Values
  <2>2. QED
    BY <1>3, <2>1 DEF NobodyIsStuck
<1>4. QED
  BY <1>1, <1>2, <1>3, Inductive, PTL DEF Spec

=============================================================================
