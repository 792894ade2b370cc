---------------------------- MODULE TaskService ----------------------------
(***************************************************************************)
(* apps/api/task_service.py and task_store.py: tasks that are created,     *)
(* driven through the graph, paused at the approval gate, resumed by a     *)
(* decision, timed out, and found again after a restart of the process.    *)
(*                                                                         *)
(* The handlers are coroutines of one event loop: the create_task call of  *)
(* each task (named by the task) and the decide calls.  A handler moves    *)
(* between two of its awaits in one step; the steps of different handlers  *)
(* interleave.  Two things leave the event loop: the thread that performs  *)
(* a real write, which a cancelled await does not stop, and the process    *)
(* itself, which may die at any time and loses what it only holds in       *)
(* memory (the graph's InMemorySaver checkpoints among it).                *)
(***************************************************************************)
EXTENDS TaskGraph

CONSTANTS
    Tasks,          \* task ids; also the names of their create_task calls
    Calls,          \* decide calls, each of which arrives at most once
    Users,          \* accounts
    Admins,         \* the accounts with the admin role
    NoUser,         \* the owner of a task the scheduler starts
    Requests,       \* the requests that are submitted
    EnabledChoices, \* the sets of enabled agents the workspace is given
    MaxRestarts,    \* bound on restarts of the process
    None            \* no task, no thread, nobody

ASSUME Identities ==
    /\ Tasks \cap Calls = {}
    /\ Admins \subseteq Users
    /\ NoUser \notin Users
    /\ None \notin Tasks \cup Calls
    /\ None \notin Values
    /\ None \notin RequestType
    /\ None \notin Decisions

ASSUME Domains ==
    /\ Requests \subseteq RequestType
    /\ EnabledChoices \subseteq SUBSET Workers
    /\ MaxRestarts \in Nat

Handlers == Tasks \cup Calls

VARIABLES
    req,          \* the request fields of each task's state
    tasks,        \* TaskService._tasks: the public state of each task
    stored,       \* the payload column of the tasks table
    owners,       \* TaskService._owners
    storedOwners, \* the owner_id column
    thread,       \* the checkpoint of each task's thread in InMemorySaver
    resume,       \* the decision written for the thread's next superstep
    lock,         \* TaskService._locks: the holder
    pc,           \* where each handler is
    on,           \* the task a decide call is about
    said,         \* the decision it brings
    replaying,    \* the decide calls inside _ensure_checkpoint's _run
    enabled,      \* CapabilityRegistry._enabled_agents
    writing,      \* write threads running for a task
    attempts,     \* history: real writes a task started
    landed,       \* the outside world: real writes of a task that took effect
    granted,      \* history: an approval has passed the task's gate
    creator,      \* history: who submitted the task
    restarts

vars == <<req, tasks, stored, owners, storedOwners, thread, resume, lock, pc, on,
          said, replaying, enabled, writing, attempts, landed, granted, creator,
          restarts>>

\* "lock": waiting for the task's lock; "resume": about to resume the thread;
\* "stream": between two supersteps; "write": awaiting the write thread;
\* "settle": the stream is over, _store_graph_state is next.
PCs == {"idle", "lock", "resume", "stream", "write", "settle", "done"}
Driving == {"stream", "write", "settle"}

Sources == <<req, owners, on, said, enabled, creator, restarts>>
Outside == <<writing, attempts, landed, granted>>

-----------------------------------------------------------------------------
TaskOf(h) == IF h \in Tasks THEN h ELSE on[h]

CanView(t, u) == u \in Admins \/ (owners[t] # NoUser /\ owners[t] = u)

\* Mutated: the update writes the owner it was given.
Coalesce_Overwrite(new, old) == new

\* save_task: an update passes no owner, and COALESCE keeps the stored one.
Coalesce(new, old) == IF new = NoUser THEN old ELSE new

\* _tasks[t] = v and _persist(v, owner).
SaveAs(t, v, owner) ==
    /\ tasks' = [tasks EXCEPT ![t] = v]
    /\ stored' = [stored EXCEPT ![t] = v]
    /\ storedOwners' = [storedOwners EXCEPT ![t] = Coalesce(owner, @)]

Save(t, v) == SaveAs(t, v, NoUser)

\* Mutated: the lock is not given up.
Return_KeepsLock(h) ==
    /\ pc' = [pc EXCEPT ![h] = IF h \in replaying THEN "resume" ELSE "done"]
    /\ replaying' = replaying \ {h}
    /\ UNCHANGED lock

\* _run is over.  A replay goes on to resume the thread, whatever became of
\* it; the other handlers return, and a decide call gives up the lock.
Return(h) ==
    IF h \in replaying
    THEN /\ pc' = [pc EXCEPT ![h] = "resume"]
         /\ replaying' = replaying \ {h}
         /\ UNCHANGED lock
    ELSE /\ pc' = [pc EXCEPT ![h] = "done"]
         /\ lock' = [lock EXCEPT ![TaskOf(h)] = IF h \in Calls THEN None ELSE @]
         /\ UNCHANGED replaying

-----------------------------------------------------------------------------
Init ==
    /\ req = [t \in Tasks |-> None]
    /\ tasks = [t \in Tasks |-> None]
    /\ stored = [t \in Tasks |-> None]
    /\ owners = [t \in Tasks |-> NoUser]
    /\ storedOwners = [t \in Tasks |-> NoUser]
    /\ thread = [t \in Tasks |-> None]
    /\ resume = [t \in Tasks |-> None]
    /\ lock = [t \in Tasks |-> None]
    /\ pc = [h \in Handlers |-> "idle"]
    /\ on = [c \in Calls |-> None]
    /\ said = [c \in Calls |-> None]
    /\ replaying = {}
    /\ enabled \in EnabledChoices
    /\ writing = [t \in Tasks |-> 0]
    /\ attempts = [t \in Tasks |-> 0]
    /\ landed = [t \in Tasks |-> 0]
    /\ granted = [t \in Tasks |-> FALSE]
    /\ creator = [t \in Tasks |-> NoUser]
    /\ restarts = 0

\* create_task up to the first state its stream yields.
CreateTask(t, r, u) ==
    /\ pc[t] = "idle"
    /\ pc' = [pc EXCEPT ![t] = "stream"]
    /\ req' = [req EXCEPT ![t] = r]
    /\ creator' = [creator EXCEPT ![t] = u]
    /\ owners' = [owners EXCEPT ![t] = u]
    /\ SaveAs(t, Fresh, u)
    /\ thread' = [thread EXCEPT ![t] = Fresh]
    /\ UNCHANGED <<resume, lock, on, said, replaying, enabled, restarts, Outside>>

\* decide, up to the lock: who cannot view the task is told it is not there.
Arrive(c, t, d, u) ==
    /\ pc[c] = "idle"
    /\ tasks[t] # None
    /\ pc' = [pc EXCEPT ![c] = IF CanView(t, u) THEN "lock" ELSE "done"]
    /\ on' = [on EXCEPT ![c] = t]
    /\ said' = [said EXCEPT ![c] = d]
    /\ UNCHANGED <<req, tasks, stored, owners, storedOwners, thread, resume, lock,
                   replaying, enabled, creator, restarts, Outside>>

\* Mutated: decide does not take the lock.
HasLock_Always(c) == TRUE

HasLock(c) == lock[on[c]] = None

\* The lock is free and the task is not awaiting approval: 409.
Refuse(c) ==
    /\ pc[c] = "lock" /\ HasLock(c)
    /\ tasks[on[c]].status # "awaiting_approval"
    /\ pc' = [pc EXCEPT ![c] = "done"]
    /\ UNCHANGED <<tasks, stored, storedOwners, thread, resume, lock, replaying,
                   Sources, Outside>>

\* The lock is taken; the thread still has its checkpoint.
Accept(c) ==
    /\ pc[c] = "lock" /\ HasLock(c)
    /\ tasks[on[c]].status = "awaiting_approval"
    /\ thread[on[c]] # None
    /\ lock' = [lock EXCEPT ![on[c]] = c]
    /\ pc' = [pc EXCEPT ![c] = "resume"]
    /\ UNCHANGED <<tasks, stored, storedOwners, thread, resume, replaying, Sources,
                   Outside>>

\* The lock is taken; _ensure_checkpoint finds no checkpoint and replays the
\* task on its thread from the start.
AcceptAndReplay(c) ==
    LET t == on[c] IN
    /\ pc[c] = "lock" /\ HasLock(c)
    /\ tasks[t].status = "awaiting_approval"
    /\ thread[t] = None
    /\ lock' = [lock EXCEPT ![t] = c]
    /\ pc' = [pc EXCEPT ![c] = "stream"]
    /\ replaying' = replaying \cup {c}
    /\ thread' = [thread EXCEPT ![t] = Fresh]
    /\ Save(t, Fresh)
    /\ UNCHANGED <<resume, Sources, Outside>>

\* _run(Command(resume=...)): the stream first yields the checkpoint's values.
StartResume(c) ==
    LET t == on[c] IN
    /\ pc[c] = "resume"
    /\ resume' = [resume EXCEPT ![t] = said[c]]
    /\ Save(t, thread[t])
    /\ pc' = [pc EXCEPT ![c] = IF thread[t].next = "end" THEN "settle" ELSE "stream"]
    /\ UNCHANGED <<thread, lock, replaying, Sources, Outside>>

-----------------------------------------------------------------------------
(* _run: one superstep of the graph, its checkpoint, and the public state  *)
(* that the stream yields for it.                                          *)

Commit(h, v) ==
    LET t == TaskOf(h) IN
    /\ thread' = [thread EXCEPT ![t] = v]
    /\ resume' = [resume EXCEPT ![t] = None]
    /\ Save(t, v)
    /\ pc' = [pc EXCEPT ![h] = IF v.next = "end" THEN "settle" ELSE "stream"]
    /\ UNCHANGED <<lock, replaying, Sources>>

AtRealWrite(t) == thread[t].next = "execution_agent" /\ WillWrite(req[t])

Superstep(h) ==
    LET t == TaskOf(h) IN
    /\ pc[h] = "stream"
    /\ thread[t].next # "approval_gate"
    /\ ~AtRealWrite(t)
    /\ Commit(h, RunNode(thread[t], req[t], enabled))
    /\ UNCHANGED Outside

\* approval_gate without a decision: interrupt ends the stream.
Interrupt(h) ==
    LET t == TaskOf(h) IN
    /\ pc[h] = "stream"
    /\ thread[t].next = "approval_gate" /\ resume[t] = None
    /\ Save(t, thread[t])
    /\ pc' = [pc EXCEPT ![h] = "settle"]
    /\ UNCHANGED <<thread, resume, lock, replaying, Sources, Outside>>

PassGate(h) ==
    LET t == TaskOf(h) IN
    /\ pc[h] = "stream"
    /\ thread[t].next = "approval_gate" /\ resume[t] # None
    /\ Commit(h, Gate(thread[t], resume[t]))
    /\ granted' = [granted EXCEPT ![t] = @ \/ resume[t] = "approve"]
    /\ UNCHANGED <<writing, attempts, landed>>

\* ExecutionAgent hands a real write to a thread (asyncio.to_thread) ...
BeginWrite(h) ==
    LET t == TaskOf(h) IN
    /\ pc[h] = "stream"
    /\ AtRealWrite(t)
    /\ pc' = [pc EXCEPT ![h] = "write"]
    /\ writing' = [writing EXCEPT ![t] = @ + 1]
    /\ attempts' = [attempts EXCEPT ![t] = @ + 1]
    /\ UNCHANGED <<tasks, stored, storedOwners, thread, resume, lock, replaying,
                   landed, granted, Sources>>

\* ... and gets its receipt, which does not tell whether the write took
\* effect: an HTTP error may follow the effect, while an insert under a key
\* that is already there and a redirect that is not followed are ok and wrote
\* nothing.
EndWrite(h, ok, effect) ==
    LET t == TaskOf(h) IN
    /\ pc[h] = "write"
    /\ writing' = [writing EXCEPT ![t] = @ - 1]
    /\ landed' = [landed EXCEPT ![t] = IF effect THEN @ + 1 ELSE @]
    /\ Commit(h, Execution(thread[t], IF ok THEN "ok" ELSE "failed"))
    /\ UNCHANGED <<attempts, granted>>

\* _store_graph_state: a thread with a node left to run awaits approval.
Settled(v) == IF v.next = "end" THEN v ELSE [v EXCEPT !.status = "awaiting_approval"]

Settle(h) ==
    LET t == TaskOf(h) IN
    /\ pc[h] = "settle"
    /\ Save(t, Settled(thread[t]))
    /\ Return(h)
    /\ UNCHANGED <<thread, resume, Sources, Outside>>

\* Mutated: the phase is put into the status.
Fail_PhaseAsStatus(h, why) ==
    LET t == TaskOf(h) IN
    /\ Save(t, [tasks[t] EXCEPT !.status = why])
    /\ Return(h)
    /\ UNCHANGED <<thread, resume, Sources, Outside>>

\* Mutated: the failure is not persisted.
Fail_Unsaved(h, why) ==
    /\ tasks' = [tasks EXCEPT ![TaskOf(h)].status = "needs_human",
                              ![TaskOf(h)].reason = why]
    /\ Return(h)
    /\ UNCHANGED <<stored, storedOwners, thread, resume, Sources, Outside>>

\* _fail.
Fail(h, why) ==
    LET t == TaskOf(h) IN
    /\ Save(t, [tasks[t] EXCEPT !.status = "needs_human", !.reason = why])
    /\ Return(h)
    /\ UNCHANGED <<thread, resume, Sources, Outside>>

\* asyncio.timeout cancels what the handler awaits in the stream.
Timeout(h) == pc[h] \in Driving /\ Fail(h, "timeout")

\* A worker raises.
NodeFails(h) ==
    /\ pc[h] = "stream"
    /\ thread[TaskOf(h)].next \in Workers
    /\ Fail(h, "failed")

-----------------------------------------------------------------------------
\* A write thread nobody awaits any more runs to its end.
OrphanWrite(t, effect) ==
    /\ writing[t] > 0
    /\ \A h \in Handlers : pc[h] = "write" => TaskOf(h) # t
    /\ writing' = [writing EXCEPT ![t] = @ - 1]
    /\ landed' = [landed EXCEPT ![t] = IF effect THEN @ + 1 ELSE @]
    /\ UNCHANGED <<tasks, stored, storedOwners, thread, resume, lock, pc, replaying,
                   attempts, granted, Sources>>

\* WorkspaceService gives the registry another set of enabled agents.
SetEnabled(agents) ==
    /\ enabled' = agents
    /\ UNCHANGED <<req, tasks, stored, owners, storedOwners, thread, resume, lock,
                   pc, on, said, replaying, creator, restarts, Outside>>

\* The process dies and starts again: what was in memory is read back from
\* the store or gone, and so are the handlers and the write threads; of the
\* writes under way, those in `effective` had taken effect.
Restart(effective) ==
    /\ restarts < MaxRestarts
    /\ restarts' = restarts + 1
    /\ tasks' = stored
    /\ owners' = storedOwners
    /\ thread' = [t \in Tasks |-> None]
    /\ resume' = [t \in Tasks |-> None]
    /\ lock' = [t \in Tasks |-> None]
    /\ pc' = [h \in Handlers |-> IF pc[h] = "idle" THEN "idle" ELSE "done"]
    /\ replaying' = {}
    /\ writing' = [t \in Tasks |-> 0]
    /\ landed' = [t \in Tasks |->
                    IF t \in effective THEN landed[t] + writing[t] ELSE landed[t]]
    /\ UNCHANGED <<req, stored, storedOwners, on, said, enabled, attempts, granted,
                   creator>>

-----------------------------------------------------------------------------
Drive(h) ==
    \/ Superstep(h)
    \/ Interrupt(h)
    \/ PassGate(h)
    \/ BeginWrite(h)
    \/ \E ok, effect \in BOOLEAN : EndWrite(h, ok, effect)
    \/ Settle(h)

Answer(c) == Refuse(c) \/ Accept(c) \/ AcceptAndReplay(c) \/ StartResume(c)

Next ==
    \/ \E t \in Tasks, r \in Requests, u \in Users \cup {NoUser} : CreateTask(t, r, u)
    \/ \E c \in Calls, t \in Tasks, d \in Decisions, u \in Users : Arrive(c, t, d, u)
    \/ \E c \in Calls : Answer(c)
    \/ \E h \in Handlers : Drive(h) \/ Timeout(h) \/ NodeFails(h)
    \/ \E t \in Tasks, effect \in BOOLEAN : OrphanWrite(t, effect)
    \/ \E agents \in EnabledChoices : SetEnabled(agents)
    \/ \E effective \in SUBSET Tasks : Restart(effective)

\* The event loop runs every handler that is ready; nodes and threads end.
Fairness ==
    /\ \A h \in Handlers : WF_vars(Drive(h))
    /\ \A c \in Calls : WF_vars(Answer(c))
    /\ \A t \in Tasks : WF_vars(\E effect \in BOOLEAN : OrphanWrite(t, effect))

Spec == Init /\ [][Next]_vars

FairSpec == Spec /\ Fairness

-----------------------------------------------------------------------------
(* Properties *)

TypeOK ==
    /\ req \in [Tasks -> RequestType \cup {None}]
    /\ tasks \in [Tasks -> Values \cup {None}]
    /\ stored \in [Tasks -> Values \cup {None}]
    /\ owners \in [Tasks -> Users \cup {NoUser}]
    /\ storedOwners \in [Tasks -> Users \cup {NoUser}]
    /\ thread \in [Tasks -> Values \cup {None}]
    /\ resume \in [Tasks -> Decisions \cup {None}]
    /\ lock \in [Tasks -> Calls \cup {None}]
    /\ pc \in [Handlers -> PCs]
    /\ on \in [Calls -> Tasks \cup {None}]
    /\ said \in [Calls -> Decisions \cup {None}]
    /\ replaying \in SUBSET Calls
    /\ enabled \in SUBSET Workers
    /\ writing \in [Tasks -> Nat]
    /\ attempts \in [Tasks -> Nat]
    /\ landed \in [Tasks -> Nat]
    /\ granted \in [Tasks -> BOOLEAN]
    /\ creator \in [Tasks -> Users \cup {NoUser}]
    /\ restarts \in Nat

\* Two handlers never drive the same thread: a decide call that waited for
\* the lock finds the task no longer awaiting approval, and create_task is
\* over before the task can be approved.
OneDriver ==
    \A g, h \in Handlers :
        /\ pc[g] \in Driving \cup {"resume"}
        /\ pc[h] \in Driving \cup {"resume"}
        /\ TaskOf(g) = TaskOf(h)
        => g = h

\* A task's real write is started once at most, whatever decide calls race,
\* whenever the process dies and whatever a replay repeats.
AtMostOneWrite ==
    \A t \in Tasks : attempts[t] <= 1 /\ landed[t] + writing[t] <= attempts[t]

\* A real write is started only for a request that asks for one and only
\* after an approval has passed the task's gate.
WriteNeedsApproval ==
    \A t \in Tasks : attempts[t] > 0 => granted[t] /\ WillWrite(req[t])

\* What is put before the approver is finished: only the gate and what it
\* guards are left of the plan, and the gate is what runs next.
AwaitingAtGate ==
    \A t \in Tasks :
        tasks[t] # None /\ tasks[t].status = "awaiting_approval" =>
            /\ "approval_gate" \in tasks[t].plan \ tasks[t].done
            /\ tasks[t].plan \ tasks[t].done \subseteq
                   {"approval_gate", "execution_agent", "verification_agent"}
            /\ thread[t] # None => thread[t].next = "approval_gate"

\* A task that was rejected or only planned has touched nothing outside.
RefusedIsUntouched ==
    \A t \in Tasks :
        tasks[t] # None /\ tasks[t].status \in {"rejected", "planned"} =>
            attempts[t] = 0 /\ landed[t] = 0

\* The verification agent vouches for a real write on its receipt and nothing
\* else (agents.py:563-599): the write was approved, it was started once, its
\* thread has ended, and what it answered is ok.
VerifiedOnItsReceipt ==
    \A t \in Tasks :
        tasks[t] # None /\ tasks[t].verdict = "verified" /\ WillWrite(req[t]) =>
            /\ granted[t]
            /\ attempts[t] = 1 /\ writing[t] = 0
            /\ tasks[t].exec = "ok"

\* The creator of a task keeps sight of it, over every later save and over
\* every restart.
OwnerKept ==
    \A t \in Tasks :
        tasks[t] # None => owners[t] = creator[t] /\ storedOwners[t] = creator[t]

\* A restart shows every task as it was shown before.
RestartLosesNothing == [][restarts' # restarts => tasks' = tasks]_vars

\* The service delivers what ApprovedWrite promises of a task's real write.
Stage ==
    [t \in Tasks |->
        IF attempts[t] = 0 THEN (IF granted[t] THEN "open" ELSE "sealed")
                           ELSE (IF landed[t] = 0 THEN "under way" ELSE "done")]

Promise == INSTANCE ApprovedWrite WITH stage <- Stage

KeepsPromise == Promise!Spec

\* Every call is answered: no run is left in the middle and no decide call
\* waits for the lock for ever.
EveryCallAnswered ==
    \A h \in Handlers : pc[h] # "idle" ~> pc[h] = "done"

\* What _fail tells the user, that automatic execution has stopped
\* (task_service.py:180), holds of the outside world.
StoppedMeansStopped ==
    [][\A t \in Tasks :
        tasks[t] # None /\ tasks[t].status = "needs_human" => landed'[t] = landed[t]]_vars

\* A task handed to a human stays so: the message of _fail says that nothing
\* runs any more and stream.ts:35 closes the stream on this status.
HandedOverIsFinal ==
    [][\A t \in Tasks :
        tasks[t] # None /\ tasks[t].status = "needs_human" =>
            tasks'[t].status = "needs_human"]_vars

\* A failure is only reported as a failure, never as a success
\* (execution.py:9-10): a final response reports no real write whose receipt
\* is not ok.
FailureIsReported ==
    \A t \in Tasks :
        tasks[t] # None /\ ReportsRealWrite(tasks[t]) => tasks[t].exec # "failed"

-----------------------------------------------------------------------------
(* The inductive invariant: why a write is approved and happens once.      *)

Active(h) == pc[h] \in Driving \cup {"resume"}

\* A task exists once its create_task call has begun.
CreateInv ==
    \A t \in Tasks :
        /\ pc[t] \notin {"lock", "resume"}
        /\ pc[t] = "idle" <=> tasks[t] = None
        /\ req[t] = None <=> tasks[t] = None
        /\ stored[t] = tasks[t]
        /\ tasks[t] = None => ~granted[t] /\ thread[t] = None
        /\ thread[t] = None => resume[t] = None

\* A decide call that drives a thread holds the lock of a task whose
\* create_task call is over.
LockInv ==
    \A c \in Calls :
        /\ pc[c] \notin {"idle", "done"} =>
              on[c] \in Tasks /\ said[c] \in Decisions /\ tasks[on[c]] # None
        /\ Active(c) => lock[on[c]] = c /\ pc[on[c]] = "done"
        /\ c \in replaying => pc[c] \in Driving

\* Every checkpoint is one a thread of its request can have.
ThreadInv ==
    \A t \in Tasks : thread[t] # None => ThreadOK(thread[t], req[t], granted[t])

\* The handler that drives a thread: once the gate has let an approval
\* through, the handler is past the gate and no other comes after it.
Driver(h) ==
    LET t == TaskOf(h) IN
    /\ thread[t] # None
    /\ tasks[t].status = "awaiting_approval" => pc[h] = "resume"
    /\ h \in replaying => resume[t] = None
    /\ pc[h] = "stream" => thread[t].next # "end"
    /\ pc[h] = "settle" => thread[t].next \in {"end", "approval_gate"}
    /\ granted[t] => /\ h \notin replaying /\ pc[h] # "resume"
                     /\ "approval_gate" \in thread[t].done

\* A task that awaits approval has not been approved, and nobody works on it.
GrantInv ==
    /\ \A t \in Tasks :
          tasks[t] # None /\ tasks[t].status = "awaiting_approval" =>
              pc[t] = "done" /\ ~granted[t]
    /\ \A h \in Handlers : Active(h) => Driver(h)

\* The handler that drives a thread whose write was started awaits the write
\* or is past it.
Writer(h) ==
    LET t == TaskOf(h) IN
    /\ pc[h] = "write" => AtRealWrite(t) /\ writing[t] = 1
    /\ attempts[t] > 0 => pc[h] = "write" \/ "execution_agent" \in thread[t].done

WriteInv ==
    /\ \A t \in Tasks :
          /\ attempts[t] <= 1
          /\ landed[t] + writing[t] <= attempts[t]
          /\ attempts[t] > 0 => granted[t] /\ WillWrite(req[t])
    /\ \A h \in Handlers : Active(h) => Writer(h)

IInv == TypeOK /\ CreateInv /\ LockInv /\ ThreadInv /\ GrantInv /\ WriteInv

=============================================================================
