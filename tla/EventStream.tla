---------------------------- MODULE EventStream ----------------------------
(***************************************************************************)
(* The events of one task on their way to one tab: TaskService._publish    *)
(* and events, the route GET /api/tasks/{id}/events, the connection, and   *)
(* the browser's EventSource.  Tasks share nothing here (each has a list   *)
(* of events and a condition of its own), and neither do tabs.             *)
(*                                                                         *)
(* events is a generator that drains the list and then waits on the        *)
(* condition for at most 15 seconds.  Both sides queue for the condition's *)
(* lock in the step in which they touch the list, and the lock is first    *)
(* come, first served: who has found the list drained is among the waiters *)
(* before the next event's notify_all.  So appending and notifying are one *)
(* step here, and so are finding the list drained and waiting.  The        *)
(* process may die; it rebuilds the list from the events table.            *)
(***************************************************************************)
EXTENDS Naturals, Sequences

CONSTANTS
    MaxEvents,   \* bound on the events of the task
    MaxPipe,     \* events under way in a connection before yield blocks
    MaxFaults    \* bound on connections lost or refused, and restarts

ASSUME Bounds ==
    MaxEvents \in Nat /\ MaxPipe \in Nat \ {0} /\ MaxFaults \in Nat

\* An event is named by the status it carries: task.started and
\* approval.received carry none, and "completed" stands for every end
\* (failed, rejected, planned, needs_human).
Events == {"started", "running", "awaiting_approval", "received", "completed"}
TERMINAL == {"completed"}
Heartbeat == "heartbeat"

VARIABLES
    log,        \* TaskService._events[t]
    stored,     \* the task's rows of the events table
    driver,     \* what drives the task in this process: "none", "run", "replay"
    gen,        \* where the generator is: "none", "read", "wait"
    cursor,     \* its cursor
    source,     \* the EventSource: "none", "connecting", "open", "dead"
    lastId,     \* its last event id
    pipe,       \* what is under way to it
    got,        \* history: the task's events it has dispatched
    faults

server == <<log, stored, driver>>
conn == <<gen, cursor, source, lastId, pipe, got>>
streamVars == <<server, conn, faults>>

-----------------------------------------------------------------------------
LastEvent == IF log = <<>> THEN "none" ELSE log[Len(log)]
EventBefore == IF Len(log) < 2 THEN "none" ELSE log[Len(log) - 1]

\* The task that a restart finds is at its gate: approval.received is not
\* followed by a save until the first superstep.
SavedAtGate ==
    \/ LastEvent = "awaiting_approval"
    \/ LastEvent = "received" /\ EventBefore = "awaiting_approval"

\* An end is published by the last superstep and again with the stored graph
\* state, or with _fail in the place of either.  A rejection is published by
\* the gate's superstep too.
LastEnd ==
    /\ LastEvent = "completed" /\ EventBefore = "completed"
    /\ driver = "run" /\ (\E i \in DOMAIN log : log[i] = "received")
          => log[Len(log) - 2] = "completed"

\* The order in which a task's handlers publish (see TaskService).  After a
\* restart only a decide call goes on with a task, and it runs the thread
\* again from its start before it takes the decision, which it then does
\* whatever became of that replay: an end of the replay is not the last word.
Follows(e) ==
    \/ log = <<>> /\ e = "started"
    \/ driver = "none" /\ SavedAtGate /\ e \in {"running", "completed"}
    \/ /\ driver # "none"
       /\ LastEvent \in {"started", "running", "received"}
       /\ e \in Events \ {"started", "received"}
    \/ driver # "none" /\ LastEvent = "completed" /\ ~LastEnd /\ e = "completed"
    \/ driver = "run" /\ LastEvent = "awaiting_approval" /\ e = "received"
    \/ driver = "replay" /\ LastEvent \in {"awaiting_approval", "completed"} /\ e = "received"

Drives(e) ==
    driver' = IF e \in {"started", "received"} THEN "run"
              ELSE IF driver = "none" THEN "replay" ELSE driver

\* Mutated: the waiters are left to their timeouts.
Publish_Silently(e) ==
    /\ Len(log) < MaxEvents /\ Follows(e)
    /\ log' = Append(log, e)
    /\ stored' = Append(stored, e)
    /\ Drives(e)
    /\ UNCHANGED <<conn, faults>>

\* _publish: the list, the table, notify_all.
Publish(e) ==
    /\ Len(log) < MaxEvents /\ Follows(e)
    /\ log' = Append(log, e)
    /\ stored' = Append(stored, e)
    /\ Drives(e)
    /\ gen' = IF gen = "wait" THEN "read" ELSE gen
    /\ UNCHANGED <<cursor, source, lastId, pipe, got, faults>>

\* Mutated: the header is not looked at.
Subscribe_FromStart ==
    /\ source = "connecting" /\ log # <<>>
    /\ source' = "open"
    /\ gen' = "read"
    /\ cursor' = 0
    /\ UNCHANGED <<server, lastId, pipe, got, faults>>

\* The route: the task is visible, and last-event-id says where to go on.
Subscribe ==
    /\ source = "connecting" /\ log # <<>>
    /\ source' = "open"
    /\ gen' = "read"
    /\ cursor' = lastId
    /\ UNCHANGED <<server, lastId, pipe, got, faults>>

\* Mutated: the last event of the list is left for later.
Behind_ButOne == cursor + 1 < Len(log)

Behind == cursor < Len(log)

\* Mutated: the id is the position from which the event was read.
Yield_OldId ==
    /\ gen = "read" /\ Behind /\ Len(pipe) < MaxPipe
    /\ cursor' = cursor + 1
    /\ pipe' = Append(pipe, [id |-> cursor, event |-> log[cursor + 1]])
    /\ UNCHANGED <<server, gen, source, lastId, got, faults>>

\* An event, under the id of the cursor after it.
Yield ==
    /\ gen = "read" /\ Behind /\ Len(pipe) < MaxPipe
    /\ cursor' = cursor + 1
    /\ pipe' = Append(pipe, [id |-> cursor + 1, event |-> log[cursor + 1]])
    /\ UNCHANGED <<server, gen, source, lastId, got, faults>>

\* The list is drained.
Wait ==
    /\ gen = "read" /\ ~Behind
    /\ gen' = "wait"
    /\ UNCHANGED <<server, cursor, source, lastId, pipe, got, faults>>

\* TimeoutError after 15 seconds: a heartbeat, and the list is read again.
Beat ==
    /\ gen = "wait" /\ Len(pipe) < MaxPipe
    /\ gen' = "read"
    /\ pipe' = Append(pipe, [id |-> cursor, event |-> Heartbeat])
    /\ UNCHANGED <<server, cursor, source, lastId, got, faults>>

\* The browser dispatches what arrives first and keeps its id.
Dispatch ==
    /\ source = "open" /\ pipe # <<>>
    /\ lastId' = Head(pipe).id
    /\ pipe' = Tail(pipe)
    /\ got' = IF Head(pipe).event = Heartbeat THEN got
              ELSE Append(got, Head(pipe).event)

\* Mutated: it is closed and stays in the map.
LetGo_NotRemoved ==
    /\ source' = "closed"
    /\ gen' = "none" /\ cursor' = 0 /\ lastId' = 0
    /\ pipe' = <<>> /\ got' = <<>>

\* The EventSource is closed and leaves the map of sources.
LetGo ==
    /\ source' = "none"
    /\ gen' = "none" /\ cursor' = 0 /\ lastId' = 0
    /\ pipe' = <<>> /\ got' = <<>>

\* new EventSource: it asks for the log from its start.
Open ==
    /\ source' = "connecting"
    /\ gen' = "none" /\ cursor' = 0 /\ lastId' = 0
    /\ pipe' = <<>> /\ got' = <<>>

\* The connection is lost: the browser comes back with the id it has.
Disconnect ==
    /\ source' = "connecting"
    /\ gen' = "none" /\ cursor' = 0 /\ pipe' = <<>>
    /\ UNCHANGED <<lastId, got>>

Drop ==
    /\ source = "open" /\ faults < MaxFaults
    /\ faults' = faults + 1
    /\ Disconnect
    /\ UNCHANGED server

\* An answer other than 200: the browser does not try again.
Refuse ==
    /\ source = "connecting" /\ faults < MaxFaults
    /\ faults' = faults + 1
    /\ source' = "dead"
    /\ UNCHANGED <<server, gen, cursor, lastId, pipe, got>>

\* Every connection is lost, and _events is what the table holds.
Restart ==
    /\ faults < MaxFaults
    /\ faults' = faults + 1
    /\ log' = stored
    /\ driver' = "none"
    /\ IF source = "open" THEN Disconnect ELSE UNCHANGED conn
    /\ UNCHANGED stored

-----------------------------------------------------------------------------
StreamInit ==
    /\ log = <<>> /\ stored = <<>> /\ driver = "none"
    /\ source = "none" /\ gen = "none"
    /\ cursor = 0 /\ lastId = 0 /\ pipe = <<>> /\ got = <<>>
    /\ faults = 0

\* What happens without the tab's doing.
Server ==
    \/ \E e \in Events : Publish(e)
    \/ Subscribe \/ Yield \/ Wait \/ Beat

\* What the tab does, in whatever order it likes.
Client ==
    /\ \/ source = "none" /\ Open
       \/ source # "none" /\ LetGo
       \/ Dispatch /\ UNCHANGED <<gen, cursor, source>>
    /\ UNCHANGED <<server, faults>>

StreamNext == Server \/ Client \/ Drop \/ Refuse \/ Restart

StreamSpec == StreamInit /\ [][StreamNext]_streamVars

-----------------------------------------------------------------------------
Entry == [id : Nat, event : Events \cup {Heartbeat}]

StreamTypeOK ==
    /\ log \in Seq(Events) /\ stored \in Seq(Events)
    /\ driver \in {"none", "run", "replay"}
    /\ source \in {"none", "connecting", "open", "dead"}
    /\ gen \in {"none", "read", "wait"}
    /\ cursor \in Nat /\ lastId \in Nat
    /\ pipe \in Seq(Entry) /\ got \in Seq(Events)
    /\ faults \in Nat

\* The ids a browser keeps are positions in a list that a restart rebuilds.
\* What it has heard is the log up to the id it will come back with, whatever
\* was lost on the way (task_service.py:155, main.py:259).
HeardUpToId == got = SubSeq(log, 1, lastId) /\ lastId <= Len(log)

\* The stream as a log and a listener.
Feed == INSTANCE TaskLog WITH log <- stored, got <- got

\* A tab hears the log of a task from its first event on, in order, leaving
\* nothing out and hearing nothing twice (task_service.py:145, stream.ts:73).
InOrder == Feed!Spec

=============================================================================
