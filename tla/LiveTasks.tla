----------------------------- MODULE LiveTasks -----------------------------
(***************************************************************************)
(* The runtime page's hold on one task: the list of tasks it loads through *)
(* the resource cache, useTaskStream, and patchTask, which fetches a task  *)
(* whenever the stream says that it changed.                               *)
(*                                                                         *)
(* A version of the task is a position in its log of events; 0 is a list   *)
(* without the task.  React applies setTasks when it is called and runs    *)
(* the effect of the hook after a later render, and only if the hook's     *)
(* dependencies differ from those of the render before.                    *)
(***************************************************************************)
EXTENDS EventStream, FiniteSetsExt

CONSTANTS
    MaxPatches,  \* bound on patchTask calls under way
    MaxVisits,   \* bound on times the page is opened
    Asked,       \* a request the server has not answered
    None         \* no cache entry, no request

ASSUME PageBounds ==
    /\ MaxPatches \in Nat \ {0} /\ MaxVisits \in Nat
    /\ Asked \notin Nat /\ None \notin Nat /\ Asked # None

Versions == 0 .. MaxEvents

VARIABLES
    mounted,   \* the page is open
    tasks,     \* the version its list shows
    mode,      \* streamMode
    deps,      \* the dependencies of the hook's effect when it last ran
    tag,       \* StreamStatus
    asked,     \* patchTask requests the server has not answered
    answers,   \* its answers not yet applied: how many of each version
    list,      \* the request for TASKS_KEY in inflight, or its answer
    waiting,   \* a load of this page awaits it
    cache,     \* the entry of TASKS_KEY, whose age is not followed
    missed,    \* history: the last word on the task did not get through
    visits

hook == <<deps, tag>>
requests == <<asked, answers, list, waiting>>
page == <<mounted, tasks, mode, hook, requests, cache, missed, visits>>
vars == <<streamVars, page>>

-----------------------------------------------------------------------------
\* The status GET /api/tasks reports at a version: approval.received changes
\* none.
Status(v) ==
    IF log[v] = "started" THEN "running"
    ELSE IF log[v] = "received" THEN log[v - 1] ELSE log[v]

isActiveTask(v) == v # 0 /\ Status(v) \notin TERMINAL

\* enabled, and whether key holds the task.
Wanted == [enabled |-> mode = "live", task |-> isActiveTask(tasks)]

NoDeps == [enabled |-> FALSE, task |-> FALSE]

Listening == source \in {"connecting", "open"}

Patches == asked + MapThenSumSet(LAMBDA v : answers[v], Versions)

UnderWay == asked # 0 \/ (\E v \in Versions : answers[v] # 0) \/ waiting

\* setTasks, with the version the list showed when the updater runs.  An
\* older answer that lands in the render of a newer one hides it: the
\* effect sees the dependencies it has seen before.
SetTasks(v) ==
    /\ tasks' = v
    /\ missed' = (missed \/ (v < tasks /\ ~Listening))

-----------------------------------------------------------------------------
(* The resource cache and the list.                                        *)

\* loadResource with the list's key, and load's use of what it returns: an
\* entry younger than 1.5 seconds, or else the answer to a request, and a
\* request that is under way is joined, force or not.
Load(force) ==
    \/ ~force /\ cache # None /\ tasks' = cache /\ UNCHANGED <<list, waiting>>
    \/ /\ list' = IF list = None THEN Asked ELSE list
       /\ waiting' = TRUE
       /\ tasks' = IF force \/ cache = None THEN tasks ELSE cache

\* The page is opened: the state of its list comes from the cache, and the
\* mount effects run.
Enter ==
    /\ ~mounted /\ visits < MaxVisits
    /\ mounted' = TRUE
    /\ visits' = visits + 1
    /\ missed' = FALSE
    /\ Load(FALSE)
    /\ deps' = NoDeps /\ tag' = "off"
    /\ UNCHANGED <<streamVars, mode, asked, answers, cache>>

\* refresh: the panel's button, its retry and the error's.
Refresh ==
    /\ mounted
    /\ Load(TRUE)
    /\ UNCHANGED <<streamVars, mounted, mode, hook, asked, answers, cache, missed,
                   visits>>

ListAnswer ==
    /\ list = Asked
    /\ list' = Len(log)
    /\ UNCHANGED <<streamVars, mounted, tasks, mode, hook, asked, answers, waiting,
                   cache, missed, visits>>

\* The answer arrives: the cache keeps it, whoever asked, and the page that
\* waits for it shows it.
ListArrives ==
    /\ list \in Versions
    /\ list' = None
    /\ cache' = list
    /\ waiting' = FALSE
    /\ IF waiting THEN SetTasks(list) ELSE UNCHANGED <<tasks, missed>>
    /\ UNCHANGED <<streamVars, mounted, mode, hook, asked, answers, visits>>

\* The request fails: load says so and leaves the list as it is.
ListFails ==
    /\ list # None
    /\ list' = None
    /\ waiting' = FALSE
    /\ UNCHANGED <<streamVars, mounted, tasks, mode, hook, asked, answers, cache,
                   missed, visits>>

-----------------------------------------------------------------------------
(* patchTask.                                                              *)

PatchAnswer ==
    /\ asked # 0
    /\ asked' = asked - 1
    /\ answers' = [answers EXCEPT ![Len(log)] = @ + 1]
    /\ UNCHANGED <<streamVars, mounted, tasks, mode, hook, list, waiting, cache,
                   missed, visits>>

\* The updater replaces or appends the task and primes the cache with the
\* list; a page that is gone runs no updater.
PatchArrives(v) ==
    /\ answers[v] # 0
    /\ answers' = [answers EXCEPT ![v] = @ - 1]
    /\ IF mounted THEN SetTasks(v) /\ cache' = v ELSE UNCHANGED <<tasks, missed, cache>>
    /\ UNCHANGED <<streamVars, mounted, mode, hook, asked, list, waiting, visits>>

\* The fetch fails and nobody is told; only an event of a stream that is
\* still open asks again.
PatchFails ==
    /\ asked # 0
    /\ asked' = asked - 1
    /\ missed' = (missed \/ ~Listening)
    /\ UNCHANGED <<streamVars, mounted, tasks, mode, hook, answers, list, waiting,
                   cache, visits>>

-----------------------------------------------------------------------------
(* useTaskStream.                                                          *)

chooseStreamMode(m) ==
    /\ mounted /\ m # mode
    /\ mode' = m
    /\ UNCHANGED <<streamVars, mounted, tasks, hook, requests, cache, missed, visits>>

\* Mutated: the tag is left alone when the sources are closed.
Effect_KeepsTag ==
    /\ deps' = Wanted
    /\ tag' = IF ~(Wanted.enabled /\ Wanted.task) THEN tag
              ELSE IF tag = "live" THEN "live" ELSE "connecting"
    /\ IF ~(Wanted.enabled /\ Wanted.task) THEN LetGo
       ELSE IF source = "none" THEN Open ELSE UNCHANGED conn

\* The body of the hook's effect.
Effect ==
    /\ deps' = Wanted
    /\ tag' = IF ~(Wanted.enabled /\ Wanted.task) THEN "off"
              ELSE IF tag = "live" THEN "live" ELSE "connecting"
    /\ IF ~(Wanted.enabled /\ Wanted.task) THEN LetGo
       ELSE IF source = "none" THEN Open ELSE UNCHANGED conn

\* A render whose dependencies differ runs the effect.
RunEffect ==
    /\ mounted
    /\ deps # Wanted
    /\ Effect
    /\ missed' = (missed /\ ~(Wanted.enabled /\ Wanted.task /\ source = "none"))
    /\ UNCHANGED <<server, faults, mounted, tasks, mode, requests, cache, visits>>

\* Mutated: nothing is fetched once the source is closed.
Relay_EndIsNoNews ==
    /\ source = "open" /\ pipe # <<>> /\ Head(pipe).event # Heartbeat
    /\ Patches < MaxPatches
    /\ tag' = "live"
    /\ IF Head(pipe).event \in TERMINAL
       THEN LetGo /\ UNCHANGED asked
       ELSE Dispatch /\ asked' = asked + 1 /\ UNCHANGED <<gen, cursor, source>>

\* The listener of the three events: the end of the task closes the source,
\* and every event asks for the task.
Relay ==
    /\ source = "open" /\ pipe # <<>> /\ Head(pipe).event # Heartbeat
    /\ Patches < MaxPatches
    /\ tag' = "live"
    /\ asked' = asked + 1
    /\ IF Head(pipe).event \in TERMINAL
       THEN LetGo
       ELSE Dispatch /\ UNCHANGED <<gen, cursor, source>>

Hear ==
    /\ Relay
    /\ UNCHANGED <<server, faults, mounted, tasks, mode, deps, answers, list, waiting,
                   cache, missed, visits>>

HearBeat ==
    /\ source = "open" /\ pipe # <<>> /\ Head(pipe).event = Heartbeat
    /\ Dispatch /\ UNCHANGED <<gen, cursor, source>>
    /\ tag' = IF tag = "off" THEN "off" ELSE "live"
    /\ UNCHANGED <<server, faults, mounted, tasks, mode, deps, requests, cache, missed,
                   visits>>

\* onerror: a connection that was lost or refused.
Lose ==
    /\ \/ Drop
       \/ Refuse
       \/ Restart
    /\ tag' = IF source' # source THEN "lost" ELSE tag
    /\ missed' = (missed \/ source' = "dead")
    /\ UNCHANGED <<mounted, tasks, mode, deps, requests, cache, visits>>

\* Mutated: the page goes and leaves the source open.
Leave_KeepsSource ==
    /\ mounted
    /\ mounted' = FALSE
    /\ waiting' = FALSE
    /\ tasks' = 0
    /\ deps' = NoDeps /\ tag' = "off"
    /\ UNCHANGED <<streamVars, mode, asked, answers, list, cache, missed, visits>>

\* The page is left: the cleanup closes the sources, requests go on.
Leave ==
    /\ mounted
    /\ mounted' = FALSE
    /\ waiting' = FALSE
    /\ tasks' = 0
    /\ deps' = NoDeps /\ tag' = "off"
    /\ LetGo
    /\ UNCHANGED <<server, faults, mode, asked, answers, list, cache, missed, visits>>

-----------------------------------------------------------------------------
Init ==
    /\ StreamInit
    /\ mounted = FALSE /\ tasks = 0 /\ mode = "live" /\ visits = 0
    /\ deps = NoDeps /\ tag = "off"
    /\ asked = 0 /\ answers = [v \in Versions |-> 0]
    /\ list = None /\ waiting = FALSE
    /\ cache = None /\ missed = FALSE

Serve == Server /\ UNCHANGED page

Next ==
    \/ Serve
    \/ Enter \/ Leave \/ Refresh
    \/ ListAnswer \/ ListArrives \/ ListFails
    \/ PatchAnswer \/ PatchFails
    \/ \E v \in Versions : PatchArrives(v)
    \/ \E m \in {"live", "manual"} : chooseStreamMode(m)
    \/ RunEffect \/ Hear \/ HearBeat \/ Lose

\* The generator gets its turn, requests are answered or fail, React renders,
\* and the browser reconnects and delivers.  Whether a run goes on, whether a
\* heartbeat helps and what the user does is not promised.
Fairness ==
    /\ WF_vars((Subscribe \/ Yield \/ Wait) /\ UNCHANGED page)
    /\ WF_vars(PatchAnswer \/ PatchFails \/ \E v \in Versions : PatchArrives(v))
    /\ WF_vars(ListAnswer \/ ListArrives \/ ListFails)
    /\ WF_vars(RunEffect)
    /\ WF_vars(Hear \/ HearBeat)

Spec == Init /\ [][Next]_vars

FairSpec == Spec /\ Fairness

-----------------------------------------------------------------------------
TypeOK ==
    /\ StreamTypeOK
    /\ mounted \in BOOLEAN /\ tasks \in Versions /\ mode \in {"live", "manual"}
    /\ deps \in [enabled : BOOLEAN, task : BOOLEAN]
    /\ tag \in {"off", "connecting", "live", "lost"}
    /\ asked \in Nat /\ answers \in [Versions -> Nat]
    /\ list \in Versions \cup {None, Asked} /\ waiting \in BOOLEAN
    /\ cache \in Versions \cup {None}
    /\ missed \in BOOLEAN /\ visits \in Nat

\* A source is only ever held by an open page in live mode whose last render
\* showed the task as unfinished: leaving the page, the switch to manual and
\* the end of the task each give it up, whatever is still under way.
SourceIsWanted ==
    source # "none" => mounted /\ deps.enabled /\ deps.task

\* A decide call went on with the task after its replay had ended: the stream
\* gives the source up at the first end it hears, and the key of the hook is
\* the task's id, so the page hears nothing of what follows.
TakenUpAgain ==
    \E i, j \in 1 .. Len(log) : i <= j /\ log[i] \in TERMINAL /\ log[j] \notin TERMINAL

\* Unless the task was taken up again after an end, the tag of the toolbar
\* says that the stream is up, or coming, only while a source is, or an effect
\* or a fetch that will correct it is due.
TagIsTrue ==
    tag \in {"live", "connecting"} =>
        Listening \/ deps # Wanted \/ UnderWay \/ missed \/ TakenUpAgain

\* A task that has ended stops being shown as unfinished by a page that
\* follows it live, unless the fetch of the last word on it failed or was
\* overtaken by an older answer of the same render, or the task was taken up
\* again after an end, when the page may show it as running for good.
Ended == log # <<>> /\ log[Len(log)] \in TERMINAL

EndIsShown ==
    (Ended /\ mounted /\ mode = "live" /\ tasks # 0)
        ~> (~isActiveTask(tasks) \/ missed \/ TakenUpAgain \/ ~mounted \/ mode = "manual")

\* The comment in stream.ts: a task that has ended does not keep a connection.
EndLetsGo == (Ended /\ source # "none") ~> ~Listening

\* A tab that listens hears everything, the pause at the gate included, with
\* no help from the heartbeat and whatever connections are lost.
EventuallyHeard == []<>(Listening => got = log)

=============================================================================
