---------------------------- MODULE RuntimePage ----------------------------
(***************************************************************************)
(* The conversations of app/workbench/runtime/page.tsx: one visit of the   *)
(* page, its list of tasks, the conversation it shows, the message that is *)
(* written, sent and decided upon.  POST /api/tasks and /approval answer   *)
(* when the run has settled, so the user has plenty of time in between.    *)
(* The event stream is module LiveTasks: here a patch is one step.  A task *)
(* is reduced to its conversation and its status, the order of the         *)
(* conversations to a choice, search words to the status filter, and what  *)
(* is written to the send that follows.                                    *)
(***************************************************************************)
EXTENDS Naturals, FiniteSets, PageRequest

CONSTANTS
    Tasks,     \* task ids
    Convs,     \* conversation ids
    MaxPosts,  \* bound: messages under way at once
    MaxClosed  \* bound: closed conversations

Status == {"running", "awaiting_approval", "completed"}
Task == [conv : Convs, status : Status]
NoTasks == [t \in Tasks |-> None]

VARIABLES
    db,         \* the server's tasks
    tasks,      \* the page's
    active, drafting, hidden,
    busy,
    posts,      \* POST /api/tasks under way: the task, and the conversation it was sent to
    decision,   \* the task of a POST /approval under way
    list,       \* the GET /api/tasks under way, or its answer
    waiting,    \* a send or a decide waits for the list
    joined,     \* history: whether a refresh has joined the list request that is
                \* under way ("now"), or the last one to end ("before"), or neither ("no")
    sent        \* history: the tasks the page has been given in answer to a POST

chat == <<active, drafting, hidden>>
wires == <<posts, decision, list, waiting, joined, sent>>
runtimeVars == <<db, tasks, chat, busy, wires>>

-----------------------------------------------------------------------------
Listed(rows) == {t \in Tasks : rows[t] # None}
conversationOf(rows, t) == rows[t].conv

\* The conversations the user has not closed.
conversations(rows, closed) == {conversationOf(rows, t) : t \in Listed(rows)} \ closed

\* The conversation the page shows.
current == IF active \in conversations(tasks, hidden) THEN active ELSE None

\* Mutated: the effect does not know of drafts.
AutoSelect_OverDraft(rows, closed, act, draft) ==
    IF act # None \/ conversations(rows, closed) = {} THEN {act} ELSE conversations(rows, closed)

\* The effect that follows every render: the first conversation is selected
\* unless one is, or the user has asked for a new one.
AutoSelect(rows, closed, act, draft) ==
    IF draft \/ act # None \/ conversations(rows, closed) = {} THEN {act} ELSE conversations(rows, closed)

Filters == {"all", "running", "awaiting_approval", "completed"}

\* The conversations the list offers under a filter, by their last task; any
\* task of one may be its last.
visibleList(filter) == {t \in Listed(tasks) :
    /\ conversationOf(tasks, t) \notin hidden
    /\ filter = "all" \/ tasks[t].status = filter}

\* loadResource with force: a request under way is joined all the same.
LoadTasks ==
    /\ list' = IF list = None THEN Asked ELSE list
    /\ joined' = IF list = None THEN joined ELSE "now"

-----------------------------------------------------------------------------
(* The list.                                                               *)

\* The button is dead while a refresh is under way; the retry, which is there
\* after a load has failed, is not.
refresh ==
    /\ LoadTasks
    /\ UNCHANGED <<db, tasks, chat, busy, posts, decision, waiting, sent>>

ListAnswer ==
    /\ list = Asked
    /\ list' = db
    /\ UNCHANGED <<db, tasks, chat, busy, posts, decision, waiting, joined, sent>>

\* Whoever waits for the list is done with it.
EndWait(answered) ==
    /\ waiting' = FALSE /\ busy' = (busy /\ ~waiting)
    /\ joined' = IF joined = "now" THEN "before" ELSE IF answered THEN "no" ELSE joined

ListArrives ==
    /\ Answered(list)
    /\ list' = None
    /\ tasks' = list
    /\ active' \in AutoSelect(list, hidden, active, drafting)
    /\ EndWait(TRUE)
    /\ UNCHANGED <<db, drafting, hidden, posts, decision, sent>>

ListFails ==
    /\ list # None
    /\ list' = None
    /\ EndWait(FALSE)
    /\ UNCHANGED <<db, tasks, chat, posts, decision, sent>>

isActiveTask(row) == row # None /\ row.status # "completed"

\* patchTask, for a task the page follows, or followed before a list without
\* it arrived: it is added again.
patchTask(t) ==
    /\ db[t] # None /\ (tasks[t] = None \/ isActiveTask(tasks[t]))
    /\ tasks' = [tasks EXCEPT ![t] = db[t]]
    /\ active' \in AutoSelect(tasks', hidden, active, drafting)
    /\ UNCHANGED <<db, drafting, hidden, busy, wires>>

-----------------------------------------------------------------------------
(* Conversations.                                                          *)

onSelect(t) ==
    /\ \E filter \in Filters : t \in visibleList(filter)
    /\ drafting' = FALSE /\ active' = conversationOf(tasks, t)
    /\ UNCHANGED <<db, tasks, hidden, busy, wires>>

\* Only the conversation that is shown has the button.
closeConversation(t) ==
    /\ Cardinality(hidden) < MaxClosed
    /\ \E filter \in Filters : t \in visibleList(filter)
    /\ conversationOf(tasks, t) = current
    /\ drafting' = FALSE
    /\ hidden' = hidden \cup {current}
    /\ active' \in AutoSelect(tasks, hidden', None, FALSE)
    /\ UNCHANGED <<db, tasks, busy, wires>>

restoreConversations ==
    /\ hidden # {}
    /\ hidden' = {}
    /\ active' \in AutoSelect(tasks, {}, active, drafting)
    /\ UNCHANGED <<db, tasks, drafting, busy, wires>>

startNewConversation ==
    /\ drafting' = TRUE /\ active' = None
    /\ UNCHANGED <<db, tasks, hidden, busy, wires>>

\* What the panel of conversations offers.
SessionsPanel ==
    \/ refresh \/ restoreConversations \/ startNewConversation
    \/ \E t \in Tasks : onSelect(t) \/ closeConversation(t)

-----------------------------------------------------------------------------
(* A message.                                                              *)

\* The form of the write target; a send does not clear it.
WriteForms == {"none", "valid", "invalid"}

\* A body or a row that is not JSON is no target.
buildExecutionTarget(write) == write # "invalid"

\* Ids are random, and never ones that something has.
FreeTasks == {t \in Tasks : db[t] = None /\ \A p \in posts : p.task # t}
FreeConvs == Convs \ (conversations(db, {}) \cup {p.conv : p \in posts})

\* A message, after `active` where there is one.  Without a target it is not
\* sent, and the page is not busy any more, even where another is under way.
send ==
    /\ \E write \in WriteForms :
          \/ ~buildExecutionTarget(write) /\ busy' = FALSE /\ UNCHANGED posts
          \/ /\ buildExecutionTarget(write) /\ Cardinality(posts) < MaxPosts
             /\ busy' = TRUE
             /\ \E t \in FreeTasks, c \in (IF active # None THEN {active} ELSE FreeConvs) :
                   posts' = posts \cup {[task |-> t, conv |-> c]}
    /\ UNCHANGED <<db, tasks, chat, decision, list, waiting, joined, sent>>

\* The button is dead while busy, but Enter submits the form all the same,
\* whatever has been typed: three characters are enough.
TaskComposer == send

\* The server stores the task and runs it; with a target it stops at the gate.
CreateOnServer(p) ==
    /\ p \in posts /\ db[p.task] = None
    /\ db' = [db EXCEPT ![p.task] = [conv |-> p.conv, status |-> "running"]]
    /\ UNCHANGED <<tasks, chat, busy, wires>>

Settle(t, s) ==
    /\ db[t] # None /\ db[t].status = "running" /\ s # "running"
    /\ db' = [db EXCEPT ![t].status = s]
    /\ UNCHANGED <<tasks, chat, busy, wires>>

\* Mutated: the list is not read again.
SendArrives_NoRefresh(p) ==
    /\ p \in posts /\ db[p.task] # None /\ db[p.task].status # "running"
    /\ posts' = posts \ {p}
    /\ tasks' = [tasks EXCEPT ![p.task] = db[p.task]]
    /\ sent' = sent \cup {p.task}
    /\ drafting' = FALSE /\ active' = p.conv
    /\ busy' = FALSE
    /\ UNCHANGED <<db, hidden, decision, list, waiting, joined>>

\* The answer: the task is added, its conversation shown, even where the user
\* has started another or closed this one, and the list is read again.
SendArrives(p) ==
    /\ p \in posts /\ db[p.task] # None /\ db[p.task].status # "running"
    /\ posts' = posts \ {p}
    /\ tasks' = [tasks EXCEPT ![p.task] = db[p.task]]
    /\ sent' = sent \cup {p.task}
    /\ drafting' = FALSE /\ active' = p.conv
    /\ LoadTasks /\ waiting' = TRUE
    /\ UNCHANGED <<db, hidden, busy, decision>>

\* The request fails before the server has stored the task, or later.
SendFails(p) ==
    /\ p \in posts
    /\ posts' = posts \ {p}
    /\ busy' = FALSE
    /\ UNCHANGED <<db, tasks, chat, decision, list, waiting, joined, sent>>

-----------------------------------------------------------------------------
(* A decision.                                                             *)

decide(t) ==
    /\ t \in Listed(tasks) /\ tasks[t].status = "awaiting_approval"
    /\ conversationOf(tasks, t) = current
    /\ ~busy /\ decision = None
    /\ busy' = TRUE
    /\ decision' = t
    /\ UNCHANGED <<db, tasks, chat, posts, list, waiting, joined, sent>>

\* The run that a decision resumes is one step: the page follows a task that
\* waits and one that runs alike.
DecideOnServer ==
    /\ decision # None /\ db[decision] # None
    /\ db[decision].status = "awaiting_approval"
    /\ db' = [db EXCEPT ![decision].status = "completed"]
    /\ UNCHANGED <<tasks, chat, busy, wires>>

DecideArrives ==
    /\ decision # None /\ db[decision].status = "completed"
    /\ decision' = None
    /\ LoadTasks /\ waiting' = TRUE
    /\ UNCHANGED <<db, tasks, chat, busy, posts, sent>>

DecideFails ==
    /\ decision # None
    /\ decision' = None
    /\ busy' = FALSE
    /\ UNCHANGED <<db, tasks, chat, posts, list, waiting, joined, sent>>

-----------------------------------------------------------------------------
\* The page opens with an empty list and a request for it, and knows which
\* conversations were closed on an earlier visit.
RuntimeInit ==
    /\ db = NoTasks
    /\ tasks = NoTasks
    /\ hidden \in {h \in SUBSET Convs : Cardinality(h) <= MaxClosed}
    /\ active = None /\ drafting = FALSE /\ busy = FALSE
    /\ posts = {} /\ decision = None /\ list = Asked /\ waiting = FALSE
    /\ joined = "no" /\ sent = {}

RuntimeNext ==
    \/ SessionsPanel \/ TaskComposer
    \/ ListAnswer \/ ListArrives \/ ListFails
    \/ \E t \in Tasks :
        \/ patchTask(t) \/ decide(t)
        \/ \E s \in Status : Settle(t, s)
    \/ \E p \in posts : CreateOnServer(p) \/ SendArrives(p) \/ SendFails(p)
    \/ DecideOnServer \/ DecideArrives \/ DecideFails

-----------------------------------------------------------------------------
RuntimeTypeOK ==
    /\ db \in [Tasks -> Task \cup {None}] /\ tasks \in [Tasks -> Task \cup {None}]
    /\ active \in Convs \cup {None} /\ drafting \in BOOLEAN /\ hidden \subseteq Convs
    /\ busy \in BOOLEAN
    /\ posts \subseteq [task : Tasks, conv : Convs] /\ decision \in Tasks \cup {None}
    /\ list \in {Asked, None} \cup [Tasks -> Task \cup {None}]
    /\ waiting \in BOOLEAN /\ joined \in {"no", "now", "before"} /\ sent \subseteq Tasks

\* Once the user has asked for a new conversation, it stays asked for, and none
\* is selected, until the user selects one or a message that was sent before
\* is answered: no list, patch, restored conversation or decision takes the
\* message that is written to an old conversation (page.tsx:246-252).
DraftIsLeftAlone ==
    [][drafting => \/ drafting' /\ active' = None
                   \/ \E t \in Tasks : onSelect(t) \/ closeConversation(t)
                   \/ \E p \in posts : SendArrives(p)]_runtimeVars

\* The comments at page.tsx:125 and 246-248: once the user has asked for a new
\* conversation and until its first message is sent, nothing but the user
\* selects an old one.  A conversation is old if the page lists a task of it
\* whose answer it does not await; what is sent while drafting makes a new one.
OldStaysUnselected ==
    [][drafting /\ ~(\E t \in Tasks : onSelect(t)) =>
           active' \notin {conversationOf(tasks, t) :
                              t \in Listed(tasks) \ {p.task : p \in posts}}]_runtimeVars

\* A task the page has been given stays in its list, whatever lists, patches
\* and other messages arrive later, unless a refresh has joined a request
\* that was under way, whose answer may be older (page.tsx:384-393,
\* resource-cache.ts:45).
SentStays == sent \subseteq Listed(tasks) \/ joined # "no"

=============================================================================
