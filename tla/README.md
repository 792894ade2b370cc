# Neptune Multi-agent Workspace: TLA+ models and proofs

Neptune runs tasks through a graph of agents, stops before anything that changes the outside world
until somebody approves it, and can run tasks on a schedule. The modules here model the parts in
which that can go wrong between two steps: the task service with its approval gate and its write
thread, the schedules loop, the sessions of browsers that renew their tokens, the event stream of a
task, and the pages of the web application, whose requests overlap with what their user does. TLC
checks them on small instances; TLAPS proves most of the safety properties for every value of the
constants.

## 1. The system

The server is one Python process with one event loop (FastAPI). State is kept in SQLite, except the
graph's checkpoints, which are in memory. The web application is a set of Next.js pages over the
HTTP API.

| Component | State | Operations | Talks to |
|---|---|---|---|
| Capabilities and intake (`capabilities.py`, `agents.py`) | set of enabled agents | classify, assess risk, `plan_for`, `set_enabled` | task graph |
| Task graph (`graph.py`, `agents.py`, `state.py`) | values of a thread | one node per agent; the gate interrupts | reasoner, tools |
| Task service (`task_service.py`, `task_store.py`) | tasks and owners in memory and in the store, threads, locks, events | `create_task`, `decide`, `events`, views | task graph, workspace, store |
| Tool registry and write adapters (`tools.py`, `execution.py`) | snapshots, the idempotent table | `ainvoke`, `execute`, `restore` | threads, files, HTTP |
| Schedules (`schedules.py`) | table, loop | create, update, delete, run now, tick | task service |
| Event stream (`task_service.py`, `stream.ts`) | event lists, conditions, EventSources | publish, subscribe, reconnect | pages |
| Accounts and sessions (`auth.py`, `auth_store.py`, `security.py`; `api.ts`, `provider.tsx`) | users, refresh tokens, lockout | login, refresh, logout, change password, revoke | every route |
| Registration (`auth.py`, `mailer.py`) | challenges | captcha, e-mail code, register | mail server |
| Workspace, skills, MCP (`workspace.py`, `skills.py`, `mcp*.py`) | configuration, texts, servers and their tools | save, reset, probe, update | registry, tools |
| Web workbench (`apps/web`) | resource cache, lists, drafts, forms, the browser's storage | load, prime, clear; send, decide, edit, save; hydrate, write | API, event stream |

How they interact: a route awaits a handler of a service; handlers of one event loop interleave at
their awaits. The task service holds a lock per task, but only for `decide`. A real write and the
context of a task are computed in threads. The schedules loop awaits whole tasks. The workspace
replaces the registry's enabled set at any time.

What is hard, and where it is treated:

- two decisions for one task at the same moment; a decision after a timeout (`TaskService`);
- a restart while a task awaits approval: checkpoints are gone and the task is replayed (`TaskService`);
- a timeout while a write runs in a thread (`TaskService`);
- a loop that works on copies of rows that change (`Schedules`);
- refresh-token rotation seen from two tabs, with answers that are lost or overtake each other and
  handlers cut short between two transactions (`Sessions`);
- an event published while its subscriber is between two reads, lost connections, ids that must
  survive a restart, and a page that opens and closes streams by effects (`EventStream`, `LiveTasks`);
- a configuration applied by a thread after a newer one was saved, and a draft that is edited while
  it is saved, reset or replaced by a late load (`Workspace`, `WorkspacePanels`);
- answers of several messages, lists and patches that arrive in any order on a page whose user has
  gone on to something else (`RuntimePage`), and the same for rows that are updated, run, probed and
  deleted (`PageRows` and the pages built on it);
- captchas and codes that are used up by attempts whose answers never arrive (`SignUp`);
- effects that run one render late and write over what they should keep (`LocalPages`).

What makes each component correct: nothing is written to the outside world without an approval and
never twice (task graph and service); every call is answered; a creator keeps sight of a task; a due
schedule is run, once; a session that was revoked stays revoked; a code is used once; a restored
file is the one the snapshot was taken of; a page hears everything that happens to a task, says "saved"
only of what was saved, never brings back what it has deleted, and keeps what its user has made.

## 2. Modules

| Module | What it models |
|---|---|
| `Capabilities` | intake rules and planning rules, as pure operators |
| `TaskGraph` (extends `Capabilities`) | what each node does to the values of a thread |
| `TaskService` (extends `TaskGraph`) | handlers, threads, checkpoints, store, restarts |
| `ApprovedWrite` | abstract: sealed, open, under way, done |
| `Schedules` | table, routes, loop |
| `Sessions` | token pairs and their rows, the auth routes, browsers and tabs |
| `LoginLife` | abstract: a login is unborn, live, over |
| `TaskGraphProofs`, `TaskServiceProofs`, `SchedulesProofs`, `SessionsProofs` | theorems |
| `TaskLog` | abstract: a log that grows, and a listener that hears it in order |
| `EventStream` | one task's events: the list, the generator, the connection, the EventSource |
| `LiveTasks` (extends `EventStream`) | the runtime page's hold on a task: cached list, stream hook, fetches |
| `PageRequest` | a GET a page has under way; shared by the pages below |
| `Workspace` | the stored configuration, Planner's pool, and the page that edits a draft |
| `WorkspacePanels` | what each panel of that page does to the draft |
| `RuntimePage` | conversations, messages and decisions of the runtime page |
| `PageRows` | a list of rows with detail, form and calls that overlap |
| `SchedulesPage`, `McpCentre`, `SkillCentre` (extend `PageRows`) | the three pages that are built that way, and the probe of an MCP server |
| `SignUp` | the login page, captchas, e-mail codes and `register` |
| `LocalPages` | what the workbench keeps in the browser: the hooks of `store.ts`, workflows, assets, settings |
| `LiveTasksProofs`, `WorkspaceProofs`, `RuntimePageProofs`, `PagesProofs` | theorems |
| `MCTaskService`, `MCSchedules`, `MCSessions`, `MCLiveTasks`, `MCPages` | instances for TLC |

`Capabilities`, `TaskGraph` and `TaskService` are one component on top of another, and so are
`EventStream` and `LiveTasks`. The pages are separate components: a tab shows one at a time, so
`MCPages` puts them side by side and lets the initial state choose.

### TaskService

A handler is a `create_task` call (named by its task) or a `decide` call. `pc` says at which await it
is; a handler moves from one await to the next in one action, and the actions of handlers interleave.

| Action | Code |
|---|---|
| `CreateTask` | `create_task` up to the first state of the stream |
| `Arrive`, `Refuse`, `Accept`, `AcceptAndReplay` | `decide`: visibility, lock, status check, `_ensure_checkpoint` |
| `StartResume` | `_run(Command(resume=...))` |
| `Superstep`, `PassGate`, `Interrupt` | one superstep of `_run`: a node, its checkpoint, the public state and its save |
| `BeginWrite`, `EndWrite`, `OrphanWrite` | a real write: handed to a thread, awaited, or running on when nobody awaits it |
| `Settle` | `_store_graph_state` |
| `Timeout`, `NodeFails` | the two exits of `_run` through `_fail` |
| `SetEnabled` | the workspace changes the registry |
| `Restart` | death of the process and start: memory comes from the store, checkpoints are gone |

Of a task's state only the channels that steer a run are kept (`Values` in `TaskGraph`). Objectives
are abstracted to what the keyword tables tell apart. `attempts`, `granted` and `creator` are
history variables; `landed` is the outside world. A receipt, ok or not, leaves open whether the write
took effect: an HTTP error may follow the effect, while an insert under a key that is already there and a
redirect that is not followed are ok and wrote nothing (`execution.py:166-174, 207, 219, 306-323`). What
the properties say of effects (at most one, none without an approval, none of a rejected or planned task)
holds whatever ok means; what verification vouches for is the receipt (`VerifiedOnItsReceipt`).

The resume value of LangGraph is visible to the first superstep after the resume only; `Commit`
clears `resume`. That is how a decision that reaches a thread before its gate is lost. `astream`
yields the checkpoint's values first when it resumes, so that `StartResume` saves them.

### Schedules

`rows` is the table, `batch` the copies the loop has fetched with one query, `loop` and `now` the
place and the local variable of `tick`. The routes act between any two steps of the loop. A cron
expression is its period; the real search is a pure function whose only property the loop uses is
that the result is later than the minute searched from (lemma `LaterThan` for periods). An
expression that was accepted once always has a next run, so the branch of `tick` that skips a row
whose expression has none is left out. `valid` says whether `StartTaskRequest` accepts what the row
holds: POST validates the draft, PUT writes what it is given, and so it does with a `next_run_at` in the
body, past or future, unless a cron expression beside it is put first (`Changed`, `Tells`). A row is then due
at an instant that may have been run before, and the loop runs it again. `told` counts such bodies in the
row, and `under` keeps the count that belongs to the instant run last: `NoInstantTwice` is about the instants
of one count. What the page sends (a toggle, the form) carries no `next_run_at`.

`now` and `pressed` are reset when the local variables they stand for are gone.

### Sessions

The auth routes never await, so a request is handled in one step. What interleaves are requests and
answers: a request carries the cookies of the moment it was sent (`Send`), an answer sets or clears
those of the moment it arrives (`Receive`), and either may never arrive (`Lose`). Each statement on
the database is a transaction of its own; the `...Cut` actions are a process that dies between two of
them (memory holds nothing that matters, so the restart is not an action).

| State or action | Code |
|---|---|
| `claims`, `rows` | what the tokens of a pair say; the table `refresh_tokens` |
| `jar`, `call` | the cookies of a browser; the one call each tab has under way (`renewal` in `api.ts`) |
| `SignIn` | `login`, `guest_login`: prune, then issue a pair |
| `RefreshUnknown`, `RefreshRevoked`, `RefreshExpired`, `Rotate` | the exits of `refresh` |
| `Logout`, `ChangePassword`, `RevokeSession` | the routes of these names |
| `Barred` | `guest_write_guard` |
| `Refuse` | every refusal that changes nothing |

Passwords are counted by their changes. Whether a login is refused for a wrong password or a locked
account is left open. A pair's login and the password it was opened with are kept with its claims;
the code does not store them, they name what the properties are about. An access token and a refresh
token are set and cleared together, but the browser drops each at its own expiry. A renewal that is
refused leaves the cookies alone: the route clears them on the injected response and raises, and
FastAPI then sends a response of its own. `shared`, `lost`, `orphans` and `torn` are history variables:
they record whether the conditions under which the code promises less have arisen. Scripts, which
hold tokens without cookies, behave like a browser whose answers never overtake each other.

### EventStream and LiveTasks

| State or action | Code |
|---|---|
| `log`, `stored` | `TaskService._events[t]`, and the rows of the events table |
| `gen`, `cursor` | the generator `events`: at its loop, at the wait on the condition; its position |
| `source`, `lastId`, `pipe` | the browser's EventSource, its last event id, what the connection carries |
| `Publish` | `_publish`: list, table, `notify_all` |
| `Subscribe`, `Yield`, `Wait`, `Beat` | the route with `last-event-id`; the generator's loop, its wait, its heartbeat |
| `Drop`, `Refuse`, `Restart` | a lost connection, an answer other than 200, a new process |
| `Enter`, `Leave`, `Refresh`, `List...` | the page's mount and cleanup; `loadResource` with its cache and its requests in flight |
| `Patch...` | `patchTask`: fetch one task, replace it in the list, prime the cache |
| `RunEffect`, `Hear`, `HearBeat`, `Lose` | the effect of `useTaskStream` and its listeners |

Finding the list drained and waiting are one step (`Wait`), and so are appending and notifying
(`Publish`): both sides queue for the lock of the condition in the step in which they touch the list,
and the lock is first come, first served. `Follows` is the order in which the handlers of `TaskService`
publish; an event is named by the status it carries, every end by "completed", and `driver` is what
publishes: a run, a replay, or nothing since the last restart. An end is published by each superstep
that carries it and again with the stored graph state, up to three times for a rejection. An end is not
always the last word: after a restart `decide` replays the thread, and when the replay fails or is cut
off, `decide` goes on with the decision all the same (`task_service.py:118-122`), so that "received" and
"running" follow the end that needs_human is. A version of a task is a position in its log, and a page
shows a version. `missed` is a history variable: the last word on the task was lost or overtaken, which
the page cannot know. `TakenUpAgain` says of the log that something followed an end. The page has given
its source up by then and opens no other, because the effect's key is the task's id: its tag may stay
"live" and the end that comes later may never be shown. That is the finding of `revived_task` seen from
the page, and `TagIsTrue` and `EndIsShown` except such a task by name.

### Workspace and WorkspacePanels

A configuration is what it says of the agents (an agent may be absent, which the server reads as
enabled) and whether the page's `validate` accepts it. A new task reads the configuration twice:
`CollectContext` and `ApplyContext` are `managed_context` in its thread, `ReadPolicies` is the
event loop's `get` after it. On the page, `Load...`, `save`, `Save...`, `reset` and `Reset...` are the
sending, the handling and the arrival of the three requests; `left` names those an earlier visit of the
page has sent, whose answers still fill the cache. `held` is history. `WorkspacePanels` has one
action per control of a panel, over lists of rows with ids; text is reduced to empty, blank, within
the budget, or beyond it.

### RuntimePage

`db` is the server's tasks, `tasks` the page's. A task is its conversation and its status. `posts`,
`decision` and `list` are the requests under way. `AutoSelect` is the effect after every render, so it
is part of every action that changes the list. The stream is abstracted to `patchTask`, which copies
the server's row whenever it likes. `joined` records that a refresh has joined a list request that was
under way; `sent` is what the page has been given in answer to its messages. `SendArrives` is what
`submit` does with an answer, whatever the user has done since: it ends the draft of a new conversation,
selects the conversation of the message and clears the text. `DraftIsLeftAlone` says that nothing else the
page hears does so, and `OldStaysUnselected` what the comments say, which is violated.

### PageRows, SchedulesPage, McpCentre, SkillCentre

`table` is the server's rows and `rows` the page's copy; `calls` are the requests under way with their
answers. `Elsewhere` is another tab. Each page states which of its controls are dead while a call is
under way, and what an answer does: replace a row where it is (`Replaced`), add it (`Added`), drop it
(`Removed`). `probe_server` and `record_probe` are the two halves of the MCP probe, around the await of
the remote server. What the server does with a schedule beyond its row is `Schedules`.

### SignUp

The page's captcha, answer and code on one side; on the other the captchas made and spent and the
codes made, delivered and used. `Registers` is `register` with its refusals in the order of the code:
what comes before the captcha, the captcha, the code, a taken name. `lost` is a registration the page
has given up but the server has not.

### LocalPages

The hooks of `store.ts`: a first render with the seed (`Visit`), its two effects in one browser task
(`hydrate`), the render that follows (`write`). A tab may be closed between any two of them. The rest
are the buttons and dialogs of the three pages. `mine` is what was last written in front of the user,
`cut` that a tab was closed between its first effects and the next render. The rule that writes wait for what
is stored (`store.ts:11-12`) is `SeedClobbersNothing`, and it is violated: the effect that writes runs in the
first commit too. `KeptUnlessCut` is what is left of it. With `Strict`, effects of a
first render run twice, as React does in a development build; the runs and the theorem are about
`Strict = FALSE`.

## 3. Runs

| Run | Question | Outcome |
|---|---|---|
| `task_service` | Is a write approved, done once, and every call answered, whatever interleaves? | holds |
| `write_after_stop` | Has automatic execution stopped when `_fail` says so (`task_service.py:180`)? | violated |
| `revived_task` | Does a task handed to a human stay with the human? | violated |
| `reported_write` | Is a failed write reported as a failure (`execution.py:9-10`)? | violated |
| `schedules` | Is what is due run, once for each time it was set, whatever the routes do meanwhile? | holds |
| `sessions` | Does a login have one live pair, end once, and end only by calls of its own account? | holds |
| `live_view` | Does a tab hear the log in order across lost connections and restarts, hold a stream only while it wants one, and see a task end? | holds |
| `pages` | Do the pages keep what they have been given and told, whatever order answers arrive in? | holds |
| `two_tabs` | Does an active session stay (`auth.py:9-10`, `api.ts:14`)? | violated |
| `late_logout` | Does logout end the login it is asked to (`auth.py:11`)? | violated |
| `new_conversation` | After "new conversation", does nothing but the user select an old one (`runtime/page.tsx:125, 246-248`)? | violated |
| `seed_written` | Does the seed never take the place of what is stored (`store.ts:11-12`)? | violated |

Bounds of `task_service`: one task (tasks share nothing but the registry, which may change at any
time anyway, and the proofs hold for any number), two decide calls (enough for a race at the lock,
for a second decision after a replay and for a decision after a timeout), two restarts (before and
after a replay), seven requests (a plain write, a high-risk text, a pinned rehearsal, plan only,
ReAct, a step limit that bites in the middle of the write chain, and a short text that passes for
chat), two enabled sets. `maxSteps` is 12 by default and 3 where the limit shall bite.

Bounds of `schedules`: two rows (a row behind another in a batch), two periods, one call of run now,
two minutes, one restart; a body that turns a row off, changes its cron and holds what no request can be made
of, and one that turns it on and sets its due instant to minute 0, which is over, or may be, and may have
been run (`MaxTold` such bodies, 1). 225,743 distinct states. Deadlock is not checked there because the
clock is bounded: a behaviour
whose rows are all deleted and whose minutes are used up stops.

Bounds of `sessions`: one browser with two tabs, which are alike (symmetry); two accounts, one of them
the guest's; three pairs, which is a renewal of a renewal, two renewals side by side, or a second
login; one change of each password; one length of lease, with access tokens as long as refresh
tokens, and two instants of which the second is past the expiry and at the end of the clock skew.
Two leases, two browsers and more pairs are covered by the proofs. Deadlock is not checked because
the pairs run out.

Bounds of `live_view`: four events (started, running and an end, or up to the gate, a decision and what
follows it; and with a restart at the gate a replay that fails and the decision that follows all the same),
one event in the connection before the generator blocks, one fault of any kind (a drop, a refusal, a
restart), one fetch under way with lists that overtake it, one visit of the page with a cache that outlives
the requests. 283,480 distinct states. The exception of `TagIsTrue` for a task that was taken up again is
first needed at five events, where the page has had the time to fetch the task as running after it has heard
the end: without the exception TLC finds it violated there (started, awaiting_approval, an end, received,
running, shown as running under the tag "live"). The proofs hold for any number of events, fetches, faults
and visits. Deadlock is not checked because events, faults and visits run out and nobody needs to do
anything then.

Bounds of `pages`: an agent and a task that reads the configuration; a draft with one worker, the
supervisor, two items in a list, three ids, one document name and two edits (an edit, and one that meets
what the first left behind: a copy and a deletion, a filter and a move); two tasks in two
conversations, of which one may be closed, and two messages at once; one row with two calls that
overtake each other; two captchas, two requests for one and one code, with mail; two items of which one
is a seed, and two edits in a visit. Tasks and conversations are alike (symmetry). One row is enough
for `RemovedStaysGone`, because no call on a row touches another. Deadlock is not checked because
edits, ids and calls run out. 1,318,202 distinct states. Configuration, conversations and browser-kept
pages have proofs for all values.

The seven violations are disagreements between the code and what its messages, docstrings or comments
say; each has an entry under `findings` in PROJECT.json with the lines on both sides.

Every property of a passing run has a mutant: an operator named `<definition>_<fault>` in the module
of the definition it replaces, with which TLC finds the property violated.

## 4. Fairness

`TaskService`: weak fairness of each handler's own steps, of each decide call that can take the lock,
and of write threads. The event loop runs every ready callback in turn, the lock is FIFO, nodes end
(the model and tool calls have timeouts of their own, and `asyncio.timeout` covers the rest) and a
write thread ends by the timeout of its HTTP client or with the file operation. No fairness is
assumed of timeouts, failures, restarts or users.

`Schedules`: weak fairness of `Tick` (the loop sleeps 30 seconds, then runs again) and of the loop's
step over the current copy, since `create_task` returns after the task's timeout at the latest.

`LiveTasks`: weak fairness of the generator's turn (`Subscribe`, `Yield`, `Wait`: the event loop runs
ready tasks, and an EventSource reconnects by itself), of each kind of request being answered or
failing and its answer arriving, of the effects of renders, and of the browser's dispatch of what has
arrived. Nothing is assumed of runs, of the heartbeat, of the user or of faults, so that
`EventuallyHeard` shows that no event waits for the 15 second timeout of the wait.

`MCPages` states no liveness property and no fairness: what a user does is not owed.

`Sessions` states no liveness property, because nothing obliges a browser to renew, and no fairness.

## 5. Proofs

TLAPS checks the following for all values of the constants that satisfy the named assumptions
(`Identities`, `Domains` in `TaskService`; `Shapes`, `Bodies` in `Schedules`; `Shapes`, `Distinct` in
`Sessions`; `Bounds`, `PageBounds` in the event stream; `PagesBounds` in `MCPages`), which say no more
than that tasks, calls and markers are distinct, that inputs have their shapes, that bounds are natural
numbers, and that no version, task or request is one of the markers `None` and `Asked`. TLC evaluates
each of them in a run.

`TaskServiceProofs`: `TypeCorrect`, `OneDriverHolds`, `AtMostOneWriteHolds`,
`WriteNeedsApprovalHolds`, `RestartLosesNothingHolds`, `OwnerKeptHolds`, and `Refinement` (the
service implements `ApprovedWrite`). None of the safety properties is inductive. `IInv` adds:

- `CreateInv`: a task exists once its `create_task` call has begun, and the store holds what memory
  holds;
- `LockInv`: a decide call that drives a thread holds the lock of a task whose `create_task` is over,
  which is why two handlers never drive one thread although `create_task` takes no lock;
- `ThreadInv`: a checkpoint has the gate in front of its write (`ThreadOK`, kept by every node:
  `TaskGraphProofs`);
- `GrantInv`: after an approval has passed the gate the task never awaits approval again and its
  driver is past the gate, so that no decide call is accepted and no replay is started;
- `WriteInv`: the write was started at most once, and whoever drives the thread is at it or past it.

Three further properties, `AwaitingAtGateHolds`, `RefusedIsUntouchedHolds` and
`VerifiedOnItsReceiptHolds`, say what a shown status means. They need a second invariant on top of
`IInv`: `ShownInv` relates, task by task, the public state, the values of the thread, the request, the
approval and the writes that were started, have ended and took effect (`Fits`). It is split because a handler's thread runs
ahead of what is shown: `ThreadFits` (in `TaskGraphProofs`, kept by every node) is about the thread,
`ShownFits` about the last state that was stored, and each `Superstep` carries the first over to the
second.

`HandlerStep` does the common part of the preservation proof: a handler that owns its task and keeps
to it only has to show what it leaves the task in.

Two theorems are the part of `EveryCallAnswered` that does not rest on fairness. `CallsRunDownHolds`:
`Way(h)`, a number up to 200 made of a handler's place, of the steps its thread has left (`StepsLeft` in
`TaskGraphProofs`: two for each open step of the plan, kept falling by every node, since an agent that
has run is in `done` and the supervisor never sends a thread to it again) and of whether it is a replay,
falls with every step of the handler and rises with no step of another, no late write and no restart.
`NobodyIsStuckHolds`: a lock is held by a decide call that is at work on its task, however runs end,
and a handler in a stream has a node to run. What is left to fairness is that whoever can take a step
takes one; that the two fit together is what TLC checks as `EveryCallAnswered`.

`SchedulesProofs`: `TypeCorrect`, `NoInstantTwiceHolds`, `DeletedStaysDeletedHolds`. The invariant
says that the instant in a row, and in a copy that still waits, was not run in this life of the
process, or not since a body set it (`Unrun`). It holds because every write of `next_run_at` but a body's
names an instant after the clock or after `tick`'s `now`, which is not before the instant run last, and a
body's write raises the row's `told`, above that of every copy. `Edits` is any set of bodies, those with a
`next_run_at` in the past among them.

`SessionsProofs`: `TypeCorrect`, `OneLivePairHolds`, `PasswordGuardsSessionsHolds`,
`AccountsApartHolds`, and `KeepsPromiseHolds` (the sessions implement `LoginLife`). Every step narrows
the table of rows, or issues one pair (`StepForm`), and a pair is issued for a new login or in place of
the one that was presented. That there is one live pair then needs two parts: `OneInv`, which leaves
out expiry, because an unrevoked row that has expired is still one; and `CarryInv`, that no cookie and
no call carries a pair a cut renewal left behind, so that what is renewed is the login's one pair.
`GuardInv` says the same of passwords: what is not revoked was opened with the present one.

`CookieIsCurrentHolds` and `AlarmNeedsAReasonHolds` need to know where the newest pair of a login is,
which no single variable says. `WireInv` follows it: a login lives in one browser (`HomeInv`); an
answer brings the newest pair of its login, which nobody else has (`AnswerInv`); a browser that has lost
no answer holds the newest pair, or one of its calls is about to bring it (`JarInv`); and a renewal that
is alone in such a browser presents a pair that was not replaced (`RenewInv`). Each kind of step
(`QuietKeeps`, `SendKeeps`, `ReceiveKeeps`, `AnswerKeeps`) keeps that; the browsers it excepts, `lost`
and `shared`, are the ones the two properties except.

`LiveTasksProofs`: `StreamInv` says that the table holds the list, that what was heard is the log up to
the browser's last id, and that a connection carries the log from there to the generator's cursor, so
that ids stay true positions across faults. From it follow `HeardUpToIdHolds` and `InOrderHolds` (the
stream implements `TaskLog`, with the table as the log: a restart is a stutter). `SourceIsWantedHolds`
is inductive by itself; `TypeCorrect` also needs that the log keeps within its bound.

`TagIsTrueHolds` is about the page's side of it, where lists, renders, effects and fetches overtake each
other, and is far from inductive: that the tag is wrong for long is excluded only because somebody is on
the way to correct it. Its invariant says who. `PageInv` is the types and the stream's invariant;
`NoneNewer` says that no answer is newer than the log; `ClosedByEnd` that a page whose tag promises a source
it does not have was closed by an end of a task that has not been taken up again since, and that the answer
which shows the end is then under way or in the list;
`DeadIsMissed` that a source which was refused is one whose effect a render has `missed`.

`WorkspaceProofs`: `SavedWasHeldHolds` from `SavedInv`, which adds that every answer under way and the
cache hold only what the server has held, and that a merged configuration is one of them;
`PoolSettlesHolds`, which rests on `MergeKeepsPool`: filling absent agents in from the defaults does not
change the pool, so `get` and `save` agree about it. `RuntimePageProofs`: `DraftIsLeftAloneHolds`, an
action property, rests on `DraftInv`, that none is selected while a new conversation is asked for, and on
what `AutoSelect` then leaves alone; it names the answer to a message among the steps that may end a draft;
`SentStaysHolds` needs `SentInv`, that the server has every
task the page was given and so has an answer to a list request nobody joined. It assumes that `None` is
not a task. `WorkspaceTypeCorrect` and `RuntimeTypeCorrect` are their types.

`PagesProofs` is about the tab of `MCPages`. A tab shows one page, so that `PagesInv` is one invariant
per page; `PagesApart` lifts the pages with variables of their own, whose theorems `PagesPromise` restates
for the tab.

- The panels. `PanelsInv` is the type of the draft and `OneRowPerId`; `MoveKeeps`, `CopyKeeps` and the
  lemmas around them say what inserting, replacing, moving and filtering do to a list of rows. What
  `filter` leaves is a function defined by recursion on the length of the list (`Only`). Induction over
  it is stated about a set, not an operator: by the well-foundedness of `<` a set of numbers that has 0
  and with each number the next one has them all (`AllNumbers`), and so do sets of lists (`AllLists`).
  From these follow `OnlyAppend` and `OnlyTwice` (a filter after a filter is one filter), and with them
  `PreviewIsTaskContextHolds`: the page filters by other tests, in another order, than the server.
- The rows. `RemovedStaysGoneHolds` is one proof for three pages: each of their steps is one of a few
  forms (`Sends`, `Dialog` and the rest), and none of those puts a row that has gone back into the list,
  because the answer to an update replaces a row and never inserts one.
- The login page. `CaptchaIsFreshHolds` needs `Fresh`: no captcha on its way to the page is one it has
  had; and one that is consumed, or may yet be by a request the page has given up, is shown only while
  it is being submitted or another has been asked for.
- The browser's storage. `KeptUnlessCutHolds`, under the assumption `~Strict`, from `KeptInv`: between
  a first render and the next one the user's items are only in the hook's next state.

Only model-checked: the liveness properties `EveryCallAnswered`, `DueIsServed`, `LoopSurvives`,
`EndIsShown`, `EndLetsGo` and `EventuallyHeard`, which rest on fairness and so on ENABLED, and are
outside what this prover does. Every invariant and every action property of a passing run has a theorem.

## 6. Not modelled

- Texts: prompts, summaries, traces, titles, keyword lists, the content of artifacts.
- The write adapters' own files and rows: snapshots and their ids, restore, idempotent inserts. The
  task service models the receipt of a write and whether it took effect, either with either.
- Cron expressions: a schedule is a period. What a field matches is a question of calendars.
- The tool registry, the ReAct loop's inner steps, the reasoning provider and retrieval: they end in a
  node's result, and no control of another part depends on more than that.
- Counters of wrong passwords, lockout, rate limits and attempt caps: a request may be refused at any
  time. Expiry of captchas and codes.
- Insights, file browser, network guards, settings and wiring, deployment scripts: read-only, pure
  checks, or run by hand.
- The pages that only show what they read (audit, observability, steps, system, tenants, usage); and of
  every page its layout, search words, sorting and notices.
- A second tab on the same collection in the browser's storage, or on the same configuration: a save
  replaces what the other has written, and no comment promises otherwise.

Two statements of the repository are not what the code does, and no run is about them because each shows
in the lines themselves and the models have the code's side:

- `run_now` "does not change the next run" (`schedules.py:383`, repeated at `schedules/page.tsx:255`), but passes
  the current time plus one minute to `record_run` (393-395; `PressEnds`);
- a refused renewal "clears the two cookies" (`auth.py:997`, and `provider.tsx:112` relies on it), but the route
  deletes them on the injected response and then raises (998-999, and 984-985), so that the framework answers
  without them (`LeaveCookies`).

The following was met while modelling, follows from the models or from the lines named, and is
not contradicted by a statement in the repository, so that no run is about it:

- an agent that was removed on the page comes back enabled with the next load, because `get` merges
  missing defaults (`page.tsx:745`, `workspace.py:40-62, 293-304`); the same holds for a default knowledge base;
- an agent that is disabled and then set to "required" stays out of the pool, its switch is dead, and
  the overview no longer lists it;
- what is typed during a save is replaced by the answer, and a late load replaces an edited draft;
- two documents of one name in a knowledge base are deleted together (`page.tsx:900`);
- an EventSource that was refused is never opened again while the task stays wanted (`stream.ts:93`);
- Enter submits a message while another is under way (`composer.tsx:51-56`); a message with an invalid
  target ends the busy state of another; the answer to a message reopens a conversation that was closed
  meanwhile;
- a request under way refills the cache after `clearCache` (`resource-cache.ts:42-46`), and a forced
  refresh that joins an older request may hide a task that was just sent;
- the late answer of a skill's detail reopens it after it was closed (`skills/page.tsx:100-107`); a row
  that both a list and the answer to its creation bring is shown twice; the probe button of a row is
  not dead while it is probed;
- in a development build with StrictMode every visit of a page with `useCollection` loses what is stored
  (`store.ts:68-78`; in production it takes a closed tab, which is the finding of `seed_written`);
- a code whose mail failed is the latest all the same, so that the one delivered before it is no longer
  good (`auth.py:294`); a code used up by a registration that then failed stays in the form.

## 7. Plan

1. Done: `Capabilities`, `TaskGraph`, `TaskService`, `ApprovedWrite`, `Schedules`, and their proofs, with
   what a shown status means.
2. Done: `Sessions`, `LoginLife` and their proofs, with where a login's newest pair is.
3. Done: `TaskLog`, `EventStream`, `LiveTasks` and their proofs.
4. Done: the pages with state of their own, and their proofs.
5. Left: `Writes` (snapshots with ids of one second, restore, idempotent inserts); `Cron` (fields and
   search over a small calendar against a reference definition); counters of attempts and the lockout.
6. Done: a theorem for every invariant and action property of a passing run. Left to prove: of the
   liveness properties of the schedules loop and of the event stream the part that does not rest on
   fairness, as it is done for `EveryCallAnswered`.
