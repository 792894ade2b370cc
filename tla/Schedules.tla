----------------------------- MODULE Schedules -----------------------------
(***************************************************************************)
(* apps/api/schedules.py: the schedules table, the routes that change it,  *)
(* and the loop that runs what is due.                                     *)
(*                                                                         *)
(* The loop reads the rows that are due in one query and then awaits a     *)
(* whole task for each of them, so it works on copies: while it waits, the *)
(* routes insert, update, delete and run rows.  The process may die        *)
(* between the start of a task and record_run.                             *)
(*                                                                         *)
(* Minutes are numbers.  A cron expression is abstracted to its period.    *)
(* Rows are numbered in the order they were inserted, which is the order   *)
(* the query returns them in.                                              *)
(***************************************************************************)
EXTENDS Naturals

CONSTANTS
    MaxRows,     \* bound on rows ever inserted
    Periods,     \* cron expressions
    Drafts,      \* bodies of POST requests
    Edits,       \* bodies of PUT requests
    Presses,     \* run_now calls, each made at most once
    MaxMinute,   \* bound on the clock
    MaxTold,     \* bound on the bodies that set the due instant of a row
    MaxRestarts, \* bound on restarts of the process
    None         \* no row, no field in a body

ASSUME Shapes ==
    /\ MaxRows \in Nat /\ MaxMinute \in Nat /\ MaxTold \in Nat /\ MaxRestarts \in Nat
    /\ Periods \subseteq Nat \ {0}
    /\ None \notin Periods /\ None \notin BOOLEAN

Ids == 1 .. MaxRows

\* valid: StartTaskRequest accepts what the row holds.  POST checks the
\* draft's lengths, PUT does not.  told is a history field: how many bodies
\* have set next themselves.
Row == [enabled : BOOLEAN, every : Periods, valid : BOOLEAN, next : Nat,
        told : Nat]

Draft == [enabled : BOOLEAN, every : Periods]

\* PUT takes any object; next is its next_run_at, past or future.
Edit == [enabled : BOOLEAN \cup {None}, every : Periods \cup {None},
         valid : BOOLEAN \cup {None}, next : Nat \cup {None}]

ASSUME Bodies ==
    /\ Drafts \subseteq Draft
    /\ Edits \subseteq Edit
    /\ None \notin Row

VARIABLES
    rows,      \* the table
    made,      \* rows ever inserted
    minute,    \* datetime.now()
    loop,      \* "sleep", between two "rows", or awaiting the "run" of one
    now,       \* tick's now
    batch,     \* the copies tick has not finished with
    press,     \* where each run_now call is
    pressed,   \* the row it runs
    latest,    \* history: the due instant of a row's last run by the loop
    under,     \* history: the row's told when that instant was read
    life,      \* history: the life of the process in which that run started
    restarts

vars == <<rows, made, minute, loop, now, batch, press, pressed, latest, under,
          life, restarts>>

Table == <<rows, made>>
Loop == <<loop, now, batch, latest, under, life>>
Manual == <<press, pressed>>

-----------------------------------------------------------------------------
\* Mutated: the search starts at m itself.
NextRunAfter_Inclusive(every, m) == IF m % every = 0 THEN m ELSE m + every - (m % every)

\* next_run_after: the first matching minute after m.
NextRunAfter(every, m) == m + every - (m % every)

Due(s) == rows[s] # None /\ rows[s].enabled /\ rows[s].next <= minute

\* Mutated: the update inserts the row when it is gone.
RecordRun_Upsert(s, copy, next) ==
    rows' = [rows EXCEPT ![s] = IF @ # None THEN [@ EXCEPT !.next = next]
                                ELSE IF copy # None THEN [copy EXCEPT !.next = next]
                                ELSE None]

\* record_run: an UPDATE, which finds nothing when the row is gone.
RecordRun(s, copy, next) ==
    rows' = [rows EXCEPT ![s] = IF @ = None THEN None ELSE [@ EXCEPT !.next = next]]

Init ==
    /\ rows = [s \in Ids |-> None]
    /\ made = 0
    /\ minute = 0
    /\ loop = "sleep"
    /\ now = 0
    /\ batch = [s \in Ids |-> None]
    /\ press = [p \in Presses |-> "idle"]
    /\ pressed = [p \in Presses |-> None]
    /\ latest = [s \in Ids |-> 0]
    /\ under = [s \in Ids |-> 0]
    /\ life = [s \in Ids |-> 0]
    /\ restarts = 0

Elapse ==
    /\ minute < MaxMinute
    /\ minute' = minute + 1
    /\ UNCHANGED <<Table, Loop, Manual, restarts>>

-----------------------------------------------------------------------------
(* The routes.                                                             *)

Create(draft) ==
    /\ made < MaxRows
    /\ made' = made + 1
    /\ rows' = [rows EXCEPT ![made + 1] =
                  [enabled |-> draft.enabled, every |-> draft.every, valid |-> TRUE,
                   next |-> NextRunAfter(draft.every, minute), told |-> 0]]
    /\ UNCHANGED <<minute, Loop, Manual, restarts>>

\* Mutated: a field the body lacks is written all the same.
Changed_Blindly(row, e) ==
    [enabled |-> e.enabled, every |-> e.every, valid |-> e.valid, next |-> row.next,
     told |-> row.told]

\* The body sets the due instant itself: a cron in it would be put first.
Tells(e) == e.every = None /\ e.next # None

\* ScheduleStore.update: next_run_at is what the route computes from the
\* body's cron, or what the body says, or what it was.
Changed(row, e) ==
    [enabled |-> IF e.enabled = None THEN row.enabled ELSE e.enabled,
     every   |-> IF e.every = None THEN row.every ELSE e.every,
     valid   |-> IF e.valid = None THEN row.valid ELSE e.valid,
     next    |-> IF e.every # None THEN NextRunAfter(e.every, minute)
                 ELSE IF Tells(e) THEN e.next ELSE row.next,
     told    |-> IF Tells(e) THEN row.told + 1 ELSE row.told]

Update(s, e) ==
    /\ rows[s] # None
    /\ Tells(e) => \A u \in Ids : rows[u] # None => rows[u].told < MaxTold
    /\ rows' = [rows EXCEPT ![s] = Changed(@, e)]
    /\ UNCHANGED <<made, minute, Loop, Manual, restarts>>

Delete(s) ==
    /\ rows[s] # None
    /\ rows' = [rows EXCEPT ![s] = None]
    /\ UNCHANGED <<made, minute, Loop, Manual, restarts>>

\* run_now up to its await; 404 when the row is gone, 500 when no request
\* can be made of it.
Press(p, s) ==
    /\ press[p] = "idle"
    /\ press' = [press EXCEPT ![p] = IF rows[s] # None /\ rows[s].valid
                                     THEN "run" ELSE "done"]
    /\ pressed' = [pressed EXCEPT ![p] = IF press'[p] = "run" THEN s ELSE None]
    /\ UNCHANGED <<Table, minute, Loop, restarts>>

\* The task is over: next_run_at becomes the minute after.  The assertion
\* that follows fails when the row was deleted meanwhile; the call ends.
PressEnds(p) ==
    /\ press[p] = "run"
    /\ press' = [press EXCEPT ![p] = "done"]
    /\ pressed' = [pressed EXCEPT ![p] = None]
    /\ RecordRun(pressed[p], None, minute + 1)
    /\ UNCHANGED <<made, minute, Loop, restarts>>

-----------------------------------------------------------------------------
(* The loop.                                                               *)

Waiting == {s \in Ids : batch[s] # None}

\* The copy the loop has come to.
First(s) == s \in Waiting /\ \A u \in Waiting : s <= u

\* tick: the query.
Tick ==
    /\ loop = "sleep"
    /\ \E s \in Ids : Due(s)
    /\ loop' = "rows"
    /\ now' = minute
    /\ batch' = [s \in Ids |-> IF Due(s) THEN rows[s] ELSE None]
    /\ UNCHANGED <<Table, minute, Manual, latest, under, life, restarts>>

\* The next copy becomes a task.
StartRun(s) ==
    /\ loop = "rows" /\ First(s)
    /\ batch[s].valid
    /\ loop' = "run"
    /\ latest' = [latest EXCEPT ![s] = batch[s].next]
    /\ under' = [under EXCEPT ![s] = batch[s].told]
    /\ life' = [life EXCEPT ![s] = restarts]
    /\ UNCHANGED <<Table, minute, now, batch, Manual, restarts>>

TickIsOver ==
    /\ loop' = "sleep"
    /\ now' = 0
    /\ batch' = [s \in Ids |-> None]

\* The task of the copy s is over; so is the tick when it was the last.
NextCopy(s) ==
    IF Waiting = {s} THEN TickIsOver
    ELSE /\ loop' = "rows"
         /\ batch' = [batch EXCEPT ![s] = None]
         /\ UNCHANGED now

\* Mutated: the loop tries the row again at once.
AbortTick_Retries(s) ==
    /\ loop = "rows" /\ First(s) /\ ~batch[s].valid
    /\ UNCHANGED vars

\* No request can be made of the next copy: the exception ends the tick.
AbortTick(s) ==
    /\ loop = "rows" /\ First(s)
    /\ ~batch[s].valid
    /\ TickIsOver
    /\ UNCHANGED <<Table, minute, Manual, latest, under, life, restarts>>

\* Mutated: the run is not recorded.
RunEnds_Unrecorded(s) ==
    /\ loop = "run" /\ First(s)
    /\ NextCopy(s)
    /\ UNCHANGED <<Table, minute, Manual, latest, under, life, restarts>>

\* The task is over: record_run with the next run of the copy's cron after
\* tick's now, and on to the next copy.
RunEnds(s) ==
    /\ loop = "run" /\ First(s)
    /\ RecordRun(s, batch[s], NextRunAfter(batch[s].every, now))
    /\ NextCopy(s)
    /\ UNCHANGED <<made, minute, Manual, latest, under, life, restarts>>

\* The process stops, whatever it is doing, and starts again.
Restart ==
    /\ restarts < MaxRestarts
    /\ restarts' = restarts + 1
    /\ TickIsOver
    /\ press' = [p \in Presses |-> IF press[p] = "run" THEN "done" ELSE press[p]]
    /\ pressed' = [p \in Presses |-> None]
    /\ UNCHANGED <<Table, minute, latest, under, life>>

-----------------------------------------------------------------------------
Next ==
    \/ Elapse
    \/ \E draft \in Drafts : Create(draft)
    \/ \E s \in Ids, e \in Edits : Update(s, e)
    \/ \E s \in Ids : Delete(s)
    \/ \E p \in Presses, s \in Ids : Press(p, s)
    \/ \E p \in Presses : PressEnds(p)
    \/ Tick
    \/ \E s \in Ids : StartRun(s) \/ AbortTick(s) \/ RunEnds(s)
    \/ Restart

Spec == Init /\ [][Next]_vars

\* The loop wakes up every 30 seconds and every task ends (by its timeout).
Fairness ==
    /\ WF_vars(Tick)
    /\ WF_vars(\E s \in Ids : StartRun(s) \/ AbortTick(s) \/ RunEnds(s))

FairSpec == Spec /\ Fairness

-----------------------------------------------------------------------------
(* Properties *)

TypeOK ==
    /\ rows \in [Ids -> Row \cup {None}]
    /\ made \in 0 .. MaxRows
    /\ minute \in Nat
    /\ loop \in {"sleep", "rows", "run"}
    /\ now \in Nat
    /\ batch \in [Ids -> Row \cup {None}]
    /\ press \in [Presses -> {"idle", "run", "done"}]
    /\ pressed \in [Presses -> Ids \cup {None}]
    /\ latest \in [Ids -> Nat]
    /\ under \in [Ids -> Nat]
    /\ life \in [Ids -> Nat]
    /\ restarts \in Nat

\* The loop runs the same due instant of a schedule again only if the process
\* died meanwhile, and it never goes back to an earlier one, whatever the
\* routes do to the row between the query and record_run.  A body that sets
\* next_run_at (schedules.py:161-163) starts the count anew, once for each.
NoInstantTwice ==
    [][\A s \in Ids : StartRun(s) =>
        \/ under'[s] > under[s]
        \/ under'[s] = under[s] /\ latest'[s] > latest[s]
        \/ under'[s] = under[s] /\ latest'[s] = latest[s] /\ life'[s] > life[s]]_vars

\* A schedule that was deleted does not come back, though runs of it end
\* after it is gone.
DeletedStaysDeleted ==
    [][\A s \in Ids : s <= made /\ rows[s] = None => rows'[s] = None]_vars

\* What is due is run, or ceases to be due, unless some row holds what no
\* request can be made of.
DueIsServed ==
    \A s \in Ids, d \in 0 .. MaxMinute :
        Due(s) /\ rows[s].next = d ~>
            \/ ~(Due(s) /\ rows[s].next = d)
            \/ \E u \in Ids : rows[u] # None /\ ~rows[u].valid

\* One failure does not end the loop (schedules.py:293).
LoopSurvives == []<>(loop = "sleep")

-----------------------------------------------------------------------------
(* The inductive invariant: why the loop never runs an instant again.      *)

Running(s) == loop = "run" /\ First(s)

\* The instant that c, row s or a copy of it, holds has not been run since a
\* body set it, or not in this life of the process.
Unrun(s, c) ==
    \/ c.told > under[s]
    \/ c.told = under[s] /\ c.next > latest[s]
    \/ c.told = under[s] /\ c.next = latest[s] /\ life[s] < restarts

ClockInv ==
    \A s \in Ids : latest[s] <= minute /\ life[s] <= restarts

\* An id is new when it is given to a row.
UnusedInv ==
    \A s \in Ids : s > made => rows[s] = None /\ batch[s] = None /\ under[s] = 0

CopyInv ==
    /\ loop = "sleep" => Waiting = {}
    /\ now <= minute
    /\ \A s \in Waiting :
          /\ batch[s].next <= now
          /\ Running(s) => latest[s] = batch[s].next /\ under[s] = batch[s].told
          /\ ~Running(s) => Unrun(s, batch[s])
          /\ rows[s] # None =>
                \/ rows[s].told > batch[s].told
                \/ rows[s].told = batch[s].told /\ rows[s].next >= batch[s].next

RowInv ==
    \A s \in Ids : rows[s] # None => Unrun(s, rows[s]) \/ Running(s)

IInv == TypeOK /\ ClockInv /\ UnusedInv /\ CopyInv /\ RowInv

=============================================================================
