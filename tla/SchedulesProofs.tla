-------------------------- MODULE SchedulesProofs --------------------------
(***************************************************************************)
(* The loop never runs a due instant of a schedule twice in one life of    *)
(* the process unless a body set it again, and a deleted schedule stays    *)
(* deleted, for any number of rows, expressions, request bodies (those     *)
(* that set the due instant to any minute among them), run_now calls and   *)
(* restarts.                                                               *)
(*                                                                         *)
(* The argument is about the two places a due instant is kept in: the row, *)
(* which the routes change under the loop, and the loop's copy of it.      *)
(* A write of next_run_at that no body asked for names an instant after    *)
(* the clock, or after tick's now, hence after the instant run last        *)
(* (RowInv); a copy that is still waiting was not run since it was made    *)
(* (CopyInv).  A body that sets the instant counts: whatever it names is   *)
(* new under that count.                                                   *)
(***************************************************************************)
EXTENDS Schedules, TLAPS

-----------------------------------------------------------------------------
\* The next run comes after the minute it is looked for from.
LEMMA LaterThan ==
    ASSUME NEW every \in Nat \ {0}, NEW m \in Nat
    PROVE  NextRunAfter(every, m) \in Nat /\ NextRunAfter(every, m) > m
  BY DEF NextRunAfter

\* The copy the loop has come to is the only one it has come to.
LEMMA FirstIsOne ==
    ASSUME NEW s \in Ids, NEW u \in Ids, First(s), First(u)
    PROVE  s = u
  BY DEF First, Waiting, Ids

\* record_run leaves the table a table, and moves the next run of one row.
LEMMA RecordedRows ==
    ASSUME NEW s, NEW copy, NEW next \in Nat, rows \in [Ids -> Row \cup {None}],
           RecordRun(s, copy, next)
    PROVE  /\ rows' \in [Ids -> Row \cup {None}]
           /\ \A u \in Ids : rows'[u] # None =>
                  /\ rows[u] # None /\ rows'[u].told = rows[u].told
                  /\ rows'[u].next = IF u = s THEN next ELSE rows[u].next
<1>1. ASSUME NEW u \in Ids, rows[u] # None
      PROVE  /\ [rows[u] EXCEPT !.next = next] \in Row
             /\ [rows[u] EXCEPT !.next = next].next = next
             /\ [rows[u] EXCEPT !.next = next].told = rows[u].told
  <2>1. rows[u] \in Row
    BY <1>1
  <2>. QED  BY <2>1 DEF Row
<1>. QED  BY <1>1 DEF RecordRun

\* A body leaves a row a row, and moves its next run to after the clock or
\* not at all, unless it sets it, which counts.
LEMMA ChangedRow ==
    ASSUME NEW row \in Row, NEW e \in Edit, minute \in Nat
    PROVE  /\ Changed(row, e) \in Row
           /\ \/ Changed(row, e).told > row.told
              \/ /\ Changed(row, e).told = row.told
                 /\ Changed(row, e).next = row.next \/ Changed(row, e).next > minute
<1>1. e.every # None => NextRunAfter(e.every, minute) \in Nat
                        /\ NextRunAfter(e.every, minute) > minute
  BY LaterThan, Shapes DEF Edit
<1>. QED  BY <1>1 DEF Changed, Row, Edit, Tells

\* The state the loop starts in.
LEMMA InitInv == Init => IInv
  BY Shapes, Bodies DEF Init, IInv, TypeOK, ClockInv, UnusedInv, CopyInv, RowInv,
     Waiting, Ids

-----------------------------------------------------------------------------
(* The steps that leave the loop alone.                                    *)

\* A step that leaves the loop alone and moves the next run of a row to after
\* the clock or not at all, or counts, preserves the invariant.
LEMMA OtherStep ==
    ASSUME IInv, TypeOK',
           UNCHANGED <<Loop, restarts>>,
           minute' >= minute, made' >= made,
           \A s \in Ids : rows'[s] # None =>
               \/ /\ rows[s] # None
                  /\ \/ rows'[s].told > rows[s].told
                     \/ /\ rows'[s].told = rows[s].told
                        /\ rows'[s].next = rows[s].next \/ rows'[s].next > minute
               \/ /\ s > made /\ s <= made'
                  /\ rows'[s].told = 0 /\ rows'[s].next > minute
    PROVE  IInv'
<1>. USE DEF IInv, TypeOK, Loop
<1>1. \A s \in Ids : First(s)' <=> First(s)
  BY DEF First, Waiting
<1>2. ClockInv'
  BY DEF ClockInv
<1>3. CopyInv'
  <2>1. \A s \in Waiting : rows'[s] # None =>
            \/ rows'[s].told > batch[s].told
            \/ rows'[s].told = batch[s].told /\ rows'[s].next >= batch[s].next
    <3> SUFFICES ASSUME NEW s \in Waiting, rows'[s] # None
                 PROVE  \/ rows'[s].told > batch[s].told
                        \/ rows'[s].told = batch[s].told /\ rows'[s].next >= batch[s].next
      OBVIOUS
    <3>1. s \in Ids /\ batch[s] \in Row /\ rows'[s] \in Row /\ made \in Nat
      BY DEF Waiting, Ids
    <3>2. batch[s].next <= minute
      BY <3>1 DEF CopyInv, Row
    <3>3. rows[s] # None /\ rows[s] \in Row
      BY <3>1 DEF UnusedInv, Waiting, Ids
    <3>4. ~(s > made)
      BY <3>1, <3>3 DEF UnusedInv
    <3>5. \/ rows[s].told > batch[s].told
          \/ rows[s].told = batch[s].told /\ rows[s].next >= batch[s].next
      BY <3>3 DEF CopyInv
    <3>. QED  BY <3>1, <3>2, <3>3, <3>4, <3>5 DEF Row
  <2>. QED  BY <1>1, <2>1 DEF CopyInv, Waiting, Running, Unrun
<1>4. RowInv'
  <2> SUFFICES ASSUME NEW s \in Ids, rows'[s] # None
               PROVE  (Unrun(s, rows[s]) \/ Running(s))'
    BY DEF RowInv
  <2>1. rows'[s] \in Row /\ latest[s] \in Nat /\ under[s] \in Nat /\ minute \in Nat
    OBVIOUS
  <2>2. CASE s > made /\ rows'[s].told = 0 /\ rows'[s].next > minute
    BY <2>1, <2>2 DEF ClockInv, UnusedInv, Unrun, Row
  <2>3. CASE rows[s] # None /\ rows'[s].told >= rows[s].told
    <3>1. rows[s] \in Row /\ (Unrun(s, rows[s]) \/ Running(s))
      BY <2>3 DEF RowInv
    <3>2. CASE Running(s)
      BY <1>1, <3>2 DEF Running
    <3>3. CASE Unrun(s, rows[s])
      BY <2>1, <2>3, <3>1, <3>3 DEF ClockInv, Unrun, Row
    <3>. QED  BY <3>1, <3>2, <3>3
  <2>4. rows[s] # None => rows[s] \in Row
    OBVIOUS
  <2>. QED  BY <2>1, <2>2, <2>3, <2>4 DEF Row
<1>5. UnusedInv'
  <2>1. made \in Nat /\ made' \in Nat /\ \A s \in Ids : s \in Nat
    BY DEF Ids
  <2>2. \A s \in Ids : s > made' => s > made /\ ~(s <= made')
    BY <2>1
  <2>3. \A s \in Ids : s > made' => batch'[s] = None /\ under'[s] = 0
    BY <2>2 DEF UnusedInv
  <2>4. \A s \in Ids : s > made' => rows'[s] = None
    BY <2>2 DEF UnusedInv
  <2>. QED  BY <2>3, <2>4 DEF UnusedInv
<1>. QED  BY <1>2, <1>3, <1>4, <1>5

\* The clock and the routes.
LEMMA RouteInv ==
    ASSUME IInv,
           \/ Elapse
           \/ \E draft \in Drafts : Create(draft)
           \/ \E s \in Ids, e \in Edits : Update(s, e)
           \/ \E s \in Ids : Delete(s)
           \/ \E p \in Presses, s \in Ids : Press(p, s)
           \/ \E p \in Presses : PressEnds(p)
    PROVE  IInv'
<1>. USE DEF IInv, Table, Loop, Manual
<1>1. CASE Elapse
  BY <1>1, OtherStep DEF Elapse, TypeOK
<1>2. ASSUME NEW draft \in Drafts, Create(draft)
      PROVE  IInv'
  <2>1. draft \in Draft /\ made + 1 \in Ids /\ made \in Nat /\ made' = made + 1
    BY <1>2, Bodies, Shapes DEF Create, Ids, TypeOK
  <2>2. /\ NextRunAfter(draft.every, minute) \in Nat
        /\ NextRunAfter(draft.every, minute) > minute
    BY <2>1, LaterThan, Shapes DEF Draft, TypeOK
  <2>3. [enabled |-> draft.enabled, every |-> draft.every, valid |-> TRUE,
         next |-> NextRunAfter(draft.every, minute), told |-> 0] \in Row
    BY <2>1, <2>2 DEF Draft, Row
  <2>4. TypeOK'
    BY <1>2, <2>1, <2>3, Shapes DEF Create, TypeOK
  <2>5. \A s \in Ids : rows'[s] # None =>
            \/ rows[s] # None /\ rows'[s] = rows[s] /\ s <= made
            \/ s = made + 1 /\ rows'[s].told = 0 /\ rows'[s].next > minute
    BY <1>2, <2>1, <2>2 DEF Create, TypeOK, UnusedInv, Ids
  <2>6. \A s \in Ids : s \in Nat
    BY DEF Ids
  <2>7. \A s \in Ids : rows'[s] # None =>
            \/ /\ rows[s] # None
               /\ rows'[s].told = rows[s].told /\ rows'[s].next = rows[s].next
            \/ s > made /\ s <= made' /\ rows'[s].told = 0 /\ rows'[s].next > minute
    BY <2>1, <2>5, <2>6
  <2>. QED  BY <1>2, <2>1, <2>4, <2>7, OtherStep DEF Create, TypeOK
<1>3. ASSUME NEW s \in Ids, NEW e \in Edits, Update(s, e)
      PROVE  IInv'
  <2>1. e \in Edit /\ rows[s] \in Row
    BY <1>3, Bodies DEF Update, TypeOK
  <2>2. /\ Changed(rows[s], e) \in Row
        /\ \/ Changed(rows[s], e).told > rows[s].told
           \/ /\ Changed(rows[s], e).told = rows[s].told
              /\ \/ Changed(rows[s], e).next = rows[s].next
                 \/ Changed(rows[s], e).next > minute
    BY <2>1, ChangedRow DEF TypeOK
  <2>3. TypeOK'
    BY <1>3, <2>2 DEF Update, TypeOK
  <2>4. \A u \in Ids \ {s} : rows'[u] = rows[u]
    BY <1>3 DEF Update, TypeOK
  <2>5. rows[s] # None /\ rows'[s] = Changed(rows[s], e)
    BY <1>3 DEF Update, TypeOK
  <2>6. made' >= made /\ minute' >= minute /\ minute' = minute
    BY <1>3 DEF Update, TypeOK, Ids
  <2>. QED  BY <1>3, <2>2, <2>3, <2>4, <2>5, <2>6, OtherStep DEF Update
<1>4. ASSUME NEW s \in Ids, Delete(s)
      PROVE  IInv'
  BY <1>4, OtherStep DEF Delete, TypeOK
<1>5. ASSUME NEW p \in Presses, NEW s \in Ids, Press(p, s)
      PROVE  IInv'
  BY <1>5, OtherStep DEF Press, TypeOK
<1>6. ASSUME NEW p \in Presses, PressEnds(p)
      PROVE  IInv'
  <2>1. /\ rows' \in [Ids -> Row \cup {None}]
        /\ \A s \in Ids : rows'[s] # None =>
               /\ rows[s] # None /\ rows'[s].told = rows[s].told
               /\ rows'[s].next = IF s = pressed[p] THEN minute + 1 ELSE rows[s].next
    BY <1>6, RecordedRows DEF PressEnds, TypeOK
  <2>2. TypeOK'
    BY <1>6, <2>1 DEF PressEnds, TypeOK
  <2>. QED  BY <1>6, <2>1, <2>2, OtherStep DEF PressEnds, TypeOK
<1>. QED  BY <1>1, <1>2, <1>3, <1>4, <1>5, <1>6

-----------------------------------------------------------------------------
(* The loop.                                                               *)

\* The query copies rows that are due and that were not run before.
LEMMA TickInv ==
    ASSUME IInv, Tick
    PROVE  IInv'
<1>. USE DEF IInv, Table, Manual
<1>1. TypeOK'
  BY DEF Tick, TypeOK
<1>2. ClockInv'
  BY DEF Tick, ClockInv
<1>3. CopyInv'
  <2>1. now' = minute /\ minute' = minute /\ loop' = "rows"
    BY DEF Tick
  <2>2. ASSUME NEW s \in Ids, batch'[s] # None
        PROVE  /\ batch'[s] = rows[s] /\ rows'[s] = rows[s]
               /\ rows[s] # None /\ rows[s].next <= minute
               /\ Unrun(s, rows[s])
    <3>1. batch'[s] = rows[s] /\ Due(s)
      BY <2>2 DEF Tick
    <3>2. ~Running(s)
      BY DEF Tick, Running
    <3>. QED  BY <3>1, <3>2 DEF Due, RowInv, Tick
  <2>3. ASSUME NEW s \in Ids, batch'[s] # None
        PROVE  rows[s].next \in Nat /\ rows[s].told \in Nat
    BY <2>2, <2>3 DEF TypeOK, Row
  <2>. QED  BY <2>1, <2>2, <2>3 DEF CopyInv, Waiting, Running, Unrun, Tick, TypeOK
<1>4. RowInv'
  BY DEF Tick, RowInv, Unrun, Running
<1>5. UnusedInv'
  BY DEF Tick, UnusedInv
<1>. QED  BY <1>1, <1>2, <1>3, <1>4, <1>5

\* A copy becomes a task: its instant is now the latest one.
LEMMA StartRunInv ==
    ASSUME IInv, NEW s \in Ids, StartRun(s)
    PROVE  /\ IInv'
           /\ \/ under'[s] > under[s]
              \/ under'[s] = under[s] /\ latest'[s] > latest[s]
              \/ under'[s] = under[s] /\ latest'[s] = latest[s] /\ life'[s] > life[s]
<1>. USE DEF IInv, Table, Manual
<1>1. batch[s] \in Row /\ s \in Waiting /\ ~Running(s)
  BY DEF StartRun, First, Waiting, Running, TypeOK
<1>2. /\ latest'[s] = batch[s].next /\ batch[s].next \in Nat
      /\ life'[s] = restarts
      /\ under'[s] = batch[s].told /\ batch[s].told \in Nat
      /\ Unrun(s, batch[s])
      /\ batch[s].next <= now /\ now <= minute
  BY <1>1 DEF StartRun, CopyInv, TypeOK, Row
<1>3. TypeOK'
  BY <1>2 DEF StartRun, TypeOK
<1>4. ClockInv'
  BY <1>2 DEF StartRun, ClockInv, TypeOK
<1>5. \A u \in Ids : First(u)' <=> First(u)
  BY DEF StartRun, First, Waiting
<1>6. \A u \in Ids : Running(u)' <=> u = s
  BY <1>5, FirstIsOne DEF StartRun, Running
<1>7. \A u \in Ids : ~Running(u)
  BY DEF StartRun, Running
<1>8. \A u \in Ids \ {s} : /\ latest'[u] = latest[u] /\ life'[u] = life[u]
                           /\ under'[u] = under[u]
  BY DEF StartRun, TypeOK
<1>9. CopyInv'
  <2>1. \A u \in Waiting \ {s} : Unrun(u, batch[u])'
    BY <1>7, <1>8 DEF CopyInv, Unrun, Waiting, StartRun
  <2>. QED  BY <1>2, <1>6, <2>1 DEF CopyInv, Waiting, StartRun
<1>10. RowInv'
  <2>1. \A u \in Ids \ {s} : rows[u] # None => Unrun(u, rows[u])'
    BY <1>7, <1>8 DEF RowInv, Unrun, StartRun
  <2>. QED  BY <1>6, <2>1 DEF RowInv, StartRun
<1>11. \/ under'[s] > under[s]
       \/ under'[s] = under[s] /\ latest'[s] > latest[s]
       \/ under'[s] = under[s] /\ latest'[s] = latest[s] /\ life'[s] > life[s]
  BY <1>2 DEF Unrun, TypeOK
<1>12. UnusedInv'
  BY <1>1, <1>8 DEF StartRun, UnusedInv, Waiting
<1>. QED  BY <1>3, <1>4, <1>9, <1>10, <1>11, <1>12

\* A tick that ends with no task running, by an exception or by the death of
\* the process, leaves every row with an instant that was not run in this
\* life of the process.
LEMMA StopInv ==
    ASSUME IInv, TickIsOver, TypeOK',
           UNCHANGED <<Table, minute, latest, under, life>>,
           \/ \A s \in Ids : ~Running(s)
           \/ restarts' = restarts + 1,
           restarts' >= restarts
    PROVE  IInv'
<1>. USE DEF IInv, Table
<1>1. ClockInv'
  BY DEF ClockInv, TypeOK
<1>2. CopyInv'
  BY DEF CopyInv, TickIsOver, Waiting, TypeOK
<1>3. RowInv'
  <2> SUFFICES ASSUME NEW s \in Ids, rows[s] # None
               PROVE  Unrun(s, rows[s])'
    BY DEF RowInv
  <2>1. CASE ~Running(s)
    BY <2>1 DEF RowInv, Unrun, TypeOK
  <2>2. CASE Running(s) /\ restarts' = restarts + 1
    <3>1. s \in Waiting /\ rows[s].next \in Nat /\ rows[s].told \in Nat
      BY <2>2 DEF Running, First, TypeOK, Row
    <3>2. /\ latest[s] = batch[s].next /\ under[s] = batch[s].told
          /\ \/ rows[s].told > batch[s].told
             \/ rows[s].told = batch[s].told /\ rows[s].next >= batch[s].next
      BY <2>2, <3>1 DEF CopyInv
    <3>3. life[s] < restarts'
      BY <2>2 DEF ClockInv, TypeOK
    <3>4. /\ latest[s] \in Nat /\ under[s] \in Nat
          /\ \/ rows[s].told > under[s]
             \/ rows[s].told = under[s] /\ rows[s].next >= latest[s]
      BY <3>2 DEF TypeOK
    <3>5. /\ rows'[s] = rows[s] /\ latest'[s] = latest[s] /\ life'[s] = life[s]
          /\ under'[s] = under[s]
      OBVIOUS
    <3>. QED  BY <3>1, <3>3, <3>4, <3>5 DEF Unrun
  <2>. QED  BY <2>1, <2>2
<1>4. UnusedInv'
  BY DEF UnusedInv, TickIsOver
<1>. QED  BY <1>1, <1>2, <1>3, <1>4

\* record_run moves the row's next run past tick's now, hence past the
\* instant that has just been run.
LEMMA RunEndsInv ==
    ASSUME IInv, NEW s \in Ids, RunEnds(s)
    PROVE  IInv'
<1>. USE DEF IInv, Table, Manual
<1>. DEFINE next == NextRunAfter(batch[s].every, now)
<1>1. s \in Waiting /\ batch[s] \in Row /\ Running(s)
  BY DEF RunEnds, First, Waiting, Running, TypeOK
<1>2. next \in Nat /\ next > now
  BY <1>1, LaterThan, Shapes DEF Row, TypeOK
<1>3. /\ rows' \in [Ids -> Row \cup {None}]
      /\ \A u \in Ids : rows'[u] # None =>
             /\ rows[u] # None /\ rows'[u].told = rows[u].told
             /\ rows'[u].next = IF u = s THEN next ELSE rows[u].next
  BY <1>2, RecordedRows DEF RunEnds, TypeOK
<1>4. latest[s] <= now /\ under[s] = batch[s].told
  BY <1>1 DEF CopyInv, TypeOK, Row
<1>5. \A u \in Ids : Running(u) => u = s
  BY <1>1, FirstIsOne DEF Running
<1>6. /\ loop' \in {"sleep", "rows"}
      /\ now' \in {0, now}
      /\ \A u \in Ids : batch'[u] # None =>
             u # s /\ batch'[u] = batch[u] /\ now' = now /\ loop' = "rows"
      /\ batch' \in [Ids -> Row \cup {None}]
  BY DEF RunEnds, NextCopy, TickIsOver, TypeOK
<1>7. TypeOK'
  BY <1>3, <1>6 DEF RunEnds, TypeOK
<1>8. ClockInv'
  BY DEF RunEnds, ClockInv
<1>9. CopyInv'
  <2>1. \A u \in Waiting' : u \in Waiting /\ u # s /\ ~Running(u)
    BY <1>5, <1>6 DEF Waiting
  <2>2. \A u \in Ids : ~Running(u)'
    BY <1>6 DEF Running
  <2>3. loop' = "sleep" => Waiting' = {}
    BY <1>6 DEF Waiting
  <2>. QED
    BY <1>3, <1>6, <2>1, <2>2, <2>3 DEF CopyInv, Waiting, Unrun, RunEnds, TypeOK
<1>10. RowInv'
  <2> SUFFICES ASSUME NEW u \in Ids, rows'[u] # None
               PROVE  Unrun(u, rows[u])'
    BY DEF RowInv
  <2>1. CASE u = s
    <3>1. rows[s] # None /\ rows[s] \in Row /\ rows'[s] \in Row
      BY <1>3, <1>7, <2>1 DEF TypeOK
    <3>2. rows[s].told >= batch[s].told /\ rows[s].told \in Nat /\ batch[s].told \in Nat
      BY <1>1, <3>1 DEF CopyInv, Row
    <3>3. rows'[s].next = next /\ rows'[s].told = rows[s].told
      BY <1>3, <2>1
    <3>4. under' = under /\ latest' = latest /\ latest[s] \in Nat /\ now \in Nat
      BY DEF RunEnds, TypeOK
    <3>5. rows'[s].next > latest[s]
      BY <1>2, <1>4, <3>3, <3>4
    <3>6. rows'[s].told > under[s] \/ rows'[s].told = under[s]
      BY <1>4, <3>2, <3>3
    <3>. QED
      BY <2>1, <3>4, <3>5, <3>6 DEF Unrun
  <2>2. CASE u # s
    BY <1>3, <1>5, <2>2 DEF Unrun, RowInv, RunEnds
  <2>. QED  BY <2>1, <2>2
<1>11. UnusedInv'
  BY <1>3, <1>6 DEF RunEnds, UnusedInv
<1>. QED  BY <1>7, <1>8, <1>9, <1>10, <1>11

-----------------------------------------------------------------------------
\* Nothing happens.
LEMMA StutterInv ==
    ASSUME IInv, UNCHANGED vars
    PROVE  IInv'
  BY DEF IInv, vars, Loop, Manual, Table, TypeOK, ClockInv, UnusedInv, CopyInv, RowInv,
     Waiting, First, Running, Unrun

\* Every step preserves the invariant.
LEMMA NextInv ==
    ASSUME IInv, [Next]_vars
    PROVE  IInv'
<1>1. CASE UNCHANGED vars
  BY <1>1, StutterInv
<1>2. CASE Tick
  BY <1>2, TickInv
<1>3. ASSUME NEW s \in Ids, StartRun(s)
      PROVE  IInv'
  BY <1>3, StartRunInv
<1>4. ASSUME NEW s \in Ids, AbortTick(s)
      PROVE  IInv'
  <2>1. TypeOK'
    BY <1>4 DEF AbortTick, TickIsOver, IInv, TypeOK, Table, Manual
  <2>2. \A u \in Ids : ~Running(u)
    BY <1>4 DEF AbortTick, Running
  <2>. QED  BY <1>4, <2>1, <2>2, StopInv DEF AbortTick, IInv, TypeOK
<1>5. ASSUME NEW s \in Ids, RunEnds(s)
      PROVE  IInv'
  BY <1>5, RunEndsInv
<1>6. CASE Restart
  <2>1. TypeOK'
    BY <1>6 DEF Restart, TickIsOver, IInv, TypeOK, Table
  <2>. QED  BY <1>6, <2>1, StopInv DEF Restart, IInv, TypeOK
<1>. QED  BY <1>1, <1>2, <1>3, <1>4, <1>5, <1>6, RouteInv DEF Next

\* The invariant holds of every behaviour.
THEOREM Inductive == Spec => []IInv
<1>. QED  BY InitInv, NextInv, PTL DEF Spec

\* The variables keep their types: in particular a row is always a row,
\* whatever fields a request body brings or lacks, next_run_at among them.
THEOREM TypeCorrect == Spec => []TypeOK
<1>1. IInv => TypeOK
  BY DEF IInv
<1>. QED  BY <1>1, Inductive, PTL

\* The loop never starts a task for the same due instant of a schedule twice
\* in one life of the process, nor ever for an earlier one, but for what a body
\* sets: each next_run_at a body writes may be run once more in each life of
\* the process, and what follows it comes after it (NoInstantTwice).
THEOREM NoInstantTwiceHolds == Spec => NoInstantTwice
<1>1. ASSUME IInv
      PROVE  \A s \in Ids : StartRun(s) =>
                 \/ under'[s] > under[s]
                 \/ under'[s] = under[s] /\ latest'[s] > latest[s]
                 \/ under'[s] = under[s] /\ latest'[s] = latest[s] /\ life'[s] > life[s]
  BY <1>1, StartRunInv
<1>. QED  BY <1>1, Inductive, PTL DEF NoInstantTwice

\* A schedule that was deleted stays deleted, though its runs end later
\* (DeletedStaysDeleted).
THEOREM DeletedStaysDeletedHolds == Spec => DeletedStaysDeleted
<1>1. ASSUME IInv, [Next]_vars, NEW s \in Ids, s <= made, rows[s] = None
      PROVE  rows'[s] = None
  <2>1. made \in Nat /\ rows \in [Ids -> Row \cup {None}]
    BY <1>1 DEF IInv, TypeOK
  <2>2. CASE UNCHANGED vars
    BY <1>1, <2>2 DEF vars
  <2>3. ASSUME NEW draft \in Drafts, Create(draft)
        PROVE  rows'[s] = None
    BY <1>1, <2>1, <2>3 DEF Create, Ids
  <2>4. ASSUME NEW u \in Ids, NEW e \in Edits, Update(u, e)
        PROVE  rows'[s] = None
    BY <1>1, <2>1, <2>4 DEF Update
  <2>5. ASSUME NEW u \in Ids, Delete(u)
        PROVE  rows'[s] = None
    BY <1>1, <2>1, <2>5 DEF Delete
  <2>6. ASSUME NEW p \in Presses, PressEnds(p)
        PROVE  rows'[s] = None
    BY <1>1, <2>1, <2>6 DEF PressEnds, RecordRun
  <2>7. ASSUME NEW u \in Ids, RunEnds(u)
        PROVE  rows'[s] = None
    BY <1>1, <2>1, <2>7 DEF RunEnds, RecordRun
  <2>. QED
    BY <1>1, <2>2, <2>3, <2>4, <2>5, <2>6, <2>7 DEF Next, Elapse, Press, Tick,
       StartRun, AbortTick, Restart, Table
<1>2. IInv /\ [Next]_vars =>
          [\A s \in Ids : s <= made /\ rows[s] = None => rows'[s] = None]_vars
  BY <1>1
<1>. QED  BY <1>2, Inductive, PTL DEF Spec, DeletedStaysDeleted

=============================================================================
