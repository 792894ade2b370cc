--------------------------- MODULE SchedulesPage ---------------------------
(***************************************************************************)
(* The page of schedules, app/workbench/schedules/page.tsx.  What the      *)
(* server does with a schedule is module Schedules.                        *)
(***************************************************************************)
EXTENDS PageRows

\* Mutated: an update adds the row it does not find.
applyUpdate_Upsert(c) == rows' = Added(c.row, c.enabled)

\* applyUpdate: the answer replaces the row, in the list and in its detail.
applyUpdate(c) == rows' = Replaced(c.row, c.enabled)

load == Load

\* The table: its filters, and a click on a row.
PlanTable == \E r \in RowIds : OpenDetail(r)

openCreate == detail = None /\ pending = None /\ OpenForm("new")
openEdit(r) == Reach(r) /\ OpenForm(r)

\* The form: its fields, its footer.
ScheduleForm == CloseForm

\* The button is not dead while a call is under way; an incomplete draft is
\* not sent, and nothing closes until the answer is there.
submit(r, enabled) ==
    /\ \/ form = "new" /\ table[r] = None /\ Send("create", r, enabled)
       \/ form = r /\ Send("edit", r, enabled)
    /\ UNCHANGED <<table, rows, view, list, removed>>

submitArrives(c) ==
    /\ c \in calls /\ c.answer = "ok" /\ c.kind \in {"create", "edit"}
    /\ calls' = calls \ {c}
    /\ form' = "closed"
    /\ IF c.kind = "edit" THEN applyUpdate(c) ELSE rows' = Added(c.row, c.enabled)
    /\ removed' = IF c.kind = "create" THEN removed \ {c.row} ELSE removed
    /\ UNCHANGED <<table, detail, pending, doing, list>>

toggle(r) ==
    /\ Reach(r)
    /\ \E on \in BOOLEAN : Send("patch", r, on)
    /\ UNCHANGED <<table, rows, view, list, removed>>

patchArrives(c) ==
    /\ c \in calls /\ c.answer = "ok" /\ c.kind = "patch"
    /\ calls' = calls \ {c}
    /\ applyUpdate(c)
    /\ UNCHANGED <<table, view, list, removed>>

\* The button of this row is dead, those of the others are not: the answer to
\* the first of two runs enables both.
runNow(r) ==
    /\ Reach(r) /\ doing # r
    /\ doing' = r
    /\ Send("long", r, FALSE)
    /\ UNCHANGED <<table, rows, detail, form, pending, list, removed>>

runNowArrives(c) ==
    /\ c \in calls /\ c.answer = "ok" /\ c.kind = "long"
    /\ calls' = calls \ {c}
    /\ applyUpdate(c)
    /\ doing' = None
    /\ UNCHANGED <<table, detail, form, pending, list, removed>>

removeArrives(c) ==
    /\ c \in calls /\ c.answer = "ok" /\ c.kind = "remove"
    /\ calls' = calls \ {c}
    /\ Removed(c)
    /\ UNCHANGED <<table, list>>

\* A call is refused, or fails before or after the server has seen it.
CallFails(c) ==
    /\ c \in calls
    /\ calls' = calls \ {c}
    /\ doing' = IF c.kind = "long" THEN None ELSE doing
    /\ UNCHANGED <<table, rows, detail, form, pending, list, removed>>

\* The side modal of a schedule, and the dialog before a deletion.
ScheduleDetail == CloseDetail
DeleteDialog == Confirm \/ \E r \in RowIds : AskRemove(r)

SchedulesPageNext ==
    \/ load \/ ListAnswer \/ ListArrives \/ ListFails
    \/ PlanTable \/ openCreate \/ ScheduleForm \/ ScheduleDetail \/ DeleteDialog
    \/ \E r \in RowIds : openEdit(r) \/ toggle(r) \/ runNow(r) \/ Elsewhere(r)
    \/ \E r \in RowIds, on \in BOOLEAN : submit(r, on)
    \/ \E c \in calls : \/ Serve(c) \/ submitArrives(c) \/ patchArrives(c)
                        \/ runNowArrives(c) \/ removeArrives(c) \/ CallFails(c)

=============================================================================
