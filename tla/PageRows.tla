------------------------------ MODULE PageRows ------------------------------
(***************************************************************************)
(* What the pages of schedules, MCP servers and skills have in common: a   *)
(* list of rows that is a copy of the server's, a detail, a form, a dialog *)
(* that asks before a row is deleted, and calls that overlap, because      *)
(* nothing but the refresh button waits for its own answer.  A row is its  *)
(* id and whether it is enabled; one that both a list and the answer to    *)
(* its creation bring is shown twice and counts once here.                 *)
(***************************************************************************)
EXTENDS Naturals, FiniteSets, PageRequest

CONSTANTS
    RowIds,    \* ids of rows
    MaxCalls   \* bound: calls under way at once

NoRows == [r \in RowIds |-> None]

VARIABLES
    table,    \* the server's rows
    rows,     \* the page's
    detail,   \* the row whose detail is open
    form,     \* "closed", "new", or the row that is edited
    pending,  \* the row whose deletion awaits confirmation
    doing,    \* the row a long call is made for
    list,     \* the GET of the list, or its answer
    calls,    \* the other calls under way, with their answers
    removed   \* history: the rows the page has seen deleted, unless a list has brought them again

view == <<detail, form, pending, doing>>
rowsVars == <<table, rows, view, list, calls, removed>>

Kinds == {"create", "edit", "patch", "long", "remove", "read"}
Call == [kind : Kinds, row : RowIds, enabled : BOOLEAN, answer : {"asked", "trying", "ok", "refused"}]

-----------------------------------------------------------------------------
\* A button or a form sends a call.
Send(kind, r, enabled) ==
    /\ Cardinality(calls) < MaxCalls
    /\ calls' = calls \cup {[kind |-> kind, row |-> r, enabled |-> enabled, answer |-> "asked"]}

\* The server carries it out, or refuses it because the row has gone.
Serve(c) ==
    /\ c \in calls /\ c.answer = "asked"
    /\ LET known == (table[c.row] # None) = (c.kind # "create") IN
       /\ table' = IF ~known \/ c.kind \in {"long", "read"} THEN table
                   ELSE [table EXCEPT ![c.row] = IF c.kind = "remove" THEN None ELSE c.enabled]
       /\ calls' = (calls \ {c}) \cup
           {[c EXCEPT !.answer = IF known THEN "ok" ELSE "refused",
                      !.enabled = IF known /\ c.kind = "long" THEN table[c.row] ELSE @]}
    /\ UNCHANGED <<rows, view, list, removed>>

\* Another tab, or the server itself, changes or deletes a row.
Elsewhere(r) ==
    /\ table[r] # None
    /\ \E v \in BOOLEAN \cup {None} : table' = [table EXCEPT ![r] = v]
    /\ UNCHANGED <<rows, view, list, calls, removed>>

\* The refresh button is dead while a list is under way.
Load ==
    /\ list = None
    /\ list' = Asked
    /\ UNCHANGED <<table, rows, view, calls, removed>>

ListAnswer ==
    /\ list = Asked
    /\ list' = table
    /\ UNCHANGED <<table, rows, view, calls, removed>>

ListArrives ==
    /\ Answered(list)
    /\ list' = None
    /\ rows' = list
    /\ removed' = {r \in removed : list[r] = None}
    /\ UNCHANGED <<table, view, calls>>

ListFails ==
    /\ list # None
    /\ list' = None
    /\ UNCHANGED <<table, rows, view, calls, removed>>

-----------------------------------------------------------------------------
\* What an answer does to the rows.
Replaced(r, enabled) == IF rows[r] = None THEN rows ELSE [rows EXCEPT ![r] = enabled]
Added(r, enabled) == [rows EXCEPT ![r] = enabled]
Filtered(status) == {r \in RowIds : rows[r] # None /\ (status = "all" \/ rows[r] = (status = "enabled"))}

\* The buttons of a row are those of the table, under some filter, or those
\* of its detail, which outlives it.
Reach(r) ==
    /\ form = "closed" /\ pending = None
    /\ detail = r \/ (detail = None /\ \E s \in {"all", "enabled", "paused"} : r \in Filtered(s))

OpenDetail(r) ==
    /\ detail = None /\ Reach(r)
    /\ detail' = r
    /\ UNCHANGED <<table, rows, form, pending, doing, list, calls, removed>>

CloseDetail ==
    /\ detail # None
    /\ detail' = None
    /\ UNCHANGED <<table, rows, form, pending, doing, list, calls, removed>>

OpenForm(f) ==
    /\ form = "closed"
    /\ form' = f
    /\ detail' = None
    /\ UNCHANGED <<table, rows, pending, doing, list, calls, removed>>

CloseForm ==
    /\ form # "closed"
    /\ form' = "closed"
    /\ UNCHANGED <<table, rows, detail, pending, doing, list, calls, removed>>

AskRemove(r) ==
    /\ Reach(r)
    /\ pending' = r
    /\ UNCHANGED <<table, rows, detail, form, doing, list, calls, removed>>

\* The dialog closes whatever the answer is going to be.
Confirm ==
    /\ pending # None
    /\ pending' = None
    /\ \/ Send("remove", pending, FALSE)
       \/ UNCHANGED calls
    /\ UNCHANGED <<table, rows, detail, form, doing, list, removed>>

\* The row goes, and whichever detail is open.
Removed(c) ==
    /\ rows' = [rows EXCEPT ![c.row] = None]
    /\ removed' = removed \cup {c.row}
    /\ detail' = None
    /\ UNCHANGED <<form, pending, doing>>

-----------------------------------------------------------------------------
RowsInit ==
    /\ table \in [RowIds -> {TRUE, None}]
    /\ rows = NoRows /\ list = Asked
    /\ detail = None /\ form = "closed" /\ pending = None /\ doing = None
    /\ calls = {} /\ removed = {}

RowsTypeOK ==
    /\ table \in [RowIds -> BOOLEAN \cup {None}] /\ rows \in [RowIds -> BOOLEAN \cup {None}]
    /\ detail \in RowIds \cup {None} /\ form \in RowIds \cup {"closed", "new"}
    /\ pending \in RowIds \cup {None} /\ doing \in RowIds \cup {None}
    /\ list \in {None, Asked} \cup [RowIds -> BOOLEAN \cup {None}]
    /\ calls \subseteq Call /\ removed \subseteq RowIds

\* A row the page has seen deleted does not come back with the late answer to
\* an update, a run or a probe of it: only a list brings a row back
\* (schedules/page.tsx:160-163 and 256-275, mcp/page.tsx:142-145 and 179-193,
\* skills/page.tsx:109-125).
RemovedStaysGone == \A r \in removed : rows[r] = None

=============================================================================
