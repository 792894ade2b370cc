----------------------------- MODULE McpCentre -----------------------------
(***************************************************************************)
(* The page of MCP servers, app/workbench/mcp/page.tsx, with the probe that *)
(* the API makes for it (apps/api/mcp.py).                                 *)
(***************************************************************************)
EXTENDS PageRows

\* The answer replaces the server, in the list and in its detail.
applyUpdate(c) == rows' = Replaced(c.row, c.enabled)

load == Load

\* The card: a click on a row opens its detail, under whichever filter it is
\* listed.
ServerTable == \E r \in RowIds : OpenDetail(r)

openCreate == detail = None /\ pending = None /\ OpenForm("new")

\* The form: its fields, and the buttons that leave it.
ServerForm == CloseForm

\* A draft without a name or an address is not sent; the button is not dead
\* while the call is under way.
submit(r, enabled) ==
    /\ form = "new" /\ table[r] = None
    /\ Send("create", r, enabled)
    /\ UNCHANGED <<table, rows, view, list, removed>>

submitArrives(c) ==
    /\ c \in calls /\ c.answer = "ok" /\ c.kind = "create"
    /\ calls' = calls \ {c}
    /\ rows' = Added(c.row, c.enabled)
    /\ removed' = removed \ {c.row}
    /\ form' = "closed"
    /\ UNCHANGED <<table, detail, pending, doing, list>>

\* The switch of a row.
patch(r) ==
    /\ Reach(r) /\ detail = None
    /\ \E on \in BOOLEAN : Send("patch", r, on)
    /\ UNCHANGED <<table, rows, view, list, removed>>

patchArrives(c) ==
    /\ c \in calls /\ c.answer = "ok" /\ c.kind = "patch"
    /\ calls' = calls \ {c}
    /\ applyUpdate(c)
    /\ UNCHANGED <<table, view, list, removed>>

\* Only the button of the detail is dead while its server is probed; the one
\* of the row is not.
probe(r) ==
    /\ Reach(r) /\ (detail = r => doing # r)
    /\ doing' = r
    /\ Send("long", r, FALSE)
    /\ UNCHANGED <<table, rows, detail, form, pending, list, removed>>

\* The handshake takes its time between the row's reading and the result's
\* recording, and the row may have changed or gone meanwhile.
probe_server(c) ==
    /\ c \in calls /\ c.kind = "long" /\ c.answer = "asked"
    /\ calls' = (calls \ {c}) \cup
           {[c EXCEPT !.answer = IF table[c.row] = None THEN "refused" ELSE "trying"]}
    /\ UNCHANGED <<table, rows, view, list, removed>>

record_probe(c) ==
    /\ c \in calls /\ c.answer = "trying"
    /\ calls' = (calls \ {c}) \cup
           {IF table[c.row] = None THEN [c EXCEPT !.answer = "refused"]
            ELSE [c EXCEPT !.answer = "ok", !.enabled = table[c.row]]}
    /\ UNCHANGED <<table, rows, view, list, removed>>

probeArrives(c) ==
    /\ c \in calls /\ c.answer = "ok" /\ c.kind = "long"
    /\ calls' = calls \ {c}
    /\ applyUpdate(c)
    /\ doing' = None
    /\ UNCHANGED <<table, detail, form, pending, list, removed>>

removeArrives(c) ==
    /\ c \in calls /\ c.answer = "ok" /\ c.kind = "remove"
    /\ calls' = calls \ {c}
    /\ Removed(c)
    /\ UNCHANGED <<table, list>>

\* A call is refused, or fails before or after the server has seen it.
CallFails(c) ==
    /\ c \in calls
    /\ calls' = calls \ {c}
    /\ doing' = IF c.kind = "long" THEN None ELSE doing
    /\ UNCHANGED <<table, rows, detail, form, pending, list, removed>>

\* The side modal of a server, and the dialog before a deletion.
ServerDetail == CloseDetail
DeleteDialog == Confirm \/ \E r \in RowIds : AskRemove(r)

McpCentreNext ==
    \/ load \/ ListAnswer \/ ListArrives \/ ListFails
    \/ ServerTable \/ openCreate \/ ServerForm \/ ServerDetail \/ DeleteDialog
    \/ \E r \in RowIds : patch(r) \/ probe(r) \/ Elsewhere(r)
    \/ \E r \in RowIds, on \in BOOLEAN : submit(r, on)
    \/ \E c \in calls : \/ c.kind # "long" /\ Serve(c)
                        \/ probe_server(c) \/ record_probe(c)
                        \/ submitArrives(c) \/ patchArrives(c) \/ probeArrives(c)
                        \/ removeArrives(c) \/ CallFails(c)

=============================================================================
