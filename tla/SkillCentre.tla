---------------------------- MODULE SkillCentre ----------------------------
(***************************************************************************)
(* The page of skills, app/workbench/skills/page.tsx.  A click on a row    *)
(* opens its detail at once and asks for the whole text, and an upload     *)
(* makes a skill that is not enabled.                                      *)
(***************************************************************************)
EXTENDS PageRows

load == Load

\* The detail opens on what the list says of the skill.
openDetail(r) ==
    /\ detail = None /\ Reach(r)
    /\ detail' = r
    /\ Send("read", r, FALSE)
    /\ UNCHANGED <<table, rows, form, pending, doing, list, removed>>

\* The answer opens the detail of its skill, whatever is open by then.
openDetailArrives(c) ==
    /\ c \in calls /\ c.answer = "ok" /\ c.kind = "read"
    /\ calls' = calls \ {c}
    /\ detail' = c.row
    /\ UNCHANGED <<table, rows, form, pending, doing, list, removed>>

\* The switch of a row, and the button of its detail.
patch(r) ==
    /\ Reach(r)
    /\ \E on \in BOOLEAN : Send("patch", r, on)
    /\ UNCHANGED <<table, rows, view, list, removed>>

patchArrives(c) ==
    /\ c \in calls /\ c.answer = "ok" /\ c.kind = "patch"
    /\ calls' = calls \ {c}
    /\ rows' = Replaced(c.row, c.enabled)
    /\ UNCHANGED <<table, view, list, removed>>

UploadSkill == detail = None /\ pending = None /\ OpenForm("new")

\* The button is dead while an upload is under way, the form can be left and
\* opened again.
upload(r) ==
    /\ form = "new" /\ doing = None /\ table[r] = None
    /\ doing' = r
    /\ Send("create", r, FALSE)
    /\ UNCHANGED <<table, rows, detail, form, pending, list, removed>>

closeUpload == CloseForm

uploadArrives(c) ==
    /\ c \in calls /\ c.answer = "ok" /\ c.kind = "create"
    /\ calls' = calls \ {c}
    /\ rows' = Added(c.row, c.enabled)
    /\ removed' = removed \ {c.row}
    /\ form' = "closed" /\ doing' = None
    /\ UNCHANGED <<table, detail, pending, list>>

removeArrives(c) ==
    /\ c \in calls /\ c.answer = "ok" /\ c.kind = "remove"
    /\ calls' = calls \ {c}
    /\ Removed(c)
    /\ UNCHANGED <<table, list>>

\* A call is refused, or fails before or after the server has seen it.
CallFails(c) ==
    /\ c \in calls
    /\ calls' = calls \ {c}
    /\ doing' = IF c.kind = "create" THEN None ELSE doing
    /\ UNCHANGED <<table, rows, detail, form, pending, list, removed>>

\* The side modal of a skill, and the dialog before it is removed.
SkillDetail == CloseDetail
RemoveDialog == Confirm \/ \E r \in RowIds : AskRemove(r)

SkillCentreNext ==
    \/ load \/ ListAnswer \/ ListArrives \/ ListFails
    \/ UploadSkill \/ closeUpload \/ SkillDetail \/ RemoveDialog
    \/ \E r \in RowIds : openDetail(r) \/ patch(r) \/ upload(r) \/ Elsewhere(r)
    \/ \E c \in calls : \/ Serve(c) \/ openDetailArrives(c) \/ patchArrives(c)
                        \/ uploadArrives(c) \/ removeArrives(c) \/ CallFails(c)

=============================================================================
