------------------------------ MODULE MCPages ------------------------------
(***************************************************************************)
(* The pages of the web app on small instances: a tab shows one of them.   *)
(* The pages the proofs are about come with their own variables, which     *)
(* stay at their first values while another page is shown; each of the     *)
(* others is an instance whose variables are the first of x1 .. x17, and   *)
(* those it does not need keep the value FALSE.                            *)
(***************************************************************************)
EXTENDS Workspace, RuntimePage, LocalPages, TLC

CONSTANTS Workers, Supervisor, Keys, Files, MaxItems, RowIds, MaxCalls,
          MaxCaptchas, MaxCodes, MaxGets, Smtp

VARIABLES shows, x1, x2, x3, x4, x5, x6, x7, x8, x9, x10, x11, x12, x13, x14, x15, x16, x17

Panels == INSTANCE WorkspacePanels WITH
    draft <- x1, section <- x2, filter <- x3, opened <- x4, dialog <- x5, catalog <- x6,
    edits <- x7

Schedules == INSTANCE SchedulesPage WITH
    table <- x1, rows <- x2, detail <- x3, form <- x4, pending <- x5, doing <- x6,
    list <- x7, calls <- x8, removed <- x9

Servers == INSTANCE McpCentre WITH
    table <- x1, rows <- x2, detail <- x3, form <- x4, pending <- x5, doing <- x6,
    list <- x7, calls <- x8, removed <- x9

Skills == INSTANCE SkillCentre WITH
    table <- x1, rows <- x2, detail <- x3, form <- x4, pending <- x5, doing <- x6,
    list <- x7, calls <- x8, removed <- x9

Login == INSTANCE SignUp WITH
    mode <- x1, phase <- x2, captcha <- x3, captchaAnswer <- x4, required <- x5,
    signUpEmailCode <- x6, emailCooldown <- x7, asking <- x8, brought <- x9, mail <- x10,
    post <- x11, lost <- x12, made <- x13, spent <- x14, latest <- x15, delivered <- x16,
    used <- x17

\* Nothing of what the pages hold is the value that says there is nothing.
ASSUME PagesBounds ==
    /\ MaxEdits \in Nat /\ MaxCaptchas \in Nat /\ MaxCodes \in Nat /\ Smtp \in BOOLEAN
    /\ None \notin Nat /\ None \notin Task /\ None \notin Login!Post

pageVars == <<workspaceVars, runtimeVars, localVars>>
x == <<x1, x2, x3, x4, x5, x6, x7, x8, x9, x10, x11, x12, x13, x14, x15, x16, x17>>

\* What a page does not need, by the number of the variables it has.
After9 == <<x10, x11, x12, x13, x14, x15, x16, x17>>
After7 == <<x8, x9, After9>>

Unused9 == /\ x10 = FALSE /\ x11 = FALSE /\ x12 = FALSE /\ x13 = FALSE
           /\ x14 = FALSE /\ x15 = FALSE /\ x16 = FALSE /\ x17 = FALSE
Unused7 == x8 = FALSE /\ x9 = FALSE /\ Unused9
Unused0 == /\ x1 = FALSE /\ x2 = FALSE /\ x3 = FALSE /\ x4 = FALSE
           /\ x5 = FALSE /\ x6 = FALSE /\ x7 = FALSE /\ Unused7

-----------------------------------------------------------------------------
Init ==
    /\ WorkspaceInit /\ RuntimeInit /\ LocalInit
    /\ \/ shows \in {"config", "runtime", "local"} /\ Unused0
       \/ shows = "panels" /\ Panels!PanelsInit /\ Unused7
       \/ shows = "schedules" /\ Schedules!RowsInit /\ Unused9
       \/ shows = "servers" /\ Servers!RowsInit /\ Unused9
       \/ shows = "skills" /\ Skills!RowsInit /\ Unused9
       \/ shows = "login" /\ Login!SignUpInit
    /\ shows # "runtime" => hidden = {}
    /\ shows # "local" => page = "profile"

ConfigStep == shows = "config" /\ WorkspaceNext /\ UNCHANGED <<shows, runtimeVars, localVars, x>>
RuntimeStep == shows = "runtime" /\ RuntimeNext /\ UNCHANGED <<shows, workspaceVars, localVars, x>>
LocalStep == shows = "local" /\ LocalNext /\ UNCHANGED <<shows, workspaceVars, runtimeVars, x>>
PanelsStep == shows = "panels" /\ Panels!PanelsNext /\ UNCHANGED <<shows, pageVars, After7>>
SchedulesStep == shows = "schedules" /\ Schedules!SchedulesPageNext /\ UNCHANGED <<shows, pageVars, After9>>
ServersStep == shows = "servers" /\ Servers!McpCentreNext /\ UNCHANGED <<shows, pageVars, After9>>
SkillsStep == shows = "skills" /\ Skills!SkillCentreNext /\ UNCHANGED <<shows, pageVars, After9>>
LoginStep == shows = "login" /\ Login!SignUpNext /\ UNCHANGED <<shows, pageVars>>

Next == ConfigStep \/ RuntimeStep \/ LocalStep \/ PanelsStep \/ SchedulesStep \/ ServersStep
        \/ SkillsStep \/ LoginStep

Spec == Init /\ [][Next]_<<shows, pageVars, x>>

Symmetric == Permutations(Tasks) \cup Permutations(Convs)

-----------------------------------------------------------------------------
RowPages == {"schedules", "servers", "skills"}

\* Every page keeps its variables within their types; no two rows of a list
\* of the workspace's draft share an id, which edits, moves and deletions go
\* by (page.tsx:937-1053).
PagesTypeOK ==
    /\ shows = "config" => WorkspaceTypeOK
    /\ shows = "runtime" => RuntimeTypeOK
    /\ shows = "local" => LocalTypeOK
    /\ shows = "panels" => Panels!PanelsTypeOK /\ Panels!OneRowPerId
    /\ shows \in RowPages => Schedules!RowsTypeOK
    /\ shows = "login" => Login!SignUpTypeOK

\* The properties of the pages that are instances, where each is stated and
\* explained.
PreviewIsTaskContext == shows = "panels" => Panels!PreviewIsTaskContext
RemovedStaysGone == shows \in RowPages => Schedules!RemovedStaysGone
CaptchaIsFresh == shows = "login" => Login!CaptchaIsFresh

=============================================================================
