-------------------------- MODULE WorkspacePanels --------------------------
(***************************************************************************)
(* The panels of app/workbench/page.tsx: what the user can do to the draft *)
(* of the workspace configuration, panel by panel.  Loading, saving and    *)
(* resetting the draft is module Workspace.  A panel's own state (filter,  *)
(* open item, open dialog) is lost when the section changes, because the   *)
(* panel unmounts.  Text is reduced to what the panels tell apart, search  *)
(* words to the status filter, and the notices are left out.               *)
(***************************************************************************)
EXTENDS Integers, FiniteSets, Sequences, SequencesExt

CONSTANTS
    Workers,   \* the agents of the capability registry
    Supervisor, \* the agent the default configuration adds to them
    Keys,      \* ids: those of the defaults and those crypto.randomUUID makes
    Files,     \* names of documents
    MaxItems,  \* bound: items of a list
    MaxEdits,  \* bound: edits of a draft
    None

Modes == {"automatic", "manual", "required"}

\* Nothing, blanks, or text within the reference budget or beyond it.
Contents == {"empty", "blank", "text", "long"}

Agent(mode, enabled) == [mode |-> mode, enabled |-> enabled]
Base == [id : Keys, enabled : BOOLEAN, docs : Seq(Files)]
Block == [id : Keys, scope : {"workspace", "task"}, enabled : BOOLEAN,
          budget : {"sound", "high"}, content : Contents]
Route == [id : Keys, enabled : BOOLEAN]
Config ==
    [agents : [Workers \cup {Supervisor} -> [mode : Modes, enabled : BOOLEAN] \cup {None}],
     bases : Seq(Base), contexts : Seq(Block), routes : Seq(Route),
     approval : BOOLEAN, audit : BOOLEAN, limits : {"sound", "loose", "refused"}]

VARIABLES
    draft,     \* the page's config
    section,   \* the panel that is shown
    filter,    \* its status filter
    opened,    \* the item whose detail is open, or the active knowledge base
    dialog,    \* the item a ConfirmDialog asks about
    catalog,   \* the register dialog: closed, or waiting for /api/system, or showing it
    edits      \* how many edits there have been: it only bounds the model

panel == <<filter, opened, dialog, catalog>>
panelsVars == <<draft, section, panel, edits>>

Sections == {"overview", "agents", "rag", "context", "models", "governance"}

-----------------------------------------------------------------------------
FreshKeys(list) == Keys \ {list[i].id : i \in DOMAIN list}
At(list, k) == CHOOSE i \in DOMAIN list : list[i].id = k

\* What filter leaves of a list: the rows that are in the set kept, in order.
Only(list, kept) ==
    LET upTo[n \in 0 .. Len(list)] ==
            IF n = 0 THEN << >>
            ELSE IF list[n] \in kept THEN Append(upTo[n - 1], list[n])
            ELSE upTo[n - 1]
    IN  upTo[Len(list)]

Without(list, k) == Only(list, {list[i] : i \in {j \in DOMAIN list : list[j].id # k}})
Put(list, k, r) == [list EXCEPT ![At(list, k)] = r]
Has(list, k) == \E i \in DOMAIN list : list[i].id = k

\* update: the mutator works on a copy of the draft.
update(d) ==
    /\ edits < MaxEdits
    /\ draft' = d /\ edits' = edits + 1

Shows(item) == filter = "all" \/ item.enabled = (filter = "enabled")

SetFilter(f) ==
    /\ section \in {"agents", "context"} /\ dialog = None /\ f # filter
    /\ section = "agents" => opened = None /\ catalog = "closed"
    /\ filter' = f
    /\ UNCHANGED <<draft, section, opened, dialog, catalog, edits>>

ClosePanel == filter' = "all" /\ opened' = None /\ dialog' = None /\ catalog' = "closed"

go(s) ==
    /\ s # section
    /\ section' = s
    /\ ClosePanel
    /\ UNCHANGED <<draft, edits>>

\* The sidebar and the hash of the address lead anywhere.
changeSection == \E s \in Sections : go(s)

-----------------------------------------------------------------------------
(* The overview.                                                           *)

Registered == {a \in DOMAIN draft.agents : draft.agents[a] # None}

\* The sections that have something to see to.
todos ==
    {s \in {"rag", "agents", "context", "governance"} :
        CASE s = "rag" -> \E i \in DOMAIN draft.bases : draft.bases[i].enabled /\ draft.bases[i].docs = << >>
          [] s = "agents" -> \E a \in Registered : ~draft.agents[a].enabled /\ draft.agents[a].mode # "required"
          [] s = "context" -> \E i \in DOMAIN draft.contexts : draft.contexts[i].enabled /\ draft.contexts[i].budget = "high"
          [] s = "governance" -> draft.limits = "loose"}

Overview == section = "overview" /\ \E s \in todos : go(s)

\* The overview's cards, and the rows of its summary.
OverviewCards == section = "overview" /\ \E s \in Sections \ {"overview"} : go(s)

-----------------------------------------------------------------------------
(* Agents.                                                                 *)

Listed(a) == section = "agents" /\ dialog = None /\ a \in Registered /\ Shows(draft.agents[a])
EditAgent(a, r) == update([draft EXCEPT !.agents[a] = r]) /\ UNCHANGED <<section, panel>>

setMode(a, m) ==
    /\ Listed(a) /\ opened = None /\ catalog = "closed"
    /\ EditAgent(a, [draft.agents[a] EXCEPT !.mode = m])

\* The switch of a required agent is dead, on or off.
toggle(a) ==
    /\ Listed(a) /\ opened = None /\ catalog = "closed"
    /\ draft.agents[a].mode # "required"
    /\ EditAgent(a, [draft.agents[a] EXCEPT !.enabled = ~@])

setDetailId(a) ==
    /\ Listed(a) /\ catalog = "closed" /\ opened = None
    /\ opened' = a
    /\ UNCHANGED <<draft, section, filter, dialog, catalog, edits>>

\* The side modal of an agent stays open while the filter hides its row.
Detail(a) ==
    /\ section = "agents" /\ opened = a /\ a \in Registered
    /\ \/ \E m \in Modes : EditAgent(a, [draft.agents[a] EXCEPT !.mode = m])
       \/ /\ draft.agents[a].mode # "required"
          /\ EditAgent(a, [draft.agents[a] EXCEPT !.enabled = ~@])
       \/ /\ opened' = None
          /\ UNCHANGED <<draft, section, filter, dialog, catalog, edits>>

setPendingRemove(a) ==
    /\ Listed(a) /\ opened = None /\ catalog = "closed"
    /\ draft.agents[a].mode # "required"
    /\ dialog' = a
    /\ UNCHANGED <<draft, section, filter, opened, catalog, edits>>

RemoveAgent(a) ==
    /\ section = "agents" /\ dialog = a /\ a \in DOMAIN draft.agents
    /\ update([draft EXCEPT !.agents[a] = None])
    /\ dialog' = None
    /\ UNCHANGED <<section, filter, opened, catalog>>

openRegister ==
    /\ section = "agents" /\ dialog = None /\ opened = None
    /\ \/ catalog = "closed" /\ catalog' \in {"open", "failed"}
       \/ catalog # "closed" /\ catalog' = "closed"
    /\ UNCHANGED <<draft, section, filter, opened, dialog, edits>>

\* Only what the registry has and the draft lacks is offered.
Register(a) ==
    /\ section = "agents" /\ catalog = "open"
    /\ a \in Workers \ Registered
    /\ update([draft EXCEPT !.agents[a] = Agent("automatic", TRUE)])
    /\ catalog' = "closed"
    /\ UNCHANGED <<section, filter, opened, dialog>>

AgentsPanel == openRegister \/ \E a \in DOMAIN draft.agents :
    \/ toggle(a) \/ setDetailId(a) \/ Detail(a) \/ setPendingRemove(a) \/ RemoveAgent(a) \/ Register(a)
    \/ \E m \in Modes : setMode(a, m)

-----------------------------------------------------------------------------
(* Knowledge bases.                                                        *)

\* The base that is shown, the first one where the chosen one has gone.
active == IF Has(draft.bases, opened) THEN opened ELSE draft.bases[1].id
Shown == section = "rag" /\ dialog = None /\ draft.bases # << >>

addBase(k) ==
    /\ section = "rag" /\ dialog = None
    /\ Len(draft.bases) < MaxItems /\ k \in FreshKeys(draft.bases)
    /\ update([draft EXCEPT !.bases = Append(@, [id |-> k, enabled |-> TRUE, docs |-> << >>])])
    /\ opened' = k
    /\ UNCHANGED <<section, filter, dialog, catalog>>

setActiveId(k) ==
    /\ Shown /\ Has(draft.bases, k) /\ k # active
    /\ opened' = k
    /\ UNCHANGED <<draft, section, filter, dialog, catalog, edits>>

patchBase(r) ==
    /\ Shown
    /\ update([draft EXCEPT !.bases = Put(@, active, r)])
    /\ UNCHANGED <<section, panel>>

SwitchBase == Shown /\ patchBase([draft.bases[At(draft.bases, active)] EXCEPT !.enabled = ~@])

\* The text is read before the draft is updated: the panel may show another
\* base by then, or the base may be gone, but the documents go where they
\* were dropped.  Names are not compared with those the base has.
addDocuments(k, f) ==
    /\ Has(draft.bases, k) /\ Len(draft.bases[At(draft.bases, k)].docs) < MaxItems
    /\ LET base == draft.bases[At(draft.bases, k)] IN
       update([draft EXCEPT !.bases = Put(@, k, [base EXCEPT !.docs = Append(base.docs, f)])])
    /\ UNCHANGED <<section, panel>>

\* Documents have no id: every one of the name goes.
DeleteDocument(f) ==
    /\ Shown /\ f \in {draft.bases[At(draft.bases, active)].docs[i] : i \in DOMAIN draft.bases[At(draft.bases, active)].docs}
    /\ patchBase([draft.bases[At(draft.bases, active)] EXCEPT !.docs = Only(@, Files \ {f})])

setPendingDelete ==
    /\ Shown
    /\ dialog' = active
    /\ UNCHANGED <<draft, section, filter, opened, catalog, edits>>

DeleteBase ==
    /\ section = "rag" /\ dialog # None
    /\ update([draft EXCEPT !.bases = Without(@, dialog)])
    /\ dialog' = None
    /\ opened' = IF Without(draft.bases, dialog) = << >> THEN None ELSE Without(draft.bases, dialog)[1].id
    /\ UNCHANGED <<section, filter, catalog>>

Rag ==
    \/ \E k \in Keys : addBase(k) \/ setActiveId(k)
    \/ SwitchBase \/ setPendingDelete \/ DeleteBase
    \/ \E f \in Files : DeleteDocument(f) \/ \E k \in Keys : addDocuments(k, f)

-----------------------------------------------------------------------------
(* Shared contexts.                                                        *)

\* Mutated: blocks are taken whatever their scope.
injectable_AnyScope(list) ==
    Only(list, {r \in Block : r.enabled /\ r.content \notin {"empty", "blank"}})

\* The blocks a new task gets, in order, by the page.
injectable(list) ==
    Only(list, {r \in Block : r.enabled /\ r.scope = "workspace" /\ r.content \notin {"empty", "blank"}})

\* The server's managed_context: what it joins are the blocks that are not
\* empty, blanks included.
managed_context(list) ==
    Only(Only(list, {r \in Block : r.enabled /\ r.scope = "workspace"}),
         {r \in Block : r.content # "empty"})

\* What the panel reports of the contexts.
readiness(list) ==
    {issue \in {"none", "empty", "over", "manual"} :
        CASE issue = "none" -> injectable(list) = << >>
          [] issue = "empty" -> \E i \in DOMAIN list : list[i].enabled /\ list[i].content \in {"empty", "blank"}
          [] issue = "over" -> \E i \in DOMAIN injectable(list) : injectable(list)[i].content = "long"
          [] issue = "manual" -> \E i \in DOMAIN list : list[i].enabled /\ list[i].scope # "workspace"}

\* An entry of the report clears the filters.
ClearFilters ==
    /\ section = "context" /\ dialog = None /\ filter # "all"
    /\ readiness(draft.contexts) # {}
    /\ filter' = "all"
    /\ UNCHANGED <<draft, section, opened, dialog, catalog, edits>>

Row(k) == section = "context" /\ dialog = None /\ Has(draft.contexts, k) /\ Shows(draft.contexts[At(draft.contexts, k)])

\* edit: name, kind, tags and description change nothing the model tells apart.
edit(k, r) ==
    /\ Row(k)
    /\ update([draft EXCEPT !.contexts = Put(@, k, r)])
    /\ UNCHANGED <<section, panel>>

EditContext(k) ==
    /\ Row(k)
    /\ LET row == draft.contexts[At(draft.contexts, k)] IN
       \/ edit(k, [row EXCEPT !.enabled = ~@])
       \/ \E s \in {"workspace", "task"} : edit(k, [row EXCEPT !.scope = s])
       \/ \E t \in Contents : edit(k, [row EXCEPT !.content = t])
       \/ \E b \in {"sound", "high"} : edit(k, [row EXCEPT !.budget = b])

addContext(k) ==
    /\ section = "context" /\ dialog = None
    /\ Len(draft.contexts) < MaxItems /\ k \in FreshKeys(draft.contexts)
    /\ update([draft EXCEPT !.contexts =
           Append(@, [id |-> k, scope |-> "workspace", enabled |-> TRUE, budget |-> "sound", content |-> "empty"])])
    /\ opened' = k
    /\ UNCHANGED <<section, filter, dialog, catalog>>

move(k, delta) ==
    /\ Row(k)
    /\ LET from == At(draft.contexts, k) IN
       /\ from + delta \in DOMAIN draft.contexts
       /\ update([draft EXCEPT !.contexts = InsertAt(RemoveAt(@, from), from + delta, @[from])])
    /\ UNCHANGED <<section, panel>>

\* Mutated: the copy keeps the id of its original.
duplicate_SameId(k, new) ==
    /\ Row(k)
    /\ Len(draft.contexts) < MaxItems /\ new \in FreshKeys(draft.contexts)
    /\ LET at == At(draft.contexts, k)
           row == draft.contexts[at]
       IN  update([draft EXCEPT !.contexts = InsertAt(@, at + 1, [row EXCEPT !.enabled = FALSE])])
    /\ UNCHANGED <<section, panel>>

duplicate(k, new) ==
    /\ Row(k)
    /\ Len(draft.contexts) < MaxItems /\ new \in FreshKeys(draft.contexts)
    /\ LET at == At(draft.contexts, k)
           row == draft.contexts[at]
       IN  update([draft EXCEPT !.contexts = InsertAt(@, at + 1, [row EXCEPT !.id = new, !.enabled = FALSE])])
    /\ UNCHANGED <<section, panel>>

Expand(k) ==
    /\ Row(k)
    /\ opened' = IF opened = k THEN None ELSE k
    /\ UNCHANGED <<draft, section, filter, dialog, catalog, edits>>

AskDeleteContext(k) ==
    /\ Row(k)
    /\ dialog' = k
    /\ UNCHANGED <<draft, section, filter, opened, catalog, edits>>

DeleteContext ==
    /\ section = "context" /\ dialog # None
    /\ update([draft EXCEPT !.contexts = Without(@, dialog)])
    /\ dialog' = None
    /\ UNCHANGED <<section, filter, opened, catalog>>

Contexts ==
    \/ ClearFilters \/ DeleteContext
    \/ \E k \in Keys :
        \/ EditContext(k) \/ addContext(k) \/ Expand(k) \/ AskDeleteContext(k)
        \/ \E delta \in {-1, 1} : move(k, delta)
        \/ \E new \in Keys : duplicate(k, new)

-----------------------------------------------------------------------------
(* Model routes and policies.                                              *)

AddRoute(k) ==
    /\ Len(draft.routes) < MaxItems /\ k \in FreshKeys(draft.routes)
    /\ update([draft EXCEPT !.routes = Append(@, [id |-> k, enabled |-> FALSE])])

SwitchRoute(k) ==
    /\ Has(draft.routes, k)
    /\ LET route == draft.routes[At(draft.routes, k)] IN
       update([draft EXCEPT !.routes = Put(@, k, [route EXCEPT !.enabled = ~route.enabled])])

\* The last route cannot be deleted.
DeleteRoute(k) ==
    /\ Has(draft.routes, k) /\ Len(draft.routes) > 1
    /\ update([draft EXCEPT !.routes = Without(@, k)])

Models ==
    /\ section = "models"
    /\ \E k \in Keys : AddRoute(k) \/ SwitchRoute(k) \/ DeleteRoute(k)
    /\ UNCHANGED <<section, panel>>

\* The third switch is dead; limits outside their range stay in the draft,
\* and only save's validate refuses them.
Governance ==
    /\ section = "governance"
    /\ \/ update([draft EXCEPT !.approval = ~@])
       \/ update([draft EXCEPT !.audit = ~@])
       \/ \E l \in {"sound", "loose", "refused"} : update([draft EXCEPT !.limits = l])
    /\ UNCHANGED <<section, panel>>

\* A ConfirmDialog is closed.
CloseDialog ==
    /\ dialog # None
    /\ dialog' = None
    /\ UNCHANGED <<draft, section, filter, opened, catalog, edits>>

-----------------------------------------------------------------------------
PanelsInit ==
    /\ \E k, l \in Keys : k # l /\ draft =
        [agents |-> [a \in Workers \cup {Supervisor} |-> Agent(IF a = Supervisor THEN "required" ELSE "automatic", TRUE)],
         bases |-> <<[id |-> k, enabled |-> TRUE, docs |-> << >>]>>,
         contexts |-> <<[id |-> k, scope |-> "workspace", enabled |-> TRUE, budget |-> "sound", content |-> "text"]>>,
         routes |-> <<[id |-> k, enabled |-> TRUE], [id |-> l, enabled |-> TRUE]>>,
         approval |-> TRUE, audit |-> TRUE, limits |-> "sound"]
    /\ section = "overview" /\ edits = 0
    /\ filter = "all" /\ opened = None /\ dialog = None /\ catalog = "closed"

PanelsNext ==
    \/ changeSection \/ Overview \/ OverviewCards \/ CloseDialog
    \/ \E f \in {"all", "enabled", "disabled"} : SetFilter(f)
    \/ AgentsPanel \/ Rag \/ Contexts \/ Models \/ Governance

-----------------------------------------------------------------------------
PanelsTypeOK ==
    /\ draft \in Config
    /\ section \in Sections /\ filter \in {"all", "enabled", "disabled"}
    /\ catalog \in {"closed", "open", "failed"}
    /\ opened \in Workers \cup Keys \cup {Supervisor, None}
    /\ dialog \in Workers \cup Keys \cup {Supervisor, None}

\* The preview says of the draft what managed_context will join: the same
\* blocks in the same order, but for the blank ones, which the server joins
\* too (page.tsx:959-966, workspace.py:206-211 and 277).
PreviewIsTaskContext ==
    injectable(draft.contexts) =
        Only(managed_context(draft.contexts), {r \in Block : r.content # "blank"})

\* Every editor finds its row by id, and every delete takes the rows of an
\* id: whatever has been added, copied, moved and deleted, an id is that of
\* one row (page.tsx:937-942, 1034-1053, 1302).
OneRowPerId ==
    \A list \in {draft.bases, draft.contexts, draft.routes} :
        \A i, j \in DOMAIN list : list[i].id = list[j].id => i = j

=============================================================================
