----------------------------- MODULE Workspace -----------------------------
(***************************************************************************)
(* The workspace configuration: apps/api/workspace.py, which stores it and *)
(* applies it to the capability registry, and app/workbench/page.tsx,      *)
(* which loads it through the resource cache, edits a draft of it, saves   *)
(* it and restores the defaults.  What the panels do to the draft is       *)
(* module WorkspacePanels; messages are left out.                          *)
(*                                                                         *)
(* A new task reads the configuration twice: a thread collects its context *)
(* and applies what it has read, possibly after a later save, and the      *)
(* event loop then reads the policies and applies the configuration again. *)
(***************************************************************************)
EXTENDS Naturals, PageRequest

CONSTANTS
    Agents,  \* the agents of the capability registry
    Starts   \* create_task calls

\* What a configuration says of an agent, and whether the page's validate
\* finds its limits and names in order.
Config == [agents : [Agents -> {"on", "off", "absent"}], sound : BOOLEAN]

Default == [agents |-> [a \in Agents |-> "on"], sound |-> TRUE]

VARIABLES
    stored,    \* the workspace table
    pool,      \* CapabilityRegistry._enabled_agents
    creating,  \* where each create_task call is
    read,      \* the configuration its thread has read
    shown,     \* the page's config, None while it has none
    dirty, saving,
    put,       \* the body of the PUT under way
    putDone,   \* the server has saved it
    restore,   \* the POST to /reset under way, or its answer
    left,      \* which of the two an earlier visit of the page has sent
    fetch,     \* the GET under way, or its answer
    entry,     \* the cache entry of WORKSPACE_KEY, whose age is not followed
    held       \* history: every configuration the server has stored or answered

server == <<stored, pool>>
contexts == <<creating, read>>
editor == <<shown, dirty, saving>>
requests == <<put, putDone, restore, left, fetch>>
workspaceVars == <<server, contexts, editor, requests, entry, held>>

-----------------------------------------------------------------------------
\* get: an agent the saved configuration lacks is taken from the defaults.
Merge(c) == [c EXCEPT !.agents = [a \in Agents |-> IF @[a] = "absent" THEN "on" ELSE @[a]]]

\* _apply: an agent the configuration does not mention is enabled.
Pool(c) == {a \in Agents : c.agents[a] # "off"}

Store(c) ==
    /\ stored' = c
    /\ pool' = Pool(c)
    /\ held' = held \cup {c}

Get == pool' = Pool(Merge(stored)) /\ held' = held \cup {Merge(stored)}

-----------------------------------------------------------------------------
(* create_task.                                                            *)

\* managed_context in its thread: get reads the table.
CollectContext(t) ==
    /\ creating[t] = "idle"
    /\ creating' = [creating EXCEPT ![t] = "context"]
    /\ read' = [read EXCEPT ![t] = Merge(stored)]
    /\ UNCHANGED <<server, editor, requests, entry, held>>

\* The thread's get applies what it has read.
ApplyContext(t) ==
    /\ creating[t] = "context"
    /\ creating' = [creating EXCEPT ![t] = "policies"]
    /\ pool' = Pool(read[t])
    /\ read' = [read EXCEPT ![t] = None]
    /\ UNCHANGED <<stored, editor, requests, entry, held>>

\* Mutated: the policies are read without get.
ReadPolicies_NotApplied(t) ==
    /\ creating[t] = "policies"
    /\ creating' = [creating EXCEPT ![t] = "done"]
    /\ UNCHANGED <<server, read, editor, requests, entry, held>>

\* runtime_policies, in the event loop.
ReadPolicies(t) ==
    /\ creating[t] = "policies"
    /\ creating' = [creating EXCEPT ![t] = "done"]
    /\ Get
    /\ UNCHANGED <<stored, read, editor, requests, entry>>

-----------------------------------------------------------------------------
(* The page.                                                               *)

\* load, on mount: a young entry, the request under way or a new one.  The
\* page is a new one: what an earlier visit has sent will not reach it.
Load ==
    /\ shown' = entry
    /\ dirty' = FALSE /\ saving' = FALSE
    /\ left' = (IF put # None THEN {"put"} ELSE {}) \cup (IF restore # None THEN {"reset"} ELSE {})
    /\ \/ entry # None /\ UNCHANGED fetch
       \/ fetch' = IF fetch = None THEN Asked ELSE fetch
    /\ UNCHANGED <<server, contexts, put, putDone, restore, entry, held>>

LoadAnswer ==
    /\ fetch = Asked
    /\ fetch' = Merge(stored)
    /\ Get
    /\ UNCHANGED <<stored, contexts, editor, put, putDone, restore, left, entry>>

\* Whatever the user has done to an older payload meanwhile is replaced.
LoadArrives ==
    /\ Answered(fetch)
    /\ fetch' = None
    /\ entry' = fetch /\ shown' = fetch
    /\ dirty' = FALSE
    /\ UNCHANGED <<server, contexts, saving, put, putDone, restore, left, held>>

LoadFails ==
    /\ fetch # None
    /\ fetch' = None
    /\ UNCHANGED <<server, contexts, editor, put, putDone, restore, left, entry, held>>

\* update, by a panel or by documents whose text has been read.
update(c) ==
    /\ shown # None
    /\ shown' = c
    /\ dirty' = TRUE
    /\ UNCHANGED <<server, contexts, saving, requests, entry, held>>

validate(c) == c.sound

\* The button is dead when nothing is dirty or a request has set saving.
save ==
    /\ shown # None /\ dirty /\ ~saving
    /\ validate(shown)
    /\ put = None
    /\ saving' = TRUE
    /\ put' = shown /\ putDone' = FALSE
    /\ UNCHANGED <<server, contexts, shown, dirty, restore, left, fetch, entry, held>>

SaveOnServer ==
    /\ put # None /\ ~putDone
    /\ putDone' = TRUE
    /\ Store(put)
    /\ UNCHANGED <<contexts, editor, put, restore, left, fetch, entry>>

\* The page that sent `kind` shows what the server answered.
Show(kind, c) ==
    IF kind \in left THEN UNCHANGED editor
    ELSE shown' = c /\ dirty' = FALSE /\ saving' = FALSE

\* Mutated: what the user has typed meanwhile is kept.
SaveArrives_KeepsDraft ==
    /\ put # None /\ putDone
    /\ put' = None /\ putDone' = FALSE
    /\ left' = left \ {"put"}
    /\ entry' = put
    /\ shown' = shown /\ dirty' = FALSE /\ saving' = FALSE
    /\ UNCHANGED <<server, contexts, restore, fetch, held>>

\* The page shows what was saved, whatever the user has typed meanwhile.
SaveArrives ==
    /\ put # None /\ putDone
    /\ put' = None /\ putDone' = FALSE
    /\ left' = left \ {"put"}
    /\ entry' = put
    /\ Show("put", put)
    /\ UNCHANGED <<server, contexts, restore, fetch, held>>

\* The request fails, before the server has seen it or after.
SaveFails ==
    /\ put # None
    /\ put' = None /\ putDone' = FALSE
    /\ left' = left \ {"put"}
    /\ saving' = ("put" \in left /\ saving)
    /\ UNCHANGED <<server, contexts, shown, dirty, restore, fetch, entry, held>>

\* The button is never dead: a reset may join a save.
reset ==
    /\ shown # None /\ restore = None
    /\ restore' = Asked
    /\ saving' = TRUE
    /\ UNCHANGED <<server, contexts, shown, dirty, put, putDone, left, fetch, entry, held>>

ResetOnServer ==
    /\ restore = Asked
    /\ restore' = Default
    /\ Store(Default)
    /\ UNCHANGED <<contexts, editor, put, putDone, left, fetch, entry>>

ResetArrives ==
    /\ Answered(restore)
    /\ restore' = None
    /\ left' = left \ {"reset"}
    /\ entry' = restore
    /\ Show("reset", restore)
    /\ UNCHANGED <<server, contexts, put, putDone, fetch, held>>

ResetFails ==
    /\ restore # None
    /\ restore' = None
    /\ left' = left \ {"reset"}
    /\ saving' = ("reset" \in left /\ saving)
    /\ UNCHANGED <<server, contexts, shown, dirty, put, putDone, fetch, entry, held>>

-----------------------------------------------------------------------------
WorkspaceInit ==
    /\ stored = Default /\ pool = Pool(Default)
    /\ creating = [t \in Starts |-> "idle"] /\ read = [t \in Starts |-> None]
    /\ shown = None /\ dirty = FALSE /\ saving = FALSE
    /\ put = None /\ putDone = FALSE /\ restore = None
    /\ left = {} /\ fetch = None
    /\ entry = None /\ held = {Default}

WorkspaceNext ==
    \/ \E t \in Starts : CollectContext(t) \/ ApplyContext(t) \/ ReadPolicies(t)
    \/ Load \/ LoadAnswer \/ LoadArrives \/ LoadFails
    \/ \E c \in Config : update(c)
    \/ save \/ SaveOnServer \/ SaveArrives \/ SaveFails
    \/ reset \/ ResetOnServer \/ ResetArrives \/ ResetFails

WorkspaceSpec == WorkspaceInit /\ [][WorkspaceNext]_workspaceVars

-----------------------------------------------------------------------------
Maybe(S) == S \cup {None}

WorkspaceTypeOK ==
    /\ stored \in Config /\ pool \subseteq Agents
    /\ creating \in [Starts -> {"idle", "context", "policies", "done"}]
    /\ read \in [Starts -> Maybe(Config)]
    /\ shown \in Maybe(Config) /\ dirty \in BOOLEAN /\ saving \in BOOLEAN
    /\ put \in Maybe(Config) /\ putDone \in BOOLEAN
    /\ left \subseteq {"put", "reset"}
    /\ restore \in Maybe(Config) \cup {Asked} /\ fetch \in Maybe(Config) \cup {Asked}
    /\ entry \in Maybe(Config) /\ held \subseteq Config

\* The header says "saved" only of a configuration the server has held: never
\* of a draft, although edits, saves, resets and late loads may overlap in any
\* order (page.tsx:153-282).
SavedWasHeld == shown # None /\ ~dirty => shown \in held

\* A thread may apply a configuration that has been replaced, but once no
\* task is between its two reads Planner's pool is that of the configuration
\* that is stored (workspace.py:183, task_service.py:65-76).
PoolSettles ==
    (\A t \in Starts : creating[t] \in {"idle", "done"}) => pool = Pool(stored)

=============================================================================
