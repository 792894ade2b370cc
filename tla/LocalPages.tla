----------------------------- MODULE LocalPages -----------------------------
(***************************************************************************)
(* What the workbench keeps in the browser: the hooks of ui/store.ts, and  *)
(* the pages of workflows, assets and settings that are built on them.     *)
(* One tab at a time shows one of the pages, and each has a key of its     *)
(* own; the profile of the settings, which is one record, counts as a      *)
(* collection whose items are its fields.  A render and the effects that   *)
(* follow it are separate steps: the tab may be closed in between.         *)
(***************************************************************************)
EXTENDS Naturals, FiniteSets, PageRequest

CONSTANTS
    Items,     \* ids
    Seeds,     \* those of the items a page starts with
    Strict,    \* whether React runs the effects of a first render twice, as its
               \* StrictMode does in a development build
    MaxEdits   \* bound: edits in one visit

Content == [Items -> {None, "seed", "made", "changed"}]
Seed == [i \in Items |-> IF i \in Seeds THEN "seed" ELSE None]
Pages == {"workflows", "assets", "keys", "profile"}

VARIABLES
    page,     \* which of the pages this is about
    storage,  \* what localStorage has under its key
    items,    \* the state of the hook
    phase,    \* "closed" when there is no tab, "first" before the first effects,
              \* "hydrating" before the render that follows them, "edited" before
              \* the effects of another, "ready"
    next,     \* what the hook has been given for the next render
    dialog,   \* "none", "form", "detail", "rename" or "remove"
    chosen,   \* the item it is about
    edits,
    mine,     \* history: the content last written in front of the user
    cut       \* history: a tab was closed between its first effects and the next render

local == <<storage, items, phase, next, mine, cut>>
localVars == <<page, local, dialog, chosen, edits>>

There(i) == items[i] # None

-----------------------------------------------------------------------------
(* The hooks.                                                              *)

\* The first render uses the seed.
Visit ==
    /\ phase = "closed"
    /\ phase' = "first"
    /\ items' = Seed /\ next' = Seed
    /\ dialog' = "none" /\ chosen' = None /\ edits' = 0
    /\ UNCHANGED <<page, storage, mine, cut>>

\* Mutated: the effect that writes comes first.
useCollection_WritesFirst(stored, shown) == shown

\* The effect that reads, once or, in a development build, again after the
\* other has written.
useCollection(stored, shown) == IF stored = None \/ Strict THEN shown ELSE stored

\* One task of the browser: the effect that reads the storage and sets the
\* flag, then the one that writes, whose items are still those of the seed.
hydrate ==
    /\ phase = "first"
    /\ next' = useCollection(storage, items)
    /\ storage' = items
    /\ phase' = "hydrating"
    /\ UNCHANGED <<page, items, dialog, chosen, edits, mine, cut>>

\* The next render, and its effect.
write ==
    /\ phase \in {"hydrating", "edited"}
    /\ items' = next /\ storage' = next
    /\ mine' = IF phase = "edited" \/ mine = None \/ cut THEN next ELSE mine
    /\ cut' = FALSE
    /\ phase' = "ready"
    /\ UNCHANGED <<page, next, dialog, chosen, edits>>

\* The tab goes, with what it has not written.
Close ==
    /\ phase # "closed"
    /\ phase' = "closed"
    /\ cut' = (cut \/ phase = "hydrating")
    /\ UNCHANGED <<page, storage, items, next, dialog, chosen, edits, mine>>

\* No click falls between a change and its render.
setItems(content) ==
    /\ phase = "ready" /\ edits < MaxEdits
    /\ edits' = edits + 1
    /\ next' = content
    /\ phase' = "edited"
    /\ UNCHANGED <<page, storage, items, mine, cut>>

create(i) == ~There(i) /\ setItems([items EXCEPT ![i] = "made"])
insert(i) == ~There(i) /\ setItems([items EXCEPT ![i] = "made"])
updateItem(i) == setItems(IF There(i) THEN [items EXCEPT ![i] = "changed"] ELSE items)
remove(i) == setItems([items EXCEPT ![i] = None])

-----------------------------------------------------------------------------
(* Dialogs.                                                                *)

On(p) == page = p /\ phase = "ready"

Shows(d, i) ==
    /\ dialog' = d /\ chosen' = i
    /\ UNCHANGED <<page, local, edits>>

Leave == phase = "ready" /\ dialog # "none" /\ Shows("none", None)
Done == dialog' = "none" /\ chosen' = None
Stays == UNCHANGED <<dialog, chosen>>

\* The buttons of a row, and those of its detail.
Reached(i) == There(i) /\ (dialog = "none" \/ (dialog = "detail" /\ chosen = i))

OpenDetail(i) == phase = "ready" /\ page \in {"workflows", "assets"} /\ dialog = "none" /\ There(i) /\ Shows("detail", i)

-----------------------------------------------------------------------------
(* Workflows.                                                              *)

openCreate == On("workflows") /\ dialog = "none" /\ Shows("form", None)
openEdit(i) == On("workflows") /\ Reached(i) /\ Shows("form", i)

\* A draft without a name, or with too short a description, stays.
submit(i) ==
    /\ On("workflows") /\ dialog = "form"
    /\ IF chosen = None THEN create(i) ELSE i = chosen /\ updateItem(i)
    /\ Done

duplicate(i, copy) == On("workflows") /\ Reached(i) /\ insert(copy) /\ Stays
publish(i) == On("workflows") /\ dialog = "detail" /\ chosen = i /\ updateItem(i) /\ Stays
deleteWorkflow(i) ==
    \/ On("workflows") /\ Reached(i) /\ Shows("remove", i)
    \/ On("workflows") /\ dialog = "remove" /\ chosen = i /\ remove(i) /\ Done

-----------------------------------------------------------------------------
(* Assets.                                                                 *)

\* The files of one choice, but for those that are too large.
onUpload(files) ==
    /\ On("assets") /\ dialog = "none"
    /\ files # {} /\ \A i \in files : ~There(i)
    /\ setItems([i \in Items |-> IF i \in files THEN "made" ELSE items[i]])
    /\ Stays

\* The dialog comes over the detail, which is there again when it has gone.
openRename(i) == On("assets") /\ dialog = "detail" /\ chosen = i /\ Shows("rename", i)
leaveRename == On("assets") /\ dialog = "rename" /\ Shows("detail", chosen)
rename(i) ==
    /\ On("assets") /\ dialog = "rename" /\ chosen = i
    /\ updateItem(i)
    /\ dialog' = "detail" /\ chosen' = i
switchScope(i) == On("assets") /\ dialog = "detail" /\ chosen = i /\ updateItem(i) /\ Stays
deleteAsset(i) ==
    \/ On("assets") /\ Reached(i) /\ Shows("remove", i)
    \/ On("assets") /\ dialog = "remove" /\ chosen = i /\ remove(i) /\ Done

-----------------------------------------------------------------------------
(* Settings.                                                               *)

\* A change of the profile is written at once; the button that saves it only
\* says so.
change(i) == On("profile") /\ updateItem(i) /\ Stays
resetItems == On("profile") /\ setItems(Seed) /\ Stays

openNewKey == On("keys") /\ dialog = "none" /\ Shows("form", None)

\* The dialog stays, with the secret that is shown this once.
newKey(i) == On("keys") /\ dialog = "form" /\ chosen = None /\ create(i) /\ dialog' = "form" /\ chosen' = i
revokeKey(i) ==
    \/ On("keys") /\ dialog = "none" /\ There(i) /\ Shows("remove", i)
    \/ On("keys") /\ dialog = "remove" /\ chosen = i /\ remove(i) /\ Done

-----------------------------------------------------------------------------
LocalInit ==
    /\ page \in Pages
    /\ storage = None /\ items = Seed /\ phase = "closed" /\ next = Seed
    /\ dialog = "none" /\ chosen = None /\ edits = 0
    /\ mine = None /\ cut = FALSE

LocalNext ==
    \/ Visit \/ hydrate \/ write \/ Close \/ Leave
    \/ openCreate \/ leaveRename \/ resetItems \/ openNewKey
    \/ \E files \in SUBSET Items : onUpload(files)
    \/ \E i \in Items :
        \/ OpenDetail(i) \/ openEdit(i) \/ submit(i) \/ publish(i) \/ deleteWorkflow(i)
        \/ openRename(i) \/ rename(i) \/ switchScope(i) \/ deleteAsset(i)
        \/ change(i) \/ newKey(i) \/ revokeKey(i)
        \/ \E copy \in Items : duplicate(i, copy)

LocalTypeOK ==
    /\ page \in Pages /\ storage \in Content \cup {None}
    /\ items \in Content /\ next \in Content
    /\ phase \in {"closed", "first", "hydrating", "edited", "ready"}
    /\ dialog \in {"none", "form", "detail", "rename", "remove"}
    /\ chosen \in Items \cup {None} /\ edits \in 0 .. MaxEdits
    /\ mine \in Content \cup {None} /\ cut \in BOOLEAN

\* The first effects of every visit write the seed over what is stored, and the
\* next render puts back what they read (ui/store.ts:68-78).  As long as no tab
\* was closed between the two, what the user has made, changed and deleted is
\* there on the next visit and in the storage between visits.
KeptUnlessCut ==
    ~cut => /\ phase = "closed" => storage = mine
            /\ phase = "ready" => storage = mine /\ items = mine

\* The rules at ui/store.ts:8-12: no write before what is stored has been
\* applied, so the seed never takes the place of what the user has stored.
SeedClobbersNothing == phase = "closed" /\ mine # None => storage = mine

=============================================================================
