-------------------------- MODULE WorkspaceProofs --------------------------
(***************************************************************************)
(* The workspace configuration for any agents and any number of tasks.     *)
(* The page shows as saved only what the server has held, whatever loads,  *)
(* saves and resets overlap; and the pool of Planner agrees with the       *)
(* stored configuration whenever no task is between its two reads.         *)
(***************************************************************************)
EXTENDS Workspace, TLAPS

\* What the requests bring and the cache keeps is known to the server.
KnownToServer ==
    /\ Answered(fetch) => fetch \in held
    /\ Answered(restore) => restore \in held
    /\ entry # None => entry \in held
    /\ put # None /\ putDone => put \in held

SavedInv == KnownToServer /\ SavedWasHeld

LEMMA DefaultIsConfig == Default \in Config
BY DEF Default, Config

LEMMA MergeIsConfig ==
    ASSUME NEW c \in Config
    PROVE  Merge(c) \in Config
<1>1. /\ c.agents \in [Agents -> {"on", "off", "absent"}] /\ c.sound \in BOOLEAN
      /\ c = [agents |-> c.agents, sound |-> c.sound]
  BY DEF Config
<1>2. Merge(c) = [agents |-> [a \in Agents |-> IF c.agents[a] = "absent" THEN "on" ELSE c.agents[a]],
                  sound |-> c.sound]
  BY <1>1 DEF Merge
<1>3. QED
  BY <1>1, <1>2 DEF Config

\* What get adds to a configuration changes nothing for the pool: an agent it
\* lacks is enabled with and without the defaults (workspace.py:293-304).
LEMMA MergeKeepsPool ==
    ASSUME NEW c \in Config
    PROVE  Pool(Merge(c)) = Pool(c)
<1>1. /\ c.agents \in [Agents -> {"on", "off", "absent"}] /\ c.sound \in BOOLEAN
      /\ c = [agents |-> c.agents, sound |-> c.sound]
  BY DEF Config
<1>2. Merge(c).agents = [a \in Agents |-> IF c.agents[a] = "absent" THEN "on" ELSE c.agents[a]]
  BY <1>1 DEF Merge
<1>3. QED
  BY <1>2 DEF Pool

-----------------------------------------------------------------------------
(* Types.                                                                  *)

\* Type correctness, for any agents and tasks: no answer that is late or
\* lost puts anything but a configuration on the page, in the cache or in
\* the table (page.tsx:153-282, workspace.py:62-120).
THEOREM WorkspaceTypeCorrect == WorkspaceSpec => []WorkspaceTypeOK
<1>1. WorkspaceInit => WorkspaceTypeOK
  BY DefaultIsConfig DEF WorkspaceInit, WorkspaceTypeOK, Maybe, Pool
<1>2. WorkspaceTypeOK /\ [WorkspaceNext]_workspaceVars => WorkspaceTypeOK'
  <2> SUFFICES ASSUME WorkspaceTypeOK, [WorkspaceNext]_workspaceVars PROVE WorkspaceTypeOK'
    OBVIOUS
  <2> USE DEF Maybe
  <2>1. Merge(stored) \in Config
    BY MergeIsConfig DEF WorkspaceTypeOK
  <2>2. ASSUME NEW t \in Starts, CollectContext(t) PROVE WorkspaceTypeOK'
    BY <2>1, <2>2 DEF CollectContext, WorkspaceTypeOK, server, editor, requests
  <2>3. ASSUME NEW t \in Starts, ApplyContext(t) PROVE WorkspaceTypeOK'
    BY <2>3 DEF ApplyContext, WorkspaceTypeOK, editor, requests, Pool
  <2>4. ASSUME NEW t \in Starts, ReadPolicies(t) PROVE WorkspaceTypeOK'
    BY <2>1, <2>4 DEF ReadPolicies, Get, WorkspaceTypeOK, editor, requests, Pool
  <2>5. ASSUME Load PROVE WorkspaceTypeOK'
    BY <2>5 DEF Load, WorkspaceTypeOK, server, contexts
  <2>6. ASSUME LoadAnswer PROVE WorkspaceTypeOK'
    BY <2>1, <2>6 DEF LoadAnswer, Get, WorkspaceTypeOK, contexts, editor, Pool
  <2>7. ASSUME LoadArrives PROVE WorkspaceTypeOK'
    BY <2>7 DEF LoadArrives, Answered, WorkspaceTypeOK, server, contexts
  <2>8. ASSUME LoadFails PROVE WorkspaceTypeOK'
    BY <2>8 DEF LoadFails, WorkspaceTypeOK, server, contexts, editor
  <2>9. ASSUME NEW c \in Config, update(c) PROVE WorkspaceTypeOK'
    BY <2>9 DEF update, WorkspaceTypeOK, server, contexts, requests
  <2>10. ASSUME save PROVE WorkspaceTypeOK'
    BY <2>10 DEF save, WorkspaceTypeOK, server, contexts
  <2>11. ASSUME SaveOnServer PROVE WorkspaceTypeOK'
    BY <2>11 DEF SaveOnServer, Store, WorkspaceTypeOK, contexts, editor, Pool
  <2>12. ASSUME SaveArrives PROVE WorkspaceTypeOK'
    BY <2>12 DEF SaveArrives, Show, WorkspaceTypeOK, server, contexts, editor
  <2>13. ASSUME SaveFails PROVE WorkspaceTypeOK'
    BY <2>13 DEF SaveFails, WorkspaceTypeOK, server, contexts
  <2>14. ASSUME reset PROVE WorkspaceTypeOK'
    BY <2>14 DEF reset, WorkspaceTypeOK, server, contexts
  <2>15. ASSUME ResetOnServer PROVE WorkspaceTypeOK'
    BY <2>15, DefaultIsConfig DEF ResetOnServer, Store, WorkspaceTypeOK, contexts, editor, Pool
  <2>16. ASSUME ResetArrives PROVE WorkspaceTypeOK'
    BY <2>16 DEF ResetArrives, Answered, Show, WorkspaceTypeOK, server, contexts, editor
  <2>17. ASSUME ResetFails PROVE WorkspaceTypeOK'
    BY <2>17 DEF ResetFails, WorkspaceTypeOK, server, contexts
  <2>18. CASE UNCHANGED workspaceVars
    BY <2>18 DEF workspaceVars, WorkspaceTypeOK, server, contexts, editor, requests
  <2>19. QED
    BY <2>2, <2>3, <2>4, <2>5, <2>6, <2>7, <2>8, <2>9, <2>10, <2>11, <2>12, <2>13, <2>14,
       <2>15, <2>16, <2>17, <2>18 DEF WorkspaceNext
<1>3. QED
  BY <1>1, <1>2, PTL DEF WorkspaceSpec

-----------------------------------------------------------------------------
(* What is shown as saved.                                                 *)

LEMMA SavedStarts == WorkspaceInit => SavedInv
BY DEF WorkspaceInit, SavedInv, KnownToServer, SavedWasHeld, Answered

\* The server never forgets what it has held.
LEMMA HeldGrows == [WorkspaceNext]_workspaceVars => held \subseteq held'
BY DEF WorkspaceNext, CollectContext, ApplyContext, ReadPolicies, Load, LoadAnswer, LoadArrives, LoadFails,
       update, save, SaveOnServer, SaveArrives, SaveFails, reset, ResetOnServer, ResetArrives,
       ResetFails, Get, Store, workspaceVars

LEMMA KnownStays ==
    ASSUME KnownToServer, [WorkspaceNext]_workspaceVars
    PROVE  KnownToServer'
<1> USE DEF KnownToServer, Answered
<1>1. held \subseteq held'
  BY HeldGrows
<1>2. ASSUME NEW t \in Starts, CollectContext(t) \/ ApplyContext(t) \/ ReadPolicies(t)
      PROVE  KnownToServer'
  BY <1>1, <1>2 DEF CollectContext, ApplyContext, ReadPolicies, requests
<1>3. ASSUME Load \/ (\E c \in Config : update(c)) \/ UNCHANGED workspaceVars
      PROVE  KnownToServer'
  BY <1>1, <1>3 DEF Load, update, workspaceVars, requests
<1>4. ASSUME LoadAnswer \/ LoadArrives \/ LoadFails
      PROVE  KnownToServer'
  BY <1>1, <1>4 DEF LoadAnswer, LoadArrives, LoadFails, Get
<1>5. ASSUME save \/ SaveOnServer \/ SaveArrives \/ SaveFails
      PROVE  KnownToServer'
  BY <1>1, <1>5 DEF save, SaveOnServer, SaveArrives, SaveFails, Store
<1>6. ASSUME reset \/ ResetOnServer \/ ResetArrives \/ ResetFails
      PROVE  KnownToServer'
  BY <1>1, <1>6 DEF reset, ResetOnServer, ResetArrives, ResetFails, Store
<1>7. QED
  BY <1>2, <1>3, <1>4, <1>5, <1>6 DEF WorkspaceNext

LEMMA ShownStays ==
    ASSUME SavedInv, [WorkspaceNext]_workspaceVars
    PROVE  SavedWasHeld'
<1> USE DEF SavedInv, KnownToServer, SavedWasHeld, Answered
<1>1. held \subseteq held'
  BY HeldGrows
<1>2. ASSUME NEW t \in Starts, CollectContext(t) \/ ApplyContext(t) \/ ReadPolicies(t)
      PROVE  SavedWasHeld'
  BY <1>1, <1>2 DEF CollectContext, ApplyContext, ReadPolicies, editor
<1>3. ASSUME Load PROVE SavedWasHeld'
  BY <1>1, <1>3 DEF Load
<1>4. ASSUME LoadAnswer \/ LoadArrives \/ LoadFails
      PROVE  SavedWasHeld'
  BY <1>1, <1>4 DEF LoadAnswer, LoadArrives, LoadFails, Get, editor
<1>5. ASSUME (\E c \in Config : update(c)) \/ save \/ SaveOnServer \/ SaveFails \/ UNCHANGED workspaceVars
      PROVE  SavedWasHeld'
  BY <1>1, <1>5 DEF update, save, SaveOnServer, SaveFails, Store, editor, workspaceVars
<1>6. ASSUME SaveArrives PROVE SavedWasHeld'
  BY <1>1, <1>6 DEF SaveArrives, Show, editor
<1>7. ASSUME reset \/ ResetOnServer \/ ResetFails
      PROVE  SavedWasHeld'
  BY <1>1, <1>7 DEF reset, ResetOnServer, ResetFails, Store, editor
<1>8. ASSUME ResetArrives PROVE SavedWasHeld'
  BY <1>1, <1>8 DEF ResetArrives, Show, editor
<1>9. QED
  BY <1>2, <1>3, <1>4, <1>5, <1>6, <1>7, <1>8 DEF WorkspaceNext

\* The header says "saved" only of a configuration the server has held, in
\* whatever order edits, saves, resets and loads overlap
\* (page.tsx:153-282).
THEOREM SavedWasHeldHolds == WorkspaceSpec => []SavedWasHeld
<1>1. SavedInv /\ [WorkspaceNext]_workspaceVars => SavedInv'
  BY KnownStays, ShownStays DEF SavedInv
<1>2. SavedInv => SavedWasHeld
  BY DEF SavedInv
<1>3. QED
  BY <1>1, <1>2, SavedStarts, PTL DEF WorkspaceSpec

-----------------------------------------------------------------------------
(* The pool.                                                               *)

\* Between its two reads a task is at "context" or "policies".
LEMMA PoolStep ==
    ASSUME WorkspaceTypeOK, PoolSettles, [WorkspaceNext]_workspaceVars
    PROVE  PoolSettles'
<1> USE DEF PoolSettles
<1>1. Pool(Merge(stored)) = Pool(stored)
  BY MergeKeepsPool DEF WorkspaceTypeOK
<1>2. ASSUME NEW t \in Starts, CollectContext(t) \/ ApplyContext(t)
      PROVE  PoolSettles'
  <2>1. creating'[t] \in {"context", "policies"}
    BY <1>2 DEF CollectContext, ApplyContext, WorkspaceTypeOK
  <2>2. QED
    BY <2>1
<1>3. ASSUME NEW t \in Starts, ReadPolicies(t)
      PROVE  PoolSettles'
  BY <1>1, <1>3 DEF ReadPolicies, Get, Pool
<1>4. ASSUME SaveOnServer \/ ResetOnServer
      PROVE  PoolSettles'
  BY <1>4 DEF SaveOnServer, ResetOnServer, Store, Pool
<1>5. ASSUME LoadAnswer PROVE PoolSettles'
  BY <1>1, <1>5 DEF LoadAnswer, Get, Pool
<1>6. ASSUME \/ Load \/ LoadArrives \/ LoadFails \/ (\E c \in Config : update(c))
             \/ save \/ SaveArrives \/ SaveFails \/ reset \/ ResetArrives \/ ResetFails
             \/ UNCHANGED workspaceVars
      PROVE  PoolSettles'
  BY <1>6 DEF Load, LoadArrives, LoadFails, update, save, SaveArrives, SaveFails, reset,
              ResetArrives, ResetFails, workspaceVars, server, contexts, Pool
<1>7. QED
  BY <1>2, <1>3, <1>4, <1>5, <1>6 DEF WorkspaceNext

\* A thread may apply a configuration that has been replaced meanwhile; once
\* no task is between its two reads, the pool is again that of the stored
\* configuration, for any number of tasks at once (workspace.py:183,
\* task_service.py:65-76).
THEOREM PoolSettlesHolds == WorkspaceSpec => []PoolSettles
<1>1. WorkspaceInit => PoolSettles
  BY DEF WorkspaceInit, PoolSettles
<1>2. QED
  BY <1>1, PoolStep, WorkspaceTypeCorrect, PTL DEF WorkspaceSpec

=============================================================================
