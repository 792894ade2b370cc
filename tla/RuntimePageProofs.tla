------------------------- MODULE RuntimePageProofs -------------------------
(***************************************************************************)
(* The runtime page for any tasks, conversations and bounds: a draft of a  *)
(* new conversation is left alone by everything but the user and the       *)
(* answers to messages, and a task the page has been given is not lost to  *)
(* a list that was asked for earlier, unless a refresh joined that list's  *)
(* request.                                                                *)
(***************************************************************************)
EXTENDS RuntimePage, TLAPS

\* The server has every task the page was given, and so has every answer to a
\* request for the list that nobody joined.
SentInv ==
    /\ sent \subseteq Listed(db)
    /\ joined = "now" \/ list \in {None, Asked} \/ sent \subseteq Listed(list)
    /\ SentStays

-----------------------------------------------------------------------------
(* Drafts.                                                                 *)

\* No conversation is selected while a new one is written.
DraftInv == drafting => active = None

\* What keeps a draft, and what ends it.
Kept == drafting' /\ active' = None
Chosen == \E t \in Tasks : onSelect(t) \/ closeConversation(t)
Given == \E p \in posts : SendArrives(p)

LEMMA DraftStep ==
    ASSUME DraftInv, [RuntimeNext]_runtimeVars
    PROVE  DraftInv' /\ (drafting => Kept \/ Chosen \/ Given)
<1> USE DEF DraftInv, Kept
<1>1. ASSUME NEW rows, NEW closed, drafting, active' \in AutoSelect(rows, closed, active, drafting)
      PROVE  active' = None
  <2>1. AutoSelect(rows, closed, active, drafting) = {active}
    BY <1>1, Zenon DEF AutoSelect
  <2>2. QED
    BY <1>1, <2>1
<1>2. CASE ListArrives
  BY <1>1, <1>2 DEF ListArrives
<1>3. ASSUME NEW t \in Tasks, patchTask(t)
      PROVE  DraftInv' /\ (drafting => Kept)
  BY <1>1, <1>3 DEF patchTask
<1>4. CASE restoreConversations
  BY <1>1, <1>4 DEF restoreConversations
<1>5. CASE Chosen
  BY <1>5 DEF Chosen, onSelect, closeConversation
<1>6. CASE refresh \/ startNewConversation
  BY <1>6 DEF refresh, startNewConversation, chat
<1>7. CASE SessionsPanel
  BY <1>4, <1>5, <1>6, <1>7 DEF SessionsPanel, Chosen
<1>8. CASE TaskComposer \/ ListAnswer \/ ListFails \/ DecideOnServer \/ DecideArrives \/ DecideFails
  <2>1. UNCHANGED chat
    BY <1>8, Zenon DEF TaskComposer, send, ListAnswer, ListFails, DecideOnServer, DecideArrives,
                       DecideFails
  <2>2. QED
    BY <2>1 DEF chat
<1>9. ASSUME NEW t \in Tasks, decide(t) \/ \E s \in Status : Settle(t, s)
      PROVE  DraftInv' /\ (drafting => Kept)
  BY <1>9 DEF decide, Settle, chat
<1>10. ASSUME NEW p \in posts, SendArrives(p)
       PROVE  DraftInv' /\ Given
  BY <1>10 DEF SendArrives, Given
<1>11. ASSUME NEW p \in posts, CreateOnServer(p) \/ SendFails(p)
       PROVE  DraftInv' /\ (drafting => Kept)
  BY <1>11 DEF CreateOnServer, SendFails, chat
<1>12. CASE UNCHANGED runtimeVars
  BY <1>12 DEF runtimeVars, chat
<1>13. QED
  BY <1>2, <1>3, <1>7, <1>8, <1>9, <1>10, <1>11, <1>12 DEF RuntimeNext

\* Once the user has asked for a new conversation, no list, patch, restored
\* conversation or decision ends that or selects one: only the user does, and
\* the answer to a message, whichever conversation it was sent to
\* (runtime/page.tsx:246-252 and 384-390).
THEOREM DraftIsLeftAloneHolds ==
    RuntimeInit /\ [][RuntimeNext]_runtimeVars => DraftIsLeftAlone
<1>1. RuntimeInit => DraftInv
  BY DEF RuntimeInit, DraftInv
<1>2. DraftInv /\ [RuntimeNext]_runtimeVars => DraftInv'
  BY DraftStep
<1>3. DraftInv /\ [RuntimeNext]_runtimeVars =>
          [drafting => Kept \/ Chosen \/ Given]_runtimeVars
  BY DraftStep
<1>4. [drafting => Kept \/ Chosen \/ Given]_runtimeVars =>
          [drafting => \/ drafting' /\ active' = None
                       \/ \E t \in Tasks : onSelect(t) \/ closeConversation(t)
                       \/ \E p \in posts : SendArrives(p)]_runtimeVars
  BY DEF Kept, Chosen, Given
<1>5. QED
  BY <1>1, <1>2, <1>3, <1>4, PTL DEF DraftIsLeftAlone

-----------------------------------------------------------------------------
(* Types.                                                                  *)

\* Whatever the effect that follows a render selects is a conversation.
LEMMA SelectionIsConv ==
    ASSUME NEW rows \in [Tasks -> Task \cup {None}], NEW closed, NEW act \in Convs \cup {None},
           NEW draft
    PROVE  AutoSelect(rows, closed, act, draft) \subseteq Convs \cup {None}
<1>1. conversations(rows, closed) \subseteq Convs \cup {None}
  <2>1. \A t \in Listed(rows) : rows[t].conv \in Convs
    BY DEF Listed, Task
  <2>2. QED
    BY <2>1 DEF conversations, conversationOf
<1>2. AutoSelect(rows, closed, act, draft) \in {{act}, conversations(rows, closed)}
  BY Zenon DEF AutoSelect
<1>3. QED
  BY <1>1, <1>2

\* Type correctness, for any tasks, conversations and bounds: no answer that
\* is late makes the page show anything but tasks and conversations
\* (runtime/page.tsx:205-470).
THEOREM RuntimeTypeCorrect == RuntimeInit /\ [][RuntimeNext]_runtimeVars => []RuntimeTypeOK
<1>1. RuntimeInit => RuntimeTypeOK
  BY DEF RuntimeInit, RuntimeTypeOK, NoTasks
<1>2. RuntimeTypeOK /\ [RuntimeNext]_runtimeVars => RuntimeTypeOK'
  <2> SUFFICES ASSUME RuntimeTypeOK, [RuntimeNext]_runtimeVars PROVE RuntimeTypeOK'
    OBVIOUS
  <2> USE DEF RuntimeTypeOK
  <2>1. CASE refresh
    BY <2>1 DEF refresh, LoadTasks, chat
  <2>2. CASE ListAnswer
    BY <2>2 DEF ListAnswer, chat
  <2>3. CASE ListArrives
    <3>1. tasks' \in [Tasks -> Task \cup {None}] /\ list' = None
      BY <2>3 DEF ListArrives, Answered
    <3>2. active' \in Convs \cup {None}
      BY <2>3, SelectionIsConv DEF ListArrives, Answered
    <3>3. waiting' = FALSE /\ busy' \in BOOLEAN /\ joined' \in {"no", "now", "before"}
      BY <2>3 DEF ListArrives, EndWait
    <3>4. QED
      BY <2>3, <3>1, <3>2, <3>3 DEF ListArrives
  <2>4. CASE ListFails
    BY <2>4 DEF ListFails, EndWait, chat
  <2>5. ASSUME NEW t \in Tasks, patchTask(t) PROVE RuntimeTypeOK'
    <3>1. tasks' \in [Tasks -> Task \cup {None}]
      BY <2>5 DEF patchTask
    <3>2. active' \in Convs \cup {None}
      BY <2>5, <3>1, SelectionIsConv DEF patchTask
    <3>3. QED
      BY <2>5, <3>1, <3>2 DEF patchTask, wires
  <2>6. ASSUME NEW t \in Tasks, onSelect(t) PROVE RuntimeTypeOK'
    BY <2>6 DEF onSelect, visibleList, Listed, conversationOf, Task, wires
  <2>7. ASSUME NEW t \in Tasks, closeConversation(t) PROVE RuntimeTypeOK'
    <3>1. current \in Convs /\ hidden' = hidden \cup {current}
      BY <2>7 DEF closeConversation, visibleList, Listed, conversationOf, Task
    <3>2. active' \in Convs \cup {None}
      BY <2>7, SelectionIsConv DEF closeConversation
    <3>3. QED
      BY <2>7, <3>1, <3>2 DEF closeConversation, wires
  <2>8. CASE restoreConversations
    <3>1. active' \in Convs \cup {None}
      BY <2>8, SelectionIsConv DEF restoreConversations
    <3>2. QED
      BY <2>8, <3>1 DEF restoreConversations, wires
  <2>9. CASE startNewConversation
    BY <2>9 DEF startNewConversation, wires
  <2>10. CASE TaskComposer
    <3>1. busy' \in BOOLEAN
      BY <2>10 DEF TaskComposer, send
    <3>2. ASSUME NEW t \in FreeTasks, NEW c \in (IF active # None THEN {active} ELSE FreeConvs)
          PROVE  [task |-> t, conv |-> c] \in [task : Tasks, conv : Convs]
      BY DEF FreeTasks, FreeConvs
    <3>3. posts' \subseteq [task : Tasks, conv : Convs]
      BY <2>10, <3>2 DEF TaskComposer, send
    <3>4. QED
      BY <2>10, <3>1, <3>3 DEF TaskComposer, send, chat
  <2>11. ASSUME NEW t \in Tasks, decide(t) PROVE RuntimeTypeOK'
    BY <2>11 DEF decide, chat
  <2>12. ASSUME NEW t \in Tasks, NEW s \in Status, Settle(t, s) PROVE RuntimeTypeOK'
    BY <2>12 DEF Settle, Task, chat, wires
  <2>13. ASSUME NEW p \in posts, CreateOnServer(p) PROVE RuntimeTypeOK'
    <3>1. p.task \in Tasks /\ [conv |-> p.conv, status |-> "running"] \in Task
      BY DEF Task, Status
    <3>2. QED
      BY <2>13, <3>1 DEF CreateOnServer, chat, wires
  <2>14. ASSUME NEW p \in posts, SendArrives(p) PROVE RuntimeTypeOK'
    BY <2>14 DEF SendArrives, LoadTasks
  <2>15. ASSUME NEW p \in posts, SendFails(p) PROVE RuntimeTypeOK'
    BY <2>15 DEF SendFails, chat
  <2>16. CASE DecideOnServer
    <3>1. /\ decision \in Tasks /\ db[decision] \in Task
          /\ db' = [db EXCEPT ![decision] = [db[decision] EXCEPT !.status = "completed"]]
      BY <2>16 DEF DecideOnServer
    <3>2. QED
      BY <2>16, <3>1 DEF DecideOnServer, Task, Status, chat, wires
  <2>17. CASE DecideArrives
    BY <2>17 DEF DecideArrives, LoadTasks, chat
  <2>18. CASE DecideFails
    BY <2>18 DEF DecideFails, chat
  <2>19. CASE UNCHANGED runtimeVars
    BY <2>19 DEF runtimeVars, chat, wires
  <2>20. QED
    BY <2>1, <2>2, <2>3, <2>4, <2>5, <2>6, <2>7, <2>8, <2>9, <2>10, <2>11, <2>12, <2>13,
       <2>14, <2>15, <2>16, <2>17, <2>18, <2>19 DEF RuntimeNext, SessionsPanel
<1>3. QED
  BY <1>1, <1>2, PTL

-----------------------------------------------------------------------------
(* What was sent.                                                          *)

\* Steps that touch neither the list nor what was sent, and add to the tasks.
LEMMA NothingLost ==
    ASSUME SentInv, sent' = sent, joined' = joined, list' = list,
           Listed(db) \subseteq Listed(db'), Listed(tasks) \subseteq Listed(tasks')
    PROVE  SentInv'
BY DEF SentInv, SentStays, Listed

LEMMA SentKept ==
    ASSUME None \notin Task, SentInv, RuntimeTypeOK, [RuntimeNext]_runtimeVars
    PROVE  SentInv'
<1>1. CASE refresh
  BY <1>1 DEF refresh, LoadTasks, SentInv, SentStays, Listed
<1>2. CASE ListAnswer
  BY <1>2 DEF ListAnswer, SentInv, SentStays, Listed
<1>3. CASE ListArrives
  BY <1>3 DEF ListArrives, Answered, EndWait, SentInv, SentStays, Listed
<1>4. CASE ListFails
  BY <1>4 DEF ListFails, EndWait, SentInv, SentStays, Listed
<1>5. ASSUME NEW t \in Tasks, patchTask(t) PROVE SentInv'
  <2>1. Listed(tasks) \subseteq Listed(tasks')
    BY <1>5 DEF patchTask, Listed, RuntimeTypeOK
  <2>2. QED
    BY <1>5, <2>1, NothingLost DEF patchTask, wires
<1>6. ASSUME \/ restoreConversations \/ startNewConversation
             \/ \E t \in Tasks : onSelect(t) \/ closeConversation(t)
      PROVE  SentInv'
  BY <1>6, NothingLost
     DEF restoreConversations, startNewConversation, onSelect, closeConversation, wires
<1>7. CASE TaskComposer \/ (\E t \in Tasks : decide(t)) \/ (\E p \in posts : SendFails(p)) \/ DecideFails
  BY <1>7, NothingLost DEF TaskComposer, send, decide, SendFails, DecideFails
<1>8. ASSUME NEW p \in posts, CreateOnServer(p) PROVE SentInv'
  <2>1. p.task \in Tasks /\ db' = [db EXCEPT ![p.task] = [conv |-> p.conv, status |-> "running"]]
    BY <1>8 DEF CreateOnServer, RuntimeTypeOK
  <2>2. Listed(db) \subseteq Listed(db')
    BY <1>8, <2>1 DEF CreateOnServer, Listed, RuntimeTypeOK
  <2>3. QED
    BY <1>8, <2>2, NothingLost DEF CreateOnServer, wires
<1>9. ASSUME NEW t \in Tasks, NEW s \in Status, Settle(t, s) PROVE SentInv'
  <2>1. Listed(db) \subseteq Listed(db')
    BY <1>9 DEF Settle, Listed, RuntimeTypeOK, Task, Status
  <2>2. QED
    BY <1>9, <2>1, NothingLost DEF Settle, wires
<1>10. CASE DecideOnServer
  <2>1. Listed(db) \subseteq Listed(db')
    BY <1>10 DEF DecideOnServer, Listed, RuntimeTypeOK, Task, Status
  <2>2. QED
    BY <1>10, <2>1, NothingLost DEF DecideOnServer, wires
<1>11. ASSUME NEW p \in posts, SendArrives(p) PROVE SentInv'
  <2>1. p.task \in Listed(db) /\ sent' = sent \cup {p.task}
    BY <1>11 DEF SendArrives, Listed, RuntimeTypeOK
  <2>2. Listed(tasks') = Listed(tasks) \cup {p.task}
    BY <1>11, <2>1 DEF SendArrives, Listed, RuntimeTypeOK
  <2>3. SentStays'
    BY <1>11, <2>1, <2>2 DEF SendArrives, LoadTasks, SentInv, SentStays, Listed
  <2>4. joined' = "now" \/ list' \in {None, Asked}
    BY <1>11 DEF SendArrives, LoadTasks
  <2>5. db' = db
    BY <1>11 DEF SendArrives
  <2>6. QED
    BY <2>1, <2>3, <2>4, <2>5 DEF SentInv, Listed
<1>12. CASE DecideArrives
  BY <1>12 DEF DecideArrives, LoadTasks, SentInv, SentStays, Listed
<1>13. CASE UNCHANGED runtimeVars
  BY <1>13, NothingLost DEF runtimeVars, wires
<1>14. QED
  BY <1>1, <1>2, <1>3, <1>4, <1>5, <1>6, <1>7, <1>8, <1>9, <1>10, <1>11, <1>12, <1>13
     DEF RuntimeNext, SessionsPanel

\* A task the page has been given stays in its list, whatever lists, patches
\* and other messages arrive later, unless a refresh joined a request that
\* was under way (runtime/page.tsx:384-393, resource-cache.ts:45).
THEOREM SentStaysHolds ==
    ASSUME None \notin Task
    PROVE  RuntimeInit /\ [][RuntimeNext]_runtimeVars => []SentStays
<1>1. RuntimeInit => SentInv
  BY DEF RuntimeInit, SentInv, SentStays
<1>2. RuntimeTypeOK /\ SentInv /\ [RuntimeNext]_runtimeVars => SentInv'
  BY SentKept
<1>3. SentInv => SentStays
  BY DEF SentInv
<1>4. QED
  BY <1>1, <1>2, <1>3, RuntimeTypeCorrect, PTL

=============================================================================
