-------------------------- MODULE LiveTasksProofs --------------------------
(***************************************************************************)
(* A tab hears the log of a task from its start, in order, whatever        *)
(* connections are lost and however often the process restarts, for any    *)
(* bounds; and it holds a connection only while it wants one.              *)
(*                                                                         *)
(* The ids of what is under way to the browser go up by one with every     *)
(* event and stay with every heartbeat, from the id the browser has to the *)
(* generator's cursor.                                                     *)
(***************************************************************************)
EXTENDS LiveTasks, SequenceTheorems, TLAPS

\* The ids of the pipe p go on from the id n, along the log l.
Before(p, n, i) == IF i = 1 THEN n ELSE p[i - 1].id

Carried(p, l, n) ==
    \A i \in 1 .. Len(p) :
        /\ p[i].id <= Len(l)
        /\ \/ p[i].event = Heartbeat /\ p[i].id = Before(p, n, i)
           \/ p[i].event = l[p[i].id] /\ p[i].id = Before(p, n, i) + 1

LastOf(p, n) == IF p = << >> THEN n ELSE p[Len(p)].id

\* What is heard, g, is the log l up to the id n, element by element.
Heard(g, l, n) ==
    /\ n <= Len(l) /\ Len(g) = n
    /\ \A i \in 1 .. n : g[i] = l[i]

StreamInv ==
    /\ StreamTypeOK
    /\ stored = log
    /\ Heard(got, log, lastId)
    /\ cursor <= Len(log)
    /\ IF source = "open" THEN Carried(pipe, log, lastId) /\ cursor = LastOf(pipe, lastId)
       ELSE gen = "none" /\ cursor = 0 /\ pipe = << >>

\* What a step of the page does to the stream.
StreamStep ==
    \/ StreamNext
    \/ LetGo /\ UNCHANGED <<server, faults>>
    \/ UNCHANGED streamVars

-----------------------------------------------------------------------------
(* Sequences of entries.                                                   *)

LEMMA Elements ==
    ASSUME NEW p \in Seq(Entry), NEW i \in 1 .. Len(p)
    PROVE  p[i].id \in Nat /\ p[i].event \in Events \cup {Heartbeat}
<1>1. p[i] \in Entry
  BY ElementOfSeq
<1>2. QED
  BY <1>1 DEF Entry

\* A longer log changes nothing for what is under way, nor for what was heard.
LEMMA LongerLog ==
    ASSUME NEW p \in Seq(Entry), NEW l \in Seq(Events), NEW e \in Events, NEW n \in Nat,
           NEW g \in Seq(Events)
    PROVE  /\ Carried(p, l, n) => Carried(p, Append(l, e), n)
           /\ Heard(g, l, n) => Heard(g, Append(l, e), n)
<1>1. /\ Len(l) \in Nat /\ Len(Append(l, e)) = Len(l) + 1
      /\ \A i \in 1 .. Len(l) : Append(l, e)[i] = l[i]
  BY LenProperties, AppendProperties
<1>2. ASSUME Carried(p, l, n), NEW i \in 1 .. Len(p)
      PROVE  /\ p[i].id <= Len(Append(l, e))
             /\ \/ p[i].event = Heartbeat /\ p[i].id = Before(p, n, i)
                \/ p[i].event = Append(l, e)[p[i].id] /\ p[i].id = Before(p, n, i) + 1
  <2>1. Before(p, n, i) \in Nat /\ p[i].id \in Nat
    BY Elements DEF Before
  <2>2. QED
    BY <1>1, <1>2, <2>1 DEF Carried
<1>3. ASSUME Heard(g, l, n)
      PROVE  Heard(g, Append(l, e), n)
  BY <1>1, <1>3 DEF Heard
<1>4. ASSUME Carried(p, l, n)
      PROVE  Carried(p, Append(l, e), n)
  BY <1>2, <1>4 DEF Carried
<1>5. QED
  BY <1>3, <1>4

\* The generator sends the event at its cursor, or a heartbeat.
LEMMA OneMore ==
    ASSUME NEW p \in Seq(Entry), NEW l \in Seq(Events), NEW n \in Nat, NEW x \in Entry,
           Carried(p, l, n), x.id <= Len(l),
           \/ x.event = Heartbeat /\ x.id = LastOf(p, n)
           \/ x.event = l[x.id] /\ x.id = LastOf(p, n) + 1
    PROVE  Carried(Append(p, x), l, n) /\ LastOf(Append(p, x), n) = x.id
<1>1. /\ Append(p, x) \in Seq(Entry) /\ Append(p, x) # << >>
      /\ Len(Append(p, x)) = Len(p) + 1 /\ Len(p) \in Nat
      /\ \A i \in 1 .. Len(p) : Append(p, x)[i] = p[i]
      /\ Append(p, x)[Len(p) + 1] = x
  BY AppendProperties, LenProperties
<1>2. LastOf(Append(p, x), n) = x.id
  BY <1>1 DEF LastOf
<1>3. LastOf(p, n) = Before(Append(p, x), n, Len(p) + 1)
  BY <1>1, EmptySeq DEF LastOf, Before
<1>4. ASSUME NEW i \in 1 .. Len(p)
      PROVE  Before(Append(p, x), n, i) = Before(p, n, i) /\ Append(p, x)[i] = p[i]
  BY <1>1 DEF Before
<1>5. QED
  BY <1>1, <1>2, <1>3, <1>4 DEF Carried

\* The browser takes the first of what is under way.
LEMMA FirstTaken ==
    ASSUME NEW p \in Seq(Entry), NEW l \in Seq(Events), NEW n \in Nat,
           Carried(p, l, n), p # << >>
    PROVE  /\ Carried(Tail(p), l, p[1].id) /\ LastOf(Tail(p), p[1].id) = LastOf(p, n)
           /\ Tail(p) \in Seq(Entry) /\ Head(p) = p[1] /\ 1 \in 1 .. Len(p)
<1>1. /\ Tail(p) \in Seq(Entry) /\ Len(Tail(p)) = Len(p) - 1
      /\ \A i \in 1 .. Len(Tail(p)) : Tail(p)[i] = p[i + 1]
      /\ Len(p) \in Nat \ {0}
  BY HeadTailProperties, EmptySeq
<1>2. Tail(p) = << >> <=> Len(p) = 1
  <2>1. Tail(p) = << >> <=> Len(Tail(p)) = 0
    BY <1>1, EmptySeq
  <2>2. Len(Tail(p)) = 0 <=> Len(p) = 1
    BY <1>1
  <2>3. QED
    BY <2>1, <2>2, Zenon
<1>3. LastOf(Tail(p), p[1].id) = LastOf(p, n)
  BY <1>1, <1>2 DEF LastOf
<1>4. ASSUME NEW i \in 1 .. Len(Tail(p))
      PROVE  /\ i + 1 \in 1 .. Len(p) /\ Tail(p)[i] = p[i + 1]
             /\ Before(Tail(p), p[1].id, i) = Before(p, n, i + 1)
  BY <1>1 DEF Before
<1>5. Carried(Tail(p), l, p[1].id)
  BY <1>4 DEF Carried
<1>6. QED
  BY <1>1, <1>3, <1>5

LEMMA HeardIsPrefix ==
    ASSUME NEW g \in Seq(Events), NEW l \in Seq(Events), NEW n \in Nat, Heard(g, l, n)
    PROVE  g = SubSeq(l, 1, n)
<1>1. \A i \in 1 .. n : l[i] \in Events
  BY ElementOfSeq, LenProperties DEF Heard
<1>2. /\ SubSeq(l, 1, n) \in Seq(Events)
      /\ Len(SubSeq(l, 1, n)) = n
      /\ \A i \in 1 .. n : SubSeq(l, 1, n)[i] = l[i]
  BY <1>1, SubSeqProperties
<1>3. QED
  BY <1>2, SeqEqual DEF Heard

\* One more event is heard.
LEMMA HeardOneMore ==
    ASSUME NEW g \in Seq(Events), NEW l \in Seq(Events), NEW n \in Nat, Heard(g, l, n),
           n + 1 <= Len(l)
    PROVE  Heard(Append(g, l[n + 1]), l, n + 1) /\ l[n + 1] \in Events
<1>1. l[n + 1] \in Events
  BY ElementOfSeq, LenProperties
<1>2. QED
  BY <1>1, AppendProperties, LenProperties DEF Heard

-----------------------------------------------------------------------------
(* The stream.                                                             *)

LEMMA StreamStarts == StreamInit => StreamInv
<1> SUFFICES ASSUME StreamInit PROVE StreamInv
  OBVIOUS
<1>1. << >> \in Seq(Events) /\ << >> \in Seq(Entry) /\ Len(<< >>) = 0
  BY EmptySeq
<1>2. StreamTypeOK
  BY <1>1 DEF StreamInit, StreamTypeOK
<1>3. QED
  BY <1>1, <1>2 DEF StreamInit, StreamInv, Heard

LEMMA PublishKeeps ==
    ASSUME StreamInv, NEW e \in Events, Publish(e)
    PROVE  StreamInv'
<1>1. /\ log' = Append(log, e) /\ stored' = log' /\ driver' \in {"none", "run", "replay"}
      /\ UNCHANGED <<cursor, source, lastId, pipe, got, faults>>
      /\ gen' = IF gen = "wait" THEN "read" ELSE gen
  BY DEF Publish, Drives, StreamInv, StreamTypeOK
<1>2. /\ log \in Seq(Events) /\ pipe \in Seq(Entry) /\ got \in Seq(Events)
      /\ lastId \in Nat /\ cursor \in Nat
  BY DEF StreamInv, StreamTypeOK
<1>3. /\ Len(log') = Len(log) + 1 /\ Len(log) \in Nat
      /\ log' \in Seq(Events)
  BY <1>1, <1>2, AppendProperties, LenProperties
<1>4. StreamTypeOK'
  BY <1>1, <1>3 DEF StreamInv, StreamTypeOK
<1>5. /\ Heard(got, log', lastId)
      /\ Carried(pipe, log, lastId) => Carried(pipe, log', lastId)
  BY <1>1, <1>2, LongerLog DEF StreamInv
<1>6. cursor <= Len(log')
  BY <1>2, <1>3 DEF StreamInv
<1>7. QED
  BY <1>1, <1>4, <1>5, <1>6 DEF StreamInv

\* An open source has sent the browser on from the id it came with.
LEMMA SubscribeKeeps ==
    ASSUME StreamInv, Subscribe
    PROVE  StreamInv'
<1>1. pipe = << >> /\ Len(pipe) = 0
  BY EmptySeq DEF Subscribe, StreamInv
<1>2. Carried(pipe, log, lastId) /\ LastOf(pipe, lastId) = lastId
  BY <1>1 DEF Carried, LastOf
<1>3. QED
  BY <1>2 DEF Subscribe, StreamInv, StreamTypeOK, server, Heard

LEMMA SendingKeeps ==
    ASSUME StreamInv, NEW x \in Entry, source = "open",
           x.id <= Len(log),
           \/ x.event = Heartbeat /\ x.id = cursor
           \/ x.event = log[x.id] /\ x.id = cursor + 1,
           pipe' = Append(pipe, x), cursor' = x.id, gen' \in {"none", "read", "wait"},
           UNCHANGED <<server, source, lastId, got, faults>>
    PROVE  StreamInv'
<1>1. /\ pipe \in Seq(Entry) /\ log \in Seq(Events) /\ lastId \in Nat
      /\ Carried(pipe, log, lastId) /\ cursor = LastOf(pipe, lastId)
  BY DEF StreamInv, StreamTypeOK
<1>2. Carried(pipe', log, lastId) /\ cursor' = LastOf(pipe', lastId)
  BY <1>1, OneMore
<1>3. pipe' \in Seq(Entry) /\ x.id \in Nat
  BY <1>1, AppendProperties DEF Entry
<1>4. StreamTypeOK'
  BY <1>3 DEF StreamInv, StreamTypeOK, server
<1>5. QED
  BY <1>2, <1>4 DEF StreamInv, server

LEMMA YieldKeeps ==
    ASSUME StreamInv, Yield
    PROVE  StreamInv'
<1> DEFINE x == [id |-> cursor + 1, event |-> log[cursor + 1]]
<1>1. /\ source = "open" /\ cursor \in Nat /\ log \in Seq(Events) /\ Len(log) \in Nat
      /\ cursor < Len(log)
  BY LenProperties DEF Yield, Behind, StreamInv, StreamTypeOK
<1>2. x \in Entry /\ x.id = cursor + 1 /\ x.event = log[x.id] /\ x.id <= Len(log)
  BY <1>1, ElementOfSeq DEF Entry
<1>3. /\ pipe' = Append(pipe, x) /\ cursor' = x.id /\ gen' \in {"none", "read", "wait"}
      /\ UNCHANGED <<server, source, lastId, got, faults>>
  BY DEF Yield, StreamInv, StreamTypeOK
<1> HIDE DEF x
<1>4. QED
  BY <1>1, <1>2, <1>3, SendingKeeps

LEMMA BeatKeeps ==
    ASSUME StreamInv, Beat
    PROVE  StreamInv'
<1> DEFINE x == [id |-> cursor, event |-> Heartbeat]
<1>1. source = "open" /\ cursor \in Nat /\ cursor <= Len(log)
  BY DEF Beat, StreamInv, StreamTypeOK
<1>2. x \in Entry /\ x.id = cursor /\ x.event = Heartbeat
  BY <1>1 DEF Entry
<1>3. /\ pipe' = Append(pipe, x) /\ cursor' = x.id /\ gen' \in {"none", "read", "wait"}
      /\ UNCHANGED <<server, source, lastId, got, faults>>
  BY DEF Beat
<1> HIDE DEF x
<1>4. QED
  BY <1>1, <1>2, <1>3, SendingKeeps

LEMMA WaitKeeps ==
    ASSUME StreamInv, Wait
    PROVE  StreamInv'
BY DEF Wait, StreamInv, StreamTypeOK, server

\* What the browser is about to dispatch.
LEMMA Next1 ==
    ASSUME StreamInv, source = "open", pipe # << >>
    PROVE  /\ Head(pipe).id \in Nat
           /\ \/ Head(pipe).event = Heartbeat /\ Head(pipe).id = lastId
              \/ /\ Head(pipe).event # Heartbeat
                 /\ Head(pipe).id = lastId + 1 /\ lastId + 1 <= Len(log)
                 /\ Head(pipe).event = log[lastId + 1]
<1>1. /\ pipe \in Seq(Entry) /\ log \in Seq(Events) /\ lastId \in Nat
      /\ Carried(pipe, log, lastId)
  BY DEF StreamInv, StreamTypeOK
<1>2. Head(pipe) = pipe[1] /\ 1 \in 1 .. Len(pipe)
  BY <1>1, FirstTaken
<1>3. pipe[1].id \in Nat
  BY <1>1, <1>2, Elements
<1>4. /\ pipe[1].id <= Len(log)
      /\ \/ pipe[1].event = Heartbeat /\ pipe[1].id = lastId
         \/ pipe[1].event = log[pipe[1].id] /\ pipe[1].id = lastId + 1
  BY <1>1, <1>2 DEF Carried, Before
<1>5. CASE pipe[1].event = Heartbeat /\ pipe[1].id = lastId
  BY <1>2, <1>3, <1>5
<1>6. CASE pipe[1].event = log[pipe[1].id] /\ pipe[1].id = lastId + 1
  <2>1. log[lastId + 1] \in Events
    BY <1>1, <1>4, <1>6, ElementOfSeq, LenProperties
  <2>2. log[lastId + 1] # Heartbeat
    BY <2>1 DEF Events, Heartbeat
  <2>3. QED
    BY <1>2, <1>3, <1>4, <1>6, <2>2
<1>7. QED
  BY <1>4, <1>5, <1>6

LEMMA DispatchKeeps ==
    ASSUME StreamInv, Dispatch, UNCHANGED <<server, gen, cursor, source, faults>>
    PROVE  StreamInv'
<1>1. /\ pipe \in Seq(Entry) /\ log \in Seq(Events) /\ lastId \in Nat /\ got \in Seq(Events)
      /\ Carried(pipe, log, lastId) /\ Heard(got, log, lastId) /\ source = "open" /\ pipe # << >>
      /\ cursor = LastOf(pipe, lastId)
  BY DEF Dispatch, StreamInv, StreamTypeOK
<1>2. /\ Carried(pipe', log, lastId') /\ LastOf(pipe', lastId') = LastOf(pipe, lastId)
      /\ pipe' \in Seq(Entry)
  BY <1>1, FirstTaken DEF Dispatch
<1>3. lastId' \in Nat
  BY <1>1, Next1 DEF Dispatch
<1>4. Heard(got', log, lastId') /\ got' \in Seq(Events)
  <2>1. CASE Head(pipe).event = Heartbeat
    BY <1>1, <2>1, Next1 DEF Dispatch
  <2>2. CASE Head(pipe).event # Heartbeat
    <3>1. /\ lastId' = lastId + 1 /\ lastId + 1 <= Len(log)
          /\ got' = Append(got, log[lastId + 1])
      BY <1>1, <2>2, Next1 DEF Dispatch
    <3>2. Heard(got', log, lastId + 1) /\ log[lastId + 1] \in Events
      BY <1>1, <3>1, HeardOneMore
    <3>3. QED
      BY <1>1, <3>1, <3>2, AppendProperties
  <2>3. QED
    BY <2>1, <2>2
<1>5. StreamTypeOK'
  BY <1>2, <1>3, <1>4 DEF StreamInv, StreamTypeOK, server
<1>6. QED
  BY <1>1, <1>2, <1>4, <1>5 DEF StreamInv, server

\* A source that is given up, opened, lost or refused leaves nothing under way.
LEMMA ClosingKeeps ==
    ASSUME StreamInv, gen' = "none", cursor' = 0, pipe' = << >>,
           source' \in {"none", "connecting", "dead"},
           \/ lastId' = 0 /\ got' = << >>
           \/ lastId' = lastId /\ got' = got,
           log' = log, stored' = log, driver' \in {"none", "run", "replay"}, faults' \in Nat
    PROVE  StreamInv'
<1>1. << >> \in Seq(Entry) /\ << >> \in Seq(Events) /\ Len(<< >>) = 0
  BY EmptySeq
<1>2. Len(log) \in Nat
  BY LenProperties DEF StreamInv, StreamTypeOK
<1>3. StreamTypeOK'
  <2>1. got \in Seq(Events) /\ lastId \in Nat /\ 0 \in Nat
    BY DEF StreamInv, StreamTypeOK
  <2>2. got' \in Seq(Events) /\ lastId' \in Nat
    BY <1>1, <2>1, Zenon
  <2>3. /\ log' \in Seq(Events) /\ stored' \in Seq(Events) /\ pipe' \in Seq(Entry)
        /\ cursor' \in Nat /\ gen' \in {"none", "read", "wait"}
        /\ source' \in {"none", "connecting", "open", "dead"}
    BY <1>1 DEF StreamInv, StreamTypeOK
  <2>4. QED
    BY <2>2, <2>3, Zenon DEF StreamTypeOK
<1>4. Heard(got', log, lastId')
  BY <1>1, <1>2 DEF StreamInv, Heard
<1>5. QED
  BY <1>2, <1>3, <1>4 DEF StreamInv

LEMMA RestartKeeps ==
    ASSUME StreamInv, Restart
    PROVE  StreamInv'
<1>1. log' = log /\ stored' = log /\ driver' \in {"none", "run", "replay"} /\ faults' \in Nat
  <2>1. log' = log /\ stored' = log /\ driver' = "none"
    BY DEF Restart, StreamInv
  <2>2. faults' \in Nat
    BY DEF Restart, StreamInv, StreamTypeOK
  <2>3. QED
    BY <2>1, <2>2
<1>2. CASE source = "open"
  BY <1>1, <1>2, ClosingKeeps DEF Restart, Disconnect
<1>3. CASE source # "open"
  BY <1>1, <1>3 DEF Restart, StreamInv, StreamTypeOK, conn
<1>4. QED
  BY <1>2, <1>3

LEMMA StreamKeeps ==
    ASSUME StreamInv, StreamStep
    PROVE  StreamInv'
<1>1. ASSUME Server PROVE StreamInv'
  BY <1>1, PublishKeeps, SubscribeKeeps, YieldKeeps, WaitKeeps, BeatKeeps DEF Server
<1>2. ASSUME (LetGo \/ Open) /\ UNCHANGED <<server, faults>> PROVE StreamInv'
  BY <1>2, ClosingKeeps DEF LetGo, Open, server, StreamInv, StreamTypeOK
<1>3. ASSUME Client PROVE StreamInv'
  BY <1>2, <1>3, DispatchKeeps DEF Client, server
<1>4. ASSUME Drop PROVE StreamInv'
  BY <1>4, ClosingKeeps DEF Drop, Disconnect, server, StreamInv, StreamTypeOK
<1>5. ASSUME Refuse PROVE StreamInv'
  BY <1>5, ClosingKeeps DEF Refuse, server, StreamInv, StreamTypeOK
<1>6. ASSUME UNCHANGED streamVars PROVE StreamInv'
  BY <1>6 DEF streamVars, server, conn, StreamInv, StreamTypeOK
<1>7. QED
  BY <1>1, <1>2, <1>3, <1>4, <1>5, <1>6, RestartKeeps DEF StreamStep, StreamNext

-----------------------------------------------------------------------------
(* The page.                                                               *)

\* Whatever the page does, the stream does a step of its own.
LEMMA PageStep == Next => StreamStep
<1> SUFFICES ASSUME Next PROVE StreamStep
  OBVIOUS
<1>1. ASSUME RunEffect PROVE StreamStep
  BY <1>1 DEF RunEffect, Effect, StreamStep, StreamNext, Client, streamVars, server, conn
<1>2. ASSUME Hear PROVE StreamStep
  BY <1>2 DEF Hear, Relay, StreamStep, StreamNext, Client
<1>3. ASSUME HearBeat PROVE StreamStep
  BY <1>3 DEF HearBeat, StreamStep, StreamNext, Client
<1>4. ASSUME Serve \/ Lose PROVE StreamStep
  BY <1>4 DEF Serve, Lose, StreamStep, StreamNext
<1>5. ASSUME Leave PROVE StreamStep
  BY <1>5 DEF Leave, StreamStep
<1>6. ASSUME \/ Enter \/ Refresh \/ ListAnswer \/ ListArrives \/ ListFails
             \/ PatchAnswer \/ PatchFails \/ (\E v \in Versions : PatchArrives(v))
             \/ \E m \in {"live", "manual"} : chooseStreamMode(m)
      PROVE  UNCHANGED streamVars
  BY <1>6 DEF Enter, Refresh, ListAnswer, ListArrives, ListFails, PatchAnswer, PatchFails,
              PatchArrives, chooseStreamMode
<1>7. QED
  BY <1>1, <1>2, <1>3, <1>4, <1>5, <1>6 DEF Next, StreamStep

\* The stream is consistent in every state of the page.
THEOREM StreamIsSound == Spec => []StreamInv
<1>1. Init => StreamInv
  BY StreamStarts DEF Init
<1>2. StreamInv /\ [Next]_vars => StreamInv'
  BY PageStep, StreamKeeps DEF StreamStep, vars, streamVars
<1>3. QED
  BY <1>1, <1>2, PTL DEF Spec

\* What a browser has heard is the log up to the id it will come back with,
\* whatever was lost on the way and however often the list of events was
\* rebuilt (task_service.py:155, main.py:259).
THEOREM HeardUpToIdHolds == Spec => []HeardUpToId
<1>1. StreamInv => HeardUpToId
  <2> SUFFICES ASSUME StreamInv PROVE HeardUpToId
    OBVIOUS
  <2>1. /\ got \in Seq(Events) /\ log \in Seq(Events) /\ lastId \in Nat
        /\ Heard(got, log, lastId)
    BY DEF StreamInv, StreamTypeOK
  <2>2. got = SubSeq(log, 1, lastId)
    BY <2>1, HeardIsPrefix
  <2>3. QED
    BY <2>1, <2>2 DEF HeardUpToId, Heard
<1>2. QED
  BY <1>1, StreamIsSound, PTL

\* Next1 again: what is dispatched is the next event of the stored log.
LEMMA DispatchIsHear ==
    ASSUME StreamInv, Dispatch, UNCHANGED server
    PROVE  [Feed!Next]_<<stored, got>>
<1>1. /\ source = "open" /\ pipe # << >> /\ stored' = stored /\ stored = log
      /\ Heard(got, log, lastId)
  BY DEF Dispatch, StreamInv, server
<1>2. CASE Head(pipe).event = Heartbeat
  BY <1>1, <1>2 DEF Dispatch
<1>3. CASE Head(pipe).event # Heartbeat
  <2>1. Feed!Hear
    BY <1>1, <1>3, Next1 DEF Dispatch, Feed!Hear, Heard, StreamInv, StreamTypeOK
  <2>2. QED
    BY <2>1 DEF Feed!Next
<1>4. QED
  BY <1>2, <1>3

LEMMA StreamImplements ==
    ASSUME StreamInv, StreamStep
    PROVE  [Feed!Next]_<<stored, got>>
<1>1. ASSUME NEW e \in Events, Publish(e)
      PROVE  Feed!Happen
  BY <1>1 DEF Publish, Feed!Happen, StreamInv
<1>2. ASSUME Server
      PROVE  [Feed!Next]_<<stored, got>>
  BY <1>1, <1>2 DEF Server, Subscribe, Yield, Wait, Beat, server, Feed!Next
<1>3. ASSUME (LetGo \/ Open) /\ UNCHANGED <<server, faults>>
      PROVE  [Feed!Next]_<<stored, got>>
  BY <1>3 DEF LetGo, Open, server, Feed!Next, Feed!GiveUp
<1>4. ASSUME Client
      PROVE  [Feed!Next]_<<stored, got>>
  BY <1>3, <1>4, DispatchIsHear DEF Client
<1>5. ASSUME Drop \/ Refuse \/ Restart \/ UNCHANGED streamVars
      PROVE  UNCHANGED <<stored, got>>
  BY <1>5 DEF Drop, Refuse, Restart, Disconnect, streamVars, server, conn
<1>6. QED
  BY <1>2, <1>3, <1>4, <1>5 DEF StreamStep, StreamNext

\* The event stream implements TaskLog: a tab hears the log of a task from
\* its first event on, in order, leaving nothing out and hearing nothing twice
\* (task_service.py:145-161, stream.ts:73-94).
THEOREM InOrderHolds == Spec => InOrder
<1>1. Init => Feed!Init
  BY DEF Init, StreamInit, Feed!Init
<1>2. StreamInv /\ [Next]_vars => [Feed!Next]_<<stored, got>>
  BY PageStep, StreamImplements DEF StreamStep, vars, streamVars
<1>3. QED
  BY <1>1, <1>2, StreamIsSound, PTL DEF Spec, InOrder, Feed!Spec

LEMMA SourceKeeps ==
    ASSUME SourceIsWanted, [Next]_vars
    PROVE  SourceIsWanted'
<1>1. ASSUME RunEffect PROVE SourceIsWanted'
  <2>1. mounted' /\ deps' = Wanted
    BY <1>1 DEF RunEffect, Effect
  <2>2. CASE Wanted.enabled /\ Wanted.task
    BY <2>1, <2>2 DEF SourceIsWanted
  <2>3. CASE ~(Wanted.enabled /\ Wanted.task)
    <3>1. LetGo
      BY <1>1, <2>3, Zenon DEF RunEffect, Effect
    <3>2. QED
      BY <3>1 DEF LetGo, SourceIsWanted
  <2>4. QED
    BY <2>2, <2>3
<1>2. ASSUME Hear \/ HearBeat PROVE SourceIsWanted'
  BY <1>2 DEF Hear, Relay, HearBeat, LetGo, SourceIsWanted
<1>3. ASSUME Serve PROVE SourceIsWanted'
  BY <1>3 DEF Serve, Server, Publish, Subscribe, Yield, Wait, Beat, page, hook, SourceIsWanted
<1>4. ASSUME Lose PROVE SourceIsWanted'
  BY <1>4 DEF Lose, Drop, Refuse, Restart, Disconnect, conn, SourceIsWanted
<1>5. ASSUME Enter \/ Leave PROVE SourceIsWanted'
  BY <1>5 DEF Enter, Leave, LetGo, streamVars, conn, SourceIsWanted
<1>6. ASSUME \/ Refresh \/ ListAnswer \/ ListArrives \/ ListFails
             \/ PatchAnswer \/ PatchFails \/ (\E v \in Versions : PatchArrives(v))
             \/ (\E m \in {"live", "manual"} : chooseStreamMode(m))
             \/ UNCHANGED vars
      PROVE  UNCHANGED <<source, mounted, deps>>
  BY <1>6 DEF Refresh, ListAnswer, ListArrives, ListFails, PatchAnswer, PatchFails,
              PatchArrives, chooseStreamMode, streamVars, conn, vars, page, hook
<1>7. QED
  BY <1>1, <1>2, <1>3, <1>4, <1>5, <1>6 DEF Next, SourceIsWanted

\* A source is only ever held by an open page in live mode whose last render
\* showed the task as unfinished (stream.ts:55-111).
THEOREM SourceIsWantedHolds == Spec => []SourceIsWanted
<1>1. Init => SourceIsWanted
  BY DEF Init, StreamInit, SourceIsWanted
<1>2. QED
  BY <1>1, SourceKeeps, PTL DEF Spec

-----------------------------------------------------------------------------
(* Types.                                                                  *)

Short == Len(log) <= MaxEvents

LEMMA StreamStaysShort ==
    ASSUME StreamInv, Short, StreamStep
    PROVE  Short'
<1>1. /\ log \in Seq(Events) /\ Len(log) \in Nat /\ MaxEvents \in Nat
  BY LenProperties, Bounds DEF StreamInv, StreamTypeOK
<1>2. ASSUME NEW e \in Events, Publish(e) PROVE Short'
  BY <1>1, <1>2, AppendProperties DEF Publish, Short
<1>3. ASSUME \/ Subscribe \/ Yield \/ Wait \/ Beat \/ Client \/ Drop \/ Refuse \/ Restart
             \/ UNCHANGED server \/ UNCHANGED streamVars
      PROVE  log' = log
  BY <1>3 DEF Subscribe, Yield, Wait, Beat, Client, Drop, Refuse, Restart, server, streamVars, StreamInv
<1>4. QED
  BY <1>2, <1>3 DEF StreamStep, StreamNext, Server, Short, LetGo

PageTypeOK ==
    /\ mounted \in BOOLEAN /\ tasks \in Versions /\ mode \in {"live", "manual"}
    /\ deps \in [enabled : BOOLEAN, task : BOOLEAN]
    /\ tag \in {"off", "connecting", "live", "lost"}
    /\ asked \in Nat /\ answers \in [Versions -> Nat]
    /\ list \in Versions \cup {None, Asked} /\ waiting \in BOOLEAN
    /\ cache \in Versions \cup {None}
    /\ missed \in BOOLEAN /\ visits \in Nat

PageInv == StreamInv /\ Short /\ PageTypeOK

LEMMA PageTypes ==
    ASSUME PageInv, [Next]_vars
    PROVE  PageTypeOK'
<1>1. Len(log) \in Versions /\ 0 \in Versions
  BY Bounds, LenProperties DEF PageInv, Short, StreamInv, StreamTypeOK, Versions
<1>2. Wanted \in [enabled : BOOLEAN, task : BOOLEAN] /\ NoDeps \in [enabled : BOOLEAN, task : BOOLEAN]
  BY DEF Wanted, NoDeps, isActiveTask
<1>3. ASSUME Enter PROVE PageTypeOK'
  <2>1. tasks' \in Versions /\ list' \in Versions \cup {None, Asked} /\ waiting' \in BOOLEAN
    <3>1. CASE cache # None /\ tasks' = cache /\ UNCHANGED <<list, waiting>>
      BY <3>1 DEF PageInv, PageTypeOK
    <3>2. CASE /\ list' = IF list = None THEN Asked ELSE list
               /\ waiting' = TRUE
               /\ tasks' = IF cache = None THEN tasks ELSE cache
      BY <3>2 DEF PageInv, PageTypeOK
    <3>3. QED
      BY <1>3, <3>1, <3>2 DEF Enter, Load
  <2>2. /\ mounted' = TRUE /\ missed' = FALSE /\ deps' = NoDeps /\ tag' = "off"
        /\ visits' = visits + 1
        /\ mode' = mode /\ asked' = asked /\ answers' = answers /\ cache' = cache
    BY <1>3 DEF Enter
  <2>3. visits' \in Nat
    BY <2>2 DEF PageInv, PageTypeOK
  <2>4. /\ mode' \in {"live", "manual"} /\ asked' \in Nat /\ answers' \in [Versions -> Nat]
        /\ cache' \in Versions \cup {None}
    BY <2>2, Zenon DEF PageInv, PageTypeOK
  <2>5. /\ mounted' \in BOOLEAN /\ missed' \in BOOLEAN
        /\ deps' \in [enabled : BOOLEAN, task : BOOLEAN]
        /\ tag' \in {"off", "connecting", "live", "lost"}
    BY <1>2, <2>2
  <2>6. QED
    BY <2>1, <2>3, <2>4, <2>5, Zenon DEF PageTypeOK
<1>4. ASSUME Refresh PROVE PageTypeOK'
  BY <1>4 DEF Refresh, Load, PageInv, PageTypeOK, hook
<1>5. ASSUME ListAnswer PROVE PageTypeOK'
  BY <1>1, <1>5 DEF ListAnswer, PageInv, PageTypeOK, hook
<1>6. ASSUME ListArrives PROVE PageTypeOK'
  BY <1>6 DEF ListArrives, SetTasks, PageInv, PageTypeOK, hook
<1>7. ASSUME ListFails PROVE PageTypeOK'
  BY <1>7 DEF ListFails, PageInv, PageTypeOK, hook
<1>8. ASSUME PatchAnswer PROVE PageTypeOK'
  BY <1>1, <1>8 DEF PatchAnswer, PageInv, PageTypeOK, hook
<1>9. ASSUME NEW v \in Versions, PatchArrives(v) PROVE PageTypeOK'
  BY <1>9 DEF PatchArrives, SetTasks, PageInv, PageTypeOK, hook
<1>10. ASSUME PatchFails PROVE PageTypeOK'
  BY <1>10 DEF PatchFails, PageInv, PageTypeOK, hook
<1>11. ASSUME NEW m \in {"live", "manual"}, chooseStreamMode(m) PROVE PageTypeOK'
  BY <1>11 DEF chooseStreamMode, PageInv, PageTypeOK, hook, requests
<1>12. ASSUME RunEffect PROVE PageTypeOK'
  BY <1>2, <1>12 DEF RunEffect, Effect, PageInv, PageTypeOK, requests
<1>13. ASSUME Hear \/ HearBeat PROVE PageTypeOK'
  BY <1>13 DEF Hear, Relay, HearBeat, PageInv, PageTypeOK, requests
<1>14. ASSUME Lose PROVE PageTypeOK'
  BY <1>14 DEF Lose, PageInv, PageTypeOK, requests
<1>15. ASSUME Leave PROVE PageTypeOK'
  BY <1>1, <1>2, <1>15 DEF Leave, PageInv, PageTypeOK
<1>16. ASSUME Serve \/ UNCHANGED vars PROVE PageTypeOK'
  BY <1>16 DEF Serve, vars, page, hook, requests, PageInv, PageTypeOK
<1>17. QED
  BY <1>3, <1>4, <1>5, <1>6, <1>7, <1>8, <1>9, <1>10, <1>11, <1>12, <1>13, <1>14, <1>15, <1>16 DEF Next

LEMMA PageStarts == Init => PageInv
<1> SUFFICES ASSUME Init PROVE PageInv
  OBVIOUS
<1>1. 0 \in Versions /\ MaxEvents \in Nat /\ Len(<< >>) = 0
  BY Bounds, EmptySeq DEF Versions
<1>2. NoDeps \in [enabled : BOOLEAN, task : BOOLEAN]
  BY DEF NoDeps
<1>3. PageTypeOK
  BY <1>1, <1>2 DEF Init, PageTypeOK
<1>4. QED
  BY <1>1, <1>3, StreamStarts DEF Init, StreamInit, PageInv, Short

LEMMA PageKeeps ==
    ASSUME PageInv, [Next]_vars
    PROVE  PageInv'
<1>1. StreamStep
  BY PageStep DEF StreamStep, vars, streamVars
<1>2. QED
  BY <1>1, StreamKeeps, StreamStaysShort, PageTypes DEF PageInv

\* Type correctness, for any bounds: a log of at most MaxEvents events, and a
\* page whose list, cache and answers are of its versions or of none.
THEOREM TypeCorrect == Spec => []TypeOK
<1>1. PageInv => TypeOK
  BY DEF PageInv, PageTypeOK, StreamInv, TypeOK
<1>2. QED
  BY <1>1, PageStarts, PageKeeps, PTL DEF Spec

-----------------------------------------------------------------------------
(* The tag.  The stream and the fetches tell the page of an end, which     *)
(* stays the end unless the task is taken up again: the source is given up *)
(* on hearing of it, so from then on the tag is wrong until the answer     *)
(* that shows the end is applied, and that answer is under way or shown    *)
(* unless a fetch failed or an older answer hid it.                        *)

\* Nothing the page shows, keeps or waits for is newer than the log.
NoneNewer ==
    /\ tasks <= Len(log)
    /\ \A v \in Versions : answers[v] # 0 => v <= Len(log)
    /\ list \in Versions => list <= Len(log)
    /\ cache \in Versions => cache <= Len(log)

DeadIsMissed == source = "dead" => missed

\* A version shows the end, or a fetch that will is under way.
Over(v) == v # 0 /\ log[v] \in TERMINAL

LastWord == asked # 0 \/ \E v \in Versions : answers[v] # 0 /\ Over(v)

ClosedByEnd ==
    source = "none" /\ tag \in {"live", "connecting"} /\ ~missed /\ ~TakenUpAgain =>
        /\ mounted /\ deps.enabled /\ deps.task /\ Ended
        /\ LastWord \/ Over(tasks)

TagInv == PageInv /\ SourceIsWanted /\ NoneNewer /\ DeadIsMissed /\ ClosedByEnd

\* A log only grows, so a task that was taken up again stays one, and any
\* other stays at its end.
LEMMA LogGrows ==
    ASSUME PageInv, StreamStep
    PROVE  /\ Len(log) \in Nat /\ Len(log') \in Nat /\ Len(log) <= Len(log')
           /\ \A i \in 1 .. Len(log) : log'[i] = log[i]
           /\ TakenUpAgain => TakenUpAgain'
           /\ Ended /\ ~TakenUpAgain' => Ended'
<1>1. /\ log \in Seq(Events) /\ Len(log) \in Nat
      /\ log = << >> <=> Len(log) = 0
  BY LenProperties, EmptySeq DEF PageInv, StreamInv, StreamTypeOK
<1>2. ASSUME NEW e \in Events, Publish(e)
      PROVE  /\ Len(log') \in Nat /\ Len(log) <= Len(log')
             /\ \A i \in 1 .. Len(log) : log'[i] = log[i]
             /\ TakenUpAgain => TakenUpAgain'
             /\ Ended /\ ~TakenUpAgain' => Ended'
  <2>1. log' = Append(log, e)
    BY <1>2 DEF Publish
  <2>2. /\ Len(log') = Len(log) + 1 /\ log'[Len(log) + 1] = e /\ log' # << >>
        /\ \A i \in 1 .. Len(log) : log'[i] = log[i]
    BY <1>1, <2>1, AppendProperties
  <2>3. TakenUpAgain => TakenUpAgain'
    BY <1>1, <2>2 DEF TakenUpAgain
  <2>4. ASSUME Ended, ~TakenUpAgain' PROVE Ended'
    <3>1. /\ Len(log) \in 1 .. Len(log') /\ Len(log') \in 1 .. Len(log')
          /\ Len(log) <= Len(log') /\ log'[Len(log)] \in TERMINAL
      BY <1>1, <2>2, <2>4 DEF Ended
    <3>2. log'[Len(log')] \in TERMINAL
      BY <2>4, <3>1 DEF TakenUpAgain
    <3>3. QED
      BY <2>2, <3>2 DEF Ended
  <2>5. QED
    BY <1>1, <2>2, <2>3, <2>4
<1>3. ASSUME \/ Subscribe \/ Yield \/ Wait \/ Beat \/ Client \/ Drop \/ Refuse \/ Restart
             \/ UNCHANGED server \/ UNCHANGED streamVars
      PROVE  log' = log
  BY <1>3 DEF Subscribe, Yield, Wait, Beat, Client, Drop, Refuse, Restart, server, streamVars,
              PageInv, StreamInv
<1>4. (log' = log) => (TakenUpAgain => TakenUpAgain') /\ (Ended => Ended')
  BY DEF TakenUpAgain, Ended
<1>5. QED
  BY <1>1, <1>2, <1>3, <1>4 DEF StreamStep, StreamNext, Server

LEMMA NoneNewerKeeps ==
    ASSUME TagInv, [Next]_vars
    PROVE  NoneNewer'
<1>1. StreamStep
  BY PageStep DEF StreamStep, vars, streamVars
<1>2. Len(log) \in Nat /\ Len(log') \in Nat /\ Len(log) <= Len(log') /\ Len(log) \in Versions
  BY <1>1, LogGrows, Bounds DEF TagInv, PageInv, Short, Versions
<1>3. PageTypeOK /\ NoneNewer
  BY DEF TagInv, PageInv
<1>4. Asked \notin Versions /\ None \notin Versions /\ Versions \subseteq Nat /\ 0 \in Versions
  BY PageBounds, Bounds DEF Versions
<1>5. ASSUME Enter \/ Refresh PROVE NoneNewer'
  <2>1. UNCHANGED <<log, answers, cache>> /\ (Load(TRUE) \/ Load(FALSE))
    BY <1>5 DEF Enter, Refresh, streamVars, server
  <2>2. QED
    BY <1>3, <1>4, <2>1 DEF Load, NoneNewer, PageTypeOK
<1>6. ASSUME ListAnswer PROVE NoneNewer'
  <2>1. UNCHANGED <<log, answers, cache, tasks>> /\ list' = Len(log)
    BY <1>6 DEF ListAnswer, streamVars, server
  <2>2. QED
    BY <1>2, <1>3, <2>1 DEF NoneNewer
<1>7. ASSUME ListArrives PROVE NoneNewer'
  BY <1>3, <1>4, <1>7 DEF ListArrives, SetTasks, streamVars, server, NoneNewer
<1>8. ASSUME ListFails PROVE NoneNewer'
  BY <1>3, <1>4, <1>8 DEF ListFails, streamVars, server, NoneNewer
<1>9. ASSUME PatchAnswer PROVE NoneNewer'
  <2>1. /\ UNCHANGED <<log, list, cache, tasks>>
        /\ answers' = [answers EXCEPT ![Len(log)] = @ + 1]
    BY <1>9 DEF PatchAnswer, streamVars, server
  <2>2. ASSUME NEW v \in Versions, answers'[v] # 0 PROVE v <= Len(log)
    BY <1>2, <1>3, <1>4, <2>1, <2>2 DEF NoneNewer, PageTypeOK
  <2>3. QED
    BY <1>3, <2>1, <2>2 DEF NoneNewer
<1>10. ASSUME NEW v \in Versions, PatchArrives(v) PROVE NoneNewer'
  <2>1. /\ UNCHANGED <<log, list>> /\ v <= Len(log)
        /\ answers' = [answers EXCEPT ![v] = @ - 1]
        /\ \/ tasks' = v /\ cache' = v
           \/ tasks' = tasks /\ cache' = cache
    BY <1>3, <1>10 DEF PatchArrives, SetTasks, streamVars, server, NoneNewer
  <2>2. ASSUME NEW w \in Versions, answers'[w] # 0 PROVE w <= Len(log)
    BY <1>3, <2>1, <2>2 DEF NoneNewer, PageTypeOK
  <2>3. QED
    BY <1>3, <2>1, <2>2 DEF NoneNewer
<1>11. ASSUME Leave PROVE NoneNewer'
  BY <1>2, <1>3, <1>11 DEF Leave, server, NoneNewer
<1>12. ASSUME \/ Serve \/ PatchFails \/ (\E m \in {"live", "manual"} : chooseStreamMode(m))
              \/ RunEffect \/ Hear \/ HearBeat \/ Lose \/ UNCHANGED vars
       PROVE  NoneNewer'
  <2>1. UNCHANGED <<tasks, answers, list, cache>>
    BY <1>12 DEF Serve, PatchFails, chooseStreamMode, RunEffect, Hear, HearBeat, Lose, vars,
                 page, requests
  <2>2. QED
    BY <1>2, <1>3, <1>4, <2>1 DEF NoneNewer, PageTypeOK
<1>13. QED
  BY <1>5, <1>6, <1>7, <1>8, <1>9, <1>10, <1>11, <1>12 DEF Next

LEMMA DeadKeeps ==
    ASSUME TagInv, [Next]_vars
    PROVE  DeadIsMissed'
<1>1. DeadIsMissed /\ SourceIsWanted
  BY DEF TagInv
<1>2. ASSUME Serve PROVE DeadIsMissed'
  BY <1>1, <1>2 DEF Serve, Server, Publish, Subscribe, Yield, Wait, Beat, conn, page, DeadIsMissed
<1>3. ASSUME Enter PROVE DeadIsMissed'
  BY <1>1, <1>3 DEF Enter, streamVars, conn, DeadIsMissed, SourceIsWanted
<1>4. ASSUME Leave PROVE DeadIsMissed'
  BY <1>4 DEF Leave, LetGo, DeadIsMissed
<1>5. ASSUME \/ Refresh \/ ListAnswer \/ ListFails \/ PatchAnswer \/ UNCHANGED vars
             \/ \E m \in {"live", "manual"} : chooseStreamMode(m)
      PROVE  DeadIsMissed'
  BY <1>1, <1>5 DEF Refresh, ListAnswer, ListFails, PatchAnswer, chooseStreamMode, vars, page,
                    streamVars, conn, DeadIsMissed
<1>6. ASSUME ListArrives \/ PatchFails \/ \E v \in Versions : PatchArrives(v)
      PROVE  DeadIsMissed'
  BY <1>1, <1>6 DEF ListArrives, PatchFails, PatchArrives, SetTasks, streamVars, conn, DeadIsMissed
<1>7. ASSUME RunEffect PROVE DeadIsMissed'
  <2>1. CASE Wanted.enabled /\ Wanted.task /\ source = "none"
    BY <1>7, <2>1 DEF RunEffect, Effect, Open, DeadIsMissed
  <2>2. CASE Wanted.enabled /\ Wanted.task /\ source # "none"
    <3>1. source' = source /\ (missed => missed')
      BY <1>7, <2>2 DEF RunEffect, Effect, conn
    <3>2. QED
      BY <1>1, <3>1 DEF DeadIsMissed
  <2>3. CASE ~(Wanted.enabled /\ Wanted.task)
    <3>1. LetGo
      BY <1>7, <2>3, Zenon DEF RunEffect, Effect
    <3>2. QED
      BY <3>1 DEF LetGo, DeadIsMissed
  <2>4. QED
    BY <2>1, <2>2, <2>3
<1>8. ASSUME Hear \/ HearBeat PROVE DeadIsMissed'
  BY <1>8 DEF Hear, Relay, HearBeat, LetGo, DeadIsMissed
<1>9. ASSUME Lose PROVE DeadIsMissed'
  BY <1>9, Zenon DEF Lose, DeadIsMissed
<1>10. QED
  BY <1>2, <1>3, <1>4, <1>5, <1>6, <1>7, <1>8, <1>9 DEF Next

\* What the page shows or has coming keeps showing the end as the log grows.
LEMMA OverStays ==
    ASSUME PageInv, StreamStep, NEW v \in Versions, v <= Len(log), Over(v)
    PROVE  Over(v)'
<1>1. v \in 1 .. Len(log) /\ log'[v] = log[v]
  BY LogGrows DEF Over, Versions
<1>2. QED
  BY <1>1 DEF Over

\* The end that a source brings is the end of the log.
LEMMA HeardEnd ==
    ASSUME PageInv, ~TakenUpAgain, source = "open", pipe # << >>, Head(pipe).event \in TERMINAL
    PROVE  Ended
<1>1. /\ lastId \in Nat /\ lastId + 1 <= Len(log) /\ log[lastId + 1] \in TERMINAL
  BY Next1 DEF PageInv, StreamInv, StreamTypeOK, TERMINAL, Heartbeat
<1>2. /\ Len(log) \in Nat /\ (log = << >> => Len(log) = 0)
  BY LenProperties, EmptySeq DEF PageInv, StreamInv, StreamTypeOK
<1>3. QED
  BY <1>1, <1>2 DEF TakenUpAgain, Ended

\* An answer is applied to the list: it is no older than what is shown, or
\* it counts as missed while nothing listens.
LEMMA ShownOverStays ==
    ASSUME TagInv, NEW v \in Versions, v <= Len(log), SetTasks(v), source = "none", ~missed',
           ~TakenUpAgain,
           Over(tasks), UNCHANGED log
    PROVE  Over(tasks)'
<1>1. tasks \in Versions /\ tasks <= Len(log) /\ tasks # 0 /\ log[tasks] \in TERMINAL /\ Len(log) \in Nat
  BY LenProperties DEF TagInv, PageInv, PageTypeOK, NoneNewer, Over, StreamInv, StreamTypeOK
<1>2. tasks' = v /\ ~(v < tasks)
  BY DEF SetTasks, Listening
<1>3. v # 0 /\ log[v] \in TERMINAL
  BY <1>1, <1>2, LenProperties DEF TagInv, TakenUpAgain, Versions
<1>4. QED
  BY <1>2, <1>3 DEF Over

LEMMA ClosedKeeps ==
    ASSUME TagInv, [Next]_vars
    PROVE  ClosedByEnd'
<1> USE DEF TagInv
<1> SUFFICES ASSUME source' = "none", tag' \in {"live", "connecting"}, ~missed', ~TakenUpAgain'
             PROVE  /\ mounted' /\ deps'.enabled /\ deps'.task /\ Ended'
                    /\ LastWord' \/ Over(tasks)'
  BY DEF ClosedByEnd
<1>1. StreamStep
  BY PageStep DEF StreamStep, vars, streamVars
<1>2. /\ tasks \in Versions /\ tasks <= Len(log) /\ Versions \subseteq Nat
      /\ Len(log) \in Nat /\ Len(log) \in Versions
      /\ asked \in Nat /\ answers \in [Versions -> Nat] /\ missed \in BOOLEAN
  BY <1>1, LogGrows, Bounds DEF PageInv, PageTypeOK, NoneNewer, Versions, Short
<1>3. ~TakenUpAgain /\ (Ended => Ended')
  BY <1>1, LogGrows
<1>4. Over(tasks) /\ tasks' = tasks => Over(tasks)'
  BY <1>1, <1>2, LogGrows DEF Over, Versions
<1>5. \A v \in Versions : answers[v] # 0 => v <= Len(log)
  BY DEF NoneNewer
\* The claim goes on as long as the page and what is under way stay.
<1>6. ASSUME source = "none", tag \in {"live", "connecting"}, ~missed,
             UNCHANGED <<mounted, deps, tasks, asked, answers>>
      PROVE  /\ mounted' /\ deps'.enabled /\ deps'.task /\ Ended'
             /\ LastWord' \/ Over(tasks)'
  <2>1. /\ mounted /\ deps.enabled /\ deps.task /\ Ended
        /\ LastWord \/ Over(tasks)
    BY <1>3, <1>6 DEF ClosedByEnd
  <2>2. LastWord => LastWord'
    <3>1. ASSUME NEW v \in Versions, answers[v] # 0, Over(v) PROVE LastWord'
      BY <1>1, <1>5, <1>6, <3>1, OverStays DEF LastWord
    <3>2. QED
      BY <1>6, <3>1 DEF LastWord
  <2>3. QED
    BY <1>3, <1>4, <1>6, <2>1, <2>2
<1>7. CASE Enter \/ Leave
  BY <1>7 DEF Enter, Leave
<1>8. CASE Serve
  BY <1>6, <1>8 DEF Serve, Server, Publish, Subscribe, Yield, Wait, Beat, conn, server, page, hook,
                    requests
<1>9. CASE \/ Refresh \/ ListAnswer \/ ListFails \/ UNCHANGED vars
           \/ \E m \in {"live", "manual"} : chooseStreamMode(m)
  BY <1>6, <1>9 DEF Refresh, Load, ListAnswer, ListFails, chooseStreamMode, vars, page, hook,
                    requests, streamVars, conn
<1>10. CASE ListArrives
  <2>1. /\ UNCHANGED <<log, source, mounted, deps, tag, asked, answers>>
        /\ list \in Versions /\ list <= Len(log)
        /\ SetTasks(list) \/ UNCHANGED <<tasks, missed>>
    BY <1>10 DEF ListArrives, streamVars, server, conn, hook, NoneNewer
  <2>2. CASE UNCHANGED <<tasks, missed>>
    BY <1>6, <2>1, <2>2
  <2>3. CASE SetTasks(list)
    <3>1. ~missed
      BY <1>2, <2>3 DEF SetTasks
    <3>2. /\ mounted /\ deps.enabled /\ deps.task /\ Ended
          /\ LastWord \/ Over(tasks)
      BY <1>3, <2>1, <3>1 DEF ClosedByEnd
    <3>3. Over(tasks) => Over(tasks)'
      BY <1>3, <2>1, <2>3, ShownOverStays
    <3>4. LastWord => LastWord'
      BY <2>1 DEF LastWord, Over
    <3>5. QED
      BY <1>3, <2>1, <3>2, <3>3, <3>4
  <2>4. QED
    BY <2>1, <2>2, <2>3
<1>11. CASE PatchAnswer
  <2>1. /\ UNCHANGED <<log, source, mounted, deps, tag, tasks, missed>>
        /\ answers' = [answers EXCEPT ![Len(log)] = @ + 1]
    BY <1>11 DEF PatchAnswer, streamVars, server, conn, hook
  <2>2. mounted /\ deps.enabled /\ deps.task /\ Ended
    BY <1>3, <2>1 DEF ClosedByEnd
  <2>3. Over(Len(log))
    BY <2>2, EmptySeq, LenProperties DEF Ended, Over, PageInv, StreamInv, StreamTypeOK
  <2>4. answers'[Len(log)] # 0
    BY <1>2, <2>1
  <2>5. LastWord'
    BY <1>2, <2>1, <2>3, <2>4 DEF LastWord, Over
  <2>6. QED
    BY <1>3, <2>1, <2>2, <2>5
<1>12. ASSUME NEW v \in Versions, PatchArrives(v)
       PROVE  /\ mounted' /\ deps'.enabled /\ deps'.task /\ Ended'
              /\ LastWord' \/ Over(tasks)'
  <2>1. /\ UNCHANGED <<log, source, mounted, deps, tag, asked>>
        /\ answers[v] # 0 /\ v <= Len(log)
        /\ answers' = [answers EXCEPT ![v] = @ - 1]
        /\ IF mounted THEN SetTasks(v) ELSE UNCHANGED <<tasks, missed>>
    BY <1>5, <1>12 DEF PatchArrives, streamVars, server, conn, hook
  <2>2. ~missed
    BY <1>2, <2>1 DEF SetTasks
  <2>3. /\ mounted /\ deps.enabled /\ deps.task /\ Ended
        /\ LastWord \/ Over(tasks)
    BY <1>3, <2>1, <2>2 DEF ClosedByEnd
  <2>4. SetTasks(v) /\ tasks' = v
    BY <2>1, <2>3 DEF SetTasks
  <2>5. CASE Over(tasks)
    BY <1>3, <2>1, <2>3, <2>4, <2>5, ShownOverStays
  <2>6. CASE Over(v)
    BY <1>3, <2>1, <2>3, <2>4, <2>6 DEF Over
  <2>7. CASE LastWord /\ ~Over(v)
    <3>1. ASSUME NEW w \in Versions, answers[w] # 0, Over(w) PROVE LastWord'
      <4>1. w # v /\ answers'[w] = answers[w]
        BY <1>2, <2>1, <2>7, <3>1
      <4>2. QED
        BY <2>1, <3>1, <4>1 DEF LastWord, Over
    <3>2. LastWord'
      BY <2>1, <2>7, <3>1 DEF LastWord
    <3>3. QED
      BY <1>3, <2>1, <2>3, <3>2
  <2>8. QED
    BY <2>3, <2>5, <2>6, <2>7
<1>13. CASE PatchFails
  <2>1. source = "none" /\ missed'
    BY <1>13 DEF PatchFails, streamVars, conn, Listening
  <2>2. QED
    BY <2>1
<1>14. CASE RunEffect
  <2>1. CASE Wanted.enabled /\ Wanted.task /\ source = "none"
    BY <1>14, <2>1 DEF RunEffect, Effect, Open
  <2>2. CASE Wanted.enabled /\ Wanted.task /\ source # "none"
    BY <1>14, <2>2 DEF RunEffect, Effect, conn
  <2>3. CASE ~(Wanted.enabled /\ Wanted.task)
    BY <1>14, <2>3, Zenon DEF RunEffect, Effect
  <2>4. QED
    BY <2>1, <2>2, <2>3
<1>15. CASE Hear
  <2>1. Head(pipe).event \in TERMINAL /\ source = "open" /\ pipe # << >>
    BY <1>15 DEF Hear, Relay
  <2>2. Ended /\ mounted /\ deps.enabled /\ deps.task
    BY <1>3, <2>1, HeardEnd DEF SourceIsWanted
  <2>3. asked' = asked + 1 /\ UNCHANGED <<mounted, deps>>
    BY <1>15 DEF Hear, Relay
  <2>4. QED
    BY <1>2, <1>3, <2>2, <2>3 DEF LastWord
<1>16. CASE HearBeat
  BY <1>16 DEF HearBeat
<1>17. CASE Lose
  <2>1. source = "none" /\ tag' = tag
    BY <1>17 DEF Lose, Drop, Refuse, Restart, Disconnect, conn
  <2>2. ~missed /\ UNCHANGED <<mounted, deps, tasks, asked, answers>>
    BY <1>2, <1>17 DEF Lose, requests
  <2>3. QED
    BY <1>6, <2>1, <2>2
<1>18. QED
  BY <1>7, <1>8, <1>9, <1>10, <1>11, <1>12, <1>13, <1>14, <1>15, <1>16, <1>17 DEF Next

\* Unless a decide call took the task up again after an end, the tag of the
\* toolbar says that the stream is up, or coming, only while a source is, or
\* an effect or a fetch that will correct it is due (stream.ts:55-111,
\* runtime/page.tsx:256, task_service.py:118-122).
THEOREM TagIsTrueHolds == Spec => []TagIsTrue
<1>1. Init => PageInv /\ SourceIsWanted /\ NoneNewer /\ DeadIsMissed /\ ClosedByEnd
  <2> SUFFICES ASSUME Init
               PROVE  PageInv /\ SourceIsWanted /\ NoneNewer /\ DeadIsMissed /\ ClosedByEnd
    OBVIOUS
  <2>1. log = << >> /\ Len(log) = 0 /\ source = "none" /\ tag = "off"
    BY EmptySeq DEF Init, StreamInit
  <2>2. NoneNewer
    BY <2>1, PageBounds DEF Init, NoneNewer, Versions
  <2>3. QED
    BY <2>1, <2>2, PageStarts DEF SourceIsWanted, DeadIsMissed, ClosedByEnd
<1>2. TagInv /\ [Next]_vars => TagInv'
  <2> SUFFICES ASSUME TagInv, [Next]_vars PROVE TagInv'
    OBVIOUS
  <2>1. StreamStep
    BY PageStep DEF StreamStep, vars, streamVars
  <2>2. QED
    BY <2>1, PageKeeps, SourceKeeps, LogGrows, NoneNewerKeeps, DeadKeeps, ClosedKeeps DEF TagInv
<1>3. TagInv => TagIsTrue
  <2> SUFFICES ASSUME TagInv, tag \in {"live", "connecting"}, ~Listening, ~missed, ~TakenUpAgain
               PROVE  deps # Wanted \/ UnderWay
    BY DEF TagIsTrue
  <2>1. source = "none"
    BY DEF TagInv, DeadIsMissed, Listening, PageInv, StreamInv, StreamTypeOK
  <2>2. deps.task /\ (LastWord \/ Over(tasks))
    BY <2>1 DEF TagInv, ClosedByEnd
  <2>3. CASE LastWord
    BY <2>3 DEF LastWord, UnderWay
  <2>4. CASE Over(tasks)
    <3>1. ~isActiveTask(tasks)
      BY <2>4 DEF Over, isActiveTask, Status, TERMINAL
    <3>2. Wanted.task = FALSE
      BY <3>1 DEF Wanted, isActiveTask
    <3>3. QED
      BY <2>2, <3>2
  <2>5. QED
    BY <2>2, <2>3, <2>4
<1>4. Init => TagInv
  BY <1>1 DEF TagInv
<1>5. QED
  BY <1>2, <1>3, <1>4, PTL DEF Spec

=============================================================================
