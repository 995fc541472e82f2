---------------------------- MODULE WsTaskProofs ----------------------------
(***************************************************************************)
(* Theorems about WsTask, for every watchlist, every sequence of edits and *)
(* queues of any length: no event and no tick is left in its queue without *)
(* a handle in the queue set; and when all is quiet, every symbol of the   *)
(* list is streamed, unless something has led the streams astray since the *)
(* client was started.                                                     *)
(***************************************************************************)
EXTENDS WsTask, SequenceTheorems, FiniteSetTheorems, TLAPS

-----------------------------------------------------------------------------
(* Lemmas: how often a handle is in the set.                               *)

Places(s, h) == {i \in DOMAIN s : s[i] = h}
Count(s, h)  == Cardinality(Places(s, h))

LEMMA CountType ==
    ASSUME NEW S, NEW s \in Seq(S), NEW h
    PROVE  /\ Places(s, h) \subseteq 1 .. Len(s)
           /\ IsFiniteSet(Places(s, h))
           /\ Count(s, h) \in Nat
<1>1. Places(s, h) \in SUBSET (1 .. Len(s))
  BY DEF Places
<1>2. IsFiniteSet(1 .. Len(s))
  BY FS_Interval, Len(s) \in Int
<1>3. IsFiniteSet(Places(s, h))
  BY <1>1, <1>2, FS_Subset
<1> QED
  BY <1>1, <1>3, FS_CardinalityType DEF Count

LEMMA CountEmpty == \A h : Count(<<>>, h) = 0
<1>1. \A h : Places(<<>>, h) = {}
  BY DEF Places
<1> QED
  BY <1>1, FS_EmptySet DEF Count

\* What is sent to the set is counted once.
LEMMA CountAppend ==
    ASSUME NEW S, NEW s \in Seq(S), NEW x \in S, NEW h
    PROVE  Count(Append(s, x), h) = Count(s, h) + (IF x = h THEN 1 ELSE 0)
<1> DEFINE n == Len(s) + 1
<1>1. /\ DOMAIN Append(s, x) = DOMAIN s \cup {n}
      /\ n \notin DOMAIN s
      /\ Append(s, x)[n] = x
      /\ \A i \in DOMAIN s : Append(s, x)[i] = s[i]
  OBVIOUS
<1>2. n \notin Places(s, h)
  BY <1>1 DEF Places
<1>3. IsFiniteSet(Places(s, h)) /\ Count(s, h) \in Nat
  BY CountType
<1> HIDE DEF n
<1>4. CASE x = h
  <2>1. Places(Append(s, x), h) = Places(s, h) \cup {n}
    BY <1>1, <1>4, Zenon DEF Places
  <2> QED
    BY <2>1, <1>2, <1>3, <1>4, FS_AddElement DEF Count
<1>5. CASE x # h
  <2>1. Places(Append(s, x), h) = Places(s, h)
    BY <1>1, <1>5 DEF Places
  <2> QED
    BY <2>1, <1>3, <1>5 DEF Count
<1> QED
  BY <1>4, <1>5

\* The first handle is taken out.
LEMMA RemoveFirstFacts ==
    ASSUME NEW S, NEW s \in Seq(S), s # <<>>
    PROVE  /\ RemoveAt(s, 1) \in Seq(S)
           /\ Len(s) >= 1
           /\ Len(RemoveAt(s, 1)) = Len(s) - 1
           /\ \A i \in 1 .. Len(s) - 1 : RemoveAt(s, 1)[i] = s[i + 1]
<1>1. Len(s) \in Nat /\ Len(s) >= 1
  OBVIOUS
<1>2. RemoveAt(s, 1) = SubSeq(s, 1, 0) \o SubSeq(s, 2, Len(s))
  BY <1>1 DEF RemoveAt
<1>3. SubSeq(s, 1, 0) = <<>> /\ SubSeq(s, 2, Len(s)) = Tail(s)
  BY SubSeqEmpty, TailIsSubSeq
<1>4. /\ Tail(s) \in Seq(S)
      /\ Len(Tail(s)) = Len(s) - 1
      /\ \A i \in 1 .. Len(s) - 1 : Tail(s)[i] = s[i + 1]
  BY <1>1
<1>5. RemoveAt(s, 1) = Tail(s)
  BY <1>2, <1>3, <1>4
<1> QED
  BY <1>1, <1>4, <1>5

\* What is taken from the set is counted once less.
LEMMA CountRemove ==
    ASSUME NEW S, NEW s \in Seq(S), s # <<>>, NEW h
    PROVE  Count(RemoveAt(s, 1), h) = Count(s, h) - (IF s[1] = h THEN 1 ELSE 0)
<1> DEFINE r == RemoveAt(s, 1)
           P == Places(r, h)
           Q == Places(s, h) \ {1}
           f == [i \in P |-> i + 1]
<1>1. /\ r \in Seq(S) /\ Len(s) \in Nat /\ Len(s) >= 1 /\ Len(r) = Len(s) - 1
      /\ \A i \in 1 .. Len(s) - 1 : r[i] = s[i + 1]
  BY RemoveFirstFacts
<1> HIDE DEF r
<1>2. /\ IsFiniteSet(P) /\ Cardinality(P) = Count(r, h)
      /\ IsFiniteSet(Places(s, h)) /\ Count(s, h) \in Nat
  BY <1>1, CountType DEF Count
<1>3. P = {i \in 1 .. Len(s) - 1 : s[i + 1] = h}
  BY <1>1 DEF Places
<1>4. Q = {i \in 2 .. Len(s) : s[i] = h}
  BY <1>1 DEF Places
<1> HIDE DEF P, Q
<1>5. f \in Bijection(P, Q)
  <2>1. f \in [P -> Q]
    BY <1>1, <1>3, <1>4
  <2>2. \A i, j \in P : f[i] = f[j] => i = j
    BY <1>3
  <2>3. \A j \in Q : \E i \in P : f[i] = j
    <3> SUFFICES ASSUME NEW j \in Q
                 PROVE  \E i \in P : f[i] = j
      OBVIOUS
    <3>1. j - 1 \in P /\ f[j - 1] = j
      BY <1>1, <1>3, <1>4
    <3> QED
      BY <3>1
  <2> HIDE DEF f
  <2> QED
    BY <2>1, <2>2, <2>3 DEF Bijection, Injection, Surjection, IsInjective
<1>6. Cardinality(Q) = Cardinality(P)
  BY <1>2, <1>5, FS_Bijection DEF ExistsBijection
<1>7. 1 \in Places(s, h) <=> s[1] = h
  BY <1>1 DEF Places
<1>8. Cardinality(Q) = Count(s, h) - (IF s[1] = h THEN 1 ELSE 0)
  <2>1. Cardinality(Q) = IF 1 \in Places(s, h) THEN Cardinality(Places(s, h)) - 1
                         ELSE Cardinality(Places(s, h))
    BY <1>2, FS_RemoveElement, Zenon DEF Q
  <2> QED
    BY <1>2, <1>7, <2>1 DEF Count
<1> QED
  BY <1>2, <1>6, <1>8 DEF r

\* Renaming other handles changes no count of h.
LEMMA CountRenamed ==
    ASSUME NEW s, NEW t, NEW h, DOMAIN t = DOMAIN s,
           \A i \in DOMAIN s : t[i] = h <=> s[i] = h
    PROVE  Count(t, h) = Count(s, h)
<1>1. Places(t, h) = Places(s, h)
  BY DEF Places
<1> QED
  BY <1>1 DEF Count

-----------------------------------------------------------------------------
(* Lemmas: the queues.                                                     *)

IsSeq(s) == \E S : s \in Seq(S)

LEMMA LenIsNat == \A s : IsSeq(s) => Len(s) \in Nat
BY DEF IsSeq

LEMMA EmptyIsSeq == IsSeq(<<>>) /\ Len(<<>>) = 0
<1>1. <<>> \in Seq({})
  OBVIOUS
<1> QED
  BY <1>1 DEF IsSeq

LEMMA AppendIsSeq ==
    ASSUME NEW s, NEW x, IsSeq(s)
    PROVE  IsSeq(Append(s, x)) /\ Len(Append(s, x)) = Len(s) + 1
<1>1. PICK S : s \in Seq(S)
  BY DEF IsSeq
<1>2. s \in Seq(S \cup {x})
  BY <1>1
<1>3. Append(s, x) \in Seq(S \cup {x}) /\ Len(Append(s, x)) = Len(s) + 1
  BY <1>2
<1> QED
  BY <1>3, Zenon DEF IsSeq

LEMMA TailIsSeq ==
    ASSUME NEW s, IsSeq(s), s # <<>>
    PROVE  IsSeq(Tail(s)) /\ Len(Tail(s)) = Len(s) - 1
<1>1. PICK S : s \in Seq(S)
  BY DEF IsSeq
<1>2. Tail(s) \in Seq(S) /\ Len(Tail(s)) = Len(s) - 1
  BY <1>1
<1> QED
  BY <1>2, Zenon DEF IsSeq

-----------------------------------------------------------------------------
(* The inductive invariant.                                                *)

\* The task's local variables.
TaskFields(w) ==
    w = [step |-> w.step, n |-> w.n, k |-> w.k, names |-> w.names, tick |-> w.tick,
         updates |-> w.updates]

\* Each event has its handle.
EventsCounted ==
    /\ set \in Seq(Handles)
    /\ IsSeq(events)
    /\ hasSet => Count(set, "events") = Len(events)

\* While the queue of ticks belongs to the set, each tick has its handle.
TicksCounted ==
    member => /\ hasSet
              /\ IsSeq(queue)
              /\ Count(set, "updates") >= Len(queue)

\* Before the first client, nothing has been announced.
Booting == ws.step = "Boot" => set = <<>> /\ ~hasSet

\* A client is started when there is none; and without one no queue of ticks
\* belongs to the set.
NoClientYet ==
    /\ ws.step \in {"Boot", "Start", "Name", "Create", "Connect"} => ~ws.updates
    /\ ~ws.updates /\ ws.step # "Connect" => ~member

\* A client that is not about to stop has a queue that belongs to the set.
ClientJoined ==
    ws.step = "Connect" \/ (ws.updates /\ ws.step \notin {"StopClient", "DeleteQueue"}) =>
        IsSeq(queue) /\ (hasSet => member)

IInv ==
    /\ TaskFields(ws)
    /\ EventsCounted
    /\ TicksCounted
    /\ Booting
    /\ NoClientYet
    /\ ClientJoined

USE DEF EventsCounted, TicksCounted, Booting, NoClientYet, ClientJoined

-----------------------------------------------------------------------------
(* The invariant holds at first and is kept by every step.                 *)

LEMMA InitIInv == WsInit => IInv
<1> SUFFICES ASSUME WsInit
             PROVE  IInv
  OBVIOUS
<1>1. set \in Seq(Handles)
  BY DEF WsInit
<1>2. TaskFields(ws) /\ ws.step = "Boot" /\ ws.updates = FALSE
  BY DEF WsInit, TaskFields
<1> QED
  BY <1>1, <1>2, EmptyIsSeq DEF WsInit, IInv

\* Where the task goes.
LEMMA GotoFacts ==
    ASSUME NEW x, TaskFields(ws), Goto(x)
    PROVE  TaskFields(ws)' /\ ws'.step = x /\ ws'.updates = ws.updates
<1>1. ws' = [step |-> x, n |-> ws.n, k |-> ws.k, names |-> ws.names, tick |-> ws.tick,
             updates |-> ws.updates]
  BY DEF Goto, TaskFields
<1> QED
  BY <1>1 DEF TaskFields

LEMMA LoopFacts ==
    ASSUME NEW u, Loop(u)
    PROVE  TaskFields(ws)' /\ ws'.step \in {"Select", "Gone"} /\ ws'.updates = u
BY DEF Loop, TaskFields

\* Steps that touch neither the queues nor the set, and leave the task where
\* it is.
LEMMA OthersKeep ==
    ASSUME IInv,
           \/ UiEdit \/ UiMove \/ UiRemove \/ UiAdded \/ UiRegionChanged \/ UiGoesOn \/ RestFills
           \/ LibConnects \/ LibDisconnects \/ UNCHANGED wsVars
    PROVE  IInv'
<1>1. UNCHANGED <<ws, events, set, hasSet, member, queue>>
  BY DEF UiEdit, UiMove, UiRemove, UiAdded, UiRegionChanged, UiGoesOn, RestFills, LibConnects,
         LibDisconnects, wsVars, unchangedTask, unchangedByLibrary, setVars, clientVars
<1> QED
  BY <1>1 DEF IInv, TaskFields

\* A handle is sent to the set.
LEMMA AnnounceFacts ==
    ASSUME set \in Seq(Handles), NEW h \in Handles, NEW b, Announce(h, b)
    PROVE  /\ set' \in Seq(Handles)
           /\ ~b => set' = set
           /\ b => \A g : Count(set', g) = Count(set, g) + (IF h = g THEN 1 ELSE 0)
<1>1. CASE b
  <2>1. set' = Append(set, h)
    BY <1>1 DEF Announce
  <2>2. \A g : Count(set', g) = Count(set, g) + (IF h = g THEN 1 ELSE 0)
    BY <2>1, CountAppend
  <2> QED
    BY <1>1, <2>1, <2>2
<1>2. CASE ~b
  BY <1>2 DEF Announce
<1> QED
  BY <1>1, <1>2

LEMMA PushKeeps ==
    ASSUME IInv, UiPushEvent
    PROVE  IInv'
<1> USE DEF IInv, setVars, clientVars
<1>1. UNCHANGED <<ws, hasSet, member, queue>>
  BY DEF UiPushEvent
<1>2. CASE UNCHANGED <<events, set>>
  BY <1>1, <1>2 DEF TaskFields
<1>3. CASE events' = Append(events, post) /\ Announce("events", hasSet)
  <2>1. IsSeq(events') /\ Len(events') = Len(events) + 1
    BY <1>3, AppendIsSeq
  <2>2. /\ set' \in Seq(Handles)
        /\ ~hasSet => set' = set
        /\ hasSet => Count(set', "events") = Count(set, "events") + 1
        /\ hasSet => Count(set', "updates") = Count(set, "updates") + 0
    <3>1. "events" \in Handles
      BY DEF Handles
    <3> QED
      BY <1>3, <3>1, AnnounceFacts
  <2>3. EventsCounted'
    BY <1>1, <2>1, <2>2
  <2>4. TicksCounted'
    <3>1. Count(set, "updates") \in Nat
      BY CountType
    <3> QED
      BY <1>1, <2>2, <3>1
  <2> QED
    BY <1>1, <2>2, <2>3, <2>4 DEF TaskFields
<1> QED
  BY <1>2, <1>3 DEF UiPushEvent

LEMMA LibTickKeeps ==
    ASSUME IInv, LibTick
    PROVE  IInv'
<1> USE DEF IInv
<1>1. UNCHANGED <<ws, events, hasSet, member>>
  BY DEF LibTick, unchangedByLibrary
<1>2. PICK t : queue' = Append(queue, t)
  BY DEF LibTick
<1>3. IsSeq(queue) => IsSeq(queue') /\ Len(queue') = Len(queue) + 1 /\ Len(queue) \in Nat
  BY <1>2, AppendIsSeq, LenIsNat
<1>4. /\ set' \in Seq(Handles)
      /\ ~member => set' = set
      /\ member => Count(set', "updates") = Count(set, "updates") + 1
      /\ member => Count(set', "events") = Count(set, "events") + 0
  <2>1. "updates" \in Handles /\ Announce("updates", member)
    BY DEF Handles, LibTick
  <2> QED
    BY <2>1, AnnounceFacts
<1>5. Count(set, "updates") \in Nat /\ Count(set, "events") \in Nat
  BY CountType
<1>6. EventsCounted'
  BY <1>1, <1>4, <1>5
<1>7. TicksCounted'
  BY <1>1, <1>3, <1>4, <1>5
<1>8. Booting'
  BY <1>1, <1>4
<1> QED
  BY <1>1, <1>3, <1>6, <1>7, <1>8 DEF TaskFields

\* The task starts a client, or ends up without one.
LEMMA StartsKeep ==
    ASSUME IInv, WsBoot \/ WsStart \/ WsName \/ WsCreate \/ WsConnect
    PROVE  IInv'
<1> USE DEF IInv, setVars, clientVars
<1>1. CASE WsBoot
  <2>1. TaskFields(ws)' /\ ws'.step = "Start" /\ ws'.updates = ws.updates
    BY <1>1, GotoFacts DEF WsBoot
  <2>2. Count(set, "events") = 0
    BY <1>1, CountEmpty DEF WsBoot
  <2> QED
    BY <1>1, <2>1, <2>2, EmptyIsSeq DEF WsBoot
<1>2. CASE WsStart
  <2>1. CASE Loop(FALSE)
    BY <1>2, <2>1, LoopFacts DEF WsStart
  <2>2. CASE ws' = [ws EXCEPT !.step = "Name", !.n = count, !.k = 0, !.names = <<>>]
    <3>1. TaskFields(ws)' /\ ws'.step = "Name" /\ ws'.updates = ws.updates
      BY <2>2 DEF TaskFields
    <3> QED
      BY <1>2, <3>1 DEF WsStart
  <2> QED
    BY <1>2, <2>1, <2>2 DEF WsStart
<1>3. CASE WsName
  <2>1. TaskFields(ws)' /\ ws'.step \in {"Name", "Create"} /\ ws'.updates = ws.updates
    <3>1. CASE Goto("Create")
      BY <3>1, GotoFacts
    <3>2. CASE \E s \in Names : ws' = [ws EXCEPT !.names = Append(@, s), !.k = @ + 1]
      BY <1>3, <3>2 DEF WsName, TaskFields
    <3> QED
      BY <1>3, <3>1, <3>2 DEF WsName
  <2> QED
    BY <1>3, <2>1 DEF WsName
<1>4. CASE WsCreate
  <2>1. CASE Loop(FALSE) /\ UNCHANGED <<member, queue>>
    BY <1>4, <2>1, LoopFacts DEF WsCreate
  <2>2. CASE queue' = <<>> /\ member' = Joins /\ Goto("Connect")
    <3>1. TaskFields(ws)' /\ ws'.step = "Connect" /\ ws'.updates = ws.updates
      BY <2>2, GotoFacts
    <3>2. Count(set, "updates") \in Nat
      BY CountType
    <3> QED
      BY <1>4, <2>2, <3>1, <3>2, EmptyIsSeq DEF WsCreate, Joins
  <2> QED
    BY <1>4, <2>1, <2>2 DEF WsCreate
<1>5. CASE WsConnect
  <2>1. CASE Loop(TRUE) /\ UNCHANGED <<member, queue>>
    BY <1>5, <2>1, LoopFacts DEF WsConnect
  <2>2. CASE Loop(FALSE) /\ member' = FALSE
    BY <1>5, <2>2, LoopFacts DEF WsConnect
  <2> QED
    BY <1>5, <2>1, <2>2 DEF WsConnect
<1> QED
  BY <1>1, <1>2, <1>3, <1>4, <1>5

\* The task takes a handle.
LEMMA TakenFacts ==
    ASSUME set \in Seq(Handles), NEW h, Taken(h)
    PROVE  /\ ws.step = "Select" /\ hasSet
           /\ set' \in Seq(Handles)
           /\ Count(set', h) = Count(set, h) - 1
           /\ \A g : g # h => Count(set', g) = Count(set, g)
<1>1. set # <<>> /\ set[1] = h /\ set' = RemoveAt(set, 1)
  BY DEF Taken, Selected
<1>2. \A g : /\ Count(set', g) = Count(set, g) - (IF set[1] = g THEN 1 ELSE 0)
             /\ Count(set, g) \in Nat
  BY <1>1, CountRemove, CountType
<1>3. set' \in Seq(Handles)
  BY <1>1, RemoveFirstFacts
<1> QED
  BY <1>1, <1>2, <1>3 DEF Taken

\* The task takes a tick and merges it.
LEMMA TicksKeep ==
    ASSUME IInv, WsNothing \/ WsTick \/ WsFind \/ WsApply \/ WsApplyLocked
    PROVE  IInv'
<1> USE DEF IInv, setVars, clientVars
<1>1. CASE WsNothing
  <2>1. UNCHANGED <<ws, events, hasSet, member, queue>>
    BY <1>1 DEF WsNothing
  <2>2. CASE Taken("stale")
    BY <2>1, <2>2, TakenFacts DEF TaskFields
  <2>3. CASE Taken("updates") /\ (~ws.updates \/ queue = <<>>)
    <3>1. /\ ws.step = "Select" /\ hasSet /\ set' \in Seq(Handles)
          /\ Count(set', "events") = Count(set, "events")
      BY <2>3, TakenFacts
    <3>2. Count(set', "updates") \in Nat
      BY <3>1, CountType
    <3>3. TicksCounted'
      BY <2>1, <2>3, <3>1, <3>2, EmptyIsSeq
    <3> QED
      BY <2>1, <3>1, <3>3 DEF TaskFields
  <2> QED
    BY <1>1, <2>2, <2>3 DEF WsNothing
<1>2. CASE WsTick
  <2>1. TaskFields(ws)' /\ ws'.step = "Find" /\ ws'.updates = ws.updates
    <3>1. ws' = [ws EXCEPT !.step = "Find", !.tick = Head(queue), !.n = count, !.k = 0]
      BY <1>2 DEF WsTick
    <3> QED
      BY <3>1 DEF TaskFields
  <2>2. /\ UNCHANGED <<events, hasSet, member>> /\ ws.updates /\ ws.step = "Select"
        /\ queue # <<>> /\ queue' = Tail(queue)
    BY <1>2 DEF WsTick, Taken
  <2>3. IsSeq(queue') /\ Len(queue') = Len(queue) - 1 /\ Len(queue) \in Nat
    <3>1. IsSeq(queue)
      BY <2>2
    <3> QED
      BY <2>2, <3>1, TailIsSeq, LenIsNat
  <2>4. CASE Taken("updates")
    <3>1. /\ set' \in Seq(Handles)
          /\ Count(set', "updates") = Count(set, "updates") - 1
          /\ Count(set', "events") = Count(set, "events")
      BY <2>4, TakenFacts
    <3>2. Count(set, "updates") \in Nat
      BY CountType
    <3> QED
      BY <2>1, <2>2, <2>3, <3>1, <3>2
  <2>5. CASE ~hasSet /\ UNCHANGED set
    BY <2>1, <2>2, <2>3, <2>5
  <2> QED
    BY <1>2, <2>4, <2>5 DEF WsTick
<1>3. CASE WsFind \/ WsApply \/ WsApplyLocked
  <2>1. UNCHANGED <<events, set, hasSet, member, queue>>
    BY <1>3 DEF WsFind, WsApply, WsApplyLocked
  <2>2. ws.step \in {"Find", "Apply", "ApplyLocked"}
    BY <1>3 DEF WsFind, WsApply, WsApplyLocked
  <2>3. /\ TaskFields(ws)' /\ ws'.updates = ws.updates
        /\ ws'.step \in {"Find", "Apply", "ApplyLocked", "Select", "Gone"}
    <3>1. CASE Loop(ws.updates)
      BY <3>1, LoopFacts
    <3>2. CASE Goto("Apply") \/ Goto("ApplyLocked")
      BY <3>2, GotoFacts
    <3>3. CASE WsFind /\ ws' = [ws EXCEPT !.k = @ + 1]
      BY <3>3 DEF TaskFields, WsFind
    <3> QED
      BY <1>3, <3>1, <3>2, <3>3 DEF WsFind, WsApply, WsApplyLocked
  <2> QED
    BY <2>1, <2>2, <2>3
<1> QED
  BY <1>1, <1>2, <1>3

\* The task takes an event.
LEMMA EventsKeep ==
    ASSUME IInv, WsAdded \/ WsRemoved \/ WsRegion
    PROVE  IInv'
<1> USE DEF IInv, setVars, clientVars
<1>1. /\ Taken("events") /\ events # <<>> /\ events' = Tail(events)
      /\ UNCHANGED <<hasSet, member, queue>>
  BY DEF WsAdded, WsRemoved, WsRegion, Receive
<1>2. /\ ws.step = "Select" /\ hasSet /\ set' \in Seq(Handles)
      /\ Count(set', "events") = Count(set, "events") - 1
      /\ Count(set', "updates") = Count(set, "updates")
  BY <1>1, TakenFacts
<1>3. IsSeq(events') /\ Len(events') = Len(events) - 1
  BY <1>1, TailIsSeq
<1>4. EventsCounted' /\ TicksCounted'
  BY <1>1, <1>2, <1>3
<1>5. /\ TaskFields(ws)' /\ ws'.updates = ws.updates
      /\ ws'.step = "Start" => ~ws.updates
      /\ ws'.step \in {"Select", "Start", "Unjoin"}
  <2>1. CASE UNCHANGED ws
    BY <1>2, <2>1 DEF TaskFields
  <2>2. CASE Goto("Start") /\ ~ws.updates
    BY <2>2, GotoFacts
  <2>3. CASE Goto("Unjoin")
    BY <2>3, GotoFacts
  <2> QED
    BY <2>1, <2>2, <2>3 DEF WsAdded, WsRemoved, WsRegion
<1> QED
  BY <1>1, <1>2, <1>4, <1>5

\* The task stops the client.
LEMMA StopsKeep ==
    ASSUME IInv, WsUnjoin \/ WsStopClient \/ WsDeleteQueue
    PROVE  IInv'
<1> USE DEF IInv, setVars, clientVars
<1>1. CASE WsUnjoin
  <2>1. TaskFields(ws)' /\ ws'.step = "StopClient" /\ ws'.updates = ws.updates
    BY <1>1, GotoFacts DEF WsUnjoin
  <2> QED
    BY <1>1, <2>1 DEF WsUnjoin
<1>2. CASE WsStopClient
  <2>1. TaskFields(ws)' /\ ws'.step = "DeleteQueue" /\ ws'.updates = ws.updates
    BY <1>2, GotoFacts DEF WsStopClient
  <2> QED
    BY <1>2, <2>1 DEF WsStopClient
<1>3. CASE WsDeleteQueue
  <2>1. TaskFields(ws)' /\ ws'.step = "Start" /\ ws'.updates = FALSE
    BY <1>3 DEF WsDeleteQueue, TaskFields
  <2>2. set' \in Seq(Handles) /\ Count(set', "events") = Count(set, "events")
    <3>1. CASE UNCHANGED set
      BY <3>1
    <3>2. CASE set' = [i \in DOMAIN set |-> IF set[i] = "updates" THEN "stale" ELSE set[i]]
      <4>1. set' \in Seq(Handles)
        BY <3>2 DEF Handles
      <4>2. DOMAIN set' = DOMAIN set
        BY <3>2
      <4>3. \A i \in DOMAIN set : set'[i] = "events" <=> set[i] = "events"
        BY <3>2
      <4> QED
        BY <4>1, <4>2, <4>3, CountRenamed
    <3> QED
      BY <1>3, <3>1, <3>2 DEF WsDeleteQueue
  <2> QED
    BY <1>3, <2>1, <2>2 DEF WsDeleteQueue
<1> QED
  BY <1>1, <1>2, <1>3

LEMMA NextIInv == IInv /\ [WsNext]_wsVars => IInv'
<1> SUFFICES ASSUME IInv, [WsNext]_wsVars
             PROVE  IInv'
  OBVIOUS
<1> QED
  BY OthersKeep, PushKeeps, LibTickKeeps, StartsKeep, TicksKeep, EventsKeep, StopsKeep
  DEF WsNext, WsStep, UiStep

-----------------------------------------------------------------------------
(* No event and no tick waits without a handle.                            *)

\* The queue set of app_state_ws_task.c loses no wakeup: through every start,
\* failed start and stop of the client, and whatever handles of deleted queues
\* are still in the set, every watchlist event and every tick of the current
\* queue has a handle that wakes the task.
THEOREM NoWakeupEverLost == WsSpec => []NoLostWakeup
<1>1. IInv => NoLostWakeup
  <2>1. \A h : Cardinality(Handle(h)) = Count(set, h)
    BY DEF Handle, Count, Places
  <2> QED
    BY <2>1 DEF IInv, NoLostWakeup
<1> QED
  BY <1>1, InitIInv, NextIInv, PTL DEF WsSpec

HIDE DEF EventsCounted, TicksCounted, Booting, NoClientYet, ClientJoined

-----------------------------------------------------------------------------
(* The streams follow the list: the invariant.                             *)

\* Table, connection and the UI task's local variables are records.
SlotFields(s) ==
    s = [symbol |-> s.symbol, state |-> s.state, strikes |-> s.strikes, filled |-> s.filled,
         block |-> s.block]

Shapes ==
    /\ count \in 0 .. MaxSymbols
    /\ table = [k \in Indices |-> table[k]]
    /\ \A k \in Indices : SlotFields(table[k])
    /\ conn = [run |-> conn.run, up |-> conn.up, host |-> conn.host, url |-> conn.url,
               subs |-> conn.subs]
    /\ ui = [step |-> ui.step, block |-> ui.block, symbol |-> ui.symbol]

\* An edit is begun when the event of the one before has been sent.
PostFree == ui.step \in {"AddLocked", "ResetSymbols", "ForceResync"} => post = Nothing

\* Without a client there is no connection.
ClientOff == ~ws.updates \/ ws.step = "DeleteQueue" => ~conn.run /\ ~conn.up

IsAddition(e, t) == e.kind = "Added" /\ e.symbol = t
IsRemoval(e, t)  == e.kind = "Removed" /\ e.symbol = t

\* The task is still to be told, or to take, that `t` was added.
AdditionWaits(t) ==
    \/ IsAddition(post, t)
    \/ \E q \in 1 .. Len(events) : IsAddition(events[q], t)

\* Each removal of `t` that is still to be taken is followed by an addition.
Settled(t) ==
    /\ ~IsRemoval(post, t)
    /\ \A p \in 1 .. Len(events) : IsRemoval(events[p], t) =>
          \/ IsAddition(post, t)
          \/ \E q \in 1 .. Len(events) : p < q /\ IsAddition(events[q], t)

\* The names copied so far are those of the first entries; the entries there
\* were not when the copying began have their addition still to come.
Naming ==
    ws.step = "Name" =>
        /\ IsSeq(ws.names) /\ Len(ws.names) = ws.k /\ ws.k =< ws.n /\ ws.n \in 0 .. count
        /\ \A j \in 0 .. ws.k - 1 : ws.names[j + 1] = table[j].symbol
        /\ \A i \in Live : i >= ws.n => AdditionWaits(table[i].symbol)

\* A client runs, or is about to, and is not about to be stopped.
Serving ==
    ws.step = "Connect" \/ (ws.updates /\ ws.step \notin {"Unjoin", "StopClient", "DeleteQueue"})

\* What the connection streams, or will once it is up.
Streams == IF conn.up THEN conn.subs ELSE conn.url

\* `t` has a stream, is about to get one, or waits for one.
Followed(t) ==
    /\ ws.step = "Create" => t \in Range(ws.names) \/ AdditionWaits(t)
    /\ Serving => t \in Streams \/ AdditionWaits(t)

FollowInv ==
    /\ Shapes
    /\ PostFree
    /\ ClientOff
    /\ ~astray => /\ ws.step # "Boot" => hasSet
                  /\ Naming
                  /\ \A t \in Tickers : Settled(t) /\ Followed(t)

-----------------------------------------------------------------------------
(* Lemmas: the list of symbols and the events that wait.                   *)

LEMMA SizePositive == MaxSymbols \in Nat \ {0}
BY TableAssumption

LEMMA LiveIndices ==
    ASSUME Shapes
    PROVE  count \in Nat /\ \A i \in Live : i \in Indices /\ i \in Nat /\ i < count
BY SizePositive DEF Shapes, Live, Indices

LEMMA NewSlotShape == \A s, b : SlotFields(NewSlot(s, b)) /\ NewSlot(s, b).symbol = s
BY DEF SlotFields, NewSlot

\* No entry comes or goes.
LEMMA TickersStay ==
    ASSUME count' = count, \A i \in Live : table'[i].symbol = table[i].symbol
    PROVE  Live' = Live /\ Tickers' = Tickers
<1>1. Live' = Live
  BY DEF Live
<1>2. Tickers' = Tickers
  BY <1>1 DEF Tickers
<1> QED
  BY <1>1, <1>2

LEMMA NothingIsNoEvent == \A t : ~IsAddition(Nothing, t) /\ ~IsRemoval(Nothing, t)
BY DEF Nothing, IsAddition, IsRemoval

LEMMA LastOfAppend ==
    ASSUME NEW s, NEW x, IsSeq(s)
    PROVE  /\ Len(s) \in Nat /\ Len(Append(s, x)) = Len(s) + 1
           /\ \A p \in 1 .. Len(s) : Append(s, x)[p] = s[p]
           /\ Append(s, x)[Len(s) + 1] = x
<1>1. PICK S : s \in Seq(S)
  BY DEF IsSeq
<1>2. s \in Seq(S \cup {x})
  BY <1>1
<1> QED
  BY <1>2

LEMMA RestOfTail ==
    ASSUME NEW s, IsSeq(s), s # <<>>
    PROVE  /\ Len(s) \in Nat \ {0} /\ Len(Tail(s)) = Len(s) - 1 /\ Head(s) = s[1]
           /\ \A p \in 1 .. Len(s) - 1 : Tail(s)[p] = s[p + 1]
<1>1. PICK S : s \in Seq(S)
  BY DEF IsSeq
<1> QED
  BY <1>1

\* The event is sent: what waited goes on waiting.
LEMMA PushedWaits ==
    ASSUME IsSeq(events), events' = Append(events, post), post' = Nothing, NEW t
    PROVE  /\ AdditionWaits(t) => AdditionWaits(t)'
           /\ Settled(t) => Settled(t)'
<1> DEFINE n == Len(events)
<1>1. /\ n \in Nat /\ Len(events') = n + 1
      /\ \A p \in 1 .. n : events'[p] = events[p]
      /\ events'[n + 1] = post
  BY LastOfAppend
<1>2. ~IsAddition(post', t) /\ ~IsRemoval(post', t)
  BY NothingIsNoEvent
<1> HIDE DEF n
<1>3. n + 1 \in 1 .. n + 1 /\ \A p \in 1 .. n : p \in 1 .. n + 1 /\ p < n + 1
  BY <1>1
<1>4. ASSUME AdditionWaits(t)
      PROVE  AdditionWaits(t)'
  <2>1. \E q \in 1 .. n + 1 : IsAddition(events'[q], t)
    BY <1>1, <1>3, <1>4 DEF AdditionWaits, n
  <2> QED
    BY <1>1, <2>1 DEF AdditionWaits
<1>5. ASSUME Settled(t)
      PROVE  Settled(t)'
  <2>1. ASSUME NEW p \in 1 .. n + 1, IsRemoval(events'[p], t)
        PROVE  \E q \in 1 .. n + 1 : p < q /\ IsAddition(events'[q], t)
    <3>1. p # n + 1
      BY <1>1, <1>5, <2>1 DEF Settled
    <3>2. p \in 1 .. n
      BY <1>1, <3>1
    <3>3. IsRemoval(events[p], t)
      BY <1>1, <2>1, <3>2
    <3>4. \/ IsAddition(post, t)
          \/ \E q \in 1 .. n : p < q /\ IsAddition(events[q], t)
      BY <1>5, <3>2, <3>3 DEF Settled, n
    <3> QED
      BY <1>1, <1>3, <3>2, <3>4
  <2> QED
    BY <1>1, <1>2, <2>1 DEF Settled
<1> QED
  BY <1>4, <1>5

\* The task takes an event: what waited goes on waiting, unless it was this.
LEMMA TakenWaits ==
    ASSUME IsSeq(events), events # <<>>, events' = Tail(events), post' = post, NEW t
    PROVE  /\ AdditionWaits(t) => IsAddition(Head(events), t) \/ AdditionWaits(t)'
           /\ Settled(t) => Settled(t)'
           /\ Settled(t) /\ IsRemoval(Head(events), t) => AdditionWaits(t)'
<1> DEFINE n == Len(events)
<1>1. /\ n \in Nat \ {0} /\ Len(events') = n - 1 /\ Head(events) = events[1]
      /\ \A p \in 1 .. n - 1 : events'[p] = events[p + 1]
  BY RestOfTail
<1> HIDE DEF n
<1>2. /\ \A q \in 1 .. n : q > 1 => q - 1 \in 1 .. n - 1 /\ events'[q - 1] = events[q]
      /\ \A p \in 1 .. n - 1 : p + 1 \in 1 .. n
      /\ 1 \in 1 .. n
  <2>1. \A q \in 1 .. n : q > 1 => q - 1 \in 1 .. n - 1 /\ (q - 1) + 1 = q
    BY <1>1
  <2>2. \A p \in 1 .. n - 1 : p + 1 \in 1 .. n
    BY <1>1
  <2>3. 1 \in 1 .. n
    BY <1>1
  <2> QED
    BY <1>1, <2>1, <2>2, <2>3
\* An addition further on stays.
<1>3. ASSUME NEW q \in 1 .. n, q > 1, IsAddition(events[q], t)
      PROVE  AdditionWaits(t)'
  <2>1. q - 1 \in 1 .. n - 1 /\ IsAddition(events'[q - 1], t)
    BY <1>2, <1>3
  <2> QED
    BY <1>1, <2>1 DEF AdditionWaits
<1>4. ASSUME AdditionWaits(t), ~IsAddition(Head(events), t)
      PROVE  AdditionWaits(t)'
  <2>1. CASE IsAddition(post, t)
    BY <2>1 DEF AdditionWaits
  <2>2. CASE \E q \in 1 .. n : IsAddition(events[q], t)
    <3>1. PICK q \in 1 .. n : IsAddition(events[q], t)
      BY <2>2
    <3>2. q # 1
      BY <1>1, <1>4, <3>1
    <3>3. q > 1
      BY <1>1, <3>2
    <3> QED
      BY <1>3, <3>1, <3>3
  <2> QED
    BY <1>4, <2>1, <2>2 DEF AdditionWaits, n
<1>5. ASSUME Settled(t), IsRemoval(Head(events), t)
      PROVE  AdditionWaits(t)'
  <2>1. IsAddition(post, t) \/ \E q \in 1 .. n : 1 < q /\ IsAddition(events[q], t)
    BY <1>1, <1>2, <1>5 DEF Settled, n
  <2>2. CASE IsAddition(post, t)
    BY <2>2 DEF AdditionWaits
  <2>3. CASE \E q \in 1 .. n : 1 < q /\ IsAddition(events[q], t)
    <3>1. PICK q \in 1 .. n : 1 < q /\ IsAddition(events[q], t)
      BY <2>3
    <3>2. q > 1
      BY <1>1, <3>1
    <3> QED
      BY <1>3, <3>1, <3>2
  <2> QED
    BY <2>1, <2>2, <2>3
<1>6. ASSUME Settled(t)
      PROVE  Settled(t)'
  <2>1. ASSUME NEW p \in 1 .. n - 1, IsRemoval(events'[p], t), ~IsAddition(post, t)
        PROVE  \E q \in 1 .. n - 1 : p < q /\ IsAddition(events'[q], t)
    <3>1. p + 1 \in 1 .. n /\ IsRemoval(events[p + 1], t)
      BY <1>1, <1>2, <2>1
    <3>2. PICK q \in 1 .. n : p + 1 < q /\ IsAddition(events[q], t)
      BY <1>6, <2>1, <3>1 DEF Settled, n
    <3>3. q > 1 /\ p < q - 1
      BY <1>1, <3>2
    <3>4. q - 1 \in 1 .. n - 1 /\ IsAddition(events'[q - 1], t)
      BY <1>2, <3>2, <3>3
    <3> QED
      BY <3>3, <3>4
  <2> QED
    BY <1>1, <1>6, <2>1 DEF Settled
<1> QED
  BY <1>4, <1>5, <1>6

-----------------------------------------------------------------------------
(* The steps of the UI task.                                               *)

\* The names copied stay those of the first entries.
LEMMA NamingStays ==
    ASSUME Shapes, Naming, ws' = ws, count' = count,
           \A i \in Live : table'[i].symbol = table[i].symbol,
           \A t : AdditionWaits(t) => AdditionWaits(t)'
    PROVE  Naming'
<1> SUFFICES ASSUME ws.step = "Name"
             PROVE  Naming'
  BY DEF Naming
<1>1. /\ IsSeq(ws.names) /\ Len(ws.names) = ws.k /\ ws.k =< ws.n /\ ws.n \in 0 .. count
      /\ \A j \in 0 .. ws.k - 1 : ws.names[j + 1] = table[j].symbol
      /\ \A i \in Live : i >= ws.n => AdditionWaits(table[i].symbol)
  BY DEF Naming
<1>2. ws.k \in Nat /\ count \in Nat
  BY <1>1, LenIsNat, LiveIndices
<1>3. \A j \in 0 .. ws.k - 1 : j \in Live
  BY <1>1, <1>2, LiveIndices DEF Live
<1>4. Live' = Live
  BY TickersStay
<1>5. ASSUME NEW i \in Live', i >= ws.n
      PROVE  AdditionWaits(table[i].symbol)'
  <2>1. PICK t : t = table[i].symbol
    OBVIOUS
  <2>2. AdditionWaits(t)' /\ table'[i].symbol = t
    BY <1>1, <1>4, <1>5, <2>1
  <2> QED
    BY <2>2 DEF AdditionWaits
<1> QED
  BY <1>1, <1>3, <1>5 DEF Naming

\* The list changes while the task and the connection stay as they are.
LEMMA ListChanges ==
    ASSUME FollowInv, UNCHANGED <<ws, events, hasSet, conn>>, astray => astray',
           Shapes', PostFree', ~astray' => Naming',
           ~astray' => \A t \in Tickers' :
               /\ Settled(t)'
               /\ \/ t \in Tickers /\ (AdditionWaits(t) => AdditionWaits(t)')
                  \/ AdditionWaits(t)'
    PROVE  FollowInv'
<1>1. ClientOff'
  BY DEF FollowInv, ClientOff
<1>2. ASSUME ~astray', NEW t \in Tickers'
      PROVE  Followed(t)'
  <2>1. CASE AdditionWaits(t)'
    BY <2>1 DEF Followed
  <2>2. CASE t \in Tickers /\ ~AdditionWaits(t)
    <3>1. Followed(t)
      BY <1>2, <2>2 DEF FollowInv
    <3> QED
      BY <2>2, <3>1 DEF Followed, Serving, Streams
  <2> QED
    BY <1>2, <2>1, <2>2
<1> QED
  BY <1>1, <1>2 DEF FollowInv

\* The same, when no symbol comes or goes and no event is made.
LEMMA ListStays ==
    ASSUME FollowInv, UNCHANGED <<ws, events, post, hasSet, conn, astray>>,
           Shapes', PostFree',
           count' = count, \A i \in Live : table'[i].symbol = table[i].symbol
    PROVE  FollowInv'
<1>1. Tickers' = Tickers
  BY TickersStay
<1>2. \A t : (AdditionWaits(t)' <=> AdditionWaits(t)) /\ (Settled(t)' <=> Settled(t))
  BY DEF AdditionWaits, Settled
<1>3. ~astray => Naming'
  BY <1>2, NamingStays DEF FollowInv
<1>4. ~astray => \A t \in Tickers : Settled(t)
  BY DEF FollowInv
<1> QED
  BY <1>1, <1>2, <1>3, <1>4, ListChanges

\* What the task waits for when the UI task makes an event: it had none.
LEMMA EventMade ==
    ASSUME events' = events, post = Nothing, NEW t
    PROVE  /\ AdditionWaits(t) => AdditionWaits(t)'
           /\ Settled(t) /\ ~IsRemoval(post', t) => Settled(t)'
BY NothingIsNoEvent DEF AdditionWaits, Settled

\* A move permutes the entries of the list.
LEMMA MovesAbout ==
    ASSUME Shapes, NEW i \in Live, NEW j \in Live
    PROVE  /\ \A k \in Live : /\ MovedFrom(i, j, k) \in Live /\ MovedFrom(j, i, k) \in Live
                             /\ MovedFrom(i, j, MovedFrom(j, i, k)) = k
                             /\ MovedFrom(j, i, MovedFrom(i, j, k)) = k
           /\ \A k \in Indices : MovedFrom(i, j, k) \in Indices
<1>1. /\ i \in Nat /\ j \in Nat /\ count \in Nat /\ i < count /\ j < count /\ count =< MaxSymbols
      /\ Live = 0 .. count - 1 /\ MaxSymbols \in Nat /\ Indices = 0 .. MaxSymbols - 1
  BY LiveIndices, SizePositive DEF Shapes, Live, Indices
<1>2. ASSUME NEW k \in Live
      PROVE  MovedFrom(i, j, k) \in Live /\ MovedFrom(j, i, k) \in Live
  BY <1>1 DEF MovedFrom
<1>3. ASSUME NEW k \in Indices
      PROVE  MovedFrom(i, j, k) \in Indices
  BY <1>1 DEF MovedFrom
<1>4. ASSUME NEW k \in Live
      PROVE  MovedFrom(i, j, MovedFrom(j, i, k)) = k
  BY <1>1 DEF MovedFrom
<1>5. ASSUME NEW k \in Live
      PROVE  MovedFrom(j, i, MovedFrom(i, j, k)) = k
  BY <1>1 DEF MovedFrom
<1> QED
  BY <1>2, <1>3, <1>4, <1>5

LEMMA EditFollows ==
    ASSUME FollowInv, UiEdit
    PROVE  FollowInv'
<1>1. UNCHANGED <<ws, events, post, hasSet, conn, astray>> /\ post = Nothing
  BY DEF UiEdit, MayEdit, unchangedTask, setVars, clientVars
<1>2. PostFree'
  BY <1>1 DEF PostFree
<1>3. Shapes
  BY DEF FollowInv
<1>4. CASE UiAddAllocate
  <2>1. count' = count /\ table' = table
    BY <1>4 DEF UiAddAllocate
  <2>2. PICK s \in Symbols, b \in Blocks : ui' = [step |-> "AddLocked", block |-> b, symbol |-> s]
    BY <1>4 DEF UiAddAllocate
  <2>3. Shapes'
    BY <1>1, <1>3, <2>1, <2>2 DEF Shapes
  <2> QED
    BY <1>1, <1>2, <1>4, <2>1, <2>3, ListStays
<1>5. CASE UiSaveRegion
  <2>1. count' = count /\ table' = table
    BY <1>5 DEF UiSaveRegion
  <2>2. PICK x \in {"ResetSymbols", "ForceResync"} :
            ui' = [step |-> x, block |-> NoBlock, symbol |-> Garbage]
    BY <1>5 DEF UiSaveRegion, UiIdle
  <2>3. Shapes'
    BY <1>1, <1>3, <2>1, <2>2 DEF Shapes
  <2> QED
    BY <1>1, <1>2, <2>1, <2>2, <2>3, ListStays
<1> QED
  BY <1>4, <1>5 DEF UiEdit

\* A move changes no more than the order of the entries; while the names are
\* copied that is enough to lead astray.
LEMMA MoveFollows ==
    ASSUME FollowInv, UiMove
    PROVE  FollowInv'
<1>1. /\ UNCHANGED <<ws, events, post, hasSet, conn>> /\ UiMoveLocked
      /\ astray' = (astray \/ ws.step = "Name")
  BY DEF UiMove, unchangedTask, setVars, clientVars
<1>2. Shapes
  BY DEF FollowInv
<1>3. PICK i \in Live, j \in Live :
          i # j /\ table' = [k \in Indices |-> table[MovedFrom(i, j, k)]]
  BY <1>1 DEF UiMoveLocked
<1>4. count' = count /\ ui' = ui
  BY <1>1 DEF UiMoveLocked
<1> DEFINE From(k) == MovedFrom(i, j, k)
<1>5. /\ \A k \in Live : /\ From(k) \in Live /\ MovedFrom(j, i, k) \in Live
                         /\ From(MovedFrom(j, i, k)) = k
      /\ \A k \in Indices : From(k) \in Indices
  BY <1>2, MovesAbout
<1> HIDE DEF From
<1>6. \A k \in Indices : table'[k] = table[From(k)]
  BY <1>3 DEF From
<1>7. Live' = Live /\ \A k \in Live : k \in Indices
  BY <1>2, <1>4, LiveIndices DEF Live
<1>8. Tickers' = Tickers
  <2>1. \A k \in Live : table'[k].symbol \in Tickers
    BY <1>5, <1>6, <1>7 DEF Tickers
  <2>2. ASSUME NEW k \in Live
        PROVE  table[k].symbol \in Tickers'
    <3>1. MovedFrom(j, i, k) \in Live /\ From(MovedFrom(j, i, k)) = k
      BY <1>5
    <3>2. table'[MovedFrom(j, i, k)] = table[k]
      BY <1>6, <1>7, <3>1
    <3> QED
      BY <1>7, <3>1, <3>2 DEF Tickers
  <2> QED
    BY <1>7, <2>1, <2>2 DEF Tickers
<1>9. Shapes'
  <2>1. table' = [k \in Indices |-> table'[k]]
    BY <1>3
  <2>2. \A k \in Indices : SlotFields(table'[k])
    BY <1>2, <1>5, <1>6 DEF Shapes
  <2> QED
    BY <1>1, <1>2, <1>4, <2>1, <2>2 DEF Shapes
<1>10. PostFree'
  BY <1>1, <1>4 DEF FollowInv, PostFree
<1>11. ~astray' => Naming'
  BY <1>1 DEF Naming
<1>12. \A t : (AdditionWaits(t)' <=> AdditionWaits(t)) /\ (Settled(t)' <=> Settled(t))
  BY <1>1 DEF AdditionWaits, Settled
<1>13. ~astray => \A t \in Tickers : Settled(t)
  BY DEF FollowInv
<1> QED
  BY <1>1, <1>8, <1>9, <1>10, <1>11, <1>12, <1>13, ListChanges

\* An entry goes.
LEMMA RemovedFacts ==
    ASSUME Shapes, NEW i \in Live, table' = ShiftedDown(i), count' = count - 1
    PROVE  /\ count' \in 0 .. MaxSymbols
           /\ table' = [k \in Indices |-> table'[k]]
           /\ \A k \in Indices : SlotFields(table'[k])
           /\ Tickers' \subseteq Tickers
<1> DEFINE From(k) == IF i =< k THEN k + 1 ELSE k
<1>1. /\ count \in Nat /\ count \in 0 .. MaxSymbols /\ i \in Nat /\ i < count /\ Live = 0 .. count - 1
      /\ \A k \in Live : k \in Indices
      /\ \A k \in Indices : SlotFields(table[k])
  BY LiveIndices DEF Shapes, Live
<1>2. table' = [k \in Indices |-> IF i =< k /\ k < count - 1 THEN table[k + 1] ELSE table[k]]
  BY DEF ShiftedDown
<1>3. \A k \in Indices : table'[k] = table[k] \/ (k + 1 \in Indices /\ table'[k] = table[k + 1])
  BY <1>1, <1>2, SizePositive DEF Indices
<1>4. /\ Live' = 0 .. count - 2
      /\ \A k \in 0 .. count - 2 : From(k) \in Live /\ table'[k] = table[From(k)]
  <2>1. Live' = 0 .. count - 2
    BY <1>1 DEF Live
  <2>2. \A k \in 0 .. count - 2 : k \in Indices /\ k < count - 1
    BY <1>1, SizePositive DEF Indices
  <2>3. \A k \in 0 .. count - 2 : table'[k] = table[From(k)]
    BY <1>2, <2>2
  <2>4. \A k \in 0 .. count - 2 : From(k) \in Live
    BY <1>1
  <2> QED
    BY <2>1, <2>3, <2>4
<1> HIDE DEF From
<1>5. Tickers' \subseteq Tickers
  BY <1>4 DEF Tickers
<1>6. count' \in 0 .. MaxSymbols
  BY <1>1, SizePositive
<1>7. \A k \in Indices : SlotFields(table'[k])
  BY <1>1, <1>3
<1> QED
  BY <1>2, <1>5, <1>6, <1>7

\* A removal: unless the names are being copied or the symbol is there twice,
\* no stream is lost.
LEMMA RemoveFollows ==
    ASSUME FollowInv, UiRemove
    PROVE  FollowInv'
<1>1. UNCHANGED <<ws, events, hasSet, conn>> /\ post = Nothing
  BY DEF UiRemove, MayEdit, unchangedTask, setVars, clientVars
<1>2. PICK i \in Live :
          /\ table' = ShiftedDown(i)
          /\ post' = [kind |-> "Removed", symbol |-> table[i].symbol]
          /\ astray' = (astray \/ ws.step = "Name" \/ table[i].symbol \in Tickers')
  BY DEF UiRemove
<1>3. count' = count - 1 /\ \E b : ui' = [step |-> "FreeBlock", block |-> b, symbol |-> Garbage]
  BY DEF UiRemove, UiRemoveLocked
<1>4. /\ count' \in 0 .. MaxSymbols
      /\ table' = [k \in Indices |-> table'[k]]
      /\ \A k \in Indices : SlotFields(table'[k])
      /\ Tickers' \subseteq Tickers
  BY <1>2, <1>3, RemovedFacts DEF FollowInv
<1>5. Shapes'
  <2>1. conn = [run |-> conn.run, up |-> conn.up, host |-> conn.host, url |-> conn.url,
                subs |-> conn.subs]
    BY DEF FollowInv, Shapes
  <2>2. ui' = [step |-> ui'.step, block |-> ui'.block, symbol |-> ui'.symbol]
    BY <1>3
  <2> QED
    BY <1>1, <1>4, <2>1, <2>2 DEF Shapes
<1>6. PostFree'
  BY <1>3 DEF PostFree
<1>7. ~astray' => Naming'
  BY <1>1, <1>2 DEF Naming
<1>8. ~astray' => ~astray /\ \A t \in Tickers' : t \in Tickers /\ ~IsRemoval(post', t)
  BY <1>2, <1>4 DEF IsRemoval
<1>9. ~astray => \A t \in Tickers : Settled(t)
  BY DEF FollowInv
<1> QED
  BY <1>1, <1>5, <1>6, <1>7, <1>8, <1>9, EventMade, ListChanges

LEMMA AddedFollows ==
    ASSUME FollowInv, UiAdded
    PROVE  FollowInv'
<1>1. /\ UNCHANGED <<ws, events, hasSet, conn, astray>>
      /\ UiAddLocked /\ ui.step = "AddLocked"
      /\ post' = IF count' = count + 1 THEN [kind |-> "Added", symbol |-> ui.symbol] ELSE post
  BY DEF UiAdded, UiAddLocked, unchangedTask, setVars, clientVars
<1>2. /\ post = Nothing /\ Shapes /\ count \in Nat
      /\ \A k \in Live : k \in Indices /\ k < count
  BY <1>1, LiveIndices DEF FollowInv, PostFree
<1>3. CASE /\ count < MaxSymbols /\ table' = Appended(ui.symbol, ui.block)
           /\ count' = count + 1 /\ ui' = UiIdle
  <2>0. PICK s : s = ui.symbol
    OBVIOUS
  <2> DEFINE new == NewSlot(s, ui.block)
  <2>1. post' = [kind |-> "Added", symbol |-> s]
    BY <1>1, <1>3, <2>0
  <2>2. SlotFields(new) /\ new.symbol = s
    BY NewSlotShape
  <2> HIDE DEF new
  <2>3. /\ count \in Indices /\ count' \in 0 .. MaxSymbols /\ Live' = Live \cup {count}
    BY <1>2, <1>3, SizePositive DEF Indices, Live
  <2>4. /\ table' = [k \in Indices |-> table'[k]] /\ table'[count] = new
        /\ \A k \in Indices \ {count} : table'[k] = table[k]
    <3>1. table' = [table EXCEPT ![count] = new]
      BY <1>3, <2>0 DEF Appended, new
    <3>2. table = [k \in Indices |-> table[k]]
      BY <1>2 DEF Shapes
    <3> QED
      BY <2>3, <3>1, <3>2
  <2>5. \A k \in Live : k \in Indices \ {count}
    BY <1>2
  <2>6. Tickers' = Tickers \cup {s}
    BY <2>2, <2>3, <2>4, <2>5 DEF Tickers
  <2>7. Shapes'
    <3>1. conn = [run |-> conn.run, up |-> conn.up, host |-> conn.host, url |-> conn.url,
                  subs |-> conn.subs]
      BY <1>2 DEF Shapes
    <3>2. ui' = [step |-> ui'.step, block |-> ui'.block, symbol |-> ui'.symbol]
      BY <1>3 DEF UiIdle
    <3>3. \A k \in Indices : SlotFields(table'[k])
      BY <1>2, <2>2, <2>4 DEF Shapes
    <3> QED
      BY <1>1, <2>3, <2>4, <3>1, <3>2, <3>3 DEF Shapes
  <2>9. PostFree'
    BY <1>3 DEF PostFree, UiIdle
  <2>11. IsAddition(post', s) /\ \A t : ~IsRemoval(post', t)
    BY <2>1 DEF IsAddition, IsRemoval
  <2>12. AdditionWaits(s)' /\ Settled(s)'
    <3>1. AdditionWaits(s)'
      BY <2>11 DEF AdditionWaits
    <3>2. Settled(s)'
      BY <2>11 DEF Settled
    <3> QED
      BY <3>1, <3>2
  <2>13. ~astray => \A t \in Tickers : Settled(t)
    BY DEF FollowInv
  <2>14. \A t \in Tickers : (AdditionWaits(t) => AdditionWaits(t)') /\ (Settled(t) => Settled(t)')
    BY <1>1, <1>2, <2>11, EventMade
  <2>15. ~astray => Naming'
    <3> SUFFICES ASSUME Naming, ws.step = "Name", \A t \in Tickers : AdditionWaits(t) => AdditionWaits(t)'
                 PROVE  Naming'
      BY <1>1, <2>14 DEF FollowInv, Naming
    <3>1. /\ IsSeq(ws.names) /\ Len(ws.names) = ws.k /\ ws.k =< ws.n /\ ws.n \in 0 .. count
          /\ \A q \in 0 .. ws.k - 1 : ws.names[q + 1] = table[q].symbol
          /\ \A k \in Live : k >= ws.n => AdditionWaits(table[k].symbol)
      BY DEF Naming
    <3>2. ws.k \in Nat /\ ws.n \in 0 .. count'
      BY <1>2, <1>3, <3>1, LenIsNat
    <3>3. \A q \in 0 .. ws.k - 1 : q \in Live
      BY <1>2, <3>1, <3>2 DEF Live
    <3>4. \A q \in 0 .. ws.k - 1 : ws.names[q + 1] = table'[q].symbol
      BY <2>4, <2>5, <3>1, <3>3
    <3>5. ASSUME NEW k \in Live', k >= ws.n
          PROVE  AdditionWaits(table[k].symbol)'
      <4>1. CASE k = count
        BY <2>2, <2>4, <2>12, <4>1 DEF AdditionWaits
      <4>2. CASE k \in Live
        <5>1. PICK t \in Tickers : t = table[k].symbol
          BY <4>2 DEF Tickers
        <5>2. table'[k].symbol = t
          BY <2>4, <2>5, <4>2, <5>1
        <5>3. AdditionWaits(t)'
          BY <3>1, <3>5, <4>2, <5>1
        <5> QED
          BY <5>2, <5>3 DEF AdditionWaits
      <4> QED
        BY <2>3, <4>1, <4>2
    <3> QED
      BY <1>1, <3>1, <3>2, <3>4, <3>5 DEF Naming
  <2> QED
    BY <1>1, <2>6, <2>7, <2>9, <2>12, <2>13, <2>14, <2>15, ListChanges
<1>4. CASE count >= MaxSymbols /\ ui' = [ui EXCEPT !.step = "FreeBlock"] /\ UNCHANGED <<table, count>>
  <2>1. post' = post
    BY <1>1, <1>2, <1>4
  <2>2. ui'.step = "FreeBlock" /\ Shapes'
    BY <1>1, <1>2, <1>4 DEF Shapes
  <2>3. PostFree'
    BY <2>2 DEF PostFree
  <2> QED
    BY <1>1, <1>4, <2>1, <2>2, <2>3, ListStays
<1> QED
  BY <1>1, <1>3, <1>4 DEF UiAddLocked

\* A change of server goes on, and is told.
LEMMA RegionFollows ==
    ASSUME FollowInv, UiRegionChanged \/ UiGoesOn
    PROVE  FollowInv'
<1>1. UNCHANGED <<ws, events, hasSet, conn, astray>> /\ Shapes /\ count' = count
  BY DEF UiRegionChanged, UiGoesOn, UiForceResync, UiFreeBlock, UiResetSymbols, unchangedTask,
         setVars, clientVars, FollowInv
<1>2. /\ \A k \in Indices : SlotFields(table[k])
      /\ table = [k \in Indices |-> table[k]]
      /\ \A k \in Live : k \in Indices
  BY <1>1, LiveIndices DEF Shapes
<1>3. CASE UiRegionChanged
  <2>1. /\ ui.step = "ForceResync" /\ ui' = UiIdle /\ table' = table
        /\ post' = [kind |-> "Region", symbol |-> Garbage]
    BY <1>3 DEF UiRegionChanged, UiForceResync
  <2>2. post = Nothing
    BY <2>1 DEF FollowInv, PostFree
  <2>3. \A t : ~IsRemoval(post', t)
    BY <2>1 DEF IsRemoval
  <2>4. Shapes' /\ PostFree'
    BY <1>1, <2>1 DEF Shapes, PostFree, UiIdle
  <2>5. Tickers' = Tickers
    BY <1>1, <2>1, TickersStay
  <2>6. \A t : (AdditionWaits(t) => AdditionWaits(t)') /\ (Settled(t) => Settled(t)')
    BY <1>1, <2>2, <2>3, EventMade
  <2>7. ~astray => Naming'
    BY <1>1, <2>1, <2>6, NamingStays DEF FollowInv
  <2>8. ~astray => \A t \in Tickers : Settled(t)
    BY DEF FollowInv
  <2> QED
    BY <1>1, <2>4, <2>5, <2>6, <2>7, <2>8, ListChanges
<1>4. CASE UiFreeBlock /\ UNCHANGED post
  <2>1. ui' = UiIdle /\ table' = table
    BY <1>4 DEF UiFreeBlock
  <2>2. Shapes' /\ PostFree'
    BY <1>1, <2>1 DEF Shapes, PostFree, UiIdle
  <2> QED
    BY <1>1, <1>4, <2>1, <2>2, ListStays
<1>5. CASE UiResetSymbols /\ UNCHANGED post
  <2>1. /\ ui.step = "ResetSymbols" /\ ui' = [ui EXCEPT !.step = "ForceResync"]
        /\ table' = [k \in Indices |->
                        IF k \in Live THEN NewSlot(table[k].symbol, table[k].block) ELSE table[k]]
    BY <1>5 DEF UiResetSymbols
  <2>2. \A k \in Live : table'[k].symbol = table[k].symbol
    BY <1>2, <2>1, NewSlotShape
  <2>3. /\ table' = [k \in Indices |-> table'[k]]
        /\ \A k \in Indices : SlotFields(table'[k])
    BY <1>2, <2>1, NewSlotShape
  <2>4. /\ ui'.step = "ForceResync"
        /\ ui' = [step |-> ui'.step, block |-> ui'.block, symbol |-> ui'.symbol]
    BY <1>1, <2>1 DEF Shapes
  <2>5. post = Nothing
    BY <2>1 DEF FollowInv, PostFree
  <2>6. Shapes' /\ PostFree'
    BY <1>1, <1>5, <2>3, <2>4, <2>5 DEF Shapes, PostFree
  <2> QED
    BY <1>1, <1>5, <2>2, <2>4, <2>6, ListStays
<1> QED
  BY <1>3, <1>4, <1>5 DEF UiGoesOn

-----------------------------------------------------------------------------
(* The steps of the library and of the task.                               *)

ConnFields(c) == c = [run |-> c.run, up |-> c.up, host |-> c.host, url |-> c.url, subs |-> c.subs]

\* The list stays as it is while the task or the library does something.
LEMMA TaskMoves ==
    ASSUME FollowInv, UNCHANGED <<table, count, ui>>, post' = post \/ post' = Nothing,
           ConnFields(conn'), ClientOff',
           ~astray' => /\ ws'.step # "Boot" => hasSet'
                       /\ Naming'
                       /\ \A t \in Tickers : Settled(t)' /\ Followed(t)'
    PROVE  FollowInv'
<1>1. Shapes'
  BY DEF FollowInv, Shapes, Indices, ConnFields
<1>2. Tickers' = Tickers
  BY DEF Tickers, Live
<1>3. PostFree'
  BY DEF FollowInv, PostFree
<1> QED
  BY <1>1, <1>2, <1>3 DEF FollowInv

\* The same, when no event comes or goes.
LEMMA TaskMovesOn ==
    ASSUME FollowInv, UNCHANGED <<table, count, ui, post, events>>,
           ConnFields(conn'), ClientOff',
           ~astray' => /\ ~astray
                       /\ ws'.step # "Boot" => hasSet'
                       /\ Naming'
                       /\ \A t \in Tickers : Followed(t) => Followed(t)'
    PROVE  FollowInv'
<1>1. \A t : Settled(t) => Settled(t)'
  BY DEF Settled
<1>2. ~astray' => \A t \in Tickers : Settled(t)' /\ Followed(t)'
  BY <1>1 DEF FollowInv
<1> QED
  BY <1>2, TaskMoves

LEMMA ConnIs == FollowInv => ConnFields(conn)
BY DEF FollowInv, Shapes, ConnFields

\* The event is sent, or lost.
LEMMA PushFollows ==
    ASSUME IInv, FollowInv, UiPushEvent
    PROVE  FollowInv'
<1>1. /\ UNCHANGED <<table, count, ui, ws, hasSet, conn>> /\ post' = Nothing /\ IsSeq(events)
      /\ astray' \/ (astray' = astray /\ events' = Append(events, post))
  BY DEF UiPushEvent, tableVars, clientVars, IInv, EventsCounted
<1>2. ConnFields(conn') /\ ClientOff'
  BY <1>1, ConnIs DEF FollowInv, ClientOff
<1>3. ASSUME ~astray'
      PROVE  /\ ws'.step # "Boot" => hasSet'
             /\ Naming'
             /\ \A t \in Tickers : Settled(t)' /\ Followed(t)'
  <2>1. ~astray /\ events' = Append(events, post)
    BY <1>1, <1>3
  <2>2. \A t : (AdditionWaits(t) => AdditionWaits(t)') /\ (Settled(t) => Settled(t)')
    BY <1>1, <2>1, PushedWaits
  <2>3. Naming'
    BY <1>1, <2>1, <2>2, NamingStays DEF FollowInv
  <2>4. \A t : Followed(t) /\ (AdditionWaits(t) => AdditionWaits(t)') => Followed(t)'
    BY <1>1 DEF Followed, Serving, Streams
  <2> QED
    BY <1>1, <2>1, <2>2, <2>3, <2>4 DEF FollowInv
<1> QED
  BY <1>1, <1>2, <1>3, TaskMoves

\* The sync task fills an entry, which keeps its symbol.
LEMMA FillFollows ==
    ASSUME FollowInv, RestFills
    PROVE  FollowInv'
<1>1. UNCHANGED <<ws, events, post, hasSet, conn, astray, count, ui>> /\ Shapes
  BY DEF RestFills, unchangedTask, setVars, clientVars, FollowInv
<1>2. PICK i \in Live : table' = [table EXCEPT ![i].filled = TRUE, ![i].state = "Synced"]
  BY DEF RestFills
<1>3. i \in Indices /\ table = [k \in Indices |-> table[k]] /\ SlotFields(table[i])
      /\ \A k \in Live : k \in Indices
  BY <1>1, LiveIndices DEF Shapes
<1>4. /\ table' = [k \in Indices |-> table'[k]]
      /\ \A k \in Indices \ {i} : table'[k] = table[k]
      /\ SlotFields(table'[i]) /\ table'[i].symbol = table[i].symbol
  BY <1>2, <1>3 DEF SlotFields
<1>5. Shapes'
  <2>1. \A k \in Indices : SlotFields(table'[k])
    BY <1>1, <1>4 DEF Shapes
  <2>2. ConnFields(conn) /\ ui = [step |-> ui.step, block |-> ui.block, symbol |-> ui.symbol]
    BY <1>1, ConnIs DEF Shapes
  <2> QED
    BY <1>1, <1>4, <2>1, <2>2 DEF Shapes, ConnFields
<1>6. \A k \in Live : table'[k].symbol = table[k].symbol
  BY <1>3, <1>4
<1>7. PostFree'
  BY <1>1 DEF FollowInv, PostFree
<1> QED
  BY <1>1, <1>5, <1>6, <1>7, ListStays

\* The library and the server.
LEMMA LibraryFollows ==
    ASSUME FollowInv, LibConnects \/ LibDisconnects \/ LibTick
    PROVE  FollowInv'
<1>1. UNCHANGED <<table, count, ui, post, events, ws, hasSet>> /\ ConnFields(conn)
  BY ConnIs DEF LibConnects, LibDisconnects, LibTick, unchangedByLibrary, tableVars
<1>2. ~astray => Naming'
  <2>1. \A t : AdditionWaits(t) => AdditionWaits(t)'
    BY <1>1 DEF AdditionWaits
  <2> QED
    BY <1>1, <2>1, NamingStays DEF FollowInv
<1>3. CASE LibConnects
  <2>1. /\ conn' = [conn EXCEPT !.up = TRUE, !.subs = conn.url] /\ astray' = astray
        /\ conn.run /\ ~conn.up
    BY <1>3 DEF LibConnects
  <2>2. ConnFields(conn') /\ conn'.up /\ conn'.run = conn.run /\ conn'.subs = conn.url
    BY <1>1, <2>1 DEF ConnFields
  <2>3. ClientOff'
    BY <1>1, <2>1, <2>2 DEF FollowInv, ClientOff
  <2>4. \A t : Followed(t) => Followed(t)'
    <3>1. Streams' = Streams
      BY <2>1, <2>2 DEF Streams
    <3> QED
      BY <1>1, <3>1 DEF Followed, Serving, AdditionWaits
  <2> QED
    BY <1>1, <1>2, <2>1, <2>2, <2>3, <2>4, TaskMovesOn DEF FollowInv
<1>4. CASE LibDisconnects
  <2>1. conn' = [conn EXCEPT !.up = FALSE, !.subs = {}] /\ astray'
    BY <1>4 DEF LibDisconnects
  <2>2. ConnFields(conn') /\ ~conn'.up /\ conn'.run = conn.run
    BY <1>1, <2>1 DEF ConnFields
  <2>3. ClientOff'
    BY <1>1, <2>2 DEF FollowInv, ClientOff
  <2> QED
    BY <1>1, <2>1, <2>2, <2>3, TaskMovesOn
<1>5. CASE LibTick
  <2>1. conn' = conn /\ astray' = astray
    BY <1>5 DEF LibTick
  <2>2. ClientOff'
    BY <1>1, <2>1 DEF FollowInv, ClientOff
  <2>3. \A t : Followed(t) => Followed(t)'
    BY <1>1, <2>1 DEF Followed, Serving, Streams, AdditionWaits
  <2> QED
    BY <1>1, <1>2, <2>1, <2>2, <2>3, TaskMovesOn DEF FollowInv
<1> QED
  BY <1>3, <1>4, <1>5

\* The task starts a client.
LEMMA StartFollows ==
    ASSUME IInv, FollowInv, WsBoot \/ WsStart
    PROVE  FollowInv'
<1>1. /\ UNCHANGED <<table, count, ui, post, events, conn>> /\ ConnFields(conn) /\ TaskFields(ws)
      /\ ~ws.updates /\ ws.step # "Connect"
  BY ConnIs DEF WsBoot, WsStart, unchangedByTask, tableVars, clientVars, IInv,
                NoClientYet
<1>2. ASSUME ~ws'.updates, ws'.step \in {"Start", "Name", "Select", "Gone"}
      PROVE  ClientOff' /\ \A t : Followed(t)'
  <2>1. ClientOff'
    BY <1>1 DEF FollowInv, ClientOff
  <2>2. \A t : Followed(t)'
    BY <1>2 DEF Followed, Serving
  <2> QED
    BY <2>1, <2>2
<1>3. CASE WsBoot
  <2>1. ws'.step = "Start" /\ ~ws'.updates
    BY <1>1, <1>3, GotoFacts DEF WsBoot
  <2>2. ~astray' => ~astray /\ hasSet'
    BY <1>3 DEF WsBoot
  <2>3. Naming'
    BY <2>1 DEF Naming
  <2> QED
    BY <1>1, <1>2, <2>1, <2>2, <2>3, TaskMovesOn
<1>4. CASE WsStart
  <2>1. hasSet' = hasSet /\ (~astray' => ~astray \/ (hasSet /\ events = <<>> /\ post = Nothing))
    BY <1>4 DEF WsStart, setVars
  <2>2. ASSUME ~astray'
        PROVE  hasSet' /\ \A t \in Tickers : Settled(t)'
    <3>1. CASE ~astray
      <4>1. \A t : Settled(t) => Settled(t)'
        BY <1>1 DEF Settled
      <4> QED
        BY <1>4, <2>1, <3>1, <4>1 DEF FollowInv, WsStart
    <3>2. CASE hasSet /\ events = <<>> /\ post = Nothing
      BY <1>1, <2>1, <3>2, EmptyIsSeq, NothingIsNoEvent DEF Settled
    <3> QED
      BY <2>1, <2>2, <3>1, <3>2
  <2>3. CASE Loop(FALSE)
    <3>1. ws'.step \in {"Select", "Gone"} /\ ~ws'.updates
      BY <2>3, LoopFacts
    <3>2. Naming'
      BY <3>1 DEF Naming
    <3> QED
      BY <1>1, <1>2, <2>2, <3>1, <3>2, TaskMoves
  <2>4. CASE ws' = [ws EXCEPT !.step = "Name", !.n = count, !.k = 0, !.names = <<>>]
    <3>1. /\ ws'.step = "Name" /\ ~ws'.updates /\ ws'.n = count /\ ws'.k = 0
          /\ ws'.names = <<>>
      BY <1>1, <2>4 DEF TaskFields
    <3>2. count \in Nat /\ \A i \in Live : i \in Nat /\ i < count
      BY LiveIndices DEF FollowInv
    <3>3. Live' = Live
      BY <1>1 DEF Live
    <3>4. \A i \in Live' : ~(i >= ws'.n)
      BY <3>1, <3>2, <3>3
    <3>5. Naming'
      BY <1>1, <3>1, <3>2, <3>4, EmptyIsSeq DEF Naming
    <3> QED
      BY <1>1, <1>2, <2>2, <3>1, <3>5, TaskMoves
  <2> QED
    BY <1>4, <2>3, <2>4 DEF WsStart
<1> QED
  BY <1>3, <1>4

\* One more name is copied.
LEMMA NameAdded ==
    ASSUME Shapes, TaskFields(ws), Naming, ws.step = "Name", ws.k < ws.n,
           UNCHANGED <<table, count, events, post>>,
           ws' = [ws EXCEPT !.names = Append(@, table[ws.k].symbol), !.k = @ + 1]
    PROVE  Naming' /\ ws'.step = "Name" /\ ws'.updates = ws.updates
<1>1. /\ IsSeq(ws.names) /\ Len(ws.names) = ws.k /\ ws.k =< ws.n /\ ws.n \in 0 .. count
      /\ \A j \in 0 .. ws.k - 1 : ws.names[j + 1] = table[j].symbol
      /\ \A i \in Live : i >= ws.n => AdditionWaits(table[i].symbol)
  BY DEF Naming
<1>2. ws.k \in Nat /\ count \in Nat /\ ws.n \in Nat
  BY <1>1, LenIsNat, LiveIndices
<1> DEFINE s == table[ws.k].symbol
           names == Append(ws.names, s)
<1>3. /\ ws'.step = "Name" /\ ws'.n = ws.n /\ ws'.k = ws.k + 1 /\ ws'.names = names
      /\ ws'.updates = ws.updates
  BY DEF TaskFields
<1> HIDE DEF s
<1>4. /\ IsSeq(names) /\ Len(names) = ws.k + 1
      /\ \A p \in 1 .. ws.k : names[p] = ws.names[p]
      /\ names[ws.k + 1] = s
  BY <1>1, LastOfAppend, AppendIsSeq
<1> HIDE DEF names
<1>5. ASSUME NEW j \in 0 .. ws.k
      PROVE  names[j + 1] = table[j].symbol
  <2>1. CASE j = ws.k
    BY <1>4, <2>1 DEF s
  <2>2. CASE j # ws.k
    <3>1. j \in 0 .. ws.k - 1 /\ j + 1 \in 1 .. ws.k
      BY <1>2, <2>2
    <3> QED
      BY <1>1, <1>4, <3>1
  <2> QED
    BY <2>1, <2>2
<1>6. ws.k + 1 =< ws.n /\ 0 .. (ws.k + 1) - 1 = 0 .. ws.k
  BY <1>1, <1>2
<1>7. IsSeq(ws'.names) /\ Len(ws'.names) = ws'.k /\ ws'.k =< ws'.n /\ ws'.n \in 0 .. count'
  BY <1>1, <1>3, <1>4, <1>6
<1>8. \A j \in 0 .. ws'.k - 1 : ws'.names[j + 1] = table'[j].symbol
  BY <1>3, <1>5, <1>6
<1>9. \A i \in Live' : i >= ws'.n => AdditionWaits(table[i].symbol)'
  BY <1>1, <1>3 DEF Live, AdditionWaits
<1> QED
  BY <1>3, <1>7, <1>8, <1>9 DEF Naming

\* When they are all copied, none is missing but those that came meanwhile.
LEMMA AllNamed ==
    ASSUME Shapes, Naming, ws.step = "Name", ws.k = ws.n, NEW t \in Tickers
    PROVE  t \in Range(ws.names) \/ AdditionWaits(t)
<1>1. /\ IsSeq(ws.names) /\ Len(ws.names) = ws.n /\ ws.n \in 0 .. count
      /\ \A j \in 0 .. ws.n - 1 : ws.names[j + 1] = table[j].symbol
      /\ \A i \in Live : i >= ws.n => AdditionWaits(table[i].symbol)
  BY DEF Naming
<1>2. PICK S : ws.names \in Seq(S)
  BY <1>1 DEF IsSeq
<1>3. PICK i \in Live : t = table[i].symbol
  BY DEF Tickers
<1>4. i \in Nat /\ ws.n \in Nat
  BY <1>1, LiveIndices
<1>5. CASE i < ws.n
  <2>1. i \in 0 .. ws.n - 1 /\ i + 1 \in 1 .. ws.n
    BY <1>4, <1>5
  <2>2. i + 1 \in DOMAIN ws.names
    BY <1>1, <1>2, <2>1
  <2>3. ws.names[i + 1] = t
    BY <1>1, <1>3, <2>1
  <2> QED
    BY <2>2, <2>3 DEF Range
<1>6. CASE i >= ws.n
  BY <1>1, <1>3, <1>6
<1> QED
  BY <1>4, <1>5, <1>6

LEMMA NameFollows ==
    ASSUME IInv, FollowInv, WsName
    PROVE  FollowInv'
<1>1. /\ UNCHANGED <<table, count, ui, post, events, conn, astray, hasSet>>
      /\ ConnFields(conn) /\ TaskFields(ws) /\ ws.step = "Name" /\ ~ws.updates
  BY ConnIs DEF WsName, unchangedByTask, tableVars, clientVars, setVars, IInv, NoClientYet
<1>2. /\ ~astray => Naming /\ hasSet
      /\ Shapes
  BY <1>1 DEF FollowInv
<1>3. ASSUME ~ws'.updates
      PROVE  ClientOff'
  BY <1>1 DEF FollowInv, ClientOff
<1>4. CASE Goto("Create") /\ ws.k = ws.n
  <2>1. ws'.step = "Create" /\ ~ws'.updates /\ ws'.names = ws.names
    <3>1. ws'.step = "Create" /\ ~ws'.updates
      BY <1>1, <1>4, GotoFacts
    <3>2. ws'.names = ws.names
      BY <1>1, <1>4 DEF Goto, TaskFields
    <3> QED
      BY <3>1, <3>2
  <2>2. ~astray => \A t \in Tickers : t \in Range(ws.names) \/ AdditionWaits(t)
    BY <1>1, <1>2, <1>4, AllNamed
  <2>3. ~astray => \A t \in Tickers : Followed(t)'
    BY <1>1, <2>1, <2>2 DEF Followed, Serving, AdditionWaits
  <2>4. Naming'
    BY <2>1 DEF Naming
  <2> QED
    BY <1>1, <1>2, <1>3, <2>1, <2>3, <2>4, TaskMovesOn
<1>5. CASE ws.k < ws.n /\ \E s \in Names :
              /\ ws.k < count => s = table[ws.k].symbol
              /\ ws' = [ws EXCEPT !.names = Append(@, s), !.k = @ + 1]
  <2>1. ws'.step = "Name" /\ ~ws'.updates
    BY <1>1, <1>5 DEF TaskFields
  <2>2. \A t : Followed(t)'
    BY <2>1 DEF Followed, Serving
  <2>3. ~astray => Naming'
    <3> SUFFICES ASSUME ~astray
                 PROVE  Naming'
      OBVIOUS
    <3>1. ws.k < count
      <4>1. IsSeq(ws.names) /\ ws.k = Len(ws.names) /\ ws.n \in 0 .. count /\ count \in Nat
        BY <1>1, <1>2, LiveIndices DEF Naming
      <4> QED
        BY <1>5, <4>1, LenIsNat
    <3> QED
      BY <1>1, <1>2, <1>5, <3>1, NameAdded
  <2> QED
    BY <1>1, <1>2, <1>3, <2>1, <2>2, <2>3, TaskMovesOn
<1> QED
  BY <1>4, <1>5 DEF WsName

LEMMA UrlFacts ==
    ASSUME NEW c, ConnFields(c), NEW u, NEW d, d = [c EXCEPT !.url = u]
    PROVE  ConnFields(d) /\ d.run = c.run /\ d.up = c.up /\ d.url = u
BY DEF ConnFields

LEMMA ConnectFollows ==
    ASSUME IInv, FollowInv, WsCreate \/ WsConnect
    PROVE  FollowInv'
<1>1. /\ UNCHANGED <<table, count, ui, post, events, hasSet>>
      /\ ConnFields(conn) /\ TaskFields(ws) /\ ~ws.updates /\ ws.step \in {"Create", "Connect"}
  BY ConnIs DEF WsCreate, WsConnect, unchangedByTask, tableVars, IInv, NoClientYet
<1>2. /\ ~astray => hasSet
      /\ ~conn.run /\ ~conn.up
  BY <1>1 DEF FollowInv, ClientOff
<1>3. ConnFields(NoClient) /\ ~NoClient.run /\ ~NoClient.up
  BY DEF ConnFields, NoClient
<1>4. CASE astray' /\ Loop(FALSE) /\ conn' \in {conn, NoClient}
  <2>1. ConnFields(conn') /\ ClientOff'
    BY <1>1, <1>2, <1>3, <1>4 DEF ClientOff
  <2> QED
    BY <1>1, <1>4, <2>1, TaskMovesOn
<1>5. CASE /\ WsCreate /\ conn' = [NoClient EXCEPT !.url = Range(ws.names)] /\ Goto("Connect")
           /\ astray' = astray
  <2>1. ws.step = "Create" /\ ws'.step = "Connect"
    BY <1>1, <1>5, GotoFacts DEF WsCreate
  <2>2. ConnFields(conn') /\ ~conn'.run /\ ~conn'.up /\ conn'.url = Range(ws.names)
    BY <1>3, <1>5, UrlFacts
  <2>3. ClientOff' /\ Naming'
    BY <2>1, <2>2 DEF ClientOff, Naming
  <2>4. \A t : Followed(t) => Followed(t)'
    <3>1. Streams' = Range(ws.names)
      BY <2>2 DEF Streams
    <3> QED
      BY <1>1, <2>1, <3>1 DEF Followed, AdditionWaits
  <2> QED
    BY <1>1, <1>2, <1>5, <2>2, <2>3, <2>4, TaskMovesOn
<1>6. CASE WsConnect /\ conn' = [conn EXCEPT !.run = TRUE] /\ Loop(TRUE) /\ astray' = astray
  <2>1. /\ ws.step = "Connect" /\ ws'.step \in {"Select", "Gone"} /\ ws'.updates = TRUE
    BY <1>6, LoopFacts DEF WsConnect
  <2>2. ConnFields(conn') /\ conn'.up = conn.up /\ conn'.url = conn.url /\ conn'.subs = conn.subs
    BY <1>1, <1>6 DEF ConnFields
  <2>3. ClientOff' /\ Naming'
    BY <2>1 DEF ClientOff, Naming
  <2>4. \A t : Followed(t) => Followed(t)'
    <3>1. Streams' = Streams
      BY <2>2 DEF Streams
    <3> QED
      BY <1>1, <2>1, <3>1 DEF Followed, Serving, AdditionWaits
  <2> QED
    BY <1>1, <1>2, <1>6, <2>2, <2>3, <2>4, TaskMovesOn
<1> QED
  BY <1>4, <1>5, <1>6 DEF WsCreate, WsConnect, clientVars

\* The task takes a tick, and merges it.
LEMMA TickFollows ==
    ASSUME IInv, FollowInv, WsNothing \/ WsTick \/ WsFind \/ WsApply \/ WsApplyLocked
    PROVE  FollowInv'
<1>1. /\ UNCHANGED <<table, count, ui, post, events, conn, astray, hasSet>>
      /\ ConnFields(conn) /\ TaskFields(ws) /\ ws.step \in {"Select", "Find", "Apply", "ApplyLocked"}
  BY ConnIs DEF WsNothing, WsTick, WsFind, WsApply, WsApplyLocked, Taken, unchangedByTask,
                tableVars, clientVars, setVars, IInv
<1>2. /\ ws'.updates = ws.updates
      /\ ws'.step \in {"Select", "Find", "Apply", "ApplyLocked", "Gone"}
  <2>1. CASE UNCHANGED ws
    BY <1>1, <2>1
  <2>2. CASE Loop(ws.updates)
    BY <2>2, LoopFacts
  <2>3. CASE Goto("Apply") \/ Goto("ApplyLocked")
    BY <1>1, <2>3, GotoFacts
  <2>4. CASE WsFind /\ ws' = [ws EXCEPT !.k = @ + 1]
    BY <2>4 DEF WsFind, TaskFields, IInv
  <2>5. CASE ws' = [ws EXCEPT !.step = "Find", !.tick = Head(queue), !.n = count, !.k = 0]
    BY <1>1, <2>5 DEF TaskFields
  <2> QED
    BY <2>1, <2>2, <2>3, <2>4, <2>5 DEF WsNothing, WsTick, WsFind, WsApply, WsApplyLocked
<1>3. ClientOff' /\ Naming'
  BY <1>1, <1>2 DEF FollowInv, ClientOff, Naming
<1>4. \A t : Followed(t) => Followed(t)'
  BY <1>1, <1>2 DEF Followed, Serving, Streams, AdditionWaits
<1>5. ~astray => hasSet
  BY <1>1 DEF FollowInv
<1> QED
  BY <1>1, <1>3, <1>4, <1>5, TaskMovesOn

\* The task takes an event, and acts on it.
LEMMA EventFollows ==
    ASSUME IInv, FollowInv, WsAdded \/ WsRemoved \/ WsRegion
    PROVE  FollowInv'
<1> DEFINE e == Head(events)
<1>1. /\ UNCHANGED <<table, count, ui, post, hasSet>> /\ events # <<>> /\ events' = Tail(events)
      /\ IsSeq(events) /\ ConnFields(conn) /\ TaskFields(ws) /\ ws.step = "Select"
  BY ConnIs DEF WsAdded, WsRemoved, WsRegion, Receive, Taken, unchangedByTask, tableVars, IInv,
                EventsCounted
<1>2. ASSUME NEW t
      PROVE  /\ AdditionWaits(t) => IsAddition(e, t) \/ AdditionWaits(t)'
             /\ Settled(t) => Settled(t)'
             /\ Settled(t) /\ IsRemoval(e, t) => AdditionWaits(t)'
  BY <1>1, TakenWaits
<1>3. ~astray => hasSet /\ \A t \in Tickers : Settled(t) /\ Followed(t)
  BY <1>1 DEF FollowInv
\* What is left to show, when nothing has failed.
<1>4. ASSUME ConnFields(conn'), ClientOff',
             ~astray' => ~astray /\ ws'.step # "Name" /\ \A t \in Tickers : Followed(t)'
      PROVE  FollowInv'
  <2>1. ~astray' => Naming'
    BY <1>4 DEF Naming
  <2> QED
    BY <1>1, <1>2, <1>3, <1>4, <2>1, TaskMoves
<1> HIDE DEF e
<1>5. CASE /\ Goto("Start") \/ Goto("Unjoin") \/ (~ws.updates /\ UNCHANGED ws)
           /\ Goto("Start") => ~ws.updates
           /\ UNCHANGED <<conn, astray>>
  <2>1. /\ ws'.updates = ws.updates /\ ws'.step \in {"Start", "Unjoin", "Select"}
        /\ ws'.step # "Unjoin" => ~ws.updates
    BY <1>1, <1>5, GotoFacts
  <2>2. ClientOff' /\ \A t : Followed(t)'
    <3>1. ClientOff'
      BY <1>1, <1>5, <2>1 DEF FollowInv, ClientOff
    <3>2. \A t : Followed(t)'
      BY <2>1 DEF Followed, Serving
    <3> QED
      BY <3>1, <3>2
  <2> QED
    BY <1>1, <1>4, <1>5, <2>1, <2>2
<1>6. ASSUME NEW subs, Send(subs), ws.updates, UNCHANGED ws,
             ~astray => \A t \in Tickers : t \in conn.subs \/ AdditionWaits(t) =>
                                               t \in subs \/ AdditionWaits(t)'
      PROVE  FollowInv'
  <2>1. ClientOff'
    BY <1>1, <1>6 DEF ClientOff
  <2>2. CASE conn.up /\ conn' = [conn EXCEPT !.subs = subs] /\ UNCHANGED astray
    <3>1. ConnFields(conn') /\ conn'.up /\ conn'.subs = subs
      BY <1>1, <2>2 DEF ConnFields
    <3>2. ASSUME ~astray, NEW t \in Tickers
          PROVE  Followed(t)'
      <4>1. Serving /\ Streams = conn.subs /\ Streams' = subs
        BY <1>1, <1>6, <2>2, <3>1 DEF Serving, Streams
      <4>2. t \in conn.subs \/ AdditionWaits(t)
        BY <1>3, <3>2, <4>1 DEF Followed
      <4>3. t \in subs \/ AdditionWaits(t)'
        BY <1>6, <3>2, <4>2
      <4> QED
        BY <1>1, <1>6, <4>1, <4>3 DEF Followed
    <3> QED
      BY <1>1, <1>4, <1>6, <2>1, <2>2, <3>1, <3>2
  <2>3. CASE astray' /\ UNCHANGED conn
    BY <1>1, <1>4, <2>1, <2>3
  <2> QED
    BY <1>6, <2>2, <2>3 DEF Send
<1>7. CASE WsAdded /\ ws.updates
  <2>1. /\ Send(conn.subs \cup {e.symbol}) /\ UNCHANGED ws
    BY <1>7 DEF WsAdded, e
  <2>2. \A t : IsAddition(e, t) => t \in conn.subs \cup {e.symbol}
    BY DEF IsAddition
  <2> QED
    BY <1>2, <1>6, <1>7, <2>1, <2>2
<1>8. CASE WsRemoved /\ ws.updates
  <2>1. /\ Send(conn.subs \ {e.symbol}) /\ UNCHANGED ws /\ e.kind = "Removed"
    BY <1>8 DEF WsRemoved, Receive, e
  <2>2. \A t : ~IsAddition(e, t) /\ (t = e.symbol => IsRemoval(e, t))
    BY <2>1 DEF IsAddition, IsRemoval
  <2>3. ASSUME ~astray, NEW t \in Tickers, t \in conn.subs \/ AdditionWaits(t)
        PROVE  t \in conn.subs \ {e.symbol} \/ AdditionWaits(t)'
    BY <1>2, <1>3, <2>2, <2>3
  <2> QED
    BY <1>6, <1>8, <2>1, <2>3
<1>9. Goto("Start") => ws'.step = "Start"
  BY <1>1, GotoFacts
<1>10. Goto("Unjoin") => ws'.step = "Unjoin"
  BY <1>1, GotoFacts
<1> QED
  BY <1>1, <1>5, <1>7, <1>8, <1>9, <1>10 DEF WsAdded, WsRemoved, WsRegion, clientVars

\* The task stops the client.
LEMMA StopFollows ==
    ASSUME IInv, FollowInv, WsUnjoin \/ WsStopClient \/ WsDeleteQueue
    PROVE  FollowInv'
<1>1. /\ UNCHANGED <<table, count, ui, post, events, astray, hasSet>>
      /\ ConnFields(conn) /\ TaskFields(ws) /\ ws.step \in {"Unjoin", "StopClient", "DeleteQueue"}
  BY ConnIs DEF WsUnjoin, WsStopClient, WsDeleteQueue, unchangedByTask, tableVars, clientVars,
                setVars, IInv
<1>2. ASSUME \/ ws'.step \in {"StopClient", "DeleteQueue"}
             \/ ws'.step = "Start" /\ ~ws'.updates
      PROVE  Naming' /\ \A t : Followed(t)'
  BY <1>2 DEF Naming, Followed, Serving
<1>3. ~astray => hasSet
  BY <1>1 DEF FollowInv
<1>4. CASE WsUnjoin
  <2>1. ws'.step = "StopClient" /\ ws'.updates = ws.updates /\ conn' = conn
    BY <1>1, <1>4, GotoFacts DEF WsUnjoin, clientVars
  <2>2. ClientOff'
    BY <2>1 DEF FollowInv, ClientOff
  <2> QED
    BY <1>1, <1>2, <1>3, <2>1, <2>2, TaskMovesOn
<1>5. CASE WsStopClient
  <2>1. /\ ws'.step = "DeleteQueue"
        /\ conn' = [conn EXCEPT !.run = FALSE, !.up = FALSE, !.subs = {}]
    BY <1>1, <1>5, GotoFacts DEF WsStopClient
  <2>2. ConnFields(conn') /\ ~conn'.run /\ ~conn'.up
    BY <1>1, <2>1 DEF ConnFields
  <2>3. ClientOff'
    BY <2>2 DEF ClientOff
  <2> QED
    BY <1>1, <1>2, <1>3, <2>1, <2>2, <2>3, TaskMovesOn
<1>6. CASE WsDeleteQueue
  <2>1. ws'.step = "Start" /\ ~ws'.updates /\ conn' = conn /\ ws.step = "DeleteQueue"
    BY <1>1, <1>6 DEF WsDeleteQueue, TaskFields
  <2>2. ClientOff'
    BY <2>1 DEF FollowInv, ClientOff
  <2> QED
    BY <1>1, <1>2, <1>3, <2>1, <2>2, TaskMovesOn
<1> QED
  BY <1>4, <1>5, <1>6

-----------------------------------------------------------------------------
(* The invariant holds at first and is kept by every step.                 *)

LEMMA InitFollows ==
    ASSUME WsInit
    PROVE  FollowInv
<1>1. PICK list \in InitialLists, n \in 0 .. MaxSymbols, blocks \in [Indices -> Blocks] :
          /\ DOMAIN list = 0 .. n - 1
          /\ count = n
          /\ table = [i \in Indices |-> IF i < n THEN NewSlot(list[i], blocks[i]) ELSE EmptySlot]
          /\ ui = UiIdle
  BY DEF WsInit, TableInit
<1>2. /\ conn = [run |-> FALSE, up |-> FALSE, host |-> region, url |-> {}, subs |-> {}]
      /\ ws.step = "Boot" /\ ws.updates = FALSE /\ events = <<>> /\ post = Nothing
  BY DEF WsInit, NoClient
<1>3. Shapes
  <2>1. table = [k \in Indices |-> table[k]]
    BY <1>1
  <2>2. SlotFields(EmptySlot) /\ \A s, b : SlotFields(NewSlot(s, b))
    BY DEF SlotFields, NewSlot, EmptySlot
  <2>3. \A k \in Indices : SlotFields(table[k])
    BY <1>1, <2>2
  <2>4. ui = [step |-> ui.step, block |-> ui.block, symbol |-> ui.symbol]
    BY <1>1 DEF UiIdle
  <2> QED
    BY <1>1, <1>2, <2>1, <2>3, <2>4 DEF Shapes
<1>4. PostFree /\ ClientOff /\ Naming
  BY <1>1, <1>2 DEF PostFree, ClientOff, Naming, UiIdle
<1>5. \A t : Settled(t) /\ Followed(t)
  <2>1. \A t : Followed(t)
    BY <1>2 DEF Followed, Serving
  <2>2. \A t : Settled(t)
    BY <1>2, EmptyIsSeq, NothingIsNoEvent DEF Settled
  <2> QED
    BY <2>1, <2>2
<1> QED
  BY <1>2, <1>3, <1>4, <1>5 DEF FollowInv

LEMMA NextFollows ==
    ASSUME IInv, FollowInv, [WsNext]_wsVars
    PROVE  FollowInv'
<1>1. CASE UNCHANGED wsVars
  <2>1. UNCHANGED <<table, count, ui, post, events, ws, conn, astray, hasSet>>
    BY <1>1 DEF wsVars, tableVars, setVars, clientVars
  <2>2. ConnFields(conn') /\ ClientOff'
    BY <2>1, ConnIs DEF FollowInv, ClientOff
  <2>3. (Naming => Naming') /\ \A t : Followed(t) => Followed(t)'
    BY <2>1 DEF Naming, Followed, Serving, Streams, AdditionWaits, Live
  <2> QED
    BY <2>1, <2>2, <2>3, TaskMovesOn DEF FollowInv
<1>2. CASE UiStep \/ UiEdit \/ UiMove \/ UiRemove
  BY <1>2, EditFollows, MoveFollows, RemoveFollows, AddedFollows, RegionFollows, PushFollows DEF UiStep
<1>3. CASE RestFills \/ LibConnects \/ LibDisconnects \/ LibTick
  BY <1>3, FillFollows, LibraryFollows
<1>4. CASE WsStep
  BY <1>4, StartFollows, NameFollows, ConnectFollows, TickFollows, EventFollows, StopFollows
  DEF WsStep
<1> QED
  BY <1>1, <1>2, <1>3, <1>4 DEF WsNext

\* Nothing waits when all is quiet.
LEMMA QuietIsStreamed == IInv /\ FollowInv => SymbolsStreamed
<1> SUFFICES ASSUME IInv, FollowInv, Quiet, ~astray, NEW t \in Tickers
             PROVE  t \in conn.subs
  BY DEF SymbolsStreamed
<1>1. ws.step = "Select" /\ conn.up /\ post = Nothing
  BY DEF Quiet
<1>2. Followed(t) /\ hasSet
  BY <1>1 DEF FollowInv
<1>3. Len(events) = 0
  <2>1. set = <<>> /\ Count(set, "events") = Len(events)
    BY <1>2 DEF Quiet, IInv, EventsCounted
  <2> QED
    BY <2>1, CountEmpty
<1>4. ~AdditionWaits(t)
  BY <1>1, <1>3, NothingIsNoEvent DEF AdditionWaits
<1>5. Serving /\ Streams = conn.subs
  BY <1>1 DEF Serving, Streams, FollowInv, ClientOff
<1> QED
  BY <1>2, <1>4, <1>5 DEF Followed

\* The streams follow the list: whatever additions, removals, moves and changes
\* of server app_state_ws_task.c is told of, and at whatever step of a stop or a
\* start of the client, when the queues are empty and the connection is up every
\* symbol of the list is streamed, unless since the client was started an event
\* was dropped, a frame or a start failed, the connection broke, an entry moved
\* while start_ws_client() copied the names, or a symbol's twin was removed.
THEOREM SymbolsAlwaysStreamed == WsSpec => []SymbolsStreamed
<1>1. WsInit => IInv /\ FollowInv
  BY InitIInv, InitFollows
<1>2. (IInv /\ FollowInv) /\ [WsNext]_wsVars => (IInv /\ FollowInv)'
  BY NextIInv, NextFollows
<1> QED
  BY <1>1, <1>2, QuietIsStreamed, PTL DEF WsSpec

=============================================================================
