-------------------------- MODULE WifiManagerProofs -------------------------
(***************************************************************************)
(* Theorems about WifiManager, for every set of networks, every length of  *)
(* the queue and every limit of the policy.                                *)
(*                                                                         *)
(* 1. What one input of the policy does (Fed, Feeds, FailsFed): which      *)
(*    actions it emits and how the policy after it is related to the one   *)
(*    before.  One lemma per input, named ...Facts.                        *)
(* 2. What an edit of the database does to the policy's copy (Mirrors).    *)
(* 3. The inductive invariant IInv: types, CMD_STARTED is the first        *)
(*    command, and the policy, what is left to execute and the database    *)
(*    fit together (Coherent).  One lemma per handler (...Answers) and per *)
(*    entry of todo (...Keeps).                                            *)
(* 4. Without FORGET the autoconnect cycle stays on course (Steady).       *)
(* 5. When besides no callback finds the queue full, CONNECTING is never   *)
(*    the end (MovesOn).                                                   *)
(* 6. A policy at rest stays there until it is asked.                      *)
(* 7. Every success is of an association that exists or whose end is told  *)
(*    (SuccessIsTrue): what a taken, an asked and an added entry do to     *)
(*    that (...Tells), and that no other input than a success leads into   *)
(*    CONNECTED (Calmed).                                                  *)
(***************************************************************************)
EXTENDS WifiManager, SequenceTheorems, TLAPS

-----------------------------------------------------------------------------
(* What the policy keeps, whatever it is told.                             *)

Distinct(recs) ==
    \A i, j \in 1 .. Len(recs) : recs[i].ssid = recs[j].ssid => i = j

PolicyOK(p) ==
    /\ p \in Policy
    /\ Len(p.profiles) =< MaxProfiles
    /\ Distinct(p.profiles)
    /\ p.cursor < Len(p.profiles) \/ (p.cursor = 0 /\ p.profiles = <<>>)
    /\ p.state \in {"Idle", "Ready"} => p.origin = "None"

\* The actions the policy emits.
Emitted == [act : {"Connect"}, ssid : SsidOrEmpty, origin : Origins]
           \cup [act : {"Disconnect", "StartRetryTimer", "Fault"}]
           \cup [act : {"EmitEvent"}, event : Events, ssid : SsidOrEmpty]
           \cup [act : {"MarkLastSuccess"}, ssid : Ssids]
           \cup [act : {"SetBlocked"}, ssid : Ssids, flag : BOOLEAN]

\* The profile named s is not blocked, if there is one.
OpenFor(p, s) ==
    \A i \in 1 .. Len(p.profiles) : p.profiles[i].ssid = s => ~p.profiles[i].blocked

\* The network tried by itself, or connected to, is not blocked.
Opened(p) == p.origin = "Autoconnect" \/ p.state = "Connected" => OpenFor(p, p.current)

\* Of the actions at hand the first may ask to change a flag of the database.
Edits(acts) == acts # <<>> /\ acts[1].act = "SetBlocked"

\* The profiles are the records, in their order, with the change at hand made.
Mirrors(profiles, recs, acts) ==
    /\ Len(profiles) = Len(recs)
    /\ \A i \in 1 .. Len(recs) :
          /\ profiles[i].ssid = recs[i].ssid
          /\ profiles[i].blocked = IF Edits(acts) /\ recs[i].ssid = acts[1].ssid
                                   THEN acts[1].flag ELSE recs[i].blocked

Has(acts, kind) == \E i \in 1 .. Len(acts) : acts[i].act = kind

\* What the task executes after a request is harmless to it.
Orderly(acts) ==
    \A i, j \in 1 .. Len(acts) :
        i < j /\ acts[i].act \in {"Connect", "StartRetryTimer"} =>
            acts[j].act \in {"EmitEvent", "ArmIfTeardown"}

ForCurrent(p, acts) ==
    \A i \in 1 .. Len(acts) : acts[i].act = "Connect" => acts[i].ssid = p.current

\* The cursor and the count of profiles left are those of the cycle going on.
OnCourse(p) ==
    /\ \/ p.retryKind = "SameProfile"
       \/ p.state = "Connecting" /\ p.origin \in {"Autoconnect", "None"}
       => p.cursor < Len(p.profiles) /\ p.remaining \in 1 .. Len(p.profiles)
    /\ p.origin = "Autoconnect" /\ (p.state = "Connecting" \/ p.retryKind = "SameProfile") =>
           p.profiles[p.cursor + 1].ssid = p.current
    /\ p.retryKind # "None" => p.profiles # <<>>

\* A policy that is CONNECTING has asked for something that will be answered.
GoesOn(q, acts) ==
    q.state = "Connecting" =>
        \/ Has(acts, "Connect")
        \/ Has(acts, "StartRetryTimer") /\ q.retryKind # "None"
        \/ Has(acts, "Fault")

\* What the task asks of the driver or of a timer, and where it stops for ever.
Requests == {"Connect", "Disconnect", "StartRetryTimer", "Fault"}

\* Nothing is asked for; one thing is.
Saying(acts) == \A i \in 1 .. Len(acts) : acts[i].act \notin Requests

Asking(acts, kind) ==
    \E i \in 1 .. Len(acts) :
        /\ acts[i].act = kind
        /\ \A j \in 1 .. Len(acts) : j # i => acts[j].act \notin Requests

\* The task never gets past this.
Stuck == <<[act |-> "Fault"]>>

\* Nothing of the old attempt is left: a new one is asked for, now or after a
\* backoff, or there is none.
Fresh(q, acts) ==
    /\ ~q.teardown
    /\ \/ q.state = "Ready" /\ Saying(acts)
       \/ q.state = "Connecting" /\ Asking(acts, "Connect") /\ ForCurrent(q, acts)
       \/ q.state \in {"Ready", "Connecting"} /\ Asking(acts, "StartRetryTimer")

\* The old association is given up, and the next attempt awaits its end or
\* there is none.
LetsGo(q, acts) ==
    /\ Asking(acts, "Disconnect")
    /\ \/ q.state = "Ready" /\ q.current = Empty /\ ~q.teardown
       \/ q.state = "Connecting" /\ q.teardown

Credits(p) == <<ActMarkLastSuccess(p.current), ActEvent("Connected", p.current)>>

OnlyFirstEdits(acts) == \A i \in 2 .. Len(acts) : acts[i].act # "SetBlocked"

NoCredit(acts) == \A i \in 1 .. Len(acts) : acts[i].act # "MarkLastSuccess"

\* One input takes the policy from p to q and emits acts.
Fed(p, q, acts) ==
    /\ acts \in Seq(Emitted)
    /\ PolicyOK(q)
    /\ q.state = "Idle" => p.state = "Idle"
    /\ OnlyFirstEdits(acts)
    /\ Mirrors(q.profiles, p.profiles, acts)
    /\ \/ NoCredit(acts) /\ (Opened(p) => Opened(q))
       \/ /\ acts = Credits(q)
          /\ q.state = "Connected"
          /\ q.origin = p.origin /\ q.current = p.current
    /\ OnCourse(p) => OnCourse(q)
    /\ Orderly(acts)
    /\ ForCurrent(q, acts)

-----------------------------------------------------------------------------
LEMMA ConcatFacts ==
    ASSUME NEW S, NEW s \in Seq(S), NEW t \in Seq(S)
    PROVE  /\ s \o t \in Seq(S)
           /\ Len(s \o t) = Len(s) + Len(t)
           /\ \A i \in 1 .. Len(s) : (s \o t)[i] = s[i]
           /\ \A i \in 1 .. Len(t) : (s \o t)[Len(s) + i] = t[i]
OBVIOUS

LEMMA ModInRange ==
    ASSUME NEW a \in Nat, NEW n \in Nat, n > 0
    PROVE  a % n \in 0 .. n - 1
OBVIOUS

\* The counters of the policy are bytes.
LEMMA ByteBefore ==
    ASSUME NEW r \in Nat, NEW m \in Nat, r =< m
    PROVE  /\ (r - 1) % (m + 1) \in 0 .. m
           /\ r > 0 => (r - 1) % (m + 1) = r - 1
OBVIOUS

LEMMA ActsEmitted ==
    /\ \A s \in SsidOrEmpty, o \in Origins : ActConnect(s, o) \in Emitted
    /\ ActDisconnect \in Emitted /\ ActRetryTimer \in Emitted
    /\ [act |-> "Fault"] \in Emitted
    /\ \A e \in Events, s \in SsidOrEmpty : ActEvent(e, s) \in Emitted
    /\ \A s \in Ssids : ActMarkLastSuccess(s) \in Emitted
    /\ \A s \in Ssids, b \in BOOLEAN : ActSetBlocked(s, b) \in Emitted
BY DEF ActConnect, ActDisconnect, ActRetryTimer, ActEvent, ActMarkLastSuccess, ActSetBlocked,
       Emitted

\* What kind of action each is.
LEMMA ActKinds ==
    /\ \A s, o : ActConnect(s, o).act = "Connect" /\ ActConnect(s, o).ssid = s
    /\ ActDisconnect.act = "Disconnect" /\ ActRetryTimer.act = "StartRetryTimer"
    /\ \A e, s : ActEvent(e, s).act = "EmitEvent"
    /\ \A s : ActMarkLastSuccess(s).act = "MarkLastSuccess" /\ ActMarkLastSuccess(s).ssid = s
    /\ \A s, b : /\ ActSetBlocked(s, b).act = "SetBlocked" /\ ActSetBlocked(s, b).ssid = s
                 /\ ActSetBlocked(s, b).flag = b
BY DEF ActConnect, ActDisconnect, ActRetryTimer, ActEvent, ActMarkLastSuccess, ActSetBlocked

\* No action is dropped by emit().
LEMMA EmitFacts ==
    ASSUME NEW acts \in Seq(Emitted), Len(acts) =< 4, NEW rest, Emit(acts, rest)
    PROVE  todo' = acts \o rest
<1>1. Fitting(acts) = SubSeq(acts, 1, Len(acts))
  BY PolicyAssumption DEF Fitting
<1>2. SubSeq(acts, 1, Len(acts)) = acts
  OBVIOUS
<1> QED
  BY <1>1, <1>2 DEF Emit

LEMMA EmitBothFacts ==
    ASSUME NEW pre \in Seq(Emitted), Len(pre) =< 2, NEW acts \in Seq(Emitted), Len(acts) =< 2,
           NEW rest, Emit(pre \o acts, rest)
    PROVE  todo' = (pre \o acts) \o rest
<1>1. pre \o acts \in Seq(Emitted) /\ Len(pre \o acts) = Len(pre) + Len(acts)
  BY ConcatFacts
<1>2. Len(pre \o acts) =< 4
  BY <1>1
<1> QED
  BY <1>1, <1>2, EmitFacts

LEMMA PolicyFields ==
    ASSUME NEW p, PolicyOK(p)
    PROVE  /\ p \in Policy
           /\ p.state \in States /\ p.origin \in Origins /\ p.current \in SsidOrEmpty
           /\ p.attempt \in 0 .. UInt8Max /\ p.fallback \in SsidOrEmpty \cup {NoFallback}
           /\ p.teardown \in BOOLEAN /\ p.profiles \in Seq(Profile) /\ p.cursor \in Nat
           /\ p.remaining \in 0 .. UInt8Max /\ p.retryKind \in RetryKinds
           /\ Len(p.profiles) \in 0 .. UInt8Max
BY PolicyAssumption, ManagerAssumption DEF PolicyOK, Policy

-----------------------------------------------------------------------------
(* The autoconnect cycle.                                                  *)

\* begin_from() goes from p to q and emits acts.
Began(p, q, left, acts) ==
    \/ /\ q = [p EXCEPT !.cursor = q.cursor, !.remaining = q.remaining, !.attempt = 0,
                        !.origin = "Autoconnect", !.current = q.current,
                        !.state = "Connecting", !.retryKind = "None"]
       /\ q.cursor < Len(p.profiles)
       /\ q.remaining \in 1 .. left
       /\ p.profiles[q.cursor + 1].ssid = q.current
       /\ ~p.profiles[q.cursor + 1].blocked
       /\ acts = <<ActConnect(q.current, "Autoconnect"), ActEvent("Connecting", q.current)>>
    \/ /\ q = [p EXCEPT !.state = "Ready", !.origin = "None", !.current = Empty]
       /\ acts = <<ActEvent("AllProfilesBlocked", Empty)>>

LEMMA BeginFromFacts ==
    ASSUME NEW p, PolicyOK(p), p.profiles # <<>>,
           NEW start \in Nat, NEW left \in 1 .. UInt8Max,
           NEW pre \in Seq(Emitted), Len(pre) =< 2, NEW rest \in Seq(Action),
           BeginFrom(p, start, left, pre, rest)
    PROVE  \E acts \in Seq(Emitted) :
             /\ Len(acts) =< 2
             /\ Began(p, policy', left, acts)
             /\ PolicyOK(policy')
             /\ todo' = (pre \o acts) \o rest
<1>f. /\ p \in Policy /\ p.profiles \in Seq(Profile) /\ p.cursor \in Nat
      /\ p.remaining \in 0 .. UInt8Max /\ Len(p.profiles) \in Nat \ {0}
  BY PolicyFields
<1>1. CASE \E k \in OpenSteps(p, start, left) :
             LET at == Around(p, start, k)
                 s  == p.profiles[at + 1].ssid
             IN  /\ policy' = [p EXCEPT !.cursor = at, !.remaining = left - k, !.attempt = 0,
                                        !.origin = "Autoconnect", !.current = s,
                                        !.state = "Connecting", !.retryKind = "None"]
                 /\ Emit(pre \o <<ActConnect(s, "Autoconnect"), ActEvent("Connecting", s)>>, rest)
  <2>1. PICK k \in OpenSteps(p, start, left) :
             LET at == Around(p, start, k)
                 s  == p.profiles[at + 1].ssid
             IN  /\ policy' = [p EXCEPT !.cursor = at, !.remaining = left - k, !.attempt = 0,
                                        !.origin = "Autoconnect", !.current = s,
                                        !.state = "Connecting", !.retryKind = "None"]
                 /\ Emit(pre \o <<ActConnect(s, "Autoconnect"), ActEvent("Connecting", s)>>, rest)
    BY <1>1
  <2> DEFINE at == Around(p, start, k)
             s  == p.profiles[at + 1].ssid
             acts == <<ActConnect(s, "Autoconnect"), ActEvent("Connecting", s)>>
  <2>2. k \in 0 .. left - 1 /\ ~p.profiles[at + 1].blocked
    BY <2>1 DEF OpenSteps
  <2>3. at \in 0 .. Len(p.profiles) - 1
    <3>1. start + k \in Nat
      BY <2>2
    <3> QED
      BY <1>f, <3>1, ModInRange DEF Around
  <2>4. p.profiles[at + 1] \in Profile
    BY <1>f, <2>3
  <2>5. s \in Ssids
    BY <2>4 DEF Profile
  <2>6. /\ ActConnect(s, "Autoconnect") \in Emitted /\ ActEvent("Connecting", s) \in Emitted
    BY <2>5, ActsEmitted DEF Origins, Events, SsidOrEmpty
  <2> HIDE DEF at, s
  <2>7. /\ policy' = [p EXCEPT !.cursor = at, !.remaining = left - k, !.attempt = 0,
                               !.origin = "Autoconnect", !.current = s,
                               !.state = "Connecting", !.retryKind = "None"]
        /\ Emit(pre \o acts, rest)
    BY <2>1 DEF at, s
  <2>8. acts \in Seq(Emitted) /\ Len(acts) =< 2
    BY <2>6
  <2>9. todo' = (pre \o acts) \o rest
    <3> HIDE DEF acts
    <3> QED
      BY <2>7, <2>8, EmitBothFacts
  <2>10. left - k \in 1 .. left
    BY <2>2
  <2>11. s = p.profiles[at + 1].ssid /\ ~p.profiles[at + 1].blocked
    BY <2>2 DEF s
  <2>12. /\ policy'.cursor = at /\ policy'.remaining = left - k /\ policy'.current = s
         /\ policy'.profiles = p.profiles /\ policy'.state = "Connecting"
    BY <1>f, <2>7 DEF Policy
  <2>13. PolicyOK(policy')
    <3>1. policy' \in Policy
      <4>1. /\ at \in Nat /\ s \in SsidOrEmpty
            /\ left - k \in 0 .. UInt8Max /\ 0 \in 0 .. UInt8Max
        BY <1>f, <2>3, <2>5, <2>10, PolicyAssumption DEF SsidOrEmpty
      <4>2. /\ "Autoconnect" \in Origins /\ "Connecting" \in States /\ "None" \in RetryKinds
        BY DEF Origins, States, RetryKinds
      <4> QED
        BY <1>f, <2>7, <4>1, <4>2 DEF Policy
    <3> QED
      BY <3>1, <2>3, <2>12 DEF PolicyOK
  <2>14. Began(p, policy', left, acts)
    BY <2>3, <2>7, <2>10, <2>11, <2>12 DEF Began
  <2> HIDE DEF acts
  <2> QED
    BY <2>8, <2>9, <2>13, <2>14
<1>2. CASE /\ policy' = [p EXCEPT !.state = "Ready", !.origin = "None", !.current = Empty]
           /\ Emit(pre \o <<ActEvent("AllProfilesBlocked", Empty)>>, rest)
  <2> DEFINE acts == <<ActEvent("AllProfilesBlocked", Empty)>>
  <2>1. acts \in Seq(Emitted) /\ Len(acts) =< 2
    BY ActsEmitted DEF Events, SsidOrEmpty
  <2>2. todo' = (pre \o acts) \o rest
    <3>1. Emit(pre \o acts, rest)
      BY <1>2
    <3> HIDE DEF acts
    <3> QED
      BY <2>1, <3>1, EmitBothFacts
  <2>3. PolicyOK(policy')
    BY <1>2 DEF PolicyOK, Policy, Origins, States, SsidOrEmpty
  <2>4. Began(p, policy', left, acts)
    BY <1>2 DEF Began
  <2> HIDE DEF acts
  <2> QED
    BY <2>1, <2>2, <2>3, <2>4
<1> QED
  BY <1>1, <1>2, Zenon DEF BeginFrom

\* on_profile_exhausted() goes from p to q and emits acts.
Exhausted(p, q, acts) ==
    \/ \E left \in 1 .. UInt8Max : /\ p.remaining > 0 => left = p.remaining - 1
                                   /\ Began(p, q, left, acts)
    \/ /\ q = [p EXCEPT !.state = "Ready", !.origin = "None", !.retryKind = "NewCycle"]
       /\ acts = <<ActEvent("CycleRestarted", Empty), ActRetryTimer>>

LEMMA ExhaustedFacts ==
    ASSUME NEW p, PolicyOK(p), p.profiles # <<>>,
           NEW pre \in Seq(Emitted), Len(pre) =< 2, NEW rest \in Seq(Action),
           OnProfileExhausted(p, pre, rest)
    PROVE  \E acts \in Seq(Emitted) :
             /\ Len(acts) =< 2
             /\ Exhausted(p, policy', acts)
             /\ PolicyOK(policy')
             /\ todo' = (pre \o acts) \o rest
<1>f. /\ p \in Policy /\ p.profiles \in Seq(Profile) /\ p.cursor \in Nat
      /\ p.remaining \in 0 .. UInt8Max /\ Len(p.profiles) \in Nat \ {0}
  BY PolicyFields
<1> DEFINE left == (p.remaining - 1) % (UInt8Max + 1)
<1>1. left \in 0 .. UInt8Max /\ (p.remaining > 0 => left = p.remaining - 1)
  <2>1. UInt8Max \in Nat /\ p.remaining \in Nat /\ p.remaining =< UInt8Max
    BY <1>f, PolicyAssumption
  <2> QED
    BY <2>1, ByteBefore
<1>2. CASE left # 0
  <2> DEFINE start == (p.cursor + 1) % Len(p.profiles)
  <2>1. start \in Nat
    BY <1>f, ModInRange
  <2>2. BeginFrom(p, start, left, pre, rest)
    BY <1>2, Zenon DEF OnProfileExhausted
  <2>3. left \in 1 .. UInt8Max
    BY <1>1, <1>2
  <2> HIDE DEF start, left
  <2>4. PICK acts \in Seq(Emitted) :
             /\ Len(acts) =< 2
             /\ Began(p, policy', left, acts)
             /\ PolicyOK(policy')
             /\ todo' = (pre \o acts) \o rest
    BY <2>1, <2>2, <2>3, BeginFromFacts
  <2>5. Exhausted(p, policy', acts)
    BY <1>1, <2>3, <2>4 DEF Exhausted
  <2> QED
    BY <2>4, <2>5
<1>3. CASE left = 0
  <2> DEFINE acts == <<ActEvent("CycleRestarted", Empty), ActRetryTimer>>
  <2>1. acts \in Seq(Emitted) /\ Len(acts) =< 2
    BY ActsEmitted DEF Events, SsidOrEmpty
  <2>2. /\ policy' = [p EXCEPT !.state = "Ready", !.origin = "None", !.retryKind = "NewCycle"]
        /\ Emit(pre \o acts, rest)
    BY <1>3, Zenon DEF OnProfileExhausted
  <2>3. PolicyOK(policy')
    BY <2>2 DEF PolicyOK, Policy, Origins, States, RetryKinds
  <2>4. Exhausted(p, policy', acts)
    BY <2>2 DEF Exhausted
  <2> HIDE DEF acts
  <2>6. todo' = (pre \o acts) \o rest
    BY <2>1, <2>2, EmitBothFacts
  <2> QED
    BY <2>1, <2>3, <2>4, <2>6
<1> QED
  BY <1>2, <1>3

-----------------------------------------------------------------------------
(* What is emitted, in pieces.                                             *)

Opening(pre) ==
    /\ pre \in Seq(Emitted) /\ Len(pre) =< 2
    /\ OnlyFirstEdits(pre)
    /\ \A i \in 1 .. Len(pre) : pre[i].act \in {"SetBlocked", "EmitEvent"}

Closing(acts) ==
    /\ acts \in Seq(Emitted) /\ Len(acts) =< 2
    /\ ~Has(acts, "SetBlocked")
    /\ NoCredit(acts)
    /\ Orderly(acts)

LEMMA JoinFacts ==
    ASSUME NEW pre, NEW acts, Opening(pre), Closing(acts)
    PROVE  /\ pre \o acts \in Seq(Emitted)
           /\ OnlyFirstEdits(pre \o acts)
           /\ NoCredit(pre \o acts)
           /\ Orderly(pre \o acts)
           /\ \A profiles, recs : Mirrors(profiles, recs, pre) => Mirrors(profiles, recs, pre \o acts)
           /\ \A q : ForCurrent(q, acts) => ForCurrent(q, pre \o acts)
           /\ \A q : GoesOn(q, acts) => GoesOn(q, pre \o acts)
<1> DEFINE both == pre \o acts
<1>1. /\ pre \in Seq(Emitted) /\ acts \in Seq(Emitted)
      /\ Len(pre) \in Nat /\ Len(acts) \in Nat
  BY DEF Opening, Closing
<1>2. /\ both \in Seq(Emitted)
      /\ Len(both) = Len(pre) + Len(acts)
      /\ \A i \in 1 .. Len(pre) : both[i] = pre[i]
      /\ \A i \in 1 .. Len(acts) : both[Len(pre) + i] = acts[i]
  BY <1>1, ConcatFacts
<1> HIDE DEF both
<1>3. \A i \in 1 .. Len(both) :
          \/ i \in 1 .. Len(pre) /\ both[i] = pre[i]
          \/ i - Len(pre) \in 1 .. Len(acts) /\ both[i] = acts[i - Len(pre)]
  <2> TAKE i \in 1 .. Len(both)
  <2>1. CASE i > Len(pre)
    <3>1. i - Len(pre) \in 1 .. Len(acts)
      BY <1>1, <1>2, <2>1
    <3>2. both[Len(pre) + (i - Len(pre))] = acts[i - Len(pre)]
      BY <1>2, <3>1
    <3>3. Len(pre) + (i - Len(pre)) = i
      BY <1>1
    <3> QED
      BY <3>1, <3>2, <3>3
  <2> QED
    BY <1>1, <1>2, <2>1
<1>4. OnlyFirstEdits(both)
  BY <1>1, <1>3 DEF Opening, Closing, OnlyFirstEdits, Has
<1>5. NoCredit(both)
  BY <1>1, <1>3 DEF Opening, Closing, NoCredit
<1>6. Orderly(both)
  <2> SUFFICES ASSUME NEW i \in 1 .. Len(both), NEW j \in 1 .. Len(both), i < j,
                      both[i].act \in {"Connect", "StartRetryTimer"}
               PROVE  both[j].act \in {"EmitEvent", "ArmIfTeardown"}
    BY DEF Orderly
  <2>1. i - Len(pre) \in 1 .. Len(acts) /\ both[i] = acts[i - Len(pre)]
    BY <1>3 DEF Opening
  <2>2. j - Len(pre) \in 1 .. Len(acts) /\ both[j] = acts[j - Len(pre)]
    BY <1>1, <1>3, <2>1
  <2> QED
    BY <1>1, <2>1, <2>2 DEF Closing, Orderly
<1>7. ASSUME NEW profiles, NEW recs, Mirrors(profiles, recs, pre)
      PROVE  Mirrors(profiles, recs, both)
  <2>1. CASE Edits(pre)
    <3>1. both[1] = pre[1] /\ Edits(both)
      BY <1>1, <1>2, <2>1 DEF Edits
    <3> QED
      BY <1>7, <2>1, <3>1 DEF Mirrors
  <2>2. CASE ~Edits(pre)
    <3>1. ~Edits(both)
      BY <1>1, <1>2, <1>3, <2>2 DEF Edits, Closing, Has
    <3> QED
      BY <1>7, <2>2, <3>1 DEF Mirrors
  <2> QED
    BY <2>1, <2>2
<1>8. ASSUME NEW q, ForCurrent(q, acts)
      PROVE  ForCurrent(q, both)
  BY <1>3, <1>8 DEF ForCurrent, Opening
<1>9. ASSUME NEW kind, Has(acts, kind)
      PROVE  Has(both, kind)
  <2>1. PICK i \in 1 .. Len(acts) : acts[i].act = kind
    BY <1>9 DEF Has
  <2>2. Len(pre) + i \in 1 .. Len(both) /\ both[Len(pre) + i] = acts[i]
    BY <1>1, <1>2
  <2> QED
    BY <2>1, <2>2 DEF Has
<1>10. ASSUME NEW q, GoesOn(q, acts)
       PROVE  GoesOn(q, both)
  BY <1>9, <1>10, Zenon DEF GoesOn
<1> QED
  BY <1>2, <1>4, <1>5, <1>6, <1>7, <1>8, <1>10 DEF both

\* Requests in short lists.
LEMMA Shapes ==
    /\ Saying(<<>>)
    /\ \A a : a.act \notin Requests => Saying(<<a>>)
    /\ \A a, b : a.act \notin Requests /\ b.act \notin Requests => Saying(<<a, b>>)
    /\ \A a : Asking(<<a>>, a.act)
    /\ \A a, b : a.act \notin Requests => Asking(<<a, b>>, b.act)
    /\ \A a, b : b.act \notin Requests => Asking(<<a, b>>, a.act)
BY DEF Saying, Asking

\* A request before or after entries that ask for nothing.
LEMMA JoinShapes ==
    ASSUME NEW S, NEW a \in Seq(S), NEW b \in Seq(S)
    PROVE  /\ Saying(a) /\ Saying(b) => Saying(a \o b)
           /\ \A kind : \/ Asking(a, kind) /\ Saying(b)
                        \/ Saying(a) /\ Asking(b, kind)
                        => Asking(a \o b, kind)
           /\ \A q : \/ ForCurrent(q, a) /\ Saying(b)
                     \/ Saying(a) /\ ForCurrent(q, b)
                     => ForCurrent(q, a \o b)
<1> DEFINE both == a \o b
<1>1. /\ both \in Seq(S) /\ Len(a) \in Nat /\ Len(b) \in Nat
      /\ Len(both) = Len(a) + Len(b)
      /\ \A i \in 1 .. Len(a) : both[i] = a[i]
      /\ \A i \in 1 .. Len(b) : both[Len(a) + i] = b[i]
  BY ConcatFacts
<1> HIDE DEF both
<1>2. \A i \in 1 .. Len(both) :
          \/ i \in 1 .. Len(a) /\ both[i] = a[i]
          \/ i - Len(a) \in 1 .. Len(b) /\ both[i] = b[i - Len(a)]
  <2> TAKE i \in 1 .. Len(both)
  <2>1. CASE i > Len(a)
    <3>1. i - Len(a) \in 1 .. Len(b) /\ Len(a) + (i - Len(a)) = i
      BY <1>1, <2>1
    <3>2. both[Len(a) + (i - Len(a))] = b[i - Len(a)]
      BY <1>1, <3>1
    <3> QED
      BY <3>1, <3>2
  <2> QED
    BY <1>1, <2>1
<1>3. Saying(a) /\ Saying(b) => Saying(both)
  BY <1>2 DEF Saying
<1>4. ASSUME NEW kind, Asking(a, kind), Saying(b)
      PROVE  Asking(both, kind)
  <2>1. PICK i \in 1 .. Len(a) : /\ a[i].act = kind
                                 /\ \A j \in 1 .. Len(a) : j # i => a[j].act \notin Requests
    BY <1>4 DEF Asking
  <2>2. i \in 1 .. Len(both) /\ both[i].act = kind
    BY <1>1, <2>1
  <2>3. \A j \in 1 .. Len(both) : j # i => both[j].act \notin Requests
    BY <1>2, <1>4, <2>1 DEF Saying
  <2> QED
    BY <2>2, <2>3 DEF Asking
<1>5. ASSUME NEW kind, Saying(a), Asking(b, kind)
      PROVE  Asking(both, kind)
  <2>1. PICK i \in 1 .. Len(b) : /\ b[i].act = kind
                                 /\ \A j \in 1 .. Len(b) : j # i => b[j].act \notin Requests
    BY <1>5 DEF Asking
  <2>2. Len(a) + i \in 1 .. Len(both) /\ both[Len(a) + i].act = kind
    BY <1>1, <2>1
  <2>3. \A j \in 1 .. Len(both) : j # Len(a) + i => both[j].act \notin Requests
    <3> TAKE j \in 1 .. Len(both)
    <3> HAVE j # Len(a) + i
    <3>1. CASE j \in 1 .. Len(a) /\ both[j] = a[j]
      BY <1>5, <3>1 DEF Saying
    <3>2. CASE j - Len(a) \in 1 .. Len(b) /\ both[j] = b[j - Len(a)]
      <4>1. j - Len(a) # i
        BY <1>1, <2>1
      <4> QED
        BY <2>1, <3>2, <4>1
    <3> QED
      BY <1>2, <3>1, <3>2
  <2> QED
    BY <2>2, <2>3 DEF Asking
<1>6. ASSUME NEW q, \/ ForCurrent(q, a) /\ Saying(b)
                    \/ Saying(a) /\ ForCurrent(q, b)
      PROVE  ForCurrent(q, both)
  BY <1>2, <1>6 DEF ForCurrent, Saying, Requests
<1> QED
  BY <1>3, <1>4, <1>5, <1>6 DEF both

\* What surrounds a turn of the policy does not change it.
LEMMA FreshJoined ==
    ASSUME NEW S, NEW a \in Seq(S), NEW b \in Seq(S), NEW q
    PROVE  /\ Saying(a) /\ Fresh(q, b) => Fresh(q, a \o b)
           /\ Saying(b) /\ Fresh(q, a) => Fresh(q, a \o b)
           /\ Saying(b) /\ LetsGo(q, a) => LetsGo(q, a \o b)
           /\ Saying(a) /\ LetsGo(q, b) => LetsGo(q, a \o b)
<1> DEFINE both == a \o b
<1>1. /\ Saying(a) /\ Saying(b) => Saying(both)
      /\ \A kind : \/ Asking(a, kind) /\ Saying(b)
                   \/ Saying(a) /\ Asking(b, kind)
                   => Asking(both, kind)
      /\ \/ ForCurrent(q, a) /\ Saying(b)
         \/ Saying(a) /\ ForCurrent(q, b)
         => ForCurrent(q, both)
  BY JoinShapes
<1> HIDE DEF both
<1>2. /\ Saying(a) /\ Fresh(q, b) => Fresh(q, both)
      /\ Saying(b) /\ Fresh(q, a) => Fresh(q, both)
      /\ Saying(b) /\ LetsGo(q, a) => LetsGo(q, both)
      /\ Saying(a) /\ LetsGo(q, b) => LetsGo(q, both)
  BY <1>1, Zenon DEF Fresh, LetsGo
<1> QED
  BY <1>2 DEF both

LEMMA OpeningSays ==
    ASSUME NEW pre, Opening(pre)
    PROVE  Saying(pre)
BY DEF Opening, Saying, Requests

\* The turns there are.
LEMMA Turns ==
    ASSUME NEW q, ~q.teardown, NEW s, NEW o, NEW e, NEW t
    PROVE  /\ q.state = "Ready" => Fresh(q, <<>>) /\ Fresh(q, <<ActEvent(e, s)>>)
           /\ q.state = "Connecting" /\ q.current = s =>
                  /\ Fresh(q, <<ActConnect(s, o)>>)
                  /\ Fresh(q, <<ActConnect(s, o), ActEvent(e, t)>>)
           /\ q.state \in {"Ready", "Connecting"} => Fresh(q, <<ActEvent(e, s), ActRetryTimer>>)
           /\ q.state = "Ready" /\ q.current = Empty =>
                  LetsGo(q, <<ActDisconnect>>) /\ LetsGo(q, <<ActDisconnect, ActEvent(e, s)>>)
<1> DEFINE event == ActEvent(e, s)
           other == ActEvent(e, t)
           going == ActConnect(s, o)
           timer == ActRetryTimer
           ending == ActDisconnect
<1>1. /\ ending.act = "Disconnect" /\ event.act = "EmitEvent" /\ going.act = "Connect" /\ going.ssid = s
      /\ timer.act = "StartRetryTimer" /\ other.act = "EmitEvent"
  BY ActKinds
<1> HIDE DEF event, other, going, timer, ending
<1>2. /\ event.act \notin Requests /\ other.act \notin Requests
  BY <1>1 DEF Requests
<1>3. /\ Saying(<<>>) /\ Saying(<<event>>)
      /\ Asking(<<going>>, "Connect") /\ Asking(<<going, other>>, "Connect")
      /\ Asking(<<event, timer>>, "StartRetryTimer")
      /\ Asking(<<ending>>, "Disconnect") /\ Asking(<<ending, event>>, "Disconnect")
  BY <1>1, <1>2, Shapes
<1>4. q.current = s => ForCurrent(q, <<going>>) /\ ForCurrent(q, <<going, other>>)
  BY <1>1 DEF ForCurrent
<1> QED
  BY <1>3, <1>4, Zenon DEF Fresh, LetsGo, event, other, going, timer, ending

\* The pieces there are.
LEMMA Pieces ==
    /\ Opening(<<>>)
    /\ \A e \in Events, s \in SsidOrEmpty : /\ Opening(<<ActEvent(e, s)>>)
                                            /\ Closing(<<ActEvent(e, s)>>)
                                            /\ \A q : ForCurrent(q, <<ActEvent(e, s)>>)
    /\ \A e \in Events, s \in SsidOrEmpty, r \in Ssids, b \in BOOLEAN :
          Opening(<<ActSetBlocked(r, b), ActEvent(e, s)>>)
    /\ \A e \in Events, s, r \in SsidOrEmpty, o \in Origins :
          /\ Closing(<<ActConnect(r, o), ActEvent(e, s)>>)
          /\ \A q : q.current = r => ForCurrent(q, <<ActConnect(r, o), ActEvent(e, s)>>)
          /\ \A q : GoesOn(q, <<ActConnect(r, o), ActEvent(e, s)>>)
    /\ \A e \in Events, s \in SsidOrEmpty :
          /\ Closing(<<ActEvent(e, s), ActRetryTimer>>)
          /\ \A q : ForCurrent(q, <<ActEvent(e, s), ActRetryTimer>>)
          /\ \A q : q.retryKind # "None" => GoesOn(q, <<ActEvent(e, s), ActRetryTimer>>)
<1>1. Opening(<<>>)
  BY DEF Opening, OnlyFirstEdits
<1>2. ASSUME NEW e \in Events, NEW s \in SsidOrEmpty, NEW r \in Ssids, NEW b \in BOOLEAN
      PROVE  Opening(<<ActSetBlocked(r, b), ActEvent(e, s)>>)
  BY ActsEmitted, ActKinds DEF Opening, OnlyFirstEdits
<1>3. ASSUME NEW e \in Events, NEW s \in SsidOrEmpty
      PROVE  /\ Opening(<<ActEvent(e, s)>>)
             /\ Closing(<<ActEvent(e, s)>>)
             /\ \A q : ForCurrent(q, <<ActEvent(e, s)>>)
  BY ActsEmitted, ActKinds DEF Opening, Closing, OnlyFirstEdits, Has, NoCredit, Orderly, ForCurrent
<1>4. ASSUME NEW e \in Events, NEW s \in SsidOrEmpty, NEW r \in SsidOrEmpty, NEW o \in Origins
      PROVE  /\ Closing(<<ActConnect(r, o), ActEvent(e, s)>>)
             /\ \A q : q.current = r => ForCurrent(q, <<ActConnect(r, o), ActEvent(e, s)>>)
             /\ \A q : GoesOn(q, <<ActConnect(r, o), ActEvent(e, s)>>)
  <2> DEFINE acts == <<ActConnect(r, o), ActEvent(e, s)>>
  <2>1. /\ acts \in Seq(Emitted) /\ Len(acts) = 2
        /\ acts[1].act = "Connect" /\ acts[1].ssid = r /\ acts[2].act = "EmitEvent"
    BY ActsEmitted, ActKinds
  <2> HIDE DEF acts
  <2>2. Closing(acts)
    BY <2>1 DEF Closing, Has, NoCredit, Orderly
  <2>3. \A q : q.current = r => ForCurrent(q, acts)
    BY <2>1 DEF ForCurrent
  <2>4. \A q : GoesOn(q, acts)
    BY <2>1 DEF GoesOn, Has
  <2> QED
    BY <2>2, <2>3, <2>4 DEF acts
<1>5. ASSUME NEW e \in Events, NEW s \in SsidOrEmpty
      PROVE  /\ Closing(<<ActEvent(e, s), ActRetryTimer>>)
             /\ \A q : ForCurrent(q, <<ActEvent(e, s), ActRetryTimer>>)
             /\ \A q : q.retryKind # "None" => GoesOn(q, <<ActEvent(e, s), ActRetryTimer>>)
  <2> DEFINE acts == <<ActEvent(e, s), ActRetryTimer>>
  <2>1. /\ acts \in Seq(Emitted) /\ Len(acts) = 2
        /\ acts[1].act = "EmitEvent" /\ acts[2].act = "StartRetryTimer"
    BY ActsEmitted, ActKinds
  <2> HIDE DEF acts
  <2>2. Closing(acts)
    BY <2>1 DEF Closing, Has, NoCredit, Orderly
  <2>3. \A q : ForCurrent(q, acts)
    BY <2>1 DEF ForCurrent
  <2>4. \A q : q.retryKind # "None" => GoesOn(q, acts)
    BY <2>1 DEF GoesOn, Has
  <2> QED
    BY <2>2, <2>3, <2>4 DEF acts
<1> QED
  BY <1>1, <1>2, <1>3, <1>4, <1>5

\* The copy of a profile list is the list.
LEMMA MirrorsItself ==
    ASSUME NEW profiles, NEW acts, ~Edits(acts)
    PROVE  Mirrors(profiles, profiles, acts)
BY DEF Mirrors

\* What the autoconnect cycle does to a policy p with profiles.
LEMMA BeganDoes ==
    ASSUME NEW p, PolicyOK(p), p.profiles # <<>>, NEW q, PolicyOK(q), NEW acts,
           NEW left \in 1 .. UInt8Max, Began(p, q, left, acts)
    PROVE  /\ q.profiles = p.profiles
           /\ q.state \in {"Connecting", "Ready"}
           /\ Closing(acts) /\ ForCurrent(q, acts) /\ GoesOn(q, acts)
           /\ Opened(q)
           /\ OnCourse(p) /\ left =< Len(p.profiles) => OnCourse(q)
           /\ ~p.teardown => Fresh(q, acts)
<1>f. /\ p \in Policy /\ p.profiles \in Seq(Profile) /\ p.cursor \in Nat
      /\ p.remaining \in 0 .. UInt8Max /\ Len(p.profiles) \in Nat \ {0}
      /\ Distinct(p.profiles)
  BY PolicyFields DEF PolicyOK
<1>1. CASE /\ q = [p EXCEPT !.cursor = q.cursor, !.remaining = q.remaining, !.attempt = 0,
                            !.origin = "Autoconnect", !.current = q.current,
                            !.state = "Connecting", !.retryKind = "None"]
           /\ q.cursor < Len(p.profiles)
           /\ q.remaining \in 1 .. left
           /\ p.profiles[q.cursor + 1].ssid = q.current
           /\ ~p.profiles[q.cursor + 1].blocked
           /\ acts = <<ActConnect(q.current, "Autoconnect"), ActEvent("Connecting", q.current)>>
  <2> DEFINE c == q.cursor
             s == q.current
  <2>1. /\ q.profiles = p.profiles /\ q.state = "Connecting" /\ q.origin = "Autoconnect"
        /\ q.retryKind = "None"
    BY <1>f, <1>1 DEF Policy
  <2>2. c \in Nat /\ s \in SsidOrEmpty
    BY PolicyFields
  <2>3. c + 1 \in 1 .. Len(p.profiles)
    BY <1>1, <1>f, <2>2
  <2>4. Opened(q)
    BY <1>1, <1>f, <2>1, <2>3, Zenon DEF Opened, OpenFor, Distinct
  <2>5. OnCourse(p) /\ left =< Len(p.profiles) => OnCourse(q)
    BY <1>1, <1>f, <2>1 DEF OnCourse
  <2>6. Closing(acts) /\ ForCurrent(q, acts) /\ GoesOn(q, acts)
    <3>1. "Autoconnect" \in Origins /\ "Connecting" \in Events
      BY DEF Origins, Events
    <3>2. acts = <<ActConnect(s, "Autoconnect"), ActEvent("Connecting", s)>>
      BY <1>1
    <3> HIDE DEF s
    <3>3. q.current = s
      BY DEF s
    <3> QED
      BY <2>2, <3>1, <3>2, <3>3, Pieces, Zenon
  <2>7. ~p.teardown => Fresh(q, acts)
    <3>1. q.teardown = p.teardown
      BY <1>f, <1>1 DEF Policy
    <3>2. acts = <<ActConnect(s, "Autoconnect"), ActEvent("Connecting", s)>>
      BY <1>1
    <3> HIDE DEF s
    <3>3. q.current = s
      BY DEF s
    <3> QED
      BY <2>1, <3>1, <3>2, <3>3, Turns, Zenon
  <2> QED
    BY <2>1, <2>4, <2>5, <2>6, <2>7
<1>2. CASE /\ q = [p EXCEPT !.state = "Ready", !.origin = "None", !.current = Empty]
           /\ acts = <<ActEvent("AllProfilesBlocked", Empty)>>
  <2>1. /\ q.profiles = p.profiles /\ q.state = "Ready" /\ q.origin = "None"
        /\ q.retryKind = p.retryKind /\ q.cursor = p.cursor /\ q.remaining = p.remaining
        /\ q.teardown = p.teardown
    BY <1>f, <1>2 DEF Policy
  <2>2. Closing(acts) /\ ForCurrent(q, acts)
    BY <1>2, Pieces DEF Events, SsidOrEmpty
  <2>3. ~p.teardown => Fresh(q, acts)
    BY <1>2, <2>1, Turns, Zenon
  <2> QED
    BY <2>1, <2>2, <2>3 DEF Opened, OnCourse, GoesOn
<1> QED
  BY <1>1, <1>2, Zenon DEF Began

LEMMA ExhaustedDoes ==
    ASSUME NEW p, PolicyOK(p), p.profiles # <<>>, NEW q, PolicyOK(q), NEW acts,
           Exhausted(p, q, acts)
    PROVE  /\ q.profiles = p.profiles
           /\ q.state \in {"Connecting", "Ready"}
           /\ Closing(acts) /\ ForCurrent(q, acts) /\ GoesOn(q, acts)
           /\ Opened(q)
           /\ OnCourse(p) /\ p.remaining \in 1 .. Len(p.profiles) => OnCourse(q)
           /\ ~p.teardown => Fresh(q, acts)
<1>f. p \in Policy /\ Len(p.profiles) \in Nat
  BY PolicyFields
<1>1. CASE \E left \in 1 .. UInt8Max : /\ p.remaining > 0 => left = p.remaining - 1
                                       /\ Began(p, q, left, acts)
  <2>1. PICK left \in 1 .. UInt8Max : /\ p.remaining > 0 => left = p.remaining - 1
                                      /\ Began(p, q, left, acts)
    BY <1>1
  <2>2. p.remaining \in 1 .. Len(p.profiles) => left =< Len(p.profiles)
    BY <1>f, <2>1
  <2> QED
    BY <2>1, <2>2, BeganDoes, Zenon
<1>2. CASE /\ q = [p EXCEPT !.state = "Ready", !.origin = "None", !.retryKind = "NewCycle"]
           /\ acts = <<ActEvent("CycleRestarted", Empty), ActRetryTimer>>
  <2>1. /\ q.profiles = p.profiles /\ q.state = "Ready" /\ q.origin = "None"
        /\ q.retryKind = "NewCycle" /\ q.teardown = p.teardown
    BY <1>f, <1>2 DEF Policy
  <2>2. Closing(acts) /\ ForCurrent(q, acts)
    BY <1>2, Pieces DEF Events, SsidOrEmpty
  <2>3. ~p.teardown => Fresh(q, acts)
    BY <1>2, <2>1, Turns, Zenon
  <2> QED
    BY <2>1, <2>2, <2>3 DEF Opened, OnCourse, GoesOn
<1> QED
  BY <1>1, <1>2, Zenon DEF Exhausted

\* A cycle that begins or goes on feeds the policy, `pre` emitted before.
LEMMA CycleFed ==
    ASSUME NEW p, NEW q, NEW pre, NEW acts,
           PolicyOK(q), q.state # "Idle", Opening(pre), Closing(acts), ForCurrent(q, acts),
           Opened(p) => Opened(q), Mirrors(q.profiles, p.profiles, pre), OnCourse(p) => OnCourse(q)
    PROVE  Fed(p, q, pre \o acts)
<1>1. /\ pre \o acts \in Seq(Emitted)
      /\ OnlyFirstEdits(pre \o acts)
      /\ NoCredit(pre \o acts)
      /\ Orderly(pre \o acts)
      /\ Mirrors(q.profiles, p.profiles, pre \o acts)
      /\ ForCurrent(q, pre \o acts)
  BY JoinFacts, Zenon
<1> DEFINE both == pre \o acts
<1> HIDE DEF both
<1>2. /\ both \in Seq(Emitted)
      /\ OnlyFirstEdits(both)
      /\ NoCredit(both)
      /\ Orderly(both)
      /\ Mirrors(q.profiles, p.profiles, both)
      /\ ForCurrent(q, both)
  BY <1>1 DEF both
<1>3. Fed(p, q, both)
  BY <1>2 DEF Fed
<1> QED
  BY <1>3 DEF both

\* The policy goes on from here with acts before the rest of what the task
\* has to execute, or the task stops in the middle of the handler.
Answered(acts, rest) ==
    \/ todo' = acts \o rest
    \/ todo' = acts /\ Has(acts, "Fault")

\* An attempt fails as handle_terminal_failure() says.
FailsFed(rest) ==
    \E acts : /\ Fed(policy, policy', acts)
              /\ GoesOn(policy', acts)
              /\ Answered(acts, rest)
              /\ NoCredit(acts)
              /\ Fresh(policy', acts) \/ todo' = Stuck

LEMMA TwoAndOne ==
    ASSUME NEW S, NEW a \in S, NEW b \in S, NEW c \in S
    PROVE  /\ <<a, b>> \in Seq(S) /\ <<c>> \in Seq(S)
           /\ <<a, b>> \o <<c>> = <<a, b, c>>
<1>1. <<a, b>> \in Seq(S) /\ <<c>> \in Seq(S) /\ <<a, b, c>> \in Seq(S)
  OBVIOUS
<1>2. <<a, b>> \o <<c>> \in Seq(S) /\ Len(<<a, b>> \o <<c>>) = 3
  BY <1>1, ConcatFacts
<1>3. \A i \in 1 .. 3 : (<<a, b>> \o <<c>>)[i] = <<a, b, c>>[i]
  OBVIOUS
<1>4. Len(<<a, b, c>>) = 3
  OBVIOUS
<1> QED
  BY <1>1, <1>2, <1>3, <1>4, SeqEqual

LEMMA FailEventFacts ==
    ASSUME NEW class \in FailClasses, policy \in Policy
    PROVE  \E e \in Events : FailEvent(class) = ActEvent(e, policy.current)
<1>1. CASE class = "Auth"
  BY <1>1 DEF FailEvent, Events
<1>2. CASE class # "Auth"
  BY <1>2 DEF FailEvent, Events
<1> QED
  BY <1>1, <1>2

\* What is left is put together the same way each time.
LEMMA FailsWith ==
    ASSUME NEW pre, NEW acts, NEW rest,
           PolicyOK(policy'), policy'.state # "Idle", Opening(pre), Closing(acts),
           ForCurrent(policy', acts), GoesOn(policy', acts), Fresh(policy', acts),
           Opened(policy) => Opened(policy'),
           Mirrors(policy'.profiles, policy.profiles, pre),
           OnCourse(policy) => OnCourse(policy'),
           todo' = (pre \o acts) \o rest
    PROVE  FailsFed(rest)
<1>1. Fed(policy, policy', pre \o acts)
  BY CycleFed
<1>2. GoesOn(policy', pre \o acts) /\ NoCredit(pre \o acts)
  BY JoinFacts
<1>3. Fresh(policy', pre \o acts)
  <2>1. pre \in Seq(Emitted) /\ acts \in Seq(Emitted) /\ Saying(pre)
    BY OpeningSays DEF Opening, Closing
  <2> QED
    BY <2>1, FreshJoined
<1> QED
  BY <1>1, <1>2, <1>3 DEF FailsFed, Answered

LEMMA StartFallbackFacts ==
    ASSUME PolicyOK(policy), policy.state = "Connecting", NEW class \in FailClasses,
           NEW rest, StartFallback(class, rest)
    PROVE  FailsFed(rest)
<1>f. /\ policy \in Policy /\ policy.fallback \in SsidOrEmpty /\ policy.current \in SsidOrEmpty
  BY PolicyFields DEF StartFallback
<1>1. PICK e \in Events : FailEvent(class) = ActEvent(e, policy.current)
  BY <1>f, FailEventFacts
<1> DEFINE s == policy.fallback
           pre == <<ActEvent(e, policy.current), ActEvent("FallbackStarted", s)>>
           acts == <<ActConnect(s, "Fallback")>>
<1>2. /\ policy'.state = "Connecting" /\ policy'.origin = "Fallback" /\ policy'.current = s
      /\ policy'.profiles = policy.profiles /\ policy'.cursor = policy.cursor
      /\ policy'.retryKind = policy.retryKind /\ policy'.remaining = policy.remaining
      /\ ~policy'.teardown
  BY <1>f DEF StartFallback, Policy
<1>3. /\ pre \in Seq(Emitted) /\ acts \in Seq(Emitted)
      /\ pre \o acts = <<ActEvent(e, policy.current), ActEvent("FallbackStarted", s),
                          ActConnect(s, "Fallback")>>
  <2>1. "FallbackStarted" \in Events /\ "Fallback" \in Origins
    BY DEF Events, Origins
  <2>2. /\ ActEvent(e, policy.current) \in Emitted /\ ActEvent("FallbackStarted", s) \in Emitted
        /\ ActConnect(s, "Fallback") \in Emitted
    BY <1>f, <2>1, ActsEmitted
  <2> QED
    BY <2>2, TwoAndOne
<1>4. todo' = (pre \o acts) \o rest
  <2> DEFINE all == <<ActEvent(e, policy.current), ActEvent("FallbackStarted", s), ActConnect(s, "Fallback")>>
  <2>1. Emit(all, rest)
    BY <1>1 DEF StartFallback
  <2>2. all \in Seq(Emitted) /\ Len(all) =< 4
    BY <1>f, ActsEmitted DEF Events, Origins
  <2> HIDE DEF all
  <2>3. todo' = all \o rest
    BY <2>1, <2>2, EmitFacts
  <2> QED
    BY <1>3, <2>3 DEF all
<1>5. Opening(pre)
  BY <1>f, <1>3, ActKinds DEF Opening, OnlyFirstEdits
<1>6. Closing(acts) /\ ForCurrent(policy', acts) /\ GoesOn(policy', acts)
  BY <1>2, <1>3, ActKinds DEF Closing, Has, NoCredit, Orderly, ForCurrent, GoesOn
<1>7. PolicyOK(policy')
  <2>1. policy' \in Policy
    <3>1. /\ 0 \in 0 .. UInt8Max /\ NoFallback \in SsidOrEmpty \cup {NoFallback}
          /\ "Fallback" \in Origins /\ "Connecting" \in States /\ FALSE \in BOOLEAN
      BY PolicyAssumption DEF Origins, States
    <3> QED
      BY <1>f, <3>1 DEF StartFallback, Policy
  <2> QED
    BY <1>2, <2>1 DEF PolicyOK
<1>8. Opened(policy')
  BY <1>2 DEF Opened
<1>9. OnCourse(policy) => OnCourse(policy')
  BY <1>2 DEF OnCourse
<1>10. Mirrors(policy'.profiles, policy.profiles, pre)
  BY <1>2, ActKinds, MirrorsItself DEF Edits
<1>11. Fresh(policy', acts)
  BY <1>2, Turns
<1> HIDE DEF pre, acts
<1> QED
  BY <1>2, <1>4, <1>5, <1>6, <1>7, <1>8, <1>9, <1>10, <1>11, FailsWith

LEMMA GiveUpFacts ==
    ASSUME PolicyOK(policy), policy.state = "Connecting", NEW class \in FailClasses,
           NEW rest \in Seq(Action), GiveUp(class, rest)
    PROVE  FailsFed(rest)
<1>f. /\ policy \in Policy /\ policy.current \in SsidOrEmpty
  BY PolicyFields
<1>1. PICK e \in Events : FailEvent(class) = ActEvent(e, policy.current)
  BY <1>f, FailEventFacts
<1> DEFINE pre == <<>>
           acts == <<ActEvent(e, policy.current)>>
<1>2. /\ policy'.state = "Ready" /\ policy'.origin = "None" /\ policy'.current = Empty
      /\ policy'.profiles = policy.profiles /\ policy'.cursor = policy.cursor
      /\ policy'.retryKind = policy.retryKind /\ policy'.remaining = policy.remaining
      /\ ~policy'.teardown
  BY <1>f DEF GiveUp, Policy
<1>3. acts \in Seq(Emitted) /\ Len(acts) =< 4
  BY <1>f, ActsEmitted
<1>4. Opening(pre) /\ Closing(acts) /\ ForCurrent(policy', acts)
  BY <1>f, Pieces
<1>5. Emit(acts, rest)
  BY <1>1 DEF GiveUp
<1>11. Fresh(policy', acts)
  BY <1>2, Turns
<1> HIDE DEF acts
<1>6. todo' = (pre \o acts) \o rest
  BY <1>3, <1>5, EmitFacts
<1>7. PolicyOK(policy')
  <2>1. policy' \in Policy
    BY <1>f DEF GiveUp, Policy, Origins, States, SsidOrEmpty
  <2> QED
    BY <1>2, <2>1 DEF PolicyOK
<1>8. Opened(policy') /\ GoesOn(policy', acts)
  BY <1>2 DEF Opened, GoesOn
<1>9. OnCourse(policy) => OnCourse(policy')
  BY <1>2 DEF OnCourse
<1>10. Mirrors(policy'.profiles, policy.profiles, pre)
  BY <1>2, MirrorsItself DEF Edits
<1> HIDE DEF pre
<1> QED
  BY <1>2, <1>4, <1>6, <1>7, <1>8, <1>9, <1>10, <1>11, FailsWith

\* The profile under the cursor gets another count of failures, and is
\* blocked if it has failed too often.
Counted(class, b, attempt) ==
    [policy EXCEPT !.teardown = FALSE, !.attempt = attempt,
                   !.profiles = [policy.profiles EXCEPT ![policy.cursor + 1] =
                      [policy.profiles[policy.cursor + 1] EXCEPT
                          !.fails = FailsAfter(class), !.blocked = b]]]

CountedAs(p, b) ==
    /\ PolicyOK(p) /\ p.profiles # <<>> /\ Len(p.profiles) = Len(policy.profiles)
    /\ p.state = policy.state /\ p.origin = policy.origin /\ p.current = policy.current
    /\ p.cursor = policy.cursor /\ p.remaining = policy.remaining
    /\ p.retryKind = policy.retryKind /\ ~p.teardown
    /\ OnCourse(policy) => OnCourse(p)
    /\ \A i \in 1 .. Len(policy.profiles) :
          /\ p.profiles[i].ssid = policy.profiles[i].ssid
          /\ p.profiles[i].blocked =
                IF policy.profiles[i].ssid = policy.profiles[policy.cursor + 1].ssid
                THEN b ELSE policy.profiles[i].blocked

LEMMA CountedFacts ==
    ASSUME PolicyOK(policy), policy.profiles # <<>>, NEW class \in FailClasses,
           NEW b \in BOOLEAN, NEW attempt \in 0 .. UInt8Max, NEW p,
           p = Counted(class, b, attempt)
    PROVE  CountedAs(p, b)
<1>f. /\ policy \in Policy /\ policy.profiles \in Seq(Profile) /\ policy.cursor \in Nat
      /\ Len(policy.profiles) \in Nat \ {0} /\ policy.cursor < Len(policy.profiles)
      /\ Distinct(policy.profiles) /\ Len(policy.profiles) =< MaxProfiles
      /\ policy.state \in {"Idle", "Ready"} => policy.origin = "None"
  BY PolicyFields DEF PolicyOK
<1> DEFINE here == policy.cursor + 1
           was  == policy.profiles[here]
           now  == [was EXCEPT !.fails = FailsAfter(class), !.blocked = b]
           profiles == [policy.profiles EXCEPT ![here] = now]
<1>1. here \in 1 .. Len(policy.profiles)
  BY <1>f
<1>2. was \in Profile
  BY <1>f, <1>1
<1>3. FailsAfter(class) \in 0 .. UInt8Max
  <2>1. was.fails \in 0 .. UInt8Max
    BY <1>2 DEF Profile
  <2> QED
    <3> DEFINE fails == was.fails
    <3>1. fails \in 0 .. UInt8Max /\ UInt8Max \in Nat
      BY <2>1, PolicyAssumption
    <3>2. FailsAfter(class) = IF class = "Auth"
                              THEN (IF fails < UInt8Max THEN fails + 1 ELSE fails) ELSE 0
      BY DEF FailsAfter
    <3> HIDE DEF fails
    <3> QED
      BY <3>1, <3>2
<1>4. now \in Profile /\ now.ssid = was.ssid /\ now.blocked = b
  BY <1>2, <1>3 DEF Profile
<1> HIDE DEF now
<1>5. /\ profiles \in Seq(Profile) /\ Len(profiles) = Len(policy.profiles)
      /\ profiles[here] = now
      /\ \A i \in 1 .. Len(policy.profiles) : i # here => profiles[i] = policy.profiles[i]
  BY <1>f, <1>1, <1>4
<1> HIDE DEF profiles
<1>6. p = [policy EXCEPT !.teardown = FALSE, !.attempt = attempt, !.profiles = profiles]
  BY DEF profiles, now, Counted
<1>7. /\ p \in Policy /\ p.profiles = profiles
      /\ p.state = policy.state /\ p.origin = policy.origin /\ p.current = policy.current
      /\ p.cursor = policy.cursor /\ p.remaining = policy.remaining
      /\ p.retryKind = policy.retryKind /\ ~p.teardown
  <2>1. /\ p.profiles = profiles
        /\ p.state = policy.state /\ p.origin = policy.origin /\ p.current = policy.current
        /\ p.cursor = policy.cursor /\ p.remaining = policy.remaining
        /\ p.retryKind = policy.retryKind /\ ~p.teardown
    BY <1>f, <1>6 DEF Policy
  <2>2. p \in Policy
    BY <1>f, <1>5, <1>6 DEF Policy
  <2> QED
    BY <2>1, <2>2
<1>8. \A i \in 1 .. Len(policy.profiles) :
         /\ profiles[i].ssid = policy.profiles[i].ssid
         /\ profiles[i].blocked = IF policy.profiles[i].ssid = was.ssid
                                  THEN b ELSE policy.profiles[i].blocked
  <2> TAKE i \in 1 .. Len(policy.profiles)
  <2>1. CASE i = here
    BY <1>4, <1>5, <2>1
  <2>2. CASE i # here
    <3>1. policy.profiles[i].ssid # was.ssid
      BY <1>f, <1>1, <2>2 DEF Distinct
    <3> QED
      BY <1>5, <2>2, <3>1
  <2> QED
    BY <2>1, <2>2
<1>9. Distinct(profiles)
  BY <1>f, <1>5, <1>8 DEF Distinct
<1>10. profiles # <<>>
  BY <1>f, <1>5
<1>11. PolicyOK(p)
  BY <1>f, <1>5, <1>7, <1>9 DEF PolicyOK
<1>12. OnCourse(policy) => OnCourse(p)
  BY <1>1, <1>5, <1>7, <1>8, <1>10 DEF OnCourse
<1> QED
  BY <1>5, <1>7, <1>8, <1>10, <1>11, <1>12 DEF CountedAs

LEMMA BlockProfileFacts ==
    ASSUME PolicyOK(policy), policy.state = "Connecting", policy.profiles # <<>>,
           NEW class \in FailClasses, NEW rest \in Seq(Action), BlockProfile(class, rest)
    PROVE  FailsFed(rest)
<1>f. /\ policy \in Policy /\ policy.profiles \in Seq(Profile) /\ policy.cursor \in Nat
      /\ policy.attempt \in 0 .. UInt8Max /\ policy.current \in SsidOrEmpty
      /\ Len(policy.profiles) \in Nat \ {0} /\ policy.cursor < Len(policy.profiles)
      /\ policy.origin \in Origins
  BY PolicyFields DEF PolicyOK
<1>e. PICK e \in Events : FailEvent("Auth") = ActEvent(e, policy.current)
  BY <1>f, FailEventFacts DEF FailClasses
<1> DEFINE here == policy.cursor + 1
           r == policy.profiles[here].ssid
           p == Counted(class, TRUE, policy.attempt)
           pre == <<ActSetBlocked(r, TRUE), ActEvent(e, policy.current)>>
<1>1. /\ PolicyOK(p) /\ p.profiles # <<>> /\ Len(p.profiles) = Len(policy.profiles)
      /\ p.state = policy.state /\ p.origin = policy.origin /\ p.current = policy.current
      /\ p.remaining = policy.remaining /\ ~p.teardown
      /\ OnCourse(policy) => OnCourse(p)
      /\ \A i \in 1 .. Len(policy.profiles) :
            /\ p.profiles[i].ssid = policy.profiles[i].ssid
            /\ p.profiles[i].blocked =
                  IF policy.profiles[i].ssid = r THEN TRUE ELSE policy.profiles[i].blocked
  <2> HIDE DEF p
  <2>1. PICK b \in BOOLEAN : b = TRUE
    OBVIOUS
  <2>2. p = Counted(class, b, policy.attempt)
    BY <2>1 DEF p
  <2>3. CountedAs(p, b)
    BY <1>f, <2>2, CountedFacts, Zenon
  <2> QED
    BY <2>1, <2>3 DEF CountedAs
<1>2. r \in Ssids
  <2>1. policy.profiles[here] \in Profile
    BY <1>f
  <2> QED
    BY <2>1 DEF Profile
<1>3. OnProfileExhausted(p, pre, rest)
  <2>1. [policy EXCEPT !.teardown = FALSE, !.profiles[here].fails = FailsAfter(class),
                       !.profiles[here].blocked = TRUE] = p
    BY <1>f, ZenonT(60) DEF Policy, Counted
  <2> HIDE DEF p
  <2> QED
    BY <1>e, <2>1, Zenon DEF BlockProfile
<1>4. Opening(pre)
  BY <1>2, <1>f, Pieces
<1>5. pre \in Seq(Emitted) /\ Len(pre) =< 2
  BY <1>4 DEF Opening
<1> HIDE DEF p
<1>6. Mirrors(p.profiles, policy.profiles, pre)
  <2>1. pre[1] = ActSetBlocked(r, TRUE) /\ pre # <<>>
    OBVIOUS
  <2>2. Edits(pre) /\ pre[1].ssid = r /\ pre[1].flag = TRUE
    <3> HIDE DEF pre, r
    <3> QED
      BY <2>1 DEF ActSetBlocked, Edits
  <2> HIDE DEF pre
  <2> QED
    BY <1>1, <2>2 DEF Mirrors
<1> HIDE DEF pre
<1>7. PICK acts \in Seq(Emitted) :
         /\ Len(acts) =< 2
         /\ Exhausted(p, policy', acts)
         /\ PolicyOK(policy')
         /\ todo' = (pre \o acts) \o rest
  BY <1>1, <1>3, <1>5, ExhaustedFacts
<1>8. /\ policy'.profiles = p.profiles
      /\ policy'.state \in {"Connecting", "Ready"}
      /\ Closing(acts) /\ ForCurrent(policy', acts) /\ GoesOn(policy', acts)
      /\ Opened(policy')
      /\ OnCourse(p) /\ p.remaining \in 1 .. Len(p.profiles) => OnCourse(policy')
      /\ Fresh(policy', acts)
  BY <1>1, <1>7, ExhaustedDoes
<1>9. OnCourse(policy) => OnCourse(policy')
  <2>1. policy.origin \in {"Autoconnect", "None"}
    BY <1>f DEF BlockProfile, UserDriven, Origins
  <2> QED
    BY <1>1, <1>8, <2>1 DEF OnCourse
<1> QED
  BY <1>4, <1>6, <1>7, <1>8, <1>9, FailsWith

LEMMA CountAttemptFacts ==
    ASSUME PolicyOK(policy), policy.state = "Connecting", policy.profiles # <<>>,
           NEW class \in FailClasses, NEW rest \in Seq(Action), CountAttempt(class, rest)
    PROVE  FailsFed(rest)
<1>f. /\ policy \in Policy /\ policy.profiles \in Seq(Profile) /\ policy.cursor \in Nat
      /\ policy.attempt \in 0 .. UInt8Max /\ policy.current \in SsidOrEmpty
      /\ Len(policy.profiles) \in Nat \ {0} /\ policy.cursor < Len(policy.profiles)
      /\ policy.origin \in Origins
  BY PolicyFields DEF PolicyOK
<1>e. PICK e \in Events : FailEvent(class) = ActEvent(e, policy.current)
  BY <1>f, FailEventFacts
<1> DEFINE here == policy.cursor + 1
           attempt == (policy.attempt + 1) % (UInt8Max + 1)
           b == policy.profiles[here].blocked
           p == Counted(class, b, attempt)
<1>1. policy.profiles[here] \in Profile /\ here \in 1 .. Len(policy.profiles)
  BY <1>f
<1>2. attempt \in 0 .. UInt8Max
  BY <1>f, PolicyAssumption, ModInRange
<1>3. b \in BOOLEAN
  BY <1>1 DEF Profile
<1>4. /\ PolicyOK(p) /\ p.profiles # <<>> /\ Len(p.profiles) = Len(policy.profiles)
      /\ p.state = policy.state /\ p.origin = policy.origin /\ p.current = policy.current
      /\ p.cursor = policy.cursor /\ p.remaining = policy.remaining /\ ~p.teardown
      /\ OnCourse(policy) => OnCourse(p)
      /\ \A i \in 1 .. Len(policy.profiles) :
            /\ p.profiles[i].ssid = policy.profiles[i].ssid
            /\ p.profiles[i].blocked = policy.profiles[i].blocked
  <2> HIDE DEF p, attempt, b
  <2>1. p = Counted(class, b, attempt)
    BY DEF p
  <2>2. /\ PolicyOK(p) /\ p.profiles # <<>> /\ Len(p.profiles) = Len(policy.profiles)
        /\ p.state = policy.state /\ p.origin = policy.origin /\ p.current = policy.current
        /\ p.cursor = policy.cursor /\ p.remaining = policy.remaining /\ ~p.teardown
        /\ OnCourse(policy) => OnCourse(p)
        /\ \A i \in 1 .. Len(policy.profiles) :
              /\ p.profiles[i].ssid = policy.profiles[i].ssid
              /\ p.profiles[i].blocked =
                    IF policy.profiles[i].ssid = policy.profiles[here].ssid
                    THEN b ELSE policy.profiles[i].blocked
    <3>1. CountedAs(p, b)
      BY <1>2, <1>3, <1>f, <2>1, CountedFacts, Zenon
    <3> QED
      BY <3>1 DEF CountedAs
  <2>3. \A i \in 1 .. Len(policy.profiles) :
            policy.profiles[i].ssid = policy.profiles[here].ssid => i = here
    BY <1>1 DEF PolicyOK, Distinct
  <2> QED
    BY <2>2, <2>3 DEF b
<1>5. p = [policy EXCEPT !.teardown = FALSE, !.profiles[here].fails = FailsAfter(class),
                         !.attempt = attempt]
  <2>1. [policy.profiles[here] EXCEPT !.fails = FailsAfter(class), !.blocked = b] =
        [policy.profiles[here] EXCEPT !.fails = FailsAfter(class)]
    BY <1>1 DEF Profile
  <2> QED
    BY <1>f, <2>1 DEF Policy, Counted
<1>6. ~UserDriven /\ policy.origin \in {"Autoconnect", "None"}
  BY <1>f DEF CountAttempt, UserDriven, Origins
<1> HIDE DEF p
<1>7. \/ /\ policy' = [p EXCEPT !.retryKind = "SameProfile"]
         /\ Emit(<<ActEvent(e, policy.current), ActRetryTimer>>, rest)
      \/ OnProfileExhausted(p, <<ActEvent(e, policy.current)>>, rest)
  BY <1>e, <1>5, Zenon DEF CountAttempt
<1>8. \A pre : ~Edits(pre) => Mirrors(p.profiles, policy.profiles, pre)
  BY <1>4 DEF Mirrors
<1>9. CASE /\ policy' = [p EXCEPT !.retryKind = "SameProfile"]
           /\ Emit(<<ActEvent(e, policy.current), ActRetryTimer>>, rest)
  <2> DEFINE acts == <<ActEvent(e, policy.current), ActRetryTimer>>
  <2>1. /\ policy'.profiles = p.profiles /\ policy'.state = policy.state
        /\ policy'.origin = policy.origin /\ policy'.current = policy.current
        /\ policy'.cursor = policy.cursor /\ policy'.remaining = policy.remaining
        /\ policy'.retryKind = "SameProfile" /\ ~policy'.teardown
    BY <1>4, <1>9 DEF PolicyOK, Policy
  <2>2. PolicyOK(policy')
    BY <1>4, <1>9 DEF PolicyOK, Policy, RetryKinds
  <2>3. Closing(acts) /\ ForCurrent(policy', acts) /\ GoesOn(policy', acts)
    BY <1>f, <2>1, Pieces
  <2>4. todo' = acts \o rest
    <3>1. acts \in Seq(Emitted) /\ Len(acts) =< 4
      BY <1>f, ActsEmitted
    <3>2. Emit(acts, rest)
      BY <1>9
    <3> HIDE DEF acts
    <3> QED
      BY <3>1, <3>2, EmitFacts
  <2>5. Opened(policy) => Opened(policy')
    BY <1>4, <2>1 DEF Opened, OpenFor
  <2>6. OnCourse(policy) => OnCourse(policy')
    BY <1>4, <1>6, <2>1 DEF OnCourse
  <2>7. Mirrors(policy'.profiles, policy.profiles, <<>>)
    BY <1>8, <2>1 DEF Edits
  <2>10. Fresh(policy', acts)
    BY <2>1, Turns
  <2> HIDE DEF acts
  <2>8. todo' = (<<>> \o acts) \o rest
    BY <2>3, <2>4 DEF Closing
  <2>9. Opening(<<>>)
    BY Pieces
  <2> QED
    BY <2>1, <2>2, <2>3, <2>5, <2>6, <2>7, <2>8, <2>9, <2>10, FailsWith
<1>10. CASE OnProfileExhausted(p, <<ActEvent(e, policy.current)>>, rest)
  <2> DEFINE pre == <<ActEvent(e, policy.current)>>
  <2>1. Opening(pre)
    BY <1>f, Pieces
  <2>2. ~Edits(pre)
    BY ActKinds DEF Edits
  <2>3. OnProfileExhausted(p, pre, rest)
    BY <1>10
  <2> HIDE DEF pre
  <2>4. pre \in Seq(Emitted) /\ Len(pre) =< 2
    BY <2>1 DEF Opening
  <2>7. PICK acts \in Seq(Emitted) :
           /\ Len(acts) =< 2
           /\ Exhausted(p, policy', acts)
           /\ PolicyOK(policy')
           /\ todo' = (pre \o acts) \o rest
    BY <1>4, <2>3, <2>4, ExhaustedFacts
  <2>8. /\ policy'.profiles = p.profiles
        /\ policy'.state \in {"Connecting", "Ready"}
        /\ Closing(acts) /\ ForCurrent(policy', acts) /\ GoesOn(policy', acts)
        /\ Opened(policy')
        /\ OnCourse(p) /\ p.remaining \in 1 .. Len(p.profiles) => OnCourse(policy')
        /\ Fresh(policy', acts)
    BY <1>4, <2>7, ExhaustedDoes
  <2>9. OnCourse(policy) => OnCourse(policy')
    BY <1>4, <1>6, <2>8 DEF OnCourse
  <2>10. Mirrors(policy'.profiles, policy.profiles, pre)
    BY <1>8, <2>2, <2>8
  <2> QED
    BY <2>1, <2>7, <2>8, <2>9, <2>10, FailsWith
<1> QED
  BY <1>7, <1>9, <1>10

LEMMA NoProfilesFacts ==
    ASSUME PolicyOK(policy), policy.state = "Connecting",
           NEW class \in FailClasses, NEW rest \in Seq(Action), NoProfiles(class, rest)
    PROVE  FailsFed(rest)
<1>f. /\ policy \in Policy /\ policy.attempt \in 0 .. UInt8Max /\ policy.current \in SsidOrEmpty
      /\ policy.origin \in Origins
  BY PolicyFields DEF PolicyOK
<1>e. PICK e \in Events : FailEvent(class) = ActEvent(e, policy.current)
  BY <1>f, FailEventFacts
<1> DEFINE attempt == (policy.attempt + 1) % (UInt8Max + 1)
<1>1. attempt \in 0 .. UInt8Max
  BY <1>f, PolicyAssumption, ModInRange
<1>2. policy.profiles = <<>> /\ policy.origin \in {"Autoconnect", "None"}
  BY <1>f DEF NoProfiles, UserDriven, Origins
<1> HIDE DEF attempt
<1>3. \/ /\ policy' = [policy EXCEPT !.teardown = FALSE, !.attempt = attempt,
                                     !.retryKind = "SameProfile"]
         /\ Emit(<<ActEvent(e, policy.current), ActRetryTimer>>, rest)
      \/ /\ todo' = <<[act |-> "Fault"]>>
         /\ policy' = policy
  BY <1>e, Zenon DEF NoProfiles, attempt
<1>4. CASE /\ policy' = [policy EXCEPT !.teardown = FALSE, !.attempt = attempt,
                                       !.retryKind = "SameProfile"]
           /\ Emit(<<ActEvent(e, policy.current), ActRetryTimer>>, rest)
  <2> DEFINE acts == <<ActEvent(e, policy.current), ActRetryTimer>>
  <2>1. /\ policy'.profiles = policy.profiles /\ policy'.state = policy.state
        /\ policy'.origin = policy.origin /\ policy'.current = policy.current
        /\ policy'.cursor = policy.cursor /\ policy'.retryKind = "SameProfile"
        /\ ~policy'.teardown
    BY <1>f, <1>4 DEF Policy
  <2>2. PolicyOK(policy')
    <3>1. policy' \in Policy
      BY <1>f, <1>1, <1>4 DEF Policy, RetryKinds
    <3> QED
      BY <2>1, <3>1 DEF PolicyOK
  <2>3. Closing(acts) /\ ForCurrent(policy', acts) /\ GoesOn(policy', acts)
    BY <1>f, <2>1, Pieces
  <2>4. todo' = acts \o rest
    <3>1. acts \in Seq(Emitted) /\ Len(acts) =< 4
      BY <1>f, ActsEmitted
    <3>2. Emit(acts, rest)
      BY <1>4
    <3> HIDE DEF acts
    <3> QED
      BY <3>1, <3>2, EmitFacts
  <2>5. Opened(policy) => Opened(policy')
    BY <2>1 DEF Opened, OpenFor
  <2>6. OnCourse(policy) => OnCourse(policy')
    <3>1. policy.cursor \in Nat
      BY PolicyFields
    <3> QED
      BY <1>2, <3>1 DEF OnCourse
  <2>7. Mirrors(policy'.profiles, policy.profiles, <<>>)
    BY <2>1, MirrorsItself DEF Edits
  <2>10. Fresh(policy', acts)
    BY <2>1, Turns
  <2> HIDE DEF acts
  <2>8. todo' = (<<>> \o acts) \o rest
    BY <2>3, <2>4 DEF Closing
  <2>9. Opening(<<>>)
    BY Pieces
  <2> QED
    BY <2>1, <2>2, <2>3, <2>5, <2>6, <2>7, <2>8, <2>9, <2>10, FailsWith
<1>5. CASE todo' = <<[act |-> "Fault"]>> /\ policy' = policy
  <2> DEFINE acts == <<[act |-> "Fault"]>>
  <2>1. /\ acts \in Seq(Emitted) /\ OnlyFirstEdits(acts) /\ NoCredit(acts) /\ Orderly(acts)
        /\ ForCurrent(policy', acts) /\ ~Edits(acts) /\ Has(acts, "Fault") /\ acts = Stuck
    BY ActsEmitted DEF Stuck, OnlyFirstEdits, NoCredit, Orderly, ForCurrent, Edits, Has
  <2>2. todo' = acts
    BY <1>5
  <2> HIDE DEF acts
  <2>3. Mirrors(policy'.profiles, policy.profiles, acts)
    BY <1>5, <2>1, MirrorsItself
  <2>4. Fed(policy, policy', acts)
    BY <1>5, <2>1, <2>3, Zenon DEF Fed
  <2> QED
    BY <2>1, <2>2, <2>4 DEF FailsFed, Answered, GoesOn
<1> QED
  BY <1>3, <1>4, <1>5

LEMMA FailureFacts ==
    ASSUME PolicyOK(policy), policy.state = "Connecting",
           NEW class \in FailClasses, NEW rest \in Seq(Action), TerminalFailure(class, rest)
    PROVE  FailsFed(rest)
BY StartFallbackFacts, GiveUpFacts, NoProfilesFacts, BlockProfileFacts, CountAttemptFacts, Zenon
   DEF TerminalFailure

\* An input the policy answers, all of it.
Feeds(acts, rest) ==
    /\ Fed(policy, policy', acts)
    /\ NoCredit(acts)
    /\ todo' = acts \o rest

LEMMA EmptyIsSilent ==
    /\ <<>> \in Seq(Emitted) /\ OnlyFirstEdits(<<>>) /\ NoCredit(<<>>) /\ Orderly(<<>>)
    /\ ~Edits(<<>>) /\ \A kind : ~Has(<<>>, kind)
    /\ \A q : ForCurrent(q, <<>>)
BY DEF OnlyFirstEdits, NoCredit, Orderly, Edits, Has, ForCurrent

LEMMA EmptyBefore ==
    ASSUME NEW S, NEW rest \in Seq(S)
    PROVE  <<>> \o rest = rest
OBVIOUS

\* Nothing happens.
LEMMA IgnoredFacts ==
    ASSUME PolicyOK(policy), NEW rest \in Seq(Action), Ignored(rest)
    PROVE  Feeds(<<>>, rest) /\ policy' = policy /\ todo' = rest
<1>1. policy' = policy /\ todo' = rest
  BY DEF Ignored
<1>2. Mirrors(policy'.profiles, policy.profiles, <<>>)
  BY <1>1, EmptyIsSilent, MirrorsItself
<1>3. Fed(policy, policy', <<>>)
  BY <1>1, <1>2, EmptyIsSilent DEF Fed
<1> QED
  BY <1>1, <1>3, EmptyIsSilent, EmptyBefore DEF Feeds

\* begin_from(), with nothing emitted before.
LEMMA BeginFeeds ==
    ASSUME PolicyOK(policy), policy.profiles # <<>>, NEW rest \in Seq(Action),
           NEW p, PolicyOK(p), p.profiles = policy.profiles,
           OnCourse(policy) => OnCourse(p),
           BeginFrom(p, 0, Len(p.profiles), <<>>, rest)
    PROVE  /\ \E acts : /\ Feeds(acts, rest) /\ GoesOn(policy', acts)
                        /\ ~p.teardown => Fresh(policy', acts)
           /\ policy'.state # "Idle"
<1>1. Len(p.profiles) \in 1 .. UInt8Max /\ 0 \in Nat
  BY PolicyFields
<1>2. Opening(<<>>) /\ <<>> \in Seq(Emitted) /\ Len(<<>>) =< 2
  BY Pieces
<1> DEFINE n == Len(p.profiles)
<1>3. BeginFrom(p, 0, n, <<>>, rest) /\ n \in 1 .. UInt8Max /\ n =< Len(p.profiles)
  BY <1>1
<1> HIDE DEF n
<1>4. PICK acts \in Seq(Emitted) :
         /\ Len(acts) =< 2
         /\ Began(p, policy', n, acts)
         /\ PolicyOK(policy')
         /\ todo' = (<<>> \o acts) \o rest
  BY <1>1, <1>2, <1>3, BeginFromFacts, ZenonT(60)
<1>5. /\ policy'.profiles = p.profiles
      /\ policy'.state \in {"Connecting", "Ready"}
      /\ Closing(acts) /\ ForCurrent(policy', acts) /\ GoesOn(policy', acts)
      /\ Opened(policy')
      /\ OnCourse(p) => OnCourse(policy')
      /\ ~p.teardown => Fresh(policy', acts)
  BY <1>3, <1>4, BeganDoes, Zenon
<1>6. Mirrors(policy'.profiles, policy.profiles, <<>>)
  BY <1>5, EmptyIsSilent, MirrorsItself
<1>7. Fed(policy, policy', <<>> \o acts)
  BY <1>2, <1>4, <1>5, <1>6, CycleFed
<1>8. <<>> \o acts = acts
  BY <1>4
<1> QED
  BY <1>4, <1>5, <1>7, <1>8 DEF Feeds, Closing

LEMMA StartedFacts ==
    ASSUME PolicyOK(policy), policy.state = "Idle", NEW rest \in Seq(Action), InStarted(rest)
    PROVE  /\ \E acts : /\ Feeds(acts, rest) /\ GoesOn(policy', acts)
                        /\ ~policy.teardown => Fresh(policy', acts)
           /\ policy'.state # "Idle"
<1>1. CASE policy.profiles # <<>> /\ BeginFrom(policy, 0, Len(policy.profiles), <<>>, rest)
  BY <1>1, BeginFeeds
<1>2. CASE /\ policy.profiles = <<>>
           /\ policy' = [policy EXCEPT !.state = "Ready"]
           /\ Emit(<<ActEvent("ReadyNoProfiles", Empty)>>, rest)
  <2> DEFINE acts == <<ActEvent("ReadyNoProfiles", Empty)>>
  <2>1. /\ policy'.state = "Ready" /\ policy'.origin = policy.origin
        /\ policy'.current = policy.current /\ policy'.retryKind = policy.retryKind
        /\ policy'.profiles = policy.profiles /\ policy'.cursor = policy.cursor
        /\ policy'.remaining = policy.remaining /\ policy'.teardown = policy.teardown
    BY <1>2 DEF PolicyOK, Policy
  <2>2. PolicyOK(policy')
    BY <1>2 DEF PolicyOK, Policy, States
  <2>3. Closing(acts) /\ ForCurrent(policy', acts)
    BY Pieces DEF Events, SsidOrEmpty
  <2>4. Emit(acts, rest)
    BY <1>2
  <2>12. ~policy.teardown => Fresh(policy', acts)
    BY <2>1, Turns
  <2> HIDE DEF acts
  <2>5. acts \in Seq(Emitted) /\ Len(acts) =< 4 /\ NoCredit(acts)
    BY <2>3 DEF Closing
  <2>6. todo' = acts \o rest
    BY <2>4, <2>5, EmitFacts
  <2>7. Opened(policy') /\ GoesOn(policy', acts)
    BY <2>1 DEF Opened, GoesOn, PolicyOK
  <2>8. OnCourse(policy) => OnCourse(policy')
    BY <2>1 DEF OnCourse
  <2>9. Mirrors(policy'.profiles, policy.profiles, <<>>)
    BY <2>1, EmptyIsSilent, MirrorsItself
  <2>10. Fed(policy, policy', <<>> \o acts)
    BY <2>1, <2>2, <2>3, <2>7, <2>8, <2>9, CycleFed, Pieces
  <2>11. <<>> \o acts = acts
    BY <2>5
  <2> QED
    BY <2>1, <2>5, <2>6, <2>7, <2>10, <2>11, <2>12 DEF Feeds
<1> QED
  BY <1>1, <1>2, Zenon DEF InStarted

LEMMA ResumeFacts ==
    ASSUME PolicyOK(policy), NEW rest \in Seq(Action), InResume(rest)
    PROVE  \/ Ignored(rest)
           \/ /\ policy.state = "Ready"
              /\ \E acts : /\ Feeds(acts, rest) /\ GoesOn(policy', acts)
                           /\ ~policy.teardown => Fresh(policy', acts)
BY BeginFeeds, Zenon DEF InResume

LEMMA RetryExpiredFacts ==
    ASSUME PolicyOK(policy), NEW rest \in Seq(Action), InRetryTimerExpired(rest)
    PROVE  \/ /\ policy.retryKind # "None"
              /\ \E acts : /\ Feeds(acts, rest) /\ GoesOn(policy', acts)
                           /\ ~policy.teardown => Fresh(policy', acts)
           \/ /\ Feeds(<<>>, rest)
              /\ todo' = rest
              /\ policy' = [policy EXCEPT !.retryKind = "None"]
              /\ policy.retryKind = "None" \/ policy.profiles = <<>>
<1>f. /\ policy \in Policy /\ policy.current \in SsidOrEmpty /\ policy.origin \in Origins
  BY PolicyFields
<1> DEFINE p == [policy EXCEPT !.retryKind = "None"]
<1>1. /\ p.profiles = policy.profiles /\ p.current = policy.current /\ p.origin = policy.origin
      /\ p.state = policy.state /\ p.cursor = policy.cursor /\ p.remaining = policy.remaining
      /\ p.retryKind = "None" /\ p.teardown = policy.teardown
  BY <1>f DEF Policy
<1>2. PolicyOK(p)
  BY <1>f DEF PolicyOK, Policy, RetryKinds
<1>3. OnCourse(policy) => OnCourse(p)
  BY <1>1 DEF OnCourse
<1>4. \/ /\ policy.retryKind = "SameProfile"
         /\ policy' = [p EXCEPT !.state = "Connecting"]
         /\ Emit(<<ActConnect(p.current, p.origin), ActEvent("Connecting", p.current)>>, rest)
      \/ /\ policy.profiles # <<>> /\ policy.retryKind = "NewCycle"
         /\ BeginFrom(p, 0, Len(p.profiles), <<>>, rest)
      \/ /\ policy.retryKind = "None" \/ policy.profiles = <<>>
         /\ policy' = p
         /\ todo' = rest
  BY Zenon DEF InRetryTimerExpired
<1> HIDE DEF p
<1>5. CASE /\ policy.retryKind = "SameProfile"
           /\ policy' = [p EXCEPT !.state = "Connecting"]
           /\ Emit(<<ActConnect(p.current, p.origin), ActEvent("Connecting", p.current)>>, rest)
  <2> DEFINE s == policy.current
             o == policy.origin
             acts == <<ActConnect(s, o), ActEvent("Connecting", s)>>
  <2>1. /\ policy'.state = "Connecting" /\ policy'.origin = policy.origin
        /\ policy'.current = policy.current /\ policy'.retryKind = "None"
        /\ policy'.profiles = policy.profiles /\ policy'.cursor = policy.cursor
        /\ policy'.remaining = policy.remaining /\ policy'.teardown = policy.teardown
    BY <1>1, <1>2, <1>5 DEF PolicyOK, Policy
  <2>2. PolicyOK(policy')
    BY <1>2, <1>5 DEF PolicyOK, Policy, States
  <2>3. Closing(acts) /\ ForCurrent(policy', acts) /\ GoesOn(policy', acts)
    <3>1. s \in SsidOrEmpty /\ o \in Origins /\ "Connecting" \in Events /\ policy'.current = s
      BY <1>f, <2>1 DEF Events
    <3> HIDE DEF s, o
    <3> QED
      BY <3>1, Pieces
  <2>4. Emit(acts, rest)
    BY <1>1, <1>5
  <2>12. ~policy.teardown => Fresh(policy', acts)
    BY <2>1, Turns
  <2> HIDE DEF acts
  <2>5. acts \in Seq(Emitted) /\ Len(acts) =< 4 /\ NoCredit(acts)
    BY <2>3 DEF Closing
  <2>6. todo' = acts \o rest
    BY <2>4, <2>5, EmitFacts
  <2>7. Opened(policy) => Opened(policy')
    BY <2>1 DEF Opened, OpenFor
  <2>8. OnCourse(policy) => OnCourse(policy')
    BY <1>5, <2>1 DEF OnCourse
  <2>9. Mirrors(policy'.profiles, policy.profiles, <<>>)
    BY <2>1, EmptyIsSilent, MirrorsItself
  <2>10. Fed(policy, policy', <<>> \o acts)
    BY <2>1, <2>2, <2>3, <2>7, <2>8, <2>9, CycleFed, Pieces
  <2>11. <<>> \o acts = acts
    BY <2>5
  <2> QED
    BY <1>5, <2>3, <2>5, <2>6, <2>10, <2>11, <2>12 DEF Feeds
<1>6. CASE /\ policy.profiles # <<>> /\ policy.retryKind = "NewCycle"
           /\ BeginFrom(p, 0, Len(p.profiles), <<>>, rest)
  BY <1>1, <1>2, <1>3, <1>6, BeginFeeds
<1>7. CASE /\ policy.retryKind = "None" \/ policy.profiles = <<>>
           /\ policy' = p
           /\ todo' = rest
  <2>1. Mirrors(policy'.profiles, policy.profiles, <<>>)
    BY <1>1, <1>7, EmptyIsSilent, MirrorsItself
  <2>2. Opened(policy) => Opened(policy')
    BY <1>1, <1>7 DEF Opened, OpenFor
  <2>3. Fed(policy, policy', <<>>)
    BY <1>1, <1>2, <1>3, <1>7, <2>1, <2>2, EmptyIsSilent DEF Fed
  <2> QED
    BY <1>7, <2>3, EmptyIsSilent, EmptyBefore DEF Feeds, p
<1> QED
  BY <1>4, <1>5, <1>6, <1>7

\* A success is credited to the network the policy has in mind.
LEMMA ConnectSuccessFacts ==
    ASSUME PolicyOK(policy), NEW rest \in Seq(Action), InConnectSuccess(rest)
    PROVE  \/ policy.current = Empty /\ Ignored(rest)
           \/ /\ Fed(policy, policy', Credits(policy'))
              /\ todo' = Credits(policy') \o rest
              /\ policy'.state = "Connected" /\ ~policy'.teardown
              /\ policy.current # Empty /\ policy'.current = policy.current
<1>f. /\ policy \in Policy /\ policy.profiles \in Seq(Profile) /\ policy.cursor \in Nat
      /\ policy.current \in SsidOrEmpty /\ Len(policy.profiles) \in Nat
      /\ Len(policy.profiles) =< MaxProfiles /\ Distinct(policy.profiles)
  BY PolicyFields DEF PolicyOK
<1> DEFINE s == policy.current
           n == Len(policy.profiles)
           here == (policy.cursor % n) + 1
           reset == [policy.profiles EXCEPT ![here].fails = 0]
           cond == policy.origin = "Autoconnect" /\ n > 0 /\ policy.profiles[here].ssid = s
           profiles == IF cond THEN reset ELSE policy.profiles
           acts == <<ActMarkLastSuccess(s), ActEvent("Connected", s)>>
<1>1. CASE /\ s # Empty
           /\ policy' = [policy EXCEPT
                !.state = "Connected", !.attempt = 0, !.teardown = FALSE, !.fallback = NoFallback,
                !.profiles = profiles]
           /\ Emit(acts, rest)
  <2>1. /\ profiles \in Seq(Profile) /\ Len(profiles) = n
        /\ \A i \in 1 .. n : /\ profiles[i].ssid = policy.profiles[i].ssid
                             /\ profiles[i].blocked = policy.profiles[i].blocked
    <3>1. CASE cond
      <4>1. here \in 1 .. n
        BY <1>f, <3>1, ModInRange
      <4> HIDE DEF here
      <4>2. policy.profiles[here] \in Profile
        BY <1>f, <4>1
      <4> DEFINE now == [policy.profiles[here] EXCEPT !.fails = 0]
      <4>3. /\ now \in Profile /\ now.ssid = policy.profiles[here].ssid
            /\ now.blocked = policy.profiles[here].blocked
        BY <4>2, PolicyAssumption DEF Profile
      <4> HIDE DEF now
      <4>4. profiles = [policy.profiles EXCEPT ![here] = now]
        BY <3>1 DEF now
      <4> HIDE DEF profiles
      <4>5. /\ profiles \in Seq(Profile) /\ Len(profiles) = n /\ profiles[here] = now
            /\ \A i \in 1 .. n : i # here => profiles[i] = policy.profiles[i]
        BY <1>f, <4>1, <4>3, <4>4
      <4> QED
        BY <4>3, <4>5
    <3>2. CASE ~cond
      BY <1>f, <3>2
    <3> QED
      BY <3>1, <3>2
  <2> HIDE DEF profiles
  <2>2. /\ policy'.profiles = profiles /\ policy'.state = "Connected"
        /\ policy'.origin = policy.origin /\ policy'.current = policy.current
        /\ policy'.cursor = policy.cursor /\ policy'.remaining = policy.remaining
        /\ policy'.retryKind = policy.retryKind /\ ~policy'.teardown
    BY <1>f, <1>1 DEF Policy
  <2>3. PolicyOK(policy')
    <3>1. policy' \in Policy
      <4>1. /\ 0 \in 0 .. UInt8Max /\ "Connected" \in States /\ FALSE \in BOOLEAN
            /\ NoFallback \in SsidOrEmpty \cup {NoFallback}
        BY PolicyAssumption DEF States
      <4> QED
        BY <1>f, <1>1, <2>1, <4>1 DEF Policy
    <3>2. Distinct(profiles)
      BY <1>f, <2>1 DEF Distinct
    <3>3. profiles = <<>> <=> policy.profiles = <<>>
      BY <1>f, <2>1
    <3> QED
      BY <1>f, <2>1, <2>2, <3>1, <3>2, <3>3 DEF PolicyOK
  <2>4. acts = Credits(policy')
    BY <2>2 DEF Credits
  <2>5. /\ acts \in Seq(Emitted) /\ Len(acts) = 2 /\ Len(acts) =< 4
        /\ acts[1].act = "MarkLastSuccess"
        /\ acts[2].act = "EmitEvent"
    <3>1. s \in Ssids /\ s \in SsidOrEmpty /\ "Connected" \in Events
      BY <1>f, <1>1 DEF SsidOrEmpty, Events
    <3> HIDE DEF s
    <3> QED
      BY <3>1, ActsEmitted, ActKinds
  <2>6. Emit(acts, rest)
    BY <1>1
  <2> HIDE DEF acts
  <2>7. todo' = acts \o rest
    BY <2>5, <2>6, EmitFacts
  <2>8. /\ OnlyFirstEdits(acts) /\ Orderly(acts) /\ ForCurrent(policy', acts) /\ ~Edits(acts)
    BY <2>5 DEF OnlyFirstEdits, Orderly, ForCurrent, Edits
  <2>9. Mirrors(policy'.profiles, policy.profiles, acts)
    BY <2>1, <2>2, <2>8 DEF Mirrors
  <2>10. OnCourse(policy) => OnCourse(policy')
    <3>1. profiles = <<>> <=> policy.profiles = <<>>
      BY <1>f, <2>1
    <3> QED
      <4>1. policy.cursor < n => policy.cursor + 1 \in 1 .. n
        BY <1>f
      <4> HIDE DEF n
      <4> QED
        BY <2>1, <2>2, <3>1, <4>1 DEF OnCourse, n
  <2>11. Fed(policy, policy', acts)
    BY <2>2, <2>3, <2>4, <2>5, <2>8, <2>9, <2>10 DEF Fed
  <2> QED
    BY <1>1, <2>2, <2>4, <2>7, <2>11
<1>2. \/ /\ s = Empty
         /\ Ignored(rest)
      \/ /\ s # Empty
         /\ policy' = [policy EXCEPT
              !.state = "Connected", !.attempt = 0, !.teardown = FALSE, !.fallback = NoFallback,
              !.profiles = profiles]
         /\ Emit(acts, rest)
  BY Zenon DEF InConnectSuccess
<1> QED
  BY <1>1, <1>2

\* A lost link is tried again at once.
LEMMA LinkLostFacts ==
    ASSUME PolicyOK(policy), NEW rest \in Seq(Action), InLinkLost(rest)
    PROVE  \/ policy.state # "Connected" /\ Ignored(rest)
           \/ \E acts : /\ Feeds(acts, rest) /\ GoesOn(policy', acts)
                        /\ ~policy.teardown => Fresh(policy', acts)
<1>f. /\ policy \in Policy /\ policy.profiles \in Seq(Profile) /\ policy.cursor \in Nat
      /\ policy.current \in SsidOrEmpty /\ Len(policy.profiles) \in 0 .. UInt8Max
  BY PolicyFields
<1> DEFINE s == policy.current
           lost == <<ActEvent("Disconnected", s)>>
<1>l. Opening(lost) /\ Closing(lost) /\ \A q : ForCurrent(q, lost)
  BY <1>f, Pieces DEF Events
<1>1. CASE /\ policy.state = "Connected"
           /\ policy' = [policy EXCEPT !.state = "Ready", !.origin = "None", !.current = Empty]
           /\ Emit(lost, rest)
  <2>1. /\ policy'.profiles = policy.profiles /\ policy'.state = "Ready"
        /\ policy'.origin = "None" /\ policy'.retryKind = policy.retryKind
        /\ policy'.cursor = policy.cursor /\ policy'.remaining = policy.remaining
        /\ policy'.teardown = policy.teardown
    BY <1>f, <1>1 DEF Policy
  <2>2. PolicyOK(policy')
    BY <1>1 DEF PolicyOK, Policy, States, Origins, SsidOrEmpty
  <2>3. Opened(policy') /\ GoesOn(policy', lost)
    BY <2>1 DEF Opened, GoesOn
  <2>9. ~policy.teardown => Fresh(policy', lost)
    BY <2>1, Turns
  <2>4. OnCourse(policy) => OnCourse(policy')
    BY <2>1 DEF OnCourse
  <2> HIDE DEF lost
  <2>5. Mirrors(policy'.profiles, policy.profiles, <<>>)
    BY <2>1, EmptyIsSilent, MirrorsItself
  <2>6. Fed(policy, policy', <<>> \o lost)
    BY <1>l, <2>1, <2>2, <2>3, <2>4, <2>5, CycleFed, Pieces
  <2>7. lost \in Seq(Emitted) /\ Len(lost) =< 4 /\ NoCredit(lost)
    BY <1>l DEF Closing
  <2>8. <<>> \o lost = lost /\ todo' = lost \o rest
    BY <1>1, <2>7, EmitFacts
  <2> QED
    BY <2>3, <2>6, <2>7, <2>8, <2>9 DEF Feeds
<1>2. CASE /\ policy.state = "Connected"
           /\ \E pos \in PositionsOf(s) : policy' = CycleFrom(pos)
           /\ Emit(lost \o <<ActConnect(s, "Autoconnect"), ActEvent("Connecting", s)>>, rest)
  <2> DEFINE acts == <<ActConnect(s, "Autoconnect"), ActEvent("Connecting", s)>>
  <2>1. PICK pos \in PositionsOf(s) : policy' = CycleFrom(pos)
    BY <1>2
  <2>2. pos \in 0 .. Len(policy.profiles) - 1 /\ policy.profiles[pos + 1].ssid = s
    BY <2>1 DEF PositionsOf
  <2>3. /\ policy'.profiles = policy.profiles /\ policy'.state = "Connecting"
        /\ policy'.origin = "Autoconnect" /\ policy'.retryKind = policy.retryKind
        /\ policy'.current = s
        /\ policy'.cursor = pos /\ policy'.remaining = Len(policy.profiles)
        /\ policy'.teardown = policy.teardown
    BY <1>f, <2>1 DEF Policy, CycleFrom
  <2>4. policy' \in Policy
    <3>1. /\ 0 \in 0 .. UInt8Max /\ "Connecting" \in States /\ "Autoconnect" \in Origins
          /\ pos \in Nat
      BY <1>f, <2>2, PolicyAssumption DEF States, Origins
    <3> QED
      BY <1>f, <2>1, <3>1 DEF Policy, CycleFrom
  <2>5. PolicyOK(policy')
    BY <1>f, <2>2, <2>3, <2>4 DEF PolicyOK
  <2>6. Opened(policy) => Opened(policy')
    BY <1>2, <2>3 DEF Opened, OpenFor
  <2>7. OnCourse(policy) => OnCourse(policy')
    BY <1>f, <2>2, <2>3 DEF OnCourse
  <2>8. Closing(acts) /\ ForCurrent(policy', acts) /\ GoesOn(policy', acts)
    <3>1. s \in SsidOrEmpty /\ "Autoconnect" \in Origins /\ "Connecting" \in Events
          /\ policy'.current = s
      BY <1>f, <2>3 DEF Events, Origins
    <3> HIDE DEF s
    <3> QED
      BY <3>1, Pieces
  <2>9. Emit(lost \o acts, rest)
    BY <1>2
  <2>10. ~Edits(lost)
    BY ActKinds DEF Edits
  <2>15. ~policy.teardown => Fresh(policy', acts)
    BY <2>3, Turns
  <2> HIDE DEF lost, acts
  <2>11. Mirrors(policy'.profiles, policy.profiles, lost)
    BY <2>3, <2>10, MirrorsItself
  <2>12. Fed(policy, policy', lost \o acts)
    BY <1>l, <2>3, <2>5, <2>6, <2>7, <2>8, <2>11, CycleFed
  <2>13. GoesOn(policy', lost \o acts) /\ NoCredit(lost \o acts)
    BY <1>l, <2>8, JoinFacts
  <2>14. todo' = (lost \o acts) \o rest
    BY <1>l, <2>8, <2>9, EmitBothFacts DEF Opening, Closing
  <2>16. ~policy.teardown => Fresh(policy', lost \o acts)
    <3>1. lost \in Seq(Emitted) /\ acts \in Seq(Emitted) /\ Saying(lost)
      BY <1>l, <2>8, OpeningSays DEF Opening, Closing
    <3> QED
      BY <2>15, <3>1, FreshJoined
  <2> QED
    BY <2>12, <2>13, <2>14, <2>16 DEF Feeds
<1> QED
  BY <1>1, <1>2, Zenon DEF InLinkLost

\* The attempt that waited for the end of the old association starts.
LEMMA TeardownFacts ==
    ASSUME PolicyOK(policy), NEW rest \in Seq(Action), policy.teardown,
           InTeardownDisconnected(rest)
    PROVE  \E acts : /\ Feeds(acts, rest) /\ GoesOn(policy', acts)
                     /\ policy.state = "Connecting" => Fresh(policy', acts)
<1>f. /\ policy \in Policy /\ policy.current \in SsidOrEmpty /\ policy.origin \in Origins
  BY PolicyFields
<1> DEFINE s == policy.current
           o == policy.origin
           acts == <<ActConnect(s, o)>>
<1>1. policy' = [policy EXCEPT !.teardown = FALSE] /\ Emit(acts, rest)
  BY Zenon DEF InTeardownDisconnected
<1>2. /\ policy'.state = policy.state /\ policy'.origin = policy.origin
      /\ policy'.current = policy.current /\ policy'.retryKind = policy.retryKind
      /\ policy'.profiles = policy.profiles /\ policy'.cursor = policy.cursor
      /\ policy'.remaining = policy.remaining /\ ~policy'.teardown
  BY <1>f, <1>1 DEF Policy
<1>11. policy.state = "Connecting" => Fresh(policy', acts)
  BY <1>2, Turns
<1>3. PolicyOK(policy')
  BY <1>1, <1>f, <1>2 DEF PolicyOK, Policy
<1>4. /\ acts \in Seq(Emitted) /\ Len(acts) = 1 /\ Len(acts) =< 4
      /\ acts[1].act = "Connect" /\ acts[1].ssid = s
  <2> HIDE DEF s, o
  <2>1. s \in SsidOrEmpty /\ o \in Origins
    BY <1>f DEF s, o
  <2> QED
    BY <2>1, ActsEmitted, ActKinds
<1> HIDE DEF acts
<1>5. todo' = acts \o rest
  BY <1>1, <1>4, EmitFacts
<1>6. /\ OnlyFirstEdits(acts) /\ Orderly(acts) /\ ForCurrent(policy', acts) /\ ~Edits(acts)
      /\ NoCredit(acts) /\ GoesOn(policy', acts)
  BY <1>2, <1>4 DEF OnlyFirstEdits, Orderly, ForCurrent, Edits, NoCredit, GoesOn, Has
<1>7. Mirrors(policy'.profiles, policy.profiles, acts)
  BY <1>2, <1>6, MirrorsItself
<1>8. OnCourse(policy) => OnCourse(policy')
  BY <1>2 DEF OnCourse
<1>9. Opened(policy) => Opened(policy')
  BY <1>2 DEF Opened, OpenFor
<1>10. Fed(policy, policy', acts)
  BY <1>2, <1>3, <1>4, <1>6, <1>7, <1>8, <1>9 DEF Fed
<1> QED
  BY <1>5, <1>6, <1>10, <1>11 DEF Feeds

UnblockedAs(profiles, s) ==
    /\ profiles \in Seq(Profile) /\ Len(profiles) = Len(policy.profiles)
    /\ \A i \in 1 .. Len(policy.profiles) :
          /\ profiles[i].ssid = policy.profiles[i].ssid
          /\ profiles[i].blocked =
                IF policy.profiles[i].ssid = s THEN FALSE ELSE policy.profiles[i].blocked
    /\ Distinct(profiles)
    /\ profiles = <<>> <=> policy.profiles = <<>>

LEMMA UnblockedFacts ==
    ASSUME PolicyOK(policy), NEW s \in Ssids, NEW profiles, profiles = Unblocked(s)
    PROVE  UnblockedAs(profiles, s)
<1>f. /\ policy \in Policy /\ policy.profiles \in Seq(Profile) /\ Len(policy.profiles) \in Nat
      /\ Distinct(policy.profiles)
  BY PolicyFields DEF PolicyOK
<1> DEFINE n == Len(policy.profiles)
           At(i) == IF policy.profiles[i].ssid = s
                    THEN [policy.profiles[i] EXCEPT !.blocked = FALSE, !.fails = 0]
                    ELSE policy.profiles[i]
<1>1. DOMAIN policy.profiles = 1 .. n
  BY <1>f
<1>2. profiles = [i \in 1 .. n |-> At(i)]
  BY <1>1 DEF Unblocked
<1>3. \A i \in 1 .. n : /\ At(i) \in Profile /\ At(i).ssid = policy.profiles[i].ssid
                        /\ At(i).blocked = IF policy.profiles[i].ssid = s THEN FALSE
                                           ELSE policy.profiles[i].blocked
  <2> TAKE i \in 1 .. n
  <2>1. policy.profiles[i] \in Profile
    BY <1>f
  <2> DEFINE r == policy.profiles[i]
  <2> HIDE DEF r
  <2>2. r \in Profile
    BY <2>1 DEF r
  <2>3. [r EXCEPT !.blocked = FALSE, !.fails = 0] \in Profile
    <3>1. 0 \in 0 .. UInt8Max /\ FALSE \in BOOLEAN
      BY PolicyAssumption
    <3> QED
      BY <2>2, <3>1 DEF Profile
  <2>4. /\ [r EXCEPT !.blocked = FALSE, !.fails = 0].ssid = r.ssid
        /\ [r EXCEPT !.blocked = FALSE, !.fails = 0].blocked = FALSE
    BY <2>2 DEF Profile
  <2> QED
    BY <2>2, <2>3, <2>4 DEF r
<1> HIDE DEF At
<1>4. profiles \in Seq(Profile) /\ Len(profiles) = n /\ \A i \in 1 .. n : profiles[i] = At(i)
  <2>1. profiles \in [1 .. n -> Profile] /\ \A i \in 1 .. n : profiles[i] = At(i)
    BY <1>2, <1>3
  <2> QED
    BY <1>f, <2>1
<1>5. \A i \in 1 .. n :
         /\ profiles[i].ssid = policy.profiles[i].ssid
         /\ profiles[i].blocked =
               IF policy.profiles[i].ssid = s THEN FALSE ELSE policy.profiles[i].blocked
  BY <1>3, <1>4
<1>6. Distinct(profiles)
  BY <1>f, <1>4, <1>5 DEF Distinct
<1>7. profiles = <<>> <=> policy.profiles = <<>>
  BY <1>f, <1>4
<1> QED
  BY <1>4, <1>5, <1>6, <1>7 DEF UnblockedAs

LEMMA UnblockActsFacts ==
    ASSUME PolicyOK(policy), NEW s \in Ssids
    PROVE  /\ Opening(UnblockActs(s))
           /\ UnblockActs(s) = <<>> \/ UnblockActs(s) = <<ActSetBlocked(s, FALSE)>>
           /\ Mirrors(Unblocked(s), policy.profiles, UnblockActs(s))
<1>f. /\ policy \in Policy /\ policy.profiles \in Seq(Profile) /\ Len(policy.profiles) \in Nat
      /\ Distinct(policy.profiles)
  BY PolicyFields DEF PolicyOK
<1>1. \A i \in 1 .. Len(policy.profiles) : policy.profiles[i].blocked \in BOOLEAN
  <2> TAKE i \in 1 .. Len(policy.profiles)
  <2>1. policy.profiles[i] \in Profile
    BY <1>f
  <2> QED
    BY <2>1 DEF Profile
<1> DEFINE profiles == Unblocked(s)
<1> HIDE DEF profiles
<1>2. /\ Len(profiles) = Len(policy.profiles)
      /\ \A i \in 1 .. Len(policy.profiles) :
            /\ profiles[i].ssid = policy.profiles[i].ssid
            /\ profiles[i].blocked =
                  IF policy.profiles[i].ssid = s THEN FALSE ELSE policy.profiles[i].blocked
  <2>1. profiles = Unblocked(s)
    BY DEF profiles
  <2>2. UnblockedAs(profiles, s)
    BY <2>1, UnblockedFacts
  <2> QED
    BY <2>2 DEF UnblockedAs
<1>3. CASE UnblockActs(s) = <<ActSetBlocked(s, FALSE)>>
  <2> DEFINE acts == <<ActSetBlocked(s, FALSE)>>
  <2>1. /\ acts \in Seq(Emitted) /\ Len(acts) = 1 /\ Edits(acts)
        /\ acts[1].act = "SetBlocked" /\ acts[1].ssid = s /\ acts[1].flag = FALSE
    <3>1. ActSetBlocked(s, FALSE) \in Emitted
      BY DEF ActSetBlocked, Emitted
    <3> QED
      BY <3>1 DEF ActSetBlocked, Edits
  <2> HIDE DEF acts
  <2>2. Opening(acts)
    BY <2>1 DEF Opening, OnlyFirstEdits
  <2>3. Mirrors(profiles, policy.profiles, acts)
    BY <1>2, <2>1 DEF Mirrors
  <2> QED
    BY <1>3, <2>2, <2>3 DEF acts, profiles
<1>4. CASE /\ UnblockActs(s) = <<>>
           /\ \A k \in PositionsOf(s) : ~policy.profiles[k + 1].blocked
  <2>1. \A i \in 1 .. Len(policy.profiles) :
            policy.profiles[i].ssid = s => policy.profiles[i].blocked = FALSE
    <3> TAKE i \in 1 .. Len(policy.profiles)
    <3> HAVE policy.profiles[i].ssid = s
    <3>1. (i - 1) + 1 = i /\ i - 1 \in 0 .. Len(policy.profiles) - 1
      BY <1>f
    <3>2. i - 1 \in PositionsOf(s)
      BY <3>1 DEF PositionsOf
    <3>3. ~policy.profiles[i].blocked
      BY <1>4, <3>1, <3>2
    <3> QED
      BY <1>1, <3>3
  <2>2. Mirrors(profiles, policy.profiles, <<>>)
    BY <1>2, <2>1 DEF Mirrors, Edits
  <2> QED
    BY <1>4, <2>2, Pieces DEF profiles
<1> QED
  BY <1>3, <1>4 DEF UnblockActs

LEMMA InTwoParts ==
    ASSUME NEW S, NEW pre \in Seq(S), NEW a \in S, NEW b \in S
    PROVE  (pre \o <<a>>) \o <<b>> = pre \o <<a, b>>
<1>1. /\ <<a>> \in Seq(S) /\ <<b>> \in Seq(S) /\ <<a, b>> \in Seq(S) /\ Len(pre) \in Nat
      /\ Len(<<a>>) = 1 /\ Len(<<b>>) = 1 /\ Len(<<a, b>>) = 2
  OBVIOUS
<1>2. <<a>> \o <<b>> = <<a, b>>
  <2>1. <<a>> \o <<b>> \in Seq(S) /\ Len(<<a>> \o <<b>>) = 2
    BY <1>1, ConcatFacts
  <2>2. \A i \in 1 .. 2 : (<<a>> \o <<b>>)[i] = <<a, b>>[i]
    OBVIOUS
  <2> QED
    BY <1>1, <2>1, <2>2, SeqEqual
<1>3. (pre \o <<a>>) \o <<b>> = pre \o (<<a>> \o <<b>>)
  BY <1>1, ConcatAssociative
<1> QED
  BY <1>2, <1>3

\* The attempt is asked for, or the end of the old association is, and awaited.
LEMMA ManualFacts ==
    ASSUME PolicyOK(policy), NEW p, PolicyOK(p), NEW s \in Ssids, NEW pre, Opening(pre),
           Mirrors(p.profiles, policy.profiles, pre),
           OnCourse(policy) => OnCourse(p),
           NEW rest \in Seq(Action), ManualAttempt(p, s, pre, rest)
    PROVE  \E acts : /\ Feeds(acts, rest)
                     /\ Has(acts, "Connect") \/ policy'.teardown
                     /\ policy'.current # Empty
                     /\ IF NeedsTeardown THEN LetsGo(policy', acts) ELSE Fresh(policy', acts)
<1>f. p \in Policy /\ pre \in Seq(Emitted) /\ Len(pre) =< 2
  BY PolicyFields DEF Opening
<1> DEFINE going == IF NeedsTeardown THEN ActDisconnect ELSE ActConnect(s, "Manual")
           event == ActEvent("Connecting", s)
           acts == <<going, event>>
<1>1. s \in SsidOrEmpty /\ s # Empty /\ "Manual" \in Origins /\ "Connecting" \in Events
  BY PolicyAssumption DEF SsidOrEmpty, Origins, Events
<1>2. going \in Emitted /\ event \in Emitted
  BY <1>1, ActsEmitted
<1>3. /\ acts \in Seq(Emitted) /\ Len(acts) = 2 /\ Len(acts) =< 2
      /\ acts[1] = going /\ acts[2].act = "EmitEvent"
  <2> HIDE DEF going, event
  <2>1. event.act = "EmitEvent"
    BY ActKinds DEF event
  <2> QED
    BY <1>2, <2>1
<1>4. (IF NeedsTeardown THEN <<ActDisconnect>> ELSE <<ActConnect(s, "Manual")>>) = <<going>>
  OBVIOUS
<1>5. /\ policy' = [p EXCEPT !.origin = "Manual", !.current = s, !.attempt = 0,
                             !.state = "Connecting", !.teardown = NeedsTeardown]
      /\ Emit((pre \o <<going>>) \o <<event>>, rest)
  BY <1>4, Zenon DEF ManualAttempt
<1>6. going.act \in {"Connect", "Disconnect"} /\ (going.act = "Connect" => going.ssid = s)
  BY ActKinds
<1>7. going.act = "Disconnect" <=> NeedsTeardown
  BY ActKinds
<1> HIDE DEF going, event
<1>8. Emit(pre \o acts, rest)
  <2>1. (pre \o <<going>>) \o <<event>> = pre \o acts
    BY <1>f, <1>2, InTwoParts
  <2> QED
    BY <1>5, <2>1
<1> HIDE DEF acts
<1>9. /\ policy'.profiles = p.profiles /\ policy'.state = "Connecting"
      /\ policy'.origin = "Manual" /\ policy'.current = s
      /\ policy'.retryKind = p.retryKind /\ policy'.cursor = p.cursor
      /\ policy'.remaining = p.remaining /\ policy'.teardown = NeedsTeardown
  BY <1>f, <1>5 DEF Policy
<1>10. PolicyOK(policy')
  <2>1. policy' \in Policy
    <3>1. 0 \in 0 .. UInt8Max /\ "Connecting" \in States /\ NeedsTeardown \in BOOLEAN
      BY PolicyAssumption DEF States, NeedsTeardown
    <3> QED
      BY <1>f, <1>1, <1>5, <3>1 DEF Policy
  <2> QED
    BY <1>9, <2>1 DEF PolicyOK
<1>11. Closing(acts) /\ ForCurrent(policy', acts)
  BY <1>3, <1>6, <1>9 DEF Closing, ForCurrent, NoCredit, Orderly, Has
<1>12. Opened(policy')
  BY <1>9 DEF Opened
<1>13. OnCourse(policy) => OnCourse(policy')
  BY <1>9 DEF OnCourse
<1>14. Mirrors(policy'.profiles, policy.profiles, pre)
  BY <1>9
<1>15. Fed(policy, policy', pre \o acts)
  BY <1>9, <1>10, <1>11, <1>12, <1>13, <1>14, CycleFed
<1>16. todo' = (pre \o acts) \o rest
  BY <1>f, <1>3, <1>8, EmitBothFacts
<1>17. NoCredit(pre \o acts)
  BY <1>11, JoinFacts
<1>18. Has(pre \o acts, "Connect") \/ policy'.teardown
  <2>1. CASE NeedsTeardown
    BY <1>9, <2>1
  <2>2. CASE ~NeedsTeardown
    <3>2. (pre \o acts)[Len(pre) + 1] = acts[1] /\ Len(pre) + 1 \in 1 .. Len(pre \o acts)
      BY <1>f, <1>3, ConcatFacts
    <3> DEFINE both == pre \o acts
    <3> HIDE DEF both
    <3>3. Has(both, "Connect")
      BY <1>3, <1>6, <1>7, <2>2, <3>2 DEF Has, both
    <3> QED
      BY <3>3 DEF both
  <2> QED
    BY <2>1, <2>2
<1>19. IF NeedsTeardown THEN LetsGo(policy', acts) ELSE Fresh(policy', acts)
  <2>1. acts = <<going, acts[2]>> /\ acts[2].act \notin Requests
    BY <1>3 DEF Requests
  <2>2. Asking(acts, going.act)
    BY <2>1, Shapes
  <2> QED
    BY <1>6, <1>7, <1>9, <1>11, <2>2 DEF LetsGo, Fresh
<1>20. IF NeedsTeardown THEN LetsGo(policy', pre \o acts) ELSE Fresh(policy', pre \o acts)
  BY <1>f, <1>3, <1>19, OpeningSays, FreshJoined
<1> QED
  BY <1>1, <1>9, <1>15, <1>16, <1>17, <1>18, <1>20 DEF Feeds

LEMMA ConnectNewFacts ==
    ASSUME PolicyOK(policy), NEW s \in Ssids, NEW rest \in Seq(Action), InConnectNew(s, rest)
    PROVE  \E acts : /\ Feeds(acts, rest)
                     /\ Has(acts, "Connect") \/ policy'.teardown
                     /\ policy'.current # Empty
                     /\ IF NeedsTeardown THEN LetsGo(policy', acts) ELSE Fresh(policy', acts)
<1>f. policy \in Policy /\ policy.current \in SsidOrEmpty
  BY PolicyFields
<1> DEFINE p == [policy EXCEPT !.fallback =
                    IF NeedsTeardown THEN policy.current ELSE NoFallback]
<1>1. /\ p.profiles = policy.profiles /\ p.current = policy.current /\ p.origin = policy.origin
      /\ p.state = policy.state /\ p.cursor = policy.cursor /\ p.remaining = policy.remaining
      /\ p.retryKind = policy.retryKind
  BY <1>f DEF Policy
<1>2. PolicyOK(p)
  <2>1. p \in Policy
    BY <1>f DEF Policy
  <2> HIDE DEF p
  <2> QED
    BY <1>1, <2>1 DEF PolicyOK
<1>3. ManualAttempt(p, s, <<>>, rest)
  BY Zenon DEF InConnectNew
<1> HIDE DEF p
<1>4. OnCourse(policy) => OnCourse(p)
  BY <1>1 DEF OnCourse
<1>5. Mirrors(p.profiles, policy.profiles, <<>>)
  BY <1>1, EmptyIsSilent, MirrorsItself
<1> QED
  BY <1>2, <1>3, <1>4, <1>5, ManualFacts, Pieces

\* The policy with another chance for the profile named s.
LEMMA ForgivenFacts ==
    ASSUME PolicyOK(policy), NEW s \in Ssids,
           NEW f \in {policy.fallback, NoFallback}, NEW p,
           p = [policy EXCEPT !.profiles = Unblocked(s), !.fallback = f]
    PROVE  /\ PolicyOK(p)
           /\ p.profiles = Unblocked(s)
           /\ p.current = policy.current /\ p.origin = policy.origin
           /\ p.state = policy.state /\ p.retryKind = policy.retryKind
           /\ p.teardown = policy.teardown
           /\ OnCourse(policy) => OnCourse(p)
           /\ Opened(policy) => Opened(p)
<1>f. /\ policy \in Policy /\ policy.fallback \in SsidOrEmpty \cup {NoFallback}
      /\ Len(policy.profiles) \in Nat /\ policy.cursor \in Nat
  BY PolicyFields
<1> DEFINE profiles == Unblocked(s)
<1>1. profiles = Unblocked(s)
  OBVIOUS
<1> HIDE DEF profiles
<1>2. UnblockedAs(profiles, s)
  BY <1>1, UnblockedFacts
<1>3. /\ p.profiles = profiles /\ p.current = policy.current /\ p.origin = policy.origin
      /\ p.state = policy.state /\ p.cursor = policy.cursor /\ p.remaining = policy.remaining
      /\ p.retryKind = policy.retryKind /\ p.teardown = policy.teardown
  BY <1>f, <1>1 DEF Policy
<1>4. p \in Policy
  BY <1>f, <1>1, <1>2 DEF Policy, UnblockedAs
<1>5. PolicyOK(p)
  BY <1>2, <1>3, <1>4 DEF PolicyOK, UnblockedAs
<1>6. OnCourse(policy) => OnCourse(p)
  <2>1. policy.cursor < Len(policy.profiles) =>
            policy.cursor + 1 \in 1 .. Len(policy.profiles)
    BY <1>f
  <2> QED
    BY <1>2, <1>3, <2>1 DEF OnCourse, UnblockedAs
<1>7. Opened(policy) => Opened(p)
  <2> SUFFICES ASSUME OpenFor(policy, policy.current)
               PROVE  OpenFor(p, p.current)
    BY <1>3 DEF Opened
  <2>1. \A i \in 1 .. Len(policy.profiles) :
            policy.profiles[i].ssid = policy.current => ~policy.profiles[i].blocked
    BY DEF OpenFor
  <2>2. \A i \in 1 .. Len(profiles) :
            profiles[i].ssid = policy.current => ~profiles[i].blocked
    BY <1>2, <2>1 DEF UnblockedAs
  <2> QED
    BY <1>3, <2>2 DEF OpenFor
<1> QED
  BY <1>1, <1>3, <1>5, <1>6, <1>7

LEMMA ConnectSavedFacts ==
    ASSUME PolicyOK(policy), NEW s \in Ssids, NEW rest \in Seq(Action), InConnectSaved(s, rest)
    PROVE  \E acts : /\ Feeds(acts, rest)
                     /\ Has(acts, "Connect") \/ policy'.teardown
                     /\ policy'.current # Empty
                     /\ IF NeedsTeardown THEN LetsGo(policy', acts) ELSE Fresh(policy', acts)
<1> DEFINE p == [policy EXCEPT !.profiles = Unblocked(s), !.fallback = NoFallback]
           f == NoFallback
<1>1. ManualAttempt(p, s, UnblockActs(s), rest)
  BY Zenon DEF InConnectSaved
<1>2. p = [policy EXCEPT !.profiles = Unblocked(s), !.fallback = f]
      /\ f \in {policy.fallback, NoFallback}
  OBVIOUS
<1> HIDE DEF p, f
<1>3. PolicyOK(p) /\ p.profiles = Unblocked(s) /\ (OnCourse(policy) => OnCourse(p))
  BY <1>2, ForgivenFacts
<1>4. /\ Opening(UnblockActs(s))
      /\ Mirrors(p.profiles, policy.profiles, UnblockActs(s))
  BY <1>3, UnblockActsFacts
<1> QED
  BY <1>1, <1>3, <1>4, ManualFacts

\* A corrected password: nothing goes on that did not before.
LEMMA UpdatePasswordFacts ==
    ASSUME PolicyOK(policy), NEW s \in Ssids, NEW rest \in Seq(Action), InUpdatePassword(s, rest)
    PROVE  \E acts : /\ Feeds(acts, rest)
                     /\ acts = <<>> \/ acts = <<ActSetBlocked(s, FALSE)>>
                     /\ policy'.state = policy.state /\ policy'.current = policy.current
                     /\ policy'.retryKind = policy.retryKind /\ policy'.teardown = policy.teardown
<1>f. policy \in Policy
  BY PolicyFields
<1> DEFINE f == policy.fallback
           acts == UnblockActs(s)
<1>1. policy' = [policy EXCEPT !.profiles = Unblocked(s), !.fallback = f]
      /\ f \in {policy.fallback, NoFallback}
  BY <1>f DEF InUpdatePassword, Policy
<1>2. /\ PolicyOK(policy') /\ policy'.profiles = Unblocked(s)
      /\ policy'.current = policy.current
      /\ policy'.state = policy.state /\ policy'.retryKind = policy.retryKind
      /\ policy'.teardown = policy.teardown
      /\ OnCourse(policy) => OnCourse(policy')
      /\ Opened(policy) => Opened(policy')
  <2> HIDE DEF f
  <2> QED
    BY <1>1, ForgivenFacts
<1>3. /\ Opening(acts) /\ Mirrors(policy'.profiles, policy.profiles, acts)
      /\ acts = <<>> \/ acts = <<ActSetBlocked(s, FALSE)>>
  BY <1>2, UnblockActsFacts
<1>4. Emit(acts, rest)
  BY DEF InUpdatePassword
<1> HIDE DEF acts
<1>5. acts \in Seq(Emitted) /\ Len(acts) =< 4 /\ Len(acts) =< 1
  <2> DEFINE a == ActSetBlocked(s, FALSE)
  <2>1. acts = <<>> \/ acts = <<a>>
    BY <1>3
  <2> HIDE DEF a
  <2>2. Len(acts) =< 1 /\ Len(acts) =< 4
    <3>1. Len(<<>>) = 0 /\ Len(<<a>>) = 1
      OBVIOUS
    <3>2. \A n \in {0, 1} : n =< 1 /\ n =< 4
      OBVIOUS
    <3> QED
      BY <2>1, <3>1, <3>2
  <2> QED
    BY <1>3, <2>2 DEF Opening
<1>6. todo' = acts \o rest
  BY <1>4, <1>5, EmitFacts
<1>7. OnlyFirstEdits(acts) /\ NoCredit(acts) /\ Orderly(acts) /\ ForCurrent(policy', acts)
  BY <1>3, <1>5 DEF Opening, OnlyFirstEdits, NoCredit, Orderly, ForCurrent
<1>8. Fed(policy, policy', acts)
  BY <1>2, <1>3, <1>5, <1>7 DEF Fed
<1> QED
  BY <1>2, <1>3, <1>6, <1>7, <1>8 DEF Feeds

\* The user gives up what is going on.
LEMMA GivenUpFacts ==
    ASSUME PolicyOK(policy), PolicyOK(policy'), NEW rest \in Seq(Action), NEW acts,
           policy'.state = "Ready", policy'.profiles = policy.profiles,
           policy'.cursor = policy.cursor, policy'.remaining = policy.remaining,
           policy'.retryKind \in {policy.retryKind, "None"},
           \/ acts = <<>>
           \/ acts = <<ActDisconnect>>
           \/ \E s \in SsidOrEmpty : acts = <<ActDisconnect, ActEvent("Disconnected", s)>>,
           Emit(acts, rest)
    PROVE  Feeds(acts, rest)
<1>1. /\ acts \in Seq(Emitted) /\ Len(acts) =< 4
      /\ \A i \in 1 .. Len(acts) : acts[i].act \in {"Disconnect", "EmitEvent"}
  <2>1. ActDisconnect \in Emitted /\ ActDisconnect.act = "Disconnect"
    BY ActsEmitted, ActKinds
  <2>2. CASE acts = <<>>
    BY <2>2
  <2>3. CASE acts = <<ActDisconnect>>
    BY <2>1, <2>3
  <2>4. ASSUME NEW s \in SsidOrEmpty, acts = <<ActDisconnect, ActEvent("Disconnected", s)>>
        PROVE  /\ acts \in Seq(Emitted) /\ Len(acts) =< 4
               /\ \A i \in 1 .. Len(acts) : acts[i].act \in {"Disconnect", "EmitEvent"}
    <3> DEFINE e == ActEvent("Disconnected", s)
    <3>1. e \in Emitted /\ e.act = "EmitEvent"
      BY ActsEmitted, ActKinds DEF Events
    <3>2. acts = <<ActDisconnect, e>>
      BY <2>4
    <3> HIDE DEF e
    <3> QED
      BY <2>1, <3>1, <3>2
  <2> QED
    BY <2>2, <2>3, <2>4
<1>3. todo' = acts \o rest
  BY <1>1, EmitFacts
<1>4. /\ OnlyFirstEdits(acts) /\ NoCredit(acts) /\ Orderly(acts) /\ ForCurrent(policy', acts)
      /\ ~Edits(acts)
  <2>1. OnlyFirstEdits(acts) /\ NoCredit(acts) /\ ForCurrent(policy', acts)
    BY <1>1 DEF OnlyFirstEdits, NoCredit, ForCurrent
  <2>2. Orderly(acts)
    BY <1>1 DEF Orderly
  <2>3. ~Edits(acts)
    BY <1>1 DEF Edits
  <2> QED
    BY <2>1, <2>2, <2>3
<1>5. Mirrors(policy'.profiles, policy.profiles, acts)
  BY <1>4, MirrorsItself
<1>6. Opened(policy')
  BY DEF Opened, PolicyOK
<1>7. OnCourse(policy) => OnCourse(policy')
  BY DEF OnCourse, PolicyOK
<1>8. Fed(policy, policy', acts)
  BY <1>1, <1>4, <1>5, <1>6, <1>7 DEF Fed
<1> QED
  BY <1>3, <1>4, <1>8 DEF Feeds

LEMMA HaltedFacts ==
    ASSUME PolicyOK(policy)
    PROVE  /\ PolicyOK(Halted) /\ Halted.state = "Ready" /\ Halted.profiles = policy.profiles
           /\ Halted.cursor = policy.cursor /\ Halted.remaining = policy.remaining
           /\ Halted.retryKind = "None" /\ ~Halted.teardown /\ Halted.current = Empty
<1>f. policy \in Policy
  BY PolicyFields
<1> DEFINE p == Halted
<1>1. /\ p.state = "Ready" /\ p.profiles = policy.profiles /\ p.origin = "None"
      /\ p.cursor = policy.cursor /\ p.remaining = policy.remaining
      /\ p.retryKind = "None" /\ ~p.teardown /\ p.current = Empty
  BY <1>f DEF Policy, Halted
<1>2. p \in Policy
  <2>1. /\ "Ready" \in States /\ "None" \in Origins /\ "None" \in RetryKinds
        /\ Empty \in SsidOrEmpty /\ FALSE \in BOOLEAN /\ NoFallback \in SsidOrEmpty \cup {NoFallback}
    BY DEF States, Origins, RetryKinds, SsidOrEmpty
  <2> QED
    BY <1>f, <2>1 DEF Policy, Halted
<1> HIDE DEF p
<1>3. PolicyOK(p)
  BY <1>1, <1>2 DEF PolicyOK
<1> QED
  BY <1>1, <1>3 DEF p

LEMMA DisconnectFacts ==
    ASSUME PolicyOK(policy), NEW rest \in Seq(Action), InDisconnect(rest)
    PROVE  /\ policy'.state = "Ready"
           /\ \E acts : /\ Feeds(acts, rest)
                        /\ IF NeedsTeardown THEN LetsGo(policy', acts) ELSE Fresh(policy', acts)
<1>1. PICK acts : /\ acts = IF NeedsTeardown
                            THEN <<ActDisconnect, ActEvent("Disconnected", policy.current)>>
                            ELSE <<>>
                  /\ Emit(acts, rest)
  BY Zenon DEF InDisconnect
<1>2. policy' = Halted /\ policy.current \in SsidOrEmpty
  BY PolicyFields DEF InDisconnect
<1>3. \/ acts = <<>>
      \/ \E s \in SsidOrEmpty : acts = <<ActDisconnect, ActEvent("Disconnected", s)>>
  BY <1>1, <1>2
<1>4. IF NeedsTeardown THEN LetsGo(policy', acts) ELSE Fresh(policy', acts)
  BY <1>1, <1>2, HaltedFacts, Turns
<1> QED
  BY <1>1, <1>2, <1>3, <1>4, HaltedFacts, GivenUpFacts

LEMMA PauseFacts ==
    ASSUME PolicyOK(policy), NEW rest \in Seq(Action), InPause(rest)
    PROVE  \/ policy.state = "Connected" /\ Ignored(rest)
           \/ /\ policy'.state = "Ready"
              /\ \E acts : /\ Feeds(acts, rest)
                           /\ IF NeedsTeardown THEN LetsGo(policy', acts)
                              ELSE Fresh(policy', acts)
<1>1. CASE ~(policy.state = "Connected" /\ Ignored(rest))
  <2>1. PICK acts : /\ acts = IF NeedsTeardown THEN <<ActDisconnect>> ELSE <<>>
                    /\ Emit(acts, rest)
    BY <1>1, Zenon DEF InPause
  <2>2. policy' = Halted
    BY <1>1, Zenon DEF InPause
  <2>3. acts = <<>> \/ acts = <<ActDisconnect>>
    BY <2>1
  <2>4. IF NeedsTeardown THEN LetsGo(policy', acts) ELSE Fresh(policy', acts)
    BY <2>1, <2>2, HaltedFacts, Turns
  <2> QED
    BY <2>1, <2>2, <2>3, <2>4, HaltedFacts, GivenUpFacts
<1> QED
  BY <1>1

LEMMA ForgetFacts ==
    ASSUME PolicyOK(policy), NEW s \in Ssids, NEW rest \in Seq(Action), InForget(s, rest)
    PROVE  \/ Ignored(rest)
           \/ policy'.state = "Ready" /\ \E acts : Feeds(acts, rest) /\ LetsGo(policy', acts)
<1>f. policy \in Policy
  BY PolicyFields
<1>1. CASE ~Ignored(rest)
  <2>1. /\ policy' = [policy EXCEPT !.state = "Ready", !.origin = "None", !.current = Empty,
                                    !.teardown = FALSE]
        /\ Emit(<<ActDisconnect>>, rest)
    BY <1>1, Zenon DEF InForget
  <2>2. /\ policy'.state = "Ready" /\ policy'.profiles = policy.profiles
        /\ policy'.origin = "None" /\ policy'.cursor = policy.cursor
        /\ policy'.remaining = policy.remaining /\ policy'.retryKind = policy.retryKind
        /\ ~policy'.teardown /\ policy'.current = Empty
    BY <1>f, <2>1 DEF Policy
  <2>3. policy' \in Policy
    BY <1>f, <2>1 DEF Policy, States, Origins, SsidOrEmpty
  <2>4. PolicyOK(policy')
    BY <2>2, <2>3 DEF PolicyOK
  <2> DEFINE acts == <<ActDisconnect>>
  <2>5. acts = <<ActDisconnect>> /\ Emit(acts, rest)
    BY <2>1
  <2>6. LetsGo(policy', acts)
    BY <2>2, Turns
  <2> HIDE DEF acts
  <2> QED
    BY <2>2, <2>4, <2>5, <2>6, GivenUpFacts
<1> QED
  BY <1>1

-----------------------------------------------------------------------------
(* The records in the order they are tried.                                *)

LEMMA PositionFacts ==
    ASSUME NEW recs, Len(recs) \in Nat, NEW s
    PROVE  /\ PositionOf(recs, s) \in 0 .. Len(recs)
           /\ PositionOf(recs, s) # 0 => recs[PositionOf(recs, s)].ssid = s
           /\ (\E i \in 1 .. Len(recs) : recs[i].ssid = s) <=> PositionOf(recs, s) # 0
<1>1. CASE \E i \in 1 .. Len(recs) : recs[i].ssid = s
  <2>1. PositionOf(recs, s) = CHOOSE i \in 1 .. Len(recs) : recs[i].ssid = s
    BY <1>1 DEF PositionOf
  <2>2. PositionOf(recs, s) \in 1 .. Len(recs) /\ recs[PositionOf(recs, s)].ssid = s
    BY <1>1, <2>1
  <2> QED
    BY <1>1, <2>2
<1>2. CASE ~\E i \in 1 .. Len(recs) : recs[i].ssid = s
  BY <1>2 DEF PositionOf
<1> QED
  BY <1>1, <1>2

\* Records are found by their SSID alone.
LEMMA PositionBySsid ==
    ASSUME NEW recs, Len(recs) \in Nat, Distinct(recs), NEW others, Len(others) = Len(recs),
           \A i \in 1 .. Len(recs) : others[i].ssid = recs[i].ssid, NEW s
    PROVE  PositionOf(others, s) = PositionOf(recs, s)
<1>1. /\ PositionOf(recs, s) \in 0 .. Len(recs)
      /\ PositionOf(recs, s) # 0 => recs[PositionOf(recs, s)].ssid = s
      /\ (\E i \in 1 .. Len(recs) : recs[i].ssid = s) <=> PositionOf(recs, s) # 0
  BY PositionFacts
<1>2. /\ PositionOf(others, s) \in 0 .. Len(others)
      /\ PositionOf(others, s) # 0 => others[PositionOf(others, s)].ssid = s
      /\ (\E i \in 1 .. Len(others) : others[i].ssid = s) <=> PositionOf(others, s) # 0
  BY PositionFacts
<1> DEFINE p == PositionOf(recs, s)
           q == PositionOf(others, s)
<1> HIDE DEF p, q
<1>3. /\ p \in 0 .. Len(recs) /\ (p # 0 => recs[p].ssid = s)
      /\ (\E i \in 1 .. Len(recs) : recs[i].ssid = s) <=> p # 0
  BY <1>1 DEF p
<1>4. /\ q \in 0 .. Len(recs) /\ (q # 0 => recs[q].ssid = s)
      /\ (\E i \in 1 .. Len(recs) : recs[i].ssid = s) <=> q # 0
  BY <1>2 DEF q
<1>5. p = q
  BY <1>3, <1>4 DEF Distinct
<1> QED
  BY <1>5 DEF p, q

\* Which record is tried as the i-th, when the one at `first` comes first.
OrderAt(first, i) == IF i > first THEN i ELSE IF i = 1 THEN first ELSE i - 1

LEMMA OrderFacts ==
    ASSUME NEW recs \in Seq(Record), NEW last
    PROVE  /\ AutoconnectOrder(recs, last) \in Seq(Record)
           /\ Len(AutoconnectOrder(recs, last)) = Len(recs)
           /\ \A i \in 1 .. Len(recs) :
                 /\ OrderAt(PositionOf(recs, last), i) \in 1 .. Len(recs)
                 /\ AutoconnectOrder(recs, last)[i] = recs[OrderAt(PositionOf(recs, last), i)]
           /\ Distinct(recs) => Distinct(AutoconnectOrder(recs, last))
<1> DEFINE n == Len(recs)
           first == PositionOf(recs, last)
           ordered == AutoconnectOrder(recs, last)
<1>1. n \in Nat /\ first \in 0 .. n
  BY PositionFacts
<1>2. ordered = [i \in 1 .. n |-> IF i > first THEN recs[i]
                                  ELSE IF i = 1 THEN recs[first] ELSE recs[i - 1]]
  BY Zenon DEF AutoconnectOrder
<1> HIDE DEF first, ordered
<1>3. \A i \in 1 .. n : OrderAt(first, i) \in 1 .. n
  BY <1>1 DEF OrderAt
<1>4. ordered = [i \in 1 .. n |-> recs[OrderAt(first, i)]]
  BY <1>1, <1>2 DEF OrderAt
<1>5. ordered \in [1 .. n -> Record] /\ \A i \in 1 .. n : ordered[i] = recs[OrderAt(first, i)]
  BY <1>3, <1>4
<1>6. ordered \in Seq(Record) /\ Len(ordered) = n
  BY <1>1, <1>5
<1>7. \A i, j \in 1 .. n : OrderAt(first, i) = OrderAt(first, j) => i = j
  BY <1>1 DEF OrderAt
<1>8. Distinct(recs) => Distinct(ordered)
  <2> SUFFICES ASSUME Distinct(recs), NEW i \in 1 .. n, NEW j \in 1 .. n,
                      ordered[i].ssid = ordered[j].ssid
               PROVE  i = j
    BY <1>6 DEF Distinct
  <2> DEFINE x == OrderAt(first, i)
             y == OrderAt(first, j)
  <2>1. x \in 1 .. n /\ y \in 1 .. n /\ ordered[i] = recs[x] /\ ordered[j] = recs[y]
    BY <1>3, <1>5
  <2> HIDE DEF x, y
  <2>2. x = y
    BY <2>1 DEF Distinct
  <2> QED
    BY <1>7, <2>2 DEF x, y
<1> QED
  BY <1>3, <1>5, <1>6, <1>8 DEF first, ordered

\* Records that are the same but for their flags come in the same order.
SameSsids(recs, others) ==
    /\ Len(others) = Len(recs)
    /\ \A i \in 1 .. Len(recs) : others[i].ssid = recs[i].ssid

LEMMA SameOrder ==
    ASSUME NEW recs \in Seq(Record), Distinct(recs), NEW others \in Seq(Record),
           SameSsids(recs, others), NEW last
    PROVE  \A i \in 1 .. Len(recs) : \E j \in 1 .. Len(recs) :
              /\ AutoconnectOrder(recs, last)[i] = recs[j]
              /\ AutoconnectOrder(others, last)[i] = others[j]
<1>0. /\ Len(others) = Len(recs) /\ Len(recs) \in Nat
      /\ \A i \in 1 .. Len(recs) : others[i].ssid = recs[i].ssid
  BY DEF SameSsids
<1>1. PositionOf(others, last) = PositionOf(recs, last)
  BY <1>0, PositionBySsid
<1> DEFINE f == PositionOf(recs, last)
<1> HIDE DEF f
<1>2. \A i \in 1 .. Len(recs) : /\ OrderAt(f, i) \in 1 .. Len(recs)
                                /\ AutoconnectOrder(recs, last)[i] = recs[OrderAt(f, i)]
  BY OrderFacts DEF f
<1>3. \A i \in 1 .. Len(others) : AutoconnectOrder(others, last)[i] = others[OrderAt(f, i)]
  <2>1. PositionOf(others, last) = f
    BY <1>1 DEF f
  <2> QED
    BY <2>1, OrderFacts, Zenon
<1> QED
  BY <1>0, <1>2, <1>3

DbOK(d) == d \in Db /\ WellFormed(d)

\* What the policy is told of the database.
Order(d) == AutoconnectOrder(d.recs, d.last)

LEMMA DbFields ==
    ASSUME NEW d, DbOK(d)
    PROVE  /\ d \in Db /\ d.recs \in Seq(Record) /\ d.last \in SsidOrEmpty
           /\ Len(d.recs) \in 0 .. MaxProfiles /\ Distinct(d.recs)
BY ManagerAssumption DEF DbOK, Db, WellFormed, Distinct

LEMMA SetProfilesFacts ==
    ASSUME PolicyOK(policy), NEW d, DbOK(d), SetProfiles(d.recs, d.last)
    PROVE  /\ PolicyOK(policy')
           /\ Mirrors(policy'.profiles, Order(d), <<>>)
           /\ policy'.state = policy.state /\ policy'.origin = policy.origin
           /\ policy'.current = policy.current /\ policy'.retryKind = "None"
           /\ policy'.teardown = policy.teardown
<1>f. policy \in Policy
  BY PolicyFields
<1> DEFINE n == Len(d.recs)
           ordered == Order(d)
           At(i) == [ssid |-> ordered[i].ssid, blocked |-> ordered[i].blocked, fails |-> 0]
           profiles == [i \in 1 .. Len(ordered) |-> At(i)]
<1>1. /\ ordered \in Seq(Record) /\ Len(ordered) = n /\ Distinct(ordered)
      /\ n \in 0 .. MaxProfiles
  BY DbFields, OrderFacts DEF Order
<1>2. policy' = [policy EXCEPT !.profiles = profiles, !.cursor = 0, !.remaining = 0,
                               !.retryKind = "None"]
  BY Zenon DEF SetProfiles, Order
<1> HIDE DEF ordered
<1>3. \A i \in 1 .. n : At(i) \in Profile
  <2> TAKE i \in 1 .. n
  <2>1. ordered[i] \in Record
    BY <1>1
  <2> QED
    BY <2>1, PolicyAssumption DEF Record, Profile
<1>4. /\ profiles \in [1 .. n -> Profile]
      /\ \A i \in 1 .. n : profiles[i].ssid = ordered[i].ssid
                           /\ profiles[i].blocked = ordered[i].blocked
  BY <1>1, <1>3
<1> HIDE DEF profiles
<1>5. profiles \in Seq(Profile) /\ Len(profiles) = n
  BY <1>1, <1>4
<1>6. /\ policy'.profiles = profiles /\ policy'.cursor = 0 /\ policy'.state = policy.state
      /\ policy'.origin = policy.origin /\ policy'.current = policy.current
      /\ policy'.retryKind = "None" /\ policy'.teardown = policy.teardown
  BY <1>f, <1>2 DEF Policy
<1>7. Distinct(profiles)
  BY <1>1, <1>4, <1>5 DEF Distinct
<1>8. Mirrors(profiles, ordered, <<>>)
  BY <1>1, <1>4, <1>5, EmptyIsSilent DEF Mirrors
<1>9. PolicyOK(policy')
  <2>1. policy' \in Policy
    <3>1. 0 \in 0 .. UInt8Max /\ 0 \in Nat /\ "None" \in RetryKinds
      BY PolicyAssumption DEF RetryKinds
    <3> QED
      BY <1>f, <1>2, <1>5, <3>1 DEF Policy
  <2>2. 0 < Len(profiles) \/ profiles = <<>>
    BY <1>1, <1>5
  <2> QED
    BY <1>1, <1>5, <1>6, <1>7, <2>1, <2>2 DEF PolicyOK
<1> QED
  BY <1>6, <1>8, <1>9 DEF ordered

\* Every record has its turn.
LEMMA OrderHasAll ==
    ASSUME NEW recs \in Seq(Record), NEW last, NEW k \in 1 .. Len(recs)
    PROVE  \E i \in 1 .. Len(recs) : AutoconnectOrder(recs, last)[i] = recs[k]
<1> DEFINE first == PositionOf(recs, last)
           i == IF k > first THEN k ELSE IF k = first THEN 1 ELSE k + 1
<1>1. Len(recs) \in Nat /\ first \in 0 .. Len(recs)
  BY PositionFacts
<1>2. \A x \in 1 .. Len(recs) : AutoconnectOrder(recs, last)[x] = recs[OrderAt(first, x)]
  BY OrderFacts
<1> HIDE DEF first
<1>3. i \in 1 .. Len(recs) /\ OrderAt(first, i) = k
  BY <1>1 DEF OrderAt
<1> HIDE DEF i
<1> QED
  BY <1>2, <1>3

LEMMA RecordOfFacts ==
    ASSUME DbOK(db), NEW s, Known(db, s)
    PROVE  /\ RecordOf(s) \in Record /\ RecordOf(s).ssid = s
           /\ \A i \in 1 .. Len(db.recs) : db.recs[i].ssid = s => db.recs[i] = RecordOf(s)
<1>1. /\ db.recs \in Seq(Record) /\ Distinct(db.recs) /\ Len(db.recs) \in Nat
      /\ DOMAIN db.recs = 1 .. Len(db.recs)
  BY DbFields
<1> DEFINE p == PositionOf(db.recs, s)
<1>2. p \in 0 .. Len(db.recs) /\ p # 0 /\ db.recs[p].ssid = s
  BY <1>1, PositionFacts DEF Known
<1>3. RecordOf(s) = db.recs[p]
  BY DEF RecordOf
<1> HIDE DEF p
<1>4. p \in 1 .. Len(db.recs) /\ db.recs[p] \in Record
  BY <1>1, <1>2
<1> QED
  BY <1>1, <1>2, <1>3, <1>4, Zenon DEF Distinct

\* The records with the one named s replaced.
ReplacedAs(recs, s, r) ==
    /\ recs \in Seq(Record) /\ Len(recs) = Len(db.recs) /\ Distinct(recs)
    /\ \A i \in 1 .. Len(db.recs) :
          /\ recs[i] = IF db.recs[i].ssid = s THEN r ELSE db.recs[i]
          /\ recs[i].ssid = db.recs[i].ssid

LEMMA ReplacedFacts ==
    ASSUME DbOK(db), NEW s, NEW r, Known(db, s) => r \in Record /\ r.ssid = s,
           NEW recs, recs = Replaced(s, r)
    PROVE  ReplacedAs(recs, s, r)
<1>1. /\ db.recs \in Seq(Record) /\ Distinct(db.recs) /\ Len(db.recs) \in Nat
      /\ DOMAIN db.recs = 1 .. Len(db.recs)
  BY DbFields
<1> DEFINE n == Len(db.recs)
           At(i) == IF db.recs[i].ssid = s THEN r ELSE db.recs[i]
<1>2. recs = [i \in 1 .. n |-> At(i)]
  BY <1>1 DEF Replaced
<1>3. \A i \in 1 .. n : At(i) \in Record /\ At(i).ssid = db.recs[i].ssid
  BY <1>1 DEF Known
<1>4. recs \in [1 .. n -> Record] /\ \A i \in 1 .. n : recs[i] = At(i)
  BY <1>2, <1>3
<1>5. recs \in Seq(Record) /\ Len(recs) = n
  BY <1>1, <1>4
<1>6. Distinct(recs)
  BY <1>1, <1>3, <1>4, <1>5 DEF Distinct
<1> QED
  BY <1>3, <1>4, <1>5, <1>6 DEF ReplacedAs

\* A change of flags or passwords keeps the database well-formed.
LEMMA EditedFacts ==
    ASSUME DbOK(db), NEW recs \in Seq(Record), Len(recs) = Len(db.recs), Distinct(recs),
           NEW d, d = [db EXCEPT !.recs = recs]
    PROVE  DbOK(d) /\ d.recs = recs /\ d.last = db.last
<1>1. db \in Db /\ Len(db.recs) \in 0 .. MaxProfiles
  BY DbFields
<1>2. d \in Db /\ d.recs = recs /\ d.last = db.last
  BY <1>1 DEF Db
<1> QED
  BY <1>1, <1>2 DEF DbOK, WellFormed, Distinct

\* set_profile_blocked_and_save() makes the change that was at hand.
LEMMA SetBlockedFacts ==
    ASSUME DbOK(db), NEW profiles, NEW acts, Mirrors(profiles, Order(db), acts),
           Edits(acts), NEW s, s = acts[1].ssid, NEW b \in BOOLEAN, b = acts[1].flag,
           NEW d, d = [db EXCEPT !.recs = Replaced(s, [RecordOf(s) EXCEPT !.blocked = b])]
    PROVE  DbOK(d) /\ Mirrors(profiles, Order(d), <<>>)
<1> DEFINE r == [RecordOf(s) EXCEPT !.blocked = b]
           recs == Replaced(s, r)
           n == Len(db.recs)
<1>1. /\ db.recs \in Seq(Record) /\ Distinct(db.recs) /\ n \in Nat
  BY DbFields
<1>2. Known(db, s) => r \in Record /\ r.ssid = s /\ r.blocked = b
  <2> SUFFICES ASSUME Known(db, s)
               PROVE  r \in Record /\ r.ssid = s /\ r.blocked = b
    OBVIOUS
  <2> DEFINE old == RecordOf(s)
  <2>1. old \in Record /\ old.ssid = s
    BY RecordOfFacts
  <2> HIDE DEF old
  <2>2. [old EXCEPT !.blocked = b] \in Record /\ [old EXCEPT !.blocked = b].ssid = s
        /\ [old EXCEPT !.blocked = b].blocked = b
    BY <2>1 DEF Record
  <2> QED
    BY <2>2 DEF old
<1>3. d = [db EXCEPT !.recs = recs]
  OBVIOUS
<1>a. recs = Replaced(s, r)
  OBVIOUS
<1> HIDE DEF r, recs
<1>4. /\ recs \in Seq(Record) /\ Len(recs) = n /\ Distinct(recs)
      /\ \A i \in 1 .. n :
            /\ recs[i] = IF db.recs[i].ssid = s THEN r ELSE db.recs[i]
            /\ recs[i].ssid = db.recs[i].ssid
  <2>1. ReplacedAs(recs, s, r)
    BY <1>2, <1>a, ReplacedFacts
  <2> QED
    BY <2>1 DEF ReplacedAs
<1>5. DbOK(d) /\ d.recs = recs /\ d.last = db.last
  <2>1. /\ recs \in Seq(Record) /\ Len(recs) = Len(db.recs) /\ Distinct(recs)
        /\ d = [db EXCEPT !.recs = recs]
    BY <1>3, <1>4
  <2> QED
    BY <2>1, EditedFacts, Zenon
<1> DEFINE old == Order(db)
           new == Order(d)
<1>6. Len(old) = n /\ Len(new) = n
  BY <1>1, <1>4, <1>5, OrderFacts DEF Order
<1>7. \A i \in 1 .. n : \E j \in 1 .. n : old[i] = db.recs[j] /\ new[i] = recs[j]
  <2>1. \A i \in 1 .. Len(db.recs) : \E j \in 1 .. Len(db.recs) :
           /\ AutoconnectOrder(db.recs, db.last)[i] = db.recs[j]
           /\ AutoconnectOrder(recs, db.last)[i] = recs[j]
    <3>1. SameSsids(db.recs, recs) /\ recs \in Seq(Record)
      BY <1>4 DEF SameSsids
    <3> QED
      BY <1>1, <3>1, SameOrder
  <2> QED
    BY <1>5, <2>1 DEF Order
<1>8. \A j \in 1 .. n : db.recs[j].ssid = s => Known(db, s)
  BY <1>1 DEF Known
<1> HIDE DEF old, new
<1>9. \A i \in 1 .. n : /\ new[i].ssid = old[i].ssid
                        /\ new[i].blocked = IF old[i].ssid = s THEN b ELSE old[i].blocked
  BY <1>2, <1>4, <1>7, <1>8
<1>10. Mirrors(profiles, old, acts)
  BY DEF old
<1>11. Mirrors(profiles, new, <<>>)
  BY <1>6, <1>9, <1>10, EmptyIsSilent DEF Mirrors
<1> QED
  BY <1>5, <1>11 DEF new

\* A new password changes nothing the policy knows of.
LEMMA PasswordFacts ==
    ASSUME DbOK(db), NEW s, NEW pw \in Esp!Passwords,
           NEW d, d = [db EXCEPT !.recs = Replaced(s, [RecordOf(s) EXCEPT !.pw = pw])],
           NEW profiles, NEW acts, Mirrors(profiles, Order(db), acts)
    PROVE  DbOK(d) /\ Mirrors(profiles, Order(d), acts)
<1> DEFINE r == [RecordOf(s) EXCEPT !.pw = pw]
           recs == Replaced(s, r)
           n == Len(db.recs)
<1>1. /\ db.recs \in Seq(Record) /\ Distinct(db.recs) /\ n \in Nat
  BY DbFields
<1>2. Known(db, s) => /\ r \in Record /\ r.ssid = s /\ r.blocked = RecordOf(s).blocked
  <2> SUFFICES ASSUME Known(db, s)
               PROVE  r \in Record /\ r.ssid = s /\ r.blocked = RecordOf(s).blocked
    OBVIOUS
  <2> DEFINE old == RecordOf(s)
  <2>1. old \in Record /\ old.ssid = s
    BY RecordOfFacts
  <2> HIDE DEF old
  <2>2. [old EXCEPT !.pw = pw] \in Record /\ [old EXCEPT !.pw = pw].ssid = s
        /\ [old EXCEPT !.pw = pw].blocked = old.blocked
    BY <2>1 DEF Record
  <2> QED
    BY <2>2 DEF old
<1>3. d = [db EXCEPT !.recs = recs] /\ recs = Replaced(s, r)
  OBVIOUS
<1> HIDE DEF r, recs
<1>4. /\ recs \in Seq(Record) /\ Len(recs) = n /\ Distinct(recs)
      /\ \A i \in 1 .. n :
            /\ recs[i] = IF db.recs[i].ssid = s THEN r ELSE db.recs[i]
            /\ recs[i].ssid = db.recs[i].ssid
  <2>1. ReplacedAs(recs, s, r)
    BY <1>2, <1>3, ReplacedFacts
  <2> QED
    BY <2>1 DEF ReplacedAs
<1>5. DbOK(d) /\ d.recs = recs /\ d.last = db.last
  <2>1. /\ recs \in Seq(Record) /\ Len(recs) = Len(db.recs) /\ Distinct(recs)
        /\ d = [db EXCEPT !.recs = recs]
    BY <1>3, <1>4
  <2> QED
    BY <2>1, EditedFacts, Zenon
<1> DEFINE old == Order(db)
           new == Order(d)
<1>6. Len(old) = n /\ Len(new) = n
  BY <1>1, <1>4, <1>5, OrderFacts DEF Order
<1>7. \A i \in 1 .. n : \E j \in 1 .. n : old[i] = db.recs[j] /\ new[i] = recs[j]
  <2>1. \A i \in 1 .. Len(db.recs) : \E j \in 1 .. Len(db.recs) :
           /\ AutoconnectOrder(db.recs, db.last)[i] = db.recs[j]
           /\ AutoconnectOrder(recs, db.last)[i] = recs[j]
    <3>1. SameSsids(db.recs, recs) /\ recs \in Seq(Record)
      BY <1>4 DEF SameSsids
    <3> QED
      BY <1>1, <3>1, SameOrder
  <2> QED
    BY <1>5, <2>1 DEF Order
<1>8. \A j \in 1 .. n : db.recs[j].ssid = s => Known(db, s) /\ db.recs[j] = RecordOf(s)
  <2>1. DOMAIN db.recs = 1 .. n
    BY <1>1
  <2> QED
    BY <2>1, RecordOfFacts DEF Known
<1> HIDE DEF old, new
<1>9. \A i \in 1 .. n : new[i].ssid = old[i].ssid /\ new[i].blocked = old[i].blocked
  <2> TAKE i \in 1 .. n
  <2>1. PICK j \in 1 .. n : old[i] = db.recs[j] /\ new[i] = recs[j]
    BY <1>7
  <2>2. recs[j].ssid = db.recs[j].ssid /\ recs[j].blocked = db.recs[j].blocked
    BY <1>2, <1>4, <1>8
  <2> QED
    BY <2>1, <2>2
<1>10. Mirrors(profiles, old, acts)
  BY DEF old
<1>11. Mirrors(profiles, new, acts)
  BY <1>6, <1>9, <1>10 DEF Mirrors
<1> QED
  BY <1>5, <1>11 DEF new

\* The record named s is not blocked, if there is one.
OpenRecs(recs, s) == \A i \in 1 .. Len(recs) : recs[i].ssid = s => ~recs[i].blocked

LEMMA DbMade ==
    ASSUME NEW recs \in Seq(Record), Len(recs) =< MaxProfiles, Distinct(recs),
           NEW last \in SsidOrEmpty
    PROVE  DbOK([recs |-> recs, last |-> last])
BY DEF DbOK, Db, WellFormed, Distinct

\* mark_last_success_and_save(): the network is known and not blocked, if
\* there was room for it.
LEMMA MarkedFacts ==
    ASSUME DbOK(db), NEW s \in Ssids, NEW new \in Record, new.ssid = s, ~new.blocked,
           NEW recs,
           recs = IF Known(db, s) THEN Replaced(s, new)
                  ELSE IF Len(db.recs) < MaxProfiles THEN Append(db.recs, new) ELSE db.recs
    PROVE  DbOK([recs |-> recs, last |-> s]) /\ OpenRecs(recs, s)
<1>1. /\ db.recs \in Seq(Record) /\ Distinct(db.recs) /\ Len(db.recs) \in 0 .. MaxProfiles
      /\ MaxProfiles \in Nat /\ s \in SsidOrEmpty
      /\ DOMAIN db.recs = 1 .. Len(db.recs)
  BY DbFields, ManagerAssumption, PolicyAssumption DEF SsidOrEmpty
<1> SUFFICES recs \in Seq(Record) /\ Len(recs) =< MaxProfiles /\ Distinct(recs) /\ OpenRecs(recs, s)
  BY <1>1, DbMade
<1>2. CASE Known(db, s)
  <2>1. recs = Replaced(s, new)
    BY <1>2
  <2>2. ReplacedAs(recs, s, new)
    BY <2>1, ReplacedFacts
  <2>3. /\ recs \in Seq(Record) /\ Len(recs) = Len(db.recs) /\ Distinct(recs)
        /\ \A i \in 1 .. Len(db.recs) : recs[i] = IF db.recs[i].ssid = s THEN new ELSE db.recs[i]
    BY <2>2 DEF ReplacedAs
  <2> QED
    BY <1>1, <2>3 DEF OpenRecs
<1>3. CASE ~Known(db, s)
  <2>1. \A i \in 1 .. Len(db.recs) : db.recs[i].ssid # s
    BY <1>1, <1>3 DEF Known
  <2>2. CASE Len(db.recs) < MaxProfiles
    <3>1. recs = Append(db.recs, new)
      BY <1>3, <2>2
    <3> DEFINE n == Len(db.recs)
    <3>2. /\ recs \in Seq(Record) /\ Len(recs) = n + 1 /\ recs[n + 1] = new
          /\ \A i \in 1 .. n : recs[i] = db.recs[i]
      <4> DEFINE q == db.recs
      <4>1. q \in Seq(Record) /\ recs = Append(q, new)
        BY <1>1, <3>1
      <4> HIDE DEF q
      <4>2. /\ Append(q, new) \in Seq(Record) /\ Len(Append(q, new)) = Len(q) + 1
            /\ Append(q, new)[Len(q) + 1] = new
            /\ \A i \in 1 .. Len(q) : Append(q, new)[i] = q[i]
        BY <4>1, AppendProperties
      <4> QED
        BY <4>1, <4>2 DEF q
    <3>3. \A i \in 1 .. Len(recs) : i = n + 1 \/ i \in 1 .. n
      BY <1>1, <3>2
    <3>4. Len(recs) =< MaxProfiles
      BY <1>1, <2>2, <3>2
    <3>5. Distinct(recs)
      <4> SUFFICES ASSUME NEW i \in 1 .. Len(recs), NEW j \in 1 .. Len(recs), recs[i].ssid = recs[j].ssid
                   PROVE  i = j
        BY DEF Distinct
      <4>1. CASE i \in 1 .. n /\ j \in 1 .. n
        BY <1>1, <3>2, <4>1 DEF Distinct
      <4>2. CASE i = n + 1 \/ j = n + 1
        BY <2>1, <3>2, <3>3, <4>2
      <4> QED
        BY <3>3, <4>1, <4>2
    <3>6. OpenRecs(recs, s)
      BY <1>1, <2>1, <3>2, <3>3 DEF OpenRecs
    <3> QED
      BY <3>2, <3>4, <3>5, <3>6
  <2>3. CASE ~(Len(db.recs) < MaxProfiles)
    <3>1. recs = db.recs
      BY <1>3, <2>3
    <3> QED
      BY <1>1, <2>1, <3>1 DEF OpenRecs
  <2> QED
    BY <2>2, <2>3
<1> QED
  BY <1>2, <1>3

\* What is left of a list without one of its entries.
LEMMA RemoveFacts ==
    ASSUME NEW S, NEW recs \in Seq(S), NEW p \in 1 .. Len(recs)
    PROVE  /\ RemoveAt(recs, p) \in Seq(S)
           /\ Len(RemoveAt(recs, p)) = Len(recs) - 1
           /\ \A i \in 1 .. Len(recs) - 1 :
                 RemoveAt(recs, p)[i] = IF i < p THEN recs[i] ELSE recs[i + 1]
<1> DEFINE n == Len(recs)
           a == SubSeq(recs, 1, p - 1)
           b == SubSeq(recs, p + 1, n)
<1>1. n \in Nat
  OBVIOUS
<1>2. a \in Seq(S) /\ Len(a) = p - 1 /\ \A i \in 1 .. p - 1 : a[i] = recs[i]
  OBVIOUS
<1>3. b \in Seq(S) /\ Len(b) = n - p /\ \A i \in 1 .. n - p : b[i] = recs[p + i]
  OBVIOUS
<1>4. RemoveAt(recs, p) = a \o b
  BY DEF RemoveAt
<1> HIDE DEF a, b
<1>5. /\ a \o b \in Seq(S) /\ Len(a \o b) = n - 1
      /\ \A i \in 1 .. p - 1 : (a \o b)[i] = a[i]
      /\ \A i \in 1 .. n - p : (a \o b)[(p - 1) + i] = b[i]
  <2>1. /\ a \o b \in Seq(S) /\ Len(a \o b) = Len(a) + Len(b)
        /\ \A i \in 1 .. Len(a) : (a \o b)[i] = a[i]
        /\ \A i \in 1 .. Len(b) : (a \o b)[Len(a) + i] = b[i]
    <3>1. a \in Seq(S) /\ b \in Seq(S)
      BY <1>2, <1>3
    <3> QED
      BY <3>1, ConcatFacts
  <2>2. (p - 1) + (n - p) = n - 1
    BY <1>1
  <2> QED
    BY <1>2, <1>3, <2>1, <2>2
<1>6. \A i \in 1 .. n - 1 : (a \o b)[i] = IF i < p THEN recs[i] ELSE recs[i + 1]
  <2> TAKE i \in 1 .. n - 1
  <2>1. CASE i < p
    BY <1>2, <1>5, <2>1
  <2>2. CASE ~(i < p)
    <3>1. i - (p - 1) \in 1 .. n - p
      BY <1>1, <2>2
    <3>2. /\ (a \o b)[(p - 1) + (i - (p - 1))] = b[i - (p - 1)]
          /\ b[i - (p - 1)] = recs[p + (i - (p - 1))]
      BY <1>3, <1>5, <3>1
    <3>3. (p - 1) + (i - (p - 1)) = i /\ p + (i - (p - 1)) = i + 1
      BY <1>1
    <3> QED
      BY <2>2, <3>2, <3>3
  <2> QED
    BY <2>1, <2>2
<1> QED
  BY <1>4, <1>5, <1>6

\* remove_profile_and_save(): the other records are as they were.
LEMMA RemovedFacts ==
    ASSUME DbOK(db), NEW s, Known(db, s), NEW last \in SsidOrEmpty, NEW recs,
           recs = RemoveAt(db.recs, PositionOf(db.recs, s))
    PROVE  /\ DbOK([recs |-> recs, last |-> last])
           /\ \A i \in 1 .. Len(recs) : \E j \in 1 .. Len(db.recs) : recs[i] = db.recs[j]
<1>1. /\ db.recs \in Seq(Record) /\ Distinct(db.recs) /\ Len(db.recs) \in 0 .. MaxProfiles
      /\ MaxProfiles \in Nat /\ DOMAIN db.recs = 1 .. Len(db.recs)
  BY DbFields, ManagerAssumption, PolicyAssumption
<1> DEFINE p == PositionOf(db.recs, s)
           n == Len(db.recs)
<1>2. p \in 1 .. n
  <2>1. p \in 0 .. n /\ p # 0
    BY <1>1, PositionFacts DEF Known
  <2> QED
    BY <1>1, <2>1
<1> HIDE DEF p
<1>3. /\ recs \in Seq(Record) /\ Len(recs) = n - 1
      /\ \A i \in 1 .. n - 1 : recs[i] = IF i < p THEN db.recs[i] ELSE db.recs[i + 1]
  BY <1>1, <1>2, RemoveFacts DEF p
<1>4. \A i \in 1 .. n - 1 : i \in 1 .. n /\ i + 1 \in 1 .. n
  BY <1>1
<1>5. Distinct(recs)
  <2> DEFINE Was(i) == IF i < p THEN i ELSE i + 1
  <2>1. \A i \in 1 .. n - 1 : Was(i) \in 1 .. n /\ recs[i] = db.recs[Was(i)]
    BY <1>3, <1>4
  <2>2. \A i, j \in 1 .. n - 1 : Was(i) = Was(j) => i = j
    BY <1>1, <1>2
  <2> HIDE DEF Was
  <2> SUFFICES ASSUME NEW i \in 1 .. n - 1, NEW j \in 1 .. n - 1, recs[i].ssid = recs[j].ssid
               PROVE  i = j
    BY <1>3 DEF Distinct
  <2>3. PICK x \in 1 .. n : x = Was(i) /\ recs[i] = db.recs[x]
    BY <2>1
  <2>4. PICK y \in 1 .. n : y = Was(j) /\ recs[j] = db.recs[y]
    BY <2>1
  <2>5. x = y
    BY <1>1, <2>3, <2>4 DEF Distinct
  <2> QED
    BY <2>2, <2>3, <2>4, <2>5
<1>6. Len(recs) =< MaxProfiles
  BY <1>1, <1>3
<1>7. DbOK([recs |-> recs, last |-> last])
  BY <1>3, <1>5, <1>6, DbMade
<1> QED
  BY <1>3, <1>4, <1>7

\* A network the database does not block is not blocked for the policy, and
\* the other way round.
LEMMA OpenMirrored ==
    ASSUME NEW d, DbOK(d), NEW profiles, NEW acts, ~Edits(acts),
           Mirrors(profiles, Order(d), acts), NEW s
    PROVE  OpenRecs(d.recs, s) <=> OpenRecs(profiles, s)
<1> DEFINE n == Len(d.recs)
           ordered == Order(d)
<1>1. d.recs \in Seq(Record) /\ n \in Nat
  BY DbFields
<1>2. /\ Len(ordered) = n
      /\ \A i \in 1 .. n : \E j \in 1 .. n : ordered[i] = d.recs[j]
  <2> DEFINE Was(i) == OrderAt(PositionOf(d.recs, d.last), i)
  <2>1. /\ Len(ordered) = n
        /\ \A i \in 1 .. n : Was(i) \in 1 .. n /\ ordered[i] = d.recs[Was(i)]
    BY <1>1, OrderFacts, Zenon DEF Order
  <2> HIDE DEF Was, ordered
  <2> QED
    BY <2>1, Zenon
<1>3. \A k \in 1 .. n : \E i \in 1 .. n : ordered[i] = d.recs[k]
  BY <1>1, OrderHasAll DEF Order
<1> HIDE DEF ordered
<1>4. /\ Len(profiles) = n
      /\ \A i \in 1 .. n : profiles[i].ssid = ordered[i].ssid
                           /\ profiles[i].blocked = ordered[i].blocked
  BY <1>2 DEF Mirrors, ordered
<1>5. ASSUME OpenRecs(d.recs, s), NEW i \in 1 .. n, profiles[i].ssid = s
      PROVE  ~profiles[i].blocked
  <2>1. PICK j \in 1 .. n : ordered[i] = d.recs[j]
    BY <1>2
  <2> QED
    BY <1>4, <1>5, <2>1 DEF OpenRecs
<1>6. ASSUME OpenRecs(profiles, s), NEW k \in 1 .. n, d.recs[k].ssid = s
      PROVE  ~d.recs[k].blocked
  <2>1. PICK i \in 1 .. n : ordered[i] = d.recs[k]
    BY <1>3
  <2> QED
    BY <1>4, <1>6, <2>1 DEF OpenRecs
<1> QED
  BY <1>4, <1>5, <1>6 DEF OpenRecs

-----------------------------------------------------------------------------
(* The inductive invariant.                                                *)

\* CMD_STARTED is sent once, at boot, and is the first command.
StartedFirst == \A i \in 2 .. Len(cmdQueue) : cmdQueue[i].kind # "Started"

StartedWaits == cmdQueue # <<>> /\ cmdQueue[1].kind = "Started"

\* The policy p, what is left to execute, and the database d fit together.
Coherent(p, acts, d) ==
    /\ PolicyOK(p)
    /\ acts \in Seq(Action)
    /\ OnlyFirstEdits(acts)
    /\ Mirrors(p.profiles, Order(d), acts)
    /\ ~NoCredit(acts) => acts = Credits(p) /\ p.state = "Connected"
    /\ p.origin = "Autoconnect" \/ (p.state = "Connected" /\ NoCredit(acts)) =>
           OpenFor(p, p.current)

\* CMD_STARTED has not been handled, is being handled, has been handled.
Waiting == StartedWaits /\ todo = <<>> /\ policy.state = "Idle" /\ PolicyOK(policy)
Starting == /\ ~StartedWaits /\ todo = <<[act |-> "Start"]>> /\ policy.state = "Idle"
            /\ Coherent(policy, todo, db)
Running == /\ ~StartedWaits /\ ~Has(todo, "Start") /\ policy.state # "Idle"
           /\ Coherent(policy, todo, db)

IInv == TypeOK /\ StartedFirst /\ (Waiting \/ Starting \/ Running)

-----------------------------------------------------------------------------
(* What is left to execute.                                                *)

\* Entries that no input of the policy comes before.
Harmless(rest) ==
    /\ rest \in Seq(Action)
    /\ \A i \in 1 .. Len(rest) : rest[i].act \notin {"SetBlocked", "MarkLastSuccess", "Start"}

LEMMA EmittedKinds ==
    /\ Emitted \subseteq Action
    /\ \A a \in Emitted : a.act \notin {"Start", "Remove", "ArmIfTeardown"}
BY DEF Emitted, Action

\* An input was answered with acts; the task has the rest to execute yet.
Handled(rest) ==
    \E acts : /\ Fed(policy, policy', acts)
              /\ Answered(acts, rest)
              /\ NoCredit(acts) \/ rest = <<>>

LEMMA FeedsHandled ==
    ASSUME NEW acts, NEW rest, Feeds(acts, rest)
    PROVE  Handled(rest)
BY DEF Feeds, Handled, Answered

LEMMA FailsHandled ==
    ASSUME NEW rest, FailsFed(rest)
    PROVE  Handled(rest)
BY DEF FailsFed, Handled

LEMMA JoinRest ==
    ASSUME NEW acts \in Seq(Emitted), NEW rest \in Seq(Action)
    PROVE  /\ acts \o rest \in Seq(Action) /\ acts \in Seq(Action)
           /\ Len(acts \o rest) = Len(acts) + Len(rest)
           /\ \A i \in 1 .. Len(acts) : (acts \o rest)[i] = acts[i]
           /\ \A i \in 1 .. Len(rest) : (acts \o rest)[Len(acts) + i] = rest[i]
           /\ \A i \in 1 .. Len(acts \o rest) :
                 \/ i \in 1 .. Len(acts) /\ (acts \o rest)[i] = acts[i]
                 \/ i - Len(acts) \in 1 .. Len(rest) /\ (acts \o rest)[i] = rest[i - Len(acts)]
<1>1. acts \in Seq(Action) /\ Len(acts) \in Nat /\ Len(rest) \in Nat
  <2>1. acts \in Seq(Emitted) /\ Emitted \subseteq Action
    BY EmittedKinds
  <2> QED
    BY <2>1
<1> DEFINE both == acts \o rest
<1>2. /\ both \in Seq(Action) /\ Len(both) = Len(acts) + Len(rest)
      /\ \A i \in 1 .. Len(acts) : both[i] = acts[i]
      /\ \A i \in 1 .. Len(rest) : both[Len(acts) + i] = rest[i]
  BY <1>1, ConcatFacts
<1> HIDE DEF both
<1>3. \A i \in 1 .. Len(both) :
         \/ i \in 1 .. Len(acts) /\ both[i] = acts[i]
         \/ i - Len(acts) \in 1 .. Len(rest) /\ both[i] = rest[i - Len(acts)]
  <2> TAKE i \in 1 .. Len(both)
  <2>1. CASE i > Len(acts)
    <3>1. i - Len(acts) \in 1 .. Len(rest)
      BY <1>1, <1>2, <2>1
    <3>2. both[Len(acts) + (i - Len(acts))] = rest[i - Len(acts)]
      BY <1>2, <3>1
    <3>3. Len(acts) + (i - Len(acts)) = i
      BY <1>1
    <3> QED
      BY <3>1, <3>2, <3>3
  <2> QED
    BY <1>1, <1>2, <2>1
<1> QED
  BY <1>1, <1>2, <1>3 DEF both

\* Whatever the input was, the policy, the rest and the database fit together.
LEMMA HandledCoherent ==
    ASSUME Coherent(policy, todo, db), ~Edits(todo), NoCredit(todo),
           NEW rest, Harmless(rest), Handled(rest),
           DbOK(db'), Mirrors(policy.profiles, Order(db'), <<>>)
    PROVE  /\ Coherent(policy', todo', db')
           /\ ~Has(todo', "Start")
           /\ policy.state # "Idle" => policy'.state # "Idle"
<1>1. PICK acts : /\ Fed(policy, policy', acts)
                  /\ Answered(acts, rest)
                  /\ NoCredit(acts) \/ rest = <<>>
  BY DEF Handled
<1>2. /\ acts \in Seq(Emitted) /\ rest \in Seq(Action) /\ PolicyOK(policy')
      /\ OnlyFirstEdits(acts) /\ Mirrors(policy'.profiles, policy.profiles, acts)
      /\ policy'.state = "Idle" => policy.state = "Idle"
      /\ \A i \in 1 .. Len(rest) : rest[i].act \notin {"SetBlocked", "MarkLastSuccess", "Start"}
  BY <1>1 DEF Fed, Harmless
<1>3. PICK tail \in Seq(Action) : /\ todo' = acts \o tail
                                  /\ tail = rest \/ tail = <<>>
  <2>1. CASE todo' = acts \o rest
    BY <1>2, <2>1
  <2>2. CASE todo' = acts
    <3>1. acts \o <<>> = acts /\ <<>> \in Seq(Action)
      BY <1>2
    <3> QED
      BY <2>2, <3>1
  <2> QED
    BY <1>1, <2>1, <2>2 DEF Answered
<1>4. \A i \in 1 .. Len(tail) : tail[i].act \notin {"SetBlocked", "MarkLastSuccess", "Start"}
  BY <1>2, <1>3
<1> DEFINE both == acts \o tail
<1>5. /\ both \in Seq(Action) /\ Len(both) = Len(acts) + Len(tail)
      /\ \A i \in 1 .. Len(acts) : both[i] = acts[i]
      /\ \A i \in 1 .. Len(both) :
            \/ i \in 1 .. Len(acts) /\ both[i] = acts[i]
            \/ i - Len(acts) \in 1 .. Len(tail) /\ both[i] = tail[i - Len(acts)]
  BY <1>2, <1>3, JoinRest
<1>6. todo' = both
  BY <1>3
<1> HIDE DEF both
<1>n. Len(acts) \in Nat /\ Len(tail) \in Nat
  BY <1>2, <1>3
<1>7. OnlyFirstEdits(both)
  <2> SUFFICES ASSUME NEW i \in 2 .. Len(both)
               PROVE  both[i].act # "SetBlocked"
    BY DEF OnlyFirstEdits
  <2>1. i \in 1 .. Len(both) /\ (i \in 1 .. Len(acts) => i \in 2 .. Len(acts))
    BY <1>5, <1>n
  <2>2. CASE i \in 1 .. Len(acts) /\ both[i] = acts[i]
    BY <1>2, <2>1, <2>2 DEF OnlyFirstEdits
  <2>3. CASE i - Len(acts) \in 1 .. Len(tail) /\ both[i] = tail[i - Len(acts)]
    BY <1>4, <2>3
  <2> QED
    BY <1>5, <2>1, <2>2, <2>3
<1>8. ~Has(both, "Start")
  <2>1. \A i \in 1 .. Len(acts) : acts[i].act # "Start"
    BY <1>2, EmittedKinds
  <2> QED
    BY <1>4, <1>5, <2>1 DEF Has
<1>9. NoCredit(acts) => NoCredit(both)
  BY <1>4, <1>5 DEF NoCredit
<1>10. Mirrors(policy'.profiles, Order(db'), both)
  <2>1. Edits(both) <=> Edits(acts)
    <3>1. CASE acts = <<>>
      <4>1. both = tail
        BY <1>3, <3>1 DEF both
      <4>2. tail = <<>> \/ 1 \in 1 .. Len(tail)
        BY <1>3
      <4> QED
        BY <1>4, <3>1, <4>1, <4>2 DEF Edits
    <3>2. CASE acts # <<>>
      <4>1. 1 \in 1 .. Len(acts) /\ Len(both) # 0
        BY <1>2, <1>5, <1>n, <3>2
      <4>2. both[1] = acts[1] /\ both # <<>>
        BY <1>5, <4>1
      <4> QED
        BY <3>2, <4>2 DEF Edits
    <3> QED
      BY <3>1, <3>2
  <2>2. Edits(acts) => both[1] = acts[1]
    BY <1>2, <1>5, <1>n DEF Edits
  <2> QED
    BY <1>2, <2>1, <2>2, EmptyIsSilent DEF Mirrors
<1>11. CASE NoCredit(acts) /\ (Opened(policy) => Opened(policy'))
  <2>1. NoCredit(both) /\ Opened(policy')
    BY <1>9, <1>11 DEF Coherent, Opened
  <2> QED
    BY <1>2, <1>5, <1>6, <1>7, <1>8, <1>10, <2>1, Zenon DEF Coherent, Opened
<1>12. CASE /\ acts = Credits(policy') /\ ~NoCredit(acts)
            /\ policy'.state = "Connected"
            /\ policy'.origin = policy.origin /\ policy'.current = policy.current
  <2>1. both = acts
    <3>1. tail = <<>>
      BY <1>1, <1>3, <1>12
    <3> QED
      BY <1>2, <3>1 DEF both
  <2>2. policy.origin = "Autoconnect" => OpenFor(policy', policy'.current)
    <3>1. ~Edits(acts)
      BY <1>12, ActKinds DEF Credits, Edits
    <3> QED
      <4> SUFFICES ASSUME policy.origin = "Autoconnect"
                   PROVE  OpenFor(policy', policy'.current)
        OBVIOUS
      <4>1. OpenFor(policy, policy'.current)
        BY <1>12 DEF Coherent
      <4>2. Mirrors(policy'.profiles, policy.profiles, acts)
        BY <1>2
      <4> QED
        BY <3>1, <4>1, <4>2 DEF OpenFor, Mirrors
  <2>3. ~NoCredit(both)
    BY <1>12, <2>1
  <2> QED
    BY <1>2, <1>5, <1>6, <1>7, <1>8, <1>10, <1>12, <2>1, <2>2, <2>3, Zenon DEF Coherent
<1>13. ~NoCredit(Credits(policy'))
  <2> DEFINE c == Credits(policy')
  <2>1. Len(c) = 2 /\ c[1].act = "MarkLastSuccess"
    BY ActKinds DEF Credits
  <2> HIDE DEF c
  <2>2. ~NoCredit(c)
    BY <2>1 DEF NoCredit
  <2> QED
    BY <2>2 DEF c
<1> QED
  BY <1>1, <1>11, <1>12, <1>13, Zenon DEF Fed

\* The task goes on to the next entry; this one did nothing to the policy.
LEMMA TailCoherent ==
    ASSUME Coherent(policy, todo, db), todo # <<>>,
           Head(todo).act \notin {"SetBlocked", "MarkLastSuccess"}
    PROVE  /\ Coherent(policy, Tail(todo), db)
           /\ Harmless(Tail(todo)) \/ Has(todo, "Start")
           /\ ~Edits(todo) /\ NoCredit(todo)
<1>1. /\ todo \in Seq(Action) /\ Tail(todo) \in Seq(Action) /\ Len(todo) \in Nat \ {0}
      /\ Len(Tail(todo)) = Len(todo) - 1
      /\ \A i \in 1 .. Len(todo) - 1 : Tail(todo)[i] = todo[i + 1]
      /\ Head(todo) = todo[1]
  BY DEF Coherent
<1>2. NoCredit(todo)
  <2>1. CASE todo = Credits(policy)
    <3> DEFINE a == ActMarkLastSuccess(policy.current)
               b == ActEvent("Connected", policy.current)
    <3>1. a.act = "MarkLastSuccess" /\ todo = <<a, b>>
      BY <2>1, ActKinds DEF Credits
    <3> HIDE DEF a, b
    <3> QED
      BY <3>1
  <2> QED
    BY <2>1 DEF Coherent
<1>3. ~Edits(todo)
  BY <1>1 DEF Edits
<1> DEFINE t == Tail(todo)
<1> HIDE DEF t
<1>4. /\ t \in Seq(Action) /\ Len(t) = Len(todo) - 1
      /\ \A i \in 1 .. Len(t) : t[i] = todo[i + 1] /\ i + 1 \in 2 .. Len(todo)
  BY <1>1 DEF t
<1>5. \A i \in 1 .. Len(t) : t[i].act \notin {"SetBlocked", "MarkLastSuccess"}
  BY <1>1, <1>2, <1>4 DEF Coherent, OnlyFirstEdits, NoCredit
<1>6. NoCredit(t) /\ OnlyFirstEdits(t) /\ ~Edits(t)
  BY <1>4, <1>5 DEF NoCredit, OnlyFirstEdits, Edits
<1>7. Mirrors(policy.profiles, Order(db), t)
  BY <1>3, <1>6 DEF Coherent, Mirrors
<1>8. Coherent(policy, t, db)
  BY <1>2, <1>4, <1>6, <1>7, Zenon DEF Coherent
<1>9. Harmless(t) \/ Has(todo, "Start")
  BY <1>1, <1>4, <1>5 DEF Harmless, Has
<1> QED
  BY <1>2, <1>3, <1>8, <1>9 DEF t

\* The connect timer is armed after everything else.
ArmsLast(acts) == \A i \in 1 .. Len(acts) - 1 : acts[i].act # "ArmIfTeardown"

\* The variables the policy does not own.
TypeRest ==
    /\ Esp!DriverType
    /\ cmdQueue \in Seq(Command)
    /\ Len(cmdQueue) =< QueueLen
    /\ connectTimer \in BOOLEAN
    /\ retryTimer \in BOOLEAN
    /\ DbOK(db)
    /\ pending \in [ssid : SsidOrEmpty, pw : Esp!Passwords]

LEMMA CommandFields ==
    ASSUME NEW c \in Command
    PROVE  /\ c.kind \in {"ConnectNew", "UpdatePassword", "ConnectSaved", "Forget"} =>
                  c.ssid \in Ssids
           /\ c.kind \in {"ConnectNew", "UpdatePassword"} => c.pw \in Esp!Passwords
           /\ c.kind = "Disconnected" => c.class \in FailClasses
BY DEF Command

\* What is known when the task takes a command.
LEMMA ReceiveFacts ==
    ASSUME IInv, NEW kind, Receive(kind)
    PROVE  /\ todo = <<>> /\ Head(cmdQueue) \in Command /\ Head(cmdQueue).kind = kind
           /\ cmdQueue' \in Seq(Command) /\ Len(cmdQueue') =< QueueLen
           /\ StartedFirst' /\ ~StartedWaits'
           /\ kind = "Started" => Waiting
           /\ kind # "Started" => Running
<1>1. /\ cmdQueue \in Seq(Command) /\ cmdQueue # <<>> /\ Len(cmdQueue) =< QueueLen
      /\ Head(cmdQueue) = cmdQueue[1] /\ Head(cmdQueue).kind = kind
      /\ cmdQueue' = Tail(cmdQueue) /\ QueueLen \in Nat
  BY ManagerAssumption DEF IInv, TypeOK, Receive
<1>2. /\ Head(cmdQueue) \in Command /\ cmdQueue' \in Seq(Command)
      /\ Len(cmdQueue') = Len(cmdQueue) - 1 /\ Len(cmdQueue) \in Nat
      /\ \A i \in 1 .. Len(cmdQueue') : cmdQueue'[i] = cmdQueue[i + 1]
  BY <1>1
<1>3. \A i \in 1 .. Len(cmdQueue') : cmdQueue'[i].kind # "Started"
  BY <1>2 DEF IInv, StartedFirst
<1>4. StartedFirst' /\ ~StartedWaits'
  BY <1>2, <1>3 DEF StartedFirst, StartedWaits
<1>5. StartedWaits <=> kind = "Started"
  BY <1>1 DEF StartedWaits
<1> QED
  BY <1>1, <1>2, <1>4, <1>5 DEF IInv, Waiting, Starting, Running, Receive

LEMMA RunningFacts ==
    ASSUME Running
    PROVE  /\ Coherent(policy, todo, db) /\ PolicyOK(policy) /\ policy \in Policy
           /\ todo \in Seq(Action)
           /\ ~Edits(<<>>)
BY DEF Running, Coherent, PolicyOK, Edits

\* Nothing is left to execute when a command is taken: the policy knows the
\* database as it is.
LEMMA IdleMirrors ==
    ASSUME Running, todo = <<>>
    PROVE  Mirrors(policy.profiles, Order(db), <<>>) /\ ~Edits(todo) /\ NoCredit(todo)
BY EmptyIsSilent DEF Running, Coherent

\* What is left to execute after an input, unless a profile is to be forgotten.
Tame(rest) ==
    /\ \A i \in 1 .. Len(rest) : rest[i].act \in {"EmitEvent", "ArmIfTeardown"}
    /\ ArmsLast(rest)

LEMMA RestIsHarmless ==
    /\ Harmless(<<>>) /\ Harmless(ArmIfTeardown)
    /\ Tame(<<>>) /\ Tame(ArmIfTeardown)
    /\ \A s \in Ssids : Harmless(<<[act |-> "Remove", ssid |-> s]>>)
<1>1. /\ <<>> \in Seq(Action) /\ ArmIfTeardown \in Seq(Action)
      /\ \A s \in Ssids : <<[act |-> "Remove", ssid |-> s]>> \in Seq(Action)
  BY DEF Action, ArmIfTeardown
<1> QED
  BY <1>1 DEF Harmless, ArmIfTeardown, Tame, ArmsLast

\* The handler of a command answered it.
Answer ==
    /\ \E rest : /\ Harmless(rest) /\ Handled(rest)
                 /\ Head(cmdQueue).kind # "Forget" => Tame(rest)
    /\ DbOK(db')
    /\ Mirrors(policy.profiles, Order(db'), <<>>)

LEMMA AnswerKeeps ==
    ASSUME IInv, NEW kind, Receive(kind), kind # "Started", Answer, TypeRest'
    PROVE  IInv'
<1>1. /\ todo = <<>> /\ Running /\ ~StartedWaits' /\ StartedFirst'
  BY ReceiveFacts
<1>2. PICK rest : Harmless(rest) /\ Handled(rest)
  BY DEF Answer
<1>3. /\ Coherent(policy', todo', db') /\ ~Has(todo', "Start") /\ policy'.state # "Idle"
  BY <1>1, <1>2, IdleMirrors, HandledCoherent DEF Running, Answer
<1>4. Running'
  BY <1>1, <1>3 DEF Running, Coherent, Has, OpenFor, Credits, NoCredit, OnlyFirstEdits
<1>5. TypeOK'
  <2>1. policy' \in Policy /\ todo' \in Seq(Action)
    BY <1>3 DEF Coherent, PolicyOK
  <2> QED
    BY <2>1 DEF TypeOK, TypeRest, DbOK
<1> QED
  BY <1>1, <1>4, <1>5 DEF IInv

\* No handler but the ones that save changes the database.
LEMMA SameDb ==
    ASSUME Running, todo = <<>>, TypeRest, db' = db
    PROVE  DbOK(db') /\ Mirrors(policy.profiles, Order(db'), <<>>)
BY IdleMirrors DEF TypeRest

LEMMA EspDisconnectType ==
    ASSUME Esp!DriverType, Esp!EspDisconnect
    PROVE  Esp!DriverType'
<1>1. Esp!Down \in [phase : Esp!Phases, ssid : SsidOrEmpty, pw : Esp!Passwords]
  BY DEF Esp!Down, Esp!Phases, Esp!Passwords, SsidOrEmpty
<1> QED
  BY <1>1, ManagerAssumption DEF Esp!DriverType, Esp!EspDisconnect, Esp!driverVars

LEMMA ConnectFailFacts ==
    ASSUME PolicyOK(policy), NEW class \in FailClasses, NEW rest \in Seq(Action),
           InConnectFail(class, rest)
    PROVE  \/ policy.state # "Connecting" /\ Ignored(rest)
           \/ policy.state = "Connecting" /\ FailsFed(rest)
BY FailureFacts DEF InConnectFail

LEMMA IgnoredHandled ==
    ASSUME PolicyOK(policy), NEW rest \in Seq(Action), Ignored(rest)
    PROVE  Handled(rest)
BY IgnoredFacts, FeedsHandled

LEMMA SilentSeq == <<>> \in Seq(Action) /\ ArmIfTeardown \in Seq(Action)
BY RestIsHarmless DEF Harmless

LEMMA HandleDisconnectedAnswers ==
    ASSUME IInv, HandleDisconnected
    PROVE  Answer /\ TypeRest'
<1>1. /\ todo = <<>> /\ Running /\ Head(cmdQueue) \in Command
      /\ Head(cmdQueue).kind = "Disconnected"
      /\ cmdQueue' \in Seq(Command) /\ Len(cmdQueue') =< QueueLen
  BY ReceiveFacts DEF HandleDisconnected
<1>2. PolicyOK(policy) /\ TypeRest
  BY <1>1, RunningFacts DEF IInv, TypeOK, TypeRest, DbOK
<1>3. Head(cmdQueue).class \in FailClasses
  BY <1>1, CommandFields
<1>4. DbOK(db') /\ Mirrors(policy.profiles, Order(db'), <<>>)
  BY <1>1, <1>2, SameDb DEF HandleDisconnected
<1>5. Handled(<<>>)
  <2>1. CASE policy.teardown /\ InTeardownDisconnected(<<>>)
    BY <1>2, <2>1, TeardownFacts, FeedsHandled, SilentSeq
  <2>2. CASE policy.state = "Connecting" /\ InConnectFail(Head(cmdQueue).class, <<>>)
    <3> DEFINE class == Head(cmdQueue).class
    <3>1. class \in FailClasses /\ InConnectFail(class, <<>>)
      BY <1>3, <2>2
    <3> HIDE DEF class
    <3> QED
      BY <1>2, <2>2, <3>1, ConnectFailFacts, FailsHandled, SilentSeq
  <2>3. CASE InLinkLost(<<>>)
    BY <1>2, <2>3, LinkLostFacts, FeedsHandled, IgnoredHandled, SilentSeq
  <2>4. CASE UNCHANGED <<policy, todo>>
    <3>1. Ignored(<<>>)
      BY <1>1, <2>4 DEF Ignored
    <3> QED
      BY <1>2, <3>1, IgnoredHandled, SilentSeq
  <2> QED
    BY <2>1, <2>2, <2>3, <2>4 DEF HandleDisconnected
<1>6. TypeRest'
  BY <1>1, <1>2, <1>4 DEF HandleDisconnected, TypeRest, Esp!DriverType
<1> QED
  BY <1>4, <1>5, <1>6, RestIsHarmless DEF Answer

LEMMA HandleGotIpAnswers ==
    ASSUME IInv, HandleGotIp
    PROVE  Answer /\ TypeRest'
<1>1. /\ todo = <<>> /\ Running
      /\ cmdQueue' \in Seq(Command) /\ Len(cmdQueue') =< QueueLen
  BY ReceiveFacts DEF HandleGotIp
<1>2. PolicyOK(policy) /\ TypeRest
  BY <1>1, RunningFacts DEF IInv, TypeOK, TypeRest, DbOK
<1>3. DbOK(db') /\ Mirrors(policy.profiles, Order(db'), <<>>)
  BY <1>1, <1>2, SameDb DEF HandleGotIp
<1>4. Handled(<<>>)
  <2>1. InConnectSuccess(<<>>)
    BY DEF HandleGotIp
  <2>2. CASE Ignored(<<>>)
    BY <1>2, <2>2, IgnoredHandled, SilentSeq
  <2>3. CASE Fed(policy, policy', Credits(policy')) /\ todo' = Credits(policy') \o <<>>
    BY <2>3 DEF Handled, Answered
  <2> QED
    BY <1>2, <2>1, <2>2, <2>3, ConnectSuccessFacts, SilentSeq
<1>5. TypeRest'
  BY <1>1, <1>2, <1>3 DEF HandleGotIp, TypeRest, Esp!DriverType
<1> QED
  BY <1>3, <1>4, <1>5, RestIsHarmless DEF Answer

LEMMA HandleConnectTimeoutAnswers ==
    ASSUME IInv, HandleConnectTimeout
    PROVE  Answer /\ TypeRest'
<1>1. /\ todo = <<>> /\ Running
      /\ cmdQueue' \in Seq(Command) /\ Len(cmdQueue') =< QueueLen
  BY ReceiveFacts DEF HandleConnectTimeout
<1>2. PolicyOK(policy) /\ TypeRest
  BY <1>1, RunningFacts DEF IInv, TypeOK, TypeRest, DbOK
<1>3. DbOK(db') /\ Mirrors(policy.profiles, Order(db'), <<>>)
  BY <1>1, <1>2, SameDb DEF HandleConnectTimeout
<1>4. Handled(<<>>)
  <2>1. InConnectFail("Other", <<>>) /\ "Other" \in FailClasses
    BY DEF HandleConnectTimeout, InConnectTimeout, FailClasses
  <2> QED
    BY <1>2, <2>1, ConnectFailFacts, FailsHandled, IgnoredHandled, SilentSeq
<1>5. Esp!DriverType'
  BY <1>2, EspDisconnectType DEF HandleConnectTimeout, TypeRest
<1>6. TypeRest'
  BY <1>1, <1>2, <1>3, <1>5 DEF HandleConnectTimeout, TypeRest
<1> QED
  BY <1>3, <1>4, <1>6, RestIsHarmless DEF Answer

\* The handlers that leave everything but the policy and the queue alone.
LEMMA QuietAnswers ==
    ASSUME IInv, Running, todo = <<>>, cmdQueue' \in Seq(Command), Len(cmdQueue') =< QueueLen,
           UNCHANGED unchangedByPolicy, NEW rest, Harmless(rest), Handled(rest),
           Head(cmdQueue).kind # "Forget" => Tame(rest)
    PROVE  Answer /\ TypeRest'
<1>1. TypeRest
  BY DEF IInv, TypeOK, TypeRest, DbOK
<1>2. DbOK(db') /\ Mirrors(policy.profiles, Order(db'), <<>>)
  BY <1>1, SameDb DEF unchangedByPolicy
<1>3. TypeRest'
  BY <1>1, <1>2 DEF unchangedByPolicy, TypeRest, Esp!DriverType
<1> QED
  BY <1>2, <1>3 DEF Answer

LEMMA HandleRetryExpiredAnswers ==
    ASSUME IInv, HandleRetryExpired
    PROVE  Answer /\ TypeRest'
<1>1. /\ todo = <<>> /\ Running
      /\ cmdQueue' \in Seq(Command) /\ Len(cmdQueue') =< QueueLen
  BY ReceiveFacts DEF HandleRetryExpired
<1>2. PolicyOK(policy)
  BY <1>1, RunningFacts
<1>3. InRetryTimerExpired(<<>>) /\ UNCHANGED unchangedByPolicy
  BY DEF HandleRetryExpired
<1>4. Handled(<<>>)
  BY <1>2, <1>3, RetryExpiredFacts, FeedsHandled, SilentSeq
<1> QED
  BY <1>1, <1>3, <1>4, QuietAnswers, RestIsHarmless

LEMMA HandleConnectSavedAnswers ==
    ASSUME IInv, HandleConnectSaved
    PROVE  Answer /\ TypeRest'
<1>1. /\ todo = <<>> /\ Running /\ Head(cmdQueue) \in Command
      /\ Head(cmdQueue).kind = "ConnectSaved"
      /\ cmdQueue' \in Seq(Command) /\ Len(cmdQueue') =< QueueLen
  BY ReceiveFacts DEF HandleConnectSaved
<1>2. PolicyOK(policy)
  BY <1>1, RunningFacts
<1>3. PICK s \in Ssids : InConnectSaved(s, ArmIfTeardown)
  BY <1>1, CommandFields DEF HandleConnectSaved
<1>4. Handled(ArmIfTeardown)
  BY <1>2, <1>3, ConnectSavedFacts, FeedsHandled, SilentSeq
<1>5. UNCHANGED unchangedByPolicy
  BY DEF HandleConnectSaved
<1> QED
  BY <1>1, <1>4, <1>5, QuietAnswers, RestIsHarmless

LEMMA HandleDisconnectAnswers ==
    ASSUME IInv, HandleDisconnect
    PROVE  Answer /\ TypeRest'
<1>1. /\ todo = <<>> /\ Running
      /\ cmdQueue' \in Seq(Command) /\ Len(cmdQueue') =< QueueLen
  BY ReceiveFacts DEF HandleDisconnect
<1>2. PolicyOK(policy)
  BY <1>1, RunningFacts
<1>3. InDisconnect(<<>>) /\ UNCHANGED unchangedByPolicy
  BY DEF HandleDisconnect
<1>4. Handled(<<>>)
  BY <1>2, <1>3, DisconnectFacts, FeedsHandled, SilentSeq
<1> QED
  BY <1>1, <1>3, <1>4, QuietAnswers, RestIsHarmless

LEMMA HandlePauseAnswers ==
    ASSUME IInv, HandlePause
    PROVE  Answer /\ TypeRest'
<1>1. /\ todo = <<>> /\ Running
      /\ cmdQueue' \in Seq(Command) /\ Len(cmdQueue') =< QueueLen
  BY ReceiveFacts DEF HandlePause
<1>2. PolicyOK(policy)
  BY <1>1, RunningFacts
<1>3. InPause(<<>>) /\ UNCHANGED unchangedByPolicy
  BY DEF HandlePause
<1>4. Handled(<<>>)
  BY <1>2, <1>3, PauseFacts, FeedsHandled, IgnoredHandled, SilentSeq
<1> QED
  BY <1>1, <1>3, <1>4, QuietAnswers, RestIsHarmless

LEMMA HandleResumeAnswers ==
    ASSUME IInv, HandleResume
    PROVE  Answer /\ TypeRest'
<1>1. /\ todo = <<>> /\ Running
      /\ cmdQueue' \in Seq(Command) /\ Len(cmdQueue') =< QueueLen
  BY ReceiveFacts DEF HandleResume
<1>2. PolicyOK(policy)
  BY <1>1, RunningFacts
<1>3. InResume(<<>>) /\ UNCHANGED unchangedByPolicy
  BY DEF HandleResume
<1>4. Handled(<<>>)
  BY <1>2, <1>3, ResumeFacts, FeedsHandled, IgnoredHandled, SilentSeq
<1> QED
  BY <1>1, <1>3, <1>4, QuietAnswers, RestIsHarmless

LEMMA HandleForgetAnswers ==
    ASSUME IInv, HandleForget
    PROVE  Answer /\ TypeRest'
<1>1. /\ todo = <<>> /\ Running /\ Head(cmdQueue) \in Command
      /\ Head(cmdQueue).kind = "Forget"
      /\ cmdQueue' \in Seq(Command) /\ Len(cmdQueue') =< QueueLen
  BY ReceiveFacts DEF HandleForget
<1>2. PolicyOK(policy)
  BY <1>1, RunningFacts
<1>3. PICK s \in Ssids : InForget(s, <<[act |-> "Remove", ssid |-> s]>>)
  BY <1>1, CommandFields DEF HandleForget
<1> DEFINE rest == <<[act |-> "Remove", ssid |-> s]>>
<1>4. Harmless(rest) /\ rest \in Seq(Action) /\ InForget(s, rest)
  BY <1>3, RestIsHarmless DEF Harmless
<1> HIDE DEF rest
<1>5. Handled(rest)
  BY <1>2, <1>4, ForgetFacts, FeedsHandled, IgnoredHandled
<1>6. UNCHANGED unchangedByPolicy
  BY DEF HandleForget
<1> QED
  BY <1>1, <1>4, <1>5, <1>6, QuietAnswers

LEMMA HandleConnectNewAnswers ==
    ASSUME IInv, HandleConnectNew
    PROVE  Answer /\ TypeRest'
<1>1. /\ todo = <<>> /\ Running /\ Head(cmdQueue) \in Command
      /\ Head(cmdQueue).kind = "ConnectNew"
      /\ cmdQueue' \in Seq(Command) /\ Len(cmdQueue') =< QueueLen
  BY ReceiveFacts DEF HandleConnectNew
<1>2. PolicyOK(policy) /\ TypeRest
  BY <1>1, RunningFacts DEF IInv, TypeOK, TypeRest, DbOK
<1>3. /\ Head(cmdQueue).ssid \in Ssids /\ Head(cmdQueue).pw \in Esp!Passwords
  BY <1>1, CommandFields
<1>4. PICK s \in Ssids : InConnectNew(s, ArmIfTeardown)
  BY <1>3 DEF HandleConnectNew
<1>5. Handled(ArmIfTeardown)
  BY <1>2, <1>4, ConnectNewFacts, FeedsHandled, SilentSeq
<1>6. DbOK(db') /\ Mirrors(policy.profiles, Order(db'), <<>>)
  BY <1>1, <1>2, SameDb DEF HandleConnectNew
<1>7. pending' \in [ssid : SsidOrEmpty, pw : Esp!Passwords]
  BY <1>3 DEF HandleConnectNew, SsidOrEmpty
<1>8. TypeRest'
  BY <1>1, <1>2, <1>6, <1>7 DEF HandleConnectNew, TypeRest, Esp!DriverType
<1> QED
  BY <1>5, <1>6, <1>8, RestIsHarmless DEF Answer

LEMMA HandleUpdatePasswordAnswers ==
    ASSUME IInv, HandleUpdatePassword
    PROVE  Answer /\ TypeRest'
<1>1. /\ todo = <<>> /\ Running /\ Head(cmdQueue) \in Command
      /\ Head(cmdQueue).kind = "UpdatePassword"
      /\ cmdQueue' \in Seq(Command) /\ Len(cmdQueue') =< QueueLen
  BY ReceiveFacts DEF HandleUpdatePassword
<1>2. PolicyOK(policy) /\ TypeRest
  BY <1>1, RunningFacts DEF IInv, TypeOK, TypeRest, DbOK
<1>3. PICK s \in Ssids, pw \in Esp!Passwords :
         /\ db' = [db EXCEPT !.recs = Replaced(s, [RecordOf(s) EXCEPT !.pw = pw])]
         /\ InUpdatePassword(s, <<>>)
  BY <1>1, CommandFields DEF HandleUpdatePassword
<1>4. Handled(<<>>)
  BY <1>2, <1>3, UpdatePasswordFacts, FeedsHandled, SilentSeq
<1>5. Mirrors(policy.profiles, Order(db), <<>>) /\ DbOK(db)
  BY <1>1, <1>2, IdleMirrors DEF TypeRest
<1>6. DbOK(db') /\ Mirrors(policy.profiles, Order(db'), <<>>)
  BY <1>3, <1>5, PasswordFacts
<1>7. TypeRest'
  BY <1>1, <1>2, <1>6 DEF HandleUpdatePassword, TypeRest, Esp!DriverType
<1> QED
  BY <1>4, <1>6, <1>7, RestIsHarmless DEF Answer

\* The profiles are loaded; the policy starts with the next entry of todo.
LEMMA HandleStartedKeeps ==
    ASSUME IInv, HandleStarted
    PROVE  IInv'
<1>1. /\ Waiting /\ ~StartedWaits' /\ StartedFirst'
      /\ cmdQueue' \in Seq(Command) /\ Len(cmdQueue') =< QueueLen
  BY ReceiveFacts DEF HandleStarted
<1>2. PolicyOK(policy) /\ policy.state = "Idle" /\ TypeRest
  BY <1>1 DEF Waiting, IInv, TypeOK, TypeRest, DbOK
<1>3. /\ PolicyOK(policy') /\ Mirrors(policy'.profiles, Order(db), <<>>)
      /\ policy'.state = "Idle" /\ policy'.origin = "None"
  BY <1>2, SetProfilesFacts DEF HandleStarted, TypeRest, PolicyOK
<1> DEFINE acts == <<[act |-> "Start"]>>
<1>4. /\ acts \in Seq(Action) /\ OnlyFirstEdits(acts) /\ NoCredit(acts) /\ ~Edits(acts)
      /\ todo' = acts
  BY DEF Action, OnlyFirstEdits, NoCredit, Edits, HandleStarted
<1>5. todo' = <<[act |-> "Start"]>> /\ db' = db
  BY DEF HandleStarted, unchangedByPolicy
<1> HIDE DEF acts
<1>6. Mirrors(policy'.profiles, Order(db), acts)
  BY <1>3, <1>4, EmptyIsSilent DEF Mirrors
<1>7. Coherent(policy', todo', db')
  BY <1>3, <1>4, <1>5, <1>6, Zenon DEF Coherent
<1>8. Starting'
  BY <1>1, <1>3, <1>5, <1>7 DEF Starting, StartedWaits, Coherent, OpenFor, Credits, NoCredit,
     OnlyFirstEdits
<1>9. TypeOK'
  BY <1>1, <1>2, <1>3, <1>4, <1>5 DEF HandleStarted, unchangedByPolicy, TypeOK, TypeRest, DbOK,
     Esp!DriverType, PolicyOK
<1> QED
  BY <1>1, <1>8, <1>9 DEF IInv

LEMMA HandleKeeps ==
    ASSUME IInv, Handle
    PROVE  IInv'
<1>1. CASE HandleStarted
  BY <1>1, HandleStartedKeeps
<1>2. CASE HandleDisconnected
  BY <1>2, HandleDisconnectedAnswers, AnswerKeeps DEF HandleDisconnected
<1>3. CASE HandleGotIp
  BY <1>3, HandleGotIpAnswers, AnswerKeeps DEF HandleGotIp
<1>4. CASE HandleConnectTimeout
  BY <1>4, HandleConnectTimeoutAnswers, AnswerKeeps DEF HandleConnectTimeout
<1>5. CASE HandleRetryExpired
  BY <1>5, HandleRetryExpiredAnswers, AnswerKeeps DEF HandleRetryExpired
<1>6. CASE HandleConnectNew
  BY <1>6, HandleConnectNewAnswers, AnswerKeeps DEF HandleConnectNew
<1>7. CASE HandleConnectSaved
  BY <1>7, HandleConnectSavedAnswers, AnswerKeeps DEF HandleConnectSaved
<1>8. CASE HandleDisconnect
  BY <1>8, HandleDisconnectAnswers, AnswerKeeps DEF HandleDisconnect
<1>9. CASE HandlePause
  BY <1>9, HandlePauseAnswers, AnswerKeeps DEF HandlePause
<1>10. CASE HandleResume
  BY <1>10, HandleResumeAnswers, AnswerKeeps DEF HandleResume
<1>11. CASE HandleForget
  BY <1>11, HandleForgetAnswers, AnswerKeeps DEF HandleForget
<1>12. CASE HandleUpdatePassword
  BY <1>12, HandleUpdatePasswordAnswers, AnswerKeeps DEF HandleUpdatePassword
<1> QED
  BY <1>1, <1>2, <1>3, <1>4, <1>5, <1>6, <1>7, <1>8, <1>9, <1>10, <1>11, <1>12 DEF Handle

-----------------------------------------------------------------------------
(* The entries of todo.                                                    *)

LEMMA ActionFields ==
    ASSUME NEW a \in Action
    PROVE  /\ a.act = "Connect" => a.ssid \in SsidOrEmpty /\ a.origin \in Origins
           /\ a.act \in {"MarkLastSuccess", "Remove"} => a.ssid \in Ssids
           /\ a.act = "SetBlocked" => a.ssid \in Ssids /\ a.flag \in BOOLEAN
BY DEF Action

\* The policy goes on Running when what is left to execute is coherent.
LEMMA GoesOnRunning ==
    ASSUME IInv, UNCHANGED cmdQueue, ~StartedWaits, TypeRest',
           Coherent(policy', todo', db'), ~Has(todo', "Start"), policy'.state # "Idle"
    PROVE  IInv'
<1>1. policy' \in Policy /\ todo' \in Seq(Action)
  BY DEF Coherent, PolicyOK
<1>2. TypeOK'
  BY <1>1 DEF TypeOK, TypeRest, DbOK
<1>3. Running'
  BY DEF Running, StartedWaits, Coherent, Has, OpenFor, Credits, NoCredit, OnlyFirstEdits
<1>4. StartedFirst'
  BY DEF IInv, StartedFirst
<1> QED
  BY <1>2, <1>3, <1>4 DEF IInv

\* What is known when the task turns to an entry.
LEMMA ExecutingFacts ==
    ASSUME IInv, NEW act, Executing(act)
    PROVE  /\ TypeRest /\ PolicyOK(policy) /\ Coherent(policy, todo, db)
           /\ todo # <<>> /\ Head(todo) \in Action /\ Head(todo) = todo[1]
           /\ Head(todo).act = act /\ Tail(todo) \in Seq(Action)
           /\ ~StartedWaits
           /\ act = "Start" => Starting
           /\ act # "Start" => Running
<1>1. todo \in Seq(Action) /\ todo # <<>> /\ Head(todo).act = act
  BY DEF IInv, TypeOK, Executing
<1>2. /\ Head(todo) \in Action /\ Head(todo) = todo[1] /\ Tail(todo) \in Seq(Action)
      /\ 1 \in 1 .. Len(todo)
  BY <1>1
<1>3. Starting \/ Running
  BY <1>1 DEF IInv, Waiting
<1>4. /\ Starting => act = "Start"
      /\ Running => act # "Start"
  BY <1>1, <1>2 DEF Starting, Running, Has
<1> QED
  BY <1>1, <1>2, <1>3, <1>4 DEF IInv, TypeOK, TypeRest, DbOK, Starting, Running, Coherent

\* The entry is taken off and nothing the policy or the database knows changes.
LEMMA TakenOff ==
    ASSUME IInv, NEW act, Executing(act), act \notin {"SetBlocked", "MarkLastSuccess", "Start"},
           todo' = Tail(todo), UNCHANGED <<policy, db, cmdQueue>>, TypeRest'
    PROVE  IInv'
<1>1. /\ Running /\ Coherent(policy, todo, db) /\ todo # <<>> /\ Head(todo).act = act
      /\ ~StartedWaits
  BY ExecutingFacts
<1>2. ~Has(todo, "Start") /\ policy.state # "Idle"
  BY <1>1 DEF Running
<1>3. /\ Coherent(policy, Tail(todo), db)
      /\ Harmless(Tail(todo)) \/ Has(todo, "Start")
  BY <1>1, TailCoherent
<1>4. ~Has(Tail(todo), "Start")
  BY <1>2, <1>3 DEF Harmless, Has
<1> QED
  BY <1>1, <1>2, <1>3, <1>4, GoesOnRunning

LEMMA StartKeeps ==
    ASSUME IInv, Start
    PROVE  IInv'
<1>1. /\ Starting /\ PolicyOK(policy) /\ Coherent(policy, todo, db) /\ TypeRest
      /\ ~StartedWaits /\ todo # <<>> /\ Head(todo).act = "Start"
  BY ExecutingFacts DEF Start
<1>2. Tail(todo) = <<>> /\ policy.state = "Idle" /\ DbOK(db)
  BY <1>1 DEF Starting, TypeRest
<1>3. InStarted(<<>>)
  BY <1>2 DEF Start
<1>4. Handled(<<>>) /\ policy'.state # "Idle"
  BY <1>1, <1>2, <1>3, StartedFacts, FeedsHandled, SilentSeq
<1>5. ~Edits(todo) /\ NoCredit(todo)
  BY <1>1, TailCoherent
<1>6. db' = db /\ cmdQueue' = cmdQueue
  BY DEF Start, unchangedByPolicy
<1>7. DbOK(db') /\ Mirrors(policy.profiles, Order(db'), <<>>)
  BY <1>1, <1>2, <1>5, <1>6, EmptyIsSilent DEF Coherent, Mirrors
<1>8. Coherent(policy', todo', db') /\ ~Has(todo', "Start")
  BY <1>1, <1>4, <1>5, <1>7, HandledCoherent, RestIsHarmless
<1>9. TypeRest'
  BY <1>1, <1>6, <1>7 DEF Start, unchangedByPolicy, TypeRest, Esp!DriverType
<1> QED
  BY <1>1, <1>4, <1>6, <1>8, <1>9, GoesOnRunning

LEMMA PasswordForType ==
    ASSUME TypeRest, NEW s, NEW o
    PROVE  PasswordFor(s, o) \in Esp!Passwords
<1>1. pending.pw \in Esp!Passwords /\ Wrong \in Esp!Passwords
  BY DEF TypeRest, Esp!Passwords
<1>2. Known(db, s) => RecordOf(s).pw \in Esp!Passwords
  BY RecordOfFacts DEF TypeRest, Record
<1> QED
  BY <1>1, <1>2 DEF PasswordFor

LEMMA ExecuteConnectKeeps ==
    ASSUME IInv, ExecuteConnect
    PROVE  IInv'
<1>1. /\ Running /\ PolicyOK(policy) /\ Coherent(policy, todo, db) /\ TypeRest
      /\ ~StartedWaits /\ todo # <<>> /\ Head(todo).act = "Connect" /\ Head(todo) \in Action
      /\ Tail(todo) \in Seq(Action)
  BY ExecutingFacts DEF ExecuteConnect
<1>2. Executing("Connect") /\ UNCHANGED <<cmdQueue, retryTimer, db, pending>>
  BY DEF ExecuteConnect
<1>3. Head(todo).ssid \in SsidOrEmpty
  BY <1>1, ActionFields
<1>4. CASE /\ Esp!EspConnect(Head(todo).ssid, PasswordFor(Head(todo).ssid, Head(todo).origin))
           /\ connectTimer' = TRUE
           /\ todo' = Tail(todo)
           /\ UNCHANGED policy
  <2> DEFINE s == Head(todo).ssid
             pw == PasswordFor(s, Head(todo).origin)
  <2>1. s \in SsidOrEmpty /\ pw \in Esp!Passwords /\ Esp!EspConnect(s, pw)
    BY <1>1, <1>3, <1>4, PasswordForType
  <2> HIDE DEF s, pw
  <2>2. Esp!DriverType'
    BY <1>1, <2>1, ManagerAssumption
       DEF TypeRest, Esp!DriverType, Esp!EspConnect, Esp!EspDisconnect, Esp!Phases, Esp!Down
  <2>3. TypeRest'
    BY <1>1, <1>2, <1>4, <2>2 DEF TypeRest, DbOK, WellFormed
  <2> QED
    BY <1>2, <1>4, <2>3, TakenOff
<1>5. CASE /\ Esp!EspConnectRefused(Head(todo).ssid, ConnectMayFail)
           /\ InConnectFail("Other", Tail(todo))
           /\ UNCHANGED connectTimer
  <2> DEFINE rest == Tail(todo)
  <2>1. /\ ~Has(todo, "Start") /\ policy.state # "Idle" /\ DbOK(db)
    BY <1>1 DEF Running, TypeRest
  <2>2. Harmless(rest) /\ ~Edits(todo) /\ NoCredit(todo)
    BY <1>1, <2>1, TailCoherent
  <2>3. rest \in Seq(Action) /\ InConnectFail("Other", rest) /\ "Other" \in FailClasses
    BY <1>1, <1>5 DEF FailClasses
  <2> HIDE DEF rest
  <2>4. Handled(rest)
    BY <1>1, <2>3, ConnectFailFacts, FailsHandled, IgnoredHandled
  <2>5. DbOK(db') /\ Mirrors(policy.profiles, Order(db'), <<>>)
    BY <1>1, <1>2, <2>1, <2>2, EmptyIsSilent DEF Coherent, Mirrors
  <2>6. /\ Coherent(policy', todo', db') /\ ~Has(todo', "Start") /\ policy'.state # "Idle"
    BY <1>1, <2>1, <2>2, <2>4, <2>5, HandledCoherent
  <2>7. Esp!DriverType'
    BY <1>1, <1>5 DEF TypeRest, Esp!DriverType, Esp!EspConnectRefused, Esp!driverVars
  <2>8. TypeRest'
    BY <1>1, <1>2, <1>5, <2>5, <2>7 DEF TypeRest
  <2> QED
    BY <1>1, <1>2, <2>6, <2>8, GoesOnRunning
<1> QED
  BY <1>4, <1>5 DEF ExecuteConnect

LEMMA ExecuteQuietKeeps ==
    ASSUME IInv, ExecuteDisconnect \/ ExecuteRetryTimer \/ ExecuteEvent \/ ExecuteArmIfTeardown
    PROVE  IInv'
<1>1. TypeRest
  BY DEF IInv, TypeOK, TypeRest, DbOK
<1>2. CASE ExecuteDisconnect
  <2>1. Esp!DriverType'
    BY <1>1, <1>2, EspDisconnectType DEF ExecuteDisconnect, TypeRest
  <2>2. TypeRest'
    BY <1>1, <1>2, <2>1 DEF ExecuteDisconnect, TypeRest, DbOK, WellFormed
  <2> QED
    BY <1>2, <2>2, TakenOff DEF ExecuteDisconnect
<1>3. CASE ExecuteRetryTimer
  <2>1. TypeRest'
    BY <1>1, <1>3 DEF ExecuteRetryTimer, TypeRest, DbOK, WellFormed, Esp!DriverType
  <2> QED
    BY <1>3, <2>1, TakenOff DEF ExecuteRetryTimer
<1>4. CASE ExecuteEvent
  <2>1. TypeRest'
    BY <1>1, <1>4 DEF ExecuteEvent, TypeRest, DbOK, WellFormed, Esp!DriverType
  <2> QED
    BY <1>4, <2>1, TakenOff DEF ExecuteEvent
<1>5. CASE ExecuteArmIfTeardown
  <2>1. policy.teardown \in BOOLEAN
    BY DEF IInv, TypeOK, Policy
  <2>2. connectTimer' \in BOOLEAN
    BY <1>1, <1>5, <2>1 DEF ExecuteArmIfTeardown, TypeRest
  <2>3. TypeRest'
    BY <1>1, <1>5, <2>2 DEF ExecuteArmIfTeardown, TypeRest, DbOK, WellFormed, Esp!DriverType
  <2> QED
    BY <1>5, <2>3, TakenOff DEF ExecuteArmIfTeardown
<1> QED
  BY <1>2, <1>3, <1>4, <1>5

\* The policy has been told of the new database d.
LEMMA Synchronised ==
    ASSUME PolicyOK(policy), DbOK(db'), SetProfiles(db'.recs, db'.last),
           NEW acts \in Seq(Action), todo' = acts, OnlyFirstEdits(acts), ~Edits(acts), NoCredit(acts),
           policy.origin = "Autoconnect" \/ policy.state = "Connected" =>
               OpenRecs(db'.recs, policy.current)
    PROVE  Coherent(policy', todo', db') /\ policy'.state = policy.state
<1>1. PICK d : d = db'
  OBVIOUS
<1>2. DbOK(d) /\ SetProfiles(d.recs, d.last)
  BY <1>1
<1>3. /\ PolicyOK(policy') /\ Mirrors(policy'.profiles, Order(d), <<>>)
      /\ policy'.state = policy.state /\ policy'.origin = policy.origin
      /\ policy'.current = policy.current
  BY <1>2, SetProfilesFacts
<1>4. Mirrors(policy'.profiles, Order(d), acts)
  BY <1>3, EmptyIsSilent DEF Mirrors
<1>5. policy'.origin = "Autoconnect" \/ policy'.state = "Connected" =>
          OpenFor(policy', policy'.current)
  <2> DEFINE profiles == policy'.profiles
             s == policy'.current
  <2>1. OpenRecs(d.recs, s) => OpenRecs(profiles, s)
    <3>1. Mirrors(profiles, Order(d), acts)
      BY <1>4
    <3> HIDE DEF profiles, s
    <3> QED
      BY <1>2, <3>1, OpenMirrored
  <2> QED
    BY <1>1, <1>3, <2>1 DEF OpenRecs, OpenFor
<1> QED
  BY <1>1, <1>3, <1>4, <1>5, Zenon DEF Coherent

LEMMA ExecuteMarkLastSuccessKeeps ==
    ASSUME IInv, ExecuteMarkLastSuccess
    PROVE  IInv'
<1>1. /\ Running /\ PolicyOK(policy) /\ Coherent(policy, todo, db) /\ TypeRest
      /\ ~StartedWaits /\ todo # <<>> /\ Head(todo).act = "MarkLastSuccess"
      /\ Head(todo) \in Action /\ Head(todo) = todo[1]
  BY ExecutingFacts DEF ExecuteMarkLastSuccess
<1>2. todo = Credits(policy) /\ policy.state = "Connected"
  <2>1. ~NoCredit(todo)
    <3>1. 1 \in 1 .. Len(todo)
      BY <1>1 DEF Coherent
    <3> QED
      BY <1>1, <3>1 DEF NoCredit
  <2> QED
    BY <1>1, <2>1 DEF Coherent
<1> DEFINE a == ActMarkLastSuccess(policy.current)
           b == ActEvent("Connected", policy.current)
<1>3. a.act = "MarkLastSuccess" /\ a.ssid = policy.current /\ b.act = "EmitEvent"
  BY ActKinds
<1>4. todo = <<a, b>>
  BY <1>2 DEF Credits
<1> HIDE DEF a, b
<1>5. Tail(todo) = <<b>> /\ Head(todo) = a /\ b \in Action
  <2>1. todo \in Seq(Action) /\ 2 \in 1 .. Len(todo) /\ todo[2] = b
    BY <1>1, <1>4 DEF Coherent
  <2> QED
    BY <1>4, <2>1
<1>6. policy.current \in Ssids
  BY <1>1, <1>3, <1>5, ActionFields
<1> DEFINE s == policy.current
           old == IF Known(db, s) THEN RecordOf(s).pw ELSE Wrong
           new == [ssid |-> s, pw |-> IF pending.ssid = s THEN pending.pw ELSE old,
                   blocked |-> FALSE]
           recs == IF Known(db, s) THEN Replaced(s, new)
                   ELSE IF Len(db.recs) < MaxProfiles THEN Append(db.recs, new) ELSE db.recs
<1>7. /\ SaveAndSync([recs |-> recs, last |-> s])
      /\ pending' = [ssid |-> Empty, pw |-> Wrong]
      /\ todo' = <<b>>
      /\ UNCHANGED <<link, leaving, cmdQueue, connectTimer, retryTimer>>
  BY <1>3, <1>5 DEF ExecuteMarkLastSuccess
<1>8. new \in Record /\ new.ssid = s /\ ~new.blocked
  <2>1. old \in Esp!Passwords /\ pending.pw \in Esp!Passwords
    <3>1. pending.pw \in Esp!Passwords /\ Wrong \in Esp!Passwords
      BY <1>1 DEF TypeRest, Esp!Passwords
    <3>2. Known(db, s) => RecordOf(s).pw \in Esp!Passwords
      BY <1>1, RecordOfFacts DEF TypeRest, Record
    <3> QED
      BY <3>1, <3>2
  <2> HIDE DEF old
  <2> QED
    BY <1>6, <2>1 DEF Record
<1> HIDE DEF new
<1>9. s \in Ssids /\ s = policy.current
  BY <1>6
<1> DEFINE d == [recs |-> recs, last |-> s]
<1> HIDE DEF s
<1>10. DbOK(d) /\ OpenRecs(recs, s)
  BY <1>1, <1>8, <1>9, MarkedFacts DEF TypeRest
<1> HIDE DEF recs
<1>11. d.recs = recs /\ d.last = s /\ db' = d /\ SetProfiles(d.recs, d.last)
  BY <1>7 DEF SaveAndSync
<1> HIDE DEF d
<1> DEFINE acts == <<b>>
<1>12. /\ acts \in Seq(Action) /\ todo' = acts /\ OnlyFirstEdits(acts) /\ ~Edits(acts)
       /\ NoCredit(acts) /\ ~Has(acts, "Start")
  BY <1>3, <1>5, <1>7 DEF OnlyFirstEdits, Edits, NoCredit, Has
<1> HIDE DEF acts
<1>13. DbOK(db') /\ SetProfiles(db'.recs, db'.last) /\ OpenRecs(db'.recs, policy.current)
  BY <1>9, <1>10, <1>11
<1>14. Coherent(policy', todo', db') /\ policy'.state = policy.state
  BY <1>1, <1>12, <1>13, Synchronised
<1>15. TypeRest'
  <2>1. [ssid |-> Empty, pw |-> Wrong] \in [ssid : SsidOrEmpty, pw : Esp!Passwords]
    BY DEF SsidOrEmpty, Esp!Passwords
  <2> QED
    BY <1>1, <1>7, <1>13, <2>1 DEF TypeRest, Esp!DriverType
<1>16. policy'.state # "Idle" /\ ~Has(todo', "Start")
  BY <1>2, <1>12, <1>14
<1> QED
  BY <1>1, <1>7, <1>14, <1>15, <1>16, GoesOnRunning

LEMMA ExecuteSetBlockedKeeps ==
    ASSUME IInv, ExecuteSetBlocked
    PROVE  IInv'
<1>1. /\ Running /\ PolicyOK(policy) /\ Coherent(policy, todo, db) /\ TypeRest
      /\ ~StartedWaits /\ todo # <<>> /\ Head(todo).act = "SetBlocked"
      /\ Head(todo) \in Action /\ Head(todo) = todo[1]
  BY ExecutingFacts DEF ExecuteSetBlocked
<1>2. /\ todo \in Seq(Action) /\ Tail(todo) \in Seq(Action) /\ Len(Tail(todo)) = Len(todo) - 1
      /\ Len(todo) \in Nat /\ \A i \in 1 .. Len(todo) - 1 : Tail(todo)[i] = todo[i + 1]
  BY <1>1 DEF Coherent
<1>3. Edits(todo) /\ todo[1].ssid \in Ssids /\ todo[1].flag \in BOOLEAN
  BY <1>1, ActionFields DEF Edits
<1>4. NoCredit(todo)
  <2>1. CASE todo = Credits(policy)
    <3> DEFINE a == ActMarkLastSuccess(policy.current)
               b == ActEvent("Connected", policy.current)
    <3>1. a.act = "MarkLastSuccess" /\ todo = <<a, b>>
      BY <2>1, ActKinds DEF Credits
    <3> HIDE DEF a, b
    <3> QED
      BY <1>1, <3>1
  <2> QED
    BY <1>1, <2>1 DEF Coherent
<1> DEFINE s == todo[1].ssid
           b == todo[1].flag
           d == [db EXCEPT !.recs = Replaced(s, [RecordOf(s) EXCEPT !.blocked = b])]
<1>5. db' = d /\ todo' = Tail(todo)
      /\ UNCHANGED <<policy, link, leaving, cmdQueue, connectTimer, retryTimer, pending>>
  BY <1>1 DEF ExecuteSetBlocked
<1>6. s = todo[1].ssid /\ b = todo[1].flag /\ b \in BOOLEAN
  BY <1>3
<1> HIDE DEF s, b
<1>7. DbOK(d) /\ Mirrors(policy.profiles, Order(d), <<>>)
  BY <1>1, <1>3, <1>6, SetBlockedFacts DEF TypeRest, Coherent
<1> HIDE DEF d
<1> DEFINE t == Tail(todo)
<1>8. /\ t \in Seq(Action) /\ Len(t) = Len(todo) - 1
      /\ \A i \in 1 .. Len(t) : t[i] = todo[i + 1] /\ i + 1 \in 2 .. Len(todo)
                                /\ i + 1 \in 1 .. Len(todo)
  BY <1>2
<1> HIDE DEF t
<1>9. \A i \in 1 .. Len(t) : t[i].act \notin {"SetBlocked", "MarkLastSuccess", "Start"}
  BY <1>1, <1>4, <1>8 DEF Coherent, OnlyFirstEdits, NoCredit, Running, Has
<1>10. NoCredit(t) /\ OnlyFirstEdits(t) /\ ~Edits(t) /\ ~Has(t, "Start")
  BY <1>8, <1>9 DEF NoCredit, OnlyFirstEdits, Edits, Has
<1>11. Mirrors(policy.profiles, Order(d), t)
  BY <1>7, <1>10, EmptyIsSilent DEF Mirrors
<1>12. Coherent(policy, t, d)
  BY <1>1, <1>4, <1>8, <1>10, <1>11, Zenon DEF Coherent
<1>13. todo' = t /\ db' = d /\ policy' = policy /\ cmdQueue' = cmdQueue
  BY <1>5 DEF t
<1>14. TypeRest'
  BY <1>1, <1>5, <1>7, <1>13 DEF TypeRest, Esp!DriverType
<1>15. /\ Coherent(policy', todo', db') /\ ~Has(todo', "Start") /\ policy'.state # "Idle"
  BY <1>1, <1>10, <1>12, <1>13 DEF Running
<1> QED
  BY <1>1, <1>13, <1>14, <1>15, GoesOnRunning

LEMMA ExecuteRemoveKeeps ==
    ASSUME IInv, ExecuteRemove
    PROVE  IInv'
<1>1. /\ Running /\ PolicyOK(policy) /\ Coherent(policy, todo, db) /\ TypeRest
      /\ ~StartedWaits /\ todo # <<>> /\ Head(todo).act = "Remove"
      /\ Head(todo) \in Action /\ Tail(todo) \in Seq(Action)
  BY ExecutingFacts DEF ExecuteRemove
<1>2. /\ Executing("Remove") /\ todo' = Tail(todo)
      /\ UNCHANGED <<link, leaving, cmdQueue, connectTimer, retryTimer, pending>>
  BY DEF ExecuteRemove
<1>3. CASE UNCHANGED <<db, policy>>
  <2>1. TypeRest'
    BY <1>1, <1>2, <1>3 DEF TypeRest, DbOK, WellFormed, Esp!DriverType
  <2> QED
    BY <1>2, <1>3, <2>1, TakenOff
<1>4. ASSUME NEW s, Known(db, s),
             SaveAndSync([recs |-> RemoveAt(db.recs, PositionOf(db.recs, s)),
                          last |-> IF db.last = s THEN Empty ELSE db.last])
      PROVE  IInv'
  <2> DEFINE recs == RemoveAt(db.recs, PositionOf(db.recs, s))
             last == IF db.last = s THEN Empty ELSE db.last
             d == [recs |-> recs, last |-> last]
             t == Tail(todo)
  <2>1. last \in SsidOrEmpty /\ DbOK(db)
    BY <1>1, DbFields DEF TypeRest, SsidOrEmpty
  <2>2. d.recs = recs /\ d.last = last /\ db' = d /\ SetProfiles(d.recs, d.last)
    BY <1>4 DEF SaveAndSync
  <2> HIDE DEF last
  <2>3. /\ DbOK(d)
        /\ \A i \in 1 .. Len(recs) : \E j \in 1 .. Len(db.recs) : recs[i] = db.recs[j]
    BY <1>4, <2>1, RemovedFacts
  <2> HIDE DEF recs, d
  <2>4. ~Has(todo, "Start") /\ policy.state # "Idle"
    BY <1>1 DEF Running
  <2>5. Harmless(t) /\ ~Edits(todo) /\ NoCredit(todo)
    BY <1>1, <2>4, TailCoherent
  <2>6. t \in Seq(Action) /\ todo' = t
    BY <1>1, <1>2
  <2> HIDE DEF t
  <2>7. OnlyFirstEdits(t) /\ ~Edits(t) /\ NoCredit(t) /\ ~Has(t, "Start")
    <3>1. t # <<>> => 1 \in 1 .. Len(t)
      BY <2>6
    <3>2. \A i \in 2 .. Len(t) : i \in 1 .. Len(t)
      BY <2>6
    <3> QED
      BY <2>5, <3>1, <3>2 DEF Harmless, OnlyFirstEdits, Edits, NoCredit, Has
  <2>8. ASSUME policy.origin = "Autoconnect" \/ policy.state = "Connected"
        PROVE  OpenRecs(d.recs, policy.current)
    <3> DEFINE profiles == policy.profiles
               cur == policy.current
    <3>1. OpenFor(policy, policy.current) /\ Mirrors(profiles, Order(db), todo)
      BY <1>1, <2>5, <2>8 DEF Coherent
    <3>2. OpenRecs(profiles, cur)
      BY <3>1 DEF OpenFor, OpenRecs
    <3> HIDE DEF profiles, cur
    <3>3. OpenRecs(db.recs, cur)
      BY <2>1, <2>5, <3>1, <3>2, OpenMirrored
    <3>4. OpenRecs(recs, cur)
      BY <2>3, <3>3 DEF OpenRecs
    <3> QED
      BY <2>2, <3>4 DEF cur
  <2>9. DbOK(db') /\ SetProfiles(db'.recs, db'.last)
        /\ (policy.origin = "Autoconnect" \/ policy.state = "Connected" =>
               OpenRecs(db'.recs, policy.current))
    BY <2>2, <2>3, <2>8
  <2>10. Coherent(policy', todo', db') /\ policy'.state = policy.state
    BY <1>1, <2>6, <2>7, <2>9, Synchronised
  <2>11. TypeRest'
    BY <1>1, <1>2, <2>9 DEF TypeRest, Esp!DriverType
  <2>12. policy'.state # "Idle" /\ ~Has(todo', "Start")
    BY <2>4, <2>6, <2>7, <2>10
  <2> QED
    BY <1>1, <1>2, <2>10, <2>11, <2>12, GoesOnRunning
<1> QED
  BY <1>3, <1>4 DEF ExecuteRemove

LEMMA ExecuteKeeps ==
    ASSUME IInv, Execute
    PROVE  IInv'
BY StartKeeps, ExecuteConnectKeeps, ExecuteQuietKeeps, ExecuteMarkLastSuccessKeeps,
   ExecuteSetBlockedKeeps, ExecuteRemoveKeeps DEF Execute

-----------------------------------------------------------------------------
(* Callbacks and the API.                                                  *)

\* Nobody but the boot sends CMD_STARTED; nothing else happens here.
LEMMA QueuedFacts ==
    ASSUME cmdQueue \in Seq(Command), Len(cmdQueue) =< QueueLen, StartedFirst,
           NEW cmd \in Command, cmd.kind # "Started",
           \/ Len(cmdQueue) < QueueLen /\ cmdQueue' = Append(cmdQueue, cmd)
           \/ UNCHANGED cmdQueue
    PROVE  /\ cmdQueue' \in Seq(Command) /\ Len(cmdQueue') =< QueueLen
           /\ StartedFirst' /\ (StartedWaits' <=> StartedWaits)
<1>1. CASE UNCHANGED cmdQueue
  BY <1>1 DEF StartedFirst, StartedWaits
<1>2. CASE Len(cmdQueue) < QueueLen /\ cmdQueue' = Append(cmdQueue, cmd)
  <2>1. /\ cmdQueue' \in Seq(Command) /\ Len(cmdQueue') = Len(cmdQueue) + 1
        /\ Len(cmdQueue) \in Nat /\ QueueLen \in Nat
        /\ \A i \in 1 .. Len(cmdQueue) : cmdQueue'[i] = cmdQueue[i]
        /\ cmdQueue'[Len(cmdQueue) + 1] = cmd
    BY <1>2, ManagerAssumption
  <2>2. StartedFirst'
    <3> SUFFICES ASSUME NEW i \in 2 .. Len(cmdQueue') PROVE cmdQueue'[i].kind # "Started"
      BY DEF StartedFirst
    <3> QED
      BY <2>1 DEF StartedFirst
  <2>3. CASE cmdQueue = <<>>
    BY <2>1, <2>2, <2>3, <1>2 DEF StartedWaits
  <2>4. CASE cmdQueue # <<>>
    <3>1. 1 \in 1 .. Len(cmdQueue) /\ cmdQueue' # <<>>
      BY <2>1, <2>4
    <3> QED
      BY <1>2, <2>1, <2>2, <3>1 DEF StartedWaits
  <2> QED
    BY <2>3, <2>4
<1> QED
  BY <1>1, <1>2

\* A step outside the task changes neither the policy nor what it executes.
LEMMA OutsideKeeps ==
    ASSUME IInv, UNCHANGED <<policy, todo, db>>, TypeRest', StartedFirst',
           StartedWaits' <=> StartedWaits
    PROVE  IInv'
<1>1. TypeOK'
  BY DEF IInv, TypeOK, TypeRest, DbOK
<1>2. (Waiting \/ Starting \/ Running)'
  BY DEF IInv, Waiting, Starting, Running, StartedWaits, Coherent, Has, OpenFor, Credits, NoCredit,
     OnlyFirstEdits, PolicyOK, Distinct
<1> QED
  BY <1>1, <1>2 DEF IInv

LEMMA EnqueueFacts ==
    ASSUME NEW cmd, Enqueue(cmd)
    PROVE  \/ Len(cmdQueue) < QueueLen /\ cmdQueue' = Append(cmdQueue, cmd)
           \/ UNCHANGED cmdQueue
BY DEF Enqueue

LEMMA CallbackKeeps ==
    ASSUME IInv, Callback
    PROVE  IInv'
<1>1. TypeRest /\ StartedFirst
  BY DEF IInv, TypeOK, TypeRest, DbOK
<1>t. /\ Esp!Down \in [phase : Esp!Phases, ssid : SsidOrEmpty, pw : Esp!Passwords]
      /\ \A l \in [phase : Esp!Phases, ssid : SsidOrEmpty, pw : Esp!Passwords] :
            [l EXCEPT !.phase = "Up"]
                \in [phase : Esp!Phases, ssid : SsidOrEmpty, pw : Esp!Passwords]
  BY DEF Esp!Down, Esp!Phases, Esp!Passwords, SsidOrEmpty
<1>2. ASSUME NEW cmd \in Command, cmd.kind # "Started", Enqueue(cmd), UNCHANGED unchangedByCallback,
             Esp!DriverType', connectTimer' \in BOOLEAN, retryTimer' \in BOOLEAN
      PROVE  IInv'
  <2>1. /\ cmdQueue' \in Seq(Command) /\ Len(cmdQueue') =< QueueLen
        /\ StartedFirst' /\ (StartedWaits' <=> StartedWaits)
    BY <1>1, <1>2, EnqueueFacts, QueuedFacts DEF TypeRest
  <2>2. TypeRest'
    BY <1>1, <1>2, <2>1 DEF TypeRest, unchangedByCallback, DbOK, WellFormed
  <2> QED
    BY <1>2, <2>1, <2>2, OutsideKeeps DEF unchangedByCallback
<1>3. CASE ConnectTimerFires
  <2>1. [kind |-> "ConnectTimeout"] \in Command
    BY DEF Command
  <2>2. Esp!DriverType' /\ connectTimer' \in BOOLEAN /\ retryTimer' \in BOOLEAN
    BY <1>1, <1>3 DEF ConnectTimerFires, TypeRest, Esp!DriverType
  <2> QED
    BY <1>2, <1>3, <2>1, <2>2 DEF ConnectTimerFires
<1>4. CASE RetryTimerFires
  <2>1. [kind |-> "RetryExpired"] \in Command
    BY DEF Command
  <2>2. Esp!DriverType' /\ connectTimer' \in BOOLEAN /\ retryTimer' \in BOOLEAN
    BY <1>1, <1>4 DEF RetryTimerFires, TypeRest, Esp!DriverType
  <2> QED
    BY <1>2, <1>4, <2>1, <2>2 DEF RetryTimerFires
<1>5. ASSUME NEW class \in FailClasses, NEW own \in BOOLEAN, OnDisconnected(class, own),
             Esp!DriverType'
      PROVE  IInv'
  <2>1. [kind |-> "Disconnected", class |-> class, own |-> own] \in Command
    BY DEF Command
  <2> QED
    BY <1>1, <1>2, <1>5, <2>1 DEF OnDisconnected, TypeRest
<1>6. "Other" \in FailClasses
  BY DEF FailClasses
<1>7. CASE DriverLeft
  <2>1. Esp!DriverType'
    BY <1>1, <1>7, ManagerAssumption DEF DriverLeft, Esp!EspLeft, TypeRest, Esp!DriverType
  <2> QED
    BY <1>5, <1>6, <1>7, <2>1 DEF DriverLeft
<1>8. CASE DriverJoinFails
  <2>1. PICK class \in FailClasses : Esp!EspJoinFails(class) /\ OnDisconnected(class, FALSE)
    BY <1>8 DEF DriverJoinFails
  <2>2. Esp!DriverType'
    BY <1>1, <1>t, <2>1 DEF Esp!EspJoinFails, TypeRest, Esp!DriverType
  <2> QED
    BY <1>5, <2>1, <2>2
<1>9. CASE DriverLinkDrops
  <2>1. Esp!DriverType'
    BY <1>1, <1>t, <1>9 DEF DriverLinkDrops, Esp!EspLinkDrops, TypeRest, Esp!DriverType
  <2> QED
    BY <1>5, <1>6, <1>9, <2>1 DEF DriverLinkDrops
<1>10. CASE DriverGotIp
  <2>1. [kind |-> "GotIp", from |-> link.ssid] \in Command
    BY <1>1 DEF Command, TypeRest, Esp!DriverType
  <2>2. Esp!DriverType'
    BY <1>1, <1>t, <1>10 DEF DriverGotIp, Esp!EspJoinSucceeds, TypeRest, Esp!DriverType
  <2> QED
    BY <1>1, <1>2, <1>10, <2>1, <2>2 DEF DriverGotIp, TypeRest
<1> QED
  BY <1>3, <1>4, <1>7, <1>8, <1>9, <1>10 DEF Callback

LEMMA UserKeeps ==
    ASSUME IInv, User
    PROVE  IInv'
<1>1. TypeRest /\ StartedFirst
  BY DEF IInv, TypeOK, TypeRest, DbOK
<1>2. ASSUME NEW cmd \in Command, cmd.kind # "Started", Issue(cmd)
      PROVE  IInv'
  <2>1. /\ cmdQueue' \in Seq(Command) /\ Len(cmdQueue') =< QueueLen
        /\ StartedFirst' /\ (StartedWaits' <=> StartedWaits)
    BY <1>1, <1>2, QueuedFacts DEF TypeRest, Issue
  <2>2. TypeRest'
    BY <1>1, <1>2, <2>1 DEF TypeRest, Issue, DbOK, WellFormed, Esp!DriverType
  <2> QED
    BY <1>2, <2>1, <2>2, OutsideKeeps DEF Issue
<1>3. \A t \in Typed : t[1] \in Ssids /\ t[2] \in Esp!Passwords
  BY ManagerAssumption DEF Esp!Passwords
<1>4. CASE UserConnectNew
  <2>1. PICK t \in Typed : Issue([kind |-> "ConnectNew", ssid |-> t[1], pw |-> t[2]])
    BY <1>4 DEF UserConnectNew
  <2>2. [kind |-> "ConnectNew", ssid |-> t[1], pw |-> t[2]] \in Command
    BY <1>3 DEF Command
  <2> QED
    BY <1>2, <2>1, <2>2
<1>5. CASE UserConnectSaved
  <2>1. PICK s \in Ssids : Issue([kind |-> "ConnectSaved", ssid |-> s])
    BY <1>5 DEF UserConnectSaved, Saved
  <2>2. [kind |-> "ConnectSaved", ssid |-> s] \in Command
    BY DEF Command
  <2> QED
    BY <1>2, <2>1, <2>2
<1>6. CASE UserForget
  <2>1. PICK s \in Ssids : Issue([kind |-> "Forget", ssid |-> s])
    BY <1>6 DEF UserForget, Saved
  <2>2. [kind |-> "Forget", ssid |-> s] \in Command
    BY DEF Command
  <2> QED
    BY <1>2, <2>1, <2>2
<1>7. CASE UserUpdatePassword
  <2>1. PICK t \in Typed : Issue([kind |-> "UpdatePassword", ssid |-> t[1], pw |-> t[2]])
    BY <1>7 DEF UserUpdatePassword
  <2>2. [kind |-> "UpdatePassword", ssid |-> t[1], pw |-> t[2]] \in Command
    BY <1>3 DEF Command
  <2> QED
    BY <1>2, <2>1, <2>2
<1>8. \A kind \in {"Disconnect", "Pause", "Resume"} : [kind |-> kind] \in Command
  BY DEF Command
<1>9. CASE UserDisconnect \/ UserPause \/ UserResume
  BY <1>2, <1>8, <1>9 DEF UserDisconnect, UserPause, UserResume
<1> QED
  BY <1>4, <1>5, <1>6, <1>7, <1>9 DEF User

-----------------------------------------------------------------------------
(* The start.                                                              *)

LEMMA InitialPolicyFacts == PolicyOK(InitialPolicy) /\ InitialPolicy.state = "Idle"
<1> DEFINE p == InitialPolicy
<1>1. /\ p.state = "Idle" /\ p.origin = "None" /\ p.current = Empty /\ p.attempt = 0
      /\ p.fallback = NoFallback /\ p.teardown = FALSE /\ p.profiles = <<>> /\ p.cursor = 0
      /\ p.remaining = 0 /\ p.retryKind = "None"
  BY DEF InitialPolicy
<1>2. p \in Policy
  <2>1. <<>> \in Seq(Profile) /\ 0 \in 0 .. UInt8Max
    BY PolicyAssumption
  <2> QED
    BY <2>1 DEF InitialPolicy, Policy, States, Origins, RetryKinds, SsidOrEmpty
<1>3. Len(<<>>) = 0 /\ MaxProfiles \in Nat
  BY ManagerAssumption
<1>4. Len(p.profiles) =< MaxProfiles /\ Distinct(p.profiles)
  BY <1>1, <1>3 DEF Distinct
<1> HIDE DEF p
<1>5. PolicyOK(p)
  BY <1>1, <1>2, <1>4 DEF PolicyOK
<1> QED
  BY <1>1, <1>5 DEF p

LEMMA StartedAlone ==
    /\ <<[kind |-> "Started"]>> \in Seq(Command) /\ Len(<<[kind |-> "Started"]>>) =< QueueLen
    /\ Esp!Down \in [phase : Esp!Phases, ssid : SsidOrEmpty, pw : Esp!Passwords]
    /\ 0 \in 0 .. LeavingMax
    /\ [ssid |-> Empty, pw |-> Wrong] \in [ssid : SsidOrEmpty, pw : Esp!Passwords]
<1>1. [kind |-> "Started"] \in Command
  BY DEF Command
<1> QED
  BY <1>1, ManagerAssumption DEF Esp!Down, Esp!Phases, Esp!Passwords, SsidOrEmpty

LEMMA RebootKeeps ==
    ASSUME IInv, Reboot
    PROVE  IInv'
<1>1. DbOK(db') /\ <<>> \in Seq(Action)
  BY DEF IInv, TypeOK, DbOK, Reboot, WellFormed
<1>2. TypeOK'
  BY <1>1, StartedAlone, InitialPolicyFacts
     DEF Reboot, TypeOK, DbOK, Esp!DriverType, PolicyOK
<1>3. StartedFirst' /\ Waiting'
  BY InitialPolicyFacts DEF Reboot, StartedFirst, Waiting, StartedWaits
<1> QED
  BY <1>2, <1>3 DEF IInv

LEMMA InitEstablishes ==
    ASSUME WifiInit
    PROVE  IInv
<1>1. DbOK(db) /\ <<>> \in Seq(Action)
  BY DbAssumption DEF WifiInit, DbOK
<1>2. TypeOK
  BY <1>1, StartedAlone, InitialPolicyFacts
     DEF WifiInit, PolicyInit, TypeOK, DbOK, Esp!DriverInit, Esp!DriverType, PolicyOK
<1>3. StartedFirst /\ Waiting
  BY InitialPolicyFacts DEF WifiInit, PolicyInit, StartedFirst, Waiting, StartedWaits
<1> QED
  BY <1>2, <1>3 DEF IInv

LEMMA NextKeeps ==
    ASSUME IInv, [WifiNext]_wifiVars
    PROVE  IInv'
<1>1. CASE UNCHANGED wifiVars
  <2>1. TypeRest' /\ UNCHANGED <<policy, todo, db, cmdQueue>>
    BY <1>1 DEF wifiVars, IInv, TypeOK, TypeRest, DbOK, WellFormed, Esp!DriverType
  <2> QED
    BY <2>1, OutsideKeeps DEF IInv, StartedFirst, StartedWaits
<1> QED
  BY <1>1, HandleKeeps, ExecuteKeeps, CallbackKeeps, UserKeeps, RebootKeeps DEF WifiNext

-----------------------------------------------------------------------------
(* The theorems that hold whatever the user asks and whatever is lost.     *)

\* The policy, what is left to execute and the database always fit together.
THEOREM InductiveInvariant == WifiSpec => []IInv
BY InitEstablishes, NextKeeps, PTL DEF WifiSpec

\* Every variable of the adapter and of the policy keeps its type: in particular
\* the cursor and the byte counters stay in range, the queue never holds more
\* than WIFI_MGR_CMD_QUEUE_LEN commands, and no edit of the database stores an
\* SSID twice or a profile too many.
THEOREM TypeCorrect == WifiSpec => []TypeOK
<1>1. IInv => TypeOK
  BY DEF IInv
<1> QED
  BY <1>1, InductiveInvariant, PTL

\* Whatever is edited while whatever is going on, the policy's copy of the
\* profiles agrees with the database as soon as no edit is pending.
THEOREM AlwaysMirrorsDb == WifiSpec => []PolicyMirrorsDb
<1>1. ASSUME IInv PROVE PolicyMirrorsDb
  <2>1. SUFFICES ASSUME policy.state # "Idle", ~EditPending
                 PROVE  View(policy.profiles) = View(AutoconnectOrder(db.recs, db.last))
    BY DEF PolicyMirrorsDb
  <2>2. Running /\ Coherent(policy, todo, db)
    BY <1>1, <2>1 DEF IInv, Waiting, Starting, Running
  <2>3. ~Edits(todo)
    <3>1. todo # <<>> => 1 \in 1 .. Len(todo)
      BY <2>2 DEF Coherent
    <3> QED
      BY <2>1, <3>1 DEF EditPending, Edits
  <2>4. /\ Len(policy.profiles) = Len(Order(db))
        /\ \A i \in 1 .. Len(Order(db)) : /\ policy.profiles[i].ssid = Order(db)[i].ssid
                                          /\ policy.profiles[i].blocked = Order(db)[i].blocked
    BY <2>2, <2>3 DEF Coherent, Mirrors
  <2> QED
    BY <2>4 DEF View, Order
<1> QED
  BY <1>1, InductiveInvariant, PTL

\* Autoconnect never has a blocked profile as the network it is trying, for any
\* order of cycles, retries, lost links, edits and restarts.
THEOREM BlockedIsNeverTried == WifiSpec => []BlockedIsNotTried
<1>1. ASSUME IInv PROVE BlockedIsNotTried
  <2>1. SUFFICES ASSUME policy.state = "Connecting", policy.origin = "Autoconnect"
                 PROVE  OpenFor(policy, policy.current)
    BY DEF BlockedIsNotTried, OpenFor
  <2>2. Coherent(policy, todo, db)
    BY <1>1, <2>1 DEF IInv, Waiting, Starting, Running
  <2> QED
    BY <2>1, <2>2 DEF Coherent
<1> QED
  BY <1>1, InductiveInvariant, PTL

-----------------------------------------------------------------------------
(* Without FORGET the cycle stays on course.                               *)

NoForgetting == \A i \in 1 .. Len(cmdQueue) : cmdQueue[i].kind # "Forget"

\* What is left to execute has the shape the policy gave it.
Shaped(p, acts) ==
    /\ ~Has(acts, "Remove")
    /\ Orderly(acts)
    /\ ForCurrent(p, acts)
    /\ ArmsLast(acts)

Steady == NoForgetting /\ OnCourse(policy) /\ Shaped(policy, todo)

LEMMA HandledSteady ==
    ASSUME OnCourse(policy), NEW rest, Harmless(rest), Tame(rest), Handled(rest)
    PROVE  OnCourse(policy') /\ Shaped(policy', todo')
<1>1. PICK acts : Fed(policy, policy', acts) /\ Answered(acts, rest)
  BY DEF Handled
<1>2. /\ acts \in Seq(Emitted) /\ rest \in Seq(Action) /\ OnCourse(policy')
      /\ Orderly(acts) /\ ForCurrent(policy', acts)
  BY <1>1 DEF Fed, Harmless
<1>3. PICK tail \in Seq(Action) : todo' = acts \o tail /\ (tail = rest \/ tail = <<>>)
  <2>1. CASE todo' = acts \o rest
    BY <1>2, <2>1
  <2>2. CASE todo' = acts
    <3>1. acts \o <<>> = acts /\ <<>> \in Seq(Action)
      BY <1>2
    <3> QED
      BY <2>2, <3>1
  <2> QED
    BY <1>1, <2>1, <2>2 DEF Answered
<1>4. Tame(tail)
  BY <1>3, RestIsHarmless
<1> DEFINE both == acts \o tail
<1>5. /\ both \in Seq(Action) /\ Len(both) = Len(acts) + Len(tail)
      /\ \A i \in 1 .. Len(both) :
            \/ i \in 1 .. Len(acts) /\ both[i] = acts[i]
            \/ i - Len(acts) \in 1 .. Len(tail) /\ both[i] = tail[i - Len(acts)]
  BY <1>2, <1>3, JoinRest
<1>6. todo' = both
  BY <1>3
<1> HIDE DEF both
<1>n. Len(acts) \in Nat /\ Len(tail) \in Nat
  BY <1>2, <1>3
<1>7. \A i \in 1 .. Len(acts) : acts[i].act \notin {"Remove", "ArmIfTeardown"}
  BY <1>2, EmittedKinds
<1>8. \A i \in 1 .. Len(tail) : tail[i].act \in {"EmitEvent", "ArmIfTeardown"}
  BY <1>4 DEF Tame
<1>9. ~Has(both, "Remove")
  BY <1>5, <1>7, <1>8 DEF Has
<1>10. Orderly(both)
  <2> SUFFICES ASSUME NEW i \in 1 .. Len(both), NEW j \in 1 .. Len(both), i < j,
                      both[i].act \in {"Connect", "StartRetryTimer"}
               PROVE  both[j].act \in {"EmitEvent", "ArmIfTeardown"}
    BY DEF Orderly
  <2>1. i \in 1 .. Len(acts) /\ both[i] = acts[i]
    BY <1>5, <1>8
  <2>2. CASE j \in 1 .. Len(acts) /\ both[j] = acts[j]
    BY <1>2, <2>1, <2>2 DEF Orderly
  <2>3. CASE j - Len(acts) \in 1 .. Len(tail) /\ both[j] = tail[j - Len(acts)]
    BY <1>8, <2>3
  <2> QED
    BY <1>5, <2>2, <2>3
<1>11. ForCurrent(policy', both)
  <2> SUFFICES ASSUME NEW i \in 1 .. Len(both), both[i].act = "Connect"
               PROVE  both[i].ssid = policy'.current
    BY DEF ForCurrent
  <2>1. i \in 1 .. Len(acts) /\ both[i] = acts[i]
    BY <1>5, <1>8
  <2> QED
    BY <1>2, <2>1 DEF ForCurrent
<1>12. ArmsLast(both)
  <2> SUFFICES ASSUME NEW i \in 1 .. Len(both) - 1
               PROVE  both[i].act # "ArmIfTeardown"
    BY DEF ArmsLast
  <2>1. i \in 1 .. Len(both)
    BY <1>5, <1>n
  <2>2. CASE i \in 1 .. Len(acts) /\ both[i] = acts[i]
    BY <1>7, <2>2
  <2>3. CASE i - Len(acts) \in 1 .. Len(tail) /\ both[i] = tail[i - Len(acts)]
    <3>1. i - Len(acts) \in 1 .. Len(tail) - 1
      BY <1>5, <1>n, <2>3
    <3> QED
      BY <1>4, <2>3, <3>1 DEF Tame, ArmsLast
  <2> QED
    BY <1>5, <2>1, <2>2, <2>3
<1> QED
  BY <1>2, <1>6, <1>9, <1>10, <1>11, <1>12 DEF Shaped

\* An entry is taken off; the policy's network is the same.
LEMMA TailShaped ==
    ASSUME todo \in Seq(Action), todo # <<>>, Shaped(policy, todo),
           NEW q, q.current = policy.current
    PROVE  /\ Shaped(q, Tail(todo))
           /\ Head(todo).act \in {"Connect", "StartRetryTimer"} => Tame(Tail(todo))
           /\ Head(todo).act = "ArmIfTeardown" => Tail(todo) = <<>>
<1> DEFINE t == Tail(todo)
<1>1. /\ t \in Seq(Action) /\ Len(t) = Len(todo) - 1 /\ Len(todo) \in Nat \ {0}
      /\ \A i \in 1 .. Len(t) : t[i] = todo[i + 1] /\ i + 1 \in 1 .. Len(todo)
      /\ Head(todo) = todo[1] /\ 1 \in 1 .. Len(todo)
  OBVIOUS
<1> HIDE DEF t
<1>2. ~Has(t, "Remove")
  BY <1>1 DEF Shaped, Has
<1>3. Orderly(t)
  <2> SUFFICES ASSUME NEW i \in 1 .. Len(t), NEW j \in 1 .. Len(t), i < j,
                      t[i].act \in {"Connect", "StartRetryTimer"}
               PROVE  t[j].act \in {"EmitEvent", "ArmIfTeardown"}
    BY DEF Orderly
  <2>1. i + 1 \in 1 .. Len(todo) /\ j + 1 \in 1 .. Len(todo) /\ i + 1 < j + 1
        /\ t[i] = todo[i + 1] /\ t[j] = todo[j + 1]
    BY <1>1
  <2> QED
    BY <2>1 DEF Shaped, Orderly
<1>4. ForCurrent(q, t)
  BY <1>1 DEF Shaped, ForCurrent
<1>5. ArmsLast(t)
  <2> SUFFICES ASSUME NEW i \in 1 .. Len(t) - 1 PROVE t[i].act # "ArmIfTeardown"
    BY DEF ArmsLast
  <2>1. i \in 1 .. Len(t) /\ i + 1 \in 1 .. Len(todo) - 1
    BY <1>1
  <2> QED
    BY <1>1, <2>1 DEF Shaped, ArmsLast
<1>6. ASSUME Head(todo).act \in {"Connect", "StartRetryTimer"} PROVE Tame(t)
  <2>1. \A i \in 1 .. Len(t) : 1 < i + 1 /\ i + 1 \in 1 .. Len(todo) /\ t[i] = todo[i + 1]
    BY <1>1
  <2>2. \A i \in 1 .. Len(t) : t[i].act \in {"EmitEvent", "ArmIfTeardown"}
    BY <1>1, <1>6, <2>1 DEF Shaped, Orderly
  <2> QED
    BY <1>5, <2>2 DEF Tame
<1>7. ASSUME Head(todo).act = "ArmIfTeardown" PROVE t = <<>>
  <2>1. ~(1 \in 1 .. Len(todo) - 1)
    BY <1>1, <1>7 DEF Shaped, ArmsLast
  <2> QED
    BY <1>1, <2>1
<1> QED
  BY <1>2, <1>3, <1>4, <1>5, <1>6, <1>7 DEF Shaped, t

\* The queue only loses its head or gains a command that is not FORGET.
LEMMA QueueSteady ==
    ASSUME NoForgetting, cmdQueue \in Seq(Command),
           \/ cmdQueue # <<>> /\ cmdQueue' = Tail(cmdQueue)
           \/ UNCHANGED cmdQueue
           \/ \E cmd \in Command : cmd.kind # "Forget" /\ cmdQueue' = Append(cmdQueue, cmd)
           \/ cmdQueue' = <<[kind |-> "Started"]>>
    PROVE  NoForgetting'
<1>1. CASE cmdQueue # <<>> /\ cmdQueue' = Tail(cmdQueue)
  <2>1. \A i \in 1 .. Len(cmdQueue') : cmdQueue'[i] = cmdQueue[i + 1] /\ i + 1 \in 1 .. Len(cmdQueue)
    BY <1>1
  <2> QED
    BY <2>1 DEF NoForgetting
<1>2. CASE UNCHANGED cmdQueue
  BY <1>2 DEF NoForgetting
<1>3. ASSUME NEW cmd \in Command, cmd.kind # "Forget", cmdQueue' = Append(cmdQueue, cmd)
      PROVE  NoForgetting'
  <2>1. /\ Len(cmdQueue') = Len(cmdQueue) + 1 /\ Len(cmdQueue) \in Nat
        /\ \A i \in 1 .. Len(cmdQueue) : cmdQueue'[i] = cmdQueue[i]
        /\ cmdQueue'[Len(cmdQueue) + 1] = cmd
    BY <1>3
  <2> QED
    BY <1>3, <2>1 DEF NoForgetting
<1>4. CASE cmdQueue' = <<[kind |-> "Started"]>>
  BY <1>4 DEF NoForgetting
<1> QED
  BY <1>1, <1>2, <1>3, <1>4

\* Every command but CMD_STARTED is answered.
LEMMA HandleAnswers ==
    ASSUME IInv, Handle
    PROVE  \/ HandleStarted
           \/ Answer /\ \E kind : Receive(kind)
<1>1. CASE HandleDisconnected
  BY <1>1, HandleDisconnectedAnswers DEF HandleDisconnected
<1>2. CASE HandleGotIp
  BY <1>2, HandleGotIpAnswers DEF HandleGotIp
<1>3. CASE HandleConnectTimeout
  BY <1>3, HandleConnectTimeoutAnswers DEF HandleConnectTimeout
<1>4. CASE HandleRetryExpired
  BY <1>4, HandleRetryExpiredAnswers DEF HandleRetryExpired
<1>5. CASE HandleConnectNew
  BY <1>5, HandleConnectNewAnswers DEF HandleConnectNew
<1>6. CASE HandleConnectSaved
  BY <1>6, HandleConnectSavedAnswers DEF HandleConnectSaved
<1>7. CASE HandleDisconnect
  BY <1>7, HandleDisconnectAnswers DEF HandleDisconnect
<1>8. CASE HandlePause
  BY <1>8, HandlePauseAnswers DEF HandlePause
<1>9. CASE HandleResume
  BY <1>9, HandleResumeAnswers DEF HandleResume
<1>10. CASE HandleForget
  BY <1>10, HandleForgetAnswers DEF HandleForget
<1>11. CASE HandleUpdatePassword
  BY <1>11, HandleUpdatePasswordAnswers DEF HandleUpdatePassword
<1> QED
  BY <1>1, <1>2, <1>3, <1>4, <1>5, <1>6, <1>7, <1>8, <1>9, <1>10, <1>11 DEF Handle

LEMMA StartingShaped ==
    ASSUME NEW p
    PROVE  Shaped(p, <<>>) /\ Shaped(p, <<[act |-> "Start"]>>)
BY DEF Shaped, Has, Orderly, ForCurrent, ArmsLast

LEMMA HandleSteady ==
    ASSUME IInv, Steady, Handle
    PROVE  Steady'
<1>1. PICK kind : Receive(kind)
  BY HandleAnswers DEF HandleStarted
<1>2. /\ todo = <<>> /\ cmdQueue # <<>> /\ cmdQueue' = Tail(cmdQueue) /\ cmdQueue \in Seq(Command)
  BY <1>1 DEF Receive, IInv, TypeOK
<1>3. NoForgetting'
  BY <1>2, QueueSteady DEF Steady
<1>4. Head(cmdQueue).kind # "Forget"
  <2>1. Head(cmdQueue) = cmdQueue[1] /\ 1 \in 1 .. Len(cmdQueue)
    BY <1>2
  <2> QED
    BY <2>1 DEF Steady, NoForgetting
<1>5. CASE HandleStarted
  <2>1. Waiting /\ TypeRest
    BY <1>5, ReceiveFacts DEF HandleStarted, IInv, TypeOK, TypeRest, DbOK
  <2>2. /\ policy'.state = "Idle" /\ policy'.retryKind = "None"
    BY <1>5, <2>1, SetProfilesFacts DEF HandleStarted, Waiting, TypeRest
  <2>3. OnCourse(policy')
    BY <2>2 DEF OnCourse
  <2>4. Shaped(policy', todo')
    BY <1>5, StartingShaped DEF HandleStarted
  <2> QED
    BY <1>3, <2>3, <2>4 DEF Steady, NoForgetting, Shaped, OnCourse, Has, Orderly, ForCurrent,
       ArmsLast
<1>6. CASE Answer
  <2>1. PICK rest : Harmless(rest) /\ Handled(rest) /\ Tame(rest)
    BY <1>4, <1>6 DEF Answer
  <2>2. OnCourse(policy') /\ Shaped(policy', todo')
    BY <2>1, HandledSteady DEF Steady
  <2> QED
    BY <1>3, <2>2 DEF Steady, NoForgetting, Shaped, OnCourse, Has, Orderly, ForCurrent, ArmsLast
<1> QED
  BY <1>5, <1>6, HandleAnswers

LEMMA ExecuteSteady ==
    ASSUME IInv, Steady, Execute
    PROVE  Steady'
<1>1. PICK act : Executing(act)
  BY DEF Execute, Start, ExecuteConnect, ExecuteDisconnect, ExecuteRetryTimer, ExecuteEvent,
         ExecuteMarkLastSuccess, ExecuteSetBlocked, ExecuteArmIfTeardown, ExecuteRemove
<1>2. /\ PolicyOK(policy) /\ Coherent(policy, todo, db) /\ TypeRest
      /\ todo # <<>> /\ todo \in Seq(Action) /\ Tail(todo) \in Seq(Action)
      /\ cmdQueue \in Seq(Command)
  BY <1>1, ExecutingFacts DEF Coherent, TypeRest
<1>3. UNCHANGED cmdQueue
  BY DEF Execute, Start, ExecuteConnect, ExecuteDisconnect, ExecuteRetryTimer, ExecuteEvent,
         ExecuteMarkLastSuccess, ExecuteSetBlocked, ExecuteArmIfTeardown, ExecuteRemove
<1>4. NoForgetting'
  BY <1>2, <1>3, QueueSteady DEF Steady
<1>5. ASSUME OnCourse(policy'), Shaped(policy', todo') PROVE Steady'
  BY <1>4, <1>5 DEF Steady, NoForgetting, Shaped, OnCourse, Has, Orderly, ForCurrent, ArmsLast
<1>6. CASE todo' = Tail(todo) /\ UNCHANGED policy
  <2>1. Shaped(policy, Tail(todo))
    BY <1>2, TailShaped DEF Steady
  <2> QED
    BY <1>5, <1>6, <2>1 DEF Steady
<1>7. CASE Start
  <2>1. Starting
    BY <1>7, ExecutingFacts DEF Start
  <2>2. Tail(todo) = <<>> /\ policy.state = "Idle"
    BY <2>1 DEF Starting
  <2>3. Handled(<<>>)
    BY <1>2, <1>7, <2>2, StartedFacts, FeedsHandled, SilentSeq DEF Start
  <2>4. OnCourse(policy') /\ Shaped(policy', todo')
    BY <2>3, HandledSteady, RestIsHarmless DEF Steady
  <2> QED
    BY <1>5, <2>4
<1>8. CASE ExecuteConnect
  <2>1. CASE InConnectFail("Other", Tail(todo))
    <3> DEFINE rest == Tail(todo)
    <3>1. Running /\ Head(todo).act = "Connect"
      BY <1>8, ExecutingFacts DEF ExecuteConnect
    <3>2. Harmless(rest) /\ Tame(rest)
      <4>1. Harmless(rest) \/ Has(todo, "Start")
        BY <1>2, <3>1, TailCoherent
      <4>2. Tame(rest)
        BY <1>2, <3>1, TailShaped DEF Steady
      <4> QED
        BY <3>1, <4>1, <4>2 DEF Running
    <3>3. rest \in Seq(Action) /\ InConnectFail("Other", rest) /\ "Other" \in FailClasses
      BY <1>2, <2>1 DEF FailClasses
    <3> HIDE DEF rest
    <3>4. Handled(rest)
      BY <1>2, <3>3, ConnectFailFacts, FailsHandled, IgnoredHandled
    <3>5. OnCourse(policy') /\ Shaped(policy', todo')
      BY <3>2, <3>4, HandledSteady DEF Steady
    <3> QED
      BY <1>5, <3>5
  <2> QED
    BY <1>6, <1>8, <2>1 DEF ExecuteConnect
<1>9. CASE ExecuteMarkLastSuccess
  <2>1. Running /\ Head(todo).act = "MarkLastSuccess" /\ Head(todo) = todo[1]
    BY <1>9, ExecutingFacts DEF ExecuteMarkLastSuccess
  <2>2. policy.state = "Connected"
    <3>1. 1 \in 1 .. Len(todo)
      BY <1>2
    <3>2. ~NoCredit(todo)
      BY <2>1, <3>1 DEF NoCredit
    <3> QED
      BY <1>2, <3>2 DEF Coherent
  <2>3. /\ policy'.state = policy.state /\ policy'.current = policy.current
        /\ policy'.retryKind = "None" /\ todo' = Tail(todo)
    BY <1>9 DEF ExecuteMarkLastSuccess, SaveAndSync, SetProfiles, Policy, PolicyOK, IInv, TypeOK
  <2>4. OnCourse(policy')
    BY <2>2, <2>3 DEF OnCourse
  <2> DEFINE q == policy'
  <2>5. q.current = policy.current
    BY <2>3
  <2> HIDE DEF q
  <2>6. Shaped(q, Tail(todo))
    BY <1>2, <2>5, TailShaped DEF Steady
  <2> QED
    BY <1>5, <2>3, <2>4, <2>6 DEF q
<1>10. ~ExecuteRemove
  <2>1. Executing("Remove") => Has(todo, "Remove")
    <3>1. Head(todo) = todo[1] /\ 1 \in 1 .. Len(todo)
      BY <1>2
    <3> QED
      BY <3>1 DEF Executing, Has
  <2> QED
    BY <2>1 DEF Steady, Shaped, ExecuteRemove
<1>11. CASE ExecuteDisconnect \/ ExecuteRetryTimer \/ ExecuteEvent \/ ExecuteSetBlocked
            \/ ExecuteArmIfTeardown
  BY <1>6, <1>11 DEF ExecuteDisconnect, ExecuteRetryTimer, ExecuteEvent, ExecuteSetBlocked,
     ExecuteArmIfTeardown
<1> QED
  BY <1>7, <1>8, <1>9, <1>10, <1>11 DEF Execute

LEMMA OutsideSteady ==
    ASSUME IInv, Steady, "Forget" \notin UserCommands, Callback \/ User \/ Reboot
    PROVE  Steady'
<1>1. cmdQueue \in Seq(Command)
  BY DEF IInv, TypeOK
<1>2. CASE Reboot
  <2>1. NoForgetting'
    BY <1>1, <1>2, QueueSteady DEF Steady, Reboot
  <2>2. OnCourse(InitialPolicy) /\ Shaped(InitialPolicy, <<>>)
    BY StartingShaped DEF OnCourse, InitialPolicy
  <2>3. policy' = InitialPolicy /\ todo' = <<>>
    BY <1>2 DEF Reboot
  <2>4. OnCourse(policy') /\ Shaped(policy', todo')
    BY <2>2, <2>3
  <2> QED
    BY <2>1, <2>4 DEF Steady, NoForgetting, Shaped, OnCourse, Has, Orderly, ForCurrent, ArmsLast
<1>3. ASSUME UNCHANGED <<policy, todo>>, NoForgetting' PROVE Steady'
  BY <1>3 DEF Steady, NoForgetting, Shaped, OnCourse, Has, Orderly, ForCurrent, ArmsLast
<1>4. ASSUME NEW cmd \in Command, cmd.kind # "Forget", Enqueue(cmd), UNCHANGED <<policy, todo>>
      PROVE  Steady'
  <2>1. NoForgetting'
    BY <1>1, <1>4, QueueSteady DEF Steady, Enqueue
  <2> QED
    BY <1>3, <1>4, <2>1
<1>5. CASE Callback
  <2>1. /\ [kind |-> "ConnectTimeout"] \in Command /\ [kind |-> "RetryExpired"] \in Command
        /\ [kind |-> "GotIp", from |-> link.ssid] \in Command
        /\ \A class \in FailClasses, own \in BOOLEAN :
              [kind |-> "Disconnected", class |-> class, own |-> own] \in Command
        /\ "Other" \in FailClasses
    BY DEF Command, IInv, TypeOK, Esp!DriverType, FailClasses
  <2>2. CASE ConnectTimerFires
    BY <1>4, <2>1, <2>2 DEF ConnectTimerFires, unchangedByCallback
  <2>3. CASE RetryTimerFires
    BY <1>4, <2>1, <2>3 DEF RetryTimerFires, unchangedByCallback
  <2>4. CASE DriverGotIp
    BY <1>4, <2>1, <2>4 DEF DriverGotIp, unchangedByCallback
  <2>5. ASSUME NEW class \in FailClasses, NEW own \in BOOLEAN, OnDisconnected(class, own)
        PROVE  Steady'
    BY <1>4, <2>1, <2>5 DEF OnDisconnected, unchangedByCallback
  <2> QED
    BY <1>5, <2>1, <2>2, <2>3, <2>4, <2>5
       DEF Callback, DriverLeft, DriverJoinFails, DriverLinkDrops
<1>6. ASSUME NEW cmd \in Command, Issue(cmd) PROVE Steady'
  <2>1. cmd.kind # "Forget" /\ cmdQueue' = Append(cmdQueue, cmd) /\ UNCHANGED <<policy, todo>>
    BY <1>6 DEF Issue
  <2>2. NoForgetting'
    BY <1>1, <2>1, QueueSteady DEF Steady
  <2> QED
    BY <1>3, <2>1, <2>2
<1>7. CASE User
  <2>1. /\ \A s \in Ssids : [kind |-> "ConnectSaved", ssid |-> s] \in Command
        /\ \A s \in Ssids : [kind |-> "Forget", ssid |-> s] \in Command
        /\ \A t \in Typed : [kind |-> "ConnectNew", ssid |-> t[1], pw |-> t[2]] \in Command
        /\ \A t \in Typed : [kind |-> "UpdatePassword", ssid |-> t[1], pw |-> t[2]] \in Command
        /\ [kind |-> "Disconnect"] \in Command /\ [kind |-> "Pause"] \in Command
        /\ [kind |-> "Resume"] \in Command
    BY ManagerAssumption DEF Command, Esp!Passwords
  <2> QED
    BY <1>6, <1>7, <2>1 DEF User, UserConnectNew, UserConnectSaved, UserForget,
       UserUpdatePassword, UserDisconnect, UserPause, UserResume, Saved
<1> QED
  BY <1>2, <1>5, <1>7

LEMMA NextSteady ==
    ASSUME IInv, Steady, "Forget" \notin UserCommands, [WifiNext]_wifiVars
    PROVE  Steady'
<1>1. CASE UNCHANGED wifiVars
  BY <1>1 DEF wifiVars, Steady, NoForgetting, Shaped, OnCourse, Has, Orderly, ForCurrent, ArmsLast
<1> QED
  BY <1>1, HandleSteady, ExecuteSteady, OutsideSteady DEF WifiNext

LEMMA InitSteady ==
    ASSUME WifiInit
    PROVE  Steady
<1>1. OnCourse(policy) /\ Shaped(policy, todo)
  BY StartingShaped DEF WifiInit, PolicyInit, OnCourse, InitialPolicy
<1> QED
  BY <1>1 DEF WifiInit, Steady, NoForgetting

\* Without FORGET the cycle goes on with the profiles it was started with.
THEOREM StaysSteady ==
    ASSUME "Forget" \notin UserCommands
    PROVE  WifiSpec => []Steady
<1>1. WifiInit => Steady
  BY InitSteady
<1>2. IInv /\ Steady /\ [WifiNext]_wifiVars => Steady'
  BY NextSteady
<1> QED
  BY <1>1, <1>2, InductiveInvariant, PTL DEF WifiSpec

\* Without FORGET the failures of autoconnect are counted for the network that
\* failed.  (FORGET reloads the profiles in the middle of a cycle and resets the
\* cursor, so with it this is not so.)
THEOREM CursorStaysOnCurrent ==
    ASSUME "Forget" \notin UserCommands
    PROVE  WifiSpec => []CursorIsOnCurrent
<1>1. Steady => CursorIsOnCurrent
  BY DEF Steady, OnCourse, CursorIsOnCurrent
<1> QED
  BY <1>1, StaysSteady, PTL

-----------------------------------------------------------------------------
(* When no callback finds the queue full, CONNECTING is never the end.     *)

InQueue(queue, kind) == \E i \in 1 .. Len(queue) : queue[i].kind = kind

\* Something of acts will be answered when it has been executed.
Ahead(p, acts) ==
    \/ Has(acts, "Connect")
    \/ Has(acts, "Fault")
    \/ Has(acts, "StartRetryTimer") /\ p.retryKind # "None"
    \/ Has(acts, "ArmIfTeardown") /\ p.teardown /\ p.current # Empty

\* An answer is on its way.
Waits ==
    \/ policy.current # Empty /\ (connectTimer \/ InQueue(cmdQueue, "GotIp"))
    \/ policy.retryKind # "None" /\ (retryTimer \/ InQueue(cmdQueue, "RetryExpired"))
    \/ leaving > 0
    \/ InQueue(cmdQueue, "Disconnected")
    \/ InQueue(cmdQueue, "ConnectTimeout")

MovesOn ==
    policy.state = "Connecting" =>
        \/ Ahead(policy, todo)
        \/ ~Has(todo, "Disconnect") /\ ~Has(todo, "StartRetryTimer") /\ Waits

LEMMA AheadMovesOn ==
    ASSUME policy'.state = "Connecting" => Ahead(policy', todo')
    PROVE  MovesOn'
BY DEF MovesOn, Ahead, Has

LEMMA ElsewhereMovesOn ==
    ASSUME policy'.state # "Connecting"
    PROVE  MovesOn'
BY DEF MovesOn

LEMMA HasStill ==
    ASSUME NEW acts \in Seq(Emitted), NEW rest \in Seq(Action), NEW kind,
           Has(acts, kind) \/ Has(rest, kind)
    PROVE  Has(acts \o rest, kind)
<1> DEFINE both == acts \o rest
<1>1. /\ Len(both) = Len(acts) + Len(rest)
      /\ \A i \in 1 .. Len(acts) : both[i] = acts[i]
      /\ \A i \in 1 .. Len(rest) : both[Len(acts) + i] = rest[i]
  BY JoinRest
<1> HIDE DEF both
<1>2. Len(acts) \in Nat /\ Len(rest) \in Nat
  OBVIOUS
<1>3. ASSUME Has(acts, kind) PROVE Has(both, kind)
  <2>1. PICK i \in 1 .. Len(acts) : acts[i].act = kind
    BY <1>3 DEF Has
  <2>2. i \in 1 .. Len(both) /\ both[i].act = kind
    BY <1>1, <1>2, <2>1
  <2> QED
    BY <2>2 DEF Has
<1>4. ASSUME Has(rest, kind) PROVE Has(both, kind)
  <2>1. PICK i \in 1 .. Len(rest) : rest[i].act = kind
    BY <1>4 DEF Has
  <2>2. Len(acts) + i \in 1 .. Len(both) /\ both[Len(acts) + i].act = kind
    BY <1>1, <1>2, <2>1
  <2> QED
    BY <2>2 DEF Has
<1> QED
  BY <1>3, <1>4 DEF both

LEMMA FedMovesOn ==
    ASSUME NEW acts, NEW rest \in Seq(Action), Feeds(acts, rest), GoesOn(policy', acts)
    PROVE  MovesOn'
<1>1. acts \in Seq(Emitted) /\ todo' = acts \o rest
  BY DEF Feeds, Fed
<1>2. policy'.state = "Connecting" => Ahead(policy', todo')
  BY <1>1, HasStill DEF GoesOn, Ahead
<1> QED
  BY <1>2, AheadMovesOn

LEMMA FailsMoveOn ==
    ASSUME NEW rest \in Seq(Action), FailsFed(rest)
    PROVE  MovesOn'
<1>1. PICK acts : Fed(policy, policy', acts) /\ GoesOn(policy', acts) /\ Answered(acts, rest)
  BY DEF FailsFed
<1>2. acts \in Seq(Emitted)
  BY <1>1 DEF Fed
<1>3. policy'.state = "Connecting" => Ahead(policy', todo')
  <2>1. CASE todo' = acts \o rest
    BY <1>1, <1>2, <2>1, HasStill DEF GoesOn, Ahead
  <2>2. CASE todo' = acts /\ Has(acts, "Fault")
    BY <2>2 DEF Ahead
  <2> QED
    BY <1>1, <2>1, <2>2 DEF Answered
<1> QED
  BY <1>3, AheadMovesOn

LEMMA ManualMovesOn ==
    ASSUME NEW acts, Feeds(acts, ArmIfTeardown), Has(acts, "Connect") \/ policy'.teardown,
           policy'.current # Empty
    PROVE  MovesOn'
<1>1. acts \in Seq(Emitted) /\ todo' = acts \o ArmIfTeardown
  BY DEF Feeds, Fed
<1>2. Has(ArmIfTeardown, "ArmIfTeardown") /\ ArmIfTeardown \in Seq(Action)
  BY SilentSeq DEF Has, ArmIfTeardown
<1>3. Ahead(policy', todo')
  BY <1>1, <1>2, HasStill DEF Ahead
<1> QED
  BY <1>3, AheadMovesOn

\* Nothing is being executed: an answer is on its way.
LEMMA IdleWaits ==
    ASSUME MovesOn, todo = <<>>, policy.state = "Connecting"
    PROVE  Waits
BY EmptyIsSilent DEF MovesOn, Ahead

LEMMA QueueLosesHead ==
    ASSUME cmdQueue \in Seq(Command), cmdQueue # <<>>, cmdQueue' = Tail(cmdQueue),
           NEW kind, Head(cmdQueue).kind # kind, InQueue(cmdQueue, kind)
    PROVE  InQueue(cmdQueue', kind)
<1>1. PICK i \in 1 .. Len(cmdQueue) : cmdQueue[i].kind = kind
  BY DEF InQueue
<1>2. i - 1 \in 1 .. Len(cmdQueue')  /\ cmdQueue'[i - 1] = cmdQueue[i]
  <2>1. i # 1
    BY <1>1
  <2>2. i - 1 \in 1 .. Len(cmdQueue') /\ (i - 1) + 1 = i
    BY <1>1, <2>1
  <2> QED
    BY <2>2
<1> QED
  BY <1>1, <1>2 DEF InQueue

\* The policy stays where it is; the command was not one it waits for.
LEMMA KeepsWaiting ==
    ASSUME IInv, MovesOn, NEW kind, Receive(kind), Head(cmdQueue).kind = kind,
           ~Has(todo', "Disconnect"), ~Has(todo', "StartRetryTimer"),
           policy'.state = "Connecting" => policy.state = "Connecting",
           policy'.current = policy.current, policy'.retryKind = policy.retryKind,
           UNCHANGED <<leaving, retryTimer>>,
           \/ kind \notin {"GotIp", "RetryExpired", "Disconnected", "ConnectTimeout"}
              /\ UNCHANGED connectTimer
           \/ kind = "GotIp" /\ policy.current = Empty
           \/ kind = "RetryExpired" /\ policy.retryKind = "None" /\ UNCHANGED connectTimer
    PROVE  MovesOn'
<1>1. SUFFICES ASSUME policy'.state = "Connecting" PROVE Waits'
  BY DEF MovesOn, Has, Ahead, Waits, InQueue
<1>2. todo = <<>> /\ cmdQueue # <<>> /\ cmdQueue' = Tail(cmdQueue) /\ cmdQueue \in Seq(Command)
  BY DEF Receive, IInv, TypeOK
<1>3. Waits
  BY <1>1, <1>2, IdleWaits
<1>4. \A k : k # kind /\ InQueue(cmdQueue, k) => InQueue(cmdQueue', k)
  BY <1>2, QueueLosesHead
<1>5. CASE kind \notin {"GotIp", "RetryExpired", "Disconnected", "ConnectTimeout"}
           /\ UNCHANGED connectTimer
  <2>1. /\ InQueue(cmdQueue, "GotIp") => InQueue(cmdQueue', "GotIp")
        /\ InQueue(cmdQueue, "RetryExpired") => InQueue(cmdQueue', "RetryExpired")
        /\ InQueue(cmdQueue, "Disconnected") => InQueue(cmdQueue', "Disconnected")
        /\ InQueue(cmdQueue, "ConnectTimeout") => InQueue(cmdQueue', "ConnectTimeout")
    BY <1>4, <1>5
  <2> QED
    BY <1>3, <1>5, <2>1 DEF Waits, InQueue
<1>6. CASE kind = "GotIp" /\ policy.current = Empty
  <2>1. /\ InQueue(cmdQueue, "RetryExpired") => InQueue(cmdQueue', "RetryExpired")
        /\ InQueue(cmdQueue, "Disconnected") => InQueue(cmdQueue', "Disconnected")
        /\ InQueue(cmdQueue, "ConnectTimeout") => InQueue(cmdQueue', "ConnectTimeout")
    BY <1>4, <1>6
  <2> QED
    BY <1>3, <1>6, <2>1 DEF Waits, InQueue
<1>7. CASE kind = "RetryExpired" /\ policy.retryKind = "None" /\ UNCHANGED connectTimer
  <2>1. /\ InQueue(cmdQueue, "GotIp") => InQueue(cmdQueue', "GotIp")
        /\ InQueue(cmdQueue, "Disconnected") => InQueue(cmdQueue', "Disconnected")
        /\ InQueue(cmdQueue, "ConnectTimeout") => InQueue(cmdQueue', "ConnectTimeout")
    BY <1>4, <1>7
  <2> QED
    BY <1>3, <1>7, <2>1 DEF Waits, InQueue
<1> QED
  BY <1>5, <1>6, <1>7

LEMMA HandleMovesOn ==
    ASSUME IInv, Steady, MovesOn, Handle
    PROVE  MovesOn'
<1>1. PICK kind : Receive(kind)
  BY HandleAnswers DEF HandleStarted
<1>2. /\ todo = <<>> /\ cmdQueue # <<>> /\ cmdQueue \in Seq(Command) /\ Head(cmdQueue).kind = kind
      /\ Head(cmdQueue) \in Command /\ PolicyOK(policy) /\ policy \in Policy
      /\ kind = "Started" => Waiting
  BY <1>1, ReceiveFacts, RunningFacts DEF IInv, TypeOK, Receive, Waiting
<1>3. kind # "Forget"
  <2>1. Head(cmdQueue) = cmdQueue[1] /\ 1 \in 1 .. Len(cmdQueue)
    BY <1>2
  <2> QED
    BY <1>2, <2>1 DEF Steady, NoForgetting
<1>4. ~Has(<<>>, "Disconnect") /\ ~Has(<<>>, "StartRetryTimer")
  BY EmptyIsSilent
<1>5. ASSUME Ignored(<<>>), policy.state # "Connecting" PROVE MovesOn'
  BY <1>5, ElsewhereMovesOn DEF Ignored
<1>6. CASE HandleStarted
  <2>1. Waiting /\ DbOK(db)
    BY <1>6, ReceiveFacts DEF HandleStarted, IInv, TypeOK, DbOK
  <2>2. policy'.state = "Idle"
    BY <1>6, <2>1, SetProfilesFacts DEF HandleStarted, Waiting
  <2> QED
    BY <2>2, ElsewhereMovesOn
<1>7. CASE HandleDisconnected
  <2> DEFINE class == Head(cmdQueue).class
  <2>1. class \in FailClasses
    BY <1>2, <1>7, CommandFields DEF HandleDisconnected, Receive
  <2>2. CASE policy.teardown /\ InTeardownDisconnected(<<>>)
    BY <1>2, <2>2, TeardownFacts, FedMovesOn, SilentSeq
  <2>3. CASE policy.state = "Connecting" /\ InConnectFail(class, <<>>)
    <3> HIDE DEF class
    <3> QED
      BY <1>2, <2>1, <2>3, ConnectFailFacts, FailsMoveOn, SilentSeq
  <2>4. CASE InLinkLost(<<>>) /\ policy.state = "Connected"
    BY <1>2, <2>4, LinkLostFacts, FedMovesOn, SilentSeq
  <2>5. CASE UNCHANGED policy /\ policy.state \in {"Idle", "Ready"}
    BY <2>5, ElsewhereMovesOn
  <2> QED
    BY <1>7, <2>2, <2>3, <2>4, <2>5 DEF HandleDisconnected
<1>8. CASE HandleGotIp
  <2>1. InConnectSuccess(<<>>) /\ Receive("GotIp") /\ UNCHANGED <<leaving, retryTimer>>
    BY <1>8 DEF HandleGotIp
  <2>2. CASE policy.current = Empty /\ Ignored(<<>>)
    <3>1. Head(cmdQueue).kind = "GotIp"
      BY <2>1 DEF Receive
    <3>2. todo' = <<>> /\ policy' = policy
      BY <2>2 DEF Ignored
    <3> QED
      BY <1>4, <2>1, <2>2, <3>1, <3>2, KeepsWaiting
  <2>3. CASE policy'.state = "Connected"
    BY <2>3, ElsewhereMovesOn
  <2> QED
    BY <1>2, <2>1, <2>2, <2>3, ConnectSuccessFacts, SilentSeq
<1>9. CASE HandleConnectTimeout
  <2>1. InConnectFail("Other", <<>>) /\ "Other" \in FailClasses
    BY <1>9 DEF HandleConnectTimeout, InConnectTimeout, FailClasses
  <2> QED
    BY <1>2, <1>5, <2>1, ConnectFailFacts, FailsMoveOn, SilentSeq
<1>10. CASE HandleRetryExpired
  <2>1. InRetryTimerExpired(<<>>) /\ Receive("RetryExpired")
        /\ UNCHANGED <<leaving, retryTimer, connectTimer>>
    BY <1>10 DEF HandleRetryExpired, unchangedByPolicy
  <2>2. CASE \E acts : Feeds(acts, <<>>) /\ GoesOn(policy', acts)
    BY <2>2, FedMovesOn, SilentSeq
  <2>3. CASE /\ todo' = <<>>
             /\ policy' = [policy EXCEPT !.retryKind = "None"]
             /\ policy.retryKind = "None" \/ policy.profiles = <<>>
    <3>1. policy.retryKind = "None"
      BY <2>3 DEF Steady, OnCourse
    <3>2. policy'.state = policy.state /\ policy'.current = policy.current
          /\ policy'.retryKind = "None"
      BY <1>2, <2>3 DEF Policy
    <3>3. Head(cmdQueue).kind = "RetryExpired"
      BY <2>1 DEF Receive
    <3> QED
      BY <1>4, <2>1, <2>3, <3>1, <3>2, <3>3, KeepsWaiting
  <2> QED
    BY <1>2, <2>1, <2>2, <2>3, RetryExpiredFacts, SilentSeq
<1>11. CASE HandleConnectNew
  <2>1. PICK s \in Ssids : InConnectNew(s, ArmIfTeardown)
    BY <1>2, <1>11, CommandFields DEF HandleConnectNew, Receive
  <2> QED
    BY <1>2, <2>1, ConnectNewFacts, ManualMovesOn, SilentSeq
<1>12. CASE HandleConnectSaved
  <2>1. PICK s \in Ssids : InConnectSaved(s, ArmIfTeardown)
    BY <1>2, <1>12, CommandFields DEF HandleConnectSaved, Receive
  <2> QED
    BY <1>2, <2>1, ConnectSavedFacts, ManualMovesOn, SilentSeq
<1>13. CASE HandleDisconnect
  <2>1. policy'.state = "Ready"
    BY <1>2, <1>13, DisconnectFacts, SilentSeq DEF HandleDisconnect
  <2> QED
    BY <2>1, ElsewhereMovesOn
<1>14. CASE HandlePause
  <2>1. policy'.state \in {"Ready", "Connected"}
    BY <1>2, <1>14, PauseFacts, SilentSeq DEF HandlePause, Ignored
  <2> QED
    BY <2>1, ElsewhereMovesOn
<1>15. CASE HandleResume
  <2>1. InResume(<<>>) /\ Receive("Resume") /\ UNCHANGED <<leaving, retryTimer, connectTimer>>
    BY <1>15 DEF HandleResume, unchangedByPolicy
  <2>2. CASE Ignored(<<>>)
    <3>1. Head(cmdQueue).kind = "Resume"
      BY <2>1 DEF Receive
    <3>2. todo' = <<>> /\ policy' = policy
      BY <2>2 DEF Ignored
    <3> QED
      BY <1>4, <2>1, <3>1, <3>2, KeepsWaiting
  <2>3. CASE \E acts : Feeds(acts, <<>>) /\ GoesOn(policy', acts)
    BY <2>3, FedMovesOn, SilentSeq
  <2> QED
    BY <1>2, <2>1, <2>2, <2>3, ResumeFacts, SilentSeq
<1>16. CASE HandleUpdatePassword
  <2>1. PICK s \in Ssids : InUpdatePassword(s, <<>>)
    BY <1>2, <1>16, CommandFields DEF HandleUpdatePassword, Receive
  <2>2. Receive("UpdatePassword") /\ UNCHANGED <<leaving, retryTimer, connectTimer>>
    BY <1>16 DEF HandleUpdatePassword
  <2>3. PICK acts : /\ Feeds(acts, <<>>)
                    /\ acts = <<>> \/ acts = <<ActSetBlocked(s, FALSE)>>
                    /\ policy'.state = policy.state /\ policy'.current = policy.current
                    /\ policy'.retryKind = policy.retryKind
    BY <1>2, <2>1, UpdatePasswordFacts, SilentSeq
  <2>4. ~Has(acts, "Disconnect") /\ ~Has(acts, "StartRetryTimer")
    <3>1. ActSetBlocked(s, FALSE).act = "SetBlocked"
      BY DEF ActSetBlocked
    <3> DEFINE a == ActSetBlocked(s, FALSE)
    <3>2. a.act = "SetBlocked" /\ (acts = <<>> \/ acts = <<a>>)
      BY <2>3, <3>1
    <3> HIDE DEF a
    <3> QED
      BY <3>2 DEF Has
  <2>5. todo' = acts
    <3>1. todo' = acts \o <<>> /\ acts \in Seq(Emitted)
      BY <2>3 DEF Feeds, Fed
    <3> QED
      BY <3>1
  <2>6. Head(cmdQueue).kind = "UpdatePassword"
    BY <2>2 DEF Receive
  <2> QED
    BY <2>2, <2>3, <2>4, <2>5, <2>6, KeepsWaiting
<1>17. ~HandleForget
  BY <1>2, <1>3 DEF HandleForget, Receive
<1> QED
  BY <1>6, <1>7, <1>8, <1>9, <1>10, <1>11, <1>12, <1>13, <1>14, <1>15, <1>16, <1>17 DEF Handle

\* The entries after the first are still there.
LEMMA TailHas ==
    ASSUME todo \in Seq(Action), todo # <<>>, NEW kind
    PROVE  /\ Has(Tail(todo), kind) => Has(todo, kind)
           /\ Has(todo, kind) /\ Head(todo).act # kind => Has(Tail(todo), kind)
<1>1. /\ Len(Tail(todo)) = Len(todo) - 1 /\ Len(todo) \in Nat \ {0} /\ Head(todo) = todo[1]
      /\ \A i \in 1 .. Len(todo) - 1 : Tail(todo)[i] = todo[i + 1]
  OBVIOUS
<1> DEFINE t == Tail(todo)
<1>2. Len(t) = Len(todo) - 1 /\ \A i \in 1 .. Len(t) : t[i] = todo[i + 1]
  BY <1>1
<1> HIDE DEF t
<1>3. ASSUME Has(t, kind) PROVE Has(todo, kind)
  <2>1. PICK i \in 1 .. Len(t) : t[i].act = kind
    BY <1>3 DEF Has
  <2>2. i + 1 \in 1 .. Len(todo) /\ todo[i + 1].act = kind
    BY <1>1, <1>2, <2>1
  <2> QED
    BY <2>2 DEF Has
<1>4. ASSUME Has(todo, kind), Head(todo).act # kind PROVE Has(t, kind)
  <2>1. PICK i \in 1 .. Len(todo) : todo[i].act = kind
    BY <1>4 DEF Has
  <2>2. i # 1 /\ (i - 1) + 1 = i
    BY <1>1, <1>4, <2>1
  <2>3. i - 1 \in 1 .. Len(t)
    BY <1>1, <1>2, <2>1, <2>2
  <2>4. t[i - 1].act = kind
    BY <1>2, <2>1, <2>2, <2>3
  <2> QED
    BY <2>3, <2>4 DEF Has
<1> QED
  BY <1>3, <1>4 DEF t

\* An entry that the policy does not wait for.
LEMMA AsideMovesOn ==
    ASSUME MovesOn, todo \in Seq(Action), todo # <<>>,
           Head(todo).act \notin {"Connect", "Fault", "StartRetryTimer", "ArmIfTeardown", "Disconnect"},
           todo' = Tail(todo),
           UNCHANGED <<policy, cmdQueue, connectTimer, retryTimer, leaving>>
    PROVE  MovesOn'
<1>1. /\ Has(todo, "Connect") => Has(Tail(todo), "Connect")
      /\ Has(todo, "Fault") => Has(Tail(todo), "Fault")
      /\ Has(todo, "StartRetryTimer") => Has(Tail(todo), "StartRetryTimer")
      /\ Has(todo, "ArmIfTeardown") => Has(Tail(todo), "ArmIfTeardown")
      /\ Has(Tail(todo), "Disconnect") => Has(todo, "Disconnect")
      /\ Has(Tail(todo), "StartRetryTimer") => Has(todo, "StartRetryTimer")
  BY TailHas
<1>2. Waits => Waits'
  BY DEF Waits, InQueue
<1>3. policy.state = "Connecting" =>
         \/ Ahead(policy, Tail(todo))
         \/ ~Has(Tail(todo), "Disconnect") /\ ~Has(Tail(todo), "StartRetryTimer") /\ Waits
  BY <1>1 DEF MovesOn, Ahead
<1> QED
  BY <1>2, <1>3 DEF MovesOn, Ahead, Has

LEMMA TameHasNone ==
    ASSUME NEW acts, Tame(acts)
    PROVE  /\ ~Has(acts, "Disconnect") /\ ~Has(acts, "StartRetryTimer") /\ ~Has(acts, "Connect")
           /\ ~Has(acts, "Fault")
BY DEF Tame, Has

LEMMA ExecuteMovesOn ==
    ASSUME IInv, Steady, MovesOn, Execute
    PROVE  MovesOn'
<1>1. PICK act : Executing(act)
  BY DEF Execute, Start, ExecuteConnect, ExecuteDisconnect, ExecuteRetryTimer, ExecuteEvent,
         ExecuteMarkLastSuccess, ExecuteSetBlocked, ExecuteArmIfTeardown, ExecuteRemove
<1>2. /\ PolicyOK(policy) /\ policy \in Policy /\ Coherent(policy, todo, db) /\ TypeRest
      /\ todo # <<>> /\ todo \in Seq(Action) /\ Tail(todo) \in Seq(Action)
      /\ Shaped(policy, todo) /\ Head(todo) = todo[1] /\ 1 \in 1 .. Len(todo)
  BY <1>1, ExecutingFacts DEF Coherent, PolicyOK, Steady
<1>3. CASE Start
  <2>1. Starting
    BY <1>3, ExecutingFacts DEF Start
  <2>2. Tail(todo) = <<>> /\ policy.state = "Idle"
    BY <2>1 DEF Starting
  <2> QED
    BY <1>2, <1>3, <2>2, StartedFacts, FedMovesOn, SilentSeq DEF Start
<1>4. CASE ExecuteConnect
  <2>1. Head(todo).act = "Connect"
    BY <1>4 DEF ExecuteConnect, Executing
  <2>2. CASE InConnectFail("Other", Tail(todo))
    <3>1. "Other" \in FailClasses
      BY DEF FailClasses
    <3>2. CASE policy.state # "Connecting" /\ Ignored(Tail(todo))
      BY <3>2, ElsewhereMovesOn DEF Ignored
    <3>3. CASE FailsFed(Tail(todo))
      BY <1>2, <3>3, FailsMoveOn
    <3> QED
      BY <1>2, <2>2, <3>1, <3>2, <3>3, ConnectFailFacts
  <2>3. CASE /\ Esp!EspConnect(Head(todo).ssid, PasswordFor(Head(todo).ssid, Head(todo).origin))
             /\ connectTimer' = TRUE
             /\ todo' = Tail(todo)
             /\ UNCHANGED policy
    <3>1. policy.current # Empty
      <4>1. Head(todo).ssid # Empty
        BY <2>3 DEF Esp!EspConnect
      <4> QED
        BY <1>2, <2>1, <4>1 DEF Shaped, ForCurrent
    <3>2. Waits'
      BY <2>3, <3>1 DEF Waits
    <3>3. ~Has(Tail(todo), "Disconnect") /\ ~Has(Tail(todo), "StartRetryTimer")
      BY <1>2, <2>1, TailShaped, TameHasNone
    <3> QED
      BY <2>3, <3>2, <3>3 DEF MovesOn, Has
  <2> QED
    BY <1>4, <2>2, <2>3 DEF ExecuteConnect
<1>5. CASE ExecuteDisconnect
  <2>1. Head(todo).act = "Disconnect" /\ todo' = Tail(todo) /\ UNCHANGED policy
    BY <1>5 DEF ExecuteDisconnect, Executing
  <2>2. Has(todo, "Disconnect")
    BY <1>2, <2>1 DEF Has
  <2>3. policy.state = "Connecting" => Ahead(policy, todo)
    BY <2>2 DEF MovesOn
  <2>4. /\ Has(todo, "Connect") => Has(Tail(todo), "Connect")
        /\ Has(todo, "Fault") => Has(Tail(todo), "Fault")
        /\ Has(todo, "StartRetryTimer") => Has(Tail(todo), "StartRetryTimer")
        /\ Has(todo, "ArmIfTeardown") => Has(Tail(todo), "ArmIfTeardown")
    BY <1>2, <2>1, TailHas
  <2>5. policy'.state = "Connecting" => Ahead(policy', todo')
    BY <2>1, <2>3, <2>4 DEF Ahead
  <2> QED
    BY <2>5, AheadMovesOn
<1>6. CASE ExecuteRetryTimer
  <2>1. Head(todo).act = "StartRetryTimer" /\ todo' = Tail(todo) /\ UNCHANGED policy /\ retryTimer'
    BY <1>6 DEF ExecuteRetryTimer, Executing
  <2>2. Tame(Tail(todo))
    BY <1>2, <2>1, TailShaped
  <2>3. /\ ~Has(Tail(todo), "Disconnect") /\ ~Has(Tail(todo), "StartRetryTimer")
        /\ ~Has(Tail(todo), "Connect") /\ ~Has(Tail(todo), "Fault")
    BY <2>2, TameHasNone
  <2>4. ~Has(todo, "Connect") /\ ~Has(todo, "Fault")
    BY <1>2, <2>1, <2>3, TailHas
  <2>5. Has(todo, "StartRetryTimer")
    BY <1>2, <2>1 DEF Has
  <2>6. Has(todo, "ArmIfTeardown") => Has(Tail(todo), "ArmIfTeardown")
    BY <1>2, <2>1, TailHas
  <2>7. CASE policy.state # "Connecting"
    BY <2>1, <2>7, ElsewhereMovesOn
  <2>8. CASE policy.retryKind # "None"
    <3>1. Waits'
      BY <2>1, <2>8 DEF Waits
    <3> QED
      BY <2>1, <2>3, <3>1 DEF MovesOn, Has
  <2>9. CASE Has(todo, "ArmIfTeardown") /\ policy.teardown /\ policy.current # Empty
    <3>1. Ahead(policy', todo')
      BY <2>1, <2>6, <2>9 DEF Ahead
    <3> QED
      BY <3>1, AheadMovesOn
  <2> QED
    BY <2>4, <2>5, <2>7, <2>8, <2>9 DEF MovesOn, Ahead
<1>7. CASE ExecuteEvent
  <2>1. Head(todo).act = "EmitEvent"
    BY <1>7 DEF ExecuteEvent, Executing
  <2> QED
    BY <1>2, <1>7, <2>1, AsideMovesOn DEF ExecuteEvent
<1>8. CASE ExecuteSetBlocked
  <2>1. Head(todo).act = "SetBlocked"
    BY <1>8 DEF ExecuteSetBlocked, Executing
  <2> QED
    BY <1>2, <1>8, <2>1, AsideMovesOn DEF ExecuteSetBlocked
<1>9. CASE ExecuteMarkLastSuccess
  <2>1. Head(todo).act = "MarkLastSuccess"
    BY <1>9 DEF ExecuteMarkLastSuccess, Executing
  <2>2. ~NoCredit(todo)
    BY <1>2, <2>1 DEF NoCredit
  <2>3. policy.state = "Connected"
    BY <1>2, <2>2 DEF Coherent
  <2>4. policy'.state = policy.state
    BY <1>2, <1>9 DEF ExecuteMarkLastSuccess, SaveAndSync, SetProfiles, Policy
  <2> QED
    BY <2>3, <2>4, ElsewhereMovesOn
<1>10. CASE ExecuteArmIfTeardown
  <2>1. /\ Head(todo).act = "ArmIfTeardown" /\ todo' = Tail(todo)
        /\ connectTimer' = (connectTimer \/ policy.teardown)
        /\ UNCHANGED <<policy, leaving, cmdQueue, retryTimer>>
    BY <1>10 DEF ExecuteArmIfTeardown, Executing
  <2>2. Tail(todo) = <<>>
    BY <1>2, <2>1, TailShaped
  <2>3. ~Has(Tail(todo), "Disconnect") /\ ~Has(Tail(todo), "StartRetryTimer")
    BY <2>2, EmptyIsSilent
  <2>4. ~Has(todo, "Connect") /\ ~Has(todo, "Fault") /\ ~Has(todo, "StartRetryTimer")
    BY <1>2, <2>1, <2>2, TailHas, EmptyIsSilent
  <2>5. connectTimer \in BOOLEAN /\ policy.teardown \in BOOLEAN
    BY <1>2 DEF TypeRest, Policy
  <2>6. CASE policy.state # "Connecting"
    BY <2>1, <2>6, ElsewhereMovesOn
  <2>7. CASE policy.teardown /\ policy.current # Empty
    <3>1. Waits'
      BY <2>1, <2>7 DEF Waits
    <3> QED
      BY <2>1, <2>3, <3>1 DEF MovesOn, Has
  <2>8. CASE Waits
    <3>1. Waits'
      BY <2>1, <2>5, <2>8, Zenon DEF Waits, InQueue
    <3> QED
      BY <2>1, <2>3, <3>1 DEF MovesOn, Has
  <2> QED
    BY <2>4, <2>6, <2>7, <2>8 DEF MovesOn, Ahead
<1>11. ~ExecuteRemove
  <2>1. Executing("Remove") => Has(todo, "Remove")
    BY <1>2 DEF Executing, Has
  <2> QED
    BY <2>1, <1>2 DEF Shaped, ExecuteRemove
<1> QED
  BY <1>3, <1>4, <1>5, <1>6, <1>7, <1>8, <1>9, <1>10, <1>11 DEF Execute

\* A command is added, and an answer with it when one was on its way.
LEMMA QueueGains ==
    ASSUME cmdQueue \in Seq(Command), NEW cmd, cmdQueue' = Append(cmdQueue, cmd)
    PROVE  /\ InQueue(cmdQueue', cmd.kind)
           /\ \A kind : InQueue(cmdQueue, kind) => InQueue(cmdQueue', kind)
<1>1. /\ Len(cmdQueue') = Len(cmdQueue) + 1 /\ Len(cmdQueue) \in Nat
      /\ \A i \in 1 .. Len(cmdQueue) : cmdQueue'[i] = cmdQueue[i]
      /\ cmdQueue'[Len(cmdQueue) + 1] = cmd
  OBVIOUS
<1>2. Len(cmdQueue) + 1 \in 1 .. Len(cmdQueue')
  BY <1>1
<1>3. InQueue(cmdQueue', cmd.kind)
  BY <1>1, <1>2 DEF InQueue
<1>4. \A i \in 1 .. Len(cmdQueue) : i \in 1 .. Len(cmdQueue')
  BY <1>1
<1> QED
  BY <1>1, <1>3, <1>4 DEF InQueue

LEMMA StillWaits ==
    ASSUME MovesOn, UNCHANGED <<policy, todo>>, Waits => Waits'
    PROVE  MovesOn'
BY DEF MovesOn, Ahead, Has

LEMMA OutsideMovesOn ==
    ASSUME IInv, MovesOn, ~MayDrop, Callback \/ User \/ Reboot
    PROVE  MovesOn'
<1>1. cmdQueue \in Seq(Command)
  BY DEF IInv, TypeOK
<1>2. ASSUME NEW cmd, Enqueue(cmd)
      PROVE  /\ InQueue(cmdQueue', cmd.kind)
             /\ \A kind : InQueue(cmdQueue, kind) => InQueue(cmdQueue', kind)
  <2>1. cmdQueue' = Append(cmdQueue, cmd)
    BY <1>2 DEF Enqueue
  <2> QED
    BY <1>1, <2>1, QueueGains
<1>3. CASE ConnectTimerFires
  <2> DEFINE cmd == [kind |-> "ConnectTimeout"]
  <2>1. cmd.kind = "ConnectTimeout" /\ Enqueue(cmd) /\ UNCHANGED <<policy, todo>>
    BY <1>3 DEF ConnectTimerFires, unchangedByCallback
  <2> HIDE DEF cmd
  <2>2. Waits'
    BY <1>2, <2>1 DEF Waits
  <2> QED
    BY <2>1, <2>2, StillWaits
<1>4. CASE RetryTimerFires
  <2> DEFINE cmd == [kind |-> "RetryExpired"]
  <2>1. cmd.kind = "RetryExpired" /\ Enqueue(cmd)
        /\ UNCHANGED <<policy, todo, connectTimer, leaving>>
    BY <1>4 DEF RetryTimerFires, unchangedByCallback
  <2> HIDE DEF cmd
  <2>2. Waits => Waits'
    BY <1>2, <2>1 DEF Waits
  <2> QED
    BY <2>1, <2>2, StillWaits
<1>5. ASSUME NEW class, NEW own, OnDisconnected(class, own) PROVE MovesOn'
  <2> DEFINE cmd == [kind |-> "Disconnected", class |-> class, own |-> own]
  <2>1. cmd.kind = "Disconnected" /\ Enqueue(cmd) /\ UNCHANGED <<policy, todo>>
    BY <1>5 DEF OnDisconnected, unchangedByCallback
  <2> HIDE DEF cmd
  <2>2. Waits'
    BY <1>2, <2>1 DEF Waits
  <2> QED
    BY <2>1, <2>2, StillWaits
<1>6. CASE DriverGotIp
  <2> DEFINE cmd == [kind |-> "GotIp", from |-> link.ssid]
  <2>1. Enqueue(cmd) /\ UNCHANGED <<policy, todo, connectTimer, retryTimer, leaving>>
    BY <1>6 DEF DriverGotIp, unchangedByCallback, Esp!EspJoinSucceeds
  <2> HIDE DEF cmd
  <2>2. Waits => Waits'
    BY <1>2, <2>1 DEF Waits
  <2> QED
    BY <2>1, <2>2, StillWaits
<1>7. CASE Callback
  BY <1>3, <1>4, <1>5, <1>6, <1>7 DEF Callback, DriverLeft, DriverJoinFails, DriverLinkDrops
<1>8. ASSUME NEW cmd, Issue(cmd) PROVE MovesOn'
  <2>1. /\ cmdQueue' = Append(cmdQueue, cmd)
        /\ UNCHANGED <<policy, todo, connectTimer, retryTimer, leaving>>
    BY <1>8 DEF Issue
  <2>2. \A kind : InQueue(cmdQueue, kind) => InQueue(cmdQueue', kind)
    BY <1>1, <2>1, QueueGains
  <2>3. Waits => Waits'
    BY <2>1, <2>2 DEF Waits
  <2> QED
    BY <2>1, <2>3, StillWaits
<1>9. CASE User
  BY <1>8, <1>9 DEF User, UserConnectNew, UserConnectSaved, UserForget,
     UserUpdatePassword, UserDisconnect, UserPause, UserResume
<1>10. CASE Reboot
  <2>1. policy'.state # "Connecting"
    BY <1>10, InitialPolicyFacts DEF Reboot
  <2> QED
    BY <2>1, ElsewhereMovesOn
<1> QED
  BY <1>7, <1>9, <1>10

LEMMA NextMovesOn ==
    ASSUME IInv, Steady, MovesOn, ~MayDrop, [WifiNext]_wifiVars
    PROVE  MovesOn'
<1>1. CASE UNCHANGED wifiVars
  BY <1>1 DEF wifiVars, MovesOn, Ahead, Has, Waits, InQueue
<1> QED
  BY <1>1, HandleMovesOn, ExecuteMovesOn, OutsideMovesOn DEF WifiNext

\* A policy that is CONNECTING has something to execute or something coming
\* that moves it on.
THEOREM GoesOnMoving ==
    ASSUME "Forget" \notin UserCommands, ~MayDrop
    PROVE  WifiSpec => []MovesOn
<1>1. WifiInit => MovesOn
  BY InitialPolicyFacts DEF WifiInit, PolicyInit, MovesOn
<1>2. IInv /\ Steady /\ MovesOn /\ [WifiNext]_wifiVars => MovesOn'
  BY NextMovesOn
<1> QED
  BY <1>1, <1>2, InductiveInvariant, StaysSteady, PTL DEF WifiSpec

\* "still time out instead of getting stuck CONNECTING": as long as no report
\* is dropped, nothing the user does or the driver answers, in whatever order,
\* leaves the policy CONNECTING with nothing to wait for.
THEOREM NeverGetsStuck ==
    ASSUME "Forget" \notin UserCommands, ~MayDrop
    PROVE  WifiSpec => []NeverStuck
<1>1. MovesOn => NeverStuck
  <2> SUFFICES ASSUME MovesOn, todo = <<>>, policy.state = "Connecting"
               PROVE  \/ connectTimer
                      \/ retryTimer /\ policy.retryKind # "None"
                      \/ leaving > 0
                      \/ \E i \in 1 .. Len(cmdQueue) : cmdQueue[i].kind \in Waking
    BY DEF NeverStuck
  <2>1. Waits
    BY IdleWaits
  <2> QED
    BY <2>1 DEF Waits, InQueue, Waking
<1> QED
  BY <1>1, GoesOnMoving, PTL

-----------------------------------------------------------------------------
(* What a policy at rest makes of each input.                              *)

Resting(p) == p.state = "Ready" /\ p.retryKind = "None" /\ p.current = Empty

LEMMA InputsRest ==
    ASSUME policy \in Policy, Resting(policy), NEW rest, NEW s, NEW class,
           \/ InConnectFail(class, rest) \/ InTeardownDisconnected(rest)
           \/ InConnectSuccess(rest) \/ InConnectTimeout(rest) \/ InRetryTimerExpired(rest)
           \/ InDisconnect(rest) \/ InPause(rest) \/ InForget(s, rest) \/ InUpdatePassword(s, rest)
    PROVE  Resting(policy')
<1>1. CASE InConnectFail(class, rest) \/ InConnectTimeout(rest)
  BY <1>1 DEF Resting, InConnectFail, InConnectTimeout, Ignored
<1>2. CASE InTeardownDisconnected(rest)
  BY <1>2 DEF Resting, Policy, InTeardownDisconnected, Ignored
<1>3. CASE InConnectSuccess(rest)
  BY <1>3 DEF Resting, InConnectSuccess, Ignored
<1>4. CASE InRetryTimerExpired(rest)
  BY <1>4 DEF Resting, Policy, InRetryTimerExpired
<1>5. CASE InDisconnect(rest) \/ InPause(rest)
  BY <1>5 DEF Resting, Policy, InDisconnect, InPause, Halted
<1>6. CASE InForget(s, rest)
  BY <1>6 DEF Resting, InForget, NeedsTeardown, Ignored
<1>7. CASE InUpdatePassword(s, rest)
  BY <1>7 DEF Resting, Policy, InUpdatePassword
<1> QED
  BY <1>1, <1>2, <1>3, <1>4, <1>5, <1>6, <1>7

LEMMA StepRests ==
    ASSUME IInv, WifiNext, AtRest, ~AtRest'
    PROVE  HandleConnectNew \/ HandleConnectSaved \/ HandleResume \/ Reboot
<1>1. Resting(policy) /\ ~Resting(policy') /\ policy \in Policy
  BY DEF AtRest, Resting, IInv, TypeOK
<1>2. policy' # policy
  BY <1>1
<1>3. ~HandleStarted /\ ~Start
  <2>1. policy.state # "Idle"
    BY <1>1 DEF Resting
  <2>2. ~HandleStarted
    BY <2>1, ReceiveFacts DEF HandleStarted, Waiting
  <2>3. ~Start
    BY <2>1, ExecutingFacts DEF Start, Starting
  <2> QED
    BY <2>2, <2>3
<1>4. ~HandleDisconnected
  <2>1. ASSUME HandleDisconnected
        PROVE  \/ \E class : InConnectFail(class, <<>>)
               \/ InTeardownDisconnected(<<>>) \/ UNCHANGED policy
    BY <1>1, <2>1 DEF HandleDisconnected, Resting
  <2> QED
    BY <1>1, <1>2, <2>1, InputsRest
<1>5. ~(HandleGotIp \/ HandleConnectTimeout \/ HandleRetryExpired)
  BY <1>1, InputsRest DEF HandleGotIp, HandleConnectTimeout, HandleRetryExpired
<1>6. ~(HandleDisconnect \/ HandlePause \/ HandleForget \/ HandleUpdatePassword)
  BY <1>1, InputsRest
  DEF HandleDisconnect, HandlePause, HandleForget, HandleUpdatePassword
<1>7. ~ExecuteConnect
  BY <1>1, <1>2, InputsRest DEF ExecuteConnect
<1>8. \A recs, last : ~SetProfiles(recs, last)
  BY <1>1 DEF SetProfiles, Resting, Policy
<1>9. ~(ExecuteMarkLastSuccess \/ ExecuteRemove)
  BY <1>2, <1>8, Zenon DEF ExecuteMarkLastSuccess, ExecuteRemove, SaveAndSync
<1>10. ~(ExecuteDisconnect \/ ExecuteRetryTimer \/ ExecuteEvent \/ ExecuteSetBlocked
         \/ ExecuteArmIfTeardown)
  BY <1>2 DEF ExecuteDisconnect, ExecuteRetryTimer, ExecuteEvent, ExecuteSetBlocked,
              ExecuteArmIfTeardown
<1>11. ~Callback
  BY <1>2 DEF Callback, ConnectTimerFires, RetryTimerFires, DriverLeft, DriverJoinFails,
              DriverLinkDrops, DriverGotIp, OnDisconnected, unchangedByCallback
<1>12. ~User
  BY <1>2, Zenon DEF User, UserConnectNew, UserConnectSaved, UserForget, UserUpdatePassword,
                     UserDisconnect, UserPause, UserResume, Issue
<1> QED
  BY <1>3, <1>4, <1>5, <1>6, <1>7, <1>9, <1>10, <1>11, <1>12 DEF WifiNext, Handle, Execute

\* wifi_manager.c leaves a policy at rest alone: whatever timer, driver event
\* or queued report is late, lost or dropped, and however many networks there
\* are, only a command that asks for a connection, or a restart, ends the rest.
THEOREM AlwaysRestsUntilAsked == WifiSpec => RestsUntilAsked
<1>1. IInv /\ [WifiNext]_wifiVars =>
          [AtRest /\ ~AtRest' =>
               HandleConnectNew \/ HandleConnectSaved \/ HandleResume \/ Reboot]_wifiVars
  BY StepRests
<1> QED
  BY <1>1, InductiveInvariant, PTL DEF WifiSpec, RestsUntilAsked

-----------------------------------------------------------------------------
(* The policy is CONNECTED to something, unless a report was lost.          *)

\* A disconnection a new attempt waits for is not waited for once CONNECTED.
TeardownOver == policy.state = "Connected" => ~policy.teardown

LEMMA BeginLeaves ==
    ASSUME NEW p, "state" \in DOMAIN p, NEW start, NEW left, NEW acts, NEW rest,
           BeginFrom(p, start, left, acts, rest)
    PROVE  policy'.state # "Connected"
<1>1. CASE \E k \in OpenSteps(p, start, left) :
             policy' = [p EXCEPT !.cursor = Around(p, start, k), !.remaining = left - k,
                                 !.attempt = 0, !.origin = "Autoconnect",
                                 !.current = p.profiles[Around(p, start, k) + 1].ssid,
                                 !.state = "Connecting", !.retryKind = "None"]
  BY <1>1
<1>2. CASE policy' = [p EXCEPT !.state = "Ready", !.origin = "None", !.current = Empty]
  BY <1>2
<1> QED
  BY <1>1, <1>2 DEF BeginFrom

LEMMA ExhaustedLeaves ==
    ASSUME NEW p, "state" \in DOMAIN p, NEW acts, NEW rest, OnProfileExhausted(p, acts, rest)
    PROVE  policy'.state # "Connected"
<1>1. \A start, left : BeginFrom(p, start, left, acts, rest) => policy'.state # "Connected"
  BY BeginLeaves
<1>2. policy' = [p EXCEPT !.state = "Ready", !.origin = "None", !.retryKind = "NewCycle"] =>
          policy'.state # "Connected"
  OBVIOUS
<1> QED
  BY <1>1, <1>2 DEF OnProfileExhausted

\* handle_terminal_failure() ends in CONNECTING or READY.
LEMMA FailureLeaves ==
    ASSUME policy \in Policy, policy.state = "Connecting", NEW class, NEW rest,
           TerminalFailure(class, rest)
    PROVE  policy'.state # "Connected"
<1>1. "state" \in DOMAIN policy
  BY DEF Policy
<1>2. CASE StartFallback(class, rest)
  BY <1>2 DEF StartFallback, Policy
<1>3. CASE GiveUp(class, rest)
  BY <1>3 DEF GiveUp, Policy
<1>4. CASE NoProfiles(class, rest)
  BY <1>4 DEF NoProfiles, Policy
<1>5. CASE BlockProfile(class, rest)
  <2> DEFINE here == policy.cursor + 1
             p == [policy EXCEPT !.teardown = FALSE,
                                 !.profiles[here].fails = FailsAfter(class),
                                 !.profiles[here].blocked = TRUE]
  <2>1. "state" \in DOMAIN p
    BY <1>1
  <2>2. \E acts : OnProfileExhausted(p, acts, rest)
    BY <1>5 DEF BlockProfile
  <2> HIDE DEF p
  <2> QED
    BY <2>1, <2>2, ExhaustedLeaves
<1>6. CASE CountAttempt(class, rest)
  <2> DEFINE here == policy.cursor + 1
             p == [policy EXCEPT !.teardown = FALSE, !.profiles[here].fails = FailsAfter(class),
                                 !.attempt = (policy.attempt + 1) % (UInt8Max + 1)]
  <2>1. "state" \in DOMAIN p /\ p.state = "Connecting"
    BY <1>1
  <2>2. \/ policy' = [p EXCEPT !.retryKind = "SameProfile"]
        \/ \E acts : OnProfileExhausted(p, acts, rest)
    BY <1>6 DEF CountAttempt
  <2> HIDE DEF p
  <2> QED
    BY <2>1, <2>2, ExhaustedLeaves
<1> QED
  BY <1>2, <1>3, <1>4, <1>5, <1>6 DEF TerminalFailure

\* An input that leads elsewhere than CONNECTED, or changes neither that nor
\* what is waited for.
Calmed == /\ policy'.state = "Connected" => policy.state = "Connected"
          /\ TeardownOver => TeardownOver'

LEMMA Leaving ==
    ASSUME policy'.state # "Connected"
    PROVE  Calmed
BY DEF Calmed, TeardownOver

LEMMA Keeping ==
    ASSUME policy'.state = policy.state, policy'.teardown = policy.teardown
    PROVE  Calmed
BY DEF Calmed, TeardownOver

LEMMA FailCalm ==
    ASSUME policy \in Policy, NEW class, NEW rest, InConnectFail(class, rest)
    PROVE  /\ Calmed
           /\ policy.state = "Connecting" => policy'.state # "Connected"
<1>1. CASE policy.state = "Connecting"
  BY <1>1, FailureLeaves, Leaving DEF InConnectFail
<1>2. CASE policy.state # "Connecting"
  BY <1>2, Keeping DEF InConnectFail, Ignored
<1> QED
  BY <1>1, <1>2

LEMMA LostCalm ==
    ASSUME policy \in Policy, NEW rest, InLinkLost(rest)
    PROVE  policy'.state # "Connected"
BY DEF InLinkLost, Policy, CycleFrom, Ignored

LEMMA TeardownCalm ==
    ASSUME policy \in Policy, NEW rest, InTeardownDisconnected(rest), policy.state # "Connected"
    PROVE  policy'.state # "Connected"
BY DEF InTeardownDisconnected, Policy, Ignored

\* The timer and the start.
LEMMA CycleCalm ==
    ASSUME policy \in Policy, NEW rest,
           InStarted(rest) \/ InRetryTimerExpired(rest) \/ InResume(rest)
    PROVE  Calmed
<1>1. \A p, start, left, acts :
         "state" \in DOMAIN p /\ BeginFrom(p, start, left, acts, rest) => Calmed
  BY BeginLeaves, Leaving
<1>2. "state" \in DOMAIN policy
  BY DEF Policy
<1>3. CASE InStarted(rest)
  BY <1>1, <1>2, <1>3, Leaving DEF InStarted
<1>4. CASE InResume(rest)
  BY <1>1, <1>2, <1>4, Keeping DEF InResume, Ignored
<1>5. CASE InRetryTimerExpired(rest)
  <2> DEFINE p == [policy EXCEPT !.retryKind = "None"]
  <2>1. /\ "state" \in DOMAIN p /\ p.state = policy.state /\ p.teardown = policy.teardown
        /\ [p EXCEPT !.state = "Connecting"].state # "Connected"
    BY DEF Policy
  <2>2. \/ policy' = [p EXCEPT !.state = "Connecting"]
        \/ BeginFrom(p, 0, Len(p.profiles), <<>>, rest)
        \/ policy' = p
    BY <1>5 DEF InRetryTimerExpired
  <2> HIDE DEF p
  <2> QED
    BY <1>1, <2>1, <2>2, Leaving, Keeping
<1> QED
  BY <1>3, <1>4, <1>5

\* The commands of the user.
LEMMA UserCalm ==
    ASSUME policy \in Policy, NEW rest, NEW s,
           \/ InConnectNew(s, rest) \/ InConnectSaved(s, rest) \/ InDisconnect(rest)
           \/ InPause(rest) \/ InForget(s, rest) \/ InUpdatePassword(s, rest)
    PROVE  Calmed
<1>1. CASE InConnectNew(s, rest)
  <2>1. policy'.state = "Connecting"
    BY <1>1 DEF InConnectNew, ManualAttempt, Policy
  <2> QED
    BY <2>1, Leaving
<1>2. CASE InConnectSaved(s, rest)
  <2>1. policy'.state = "Connecting"
    BY <1>2 DEF InConnectSaved, ManualAttempt, Policy
  <2> QED
    BY <2>1, Leaving
<1>3. CASE InDisconnect(rest)
  BY <1>3, Leaving DEF InDisconnect, Halted, Policy
<1>4. CASE InPause(rest)
  BY <1>4, Leaving, Keeping DEF InPause, Halted, Policy, Ignored
<1>5. CASE InForget(s, rest)
  BY <1>5, Leaving, Keeping DEF InForget, Policy, Ignored
<1>6. CASE InUpdatePassword(s, rest)
  BY <1>6, Keeping DEF InUpdatePassword, Policy
<1> QED
  BY <1>1, <1>2, <1>3, <1>4, <1>5, <1>6

LEMMA SuccessCalm ==
    ASSUME policy \in Policy, NEW rest, InConnectSuccess(rest)
    PROVE  TeardownOver => TeardownOver'
BY DEF InConnectSuccess, TeardownOver, Policy, Ignored

LEMMA SetProfilesCalm ==
    ASSUME policy \in Policy, NEW recs, NEW last, SetProfiles(recs, last)
    PROVE  Calmed
<1>1. policy'.state = policy.state /\ policy'.teardown = policy.teardown
  BY DEF SetProfiles, Policy
<1> QED
  BY <1>1, Keeping

-----------------------------------------------------------------------------

\* The end of an association is still told after the head of the queue is
\* taken, and after the driver was told to disconnect.
LEMMA StillTold ==
    ASSUME cmdQueue \in Seq(Command), cmdQueue # <<>>, cmdQueue' = Tail(cmdQueue),
           UNCHANGED <<link, leaving>> \/ Esp!EspDisconnect, Esp!DriverType,
           NEW i \in Nat, EndIsTold(i + 1)
    PROVE  EndIsTold(i)'
<1>1. /\ Len(cmdQueue) \in Nat \ {0} /\ Len(cmdQueue') = Len(cmdQueue) - 1
      /\ \A j \in 1 .. Len(cmdQueue') : cmdQueue'[j] = cmdQueue[j + 1]
  OBVIOUS
<1>2. CASE link.phase = "Up" \/ leaving > 0
  <2>1. link'.phase = "Up" \/ leaving' > 0
    BY <1>2 DEF Esp!EspDisconnect, Esp!DriverType, Esp!driverVars
  <2> QED
    BY <2>1 DEF EndIsTold
<1>3. CASE \E j \in i + 2 .. Len(cmdQueue) : cmdQueue[j].kind = "Disconnected"
  <2>1. PICK j \in i + 2 .. Len(cmdQueue) : cmdQueue[j].kind = "Disconnected"
    BY <1>3
  <2>2. /\ j - 1 \in i + 1 .. Len(cmdQueue') /\ j - 1 \in 1 .. Len(cmdQueue')
        /\ (j - 1) + 1 = j
    BY <1>1, <2>1
  <2>3. cmdQueue'[j - 1] = cmdQueue[j]
    BY <1>1, <2>2
  <2> QED
    BY <2>1, <2>2, <2>3 DEF EndIsTold
<1>4. i + 1 + 1 = i + 2
  OBVIOUS
<1> QED
  BY <1>2, <1>3, <1>4 DEF EndIsTold

\* What a handler does to the queue and the driver.
LEMMA TakenTells ==
    ASSUME IInv, SuccessIsTrue, NEW kind, Receive(kind),
           UNCHANGED <<link, leaving>> \/ Esp!EspDisconnect,
           policy'.state = "Connected" =>
               kind = "GotIp" \/ (policy.state = "Connected" /\ kind # "Disconnected")
    PROVE  SuccessIsTrue'
<1>1. /\ cmdQueue \in Seq(Command) /\ cmdQueue # <<>> /\ cmdQueue' = Tail(cmdQueue)
      /\ Esp!DriverType /\ cmdQueue[1].kind = kind
  BY DEF IInv, TypeOK, Receive
<1>2. /\ Len(cmdQueue) \in Nat \ {0} /\ Len(cmdQueue') = Len(cmdQueue) - 1
      /\ \A j \in 1 .. Len(cmdQueue') : cmdQueue'[j] = cmdQueue[j + 1]
  BY <1>1
<1>3. ASSUME policy'.state = "Connected"
      PROVE  EndIsTold(0)'
  <2>1. EndIsTold(1)
    <3>1. CASE kind = "GotIp"
      BY <1>1, <1>2, <3>1 DEF SuccessIsTrue
    <3>2. CASE policy.state = "Connected" /\ kind # "Disconnected"
      <4>1. EndIsTold(0)
        BY <3>2 DEF SuccessIsTrue
      <4>2. \A j \in 0 + 1 .. Len(cmdQueue) :
               cmdQueue[j].kind = "Disconnected" => j \in 1 + 1 .. Len(cmdQueue)
        BY <1>1, <1>2, <3>2
      <4> QED
        BY <4>1, <4>2 DEF EndIsTold
    <3> QED
      BY <1>3, <3>1, <3>2
  <2>2. 0 \in Nat /\ EndIsTold(0 + 1)
    BY <2>1
  <2> QED
    BY <1>1, <2>2, StillTold
<1>4. ASSUME NEW i \in 1 .. Len(cmdQueue'), cmdQueue'[i].kind = "GotIp"
      PROVE  EndIsTold(i)'
  <2>1. i \in Nat /\ i + 1 \in 1 .. Len(cmdQueue) /\ cmdQueue[i + 1].kind = "GotIp"
    BY <1>2, <1>4
  <2>2. EndIsTold(i + 1)
    BY <2>1 DEF SuccessIsTrue
  <2> QED
    BY <1>1, <2>1, <2>2, StillTold
<1> QED
  BY <1>3, <1>4 DEF SuccessIsTrue

\* What a step that takes nothing from the queue does: the driver is asked for
\* something, or nothing.
LEMMA AskedTells ==
    ASSUME IInv, SuccessIsTrue, UNCHANGED cmdQueue,
           policy'.state = "Connected" => policy.state = "Connected",
           \/ UNCHANGED <<link, leaving>> \/ Esp!EspDisconnect
           \/ \E s, pw : Esp!EspConnect(s, pw)
    PROVE  SuccessIsTrue'
<1>1. \A i : EndIsTold(i) => EndIsTold(i)'
  <2>1. Esp!DriverType
    BY DEF IInv, TypeOK
  <2>2. link.phase = "Up" \/ leaving > 0 => link'.phase = "Up" \/ leaving' > 0
    BY <2>1 DEF Esp!EspDisconnect, Esp!EspConnect, Esp!DriverType, Esp!driverVars
  <2> QED
    BY <2>2 DEF EndIsTold
<1> QED
  BY <1>1 DEF SuccessIsTrue

\* What an entry put at the end of the queue does.
LEMMA AddedTells ==
    ASSUME IInv, SuccessIsTrue, UNCHANGED policy, NEW cmd,
           cmdQueue' = Append(cmdQueue, cmd),
           \/ cmd.kind \in {"Disconnected", "GotIp"} /\ link'.phase = "Up"
           \/ cmd.kind = "Disconnected"
           \/ cmd.kind # "GotIp" /\ UNCHANGED <<link, leaving>>
    PROVE  SuccessIsTrue'
<1>1. /\ cmdQueue \in Seq(Command) /\ Len(cmdQueue) \in Nat
      /\ Len(cmdQueue') = Len(cmdQueue) + 1
      /\ \A i \in 1 .. Len(cmdQueue) : cmdQueue'[i] = cmdQueue[i]
      /\ cmdQueue'[Len(cmdQueue) + 1] = cmd
  BY DEF IInv, TypeOK
<1>2. ASSUME NEW i \in 0 .. Len(cmdQueue), EndIsTold(i)
      PROVE  EndIsTold(i)'
  <2>1. CASE link'.phase = "Up"
    BY <2>1 DEF EndIsTold
  <2>2. CASE cmd.kind = "Disconnected"
    <3>1. Len(cmdQueue) + 1 \in i + 1 .. Len(cmdQueue')
      BY <1>1
    <3> QED
      BY <1>1, <2>2, <3>1 DEF EndIsTold
  <2>3. CASE UNCHANGED <<link, leaving>>
    <3>1. \A j \in i + 1 .. Len(cmdQueue) :
             j \in i + 1 .. Len(cmdQueue') /\ cmdQueue'[j] = cmdQueue[j]
      BY <1>1
    <3> QED
      BY <1>2, <2>3, <3>1 DEF EndIsTold
  <2> QED
    BY <2>1, <2>2, <2>3
<1>3. policy'.state = "Connected" => EndIsTold(0)'
  BY <1>1, <1>2 DEF SuccessIsTrue
<1>4. ASSUME NEW i \in 1 .. Len(cmdQueue'), cmdQueue'[i].kind = "GotIp"
      PROVE  EndIsTold(i)'
  <2>1. CASE i \in 1 .. Len(cmdQueue)
    BY <1>1, <1>2, <1>4, <2>1 DEF SuccessIsTrue
  <2>2. CASE i = Len(cmdQueue) + 1
    BY <1>1, <1>4, <2>2 DEF EndIsTold
  <2> QED
    BY <1>1, <2>1, <2>2
<1> QED
  BY <1>3, <1>4 DEF SuccessIsTrue

-----------------------------------------------------------------------------

LEMMA PolicyTyped ==
    ASSUME IInv
    PROVE  policy \in Policy
BY DEF IInv, TypeOK

\* The handlers.
LEMMA HandleTells ==
    ASSUME IInv, TeardownOver, Handle
    PROVE  TeardownOver' /\ (SuccessIsTrue => SuccessIsTrue')
<1> USE PolicyTyped
<1>1. CASE HandleStarted
  <2>1. Calmed
    BY <1>1, SetProfilesCalm DEF HandleStarted
  <2> QED
    BY <1>1, <2>1, TakenTells DEF HandleStarted, Calmed, unchangedByPolicy
<1>2. CASE HandleDisconnected
  <2>1. policy'.state # "Connected"
    <3>1. CASE policy.teardown /\ InTeardownDisconnected(<<>>)
      BY <3>1, TeardownCalm DEF TeardownOver
    <3>2. CASE policy.state = "Connecting" /\ InConnectFail(Head(cmdQueue).class, <<>>)
      BY <3>2, FailCalm
    <3>3. CASE InLinkLost(<<>>)
      BY <3>3, LostCalm
    <3>4. CASE policy.state \in {"Idle", "Ready"} /\ UNCHANGED policy
      BY <3>4
    <3> QED
      BY <1>2, <3>1, <3>2, <3>3, <3>4 DEF HandleDisconnected
  <2>2. Calmed
    BY <2>1, Leaving
  <2>3. UNCHANGED <<link, leaving>> /\ Receive("Disconnected")
    BY <1>2 DEF HandleDisconnected
  <2> QED
    BY <2>1, <2>2, <2>3, TakenTells DEF Calmed
<1>3. CASE HandleGotIp
  <2>1. TeardownOver'
    BY <1>3, SuccessCalm DEF HandleGotIp
  <2>2. UNCHANGED <<link, leaving>> /\ Receive("GotIp")
    BY <1>3 DEF HandleGotIp
  <2> QED
    BY <2>1, <2>2, TakenTells
<1>4. CASE HandleConnectTimeout
  <2>1. Calmed
    BY <1>4, FailCalm DEF HandleConnectTimeout, InConnectTimeout
  <2>2. Esp!EspDisconnect /\ Receive("ConnectTimeout")
    BY <1>4 DEF HandleConnectTimeout
  <2> QED
    BY <2>1, <2>2, TakenTells DEF Calmed
<1>5. ASSUME NEW kind \in {"RetryExpired", "Resume", "ConnectNew", "ConnectSaved", "Disconnect",
                           "Pause", "Forget", "UpdatePassword"},
             Receive(kind), UNCHANGED <<link, leaving>>, Calmed
      PROVE  TeardownOver' /\ (SuccessIsTrue => SuccessIsTrue')
  BY <1>5, TakenTells DEF Calmed
<1>6. CASE HandleRetryExpired \/ HandleResume
  BY <1>5, <1>6, CycleCalm DEF HandleRetryExpired, HandleResume, unchangedByPolicy
<1>7. CASE HandleConnectNew
  BY <1>5, <1>7, UserCalm DEF HandleConnectNew
<1>8. CASE HandleConnectSaved
  BY <1>5, <1>8, UserCalm DEF HandleConnectSaved, unchangedByPolicy
<1>9. CASE HandleDisconnect \/ HandlePause
  BY <1>5, <1>9, UserCalm DEF HandleDisconnect, HandlePause, unchangedByPolicy
<1>10. CASE HandleForget
  BY <1>5, <1>10, UserCalm DEF HandleForget, unchangedByPolicy
<1>11. CASE HandleUpdatePassword
  BY <1>5, <1>11, UserCalm DEF HandleUpdatePassword
<1> QED
  BY <1>1, <1>2, <1>3, <1>4, <1>6, <1>7, <1>8, <1>9, <1>10, <1>11 DEF Handle

\* The entries of todo.
LEMMA ExecuteTells ==
    ASSUME IInv, TeardownOver, Execute
    PROVE  TeardownOver' /\ (SuccessIsTrue => SuccessIsTrue')
<1> USE PolicyTyped
<1>1. ASSUME Calmed, UNCHANGED cmdQueue,
             \/ UNCHANGED <<link, leaving>> \/ Esp!EspDisconnect
             \/ \E s, pw : Esp!EspConnect(s, pw)
      PROVE  TeardownOver' /\ (SuccessIsTrue => SuccessIsTrue')
  BY <1>1, AskedTells DEF Calmed
<1>2. CASE Start
  BY <1>1, <1>2, CycleCalm DEF Start, unchangedByPolicy
<1>3. CASE ExecuteConnect
  <2>1. UNCHANGED cmdQueue
    BY <1>3 DEF ExecuteConnect
  <2>2. CASE UNCHANGED policy /\ \E s, pw : Esp!EspConnect(s, pw)
    BY <1>1, <2>1, <2>2, Keeping
  <2>3. CASE InConnectFail("Other", Tail(todo)) /\ UNCHANGED <<link, leaving>>
    BY <1>1, <2>1, <2>3, FailCalm
  <2> QED
    BY <1>3, <2>2, <2>3 DEF ExecuteConnect, Esp!EspConnectRefused, Esp!driverVars
<1>4. CASE ExecuteDisconnect
  BY <1>1, <1>4, Keeping DEF ExecuteDisconnect
<1>5. CASE ExecuteRetryTimer \/ ExecuteEvent \/ ExecuteSetBlocked \/ ExecuteArmIfTeardown
  <2>1. UNCHANGED <<policy, link, leaving, cmdQueue>>
    BY <1>5 DEF ExecuteRetryTimer, ExecuteEvent, ExecuteSetBlocked, ExecuteArmIfTeardown
  <2> QED
    BY <1>1, <2>1, Keeping
<1>6. CASE ExecuteMarkLastSuccess \/ ExecuteRemove
  <2>1. UNCHANGED <<link, leaving, cmdQueue>>
    BY <1>6 DEF ExecuteMarkLastSuccess, ExecuteRemove
  <2>2. UNCHANGED policy \/ \E recs, last : SetProfiles(recs, last)
    BY <1>6, Zenon DEF ExecuteMarkLastSuccess, ExecuteRemove, SaveAndSync
  <2>3. Calmed
    BY <2>2, SetProfilesCalm, Keeping
  <2> QED
    BY <1>1, <2>1, <2>3
<1> QED
  BY <1>2, <1>3, <1>4, <1>5, <1>6 DEF Execute

\* A report of the end of an association does not fit into the queue.
EndIsLost == (DriverLeft \/ DriverLinkDrops) /\ Len(cmdQueue) = QueueLen

\* The callbacks.
LEMMA CallbackTells ==
    ASSUME IInv, SuccessIsTrue, Callback, ~EndIsLost
    PROVE  SuccessIsTrue'
<1>1. UNCHANGED policy
  BY DEF Callback, ConnectTimerFires, RetryTimerFires, DriverLeft, DriverJoinFails,
         DriverLinkDrops, DriverGotIp, OnDisconnected, unchangedByCallback
<1>2. \A cmd : Enqueue(cmd) =>
          \/ cmdQueue' = Append(cmdQueue, cmd)
          \/ UNCHANGED cmdQueue /\ Len(cmdQueue) = QueueLen
  <2>1. Len(cmdQueue) =< QueueLen /\ Len(cmdQueue) \in Nat /\ QueueLen \in Nat
    BY ManagerAssumption DEF IInv, TypeOK
  <2> QED
    BY <2>1 DEF Enqueue
<1>3. ASSUME UNCHANGED <<link, leaving>>, UNCHANGED cmdQueue
      PROVE  SuccessIsTrue'
  BY <1>1, <1>3, AskedTells
<1>4. CASE ConnectTimerFires \/ RetryTimerFires
  <2>1. PICK cmd : Enqueue(cmd) /\ cmd.kind \in {"ConnectTimeout", "RetryExpired"}
    BY <1>4 DEF ConnectTimerFires, RetryTimerFires
  <2>2. UNCHANGED <<link, leaving>>
    BY <1>4 DEF ConnectTimerFires, RetryTimerFires
  <2> QED
    BY <1>1, <1>2, <1>3, <2>1, <2>2, AddedTells
<1>5. CASE DriverLeft \/ DriverLinkDrops
  <2>1. PICK cmd : Enqueue(cmd) /\ cmd.kind = "Disconnected"
    BY <1>5 DEF DriverLeft, DriverLinkDrops, OnDisconnected
  <2> QED
    BY <1>1, <1>2, <1>5, <2>1, AddedTells DEF EndIsLost
<1>6. CASE DriverJoinFails
  <2>1. PICK cmd : Enqueue(cmd) /\ cmd.kind = "Disconnected"
    BY <1>6 DEF DriverJoinFails, OnDisconnected
  <2>2. link.phase # "Up" /\ leaving = 0
    BY <1>6 DEF DriverJoinFails, Esp!EspJoinFails
  <2>3. CASE UNCHANGED cmdQueue
    <3>1. \A i : EndIsTold(i) => EndIsTold(i)'
      BY <2>2, <2>3 DEF EndIsTold
    <3> QED
      BY <1>1, <2>3, <3>1 DEF SuccessIsTrue
  <2> QED
    BY <1>1, <1>2, <2>1, <2>3, AddedTells
<1>7. CASE DriverGotIp
  <2>1. PICK cmd : Enqueue(cmd) /\ cmd.kind = "GotIp"
    BY <1>7 DEF DriverGotIp
  <2>2. link'.phase = "Up"
    BY <1>7 DEF DriverGotIp, Esp!EspJoinSucceeds, IInv, TypeOK, Esp!DriverType
  <2>3. CASE UNCHANGED cmdQueue
    BY <1>1, <2>2, <2>3 DEF SuccessIsTrue, EndIsTold
  <2> QED
    BY <1>1, <1>2, <2>1, <2>2, <2>3, AddedTells
<1> QED
  BY <1>4, <1>5, <1>6, <1>7 DEF Callback

LEMMA UserTells ==
    ASSUME IInv, SuccessIsTrue, User
    PROVE  SuccessIsTrue'
<1>1. PICK cmd : Issue(cmd) /\ cmd.kind \in AllCommands
  <2>1. \E cmd : Issue(cmd)
    BY Zenon DEF User, UserConnectNew, UserConnectSaved, UserForget, UserUpdatePassword,
                 UserDisconnect, UserPause, UserResume
  <2> QED
    BY <2>1, ManagerAssumption DEF Issue
<1> QED
  BY <1>1, AddedTells DEF Issue, AllCommands

LEMMA RebootTells ==
    ASSUME Reboot
    PROVE  TeardownOver' /\ SuccessIsTrue'
BY DEF Reboot, InitialPolicy, TeardownOver, SuccessIsTrue

LEMMA NextTells ==
    ASSUME IInv, TeardownOver, [WifiNext]_wifiVars
    PROVE  /\ TeardownOver'
           /\ SuccessIsTrue /\ ~EndIsLost => SuccessIsTrue'
<1>1. CASE Handle \/ Execute
  BY <1>1, HandleTells, ExecuteTells
<1>2. CASE Callback \/ User \/ UNCHANGED wifiVars
  <2>1. UNCHANGED policy
    BY <1>2, Zenon DEF Callback, ConnectTimerFires, RetryTimerFires, DriverLeft, DriverJoinFails,
       DriverLinkDrops, DriverGotIp, OnDisconnected, unchangedByCallback, User, UserConnectNew,
       UserConnectSaved, UserForget, UserUpdatePassword, UserDisconnect, UserPause, UserResume,
       Issue, wifiVars
  <2>2. TeardownOver'
    BY <2>1 DEF TeardownOver
  <2>3. UNCHANGED wifiVars => UNCHANGED <<link, leaving, cmdQueue>>
    BY DEF wifiVars
  <2>4. UNCHANGED wifiVars /\ SuccessIsTrue => SuccessIsTrue'
    BY <2>1, <2>3, AskedTells
  <2> QED
    BY <1>2, <2>2, <2>4, CallbackTells, UserTells
<1>3. CASE Reboot
  BY <1>3, RebootTells
<1> QED
  BY <1>1, <1>2, <1>3 DEF WifiNext

LEMMA InitTells ==
    ASSUME WifiInit
    PROVE  TeardownOver /\ SuccessIsTrue
BY DEF WifiInit, PolicyInit, InitialPolicy, TeardownOver, SuccessIsTrue

\* The policy never believes itself connected while it still awaits the end of
\* an association: the report of that end is never taken for a lost link.
THEOREM TeardownIsOver == WifiSpec => []TeardownOver
<1>1. WifiInit => TeardownOver
  BY InitTells
<1>2. IInv /\ TeardownOver /\ [WifiNext]_wifiVars => TeardownOver'
  BY NextTells
<1> QED
  BY <1>1, <1>2, InductiveInvariant, PTL DEF WifiSpec

\* wifi_manager.c takes back every success whose association has ended,
\* whatever timeouts, late reports and commands come in between, as long as the
\* report of the end has found room in the queue.
THEOREM OnlyLossEverMisleads == WifiSpec => OnlyLossMisleads
<1>1. IInv /\ TeardownOver /\ [WifiNext]_wifiVars =>
          [SuccessIsTrue /\ ~SuccessIsTrue' =>
               (DriverLeft \/ DriverLinkDrops) /\ Len(cmdQueue) = QueueLen]_wifiVars
  BY NextTells DEF EndIsLost
<1> QED
  BY <1>1, InductiveInvariant, TeardownIsOver, PTL DEF WifiSpec, OnlyLossMisleads

\* wifi_manager.c is not CONNECTED to nothing once all is quiet: with a queue
\* long enough for every report, and timeouts, refused connects and commands at
\* any moment, the association is there.
THEOREM ConnectedIsAlwaysUp ==
    ASSUME ~MayDrop
    PROVE  WifiSpec => []ConnectedIsUp
<1>1. IInv => ~EndIsLost
  <2>1. \A cmd : Enqueue(cmd) => Len(cmdQueue) < QueueLen
    BY DEF Enqueue
  <2>2. EndIsLost => \E cmd : Enqueue(cmd)
    BY DEF EndIsLost, DriverLeft, DriverLinkDrops, OnDisconnected
  <2>3. ASSUME IInv, EndIsLost
        PROVE  FALSE
    <3>1. Len(cmdQueue) < QueueLen /\ Len(cmdQueue) = QueueLen /\ QueueLen \in Nat
      BY <2>1, <2>2, <2>3, ManagerAssumption DEF EndIsLost
    <3> QED
      BY <3>1
  <2> QED
    BY <2>3
<1>2. IInv /\ TeardownOver /\ SuccessIsTrue /\ [WifiNext]_wifiVars => SuccessIsTrue'
  BY <1>1, NextTells
<1>3. WifiInit => SuccessIsTrue
  BY InitTells
<1>4. IInv /\ SuccessIsTrue => ConnectedIsUp
  <2> SUFFICES ASSUME IInv, SuccessIsTrue, Settled, policy.state = "Connected"
               PROVE  link.phase = "Up"
    BY DEF ConnectedIsUp
  <2>1. EndIsTold(0) /\ leaving = 0 /\ Len(cmdQueue) = 0
    BY DEF SuccessIsTrue, Settled
  <2> QED
    BY <2>1 DEF EndIsTold
<1> QED
  BY <1>2, <1>3, <1>4, InductiveInvariant, TeardownIsOver, PTL DEF WifiSpec
=============================================================================
