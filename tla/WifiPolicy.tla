----------------------------- MODULE WifiPolicy -----------------------------
(***************************************************************************)
(* The Wi-Fi connection policy: the pure state machine of wifi_policy.c    *)
(* that decides which network to try, when to retry, when to block a       *)
(* profile and when to fall back.  It owns no task and no radio: one call  *)
(* of wifi_policy_handle() changes `policy` and puts the actions it emits  *)
(* on `todo`, the list the adapter (WifiManager) executes in order.  Each  *)
(* input has an operator of its own, In<Input>, whose last argument `rest` *)
(* is what the adapter still has to execute after the emitted actions.     *)
(*                                                                         *)
(* Abstractions: SSIDs are model values, a delay is the mere fact that a   *)
(* timer runs, FAIL_AP_NOT_FOUND is FAIL_OTHER (the code never tells them  *)
(* apart), and the arrays profiles[], order[] and consecutive_auth_fails[] *)
(* are one sequence in autoconnect order (the code reads them through      *)
(* order[] or by SSID, and the profile database holds an SSID once).       *)
(***************************************************************************)
EXTENDS Integers, Sequences

CONSTANTS
    Ssids,              \* the SSIDs (non-empty strings) that occur
    Empty,              \* the empty string
    NoFallback,         \* stands for fallback_pending = false
    MaxAttempts,        \* config.max_attempts_per_profile
    AuthBlockThreshold, \* config.auth_block_threshold
    MaxActions,         \* WIFI_POLICY_MAX_ACTIONS
    UInt8Max            \* the largest value of a uint8_t

ASSUME PolicyAssumption ==
    /\ Empty \notin Ssids
    /\ NoFallback \notin Ssids \cup {Empty}
    /\ UInt8Max \in Nat
    /\ MaxAttempts \in 1 .. UInt8Max
    /\ AuthBlockThreshold \in 1 .. UInt8Max
    /\ MaxActions \in Nat
    /\ MaxActions >= 4  \* one input emits four actions at most

VARIABLES
    policy, \* wifi_policy_t
    todo    \* actions emitted and not yet executed by the adapter

States      == {"Idle", "Ready", "Connecting", "Connected"}
Origins     == {"None", "Autoconnect", "Manual", "Fallback"}
RetryKinds  == {"None", "SameProfile", "NewCycle"}
FailClasses == {"Auth", "Other"}
Events      == {"ReadyNoProfiles", "Connecting", "Connected", "Disconnected", "AuthFailed",
                "ConnectFailed", "FallbackStarted", "CycleRestarted", "AllProfilesBlocked"}
SsidOrEmpty == Ssids \cup {Empty}

Profile == [ssid : Ssids, blocked : BOOLEAN, fails : 0 .. UInt8Max]

Policy == [state     : States,
           origin    : Origins,                     \* current_origin
           current   : SsidOrEmpty,                 \* current_ssid
           attempt   : 0 .. UInt8Max,               \* current_attempt
           fallback  : SsidOrEmpty \cup {NoFallback},
           teardown  : BOOLEAN,                     \* teardown_pending
           profiles  : Seq(Profile),
           cursor    : Nat,                         \* into profiles, from 0
           remaining : 0 .. UInt8Max,               \* remaining_in_cycle
           retryKind : RetryKinds]                  \* pending_retry_kind

\* wifi_policy_init().
InitialPolicy ==
    [state |-> "Idle", origin |-> "None", current |-> Empty, attempt |-> 0,
     fallback |-> NoFallback, teardown |-> FALSE, profiles |-> <<>>,
     cursor |-> 0, remaining |-> 0, retryKind |-> "None"]

PolicyInit == policy = InitialPolicy /\ todo = <<>>

-----------------------------------------------------------------------------
(* The actions the policy asks the adapter to execute.                     *)

ActConnect(s, o)      == [act |-> "Connect", ssid |-> s, origin |-> o]
ActDisconnect         == [act |-> "Disconnect"]
ActRetryTimer         == [act |-> "StartRetryTimer"]
ActEvent(e, s)        == [act |-> "EmitEvent", event |-> e, ssid |-> s]
ActMarkLastSuccess(s) == [act |-> "MarkLastSuccess", ssid |-> s]
ActSetBlocked(s, b)   == [act |-> "SetBlocked", ssid |-> s, flag |-> b]

\* emit() silently drops the actions that do not fit the caller's array.
Fitting(acts) == SubSeq(acts, 1, IF Len(acts) > MaxActions THEN MaxActions ELSE Len(acts))

Emit(acts, rest) == todo' = Fitting(acts) \o rest

-----------------------------------------------------------------------------
(* The profile list.                                                       *)

\* The position of the record named s, or 0.
PositionOf(recs, s) ==
    IF \E i \in 1 .. Len(recs) : recs[i].ssid = s
    THEN CHOOSE i \in 1 .. Len(recs) : recs[i].ssid = s
    ELSE 0

\* order[]: the record of the last successful network comes first.
AutoconnectOrder(recs, last) ==
    LET first == PositionOf(recs, last) IN
    [i \in 1 .. Len(recs) |->
        IF i > first THEN recs[i] ELSE IF i = 1 THEN recs[first] ELSE recs[i - 1]]

\* wifi_policy_set_profiles(): replaces the profiles and resets all the
\* bookkeeping of the autoconnect cycle, whatever the policy is doing.
SetProfiles(recs, last) ==
    LET ordered == AutoconnectOrder(recs, last) IN
    policy' = [policy EXCEPT
                 !.profiles = [i \in 1 .. Len(ordered) |->
                     [ssid |-> ordered[i].ssid, blocked |-> ordered[i].blocked, fails |-> 0]],
                 !.cursor = 0,
                 !.remaining = 0,
                 !.retryKind = "None"]

\* Positions (from 0) of the profiles named s.
PositionsOf(s) == {k \in 0 .. Len(policy.profiles) - 1 : policy.profiles[k + 1].ssid = s}

-----------------------------------------------------------------------------
(* The autoconnect cycle.  `p` is the policy as the caller has changed it  *)
(* so far, `acts` what the caller has emitted so far.                      *)

\* The k-th position after `start`, round the list.
Around(p, start, k) == (start + k) % Len(p.profiles)

\* Mutant: blocked profiles are not skipped.
AnySteps(p, start, left) == 0 .. left - 1

\* How far from `start` the unblocked ones of the next `left` profiles are.
OpenSteps(p, start, left) ==
    {k \in 0 .. left - 1 : ~p.profiles[Around(p, start, k) + 1].blocked}

\* begin_from(): try the first unblocked of the `left` profiles from `start`.
BeginFrom(p, start, left, acts, rest) ==
    \/ \E k \in OpenSteps(p, start, left) :
         LET at == Around(p, start, k)
             s  == p.profiles[at + 1].ssid
         IN  /\ \A j \in OpenSteps(p, start, left) : k =< j
             /\ policy' = [p EXCEPT !.cursor = at, !.remaining = left - k, !.attempt = 0,
                                    !.origin = "Autoconnect", !.current = s,
                                    !.state = "Connecting", !.retryKind = "None"]
             /\ Emit(acts \o <<ActConnect(s, "Autoconnect"), ActEvent("Connecting", s)>>, rest)
    \/ /\ OpenSteps(p, start, left) = {}
       /\ policy' = [p EXCEPT !.state = "Ready", !.origin = "None", !.current = Empty]
       /\ Emit(acts \o <<ActEvent("AllProfilesBlocked", Empty)>>, rest)

\* on_profile_exhausted(): the profiles left are counted in a uint8_t.
OnProfileExhausted(p, acts, rest) ==
    LET left == (p.remaining - 1) % (UInt8Max + 1) IN
    \/ /\ left = 0
       /\ policy' = [p EXCEPT !.state = "Ready", !.origin = "None", !.retryKind = "NewCycle"]
       /\ Emit(acts \o <<ActEvent("CycleRestarted", Empty), ActRetryTimer>>, rest)
    \/ /\ left # 0
       /\ BeginFrom(p, (p.cursor + 1) % Len(p.profiles), left, acts, rest)

-----------------------------------------------------------------------------
(* handle_terminal_failure(): one operator per way a failed attempt ends.  *)

FailEvent(class) ==
    ActEvent(IF class = "Auth" THEN "AuthFailed" ELSE "ConnectFailed", policy.current)

UserDriven == policy.origin \in {"Manual", "Fallback"}

\* The user's attempt failed and the network it replaced is remembered.
StartFallback(class, rest) ==
    /\ UserDriven
    /\ policy.fallback # NoFallback
    /\ policy' = [policy EXCEPT !.teardown = FALSE, !.fallback = NoFallback,
                                !.origin = "Fallback", !.current = policy.fallback,
                                !.attempt = 0, !.state = "Connecting"]
    /\ Emit(<<FailEvent(class), ActEvent("FallbackStarted", policy.fallback),
              ActConnect(policy.fallback, "Fallback")>>, rest)

\* The user's attempt failed and there is nothing to go back to.
GiveUp(class, rest) ==
    /\ UserDriven
    /\ policy.fallback = NoFallback
    /\ policy' = [policy EXCEPT !.teardown = FALSE, !.state = "Ready", !.origin = "None",
                                !.current = Empty]
    /\ Emit(<<FailEvent(class)>>, rest)

\* The profile under the cursor with its count of authentication failures
\* updated; the counter saturates.
FailsAfter(class) ==
    LET fails == policy.profiles[policy.cursor + 1].fails IN
    IF class = "Auth" THEN (IF fails < UInt8Max THEN fails + 1 ELSE fails) ELSE 0

BlocksNow(class) == class = "Auth" /\ FailsAfter(class) >= AuthBlockThreshold

\* The profile has failed authentication often enough: block it, go on.
BlockProfile(class, rest) ==
    LET here == policy.cursor + 1 IN
    /\ ~UserDriven
    /\ BlocksNow(class)
    /\ OnProfileExhausted([policy EXCEPT !.teardown = FALSE,
                                         !.profiles[here].fails = FailsAfter(class),
                                         !.profiles[here].blocked = TRUE],
                          <<ActSetBlocked(policy.profiles[here].ssid, TRUE), FailEvent("Auth")>>,
                          rest)

\* The attempt is used up: retry after a backoff, or go on to the next.
CountAttempt(class, rest) ==
    LET here == policy.cursor + 1
        p == [policy EXCEPT !.teardown = FALSE, !.profiles[here].fails = FailsAfter(class),
                            !.attempt = (policy.attempt + 1) % (UInt8Max + 1)]
    IN  /\ ~UserDriven
        /\ ~BlocksNow(class)
        /\ \/ /\ p.attempt < MaxAttempts
              /\ policy' = [p EXCEPT !.retryKind = "SameProfile"]
              /\ Emit(<<FailEvent(class), ActRetryTimer>>, rest)
           \/ /\ p.attempt >= MaxAttempts
              /\ OnProfileExhausted(p, <<FailEvent(class)>>, rest)

\* With no profile at all: the failure is counted in an entry the last profile
\* left behind, and the attempt may be retried.  When no attempt is left, or
\* that entry blocks, the code divides by zero: undefined, the task never gets
\* past the entry "Fault".
NoProfiles(class, rest) ==
    LET attempt == (policy.attempt + 1) % (UInt8Max + 1) IN
    /\ ~UserDriven
    /\ policy.profiles = <<>>
    /\ \/ /\ attempt < MaxAttempts
          /\ policy' = [policy EXCEPT !.teardown = FALSE, !.attempt = attempt,
                                      !.retryKind = "SameProfile"]
          /\ Emit(<<FailEvent(class), ActRetryTimer>>, rest)
       \/ /\ attempt >= MaxAttempts \/ class = "Auth"
          /\ todo' = <<[act |-> "Fault"]>>
          /\ UNCHANGED policy

TerminalFailure(class, rest) ==
    \/ StartFallback(class, rest)
    \/ GiveUp(class, rest)
    \/ NoProfiles(class, rest)
    \/ policy.profiles # <<>> /\ BlockProfile(class, rest)
    \/ policy.profiles # <<>> /\ CountAttempt(class, rest)

-----------------------------------------------------------------------------
(* The inputs of wifi_policy_handle().                                     *)

\* An input the policy does not react to.
Ignored(rest) == /\ todo' = rest
                 /\ UNCHANGED policy

InStarted(rest) ==
    \/ /\ policy.profiles = <<>>
       /\ policy' = [policy EXCEPT !.state = "Ready"]
       /\ Emit(<<ActEvent("ReadyNoProfiles", Empty)>>, rest)
    \/ /\ policy.profiles # <<>>
       /\ BeginFrom(policy, 0, Len(policy.profiles), <<>>, rest)

\* Mutant: a teardown still pending is not called off.
SuccessKeepsTeardown(rest) ==
    \/ policy.current = Empty /\ Ignored(rest)
    \/ /\ policy.current # Empty
       /\ policy' = [policy EXCEPT !.state = "Connected", !.attempt = 0, !.fallback = NoFallback]
       /\ Emit(<<ActMarkLastSuccess(policy.current), ActEvent("Connected", policy.current)>>, rest)

\* The event carries no SSID: success is credited to current_ssid.
InConnectSuccess(rest) ==
    LET s == policy.current
        n == Len(policy.profiles)
        here == (policy.cursor % n) + 1
    IN  \/ /\ s = Empty
           /\ Ignored(rest)
        \/ /\ s # Empty
           /\ policy' = [policy EXCEPT
                !.state = "Connected", !.attempt = 0, !.teardown = FALSE, !.fallback = NoFallback,
                !.profiles = IF /\ policy.origin = "Autoconnect" /\ n > 0
                                /\ policy.profiles[here].ssid = s
                             THEN [policy.profiles EXCEPT ![here].fails = 0]
                             ELSE policy.profiles]
           /\ Emit(<<ActMarkLastSuccess(s), ActEvent("Connected", s)>>, rest)

InConnectFail(class, rest) ==
    \/ policy.state # "Connecting" /\ Ignored(rest)
    \/ policy.state = "Connecting" /\ TerminalFailure(class, rest)

InConnectTimeout(rest) == InConnectFail("Other", rest)

\* Mutant: how many profiles are left is not set.
CycleWithoutEnd(pos) ==
    [policy EXCEPT !.origin = "Autoconnect", !.attempt = 0, !.cursor = pos,
                   !.state = "Connecting"]

\* An autoconnect cycle that starts with the profile at pos, the current one.
CycleFrom(pos) ==
    [policy EXCEPT !.origin = "Autoconnect", !.attempt = 0, !.cursor = pos,
                   !.remaining = Len(policy.profiles), !.state = "Connecting"]

\* A lost link is tried again at once.
InLinkLost(rest) ==
    LET s == policy.current
        lost == <<ActEvent("Disconnected", s)>>
    IN  \/ /\ policy.state # "Connected"
           /\ Ignored(rest)
        \/ /\ policy.state = "Connected"
           /\ PositionsOf(s) = {}
           /\ policy' = [policy EXCEPT !.state = "Ready", !.origin = "None", !.current = Empty]
           /\ Emit(lost, rest)
        \/ /\ policy.state = "Connected"
           /\ \E pos \in PositionsOf(s) : policy' = CycleFrom(pos)
           /\ Emit(lost \o <<ActConnect(s, "Autoconnect"), ActEvent("Connecting", s)>>, rest)

\* Mutant: the retry is forgotten.
RetryForgotten(rest) ==
    /\ policy' = [policy EXCEPT !.retryKind = "None"]
    /\ todo' = rest

\* Mutant: the timer is believed even when no retry is pending.
LateRetry(rest) ==
    \/ policy.profiles = <<>> /\ Ignored(rest)
    \/ policy.profiles # <<>> /\ BeginFrom(policy, 0, Len(policy.profiles), <<>>, rest)

\* RETRY_TIMER_EXPIRED is read by what was pending; nothing may be.
InRetryTimerExpired(rest) ==
    LET p == [policy EXCEPT !.retryKind = "None"] IN
    \/ /\ policy.retryKind = "SameProfile"
       /\ policy' = [p EXCEPT !.state = "Connecting"]
       /\ Emit(<<ActConnect(p.current, p.origin), ActEvent("Connecting", p.current)>>, rest)
    \/ /\ policy.retryKind = "NewCycle"
       /\ policy.profiles # <<>>
       /\ BeginFrom(p, 0, Len(p.profiles), <<>>, rest)
    \/ /\ \/ policy.retryKind = "None"
          \/ policy.retryKind = "NewCycle" /\ policy.profiles = <<>>
       /\ policy' = p
       /\ todo' = rest

-----------------------------------------------------------------------------
(* The inputs that are commands of the user.                               *)

NeedsTeardown == policy.state \in {"Connected", "Connecting"}

\* A manual attempt at s: at once, or after the old association is gone.
ManualAttempt(p, s, acts, rest) ==
    /\ policy' = [p EXCEPT !.origin = "Manual", !.current = s, !.attempt = 0,
                           !.state = "Connecting", !.teardown = NeedsTeardown]
    /\ Emit(acts \o (IF NeedsTeardown THEN <<ActDisconnect>> ELSE <<ActConnect(s, "Manual")>>)
                 \o <<ActEvent("Connecting", s)>>, rest)

InConnectNew(s, rest) ==
    ManualAttempt([policy EXCEPT !.fallback = IF NeedsTeardown THEN policy.current ELSE NoFallback],
                  s, <<>>, rest)

\* The profile named s is given another chance.
Unblocked(s) ==
    [i \in DOMAIN policy.profiles |->
        IF policy.profiles[i].ssid = s
        THEN [policy.profiles[i] EXCEPT !.blocked = FALSE, !.fails = 0]
        ELSE policy.profiles[i]]

UnblockActs(s) ==
    IF \E k \in PositionsOf(s) : policy.profiles[k + 1].blocked
    THEN <<ActSetBlocked(s, FALSE)>> ELSE <<>>

InConnectSaved(s, rest) ==
    ManualAttempt([policy EXCEPT !.profiles = Unblocked(s), !.fallback = NoFallback],
                  s, UnblockActs(s), rest)

InUpdatePassword(s, rest) ==
    /\ policy' = [policy EXCEPT !.profiles = Unblocked(s)]
    /\ Emit(UnblockActs(s), rest)

\* What DISCONNECT and PAUSE_AUTOCONNECT leave behind: nothing pending.
Halted == [policy EXCEPT !.state = "Ready", !.origin = "None", !.current = Empty,
                         !.fallback = NoFallback, !.retryKind = "None", !.teardown = FALSE]

InDisconnect(rest) ==
    /\ policy' = Halted
    /\ Emit(IF NeedsTeardown THEN <<ActDisconnect, ActEvent("Disconnected", policy.current)>>
                             ELSE <<>>, rest)

InPause(rest) ==
    \/ policy.state = "Connected" /\ Ignored(rest)
    \/ /\ policy.state # "Connected"
       /\ policy' = Halted
       /\ Emit(IF NeedsTeardown THEN <<ActDisconnect>> ELSE <<>>, rest)

InResume(rest) ==
    \/ /\ policy.state # "Ready" \/ policy.profiles = <<>>
       /\ Ignored(rest)
    \/ /\ policy.state = "Ready" /\ policy.profiles # <<>>
       /\ BeginFrom(policy, 0, Len(policy.profiles), <<>>, rest)

InForget(s, rest) ==
    \/ /\ policy.current = s /\ NeedsTeardown
       /\ policy' = [policy EXCEPT !.state = "Ready", !.origin = "None", !.current = Empty,
                                   !.teardown = FALSE]
       /\ Emit(<<ActDisconnect>>, rest)
    \/ /\ ~(policy.current = s /\ NeedsTeardown)
       /\ Ignored(rest)

\* Mutant: the attempt that waits is forgotten.
TeardownForgotten(rest) == Ignored(rest)

\* The old association is gone: start the attempt that waited for it.
InTeardownDisconnected(rest) ==
    \/ ~policy.teardown /\ Ignored(rest)
    \/ /\ policy.teardown
       /\ policy' = [policy EXCEPT !.teardown = FALSE]
       /\ Emit(<<ActConnect(policy.current, policy.origin)>>, rest)

=============================================================================
