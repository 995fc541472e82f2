---------------------------- MODULE WifiManager -----------------------------
(***************************************************************************)
(* The adapter around the policy, wifi_manager.c: one task takes commands  *)
(* from a bounded queue, hands each to the policy and executes the actions *)
(* the policy emits; timer callbacks, driver event handlers and the public *)
(* API do nothing but append to that queue.                                *)
(*                                                                         *)
(* A handler is not atomic: the driver and the timers run while the task   *)
(* works through `todo`.  So taking a command is one step and executing    *)
(* each action on `todo` is one step; the task takes the next command only *)
(* when `todo` is empty.  What a handler does after feed_policy() returns  *)
(* is an entry of its own at the end of `todo`.                            *)
(***************************************************************************)
EXTENDS WifiPolicy, SequencesExt

CONSTANTS
    Right, Wrong,   \* passwords, see EspWifi
    LeavingMax,     \* bound, see EspWifi
    QueueLen,       \* WIFI_MGR_CMD_QUEUE_LEN
    UserQueueLen,   \* bound: the user adds no command to a longer queue
    MaxProfiles,    \* WIFI_PROFILE_MAX_PROFILES
    UserCommands,   \* the kinds of commands the user issues
    Typed,          \* the <<SSID, password>> pairs the user types
    ConnectMayFail, \* esp_wifi_connect() may fail with the station idle
    MayDrop,        \* callbacks may find the queue full; otherwise it is long enough
    Prompt,         \* the task answers before a timer fires or the user moves
    InitialDbs      \* the profile databases found in flash at boot

VARIABLES
    link, leaving,  \* the driver, see EspWifi
    cmdQueue,       \* cmd_queue
    connectTimer,   \* connect_timeout_timer is armed
    retryTimer,     \* retry_timer is armed
    db,             \* profile_db, in memory and in flash
    pending         \* pending_new_ssid, pending_new_password

Esp == INSTANCE EspWifi WITH Nets <- SsidOrEmpty, NoNet <- Empty

wifiVars == <<policy, todo, link, leaving, cmdQueue, connectTimer, retryTimer,
              db, pending>>

AllCommands == {"ConnectNew", "ConnectSaved", "Disconnect", "Forget", "UpdatePassword",
                "Pause", "Resume"}

Record == [ssid : Ssids, pw : Esp!Passwords, blocked : BOOLEAN]

\* wifi_profile_db_t: the records, and last_success_ssid.
Db == [recs : Seq(Record), last : SsidOrEmpty]

ASSUME ManagerAssumption ==
    /\ QueueLen \in Nat \ {0}
    /\ UserQueueLen \in Nat
    /\ MaxProfiles \in 1 .. UInt8Max
    /\ UserCommands \subseteq AllCommands
    /\ Typed \subseteq Ssids \X {Right, Wrong}
    /\ ConnectMayFail \in BOOLEAN
    /\ MayDrop \in BOOLEAN
    /\ Prompt \in BOOLEAN
    /\ Right # Wrong
    /\ LeavingMax \in Nat \ {0}

\* No SSID occurs twice and the database fits its array.
WellFormed(d) ==
    /\ Len(d.recs) =< MaxProfiles
    /\ \A i, j \in 1 .. Len(d.recs) : d.recs[i].ssid = d.recs[j].ssid => i = j

ASSUME DbAssumption ==
    /\ InitialDbs \subseteq Db
    /\ \A d \in InitialDbs : WellFormed(d)

Command == [kind : {"Started", "ConnectTimeout", "RetryExpired"}]
           \cup [kind : {"GotIp"}, from : SsidOrEmpty]
           \cup [kind : {"Disconnected"}, class : FailClasses, own : BOOLEAN]
           \cup [kind : {"Disconnect", "Pause", "Resume"}]
           \cup [kind : {"ConnectNew", "UpdatePassword"}, ssid : Ssids, pw : Esp!Passwords]
           \cup [kind : {"ConnectSaved", "Forget"}, ssid : Ssids]

\* An entry of todo.
Action == [act : {"Connect"}, ssid : SsidOrEmpty, origin : Origins]
          \cup [act : {"Disconnect", "StartRetryTimer", "ArmIfTeardown", "Start", "Fault"}]
          \cup [act : {"EmitEvent"}, event : Events, ssid : SsidOrEmpty]
          \cup [act : {"MarkLastSuccess", "Remove"}, ssid : Ssids]
          \cup [act : {"SetBlocked"}, ssid : Ssids, flag : BOOLEAN]

TypeOK ==
    /\ policy \in Policy
    /\ todo \in Seq(Action)
    /\ Esp!DriverType
    /\ cmdQueue \in Seq(Command)
    /\ Len(cmdQueue) =< QueueLen
    /\ connectTimer \in BOOLEAN
    /\ retryTimer \in BOOLEAN
    /\ db \in Db
    /\ WellFormed(db)
    /\ pending \in [ssid : SsidOrEmpty, pw : Esp!Passwords]

-----------------------------------------------------------------------------
(* The queue.                                                              *)

\* enqueue_internal_cmd(): an internal command that finds the queue full is
\* logged and lost.
Enqueue(cmd) ==
    \/ /\ Len(cmdQueue) < QueueLen
       /\ cmdQueue' = Append(cmdQueue, cmd)
    \/ /\ Len(cmdQueue) >= QueueLen
       /\ MayDrop
       /\ UNCHANGED cmdQueue

\* The task takes a command of this kind.
Receive(kind) ==
    /\ todo = <<>>
    /\ cmdQueue # <<>>
    /\ Head(cmdQueue).kind = kind
    /\ cmdQueue' = Tail(cmdQueue)

\* Nothing is being handled and no request is unanswered.
Settled == todo = <<>> /\ cmdQueue = <<>> /\ leaving = 0

\* The task turns to the first entry of todo.
Executing(act) == todo # <<>> /\ Head(todo).act = act

-----------------------------------------------------------------------------
(* The profile database.                                                   *)

\* Mutant: the last record is overlooked.
KnownButLast(d, s) == \E i \in DOMAIN d.recs : i < Len(d.recs) /\ d.recs[i].ssid = s

Known(d, s) == \E i \in DOMAIN d.recs : d.recs[i].ssid = s

RecordOf(s) == db.recs[PositionOf(db.recs, s)]

\* find_password_for_ssid(), or the password typed for a manual attempt.  A
\* network without a stored password is tried as an open one.
PasswordFor(s, o) ==
    IF o = "Manual" /\ pending.ssid = s /\ s # Empty
    THEN pending.pw
    ELSE IF Known(db, s) THEN RecordOf(s).pw ELSE Wrong

\* The records with r in the place of the one named s, if there is one.
Replaced(s, r) == [i \in DOMAIN db.recs |-> IF db.recs[i].ssid = s THEN r ELSE db.recs[i]]

\* Mutant: the policy keeps the profiles it has.
SaveOnly(d) == db' = d /\ UNCHANGED policy

\* sync_policy_profiles_from_db() after the database became d.
SaveAndSync(d) ==
    /\ db' = d
    /\ SetProfiles(d.recs, d.last)

-----------------------------------------------------------------------------
WifiInit ==
    /\ PolicyInit
    /\ Esp!DriverInit
    /\ cmdQueue = <<[kind |-> "Started"]>>
    /\ connectTimer = FALSE
    /\ retryTimer = FALSE
    /\ db \in InitialDbs
    /\ pending = [ssid |-> Empty, pw |-> Wrong]

-----------------------------------------------------------------------------
(* handle_cmd(): one action per command.                                   *)

unchangedByPolicy == <<link, leaving, connectTimer, retryTimer, db, pending>>

\* handle_started(): the profiles are loaded before the policy starts.
HandleStarted ==
    /\ Receive("Started")
    /\ SetProfiles(db.recs, db.last)
    /\ todo' = <<[act |-> "Start"]>>
    /\ UNCHANGED unchangedByPolicy

Start ==
    /\ Executing("Start")
    /\ InStarted(Tail(todo))
    /\ UNCHANGED <<cmdQueue, unchangedByPolicy>>

\* CMD_WIFI_DISCONNECTED: what the event means depends on the policy's state.
HandleDisconnected ==
    /\ Receive("Disconnected")
    /\ \/ /\ policy.teardown
          /\ connectTimer' = FALSE
          /\ InTeardownDisconnected(<<>>)
       \/ /\ ~policy.teardown
          /\ policy.state = "Connecting"
          /\ connectTimer' = FALSE
          /\ InConnectFail(Head(cmdQueue).class, <<>>)
       \/ /\ ~policy.teardown
          /\ policy.state = "Connected"
          /\ InLinkLost(<<>>)
          /\ UNCHANGED connectTimer
       \/ /\ ~policy.teardown
          /\ policy.state \in {"Idle", "Ready"}
          /\ UNCHANGED <<policy, todo, connectTimer>>
    /\ UNCHANGED <<link, leaving, retryTimer, db, pending>>

HandleGotIp ==
    /\ Receive("GotIp")
    /\ connectTimer' = FALSE
    /\ InConnectSuccess(<<>>)
    /\ UNCHANGED <<link, leaving, retryTimer, db, pending>>

\* The driver is told to disconnect whatever the policy makes of the timeout.
HandleConnectTimeout ==
    /\ Receive("ConnectTimeout")
    /\ Esp!EspDisconnect
    /\ InConnectTimeout(<<>>)
    /\ UNCHANGED <<connectTimer, retryTimer, db, pending>>

HandleRetryExpired ==
    /\ Receive("RetryExpired")
    /\ InRetryTimerExpired(<<>>)
    /\ UNCHANGED unchangedByPolicy

\* Mutant: no safety net.
NoSafetyNet == <<>>

\* After the policy: arm the connect timer if a teardown is pending.
ArmIfTeardown == <<[act |-> "ArmIfTeardown"]>>

HandleConnectNew ==
    /\ Receive("ConnectNew")
    /\ pending' = [ssid |-> Head(cmdQueue).ssid, pw |-> Head(cmdQueue).pw]
    /\ InConnectNew(Head(cmdQueue).ssid, ArmIfTeardown)
    /\ UNCHANGED <<link, leaving, connectTimer, retryTimer, db>>

HandleConnectSaved ==
    /\ Receive("ConnectSaved")
    /\ InConnectSaved(Head(cmdQueue).ssid, ArmIfTeardown)
    /\ UNCHANGED unchangedByPolicy

HandleDisconnect ==
    /\ Receive("Disconnect")
    /\ InDisconnect(<<>>)
    /\ UNCHANGED unchangedByPolicy

HandlePause ==
    /\ Receive("Pause")
    /\ InPause(<<>>)
    /\ UNCHANGED unchangedByPolicy

HandleResume ==
    /\ Receive("Resume")
    /\ InResume(<<>>)
    /\ UNCHANGED unchangedByPolicy

\* The profile is removed after the policy's actions have been executed.
HandleForget ==
    LET s == Head(cmdQueue).ssid IN
    /\ Receive("Forget")
    /\ InForget(s, <<[act |-> "Remove", ssid |-> s]>>)
    /\ UNCHANGED unchangedByPolicy

HandleUpdatePassword ==
    LET s == Head(cmdQueue).ssid IN
    /\ Receive("UpdatePassword")
    /\ db' = [db EXCEPT !.recs = Replaced(s, [RecordOf(s) EXCEPT !.pw = Head(cmdQueue).pw])]
    /\ InUpdatePassword(s, <<>>)
    /\ UNCHANGED <<link, leaving, connectTimer, retryTimer, pending>>

-----------------------------------------------------------------------------
(* execute_action(): one action per entry of todo.                         *)

\* execute_connect(): a request refused at once is fed to the policy as a
\* failure, and what that emits is executed before the rest.
ExecuteConnect ==
    LET s == Head(todo).ssid IN
    /\ Executing("Connect")
    /\ \/ /\ Esp!EspConnect(s, PasswordFor(s, Head(todo).origin))
          /\ connectTimer' = TRUE
          /\ todo' = Tail(todo)
          /\ UNCHANGED policy
       \/ /\ Esp!EspConnectRefused(s, ConnectMayFail)
          /\ InConnectFail("Other", Tail(todo))
          /\ UNCHANGED connectTimer
    /\ UNCHANGED <<cmdQueue, retryTimer, db, pending>>

ExecuteDisconnect ==
    /\ Executing("Disconnect")
    /\ connectTimer' = FALSE
    /\ retryTimer' = FALSE
    /\ Esp!EspDisconnect
    /\ todo' = Tail(todo)
    /\ UNCHANGED <<policy, cmdQueue, db, pending>>

ExecuteRetryTimer ==
    /\ Executing("StartRetryTimer")
    /\ connectTimer' = FALSE
    /\ retryTimer' = TRUE
    /\ todo' = Tail(todo)
    /\ UNCHANGED <<policy, link, leaving, cmdQueue, db, pending>>

\* publish_event(): whoever reads the events is outside this module.
ExecuteEvent ==
    /\ Executing("EmitEvent")
    /\ todo' = Tail(todo)
    /\ UNCHANGED <<policy, link, leaving, cmdQueue, connectTimer, retryTimer, db, pending>>

\* mark_last_success_and_save(): a new network is added while there is room;
\* a password typed for this SSID replaces the stored one.
ExecuteMarkLastSuccess ==
    LET s == Head(todo).ssid
        old == IF Known(db, s) THEN RecordOf(s).pw ELSE Wrong
        new == [ssid |-> s, pw |-> IF pending.ssid = s THEN pending.pw ELSE old,
                blocked |-> FALSE]
    IN  /\ Executing("MarkLastSuccess")
        /\ SaveAndSync([recs |-> IF Known(db, s) THEN Replaced(s, new)
                                 ELSE IF Len(db.recs) < MaxProfiles
                                      THEN Append(db.recs, new)
                                      ELSE db.recs,
                        last |-> s])
        /\ pending' = [ssid |-> Empty, pw |-> Wrong]
        /\ todo' = Tail(todo)
        /\ UNCHANGED <<link, leaving, cmdQueue, connectTimer, retryTimer>>

\* set_profile_blocked_and_save(): the policy is not synchronised again.
ExecuteSetBlocked ==
    LET s == Head(todo).ssid IN
    /\ Executing("SetBlocked")
    /\ db' = [db EXCEPT !.recs = Replaced(s, [RecordOf(s) EXCEPT !.blocked = Head(todo).flag])]
    /\ todo' = Tail(todo)
    /\ UNCHANGED <<policy, link, leaving, cmdQueue, connectTimer, retryTimer, pending>>

\* The end of the handlers of CONNECT_NEW and CONNECT_SAVED.
ExecuteArmIfTeardown ==
    /\ Executing("ArmIfTeardown")
    /\ connectTimer' = (connectTimer \/ policy.teardown)
    /\ todo' = Tail(todo)
    /\ UNCHANGED <<policy, link, leaving, cmdQueue, retryTimer, db, pending>>

\* The end of the handler of FORGET, remove_profile_and_save().
ExecuteRemove ==
    LET s == Head(todo).ssid IN
    /\ Executing("Remove")
    /\ \/ /\ Known(db, s)
          /\ SaveAndSync([recs |-> RemoveAt(db.recs, PositionOf(db.recs, s)),
                          last |-> IF db.last = s THEN Empty ELSE db.last])
       \/ /\ ~Known(db, s)
          /\ UNCHANGED <<db, policy>>
    /\ todo' = Tail(todo)
    /\ UNCHANGED <<link, leaving, cmdQueue, connectTimer, retryTimer, pending>>

-----------------------------------------------------------------------------
(* Callbacks: each only appends to the queue.                              *)

unchangedByCallback == <<policy, todo, db, pending>>

\* The timers count seconds, and the task takes milliseconds when all is well
\* (Prompt).  The connect timer runs out during a join that takes its 20 s.
TimersMayFire == Prompt => Settled

ConnectTimerFires ==
    /\ connectTimer
    /\ TimersMayFire
    /\ connectTimer' = FALSE
    /\ Enqueue([kind |-> "ConnectTimeout"])
    /\ UNCHANGED <<link, leaving, retryTimer, unchangedByCallback>>

RetryTimerFires ==
    /\ retryTimer
    /\ TimersMayFire
    /\ retryTimer' = FALSE
    /\ Enqueue([kind |-> "RetryExpired"])
    /\ UNCHANGED <<link, leaving, connectTimer, unchangedByCallback>>

\* `own`: the program asked for this disconnection.
OnDisconnected(class, own) ==
    /\ Enqueue([kind |-> "Disconnected", class |-> class, own |-> own])
    /\ UNCHANGED <<connectTimer, retryTimer, unchangedByCallback>>

DriverLeft == Esp!EspLeft /\ OnDisconnected("Other", TRUE)

DriverJoinFails ==
    \E class \in FailClasses : Esp!EspJoinFails(class) /\ OnDisconnected(class, FALSE)

DriverLinkDrops == Esp!EspLinkDrops /\ OnDisconnected("Other", FALSE)

DriverGotIp ==
    /\ Esp!EspJoinSucceeds
    /\ Enqueue([kind |-> "GotIp", from |-> link.ssid])
    /\ UNCHANGED <<connectTimer, retryTimer, unchangedByCallback>>

-----------------------------------------------------------------------------
(* The public API.  A command that finds the queue full is refused         *)
(* (ESP_ERR_NO_MEM) and leaves no trace.  A profile the user connects to,  *)
(* edits or forgets is one of those the screen shows.                      *)

Issue(cmd) ==
    /\ cmd.kind \in UserCommands
    /\ Prompt => Settled
    /\ Len(cmdQueue) < QueueLen
    /\ Len(cmdQueue) < UserQueueLen
    /\ cmdQueue' = Append(cmdQueue, cmd)
    /\ UNCHANGED <<policy, todo, link, leaving, connectTimer, retryTimer, db, pending>>

Saved == {s \in Ssids : Known(db, s)}

UserConnectNew == \E t \in Typed : Issue([kind |-> "ConnectNew", ssid |-> t[1], pw |-> t[2]])
UserConnectSaved == \E s \in Saved : Issue([kind |-> "ConnectSaved", ssid |-> s])
UserForget == \E s \in Saved : Issue([kind |-> "Forget", ssid |-> s])
UserUpdatePassword == \E t \in Typed : /\ t[1] \in Saved
                                        /\ Issue([kind |-> "UpdatePassword", ssid |-> t[1],
                                                  pw |-> t[2]])
UserDisconnect == Issue([kind |-> "Disconnect"])
UserPause == Issue([kind |-> "Pause"])
UserResume == Issue([kind |-> "Resume"])

\* The device restarts: everything is lost but the profile database.
Reboot ==
    /\ policy' = InitialPolicy
    /\ todo' = <<>>
    /\ link' = Esp!Down
    /\ leaving' = 0
    /\ cmdQueue' = <<[kind |-> "Started"]>>
    /\ connectTimer' = FALSE
    /\ retryTimer' = FALSE
    /\ pending' = [ssid |-> Empty, pw |-> Wrong]
    /\ UNCHANGED db

Handle ==
    \/ HandleStarted \/ HandleDisconnected \/ HandleGotIp \/ HandleConnectTimeout
    \/ HandleRetryExpired \/ HandleConnectNew \/ HandleConnectSaved \/ HandleDisconnect
    \/ HandlePause \/ HandleResume \/ HandleForget \/ HandleUpdatePassword

Execute ==
    \/ Start \/ ExecuteConnect \/ ExecuteDisconnect \/ ExecuteRetryTimer \/ ExecuteEvent
    \/ ExecuteMarkLastSuccess \/ ExecuteSetBlocked \/ ExecuteArmIfTeardown \/ ExecuteRemove

Callback ==
    \/ ConnectTimerFires \/ RetryTimerFires \/ DriverLeft \/ DriverJoinFails \/ DriverLinkDrops
    \/ DriverGotIp

User ==
    \/ UserConnectNew \/ UserConnectSaved \/ UserForget \/ UserUpdatePassword \/ UserDisconnect
    \/ UserPause \/ UserResume

WifiNext == Handle \/ Execute \/ Callback \/ User \/ Reboot

WifiSpec == WifiInit /\ [][WifiNext]_wifiVars

-----------------------------------------------------------------------------
(* Fairness.  The task drains its queue, an armed timer runs out, the      *)
(* driver reports how an attempt ended and what it gave up, and a network  *)
(* that is tried again and again with the right password is joined some    *)
(* day.                                                                    *)

WifiFairness ==
    /\ WF_wifiVars(Handle)
    /\ WF_wifiVars(Execute)
    /\ WF_wifiVars(ConnectTimerFires)
    /\ WF_wifiVars(RetryTimerFires)
    /\ WF_wifiVars(DriverLeft)
    /\ WF_wifiVars(DriverJoinFails \/ DriverGotIp)
    /\ SF_wifiVars(DriverGotIp)

WifiFairSpec == WifiSpec /\ WifiFairness

-----------------------------------------------------------------------------
(* Properties.                                                             *)

\* The profile as the policy and the database both know it.
View(recs) == [i \in 1 .. Len(recs) |-> [ssid |-> recs[i].ssid, blocked |-> recs[i].blocked]]

EditPending == \E i \in 1 .. Len(todo) : todo[i].act = "SetBlocked"

\* The policy keeps its own copy of the profiles.  set_profile_blocked_and_save()
\* deliberately does not synchronise it, every other edit does: whenever no
\* edit is pending the two copies agree, flags and order included.
PolicyMirrorsDb ==
    policy.state # "Idle" /\ ~EditPending =>
        View(policy.profiles) = View(AutoconnectOrder(db.recs, db.last))

\* Autoconnect never tries a blocked profile, however the attempt came about
\* (a cycle, a lost link, a retry after a backoff).
BlockedIsNotTried ==
    policy.state = "Connecting" /\ policy.origin = "Autoconnect" =>
        \A i \in 1 .. Len(policy.profiles) :
            policy.profiles[i].ssid = policy.current => ~policy.profiles[i].blocked

\* The failures of an autoconnect attempt are counted for the profile under
\* the cursor: that is the profile being tried.
CursorIsOnCurrent ==
    policy.state = "Connecting" /\ policy.origin = "Autoconnect" =>
        /\ policy.cursor < Len(policy.profiles)
        /\ policy.profiles[policy.cursor + 1].ssid = policy.current
        /\ policy.remaining \in 1 .. Len(policy.profiles)

\* The association exists, or its end has been reported behind position i of
\* the queue, or is about to be.
EndIsTold(i) ==
    \/ link.phase = "Up"
    \/ leaving > 0
    \/ \E j \in i + 1 .. Len(cmdQueue) : cmdQueue[j].kind = "Disconnected"

\* Every success, the one the policy is in and those still in the queue, is of
\* an association that exists or whose end the manager will read.
SuccessIsTrue ==
    /\ policy.state = "Connected" => EndIsTold(0)
    /\ \A i \in 1 .. Len(cmdQueue) : cmdQueue[i].kind = "GotIp" => EndIsTold(i)

\* The manager never stays CONNECTED to nothing: when all is quiet a policy
\* that is CONNECTED has an association, whatever timeouts cut attempts short
\* and whosever report was taken for whose.
ConnectedIsUp == Settled /\ policy.state = "Connected" => link.phase = "Up"

\* What enqueue_internal_cmd() says of a full queue (wifi_manager.c:985): a
\* report that does not fit is lost.  Nothing but such a loss can leave the
\* manager with a success that nobody will take back.
OnlyLossMisleads ==
    [][SuccessIsTrue /\ ~SuccessIsTrue' =>
           (DriverLeft \/ DriverLinkDrops) /\ Len(cmdQueue) = QueueLen]_wifiVars

\* Commands that end a wait of the policy.
Waking == {"Started", "Disconnected", "GotIp", "ConnectTimeout", "RetryExpired"}

\* "still time out instead of getting stuck CONNECTING" (wifi_manager.c:890):
\* a policy that is CONNECTING always has something coming that moves it on, a
\* timer, a report of the driver or a command in the queue.
NeverStuck ==
    todo = <<>> /\ policy.state = "Connecting" =>
        \/ connectTimer
        \/ retryTimer /\ policy.retryKind # "None"
        \/ leaving > 0
        \/ \E i \in 1 .. Len(cmdQueue) : cmdQueue[i].kind \in Waking

\* What is at rest after DISCONNECT, PAUSE, a failed manual attempt or a boot
\* without profiles.
AtRest == policy.state = "Ready" /\ policy.retryKind = "None" /\ policy.current = Empty

\* "pauses autoconnect until the next connect command": a policy at rest
\* stays there, whatever late timer, driver event or queued report arrives,
\* until the user asks for a connection.
RestsUntilAsked ==
    [][AtRest /\ ~AtRest' =>
           HandleConnectNew \/ HandleConnectSaved \/ HandleResume \/ Reboot]_wifiVars

\* GOT_IP carries no SSID.  The association it reports is the one the policy
\* records as a success and saves.  Not met when it is queued behind
\* CONNECT_NEW (README, known weaknesses).
SuccessIsCredited ==
    [][HandleGotIp /\ policy.current # Empty => Head(cmdQueue).from = policy.current]_wifiVars

\* "misread as this attempt failing" (wifi_manager.c:516): the report of a
\* disconnection the program itself asked for is never counted as the failure
\* of an attempt.  Not met when a join outlasts its 20 s (README, known
\* weaknesses).
OwnDisconnectIsNoFailure ==
    [][HandleDisconnected /\ Head(cmdQueue).own =>
           policy.teardown \/ policy.state # "Connecting"]_wifiVars

\* "the cycle must keep restarting" (test_wifi_policy_cycle.c:47): the policy
\* reports ALL_PROFILES_BLOCKED, and with that gives up until it is asked, only
\* when all profiles are blocked.  Not met with three profiles (README, known
\* weaknesses).
AllBlockedIsTrue ==
    \A i \in 1 .. Len(todo) :
        todo[i].act = "EmitEvent" /\ todo[i].event = "AllProfilesBlocked" =>
            \A k \in 1 .. Len(policy.profiles) : policy.profiles[k].blocked

\* The access point has not answered when a timer runs out.
JoinTakesTooLong == (ConnectTimerFires \/ RetryTimerFires) /\ link.phase = "Joining"

\* Only a network that refuses the stored password is blocked.  Not met when the
\* user connects to another one during a backoff (README, known weaknesses).
OnlyWrongIsBlocked ==
    [][ExecuteSetBlocked /\ Head(todo).flag => RecordOf(Head(todo).ssid).pw = Wrong]_wifiVars

\* A device left alone by the user and not restarted does not try for ever in
\* vain: with a network in reach that is not blocked, whose password works and
\* which answers in time from some moment on, it is online again and again, or
\* it has given up (READY, with no network in mind).
OnlineOrReady ==
    \/ []<><<User \/ Reboot>>_wifiVars
    \/ []<><<JoinTakesTooLong>>_wifiVars
    \/ <>[](\A i \in 1 .. Len(db.recs) : db.recs[i].pw = Wrong \/ db.recs[i].blocked)
    \/ []<>(link.phase = "Up")
    \/ <>[](policy.state = "Ready" /\ policy.current = Empty)

TryingManually == policy.state = "Connecting" /\ policy.origin = "Manual"

\* Every manual attempt ends, in a connection, in the fallback or in READY.
ManualAttemptEnds ==
    \/ []<><<User \/ Reboot>>_wifiVars
    \/ [](TryingManually => <>~TryingManually)

=============================================================================
