-------------------------------- MODULE Boot --------------------------------
(***************************************************************************)
(* From power-on to a running terminal, and the two firmware updates: the  *)
(* order of app_main(), the bootloader's A/B slots with roll-back, the     *)
(* update of the Wi-Fi co-processor that ends in a restart of the host,    *)
(* SNTP, which the rest waits for, the release check of the background     *)
(* task and of the Updates screen, and the installation of a release.      *)
(* Power may fail at any moment.                                           *)
(***************************************************************************)
EXTENDS Integers, Sequences, FiniteSets

CONSTANTS
    Images, Broken,     \* firmware releases; those that crash before the display is up
    First,              \* the image delivered with the device
    SlaveImages,        \* what the slave_fw partition may hold: "nothing", "garbage" or
                        \* an "image", the text of its descriptor and the version it reports
    SlaveVersions,      \* what the co-processor may run at first
    MaxFaults, MaxNews  \* bounds: failed calls and power cuts; releases published

ASSUME BootAssumption ==
    /\ Broken \subseteq Images /\ First \in Images \ Broken
    /\ "none" \notin Images /\ "writing" \notin Images

VARIABLES
    slots, boot, running,   \* ota_0 and ota_1, the one otadata names, the one executing
    step,                   \* where app_main() is
    embedded, slave, staged,    \* slave_fw; the co-processor's firmware; its other
                            \* slot holds the embedded image
    sntp, synced, clockSet, \* sync task of time_sync.c, its flag, the system clock
    answer, info,           \* the background check's answer; s_ota_info
    release,                \* the latest release on GitHub
    install,                \* ota_client_update_to() on the LVGL task
    faults, news,
    excused             \* history: power was cut or a confirmation failed

chips == <<slots, boot, running, embedded, slave, staged>>
clock == <<sntp, synced, clockSet>>
updates == <<answer, info, release, install>>
bounds == <<faults, news, excused>>
vars == <<chips, step, clock, updates, bounds>>

Other(s) == 1 - s
None == "none"

Fault == faults < MaxFaults /\ faults' = faults + 1 /\ UNCHANGED excused
NoFault == UNCHANGED <<faults, excused>>
Blow == faults < MaxFaults /\ faults' = faults + 1 /\ excused' = TRUE

(* ------------------------------ app_main() ------------------------------ *)

\* The image is confirmed before the display has started (mutant).
ConfirmFirst == <<"confirm", "core", "wifi", "slave", "clock", "state", "up">>

\* The image is confirmed when the network has been started (mutant).
ConfirmLate == <<"core", "wifi", "slave", "clock", "confirm", "state", "up">>

\* The order of app_main().  "core" is everything up to display_ui_start().
Order == <<"core", "confirm", "wifi", "slave", "clock", "state", "up">>

After(s) == Order[1 + CHOOSE i \in 1 .. Len(Order) - 1 : Order[i] = s]

\* RAM is gone; the bootloader has not run.
Reset ==
    /\ step' = "off"
    /\ sntp' = "off" /\ synced' = FALSE /\ clockSet' = FALSE
    /\ answer' = None /\ info' = [available |-> FALSE, latest |-> None] /\ install' = None

PowerCut ==
    /\ Blow /\ Reset
    /\ UNCHANGED <<chips, release, news>>

\* The bootloader with roll-back enabled: a new image is tried once, and one
\* that was being tried is given up for the other slot.
Bootloader ==
    /\ step = "off" /\ step' = Order[1]
    /\ LET gone == slots[boot].mark = "pending"
           s == IF gone THEN Other(boot) ELSE boot
       IN /\ running' = s /\ boot' = s
          /\ slots' = IF gone THEN [slots EXCEPT ![boot].mark = "aborted"]
                      ELSE IF slots[s].mark = "new" THEN [slots EXCEPT ![s].mark = "pending"]
                      ELSE slots
    /\ UNCHANGED <<embedded, slave, staged, clock, updates, bounds>>

\* startup_diagnostics(), app_lifecycle_start(), display_ui_start(): a broken
\* image panics here, which resets the chip; a call that fails ends app_main(),
\* and the device stays as it is until its power is cut.
Core ==
    /\ step = "core"
    /\ \/ /\ slots[running].image \in Broken
          /\ Reset /\ NoFault /\ UNCHANGED release
       \/ /\ slots[running].image \notin Broken
          /\ step' = After(step) /\ NoFault /\ UNCHANGED <<clock, updates>>
       \/ Fault /\ step' = "stopped" /\ UNCHANGED <<clock, updates>>
    /\ UNCHANGED <<chips, news>>

\* esp_ota_mark_app_valid_cancel_rollback(); its failure is logged only.
Confirm ==
    /\ step = "confirm" /\ step' = After(step)
    /\ \/ /\ slots' = [slots EXCEPT ![running].mark = "valid"] /\ NoFault
       \/ Blow /\ UNCHANGED slots
    /\ UNCHANGED <<boot, running, embedded, slave, staged, clock, updates, news>>

\* wifi_manager_init() and wifi_manager_start() up to the co-processor's check;
\* without Wi-Fi the start goes on.
StartWifi ==
    /\ step = "wifi"
    /\ \/ step' = After(step) /\ NoFault
       \/ Fault /\ step' = After("slave")
    /\ UNCHANGED <<chips, clock, updates, news>>

\* time_sync_start() arms the handler of GOT_IP, or gives up at a call that fails.
StartClock ==
    /\ step = "clock" /\ step' = After(step)
    /\ \/ sntp' = "idle" /\ NoFault
       \/ Fault /\ UNCHANGED sntp
    /\ UNCHANGED <<chips, synced, clockSet, updates, news>>

\* app_state_init() creates the lock and the background tasks follow; its failure
\* ends app_main(), with the display, Wi-Fi and SNTP at work.
StartState ==
    /\ step = "state"
    /\ \/ step' = After(step) /\ NoFault
       \/ Fault /\ step' = "stopped"
    /\ UNCHANGED <<chips, clock, updates, news>>

(* -------------------- the co-processor's firmware -------------------- *)

\* The patch number is left out of the text (mutant).
ShortVersionText(v) == <<v.major, v.minor>>

\* The running version, written as the image header writes it.
VersionText(v) == <<v.major, v.minor, v.patch>>

\* coprocessor_version_matches(): the running version against the text embedded.
VersionMatches == VersionText(slave) = embedded.text

\* wifi_manager_slave_ota_check_and_update(), up to the decision.  When a segment
\* of the image cannot be read there is no update; when its descriptor or, five
\* times, the running version cannot be read, one is assumed to be needed.
CheckSlave ==
    /\ step = "slave"
    /\ \/ /\ NoFault
          /\ step' = IF embedded.holds # "image" \/ VersionMatches THEN After(step) ELSE "push"
       \/ embedded.holds = "image" /\ Fault /\ step' \in {After(step), "push"}
    /\ UNCHANGED <<chips, clock, updates, news>>

\* push_image_to_slave(): begin, write, end.  After a failure the start goes on
\* with the firmware the co-processor runs.
PushSlave ==
    /\ step = "push"
    /\ \/ step' = "activate" /\ staged' = TRUE /\ NoFault
       \/ Fault /\ step' = After("slave") /\ staged' = FALSE
    /\ UNCHANGED <<slots, boot, running, embedded, slave, clock, updates, news>>

\* esp_hosted_slave_ota_activate(), then esp_restart() of the host.
ActivateSlave ==
    /\ step = "activate"
    /\ \/ /\ staged /\ slave' = embedded.version /\ staged' = FALSE
          /\ Reset /\ NoFault /\ UNCHANGED release
       \/ Fault /\ step' = After("slave") /\ UNCHANGED <<slave, staged, clock, updates>>
    /\ UNCHANGED <<slots, boot, running, embedded, news>>

(* -------------------------------- SNTP -------------------------------- *)

Armed == sntp # "off"

CanAsk == sntp = "idle"

\* ip_event_handler(): a task is running already, or one is created, or not.
GotIp ==
    /\ Armed
    /\ \/ CanAsk /\ sntp' = "asking" /\ NoFault
       \/ CanAsk /\ Fault /\ UNCHANGED sntp
       \/ ~CanAsk /\ NoFault /\ UNCHANGED sntp
    /\ UNCHANGED <<chips, step, synced, clockSet, updates, news>>

\* A task that gives up leaves sync_task_running set (mutant).
AfterTimeout == "marked"

\* Once the task has ended, another may be started.
TaskEnds == "idle"

\* sntp_sync_task(): the server answers within SNTP_SYNC_TIMEOUT_MS, or not.
SntpInTime ==
    /\ sntp = "asking" /\ sntp' = TaskEnds
    /\ synced' = TRUE /\ clockSet' = TRUE
    /\ UNCHANGED <<chips, step, updates, bounds>>

SntpTimesOut ==
    /\ sntp = "asking" /\ sntp' = TaskEnds
    /\ UNCHANGED <<chips, step, synced, clockSet, updates, bounds>>

\* lwIP goes on asking: an answer after the task has given up sets the clock.
SntpLate ==
    /\ Armed /\ sntp = "idle" /\ ~clockSet /\ clockSet' = TRUE
    /\ UNCHANGED <<chips, step, sntp, synced, updates, bounds>>

(* ------------------------------- releases ------------------------------- *)

Publish(r) ==
    /\ news < MaxNews /\ news' = news + 1 /\ release' = r /\ r # release
    /\ UNCHANGED <<chips, step, clock, answer, info, install, faults, excused>>

\* The comparison of ota_client_check_latest_release(): any other tag is an
\* update.
InfoOf(tag) == [available |-> tag # slots[running].image, latest |-> tag]

\* run_check() of the background task: it asks, and records the answer later
\* with app_state_set_ota_info().
BackgroundAsks ==
    /\ step = "up" /\ synced /\ answer = None /\ answer' = release
    /\ UNCHANGED <<chips, step, clock, info, release, install, bounds>>

BackgroundRecords ==
    /\ answer # None /\ answer' = None
    /\ info' = InfoOf(answer)
    /\ UNCHANGED <<chips, step, clock, release, install, bounds>>

\* updates_action_cb(): with no update known it checks, otherwise it installs
\* the latest version it knows of.
TapUpdates ==
    /\ step = "up" /\ install = None /\ synced
    /\ IF info.available
       THEN /\ install' = info.latest
            /\ UNCHANGED <<info>>
       ELSE info' = InfoOf(release) /\ UNCHANGED install
    /\ UNCHANGED <<chips, step, clock, answer, release, bounds>>

\* ota_client_update_to(): esp_https_ota_begin() opens the other slot, which it
\* refuses while the running image is not confirmed.
BeginInstall ==
    /\ install \in Images
    /\ IF slots[running].mark = "valid"
       THEN /\ slots' = [slots EXCEPT ![Other(running)] = [image |-> install, mark |-> "partial"]]
            /\ install' = "writing"
       ELSE install' = None /\ UNCHANGED slots
    /\ UNCHANGED <<boot, running, embedded, slave, staged, step, clock, answer, info, release,
                   bounds>>

\* The last chunk, esp_https_ota_finish() and esp_restart(); a failure leaves
\* the other slot unusable and the running one alone.
FinishInstall ==
    /\ install = "writing"
    /\ \/ /\ slots' = [slots EXCEPT ![Other(running)].mark = "new"]
          /\ boot' = Other(running) /\ Reset /\ NoFault /\ UNCHANGED release
       \/ Fault /\ install' = None /\ UNCHANGED <<slots, boot, step, clock, answer, info, release>>
    /\ UNCHANGED <<running, embedded, slave, staged, news>>

(* ---------------------------- specification ----------------------------- *)

Init ==
    /\ slots = [s \in 0 .. 1 |-> IF s = 0 THEN [image |-> First, mark |-> "valid"]
                                 ELSE [image |-> First, mark |-> "partial"]]
    /\ boot = 0 /\ running = 0 /\ step = "off"
    /\ embedded \in SlaveImages /\ slave \in SlaveVersions /\ staged = FALSE
    /\ sntp = "off" /\ synced = FALSE /\ clockSet = FALSE
    /\ answer = None /\ info = [available |-> FALSE, latest |-> None]
    /\ release = First /\ install = None
    /\ faults = 0 /\ news = 0 /\ excused = FALSE

Main ==
    \/ Bootloader \/ Core \/ Confirm \/ StartWifi \/ StartClock \/ StartState
    \/ CheckSlave \/ PushSlave \/ ActivateSlave

Next ==
    \/ PowerCut \/ Main
    \/ GotIp \/ SntpInTime \/ SntpTimesOut \/ SntpLate
    \/ (\E r \in Images : Publish(r)) \/ BackgroundAsks \/ BackgroundRecords
    \/ TapUpdates \/ BeginInstall \/ FinishInstall

\* The bootloader and the tasks run when they can; a server that is asked again
\* and again answers in time some day.
Spec ==
    /\ Init /\ [][Next]_vars
    /\ WF_vars(Main) /\ WF_vars(FinishInstall)
    /\ WF_vars(SntpInTime \/ SntpTimesOut) /\ SF_vars(SntpInTime)

(* ------------------------------ properties ------------------------------ *)

\* A broken release is never confirmed, and however power fails during an
\* installation there is a confirmed, working image in one of the slots.
AlwaysRecoverable ==
    /\ \E s \in 0 .. 1 : slots[s].mark = "valid" /\ slots[s].image \notin Broken
    /\ \A s \in 0 .. 1 : slots[s].mark = "valid" => slots[s].image \notin Broken

\* Unless power is cut or the confirmation itself fails, a release that works is
\* never rolled back: not after another call failed, and the restart that
\* ends a co-processor update on its first start included.
GoodImageIsKept ==
    \A s \in 0 .. 1 : slots[s].mark = "aborted" /\ ~excused => slots[s].image \in Broken

\* A co-processor image that reports the version its descriptor names.
NamesItself(image) ==
    LET v == image.version
    IN  image.holds = "image" => image.text = <<v.major, v.minor, v.patch>>

\* The terminal comes up in the end, or one of the calls it cannot do without has
\* failed: neither a broken release nor, when the image for the co-processor
\* reports the version it was built under, its update and the restart after it
\* repeat for ever.
ComesUp == NamesItself(embedded) => ([]<>(step = "up") \/ <>[](step = "stopped"))

\* wifi_manager_slave_ota.h: "a stale co-processor version must not block the
\* app", whatever the image embedded for it calls itself.  Not met by one whose
\* name is not the version it reports (README, known weaknesses).
SlaveNeverBlocks == []<>(step \in {"up", "stopped"})

\* If Wi-Fi comes back whenever the clock is still unknown, an armed SNTP client
\* knows it in the end or is restarted, also after exchanges that timed out: an
\* attempt that has failed does not stand in the way of the next.
ClockIsKnown == WF_vars(GotIp) => (Armed ~> (synced \/ step = "off"))
=============================================================================
