------------------------------ MODULE Settings ------------------------------
(***************************************************************************)
(* What the terminal remembers: the sealed records of settings_store and   *)
(* wifi_profile_store in flash, the copies the display keeps in memory,    *)
(* the handlers of the Settings screens that change both, and start-up,    *)
(* which reads them back.  Power may fail between any two steps, a write   *)
(* may be refused, and a record may be found damaged or of an older        *)
(* layout.                                                                 *)
(*                                                                         *)
(* Three threads meet here: the LVGL task (handlers, timer), the main task *)
(* (time_sync_start, app_state_init) and the WebSocket task, which reads   *)
(* the server when it connects.                                            *)
(***************************************************************************)
EXTENDS Integers, FiniteSets

CONSTANTS
    Domains,        \* the five records of settings_store, and "wifi"
    Default,        \* what *_init_default() fills in, by domain
    Layout,         \* *_VERSION, by domain
    Found,          \* what flash may hold at the first start: records by domain
    Junk,           \* what a damaged record reads as, by domain
    Cities, UsLabels,       \* the time zones offered; s_us_tz_labels
    Versions,               \* firmware versions that may be running
    Lists, ProfileSets,     \* watch-lists and Wi-Fi profile databases
    Levels, NightLevel,     \* brightness choices; DISPLAY_NIGHT_BRIGHTNESS_PERCENT
    Day,                    \* MINUTES_PER_DAY
    MaxEdits, MaxFaults, MaxStarts     \* bounds of the model

ASSUME SettingsAssumption ==
    /\ Domains = {"display", "symbols", "locale", "api_region", "disclaimer", "wifi"}
    /\ UsLabels \subseteq Cities /\ Day \in Nat \ {0}
    /\ "" \notin Versions /\ Default["disclaimer"] = ""
    \* Flash holds at most one record of a domain.
    /\ \A f \in Found : /\ f = [d \in Domains |-> f[d]]
                         /\ \A d \in Domains : \A r, q \in f[d] : r = q

VARIABLES
    flash,          \* by domain: the set holding the record, or the empty set
    store,          \* store_available of wifi_profile_store.c
    locale, display,        \* s_locale and s_display of display_ui.c
    symbols, profiles,      \* the records as the other components hold them
    zone,           \* the TZ environment variable
    screen,         \* "disclaimer" or "dashboard"
    version,        \* the firmware running
    main,           \* what app_main() does next: "read zone", "set zone", "init", "up"
    readZone,       \* the zone time_sync_start() has read
    handler,        \* the rest of the handler the LVGL task is in
    notice,         \* APP_STATE_REGION_CHANGED is queued
    server,         \* the server the WebSocket task is connected to
    applied,        \* s_display_last_applied_percent
    given, accepted, pinned, lost,  \* history: see the properties
    edits, faults, starts

tasks == <<notice, server>>
history == <<given, accepted, pinned, lost>>
vars == <<flash, store, locale, display, symbols, profiles, zone, screen, version, main, readZone,
          handler, tasks, applied, history, edits, faults, starts>>

Idle == [do |-> "nothing"]

(* ----------------------------- the records ----------------------------- *)

\* settings_codec_seal(), wifi_profile_codec_seal().
Seal(d, data) == [length |-> "full", layout |-> Layout[d], sum |-> "match", data |-> data]

\* settings_api_region_from_tz_label().
RegionOf(city) == IF city \in UsLabels THEN "us" ELSE "intl"

\* The range checks of the *_validate() functions.
InRange(d, data) ==
    CASE d = "display" -> /\ data.level \in 1 .. 100
                          /\ data.start \in 0 .. Day - 1 /\ data.end \in 0 .. Day - 1
      [] d = "api_region" -> data.region \in {"intl", "us"} /\ data.source \in {"auto", "manual"}
      [] OTHER -> TRUE

\* display_settings_t, each time of the night in minutes since midnight.
DisplaySettings == [level : Nat, night : BOOLEAN, start : Nat, end : Nat]

\* The default is a record that validates, the first flash holds records of this
\* layout, and the slider offers percentages.
ASSUME DisplayAssumption ==
    /\ Default["display"] \in DisplaySettings /\ InRange("display", Default["display"])
    /\ \A f \in Found : \A r \in f["display"] : r.data \in DisplaySettings
    /\ Levels \subseteq Nat

\* A codec that trusts the header and forgets the checksum (mutant).
ValidateHeader(d, r) == r.layout = Layout[d] /\ InRange(d, r.data)

Validate(d, r) == r.layout = Layout[d] /\ r.sum = "match" /\ InRange(d, r.data)

\* settings_store_load_*() and wifi_profile_store_load(): a missing, short or
\* invalid record reads as the default, and the caller is not told.
LoadFrom(f, available, d) ==
    IF /\ d = "wifi" => available
       /\ \E r \in f[d] : r.length = "full" /\ Validate(d, r)
    THEN (CHOOSE r \in f[d] : TRUE).data
    ELSE Default[d]

Load(d) == LoadFrom(flash, store, d)

\* How nvs_set_blob() and nvs_commit() may end.
Outcomes == {"stored", "refused", "commit failed"}

\* settings_store_save_*() and wifi_profile_store_save().
Save(d, data, outcome) ==
    /\ outcome # "stored" => faults < MaxFaults
    /\ faults' = IF outcome = "stored" THEN faults ELSE faults + 1
    /\ flash' = IF outcome = "refused" \/ (d = "wifi" /\ ~store) THEN flash
                ELSE [flash EXCEPT ![d] = {Seal(d, data)}]
    /\ given' = [given EXCEPT ![d] = @ \cup {data}]

(* ------------------------------- start-up ------------------------------- *)

\* Any acknowledgement will do (mutant).
ShouldShowOnce(acked, running) == running # "" /\ acked = ""

\* settings_disclaimer_should_show().
ShouldShow(acked, running) == running # "" /\ acked # running

\* display_ui_start() and display_ui_render(), as far as the settings go: the
\* display and locale records are read, and the disclaimer covers the dashboard
\* when the running version is not the one acknowledged.
DisplayUp(f, v) ==
    /\ display' = LoadFrom(f, FALSE, "display")
    /\ locale' = LoadFrom(f, FALSE, "locale")
    /\ screen' = IF ShouldShow(LoadFrom(f, FALSE, "disclaimer"), v) THEN "disclaimer" ELSE "dashboard"
    /\ applied' = LoadFrom(f, FALSE, "display").level

\* init_default_nvs() and wifi_profile_store_init(): the partition is used as
\* it is, or erased when NVS reports no free pages or a newer version; the
\* profile store may also end up unavailable.
Erasable == {"default partition", "wifi_cfg", "nothing"}

Erased(f, part) ==
    [d \in Domains |-> IF \/ part = "wifi_cfg" /\ d = "wifi"
                          \/ part = "default partition" /\ d # "wifi" THEN {} ELSE f[d]]

\* The chip starts: after a power cut at any moment, a panic or a restart,
\* with the same firmware or another one.  `f` is what flash holds then.
StartWith(f, available, v) ==
    /\ DisplayUp(f, v)
    /\ flash' = f /\ store' = available /\ version' = v
    /\ symbols' = Default["symbols"] /\ profiles' = LoadFrom(f, available, "wifi")
    /\ zone' = Default["locale"].city /\ readZone' = Default["locale"].city
    /\ main' = "read zone" /\ handler' = Idle
    /\ notice' = FALSE /\ server' = "none"
    /\ starts' = starts + 1

Start ==
    /\ starts < MaxStarts
    /\ \E v \in Versions, part \in Erasable, available \in BOOLEAN :
        LET upset == part # "nothing" \/ ~available IN
        /\ upset => faults < MaxFaults
        /\ faults' = IF upset THEN faults + 1 ELSE faults
        /\ StartWith(Erased(flash, part), available, v)
        /\ lost' = (lost \/ part = "default partition")
    /\ UNCHANGED <<given, accepted, pinned, edits>>

\* A record is found damaged at the next start.
Damage(d) ==
    /\ starts < MaxStarts /\ faults < MaxFaults /\ flash[d] # {}
    /\ faults' = faults + 1
    /\ \E broken \in {[length |-> "full", layout |-> Layout[d], sum |-> "differ", data |-> Junk[d]],
                      [length |-> "short", layout |-> Layout[d], sum |-> "match", data |-> Junk[d]]} :
        StartWith([flash EXCEPT ![d] = {broken}], store, version)
    /\ lost' = (lost \/ d = "api_region")
    /\ UNCHANGED <<given, accepted, pinned, edits>>

\* apply_persisted_timezone(): the load and the setenv(), on the main task.
ReadZone ==
    /\ main = "read zone" /\ main' = "set zone"
    /\ readZone' = Load("locale").city
    /\ UNCHANGED <<flash, store, locale, display, symbols, profiles, zone, screen, version,
                   handler, tasks, applied, history, edits, faults, starts>>

SetZone ==
    /\ main = "set zone" /\ main' = "init"
    /\ zone' = readZone
    /\ UNCHANGED <<flash, store, locale, display, symbols, profiles, screen, version, readZone,
                   handler, tasks, applied, history, edits, faults, starts>>

\* app_state_init() loads the watch-list and creates the lock and the queue;
\* the WebSocket task started after it reads the server.
AppStateUp ==
    /\ main = "init" /\ main' = "up"
    /\ symbols' = Load("symbols") /\ server' = Load("api_region").region
    /\ UNCHANGED <<flash, store, locale, display, profiles, zone, screen, version, readZone,
                   handler, notice, applied, history, edits, faults, starts>>

(* ------------------------------ the handlers ----------------------------- *)

Tap == handler = Idle /\ screen = "dashboard" /\ edits < MaxEdits /\ edits' = edits + 1

\* disclaimer_accept_cb().
Accept ==
    /\ screen = "disclaimer" /\ screen' = "dashboard"
    /\ \E outcome \in Outcomes : Save("disclaimer", version, outcome)
    /\ accepted' = accepted \cup {version}
    /\ UNCHANGED <<store, locale, display, symbols, profiles, zone, version, main, readZone, handler,
                   tasks, applied, pinned, lost, edits, starts>>

\* time_format_row_click_cb(), date_format_row_click_cb().
PickFormat ==
    /\ Tap /\ locale' = [locale EXCEPT !.h24 = ~@]
    /\ \E outcome \in Outcomes : Save("locale", locale', outcome)
    /\ UNCHANGED <<store, display, symbols, profiles, zone, screen, version, main, readZone, handler,
                   tasks, applied, accepted, pinned, lost, starts>>

\* time_zone_city_row_click_cb(), up to the locale's save.
PickCity(city) ==
    /\ Tap /\ locale' = [locale EXCEPT !.city = city]
    /\ \E outcome \in Outcomes : Save("locale", locale', outcome)
    /\ handler' = [do |-> "follow zone"]
    /\ UNCHANGED <<store, display, symbols, profiles, zone, screen, version, main, readZone,
                   tasks, applied, accepted, pinned, lost, starts>>

\* Only the server is compared, not who chose it (mutant).
SameServer(old, new) == old.region = new.region

\* The early return of apply_region_change().
NothingToChange(old, new) == old = new

\* The save's error ends the handler (mutant).
AfterGoodSave(outcome, next) == IF outcome = "stored" THEN next ELSE [do |-> "zone"]

\* The result of the save is ignored.
AfterSave(outcome, next) == next

\* apply_region_change(), up to the save; `next` is what its caller does then.
ApplyRegion(new, next) ==
    LET old == Load("api_region") IN
    IF NothingToChange(old, new)
    THEN handler' = next /\ UNCHANGED <<flash, faults, given, lost>>
    ELSE \E outcome \in Outcomes :
           /\ Save("api_region", new, outcome)
           /\ lost' = IF new.source = "manual" THEN outcome = "refused" ELSE lost
           /\ handler' = AfterSave(outcome, [do |-> "tell", reset |-> old.region # new.region,
                                             then |-> next.do])

\* time_zone_city_row_click_cb(): the server follows the zone unless pinned.
FollowZone ==
    /\ handler.do = "follow zone"
    /\ IF Load("api_region").source = "auto"
       THEN ApplyRegion([region |-> RegionOf(locale.city), source |-> "auto"], [do |-> "zone"])
       ELSE handler' = [do |-> "zone"] /\ UNCHANGED <<flash, faults, given, lost>>
    /\ UNCHANGED <<store, locale, display, symbols, profiles, zone, screen, version, main, readZone,
                   tasks, applied, accepted, pinned, edits, starts>>

\* region_row_click_cb(): Automatic, International or United States.
PickRegion(choice) ==
    /\ Tap
    /\ pinned' = IF choice = "auto" THEN "none" ELSE choice
    /\ ApplyRegion(IF choice = "auto" THEN [region |-> RegionOf(locale.city), source |-> "auto"]
                   ELSE [region |-> choice, source |-> "manual"], Idle)
    /\ UNCHANGED <<store, locale, display, symbols, profiles, zone, screen, version, main, readZone,
                   tasks, applied, accepted, starts>>

\* The end of apply_region_change(): the symbols are reset, a resync is forced
\* and the WebSocket task is told.  The notice always finds room here, and the
\* restart it causes succeeds: a full queue and a client that fails are
\* WsTask's.
TellTasks ==
    /\ handler.do = "tell" /\ (handler.reset => main = "up")
    /\ notice' = (notice \/ main = "up") /\ handler' = [do |-> handler.then]
    /\ UNCHANGED <<flash, store, locale, display, symbols, profiles, zone, screen, version, main,
                   readZone, server, applied, history, edits, faults, starts>>

\* Before app_state_init() the lock that the reset takes does not exist: the
\* assertion in xSemaphoreTake() restarts the chip.
PanicOnReset ==
    /\ starts < MaxStarts
    /\ handler.do = "tell" /\ handler.reset /\ main # "up"
    /\ StartWith(flash, store, version)
    /\ UNCHANGED <<history, edits, faults>>

\* The end of time_zone_city_row_click_cb(): setenv("TZ"), tzset().
ApplyZone ==
    /\ handler.do = "zone" /\ handler' = Idle
    /\ zone' = locale.city
    /\ UNCHANGED <<flash, store, locale, display, symbols, profiles, screen, version, main, readZone,
                   tasks, applied, history, edits, faults, starts>>

\* The WebSocket task handles the notice: it stops the client and connects
\* again, and market_data_ws_client_create() reads the server.
Reconnect ==
    /\ main = "up" /\ notice /\ notice' = FALSE
    /\ server' = Load("api_region").region
    /\ UNCHANGED <<flash, store, locale, display, symbols, profiles, zone, screen, version, main,
                   readZone, handler, applied, history, edits, faults, starts>>

\* watchlist_save_current_symbols(), after an addition, a removal or a move.
EditSymbols(list) ==
    /\ Tap /\ main = "up" /\ symbols' = list
    /\ \E outcome \in Outcomes : Save("symbols", list, outcome)
    /\ UNCHANGED <<store, locale, display, profiles, zone, screen, version, main, readZone, handler,
                   tasks, applied, accepted, pinned, lost, starts>>

\* The Wi-Fi manager saves its profiles.
SaveProfiles(p) ==
    /\ edits < MaxEdits /\ edits' = edits + 1 /\ profiles' = p
    /\ \E outcome \in Outcomes : Save("wifi", p, outcome)
    /\ UNCHANGED <<store, locale, display, symbols, zone, screen, version, main, readZone, handler,
                   tasks, applied, accepted, pinned, lost, starts>>

(* ------------------------------ brightness ------------------------------ *)

\* An empty window becomes the whole day (mutant).
MinuteInWindowOrAlways(current, start, end) ==
    IF start < end THEN start =< current /\ current < end
    ELSE start =< current \/ current < end

\* display_ui_logic_minute_in_window().
MinuteInWindow(current, start, end) ==
    IF start =< end THEN start =< current /\ current < end
    ELSE start =< current \/ current < end

\* What display_apply_brightness() aims at, the clock set or not.
Target(d, minute, synced) ==
    IF d.night /\ synced /\ MinuteInWindow(minute, d.start, d.end) THEN NightLevel ELSE d.level

\* display_apply_brightness() at some minute of the day; LEDC may refuse, and
\* then the next call tries again.
ApplyBrightness(d) ==
    \/ \E minute \in 0 .. Day - 1, synced \in BOOLEAN : applied' = Target(d, minute, synced)
    \/ UNCHANGED applied

\* display_brightness_slider_cb(), display_night_switch_cb() and
\* night_time_commit_and_close().
EditDisplay ==
    /\ Tap
    /\ \/ \E level \in Levels : display' = [display EXCEPT !.level = level]
       \/ display' = [display EXCEPT !.night = ~@]
       \/ \E m \in 0 .. Day - 1 : display' = [display EXCEPT !.start = m]
       \/ \E m \in 0 .. Day - 1 : display' = [display EXCEPT !.end = m]
    /\ \E outcome \in Outcomes : Save("display", display', outcome)
    /\ ApplyBrightness(display')
    /\ UNCHANGED <<store, locale, symbols, profiles, zone, screen, version, main, readZone, handler,
                   tasks, accepted, pinned, lost, starts>>

\* update_timer_cb().
UpdateTimer ==
    /\ handler = Idle /\ ApplyBrightness(display)
    /\ UNCHANGED <<flash, store, locale, display, symbols, profiles, zone, screen, version, main,
                   readZone, handler, tasks, history, edits, faults, starts>>

(* ---------------------------- specification ----------------------------- *)

Init ==
    /\ flash \in Found
    /\ store = TRUE /\ version \in Versions
    /\ locale = LoadFrom(flash, TRUE, "locale") /\ display = LoadFrom(flash, TRUE, "display")
    /\ symbols = Default["symbols"] /\ profiles = LoadFrom(flash, TRUE, "wifi")
    /\ zone = Default["locale"].city /\ readZone = Default["locale"].city
    /\ screen = IF ShouldShow(LoadFrom(flash, TRUE, "disclaimer"), version) THEN "disclaimer"
                ELSE "dashboard"
    /\ main = "read zone" /\ handler = Idle /\ notice = FALSE /\ server = "none"
    /\ applied = display.level
    /\ given = [d \in Domains |-> {r.data : r \in {r \in flash[d] : Validate(d, r)}}]
    /\ accepted = {LoadFrom(flash, TRUE, "disclaimer")}
    /\ pinned = "none" /\ lost = FALSE
    /\ edits = 0 /\ faults = 0 /\ starts = 1

Next ==
    \/ Start \/ (\E d \in Domains : Damage(d)) \/ PanicOnReset
    \/ ReadZone \/ SetZone \/ AppStateUp
    \/ Accept
    \/ PickFormat
    \/ \E city \in Cities : PickCity(city)
    \/ \E choice \in {"auto", "intl", "us"} : PickRegion(choice)
    \/ FollowZone \/ TellTasks \/ ApplyZone \/ Reconnect
    \/ \E list \in Lists : EditSymbols(list)
    \/ \E p \in ProfileSets : SaveProfiles(p)
    \/ EditDisplay \/ UpdateTimer

Spec == Init /\ [][Next]_vars

(* ------------------------------ properties ------------------------------ *)

\* settings_store.h promises loads that always succeed: what a load returns is
\* the default or a record some caller saved, never what is left of a damaged,
\* short or older one, in flash or in the copies made at start-up.
LoadedWasSaved ==
    /\ \A d \in Domains : Load(d) \in {Default[d]} \cup given[d]
    /\ locale \in {Default["locale"]} \cup given["locale"]
    /\ display \in {Default["display"]} \cup given["display"]

\* A server chosen by hand stays chosen: whatever time zones are picked, and
\* through any power cut, update or start, the stored record is the last manual
\* choice, unless flash refused it or lost it (docs/decisions/0009, decision 3).
PinnedStays ==
    pinned # "none" /\ ~lost => Load("api_region") = [region |-> pinned, source |-> "manual"]

\* Once no handler is under way and no notice waits, the WebSocket task is
\* connected to the server the settings name, failed writes included.
StreamsFromChosenServer ==
    main = "up" /\ handler = Idle /\ ~notice => server = Load("api_region").region

\* The dashboard is reached only on a firmware version the user has accepted
\* the disclaimer of, after any sequence of updates, roll-backs and failed saves.
DisclaimerSeen == screen = "dashboard" => version \in accepted

\* Walking the clock from the start of the window meets `m` before its end.
NightCovers(m, start, end) ==
    \E k \in 0 .. Day - 1 :
        /\ (start + k) % Day = m
        /\ \A j \in 0 .. k : (start + j) % Day # end

\* Under every display record the handlers can produce, the backlight aims at
\* the night level exactly at the minutes the night window covers, once the
\* clock is set, and at the user's level otherwise: a window across midnight
\* and an empty one included.
NightIsDark ==
    \A minute \in 0 .. Day - 1, synced \in BOOLEAN :
        Target(display, minute, synced) =
            IF display.night /\ synced /\ NightCovers(minute, display.start, display.end)
            THEN NightLevel ELSE display.level
=============================================================================
