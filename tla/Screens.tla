------------------------------ MODULE Screens ------------------------------
(***************************************************************************)
(* The screens of display_ui.c as the LVGL task runs them.  A Settings     *)
(* sub-screen is built when it is entered and deleted when it is left      *)
(* (decision 0012), so every callback must know which widgets exist; the   *)
(* watchlist's rows carry the index they act on and are rebuilt by a       *)
(* queued call; the Wi-Fi list is redrawn by the one-second timer, maybe   *)
(* under a finger; and the password screen learns what became of its       *)
(* attempt by looking at the manager's last event once a second.           *)
(* Callbacks run one at a time.  A queued call runs before the touch panel *)
(* is read again; a "nav" command of the developer console, which holds    *)
(* the display lock, may come in between.  The disclaimer, an LVGL screen  *)
(* of its own that covers all this until it is accepted, is left out.      *)
(***************************************************************************)
EXTENDS Integers, Sequences, FiniteSets

CONSTANTS
    Symbols, MaxSymbols,    \* tickers; SETTINGS_MAX_WATCHLIST
    Nets,                   \* networks in reach or saved
    Room,                   \* how many rows the LVGL pool may have room for
    Timeout,                \* WIFI_CONNECT_TIMEOUT_TICKS
    DevTargets,             \* where the developer console may jump; none in a release
    MaxDialogs              \* bound: time pickers opened over each other

VARIABLES
    active,     \* s_active_screen
    ui,         \* the widgets, see Fresh
    dialog,     \* how many of the night mode's time pickers are open
    picker,     \* s_night_time_msgbox and the rollers are those of the topmost
    table,      \* the watchlist of app_state: the tickers in order
    match,      \* s_watchlist_pending_symbol while s_watchlist_match_valid
    nets,       \* what build_wifi_display_rows() would list now
    paused,     \* autoconnect was paused last, not resumed
    connecting, ticks, fresh,   \* the password screen: s_wifi_connecting,
                \* s_wifi_connect_ticks, "an event since the baseline"
    last        \* last_event of the manager's snapshot

password == <<connecting, ticks, fresh>>
picking == <<dialog, picker>>
vars == <<active, ui, picking, table, match, nets, paused, password, last>>

None == "none"
Sub == {"LOCALE", "TIME_FORMAT", "DATE_FORMAT", "TIME_ZONES", "CITIES", "REGION", "DISPLAY",
        "WIFI", "PASSWORD", "MANAGE", "ADD", "UPDATES", "ABOUT"}
Kinds == {"connected", "saved", "new", "absent"}
Nothing == [n \in Nets |-> "absent"]

ASSUME ScreensAssumption ==
    /\ MaxSymbols \in Nat /\ Room \subseteq Nat /\ Timeout \in Nat
    /\ DevTargets \subseteq Sub \cup {"WATCHLIST", "LIST", "NIGHT_TIME"} /\ MaxDialogs \in Nat

Fresh == [view |-> "LIST",  \* s_settings_view
          built |-> {},     \* the sub-screens whose root handle is not NULL
          kids |-> <<>>,    \* children of s_watchlist_list: rows with the index
                            \* they act on; index 0 for what is not a row
          held |-> FALSE,   \* a finger is down on the handle of a row
          drag |-> 0,       \* s_watchlist_drag: that row's index at the start
          rebuild |-> FALSE,    \* watchlist_manage_rebuild_async() is queued
          shown |-> Nothing, listed |-> FALSE,  \* s_wifi_rendered_rows, s_wifi_list_built
          finger |-> None,  \* the network whose row a finger holds down
          menu |-> None,    \* the network the context menu is open for
          dead |-> {}]      \* history: the screens used while they did not exist

(* ------------------------- building and deleting ------------------------ *)

\* ensure_settings_view_built()
Build(u, v) == IF v = "LIST" THEN u ELSE [u EXCEPT !.built = @ \cup {v}]

\* destroy_settings_view(); a queued rebuild of the list is cancelled.  LVGL
\* forgets a press on a widget that is deleted, without telling its callbacks.
Destroy(u, v) ==
    LET gone == [u EXCEPT !.built = @ \ {v}]
    IN  CASE v = "MANAGE" -> [gone EXCEPT !.kids = <<>>, !.held = FALSE, !.rebuild = FALSE]
          [] v = "WIFI" -> [gone EXCEPT !.shown = Nothing, !.listed = FALSE,
                                        !.finger = None, !.menu = None]
          [] OTHER -> gone

\* A callback reads or writes a widget of sub-screen v.
Touch(u, v) == [u EXCEPT !.dead = @ \cup ({v} \ u.built)]

\* show_settings_view()
Show(u, v) ==
    LET left == IF u.view = v THEN u ELSE Destroy(u, u.view)
    IN  Build([left EXCEPT !.view = v], v)

\* The dashboard is shown over the sub-screen, which stays (mutant).
CoverSettings(u) == [u EXCEPT !.view = "LIST"]

\* set_active_screen(DISPLAY_UI_SCREEN_WATCHLIST)
LeaveSettings(u) == [Destroy(u, u.view) EXCEPT !.view = "LIST"]

Other(what) == [sym |-> what, ix |-> 0]

\* The children of s_watchlist_list for symbols t: as many rows as there is
\* room for, a notice when that is not all, "Add symbol" last.
Listing(t, room) ==
    LET n == IF Len(t) > room THEN room ELSE Len(t)
        pill == Other(IF Len(t) < MaxSymbols THEN "add" ELSE "full")
    IN  [i \in 1 .. n |-> [sym |-> t[i], ix |-> i]]
        \o (IF n < Len(t) THEN <<Other("more")>> ELSE <<>>) \o <<pill>>

\* watchlist_manage_rebuild()
Fill(u, t, room) == [Touch(Build(u, "MANAGE"), "MANAGE") EXCEPT !.kids = Listing(t, room)]

\* These build their screen, when it is not there, and write what it shows.
\* wifi_password_screen_set_ssid()
SetSsid(u) == Touch(Build(u, "PASSWORD"), "PASSWORD")

\* watchlist_add_screen_reset()
ResetAdd(u) == Touch(Build(u, "ADD"), "ADD")

\* updates_screen_reset()
ResetUpdates(u) == Touch(Build(u, "UPDATES"), "UPDATES")

\* show_time_zone_cities(): the list is cleaned and filled.
ShowCities(u) == Touch(Build(u, "CITIES"), "CITIES")

\* What the entry points call before they show a screen.
Prepare(u, v, room) ==
    CASE v = "PASSWORD" -> SetSsid(u)
      [] v = "ADD" -> ResetAdd(u)
      [] v = "UPDATES" -> ResetUpdates(u)
      [] v = "CITIES" -> ShowCities(u)
      [] v = "MANAGE" -> Fill(u, table, room)
      [] OTHER -> u

Enter(u, v, room) == Show(Prepare(u, v, room), v)

(* ------------------------------ navigation ------------------------------ *)

\* The touch panel is read: no queued call, no other finger, no open dialog.
Idle == ~ui.rebuild /\ ui.finger = None /\ ~ui.held /\ dialog = 0

InSettings(v) == active = "settings" /\ ui.view = v

\* A tap on something in sub-screen v that nothing covers.
Tap(v) == Idle /\ InSettings(v) /\ ui.menu = None

\* nav_click_cb(): "Settings" on the dashboard, "Exit" everywhere else.
Nav ==
    /\ Idle
    /\ IF active = "watchlist"
       THEN active' = "settings" /\ ui' = Show(ui, "LIST")
       ELSE active' = "watchlist" /\ ui' = LeaveSettings(ui)
    /\ paused' = IF InSettings("WIFI") THEN FALSE ELSE paused
    /\ UNCHANGED <<picking, table, match, nets, password, last>>

\* The rows of the Settings list and of the Time screen, and the zone rows.
Below(v) ==
    CASE v = "LIST" -> {"LOCALE", "DISPLAY", "ABOUT", "UPDATES", "MANAGE", "WIFI"}
      [] v = "LOCALE" -> {"TIME_FORMAT", "DATE_FORMAT", "TIME_ZONES", "REGION"}
      [] v = "TIME_ZONES" -> {"CITIES"}
      [] OTHER -> {}

\* A row that leads to a sub-screen; the one of Wi-Fi pauses autoconnect.
RowClick(v, room) ==
    /\ Tap(ui.view) /\ v \in Below(ui.view)
    /\ ui' = Enter(ui, v, room)
    /\ paused' = (v = "WIFI" \/ paused)
    /\ UNCHANGED <<active, picking, table, match, nets, password, last>>

Above(v) ==
    CASE v \in {"LOCALE", "DISPLAY", "ABOUT", "UPDATES", "MANAGE", "WIFI"} -> "LIST"
      [] v = "CITIES" -> "TIME_ZONES"
      [] v = "PASSWORD" -> "WIFI"
      [] v = "ADD" -> "MANAGE"
      [] OTHER -> "LOCALE"

\* The back button: settings_back_cb() of Wi-Fi resumes autoconnect,
\* wifi_password_back_cb() stops watching the attempt and unlocks the fields.
Back ==
    /\ \E v \in Sub : Tap(v)
    /\ ui' = Show(IF ui.view = "PASSWORD" THEN Touch(ui, "PASSWORD") ELSE ui, Above(ui.view))
    /\ paused' = (paused /\ ui.view # "WIFI")
    /\ connecting' = (connecting /\ ui.view # "PASSWORD")
    /\ UNCHANGED <<active, picking, table, match, nets, ticks, fresh, last>>

\* A setting picked on its screen: the marks are moved; a city's list is
\* cleaned and built anew.
Pick ==
    /\ \E v \in {"TIME_FORMAT", "DATE_FORMAT", "REGION", "DISPLAY", "CITIES"} :
        Tap(v) /\ ui' = Touch(Build(ui, v), v)
    /\ UNCHANGED <<active, picking, table, match, nets, paused, password, last>>

\* night_start_row_click_cb() and night_end_row_click_cb(), by night_time_open().
NightTime ==
    /\ Tap("DISPLAY") /\ dialog' = 1 /\ picker' = TRUE
    /\ UNCHANGED <<active, ui, table, match, nets, paused, password, last>>

\* night_time_commit_and_close(), on a tap beside the topmost picker: it reads
\* the rollers and refreshes the values on the Display screen; closing forgets
\* the handles, those of a picker below included.
NightTimeClose ==
    /\ dialog # 0
    /\ IF picker
       THEN ui' = Touch(ui, "DISPLAY") /\ dialog' = dialog - 1 /\ picker' = FALSE
       ELSE ui' = Touch(ui, "NIGHT_TIME") /\ UNCHANGED picking
    /\ UNCHANGED <<active, table, match, nets, paused, password, last>>

\* Where the "watchlist" command and the others lead.
Jumped(v, room) ==
    CASE v = "WATCHLIST" -> LeaveSettings(ui)
      [] v \in Sub -> Enter(Show(ui, "LIST"), v, room)
      [] OTHER -> Show(ui, "LIST")

\* cmd_nav(): the dashboard, or Settings at its top and from there the target as
\* by a tap.  An open picker stays open over all of it.
DevNav(v, room) ==
    /\ active' = IF v = "WATCHLIST" THEN "watchlist" ELSE "settings"
    /\ ui' = Jumped(v, room)
    /\ IF v = "NIGHT_TIME"
       THEN dialog < MaxDialogs /\ dialog' = dialog + 1 /\ picker' = TRUE
       ELSE UNCHANGED picking
    /\ paused' = (v = "WIFI" \/ paused)
    /\ match' = IF v = "ADD" THEN None ELSE match
    /\ UNCHANGED <<table, nets, password, last>>

(* ------------------------------- watchlist ------------------------------ *)

Without(t, i) == SubSeq(t, 1, i - 1) \o SubSeq(t, i + 1, Len(t))
MovedTo(t, i, j) ==
    LET w == Without(t, i) IN SubSeq(w, 1, j - 1) \o <<t[i]>> \o SubSeq(w, j, Len(w))

\* schedule_watchlist_manage_rebuild()
Queue(u) == [u EXCEPT !.rebuild = TRUE]

\* The rows are left as the finger put them (mutant).
QueueNothing(u) == u

\* What follows an edit of the watchlist made from one of the list's rows.
AfterEdit(u) == Queue(u)

\* watchlist_remove_click_cb(): the row's index is all it knows.
Remove(i) ==
    /\ Tap("MANAGE") /\ i \in 1 .. Len(ui.kids) /\ ui.kids[i].ix # 0
    /\ table' = Without(table, ui.kids[i].ix)
    /\ ui' = AfterEdit(ui)
    /\ UNCHANGED <<active, picking, match, nets, paused, password, last>>

\* watchlist_drag_pressed_cb()
DragPressed(i) ==
    /\ Tap("MANAGE") /\ i \in 1 .. Len(ui.kids) /\ ui.kids[i].ix # 0
    /\ ui' = [ui EXCEPT !.held = TRUE, !.drag = ui.kids[i].ix]
    /\ UNCHANGED <<active, picking, table, match, nets, paused, password, last>>

Dragged == CHOOSE i \in 1 .. Len(ui.kids) : ui.kids[i].ix = ui.drag

\* watchlist_drag_pressing_cb(): the row goes where the finger is, no further
\* than the last index of the table and the last child.
DragPressing(j) ==
    /\ ui.held /\ j \in 1 .. Len(table) /\ j <= Len(ui.kids)
    /\ ui' = [ui EXCEPT !.kids = MovedTo(@, Dragged, j)]
    /\ UNCHANGED <<active, picking, table, match, nets, paused, password, last>>

\* watchlist_drag_released_cb(), also when the touch is lost.
DragReleased ==
    /\ ui.held
    /\ LET up == [ui EXCEPT !.held = FALSE, !.drag = 0]
       IN IF Dragged = ui.drag THEN ui' = up /\ UNCHANGED table
          ELSE ui' = AfterEdit(up) /\ table' = MovedTo(table, ui.drag, Dragged)
    /\ UNCHANGED <<active, picking, match, nets, paused, password, last>>

\* watchlist_manage_rebuild_async(): only while its screen is the one shown.
RebuildRuns(room) ==
    /\ ui.rebuild
    /\ LET u == [ui EXCEPT !.rebuild = FALSE]
       IN ui' = IF u.view = "MANAGE" THEN Fill(u, table, room) ELSE u
    /\ UNCHANGED <<active, picking, table, match, nets, paused, password, last>>

\* watchlist_add_row_click_cb(): the result of an earlier search is hidden.
AddRowClick ==
    /\ Tap("MANAGE") /\ Other("add") \in {ui.kids[i] : i \in 1 .. Len(ui.kids)}
    /\ ui' = Enter(ui, "ADD", 0) /\ match' = None
    /\ UNCHANGED <<active, picking, table, nets, paused, password, last>>

\* watchlist_symbol_input_changed_cb() and watchlist_add_check_cb(): typing
\* forgets the match, a search finds the ticker or not.
Search(found) ==
    /\ Tap("ADD") /\ ui' = Touch(ui, "ADD") /\ match' = found
    /\ UNCHANGED <<active, picking, table, nets, paused, password, last>>

\* watchlist_add_to_watchlist_cb()
AddToWatchlist(room) ==
    /\ Tap("ADD") /\ match # None /\ Len(table) < MaxSymbols
    /\ table' = Append(table, match)
    /\ ui' = Show(Fill(ui, table', room), "MANAGE")
    /\ UNCHANGED <<active, picking, match, nets, paused, password, last>>

(* --------------------------------- Wi-Fi -------------------------------- *)

\* The manager's snapshot lists something else: a scan, a connection made or
\* lost, a profile saved or forgotten.  At most one network is connected.
SnapshotChanges(rows) ==
    /\ nets' = rows /\ rows # nets
    /\ Cardinality({n \in Nets : rows[n] = "connected"}) <= 1
    /\ UNCHANGED <<active, ui, picking, table, match, paused, password, last>>

\* The list is redrawn whatever is pressed (mutant).
Redraw == [ui EXCEPT !.shown = nets, !.listed = TRUE]

\* update_wifi_screen(): rows that have not changed stay, and so do all while a
\* finger is down on the list.
WifiUpdated == IF ui.finger # None THEN ui ELSE Redraw

UpdateWifi ==
    /\ InSettings("WIFI") /\ ~(ui.listed /\ ui.shown = nets)
    /\ ui' = Touch(WifiUpdated, "WIFI")
    /\ UNCHANGED <<active, picking, table, match, nets, paused, password, last>>

Press(n) ==
    /\ Tap("WIFI") /\ ui.shown[n] # "absent"
    /\ ui' = [ui EXCEPT !.finger = n]
    /\ UNCHANGED <<active, picking, table, match, nets, paused, password, last>>

\* wifi_ap_click_cb(), or the finger has moved away.
Release ==
    /\ ui.finger # None
    /\ LET up == [ui EXCEPT !.finger = None]
       IN \/ ui' = up /\ UNCHANGED paused
          \/ ui.shown[ui.finger] = "saved" /\ ui' = up /\ paused' = FALSE
          \/ ui.shown[ui.finger] = "new" /\ ui' = Enter(up, "PASSWORD", 0) /\ UNCHANGED paused
    /\ UNCHANGED <<active, picking, table, match, nets, password, last>>

\* wifi_add_network_click_cb()
AddNetwork ==
    /\ Tap("WIFI") /\ ui.listed
    /\ ui' = Enter(ui, "PASSWORD", 0)
    /\ UNCHANGED <<active, picking, table, match, nets, paused, password, last>>

\* wifi_menu_open_cb(), wifi_menu_forget_click_cb(), wifi_menu_backdrop_click_cb().
Menu ==
    /\ \/ \E n \in Nets : /\ Tap("WIFI") /\ ui.shown[n] \in {"saved", "connected"}
                          /\ ui' = [Touch(ui, "WIFI") EXCEPT !.menu = n]
       \/ Idle /\ ui.menu # None /\ ui' = [Touch(ui, "WIFI") EXCEPT !.menu = None]
    /\ UNCHANGED <<active, picking, table, match, nets, paused, password, last>>

(* --------------------------- password screen ---------------------------- *)

\* publish_event() of the manager.
ManagerEvent(e) ==
    /\ last' = e /\ fresh' = TRUE
    /\ UNCHANGED <<active, ui, picking, table, match, nets, paused, connecting, ticks>>

\* wifi_password_connect_cb(), from the keyboard's "Connect" key.
Connect ==
    /\ Tap("PASSWORD") /\ ~connecting
    /\ connecting' = TRUE /\ ticks' = 0 /\ fresh' = FALSE
    /\ paused' = FALSE
    /\ ui' = Touch(ui, "PASSWORD")
    /\ UNCHANGED <<active, picking, table, match, nets, last>>

\* The wait begins again with every event (mutant).
TicksSinceEvent == IF fresh THEN 0 ELSE ticks + 1

\* s_wifi_connect_ticks after one more look.
TicksNow == ticks + 1

\* wifi_password_poll(): the last event decides, or the wait is over.
Poll ==
    /\ InSettings("PASSWORD") /\ connecting
    /\ ticks' = TicksNow
    /\ IF fresh /\ last = "CONNECTED"
       THEN connecting' = FALSE /\ ui' = Show(Touch(ui, "PASSWORD"), "WIFI")
       ELSE IF (fresh /\ last \in {"AUTH_FAILED", "CONNECT_FAILED", "DISCONNECTED",
                                   "ALL_PROFILES_BLOCKED"}) \/ ticks' > Timeout
       THEN connecting' = FALSE /\ ui' = Touch(ui, "PASSWORD")
       ELSE UNCHANGED <<connecting, ui>>
    /\ UNCHANGED <<active, picking, table, match, nets, paused, fresh, last>>

(* ---------------------------- specification ----------------------------- *)

Init ==
    /\ active = "watchlist" /\ ui = Fresh /\ dialog = 0 /\ picker = FALSE
    /\ table \in {<<>>} \cup {<<s>> : s \in Symbols} /\ match = None
    /\ nets = Nothing /\ paused = FALSE
    /\ connecting = FALSE /\ ticks = 0 /\ fresh = FALSE /\ last = "STARTED"

\* update_timer_cb(), once a second.
Timer == UpdateWifi \/ Poll

Next ==
    \/ Nav \/ Back \/ Pick \/ NightTime \/ NightTimeClose \/ Timer
    \/ \E v \in Sub, room \in Room : RowClick(v, room)
    \/ \E v \in DevTargets, room \in Room : DevNav(v, room)
    \/ \E i \in 1 .. MaxSymbols + 1 : Remove(i) \/ DragPressed(i) \/ DragPressing(i)
    \/ DragReleased
    \/ \E room \in Room : RebuildRuns(room) \/ AddToWatchlist(room)
    \/ AddRowClick \/ \E s \in Symbols \cup {None} : Search(s)
    \/ \E rows \in [Nets -> Kinds] : SnapshotChanges(rows)
    \/ (\E n \in Nets : Press(n)) \/ Release \/ AddNetwork \/ Menu
    \/ (\E e \in {"CONNECTING", "CONNECTED", "AUTH_FAILED"} : ManagerEvent(e)) \/ Connect

\* LVGL runs the timer.
Spec == Init /\ [][Next]_vars /\ WF_vars(Timer)

(* ------------------------------ properties ------------------------------ *)

\* What a console jump under an open time picker breaks, see NavIsAsATap.
Excused == IF DevTargets = {} THEN {} ELSE {"DISPLAY", "NIGHT_TIME"}

\* Whatever the order of taps, timers, queued calls and commands, exactly the
\* widgets of the sub-screen shown exist (decision 0012: a bounded working set),
\* no callback has used any other, and the row under a finger is still there.
\* Where there is a console, the time picker is exempt.
WidgetsAreThoseShown ==
    /\ ui.dead \subseteq Excused
    /\ ui.built = {ui.view} \ {"LIST"}
    /\ ui.finger # None => ui.shown[ui.finger] # "absent"

\* The comment of cmd_nav(): a jump "can't drift from what a tap actually does";
\* so it leads no callback to a widget that does not exist, as no tap does.  Not
\* met under an open time picker (README, known weaknesses).
NavIsAsATap == ui.dead = {}

\* After any sequence of additions, removals and drags, a row that can be tapped
\* acts on the symbol it shows, although it knows only an index.
RowsActOnTheirSymbol ==
    ~ui.rebuild => \A i \in 1 .. Len(ui.kids) :
        ui.kids[i].ix # 0 => /\ ui.kids[i].ix <= Len(table)
                             /\ table[ui.kids[i].ix] = ui.kids[i].sym

\* While the password screen stays open, its keyboard comes back: the attempt is
\* decided or given up, whatever else the manager has to report.
KeyboardComesBack ==
    (InSettings("PASSWORD") /\ connecting) ~> ~(InSettings("PASSWORD") /\ connecting)

\* The Manage screen lists the watchlist whenever it is entered, as the comment
\* of watchlist_manage_rebuild() has it.
ManageIsFilled == InSettings("MANAGE") /\ ~ui.rebuild => ui.kids # <<>>
=============================================================================
