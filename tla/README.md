# TLA+ model of crypto-market-data-ticker

The program is the firmware of a desk ticker: an ESP32-P4 with a touch screen and an
ESP32-C6 as its Wi-Fi co-processor. It keeps a watchlist of up to 10 symbols,
fetches 24 hours of 5-minute candles for each over HTTPS, follows their
trades over a WebSocket and draws them. Several FreeRTOS tasks share one table
and talk through bounded queues, timers and driver events; power may fail at any
moment; servers, networks and the user do as they like. That is where it is hard
to test, and what this directory models. The host tests in the repository cover
the pure parts one call at a time; none runs two tasks or a restart.

Paths below are relative to `src/`.

## 1. Inventory

| Component | State | Operations | Talks to |
|---|---|---|---|
| Wi-Fi policy, `components/wifi_manager/src/wifi_policy.c` | state, attempt, cycle cursor, profiles with failure counts, pending retry, pending teardown, fallback | `wifi_policy_handle()` on 12 inputs, `wifi_policy_set_profiles()` | returns a list of at most 4 actions |
| Wi-Fi adapter, `wifi_manager.c` | command queue (8), connect and retry timers, profile database, typed password, snapshot, event queue (16) | one task: take a command, feed the policy, execute its actions | driver events and timers in, API calls in, events out |
| Wi-Fi driver (external) | the station's association | connect, disconnect | `STA_DISCONNECTED`, `GOT_IP` |
| Profile store and codec, `wifi_profile_store.c`, `wifi_profile_codec.c` | a blob in (encrypted) NVS | load, save, sanitise | adapter |
| Co-processor update, `wifi_manager_slave_ota.c` | version of the co-processor, embedded image | compare, push, activate, restart the host | at boot, before Wi-Fi |
| Symbol table, `components/app_state/src/app_state.c` | `s_symbols[]`, `s_symbol_count`, one PSRAM block per symbol, watchlist events (8) | init, add, remove, move, reset, record success and error, merge a tick | UI, sync and WebSocket tasks, one mutex |
| Sync task, `app_state_sync_task.c`, `app_state_retry_policy.c` | next attempt per index, offline since, force flag, a batch in flight | collect due, fetch, record, back off | table, REST client, Wi-Fi events |
| WebSocket task, `app_state_ws_task.c`, `app_state_kline_merge.c` | client handle, queue set, subscription flag | start, restart, merge ticks, subscribe and unsubscribe | table, WebSocket client, watchlist events |
| WebSocket client, `market_data_ws_client/` | connection, stream list in the URL, stream parser, tick queue | create, start, stop, subscribe, parse | library task, WebSocket task |
| REST client and parsers, `market_data_client/` | one HTTP session per call or batch, streaming scanner and three parsers | symbol status, ticker, candles of one symbol or of many | sync task, UI |
| Settings store, `settings_store/` | six sealed records in NVS | load or default, seal, validate, save | UI, all start-up code |
| Time sync, `time_sync/` | `synced`, the task that asks | wait for SNTP after `GOT_IP`; apply the time zone | REST, OTA and night mode do without it until then |
| OTA task and client, `app_state_ota_task.c`, `ota_client/` | update info, image being written | check, install | background task and UI |
| Display UI, `main/display_ui.c`, `display_ui_logic.c` | the screen shown and its widgets, copies of settings, the drag, the password attempt | callbacks, one-second timer, queued calls of the LVGL task; `nav` of the developer console | all of the above |
| Application start, `main/esp32-market-data-terminal.c`, `app_lifecycle.c` | how far it has come | start the rest in order, confirm the image | all of the above |
| Board, number formatting, developer consoles | registers; none; none | bus set-up; strings; commands | UI |

What is hard, per component, and what makes it right:

* **Wi-Fi.** The policy runs on stale reports: a `STA_DISCONNECTED`, a
  `GOT_IP` or a timeout is queued and may be read after the policy has moved
  on, and a join that takes longer than its timer is cut short. Commands may be dropped when the
  queue is full. Right means: the manager is not CONNECTED to nothing when all is quiet; an attempt always
  ends; blocked profiles are left alone; a policy that was told to rest rests; two copies of the profiles agree.
* **Table and sync task.** A batch fetch takes seconds between the collection of table
  indices and the recording of results at those indices, and the UI edits the table in
  between; each accessor checks its index before it takes the lock. Right
  means: every PSRAM block has one owner; none is written through `NULL`; what
  is shown as SYNCED belongs to its symbol and to the chosen server; no symbol
  stays "Loading".
* **WebSocket task.** It waits on a FreeRTOS queue set for two queues, one of
  which is deleted and created again with each change of server. Right means: no
  item is left without its handle in the set; the
  streams follow the table by name, through edits at any moment of a restart;
  ticks do not starve the user's edits.
* **What comes over the wire.** A REST body or a message of the stream is scanned in
  chunks cut anywhere, may be truncated, nested or damaged, and one session serves many
  requests. Right means: a row or a tick is what the sender said, whole, or
  nothing at all; the next message is read as if the bad one had not been; the
  answers of a batch do not mix; candles stay in order whatever arrives late.
* **What is kept.** Power may fail between a change in memory and its commit, a record
  may be damaged or of another version, a release may be broken. Right means:
  what is loaded was saved; a pinned server stays pinned; a working image is always left
  and the terminal comes up.
* **Screens.** Widgets exist only while their screen is shown, and are deleted
  by timers, queued calls and the console as well as by taps; rows know only an index
  of the table. Right means: no callback touches a widget that is gone; a row acts on the
  symbol it shows; the password keyboard comes back.

`PROJECT.json` lists each of these hazards at its line, with the property that
covers it or the reason why none does.

## 2. Modules

| Module | Models |
|---|---|
| `WifiPolicy` | `wifi_policy.c`: one operator `In<Input>` per input of `wifi_policy_handle()` |
| `EspWifi` | the driver, external: what `wifi_manager.c` relies on |
| `WifiManager` | `wifi_manager.c`: extends `WifiPolicy`, instantiates `EspWifi`; all properties of Wi-Fi |
| `SymbolTable` | `app_state.c` and its only editor, the UI task |
| `SyncTask` | `app_state_sync_task.c`: extends `SymbolTable`; all properties of table and sync task |
| `Watchlist` | abstract: the list `app_state.h` promises, without indices, locks, blocks or batches; `SyncTask` implements it |
| `SyncTaskProofs` | theorems about `SyncTask`; that it implements `Watchlist`, and what holds of lists that only grow |
| `WsTask` | `app_state_ws_task.c` and `market_data_ws_client.c`: extends `SymbolTable`; all properties of the streams |
| `JsonScanner` | `market_data_json_scanner.c`: tokens from chunks |
| `RestParsers` | the candle, symbol and ticker parsers: extends `JsonScanner` |
| `RestFetch` | `market_data_client.c`, `market_data_http.c`, `market_data_url.c`: extends `RestParsers` |
| `StreamParser` | `market_data_ws_stream_parser.c`: extends `JsonScanner` |
| `KlineMerge` | `app_state_kline_merge.c` |
| `Charts` | abstract: the queue of ticks and the candles of the watchlist, wherever the ticks come from; extends `KlineMerge`. `TickStream` implements it |
| `TickStream` | the way of a tick from the frames of a message to the queue: extends `StreamParser` and `Charts` |
| `Settings` | `settings_store/`, `wifi_profile_store.c`, the handlers that save, the restart |
| `Boot` | `app_main()`, both firmware updates, the bootloader's slots, SNTP |
| `Screens` | navigation, the lazily built Settings screens, watchlist editor, Wi-Fi screens |
| `ScreensProofs` | theorems about `Screens` |
| `BootProofs` | theorems about `Boot` |
| `KlineMergeProofs` | theorems about `KlineMerge` and `Charts` |
| `WsTaskProofs` | theorems about `WsTask` |
| `RestFetchProofs` | theorems about `JsonScanner`, the candle grammar of `RestParsers`, and `RestFetch` |
| `SettingsProofs` | theorems about `Settings` |
| `WifiManagerProofs` | theorems about `WifiManager` |
| `<X>MC` | constants for the runs of `<X>` |

### Wi-Fi: state and actions

`policy` is `wifi_policy_t`, field by field. `todo` is what the task is still
executing: the actions the policy emitted and what the handler does after
`feed_policy()`. Taking a command is one step, each entry of `todo` is one
step, and driver, timers, user and reboots move between any two. `emit()` drops what does
not fit in four actions; so does `Fitting`. `execute_connect()` feeds a
refused request back into the policy at once; what that emits is put before the rest of
`todo`. `remaining_in_cycle`, `current_attempt` and the failure counter are
`uint8_t`: they wrap or saturate as in the code, at `UInt8Max`.

`link` and `leaving` are the station's association and the associations the program gave
up whose `STA_DISCONNECTED` has not been delivered; the driver reports in order, so
nothing new is reported while `leaving > 0`. `cmdQueue`, `connectTimer`, `retryTimer`
and `pending` have their names from the code. `db` is the profile database in memory
and in flash in one: the store is available and saving works.

A division by `profile_count = 0` in `on_profile_exhausted()` is the entry `Fault`, which
nothing executes: the task is stuck there until a restart. A failure that is counted while there is no
profile is counted in the leftover first entry, whose counter is unknown to the
model; so both outcomes, retry and fault, are possible there.

Left out: scanning, the snapshot for the UI, the queue of events to
the UI and the sync task, delays (a timer that runs may fire), the difference
between `FAIL_AP_NOT_FOUND` and `FAIL_OTHER` (the code has none).

`Prompt = TRUE` says that the task drains its queue and the driver tells what it gave up
within milliseconds, while the timers count seconds and the user is slower
than both: timers and user then move only when nothing is in hand. A join takes as long as it takes, so
the connect timer may run out during it, on time, as it does in the code after 20 s (`wifi_manager.c:539`). `Prompt = FALSE` leaves
every order open.

### Table and sync task: state and actions

`table`, `count` and `heap` are `s_symbols[]`, `s_symbol_count` and the PSRAM
blocks. Entries from `count` on keep what they held, as in the code. Klines are
abstracted to the symbol and the server they were fetched for (`Klines(s, r)`).
Each critical section of `s_lock` is a step; what is done before it (the index
check, `heap_caps_malloc()`) or after it (`heap_caps_free()`) is a step of its
own. `ui` is how far the UI task has come with an edit and the block it holds
meanwhile.

`sync` is the sync task's place in its loop and the locals of
`run_due_fetches()`: `due` and `names` are `due_indices` and `symbol_storage`,
`base` the server read as the batch begins. Results are decided when they are
recorded, by what the server lists (`Listed`), or are a fault of the network. Where the result of an accessor is
ignored and the local it should have filled was never written, any value is possible
(`Garbage` for a ticker, either outcome for a number of strikes). `waiting` is
`s_next_attempt_ms` in the future, `offline` is `s_disconnected_since_ms`.

Left out here: the WebSocket task (next section), the timestamps and `last_error`.

`Watchlist` says what all of this is to look like from outside: a list of entries (symbol, state, what is
shown), edited in single steps. The refinement mapping is `ShownList`, what `app_state_get_symbol_meta()` and
`app_state_get_symbol_klines()` return for each index below the count. An edit is seen when the table
changes under the lock; taking and freeing blocks, saving a server and every step of a batch but the recording of a result are not
seen. The list is honest about the known weakness of stale indices: as soon as symbols are removed or moved (`~Growing`), a fetch may
bring an entry another one's klines (`Fill`), and a result recorded at an entry beyond the count may replace the klines of the live
entry that has that block now (`Overwrite`), but nothing else of it. In a list that only grows neither is allowed.

### WebSocket task: state and actions

`ws` is the task's place and its locals: `names` is `symbol_storage` of
`start_ws_client()`, `n` and `k` the count read and the index reached by one of
its two loops, `tick` the update in hand, `updates` whether the local of that name is not
`NULL`. `events` and `queue` are the two queues, `set` the handles in the queue
set, `hasSet` and `member` what has joined it. A handle stays in the set when its
queue is deleted (`"stale"`); whether the next queue gets the same address is left open. `conn` is
the client: `url` the stream list it was created with, `subs` what the server sends on the present
connection. Each connection, the library's own reconnections too, asks for `url`.
`post` is the event the UI task has still to send after an edit.

`astray` is no variable of the program. It records that the streams may have parted from the list in one of the ways the code
does not mend by itself: an event dropped, a frame not sent, a start that failed, a connection that broke, an entry that moved or
went while the names were copied, a symbol on the list twice of which one was removed. The next start of the client
(`WsStart`) mends all of these; an event queue that had to stay out of the set (`WsBoot`) is for good. `SymbolsStreamed` says
that there is no other way.

Abstractions: the sync task is one step that fills an entry (`RestFills`), a tick merged
marks the block with the tick's symbol and server, memory is not exhausted.
`xQueueSelectFromSet()` takes the oldest handle. FreeRTOS asserts that the set has room
when a member is sent to; `Announce` waits instead. Copying one name is one step, although
the accessor checks the index before it locks: an entry that goes in between yields an
old name, and any name is allowed for an entry that is gone.

### REST client and parsers: state and actions

A body is a sequence of runs (`JsonScanner`): a punctuation mark, a quote, a piece of text. A chunk
may end between any two runs, inside a string, an escape or a number too. `ScannerNext` is
one turn of the loop of `market_data_json_scanner_next()`: the run it reads completes a token or does not; `lex` and `scratch`
are what it keeps between calls. A number or literal is only complete when the run behind it arrives, which the scanner then
leaves unread (`TokenEnds`): such a run does two things, and `FeedRun` is both. Each parser is a record
with the scanner in it; `KlinesStep`, `SymbolStep`, `TickerStep` and `StreamStep` are the `switch` on
its state for one token, `Feed` the loop over a chunk. The tokens of an answer are known to the model
beside its runs, so that the properties can say what an answer means without a scanner or a parser.

`RestFetch` has the call in progress (`call`), the HTTP handle with what has come and is not read
(`conn`), the parser, the results, and beside them, for the properties, what was asked
and what came (`asked`). The requests of a batch follow each other on one handle;
`CloseTransport` is the `esp_http_client_close()` that throws away the rest of an answer. `SaveRegion` is
the user choosing another server during a call.

The grammar is the code's, which is more lenient than JSON: a comma behind the last row is accepted, and
in values that are passed over, brackets of different kinds need not pair. `FieldsAreTheirKeys` and
`UpdatesAreSaid` speak of bodies whose brackets do. `strtod()` would also accept `nan` and `inf`; a
field that holds them is not modelled.

### Ticks: state and actions

`net` is the message being delivered, frame by frame, and `offset` how much of the frame
`handle_data_event()` has been given. `parser.out` is `s_pending_update`; `TickOf` is the numbers the parser makes of its fields.

What follows is `Charts`, so that it can be reasoned about without the parser. `queue`
is `s_update_queue`; the items of `TickStream` also carry the update and what their message said, for the properties only. `held`
is the WebSocket task between `find_index_by_symbol()` and the merge, each of which takes the lock for
itself; `Move` and `Resync` come in between. Of a candle the opening time, high, low and close are kept. `Arrives` lets
any tick come whose price is between its low and its high; `ChartsSpec` as a property of `TickStream` says that
nothing else does, however its messages are cut and damaged, as long as the exchange means no other.

### Settings: state and actions

`flash` has a record per domain, or none; a record is its length, layout, checksum (match or not) and
data. `Save` ends in one of three ways, and a failed commit may or may not have written.
`handler` is the LVGL task inside a handler that makes several calls: `apply_region_change()` saves, then
tells the other tasks; picking a city saves the locale, follows with the server, then sets the time zone. A
restart (`Start`, `Damage`, `PanicOnReset`) may come between any two steps, with the same firmware or another
version. `given`, `accepted`, `pinned` and `lost` are history for the properties: what was ever saved, which
versions were accepted, the last manual choice of a server, and whether flash refused or lost it.
The restart includes what the display reads at start and `wifi_profile_store_init()`; the main task's own
reads (time zone, watchlist, server) are steps that follow while the user may already tap.

Older layouts are read as the code reads them: their length or version does not fit, so the default is used.

### Boot: state and actions

`step` is how far `app_main()` has come; `Order` is its order. `slots` are `ota_0` and `ota_1` with the image and
the bootloader's mark (`new`, `pending`, `valid`, `aborted`, `partial`), `boot` the slot otadata names, `running` the one
executing. `Reset` is everything RAM forgets. The bootloader, the supply, SNTP in lwIP and the releases are
external. A broken image crashes before the display is up; images that crash later, after they
have been confirmed, are beyond what the roll-back can do and are not modelled. A call before the confirmation that fails, or a failing
`app_state_init()`, ends `app_main()` (`"stopped"`): what has been started goes on, nothing restarts, and nothing rolls back until the
power is cut. Every other call of the start may fail too and is passed over, as in the code; `StartClock` then leaves SNTP unarmed. The
Updates screen is used only once the start is complete (`"up"`). `answer` is what the background task has read and not yet recorded, `install` the
installation on the LVGL task. `excused` is history: the power was cut or a confirmation failed, so that even a
good image may have been rolled back.

### Screens: state and actions

`ui` is what the LVGL task keeps about widgets: the view, the sub-screens whose root is not `NULL`, the
children of the watchlist editor with the index each acts on, the drag, the queued rebuild, the rows of the Wi-Fi list, the
finger on it and its menu. `Build`, `Destroy`, `Show` are `ensure_settings_view_built()`,
`destroy_settings_view()` and `show_settings_view()`, as functions of that record; `SetSsid`, `ResetAdd`, `ResetUpdates`, `ShowCities` and `Fill`
what the entry points call before they show a screen, `Enter` both together; `Touch` marks it
`dead` when a callback uses a widget of a screen that is not built. Handlers run one at a time and
each is one step, with every call it makes. LVGL reads the touch panel between handlers and runs
queued calls first (`Idle`); the timer, the manager's events and the console's `nav`
command come at any time. `nets` is the manager's snapshot as the Wi-Fi list shows it, `last` and `fresh` its last
event and whether there was one since the attempt began; the events are any.

`dialog` counts the night mode's time pickers, which the console can open over each other, and `picker` says whether the handles
are still those of the topmost one. `DevTargets` is where the console may jump: nowhere in a release, which is built without it.

Left out: layout, styles, the status bar, the rows of the dashboard, the disclaimer and the target `disclaimer` of the `nav` command (an
LVGL screen of its own that covers all this until it is accepted; asked for again after that, the command loads a screen that was
deleted, `display_ui.c:6263`). What the pickers save is in `Settings`, the installation in `Boot`, the table under other
tasks in `SymbolTable`.

## 3. Runs

| Run | Instance | Shows |
|---|---|---|
| `wifi_lossy` | a queue of 2 that drops, refused connects, late timers, forget, pause, resume, connect to saved | types (`TypeOK`), `PolicyMirrorsDb`, `BlockedIsNotTried`, `RestsUntilAsked`, `OnlyLossMisleads` |
| `wifi_fair` | no or 2 profiles, connects of both kinds, disconnect and new passwords, nothing lost, joins that outlast their timers, fairness | `CursorIsOnCurrent`, `NeverStuck`, `ConnectedIsUp`; liveness: `OnlineOrReady`, `ManualAttemptEnds` |
| `sync_edits` | 2 symbols, 3 blocks, 3 edits of any kind between any two steps, Wi-Fi gaps | `BlocksOwned`, `NullIsNotWritten`; refinement: `ImplementsWatchlist` |
| `sync_served` | additions and changes of server (3 edits), fairness | `RegionDataFresh`, `ErrorIsFinal`; liveness: `NoSymbolForgotten` |
| `sync_moves` | 2 symbols, 1 move | violation of `DataIsOwn` |
| `ws_follow` | 2 edits of any kind at any moment, duplicates and edits while names are copied included, an event queue of 1 that drops, failing starts, frames and connections, fairness | `NoLostWakeup`, `SymbolsStreamed`, `QueueOutlivesClient`; liveness: `EventsHandled` |
| `rest_bodies` | all four calls; answers that lose, change or nest any one token, error bodies, chunks of 1, 3 or all runs, requests and reads that fail, error bodies too, batches of 2, a change of server | `RowsAreWhole` (and that they fit), `FieldsAreTheirKeys`, `ResultsAreTheirOwn` |
| `ticks` | a message that loses or changes any token or comes in two frames, then good ones; late snapshots, a move, a queue of 2, 3 candles | `UpdatesAreSaid`, `TicksArrive`, `CandlesInOrder`, `ClosedCandlesStay`; refinement: `ChartsSpec` |
| `settings` | 3 edits of any record, 1 fault, 1 restart at any step, 2 firmware versions, flash blank or of an older layout | `LoadedWasSaved`, `PinnedStays`, `StreamsFromChosenServer`, `DisclaimerSeen`, `NightIsDark` |
| `boot` | 3 images, one broken, 2 faults or power cuts, 2 releases; no co-processor image, an unreadable one, one that is named properly and one that is not; fairness | `AlwaysRecoverable`, `GoodImageIsKept`; liveness: `ComesUp`, `ClockIsKnown` |
| `screens` | 2 symbols, a watchlist of 2, room for 1 or all rows, 1 network, console jumps to 4 targets (the others are a tap away), up to 2 time pickers over each other, fairness of the timer | `WidgetsAreThoseShown`, `RowsActOnTheirSymbol`; liveness: `KeyboardComesBack` |
| `screens_empty` | 1 symbol, 1 network, a release without console | violation of `ManageIsFilled` |

A run states what holds under its own assumptions; the assumptions are the point:

* `ConnectedIsUp` needs "nothing dropped": a policy that never hears that its association has ended stays CONNECTED. `OnlyLossMisleads`,
  in `wifi_lossy`, says that this is the only way there; neither needs timers to be on time, as the proofs show (`ConnectedIsUp` is
  run with timers on time, and proved without).
* `NeverStuck` and `CursorIsOnCurrent` need "no FORGET" and "nothing dropped".
* `OnlineOrReady` promises nothing where a join outlasts its timer again and again: the report of each timeout's own disconnection is
  counted against the next attempt, and the device may try for ever although a network would answer. Nor does it where every
  profile is blocked or has a password that is no longer right. By "online" it means that the association is up, which is less than that the manager
  says CONNECTED (section 4).
* `RegionDataFresh` and `ErrorIsFinal` need `Edits = {"Add", "Region"}`: a result recorded at a stale index may revive or replace another
  symbol's. In `sync_served` `RegionDataFresh` also needs `AtomicTake`, i.e. that the task is not preempted between reading
  `s_force_resync_all` and clearing it in the next statement (`app_state_sync_task.c:118`); section 4 says what happens if it is.
* `NoSymbolForgotten` needs `Reconnects = FALSE`: with a link that goes up and down
  for ever, a resync may be forced for ever and the state changes for ever. The other
  properties of that run are therefore checked without reconnections; memory and
  blocks (`sync_edits`) with them.
* `WidgetsAreThoseShown` exempts the close of a time picker where there is a console, as in `screens`. In a release, without one, it
  exempts nothing; the theorem of section 5 covers both.
* `ComesUp` needs finitely many power cuts and failures, and a co-processor image that reports the version its descriptor names. A core call
  that fails is the other end it admits: the device stands still then (`app_main()` returns). `ClockIsKnown` says what it needs: that the link
  comes back as long as the clock is unknown.

**Bounds.** Two networks give a profile that works and one that does not, an
order between them and a switch from one to the other. `MaxAttempts = 2` gives a retry on the same
profile and a last attempt; `AuthBlockThreshold = 1` blocks at the first
rejection. `UInt8Max = 7` is above every counter that does not wrap and
small enough to see one that does. `LeavingMax` bounds the reports outstanding at one
time; the program waits for one before it asks again, except after a timeout. `UserQueueLen = 1` lets a user
command enter an empty queue only; reports may queue up behind it and be read after what it did. Two symbols and three blocks give a table that is full, empty
and in between, an entry to shift and a block to spare for an addition that
loses its place; that a move of longer reach is the permutation it should be is
proved (`MovedFacts`). Three edits are the longest chain one batch can meet with
distinct effects: add, move, remove; or two changes of server and an addition. Strikes are bounded
by `MaxStrikes = 2` because all larger numbers act alike. The blocks are
symmetric (nothing compares them, and the list does not show them); `BlockSymmetry` is used in
`sync_edits` only, which has no liveness. The WebSocket run has queues of 1 (32 ticks and 8 events in the code): an event
queue of 1 is full when the second edit comes, and one tick in the queue is enough to make
`xQueueRemoveFromSet()` fail and leave a handle behind. Two edits give every pair of kinds,
each at any step of the restart that the other causes.

The parsers have a stack of at most one level plus a counter of nesting, so bodies with one row, one symbol and
one tick, damaged in one place, reach all of their states; up to three rows against a room of two reach the limit. A
chunk of one run cuts everywhere, one of three straddles tokens, one of 50 has most of a body. Three candles
of two time units give a full array, a shift and a late tick; `MaxTime = 4` lets a tick be two candles late.
One restart suffices for the records because a restart depends on flash and nothing else, and a second one would begin in a
state the first can end in; one fault in three edits lets the edits before and after it succeed. A
day of three minutes has an empty window, one inside the day and one across midnight. Two faults and two releases let a power
cut meet the roll-back of a broken release after another. Two rows in the editor give a drag across another row, and a row that goes while the other is held.
`Timeout = 0` lets the attempt on the password screen time out at any moment.

**Fairness.** Weak fairness of the tasks' own steps: FreeRTOS schedules a ready task of the highest
priority, and no task of the program spins. Weak fairness of armed timers: the timer service
runs them, as LVGL runs its own (`Timer`). Weak fairness of the driver's reports: an attempt ends, one way or the
other. Strong fairness of `DriverGotIp`, of `SyncFetch` and of a proper result at each
position of a batch, and of `SntpInTime`, stands for the assumption about the world:
a network that is in reach and tried again and again is joined some day, a server that is asked again
and again answers some day. The WebSocket
run assumes only that the WebSocket and the UI task go on; nothing is assumed of connections.
Nothing makes the user act.

**Deadlock** is checked for Wi-Fi and the screens. The others say `CHECK_DEADLOCK FALSE`: a start that has stopped stands still;
with an empty watchlist and no edit left the sync task sleeps, rightly, and its two-second
wait is not a step of the model; a WebSocket task without queue set and client ends; and the call, message and edit
budgets of `rest_bodies`, `ticks` and `settings` run out.

## 4. Findings and known weaknesses

Each of these runs shows something a comment or a document says and the code does not do:

| Run | What happens | Where |
|---|---|---|
| `sync_moves` | Two symbols change places while their batch is in flight: results are recorded at the old indices, and each shows the other's candles | `app_state_sync_task.c:163` |
| `screens_empty` | *Back* from "Add symbol" shows the Manage screen with `show_settings_view()` alone; it was deleted when "Add symbol" was entered and is built anew, empty. Settings must be left and Manage entered again | `display_ui.c:3833` |

The following known weaknesses have a property that states what should hold, and no run of their own. The last column names the
configuration, what to change in it, and the property to check: TLC finds it violated, and the trace is the behaviour described.

| What | Where | To reproduce |
|---|---|---|
| A join outlasts its 20 s. The timeout disconnects but does not set `teardown_pending`; the report of that disconnection is counted as a second failure of the attempt | `wifi_manager.c:868` | `wifi_fair.cfg` with `OwnDisconnectIsNoFailure` |
| A connect the user asks for during a backoff leaves the retry pending. The retry pre-empts the user's join, whose failure is then counted against, and may block, the network the retry is for | `wifi_policy.c:377` | `wifi_fair.cfg` with `OnlyWrongIsBlocked` |
| After a failure counted twice the manager may rest while the last association still comes up: `GOT_IP` is ignored, the device is online and the manager does not say so | `wifi_policy.c:262` | `wifi_fair.cfg` with `OnlineOrReady`, in which `policy.state = "Connected"` replaces `link.phase = "Up"` |
| FORGET of one profile while another waits out its backoff clears the pending retry: CONNECTING for ever | `wifi_manager.c:406` | `wifi_fair.cfg` with `UserCommands <- Forgetting`: `NeverStuck` |
| A cycle whose remaining profiles are all blocked reports ALL_PROFILES_BLOCKED and stops although an earlier one is usable | `wifi_policy.c:201` | `wifi_fair.cfg` with `Ssids <- ThreeNets`, `MaxProfiles = 3`, `InitialDbs <- Three`, `UserCommands <- NoCommand`: `AllBlockedIsTrue` |
| A `GOT_IP` queued behind CONNECT_NEW is credited to the new network, which is saved although never joined | `wifi_manager.c:846` | `wifi_fair.cfg` with `SuccessIsCredited` |
| A resync is forced between the reading of `s_force_resync_all` and its clearing: it is lost, and candles of the old server stay | `app_state_sync_task.c:118` | `sync_served.cfg` with `AtomicTake = FALSE`: `RegionDataFresh` |
| A SUBSCRIBE sent while the client is connecting fails and is not repeated | `market_data_ws_client.c:43` | `ws_follow.cfg` with `Edits <- Additions`, `InitialLists <- One`, `EarlyEdits = FALSE`, `Faults = FALSE`: `ListIsStreamed` |
| Two symbols change places while their names are copied for the URL: one is named twice, the other gets no stream | `app_state_ws_task.c:71` | the same with `Edits <- Reordering`, `InitialLists <- Two` |
| An edit made before Wi-Fi is up for the first time keeps the event queue out of the queue set: neither it nor a later one reaches the task | `app_state_ws_task.c:125` | `ws_follow.cfg` with `Edits <- Additions`, `InitialLists <- One`, `Faults = FALSE`: `EditsTakeEffect` |
| The result of reading an error's body is ignored; what the buffer holds from before may be taken for "-1121", and the symbol for unknown | `market_data_client.c:315` | `rest_bodies.cfg` with `Kinds <- BatchOnly`: `UnknownWasSaid` |
| A co-processor image whose descriptor is not exactly the version it reports is pushed, and the host restarted, at every boot | `wifi_manager_slave_ota.c:136` | `boot.cfg` with `MaxFaults = 0`, `MaxNews = 0`: `SlaveNeverBlocks` |
| A console jump under an open time picker: the tap that closes it writes to labels that were deleted | `display_ui.c:5701`, `6317` | `screens.cfg` with `NavIsAsATap` |

Smaller ones, in the model as steps but without a property: *Exit* from the password screen leaves `s_wifi_connecting` set
and autoconnect paused (`display_ui.c:1104`); the password poll looks at the last event only, whatever its SSID; a late SNTP
answer sets the clock but not `synced` (`time_sync.c:43`); the background check and the Updates screen may record answers out
of order; a change of server before `app_state_init()` takes a mutex that does not exist (`display_ui.c:5545`); a
good new image whose power is cut before it is confirmed is rolled back.

## 5. Proofs

`SyncTaskProofs` proves for every number of symbols, blocks, servers, strikes
and edits, from the assumptions named in `SymbolTable` and `SyncTask`:

* `TypeCorrect`: `SyncSpec => []SyncTypeOK`
* `NullNeverWritten`: `SyncSpec => []NullIsNotWritten`
* `BlocksAlwaysOwned`: `SyncSpec => []BlocksOwned`
* `LocalArraysSuffice`: the local arrays of `run_due_fetches()` are never overrun

None is inductive by itself. `SyncTypeOK` needs to know that an index taken
from `due` exists and that an entry about to be rewritten was ever written;
`BlocksOwned` needs to know when the UI task holds a block. `IInv` adds:

* `UiHolds`: the UI task holds a block exactly in the two steps between allocating or
  detaching it and placing or freeing it;
* `LocalsOK`: how `k`, `n` and the lengths of `due` and `names` relate at each
  step of the loop; in particular no more indices are collected than were looked at;
* `EntryWritten`: at the two steps that rewrite an entry under the lock, the
  entry once was live. It may no longer be. The argument is
  that entries never go back to "never used": `ShiftedDown` leaves the last
  one as it is. This is what `NullIsNotWritten` rests on, and its mutant
  (`ShiftedAndCleared`) is the tidy version of the code that would break it.

There is one lemma per group of actions with the same effect on the invariant (`TableStays` for the
steps that leave the table alone, `SyncStays` for the edits of the UI), and
`MoveUndone` for the permutation a move is.

Its second part proves, from the same assumptions and on top of `IInv`:

* `TableImplementsList`: `SyncSpec => ImplementsWatchlist`
* `GrowingErrorIsFinal`: `OnlyGrows => (SyncSpec => ErrorIsFinal)`

`ListInv` is what they need: an entry that shows klines has a block with some (`FilledHasData`); and, while nothing is removed
or moved, the indices a batch has collected increase, are below the count, belong to the names copied for them and, as far as their
results are still to be recorded, to symbols not given up (`DueKept`). The indices
must increase because of two results for one index the second could revive a symbol the first gave up. `BlocksOwned` is what keeps a result in one place:
a write through a stale index reaches the one live entry with that block. For each action one lemma says what it does
to the table (`SuccessFacts` to `MoveFacts`) and one which step of the list that is (`SuccessShown` to
`MoveShown`); `RemoveAtFacts`, `InsertAtFacts` and `MovedFacts` connect the shifts of the array with the list's operators.

Nothing is proved of `DataIsOwn` and `RegionDataFresh`: moves refute the one, the two steps in which the flag is taken the other (section 4).

`ScreensProofs` proves for every set of symbols and networks, every size of the watchlist, every amount of
room, every set of console jumps (none in a release) and any number of time pickers, from `ScreensAssumption`:

* `TypeCorrect`: `Spec => []ScreensTypeOK`
* `WidgetsAlwaysThoseShown`: `Spec => []WidgetsAreThoseShown`
* `RowsAlwaysActOnTheirSymbol`: `Spec => []RowsActOnTheirSymbol`

Neither property is inductive. `UiOK` adds what ties the rest of the widgets to the view: a finger or a menu
only on the Wi-Fi screen, rows, a drag or a queued rebuild only in the editor (`Kept`); rows are the first children,
so that a drag, which stops at the last index of the table, never carries a row behind the notice or the pill (`RowsFit`);
the row that is dragged is still among the children (`RowHeld`); no drag while a rebuild is queued. `Covered`
says that without a console the one time picker there is lies over its own screen and has its handles (`OverDisplay`), and that nothing of
Settings is left behind the dashboard. With a console the first does not hold (section 4); the theorem then says that
nothing but the close of a picker uses what is gone. `Calm` describes a screen just entered; `ShowFacts`, `EnterCalm` and `ListCalm` establish
it for the three ways of changing the view, so that each navigation action is one citation. `MovedToFacts` and
`WithoutFacts` say what moving and removing do to a sequence, `ListingFacts` what the rows are built from. There is
one lemma per group of actions. Neither theorem depends on fairness; `KeyboardComesBack` stays with TLC.

`BootProofs` proves for every set of releases and every number of faults, power cuts and
installations, from `BootAssumption`:

* `RecoverableForEver`: `Spec => []AlwaysRecoverable`
* `GoodImageAlwaysKept`: `Spec => []GoodImageIsKept`

That a working image is left is inductive only together with where the trial stands: while the
slot that otadata names is new or on trial the other one works (`BootSlot`), which `BeginInstall` keeps because the
running image must be confirmed before the other slot is opened (`Installing`); what executes past the display
works and, past its confirmation, is confirmed (`Executing`), unless the start has stopped, so that a restart that ends a
co-processor update does not roll back; and an image on trial that has stopped was broken (`TrialFailed`). The order of
`app_main()` enters through `AfterFacts` alone.

`KlineMergeProofs` proves, for every capacity, interval, watchlist and length of the queue, from `ChartsAssumption` (the candles
of a REST answer are in order, which is the exchange's doing: no code sorts them):

* `MergeKeepsOrder`: `Merged` takes candles that are `InOrder` and a drawable tick to candles that are `InOrder`
* `ChartsAlwaysInOrder`: `ChartsSpec => []CandlesInOrder`
* `ClosedAlwaysStay`: `ChartsSpec => ClosedCandlesStay`

`ChartsInv` adds that every tick that waits or is held is drawable and that the row a held tick is meant for still
exists, whatever row has moved there. That `TickStream` implements `ChartsSpec` is checked by TLC, in `ticks`, where both
properties are checked too.

`RestFetchProofs` proves, for every set of symbols and servers, every room for candles, every size of a chunk and every
length of an answer, from `RestAssumption` and `ScratchAssumption`:

* `CandlesAreWhole`: `AnswersReadable => (RestSpec => []RowsAreWhole)`
* `BatchIsItsOwn`: `AnswersReadable => (RestSpec => []ResultsAreTheirOwn)`

`AnswersReadable` says of the answers a server may give that the body of candles is a list of tokens that can be told apart (strings
and numbers of one run, marks, literals, a character that starts no token; no two numbers and no two literals side by side, because
`7` and `7` are spelled like `77`) and that an error body is its code. Nothing is said of the order of the tokens: the body may be
anything else than an array of rows. No read is assumed to succeed, that of an error's body neither: `ResultsAreTheirOwn` asks of a symbol
called unknown that the server answered 400 and, if the body was read, said so; more would be `UnknownWasSaid`, which does not hold (section 4).

The argument has three layers. Of the scanner: where it is between two runs of a body (`Reading`), and which
token it gives back with a run (`RunScanned`); a run that ends a number is looked at twice. Of the grammar: how much of the
body is the beginning of an array of rows that is still open (`Opens`), where in it the parser stands and what it has written
(`RowsSoFar`); a token that goes on with the array is accepted (`OpensMore` and the `Step...` lemmas), any other proves that no row array of at most
`Capacity` rows is spelled here (`Refuses...`, `NoRows`). Of both: what holds after each run (`Consumed`), so that the cuts between the chunks do not
matter (`ChunkConsumed`). The prover cannot instantiate the library's induction theorems, so induction over a body is done with
`LeastNumber`: of the runs behind which a statement fails there would be a first one.
`RestInv` is the inductive invariant of the client. It says of each result recorded what the properties say, of a request in
progress that its answer is the last one in `asked`, and of a body of candles that what is unread is the rest of the spelling and
the parser has consumed the beginning (`CandlesRead`). An old answer left on the connection would break it, which is where
`CloseTransport` enters. Of the parsers of the other two calls only their shape is needed (`ObjectParser`).

`WsTaskProofs` proves `NoWakeupEverLost`: `WsSpec => []NoLostWakeup`, for every watchlist, any number of edits and queues
of any length, from `WsAssumption` and `TableAssumption`. Counting handles is what the argument needs: `CountAppend` and
`CountRemove` say what sending to the set and taking from it does to the number of times a handle is in it, `CountRenamed` what the
deletion of a queue does. `NoLostWakeup` compares numbers only where the task waits; `IInv` says at every step of a start, a
failed start and a stop whether the queue of ticks belongs to the set (`NoClientYet`, `ClientJoined`), and that while it does each
tick has its handle (`TicksCounted`, an inequality, because handles of deleted queues may be taken for those of the next).
`EventsCounted` is an equality and rests on `Booting`: nothing is in the set when the event queue joins it.

* `SymbolsAlwaysStreamed`: `WsSpec => []SymbolsStreamed`

No edit, moment or list is excluded. `SymbolsStreamed` speaks of the task at rest with nothing to be told; `FollowInv` speaks of every step
of a start and a stop. As long as the streams have not gone `astray`, each symbol listed is streamed, is about to be
because the URL being made has it, or its addition is still to be handled (`Followed`); and each removal of a listed
symbol that still waits is followed by its addition, so that removing and adding again ends with a stream (`Settled`). The names
copied so far are those of the first entries (`Naming`). `WsStart` forgives what went wrong before, which is sound because the task then reads
the whole list, and only once no older event is left to undo it.

`SettingsProofs` proves for every set of records, cities and versions, every number of edits, failed writes and restarts,
from `SettingsAssumption` (flash keeps at most one record of a domain, as NVS does; the default of the acknowledged
version is the empty string, `settings_codec.c:227`; no firmware has an empty version):

* `LoadsAlwaysSaved`: `Spec => []LoadedWasSaved`
* `PinnedAlwaysStays`: `Spec => []PinnedStays`
* `StreamsAlwaysFromChosenServer`: `Spec => []StreamsFromChosenServer`
* `DisclaimerAlwaysSeen`: `Spec => []DisclaimerSeen`

`LoadedWasSaved` speaks of what a load yields now; `FlashGiven` speaks of the records themselves, damaged ones included, because
a start may read any of them. `CopiesGiven` carries it to the copies in memory that the handlers save again. `ServerFollows`
accounts for the WebSocket task being behind: there is a notice for it, or the handler is about to give one. `AckAccepted`
says that the acknowledged version in flash was accepted, which is what a later start compares with.

* `NightIsAlwaysDark`: `Spec => []NightIsDark`, from `DisplayAssumption` too (the default display record is valid,
  `settings_codec.c:99`; records in flash have their fields, though any values)

`NightIsDark` compares the test the code makes of a minute (`MinuteInWindow`, two comparisons and an "or" across midnight) with walking from
the start of the window minute by minute (`NightCovers`). They agree
for start and end inside the day (`WindowIsCovered`); `DisplayOK` says that the settings in memory and every record in flash
that a load would accept are. The range check of the codec is what this rests on.

`WifiManagerProofs` proves, for every set of networks, every length of the queue and every limit of the policy, with lost, late
and stale reports, from the assumptions of `WifiPolicy` and `WifiManager`:

* `TypeCorrect`: `WifiSpec => []TypeOK`
* `AlwaysMirrorsDb`: `WifiSpec => []PolicyMirrorsDb`
* `BlockedIsNeverTried`: `WifiSpec => []BlockedIsNotTried`
* `AlwaysRestsUntilAsked`: `WifiSpec => RestsUntilAsked`
* `CursorStaysOnCurrent`: with no FORGET among the commands, `WifiSpec => []CursorIsOnCurrent`
* `NeverGetsStuck`: with no FORGET and nothing dropped, `WifiSpec => []NeverStuck`
* `OnlyLossEverMisleads`: `WifiSpec => OnlyLossMisleads`
* `ConnectedIsAlwaysUp`: with nothing dropped, `WifiSpec => []ConnectedIsUp`

One of the assumptions is `MaxActions >= 4` (4 in the code, `wifi_policy.h:20`). With it `emit()` never drops an action;
the lemmas show of each input that it emits at most four.

First there is one lemma per input of the policy (`...Facts`): which actions it emits and how the policy afterwards
relates to the one before (`Fed`). Then one per edit of the database: what `AutoconnectOrder` makes of it and what the policy's
copy becomes (`Mirrors`). `IInv` ties the policy, what is left to execute and the database together (`Coherent`):

* the policy's profiles are the database's records in their order, but for a change of one blocked flag, which is then
  the first thing left to execute; nothing comes before it, and what comes after does not edit;
* the profile tried by itself, or connected to, is not blocked; success is credited to the one connected;
* `CMD_STARTED` is sent once, at boot, before anything else (`StartedFirst`), and until it is handled the policy is IDLE.
  `RestsUntilAsked` needs this, because `IN_START` ends a rest too.

The other four need more. `Steady` says that the cursor and the count of profiles left are those of the cycle going
on (`OnCourse`). FORGET breaks it: it loads the profiles anew in the middle of a cycle, and the cursor starts at 0.
`MovesOn` says that while the policy is CONNECTING an answer is on its way: a request or a timer is yet to be executed
(`Ahead`), or a timer runs, a report is outstanding or a command is queued (`Waits`). A dropped command breaks it.
Both hypotheses are needed: section 4 has the behaviour FORGET allows.

`ConnectedIsUp` speaks of quiet moments only. What carries it there is `SuccessIsTrue`: the success the policy is in, and every one still
in the queue, is of an association that is up, or whose end is reported behind it, or is about to be (`EndIsTold`). It holds with timers on
time or late, connects refused and every command: a success is believed only behind its own report, and a disconnection is only ever
told, never untold. The one place where the policy could pass over the end of its association is `teardown_pending`, and that is
over whenever it is CONNECTED (`TeardownIsOver`). The one step that breaks `SuccessIsTrue` is a report that finds
the queue full; `OnlyLossMisleads` says exactly that, and with `MayDrop = FALSE` it does not happen.

TLC checks every property of section 3. Beyond the prover, and left to TLC: liveness and `ENABLED`. Not proved,
and checked by TLC: what is said of the grammars of objects (`FieldsAreTheirKeys` of `rest_bodies`, `UpdatesAreSaid` of `ticks`), which would
need the depth of every bracket of a value that is passed over; and they tell a member by its key and its depth alone, so at depth 3 they hold
of the messages of the runs, where nothing but `k` (or the first symbol) has members that deep under those names, and not of every message
there could be. That `TickStream` implements `ChartsSpec` rests on `UpdatesAreSaid` and stays with TLC for the same reason. Proved and in no run: the type invariants `SyncTypeOK` and `ScreensTypeOK`, and the bounds of the local arrays.

## 6. Plan

What is left, in this order:

1. The abstract set of streams that `WsTask` implements where nothing fails, and a type invariant of `WsTask`.
2. The Wi-Fi event queue (16) between adapter and sync task; a dropped DISCONNECTED.
3. `RetryPolicy`: backoff, reason classes and scan order as operators.

## 7. Not modelled

Layout, styles, the dashboard's rows and the status bar of `main/display_ui.c`: pure output, most of that file's lines. The
board's bus set-up, number formatting, start-up diagnostics, the console's commands other than `nav`: pure I/O or
formatting. The construction of URLs and frames: bounded formatting. The parsing of GitHub's answer. The scan of the
Wi-Fi manager and the start of its link. The crypto and TLS below the HTTP and WebSocket libraries, NVS, lwIP and
LVGL are external.
