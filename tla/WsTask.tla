------------------------------- MODULE WsTask -------------------------------
(***************************************************************************)
(* The task that keeps the last candle of every symbol live,               *)
(* app_state_ws_task.c, with the client it drives, market_data_ws_client.c,*)
(* next to the UI task of SymbolTable.  It waits on a FreeRTOS queue set   *)
(* for one of two queues: the ticks the WebSocket library delivers, and    *)
(* the changes of the watchlist, which it turns into SUBSCRIBE and         *)
(* UNSUBSCRIBE frames or into a new connection.                            *)
(*                                                                         *)
(* A queue set is a queue of handles: sending to a member queue appends    *)
(* the member's handle, and the task reads the member it takes from the    *)
(* set.  A queue joins a set, or leaves it, only while it is empty.        *)
(*                                                                         *)
(* Abstractions: a tick is its symbol and the server it came from, and     *)
(* merging it marks the klines with both; the sync task is one step that   *)
(* fills an entry (SyncTask has the detail); memory is not exhausted.      *)
(***************************************************************************)
EXTENDS SymbolTable, SequencesExt

CONSTANTS
    NoQueue,    \* s_update_queue = NULL
    UpdateLen,  \* MARKET_DATA_WS_UPDATE_QUEUE_LEN
    EventLen,   \* APP_STATE_WATCHLIST_EVENT_QUEUE_LEN
    EarlyEdits, \* the user edits before Wi-Fi is connected for the first time
    Faults      \* the connection breaks, a start or a frame fails

ASSUME WsAssumption ==
    /\ UpdateLen \in Nat \ {0}
    /\ EventLen \in Nat \ {0}
    /\ {EarlyEdits, Faults} \subseteq BOOLEAN

VARIABLES
    ws,         \* where the task is, and its local variables
    events,     \* s_watchlist_event_queue
    post,       \* the event the UI task has still to send
    set,        \* queue_set: handles
    hasSet,     \* queue_set # NULL
    member,     \* the update queue has joined the set
    queue,      \* s_update_queue, or NoQueue
    conn,       \* s_client, and what the library and the server make of it
    astray      \* history: the streams may have parted from the list

clientVars == <<queue, conn>>
setVars    == <<set, hasSet, member>>
wsVars     == <<tableVars, ws, events, post, setVars, clientVars, astray>>

Kinds   == {"Added", "Removed", "Region"}
Event   == [kind : Kinds, symbol : Names]
Nothing == [kind |-> "None", symbol |-> Garbage]
Tick    == [symbol : Names, from : Regions]
NoTick  == [symbol |-> Garbage, from |-> Garbage]
Handles == {"events", "updates", "stale"}

WsSteps == {"Boot", "Start", "Name", "Create", "Connect", "Select", "Find", "Apply",
            "ApplyLocked", "Unjoin", "StopClient", "DeleteQueue", "Gone"}

\* xQueueCreateSet(MARKET_DATA_WS_UPDATE_QUEUE_LEN + APP_STATE_WATCHLIST_EVENT_QUEUE_LEN)
SetLen == UpdateLen + EventLen

WsTypeOK ==
    /\ TableTypeOK
    /\ ws \in [step : WsSteps, n : 0 .. MaxSymbols, k : 0 .. MaxSymbols, names : Seq(Names),
               tick : Tick \cup {NoTick}, updates : BOOLEAN]
    /\ events \in Seq(Event) /\ Len(events) =< EventLen
    /\ post \in Event \cup {Nothing}
    /\ set \in Seq(Handles) /\ Len(set) =< SetLen
    /\ hasSet \in BOOLEAN
    /\ member \in BOOLEAN
    /\ queue = NoQueue \/ (queue \in Seq(Tick) /\ Len(queue) =< UpdateLen)
    /\ conn \in [run : BOOLEAN, up : BOOLEAN, host : Regions, url : SUBSET Names,
                 subs : SUBSET Names]
    /\ astray \in BOOLEAN

NoClient == [run |-> FALSE, up |-> FALSE, host |-> region, url |-> {}, subs |-> {}]

WsInit ==
    /\ TableInit
    /\ ws = [step |-> "Boot", n |-> 0, k |-> 0, names |-> <<>>, tick |-> NoTick,
             updates |-> FALSE]
    /\ events = <<>>
    /\ post = Nothing
    /\ set = <<>>
    /\ hasSet = FALSE
    /\ member = FALSE
    /\ queue = NoQueue
    /\ conn = NoClient
    /\ astray = FALSE

-----------------------------------------------------------------------------
(* The UI task: edits as in SymbolTable, each followed by an event.        *)

unchangedTask == <<ws, events, setVars, clientVars>>

Tickers == {table[i].symbol : i \in Live}

MayEdit ==
    /\ post = Nothing
    /\ EarlyEdits \/ ws.step # "Boot"

\* An addition and a change of server are announced when they are complete.
UiEdit ==
    /\ MayEdit
    /\ UiAddAllocate \/ UiSaveRegion
    /\ UNCHANGED <<post, astray, unchangedTask>>

\* A move is not announced.  It makes the task miss a symbol whose name it is
\* copying.
UiMove ==
    /\ MayEdit
    /\ UiMoveLocked
    /\ astray' = (astray \/ ws.step = "Name")
    /\ UNCHANGED <<post, unchangedTask>>

\* So does a removal; and that of a symbol that is on the list twice ends the
\* stream of both.
UiRemove ==
    /\ MayEdit
    /\ UiRemoveLocked
    /\ \E i \in Live :
          /\ table' = ShiftedDown(i)
          /\ post' = [kind |-> "Removed", symbol |-> table[i].symbol]
          /\ astray' = (astray \/ ws.step = "Name" \/ table[i].symbol \in Tickers')
    /\ UNCHANGED unchangedTask

UiAdded ==
    /\ UiAddLocked
    /\ post' = IF count' = count + 1 THEN [kind |-> "Added", symbol |-> ui.symbol] ELSE post
    /\ UNCHANGED <<astray, unchangedTask>>

UiRegionChanged ==
    /\ UiForceResync
    /\ post' = [kind |-> "Region", symbol |-> Garbage]
    /\ UNCHANGED <<astray, unchangedTask>>

UiGoesOn ==
    /\ UiFreeBlock \/ UiResetSymbols
    /\ UNCHANGED <<post, astray, unchangedTask>>

\* A queue that is a member of the set announces what is sent to it.  FreeRTOS
\* asserts that the set has room; what happens otherwise is not followed.
Announce(handle, isMember) ==
    IF isMember THEN Len(set) < SetLen /\ set' = Append(set, handle)
                ELSE UNCHANGED set

\* push_watchlist_event(): an event that finds the queue full is lost.
UiPushEvent ==
    /\ post # Nothing
    /\ ui = UiIdle
    /\ \/ /\ Len(events) < EventLen
          /\ events' = Append(events, post)
          /\ Announce("events", hasSet)
          /\ UNCHANGED astray
       \/ /\ Len(events) >= EventLen
          /\ astray' = TRUE
          /\ UNCHANGED <<events, set>>
    /\ post' = Nothing
    /\ UNCHANGED <<tableVars, ws, hasSet, member, clientVars>>

-----------------------------------------------------------------------------
(* The sync task: klines of an entry that has none.                        *)

RestFills ==
    /\ \E i \in Live :
          /\ ~table[i].filled
          /\ table' = [table EXCEPT ![i].filled = TRUE, ![i].state = "Synced"]
          /\ heap' = [heap EXCEPT ![table[i].block] = Klines(table[i].symbol, region)]
    /\ UNCHANGED <<count, region, force, ui, edits, post, astray, unchangedTask>>

-----------------------------------------------------------------------------
(* The library's task and the server: external.                            *)

unchangedByLibrary == <<tableVars, ws, events, post, hasSet, member>>

\* Every connection, the first and each later one, asks for the streams that
\* are in the URL.
LibConnects ==
    /\ conn.run
    /\ ~conn.up
    /\ conn' = [conn EXCEPT !.up = TRUE, !.subs = conn.url]
    /\ UNCHANGED <<unchangedByLibrary, set, queue, astray>>

LibDisconnects ==
    /\ Faults
    /\ conn.up
    /\ conn' = [conn EXCEPT !.up = FALSE, !.subs = {}]
    /\ astray' = TRUE
    /\ UNCHANGED <<unchangedByLibrary, set, queue>>

\* handle_data_event(): a tick that finds the queue full is dropped.
LibTick ==
    /\ conn.up
    /\ queue # NoQueue
    /\ Len(queue) < UpdateLen
    /\ \E s \in conn.subs : queue' = Append(queue, [symbol |-> s, from |-> conn.host])
    /\ Announce("updates", member)
    /\ UNCHANGED <<unchangedByLibrary, hasSet, conn, astray>>

-----------------------------------------------------------------------------
(* start_ws_client().                                                      *)

Goto(step) == ws' = [ws EXCEPT !.step = step]

unchangedByTask == <<tableVars, post>>

\* Back in the loop.  Without a queue set and without a client there is
\* nothing to wait for, and the task ends.
Loop(updates) ==
    ws' = [step |-> IF hasSet \/ updates THEN "Select" ELSE "Gone", n |-> 0, k |-> 0,
           names |-> <<>>, tick |-> NoTick, updates |-> updates]

\* Wi-Fi is connected.  The event queue joins the set if it is empty.
WsBoot ==
    /\ ws.step = "Boot"
    /\ hasSet' = (events = <<>>)
    /\ astray' = (astray \/ events # <<>>)
    /\ Goto("Start")
    /\ UNCHANGED <<unchangedByTask, events, set, member, clientVars>>

\* The client is started for the list as it is; what went wrong with an earlier
\* one is over, unless an event of then is still to come.
WsStart ==
    /\ ws.step = "Start"
    /\ astray' = (astray /\ ~(hasSet /\ events = <<>> /\ post = Nothing))
    /\ \/ /\ count = 0
          /\ Loop(FALSE)
       \/ /\ count > 0
          /\ ws' = [ws EXCEPT !.step = "Name", !.n = count, !.k = 0, !.names = <<>>]
    /\ UNCHANGED <<unchangedByTask, events, setVars, clientVars>>

\* The accessor's result is not checked: when the entry is gone by now, what
\* is copied was never written.  (An entry that goes between the accessor's
\* check and its lock yields an old name, one of these.)
WsName ==
    /\ ws.step = "Name"
    /\ \/ /\ ws.k < ws.n
          /\ \E s \in Names :
                /\ ws.k < count => s = table[ws.k].symbol
                /\ ws' = [ws EXCEPT !.names = Append(@, s), !.k = @ + 1]
       \/ /\ ws.k = ws.n
          /\ Goto("Create")
    /\ UNCHANGED <<unchangedByTask, events, setVars, clientVars, astray>>

\* Mutant: a client that is started again does not join the set.
JoinsAtBoot == hasSet /\ set = <<>> /\ edits = 0

\* Does the update queue join the set?  It has just been created: it is empty.
Joins == hasSet

\* market_data_ws_client_create() and xQueueAddToSet().  No URL can be built
\* from what is not a ticker.
WsCreate ==
    /\ ws.step = "Create"
    /\ \/ /\ Garbage \in Range(ws.names)
          /\ astray' = TRUE
          /\ Loop(FALSE)
          /\ UNCHANGED <<member, clientVars>>
       \/ /\ Garbage \notin Range(ws.names)
          /\ queue' = <<>>
          /\ conn' = [NoClient EXCEPT !.url = Range(ws.names)]
          /\ member' = Joins
          /\ Goto("Connect")
          /\ UNCHANGED astray
    /\ UNCHANGED <<unchangedByTask, events, set, hasSet>>

\* market_data_ws_client_connect(); on failure all is undone.
WsConnect ==
    /\ ws.step = "Connect"
    /\ \/ /\ conn' = [conn EXCEPT !.run = TRUE]
          /\ Loop(TRUE)
          /\ UNCHANGED <<member, queue, astray>>
       \/ /\ Faults
          /\ member' = FALSE
          /\ queue' = NoQueue
          /\ conn' = NoClient
          /\ astray' = TRUE
          /\ Loop(FALSE)
    /\ UNCHANGED <<unchangedByTask, events, set, hasSet>>

-----------------------------------------------------------------------------
(* The loop of ws_task_fn().                                               *)

\* Mutant: ticks are preferred.
TicksFirst == IF "updates" \in Range(set)
              THEN CHOOSE i \in DOMAIN set : set[i] = "updates" ELSE 1

\* xQueueSelectFromSet() takes the oldest handle.
Selected == 1

Taken(handle) ==
    /\ ws.step = "Select"
    /\ hasSet
    /\ set # <<>>
    /\ set[Selected] = handle
    /\ set' = RemoveAt(set, Selected)

\* A handle of no queue the task knows, or of one that turns out to be empty.
WsNothing ==
    /\ \/ Taken("stale")
       \/ Taken("updates") /\ (~ws.updates \/ queue = <<>>)
    /\ UNCHANGED <<unchangedByTask, ws, events, hasSet, member, clientVars, astray>>

\* A tick; without a queue set the task waits for ticks alone.
WsTick ==
    /\ \/ Taken("updates")
       \/ ws.step = "Select" /\ ~hasSet /\ UNCHANGED set
    /\ ws.updates
    /\ queue # <<>>
    /\ queue' = Tail(queue)
    /\ ws' = [ws EXCEPT !.step = "Find", !.tick = Head(queue), !.n = count, !.k = 0]
    /\ UNCHANGED <<unchangedByTask, events, hasSet, member, conn, astray>>

\* Is there an entry left to look at?
Looks == ws.k < ws.n

\* find_index_by_symbol(): the table is locked anew for each entry.
WsFind ==
    /\ ws.step = "Find"
    /\ \/ ~Looks /\ Loop(ws.updates)
       \/ /\ Looks
          /\ ws.k < count
          /\ table[ws.k].symbol = ws.tick.symbol
          /\ Goto("Apply")
       \/ /\ Looks
          /\ ws.k >= count \/ table[ws.k].symbol # ws.tick.symbol
          /\ ws' = [ws EXCEPT !.k = @ + 1]
    /\ UNCHANGED <<unchangedByTask, events, setVars, clientVars, astray>>

\* app_state_apply_kline_update(), before it takes the lock.
WsApply ==
    /\ ws.step = "Apply"
    /\ \/ ws.k < count /\ Goto("ApplyLocked")
       \/ ws.k >= count /\ Loop(ws.updates)
    /\ UNCHANGED <<unchangedByTask, events, setVars, clientVars, astray>>

\* Nothing is merged into an entry without klines.  A block that has been
\* freed is written to all the same.
WsApplyLocked ==
    LET slot == table[ws.k]
        merged == IF slot.filled /\ heap[slot.block] # Free
                  THEN [heap EXCEPT ![slot.block] = Klines(ws.tick.symbol, ws.tick.from)]
                  ELSE heap
    IN  /\ ws.step = "ApplyLocked"
        /\ heap' = merged
        /\ Loop(ws.updates)
        /\ UNCHANGED <<table, count, region, force, ui, edits, post, events, setVars, clientVars,
                       astray>>

\* The task takes an event of this kind.
Receive(kind) ==
    /\ Taken("events")
    /\ events # <<>>
    /\ Head(events).kind = kind
    /\ events' = Tail(events)

\* send_control_message(): a frame that cannot be sent is logged and lost.
Send(subs) ==
    \/ /\ conn.up
       /\ conn' = [conn EXCEPT !.subs = subs]
       /\ UNCHANGED astray
    \/ /\ ~conn.up \/ Faults
       /\ astray' = TRUE
       /\ UNCHANGED conn

\* Mutant: a symbol that is added starts nothing but the first client.
AddedOnlyStarts ==
    /\ Receive("Added")
    /\ \/ ~ws.updates /\ Goto("Start")
       \/ ws.updates /\ UNCHANGED ws
    /\ UNCHANGED <<unchangedByTask, hasSet, member, queue, conn, astray>>

WsAdded ==
    /\ Receive("Added")
    /\ \/ ~ws.updates /\ Goto("Start") /\ UNCHANGED <<conn, astray>>
       \/ ws.updates /\ Send(conn.subs \cup {Head(events).symbol}) /\ UNCHANGED ws
    /\ UNCHANGED <<unchangedByTask, hasSet, member, queue>>

\* The client stays when the watchlist becomes empty.
WsRemoved ==
    /\ Receive("Removed")
    /\ \/ ~ws.updates /\ UNCHANGED <<conn, astray>>
       \/ ws.updates /\ Send(conn.subs \ {Head(events).symbol})
    /\ UNCHANGED <<unchangedByTask, ws, hasSet, member, queue>>

WsRegion ==
    /\ Receive("Region")
    /\ Goto(IF ws.updates THEN "Unjoin" ELSE "Start")
    /\ UNCHANGED <<unchangedByTask, hasSet, member, clientVars, astray>>

\* Mutant: the client runs on while its queue is deleted.
UnjoinAndDelete ==
    /\ ws.step = "Unjoin"
    /\ member' = (member /\ queue # <<>>)
    /\ Goto("DeleteQueue")
    /\ UNCHANGED <<unchangedByTask, events, set, hasSet, clientVars, astray>>

\* xQueueRemoveFromSet(): does nothing to a queue that holds ticks.
WsUnjoin ==
    /\ ws.step = "Unjoin"
    /\ member' = (member /\ queue # <<>>)
    /\ Goto("StopClient")
    /\ UNCHANGED <<unchangedByTask, events, set, hasSet, clientVars, astray>>

\* market_data_ws_client_stop(): the library's task ends,
WsStopClient ==
    /\ ws.step = "StopClient"
    /\ conn' = [conn EXCEPT !.run = FALSE, !.up = FALSE, !.subs = {}]
    /\ Goto("DeleteQueue")
    /\ UNCHANGED <<unchangedByTask, events, setVars, queue, astray>>

\* and the queue is deleted.  Its handles stay in the set; the next queue may
\* get its address.
WsDeleteQueue ==
    /\ ws.step = "DeleteQueue"
    /\ queue' = NoQueue
    /\ member' = FALSE
    /\ \/ UNCHANGED set
       \/ /\ "updates" \in Range(set)
          /\ set' = [i \in DOMAIN set |-> IF set[i] = "updates" THEN "stale" ELSE set[i]]
    /\ ws' = [ws EXCEPT !.step = "Start", !.updates = FALSE]
    /\ UNCHANGED <<unchangedByTask, events, hasSet, conn, astray>>

WsStep ==
    \/ WsBoot \/ WsStart \/ WsName \/ WsCreate \/ WsConnect \/ WsNothing \/ WsTick \/ WsFind
    \/ WsApply \/ WsApplyLocked \/ WsAdded \/ WsRemoved \/ WsRegion \/ WsUnjoin \/ WsStopClient
    \/ WsDeleteQueue

UiStep == UiAdded \/ UiRegionChanged \/ UiGoesOn \/ UiPushEvent

WsNext ==
    \/ WsStep \/ UiStep \/ UiEdit \/ UiMove \/ UiRemove \/ RestFills
    \/ LibConnects \/ LibDisconnects \/ LibTick

WsSpec == WsInit /\ [][WsNext]_wsVars

\* The two tasks go on.
WsFairSpec == WsSpec /\ WF_wsVars(WsStep) /\ WF_wsVars(UiStep)

-----------------------------------------------------------------------------
(* Properties.                                                             *)

Handle(h) == {i \in DOMAIN set : set[i] = h}

\* A queue set announces each item once: an item whose announcement is missing
\* stays in its queue until another one comes, however long that takes.  Every
\* event and every tick of the current queue has its handle in the set, through
\* restarts of the client and handles that outlive their queue.
NoLostWakeup ==
    hasSet =>
        /\ Cardinality(Handle("events")) = Len(events)
        /\ ws.updates /\ ws.step = "Select" =>
               Cardinality(Handle("updates")) >= Len(queue)

\* The user and the task have nothing in hand, and the connection is up.
Quiet ==
    /\ ui = UiIdle
    /\ post = Nothing
    /\ ws.step = "Select"
    /\ IF hasSet THEN set = <<>> ELSE queue = <<>>
    /\ conn.up

\* handle_data_event() sends to s_update_queue without looking whether it is
\* there: as long as the library runs there is a queue, and a client is created
\* when nothing is left of the one before.
QueueOutlivesClient ==
    /\ conn.run => queue # NoQueue
    /\ ws.step \in {"Start", "Name", "Create"} => ~conn.run /\ queue = NoQueue

\* The streams follow the table by name, through additions, removals, moves and
\* changes of server in any order and at any moment of a restart: when all is
\* quiet a symbol of the table has no stream only if an edit came before Wi-Fi
\* was up, which is for good, or one of these happened after the client was
\* started: an event was dropped, a frame or a start failed, the connection
\* broke, an entry moved while the names were copied, or the symbol's twin was
\* removed.  The next start, and so the next change of server, mends these.
SymbolsStreamed == Quiet /\ ~astray => Tickers \subseteq conn.subs

\* What the documents say, without exceptions: a newly-added symbol "starts
\* receiving live per-second ticks without a reboot"
\* (0008-watchlist-live-resubscribe.md:86), and "reordering is fully transparent
\* to the WS/REST layers" (app_state.h:102).  Not met: a SUBSCRIBE that failed is
\* not repeated, and a move while the names are copied hides a symbol (README,
\* known weaknesses).
ListIsStreamed == Quiet => Tickers \subseteq conn.subs

\* Events are not starved by ticks: once the user stops, all are handled.
EventsHandled == <>[](~hasSet \/ events = <<>>)

\* "app_state_ws_task also reacts live to the watchlist-event queue"
\* (app_state.h:78), whenever the edit is made: once the user stops, no event
\* is left.  Not met when an edit comes before Wi-Fi is up (README, known
\* weaknesses).
EditsTakeEffect == <>[](events = <<>>)

=============================================================================
