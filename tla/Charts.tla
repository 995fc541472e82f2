------------------------------- MODULE Charts -------------------------------
(***************************************************************************)
(* The candles of the watchlist and the tasks that change them: the queue  *)
(* of ticks between the WebSocket library and app_state_ws_task.c, the     *)
(* merge of a tick, the sync task that puts fresh candles in a row's       *)
(* place, and the user who moves the rows.  Where the ticks come from is   *)
(* left open here: any tick may arrive at any time.  TickStream has the    *)
(* way of a tick to the queue and is checked to implement this module.     *)
(***************************************************************************)
EXTENDS KlineMerge

CONSTANTS
    Watched,            \* the rows of the watchlist at the start: symbols
    Snapshots(_),       \* the candles REST may answer with at a time
    UpdateQueueLen,     \* MARKET_DATA_WS_UPDATE_QUEUE_LEN
    MaxTime, MaxMoves   \* bounds

\* The candles of an answer are in order when they come from the exchange.
ASSUME ChartsAssumption ==
    /\ Watched \in Seq({Watched[i] : i \in DOMAIN Watched})
    /\ MaxTime \in Nat
    /\ \A time \in 0 .. MaxTime : \A s \in Snapshots(time) : s \in Seq(Candle) /\ InOrder(s)

VARIABLES
    now,        \* the servers' clock
    queue,      \* s_update_queue
    table,      \* s_symbols: each row a symbol and its candles
    held,       \* the WebSocket task between its look-up and the merge
    moves       \* bound

chartVars == <<now, queue, table, held, moves>>

NoOne == [row |-> 0]

ChartsInit ==
    /\ now = 0 /\ queue = <<>> /\ held = NoOne /\ moves = 0
    /\ table = [i \in DOMAIN Watched |-> [symbol |-> Watched[i], candles |-> <<>>]]

Passes ==
    /\ now < MaxTime
    /\ now' = now + 1
    /\ UNCHANGED <<queue, table, held, moves>>

\* xQueueSend() without waiting: a full queue drops the new update.
Queued(q, update) == IF Len(q) < UpdateQueueLen THEN Append(q, update) ELSE q

\* A tick has come whose price is between its low and its high.
Arrives ==
    /\ \E i \in DOMAIN queue' : LET update == queue'[i]
                                IN  /\ update.tick \in Tick /\ Drawable(update.tick)
                                    /\ queue' = Queued(queue, update)
    /\ UNCHANGED <<now, table, held, moves>>

RowsOf(symbol) == {i \in DOMAIN table : table[i].symbol = symbol}

\* ws_task_fn() takes an update and looks for its row; find_index_by_symbol()
\* gives the first one.  An update of no row is forgotten.
TakeUpdate ==
    /\ held = NoOne /\ queue # <<>>
    /\ queue' = Tail(queue)
    /\ LET update == Head(queue)
           rows   == RowsOf(update.symbol)
       IN  \/ rows = {} /\ held' = NoOne
           \/ \E row \in rows : /\ \A i \in rows : row =< i
                                /\ held' = [row |-> row, tick |-> update.tick]
    /\ UNCHANGED <<now, table, moves>>

\* app_state_apply_kline_update(), under a lock of its own: whatever row has
\* that number by now.
ApplyUpdate ==
    /\ held # NoOne
    /\ table' = [table EXCEPT ![held.row].candles = Merged(@, held.tick)]
    /\ held' = NoOne
    /\ UNCHANGED <<now, queue, moves>>

\* app_state_record_success(): the sync task replaces the candles of a row.
Resync(row) ==
    /\ \E s \in Snapshots(now) : table' = [table EXCEPT ![row].candles = s]
    /\ UNCHANGED <<now, queue, held, moves>>

\* app_state_move_symbol() of the first row to the end.
Move ==
    /\ moves < MaxMoves /\ Len(table) > 1
    /\ table' = Append(Tail(table), table[1])
    /\ moves' = moves + 1
    /\ UNCHANGED <<now, queue, held>>

Changes ==
    \/ TakeUpdate \/ ApplyUpdate
    \/ \E row \in DOMAIN table : Resync(row)
    \/ Move

ChartsNext == Passes \/ Arrives \/ Changes

\* What TickStream promises the charts, however its messages are cut and
\* damaged, as long as the exchange means only ticks with their price between
\* low and high: no other tick reaches the queue, the updates leave it in the
\* order they came, and nothing on their way touches the candles.
ChartsSpec == ChartsInit /\ [][ChartsNext]_chartVars

-----------------------------------------------------------------------------
\* Every chart stays drawable: its candles fit, are of different intervals in
\* their order and have their closing price between low and high, in whatever
\* order ticks, fresh candles and moves of rows come (app_state_kline_merge.h).
CandlesInOrder == \A i \in DOMAIN table : InOrder(table[i].candles)

\* The new candles are the old ones but for the last and, when the array was
\* full and another candle has been opened, the first.
ClosedAreKept(old, new) ==
    LET shift == IF Len(old) = Capacity /\ new # <<>> /\ new[Len(new)].open # old[Len(old)].open
                 THEN 1 ELSE 0
    IN  /\ Len(new) >= Len(old)
        /\ \A j \in 1 + shift .. Len(old) - 1 : new[j - shift] = old[j]

\* A tick changes the last candle or puts one behind it: those that are closed
\* stay as REST gave them until REST gives others.
ClosedCandlesStay ==
    [][ApplyUpdate => \A i \in DOMAIN table : ClosedAreKept(table[i].candles, table'[i].candles)]_chartVars
=============================================================================
