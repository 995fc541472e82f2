----------------------------- MODULE KlineMerge -----------------------------
(***************************************************************************)
(* app_state_kline_merge.c: what one tick of the stream does to the        *)
(* candles of its symbol.  The candles are a sequence, oldest first, that  *)
(* holds at most Capacity of them; a full array drops its first.           *)
(*                                                                         *)
(* Abstractions: of a candle the opening time and the high, low and        *)
(* closing price; prices are integers; volumes and trades are left out.    *)
(***************************************************************************)
EXTENDS Integers, Sequences

CONSTANTS
    Capacity,   \* APP_STATE_KLINE_CAPACITY
    Interval    \* the candles' interval in units of open_time_ms

ASSUME MergeAssumption ==
    /\ Capacity \in Nat \ {0}
    /\ Interval \in Nat \ {0}

Candle == [open : Int, high : Int, low : Int, close : Int]
Tick   == [open : Nat, high : Int, low : Int, close : Int]

BucketStart(time) == (time \div Interval) * Interval

Higher(a, b) == IF a > b THEN a ELSE b
Lower(a, b)  == IF a < b THEN a ELSE b

\* A tick of the last candle's bucket.
Updated(last, tick) ==
    [last EXCEPT !.high  = Higher(@, tick.high),
                 !.low   = Lower(@, tick.low),
                 !.close = tick.close]

\* A tick of a later bucket opens a candle.
Opened(tick) == [tick EXCEPT !.open = BucketStart(@)]

\* Mutant: a full array keeps its first candle and loses the last.
PushOverLast(candles, candle) ==
    IF Len(candles) = Capacity THEN [candles EXCEPT ![Capacity] = candle]
                               ELSE Append(candles, candle)

Push(candles, candle) ==
    IF Len(candles) = Capacity THEN Append(Tail(candles), candle)
                               ELSE Append(candles, candle)

\* Mutant: a tick of an older interval opens a candle as one of a later does.
MergedLate(candles, tick) ==
    LET n == Len(candles)
    IN  IF n = 0 THEN candles
        ELSE IF BucketStart(tick.open) = candles[n].open
             THEN [candles EXCEPT ![n] = Updated(@, tick)]
        ELSE Push(candles, Opened(tick))

\* app_state_kline_merge_apply().  What is older than the last candle is left to
\* the next REST resync.
Merged(candles, tick) ==
    LET n     == Len(candles)
        start == BucketStart(tick.open)
    IN  IF n = 0 THEN candles
        ELSE IF start = candles[n].open
             THEN [candles EXCEPT ![n] = Updated(@, tick)]
        ELSE IF start < candles[n].open THEN candles
        ELSE Push(candles, Opened(tick))

\* What the exchange says of a candle: its price is between its low and its high.
Drawable(candle) == candle.low =< candle.close /\ candle.close =< candle.high

\* The candles of one chart: no two of the same bucket, none out of order, and
\* each drawn with its price between its low and its high.
InOrder(candles) ==
    /\ Len(candles) =< Capacity
    /\ \A i \in 1 .. Len(candles) - 1 : candles[i].open < candles[i + 1].open
    /\ \A i \in 1 .. Len(candles) : Drawable(candles[i])
=============================================================================
