-------------------------- MODULE KlineMergeProofs --------------------------
(***************************************************************************)
(* Theorems about KlineMerge and Charts, for every capacity, interval and  *)
(* series of candles: a tick leaves the candles of a chart in order and    *)
(* the closed ones as they are, and so do the tasks that share them, for   *)
(* every watchlist and a queue of any length.                              *)
(***************************************************************************)
EXTENDS Charts, SequenceTheorems, TLAPS

-----------------------------------------------------------------------------
(* Lemmas about one candle.                                                *)

\* A candle that has taken a tick is drawable and has kept its place.
LEMMA UpdatedFacts ==
  ASSUME NEW last \in Candle, NEW tick \in Tick, Drawable(last), Drawable(tick)
  PROVE  /\ Updated(last, tick) \in Candle /\ Updated(last, tick).open = last.open
         /\ Drawable(Updated(last, tick))
<1> DEFINE hi == Higher(last.high, tick.high)
           lo == Lower(last.low, tick.low)
<1>1. /\ hi \in Int /\ lo \in Int /\ tick.close \in Int
      /\ lo =< tick.close /\ tick.close =< hi
  BY DEF Candle, Tick, Drawable, Higher, Lower
<1>2. Updated(last, tick) = [last EXCEPT !.high = hi, !.low = lo, !.close = tick.close]
  BY DEF Updated
<1> HIDE DEF hi, lo
<1> QED
  BY <1>1, <1>2 DEF Candle, Drawable

\* A candle that a tick opens is drawable.
LEMMA OpenedFacts ==
  ASSUME NEW tick \in Tick, Drawable(tick)
  PROVE  /\ BucketStart(tick.open) \in Int
         /\ Opened(tick) \in Candle /\ Opened(tick).open = BucketStart(tick.open)
         /\ Drawable(Opened(tick))
<1>1. BucketStart(tick.open) \in Int
  <2>1. tick.open \in Nat /\ Interval \in Nat \ {0}
    BY MergeAssumption DEF Tick
  <2>2. tick.open \div Interval \in Int
    BY <2>1
  <2> QED
    BY <2>1, <2>2 DEF BucketStart
<1> QED
  BY <1>1 DEF Opened, Candle, Tick, Drawable

-----------------------------------------------------------------------------
(* Lemmas about the array.                                                 *)

\* InOrder, candle by candle.
LEMMA InOrderIff ==
  ASSUME NEW candles \in Seq(Candle)
  PROVE  InOrder(candles) <=>
         /\ Len(candles) =< Capacity
         /\ \A i \in 1 .. Len(candles) - 1 : candles[i].open < candles[i + 1].open
         /\ \A i \in 1 .. Len(candles) : Drawable(candles[i])
BY DEF InOrder, Drawable

\* A younger candle is put behind the others; the oldest makes room.
LEMMA PushKeepsOrder ==
  ASSUME NEW candles \in Seq(Candle), candles # <<>>, InOrder(candles),
         NEW candle \in Candle, Drawable(candle), candles[Len(candles)].open < candle.open
  PROVE  Push(candles, candle) \in Seq(Candle) /\ InOrder(Push(candles, candle))
<1> DEFINE n == Len(candles)
<1>1. n \in Nat \ {0} /\ Capacity \in Nat \ {0} /\ n =< Capacity
  BY EmptySeq, MergeAssumption DEF InOrder
<1>2. CASE n # Capacity
  <2> DEFINE new == Append(candles, candle)
  <2>1. /\ new \in Seq(Candle) /\ Len(new) = n + 1
        /\ (\A i \in 1 .. n : new[i] = candles[i]) /\ new[n + 1] = candle
    BY AppendProperties
  <2> HIDE DEF new
  <2>2. ASSUME NEW i \in 1 .. n
        PROVE  new[i].open < new[i + 1].open
    <3>1. CASE i = n
      BY <1>1, <2>1, <3>1
    <3>2. CASE i # n
      <4>1. i \in 1 .. n - 1 /\ i + 1 \in 1 .. n
        BY <1>1, <3>2
      <4> QED
        BY <1>1, <2>1, <4>1, InOrderIff
    <3> QED
      BY <3>1, <3>2
  <2>3. \A i \in 1 .. n + 1 : Drawable(new[i])
    <3>1. \A i \in 1 .. n : Drawable(new[i])
      BY <2>1, InOrderIff
    <3> QED
      BY <1>1, <2>1, <3>1
  <2>4. InOrder(new)
    BY <1>1, <1>2, <2>1, <2>2, <2>3, InOrderIff
  <2> QED
    BY <1>2, <2>1, <2>4 DEF Push, new
<1>3. CASE n = Capacity
  <2> DEFINE rest == Tail(candles)
             new  == Append(rest, candle)
  <2>1. rest \in Seq(Candle) /\ Len(rest) = n - 1 /\ \A i \in 1 .. n - 1 : rest[i] = candles[i + 1]
    BY HeadTailProperties
  <2> HIDE DEF rest
  <2>2. /\ new \in Seq(Candle) /\ Len(new) = n
        /\ (\A i \in 1 .. n - 1 : new[i] = candles[i + 1]) /\ new[n] = candle
    <3>1. /\ new \in Seq(Candle) /\ Len(new) = Len(rest) + 1
          /\ (\A i \in 1 .. Len(rest) : new[i] = rest[i]) /\ new[Len(rest) + 1] = candle
      BY <2>1, AppendProperties
    <3> HIDE DEF new
    <3>2. Len(rest) + 1 = n
      BY <1>1, <2>1
    <3> QED
      BY <2>1, <3>1, <3>2
  <2> HIDE DEF new
  <2>3. ASSUME NEW i \in 1 .. n - 1
        PROVE  new[i].open < new[i + 1].open
    <3>1. CASE i = n - 1
      <4>1. i + 1 = n
        BY <1>1, <3>1
      <4> QED
        BY <2>2, <4>1
    <3>2. CASE i # n - 1
      <4>1. i + 1 \in 1 .. n - 1
        BY <1>1, <3>2
      <4> QED
        BY <2>2, <4>1, InOrderIff
    <3> QED
      BY <3>1, <3>2
  <2>4. \A i \in 1 .. n : Drawable(new[i])
    <3>1. \A i \in 1 .. n - 1 : i + 1 \in 1 .. n
      BY <1>1
    <3>2. \A i \in 1 .. n - 1 : Drawable(new[i])
      BY <2>2, <3>1, InOrderIff
    <3> QED
      BY <1>1, <2>2, <3>2
  <2>5. InOrder(new)
    BY <1>1, <2>2, <2>3, <2>4, InOrderIff
  <2> QED
    BY <1>3, <2>2, <2>5 DEF Push, new, rest
<1> QED
  BY <1>2, <1>3

-----------------------------------------------------------------------------
(* The theorems.                                                           *)

\* app_state_kline_merge_apply() leaves a chart drawable: whatever the tick and
\* however late it is, the candles fit into their array, are in their order, one
\* for each interval, and have their closing price between low and high.
THEOREM MergeKeepsOrder ==
  ASSUME NEW candles \in Seq(Candle), InOrder(candles), NEW tick \in Tick, Drawable(tick)
  PROVE  Merged(candles, tick) \in Seq(Candle) /\ InOrder(Merged(candles, tick))
<1> DEFINE n == Len(candles)
           new == [candles EXCEPT ![n] = Updated(candles[n], tick)]
<1>1. n \in Nat /\ (n # 0 => candles # <<>> /\ n \in 1 .. n /\ candles[n] \in Candle)
  BY LenProperties, ElementOfSeq, EmptySeq
<1>2. CASE n = 0 \/ BucketStart(tick.open) < candles[n].open
  BY <1>1, <1>2, OpenedFacts DEF Merged, Candle
<1>3. CASE n # 0 /\ BucketStart(tick.open) = candles[n].open
  <2>1. Drawable(candles[n])
    BY <1>1, <1>3, InOrderIff
  <2>2. /\ Updated(candles[n], tick) \in Candle
        /\ Updated(candles[n], tick).open = candles[n].open
        /\ Drawable(Updated(candles[n], tick))
    BY <1>1, <1>3, <2>1, UpdatedFacts
  <2>3. /\ new \in Seq(Candle) /\ Len(new) = n
        /\ \A i \in 1 .. n : new[i] = IF i = n THEN Updated(candles[n], tick) ELSE candles[i]
    BY <1>1, <1>3, <2>2, ExceptSeq
  <2> HIDE DEF new
  <2>4. \A i \in 1 .. n : new[i].open = candles[i].open /\ Drawable(new[i])
    BY <2>2, <2>3, InOrderIff
  <2>5. \A i \in 1 .. n - 1 : i \in 1 .. n /\ i + 1 \in 1 .. n
    BY <1>1
  <2>6. InOrder(new)
    BY <2>3, <2>4, <2>5, InOrderIff
  <2> QED
    BY <1>1, <1>3, <2>3, <2>6 DEF Merged, new
<1>4. CASE n # 0 /\ candles[n].open < BucketStart(tick.open)
  <2>1. Push(candles, Opened(tick)) \in Seq(Candle) /\ InOrder(Push(candles, Opened(tick)))
    BY <1>1, <1>4, OpenedFacts, PushKeepsOrder
  <2>2. candles[n].open \in Int /\ BucketStart(tick.open) \in Int
    BY <1>1, <1>4, OpenedFacts DEF Candle
  <2>3. Merged(candles, tick) = Push(candles, Opened(tick))
    BY <1>4, <2>2 DEF Merged
  <2> QED
    BY <2>1, <2>3
<1>5. n # 0 => candles[n].open \in Int /\ BucketStart(tick.open) \in Int
  BY <1>1, OpenedFacts DEF Candle
<1> QED
  BY <1>2, <1>3, <1>4, <1>5

-----------------------------------------------------------------------------
(* What a tick leaves of the candles.                                      *)

\* Nothing done, nothing lost.
LEMMA NothingIsLost ==
  ASSUME NEW old \in Seq(Candle)
  PROVE  ClosedAreKept(old, old)
<1>1. Len(old) \in Nat /\ (old # <<>> => Len(old) # 0)
  BY EmptySeq, LenProperties
<1>2. CASE old = <<>>
  BY <1>2 DEF ClosedAreKept
<1>3. CASE old # <<>>
  <2> DEFINE shift == IF Len(old) = Capacity /\ old # <<>> /\ old[Len(old)].open # old[Len(old)].open
                      THEN 1 ELSE 0
  <2>1. shift = 0
    OBVIOUS
  <2> HIDE DEF shift
  <2>2. \A j \in 1 + shift .. Len(old) - 1 : old[j - shift] = old[j]
    BY <1>1, <2>1
  <2> QED
    BY <1>1, <2>2 DEF ClosedAreKept, shift
<1> QED
  BY <1>2, <1>3

\* A candle behind the others leaves the closed ones, but the oldest.
LEMMA PushKeepsClosed ==
  ASSUME NEW old \in Seq(Candle), old # <<>>, Len(old) =< Capacity, NEW candle \in Candle,
         old[Len(old)].open < candle.open
  PROVE  ClosedAreKept(old, Push(old, candle))
<1> DEFINE n == Len(old)
           new == Push(old, candle)
           shift == IF n = Capacity /\ new # <<>> /\ new[Len(new)].open # old[n].open THEN 1 ELSE 0
<1>1. n \in Nat \ {0} /\ Capacity \in Nat \ {0} /\ old[n] \in Candle
  BY EmptySeq, LenProperties, ElementOfSeq, MergeAssumption
<1>2. old[n].open # candle.open
  BY <1>1 DEF Candle
<1>3. CASE n = Capacity
  <2>1. /\ Tail(old) \in Seq(Candle) /\ Len(Tail(old)) = n - 1
        /\ \A i \in 1 .. n - 1 : Tail(old)[i] = old[i + 1]
    BY HeadTailProperties
  <2>2. new = Append(Tail(old), candle)
    BY <1>3 DEF Push
  <2>3. /\ new \in Seq(Candle) /\ Len(new) = Len(Tail(old)) + 1
        /\ (\A i \in 1 .. Len(Tail(old)) : new[i] = Tail(old)[i]) /\ new[Len(Tail(old)) + 1] = candle
    BY <2>1, <2>2, AppendProperties
  <2> HIDE DEF new, n
  <2>4. Len(new) = n /\ new[n] = candle /\ \A i \in 1 .. n - 1 : new[i] = old[i + 1]
    BY <1>1, <2>1, <2>3
  <2>5. shift = 1
    BY <1>1, <1>2, <1>3, <2>3, <2>4, EmptySeq
  <2>6. \A j \in 2 .. n - 1 : j - 1 \in 1 .. n - 1 /\ (j - 1) + 1 = j
    BY <1>1
  <2>7. \A j \in 2 .. n - 1 : new[j - 1] = old[j]
    BY <2>4, <2>6
  <2> HIDE DEF shift
  <2>8. Len(new) >= n /\ \A j \in 1 + shift .. n - 1 : new[j - shift] = old[j]
    BY <1>1, <2>4, <2>5, <2>7
  <2> QED
    BY <2>8 DEF ClosedAreKept, new, n, shift
<1>4. CASE n # Capacity
  <2>1. new = Append(old, candle)
    BY <1>4 DEF Push
  <2>2. Len(new) = n + 1 /\ \A i \in 1 .. n : new[i] = old[i]
    BY <2>1, AppendProperties
  <2>3. shift = 0
    BY <1>4
  <2> HIDE DEF new, n, shift
  <2>4. Len(new) >= n /\ \A j \in 1 + shift .. n - 1 : new[j - shift] = old[j]
    BY <1>1, <2>2, <2>3
  <2> QED
    BY <2>4 DEF ClosedAreKept, new, n, shift
<1> QED
  BY <1>3, <1>4

LEMMA MergeKeepsClosed ==
  ASSUME NEW old \in Seq(Candle), InOrder(old), NEW tick \in Tick, Drawable(tick)
  PROVE  ClosedAreKept(old, Merged(old, tick))
<1> DEFINE n == Len(old)
           start == BucketStart(tick.open)
<1>1. n \in Nat /\ n =< Capacity /\ (n # 0 => old # <<>> /\ n \in 1 .. n /\ old[n] \in Candle)
  BY LenProperties, ElementOfSeq, EmptySeq DEF InOrder
<1>2. start \in Int
  BY OpenedFacts
<1>3. CASE n = 0 \/ start < old[n].open
  <2>1. Merged(old, tick) = old
    BY <1>1, <1>2, <1>3 DEF Merged, Candle
  <2> QED
    BY <2>1, NothingIsLost
<1>4. CASE n # 0 /\ start = old[n].open
  <2> DEFINE new == [old EXCEPT ![n] = Updated(old[n], tick)]
             shift == IF n = Capacity /\ new # <<>> /\ new[Len(new)].open # old[n].open THEN 1 ELSE 0
  <2>1. Merged(old, tick) = new
    BY <1>1, <1>4 DEF Merged
  <2>2. Updated(old[n], tick) \in Candle /\ Updated(old[n], tick).open = old[n].open
    <3>1. Drawable(old[n])
      BY <1>1, <1>4 DEF InOrder
    <3> QED
      BY <1>1, <1>4, <3>1, UpdatedFacts
  <2>3. new[n] = Updated(old[n], tick) /\ Len(new) = n /\ \A j \in 1 .. n - 1 : new[j] = old[j]
    BY <1>1, <1>4
  <2> HIDE DEF new, n
  <2>4. shift = 0
    BY <2>2, <2>3
  <2> HIDE DEF shift
  <2>5. Len(new) >= n /\ \A j \in 1 + shift .. n - 1 : new[j - shift] = old[j]
    BY <1>1, <2>3, <2>4
  <2>6. ClosedAreKept(old, new)
    BY <2>5 DEF ClosedAreKept, n, shift
  <2> QED
    BY <2>1, <2>6
<1>5. CASE n # 0 /\ start > old[n].open
  <2>1. Merged(old, tick) = Push(old, Opened(tick))
    BY <1>1, <1>2, <1>5 DEF Merged, Candle
  <2>2. Opened(tick) \in Candle /\ Opened(tick).open = start
    BY OpenedFacts
  <2>3. old[n].open < start
    BY <1>1, <1>2, <1>5 DEF Candle
  <2> QED
    BY <1>1, <1>5, <2>1, <2>2, <2>3, PushKeepsClosed
<1>6. n # 0 => old[n].open \in Int
  BY <1>1 DEF Candle
<1> QED
  BY <1>2, <1>3, <1>4, <1>5, <1>6

-----------------------------------------------------------------------------
(* The invariant of the charts.                                            *)

Symbols   == {Watched[i] : i \in DOMAIN Watched}
Orderly   == {s \in Seq(Candle) : InOrder(s)}
Rows      == [symbol : Symbols, candles : Orderly]
GoodTicks == {t \in Tick : Drawable(t)}

\* Each tick that waits is drawable.
GoodQueue(q) == \E U : q \in Seq(U) /\ \A u \in U : u.tick \in GoodTicks

ChartsInv ==
    /\ now \in 0 .. MaxTime
    /\ table \in Seq(Rows)
    /\ GoodQueue(queue)
    /\ held = NoOne \/ (held.row \in DOMAIN table /\ held.tick \in GoodTicks)

LEMMA GoodQueueIs ==
  ASSUME NEW U, NEW q \in Seq(U), \A u \in U : u.tick \in GoodTicks
  PROVE  GoodQueue(q)
BY DEF GoodQueue

LEMMA InitChartsInv == ChartsInit => ChartsInv
<1> SUFFICES ASSUME ChartsInit
             PROVE  ChartsInv
  OBVIOUS
<1>1. <<>> \in Orderly
  BY MergeAssumption DEF Orderly, InOrder
<1>2. table \in Seq(Rows)
  <2>1. Watched \in Seq(Symbols)
    BY ChartsAssumption DEF Symbols
  <2>2. table = [i \in 1 .. Len(Watched) |-> [symbol |-> Watched[i], candles |-> <<>>]]
    BY <2>1 DEF ChartsInit
  <2>3. \A i \in 1 .. Len(Watched) : [symbol |-> Watched[i], candles |-> <<>>] \in Rows
    BY <1>1, <2>1 DEF Rows
  <2> QED
    BY <2>1, <2>2, <2>3
<1>3. GoodQueue(<<>>)
  <2>1. PICK U : U = {}
    OBVIOUS
  <2>2. <<>> \in Seq(U) /\ \A u \in U : u.tick \in GoodTicks
    BY <2>1
  <2> QED
    BY <2>2, GoodQueueIs
<1> QED
  BY <1>2, <1>3, ChartsAssumption DEF ChartsInit, ChartsInv

LEMMA QueuedIsGood ==
  ASSUME NEW q, GoodQueue(q), NEW update, update.tick \in GoodTicks
  PROVE  GoodQueue(Queued(q, update))
<1>1. PICK U : q \in Seq(U) /\ \A u \in U : u.tick \in GoodTicks
  BY DEF GoodQueue
<1>2. q \in Seq(U \cup {update}) /\ \A u \in U \cup {update} : u.tick \in GoodTicks
  BY <1>1
<1>3. Queued(q, update) \in Seq(U \cup {update})
  BY <1>2 DEF Queued
<1> QED
  BY <1>2, <1>3, Zenon DEF GoodQueue

LEMMA TailIsGood ==
  ASSUME NEW q, GoodQueue(q), q # <<>>
  PROVE  GoodQueue(Tail(q)) /\ Head(q).tick \in GoodTicks
<1>1. PICK U : q \in Seq(U) /\ \A u \in U : u.tick \in GoodTicks
  BY DEF GoodQueue
<1>2. Tail(q) \in Seq(U) /\ Head(q) \in U
  BY <1>1
<1> QED
  BY <1>1, <1>2, Zenon DEF GoodQueue

\* The row of a merge keeps its symbol and a chart in order.
LEMMA ApplyFacts ==
  ASSUME ChartsInv, ApplyUpdate
  PROVE  /\ table' \in Seq(Rows) /\ DOMAIN table' = DOMAIN table
         /\ \A i \in DOMAIN table : ClosedAreKept(table[i].candles, table'[i].candles)
<1>1. PICK r : r = held.row
  OBVIOUS
<1>2. PICK t : t = held.tick
  OBVIOUS
<1>3. /\ r \in DOMAIN table /\ t \in Tick /\ Drawable(t) /\ table \in Seq(Rows)
      /\ table' = [table EXCEPT ![r].candles = Merged(@, t)]
  BY <1>1, <1>2 DEF ChartsInv, ApplyUpdate, GoodTicks
<1>4. \A i \in DOMAIN table : table[i] \in Rows /\ table[i].candles \in Seq(Candle)
                              /\ InOrder(table[i].candles)
  <2>1. \A i \in DOMAIN table : table[i] \in Rows
    BY <1>3
  <2> QED
    BY <2>1 DEF Rows, Orderly
<1>5. PICK m : m = Merged(table[r].candles, t)
  OBVIOUS
<1>6. m \in Orderly /\ ClosedAreKept(table[r].candles, m)
  BY <1>3, <1>4, <1>5, MergeKeepsOrder, MergeKeepsClosed DEF Orderly
<1>7. PICK row : row = [table[r] EXCEPT !.candles = m]
  OBVIOUS
<1>8. row \in Rows /\ row.candles = m
  BY <1>3, <1>4, <1>6, <1>7 DEF Rows
<1>9. table' = [table EXCEPT ![r] = row]
  BY <1>3, <1>5, <1>7
<1>10. table' \in Seq(Rows) /\ DOMAIN table' = DOMAIN table
  BY <1>3, <1>8, <1>9
<1>11. ASSUME NEW i \in DOMAIN table
       PROVE  ClosedAreKept(table[i].candles, table'[i].candles)
  <2>1. CASE i = r
    <3>1. table'[i].candles = m
      BY <1>3, <1>8, <1>9, <2>1
    <3> QED
      BY <1>6, <2>1, <3>1
  <2>2. CASE i # r
    <3>1. table'[i] = table[i]
      BY <1>9, <2>2
    <3> QED
      BY <1>4, <3>1, NothingIsLost
  <2> QED
    BY <2>1, <2>2
<1> QED
  BY <1>10, <1>11

LEMMA NextChartsInv == ChartsInv /\ [ChartsNext]_chartVars => ChartsInv'
<1> SUFFICES ASSUME ChartsInv, [ChartsNext]_chartVars
             PROVE  ChartsInv'
  OBVIOUS
<1> USE DEF ChartsInv
<1>1. MaxTime \in Nat
  BY ChartsAssumption
<1>2. CASE UNCHANGED chartVars
  BY <1>2 DEF chartVars
<1>3. CASE Passes
  BY <1>1, <1>3 DEF Passes
<1>4. CASE Arrives
  <2>1. PICK update : update.tick \in GoodTicks /\ queue' = Queued(queue, update)
    BY <1>4 DEF Arrives, GoodTicks
  <2>2. GoodQueue(queue')
    BY <2>1, QueuedIsGood
  <2> QED
    BY <1>4, <2>2 DEF Arrives
<1>5. CASE TakeUpdate
  <2>1. GoodQueue(queue') /\ Head(queue).tick \in GoodTicks
    BY <1>5, TailIsGood DEF TakeUpdate
  <2>2. held' = NoOne \/ (held'.row \in DOMAIN table /\ held'.tick = Head(queue).tick)
    BY <1>5 DEF TakeUpdate, RowsOf
  <2> QED
    BY <1>5, <2>1, <2>2 DEF TakeUpdate
<1>6. CASE ApplyUpdate
  <2>1. table' \in Seq(Rows)
    BY <1>6, ApplyFacts
  <2> QED
    BY <1>6, <2>1 DEF ApplyUpdate
<1>7. ASSUME NEW row \in DOMAIN table, Resync(row)
      PROVE  ChartsInv'
  <2>1. PICK s \in Snapshots(now) : table' = [table EXCEPT ![row].candles = s]
    BY <1>7 DEF Resync
  <2>2. s \in Orderly
    BY <2>1, ChartsAssumption DEF Orderly
  <2>3. table[row] \in Rows
    BY <1>7
  <2>4. PICK new : new = [table[row] EXCEPT !.candles = s]
    OBVIOUS
  <2>5. new \in Rows
    BY <2>2, <2>3, <2>4 DEF Rows
  <2>6. table' = [table EXCEPT ![row] = new]
    BY <2>1, <2>4
  <2>7. table' \in Seq(Rows) /\ DOMAIN table' = DOMAIN table
    BY <2>5, <2>6
  <2> QED
    BY <1>7, <2>7 DEF Resync
<1>8. CASE Move
  <2>1. table' = Append(Tail(table), table[1]) /\ Len(table) > 1 /\ UNCHANGED <<now, queue, held>>
    BY <1>8 DEF Move
  <2>2. table' \in Seq(Rows) /\ Len(table') = Len(table)
    BY <2>1
  <2>3. DOMAIN table' = DOMAIN table
    BY <2>2
  <2> QED
    BY <2>1, <2>2, <2>3
<1> QED
  BY <1>2, <1>3, <1>4, <1>5, <1>6, <1>7, <1>8 DEF ChartsNext, Changes

-----------------------------------------------------------------------------
(* The theorems about the charts.                                          *)

\* Every chart on the dashboard stays drawable: whatever drawable ticks wait in
\* the queue, and whenever the sync task replaces candles or the user moves rows
\* between the look-up of app_state_ws_task.c and its merge.
THEOREM ChartsAlwaysInOrder == ChartsSpec => []CandlesInOrder
<1>1. ChartsInv => CandlesInOrder
  <2> SUFFICES ASSUME ChartsInv, NEW i \in DOMAIN table
               PROVE  InOrder(table[i].candles)
    BY DEF CandlesInOrder
  <2>1. table[i] \in Rows
    BY DEF ChartsInv
  <2> QED
    BY <2>1 DEF Rows, Orderly
<1> QED
  BY <1>1, InitChartsInv, NextChartsInv, PTL DEF ChartsSpec

\* A merge of app_state_kline_merge.c, at whatever moment, leaves the closed
\* candles of every row as REST gave them.
THEOREM ClosedAlwaysStay == ChartsSpec => ClosedCandlesStay
<1>1. ChartsInv => (ApplyUpdate => \A i \in DOMAIN table :
                                       ClosedAreKept(table[i].candles, table'[i].candles))
  BY ApplyFacts
<1> QED
  BY <1>1, InitChartsInv, NextChartsInv, PTL DEF ChartsSpec, ClosedCandlesStay

=============================================================================
