--------------------------- MODULE SyncTaskProofs ---------------------------
(***************************************************************************)
(* Theorems about SyncTask, for every set of symbols, servers and blocks   *)
(* and every table size.  First the types of the variables, and that the   *)
(* blocks of PSRAM are neither lost nor shared nor freed in use.  Then     *)
(* that the table, edited by the UI task and filled by the sync task,      *)
(* implements the list of Watchlist; and, in a list that only grows, that  *)
(* a symbol in error stays so until the server changes.                    *)
(***************************************************************************)
EXTENDS SyncTask, SequenceTheorems, TLAPS

-----------------------------------------------------------------------------
(* The inductive invariant.                                                *)

\* The block the UI task has in hand, by where it is.
UiHolds ==
    /\ ui.step \in {"AddLocked", "FreeBlock"} <=> ui.block \in Blocks
    /\ ui.step = "AddLocked" => ui.symbol \in Symbols

InBatch == {"Result", "SuccessCheck", "SuccessLocked", "StrikesCheck", "StrikesLocked",
            "ErrorCheck", "ErrorLocked", "Backoff"}

\* How far the sync task has come with its local arrays, by where it is.
LocalsOK ==
    /\ sync.step \in {"Idle", "Clear"} => sync.k = 0 /\ sync.due = <<>> /\ sync.names = <<>>
    /\ sync.step \in {"Collect", "CollectLocked"} =>
          /\ Len(sync.due) =< sync.k
          /\ sync.k =< sync.n
          /\ sync.names = <<>>
    /\ sync.step = "CollectLocked" => sync.k < sync.n
    /\ sync.step \in {"Name", "NameLocked"} => Len(sync.names) = sync.k /\ sync.k =< Len(sync.due)
    /\ sync.step \in {"Fetch"} \cup InBatch => Len(sync.names) = Len(sync.due)
    /\ sync.step \in InBatch => sync.k =< Len(sync.due) /\ sync.base \in Regions
    /\ sync.step \in {"NameLocked"} \cup (InBatch \ {"Result"}) => sync.k < Len(sync.due)
    /\ Len(sync.due) =< MaxSymbols

\* An index that has passed the unlocked check names an entry that was in use
\* once: it may be stale by now, but it was never empty.
EntryWritten ==
    sync.step \in {"SuccessLocked", "ErrorLocked"} => table[Index] \in Slot

IInv ==
    /\ SyncTypeOK
    /\ UiHolds
    /\ LocalsOK
    /\ EntryWritten
    /\ BlocksOwned

-----------------------------------------------------------------------------
(* Lemmas about values.                                                    *)

\* What is recorded in a block is never mistaken for a free block.
LEMMA KlinesNotFree ==
    /\ Fresh # Free
    /\ Fresh \in Contents /\ Free \in Contents
    /\ \A s \in Names, r \in Regions : Klines(s, r) \in Contents /\ Klines(s, r) # Free
<1>1. Klines(Garbage, Garbage) # Klines("free", "free")
  BY DEF Klines, Garbage
<1>2. ASSUME NEW s \in Names, NEW r \in Regions
      PROVE  Klines(s, r) # Klines("free", "free")
  <2>1. r # "free"
    BY TableAssumption
  <2>2. QED
    BY <2>1 DEF Klines
<1>3. QED
  BY <1>1, <1>2 DEF Fresh, Free, Contents

\* Slots and empty entries, and what the operators on them return.
LEMMA SlotTypes ==
    /\ EmptySlot \notin Slot
    /\ \A s \in Symbols, b \in Blocks : NewSlot(s, b) \in Slot /\ NewSlot(s, b).block = b
    /\ \A slot \in Slot : slot.block \in Blocks /\ slot.symbol \in Symbols
    /\ \A slot \in Slot \cup {EmptySlot} : slot.strikes \in 0 .. MaxStrikes
BY TableAssumption DEF EmptySlot, Slot, NewSlot, SlotStates, Garbage

\* A move permutes the entries in use: MovedFrom(j, i, .) undoes it.
LEMMA MoveUndone ==
    ASSUME NEW n \in Nat, NEW i \in 0 .. n - 1, NEW j \in 0 .. n - 1, i # j,
           NEW k \in 0 .. n - 1
    PROVE  /\ MovedFrom(i, j, k) \in 0 .. n - 1
           /\ MovedFrom(j, i, MovedFrom(i, j, k)) = k
BY DEF MovedFrom

LEMMA SizePositive == MaxSymbols \in Nat \ {0}
BY TableAssumption

\* Where the sync task is when it has nothing in hand.
LEMMA LoopOK ==
    /\ Loop \in Locals
    /\ Loop.step = "Idle" /\ Loop.k = 0 /\ Loop.due = <<>> /\ Loop.names = <<>>
<1>1. <<>> \in Seq(Indices) /\ <<>> \in Seq(Names)
  OBVIOUS
<1>2. QED
  BY <1>1, TableAssumption DEF Loop, Locals, Steps

-----------------------------------------------------------------------------
(* The initial states.                                                     *)

LEMMA InitIInv == SyncInit => IInv
<1> SUFFICES ASSUME SyncInit PROVE IInv
  OBVIOUS
<1>1. PICK list \in InitialLists, n \in 0 .. MaxSymbols, blocks \in [Indices -> Blocks] :
          /\ DOMAIN list = 0 .. n - 1
          /\ \A i, j \in Indices : blocks[i] = blocks[j] => i = j
          /\ count = n
          /\ table = [i \in Indices |-> IF i < n THEN NewSlot(list[i], blocks[i]) ELSE EmptySlot]
          /\ heap = [b \in Blocks |-> IF \E i \in 0 .. n - 1 : blocks[i] = b THEN Fresh ELSE Free]
  BY DEF SyncInit, TableInit
<1>2. region \in Regions /\ force = FALSE /\ ui = UiIdle /\ edits = 0
  BY DEF SyncInit, TableInit
<1>3. sync = Loop /\ waiting = [i \in Indices |-> FALSE] /\ offline = FALSE
  BY DEF SyncInit
<1>4. \A i \in 0 .. n - 1 : i \in Indices /\ list[i] \in Symbols
  <2>1. PICK m \in 0 .. MaxSymbols : list \in [0 .. m - 1 -> Symbols]
    BY TableAssumption
  <2>2. QED
    BY <1>1, <2>1, TableAssumption DEF Indices
<1>5. \A i \in Live : table[i] \in Slot /\ table[i].block = blocks[i]
  BY <1>1, <1>4, SlotTypes, TableAssumption DEF Live, Indices
<1>6. table \in [Indices -> Slot \cup {EmptySlot}]
  BY <1>1, <1>4, SlotTypes, TableAssumption DEF Indices
<1>7. heap \in [Blocks -> Contents]
  BY <1>1, KlinesNotFree
<1>8. TableTypeOK
  <2>1. ui \in [step : UiSteps, block : Blocks \cup {NoBlock}, symbol : Names]
    BY <1>2 DEF UiIdle, UiSteps, Names
  <2>2. count \in 0 .. MaxSymbols
    BY <1>1
  <2>3. region \in Regions /\ force \in BOOLEAN
    BY <1>2
  <2>4. edits \in 0 .. EditMax
    BY <1>2, TableAssumption
  <2>5. QED
    BY <1>5, <1>6, <1>7, <2>1, <2>2, <2>3, <2>4 DEF TableTypeOK
<1>9. SyncTypeOK
  BY <1>3, <1>8, LoopOK DEF SyncTypeOK
<1>10. UiHolds /\ LocalsOK /\ EntryWritten
  BY <1>2, <1>3, TableAssumption DEF UiHolds, UiIdle, LocalsOK, Loop, InBatch, EntryWritten
<1>11. BlocksOwned
  <2>1. \A b \in Blocks : heap[b] # Free <=> \E i \in Live : blocks[i] = b
    BY <1>1, KlinesNotFree DEF Live
  <2>2. ui.block = NoBlock /\ NoBlock \notin Blocks
    BY <1>2, TableAssumption DEF UiIdle
  <2>3. Live \subseteq Indices
    BY <1>1, <1>4 DEF Live
  <2>4. \A i \in Live : blocks[i] \in Blocks
    BY <2>3
  <2>5. Held = {b \in Blocks : heap[b] # Free}
    <3>1. Held = {blocks[i] : i \in Live}
      BY <1>5, <2>2, <2>4 DEF Held
    <3>2. QED
      BY <3>1, <2>1, <2>4
  <2>6. \A i, j \in Live : table[i].block = table[j].block => i = j
    <3>1. \A i, j \in Indices : blocks[i] = blocks[j] => i = j
      BY <1>1
    <3>2. QED
      BY <3>1, <1>5, <2>3
  <2>7. \A i \in Live : table[i].block # ui.block
    BY <1>5, <2>2, SlotTypes
  <2>8. QED
    BY <2>5, <2>6, <2>7 DEF BlocksOwned
<1>12. QED
  BY <1>9, <1>10, <1>11 DEF IInv

-----------------------------------------------------------------------------
(* The steps of the sync task.                                             *)

\* What stays true when the table is left alone.
LEMMA TableStays ==
    ASSUME IInv, UNCHANGED unchangedTable, force' \in BOOLEAN
    PROVE  TableTypeOK' /\ UiHolds' /\ BlocksOwned'
<1>1. /\ table' = table /\ count' = count /\ heap' = heap
      /\ region' = region /\ ui' = ui /\ edits' = edits
  BY DEF unchangedTable
<1>2. Live' = Live /\ Held' = Held
  BY <1>1 DEF Live, Held
<1>3. TableTypeOK'
  BY <1>1, <1>2 DEF IInv, SyncTypeOK, TableTypeOK
<1>4. UiHolds'
  BY <1>1 DEF IInv, UiHolds
<1>5. BlocksOwned'
  BY <1>1, <1>2 DEF IInv, BlocksOwned
<1>6. QED
  BY <1>3, <1>4, <1>5

\* Collecting: at most one index is added for each one looked at.
LEMMA CollectIInv ==
    ASSUME IInv, SyncDisconnected \/ SyncConnected \/ SyncStart \/ SyncClear
                 \/ SyncCollect \/ SyncCollectLocked
    PROVE  IInv'
<1>1. /\ UNCHANGED unchangedTable
      /\ force' \in BOOLEAN
  <2>1. force \in BOOLEAN
    BY DEF IInv, SyncTypeOK, TableTypeOK
  <2>2. CASE SyncStart
    BY <2>1, <2>2, SyncAssumption, Zenon DEF SyncStart
  <2>3. CASE ~SyncStart
    BY <2>1, <2>3, Zenon DEF SyncDisconnected, SyncConnected, SyncClear, SyncCollect, SyncCollectLocked
  <2>4. QED
    BY <2>2, <2>3
<1>2. TableTypeOK' /\ UiHolds' /\ BlocksOwned'
  BY <1>1, TableStays
<1>3. /\ sync \in Locals /\ LocalsOK
      /\ count \in 0 .. MaxSymbols /\ force \in BOOLEAN
      /\ waiting \in [Indices -> BOOLEAN]
      /\ offline \in BOOLEAN
  BY DEF IInv, SyncTypeOK, TableTypeOK
<1>4. CASE SyncDisconnected \/ SyncConnected
  <2>1. sync' = sync /\ sync.step = "Idle" /\ waiting' = waiting /\ offline' \in BOOLEAN
    BY <1>4 DEF SyncDisconnected, SyncConnected
  <2>2. LocalsOK' /\ EntryWritten'
    BY <1>3, <2>1 DEF LocalsOK, EntryWritten
  <2>3. QED
    BY <1>2, <1>3, <2>1, <2>2 DEF IInv, SyncTypeOK
<1>5. CASE SyncStart
  <2>1. sync' \in Locals
    BY <1>3, <1>5, SizePositive DEF SyncStart, CurrentCount, Locals, Steps, LocalsOK, Indices
  <2>2. LocalsOK'
    BY <1>3, <1>5, SizePositive DEF SyncStart, CurrentCount, Locals, LocalsOK, InBatch, Indices
  <2>3. EntryWritten'
    BY <1>3, <1>5, SizePositive DEF SyncStart, CurrentCount, Locals, EntryWritten
  <2>4. QED
    BY <1>2, <1>3, <1>5, <2>1, <2>2, <2>3 DEF IInv, SyncTypeOK, SyncStart
<1>6. CASE SyncClear
  <2>1. sync' \in Locals /\ LocalsOK' /\ EntryWritten'
    BY <1>3, <1>6, SizePositive
    DEF SyncClear, Goto, Locals, Steps, LocalsOK, InBatch, EntryWritten
  <2>2. QED
    BY <1>2, <1>3, <1>6, <2>1 DEF IInv, SyncTypeOK, SyncClear
<1>7. CASE SyncCollect
  <2>1. CASE sync' = Loop
    <3>1. LocalsOK' /\ EntryWritten'
      BY <2>1, LoopOK, SizePositive DEF LocalsOK, InBatch, EntryWritten
    <3>2. QED
      BY <1>2, <1>3, <1>7, <2>1, <3>1, LoopOK DEF IInv, SyncTypeOK, SyncCollect
  <2>2. CASE sync.k < sync.n /\ sync.step = "Collect" /\ sync' = [sync EXCEPT !.step = "CollectLocked"]
    <3>1. sync' \in Locals
      BY <1>3, <2>2, SizePositive DEF Locals, Steps, LocalsOK
    <3>2. LocalsOK'
      BY <1>3, <2>2, SizePositive DEF Locals, LocalsOK, InBatch
    <3>3. EntryWritten'
      BY <1>3, <2>2 DEF Locals, EntryWritten
    <3>4. QED
      BY <1>2, <1>3, <1>7, <3>1, <3>2, <3>3 DEF IInv, SyncTypeOK, SyncCollect
  <2>3. CASE sync.k < sync.n /\ sync.step = "Collect" /\ sync' = [sync EXCEPT !.k = sync.k + 1]
    <3>1. sync' \in Locals
      BY <1>3, <2>3, SizePositive, SMTT(30) DEF Locals, Steps, LocalsOK
    <3>2. LocalsOK'
      BY <1>3, <2>3, SizePositive DEF Locals, LocalsOK, InBatch
    <3>3. EntryWritten'
      BY <1>3, <2>3 DEF Locals, EntryWritten
    <3>4. QED
      BY <1>2, <1>3, <1>7, <3>1, <3>2, <3>3 DEF IInv, SyncTypeOK, SyncCollect
  <2>4. CASE /\ sync.k = sync.n /\ sync.step = "Collect"
             /\ sync' = [sync EXCEPT !.step = "Name", !.k = 0, !.n = 0]
    <3>1. sync' \in Locals
      <4>1. 0 \in 0 .. MaxSymbols
        BY SizePositive
      <4>2. QED
        BY <1>3, <2>4, <4>1 DEF Locals, Steps
    <3>2. LocalsOK'
      BY <1>3, <2>4, SizePositive DEF Locals, LocalsOK, InBatch
    <3>3. EntryWritten'
      BY <1>3, <2>4 DEF Locals, EntryWritten
    <3>4. QED
      BY <1>2, <1>3, <1>7, <3>1, <3>2, <3>3 DEF IInv, SyncTypeOK, SyncCollect
  <2>5. QED
    BY <1>7, <2>1, <2>2, <2>3, <2>4 DEF SyncCollect, Goto, Rest
<1>8. CASE SyncCollectLocked
  <2>1. /\ sync.step = "CollectLocked" /\ sync.k < sync.n /\ sync.k \in Indices
        /\ sync.k + 1 \in 0 .. MaxSymbols
    BY <1>3, <1>8, SizePositive DEF SyncCollectLocked, Locals, LocalsOK, Indices
  <2>2. DEFINE due == IF Due(table[sync.k], sync.k) THEN Append(sync.due, sync.k) ELSE sync.due
  <2>3. due \in Seq(Indices) /\ Len(due) =< Len(sync.due) + 1
    <3>1. sync.due \in Seq(Indices)
      BY <1>3 DEF Locals
    <3>2. QED
      BY <2>1, <3>1
  <2>4. sync' = [sync EXCEPT !.step = "Collect", !.k = sync.k + 1, !.due = due]
    BY <1>8 DEF SyncCollectLocked
  <2> HIDE DEF due
  <2>5. sync' \in Locals
    BY <1>3, <2>1, <2>3, <2>4 DEF Locals, Steps
  <2>6. LocalsOK'
    BY <1>3, <2>1, <2>3, <2>4, SizePositive DEF Locals, LocalsOK, InBatch
  <2>7. EntryWritten'
    BY <1>3, <2>4 DEF Locals, EntryWritten
  <2>8. QED
    BY <1>2, <1>3, <1>8, <2>5, <2>6, <2>7 DEF IInv, SyncTypeOK, SyncCollectLocked
<1>9. QED
  BY <1>4, <1>5, <1>6, <1>7, <1>8

\* The index in hand lies in the table.
LEMMA IndexOK ==
    ASSUME sync \in Locals, LocalsOK, sync.k < Len(sync.due)
    PROVE  Index \in Indices
<1>1. sync.due \in Seq(Indices) /\ sync.k \in Nat
  BY SizePositive DEF Locals
<1>2. sync.k + 1 \in 1 .. Len(sync.due)
  BY <1>1
<1>3. QED
  BY <1>1, <1>2 DEF Index

\* One more name has been copied.
LEMMA NameAdded ==
    ASSUME sync \in Locals, LocalsOK, NEW s \in Names, sync.k < Len(sync.due),
           sync.step \in {"Name", "NameLocked"},
           sync' = [sync EXCEPT !.step = "Name", !.k = sync.k + 1, !.names = Append(sync.names, s)]
    PROVE  sync' \in Locals /\ LocalsOK' /\ EntryWritten'
<1>1. /\ sync.names \in Seq(Names) /\ sync.due \in Seq(Indices)
      /\ sync.k \in Nat /\ Len(sync.names) = sync.k /\ Len(sync.due) =< MaxSymbols
  BY SizePositive DEF Locals, LocalsOK
<1>2. sync.k + 1 \in 0 .. MaxSymbols /\ sync.k + 1 =< Len(sync.due)
  BY <1>1, SizePositive
<1>3. /\ Append(sync.names, s) \in Seq(Names)
      /\ Len(Append(sync.names, s)) = sync.k + 1
  BY <1>1
<1>4. sync' \in Locals
  BY <1>2, <1>3 DEF Locals, Steps
<1>5. LocalsOK'
  BY <1>1, <1>2, <1>3 DEF Locals, LocalsOK, InBatch
<1>6. EntryWritten'
  BY DEF Locals, EntryWritten
<1>7. QED
  BY <1>4, <1>5, <1>6

\* The loop over the results goes on.
LEMMA NextResultOK ==
    ASSUME sync \in Locals, LocalsOK, sync.step \in InBatch, sync.k < Len(sync.due), NextResult
    PROVE  sync' \in Locals /\ LocalsOK' /\ EntryWritten'
<1>1. sync.k \in Nat /\ sync.due \in Seq(Indices) /\ Len(sync.due) =< MaxSymbols
  BY SizePositive DEF Locals, LocalsOK
<1>2. sync.k + 1 \in 0 .. MaxSymbols /\ sync.k + 1 =< Len(sync.due)
  BY <1>1, SizePositive
<1>3. sync' \in Locals
  BY <1>2 DEF NextResult, Locals, Steps
<1>4. LocalsOK'
  BY <1>2 DEF NextResult, Locals, LocalsOK, InBatch
<1>5. EntryWritten'
  BY DEF NextResult, Locals, EntryWritten
<1>6. QED
  BY <1>3, <1>4, <1>5

\* A name for each index collected, then the batch, then its results: up to
\* the lock that is taken to record one, nothing but local variables changes.
LEMMA BatchIInv ==
    ASSUME IInv, SyncName \/ SyncNameLocked \/ SyncFetch \/ SyncRefused \/ SyncResult
                 \/ SyncFault \/ SyncSuccessCheck \/ SyncStrikesCheck \/ SyncStrikesLocked
                 \/ SyncErrorCheck
    PROVE  IInv'
<1>1. /\ sync \in Locals /\ LocalsOK
      /\ count \in 0 .. MaxSymbols /\ force \in BOOLEAN /\ region \in Regions
      /\ table \in [Indices -> Slot \cup {EmptySlot}]
      /\ \A i \in Live : table[i] \in Slot
      /\ table' = table
  BY DEF IInv, SyncTypeOK, TableTypeOK, unchangedTable, SyncName, SyncNameLocked, SyncFetch,
         SyncRefused, SyncResult, SyncFault, SyncSuccessCheck, SyncStrikesCheck,
         SyncStrikesLocked, SyncErrorCheck
<1>2. SUFFICES sync' \in Locals /\ LocalsOK' /\ EntryWritten'
  <2>1. /\ UNCHANGED unchangedTable
        /\ UNCHANGED <<waiting, offline>>
        /\ force' \in BOOLEAN
    <3>1. CASE SyncRefused
      BY <1>1, <3>1, Zenon DEF SyncRefused
    <3>2. CASE ~SyncRefused
      BY <1>1, <3>2, Zenon DEF SyncName, SyncNameLocked, SyncFetch, SyncResult, SyncFault,
         SyncSuccessCheck, SyncStrikesCheck, SyncStrikesLocked, SyncErrorCheck
    <3>3. QED
      BY <3>1, <3>2
  <2>2. TableTypeOK' /\ UiHolds' /\ BlocksOwned'
    BY <2>1, TableStays
  <2>3. QED
    BY <2>1, <2>2 DEF IInv, SyncTypeOK
<1>3. CASE SyncRefused \/ (SyncResult /\ sync' = Loop)
  BY <1>3, LoopOK, SizePositive DEF SyncRefused, Rest, LocalsOK, InBatch, EntryWritten
<1>4. CASE SyncName
  <2>1. CASE sync.step = "Name" /\ sync.k < Len(sync.due) /\ sync' = [sync EXCEPT !.step = "NameLocked"]
    BY <1>1, <2>1 DEF Locals, Steps, LocalsOK, InBatch, EntryWritten
  <2>2. ASSUME NEW s \in Names, sync.step = "Name", sync.k < Len(sync.due),
               sync' = [sync EXCEPT !.names = Append(sync.names, s), !.k = sync.k + 1]
        PROVE  sync' \in Locals /\ LocalsOK' /\ EntryWritten'
    BY <1>1, <2>2, NameAdded
  <2>3. CASE sync.step = "Name" /\ sync.k = Len(sync.due) /\ sync' = [sync EXCEPT !.step = "Fetch"]
    BY <1>1, <2>3 DEF Locals, Steps, LocalsOK, InBatch, EntryWritten
  <2>4. QED
    BY <1>4, <2>1, <2>2, <2>3 DEF SyncName, Goto
<1>5. CASE SyncNameLocked
  <2>1. /\ sync.step = "NameLocked"
        /\ sync' = [sync EXCEPT !.step = "Name", !.k = sync.k + 1,
                               !.names = Append(sync.names, table[Index].symbol)]
    BY <1>5 DEF SyncNameLocked
  <2>2. sync.k < Len(sync.due)
    BY <1>1, <2>1 DEF LocalsOK
  <2>3. table[Index].symbol \in Names
    BY <1>1, <2>2, IndexOK, SlotTypes DEF Names, EmptySlot
  <2>4. QED
    BY <1>1, <2>1, <2>2, <2>3, NameAdded
<1>6. CASE SyncFetch
  <2>1. sync' \in Locals
    <3>1. 0 \in 0 .. MaxSymbols
      BY SizePositive
    <3>2. QED
      BY <1>1, <1>6, <3>1 DEF SyncFetch, Locals, Steps
  <2>2. LocalsOK'
    BY <1>1, <1>6, SizePositive DEF SyncFetch, Locals, LocalsOK, InBatch
  <2>3. EntryWritten'
    BY <1>1, <1>6 DEF SyncFetch, Locals, EntryWritten
  <2>4. QED
    BY <2>1, <2>2, <2>3
<1>7. CASE SyncResult /\ sync' # Loop
  <2>1. sync' \in Locals
    BY <1>1, <1>7 DEF SyncResult, Rest, Goto, Locals, Steps
  <2>2. LocalsOK'
    BY <1>1, <1>7 DEF SyncResult, Rest, Goto, Locals, LocalsOK, InBatch
  <2>3. EntryWritten'
    BY <1>1, <1>7 DEF SyncResult, Rest, Goto, Locals, EntryWritten
  <2>4. QED
    BY <2>1, <2>2, <2>3
<1>8. CASE SyncFault
  <2>1. sync' \in Locals
    BY <1>1, <1>8 DEF SyncFault, Locals, Steps
  <2>2. LocalsOK'
    BY <1>1, <1>8 DEF SyncFault, Locals, LocalsOK, InBatch
  <2>3. EntryWritten'
    BY <1>1, <1>8 DEF SyncFault, Locals, EntryWritten
  <2>4. QED
    BY <2>1, <2>2, <2>3
<1>9. CASE SyncSuccessCheck
  <2>1. CASE Index < count /\ Goto("SuccessLocked")
    <3>1. sync' \in Locals /\ LocalsOK'
      BY <1>1, <1>9, <2>1 DEF SyncSuccessCheck, Goto, Locals, Steps, LocalsOK, InBatch
    <3>2. sync.k < Len(sync.due) /\ sync.due \in Seq(Indices)
      BY <1>1, <1>9 DEF SyncSuccessCheck, Locals, LocalsOK, InBatch
    <3>3. Index \in Live
      BY <1>1, <2>1, <3>2, IndexOK, SizePositive DEF Live, Indices
    <3>4. table'[Index'] \in Slot
      BY <1>1, <2>1, <3>3 DEF Goto, Index, Locals
    <3>5. QED
      BY <3>1, <3>4 DEF EntryWritten
  <2>2. CASE NextResult
    BY <1>1, <1>9, <2>2, NextResultOK DEF SyncSuccessCheck, LocalsOK, InBatch
  <2>3. QED
    BY <1>9, <2>1, <2>2 DEF SyncSuccessCheck, RecordAt
<1>10. CASE SyncStrikesCheck \/ SyncStrikesLocked
  <2>1. sync' \in Locals
    <3>1. CASE Goto("StrikesLocked")
      BY <1>1, <3>1 DEF Goto, Locals, Steps
    <3>2. ASSUME NEW yes \in BOOLEAN,
                 sync' = [sync EXCEPT !.step = "ErrorCheck", !.recoverable = yes]
          PROVE  sync' \in Locals
      BY <1>1, <3>2 DEF Locals, Steps
    <3>3. (table[Index].strikes + 1 < MaxStrikes) \in BOOLEAN
      OBVIOUS
    <3>4. QED
      BY <1>10, <3>1, <3>2, <3>3, Zenon DEF SyncStrikesCheck, SyncStrikesLocked
  <2>2. LocalsOK'
    <3>1. /\ sync.step \in {"StrikesCheck", "StrikesLocked"}
          /\ sync'.step \in {"StrikesLocked", "ErrorCheck"}
          /\ sync'.k = sync.k /\ sync'.due = sync.due /\ sync'.names = sync.names
          /\ sync'.base = sync.base
      BY <1>1, <1>10 DEF SyncStrikesCheck, SyncStrikesLocked, Goto, Locals
    <3>2. QED
      BY <1>1, <3>1 DEF LocalsOK, InBatch
  <2>3. EntryWritten'
    BY <1>1, <1>10 DEF SyncStrikesCheck, SyncStrikesLocked, Goto, Locals, EntryWritten
  <2>4. QED
    BY <2>1, <2>2, <2>3
<1>11. CASE SyncErrorCheck
  <2>1. CASE Index < count /\ Goto("ErrorLocked")
    <3>1. sync' \in Locals /\ LocalsOK'
      BY <1>1, <1>11, <2>1 DEF SyncErrorCheck, Goto, Locals, Steps, LocalsOK, InBatch
    <3>2. sync.k < Len(sync.due) /\ sync.due \in Seq(Indices)
      BY <1>1, <1>11 DEF SyncErrorCheck, Locals, LocalsOK, InBatch
    <3>3. Index \in Live
      BY <1>1, <2>1, <3>2, IndexOK, SizePositive DEF Live, Indices
    <3>4. table'[Index'] \in Slot
      BY <1>1, <2>1, <3>3 DEF Goto, Index, Locals
    <3>5. QED
      BY <3>1, <3>4 DEF EntryWritten
  <2>2. CASE Index >= count /\ Goto("Backoff")
    BY <1>1, <1>11, <2>2 DEF SyncErrorCheck, Goto, Locals, Steps, LocalsOK, InBatch, EntryWritten
  <2>3. QED
    BY <1>11, <2>1, <2>2 DEF SyncErrorCheck
<1>12. QED
  BY <1>3, <1>4, <1>5, <1>6, <1>7, <1>8, <1>9, <1>10, <1>11

\* What is recorded of a success or a failure is a slot again, in its block.
LEMMA SlotRecorded ==
    ASSUME NEW slot \in Slot, NEW recoverable \in BOOLEAN, NEW notFound \in BOOLEAN
    PROVE  LET good == [slot EXCEPT !.state = "Synced", !.strikes = 0, !.filled = TRUE]
               bad  == [slot EXCEPT !.state = IF recoverable THEN "Degraded" ELSE "Error",
                                    !.strikes = IF notFound /\ @ < MaxStrikes THEN @ + 1 ELSE @]
           IN  /\ good \in Slot /\ good.block = slot.block
               /\ bad \in Slot /\ bad.block = slot.block
<1> DEFINE strikes == IF notFound /\ slot.strikes < MaxStrikes
                      THEN slot.strikes + 1 ELSE slot.strikes
           state == IF recoverable THEN "Degraded" ELSE "Error"
<1>1. strikes \in 0 .. MaxStrikes /\ 0 \in 0 .. MaxStrikes
  BY TableAssumption DEF Slot
<1>2. state \in SlotStates
  BY DEF SlotStates
<1> HIDE DEF strikes, state
<1>3. /\ [slot EXCEPT !.state = state, !.strikes = strikes] \in Slot
      /\ [slot EXCEPT !.state = state, !.strikes = strikes].block = slot.block
  BY <1>1, <1>2 DEF Slot
<1>4. /\ [slot EXCEPT !.state = "Synced", !.strikes = 0, !.filled = TRUE] \in Slot
      /\ [slot EXCEPT !.state = "Synced", !.strikes = 0, !.filled = TRUE].block = slot.block
  BY <1>1 DEF Slot, SlotStates
<1>5. QED
  BY <1>3, <1>4 DEF strikes, state

\* An entry is rewritten and keeps its block.
LEMMA EntryRewritten ==
    ASSUME IInv, NEW i \in Indices, NEW slot \in Slot, table[i] \in Slot,
           slot.block = table[i].block,
           table' = [table EXCEPT ![i] = slot],
           heap' \in [Blocks -> Contents],
           \A b \in Blocks : heap'[b] = Free <=> heap[b] = Free,
           UNCHANGED <<count, region, force, ui, edits>>
    PROVE  TableTypeOK' /\ UiHolds' /\ BlocksOwned'
<1>1. TableTypeOK /\ UiHolds /\ BlocksOwned
  BY DEF IInv, SyncTypeOK
<1>2. /\ table' \in [Indices -> Slot \cup {EmptySlot}]
      /\ \A k \in Indices : table'[k].block = table[k].block
      /\ \A k \in Indices : table[k] \in Slot => table'[k] \in Slot
  BY <1>1 DEF TableTypeOK
<1>3. Live' = Live /\ Live \subseteq Indices
  BY <1>1, SizePositive DEF Live, TableTypeOK, Indices
<1>4. TableTypeOK'
  BY <1>1, <1>2, <1>3 DEF TableTypeOK
<1>5. UiHolds'
  BY <1>1 DEF UiHolds
<1>6. Held' = Held
  BY <1>2, <1>3 DEF Held
<1>7. BlocksOwned'
  BY <1>1, <1>2, <1>3, <1>6 DEF BlocksOwned
<1>8. QED
  BY <1>4, <1>5, <1>7

\* The results themselves: a success fills the block of its entry, a failure
\* changes the entry's state.
LEMMA RecordIInv ==
    ASSUME IInv, SyncSuccessLocked \/ SyncErrorLocked \/ SyncBackoff
    PROVE  IInv'
<1>1. /\ sync \in Locals /\ LocalsOK /\ EntryWritten /\ TableTypeOK /\ UiHolds /\ BlocksOwned
      /\ waiting \in [Indices -> BOOLEAN] /\ offline \in BOOLEAN
  BY DEF IInv, SyncTypeOK
<1>2. /\ sync.step \in InBatch /\ sync.k < Len(sync.due) /\ sync.base \in Regions
      /\ Index \in Indices
  BY <1>1, IndexOK DEF LocalsOK, InBatch, SyncSuccessLocked, SyncErrorLocked, SyncBackoff
<1>3. CASE SyncBackoff
  <2>1. sync' \in Locals /\ LocalsOK' /\ EntryWritten'
    BY <1>1, <1>2, <1>3, NextResultOK DEF SyncBackoff
  <2>2. TableTypeOK' /\ UiHolds' /\ BlocksOwned'
    BY <1>1, <1>3, TableStays DEF SyncBackoff, TableTypeOK
  <2>3. waiting' \in [Indices -> BOOLEAN]
    BY <1>1, <1>3 DEF SyncBackoff, Locals
  <2>4. QED
    BY <1>1, <1>3, <2>1, <2>2, <2>3 DEF IInv, SyncTypeOK, SyncBackoff
<1>4. CASE SyncErrorLocked
  <2>1. table[Index] \in Slot
    BY <1>1, <1>4 DEF SyncErrorLocked, EntryWritten
  <2>2. PICK slot \in Slot : /\ slot.block = table[Index].block
                             /\ table' = [table EXCEPT ![Index] = slot]
    BY <1>4, <2>1, SlotRecorded DEF SyncErrorLocked
  <2>3. TableTypeOK' /\ UiHolds' /\ BlocksOwned'
    BY <1>1, <1>2, <1>4, <2>1, <2>2, EntryRewritten DEF SyncErrorLocked, TableTypeOK
  <2>4. sync' \in Locals /\ LocalsOK' /\ EntryWritten'
    BY <1>1, <1>2, <1>4 DEF SyncErrorLocked, Goto, Locals, Steps, LocalsOK, InBatch, EntryWritten
  <2>5. QED
    BY <1>1, <1>4, <2>3, <2>4 DEF IInv, SyncTypeOK, SyncErrorLocked
<1>5. CASE SyncSuccessLocked
  <2>1. table[Index] \in Slot /\ RecordAt = Index
    BY <1>1, <1>5 DEF SyncSuccessLocked, EntryWritten, RecordAt
  <2>2. PICK slot \in Slot : /\ slot.block = table[Index].block
                             /\ table' = [table EXCEPT ![Index] = slot]
    BY <1>5, <2>1, SlotRecorded DEF SyncSuccessLocked
  <2>3. Klines(Fetched, sync.base) \in Contents /\ Klines(Fetched, sync.base) # Free
    <3>1. /\ sync.names \in Seq(Names) /\ sync.k \in Nat
          /\ sync.k + 1 \in 1 .. Len(sync.names)
      BY <1>1, <1>2, SizePositive DEF Locals, LocalsOK, InBatch
    <3>2. Fetched \in Names
      BY <3>1 DEF Fetched
    <3>3. QED
      BY <1>2, <3>2, KlinesNotFree
  <2>4. /\ heap' \in [Blocks -> Contents]
        /\ \A b \in Blocks : heap'[b] = Free <=> heap[b] = Free
    BY <1>1, <1>5, <2>1, <2>3, KlinesNotFree DEF SyncSuccessLocked, TableTypeOK
  <2>5. TableTypeOK' /\ UiHolds' /\ BlocksOwned'
    BY <1>1, <1>2, <1>5, <2>1, <2>2, <2>4, EntryRewritten DEF SyncSuccessLocked
  <2>6. sync' \in Locals /\ LocalsOK' /\ EntryWritten'
    BY <1>1, <1>2, <1>5, NextResultOK DEF SyncSuccessLocked
  <2>7. QED
    BY <1>1, <1>5, <2>5, <2>6 DEF IInv, SyncTypeOK, SyncSuccessLocked
<1>6. QED
  BY <1>3, <1>4, <1>5

-----------------------------------------------------------------------------
(* The steps of the UI task.                                               *)

\* The sync task's part of the invariant, when only the table changes: an
\* entry that was written stays written.
LEMMA SyncStays ==
    ASSUME IInv, UNCHANGED <<sync, waiting, offline>>,
           TableTypeOK', UiHolds', BlocksOwned',
           \A i \in Indices : table[i] \in Slot => table'[i] \in Slot
    PROVE  IInv'
<1>1. SyncTypeOK'
  BY DEF IInv, SyncTypeOK
<1>2. LocalsOK'
  BY DEF IInv, LocalsOK
<1>3. EntryWritten'
  <2>1. CASE sync.step \in {"SuccessLocked", "ErrorLocked"}
    <3>1. Index \in Indices
      BY <2>1, IndexOK DEF IInv, SyncTypeOK, LocalsOK, InBatch
    <3>2. QED
      BY <2>1, <3>1 DEF IInv, EntryWritten, Index
  <2>2. CASE sync.step \notin {"SuccessLocked", "ErrorLocked"}
    BY <2>2 DEF EntryWritten
  <2>3. QED
    BY <2>1, <2>2
<1>4. QED
  BY <1>1, <1>2, <1>3 DEF IInv

\* An addition takes a free block in hand and gives it to the new entry.
LEMMA AddIInv ==
    ASSUME IInv, UiAddAllocate \/ UiAddLocked, UNCHANGED <<sync, waiting, offline>>
    PROVE  IInv'
<1>1. /\ TableTypeOK /\ UiHolds /\ BlocksOwned
      /\ Live \subseteq Indices
  BY SizePositive DEF IInv, SyncTypeOK, TableTypeOK, Live, Indices
<1>2. CASE UiAddAllocate
  <2>1. PICK s \in Symbols, b \in Blocks :
            /\ heap[b] = Free
            /\ heap' = [heap EXCEPT ![b] = Fresh]
            /\ ui' = [step |-> "AddLocked", block |-> b, symbol |-> s]
    BY <1>2 DEF UiAddAllocate
  <2>2. /\ ui = UiIdle /\ edits' = edits + 1 /\ edits < EditMax
        /\ UNCHANGED <<table, count, region, force>>
    BY <1>2 DEF UiAddAllocate, StartEdit
  <2>3. Live' = Live
    BY <2>2 DEF Live
  <2>4. TableTypeOK'
    <3>1. ui' \in [step : UiSteps, block : Blocks \cup {NoBlock}, symbol : Names]
      BY <2>1 DEF UiSteps, Names
    <3>2. heap' \in [Blocks -> Contents]
      BY <1>1, <2>1, KlinesNotFree DEF TableTypeOK
    <3>3. edits' \in 0 .. EditMax
      BY <1>1, <2>2, TableAssumption DEF TableTypeOK
    <3>4. QED
      BY <1>1, <2>2, <2>3, <3>1, <3>2, <3>3 DEF TableTypeOK
  <2>5. UiHolds'
    BY <2>1 DEF UiHolds
  <2>6. BlocksOwned'
    <3>1. ui.block = NoBlock /\ ui'.block = b /\ b # NoBlock
      BY <2>1, <2>2, TableAssumption DEF UiIdle
    <3>2. Held' = Held \cup {b}
      BY <2>2, <2>3, <3>1 DEF Held
    <3>3. \A c \in Blocks : heap'[c] # Free <=> heap[c] # Free \/ c = b
      BY <1>1, <2>1, KlinesNotFree DEF TableTypeOK
    <3>4. \A i \in Live : table[i].block # b
      BY <1>1, <2>1 DEF BlocksOwned, Held, TableTypeOK
    <3>5. QED
      BY <1>1, <2>2, <2>3, <3>1, <3>2, <3>3, <3>4 DEF BlocksOwned
  <2>7. QED
    BY <1>1, <2>2, <2>4, <2>5, <2>6, SyncStays
<1>3. CASE UiAddLocked
  <2>1. ui.step = "AddLocked" /\ ui.block \in Blocks /\ ui.symbol \in Symbols
    BY <1>1, <1>3 DEF UiAddLocked, UiHolds
  <2>2. CASE count >= MaxSymbols
    <3>1. ui' = [ui EXCEPT !.step = "FreeBlock"] /\ UNCHANGED <<table, count, heap, region, force, edits>>
      BY <1>1, <1>3, <2>2, SizePositive DEF UiAddLocked, TableTypeOK
    <3>2. ui'.block = ui.block /\ ui'.step = "FreeBlock"
      BY <1>1, <3>1 DEF TableTypeOK
    <3>3. Live' = Live /\ Held' = Held
      BY <3>1, <3>2 DEF Live, Held
    <3>4. TableTypeOK'
      BY <1>1, <3>1, <3>3 DEF TableTypeOK, UiSteps
    <3>5. UiHolds' /\ BlocksOwned'
      BY <1>1, <2>1, <3>1, <3>2, <3>3 DEF UiHolds, BlocksOwned
    <3>6. QED
      BY <1>1, <3>1, <3>4, <3>5, SyncStays
  <2>3. CASE count < MaxSymbols
    <3> DEFINE new == NewSlot(ui.symbol, ui.block)
    <3>1. new \in Slot /\ new.block = ui.block
      BY <2>1, SlotTypes
    <3> HIDE DEF new
    <3>2. /\ table' = [table EXCEPT ![count] = new]
          /\ count' = count + 1 /\ ui' = UiIdle
          /\ UNCHANGED <<heap, region, force, edits>>
      BY <1>1, <1>3, <2>3, SizePositive DEF UiAddLocked, Appended, TableTypeOK, new
    <3>3. /\ count \in Indices /\ count \notin Live
          /\ Live' = Live \cup {count} /\ count' \in 0 .. MaxSymbols
      BY <1>1, <2>3, <3>2, SizePositive DEF Live, Indices, TableTypeOK
    <3>4. /\ table' \in [Indices -> Slot \cup {EmptySlot}]
          /\ table'[count] = new
          /\ \A i \in Indices : i # count => table'[i] = table[i]
      BY <1>1, <3>1, <3>2, <3>3 DEF TableTypeOK
    <3>5. TableTypeOK'
      BY <1>1, <3>1, <3>2, <3>3, <3>4 DEF TableTypeOK, UiIdle, UiSteps, Names
    <3>6. UiHolds'
      BY <3>2, TableAssumption DEF UiHolds, UiIdle
    <3>7. BlocksOwned'
      <4>1. ui'.block = NoBlock /\ NoBlock \notin Blocks /\ ui.block # NoBlock
        BY <2>1, <3>2, TableAssumption DEF UiIdle
      <4>2. Held' = Held
        BY <1>1, <3>1, <3>3, <3>4, <4>1 DEF Held
      <4>3. \A i \in Live' : table'[i].block \in Blocks
        BY <1>1, <2>1, <3>1, <3>3, <3>4, SlotTypes DEF TableTypeOK
      <4>4. \A i, j \in Live' : table'[i].block = table'[j].block => i = j
        BY <1>1, <3>1, <3>3, <3>4 DEF BlocksOwned
      <4>5. QED
        BY <1>1, <3>2, <4>1, <4>2, <4>3, <4>4 DEF BlocksOwned
    <3>8. QED
      BY <1>1, <3>1, <3>4, <3>5, <3>6, <3>7, SyncStays
  <2>4. QED
    BY <1>1, <2>2, <2>3, SizePositive DEF TableTypeOK
<1>4. QED
  BY <1>2, <1>3

\* A removal puts the entry's block in the hands of the UI task, which frees it.
LEMMA RemoveIInv ==
    ASSUME IInv, UiRemoveLocked \/ UiFreeBlock, UNCHANGED <<sync, waiting, offline>>
    PROVE  IInv'
<1>1. /\ TableTypeOK /\ UiHolds /\ BlocksOwned
      /\ Live \subseteq Indices
  BY SizePositive DEF IInv, SyncTypeOK, TableTypeOK, Live, Indices
<1>2. CASE UiRemoveLocked
  <2>1. PICK i \in Live :
            /\ table' = [k \in Indices |->
                            IF i =< k /\ k < count - 1 THEN table[k + 1] ELSE table[k]]
            /\ ui' = [step |-> "FreeBlock", block |-> table[i].block, symbol |-> Garbage]
    BY <1>2 DEF UiRemoveLocked, BlockToFree, ShiftedDown
  <2>2. /\ ui = UiIdle /\ edits' = edits + 1 /\ edits < EditMax /\ count' = count - 1
        /\ UNCHANGED <<heap, region, force>>
    BY <1>2 DEF UiRemoveLocked, StartEdit
  <2>3. Live' \subseteq Live /\ count' \in 0 .. MaxSymbols
    BY <1>1, <2>1, <2>2, SizePositive DEF Live, TableTypeOK
  <2>4. \A k \in Indices : table'[k] = table[k] \/ (k + 1 \in Live /\ table'[k] = table[k + 1])
    BY <1>1, <2>1, SizePositive DEF Live, Indices, TableTypeOK
  <2>5. \A k \in Indices : table[k] \in Slot => table'[k] \in Slot
    BY <1>1, <2>4 DEF TableTypeOK
  <2>6. TableTypeOK'
    <3>1. table' \in [Indices -> Slot \cup {EmptySlot}]
      BY <1>1, <2>1, <2>4 DEF TableTypeOK
    <3>2. ui' \in [step : UiSteps, block : Blocks \cup {NoBlock}, symbol : Names]
      BY <1>1, <2>1, SlotTypes DEF UiSteps, Names, TableTypeOK
    <3>3. edits' \in 0 .. EditMax
      BY <1>1, <2>2, TableAssumption DEF TableTypeOK
    <3>4. \A k \in Live' : table'[k] \in Slot
      BY <1>1, <2>3, <2>5 DEF TableTypeOK
    <3>5. QED
      BY <1>1, <2>2, <2>3, <3>1, <3>2, <3>3, <3>4 DEF TableTypeOK
  <2>7. table[i].block \in Blocks
    BY <1>1, SlotTypes DEF TableTypeOK
  <2>8. UiHolds'
    BY <2>1, <2>7 DEF UiHolds
  <2>9. BlocksOwned'
    <3> DEFINE From(k) == IF i =< k THEN k + 1 ELSE k
    <3>1. \A k \in Live' : From(k) \in Live /\ From(k) # i /\ table'[k] = table[From(k)]
      BY <1>1, <2>1, <2>2, SizePositive DEF Live, Indices, TableTypeOK
    <3>2. \A k, l \in Live' : From(k) = From(l) => k = l
      BY <1>1, <2>2, SizePositive DEF Live, TableTypeOK
    <3>3. \A m \in Live : m # i => \E k \in Live' : From(k) = m
      <4>1. SUFFICES ASSUME NEW m \in Live, m # i
                     PROVE  \E k \in Live' : From(k) = m
        OBVIOUS
      <4>2. CASE m < i
        <5>1. m \in Live' /\ From(m) = m
          BY <1>1, <2>2, <4>2, SizePositive DEF Live, TableTypeOK
        <5>2. QED
          BY <5>1
      <4>3. CASE m > i
        <5>1. m - 1 \in Live' /\ From(m - 1) = m
          BY <1>1, <2>2, <4>3, SizePositive DEF Live, TableTypeOK
        <5>2. QED
          BY <5>1
      <4>4. QED
        BY <1>1, <4>1, <4>2, <4>3, SizePositive DEF Live, TableTypeOK
    <3> HIDE DEF From
    <3>4. ui.block = NoBlock /\ ui'.block = table[i].block /\ ui'.block # NoBlock
      BY <2>1, <2>2, <2>7, TableAssumption DEF UiIdle
    <3>5. Held' = Held
      <4>1. Held = {table[k].block : k \in Live}
        BY <1>1, <3>4, SlotTypes, TableAssumption DEF Held, TableTypeOK
      <4>2. Held' = {table'[k].block : k \in Live'} \cup {table[i].block}
        BY <3>4 DEF Held
      <4>3. QED
        BY <3>1, <3>3, <4>1, <4>2
    <3>6. \A k, l \in Live' : table'[k].block = table'[l].block => k = l
      BY <1>1, <3>1, <3>2 DEF BlocksOwned
    <3>7. \A k \in Live' : table'[k].block # ui'.block
      BY <1>1, <3>1, <3>4 DEF BlocksOwned
    <3>8. QED
      BY <1>1, <2>2, <3>5, <3>6, <3>7 DEF BlocksOwned
  <2>10. QED
    BY <2>2, <2>5, <2>6, <2>8, <2>9, SyncStays
<1>3. CASE UiFreeBlock
  <2>1. /\ ui.step = "FreeBlock" /\ ui.block \in Blocks
        /\ heap' = [heap EXCEPT ![ui.block] = Free] /\ ui' = UiIdle
        /\ UNCHANGED <<table, count, region, force, edits>>
    BY <1>1, <1>3 DEF UiFreeBlock, UiHolds
  <2>2. Live' = Live
    BY <2>1 DEF Live
  <2>3. TableTypeOK'
    BY <1>1, <2>1, <2>2, KlinesNotFree DEF TableTypeOK, UiIdle, UiSteps, Names
  <2>4. ui'.block = NoBlock /\ NoBlock \notin Blocks
    BY <2>1, TableAssumption DEF UiIdle
  <2>5. UiHolds'
    BY <2>1, <2>4 DEF UiHolds, UiIdle
  <2>6. BlocksOwned'
    <3>1. \A k \in Live : table[k].block \in Blocks /\ table[k].block # ui.block
      BY <1>1, SlotTypes DEF TableTypeOK, BlocksOwned
    <3>2. Held' = Held \ {ui.block}
      BY <2>1, <2>2, <2>4, <3>1 DEF Held
    <3>3. \A b \in Blocks : heap'[b] # Free <=> heap[b] # Free /\ b # ui.block
      BY <1>1, <2>1 DEF TableTypeOK
    <3>4. QED
      BY <1>1, <2>1, <2>2, <2>4, <3>1, <3>2, <3>3 DEF BlocksOwned
  <2>7. QED
    BY <2>1, <2>3, <2>5, <2>6, SyncStays
<1>4. QED
  BY <1>2, <1>3

\* A move permutes the entries, a change of server rewrites them in place.
LEMMA MoveIInv ==
    ASSUME IInv, UiMoveLocked, UNCHANGED <<sync, waiting, offline>>
    PROVE  IInv'
<1>1. /\ TableTypeOK /\ UiHolds /\ BlocksOwned
      /\ Live \subseteq Indices
  BY SizePositive DEF IInv, SyncTypeOK, TableTypeOK, Live, Indices
<1>2. PICK i \in Live, j \in Live :
          i # j /\ table' = [k \in Indices |-> table[MovedFrom(i, j, k)]]
  BY DEF UiMoveLocked
<1>3. ui = UiIdle /\ edits' = edits + 1 /\ edits < EditMax /\ UNCHANGED <<count, heap, region, force, ui>>
  BY DEF UiMoveLocked, StartEdit
<1>4. Live' = Live
  BY <1>3 DEF Live
<1>5. /\ \A k \in Live : MovedFrom(i, j, k) \in Live /\ table'[k] = table[MovedFrom(i, j, k)]
      /\ \A k \in Live : MovedFrom(j, i, MovedFrom(i, j, k)) = k
      /\ \A k \in Live : MovedFrom(j, i, k) \in Live /\ MovedFrom(i, j, MovedFrom(j, i, k)) = k
  BY <1>1, <1>2, MoveUndone, SizePositive DEF Live, TableTypeOK
<1>6. \A k \in Indices : k \notin Live => table'[k] = table[k]
  BY <1>1, <1>2, SizePositive DEF Live, Indices, MovedFrom, TableTypeOK
<1>7. \A k \in Indices : table[k] \in Slot => table'[k] \in Slot
  BY <1>1, <1>5, <1>6 DEF TableTypeOK
<1>8. TableTypeOK'
  <2>1. \A k \in Indices : table'[k] \in Slot \cup {EmptySlot}
    BY <1>1, <1>5, <1>6 DEF TableTypeOK
  <2>2. table' \in [Indices -> Slot \cup {EmptySlot}]
    BY <1>2, <2>1
  <2>3. edits' \in 0 .. EditMax
    BY <1>1, <1>3, TableAssumption DEF TableTypeOK
  <2>4. \A k \in Live' : table'[k] \in Slot
    BY <1>1, <1>4, <1>7 DEF TableTypeOK
  <2>5. QED
    BY <1>1, <1>3, <1>4, <2>2, <2>3, <2>4 DEF TableTypeOK
<1>9. UiHolds'
  BY <1>1, <1>3 DEF UiHolds
<1>10. BlocksOwned'
  <2>1. Held' = Held
    BY <1>3, <1>4, <1>5, SMTT(30) DEF Held
  <2>2. \A k, l \in Live : table'[k].block = table'[l].block => k = l
    BY <1>1, <1>5 DEF BlocksOwned
  <2>3. \A k \in Live : table'[k].block # ui'.block
    BY <1>1, <1>3, <1>5 DEF BlocksOwned
  <2>4. QED
    BY <1>1, <1>3, <1>4, <2>1, <2>2, <2>3 DEF BlocksOwned
<1>11. QED
  BY <1>7, <1>8, <1>9, <1>10, SyncStays

LEMMA RegionIInv ==
    ASSUME IInv, UiSaveRegion \/ UiResetSymbols \/ UiForceResync,
           UNCHANGED <<sync, waiting, offline>>
    PROVE  IInv'
<1>1. /\ TableTypeOK /\ UiHolds /\ BlocksOwned
      /\ Live \subseteq Indices
  BY SizePositive DEF IInv, SyncTypeOK, TableTypeOK, Live, Indices
<1>2. /\ count' = count /\ heap' = heap /\ Live' = Live
      /\ ui.block = NoBlock /\ ui'.block = NoBlock /\ NoBlock \notin Blocks
      /\ ui'.step \in {"Idle", "ResetSymbols", "ForceResync"}
      /\ ui' \in [step : UiSteps, block : Blocks \cup {NoBlock}, symbol : Names]
      /\ region' \in Regions /\ force' \in BOOLEAN /\ edits' \in 0 .. EditMax
  <2>1. count' = count /\ heap' = heap /\ Live' = Live
    BY DEF UiSaveRegion, UiResetSymbols, UiForceResync, Live
  <2>2. ui.block = NoBlock /\ NoBlock \notin Blocks
    <3>1. ui.step \notin {"AddLocked", "FreeBlock"}
      BY DEF UiSaveRegion, StartEdit, UiResetSymbols, UiForceResync, UiIdle
    <3>2. QED
      BY <1>1, <3>1, TableAssumption DEF UiHolds, TableTypeOK
  <2>3. /\ ui' = [step |-> ui'.step, block |-> NoBlock, symbol |-> ui'.symbol]
        /\ ui'.step \in {"Idle", "ResetSymbols", "ForceResync"}
        /\ ui'.symbol \in Names
    BY <1>1, <2>2 DEF UiSaveRegion, StartEdit, UiResetSymbols, UiForceResync, UiIdle, TableTypeOK, Names
  <2>4. ui' \in [step : UiSteps, block : Blocks \cup {NoBlock}, symbol : Names]
    BY <2>3 DEF UiSteps
  <2>5. region' \in Regions /\ edits' \in 0 .. EditMax
    BY <1>1, TableAssumption
    DEF UiSaveRegion, StartEdit, UiResetSymbols, UiForceResync, TableTypeOK
  <2>6. force' \in BOOLEAN
    BY <1>1 DEF UiSaveRegion, UiResetSymbols, UiForceResync, TableTypeOK
  <2>7. QED
    BY <2>1, <2>2, <2>3, <2>4, <2>5, <2>6
<1>3. /\ table' \in [Indices -> Slot \cup {EmptySlot}]
      /\ \A k \in Indices : table[k] \in Slot => table'[k] \in Slot
      /\ \A k \in Live : table'[k].block = table[k].block
  <2>1. CASE UiResetSymbols
    BY <1>1, <2>1, SlotTypes DEF UiResetSymbols, TableTypeOK
  <2>2. CASE UiSaveRegion \/ UiForceResync
    BY <1>1, <2>2 DEF UiSaveRegion, UiForceResync, TableTypeOK
  <2>3. QED
    BY <2>1, <2>2
<1>4. TableTypeOK'
  BY <1>1, <1>2, <1>3 DEF TableTypeOK
<1>5. UiHolds'
  BY <1>2 DEF UiHolds
<1>6. BlocksOwned'
  <2>1. Held' = Held
    BY <1>2, <1>3 DEF Held
  <2>2. QED
    BY <1>1, <1>2, <1>3, <2>1 DEF BlocksOwned
<1>7. QED
  BY <1>3, <1>4, <1>5, <1>6, SyncStays

-----------------------------------------------------------------------------
(* The theorems.                                                           *)

\* Every step of either task preserves the invariant.
THEOREM StepIInv == IInv /\ [SyncNext]_syncVars => IInv'
<1> SUFFICES ASSUME IInv, [SyncNext]_syncVars PROVE IInv'
  OBVIOUS
<1>1. CASE \/ SyncDisconnected \/ SyncConnected \/ SyncStart \/ SyncClear
           \/ SyncCollect \/ SyncCollectLocked
  BY <1>1, CollectIInv
<1>2. CASE \/ SyncName \/ SyncNameLocked \/ SyncFetch \/ SyncRefused \/ SyncResult
           \/ SyncFault \/ SyncSuccessCheck \/ SyncStrikesCheck \/ SyncStrikesLocked
           \/ SyncErrorCheck
  BY <1>2, BatchIInv
<1>3. CASE SyncSuccessLocked \/ SyncErrorLocked \/ SyncBackoff
  BY <1>3, RecordIInv
<1>4. CASE BackoffElapses
  <2>1. UNCHANGED unchangedTable /\ UNCHANGED <<force, sync, offline>>
    BY <1>4 DEF BackoffElapses
  <2>2. TableTypeOK' /\ UiHolds' /\ BlocksOwned'
    BY <2>1, TableStays DEF IInv, SyncTypeOK, TableTypeOK
  <2>3. waiting' \in [Indices -> BOOLEAN]
    BY <1>4 DEF BackoffElapses, IInv, SyncTypeOK
  <2>4. LocalsOK' /\ EntryWritten'
    BY <2>1 DEF IInv, LocalsOK, EntryWritten, Index, unchangedTable
  <2>5. QED
    BY <2>1, <2>2, <2>3, <2>4 DEF IInv, SyncTypeOK
<1>5. CASE UiNext /\ UNCHANGED <<sync, waiting, offline>>
  BY <1>5, AddIInv, RemoveIInv, MoveIInv, RegionIInv DEF UiNext
<1>6. CASE UNCHANGED syncVars
  <2>1. UNCHANGED unchangedTable /\ UNCHANGED <<force, sync, waiting, offline>>
    BY <1>6 DEF syncVars, tableVars, unchangedTable
  <2>2. TableTypeOK' /\ UiHolds' /\ BlocksOwned'
    BY <2>1, TableStays DEF IInv, SyncTypeOK, TableTypeOK
  <2>3. LocalsOK' /\ EntryWritten'
    BY <2>1 DEF IInv, LocalsOK, EntryWritten, Index, unchangedTable
  <2>4. QED
    BY <2>1, <2>2, <2>3 DEF IInv, SyncTypeOK
<1>7. QED
  BY <1>1, <1>2, <1>3, <1>4, <1>5, <1>6 DEF SyncNext, SyncStep

LEMMA IInvHolds == SyncSpec => []IInv
<1>1. QED
  BY InitIInv, StepIInv, PTL DEF SyncSpec

\* The variables of both tasks keep their types: in particular no index that
\* collect_due_indices() puts aside runs past APP_STATE_MAX_SYMBOLS and no block
\* of an entry in use is NULL, however the watchlist changes meanwhile.
THEOREM TypeCorrect == SyncSpec => []SyncTypeOK
<1>1. IInv => SyncTypeOK
  BY DEF IInv
<1>2. QED
  BY <1>1, IInvHolds, PTL

\* run_due_fetches() collects no more indices than its local arrays due_indices,
\* symbols, out_klines and results have room for.
THEOREM LocalArraysSuffice == SyncSpec => [](Len(sync.due) =< MaxSymbols)
<1>1. IInv => Len(sync.due) =< MaxSymbols
  BY DEF IInv, LocalsOK
<1>2. QED
  BY <1>1, IInvHolds, PTL

\* app_state_record_success() checks its index before it takes the lock: when
\* the entry has been removed in between, what it finds is stale, but never an
\* entry whose klines pointer is NULL.
THEOREM NullNeverWritten == SyncSpec => []NullIsNotWritten
<1>1. IInv => NullIsNotWritten
  BY SlotTypes, TableAssumption DEF IInv, EntryWritten, NullIsNotWritten, RecordAt
<1>2. QED
  BY <1>1, IInvHolds, PTL

\* app_state_add_symbol(), app_state_remove_symbol() and app_state_move_symbol()
\* neither lose, nor share, nor free in use a block of klines, for every size
\* of the table and every interleaving with the sync task.
THEOREM BlocksAlwaysOwned == SyncSpec => []BlocksOwned
<1>1. IInv => BlocksOwned
  BY DEF IInv
<1>2. QED
  BY <1>1, IInvHolds, PTL

-----------------------------------------------------------------------------
(* The inductive invariant of the second part, next to the one above.      *)

\* A result of the batch in hand that is still to be recorded.
Pending(j) ==
    sync.step \in InBatch => j > sync.k /\ (sync.step = "Backoff" => j > sync.k + 1)

\* In a list that only grows: the indices collected are those of live entries,
\* in the order of the table, with their names, and none of those still to be
\* recorded has been given up.
DueKept ==
    /\ \A j \in 1 .. Len(sync.due) : sync.due[j] < count
    /\ \A j, m \in 1 .. Len(sync.due) : j < m => sync.due[j] < sync.due[m]
    /\ sync.step \in {"Collect", "CollectLocked"} =>
          \A j \in 1 .. Len(sync.due) : sync.due[j] < sync.k
    /\ sync.step = "CollectLocked" => sync.k < count
    /\ \A j \in 1 .. Len(sync.names) : sync.names[j] = table[sync.due[j]].symbol
    /\ \A j \in 1 .. Len(sync.due) : Pending(j) => table[sync.due[j]].state # "Error"

\* An entry that shows klines has some.
FilledHasData == \A i \in Live : table[i].filled => heap[table[i].block] \in AnyKlines

ListInv ==
    /\ FilledHasData
    /\ OnlyGrows => DueKept

-----------------------------------------------------------------------------
(* Lemmas about values.                                                    *)

LEMMA KlinesAreData ==
    /\ Fresh \notin AnyKlines /\ Free \notin AnyKlines
    /\ \A s \in Names, r \in Regions : Klines(s, r) \in AnyKlines /\ Klines(s, r).of = s
<1>1. \A r \in Regions : r # "garbage" /\ r # "free"
  BY TableAssumption
<1>2. \A s, r : Klines(s, r).of = s /\ Klines(s, r).from = r
  BY DEF Klines
<1>3. Fresh.from = "garbage" /\ Free.from = "free"
  BY <1>2 DEF Fresh, Free, Garbage
<1>4. \A d \in AnyKlines : d.from \in Regions
  BY <1>2 DEF AnyKlines
<1>5. \A s \in Names, r \in Regions : Klines(s, r) \in AnyKlines
  BY DEF AnyKlines
<1> QED
  BY <1>1, <1>2, <1>3, <1>4, <1>5

\* What the other invariant says of the table and of the locals.
LEMMA Typed ==
    ASSUME IInv
    PROVE  /\ table \in [Indices -> Slot \cup {EmptySlot}]
           /\ count \in 0 .. MaxSymbols /\ MaxSymbols \in Nat
           /\ \A i \in Live : i \in Indices /\ table[i] \in Slot /\ table[i].block \in Blocks
           /\ heap \in [Blocks -> Contents]
           /\ sync \in Locals /\ LocalsOK
           /\ sync.due \in Seq(Indices) /\ sync.names \in Seq(Names)
           /\ sync.k \in Nat
<1>1. TableTypeOK /\ sync \in Locals /\ LocalsOK
  BY DEF IInv, SyncTypeOK
<1>2. sync.due \in Seq(Indices) /\ sync.names \in Seq(Names) /\ sync.k \in Nat
  BY <1>1, SizePositive DEF Locals
<1>3. \A i \in Live : i \in Indices
  BY <1>1, SizePositive DEF TableTypeOK, Live, Indices
<1> QED
  BY <1>1, <1>2, <1>3, SizePositive, SlotTypes DEF TableTypeOK

-----------------------------------------------------------------------------
(* The steps of the sync task that leave the table alone.                  *)

LEMMA DataStay ==
    ASSUME ListInv, UNCHANGED <<table, count, heap>>
    PROVE  FilledHasData'
BY DEF ListInv, FilledHasData, Live

LEMMA NothingDue ==
    ASSUME sync'.due = <<>>, sync'.names = <<>>, sync'.step # "CollectLocked"
    PROVE  DueKept'
BY DEF DueKept

\* The indices and names stay and the symbols do too; fewer results are pending.
LEMMA DueStay ==
    ASSUME IInv, DueKept, count' \in Nat, count =< count',
           sync'.due = sync.due, sync'.names = sync.names,
           sync'.step \in {"Collect", "CollectLocked"} =>
               sync.step \in {"Collect", "CollectLocked"} /\ sync'.k \in Nat /\ sync.k =< sync'.k,
           sync'.step = "CollectLocked" => sync'.k < count',
           \A i \in Live : table'[i].symbol = table[i].symbol,
           \A j \in 1 .. Len(sync.due) : Pending(j)' => table'[sync.due[j]].state # "Error"
    PROVE  DueKept'
<1>1. /\ count \in Nat /\ sync.k \in Nat
      /\ \A j \in 1 .. Len(sync.due) : sync.due[j] \in Nat /\ sync.due[j] \in Live
  BY Typed DEF Indices, Live, DueKept
<1>2. \A j \in 1 .. Len(sync.due) : sync'.due[j] < count'
  BY <1>1 DEF DueKept
<1>3. sync'.step \in {"Collect", "CollectLocked"} =>
          \A j \in 1 .. Len(sync.due) : sync'.due[j] < sync'.k
  BY <1>1 DEF DueKept
<1>4. Len(sync.names) =< Len(sync.due)
  BY Typed DEF LocalsOK, Locals, Steps, InBatch
<1>5. \A j \in 1 .. Len(sync.names) : sync'.names[j] = table'[sync'.due[j]].symbol
  BY <1>1, <1>4, Typed DEF DueKept
<1> QED
  BY <1>2, <1>3, <1>5 DEF DueKept

\* Looking for what is due.
LEMMA CollectKeeps ==
    ASSUME IInv, ListInv, SyncStart \/ SyncClear \/ SyncCollect \/ SyncCollectLocked
    PROVE  ListInv'
<1>1. UNCHANGED <<table, count, heap>>
  BY DEF SyncStart, SyncClear, SyncCollect, SyncCollectLocked, unchangedTable
<1>2. SUFFICES ASSUME OnlyGrows PROVE DueKept'
  BY <1>1, DataStay DEF ListInv
<1>3. DueKept /\ sync \in Locals /\ LocalsOK /\ count \in Nat /\ sync.k \in Nat
  BY <1>2, Typed DEF ListInv
<1>4. CASE SyncStart \/ SyncClear
  <2>1. sync'.due = <<>> /\ sync'.names = <<>> /\ sync'.step # "CollectLocked"
    BY <1>3, <1>4 DEF SyncStart, SyncClear, Goto, Locals, LocalsOK
  <2> QED
    BY <2>1, NothingDue
<1>5. CASE SyncCollect
  <2>1. CASE sync' = Loop
    BY <2>1, LoopOK, NothingDue
  <2>2. CASE sync' # Loop
    <3>1. /\ sync.step = "Collect" /\ sync'.due = sync.due /\ sync'.names = sync.names
          /\ sync'.step \in {"Collect", "CollectLocked", "Name"}
          /\ sync'.step \in {"Collect", "CollectLocked"} => sync'.k \in {sync.k, sync.k + 1}
          /\ sync'.step = "CollectLocked" => sync'.k < count
      BY <1>3, <1>5, <2>2 DEF SyncCollect, Goto, Rest, Locals
    <3>2. \A j \in 1 .. Len(sync.due) : table'[sync.due[j]].state # "Error"
      BY <1>1, <1>3, <3>1 DEF DueKept, Pending, InBatch
    <3> QED
      BY <1>1, <1>3, <3>1, <3>2, DueStay
  <2> QED
    BY <2>1, <2>2
<1>6. CASE SyncCollectLocked
  <2>1. /\ sync.step = "CollectLocked" /\ sync.k < count /\ sync.k \in Indices
        /\ sync'.step = "Collect" /\ sync'.k = sync.k + 1 /\ sync'.names = <<>>
        /\ sync'.due = IF Due(table[sync.k], sync.k) THEN Append(sync.due, sync.k) ELSE sync.due
    BY <1>3, <1>6, Typed DEF SyncCollectLocked, Locals, LocalsOK, DueKept, Indices
  <2>2. Due(table[sync.k], sync.k) => table[sync.k].state # "Error"
    BY DEF Due
  <2>3. /\ \A j \in 1 .. Len(sync.due) : /\ sync.due[j] \in Nat /\ sync.due[j] < sync.k
                                         /\ table[sync.due[j]].state # "Error"
        /\ \A j, m \in 1 .. Len(sync.due) : j < m => sync.due[j] < sync.due[m]
    BY <1>3, <2>1, Typed DEF DueKept, Pending, InBatch, Indices
  <2>4. sync.due \in Seq(Indices)
    BY Typed
  <2>5. CASE Due(table[sync.k], sync.k)
    <3> DEFINE n == Len(sync.due)
               d == Append(sync.due, sync.k)
    <3>1. /\ Len(d) = n + 1 /\ n \in Nat /\ d[n + 1] = sync.k
          /\ \A j \in 1 .. n : d[j] = sync.due[j]
      BY <2>1, <2>4
    <3> HIDE DEF n, d
    <3>2. \A j \in 1 .. n + 1 : j \in 1 .. n \/ j = n + 1
      BY <3>1
    <3>3. \A j \in 1 .. n + 1 : /\ d[j] < sync.k + 1 /\ d[j] < count
                                /\ table[d[j]].state # "Error"
      <4>1. ASSUME NEW j \in 1 .. n
            PROVE  d[j] < sync.k + 1 /\ d[j] < count /\ table[d[j]].state # "Error"
        <5>1. d[j] = sync.due[j] /\ d[j] \in Nat /\ d[j] < sync.k
          BY <2>3, <3>1 DEF n
        <5>2. table[d[j]].state # "Error"
          BY <2>3, <5>1 DEF n
        <5> QED
          BY <1>3, <2>1, <5>1, <5>2
      <4>2. d[n + 1] < sync.k + 1 /\ d[n + 1] < count /\ table[d[n + 1]].state # "Error"
        BY <1>3, <2>1, <2>2, <2>5, <3>1
      <4> QED
        BY <3>2, <4>1, <4>2
    <3>4. \A j, m \in 1 .. n + 1 : j < m => d[j] < d[m]
      BY <1>3, <2>3, <3>1, <3>2 DEF n
    <3>5. sync'.due = d
      BY <2>1, <2>5 DEF d
    <3>6. /\ Len(sync'.due) = n + 1 /\ sync'.k = sync.k + 1 /\ sync'.step = "Collect"
          /\ Len(sync'.names) = 0
      BY <2>1, <3>1, <3>5
    <3> QED
      BY <1>1, <3>1, <3>3, <3>4, <3>5, <3>6 DEF DueKept
  <2>6. CASE ~Due(table[sync.k], sync.k)
    BY <1>1, <1>3, <2>1, <2>3, <2>6 DEF DueKept
  <2> QED
    BY <2>5, <2>6
<1> QED
  BY <1>4, <1>5, <1>6

\* One more name has been copied: that of the entry itself.
LEMMA NameKeeps ==
    ASSUME IInv, ListInv, OnlyGrows, UNCHANGED <<table, count>>,
           sync.step \in {"Name", "NameLocked"}, sync.k < Len(sync.due),
           sync' = [sync EXCEPT !.step = "Name", !.k = sync.k + 1,
                                !.names = Append(sync.names, table[Index].symbol)]
    PROVE  DueKept'
<1>1. DueKept /\ sync \in Locals /\ Len(sync.names) = sync.k /\ sync.k \in Nat
  BY Typed DEF ListInv, LocalsOK
<1>2. /\ sync'.due = sync.due /\ sync'.step = "Name"
      /\ sync'.names = Append(sync.names, table[Index].symbol)
  BY <1>1 DEF Locals
<1>3. /\ Len(sync'.names) = sync.k + 1
      /\ sync'.names[sync.k + 1] = table[Index].symbol
      /\ \A j \in 1 .. sync.k : sync'.names[j] = sync.names[j]
  BY <1>1, <1>2, Typed
<1>4. ASSUME NEW j \in 1 .. Len(sync'.names)
      PROVE  sync'.names[j] = table'[sync'.due[j]].symbol
  <2>1. CASE j \in 1 .. sync.k
    BY <1>1, <1>2, <1>3, <2>1 DEF DueKept
  <2>2. CASE j = sync.k + 1
    BY <1>2, <1>3, <2>2 DEF Index
  <2> QED
    BY <1>1, <1>3, <2>1, <2>2
<1>5. \A j \in 1 .. Len(sync.due) : table[sync.due[j]].state # "Error"
  BY <1>1 DEF DueKept, Pending, InBatch
<1> QED
  BY <1>1, <1>2, <1>4, <1>5 DEF DueKept

LEMMA BatchKeeps ==
    ASSUME IInv, ListInv,
           \/ SyncName \/ SyncNameLocked \/ SyncFetch \/ SyncResult \/ SyncFault
           \/ SyncSuccessCheck \/ SyncStrikesCheck \/ SyncStrikesLocked
           \/ SyncErrorCheck \/ SyncBackoff
    PROVE  ListInv'
<1>1. UNCHANGED <<table, count, heap>>
  BY DEF SyncName, SyncNameLocked, SyncFetch, SyncResult, SyncFault, SyncSuccessCheck,
         SyncStrikesCheck, SyncStrikesLocked, SyncErrorCheck, SyncBackoff, unchangedTable
<1>2. SUFFICES ASSUME OnlyGrows PROVE DueKept'
  BY <1>1, DataStay DEF ListInv
<1>3. DueKept /\ sync \in Locals /\ LocalsOK /\ count \in Nat /\ sync.k \in Nat
  BY <1>2, Typed DEF ListInv
<1>4. CASE \E s : /\ sync.step \in {"Name", "NameLocked"} /\ sync.k < Len(sync.due)
                  /\ sync.step = "Name" => Index >= count
                  /\ sync.step = "NameLocked" => s = table[Index].symbol
                  /\ sync' = [sync EXCEPT !.step = "Name", !.k = sync.k + 1,
                                          !.names = Append(sync.names, s)]
  <2>1. Index < count
    <3>1. sync.k + 1 \in 1 .. Len(sync.due)
      BY <1>3, <1>4, Typed
    <3> QED
      BY <1>3, <3>1 DEF DueKept, Index
  <2>2. Index \in Nat
    BY <1>3, <1>4, IndexOK DEF Indices
  <2>3. sync.step = "NameLocked"
    BY <1>3, <1>4, <2>1, <2>2
  <2> QED
    BY <1>1, <1>2, <1>4, <2>3, NameKeeps
<1>5. CASE sync' = Loop
  BY <1>5, LoopOK, NothingDue
<1>6. CASE /\ sync'.due = sync.due /\ sync'.names = sync.names
           /\ sync'.step \notin {"Collect", "CollectLocked"}
           /\ \A j \in 1 .. Len(sync.due) : Pending(j)' => Pending(j)
  <2>1. \A j \in 1 .. Len(sync.due) : Pending(j)' => table'[sync.due[j]].state # "Error"
    BY <1>1, <1>3, <1>6 DEF DueKept
  <2> QED
    BY <1>1, <1>3, <1>6, <2>1, DueStay
<1>7. CASE SyncName
  <2>1. CASE sync'.names = sync.names
    BY <1>3, <1>6, <1>7, <2>1 DEF SyncName, Goto, Locals, Pending, InBatch
  <2>2. ASSUME NEW s, sync.k < Len(sync.due), Index >= count,
               sync' = [sync EXCEPT !.names = Append(@, s), !.k = @ + 1]
        PROVE  DueKept'
    <3>1. sync.step = "Name"
      BY <1>7 DEF SyncName
    <3>2. sync' = [sync EXCEPT !.step = "Name", !.k = sync.k + 1, !.names = Append(sync.names, s)]
      BY <1>3, <2>2, <3>1 DEF Locals
    <3> QED
      BY <1>4, <2>2, <3>1, <3>2
  <2>3. CASE ~(sync'.names = sync.names)
    BY <1>3, <1>7, <2>2, <2>3 DEF SyncName, Goto, Locals
  <2> QED
    BY <2>1, <2>3
<1>8. CASE SyncNameLocked
  BY <1>3, <1>4, <1>8 DEF SyncNameLocked, LocalsOK
<1>9. CASE SyncFetch
  BY <1>3, <1>6, <1>9 DEF SyncFetch, Locals, Pending, InBatch
<1>10. CASE SyncResult
  BY <1>3, <1>5, <1>6, <1>10 DEF SyncResult, Goto, Rest, Locals, Pending, InBatch
<1>11. CASE SyncFault \/ SyncStrikesCheck \/ SyncStrikesLocked
  BY <1>3, <1>6, <1>11
  DEF SyncFault, SyncStrikesCheck, SyncStrikesLocked, Goto, Locals, Pending, InBatch
<1>12. CASE SyncSuccessCheck
  <2>1. CASE Goto("SuccessLocked")
    BY <1>3, <1>6, <1>12, <2>1 DEF SyncSuccessCheck, Goto, Locals, Pending, InBatch
  <2>2. CASE NextResult
    BY <1>3, <1>6, <1>12, <2>2 DEF SyncSuccessCheck, NextResult, Locals, Pending, InBatch
  <2> QED
    BY <1>12, <2>1, <2>2 DEF SyncSuccessCheck
<1>13. CASE SyncErrorCheck
  BY <1>3, <1>6, <1>13 DEF SyncErrorCheck, Goto, Locals, Pending, InBatch
<1>14. CASE SyncBackoff
  BY <1>3, <1>6, <1>14 DEF SyncBackoff, NextResult, Locals, Pending, InBatch
<1> QED
  BY <1>7, <1>8, <1>9, <1>10, <1>11, <1>12, <1>13, <1>14

\* Wi-Fi, time and a refused batch.
LEMMA WaitKeeps ==
    ASSUME IInv, ListInv,
           SyncDisconnected \/ SyncConnected \/ BackoffElapses \/ SyncRefused \/ UNCHANGED syncVars
    PROVE  ListInv'
<1>1. UNCHANGED <<table, count, heap>> /\ sync' \in {sync, Loop}
  BY DEF SyncDisconnected, SyncConnected, BackoffElapses, SyncRefused, Rest, unchangedTable,
         syncVars, tableVars
<1>2. SUFFICES ASSUME OnlyGrows PROVE DueKept'
  BY <1>1, DataStay DEF ListInv
<1>3. CASE sync' = Loop
  BY <1>3, LoopOK, NothingDue
<1>4. CASE sync' = sync
  BY <1>1, <1>2, <1>4 DEF ListInv, DueKept, Pending
<1> QED
  BY <1>1, <1>3, <1>4

-----------------------------------------------------------------------------
(* The steps that record a result.                                         *)

\* No entry in use holds a free block, and no two the same.
LEMMA BlocksApart ==
    ASSUME IInv
    PROVE  /\ \A i \in Live : heap[table[i].block] # Free
           /\ \A i, j \in Live : table[i].block = table[j].block => i = j
           /\ \A i \in Live : table[i].block # ui.block
BY DEF IInv, BlocksOwned, Held

LEMMA SuccessFacts ==
    ASSUME IInv, SyncSuccessLocked,
           NEW x, x = Index, NEW d, d = Klines(Fetched, sync.base)
    PROVE  /\ x \in Indices /\ count' = count /\ d \in AnyKlines /\ d.of = Fetched
           /\ table'[x].symbol = table[x].symbol /\ table'[x].state = "Synced"
           /\ table'[x].filled = TRUE /\ table'[x].block = table[x].block
           /\ \A i \in Indices : i # x => table'[i] = table[i]
           /\ \A i \in Live : heap'[table[i].block] =
                                 IF table[i].block = table[x].block THEN d
                                 ELSE heap[table[i].block]
<1>1. sync.step = "SuccessLocked" /\ sync \in Locals /\ LocalsOK /\ sync.k < Len(sync.due)
  BY Typed DEF SyncSuccessLocked, LocalsOK, InBatch
<1>2. x \in Indices /\ table[x] \in Slot
  BY <1>1, IndexOK DEF IInv, EntryWritten
<1>3. Fetched \in Names /\ sync.base \in Regions
  <2>1. sync.k + 1 \in 1 .. Len(sync.names) /\ sync.base \in Regions
    BY <1>1, Typed DEF LocalsOK, InBatch
  <2> QED
    BY <2>1, Typed DEF Fetched
<1>4. /\ count' = count
      /\ heap' = [heap EXCEPT ![table[x].block] = IF @ = Free THEN Free ELSE d]
      /\ table' = [table EXCEPT ![x] = [table[x] EXCEPT !.state = "Synced", !.strikes = 0,
                                                        !.filled = TRUE]]
  BY DEF SyncSuccessLocked, RecordAt
<1>5. /\ table'[x] = [table[x] EXCEPT !.state = "Synced", !.strikes = 0, !.filled = TRUE]
      /\ \A i \in Indices : i # x => table'[i] = table[i]
  BY <1>2, <1>4, Typed
<1>6. /\ table'[x].symbol = table[x].symbol /\ table'[x].state = "Synced"
      /\ table'[x].filled = TRUE /\ table'[x].block = table[x].block
  BY <1>2, <1>5 DEF Slot
<1>7. ASSUME NEW i \in Live
      PROVE  heap'[table[i].block] = IF table[i].block = table[x].block THEN d
                                     ELSE heap[table[i].block]
  BY <1>4, BlocksApart, Typed
<1> QED
  BY <1>2, <1>3, <1>4, <1>5, <1>6, <1>7, KlinesAreData

LEMMA ErrorFacts ==
    ASSUME IInv, SyncErrorLocked, NEW x, x = Index
    PROVE  /\ x \in Indices /\ count' = count /\ heap' = heap
           /\ table'[x].symbol = table[x].symbol /\ table'[x].state \in {"Degraded", "Error"}
           /\ table'[x].filled = table[x].filled /\ table'[x].block = table[x].block
           /\ \A i \in Indices : i # x => table'[i] = table[i]
<1>1. sync.step = "ErrorLocked" /\ sync \in Locals /\ LocalsOK /\ sync.k < Len(sync.due)
  BY Typed DEF SyncErrorLocked, LocalsOK, InBatch
<1>2. x \in Indices /\ table[x] \in Slot
  BY <1>1, IndexOK DEF IInv, EntryWritten
<1> DEFINE strikes == IF sync.notFound /\ table[x].strikes < MaxStrikes
                      THEN table[x].strikes + 1 ELSE table[x].strikes
           state == IF sync.recoverable THEN "Degraded" ELSE "Error"
<1>3. table' = [table EXCEPT ![x] = [table[x] EXCEPT !.state = state, !.strikes = strikes]]
  BY DEF SyncErrorLocked
<1>4. state \in {"Degraded", "Error"}
  OBVIOUS
<1> HIDE DEF strikes, state
<1>5. /\ table'[x] = [table[x] EXCEPT !.state = state, !.strikes = strikes]
      /\ \A i \in Indices : i # x => table'[i] = table[i]
  BY <1>2, <1>3, Typed
<1>6. /\ table'[x].symbol = table[x].symbol /\ table'[x].state = state
      /\ table'[x].filled = table[x].filled /\ table'[x].block = table[x].block
  BY <1>2, <1>5 DEF Slot
<1> QED
  BY <1>2, <1>4, <1>5, <1>6 DEF SyncErrorLocked

\* In a list that only grows the index in hand is that of the symbol fetched,
\* which has not been given up, and comes only once.
LEMMA IndexMeant ==
    ASSUME IInv, ListInv, OnlyGrows, sync.step \in {"SuccessLocked", "ErrorLocked"}
    PROVE  /\ Index \in Live /\ Fetched = table[Index].symbol /\ table[Index].state # "Error"
           /\ \A j \in 1 .. Len(sync.due) : j > sync.k + 1 => sync.due[j] # Index
<1>1. DueKept /\ sync.k + 1 \in 1 .. Len(sync.due) /\ Len(sync.names) = Len(sync.due)
  BY Typed DEF ListInv, LocalsOK, InBatch
<1>2. Index \in Live
  BY <1>1, Typed, SMTT(30) DEF DueKept, Index, Live, Indices
<1>3. Fetched = table[Index].symbol
  BY <1>1 DEF DueKept, Index, Fetched
<1>4. table[Index].state # "Error"
  BY <1>1, Typed DEF DueKept, Pending, Index
<1>5. ASSUME NEW j \in 1 .. Len(sync.due), j > sync.k + 1
      PROVE  sync.due[j] # Index
  <2>1. sync.due[sync.k + 1] < sync.due[j]
    BY <1>1, <1>5, Typed DEF DueKept
  <2>2. sync.due[sync.k + 1] \in Indices /\ sync.due[j] \in Indices
    BY <1>1, Typed
  <2> QED
    BY <2>1, <2>2, SizePositive DEF Index, Indices
<1> QED
  BY <1>2, <1>3, <1>4, <1>5

LEMMA RecordKeeps ==
    ASSUME IInv, ListInv, SyncSuccessLocked \/ SyncErrorLocked
    PROVE  ListInv'
<1> DEFINE x == Index
           d == Klines(Fetched, sync.base)
<1>1. CASE SyncSuccessLocked
  <2>1. /\ x \in Indices /\ count' = count /\ d \in AnyKlines /\ d.of = Fetched
        /\ table'[x].symbol = table[x].symbol /\ table'[x].state = "Synced"
        /\ table'[x].filled = TRUE /\ table'[x].block = table[x].block
        /\ \A i \in Indices : i # x => table'[i] = table[i]
        /\ \A i \in Live : heap'[table[i].block] =
                              IF table[i].block = table[x].block THEN d ELSE heap[table[i].block]
    BY <1>1, SuccessFacts, ZenonT(60)
  <2> HIDE DEF x, d
  <2>2. Live' = Live /\ \A i \in Live : i \in Indices /\ table'[i].block = table[i].block
    BY <2>1, Typed DEF Live
  <2>3. FilledHasData'
    BY <2>1, <2>2 DEF ListInv, FilledHasData
  <2>4. ASSUME OnlyGrows
        PROVE  DueKept'
    <3>1. /\ x \in Live /\ Fetched = table[x].symbol
          /\ \A j \in 1 .. Len(sync.due) : j > sync.k + 1 => sync.due[j] # x
      BY <1>1, <2>4, IndexMeant DEF SyncSuccessLocked, x
    <3>3. /\ sync'.due = sync.due /\ sync'.names = sync.names /\ sync'.step = "Result"
          /\ \A j \in 1 .. Len(sync.due) : Pending(j)' => j > sync.k + 1
      BY <1>1, Typed DEF SyncSuccessLocked, NextResult, Locals, Pending, InBatch
    <3>4. \A j \in 1 .. Len(sync.due) : Pending(j)' => table'[sync.due[j]].state # "Error"
      <4>1. \A j \in 1 .. Len(sync.due) : sync.due[j] \in Indices
        BY Typed
      <4>2. \A j \in 1 .. Len(sync.due) : j > sync.k + 1 => table[sync.due[j]].state # "Error"
        BY <1>1, <2>4, Typed DEF ListInv, DueKept, Pending, SyncSuccessLocked
      <4> QED
        BY <2>1, <3>1, <3>3, <4>1, <4>2
    <3>5. \A i \in Live : table'[i].symbol = table[i].symbol
      BY <2>1, <2>2
    <3>6. DueKept'
      BY <2>1, <2>4, <3>3, <3>4, <3>5, Typed, DueStay DEF ListInv
    <3> QED
      BY <3>6
  <2> QED
    BY <2>3, <2>4 DEF ListInv
<1>2. CASE SyncErrorLocked
  <2>1. /\ x \in Indices /\ count' = count /\ heap' = heap
        /\ table'[x].symbol = table[x].symbol /\ table'[x].state \in {"Degraded", "Error"}
        /\ table'[x].filled = table[x].filled /\ table'[x].block = table[x].block
        /\ \A i \in Indices : i # x => table'[i] = table[i]
    BY <1>2, ErrorFacts
  <2> HIDE DEF x, d
  <2>2. Live' = Live /\ \A i \in Live : i \in Indices
    BY <2>1, Typed DEF Live
  <2>3. FilledHasData'
    BY <2>1, <2>2 DEF ListInv, FilledHasData
  <2>4. ASSUME OnlyGrows
        PROVE  DueKept'
    <3>1. \A j \in 1 .. Len(sync.due) : j > sync.k + 1 => sync.due[j] # x
      BY <1>2, <2>4, IndexMeant DEF SyncErrorLocked, x
    <3>3. /\ sync'.due = sync.due /\ sync'.names = sync.names /\ sync'.step = "Backoff"
          /\ \A j \in 1 .. Len(sync.due) : Pending(j)' => j > sync.k + 1
      BY <1>2, Typed DEF SyncErrorLocked, Goto, Locals, Pending, InBatch
    <3>4. \A j \in 1 .. Len(sync.due) : Pending(j)' => table'[sync.due[j]].state # "Error"
      <4>1. \A j \in 1 .. Len(sync.due) : sync.due[j] \in Indices
        BY Typed
      <4>2. \A j \in 1 .. Len(sync.due) : j > sync.k + 1 => table[sync.due[j]].state # "Error"
        BY <1>2, <2>4, Typed DEF ListInv, DueKept, Pending, SyncErrorLocked
      <4> QED
        BY <2>1, <3>1, <3>3, <4>1, <4>2
    <3>5. \A i \in Live : table'[i].symbol = table[i].symbol
      BY <2>1, <2>2
    <3>6. DueKept'
      BY <2>1, <2>4, <3>3, <3>4, <3>5, Typed, DueStay DEF ListInv
    <3> QED
      BY <3>6
  <2> QED
    BY <2>3, <2>4 DEF ListInv
<1> QED
  BY <1>1, <1>2

-----------------------------------------------------------------------------
(* The steps of the UI task.                                               *)

\* Saving a server and taking or freeing a block are not seen in the list.
LEMMA QuietFacts ==
    ASSUME IInv, UiAddAllocate \/ UiFreeBlock \/ UiSaveRegion \/ UiForceResync
    PROVE  /\ table' = table /\ count' = count
           /\ \A i \in Live : heap'[table[i].block] = heap[table[i].block]
<1>1. table' = table /\ count' = count
  BY DEF UiAddAllocate, UiFreeBlock, UiSaveRegion, UiForceResync
<1>2. CASE UiAddAllocate
  BY <1>1, <1>2, BlocksApart, Typed DEF UiAddAllocate
<1>3. CASE UiFreeBlock
  BY <1>1, <1>3, BlocksApart, Typed DEF UiFreeBlock
<1>4. CASE UiSaveRegion \/ UiForceResync
  BY <1>1, <1>4 DEF UiSaveRegion, UiForceResync
<1> QED
  BY <1>1, <1>2, <1>3, <1>4

LEMMA AddFacts ==
    ASSUME IInv, UiAddLocked
    PROVE  /\ heap' = heap
           /\ \/ table' = table /\ count' = count
              \/ /\ count < MaxSymbols /\ count' = count + 1
                 /\ \A i \in Live : table'[i] = table[i]
                 /\ table'[count].symbol \in Symbols /\ table'[count].state = "Init"
                 /\ table'[count].filled = FALSE
<1>1. heap' = heap
  BY DEF UiAddLocked
<1>2. CASE /\ count < MaxSymbols /\ count' = count + 1
           /\ table' = Appended(ui.symbol, ui.block)
  <2>1. ui.symbol \in Symbols
    BY DEF IInv, UiHolds, UiAddLocked
  <2>2. count \in Indices /\ \A i \in Live : i \in Indices /\ i # count
    BY <1>2, Typed DEF Indices, Live
  <2>3. /\ table'[count] = NewSlot(ui.symbol, ui.block)
        /\ \A i \in Live : table'[i] = table[i]
    BY <1>2, <2>2, Typed DEF Appended
  <2> QED
    BY <1>1, <1>2, <2>1, <2>3 DEF NewSlot
<1>3. CASE table' = table /\ count' = count
  BY <1>1, <1>3
<1> QED
  BY <1>2, <1>3 DEF UiAddLocked

LEMMA ResetFacts ==
    ASSUME IInv, UiResetSymbols
    PROVE  /\ count' = count /\ heap' = heap
           /\ \A i \in Live : /\ table'[i].symbol = table[i].symbol
                              /\ table'[i].state = "Init" /\ table'[i].filled = FALSE
<1>1. ASSUME NEW i \in Live
      PROVE  table'[i] = NewSlot(table[i].symbol, table[i].block)
  BY <1>1, Typed DEF UiResetSymbols
<1>2. \A s, b : /\ NewSlot(s, b).symbol = s /\ NewSlot(s, b).state = "Init"
                /\ NewSlot(s, b).filled = FALSE
  BY DEF NewSlot
<1>3. count' = count /\ heap' = heap
  BY DEF UiResetSymbols
<1> QED
  BY <1>1, <1>2, <1>3

LEMMA RemoveFacts ==
    ASSUME IInv, UiRemoveLocked
    PROVE  /\ ~OnlyGrows /\ count' = count - 1 /\ heap' = heap
           /\ \E i \in Live : \A k \in 0 .. count - 2 :
                 table'[k] = table[IF k < i THEN k ELSE k + 1]
<1>1. PICK i \in Live : table' = ShiftedDown(i)
  BY DEF UiRemoveLocked
<1>2. ASSUME NEW k \in 0 .. count - 2
      PROVE  table'[k] = table[IF k < i THEN k ELSE k + 1]
  <2>1. k \in Indices /\ k < count - 1 /\ (i =< k <=> ~(k < i))
    BY <1>1, Typed DEF Indices, Live
  <2> QED
    BY <1>1, <2>1 DEF ShiftedDown
<1> QED
  BY <1>1, <1>2 DEF UiRemoveLocked, StartEdit, OnlyGrows

LEMMA MoveFacts ==
    ASSUME IInv, UiMoveLocked
    PROVE  /\ ~OnlyGrows /\ count' = count /\ heap' = heap
           /\ \E i, j \in Live : \A k \in Live :
                 MovedFrom(i, j, k) \in Live /\ table'[k] = table[MovedFrom(i, j, k)]
<1>1. PICK i \in Live, j \in Live :
          i # j /\ table' = [k \in Indices |-> table[MovedFrom(i, j, k)]]
  BY DEF UiMoveLocked
<1>2. ASSUME NEW k \in Live
      PROVE  MovedFrom(i, j, k) \in Live /\ table'[k] = table[MovedFrom(i, j, k)]
  BY <1>1, MoveUndone, Typed DEF Live
<1> QED
  BY <1>1, <1>2 DEF UiMoveLocked, StartEdit, OnlyGrows

LEMMA EditKeeps ==
    ASSUME IInv, ListInv, UiNext, sync' = sync
    PROVE  ListInv'
<1>1. \A j \in 1 .. Len(sync.due) : Pending(j)' <=> Pending(j)
  BY DEF Pending
<1>2. /\ count \in Nat /\ sync.k \in Nat
      /\ \A j \in 1 .. Len(sync.due) : sync.due[j] \in Indices
  BY Typed
<1>3. ASSUME OnlyGrows, count' \in Nat, count =< count',
             \A i \in Live : /\ table'[i].symbol = table[i].symbol
                             /\ table[i].state # "Error" => table'[i].state # "Error"
      PROVE  DueKept'
  <2>1. \A j \in 1 .. Len(sync.due) : sync.due[j] \in Live
    BY <1>2, <1>3 DEF ListInv, DueKept, Live, Indices
  <2>2. \A j \in 1 .. Len(sync.due) : Pending(j)' => table'[sync.due[j]].state # "Error"
    BY <1>1, <1>3, <2>1 DEF ListInv, DueKept
  <2>3. sync'.step = "CollectLocked" => sync'.k < count'
    BY <1>2, <1>3 DEF ListInv, DueKept
  <2> QED
    BY <1>2, <1>3, <2>2, <2>3, DueStay DEF ListInv
<1>4. CASE UiAddAllocate \/ UiFreeBlock \/ UiSaveRegion \/ UiForceResync
  <2>1. Live' = Live
    BY <1>4, QuietFacts DEF Live
  <2> QED
    BY <1>2, <1>3, <1>4, <2>1, QuietFacts DEF ListInv, FilledHasData
<1>5. CASE UiAddLocked
  <2>1. CASE table' = table /\ count' = count
    BY <1>2, <1>3, <1>5, <2>1, AddFacts DEF ListInv, FilledHasData, Live
  <2>2. CASE ~(table' = table /\ count' = count)
    <3>1. /\ heap' = heap /\ count' = count + 1
          /\ \A i \in Live : table'[i] = table[i]
          /\ table'[count].state = "Init" /\ table'[count].filled = FALSE
      BY <1>5, <2>2, AddFacts
    <3>2. Live' = Live \cup {count}
      BY <1>2, <3>1 DEF Live
    <3>3. FilledHasData'
      BY <3>1, <3>2 DEF ListInv, FilledHasData
    <3> QED
      BY <1>2, <1>3, <3>1, <3>3 DEF ListInv
  <2> QED
    BY <2>1, <2>2
<1>6. CASE UiResetSymbols
  <2>1. Live' = Live
    BY <1>6, ResetFacts DEF Live
  <2>2. FilledHasData'
    BY <1>6, <2>1, ResetFacts DEF FilledHasData
  <2>3. ASSUME OnlyGrows
        PROVE  DueKept'
    <3>1. /\ count' \in Nat /\ count =< count'
          /\ \A i \in Live : table'[i].symbol = table[i].symbol /\ table'[i].state # "Error"
      <4>1. \A i \in Live : table'[i].symbol = table[i].symbol /\ table'[i].state = "Init"
        BY <1>6, ResetFacts
      <4>2. count' = count
        BY <1>6, ResetFacts
      <4> QED
        BY <1>2, <4>1, <4>2
    <3> QED
      BY <1>3, <2>3, <3>1
  <2> QED
    BY <2>2, <2>3 DEF ListInv
<1>7. CASE UiRemoveLocked
  <2>1. PICK i \in Live : \A k \in 0 .. count - 2 : table'[k] = table[IF k < i THEN k ELSE k + 1]
    BY <1>7, RemoveFacts
  <2>2. ASSUME NEW k \in Live'
        PROVE  \E l \in Live : table'[k] = table[l]
    <3>1. k \in 0 .. count - 2 /\ k \in Live /\ k + 1 \in Live
      BY <1>2, <1>7, RemoveFacts DEF Live
    <3> QED
      BY <2>1, <3>1
  <2> QED
    BY <1>7, <2>2, RemoveFacts DEF ListInv, FilledHasData
<1>8. CASE UiMoveLocked
  <2>1. \A k \in Live' : \E l \in Live : table'[k] = table[l]
    BY <1>8, MoveFacts DEF Live
  <2> QED
    BY <1>8, <2>1, MoveFacts DEF ListInv, FilledHasData
<1> QED
  BY <1>4, <1>5, <1>6, <1>7, <1>8 DEF UiNext

-----------------------------------------------------------------------------
(* The invariant holds at first and is kept by every step.                 *)

LEMMA InitListInv == SyncInit => ListInv
<1> SUFFICES ASSUME SyncInit PROVE ListInv
  OBVIOUS
<1>1. IInv
  BY InitIInv
<1>2. \A i \in Live : table[i].filled = FALSE /\ table[i].state = "Init"
  <2>1. PICK list \in InitialLists, n \in 0 .. MaxSymbols, blocks \in [Indices -> Blocks] :
            /\ count = n
            /\ table = [i \in Indices |-> IF i < n THEN NewSlot(list[i], blocks[i])
                                         ELSE EmptySlot]
    BY DEF SyncInit, TableInit
  <2>2. \A i \in Live : table[i] = NewSlot(list[i], blocks[i])
    BY <1>1, <2>1, Typed DEF Live
  <2>3. \A s, b : NewSlot(s, b).filled = FALSE /\ NewSlot(s, b).state = "Init"
    BY DEF NewSlot
  <2> QED
    BY <2>2, <2>3
<1>3. sync.due = <<>> /\ sync.names = <<>> /\ sync.step = "Idle"
  BY DEF SyncInit, Loop
<1> QED
  BY <1>2, <1>3 DEF ListInv, FilledHasData, DueKept

LEMMA StepListInv == IInv /\ ListInv /\ [SyncNext]_syncVars => ListInv'
BY CollectKeeps, BatchKeeps, WaitKeeps, RecordKeeps, EditKeeps, Zenon DEF SyncNext, SyncStep

LEMMA ListInvHolds == SyncSpec => [](IInv /\ ListInv)
<1>1. SyncInit => IInv /\ ListInv
  BY InitIInv, InitListInv
<1>2. IInv /\ ListInv /\ [SyncNext]_syncVars => IInv' /\ ListInv'
  BY StepIInv, StepListInv
<1> QED
  BY <1>1, <1>2, PTL DEF SyncSpec

-----------------------------------------------------------------------------
(* Lemmas about sequences.                                                 *)

LEMMA RemoveAtFacts ==
    ASSUME NEW S, NEW t \in Seq(S), NEW i \in 1 .. Len(t)
    PROVE  /\ List!RemoveAt(t, i) \in Seq(S)
           /\ Len(List!RemoveAt(t, i)) = Len(t) - 1
           /\ \A k \in 1 .. Len(t) - 1 :
                 List!RemoveAt(t, i)[k] = IF k < i THEN t[k] ELSE t[k + 1]
<1> DEFINE a == SubSeq(t, 1, i - 1)
           b == SubSeq(t, i + 1, Len(t))
<1>1. Len(t) \in Nat /\ \A k \in 1 .. Len(t) : t[k] \in S
  BY LenProperties, ElementOfSeq
<1>2. a \in Seq(S) /\ Len(a) = i - 1 /\ \A k \in 1 .. i - 1 : a[k] = t[k]
  <2>1. \A k \in 1 .. i - 1 : t[k] \in S
    BY <1>1
  <2> QED
    BY <1>1, <2>1, SubSeqProperties
<1>3. b \in Seq(S) /\ Len(b) = Len(t) - i /\ \A k \in 1 .. Len(t) - i : b[k] = t[i + k]
  <2>1. \A k \in i + 1 .. Len(t) : t[k] \in S
    BY <1>1
  <2> QED
    BY <1>1, <2>1, SubSeqProperties
<1>4. List!RemoveAt(t, i) = a \o b
  BY DEF List!RemoveAt
<1> HIDE DEF a, b
<1>5. /\ a \o b \in Seq(S) /\ Len(a \o b) = Len(t) - 1
      /\ \A k \in 1 .. Len(t) - 1 : (a \o b)[k] = IF k =< Len(a) THEN a[k] ELSE b[k - Len(a)]
  <2>1. Len(a) + Len(b) = Len(t) - 1
    BY <1>1, <1>2, <1>3
  <2>2. /\ a \o b \in Seq(S) /\ Len(a \o b) = Len(a) + Len(b)
        /\ \A k \in 1 .. Len(a) + Len(b) : (a \o b)[k] = IF k =< Len(a) THEN a[k] ELSE b[k - Len(a)]
    BY <1>2, <1>3, ConcatProperties
  <2> QED
    BY <2>1, <2>2
<1>6. ASSUME NEW k \in 1 .. Len(t) - 1
      PROVE  (a \o b)[k] = IF k < i THEN t[k] ELSE t[k + 1]
  <2>1. CASE k < i
    BY <1>1, <1>2, <1>5, <2>1
  <2>2. CASE ~(k < i)
    <3>1. /\ ~(k =< Len(a)) /\ k - Len(a) = k - (i - 1)
          /\ k - (i - 1) \in 1 .. Len(t) - i /\ i + (k - (i - 1)) = k + 1
      BY <1>1, <1>2, <2>2
    <3>2. (a \o b)[k] = b[k - (i - 1)]
      BY <1>5, <3>1
    <3> QED
      BY <1>3, <2>2, <3>1, <3>2
  <2> QED
    BY <2>1, <2>2
<1> QED
  BY <1>4, <1>5, <1>6

LEMMA InsertAtFacts ==
    ASSUME NEW S, NEW w \in Seq(S), NEW j \in 1 .. Len(w) + 1, NEW e \in S
    PROVE  /\ List!InsertAt(w, j, e) \in Seq(S)
           /\ Len(List!InsertAt(w, j, e)) = Len(w) + 1
           /\ List!InsertAt(w, j, e)[j] = e
           /\ \A k \in 1 .. j - 1 : List!InsertAt(w, j, e)[k] = w[k]
           /\ \A k \in j + 1 .. Len(w) + 1 : List!InsertAt(w, j, e)[k] = w[k - 1]
<1> DEFINE a == SubSeq(w, 1, j - 1)
           b == SubSeq(w, j, Len(w))
           c == a \o <<e>>
           n == Len(w)
<1>1. n \in Nat /\ \A k \in 1 .. n : w[k] \in S
  BY LenProperties, ElementOfSeq
<1>2. a \in Seq(S) /\ Len(a) = j - 1 /\ \A k \in 1 .. j - 1 : a[k] = w[k]
  <2>1. \A k \in 1 .. j - 1 : w[k] \in S
    BY <1>1
  <2> QED
    BY <1>1, <2>1, SubSeqProperties
<1>3. b \in Seq(S) /\ Len(b) = n - j + 1 /\ \A k \in 1 .. n - j + 1 : b[k] = w[j + k - 1]
  <2>1. \A k \in j .. n : w[k] \in S
    BY <1>1
  <2> QED
    BY <1>1, <2>1, SubSeqProperties
<1>4. List!InsertAt(w, j, e) = c \o b
  BY DEF List!InsertAt
<1>5. <<e>> \in Seq(S) /\ Len(<<e>>) = 1 /\ <<e>>[1] = e
  OBVIOUS
<1> HIDE DEF a, b, n
<1>6. /\ c \in Seq(S) /\ Len(c) = j /\ c[j] = e
      /\ \A k \in 1 .. j - 1 : c[k] = a[k]
  <2>1. /\ c \in Seq(S) /\ Len(c) = j
        /\ \A k \in 1 .. j : c[k] = IF k =< j - 1 THEN a[k] ELSE <<e>>[k - (j - 1)]
    BY <1>1, <1>2, <1>5, ConcatProperties
  <2>2. j - (j - 1) = 1 /\ j \in 1 .. j /\ ~(j =< j - 1)
    BY <1>1
  <2> QED
    BY <1>5, <2>1, <2>2
<1> HIDE DEF c
<1>7. /\ c \o b \in Seq(S) /\ Len(c \o b) = n + 1
      /\ \A k \in 1 .. n + 1 : (c \o b)[k] = IF k =< j THEN c[k] ELSE b[k - j]
  <2>1. Len(c) + Len(b) = n + 1
    BY <1>1, <1>3, <1>6 DEF n
  <2>2. /\ c \o b \in Seq(S) /\ Len(c \o b) = Len(c) + Len(b)
        /\ \A k \in 1 .. Len(c) + Len(b) :
              (c \o b)[k] = IF k =< Len(c) THEN c[k] ELSE b[k - Len(c)]
    BY <1>3, <1>6, ConcatProperties, Zenon
  <2> QED
    BY <1>6, <2>1, <2>2
<1>8. ASSUME NEW k \in 1 .. n + 1
      PROVE  (c \o b)[k] = IF k < j THEN w[k] ELSE IF k = j THEN e ELSE w[k - 1]
  <2>1. CASE k =< j
    BY <1>1, <1>2, <1>6, <1>7, <2>1 DEF n
  <2>2. CASE ~(k =< j)
    <3>1. k - j \in 1 .. n - j + 1 /\ j + (k - j) - 1 = k - 1
      BY <1>1, <2>2 DEF n
    <3>2. (c \o b)[k] = b[k - j]
      BY <1>7, <2>2
    <3> QED
      BY <1>1, <1>3, <2>2, <3>1, <3>2, SMTT(30) DEF n
  <2> QED
    BY <1>1, <2>1, <2>2 DEF n
<1>9. j \in 1 .. n + 1 /\ \A k \in 1 .. j - 1 : k \in 1 .. n + 1 /\ k < j
  BY <1>1 DEF n
<1>10. \A k \in j + 1 .. n + 1 : k \in 1 .. n + 1 /\ ~(k < j) /\ k # j
  BY <1>1 DEF n
<1>11. /\ (c \o b)[j] = e
       /\ \A k \in 1 .. j - 1 : (c \o b)[k] = w[k]
       /\ \A k \in j + 1 .. n + 1 : (c \o b)[k] = w[k - 1]
  <2>1. (c \o b)[j] = e
    <3>1. ~(j < j) /\ j \in 1 .. n + 1
      BY <1>1 DEF n
    <3> QED
      BY <1>8, <3>1
  <2>2. \A k \in 1 .. j - 1 : (c \o b)[k] = w[k]
    BY <1>8, <1>9
  <2>3. \A k \in j + 1 .. n + 1 : (c \o b)[k] = w[k - 1]
    BY <1>8, <1>10
  <2> QED
    BY <2>1, <2>2, <2>3
<1> QED
  BY <1>4, <1>7, <1>11 DEF n

\* Taking an entry out and putting it back elsewhere is the permutation of
\* app_state_move_symbol(), which counts from 0.
LEMMA MovedFacts ==
    ASSUME NEW S, NEW t \in Seq(S), NEW i \in 0 .. Len(t) - 1, NEW j \in 0 .. Len(t) - 1
    PROVE  \E m \in Seq(S) :
              /\ m = List!InsertAt(List!RemoveAt(t, i + 1), j + 1, t[i + 1])
              /\ Len(m) = Len(t)
              /\ \A k \in 0 .. Len(t) - 1 : m[k + 1] = t[MovedFrom(i, j, k) + 1]
<1> DEFINE n == Len(t)
<1>1. n \in Nat /\ i + 1 \in 1 .. n /\ j + 1 \in 1 .. n /\ t[i + 1] \in S
  BY LenProperties, ElementOfSeq
<1>2. PICK w \in Seq(S) : w = List!RemoveAt(t, i + 1)
  BY <1>1, RemoveAtFacts
<1>3. Len(w) = n - 1 /\ \A k \in 1 .. n - 1 : w[k] = IF k < i + 1 THEN t[k] ELSE t[k + 1]
  BY <1>1, <1>2, RemoveAtFacts
<1>4. PICK q \in 1 .. Len(w) + 1 : q = j + 1
  BY <1>1, <1>3
<1>5. PICK e \in S : e = t[i + 1]
  BY <1>1
<1>6. PICK m \in Seq(S) : m = List!InsertAt(w, q, e)
  BY InsertAtFacts
<1>7. /\ Len(List!InsertAt(w, q, e)) = Len(w) + 1
      /\ List!InsertAt(w, q, e)[q] = e
      /\ \A k \in 1 .. q - 1 : List!InsertAt(w, q, e)[k] = w[k]
      /\ \A k \in q + 1 .. Len(w) + 1 : List!InsertAt(w, q, e)[k] = w[k - 1]
  <2>1. Len(List!InsertAt(w, q, e)) = Len(w) + 1
    BY InsertAtFacts
  <2>2. List!InsertAt(w, q, e)[q] = e
    BY InsertAtFacts
  <2>3. \A k \in 1 .. q - 1 : List!InsertAt(w, q, e)[k] = w[k]
    BY InsertAtFacts
  <2>4. \A k \in q + 1 .. Len(w) + 1 : List!InsertAt(w, q, e)[k] = w[k - 1]
    BY InsertAtFacts
  <2> QED
    BY <2>1, <2>2, <2>3, <2>4
<1>8. /\ Len(m) = n /\ m[j + 1] = t[i + 1]
      /\ \A k \in 1 .. j : m[k] = w[k]
      /\ \A k \in j + 2 .. n : m[k] = w[k - 1]
  <2>1. n \in Nat /\ Len(w) + 1 = n /\ q - 1 = j /\ q + 1 = j + 2
    BY <1>1, <1>3, <1>4
  <2> QED
    BY <1>4, <1>5, <1>6, <1>7, <2>1
<1> HIDE DEF n
<1>9. ASSUME NEW k \in 0 .. n - 1
      PROVE  m[k + 1] = t[MovedFrom(i, j, k) + 1]
  <2>1. CASE k = j
    BY <1>8, <2>1 DEF MovedFrom
  <2>2. CASE k < j
    <3>1. m[k + 1] = w[k + 1] /\ w[k + 1] = IF k < i THEN t[k + 1] ELSE t[k + 2]
      BY <1>1, <1>3, <1>8, <2>2, SMTT(30) DEF n
    <3> QED
      BY <1>1, <2>2, <3>1, SMTT(30) DEF MovedFrom, n
  <2>3. CASE j < k
    <3>1. m[k + 1] = w[k]
      <4>1. k + 1 \in j + 2 .. n /\ (k + 1) - 1 = k
        BY <1>1, <2>3 DEF n
      <4> QED
        BY <1>8, <4>1
    <3>2. w[k] = IF k =< i THEN t[k] ELSE t[k + 1]
      BY <1>1, <1>3, <2>3, SMTT(30) DEF n
    <3> QED
      BY <1>1, <2>3, <3>1, <3>2, SMTT(30) DEF MovedFrom, n
  <2> QED
    BY <1>1, <2>1, <2>2, <2>3 DEF n
<1>10. m = List!InsertAt(List!RemoveAt(t, i + 1), j + 1, t[i + 1])
  BY <1>2, <1>4, <1>5, <1>6
<1> QED
  BY <1>8, <1>9, <1>10 DEF n

-----------------------------------------------------------------------------
(* Lemmas about the list that is shown.                                    *)

Shown == {ShownAt(i) : i \in Live}

LEMMA ShownFacts ==
    ASSUME IInv
    PROVE  /\ ShownList \in Seq(Shown) /\ Len(ShownList) = count
           /\ DOMAIN ShownList = 1 .. count
           /\ \A i \in Live : i + 1 \in 1 .. count /\ ShownList[i + 1] = ShownAt(i)
<1>1. count \in Nat
  BY Typed
<1>2. \A p \in 1 .. count : p - 1 \in Live
  BY <1>1 DEF Live
<1>3. ShownList \in [1 .. count -> Shown]
  BY <1>2 DEF ShownList, Shown
<1>4. ASSUME NEW i \in Live
      PROVE  i + 1 \in 1 .. count /\ ShownList[i + 1] = ShownAt(i)
  <2>1. i + 1 \in 1 .. count /\ (i + 1) - 1 = i
    BY <1>1 DEF Live
  <2> QED
    BY <2>1 DEF ShownList
<1> QED
  BY <1>1, <1>3, <1>4

LEMMA EntryFacts ==
    ASSUME NEW i
    PROVE  /\ ShownAt(i).symbol = table[i].symbol /\ ShownAt(i).state = table[i].state
           /\ ShownAt(i).shown = IF table[i].filled THEN heap[table[i].block] ELSE Fresh
BY DEF ShownAt

LEMMA SameList ==
    ASSUME NEW n \in Nat, count' = n, NEW S, NEW u \in Seq(S), Len(u) = n,
           \A k \in 0 .. n - 1 : u[k + 1] = ShownAt(k)'
    PROVE  ShownList' = u
<1>1. u = [p \in 1 .. n |-> u[p]]
  BY LenProperties
<1>2. \A p \in 1 .. n : p - 1 \in 0 .. n - 1 /\ (p - 1) + 1 = p
  OBVIOUS
<1>3. \A p \in 1 .. n : u[p] = ShownAt(p - 1)'
  BY <1>2
<1> QED
  BY <1>1, <1>3 DEF ShownList

LEMMA Unseen ==
    ASSUME IInv, count' = count, \A i \in Live : ShownAt(i)' = ShownAt(i)
    PROVE  ShownList' = ShownList
<1>1. count \in Nat /\ \A k \in 0 .. count - 1 : k \in Live
  BY Typed DEF Live
<1> QED
  BY <1>1, ShownFacts, SameList

LEMMA OneChanged ==
    ASSUME IInv, count' = count, NEW x \in Live,
           \A i \in Live : i # x => ShownAt(i)' = ShownAt(i)
    PROVE  ShownList' = [ShownList EXCEPT ![x + 1] = ShownAt(x)']
<1>1. count \in Nat /\ \A p \in 1 .. count : p - 1 \in Live /\ (p - 1 = x <=> p = x + 1)
  BY Typed DEF Live
<1>2. ShownList' = [p \in 1 .. count |-> ShownAt(p - 1)']
  BY DEF ShownList
<1>3. ASSUME NEW p \in 1 .. count
      PROVE  ShownAt(p - 1)' = IF p = x + 1 THEN ShownAt(x)' ELSE ShownList[p]
  <2>1. CASE p = x + 1
    <3>1. p - 1 = x
      BY <1>1, <2>1
    <3> QED
      BY <2>1, <3>1
  <2>2. CASE p # x + 1
    BY <1>1, <2>2 DEF ShownList
  <2> QED
    BY <2>1, <2>2
<1>4. [ShownList EXCEPT ![x + 1] = ShownAt(x)'] =
          [p \in 1 .. count |-> IF p = x + 1 THEN ShownAt(x)' ELSE ShownList[p]]
  BY ShownFacts
<1> QED
  BY <1>2, <1>3, <1>4

-----------------------------------------------------------------------------
(* Every step is one of the list, or is not seen.                          *)

LEMMA InitShown == SyncInit => List!Init
<1> SUFFICES ASSUME SyncInit PROVE List!Init
  OBVIOUS
<1>1. IInv
  BY InitIInv
<1>2. \A i \in Live : /\ table[i].filled = FALSE /\ table[i].state = "Init"
                      /\ table[i].symbol \in Symbols
  <2>1. PICK list \in InitialLists, n \in 0 .. MaxSymbols, blocks \in [Indices -> Blocks] :
            /\ DOMAIN list = 0 .. n - 1
            /\ count = n
            /\ table = [i \in Indices |-> IF i < n THEN NewSlot(list[i], blocks[i])
                                         ELSE EmptySlot]
    BY DEF SyncInit, TableInit
  <2>2. \A i \in Live : table[i] = NewSlot(list[i], blocks[i])
    BY <1>1, <2>1, Typed DEF Live
  <2>3. \A s, b : /\ NewSlot(s, b).filled = FALSE /\ NewSlot(s, b).state = "Init"
                  /\ NewSlot(s, b).symbol = s
    BY DEF NewSlot
  <2>4. \A i \in Live : table[i].symbol \in Symbols
    BY <1>1, Typed DEF Slot
  <2> QED
    BY <2>2, <2>3, <2>4
<1>3. Len(ShownList) =< MaxSymbols
  BY <1>1, ShownFacts, Typed
<1>4. ASSUME NEW p \in DOMAIN ShownList
      PROVE  ShownList[p].symbol \in Symbols /\ ShownList[p] = List!New(ShownList[p].symbol)
  <2>1. p - 1 \in Live /\ ShownList[p] = ShownAt(p - 1)
    BY <1>1, Typed DEF ShownList, Live
  <2> QED
    BY <1>2, <2>1 DEF ShownAt, List!New
<1> QED
  BY <1>3, <1>4 DEF List!Init

LEMMA SuccessShown ==
    ASSUME IInv, ListInv, SyncSuccessLocked
    PROVE  List!Next \/ ShownList' = ShownList
<1> DEFINE Facts(x, d) ==
               /\ x \in Indices /\ count' = count /\ d \in AnyKlines /\ d.of = Fetched
               /\ table'[x].symbol = table[x].symbol /\ table'[x].state = "Synced"
               /\ table'[x].filled = TRUE /\ table'[x].block = table[x].block
               /\ \A i \in Indices : i # x => table'[i] = table[i]
               /\ \A i \in Live : heap'[table[i].block] =
                                     IF table[i].block = table[x].block THEN d
                                     ELSE heap[table[i].block]
<1>0. PICK x, d : x = Index /\ Facts(x, d)
  <2>1. Facts(Index, Klines(Fetched, sync.base))
    BY SuccessFacts, ZenonT(60)
  <2> HIDE DEF Facts
  <2> QED
    BY <2>1
<1>1. /\ x \in Indices /\ count' = count /\ d \in AnyKlines /\ d.of = Fetched
      /\ table'[x].symbol = table[x].symbol /\ table'[x].state = "Synced"
      /\ table'[x].filled = TRUE /\ table'[x].block = table[x].block
      /\ \A i \in Indices : i # x => table'[i] = table[i]
      /\ \A i \in Live : heap'[table[i].block] =
                            IF table[i].block = table[x].block THEN d ELSE heap[table[i].block]
  BY <1>0
<1>2. OnlyGrows => x \in Live /\ Fetched = table[x].symbol /\ table[x].state # "Error"
  BY <1>0, IndexMeant DEF SyncSuccessLocked
<1>3. \A i \in Live : i \in Indices
  BY Typed
\* An entry whose block is not the one written looks as before.
<1>4. ASSUME NEW i \in Live, i # x, table[i].block # table[x].block
      PROVE  ShownAt(i)' = ShownAt(i)
  BY <1>1, <1>3, <1>4 DEF ShownAt
<1>5. CASE x \in Live
  <2>1. \A i \in Live : i # x => ShownAt(i)' = ShownAt(i)
    BY <1>4, <1>5, BlocksApart
  <2>2. ShownAt(x)' = [symbol |-> table[x].symbol, state |-> "Synced", shown |-> d]
    <3>1. heap'[table'[x].block] = d /\ table'[x].filled
      BY <1>1, <1>5
    <3> QED
      BY <1>1, <3>1 DEF ShownAt
  <2>3. x + 1 \in DOMAIN ShownList /\ ShownList[x + 1] = ShownAt(x)
    BY <1>5, ShownFacts
  <2>4. ShownList' = [ShownList EXCEPT ![x + 1] = [symbol |-> ShownList[x + 1].symbol,
                                                   state |-> "Synced", shown |-> d]]
    BY <1>1, <1>5, <2>1, <2>2, <2>3, OneChanged, EntryFacts
  <2>5. List!Meant(x + 1) /\ (OnlyGrows => d.of = ShownList[x + 1].symbol)
    BY <1>1, <1>2, <2>3, EntryFacts DEF List!Meant
  <2> QED
    BY <1>1, <2>3, <2>4, <2>5 DEF List!Next, List!Fill
<1>6. CASE x \notin Live
  <2>1. CASE \E i \in Live : table[i].block = table[x].block /\ table[i].filled
    <3>1. PICK y \in Live : table[y].block = table[x].block /\ table[y].filled
      BY <2>1
    <3>2. \A i \in Live : i # y => ShownAt(i)' = ShownAt(i)
      BY <1>4, <1>6, <3>1, BlocksApart
    <3>3. ShownAt(y)' = [ShownAt(y) EXCEPT !.shown = d]
      BY <1>1, <1>3, <1>6, <3>1 DEF ShownAt
    <3>4. y + 1 \in DOMAIN ShownList /\ ShownList[y + 1] = ShownAt(y)
      BY ShownFacts
    <3>5. ShownList' = [ShownList EXCEPT ![y + 1] = [@ EXCEPT !.shown = d]]
      BY <1>1, <3>2, <3>3, <3>4, OneChanged
    <3>6. ShownList[y + 1].shown # Fresh
      BY <3>1, <3>4, EntryFacts, KlinesAreData DEF ListInv, FilledHasData
    <3> QED
      BY <1>1, <1>2, <1>6, <3>4, <3>5, <3>6 DEF List!Next, List!Overwrite
  <2>2. CASE ~\E i \in Live : table[i].block = table[x].block /\ table[i].filled
    <3>1. ASSUME NEW i \in Live
          PROVE  ShownAt(i)' = ShownAt(i)
      <4>1. table'[i] = table[i] /\ (table[i].filled => table[i].block # table[x].block)
        BY <1>1, <1>3, <1>6, <2>2
      <4> QED
        BY <1>1, <4>1 DEF ShownAt
    <3> QED
      BY <1>1, <3>1, Unseen
  <2> QED
    BY <2>1, <2>2
<1> QED
  BY <1>5, <1>6

LEMMA ErrorShown ==
    ASSUME IInv, ListInv, SyncErrorLocked
    PROVE  List!Next \/ ShownList' = ShownList
<1>0. PICK x : x = Index
  OBVIOUS
<1>1. /\ x \in Indices /\ count' = count /\ heap' = heap
      /\ table'[x].symbol = table[x].symbol /\ table'[x].state \in {"Degraded", "Error"}
      /\ table'[x].filled = table[x].filled /\ table'[x].block = table[x].block
      /\ \A i \in Indices : i # x => table'[i] = table[i]
  BY <1>0, ErrorFacts
<1>2. OnlyGrows => x \in Live /\ table[x].state # "Error"
  BY <1>0, IndexMeant DEF SyncErrorLocked
<1>3. \A i \in Live : i # x => ShownAt(i)' = ShownAt(i)
  BY <1>1, Typed DEF ShownAt
<1>4. CASE x \in Live
  <2>1. ShownAt(x)' = [ShownAt(x) EXCEPT !.state = table'[x].state]
    BY <1>1 DEF ShownAt
  <2>2. x + 1 \in DOMAIN ShownList /\ ShownList[x + 1] = ShownAt(x)
    BY <1>4, ShownFacts
  <2>3. ShownList' = [ShownList EXCEPT ![x + 1] = [@ EXCEPT !.state = table'[x].state]]
    BY <1>1, <1>3, <1>4, <2>1, <2>2, OneChanged
  <2>4. List!Meant(x + 1)
    BY <1>2, <2>2, EntryFacts DEF List!Meant
  <2> QED
    BY <1>1, <2>2, <2>3, <2>4 DEF List!Next, List!Fail
<1>5. CASE x \notin Live
  BY <1>1, <1>3, <1>5, Unseen
<1> QED
  BY <1>4, <1>5

LEMMA AddShown ==
    ASSUME IInv, UiAddLocked
    PROVE  List!Next \/ ShownList' = ShownList
<1>1. heap' = heap /\ count \in Nat
  BY AddFacts, Typed
<1>2. CASE table' = table /\ count' = count
  <2>1. \A i \in Live : ShownAt(i)' = ShownAt(i)
    BY <1>1, <1>2 DEF ShownAt
  <2> QED
    BY <1>2, <2>1, Unseen
<1>3. CASE ~(table' = table /\ count' = count)
  <2>1. PICK n, s :
            /\ n = count /\ n < MaxSymbols /\ count' = n + 1
            /\ \A i \in Live : table'[i] = table[i]
            /\ s \in Symbols /\ table'[n].symbol = s /\ table'[n].state = "Init"
            /\ table'[n].filled = FALSE
    BY <1>3, AddFacts
  <2>2. ShownAt(n)' = List!New(s)
    BY <2>1 DEF ShownAt, List!New
  <2>3. \A i \in Live : ShownAt(i)' = ShownAt(i)
    BY <1>1, <2>1 DEF ShownAt
  <2> DEFINE S == Shown \cup {List!New(s)}
             u == Append(ShownList, List!New(s))
  <2>4. ShownList \in Seq(S) /\ Len(ShownList) = n /\ n \in Nat
    <3>1. ShownList \in [1 .. n -> S] /\ Len(ShownList) = n /\ n \in Nat
      BY <1>1, <2>1, ShownFacts
    <3> QED
      BY <3>1
  <2>5. /\ u \in Seq(S) /\ Len(u) = n + 1 /\ u[n + 1] = List!New(s)
        /\ \A p \in 1 .. n : u[p] = ShownList[p]
    BY <2>4, AppendProperties
  <2> HIDE DEF S, u
  <2>6. ASSUME NEW k \in 0 .. n
        PROVE  u[k + 1] = ShownAt(k)'
    <3>1. CASE k = n
      BY <2>2, <2>5, <3>1
    <3>2. CASE k # n
      <4>1. k \in Live /\ k + 1 \in 1 .. n
        BY <2>1, <2>4, <3>2 DEF Live
      <4> QED
        BY <2>3, <2>5, <4>1, ShownFacts
    <3> QED
      BY <3>1, <3>2
  <2>7. n + 1 \in Nat /\ (n + 1) - 1 = n
    BY <2>4
  <2>8. ShownList' = u
    BY <2>1, <2>5, <2>6, <2>7, SameList
  <2> QED
    BY <2>1, <2>4, <2>8 DEF u, List!Next, List!AddEntry
<1> QED
  BY <1>2, <1>3

LEMMA ResetShown ==
    ASSUME IInv, UiResetSymbols
    PROVE  List!Next
<1>1. ASSUME NEW i \in Live
      PROVE  ShownAt(i)' = List!New(ShownAt(i).symbol)
  BY ResetFacts, EntryFacts DEF ShownAt, List!New
<1>2. ASSUME NEW p \in 1 .. count
      PROVE  ShownAt(p - 1)' = List!New(ShownList[p].symbol)
  <2>1. p - 1 \in Live /\ ShownList[p] = ShownAt(p - 1)
    BY Typed DEF Live, ShownList
  <2> QED
    BY <1>1, <2>1
<1>3. ShownList' = [p \in 1 .. count |-> List!New(ShownList[p].symbol)]
  BY <1>2, ResetFacts DEF ShownList
<1> QED
  BY <1>3, ShownFacts DEF List!Next, List!ResetAll

LEMMA RemoveShown ==
    ASSUME IInv, UiRemoveLocked
    PROVE  List!Next
<1>1. ~OnlyGrows /\ count' = count - 1 /\ heap' = heap /\ count \in Nat
  BY RemoveFacts, Typed
<1>2. PICK i \in Live : \A k \in 0 .. count - 2 : table'[k] = table[IF k < i THEN k ELSE k + 1]
  BY RemoveFacts
<1>3. PICK t \in Seq(Shown) : /\ t = ShownList /\ Len(t) = count
                             /\ \A k \in Live : t[k + 1] = ShownAt(k)
  BY ShownFacts
<1>4. PICK p \in 1 .. Len(t) : p = i + 1
  BY <1>1, <1>3 DEF Live
<1>5. PICK u \in Seq(Shown) :
          /\ u = List!RemoveAt(t, p) /\ Len(u) = Len(t) - 1
          /\ \A k \in 1 .. Len(t) - 1 : u[k] = IF k < p THEN t[k] ELSE t[k + 1]
  BY RemoveAtFacts
<1>6. ASSUME NEW k \in 0 .. count' - 1
      PROVE  u[k + 1] = ShownAt(k)'
  <2>1. /\ k \in 0 .. count - 2 /\ k \in Live /\ k + 1 \in Live
        /\ k + 1 \in 1 .. Len(t) - 1 /\ (k + 1 < p <=> k < i)
    BY <1>1, <1>3, <1>4 DEF Live
  <2>2. CASE k < i
    <3>1. u[k + 1] = ShownAt(k) /\ table'[k] = table[k]
      BY <1>2, <1>3, <1>5, <2>1, <2>2
    <3> QED
      BY <1>1, <3>1 DEF ShownAt
  <2>3. CASE ~(k < i)
    <3>1. u[k + 1] = ShownAt(k + 1) /\ table'[k] = table[k + 1]
      BY <1>2, <1>3, <1>5, <2>1, <2>3
    <3> QED
      BY <1>1, <3>1 DEF ShownAt
  <2> QED
    BY <2>2, <2>3
<1>7. count - 1 \in Nat
  BY <1>1, <1>2 DEF Live
<1>8. ShownList' = u
  BY <1>1, <1>3, <1>5, <1>6, <1>7, SameList
<1>9. ShownList' = List!RemoveAt(ShownList, p) /\ p \in DOMAIN ShownList
  BY <1>3, <1>5, <1>8, ShownFacts
<1> QED
  BY <1>1, <1>9 DEF List!Next, List!RemoveEntry

LEMMA MoveShown ==
    ASSUME IInv, UiMoveLocked
    PROVE  List!Next
<1>1. ~OnlyGrows /\ count' = count /\ heap' = heap /\ count \in Nat
  BY MoveFacts, Typed
<1>2. PICK i \in Live, j \in Live : \A k \in Live :
          MovedFrom(i, j, k) \in Live /\ table'[k] = table[MovedFrom(i, j, k)]
  BY MoveFacts
<1>3. PICK t \in Seq(Shown) : /\ t = ShownList /\ Len(t) = count
                             /\ \A k \in Live : t[k + 1] = ShownAt(k)
  BY ShownFacts
<1>4. i \in 0 .. Len(t) - 1 /\ j \in 0 .. Len(t) - 1
  BY <1>3 DEF Live
<1>5. PICK u \in Seq(Shown) :
          /\ u = List!InsertAt(List!RemoveAt(t, i + 1), j + 1, t[i + 1])
          /\ Len(u) = Len(t)
          /\ \A k \in 0 .. Len(t) - 1 : u[k + 1] = t[MovedFrom(i, j, k) + 1]
  BY <1>4, MovedFacts
<1>6. ASSUME NEW k \in 0 .. count - 1
      PROVE  u[k + 1] = ShownAt(k)'
  <2>1. PICK l \in Live : l = MovedFrom(i, j, k) /\ table'[k] = table[l]
    BY <1>2 DEF Live
  <2>2. u[k + 1] = ShownAt(l)
    BY <1>3, <1>5, <2>1
  <2> QED
    BY <1>1, <2>1, <2>2 DEF ShownAt
<1>7. ShownList' = u
  BY <1>1, <1>3, <1>5, <1>6, SameList
<1>8. PICK p \in DOMAIN ShownList, q \in DOMAIN ShownList : p = i + 1 /\ q = j + 1
  BY ShownFacts
<1>9. ShownList' = List!InsertAt(List!RemoveAt(ShownList, p), q, ShownList[p])
  BY <1>3, <1>5, <1>7, <1>8
<1> QED
  BY <1>1, <1>9 DEF List!Next, List!MoveEntry

\* Every other step leaves what is shown alone.
LEMMA QuietShown ==
    ASSUME IInv, table' = table, count' = count,
           \A i \in Live : heap'[table[i].block] = heap[table[i].block]
    PROVE  ShownList' = ShownList
<1>1. \A i \in Live : ShownAt(i)' = ShownAt(i)
  BY DEF ShownAt
<1> QED
  BY <1>1, Unseen

Quiet ==
    \/ SyncStart \/ SyncClear \/ SyncCollect \/ SyncCollectLocked \/ SyncName \/ SyncNameLocked
    \/ SyncFetch \/ SyncResult \/ SyncSuccessCheck \/ SyncStrikesCheck \/ SyncStrikesLocked
    \/ SyncErrorCheck \/ SyncBackoff \/ SyncRefused \/ SyncFault \/ SyncDisconnected
    \/ SyncConnected \/ BackoffElapses \/ UNCHANGED syncVars

LEMMA QuietIsQuiet == ASSUME Quiet PROVE UNCHANGED <<table, count, heap>>
BY DEF Quiet, SyncStart, SyncClear, SyncCollect, SyncCollectLocked, SyncName, SyncNameLocked,
       SyncFetch, SyncResult, SyncSuccessCheck, SyncStrikesCheck, SyncStrikesLocked,
       SyncErrorCheck, SyncBackoff, SyncRefused, SyncFault, SyncDisconnected, SyncConnected,
       BackoffElapses, syncVars, tableVars, unchangedTable

LEMMA StepCases ==
    ASSUME [SyncNext]_syncVars
    PROVE  Quiet \/ SyncSuccessLocked \/ SyncErrorLocked \/ UiNext
BY Zenon DEF SyncNext, SyncStep, Quiet

LEMMA StepShown == IInv /\ ListInv /\ [SyncNext]_syncVars => [List!Next]_ShownList
<1> SUFFICES ASSUME IInv, ListInv, [SyncNext]_syncVars
             PROVE  List!Next \/ ShownList' = ShownList
  BY Zenon
<1>1. CASE Quiet
  BY <1>1, QuietIsQuiet, QuietShown
<1>2. CASE UiAddAllocate \/ UiFreeBlock \/ UiSaveRegion \/ UiForceResync
  BY <1>2, QuietFacts, QuietShown
<1>3. CASE SyncSuccessLocked \/ SyncErrorLocked
  BY <1>3, SuccessShown, ErrorShown
<1>4. CASE UiAddLocked \/ UiRemoveLocked \/ UiMoveLocked \/ UiResetSymbols
  BY <1>4, AddShown, RemoveShown, MoveShown, ResetShown
<1> QED
  BY <1>1, <1>2, <1>3, <1>4, StepCases, Zenon DEF UiNext

\* app_state.h's promise of a list edited as a whole is kept by the table: by
\* its shifting of whole entries, by the one block each of them owns, and by
\* the lock around every write, even where the index it is made at is stale.
THEOREM TableImplementsList == SyncSpec => ImplementsWatchlist
<1>1. IInv /\ ListInv /\ [SyncNext]_syncVars => [List!Next]_ShownList
  BY StepShown
<1> QED
  BY InitShown, ListInvHolds, <1>1, PTL DEF SyncSpec, ImplementsWatchlist, List!Spec

-----------------------------------------------------------------------------
(* Lists that only grow.                                                   *)

\* A symbol that was given up is tried again only after a change of server, in
\* such a list: collect_due_indices() leaves it out, and no result of a batch
\* comes twice.
THEOREM GrowingErrorIsFinal == OnlyGrows => (SyncSpec => ErrorIsFinal)
<1> DEFINE Revived == \E i \in Live \cap Live' : /\ table[i].state = "Error"
                                               /\ table'[i].symbol = table[i].symbol
                                               /\ table'[i].state # "Error"
<1>1. ASSUME OnlyGrows, IInv, ListInv, [SyncNext]_syncVars
      PROVE  Revived => UiResetSymbols
  <2>1. CASE Quiet \/ UiAddAllocate \/ UiFreeBlock \/ UiSaveRegion \/ UiForceResync
    BY <1>1, <2>1, QuietIsQuiet, QuietFacts
  <2>2. CASE SyncSuccessLocked
    BY <1>1, <2>2, SuccessFacts, IndexMeant, Typed DEF SyncSuccessLocked
  <2>3. CASE SyncErrorLocked
    BY <1>1, <2>3, ErrorFacts, IndexMeant, Typed DEF SyncErrorLocked
  <2>4. CASE UiAddLocked
    BY <1>1, <2>4, AddFacts
  <2>5. CASE UiRemoveLocked \/ UiMoveLocked
    BY <1>1, <2>5, RemoveFacts, MoveFacts
  <2> QED
    BY <1>1, <2>1, <2>2, <2>3, <2>4, <2>5, StepCases, Zenon DEF UiNext
<1>2. OnlyGrows /\ IInv /\ ListInv /\ [SyncNext]_syncVars
          => [\A i \in Live \cap Live' :
                 /\ table[i].state = "Error"
                 /\ table'[i].symbol = table[i].symbol
                 /\ table'[i].state # "Error"
                 => UiResetSymbols]_syncVars
  BY <1>1
<1>3. OnlyGrows => OnlyGrows'
  BY DEF OnlyGrows
<1> QED
  BY ListInvHolds, <1>2, <1>3, PTL DEF SyncSpec, ErrorIsFinal

=============================================================================
