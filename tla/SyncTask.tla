------------------------------ MODULE SyncTask ------------------------------
(***************************************************************************)
(* The task that keeps the watchlist's klines, app_state_sync_task.c, next *)
(* to the UI task of SymbolTable.  Every two seconds it collects the table *)
(* indices that are due, fetches them in one blocking batch and records    *)
(* each result at the index it had collected.                              *)
(*                                                                         *)
(* Every accessor of app_state.c compares the index with s_symbol_count    *)
(* before it takes the lock, so it is two steps here: <Step>Check and the  *)
(* step under the lock.  The results of a batch are chosen when they are   *)
(* recorded; the server they come from is the one read as the batch began. *)
(***************************************************************************)
EXTENDS SymbolTable, Sequences

CONSTANTS
    Listed,     \* the <<symbol, server>> pairs that exist
    Reconnects, \* the Wi-Fi link is lost and comes back
    AtomicTake  \* nothing runs between reading and clearing s_force_resync_all

ASSUME SyncAssumption ==
    /\ Listed \subseteq Symbols \X Regions
    /\ Reconnects \in BOOLEAN
    /\ AtomicTake \in BOOLEAN

VARIABLES
    sync,       \* where the task is in its loop, and its local variables
    waiting,    \* per index: s_next_attempt_ms lies in the future
    offline     \* s_disconnected_since_ms # 0

syncVars == <<tableVars, sync, waiting, offline>>

Steps == {"Idle", "Clear", "Collect", "CollectLocked", "Name", "NameLocked", "Fetch", "Result",
          "SuccessCheck", "SuccessLocked", "StrikesCheck", "StrikesLocked",
          "ErrorCheck", "ErrorLocked", "Backoff"}

\* run_due_fetches(): its local variables, and how far it has come.
Locals == [step        : Steps,
           n           : 0 .. MaxSymbols,        \* count
           forced      : BOOLEAN,
           k           : 0 .. MaxSymbols,        \* i
           due         : Seq(Indices),           \* due_indices
           names       : Seq(Names),             \* symbol_storage
           base        : Regions \cup {"none"},  \* base_url
           notFound    : BOOLEAN,                \* results[i].err
           recoverable : BOOLEAN]

SyncTypeOK ==
    /\ TableTypeOK
    /\ sync \in Locals
    /\ waiting \in [Indices -> BOOLEAN]
    /\ offline \in BOOLEAN

\* The index the task is about to use.
Index == sync.due[sync.k + 1]

Loop == [step |-> "Idle", n |-> 0, forced |-> FALSE, k |-> 0, due |-> <<>>, names |-> <<>>,
         base |-> "none", notFound |-> FALSE, recoverable |-> FALSE]

SyncInit ==
    /\ TableInit
    /\ sync = Loop
    /\ waiting = [i \in Indices |-> FALSE]
    /\ offline = FALSE

unchangedTable == <<table, count, heap, region, ui, edits>>

Goto(step) == sync' = [sync EXCEPT !.step = step]

\* Control goes back to the loop; the local variables are dead.
Rest == sync' = Loop

-----------------------------------------------------------------------------
(* handle_wifi_event(), at the head of the loop.                           *)

SyncDisconnected ==
    /\ sync.step = "Idle"
    /\ Reconnects
    /\ ~offline
    /\ offline' = TRUE
    /\ UNCHANGED <<unchangedTable, force, sync, waiting>>

\* After a gap of at least one candle everything is fetched again.
SyncConnected ==
    /\ sync.step = "Idle"
    /\ offline
    /\ offline' = FALSE
    /\ force' \in {force, TRUE}
    /\ UNCHANGED <<unchangedTable, sync, waiting>>

-----------------------------------------------------------------------------
(* run_due_fetches().                                                      *)

\* Mutant: the count at boot.
BootCount == CHOOSE n \in {Cardinality(DOMAIN list) : list \in InitialLists} : TRUE

\* app_state_symbol_count(), read again every time round.
CurrentCount == count

\* s_force_resync_all is read here and cleared in the next statement.
SyncStart ==
    /\ sync.step = "Idle"
    /\ CurrentCount > 0
    /\ sync' = [sync EXCEPT !.step = IF AtomicTake THEN "Collect" ELSE "Clear",
                            !.n = CurrentCount, !.forced = force]
    /\ force' = (force /\ ~AtomicTake)
    /\ UNCHANGED <<unchangedTable, waiting, offline>>

SyncClear ==
    /\ sync.step = "Clear"
    /\ force' = FALSE
    /\ Goto("Collect")
    /\ UNCHANGED <<unchangedTable, waiting, offline>>

\* Mutant: a forced resync takes everything.
DueAlways(slot, i) ==
    sync.forced \/ slot.state = "Init" \/ (slot.state = "Degraded" /\ ~waiting[i])

\* Is the entry to be fetched?
Due(slot, i) ==
    IF sync.forced THEN slot.state # "Error"
    ELSE slot.state = "Init" \/ (slot.state = "Degraded" /\ ~waiting[i])

\* collect_due_indices().
SyncCollect ==
    /\ sync.step = "Collect"
    /\ \/ /\ sync.k < sync.n
          /\ sync.k < count
          /\ Goto("CollectLocked")
       \/ /\ sync.k < sync.n
          /\ sync.k >= count
          /\ sync' = [sync EXCEPT !.k = @ + 1]
       \/ /\ sync.k = sync.n
          /\ sync.due = <<>>
          /\ Rest
       \/ /\ sync.k = sync.n
          /\ sync.due # <<>>
          /\ sync' = [sync EXCEPT !.step = "Name", !.k = 0, !.n = 0]
    /\ UNCHANGED <<unchangedTable, force, waiting, offline>>

SyncCollectLocked ==
    /\ sync.step = "CollectLocked"
    /\ sync' = [sync EXCEPT !.step = "Collect", !.k = @ + 1,
                            !.due = IF Due(table[sync.k], sync.k) THEN Append(@, sync.k) ELSE @]
    /\ UNCHANGED <<unchangedTable, force, waiting, offline>>

\* The names of the due symbols.  The accessor's result is not checked: when
\* the index is gone by now, what is copied was never written.
SyncName ==
    /\ sync.step = "Name"
    /\ \/ /\ sync.k < Len(sync.due)
          /\ Index < count
          /\ Goto("NameLocked")
       \/ /\ sync.k < Len(sync.due)
          /\ Index >= count
          /\ \E s \in Names : sync' = [sync EXCEPT !.names = Append(@, s), !.k = @ + 1]
       \/ /\ sync.k = Len(sync.due)
          /\ Goto("Fetch")
    /\ UNCHANGED <<unchangedTable, force, waiting, offline>>

SyncNameLocked ==
    /\ sync.step = "NameLocked"
    /\ sync' = [sync EXCEPT !.step = "Name", !.k = @ + 1,
                            !.names = Append(@, table[Index].symbol)]
    /\ UNCHANGED <<unchangedTable, force, waiting, offline>>

\* market_data_client_fetch_klines_24h_5m_batch() begins.
SyncFetch ==
    /\ sync.step = "Fetch"
    /\ sync' = [sync EXCEPT !.step = "Result", !.k = 0, !.base = region, !.forced = FALSE]
    /\ UNCHANGED <<unchangedTable, force, waiting, offline>>

\* The batch does not run (NOT_SYNCED): a forced resync is asked for again.
SyncRefused ==
    /\ sync.step = "Fetch"
    /\ force' = (force \/ sync.forced)
    /\ Rest
    /\ UNCHANGED <<unchangedTable, waiting, offline>>

Fetched == sync.names[sync.k + 1]

Exists == <<Fetched, sync.base>> \in Listed

\* The loop over the results.
SyncResult ==
    /\ sync.step = "Result"
    /\ \/ /\ sync.k = Len(sync.due)
          /\ Rest
       \/ /\ sync.k < Len(sync.due)
          /\ Exists
          /\ Goto("SuccessCheck")
       \/ /\ sync.k < Len(sync.due)
          /\ ~Exists
          /\ sync' = [sync EXCEPT !.step = "StrikesCheck", !.notFound = TRUE]
    /\ UNCHANGED <<unchangedTable, force, waiting, offline>>

\* A fault of the network, or a name no request can be built from.
SyncFault ==
    /\ sync.step = "Result"
    /\ sync.k < Len(sync.due)
    /\ sync' = [sync EXCEPT !.step = "ErrorCheck", !.notFound = FALSE,
                            !.recoverable = (Fetched # Garbage)]
    /\ UNCHANGED <<unchangedTable, force, waiting, offline>>

NextResult == sync' = [sync EXCEPT !.step = "Result", !.k = @ + 1, !.notFound = FALSE,
                                   !.recoverable = FALSE]

\* The index a success is recorded at.
RecordAt == Index

\* app_state_record_success(), as it is called.
SyncSuccessCheck ==
    /\ sync.step = "SuccessCheck"
    /\ \/ RecordAt < count /\ Goto("SuccessLocked")
       \/ RecordAt >= count /\ NextResult
    /\ UNCHANGED <<unchangedTable, force, waiting, offline>>

\* A block that has been freed is written to all the same.
SyncSuccessLocked ==
    LET slot == table[RecordAt] IN
    /\ sync.step = "SuccessLocked"
    /\ heap' = [heap EXCEPT ![slot.block] = IF @ = Free THEN Free ELSE Klines(Fetched, sync.base)]
    /\ table' = [table EXCEPT ![RecordAt] = [slot EXCEPT !.state = "Synced", !.strikes = 0,
                                                         !.filled = TRUE]]
    /\ NextResult
    /\ UNCHANGED <<count, region, force, ui, edits, waiting, offline>>

\* The strikes before this failure.  The accessor's result is not checked.
SyncStrikesCheck ==
    /\ sync.step = "StrikesCheck"
    /\ \/ Index < count /\ Goto("StrikesLocked")
       \/ /\ Index >= count
          /\ \E yes \in BOOLEAN :
                sync' = [sync EXCEPT !.step = "ErrorCheck", !.recoverable = yes]
    /\ UNCHANGED <<unchangedTable, force, waiting, offline>>

\* app_state_retry_invalid_symbol_is_recoverable().
SyncStrikesLocked ==
    /\ sync.step = "StrikesLocked"
    /\ sync' = [sync EXCEPT !.step = "ErrorCheck",
                            !.recoverable = (table[Index].strikes + 1 < MaxStrikes)]
    /\ UNCHANGED <<unchangedTable, force, waiting, offline>>

SyncErrorCheck ==
    /\ sync.step = "ErrorCheck"
    /\ \/ Index < count /\ Goto("ErrorLocked")
       \/ Index >= count /\ Goto("Backoff")
    /\ UNCHANGED <<unchangedTable, force, waiting, offline>>

\* app_state_record_error(), under the lock; the strikes saturate.
SyncErrorLocked ==
    LET slot == table[Index] IN
    /\ sync.step = "ErrorLocked"
    /\ table' = [table EXCEPT ![Index] =
                    [slot EXCEPT !.state = IF sync.recoverable THEN "Degraded" ELSE "Error",
                                 !.strikes = IF sync.notFound /\ @ < MaxStrikes THEN @ + 1 ELSE @]]
    /\ Goto("Backoff")
    /\ UNCHANGED <<count, heap, region, force, ui, edits, waiting, offline>>

\* A failure that can be retried is retried after a while.
SyncBackoff ==
    /\ sync.step = "Backoff"
    /\ waiting' = [waiting EXCEPT ![Index] = @ \/ sync.recoverable]
    /\ NextResult
    /\ UNCHANGED <<unchangedTable, force, offline>>

\* Time passes.
BackoffElapses ==
    /\ \E i \in Indices : waiting[i] /\ waiting' = [waiting EXCEPT ![i] = FALSE]
    /\ UNCHANGED <<unchangedTable, force, sync, offline>>

SyncStep ==
    \/ SyncStart \/ SyncClear \/ SyncCollect \/ SyncCollectLocked \/ SyncName \/ SyncNameLocked
    \/ SyncFetch \/ SyncResult \/ SyncSuccessCheck \/ SyncSuccessLocked \/ SyncStrikesCheck
    \/ SyncStrikesLocked \/ SyncErrorCheck \/ SyncErrorLocked \/ SyncBackoff

SyncNext ==
    \/ SyncStep \/ SyncRefused \/ SyncFault \/ SyncDisconnected \/ SyncConnected
    \/ BackoffElapses
    \/ UiNext /\ UNCHANGED <<sync, waiting, offline>>

SyncSpec == SyncInit /\ [][SyncNext]_syncVars

\* The two tasks go on, a delay ends, and a network that is tried for ever
\* answers some day.
SyncFairness ==
    /\ WF_syncVars(SyncStep \/ SyncRefused \/ SyncFault)
    /\ WF_syncVars(UiFinishes /\ UNCHANGED <<sync, waiting, offline>>)
    /\ WF_syncVars(BackoffElapses)
    /\ SF_syncVars(SyncFetch)
    /\ \A k \in Indices : SF_syncVars(sync.k = k /\ SyncResult)

SyncFairSpec == SyncSpec /\ SyncFairness

-----------------------------------------------------------------------------
(* Properties.                                                             *)

\* Blocks in use: one per entry of the table, and the one the UI task holds.
Held == {table[i].block : i \in Live} \cup ({ui.block} \ {NoBlock})

\* "the table has no gaps" (app_state.h), and neither has the heap: every block
\* that is allocated belongs to exactly one entry of the table or is in the
\* hands of the UI task, whatever the order of additions, removals and moves.
BlocksOwned ==
    /\ Held = {b \in Blocks : heap[b] # Free}
    /\ \A i, j \in Live : table[i].block = table[j].block => i = j
    /\ \A i \in Live : table[i].block # ui.block

\* An index that has passed the check against s_symbol_count and is stale when
\* the lock is taken still names an entry with a block: memcpy() never writes
\* through a null pointer.
NullIsNotWritten ==
    sync.step = "SuccessLocked" => table[RecordAt].block # NoBlock

\* A symbol that is SYNCED shows its own klines: "reordering is fully
\* transparent to the WS/REST layers" (app_state.h:102).
DataIsOwn ==
    \A i \in Live : table[i].state = "Synced" => heap[table[i].block].of = table[i].symbol

\* After a change of server no klines of the old one are left on screen once
\* the resync it forces has been taken up and no fetch is in flight.  Not met
\* when the request comes between the reading of the flag and its clearing,
\* which AtomicTake leaves out (README, known weaknesses).
RegionDataFresh ==
    sync.step = "Idle" /\ ui = UiIdle /\ ~force =>
        \A i \in Live : table[i].state = "Synced" => heap[table[i].block].from = region

\* "Symbols in APP_STATE_SYMBOL_ERROR (unrecoverable) are never included":
\* only a change of server gives such a symbol another chance.
ErrorIsFinal ==
    [][\A i \in Live \cap Live' :
           /\ table[i].state = "Error"
           /\ table'[i].symbol = table[i].symbol
           /\ table'[i].state # "Error"
           => UiResetSymbols]_syncVars

\* A symbol every server knows does not stay "Loading": it is SYNCED in the
\* end, also when it was added at run time.
NoSymbolForgotten ==
    \A s \in Symbols :
        {s} \X Regions \subseteq Listed =>
            <>[](\A i \in Live : table[i].symbol = s => table[i].state = "Synced")

-----------------------------------------------------------------------------
(* What is promised of the list (Watchlist).                               *)

OnlyGrows == Edits \cap {"Remove", "Move"} = {}

\* What the display shows for an entry; without klines, nothing.
ShownAt(i) ==
    [symbol |-> table[i].symbol,
     state  |-> table[i].state,
     shown  |-> IF table[i].filled THEN heap[table[i].block] ELSE Fresh]

ShownList == [p \in 1 .. count |-> ShownAt(p - 1)]

AnyKlines == {Klines(s, r) : s \in Names, r \in Regions}

List == INSTANCE Watchlist WITH
            Tickers <- Symbols, MaxLen <- MaxSymbols, NoData <- Fresh, Growing <- OnlyGrows,
            Data <- AnyKlines, list <- ShownList

\* "a pure permutation" (app_state.h:96): with its shared blocks, its shifts,
\* its stale indices and its checks outside the lock the table is a list that
\* is edited in single steps, and a fetch changes no entry but one.
ImplementsWatchlist == List!Spec

=============================================================================
