---------------------------- MODULE SymbolTable -----------------------------
(***************************************************************************)
(* The watchlist table of app_state.c and its only editor, the UI task     *)
(* (display_ui.c): symbols are added at the end, removed and moved, and a  *)
(* change of the API region resets them all.  Each critical section under  *)
(* s_lock is one step; what the code does before taking the lock or after  *)
(* giving it back is a step of its own, because the tasks that fetch run   *)
(* in between.                                                             *)
(*                                                                         *)
(* A slot's klines live in a block of PSRAM of their own.  The entries of  *)
(* s_symbols[] from s_symbol_count on are not cleared when the table       *)
(* shrinks: they keep the slots, and the block pointers, they had.         *)
(*                                                                         *)
(* Abstractions: klines are the symbol and the server they were fetched    *)
(* for; last_error, retry_attempt and last_sync_time_ms are left out (a    *)
(* retry's delay is the mere fact that it runs, see SyncTask); the queue   *)
(* of watchlist events is left to the WebSocket task's model.              *)
(***************************************************************************)
EXTENDS Integers, FiniteSets

CONSTANTS
    Symbols,        \* the tickers that occur
    Regions,        \* the API servers
    Blocks,         \* the blocks of PSRAM heap_caps_malloc() may return
    NoBlock,        \* NULL
    MaxSymbols,     \* APP_STATE_MAX_SYMBOLS
    MaxStrikes,     \* APP_STATE_MAX_INVALID_SYMBOL_ATTEMPTS
    Edits,          \* the kinds of edits the user makes
    EditMax,        \* bound: how many edits the user makes
    InitialLists    \* the watchlists found in flash

ASSUME TableAssumption ==
    /\ Regions \cap {"none", "free", "garbage"} = {}
    /\ Symbols \cap {"garbage", "free"} = {}
    /\ NoBlock \notin Blocks
    /\ MaxSymbols \in Nat \ {0}
    /\ MaxStrikes \in Nat \ {0}
    /\ Edits \subseteq {"Add", "Remove", "Move", "Region"}
    /\ EditMax \in Nat
    /\ \A list \in InitialLists :
          \E n \in 0 .. MaxSymbols : list \in [0 .. n - 1 -> Symbols]

VARIABLES
    table,  \* s_symbols[]
    count,  \* s_symbol_count
    heap,   \* the blocks: what they hold, or Free
    region, \* api_region_settings_t.region, in flash
    force,  \* s_force_resync_all
    ui,     \* what the UI task does, and the block it holds meanwhile
    edits   \* how many edits the user has made

tableVars == <<table, count, heap, region, force, ui, edits>>

Indices    == 0 .. MaxSymbols - 1
SlotStates == {"Init", "Synced", "Degraded", "Error"}

\* What a ticker read from uninitialised memory is.
Garbage == "garbage"

Names == Symbols \cup {Garbage}

\* What a block holds: klines of a symbol from a server, or none yet.
Klines(s, r) == [of |-> s, from |-> r]
Fresh        == Klines(Garbage, Garbage)
Free         == Klines("free", "free")
Contents     == {Free, Fresh} \cup {Klines(s, r) : s \in Names, r \in Regions}

\* symbol_slot_t; `filled`: kline_count # 0.  All numbers of strikes from
\* MaxStrikes on are one.
Slot == [symbol  : Symbols,
         state   : SlotStates,
         strikes : 0 .. MaxStrikes,    \* invalid_symbol_count
         filled  : BOOLEAN,
         block   : Blocks]

\* A static entry that was never used.
EmptySlot == [symbol |-> Garbage, state |-> "Init", strikes |-> 0, filled |-> FALSE,
              block |-> NoBlock]

NewSlot(s, b) == [symbol |-> s, state |-> "Init", strikes |-> 0, filled |-> FALSE, block |-> b]

Live == 0 .. count - 1

UiSteps == {"Idle", "AddLocked", "FreeBlock", "ResetSymbols", "ForceResync"}

TableTypeOK ==
    /\ table \in [Indices -> Slot \cup {EmptySlot}]
    /\ count \in 0 .. MaxSymbols
    /\ \A i \in Live : table[i] \in Slot
    /\ heap \in [Blocks -> Contents]
    /\ region \in Regions
    /\ force \in BOOLEAN
    /\ ui \in [step : UiSteps, block : Blocks \cup {NoBlock}, symbol : Names]
    /\ edits \in 0 .. EditMax

UiIdle == [step |-> "Idle", block |-> NoBlock, symbol |-> Garbage]

\* app_state_init() for the watchlist `list`: one block per symbol.
TableInit ==
    \E list \in InitialLists, n \in 0 .. MaxSymbols, blocks \in [Indices -> Blocks] :
        /\ DOMAIN list = 0 .. n - 1
        /\ \A i, j \in Indices : blocks[i] = blocks[j] => i = j
        /\ count = n
        /\ table = [i \in Indices |-> IF i < n THEN NewSlot(list[i], blocks[i]) ELSE EmptySlot]
        /\ heap = [b \in Blocks |-> IF \E i \in 0 .. n - 1 : blocks[i] = b THEN Fresh ELSE Free]
        /\ region \in Regions
        /\ force = FALSE
        /\ ui = UiIdle
        /\ edits = 0

-----------------------------------------------------------------------------
(* Edits by the user.                                                      *)

StartEdit(kind) ==
    /\ ui = UiIdle
    /\ kind \in Edits
    /\ edits < EditMax
    /\ edits' = edits + 1

\* app_state_add_symbol(): the block is allocated before the lock is taken.
UiAddAllocate ==
    /\ StartEdit("Add")
    /\ count < MaxSymbols
    /\ \E s \in Symbols, b \in Blocks :
          /\ heap[b] = Free
          /\ heap' = [heap EXCEPT ![b] = Fresh]
          /\ ui' = [step |-> "AddLocked", block |-> b, symbol |-> s]
    /\ UNCHANGED <<table, count, region, force>>

Appended(s, b) == [table EXCEPT ![count] = NewSlot(s, b)]

\* The count is checked again under the lock.
UiAddLocked ==
    /\ ui.step = "AddLocked"
    /\ \/ /\ count < MaxSymbols
          /\ table' = Appended(ui.symbol, ui.block)
          /\ count' = count + 1
          /\ ui' = UiIdle
       \/ /\ count >= MaxSymbols
          /\ ui' = [ui EXCEPT !.step = "FreeBlock"]
          /\ UNCHANGED <<table, count>>
    /\ UNCHANGED <<heap, region, force, edits>>

\* Mutant: the block to free is looked up after the entries have moved down.
BlockAfterShift(i) == IF i + 1 < count THEN table[i + 1].block ELSE table[i].block

\* The block app_state_remove_symbol() frees.
BlockToFree(i) == table[i].block

\* Mutant: the entry left over at the end is cleared.
ShiftedAndCleared(i) ==
    [k \in Indices |-> IF k = count - 1 THEN EmptySlot
                       ELSE IF i =< k /\ k < count - 1 THEN table[k + 1] ELSE table[k]]

\* The entries after i move down by one.
ShiftedDown(i) ==
    [k \in Indices |-> IF i =< k /\ k < count - 1 THEN table[k + 1] ELSE table[k]]

\* app_state_remove_symbol().
UiRemoveLocked ==
    /\ StartEdit("Remove")
    /\ \E i \in Live :
          /\ table' = ShiftedDown(i)
          /\ ui' = [step |-> "FreeBlock", block |-> BlockToFree(i), symbol |-> Garbage]
    /\ count' = count - 1
    /\ UNCHANGED <<heap, region, force>>

\* heap_caps_free(), after the lock has been given back.
UiFreeBlock ==
    /\ ui.step = "FreeBlock"
    /\ heap' = [heap EXCEPT ![ui.block] = Free]
    /\ ui' = UiIdle
    /\ UNCHANGED <<table, count, region, force, edits>>

\* Mutant: the loop that shifts the entries in between stops one short.
MovedShort(i, j, k) ==
    CASE k = j                  -> i
      [] i < k /\ k < j         -> k + 1
      [] j < k /\ k < i         -> k - 1
      [] OTHER                  -> k

\* Where the entry that ends up at k was before a move from i to j.
MovedFrom(i, j, k) ==
    CASE k = j                  -> i
      [] i =< k /\ k < j        -> k + 1
      [] j < k /\ k =< i        -> k - 1
      [] OTHER                  -> k

\* app_state_move_symbol(); the UI does not ask for a move to the same place.
UiMoveLocked ==
    /\ StartEdit("Move")
    /\ \E i, j \in Live :
          /\ i # j
          /\ table' = [k \in Indices |-> table[MovedFrom(i, j, k)]]
    /\ UNCHANGED <<count, heap, region, force, ui>>

\* apply_region_change(): the new server is saved first; when only its source
\* changed (automatic or manual) nothing is reset.
UiSaveRegion ==
    /\ StartEdit("Region")
    /\ \E r \in Regions :
          /\ region' = r
          /\ ui' = [UiIdle EXCEPT !.step = IF r # region THEN "ResetSymbols" ELSE "ForceResync"]
    /\ UNCHANGED <<table, count, heap, force>>

\* app_state_reset_symbols_for_region_change().
UiResetSymbols ==
    /\ ui.step = "ResetSymbols"
    /\ table' = [k \in Indices |->
                    IF k \in Live THEN NewSlot(table[k].symbol, table[k].block) ELSE table[k]]
    /\ ui' = [ui EXCEPT !.step = "ForceResync"]
    /\ UNCHANGED <<count, heap, region, force, edits>>

\* Mutant: nothing is fetched again.
ForceForgotten ==
    /\ ui.step = "ForceResync"
    /\ ui' = UiIdle
    /\ UNCHANGED <<table, count, heap, region, force, edits>>

\* app_state_sync_task_force_resync().
UiForceResync ==
    /\ ui.step = "ForceResync"
    /\ force' = TRUE
    /\ ui' = UiIdle
    /\ UNCHANGED <<table, count, heap, region, edits>>

UiNext ==
    \/ UiAddAllocate \/ UiAddLocked \/ UiRemoveLocked \/ UiFreeBlock \/ UiMoveLocked
    \/ UiSaveRegion \/ UiResetSymbols \/ UiForceResync

\* The UI task finishes what it has begun; no one makes the user edit.
UiFinishes == UiAddLocked \/ UiFreeBlock \/ UiResetSymbols \/ UiForceResync

=============================================================================
