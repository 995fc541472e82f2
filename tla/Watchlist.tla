------------------------------ MODULE Watchlist ------------------------------
(***************************************************************************)
(* What app_state.h promises of the watchlist: a list without gaps.        *)
(* Each edit takes effect at once and as a whole; a move is "a pure        *)
(* permutation" of whole entries, so that what an entry shows goes with    *)
(* it.  What is fetched meanwhile changes one entry at a time and never    *)
(* its symbol or its place.  There are no indices, no locks, no blocks of  *)
(* memory and no batches here.                                             *)
(***************************************************************************)
EXTENDS Integers, SequencesExt

CONSTANTS
    Tickers,    \* the symbols that occur
    MaxLen,     \* how long the list may be
    NoData,     \* what an entry without klines shows
    Data,       \* what an entry with klines shows: records with a field `of`
    Growing     \* nothing is removed or moved

VARIABLE list   \* entries: what the user sees

New(s) == [symbol |-> s, state |-> "Init", shown |-> NoData]

Init ==
    /\ Len(list) =< MaxLen
    /\ \A i \in DOMAIN list : list[i].symbol \in Tickers /\ list[i] = New(list[i].symbol)

AddEntry ==
    /\ Len(list) < MaxLen
    /\ \E s \in Tickers : list' = Append(list, New(s))

RemoveEntry ==
    /\ ~Growing
    /\ \E i \in DOMAIN list : list' = RemoveAt(list, i)

MoveEntry ==
    /\ ~Growing
    /\ \E i, j \in DOMAIN list : list' = InsertAt(RemoveAt(list, i), j, list[i])

\* Another server: everything is to be fetched again.
ResetAll == list' = [i \in DOMAIN list |-> New(list[i].symbol)]

\* In a list that only grows, a fetch is for a symbol that has not been given
\* up, and brings its own klines.
Meant(i) == Growing => list[i].state # "Error"

Fill ==
    \E i \in DOMAIN list, d \in Data :
        /\ Meant(i)
        /\ Growing => d.of = list[i].symbol
        /\ list' = [list EXCEPT ![i] = [symbol |-> list[i].symbol, state |-> "Synced",
                                        shown |-> d]]

Fail ==
    \E i \in DOMAIN list, state \in {"Degraded", "Error"} :
        /\ Meant(i)
        /\ list' = [list EXCEPT ![i] = [@ EXCEPT !.state = state]]

\* A result that comes for a symbol removed or moved meanwhile may replace the
\* klines of another one, but only where there are some already.
Overwrite ==
    /\ ~Growing
    /\ \E i \in DOMAIN list, d \in Data :
          /\ list[i].shown # NoData
          /\ list' = [list EXCEPT ![i] = [@ EXCEPT !.shown = d]]

Next == AddEntry \/ RemoveEntry \/ MoveEntry \/ ResetAll \/ Fill \/ Fail \/ Overwrite

Spec == Init /\ [][Next]_list

=============================================================================
