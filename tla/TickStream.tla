----------------------------- MODULE TickStream -----------------------------
(***************************************************************************)
(* The way of a tick: the WebSocket library hands the frames of a message  *)
(* to handle_data_event() (market_data_ws_client.c) in pieces, the parser  *)
(* fills s_pending_update, the queue keeps it for the WebSocket task, and  *)
(* the task merges it into the candles of its symbol while the sync task   *)
(* puts fresh candles there and the user moves the rows of the table       *)
(* (Charts).                                                               *)
(*                                                                         *)
(* A message is the frames it is sent in and what it says; the library     *)
(* calls once per piece of a frame with the piece's offset in that frame.  *)
(***************************************************************************)
EXTENDS StreamParser, Charts

CONSTANTS
    Messages(_),        \* what the server may send at a time: a set of Message(...)
    PieceSizes          \* how much of a frame one DATA event carries, in runs

VARIABLES
    net,        \* the message being delivered, with what is left of its frames
    offset,     \* how much of the frame has been handed over
    parser      \* s_parser; its out is s_pending_update

streamVars == <<chartVars, net, offset, parser>>

Silence == [frames |-> <<>>]

StreamInit ==
    /\ ChartsInit
    /\ net = Silence /\ offset = 0 /\ parser = StreamParserInit

\* The server: time passes, with a message that sets out or without, and the
\* connection is lost with what has not been handed over.
Pass ==
    /\ net = Silence
    /\ Passes
    /\ UNCHANGED <<net, offset, parser>>

Send ==
    /\ net = Silence
    /\ Passes
    /\ net' \in Messages(now)
    /\ offset' = 0
    /\ UNCHANGED parser

Lose ==
    /\ net # Silence
    /\ net' = Silence
    /\ UNCHANGED <<chartVars, offset, parser>>

-----------------------------------------------------------------------------
(* market_data_ws_client.c, in the library's task                          *)

\* Mutant: what is left of the message before is taken for its beginning.
ParserKept == parser

\* The first piece of a frame starts the parser and the pending update afresh.
ParserAtPiece == IF offset = 0 THEN StreamParserInit ELSE parser

Digit == <<"1", "2", "3", "4", "5", "6", "7", "8", "9">>
\* A field nothing has been written to is zero (the parser's init clears them).
Value(text) ==
    LET Of(c) == CHOOSE n \in DOMAIN Digit : Digit[n] = c
    IN  IF text = <<>> THEN 0 ELSE IF text[1] = "-" THEN -Of(text[2]) ELSE Of(text[1])

\* Mutant: the fields of high and low are exchanged.
TickExchanged(out) == [open |-> Value(out["t"]), high |-> Value(out["l"]),
                       low  |-> Value(out["h"]), close |-> Value(out["c"])]

\* The tick of an update, s_pending_update.
TickOf(out) == [open |-> Value(out["t"]), high |-> Value(out["h"]),
                low  |-> Value(out["l"]), close |-> Value(out["c"])]

PieceEnd(size) == IF offset + size < Len(Head(net.frames)) THEN offset + size ELSE Len(Head(net.frames))

\* handle_data_event(): only the piece that ends a frame asks for the verdict,
\* and a piece that does not parse ends the matter.
DataEvent(size) ==
    /\ net # Silence
    /\ \E fed \in {StreamFeed(ParserAtPiece, SubSeq(Head(net.frames), offset + 1, PieceEnd(size)))} :
         /\ parser' = fed
         /\ IF PieceEnd(size) < Len(Head(net.frames))
            THEN offset' = PieceEnd(size) /\ UNCHANGED <<net, queue>>
            ELSE /\ offset' = 0
                 /\ net' = IF Len(net.frames) = 1 THEN Silence ELSE [net EXCEPT !.frames = Tail(@)]
                 /\ queue' = IF Verdict(fed) = "UPDATE"
                             THEN Queued(queue, [symbol |-> fed.out["s"], tick |-> TickOf(fed.out),
                                                 update |-> fed.out, paired |-> net.paired,
                                                 says |-> net.says])
                             ELSE queue
    /\ UNCHANGED <<now, table, held, moves>>

StreamNext ==
    \/ Pass \/ Send \/ Lose
    \/ \E size \in PieceSizes : DataEvent(size)
    \/ Changes /\ UNCHANGED <<net, offset, parser>>

StreamSpec == StreamInit /\ [][StreamNext]_streamVars

-----------------------------------------------------------------------------
(* What a message says, read off its tokens                                *)

\* The places of the values of a key at some depth.
ValuesAt(toks, depth, key) ==
    {j \in 3 .. Len(toks) : /\ toks[j - 2] = Str(key) /\ toks[j - 1].kind = ":"
                            /\ Depth(toks, j) = depth}

LastText(toks, depth, key) ==
    LET S == ValuesAt(toks, depth, key) IN toks[CHOOSE j \in S : \A k \in S : k =< j].text

\* The update a message speaks of, if it does.
SaidBy(toks) ==
    LET Has(depth, key) == ValuesAt(toks, depth, key) # {}
    IN  IF /\ \A key \in TickKeys : Has(3, key)
           /\ Has(2, "s") /\ Has(2, "e") /\ LastText(toks, 2, "e") = <<"kline">>
        THEN {[key \in TickKeys \cup {"s"} |-> LastText(toks, IF key = "s" THEN 2 ELSE 3, key)]}
        ELSE {}

Message(toks, frames, good) == 
    [frames |-> frames, fine |-> good, paired |-> Paired(toks), says |-> SaidBy(toks)]

-----------------------------------------------------------------------------
\* What reaches the task is what one message says, all of it and nothing of the
\* message before: wherever its pieces were cut, whatever is nested in it under
\* the names of its fields, whatever was lost before it.  (Of messages whose
\* brackets pair: skip_advance() does not tell what closes from a scalar.)
UpdatesAreSaid ==
    \A i \in DOMAIN queue : queue[i].paired => queue[i].says = {queue[i].update}

\* A message as it should be, in one frame, that is handed over to its end is
\* queued if there is room, whatever came before it on the connection.
TicksArrive ==
    [][\A size \in PieceSizes :
          (/\ net # Silence /\ net.fine /\ net' = Silence
           /\ Len(queue) < UpdateQueueLen /\ DataEvent(size))
          => Len(queue') = Len(queue) + 1]_streamVars
=============================================================================
