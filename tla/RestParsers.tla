---------------------------- MODULE RestParsers -----------------------------
(***************************************************************************)
(* The three grammars of the REST client on top of the scanner:            *)
(* market_data_klines_parser.c, market_data_symbol_parser.c and            *)
(* market_data_ticker_parser.c.  Each is a record with its format, its     *)
(* place in the grammar ("at") and what it has taken out of the body.      *)
(*                                                                         *)
(* The members of an object are read the same way in the symbol and the    *)
(* ticker grammar and at every level: Key, Colon, Value, Next, with Skip   *)
(* for a value that is an array or an object nobody asked for.  That walk  *)
(* is InObject, what a key means at a level is TakeValue.                  *)
(*                                                                         *)
(* Abstractions: a number is its text.                                     *)
(***************************************************************************)
EXTENDS JsonScanner

Fail(p)   == [p EXCEPT !.at = "Error"]
Go(p, at) == [p EXCEPT !.at = at]
Over(p)   == p.at \in {"Done", "Error", "Full"}
Text(p)   == p.sc.scratch

\* What feed returned.  "Full" is the error state entered with INVALID_ARG.
FeedErr(p) ==
    CASE p.at = "Full"  -> "INVALID_ARG"
      [] p.at = "Error" -> "PARSE"
      [] OTHER          -> "OK"

-----------------------------------------------------------------------------
(* Candles: an array of rows of 12 fields, written where the caller said.  *)

LastField == 11
NumberFields == {0, 6, 8}
IgnoredField == 11

KlinesParserInit(capacity) ==
    [format |-> "klines", sc |-> ScannerInit, at |-> "Start", capacity |-> capacity,
     field |-> 0, rows |-> 0, out |-> <<>>]

\* handle_field_value(): whether the token may stand in the field.
FieldTakes(field, kind, text) ==
    CASE field \in NumberFields -> kind = "number"
      [] field = IgnoredField   -> kind \in {"string", "number"}
      [] OTHER                  -> kind = "string" /\ IsNumeric(text)

\* Of a row, only the opening price is kept here: it tells whose row it is.
\* out is indexed from 1; row number rows is the one being written.
PutField(p) ==
    IF p.field = 1 THEN [p EXCEPT !.out = Append(SubSeq(@, 1, p.rows), Text(p))] ELSE p

\* Mutant: one row too many.
HasRoomForOneMore(p) == p.rows <= p.capacity

HasRoom(p) == p.rows < p.capacity

KlinesStep(p, kind) ==
    CASE p.at = "Start" -> IF kind = "[" THEN Go(p, "RowOrEnd") ELSE Fail(p)
      [] p.at = "RowOrEnd" ->
            CASE kind = "]" -> Go(p, "Done")
              [] kind = "[" /\ HasRoom(p) -> [p EXCEPT !.field = 0, !.at = "Field"]
              [] kind = "[" /\ ~HasRoom(p) -> Go(p, "Full")
              [] OTHER -> Fail(p)
      [] p.at = "Field" ->
            IF FieldTakes(p.field, kind, Text(p)) THEN Go(PutField(p), "FieldEnd") ELSE Fail(p)
      [] p.at = "FieldEnd" ->
            CASE kind = "," /\ p.field < LastField -> [p EXCEPT !.field = @ + 1, !.at = "Field"]
              [] kind = "]" /\ p.field = LastField -> [p EXCEPT !.rows = @ + 1, !.at = "RowEnd"]
              [] OTHER -> Fail(p)
      [] p.at = "RowEnd" ->
            CASE kind = "," -> Go(p, "RowOrEnd")
              [] kind = "]" -> Go(p, "Done")
              [] OTHER -> Fail(p)

-----------------------------------------------------------------------------
(* Objects: exchangeInfo with its first symbol, and the 24 hour ticker.    *)

SymbolParserInit ==
    [format |-> "symbol", sc |-> ScannerInit, at |-> "Start", level |-> "root", key |-> <<>>,
     depth |-> 0, saw |-> {}, out |-> [trading |-> FALSE, spot |-> FALSE]]

TickerKeys == {"lastPrice", "priceChangePercent", "highPrice", "lowPrice"}

TickerParserInit ==
    [format |-> "ticker", sc |-> ScannerInit, at |-> "Start", level |-> "ticker", key |-> <<>>,
     depth |-> 0, saw |-> {}, out |-> [k \in TickerKeys |-> <<>>]]

\* The closing brace of the object at a level: the root of exchangeInfo must
\* not close before "symbols" was seen, a symbol not without its status, a
\* ticker not without its four fields.
CloseObject(p) ==
    CASE p.level = "symbol" /\ "status" \in p.saw -> Go(p, "Done")
      [] p.level = "ticker" /\ p.saw = TickerKeys -> Go(p, "Done")
      [] OTHER -> Fail(p)

SkipValue(p, kind) ==
    LET depth == Deeper(p.depth, kind)
    IN  [p EXCEPT !.depth = depth, !.at = IF depth = 0 THEN "Next" ELSE "Skip"]

TakeStatus(p, kind) ==
    IF kind # "string" THEN Fail(p)
    ELSE [p EXCEPT !.out.trading = Text(p) = <<"TRADING">>, !.saw = @ \cup {"status"}, !.at = "Next"]

\* capture_decimal_field()
TakeDecimal(p, kind) ==
    IF kind # "string" \/ ~IsNumeric(Text(p)) THEN Fail(p)
    ELSE [p EXCEPT !.out[p.key[1]] = Text(p), !.saw = @ \cup {p.key[1]}, !.at = "Next"]

TakeValue(p, kind) ==
    CASE p.level = "root" /\ p.key = <<"symbols">> ->
            IF kind = "[" THEN Go(p, "FirstSymbol") ELSE Fail(p)
      [] p.level = "symbol" /\ p.key = <<"status">> -> TakeStatus(p, kind)
      [] p.level = "symbol" /\ p.key = <<"permissionSets">> ->
            IF kind = "[" THEN Go(p, "SetOrEnd") ELSE Fail(p)
      [] p.level = "ticker" /\ p.key \in {<<k>> : k \in TickerKeys} -> TakeDecimal(p, kind)
      [] OTHER -> SkipValue([p EXCEPT !.depth = 0], kind)

InObject(p, kind) ==
    CASE p.at = "Key" ->
            CASE kind = "}" -> CloseObject(p)
              [] kind = "string" -> [p EXCEPT !.key = Text(p), !.at = "Colon"]
              [] OTHER -> Fail(p)
      [] p.at = "Colon" -> IF kind = ":" THEN Go(p, "Value") ELSE Fail(p)
      [] p.at = "Value" -> TakeValue(p, kind)
      [] p.at = "Skip"  -> SkipValue(p, kind)
      [] p.at = "Next"  ->
            CASE kind = "," -> Go(p, "Key")
              [] kind = "}" -> CloseObject(p)
              [] OTHER -> Fail(p)

\* permissionSets is an array of arrays of strings.
InPermissions(p, kind) ==
    CASE p.at = "SetOrEnd" ->
            CASE kind = "]" -> Go(p, "Next")
              [] kind = "[" -> Go(p, "PermOrEnd")
              [] OTHER -> Fail(p)
      [] p.at = "PermOrEnd" ->
            CASE kind = "]" -> Go(p, "SetEnd")
              [] kind = "string" ->
                    [p EXCEPT !.out.spot = @ \/ Text(p) = <<"SPOT">>, !.at = "PermEnd"]
              [] OTHER -> Fail(p)
      [] p.at = "PermEnd" ->
            CASE kind = "," -> Go(p, "PermOrEnd")
              [] kind = "]" -> Go(p, "SetEnd")
              [] OTHER -> Fail(p)
      [] p.at = "SetEnd" ->
            CASE kind = "," -> Go(p, "SetOrEnd")
              [] kind = "]" -> Go(p, "Next")
              [] OTHER -> Fail(p)

SymbolStep(p, kind) ==
    CASE p.at = "Start" -> IF kind = "{" THEN Go(p, "Key") ELSE Fail(p)
      [] p.at = "FirstSymbol" ->
            IF kind = "{" THEN [p EXCEPT !.level = "symbol", !.at = "Key"] ELSE Fail(p)
      [] p.at \in {"SetOrEnd", "PermOrEnd", "PermEnd", "SetEnd"} -> InPermissions(p, kind)
      [] OTHER -> InObject(p, kind)

TickerStep(p, kind) ==
    IF p.at = "Start" THEN IF kind = "{" THEN Go(p, "Key") ELSE Fail(p)
                      ELSE InObject(p, kind)

-----------------------------------------------------------------------------
\* A token goes to the grammar of the body, if there is one.
TakeToken(p, kind) ==
    CASE kind = "none"  -> p
      [] kind = "error" -> Fail(p)
      [] OTHER -> CASE p.format = "klines" -> KlinesStep(p, kind)
                    [] p.format = "symbol" -> SymbolStep(p, kind)
                    [] p.format = "ticker" -> TickerStep(p, kind)

\* One run of a body that is not over: first the number or literal it ends, then
\* what it is itself.
FeedRun(p, c) ==
    LET q   == IF TokenEnds(p.sc, c)
               THEN TakeToken([p EXCEPT !.sc.lex = "Between"], EndedKind(p.sc)) ELSE p
        got == ScannerNext(q.sc, c)
    IN  IF Over(q) THEN q ELSE TakeToken([q EXCEPT !.sc = got.sc], got.kind)

\* The parser after each run of a chunk; nothing is read once the body is over.
Feeding(p, buf) ==
    LET Fed[i \in 0 .. Len(buf)] ==
            IF i = 0 THEN p
            ELSE LET q == Fed[i - 1] IN IF Over(q) THEN q ELSE FeedRun(q, buf[i])
    IN  Fed

\* The *_parser_feed() functions.
Feed(p, buf) == Feeding(p, buf)[Len(buf)]

\* Mutant: a body that is cut off is as good as a whole one.
NotFailed(p) == p.at # "Error"

\* The *_parser_finish() functions.
Finished(p) == p.at = "Done"
=============================================================================
