---------------------------- MODULE StreamParser ----------------------------
(***************************************************************************)
(* The grammar of a message of the combined kline stream,                  *)
(* market_data_ws_stream_parser.c: a root object with "data", in it the    *)
(* event type, the symbol and "k", in that the fields of the tick.  What   *)
(* else there is at any level is passed over.                              *)
(***************************************************************************)
EXTENDS JsonScanner

CONSTANT SymbolMax      \* SETTINGS_SYMBOL_MAX_LEN, counted in runs

ASSUME SymbolAssumption == SymbolMax \in Nat \ {0}

TimeKeys  == {"t", "n"}                    \* numbers
PriceKeys == {"o", "h", "l", "c", "v"}     \* decimal strings
TickKeys  == TimeKeys \cup PriceKeys \cup {"x"}

StreamParserInit ==
    [sc |-> ScannerInit, at |-> "Start", level |-> "root", key |-> <<>>, depth |-> 0,
     kline |-> FALSE, saw |-> {}, out |-> [k \in TickKeys \cup {"s"} |-> <<>>]]

Fail(p)   == [p EXCEPT !.at = "Error"]
Go(p, at) == [p EXCEPT !.at = at]
Over(p)   == p.at \in {"Done", "Error"}
Text(p)   == p.sc.scratch

\* k_fields_complete()
TickComplete(p) == TickKeys \subseteq p.saw

Up(p, level) == [p EXCEPT !.level = level, !.at = "Next"]

\* Mutant: whether a kline event has its symbol and its tick is not looked at.
CloseAnyObject(p) ==
    CASE p.level = "root" -> Go(p, "Done")
      [] p.level = "data" -> Up(p, "root")
      [] OTHER            -> IF TickComplete(p) THEN Up([p EXCEPT !.saw = @ \cup {"k"}], "data")
                                                ELSE Fail(p)

\* The closing brace at a level: a tick must be complete, and so must be what
\* claims to be a kline event.
CloseObject(p) ==
    CASE p.level = "root" -> Go(p, "Done")
      [] p.level = "data" -> IF p.kline /\ ~({"k", "s"} \subseteq p.saw) THEN Fail(p) ELSE Up(p, "root")
      [] p.level = "k"    -> IF TickComplete(p) THEN Up([p EXCEPT !.saw = @ \cup {"k"}], "data")
                                                ELSE Fail(p)

SkipValue(p, kind) ==
    LET depth == Deeper(p.depth, kind)
    IN  [p EXCEPT !.depth = depth, !.at = IF depth = 0 THEN "Next" ELSE "Skip"]

Descend(p, kind, level) == IF kind = "{" THEN [p EXCEPT !.level = level, !.at = "Key"] ELSE Fail(p)

Take(p, key) == [p EXCEPT !.out[key] = Text(p), !.saw = @ \cup {key}, !.at = "Next"]

DataValue(p, kind) ==
    CASE p.key = <<"e">> ->
            IF kind # "string" THEN Fail(p)
            ELSE [p EXCEPT !.kline = Text(p) = <<"kline">>, !.at = "Next"]
      [] p.key = <<"s">> ->
            IF kind # "string" \/ Len(Text(p)) > SymbolMax THEN Fail(p) ELSE Take(p, "s")
      [] p.key = <<"k">> -> Descend(p, kind, "k")
      [] OTHER -> SkipValue([p EXCEPT !.depth = 0], kind)

KValue(p, kind) ==
    CASE p.key \in {<<k>> : k \in TimeKeys} ->
            IF kind = "number" THEN Take(p, p.key[1]) ELSE Fail(p)
      [] p.key \in {<<k>> : k \in PriceKeys} ->
            IF kind = "string" /\ IsNumeric(Text(p)) THEN Take(p, p.key[1]) ELSE Fail(p)
      [] p.key = <<"x">> ->
            IF kind \in {"true", "false"} THEN Take(p, "x") ELSE Fail(p)
      [] OTHER -> SkipValue([p EXCEPT !.depth = 0], kind)

RootValue(p, kind) ==
    IF p.key = <<"data">> THEN Descend(p, kind, "data") ELSE SkipValue([p EXCEPT !.depth = 0], kind)

StreamStep(p, kind) ==
    CASE p.at = "Start" -> IF kind = "{" THEN Go(p, "Key") ELSE Fail(p)
      [] p.at = "Key"   ->
            CASE kind = "}"      -> CloseObject(p)
              [] kind = "string" -> [p EXCEPT !.key = Text(p), !.at = "Colon"]
              [] OTHER -> Fail(p)
      [] p.at = "Colon" -> IF kind = ":" THEN Go(p, "Value") ELSE Fail(p)
      [] p.at = "Value" ->
            CASE p.level = "root" -> RootValue(p, kind)
              [] p.level = "data" -> DataValue(p, kind)
              [] OTHER            -> KValue(p, kind)
      [] p.at = "Skip"  -> SkipValue(p, kind)
      [] p.at = "Next"  ->
            CASE kind = "," -> Go(p, "Key")
              [] kind = "}" -> CloseObject(p)
              [] OTHER -> Fail(p)

\* A token goes to the grammar, if there is one.
TakeToken(p, kind) ==
    CASE kind = "none"  -> p
      [] kind = "error" -> Fail(p)
      [] OTHER          -> StreamStep(p, kind)

\* One run of a body that is not over: first the number or literal it ends, then
\* what it is itself.
FeedRun(p, c) ==
    LET q   == IF TokenEnds(p.sc, c)
               THEN TakeToken([p EXCEPT !.sc.lex = "Between"], EndedKind(p.sc)) ELSE p
        got == ScannerNext(q.sc, c)
    IN  IF Over(q) THEN q ELSE TakeToken([q EXCEPT !.sc = got.sc], got.kind)

\* The parser after each run of a chunk; nothing is read once the body is over.
Feeding(p, buf) ==
    LET Fed[i \in 0 .. Len(buf)] ==
            IF i = 0 THEN p
            ELSE LET q == Fed[i - 1] IN IF Over(q) THEN q ELSE FeedRun(q, buf[i])
    IN  Fed

\* market_data_ws_stream_parser_feed()
StreamFeed(p, buf) == Feeding(p, buf)[Len(buf)]

\* market_data_ws_stream_parser_finish()
Verdict(p) ==
    IF p.at # "Done" THEN "ERROR" ELSE IF p.kline THEN "UPDATE" ELSE "IGNORED"
=============================================================================
