------------------------------ MODULE RestFetch -----------------------------
(***************************************************************************)
(* The REST client: market_data_client.c on market_data_http.c, its URLs   *)
(* (market_data_url.c) and its parsers (RestParsers).  A caller asks for   *)
(* the state of a symbol, a ticker, the candles of one symbol or those of  *)
(* several; the requests of the last are sent one after the other over one *)
(* HTTP session.  The user may choose another server meanwhile.            *)
(*                                                                         *)
(* esp_http_client (external) is its handle and the bytes that have come   *)
(* and are not read; close() throws them away.  A body is read in chunks   *)
(* of any size, may fail half-way and may end too early.                   *)
(*                                                                         *)
(* Abstractions: a URL is its server, path and symbol, and always fits;    *)
(* arguments are not NULL; an error body is its code.                      *)
(***************************************************************************)
EXTENDS RestParsers, FiniteSets

CONSTANTS
    Symbols,        \* tickers that may be asked for
    BadNames,       \* those among them that are not letters and digits
    Regions,        \* the API servers
    Kinds,          \* the calls that are made
    Capacity,       \* rows the caller has room for
    ChunkSizes,     \* bound: how many runs esp_http_client_read() returns
    BatchMax        \* bound: symbols of a batch

ASSUME RestAssumption ==
    /\ BadNames \subseteq Symbols
    /\ Kinds \subseteq {"symbol", "ticker", "klines", "batch"}
    /\ Capacity \in Nat \ {0}
    /\ ChunkSizes \subseteq Nat \ {0}
    /\ BatchMax \in Nat \ {0}

\* What a server may answer: [status, toks, fine], fine when it is what the
\* caller hopes for.
CONSTANT Answers(_, _, _)

VARIABLES
    region,     \* api_region_settings_t.region, in flash
    call,       \* the function that runs: its arguments and where it is
    conn,       \* esp_http_client: its handle, the bytes not read
    parser,     \* the parser on the stack
    results,    \* out_results
    asked       \* history: the request and the answer behind each result

restVars == <<region, call, conn, parser, results, asked>>

NoConn   == [handle |-> FALSE, unread |-> <<>>]
NoParser == [format |-> "none"]
Idle     == [kind |-> "none", names |-> <<>>, base |-> "none", step |-> "Idle"]

RestInit ==
    /\ region \in Regions
    /\ call = Idle
    /\ conn = NoConn
    /\ parser = NoParser
    /\ results = <<>>
    /\ asked = <<>>

Turn == Len(results) + 1        \* i
Name == call.names[Turn]

\* market_data_url_build_*(): the names are checked, the path is the kind's.
UrlIsValid(name) == name \notin BadNames
Path(kind) ==
    CASE kind = "symbol" -> "exchangeInfo"
      [] kind = "ticker" -> "ticker/24hr"
      [] kind = "klines" -> "klines"
      [] kind = "batch"  -> "klines 5m"

ParserInit ==
    CASE call.kind = "symbol" -> SymbolParserInit
      [] call.kind = "ticker" -> TickerParserInit
      [] OTHER                -> KlinesParserInit(Capacity)

-----------------------------------------------------------------------------
\* The entry of each function: nothing is sent before the clock is right, and
\* select_base_url() is asked once.
Call(kind) ==
    /\ call = Idle
    /\ kind \in Kinds
    /\ \E n \in 1 .. (IF kind = "batch" THEN BatchMax ELSE 1) :
       \E names \in [1 .. n -> Symbols] :
          call' = [kind |-> kind, names |-> names, base |-> region, step |-> "Request"]
    /\ UNCHANGED <<region, conn, parser, results, asked>>

\* A result is recorded and the next symbol has its turn.  The count is only
\* written by the parser's finish().
Record(err, taken) ==
    /\ results' = Append(results,
          [err |-> err, count |-> IF err = "OK" /\ parser.format = "klines" THEN parser.rows ELSE 0,
           out |-> IF parser.format = "none" THEN <<>> ELSE parser.out])
    /\ asked' = IF Len(asked) < Turn
                THEN Append(asked, [base |-> call.base, status |-> 0, toks |-> <<>>, fine |-> FALSE,
                                    taken |-> 0, whole |-> FALSE])
                ELSE [asked EXCEPT ![Turn].whole = taken]
    /\ parser' = NoParser
    /\ call' = [call EXCEPT !.step = IF Turn < Len(call.names) THEN "Request" ELSE "Return"]

\* The URL is refused.
Refuse ==
    /\ call.step = "Request"
    /\ ~UrlIsValid(Name)
    /\ Record("INVALID_ARG", FALSE)
    /\ UNCHANGED <<region, conn>>

\* Mutant: the next request is sent over the connection as it is.
KeepTransport(c) == c

\* esp_http_client_close() and _clear_response_buffer(): the handle stays, what
\* has not been read of the answer before is thrown away.
CloseTransport(c) == [c EXCEPT !.unread = <<>>]

\* market_data_http_open(): a handle of its own, cleaned up when it fails.
OpenFails ==
    /\ call.step = "Request"
    /\ UrlIsValid(Name)
    /\ ~conn.handle
    /\ \E err \in {"NO_MEM", "NETWORK", "TIMEOUT"} : Record(err, FALSE)
    /\ UNCHANGED <<region, conn>>

\* market_data_http_next(): the handle that is there is closed first and kept
\* when the request fails; what has come of the answer by then stays unread.
NextFails ==
    /\ call.step = "Request"
    /\ UrlIsValid(Name)
    /\ conn.handle
    /\ \/ /\ \E err \in {"INVALID_ARG", "NETWORK", "TIMEOUT"} : Record(err, FALSE)
          /\ conn' = CloseTransport(conn)
       \/ /\ Record("NETWORK", FALSE)
          /\ \E a \in Answers(call.base, Path(call.kind), Name) :
                conn' = [CloseTransport(conn) EXCEPT !.unread = @ \o Spell(a.toks)]
    /\ UNCHANGED region

\* Either function, when the status of an answer has come.
HttpAnswers ==
    /\ call.step = "Request"
    /\ UrlIsValid(Name)
    /\ \E a \in Answers(call.base, Path(call.kind), Name) :
          /\ conn' = [handle |-> TRUE, unread |-> CloseTransport(conn).unread \o Spell(a.toks)]
          /\ asked' = Append(asked, [base |-> call.base, status |-> a.status, toks |-> a.toks,
                                     fine |-> a.fine, taken |-> 0, whole |-> FALSE])
          /\ IF a.status = 200
             THEN /\ parser' = ParserInit
                  /\ call' = [call EXCEPT !.step = "Body"]
             ELSE /\ call' = [call EXCEPT !.step = "Snippet"]
                  /\ UNCHANGED parser
    /\ UNCHANGED <<region, results>>

\* market_data_http_stream_body(): one turn of its loop.
ReadChunk ==
    /\ call.step = "Body"
    /\ conn.unread # <<>>
    /\ \E size \in ChunkSizes :
          LET n == IF size < Len(conn.unread) THEN size ELSE Len(conn.unread)
              p == Feed(parser, SubSeq(conn.unread, 1, n))
          IN  /\ conn' = [conn EXCEPT !.unread = SubSeq(@, n + 1, Len(@))]
              /\ IF FeedErr(p) = "OK" \/ Over(parser)
                 THEN /\ parser' = p
                      /\ asked' = [asked EXCEPT ![Turn].taken = @ + n]
                      /\ UNCHANGED <<call, results>>
                 ELSE Record(FeedErr(p), TRUE)
    /\ UNCHANGED region

\* The read fails; what the parser has written stays where it is.
ReadFails ==
    /\ call.step = "Body"
    /\ \E err \in {"NETWORK", "TIMEOUT"} : Record(err, FALSE)
    /\ UNCHANGED <<region, conn>>

\* The read returns 0: the body is over, or the server has closed too early.
ReadEnds ==
    /\ call.step = "Body"
    /\ Record(IF Finished(parser) THEN "OK" ELSE "PARSE", conn.unread = <<>>)
    /\ UNCHANGED <<region, conn>>

\* status_to_generic_error()
GenericError(status) == IF status \in {429, 418} THEN "RATE_LIMITED" ELSE "HTTP_STATUS"

\* What may be on the stack where body[] is put: the code of an earlier answer,
\* or anything else.
Leftover == {"-1121", "garbage"}

\* market_data_http_read_body_snippet() and what is made of it.  Its result is
\* not looked at, and body[] is not initialised: a read that fails leaves what
\* was on the stack, or a part of the answer and that behind it.
TakeSnippet ==
    /\ call.step = "Snippet"
    /\ LET said == asked[Turn].toks[1].text[1] IN
       \E read \in BOOLEAN :
       \E body \in IF read THEN {said} ELSE {said} \cup Leftover :
          /\ conn' = IF read THEN [conn EXCEPT !.unread = <<>>] ELSE conn
          /\ Record(IF asked[Turn].status = 400 /\ body = "-1121" THEN "SYMBOL_NOT_FOUND"
                    ELSE GenericError(asked[Turn].status), read)
    /\ UNCHANGED region

\* market_data_http_close() and the return to the caller, who takes the results.
Return ==
    /\ call.step = "Return"
    /\ conn' = NoConn
    /\ call' = Idle
    /\ results' = <<>>
    /\ asked' = <<>>
    /\ UNCHANGED <<region, parser>>

\* The user chooses a server: settings_store_save_api_region().
SaveRegion ==
    /\ \E r \in Regions \ {region} : region' = r
    /\ UNCHANGED <<call, conn, parser, results, asked>>

RestNext ==
    \/ \E kind \in Kinds : Call(kind)
    \/ Refuse \/ OpenFails \/ NextFails \/ HttpAnswers \/ ReadChunk \/ ReadFails \/ ReadEnds
    \/ TakeSnippet \/ Return \/ SaveRegion

RestSpec == RestInit /\ [][RestNext]_restVars

-----------------------------------------------------------------------------
(* What an answer says, read off its tokens without a scanner or a parser. *)

Kind(toks, j) == IF j \in 1 .. Len(toks) THEN toks[j].kind ELSE "none"

\* The tokens from number j on are a row of twelve fields.
RowAt(toks, j) ==
    /\ Kind(toks, j) = "[" /\ Kind(toks, j + 24) = "]"
    /\ \A f \in 0 .. 10 : Kind(toks, j + 2 * f + 2) = ","
    /\ \A f \in 0 .. 11 :
          CASE f \in {0, 6, 8} -> Kind(toks, j + 2 * f + 1) = "number"
            [] f = 11           -> Kind(toks, j + 2 * f + 1) \in {"string", "number"}
            [] OTHER            -> /\ Kind(toks, j + 2 * f + 1) = "string"
                                   /\ toks[j + 2 * f + 1].text[1] \in Digits

\* They are an array of n rows that closes as token number close.  A comma
\* behind the last row is let pass.
RowsUpTo(toks, n, close) ==
    /\ Kind(toks, 1) = "[" /\ Kind(toks, close) = "]"
    /\ n > 0 => close \in {26 * n + 1, 26 * n + 2}
    /\ n = 0 <=> close = 2
    /\ \A r \in 0 .. n - 1 : RowAt(toks, 26 * r + 2)
    /\ \A r \in 1 .. n : 26 * r + 1 < close => Kind(toks, 26 * r + 1) = ","

\* The places of a string that is the value of a key at some depth.
ValuesOf(toks, depth, key) ==
    {j \in 3 .. Len(toks) : /\ toks[j - 2] = Str(key) /\ toks[j - 1].kind = ":"
                            /\ toks[j].kind = "string" /\ Depth(toks, j) = depth}

-----------------------------------------------------------------------------
\* Candles are handed over exactly when the answer is an array of whole rows
\* that fits, wherever the chunks were cut, and then all of them; what is cut
\* off, malformed or too long is refused as a whole.  Meanwhile nothing is
\* written behind the room the caller has (market_data_client.h: "never past
\* out_capacity").
RowsAreWhole ==
    /\ parser.format = "klines" => parser.rows =< Capacity /\ Len(parser.out) =< Capacity
    /\ \A i \in 1 .. Len(results) :
          (call.kind \in {"klines", "batch"} /\ asked[i].status = 200) =>
             LET toks == asked[i].toks
                 Complete(n) == \E close \in 2 .. Len(toks) :
                                   RowsUpTo(toks, n, close) /\ Spelled(toks, close) =< asked[i].taken
             IN  /\ results[i].err = "OK" => Complete(results[i].count)
                 /\ results[i].err # "OK" => results[i].count = 0
                 /\ asked[i].whole /\ (\E n \in 0 .. Capacity, close \in 2 .. Len(toks) :
                                         RowsUpTo(toks, n, close)) => results[i].err = "OK"

\* A ticker or the state of a symbol is what stands behind its own key, never a
\* member of the same name deeper inside; a body that is as it should be and has
\* come as a whole is taken.  (Bodies whose brackets do not pair are left out:
\* skip_advance() does not tell what closes from a scalar.)
FieldsAreTheirKeys ==
    \A i \in 1 .. Len(results) :
       LET toks == asked[i].toks
           Last(depth, key) == LET S == ValuesOf(toks, depth, key)
                               IN  CHOOSE j \in S : \A k \in S : k =< j
       IN  /\ asked[i].fine /\ asked[i].whole => results[i].err = "OK"
           /\ results[i].err = "OK" /\ Paired(toks) =>
             /\ call.kind = "ticker" =>
                   \A key \in TickerKeys :
                      /\ ValuesOf(toks, 1, key) # {}
                      /\ results[i].out[key] = toks[Last(1, key)].text
             /\ call.kind = "symbol" =>
                   /\ ValuesOf(toks, 3, "status") # {}
                   /\ results[i].out.trading <=> toks[Last(3, "status")].text = <<"TRADING">>
                   /\ results[i].out.spot => \E j \in 1 .. Len(toks) :
                                                toks[j] = Str("SPOT") /\ Depth(toks, j) = 5

\* The results of a batch are each other's strangers: candles are those of the
\* symbol and all of one server, and a symbol whose answer has been read is only
\* called unknown when the server has said so of this symbol.  Nor is a
\* connection left over for the next call.
ResultsAreTheirOwn ==
    /\ call = Idle => ~conn.handle
    /\ \A i \in 1 .. Len(results) :
          /\ results[i].err = "SYMBOL_NOT_FOUND" =>
                asked[i].status = 400 /\ (asked[i].whole => asked[i].toks[1] = Str("-1121"))
          /\ (call.kind = "batch" /\ results[i].err = "OK") =>
                \A row \in 1 .. results[i].count :
                   LET j == 26 * row - 21 IN
                   Kind(asked[i].toks, j) = "string" /\ results[i].out[row] = asked[i].toks[j].text
          /\ asked[i].base = asked[1].base

\* A symbol is called unknown only when the server has said so of it: "HTTP 400 +
\* Binance error code -1121" (market_data_client.h:32).  Not met: when the
\* body of an error cannot be read, what is on the stack is searched for the code
\* (README, known weaknesses).
UnknownWasSaid ==
    \A i \in 1 .. Len(results) :
       results[i].err = "SYMBOL_NOT_FOUND" =>
          asked[i].status = 400 /\ asked[i].toks[1] = Str("-1121")
=============================================================================
