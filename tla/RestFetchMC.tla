----------------------------- MODULE RestFetchMC ----------------------------
(* Values for the runs of RestFetch: the answers of the servers.           *)
EXTENDS RestFetch

CONSTANTS A, B, Odd, Com, Us

MCSymbols == {A, B, Odd}
MCBad     == {Odd}
MCRegions == {Com, Us}
AllKinds  == {"symbol", "ticker", "klines", "batch"}
BatchOnly == {"batch"}
Chunks    == {1, 3, 50}

Joined(parts, sep) ==
    LET F[i \in 0 .. Len(parts)] ==
          IF i = 0 THEN <<>> ELSE IF i = 1 THEN parts[1] ELSE F[i - 1] \o sep \o parts[i]
    IN  F[Len(parts)]

\* One row, with the opening price that tells whose it is.
Field(i, price) ==
    CASE i \in {0, 6, 8} -> <<Num("7")>> [] i = 1 -> <<Str(price)>> [] OTHER -> <<Str("8")>>
Row(price) ==
    <<Mark("[")>> \o Joined([i \in 1 .. 12 |-> Field(i - 1, price)], <<Mark(",")>>) \o <<Mark("]")>>
Rows(n, price) ==
    <<Mark("[")>> \o Joined([i \in 1 .. n |-> Row(price)], <<Mark(",")>>) \o <<Mark("]")>>

Price(base, name) ==
    IF base = Com THEN IF name = A THEN "1" ELSE "2" ELSE IF name = A THEN "3" ELSE "4"

\* Every way to lose or to change one token.
Strange == {Mark("["), Mark("]"), Mark(","), Mark("}"), Num("9"), Str("9"), Str("x"),
            [kind |-> "true", text |-> <<"true">>]}
Damaged(toks) == DamagedBy(toks, Strange)

WithComma(toks) == SubSeq(toks, 1, Len(toks) - 1) \o <<Mark(","), Mark("]")>>

SomeRows(base, name) ==
    {Rows(n, Price(base, name)) : n \in 0 .. 3} \cup {WithComma(Rows(2, Price(base, name)))}

ManyRows == SomeRows(Com, A) \cup Damaged(Rows(1, "1"))

Member(key, value) == <<Str(key), Mark(":")>> \o value
Object(members)    == <<Mark("{")>> \o Joined(members, <<Mark(",")>>) \o <<Mark("}")>>
Array(values)      == <<Mark("[")>> \o Joined(values, <<Mark(",")>>) \o <<Mark("]")>>

Last      == Member("lastPrice", <<Str("1")>>)
Change    == Member("priceChangePercent", <<Str("2")>>)
High      == Member("highPrice", <<Str("3")>>)
Low       == Member("lowPrice", <<Str("4")>>)
Decoy     == Member("x", Object(<<Member("lastPrice", <<Str("9")>>), Member("y", Array(<<>>))>>))
Again     == Member("highPrice", <<Str("5")>>)
Unquoted  == Member("lowPrice", <<Num("4")>>)
Wordy     == Member("lowPrice", <<Str("x")>>)

Tickers ==
    {Object(<<Decoy, Last, Change, High, Low>>), Object(<<Low, High, Change, Last, Decoy>>),
     Object(<<Last, Change, Low>>), Object(<<Last, Change, High, Low, Again>>),
     Object(<<Last, Change, High, Unquoted>>), Object(<<Last, Change, High, Wordy>>), Object(<<>>)}
    \cup Damaged(Object(<<Last, Decoy, Change, High, Low>>))

Status(s) == Member("status", <<Str(s)>>)
Perms(ps) == Member("permissionSets", Array([i \in DOMAIN ps |-> Array([j \in DOMAIN ps[i] |-> <<Str(ps[i][j])>>])]))
Hidden    == Member("filters", Array(<<Object(<<Status("TRADING")>>)>>))
Info(members) == Object(<<Member("zone", <<Str("x")>>), Member("symbols", Array(<<Object(members)>>))>>)

Infos ==
    {Info(<<Hidden, Status("HALT"), Perms(<<<<"SPOT">>>>)>>), Info(<<Status("TRADING"), Perms(<<>>)>>),
     Info(<<Hidden>>), Info(<<Perms(<<<<"M", "SPOT">>, <<>>>>), Status("TRADING")>>),
     Object(<<Member("symbols", Array(<<>>))>>), Object(<<Status("TRADING")>>)}
    \cup Damaged(Info(<<Hidden, Status("HALT"), Perms(<<<<"M">>, <<"SPOT">>>>)>>))

\* A member nobody asks for whose value is unusual: an escape, one that is not
\* decoded, a text that does not fit, a character that starts no token, a
\* literal nobody knows, a number over two runs with a blank behind it.
Unusual(value) == Object(<<Last, Change, Member("z", <<Raw(value)>>), High, Low>>)
Esc(c) == <<Quote, Backslash, c, Quote>>
Good == {Esc(Quote), Esc("n"), <<"null">>, <<"-", "1", "2", Blank>>}
Bad  == {Esc("u"), <<Quote, "a", "a", "a", Quote>>, <<Foreign>>, <<"nil">>, <<"-">>}

Ok(docs, good) == {[status |-> 200, toks |-> t, fine |-> good] : t \in docs}
Error(s, code) == [status |-> s, toks |-> <<Str(code)>>, fine |-> FALSE]
Errors == {Error(400, "-1121"), Error(400, "-1100"), Error(429, "-1003")}

TickerAnswers == Errors \cup Ok(Tickers, FALSE) \cup Ok({Unusual(v) : v \in Bad}, FALSE)
                        \cup Ok({Unusual(v) : v \in Good}, TRUE)
                        \cup Ok({Object(<<Decoy, Last, Change, High, Low>>)}, TRUE)
SymbolAnswers == Errors \cup Ok(Infos, FALSE)
KlinesAnswers == Errors \cup Ok(ManyRows, FALSE)
BatchAnswers  == [b \in MCRegions, n \in MCSymbols |-> Errors \cup Ok({Rows(0, "1"), Rows(1, Price(b, n))}, TRUE)]

MCAnswers(base, path, name) ==
    CASE path = "ticker/24hr"  -> TickerAnswers
      [] path = "exchangeInfo" -> SymbolAnswers
      [] path = "klines"       -> KlinesAnswers
      [] path = "klines 5m"    -> BatchAnswers[base, name]
=============================================================================
