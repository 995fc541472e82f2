---------------------------- MODULE JsonScanner -----------------------------
(***************************************************************************)
(* The streaming scanner of market_data_json_scanner.c.  It is handed a    *)
(* body in chunks cut anywhere and gives back one token per call, keeping  *)
(* between the calls what it has of an unfinished one.                     *)
(*                                                                         *)
(* A body is a sequence of runs: a punctuation mark, a quote, a piece of   *)
(* text.  Runs of several characters are letters or parts of a string;     *)
(* where exactly a chunk ends inside one makes no difference to the code,  *)
(* which appends character by character.  A number may be several runs.    *)
(***************************************************************************)
EXTENDS Integers, Sequences, FiniteSets

CONSTANT ScratchMax     \* MARKET_DATA_JSON_SCRATCH_MAX, counted in runs

ASSUME ScratchAssumption == ScratchMax \in Nat /\ ScratchMax > 1

Punctuation == {"[", "]", "{", "}", ",", ":"}
Quote       == "quote"
Backslash   == "backslash"
Blank       == "blank"
Foreign     == "#"                         \* starts no token
Digits      == {"1", "2", "3", "4", "5", "6", "7", "8", "9"}
NumberRuns  == Digits \cup {"-", "e"}      \* is_number_char()

\* isalpha(), of what is not the inside of a string.
IsLetters(c) ==
    c \notin Punctuation \cup {Quote, Backslash, Blank, Foreign, "-"} \cup Digits

\* The escapes that are decoded; \uXXXX and all others are refused.
Escapes == [c \in {Quote, Backslash, "n"} |-> IF c = "n" THEN Blank ELSE c]

ScannerInit == [lex |-> "Between", scratch |-> <<>>]

\* The scanner after a run, and the token that is complete with it, or "none".
Scanned(lex, scratch, kind) == [sc |-> [lex |-> lex, scratch |-> scratch], kind |-> kind]

\* strtod() finds a number at the start of the text.
IsNumeric(text) ==
    \/ text # <<>> /\ text[1] \in Digits
    \/ Len(text) > 1 /\ text[1] = "-" /\ text[2] \in Digits

NumberKind(text) == IF IsNumeric(text) THEN "number" ELSE "error"
LiteralKind(text) ==
    IF text \in {<<"true">>, <<"false">>, <<"null">>} THEN text[1] ELSE "error"

\* A number or literal is only known to have ended when the run behind it
\* arrives, and that run is left for the next call.
TokenEnds(sc, c) ==
    \/ sc.lex = "InNumber"  /\ c \notin NumberRuns
    \/ sc.lex = "InLiteral" /\ ~IsLetters(c)

EndedKind(sc) ==
    IF sc.lex = "InNumber" THEN NumberKind(sc.scratch) ELSE LiteralKind(sc.scratch)

\* market_data_json_scanner_next(): what its loop does with a run that ends no
\* number and no literal.
ScannerNext(sc, c) ==
    LET kept   == Append(sc.scratch, c)
        Refuse == Scanned(sc.lex, sc.scratch, "error")
        Keep(lex, text) ==
            IF Len(sc.scratch) + 1 >= ScratchMax THEN Refuse ELSE Scanned(lex, text, "none")
    IN CASE sc.lex = "Between" ->
                CASE c = Blank               -> Scanned("Between", sc.scratch, "none")
                  [] c \in Punctuation       -> Scanned("Between", sc.scratch, c)
                  [] c = Quote               -> Scanned("InString", <<>>, "none")
                  [] c \in Digits \cup {"-"} -> Scanned("InNumber", <<c>>, "none")
                  [] IsLetters(c)            -> Scanned("InLiteral", <<c>>, "none")
                  [] OTHER                   -> Refuse
         [] sc.lex = "InString" ->
                CASE c = Backslash -> Scanned("InEscape", sc.scratch, "none")
                  [] c = Quote     -> Scanned("Between", sc.scratch, "string")
                  [] OTHER         -> Keep("InString", kept)
         [] sc.lex = "InEscape" ->
                IF c \in DOMAIN Escapes THEN Keep("InString", Append(sc.scratch, Escapes[c]))
                                        ELSE Refuse
         [] OTHER -> Keep(sc.lex, kept)

\* Mutant: the first bracket that closes ends the value.
DeeperFlat(depth, kind) ==
    IF kind \in {"[", "{"} THEN 1 ELSE IF kind \in {"]", "}"} THEN 0 ELSE depth

\* skip_advance() of the parsers: how deep in a value that is passed over the
\* parser is after a token.  At depth 0 a scalar is over at once.
Deeper(depth, kind) ==
    IF kind \in {"[", "{"} THEN depth + 1
    ELSE IF kind \in {"]", "}"} /\ depth > 0 THEN depth - 1
    ELSE depth

-----------------------------------------------------------------------------
(* Bodies as what a server means by them: tokens and their spelling.       *)

Str(text)   == [kind |-> "string", text |-> <<text>>]
Num(text)   == [kind |-> "number", text |-> <<text>>]
Mark(c)     == [kind |-> c, text |-> <<>>]
Raw(runs)   == [kind |-> "raw", text |-> runs]      \* spelled as it stands

Spelling(tok) ==
    CASE tok.kind = "string"   -> <<Quote>> \o tok.text \o <<Quote>>
      [] tok.kind \in {"number", "raw"} -> tok.text
      [] OTHER                 -> <<tok.kind>>

\* The spelling of the first i tokens, for each i.
Spellings(toks) ==
    LET Upto[i \in 0 .. Len(toks)] == IF i = 0 THEN <<>> ELSE Upto[i - 1] \o Spelling(toks[i])
    IN  Upto

Spell(toks) == Spellings(toks)[Len(toks)]

\* Where the token ends in the spelling of all.
Spelled(toks, j) == Len(Spellings(toks)[j])

\* Every way to lose a token or to have one of others in its place.
Without(toks, j) == SubSeq(toks, 1, j - 1) \o SubSeq(toks, j + 1, Len(toks))
DamagedBy(toks, others) ==
    {Without(toks, j) : j \in 1 .. Len(toks)}
    \cup {[toks EXCEPT ![j] = t] : j \in 1 .. Len(toks), t \in others}

\* How deep in arrays and objects token number j is.
Depth(toks, j) ==
    Cardinality({i \in 1 .. j - 1 : toks[i].kind \in {"[", "{"}})
    - Cardinality({i \in 1 .. j - 1 : toks[i].kind \in {"]", "}"}})

Paired(toks) == /\ Depth(toks, Len(toks) + 1) = 0
                /\ \A j \in 2 .. Len(toks) : Depth(toks, j) > 0
=============================================================================
