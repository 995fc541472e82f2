----------------------------- MODULE TickStreamMC ---------------------------
(* Values for the run of TickStream: the messages of the stream.           *)
EXTENDS TickStream

Pieces == {61, 80}
Rows   == <<<<"a">>, <<"b">>>>
Names  == {"a", "c"}     \* c has been removed, its stream goes on

\* The tick of one second, with members nobody asks for.
Pair(key, tok) == <<Str(key), Mark(":"), tok, Mark(",")>>
Open(key)      == <<Str(key), Mark(":"), Mark("{")>>
Close          == <<Mark("}")>>
Tick1(name, time, price) ==
    <<Mark("{")>> \o Pair("m", Str("data")) \o Open("data")
       \o Pair("e", Str("kline")) \o Pair("s", Str(name))
       \o Open("k")
          \o Pair("t", Num(Digit[time])) \o Pair("o", Str(Digit[price])) \o Pair("c", Str(Digit[price]))
          \o Pair("h", Str(Digit[price + 1])) \o Pair("l", Str(Digit[price - 1]))
          \o Pair("v", Str("1")) \o Pair("n", Num("1")) \o Pair("x", Raw(<<"true">>))
          \o Open("z") \o Pair("h", Str("9")) \o <<Str("q"), Mark(":"), Mark("["), Mark("]")>> \o Close
       \o Close
    \o Close \o Close

Reply == <<Mark("{")>> \o Pair("result", Raw(<<"null">>)) \o <<Str("id"), Mark(":"), Num("1"), Mark("}")>>

Strange == {Mark("{"), Str("h")}

Whole(toks, good) == Message(toks, <<Spell(toks)>>, good)
Split(toks, n) ==
    LET runs == Spell(toks)
    IN  Message(toks, <<SubSeq(runs, 1, n), SubSeq(runs, n + 1, Len(runs))>>, FALSE)

\* One tick loses or changes a token at time 0, or comes in two frames; then
\* come ticks as they should be.
First == Tick1("a", 1, 2)

MCMessages(time) ==
    IF time = 0
    THEN {Whole(toks, FALSE) : toks \in DamagedBy(First, Strange) \cup {Reply}}
         \cup {Split(First, n) : n \in {1, 60}}
    ELSE {Whole(Tick1(name, time + 1, price), TRUE) : name \in Names, price \in {2, 4}}

\* The last intervals; before time 2 REST has not answered.
MCSnapshots(time) ==
    LET candle(open) == [open |-> open, high |-> 4, low |-> 2, close |-> 3]
        start == BucketStart(time)
    IN  IF time < 2 THEN {} ELSE {[i \in 1 .. Capacity |-> candle(start - (Capacity - i) * Interval)]}
=============================================================================
