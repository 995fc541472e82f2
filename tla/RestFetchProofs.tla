--------------------------- MODULE RestFetchProofs --------------------------
(***************************************************************************)
(* Theorems about RestFetch, for every set of symbols and servers, every   *)
(* room for candles, every size of a chunk and every answer whose tokens   *)
(* can be told apart: candles are handed over exactly when the answer is   *)
(* an array of whole rows that fits, and the results of a batch are each   *)
(* of their own symbol.                                                    *)
(*                                                                         *)
(* What a scanner and a grammar have made of the runs of a body so far is  *)
(* compared with the tokens the body is spelled with (Reading, RowsSoFar,  *)
(* Consumed), run by run: of the runs where that fails there would be a    *)
(* first one (LeastNumber).                                                *)
(***************************************************************************)
EXTENDS RestFetch, WellFoundedInduction, SequenceTheorems, TLAPS

\* A set of natural numbers has a least one, which is what induction over the
\* length of a body comes down to.
LEMMA LeastNumber ==
    ASSUME NEW S, S \subseteq Nat, S # {}
    PROVE  \E m \in S : \A i \in S : m =< i
<1> DEFINE R == {ss \in Nat \X Nat : ss[1] < ss[2]}
<1>1. IsWellFoundedOn(R, Nat)
  BY NatLessThanWellFounded DEF OpToRel
<1>2. PICK m \in S : \A i \in S : ~(<<i, m>> \in R)
  <2> HIDE DEF R
  <2> QED
    BY <1>1, WFMin
<1>3. ASSUME NEW i \in S PROVE m =< i
  <2>1. i \in Nat /\ m \in Nat /\ <<i, m>> \notin R
    BY <1>2
  <2> QED
    BY <2>1
<1> QED
  BY <1>3

-----------------------------------------------------------------------------
(* Spellings: the recursive function exists.                               *)

\* What makes U the spellings of the first n tokens.
SpellsUpto(toks, U, n) ==
    U = [i \in 0 .. n |-> IF i = 0 THEN <<>> ELSE U[i - 1] \o Spelling(toks[i])]

\* One more token.
LEMMA SpellsOneMore ==
    ASSUME NEW toks, NEW n \in Nat \ {0}, NEW U, SpellsUpto(toks, U, n - 1)
    PROVE  \E W : SpellsUpto(toks, W, n)
<1> DEFINE W == [i \in 0 .. n |-> IF i = n THEN U[n - 1] \o Spelling(toks[n]) ELSE U[i]]
<1>1. ASSUME NEW i \in 0 .. n
      PROVE  W[i] = IF i = 0 THEN <<>> ELSE W[i - 1] \o Spelling(toks[i])
  <2>1. CASE i = n
    BY <2>1
  <2>2. CASE i # n
    <3>1. i \in 0 .. n - 1
      BY <2>2
    <3>2. U[i] = IF i = 0 THEN <<>> ELSE U[i - 1] \o Spelling(toks[i])
      BY <3>1 DEF SpellsUpto
    <3>3. W[i] = U[i] /\ (i # 0 => W[i - 1] = U[i - 1])
      BY <3>1
    <3> QED
      BY <3>2, <3>3
  <2> QED
    BY <2>1, <2>2
<1>2. W = [i \in 0 .. n |-> IF i = 0 THEN <<>> ELSE W[i - 1] \o Spelling(toks[i])]
  BY <1>1
<1> QED
  BY <1>2 DEF SpellsUpto

\* There are spellings of any number of tokens.
LEMMA SpellingsExist ==
    ASSUME NEW toks, NEW n \in Nat
    PROVE  \E U : SpellsUpto(toks, U, n)
<1> DEFINE S == {i \in Nat : ~\E U : SpellsUpto(toks, U, i)}
<1> SUFFICES ASSUME S # {} PROVE FALSE
  OBVIOUS
<1>1. PICK m \in S : \A i \in S : m =< i
  BY LeastNumber
<1>2. CASE m = 0
  <2>1. SpellsUpto(toks, [i \in 0 .. 0 |-> <<>>], 0)
    BY DEF SpellsUpto
  <2> QED
    BY <1>2, <2>1
<1>3. CASE m # 0
  <2>1. m - 1 \in Nat /\ m - 1 \notin S
    BY <1>1, <1>3
  <2>2. PICK U : SpellsUpto(toks, U, m - 1)
    BY <2>1
  <2> QED
    BY <1>3, <2>2, SpellsOneMore
<1> QED
  BY <1>2, <1>3

\* What is said of the spellings is true.
LEMMA SpellingsAre ==
    ASSUME NEW T, NEW toks \in Seq(T)
    PROVE  /\ Spellings(toks)[0] = <<>>
           /\ \A i \in 1 .. Len(toks) : Spellings(toks)[i] = Spellings(toks)[i - 1] \o Spelling(toks[i])
<1>1. \E U : SpellsUpto(toks, U, Len(toks))
  <2>1. Len(toks) \in Nat
    OBVIOUS
  <2> QED
    BY <2>1, SpellingsExist
<1>2. SpellsUpto(toks, Spellings(toks), Len(toks))
  BY <1>1, Zenon DEF Spellings, SpellsUpto
<1> DEFINE U == Spellings(toks)
<1>3. U = [i \in 0 .. Len(toks) |-> IF i = 0 THEN <<>> ELSE U[i - 1] \o Spelling(toks[i])]
  BY <1>2 DEF SpellsUpto
<1>4. Len(toks) \in Nat
  OBVIOUS
<1> HIDE DEF U
<1>5. U[0] = <<>> /\ \A i \in 1 .. Len(toks) : U[i] = U[i - 1] \o Spelling(toks[i])
  <2>1. ASSUME NEW i \in 0 .. Len(toks)
        PROVE  U[i] = IF i = 0 THEN <<>> ELSE U[i - 1] \o Spelling(toks[i])
    BY <1>3
  <2>2. ASSUME NEW i \in 1 .. Len(toks)
        PROVE  U[i] = U[i - 1] \o Spelling(toks[i])
    <3>1. i \in 0 .. Len(toks) /\ i # 0
      BY <1>4
    <3> QED
      BY <2>1, <3>1, Zenon
  <2>3. U[0] = <<>>
    <3>1. 0 \in 0 .. Len(toks)
      BY <1>4
    <3> QED
      BY <2>1, <3>1
  <2> QED
    BY <2>2, <2>3
<1> QED
  BY <1>5 DEF U

-----------------------------------------------------------------------------
(* Bodies of tokens that can be told apart in their spelling.              *)

Literals == {"true", "false", "null"}

\* A string or a number of one run, a mark, a literal, or a character that
\* starts no token.
IsToken(tok) ==
    \/ tok.kind = "string" /\ \E r : tok.text = <<r>> /\ r \notin {Quote, Backslash}
    \/ tok.kind = "number" /\ \E r \in Digits : tok.text = <<r>>
    \/ tok.kind \in Punctuation \cup Literals \cup {Foreign}

\* No number touches a number and no literal a literal.
Readable(toks) ==
    /\ toks \in Seq({toks[i] : i \in DOMAIN toks})
    /\ \A i \in 1 .. Len(toks) : IsToken(toks[i])
    /\ \A i \in 2 .. Len(toks) :
          /\ toks[i].kind = "number" => toks[i - 1].kind # "number"
          /\ toks[i].kind \in Literals => toks[i - 1].kind \notin Literals

\* The runs a body is spelled with.
Marks == Punctuation \cup Literals \cup Digits \cup {Foreign, Quote}

RunsOf(toks) == Marks \cup {toks[i].text[1] : i \in 1 .. Len(toks)}

\* How a token is spelled.
LEMMA SpellingFacts ==
    ASSUME NEW tok, IsToken(tok), NEW Runs, Marks \subseteq Runs,
           tok.kind = "string" => tok.text[1] \in Runs
    PROVE  /\ Spelling(tok) \in Seq(Runs)
           /\ tok.kind = "string" => /\ Len(Spelling(tok)) = 3
                                     /\ Spelling(tok)[1] = Quote /\ Spelling(tok)[3] = Quote
                                     /\ tok.text = <<Spelling(tok)[2]>>
                                     /\ Spelling(tok)[2] \notin {Quote, Backslash}
           /\ tok.kind = "number" => /\ Len(Spelling(tok)) = 1
                                     /\ tok.text = <<Spelling(tok)[1]>>
                                     /\ Spelling(tok)[1] \in Digits
           /\ tok.kind \notin {"string", "number"} => /\ Len(Spelling(tok)) = 1
                                                      /\ Spelling(tok)[1] = tok.kind
<1>1. CASE tok.kind = "string"
  <2>1. PICK r : tok.text = <<r>> /\ r \notin {Quote, Backslash}
    BY <1>1 DEF IsToken, Punctuation, Literals, Foreign
  <2>2. Spelling(tok) = <<Quote>> \o tok.text \o <<Quote>>
    BY <1>1 DEF Spelling
  <2>3. Quote \in Runs /\ r \in Runs
    BY <1>1, <2>1 DEF Marks
  <2>4. /\ Spelling(tok) \in Seq(Runs) /\ Len(Spelling(tok)) = 3
        /\ Spelling(tok)[1] = Quote /\ Spelling(tok)[2] = r /\ Spelling(tok)[3] = Quote
    BY <2>1, <2>2, <2>3
  <2> QED
    BY <1>1, <2>1, <2>4
<1>2. CASE tok.kind = "number"
  <2>1. PICK r \in Digits : tok.text = <<r>>
    BY <1>2 DEF IsToken, Punctuation, Literals, Foreign
  <2>2. Spelling(tok) = <<r>>
    BY <1>2, <2>1 DEF Spelling
  <2>3. r \in Runs
    BY <2>1 DEF Marks
  <2> QED
    BY <1>2, <2>1, <2>2, <2>3
<1>3. CASE tok.kind \notin {"string", "number"}
  <2>1. tok.kind \in Punctuation \cup Literals \cup {Foreign}
    BY <1>3 DEF IsToken
  <2>2. Spelling(tok) = <<tok.kind>>
    BY <1>3, <2>1 DEF Spelling, Punctuation, Literals, Foreign
  <2>3. tok.kind \in Runs
    BY <2>1 DEF Marks
  <2> QED
    BY <1>3, <2>2, <2>3
<1> QED
  BY <1>1, <1>2, <1>3

\* What the first i tokens spell is what the first i - 1 do and the spelling of
\* the next.
LEMMA SpellingsGrow ==
    ASSUME NEW toks, Readable(toks)
    PROVE  /\ Len(toks) \in Nat
           /\ Spellings(toks)[0] = <<>>
           /\ \A i \in 0 .. Len(toks) : Spellings(toks)[i] \in Seq(RunsOf(toks))
           /\ \A i \in 1 .. Len(toks) :
                 /\ Spelling(toks[i]) \in Seq(RunsOf(toks)) /\ Len(Spelling(toks[i])) \in {1, 3}
                 /\ Spellings(toks)[i] = Spellings(toks)[i - 1] \o Spelling(toks[i])
<1> DEFINE U == Spellings(toks)
<1>1. Len(toks) \in Nat
  BY DEF Readable
<1>2. U[0] = <<>> /\ \A i \in 1 .. Len(toks) : U[i] = U[i - 1] \o Spelling(toks[i])
  BY SpellingsAre DEF Readable
<1>3. \A i \in 1 .. Len(toks) :
         Spelling(toks[i]) \in Seq(RunsOf(toks)) /\ Len(Spelling(toks[i])) \in {1, 3}
  <2>1. TAKE i \in 1 .. Len(toks)
  <2>2. IsToken(toks[i]) /\ Marks \subseteq RunsOf(toks) /\ toks[i].text[1] \in RunsOf(toks)
    BY DEF Readable, RunsOf
  <2> QED
    BY <2>2, SpellingFacts, Zenon
<1> HIDE DEF U
<1> DEFINE S == {i \in 0 .. Len(toks) : U[i] \notin Seq(RunsOf(toks))}
<1>4. ASSUME S # {} PROVE FALSE
  <2>0. S \subseteq Nat
    BY <1>1
  <2>1. PICK m \in S : \A i \in S : m =< i
    BY <1>4, <2>0, LeastNumber, Zenon
  <2>2. m # 0 /\ m \in 0 .. Len(toks)
    BY <1>2, EmptySeq
  <2>3. m \in 1 .. Len(toks) /\ m - 1 \in 0 .. Len(toks) /\ ~(m =< m - 1)
    BY <1>1, <2>2
  <2>4. U[m - 1] \in Seq(RunsOf(toks))
    BY <2>1, <2>3
  <2>5. Spelling(toks[m]) \in Seq(RunsOf(toks)) /\ U[m] = U[m - 1] \o Spelling(toks[m])
    BY <1>2, <1>3, <2>3, Zenon
  <2>6. U[m] \in Seq(RunsOf(toks))
    BY <2>4, <2>5, ConcatProperties, Zenon
  <2> QED
    BY <2>1, <2>6, Zenon
<1> QED
  BY <1>1, <1>2, <1>3, <1>4 DEF U

\* Later tokens end later.
LEMMA SpelledGrows ==
    ASSUME NEW toks, Readable(toks), NEW k \in 0 .. Len(toks), NEW n \in 0 .. Len(toks), k < n
    PROVE  Spelled(toks, k) \in Nat /\ Spelled(toks, n) \in Nat /\ Spelled(toks, k) < Spelled(toks, n)
<1> DEFINE P(i) == Spelled(toks, i)
<1>1. Len(toks) \in Nat
  BY SpellingsGrow
<1>2. \A i \in 0 .. Len(toks) : P(i) \in Nat
  BY SpellingsGrow DEF Spelled
<1>3. ASSUME NEW i \in 1 .. Len(toks) PROVE P(i - 1) < P(i)
  <2>1. i - 1 \in 0 .. Len(toks) /\ i \in 0 .. Len(toks)
    BY <1>1
  <2>2. /\ Spellings(toks)[i - 1] \in Seq(RunsOf(toks)) /\ Spelling(toks[i]) \in Seq(RunsOf(toks))
        /\ Spellings(toks)[i] = Spellings(toks)[i - 1] \o Spelling(toks[i])
        /\ Len(Spelling(toks[i])) \in {1, 3}
    BY <2>1, SpellingsGrow, Zenon
  <2>3. P(i) = P(i - 1) + Len(Spelling(toks[i]))
    BY <2>2, ConcatProperties, ZenonT(60) DEF Spelled
  <2>4. P(i - 1) \in Nat
    BY <1>2, <2>1
  <2> DEFINE a == P(i - 1)
             w == Len(Spelling(toks[i]))
  <2>5. P(i) = a + w /\ a \in Nat /\ w \in {1, 3}
    BY <2>2, <2>3, <2>4, Zenon
  <2> HIDE DEF a, w, P
  <2>6. a < P(i)
    BY <2>5
  <2> QED
    BY <2>6 DEF a
<1> HIDE DEF P
<1> DEFINE S == {i \in 0 .. Len(toks) : k < i /\ ~(P(k) < P(i))}
<1>4. ASSUME S # {} PROVE FALSE
  <2>0. S \subseteq Nat
    BY <1>1
  <2>1. PICK m \in S : \A i \in S : m =< i
    BY <1>4, <2>0, LeastNumber, Zenon
  <2>2. m \in 1 .. Len(toks) /\ m - 1 \in 0 .. Len(toks) /\ ~(m =< m - 1)
    BY <1>1
  <2>3. P(m - 1) < P(m)
    BY <1>3, <2>2
  <2>4. m - 1 = k \/ P(k) < P(m - 1)
    BY <2>1, <2>2
  <2> QED
    BY <1>2, <2>2, <2>3, <2>4
<1>5. P(k) < P(n)
  BY <1>4
<1> QED
  BY <1>2, <1>5 DEF P

\* The spelling of a token is where it is expected in the body.
LEMMA SpelledThere ==
    ASSUME NEW toks, Readable(toks), NEW k \in 1 .. Len(toks), NEW x \in 1 .. Len(Spelling(toks[k]))
    PROVE  /\ Spell(toks)[Spelled(toks, k - 1) + x] = Spelling(toks[k])[x]
           /\ Spelled(toks, k) = Spelled(toks, k - 1) + Len(Spelling(toks[k]))
           /\ Spell(toks) \in Seq(RunsOf(toks)) /\ Len(Spell(toks)) = Spelled(toks, Len(toks))
<1> DEFINE U == Spellings(toks)
           y == Len(U[k - 1]) + x
<1>1. Len(toks) \in Nat
  BY SpellingsGrow
<1>2. \A i \in 0 .. Len(toks) : U[i] \in Seq(RunsOf(toks))
  BY SpellingsGrow
<1>3. \A i \in 1 .. Len(toks) :
         /\ Spelling(toks[i]) \in Seq(RunsOf(toks)) /\ Len(Spelling(toks[i])) \in {1, 3}
         /\ U[i] = U[i - 1] \o Spelling(toks[i])
  BY SpellingsGrow
<1> HIDE DEF U
<1>4. k - 1 \in 0 .. Len(toks) /\ k \in 0 .. Len(toks)
  BY <1>1
<1>5. Len(U[k]) = Len(U[k - 1]) + Len(Spelling(toks[k])) /\ U[k][y] = Spelling(toks[k])[x]
      /\ y \in 1 .. Len(U[k])
  <2>1. /\ U[k - 1] \in Seq(RunsOf(toks)) /\ Spelling(toks[k]) \in Seq(RunsOf(toks))
        /\ U[k] = U[k - 1] \o Spelling(toks[k])
    BY <1>2, <1>3, <1>4, Zenon
  <2> DEFINE s == U[k - 1]
             t == Spelling(toks[k])
  <2>2. s \in Seq(RunsOf(toks)) /\ t \in Seq(RunsOf(toks)) /\ U[k] = s \o t /\ x \in 1 .. Len(t) /\ y = Len(s) + x
    BY <2>1
  <2> HIDE DEF s, t, y
  <2>3. U[k][y] = t[x] /\ Len(U[k]) = Len(s) + Len(t) /\ y \in 1 .. Len(U[k])
    BY <2>2
  <2> QED
    BY <2>3 DEF s, t
<1> HIDE DEF y
<1> DEFINE S == {i \in 0 .. Len(toks) : k =< i /\ ~(y \in 1 .. Len(U[i]) /\ U[i][y] = U[k][y])}
<1>6. ASSUME S # {} PROVE FALSE
  <2>0. S \subseteq Nat
    BY <1>1
  <2>1. PICK m \in S : \A i \in S : m =< i
    BY <1>6, <2>0, LeastNumber, Zenon
  <2>2. m \in 1 .. Len(toks) /\ m - 1 \in 0 .. Len(toks) /\ ~(m =< m - 1) /\ k =< m - 1
    <3>1. m # k
      BY <1>5
    <3> QED
      BY <1>1, <3>1
  <2>3. y \in 1 .. Len(U[m - 1]) /\ U[m - 1][y] = U[k][y]
    BY <2>1, <2>2
  <2>4. U[m] = U[m - 1] \o Spelling(toks[m]) /\ Spelling(toks[m]) \in Seq(RunsOf(toks)) /\ U[m - 1] \in Seq(RunsOf(toks))
    BY <1>2, <1>3, <2>2
  <2>5. y \in 1 .. Len(U[m]) /\ U[m][y] = U[m - 1][y]
    <3> DEFINE s == U[m - 1]
               t == Spelling(toks[m])
    <3>1. s \in Seq(RunsOf(toks)) /\ t \in Seq(RunsOf(toks)) /\ U[m] = s \o t /\ y \in 1 .. Len(s)
      BY <2>3, <2>4
    <3> HIDE DEF s, t
    <3>2. y \in 1 .. Len(U[m]) /\ U[m][y] = s[y]
      BY <3>1
    <3> QED
      BY <3>2 DEF s
  <2> QED
    BY <2>3, <2>5
<1>7. Len(toks) \in 0 .. Len(toks) /\ k =< Len(toks)
  BY <1>1
<1>8. U[Len(toks)][y] = U[k][y]
  BY <1>6, <1>7
<1> QED
  BY <1>2, <1>5, <1>7, <1>8 DEF U, y, Spell, Spelled
-----------------------------------------------------------------------------
(* Reading such a body run by run.                                         *)

\* After m runs the scanner has given back k tokens and is between two of them,
\* inside of a string or at the end of a number or a literal.
Reading(toks, k, m, sc) ==
    /\ sc = [lex |-> sc.lex, scratch |-> sc.scratch]
    /\ k \in 0 .. Len(toks)
    /\ \/ sc.lex = "Between" /\ m = Spelled(toks, k)
       \/ /\ k < Len(toks)
          /\ \/ /\ toks[k + 1].kind = "string" /\ sc.lex = "InString"
                /\ \/ m = Spelled(toks, k) + 1 /\ sc.scratch = <<>>
                   \/ m = Spelled(toks, k) + 2 /\ sc.scratch = toks[k + 1].text
             \/ /\ toks[k + 1].kind = "number" /\ sc.lex = "InNumber"
                /\ m = Spelled(toks, k) + 1 /\ sc.scratch = toks[k + 1].text
             \/ /\ toks[k + 1].kind \in Literals /\ sc.lex = "InLiteral"
                /\ m = Spelled(toks, k) + 1 /\ sc.scratch = <<toks[k + 1].kind>>

\* The token number k has been given back by a scanner that is now sc.
Gives(toks, k, m, kind, sc) ==
    /\ k \in 1 .. Len(toks)
    /\ kind = toks[k].kind
    /\ kind \in {"string", "number"} => sc.scratch = toks[k].text
    /\ Spelled(toks, k) =< m
    /\ Reading(toks, k, m, sc)

\* Where the scanner is the body has a next token, unless it is at its end.
LEMMA NextRun ==
    ASSUME NEW toks, Readable(toks), NEW k, NEW m \in Nat, NEW sc, Reading(toks, k, m, sc),
           m < Len(Spell(toks))
    PROVE  /\ k \in Nat /\ k + 1 \in 1 .. Len(toks)
           /\ Spelled(toks, k) \in Nat
           /\ Spelled(toks, k + 1) = Spelled(toks, k) + Len(Spelling(toks[k + 1]))
           /\ \A x \in 1 .. Len(Spelling(toks[k + 1])) :
                 Spell(toks)[Spelled(toks, k) + x] = Spelling(toks[k + 1])[x]
<1>1. Len(toks) \in Nat /\ k \in 0 .. Len(toks)
  BY SpellingsGrow DEF Reading
<1>2. k < Len(toks)
  <2>1. SUFFICES ASSUME k = Len(toks) PROVE FALSE
    BY <1>1
  <2>2. m = Spelled(toks, Len(toks))
    BY <1>1, <2>1 DEF Reading
  <2> QED
    BY <2>2 DEF Spell, Spelled
<1>3. k \in Nat /\ k + 1 \in 1 .. Len(toks) /\ (k + 1) - 1 = k /\ k + 1 \in 0 .. Len(toks) /\ k < k + 1
  BY <1>1, <1>2
<1>4. Spelled(toks, k) \in Nat
  BY <1>1, <1>3, SpelledGrows, Zenon
<1>5. \A x \in 1 .. Len(Spelling(toks[k + 1])) :
         /\ Spell(toks)[Spelled(toks, k) + x] = Spelling(toks[k + 1])[x]
         /\ Spelled(toks, k + 1) = Spelled(toks, k) + Len(Spelling(toks[k + 1]))
  <2>1. TAKE x \in 1 .. Len(Spelling(toks[k + 1]))
  <2>2. /\ Spell(toks)[Spelled(toks, (k + 1) - 1) + x] = Spelling(toks[k + 1])[x]
        /\ Spelled(toks, k + 1) = Spelled(toks, (k + 1) - 1) + Len(Spelling(toks[k + 1]))
    BY <1>3, SpelledThere, Zenon
  <2> QED
    BY <1>3, <2>2, Zenon
<1>6. 1 \in 1 .. Len(Spelling(toks[k + 1]))
  <2>1. Len(Spelling(toks[k + 1])) \in {1, 3}
    BY <1>3, SpellingsGrow, Zenon
  <2> QED
    BY <2>1
<1> QED
  BY <1>3, <1>4, <1>5, <1>6, Zenon

\* What is behind a number or a literal ends it.
LEMMA EndOfToken ==
    ASSUME NEW toks, Readable(toks), NEW k, NEW m \in Nat, NEW sc, Reading(toks, k, m, sc),
           m < Len(Spell(toks)), sc.lex \in {"InNumber", "InLiteral"}
    PROVE  /\ TokenEnds(sc, Spell(toks)[m + 1])
           /\ EndedKind(sc) \notin {"none", "error"}
           /\ Gives(toks, k + 1, m, EndedKind(sc), [sc EXCEPT !.lex = "Between"])
<1> DEFINE after == [sc EXCEPT !.lex = "Between"]
           c == Spell(toks)[m + 1]
           tok == toks[k + 1]
           nxt == toks[k + 2]
<1>1. /\ k \in Nat /\ k + 1 \in 1 .. Len(toks) /\ Spelled(toks, k) \in Nat
      /\ Spelled(toks, k + 1) = Spelled(toks, k) + Len(Spelling(tok))
  BY NextRun, Zenon
<1>2. after = [lex |-> "Between", scratch |-> sc.scratch]
  BY DEF Reading
<1>3. IsToken(tok) /\ Marks \subseteq RunsOf(toks) /\ tok.text[1] \in RunsOf(toks)
  BY <1>1 DEF Readable, RunsOf
<1>4. \/ /\ tok.kind = "number" /\ sc.lex = "InNumber"
         /\ m = Spelled(toks, k) + 1 /\ sc.scratch = tok.text
      \/ /\ tok.kind \in Literals /\ sc.lex = "InLiteral"
         /\ m = Spelled(toks, k) + 1 /\ sc.scratch = <<tok.kind>>
  BY DEF Reading
<1>5. Len(Spelling(tok)) = 1
  BY <1>3, <1>4, SpellingFacts, Zenon DEF Literals
<1>6. m = Spelled(toks, k + 1) /\ Len(toks) \in Nat
  BY <1>1, <1>4, <1>5, SpellingsGrow
<1>7. Reading(toks, k + 1, m, after)
  BY <1>1, <1>2, <1>6 DEF Reading
<1>8. /\ EndedKind(sc) = tok.kind
      /\ tok.kind = "number" => sc.scratch = tok.text
      /\ EndedKind(sc) \notin {"none", "error"}
  <2>1. CASE tok.kind = "number"
    <3>1. PICK r \in Digits : tok.text = <<r>>
      BY <1>3, <2>1 DEF IsToken, Punctuation, Literals, Foreign
    <3>2. IsNumeric(tok.text)
      BY <3>1 DEF IsNumeric
    <3> QED
      BY <1>4, <2>1, <3>2 DEF EndedKind, NumberKind, Literals
  <2>2. CASE tok.kind \in Literals
    <3>1. sc.lex = "InLiteral" /\ sc.scratch = <<tok.kind>>
      BY <1>4, <2>2 DEF Literals
    <3>2. <<tok.kind>> \in {<<"true">>, <<"false">>, <<"null">>} /\ <<tok.kind>>[1] = tok.kind
      BY <2>2 DEF Literals
    <3>3. LiteralKind(sc.scratch) = tok.kind
      BY <3>1, <3>2 DEF LiteralKind
    <3> QED
      BY <2>2, <3>1, <3>3 DEF EndedKind, Literals
  <2> QED
    BY <1>4, <2>1, <2>2
<1>9. Gives(toks, k + 1, m, EndedKind(sc), after)
  <2>1. EndedKind(sc) \in {"string", "number"} => after.scratch = tok.text
    BY <1>2, <1>4, <1>8 DEF Literals
  <2>2. Spelled(toks, k + 1) =< m
    BY <1>1, <1>6
  <2> QED
    BY <1>1, <1>7, <1>8, <2>1, <2>2 DEF Gives
<1>10. TokenEnds(sc, c)
  <2>1. /\ k + 1 \in Nat /\ (k + 1) + 1 \in 1 .. Len(toks) /\ (k + 1) + 1 = k + 2
        /\ \A x \in 1 .. Len(Spelling(toks[(k + 1) + 1])) :
              Spell(toks)[Spelled(toks, k + 1) + x] = Spelling(toks[(k + 1) + 1])[x]
    <3>1. /\ k + 1 \in Nat /\ (k + 1) + 1 \in 1 .. Len(toks)
          /\ \A x \in 1 .. Len(Spelling(toks[(k + 1) + 1])) :
                Spell(toks)[Spelled(toks, k + 1) + x] = Spelling(toks[(k + 1) + 1])[x]
      <4>1. PICK j : j = k + 1
        OBVIOUS
      <4>2. Reading(toks, j, m, after)
        BY <1>7, <4>1
      <4> HIDE DEF after
      <4>3. /\ j \in Nat /\ j + 1 \in 1 .. Len(toks)
            /\ \A x \in 1 .. Len(Spelling(toks[j + 1])) :
                  Spell(toks)[Spelled(toks, j) + x] = Spelling(toks[j + 1])[x]
        BY <4>2, NextRun
      <4> QED
        BY <4>1, <4>3
    <3>2. (k + 1) + 1 = k + 2
      BY <1>1
    <3> QED
      BY <3>1, <3>2
  <2>2. IsToken(nxt) /\ nxt.text[1] \in RunsOf(toks) /\ k + 2 \in 2 .. Len(toks) /\ k + 2 - 1 = k + 1
    BY <1>1, <2>1 DEF Readable, RunsOf
  <2>3. /\ nxt.kind = "number" => tok.kind # "number"
        /\ nxt.kind \in Literals => tok.kind \notin Literals
    <3>1. \A i \in 2 .. Len(toks) :
             /\ toks[i].kind = "number" => toks[i - 1].kind # "number"
             /\ toks[i].kind \in Literals => toks[i - 1].kind \notin Literals
      BY DEF Readable
    <3>2. \A i \in 2 .. Len(toks) : i = k + 2 => i - 1 = k + 1
      BY <1>1
    <3> QED
      BY <2>2, <3>1, <3>2, Zenon
  <2>4. /\ nxt.kind = "string" => Spelling(nxt)[1] = Quote /\ Len(Spelling(nxt)) = 3
        /\ nxt.kind = "number" => Spelling(nxt)[1] \in Digits /\ Len(Spelling(nxt)) = 1
        /\ nxt.kind \notin {"string", "number"} => Spelling(nxt)[1] = nxt.kind /\ Len(Spelling(nxt)) = 1
    BY <1>3, <2>2, SpellingFacts, Zenon
  <2>5. 1 \in 1 .. Len(Spelling(nxt))
    BY <2>4
  <2>6. c = Spelling(nxt)[1]
    BY <1>6, <2>1, <2>5
  <2>7. nxt.kind \notin {"string", "number"} => nxt.kind \in Punctuation \cup Literals \cup {Foreign}
    BY <2>2 DEF IsToken
  <2>8. CASE tok.kind = "number" /\ sc.lex = "InNumber"
    <3>1. c \in {Quote, Foreign} \cup Punctuation \cup Literals
      BY <2>3, <2>4, <2>6, <2>7, <2>8
    <3>2. c \notin NumberRuns
      BY <3>1 DEF Quote, Foreign, Punctuation, Literals, NumberRuns, Digits
    <3> QED
      BY <2>8, <3>2 DEF TokenEnds
  <2>9. CASE tok.kind \in Literals /\ sc.lex = "InLiteral"
    <3>1. c \in {Quote, Foreign} \cup Punctuation \cup Digits
      BY <2>3, <2>4, <2>6, <2>7, <2>9
    <3>2. ~IsLetters(c)
      BY <3>1 DEF IsLetters
    <3> QED
      BY <2>9, <3>2 DEF TokenEnds
  <2> QED
    BY <1>4, <2>8, <2>9
<1> QED
  BY <1>8, <1>9, <1>10

\* A run between two tokens.
LEMMA ScansBetween ==
    ASSUME NEW sc, sc.lex = "Between", NEW c
    PROVE  /\ c = Quote => ScannerNext(sc, c) = Scanned("InString", <<>>, "none")
           /\ c \in Punctuation => ScannerNext(sc, c) = Scanned("Between", sc.scratch, c)
           /\ c \in Digits => ScannerNext(sc, c) = Scanned("InNumber", <<c>>, "none")
<1>1. CASE c = Quote
  <2>1. c \notin Punctuation \cup Digits \cup {"-", Blank} /\ ~IsLetters(c)
    BY <1>1 DEF Quote, Punctuation, Digits, Blank, IsLetters
  <2> QED
    BY <1>1, <2>1 DEF ScannerNext
<1>2. CASE c \in Punctuation
  <2>1. c \notin Digits \cup {"-", Blank, Quote} /\ ~IsLetters(c)
    BY <1>2 DEF Quote, Punctuation, Digits, Blank, IsLetters
  <2> QED
    BY <1>2, <2>1 DEF ScannerNext
<1>3. CASE c \in Digits
  <2>1. c \notin Punctuation \cup {Blank, Quote} /\ ~IsLetters(c)
    BY <1>3 DEF Quote, Punctuation, Digits, Blank, IsLetters
  <2> QED
    BY <1>3, <2>1 DEF ScannerNext
<1> QED
  BY <1>1, <1>2, <1>3

\* What one run makes of the scanner.
LEMMA RunScanned ==
    ASSUME NEW toks, Readable(toks), NEW k, NEW m \in Nat, NEW sc, Reading(toks, k, m, sc),
           m < Len(Spell(toks)), sc.lex \notin {"InNumber", "InLiteral"}
    PROVE  LET got == ScannerNext(sc, Spell(toks)[m + 1])
           IN  /\ ~TokenEnds(sc, Spell(toks)[m + 1])
               /\ \/ got.kind = "none" /\ Reading(toks, k, m + 1, got.sc)
                  \/ /\ got.kind = "error" /\ toks[k + 1].kind = Foreign
                     /\ k \in Nat /\ k + 1 \in 1 .. Len(toks)
                  \/ /\ got.kind \notin {"none", "error"}
                     /\ Gives(toks, k + 1, m + 1, got.kind, got.sc)
<1> DEFINE c == Spell(toks)[m + 1]
           tok == toks[k + 1]
           at == Spelled(toks, k)
<1>1. /\ k \in Nat /\ k + 1 \in 1 .. Len(toks) /\ at \in Nat
      /\ Spelled(toks, k + 1) = at + Len(Spelling(tok))
      /\ \A x \in 1 .. Len(Spelling(tok)) : Spell(toks)[at + x] = Spelling(tok)[x]
  BY NextRun
<1>2. IsToken(tok) /\ Marks \subseteq RunsOf(toks) /\ tok.text[1] \in RunsOf(toks)
  BY <1>1 DEF Readable, RunsOf
<1>3. /\ tok.kind = "string" => /\ Len(Spelling(tok)) = 3
                                /\ Spelling(tok)[1] = Quote /\ Spelling(tok)[3] = Quote
                                /\ tok.text = <<Spelling(tok)[2]>>
                                /\ Spelling(tok)[2] \notin {Quote, Backslash}
      /\ tok.kind = "number" => /\ Len(Spelling(tok)) = 1
                                /\ tok.text = <<Spelling(tok)[1]>>
                                /\ Spelling(tok)[1] \in Digits
      /\ tok.kind \notin {"string", "number"} => /\ Len(Spelling(tok)) = 1
                                                 /\ Spelling(tok)[1] = tok.kind
  BY <1>2, SpellingFacts, Zenon
<1>4. tok.kind \notin {"string", "number"} => tok.kind \in Punctuation \cup Literals \cup {Foreign}
  BY <1>2 DEF IsToken
<1>5. k \in 0 .. Len(toks) /\ k + 1 \in 0 .. Len(toks) /\ k < Len(toks) /\ Len(toks) \in Nat
  BY <1>1, SpellingsGrow
<1>6. \/ sc.lex = "Between" /\ m = at
      \/ sc.lex = "InString" /\ tok.kind = "string" /\ m = at + 1 /\ sc.scratch = <<>>
      \/ sc.lex = "InString" /\ tok.kind = "string" /\ m = at + 2 /\ sc.scratch = tok.text
  BY DEF Reading
<1>7. ~TokenEnds(sc, c)
  BY DEF TokenEnds
<1> DEFINE got == ScannerNext(sc, c)
<1>8. CASE sc.lex = "Between" /\ m = at
  <2>1. c = Spelling(tok)[1]
    BY <1>1, <1>3, <1>8
  <2>2. CASE tok.kind = "string"
    <3>1. got = Scanned("InString", <<>>, "none")
      BY <1>3, <1>8, <2>1, <2>2, ScansBetween
    <3>2. Reading(toks, k, m + 1, [lex |-> "InString", scratch |-> <<>>])
      BY <1>5, <1>8, <2>2 DEF Reading
    <3> QED
      BY <1>7, <3>1, <3>2 DEF Scanned
  <2>3. CASE tok.kind = "number"
    <3>1. got = Scanned("InNumber", <<c>>, "none")
      BY <1>3, <1>8, <2>1, <2>3, ScansBetween
    <3>2. Reading(toks, k, m + 1, [lex |-> "InNumber", scratch |-> <<c>>])
      BY <1>3, <1>5, <1>8, <2>1, <2>3 DEF Reading
    <3> QED
      BY <1>7, <3>1, <3>2 DEF Scanned
  <2>4. CASE tok.kind \in Punctuation
    <3>1. tok.kind \notin {"string", "number", "none", "error", Blank}
      BY <2>4 DEF Punctuation, Blank
    <3>2. got = Scanned("Between", sc.scratch, tok.kind)
      BY <1>3, <1>8, <2>1, <2>4, <3>1, ScansBetween
    <3>3. Spelled(toks, k + 1) = m + 1
      BY <1>1, <1>3, <1>8, <3>1
    <3>4. Reading(toks, k + 1, m + 1, [lex |-> "Between", scratch |-> sc.scratch])
      BY <1>5, <3>3 DEF Reading
    <3>5. Gives(toks, k + 1, m + 1, tok.kind, [lex |-> "Between", scratch |-> sc.scratch])
      BY <1>1, <3>1, <3>3, <3>4 DEF Gives
    <3> QED
      BY <1>7, <3>1, <3>2, <3>5 DEF Scanned
  <2>5. CASE tok.kind \in Literals
    <3>1. /\ tok.kind \notin {"string", "number", Blank, Quote, "-"} /\ tok.kind \notin Punctuation
          /\ tok.kind \notin Digits /\ IsLetters(tok.kind)
      BY <2>5 DEF Literals, Punctuation, Blank, Quote, Digits, IsLetters, Foreign, Backslash
    <3>2. c = tok.kind
      BY <1>3, <2>1, <3>1
    <3>3. got = Scanned("InLiteral", <<c>>, "none")
      BY <1>8, <3>1, <3>2 DEF ScannerNext
    <3>4. Reading(toks, k, m + 1, [lex |-> "InLiteral", scratch |-> <<c>>])
      BY <1>5, <1>8, <2>5, <3>2 DEF Reading
    <3> QED
      BY <1>7, <3>3, <3>4 DEF Scanned
  <2>6. CASE tok.kind = Foreign
    <3>1. /\ Foreign \notin {"string", "number", Blank, Quote, "-"} /\ Foreign \notin Punctuation
          /\ Foreign \notin Digits /\ ~IsLetters(Foreign)
      BY DEF Punctuation, Blank, Quote, Digits, IsLetters, Foreign
    <3>2. c = Foreign
      BY <1>3, <2>1, <2>6, <3>1
    <3>3. got = Scanned(sc.lex, sc.scratch, "error")
      BY <1>8, <3>1, <3>2 DEF ScannerNext
    <3> QED
      BY <1>1, <1>7, <2>6, <3>3 DEF Scanned
  <2> QED
    BY <1>4, <2>2, <2>3, <2>4, <2>5, <2>6
<1>9. CASE sc.lex = "InString" /\ tok.kind = "string" /\ m = at + 1 /\ sc.scratch = <<>>
  <2>1. c = Spelling(tok)[2] /\ tok.text = <<c>> /\ c \notin {Quote, Backslash}
    <3>1. m + 1 = at + 2 /\ 2 \in 1 .. Len(Spelling(tok))
      BY <1>1, <1>3, <1>9
    <3>2. c = Spelling(tok)[2]
      BY <1>1, <3>1
    <3> QED
      BY <1>3, <1>9, <3>2, Zenon
  <2>2. got = Scanned("InString", <<c>>, "none")
    <3>1. ~(Len(sc.scratch) + 1 >= ScratchMax) /\ Append(sc.scratch, c) = <<c>>
      BY <1>9, ScratchAssumption
    <3> QED
      BY <1>9, <2>1, <3>1 DEF ScannerNext
  <2>3. Reading(toks, k, m + 1, [lex |-> "InString", scratch |-> <<c>>])
    BY <1>1, <1>5, <1>9, <2>1 DEF Reading
  <2> QED
    BY <1>7, <2>2, <2>3 DEF Scanned
<1>10. CASE sc.lex = "InString" /\ tok.kind = "string" /\ m = at + 2 /\ sc.scratch = tok.text
  <2>0. m + 1 = at + 3 /\ 3 \in 1 .. Len(Spelling(tok)) /\ Spelling(tok)[3] = Quote
    BY <1>1, <1>3, <1>10
  <2>1. c = Quote
    BY <1>1, <2>0
  <2>2. got = Scanned("Between", sc.scratch, "string")
    BY <1>10, <2>1 DEF ScannerNext, Quote, Backslash
  <2>3. Spelled(toks, k + 1) = m + 1
    BY <1>1, <1>3, <2>0, <1>10
  <2>4. Reading(toks, k + 1, m + 1, [lex |-> "Between", scratch |-> sc.scratch])
    BY <1>5, <2>3 DEF Reading
  <2>5. Gives(toks, k + 1, m + 1, "string", [lex |-> "Between", scratch |-> sc.scratch])
    BY <1>1, <1>10, <2>3, <2>4 DEF Gives
  <2> QED
    BY <1>7, <2>2, <2>5 DEF Scanned
<1> QED
  BY <1>6, <1>8, <1>9, <1>10

\* At the end of the body all tokens have been given back but perhaps a last
\* number or literal.
LEMMA EndOfBody ==
    ASSUME NEW toks, Readable(toks), NEW k, NEW sc, Reading(toks, k, Len(Spell(toks)), sc)
    PROVE  \/ k = Len(toks)
           \/ k + 1 = Len(toks) /\ k \in Nat /\ toks[k + 1].kind \in {"number"} \cup Literals
<1> DEFINE n == Len(toks)
           tok == toks[k + 1]
<1>1. n \in Nat /\ k \in 0 .. n /\ Len(Spell(toks)) = Spelled(toks, n)
  BY SpellingsGrow DEF Reading, Spell, Spelled
<1>2. SUFFICES ASSUME k < n
               PROVE  k + 1 = n /\ k \in Nat /\ tok.kind \in {"number"} \cup Literals
  BY <1>1
<1>3. k + 1 \in 1 .. n /\ k + 1 \in 0 .. n /\ (k + 1) - 1 = k /\ k \in Nat
  BY <1>1, <1>2
<1>4. IsToken(tok) /\ Marks \subseteq RunsOf(toks) /\ tok.text[1] \in RunsOf(toks)
  BY <1>3 DEF Readable, RunsOf
<1>5. /\ tok.kind = "string" => Len(Spelling(tok)) = 3
      /\ tok.kind # "string" => Len(Spelling(tok)) = 1
  BY <1>4, SpellingFacts, Zenon
<1>6. 1 \in 1 .. Len(Spelling(tok))
  BY <1>5
<1>7. Spelled(toks, k + 1) = Spelled(toks, k) + Len(Spelling(tok))
  BY <1>3, <1>6, SpelledThere, Zenon
<1>8. Spelled(toks, k) < Spelled(toks, n) /\ Spelled(toks, k) \in Nat /\ Spelled(toks, n) \in Nat
  BY <1>1, <1>2, SpelledGrows
<1>9. k + 1 < n => Spelled(toks, k + 1) < Spelled(toks, n)
  BY <1>1, <1>3, SpelledGrows
<1> DEFINE a == Spelled(toks, k)
           b == Spelled(toks, k + 1)
           z == Spelled(toks, n)
<1>10. /\ a \in Nat /\ z \in Nat /\ a < z /\ b = a + Len(Spelling(tok))
       /\ k + 1 = n \/ b < z
       /\ k + 1 = n => b = z
  BY <1>1, <1>2, <1>3, <1>7, <1>8, <1>9
<1>11. \/ z = a
       \/ tok.kind = "string" /\ (z = a + 1 \/ z = a + 2)
       \/ tok.kind \in {"number"} \cup Literals /\ z = a + 1
  BY <1>1 DEF Reading
<1> HIDE DEF a, b, z
<1>12. CASE tok.kind = "string"
  <2>1. b = a + 3 /\ (z = a \/ z = a + 1 \/ z = a + 2)
    <3>1. Len(Spelling(tok)) = 3 /\ b = a + Len(Spelling(tok))
      BY <1>5, <1>10, <1>12, Zenon
    <3>2. tok.kind \notin {"number"} \cup Literals
      BY <1>12 DEF Literals
    <3> QED
      BY <1>11, <3>1, <3>2
  <2>2. a \in Nat /\ z \in Nat /\ a < z /\ (k + 1 = n \/ b < z) /\ (k + 1 = n => b = z)
    BY <1>10
  <2> QED
    BY <2>1, <2>2
<1>13. CASE tok.kind # "string"
  <2>1. tok.kind \in {"number"} \cup Literals /\ z = a + 1
    BY <1>10, <1>11, <1>13
  <2>2. Len(Spelling(tok)) = 1
    BY <1>5, <1>13
  <2>3. k + 1 = n
    BY <1>10, <2>1, <2>2
  <2> QED
    BY <1>3, <2>1, <2>3
<1> QED
  BY <1>12, <1>13

-----------------------------------------------------------------------------
(* The grammar of candles, token by token.                                 *)

\* What may stand in a field.
FieldIs(tok, f) ==
    CASE f \in NumberFields -> tok.kind = "number"
      [] f = IgnoredField   -> tok.kind \in {"string", "number"}
      [] OTHER              -> tok.kind = "string" /\ tok.text[1] \in Digits

\* The first k tokens are the beginning of an array of rows that is still open.
Opens(toks, k) ==
    /\ k >= 1 => toks[1].kind = "["
    /\ \A r \in Nat :
          /\ r >= 1 /\ 26 * r + 1 =< k => toks[26 * r + 1].kind = ","
          /\ 26 * r + 2 =< k  => toks[26 * r + 2].kind = "["
          /\ 26 * r + 26 =< k => toks[26 * r + 26].kind = "]"
          /\ \A f \in 0 .. 11 : 26 * r + 3 + 2 * f =< k => FieldIs(toks[26 * r + 3 + 2 * f], f)
          /\ \A f \in 0 .. 10 : 26 * r + 4 + 2 * f =< k => toks[26 * r + 4 + 2 * f].kind = ","

Texts(toks) == {toks[i].text : i \in DOMAIN toks}

\* The opening prices that have been taken are those of their rows.
OutIs(toks, out) ==
    /\ out \in Seq(Texts(toks))
    /\ Len(out) =< Capacity
    /\ \A i \in 1 .. Len(out) : out[i] = toks[26 * i - 21].text

KlinesParser(p) ==
    p = [format |-> "klines", sc |-> p.sc, at |-> p.at, capacity |-> Capacity,
         field |-> p.field, rows |-> p.rows, out |-> p.out]

\* The parser after k tokens of a body that may still become an array of rows.
RowsSoFar(toks, k, p) ==
    /\ KlinesParser(p)
    /\ p.rows \in 0 .. Capacity
    /\ p.field \in 0 .. 11
    /\ Opens(toks, k)
    /\ OutIs(toks, p.out)
    /\ \/ p.at = "Start" /\ k = 0 /\ p.rows = 0 /\ Len(p.out) = 0
       \/ p.at = "RowOrEnd" /\ k = 26 * p.rows + 1 /\ Len(p.out) = p.rows
       \/ /\ p.at = "Field" /\ k = 26 * p.rows + 2 + 2 * p.field /\ p.rows < Capacity
          /\ Len(p.out) = IF p.field > 1 THEN p.rows + 1 ELSE p.rows
       \/ /\ p.at = "FieldEnd" /\ k = 26 * p.rows + 3 + 2 * p.field /\ p.rows < Capacity
          /\ Len(p.out) = IF p.field > 0 THEN p.rows + 1 ELSE p.rows
       \/ p.at = "RowEnd" /\ p.rows > 0 /\ k = 26 * p.rows /\ Len(p.out) = p.rows

\* The array has closed with token number k.
RowsDone(toks, k, p) ==
    /\ KlinesParser(p)
    /\ p.at = "Done"
    /\ p.rows \in 0 .. Capacity
    /\ k \in 2 .. Len(toks)
    /\ RowsUpTo(toks, p.rows, k)
    /\ OutIs(toks, p.out)
    /\ p.rows =< Len(p.out)

\* The body is no array of rows that fits.
NoRows(toks) == \A n \in 0 .. Capacity, close \in 2 .. Len(toks) : ~RowsUpTo(toks, n, close)

RowsRefused(toks, p) ==
    /\ KlinesParser(p)
    /\ p.at \in {"Error", "Full"}
    /\ p.rows \in 0 .. Capacity
    /\ OutIs(toks, p.out)
    /\ NoRows(toks)

\* What is behind the first token of row r is behind it.
LEMMA RowNumbers ==
    ASSUME NEW r \in Nat, NEW close \in Nat
    PROVE  /\ 26 * r + 26 =< close - 1 => 26 * r + 2 =< close - 1
           /\ \A f \in 0 .. 11 : 26 * r + 3 + 2 * f =< close - 1 => 26 * r + 2 =< close - 1
           /\ \A f \in 0 .. 10 : 26 * r + 4 + 2 * f =< close - 1 => 26 * r + 2 =< close - 1
OBVIOUS

\* An array of rows opens before it closes.
LEMMA RowsOpen ==
    ASSUME NEW toks, Len(toks) \in Nat, NEW n \in Nat, NEW close \in 2 .. Len(toks),
           RowsUpTo(toks, n, close)
    PROVE  /\ Opens(toks, close - 1)
           /\ toks[close].kind = "]"
           /\ n = 0 => close = 2
           /\ n > 0 => close \in {26 * n + 1, 26 * n + 2}
<1>1. /\ Kind(toks, 1) = "[" /\ Kind(toks, close) = "]"
      /\ n > 0 => close \in {26 * n + 1, 26 * n + 2}
      /\ n = 0 <=> close = 2
      /\ \A r \in 0 .. n - 1 : RowAt(toks, 26 * r + 2)
      /\ \A r \in 1 .. n : 26 * r + 1 < close => Kind(toks, 26 * r + 1) = ","
  BY DEF RowsUpTo
<1>1a. /\ close \in Nat /\ close >= 2
       /\ n > 0 => close = 26 * n + 1 \/ close = 26 * n + 2
       /\ n = 0 => close = 2
  <2>1. /\ n > 0 => close \in {26 * n + 1, 26 * n + 2}
        /\ n = 0 => close = 2
    BY <1>1, Zenon
  <2> QED
    BY <2>1
<1>2. \A j \in 1 .. close : Kind(toks, j) = toks[j].kind
  BY DEF Kind
<1>3. ASSUME NEW r \in Nat, 26 * r + 2 =< close - 1
      PROVE  r \in 0 .. n - 1 /\ RowAt(toks, 26 * r + 2) /\ 26 * r + 26 =< close - 1
  <2>1. r \in 0 .. n - 1 /\ 26 * r + 26 =< close - 1
    BY <1>1a, <1>3
  <2>2. RowAt(toks, 26 * r + 2)
    BY <1>1, <2>1, Zenon
  <2> QED
    BY <2>1, <2>2
<1>4. ASSUME NEW r \in Nat
      PROVE  /\ r >= 1 /\ 26 * r + 1 =< close - 1 => toks[26 * r + 1].kind = ","
             /\ 26 * r + 2 =< close - 1  => toks[26 * r + 2].kind = "["
             /\ 26 * r + 26 =< close - 1 => toks[26 * r + 26].kind = "]"
             /\ \A f \in 0 .. 11 : 26 * r + 3 + 2 * f =< close - 1 => FieldIs(toks[26 * r + 3 + 2 * f], f)
             /\ \A f \in 0 .. 10 : 26 * r + 4 + 2 * f =< close - 1 => toks[26 * r + 4 + 2 * f].kind = ","
  <2>1. r >= 1 /\ 26 * r + 1 =< close - 1 => toks[26 * r + 1].kind = ","
    <3>1. SUFFICES ASSUME r >= 1, 26 * r + 1 =< close - 1 PROVE toks[26 * r + 1].kind = ","
      OBVIOUS
    <3>2. r \in 1 .. n /\ 26 * r + 1 < close /\ 26 * r + 1 \in 1 .. close
      BY <1>1a, <3>1
    <3> QED
      BY <1>1, <1>2, <3>2, Zenon
  <2>2. SUFFICES ASSUME 26 * r + 2 =< close - 1
        PROVE  /\ toks[26 * r + 2].kind = "["
               /\ toks[26 * r + 26].kind = "]"
               /\ \A f \in 0 .. 11 : FieldIs(toks[26 * r + 3 + 2 * f], f)
               /\ \A f \in 0 .. 10 : toks[26 * r + 4 + 2 * f].kind = ","
    <3>1. /\ 26 * r + 26 =< close - 1 => 26 * r + 2 =< close - 1
          /\ \A f \in 0 .. 11 : 26 * r + 3 + 2 * f =< close - 1 => 26 * r + 2 =< close - 1
          /\ \A f \in 0 .. 10 : 26 * r + 4 + 2 * f =< close - 1 => 26 * r + 2 =< close - 1
      BY <1>1a, RowNumbers, Zenon
    <3> QED
      BY <2>1, <3>1, Zenon
  <2>3. RowAt(toks, 26 * r + 2) /\ 26 * r + 26 =< close - 1
    BY <1>3, <2>2
  <2>4. Kind(toks, 26 * r + 2) = "[" /\ Kind(toks, 26 * r + 2 + 24) = "]"
    BY <2>3 DEF RowAt
  <2>5. toks[26 * r + 2].kind = "[" /\ toks[26 * r + 26].kind = "]"
    <3>1. /\ 26 * r + 2 + 24 = 26 * r + 26
          /\ 26 * r + 2 \in 1 .. close /\ 26 * r + 26 \in 1 .. close
      BY <1>1a, <2>3
    <3> QED
      BY <1>2, <2>4, <3>1
  <2>6. ASSUME NEW f \in 0 .. 10 PROVE toks[26 * r + 4 + 2 * f].kind = ","
    <3>1. Kind(toks, (26 * r + 2) + 2 * f + 2) = ","
      BY <2>3 DEF RowAt
    <3>2. (26 * r + 2) + 2 * f + 2 = 26 * r + 4 + 2 * f /\ 26 * r + 4 + 2 * f \in 1 .. close
      BY <2>3
    <3> QED
      BY <1>2, <3>1, <3>2
  <2>7. ASSUME NEW f \in 0 .. 11 PROVE FieldIs(toks[26 * r + 3 + 2 * f], f)
    <3>1. LET j == 26 * r + 2 IN
          CASE f \in {0, 6, 8} -> Kind(toks, j + 2 * f + 1) = "number"
            [] f = 11           -> Kind(toks, j + 2 * f + 1) \in {"string", "number"}
            [] OTHER            -> /\ Kind(toks, j + 2 * f + 1) = "string"
                                   /\ toks[j + 2 * f + 1].text[1] \in Digits
      BY <2>3 DEF RowAt
    <3>2. (26 * r + 2) + 2 * f + 1 = 26 * r + 3 + 2 * f /\ 26 * r + 3 + 2 * f \in 1 .. close
      BY <2>3
    <3>3. Kind(toks, (26 * r + 2) + 2 * f + 1) = toks[26 * r + 3 + 2 * f].kind
      BY <1>2, <3>2
    <3> QED
      BY <3>1, <3>2, <3>3 DEF FieldIs, NumberFields, IgnoredField
  <2> QED
    BY <2>5, <2>6, <2>7
<1>5. 1 \in 1 .. close /\ close \in 1 .. close
  BY <1>1a
<1>6. toks[1].kind = "[" /\ toks[close].kind = "]"
  BY <1>1, <1>2, <1>5, Zenon
<1>7. Opens(toks, close - 1)
  BY <1>4, <1>6, Zenon DEF Opens
<1> QED
  BY <1>1, <1>6, <1>7

\* What is still open has not closed before.
LEMMA StillOpen ==
    ASSUME NEW toks, Len(toks) \in Nat, NEW k \in 0 .. Len(toks), Opens(toks, k),
           NEW n \in Nat, NEW close \in 2 .. Len(toks), RowsUpTo(toks, n, close)
    PROVE  k < close
<1>1. SUFFICES ASSUME close =< k PROVE FALSE
  OBVIOUS
<1>2. /\ toks[close].kind = "]"
      /\ n = 0 => close = 2
      /\ n > 0 => close \in {26 * n + 1, 26 * n + 2}
  BY RowsOpen
<1>3. CASE n > 0 /\ close = 26 * n + 1
  <2>1. toks[26 * n + 1].kind = ","
    <3>1. n >= 1 /\ 26 * n + 1 =< k
      BY <1>1, <1>3
    <3> QED
      BY <3>1, Zenon DEF Opens
  <2> QED
    BY <1>2, <1>3, <2>1
<1>4. CASE close = 26 * n + 2
  <2>1. toks[26 * n + 2].kind = "["
    <3>1. 26 * n + 2 =< k
      BY <1>1, <1>4
    <3> QED
      BY <3>1, Zenon DEF Opens
  <2> QED
    BY <1>2, <1>4, <2>1
<1>5. n = 0 => close = 26 * n + 2
  BY <1>2
<1> QED
  BY <1>2, <1>3, <1>4, <1>5

\* Where a row opens, closes and is divided from the next are different places.
LEMMA RowPlacesDiffer ==
    ASSUME NEW r \in Nat, NEW q \in Nat
    PROVE  26 * r + 1 # 26 * q + 2 /\ 26 * r + 1 # 26 * q + 26 /\ 26 * r + 2 # 26 * q + 26
OBVIOUS

\* None of them is the place of a field.
LEMMA FieldPlacesDiffer ==
    ASSUME NEW r \in Nat, NEW q \in Nat, NEW f \in 0 .. 11
    PROVE  /\ 26 * r + 1 # 26 * q + 3 + 2 * f
           /\ 26 * r + 2 # 26 * q + 3 + 2 * f
           /\ 26 * r + 26 # 26 * q + 3 + 2 * f
<1>1. 26 * r + 1 # 26 * q + 3 + 2 * f
  OBVIOUS
<1>2. 26 * r + 2 # 26 * q + 3 + 2 * f
  OBVIOUS
<1>3. 26 * r + 26 # 26 * q + 3 + 2 * f
  OBVIOUS
<1> QED
  BY <1>1, <1>2, <1>3

\* None of them is the place of a comma behind a field.
LEMMA CommaPlacesDiffer ==
    ASSUME NEW r \in Nat, NEW q \in Nat, NEW f \in 0 .. 10
    PROVE  /\ 26 * r + 1 # 26 * q + 4 + 2 * f
           /\ 26 * r + 2 # 26 * q + 4 + 2 * f
           /\ 26 * r + 26 # 26 * q + 4 + 2 * f
<1>1. 26 * r + 1 # 26 * q + 4 + 2 * f
  OBVIOUS
<1>2. 26 * r + 2 # 26 * q + 4 + 2 * f
  OBVIOUS
<1>3. 26 * r + 26 # 26 * q + 4 + 2 * f
  OBVIOUS
<1> QED
  BY <1>1, <1>2, <1>3

\* A field is no comma.
LEMMA FieldsAreNoCommas ==
    ASSUME NEW r \in Nat, NEW q \in Nat, NEW f \in 0 .. 11, NEW g \in 0 .. 10
    PROVE  26 * r + 3 + 2 * f # 26 * q + 4 + 2 * g
OBVIOUS

\* A place is that of one field only.
LEMMA FieldPlaces ==
    ASSUME NEW r \in Nat, NEW q \in Nat, NEW f \in 0 .. 11, NEW g \in 0 .. 11,
           26 * r + 3 + 2 * f = 26 * q + 3 + 2 * g
    PROVE  r = q /\ f = g
<1>1. r = q
  OBVIOUS
<1> QED
  BY <1>1

\* All of them are numbers.
LEMMA PlacesAreNumbers ==
    ASSUME NEW r \in Nat
    PROVE  /\ 26 * r + 1 \in Nat /\ 26 * r + 2 \in Nat /\ 26 * r + 26 \in Nat
           /\ \A f \in 0 .. 11 : 26 * r + 3 + 2 * f \in Nat
           /\ \A f \in 0 .. 10 : 26 * r + 4 + 2 * f \in Nat
OBVIOUS

\* What is not behind the next place is not behind this one, or it is the next.
LEMMA OneMore ==
    ASSUME NEW k \in Nat, NEW j \in Nat, j =< k + 1
    PROVE  j =< k \/ j = k + 1
OBVIOUS

\* One more token that is where it should be.
LEMMA OpensMore ==
    ASSUME NEW toks, NEW k \in Nat, k >= 1, Opens(toks, k),
           \A r \in Nat :
              /\ r >= 1 /\ k + 1 = 26 * r + 1 => toks[k + 1].kind = ","
              /\ k + 1 = 26 * r + 2  => toks[k + 1].kind = "["
              /\ k + 1 = 26 * r + 26 => toks[k + 1].kind = "]"
              /\ \A f \in 0 .. 11 : k + 1 = 26 * r + 3 + 2 * f => FieldIs(toks[k + 1], f)
              /\ \A f \in 0 .. 10 : k + 1 = 26 * r + 4 + 2 * f => toks[k + 1].kind = ","
    PROVE  Opens(toks, k + 1)
<1>1. \A j \in Nat : j =< k + 1 => j =< k \/ j = k + 1
  BY OneMore, Zenon
<1>2. k + 1 >= 1 => toks[1].kind = "["
  BY Zenon DEF Opens
<1>3. ASSUME NEW r \in Nat
      PROVE  /\ r >= 1 /\ 26 * r + 1 =< k + 1 => toks[26 * r + 1].kind = ","
             /\ 26 * r + 2 =< k + 1  => toks[26 * r + 2].kind = "["
             /\ 26 * r + 26 =< k + 1 => toks[26 * r + 26].kind = "]"
             /\ \A f \in 0 .. 11 : 26 * r + 3 + 2 * f =< k + 1 => FieldIs(toks[26 * r + 3 + 2 * f], f)
             /\ \A f \in 0 .. 10 : 26 * r + 4 + 2 * f =< k + 1 => toks[26 * r + 4 + 2 * f].kind = ","
  <2>1. /\ 26 * r + 1 \in Nat /\ 26 * r + 2 \in Nat /\ 26 * r + 26 \in Nat
        /\ \A f \in 0 .. 11 : 26 * r + 3 + 2 * f \in Nat
        /\ \A f \in 0 .. 10 : 26 * r + 4 + 2 * f \in Nat
    BY PlacesAreNumbers, Zenon
  <2>2. /\ r >= 1 /\ 26 * r + 1 =< k => toks[26 * r + 1].kind = ","
        /\ 26 * r + 2 =< k  => toks[26 * r + 2].kind = "["
        /\ 26 * r + 26 =< k => toks[26 * r + 26].kind = "]"
        /\ \A f \in 0 .. 11 : 26 * r + 3 + 2 * f =< k => FieldIs(toks[26 * r + 3 + 2 * f], f)
        /\ \A f \in 0 .. 10 : 26 * r + 4 + 2 * f =< k => toks[26 * r + 4 + 2 * f].kind = ","
    BY Zenon DEF Opens
  <2>3. /\ r >= 1 /\ k + 1 = 26 * r + 1 => toks[k + 1].kind = ","
        /\ k + 1 = 26 * r + 2  => toks[k + 1].kind = "["
        /\ k + 1 = 26 * r + 26 => toks[k + 1].kind = "]"
        /\ \A f \in 0 .. 11 : k + 1 = 26 * r + 3 + 2 * f => FieldIs(toks[k + 1], f)
        /\ \A f \in 0 .. 10 : k + 1 = 26 * r + 4 + 2 * f => toks[k + 1].kind = ","
    BY Zenon
  <2>4. ASSUME NEW f \in 0 .. 11, 26 * r + 3 + 2 * f =< k + 1
        PROVE  FieldIs(toks[26 * r + 3 + 2 * f], f)
    BY <1>1, <2>1, <2>2, <2>3, <2>4, Zenon
  <2>5. ASSUME NEW f \in 0 .. 10, 26 * r + 4 + 2 * f =< k + 1
        PROVE  toks[26 * r + 4 + 2 * f].kind = ","
    BY <1>1, <2>1, <2>2, <2>3, <2>5, Zenon
  <2>6. /\ r >= 1 /\ 26 * r + 1 =< k + 1 => toks[26 * r + 1].kind = ","
        /\ 26 * r + 2 =< k + 1  => toks[26 * r + 2].kind = "["
        /\ 26 * r + 26 =< k + 1 => toks[26 * r + 26].kind = "]"
    BY <1>1, <2>1, <2>2, <2>3, Zenon
  <2> QED
    BY <2>4, <2>5, <2>6, Zenon
<1> QED
  BY <1>2, <1>3, Zenon DEF Opens

\* The array opens.
LEMMA OpensFirst ==
    ASSUME NEW toks, toks[1].kind = "["
    PROVE  Opens(toks, 1)
<1>1. ASSUME NEW r \in Nat
      PROVE  /\ ~(r >= 1 /\ 26 * r + 1 =< 1) /\ ~(26 * r + 2 =< 1) /\ ~(26 * r + 26 =< 1)
             /\ \A f \in 0 .. 11 : ~(26 * r + 3 + 2 * f =< 1)
             /\ \A f \in 0 .. 10 : ~(26 * r + 4 + 2 * f =< 1)
  <2>1. ~(r >= 1 /\ 26 * r + 1 =< 1) /\ ~(26 * r + 2 =< 1) /\ ~(26 * r + 26 =< 1)
    OBVIOUS
  <2>2. ASSUME NEW f \in 0 .. 11 PROVE ~(26 * r + 3 + 2 * f =< 1)
    OBVIOUS
  <2>3. ASSUME NEW f \in 0 .. 10 PROVE ~(26 * r + 4 + 2 * f =< 1)
    OBVIOUS
  <2> QED
    BY <2>1, <2>2, <2>3, Zenon
<1> QED
  BY <1>1, Zenon DEF Opens

\* A row opens.
LEMMA OpensRow ==
    ASSUME NEW toks, NEW k \in Nat, Opens(toks, k), NEW q \in Nat, k + 1 = 26 * q + 2, k >= 1,
           toks[k + 1].kind = "["
    PROVE  Opens(toks, k + 1)
<1>1. \A r \in Nat : /\ k + 1 # 26 * r + 1 /\ k + 1 # 26 * r + 26
                     /\ \A f \in 0 .. 11 : k + 1 # 26 * r + 3 + 2 * f
                     /\ \A f \in 0 .. 10 : k + 1 # 26 * r + 4 + 2 * f
  BY RowPlacesDiffer, FieldPlacesDiffer, CommaPlacesDiffer, ZenonT(60)
<1> QED
  BY <1>1, OpensMore, Zenon

\* Another row is announced.
LEMMA OpensNext ==
    ASSUME NEW toks, NEW k \in Nat, Opens(toks, k), NEW q \in Nat, k + 1 = 26 * q + 1, k >= 1,
           toks[k + 1].kind = ","
    PROVE  Opens(toks, k + 1)
<1>1. \A r \in Nat : /\ k + 1 # 26 * r + 2 /\ k + 1 # 26 * r + 26
                     /\ \A f \in 0 .. 11 : k + 1 # 26 * r + 3 + 2 * f
                     /\ \A f \in 0 .. 10 : k + 1 # 26 * r + 4 + 2 * f
  BY RowPlacesDiffer, FieldPlacesDiffer, CommaPlacesDiffer, ZenonT(60)
<1> QED
  BY <1>1, OpensMore, Zenon

\* A row closes.
LEMMA OpensAfter ==
    ASSUME NEW toks, NEW k \in Nat, Opens(toks, k), NEW q \in Nat, k + 1 = 26 * q + 26, k >= 1,
           toks[k + 1].kind = "]"
    PROVE  Opens(toks, k + 1)
<1>1. \A r \in Nat : /\ k + 1 # 26 * r + 1 /\ k + 1 # 26 * r + 2
                     /\ \A f \in 0 .. 11 : k + 1 # 26 * r + 3 + 2 * f
                     /\ \A f \in 0 .. 10 : k + 1 # 26 * r + 4 + 2 * f
  BY RowPlacesDiffer, FieldPlacesDiffer, CommaPlacesDiffer, ZenonT(60)
<1> QED
  BY <1>1, OpensMore, Zenon

\* A field of a row.
LEMMA OpensField ==
    ASSUME NEW toks, NEW k \in Nat, Opens(toks, k), NEW q \in Nat, NEW g \in 0 .. 11,
           k + 1 = 26 * q + 3 + 2 * g, k >= 1, FieldIs(toks[k + 1], g)
    PROVE  Opens(toks, k + 1)
<1>1. \A r \in Nat : /\ k + 1 # 26 * r + 1 /\ k + 1 # 26 * r + 2 /\ k + 1 # 26 * r + 26
                     /\ \A f \in 0 .. 11 : k + 1 = 26 * r + 3 + 2 * f => f = g
                     /\ \A f \in 0 .. 10 : k + 1 # 26 * r + 4 + 2 * f
  <2>1. TAKE r \in Nat
  <2>2. k + 1 # 26 * r + 1 /\ k + 1 # 26 * r + 2 /\ k + 1 # 26 * r + 26
    BY FieldPlacesDiffer, Zenon
  <2>3. \A f \in 0 .. 11 : 26 * r + 3 + 2 * f = 26 * q + 3 + 2 * g => f = g
    BY FieldPlaces, ZenonT(60)
  <2>4. \A f \in 0 .. 10 : k + 1 # 26 * r + 4 + 2 * f
    BY FieldsAreNoCommas, Zenon
  <2> QED
    BY <2>2, <2>3, <2>4, Zenon
<1> QED
  BY <1>1, OpensMore, Zenon

\* The comma behind a field.
LEMMA OpensComma ==
    ASSUME NEW toks, NEW k \in Nat, Opens(toks, k), NEW q \in Nat, NEW g \in 0 .. 10,
           k + 1 = 26 * q + 4 + 2 * g, k >= 1, toks[k + 1].kind = ","
    PROVE  Opens(toks, k + 1)
<1>1. \A r \in Nat : /\ k + 1 # 26 * r + 1 /\ k + 1 # 26 * r + 2 /\ k + 1 # 26 * r + 26
                     /\ \A f \in 0 .. 11 : k + 1 # 26 * r + 3 + 2 * f
  BY CommaPlacesDiffer, FieldsAreNoCommas, ZenonT(60)
<1> QED
  BY <1>1, OpensMore, Zenon

\* If the next token could not be there in an array of rows, there is none.
LEMMA NoRowsFrom ==
    ASSUME NEW toks, Len(toks) \in Nat, NEW k \in 0 .. Len(toks), Opens(toks, k),
           NEW n \in Nat, NEW close \in 2 .. Len(toks), RowsUpTo(toks, n, close)
    PROVE  /\ k + 1 < close => Opens(toks, k + 1)
           /\ ~(k + 1 < close) => /\ close = k + 1 /\ toks[k + 1].kind = "]"
                                  /\ n = 0 => k + 1 = 2
                                  /\ n > 0 => k + 1 \in {26 * n + 1, 26 * n + 2}
<1>1. k < close /\ close \in Nat
  BY StillOpen
<1>2. /\ Opens(toks, close - 1) /\ toks[close].kind = "]"
      /\ n = 0 => close = 2
      /\ n > 0 => close \in {26 * n + 1, 26 * n + 2}
  BY RowsOpen
<1>3. ASSUME k + 1 < close PROVE Opens(toks, k + 1)
  <2>1. \A j \in Nat : j =< k + 1 => j =< close - 1
    BY <1>1, <1>3
  <2>2. k + 1 >= 1 => toks[1].kind = "["
    <3>1. close - 1 >= 1
      OBVIOUS
    <3> QED
      BY <1>2, <3>1, Zenon DEF Opens
  <2>3. ASSUME NEW r \in Nat
        PROVE  /\ r >= 1 /\ 26 * r + 1 =< k + 1 => toks[26 * r + 1].kind = ","
               /\ 26 * r + 2 =< k + 1  => toks[26 * r + 2].kind = "["
               /\ 26 * r + 26 =< k + 1 => toks[26 * r + 26].kind = "]"
               /\ \A f \in 0 .. 11 : 26 * r + 3 + 2 * f =< k + 1 => FieldIs(toks[26 * r + 3 + 2 * f], f)
               /\ \A f \in 0 .. 10 : 26 * r + 4 + 2 * f =< k + 1 => toks[26 * r + 4 + 2 * f].kind = ","
    <3>1. /\ 26 * r + 1 \in Nat /\ 26 * r + 2 \in Nat /\ 26 * r + 26 \in Nat
          /\ \A f \in 0 .. 11 : 26 * r + 3 + 2 * f \in Nat
          /\ \A f \in 0 .. 10 : 26 * r + 4 + 2 * f \in Nat
      BY PlacesAreNumbers, Zenon
    <3>2. /\ r >= 1 /\ 26 * r + 1 =< close - 1 => toks[26 * r + 1].kind = ","
          /\ 26 * r + 2 =< close - 1  => toks[26 * r + 2].kind = "["
          /\ 26 * r + 26 =< close - 1 => toks[26 * r + 26].kind = "]"
          /\ \A f \in 0 .. 11 : 26 * r + 3 + 2 * f =< close - 1 => FieldIs(toks[26 * r + 3 + 2 * f], f)
          /\ \A f \in 0 .. 10 : 26 * r + 4 + 2 * f =< close - 1 => toks[26 * r + 4 + 2 * f].kind = ","
      BY <1>2, Zenon DEF Opens
    <3> QED
      BY <2>1, <3>1, <3>2, Zenon
  <2> QED
    BY <2>2, <2>3, Zenon DEF Opens
<1>4. ASSUME ~(k + 1 < close) PROVE close = k + 1
  BY <1>1, <1>4
<1> QED
  BY <1>2, <1>3, <1>4

\* The number of rows is a number.
LEMMA RowCounts ==
    ASSUME NEW n \in 0 .. Capacity
    PROVE  n \in Nat
BY RestAssumption

\* The place before one in the body.
LEMMA PlaceBefore ==
    ASSUME NEW len \in Nat, NEW k \in Nat, k + 1 \in 1 .. len
    PROVE  k \in 0 .. len
OBVIOUS

\* There are rows or there are none.
LEMMA SomeOrNone ==
    ASSUME NEW n \in Nat
    PROVE  n = 0 \/ n > 0
OBVIOUS

\* No field and no comma behind one is the second token.
LEMMA NotTheSecond ==
    ASSUME NEW q \in Nat
    PROVE  /\ \A f \in 0 .. 11 : 26 * q + 3 + 2 * f # 2
           /\ \A f \in 0 .. 10 : 26 * q + 4 + 2 * f # 2
OBVIOUS

\* A place is not behind itself.
LEMMA AtMostItself ==
    ASSUME NEW k \in Nat
    PROVE  k + 1 =< k + 1
OBVIOUS

\* The first token opens no array.
LEMMA RefusesStart ==
    ASSUME NEW toks, Len(toks) \in Nat, 1 \in 1 .. Len(toks), toks[1].kind # "["
    PROVE  NoRows(toks)
BY DEF NoRows, RowsUpTo, Kind

\* Where a row could open or the array close, something else stands.
LEMMA RefusesRow ==
    ASSUME NEW toks, Len(toks) \in Nat, NEW k \in Nat, k + 1 \in 1 .. Len(toks), Opens(toks, k),
           NEW q \in Nat, k + 1 = 26 * q + 2, toks[k + 1].kind \notin {"[", "]"}
    PROVE  NoRows(toks)
<1>1. SUFFICES ASSUME NEW n \in 0 .. Capacity, NEW close \in 2 .. Len(toks), RowsUpTo(toks, n, close)
               PROVE  FALSE
  BY Zenon DEF NoRows
<1>2. n \in Nat /\ k \in 0 .. Len(toks)
  BY RowCounts, PlaceBefore, Zenon
<1>3. Opens(toks, k + 1) \/ toks[k + 1].kind = "]"
  BY <1>1, <1>2, NoRowsFrom, Zenon
<1>4. Opens(toks, k + 1)
  BY <1>3
<1>5. 26 * q + 2 =< k + 1
  BY AtMostItself, Zenon
<1>6. toks[26 * q + 2].kind = "["
  BY <1>4, <1>5, Zenon DEF Opens
<1> QED
  BY <1>6

\* A row more than there is room for.
LEMMA RefusesFull ==
    ASSUME NEW toks, Len(toks) \in Nat, NEW k \in Nat, k + 1 \in 1 .. Len(toks), Opens(toks, k),
           k + 1 = 26 * Capacity + 2, toks[k + 1].kind = "["
    PROVE  NoRows(toks)
<1>1. SUFFICES ASSUME NEW n \in 0 .. Capacity, NEW close \in 2 .. Len(toks), RowsUpTo(toks, n, close)
               PROVE  FALSE
  BY Zenon DEF NoRows
<1>2. n \in Nat /\ k \in 0 .. Len(toks) /\ Capacity \in Nat /\ Capacity > 0
  BY RestAssumption
<1>3. k + 1 < close \/ toks[k + 1].kind = "]"
  BY <1>1, <1>2, NoRowsFrom, Zenon
<1>4. n > 0 => close \in {26 * n + 1, 26 * n + 2}
  BY <1>1, <1>2, RowsOpen, Zenon
<1>5. n = 0 => close = 2
  BY <1>1, <1>2, RowsOpen, Zenon
<1> QED
  BY <1>2, <1>3, <1>4, <1>5

\* A field is not what it should be.
LEMMA RefusesField ==
    ASSUME NEW toks, Len(toks) \in Nat, NEW k \in Nat, k + 1 \in 1 .. Len(toks), Opens(toks, k),
           NEW q \in Nat, NEW f \in 0 .. 11, k + 1 = 26 * q + 3 + 2 * f, ~FieldIs(toks[k + 1], f)
    PROVE  NoRows(toks)
<1>1. SUFFICES ASSUME NEW n \in 0 .. Capacity, NEW close \in 2 .. Len(toks), RowsUpTo(toks, n, close)
               PROVE  FALSE
  BY Zenon DEF NoRows
<1>2. n \in Nat /\ k \in 0 .. Len(toks)
  BY RowCounts, PlaceBefore, Zenon
<1>3. \/ Opens(toks, k + 1)
      \/ n = 0 /\ k + 1 = 2
      \/ n # 0 /\ k + 1 \in {26 * n + 1, 26 * n + 2}
  <2>1. n = 0 \/ n > 0
    BY <1>2, SomeOrNone, Zenon
  <2> QED
    BY <1>1, <1>2, <2>1, NoRowsFrom, Zenon
<1>4. 26 * n + 1 # 26 * q + 3 + 2 * f /\ 26 * n + 2 # 26 * q + 3 + 2 * f
  BY <1>2, FieldPlacesDiffer, Zenon
<1>5. k + 1 # 2
  BY NotTheSecond, Zenon
<1>6. Opens(toks, k + 1)
  BY <1>3, <1>4, <1>5
<1>7. 26 * q + 3 + 2 * f =< k + 1
  BY AtMostItself, Zenon
<1>8. FieldIs(toks[26 * q + 3 + 2 * f], f)
  BY <1>6, <1>7, Zenon DEF Opens
<1> QED
  BY <1>8

\* No comma behind a field.
LEMMA RefusesComma ==
    ASSUME NEW toks, Len(toks) \in Nat, NEW k \in Nat, k + 1 \in 1 .. Len(toks), Opens(toks, k),
           NEW q \in Nat, NEW f \in 0 .. 10, k + 1 = 26 * q + 4 + 2 * f, toks[k + 1].kind # ","
    PROVE  NoRows(toks)
<1>1. SUFFICES ASSUME NEW n \in 0 .. Capacity, NEW close \in 2 .. Len(toks), RowsUpTo(toks, n, close)
               PROVE  FALSE
  BY Zenon DEF NoRows
<1>2. n \in Nat /\ k \in 0 .. Len(toks)
  BY RowCounts, PlaceBefore, Zenon
<1>3. \/ Opens(toks, k + 1)
      \/ n = 0 /\ k + 1 = 2
      \/ n # 0 /\ k + 1 \in {26 * n + 1, 26 * n + 2}
  <2>1. n = 0 \/ n > 0
    BY <1>2, SomeOrNone, Zenon
  <2> QED
    BY <1>1, <1>2, <2>1, NoRowsFrom, Zenon
<1>4. 26 * n + 1 # 26 * q + 4 + 2 * f /\ 26 * n + 2 # 26 * q + 4 + 2 * f
  BY <1>2, CommaPlacesDiffer, Zenon
<1>5. k + 1 # 2
  BY NotTheSecond, Zenon
<1>6. Opens(toks, k + 1)
  BY <1>3, <1>4, <1>5
<1>7. 26 * q + 4 + 2 * f =< k + 1
  BY AtMostItself, Zenon
<1>8. toks[26 * q + 4 + 2 * f].kind = ","
  BY <1>6, <1>7, Zenon DEF Opens
<1> QED
  BY <1>8

\* A row does not close behind its last field.
LEMMA RefusesClose ==
    ASSUME NEW toks, Len(toks) \in Nat, NEW k \in Nat, k + 1 \in 1 .. Len(toks), Opens(toks, k),
           NEW q \in Nat, k + 1 = 26 * q + 26, toks[k + 1].kind # "]"
    PROVE  NoRows(toks)
<1>1. SUFFICES ASSUME NEW n \in 0 .. Capacity, NEW close \in 2 .. Len(toks), RowsUpTo(toks, n, close)
               PROVE  FALSE
  BY Zenon DEF NoRows
<1>2. n \in Nat /\ k \in 0 .. Len(toks)
  BY RowCounts, PlaceBefore, Zenon
<1>3. Opens(toks, k + 1)
  BY <1>1, <1>2, NoRowsFrom, Zenon
<1>4. 26 * q + 26 =< k + 1
  BY AtMostItself, Zenon
<1>5. toks[26 * q + 26].kind = "]"
  BY <1>3, <1>4, Zenon DEF Opens
<1> QED
  BY <1>5

\* Neither a comma nor the end behind a row.
LEMMA RefusesEnd ==
    ASSUME NEW toks, Len(toks) \in Nat, NEW k \in Nat, k + 1 \in 1 .. Len(toks), Opens(toks, k),
           NEW q \in Nat, q >= 1, k + 1 = 26 * q + 1, toks[k + 1].kind \notin {",", "]"}
    PROVE  NoRows(toks)
<1>1. SUFFICES ASSUME NEW n \in 0 .. Capacity, NEW close \in 2 .. Len(toks), RowsUpTo(toks, n, close)
               PROVE  FALSE
  BY Zenon DEF NoRows
<1>2. n \in Nat /\ k \in 0 .. Len(toks)
  BY RowCounts, PlaceBefore, Zenon
<1>3. Opens(toks, k + 1) \/ toks[k + 1].kind = "]"
  BY <1>1, <1>2, NoRowsFrom, Zenon
<1>4. Opens(toks, k + 1)
  BY <1>3
<1>5. 26 * q + 1 =< k + 1
  BY AtMostItself, Zenon
<1>6. toks[26 * q + 1].kind = ","
  BY <1>4, <1>5, Zenon DEF Opens
<1> QED
  BY <1>6

\* A row that has been passed is a row of twelve fields.
LEMMA RowPassed ==
    ASSUME NEW toks, Len(toks) \in Nat, NEW k \in 0 .. Len(toks), Opens(toks, k),
           NEW r \in Nat, 26 * r + 26 =< k
    PROVE  RowAt(toks, 26 * r + 2)
<1> DEFINE j == 26 * r + 2
<1>1. \A i \in 1 .. k : Kind(toks, i) = toks[i].kind
  BY DEF Kind
<1>2. /\ j =< k /\ j \in 1 .. k /\ j + 24 = 26 * r + 26 /\ 26 * r + 26 \in 1 .. k
  OBVIOUS
<1>3. Kind(toks, j) = "[" /\ Kind(toks, j + 24) = "]"
  <2>1. toks[26 * r + 2].kind = "[" /\ toks[26 * r + 26].kind = "]"
    BY <1>2, Zenon DEF Opens
  <2> QED
    BY <1>1, <1>2, <2>1, Zenon
<1>4. ASSUME NEW f \in 0 .. 10 PROVE Kind(toks, j + 2 * f + 2) = ","
  <2>1. 26 * r + 4 + 2 * f =< k /\ 26 * r + 4 + 2 * f \in 1 .. k /\ j + 2 * f + 2 = 26 * r + 4 + 2 * f
    OBVIOUS
  <2>2. toks[26 * r + 4 + 2 * f].kind = ","
    BY <2>1, Zenon DEF Opens
  <2> QED
    BY <1>1, <2>1, <2>2, Zenon
<1>5. ASSUME NEW f \in 0 .. 11
      PROVE  CASE f \in {0, 6, 8} -> Kind(toks, j + 2 * f + 1) = "number"
               [] f = 11           -> Kind(toks, j + 2 * f + 1) \in {"string", "number"}
               [] OTHER            -> /\ Kind(toks, j + 2 * f + 1) = "string"
                                      /\ toks[j + 2 * f + 1].text[1] \in Digits
  <2>1. 26 * r + 3 + 2 * f =< k /\ 26 * r + 3 + 2 * f \in 1 .. k /\ j + 2 * f + 1 = 26 * r + 3 + 2 * f
    OBVIOUS
  <2>2. FieldIs(toks[26 * r + 3 + 2 * f], f)
    BY <2>1, Zenon DEF Opens
  <2>3. Kind(toks, j + 2 * f + 1) = toks[26 * r + 3 + 2 * f].kind
    BY <1>1, <2>1, Zenon
  <2> QED
    BY <2>1, <2>2, <2>3 DEF FieldIs, NumberFields, IgnoredField
<1> HIDE DEF j
<1>6. RowAt(toks, j)
  BY <1>3, <1>4, <1>5 DEF RowAt
<1> QED
  BY <1>6 DEF j

\* An open array that closes is one of its rows.
LEMMA RowsClose ==
    ASSUME NEW toks, Len(toks) \in Nat, NEW n \in Nat, NEW close \in 2 .. Len(toks),
           Opens(toks, close - 1), toks[close].kind = "]",
           close = 26 * n + 2 \/ (n > 0 /\ close = 26 * n + 1)
    PROVE  RowsUpTo(toks, n, close)
<1>1. Kind(toks, 1) = "[" /\ Kind(toks, close) = "]"
  <2>1. 1 \in 1 .. Len(toks) /\ close \in 1 .. Len(toks) /\ close - 1 >= 1
    OBVIOUS
  <2>2. toks[1].kind = "["
    BY <2>1, Zenon DEF Opens
  <2> QED
    BY <2>1, <2>2, Zenon DEF Kind
<1>2. n > 0 => close \in {26 * n + 1, 26 * n + 2}
  OBVIOUS
<1>3. n = 0 <=> close = 2
  OBVIOUS
<1>4. ASSUME NEW r \in 0 .. n - 1 PROVE RowAt(toks, 26 * r + 2)
  <2>1. close - 1 \in 0 .. Len(toks) /\ r \in Nat /\ 26 * r + 26 =< close - 1
    OBVIOUS
  <2> QED
    BY <2>1, RowPassed, Zenon
<1>5. ASSUME NEW r \in 1 .. n, 26 * r + 1 < close PROVE Kind(toks, 26 * r + 1) = ","
  <2>1. r \in Nat /\ r >= 1 /\ 26 * r + 1 =< close - 1 /\ 26 * r + 1 \in 1 .. Len(toks)
    BY <1>5
  <2>2. toks[26 * r + 1].kind = ","
    BY <2>1, Zenon DEF Opens
  <2> QED
    BY <2>1, <2>2, Zenon DEF Kind
<1> QED
  BY <1>1, <1>2, <1>3, <1>4, <1>5 DEF RowsUpTo

-----------------------------------------------------------------------------
(* One token.                                                              *)

\* What the parser is after a token.
Follows(toks, k, p, q) ==
    /\ q.sc = p.sc
    /\ RowsSoFar(toks, k, q) \/ RowsDone(toks, k, q) \/ RowsRefused(toks, q)

\* The parser goes to another place in the grammar.
LEMMA Goes ==
    ASSUME NEW p, KlinesParser(p), NEW at
    PROVE  /\ KlinesParser(Go(p, at)) /\ Go(p, at).at = at /\ Go(p, at).sc = p.sc
           /\ Go(p, at).field = p.field /\ Go(p, at).rows = p.rows /\ Go(p, at).out = p.out
BY DEF KlinesParser, Go

\* It turns to a field.
LEMMA TurnsTo ==
    ASSUME NEW p, KlinesParser(p), NEW f
    PROVE  LET q == [p EXCEPT !.field = f, !.at = "Field"]
           IN  /\ KlinesParser(q) /\ q.at = "Field" /\ q.sc = p.sc
               /\ q.field = f /\ q.rows = p.rows /\ q.out = p.out
<1> DEFINE r == [p EXCEPT !.field = f]
<1>1. /\ KlinesParser(r) /\ r.at = p.at /\ r.sc = p.sc
      /\ r.field = f /\ r.rows = p.rows /\ r.out = p.out
  BY DEF KlinesParser
<1>2. [p EXCEPT !.field = f, !.at = "Field"] = Go(r, "Field")
  BY Zenon DEF Go
<1> HIDE DEF r
<1> QED
  BY <1>1, <1>2, Goes

\* It counts a row.
LEMMA Counts ==
    ASSUME NEW p, KlinesParser(p)
    PROVE  LET q == [p EXCEPT !.rows = @ + 1, !.at = "RowEnd"]
           IN  /\ KlinesParser(q) /\ q.at = "RowEnd" /\ q.sc = p.sc
               /\ q.field = p.field /\ q.rows = p.rows + 1 /\ q.out = p.out
<1> DEFINE r == [p EXCEPT !.rows = @ + 1]
<1>1. /\ KlinesParser(r) /\ r.at = p.at /\ r.sc = p.sc
      /\ r.field = p.field /\ r.rows = p.rows + 1 /\ r.out = p.out
  BY DEF KlinesParser
<1>2. [p EXCEPT !.rows = @ + 1, !.at = "RowEnd"] = Go(r, "RowEnd")
  BY Zenon DEF Go
<1> HIDE DEF r
<1> QED
  BY <1>1, <1>2, Goes

\* It writes a price.
LEMMA Writes ==
    ASSUME NEW p, KlinesParser(p), p.field = 1
    PROVE  LET q == Go(PutField(p), "FieldEnd")
           IN  /\ KlinesParser(q) /\ q.at = "FieldEnd" /\ q.sc = p.sc
               /\ q.field = 1 /\ q.rows = p.rows
               /\ q.out = Append(SubSeq(p.out, 1, p.rows), Text(p))
<1> DEFINE r == [p EXCEPT !.out = Append(SubSeq(@, 1, p.rows), Text(p))]
           put == Append(SubSeq(p.out, 1, p.rows), Text(p))
<1>1. r = [p EXCEPT !.out = put]
  BY Zenon
<1> HIDE DEF r, put
<1>2. /\ KlinesParser(r) /\ r.at = p.at /\ r.sc = p.sc
      /\ r.field = 1 /\ r.rows = p.rows /\ r.out = put
  BY <1>1 DEF KlinesParser
<1>3. PutField(p) = r
  BY Zenon DEF PutField, r
<1>4. /\ KlinesParser(Go(r, "FieldEnd")) /\ Go(r, "FieldEnd").at = "FieldEnd" /\ Go(r, "FieldEnd").sc = p.sc
      /\ Go(r, "FieldEnd").field = 1 /\ Go(r, "FieldEnd").rows = p.rows /\ Go(r, "FieldEnd").out = put
  BY <1>2, Goes
<1> QED
  BY <1>3, <1>4 DEF put

\* Refused: the record stays what it is but for its place.
LEMMA RefusedFollows ==
    ASSUME NEW toks, NEW k, NEW k2, NEW p, RowsSoFar(toks, k, p), NEW at \in {"Error", "Full"}, NoRows(toks)
    PROVE  Follows(toks, k2, p, Go(p, at))
<1>1. KlinesParser(p) /\ p.rows \in 0 .. Capacity /\ OutIs(toks, p.out)
  BY Zenon DEF RowsSoFar
<1> DEFINE q == Go(p, at)
<1>2. /\ q.sc = p.sc /\ q.at = at /\ q.rows = p.rows /\ q.out = p.out /\ q.field = p.field
      /\ KlinesParser(q)
  BY <1>1 DEF KlinesParser, Go
<1> HIDE DEF q
<1>3. RowsRefused(toks, q)
  BY <1>1, <1>2, Zenon DEF RowsRefused
<1> QED
  BY <1>2, <1>3, Zenon DEF Follows, q

\* A failure is such a step.
LEMMA FailGoes ==
    ASSUME NEW p
    PROVE  Fail(p) = Go(p, "Error")
BY DEF Fail, Go

\* At the start.
LEMMA StepStart ==
    ASSUME NEW toks, Len(toks) \in Nat, NEW k \in Nat, k + 1 \in 1 .. Len(toks),
           NEW p, RowsSoFar(toks, k, p), p.at = "Start", NEW kind, kind = toks[k + 1].kind
    PROVE  Follows(toks, k + 1, p, KlinesStep(p, kind))
<1>1. KlinesParser(p) /\ p.rows = 0 /\ k = 0 /\ p.out = <<>> /\ OutIs(toks, p.out) /\ p.field \in 0 .. 11
  BY EmptySeq DEF RowsSoFar, OutIs
<1>2. CASE kind # "["
  <2>1. KlinesStep(p, kind) = Go(p, "Error")
    BY <1>2, FailGoes DEF KlinesStep
  <2>2. NoRows(toks)
    BY <1>1, <1>2, RefusesStart
  <2> QED
    BY <2>1, <2>2, RefusedFollows, Zenon
<1>3. CASE kind = "["
  <2> DEFINE q == KlinesStep(p, kind)
  <2>1. /\ q.sc = p.sc /\ q.at = "RowOrEnd" /\ q.rows = 0 /\ q.out = <<>> /\ q.field \in 0 .. 11
        /\ KlinesParser(q)
    BY <1>1, <1>3 DEF KlinesStep, KlinesParser, Go
  <2> HIDE DEF q
  <2>2. Opens(toks, k + 1)
    BY <1>1, <1>3, OpensFirst
  <2>3. k + 1 = 26 * q.rows + 1 /\ Len(q.out) = q.rows /\ q.rows \in 0 .. Capacity
    BY <1>1, <2>1, RestAssumption
  <2>4. RowsSoFar(toks, k + 1, q)
    BY <1>1, <2>1, <2>2, <2>3, Zenon DEF RowsSoFar
  <2> QED
    BY <2>1, <2>4, Zenon DEF Follows, q
<1> QED
  BY <1>2, <1>3

\* The array closes where it may.
LEMMA StepDone ==
    ASSUME NEW toks, Len(toks) \in Nat, NEW k \in Nat, k + 1 \in 1 .. Len(toks),
           NEW p, RowsSoFar(toks, k, p), toks[k + 1].kind = "]", p.at \in {"RowOrEnd", "RowEnd"}
    PROVE  Follows(toks, k + 1, p, Go(p, "Done"))
<1>1. /\ KlinesParser(p) /\ p.rows \in 0 .. Capacity /\ OutIs(toks, p.out) /\ Len(p.out) = p.rows
      /\ Opens(toks, k)
      /\ \/ k = 26 * p.rows + 1
         \/ p.rows > 0 /\ k = 26 * p.rows
  BY DEF RowsSoFar
<1> DEFINE q == Go(p, "Done")
<1>2. /\ q.sc = p.sc /\ q.at = "Done" /\ q.rows = p.rows /\ q.out = p.out /\ q.field = p.field
      /\ KlinesParser(q)
  BY <1>1 DEF KlinesParser, Go
<1> HIDE DEF q
<1>3. k + 1 \in 2 .. Len(toks) /\ (k + 1) - 1 = k /\ p.rows \in Nat /\ p.rows =< Len(p.out)
      /\ (k + 1 = 26 * p.rows + 2 \/ (p.rows > 0 /\ k + 1 = 26 * p.rows + 1))
  BY <1>1, RestAssumption
<1>4. RowsUpTo(toks, p.rows, k + 1)
  BY <1>1, <1>3, RowsClose, Zenon
<1>5. RowsDone(toks, k + 1, q)
  BY <1>1, <1>2, <1>3, <1>4, Zenon DEF RowsDone
<1> QED
  BY <1>2, <1>5, Zenon DEF Follows, q

\* A row or the end.
LEMMA StepRowOrEnd ==
    ASSUME NEW toks, Len(toks) \in Nat, NEW k \in Nat, k + 1 \in 1 .. Len(toks),
           NEW p, RowsSoFar(toks, k, p), p.at = "RowOrEnd", NEW kind, kind = toks[k + 1].kind
    PROVE  Follows(toks, k + 1, p, KlinesStep(p, kind))
<1>1. /\ KlinesParser(p) /\ p.rows \in 0 .. Capacity /\ OutIs(toks, p.out) /\ Len(p.out) = p.rows
      /\ Opens(toks, k) /\ k = 26 * p.rows + 1
  BY DEF RowsSoFar
<1>2. p.rows \in Nat /\ k >= 1 /\ k + 1 = 26 * p.rows + 2 /\ Capacity \in Nat
  BY <1>1, RestAssumption
<1>3. CASE kind = "]"
  <2>1. KlinesStep(p, kind) = Go(p, "Done")
    BY <1>3 DEF KlinesStep
  <2> QED
    BY <1>3, <2>1, StepDone, Zenon
<1>4. CASE kind = "[" /\ HasRoom(p)
  <2> DEFINE q == KlinesStep(p, kind)
  <2>1. /\ q.sc = p.sc /\ q.at = "Field" /\ q.rows = p.rows /\ q.out = p.out /\ q.field = 0
        /\ KlinesParser(q)
    <3>1. q = [p EXCEPT !.field = 0, !.at = "Field"]
      BY <1>4 DEF KlinesStep
    <3> HIDE DEF q
    <3> QED
      BY <1>1, <3>1, TurnsTo
  <2> HIDE DEF q
  <2>2. p.rows < Capacity
    BY <1>1, <1>4 DEF HasRoom, KlinesParser
  <2>3. Opens(toks, k + 1)
    BY <1>1, <1>2, <1>4, OpensRow, Zenon
  <2>4. k + 1 = 26 * q.rows + 2 + 2 * q.field /\ ~(q.field > 1) /\ q.field \in 0 .. 11
    BY <1>2, <2>1
  <2>5. RowsSoFar(toks, k + 1, q)
    BY <1>1, <2>1, <2>2, <2>3, <2>4, Zenon DEF RowsSoFar
  <2> QED
    BY <2>1, <2>5, Zenon DEF Follows, q
<1>5. CASE kind = "[" /\ ~HasRoom(p)
  <2>1. KlinesStep(p, kind) = Go(p, "Full")
    BY <1>5 DEF KlinesStep
  <2>2. p.rows = Capacity
    BY <1>1, <1>2, <1>5 DEF HasRoom, KlinesParser
  <2>3. NoRows(toks)
    BY <1>1, <1>2, <1>5, <2>2, RefusesFull, Zenon
  <2> QED
    BY <2>1, <2>3, RefusedFollows, Zenon
<1>6. CASE kind \notin {"[", "]"}
  <2>1. KlinesStep(p, kind) = Go(p, "Error")
    BY <1>6, FailGoes DEF KlinesStep
  <2>2. NoRows(toks)
    BY <1>1, <1>2, <1>6, RefusesRow, Zenon
  <2> QED
    BY <2>1, <2>2, RefusedFollows, Zenon
<1> QED
  BY <1>3, <1>4, <1>5, <1>6

\* The numbers of a field and of what is behind it.
LEMMA FieldComes ==
    ASSUME NEW k, NEW rows \in 0 .. Capacity, NEW f \in 0 .. 11, k = 26 * rows + 2 + 2 * f
    PROVE  /\ rows \in Nat /\ k \in Nat /\ k >= 1 /\ Capacity \in Nat
           /\ k + 1 = 26 * rows + 3 + 2 * f
           /\ f = 1 => k + 1 = 26 * rows + 5
BY RestAssumption

\* The numbers behind a field.
BehindField(k, rows, f) ==
    /\ rows \in Nat /\ k \in Nat /\ k >= 1 /\ Capacity \in Nat
    /\ k + 1 = 26 * rows + 4 + 2 * f
    /\ f = 11 => k + 1 = 26 * rows + 26 /\ k + 1 = 26 * (rows + 1)
    /\ k + 1 = 26 * rows + 2 + 2 * (f + 1)
    /\ f # 11 => f + 1 \in 0 .. 11 /\ f \in 0 .. 10
    /\ (f > 0) = (f + 1 > 1)
    /\ rows + 1 \in 0 .. Capacity /\ rows + 1 > 0

\* They are so.
LEMMA FieldGoes ==
    ASSUME NEW k, NEW rows \in 0 .. Capacity, NEW f \in 0 .. 11, k = 26 * rows + 3 + 2 * f, rows < Capacity
    PROVE  BehindField(k, rows, f)
BY RestAssumption DEF BehindField

\* A field takes exactly what may stand in it.
LEMMA FieldTakesIt ==
    ASSUME NEW tok, IsToken(tok), NEW f \in 0 .. 11, NEW text,
           tok.kind \in {"string", "number"} => text = tok.text
    PROVE  FieldTakes(f, tok.kind, text) <=> FieldIs(tok, f)
<1>1. CASE tok.kind = "string"
  <2>1. PICK r : tok.text = <<r>>
    BY <1>1 DEF IsToken, Punctuation, Literals, Foreign
  <2>2. IsNumeric(text) <=> tok.text[1] \in Digits
    <3>1. text = <<r>> /\ tok.text[1] = r
      BY <1>1, <2>1
    <3>2. text # <<>> /\ ~(Len(text) > 1) /\ text[1] = r
      BY <3>1
    <3> QED
      BY <3>1, <3>2, Zenon DEF IsNumeric
  <2> QED
    BY <1>1, <2>2 DEF FieldTakes, FieldIs
<1>2. CASE tok.kind # "string"
  BY <1>2 DEF FieldTakes, FieldIs
<1> QED
  BY <1>1, <1>2

\* What is handed over with one price more.
OneMorePrice(toks, rows, out, text) ==
    LET put == Append(SubSeq(out, 1, rows), text) IN OutIs(toks, put) /\ Len(put) = rows + 1

\* The opening price is written behind those of the rows before.
LEMMA PriceIsPut ==
    ASSUME NEW toks, Len(toks) \in Nat, NEW rows \in Nat, rows < Capacity, NEW out, OutIs(toks, out),
           Len(out) = rows, 26 * rows + 5 \in 1 .. Len(toks), DOMAIN toks = 1 .. Len(toks),
           NEW text, text = toks[26 * rows + 5].text
    PROVE  OneMorePrice(toks, rows, out, text)
<1> DEFINE put == Append(SubSeq(out, 1, rows), text)
           T == Texts(toks)
<1>1. out \in Seq(T) /\ text \in T /\ \A i \in 1 .. Len(out) : out[i] = toks[26 * i - 21].text
  BY DEF OutIs, Texts
<1> HIDE DEF T
<1>2. SubSeq(out, 1, rows) = out
  BY <1>1
<1>3. put = Append(out, text)
  BY <1>2
<1>4. /\ put \in Seq(T) /\ Len(put) = rows + 1 /\ put[rows + 1] = text
      /\ \A i \in 1 .. rows : put[i] = out[i]
  BY <1>1, <1>3
<1> HIDE DEF put
<1>5. ASSUME NEW i \in 1 .. rows + 1 PROVE put[i] = toks[26 * i - 21].text
  <2>1. CASE i = rows + 1
    <3>1. 26 * (rows + 1) - 21 = 26 * rows + 5
      OBVIOUS
    <3> QED
      BY <1>4, <2>1, <3>1
  <2>2. CASE i # rows + 1
    <3>1. i \in 1 .. rows
      BY <2>2
    <3> QED
      BY <1>1, <1>4, <3>1
  <2> QED
    BY <2>1, <2>2
<1>6. rows + 1 =< Capacity
  BY RestAssumption
<1>7. OutIs(toks, put)
  BY <1>4, <1>5, <1>6 DEF OutIs, T
<1> QED
  BY <1>4, <1>7, Zenon DEF put, OneMorePrice

\* A field.
LEMMA StepField ==
    ASSUME NEW toks, Len(toks) \in Nat, DOMAIN toks = 1 .. Len(toks), NEW k \in Nat, k + 1 \in 1 .. Len(toks),
           IsToken(toks[k + 1]),
           NEW p, RowsSoFar(toks, k, p), p.at = "Field", NEW kind, kind = toks[k + 1].kind,
           kind \in {"string", "number"} => p.sc.scratch = toks[k + 1].text
    PROVE  Follows(toks, k + 1, p, KlinesStep(p, kind))
<1>1. /\ KlinesParser(p) /\ p.rows \in 0 .. Capacity /\ OutIs(toks, p.out) /\ p.field \in 0 .. 11
      /\ Opens(toks, k) /\ k = 26 * p.rows + 2 + 2 * p.field /\ p.rows < Capacity
      /\ p.field > 1 => Len(p.out) = p.rows + 1
      /\ ~(p.field > 1) => Len(p.out) = p.rows
  BY DEF RowsSoFar
<1>2. /\ p.rows \in Nat /\ k >= 1 /\ k + 1 = 26 * p.rows + 3 + 2 * p.field /\ Capacity \in Nat
      /\ p.field = 1 => k + 1 = 26 * p.rows + 5
  BY <1>1, FieldComes, Zenon
<1>3. FieldTakes(p.field, kind, Text(p)) <=> FieldIs(toks[k + 1], p.field)
  BY <1>1, FieldTakesIt, Zenon DEF Text
<1>4. CASE ~FieldTakes(p.field, kind, Text(p))
  <2>1. KlinesStep(p, kind) = Go(p, "Error")
    BY <1>4, FailGoes DEF KlinesStep
  <2>2. NoRows(toks)
    BY <1>1, <1>2, <1>3, <1>4, RefusesField, Zenon
  <2> QED
    BY <2>1, <2>2, RefusedFollows, Zenon
<1>5. CASE FieldTakes(p.field, kind, Text(p))
  <2> DEFINE q == KlinesStep(p, kind)
  <2>1. q = Go(PutField(p), "FieldEnd")
    BY <1>5 DEF KlinesStep
  <2> HIDE DEF q
  <2>2. Opens(toks, k + 1)
    BY <1>1, <1>2, <1>3, <1>5, OpensField, Zenon
  <2>3. k + 1 = 26 * p.rows + 3 + 2 * p.field
    BY <1>2
  <2>4. CASE p.field # 1
    <3>1. /\ q.sc = p.sc /\ q.at = "FieldEnd" /\ q.rows = p.rows /\ q.out = p.out /\ q.field = p.field
          /\ KlinesParser(q)
      <4>1. q = Go(p, "FieldEnd") /\ KlinesParser(p)
        BY <1>1, <2>1, <2>4, Zenon DEF PutField
      <4>2. LET g == Go(p, "FieldEnd")
            IN  /\ KlinesParser(g) /\ g.at = "FieldEnd" /\ g.sc = p.sc
                /\ g.field = p.field /\ g.rows = p.rows /\ g.out = p.out
        BY <4>1, Goes, Zenon
      <4> QED
        BY <4>1, <4>2, Zenon
    <3>2. p.field > 0 <=> p.field > 1
      <4>1. p.field \in 0 .. 11
        BY <1>1
      <4> QED
        BY <2>4, <4>1
    <3>3. Len(q.out) = IF q.field > 0 THEN q.rows + 1 ELSE q.rows
      BY <1>1, <3>1, <3>2
    <3>4. RowsSoFar(toks, k + 1, q)
      BY <1>1, <2>2, <2>3, <3>1, <3>3, Zenon DEF RowsSoFar
    <3> QED
      BY <3>1, <3>4, Zenon DEF Follows, q
  <2>5. CASE p.field = 1
    <3> DEFINE put == Append(SubSeq(p.out, 1, p.rows), Text(p))
    <3>1. /\ q.sc = p.sc /\ q.at = "FieldEnd" /\ q.rows = p.rows /\ q.out = put /\ q.field = 1
          /\ KlinesParser(q)
      BY <1>1, <2>1, <2>5, Writes, Zenon
    <3>2. kind = "string"
      BY <1>5, <2>5 DEF FieldTakes, NumberFields, IgnoredField
    <3>3. k + 1 = 26 * p.rows + 5 /\ Len(p.out) = p.rows
      BY <1>1, <1>2, <2>5
    <3>4. 26 * p.rows + 5 \in 1 .. Len(toks) /\ Text(p) = toks[26 * p.rows + 5].text
      BY <3>2, <3>3, Zenon DEF Text
    <3>4a. OutIs(toks, put) /\ Len(put) = p.rows + 1
      <4>1. OneMorePrice(toks, p.rows, p.out, Text(p))
        BY <1>1, <1>2, <3>3, <3>4, PriceIsPut, Zenon
      <4> QED
        BY <4>1, Zenon DEF OneMorePrice
    <3>5. Len(q.out) = IF q.field > 0 THEN q.rows + 1 ELSE q.rows
      <4> HIDE DEF put
      <4> QED
        BY <3>1, <3>4a
    <3>6. RowsSoFar(toks, k + 1, q)
      BY <1>1, <2>2, <2>3, <2>5, <3>1, <3>4a, <3>5, Zenon DEF RowsSoFar
    <3> QED
      BY <3>1, <3>6, Zenon DEF Follows, q
  <2> QED
    BY <2>4, <2>5
<1> QED
  BY <1>4, <1>5

\* Behind a field.
LEMMA StepFieldEnd ==
    ASSUME NEW toks, Len(toks) \in Nat, NEW k \in Nat, k + 1 \in 1 .. Len(toks),
           NEW p, RowsSoFar(toks, k, p), p.at = "FieldEnd", NEW kind, kind = toks[k + 1].kind
    PROVE  Follows(toks, k + 1, p, KlinesStep(p, kind))
<1>1. /\ KlinesParser(p) /\ p.rows \in 0 .. Capacity /\ OutIs(toks, p.out) /\ p.field \in 0 .. 11
      /\ Opens(toks, k) /\ k = 26 * p.rows + 3 + 2 * p.field /\ p.rows < Capacity
      /\ p.field > 0 => Len(p.out) = p.rows + 1
      /\ ~(p.field > 0) => Len(p.out) = p.rows
  BY DEF RowsSoFar
<1>2. /\ p.rows \in Nat /\ k >= 1 /\ Capacity \in Nat
      /\ k + 1 = 26 * p.rows + 4 + 2 * p.field
      /\ p.field = 11 => k + 1 = 26 * p.rows + 26 /\ k + 1 = 26 * (p.rows + 1)
      /\ k + 1 = 26 * p.rows + 2 + 2 * (p.field + 1)
      /\ p.field # 11 => p.field + 1 \in 0 .. 11 /\ p.field \in 0 .. 10
      /\ p.field > 0 <=> p.field + 1 > 1
      /\ p.rows + 1 \in 0 .. Capacity /\ p.rows + 1 > 0
  <2>1. BehindField(k, p.rows, p.field)
    BY <1>1, FieldGoes, Zenon
  <2> QED
    BY <2>1 DEF BehindField
<1>3. CASE p.field = 11
  <2>1. k + 1 = 26 * p.rows + 26 /\ LastField = p.field /\ ~(p.field < LastField)
    BY <1>2, <1>3 DEF LastField
  <2>2. CASE kind # "]"
    <3>1. KlinesStep(p, kind) = Go(p, "Error")
      BY <2>1, <2>2, FailGoes DEF KlinesStep
    <3>2. NoRows(toks)
      BY <1>1, <1>2, <2>1, <2>2, RefusesClose, Zenon
    <3> QED
      BY <3>1, <3>2, RefusedFollows, Zenon
  <2>3. CASE kind = "]"
    <3> DEFINE q == KlinesStep(p, kind)
    <3>1. q = [p EXCEPT !.rows = @ + 1, !.at = "RowEnd"]
      BY <2>1, <2>3 DEF KlinesStep
    <3> HIDE DEF q
    <3>2. /\ q.sc = p.sc /\ q.at = "RowEnd" /\ q.rows = p.rows + 1 /\ q.out = p.out /\ q.field = p.field
          /\ KlinesParser(q)
      BY <1>1, <3>1, Counts, Zenon
    <3>3. Opens(toks, k + 1)
      BY <1>1, <1>2, <2>1, <2>3, OpensAfter, Zenon
    <3>4. q.rows > 0 /\ k + 1 = 26 * q.rows /\ Len(q.out) = q.rows /\ q.rows \in 0 .. Capacity
      <4>1. p.field > 0
        BY <1>3
      <4> QED
        BY <1>1, <1>2, <1>3, <3>2, <4>1, Zenon
    <3>5. RowsSoFar(toks, k + 1, q)
      BY <1>1, <3>2, <3>3, <3>4, Zenon DEF RowsSoFar
    <3> QED
      BY <3>2, <3>5, Zenon DEF Follows, q
  <2> QED
    BY <2>2, <2>3
<1>4. CASE p.field # 11
  <2>1. p.field \in 0 .. 10 /\ p.field < LastField /\ p.field # LastField
    BY <1>1, <1>4 DEF LastField
  <2>2. CASE kind # ","
    <3>1. KlinesStep(p, kind) = Go(p, "Error")
      BY <2>1, <2>2, FailGoes DEF KlinesStep
    <3>2. NoRows(toks)
      BY <1>1, <1>2, <2>1, <2>2, RefusesComma, Zenon
    <3> QED
      BY <3>1, <3>2, RefusedFollows, Zenon
  <2>3. CASE kind = ","
    <3> DEFINE q == KlinesStep(p, kind)
    <3>1. q = [p EXCEPT !.field = p.field + 1, !.at = "Field"]
      BY <2>1, <2>3 DEF KlinesStep
    <3> HIDE DEF q
    <3>2. /\ q.sc = p.sc /\ q.at = "Field" /\ q.rows = p.rows /\ q.out = p.out /\ q.field = p.field + 1
          /\ KlinesParser(q)
      BY <1>1, <3>1, TurnsTo, ZenonT(60)
    <3>3. Opens(toks, k + 1)
      BY <1>1, <1>2, <2>1, <2>3, OpensComma, Zenon
    <3>4. /\ k + 1 = 26 * q.rows + 2 + 2 * q.field /\ q.field \in 0 .. 11
          /\ p.field > 0 <=> q.field > 1
      BY <1>2, <1>4, <3>2, Zenon
    <3>5. Len(q.out) = IF q.field > 1 THEN q.rows + 1 ELSE q.rows
      BY <1>1, <3>2, <3>4
    <3>6. RowsSoFar(toks, k + 1, q)
      BY <1>1, <3>2, <3>3, <3>4, <3>5, Zenon DEF RowsSoFar
    <3> QED
      BY <3>2, <3>6, Zenon DEF Follows, q
  <2> QED
    BY <2>2, <2>3
<1> QED
  BY <1>3, <1>4

\* Behind a row.
LEMMA StepRowEnd ==
    ASSUME NEW toks, Len(toks) \in Nat, NEW k \in Nat, k + 1 \in 1 .. Len(toks),
           NEW p, RowsSoFar(toks, k, p), p.at = "RowEnd", NEW kind, kind = toks[k + 1].kind
    PROVE  Follows(toks, k + 1, p, KlinesStep(p, kind))
<1>1. /\ KlinesParser(p) /\ p.rows \in 0 .. Capacity /\ OutIs(toks, p.out) /\ p.field \in 0 .. 11
      /\ Opens(toks, k) /\ k = 26 * p.rows /\ p.rows > 0 /\ Len(p.out) = p.rows
  BY DEF RowsSoFar
<1>2. p.rows \in Nat /\ k >= 1 /\ p.rows >= 1 /\ k + 1 = 26 * p.rows + 1
  BY <1>1, RestAssumption
<1>3. CASE kind = "]"
  <2>1. KlinesStep(p, kind) = Go(p, "Done")
    BY <1>3 DEF KlinesStep
  <2> QED
    BY <1>3, <2>1, StepDone, Zenon
<1>4. CASE kind = ","
  <2> DEFINE q == KlinesStep(p, kind)
  <2>1. q = Go(p, "RowOrEnd")
    BY <1>4 DEF KlinesStep
  <2> HIDE DEF q
  <2>2. /\ q.sc = p.sc /\ q.at = "RowOrEnd" /\ q.rows = p.rows /\ q.out = p.out /\ q.field = p.field
        /\ KlinesParser(q)
    BY <1>1, <2>1 DEF KlinesParser, Go
  <2>3. Opens(toks, k + 1)
    BY <1>1, <1>2, <1>4, OpensNext, Zenon
  <2>4. RowsSoFar(toks, k + 1, q)
    BY <1>1, <1>2, <2>2, <2>3, Zenon DEF RowsSoFar
  <2> QED
    BY <2>2, <2>4, Zenon DEF Follows, q
<1>5. CASE kind \notin {",", "]"}
  <2>1. KlinesStep(p, kind) = Go(p, "Error")
    BY <1>5, FailGoes DEF KlinesStep
  <2>2. NoRows(toks)
    BY <1>1, <1>2, <1>5, RefusesEnd, Zenon
  <2> QED
    BY <2>1, <2>2, RefusedFollows, Zenon
<1> QED
  BY <1>3, <1>4, <1>5

\* Any token.
LEMMA StepFollows ==
    ASSUME NEW toks, Readable(toks), NEW k \in Nat, k + 1 \in 1 .. Len(toks),
           NEW p, RowsSoFar(toks, k, p), NEW kind, kind = toks[k + 1].kind,
           kind \in {"string", "number"} => p.sc.scratch = toks[k + 1].text
    PROVE  Follows(toks, k + 1, p, KlinesStep(p, kind))
<1>1. Len(toks) \in Nat /\ DOMAIN toks = 1 .. Len(toks) /\ IsToken(toks[k + 1])
  BY DEF Readable
<1>2. p.at \in {"Start", "RowOrEnd", "Field", "FieldEnd", "RowEnd"}
  BY DEF RowsSoFar
<1> QED
  BY <1>1, <1>2, StepStart, StepRowOrEnd, StepField, StepFieldEnd, StepRowEnd, Zenon

\* No grammar knows a character that starts no token.
LEMMA ForeignFails ==
    ASSUME NEW toks, NEW k, NEW p, RowsSoFar(toks, k, p)
    PROVE  KlinesStep(p, Foreign) = Go(p, "Error")
<1>1. p.at \in {"Start", "RowOrEnd", "Field", "FieldEnd", "RowEnd"}
  BY DEF RowsSoFar
<1>2. ~FieldTakes(p.field, Foreign, Text(p))
  BY DEF FieldTakes, Foreign
<1>3. Foreign \notin {"[", "]", ","}
  BY DEF Foreign
<1>4. CASE p.at = "Start"
  BY <1>3, <1>4, FailGoes DEF KlinesStep
<1>5. CASE p.at = "RowOrEnd"
  BY <1>3, <1>5, FailGoes DEF KlinesStep
<1>6. CASE p.at = "Field"
  BY <1>2, <1>6, FailGoes DEF KlinesStep
<1>7. CASE p.at = "FieldEnd"
  BY <1>3, <1>7, FailGoes DEF KlinesStep
<1>8. CASE p.at = "RowEnd"
  BY <1>3, <1>8, FailGoes DEF KlinesStep
<1> QED
  BY <1>1, <1>4, <1>5, <1>6, <1>7, <1>8

\* Where it stands there are no rows.
LEMMA ForeignRefused ==
    ASSUME NEW toks, Readable(toks), NEW k \in Nat, k + 1 \in 1 .. Len(toks),
           NEW p, RowsSoFar(toks, k, p), toks[k + 1].kind = Foreign
    PROVE  NoRows(toks)
<1>1. Foreign \notin {"string", "number"}
  BY DEF Foreign
<1>2. Follows(toks, k + 1, p, Go(p, "Error"))
  BY <1>1, StepFollows, ForeignFails, Zenon
<1>3. KlinesParser(p)
  BY Zenon DEF RowsSoFar
<1>4. Go(p, "Error").at = "Error"
  BY <1>3, Goes
<1>5. ~RowsSoFar(toks, k + 1, Go(p, "Error")) /\ ~RowsDone(toks, k + 1, Go(p, "Error"))
  BY <1>4 DEF RowsSoFar, RowsDone
<1> QED
  BY <1>2, <1>5, Zenon DEF Follows, RowsRefused

-----------------------------------------------------------------------------
(* One run, a chunk.                                                       *)

\* The parser has read the first m runs of the body.
Consumed(toks, m, p) ==
    \/ \E k : Reading(toks, k, m, p.sc) /\ RowsSoFar(toks, k, p)
    \/ \E k : RowsDone(toks, k, p) /\ Spelled(toks, k) =< m
    \/ RowsRefused(toks, p)

\* q has taken what p has, and its scanner is as given.
ScannedTo(toks, k, sc, q) == RowsSoFar(toks, k, q) /\ q.sc = sc /\ q.format = "klines"

\* Scanning changes nothing of what has been taken.
LEMMA ScansOn ==
    ASSUME NEW toks, NEW k, NEW p, RowsSoFar(toks, k, p), NEW sc
    PROVE  ScannedTo(toks, k, sc, [p EXCEPT !.sc = sc])
<1> DEFINE q == [p EXCEPT !.sc = sc]
<1>1. KlinesParser(p)
  BY Zenon DEF RowsSoFar
<1>2. /\ KlinesParser(q) /\ q.sc = sc /\ q.at = p.at /\ q.field = p.field /\ q.rows = p.rows
      /\ q.out = p.out /\ q.format = "klines"
  BY <1>1 DEF KlinesParser
<1> HIDE DEF q
<1>3. RowsSoFar(toks, k, q)
  BY <1>2, Zenon DEF RowsSoFar
<1>4. ScannedTo(toks, k, sc, q)
  BY <1>2, <1>3, Zenon DEF ScannedTo
<1> QED
  BY <1>4 DEF q

\* It is not over.
LEMMA NotOver ==
    ASSUME NEW toks, NEW k, NEW p, RowsSoFar(toks, k, p)
    PROVE  ~Over(p)
BY DEF RowsSoFar, Over

\* What is over stays so.
LEMMA OverStays ==
    ASSUME NEW toks, Readable(toks), NEW m \in Nat, NEW n \in Nat, m =< n, NEW p, Consumed(toks, m, p), Over(p)
    PROVE  Consumed(toks, n, p)
<1>1. CASE RowsRefused(toks, p)
  BY <1>1, Zenon DEF Consumed
<1>2. CASE \E k : RowsDone(toks, k, p) /\ Spelled(toks, k) =< m
  <2>1. PICK k : RowsDone(toks, k, p) /\ Spelled(toks, k) =< m
    BY <1>2
  <2>2. k \in 0 .. Len(toks)
    BY <2>1 DEF RowsDone
  <2>3. Spelled(toks, k) \in Nat
    BY <2>2, SpellingsGrow DEF Spelled
  <2>4. Spelled(toks, k) =< n
    BY <2>1, <2>3
  <2> QED
    BY <2>1, <2>4, Zenon DEF Consumed
<1> QED
  BY <1>1, <1>2, NotOver, Zenon DEF Consumed

\* It has, and its scanner is as given.
ConsumedBy(toks, m, p, sc) == Consumed(toks, m, p) /\ p.sc = sc

\* A token that the scanner gives back is taken.
LEMMA TokenTaken ==
    ASSUME NEW toks, Readable(toks), NEW k \in Nat, NEW m \in Nat, NEW p, RowsSoFar(toks, k, p),
           NEW kind, kind \notin {"none", "error"}, NEW sc, Gives(toks, k + 1, m, kind, sc)
    PROVE  ConsumedBy(toks, m, TakeToken([p EXCEPT !.sc = sc], kind), sc)
<1> DEFINE s == [p EXCEPT !.sc = sc]
           q == KlinesStep(s, kind)
<1>1. RowsSoFar(toks, k, s) /\ s.sc = sc /\ s.format = "klines"
  <2>1. ScannedTo(toks, k, sc, s)
    BY ScansOn, Zenon
  <2> HIDE DEF s
  <2> QED
    BY <2>1, Zenon DEF ScannedTo
<1> HIDE DEF s
<1>2. TakeToken(s, kind) = q
  BY <1>1 DEF TakeToken
<1> HIDE DEF q
<1>3. /\ k + 1 \in 1 .. Len(toks) /\ kind = toks[k + 1].kind
      /\ kind \in {"string", "number"} => s.sc.scratch = toks[k + 1].text
      /\ Spelled(toks, k + 1) =< m /\ Reading(toks, k + 1, m, sc)
  BY <1>1, Zenon DEF Gives
<1>4. Follows(toks, k + 1, s, q)
  BY <1>1, <1>3, StepFollows, Zenon DEF q
<1>5. Consumed(toks, m, q)
  BY <1>1, <1>3, <1>4, Zenon DEF Follows, Consumed
<1>6. q.sc = sc
  BY <1>1, <1>4, Zenon DEF Follows
<1> QED
  BY <1>2, <1>5, <1>6, Zenon DEF s, ConsumedBy

\* A run behind which no number and no literal ends.
LEMMA RunTaken ==
    ASSUME NEW toks, Readable(toks), NEW k, NEW m \in Nat, NEW p, RowsSoFar(toks, k, p),
           Reading(toks, k, m, p.sc), m < Len(Spell(toks)), p.sc.lex \notin {"InNumber", "InLiteral"}
    PROVE  LET got == ScannerNext(p.sc, Spell(toks)[m + 1])
           IN  Consumed(toks, m + 1, TakeToken([p EXCEPT !.sc = got.sc], got.kind))
<1> DEFINE got == ScannerNext(p.sc, Spell(toks)[m + 1])
           s == [p EXCEPT !.sc = got.sc]
<1>1. \/ got.kind = "none" /\ Reading(toks, k, m + 1, got.sc)
      \/ /\ got.kind = "error" /\ toks[k + 1].kind = Foreign
         /\ k \in Nat /\ k + 1 \in 1 .. Len(toks)
      \/ /\ got.kind \notin {"none", "error"}
         /\ Gives(toks, k + 1, m + 1, got.kind, got.sc)
  BY RunScanned, Zenon
<1> HIDE DEF got
<1>2. RowsSoFar(toks, k, s) /\ s.sc = got.sc
  <2>1. ScannedTo(toks, k, got.sc, s)
    BY ScansOn, Zenon
  <2> HIDE DEF s
  <2> QED
    BY <2>1, Zenon DEF ScannedTo
<1>3. CASE got.kind = "none" /\ Reading(toks, k, m + 1, got.sc)
  <2>1. TakeToken(s, got.kind) = s
    BY <1>3 DEF TakeToken
  <2> HIDE DEF s
  <2>2. Consumed(toks, m + 1, s)
    BY <1>2, <1>3, Zenon DEF Consumed
  <2> QED
    BY <2>1, <2>2 DEF s, got
<1>4. CASE /\ got.kind = "error" /\ toks[k + 1].kind = Foreign
           /\ k \in Nat /\ k + 1 \in 1 .. Len(toks)
  <2>1. TakeToken(s, got.kind) = Go(s, "Error")
    BY <1>4, FailGoes DEF TakeToken
  <2>2. NoRows(toks)
    BY <1>4, ForeignRefused, Zenon
  <2> HIDE DEF s
  <2>3. Follows(toks, k, s, Go(s, "Error")) /\ Go(s, "Error").at = "Error"
    <3>1. KlinesParser(s)
      BY <1>2, Zenon DEF RowsSoFar
    <3>2. Follows(toks, k, s, Go(s, "Error"))
      BY <1>2, <2>2, RefusedFollows, Zenon
    <3> QED
      BY <3>1, <3>2, Goes, ZenonT(60)
  <2>4. ~RowsSoFar(toks, k, Go(s, "Error")) /\ ~RowsDone(toks, k, Go(s, "Error"))
    BY <2>3 DEF RowsSoFar, RowsDone
  <2>5. Consumed(toks, m + 1, Go(s, "Error"))
    BY <2>3, <2>4, Zenon DEF Follows, Consumed
  <2> QED
    BY <2>1, <2>5 DEF s, got
<1>5. CASE /\ got.kind \notin {"none", "error"}
           /\ Gives(toks, k + 1, m + 1, got.kind, got.sc)
  <2>1. k \in Nat
    BY NextRun, Zenon
  <2>2. m + 1 \in Nat
    OBVIOUS
  <2> QED
    BY <1>5, <2>1, <2>2, TokenTaken, Zenon DEF got, ConsumedBy
<1> QED
  BY <1>1, <1>3, <1>4, <1>5

\* Any run of the body.
LEMMA RunConsumed ==
    ASSUME NEW toks, Readable(toks), NEW m \in Nat, m < Len(Spell(toks)), NEW p, Consumed(toks, m, p), ~Over(p)
    PROVE  Consumed(toks, m + 1, FeedRun(p, Spell(toks)[m + 1]))
<1> DEFINE c == Spell(toks)[m + 1]
<1>1. PICK k : Reading(toks, k, m, p.sc) /\ RowsSoFar(toks, k, p)
  BY Zenon DEF Consumed, RowsDone, RowsRefused, Over
<1>2. m + 1 \in Nat /\ m =< m + 1
  OBVIOUS
<1>3. CASE p.sc.lex \in {"InNumber", "InLiteral"}
  <2> DEFINE after == [p.sc EXCEPT !.lex = "Between"]
             q == TakeToken([p EXCEPT !.sc.lex = "Between"], EndedKind(p.sc))
             got == ScannerNext(q.sc, c)
  <2>1. /\ TokenEnds(p.sc, c) /\ EndedKind(p.sc) \notin {"none", "error"}
        /\ Gives(toks, k + 1, m, EndedKind(p.sc), after)
    BY <1>1, <1>3, EndOfToken, Zenon
  <2>2. k \in Nat
    BY <1>1, NextRun, Zenon
  <2>3. q = TakeToken([p EXCEPT !.sc = after], EndedKind(p.sc))
    BY Zenon
  <2>4. Consumed(toks, m, q) /\ q.sc = after
    <3> HIDE DEF q, after
    <3>1. ConsumedBy(toks, m, TakeToken([p EXCEPT !.sc = after], EndedKind(p.sc)), after)
      BY <1>1, <2>1, <2>2, TokenTaken, Zenon
    <3> QED
      BY <2>3, <3>1, Zenon DEF ConsumedBy
  <2>4a. after.lex = "Between"
    BY <1>1 DEF Reading
  <2>5. FeedRun(p, c) = IF Over(q) THEN q ELSE TakeToken([q EXCEPT !.sc = got.sc], got.kind)
    BY <2>1, Zenon DEF FeedRun
  <2> HIDE DEF q
  <2>6. CASE Over(q)
    <3>1. Consumed(toks, m + 1, q)
      BY <1>2, <2>4, <2>6, OverStays, Zenon
    <3> QED
      BY <2>5, <2>6, <3>1
  <2>7. CASE ~Over(q)
    <3>1. PICK j : Reading(toks, j, m, q.sc) /\ RowsSoFar(toks, j, q)
      BY <2>4, <2>7, Zenon DEF Consumed, RowsDone, RowsRefused, Over
    <3>2. q.sc.lex \notin {"InNumber", "InLiteral"}
      BY <2>4, <2>4a
    <3>3. Consumed(toks, m + 1, TakeToken([q EXCEPT !.sc = got.sc], got.kind))
      BY <3>1, <3>2, RunTaken, Zenon
    <3> QED
      BY <2>5, <2>7, <3>3, Zenon
  <2> QED
    BY <2>6, <2>7
<1>4. CASE p.sc.lex \notin {"InNumber", "InLiteral"}
  <2> DEFINE got == ScannerNext(p.sc, c)
  <2>1. ~TokenEnds(p.sc, c) /\ ~Over(p)
    BY <1>4 DEF TokenEnds
  <2>2. FeedRun(p, c) = TakeToken([p EXCEPT !.sc = got.sc], got.kind)
    BY <2>1, Zenon DEF FeedRun
  <2>3. Consumed(toks, m + 1, TakeToken([p EXCEPT !.sc = got.sc], got.kind))
    BY <1>1, <1>4, RunTaken, Zenon
  <2> QED
    BY <2>2, <2>3
<1> QED
  BY <1>3, <1>4

\* What makes F the parsers after each of the first n runs.
FeedsUpto(p, buf, F, n) ==
    F = [i \in 0 .. n |->
            IF i = 0 THEN p
            ELSE LET q == F[i - 1] IN IF Over(q) THEN q ELSE FeedRun(q, buf[i])]

\* One more run.
LEMMA FeedsOneMore ==
    ASSUME NEW p, NEW buf, NEW n \in Nat \ {0}, NEW F, FeedsUpto(p, buf, F, n - 1)
    PROVE  \E G : FeedsUpto(p, buf, G, n)
<1> DEFINE R(q, i) == IF Over(q) THEN q ELSE FeedRun(q, buf[i])
           G == [i \in 0 .. n |-> IF i = n THEN R(F[n - 1], n) ELSE F[i]]
<1>1. ASSUME NEW i \in 0 .. n - 1 PROVE F[i] = IF i = 0 THEN p ELSE R(F[i - 1], i)
  BY Zenon DEF FeedsUpto
<1> HIDE DEF R
<1>2. ASSUME NEW i \in 0 .. n PROVE G[i] = IF i = 0 THEN p ELSE R(G[i - 1], i)
  <2>1. CASE i = n
    BY <2>1
  <2>2. CASE i # n
    <3>1. i \in 0 .. n - 1
      BY <2>2
    <3>2. F[i] = IF i = 0 THEN p ELSE R(F[i - 1], i)
      BY <1>1, <3>1
    <3>3. G[i] = F[i] /\ (i # 0 => G[i - 1] = F[i - 1])
      BY <3>1
    <3> QED
      BY <3>2, <3>3
  <2> QED
    BY <2>1, <2>2
<1>3. G = [i \in 0 .. n |-> IF i = 0 THEN p ELSE R(G[i - 1], i)]
  BY <1>2
<1> HIDE DEF G
<1>4. FeedsUpto(p, buf, G, n)
  BY <1>3, Zenon DEF FeedsUpto, R
<1> QED
  BY <1>4

\* There are parsers after any number of runs.
LEMMA FeedsExist ==
    ASSUME NEW p, NEW buf, NEW n \in Nat
    PROVE  \E F : FeedsUpto(p, buf, F, n)
<1> DEFINE S == {i \in Nat : ~\E F : FeedsUpto(p, buf, F, i)}
<1> SUFFICES ASSUME S # {} PROVE FALSE
  OBVIOUS
<1>1. PICK m \in S : \A i \in S : m =< i
  BY LeastNumber
<1>2. CASE m = 0
  <2>1. FeedsUpto(p, buf, [i \in 0 .. 0 |-> p], 0)
    BY DEF FeedsUpto
  <2> QED
    BY <1>2, <2>1
<1>3. CASE m # 0
  <2>1. m - 1 \in Nat /\ m - 1 \notin S
    BY <1>1, <1>3
  <2>2. PICK F : FeedsUpto(p, buf, F, m - 1)
    BY <2>1
  <2> QED
    BY <1>3, <2>2, FeedsOneMore
<1> QED
  BY <1>2, <1>3

\* Each parser is the one before with one run more.
RunByRun(p, buf, F) ==
    /\ F[0] = p
    /\ \A i \in 1 .. Len(buf) :
          F[i] = IF Over(F[i - 1]) THEN F[i - 1] ELSE FeedRun(F[i - 1], buf[i])

\* What is said of feeding is true.
LEMMA FeedingIs ==
    ASSUME NEW p, NEW buf, Len(buf) \in Nat
    PROVE  RunByRun(p, buf, Feeding(p, buf))
<1> DEFINE F == Feeding(p, buf)
<1>1. \E G : FeedsUpto(p, buf, G, Len(buf))
  BY FeedsExist
<1>2. FeedsUpto(p, buf, F, Len(buf))
  BY <1>1, Zenon DEF Feeding, FeedsUpto
<1> HIDE DEF F
<1>3. ASSUME NEW i \in 0 .. Len(buf)
      PROVE  F[i] = IF i = 0 THEN p ELSE IF Over(F[i - 1]) THEN F[i - 1] ELSE FeedRun(F[i - 1], buf[i])
  BY <1>2, Zenon DEF FeedsUpto
<1>4. 0 \in 0 .. Len(buf)
  OBVIOUS
<1>5. \A i \in 1 .. Len(buf) : i \in 0 .. Len(buf) /\ i # 0
  OBVIOUS
<1>6. F[0] = p
  BY <1>3, <1>4
<1>7. \A i \in 1 .. Len(buf) : F[i] = IF Over(F[i - 1]) THEN F[i - 1] ELSE FeedRun(F[i - 1], buf[i])
  BY <1>3, <1>5, Zenon
<1>8. RunByRun(p, buf, F)
  BY <1>6, <1>7, Zenon DEF RunByRun
<1> QED
  BY <1>8 DEF F

\* A chunk that is the next piece of the body.
LEMMA ChunkConsumed ==
    ASSUME NEW toks, Readable(toks), NEW m \in Nat, NEW n \in Nat, m + n =< Len(Spell(toks)),
           NEW p, Consumed(toks, m, p), NEW buf, Len(buf) = n,
           \A i \in 1 .. n : buf[i] = Spell(toks)[m + i]
    PROVE  Consumed(toks, m + n, Feed(p, buf))
<1> DEFINE F == Feeding(p, buf)
           S == {i \in 0 .. n : ~Consumed(toks, m + i, F[i])}
<1>0. Len(Spell(toks)) \in Nat
  <2>1. Len(toks) \in Nat /\ \A i \in 0 .. Len(toks) : Spellings(toks)[i] \in Seq(RunsOf(toks))
    BY SpellingsGrow
  <2> QED
    BY <2>1 DEF Spell
<1>1a. RunByRun(p, buf, F)
  BY FeedingIs
<1> HIDE DEF F
<1>1. F[0] = p
  BY <1>1a, Zenon DEF RunByRun
<1>2. \A i \in 1 .. n : F[i] = IF Over(F[i - 1]) THEN F[i - 1] ELSE FeedRun(F[i - 1], buf[i])
  BY <1>1a, Zenon DEF RunByRun
<1>3. ASSUME S # {} PROVE FALSE
  <2>0. S \subseteq Nat
    OBVIOUS
  <2>1. PICK x \in S : \A i \in S : x =< i
    BY <1>3, <2>0, LeastNumber, Zenon
  <2>2. x # 0
    <3>1. SUFFICES ASSUME x = 0 PROVE FALSE
      OBVIOUS
    <3>2. m + 0 = m
      OBVIOUS
    <3>3. Consumed(toks, m + 0, F[0])
      BY <1>1, <3>2
    <3> QED
      BY <2>1, <3>1, <3>3, Zenon
  <2>3. x \in 1 .. n /\ x - 1 \in 0 .. n /\ ~(x =< x - 1)
    BY <2>2
  <2>4. Consumed(toks, m + (x - 1), F[x - 1])
    BY <2>1, <2>3, Zenon
  <2> DEFINE y == m + (x - 1)
  <2>5. y \in Nat /\ m + x \in Nat /\ y =< m + x /\ y + 1 = m + x /\ y < Len(Spell(toks))
    BY <1>0, <2>3
  <2>6. buf[x] = Spell(toks)[y + 1]
    BY <2>3, <2>5
  <2>7. F[x] = IF Over(F[x - 1]) THEN F[x - 1] ELSE FeedRun(F[x - 1], Spell(toks)[y + 1])
    BY <1>2, <2>3, <2>6, Zenon
  <2>8. Consumed(toks, y, F[x - 1])
    BY <2>4
  <2> HIDE DEF y
  <2>9. CASE Over(F[x - 1])
    <3>1. Consumed(toks, m + x, F[x - 1])
      BY <2>5, <2>8, <2>9, OverStays, Zenon
    <3> QED
      BY <2>1, <2>7, <2>9, <3>1
  <2>10. CASE ~Over(F[x - 1])
    <3>1. Consumed(toks, y + 1, FeedRun(F[x - 1], Spell(toks)[y + 1]))
      BY <2>5, <2>8, <2>10, RunConsumed, Zenon
    <3> QED
      BY <2>1, <2>5, <2>7, <2>10, <3>1
  <2> QED
    BY <2>9, <2>10
<1>4. n \in 0 .. n
  OBVIOUS
<1>5. Consumed(toks, m + n, F[n])
  BY <1>3, <1>4
<1> QED
  BY <1>5 DEF F, Feed

-----------------------------------------------------------------------------
(* The other two grammars: their parsers never become one of candles.      *)

ObjectPlaces == {"Start", "Key", "Colon", "Value", "Skip", "Next", "Done", "Error"}
SymbolPlaces == {"FirstSymbol", "SetOrEnd", "PermOrEnd", "PermEnd", "SetEnd"}

\* A parser of the symbol or of the ticker grammar.
ObjectParser(p) ==
    /\ DOMAIN p = {"format", "sc", "at", "level", "key", "depth", "saw", "out"}
    /\ \/ p.format = "symbol" /\ p.level \in {"root", "symbol"} /\ p.at \in ObjectPlaces \cup SymbolPlaces
       \/ p.format = "ticker" /\ p.level = "ticker" /\ p.at \in ObjectPlaces

\* A step within the grammar.
Kept(p, q) == DOMAIN q = DOMAIN p /\ q.format = p.format /\ q.level = p.level

\* Any member but the format and the level may change.
LEMMA SetKeeps ==
    ASSUME NEW p, ObjectParser(p), NEW x \in {"sc", "at", "key", "depth", "saw", "out"}, NEW v
    PROVE  /\ Kept(p, [p EXCEPT ![x] = v])
           /\ [p EXCEPT ![x] = v].at = IF x = "at" THEN v ELSE p.at
BY DEF ObjectParser, Kept

\* It stays what it is.
LEMMA KeptIs ==
    ASSUME NEW p, ObjectParser(p), NEW q, Kept(p, q), q.at \in ObjectPlaces \/ q.at = p.at
    PROVE  ObjectParser(q)
BY DEF ObjectParser, Kept

\* It goes to a place of every object.
LEMMA ObjectGoes ==
    ASSUME NEW p, ObjectParser(p), NEW at \in ObjectPlaces
    PROVE  ObjectParser(Go(p, at))
BY SetKeeps, KeptIs DEF Go

\* It goes to a place of its own.
LEMMA SymbolGoes ==
    ASSUME NEW p, ObjectParser(p), p.level # "ticker", NEW at \in ObjectPlaces \cup SymbolPlaces
    PROVE  ObjectParser(Go(p, at))
BY DEF Go, ObjectParser

\* It takes something along.
LEMMA ObjectTakes ==
    ASSUME NEW p, ObjectParser(p), NEW x \in {"sc", "key", "depth", "saw", "out"}, NEW v
    PROVE  ObjectParser([p EXCEPT ![x] = v]) /\ [p EXCEPT ![x] = v].at = p.at
           /\ [p EXCEPT ![x] = v].level = p.level
<1>1. x \in {"sc", "at", "key", "depth", "saw", "out"} /\ x # "at"
  OBVIOUS
<1>2. Kept(p, [p EXCEPT ![x] = v]) /\ [p EXCEPT ![x] = v].at = p.at
  BY <1>1, SetKeeps
<1>3. ObjectParser([p EXCEPT ![x] = v])
  BY <1>2, KeptIs, Zenon
<1> QED
  BY <1>2, <1>3, Zenon DEF Kept

\* Failing.
LEMMA ObjectFails ==
    ASSUME NEW p, ObjectParser(p)
    PROVE  ObjectParser(Fail(p))
BY ObjectGoes, FailGoes DEF ObjectPlaces

\* The object closes.
LEMMA CloseKeeps ==
    ASSUME NEW p, ObjectParser(p)
    PROVE  ObjectParser(CloseObject(p))
<1>1. CloseObject(p) \in {Go(p, "Done"), Fail(p)}
  BY DEF CloseObject
<1> QED
  BY <1>1, ObjectGoes, ObjectFails DEF ObjectPlaces

\* A value is passed over.
LEMMA SkipKeeps ==
    ASSUME NEW p, ObjectParser(p), NEW kind
    PROVE  ObjectParser(SkipValue(p, kind))
<1> DEFINE r == [p EXCEPT !.depth = Deeper(p.depth, kind)]
<1>1. ObjectParser(r)
  BY ObjectTakes
<1>2. SkipValue(p, kind) \in {Go(r, "Next"), Go(r, "Skip")}
  BY DEF SkipValue, Go
<1> HIDE DEF r
<1> QED
  BY <1>1, <1>2, ObjectGoes DEF ObjectPlaces

\* The state of a symbol.
LEMMA StatusKeeps ==
    ASSUME NEW p, ObjectParser(p), NEW kind
    PROVE  ObjectParser(TakeStatus(p, kind))
<1> DEFINE r == [p EXCEPT !.out.trading = Text(p) = <<"TRADING">>]
           s == [r EXCEPT !.saw = @ \cup {"status"}]
<1>1. ObjectParser(r)
  BY ObjectTakes
<1>2. TakeStatus(p, kind) = IF kind # "string" THEN Fail(p) ELSE Go(s, "Next")
  BY Zenon DEF TakeStatus, Go
<1> HIDE DEF r
<1>3. ObjectParser(s)
  BY <1>1, ObjectTakes
<1> HIDE DEF s
<1> QED
  BY <1>2, <1>3, ObjectGoes, ObjectFails DEF ObjectPlaces

\* A price of a ticker.
LEMMA DecimalKeeps ==
    ASSUME NEW p, ObjectParser(p), NEW kind
    PROVE  ObjectParser(TakeDecimal(p, kind))
<1> DEFINE r == [p EXCEPT !.out[p.key[1]] = Text(p)]
           s == [r EXCEPT !.saw = @ \cup {p.key[1]}]
<1>1. ObjectParser(r)
  BY ObjectTakes
<1>2. TakeDecimal(p, kind) = IF kind # "string" \/ ~IsNumeric(Text(p)) THEN Fail(p) ELSE Go(s, "Next")
  BY Zenon DEF TakeDecimal, Go
<1> HIDE DEF r
<1>3. ObjectParser(s)
  BY <1>1, ObjectTakes
<1> HIDE DEF s
<1> QED
  BY <1>2, <1>3, ObjectGoes, ObjectFails DEF ObjectPlaces

\* A value.
LEMMA ValueKeeps ==
    ASSUME NEW p, ObjectParser(p), NEW kind
    PROVE  ObjectParser(TakeValue(p, kind))
<1> DEFINE r == [p EXCEPT !.depth = 0]
<1>1. ObjectParser(SkipValue(r, kind))
  <2>1. ObjectParser(r)
    BY ObjectTakes
  <2> HIDE DEF r
  <2> QED
    BY <2>1, SkipKeeps
<1>2. p.level # "ticker" => ObjectParser(Go(p, "FirstSymbol")) /\ ObjectParser(Go(p, "SetOrEnd"))
  BY SymbolGoes DEF SymbolPlaces
<1>3. ObjectParser(Fail(p)) /\ ObjectParser(TakeStatus(p, kind)) /\ ObjectParser(TakeDecimal(p, kind))
  BY ObjectFails, StatusKeeps, DecimalKeeps
<1>4. \/ TakeValue(p, kind) \in {Fail(p), TakeStatus(p, kind), TakeDecimal(p, kind), SkipValue(r, kind)}
      \/ p.level # "ticker" /\ TakeValue(p, kind) \in {Go(p, "FirstSymbol"), Go(p, "SetOrEnd")}
  BY DEF TakeValue
<1> HIDE DEF r
<1> QED
  BY <1>1, <1>2, <1>3, <1>4

\* A token inside of an object.
LEMMA InObjectKeeps ==
    ASSUME NEW p, ObjectParser(p), p.at \in {"Key", "Colon", "Value", "Skip", "Next"}, NEW kind
    PROVE  ObjectParser(InObject(p, kind))
<1> DEFINE r == [p EXCEPT !.key = Text(p)]
<1>1. ObjectParser(Go(r, "Colon"))
  <2>1. ObjectParser(r)
    BY ObjectTakes
  <2> HIDE DEF r
  <2> QED
    BY <2>1, ObjectGoes DEF ObjectPlaces
<1>2. [p EXCEPT !.key = Text(p), !.at = "Colon"] = Go(r, "Colon")
  BY Zenon DEF Go
<1> HIDE DEF r
<1>3. /\ ObjectParser(CloseObject(p)) /\ ObjectParser(Fail(p)) /\ ObjectParser(TakeValue(p, kind))
      /\ ObjectParser(SkipValue(p, kind)) /\ ObjectParser(Go(p, "Value")) /\ ObjectParser(Go(p, "Key"))
  BY CloseKeeps, ObjectFails, ValueKeeps, SkipKeeps, ObjectGoes DEF ObjectPlaces
<1>4. InObject(p, kind) \in {CloseObject(p), Fail(p), TakeValue(p, kind), SkipValue(p, kind),
                              Go(p, "Value"), Go(p, "Key"), Go(r, "Colon")}
  BY <1>2 DEF InObject
<1> QED
  BY <1>1, <1>3, <1>4

\* A token inside of the permissions.
LEMMA InPermissionsKeeps ==
    ASSUME NEW p, ObjectParser(p), p.at \in {"SetOrEnd", "PermOrEnd", "PermEnd", "SetEnd"}, NEW kind
    PROVE  ObjectParser(InPermissions(p, kind))
<1> DEFINE r == [p EXCEPT !.out.spot = @ \/ Text(p) = <<"SPOT">>]
<1>0. p.level # "ticker"
  BY DEF ObjectParser, ObjectPlaces
<1>1. ObjectParser(Go(r, "PermEnd"))
  <2>1. ObjectParser(r) /\ r.level # "ticker"
    BY <1>0, ObjectTakes
  <2> HIDE DEF r
  <2> QED
    BY <2>1, SymbolGoes DEF SymbolPlaces
<1>2. [p EXCEPT !.out.spot = @ \/ Text(p) = <<"SPOT">>, !.at = "PermEnd"] = Go(r, "PermEnd")
  BY Zenon DEF Go
<1> HIDE DEF r
<1>3. ASSUME NEW at \in {"Next", "PermOrEnd", "SetEnd", "SetOrEnd"} PROVE ObjectParser(Go(p, at))
  BY <1>0, SymbolGoes DEF SymbolPlaces, ObjectPlaces
<1>4. InPermissions(p, kind) \in {Fail(p), Go(r, "PermEnd"), Go(p, "Next"), Go(p, "PermOrEnd"),
                                   Go(p, "SetEnd"), Go(p, "SetOrEnd")}
  BY <1>2 DEF InPermissions
<1> QED
  BY <1>1, <1>3, <1>4, ObjectFails

\* Any token.
LEMMA TokenKeeps ==
    ASSUME NEW p, ObjectParser(p), ~Over(p), NEW kind
    PROVE  ObjectParser(TakeToken(p, kind))
<1>1. ObjectParser(Fail(p)) /\ ObjectParser(Go(p, "Key"))
  BY ObjectFails, ObjectGoes DEF ObjectPlaces
<1>2. CASE kind \in {"none", "error"}
  BY <1>1, <1>2 DEF TakeToken
<1>3. CASE kind \notin {"none", "error"} /\ p.format = "symbol"
  <2>1. TakeToken(p, kind) = SymbolStep(p, kind)
    BY <1>3 DEF TakeToken
  <2>2. CASE p.at = "Start"
    BY <1>1, <2>1, <2>2, Zenon DEF SymbolStep
  <2>3. CASE p.at = "FirstSymbol"
    <3> DEFINE r == [p EXCEPT !.level = "symbol"]
    <3>1. ObjectParser(r)
      BY <1>3 DEF ObjectParser
    <3>2. [p EXCEPT !.level = "symbol", !.at = "Key"] = Go(r, "Key")
      BY Zenon DEF Go
    <3> HIDE DEF r
    <3>3. ObjectParser(Go(r, "Key"))
      BY <3>1, ObjectGoes DEF ObjectPlaces
    <3>4. SymbolStep(p, kind) = IF kind = "{" THEN Go(r, "Key") ELSE Fail(p)
      BY <2>3, <3>2 DEF SymbolStep
    <3> QED
      BY <1>1, <2>1, <3>3, <3>4, Zenon
  <2>4. CASE p.at \in {"SetOrEnd", "PermOrEnd", "PermEnd", "SetEnd"}
    <3>1. SymbolStep(p, kind) = InPermissions(p, kind)
      BY <2>4 DEF SymbolStep
    <3> QED
      BY <2>1, <2>4, <3>1, InPermissionsKeeps, Zenon
  <2>5. CASE p.at \in {"Key", "Colon", "Value", "Skip", "Next"}
    <3>1. SymbolStep(p, kind) = InObject(p, kind)
      BY <2>5 DEF SymbolStep
    <3> QED
      BY <2>1, <2>5, <3>1, InObjectKeeps, Zenon
  <2> QED
    BY <1>3, <2>2, <2>3, <2>4, <2>5 DEF ObjectParser, ObjectPlaces, SymbolPlaces, Over
<1>4. CASE kind \notin {"none", "error"} /\ p.format = "ticker"
  <2>1. TakeToken(p, kind) = TickerStep(p, kind)
    BY <1>4 DEF TakeToken
  <2>2. CASE p.at = "Start"
    BY <1>1, <2>1, <2>2, Zenon DEF TickerStep
  <2>3. CASE p.at \in {"Key", "Colon", "Value", "Skip", "Next"}
    <3>1. TickerStep(p, kind) = InObject(p, kind)
      BY <2>3 DEF TickerStep
    <3> QED
      BY <2>1, <2>3, <3>1, InObjectKeeps, Zenon
  <2> QED
    BY <1>4, <2>2, <2>3 DEF ObjectParser, ObjectPlaces, SymbolPlaces, Over
<1> QED
  BY <1>2, <1>3, <1>4 DEF ObjectParser

\* Any run.
LEMMA RunKeeps ==
    ASSUME NEW p, ObjectParser(p), ~Over(p), NEW c
    PROVE  ObjectParser(FeedRun(p, c))
<1> DEFINE q == IF TokenEnds(p.sc, c)
                THEN TakeToken([p EXCEPT !.sc.lex = "Between"], EndedKind(p.sc)) ELSE p
           got == ScannerNext(q.sc, c)
<1>1. ASSUME NEW r, ObjectParser(r), ~Over(r), NEW sc, NEW kind
      PROVE  ObjectParser(TakeToken([r EXCEPT !.sc = sc], kind))
  <2> DEFINE s == [r EXCEPT !.sc = sc]
  <2>1. ObjectParser(s) /\ s.at = r.at
    BY <1>1, ObjectTakes
  <2> HIDE DEF s
  <2>2. ~Over(s)
    BY <1>1, <2>1 DEF Over
  <2>3. ObjectParser(TakeToken(s, kind))
    BY <2>1, <2>2, TokenKeeps
  <2> QED
    BY <2>3 DEF s
<1>2. ObjectParser(q)
  <2>1. [p EXCEPT !.sc.lex = "Between"] = [p EXCEPT !.sc = [p.sc EXCEPT !.lex = "Between"]]
    BY Zenon
  <2>2. ObjectParser(TakeToken([p EXCEPT !.sc.lex = "Between"], EndedKind(p.sc)))
    BY <1>1, <2>1, Zenon
  <2> QED
    BY <2>2, Zenon
<1>3. FeedRun(p, c) = IF Over(q) THEN q ELSE TakeToken([q EXCEPT !.sc = got.sc], got.kind)
  BY Zenon DEF FeedRun
<1> HIDE DEF q, got
<1> QED
  BY <1>1, <1>2, <1>3, Zenon

\* Any chunk.
LEMMA FeedKeeps ==
    ASSUME NEW p, ObjectParser(p), NEW buf, Len(buf) \in Nat
    PROVE  ObjectParser(Feed(p, buf))
<1> DEFINE F == Feeding(p, buf)
           S == {i \in 0 .. Len(buf) : ~ObjectParser(F[i])}
<1>1. RunByRun(p, buf, F)
  BY FeedingIs
<1> HIDE DEF F
<1>2. F[0] = p
  BY <1>1, Zenon DEF RunByRun
<1>3. \A i \in 1 .. Len(buf) : F[i] = IF Over(F[i - 1]) THEN F[i - 1] ELSE FeedRun(F[i - 1], buf[i])
  BY <1>1, Zenon DEF RunByRun
<1>4. ASSUME S # {} PROVE FALSE
  <2>0. S \subseteq Nat
    OBVIOUS
  <2>1. PICK x \in S : \A i \in S : x =< i
    BY <1>4, <2>0, LeastNumber, Zenon
  <2>2. x # 0
    BY <1>2
  <2>3. x \in 1 .. Len(buf) /\ x - 1 \in 0 .. Len(buf) /\ ~(x =< x - 1)
    BY <2>2
  <2>4. ObjectParser(F[x - 1])
    BY <2>1, <2>3, Zenon
  <2>5. ObjectParser(F[x])
    BY <1>3, <2>3, <2>4, RunKeeps, Zenon
  <2> QED
    BY <2>1, <2>5
<1>5. Len(buf) \in 0 .. Len(buf)
  OBVIOUS
<1>6. ObjectParser(F[Len(buf)])
  BY <1>4, <1>5
<1> QED
  BY <1>6 DEF F, Feed

-----------------------------------------------------------------------------
(* Lists.                                                                  *)

IsList(s) == \E T : s \in Seq(T)

\* An element is added at the end.
LEMMA AddedLast ==
    ASSUME NEW s, IsList(s), NEW x
    PROVE  /\ IsList(Append(s, x)) /\ Len(s) \in Nat /\ Len(Append(s, x)) = Len(s) + 1
           /\ Append(s, x)[Len(s) + 1] = x
           /\ \A i \in 1 .. Len(s) : Append(s, x)[i] = s[i]
<1>1. PICK T : s \in Seq(T)
  BY DEF IsList
<1> DEFINE U == T \cup {x}
<1>2. s \in Seq(U) /\ x \in U
  BY <1>1
<1> HIDE DEF U
<1>3. /\ Append(s, x) \in Seq(U) /\ Len(Append(s, x)) = Len(s) + 1
      /\ Append(s, x)[Len(s) + 1] = x
      /\ \A i \in 1 .. Len(s) : Append(s, x)[i] = s[i]
  BY <1>2
<1>4. Len(s) \in Nat
  BY <1>2, LenProperties, Zenon
<1> QED
  BY <1>3, <1>4, Zenon DEF IsList

\* The empty list.
LEMMA EmptyList == IsList(<<>>) /\ Len(<<>>) = 0
BY DEF IsList

\* Two lists are one.
LEMMA JoinedLists ==
    ASSUME NEW s, NEW t, IsList(s), IsList(t)
    PROVE  IsList(s \o t)
<1>1. PICK S : s \in Seq(S)
  BY DEF IsList
<1>2. PICK T : t \in Seq(T)
  BY DEF IsList
<1> DEFINE U == S \cup T
<1>3. s \in Seq(U) /\ t \in Seq(U)
  BY <1>1, <1>2
<1> HIDE DEF U
<1>4. s \o t \in Seq(U)
  BY <1>3
<1> QED
  BY <1>4, Zenon DEF IsList

\* A body is a list of runs when its tokens are.
LEMMA SpellIsList ==
    ASSUME NEW toks, IsList(toks), \A i \in 1 .. Len(toks) : IsList(toks[i].text)
    PROVE  IsList(Spell(toks))
<1> DEFINE U == Spellings(toks)
<1>1. PICK T : toks \in Seq(T)
  BY DEF IsList
<1>2. Len(toks) \in Nat
  BY <1>1
<1>3. U[0] = <<>> /\ \A i \in 1 .. Len(toks) : U[i] = U[i - 1] \o Spelling(toks[i])
  BY <1>1, SpellingsAre
<1> HIDE DEF U
<1>4. \A i \in 1 .. Len(toks) : IsList(Spelling(toks[i]))
  <2>1. TAKE i \in 1 .. Len(toks)
  <2>2. IsList(toks[i].text)
    OBVIOUS
  <2>3. IsList(<<Quote>>)
    <3>1. <<Quote>> \in Seq({Quote})
      OBVIOUS
    <3> QED
      BY <3>1, Zenon DEF IsList
  <2>4. IsList(<<toks[i].kind>>)
    <3>1. <<toks[i].kind>> \in Seq({toks[i].kind})
      OBVIOUS
    <3> QED
      BY <3>1, Zenon DEF IsList
  <2>5. IsList(<<Quote>> \o toks[i].text \o <<Quote>>)
    BY <2>2, <2>3, JoinedLists, Zenon
  <2> QED
    BY <2>2, <2>4, <2>5, Zenon DEF Spelling
<1> DEFINE S == {i \in 0 .. Len(toks) : ~IsList(U[i])}
<1>5. ASSUME S # {} PROVE FALSE
  <2>0. S \subseteq Nat
    BY <1>2
  <2>1. PICK m \in S : \A i \in S : m =< i
    BY <1>5, <2>0, LeastNumber, Zenon
  <2>2. m # 0
    BY <1>3, EmptyList
  <2>3. m \in 1 .. Len(toks) /\ m - 1 \in 0 .. Len(toks) /\ ~(m =< m - 1)
    BY <1>2, <2>2
  <2>4. IsList(U[m - 1])
    BY <2>1, <2>3, Zenon
  <2>5. IsList(U[m])
    BY <1>3, <1>4, <2>3, <2>4, JoinedLists, Zenon
  <2> QED
    BY <2>1, <2>5
<1>6. Len(toks) \in 0 .. Len(toks)
  BY <1>2
<1>7. IsList(U[Len(toks)])
  BY <1>5, <1>6
<1> QED
  BY <1>7 DEF U, Spell

-----------------------------------------------------------------------------
(* The client.                                                             *)

\* What is asked of the servers: bodies of candles are made of tokens that can
\* be told apart, an error body is its code.
AnswersReadable ==
    \A base \in Regions, kind \in Kinds, name \in Symbols :
       \A a \in Answers(base, Path(kind), name) :
          /\ IsList(a.toks) /\ \A i \in 1 .. Len(a.toks) : IsList(a.toks[i].text)
          /\ a.status = 200 /\ kind \in {"klines", "batch"} => Readable(a.toks)
          /\ a.status # 200 => \E c : a.toks = <<Str(c)>>

IsAnswer(a) ==
    a = [base |-> a.base, status |-> a.status, toks |-> a.toks, fine |-> a.fine,
         taken |-> a.taken, whole |-> a.whole]

\* RowsAreWhole of one result.
RowsOf(r, a) ==
    LET Complete(n) == \E close \in 2 .. Len(a.toks) :
                          RowsUpTo(a.toks, n, close) /\ Spelled(a.toks, close) =< a.taken
    IN  /\ r.err = "OK" => Complete(r.count)
        /\ r.err # "OK" => r.count = 0
        /\ a.whole /\ ~NoRows(a.toks) => r.err = "OK"

\* Its candles are those of its answer.
OwnRows(r, a) ==
    \A row \in 1 .. r.count :
       LET j == 26 * row - 21 IN Kind(a.toks, j) = "string" /\ r.out[row] = a.toks[j].text

\* One result of the call.
ResultOk(c, r, a) ==
    /\ a.base = c.base
    /\ c.kind \in {"klines", "batch"} /\ a.status = 200 => RowsOf(r, a)
    /\ c.kind = "batch" /\ r.err = "OK" => OwnRows(r, a)
    /\ r.err = "SYMBOL_NOT_FOUND" => a.status = 400 /\ (a.whole => a.toks[1] = Str("-1121"))

\* A body of candles that is being read.
CandlesRead(unread, p, a) ==
    /\ Readable(a.toks)
    /\ a.taken \in 0 .. Len(Spell(a.toks))
    /\ Len(unread) = Len(Spell(a.toks)) - a.taken
    /\ \A i \in 1 .. Len(unread) : unread[i] = Spell(a.toks)[a.taken + i]
    /\ Consumed(a.toks, a.taken, p)

\* Where the call is.
CallIs(step) ==
    /\ call = [kind |-> call.kind, names |-> call.names, base |-> call.base, step |-> step]
    /\ call.kind \in Kinds /\ call.base \in Regions
    /\ Len(call.names) \in Nat /\ \A i \in 1 .. Len(call.names) : call.names[i] \in Symbols

\* An answer has come and is looked at.
Answered ==
    /\ Len(asked) = Turn /\ Turn =< Len(call.names) /\ asked[Turn].base = call.base

\* The inductive invariant.
RestInv ==
    /\ region \in Regions
    /\ IsList(results) /\ IsList(asked)
    /\ \A i \in 1 .. Len(asked) : IsAnswer(asked[i])
    /\ \A i \in 1 .. Len(results) : ResultOk(call, results[i], asked[i])
    /\ conn = [handle |-> conn.handle, unread |-> conn.unread]
    /\ IsList(conn.unread)
    /\ \/ call = Idle /\ results = <<>> /\ asked = <<>> /\ ~conn.handle /\ parser = NoParser
       \/ CallIs("Request") /\ Len(asked) = Len(results) /\ Turn =< Len(call.names) /\ parser = NoParser
       \/ CallIs("Return") /\ Len(asked) = Len(results) /\ parser = NoParser
       \/ /\ CallIs("Snippet") /\ Answered /\ parser = NoParser
          /\ asked[Turn].status # 200 /\ \E c : asked[Turn].toks = <<Str(c)>>
       \/ /\ CallIs("Body") /\ Answered /\ asked[Turn].status = 200
          /\ \/ call.kind \in {"klines", "batch"} /\ CandlesRead(conn.unread, parser, asked[Turn])
             \/ call.kind \in {"symbol", "ticker"} /\ ObjectParser(parser)

\* It holds in the initial states.
LEMMA RestInvInit ==
    RestInit => RestInv
<1> SUFFICES ASSUME RestInit PROVE RestInv
  OBVIOUS
<1>1. /\ region \in Regions /\ call = Idle /\ conn = NoConn /\ parser = NoParser
      /\ results = <<>> /\ asked = <<>>
  BY DEF RestInit
<1>2. IsList(results) /\ IsList(asked) /\ Len(results) = 0 /\ Len(asked) = 0
  BY <1>1, EmptyList, Zenon
<1>3. conn = [handle |-> conn.handle, unread |-> conn.unread] /\ conn.handle = FALSE /\ conn.unread = <<>>
  BY <1>1 DEF NoConn
<1>4. (\A i \in 1 .. Len(asked) : IsAnswer(asked[i])) /\ \A i \in 1 .. Len(results) : ResultOk(call, results[i], asked[i])
  BY <1>2
<1> QED
  BY <1>1, <1>2, <1>3, <1>4, EmptyList, Zenon DEF RestInv

\* The results and the answers can be counted.
LEMMA InvSays ==
    ASSUME RestInv
    PROVE  Len(results) \in Nat /\ Len(asked) \in Nat
BY AddedLast, Zenon DEF RestInv

\* The invariant has the first property of the run for its consequence.
LEMMA RestInvRows ==
    RestInv => RowsAreWhole
<1> SUFFICES ASSUME RestInv PROVE RowsAreWhole
  OBVIOUS
<1>1. ASSUME parser.format = "klines" PROVE parser.rows =< Capacity /\ Len(parser.out) =< Capacity
  <2>1. NoParser.format # "klines"
    BY DEF NoParser
  <2>2. ~ObjectParser(parser)
    BY <1>1 DEF ObjectParser
  <2>3. CandlesRead(conn.unread, parser, asked[Turn])
    BY <1>1, <2>1, <2>2, Zenon DEF RestInv
  <2>4. PICK toks, m : Consumed(toks, m, parser)
    BY <2>3, Zenon DEF CandlesRead
  <2>5. parser.rows \in 0 .. Capacity /\ OutIs(toks, parser.out)
    BY <2>4, Zenon DEF Consumed, RowsSoFar, RowsDone, RowsRefused
  <2>6. Len(parser.out) =< Capacity
    BY <2>5, Zenon DEF OutIs
  <2> QED
    BY <2>5, <2>6, RestAssumption
<1>2. ASSUME NEW i \in 1 .. Len(results), call.kind \in {"klines", "batch"}, asked[i].status = 200
      PROVE  RowsOf(results[i], asked[i])
  BY <1>2, Zenon DEF RestInv, ResultOk
<1>3. ASSUME NEW i \in 1 .. Len(results), call.kind \in {"klines", "batch"}, asked[i].status = 200
      PROVE  LET toks == asked[i].toks
                 Complete(n) == \E close \in 2 .. Len(toks) :
                                   RowsUpTo(toks, n, close) /\ Spelled(toks, close) =< asked[i].taken
             IN  /\ results[i].err = "OK" => Complete(results[i].count)
                 /\ results[i].err # "OK" => results[i].count = 0
                 /\ asked[i].whole /\ (\E n \in 0 .. Capacity, close \in 2 .. Len(toks) :
                                         RowsUpTo(toks, n, close)) => results[i].err = "OK"
  <2>1. RowsOf(results[i], asked[i])
    BY <1>2, <1>3
  <2> QED
    BY <2>1, Zenon DEF RowsOf, NoRows
<1> QED
  BY <1>1, <1>3, Zenon DEF RowsAreWhole

\* The second.
LEMMA RestInvOwn ==
    RestInv => ResultsAreTheirOwn
<1> SUFFICES ASSUME RestInv PROVE ResultsAreTheirOwn
  OBVIOUS
<1>1. call = Idle => ~conn.handle
  <2>1. ~CallIs("Request") \/ call # Idle
    BY DEF CallIs, Idle
  <2>2. ~CallIs("Return") \/ call # Idle
    BY DEF CallIs, Idle
  <2>3. ~CallIs("Snippet") \/ call # Idle
    BY DEF CallIs, Idle
  <2>4. ~CallIs("Body") \/ call # Idle
    BY DEF CallIs, Idle
  <2> QED
    BY <2>1, <2>2, <2>3, <2>4, Zenon DEF RestInv
<1>2. ASSUME NEW i \in 1 .. Len(results) PROVE ResultOk(call, results[i], asked[i])
  BY Zenon DEF RestInv
<1>3. Len(results) \in Nat
  BY InvSays
<1>4. \A i \in 1 .. Len(results) : 1 \in 1 .. Len(results)
  BY <1>3
<1>5. \A i \in 1 .. Len(results) : asked[i].base = asked[1].base
  BY <1>2, <1>4, ZenonT(60) DEF ResultOk
<1> QED
  BY <1>1, <1>2, <1>5, Zenon DEF ResultsAreTheirOwn, ResultOk, OwnRows

-----------------------------------------------------------------------------
(* A result is recorded.                                                   *)

\* A place is the last or before it.
LEMMA LastOrBefore ==
    ASSUME NEW n \in Nat, NEW m, m = n \/ m = n + 1
    PROVE  \A i \in 1 .. n + 1 : i = n + 1 \/ (i \in 1 .. n /\ i \in 1 .. m)
OBVIOUS

\* A list of n + 1 elements: those of another and x.
Grown(s, t, n, x) ==
    IsList(t) /\ Len(t) = n + 1 /\ t[n + 1] = x /\ \A i \in 1 .. n : t[i] = s[i]

\* So it is when the element is added.
LEMMA GrownByOne ==
    ASSUME NEW s, IsList(s), NEW x, NEW n, Len(s) = n
    PROVE  Grown(s, Append(s, x), n, x) /\ n \in Nat
<1>1. /\ IsList(Append(s, x)) /\ Len(s) \in Nat /\ Len(Append(s, x)) = Len(s) + 1
      /\ Append(s, x)[Len(s) + 1] = x
      /\ \A i \in 1 .. Len(s) : Append(s, x)[i] = s[i]
  BY AddedLast, ZenonT(60)
<1> QED
  BY <1>1 DEF Grown

\* So it is when the last one is replaced.
LEMMA GrownInPlace ==
    ASSUME NEW s, IsList(s), NEW x, NEW m \in 1 .. Len(s)
    PROVE  \A n \in Nat : Len(s) = n + 1 /\ m = n + 1 => Grown(s, [s EXCEPT ![m] = x], n, x)
<1> DEFINE t == [s EXCEPT ![m] = x]
<1>1. PICK T : s \in Seq(T)
  BY DEF IsList
<1> DEFINE U == T \cup {x}
<1>2. s \in Seq(U) /\ x \in U
  BY <1>1
<1> HIDE DEF U
<1>3. t \in Seq(U) /\ Len(t) = Len(s) /\ \A i \in 1 .. Len(s) : t[i] = IF i = m THEN x ELSE s[i]
  BY <1>2, ExceptSeq
<1> HIDE DEF t
<1>4. IsList(t)
  BY <1>3, Zenon DEF IsList
<1> QED
  BY <1>3, <1>4 DEF Grown, t

\* One more result, and the answer behind it.
LEMMA ResultsGrow ==
    ASSUME NEW c, NEW rs, NEW as, IsList(rs), NEW n, Len(rs) = n, NEW m, Len(as) = m, m \in {n, n + 1},
           \A i \in 1 .. m : IsAnswer(as[i]),
           \A i \in 1 .. n : ResultOk(c, rs[i], as[i]),
           NEW c2, c2.base = c.base, c2.kind = c.kind,
           NEW r, NEW a, IsAnswer(a), ResultOk(c, r, a), NEW as2, Grown(as, as2, n, a)
    PROVE  /\ IsList(Append(rs, r)) /\ IsList(as2) /\ Len(as2) = Len(Append(rs, r))
           /\ \A i \in 1 .. Len(as2) : IsAnswer(as2[i])
           /\ \A i \in 1 .. Len(Append(rs, r)) : ResultOk(c2, Append(rs, r)[i], as2[i])
<1> DEFINE rs2 == Append(rs, r)
<1>1. Grown(rs, rs2, n, r) /\ n \in Nat
  BY GrownByOne
<1> HIDE DEF rs2
<1>2. \A i \in 1 .. n + 1 : i = n + 1 \/ (i \in 1 .. n /\ i \in 1 .. m)
  BY <1>1, LastOrBefore
<1>3. ASSUME NEW i \in 1 .. n + 1 PROVE IsAnswer(as2[i]) /\ ResultOk(c2, rs2[i], as2[i])
  <2>1. i = n + 1 \/ (i \in 1 .. n /\ i \in 1 .. m)
    BY <1>2
  <2>2. IsAnswer(as2[i]) /\ ResultOk(c, rs2[i], as2[i])
    <3>1. CASE i = n + 1
      BY <1>1, <3>1 DEF Grown
    <3>2. CASE i \in 1 .. n /\ i \in 1 .. m
      BY <1>1, <3>2 DEF Grown
    <3> QED
      BY <2>1, <3>1, <3>2
  <2> QED
    BY <2>2, ZenonT(60) DEF ResultOk
<1>4. IsList(rs2) /\ Len(rs2) = n + 1 /\ IsList(as2) /\ Len(as2) = n + 1
  BY <1>1 DEF Grown
<1>5. (\A i \in 1 .. Len(as2) : IsAnswer(as2[i])) /\ \A i \in 1 .. Len(rs2) : ResultOk(c2, rs2[i], as2[i])
  BY <1>3, <1>4
<1> QED
  BY <1>4, <1>5 DEF rs2

\* The result that Record() writes and the answer it leaves.
Result(err) ==
    [err |-> err, count |-> IF err = "OK" /\ parser.format = "klines" THEN parser.rows ELSE 0,
     out |-> IF parser.format = "none" THEN <<>> ELSE parser.out]

NotAnswered == [base |-> call.base, status |-> 0, toks |-> <<>>, fine |-> FALSE, taken |-> 0, whole |-> FALSE]
Taken(taken) == [asked[Turn] EXCEPT !.whole = taken]

\* Who may record: a request that has come to nothing, or what has answered.
MayRecord(err, taken) ==
    \/ /\ CallIs("Request") /\ Len(asked) = Len(results) /\ Turn =< Len(call.names)
       /\ err \notin {"OK", "SYMBOL_NOT_FOUND"}
    \/ /\ CallIs("Snippet") \/ CallIs("Body")
       /\ Answered /\ ResultOk(call, Result(err), Taken(taken))

\* The invariant outlives a result.
LEMMA RecordKeeps ==
    ASSUME RestInv, NEW err, NEW taken, MayRecord(err, taken), Record(err, taken), UNCHANGED region,
           conn' = [handle |-> conn'.handle, unread |-> conn'.unread], IsList(conn'.unread)
    PROVE  RestInv'
<1>0. PICK step : CallIs(step)
  BY Zenon DEF MayRecord
<1>1. call' \in {[call EXCEPT !.step = "Request"], [call EXCEPT !.step = "Return"]}
      /\ (call'.step = "Request" => Turn < Len(call.names))
  <2>1. call' = [call EXCEPT !.step = IF Turn < Len(call.names) THEN "Request" ELSE "Return"]
    BY Zenon DEF Record
  <2> QED
    BY <1>0, <2>1 DEF CallIs
<1>2. /\ call'.base = call.base /\ call'.kind = call.kind /\ call'.names = call.names
      /\ \/ call'.step = "Request" /\ CallIs("Request")' /\ Turn < Len(call.names)
         \/ CallIs("Return")'
  BY <1>0, <1>1 DEF CallIs
<1>3. Len(results) \in Nat
  BY InvSays
<1>4. results' = Append(results, Result(err)) /\ parser' = NoParser
  BY Zenon DEF Record, Result
<1>5. PICK a : IsAnswer(a) /\ ResultOk(call, Result(err), a) /\ Grown(asked, asked', Len(results), a)
  <2>1. CASE CallIs("Request") /\ Len(asked) = Len(results) /\ err \notin {"OK", "SYMBOL_NOT_FOUND"}
    <3>1. Len(asked) < Turn
      BY <1>3, <2>1 DEF Turn
    <3>2. asked' = Append(asked, NotAnswered)
      BY <3>1, Zenon DEF Record, NotAnswered
    <3>3. IsAnswer(NotAnswered) /\ NotAnswered.base = call.base /\ NotAnswered.status # 200
      BY DEF IsAnswer, NotAnswered
    <3>4. Result(err).err = err
      BY DEF Result
    <3>5. ResultOk(call, Result(err), NotAnswered)
      BY <2>1, <3>3, <3>4, Zenon DEF ResultOk
    <3>6. Grown(asked, asked', Len(results), NotAnswered)
      BY <2>1, <3>2, GrownByOne DEF RestInv
    <3> QED
      BY <3>3, <3>5, <3>6, Zenon
  <2>2. CASE Answered /\ ResultOk(call, Result(err), Taken(taken))
    <3>1. ~(Len(asked) < Turn) /\ Len(asked) = Len(results) + 1 /\ Turn = Len(results) + 1 /\ Turn \in 1 .. Len(asked)
      BY <1>3, <2>2 DEF Turn, Answered
    <3>2. asked' = [asked EXCEPT ![Turn] = Taken(taken)]
      BY <3>1, Zenon DEF Record, Taken
    <3>3. IsAnswer(asked[Turn])
      BY <3>1, Zenon DEF RestInv
    <3>4. IsAnswer(Taken(taken))
      BY <3>3 DEF IsAnswer, Taken
    <3>5. Grown(asked, asked', Len(results), Taken(taken))
      BY <1>3, <3>1, <3>2, GrownInPlace DEF RestInv
    <3> QED
      BY <2>2, <3>4, <3>5, Zenon
  <2> QED
    BY <2>1, <2>2, Zenon DEF MayRecord
<1>6. /\ IsList(results) /\ \A i \in 1 .. Len(asked) : IsAnswer(asked[i])
      /\ \A i \in 1 .. Len(results) : ResultOk(call, results[i], asked[i])
  BY Zenon DEF RestInv
<1>7. /\ IsList(results') /\ IsList(asked') /\ Len(asked') = Len(results')
      /\ \A i \in 1 .. Len(asked') : IsAnswer(asked'[i])
      /\ \A i \in 1 .. Len(results') : ResultOk(call', results'[i], asked'[i])
  <2>1. Len(asked) \in {Len(results), Len(results) + 1}
    BY DEF MayRecord, Answered, Turn
  <2> DEFINE rs2 == Append(results, Result(err))
  <2>2. /\ IsList(rs2) /\ IsList(asked') /\ Len(asked') = Len(rs2)
        /\ \A i \in 1 .. Len(asked') : IsAnswer(asked'[i])
        /\ \A i \in 1 .. Len(rs2) : ResultOk(call', rs2[i], asked'[i])
    BY <1>2, <1>5, <1>6, <2>1, ResultsGrow
  <2> QED
    BY <1>4, <2>2, Zenon
<1>8. CallIs("Request")' /\ Turn < Len(call.names) => Turn' =< Len(call'.names)
  <2>1. Len(results') = Len(results) + 1
    BY <1>4, <1>6, AddedLast, Zenon
  <2>2. Len(call.names) \in Nat
    BY <1>0, Zenon DEF CallIs
  <2> QED
    BY <1>2, <1>3, <2>1, <2>2 DEF Turn
<1>9. \A c, r, ans : ResultOk(c, r, ans)' <=> ResultOk(c, r, ans)
  OBVIOUS
<1>10. region' \in Regions
  BY Zenon DEF RestInv
<1> QED
  BY <1>2, <1>4, <1>7, <1>8, <1>10, Zenon DEF RestInv

-----------------------------------------------------------------------------
(* The steps that come before an answer.                                   *)

\* A connection whose answer is thrown away.
LEMMA ClosedConn ==
    ASSUME RestInv
    PROVE  /\ CloseTransport(conn) = [handle |-> conn.handle, unread |-> <<>>]
           /\ IsList(<<>>)
<1>1. conn = [handle |-> conn.handle, unread |-> conn.unread]
  BY Zenon DEF RestInv
<1> QED
  BY <1>1, EmptyList DEF CloseTransport

\* What a server may say to the request of the call.
LEMMA AnswerSays ==
    ASSUME AnswersReadable, RestInv, NEW step, CallIs(step), Turn =< Len(call.names),
           NEW a \in Answers(call.base, Path(call.kind), Name)
    PROVE  /\ IsList(Spell(a.toks)) /\ IsList(<<>> \o Spell(a.toks)) /\ <<>> \o Spell(a.toks) = Spell(a.toks)
           /\ a.status = 200 /\ call.kind \in {"klines", "batch"} => Readable(a.toks)
           /\ a.status # 200 => \E c : a.toks = <<Str(c)>>
<1>1. Turn \in 1 .. Len(call.names)
  BY InvSays DEF Turn, CallIs
<1>2. call.base \in Regions /\ call.kind \in Kinds /\ Name \in Symbols
  BY <1>1, Zenon DEF CallIs, Name
<1>3. /\ IsList(a.toks) /\ \A i \in 1 .. Len(a.toks) : IsList(a.toks[i].text)
      /\ a.status = 200 /\ call.kind \in {"klines", "batch"} => Readable(a.toks)
      /\ a.status # 200 => \E c : a.toks = <<Str(c)>>
  BY <1>2, Zenon DEF AnswersReadable
<1>4. IsList(Spell(a.toks))
  BY <1>3, SpellIsList
<1>5. <<>> \o Spell(a.toks) = Spell(a.toks)
  <2>1. PICK T : Spell(a.toks) \in Seq(T)
    BY <1>4 DEF IsList
  <2> QED
    BY <2>1
<1> QED
  BY <1>3, <1>4, <1>5

\* Where a request is sent.
LEMMA RequestIs ==
    ASSUME RestInv, call.step = "Request"
    PROVE  CallIs("Request") /\ Len(asked) = Len(results) /\ Turn =< Len(call.names) /\ parser = NoParser
<1>1. ~CallIs("Return") /\ ~CallIs("Snippet") /\ ~CallIs("Body") /\ call # Idle
  BY DEF CallIs, Idle
<1> QED
  BY <1>1, Zenon DEF RestInv

\* Call(kind).
LEMMA StepCall ==
    ASSUME RestInv, NEW kind, Call(kind)
    PROVE  RestInv'
<1>1. call = Idle /\ results = <<>> /\ asked = <<>> /\ parser = NoParser
  <2>1. call = Idle
    BY DEF Call
  <2>2. ~CallIs("Request") /\ ~CallIs("Return") /\ ~CallIs("Snippet") /\ ~CallIs("Body")
    BY <2>1 DEF CallIs, Idle
  <2> QED
    BY <2>1, <2>2, Zenon DEF RestInv
<1>2. kind \in Kinds /\ UNCHANGED <<region, conn, parser, results, asked>>
  BY DEF Call
<1>0. PICK n \in 1 .. (IF kind = "batch" THEN BatchMax ELSE 1) :
         \E names \in [1 .. n -> Symbols] :
            call' = [kind |-> kind, names |-> names, base |-> region, step |-> "Request"]
  BY Zenon DEF Call
<1>3. PICK names \in [1 .. n -> Symbols] :
         call' = [kind |-> kind, names |-> names, base |-> region, step |-> "Request"]
  BY <1>0, Zenon
<1>4. n \in Nat /\ n >= 1
  BY RestAssumption
<1>5. Len(names) = n /\ \A i \in 1 .. Len(names) : names[i] \in Symbols
  <2>1. names \in Seq(Symbols)
    BY <1>4
  <2> QED
    BY <1>4, <2>1
<1>6. region \in Regions
  BY Zenon DEF RestInv
<1>7. CallIs("Request")'
  BY <1>2, <1>3, <1>4, <1>5, <1>6 DEF CallIs
<1>8. Len(results) = 0 /\ Len(asked) = 0
  BY <1>1, EmptyList, Zenon
<1>9. Turn' =< Len(call'.names)
  BY <1>2, <1>3, <1>4, <1>5, <1>8 DEF Turn
<1>10. \A i \in 1 .. Len(results') : ResultOk(call', results'[i], asked'[i])
  BY <1>2, <1>8
<1>11. /\ region' \in Regions /\ IsList(results') /\ IsList(asked')
       /\ \A i \in 1 .. Len(asked') : IsAnswer(asked'[i])
       /\ conn' = [handle |-> conn'.handle, unread |-> conn'.unread]
       /\ IsList(conn'.unread) /\ Len(asked') = Len(results') /\ parser' = NoParser
  BY <1>1, <1>2, <1>8, Zenon DEF RestInv
<1> QED
  BY <1>7, <1>9, <1>10, <1>11, Zenon DEF RestInv

\* Refuse.
LEMMA StepRefuse ==
    ASSUME RestInv, Refuse
    PROVE  RestInv'
<1>1. CallIs("Request") /\ Len(asked) = Len(results) /\ Turn =< Len(call.names)
  BY RequestIs DEF Refuse
<1>2. Record("INVALID_ARG", FALSE) /\ UNCHANGED <<region, conn>>
  BY DEF Refuse
<1>3. MayRecord("INVALID_ARG", FALSE)
  BY <1>1 DEF MayRecord
<1>4. conn' = [handle |-> conn'.handle, unread |-> conn'.unread] /\ IsList(conn'.unread)
  BY <1>2, Zenon DEF RestInv
<1> QED
  BY <1>2, <1>3, <1>4, RecordKeeps

\* OpenFails.
LEMMA StepOpenFails ==
    ASSUME RestInv, OpenFails
    PROVE  RestInv'
<1>1. CallIs("Request") /\ Len(asked) = Len(results) /\ Turn =< Len(call.names)
  BY RequestIs DEF OpenFails
<1>2. PICK err \in {"NO_MEM", "NETWORK", "TIMEOUT"} : Record(err, FALSE)
  BY Zenon DEF OpenFails
<1>3. UNCHANGED <<region, conn>>
  BY DEF OpenFails
<1>4. MayRecord(err, FALSE)
  BY <1>1 DEF MayRecord
<1>5. conn' = [handle |-> conn'.handle, unread |-> conn'.unread] /\ IsList(conn'.unread)
  BY <1>3, Zenon DEF RestInv
<1> QED
  BY <1>2, <1>3, <1>4, <1>5, RecordKeeps

\* NextFails.
LEMMA StepNextFails ==
    ASSUME AnswersReadable, RestInv, NextFails
    PROVE  RestInv'
<1>1. CallIs("Request") /\ Len(asked) = Len(results) /\ Turn =< Len(call.names)
  BY RequestIs DEF NextFails
<1>2. UNCHANGED region
  BY DEF NextFails
<1> DEFINE closed == CloseTransport(conn)
<1>3. closed = [handle |-> conn.handle, unread |-> <<>>] /\ IsList(<<>>)
  BY ClosedConn
<1>4. \E err \in {"INVALID_ARG", "NETWORK", "TIMEOUT"} : Record(err, FALSE)
  BY Zenon DEF NextFails
<1>5. PICK err \in {"INVALID_ARG", "NETWORK", "TIMEOUT"} : Record(err, FALSE)
  BY <1>4
<1>6. MayRecord(err, FALSE)
  BY <1>1 DEF MayRecord
<1>7. conn' = [handle |-> conn'.handle, unread |-> conn'.unread] /\ IsList(conn'.unread)
  <2>1. CASE conn' = closed
    BY <1>3, <2>1
  <2>2. CASE \E a \in Answers(call.base, Path(call.kind), Name) :
                conn' = [closed EXCEPT !.unread = @ \o Spell(a.toks)]
    <3>1. PICK a \in Answers(call.base, Path(call.kind), Name) :
                conn' = [closed EXCEPT !.unread = @ \o Spell(a.toks)]
      BY <2>2
    <3>2. IsList(<<>> \o Spell(a.toks))
      BY <1>1, AnswerSays
    <3> HIDE DEF closed
    <3>3. conn' = [handle |-> conn.handle, unread |-> <<>> \o Spell(a.toks)]
      BY <1>3, <3>1
    <3> QED
      BY <3>2, <3>3, Zenon
  <2> QED
    BY <2>1, <2>2, Zenon DEF NextFails
<1> QED
  BY <1>2, <1>5, <1>6, <1>7, RecordKeeps

-----------------------------------------------------------------------------
(* The steps of a body.                                                    *)

\* The start of a body of candles.
LEMMA CandlesStart ==
    ASSUME NEW toks, Readable(toks)
    PROVE  Consumed(toks, 0, KlinesParserInit(Capacity)) /\ Len(Spell(toks)) \in Nat
<1> DEFINE p == KlinesParserInit(Capacity)
<1>1. PICK T : toks \in Seq(T)
  BY DEF Readable
<1>2. Len(toks) \in Nat
  BY <1>1
<1>3. Spelled(toks, 0) = 0
  <2>1. Spellings(toks)[0] = <<>>
    BY <1>1, SpellingsAre, Zenon
  <2> QED
    BY <2>1, EmptyList, Zenon DEF Spelled
<1>4. p.sc = [lex |-> "Between", scratch |-> <<>>]
  BY DEF KlinesParserInit, ScannerInit
<1>5. Reading(toks, 0, 0, p.sc)
  BY <1>2, <1>3, <1>4 DEF Reading
<1>6. Opens(toks, 0)
  <2>1. ASSUME NEW r \in Nat
        PROVE  /\ ~(26 * r + 1 =< 0) /\ ~(26 * r + 2 =< 0) /\ ~(26 * r + 26 =< 0)
               /\ \A f \in 0 .. 11 : ~(26 * r + 3 + 2 * f =< 0)
               /\ \A f \in 0 .. 10 : ~(26 * r + 4 + 2 * f =< 0)
    BY <2>1
  <2>2. ~(0 >= 1)
    OBVIOUS
  <2> QED
    BY <2>1, <2>2, Zenon DEF Opens
<1>7. OutIs(toks, <<>>)
  BY RestAssumption DEF OutIs
<1>8. p.out = <<>> /\ p.at = "Start" /\ p.rows = 0 /\ p.field = 0 /\ KlinesParser(p)
  BY DEF KlinesParserInit, KlinesParser
<1>9. 0 \in 0 .. Capacity /\ 0 \in 0 .. 11 /\ Len(<<>>) = 0
  BY RestAssumption
<1>10. RowsSoFar(toks, 0, p)
  <2> HIDE DEF p
  <2> QED
    BY <1>6, <1>7, <1>8, <1>9 DEF RowsSoFar
<1>11. Len(Spell(toks)) \in Nat
  BY <1>2, SpellingsGrow DEF Spell
<1> QED
  BY <1>5, <1>10, <1>11, Zenon DEF Consumed

\* HttpAnswers.
LEMMA StepHttpAnswers ==
    ASSUME AnswersReadable, RestInv, HttpAnswers
    PROVE  RestInv'
<1>1. CallIs("Request") /\ Len(asked) = Len(results) /\ Turn =< Len(call.names) /\ parser = NoParser
  BY RequestIs DEF HttpAnswers
<1>2. UNCHANGED <<region, results>>
  BY DEF HttpAnswers
<1> DEFINE new(a) == [base |-> call.base, status |-> a.status, toks |-> a.toks,
                      fine |-> a.fine, taken |-> 0, whole |-> FALSE]
<1>3. PICK a \in Answers(call.base, Path(call.kind), Name) :
         /\ conn' = [handle |-> TRUE, unread |-> CloseTransport(conn).unread \o Spell(a.toks)]
         /\ asked' = Append(asked, new(a))
         /\ IF a.status = 200
            THEN /\ parser' = ParserInit
                 /\ call' = [call EXCEPT !.step = "Body"]
            ELSE /\ call' = [call EXCEPT !.step = "Snippet"]
                 /\ UNCHANGED parser
  BY Zenon DEF HttpAnswers
<1>4. /\ IsList(Spell(a.toks)) /\ <<>> \o Spell(a.toks) = Spell(a.toks)
      /\ a.status = 200 /\ call.kind \in {"klines", "batch"} => Readable(a.toks)
      /\ a.status # 200 => \E c : a.toks = <<Str(c)>>
  BY <1>1, AnswerSays
<1>5. conn' = [handle |-> TRUE, unread |-> Spell(a.toks)]
  <2>1. CloseTransport(conn).unread = <<>>
    BY ClosedConn
  <2> QED
    BY <1>3, <1>4, <2>1, Zenon
<1>6. conn' = [handle |-> conn'.handle, unread |-> conn'.unread] /\ IsList(conn'.unread) /\ conn'.unread = Spell(a.toks)
  BY <1>4, <1>5
<1> DEFINE b == new(a)
<1>7. /\ IsAnswer(b) /\ b.base = call.base /\ b.status = a.status /\ b.toks = a.toks /\ b.taken = 0
  BY DEF IsAnswer
<1>70. asked' = Append(asked, b)
  BY <1>3, Zenon
<1> HIDE DEF b
<1>8. Grown(asked, asked', Len(results), b) /\ Len(results) \in Nat
  BY <1>1, <1>70, GrownByOne DEF RestInv
<1>9. /\ IsList(asked') /\ Len(asked') = Turn /\ asked'[Turn] = b
      /\ \A i \in 1 .. Len(results) : asked'[i] = asked[i]
  BY <1>8 DEF Grown, Turn
<1>10. Turn' = Turn /\ Turn = Len(results) + 1
  BY <1>2 DEF Turn
<1>11. \A i \in 1 .. Len(asked') : IsAnswer(asked'[i])
  <2>1. \A i \in 1 .. Len(results) + 1 : i = Len(results) + 1 \/ (i \in 1 .. Len(results) /\ i \in 1 .. Len(results))
    BY <1>8, LastOrBefore
  <2>2. \A i \in 1 .. Len(results) : IsAnswer(asked'[i])
    BY <1>1, <1>9, Zenon DEF RestInv
  <2> QED
    BY <1>7, <1>9, <1>10, <2>1, <2>2, Zenon
<1>12. call'.kind = call.kind /\ call'.base = call.base /\ call'.names = call.names
       /\ IF a.status = 200 THEN CallIs("Body")' ELSE CallIs("Snippet")'
  BY <1>1, <1>3 DEF CallIs
<1>13. \A i \in 1 .. Len(results') : ResultOk(call', results'[i], asked'[i])
  <2>1. ASSUME NEW i \in 1 .. Len(results) PROVE ResultOk(call', results[i], asked'[i])
    <3>1. ResultOk(call, results[i], asked[i]) /\ asked'[i] = asked[i]
      BY <1>9, Zenon DEF RestInv
    <3>2. ResultOk(call, results[i], asked'[i])
      BY <3>1
    <3> HIDE <3>1
    <3> QED
      BY <1>12, <3>2 DEF ResultOk
  <2> QED
    BY <1>2, <2>1, Zenon
<1>14. Answered'
  BY <1>1, <1>7, <1>9, <1>10, <1>12 DEF Answered
<1>15. region' \in Regions /\ IsList(results')
  BY <1>2, Zenon DEF RestInv
<1>16. CASE a.status = 200
  <2>1. parser' = ParserInit
    BY <1>3, <1>16
  <2>2. call.kind \in {"klines", "batch"} \/ call.kind \in {"symbol", "ticker"}
    BY <1>1, RestAssumption DEF CallIs
  <2>3. CASE call.kind \in {"klines", "batch"}
    <3>1. parser' = KlinesParserInit(Capacity)
      BY <2>1, <2>3 DEF ParserInit
    <3>2. Readable(a.toks)
      BY <1>4, <1>16, <2>3
    <3>3. Consumed(a.toks, 0, parser') /\ Len(Spell(a.toks)) \in Nat
      BY <3>1, <3>2, CandlesStart
    <3>4. CandlesRead(conn'.unread, parser', b)
      BY <1>6, <1>7, <3>2, <3>3 DEF CandlesRead
    <3>5. CandlesRead(conn.unread, parser, asked[Turn])'
      BY <1>9, <1>10, <3>4
    <3> QED
      BY <1>6, <1>7, <1>9, <1>10, <1>11, <1>12, <1>13, <1>14, <1>15, <1>16, <2>3, <3>5, ZenonT(60) DEF RestInv
  <2>4. CASE call.kind \in {"symbol", "ticker"}
    <3>1. parser' \in {SymbolParserInit, TickerParserInit}
      BY <2>1, <2>4 DEF ParserInit
    <3>2. ObjectParser(parser')
      BY <3>1 DEF ObjectParser, SymbolParserInit, TickerParserInit, ObjectPlaces
    <3> QED
      BY <1>6, <1>7, <1>9, <1>10, <1>11, <1>12, <1>13, <1>14, <1>15, <1>16, <2>4, <3>2, Zenon DEF RestInv
  <2> QED
    BY <2>2, <2>3, <2>4
<1>17. CASE a.status # 200
  <2>1. parser' = NoParser
    BY <1>1, <1>3, <1>17
  <2>2. \E c : a.toks = <<Str(c)>>
    BY <1>4, <1>17
  <2>3. asked'[Turn'].status # 200 /\ \E c : asked'[Turn'].toks = <<Str(c)>>
    BY <1>7, <1>9, <1>10, <1>17, <2>2
  <2>4. CallIs("Snippet")'
    BY <1>12, <1>17
  <2> QED
    BY <1>6, <1>9, <1>11, <1>13, <1>14, <1>15, <2>1, <2>3, <2>4, Zenon DEF RestInv
<1> QED
  BY <1>16, <1>17

\* ReadFails.
LEMMA StepReadFails ==
    ASSUME RestInv, ReadFails
    PROVE  RestInv'
<1>1. CallIs("Body") /\ Answered
  <2>1. ~CallIs("Request") /\ ~CallIs("Return") /\ ~CallIs("Snippet") /\ call # Idle
    BY DEF ReadFails, CallIs, Idle
  <2> QED
    BY <2>1, Zenon DEF RestInv
<1>2. PICK err \in {"NETWORK", "TIMEOUT"} : Record(err, FALSE)
  BY Zenon DEF ReadFails
<1>3. UNCHANGED <<region, conn>>
  BY DEF ReadFails
<1>4. conn' = [handle |-> conn'.handle, unread |-> conn'.unread] /\ IsList(conn'.unread)
  BY <1>3, Zenon DEF RestInv
<1>5. IsAnswer(asked[Turn]) /\ asked[Turn].base = call.base
  <2>1. Turn \in 1 .. Len(asked)
    BY <1>1, InvSays DEF Answered, Turn
  <2> QED
    BY <1>1, <2>1, Zenon DEF RestInv, Answered
<1>6. Taken(FALSE).base = call.base /\ Taken(FALSE).whole = FALSE
  BY <1>5 DEF Taken, IsAnswer
<1>7. Result(err).err = err /\ err # "OK" /\ err # "SYMBOL_NOT_FOUND" /\ Result(err).count = 0
  BY DEF Result
<1>8. RowsOf(Result(err), Taken(FALSE))
  BY <1>6, <1>7 DEF RowsOf
<1>9. ResultOk(call, Result(err), Taken(FALSE))
  BY <1>6, <1>7, <1>8, Zenon DEF ResultOk
<1>10. MayRecord(err, FALSE)
  BY <1>1, <1>9, Zenon DEF MayRecord
<1> QED
  BY <1>2, <1>3, <1>4, <1>10, RecordKeeps

\* TakeSnippet.
LEMMA StepTakeSnippet ==
    ASSUME RestInv, TakeSnippet
    PROVE  RestInv'
<1>1. /\ CallIs("Snippet") /\ Answered /\ asked[Turn].status # 200
      /\ \E c : asked[Turn].toks = <<Str(c)>>
  <2>1. ~CallIs("Request") /\ ~CallIs("Return") /\ ~CallIs("Body") /\ call # Idle
    BY DEF TakeSnippet, CallIs, Idle
  <2> QED
    BY <2>1, Zenon DEF RestInv
<1>2. PICK read \in BOOLEAN, body \in {asked[Turn].toks[1].text[1]} \cup Leftover :
          /\ read => body = asked[Turn].toks[1].text[1]
          /\ conn' = IF read THEN [conn EXCEPT !.unread = <<>>] ELSE conn
          /\ Record(IF asked[Turn].status = 400 /\ body = "-1121" THEN "SYMBOL_NOT_FOUND"
                    ELSE GenericError(asked[Turn].status), read)
  BY DEF TakeSnippet
<1> DEFINE err == IF asked[Turn].status = 400 /\ body = "-1121" THEN "SYMBOL_NOT_FOUND"
                  ELSE GenericError(asked[Turn].status)
<1>3. /\ Record(err, read) /\ region' = region
      /\ conn' = [handle |-> conn'.handle, unread |-> conn'.unread] /\ IsList(conn'.unread)
  <2>1. conn = [handle |-> conn.handle, unread |-> conn.unread] /\ IsList(conn.unread)
    BY Zenon DEF RestInv
  <2>2. conn' = [handle |-> conn'.handle, unread |-> conn'.unread] /\ IsList(conn'.unread)
    BY <1>2, <2>1, EmptyList
  <2>3. region' = region
    BY DEF TakeSnippet
  <2> QED
    BY <1>2, <2>2, <2>3, Zenon
<1>4. IsAnswer(asked[Turn]) /\ asked[Turn].base = call.base
  <2>1. Turn \in 1 .. Len(asked)
    BY <1>1, InvSays DEF Answered, Turn
  <2> QED
    BY <1>1, <2>1, Zenon DEF RestInv, Answered
<1>5. /\ Taken(read).base = call.base /\ Taken(read).status = asked[Turn].status
      /\ Taken(read).toks = asked[Turn].toks /\ Taken(read).whole = read
  BY <1>4 DEF Taken, IsAnswer
<1>6. PICK c : asked[Turn].toks = <<Str(c)>>
  BY <1>1
<1>7. asked[Turn].toks[1] = Str(c) /\ asked[Turn].toks[1].text[1] = c
  BY <1>6 DEF Str
<1>8. err # "OK" /\ (err = "SYMBOL_NOT_FOUND" => asked[Turn].status = 400 /\ body = "-1121")
  BY DEF GenericError
<1>9. Result(err).err = err
  BY DEF Result
<1>10. err = "SYMBOL_NOT_FOUND" =>
          asked[Turn].status = 400 /\ (read => asked[Turn].toks[1] = Str("-1121"))
  BY <1>2, <1>7, <1>8
<1> HIDE DEF err
<1>11. ResultOk(call, Result(err), Taken(read))
  <2> DEFINE r == Result(err)
             b == Taken(read)
  <2>1. b.base = call.base /\ b.status # 200 /\ r.err # "OK"
    BY <1>1, <1>5, <1>8, <1>9
  <2>2. r.err = "SYMBOL_NOT_FOUND" => b.status = 400 /\ (b.whole => b.toks[1] = Str("-1121"))
    BY <1>5, <1>9, <1>10
  <2> HIDE DEF r, b
  <2>3. ResultOk(call, r, b)
    BY <2>1, <2>2, Zenon DEF ResultOk
  <2> QED
    BY <2>3 DEF r, b
<1>12. MayRecord(err, read)
  BY <1>1, <1>11, Zenon DEF MayRecord
<1> QED
  BY <1>3, <1>12, RecordKeeps

\* Return.
LEMMA StepReturn ==
    ASSUME RestInv, Return
    PROVE  RestInv'
<1>1. /\ conn' = NoConn /\ call' = Idle /\ results' = <<>> /\ asked' = <<>>
      /\ UNCHANGED <<region, parser>>
  BY DEF Return
<1>2. parser' = NoParser /\ region' \in Regions
  <2>1. ~CallIs("Request") /\ ~CallIs("Body") /\ ~CallIs("Snippet") /\ call # Idle
    BY DEF Return, CallIs, Idle
  <2> QED
    BY <1>1, <2>1, Zenon DEF RestInv
<1>3. IsList(results') /\ IsList(asked') /\ Len(results') = 0 /\ Len(asked') = 0
  BY <1>1, EmptyList, Zenon
<1>4. conn' = [handle |-> conn'.handle, unread |-> conn'.unread] /\ conn'.handle = FALSE /\ conn'.unread = <<>>
  BY <1>1 DEF NoConn
<1>5. /\ \A i \in 1 .. Len(asked') : IsAnswer(asked'[i])
      /\ \A i \in 1 .. Len(results') : ResultOk(call', results'[i], asked'[i])
  BY <1>3
<1> QED
  BY <1>1, <1>2, <1>3, <1>4, <1>5, EmptyList, Zenon DEF RestInv

\* SaveRegion, and nothing at all.
LEMMA StepElsewhere ==
    ASSUME RestInv, region' \in Regions, UNCHANGED <<call, conn, parser, results, asked>>
    PROVE  RestInv'
BY Zenon DEF RestInv, CallIs, Answered, Turn

-----------------------------------------------------------------------------
(* A chunk.                                                                *)

\* A list in two parts.
LEMMA ListParts ==
    ASSUME NEW s, IsList(s), NEW n \in Nat, n =< Len(s)
    PROVE  LET head == SubSeq(s, 1, n)
               tail == SubSeq(s, n + 1, Len(s))
           IN  /\ Len(head) = n /\ \A i \in 1 .. n : head[i] = s[i]
               /\ IsList(tail) /\ Len(tail) = Len(s) - n /\ \A i \in 1 .. Len(tail) : tail[i] = s[n + i]
<1>1. PICK T : s \in Seq(T)
  BY DEF IsList
<1>2. Len(s) \in Nat
  BY <1>1
<1> DEFINE head == SubSeq(s, 1, n)
           tail == SubSeq(s, n + 1, Len(s))
<1>3. /\ Len(head) = n /\ \A i \in 1 .. n : head[i] = s[i]
      /\ tail \in Seq(T) /\ Len(tail) = Len(s) - n /\ \A i \in 1 .. Len(tail) : tail[i] = s[n + i]
  BY <1>1, <1>2
<1> QED
  BY <1>3 DEF IsList

\* Whose body it is.
LEMMA BodyIs ==
    ASSUME RestInv, call.step = "Body"
    PROVE  /\ CallIs("Body") /\ Answered /\ asked[Turn].status = 200
           /\ \/ call.kind \in {"klines", "batch"} /\ CandlesRead(conn.unread, parser, asked[Turn])
              \/ call.kind \in {"symbol", "ticker"} /\ ObjectParser(parser)
           /\ Len(results) \in Nat /\ Turn = Len(results) + 1 /\ Turn \in 1 .. Len(asked) /\ Len(asked) = Turn
           /\ IsAnswer(asked[Turn]) /\ asked[Turn].base = call.base
<1>1. ~CallIs("Request") /\ ~CallIs("Return") /\ ~CallIs("Snippet") /\ call # Idle
  BY DEF CallIs, Idle
<1>2. /\ CallIs("Body") /\ Answered /\ asked[Turn].status = 200
      /\ \/ call.kind \in {"klines", "batch"} /\ CandlesRead(conn.unread, parser, asked[Turn])
         \/ call.kind \in {"symbol", "ticker"} /\ ObjectParser(parser)
  BY <1>1, Zenon DEF RestInv
<1>3. Len(results) \in Nat /\ Turn = Len(results) + 1 /\ Turn \in 1 .. Len(asked) /\ Len(asked) = Turn
  BY <1>2, InvSays DEF Turn, Answered
<1>4. IsAnswer(asked[Turn]) /\ asked[Turn].base = call.base
  BY <1>2, <1>3, Zenon DEF RestInv, Answered
<1> QED
  BY <1>2, <1>3, <1>4, Zenon

\* A result whose error is none of those the properties name.
LEMMA PlainError ==
    ASSUME NEW a, a.base = call.base, NEW err, err \notin {"OK", "SYMBOL_NOT_FOUND"},
           call.kind \in {"klines", "batch"} => NoRows(a.toks)
    PROVE  ResultOk(call, Result(err), a)
<1>1. Result(err).err = err /\ Result(err).count = 0
  BY DEF Result
<1>2. call.kind \in {"klines", "batch"} => RowsOf(Result(err), a)
  BY <1>1 DEF RowsOf
<1>3. Result(err).err # "OK" /\ Result(err).err # "SYMBOL_NOT_FOUND"
  BY <1>1
<1> QED
  BY <1>2, <1>3, Zenon DEF ResultOk

\* The chunk is taken and the body goes on.
LEMMA ChunkGoesOn ==
    ASSUME RestInv, call.step = "Body", NEW n \in Nat, NEW p,
           parser' = p, asked' = [asked EXCEPT ![Turn].taken = @ + n],
           UNCHANGED <<call, results, region>>,
           conn' = [handle |-> conn'.handle, unread |-> conn'.unread], IsList(conn'.unread),
           \/ /\ call.kind \in {"klines", "batch"}
              /\ CandlesRead(conn'.unread, p, [asked[Turn] EXCEPT !.taken = @ + n])
           \/ call.kind \in {"symbol", "ticker"} /\ ObjectParser(p)
    PROVE  RestInv'
<1>1. /\ CallIs("Body") /\ Answered /\ asked[Turn].status = 200
      /\ Len(results) \in Nat /\ Turn = Len(results) + 1 /\ Turn \in 1 .. Len(asked) /\ Len(asked) = Turn
      /\ IsAnswer(asked[Turn]) /\ asked[Turn].base = call.base
  BY BodyIs, Zenon
<1> DEFINE b == [asked[Turn] EXCEPT !.taken = @ + n]
<1>2. asked' = [asked EXCEPT ![Turn] = b]
  BY Zenon
<1>3. IsAnswer(b) /\ b.base = call.base /\ b.status = 200
  BY <1>1 DEF IsAnswer
<1>4. \/ call.kind \in {"klines", "batch"} /\ CandlesRead(conn'.unread, parser', b)
      \/ call.kind \in {"symbol", "ticker"} /\ ObjectParser(parser')
  BY Zenon
<1> HIDE DEF b
<1>5. Grown(asked, asked', Len(results), b)
  <2>1. IsList(asked)
    BY Zenon DEF RestInv
  <2>2. \A k \in Nat : Len(asked) = k + 1 /\ Turn = k + 1 => Grown(asked, asked', k, b)
    <3>1. Turn \in 1 .. Len(asked)
      BY <1>1
    <3>2. \A k \in Nat : Len(asked) = k + 1 /\ Turn = k + 1 => Grown(asked, [asked EXCEPT ![Turn] = b], k, b)
      BY <2>1, <3>1, GrownInPlace, Zenon
    <3> QED
      BY <1>2, <3>2, Zenon
  <2>3. Len(results) \in Nat /\ Len(asked) = Len(results) + 1 /\ Turn = Len(results) + 1
    BY <1>1
  <2> QED
    BY <2>2, <2>3
<1>6. /\ IsList(asked') /\ Len(asked') = Turn /\ asked'[Turn] = b
      /\ \A i \in 1 .. Len(results) : asked'[i] = asked[i]
  BY <1>1, <1>5 DEF Grown
<1>7. Turn' = Turn
  BY DEF Turn
<1>8. ASSUME NEW i \in 1 .. Len(asked') PROVE IsAnswer(asked'[i])
  <2>1. i = Turn \/ (i \in 1 .. Len(results) /\ i \in 1 .. Len(asked))
    BY <1>1, <1>6
  <2>2. CASE i = Turn
    BY <1>3, <1>6, <2>2
  <2>3. CASE i \in 1 .. Len(results) /\ i \in 1 .. Len(asked)
    BY <1>6, <2>3, ZenonT(60) DEF RestInv
  <2> QED
    BY <2>1, <2>2, <2>3
<1>9. \A i \in 1 .. Len(results') : ResultOk(call', results'[i], asked'[i])
  <2>1. ASSUME NEW i \in 1 .. Len(results) PROVE ResultOk(call, results[i], asked'[i])
    <3>1. ResultOk(call, results[i], asked[i]) /\ asked'[i] = asked[i]
      BY <1>6, Zenon DEF RestInv
    <3> QED
      BY <3>1
  <2> QED
    BY <2>1, Zenon
<1>10. CallIs("Body")' /\ Answered'
  BY <1>1, <1>3, <1>6, <1>7 DEF CallIs, Answered
<1>11. asked'[Turn'].status = 200
       /\ \/ call'.kind \in {"klines", "batch"} /\ CandlesRead(conn'.unread, parser', asked'[Turn'])
          \/ call'.kind \in {"symbol", "ticker"} /\ ObjectParser(parser')
  <2>1. asked'[Turn'] = b /\ call' = call
    BY <1>6, <1>7
  <2> QED
    BY <1>3, <1>4, <2>1, Zenon
<1>12. region' \in Regions /\ IsList(results')
  BY Zenon DEF RestInv
<1> QED
  BY <1>6, <1>8, <1>9, <1>10, <1>11, <1>12, Zenon DEF RestInv

\* ReadChunk.
LEMMA StepReadChunk ==
    ASSUME RestInv, ReadChunk
    PROVE  RestInv'
<1>1. call.step = "Body" /\ UNCHANGED region
  BY DEF ReadChunk
<1>2. /\ CallIs("Body") /\ Answered
      /\ \/ call.kind \in {"klines", "batch"} /\ CandlesRead(conn.unread, parser, asked[Turn])
         \/ call.kind \in {"symbol", "ticker"} /\ ObjectParser(parser)
      /\ IsAnswer(asked[Turn]) /\ asked[Turn].base = call.base
  BY <1>1, BodyIs, Zenon
<1>3. IsList(conn.unread) /\ Len(conn.unread) \in Nat /\ conn = [handle |-> conn.handle, unread |-> conn.unread]
  BY AddedLast, Zenon DEF RestInv
<1> DEFINE N(size) == IF size < Len(conn.unread) THEN size ELSE Len(conn.unread)
           P(n) == Feed(parser, SubSeq(conn.unread, 1, n))
<1>4. PICK size \in ChunkSizes :
         /\ conn' = [conn EXCEPT !.unread = SubSeq(@, N(size) + 1, Len(@))]
         /\ IF FeedErr(P(N(size))) = "OK" \/ Over(parser)
            THEN /\ parser' = P(N(size))
                 /\ asked' = [asked EXCEPT ![Turn].taken = @ + N(size)]
                 /\ UNCHANGED <<call, results>>
            ELSE Record(FeedErr(P(N(size))), TRUE)
  BY Zenon DEF ReadChunk
<1> DEFINE n == N(size)
<1>5. n \in Nat /\ n =< Len(conn.unread)
  BY <1>3, RestAssumption
<1> DEFINE buf == SubSeq(conn.unread, 1, n)
           p == Feed(parser, buf)
           rest == SubSeq(conn.unread, n + 1, Len(conn.unread))
           b == [asked[Turn] EXCEPT !.taken = @ + n]
<1>6. /\ conn' = [conn EXCEPT !.unread = rest]
      /\ IF FeedErr(p) = "OK" \/ Over(parser)
         THEN /\ parser' = p
              /\ asked' = [asked EXCEPT ![Turn].taken = @ + n]
              /\ UNCHANGED <<call, results>>
         ELSE Record(FeedErr(p), TRUE)
  BY <1>4, Zenon
<1> HIDE DEF N, n
<1>7. /\ Len(buf) = n /\ \A i \in 1 .. n : buf[i] = conn.unread[i]
      /\ IsList(rest) /\ Len(rest) = Len(conn.unread) - n /\ \A i \in 1 .. Len(rest) : rest[i] = conn.unread[n + i]
  BY <1>3, <1>5, ListParts
<1> HIDE DEF buf, rest
<1>8. conn' = [handle |-> conn'.handle, unread |-> conn'.unread] /\ IsList(conn'.unread) /\ conn'.unread = rest
  BY <1>3, <1>6, <1>7
<1>9. ASSUME call.kind \in {"klines", "batch"}
      PROVE  CandlesRead(rest, p, b)
  <2> DEFINE toks == asked[Turn].toks
             m == asked[Turn].taken
  <2>1. CandlesRead(conn.unread, parser, asked[Turn])
    BY <1>2, <1>9
  <2>2. /\ Readable(toks) /\ m \in 0 .. Len(Spell(toks)) /\ Len(conn.unread) = Len(Spell(toks)) - m
        /\ \A i \in 1 .. Len(conn.unread) : conn.unread[i] = Spell(toks)[m + i]
        /\ Consumed(toks, m, parser)
    BY <2>1, Zenon DEF CandlesRead
  <2>3. b.toks = toks /\ b.taken = m + n
    BY <1>2 DEF IsAnswer
  <2> HIDE DEF toks, m, b
  <2>4. Len(Spell(toks)) \in Nat
    BY <2>2, CandlesStart
  <2>5. m \in Nat /\ m + n =< Len(Spell(toks)) /\ Len(rest) = Len(Spell(toks)) - (m + n)
        /\ m + n \in 0 .. Len(Spell(toks))
    BY <1>5, <1>7, <2>2, <2>4
  <2>6. \A i \in 1 .. n : buf[i] = Spell(toks)[m + i]
    <3>1. TAKE i \in 1 .. n
    <3>2. i \in 1 .. Len(conn.unread)
      BY <1>3, <1>5
    <3> QED
      BY <1>7, <2>2, <3>2
  <2>7. \A i \in 1 .. Len(rest) : rest[i] = Spell(toks)[(m + n) + i]
    <3>1. TAKE i \in 1 .. Len(rest)
    <3>2. n + i \in 1 .. Len(conn.unread) /\ m + (n + i) = (m + n) + i
      BY <1>3, <1>5, <1>7, <2>5
    <3>3. rest[i] = conn.unread[n + i] /\ conn.unread[n + i] = Spell(toks)[m + (n + i)]
      BY <1>7, <2>2, <3>2
    <3> QED
      BY <3>2, <3>3
  <2>8. Consumed(toks, m + n, p)
    BY <1>5, <1>7, <2>2, <2>5, <2>6, ChunkConsumed
  <2> HIDE DEF p
  <2> QED
    BY <2>2, <2>3, <2>5, <2>7, <2>8 DEF CandlesRead
<1>10. ASSUME call.kind \in {"symbol", "ticker"}
       PROVE  ObjectParser(p)
  <2>1. ObjectParser(parser)
    BY <1>2, <1>10
  <2>2. Len(buf) \in Nat
    BY <1>5, <1>7
  <2> QED
    BY <2>1, <2>2, FeedKeeps
<1>11. call.kind \in {"klines", "batch"} \/ call.kind \in {"symbol", "ticker"}
  BY <1>2
<1>12. CASE FeedErr(p) = "OK" \/ Over(parser)
  <2>1. parser' = p /\ asked' = [asked EXCEPT ![Turn].taken = @ + n] /\ UNCHANGED <<call, results, region>>
    BY <1>1, <1>6, <1>12, Zenon
  <2> HIDE DEF p
  <2>2. \/ call.kind \in {"klines", "batch"} /\ CandlesRead(conn'.unread, p, b)
        \/ call.kind \in {"symbol", "ticker"} /\ ObjectParser(p)
    BY <1>8, <1>9, <1>10, <1>11, Zenon
  <2> QED
    BY <1>1, <1>5, <1>8, <2>1, <2>2, ChunkGoesOn
<1>13. CASE ~(FeedErr(p) = "OK" \/ Over(parser))
  <2> DEFINE err == FeedErr(p)
  <2>1. Record(err, TRUE) /\ err # "OK"
    BY <1>6, <1>13, Zenon
  <2>2. err \in {"INVALID_ARG", "PARSE"} /\ p.at \in {"Full", "Error"}
    BY <1>13 DEF FeedErr
  <2>3. Taken(TRUE).base = call.base /\ Taken(TRUE).toks = asked[Turn].toks /\ b.toks = asked[Turn].toks
    BY <1>2 DEF Taken, IsAnswer
  <2>4. call.kind \in {"klines", "batch"} => NoRows(Taken(TRUE).toks)
    <3>1. SUFFICES ASSUME call.kind \in {"klines", "batch"} PROVE NoRows(asked[Turn].toks)
      BY <2>3
    <3>2. PICK m : Consumed(asked[Turn].toks, m, p)
      BY <1>9, <2>3, <3>1 DEF CandlesRead
    <3> HIDE DEF p
    <3>3. RowsRefused(asked[Turn].toks, p)
      BY <2>2, <3>2 DEF Consumed, RowsSoFar, RowsDone
    <3> QED
      BY <3>3, Zenon DEF RowsRefused
  <2>5. err \notin {"OK", "SYMBOL_NOT_FOUND"}
    BY <2>2
  <2> HIDE DEF err
  <2>6. ResultOk(call, Result(err), Taken(TRUE))
    BY <2>3, <2>4, <2>5, PlainError, Zenon
  <2>7. MayRecord(err, TRUE)
    BY <1>2, <2>6, Zenon DEF MayRecord
  <2> QED
    BY <1>1, <1>8, <2>1, <2>7, RecordKeeps
<1> QED
  BY <1>12, <1>13, Zenon

-----------------------------------------------------------------------------
(* The end of a body, and every step.                                      *)

\* What stands where the opening price of a row does.
LEMMA PricePlace ==
    ASSUME NEW toks, NEW n \in Nat, NEW close, RowsUpTo(toks, n, close), NEW row \in 1 .. n
    PROVE  Kind(toks, 26 * row - 21) = "string"
<1>1. row - 1 \in 0 .. n - 1 /\ 26 * (row - 1) + 2 + 2 * 1 + 1 = 26 * row - 21
  OBVIOUS
<1>2. RowAt(toks, 26 * (row - 1) + 2)
  BY <1>1, Zenon DEF RowsUpTo
<1>3. 1 \in 0 .. 11 /\ 1 \notin {0, 6, 8} /\ 1 # 11
  OBVIOUS
<1>4. Kind(toks, 26 * (row - 1) + 2 + 2 * 1 + 1) = "string"
  BY <1>2, <1>3, Zenon DEF RowAt
<1> QED
  BY <1>1, <1>4

\* A body that has been read to its end without closing is no array of rows.
LEMMA NeverClosed ==
    ASSUME NEW toks, Readable(toks), NEW k, NEW p, RowsSoFar(toks, k, p), Reading(toks, k, Len(Spell(toks)), p.sc)
    PROVE  NoRows(toks)
<1>1. Len(toks) \in Nat
  BY DEF Readable
<1>2. k \in 0 .. Len(toks) /\ Opens(toks, k)
  BY Zenon DEF Reading, RowsSoFar
<1>3. \/ k = Len(toks)
      \/ k + 1 = Len(toks) /\ k \in Nat /\ toks[k + 1].kind \in {"number"} \cup Literals
  BY EndOfBody, Zenon
<1>4. SUFFICES ASSUME NEW n \in 0 .. Capacity, NEW close \in 2 .. Len(toks), RowsUpTo(toks, n, close)
               PROVE  FALSE
  BY Zenon DEF NoRows
<1>5. n \in Nat
  BY RowCounts
<1>6. k < close
  BY <1>1, <1>2, <1>4, <1>5, StillOpen
<1>7. toks[close].kind = "]"
  BY <1>1, <1>4, <1>5, RowsOpen
<1>8. close = k + 1 /\ toks[k + 1].kind \in {"number"} \cup Literals
  BY <1>1, <1>2, <1>3, <1>6
<1> QED
  BY <1>7, <1>8 DEF Literals

\* Candles are handed over.
LEMMA CandlesAreHanded ==
    ASSUME RestInv, call.step = "Body", call.kind \in {"klines", "batch"}, Finished(parser)
    PROVE  ResultOk(call, Result("OK"), Taken(conn.unread = <<>>))
<1> DEFINE toks == asked[Turn].toks
           b == Taken(conn.unread = <<>>)
           r == Result("OK")
<1>1. /\ CandlesRead(conn.unread, parser, asked[Turn])
      /\ IsAnswer(asked[Turn]) /\ asked[Turn].base = call.base /\ asked[Turn].status = 200
  BY BodyIs DEF CallIs
<1>2. b.base = call.base /\ b.status = 200 /\ b.toks = toks /\ b.taken = asked[Turn].taken
  BY <1>1 DEF IsAnswer, Taken
<1>3. Consumed(toks, asked[Turn].taken, parser)
  BY <1>1, Zenon DEF CandlesRead
<1>4. PICK k : RowsDone(toks, k, parser) /\ Spelled(toks, k) =< asked[Turn].taken
  BY <1>3 DEF Consumed, RowsSoFar, RowsRefused, Finished
<1>5. /\ KlinesParser(parser) /\ parser.rows \in 0 .. Capacity /\ k \in 2 .. Len(toks)
      /\ RowsUpTo(toks, parser.rows, k) /\ OutIs(toks, parser.out) /\ parser.rows =< Len(parser.out)
  BY <1>4, Zenon DEF RowsDone
<1>6. parser.format = "klines"
  BY <1>5 DEF KlinesParser
<1>7. r.err = "OK" /\ r.count = parser.rows /\ r.out = parser.out
  BY <1>6 DEF Result
<1> HIDE DEF b, r, toks
<1>8. RowsOf(r, b)
  <2>1. \E close \in 2 .. Len(b.toks) : RowsUpTo(b.toks, r.count, close) /\ Spelled(b.toks, close) =< b.taken
    BY <1>2, <1>4, <1>5, <1>7
  <2>2. r.err = "OK"
    BY <1>7
  <2> QED
    BY <2>1, <2>2, Zenon DEF RowsOf
<1>9. OwnRows(r, b)
  <2>1. parser.rows \in Nat /\ Len(parser.out) \in Nat
    BY <1>5, RowCounts DEF OutIs
  <2>2. ASSUME NEW row \in 1 .. parser.rows
        PROVE  Kind(toks, 26 * row - 21) = "string" /\ parser.out[row] = toks[26 * row - 21].text
    <3>1. Kind(toks, 26 * row - 21) = "string"
      BY <1>5, <2>1, PricePlace
    <3>2. row \in 1 .. Len(parser.out)
      BY <1>5, <2>1
    <3>3. parser.out[row] = toks[26 * row - 21].text
      BY <1>5, <3>2, Zenon DEF OutIs
    <3> QED
      BY <3>1, <3>3
  <2> QED
    BY <1>2, <1>7, <2>2 DEF OwnRows
<1>10. r.err # "SYMBOL_NOT_FOUND"
  BY <1>7
<1>11. ResultOk(call, r, b)
  BY <1>2, <1>8, <1>9, <1>10, Zenon DEF ResultOk
<1> QED
  BY <1>11 DEF r, b

\* They are not.
LEMMA CandlesAreRefused ==
    ASSUME RestInv, call.step = "Body", call.kind \in {"klines", "batch"}, ~Finished(parser)
    PROVE  ResultOk(call, Result("PARSE"), Taken(conn.unread = <<>>))
<1> DEFINE toks == asked[Turn].toks
           b == Taken(conn.unread = <<>>)
           r == Result("PARSE")
<1>1. /\ CandlesRead(conn.unread, parser, asked[Turn])
      /\ IsAnswer(asked[Turn]) /\ asked[Turn].base = call.base
  BY BodyIs DEF CallIs
<1>2. b.base = call.base /\ b.toks = toks /\ b.whole = (conn.unread = <<>>)
  BY <1>1 DEF IsAnswer, Taken
<1>3. r.err = "PARSE" /\ r.count = 0
  BY DEF Result
<1>4. /\ Readable(toks) /\ Consumed(toks, asked[Turn].taken, parser)
      /\ asked[Turn].taken \in 0 .. Len(Spell(toks))
      /\ Len(conn.unread) = Len(Spell(toks)) - asked[Turn].taken
  BY <1>1, Zenon DEF CandlesRead
<1>5. ASSUME conn.unread = <<>> PROVE NoRows(toks)
  <2>1. Len(conn.unread) = 0
    BY <1>5, EmptyList, Zenon
  <2>2. asked[Turn].taken = Len(Spell(toks))
    BY <1>4, <2>1, CandlesStart
  <2>3. CASE RowsRefused(toks, parser)
    BY <2>3, Zenon DEF RowsRefused
  <2>4. CASE \E k : Reading(toks, k, Len(Spell(toks)), parser.sc) /\ RowsSoFar(toks, k, parser)
    BY <1>4, <2>4, NeverClosed, Zenon
  <2>5. \A k : ~RowsDone(toks, k, parser)
    BY Zenon DEF RowsDone, Finished
  <2> QED
    BY <1>4, <2>2, <2>3, <2>4, <2>5, Zenon DEF Consumed
<1> HIDE DEF b, r, toks
<1>6. RowsOf(r, b)
  BY <1>2, <1>3, <1>5 DEF RowsOf
<1>7. r.err # "OK" /\ r.err # "SYMBOL_NOT_FOUND"
  BY <1>3
<1>8. ResultOk(call, r, b)
  BY <1>2, <1>6, <1>7, Zenon DEF ResultOk
<1> QED
  BY <1>8 DEF r, b

\* ReadEnds.
LEMMA StepReadEnds ==
    ASSUME RestInv, ReadEnds
    PROVE  RestInv'
<1> DEFINE err == IF Finished(parser) THEN "OK" ELSE "PARSE"
           taken == conn.unread = <<>>
<1>1. call.step = "Body" /\ Record(err, taken) /\ UNCHANGED <<region, conn>>
  BY Zenon DEF ReadEnds
<1>2. /\ CallIs("Body") /\ Answered
      /\ call.kind \in {"klines", "batch"} \/ call.kind \in {"symbol", "ticker"}
      /\ IsAnswer(asked[Turn]) /\ asked[Turn].base = call.base
  BY <1>1, BodyIs, Zenon
<1>3. conn' = [handle |-> conn'.handle, unread |-> conn'.unread] /\ IsList(conn'.unread)
  BY <1>1, Zenon DEF RestInv
<1>4. ResultOk(call, Result(err), Taken(taken))
  <2>1. CASE call.kind \in {"klines", "batch"}
    <3>1. CASE Finished(parser)
      BY <1>1, <2>1, <3>1, CandlesAreHanded, Zenon
    <3>2. CASE ~Finished(parser)
      BY <1>1, <2>1, <3>2, CandlesAreRefused, Zenon
    <3> QED
      BY <3>1, <3>2
  <2>2. CASE call.kind \in {"symbol", "ticker"}
    <3>1. call.kind \notin {"klines", "batch"}
      BY <2>2
    <3>2. Taken(taken).base = call.base
      BY <1>2 DEF IsAnswer, Taken
    <3>3. Result(err).err # "SYMBOL_NOT_FOUND"
      BY DEF Result
    <3> QED
      BY <3>1, <3>2, <3>3, Zenon DEF ResultOk
  <2> QED
    BY <1>2, <2>1, <2>2
<1>5. MayRecord(err, taken)
  BY <1>2, <1>4, Zenon DEF MayRecord
<1> HIDE DEF err, taken
<1> QED
  BY <1>1, <1>3, <1>5, RecordKeeps

\* Every step.
LEMMA RestInvNext ==
    ASSUME AnswersReadable, RestInv, [RestNext]_restVars
    PROVE  RestInv'
<1>1. CASE \E kind \in Kinds : Call(kind)
  BY <1>1, StepCall
<1>2. CASE Refuse
  BY <1>2, StepRefuse
<1>3. CASE OpenFails
  BY <1>3, StepOpenFails
<1>4. CASE NextFails
  BY <1>4, StepNextFails
<1>5. CASE HttpAnswers
  BY <1>5, StepHttpAnswers
<1>6. CASE ReadChunk
  BY <1>6, StepReadChunk
<1>7. CASE ReadFails
  BY <1>7, StepReadFails
<1>8. CASE ReadEnds
  BY <1>8, StepReadEnds
<1>9. CASE TakeSnippet
  BY <1>9, StepTakeSnippet
<1>10. CASE Return
  BY <1>10, StepReturn
<1>11. CASE SaveRegion
  <2>1. region' \in Regions /\ UNCHANGED <<call, conn, parser, results, asked>>
    BY <1>11, Zenon DEF SaveRegion
  <2> QED
    BY <2>1, StepElsewhere
<1>12. CASE UNCHANGED restVars
  <2>1. region' \in Regions /\ UNCHANGED <<call, conn, parser, results, asked>>
    BY <1>12, Zenon DEF restVars, RestInv
  <2> QED
    BY <2>1, StepElsewhere
<1> QED
  BY <1>1, <1>2, <1>3, <1>4, <1>5, <1>6, <1>7, <1>8, <1>9, <1>10, <1>11, <1>12, Zenon DEF RestNext

-----------------------------------------------------------------------------
\* However a body of candles is cut into chunks, however often reading fails and
\* wherever the server stops: what market_data_client_get_klines() and the batch
\* hand over is every row of an array that fits and has come to its end, and a
\* result that is refused has no rows.
THEOREM CandlesAreWhole ==
    ASSUME AnswersReadable
    PROVE  RestSpec => []RowsAreWhole
<1>1. RestInit => RestInv
  BY RestInvInit
<1>2. RestInv /\ [RestNext]_restVars => RestInv'
  BY RestInvNext
<1>3. RestInv => RowsAreWhole
  BY RestInvRows
<1> QED
  BY <1>1, <1>2, <1>3, PTL DEF RestSpec

\* The results of a batch are of one server and each is of its own symbol,
\* whatever fails: the candles are those of its own answer, and a symbol whose
\* error body has been read is only called unknown when that body says so.
THEOREM BatchIsItsOwn ==
    ASSUME AnswersReadable
    PROVE  RestSpec => []ResultsAreTheirOwn
<1>1. RestInit => RestInv
  BY RestInvInit
<1>2. RestInv /\ [RestNext]_restVars => RestInv'
  BY RestInvNext
<1>3. RestInv => ResultsAreTheirOwn
  BY RestInvOwn
<1> QED
  BY <1>1, <1>2, <1>3, PTL DEF RestSpec
=============================================================================
