---------------------------- MODULE ScreensProofs ---------------------------
(***************************************************************************)
(* Theorems about Screens, for every watchlist, every set of networks and  *)
(* every amount of room: callbacks use only widgets that exist, and the    *)
(* rows of the watchlist editor act on the symbols they show.              *)
(***************************************************************************)
EXTENDS Screens, SequenceTheorems, TLAPS

-----------------------------------------------------------------------------
(* The inductive invariant.                                                *)

Views == Sub \cup {"LIST"}
Kid   == [sym : Symbols \cup {"add", "full", "more"}, ix : Nat]

Widgets ==
    [view : Views, built : SUBSET Sub, kids : Seq(Kid), held : BOOLEAN, drag : Nat, rebuild : BOOLEAN,
     shown : [Nets -> Kinds], listed : BOOLEAN, finger : Nets \cup {None},
     menu : Nets \cup {None}, dead : SUBSET (Sub \cup {"NIGHT_TIME"})]

ScreensTypeOK ==
    /\ active \in {"watchlist", "settings"}
    /\ ui \in Widgets
    /\ dialog \in Nat /\ picker \in BOOLEAN
    /\ table \in Seq(Symbols)
    /\ match \in Symbols \cup {None}
    /\ nets \in [Nets -> Kinds]

\* Exactly the screens of a set are built, and what has been used otherwise is
\* excused.
Has(u, screens) == u.dead \subseteq Excused /\ u.built = screens \ {"LIST"}

\* What belongs to a screen is gone when another one is shown.
Kept(u) ==
    /\ u.finger # None => u.view = "WIFI" /\ u.shown[u.finger] # "absent"
    /\ u.menu # None => u.view = "WIFI"
    /\ u.rebuild \/ u.held => u.view = "MANAGE"

\* The rows are in front, and each knows its symbol's place in t.
RowsFit(kids, t) ==
    \A i \in 1 .. Len(kids) :
        kids[i].ix # 0 => /\ i <= Len(t) /\ kids[i].ix <= Len(t)
                          /\ t[kids[i].ix] = kids[i].sym

\* The row that is dragged is among the children.
RowHeld(u) == u.held => u.drag # 0 /\ \E i \in 1 .. Len(u.kids) : u.kids[i].ix = u.drag

\* Where no console can jump, there is one time picker at most, and it covers the
\* Display screen.
OverDisplay ==
    /\ dialog \in Nat /\ picker \in BOOLEAN
    /\ DevTargets = {} /\ dialog # 0 => dialog = 1 /\ picker /\ ui.view = "DISPLAY"

\* There is none.
NoPicker == dialog \in Nat /\ picker \in BOOLEAN /\ (DevTargets = {} => dialog = 0)

\* Nor does the watchlist cover a sub-screen.
Covered == OverDisplay /\ (active = "watchlist" => ui.view = "LIST")

\* The widgets are sound and the rows fit the symbols of t.
UiOK(u, t) ==
    /\ u \in Widgets
    /\ Has(u, {u.view})
    /\ Kept(u)
    /\ u.kids # <<>> => u.view = "MANAGE"
    /\ ~u.rebuild => RowsFit(u.kids, t)
    /\ RowHeld(u)
    /\ u.held => ~u.rebuild

IInv == ScreensTypeOK /\ UiOK(ui, table) /\ Covered

\* Screen v has just been entered: nothing is pressed, open or queued.
Calm(u, v) ==
    /\ u \in Widgets /\ u.view = v /\ Has(u, {v})
    /\ u.finger = None /\ u.menu = None /\ ~u.held /\ ~u.rebuild
    /\ u.kids # <<>> => v = "MANAGE"

-----------------------------------------------------------------------------
(* Lemmas about the widgets.                                               *)

LEMMA FreshSound == Fresh \in Widgets /\ Has(Fresh, {"LIST"}) /\ Kept(Fresh) /\ RowHeld(Fresh)
<1>1. <<>> \in Seq(Kid)
  BY EmptySeq
<1>2. Nothing \in [Nets -> Kinds]
  BY DEF Nothing, Kinds
<1> QED
  BY <1>1, <1>2 DEF Fresh, Widgets, Views, Has, Kept, RowHeld, None

\* Showing another screen deletes the one shown; one that was prepared stays.
LEMMA ShowFacts ==
  ASSUME NEW u \in Widgets, NEW v \in Views, v # u.view, Kept(u),
         Has(u, {u.view}) \/ Has(u, {u.view, v})
  PROVE  LET s == Show(u, v) IN
         /\ s \in Widgets /\ s.view = v /\ Has(s, {v})
         /\ s.finger = None /\ s.menu = None /\ s.held = FALSE /\ s.rebuild = FALSE
         /\ s.kids = IF u.view = "MANAGE" THEN <<>> ELSE u.kids
<1>1. <<>> \in Seq(Kid)
  BY EmptySeq
<1>2. Nothing \in [Nets -> Kinds]
  BY DEF Nothing, Kinds
<1> DEFINE d == Destroy(u, u.view)
<1>3. /\ d \in Widgets /\ d.view = u.view /\ d.built = u.built \ {u.view} /\ d.dead = u.dead
      /\ d.finger = None /\ d.menu = None /\ d.held = FALSE /\ d.rebuild = FALSE
      /\ d.kids = IF u.view = "MANAGE" THEN <<>> ELSE u.kids
  <2>1. CASE u.view = "MANAGE"
    BY <1>1, <2>1 DEF Destroy, Widgets, Has, Kept
  <2>2. CASE u.view = "WIFI"
    BY <1>2, <2>2 DEF Destroy, Widgets, Has, Kept
  <2>3. CASE u.view \notin {"MANAGE", "WIFI"}
    BY <2>3 DEF Destroy, Widgets, Has, Kept
  <2> QED
    BY <2>1, <2>2, <2>3
<1>4. Show(u, v) = IF v = "LIST" THEN [d EXCEPT !.view = v]
                   ELSE [[d EXCEPT !.view = v] EXCEPT !.built = @ \cup {v}]
  BY DEF Show, Build
<1> HIDE DEF d
<1>6. d.built \in SUBSET {v}
  BY <1>3 DEF Has
<1>7. d.built # {} => v # "LIST"
  BY <1>3, <1>6 DEF Has
<1>8. CASE v = "LIST"
  BY <1>3, <1>4, <1>6, <1>7, <1>8, SMTT(30) DEF Widgets, Has, Views
<1>9. CASE v # "LIST"
  <2> DEFINE s == Show(u, v)
  <2>1. s = [d EXCEPT !.view = v, !.built = d.built \cup {v}]
    BY <1>3, <1>4, <1>9 DEF Widgets
  <2>2. v \in Sub /\ d.built \cup {v} = {v}
    BY <1>6, <1>9 DEF Views
  <2> HIDE DEF s
  <2>3. s \in Widgets
    <3>1. d.built \cup {v} \in SUBSET Sub /\ v \in Views
      BY <2>2 DEF Views
    <3> QED
      BY <1>3, <2>1, <3>1 DEF Widgets
  <2>4. s.view = v /\ s.built = {v} /\ s.dead = d.dead /\ s.finger = d.finger /\ s.menu = d.menu
        /\ s.held = d.held /\ s.rebuild = d.rebuild /\ s.kids = d.kids
    BY <1>3, <2>1, <2>2 DEF Widgets
  <2>5. {v} = {v} \ {"LIST"}
    BY <1>9
  <2> QED
    BY <1>3, <2>3, <2>4, <2>5 DEF Has, s
<1> QED
  BY <1>8, <1>9

-----------------------------------------------------------------------------
(* Lemmas about the rows.                                                  *)

\* Without an element, a sequence is one shorter and keeps what was before.
LEMMA WithoutFacts ==
  ASSUME NEW S, NEW t \in Seq(S), NEW i \in 1 .. Len(t)
  PROVE  /\ Without(t, i) \in Seq(S)
         /\ Len(Without(t, i)) = Len(t) - 1
         /\ \A k \in 1 .. Len(t) - 1 : Without(t, i)[k] = IF k < i THEN t[k] ELSE t[k + 1]
<1> DEFINE a == SubSeq(t, 1, i - 1)
           b == SubSeq(t, i + 1, Len(t))
<1>1. Len(t) \in Nat /\ \A k \in 1 .. Len(t) : t[k] \in S
  BY LenProperties, ElementOfSeq
<1>2. a \in Seq(S) /\ Len(a) = i - 1 /\ \A k \in 1 .. i - 1 : a[k] = t[k]
  <2>1. \A k \in 1 .. i - 1 : t[k] \in S
    BY <1>1
  <2> QED
    BY <1>1, <2>1, SubSeqProperties
<1>3. b \in Seq(S) /\ Len(b) = Len(t) - i /\ \A k \in 1 .. Len(t) - i : b[k] = t[i + k]
  <2>1. \A k \in i + 1 .. Len(t) : t[k] \in S
    BY <1>1
  <2> QED
    BY <1>1, <2>1, SubSeqProperties
<1> HIDE DEF a, b
<1>4. /\ a \o b \in Seq(S)
      /\ Len(a \o b) = Len(t) - 1
      /\ \A k \in 1 .. Len(t) - 1 : (a \o b)[k] = IF k <= i - 1 THEN a[k] ELSE b[k - (i - 1)]
  <2>1. Len(a) + Len(b) = Len(t) - 1
    BY <1>1, <1>2, <1>3
  <2>2. /\ a \o b \in Seq(S) /\ Len(a \o b) = Len(a) + Len(b)
        /\ \A k \in 1 .. Len(a) + Len(b) : (a \o b)[k] = IF k <= Len(a) THEN a[k] ELSE b[k - Len(a)]
    BY <1>2, <1>3, ConcatProperties
  <2> QED
    BY <1>2, <2>1, <2>2
<1>5. ASSUME NEW k \in 1 .. Len(t) - 1
      PROVE  (a \o b)[k] = IF k < i THEN t[k] ELSE t[k + 1]
  <2>1. CASE k < i
    BY <1>1, <1>2, <1>4, <2>1
  <2>2. CASE ~(k < i)
    <3>1. k - (i - 1) \in 1 .. Len(t) - i /\ i + (k - (i - 1)) = k + 1
      BY <1>1, <2>2
    <3> QED
      BY <1>1, <1>3, <1>4, <2>2, <3>1
  <2> QED
    BY <2>1, <2>2
<1> QED
  BY <1>4, <1>5 DEF Without, a, b

\* In m an element of t has moved from i to j: it has arrived, the others made
\* way, and nothing beyond both places is touched.
Moved(m, t, i, j) ==
    /\ Len(m) = Len(t) /\ m[j] = t[i]
    /\ \A k \in 1 .. Len(t) : \E l \in 1 .. Len(t) :
          m[k] = t[l] /\ (k > i /\ k > j => l = k)

\* MovedTo() does that.
LEMMA MovedToFacts ==
  ASSUME NEW S, NEW t \in Seq(S), NEW i \in 1 .. Len(t), NEW j \in 1 .. Len(t)
  PROVE  MovedTo(t, i, j) \in Seq(S) /\ Moved(MovedTo(t, i, j), t, i, j)
<1> DEFINE w == Without(t, i)
           a == SubSeq(w, 1, j - 1)
           b == SubSeq(w, j, Len(w))
           c == a \o <<t[i]>>
           m == c \o b
           n == Len(t)
<1>1. n \in Nat /\ \A k \in 1 .. n : t[k] \in S
  BY LenProperties, ElementOfSeq
<1>2. /\ w \in Seq(S) /\ Len(w) = n - 1
      /\ \A k \in 1 .. n - 1 : w[k] = IF k < i THEN t[k] ELSE t[k + 1]
  BY WithoutFacts
<1>3. \A k \in 1 .. n - 1 : w[k] \in S
  BY <1>2, ElementOfSeq
<1> HIDE DEF w
<1>4. a \in Seq(S) /\ Len(a) = j - 1 /\ \A k \in 1 .. j - 1 : a[k] = w[k]
  <2>1. \A k \in 1 .. j - 1 : w[k] \in S
    BY <1>1, <1>3
  <2> QED
    BY <1>1, <2>1, SubSeqProperties
<1>5. b \in Seq(S) /\ Len(b) = n - j /\ \A k \in 1 .. n - j : b[k] = w[j + k - 1]
  <2>1. \A k \in j .. n - 1 : w[k] \in S
    BY <1>1, <1>3
  <2> QED
    BY <1>1, <1>2, <2>1, SubSeqProperties
<1>6. <<t[i]>> \in Seq(S) /\ Len(<<t[i]>>) = 1 /\ <<t[i]>>[1] = t[i]
  BY <1>1
<1> HIDE DEF a, b
<1>7. /\ c \in Seq(S) /\ Len(c) = j
      /\ \A k \in 1 .. j : c[k] = IF k <= j - 1 THEN a[k] ELSE <<t[i]>>[k - (j - 1)]
  BY <1>1, <1>4, <1>6, ConcatProperties
<1>8. (\A k \in 1 .. j - 1 : c[k] = w[k]) /\ c[j] = t[i]
  <2>1. \A k \in 1 .. j - 1 : c[k] = a[k]
    BY <1>1, <1>7
  <2>2. c[j] = <<t[i]>>[j - (j - 1)] /\ j - (j - 1) = 1
    BY <1>1, <1>7
  <2> QED
    BY <1>4, <1>6, <2>1, <2>2
<1> HIDE DEF c
<1>9. /\ m \in Seq(S) /\ Len(m) = n
      /\ \A k \in 1 .. n : m[k] = IF k <= j THEN c[k] ELSE b[k - j]
  BY <1>1, <1>5, <1>7, ConcatProperties
<1> HIDE DEF m
<1>10. /\ m[j] = t[i]
       /\ \A k \in 1 .. j - 1 : m[k] = w[k]
       /\ \A k \in j + 1 .. n : m[k] = w[k - 1]
  <2>1. ASSUME NEW k \in j + 1 .. n
        PROVE  m[k] = w[k - 1]
    <3>1. k - j \in 1 .. n - j /\ j + (k - j) - 1 = k - 1 /\ ~(k <= j) /\ k \in 1 .. n
      BY <1>1
    <3> QED
      BY <1>5, <1>9, <3>1
  <2>2. ASSUME NEW k \in 1 .. j
        PROVE  m[k] = c[k]
    BY <1>1, <1>9
  <2> QED
    BY <1>1, <1>8, <2>1, <2>2
<1>11. ASSUME NEW k \in 1 .. n
       PROVE  \E l \in 1 .. n : m[k] = t[l] /\ (k > i /\ k > j => l = k)
  <2>1. CASE k = j
    BY <1>1, <1>10, <2>1
  <2>2. CASE k < j
    <3>1. k \in 1 .. j - 1 /\ k \in 1 .. n - 1 /\ k + 1 \in 1 .. n
      BY <1>1, <2>2
    <3>2. m[k] = IF k < i THEN t[k] ELSE t[k + 1]
      BY <1>2, <1>10, <3>1
    <3> QED
      BY <1>1, <2>2, <3>1, <3>2
  <2>3. CASE k > j
    <3>1. k \in j + 1 .. n /\ k - 1 \in 1 .. n - 1 /\ (k - 1) + 1 = k
      BY <1>1, <2>3
    <3>2. m[k] = IF k - 1 < i THEN t[k - 1] ELSE t[k]
      BY <1>2, <1>10, <3>1
    <3> QED
      BY <1>1, <2>3, <3>1, <3>2
  <2> QED
    BY <1>1, <2>1, <2>2, <2>3
<1>12. MovedTo(t, i, j) = m
  BY DEF MovedTo, m, a, b, c, w
<1> QED
  BY <1>9, <1>10, <1>11, <1>12 DEF Moved

\* The rows listed are in front and fit the symbols they are listed from.
LEMMA ListingFacts ==
  ASSUME NEW t \in Seq(Symbols), NEW room \in Nat
  PROVE  Listing(t, room) \in Seq(Kid) /\ RowsFit(Listing(t, room), t)
<1> DEFINE n    == IF Len(t) > room THEN room ELSE Len(t)
           rows == [i \in 1 .. n |-> [sym |-> t[i], ix |-> i]]
           more == IF n < Len(t) THEN <<Other("more")>> ELSE <<>>
           pill == <<Other(IF Len(t) < MaxSymbols THEN "add" ELSE "full")>>
           head == rows \o more
           all  == head \o pill
<1>1. Len(t) \in Nat /\ \A k \in 1 .. Len(t) : t[k] \in Symbols
  BY LenProperties, ElementOfSeq
<1>2. n \in Nat /\ n <= Len(t)
  BY <1>1
<1> HIDE DEF n
<1>3. \A i \in 1 .. n : [sym |-> t[i], ix |-> i] \in Kid
  BY <1>1, <1>2 DEF Kid
<1>4. rows \in Seq(Kid) /\ Len(rows) = n
  BY <1>2, <1>3
<1>5. \A i \in 1 .. n : rows[i].ix = i /\ rows[i].sym = t[i]
  OBVIOUS
<1>6. more \in Seq(Kid) /\ Len(more) \in Nat /\ \A k \in 1 .. Len(more) : more[k].ix = 0
  <2>1. Other("more") \in Kid /\ Other("more").ix = 0
    BY DEF Kid, Other
  <2> QED
    BY <2>1
<1>7. pill \in Seq(Kid) /\ Len(pill) = 1 /\ \A k \in 1 .. Len(pill) : pill[k].ix = 0
  <2>1. \A what \in {"add", "full"} : Other(what) \in Kid /\ Other(what).ix = 0
    BY DEF Kid, Other
  <2> QED
    BY <2>1
<1> HIDE DEF rows, more, pill
<1>8. /\ head \in Seq(Kid) /\ Len(head) = n + Len(more)
      /\ \A k \in 1 .. n + Len(more) : head[k] = IF k <= n THEN rows[k] ELSE more[k - n]
  BY <1>4, <1>6, ConcatProperties
<1> HIDE DEF head
<1>9. /\ all \in Seq(Kid) /\ Len(all) = n + Len(more) + 1
      /\ \A k \in 1 .. n + Len(more) + 1 :
            all[k] = IF k <= n + Len(more) THEN head[k] ELSE pill[k - (n + Len(more))]
  <2>1. /\ all \in Seq(Kid) /\ Len(all) = Len(head) + Len(pill)
        /\ \A k \in 1 .. Len(head) + Len(pill) :
              all[k] = IF k <= Len(head) THEN head[k] ELSE pill[k - Len(head)]
    BY <1>7, <1>8, ConcatProperties
  <2> QED
    BY <1>7, <1>8, <2>1
<1> HIDE DEF all
<1>10. Listing(t, room) = all
  BY DEF Listing, all, head, rows, more, pill, n
<1>11. ASSUME NEW k \in 1 .. Len(all), all[k].ix # 0
       PROVE  k <= n /\ all[k].ix = k /\ all[k].sym = t[k]
  <2>1. CASE k <= n
    <3>1. all[k] = rows[k]
      BY <1>2, <1>6, <1>8, <1>9, <2>1
    <3> QED
      BY <1>2, <1>5, <2>1, <3>1
  <2>2. CASE n < k /\ k <= n + Len(more)
    <3>1. all[k] = more[k - n] /\ k - n \in 1 .. Len(more)
      BY <1>2, <1>6, <1>8, <1>9, <2>2
    <3> QED
      BY <1>6, <1>11, <3>1
  <2>3. CASE k = n + Len(more) + 1
    <3>1. all[k] = pill[1]
      BY <1>2, <1>6, <1>7, <1>9, <2>3
    <3> QED
      BY <1>7, <1>11, <3>1
  <2>4. k <= n \/ (n < k /\ k <= n + Len(more)) \/ k = n + Len(more) + 1
    <3>1. Len(all) = n + Len(more) + 1 /\ Len(more) \in Nat
      BY <1>6, <1>9
    <3>2. k \in 1 .. n + Len(more) + 1
      BY <3>1
    <3> QED
      BY <1>2, <3>1, <3>2
  <2> QED
    BY <2>1, <2>2, <2>3, <2>4
<1>12. RowsFit(all, t)
  BY <1>1, <1>2, <1>11 DEF RowsFit
<1> QED
  BY <1>9, <1>10, <1>12

-----------------------------------------------------------------------------
(* Lemmas about entering a screen.                                         *)

\* No rows fit any symbols.
LEMMA NoRows == \A t : RowsFit(<<>>, t)
BY DEF RowsFit

\* A screen just entered is sound if its rows fit.
LEMMA CalmIsSound ==
  ASSUME NEW u, NEW v, NEW t, Calm(u, v), RowsFit(u.kids, t)
  PROVE  UiOK(u, t)
BY DEF Calm, UiOK, Kept, RowHeld

\* Using a widget of a screen that is built changes nothing.
LEMMA TouchNothing ==
  ASSUME NEW u \in Widgets, NEW v \in u.built
  PROVE  Touch(u, v) = u /\ Build(u, v) = u
<1>1. v \in Sub /\ u.dead \cup ({v} \ u.built) = u.dead
  BY DEF Widgets
<1>2. u.built \cup {v} = u.built
  OBVIOUS
<1>3. [u EXCEPT !.dead = u.dead] = u /\ [u EXCEPT !.built = u.built] = u
  BY DEF Widgets
<1> QED
  BY <1>1, <1>2, <1>3 DEF Touch, Build

\* The screen shown may be asked for again.
LEMMA ShowAgain ==
  ASSUME NEW u \in Widgets, Has(u, {u.view})
  PROVE  Show(u, u.view) = u
<1>1. [u EXCEPT !.view = u.view] = u
  BY DEF Widgets
<1>2. CASE u.view = "LIST"
  BY <1>1, <1>2 DEF Show, Build
<1>3. CASE u.view # "LIST"
  <2>1. u.view \in u.built
    BY <1>3 DEF Has
  <2> QED
    BY <1>1, <2>1, TouchNothing DEF Show
<1> QED
  BY <1>2, <1>3

\* Another screen is entered without rows.
LEMMA ShowCalm ==
  ASSUME NEW t, NEW u, UiOK(u, t), NEW v \in Views, v # u.view
  PROVE  Calm(Show(u, v), v) /\ Show(u, v).kids = <<>>
<1>1. u \in Widgets /\ Kept(u) /\ Has(u, {u.view}) /\ (u.kids # <<>> => u.view = "MANAGE")
  BY DEF UiOK
<1> QED
  BY <1>1, ShowFacts DEF Calm

\* Leaving the settings, from wherever.
LEMMA ListCalm ==
  ASSUME NEW t, NEW u, UiOK(u, t)
  PROVE  /\ Calm(Show(u, "LIST"), "LIST") /\ Show(u, "LIST").kids = <<>>
         /\ LeaveSettings(u) = Show(u, "LIST")
<1>1. CASE u.view # "LIST"
  <2>1. LeaveSettings(u) = Show(u, "LIST")
    BY <1>1 DEF LeaveSettings, Show, Build
  <2> QED
    BY <1>1, <2>1, ShowCalm DEF Views
<1>2. CASE u.view = "LIST"
  <2>1. u \in Widgets /\ Has(u, {"LIST"}) /\ Kept(u) /\ u.kids = <<>> /\ u.built = {}
    BY <1>2 DEF UiOK, Has
  <2>2. Calm(u, "LIST")
    BY <1>2, <2>1 DEF Calm, Kept, Widgets
  <2>3. Show(u, "LIST") = u
    BY <1>2, <2>1, ShowAgain
  <2>4. LeaveSettings(u) = u
    <3>1. Destroy(u, "LIST") = [u EXCEPT !.built = u.built]
      BY <2>1 DEF Destroy
    <3> QED
      BY <1>2, <3>1 DEF LeaveSettings, Widgets, UiOK
  <2> QED
    BY <2>1, <2>2, <2>3, <2>4
<1> QED
  BY <1>1, <1>2

\* The Manage screen filled from symbols t, whether or not it is shown.
LEMMA FillFacts ==
  ASSUME NEW u \in Widgets, NEW t \in Seq(Symbols), NEW room \in Nat
  PROVE  Fill(u, t, room) = [u EXCEPT !.built = @ \cup {"MANAGE"}, !.kids = Listing(t, room)]
         /\ Fill(u, t, room) \in Widgets
<1>1. Listing(t, room) \in Seq(Kid)
  BY ListingFacts
<1> DEFINE b == [u EXCEPT !.built = @ \cup {"MANAGE"}]
<1>2. b \in Widgets /\ "MANAGE" \in b.built
  BY DEF Widgets, Sub
<1>3. Touch(b, "MANAGE") = b
  BY <1>2, TouchNothing
<1>4. Build(u, "MANAGE") = b
  BY DEF Build
<1> HIDE DEF b
<1>5. Fill(u, t, room) = [b EXCEPT !.kids = Listing(t, room)]
  BY <1>3, <1>4 DEF Fill
<1>6. [b EXCEPT !.kids = Listing(t, room)] \in Widgets
  BY <1>1, <1>2 DEF Widgets
<1> QED
  BY <1>5, <1>6 DEF b

\* What the entry points prepare before they show a screen.
LEMMA PrepareFacts ==
  ASSUME NEW u \in Widgets, NEW v \in Sub, NEW room \in Nat, table \in Seq(Symbols)
  PROVE  LET p == Prepare(u, v, room) IN
         /\ p \in Widgets /\ p.view = u.view /\ p.dead = u.dead
         /\ p.built \in {u.built, u.built \cup {v}}
         /\ p.finger = u.finger /\ p.menu = u.menu /\ p.held = u.held /\ p.rebuild = u.rebuild
         /\ p.shown = u.shown
         /\ p.kids = IF v = "MANAGE" THEN Listing(table, room) ELSE u.kids
<1>1. CASE v = "MANAGE"
  <2>1. Prepare(u, v, room) = [u EXCEPT !.built = @ \cup {"MANAGE"}, !.kids = Listing(table, room)]
        /\ Prepare(u, v, room) \in Widgets
    BY <1>1, FillFacts DEF Prepare
  <2> QED
    BY <1>1, <2>1 DEF Widgets
<1>2. CASE v \in {"PASSWORD", "ADD", "UPDATES", "CITIES"}
  <2> DEFINE b == [u EXCEPT !.built = @ \cup {v}]
  <2>1. b \in Widgets /\ v \in b.built
    BY DEF Widgets
  <2>2. Prepare(u, v, room) = b
    BY <1>2, <2>1, TouchNothing
      DEF Prepare, SetSsid, ResetAdd, ResetUpdates, ShowCities, Build, Sub
  <2> QED
    BY <1>2, <2>1, <2>2 DEF Widgets
<1>3. CASE v \notin {"MANAGE", "PASSWORD", "ADD", "UPDATES", "CITIES"}
  BY <1>3 DEF Prepare
<1> QED
  BY <1>1, <1>2, <1>3

\* A screen that is entered by one of the entry points has the rows it should.
LEMMA EnterCalm ==
  ASSUME NEW u, NEW v \in Sub, NEW room \in Nat, table \in Seq(Symbols),
         UiOK(u, table), v # u.view
  PROVE  Calm(Enter(u, v, room), v) /\ UiOK(Enter(u, v, room), table)
<1> DEFINE p == Prepare(u, v, room)
           e == Show(p, v)
<1>1. u \in Widgets /\ Kept(u) /\ Has(u, {u.view}) /\ (u.kids # <<>> => u.view = "MANAGE")
  BY DEF UiOK
<1>2. /\ p \in Widgets /\ p.view = u.view /\ p.dead = u.dead
      /\ p.built \in {u.built, u.built \cup {v}}
      /\ p.finger = u.finger /\ p.menu = u.menu /\ p.held = u.held /\ p.rebuild = u.rebuild
      /\ p.shown = u.shown
      /\ p.kids = IF v = "MANAGE" THEN Listing(table, room) ELSE u.kids
  BY <1>1, PrepareFacts
<1> HIDE DEF p
<1>3. v # "LIST" /\ v \in Views
  BY DEF Sub, Views
<1>4. Kept(p)
  BY <1>1, <1>2 DEF Kept
<1>5. Has(p, {p.view}) \/ Has(p, {p.view, v})
  BY <1>1, <1>2, <1>3 DEF Has
<1>6. /\ e \in Widgets /\ e.view = v /\ Has(e, {v})
      /\ e.finger = None /\ e.menu = None /\ e.held = FALSE /\ e.rebuild = FALSE
      /\ e.kids = IF p.view = "MANAGE" THEN <<>> ELSE p.kids
  BY <1>2, <1>3, <1>4, <1>5, ShowFacts
<1> HIDE DEF e
<1>7. (e.kids # <<>> => v = "MANAGE") /\ RowsFit(e.kids, table)
  <2>1. e.kids = <<>> \/ (v = "MANAGE" /\ e.kids = Listing(table, room))
    BY <1>1, <1>2, <1>6
  <2> QED
    BY <2>1, ListingFacts, NoRows
<1>8. Calm(e, v)
  BY <1>6, <1>7 DEF Calm
<1>9. Enter(u, v, room) = e
  BY DEF Enter, e, p
<1> QED
  BY <1>7, <1>8, <1>9, CalmIsSound

-----------------------------------------------------------------------------
(* The invariant is inductive: one lemma for each group of actions.        *)

LEMMA InitIInv == Init => IInv
<1> SUFFICES ASSUME Init PROVE IInv
  OBVIOUS
<1>1. /\ Fresh \in Widgets /\ Fresh.view = "LIST" /\ Has(Fresh, {"LIST"})
      /\ Calm(Fresh, "LIST") /\ Fresh.kids = <<>>
  BY FreshSound DEF Fresh, Calm
<1>2. UiOK(ui, table)
  BY <1>1, NoRows, CalmIsSound DEF Init
<1>3. Nothing \in [Nets -> Kinds]
  BY DEF Nothing, Kinds
<1>4. table \in Seq(Symbols)
  <2>1. <<>> \in Seq(Symbols) /\ \A x \in Symbols : <<x>> \in Seq(Symbols)
    BY EmptySeq
  <2> QED
    BY <2>1 DEF Init
<1> QED
  BY <1>1, <1>2, <1>3, <1>4 DEF Init, IInv, ScreensTypeOK, Covered, OverDisplay, None

\* After a screen has been entered the invariant holds.
LEMMA CalmKeeps ==
  ASSUME IInv, NEW v \in Views, Calm(ui', v), UiOK(ui', table'),
         active' = "watchlist" => v = "LIST",
         active' \in {"watchlist", "settings"},
         NoPicker',
         table' \in Seq(Symbols), match' \in Symbols \cup {None}, nets' \in [Nets -> Kinds]
  PROVE  IInv'
<1>1. ui' \in Widgets /\ ui'.view = v
  BY DEF Calm
<1> QED
  BY <1>1 DEF IInv, ScreensTypeOK, Covered, OverDisplay, NoPicker

\* A step that stays on the screen shown, under no dialog or under its own.
LEMMA SameScreenKeeps ==
  ASSUME IInv, ui'.view = ui.view, UiOK(ui', table'), UNCHANGED active,
         OverDisplay',
         table' \in Seq(Symbols), match' \in Symbols \cup {None}, nets' \in [Nets -> Kinds]
  PROVE  IInv'
<1>1. ui' \in Widgets
  BY DEF UiOK
<1> QED
  BY <1>1 DEF IInv, ScreensTypeOK, Covered, OverDisplay

\* The time pickers are left as they are.
LEMMA PickerStays ==
  ASSUME IInv, UNCHANGED picking
  PROVE  /\ ui'.view = ui.view => OverDisplay'
         /\ dialog = 0 \/ ui.view # "DISPLAY" => NoPicker'
BY DEF IInv, Covered, OverDisplay, NoPicker, picking

\* "Settings", "Exit" and the back button.
LEMMA NavBackKeep ==
  ASSUME IInv, Nav \/ Back
  PROVE  IInv'
<1>1. UiOK(ui, table) /\ ui \in Widgets
  BY DEF IInv, ScreensTypeOK
<1>2. CASE Nav
  <2>1. ui' = Show(ui, "LIST") /\ dialog = 0 /\ UNCHANGED picking
    BY <1>1, <1>2, ListCalm DEF Nav, Idle
  <2>2. Calm(ui', "LIST") /\ ui'.kids = <<>>
    BY <1>1, <2>1, ListCalm
  <2>3. UiOK(ui', table')
    BY <2>2, NoRows, CalmIsSound
  <2> QED
    BY <1>2, <2>1, <2>2, <2>3, CalmKeeps, PickerStays DEF Nav, IInv, ScreensTypeOK, Views
<1>3. CASE Back
  <2>1. ui.view \in Sub /\ active = "settings" /\ dialog = 0
    BY <1>3 DEF Back, Tap, Idle, InSettings
  <2>2. ui.built = {ui.view}
    BY <1>1, <2>1 DEF UiOK, Has, Sub
  <2>3. ui' = Show(ui, Above(ui.view))
    BY <1>1, <1>3, <2>2, TouchNothing DEF Back
  <2>4. Above(ui.view) \in Views /\ Above(ui.view) # ui.view
    BY <2>1 DEF Above, Views, Sub
  <2>5. Calm(ui', Above(ui.view)) /\ ui'.kids = <<>>
    BY <1>1, <2>3, <2>4, ShowCalm
  <2>6. UiOK(ui', table')
    BY <2>5, NoRows, CalmIsSound
  <2> QED
    BY <1>3, <2>1, <2>4, <2>5, <2>6, CalmKeeps, PickerStays DEF Back, IInv, ScreensTypeOK
<1> QED
  BY <1>2, <1>3

\* Rows that lead to a sub-screen.
LEMMA RowClickKeeps ==
  ASSUME IInv, NEW v \in Sub, NEW room \in Room, RowClick(v, room)
  PROVE  IInv'
<1>1. UiOK(ui, table) /\ ui \in Widgets /\ table \in Seq(Symbols) /\ room \in Nat
      /\ v \in Views /\ v # "LIST"
  BY ScreensAssumption DEF IInv, ScreensTypeOK, Views, Sub
<1>2. v # ui.view
  BY DEF RowClick, Below
<1>3. Calm(ui', v) /\ UiOK(ui', table)
  BY <1>1, <1>2, EnterCalm DEF RowClick
<1>4. active' = "settings" /\ dialog = 0 /\ UNCHANGED <<picking, table, match, nets>>
  BY DEF RowClick, Tap, Idle, InSettings, IInv, ScreensTypeOK
<1> QED
  BY <1>1, <1>3, <1>4, CalmKeeps, PickerStays DEF IInv, ScreensTypeOK

\* The developer console's jumps, under whatever picker.
LEMMA DevNavKeeps ==
  ASSUME IInv, NEW v \in DevTargets, NEW room \in Room, DevNav(v, room)
  PROVE  IInv'
<1>1. UiOK(ui, table) /\ ui \in Widgets /\ table \in Seq(Symbols) /\ room \in Nat
  BY ScreensAssumption DEF IInv, ScreensTypeOK
<1>2. NoPicker'
  <2>1. dialog' \in Nat
    BY DEF DevNav, picking, IInv, ScreensTypeOK
  <2>2. picker' \in BOOLEAN
    BY DEF DevNav, picking, IInv, ScreensTypeOK
  <2> QED
    BY <2>1, <2>2 DEF NoPicker
<1>3. /\ active' \in {"watchlist", "settings"} /\ (active' = "watchlist" => v = "WATCHLIST")
      /\ UNCHANGED <<table, nets>> /\ match' \in Symbols \cup {None}
  BY DEF DevNav, IInv, ScreensTypeOK
<1> DEFINE l == Show(ui, "LIST")
<1>4. Calm(l, "LIST") /\ l.kids = <<>> /\ LeaveSettings(ui) = l
  BY <1>1, ListCalm
<1>5. UiOK(l, table) /\ l.view = "LIST"
  BY <1>4, NoRows, CalmIsSound DEF Calm
<1>6. ui' = IF v \in Sub THEN Enter(l, v, room) ELSE l
  BY <1>4 DEF DevNav, Jumped, Sub
<1> HIDE DEF l
<1>7. CASE v \in Sub
  <2>1. v \in Views /\ v # "LIST" /\ v # "WATCHLIST"
    BY <1>7 DEF Views, Sub
  <2>2. Calm(ui', v) /\ UiOK(ui', table)
    BY <1>1, <1>5, <1>6, <1>7, <2>1, EnterCalm
  <2> QED
    BY <1>1, <1>2, <1>3, <2>1, <2>2, CalmKeeps DEF IInv, ScreensTypeOK
<1>8. CASE v \notin Sub
  <2>1. Calm(ui', "LIST") /\ UiOK(ui', table)
    BY <1>4, <1>5, <1>6, <1>8
  <2> QED
    BY <1>1, <1>2, <1>3, <2>1, CalmKeeps DEF IInv, ScreensTypeOK, Views
<1> QED
  BY <1>7, <1>8

\* "Add symbol" and "Add network".
LEMMA AddScreensKeep ==
  ASSUME IInv, AddRowClick \/ AddNetwork
  PROVE  IInv'
<1>1. UiOK(ui, table) /\ ui \in Widgets /\ table \in Seq(Symbols) /\ 0 \in Nat
  BY DEF IInv, ScreensTypeOK
<1>2. PICK v \in {"ADD", "PASSWORD"} : v # ui.view /\ ui' = Enter(ui, v, 0)
  BY DEF AddRowClick, AddNetwork, Tap, InSettings
<1>3. v \in Sub /\ v \in Views
  BY DEF Sub, Views
<1>4. Calm(ui', v) /\ UiOK(ui', table)
  BY <1>1, <1>2, <1>3, EnterCalm
<1>5. active' = "settings" /\ dialog = 0 /\ UNCHANGED <<picking, table, nets>>
      /\ match' \in Symbols \cup {None}
  BY DEF AddRowClick, AddNetwork, Tap, Idle, InSettings, IInv, ScreensTypeOK
<1> QED
  BY <1>1, <1>3, <1>4, <1>5, CalmKeeps, PickerStays DEF IInv, ScreensTypeOK

\* Settings picked on a screen, a search, a picker that is opened.
LEMMA PicksKeep ==
  ASSUME IInv, Pick \/ NightTime \/ \E s \in Symbols \cup {None} : Search(s)
  PROVE  IInv'
<1>1. UiOK(ui, table) /\ ui \in Widgets
  BY DEF IInv, ScreensTypeOK
<1>2. \A v \in Sub : ui.view = v => Touch(ui, v) = ui /\ Touch(Build(ui, v), v) = ui
  <2>1. \A v \in Sub : ui.view = v => v \in ui.built
    BY <1>1 DEF UiOK, Has, Sub
  <2> QED
    BY <1>1, <2>1, TouchNothing
<1>3. ui' = ui
  BY <1>2 DEF Pick, NightTime, Search, Tap, InSettings, Sub
<1>4. UiOK(ui', table') /\ UNCHANGED <<active, table, nets>>
  BY <1>1, <1>3 DEF Pick, NightTime, Search
<1>5. OverDisplay'
  <2>1. CASE UNCHANGED picking
    BY <1>3, <2>1, PickerStays
  <2>2. CASE NightTime
    BY <1>3, <2>2 DEF NightTime, Tap, InSettings, OverDisplay
  <2> QED
    BY <2>1, <2>2 DEF Pick, Search
<1>6. match' \in Symbols \cup {None}
  BY DEF Pick, NightTime, Search, IInv, ScreensTypeOK
<1> QED
  BY <1>3, <1>4, <1>5, <1>6, SameScreenKeeps DEF IInv, ScreensTypeOK

\* A picker that is closed uses the Display screen and its own rollers, which
\* exist unless a console has jumped.
LEMMA NightTimeCloseKeeps ==
  ASSUME IInv, NightTimeClose
  PROVE  IInv'
<1>1. UiOK(ui, table) /\ ui \in Widgets /\ UNCHANGED <<active, table, match, nets>>
  BY DEF IInv, ScreensTypeOK, NightTimeClose
<1>2. CASE DevTargets = {}
  <2>1. dialog = 1 /\ picker /\ ui.view = "DISPLAY"
    BY <1>2 DEF NightTimeClose, IInv, Covered, OverDisplay
  <2>2. "DISPLAY" \in ui.built
    BY <1>1, <2>1 DEF UiOK, Has
  <2>3. ui' = ui /\ dialog' = 0 /\ picker' = FALSE
    BY <1>1, <2>1, <2>2, TouchNothing DEF NightTimeClose
  <2> QED
    BY <1>1, <2>3, SameScreenKeeps DEF OverDisplay, IInv, ScreensTypeOK
<1>3. CASE DevTargets # {}
  <2>1. PICK v \in {"DISPLAY", "NIGHT_TIME"} : ui' = [ui EXCEPT !.dead = @ \cup ({v} \ ui.built)]
    BY DEF NightTimeClose, Touch
  <2>2. v \in Excused /\ v \in Sub \cup {"NIGHT_TIME"}
    BY <1>3 DEF Excused, Sub
  <2>3. UiOK(ui', table') /\ ui'.view = ui.view
    BY <1>1, <2>1, <2>2 DEF UiOK, Widgets, Has, Kept, RowHeld
  <2>4. dialog' \in Nat
    <3>1. dialog \in Nat /\ dialog # 0 /\ dialog' \in {dialog, dialog - 1}
      BY DEF NightTimeClose, picking, IInv, ScreensTypeOK
    <3> QED
      BY <3>1
  <2>5. picker' \in BOOLEAN
    BY DEF NightTimeClose, picking, IInv, ScreensTypeOK
  <2> QED
    BY <1>1, <1>3, <2>3, <2>4, <2>5, SameScreenKeeps DEF OverDisplay, IInv, ScreensTypeOK
<1> QED
  BY <1>2, <1>3

\* A symbol is removed through its row, or a row is picked up.
LEMMA RowPressKeeps ==
  ASSUME IInv, NEW i, Remove(i) \/ DragPressed(i)
  PROVE  IInv'
<1>1. UiOK(ui, table) /\ ui \in Widgets /\ table \in Seq(Symbols)
  BY DEF IInv, ScreensTypeOK
<1>2. /\ i \in 1 .. Len(ui.kids) /\ ui.kids[i].ix # 0 /\ ui.view = "MANAGE"
      /\ ~ui.rebuild /\ ~ui.held /\ dialog = 0 /\ UNCHANGED <<active, picking, match, nets>>
  BY DEF Remove, DragPressed, Tap, Idle, InSettings
<1>3. /\ ui.kids[i].ix \in Nat /\ ui.kids[i].ix <= Len(table)
      /\ Len(table) \in Nat
  <2>1. ui.kids[i] \in Kid
    BY <1>1, <1>2, ElementOfSeq DEF Widgets
  <2> QED
    BY <1>1, <1>2, <2>1, LenProperties DEF UiOK, RowsFit, Kid
<1>4. ui.kids[i].ix \in 1 .. Len(table)
  BY <1>2, <1>3
<1>5. CASE Remove(i)
  <2>1. table' \in Seq(Symbols)
    BY <1>1, <1>4, <1>5, WithoutFacts DEF Remove
  <2>2. ui' = [ui EXCEPT !.rebuild = TRUE]
    BY <1>5 DEF Remove, AfterEdit, Queue
  <2>3. UiOK(ui', table') /\ ui'.view = ui.view
    BY <1>1, <1>2, <2>2 DEF UiOK, Widgets, Has, Kept, RowHeld
  <2> QED
    BY <1>2, <2>1, <2>3, SameScreenKeeps, PickerStays DEF IInv, ScreensTypeOK
<1>6. CASE DragPressed(i)
  <2>1. ui' = [ui EXCEPT !.held = TRUE, !.drag = ui.kids[i].ix] /\ table' = table
    BY <1>6 DEF DragPressed
  <2>2. UiOK(ui', table') /\ ui'.view = ui.view
    BY <1>1, <1>2, <1>3, <2>1 DEF UiOK, Widgets, Has, Kept, RowHeld
  <2> QED
    BY <1>1, <1>2, <2>1, <2>2, SameScreenKeeps, PickerStays DEF IInv, ScreensTypeOK
<1> QED
  BY <1>5, <1>6

\* The row that is dragged, and where it stands.
LEMMA DraggedFacts ==
  ASSUME IInv, ui.held
  PROVE  /\ Dragged \in 1 .. Len(ui.kids) /\ ui.kids[Dragged].ix = ui.drag
         /\ Dragged \in 1 .. Len(table) /\ ui.drag \in 1 .. Len(table)
         /\ RowsFit(ui.kids, table)
<1>1. UiOK(ui, table) /\ ui \in Widgets /\ table \in Seq(Symbols)
  BY DEF IInv, ScreensTypeOK
<1>2. ui.drag # 0 /\ \E i \in 1 .. Len(ui.kids) : ui.kids[i].ix = ui.drag
  BY <1>1 DEF UiOK, RowHeld
<1>3. Dragged \in 1 .. Len(ui.kids) /\ ui.kids[Dragged].ix = ui.drag
  BY <1>2 DEF Dragged
<1>4. RowsFit(ui.kids, table)
  BY <1>1 DEF UiOK
<1>5. Dragged <= Len(table) /\ ui.drag <= Len(table)
  BY <1>2, <1>3, <1>4 DEF RowsFit
<1>6. ui.drag \in Nat /\ Len(table) \in Nat /\ Len(ui.kids) \in Nat
  BY <1>1, LenProperties DEF Widgets
<1> QED
  BY <1>2, <1>3, <1>4, <1>5, <1>6

\* The finger moves the row it holds.
LEMMA DragPressingKeeps ==
  ASSUME IInv, NEW j, DragPressing(j)
  PROVE  IInv'
<1>1. UiOK(ui, table) /\ ui \in Widgets /\ table \in Seq(Symbols) /\ ui.kids \in Seq(Kid)
  BY DEF IInv, ScreensTypeOK, Widgets
<1>2. ui.held /\ j \in 1 .. Len(table) /\ j <= Len(ui.kids)
      /\ UNCHANGED <<active, picking, table, match, nets>>
  BY DEF DragPressing
<1> DEFINE kids == MovedTo(ui.kids, Dragged, j)
<1>3. ui' = [ui EXCEPT !.kids = kids]
  BY DEF DragPressing
<1>4. Len(table) \in Nat /\ Len(ui.kids) \in Nat /\ j \in 1 .. Len(ui.kids)
  BY <1>1, <1>2, LenProperties
<1>5. /\ kids \in Seq(Kid) /\ Len(kids) = Len(ui.kids) /\ kids[j] = ui.kids[Dragged]
      /\ \A k \in 1 .. Len(ui.kids) : \E l \in 1 .. Len(ui.kids) :
            kids[k] = ui.kids[l] /\ (k > Dragged /\ k > j => l = k)
  <2>1. Dragged \in 1 .. Len(ui.kids)
    BY <1>2, DraggedFacts
  <2>2. kids \in Seq(Kid) /\ Moved(kids, ui.kids, Dragged, j)
    BY <1>1, <1>4, <2>1, MovedToFacts
  <2> HIDE DEF kids
  <2> QED
    BY <2>2 DEF Moved
<1> HIDE DEF kids
<1>6. RowsFit(kids, table)
  <2>1. SUFFICES ASSUME NEW k \in 1 .. Len(ui.kids), kids[k].ix # 0
                 PROVE  /\ k <= Len(table) /\ kids[k].ix <= Len(table)
                        /\ table[kids[k].ix] = kids[k].sym
    BY <1>5 DEF RowsFit
  <2>2. PICK l \in 1 .. Len(ui.kids) :
           kids[k] = ui.kids[l] /\ (k > Dragged /\ k > j => l = k)
    BY <1>5
  <2>3. l <= Len(table) /\ kids[k].ix <= Len(table) /\ table[kids[k].ix] = kids[k].sym
    BY <1>2, <2>1, <2>2, DraggedFacts DEF RowsFit
  <2>4. Dragged \in 1 .. Len(table)
    BY <1>2, DraggedFacts
  <2>5. k <= Len(table)
    BY <1>2, <1>4, <2>2, <2>3, <2>4
  <2> QED
    BY <2>3, <2>5
<1>7. RowHeld(ui')
  BY <1>1, <1>2, <1>3, <1>4, <1>5, DraggedFacts, SMTT(30) DEF RowHeld, Widgets
<1>8. ui.view = "MANAGE"
  BY <1>1, <1>2 DEF UiOK, Kept
<1>9. UiOK(ui', table') /\ ui'.view = ui.view
  BY <1>1, <1>2, <1>3, <1>5, <1>6, <1>7, <1>8 DEF UiOK, Widgets, Has, Kept
<1> QED
  BY <1>1, <1>2, <1>9, SameScreenKeeps, PickerStays DEF IInv, ScreensTypeOK, Covered

\* The finger lets the row go.
LEMMA DragReleasedKeeps ==
  ASSUME IInv, DragReleased
  PROVE  IInv'
<1>1. UiOK(ui, table) /\ ui \in Widgets /\ table \in Seq(Symbols)
  BY DEF IInv, ScreensTypeOK
<1>2. ui.held /\ UNCHANGED <<active, picking, match, nets>>
  BY DEF DragReleased
<1>3. ui.view = "MANAGE"
  BY <1>1, <1>2 DEF UiOK, Kept
<1>4. CASE Dragged = ui.drag
  <2>1. ui' = [ui EXCEPT !.held = FALSE, !.drag = 0] /\ table' = table
    BY <1>4 DEF DragReleased
  <2>2. UiOK(ui', table') /\ ui'.view = ui.view
    BY <1>1, <1>3, <2>1 DEF UiOK, Widgets, Has, Kept, RowHeld
  <2> QED
    BY <1>1, <1>2, <2>1, <2>2, SameScreenKeeps, PickerStays DEF IInv, ScreensTypeOK, Covered
<1>5. CASE Dragged # ui.drag
  <2>1. table' = MovedTo(table, ui.drag, Dragged)
        /\ ui' = [[ui EXCEPT !.held = FALSE, !.drag = 0] EXCEPT !.rebuild = TRUE]
    BY <1>5 DEF DragReleased, AfterEdit, Queue
  <2>2. table' \in Seq(Symbols)
    BY <1>1, <1>2, <2>1, DraggedFacts, MovedToFacts
  <2>3. UiOK(ui', table') /\ ui'.view = ui.view
    BY <1>1, <1>3, <2>1 DEF UiOK, Widgets, Has, Kept, RowHeld
  <2> QED
    BY <1>1, <1>2, <2>2, <2>3, SameScreenKeeps, PickerStays DEF IInv, ScreensTypeOK, Covered
<1> QED
  BY <1>4, <1>5

\* The queued call rebuilds the list, or finds another screen.
LEMMA RebuildKeeps ==
  ASSUME IInv, NEW room \in Room, RebuildRuns(room)
  PROVE  IInv'
<1>1. UiOK(ui, table) /\ ui \in Widgets /\ table \in Seq(Symbols) /\ room \in Nat
  BY ScreensAssumption DEF IInv, ScreensTypeOK
<1>2. ui.rebuild /\ ui.view = "MANAGE" /\ ~ui.held /\ ui.built = {"MANAGE"}
      /\ UNCHANGED <<active, picking, table, match, nets>>
  BY <1>1 DEF RebuildRuns, UiOK, Kept, Has, Widgets
<1> DEFINE u == [ui EXCEPT !.rebuild = FALSE]
<1>3. u \in Widgets /\ u.view = "MANAGE"
  BY <1>1, <1>2 DEF Widgets
<1>4. ui' = Fill(u, table, room)
  BY <1>3 DEF RebuildRuns
<1>5. ui' = [u EXCEPT !.built = @ \cup {"MANAGE"}, !.kids = Listing(table, room)]
      /\ ui' \in Widgets
  BY <1>1, <1>3, <1>4, FillFacts
<1>6. RowsFit(Listing(table, room), table)
  BY <1>1, ListingFacts
<1>7. /\ ui'.view = "MANAGE" /\ ui'.built = {"MANAGE"} /\ ui'.kids = Listing(table, room)
      /\ ui'.held = FALSE /\ ui'.finger = ui.finger /\ ui'.menu = ui.menu /\ ui'.dead = ui.dead
      /\ ui'.rebuild = FALSE
  BY <1>1, <1>2, <1>5 DEF Widgets
<1>8. UiOK(ui', table')
  BY <1>1, <1>2, <1>5, <1>6, <1>7 DEF UiOK, Has, Kept, RowHeld
<1> QED
  BY <1>1, <1>2, <1>7, <1>8, SameScreenKeeps, PickerStays DEF IInv, ScreensTypeOK, Covered

\* A symbol found is added, and the list is filled before it is shown.
LEMMA AddToWatchlistKeeps ==
  ASSUME IInv, NEW room \in Room, AddToWatchlist(room)
  PROVE  IInv'
<1>1. UiOK(ui, table) /\ ui \in Widgets /\ table \in Seq(Symbols) /\ room \in Nat
  BY ScreensAssumption DEF IInv, ScreensTypeOK
<1>2. /\ ui.view = "ADD" /\ active = "settings" /\ dialog = 0 /\ ~ui.held /\ ~ui.rebuild
      /\ UNCHANGED <<active, picking, match, nets>>
  BY DEF AddToWatchlist, Tap, Idle, InSettings
<1>3. table' \in Seq(Symbols)
  <2>1. match \in Symbols /\ table' = Append(table, match)
    BY DEF AddToWatchlist, IInv, ScreensTypeOK
  <2> QED
    BY <1>1, <2>1, AppendProperties
<1> DEFINE p == Fill(ui, table', room)
<1>4. p = [ui EXCEPT !.built = @ \cup {"MANAGE"}, !.kids = Listing(table', room)] /\ p \in Widgets
  BY <1>1, <1>3, FillFacts
<1>5. ui' = Show(p, "MANAGE")
  BY DEF AddToWatchlist
<1> HIDE DEF p
<1>6. /\ p.view = "ADD" /\ p.kids = Listing(table', room) /\ p.built = {"ADD", "MANAGE"}
      /\ p.dead = ui.dead /\ p.finger = ui.finger /\ p.menu = ui.menu /\ ~p.held /\ p.rebuild = FALSE
  BY <1>1, <1>2, <1>4 DEF Widgets, UiOK, Has
<1>7. Kept(p) /\ Has(p, {p.view, "MANAGE"})
  BY <1>1, <1>2, <1>6 DEF Kept, Has, UiOK
<1>8. /\ Calm(ui', "MANAGE") /\ ui'.kids = Listing(table', room)
  BY <1>4, <1>5, <1>6, <1>7, ShowFacts DEF Calm, Views, Sub
<1>9. UiOK(ui', table')
  BY <1>1, <1>3, <1>8, ListingFacts, CalmIsSound
<1> QED
  BY <1>2, <1>3, <1>8, <1>9, CalmKeeps, PickerStays DEF Views, Sub, IInv, ScreensTypeOK

\* The snapshot, the manager's events and the connect key leave the widgets.
LEMMA ReportsKeep ==
  ASSUME IInv,
         \/ \E rows \in [Nets -> Kinds] : SnapshotChanges(rows)
         \/ \E e \in {"CONNECTING", "CONNECTED", "AUTH_FAILED"} : ManagerEvent(e)
         \/ Connect
  PROVE  IInv'
<1>1. UiOK(ui, table) /\ ui \in Widgets
  BY DEF IInv, ScreensTypeOK
<1>2. ui' = ui
  <2>1. CASE Connect
    <3>1. "PASSWORD" \in ui.built
      BY <1>1, <2>1 DEF Connect, Tap, InSettings, UiOK, Has
    <3> QED
      BY <1>1, <2>1, <3>1, TouchNothing DEF Connect
  <2> QED
    BY <2>1 DEF SnapshotChanges, ManagerEvent
<1>3. UNCHANGED <<active, picking, table, match>> /\ nets' \in [Nets -> Kinds]
  BY DEF SnapshotChanges, ManagerEvent, Connect, IInv, ScreensTypeOK
<1> QED
  BY <1>1, <1>2, <1>3, SameScreenKeeps, PickerStays DEF IInv, ScreensTypeOK, Covered

\* The Wi-Fi list: redrawn, pressed, and the menu of a row.
LEMMA WifiListKeeps ==
  ASSUME IInv, UpdateWifi \/ (\E n \in Nets : Press(n)) \/ Menu
  PROVE  IInv'
<1>1. UiOK(ui, table) /\ ui \in Widgets /\ nets \in [Nets -> Kinds]
  BY DEF IInv, ScreensTypeOK
<1>2. UNCHANGED <<active, picking, table, match, nets>>
  BY DEF UpdateWifi, Press, Menu
<1>3. ui.view = "WIFI"
  BY <1>1 DEF UpdateWifi, Press, Menu, Tap, InSettings, UiOK, Kept
<1>4. "WIFI" \in ui.built
  BY <1>1, <1>3 DEF UiOK, Has
<1>5. UiOK(ui', table') /\ ui'.view = ui.view
  <2>1. CASE UpdateWifi
    <3>1. CASE ui.finger # None
      BY <1>1, <1>2, <1>4, <2>1, <3>1, TouchNothing DEF UpdateWifi, WifiUpdated
    <3>2. CASE ui.finger = None
      <4> DEFINE r == [ui EXCEPT !.shown = nets, !.listed = TRUE]
      <4>1. r \in Widgets /\ "WIFI" \in r.built
        BY <1>1, <1>4 DEF Widgets
      <4>2. ui' = r
        BY <2>1, <3>2, <4>1, TouchNothing DEF UpdateWifi, WifiUpdated, Redraw
      <4> QED
        BY <1>1, <1>2, <3>2, <4>1, <4>2 DEF UiOK, Widgets, Has, Kept, RowHeld
    <3> QED
      BY <3>1, <3>2
  <2>2. ASSUME NEW n \in Nets, Press(n)
        PROVE  UiOK(ui', table') /\ ui'.view = ui.view
    <3>1. ui' = [ui EXCEPT !.finger = n] /\ ui.shown[n] # "absent"
      BY <2>2 DEF Press
    <3> QED
      BY <1>1, <1>2, <1>3, <3>1 DEF UiOK, Widgets, Has, Kept, RowHeld
  <2>3. CASE Menu
    <3>1. PICK n \in Nets \cup {None} : ui' = [ui EXCEPT !.menu = n]
      BY <1>1, <1>4, <2>3, TouchNothing DEF Menu
    <3> QED
      BY <1>1, <1>2, <1>3, <3>1 DEF UiOK, Widgets, Has, Kept, RowHeld
  <2> QED
    BY <2>1, <2>2, <2>3
<1> QED
  BY <1>1, <1>2, <1>5, SameScreenKeeps, PickerStays DEF IInv, ScreensTypeOK, Covered

\* The finger leaves the Wi-Fi list, perhaps on a network that needs a password.
LEMMA ReleaseKeeps ==
  ASSUME IInv, Release
  PROVE  IInv'
<1>1. UiOK(ui, table) /\ ui \in Widgets /\ table \in Seq(Symbols) /\ 0 \in Nat
  BY DEF IInv, ScreensTypeOK
<1>2. UNCHANGED <<active, picking, table, match, nets>>
  BY DEF Release
<1>3. ui.view = "WIFI"
  BY <1>1 DEF Release, UiOK, Kept
<1>4. active = "settings"
  BY <1>3 DEF IInv, Covered, ScreensTypeOK
<1> DEFINE up == [ui EXCEPT !.finger = None]
<1>5. UiOK(up, table) /\ up.view = "WIFI"
  BY <1>1, <1>3 DEF UiOK, Widgets, Has, Kept, RowHeld
<1>6. ui' = up \/ ui' = Enter(up, "PASSWORD", 0)
  BY DEF Release
<1> HIDE DEF up
<1>7. CASE ui' = up
  BY <1>1, <1>2, <1>3, <1>4, <1>5, <1>7, SameScreenKeeps, PickerStays DEF IInv, ScreensTypeOK
<1>8. CASE ui' = Enter(up, "PASSWORD", 0)
  <2>1. Calm(ui', "PASSWORD") /\ UiOK(ui', table)
    BY <1>1, <1>5, <1>8, EnterCalm DEF Sub
  <2> QED
    BY <1>1, <1>2, <1>3, <1>4, <2>1, CalmKeeps, PickerStays DEF Views, Sub, IInv, ScreensTypeOK
<1> QED
  BY <1>6, <1>7, <1>8

\* The password screen looks at its attempt.
LEMMA PollKeeps ==
  ASSUME IInv, Poll
  PROVE  IInv'
<1>1. UiOK(ui, table) /\ ui \in Widgets
  BY DEF IInv, ScreensTypeOK
<1>2. UNCHANGED <<active, picking, table, match, nets>>
  BY DEF Poll
<1>3. ui.view = "PASSWORD" /\ active = "settings"
  BY DEF Poll, InSettings
<1>4. "PASSWORD" \in ui.built
  BY <1>1, <1>3 DEF UiOK, Has
<1>5. ui' = ui \/ ui' = Show(ui, "WIFI")
  BY <1>1, <1>4, TouchNothing DEF Poll
<1>6. CASE ui' = ui
  BY <1>1, <1>2, <1>6, SameScreenKeeps, PickerStays DEF IInv, ScreensTypeOK, Covered
<1>7. CASE ui' = Show(ui, "WIFI")
  <2>1. Calm(ui', "WIFI") /\ ui'.kids = <<>>
    BY <1>1, <1>3, <1>7, ShowCalm DEF Views, Sub
  <2>2. UiOK(ui', table')
    BY <2>1, NoRows, CalmIsSound
  <2> QED
    BY <1>2, <1>3, <2>1, <2>2, CalmKeeps, PickerStays DEF Views, Sub, IInv, ScreensTypeOK
<1> QED
  BY <1>5, <1>6, <1>7

\* Every step keeps the invariant.
LEMMA NextIInv == IInv /\ [Next]_vars => IInv'
<1> SUFFICES ASSUME IInv, [Next]_vars PROVE IInv'
  OBVIOUS
<1>1. CASE UNCHANGED vars
  <2>1. UNCHANGED <<active, ui, dialog, picker, table, match, nets>>
    BY <1>1 DEF vars, picking
  <2> QED
    BY <2>1 DEF IInv, ScreensTypeOK, Covered, OverDisplay
<1>2. CASE Nav \/ Back
  BY <1>2, NavBackKeep
<1>3. CASE \E v \in Sub, room \in Room : RowClick(v, room)
  BY <1>3, RowClickKeeps
<1>4. CASE \E v \in DevTargets, room \in Room : DevNav(v, room)
  BY <1>4, DevNavKeeps
<1>5. CASE AddRowClick \/ AddNetwork
  BY <1>5, AddScreensKeep
<1>6. CASE Pick \/ NightTime \/ \E s \in Symbols \cup {None} : Search(s)
  BY <1>6, PicksKeep
<1>7. CASE \E i \in 1 .. MaxSymbols + 1 : Remove(i) \/ DragPressed(i) \/ DragPressing(i)
  BY <1>7, RowPressKeeps, DragPressingKeeps
<1>8. CASE DragReleased
  BY <1>8, DragReleasedKeeps
<1>9. CASE \E room \in Room : RebuildRuns(room) \/ AddToWatchlist(room)
  BY <1>9, RebuildKeeps, AddToWatchlistKeeps
<1>10. CASE \/ \E rows \in [Nets -> Kinds] : SnapshotChanges(rows)
            \/ \E e \in {"CONNECTING", "CONNECTED", "AUTH_FAILED"} : ManagerEvent(e)
            \/ Connect
  BY <1>10, ReportsKeep
<1>11. CASE UpdateWifi \/ (\E n \in Nets : Press(n)) \/ Menu
  BY <1>11, WifiListKeeps
<1>12. CASE Release
  BY <1>12, ReleaseKeeps
<1>13. CASE Poll
  BY <1>13, PollKeeps
<1>14. CASE NightTimeClose
  BY <1>14, NightTimeCloseKeeps
<1> QED
  BY <1>1, <1>2, <1>3, <1>4, <1>5, <1>6, <1>7, <1>8, <1>9, <1>10, <1>11, <1>12, <1>13,
     <1>14
  DEF Next, Timer

-----------------------------------------------------------------------------
(* The theorems.                                                           *)

LEMMA SpecIInv == Spec => []IInv
<1> QED
  BY InitIInv, NextIInv, PTL DEF Spec

\* The widgets, the watchlist and the Wi-Fi list are always what their types
\* say, whatever is tapped, queued or reported.
THEOREM TypeCorrect == Spec => []ScreensTypeOK
<1>1. IInv => ScreensTypeOK
  BY DEF IInv
<1> QED
  BY <1>1, SpecIInv, PTL

\* In a release the callbacks of display_ui.c only ever use widgets that exist,
\* and with a console all but those that close the time picker do; nothing but
\* the widgets of the screen shown exists.
THEOREM WidgetsAlwaysThoseShown == Spec => []WidgetsAreThoseShown
<1>1. IInv => WidgetsAreThoseShown
  BY DEF IInv, UiOK, Has, Kept, WidgetsAreThoseShown
<1> QED
  BY <1>1, SpecIInv, PTL

\* The index a row of the watchlist editor knows is that of the symbol it
\* shows, whenever the row can be tapped.
THEOREM RowsAlwaysActOnTheirSymbol == Spec => []RowsActOnTheirSymbol
<1>1. IInv => RowsActOnTheirSymbol
  BY DEF IInv, UiOK, RowsFit, RowsActOnTheirSymbol
<1> QED
  BY <1>1, SpecIInv, PTL

=============================================================================
