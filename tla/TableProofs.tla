----------------------------- MODULE TableProofs -----------------------------
(***************************************************************************)
(* That a table which was formatted says what it said, and stands square,  *)
(* whatever the document (TableText).                                      *)
(*                                                                         *)
(* A row is divided by a walk over its characters (WalkOver).  A text that *)
(* has no pipe but after an escape is quiet: the walk goes over it and     *)
(* divides nothing (QuietWalks).  What a row is split into are trimmed,    *)
(* quiet texts (SplitsIntoCells, Tidy).  So a row that is joined of such   *)
(* cells, with spaces around them, is split into the same cells again      *)
(* (RowSays): that is seen along the chain of the rows with one cell more  *)
(* each (Chain, ChainReads).  The pipes of two rows of a table are under   *)
(* one another because what is drawn of a cell takes the columns of its    *)
(* column on screen (PadsTo, DashesRule), wide characters and all.  The    *)
(* delimiter row is read back as one, with the same alignments, and no row *)
(* of the body becomes one: the formatted lines are the same table         *)
(* (StillATable), which is formatted into itself (FormattedAgain).         *)
(*                                                                         *)
(* The invariant, TextInv, says what the document is: what it was, or that *)
(* with the one table under the cursor formatted.  The provers do not take *)
(* a quoted space or pipe for a character, so those have names here.       *)
(***************************************************************************)
EXTENDS TableText, SequenceLemmas

-----------------------------------------------------------------------------
(* What is trimmed of a text, and what is put around it.                   *)

\* The characters, by name.
Gap == " "
Pipe == "|"
Escape == "\\"

\* The trims, by those names.
LEMMA TrimsAre ==
  /\ \A s : TrimEnd(s) = SubSeq(s, 1, Max({0} \union {i \in DOMAIN s : s[i] # Gap}))
  /\ \A s : Trim(s) = TrimEnd(TrimStart(s, {Gap}))
  /\ Gap # Pipe /\ Gap # Escape /\ Pipe # Escape
BY Zenon DEF TrimEnd, Trim, Gap, Pipe, Escape

\* A part of a sequence.
LEMMA PartIs ==
  ASSUME NEW X, NEW s \in Seq(X), NEW a \in Nat \ {0}, NEW b \in Nat,
         b <= Len(s), a <= b + 1
  PROVE  /\ SubSeq(s, a, b) \in Seq(X) /\ Len(SubSeq(s, a, b)) = b - a + 1
         /\ \A i \in 1..(b - a + 1) : SubSeq(s, a, b)[i] = s[a + i - 1]
<1>1. Len(s) \in Nat /\ \A i \in a..b : s[i] \in X
  BY LenProperties, ElementOfSeq
<1>2. /\ SubSeq(s, a, b) \in Seq(X)
      /\ Len(SubSeq(s, a, b)) = IF a <= b THEN b - a + 1 ELSE 0
      /\ \A i \in 1..(b - a + 1) : SubSeq(s, a, b)[i] = s[a + i - 1]
  BY <1>1, SubSeqProperties
<1> QED BY <1>2

\* The empty sequence is the one of no length.
LEMMA NothingIs ==
  ASSUME NEW X, NEW s \in Seq(X)
  PROVE  (s = << >> <=> Len(s) = 0) /\ Len(s) \in Nat
BY EmptySeq, LenProperties

\* The least of a set of numbers.
LEMMA LeastIs ==
  ASSUME NEW S, S \subseteq Nat, NEW x \in S, \A y \in S : x <= y
  PROVE  Min(S) = x
<1>1. Min(S) \in S /\ \A y \in S : Min(S) <= y
  BY DEF Min
<1>2. Min(S) \in Nat /\ x \in Nat /\ Min(S) <= x /\ x <= Min(S)
  BY <1>1
<1> QED BY <1>2

\* The greatest of a set of numbers.
LEMMA MostIs ==
  ASSUME NEW S, S \subseteq Nat, NEW x \in S, \A y \in S : y <= x
  PROVE  Max(S) = x
<1>1. Max(S) \in S /\ \A y \in S : Max(S) >= y
  BY DEF Max
<1>2. Max(S) \in Nat /\ x \in Nat /\ Max(S) <= x /\ x <= Max(S)
  BY <1>1
<1> QED BY <1>2

\* The first k of s are what a trim of its start takes off; the last but k, of its end.
Leading(s, k, chars) ==
  /\ k \in 0..Len(s) /\ \A i \in 1..k : s[i] \in chars
  /\ k < Len(s) => s[k + 1] \notin chars

Trailing(s, k) ==
  /\ k \in 0..Len(s) /\ \A i \in (k + 1)..Len(s) : s[i] = Gap
  /\ k > 0 => s[k] # Gap

\* As many of its characters as possible are taken from the front of a text.
LEMMA LeadingExists ==
  ASSUME NEW X, NEW s \in Seq(X), NEW chars
  PROVE  \E k : Leading(s, k, chars)
<1> DEFINE n == Len(s)
           S == {k \in 0..n : k = n \/ s[k + 1] \notin chars}
<1>1. n \in Nat /\ n \in S
  BY LenProperties
<1>2. PICK k \in S : \A j \in S : k <= j
  <2>1. S \in SUBSET Nat /\ S # {}
    BY <1>1
  <2> HIDE DEF S
  <2> QED BY <2>1, NatLeast
<1>3. ASSUME NEW i \in 1..k PROVE s[i] \in chars
  <2>1. k \in 0..n /\ i - 1 \in 0..n /\ ~ (k <= i - 1) /\ i - 1 # n /\ i - 1 + 1 = i
    BY <1>1, <1>2
  <2>2. i - 1 \notin S
    BY <1>2, <2>1
  <2> QED BY <2>1, <2>2
<1>4. k \in 0..n /\ (k < n => s[k + 1] \notin chars)
  BY <1>1, <1>2
<1> QED BY <1>3, <1>4 DEF Leading

\* And from its end.
LEMMA TrailingExists ==
  ASSUME NEW X, NEW s \in Seq(X)
  PROVE  \E k : Trailing(s, k)
<1> DEFINE n == Len(s)
           S == {k \in 0..n : k = 0 \/ s[k] # Gap}
<1>1. n \in Nat /\ 0 \in S
  BY LenProperties
<1>2. PICK k \in S : \A j \in S : j <= k
  BY <1>1, IntervalGreatest
<1>3. ASSUME NEW i \in (k + 1)..n PROVE s[i] = Gap
  BY <1>1, <1>2
<1>4. k \in 0..n /\ (k > 0 => s[k] # Gap)
  BY <1>1, <1>2
<1> QED BY <1>3, <1>4 DEF Trailing

\* What trim_start_matches() leaves, by how many it takes.
LEMMA TrimStartIs ==
  ASSUME NEW X, NEW s \in Seq(X), NEW chars, NEW k, Leading(s, k, chars)
  PROVE  TrimStart(s, chars) = SubSeq(s, k + 1, Len(s))
<1> DEFINE n == Len(s)
           S == {n + 1} \union {i \in DOMAIN s : s[i] \notin chars}
<1>1. n \in Nat /\ DOMAIN s = 1..n /\ k \in 0..n
  BY LenProperties DEF Leading
<1>2. S \subseteq Nat
  BY <1>1
<1>3. k + 1 \in S
  BY <1>1 DEF Leading
<1>4. ASSUME NEW y \in S PROVE k + 1 <= y
  BY <1>1 DEF Leading
<1>5. Min(S) = k + 1
  BY <1>2, <1>3, <1>4, LeastIs
<1> QED BY <1>5 DEF TrimStart

\* What trim_end() leaves, by how many it keeps.
LEMMA TrimEndIs ==
  ASSUME NEW X, NEW s \in Seq(X), NEW k, Trailing(s, k)
  PROVE  TrimEnd(s) = SubSeq(s, 1, k)
<1> DEFINE n == Len(s)
           S == {0} \union {i \in DOMAIN s : s[i] # Gap}
<1>1. n \in Nat /\ DOMAIN s = 1..n /\ k \in 0..n
  BY LenProperties DEF Trailing
<1>2. S \subseteq Nat
  BY <1>1
<1>3. k \in S
  BY <1>1 DEF Trailing
<1>4. ASSUME NEW y \in S PROVE y <= k
  BY <1>1 DEF Trailing
<1>5. Max(S) = k
  BY <1>2, <1>3, <1>4, MostIs
<1> QED BY <1>5, TrimsAre

\* c with a spaces before it and any number after it.
Padded(s, c, a) ==
  /\ a \in Nat /\ a + Len(c) <= Len(s)
  /\ \A i \in 1..a : s[i] = Gap
  /\ \A i \in 1..Len(c) : s[a + i] = c[i]
  /\ \A i \in (a + Len(c) + 1)..Len(s) : s[i] = Gap

\* There is no space at either end of it.
Trimmed(c) == Len(c) > 0 => c[1] # Gap /\ c[Len(c)] # Gap

\* Of nothing, nothing is left.
LEMMA NothingTrims ==
  ASSUME NEW X, NEW s \in Seq(X), Len(s) = 0
  PROVE  TrimEnd(s) = << >> /\ TrimStart(s, {Gap}) = << >> /\ Trim(s) = << >>
<1>1. s = << >> /\ << >> \in Seq(X) /\ Len(<< >>) = 0
  BY NothingIs
<1>2. Trailing(s, 0) /\ Leading(s, 0, {Gap})
  BY DEF Trailing, Leading
<1>3. TrimEnd(s) = SubSeq(s, 1, 0) /\ TrimStart(s, {Gap}) = SubSeq(s, 0 + 1, Len(s))
  BY <1>2, TrimEndIs, TrimStartIs
<1>4. SubSeq(s, 1, 0) \in Seq(X) /\ Len(SubSeq(s, 1, 0)) = 0 - 1 + 1
  BY PartIs
<1>5. SubSeq(s, 1, 0) = << >> /\ SubSeq(s, 0 + 1, Len(s)) = << >>
  BY <1>4, NothingIs
<1> QED BY <1>1, <1>3, <1>5, TrimsAre

\* What a text is trimmed to, when only spaces are around it.
LEMMA TrimPadded ==
  ASSUME NEW X, NEW s \in Seq(X), NEW c \in Seq(X), NEW a, Padded(s, c, a), Trimmed(c)
  PROVE  Trim(s) = c
<1> DEFINE n == Len(s)
           l == Len(c)
<1>1. n \in Nat /\ l \in Nat /\ a \in Nat /\ a + l <= n /\ (c = << >> <=> l = 0)
  BY NothingIs DEF Padded
<1>2. CASE l = 0
  <2>1. Leading(s, n, {Gap})
    BY <1>1, <1>2 DEF Leading, Padded
  <2>2. TrimStart(s, {Gap}) = SubSeq(s, n + 1, n)
    BY <2>1, TrimStartIs
  <2>3. SubSeq(s, n + 1, n) \in Seq(X) /\ Len(SubSeq(s, n + 1, n)) = n - (n + 1) + 1
    BY <1>1, PartIs
  <2>4. TrimStart(s, {Gap}) = << >> /\ << >> \in Seq(X) /\ Len(<< >>) = 0
    BY <1>1, <2>2, <2>3, NothingIs
  <2>5. TrimEnd(<< >>) = << >>
    BY <2>4, NothingTrims
  <2> QED BY <1>1, <1>2, <2>4, <2>5, TrimsAre
<1>3. CASE l # 0
  <2>1. Leading(s, a, {Gap})
    BY <1>1, <1>3 DEF Padded, Trimmed, Leading
  <2> DEFINE u == SubSeq(s, a + 1, n)
  <2>2. TrimStart(s, {Gap}) = u
    BY <2>1, TrimStartIs
  <2>3. u \in Seq(X) /\ Len(u) = n - a /\ \A i \in 1..(n - a) : u[i] = s[a + i]
    BY <1>1, PartIs
  <2> HIDE DEF u
  <2>4. Trailing(u, l)
    <3>1. l \in 0..Len(u)
      BY <1>1, <2>3
    <3>2. ASSUME NEW i \in (l + 1)..Len(u) PROVE u[i] = Gap
      <4>1. i \in 1..(n - a) /\ a + i \in (a + l + 1)..n
        BY <1>1, <2>3
      <4> QED BY <2>3, <4>1 DEF Padded
    <3>3. u[l] # Gap
      BY <1>1, <1>3, <2>3 DEF Padded, Trimmed
    <3> QED BY <3>1, <3>2, <3>3 DEF Trailing
  <2> DEFINE v == SubSeq(u, 1, l)
  <2>5. TrimEnd(u) = v
    BY <2>3, <2>4, TrimEndIs
  <2>6. v \in Seq(X) /\ Len(v) = l /\ \A i \in 1..l : v[i] = u[i]
    BY <1>1, <2>3, PartIs
  <2> HIDE DEF v
  <2>7. \A i \in 1..Len(v) : v[i] = c[i]
    BY <1>1, <2>3, <2>6 DEF Padded
  <2>8. v = c
    BY <2>6, <2>7, SeqEqual
  <2> QED BY <2>2, <2>5, <2>8, TrimsAre
<1> QED BY <1>2, <1>3

\* A trimmed text is what was in it, without the spaces around that.
LEMMA TrimIs ==
  ASSUME NEW X, NEW s \in Seq(X)
  PROVE  /\ Trim(s) \in Seq(X) /\ Trimmed(Trim(s))
         /\ \E a : Padded(s, Trim(s), a)
<1> DEFINE n == Len(s)
<1>1. PICK a : Leading(s, a, {Gap})
  BY LeadingExists
<1> DEFINE u == SubSeq(s, a + 1, n)
<1>2. n \in Nat /\ a \in 0..n
  BY <1>1, LenProperties DEF Leading
<1>3. TrimStart(s, {Gap}) = u
  BY <1>1, TrimStartIs
<1>4. u \in Seq(X) /\ Len(u) = n - a /\ \A i \in 1..(n - a) : u[i] = s[a + i]
  BY <1>2, PartIs
<1> HIDE DEF u
<1>5. PICK l : Trailing(u, l)
  BY <1>4, TrailingExists
<1> DEFINE v == SubSeq(u, 1, l)
<1>6. l \in 0..(n - a)
  BY <1>4, <1>5 DEF Trailing
<1>7. TrimEnd(u) = v
  BY <1>4, <1>5, TrimEndIs
<1>8. v \in Seq(X) /\ Len(v) = l /\ \A i \in 1..l : v[i] = u[i]
  BY <1>2, <1>4, <1>6, PartIs
<1> HIDE DEF v
<1>9. \A i \in 1..l : i \in 1..(n - a)
  BY <1>2, <1>6
<1>10. Padded(s, v, a)
  <2>1. \A i \in 1..l : s[a + i] = v[i]
    BY <1>4, <1>8, <1>9
  <2>2. ASSUME NEW i \in (a + l + 1)..n PROVE s[i] = Gap
    <3>1. i - a \in (l + 1)..(n - a) /\ i - a \in 1..(n - a) /\ a + (i - a) = i
      BY <1>2, <1>6
    <3>2. u[i - a] = Gap
      BY <1>4, <1>5, <3>1 DEF Trailing
    <3> QED BY <1>4, <3>1, <3>2
  <2>3. \A i \in 1..a : s[i] = Gap
    BY <1>1 DEF Leading
  <2> QED BY <1>2, <1>6, <1>8, <2>1, <2>2, <2>3 DEF Padded
<1>11. Trimmed(v)
  <2> SUFFICES ASSUME l > 0 PROVE v[1] # Gap /\ v[l] # Gap
    BY <1>8 DEF Trimmed
  <2>1. 1 \in 1..l /\ l \in 1..l /\ a < n
    BY <1>2, <1>6
  <2>2. v[1] = s[a + 1] /\ v[l] = u[l]
    BY <1>4, <1>8, <1>9, <2>1
  <2> QED BY <1>1, <1>5, <2>1, <2>2 DEF Leading, Trailing
<1>12. Trim(s) = v
  BY <1>3, <1>7, TrimsAre
<1> QED BY <1>8, <1>10, <1>11, <1>12

-----------------------------------------------------------------------------
(* The division of a row, along its characters.                            *)

Truths == BOOLEAN
Walking(C) == [cells : Seq(Seq(C)), current : Seq(C), escaped : Truths, place : Nat,
               at : Seq(Nat)]
Unwalked == [cells |-> << >>, current |-> << >>, escaped |-> FALSE, place |-> 1, at |-> << >>]

\* A step that reads a character, and one that divides.
Reads(v, ch, w) ==
  /\ w.cells = v.cells /\ w.current = Append(v.current, ch)
  /\ w.escaped = (~v.escaped /\ ch = Escape)
  /\ w.place = v.place + 1 /\ w.at = v.at
Divides(v, w) ==
  /\ w.cells = Append(v.cells, Trim(v.current)) /\ w.current = << >> /\ w.escaped = FALSE
  /\ w.place = v.place + 1 /\ w.at = Append(v.at, v.place)

After(v) == v.place + 1

\* Before the first character.
LEMMA UnwalkedIs ==
  ASSUME NEW C
  PROVE  /\ Unwalked \in Walking(C) /\ Unwalked.cells = << >> /\ Unwalked.current = << >>
         /\ Unwalked.escaped = FALSE /\ Unwalked.place = 1 /\ Unwalked.at = << >>
<1>1. << >> \in Seq(C) /\ << >> \in Seq(Seq(C)) /\ << >> \in Seq(Nat)
  BY EmptySeq
<1> QED BY <1>1 DEF Unwalked, Walking, Truths

ReadOn(w, ch, e) ==
  [[w EXCEPT !.place = @ + 1] EXCEPT !.escaped = e, !.current = Append(@, ch)]
DivideOn(w) ==
  [[w EXCEPT !.place = @ + 1] EXCEPT !.cells = Append(@, Trim(w.current)), !.current = << >>,
                                     !.at = Append(@, w.place)]

\* A step of the walk reads the character or divides at it.
LEMMA WalkCases ==
  ASSUME NEW w, NEW ch
  PROVE  /\ w.escaped => Walk(w, ch) = ReadOn(w, ch, FALSE)
         /\ ~w.escaped /\ ch = Pipe => Walk(w, ch) = DivideOn(w)
         /\ ~w.escaped /\ ch # Pipe => Walk(w, ch) = ReadOn(w, ch, ch = Escape)
BY Zenon DEF Walk, ReadOn, DivideOn, Pipe, Escape

Read(v, ch, e, w) ==
  /\ w.cells = v.cells /\ w.current = Append(v.current, ch) /\ w.escaped = e
  /\ w.place = After(v) /\ w.at = v.at
Divided(v, w) ==
  /\ w.cells = Append(v.cells, Trim(v.current)) /\ w.current = << >> /\ w.escaped = v.escaped
  /\ w.place = After(v) /\ w.at = Append(v.at, v.place)

\* What a step that reads comes to.
LEMMA ReadOnIs ==
  ASSUME NEW C, NEW v \in Walking(C), NEW ch, NEW e \in Truths,
         Append(v.current, ch) \in Seq(C), After(v) \in Nat
  PROVE  ReadOn(v, ch, e) \in Walking(C) /\ Read(v, ch, e, ReadOn(v, ch, e))
BY DEF ReadOn, Walking, Read, After

\* What a step that divides comes to.
LEMMA DivideOnIs ==
  ASSUME NEW C, NEW v \in Walking(C), Append(v.cells, Trim(v.current)) \in Seq(Seq(C)),
         << >> \in Seq(C), After(v) \in Nat, Append(v.at, v.place) \in Seq(Nat)
  PROVE  DivideOn(v) \in Walking(C) /\ Divided(v, DivideOn(v))
BY DEF DivideOn, Walking, Divided, After

\* What a step of the walk comes to.
LEMMA WalkIs ==
  ASSUME NEW C, NEW v \in Walking(C), NEW ch \in C
  PROVE  /\ Walk(v, ch) \in Walking(C)
         /\ v.escaped \/ ch # Pipe => Reads(v, ch, Walk(v, ch))
         /\ ~v.escaped /\ ch = Pipe => Divides(v, Walk(v, ch))
<1>1. /\ v.cells \in Seq(Seq(C)) /\ v.current \in Seq(C) /\ v.escaped \in Truths /\ v.place \in Nat
      /\ v.at \in Seq(Nat)
  BY DEF Walking
<1>2. /\ Append(v.current, ch) \in Seq(C) /\ After(v) \in Nat
      /\ Append(v.cells, Trim(v.current)) \in Seq(Seq(C)) /\ Append(v.at, v.place) \in Seq(Nat)
      /\ << >> \in Seq(C)
  BY <1>1, TrimIs, AppendProperties, EmptySeq DEF After
<1>3. ASSUME NEW e \in Truths
      PROVE  ReadOn(v, ch, e) \in Walking(C) /\ Read(v, ch, e, ReadOn(v, ch, e))
  BY <1>2, ReadOnIs
<1>4. DivideOn(v) \in Walking(C) /\ Divided(v, DivideOn(v))
  BY <1>2, DivideOnIs
<1>5. CASE v.escaped
  <2>1. Walk(v, ch) = ReadOn(v, ch, FALSE) /\ FALSE \in Truths
    BY Zenon, <1>5, WalkCases DEF Truths
  <2>2. Walk(v, ch) \in Walking(C) /\ Read(v, ch, FALSE, Walk(v, ch))
    BY Zenon, <1>3, <2>1
  <2> QED BY Zenon, <1>5, <2>2 DEF Read, Reads, After
<1>6. CASE ~v.escaped /\ ch # Pipe
  <2>1. Walk(v, ch) = ReadOn(v, ch, ch = Escape) /\ (ch = Escape) \in Truths
    BY Zenon, <1>6, WalkCases DEF Truths
  <2>2. Walk(v, ch) \in Walking(C) /\ Read(v, ch, ch = Escape, Walk(v, ch))
    BY Zenon, <1>3, <2>1
  <2>3. (ch = Escape) = (~v.escaped /\ ch = Escape)
    BY Zenon, <1>6
  <2> QED BY Zenon, <1>6, <2>2, <2>3 DEF Read, Reads, After
<1>7. CASE ~v.escaped /\ ch = Pipe
  <2>1. Walk(v, ch) = DivideOn(v)
    BY Zenon, <1>7, WalkCases
  <2>2. v.escaped = FALSE
    BY Zenon, <1>1, <1>7 DEF Truths
  <2>3. Walk(v, ch) \in Walking(C) /\ Divided(v, Walk(v, ch))
    BY Zenon, <1>4, <2>1
  <2> QED BY Zenon, <1>7, <2>2, <2>3 DEF Divided, Divides, After
<1> QED BY Zenon, <1>1, <1>5, <1>6, <1>7 DEF Truths

\* What a text is when all of it is walked over.
WalkOver(s) == FoldLeft(Walk, Unwalked, s)


\* The walk over a text, character by character.
LEMMA WalkOverWalk ==
  ASSUME NEW C,
         NEW text \in Seq(C)
  PROVE  \E w : /\ w \in [0..Len(text) -> Walking(C)] /\ w[0] = Unwalked
                /\ WalkOver(text) = w[Len(text)]
                /\ \A k \in 1..Len(text) : w[k] = Walk(w[k - 1], text[k])
<1> DEFINE s == text
           n == Len(s)
           base == Unwalked
           V == Walking(C)
           Op(v, e) == Walk(v, e)
           Rec(g) == g = [t \in SUBSET (DOMAIN s) |->
                            IF t = {} THEN base ELSE Op(g[t \ {Max(t)}], s[Max(t)])]
           it == CHOOSE g : Rec(g)
           whole == WalkOver(text)
           step == [x \in V \X (1..n) |-> Op(x[1], s[x[2]])]
<1>1. n \in Nat /\ DOMAIN s = 1..n
  BY LenProperties
<1>2. whole = it[DOMAIN s]
  BY DEF WalkOver, FoldLeft, MapThenFoldSet
<1>3. base \in V
  BY UnwalkedIs
<1> HIDE DEF s, n, base, V, whole
<1>4. ASSUME NEW v \in V, NEW k \in 1..n PROVE Op(v, s[k]) \in V
  BY <1>1, <1>4, ElementOfSeq, WalkIs DEF s, n, V
<1> HIDE DEF Op
<1>5. step \in [V \X (1..n) -> V] /\ \A v \in V, k \in 1..n : step[<<v, k>>] = Op(v, s[k])
  BY <1>4
<1> HIDE DEF step
<1>6. PICK f : FoldsOn(f, V, base, n, step)
  BY <1>1, <1>3, <1>5, FoldExists
<1>7. Rec(f)
  BY <1>6, <1>1, TopIsIn, <1>5 DEF FoldsOn
<1>8. Rec(it)
  BY <1>7
<1> HIDE DEF it
<1>9. FoldsAs(it, V, base, n, step)
  BY <1>1, <1>8, TopIsIn, <1>5 DEF FoldsAs
<1>10. WalksTo(whole, V, base, n, step)
  BY <1>1, <1>2, <1>3, <1>5, <1>9, FoldWalks
<1>11. PICK w : Solves(w, V, base, n, step) /\ whole = w[n]
  BY <1>10 DEF WalksTo
<1>12. /\ w \in [0..n -> V] /\ w[0] = base
       /\ \A k \in 1..n : w[k - 1] \in V /\ w[k] = step[<<w[k - 1], k>>]
  BY <1>1, <1>11 DEF Solves
<1>13. \A k \in 1..n : w[k] = Op(w[k - 1], s[k])
  BY <1>5, <1>12
<1> QED BY <1>11, <1>12, <1>13 DEF s, n, base, V, whole, Op


\* The walk over a text of one character more takes one step more.
LEMMA WalkOverMore ==
  ASSUME NEW C
  PROVE  /\ WalkOver(<< >>) = Unwalked
         /\ \A text \in Seq(C) : WalkOver(text) \in Walking(C)
         /\ \A text \in Seq(C), ch \in C :
              WalkOver(Append(text, ch)) = Walk(WalkOver(text), ch)
<1> DEFINE X == C
<1>1. << >> \in Seq(X) /\ Len(<< >>) = 0
  OBVIOUS
<1>2. WalkOver(<< >>) = Unwalked
  BY <1>1, WalkOverWalk
<1>3. ASSUME NEW text \in Seq(X) PROVE WalkOver(text) \in Walking(C)
  BY LenProperties, WalkOverWalk
<1>4. ASSUME NEW text \in Seq(X), NEW ch \in X
      PROVE  WalkOver(Append(text, ch)) = Walk(WalkOver(text), ch)
  <2> DEFINE u == Append(text, ch)
             n == Len(text)
  <2>1. u \in Seq(X) /\ Longer(u, text, ch) /\ n \in Nat
    BY AppendIsLonger, LenProperties
  <2> HIDE DEF u
  <2>2. PICK w : /\ w[0] = Unwalked /\ WalkOver(text) = w[n]
                 /\ \A k \in 1..n : w[k] = Walk(w[k - 1], text[k])
    BY WalkOverWalk
  <2>3. PICK v : /\ v[0] = Unwalked /\ WalkOver(u) = v[Len(u)]
                 /\ \A k \in 1..Len(u) : v[k] = Walk(v[k - 1], u[k])
    BY <2>1, WalkOverWalk
  <2>4. Len(u) = n + 1 /\ u[n + 1] = ch /\ \A k \in 1..n : u[k] = text[k]
    BY <2>1 DEF Longer
  <2> DEFINE S == {k \in 0..n : v[k] = w[k]}
  <2>5. 0 \in S
    BY <2>1, <2>2, <2>3
  <2> HIDE DEF n
  <2>6. ASSUME NEW k \in 1..n, k - 1 \in S PROVE k \in S
    BY <2>1, <2>6, <2>2, <2>3, <2>4
  <2>7. v[n] = w[n]
    <3> HIDE DEF S
    <3>1. n \in 0..n
      BY <2>1
    <3>2. n \in S
      BY <2>1, <2>5, <2>6, <3>1, StepByStep
    <3> QED BY <3>2 DEF S
  <2>8. n + 1 \in 1..(n + 1) /\ n + 1 - 1 = n
    BY <2>1
  <2>9. v[n + 1] = Walk(v[n], ch)
    BY <2>3, <2>1, <2>4, <2>8
  <2> QED BY <2>2, <2>3, <2>4, <2>7, <2>9 DEF u
<1> QED BY <1>2, <1>3, <1>4

\* What is before a place of a text is that of the place before it, and one more.
LEMMA PrefixMore ==
  ASSUME NEW X, NEW s \in Seq(X)
  PROVE  /\ SubSeq(s, 1, 0) = << >> /\ SubSeq(s, 1, Len(s)) = s
         /\ \A k \in 0..Len(s) : SubSeq(s, 1, k) \in Seq(X) /\ Len(SubSeq(s, 1, k)) = k
         /\ \A k \in 1..Len(s) : SubSeq(s, 1, k) = Append(SubSeq(s, 1, k - 1), s[k]) /\ s[k] \in X
<1> DEFINE n == Len(s)
<1>1. n \in Nat /\ \A k \in 1..n : s[k] \in X
  BY LenProperties, ElementOfSeq
<1>2. ASSUME NEW k \in 0..n
      PROVE  /\ SubSeq(s, 1, k) \in Seq(X) /\ Len(SubSeq(s, 1, k)) = k
             /\ \A i \in 1..k : SubSeq(s, 1, k)[i] = s[i]
  BY <1>1, PartIs
<1>3. SubSeq(s, 1, 0) = << >>
  BY <1>1, <1>2, NothingIs
<1>4. SubSeq(s, 1, n) = s
  BY <1>1, <1>2, SeqEqual
<1>5. ASSUME NEW k \in 1..n PROVE SubSeq(s, 1, k) = Append(SubSeq(s, 1, k - 1), s[k])
  BY <1>1, <1>2, AppendProperties, SeqEqual
<1> QED BY <1>1, <1>2, <1>3, <1>4, <1>5

\* The walk over a text that goes on from one that was walked over.
LEMMA WalkJoined ==
  ASSUME NEW C, NEW s \in Seq(C), NEW t \in Seq(C)
  PROVE  \E w \in [0..Len(t) -> Walking(C)] :
           /\ w[0] = WalkOver(s) /\ w[Len(t)] = WalkOver(s \o t)
           /\ \A k \in 1..Len(t) : w[k] = Walk(w[k - 1], t[k])
<1> DEFINE j == s \o t
           m == Len(s)
           l == Len(t)
           w == [k \in 0..l |-> WalkOver(SubSeq(j, 1, m + k))]
<1>1. m \in Nat /\ l \in Nat
  BY LenProperties
<1>2. j \in Seq(C) /\ Len(j) = m + l /\ \A i \in 1..(m + l) : j[i] = IF i <= m THEN s[i] ELSE t[i - m]
  BY ConcatProperties
<1> HIDE DEF j
<1>3. \A k \in 0..l : m + k \in 0..(m + l)
  BY <1>1
<1>4. \A k \in 0..l : SubSeq(j, 1, m + k) \in Seq(C) /\ Len(SubSeq(j, 1, m + k)) = m + k
  BY <1>2, <1>3, PrefixMore
<1>5. w \in [0..l -> Walking(C)]
  BY <1>4, WalkOverMore
<1>6. SubSeq(j, 1, m + 0) = s
  BY <1>1, <1>4, <1>2, PartIs, SeqEqual
<1>7. ASSUME NEW k \in 1..l
      PROVE  WalkOver(SubSeq(j, 1, m + k)) = Walk(WalkOver(SubSeq(j, 1, m + (k - 1))), t[k])
  <2> DEFINE p == SubSeq(j, 1, m + (k - 1))
  <2>1. /\ m + k \in 1..(m + l) /\ m + k - 1 = m + (k - 1) /\ ~ (m + k <= m) /\ m + k - m = k
        /\ k - 1 \in 0..l
    BY <1>1
  <2>2. SubSeq(j, 1, m + k) = Append(p, t[k]) /\ t[k] \in C /\ p \in Seq(C)
    BY <1>2, <2>1, PrefixMore, <1>4
  <2> HIDE DEF p
  <2>3. WalkOver(Append(p, t[k])) = Walk(WalkOver(p), t[k])
    BY <2>2, WalkOverMore
  <2> QED BY <2>2, <2>3 DEF p
<1>8. SubSeq(j, 1, m + l) = j
  BY <1>2, PrefixMore
<1>9. /\ w[0] = WalkOver(s) /\ w[l] = WalkOver(j)
      /\ \A k \in 1..l : w[k] = Walk(w[k - 1], t[k])
  <2>1. 0 \in 0..l /\ l \in 0..l /\ \A k \in 1..l : k \in 0..l /\ k - 1 \in 0..l
    BY <1>1
  <2> QED BY <1>6, <1>7, <1>8, <2>1
<1> HIDE DEF w
<1> QED BY <1>5, <1>9 DEF j

\* No character of c divides: E is where what comes next is escaped.
Quiet(c, E) ==
  /\ E \in SUBSET (1..Len(c))
  /\ \A k \in 1..Len(c) : /\ k \in E <=> c[k] = Escape /\ k - 1 \notin E
                          /\ c[k] = Pipe => k - 1 \in E

\* Of a quiet text with spaces around it, what they are around is quiet.
LEMMA QuietPart ==
  ASSUME NEW s, NEW c, NEW a, Len(s) \in Nat, Len(c) \in Nat, Padded(s, c, a), NEW E, Quiet(s, E)
  PROVE  \E F : Quiet(c, F)
<1> DEFINE l == Len(c)
           F == {k \in 1..l : a + k \in E}
<1>1. /\ l \in Nat /\ a \in Nat /\ \A k \in 1..l : a + k \in 1..Len(s) /\ s[a + k] = c[k]
      /\ Gap # Escape
  BY TrimsAre DEF Padded
<1>2. a \notin E
  BY <1>1 DEF Padded, Quiet
<1>3. ASSUME NEW k \in 1..l PROVE a + k - 1 \in E <=> k - 1 \in F
  BY <1>1, <1>2
<1>4. ASSUME NEW k \in 1..l
      PROVE  (k \in F <=> c[k] = Escape /\ k - 1 \notin F) /\ (c[k] = Pipe => k - 1 \in F)
  BY <1>1, <1>3 DEF Quiet
<1>5. F \in SUBSET (1..l)
  OBVIOUS
<1> HIDE DEF F
<1>6. Quiet(c, F)
  BY <1>4, <1>5 DEF Quiet
<1> QED BY <1>6

\* Spaces around a quiet text leave it quiet, and no escape open after it.
LEMMA QuietPadded ==
  ASSUME NEW s, NEW c, NEW a, Len(s) \in Nat, Len(c) \in Nat, Padded(s, c, a), NEW F, Quiet(c, F)
  PROVE  \E E : Quiet(s, E) /\ (Len(s) > a + Len(c) => Len(s) \notin E)
<1> DEFINE l == Len(c)
           n == Len(s)
           E == {k \in 1..n : k - a \in F}
<1>1. /\ l \in Nat /\ n \in Nat /\ a \in Nat /\ a + l <= n /\ F \in SUBSET (1..l)
      /\ Gap # Escape /\ Gap # Pipe
  BY TrimsAre DEF Padded, Quiet
<1>2. \A k \in E : k - a \in 1..l
  BY <1>1
<1>3. n > a + l => n \notin E
  BY <1>1, <1>2
<1>4. ASSUME NEW k \in 1..n
      PROVE  (k \in E <=> s[k] = Escape /\ k - 1 \notin E) /\ (s[k] = Pipe => k - 1 \in E)
  <2>1. CASE k \in 1..a
    BY <1>1, <2>1, <1>2 DEF Padded
  <2>2. CASE k \in (a + l + 1)..n
    BY <1>1, <2>2, <1>2 DEF Padded
  <2>3. CASE k - a \in 1..l
    <3> DEFINE i == k - a
    <3>1. i \in 1..l /\ a + i = k /\ i - 1 = k - 1 - a /\ k - 1 \in Int /\ i - 1 \in Int
      BY <1>1, <2>3
    <3>2. s[k] = c[i]
      BY <3>1 DEF Padded
    <3>3. k \in E <=> i \in F
      OBVIOUS
    <3>4. k - 1 \in E <=> i - 1 \in F
      BY <1>1, <3>1
    <3> HIDE DEF E, i
    <3> QED BY <3>1, <3>2, <3>3, <3>4 DEF Quiet
  <2>4. k \in 1..a \/ k \in (a + l + 1)..n \/ k - a \in 1..l
    BY <1>1
  <2> QED BY <2>1, <2>2, <2>3, <2>4
<1>5. E \in SUBSET (1..n)
  OBVIOUS
<1> HIDE DEF E
<1>6. Quiet(s, E)
  BY <1>4, <1>5 DEF Quiet
<1> QED BY <1>3, <1>6

\* A quiet text stays so unless a pipe comes that nothing escapes.
LEMMA QuietMore ==
  ASSUME NEW X, NEW c \in Seq(X), NEW ch \in X, NEW E, Quiet(c, E), Len(c) \in E \/ ch # Pipe
  PROVE  \E F : /\ Quiet(Append(c, ch), F)
                /\ Len(Append(c, ch)) \in F <=> Len(c) \notin E /\ ch = Escape
<1> DEFINE l == Len(c)
           d == Append(c, ch)
           F == E \union {k \in {l + 1} : l \notin E /\ ch = Escape}
<1>1. /\ l \in Nat /\ Len(d) = l + 1 /\ d[l + 1] = ch /\ \A k \in 1..l : d[k] = c[k]
      /\ E \in SUBSET (1..l)
  BY LenProperties, AppendProperties DEF Quiet
<1>2. /\ l + 1 \notin E /\ l + 1 \in 1..(l + 1) /\ l + 1 - 1 = l
      /\ \A k \in 1..(l + 1) : k = l + 1 \/ (k \in 1..l /\ k # l + 1)
      /\ \A k \in 0..l : k # l + 1 /\ (k \in F <=> k \in E)
      /\ \A k \in 1..l : k - 1 \in 0..l /\ k \in 0..l
      /\ l \in 0..l
  BY <1>1
<1>3. l + 1 \in F <=> l \notin E /\ ch = Escape
  BY <1>2
<1>4. F \in SUBSET (1..(l + 1))
  <2>1. \A k \in E : k \in 1..l /\ k \in 1..(l + 1)
    BY <1>1
  <2> QED BY <1>2, <2>1
<1> HIDE DEF F, d
<1>5. ASSUME NEW k \in 1..(l + 1)
      PROVE  (k \in F <=> d[k] = Escape /\ k - 1 \notin F) /\ (d[k] = Pipe => k - 1 \in F)
  BY <1>1, <1>2, <1>3 DEF Quiet
<1>6. Quiet(d, F)
  BY <1>1, <1>4, <1>5 DEF Quiet
<1> QED BY <1>1, <1>3, <1>6 DEF d

\* A cell: a text that is trimmed, and in which no character divides.
Tidy(c) == Trimmed(c) /\ \E F : Quiet(c, F)

\* What has been divided so far.
CellsSound(v) ==
  Len(v.at) = Len(v.cells) /\ \A i \in 1..Len(v.cells) : Tidy(v.cells[i])
CurrentSound(v) == \E E : Quiet(v.current, E) /\ (v.escaped <=> Len(v.current) \in E)
Sound(v) == CellsSound(v) /\ CurrentSound(v)

\* The walk knows whether the next character is escaped.
LEMMA SoundWhere ==
  ASSUME NEW v, NEW E, Quiet(v.current, E), v.escaped <=> Len(v.current) \in E
  PROVE  CurrentSound(v)
BY Zenon DEF CurrentSound

\* An empty cell is one that a row may have.
LEMMA EmptyIsTidy == Len(<< >>) = 0 /\ Quiet(<< >>, {}) /\ Tidy(<< >>)
<1>1. Len(<< >>) = 0
  OBVIOUS
<1>2. Quiet(<< >>, {})
  BY <1>1 DEF Quiet
<1> QED BY <1>1, <1>2 DEF Tidy, Trimmed

\* So is what trim() leaves of a quiet text.
LEMMA TrimIsTidy ==
  ASSUME NEW C, NEW s \in Seq(C), NEW E, Quiet(s, E)
  PROVE  Tidy(Trim(s))
<1>1. Trim(s) \in Seq(C) /\ Trimmed(Trim(s)) /\ \E a : Padded(s, Trim(s), a)
  BY TrimIs
<1>2. Len(s) \in Nat /\ Len(Trim(s)) \in Nat
  BY <1>1, LenProperties
<1> QED BY <1>1, <1>2, QuietPart DEF Tidy

\* The parts of a walk.
LEMMA WalkingHas ==
  ASSUME NEW C, NEW v \in Walking(C)
  PROVE  /\ v.cells \in Seq(Seq(C)) /\ v.current \in Seq(C) /\ v.escaped \in Truths
         /\ v.place \in Nat /\ v.at \in Seq(Nat)
BY DEF Walking

\* The walk divides a row into tidy cells and leaves a quiet text, step by step.
LEMMA SoundStays ==
  ASSUME NEW C, NEW v \in Walking(C), NEW ch \in C, Sound(v)
  PROVE  Sound(Walk(v, ch))
<1> DEFINE w == Walk(v, ch)
<1>1. PICK E : Quiet(v.current, E) /\ (v.escaped <=> Len(v.current) \in E)
  BY DEF Sound, CurrentSound
<1>2. /\ v.cells \in Seq(Seq(C)) /\ v.current \in Seq(C) /\ v.escaped \in Truths
      /\ v.place \in Nat /\ v.at \in Seq(Nat)
  BY WalkingHas
<1>3. CASE v.escaped \/ ch # Pipe
  <2>1. Reads(v, ch, w)
    BY Zenon, <1>3, WalkIs
  <2> HIDE DEF w
  <2>2. Len(v.current) \in E \/ ch # Pipe
    BY Zenon, <1>1, <1>3
  <2>3. PICK F : /\ Quiet(Append(v.current, ch), F)
                 /\ Len(Append(v.current, ch)) \in F <=> Len(v.current) \notin E /\ ch = Escape
    BY <1>1, <1>2, <2>2, QuietMore
  <2>4. w.escaped <=> Len(w.current) \in F
    BY Zenon, <1>1, <2>1, <2>3 DEF Reads
  <2>5. Quiet(w.current, F) /\ w.cells = v.cells /\ w.at = v.at
    BY Zenon, <2>1, <2>3 DEF Reads
  <2>6. Sound(w)
    <3>1. CellsSound(w)
      BY <2>5 DEF Sound, CellsSound
    <3>2. CurrentSound(w)
      BY Zenon, <2>4, <2>5 DEF CurrentSound
    <3> QED BY <3>1, <3>2 DEF Sound
  <2> QED BY Zenon, <2>6 DEF w
<1>4. CASE ~v.escaped /\ ch = Pipe
  <2>1. Divides(v, w)
    BY Zenon, <1>4, WalkIs
  <2> HIDE DEF w
  <2> DEFINE c == Trim(v.current)
  <2>2. c \in Seq(C) /\ Tidy(c)
    BY <1>1, <1>2, TrimIs, TrimIsTidy
  <2> HIDE DEF c
  <2>3. w.cells = Append(v.cells, c) /\ w.at = Append(v.at, v.place) /\ w.current = << >>
    BY Zenon, <2>1 DEF Divides, c
  <2>4. /\ Len(w.cells) = Len(v.cells) + 1 /\ Len(w.at) = Len(v.at) + 1
        /\ w.cells[Len(v.cells) + 1] = c /\ Len(v.cells) \in Nat
        /\ \A i \in 1..Len(v.cells) : w.cells[i] = v.cells[i]
    BY <1>2, <2>2, <2>3, AppendProperties, LenProperties
  <2>5. Len(w.at) = Len(w.cells) /\ \A i \in 1..Len(w.cells) : Tidy(w.cells[i])
    BY <2>4, <2>2 DEF Sound, CellsSound
  <2>6. ~w.escaped /\ Len(w.current) \notin {}
    BY Zenon, <2>1 DEF Divides
  <2>7. Quiet(w.current, {}) /\ (w.escaped <=> Len(w.current) \in {})
    BY Zenon, <2>3, <2>6, EmptyIsTidy
  <2>8. Sound(w)
    <3>1. CellsSound(w)
      BY <2>5 DEF CellsSound
    <3>2. CurrentSound(w)
      BY ONLY <2>7, SoundWhere
    <3> QED BY <3>1, <3>2 DEF Sound
  <2> QED BY Zenon, <2>8 DEF w
<1> QED BY Zenon, <1>2, <1>3, <1>4 DEF Truths

\* Whatever is walked over, what is divided off are cells.
LEMMA SoundOver ==
  ASSUME NEW C, NEW s \in Seq(C)
  PROVE  Sound(WalkOver(s)) /\ WalkOver(s) \in Walking(C)
<1> DEFINE n == Len(s)
<1>1. PICK w : /\ w \in [0..n -> Walking(C)] /\ w[0] = Unwalked /\ WalkOver(s) = w[n]
               /\ \A k \in 1..n : w[k] = Walk(w[k - 1], s[k])
  BY WalkOverWalk
<1>2. n \in Nat /\ n \in 0..n /\ \A k \in 1..n : s[k] \in C /\ k - 1 \in 0..n /\ k \in 0..n
  BY LenProperties, ElementOfSeq
<1> HIDE DEF n
<1> DEFINE S == {k \in 0..n : Sound(w[k])}
<1>3. 0 \in S
  <2>1. Sound(Unwalked)
    <3>1. /\ Unwalked.at = << >> /\ Unwalked.cells = << >> /\ Unwalked.current = << >>
          /\ Unwalked.escaped = FALSE
      BY UnwalkedIs
    <3>2. Len(Unwalked.at) = Len(Unwalked.cells) /\ \A i \in 1..Len(Unwalked.cells) : Tidy(Unwalked.cells[i])
      BY <3>1, EmptyIsTidy
    <3>3. Quiet(Unwalked.current, {}) /\ (Unwalked.escaped <=> Len(Unwalked.current) \in {})
      BY Zenon, <3>1, EmptyIsTidy
    <3>4. CellsSound(Unwalked)
      BY <3>2 DEF CellsSound
    <3>5. CurrentSound(Unwalked)
      BY ONLY <3>3, SoundWhere
    <3> QED BY <3>4, <3>5 DEF Sound
  <2> QED BY <1>1, <1>2, <2>1
<1>4. ASSUME NEW k \in 1..n, k - 1 \in S PROVE k \in S
  BY <1>1, <1>2, <1>4, SoundStays
<1>5. n \in S
  BY <1>2, <1>3, <1>4, StepByStep
<1> QED BY <1>1, <1>2, <1>5

\* From where a cell begins, a text in which nothing divides is read to its end; the bar
\* after it divides it off.
LEMMA QuietWalks ==
  ASSUME NEW C, Pipe \in C, NEW s \in Seq(C), NEW t \in Seq(C), NEW E, Quiet(t, E), Len(t) \notin E,
         WalkOver(s).current = << >>, WalkOver(s).escaped = FALSE
  PROVE  LET v == WalkOver(s)
             w == WalkOver(Append(s \o t, Pipe))
         IN  /\ w.cells = Append(v.cells, Trim(t)) /\ w.current = << >> /\ w.escaped = FALSE
             /\ w.place = v.place + Len(t) + 1 /\ w.at = Append(v.at, v.place + Len(t))
<1> DEFINE l == Len(t)
           v == WalkOver(s)
<1>1. PICK w \in [0..l -> Walking(C)] :
        /\ w[0] = v /\ w[l] = WalkOver(s \o t)
        /\ \A k \in 1..l : w[k] = Walk(w[k - 1], t[k])
  BY WalkJoined
<1>2. /\ l \in Nat /\ l \in 0..l /\ 0 \in 0..l
      /\ \A k \in 1..l : t[k] \in C /\ k - 1 \in 0..l /\ k \in 0..l
  BY LenProperties, ElementOfSeq
<1>3. v \in Walking(C)
  BY SoundOver
<1>4. v.place \in Nat /\ v.at \in Seq(Nat) /\ v.cells \in Seq(Seq(C))
  BY <1>3, WalkingHas
<1> HIDE DEF l, v
<1> DEFINE Here(k) == /\ w[k].cells = v.cells /\ w[k].current = SubSeq(t, 1, k)
                      /\ w[k].escaped <=> k \in E
                      /\ w[k].place = v.place + k /\ w[k].at = v.at
           S == {k \in 0..l : Here(k)}
<1>5. 0 \in S
  <2>1. SubSeq(t, 1, 0) = << >> /\ 0 \notin E /\ v.place + 0 = v.place
    BY <1>4, PrefixMore DEF Quiet
  <2>2. v.current = << >> /\ ~v.escaped
    BY Zenon DEF v
  <2>3. Here(0)
    BY Zenon, <1>1, <2>1, <2>2
  <2> QED BY <1>2, <2>3
<1>6. ASSUME NEW k \in 1..l, k - 1 \in S PROVE k \in S
  <2> DEFINE p == w[k - 1]
             ch == t[k]
  <2>1. p \in Walking(C) /\ ch \in C /\ w[k] = Walk(p, ch)
    BY <1>1, <1>2
  <2>2. Here(k - 1)
    BY <1>6
  <2>3. (k \in E <=> ch = Escape /\ k - 1 \notin E) /\ (ch = Pipe => k - 1 \in E)
    BY DEF Quiet, l
  <2>4. Append(SubSeq(t, 1, k - 1), ch) = SubSeq(t, 1, k)
    BY PrefixMore DEF l
  <2>5. v.place + (k - 1) + 1 = v.place + k
    BY <1>2, <1>4
  <2> HIDE DEF p, ch
  <2>6. p.cells = v.cells /\ p.current = SubSeq(t, 1, k - 1) /\ (p.escaped <=> k - 1 \in E)
        /\ p.place = v.place + (k - 1) /\ p.at = v.at
    BY Zenon, <2>2 DEF p
  <2>7. Reads(p, ch, w[k])
    <3>1. p.escaped \/ ch # Pipe
      BY Zenon, <2>3, <2>6
    <3> QED BY Zenon, <2>1, <3>1, WalkIs
  <2>8. w[k].cells = v.cells /\ w[k].current = SubSeq(t, 1, k) /\ w[k].at = v.at
    BY Zenon, <2>4, <2>6, <2>7 DEF Reads
  <2>9. w[k].place = p.place + 1 /\ (w[k].escaped <=> ~p.escaped /\ ch = Escape)
    BY Zenon, <2>7 DEF Reads
  <2>10. w[k].place = v.place + k
    BY <2>5, <2>6, <2>9
  <2>11. w[k].escaped <=> k \in E
    BY Zenon, <2>3, <2>6, <2>9
  <2>12. Here(k)
    BY Zenon, <2>8, <2>10, <2>11
  <2> QED BY <1>2, <2>12
<1>7. l \in S
  BY <1>2, <1>5, <1>6, StepByStep
<1> DEFINE u == WalkOver(s \o t)
           z == WalkOver(Append(s \o t, Pipe))
<1>8. Here(l)
  BY <1>7
<1>9. /\ u.cells = v.cells /\ u.current = t /\ ~u.escaped
      /\ u.place = v.place + l /\ u.at = v.at
  <2>1. SubSeq(t, 1, l) = t /\ l \notin E /\ w[l] = u
    BY <1>1, PrefixMore DEF l
  <2> HIDE DEF u
  <2> QED BY Zenon, <1>8, <2>1
<1>10. s \o t \in Seq(C)
  BY ConcatProperties
<1>11. z = Walk(u, Pipe) /\ u \in Walking(C)
  BY <1>10, WalkOverMore
<1> HIDE DEF u, z
<1>12. Divides(u, z)
  BY Zenon, <1>9, <1>11, WalkIs
<1>13. /\ z.cells = Append(v.cells, Trim(t)) /\ z.current = << >> /\ z.escaped = FALSE
       /\ z.place = u.place + 1 /\ z.at = Append(v.at, v.place + l)
  BY Zenon, <1>9, <1>12 DEF Divides
<1> QED BY Zenon, <1>9, <1>13 DEF v, z, l

-----------------------------------------------------------------------------
(* The cells of a line.                                                    *)

\* The cells of a row, the one that a pipe at its beginning divides off among them.
Parted(row) ==
  IF Walked(row).at # << >> /\ Trim(Walked(row).current) = << >> THEN Walked(row).cells
  ELSE Append(Walked(row).cells, Trim(Walked(row).current))
BeginsOpen(row) ==
  row # << >> /\ row[1] = Pipe /\ Parted(row) # << >> /\ Parted(row)[1] = << >>

\* split_cells(), in terms of the walk.
LEMMA CellsAre ==
  /\ \A row : Walked(row) = WalkOver(TrimEnd(row))
  /\ \A row : SplitCells(row) = IF BeginsOpen(row) THEN Tail(Parted(row)) ELSE Parted(row)
  /\ \A line : Cells(line) = SplitCells(TrimStart(line, ContainerChars))
<1>1. \A row : Walked(row) = WalkOver(TrimEnd(row))
  BY Zenon DEF Walked, WalkOver, Unwalked
<1>2. \A row : SplitCells(row) = IF BeginsOpen(row) THEN Tail(Parted(row)) ELSE Parted(row)
  BY Zenon DEF SplitCells, BeginsOpen, Parted, Pipe
<1>3. \A line : Cells(line) = SplitCells(TrimStart(line, ContainerChars))
  BY Zenon DEF Cells
<1> QED BY <1>1, <1>2, <1>3

\* Cells of a row.
AreCells(cs, C) == cs \in Seq(Seq(C)) /\ \A i \in 1..Len(cs) : Tidy(cs[i])

\* Trimming a text gives no other characters.
LEMMA TrimStartStays ==
  ASSUME NEW C, NEW s \in Seq(C), NEW chars
  PROVE  TrimStart(s, chars) \in Seq(C)
<1>1. PICK k : Leading(s, k, chars)
  BY LeadingExists
<1>2. Len(s) \in Nat /\ k \in 0..Len(s)
  BY <1>1, LenProperties DEF Leading
<1>3. k + 1 \in Nat \ {0} /\ k + 1 <= Len(s) + 1 /\ Len(s) <= Len(s)
  BY <1>2
<1>4. TrimStart(s, chars) = SubSeq(s, k + 1, Len(s))
  BY <1>1, TrimStartIs
<1>5. SubSeq(s, k + 1, Len(s)) \in Seq(C)
  BY <1>2, <1>3, PartIs
<1> QED BY <1>4, <1>5

\* At either end.
LEMMA TrimEndStays ==
  ASSUME NEW C, NEW s \in Seq(C)
  PROVE  TrimEnd(s) \in Seq(C)
<1>1. PICK k : Trailing(s, k)
  BY TrailingExists
<1>2. Len(s) \in Nat /\ k \in 0..Len(s)
  BY <1>1, LenProperties DEF Trailing
<1>3. TrimEnd(s) = SubSeq(s, 1, k)
  BY <1>1, TrimEndIs
<1>4. SubSeq(s, 1, k) \in Seq(C)
  BY <1>2, PrefixMore
<1> QED BY <1>3, <1>4

\* A row is split into tidy cells.
LEMMA SplitsIntoCells ==
  ASSUME NEW C, NEW row \in Seq(C)
  PROVE  AreCells(SplitCells(row), C)
<1> DEFINE w == Walked(row)
           c == Trim(w.current)
<1>1. w \in Walking(C) /\ Sound(w)
  BY CellsAre, TrimEndStays, SoundOver
<1> HIDE DEF w
<1>2. w.cells \in Seq(Seq(C)) /\ w.current \in Seq(C)
  BY <1>1, WalkingHas
<1>3. c \in Seq(C) /\ Tidy(c)
  <2>1. PICK E : Quiet(w.current, E)
    BY Zenon, <1>1 DEF Sound, CurrentSound
  <2> QED BY <1>2, <2>1, TrimIs, TrimIsTidy
<1> HIDE DEF c
<1>4. AreCells(w.cells, C)
  BY <1>1, <1>2 DEF AreCells, Sound, CellsSound
<1>5. AreCells(Append(w.cells, c), C)
  BY <1>2, <1>3, AppendProperties, LenProperties, <1>4 DEF AreCells
<1> DEFINE p == Parted(row)
<1>6. AreCells(p, C)
  <2>1. p = w.cells \/ p = Append(w.cells, c)
    BY Zenon DEF Parted, w, c
  <2> QED BY <1>4, <1>5, <2>1
<1>7. p # << >> => AreCells(Tail(p), C)
  <2> SUFFICES ASSUME p # << >> PROVE AreCells(Tail(p), C)
    OBVIOUS
  <2>1. p \in Seq(Seq(C)) /\ \A i \in 1..Len(p) : Tidy(p[i])
    BY <1>6 DEF AreCells
  <2> HIDE DEF p
  <2>2. /\ Tail(p) \in Seq(Seq(C)) /\ Len(Tail(p)) = Len(p) - 1 /\ Len(p) \in Nat
        /\ \A i \in 1..Len(Tail(p)) : Tail(p)[i] = p[i + 1]
    BY <2>1, HeadTailProperties, LenProperties
  <2>3. \A i \in 1..(Len(p) - 1) : i + 1 \in 1..Len(p)
    BY <2>2
  <2> QED BY <2>1, <2>2, <2>3 DEF AreCells
<1>8. SplitCells(row) = IF BeginsOpen(row) THEN Tail(p) ELSE p
  BY CellsAre
<1>9. BeginsOpen(row) => p # << >>
  BY Zenon DEF BeginsOpen
<1> QED BY Zenon, <1>6, <1>7, <1>8, <1>9

\* Each line is divided into cells.
LEMMA LinesHaveCells ==
  ASSUME NEW C, NEW line \in Seq(C)
  PROVE  AreCells(Cells(line), C)
<1>1. TrimStart(line, ContainerChars) \in Seq(C)
  BY TrimStartStays
<1> QED BY <1>1, CellsAre, SplitsIntoCells

-----------------------------------------------------------------------------
(* A row that was formatted.                                               *)

\* A cell between spaces, and the row that goes on with it.
Inside(c) == << Gap >> \o c \o << Gap >>
Boxed(s, c) == Append(s \o Inside(c), Pipe)

\* A row and one cell more, character by character.
LEMMA ConcatTurns == \A C : \A s, f, g \in Seq(C) : (s \o f) \o g = s \o (f \o g)
BY ConcatAssociative

LEMMA BoxedIs ==
  ASSUME NEW C, Gap \in C, Pipe \in C, NEW s \in Seq(C), NEW c \in Seq(C)
  PROVE  /\ Inside(c) \in Seq(C) /\ Len(Inside(c)) = Len(c) + 2
         /\ Inside(c)[1] = Gap /\ Inside(c)[Len(c) + 2] = Gap
         /\ \A i \in 1..Len(c) : Inside(c)[i + 1] = c[i]
         /\ s \o Inside(c) \in Seq(C)
         /\ Boxed(s, c) \in Seq(C) /\ Len(Boxed(s, c)) = Len(s) + Len(c) + 3
         /\ \A i \in 1..Len(s) : Boxed(s, c)[i] = s[i]
         /\ Boxed(s, c)[Len(s) + Len(c) + 3] = Pipe
         /\ s \o << Gap >> \o c \o << Gap, Pipe >> = Boxed(s, c)
<1> DEFINE g == << Gap >>
           h == << Pipe >>
           gh == << Gap, Pipe >>
           l == Len(c)
           m == Len(s)
           f == g \o c
           t == Inside(c)
           b == Boxed(s, c)
<1>1. l \in Nat /\ m \in Nat
  BY LenProperties
<1>2. g \in Seq(C) /\ h \in Seq(C) /\ gh \in Seq(C) /\ Len(g) = 1 /\ g[1] = Gap
  OBVIOUS
<1>3. gh = g \o h
  <2>1. gh = Append(g, Pipe)
    OBVIOUS
  <2> HIDE DEF g
  <2>2. Append(g, Pipe) = g \o << Pipe >>
    BY <1>2, AppendIsConcat
  <2> QED BY <2>1, <2>2 DEF h
<1> HIDE DEF g, h, gh, f
<1>4. f \in Seq(C) /\ Len(f) = 1 + l /\ \A i \in 1..(1 + l) : f[i] = IF i <= 1 THEN g[i] ELSE c[i - 1]
  <2>1. /\ g \o c \in Seq(C) /\ Len(g \o c) = Len(g) + Len(c)
        /\ \A i \in 1..(Len(g) + Len(c)) : (g \o c)[i] = IF i <= Len(g) THEN g[i] ELSE c[i - Len(g)]
    BY <1>2, ConcatProperties
  <2>2. f = g \o c /\ Len(g) = 1 /\ Len(c) = l
    BY <1>2 DEF f
  <2> HIDE DEF l
  <2> QED BY <2>1, <2>2
<1>5. t = f \o g
  BY DEF Inside, g, f
<1> HIDE DEF t
<1>6. t \in Seq(C) /\ Len(t) = 1 + l + 1
      /\ \A i \in 1..(1 + l + 1) : t[i] = IF i <= 1 + l THEN f[i] ELSE g[i - (1 + l)]
  <2>1. f \in Seq(C) /\ g \in Seq(C) /\ Len(f) = 1 + l /\ Len(g) = 1
    BY <1>2, <1>4
  <2>2. /\ f \o g \in Seq(C) /\ Len(f \o g) = Len(f) + Len(g)
        /\ \A i \in 1..(Len(f) + Len(g)) : (f \o g)[i] = IF i <= Len(f) THEN f[i] ELSE g[i - Len(f)]
    BY ONLY <2>1, ConcatProperties
  <2> QED BY <1>5, <2>1, <2>2
<1>7. t[1] = Gap /\ t[l + 2] = Gap /\ \A i \in 1..l : t[i + 1] = c[i]
  <2>1. 1 \in 1..(1 + l + 1) /\ 1 \in 1..(1 + l) /\ 1 <= 1 + l /\ l + 2 \in 1..(1 + l + 1)
        /\ ~ (l + 2 <= 1 + l) /\ l + 2 - (1 + l) = 1
    BY <1>1
  <2>2. ASSUME NEW i \in 1..l
        PROVE  i + 1 \in 1..(1 + l + 1) /\ i + 1 <= 1 + l /\ i + 1 \in 1..(1 + l) /\ ~ (i + 1 <= 1) /\ i + 1 - 1 = i
    BY <1>1
  <2>3. t[1] = Gap
    BY <1>2, <1>4, <1>6, <2>1
  <2>4. t[l + 2] = Gap
    BY <1>2, <1>6, <2>1, SMTT(30)
  <2>5. \A i \in 1..l : t[i + 1] = c[i]
    BY <1>4, <1>6, <2>2
  <2> QED BY <2>3, <2>4, <2>5
<1>8. s \o t \in Seq(C) /\ Len(s \o t) = m + Len(t)
      /\ \A i \in 1..(m + Len(t)) : (s \o t)[i] = IF i <= m THEN s[i] ELSE t[i - m]
  <2>1. t \in Seq(C)
    BY <1>6
  <2> QED BY ONLY <2>1, s \in Seq(C), ConcatProperties DEF m
<1>9. b = Append(s \o t, Pipe)
  BY DEF Boxed, t
<1> HIDE DEF b
<1>10. b \in Seq(C) /\ Len(b) = m + l + 3 /\ b[m + l + 3] = Pipe
       /\ \A i \in 1..(m + Len(t)) : b[i] = (s \o t)[i]
  <2>1. Len(s \o t) + 1 = m + l + 3
    BY <1>1, <1>6, <1>8
  <2> QED BY <1>8, <1>9, <2>1, AppendProperties
<1>11. \A i \in 1..m : b[i] = s[i]
  BY <1>1, <1>6, <1>8, <1>10
<1>12. s \o g \o c \o gh = b
  <2>1. b = (s \o t) \o h
    BY <1>8, <1>9, AppendIsConcat DEF h
  <2>2. s \o t = (s \o f) \o g
    <3>1. f \in Seq(C)
      BY <1>4
    <3>2. g \in Seq(C) /\ s \in Seq(C)
      BY <1>2
    <3>3. (s \o f) \o g = s \o (f \o g)
      BY ONLY <3>1, <3>2, ConcatTurns
    <3> QED BY <1>5, <3>3
  <2>3. s \o f = (s \o g) \o c
    <3>1. g \in Seq(C)
      BY <1>2
    <3> QED BY ONLY <3>1, s \in Seq(C), c \in Seq(C), ConcatTurns DEF f
  <2>4. s \o f \in Seq(C)
    BY <1>4, ConcatProperties
  <2>5. ((s \o f) \o g) \o h = (s \o f) \o (g \o h)
    <3>1. g \in Seq(C) /\ h \in Seq(C)
      BY <1>2
    <3> DEFINE k == s \o f
    <3>2. k \in Seq(C)
      BY <2>4
    <3> HIDE DEF k
    <3>3. (k \o g) \o h = k \o (g \o h)
      BY ONLY <3>1, <3>2, ConcatTurns
    <3> QED BY <3>3 DEF k
  <2> QED BY <1>3, <2>1, <2>2, <2>3, <2>5
<1>13. Len(t) = l + 2
  BY <1>1, <1>6
<1> QED BY <1>6, <1>7, <1>8, <1>10, <1>11, <1>12, <1>13 DEF t, b, g, gh

-----------------------------------------------------------------------------
(* What is read of a row that was formatted.                               *)

\* A cell that is padded is the same cell when it is put between spaces.
LEMMA InsideIs ==
  ASSUME NEW C, Gap \in C, Pipe \in C, NEW c \in Seq(C), NEW x \in Seq(C), NEW a,
         Padded(c, x, a), Tidy(x)
  PROVE  /\ Trim(Inside(c)) = x
         /\ \E E : Quiet(Inside(c), E) /\ Len(Inside(c)) \notin E
<1> DEFINE t == Inside(c)
           l == Len(c)
           m == Len(x)
<1>1. /\ t \in Seq(C) /\ Len(t) = l + 2 /\ t[1] = Gap /\ t[l + 2] = Gap
      /\ \A i \in 1..l : t[i + 1] = c[i]
  BY BoxedIs
<1>2. l \in Nat /\ m \in Nat /\ a \in Nat /\ a + m <= l
  BY LenProperties DEF Padded
<1> HIDE DEF t
<1>3. Padded(t, x, a + 1)
  <2>1. \A i \in 1..(a + 1) : t[i] = Gap
    <3>1. ASSUME NEW i \in 1..(a + 1), i # 1 PROVE i - 1 \in 1..a /\ i - 1 \in 1..l /\ i - 1 + 1 = i
      BY <1>2, <3>1
    <3> QED BY <1>1, <3>1 DEF Padded
  <2>2. \A i \in 1..m : t[a + 1 + i] = x[i]
    <3>1. ASSUME NEW i \in 1..m PROVE a + i \in 1..l /\ a + i + 1 = a + 1 + i
      BY <1>2
    <3> QED BY <1>1, <3>1 DEF Padded
  <2>3. \A i \in (a + 1 + m + 1)..(l + 2) : t[i] = Gap
    <3>1. ASSUME NEW i \in (a + 1 + m + 1)..(l + 2), i # l + 2
          PROVE  i - 1 \in (a + m + 1)..l /\ i - 1 \in 1..l /\ i - 1 + 1 = i
      BY <1>2, <3>1
    <3> QED BY <1>1, <3>1 DEF Padded
  <2>4. a + 1 \in Nat /\ a + 1 + m <= l + 2
    BY <1>2
  <2> QED BY <1>1, <2>1, <2>2, <2>3, <2>4 DEF Padded
<1>4. PICK F : Quiet(x, F)
  BY DEF Tidy
<1>5. \E E : Quiet(t, E) /\ (Len(t) > a + 1 + m => Len(t) \notin E)
  BY <1>1, <1>2, <1>3, <1>4, QuietPadded
<1>6. Len(t) > a + 1 + m
  BY <1>1, <1>2
<1>7. Trim(t) = x
  BY <1>1, <1>3, TrimPadded DEF Tidy
<1> QED BY <1>5, <1>6, <1>7 DEF t

\* Between two pipes of a row.
Resting(s) ==
  /\ WalkOver(s).current = << >> /\ WalkOver(s).escaped = FALSE
  /\ WalkOver(s).place = Len(s) + 1

\* A cell put behind a row is divided off as the text that was padded.
LEMMA BoxedWalks ==
  ASSUME NEW C, Gap \in C, Pipe \in C, NEW s \in Seq(C), NEW c \in Seq(C), NEW x \in Seq(C),
         NEW a, Padded(c, x, a), Tidy(x), Resting(s)
  PROVE  /\ Resting(Boxed(s, c))
         /\ WalkOver(Boxed(s, c)).cells = Append(WalkOver(s).cells, x)
         /\ WalkOver(Boxed(s, c)).at = Append(WalkOver(s).at, Len(Boxed(s, c)))
<1> DEFINE t == Inside(c)
           v == WalkOver(s)
           w == WalkOver(Append(s \o t, Pipe))
<1>1. /\ t \in Seq(C) /\ Len(t) = Len(c) + 2 /\ Boxed(s, c) = Append(s \o t, Pipe)
      /\ Len(Boxed(s, c)) = Len(s) + Len(c) + 3
  BY BoxedIs DEF Boxed
<1>2. Trim(t) = x
  BY InsideIs
<1>3. PICK E : Quiet(t, E) /\ Len(t) \notin E
  BY InsideIs
<1>4. v.current = << >> /\ v.escaped = FALSE /\ v.place = Len(s) + 1
  BY Zenon DEF Resting
<1> HIDE DEF t
<1>5. /\ w.cells = Append(v.cells, Trim(t)) /\ w.current = << >> /\ w.escaped = FALSE
      /\ w.place = v.place + Len(t) + 1 /\ w.at = Append(v.at, v.place + Len(t))
  BY <1>1, <1>3, <1>4, QuietWalks
<1>6. Len(s) \in Nat /\ Len(c) \in Nat
  BY LenProperties
<1>7. v.place + Len(t) + 1 = Len(Boxed(s, c)) + 1 /\ v.place + Len(t) = Len(Boxed(s, c))
  BY <1>1, <1>4, <1>6
<1>8. WalkOver(Boxed(s, c)) = w
  BY <1>1
<1> HIDE DEF v, w
<1> QED BY Zenon, <1>2, <1>5, <1>7, <1>8 DEF v, Resting

\* A row begins with what is before its first pipe.
LEMMA OpenedWalks ==
  ASSUME NEW C, Pipe \in C, NEW p \in Seq(C), Quiet(p, {})
  PROVE  /\ Resting(Append(p, Pipe))
         /\ WalkOver(Append(p, Pipe)).cells = Append(<< >>, Trim(p))
         /\ WalkOver(Append(p, Pipe)).at = Append(<< >>, Len(p) + 1)
<1> DEFINE e == << >>
           v == WalkOver(e)
           w == WalkOver(Append(e \o p, Pipe))
<1>1. e \in Seq(C) /\ e \o p = p
  BY EmptySeq, ConcatEmptySeq
<1>2. /\ v.current = << >> /\ v.escaped = FALSE /\ v.place = 1 /\ v.cells = << >> /\ v.at = << >>
  BY Zenon, WalkOverMore, UnwalkedIs
<1>3. Len(p) \notin {}
  OBVIOUS
<1> HIDE DEF e
<1>4. /\ w.cells = Append(v.cells, Trim(p)) /\ w.current = << >> /\ w.escaped = FALSE
      /\ w.place = v.place + Len(p) + 1 /\ w.at = Append(v.at, v.place + Len(p))
  BY <1>1, <1>2, <1>3, QuietWalks
<1>5. Len(p) \in Nat /\ Len(Append(p, Pipe)) = Len(p) + 1
  BY LenProperties, AppendProperties
<1>6. 1 + Len(p) + 1 = Len(Append(p, Pipe)) + 1 /\ 1 + Len(p) = Len(p) + 1
  BY <1>5
<1> QED BY Zenon, <1>1, <1>2, <1>4, <1>6 DEF Resting

\* What joined() of Formatted does with a cell, and begins with.
Joins(s, c) == s \o << " " >> \o c \o << " ", "|" >>
Opens(p) == p \o << "|" >>

\* A row as it is joined: what is before its first pipe, and its cells.
Joined(p, cs) ==
  FoldLeft(LAMBDA s, c : s \o << " " >> \o c \o << " ", "|" >>, p \o << "|" >>, cs)

\* A row begins with its prefix and a pipe.
LEMMA OpensWith ==
  ASSUME NEW C, Pipe \in C, NEW p \in Seq(C)
  PROVE  Opens(p) = Append(p, Pipe) /\ Append(p, Pipe) \in Seq(C)
<1>1. Append(p, Pipe) = p \o << Pipe >> /\ Append(p, Pipe) \in Seq(C)
  BY AppendIsConcat, AppendProperties
<1>2. << "|" >> = << Pipe >>
  BY Zenon DEF Pipe
<1> QED BY <1>1, <1>2 DEF Opens

\* A cell is joined by boxing it.
LEMMA GoesOnWith ==
  ASSUME NEW C, Gap \in C, Pipe \in C, NEW s \in Seq(C), NEW c \in Seq(C)
  PROVE  Joins(s, c) = Boxed(s, c) /\ Boxed(s, c) \in Seq(C)
<1>1. s \o << Gap >> \o c \o << Gap, Pipe >> = Boxed(s, c) /\ Boxed(s, c) \in Seq(C)
  BY BoxedIs
<1>2. << " " >> = << Gap >> /\ << " ", "|" >> = << Gap, Pipe >>
  BY Zenon DEF Gap, Pipe
<1> QED BY <1>1, <1>2 DEF Joins


\* Joining the cells, one by one.
LEMMA JoinedWalk ==
  ASSUME NEW C,
         Gap \in C,
         Pipe \in C,
         NEW p \in Seq(C),
         NEW cs \in Seq(Seq(C))
  PROVE  \E w : /\ w \in [0..Len(cs) -> Seq(C)] /\ w[0] = Opens(p)
                /\ Joined(p, cs) = w[Len(cs)]
                /\ \A k \in 1..Len(cs) : w[k] = Joins(w[k - 1], cs[k])
<1> DEFINE s == cs
           n == Len(s)
           base == Opens(p)
           V == Seq(C)
           Op(v, e) == Joins(v, e)
           Rec(g) == g = [t \in SUBSET (DOMAIN s) |->
                            IF t = {} THEN base ELSE Op(g[t \ {Max(t)}], s[Max(t)])]
           it == CHOOSE g : Rec(g)
           whole == Joined(p, cs)
           step == [x \in V \X (1..n) |-> Op(x[1], s[x[2]])]
<1>1. n \in Nat /\ DOMAIN s = 1..n
  BY LenProperties
<1>2. whole = it[DOMAIN s]
  BY DEF Joined, Joins, Opens, FoldLeft, MapThenFoldSet
<1>3. base \in V
  BY OpensWith
<1> HIDE DEF s, n, base, V, whole
<1>4. ASSUME NEW v \in V, NEW k \in 1..n PROVE Op(v, s[k]) \in V
  BY <1>1, <1>4, ElementOfSeq, GoesOnWith DEF s, n, V
<1> HIDE DEF Op
<1>5. step \in [V \X (1..n) -> V] /\ \A v \in V, k \in 1..n : step[<<v, k>>] = Op(v, s[k])
  BY <1>4
<1> HIDE DEF step
<1>6. PICK f : FoldsOn(f, V, base, n, step)
  BY <1>1, <1>3, <1>5, FoldExists
<1>7. Rec(f)
  BY <1>6, <1>1, TopIsIn, <1>5 DEF FoldsOn
<1>8. Rec(it)
  BY <1>7
<1> HIDE DEF it
<1>9. FoldsAs(it, V, base, n, step)
  BY <1>1, <1>8, TopIsIn, <1>5 DEF FoldsAs
<1>10. WalksTo(whole, V, base, n, step)
  BY <1>1, <1>2, <1>3, <1>5, <1>9, FoldWalks
<1>11. PICK w : Solves(w, V, base, n, step) /\ whole = w[n]
  BY <1>10 DEF WalksTo
<1>12. /\ w \in [0..n -> V] /\ w[0] = base
       /\ \A k \in 1..n : w[k - 1] \in V /\ w[k] = step[<<w[k - 1], k>>]
  <2>1. \A k \in 1..n : k - 1 \in 0..n
    BY <1>1
  <2> QED BY <1>11, <2>1 DEF Solves
<1>13. \A k \in 1..n : w[k] = Op(w[k - 1], s[k])
  BY <1>5, <1>12
<1> QED BY <1>11, <1>12, <1>13 DEF s, n, base, V, whole, Op

\* The row after each cell.
Chain(v, p, cs, C) ==
  /\ v \in [0..Len(cs) -> Seq(C)] /\ v[0] = Append(p, Pipe) /\ v[Len(cs)] = Joined(p, cs)
  /\ \A k \in 1..Len(cs) : v[k] = Boxed(v[k - 1], cs[k])

\* A joined row is the end of a chain.
LEMMA JoinedChain ==
  ASSUME NEW C, Gap \in C, Pipe \in C, NEW p \in Seq(C), NEW cs \in Seq(Seq(C))
  PROVE  \E v : Chain(v, p, cs, C)
<1> DEFINE n == Len(cs)
<1>1. PICK w : /\ w \in [0..n -> Seq(C)] /\ w[0] = Opens(p) /\ Joined(p, cs) = w[n]
               /\ \A k \in 1..n : w[k] = Joins(w[k - 1], cs[k])
  BY JoinedWalk
<1>2. w[0] = Append(p, Pipe)
  BY <1>1, OpensWith
<1>3. ASSUME NEW k \in 1..n PROVE w[k] = Boxed(w[k - 1], cs[k])
  <2>1. n \in Nat
    BY LenProperties
  <2>2. k - 1 \in 0..n
    BY <2>1
  <2>3. w[k - 1] \in Seq(C) /\ cs[k] \in Seq(C)
    BY <1>1, <2>2, ElementOfSeq
  <2>4. Joins(w[k - 1], cs[k]) = Boxed(w[k - 1], cs[k])
    BY ONLY <2>3, Gap \in C, Pipe \in C, GoesOnWith
  <2>5. w[k] = Joins(w[k - 1], cs[k])
    BY <1>1
  <2> QED BY <2>4, <2>5
<1>4. Chain(w, p, cs, C)
  BY <1>1, <1>2, <1>3 DEF Chain
<1> QED BY <1>4

\* Each row of a chain goes on with the one before.
GoesOn(v, cs, C, k) ==
  /\ k - 1 \in 0..Len(cs) /\ k \in 0..Len(cs) /\ k \in Nat
  /\ v[k - 1] \in Seq(C) /\ v[k] \in Seq(C) /\ cs[k] \in Seq(C)
  /\ v[k] = Boxed(v[k - 1], cs[k])
  /\ Len(v[k]) = Len(v[k - 1]) + Len(cs[k]) + 3
  /\ Len(v[k - 1]) \in Nat /\ Len(cs[k]) \in Nat
  /\ v[k][Len(v[k])] = Pipe
  /\ \A i \in 1..Len(v[k - 1]) : v[k][i] = v[k - 1][i]

\* One cell along a chain.
LEMMA ChainStep ==
  ASSUME NEW C, Gap \in C, Pipe \in C, NEW p \in Seq(C), NEW cs \in Seq(Seq(C)),
         NEW v, Chain(v, p, cs, C), NEW k \in 1..Len(cs)
  PROVE  GoesOn(v, cs, C, k)
<1>1. Len(cs) \in Nat
  BY LenProperties
<1>2. k - 1 \in 0..Len(cs) /\ k \in 0..Len(cs) /\ k \in Nat
  BY <1>1
<1>3. v[k - 1] \in Seq(C) /\ cs[k] \in Seq(C) /\ v[k] = Boxed(v[k - 1], cs[k])
  BY <1>2, ElementOfSeq DEF Chain
<1>4. Len(v[k - 1]) \in Nat /\ Len(cs[k]) \in Nat
  BY <1>3, LenProperties
<1>5. /\ Boxed(v[k - 1], cs[k]) \in Seq(C)
      /\ Len(Boxed(v[k - 1], cs[k])) = Len(v[k - 1]) + Len(cs[k]) + 3
      /\ \A i \in 1..Len(v[k - 1]) : Boxed(v[k - 1], cs[k])[i] = v[k - 1][i]
      /\ Boxed(v[k - 1], cs[k])[Len(v[k - 1]) + Len(cs[k]) + 3] = Pipe
  <2> DEFINE u == v[k - 1]
             c == cs[k]
  <2>1. u \in Seq(C) /\ c \in Seq(C)
    BY <1>3
  <2> HIDE DEF u, c
  <2>2. /\ Boxed(u, c) \in Seq(C) /\ Len(Boxed(u, c)) = Len(u) + Len(c) + 3
        /\ \A i \in 1..Len(u) : Boxed(u, c)[i] = u[i]
        /\ Boxed(u, c)[Len(u) + Len(c) + 3] = Pipe
    BY ONLY <2>1, Gap \in C, Pipe \in C, BoxedIs
  <2> QED BY <2>2 DEF u, c
<1> QED BY <1>2, <1>3, <1>4, <1>5 DEF GoesOn

\* Each row before it is what it begins with.
Grown(v, k, C) ==
  /\ v[k] \in Seq(C) /\ Len(v[k]) \in Nat \ {0} /\ v[k][Len(v[k])] = Pipe
  /\ \A m \in 0..k : Len(v[m]) \in 1..Len(v[k]) /\ \A i \in 1..Len(v[m]) : v[k][i] = v[m][i]

\* A row of a chain is a part of the rows after it.
LEMMA ChainGrows ==
  ASSUME NEW C, Gap \in C, Pipe \in C, NEW p \in Seq(C), NEW cs \in Seq(Seq(C)),
         NEW v, Chain(v, p, cs, C), NEW k \in 0..Len(cs)
  PROVE  Grown(v, k, C)
<1> DEFINE n == Len(cs)
           S == {j \in 0..n : Grown(v, j, C)}
<1>1. n \in Nat
  BY LenProperties
<1>2. 0 \in S
  <2>1. v[0] = Append(p, Pipe) /\ 0 \in 0..n
    BY <1>1 DEF Chain
  <2>2. Append(p, Pipe) \in Seq(C) /\ Len(Append(p, Pipe)) = Len(p) + 1 /\ Append(p, Pipe)[Len(p) + 1] = Pipe
    BY AppendProperties
  <2>3. Len(p) \in Nat /\ \A m \in 0..0 : m = 0
    BY LenProperties
  <2>4. v[0] \in Seq(C) /\ Len(v[0]) = Len(p) + 1 /\ Len(p) + 1 \in Nat \ {0} /\ v[0][Len(v[0])] = Pipe
    BY <2>1, <2>2, <2>3
  <2>5. Grown(v, 0, C)
    BY <2>3, <2>4 DEF Grown
  <2> QED BY <2>1, <2>5
<1>3. ASSUME NEW j \in 1..n, j - 1 \in S PROVE j \in S
  <2> DEFINE u == v[j - 1]
             w == v[j]
  <2>1. /\ j \in 0..n /\ j \in Nat /\ u \in Seq(C) /\ w \in Seq(C)
        /\ Len(w) = Len(u) + Len(cs[j]) + 3 /\ Len(u) \in Nat /\ Len(cs[j]) \in Nat
        /\ w[Len(w)] = Pipe /\ \A i \in 1..Len(u) : w[i] = u[i]
    <3>1. GoesOn(v, cs, C, j)
      BY ChainStep
    <3> QED BY ONLY <3>1 DEF GoesOn
  <2>2. \A m \in 0..(j - 1) : Len(v[m]) \in 1..Len(u) /\ \A i \in 1..Len(v[m]) : u[i] = v[m][i]
    BY <1>3 DEF Grown
  <2> HIDE DEF u
  <2>3. ASSUME NEW m \in 0..j
        PROVE  Len(v[m]) \in 1..Len(w) /\ \A i \in 1..Len(v[m]) : w[i] = v[m][i]
    <3>1. CASE m = j
      BY <2>1, <3>1
    <3>2. CASE m # j
      <4>1. m \in 0..(j - 1)
        BY <2>1, <3>2
      <4>2. Len(v[m]) \in 1..Len(u) /\ \A i \in 1..Len(v[m]) : u[i] = v[m][i]
        BY <2>2, <4>1
      <4> HIDE DEF w
      <4>3. \A i \in 1..Len(v[m]) : i \in 1..Len(u)
        BY <2>1, <4>2
      <4> QED BY <2>1, <4>2, <4>3, SMTT(30)
    <3> QED BY <3>1, <3>2
  <2>4. Len(w) \in Nat \ {0}
    BY <2>1
  <2> QED BY <2>1, <2>3, <2>4 DEF Grown
<1>4. k \in S
  BY <1>1, <1>2, <1>3, StepByStep
<1> QED BY <1>4

\* What is in the cells of a row, and what is around that.
Fits(cs, xs, C) ==
  /\ cs \in Seq(Seq(C)) /\ AreCells(xs, C) /\ Len(xs) = Len(cs)
  /\ \A k \in 1..Len(cs) : \E a : Padded(cs[k], xs[k], a)

\* What is read of a row that was joined.
ReadAs(v, k, p, xs, C) ==
  LET w == WalkOver(v[k])
  IN  /\ Resting(v[k]) /\ w.cells \in Seq(Seq(C)) /\ w.at \in Seq(Nat)
      /\ Len(w.cells) = k + 1 /\ Len(w.at) = k + 1
      /\ w.cells[1] = Trim(p) /\ \A m \in 1..k : w.cells[m + 1] = xs[m]
      /\ \A m \in 0..k : w.at[m + 1] = Len(v[m])

\* What is divided off a row of a chain: what its cells were padded from.
LEMMA ChainReads ==
  ASSUME NEW C, Gap \in C, Pipe \in C, NEW p \in Seq(C), Quiet(p, {}), NEW cs, NEW xs,
         Fits(cs, xs, C), NEW v, Chain(v, p, cs, C), NEW k \in 0..Len(cs)
  PROVE  ReadAs(v, k, p, xs, C)
<1> DEFINE n == Len(cs)
           W(j) == WalkOver(v[j])
           Read1(j) == /\ Resting(v[j]) /\ W(j).cells \in Seq(Seq(C)) /\ W(j).at \in Seq(Nat)
                       /\ Len(W(j).cells) = j + 1 /\ Len(W(j).at) = j + 1
                       /\ W(j).cells[1] = Trim(p) /\ \A m \in 1..j : W(j).cells[m + 1] = xs[m]
                       /\ \A m \in 0..j : W(j).at[m + 1] = Len(v[m])
           S == {j \in 0..n : Read1(j)}
<1>1. n \in Nat /\ cs \in Seq(Seq(C)) /\ AreCells(xs, C) /\ Len(xs) = n
  BY LenProperties DEF Fits
<1>2. 0 \in S
  <2>1. v[0] = Append(p, Pipe) /\ 0 \in 0..n
    BY <1>1 DEF Chain
  <2>2. /\ Resting(Append(p, Pipe))
        /\ WalkOver(Append(p, Pipe)).cells = Append(<< >>, Trim(p))
        /\ WalkOver(Append(p, Pipe)).at = Append(<< >>, Len(p) + 1)
    BY OpenedWalks
  <2>3. Len(Append(p, Pipe)) = Len(p) + 1 /\ Len(p) + 1 \in Nat /\ Trim(p) \in Seq(C)
    BY AppendProperties, LenProperties, TrimIs
  <2>4. ASSUME NEW X, NEW x \in X
        PROVE  /\ Append(<< >>, x) \in Seq(X) /\ Len(Append(<< >>, x)) = 1
               /\ Append(<< >>, x)[1] = x
    OBVIOUS
  <2>5. /\ W(0).cells \in Seq(Seq(C)) /\ Len(W(0).cells) = 1 /\ W(0).cells[1] = Trim(p)
    BY <2>1, <2>2, <2>3, <2>4
  <2>6. W(0).at \in Seq(Nat) /\ Len(W(0).at) = 1 /\ W(0).at[1] = Len(v[0])
    BY <2>1, <2>2, <2>3, <2>4
  <2>7. Resting(v[0]) /\ 0 + 1 = 1 /\ (\A m \in 0..0 : m = 0) /\ 1..0 = {}
    BY <2>1, <2>2
  <2> HIDE DEF W
  <2>8. Read1(0)
    BY <2>5, <2>6, <2>7
  <2> QED BY <2>1, <2>8
<1>3. ASSUME NEW j \in 1..n, j - 1 \in S PROVE j \in S
  <2> DEFINE u == v[j - 1]
             c == cs[j]
             x == xs[j]
             b == Boxed(u, c)
             l == Len(b)
             wu == WalkOver(u)
             wb == WalkOver(b)
  <2>1. /\ j \in 0..n /\ j - 1 \in 0..n /\ j \in Nat /\ u \in Seq(C) /\ c \in Seq(C) /\ v[j] = b
        /\ v[j] \in Seq(C)
    <3>1. GoesOn(v, cs, C, j)
      BY <1>1, ChainStep
    <3> QED BY ONLY <3>1 DEF GoesOn
  <2>2. x \in Seq(C) /\ Tidy(x) /\ \E a : Padded(c, x, a)
    BY <1>1, ElementOfSeq DEF AreCells, Fits
  <2>3. Read1(j - 1)
    BY <1>3
  <2>4. /\ Resting(u) /\ wu.cells \in Seq(Seq(C)) /\ wu.at \in Seq(Nat)
        /\ Len(wu.cells) = j - 1 + 1 /\ Len(wu.at) = j - 1 + 1
        /\ wu.cells[1] = Trim(p)
        /\ \A m \in 1..(j - 1) : wu.cells[m + 1] = xs[m]
        /\ \A m \in 0..(j - 1) : wu.at[m + 1] = Len(v[m])
    BY <2>3
  <2>5. j - 1 + 1 = j
    BY <2>1
  <2>6. l \in Nat
    BY <2>1, LenProperties
  <2>7. Resting(b) /\ wb.cells = Append(wu.cells, x) /\ wb.at = Append(wu.at, l)
    <3> HIDE DEF u, c, x
    <3>1. PICK a : Padded(c, x, a)
      BY <2>2
    <3>2. /\ Gap \in C /\ Pipe \in C /\ u \in Seq(C) /\ c \in Seq(C) /\ x \in Seq(C)
          /\ Tidy(x) /\ Resting(u)
      BY <2>1, <2>2, <2>4
    <3> QED BY ONLY <3>1, <3>2, BoxedWalks DEF b, l, wu, wb
  <2> HIDE DEF u, c, x, b, l, wu, wb
  <2>8. /\ wb.cells \in Seq(Seq(C)) /\ Len(wb.cells) = j + 1 /\ wb.cells[j + 1] = x
        /\ \A i \in 1..j : wb.cells[i] = wu.cells[i]
    BY <2>2, <2>4, <2>5, <2>7, AppendProperties
  <2>9. /\ wb.at \in Seq(Nat) /\ Len(wb.at) = j + 1 /\ wb.at[j + 1] = l
        /\ \A i \in 1..j : wb.at[i] = wu.at[i]
    BY <2>4, <2>5, <2>6, <2>7, AppendProperties
  <2>10. ASSUME NEW m \in 1..j PROVE wb.cells[m + 1] = xs[m]
    <3>1. CASE m = j
      BY <2>8, <3>1 DEF x
    <3>2. CASE m # j
      <4>1. m \in 1..(j - 1) /\ m + 1 \in 1..j
        BY <2>1, <3>2
      <4> QED BY <2>4, <2>8, <4>1
    <3> QED BY <3>1, <3>2
  <2>11. ASSUME NEW m \in 0..j PROVE wb.at[m + 1] = Len(v[m])
    <3>1. CASE m = j
      BY <2>1, <2>9, <3>1 DEF l
    <3>2. CASE m # j
      BY <2>1, <3>2, <2>4, <2>9
    <3> QED BY <3>1, <3>2
  <2>12. wb.cells[1] = Trim(p)
    <3>1. 1 \in 1..j
      BY <2>1
    <3> QED BY <2>4, <2>8, <3>1
  <2>13. W(j) = wb /\ Resting(v[j])
    BY <2>1, <2>7 DEF wb
  <2> HIDE DEF W
  <2>14. Read1(j)
    BY <2>8, <2>9, <2>10, <2>11, <2>12, <2>13
  <2> QED BY <2>1, <2>14
<1>4. k \in S
  BY <1>1, <1>2, <1>3, StepByStep
<1> QED BY <1>4 DEF ReadAs

\* What is before the first pipe of a row are characters of a container.
IsContainer(p, C) == p \in Seq(C) /\ \A i \in 1..Len(p) : p[i] \in ContainerChars

\* No container character is a pipe or an escape.
LEMMA ContainersAreQuiet ==
  /\ Pipe \notin ContainerChars
  /\ \A ch \in ContainerChars : ch # Pipe /\ ch # Escape
<1>1. ASSUME NEW ch \in ContainerChars PROVE ch # Pipe /\ ch # Escape
  <2>1. ch = " " \/ ch = ">"
    BY Zenon DEF ContainerChars
  <2>2. " " # Pipe /\ " " # Escape /\ ">" # Pipe /\ ">" # Escape
    BY Zenon DEF Pipe, Escape
  <2> QED BY Zenon, <2>1, <2>2
<1> QED BY Zenon, <1>1

\* So the prefix of a row is quiet.
LEMMA PrefixIsQuiet ==
  ASSUME NEW C, NEW p, IsContainer(p, C)
  PROVE  Quiet(p, {})
BY ContainersAreQuiet DEF Quiet, IsContainer

\* A row behind a prefix is that and the row without it.
LEMMA BoxedBehind ==
  ASSUME NEW C, Gap \in C, Pipe \in C, NEW p \in Seq(C), NEW s \in Seq(C), NEW c \in Seq(C)
  PROVE  Boxed(p \o s, c) = p \o Boxed(s, c) /\ Boxed(s, c) \in Seq(C)
<1> DEFINE t == Inside(c)
           b == << Pipe >>
<1>1. t \in Seq(C) /\ s \o t \in Seq(C) /\ Boxed(s, c) \in Seq(C)
  BY BoxedIs
<1> HIDE DEF t
<1>2. b \in Seq(C)
  OBVIOUS
<1> HIDE DEF b
<1>3. p \o s \in Seq(C) /\ p \in Seq(C) /\ s \in Seq(C)
  BY ConcatProperties
<1>4. (p \o s) \o t \in Seq(C)
  BY ONLY <1>1, <1>3, ConcatProperties
<1>5. Boxed(p \o s, c) = ((p \o s) \o t) \o b
  BY <1>4, AppendIsConcat DEF Boxed, t, b
<1>6. Boxed(s, c) = (s \o t) \o b
  BY <1>1, AppendIsConcat DEF Boxed, t, b
<1>7. (p \o s) \o t = p \o (s \o t)
  BY ONLY <1>1, <1>3, ConcatAssociative
<1>8. (p \o (s \o t)) \o b = p \o ((s \o t) \o b)
  <2> DEFINE x == s \o t
  <2>1. x \in Seq(C)
    BY <1>1
  <2> HIDE DEF x
  <2>2. (p \o x) \o b = p \o (x \o b)
    BY ONLY <2>1, <1>2, <1>3, ConcatAssociative, SMTT(30)
  <2> QED BY <2>2 DEF x
<1> QED BY <1>1, <1>5, <1>6, <1>7, <1>8

\* The cells are joined behind a prefix as they are without it.
LEMMA JoinedBehind ==
  ASSUME NEW C, Gap \in C, Pipe \in C, NEW p \in Seq(C), NEW cs \in Seq(Seq(C))
  PROVE  Joined(p, cs) = p \o Joined(<< >>, cs)
<1> DEFINE e == << >>
           n == Len(cs)
<1>1. e \in Seq(C) /\ n \in Nat /\ n \in 0..n
  BY LenProperties, EmptySeq
<1> HIDE DEF e
<1>2. PICK v : Chain(v, p, cs, C)
  BY JoinedChain
<1>3. PICK w : Chain(w, e, cs, C)
  BY <1>1, JoinedChain
<1> DEFINE S == {k \in 0..n : v[k] = p \o w[k]}
<1>4. 0 \in S
  <2>1. v[0] = Append(p, Pipe) /\ w[0] = Append(e, Pipe)
    BY <1>2, <1>3 DEF Chain
  <2>2. Append(e, Pipe) = << Pipe >>
    BY DEF e
  <2>3. Append(p, Pipe) = p \o << Pipe >>
    BY AppendIsConcat
  <2>4. v[0] = p \o w[0]
    BY Zenon, <2>1, <2>2, <2>3
  <2> QED BY <1>1, <2>4
<1>5. ASSUME NEW k \in 1..n, k - 1 \in S PROVE k \in S
  <2>1. GoesOn(v, cs, C, k)
    BY <1>2, ChainStep
  <2>2. GoesOn(w, cs, C, k)
    BY <1>1, <1>3, ChainStep
  <2> DEFINE s == w[k - 1]
             c == cs[k]
  <2>3. s \in Seq(C) /\ c \in Seq(C) /\ w[k] = Boxed(s, c) /\ v[k] = Boxed(p \o s, c) /\ k \in 0..n
    BY <1>5, <2>1, <2>2 DEF GoesOn
  <2> HIDE DEF s, c
  <2>4. Boxed(p \o s, c) = p \o Boxed(s, c)
    BY <2>3, BoxedBehind
  <2> QED BY <2>3, <2>4
<1>6. n \in S
  BY <1>1, <1>4, <1>5, StepByStep
<1>7. v[n] = Joined(p, cs) /\ w[n] = Joined(e, cs)
  BY <1>2, <1>3 DEF Chain
<1> QED BY <1>6, <1>7 DEF e

\* A row that ends with something else than a space.
LEMMA EndStays ==
  ASSUME NEW C, NEW s \in Seq(C), Len(s) \in Nat \ {0}, s[Len(s)] # Gap
  PROVE  TrimEnd(s) = s
<1>1. Trailing(s, Len(s))
  BY DEF Trailing
<1>2. TrimEnd(s) = SubSeq(s, 1, Len(s))
  BY <1>1, TrimEndIs
<1> QED BY <1>2, PrefixMore

\* Without a prefix.
LEMMA BareRow ==
  ASSUME NEW C, Gap \in C, Pipe \in C, NEW cs, NEW xs, Fits(cs, xs, C)
  PROVE  LET r == Joined(<< >>, cs)
         IN  r \in Seq(C) /\ Len(r) \in Nat \ {0} /\ r[1] = Pipe /\ SplitCells(r) = xs
<1> DEFINE e == << >>
           n == Len(cs)
           r == Joined(e, cs)
<1>1. e \in Seq(C) /\ Len(e) = 0 /\ cs \in Seq(Seq(C)) /\ n \in Nat /\ n \in 0..n /\ 0 \in 0..n
      /\ Len(xs) = n /\ xs \in Seq(Seq(C))
  BY LenProperties, EmptySeq DEF Fits, AreCells
<1>2. Quiet(e, {}) /\ Trim(e) = e
  BY <1>1, EmptyIsTidy, NothingTrims
<1>3. Append(e, Pipe)[1] = Pipe /\ Len(Append(e, Pipe)) = 1
  OBVIOUS
<1> HIDE DEF e
<1>4. PICK v : Chain(v, e, cs, C)
  BY <1>1, JoinedChain
<1>5. v[n] = r /\ v[0] = Append(e, Pipe)
  BY <1>4 DEF Chain
<1>16. Grown(v, n, C)
  BY <1>1, <1>4, ChainGrows
<1>17. ReadAs(v, n, e, xs, C)
  BY <1>1, <1>2, <1>4, ChainReads
<1> HIDE DEF n, r
<1>6. /\ r \in Seq(C) /\ Len(r) \in Nat \ {0} /\ r[Len(r)] = Pipe
      /\ \A m \in 0..n : \A i \in 1..Len(v[m]) : v[n][i] = v[m][i]
  BY <1>1, <1>5, <1>16 DEF Grown
<1>7. r[1] = Pipe
  BY <1>3, <1>5, <1>1, <1>6
<1> DEFINE w == WalkOver(r)
<1>8. /\ Resting(r) /\ w.cells \in Seq(Seq(C)) /\ w.at \in Seq(Nat)
      /\ Len(w.cells) = n + 1 /\ Len(w.at) = n + 1
      /\ w.cells[1] = Trim(e) /\ \A m \in 1..n : w.cells[m + 1] = xs[m]
  BY <1>5, <1>17 DEF ReadAs
<1>9. Walked(r) = w
  BY <1>6, CellsAre, EndStays, TrimsAre
<1> HIDE DEF w
<1>10. w.current = e /\ w.at # << >> /\ w.cells # << >>
  <2>1. w.current = << >>
    BY Zenon, <1>8 DEF Resting, w
  <2>2. n + 1 # 0
    BY <1>1
  <2> QED BY <1>8, <2>1, <2>2, NothingIs DEF e
<1>11. Parted(r) = w.cells
  BY Zenon, <1>2, <1>9, <1>10 DEF Parted, e
<1>12. BeginsOpen(r)
  <2>1. r # << >>
    BY <1>6, NothingIs
  <2> QED BY Zenon, <1>2, <1>7, <1>8, <1>10, <1>11, <2>1 DEF BeginsOpen, e
<1>13. SplitCells(r) = Tail(w.cells)
  BY Zenon, <1>11, <1>12, CellsAre
<1>14. /\ Tail(w.cells) \in Seq(Seq(C)) /\ Len(Tail(w.cells)) = n
       /\ \A i \in 1..n : Tail(w.cells)[i] = w.cells[i + 1]
  <2> DEFINE z == w.cells
  <2>1. n + 1 - 1 = n /\ z \in Seq(Seq(C)) /\ z # << >> /\ Len(z) = n + 1
    BY <1>1, <1>8, <1>10
  <2> HIDE DEF z
  <2>2. /\ Tail(z) \in Seq(Seq(C)) /\ Len(Tail(z)) = Len(z) - 1
        /\ \A i \in 1..Len(Tail(z)) : Tail(z)[i] = z[i + 1]
    BY ONLY <2>1, HeadTailProperties
  <2>3. Len(Tail(z)) = n
    <3>1. n \in Nat
      BY <1>1
    <3> QED BY ONLY <2>1, <2>2, <3>1
  <2>4. Tail(z) \in Seq(Seq(C)) /\ Len(Tail(z)) = n /\ \A i \in 1..n : Tail(z)[i] = z[i + 1]
    BY <2>2, <2>3
  <2> QED BY <2>4 DEF z
<1>15. Tail(w.cells) = xs
  <2> DEFINE z == Tail(w.cells)
  <2>1. z \in Seq(Seq(C)) /\ Len(z) = Len(xs) /\ \A i \in 1..Len(z) : z[i] = xs[i]
    BY <1>1, <1>8, <1>14
  <2> HIDE DEF z
  <2>2. z = xs
    BY <1>1, <2>1, SeqEqual
  <2> QED BY <2>2 DEF z
<1> QED BY <1>6, <1>7, <1>13, <1>15 DEF r, e

\* What a row that was joined says: its cells, behind the same prefix.
LEMMA RowSays ==
  ASSUME NEW C, Gap \in C, Pipe \in C, NEW p, IsContainer(p, C), NEW cs, NEW xs, Fits(cs, xs, C)
  PROVE  LET r == Joined(p, cs)
         IN  /\ r \in Seq(C) /\ Cells(r) = xs /\ ContainerPrefix(r) = p /\ ~IsBlank(r)
<1> DEFINE t == Joined(<< >>, cs)
           r == Joined(p, cs)
           l == Len(p)
<1>1. t \in Seq(C) /\ Len(t) \in Nat \ {0} /\ t[1] = Pipe /\ SplitCells(t) = xs
  BY BareRow
<1>2. p \in Seq(C) /\ l \in Nat /\ cs \in Seq(Seq(C))
  BY LenProperties DEF IsContainer, Fits
<1>3. r = p \o t
  BY <1>2, JoinedBehind
<1> HIDE DEF t, r
<1> DEFINE m == Len(t)
<1>4. r \in Seq(C) /\ Len(r) = l + m /\ \A i \in 1..(l + m) : r[i] = IF i <= l THEN p[i] ELSE t[i - l]
  BY <1>1, <1>2, <1>3, ConcatProperties
<1>5. Leading(r, l, ContainerChars)
  <2>1. \A i \in 1..l : i \in 1..(l + m) /\ i <= l
    BY <1>1, <1>2
  <2>2. \A i \in 1..l : r[i] \in ContainerChars
    BY <1>4, <2>1 DEF IsContainer
  <2>3. l + 1 \in 1..(l + m) /\ ~ (l + 1 <= l) /\ l + 1 - l = 1 /\ l \in 0..(l + m)
    BY <1>1, <1>2
  <2>4. r[l + 1] = Pipe
    BY <1>1, <1>4, <2>3
  <2> QED BY <1>4, <2>2, <2>3, <2>4, ContainersAreQuiet DEF Leading
<1> DEFINE u == SubSeq(r, l + 1, Len(r))
<1>6. TrimStart(r, ContainerChars) = u
  BY <1>4, <1>5, TrimStartIs
<1>7. u \in Seq(C) /\ Len(u) = m /\ \A i \in 1..m : u[i] = t[i]
  <2>1. l + 1 \in Nat \ {0} /\ l + m \in Nat /\ l + m <= l + m /\ l + 1 <= l + m + 1
        /\ l + m - (l + 1) + 1 = m
    BY <1>1, <1>2
  <2>2. /\ SubSeq(r, l + 1, l + m) \in Seq(C) /\ Len(SubSeq(r, l + 1, l + m)) = l + m - (l + 1) + 1
        /\ \A i \in 1..(l + m - (l + 1) + 1) : SubSeq(r, l + 1, l + m)[i] = r[l + 1 + i - 1]
    BY <1>4, <2>1, PartIs
  <2>3. ASSUME NEW i \in 1..m
        PROVE  l + 1 + i - 1 \in 1..(l + m) /\ ~ (l + 1 + i - 1 <= l) /\ l + 1 + i - 1 - l = i
    BY <1>1, <1>2
  <2>4. u = SubSeq(r, l + 1, l + m)
    BY <1>4
  <2> HIDE DEF u
  <2>5. u \in Seq(C) /\ Len(u) = m /\ \A i \in 1..m : u[i] = r[l + 1 + i - 1]
    BY <2>1, <2>2, <2>4
  <2>6. \A i \in 1..m : r[l + 1 + i - 1] = t[i]
    BY <1>4, <2>3
  <2> QED BY <2>5, <2>6
<1> HIDE DEF u
<1>8. u = t
  BY <1>1, <1>7, SeqEqual
<1>9. Cells(r) = xs
  BY <1>1, <1>6, <1>8, CellsAre
<1>10. ContainerPrefix(r) = p
  BY <1>6, <1>1, <1>2, <1>4, <1>7, PartIs, SeqEqual DEF ContainerPrefix
<1>11. ~IsBlank(r)
  BY <1>1, <1>7, NothingIs, <1>6 DEF IsBlank
<1> QED BY <1>4, <1>9, <1>10, <1>11 DEF r

-----------------------------------------------------------------------------
(* What a text takes on screen.                                            *)

Broad == "w"
BroadOnes(s) == {i \in DOMAIN s : s[i] = Broad}

\* How many columns a text takes, by those names.
LEMMA OnScreenIs ==
  /\ \A s : OnScreen(s) = Len(s) + Cardinality(BroadOnes(s))
  /\ Gap # Broad /\ Pipe # Broad
BY Zenon DEF OnScreen, BroadOnes, Broad, Gap, Pipe

\* They can be counted.
LEMMA BroadCount ==
  ASSUME NEW C, NEW s \in Seq(C)
  PROVE  /\ BroadOnes(s) \in SUBSET (1..Len(s)) /\ IsFiniteSet(BroadOnes(s))
         /\ Cardinality(BroadOnes(s)) \in Nat /\ Len(s) \in Nat /\ OnScreen(s) \in Nat
<1>1. Len(s) \in Nat /\ DOMAIN s = 1..Len(s)
  BY LenProperties
<1>2. BroadOnes(s) \in SUBSET (1..Len(s))
  BY <1>1 DEF BroadOnes
<1>3. IsFiniteSet(1..Len(s))
  BY <1>1, FS_Interval
<1>4. IsFiniteSet(BroadOnes(s))
  BY <1>2, <1>3, FS_Subset
<1>5. Cardinality(BroadOnes(s)) \in Nat
  BY <1>4, FS_CardinalityType
<1>6. OnScreen(s) \in Nat
  BY <1>1, <1>5, OnScreenIs
<1> QED BY <1>1, <1>2, <1>4, <1>5, <1>6

\* Two texts one after the other take what both take.
LEMMA OnScreenJoins ==
  ASSUME NEW C, NEW s \in Seq(C), NEW t \in Seq(C)
  PROVE  OnScreen(s \o t) = OnScreen(s) + OnScreen(t)
<1> DEFINE j == s \o t
           m == Len(s)
           l == Len(t)
           A == BroadOnes(s)
           B == BroadOnes(t)
           D == {i \in (m + 1)..(m + l) : i - m \in B}
<1>1. /\ A \in SUBSET (1..m) /\ IsFiniteSet(A) /\ Cardinality(A) \in Nat /\ m \in Nat
      /\ B \in SUBSET (1..l) /\ IsFiniteSet(B) /\ Cardinality(B) \in Nat /\ l \in Nat
  BY BroadCount
<1>2. j \in Seq(C) /\ Len(j) = m + l /\ \A i \in 1..(m + l) : j[i] = IF i <= m THEN s[i] ELSE t[i - m]
  BY ConcatProperties
<1>3. DOMAIN s = 1..m /\ DOMAIN t = 1..l
  BY LenProperties
<1>8. DOMAIN j = 1..(m + l)
  BY <1>2, LenProperties
<1> HIDE DEF j
<1>4. BroadOnes(j) = A \union D
  BY <1>1, <1>3, <1>2, <1>8 DEF BroadOnes
<1>5. IsFiniteSet(D) /\ Cardinality(D) = Cardinality(B)
  <2> DEFINE f == [i \in B |-> m + i]
  <2>1. \A i \in B : i \in 1..l
    BY <1>1
  <2> HIDE DEF B
  <2>2. \A i \in B : m + i \in D
    BY <1>1, <2>1
  <2>3. \A i \in D : i - m \in B /\ m + (i - m) = i
    BY <1>1
  <2>4. \A x, y \in B : m + x = m + y => x = y
    BY <1>1, <2>1
  <2> HIDE DEF D
  <2>5. f \in [B -> D] /\ (\A x, y \in B : f[x] = f[y] => x = y) /\ \A d \in D : \E x \in B : f[x] = d
    BY <2>2, <2>3, <2>4
  <2>6. f \in Bijection(B, D)
    BY <2>5 DEF Bijection, Injection, Surjection, IsInjective
  <2>7. ExistsBijection(B, D)
    BY <2>6 DEF ExistsBijection
  <2> QED BY <1>1, <2>7, FS_Bijection
<1>6. A \intersect D = {}
  BY <1>1
<1> HIDE DEF A, B, D, m, l
<1>7. Cardinality(A \union D) = Cardinality(A) + Cardinality(B) - 0
  BY <1>1, <1>5, <1>6, FS_Union, FS_EmptySet
<1>9. OnScreen(j) = m + l + Cardinality(A \union D)
  BY <1>2, <1>4, OnScreenIs
<1>10. OnScreen(s) = m + Cardinality(A) /\ OnScreen(t) = l + Cardinality(B)
  BY OnScreenIs DEF m, l, A, B
<1>11. OnScreen(j) = OnScreen(s) + OnScreen(t)
  BY <1>1, <1>7, <1>9, <1>10
<1> QED BY <1>11 DEF j

\* A text of which no character is two columns wide.
LEMMA NarrowOnScreen ==
  ASSUME NEW C, NEW s \in Seq(C), \A i \in 1..Len(s) : s[i] # Broad
  PROVE  OnScreen(s) = Len(s)
<1>1. Len(s) \in Nat /\ BroadOnes(s) = {}
  BY LenProperties DEF BroadOnes
<1>2. OnScreen(s) = Len(s) + 0
  BY <1>1, OnScreenIs, FS_EmptySet
<1> QED BY <1>1, <1>2

\* A cell takes three columns more than its text.
LEMMA BoxedOnScreen ==
  ASSUME NEW C, Gap \in C, Pipe \in C, NEW s \in Seq(C), NEW c \in Seq(C)
  PROVE  OnScreen(Boxed(s, c)) = OnScreen(s) + OnScreen(c) + 3
<1> DEFINE g == << Gap >>
           h == << Pipe >>
           f == g \o c
           t == Inside(c)
           u == s \o t
<1>1. g \in Seq(C) /\ h \in Seq(C) /\ OnScreen(g) = 1 /\ OnScreen(h) = 1
  <2>1. g \in Seq(C) /\ Len(g) = 1 /\ \A i \in 1..1 : g[i] = Gap
    OBVIOUS
  <2>2. h \in Seq(C) /\ Len(h) = 1 /\ \A i \in 1..1 : h[i] = Pipe
    OBVIOUS
  <2> HIDE DEF g, h
  <2> QED BY <2>1, <2>2, OnScreenIs, NarrowOnScreen
<1>2. t = f \o g
  BY DEF Inside
<1> HIDE DEF g, h, t
<1>3. f \in Seq(C) /\ OnScreen(f) = 1 + OnScreen(c)
  BY <1>1, ConcatProperties, OnScreenJoins
<1> HIDE DEF f
<1>4. t \in Seq(C) /\ OnScreen(t) = 1 + OnScreen(c) + 1
  BY <1>1, <1>2, <1>3, ConcatProperties, OnScreenJoins
<1>5. u \in Seq(C) /\ OnScreen(u) = OnScreen(s) + (1 + OnScreen(c) + 1)
  BY <1>4, ConcatProperties, OnScreenJoins
<1>6. Boxed(s, c) = Append(u, Pipe)
  BY DEF Boxed, t
<1> HIDE DEF u
<1>7. Append(u, Pipe) = u \o h
  BY <1>5, AppendIsConcat DEF h
<1>8. OnScreen(u \o h) = OnScreen(u) + 1
  BY <1>1, <1>5, OnScreenJoins
<1>9. OnScreen(s) \in Nat /\ OnScreen(c) \in Nat
  BY BroadCount
<1> QED BY <1>5, <1>6, <1>7, <1>8, <1>9

-----------------------------------------------------------------------------
(* What a cell is padded to.                                               *)

\* A character so many times.
LEMMA RepeatIs ==
  ASSUME NEW C, NEW ch \in C, NEW n \in Nat
  PROVE  /\ Repeat(ch, n) \in Seq(C) /\ Len(Repeat(ch, n)) = n
         /\ \A i \in 1..n : Repeat(ch, n)[i] = ch
         /\ ch # Broad => OnScreen(Repeat(ch, n)) = n
<1>1. Repeat(ch, n) \in Seq(C) /\ Len(Repeat(ch, n)) = n /\ \A i \in 1..n : Repeat(ch, n)[i] = ch
  BY IsASeq, LenOfDomain DEF Repeat
<1> QED BY <1>1, NarrowOnScreen

\* How much of the slack goes before a cell.
SlackBefore(align, slack) ==
  CASE align = "right" -> slack [] align = "center" -> slack \div 2 [] OTHER -> 0

\* A cell with its slack around it.
LEMMA PadIs ==
  /\ \A x, a, w : LET slack == Max({0, w - OnScreen(x)})
                      left  == SlackBefore(a, slack)
                  IN  Pad(x, a, w) = Repeat(Gap, left) \o x \o Repeat(Gap, slack - left)
  /\ \A a, slack : SlackBefore(a, slack) \in {slack, slack \div 2, 0}
<1>1. \A x, a, w : LET slack == Max({0, w - OnScreen(x)})
                       left  == SlackBefore(a, slack)
                   IN  Pad(x, a, w) = Repeat(Gap, left) \o x \o Repeat(Gap, slack - left)
  BY Zenon DEF Pad, SlackBefore, Gap
<1>2. \A a, slack : SlackBefore(a, slack) = slack \/ SlackBefore(a, slack) = slack \div 2 \/ SlackBefore(a, slack) = 0
  BY Zenon DEF SlackBefore
<1> QED BY <1>1, <1>2

\* The cell is in it, with spaces around it, and it is as wide as asked.
LEMMA PadsTo ==
  ASSUME NEW C, Gap \in C, NEW x \in Seq(C), NEW a, NEW w \in Nat, OnScreen(x) <= w
  PROVE  /\ Pad(x, a, w) \in Seq(C) /\ OnScreen(Pad(x, a, w)) = w
         /\ \E b : Padded(Pad(x, a, w), x, b)
<1> DEFINE slack == w - OnScreen(x)
           left  == SlackBefore(a, slack)
           right == slack - left
           f == Repeat(Gap, left)
           g == Repeat(Gap, right)
           fx == f \o x
           c == Pad(x, a, w)
           m == Len(x)
<1>1. OnScreen(x) \in Nat /\ m \in Nat
  BY BroadCount
<1>2. slack \in Nat
  BY <1>1
<1>3. Max({0, slack}) = slack
  <2>1. {0, slack} \subseteq Nat /\ slack \in {0, slack} /\ \A y \in {0, slack} : y <= slack
    BY <1>2
  <2> HIDE DEF slack
  <2> QED BY <2>1, MostIs
<1>4. left \in 0..slack /\ left \in Nat
  BY PadIs, <1>2
<1>5. c = f \o x \o g
  BY <1>3, PadIs
<1> HIDE DEF c, left, slack
<1>6. right \in Nat /\ left + right = slack
  BY <1>2, <1>4
<1>7. /\ f \in Seq(C) /\ Len(f) = left /\ (\A i \in 1..left : f[i] = Gap) /\ OnScreen(f) = left
      /\ g \in Seq(C) /\ Len(g) = right /\ (\A i \in 1..right : g[i] = Gap) /\ OnScreen(g) = right
  BY <1>4, <1>6, RepeatIs, OnScreenIs
<1> HIDE DEF f, g, right
<1>8. /\ fx \in Seq(C) /\ Len(fx) = left + m /\ OnScreen(fx) = left + OnScreen(x)
      /\ \A i \in 1..(left + m) : fx[i] = IF i <= left THEN f[i] ELSE x[i - left]
  <2>1. /\ fx \in Seq(C) /\ Len(fx) = Len(f) + Len(x) /\ OnScreen(fx) = OnScreen(f) + OnScreen(x)
        /\ \A i \in 1..(Len(f) + Len(x)) : fx[i] = IF i <= Len(f) THEN f[i] ELSE x[i - Len(f)]
    BY <1>7, ConcatProperties, OnScreenJoins
  <2> QED BY <1>7, <2>1
<1>9. c = fx \o g
  BY <1>5
<1> HIDE DEF fx
<1>10. /\ c \in Seq(C) /\ Len(c) = left + m + right /\ OnScreen(c) = left + OnScreen(x) + right
       /\ \A i \in 1..(left + m + right) : c[i] = IF i <= left + m THEN fx[i] ELSE g[i - (left + m)]
  <2>1. /\ c \in Seq(C) /\ Len(c) = Len(fx) + Len(g) /\ OnScreen(c) = OnScreen(fx) + OnScreen(g)
        /\ \A i \in 1..(Len(fx) + Len(g)) : c[i] = IF i <= Len(fx) THEN fx[i] ELSE g[i - Len(fx)]
    BY <1>7, <1>8, <1>9, ConcatProperties, OnScreenJoins
  <2> QED BY <1>7, <1>8, <2>1
<1>11. OnScreen(c) = w
  <2>1. slack = w - OnScreen(x)
    BY DEF slack
  <2>2. OnScreen(c) = left + OnScreen(x) + right
    BY <1>10
  <2>3. left \in Nat /\ right \in Nat /\ left + right = slack /\ OnScreen(x) \in Nat /\ w \in Nat
    BY <1>1, <1>4, <1>6
  <2> QED BY ONLY <2>1, <2>2, <2>3
<1>12. Padded(c, x, left)
  <2>1. ASSUME NEW i \in 1..left PROVE c[i] = Gap
    BY <1>1, <1>4, <1>6, <1>7, <1>8, <1>10
  <2>2. ASSUME NEW i \in 1..m PROVE c[left + i] = x[i]
    <3>1. /\ left + i \in 1..(left + m + right) /\ left + i <= left + m /\ left + i \in 1..(left + m)
          /\ ~ (left + i <= left) /\ left + i - left = i
      BY <1>1, <1>4, <1>6
    <3> DEFINE j == left + i
    <3>2. j \in 1..(left + m + right) /\ j <= left + m /\ j \in 1..(left + m) /\ ~ (j <= left) /\ j - left = i
      BY <1>1, <1>4, <1>6, <3>1
    <3> HIDE DEF j
    <3>3. fx[j] = x[j - left] /\ c[j] = fx[j]
      BY <1>8, <1>10, <3>2
    <3>4. c[j] = x[i]
      BY <3>2, <3>3
    <3> QED BY <3>4 DEF j
  <2>3. ASSUME NEW i \in (left + m + 1)..(left + m + right) PROVE c[i] = Gap
    BY <1>1, <1>4, <1>6, <1>7, <1>10
  <2>4. left + m <= left + m + right
    BY <1>1, <1>4, <1>6
  <2> QED BY <1>4, <1>10, <2>1, <2>2, <2>3, <2>4 DEF Padded
<1> QED BY <1>10, <1>11, <1>12 DEF c

-----------------------------------------------------------------------------
(* The delimiter row.                                                      *)

Dash == "-"
Colon == ":"
AtLeft == "left"
AtRight == "right"
AtCenter == "center"
AtNone == "none"
Alignments == {AtLeft, AtRight, AtCenter, AtNone}

\* They are different characters, and different alignments.
LEMMA NamesDiffer ==
  /\ Dash # Colon /\ Dash # Gap /\ Colon # Gap /\ Dash # Pipe /\ Colon # Pipe
  /\ Dash # Escape /\ Colon # Escape /\ Dash # Broad /\ Colon # Broad
  /\ AtLeft # AtRight /\ AtLeft # AtCenter /\ AtLeft # AtNone /\ AtRight # AtCenter
  /\ AtRight # AtNone /\ AtCenter # AtNone
BY Zenon DEF Dash, Colon, Gap, Pipe, Escape, Broad, AtLeft, AtRight, AtCenter, AtNone

\* The cell of a delimiter row, by those names.
LEMMA DashesAre ==
  ASSUME NEW w
  PROVE  /\ Dashes(AtLeft, w) = << Colon >> \o Repeat(Dash, w - 1)
         /\ Dashes(AtRight, w) = Repeat(Dash, w - 1) \o << Colon >>
         /\ Dashes(AtCenter, w) = << Colon >> \o Repeat(Dash, w - 2) \o << Colon >>
         /\ Dashes(AtNone, w) = Repeat(Dash, w)
BY Zenon DEF Dashes, Dash, Colon, AtLeft, AtRight, AtCenter, AtNone

\* One cell of a delimiter row, by its ends.
Ruled(c, w, first, last) ==
  /\ Len(c) = w /\ c[1] = first /\ c[w] = last
  /\ \A i \in 1..w : c[i] \in {Dash, Colon}
  /\ \E i \in 1..w : c[i] = Dash

Starts(a) == IF a \in {AtLeft, AtCenter} THEN Colon ELSE Dash
Ends(a) == IF a \in {AtRight, AtCenter} THEN Colon ELSE Dash

\* It is dashes, with colons at the ends where its alignment says so.
LEMMA DashesRule ==
  ASSUME NEW C, Dash \in C, Colon \in C, NEW a \in Alignments, NEW w \in Nat, w >= 3
  PROVE  Dashes(a, w) \in Seq(C) /\ Ruled(Dashes(a, w), w, Starts(a), Ends(a))
<1> DEFINE k == << Colon >>
           r1 == Repeat(Dash, w - 1)
           r2 == Repeat(Dash, w - 2)
           r0 == Repeat(Dash, w)
           kr == k \o r2
<1>1. k \in Seq(C) /\ Len(k) = 1 /\ k[1] = Colon
  OBVIOUS
<1>2. w - 1 \in Nat /\ w - 2 \in Nat /\ w \in Nat /\ 1 \in 1..w /\ 2 \in 1..w /\ w \in 1..w
      /\ 1 \in 1..(w - 1) /\ 1 \in 1..(w - 2)
  OBVIOUS
<1>3. /\ r1 \in Seq(C) /\ Len(r1) = w - 1 /\ \A i \in 1..(w - 1) : r1[i] = Dash
      /\ r2 \in Seq(C) /\ Len(r2) = w - 2 /\ \A i \in 1..(w - 2) : r2[i] = Dash
      /\ r0 \in Seq(C) /\ Len(r0) = w /\ \A i \in 1..w : r0[i] = Dash
  BY <1>2, RepeatIs
<1> HIDE DEF k, r1, r2, r0
<1>4. CASE a = AtLeft
  <2> DEFINE c == k \o r1
  <2>1. c \in Seq(C) /\ Len(c) = Len(k) + Len(r1)
        /\ \A i \in 1..(Len(k) + Len(r1)) : c[i] = IF i <= Len(k) THEN k[i] ELSE r1[i - Len(k)]
    BY <1>1, <1>3, ConcatProperties
  <2> HIDE DEF c
  <2>2. Len(c) = w /\ c[1] = Colon
    BY <1>1, <1>2, <1>3, <2>1
  <2>3. ASSUME NEW i \in 2..w PROVE c[i] = Dash
    <3>1. i \in 1..w /\ ~ (i <= 1) /\ i - 1 \in 1..(w - 1) /\ 1 + (w - 1) = w
      OBVIOUS
    <3> QED BY <1>1, <1>3, <2>1, <3>1
  <2>4. Ruled(c, w, Colon, Dash)
    BY <1>2, <2>2, <2>3 DEF Ruled
  <2>5. Starts(a) = Colon /\ Ends(a) = Dash
    BY <1>4, NamesDiffer DEF Starts, Ends
  <2>6. Dashes(a, w) = c
    BY <1>4, DashesAre DEF c, k, r1
  <2> QED BY <2>1, <2>4, <2>5, <2>6
<1>5. CASE a = AtRight
  <2> DEFINE c == r1 \o k
  <2>1. c \in Seq(C) /\ Len(c) = Len(r1) + Len(k)
        /\ \A i \in 1..(Len(r1) + Len(k)) : c[i] = IF i <= Len(r1) THEN r1[i] ELSE k[i - Len(r1)]
    BY <1>1, <1>3, ConcatProperties
  <2> HIDE DEF c
  <2>2. Len(c) = w /\ c[w] = Colon
    BY <1>1, <1>3, <2>1
  <2>3. ASSUME NEW i \in 1..(w - 1) PROVE c[i] = Dash
    <3>1. i \in 1..w /\ i <= w - 1 /\ w - 1 + 1 = w
      OBVIOUS
    <3> QED BY <1>1, <1>3, <2>1, <3>1
  <2>4. Ruled(c, w, Dash, Colon)
    BY <1>2, <2>2, <2>3 DEF Ruled
  <2>5. Starts(a) = Dash /\ Ends(a) = Colon
    BY <1>5, NamesDiffer DEF Starts, Ends
  <2>6. Dashes(a, w) = c
    BY <1>5, DashesAre DEF c, k, r1
  <2> QED BY <2>1, <2>4, <2>5, <2>6
<1>6. CASE a = AtCenter
  <2> DEFINE c == kr \o k
  <2>1. /\ kr \in Seq(C) /\ Len(kr) = Len(k) + Len(r2)
        /\ \A i \in 1..(Len(k) + Len(r2)) : kr[i] = IF i <= Len(k) THEN k[i] ELSE r2[i - Len(k)]
    BY <1>1, <1>3, ConcatProperties
  <2>2. Len(kr) = w - 1
    BY <1>1, <1>2, <1>3, <2>1
  <2> HIDE DEF kr
  <2>3. c \in Seq(C) /\ Len(c) = Len(kr) + Len(k)
        /\ \A i \in 1..(Len(kr) + Len(k)) : c[i] = IF i <= Len(kr) THEN kr[i] ELSE k[i - Len(kr)]
    <3>1. kr \in Seq(C) /\ k \in Seq(C)
      BY <1>1, <2>1
    <3> QED BY ONLY <3>1, ConcatProperties
  <2> HIDE DEF c
  <2>4. Len(c) = w /\ c[w] = Colon
    BY <1>1, <2>2, <2>3
  <2>5. \A i \in 1..(w - 1) : c[i] = kr[i]
    BY <1>1, <2>2, <2>3
  <2>6. c[1] = Colon
    <3>1. 1 \in 1..(Len(k) + Len(r2)) /\ 1 <= Len(k)
      BY <1>1, <1>2, <1>3
    <3> QED BY <1>1, <1>2, <2>1, <2>5, <3>1
  <2>7. ASSUME NEW i \in 2..(w - 1) PROVE c[i] = Dash
    <3>1. i \in 1..(w - 1) /\ ~ (i <= 1) /\ i - 1 \in 1..(w - 2) /\ 1 + (w - 2) = w - 1
      OBVIOUS
    <3>2. kr[i] = r2[i - 1]
      BY <1>1, <1>3, <2>1, <3>1
    <3> QED BY <1>3, <2>5, <3>1, <3>2
  <2>8. Ruled(c, w, Colon, Colon)
    BY <1>2, <2>4, <2>6, <2>7 DEF Ruled
  <2>9. Starts(a) = Colon /\ Ends(a) = Colon
    BY <1>6, NamesDiffer DEF Starts, Ends
  <2>10. Dashes(a, w) = c
    BY <1>6, DashesAre DEF c, kr, k, r2
  <2> QED BY <2>3, <2>8, <2>9, <2>10
<1>7. CASE a = AtNone
  BY <1>2, <1>3, <1>7, NamesDiffer, DashesAre DEF Ruled, Starts, Ends, r0
<1> QED BY <1>4, <1>5, <1>6, <1>7 DEF Alignments

\* A text is padded by nothing.
LEMMA PaddedAlone ==
  ASSUME NEW C, NEW c \in Seq(C)
  PROVE  Padded(c, c, 0)
<1>1. Len(c) \in Nat
  BY LenProperties
<1> QED BY <1>1 DEF Padded

\* It takes the columns it was given, and is read back whole.
LEMMA RuledIs ==
  ASSUME NEW C, NEW c \in Seq(C), NEW w \in Nat, w >= 3, NEW first, NEW last,
         Ruled(c, w, first, last)
  PROVE  OnScreen(c) = w /\ Tidy(c) /\ Padded(c, c, 0)
<1>1. \A i \in 1..Len(c) : c[i] # Broad /\ c[i] # Gap /\ c[i] # Pipe /\ c[i] # Escape
  BY NamesDiffer DEF Ruled
<1>2. OnScreen(c) = w
  BY <1>1, NarrowOnScreen DEF Ruled
<1>3. Quiet(c, {})
  BY <1>1 DEF Quiet
<1>4. Trimmed(c)
  BY <1>1 DEF Ruled, Trimmed
<1> QED BY <1>2, <1>3, <1>4, PaddedAlone DEF Tidy

\* What AlignsOf() says of one cell.
AlignOf(c) == CASE Head(c) = ":" /\ Last(c) = ":" -> "center"
                [] Head(c) = ":" /\ Last(c) # ":" -> "left"
                [] Head(c) # ":" /\ Last(c) = ":" -> "right"
                [] OTHER -> "none"

\* The alignments a delimiter row declares, cell by cell.
LEMMA AlignsAre ==
  /\ \A cells : AlignsOf(cells) = [k \in DOMAIN cells |-> AlignOf(cells[k])]
  /\ \A c : AlignOf(c) \in Alignments
  /\ \A c : /\ Head(c) = Colon /\ Last(c) = Colon => AlignOf(c) = AtCenter
            /\ Head(c) = Colon /\ Last(c) # Colon => AlignOf(c) = AtLeft
            /\ Head(c) # Colon /\ Last(c) = Colon => AlignOf(c) = AtRight
            /\ Head(c) # Colon /\ Last(c) # Colon => AlignOf(c) = AtNone
<1>1. \A cells : AlignsOf(cells) = [k \in DOMAIN cells |-> AlignOf(cells[k])]
  BY Zenon DEF AlignsOf, AlignOf
<1>2. ASSUME NEW c
      PROVE  /\ Head(c) = Colon /\ Last(c) = Colon => AlignOf(c) = AtCenter
             /\ Head(c) = Colon /\ Last(c) # Colon => AlignOf(c) = AtLeft
             /\ Head(c) # Colon /\ Last(c) = Colon => AlignOf(c) = AtRight
             /\ Head(c) # Colon /\ Last(c) # Colon => AlignOf(c) = AtNone
  BY Zenon DEF AlignOf, Colon, AtCenter, AtLeft, AtRight, AtNone
<1>3. \A c : AlignOf(c) \in Alignments
  BY Zenon, <1>2 DEF Alignments
<1> QED BY <1>1, <1>2, <1>3

\* A cell declares the alignment it was drawn with.
LEMMA RuledAligns ==
  ASSUME NEW C, NEW c \in Seq(C), NEW a \in Alignments, NEW w \in Nat, w >= 3,
         Ruled(c, w, Starts(a), Ends(a))
  PROVE  AlignOf(c) = a
<1>1. Len(c) = w /\ c[1] = Starts(a) /\ c[w] = Ends(a)
  BY DEF Ruled
<1>2. Head(c) = Starts(a) /\ Last(c) = Ends(a)
  BY <1>1 DEF Last
<1>3. /\ Starts(a) = Colon <=> a \in {AtLeft, AtCenter}
      /\ Ends(a) = Colon <=> a \in {AtRight, AtCenter}
  BY NamesDiffer DEF Starts, Ends
<1> QED BY <1>2, <1>3, AlignsAre, NamesDiffer DEF Alignments

\* The delimiter of a column says how it is aligned, and is a delimiter.
LEMMA DashesSay ==
  ASSUME NEW C, Dash \in C, Colon \in C, NEW a \in Alignments, NEW w \in Nat, w >= 3
  PROVE  LET c == Dashes(a, w)
         IN  /\ c \in Seq(C) /\ OnScreen(c) = w /\ Tidy(c) /\ Padded(c, c, 0)
             /\ AlignOf(c) = a /\ Range(c) \subseteq {"-", ":"} /\ "-" \in Range(c)
<1> DEFINE c == Dashes(a, w)
<1>1. c \in Seq(C) /\ Ruled(c, w, Starts(a), Ends(a))
  BY DashesRule
<1> HIDE DEF c
<1>2. OnScreen(c) = w /\ Tidy(c) /\ Padded(c, c, 0) /\ AlignOf(c) = a
  BY <1>1, RuledIs, RuledAligns
<1>3. Range(c) \subseteq {Dash, Colon} /\ Dash \in Range(c)
  BY <1>1, LenProperties DEF Range, Ruled
<1>4. Range(c) \subseteq {"-", ":"} /\ "-" \in Range(c)
  BY Zenon, <1>3 DEF Dash, Colon
<1> QED BY Zenon, <1>1, <1>2, <1>4 DEF c

-----------------------------------------------------------------------------
(* A table that is formatted.                                              *)

\* What there is of a table.
IsTable(t, C) ==
  /\ t.cells \in Seq(Seq(Seq(C))) /\ Len(t.cells) >= 2 /\ Len(t.cells) \in Nat
  /\ \A i \in 1..Len(t.cells) : AreCells(t.cells[i], C)
  /\ t.aligns \in Seq(Alignments)
  /\ Len(t.aligns) \in Nat \ {0} /\ DOMAIN t.aligns = 1..Len(t.aligns)
  /\ \A k \in 1..Len(t.aligns) : t.aligns[k] \in Alignments
  /\ Len(t.cells[1]) = Len(t.aligns)
  /\ IsContainer(t.prefix, C)

Written(C) == {Gap, Pipe, Dash, Colon} \subseteq C

\* The parts of format().
TextCell(t, i, k) == IF k \in DOMAIN t.cells[i] THEN t.cells[i][k] ELSE << >>
TextAlign(t, k) == IF k \in DOMAIN t.aligns THEN t.aligns[k] ELSE "none"
TextWidths(t, k) == {OnScreen(TextCell(t, i, k)) : i \in DOMAIN t.cells \ {2}}
TextWidth(t, k) == Max({MinColumn} \union TextWidths(t, k))
TextDeclared(t, i, k) == IF i = 2 THEN Dashes(TextAlign(t, k), TextWidth(t, k))
                         ELSE Pad(TextCell(t, i, k), TextAlign(t, k), TextWidth(t, k))
TextSurplus(t, i) ==
  IF i = 2 THEN << >> ELSE SubSeq(t.cells[i], Columns(t) + 1, Len(t.cells[i]))
TextRow(t, i) == [k \in 1..Columns(t) |-> TextDeclared(t, i, k)] \o TextSurplus(t, i)

\* format(), by its parts.
LEMMA FormattedIs ==
  \A t : Formatted(t) = [i \in DOMAIN t.cells |-> Joined(t.prefix, TextRow(t, i))]
BY Zenon DEF Formatted, Joined, TextRow, TextSurplus, TextDeclared, TextWidth, TextWidths,
             TextAlign, TextCell

\* A cell is a tidy text, empty where the row has none.
LEMMA CellIs ==
  ASSUME NEW C, NEW t, IsTable(t, C), NEW i \in 1..Len(t.cells), NEW k \in Nat \ {0}
  PROVE  /\ TextCell(t, i, k) \in Seq(C) /\ Tidy(TextCell(t, i, k))
         /\ OnScreen(TextCell(t, i, k)) \in Nat
         /\ k \in 1..Len(t.cells[i]) => TextCell(t, i, k) = t.cells[i][k]
         /\ k \notin 1..Len(t.cells[i]) => TextCell(t, i, k) = << >>
<1>1. t.cells[i] \in Seq(Seq(C)) /\ \A m \in 1..Len(t.cells[i]) : Tidy(t.cells[i][m])
  BY DEF IsTable, AreCells
<1>2. /\ DOMAIN t.cells[i] = 1..Len(t.cells[i])
      /\ \A m \in 1..Len(t.cells[i]) : t.cells[i][m] \in Seq(C)
  BY <1>1, LenProperties, ElementOfSeq
<1>3. TextCell(t, i, k) \in Seq(C) /\ Tidy(TextCell(t, i, k))
  BY <1>1, <1>2, EmptySeq, EmptyIsTidy DEF TextCell
<1> QED BY <1>2, <1>3, BroadCount DEF TextCell

\* A column is as wide as its widest cell, and three at least.
LEMMA WidthIs ==
  ASSUME NEW C, NEW t, IsTable(t, C), NEW k \in Nat \ {0}
  PROVE  /\ TextWidth(t, k) \in Nat /\ TextWidth(t, k) >= 3
         /\ \A i \in 1..Len(t.cells) : i # 2 => OnScreen(TextCell(t, i, k)) <= TextWidth(t, k)
<1> DEFINE n == Len(t.cells)
           f == [i \in 1..n |-> OnScreen(TextCell(t, i, k))]
           T == {MinColumn} \union TextWidths(t, k)
<1>1. n \in Nat /\ DOMAIN t.cells = 1..n
  BY LenProperties DEF IsTable
<1>2. \A i \in 1..n : f[i] \in Nat /\ f[i] = OnScreen(TextCell(t, i, k))
  BY CellIs
<1> HIDE DEF f, n
<1>3. PICK b \in Nat : \A i \in 1..n : f[i] <= b
  BY <1>1, <1>2, ManyAreBounded
<1>4. \A x \in T : x \in Nat /\ x <= b + 3
  BY <1>1, <1>2, <1>3 DEF TextWidths, MinColumn
<1>9. 3 \in T
  BY DEF MinColumn
<1> HIDE DEF T
<1>5. T # {} /\ T \subseteq Nat /\ b + 3 \in Nat
  BY <1>4, <1>9
<1>6. Max(T) \in Nat /\ \A x \in T : x <= Max(T)
  BY <1>4, <1>5, GreatestOfMany
<1>7. \A i \in 1..n : i # 2 => OnScreen(TextCell(t, i, k)) \in T
  BY <1>1 DEF T, TextWidths
<1>8. TextWidth(t, k) = Max(T)
  BY DEF TextWidth, T
<1> QED BY <1>5, <1>6, <1>7, <1>8, <1>9 DEF n

\* A column has one of the alignments.
LEMMA AlignIs ==
  ASSUME NEW C, NEW t, IsTable(t, C), NEW k \in Nat
  PROVE  /\ TextAlign(t, k) \in Alignments
         /\ k \in 1..Len(t.aligns) => TextAlign(t, k) = t.aligns[k]
<1>1. "none" \in Alignments
  BY Zenon DEF Alignments, AtNone
<1> QED BY <1>1 DEF IsTable, TextAlign

\* What is said by the cells of a row that is formatted.
TextSaid(t, i, k) == IF i = 2 THEN TextDeclared(t, i, k) ELSE TextCell(t, i, k)

\* What is drawn of a cell takes the columns of its column, and is read back as the cell.
LEMMA DeclaredIs ==
  ASSUME NEW C, Written(C), NEW t, IsTable(t, C), NEW i \in 1..Len(t.cells), NEW k \in Nat \ {0}
  PROVE  /\ TextDeclared(t, i, k) \in Seq(C) /\ OnScreen(TextDeclared(t, i, k)) = TextWidth(t, k)
         /\ TextSaid(t, i, k) \in Seq(C) /\ Tidy(TextSaid(t, i, k))
         /\ \E a : Padded(TextDeclared(t, i, k), TextSaid(t, i, k), a)
<1> DEFINE w == TextWidth(t, k)
           a == TextAlign(t, k)
           x == TextCell(t, i, k)
<1>1. /\ w \in Nat /\ w >= 3 /\ a \in Alignments /\ x \in Seq(C) /\ Tidy(x)
      /\ i # 2 => OnScreen(x) <= w
  BY WidthIs, AlignIs, CellIs
<1>2. Gap \in C /\ Dash \in C /\ Colon \in C
  BY DEF Written
<1>3. CASE i = 2
  BY <1>3, <1>1, <1>2, DashesSay DEF TextDeclared, TextSaid, w
<1>4. CASE i # 2
  BY <1>4, <1>1, <1>2, PadsTo DEF TextDeclared, TextSaid, w
<1> QED BY <1>3, <1>4

\* How many cells a row has after that.
CellCount(t, i) ==
  IF i = 2 \/ Len(t.cells[i]) <= Len(t.aligns) THEN Len(t.aligns) ELSE Len(t.cells[i])
TextSays(t, i) == [k \in 1..CellCount(t, i) |-> TextSaid(t, i, k)]

\* A function of the first n numbers is a sequence.
LEMMA FunctionIsSeq ==
  ASSUME NEW X, NEW n \in Nat, NEW f, f \in [1..n -> X]
  PROVE  f \in Seq(X) /\ Len(f) = n
<1>1. f \in Seq(X)
  BY IsASeq
<1> QED BY <1>1, LenOfDomain

\* What is joined into a row, and what it is read back as.
LEMMA RowFits ==
  ASSUME NEW C, Written(C), NEW t, IsTable(t, C), NEW i \in 1..Len(t.cells)
  PROVE  /\ Fits(TextRow(t, i), TextSays(t, i), C)
         /\ Len(TextRow(t, i)) = CellCount(t, i) /\ CellCount(t, i) \in Nat
         /\ CellCount(t, i) >= Len(t.aligns)
         /\ \A k \in 1..Len(t.aligns) : TextRow(t, i)[k] = TextDeclared(t, i, k)
<1> DEFINE m == Len(t.aligns)
           l == Len(t.cells[i])
           n == CellCount(t, i)
           d == [k \in 1..m |-> TextDeclared(t, i, k)]
           s == TextSurplus(t, i)
           r == TextRow(t, i)
           x == TextSays(t, i)
<1>1. t.cells[i] \in Seq(Seq(C)) /\ AreCells(t.cells[i], C) /\ m \in Nat \ {0}
  BY DEF IsTable, AreCells
<1>2. l \in Nat
  BY <1>1, LenProperties
<1>3. n \in Nat /\ n >= m
  BY <1>1, <1>2 DEF CellCount
<1>4. d \in Seq(Seq(C)) /\ Len(d) = m /\ \A k \in 1..m : d[k] = TextDeclared(t, i, k)
  BY <1>1, DeclaredIs, FunctionIsSeq
<1> HIDE DEF d
<1>5. /\ s \in Seq(Seq(C)) /\ Len(s) = n - m
      /\ \A k \in 1..(n - m) : s[k] = t.cells[i][m + k] /\ i # 2 /\ m + k \in 1..l
  <2>1. CASE i = 2 \/ l <= m
    <3>1. n = m /\ n - m = 0
      BY <1>1, <2>1 DEF CellCount
    <3>2. s = << >>
      <4>1. CASE i = 2
        BY <4>1 DEF TextSurplus
      <4>2. CASE i # 2
        <5>1. s = SubSeq(t.cells[i], m + 1, l)
          BY <4>2 DEF TextSurplus, Columns
        <5>2. m + 1 \in Int /\ l \in Int /\ l < m + 1
          BY <1>1, <1>2, <2>1, <4>2
        <5> QED BY <5>1, <5>2, SubSeqEmpty
      <4> QED BY <4>1, <4>2
    <3>3. << >> \in Seq(Seq(C)) /\ Len(<< >>) = 0
      BY EmptySeq
    <3> HIDE DEF s, n, m
    <3> QED BY <3>1, <3>2, <3>3
  <2>2. CASE i # 2 /\ l > m
    <3>1. n = l
      BY <1>1, <1>2, <2>2 DEF CellCount
    <3>2. s = SubSeq(t.cells[i], m + 1, l)
      BY <2>2 DEF TextSurplus, Columns
    <3>3. /\ m + 1 \in Nat \ {0} /\ l \in Nat /\ l <= Len(t.cells[i]) /\ m + 1 <= l + 1
          /\ l - (m + 1) + 1 = l - m /\ \A k \in 1..(l - m) : m + 1 + k - 1 = m + k /\ m + k \in 1..l
      BY <1>1, <1>2, <2>2
    <3> DEFINE cs == t.cells[i]
    <3>4. cs \in Seq(Seq(C)) /\ l <= Len(cs)
      BY <1>1, <3>3
    <3> HIDE DEF cs, l, m, n, s
    <3> DEFINE q == m + 1
    <3>7. q \in Nat \ {0} /\ l \in Nat /\ l <= Len(cs) /\ q <= l + 1
      BY <3>3, <3>4
    <3> HIDE DEF q
    <3>8. /\ SubSeq(cs, q, l) \in Seq(Seq(C)) /\ Len(SubSeq(cs, q, l)) = l - q + 1
          /\ \A k \in 1..(l - q + 1) : SubSeq(cs, q, l)[k] = cs[q + k - 1]
      BY ONLY <3>4, <3>7, PartIs
    <3>5. /\ SubSeq(cs, m + 1, l) \in Seq(Seq(C)) /\ Len(SubSeq(cs, m + 1, l)) = l - (m + 1) + 1
          /\ \A k \in 1..(l - (m + 1) + 1) : SubSeq(cs, m + 1, l)[k] = cs[m + 1 + k - 1]
      BY <3>8 DEF q
    <3>6. \A k \in 1..(l - m) : SubSeq(cs, m + 1, l)[k] = cs[m + k]
      BY <3>3, <3>5
    <3> QED BY <2>2, <3>1, <3>2, <3>3, <3>5, <3>6 DEF cs
  <2> QED BY <1>1, <1>2, <2>1, <2>2
<1>6. r = d \o s
  BY DEF TextRow, Columns, d
<1> HIDE DEF r, s, n
<1>7. /\ r \in Seq(Seq(C)) /\ Len(r) = n
      /\ \A k \in 1..m : r[k] = d[k]
      /\ \A k \in (m + 1)..n : r[k] = s[k - m] /\ k - m \in 1..(n - m)
  <2>1. /\ d \o s \in Seq(Seq(C)) /\ Len(d \o s) = Len(d) + Len(s)
        /\ \A k \in 1..(Len(d) + Len(s)) : (d \o s)[k] = IF k <= Len(d) THEN d[k] ELSE s[k - Len(d)]
    <3>1. d \in Seq(Seq(C)) /\ s \in Seq(Seq(C))
      BY <1>4, <1>5
    <3> QED BY ONLY <3>1, ConcatProperties
  <2>2. Len(d) = m /\ Len(d) + Len(s) = n
    BY <1>1, <1>3, <1>4, <1>5
  <2>3. \A k \in 1..m : k \in 1..n /\ k <= m
    BY <1>1, <1>3
  <2>4. \A k \in (m + 1)..n : k \in 1..n /\ ~ (k <= m) /\ k - m \in 1..(n - m)
    BY <1>1, <1>3
  <2>5. r \in Seq(Seq(C)) /\ Len(r) = n
        /\ \A k \in 1..n : r[k] = IF k <= m THEN d[k] ELSE s[k - m]
    BY <1>6, <2>1, <2>2
  <2> QED BY <2>3, <2>4, <2>5
<1>8. ASSUME NEW k \in 1..n
      PROVE  /\ TextSaid(t, i, k) \in Seq(C) /\ Tidy(TextSaid(t, i, k))
             /\ \E a : Padded(r[k], TextSaid(t, i, k), a)
  <2>1. k \in Nat \ {0}
    BY <1>3
  <2>2. CASE k \in 1..m
    <3>1. r[k] = TextDeclared(t, i, k)
      BY <1>4, <1>7, <2>2
    <3> QED BY <2>1, <3>1, DeclaredIs
  <2>3. CASE k \in (m + 1)..n
    <3> DEFINE c == r[k]
    <3>1. k - m \in 1..(n - m) /\ c = s[k - m] /\ m + (k - m) = k
      BY <1>1, <1>3, <1>7, <2>3
    <3>2. c = t.cells[i][k] /\ i # 2 /\ k \in 1..l
      BY <1>5, <3>1
    <3> HIDE DEF c
    <3>3. TextSaid(t, i, k) = c
      BY <2>1, <3>2, CellIs DEF TextSaid
    <3>4. c \in Seq(C) /\ Tidy(c)
      BY <1>1, <3>2, ElementOfSeq DEF AreCells
    <3>5. Padded(c, c, 0)
      BY <3>4, PaddedAlone
    <3> QED BY <3>3, <3>4, <3>5 DEF c
  <2> QED BY <1>1, <1>3, <2>2, <2>3
<1>9. x \in Seq(Seq(C)) /\ Len(x) = n /\ \A k \in 1..n : x[k] = TextSaid(t, i, k)
  BY <1>8, <1>3, FunctionIsSeq DEF TextSays, n
<1> HIDE DEF x
<1>10. Fits(r, x, C)
  BY <1>7, <1>8, <1>9 DEF Fits, AreCells
<1> QED BY <1>3, <1>4, <1>7, <1>10 DEF r, x, n

-----------------------------------------------------------------------------
(* What a table is once it was formatted.                                  *)

\* The rows of a formatted table: what they are read as, and behind what.
LEMMA FormattedRows ==
  ASSUME NEW C, Written(C), NEW t, IsTable(t, C)
  PROVE  /\ Formatted(t) \in Seq(Seq(C)) /\ Len(Formatted(t)) = Len(t.cells)
         /\ \A i \in 1..Len(t.cells) :
              /\ Formatted(t)[i] = Joined(t.prefix, TextRow(t, i)) /\ Formatted(t)[i] \in Seq(C)
              /\ Cells(Formatted(t)[i]) = TextSays(t, i)
              /\ ContainerPrefix(Formatted(t)[i]) = t.prefix /\ ~IsBlank(Formatted(t)[i])
<1> DEFINE n == Len(t.cells)
           f == Formatted(t)
<1>1. n \in Nat /\ DOMAIN t.cells = 1..n /\ IsContainer(t.prefix, C)
  BY LenProperties DEF IsTable
<1>2. f = [i \in 1..n |-> Joined(t.prefix, TextRow(t, i))]
  BY <1>1, FormattedIs
<1>3. Gap \in C /\ Pipe \in C
  BY DEF Written
<1>4. ASSUME NEW i \in 1..n
      PROVE  LET r == Joined(t.prefix, TextRow(t, i))
             IN  /\ r \in Seq(C) /\ Cells(r) = TextSays(t, i) /\ ContainerPrefix(r) = t.prefix
                 /\ ~IsBlank(r)
  BY RowFits, <1>1, <1>3, RowSays
<1> HIDE DEF f, n
<1>5. f \in [1..n -> Seq(C)]
  BY <1>2, <1>4
<1>6. f \in Seq(Seq(C)) /\ Len(f) = n
  BY <1>1, <1>5, FunctionIsSeq
<1>7. \A i \in 1..n : f[i] = Joined(t.prefix, TextRow(t, i))
  BY <1>2
<1> QED BY <1>4, <1>6, <1>7 DEF f, n

\* How far on screen the k-th pipe of a row is.
PipeAt(row, k) == OnScreen(SubSeq(row, 1, Walked(row).at[k]))

\* The pipe after each cell of a joined row, on screen.
LEMMA RowPipes ==
  ASSUME NEW C, Gap \in C, Pipe \in C, NEW p, IsContainer(p, C), NEW cs, NEW xs, Fits(cs, xs, C)
  PROVE  \E v : /\ Chain(v, p, cs, C)
                /\ \A k \in 0..Len(cs) : PipeAt(Joined(p, cs), k + 1) = OnScreen(v[k])
<1> DEFINE n == Len(cs)
           r == Joined(p, cs)
<1>1. p \in Seq(C) /\ cs \in Seq(Seq(C)) /\ Quiet(p, {}) /\ n \in Nat /\ n \in 0..n
  BY PrefixIsQuiet, LenProperties DEF IsContainer, Fits
<1>2. PICK v : Chain(v, p, cs, C)
  BY <1>1, JoinedChain
<1>3. v[n] = r
  BY <1>2 DEF Chain
<1>4. Grown(v, n, C) /\ ReadAs(v, n, p, xs, C)
  BY <1>1, <1>2, ChainGrows, ChainReads
<1> HIDE DEF r, n
<1>5. r \in Seq(C) /\ Len(r) \in Nat \ {0} /\ r[Len(r)] = Pipe
  BY <1>3, <1>4 DEF Grown
<1>6. Walked(r) = WalkOver(r)
  BY <1>5, CellsAre, EndStays, TrimsAre
<1>7. ASSUME NEW k \in 0..n PROVE PipeAt(r, k + 1) = OnScreen(v[k])
  <2> DEFINE l == Len(v[k])
             q == SubSeq(r, 1, l)
             u == v[k]
  <2>1. Walked(r).at[k + 1] = l
    BY <1>3, <1>4, <1>6 DEF ReadAs
  <2>2. l \in 1..Len(r) /\ \A i \in 1..l : r[i] = u[i]
    BY <1>3, <1>4 DEF Grown
  <2>3. u \in Seq(C)
    BY <1>2 DEF Chain, n
  <2>4. q \in Seq(C) /\ Len(q) = l /\ \A i \in 1..l : q[i] = r[i]
    BY <1>5, <2>2, PartIs
  <2> HIDE DEF q
  <2>5. q = u
    BY <2>2, <2>3, <2>4, SeqEqual
  <2> QED BY <2>1, <2>5 DEF PipeAt, q
<1> QED BY <1>2, <1>7 DEF r, n

\* The pipes that close the columns of two rows are as far on screen as each other.
LEMMA PipesAgree ==
  ASSUME NEW C, Written(C), NEW t, IsTable(t, C), NEW i \in 1..Len(t.cells),
         NEW j \in 1..Len(t.cells), NEW k \in 1..(Len(t.aligns) + 1)
  PROVE  PipeAt(Formatted(t)[i], k) = PipeAt(Formatted(t)[j], k)
<1> DEFINE m == Len(t.aligns)
           p == t.prefix
           ci == TextRow(t, i)
           cj == TextRow(t, j)
<1>1. Gap \in C /\ Pipe \in C /\ IsContainer(p, C) /\ m \in Nat /\ k - 1 \in 0..m /\ k - 1 + 1 = k
  BY DEF Written, IsTable
<1>2. /\ Fits(ci, TextSays(t, i), C) /\ Len(ci) \in Nat /\ Len(ci) >= m
      /\ \A l \in 1..m : ci[l] = TextDeclared(t, i, l)
  BY RowFits
<1>3. /\ Fits(cj, TextSays(t, j), C) /\ Len(cj) \in Nat /\ Len(cj) >= m
      /\ \A l \in 1..m : cj[l] = TextDeclared(t, j, l)
  BY RowFits
<1> HIDE DEF ci, cj, p, m
<1>4. PICK v : /\ Chain(v, p, ci, C)
               /\ \A l \in 0..Len(ci) : PipeAt(Joined(p, ci), l + 1) = OnScreen(v[l])
  BY <1>1, <1>2, RowPipes
<1>5. PICK w : /\ Chain(w, p, cj, C)
               /\ \A l \in 0..Len(cj) : PipeAt(Joined(p, cj), l + 1) = OnScreen(w[l])
  BY <1>1, <1>3, RowPipes
<1>6. ci \in Seq(Seq(C)) /\ cj \in Seq(Seq(C)) /\ p \in Seq(C)
  BY <1>1, <1>2, <1>3 DEF Fits, IsContainer
<1> DEFINE S == {l \in 0..m : OnScreen(v[l]) = OnScreen(w[l])}
<1>7. 0 \in S
  <2>1. v[0] = Append(p, Pipe) /\ w[0] = Append(p, Pipe)
    BY <1>4, <1>5 DEF Chain
  <2> QED BY <1>1, <2>1, SMTT(30)
<1>8. ASSUME NEW l \in 1..m, l - 1 \in S PROVE l \in S
  <2>1. l \in 1..Len(ci) /\ l \in 1..Len(cj) /\ l \in Nat \ {0} /\ l \in 0..m
    BY <1>1, <1>2, <1>3
  <2>2. GoesOn(v, ci, C, l) /\ GoesOn(w, cj, C, l)
    BY <1>1, <1>4, <1>5, <1>6, <2>1, ChainStep
  <2>3. /\ v[l] = Boxed(v[l - 1], ci[l]) /\ v[l - 1] \in Seq(C) /\ ci[l] \in Seq(C)
        /\ w[l] = Boxed(w[l - 1], cj[l]) /\ w[l - 1] \in Seq(C) /\ cj[l] \in Seq(C)
    BY <2>2 DEF GoesOn
  <2>4. OnScreen(v[l]) = OnScreen(v[l - 1]) + OnScreen(ci[l]) + 3
    BY <1>1, <2>3, BoxedOnScreen
  <2>5. OnScreen(w[l]) = OnScreen(w[l - 1]) + OnScreen(cj[l]) + 3
    BY <1>1, <2>3, BoxedOnScreen
  <2>6. OnScreen(ci[l]) = TextWidth(t, l) /\ OnScreen(cj[l]) = TextWidth(t, l)
    BY <1>2, <1>3, <2>1, DeclaredIs
  <2>7. OnScreen(v[l - 1]) = OnScreen(w[l - 1])
    BY <1>8
  <2> QED BY <2>1, <2>4, <2>5, <2>6, <2>7
<1>9. k - 1 \in S
  BY <1>1, <1>7, <1>8, StepByStep
<1>10. k - 1 \in 0..Len(ci) /\ k - 1 \in 0..Len(cj)
  BY <1>1, <1>2, <1>3
<1>11. PipeAt(Joined(p, ci), k) = PipeAt(Joined(p, cj), k)
  BY <1>1, <1>9, <1>10, <1>4, <1>5
<1>12. Formatted(t)[i] = Joined(p, ci) /\ Formatted(t)[j] = Joined(p, cj)
  BY FormattedRows DEF p, ci, cj
<1> QED BY <1>11, <1>12

-----------------------------------------------------------------------------
(* A table that was formatted is left as it is.                            *)

\* What it is read as after that.
ReadBack(u, t) ==
  /\ u.prefix = t.prefix /\ u.aligns = t.aligns /\ DOMAIN u.cells = DOMAIN t.cells
  /\ \A i \in DOMAIN t.cells : u.cells[i] = TextSays(t, i)

\* What a row is read back as.
LEMMA SaysIs ==
  ASSUME NEW C, Written(C), NEW t, IsTable(t, C), NEW i \in 1..Len(t.cells)
  PROVE  /\ TextSays(t, i) \in Seq(Seq(C)) /\ AreCells(TextSays(t, i), C)
         /\ Len(TextSays(t, i)) = CellCount(t, i)
         /\ CellCount(t, i) \in Nat /\ CellCount(t, i) >= Len(t.aligns)
         /\ \A k \in 1..CellCount(t, i) : TextSays(t, i)[k] = TextSaid(t, i, k)
<1>1. Fits(TextRow(t, i), TextSays(t, i), C) /\ Len(TextRow(t, i)) = CellCount(t, i)
      /\ CellCount(t, i) \in Nat /\ CellCount(t, i) >= Len(t.aligns)
  BY RowFits
<1>2. \A k \in 1..CellCount(t, i) : TextSays(t, i)[k] = TextSaid(t, i, k)
  BY DEF TextSays
<1> QED BY <1>1, <1>2 DEF Fits, AreCells

\* A cell of a table that was read back is what it was.
LEMMA SameCells ==
  ASSUME NEW C, Written(C), NEW t, IsTable(t, C), NEW u, IsTable(u, C), ReadBack(u, t),
         NEW i \in 1..Len(t.cells), i # 2, NEW k \in 1..Len(t.aligns)
  PROVE  TextCell(u, i, k) = TextCell(t, i, k)
<1>1. Len(t.aligns) \in Nat /\ DOMAIN t.cells = 1..Len(t.cells) /\ DOMAIN u.cells = 1..Len(u.cells)
  BY LenProperties DEF IsTable
<1>2. u.cells[i] = TextSays(t, i)
  BY <1>1 DEF ReadBack
<1>3. Len(TextSays(t, i)) = CellCount(t, i) /\ CellCount(t, i) \in Nat /\ CellCount(t, i) >= Len(t.aligns)
  BY SaysIs
<1>4. k \in 1..CellCount(t, i) /\ k \in Nat \ {0} /\ i \in 1..Len(u.cells)
  BY <1>1, <1>3 DEF ReadBack
<1>5. TextCell(u, i, k) = u.cells[i][k]
  BY <1>2, <1>4 DEF TextSays, TextCell
<1>6. TextSays(t, i)[k] = TextCell(t, i, k)
  BY <1>4 DEF TextSays, TextSaid
<1> QED BY <1>2, <1>5, <1>6

\* And so are the cells beyond the declared columns.
LEMMA SameSurplus ==
  ASSUME NEW C, Written(C), NEW t, IsTable(t, C), NEW u, IsTable(u, C), ReadBack(u, t),
         NEW i \in 1..Len(t.cells)
  PROVE  TextSurplus(u, i) = TextSurplus(t, i)
<1> DEFINE m == Len(t.aligns)
           l == Len(t.cells[i])
           y == TextSays(t, i)
           x == t.cells[i]
<1>1. m \in Nat /\ DOMAIN t.cells = 1..Len(t.cells) /\ x \in Seq(Seq(C)) /\ l \in Nat
      /\ u.cells[i] = y
  BY LenProperties DEF IsTable, AreCells, ReadBack
<1>2. /\ y \in Seq(Seq(C)) /\ Len(y) = CellCount(t, i)
      /\ \A k \in 1..CellCount(t, i) : y[k] = TextSaid(t, i, k)
  BY SaysIs
<1>3. Columns(u) = m /\ Columns(t) = m
  BY DEF Columns, ReadBack
<1>4. CASE i = 2
  BY <1>4 DEF TextSurplus
<1>5. CASE i # 2 /\ l <= m
  <2>1. CellCount(t, i) = m
    BY <1>5 DEF CellCount
  <2>2. TextSurplus(u, i) = SubSeq(y, m + 1, m) /\ TextSurplus(t, i) = SubSeq(x, m + 1, l)
    BY <1>1, <1>2, <1>3, <1>5, <2>1 DEF TextSurplus
  <2>3. m + 1 \in Int /\ m \in Int /\ l \in Int /\ m < m + 1 /\ l < m + 1
    BY <1>1, <1>5
  <2>4. SubSeq(y, m + 1, m) = << >> /\ SubSeq(x, m + 1, l) = << >>
    BY <2>3, SubSeqEmpty
  <2> QED BY <2>2, <2>4
<1>6. CASE i # 2 /\ ~ (l <= m)
  <2>1. CellCount(t, i) = l
    BY <1>6 DEF CellCount
  <2>2. \A k \in 1..l : y[k] = x[k]
    BY <1>1, LenProperties, <1>2, <1>6, <2>1 DEF TextCell, TextSaid
  <2> HIDE DEF x, y
  <2>3. y = x
    BY <1>1, <1>2, <2>1, <2>2, SeqEqual DEF l, x
  <2> QED BY <1>1, <1>3, <2>3 DEF TextSurplus, x
<1> QED BY <1>4, <1>5, <1>6

\* Formatting a table that was formatted changes nothing.
LEMMA FormattedAgain ==
  ASSUME NEW C, Written(C), NEW t, IsTable(t, C), NEW u, IsTable(u, C), ReadBack(u, t)
  PROVE  Formatted(u) = Formatted(t)
<1> DEFINE n == Len(t.cells)
           m == Len(t.aligns)
<1>1. DOMAIN t.cells = 1..n /\ DOMAIN u.cells = 1..n /\ Columns(u) = m /\ Columns(t) = m /\ m \in Nat
  BY LenProperties DEF IsTable, ReadBack, Columns
<1>2. ASSUME NEW k \in 1..m
      PROVE  TextWidth(u, k) = TextWidth(t, k) /\ TextAlign(u, k) = TextAlign(t, k)
  <2>1. TextWidths(u, k) = TextWidths(t, k)
    BY SameCells, <1>1 DEF TextWidths
  <2> QED BY <2>1 DEF TextWidth, TextAlign, ReadBack
<1>3. ASSUME NEW i \in 1..n, NEW k \in 1..m PROVE TextDeclared(u, i, k) = TextDeclared(t, i, k)
  BY SameCells, <1>2 DEF TextDeclared
<1>4. ASSUME NEW i \in 1..n PROVE TextRow(u, i) = TextRow(t, i)
  <2>1. TextSurplus(u, i) = TextSurplus(t, i)
    BY SameSurplus
  <2>2. [k \in 1..m |-> TextDeclared(u, i, k)] = [k \in 1..m |-> TextDeclared(t, i, k)]
    BY <1>3
  <2> QED BY Zenon, <1>1, <2>1, <2>2 DEF TextRow
<1>5. Formatted(u) = [i \in 1..n |-> Joined(t.prefix, TextRow(u, i))]
  BY <1>1, FormattedIs DEF ReadBack
<1>6. Formatted(t) = [i \in 1..n |-> Joined(t.prefix, TextRow(t, i))]
  BY <1>1, FormattedIs
<1>7. [i \in 1..n |-> Joined(t.prefix, TextRow(u, i))] = [i \in 1..n |-> Joined(t.prefix, TextRow(t, i))]
  BY <1>4
<1> QED BY <1>5, <1>6, <1>7

\* Its delimiter row is one, and declares the same alignments.
LEMMA DelimiterSays ==
  ASSUME NEW C, Written(C), NEW t, IsTable(t, C)
  PROVE  IsDelimiter(TextSays(t, 2)) /\ AlignsOf(TextSays(t, 2)) = t.aligns
<1> DEFINE m == Len(t.aligns)
           y == TextSays(t, 2)
<1>1. 2 \in 1..Len(t.cells) /\ m \in Nat \ {0} /\ CellCount(t, 2) = m
      /\ t.aligns \in Seq(Alignments) /\ DOMAIN t.aligns = 1..m
  BY DEF IsTable, CellCount
<1>2. y \in Seq(Seq(C)) /\ Len(y) = m /\ \A k \in 1..m : y[k] = TextSaid(t, 2, k)
  BY <1>1, SaysIs
<1>3. ASSUME NEW k \in 1..m
      PROVE  /\ AlignOf(y[k]) = t.aligns[k]
             /\ Range(y[k]) \subseteq {"-", ":"} /\ "-" \in Range(y[k])
  <2> DEFINE a == TextAlign(t, k)
             w == TextWidth(t, k)
  <2>1. k \in Nat \ {0} /\ Dash \in C /\ Colon \in C
    BY <1>1 DEF Written
  <2>2. a \in Alignments /\ a = t.aligns[k] /\ w \in Nat /\ w >= 3
    BY <1>1, <2>1, AlignIs, WidthIs
  <2>3. y[k] = Dashes(a, w)
    BY <1>2 DEF TextSaid, TextDeclared
  <2> HIDE DEF a, w, y
  <2>4. LET c == Dashes(a, w)
        IN  AlignOf(c) = a /\ Range(c) \subseteq {"-", ":"} /\ "-" \in Range(c)
    BY ONLY <2>1, <2>2, DashesSay
  <2> QED BY Zenon, <2>2, <2>3, <2>4
<1>4. DOMAIN y = 1..m /\ y # << >>
  BY <1>1, <1>2, LenProperties, NothingIs
<1> HIDE DEF y
<1>5. IsDelimiter(y)
  <2>1. \A c \in Range(y) : \E k \in 1..m : c = y[k]
    BY <1>4 DEF Range
  <2> QED BY Zenon, <1>3, <1>4, <2>1 DEF IsDelimiter
<1>6. AlignsOf(y) = t.aligns
  <2>1. AlignsOf(y) = [k \in 1..m |-> AlignOf(y[k])]
    BY <1>4, AlignsAre
  <2>2. t.aligns = [k \in 1..m |-> t.aligns[k]]
    BY <1>1, LenProperties
  <2>3. \A k \in 1..m : AlignOf(y[k]) = t.aligns[k]
    BY Zenon, <1>3
  <2> QED BY <2>1, <2>2, <2>3
<1> QED BY <1>5, <1>6 DEF y

-----------------------------------------------------------------------------
(* The tables of a document.                                               *)

CellsOf(ls) == [i \in DOMAIN ls |-> Cells(ls[i])]
BeginSet(ls, cs) == {d \in 2..Len(ls) : /\ IsDelimiter(cs[d])
                                        /\ ~IsBlank(ls[d - 1])
                                        /\ Len(cs[d]) = Len(cs[d - 1])}
Stops(ls, d) == Min({i \in d..Len(ls) : i = Len(ls) \/ IsBlank(ls[i + 1])})
TableAt(ls, d) ==
  [from |-> d - 1, to |-> Stops(ls, d), aligns |-> AlignsOf(CellsOf(ls)[d]),
   prefix |-> ContainerPrefix(ls[d - 1]), cells |-> SubSeq(CellsOf(ls), d - 1, Stops(ls, d))]

\* The d-th line is the delimiter row of a table.
Begins(ls, d) ==
  /\ d \in 2..Len(ls) /\ IsDelimiter(Cells(ls[d])) /\ ~IsBlank(ls[d - 1])
  /\ Len(Cells(ls[d])) = Len(Cells(ls[d - 1]))

\* The tables of a document, by the lines that begin them.
LEMMA TablesAre ==
  ASSUME NEW C, NEW ls \in Seq(Seq(C))
  PROVE  \A t : t \in Tables(ls) <=> \E d : Begins(ls, d) /\ t = TableAt(ls, d)
<1> DEFINE cs == CellsOf(ls)
<1>1. Tables(ls) = TablesOf(ls, cs)
  BY DEF Tables, CellsOf
<1>2. TablesOf(ls, cs) = {TableAt(ls, d) : d \in BeginSet(ls, cs)}
  BY Zenon DEF TablesOf, TableAt, BeginSet, Stops
<1>3. \A i \in 1..Len(ls) : cs[i] = Cells(ls[i])
  BY LenProperties DEF CellsOf
<1>4. ASSUME NEW d PROVE d \in BeginSet(ls, cs) <=> Begins(ls, d)
  <2>1. Len(ls) \in Nat
    BY LenProperties
  <2>2. d \in 2..Len(ls) => d \in 1..Len(ls) /\ d - 1 \in 1..Len(ls)
    BY <2>1
  <2> HIDE DEF cs
  <2> QED BY <1>3, <2>2 DEF BeginSet, Begins
<1> HIDE DEF cs
<1>5. \A t : t \in Tables(ls) <=> \E d \in BeginSet(ls, cs) : t = TableAt(ls, d)
  BY <1>1, <1>2
<1> QED BY <1>4, <1>5

\* A line that is blank divides nothing.
LEMMA BlankIsNoDelimiter ==
  ASSUME NEW C, NEW line \in Seq(C), IsBlank(line)
  PROVE  ~IsDelimiter(Cells(line))
<1> DEFINE e == << >>
<1>1. e \in Seq(C) /\ Len(e) = 0
  BY EmptySeq
<1>2. Cells(line) = SplitCells(e)
  BY CellsAre DEF IsBlank
<1>3. TrimEnd(e) = e /\ Trim(e) = e
  BY <1>1, NothingTrims
<1>4. Walked(e) = Unwalked
  BY <1>3, CellsAre, WalkOverMore
<1>5. Parted(e) = Append(e, e)
  BY Zenon, <1>3, <1>4, UnwalkedIs DEF Parted
<1>6. ~BeginsOpen(e)
  BY Zenon DEF BeginsOpen
<1>7. Cells(line) = Append(e, e)
  BY Zenon, <1>2, <1>5, <1>6, CellsAre
<1>8. e \in Range(Append(e, e)) /\ "-" \notin Range(e)
  BY DEF Range
<1> HIDE DEF e
<1> QED BY Zenon, <1>7, <1>8 DEF IsDelimiter

\* Where a table stops.
IsStop(ls, d, e) ==
  /\ e \in d..Len(ls) /\ (e = Len(ls) \/ IsBlank(ls[e + 1]))
  /\ \A i \in (d + 1)..e : ~IsBlank(ls[i])

\* The line a table stops at is the last before a blank one.
LEMMA StopIs ==
  ASSUME NEW C, NEW ls \in Seq(Seq(C)), NEW d \in 1..Len(ls)
  PROVE  /\ IsStop(ls, d, Stops(ls, d))
         /\ \A e : IsStop(ls, d, e) => Stops(ls, d) = e
<1> DEFINE n == Len(ls)
           S == {i \in d..n : i = n \/ IsBlank(ls[i + 1])}
<1>1. n \in Nat /\ S \subseteq Nat /\ n \in S
  BY LenProperties
<1>2. ASSUME NEW e, IsStop(ls, d, e) PROVE e \in S /\ \A y \in S : e <= y
  BY <1>2, <1>1 DEF IsStop
<1>3. PICK e \in S : \A y \in S : e <= y
  BY <1>1, NatLeast
<1>4. IsStop(ls, d, e)
  <2>1. ASSUME NEW i \in (d + 1)..e PROVE ~IsBlank(ls[i])
    <3>1. i - 1 \in d..n /\ ~ (e <= i - 1) /\ i - 1 + 1 = i
      BY <1>1, <1>3
    <3>2. i - 1 \notin S
      BY <1>3, <3>1
    <3> QED BY <3>1, <3>2
  <2> QED BY <1>3, <2>1 DEF IsStop
<1>5. Stops(ls, d) = Min(S)
  BY DEF Stops
<1> HIDE DEF S
<1>6. \A x : IsStop(ls, d, x) => Min(S) = x
  BY <1>1, <1>2, LeastIs
<1> QED BY <1>4, <1>5, <1>6

\* A table is one.
LEMMA TableAtIs ==
  ASSUME NEW C, NEW ls \in Seq(Seq(C)), NEW d, Begins(ls, d)
  PROVE  LET t == TableAt(ls, d)
             e == Stops(ls, d)
         IN  /\ IsTable(t, C) /\ t.from = d - 1 /\ t.to = e /\ IsStop(ls, d, e)
             /\ Len(t.cells) = e - d + 2 /\ DOMAIN t.cells = 1..(e - d + 2)
             /\ \A i \in 1..(e - d + 2) : t.cells[i] = Cells(ls[d - 2 + i])
             /\ t.aligns = AlignsOf(Cells(ls[d])) /\ t.prefix = ContainerPrefix(ls[d - 1])
<1> DEFINE n == Len(ls)
           t == TableAt(ls, d)
           e == Stops(ls, d)
           cs == CellsOf(ls)
           l == e - d + 2
           row == ls[d - 1]
           a == Cells(ls[d])
<1>1. n \in Nat /\ d \in 2..n /\ d \in 1..n /\ d - 1 \in 1..n /\ \A i \in 1..n : ls[i] \in Seq(C)
  BY LenProperties, ElementOfSeq DEF Begins
<1>2. IsStop(ls, d, e)
  BY <1>1, StopIs
<1>3. e \in d..n /\ l \in Nat /\ l >= 2
  BY <1>1, <1>2 DEF IsStop
<1>4. \A i \in 1..n : AreCells(Cells(ls[i]), C) /\ Cells(ls[i]) \in Seq(Seq(C))
  BY <1>1, LinesHaveCells DEF AreCells
<1>5. cs \in Seq(Seq(Seq(C))) /\ Len(cs) = n /\ \A i \in 1..n : cs[i] = Cells(ls[i])
  <2>1. cs = [i \in 1..n |-> Cells(ls[i])]
    BY LenProperties DEF CellsOf
  <2>2. cs \in [1..n -> Seq(Seq(C))] /\ \A i \in 1..n : cs[i] = Cells(ls[i])
    BY <1>4, <2>1
  <2> HIDE DEF cs
  <2> QED BY <1>1, <2>2, FunctionIsSeq
<1>6. /\ t.from = d - 1 /\ t.to = e /\ t.aligns = AlignsOf(cs[d]) /\ t.prefix = ContainerPrefix(row)
      /\ t.cells = SubSeq(cs, d - 1, e)
  BY DEF TableAt
<1> HIDE DEF t, e, cs, row, a
<1>7. /\ t.cells \in Seq(Seq(Seq(C))) /\ Len(t.cells) = l
      /\ \A i \in 1..l : t.cells[i] = Cells(ls[d - 2 + i]) /\ AreCells(t.cells[i], C)
  <2> DEFINE b == d - 1
             sub == SubSeq(cs, b, e)
  <2>1. b \in Nat \ {0} /\ e \in Nat /\ e <= Len(cs) /\ b <= e + 1
    BY <1>1, <1>3, <1>5
  <2>2. e - b + 1 = l
    BY <1>1, <1>3
  <2>3. ASSUME NEW i \in 1..l PROVE b + i - 1 = d - 2 + i /\ b + i - 1 \in 1..n
    BY <1>1, <1>3
  <2> HIDE DEF b, l, n
  <2>4. /\ sub \in Seq(Seq(Seq(C))) /\ Len(sub) = e - b + 1
        /\ \A i \in 1..(e - b + 1) : sub[i] = cs[b + i - 1]
    BY <1>5, <2>1, PartIs
  <2>5. t.cells = sub
    BY <1>6 DEF b
  <2> HIDE DEF sub
  <2>6. ASSUME NEW i \in 1..l PROVE sub[i] = Cells(ls[d - 2 + i]) /\ AreCells(sub[i], C)
    BY <2>3, <2>2, <2>4, <1>4, <1>5
  <2> QED BY <2>2, <2>4, <2>5, <2>6
<1>8. /\ t.aligns \in Seq(Alignments) /\ Len(t.aligns) = Len(a) /\ Len(a) \in Nat \ {0}
      /\ DOMAIN t.aligns = 1..Len(t.aligns)
      /\ \A k \in 1..Len(t.aligns) : t.aligns[k] \in Alignments
      /\ t.aligns = AlignsOf(a)
  <2>1. a \in Seq(Seq(C)) /\ a # << >>
    BY Zenon, <1>1, <1>4 DEF a, Begins, IsDelimiter
  <2>2. Len(a) \in Nat \ {0} /\ DOMAIN a = 1..Len(a)
    BY <2>1, NothingIs, LenProperties
  <2>3. t.aligns = [k \in 1..Len(a) |-> AlignOf(a[k])] /\ t.aligns = AlignsOf(a)
    BY <1>1, <1>5, <1>6, <2>2, AlignsAre DEF a
  <2>4. t.aligns \in [1..Len(a) -> Alignments]
    BY <2>3, AlignsAre
  <2>5. t.aligns \in Seq(Alignments) /\ Len(t.aligns) = Len(a)
    BY <2>2, <2>4, FunctionIsSeq
  <2> QED BY <2>2, <2>3, <2>4, <2>5
<1>9. Len(t.cells[1]) = Len(t.aligns)
  <2>1. 1 \in 1..l /\ d - 2 + 1 = d - 1
    BY <1>1, <1>3
  <2>2. t.cells[1] = Cells(ls[d - 1])
    BY <1>7, <2>1
  <2> QED BY <1>8, <2>2 DEF Begins, a
<1>10. IsContainer(t.prefix, C)
  <2>1. row \in Seq(C)
    BY <1>1 DEF row
  <2>2. PICK k : Leading(row, k, ContainerChars)
    BY <2>1, LeadingExists
  <2>3. Len(row) \in Nat /\ k \in 0..Len(row)
    BY <2>1, <2>2, LenProperties DEF Leading
  <2>4. TrimStart(row, ContainerChars) = SubSeq(row, k + 1, Len(row))
    BY <2>1, <2>2, TrimStartIs
  <2>5. Len(SubSeq(row, k + 1, Len(row))) = Len(row) - k
    BY <2>3, <2>1, PartIs
  <2>6. ContainerPrefix(row) = SubSeq(row, 1, k)
    BY <2>3, <2>4, <2>5 DEF ContainerPrefix
  <2> DEFINE p == SubSeq(row, 1, k)
  <2>7. p \in Seq(C) /\ Len(p) = k /\ \A i \in 1..k : p[i] = row[i]
    BY <2>3, <2>1, PartIs
  <2> HIDE DEF p
  <2>8. \A i \in 1..k : row[i] \in ContainerChars
    BY <2>2 DEF Leading
  <2> QED BY <1>6, <2>6, <2>7, <2>8 DEF IsContainer, p
<1>11. IsTable(t, C)
  BY <1>3, <1>7, <1>8, <1>9, <1>10 DEF IsTable
<1>12. DOMAIN t.cells = 1..l
  BY <1>7, LenProperties
<1> QED BY <1>2, <1>6, <1>7, <1>8, <1>11, <1>12 DEF t, e, row, a

\* No row of its body is a delimiter.
NoneInside(ls, d) == \A i \in (d + 1)..Stops(ls, d) : ~IsDelimiter(Cells(ls[i]))

\* A table ends before the next one begins.
LEMMA TablesApart ==
  ASSUME NEW C, NEW ls \in Seq(Seq(C)), NEW x, NEW y, Begins(ls, x), Begins(ls, y),
         NoneInside(ls, x), x < y
  PROVE  Stops(ls, x) < y - 1
<1> DEFINE n == Len(ls)
           e == Stops(ls, x)
<1>1. n \in Nat /\ x \in 2..n /\ y \in 2..n /\ x \in 1..n /\ y \in 1..n
  BY LenProperties DEF Begins
<1>2. IsStop(ls, x, e)
  BY <1>1, StopIs
<1>3. e \in x..n
  BY <1>2 DEF IsStop
<1>4. IsDelimiter(Cells(ls[y]))
  BY DEF Begins
<1> HIDE DEF e
<1>5. ~ (y <= e)
  BY <1>1, <1>3, <1>4 DEF NoneInside, e
<1>6. y # e + 1
  <2> SUFFICES ASSUME y = e + 1 PROVE FALSE
    OBVIOUS
  <2>1. e # n /\ ls[y] \in Seq(C)
    BY <1>1, <1>3, ElementOfSeq
  <2>2. IsBlank(ls[y])
    BY <1>2, <2>1 DEF IsStop
  <2> QED BY <1>4, <2>1, <2>2, BlankIsNoDelimiter
<1>7. e \in Int /\ y \in Int
  BY <1>1, <1>3
<1>8. e < y - 1
  BY ONLY <1>5, <1>6, <1>7
<1> QED BY <1>8 DEF e

-----------------------------------------------------------------------------
(* A document of which one table was formatted.                            *)

\* The lines of t are the ones its format gives.
Spliced(ls, t) ==
  SubSeq(ls, 1, t.from - 1) \o Formatted(t) \o SubSeq(ls, t.to + 1, Len(ls))

\* rs is ls, with the table that the d-th line begins formatted.
Reformed(rs, ls, d, C) ==
  LET t == TableAt(ls, d)
      e == Stops(ls, d)
  IN  /\ rs \in Seq(Seq(C)) /\ Len(rs) = Len(ls)
      /\ \A i \in 1..Len(ls) : i \notin (d - 1)..e => rs[i] = ls[i]
      /\ \A i \in (d - 1)..e : rs[i] = Formatted(t)[i - d + 2]

\* What format() puts in place of a table is line for line in its place.
LEMMA SplicedIs ==
  ASSUME NEW C, Written(C), NEW ls \in Seq(Seq(C)), NEW d, Begins(ls, d)
  PROVE  Reformed(Spliced(ls, TableAt(ls, d)), ls, d, C)
<1> DEFINE n == Len(ls)
           t == TableAt(ls, d)
           e == Stops(ls, d)
           f == Formatted(t)
           l == e - d + 2
           b == d - 2
           before == SubSeq(ls, 1, b)
           after == SubSeq(ls, e + 1, n)
           bf == before \o f
           rs == Spliced(ls, t)
<1>1. n \in Nat /\ d \in 2..n /\ b \in 0..n /\ b \in Nat
  BY LenProperties DEF Begins
<1>2. /\ IsTable(t, C) /\ t.from = d - 1 /\ t.to = e /\ IsStop(ls, d, e) /\ Len(t.cells) = l
  BY TableAtIs
<1>3. e \in d..n
  BY <1>2 DEF IsStop
<1>4. f \in Seq(Seq(C)) /\ Len(f) = l
  BY <1>2, FormattedRows
<1>5. rs = before \o f \o after
  <2>1. t.from - 1 = b
    BY <1>1, <1>2
  <2> QED BY <1>2, <2>1 DEF Spliced
<1> HIDE DEF t, e, f, rs, n
<1>6. before \in Seq(Seq(C)) /\ Len(before) = b /\ \A i \in 1..b : before[i] = ls[i]
  BY <1>1, PartIs DEF n
<1>7. after \in Seq(Seq(C)) /\ Len(after) = n - e /\ \A i \in 1..(n - e) : after[i] = ls[e + i]
  BY <1>1, <1>3, PartIs DEF n
<1>8. bf = before \o f /\ rs = bf \o after
  BY <1>5
<1> HIDE DEF before, after, bf
<1>9. /\ bf \in Seq(Seq(C)) /\ Len(bf) = b + l
      /\ \A i \in 1..(b + l) : bf[i] = IF i <= b THEN before[i] ELSE f[i - b]
  BY <1>4, <1>6, ConcatProperties, <1>8
<1>10. b + l = e /\ e + (n - e) = n /\ e \in Nat /\ n \in Nat
  BY <1>1, <1>3
<1>11. /\ rs \in Seq(Seq(C)) /\ Len(rs) = n
       /\ \A i \in 1..n : rs[i] = IF i <= e THEN bf[i] ELSE after[i - e]
  <2>1. /\ bf \o after \in Seq(Seq(C)) /\ Len(bf \o after) = Len(bf) + Len(after)
        /\ \A i \in 1..(Len(bf) + Len(after)) :
             (bf \o after)[i] = IF i <= Len(bf) THEN bf[i] ELSE after[i - Len(bf)]
    <3>1. bf \in Seq(Seq(C)) /\ after \in Seq(Seq(C))
      BY <1>7, <1>9
    <3> QED BY ONLY <3>1, ConcatProperties
  <2>2. Len(bf) = e /\ Len(after) = n - e
    BY <1>7, <1>9, <1>10
  <2> QED BY <1>8, <1>10, <2>1, <2>2
<1>12. ASSUME NEW i \in 1..n, i \notin (d - 1)..e PROVE rs[i] = ls[i]
  <2>1. CASE i <= e
    <3>1. i \in 1..b /\ i \in 1..(b + l) /\ i <= b
      BY <1>1, <1>3, <1>10, <1>12, <2>1
    <3> QED BY <1>6, <1>9, <1>11, <2>1, <3>1
  <2>2. CASE ~ (i <= e)
    <3>1. i - e \in 1..(n - e) /\ e + (i - e) = i
      BY <1>1, <1>3, <2>2
    <3> QED BY <1>7, <1>11, <2>2, <3>1
  <2> QED BY <2>1, <2>2
<1>13. ASSUME NEW i \in (d - 1)..e PROVE rs[i] = f[i - d + 2]
  <2>1. i \in 1..n /\ i <= e /\ i \in 1..(b + l) /\ ~ (i <= b) /\ i - b = i - d + 2
    BY <1>1, <1>3, <1>10
  <2> QED BY <1>9, <1>11, <2>1
<1> QED BY <1>11, <1>12, <1>13 DEF Reformed, n, t, e, f, rs

\* What is read of its lines.
LEMMA ReformedLines ==
  ASSUME NEW C, Written(C), NEW ls \in Seq(Seq(C)), NEW d, Begins(ls, d), NEW rs, Reformed(rs, ls, d, C)
  PROVE  LET t == TableAt(ls, d)
             e == Stops(ls, d)
         IN  /\ \A i \in (d - 1)..e : /\ ~IsBlank(ls[i]) /\ ~IsBlank(rs[i])
                                      /\ Cells(rs[i]) = TextSays(t, i - d + 2)
                                      /\ ContainerPrefix(rs[i]) = t.prefix
             /\ \A i \in 1..Len(ls) : IsBlank(rs[i]) <=> IsBlank(ls[i])
<1> DEFINE n == Len(ls)
           t == TableAt(ls, d)
           e == Stops(ls, d)
           l == e - d + 2
           f == Formatted(t)
<1>1. n \in Nat /\ d \in 2..n
  BY LenProperties DEF Begins
<1>2. /\ IsTable(t, C) /\ IsStop(ls, d, e) /\ Len(t.cells) = l
  BY TableAtIs
<1>3. e \in d..n /\ \A i \in (d + 1)..e : ~IsBlank(ls[i])
  BY <1>2 DEF IsStop
<1>4. \A i \in 1..l : /\ Cells(f[i]) = TextSays(t, i) /\ ContainerPrefix(f[i]) = t.prefix
                      /\ ~IsBlank(f[i])
  BY <1>2, FormattedRows
<1>5. /\ Len(rs) = n /\ \A i \in 1..n : i \notin (d - 1)..e => rs[i] = ls[i]
      /\ \A i \in (d - 1)..e : rs[i] = f[i - d + 2]
  BY DEF Reformed
<1> HIDE DEF t, e, f, n
<1>6. ASSUME NEW i \in (d - 1)..e PROVE ~IsBlank(ls[i])
  <2>1. i = d - 1 \/ i = d \/ i \in (d + 1)..e
    BY <1>1, <1>3
  <2>2. ~IsBlank(ls[d - 1]) /\ IsDelimiter(Cells(ls[d]))
    BY DEF Begins
  <2>3. ls[d] \in Seq(C)
    BY <1>1, ElementOfSeq DEF n
  <2>4. ~IsBlank(ls[d])
    BY <2>2, <2>3, BlankIsNoDelimiter
  <2> QED BY <1>3, <2>1, <2>2, <2>4
<1>7. ASSUME NEW i \in (d - 1)..e
      PROVE  /\ ~IsBlank(rs[i]) /\ Cells(rs[i]) = TextSays(t, i - d + 2)
             /\ ContainerPrefix(rs[i]) = t.prefix
  BY <1>1, <1>3, <1>5, <1>4
<1>8. \A i \in 1..n : IsBlank(rs[i]) <=> IsBlank(ls[i])
  BY <1>5, <1>6, <1>7
<1> QED BY <1>6, <1>7, <1>8 DEF t, e, n

\* A row of the body does not become a delimiter.
LEMMA NoneBecomesOne ==
  ASSUME NEW C, Written(C), NEW t, IsTable(t, C), NEW i \in 1..Len(t.cells), i # 2,
         ~IsDelimiter(t.cells[i])
  PROVE  ~IsDelimiter(TextSays(t, i))
<1> DEFINE y == TextSays(t, i)
           x == t.cells[i]
           l == Len(x)
           m == Len(t.aligns)
<1>1. /\ y \in Seq(Seq(C)) /\ Len(y) = CellCount(t, i) /\ CellCount(t, i) \in Nat
      /\ CellCount(t, i) >= m /\ \A k \in 1..CellCount(t, i) : y[k] = TextSaid(t, i, k)
  BY SaysIs
<1>2. x \in Seq(Seq(C)) /\ m \in Nat \ {0} /\ l \in Nat /\ DOMAIN x = 1..l /\ (x = << >> <=> l = 0)
  BY LenProperties, NothingIs DEF IsTable, AreCells
<1>3. DOMAIN y = 1..CellCount(t, i)
  BY DEF TextSays
<1>4. \A k \in 1..CellCount(t, i) : y[k] \in Range(y)
  BY <1>3 DEF Range
<1>5. CASE l = 0
  <2>1. 1 \in 1..CellCount(t, i) /\ 1 \notin 1..l
    BY <1>1, <1>2, <1>5
  <2>2. TextSaid(t, i, 1) = << >>
    BY <1>2, <2>1 DEF TextSaid, TextCell
  <2>3. << >> \in Range(y) /\ "-" \notin Range(<< >>)
    BY <1>1, <1>4, <2>1, <2>2 DEF Range
  <2> HIDE DEF y
  <2>4. ~IsDelimiter(y)
    BY Zenon, <2>3 DEF IsDelimiter
  <2> QED BY <2>4 DEF y
<1>6. CASE l # 0
  <2>1. l <= CellCount(t, i)
    BY <1>2 DEF CellCount
  <2>2. ASSUME NEW c \in Range(x) PROVE c \in Range(y)
    <3>1. PICK k \in DOMAIN x : c = x[k]
      BY DEF Range
    <3>2. k \in 1..CellCount(t, i) /\ k \in DOMAIN t.cells[i]
      BY <1>1, <1>2, <2>1, <3>1
    <3>3. TextSaid(t, i, k) = c
      BY <3>1, <3>2 DEF TextSaid, TextCell
    <3> QED BY <1>1, <1>4, <3>2, <3>3
  <2>3. x # << >> /\ ~IsDelimiter(x)
    BY <1>2, <1>6
  <2> HIDE DEF x, y
  <2>4. ~IsDelimiter(y)
    BY Zenon, <2>2, <2>3 DEF IsDelimiter
  <2> QED BY <2>4 DEF y
<1> QED BY <1>5, <1>6

\* The table that was formatted is still there, and is the only one in its lines.
LEMMA StillATable ==
  ASSUME NEW C, Written(C), NEW ls \in Seq(Seq(C)), NEW d, Begins(ls, d), NEW rs,
         Reformed(rs, ls, d, C), \A x : Begins(ls, x) => NoneInside(ls, x)
  PROVE  /\ Begins(rs, d) /\ Stops(rs, d) = Stops(ls, d)
         /\ \A x : /\ Begins(rs, x)
                   /\ \E i \in (d - 1)..Stops(ls, d) : i \in (x - 1)..Stops(rs, x)
                   => x = d
<1> DEFINE n == Len(ls)
           t == TableAt(ls, d)
           e == Stops(ls, d)
           l == e - d + 2
<1>1. n \in Nat /\ d \in 2..n
  BY LenProperties DEF Begins
<1>2. /\ IsTable(t, C) /\ IsStop(ls, d, e) /\ Len(t.cells) = l
      /\ \A i \in 1..l : t.cells[i] = Cells(ls[d - 2 + i])
  BY TableAtIs
<1>3. e \in d..n /\ (e = n \/ IsBlank(ls[e + 1]))
  BY <1>2 DEF IsStop
<1>4. /\ \A i \in (d - 1)..e : ~IsBlank(rs[i]) /\ Cells(rs[i]) = TextSays(t, i - d + 2)
      /\ \A i \in 1..n : IsBlank(rs[i]) <=> IsBlank(ls[i])
  BY ReformedLines
<1>5. /\ rs \in Seq(Seq(C)) /\ Len(rs) = n
      /\ \A i \in 1..n : i \notin (d - 1)..e => rs[i] = ls[i]
  BY DEF Reformed
<1>6. NoneInside(ls, d)
  OBVIOUS
<1> HIDE DEF n, t, e
<1>7. ASSUME NEW x \in 1..n PROVE Stops(rs, x) = Stops(ls, x)
  <2> DEFINE s == Stops(ls, x)
  <2>1. IsStop(ls, x, s)
    BY <1>7, StopIs DEF n
  <2> HIDE DEF s
  <2>2. IsStop(rs, x, s)
    <3>1. s \in x..n /\ (s = n \/ IsBlank(ls[s + 1])) /\ \A i \in (x + 1)..s : ~IsBlank(ls[i])
      BY <2>1 DEF IsStop, n
    <3>2. s # n => s + 1 \in 1..n
      BY <1>1, <1>7, <3>1
    <3>3. \A i \in (x + 1)..s : i \in 1..n
      BY <1>1, <1>7, <3>1
    <3> QED BY <1>4, <1>5, <3>1, <3>2, <3>3 DEF IsStop
  <2>3. x \in 1..Len(rs)
    BY <1>5, <1>7
  <2> QED BY <1>5, <2>2, <2>3, StopIs DEF s
<1>8. d \in 1..n
  BY <1>1
<1>9. Stops(rs, d) = e
  BY <1>7, <1>8 DEF e
<1>10. Begins(rs, d)
  <2>1. d \in (d - 1)..e /\ d - 1 \in (d - 1)..e /\ d - d + 2 = 2 /\ d - 1 - d + 2 = 1 /\ 1 \in 1..l /\ 2 \in 1..l
    BY <1>1, <1>3
  <2>2. Cells(rs[d]) = TextSays(t, 2) /\ Cells(rs[d - 1]) = TextSays(t, 1) /\ ~IsBlank(rs[d - 1])
    BY <1>4, <2>1
  <2>3. IsDelimiter(TextSays(t, 2))
    BY <1>2, DelimiterSays
  <2>4. Len(TextSays(t, 1)) = CellCount(t, 1) /\ Len(TextSays(t, 2)) = CellCount(t, 2)
    BY <1>2, <2>1, SaysIs
  <2>5. CellCount(t, 1) = CellCount(t, 2)
    BY <1>2 DEF CellCount, IsTable
  <2> QED BY <1>1, <1>5, <2>2, <2>3, <2>4, <2>5 DEF Begins
<1>11. NoneInside(rs, d)
  <2>1. ASSUME NEW i \in (d + 1)..e PROVE ~IsDelimiter(Cells(rs[i]))
    <3> DEFINE j == i - d + 2
    <3>1. j \in 1..l /\ j # 2 /\ i \in (d - 1)..e /\ d - 2 + j = i
      BY <1>1, <1>3
    <3>2. Cells(rs[i]) = TextSays(t, j)
      BY <1>4, <3>1
    <3>3. ~IsDelimiter(Cells(ls[i]))
      BY <1>6 DEF NoneInside, e
    <3> HIDE DEF j, l
    <3>4. t.cells[j] = Cells(ls[i])
      BY <1>2, <3>1
    <3>5. ~IsDelimiter(TextSays(t, j))
      BY <1>2, <3>1, <3>3, <3>4, NoneBecomesOne
    <3> QED BY <3>2, <3>5
  <2> QED BY <1>9, <2>1 DEF NoneInside
<1>12. ASSUME NEW x, Begins(rs, x), NEW i \in (d - 1)..e, i \in (x - 1)..Stops(rs, x)
       PROVE  x = d
  <2>1. x \in 2..n /\ x \in 1..n /\ Stops(rs, x) \in Int
    BY <1>5, <1>12, <1>1, StopIs DEF Begins, IsStop
  <2>2. ASSUME x > d PROVE FALSE
    <3>1. d < x
      BY <1>1, <2>1, <2>2
    <3>2. Stops(rs, d) < x - 1
      BY <1>5, <1>10, <1>11, <1>12, <3>1, TablesApart
    <3> QED BY <1>1, <1>3, <1>9, <1>12, <2>1, <3>2
  <2>3. ASSUME x < d PROVE FALSE
    <3>1. Begins(ls, x)
      <4>1. x - 1 \notin (d - 1)..e /\ x - 1 \in 1..n
        BY <1>1, <2>1, <2>3
      <4>2. rs[x - 1] = ls[x - 1]
        BY <1>5, <4>1
      <4>3. CASE x # d - 1
        <5>1. x \notin (d - 1)..e
          BY <1>1, <2>1, <2>3, <4>3
        <5>2. rs[x] = ls[x]
          BY <1>5, <2>1, <5>1
        <5> QED BY <1>5, <1>12, <4>2, <5>2 DEF Begins, n
      <4>4. CASE x = d - 1
        <5>1. x \in (d - 1)..e /\ x - d + 2 = 1 /\ 1 \in 1..l /\ d - 2 + 1 = x
          BY <1>1, <1>3, <4>4
        <5>2. Cells(rs[x]) = TextSays(t, 1)
          BY <1>4, <5>1
        <5> DEFINE y == TextSays(t, 1)
                   c == t.cells[1]
        <5>3. c = Cells(ls[x]) /\ c \in Seq(Seq(C)) /\ Len(c) = Len(t.aligns)
          BY <1>2, <5>1 DEF IsTable, AreCells
        <5>4. CellCount(t, 1) = Len(c)
          BY <5>3 DEF CellCount
        <5>5. y \in Seq(Seq(C)) /\ Len(y) = Len(c) /\ \A k \in 1..Len(c) : y[k] = TextSaid(t, 1, k)
          BY <1>2, <5>1, <5>4, SaysIs
        <5>6. \A k \in 1..Len(c) : TextSaid(t, 1, k) = c[k]
          BY <5>3, LenProperties DEF TextSaid, TextCell
        <5> HIDE DEF y, c
        <5>7. y = c
          BY <5>3, <5>5, <5>6, SeqEqual
        <5>8. Cells(rs[x]) = Cells(ls[x])
          BY <5>2, <5>3, <5>7 DEF y
        <5> QED BY <1>4, <1>5, <1>12, <4>1, <4>2, <5>8 DEF Begins, n
      <4> QED BY <4>3, <4>4
    <3>2. NoneInside(ls, x)
      BY <3>1
    <3>3. Stops(ls, x) < d - 1
      BY <2>3, <3>1, <3>2, TablesApart
    <3>4. Stops(rs, x) = Stops(ls, x)
      BY <1>7, <2>1
    <3> QED BY <1>1, <1>3, <1>12, <2>1, <3>3, <3>4
  <2> QED BY <1>1, <2>1, <2>2, <2>3
<1> QED BY <1>9, <1>10, <1>12 DEF e

-----------------------------------------------------------------------------
(* That table squares up.                                                  *)

\* A line is in one table.
LEMMA OneTableALine ==
  ASSUME NEW C, NEW ls \in Seq(Seq(C)), NEW x, NEW y, Begins(ls, x), Begins(ls, y),
         NoneInside(ls, x), NoneInside(ls, y),
         NEW i \in (x - 1)..Stops(ls, x), i \in (y - 1)..Stops(ls, y)
  PROVE  x = y
<1>1. x \in 1..Len(ls) /\ y \in 1..Len(ls) /\ Len(ls) \in Nat
  BY LenProperties DEF Begins
<1>2. Stops(ls, x) \in Int /\ Stops(ls, y) \in Int
  BY <1>1, StopIs DEF IsStop
<1>3. ASSUME x < y PROVE FALSE
  <2>1. Stops(ls, x) < y - 1
    BY <1>3, TablesApart
  <2> QED BY <1>1, <1>2, <2>1
<1>4. ASSUME y < x PROVE FALSE
  <2>1. Stops(ls, y) < x - 1
    BY <1>4, TablesApart
  <2> QED BY <1>1, <1>2, <2>1
<1> QED BY <1>1, <1>3, <1>4

\* What the table that was formatted is read as.
LEMMA ReadAsItWas ==
  ASSUME NEW C, Written(C), NEW ls \in Seq(Seq(C)), NEW d, Begins(ls, d), NEW rs,
         Reformed(rs, ls, d, C), \A x : Begins(ls, x) => NoneInside(ls, x)
  PROVE  LET t == TableAt(ls, d)
             u == TableAt(rs, d)
         IN  /\ IsTable(t, C) /\ IsTable(u, C) /\ ReadBack(u, t)
             /\ u.from = t.from /\ u.to = t.to
<1> DEFINE t == TableAt(ls, d)
           u == TableAt(rs, d)
           e == Stops(ls, d)
           l == e - d + 2
<1>1. Begins(rs, d) /\ Stops(rs, d) = e
  BY StillATable
<1>2. rs \in Seq(Seq(C))
  BY DEF Reformed
<1>3. /\ IsTable(t, C) /\ t.from = d - 1 /\ t.to = e /\ DOMAIN t.cells = 1..l
      /\ IsStop(ls, d, e)
  BY TableAtIs
<1>4. /\ IsTable(u, C) /\ u.from = d - 1 /\ u.to = e /\ DOMAIN u.cells = 1..l
      /\ \A i \in 1..l : u.cells[i] = Cells(rs[d - 2 + i])
      /\ u.aligns = AlignsOf(Cells(rs[d])) /\ u.prefix = ContainerPrefix(rs[d - 1])
  BY <1>1, <1>2, TableAtIs
<1>5. \A i \in (d - 1)..e : /\ Cells(rs[i]) = TextSays(t, i - d + 2)
                            /\ ContainerPrefix(rs[i]) = t.prefix
  BY ReformedLines
<1>6. d \in Nat /\ e \in Nat /\ d <= e
  <2>1. Len(ls) \in Nat /\ d \in 2..Len(ls)
    BY LenProperties DEF Begins
  <2> QED BY <1>3, <2>1 DEF IsStop
<1> HIDE DEF t, u, e
<1>7. u.prefix = t.prefix
  BY <1>6, <1>4, <1>5
<1>8. u.aligns = t.aligns
  BY <1>6, <1>5, <1>3, <1>4, DelimiterSays
<1>9. ASSUME NEW i \in 1..l PROVE u.cells[i] = TextSays(t, i)
  BY <1>6, <1>4, <1>5
<1>10. ReadBack(u, t)
  BY <1>3, <1>4, <1>7, <1>8, <1>9 DEF ReadBack
<1> QED BY <1>3, <1>4, <1>10 DEF t, u

\* SaysTheSame of one table.
SaysAllOf(rs, t) ==
  \A i \in DOMAIN t.cells :
    LET now == Cells(rs[t.from + i - 1])
    IN  IF i = 2 THEN AlignsOf(now) = t.aligns
        ELSE /\ Len(now) = Max({Len(t.cells[i]), Len(t.cells[1])})
             /\ \A k \in DOMAIN now :
                  now[k] = IF k \in DOMAIN t.cells[i] THEN t.cells[i][k] ELSE << >>

\* A table that was formatted says what it said.
LEMMA FormattedSaysAll ==
  ASSUME NEW C, Written(C), NEW ls \in Seq(Seq(C)), NEW d, Begins(ls, d), NEW rs,
         Reformed(rs, ls, d, C)
  PROVE  SaysAllOf(rs, TableAt(ls, d))
<1> DEFINE t == TableAt(ls, d)
           e == Stops(ls, d)
           l == e - d + 2
<1>1. /\ IsTable(t, C) /\ t.from = d - 1 /\ t.to = e /\ DOMAIN t.cells = 1..l
      /\ Len(t.cells) = l /\ IsStop(ls, d, e)
  BY TableAtIs
<1>2. \A i \in (d - 1)..e : Cells(rs[i]) = TextSays(t, i - d + 2)
  BY ReformedLines
<1>3. d \in Nat /\ e \in Nat /\ d <= e
  <2>1. Len(ls) \in Nat /\ d \in 2..Len(ls)
    BY LenProperties DEF Begins
  <2> QED BY <1>1, <2>1 DEF IsStop
<1> HIDE DEF t, e
<1>4. ASSUME NEW i \in 1..l PROVE Cells(rs[t.from + i - 1]) = TextSays(t, i)
  BY <1>1, <1>3, <1>2
<1>5. AlignsOf(TextSays(t, 2)) = t.aligns
  BY <1>1, DelimiterSays
<1>6. ASSUME NEW i \in 1..l, i # 2
      PROVE  /\ Len(TextSays(t, i)) = Max({Len(t.cells[i]), Len(t.cells[1])})
             /\ \A k \in DOMAIN TextSays(t, i) :
                  TextSays(t, i)[k] = IF k \in DOMAIN t.cells[i] THEN t.cells[i][k] ELSE << >>
  <2>1. Len(TextSays(t, i)) = CellCount(t, i)
    BY <1>1, SaysIs
  <2>2. CellCount(t, i) = Max({Len(t.cells[i]), Len(t.cells[1])})
    <3> DEFINE S == {Len(t.cells[i]), Len(t.cells[1])}
    <3>1. t.cells[i] \in Seq(Seq(C)) /\ Len(t.cells[1]) = Len(t.aligns) /\ Len(t.aligns) \in Nat
      BY <1>1 DEF IsTable, AreCells
    <3>2. Len(t.cells[i]) \in Nat
      BY <3>1, LenProperties
    <3>3. S \subseteq Nat /\ CellCount(t, i) \in S /\ \A y \in S : y <= CellCount(t, i)
      BY <1>6, <3>1, <3>2 DEF CellCount
    <3> HIDE DEF S
    <3>4. Max(S) = CellCount(t, i)
      BY <3>3, MostIs
    <3> QED BY <3>4 DEF S
  <2>3. \A k \in DOMAIN TextSays(t, i) : TextSays(t, i)[k] = TextCell(t, i, k)
    BY <1>6 DEF TextSays, TextSaid
  <2> QED BY <2>1, <2>2, <2>3 DEF TextCell
<1>7. ASSUME NEW i \in DOMAIN t.cells
      PROVE  LET now == Cells(rs[t.from + i - 1])
             IN  IF i = 2 THEN AlignsOf(now) = t.aligns
                 ELSE /\ Len(now) = Max({Len(t.cells[i]), Len(t.cells[1])})
                      /\ \A k \in DOMAIN now :
                           now[k] = IF k \in DOMAIN t.cells[i] THEN t.cells[i][k] ELSE << >>
  <2> DEFINE now == Cells(rs[t.from + i - 1])
  <2>1. i \in 1..l /\ now = TextSays(t, i)
    BY <1>1, <1>4
  <2> HIDE DEF now
  <2>2. IF i = 2 THEN AlignsOf(now) = t.aligns
        ELSE /\ Len(now) = Max({Len(t.cells[i]), Len(t.cells[1])})
             /\ \A k \in DOMAIN now :
                  now[k] = IF k \in DOMAIN t.cells[i] THEN t.cells[i][k] ELSE << >>
    BY <1>5, <2>1, <1>6
  <2> QED BY <2>2 DEF now
<1>8. SaysAllOf(rs, t)
  BY Zenon, <1>7 DEF SaysAllOf
<1> QED BY <1>8 DEF t

\* StandsSquare of one table.
StandsOf(rs, u) ==
  LET pipe(i, k) == OnScreen(SubSeq(rs[i], 1, Walked(rs[i]).at[k]))
  IN  /\ \A i \in u.from..u.to, k \in 1..(Len(u.aligns) + 1) : pipe(i, k) = pipe(u.from, k)
      /\ Ragged(rs) \intersect (u.from..u.to)
           = {i \in u.from..u.to : Len(u.cells[i - u.from + 1]) > Len(u.aligns)}
      /\ Formatted(u) = SubSeq(rs, u.from, u.to)

\* Its rows that the linter reports.
RaggedOf(t) ==
  {i \in (t.from..t.to) \ {t.from + 1} : Len(t.cells[i - t.from + 1]) # Len(t.aligns)}

\* And it stands square.
LEMMA FormattedStands ==
  ASSUME NEW C, Written(C), NEW ls \in Seq(Seq(C)), NEW d, Begins(ls, d), NEW rs,
         Reformed(rs, ls, d, C), \A x : Begins(ls, x) => NoneInside(ls, x)
  PROVE  StandsOf(rs, TableAt(rs, d))
<1> DEFINE t == TableAt(ls, d)
           u == TableAt(rs, d)
           e == Stops(ls, d)
           b == d - 1
           l == e - d + 2
           m == Len(t.aligns)
           f == Formatted(t)
<1>1. /\ IsTable(t, C) /\ IsTable(u, C) /\ ReadBack(u, t) /\ u.from = t.from /\ u.to = t.to
  BY ReadAsItWas
<1>2. /\ t.from = b /\ t.to = e /\ DOMAIN t.cells = 1..l /\ Len(t.cells) = l /\ IsStop(ls, d, e)
  BY TableAtIs
<1>3. /\ d \in Nat /\ b \in Nat \ {0} /\ e \in Nat /\ d <= e /\ e <= Len(ls)
      /\ l \in Nat /\ b + l - 1 = e
  <2>1. Len(ls) \in Nat /\ d \in 2..Len(ls)
    BY LenProperties DEF Begins
  <2>2. e \in d..Len(ls)
    BY <1>2 DEF IsStop
  <2> HIDE DEF e
  <2> QED BY <2>1, <2>2
<1>4. /\ rs \in Seq(Seq(C)) /\ Len(rs) = Len(ls) /\ \A i \in b..e : rs[i] = f[i - b + 1]
  <2>1. /\ rs \in Seq(Seq(C)) /\ Len(rs) = Len(ls) /\ \A i \in (d - 1)..e : rs[i] = f[i - d + 2]
    BY DEF Reformed
  <2> HIDE DEF f
  <2>2. \A i \in b..e : i - b + 1 = i - d + 2
    BY <1>3
  <2> QED BY <2>1, <2>2
<1>5. f \in Seq(Seq(C)) /\ Len(f) = l
  BY <1>1, <1>2, FormattedRows
<1>6. /\ Begins(rs, d) /\ Stops(rs, d) = e
      /\ \A x : Begins(rs, x) /\ (\E i \in b..e : i \in (x - 1)..Stops(rs, x)) => x = d
  BY StillATable
<1> HIDE DEF t, u, e, b, f
<1>7. u.from = b /\ u.to = e /\ u.aligns = t.aligns /\ DOMAIN u.cells = 1..l
      /\ \A i \in 1..l : u.cells[i] = TextSays(t, i)
  BY <1>1, <1>2 DEF ReadBack
<1>8. m \in Nat
  BY <1>1 DEF IsTable
<1>9. ASSUME NEW i \in b..e, NEW k \in 1..(m + 1)
      PROVE  PipeAt(rs[i], k) = PipeAt(rs[b], k)
  <2> DEFINE j == i - b + 1
  <2>1. j \in 1..l /\ 1 \in 1..l /\ b \in b..e /\ b - b + 1 = 1
    BY <1>3
  <2>2. rs[i] = f[j] /\ rs[b] = f[1]
    BY <1>4, <2>1
  <2> HIDE DEF j, l
  <2>3. PipeAt(f[j], k) = PipeAt(f[1], k)
    BY <1>1, <1>2, <1>9, <2>1, PipesAgree DEF f
  <2> QED BY <2>2, <2>3
<1>10. Ragged(rs) \intersect (b..e) = {i \in b..e : Len(u.cells[i - b + 1]) > m}
  <2>1. \A i : i \in Ragged(rs) <=> \E v \in Tables(rs) : i \in RaggedOf(v)
    BY DEF Ragged, RaggedOf
  <2>2. \A v : v \in Tables(rs) <=> \E x : Begins(rs, x) /\ v = TableAt(rs, x)
    BY <1>4, TablesAre
  <2>3. ASSUME NEW i \in b..e PROVE i \in Ragged(rs) <=> i \in RaggedOf(u)
    <3>1. ASSUME NEW v \in Tables(rs), i \in RaggedOf(v) PROVE v = u
      BY <2>2, <3>1, <1>6 DEF TableAt, RaggedOf, u
    <3>2. u \in Tables(rs)
      BY <1>6, <2>2 DEF u
    <3> QED BY <2>1, <3>1, <3>2
  <2>4. ASSUME NEW i \in b..e PROVE i \in RaggedOf(u) <=> Len(u.cells[i - b + 1]) > m
    <3> DEFINE j == i - b + 1
    <3>1. j \in 1..l /\ (i = b + 1 <=> j = 2)
      BY <1>3
    <3>2. u.cells[j] = TextSays(t, j)
      BY <1>7, <3>1
    <3>3. /\ Len(TextSays(t, j)) = CellCount(t, j) /\ CellCount(t, j) \in Nat
          /\ CellCount(t, j) >= m
      BY <1>1, <1>2, <3>1, SaysIs
    <3>4. CellCount(t, 2) = m
      BY DEF CellCount
    <3>5. i \in RaggedOf(u) <=> i # b + 1 /\ Len(u.cells[j]) # m
      BY <1>7 DEF RaggedOf
    <3> HIDE DEF j, m
    <3> QED BY <1>8, <3>1, <3>2, <3>3, <3>4, <3>5 DEF j
  <2> QED BY <2>3, <2>4
<1>11. Formatted(u) = SubSeq(rs, b, e)
  <2>1. Formatted(u) = f
    BY <1>1, FormattedAgain DEF f
  <2> DEFINE p == SubSeq(rs, b, e)
  <2>2. /\ p \in Seq(Seq(C)) /\ Len(p) = e - b + 1
        /\ \A i \in 1..(e - b + 1) : p[i] = rs[b + i - 1]
    <3>1. b \in Nat \ {0} /\ e \in Nat /\ e <= Len(rs) /\ b <= e + 1
      BY <1>3, <1>4 DEF b
    <3> QED BY <1>4, <3>1, PartIs
  <2>3. ASSUME NEW i \in 1..l PROVE p[i] = f[i]
    <3> DEFINE j == b + i - 1
    <3>1. j \in b..e /\ j - b + 1 = i /\ i \in 1..(e - b + 1)
      BY <1>3
    <3>2. rs[j] = f[j - b + 1]
      BY <1>4, <3>1
    <3> HIDE DEF p
    <3> QED BY <2>2, <3>1, <3>2
  <2>4. e - b + 1 = l
    BY <1>3
  <2> HIDE DEF p, l
  <2>5. p = f
    BY <1>5, <2>2, <2>3, <2>4, SeqEqual
  <2> QED BY <2>1, <2>5 DEF p
<1>12. \A i \in u.from..u.to, k \in 1..(Len(u.aligns) + 1) :
         PipeAt(rs[i], k) = PipeAt(rs[u.from], k)
  BY <1>7, <1>9
<1>13. /\ Ragged(rs) \intersect (u.from..u.to)
            = {i \in u.from..u.to : Len(u.cells[i - u.from + 1]) > Len(u.aligns)}
       /\ Formatted(u) = SubSeq(rs, u.from, u.to)
  BY <1>7, <1>10, <1>11
<1>14. StandsOf(rs, u)
  BY Zenon, <1>12, <1>13 DEF StandsOf, PipeAt
<1> QED BY <1>14 DEF u

-----------------------------------------------------------------------------
(* Every document.                                                         *)

\* A text of some characters is one of more.
LEMMA AlsoOver ==
  ASSUME NEW A, NEW B, A \subseteq B, NEW ls \in Seq(Seq(A))
  PROVE  ls \in Seq(Seq(B))
<1>1. ASSUME NEW line \in Seq(A) PROVE line \in Seq(B)
  BY LenProperties, IsASeq
<1>2. Len(ls) \in Nat /\ ls \in [1..Len(ls) -> Seq(A)]
  BY LenProperties
<1>3. ls \in [1..Len(ls) -> Seq(B)]
  BY <1>1, <1>2
<1> QED BY <1>2, <1>3, IsASeq

\* The characters a draft has once a table of it was formatted.
Alphabet(ls) == CharsOf(ls) \union {Gap, Pipe, Dash, Colon}

\* What is assumed of a draft, in the form the lemmas have it.
LEMMA DraftIs ==
  ASSUME NEW ls \in TableDrafts
  PROVE  /\ Written(Alphabet(ls)) /\ ls \in Seq(Seq(Alphabet(ls)))
         /\ \A x : Begins(ls, x) => NoneInside(ls, x)
<1> DEFINE C == Alphabet(ls)
<1>1. Written(C)
  BY DEF Written, Alphabet
<1>2. ls \in Seq(Seq(C))
  BY TableDraftsAssumption, AlsoOver DEF Alphabet
<1> HIDE DEF C
<1>3. ASSUME NEW x, Begins(ls, x) PROVE NoneInside(ls, x)
  <2> DEFINE t == TableAt(ls, x)
             e == Stops(ls, x)
             l == e - x + 2
  <2>1. t \in Tables(ls)
    BY <1>2, <1>3, TablesAre
  <2>2. \A i \in 3..Len(t.cells) : ~IsDelimiter(t.cells[i])
    BY <2>1, TableDraftsAssumption
  <2>3. /\ Len(t.cells) = l /\ \A i \in 1..l : t.cells[i] = Cells(ls[x - 2 + i])
        /\ IsStop(ls, x, e)
    BY <1>2, <1>3, TableAtIs
  <2>4. x \in Nat /\ e \in Nat
    <3>1. Len(ls) \in Nat /\ x \in 2..Len(ls)
      BY <1>2, <1>3, LenProperties DEF Begins
    <3>2. e \in x..Len(ls)
      BY <2>3 DEF IsStop
    <3> HIDE DEF e
    <3> QED BY <3>1, <3>2
  <2> HIDE DEF t, e
  <2>5. ASSUME NEW i \in (x + 1)..e PROVE ~IsDelimiter(Cells(ls[i]))
    <3> DEFINE j == i - x + 2
    <3>1. j \in 3..l /\ j \in 1..l /\ x - 2 + j = i
      BY <2>4
    <3> HIDE DEF j, l
    <3> QED BY <2>2, <2>3, <3>1
  <2> QED BY <2>5 DEF NoneInside, e
<1> QED BY <1>1, <1>2, <1>3 DEF C

\* Nothing is formatted before the cursor is on a line, and then the table it is on, if
\* there is one.
TextInv ==
  /\ original \in TableDrafts
  /\ \/ cursor = 0 /\ rows = original
     \/ /\ cursor \in DOMAIN original
        /\ \/ rows = original /\ ~ \E t \in Tables(original) : Holds(t, cursor)
           \/ \E t \in Tables(original) : Holds(t, cursor) /\ rows = Spliced(original, t)

\* Formatting the table the cursor is on keeps that so.
LEMMA TextInductive == TextInv /\ [TableTextNext]_tableTextVars => TextInv'
<1> SUFFICES ASSUME TextInv, [TableTextNext]_tableTextVars
             PROVE  TextInv'
  OBVIOUS
<1>1. CASE UNCHANGED tableTextVars
  BY <1>1 DEF TextInv, tableTextVars
<1>2. ASSUME NEW line \in DOMAIN rows, Format(line) PROVE TextInv'
  <2>1. cursor = 0 /\ cursor' = line /\ original' = rows
    BY <1>2 DEF Format
  <2>2. rows = original /\ original \in TableDrafts
    BY DraftIs, LenProperties, <2>1 DEF TextInv
  <2>3. original' \in TableDrafts /\ cursor' \in DOMAIN original'
    BY <1>2, <2>1, <2>2
  <2>4. CASE UNCHANGED rows /\ ~ \E t \in Tables(rows) : Holds(t, line)
    BY Zenon, <2>1, <2>3, <2>4 DEF TextInv
  <2>5. ASSUME NEW t \in Tables(rows), Holds(t, line), rows' = Spliced(rows, t) PROVE TextInv'
    BY Zenon, <2>1, <2>3, <2>5 DEF TextInv
  <2> QED BY Zenon, <1>2, <2>4, <2>5 DEF Format, Spliced
<1> QED BY <1>1, <1>2 DEF TableTextNext

\* Where nothing was formatted, nothing is said.
LEMMA NothingSquared ==
  ASSUME original \in TableDrafts, rows = original,
         ~ \E t \in Tables(original) : Holds(t, cursor)
  PROVE  SquaresUp
<1>1. SaysTheSame
  BY DEF SaysTheSame
<1>2. StandsSquare
  BY Zenon DEF StandsSquare
<1> QED BY <1>1, <1>2 DEF SquaresUp

\* Where a table was, it is the only one the cursor is in, before and after.
LEMMA OneSquared ==
  ASSUME original \in TableDrafts, NEW t \in Tables(original), Holds(t, cursor),
         rows = Spliced(original, t), cursor \in DOMAIN original
  PROVE  SquaresUp
<1> DEFINE C == Alphabet(original)
           ls == original
           rs == rows
<1>1. Written(C) /\ ls \in Seq(Seq(C)) /\ \A x : Begins(ls, x) => NoneInside(ls, x)
  BY DraftIs
<1> HIDE DEF C
<1>2. PICK d : Begins(ls, d) /\ t = TableAt(ls, d)
  BY <1>1, TablesAre
<1>3. Reformed(rs, ls, d, C)
  BY <1>1, <1>2, SplicedIs
<1>4. t.from = d - 1 /\ t.to = Stops(ls, d)
  BY <1>2 DEF TableAt
<1>5. cursor \in Int /\ d \in Int /\ Stops(ls, d) \in Int
  <2>1. cursor \in 1..Len(ls) /\ Len(ls) \in Nat
    BY <1>1, LenProperties
  <2>2. d \in 2..Len(ls) /\ IsStop(ls, d, Stops(ls, d))
    BY <1>1, <1>2, TableAtIs DEF Begins
  <2> QED BY <2>1, <2>2 DEF IsStop
<1>6. cursor \in (d - 1)..Stops(ls, d)
  BY <1>4, <1>5 DEF Holds
<1>7. ASSUME NEW v \in Tables(ls), Holds(v, cursor) PROVE v = t
  <2>1. PICK x : Begins(ls, x) /\ v = TableAt(ls, x)
    BY <1>1, TablesAre
  <2>2. v.from = x - 1 /\ v.to = Stops(ls, x)
    BY <2>1 DEF TableAt
  <2>3. x \in Int /\ Stops(ls, x) \in Int
    <3>1. Len(ls) \in Nat
      BY <1>1, LenProperties
    <3>2. x \in 2..Len(ls) /\ IsStop(ls, x, Stops(ls, x))
      BY <1>1, <2>1, TableAtIs DEF Begins
    <3> QED BY <3>1, <3>2 DEF IsStop
  <2>4. cursor \in (x - 1)..Stops(ls, x)
    BY <1>5, <1>7, <2>2, <2>3 DEF Holds
  <2>5. NoneInside(ls, x) /\ NoneInside(ls, d)
    BY <1>1, <1>2, <2>1
  <2>6. x = d
    BY <1>1, <1>2, <1>6, <2>1, <2>4, <2>5, OneTableALine
  <2> QED BY <1>2, <2>1, <2>6
<1>8. ASSUME NEW v \in Tables(rs), Holds(v, cursor) PROVE v = TableAt(rs, d)
  <2>1. rs \in Seq(Seq(C))
    BY <1>3 DEF Reformed
  <2>2. PICK x : Begins(rs, x) /\ v = TableAt(rs, x)
    BY <2>1, TablesAre
  <2>3. v.from = x - 1 /\ v.to = Stops(rs, x)
    BY <2>2 DEF TableAt
  <2>4. x \in Int /\ Stops(rs, x) \in Int
    <3>1. Len(rs) \in Nat
      BY <2>1, LenProperties
    <3>2. x \in 2..Len(rs) /\ IsStop(rs, x, Stops(rs, x))
      BY <2>1, <2>2, TableAtIs DEF Begins
    <3> QED BY <3>1, <3>2 DEF IsStop
  <2>5. cursor \in (x - 1)..Stops(rs, x)
    BY <1>5, <1>8, <2>3, <2>4 DEF Holds
  <2>6. x = d
    BY <1>1, <1>2, <1>3, <1>6, <2>2, <2>5, StillATable
  <2> QED BY <2>2, <2>6
<1>9. SaysTheSame
  <2>1. ASSUME NEW i \in DOMAIN original, ~InFormatted(i) PROVE rows[i] = original[i]
    <3>1. i \in 1..Len(ls) /\ Len(ls) \in Nat
      BY <1>1, LenProperties
    <3>2. ~Holds(t, i)
      BY <2>1 DEF InFormatted
    <3>3. i \notin (d - 1)..Stops(ls, d)
      BY <1>4, <1>5, <3>1, <3>2 DEF Holds
    <3> QED BY <1>3, <3>1, <3>3 DEF Reformed
  <2>2. \A v \in Tables(original) : Holds(v, cursor) => SaysAllOf(rows, v)
    BY <1>1, <1>2, <1>3, FormattedSaysAll, <1>7
  <2> QED BY Zenon, <2>1, <2>2 DEF SaysTheSame, SaysAllOf
<1>10. StandsSquare
  <2>1. \A v \in Tables(rows) : Holds(v, cursor) => StandsOf(rows, v)
    BY <1>1, <1>2, <1>3, FormattedStands, <1>8
  <2> QED BY Zenon, <2>1 DEF StandsSquare, StandsOf
<1> QED BY <1>9, <1>10 DEF SquaresUp

\* Either way it squares up.
LEMMA TextInvSquares == TextInv => SquaresUp
<1> SUFFICES ASSUME TextInv
             PROVE  SquaresUp
  OBVIOUS
<1>1. original \in TableDrafts
  BY DEF TextInv
<1>2. CASE cursor = 0 /\ rows = original
  BY <1>1, DraftIs, TablesAre, LenProperties, <1>2, NothingSquared DEF TableAt, Begins, Holds
<1>3. CASE rows = original /\ ~ \E t \in Tables(original) : Holds(t, cursor)
  BY <1>1, <1>3, NothingSquared
<1>4. ASSUME cursor \in DOMAIN original, NEW t \in Tables(original), Holds(t, cursor),
             rows = Spliced(original, t)
      PROVE  SquaresUp
  BY <1>1, <1>4, OneSquared
<1> QED BY Zenon, <1>2, <1>3, <1>4 DEF TextInv

\* The table under the cursor, formatted, says what it said and stands square, whatever
\* the document, but for tables that begin on the line of a list marker, which TablesOf
\* does not know as such (format(), split_cells(), tables() of lint.rs).
THEOREM TablesAlwaysSquareUp == TableTextSpec => []SquaresUp
<1>1. TableTextInit => TextInv
  BY DEF TableTextInit, TextInv
<1>2. TextInv /\ [TableTextNext]_tableTextVars => TextInv'
  BY TextInductive
<1>3. TextInv => SquaresUp
  BY TextInvSquares
<1> QED BY <1>1, <1>2, <1>3, PTL DEF TableTextSpec
=============================================================================
