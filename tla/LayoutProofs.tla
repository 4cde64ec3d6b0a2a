---------------------------- MODULE LayoutProofs ----------------------------
(***************************************************************************)
(* What the two renderers lay out.                                         *)
(*                                                                         *)
(* The page of a document, whatever the document (HtmlWalk): its source    *)
(* lines ascend, its references and notes lead to one another, and the     *)
(* blocks that an edit of it is pushed by are its elements.                *)
(*                                                                         *)
(* A step of the walk writes a text where it is, opens or closes a         *)
(* container, sets the text aside for that of a heading or a note, or      *)
(* brings it back; there are many actions and few of these, so the actions *)
(* are put into kinds first (LeafOf, EnterOf, ApartOf, CloseOf, ...) and   *)
(* the invariant is shown of each kind.                                    *)
(*                                                                         *)
(* The invariant, HtmlInv, is about every text there is while the walk     *)
(* goes on: the one being written, those that are held by the containers,  *)
(* and those of the notes. Their marks ascend (LinesInv); no id is in two  *)
(* of them or twice in one, and the ids are those of the references        *)
(* counted so far (IdsOnce, IdsKept); and each is as deep as the           *)
(* containers between it and the one it is held by (DepthInv), so that the *)
(* pieces of the page end where nothing is open.                           *)
(*                                                                         *)
(* And the tables of the preview, whatever their cells (TableLayout): the  *)
(* rows of each are equally wide, with their dividers in the same columns, *)
(* and its narrow columns keep what they need. GridInv says that until the *)
(* widths are settled a column has what it would like (Sharing), and that  *)
(* what is drawn is as wide as the columns and three more for each         *)
(* (AllEven). What a fold computes is had by walking along it: after       *)
(* k elements it has the value that the lemma (...Walk) says of k, from    *)
(* which the properties of texts follow step by step (StepByStep). On the  *)
(* way, no row of a paragraph is wider than its column (WrapFits).         *)
(***************************************************************************)
EXTENDS HtmlWalk, TableLayout, SequenceLemmas

-----------------------------------------------------------------------------
(* What the invariant is made of.                                          *)

HtmlNames ==
  {"hr", "div", "words", "figure", "figcaption", "pre", "details", "table", "thead", "tr", "th",
   "tbody", "td", "p", "blockquote", "list", "li", "input", "dl", "dt", "dd", "h", "a", "sup",
   "section", "h2", "ol", "em", "img"} \union RawNames
NoteMarks  == {"fn", "fnref"} \X Nat
MarkupItems == [is : {"open", "close", "alone"}, name : HtmlNames, line : Nat,
                id : {<< >>} \union NoteMarks, to : {<< >>, <<"elsewhere">>} \union NoteMarks]

Containers == [kind : {"p", "blockquote", "list", "li", "dl", "dt", "dd", "h", "note"},
               from : Nat, line : Nat, label : Labels \union {""}, held : Seq(MarkupItems)]
FootnotesOf == [label : Labels, html : Seq(MarkupItems), defined : BOOLEAN, refs : Nat]

\* What may have gone out of the document's own HTML: a block of it, and in a line a piece of
\* it that does not close what it opens, or closes what it does not open.
RawSorts == {"block", "loose"}

HtmlTyped ==
  /\ markup \in [out : Seq(MarkupItems), raw : SUBSET RawSorts]
  /\ within \in Seq(Containers)
  /\ footnotes \in Seq(FootnotesOf)
  /\ pieces \in Seq([first : Nat, last : Nat, line : Nat])
  /\ line \in Nat

\* The marks of a text ascend, and are of lines before this one.
Ascends(s, before) ==
  /\ \A i \in 1..Len(s) : s[i].line > 0 => s[i].line < before
  /\ \A i, j \in 1..Len(s) : i < j /\ s[i].line > 0 /\ s[j].line > 0 => s[i].line <= s[j].line

Unmarked(s) == \A i \in 1..Len(s) : s[i].line = 0

LinesInv ==
  /\ Ascends(markup.out, line)
  /\ \A k \in 1..Len(within) : Ascends(within[k].held, within[k].line) /\ within[k].line < line
  /\ Within = "h" => Unmarked(markup.out)
  /\ \A k \in 1..(Len(within) - 1) : within[k].kind # "h"
  /\ \A i \in 1..Len(footnotes) : Unmarked(footnotes[i].html)

Ids(s)  == {s[i].id : i \in 1..Len(s)} \ {<< >>}
Tos(s)  == {s[i].to : i \in 1..Len(s)} \ {<< >>, <<"elsewhere">>}
Once(s) == \A i, j \in 1..Len(s) : s[i].id = s[j].id /\ s[i].id # << >> => i = j

Apart(s, t) == Ids(s) \cap Ids(t) = {}

NotesLabelled ==
  /\ \A i, j \in 1..Len(footnotes) : footnotes[i].label = footnotes[j].label => i = j
  /\ \A i \in 1..Len(footnotes) : ~footnotes[i].defined => footnotes[i].html = << >>
  /\ \A k \in 1..Len(within) : within[k].kind \notin {"h", "note"} => within[k].held = << >>
  /\ \A k \in 1..Len(within) : within[k].kind = "note" =>
       /\ within[k].label \in Labels
       /\ \A i \in 1..Len(footnotes) : footnotes[i].label = within[k].label => ~footnotes[i].defined
       /\ \A j \in 1..Len(within) :
            within[j].kind = "note" /\ within[j].label = within[k].label => j = k

IdsOnce ==
  /\ Once(markup.out)
  /\ \A k \in 1..Len(within) : Once(within[k].held) /\ Apart(within[k].held, markup.out)
  /\ \A j, k \in 1..Len(within) : j # k => Apart(within[j].held, within[k].held)
  /\ \A i \in 1..Len(footnotes) : Once(footnotes[i].html) /\ Apart(footnotes[i].html, markup.out)
  /\ \A i \in 1..Len(footnotes), k \in 1..Len(within) : Apart(footnotes[i].html, within[k].held)
  /\ \A i, j \in 1..Len(footnotes) : i # j => Apart(footnotes[i].html, footnotes[j].html)

IdsIn(o, w, f) == Ids(o) \union (UNION {Ids(w[k].held) : k \in 1..Len(w)})
                         \union (UNION {Ids(f[i].html) : i \in 1..Len(f)})
AllIds == IdsIn(markup.out, within, footnotes)

\* The ids of the references that can be come back to.
RefIds(f) == {<<"fnref", i>> : i \in {n \in 1..Len(f) : f[n].refs > 0}}

ToNotes(s, n) == Tos(s) \subseteq {<<"fn", i>> : i \in 1..n}
TosKept ==
  /\ ToNotes(markup.out, Len(footnotes))
  /\ \A k \in 1..Len(within) : ToNotes(within[k].held, Len(footnotes))
  /\ \A i \in 1..Len(footnotes) : ToNotes(footnotes[i].html, Len(footnotes))

IdsKept == AllIds = RefIds(footnotes) /\ TosKept

\* The depth at the end of a text, which closes nothing it does not open.
Rises(s, d) == Depth(s, Len(s)) = d /\ \A m \in 0..Len(s) : Depth(s, m) >= 0

\* A text that is written apart.
Captor(c) == c.kind \in {"h", "note"}

\* The place of an element of the page in the text: it is whole there.
IsWholeIn(s, p) ==
  /\ 1 <= p.first /\ p.first <= p.last
  /\ Depth(s, p.first - 1) = 0 /\ Depth(s, p.last) = 0
  /\ \A m \in p.first..(p.last - 1) : Depth(s, m) > 0

\* The pieces follow one another to the n-th item of the text.
Tiled(s, ps, n) ==
  /\ \A i \in 1..Len(ps) : /\ IsWholeIn(s, ps[i]) /\ ps[i].last <= n
                           /\ ps[i].first = IF i = 1 THEN 1 ELSE ps[i - 1].last + 1
  /\ n = IF ps = << >> THEN 0 ELSE ps[Len(ps)].last

\* The text of the page itself, d containers deep.
MainFits(s, d, ps, w) ==
  IF d = 0 THEN Tiled(s, ps, Len(s))
  ELSE /\ Tiled(s, ps, w[1].from) /\ w[1].from < Len(s)
       /\ \A m \in (w[1].from + 1)..Len(s) : Depth(s, m) > 0

\* The text of a container e goes on, or is held, in that of the last container before it
\* that has a text of its own; if there is none, in that of the page.
Over(w, o, e) ==
  o \in 0..(e - 1) /\ (o > 0 => Captor(w[o])) /\ \A k \in (o + 1)..(e - 1) : ~Captor(w[k])
Layer(s, o, e, ps, w) == Rises(s, e - 1 - o) /\ (o = 0 => MainFits(s, e - 1, ps, w))
Placed(s, e, ps, w)   == \A o \in 0..(e - 1) : Over(w, o, e) => Layer(s, o, e, ps, w)

DepthInv ==
  /\ Placed(markup.out, Len(within) + 1, pieces, within)
  /\ \A e \in 1..Len(within) : Captor(within[e]) =>
       /\ Placed(within[e].held, e, pieces, within)
       /\ within[e].from = Len(within[e].held)
  /\ \A i \in 1..Len(footnotes) : Rises(footnotes[i].html, 0)

HtmlWalking == LinesInv /\ NotesLabelled /\ IdsOnce /\ IdsKept /\ (markup.raw = {} => DepthInv)

HtmlInv == HtmlTyped /\ (~htmlEnded => HtmlWalking) /\ PageHangsTogether /\ OneElementEach

-----------------------------------------------------------------------------
(* How deep a text is.                                                           *)

Rise(item) == IF item.is = "open" THEN 1 ELSE IF item.is = "close" THEN -1 ELSE 0

LEMMA NoDepth ==
  ASSUME NEW s
  PROVE  Depth(s, 0) = 0
<1>1. 1..0 = {}
  OBVIOUS
<1>2. {i \in 1..0 : s[i].is = "open"} = {} /\ {i \in 1..0 : s[i].is = "close"} = {}
  BY <1>1
<1> QED BY <1>2, FS_EmptySet DEF Depth

\* An item takes the depth up, down, or leaves it.
LEMMA DepthStep ==
  ASSUME NEW s, NEW n \in Nat
  PROVE  Depth(s, n) \in Int /\ Depth(s, n + 1) = Depth(s, n) + Rise(s[n + 1])
<1> DEFINE Of(m, is) == {i \in 1..m : s[i].is = is}
<1>1. ASSUME NEW is
      PROVE  /\ IsFiniteSet(Of(n, is)) /\ Cardinality(Of(n, is)) \in Nat
             /\ Cardinality(Of(n + 1, is)) =
                  Cardinality(Of(n, is)) + IF s[n + 1].is = is THEN 1 ELSE 0
  <2>1. IsFiniteSet(Of(n, is)) /\ Cardinality(Of(n, is)) \in Nat
    <3>1. IsFiniteSet(1..n)
      BY FS_Interval
    <3>2. Of(n, is) \in SUBSET (1..n)
      OBVIOUS
    <3> QED BY <3>1, <3>2, FS_Subset, FS_CardinalityType
  <2>2. CASE s[n + 1].is = is
    <3>1. Of(n + 1, is) = Of(n, is) \cup {n + 1} /\ n + 1 \notin Of(n, is)
      BY <2>2
    <3>2. Cardinality(Of(n, is) \cup {n + 1}) = Cardinality(Of(n, is)) + 1
      BY <2>1, <3>1, FS_AddElement
    <3> HIDE DEF Of
    <3> QED BY <2>1, <2>2, <3>1, <3>2
  <2>3. CASE s[n + 1].is # is
    BY <2>3, <2>1
  <2> QED BY <2>1, <2>2, <2>3
<1>2. \A m : Depth(s, m) = Cardinality(Of(m, "open")) - Cardinality(Of(m, "close"))
  BY DEF Depth
<1> HIDE DEF Of
<1>3. "open" # "close"
  OBVIOUS
<1> QED BY <1>1, <1>2, <1>3 DEF Rise

\* The first of a text open and close as another does further on.
Alike(t, l, s, k) == \A i \in 1..l : t[i].is = s[k + i].is

\* Where a text has what another has, it goes up and down as that does.
LEMMA DepthShift ==
  ASSUME NEW s, NEW t, NEW k \in Nat, NEW l \in Nat, Alike(t, l, s, k)
  PROVE  \A m \in 0..l : Depth(s, k + m) = Depth(s, k) + Depth(t, m)
<1> DEFINE Bad == {m \in 0..l : Depth(s, k + m) # Depth(s, k) + Depth(t, m)}
<1>1. ASSUME Bad # {} PROVE FALSE
  <2>1. PICK m \in Bad : \A j \in Bad : m <= j
    <3>1. Bad \in SUBSET Nat
      OBVIOUS
    <3> HIDE DEF Bad
    <3> QED BY <1>1, <3>1, NatLeast
  <2>2. m \in 0..l /\ Depth(s, k + m) # Depth(s, k) + Depth(t, m)
    BY <2>1
  <2>3. Depth(s, k) \in Int
    BY DepthStep
  <2>4. CASE m = 0
    BY <2>2, <2>3, <2>4, NoDepth
  <2>5. CASE m > 0
    <3>1. m - 1 \in Nat /\ m - 1 \in 0..l /\ ~ (m <= m - 1) /\ m \in 1..l
          /\ (m - 1) + 1 = m /\ k + (m - 1) \in Nat /\ (k + (m - 1)) + 1 = k + m
      BY <2>2, <2>5
    <3>2. Depth(s, k + (m - 1)) = Depth(s, k) + Depth(t, m - 1)
      BY <2>1, <3>1
    <3>3. /\ Depth(t, m) = Depth(t, m - 1) + Rise(t[m]) /\ Depth(t, m - 1) \in Int
          /\ Depth(s, k + m) = Depth(s, k + (m - 1)) + Rise(s[k + m])
      BY <3>1, DepthStep
    <3>4. Rise(t[m]) = Rise(s[k + m]) /\ Rise(t[m]) \in Int
      BY <3>1 DEF Rise, Alike
    <3> QED BY <2>2, <2>3, <3>2, <3>3, <3>4
  <2> QED BY <2>2, <2>4, <2>5
<1> QED BY <1>1

\* The depth of what is the same so far is the same.
LEMMA DepthSame ==
  ASSUME NEW s, NEW t, NEW l \in Nat, \A i \in 1..l : t[i].is = s[i].is
  PROVE  \A m \in 0..l : Depth(t, m) = Depth(s, m)
<1>1. \A m \in 0..l : Depth(s, 0 + m) = Depth(s, 0) + Depth(t, m)
  <2> DEFINE k == 0
  <2>1. k \in Nat /\ Alike(t, l, s, k)
    BY DEF Alike
  <2> HIDE DEF k
  <2>2. \A m \in 0..l : Depth(s, k + m) = Depth(s, k) + Depth(t, m)
    BY <2>1, DepthShift
  <2> QED BY <2>2 DEF k
<1>2. \A m \in 0..l : 0 + m = m /\ Depth(t, m) \in Int
  BY DepthStep
<1> QED BY <1>1, <1>2, NoDepth

\* A text and another after it.
Joined(s, t, st) ==
  /\ Len(st) = Len(s) + Len(t)
  /\ \A i \in 1..Len(s) : st[i] = s[i]
  /\ \A i \in 1..Len(t) : st[Len(s) + i] = t[i]

LEMMA JoinedAre ==
  ASSUME NEW X, NEW s \in Seq(X), NEW t \in Seq(X)
  PROVE  s \o t \in Seq(X) /\ Joined(s, t, s \o t) /\ Len(s) \in Nat /\ Len(t) \in Nat
<1>1. Len(s) \in Nat /\ Len(t) \in Nat
  BY LenProperties
<1>2. /\ s \o t \in Seq(X) /\ Len(s \o t) = Len(s) + Len(t)
      /\ \A i \in 1..(Len(s) + Len(t)) :
           (s \o t)[i] = IF i <= Len(s) THEN s[i] ELSE t[i - Len(s)]
  BY ConcatProperties
<1>3. \A i \in 1..Len(s) : (s \o t)[i] = s[i]
  BY <1>1, <1>2
<1>4. ASSUME NEW i \in 1..Len(t) PROVE (s \o t)[Len(s) + i] = t[i]
  BY <1>1, <1>2
<1> QED BY <1>1, <1>2, <1>3, <1>4 DEF Joined

\* Their depths add up.
Sums(s, t, st) ==
  /\ \A m \in 0..Len(s) : Depth(st, m) = Depth(s, m)
  /\ \A m \in 0..Len(t) : Depth(st, Len(s) + m) = Depth(s, Len(s)) + Depth(t, m)
  /\ \A m \in Len(s)..Len(st) : Depth(st, m) = Depth(s, Len(s)) + Depth(t, m - Len(s))

LEMMA DepthJoined ==
  ASSUME NEW s, NEW t, NEW st, Joined(s, t, st), Len(s) \in Nat, Len(t) \in Nat
  PROVE  Sums(s, t, st)
<1>1. \A m \in 0..Len(s) : Depth(st, m) = Depth(s, m)
  BY DepthSame DEF Joined
<1>2. \A m \in 0..Len(t) : Depth(st, Len(s) + m) = Depth(st, Len(s)) + Depth(t, m)
  <2>1. Alike(t, Len(t), st, Len(s))
    BY DEF Joined, Alike
  <2> QED BY <2>1, DepthShift
<1>3. ASSUME NEW m \in Len(s)..Len(st)
      PROVE  Depth(st, m) = Depth(s, Len(s)) + Depth(t, m - Len(s))
  BY <1>1, <1>2 DEF Joined
<1> QED BY <1>1, <1>2, <1>3 DEF Sums

\* A text that goes on from depth a without closing more than that.
GoesOn(t, a, b) == Depth(t, Len(t)) = b /\ \A m \in 0..Len(t) : a + Depth(t, m) >= 0

LEMMA RisesOn ==
  ASSUME NEW X, NEW s \in Seq(X), NEW t \in Seq(X), NEW a \in Int, NEW b \in Int,
         Rises(s, a), GoesOn(t, a, b)
  PROVE  Rises(s \o t, a + b)
<1> DEFINE st == s \o t
<1>1. Joined(s, t, st) /\ Len(s) \in Nat /\ Len(t) \in Nat
  BY JoinedAre
<1> HIDE DEF st
<1>2. /\ \A m \in 0..Len(s) : Depth(st, m) = Depth(s, m)
      /\ \A m \in 0..Len(t) : Depth(st, Len(s) + m) = a + Depth(t, m)
  BY <1>1, DepthJoined DEF Sums, Rises
<1>3. Len(st) = Len(s) + Len(t) /\ Len(t) \in 0..Len(t)
  BY <1>1 DEF Joined
<1>4. Depth(st, Len(st)) = a + b
  BY <1>2, <1>3 DEF GoesOn
<1>5. ASSUME NEW m \in 0..Len(st) PROVE Depth(st, m) >= 0
  <2>1. CASE m <= Len(s)
    BY <1>1, <1>2, <2>1 DEF Rises
  <2>2. CASE m > Len(s)
    <3>1. m - Len(s) \in 0..Len(t) /\ Len(s) + (m - Len(s)) = m
      BY <1>1, <1>3, <2>2
    <3> QED BY <1>2, <3>1 DEF GoesOn
  <2> QED BY <1>1, <1>3, <2>1, <2>2
<1> QED BY <1>4, <1>5 DEF Rises, st

Closed(s) == Rises(s, 0)

\* One element: open until its end.
Whole(s) == Len(s) > 0 /\ Depth(s, Len(s)) = 0 /\ \A m \in 1..(Len(s) - 1) : Depth(s, m) > 0

LEMMA WholeIsClosed ==
  ASSUME NEW X, NEW s \in Seq(X), Whole(s)
  PROVE  Closed(s)
<1>1. Len(s) \in Nat
  BY LenProperties
<1>2. \A m \in 0..Len(s) : m = 0 \/ m = Len(s) \/ m \in 1..(Len(s) - 1)
  BY <1>1
<1>3. \A m \in 0..Len(s) : Depth(s, m) \in Int
  BY DepthStep
<1> QED BY <1>2, <1>3, NoDepth DEF Whole, Closed, Rises

LEMMA ClosedJoined ==
  ASSUME NEW X, NEW s \in Seq(X), NEW t \in Seq(X), Closed(s), Closed(t)
  PROVE  Closed(s \o t)
<1>1. GoesOn(t, 0, 0)
  BY DepthStep DEF Closed, Rises, GoesOn
<1>2. Rises(s \o t, 0 + 0)
  BY <1>1, RisesOn DEF Closed
<1> QED BY <1>2 DEF Closed

LEMMA EmptyIsClosed ==
  Closed(<< >>)
<1>1. Len(<< >>) = 0 /\ \A m \in 0..0 : m = 0
  OBVIOUS
<1>2. Depth(<< >>, 0) = 0
  BY NoDepth
<1> HIDE DEF Depth
<1> QED BY <1>1, <1>2 DEF Closed, Rises

LEMMA OneItem ==
  ASSUME NEW s, Len(s) = 1
  PROVE  Depth(s, 0) = 0 /\ Depth(s, 1) = Rise(s[1])
<1>1. Depth(s, 0 + 1) = Depth(s, 0) + Rise(s[0 + 1])
  BY DepthStep
<1>2. Rise(s[1]) \in Int
  BY DEF Rise
<1> QED BY <1>1, <1>2, NoDepth

\* What stands between an opening tag and a closing one.
LEMMA EnclosedIsWhole ==
  ASSUME NEW X, NEW a \in Seq(X), NEW s \in Seq(X), NEW z \in Seq(X),
         Len(a) = 1, a[1].is = "open", Len(z) = 1, z[1].is = "close", Closed(s)
  PROVE  Whole(a \o s \o z)
<1> DEFINE as  == a \o s
           asz == as \o z
<1>1. as \in Seq(X) /\ Joined(a, s, as) /\ Len(s) \in Nat
  BY JoinedAre
<1>2. Joined(as, z, asz) /\ Len(as) \in Nat
  BY <1>1, JoinedAre
<1> HIDE DEF as, asz
<1>3. Len(as) = 1 + Len(s) /\ Len(asz) = 2 + Len(s)
  BY <1>1, <1>2 DEF Joined
<1>4. Rise(a[1]) = 1 /\ Rise(z[1]) = -1
  BY DEF Rise
<1>5. \A m \in 1..(Len(s) + 1) : /\ Depth(as, m) = 1 + Depth(s, m - 1)
                                 /\ m - 1 \in 0..Len(s)
  <2>1. Depth(a, 1) = 1
    BY <1>4, OneItem
  <2>2. Len(a) \in Nat
    OBVIOUS
  <2>3. \A m \in Len(a)..Len(as) : Depth(as, m) = Depth(a, Len(a)) + Depth(s, m - Len(a))
    <3>1. Sums(a, s, as)
      BY <1>1, <2>2, DepthJoined
    <3> QED BY <3>1 DEF Sums
  <2>4. \A m \in 1..(Len(s) + 1) : m \in 1..(1 + Len(s)) /\ m - 1 \in 0..Len(s)
    BY <1>1
  <2> QED BY <1>3, <2>1, <2>3, <2>4
<1>6. \A m \in 0..Len(s) : Depth(s, m) >= 0 /\ Depth(s, m) \in Int
  BY DepthStep DEF Closed, Rises
<1>7. ASSUME NEW m \in 1..(Len(s) + 1) PROVE Depth(as, m) > 0
  <2> DEFINE k == m - 1
  <2>1. Depth(as, m) = 1 + Depth(s, k) /\ k \in 0..Len(s)
    BY <1>5
  <2> HIDE DEF k
  <2> QED BY <1>6, <2>1
<1>8. Depth(as, Len(s) + 1) = 1
  <2> DEFINE k == Len(s) + 1
  <2>1. k \in 1..(Len(s) + 1) /\ k - 1 = Len(s)
    BY <1>1
  <2> HIDE DEF k
  <2>2. Depth(as, k) = 1 + Depth(s, Len(s))
    BY <1>5, <2>1
  <2>3. Depth(s, Len(s)) = 0
    BY DEF Closed, Rises
  <2>4. Depth(as, k) = 1
    BY <2>2, <2>3
  <2> QED BY <2>4 DEF k
<1>9. /\ \A m \in 0..(Len(s) + 1) : Depth(asz, m) = Depth(as, m)
      /\ Depth(asz, Len(s) + 2) = Depth(as, Len(s) + 1) + (-1)
  <2>1. Depth(z, 1) = -1 /\ Len(z) \in Nat
    BY <1>4, OneItem
  <2>2. /\ \A m \in 0..Len(as) : Depth(asz, m) = Depth(as, m)
        /\ \A m \in Len(as)..Len(asz) : Depth(asz, m) = Depth(as, Len(as)) + Depth(z, m - Len(as))
    <3>1. Sums(as, z, asz)
      BY <1>2, <2>1, DepthJoined
    <3> QED BY <3>1 DEF Sums
  <2>3. Len(s) + 2 \in Len(as)..Len(asz) /\ (Len(s) + 2) - Len(as) = 1 /\ Len(as) = Len(s) + 1
    BY <1>1, <1>3
  <2> QED BY <2>1, <2>2, <2>3
<1>10. \A m \in 1..(Len(asz) - 1) : m \in 1..(Len(s) + 1) /\ m \in 0..(Len(s) + 1)
  BY <1>1, <1>3
<1>11. Len(asz) = Len(s) + 2 /\ Depth(asz, Len(asz)) = 0
  <2>1. Len(asz) = Len(s) + 2
    BY <1>1, <1>3
  <2>2. Depth(asz, Len(s) + 2) = 1 + (-1)
    BY <1>1, <1>8, <1>9
  <2> QED BY <2>1, <2>2
<1> QED BY <1>1, <1>7, <1>9, <1>10, <1>11 DEF Whole, asz, as

-----------------------------------------------------------------------------
(* What is written, piece by piece.                                              *)

\* A text with no ids and no links but to elsewhere, with marks of one line at most.
Plain(t, n) ==
  /\ t \in Seq(MarkupItems)
  /\ \A i \in 1..Len(t) : /\ t[i].line \in {0, n} /\ t[i].id = << >>
                          /\ t[i].to \in {<< >>, <<"elsewhere">>}

LEMMA OneInSeq ==
  ASSUME NEW X, NEW x \in X
  PROVE  << x >> \in Seq(X) /\ Len(<< x >>) = 1 /\ << x >>[1] = x
OBVIOUS

LEMMA PlainOne ==
  ASSUME NEW x \in MarkupItems, NEW n \in Nat,
         x.line \in {0, n}, x.id = << >>, x.to \in {<< >>, <<"elsewhere">>}
  PROVE  Plain(<< x >>, n) /\ Len(<< x >>) = 1 /\ << x >>[1] = x
<1>1. << x >> \in Seq(MarkupItems) /\ Len(<< x >>) = 1 /\ << x >>[1] = x
  BY OneInSeq
<1>2. \A i \in 1..1 : i = 1
  OBVIOUS
<1> HIDE DEF MarkupItems
<1> QED BY <1>1, <1>2 DEF Plain

\* One item that opens, closes, or does neither.
Single(t, is, n) == Plain(t, n) /\ Len(t) = 1 /\ t[1].is = is

LEMMA TagIs ==
  ASSUME NEW name \in HtmlNames, NEW at \in Nat
  PROVE  /\ Single(Tag(name, at), "open", at) /\ Single(Alone(name, at), "alone", at)
         /\ Single(EndTag(name), "close", 0)
<1> DEFINE x(is, n) == [is |-> is, name |-> name, line |-> n, id |-> << >>, to |-> << >>]
<1>1. ASSUME NEW is \in {"open", "close", "alone"}, NEW n \in Nat
      PROVE  Single(<< x(is, n) >>, is, n)
  BY PlainOne DEF MarkupItems, Single
<1>2. /\ Tag(name, at) = << x("open", at) >> /\ Alone(name, at) = << x("alone", at) >>
      /\ EndTag(name) = << x("close", 0) >>
  BY DEF Tag, Alone, EndTag
<1> HIDE DEF x
<1> QED BY <1>1, <1>2

LEMMA PlainJoined ==
  ASSUME NEW n \in Nat, NEW s, NEW t, Plain(s, n), Plain(t, n)
  PROVE  Plain(s \o t, n)
<1>1. s \in Seq(MarkupItems) /\ t \in Seq(MarkupItems)
  BY DEF Plain
<1>2. /\ s \o t \in Seq(MarkupItems) /\ Joined(s, t, s \o t)
      /\ Len(s) \in Nat /\ Len(t) \in Nat
  BY <1>1, JoinedAre
<1> DEFINE st == s \o t
<1>3. ASSUME NEW i \in 1..Len(st)
      PROVE  \/ i \in 1..Len(s) /\ st[i] = s[i]
             \/ i - Len(s) \in 1..Len(t) /\ st[i] = t[i - Len(s)]
  BY <1>2 DEF Joined, st
<1>4. st \in Seq(MarkupItems)
  BY <1>2
<1> HIDE DEF st
<1>5. Plain(st, n)
  BY <1>3, <1>4 DEF Plain
<1> QED BY <1>5 DEF st

LEMMA PlainUnmarked ==
  ASSUME NEW n \in Nat, NEW t, Plain(t, 0)
  PROVE  Plain(t, n)
BY DEF Plain

LEMMA ElementIs ==
  ASSUME NEW name \in HtmlNames, NEW at \in Nat, NEW inner, Plain(inner, 0), Closed(inner)
  PROVE  Plain(Element(name, at, inner), at) /\ Whole(Element(name, at, inner))
<1> DEFINE a == Tag(name, at)
           z == EndTag(name)
<1>1. Single(a, "open", at) /\ Single(z, "close", 0)
  BY TagIs
<1>2. Element(name, at, inner) = a \o inner \o z
  BY DEF Element
<1> HIDE DEF a, z
<1>3. Plain(a, at) /\ Plain(inner, at) /\ Plain(z, at)
  BY <1>1, PlainUnmarked DEF Single
<1>4. Plain(a \o inner, at)
  BY <1>3, PlainJoined
<1>5. Plain(a \o inner \o z, at)
  BY <1>3, <1>4, PlainJoined
<1>6. Whole(a \o inner \o z)
  BY <1>1, <1>3, EnclosedIsWhole DEF Single, Plain
<1> QED BY <1>2, <1>5, <1>6

LEMMA AloneIs ==
  ASSUME NEW name \in HtmlNames, NEW at \in Nat
  PROVE  Plain(Alone(name, at), at) /\ Whole(Alone(name, at))
<1> DEFINE t == Alone(name, at)
<1>1. Single(t, "alone", at)
  BY TagIs
<1> HIDE DEF t
<1>2. Depth(t, 1) = 0
  BY <1>1, OneItem DEF Single, Rise
<1>3. Len(t) > 0 /\ 1..(Len(t) - 1) = {}
  BY <1>1 DEF Single
<1>4. Whole(t)
  BY <1>1, <1>2, <1>3 DEF Whole, Single
<1> QED BY <1>1, <1>4 DEF Single, t

\* A text that may go where the walk is, marked with one line at most.
Piece(t, n) == Plain(t, n) /\ Closed(t)

LEMMA PieceOfElement ==
  ASSUME NEW name \in HtmlNames, NEW at \in Nat, NEW inner, Piece(inner, 0)
  PROVE  Piece(Element(name, at, inner), at) /\ Whole(Element(name, at, inner))
<1>1. Plain(Element(name, at, inner), at) /\ Whole(Element(name, at, inner))
  BY ElementIs DEF Piece
<1> QED BY <1>1, WholeIsClosed DEF Piece, Plain

LEMMA PieceAlone ==
  ASSUME NEW name \in HtmlNames, NEW at \in Nat
  PROVE  Piece(Alone(name, at), at) /\ Whole(Alone(name, at))
<1>1. Plain(Alone(name, at), at) /\ Whole(Alone(name, at))
  BY AloneIs
<1> QED BY <1>1, WholeIsClosed DEF Piece, Plain

LEMMA PieceEmpty ==
  ASSUME NEW n \in Nat
  PROVE  Piece(<< >>, n)
<1>1. << >> \in Seq(MarkupItems) /\ Len(<< >>) = 0 /\ 1..0 = {}
  OBVIOUS
<1>2. Plain(<< >>, n)
  BY <1>1 DEF Plain
<1> QED BY <1>2, EmptyIsClosed DEF Piece

LEMMA PieceJoined ==
  ASSUME NEW n \in Nat, NEW s, NEW t, Piece(s, n), Piece(t, n)
  PROVE  Piece(s \o t, n)
<1>1. Plain(s \o t, n)
  BY PlainJoined DEF Piece
<1>2. Closed(s \o t)
  BY ClosedJoined DEF Piece, Plain
<1> QED BY <1>1, <1>2 DEF Piece

LEMMA PieceOfWords ==
  Piece(Words, 0) /\ Whole(Words)
<1>1. "words" \in HtmlNames
  BY DEF HtmlNames
<1> QED BY <1>1, PieceAlone DEF Words

-----------------------------------------------------------------------------
(* The marks, the ids and the links of a text and another after it.              *)

\* Every item of the two is of one of them.
Parted(s, t, st) ==
  /\ \A i \in 1..Len(st) : \/ i \in 1..Len(s) /\ st[i] = s[i]
                          \/ \E k \in 1..Len(t) : i = Len(s) + k /\ st[i] = t[k]
  /\ \A i \in 1..Len(s) : i \in 1..Len(st) /\ st[i] = s[i]
  /\ \A k \in 1..Len(t) : Len(s) + k \in 1..Len(st) /\ st[Len(s) + k] = t[k]

LEMMA JoinedIsParted ==
  ASSUME NEW s, NEW t, NEW st, Joined(s, t, st), Len(s) \in Nat, Len(t) \in Nat
  PROVE  Parted(s, t, st)
<1>1. ASSUME NEW i \in 1..Len(st)
      PROVE  \/ i \in 1..Len(s) /\ st[i] = s[i]
             \/ \E k \in 1..Len(t) : i = Len(s) + k /\ st[i] = t[k]
  <2>1. CASE i <= Len(s)
    BY <2>1 DEF Joined
  <2>2. CASE i > Len(s)
    <3> DEFINE k == i - Len(s)
    <3>1. k \in 1..Len(t) /\ Len(s) + k = i
      BY <2>2 DEF Joined
    <3> HIDE DEF k
    <3>2. st[Len(s) + k] = t[k]
      BY <3>1 DEF Joined
    <3> QED BY <3>1, <3>2
  <2> QED BY <2>1, <2>2
<1>2. /\ \A i \in 1..Len(s) : i \in 1..Len(st) /\ st[i] = s[i]
      /\ \A k \in 1..Len(t) : Len(s) + k \in 1..Len(st) /\ st[Len(s) + k] = t[k]
  BY DEF Joined
<1> QED BY <1>1, <1>2 DEF Parted

Gathers(s, t, st) ==
  Ids(st) = Ids(s) \union Ids(t) /\ Tos(st) = Tos(s) \union Tos(t)

LEMMA IdsJoined ==
  ASSUME NEW s \in Seq(MarkupItems), NEW t \in Seq(MarkupItems)
  PROVE  Gathers(s, t, s \o t)
<1> DEFINE st == s \o t
<1>1. Joined(s, t, st) /\ Len(s) \in Nat /\ Len(t) \in Nat
  BY JoinedAre
<1> HIDE DEF st
<1>2. /\ \A i \in 1..Len(st) : \/ i \in 1..Len(s) /\ st[i] = s[i]
                               \/ \E k \in 1..Len(t) : i = Len(s) + k /\ st[i] = t[k]
      /\ \A i \in 1..Len(s) : i \in 1..Len(st) /\ st[i] = s[i]
      /\ \A k \in 1..Len(t) : Len(s) + k \in 1..Len(st) /\ st[Len(s) + k] = t[k]
  BY <1>1, JoinedIsParted DEF Parted
<1>3. {st[i].id : i \in 1..Len(st)} = {s[i].id : i \in 1..Len(s)} \union {t[i].id : i \in 1..Len(t)}
  <2>1. \A i \in 1..Len(st) : \/ st[i].id \in {s[j].id : j \in 1..Len(s)}
                              \/ st[i].id \in {t[j].id : j \in 1..Len(t)}
    BY <1>2
  <2>2. \A j \in 1..Len(s) : s[j].id \in {st[i].id : i \in 1..Len(st)}
    BY <1>2
  <2>3. \A j \in 1..Len(t) : t[j].id \in {st[i].id : i \in 1..Len(st)}
    <3> SUFFICES ASSUME NEW j \in 1..Len(t) PROVE \E i \in 1..Len(st) : st[i].id = t[j].id
      OBVIOUS
    <3> QED BY <1>2
  <2> QED BY <2>1, <2>2, <2>3
<1>4. {st[i].to : i \in 1..Len(st)} = {s[i].to : i \in 1..Len(s)} \union {t[i].to : i \in 1..Len(t)}
  <2>1. \A i \in 1..Len(st) : \/ st[i].to \in {s[j].to : j \in 1..Len(s)}
                              \/ st[i].to \in {t[j].to : j \in 1..Len(t)}
    BY <1>2
  <2>2. \A j \in 1..Len(s) : s[j].to \in {st[i].to : i \in 1..Len(st)}
    BY <1>2
  <2>3. \A j \in 1..Len(t) : t[j].to \in {st[i].to : i \in 1..Len(st)}
    <3> SUFFICES ASSUME NEW j \in 1..Len(t) PROVE \E i \in 1..Len(st) : st[i].to = t[j].to
      OBVIOUS
    <3> QED BY <1>2
  <2> QED BY <2>1, <2>2, <2>3
<1>5. Gathers(s, t, st)
  BY <1>3, <1>4 DEF Gathers, Ids, Tos
<1> QED BY <1>5 DEF st

LEMMA OnceJoined ==
  ASSUME NEW s \in Seq(MarkupItems), NEW t \in Seq(MarkupItems), Once(s), Once(t), Apart(s, t)
  PROVE  Once(s \o t)
<1> DEFINE st == s \o t
<1>1. Joined(s, t, st) /\ Len(s) \in Nat /\ Len(t) \in Nat
  BY JoinedAre
<1> HIDE DEF st
<1>2. \A i \in 1..Len(st) : \/ i \in 1..Len(s) /\ st[i] = s[i]
                            \/ \E k \in 1..Len(t) : i = Len(s) + k /\ st[i] = t[k]
  BY <1>1, JoinedIsParted DEF Parted
<1>3. ASSUME NEW i \in 1..Len(s), NEW k \in 1..Len(t), s[i].id # << >>
      PROVE  s[i].id # t[k].id
  BY <1>3 DEF Ids, Apart
<1>4. ASSUME NEW i \in 1..Len(st), NEW j \in 1..Len(st), st[i].id = st[j].id, st[i].id # << >>
      PROVE  i = j
  <2>1. \/ i \in 1..Len(s) /\ st[i] = s[i]
        \/ \E k \in 1..Len(t) : i = Len(s) + k /\ st[i] = t[k]
    BY <1>2
  <2>2. \/ j \in 1..Len(s) /\ st[j] = s[j]
        \/ \E k \in 1..Len(t) : j = Len(s) + k /\ st[j] = t[k]
    BY <1>2
  <2> QED BY <1>3, <1>4, <2>1, <2>2 DEF Once
<1>5. Once(st)
  BY <1>4 DEF Once
<1> QED BY <1>5 DEF st

LEMMA PlainHasNone ==
  ASSUME NEW n, NEW t, Plain(t, n)
  PROVE  Ids(t) = {} /\ Tos(t) = {} /\ Once(t)
BY DEF Plain, Ids, Tos, Once

\* Marks of no line or of this one.
Lined(t, n) == \A i \in 1..Len(t) : t[i].line \in {0, n}

LEMMA AscendsOn ==
  ASSUME NEW s \in Seq(MarkupItems), NEW t \in Seq(MarkupItems),
         NEW before \in Nat, NEW n \in Nat, NEW now \in Nat,
         Ascends(s, before), Lined(t, n), before <= now, n = 0 \/ (before <= n /\ n < now)
  PROVE  Ascends(s \o t, now)
<1> DEFINE st == s \o t
<1>1. Joined(s, t, st) /\ Len(s) \in Nat /\ Len(t) \in Nat /\ st \in Seq(MarkupItems)
  BY JoinedAre
<1> HIDE DEF st
<1>2. \A i \in 1..Len(st) : \/ i \in 1..Len(s) /\ st[i] = s[i]
                            \/ \E k \in 1..Len(t) : i = Len(s) + k /\ st[i] = t[k]
  BY <1>1, JoinedIsParted DEF Parted
<1>3. /\ \A i \in 1..Len(s) : s[i].line \in Nat
      /\ \A i \in 1..Len(t) : t[i].line \in Nat
  <2>1. /\ \A i \in 1..Len(s) : s[i] \in MarkupItems
        /\ \A i \in 1..Len(t) : t[i] \in MarkupItems
    BY ElementOfSeq
  <2>2. \A x \in MarkupItems : x.line \in Nat
    BY DEF MarkupItems
  <2> QED BY <2>1, <2>2
<1>4. ASSUME NEW i \in 1..Len(st), st[i].line > 0 PROVE st[i].line < now
  <2>1. CASE i \in 1..Len(s) /\ st[i] = s[i]
    BY <1>3, <1>4, <2>1 DEF Ascends
  <2>2. ASSUME NEW k \in 1..Len(t), st[i] = t[k] PROVE st[i].line < now
    BY <1>4, <2>2 DEF Lined
  <2> QED BY <1>2, <2>1, <2>2
<1>5. ASSUME NEW i \in 1..Len(st), NEW j \in 1..Len(st), i < j, st[i].line > 0, st[j].line > 0
      PROVE  st[i].line <= st[j].line
  <2>1. CASE j \in 1..Len(s) /\ st[j] = s[j]
    <3>1. i \in 1..Len(s) /\ st[i] = s[i]
      BY <1>1, <1>5, <2>1 DEF Joined
    <3> QED BY <1>5, <2>1, <3>1 DEF Ascends
  <2>2. ASSUME NEW k \in 1..Len(t), st[j] = t[k] PROVE st[i].line <= st[j].line
    <3>1. st[j].line = n /\ n # 0
      BY <1>5, <2>2 DEF Lined
    <3>2. CASE i \in 1..Len(s) /\ st[i] = s[i]
      BY <1>3, <1>5, <3>2, <3>1 DEF Ascends
    <3>3. ASSUME NEW h \in 1..Len(t), st[i] = t[h] PROVE st[i].line <= st[j].line
      BY <1>5, <3>3, <3>1, SMTT(30) DEF Lined
    <3> QED BY <1>2, <3>2, <3>3
  <2> QED BY <1>2, <2>1, <2>2
<1>6. Ascends(st, now)
  BY <1>4, <1>5 DEF Ascends
<1> QED BY <1>6 DEF st

LEMMA PlainIsLined ==
  ASSUME NEW n, NEW t, Plain(t, n)
  PROVE  Lined(t, n)
BY DEF Plain, Lined

LEMMA UnmarkedJoined ==
  ASSUME NEW s \in Seq(MarkupItems), NEW t \in Seq(MarkupItems), Unmarked(s), Unmarked(t)
  PROVE  Unmarked(s \o t)
<1> DEFINE st == s \o t
<1>1. Joined(s, t, st) /\ Len(s) \in Nat /\ Len(t) \in Nat /\ st \in Seq(MarkupItems)
  BY JoinedAre
<1> HIDE DEF st
<1>2. \A i \in 1..Len(st) : \/ i \in 1..Len(s) /\ st[i] = s[i]
                            \/ \E k \in 1..Len(t) : i = Len(s) + k /\ st[i] = t[k]
  BY <1>1, JoinedIsParted DEF Parted
<1>3. Unmarked(st)
  BY <1>2 DEF Unmarked
<1> QED BY <1>3 DEF st

-----------------------------------------------------------------------------
(* What the steps of the walk write.                                             *)

WrittenIn(m, t, raw) ==
  /\ m \in [out : Seq(MarkupItems), raw : SUBSET RawSorts]
  /\ m.out = markup.out \o t
  /\ m.raw = (markup.raw \union raw)

LEMMA MarkupParts ==
  ASSUME HtmlTyped
  PROVE  /\ markup.out \in Seq(MarkupItems) /\ markup.raw \in SUBSET RawSorts
         /\ markup = [out |-> markup.out, raw |-> markup.raw]
         /\ Len(markup.out) \in Nat
<1>1. markup \in [out : Seq(MarkupItems), raw : SUBSET RawSorts]
  BY DEF HtmlTyped
<1>2. markup.out \in Seq(MarkupItems) /\ markup.raw \in SUBSET RawSorts
  BY <1>1
<1>3. markup = [out |-> markup.out, raw |-> markup.raw]
  BY <1>1
<1> QED BY <1>2, <1>3, LenProperties

LEMMA WritingIs ==
  ASSUME HtmlTyped, NEW t \in Seq(MarkupItems), NEW raw \in SUBSET RawSorts
  PROVE  /\ WrittenIn(WriteMarkup(t), t, {})
         /\ WrittenIn([WriteMarkup(t) EXCEPT !.raw = @ \union raw], t, raw)
<1>1. markup \in [out : Seq(MarkupItems), raw : SUBSET RawSorts] /\ markup.out \in Seq(MarkupItems)
  BY DEF HtmlTyped
<1>2. markup.out \o t \in Seq(MarkupItems)
  BY <1>1, ConcatProperties
<1>3. /\ WriteMarkup(t) \in [out : Seq(MarkupItems), raw : SUBSET RawSorts]
      /\ WriteMarkup(t).out = markup.out \o t /\ WriteMarkup(t).raw = markup.raw
  BY <1>1, <1>2 DEF WriteMarkup
<1> DEFINE m == WriteMarkup(t)
<1>4. m \in [out : Seq(MarkupItems), raw : SUBSET RawSorts]
  BY <1>3
<1>5. (m.raw \union raw) \in SUBSET RawSorts
  <2>1. m.raw \in SUBSET RawSorts
    BY <1>4
  <2> HIDE DEF m
  <2> QED BY <2>1
<1>6. /\ [m EXCEPT !.raw = @ \union raw] \in [out : Seq(MarkupItems), raw : SUBSET RawSorts]
      /\ [m EXCEPT !.raw = @ \union raw].out = m.out
      /\ [m EXCEPT !.raw = @ \union raw].raw = (m.raw \union raw)
  <2> HIDE DEF m
  <2>1. \A x \in SUBSET RawSorts :
          /\ [m EXCEPT !.raw = x] \in [out : Seq(MarkupItems), raw : SUBSET RawSorts]
          /\ [m EXCEPT !.raw = x].out = m.out /\ [m EXCEPT !.raw = x].raw = x
    BY <1>4
  <2> QED BY <1>5, <2>1
<1>7. markup.raw \in SUBSET RawSorts
  BY <1>1
<1> QED BY <1>3, <1>6, <1>7 DEF WrittenIn

\* A block that has none in it writes one element, or nothing, or what may be anything.
LeafOf(t, raw) ==
  /\ ~htmlEnded /\ ~htmlEnded'
  /\ Plain(t, line) /\ (raw # {} \/ t = << >> \/ Whole(t)) /\ raw \in SUBSET RawSorts
  /\ WrittenIn(markup', t, raw)
  /\ pieces' = IF within = << >>
               THEN pieces \o Indexed(Len(markup.out), line, markup') ELSE pieces
  /\ line' = line + 1 /\ BlockHere
  /\ UNCHANGED <<within, footnotes>>

LEMMA LeafIs ==
  ASSUME HtmlTyped, NEW sort, NEW t, NEW raw \in SUBSET RawSorts, Leaf(sort, t, raw),
         Plain(t, line), raw # {} \/ t = << >> \/ Whole(t)
  PROVE  LeafOf(t, raw)
<1>1. WrittenIn([WriteMarkup(t) EXCEPT !.raw = @ \union raw], t, raw)
  BY WritingIs DEF Plain
<1>2. /\ ~htmlEnded /\ htmlEnded' = htmlEnded /\ BlockHere
      /\ markup' = [WriteMarkup(t) EXCEPT !.raw = @ \union raw]
      /\ pieces' = IF within = << >>
                   THEN pieces \o Indexed(Len(markup.out), line, markup') ELSE pieces
      /\ line' = line + 1 /\ UNCHANGED <<within, footnotes>>
  BY DEF Leaf, SpendsEvent
<1>3. WrittenIn(markup', t, raw)
  BY <1>1, <1>2
<1> QED BY <1>2, <1>3 DEF LeafOf

LEMMA RawIsPlain ==
  ASSUME NEW t \in RawBlocks \union RawInlines
  PROVE  Plain(t, 0) /\ t \in Seq(RawItems) /\ (ClosesItself(t) => Closed(t))
<1>1. t \in Seq(RawItems)
  BY HtmlIsBare
<1>2. Len(t) \in Nat /\ \A i \in 1..Len(t) : t[i] \in RawItems
  BY <1>1, LenProperties, ElementOfSeq
<1>3. RawItems \subseteq MarkupItems
  BY DEF HtmlNames, RawItems, MarkupItems
<1>4. t \in Seq(MarkupItems)
  BY <1>1, <1>3, SeqMonotonic
<1>5. \A x \in RawItems : x.line = 0 /\ x.id = << >> /\ x.to = << >>
  BY DEF RawItems
<1>6. Plain(t, 0)
  BY <1>2, <1>4, <1>5 DEF Plain
<1>7. ASSUME ClosesItself(t) PROVE Closed(t)
  BY <1>7, <1>2, NoDepth DEF ClosesItself, Closed, Rises
<1> QED BY <1>1, <1>6, <1>7

\* Words in an element.
LEMMA WordsIn ==
  ASSUME NEW name \in HtmlNames, NEW at \in Nat
  PROVE  Piece(Element(name, at, Words), at) /\ Whole(Element(name, at, Words))
BY PieceOfWords, PieceOfElement

LEMMA LeavesAre ==
  ASSUME HtmlTyped,
         \/ HtmlRule \/ HtmlMath \/ HtmlCode \/ HtmlRaw
         \/ \E b \in BOOLEAN : HtmlMetadata(b) \/ HtmlTable(b)
  PROVE  \E t, raw : LeafOf(t, raw)
<1>1. line \in Nat /\ 0 \in Nat
  BY DEF HtmlTyped
<1>2. CASE HtmlRule
  BY <1>1, PieceAlone, <1>2, LeafIs DEF HtmlNames, HtmlRule, Piece
<1>3. CASE HtmlMath
  BY <1>1, WordsIn, <1>3, LeafIs DEF HtmlNames, HtmlMath, Piece
<1>4. CASE HtmlCode
  BY <1>1, WordsIn, PieceJoined, <1>4, PieceOfElement, LeafIs DEF HtmlNames, HtmlCode, Piece
<1>5. ASSUME NEW b \in BOOLEAN, HtmlMetadata(b) PROVE \E t, raw : LeafOf(t, raw)
  BY <1>5, <1>1, WordsIn, PieceEmpty, LeafIs DEF HtmlMetadata, HtmlNames, Piece
<1>6. ASSUME NEW b \in BOOLEAN, HtmlTable(b) PROVE \E t, raw : LeafOf(t, raw)
  <2> DEFINE head  == Element("thead", 0, Element("tr", 0, Element("th", 0, Words)))
             rows  == Element("tbody", 0, Element("tr", 0, Element("td", 0, Words)))
             inner == head \o (IF b THEN rows ELSE << >>)
             table == Element("table", 0, inner)
             t     == Element("div", line, table)
  <2>1. Leaf("table", t, {})
    BY <1>6 DEF HtmlTable
  <2>2. Piece(head, 0) /\ Piece(rows, 0)
    BY <1>1, WordsIn, PieceOfElement DEF HtmlNames
  <2> HIDE DEF head, rows
  <2>3. Piece(inner, 0)
    BY <1>1, PieceEmpty, <2>2, PieceJoined
  <2> HIDE DEF inner
  <2>4. Piece(table, 0)
    BY <1>1, <2>3, PieceOfElement DEF HtmlNames
  <2> HIDE DEF table
  <2>5. Piece(t, line) /\ Whole(t)
    BY <1>1, <2>4, PieceOfElement DEF HtmlNames
  <2> HIDE DEF t
  <2>6. LeafOf(t, {})
    BY <2>1, <2>5, LeafIs DEF Piece
  <2> QED BY <2>6
<1>7. CASE HtmlRaw
  <2>1. PICK t \in RawBlocks : Leaf("html", t, {"block"})
    BY <1>7 DEF HtmlRaw
  <2>2. Plain(t, line)
    BY <1>1, RawIsPlain, PlainUnmarked
  <2>3. {"block"} \in SUBSET RawSorts /\ {"block"} # {}
    BY DEF RawSorts
  <2>4. LeafOf(t, {"block"})
    BY <2>1, <2>2, <2>3, LeafIs
  <2> QED BY <2>4
<1> QED BY <1>2, <1>3, <1>4, <1>5, <1>6, <1>7

\* An inline writes in the place it is in.
InlineOf(t, raw) ==
  /\ ~htmlEnded /\ ~htmlEnded' /\ InlineHere
  /\ Plain(t, 0) /\ (raw # {} \/ Closed(t)) /\ WrittenIn(markup', t, raw)
  /\ UNCHANGED <<within, footnotes, pieces, line>>

LEMMA InlineIs ==
  ASSUME HtmlTyped, NEW sort, NEW t, NEW raw \in SUBSET RawSorts, Inline(sort, t, raw),
         Plain(t, 0), raw # {} \/ Closed(t)
  PROVE  InlineOf(t, raw)
<1>1. WrittenIn([WriteMarkup(t) EXCEPT !.raw = @ \union raw], t, raw)
  BY WritingIs DEF Plain
<1>2. /\ ~htmlEnded /\ htmlEnded' = htmlEnded /\ InlineHere
      /\ markup' = [WriteMarkup(t) EXCEPT !.raw = @ \union raw]
      /\ UNCHANGED <<within, footnotes, pieces, line>>
  BY DEF Inline, SpendsEvent
<1>3. WrittenIn(markup', t, raw)
  BY <1>1, <1>2
<1> QED BY <1>2, <1>3 DEF InlineOf

\* A link of any kind is one element.
LinkOf(t, to) ==
  /\ t \in Seq(MarkupItems) /\ Whole(t) /\ Unmarked(t)
  /\ \A i \in 1..Len(t) : t[i].id = << >>
  /\ t[1].to = to /\ \A i \in 2..Len(t) : t[i].to = << >>

LEMMA LinkIs ==
  ASSUME NEW to \in {<<"elsewhere">>} \union NoteMarks
  PROVE  LinkOf(LinkTo(to, Words), to)
<1> DEFINE x == [is |-> "open", name |-> "a", line |-> 0, id |-> << >>, to |-> to]
           a == << x >>
           z == EndTag("a")
           t == a \o Words \o z
<1>1. x \in MarkupItems /\ x.line = 0 /\ x.id = << >> /\ x.to = to /\ x.is = "open"
  BY DEF MarkupItems, HtmlNames
<1>2. [Tag("a", 0)[1] EXCEPT !.to = to] = x
  BY DEF Tag
<1>3. LinkTo(to, Words) = t
  BY <1>2 DEF LinkTo
<1> HIDE DEF x, z
<1>4. a \in Seq(MarkupItems) /\ Len(a) = 1 /\ a[1] = x
  BY <1>1, OneInSeq
<1>5. Single(z, "close", 0)
  BY TagIs DEF z, HtmlNames
<1>6. Words \in Seq(MarkupItems) /\ Len(Words) = 1 /\ Plain(Words, 0) /\ Closed(Words)
      /\ Words[1].line = 0 /\ Words[1].id = << >> /\ Words[1].to = << >>
  BY PieceOfWords DEF Words, Alone, Piece, Plain
<1>7. z \in Seq(MarkupItems) /\ Len(z) = 1 /\ z[1].line = 0 /\ z[1].id = << >> /\ z[1].to = << >>
      /\ z[1].is = "close"
  BY <1>5 DEF z, EndTag, Single, Plain
<1> HIDE DEF a
<1>8. Whole(t) /\ t \in Seq(MarkupItems)
  BY <1>1, <1>4, <1>6, <1>7, EnclosedIsWhole, ConcatProperties
<1>9. Len(t) = 3 /\ t[1] = x /\ t[2] = Words[1] /\ t[3] = z[1]
  BY <1>4, <1>6, JoinedAre, <1>7 DEF Joined
<1> HIDE DEF t
<1>10. /\ Unmarked(t) /\ \A i \in 1..Len(t) : t[i].id = << >>
       /\ t[1].to = to /\ \A i \in 2..Len(t) : t[i].to = << >>
  BY <1>1, <1>6, <1>7, <1>9 DEF Unmarked
<1> QED BY <1>3, <1>8, <1>10 DEF LinkOf

LEMMA PieceOfLink ==
  Piece(LinkTo(<<"elsewhere">>, Words), 0)
<1> DEFINE t == LinkTo(<<"elsewhere">>, Words)
<1>1. LinkOf(t, <<"elsewhere">>)
  BY LinkIs
<1> HIDE DEF t
<1>2. t \in Seq(MarkupItems) /\ Closed(t)
  BY <1>1, WholeIsClosed DEF LinkOf
<1>3. Len(t) \in Nat /\ \A i \in 1..Len(t) : i = 1 \/ i \in 2..Len(t)
  BY <1>2, LenProperties
<1>4. Plain(t, 0)
  BY <1>1, <1>2, <1>3 DEF LinkOf, Plain, Unmarked
<1> QED BY <1>2, <1>4 DEF Piece, t

LEMMA InlinesAre ==
  ASSUME HtmlTyped,
         InlineWords \/ InlineEmphasis \/ InlineLink \/ InlineImage \/ InlineHtml
  PROVE  \E t, raw : InlineOf(t, raw)
<1>1. CASE InlineWords
  BY <1>1, PieceOfWords, InlineIs DEF InlineWords, Piece
<1>2. CASE InlineEmphasis
  BY WordsIn, <1>2, InlineIs DEF HtmlNames, InlineEmphasis, Piece
<1>3. CASE InlineLink
  BY <1>3, PieceOfLink, InlineIs DEF InlineLink, Piece
<1>4. CASE InlineImage
  BY PieceAlone, <1>4, InlineIs DEF HtmlNames, InlineImage, Piece
<1>5. CASE InlineHtml
  <2>1. PICK t \in RawInlines : Inline("inline", t, IF ClosesItself(t) THEN {} ELSE {"loose"})
    BY <1>5 DEF InlineHtml
  <2> DEFINE raw == IF ClosesItself(t) THEN {} ELSE {"loose"}
  <2>2. Plain(t, 0) /\ (ClosesItself(t) => Closed(t))
    BY RawIsPlain
  <2>3. raw \in SUBSET RawSorts /\ (raw # {} \/ Closed(t))
    BY <2>2 DEF RawSorts
  <2> HIDE DEF raw
  <2>4. InlineOf(t, raw)
    BY <2>1, <2>2, <2>3, InlineIs DEF raw
  <2> QED BY <2>4
<1> QED BY <1>1, <1>2, <1>3, <1>4, <1>5

\* What an opening tag and what comes with it do to the depth.
Opens(t) == Len(t) > 0 /\ Depth(t, Len(t)) = 1 /\ \A m \in 1..Len(t) : Depth(t, m) > 0

LEMMA TagOpens ==
  ASSUME NEW name \in HtmlNames, NEW at \in Nat, NEW inner, Piece(inner, 0)
  PROVE  Plain(Tag(name, at) \o inner, at) /\ Opens(Tag(name, at) \o inner)
<1> DEFINE a == Tag(name, at)
           t == a \o inner
<1>1. Single(a, "open", at)
  BY TagIs
<1> HIDE DEF a
<1>2. Plain(a, at) /\ Plain(inner, at)
  BY <1>1, PlainUnmarked DEF Single, Piece
<1>3. Plain(t, at)
  BY <1>2, PlainJoined
<1>4. Joined(a, inner, t) /\ Len(a) \in Nat /\ Len(inner) \in Nat
  BY <1>2, JoinedAre DEF Plain
<1>5. Sums(a, inner, t)
  BY <1>4, DepthJoined
<1> HIDE DEF t
<1>6. Depth(a, 1) = 1 /\ Len(a) = 1
  BY <1>1, OneItem DEF Single, Rise
<1>7. Len(t) = 1 + Len(inner)
  BY <1>4, <1>6 DEF Joined
<1>8. ASSUME NEW m \in 1..Len(t) PROVE Depth(t, m) > 0
  <2> DEFINE k == m - 1
  <2>1. k \in 0..Len(inner) /\ m \in 1..Len(t) /\ Depth(t, m) = 1 + Depth(inner, k)
    BY <1>4, <1>5, <1>6, <1>7 DEF Sums
  <2> HIDE DEF k
  <2>2. Depth(inner, k) >= 0 /\ Depth(inner, k) \in Int
    BY <2>1, DepthStep DEF Piece, Closed, Rises
  <2> QED BY <2>1, <2>2
<1>9. Depth(t, Len(t)) = 1
  BY <1>4, <1>6, <1>7, <1>5 DEF Sums, Piece, Closed, Rises
<1>10. Opens(t)
  BY <1>4, <1>7, <1>8, <1>9 DEF Opens
<1> QED BY <1>3, <1>10 DEF t, a

Container(kind, label, held) ==
  [kind |-> kind, from |-> Len(markup.out), line |-> line, label |-> label, held |-> held]

\* Into a container whose text goes on where it is.
EnterOf(kind, t) ==
  /\ ~htmlEnded /\ ~htmlEnded' /\ Within # "h"
  /\ kind \in {"p", "blockquote", "list", "li", "dl", "dt", "dd"}
  /\ Plain(t, line) /\ Opens(t) /\ WrittenIn(markup', t, {})
  /\ within' = Append(within, Container(kind, "", << >>))
  /\ line' = line + 1
  /\ UNCHANGED <<footnotes, pieces>>

LEMMA EnterIs ==
  ASSUME HtmlTyped, NEW sort, NEW kind \in {"p", "blockquote", "list", "li", "dl", "dt", "dd"},
         NEW t, BlockHere \/ Within \in {"list", "dl"},
         EnterElement(sort, kind, WriteMarkup(t), ""), Plain(t, line), Opens(t)
  PROVE  EnterOf(kind, t)
<1>1. WrittenIn(WriteMarkup(t), t, {})
  BY WritingIs DEF Plain
<1>2. /\ ~htmlEnded /\ htmlEnded' = htmlEnded /\ markup' = WriteMarkup(t)
      /\ within' = Append(within, Container(kind, "", Held(kind)))
      /\ line' = line + 1 /\ UNCHANGED <<footnotes, pieces>>
  BY DEF EnterElement, SpendsEvent, Container
<1>3. Held(kind) = << >>
  BY DEF Held
<1>4. Within # "h"
  BY DEF BlockHere
<1>5. WrittenIn(markup', t, {})
  BY <1>1, <1>2
<1> QED BY <1>2, <1>3, <1>4, <1>5 DEF EnterOf

LEMMA EntersAre ==
  ASSUME HtmlTyped,
         \/ StartParagraph \/ StartList \/ StartDefinitions \/ StartTerm \/ StartDefinition
         \/ \E b \in BOOLEAN : StartQuote(b) \/ StartItem(b)
  PROVE  \E kind, t : EnterOf(kind, t)
<1>1. line \in Nat /\ 0 \in Nat
  BY DEF HtmlTyped
<1>2. ASSUME NEW name \in HtmlNames, NEW at \in Nat
      PROVE  Plain(Tag(name, at), at) /\ Opens(Tag(name, at))
  <2>1. Single(Tag(name, at), "open", at)
    BY <1>2, TagIs
  <2>2. Depth(Tag(name, at), 1) = 1
    BY <2>1, OneItem DEF Single, Rise
  <2>3. \A m \in 1..1 : m = 1
    OBVIOUS
  <2> HIDE DEF Tag
  <2> QED BY <2>1, <2>2, <2>3 DEF Single, Opens
<1>3. CASE StartParagraph
  BY <1>1, <1>2, <1>3, EnterIs DEF HtmlNames, StartParagraph
<1>4. CASE StartList
  BY <1>1, <1>2, <1>4, EnterIs DEF HtmlNames, StartList
<1>5. CASE StartDefinitions
  BY <1>1, <1>2, <1>5, EnterIs DEF HtmlNames, StartDefinitions
<1>6. CASE StartTerm
  BY <1>1, <1>2, PlainUnmarked, <1>6, EnterIs DEF HtmlNames, StartTerm
<1>7. CASE StartDefinition
  BY <1>1, <1>2, PlainUnmarked, <1>7, EnterIs DEF HtmlNames, StartDefinition
<1>8. ASSUME NEW b \in BOOLEAN, StartQuote(b) PROVE \E kind, t : EnterOf(kind, t)
  BY <1>8, <1>1, WordsIn, PieceEmpty, TagOpens, EnterIs DEF StartQuote, HtmlNames
<1>9. ASSUME NEW b \in BOOLEAN, StartItem(b) PROVE \E kind, t : EnterOf(kind, t)
  BY <1>9, <1>1, PieceAlone, PieceEmpty, TagOpens, EnterIs DEF StartItem, HtmlNames
<1> QED BY <1>3, <1>4, <1>5, <1>6, <1>7, <1>8, <1>9

\* The text is written apart.
ApartOf(kind, label) ==
  /\ ~htmlEnded /\ ~htmlEnded' /\ Within # "h"
  /\ \/ kind = "h" /\ label = ""
     \/ /\ kind = "note" /\ label \in Labels
        /\ \A i \in DOMAIN footnotes : footnotes[i].label = label => ~footnotes[i].defined
        /\ \A i \in DOMAIN within : within[i].label # label
  /\ markup' = [out |-> << >>, raw |-> markup.raw]
  /\ within' = Append(within, Container(kind, label, markup.out))
  /\ line' = line + 1
  /\ UNCHANGED <<footnotes, pieces>>

LEMMA ApartsAre ==
  ASSUME HtmlTyped, StartHeading \/ \E label \in Labels : StartNote(label)
  PROVE  \E kind, label : ApartOf(kind, label)
<1>1. SetAside = [out |-> << >>, raw |-> markup.raw]
  BY MarkupParts DEF SetAside
<1>2. BlockHere => Within # "h"
  BY DEF BlockHere
<1>3. ASSUME NEW sort, NEW kind \in {"h", "note"}, NEW label,
             EnterElement(sort, kind, SetAside, label)
      PROVE  /\ ~htmlEnded /\ ~htmlEnded' /\ markup' = SetAside
             /\ within' = Append(within, Container(kind, label, markup.out))
             /\ line' = line + 1 /\ UNCHANGED <<footnotes, pieces>>
  BY <1>3 DEF EnterElement, SpendsEvent, Container, Held
<1>4. CASE StartHeading
  BY <1>1, <1>2, <1>3, <1>4 DEF StartHeading, ApartOf
<1>5. ASSUME NEW label \in Labels, StartNote(label) PROVE \E k, l : ApartOf(k, l)
  BY <1>1, <1>2, <1>3, <1>5 DEF StartNote, ApartOf
<1> QED BY <1>4, <1>5

\* The top of the containers.
LEMMA TopIs ==
  ASSUME HtmlTyped, within # << >>
  PROVE  /\ Len(within) \in Nat \ {0} /\ Last(within) = within[Len(within)]
         /\ Within = within[Len(within)].kind /\ within[Len(within)] \in Containers
         /\ Front(within) \in Seq(Containers) /\ Len(Front(within)) = Len(within) - 1
         /\ \A k \in 1..(Len(within) - 1) : Front(within)[k] = within[k]
<1>1. within \in Seq(Containers)
  BY DEF HtmlTyped
<1>2. /\ Front(within) \in Seq(Containers) /\ Len(within) \in Nat \ {0}
      /\ Len(Front(within)) = Len(within) - 1
      /\ \A i \in 1..(Len(within) - 1) : Front(within)[i] = within[i]
      /\ within[Len(within)] \in Containers
  BY <1>1, AllButLast DEF Front
<1>3. Last(within) = within[Len(within)]
  BY DEF Last
<1> QED BY <1>1, <1>2, <1>3 DEF Within

\* What the walk does as it is back around a container.
BackFrom(kind) ==
  /\ ~htmlEnded /\ ~htmlEnded' /\ within # << >> /\ Last(within).kind = kind
  /\ within' = Front(within)
  /\ pieces' = IF Len(within) = 1
               THEN pieces \o Indexed(within[1].from, within[1].line, markup') ELSE pieces
  /\ line' = line

CloseOf(kind) ==
  /\ kind \in {"p", "blockquote", "list", "li", "dl", "dt", "dd"}
  /\ BackFrom(kind) /\ WrittenIn(markup', EndTag(kind), {})
  /\ footnotes' = footnotes

LEMMA LeavingIs ==
  ASSUME HtmlTyped, NEW kind, NEW m, LeaveElement(kind, m), kind # "document"
  PROVE  BackFrom(kind) /\ markup' = m
BY DEF LeaveElement, Within, BackFrom

LEMMA ClosesAre ==
  ASSUME HtmlTyped, NEW kind \in {"p", "blockquote", "list", "li", "dl", "dt", "dd"},
         EndElement(kind)
  PROVE  CloseOf(kind)
<1>1. LeaveElement(kind, WriteMarkup(EndTag(kind))) /\ footnotes' = footnotes
  BY DEF EndElement
<1>2. BackFrom(kind) /\ markup' = WriteMarkup(EndTag(kind))
  BY <1>1, LeavingIs
<1>3. kind \in HtmlNames /\ 0 \in Nat
  BY DEF HtmlNames
<1>4. EndTag(kind) \in Seq(MarkupItems)
  BY <1>3, TagIs DEF Single, Plain
<1>5. WrittenIn(markup', EndTag(kind), {})
  BY <1>2, <1>4, WritingIs
<1> QED BY <1>1, <1>2, <1>5 DEF CloseOf

\* The text of a heading goes where it was.
HeadingOf(t) ==
  /\ BackFrom("h") /\ footnotes' = footnotes
  /\ t = Element("h", Last(within).line, markup.out \o Element("a", 0, << >>))
  /\ markup' = [out |-> Last(within).held \o t, raw |-> markup.raw]

LEMMA HeadingIs ==
  ASSUME HtmlTyped, EndHeading
  PROVE  \E t : HeadingOf(t)
<1> DEFINE t == Element("h", Last(within).line, markup.out \o Element("a", 0, << >>))
<1>1. BackFrom("h") /\ markup' = [TakeBack EXCEPT !.out = @ \o t] /\ footnotes' = footnotes
  BY LeavingIs DEF EndHeading
<1>2. TakeBack = [out |-> Last(within).held, raw |-> markup.raw]
  BY MarkupParts DEF TakeBack
<1>3. [TakeBack EXCEPT !.out = @ \o t] = [out |-> Last(within).held \o t, raw |-> markup.raw]
  <2> DEFINE m == TakeBack
             o == Last(within).held
             r == markup.raw
  <2> HIDE DEF t, o, r
  <2>1. m = [out |-> o, raw |-> r]
    BY <1>2 DEF o, r
  <2> HIDE DEF m
  <2>2. m.out = o
    BY <2>1
  <2>3. \A c : [m EXCEPT !.out = c] = [out |-> c, raw |-> r]
    BY <2>1
  <2>4. [m EXCEPT !.out = m.out \o t] = [out |-> m.out \o t, raw |-> r]
    BY <2>3
  <2> QED BY <2>2, <2>4 DEF m, o, r
<1>4. HeadingOf(t)
  BY <1>1, <1>3 DEF t, HeadingOf
<1> QED BY <1>4

-----------------------------------------------------------------------------
(* Footnotes.                                                                    *)

\* The notes with that of a label, which is there once.
Entered(f, n, label) ==
  /\ f \in Seq(FootnotesOf) /\ n \in 1..Len(f) /\ f[n].label = label
  /\ Len(footnotes) \in Nat /\ Len(f) \in Nat /\ Len(footnotes) <= Len(f)
  /\ \A i \in 1..Len(footnotes) : f[i] = footnotes[i]
  /\ \A i \in 1..Len(f) : i \notin 1..Len(footnotes) =>
       i = n /\ f[i] = [label |-> label, html |-> << >>, defined |-> FALSE, refs |-> 0]
  /\ \A i \in 1..Len(f) : f[i].label = label => i = n

LEMMA NotedIs ==
  ASSUME HtmlTyped, NEW label \in Labels,
         \A i, j \in 1..Len(footnotes) : footnotes[i].label = footnotes[j].label => i = j
  PROVE  Entered(Noted(label), NoteNumber(label), label)
<1> DEFINE new == [label |-> label, html |-> << >>, defined |-> FALSE, refs |-> 0]
           f == Noted(label)
           l == Len(footnotes)
<1>1. footnotes \in Seq(FootnotesOf) /\ l \in Nat /\ DOMAIN footnotes = 1..l
  BY LenProperties DEF HtmlTyped
<1>2. NoteNumber(label) = CHOOSE i \in DOMAIN f : f[i].label = label
  BY DEF NoteNumber
<1>3. CASE Known(label)
  BY <1>3, <1>2, <1>1 DEF Noted, Known, Entered, l, f
<1>4. CASE ~Known(label)
  BY <1>4, EmptySeq, <1>1, AppendProperties, LenProperties, <1>2 DEF Noted, FootnotesOf, Known,
     Entered, l, new, f
<1> QED BY <1>3, <1>4

\* A note is changed, and no other.
Changed(g, f, n, x) ==
  /\ g \in Seq(FootnotesOf) /\ Len(g) = Len(f) /\ g[n] = x
  /\ \A i \in 1..Len(f) : i # n => g[i] = f[i]

LEMMA ChangingIs ==
  ASSUME NEW f \in Seq(FootnotesOf), NEW n \in 1..Len(f), NEW x \in FootnotesOf
  PROVE  Changed([f EXCEPT ![n] = x], f, n, x)
<1> DEFINE g == [f EXCEPT ![n] = x]
<1>1. /\ g \in Seq(FootnotesOf) /\ Len(g) = Len(f)
      /\ \A j \in 1..Len(f) : g[j] = IF j = n THEN x ELSE f[j]
  BY ExceptSeq
<1> HIDE DEF g
<1>2. Changed(g, f, n, x)
  BY <1>1 DEF Changed
<1> QED BY <1>2 DEF g

\* A text without its marks.
Bare(t, s) ==
  /\ t \in Seq(MarkupItems) /\ Len(t) = Len(s)
  /\ \A i \in 1..Len(s) : /\ t[i].line = 0 /\ t[i].is = s[i].is
                          /\ t[i].id = s[i].id /\ t[i].to = s[i].to

LEMMA StrippingIs ==
  ASSUME NEW s \in Seq(MarkupItems)
  PROVE  Bare(StripSourceLines(s), s)
<1> DEFINE Strip(x) == [x EXCEPT !.line = 0]
           t == [i \in 1..Len(s) |-> Strip(s[i])]
<1>1. Len(s) \in Nat /\ DOMAIN s = 1..Len(s) /\ \A i \in 1..Len(s) : s[i] \in MarkupItems
  BY LenProperties, ElementOfSeq
<1>2. \A x \in MarkupItems : /\ Strip(x) \in MarkupItems /\ Strip(x).line = 0
                             /\ Strip(x).is = x.is /\ Strip(x).id = x.id /\ Strip(x).to = x.to
  BY DEF MarkupItems
<1>3. StripSourceLines(s) = t
  BY <1>1 DEF StripSourceLines
<1> HIDE DEF Strip
<1>4. t \in [1..Len(s) -> MarkupItems]
  BY <1>1, <1>2
<1>5. t \in Seq(MarkupItems)
  BY <1>1, <1>4, SeqDef
<1>6. DOMAIN t = 1..Len(s) /\ \A i \in 1..Len(s) : t[i] = Strip(s[i])
  OBVIOUS
<1> HIDE DEF t
<1>7. Len(t) = Len(s)
  BY <1>1, <1>5, <1>6, LenOfDomain
<1>8. Bare(t, s)
  BY <1>1, <1>2, <1>5, <1>6, <1>7 DEF Bare
<1> QED BY <1>3, <1>8

\* The text of a note is kept for the end.
NoteOf(f, n, label) ==
  /\ BackFrom("note") /\ label = Last(within).label
  /\ markup' = [out |-> Last(within).held, raw |-> markup.raw]
  /\ Entered(f, n, label)
  /\ Changed(footnotes', f, n,
             [label |-> label, html |-> StripSourceLines(markup.out), defined |-> TRUE,
              refs |-> f[n].refs])

LEMMA NoteIs ==
  ASSUME HtmlTyped, NotesLabelled, EndNote
  PROVE  \E f, n, label : NoteOf(f, n, label)
<1> DEFINE label == Last(within).label
           f == Noted(label)
           n == NoteNumber(label)
           html == StripSourceLines(markup.out)
<1>1. LeaveElement("note", TakeBack) /\ Within = "note"
  BY DEF EndNote, LeaveElement
<1>2. footnotes' = [f EXCEPT ![n] = [f[n] EXCEPT !.html = html, !.defined = TRUE]]
  BY DEF EndNote
<1>3. BackFrom("note") /\ markup' = TakeBack
  BY <1>1, LeavingIs
<1>4. TakeBack = [out |-> Last(within).held, raw |-> markup.raw]
  BY MarkupParts DEF TakeBack
<1>5. label \in Labels
  BY <1>1, TopIs DEF Within, NotesLabelled
<1>6. Entered(f, n, label)
  BY <1>5, NotedIs DEF NotesLabelled
<1>7. Bare(html, markup.out)
  BY MarkupParts, StrippingIs
<1> HIDE DEF f, n, label, html
<1>8. f \in Seq(FootnotesOf) /\ n \in 1..Len(f) /\ f[n] \in FootnotesOf /\ f[n].label = label
  BY <1>6, ElementOfSeq DEF Entered
<1> DEFINE x == [label |-> label, html |-> html, defined |-> TRUE, refs |-> f[n].refs]
<1>9. [f[n] EXCEPT !.html = html, !.defined = TRUE] = x
  <2> DEFINE y == f[n]
  <2> HIDE DEF y
  <2>1. y \in FootnotesOf /\ y.label = label
    BY <1>8 DEF y
  <2> DEFINE Filled(v, h) == [v EXCEPT !.html = h, !.defined = TRUE]
  <2>2. \A v \in FootnotesOf, h \in Seq(MarkupItems) :
          /\ Filled(v, h) \in FootnotesOf /\ Filled(v, h).label = v.label
          /\ Filled(v, h).html = h /\ Filled(v, h).defined = TRUE /\ Filled(v, h).refs = v.refs
    BY DEF FootnotesOf
  <2> HIDE DEF Filled
  <2>3. \A v \in FootnotesOf :
          v = [label |-> v.label, html |-> v.html, defined |-> v.defined, refs |-> v.refs]
    BY DEF FootnotesOf
  <2>4. html \in Seq(MarkupItems)
    BY <1>7 DEF Bare
  <2>5. Filled(y, html) = [label |-> y.label, html |-> html, defined |-> TRUE, refs |-> y.refs]
    BY <2>1, <2>2, <2>3, <2>4
  <2> QED BY <2>1, <2>5 DEF y, Filled
<1>10. x \in FootnotesOf
  BY <1>5, <1>7, <1>8 DEF FootnotesOf, Bare
<1>11. Changed([f EXCEPT ![n] = x], f, n, x)
  BY <1>8, <1>10, ChangingIs
<1>12. Changed(footnotes', f, n, x)
  BY <1>2, <1>9, <1>11
<1>13. NoteOf(f, n, label)
  BY <1>3, <1>4, <1>6, <1>12 DEF NoteOf, label, html
<1> QED BY <1>13

LEMMA MarksDiffer ==
  /\ \A m \in NoteMarks : m # << >> /\ m # <<"elsewhere">>
  /\ \A i, j \in Nat : <<"fn", i>> # <<"fnref", j>>
  /\ \A i, j \in Nat : <<"fn", i>> = <<"fn", j>> => i = j
  /\ \A i, j \in Nat : <<"fnref", i>> = <<"fnref", j>> => i = j
  /\ \A i \in Nat : <<"fn", i>> \in NoteMarks /\ <<"fnref", i>> \in NoteMarks
<1>1. ASSUME NEW m \in NoteMarks PROVE m # << >> /\ m # <<"elsewhere">>
  BY DEF NoteMarks
<1>2. \A i, j \in Nat : <<"fn", i>> # <<"fnref", j>>
  OBVIOUS
<1>3. \A i, j \in Nat : <<"fn", i>> = <<"fn", j>> => i = j
  OBVIOUS
<1>4. \A i, j \in Nat : <<"fnref", i>> = <<"fnref", j>> => i = j
  OBVIOUS
<1>5. \A i \in Nat : <<"fn", i>> \in NoteMarks /\ <<"fnref", i>> \in NoteMarks
  BY DEF NoteMarks
<1> QED BY <1>1, <1>2, <1>3, <1>4, <1>5

\* What is known of a link to a note or a reference.
LEMMA LinkGathers ==
  ASSUME NEW to \in NoteMarks
  PROVE  LET t == LinkTo(to, Words)
         IN  /\ t \in Seq(MarkupItems) /\ Closed(t) /\ Unmarked(t)
             /\ Ids(t) = {} /\ Tos(t) = {to} /\ Once(t)
<1> DEFINE t == LinkTo(to, Words)
<1>1. LinkOf(t, to)
  BY LinkIs
<1> HIDE DEF t
<1>2. t \in Seq(MarkupItems) /\ Closed(t) /\ Unmarked(t)
  BY <1>1, WholeIsClosed DEF LinkOf
<1>3. Ids(t) = {} /\ Once(t)
  BY <1>1 DEF LinkOf, Ids, Once
<1>4. Tos(t) = {to}
  BY <1>1, <1>2, LenProperties, MarksDiffer DEF LinkOf, Whole, Tos
<1> QED BY <1>2, <1>3, <1>4 DEF t

\* An opening tag, with an id or without.
Headed(a, id) ==
  /\ a \in Seq(MarkupItems) /\ Len(a) = 1
  /\ a[1].is = "open" /\ a[1].line = 0 /\ a[1].id = id /\ a[1].to = << >>

LEMMA HeadedIs ==
  ASSUME NEW name \in HtmlNames, NEW id \in NoteMarks
  PROVE  Headed(WithId(Tag(name, 0), id), id) /\ Headed(Tag(name, 0), << >>)
<1> DEFINE x(i) == [is |-> "open", name |-> name, line |-> 0, id |-> i, to |-> << >>]
<1>1. ASSUME NEW i \in {<< >>} \union NoteMarks
      PROVE  Headed(<< x(i) >>, i)
  BY OneInSeq DEF MarkupItems, Headed
<1>2. Tag(name, 0) = << x(<< >>) >>
  BY DEF Tag
<1>3. WithId(Tag(name, 0), id) = << x(id) >>
  BY DEF Tag, WithId
<1> HIDE DEF x
<1> QED BY <1>1, <1>2, <1>3

\* What is known of a text between tags, where the first may have an id.
Wrapped(t, s, id) ==
  /\ t \in Seq(MarkupItems) /\ Unmarked(t) /\ (Closed(s) => Whole(t))
  /\ Ids(t) = ({id} \ {<< >>}) \union Ids(s) /\ Tos(t) = Tos(s) /\ Once(t)

LEMMA WrapIs ==
  ASSUME NEW id, NEW a, Headed(a, id), NEW s \in Seq(MarkupItems), NEW name \in HtmlNames,
         Unmarked(s), Once(s), id \notin Ids(s)
  PROVE  Wrapped(a \o s \o EndTag(name), s, id)
<1> DEFINE z   == EndTag(name)
           as  == a \o s
           t   == as \o z
<1>1. Single(z, "close", 0)
  BY TagIs
<1>2. a \in Seq(MarkupItems) /\ z \in Seq(MarkupItems) /\ Len(a) = 1 /\ Len(z) = 1
  BY <1>1 DEF Headed, Single, Plain
<1>3. as \in Seq(MarkupItems)
  BY <1>2, ConcatProperties
<1> HIDE DEF z
<1>4. Closed(s) => Whole(t)
  BY <1>1, <1>2, EnclosedIsWhole DEF Headed, Single
<1>5. Gathers(a, s, as)
  BY <1>2, IdsJoined
<1>6. \A i \in 1..1 : i = 1
  OBVIOUS
<1>7. Ids(a) = {id} \ {<< >>} /\ Tos(a) = {} /\ Once(a) /\ Unmarked(a)
  BY <1>6 DEF Headed, Ids, Tos, Once, Unmarked
<1>8. Ids(z) = {} /\ Tos(z) = {} /\ Once(z) /\ Unmarked(z)
  BY <1>1, PlainHasNone DEF Single, Plain, Unmarked
<1>9. Apart(a, s)
  BY <1>7 DEF Apart
<1>10. Once(as) /\ Unmarked(as)
  BY <1>2, <1>7, <1>9, OnceJoined, UnmarkedJoined
<1> HIDE DEF as
<1>11. Gathers(as, z, t) /\ t \in Seq(MarkupItems)
  BY <1>2, <1>3, IdsJoined, ConcatProperties
<1>12. Apart(as, z)
  BY <1>8 DEF Apart
<1>13. Once(t) /\ Unmarked(t)
  BY <1>2, <1>3, <1>8, <1>10, <1>12, OnceJoined, UnmarkedJoined
<1> HIDE DEF t
<1>14. Wrapped(t, s, id)
  BY <1>4, <1>5, <1>7, <1>8, <1>11, <1>13 DEF Wrapped, Gathers
<1> QED BY <1>14 DEF t, as, z

\* A reference leads to its note, and the first of them can be come back to.
Refers(t, n, first) ==
  /\ t \in Seq(MarkupItems) /\ Whole(t) /\ Unmarked(t) /\ Once(t)
  /\ Ids(t) = (IF first THEN {<<"fnref", n>>} ELSE {}) /\ Tos(t) = {<<"fn", n>>}

ReferenceOf(f, n, label, t) ==
  /\ ~htmlEnded /\ ~htmlEnded' /\ InlineHere
  /\ label \in Labels /\ Entered(f, n, label)
  /\ Changed(footnotes', f, n, [label |-> label, html |-> f[n].html, defined |-> f[n].defined,
                                refs |-> f[n].refs + 1])
  /\ Refers(t, n, f[n].refs = 0) /\ WrittenIn(markup', t, {})
  /\ UNCHANGED <<within, pieces, line>>

LEMMA ReferenceIs ==
  ASSUME HtmlTyped, NotesLabelled, NEW label \in Labels, FootnoteReference(label)
  PROVE  \E f, n, t : ReferenceOf(f, n, label, t)
<1> DEFINE f == Noted(label)
           n == NoteNumber(label)
           sup == IF CarriesId(f[n].refs) THEN WithId(Tag("sup", 0), <<"fnref", n>>)
                  ELSE Tag("sup", 0)
           id == IF f[n].refs = 0 THEN <<"fnref", n>> ELSE << >>
           link == LinkTo(<<"fn", n>>, Words)
           t == sup \o link \o EndTag("sup")
<1>1. /\ ~htmlEnded /\ htmlEnded' = htmlEnded /\ InlineHere
      /\ markup' = WriteMarkup(t)
      /\ footnotes' = [f EXCEPT ![n] = [f[n] EXCEPT !.refs = @ + 1]]
      /\ UNCHANGED <<within, pieces, line>>
  BY DEF FootnoteReference, SpendsEvent
<1>2. Entered(f, n, label)
  BY NotedIs DEF NotesLabelled
<1> HIDE DEF f, n
<1>3. f \in Seq(FootnotesOf) /\ n \in 1..Len(f) /\ f[n] \in FootnotesOf /\ f[n].label = label
      /\ n \in Nat
  BY <1>2, ElementOfSeq DEF Entered
<1>4. <<"fn", n>> \in NoteMarks /\ <<"fnref", n>> \in NoteMarks
  BY <1>3, MarksDiffer
<1>5. Headed(sup, id)
  BY <1>4, HeadedIs DEF HtmlNames, CarriesId
<1>6. /\ link \in Seq(MarkupItems) /\ Closed(link) /\ Unmarked(link)
      /\ Ids(link) = {} /\ Tos(link) = {<<"fn", n>>} /\ Once(link)
  BY <1>4, LinkGathers
<1> HIDE DEF sup, link
<1>7. Wrapped(t, link, id)
  BY <1>5, <1>6, WrapIs DEF HtmlNames
<1> HIDE DEF t
<1>8. Refers(t, n, f[n].refs = 0)
  BY <1>4, MarksDiffer, <1>6, <1>7 DEF Wrapped, Refers
<1>9. WrittenIn(markup', t, {})
  BY <1>8, WritingIs, <1>1 DEF Refers
<1> DEFINE x == [label |-> label, html |-> f[n].html, defined |-> f[n].defined,
                 refs |-> f[n].refs + 1]
<1>10. [f[n] EXCEPT !.refs = @ + 1] = x /\ x \in FootnotesOf
  <2> DEFINE y == f[n]
             More(v) == [v EXCEPT !.refs = @ + 1]
  <2>1. \A v \in FootnotesOf :
          /\ More(v) \in FootnotesOf /\ More(v).label = v.label /\ More(v).html = v.html
          /\ More(v).defined = v.defined /\ More(v).refs = v.refs + 1
    BY DEF FootnotesOf
  <2> HIDE DEF More
  <2>2. \A v \in FootnotesOf :
          v = [label |-> v.label, html |-> v.html, defined |-> v.defined, refs |-> v.refs]
    BY DEF FootnotesOf
  <2>3. More(f[n]) = x /\ More(f[n]) \in FootnotesOf
    BY <1>3, <2>1, <2>2
  <2> QED BY <2>3 DEF More
<1>11. Changed([f EXCEPT ![n] = x], f, n, x)
  BY <1>3, <1>10, ChangingIs
<1>12. Changed(footnotes', f, n, x)
  BY <1>1, <1>10, <1>11
<1>13. ReferenceOf(f, n, label, t)
  BY <1>1, <1>2, <1>8, <1>9, <1>12 DEF ReferenceOf
<1> QED BY <1>13

-----------------------------------------------------------------------------
(* The section of the footnotes.                                                 *)

\* A text that has what another has, and leads back to a reference.
Filled(t, body, i) ==
  /\ t \in Seq(MarkupItems) /\ Unmarked(t) /\ Once(t) /\ (Closed(body) => Closed(t))
  /\ Ids(t) = Ids(body) /\ Tos(t) = {<<"fnref", i>>} \union Tos(body)

\* A text whose last item is a closing tag, without that tag.
LEMMA WithoutItsEnd ==
  ASSUME NEW s \in Seq(MarkupItems), s # << >>, Last(s) = EndTag("p")[1], Unmarked(s), Once(s)
  PROVE  /\ Front(s) \in Seq(MarkupItems) /\ Unmarked(Front(s)) /\ Once(Front(s))
         /\ Ids(Front(s)) = Ids(s) /\ Tos(Front(s)) = Tos(s)
         /\ (Closed(s) => Rises(Front(s), 1))
<1> DEFINE l == Len(s)
           r == Front(s)
<1>1. /\ r \in Seq(MarkupItems) /\ l \in Nat \ {0} /\ Len(r) = l - 1
      /\ \A i \in 1..(l - 1) : r[i] = s[i]
  BY AllButLast DEF Front
<1>2. s[l].is = "close" /\ s[l].id = << >> /\ s[l].to = << >>
  BY DEF Last, EndTag
<1> HIDE DEF r
<1>3. \A i \in 1..l : i \in 1..(l - 1) \/ i = l
  BY <1>1
<1>4. 1..(l - 1) \subseteq 1..l /\ l \in 1..l
  BY <1>1
<1>5. Unmarked(r) /\ Once(r)
  BY <1>1, <1>4 DEF Unmarked, Once
<1>6. {s[i].id : i \in 1..l} = {r[i].id : i \in 1..(l - 1)} \union {<< >>}
  <2>1. \A i \in 1..l : s[i].id \in {r[j].id : j \in 1..(l - 1)} \union {<< >>}
    BY <1>1, <1>2, <1>3
  <2>2. \A j \in 1..(l - 1) : r[j].id \in {s[i].id : i \in 1..l}
    BY <1>1, <1>4
  <2>3. << >> \in {s[i].id : i \in 1..l}
    BY <1>2, <1>4
  <2> QED BY <2>1, <2>2, <2>3
<1>7. {s[i].to : i \in 1..l} = {r[i].to : i \in 1..(l - 1)} \union {<< >>}
  <2>1. \A i \in 1..l : s[i].to \in {r[j].to : j \in 1..(l - 1)} \union {<< >>}
    BY <1>1, <1>2, <1>3
  <2>2. \A j \in 1..(l - 1) : r[j].to \in {s[i].to : i \in 1..l}
    BY <1>1, <1>4
  <2>3. << >> \in {s[i].to : i \in 1..l}
    BY <1>2, <1>4
  <2> QED BY <2>1, <2>2, <2>3
<1>8. Ids(r) = Ids(s) /\ Tos(r) = Tos(s)
  BY <1>1, <1>6, <1>7 DEF Ids, Tos
<1>9. ASSUME Closed(s) PROVE Rises(r, 1)
  <2>1. \A m \in 0..(l - 1) : Depth(r, m) = Depth(s, m)
    <3>1. l - 1 \in Nat /\ \A i \in 1..(l - 1) : r[i].is = s[i].is
      BY <1>1
    <3> QED BY <3>1, DepthSame
  <2>2. Depth(s, l) = Depth(s, l - 1) + (-1) /\ Depth(s, l - 1) \in Int
    <3>1. l - 1 \in Nat /\ (l - 1) + 1 = l
      BY <1>1
    <3>2. Depth(s, l - 1) \in Int /\ Depth(s, (l - 1) + 1) = Depth(s, l - 1) + Rise(s[(l - 1) + 1])
      BY <3>1, DepthStep
    <3>3. Rise(s[l]) = -1
      BY <1>2 DEF Rise
    <3> QED BY <3>1, <3>2, <3>3
  <2>3. Depth(s, l) = 0 /\ \A m \in 0..l : Depth(s, m) >= 0
    BY <1>9 DEF Closed, Rises
  <2>4. l - 1 \in 0..(l - 1) /\ \A m \in 0..(l - 1) : m \in 0..l
    BY <1>1
  <2>5. Depth(s, l - 1) = 1
    BY <2>2, <2>3
  <2> QED BY <1>1, <2>1, <2>3, <2>4, <2>5 DEF Rises
<1> QED BY <1>1, <1>5, <1>8, <1>9 DEF r

LEMMA FilledIs ==
  ASSUME NEW i \in Nat, NEW body \in Seq(MarkupItems), Unmarked(body), Once(body)
  PROVE  LET back == LinkTo(<<"fnref", i>>, Words)
         IN  Filled(IF body # << >> /\ Last(body) = EndTag("p")[1]
                    THEN Front(body) \o back \o EndTag("p") ELSE body \o back, body, i)
<1> DEFINE back == LinkTo(<<"fnref", i>>, Words)
           z    == EndTag("p")
<1>1. /\ back \in Seq(MarkupItems) /\ Closed(back) /\ Unmarked(back)
      /\ Ids(back) = {} /\ Tos(back) = {<<"fnref", i>>} /\ Once(back)
  BY MarksDiffer, LinkGathers
<1>2. Single(z, "close", 0)
  BY TagIs DEF HtmlNames
<1>3. z \in Seq(MarkupItems) /\ Ids(z) = {} /\ Tos(z) = {} /\ Once(z) /\ Unmarked(z)
  BY <1>2, PlainHasNone DEF Single, Plain, Unmarked
<1> HIDE DEF back, z
<1>4. CASE body # << >> /\ Last(body) = EndTag("p")[1]
  <2> DEFINE r  == Front(body)
             rb == r \o back
             t  == rb \o z
  <2>1. /\ r \in Seq(MarkupItems) /\ Unmarked(r) /\ Once(r)
        /\ Ids(r) = Ids(body) /\ Tos(r) = Tos(body) /\ (Closed(body) => Rises(r, 1))
    BY <1>4, WithoutItsEnd
  <2> HIDE DEF r
  <2>2. rb \in Seq(MarkupItems) /\ Gathers(r, back, rb) /\ Unmarked(rb) /\ Once(rb)
    BY <1>1, <2>1, ConcatProperties, IdsJoined, UnmarkedJoined, OnceJoined DEF Apart
  <2>3. Closed(body) => Rises(rb, 1)
    <3>1. GoesOn(back, 1, 0)
      BY DepthStep, <1>1 DEF Closed, Rises, GoesOn
    <3>2. Closed(body) => Rises(rb, 1 + 0)
      BY <1>1, <2>1, <3>1, RisesOn
    <3> QED BY <3>2
  <2> HIDE DEF rb
  <2>4. t \in Seq(MarkupItems) /\ Gathers(rb, z, t) /\ Unmarked(t) /\ Once(t)
    BY <1>3, <2>2, ConcatProperties, IdsJoined, UnmarkedJoined, OnceJoined DEF Apart
  <2>5. Closed(body) => Closed(t)
    <3>1. GoesOn(z, 1, -1)
      BY <1>2, OneItem DEF Single, Rise, GoesOn
    <3>2. Closed(body) => Rises(t, 1 + (-1))
      BY <1>3, <2>2, <2>3, <3>1, RisesOn
    <3> QED BY <3>2 DEF Closed
  <2> HIDE DEF t
  <2>6. Filled(t, body, i)
    BY <1>1, <1>3, <2>1, <2>2, <2>4, <2>5 DEF Filled, Gathers
  <2> QED BY <1>4, <2>6 DEF t, rb, r, z, back
<1>5. CASE ~(body # << >> /\ Last(body) = EndTag("p")[1])
  <2> DEFINE t == body \o back
  <2>1. t \in Seq(MarkupItems) /\ Gathers(body, back, t) /\ Unmarked(t) /\ Once(t)
    BY <1>1, ConcatProperties, IdsJoined, UnmarkedJoined, OnceJoined DEF Apart
  <2>2. Closed(body) => Closed(t)
    BY <1>1, ClosedJoined
  <2> HIDE DEF t
  <2>3. Filled(t, body, i)
    BY <1>1, <2>1, <2>2 DEF Filled, Gathers
  <2> QED BY <1>5, <2>3 DEF t, back
<1> QED BY <1>4, <1>5

ItemOf(t, i) ==
  /\ t \in Seq(MarkupItems) /\ Unmarked(t) /\ Once(t)
  /\ (Closed(footnotes[i].html) => Closed(t))
  /\ Ids(t) = {<<"fn", i>>} \union Ids(footnotes[i].html)
  /\ Tos(t) = {<<"fnref", i>>} \union Tos(footnotes[i].html)

LEMMA NoteItemIs ==
  ASSUME NEW i \in Nat, footnotes[i].html \in Seq(MarkupItems),
         Unmarked(footnotes[i].html), Once(footnotes[i].html),
         <<"fn", i>> \notin Ids(footnotes[i].html)
  PROVE  ItemOf(NoteItem(i), i)
<1> DEFINE body == footnotes[i].html
           back == LinkTo(<<"fnref", i>>, Words)
           filled == IF body # << >> /\ Last(body) = EndTag("p")[1]
                     THEN Front(body) \o back \o EndTag("p") ELSE body \o back
           a == WithId(Tag("li", 0), <<"fn", i>>)
           t == a \o filled \o EndTag("li")
<1>1. Filled(filled, body, i)
  BY FilledIs
<1>2. NoteItem(i) = t
  BY DEF NoteItem
<1>3. Headed(a, <<"fn", i>>)
  BY MarksDiffer, HeadedIs DEF HtmlNames
<1> HIDE DEF filled, a
<1>4. Wrapped(t, filled, <<"fn", i>>)
  BY <1>1, <1>3, WrapIs DEF Filled, HtmlNames
<1>5. <<"fn", i>> # << >>
  BY MarksDiffer
<1> HIDE DEF t
<1>6. Closed(body) => Closed(t)
  BY <1>1, <1>4, WholeIsClosed DEF Filled, Wrapped
<1>7. ItemOf(t, i)
  BY <1>1, <1>4, <1>5, <1>6 DEF ItemOf, Filled, Wrapped
<1> QED BY <1>2, <1>7

NotesReady ==
  /\ footnotes \in Seq(FootnotesOf)
  /\ \A i \in 1..Len(footnotes) :
       /\ footnotes[i].defined /\ footnotes[i].html \in Seq(MarkupItems)
       /\ Unmarked(footnotes[i].html) /\ Once(footnotes[i].html)
       /\ \A id \in Ids(footnotes[i].html) : \E j \in Nat : id = <<"fnref", j>>
  /\ \A i, j \in 1..Len(footnotes) : i # j => Apart(footnotes[i].html, footnotes[j].html)

\* The items of the first n notes.
ItemsOf(s, n) ==
  /\ s \in Seq(MarkupItems) /\ Unmarked(s) /\ Once(s)
  /\ (\A i \in 1..n : Closed(footnotes[i].html)) => Closed(s)
  /\ Ids(s) = {<<"fn", i>> : i \in 1..n} \union (UNION {Ids(footnotes[i].html) : i \in 1..n})
  /\ Tos(s) = {<<"fnref", i>> : i \in 1..n} \union (UNION {Tos(footnotes[i].html) : i \in 1..n})

LEMMA NoItems ==
  ItemsOf(<< >>, 0)
<1>1. << >> \in Seq(MarkupItems) /\ Len(<< >>) = 0 /\ 1..0 = {}
  OBVIOUS
<1>2. Ids(<< >>) = {} /\ Tos(<< >>) = {} /\ Once(<< >>) /\ Unmarked(<< >>)
  BY <1>1 DEF Ids, Tos, Once, Unmarked
<1> HIDE DEF MarkupItems
<1> QED BY <1>1, <1>2, EmptyIsClosed DEF ItemsOf

LEMMA OneMoreItem ==
  ASSUME NotesReady, NEW n \in 1..Len(footnotes), NEW s, ItemsOf(s, n - 1)
  PROVE  ItemsOf(s \o NoteItem(n), n)
<1> DEFINE t  == NoteItem(n)
           st == s \o t
<1>1. n \in Nat /\ Len(footnotes) \in Nat /\ \A i \in 1..n : i \in 1..Len(footnotes)
  BY LenProperties DEF NotesReady
<1>2. \A i \in 1..n : i \in 1..(n - 1) \/ i = n
  BY <1>1
<1>3. 1..(n - 1) \subseteq 1..n /\ n \in 1..n /\ n \notin 1..(n - 1)
  BY <1>1
<1>4. ItemOf(t, n)
  BY <1>1, MarksDiffer, NoteItemIs DEF NotesReady
<1> HIDE DEF t
<1>5. Apart(s, t)
  <2>1. ASSUME NEW i \in 1..(n - 1) PROVE <<"fn", i>> \notin Ids(t)
    BY <1>1, <1>2, <1>3, MarksDiffer, <1>4 DEF NotesReady, ItemOf
  <2>2. ASSUME NEW i \in 1..(n - 1), NEW id \in Ids(footnotes[i].html) PROVE id \notin Ids(t)
    BY <1>1, <1>3, <2>2, MarksDiffer, <1>4 DEF NotesReady, Apart, ItemOf
  <2> QED BY <2>1, <2>2 DEF Apart, ItemsOf
<1>6. /\ st \in Seq(MarkupItems) /\ Gathers(s, t, st) /\ Unmarked(st) /\ Once(st)
  BY <1>4, <1>5, ConcatProperties, IdsJoined, UnmarkedJoined, OnceJoined DEF ItemOf, ItemsOf
<1>7. (\A i \in 1..n : Closed(footnotes[i].html)) => Closed(st)
  BY <1>3, <1>4, ClosedJoined DEF ItemOf, ItemsOf
<1>8. (UNION {Ids(footnotes[i].html) : i \in 1..n}) =
               (UNION {Ids(footnotes[i].html) : i \in 1..(n - 1)}) \union Ids(footnotes[n].html)
  BY <1>2, <1>3
<1>9. (UNION {Tos(footnotes[i].html) : i \in 1..n}) =
        (UNION {Tos(footnotes[i].html) : i \in 1..(n - 1)}) \union Tos(footnotes[n].html)
  BY <1>2, <1>3
<1>10. /\ {<<"fn", i>> : i \in 1..n} = {<<"fn", i>> : i \in 1..(n - 1)} \union {<<"fn", n>>}
       /\ {<<"fnref", i>> : i \in 1..n} =
            {<<"fnref", i>> : i \in 1..(n - 1)} \union {<<"fnref", n>>}
  BY <1>2, <1>3
<1> HIDE DEF st
<1>11. Ids(st) = {<<"fn", i>> : i \in 1..n} \union (UNION {Ids(footnotes[i].html) : i \in 1..n})
  BY <1>4, <1>6, <1>8, <1>10 DEF ItemOf, ItemsOf, Gathers
<1>12. Tos(st) = {<<"fnref", i>> : i \in 1..n} \union (UNION {Tos(footnotes[i].html) : i \in 1..n})
  BY <1>4, <1>6, <1>9, <1>10 DEF ItemOf, ItemsOf, Gathers
<1>13. ItemsOf(st, n)
  BY <1>6, <1>7, <1>11, <1>12 DEF ItemsOf
<1> QED BY <1>13 DEF st, t

LEMMA NoteItemsAre ==
  ASSUME NotesReady
  PROVE  ItemsOf(NoteItems, Len(footnotes))
<1> DEFINE n == Len(footnotes)
           V == Seq(MarkupItems)
           Step(x, i) == x \o IF footnotes[i].defined THEN NoteItem(i) ELSE << >>
           step == [p \in V \X (1..n) |-> Step(p[1], p[2])]
           Rec(f) == f = [i \in 0..n |->
                            IF i = 0 THEN << >>
                            ELSE f[i - 1] \o IF footnotes[i].defined THEN NoteItem(i) ELSE << >>]
           items == CHOOSE f : Rec(f)
<1>1. n \in Nat
  BY LenProperties DEF NotesReady
<1>2. << >> \in V
  BY EmptySeq
<1>3. \A i \in 1..n : NoteItem(i) \in V
  <2>1. ASSUME NEW i \in 1..n PROVE NoteItem(i) \in V
    <3>1. i \in Nat /\ <<"fn", i>> \notin Ids(footnotes[i].html)
      BY <1>1, MarksDiffer DEF NotesReady
    <3>2. ItemOf(NoteItem(i), i)
      BY <3>1, NoteItemIs DEF NotesReady
    <3> QED BY <3>2 DEF ItemOf
  <2> QED BY <2>1
<1>4. step \in [V \X (1..n) -> V]
  BY <1>2, <1>3, ConcatProperties
<1>5. PICK f \in [0..n -> V] : f[0] = << >> /\ \A i \in 1..n : f[i] = step[<<f[i - 1], i>>]
  <2> HIDE DEF step, n, V
  <2>1. \E f : Solves(f, V, << >>, n, step)
    BY <1>1, <1>2, <1>4, RecursionExists
  <2> QED BY <2>1 DEF Solves
<1>6. \A i \in 1..n : f[i] = Step(f[i - 1], i)
  <2> SUFFICES ASSUME NEW i \in 1..n PROVE f[i] = Step(f[i - 1], i)
    OBVIOUS
  <2>1. i - 1 \in 0..n
    BY <1>1
  <2>2. f[i - 1] \in V /\ f[i] = step[<<f[i - 1], i>>]
    BY <1>5, <2>1
  <2> HIDE DEF Step, V
  <2> QED BY <2>2
<1>7. Rec(f)
  <2>1. \A i \in 0..n : i # 0 => i \in 1..n
    BY <1>1
  <2>2. f = [i \in 0..n |-> f[i]]
    BY <1>5
  <2> HIDE DEF V, n
  <2> QED BY <1>5, <1>6, <2>1, <2>2
<1>8. Rec(items)
  BY <1>7
<1>9. NoteItems = items[n]
  BY DEF NoteItems
<1> HIDE DEF items
<1>10. /\ items[0] = << >>
       /\ \A i \in 1..n :
            items[i] = items[i - 1] \o IF footnotes[i].defined THEN NoteItem(i) ELSE << >>
  <2>1. 0 \in 0..n /\ \A i \in 1..n : i \in 0..n /\ i # 0
    BY <1>1
  <2> QED BY <1>8, <2>1
<1>11. \A i \in 1..n : items[i] = items[i - 1] \o NoteItem(i)
  BY <1>10 DEF NotesReady
<1> DEFINE Bad == {k \in 0..n : ~ItemsOf(items[k], k)}
<1> HIDE DEF n
<1>12. ASSUME Bad # {} PROVE FALSE
  <2>1. PICK k \in Bad : \A j \in Bad : k <= j
    <3>1. Bad \in SUBSET Nat
      BY <1>1
    <3> HIDE DEF Bad
    <3> QED BY <1>12, <3>1, NatLeast
  <2>2. k \in 0..n /\ ~ItemsOf(items[k], k)
    BY <2>1
  <2>3. k # 0
    BY <1>10, <2>2, NoItems
  <2>4. k \in 1..n /\ k - 1 \in 0..n /\ ~ (k <= k - 1)
    BY <1>1, <2>2, <2>3
  <2>5. ItemsOf(items[k - 1], k - 1)
    BY <2>1, <2>4
  <2>6. ItemsOf(items[k - 1] \o NoteItem(k), k)
    BY <2>4, <2>5, OneMoreItem DEF n
  <2> QED BY <1>11, <2>2, <2>4, <2>6
<1>13. n \in 0..n
  BY <1>1
<1>14. ItemsOf(items[n], n)
  BY <1>12, <1>13
<1> QED BY <1>9, <1>14 DEF n

\* What the section of the footnotes has, and that it is one element.
SectionOf(t) ==
  LET n == Len(footnotes)
  IN  /\ t \in Seq(MarkupItems) /\ Unmarked(t) /\ Once(t)
      /\ (\A i \in 1..n : Closed(footnotes[i].html)) => t = << >> \/ Whole(t)
      /\ Ids(t) = {<<"fn", i>> : i \in 1..n} \union (UNION {Ids(footnotes[i].html) : i \in 1..n})
      /\ Tos(t) = {<<"fnref", i>> : i \in 1..n} \union (UNION {Tos(footnotes[i].html) : i \in 1..n})

LEMMA SectionIs ==
  ASSUME NotesReady
  PROVE  SectionOf(FootnoteSection)
<1>1. Len(footnotes) \in Nat /\ DOMAIN footnotes = 1..Len(footnotes)
  BY LenProperties DEF NotesReady
<1>2. CASE Len(footnotes) = 0
  BY <1>1, <1>2, NoItems DEF FootnoteSection, SectionOf, ItemsOf
<1>3. CASE Len(footnotes) # 0
  <2> DEFINE items == NoteItems
             ol    == Element("ol", 0, items)
             h     == Element("h2", 0, Words)
             inner == h \o ol
             t     == Element("section", 0, inner)
  <2>1. FootnoteSection = t
    BY <1>1, <1>3 DEF NotesReady, t, FootnoteSection
  <2>2. ItemsOf(items, Len(footnotes))
    BY NoteItemsAre
  <2>3. Piece(h, 0) /\ Ids(h) = {} /\ Tos(h) = {} /\ Once(h) /\ Unmarked(h)
    BY WordsIn, PlainHasNone DEF HtmlNames, Piece, Plain, Unmarked
  <2>4. ASSUME NEW name \in HtmlNames, NEW s \in Seq(MarkupItems), Unmarked(s), Once(s),
               << >> \notin Ids(s)
        PROVE  Wrapped(Element(name, 0, s), s, << >>)
    BY MarksDiffer, <2>4, HeadedIs, WrapIs DEF Element
  <2>5. \A s : << >> \notin Ids(s)
    BY DEF Ids
  <2> HIDE DEF items, h
  <2>6. Wrapped(ol, items, << >>)
    BY <2>2, <2>4, <2>5 DEF ItemsOf, HtmlNames
  <2> HIDE DEF ol
  <2>7. {<< >>} \ {<< >>} = {}
    OBVIOUS
  <2>8. /\ inner \in Seq(MarkupItems) /\ Gathers(h, ol, inner) /\ Unmarked(inner) /\ Once(inner)
    BY <2>3, <2>6, ConcatProperties, IdsJoined, UnmarkedJoined, OnceJoined DEF Apart, Piece,
       Plain, Wrapped
  <2>9. Closed(items) => Closed(inner)
    BY <2>6, WholeIsClosed, <2>3, ClosedJoined DEF Wrapped, Piece, Plain
  <2> HIDE DEF inner
  <2>10. Wrapped(t, inner, << >>)
    BY <2>4, <2>5, <2>8 DEF HtmlNames
  <2> HIDE DEF t
  <2>11. SectionOf(t)
    BY <2>2, <2>3, <2>6, <2>7, <2>8, <2>9, <2>10 DEF SectionOf, Wrapped, ItemsOf, Gathers
  <2> QED BY <2>1, <2>11
<1> QED BY <1>2, <1>3

-----------------------------------------------------------------------------
(* The types of the walk's state.                                                *)

\* One container more, and one less.
Deeper(c) ==
  /\ within' \in Seq(Containers) /\ Len(within) \in Nat /\ Len(within') = Len(within) + 1
  /\ within'[Len(within) + 1] = c
  /\ \A k \in 1..Len(within) : within'[k] = within[k]

Shallower ==
  /\ within' \in Seq(Containers) /\ Len(within) \in Nat \ {0} /\ Len(within') = Len(within) - 1
  /\ Last(within) = within[Len(within)] /\ Last(within) \in Containers
  /\ \A k \in 1..(Len(within) - 1) : within'[k] = within[k]

LEMMA ContainerIs ==
  ASSUME HtmlTyped, NEW kind \in {"p", "blockquote", "list", "li", "dl", "dt", "dd", "h", "note"},
         NEW label \in Labels \union {""}, NEW held \in Seq(MarkupItems),
         within' = Append(within, Container(kind, label, held))
  PROVE  Deeper(Container(kind, label, held))
<1> DEFINE c == Container(kind, label, held)
<1>1. within \in Seq(Containers) /\ line \in Nat /\ Len(markup.out) \in Nat
  BY MarkupParts DEF HtmlTyped
<1>2. c \in Containers
  BY <1>1 DEF Containers, Container
<1> HIDE DEF c, Containers
<1>3. within' = Append(within, c)
  BY DEF c
<1>4. /\ within' \in Seq(Containers) /\ Len(within') = Len(within) + 1
      /\ within'[Len(within) + 1] = c /\ \A k \in 1..Len(within) : within'[k] = within[k]
  <2> DEFINE X == Containers
             w == Append(within, c)
  <2>1. within \in Seq(X) /\ c \in X
    BY <1>1, <1>2
  <2> HIDE DEF X
  <2>2. w \in Seq(X) /\ Longer(w, within, c)
    BY <2>1, AppendIsLonger
  <2> HIDE DEF w
  <2>3. within' = w
    BY <1>3 DEF w
  <2> QED BY <2>2, <2>3 DEF X, Longer
<1>5. Len(within) \in Nat
  BY <1>1, LenProperties
<1>6. Deeper(c)
  BY <1>4, <1>5 DEF Deeper
<1> QED BY <1>6 DEF c

LEMMA BackIs ==
  ASSUME HtmlTyped, within # << >>, within' = Front(within)
  PROVE  Shallower
BY TopIs DEF Shallower

LEMMA IndexedIs ==
  ASSUME NEW from \in Nat, NEW at \in Nat, NEW m, m.out \in Seq(MarkupItems)
  PROVE  Indexed(from, at, m) \in Seq([first : Nat, last : Nat, line : Nat])
<1> DEFINE X == [first : Nat, last : Nat, line : Nat]
<1>1. Len(m.out) \in Nat
  BY LenProperties
<1>2. [first |-> from + 1, last |-> Len(m.out), line |-> at] \in X
  BY <1>1
<1>3. << [first |-> from + 1, last |-> Len(m.out), line |-> at] >> \in Seq(X)
  BY <1>2, OneInSeq
<1>4. << >> \in Seq(X)
  BY EmptySeq
<1> HIDE DEF X
<1>5. Indexed(from, at, m) \in Seq(X)
  BY <1>3, <1>4 DEF Indexed
<1> QED BY <1>5 DEF X

LEMMA PiecesIndexed ==
  ASSUME HtmlTyped, NEW from \in Nat, NEW at \in Nat, markup'.out \in Seq(MarkupItems)
  PROVE  pieces \o Indexed(from, at, markup') \in Seq([first : Nat, last : Nat, line : Nat])
<1> DEFINE X == [first : Nat, last : Nat, line : Nat]
<1>1. Indexed(from, at, markup') \in Seq(X)
  BY IndexedIs
<1>2. pieces \in Seq(X)
  BY DEF HtmlTyped
<1> HIDE DEF X
<1>3. pieces \o Indexed(from, at, markup') \in Seq(X)
  BY <1>1, <1>2, ConcatProperties
<1> QED BY <1>3 DEF X

\* The pieces after the walk is back around a container.
LEMMA BackIndexes ==
  ASSUME HtmlTyped, NEW kind, BackFrom(kind), markup' \in [out : Seq(MarkupItems), raw : SUBSET RawSorts]
  PROVE  /\ Shallower /\ pieces' \in Seq([first : Nat, last : Nat, line : Nat])
         /\ line' \in Nat /\ within[Len(within)].kind = kind
<1>1. Shallower
  BY BackIs DEF BackFrom
<1>2. markup'.out \in Seq(MarkupItems)
  OBVIOUS
<1>3. CASE Len(within) = 1
  BY <1>1, <1>3, <1>2, PiecesIndexed DEF Shallower, Containers, BackFrom, HtmlTyped
<1>4. CASE Len(within) # 1
  BY <1>4, <1>1 DEF BackFrom, HtmlTyped, Shallower
<1> QED BY <1>3, <1>4

LEMMA LeafTyped ==
  ASSUME HtmlTyped, NEW t, NEW raw, LeafOf(t, raw)
  PROVE  HtmlTyped'
<1>1. markup' \in [out : Seq(MarkupItems), raw : SUBSET RawSorts] /\ markup'.out \in Seq(MarkupItems)
  BY DEF LeafOf, WrittenIn
<1>2. pieces' \in Seq([first : Nat, last : Nat, line : Nat])
  BY <1>1, MarkupParts, PiecesIndexed DEF HtmlTyped, LeafOf
<1>3. line' \in Nat /\ within' \in Seq(Containers) /\ footnotes' \in Seq(FootnotesOf)
  BY DEF LeafOf, HtmlTyped
<1> QED BY <1>1, <1>2, <1>3 DEF HtmlTyped

LEMMA InlineTyped ==
  ASSUME HtmlTyped, NEW t, NEW raw, InlineOf(t, raw)
  PROVE  HtmlTyped'
BY DEF InlineOf, WrittenIn, HtmlTyped

LEMMA EnterTyped ==
  ASSUME HtmlTyped, NEW kind, NEW t, EnterOf(kind, t)
  PROVE  HtmlTyped' /\ Deeper(Container(kind, "", << >>))
<1>1. Deeper(Container(kind, "", << >>))
  BY EmptySeq, ContainerIs DEF EnterOf
<1>2. within' \in Seq(Containers)
  BY <1>1 DEF Deeper
<1>3. markup' \in [out : Seq(MarkupItems), raw : SUBSET RawSorts]
  BY DEF EnterOf, WrittenIn
<1>4. line \in Nat /\ line' = line + 1 /\ footnotes' = footnotes /\ pieces' = pieces
  BY DEF EnterOf, HtmlTyped
<1>5. line' \in Nat
  BY <1>4
<1> HIDE DEF Containers, MarkupItems
<1>6. HtmlTyped'
  BY <1>2, <1>3, <1>4, <1>5 DEF HtmlTyped
<1> QED BY <1>1, <1>6

LEMMA ApartTyped ==
  ASSUME HtmlTyped, NEW kind, NEW label, ApartOf(kind, label)
  PROVE  HtmlTyped' /\ Deeper(Container(kind, label, markup.out))
<1>1. Deeper(Container(kind, label, markup.out))
  BY MarkupParts, ContainerIs DEF ApartOf
<1>2. markup' \in [out : Seq(MarkupItems), raw : SUBSET RawSorts]
  BY EmptySeq, MarkupParts DEF ApartOf
<1>3. within' \in Seq(Containers)
  BY <1>1 DEF Deeper
<1>4. line \in Nat /\ line' = line + 1 /\ footnotes' = footnotes /\ pieces' = pieces
  BY DEF ApartOf, HtmlTyped
<1>5. line' \in Nat
  BY <1>4
<1> HIDE DEF Containers, MarkupItems
<1>6. HtmlTyped'
  BY <1>2, <1>3, <1>4, <1>5 DEF HtmlTyped
<1> QED BY <1>1, <1>6

LEMMA CloseTyped ==
  ASSUME HtmlTyped, NEW kind, CloseOf(kind)
  PROVE  HtmlTyped' /\ Shallower /\ within[Len(within)].kind = kind
<1>1. markup' \in [out : Seq(MarkupItems), raw : SUBSET RawSorts] /\ BackFrom(kind)
  BY DEF CloseOf, WrittenIn
<1>2. /\ Shallower /\ pieces' \in Seq([first : Nat, last : Nat, line : Nat])
      /\ line' \in Nat /\ within[Len(within)].kind = kind
  BY <1>1, BackIndexes
<1> QED BY <1>1, <1>2 DEF CloseOf, HtmlTyped, Shallower

\* What a heading writes.
LEMMA HeadingWrites ==
  ASSUME HtmlTyped, NEW t, HeadingOf(t)
  PROVE  /\ t \in Seq(MarkupItems) /\ Last(within).held \in Seq(MarkupItems)
         /\ Last(within).line \in Nat
         /\ (Unmarked(markup.out) => Lined(t, Last(within).line))
         /\ Ids(t) = Ids(markup.out) /\ Tos(t) = Tos(markup.out)
         /\ (Once(markup.out) => Once(t))
         /\ (Closed(markup.out) => Whole(t))
<1> DEFINE at == Last(within).line
           o  == markup.out
           e  == Element("a", 0, << >>)
           oe == o \o e
           a  == Tag("h", at)
           z  == EndTag("h")
           ao == a \o oe
<1>1. Last(within) \in Containers
  BY TopIs DEF HeadingOf, BackFrom
<1>2. at \in Nat /\ Last(within).held \in Seq(MarkupItems)
  BY <1>1 DEF Containers
<1>3. o \in Seq(MarkupItems)
  BY MarkupParts
<1>4. t = ao \o z
  BY DEF HeadingOf, Element
<1>5. Piece(e, 0)
  BY PieceEmpty, PieceOfElement DEF HtmlNames
<1>6. Single(a, "open", at) /\ Single(z, "close", 0)
  BY <1>2, TagIs DEF HtmlNames
<1> HIDE DEF e, a, z, at, o
<1>7. /\ Ids(e) = {} /\ Tos(e) = {} /\ Once(e) /\ Ids(a) = {} /\ Tos(a) = {} /\ Once(a)
      /\ Ids(z) = {} /\ Tos(z) = {} /\ Once(z)
      /\ e \in Seq(MarkupItems) /\ a \in Seq(MarkupItems) /\ z \in Seq(MarkupItems)
  BY <1>5, <1>6, PlainHasNone DEF Single, Piece, Plain
<1>8. /\ oe \in Seq(MarkupItems) /\ Gathers(o, e, oe) /\ (Once(o) => Once(oe))
      /\ (Closed(o) => Closed(oe)) /\ (Unmarked(o) => Unmarked(oe))
  BY <1>7, <1>5, <1>3, ConcatProperties, IdsJoined, OnceJoined, ClosedJoined, UnmarkedJoined DEF
     Apart, Piece, Plain, Unmarked
<1> HIDE DEF oe
<1>9. ao \in Seq(MarkupItems) /\ Gathers(a, oe, ao) /\ (Once(oe) => Once(ao))
  BY <1>7, <1>8, ConcatProperties, IdsJoined, OnceJoined DEF Apart
<1>10. Closed(oe) => Whole(ao \o z)
  BY <1>6, <1>7, <1>8, EnclosedIsWhole DEF Single
<1>11. Unmarked(oe) => Lined(ao, at)
  <2>1. Parted(a, oe, ao)
    BY <1>7, <1>8, JoinedAre, JoinedIsParted
  <2> HIDE DEF ao
  <2>2. ASSUME Unmarked(oe), NEW i \in 1..Len(ao) PROVE ao[i].line \in {0, at}
    BY <2>1, <1>6, <2>2 DEF Parted, Single, Plain, Unmarked
  <2> QED BY <2>2 DEF Lined
<1> HIDE DEF ao
<1>12. t \in Seq(MarkupItems) /\ Gathers(ao, z, t) /\ (Once(ao) => Once(t))
  BY <1>7, <1>4, <1>9, ConcatProperties, IdsJoined, OnceJoined DEF Apart
<1>13. Lined(ao, at) => Lined(t, at)
  <2>1. Parted(ao, z, ao \o z)
    BY <1>7, <1>9, JoinedAre, JoinedIsParted
  <2> DEFINE aoz == ao \o z
  <2>2. Parted(ao, z, aoz)
    BY <2>1
  <2> HIDE DEF aoz
  <2>3. Lined(ao, at) => Lined(aoz, at)
    BY <1>6, <2>2 DEF Parted, Lined, Single, Plain
  <2> QED BY <1>4, <2>3 DEF aoz
<1>14. Unmarked(o) => Lined(t, at)
  BY <1>8, <1>11, <1>13
<1>15. Ids(t) = Ids(o) /\ Tos(t) = Tos(o)
  BY <1>7, <1>8, <1>9, <1>12 DEF Gathers
<1>16. (Once(o) => Once(t)) /\ (Closed(o) => Whole(t))
  BY <1>4, <1>8, <1>9, <1>10, <1>12
<1> QED BY <1>2, <1>12, <1>14, <1>15, <1>16 DEF o, at

LEMMA HeadingTyped ==
  ASSUME HtmlTyped, NEW t, HeadingOf(t)
  PROVE  HtmlTyped' /\ Shallower /\ within[Len(within)].kind = "h"
<1>1. t \in Seq(MarkupItems) /\ Last(within).held \in Seq(MarkupItems)
  BY HeadingWrites
<1>2. markup' \in [out : Seq(MarkupItems), raw : SUBSET RawSorts]
  BY <1>1, ConcatProperties, MarkupParts DEF HeadingOf
<1>3. /\ Shallower /\ pieces' \in Seq([first : Nat, last : Nat, line : Nat])
      /\ line' \in Nat /\ within[Len(within)].kind = "h"
  BY <1>2, BackIndexes DEF HeadingOf
<1> QED BY <1>2, <1>3 DEF HeadingOf, HtmlTyped, Shallower

LEMMA NoteTyped ==
  ASSUME HtmlTyped, NEW f, NEW n, NEW label, NoteOf(f, n, label)
  PROVE  HtmlTyped' /\ Shallower /\ within[Len(within)].kind = "note"
<1>1. Last(within).held \in Seq(MarkupItems)
  BY TopIs DEF NoteOf, BackFrom, Containers
<1>2. markup' \in [out : Seq(MarkupItems), raw : SUBSET RawSorts]
  BY <1>1, MarkupParts DEF NoteOf
<1>3. /\ Shallower /\ pieces' \in Seq([first : Nat, last : Nat, line : Nat])
      /\ line' \in Nat /\ within[Len(within)].kind = "note"
  BY <1>2, BackIndexes DEF NoteOf
<1>4. footnotes' \in Seq(FootnotesOf)
  BY DEF NoteOf, Changed
<1> QED BY <1>2, <1>3, <1>4 DEF HtmlTyped, Shallower

LEMMA ReferenceTyped ==
  ASSUME HtmlTyped, NEW f, NEW n, NEW label, NEW t, ReferenceOf(f, n, label, t)
  PROVE  HtmlTyped'
BY DEF ReferenceOf, WrittenIn, Changed, HtmlTyped

\* Where the walk is after that.
LEMMA DeeperTop ==
  ASSUME NEW c, Deeper(c)
  PROVE  Within' = c.kind /\ within' # << >>
<1>1. within' # << >>
  BY EmptySeq DEF Deeper
<1>2. Last(within') = c
  BY DEF Deeper, Last
<1> QED BY <1>1, <1>2 DEF Within

LEMMA ShallowerTop ==
  ASSUME Shallower
  PROVE  \/ within' = << >> /\ Len(within) = 1 /\ Within' = "document"
         \/ Len(within) > 1 /\ within' # << >> /\ Within' = within[Len(within) - 1].kind
<1>1. CASE Len(within) = 1
  BY <1>1, EmptySeq DEF Shallower, Within
<1>2. CASE Len(within) > 1
  BY <1>2, EmptySeq DEF Shallower, Last, Within
<1> QED BY <1>1, <1>2 DEF Shallower

-----------------------------------------------------------------------------
(* The marks of source lines.                                                    *)

\* What the walk's place says of the marks, but for what is being written.
LinesAround ==
  /\ \A k \in 1..Len(within) : Ascends(within[k].held, within[k].line) /\ within[k].line < line
  /\ \A k \in 1..(Len(within) - 1) : within[k].kind # "h"

LEMMA AscendsLater ==
  ASSUME NEW s \in Seq(MarkupItems), NEW a \in Nat, NEW b \in Nat, Ascends(s, a), a <= b
  PROVE  Ascends(s, b)
<1>1. \A i \in 1..Len(s) : s[i].line \in Nat
  <2>1. \A i \in 1..Len(s) : s[i] \in MarkupItems
    BY ElementOfSeq
  <2> QED BY <2>1 DEF MarkupItems
<1> QED BY <1>1 DEF Ascends

LEMMA EmptyAscends ==
  ASSUME NEW n
  PROVE  Ascends(<< >>, n) /\ Unmarked(<< >>)
<1>1. 1..Len(<< >>) = {}
  OBVIOUS
<1> QED BY <1>1 DEF Ascends, Unmarked

\* A text that goes on with marks of one line.
LEMMA LinesWritten ==
  ASSUME HtmlTyped, LinesInv, NEW t \in Seq(MarkupItems), NEW raw,
         WrittenIn(markup', t, raw), Lined(t, line), line' = line + 1
  PROVE  Ascends(markup'.out, line')
<1> DEFINE now == line + 1
<1>1. Ascends(markup.out, line) /\ line \in Nat /\ markup.out \in Seq(MarkupItems)
  BY MarkupParts DEF LinesInv, HtmlTyped
<1>2. now \in Nat /\ line <= now /\ line <= line /\ line < now /\ line' = now
  BY <1>1
<1> HIDE DEF now
<1>3. Ascends(markup.out \o t, now)
  BY <1>1, <1>2, AscendsOn
<1>4. markup'.out = markup.out \o t
  BY DEF WrittenIn
<1> QED BY <1>2, <1>3, <1>4

LEMMA UnmarkedWritten ==
  ASSUME HtmlTyped, LinesInv, NEW t \in Seq(MarkupItems), NEW raw,
         WrittenIn(markup', t, raw), Lined(t, 0), line' = line
  PROVE  Ascends(markup'.out, line')
<1> DEFINE n == 0
<1>1. Ascends(markup.out, line) /\ line \in Nat /\ markup.out \in Seq(MarkupItems)
  BY MarkupParts DEF LinesInv, HtmlTyped
<1>2. n \in Nat /\ n = 0 /\ line <= line /\ Lined(t, n)
  BY <1>1
<1> HIDE DEF n
<1>3. Ascends(markup.out \o t, line)
  BY <1>1, <1>2, AscendsOn
<1>4. markup'.out = markup.out \o t
  BY DEF WrittenIn
<1> QED BY <1>3, <1>4

LEMMA DeeperLines ==
  ASSUME HtmlTyped, LinesInv, NEW kind, NEW label, NEW held,
         Deeper(Container(kind, label, held)), Within # "h", line' = line + 1,
         Ascends(held, line)
  PROVE  LinesAround' /\ (kind # "h" => Within' # "h") /\ Within' = kind
<1> DEFINE c == Container(kind, label, held)
<1>1. c.kind = kind /\ c.line = line /\ c.held = held
  BY DEF Container
<1>2. Deeper(c)
  OBVIOUS
<1> HIDE DEF c
<1>3. line \in Nat /\ \A k \in 1..Len(within) : within[k].line \in Nat
  <2>1. \A k \in 1..Len(within) : within[k] \in Containers
    BY ElementOfSeq DEF HtmlTyped
  <2> QED BY <2>1 DEF Containers, HtmlTyped
<1>4. ASSUME NEW k \in 1..Len(within')
      PROVE  Ascends(within'[k].held, within'[k].line) /\ within'[k].line < line'
  BY <1>2, <1>3, <1>1 DEF Deeper, LinesInv
<1>5. ASSUME NEW k \in 1..(Len(within') - 1) PROVE within'[k].kind # "h"
  BY <1>2, TopIs DEF Deeper, LinesInv
<1>6. Within' = kind
  BY <1>1, <1>2, DeeperTop
<1> QED BY <1>4, <1>5, <1>6 DEF LinesAround

LEMMA ShallowerLines ==
  ASSUME HtmlTyped, LinesInv, Shallower, line' = line
  PROVE  LinesAround' /\ Within' # "h"
<1>1. \A k \in 1..Len(within') : k \in 1..(Len(within) - 1) /\ k \in 1..Len(within)
                                 /\ within'[k] = within[k]
  BY DEF Shallower
<1>2. \A k \in 1..(Len(within') - 1) : k \in 1..Len(within')
  BY DEF Shallower
<1>3. LinesAround'
  BY <1>1, <1>2 DEF LinesAround, LinesInv
<1>4. Within' # "h"
  BY ShallowerTop DEF Shallower, LinesInv
<1> QED BY <1>3, <1>4

\* The notes after one of them is changed, or entered.
NotesAfter(n, old, x) ==
  /\ footnotes' \in Seq(FootnotesOf) /\ Len(footnotes) \in Nat /\ Len(footnotes') \in Nat
  /\ Len(footnotes) <= Len(footnotes') /\ n \in 1..Len(footnotes') /\ footnotes'[n] = x
  /\ \A i \in 1..Len(footnotes') :
       i # n => i \in 1..Len(footnotes) /\ footnotes'[i] = footnotes[i]
  /\ \/ n \in 1..Len(footnotes) /\ footnotes[n] = old
     \/ /\ n \notin 1..Len(footnotes)
        /\ old = [label |-> x.label, html |-> << >>, defined |-> FALSE, refs |-> 0]
  /\ \A i \in 1..Len(footnotes) : footnotes[i].label = x.label => i = n
  /\ old.label = x.label

LEMMA NotesAre ==
  ASSUME NEW f, NEW n, NEW label, NEW x, Entered(f, n, label), Changed(footnotes', f, n, x),
         x.label = label
  PROVE  NotesAfter(n, f[n], x)
<1>1. /\ f \in Seq(FootnotesOf) /\ n \in 1..Len(f) /\ f[n].label = label
      /\ Len(footnotes) \in Nat /\ Len(f) \in Nat /\ Len(footnotes) <= Len(f)
      /\ \A i \in 1..Len(footnotes) : f[i] = footnotes[i]
      /\ \A i \in 1..Len(f) : i \notin 1..Len(footnotes) =>
           i = n /\ f[i] = [label |-> label, html |-> << >>, defined |-> FALSE, refs |-> 0]
      /\ \A i \in 1..Len(f) : f[i].label = label => i = n
  BY DEF Entered
<1>2. /\ footnotes' \in Seq(FootnotesOf) /\ Len(footnotes') = Len(f) /\ footnotes'[n] = x
      /\ \A i \in 1..Len(f) : i # n => footnotes'[i] = f[i]
  BY DEF Changed
<1>3. \A i \in 1..Len(footnotes') :
        i # n => i \in 1..Len(footnotes) /\ footnotes'[i] = footnotes[i]
  BY <1>1, <1>2
<1>4. \/ n \in 1..Len(footnotes) /\ footnotes[n] = f[n]
      \/ /\ n \notin 1..Len(footnotes)
         /\ f[n] = [label |-> x.label, html |-> << >>, defined |-> FALSE, refs |-> 0]
  BY <1>1
<1>5. \A i \in 1..Len(footnotes) : footnotes[i].label = x.label => i = n
  BY <1>1
<1> QED BY <1>1, <1>2, <1>3, <1>4, <1>5 DEF NotesAfter

\* The note of a reference, and the one that ends.
Referred(old, label) ==
  [label |-> label, html |-> old.html, defined |-> old.defined, refs |-> old.refs + 1]
Ended(old, label) ==
  [label |-> label, html |-> StripSourceLines(markup.out), defined |-> TRUE, refs |-> old.refs]

LEMMA OldHtml ==
  ASSUME NEW n, NEW old, NEW x, NotesAfter(n, old, x)
  PROVE  old.html = << >> \/ (n \in 1..Len(footnotes) /\ old.html = footnotes[n].html)
BY DEF NotesAfter

LEMMA ReferenceNotes ==
  ASSUME NEW f, NEW n, NEW label, NEW t, ReferenceOf(f, n, label, t)
  PROVE  NotesAfter(n, f[n], Referred(f[n], label))
BY NotesAre DEF ReferenceOf, Referred

LEMMA NoteNotes ==
  ASSUME NEW f, NEW n, NEW label, NoteOf(f, n, label)
  PROVE  NotesAfter(n, f[n], Ended(f[n], label))
BY NotesAre DEF NoteOf, Ended

\* The walk stays where it is.
LEMMA StayingLines ==
  ASSUME HtmlTyped, LinesInv, within' = within, line' \in Nat, line <= line'
  PROVE  LinesAround' /\ Within' = Within
<1>1. \A k \in 1..Len(within) : within[k].line \in Nat /\ line \in Nat
  <2>1. \A k \in 1..Len(within) : within[k] \in Containers
    BY ElementOfSeq DEF HtmlTyped
  <2> QED BY <2>1 DEF Containers, HtmlTyped
<1>2. \A k \in 1..Len(within) : Ascends(within[k].held, within[k].line) /\ within[k].line < line'
  BY <1>1 DEF LinesInv
<1>3. \A k \in 1..(Len(within) - 1) : within[k].kind # "h"
  BY DEF LinesInv
<1>4. LinesAround'
  BY <1>2, <1>3 DEF LinesAround
<1> QED BY <1>4 DEF Within

LEMMA LeafLines ==
  ASSUME HtmlTyped, LinesInv, NEW t, NEW raw, LeafOf(t, raw)
  PROVE  LinesInv'
<1>1. line \in Nat /\ line' = line + 1 /\ within' = within /\ footnotes' = footnotes
      /\ WrittenIn(markup', t, raw)
  BY DEF LeafOf, HtmlTyped
<1>2. t \in Seq(MarkupItems) /\ Lined(t, line)
  BY PlainIsLined DEF LeafOf, Plain
<1>3. Ascends(markup'.out, line')
  BY <1>1, <1>2, LinesWritten
<1>4. LinesAround' /\ Within' = Within
  BY <1>1, StayingLines
<1>5. Within # "h"
  BY DEF LeafOf, BlockHere
<1> QED BY <1>1, <1>3, <1>4, <1>5 DEF LinesInv, LinesAround

LEMMA InlineLines ==
  ASSUME HtmlTyped, LinesInv, NEW t, NEW raw, InlineOf(t, raw)
  PROVE  LinesInv'
<1>1. line \in Nat /\ line' = line /\ within' = within /\ footnotes' = footnotes
      /\ WrittenIn(markup', t, raw)
  BY DEF InlineOf, HtmlTyped
<1>2. t \in Seq(MarkupItems) /\ Lined(t, 0) /\ Unmarked(t)
  BY PlainIsLined DEF InlineOf, Plain, Unmarked
<1>3. Ascends(markup'.out, line')
  BY <1>1, <1>2, UnmarkedWritten
<1>4. LinesAround' /\ Within' = Within
  BY <1>1, StayingLines
<1>5. Unmarked(markup.out) => Unmarked(markup'.out)
  BY <1>2, MarkupParts, UnmarkedJoined, <1>1 DEF WrittenIn
<1> QED BY <1>1, <1>3, <1>4, <1>5 DEF LinesInv, LinesAround

LEMMA EnterLines ==
  ASSUME HtmlTyped, LinesInv, NEW kind, NEW t, EnterOf(kind, t)
  PROVE  LinesInv'
<1>1. line \in Nat /\ line' = line + 1 /\ footnotes' = footnotes /\ WrittenIn(markup', t, {})
      /\ Within # "h" /\ kind # "h"
  BY DEF EnterOf, HtmlTyped
<1>2. t \in Seq(MarkupItems) /\ Lined(t, line)
  BY PlainIsLined DEF EnterOf, Plain
<1>3. Ascends(markup'.out, line')
  BY <1>1, <1>2, LinesWritten
<1>4. LinesAround' /\ Within' # "h"
  BY EnterTyped, <1>1, DeeperLines, EmptyAscends
<1> QED BY <1>1, <1>3, <1>4 DEF LinesInv, LinesAround

LEMMA ApartLines ==
  ASSUME HtmlTyped, LinesInv, NEW kind, NEW label, ApartOf(kind, label)
  PROVE  LinesInv'
<1>1. line' = line + 1 /\ footnotes' = footnotes /\ Within # "h" /\ markup'.out = << >>
  BY DEF ApartOf
<1>2. Ascends(markup.out, line)
  BY DEF LinesInv
<1>3. LinesAround'
  BY ApartTyped, <1>1, <1>2, DeeperLines
<1>4. Ascends(markup'.out, line') /\ Unmarked(markup'.out)
  BY <1>1, EmptyAscends
<1> QED BY <1>1, <1>3, <1>4 DEF LinesInv, LinesAround

LEMMA CloseLines ==
  ASSUME HtmlTyped, LinesInv, NEW kind, CloseOf(kind)
  PROVE  LinesInv'
<1>1. line \in Nat /\ line' = line /\ footnotes' = footnotes
      /\ WrittenIn(markup', EndTag(kind), {}) /\ kind \in HtmlNames
  BY DEF CloseOf, BackFrom, HtmlTyped, HtmlNames
<1>2. EndTag(kind) \in Seq(MarkupItems) /\ Lined(EndTag(kind), 0)
  BY <1>1, TagIs, PlainIsLined DEF Single, Plain
<1>3. Ascends(markup'.out, line')
  BY <1>1, <1>2, UnmarkedWritten
<1>4. LinesAround' /\ Within' # "h"
  BY <1>1, CloseTyped, ShallowerLines
<1> QED BY <1>1, <1>3, <1>4 DEF LinesInv, LinesAround

\* What is known of what was written before a container, as it ends.
LEMMA HeldLines ==
  ASSUME HtmlTyped, LinesInv, Shallower
  PROVE  /\ Last(within).held \in Seq(MarkupItems) /\ Last(within).line \in Nat /\ line \in Nat
         /\ Ascends(Last(within).held, Last(within).line) /\ Last(within).line < line
         /\ Len(within) \in 1..Len(within)
<1>1. Len(within) \in 1..Len(within) /\ Last(within) = within[Len(within)]
      /\ Last(within) \in Containers
  BY DEF Shallower
<1>2. Last(within).held \in Seq(MarkupItems) /\ Last(within).line \in Nat
  BY <1>1 DEF Containers
<1> QED BY <1>1, <1>2 DEF LinesInv, HtmlTyped

LEMMA HeadingLines ==
  ASSUME HtmlTyped, LinesInv, NEW t, HeadingOf(t)
  PROVE  LinesInv'
<1> DEFINE c == Last(within)
<1>1. line' = line /\ footnotes' = footnotes /\ c.kind = "h" /\ markup'.out = c.held \o t
      /\ within # << >>
  BY DEF HeadingOf, BackFrom
<1>2. Shallower
  BY HeadingTyped
<1>3. /\ c.held \in Seq(MarkupItems) /\ c.line \in Nat /\ line \in Nat
      /\ Ascends(c.held, c.line) /\ c.line < line
  BY <1>2, HeldLines
<1>4. Unmarked(markup.out)
  BY <1>1 DEF Within, LinesInv
<1>5. t \in Seq(MarkupItems) /\ Lined(t, c.line)
  BY <1>4, HeadingWrites
<1> HIDE DEF c
<1>6. Ascends(c.held \o t, line)
  BY <1>3, <1>5, AscendsOn
<1>7. LinesAround' /\ Within' # "h"
  BY <1>1, <1>2, ShallowerLines
<1>8. Ascends(markup'.out, line')
  BY <1>1, <1>6
<1> QED BY <1>1, <1>7, <1>8 DEF LinesInv, LinesAround

LEMMA NoteLines ==
  ASSUME HtmlTyped, LinesInv, NEW f, NEW n, NEW label, NoteOf(f, n, label)
  PROVE  LinesInv'
<1>1. line' = line /\ markup'.out = Last(within).held
  BY DEF NoteOf, BackFrom
<1>2. Shallower
  BY NoteTyped
<1>3. Ascends(markup'.out, line')
  BY <1>1, <1>2, HeldLines, AscendsLater
<1>4. LinesAround' /\ Within' # "h"
  BY <1>1, <1>2, ShallowerLines
<1>5. ASSUME NEW i \in 1..Len(footnotes') PROVE Unmarked(footnotes'[i].html)
  <2>1. NotesAfter(n, f[n], Ended(f[n], label))
    BY NoteNotes
  <2>2. CASE i = n
    BY <2>1, <2>2, MarkupParts, StrippingIs DEF NotesAfter, Ended, Bare, Unmarked
  <2>3. CASE i # n
    BY <2>1, <2>3 DEF NotesAfter, LinesInv
  <2> QED BY <2>2, <2>3
<1> QED BY <1>3, <1>4, <1>5 DEF LinesInv, LinesAround

LEMMA ReferenceLines ==
  ASSUME HtmlTyped, LinesInv, NEW f, NEW n, NEW label, NEW t, ReferenceOf(f, n, label, t)
  PROVE  LinesInv'
<1>1. line \in Nat /\ line' = line /\ within' = within /\ WrittenIn(markup', t, {})
  BY DEF ReferenceOf, HtmlTyped
<1>2. t \in Seq(MarkupItems) /\ Lined(t, 0) /\ Unmarked(t)
  BY DEF ReferenceOf, Refers, Unmarked, Lined
<1>3. Ascends(markup'.out, line')
  BY <1>1, <1>2, UnmarkedWritten
<1>4. LinesAround' /\ Within' = Within
  BY <1>1, StayingLines
<1>5. Unmarked(markup.out) => Unmarked(markup'.out)
  BY <1>2, MarkupParts, UnmarkedJoined, <1>1 DEF WrittenIn
<1>6. ASSUME NEW i \in 1..Len(footnotes') PROVE Unmarked(footnotes'[i].html)
  <2>1. NotesAfter(n, f[n], Referred(f[n], label))
    BY ReferenceNotes
  <2>2. CASE i = n
    <3>1. footnotes'[i].html = f[n].html
      BY <2>1, <2>2 DEF NotesAfter, Referred
    <3>2. f[n].html = << >> \/ (n \in 1..Len(footnotes) /\ f[n].html = footnotes[n].html)
      BY <2>1, OldHtml
    <3> QED BY <3>1, <3>2, EmptyAscends DEF LinesInv
  <2>3. CASE i # n
    BY <2>1, <2>3 DEF NotesAfter, LinesInv
  <2> QED BY <2>2, <2>3
<1> QED BY <1>3, <1>4, <1>5, <1>6 DEF LinesInv, LinesAround

-----------------------------------------------------------------------------
(* The labels of notes.                                                          *)

LEMMA EnterLabels ==
  ASSUME NotesLabelled, NEW kind, NEW t, EnterOf(kind, t), HtmlTyped
  PROVE  NotesLabelled'
<1> DEFINE c == Container(kind, "", << >>)
<1>1. c.kind \notin {"h", "note"} /\ c.held = << >> /\ footnotes' = footnotes
  BY DEF Container, EnterOf
<1>2. Deeper(c)
  BY EnterTyped
<1> HIDE DEF c
<1>3. \A k \in 1..Len(within') :
        \/ k \in 1..Len(within) /\ within'[k] = within[k]
        \/ within'[k] = c
  BY <1>2 DEF Deeper
<1>4. \A k \in 1..Len(within') : within'[k].kind \notin {"h", "note"} => within'[k].held = << >>
  BY <1>1, <1>3 DEF NotesLabelled
<1>5. ASSUME NEW k \in 1..Len(within'), within'[k].kind = "note"
      PROVE  /\ within'[k].label \in Labels
             /\ \A i \in 1..Len(footnotes') :
                  footnotes'[i].label = within'[k].label => ~footnotes'[i].defined
             /\ \A j \in 1..Len(within') :
                  within'[j].kind = "note" /\ within'[j].label = within'[k].label => j = k
  BY <1>1, <1>3, <1>5 DEF NotesLabelled
<1> QED BY <1>1, <1>4, <1>5 DEF NotesLabelled

LEMMA ApartLabels ==
  ASSUME NotesLabelled, NEW kind, NEW label, ApartOf(kind, label), HtmlTyped
  PROVE  NotesLabelled'
<1> DEFINE c == Container(kind, label, markup.out)
<1>1. c.kind = kind /\ c.label = label /\ footnotes' = footnotes /\ kind \in {"h", "note"}
  BY DEF Container, ApartOf
<1>2. Deeper(c)
  BY ApartTyped
<1>3. kind = "note" =>
        /\ label \in Labels
        /\ \A i \in 1..Len(footnotes) : footnotes[i].label = label => ~footnotes[i].defined
        /\ \A i \in 1..Len(within) : within[i].label # label
  BY LenProperties DEF HtmlTyped, ApartOf
<1> HIDE DEF c
<1>4. \A k \in 1..Len(within') :
        \/ k \in 1..Len(within) /\ within'[k] = within[k]
        \/ k = Len(within) + 1 /\ within'[k] = c
  BY <1>2 DEF Deeper
<1>5. \A k \in 1..Len(within') : within'[k].kind \notin {"h", "note"} => within'[k].held = << >>
  BY <1>1, <1>4 DEF NotesLabelled
<1>6. ASSUME NEW k \in 1..Len(within'), within'[k].kind = "note"
      PROVE  /\ within'[k].label \in Labels
             /\ \A i \in 1..Len(footnotes') :
                  footnotes'[i].label = within'[k].label => ~footnotes'[i].defined
             /\ \A j \in 1..Len(within') :
                  within'[j].kind = "note" /\ within'[j].label = within'[k].label => j = k
  BY <1>1, <1>3, <1>4, <1>6 DEF NotesLabelled
<1> QED BY <1>1, <1>5, <1>6 DEF NotesLabelled

LEMMA BackLabels ==
  ASSUME NotesLabelled, Shallower, footnotes' = footnotes
  PROVE  NotesLabelled'
<1>1. \A k \in 1..Len(within') : k \in 1..Len(within) /\ within'[k] = within[k]
  BY DEF Shallower
<1> QED BY <1>1 DEF NotesLabelled

\* The labels of notes differ when one of them is changed, or entered.
LEMMA LabelsDiffer ==
  ASSUME NotesLabelled, NEW n, NEW old, NEW x, NotesAfter(n, old, x),
         ~x.defined => x.html = << >>
  PROVE  /\ \A i, j \in 1..Len(footnotes') : footnotes'[i].label = footnotes'[j].label => i = j
         /\ \A i \in 1..Len(footnotes') : ~footnotes'[i].defined => footnotes'[i].html = << >>
<1>1. \A i \in 1..Len(footnotes') :
        \/ i = n /\ footnotes'[i] = x
        \/ i \in 1..Len(footnotes) /\ footnotes'[i] = footnotes[i] /\ i # n
  BY DEF NotesAfter
<1>2. \A i \in 1..Len(footnotes) : footnotes[i].label = x.label => i = n
  BY DEF NotesAfter
<1> QED BY <1>1, <1>2 DEF NotesLabelled

LEMMA NoteLabels ==
  ASSUME NotesLabelled, NEW f, NEW n, NEW label, NoteOf(f, n, label), HtmlTyped
  PROVE  NotesLabelled'
<1> DEFINE x == Ended(f[n], label)
<1>1. x.label = label /\ x.defined = TRUE
  BY DEF Ended
<1>2. NotesAfter(n, f[n], x)
  BY NoteNotes
<1>3. Shallower /\ within[Len(within)].kind = "note" /\ within[Len(within)].label = label
  BY NoteTyped DEF NoteOf, Shallower
<1> HIDE DEF x
<1>4. \A k \in 1..Len(within') : k \in 1..Len(within) /\ within'[k] = within[k]
                                 /\ k # Len(within) /\ Len(within) \in 1..Len(within)
  BY <1>3 DEF Shallower
<1>5. \A k \in 1..Len(within') : within'[k].kind \notin {"h", "note"} => within'[k].held = << >>
  BY <1>4 DEF NotesLabelled
<1>6. ASSUME NEW k \in 1..Len(within'), within'[k].kind = "note"
      PROVE  /\ within'[k].label \in Labels
             /\ \A i \in 1..Len(footnotes') :
                  footnotes'[i].label = within'[k].label => ~footnotes'[i].defined
             /\ \A j \in 1..Len(within') :
                  within'[j].kind = "note" /\ within'[j].label = within'[k].label => j = k
  <2>1. within[k].label # label
    BY <1>3, <1>4, <1>6 DEF NotesLabelled
  <2>2. /\ footnotes'[n] = x
        /\ \A i \in 1..Len(footnotes') :
             i # n => i \in 1..Len(footnotes) /\ footnotes'[i] = footnotes[i]
    BY <1>2 DEF NotesAfter
  <2>3. k \in 1..Len(within) /\ within'[k] = within[k] /\ within[k].kind = "note"
    BY <1>4, <1>6
  <2>4. /\ within[k].label \in Labels
        /\ \A i \in 1..Len(footnotes) :
             footnotes[i].label = within[k].label => ~footnotes[i].defined
        /\ \A j \in 1..Len(within) :
             within[j].kind = "note" /\ within[j].label = within[k].label => j = k
    BY <2>3 DEF NotesLabelled
  <2>5. ASSUME NEW i \in 1..Len(footnotes'), footnotes'[i].label = within[k].label
        PROVE  ~footnotes'[i].defined
    BY <1>1, <2>1, <2>2, <2>5, <2>4
  <2>6. \A j \in 1..Len(within') :
          within'[j].kind = "note" /\ within'[j].label = within[k].label => j = k
    BY <1>4, <2>4
  <2> QED BY <2>3, <2>4, <2>5, <2>6
<1>7. /\ \A i, j \in 1..Len(footnotes') : footnotes'[i].label = footnotes'[j].label => i = j
      /\ \A i \in 1..Len(footnotes') : ~footnotes'[i].defined => footnotes'[i].html = << >>
  BY <1>1, <1>2, LabelsDiffer
<1> QED BY <1>5, <1>6, <1>7 DEF NotesLabelled

LEMMA ReferenceLabels ==
  ASSUME NotesLabelled, NEW f, NEW n, NEW label, NEW t, ReferenceOf(f, n, label, t)
  PROVE  NotesLabelled'
<1> DEFINE old == f[n]
           x   == Referred(old, label)
<1>1. x.label = label /\ x.defined = old.defined /\ x.html = old.html
  BY DEF Referred
<1>2. NotesAfter(n, old, x)
  BY ReferenceNotes
<1>3. within' = within
  BY DEF ReferenceOf
<1> HIDE DEF x, old
<1>4. \/ n \in 1..Len(footnotes) /\ footnotes[n] = old
      \/ ~old.defined /\ old.html = << >>
  BY <1>2 DEF NotesAfter
<1>5. ~x.defined => x.html = << >>
  BY <1>1, <1>4 DEF NotesLabelled
<1>6. ASSUME NEW k \in 1..Len(within), within[k].kind = "note", NEW i \in 1..Len(footnotes'),
             footnotes'[i].label = within[k].label
      PROVE  ~footnotes'[i].defined
  BY <1>2, <1>1, <1>4, <1>6 DEF NotesAfter, NotesLabelled
<1>7. /\ \A i, j \in 1..Len(footnotes') : footnotes'[i].label = footnotes'[j].label => i = j
      /\ \A i \in 1..Len(footnotes') : ~footnotes'[i].defined => footnotes'[i].html = << >>
  BY <1>2, <1>5, LabelsDiffer
<1>8. \A k \in 1..Len(within) : within[k].kind = "note" =>
        \A i \in 1..Len(footnotes') :
          footnotes'[i].label = within[k].label => ~footnotes'[i].defined
  BY <1>6
<1> QED BY <1>3, <1>7, <1>8 DEF NotesLabelled

-----------------------------------------------------------------------------
(* The ids of a document, each of which is somewhere once.                       *)

LEMMA EmptyHasNone ==
  Ids(<< >>) = {} /\ Tos(<< >>) = {} /\ Once(<< >>)
<1>1. 1..Len(<< >>) = {}
  OBVIOUS
<1> QED BY <1>1 DEF Ids, Tos, Once

LEMMA ApartEither ==
  ASSUME NEW s, NEW t
  PROVE  (Apart(s, t) => Apart(t, s)) /\ Apart(<< >>, s) /\ Apart(s, << >>)
BY EmptyHasNone DEF Apart

\* Ids that go into the same text, or into one that was empty.
SameHelds ==
  /\ \A k \in 1..Len(within') :
       within'[k].held = << >> \/ (k \in 1..Len(within) /\ within'[k].held = within[k].held)
  /\ \A k \in 1..Len(within) :
       within[k].held = << >> \/ (k \in 1..Len(within') /\ within'[k].held = within[k].held)

SameHtmls ==
  /\ Len(footnotes) \in Nat /\ Len(footnotes') \in Nat /\ Len(footnotes) <= Len(footnotes')
  /\ \A i \in 1..Len(footnotes') :
       footnotes'[i].html = << >>
         \/ (i \in 1..Len(footnotes) /\ footnotes'[i].html = footnotes[i].html)
  /\ \A i \in 1..Len(footnotes) : footnotes'[i].html = footnotes[i].html

\* No id is twice, and there are those that were there and some more.
IdsMoved(fresh) == IdsOnce' /\ AllIds' = AllIds \union fresh /\ TosKept'

LEMMA IdsAre ==
  ASSUME NEW o, NEW w, NEW f
  PROVE  \A id : id \in IdsIn(o, w, f) <=>
                   \/ id \in Ids(o)
                   \/ \E k \in 1..Len(w) : id \in Ids(w[k].held)
                   \/ \E i \in 1..Len(f) : id \in Ids(f[i].html)
BY DEF IdsIn

LEMMA ToNotesMore ==
  ASSUME NEW s, NEW n \in Nat, NEW m \in Nat, n <= m, ToNotes(s, n)
  PROVE  ToNotes(s, m)
<1>1. \A i \in 1..n : i \in 1..m
  OBVIOUS
<1> QED BY <1>1 DEF ToNotes

\* More is written.
LEMMA IdsWritten ==
  ASSUME HtmlTyped, IdsOnce, TosKept, SameHelds, SameHtmls,
         NEW t \in Seq(MarkupItems), NEW raw, WrittenIn(markup', t, raw),
         Once(t), Ids(t) \cap AllIds = {}, ToNotes(t, Len(footnotes'))
  PROVE  IdsMoved(Ids(t))
<1> DEFINE o  == markup.out
           op == markup'.out
           l  == Len(footnotes')
<1>1. Gathers(o, t, op) /\ o \in Seq(MarkupItems) /\ op = o \o t
  BY MarkupParts, IdsJoined DEF WrittenIn
<1>2. /\ Apart(o, t) /\ (\A k \in 1..Len(within) : Apart(within[k].held, t))
      /\ (\A i \in 1..Len(footnotes) : Apart(footnotes[i].html, t))
  BY IdsAre DEF AllIds, Apart
<1>3. Once(op)
  BY <1>1, <1>2, OnceJoined DEF IdsOnce
<1>4. \A s : Apart(s, o) /\ Apart(s, t) => Apart(s, op)
  BY <1>1 DEF Apart, Gathers
<1> HIDE DEF o, op, l
<1>5. ASSUME NEW k \in 1..Len(within')
      PROVE  Once(within'[k].held) /\ Apart(within'[k].held, op)
  BY EmptyHasNone, ApartEither, <1>2, <1>4 DEF IdsOnce, o, SameHelds
<1>6. ASSUME NEW j \in 1..Len(within'), NEW k \in 1..Len(within'), j # k
      PROVE  Apart(within'[j].held, within'[k].held)
  BY <1>6, ApartEither DEF SameHelds, IdsOnce
<1>7. ASSUME NEW i \in 1..Len(footnotes')
      PROVE  Once(footnotes'[i].html) /\ Apart(footnotes'[i].html, op)
  BY EmptyHasNone, ApartEither, <1>2, <1>4 DEF IdsOnce, o, SameHtmls
<1>8. ASSUME NEW i \in 1..Len(footnotes'), NEW k \in 1..Len(within')
      PROVE  Apart(footnotes'[i].html, within'[k].held)
  BY ApartEither DEF SameHelds, SameHtmls, IdsOnce
<1>9. ASSUME NEW i \in 1..Len(footnotes'), NEW j \in 1..Len(footnotes'), i # j
      PROVE  Apart(footnotes'[i].html, footnotes'[j].html)
  BY <1>9, ApartEither DEF SameHtmls, IdsOnce
<1>10. IdsOnce'
  BY <1>3, <1>5, <1>6, <1>7, <1>8, <1>9 DEF IdsOnce, op
<1>11. \A id : (\E k \in 1..Len(within') : id \in Ids(within'[k].held)) <=>
                 (\E k \in 1..Len(within) : id \in Ids(within[k].held))
  BY EmptyHasNone DEF SameHelds
<1>12. \A id : (\E i \in 1..Len(footnotes') : id \in Ids(footnotes'[i].html)) <=>
                 (\E i \in 1..Len(footnotes) : id \in Ids(footnotes[i].html))
  BY EmptyHasNone DEF SameHtmls
<1>13. AllIds' = AllIds \union Ids(t)
  <2>1. \A id : id \in IdsIn(op, within', footnotes') <=>
                  \/ id \in Ids(op)
                  \/ \E k \in 1..Len(within') : id \in Ids(within'[k].held)
                  \/ \E i \in 1..Len(footnotes') : id \in Ids(footnotes'[i].html)
    BY IdsAre
  <2>2. \A id : id \in IdsIn(o, within, footnotes) <=>
                  \/ id \in Ids(o)
                  \/ \E k \in 1..Len(within) : id \in Ids(within[k].held)
                  \/ \E i \in 1..Len(footnotes) : id \in Ids(footnotes[i].html)
    BY IdsAre
  <2>3. Ids(op) = Ids(o) \union Ids(t)
    BY <1>1 DEF Gathers
  <2>4. IdsIn(op, within', footnotes') = IdsIn(o, within, footnotes) \union Ids(t)
    BY <1>11, <1>12, <2>1, <2>2, <2>3
  <2> QED BY <2>4 DEF AllIds, o, op
<1>14. TosKept'
  <2>1. ToNotes(op, l)
    BY ToNotesMore, <1>1 DEF TosKept, SameHtmls, o, l, ToNotes, Gathers
  <2>2. ToNotes(<< >>, l)
    BY EmptyHasNone DEF ToNotes
  <2>3. \A k \in 1..Len(within') : ToNotes(within'[k].held, l)
    BY ToNotesMore, <2>2 DEF TosKept, SameHtmls, l, SameHelds
  <2>4. \A i \in 1..Len(footnotes') : ToNotes(footnotes'[i].html, l)
    BY ToNotesMore, <2>2 DEF TosKept, SameHtmls, l
  <2> QED BY <2>1, <2>3, <2>4 DEF TosKept, l, op
<1> QED BY <1>10, <1>13, <1>14 DEF IdsMoved

\* What is written is held, and the next text is empty.
LEMMA IdsSetAside ==
  ASSUME HtmlTyped, IdsOnce, TosKept, NEW kind, NEW label, ApartOf(kind, label)
  PROVE  IdsMoved({})
<1> DEFINE o == markup.out
           c == Container(kind, label, markup.out)
<1>1. Deeper(c) /\ c.held = o /\ markup'.out = << >> /\ footnotes' = footnotes
  BY ApartTyped DEF ApartOf, Container
<1> HIDE DEF c, o
<1>2. /\ \A k \in 1..Len(within') :
           \/ k \in 1..Len(within) /\ within'[k].held = within[k].held
           \/ k = Len(within) + 1 /\ within'[k].held = o
      /\ Len(within) + 1 \in 1..Len(within') /\ within'[Len(within) + 1].held = o
      /\ \A k \in 1..Len(within) : k \in 1..Len(within') /\ within'[k].held = within[k].held
  BY <1>1 DEF Deeper
<1>3. \A k \in 1..Len(within') :
        Once(within'[k].held) /\ Apart(within'[k].held, << >>)
  BY <1>2, ApartEither DEF IdsOnce, o
<1>4. ASSUME NEW j \in 1..Len(within'), NEW k \in 1..Len(within'), j # k
      PROVE  Apart(within'[j].held, within'[k].held)
  BY <1>2, <1>4, ApartEither DEF IdsOnce, o
<1>5. ASSUME NEW i \in 1..Len(footnotes), NEW k \in 1..Len(within')
      PROVE  Apart(footnotes[i].html, within'[k].held)
  BY <1>2 DEF IdsOnce, o
<1>6. IdsOnce'
  BY <1>1, <1>3, <1>4, <1>5, EmptyHasNone, ApartEither DEF IdsOnce
<1>7. AllIds' = AllIds
  <2>1. \A id : id \in IdsIn(<< >>, within', footnotes) <=>
                  \/ id \in Ids(<< >>)
                  \/ \E k \in 1..Len(within') : id \in Ids(within'[k].held)
                  \/ \E i \in 1..Len(footnotes) : id \in Ids(footnotes[i].html)
    BY IdsAre
  <2>2. \A id : id \in IdsIn(o, within, footnotes) <=>
                  \/ id \in Ids(o)
                  \/ \E k \in 1..Len(within) : id \in Ids(within[k].held)
                  \/ \E i \in 1..Len(footnotes) : id \in Ids(footnotes[i].html)
    BY IdsAre
  <2>3. \A id : (\E k \in 1..Len(within') : id \in Ids(within'[k].held)) <=>
                  id \in Ids(o) \/ \E k \in 1..Len(within) : id \in Ids(within[k].held)
    BY <1>2
  <2>4. IdsIn(<< >>, within', footnotes) = IdsIn(o, within, footnotes)
    BY <2>1, <2>2, <2>3, EmptyHasNone
  <2> QED BY <1>1, <2>4 DEF AllIds, o
<1>8. TosKept'
  BY EmptyHasNone, <1>2, <1>1 DEF ToNotes, TosKept, o
<1> QED BY <1>6, <1>7, <1>8 DEF IdsMoved

\* The texts of the containers that are left.
LEMMA BackHelds ==
  ASSUME Shallower
  PROVE  LET h == Last(within).held
         IN  /\ \A k \in 1..Len(within') : /\ k \in 1..Len(within) /\ k # Len(within)
                                           /\ within'[k].held = within[k].held
             /\ \A k \in 1..Len(within) :
                  \/ k \in 1..Len(within') /\ within'[k].held = within[k].held
                  \/ k = Len(within) /\ within[k].held = h
             /\ Len(within) \in 1..Len(within) /\ within[Len(within)].held = h
BY DEF Shallower

\* The text of a heading goes after what was held.
LEMMA IdsOfHeading ==
  ASSUME HtmlTyped, IdsOnce, TosKept, NEW t, HeadingOf(t)
  PROVE  IdsMoved({})
<1> DEFINE o  == markup.out
           h  == Last(within).held
           op == markup'.out
           l  == Len(within)
<1>1. /\ t \in Seq(MarkupItems) /\ h \in Seq(MarkupItems) /\ Ids(t) = Ids(o) /\ Tos(t) = Tos(o)
      /\ (Once(o) => Once(t))
  BY HeadingWrites
<1>2. op = h \o t /\ footnotes' = footnotes
  BY DEF HeadingOf
<1>3. /\ \A k \in 1..Len(within') : /\ k \in 1..l /\ k # l
                                    /\ within'[k].held = within[k].held
      /\ \A k \in 1..l :
           \/ k \in 1..Len(within') /\ within'[k].held = within[k].held
           \/ k = l /\ within[k].held = h
      /\ l \in 1..l /\ within[l].held = h
  BY HeadingTyped, BackHelds
<1>4. Gathers(h, t, op)
  BY <1>1, <1>2, IdsJoined
<1> HIDE DEF h, op, l, o
<1>5. Once(o) /\ Once(h) /\ Apart(h, o)
  BY <1>3 DEF IdsOnce, l, o
<1>6. Once(op)
  BY <1>1, <1>5, <1>2, OnceJoined DEF Apart
<1>7. \A s : Apart(s, h) /\ Apart(s, o) => Apart(s, op)
  BY <1>1, <1>4 DEF Apart, Gathers
<1>8. ASSUME NEW k \in 1..Len(within')
      PROVE  Once(within'[k].held) /\ Apart(within'[k].held, op)
  BY <1>3, <1>7 DEF IdsOnce, l, o
<1>9. ASSUME NEW j \in 1..Len(within'), NEW k \in 1..Len(within'), j # k
      PROVE  Apart(within'[j].held, within'[k].held)
  BY <1>3, <1>9 DEF IdsOnce, l
<1>10. ASSUME NEW i \in 1..Len(footnotes)
       PROVE  Once(footnotes[i].html) /\ Apart(footnotes[i].html, op)
  BY <1>3, <1>7 DEF IdsOnce, l, o
<1>11. ASSUME NEW i \in 1..Len(footnotes), NEW k \in 1..Len(within')
       PROVE  Apart(footnotes[i].html, within'[k].held)
  BY <1>3 DEF IdsOnce, l
<1>12. IdsOnce'
  BY <1>2, <1>6, <1>8, <1>9, <1>10, <1>11 DEF IdsOnce, op
<1>13. AllIds' = AllIds
  <2>1. \A id : id \in IdsIn(op, within', footnotes) <=>
                  \/ id \in Ids(op)
                  \/ \E k \in 1..Len(within') : id \in Ids(within'[k].held)
                  \/ \E i \in 1..Len(footnotes) : id \in Ids(footnotes[i].html)
    BY IdsAre
  <2>2. \A id : id \in IdsIn(o, within, footnotes) <=>
                  \/ id \in Ids(o)
                  \/ \E k \in 1..l : id \in Ids(within[k].held)
                  \/ \E i \in 1..Len(footnotes) : id \in Ids(footnotes[i].html)
    BY IdsAre DEF l
  <2>3. \A id : (\E k \in 1..l : id \in Ids(within[k].held)) <=>
                  id \in Ids(h) \/ \E k \in 1..Len(within') : id \in Ids(within'[k].held)
    BY <1>3
  <2>4. Ids(op) = Ids(h) \union Ids(o)
    BY <1>1, <1>4 DEF Gathers
  <2>5. IdsIn(op, within', footnotes) = IdsIn(o, within, footnotes)
    BY <2>1, <2>2, <2>3, <2>4
  <2> QED BY <1>2, <2>5 DEF AllIds, o, op
<1>14. TosKept'
  BY <1>3, <1>1, <1>4, <1>2 DEF TosKept, o, l, ToNotes, Gathers, op
<1> QED BY <1>12, <1>13, <1>14 DEF IdsMoved

LEMMA BareGathers ==
  ASSUME NEW s \in Seq(MarkupItems), NEW t, Bare(t, s)
  PROVE  Ids(t) = Ids(s) /\ Tos(t) = Tos(s) /\ (Once(s) => Once(t))
<1>1. Len(t) = Len(s) /\ \A i \in 1..Len(s) : t[i].id = s[i].id /\ t[i].to = s[i].to
  BY DEF Bare
<1>2. Ids(t) = Ids(s)
  BY <1>1 DEF Ids
<1>3. Tos(t) = Tos(s)
  BY <1>1 DEF Tos
<1> QED BY <1>1, <1>2, <1>3 DEF Once

\* The text of a note goes to the end.
LEMMA IdsOfNote ==
  ASSUME HtmlTyped, NotesLabelled, IdsOnce, TosKept, NEW f, NEW n, NEW label, NoteOf(f, n, label)
  PROVE  IdsMoved({})
<1> DEFINE o  == markup.out
           op == markup'.out
           l  == Len(within)
           x  == Ended(f[n], label)
           q  == Len(footnotes)
<1>1. op = Last(within).held
  BY DEF NoteOf
<1>2. /\ \A k \in 1..Len(within') : /\ k \in 1..l /\ k # l
                                    /\ within'[k].held = within[k].held
      /\ \A k \in 1..l :
           \/ k \in 1..Len(within') /\ within'[k].held = within[k].held
           \/ k = l /\ within[k].held = op
      /\ l \in 1..l /\ within[l].held = op
  BY <1>1, NoteTyped, BackHelds
<1>3. NotesAfter(n, f[n], x)
  BY NoteNotes
<1>4. Ids(x.html) = Ids(o) /\ Tos(x.html) = Tos(o) /\ (Once(o) => Once(x.html))
  BY MarkupParts, StrippingIs, BareGathers DEF Ended
<1>5. x.label = label
  BY DEF Ended
<1>6. within[l].kind = "note" /\ within[l].label = label /\ l \in 1..l
  BY NoteTyped DEF NoteOf, Shallower
<1> HIDE DEF op, l, o, x
<1>7. /\ \A i \in 1..Len(footnotes') :
           \/ i = n /\ footnotes'[i].html = x.html
           \/ i # n /\ i \in 1..q /\ footnotes'[i].html = footnotes[i].html
      /\ n \in 1..Len(footnotes') /\ footnotes'[n].html = x.html
      /\ \A i \in 1..q : \/ i = n /\ footnotes[i].html = << >>
                         \/ i # n /\ i \in 1..Len(footnotes')
                            /\ footnotes'[i].html = footnotes[i].html
      /\ q \in Nat /\ Len(footnotes') \in Nat /\ q <= Len(footnotes')
  BY <1>3, <1>5, <1>6 DEF NotesAfter, NotesLabelled, l
<1> HIDE DEF q
<1>8. Once(o) /\ Once(op) /\ Apart(op, o)
  BY <1>2 DEF IdsOnce, l, o
<1>9. \A s : (Apart(s, o) => Apart(s, x.html)) /\ (Apart(s, o) => Apart(x.html, s))
  BY <1>4 DEF Apart
<1>10. ASSUME NEW k \in 1..Len(within')
       PROVE  /\ Once(within'[k].held) /\ Apart(within'[k].held, op)
              /\ Apart(within'[k].held, o)
  BY <1>2 DEF IdsOnce, l, o
<1>11. ASSUME NEW j \in 1..Len(within'), NEW k \in 1..Len(within'), j # k
       PROVE  Apart(within'[j].held, within'[k].held)
  BY <1>2, <1>11 DEF IdsOnce, l
<1>12. ASSUME NEW i \in 1..q
       PROVE  /\ Once(footnotes[i].html) /\ Apart(footnotes[i].html, op)
              /\ Apart(footnotes[i].html, o)
              /\ \A k \in 1..Len(within') : Apart(footnotes[i].html, within'[k].held)
  BY <1>2 DEF IdsOnce, l, o, q
<1>13. ASSUME NEW i \in 1..Len(footnotes')
       PROVE  /\ Once(footnotes'[i].html) /\ Apart(footnotes'[i].html, op)
              /\ \A k \in 1..Len(within') : Apart(footnotes'[i].html, within'[k].held)
  BY <1>4, <1>7, <1>8, <1>9, <1>10, <1>12
<1>14. ASSUME NEW i \in 1..Len(footnotes'), NEW j \in 1..Len(footnotes'), i # j
       PROVE  Apart(footnotes'[i].html, footnotes'[j].html)
  BY <1>7, <1>9, <1>12, <1>14 DEF IdsOnce, q
<1>15. IdsOnce'
  BY <1>8, <1>10, <1>11, <1>13, <1>14 DEF IdsOnce, op
<1>16. AllIds' = AllIds
  <2>1. \A id : id \in IdsIn(op, within', footnotes') <=>
                  \/ id \in Ids(op)
                  \/ \E k \in 1..Len(within') : id \in Ids(within'[k].held)
                  \/ \E i \in 1..Len(footnotes') : id \in Ids(footnotes'[i].html)
    BY IdsAre
  <2>2. \A id : id \in IdsIn(o, within, footnotes) <=>
                  \/ id \in Ids(o)
                  \/ \E k \in 1..l : id \in Ids(within[k].held)
                  \/ \E i \in 1..q : id \in Ids(footnotes[i].html)
    BY IdsAre DEF l, q
  <2>3. \A id : (\E k \in 1..l : id \in Ids(within[k].held)) <=>
                  id \in Ids(op) \/ \E k \in 1..Len(within') : id \in Ids(within'[k].held)
    BY <1>2
  <2>4. \A id : (\E i \in 1..Len(footnotes') : id \in Ids(footnotes'[i].html)) <=>
                  id \in Ids(o) \/ \E i \in 1..q : id \in Ids(footnotes[i].html)
    BY <1>4, <1>7, EmptyHasNone
  <2>5. IdsIn(op, within', footnotes') = IdsIn(o, within, footnotes)
    BY <2>1, <2>2, <2>3, <2>4
  <2> QED BY <2>5 DEF AllIds, o, op
<1>17. TosKept'
  BY <1>7, ToNotesMore, <1>4, <1>2 DEF TosKept, o, l, q, ToNotes, op
<1> QED BY <1>15, <1>16, <1>17 DEF IdsMoved

\* The ids that are kept, where the notes are referred to as before.
LEMMA IdsStay ==
  ASSUME IdsKept, IdsMoved({}), RefIds(footnotes') = RefIds(footnotes)
  PROVE  IdsOnce' /\ IdsKept'
BY DEF IdsKept, IdsMoved

LEMMA SameNotes ==
  ASSUME HtmlTyped, footnotes' = footnotes
  PROVE  SameHtmls
<1>1. Len(footnotes) \in Nat
  BY LenProperties DEF HtmlTyped
<1> QED BY <1>1 DEF SameHtmls

LEMMA PlainWritten ==
  ASSUME HtmlTyped, IdsOnce, IdsKept, SameHelds, footnotes' = footnotes,
         NEW t, NEW n, NEW raw, Plain(t, n), WrittenIn(markup', t, raw)
  PROVE  IdsOnce' /\ IdsKept'
<1>1. t \in Seq(MarkupItems) /\ Ids(t) = {} /\ Tos(t) = {} /\ Once(t)
  BY PlainHasNone DEF Plain
<1>2. ToNotes(t, Len(footnotes'))
  BY <1>1 DEF ToNotes
<1>3. SameHtmls /\ TosKept
  BY SameNotes DEF IdsKept
<1>4. IdsMoved(Ids(t))
  BY <1>1, <1>2, <1>3, IdsWritten
<1> QED BY <1>1, <1>4, IdsStay

LEMMA LeafIds ==
  ASSUME HtmlTyped, IdsOnce, IdsKept, NEW t, NEW raw, LeafOf(t, raw)
  PROVE  IdsOnce' /\ IdsKept'
<1>1. SameHelds
  BY DEF SameHelds, LeafOf
<1> QED BY <1>1, PlainWritten DEF LeafOf

LEMMA InlineIds ==
  ASSUME HtmlTyped, IdsOnce, IdsKept, NEW t, NEW raw, InlineOf(t, raw)
  PROVE  IdsOnce' /\ IdsKept'
<1>1. SameHelds
  BY DEF SameHelds, InlineOf
<1> QED BY <1>1, PlainWritten DEF InlineOf

LEMMA EnterIds ==
  ASSUME HtmlTyped, IdsOnce, IdsKept, NEW kind, NEW t, EnterOf(kind, t)
  PROVE  IdsOnce' /\ IdsKept'
<1> DEFINE c == Container(kind, "", << >>)
<1>1. Deeper(c) /\ c.held = << >>
  BY EnterTyped DEF Container
<1> HIDE DEF c
<1>2. SameHelds
  BY <1>1 DEF Deeper, SameHelds
<1> QED BY <1>2, PlainWritten DEF EnterOf

LEMMA CloseIds ==
  ASSUME HtmlTyped, NotesLabelled, IdsOnce, IdsKept, NEW kind, CloseOf(kind)
  PROVE  IdsOnce' /\ IdsKept'
<1>1. kind \notin {"h", "note"} /\ kind \in HtmlNames
  BY DEF CloseOf, HtmlNames
<1>2. Shallower /\ within[Len(within)].kind = kind
  BY CloseTyped
<1>3. within[Len(within)].held = << >>
  BY <1>2, <1>1 DEF Shallower, NotesLabelled
<1>4. SameHelds
  BY <1>2, <1>3 DEF Shallower, SameHelds
<1>5. Plain(EndTag(kind), 0)
  BY <1>1, TagIs DEF Single
<1> QED BY <1>4, <1>5, PlainWritten DEF CloseOf

LEMMA ApartIds ==
  ASSUME HtmlTyped, IdsOnce, IdsKept, NEW kind, NEW label, ApartOf(kind, label)
  PROVE  IdsOnce' /\ IdsKept'
<1>1. footnotes' = footnotes
  BY DEF ApartOf
<1>2. IdsMoved({})
  BY IdsSetAside DEF IdsKept
<1> QED BY <1>1, <1>2, IdsStay

LEMMA HeadingIds ==
  ASSUME HtmlTyped, IdsOnce, IdsKept, NEW t, HeadingOf(t)
  PROVE  IdsOnce' /\ IdsKept'
<1>1. footnotes' = footnotes
  BY DEF HeadingOf
<1>2. IdsMoved({})
  BY IdsOfHeading DEF IdsKept
<1> QED BY <1>1, <1>2, IdsStay

\* Which notes are referred to, after one of them is changed or entered.
LEMMA RefsAfter ==
  ASSUME NEW n, NEW old, NEW x, NotesAfter(n, old, x), x.refs \in Nat, old.refs \in Nat,
         old.refs <= x.refs
  PROVE  /\ RefIds(footnotes') = RefIds(footnotes) \union
                                   (IF x.refs > 0 THEN {<<"fnref", n>>} ELSE {})
         /\ (old.refs = 0 => <<"fnref", n>> \notin RefIds(footnotes))
         /\ (old.refs > 0 => <<"fnref", n>> \in RefIds(footnotes))
<1>1. /\ n \in 1..Len(footnotes') /\ footnotes'[n] = x /\ n \in Nat
      /\ \A i \in 1..Len(footnotes') :
           i # n => i \in 1..Len(footnotes) /\ footnotes'[i] = footnotes[i]
      /\ \A i \in 1..Len(footnotes) : i \in 1..Len(footnotes') /\ i \in Nat
  BY DEF NotesAfter
<1>2. \/ n \in 1..Len(footnotes) /\ footnotes[n] = old
      \/ n \notin 1..Len(footnotes) /\ old.refs = 0
  BY DEF NotesAfter
<1> DEFINE R  == {i \in 1..Len(footnotes) : footnotes[i].refs > 0}
           Rp == {i \in 1..Len(footnotes') : footnotes'[i].refs > 0}
<1>3. Rp = R \union (IF x.refs > 0 THEN {n} ELSE {})
  BY <1>1, <1>2
<1>4. (old.refs = 0 => n \notin R) /\ (old.refs > 0 => n \in R)
  BY <1>2
<1>5. \A i \in R : i \in Nat
  BY <1>1
<1>6. /\ RefIds(footnotes') = {<<"fnref", i>> : i \in Rp}
      /\ RefIds(footnotes) = {<<"fnref", i>> : i \in R}
  BY DEF RefIds
<1> HIDE DEF R, Rp
<1>7. {<<"fnref", i>> : i \in Rp} =
        {<<"fnref", i>> : i \in R} \union (IF x.refs > 0 THEN {<<"fnref", n>>} ELSE {})
  BY <1>3
<1>8. n \notin R => <<"fnref", n>> \notin {<<"fnref", i>> : i \in R}
  BY <1>1, <1>5, MarksDiffer
<1> QED BY <1>4, <1>6, <1>7, <1>8

LEMMA NoteIds ==
  ASSUME HtmlTyped, NotesLabelled, IdsOnce, IdsKept, NEW f, NEW n, NEW label, NoteOf(f, n, label)
  PROVE  IdsOnce' /\ IdsKept'
<1> DEFINE x == Ended(f[n], label)
<1>1. NotesAfter(n, f[n], x) /\ x.refs = f[n].refs
  BY NoteNotes DEF Ended
<1>2. f[n].refs \in Nat
  <2>1. f[n] \in FootnotesOf
    BY ElementOfSeq DEF NoteOf, Entered
  <2> QED BY <2>1 DEF FootnotesOf
<1> HIDE DEF x
<1>3. x.refs \in Nat /\ f[n].refs <= x.refs
  BY <1>1, <1>2
<1>4. RefIds(footnotes') = RefIds(footnotes)
  BY <1>1, <1>2, <1>3, RefsAfter
<1>5. IdsMoved({})
  BY IdsOfNote DEF IdsKept
<1> QED BY <1>4, <1>5, IdsStay

LEMMA ReferenceIds ==
  ASSUME HtmlTyped, IdsOnce, IdsKept, NEW f, NEW n, NEW label, NEW t, ReferenceOf(f, n, label, t)
  PROVE  IdsOnce' /\ IdsKept'
<1> DEFINE old == f[n]
           x   == Referred(old, label)
<1>1. NotesAfter(n, old, x) /\ x.refs = old.refs + 1 /\ x.html = old.html
  BY ReferenceNotes DEF Referred
<1>2. old.refs \in Nat
  <2>1. f[n] \in FootnotesOf
    BY ElementOfSeq DEF ReferenceOf, Entered
  <2> QED BY <2>1 DEF FootnotesOf
<1>3. Refers(t, n, old.refs = 0) /\ within' = within /\ WrittenIn(markup', t, {})
  BY DEF ReferenceOf
<1>4. old.html = << >> \/ (n \in 1..Len(footnotes) /\ old.html = footnotes[n].html)
  BY <1>1, OldHtml
<1> HIDE DEF x, old
<1>5. /\ RefIds(footnotes') = RefIds(footnotes) \union {<<"fnref", n>>}
      /\ (old.refs = 0 => <<"fnref", n>> \notin RefIds(footnotes))
      /\ (old.refs > 0 => <<"fnref", n>> \in RefIds(footnotes))
  BY <1>1, <1>2, RefsAfter
<1>6. SameHelds
  BY <1>3 DEF SameHelds
<1>7. SameHtmls
  BY <1>1, <1>4 DEF NotesAfter, SameHtmls
<1>8. t \in Seq(MarkupItems) /\ Once(t) /\ Ids(t) = (IF old.refs = 0 THEN {<<"fnref", n>>} ELSE {})
  BY <1>3 DEF Refers
<1>9. ToNotes(t, Len(footnotes'))
  BY <1>1, <1>3 DEF NotesAfter, Refers, ToNotes
<1>10. Ids(t) \cap AllIds = {}
  BY <1>5, <1>8 DEF IdsKept
<1>11. IdsMoved(Ids(t))
  BY <1>3, <1>6, <1>7, <1>8, <1>9, <1>10, IdsWritten DEF IdsKept
<1>12. RefIds(footnotes') = RefIds(footnotes) \union Ids(t)
  BY <1>2, <1>5, <1>8
<1> QED BY <1>11, <1>12 DEF IdsMoved, IdsKept

-----------------------------------------------------------------------------
(* The end of the document.                                                      *)

EndOf(t) ==
  /\ ~htmlEnded /\ within = << >> /\ within' = within /\ footnotes' = footnotes /\ line' = line
  /\ NotesReady /\ SectionOf(t) /\ WrittenIn(markup', t, {})
  /\ pieces' = pieces \o Indexed(Len(markup.out), 0, markup')

LEMMA EndIs ==
  ASSUME HtmlTyped, LinesInv, IdsOnce, IdsKept, HtmlEnd
  PROVE  EndOf(FootnoteSection)
<1> DEFINE t == FootnoteSection
<1>1. /\ ~htmlEnded /\ within = << >> /\ (\A i \in DOMAIN footnotes : footnotes[i].defined)
      /\ markup' = WriteMarkup(t) /\ UNCHANGED <<within, footnotes, line>>
      /\ pieces' = pieces \o Indexed(Len(markup.out), 0, markup')
  BY DEF HtmlEnd
<1> HIDE DEF t
<1>2. footnotes \in Seq(FootnotesOf) /\ DOMAIN footnotes = 1..Len(footnotes)
  BY LenProperties DEF HtmlTyped
<1>3. ASSUME NEW i \in 1..Len(footnotes)
      PROVE  /\ footnotes[i].defined /\ footnotes[i].html \in Seq(MarkupItems)
             /\ Unmarked(footnotes[i].html) /\ Once(footnotes[i].html)
             /\ \A id \in Ids(footnotes[i].html) : \E j \in Nat : id = <<"fnref", j>>
  <2>1. footnotes[i] \in FootnotesOf
    BY <1>2, ElementOfSeq
  <2>2. footnotes[i].html \in Seq(MarkupItems)
    BY <2>1 DEF FootnotesOf
  <2>3. Ids(footnotes[i].html) \subseteq AllIds
    BY IdsAre DEF AllIds
  <2>4. \A id \in AllIds : \E j \in Nat : id = <<"fnref", j>>
    BY DEF IdsKept, RefIds
  <2> QED BY <1>1, <1>2, <2>2, <2>3, <2>4 DEF LinesInv, IdsOnce
<1>4. NotesReady
  BY <1>2, <1>3 DEF NotesReady, IdsOnce
<1>5. SectionOf(t)
  BY <1>4, SectionIs DEF t
<1>6. WrittenIn(markup', t, {})
  BY <1>1, <1>5, WritingIs DEF SectionOf
<1>7. EndOf(t)
  BY <1>1, <1>4, <1>5, <1>6 DEF EndOf
<1> QED BY <1>7 DEF t

LEMMA EndTyped ==
  ASSUME HtmlTyped, NEW t, EndOf(t)
  PROVE  HtmlTyped'
<1>1. markup' \in [out : Seq(MarkupItems), raw : SUBSET RawSorts] /\ markup'.out \in Seq(MarkupItems)
  BY DEF EndOf, WrittenIn
<1>2. pieces' \in Seq([first : Nat, last : Nat, line : Nat])
  BY <1>1, MarkupParts, PiecesIndexed DEF EndOf
<1>3. within' = within /\ footnotes' = footnotes /\ line' = line
  BY DEF EndOf
<1> HIDE DEF MarkupItems, Containers, FootnotesOf
<1> QED BY <1>1, <1>2, <1>3 DEF HtmlTyped

LEMMA EndLines ==
  ASSUME HtmlTyped, LinesInv, NEW t, EndOf(t)
  PROVE  LinesAscend'
<1>1. /\ t \in Seq(MarkupItems) /\ Lined(t, 0) /\ line' = line
      /\ WrittenIn(markup', t, {})
  BY DEF EndOf, SectionOf, Unmarked, Lined
<1>2. Ascends(markup'.out, line')
  BY <1>1, UnmarkedWritten
<1>3. DOMAIN markup'.out = 1..Len(markup'.out)
  BY LenProperties DEF EndOf, WrittenIn
<1> QED BY <1>2, <1>3 DEF LinesAscend, Ascends

LEMMA EndNotes ==
  ASSUME HtmlTyped, IdsOnce, IdsKept, NEW t, EndOf(t)
  PROVE  NotesMeet'
<1> DEFINE o  == markup.out
           op == markup'.out
           n  == Len(footnotes)
           H  == UNION {Ids(footnotes[i].html) : i \in 1..n}
           T  == UNION {Tos(footnotes[i].html) : i \in 1..n}
           F  == {<<"fn", i>> : i \in 1..n}
           R  == {<<"fnref", i>> : i \in 1..n}
<1>1. /\ o \in Seq(MarkupItems) /\ t \in Seq(MarkupItems) /\ op = o \o t /\ Once(t)
      /\ Ids(t) = F \union H /\ Tos(t) = R \union T /\ footnotes' = footnotes
      /\ op \in Seq(MarkupItems)
  BY MarkupParts DEF EndOf, SectionOf, WrittenIn
<1>2. Gathers(o, t, op)
  BY <1>1, IdsJoined
<1>3. AllIds = Ids(o) \union H /\ n \in Nat
  BY LenProperties DEF EndOf, HtmlTyped, AllIds, IdsIn
<1>4. Once(o) /\ \A i \in 1..n : Apart(footnotes[i].html, o)
  BY DEF IdsOnce
<1>5. DOMAIN op = 1..Len(op)
  BY <1>1, LenProperties
<1>6. Ids(o) \cap H = {}
  BY <1>4 DEF Apart
<1>7. Tos(o) \subseteq F /\ T \subseteq F
  BY DEF IdsKept, TosKept, ToNotes
<1>8. Ids(o) \union H = RefIds(footnotes)
  BY <1>3 DEF IdsKept
<1>9. F \cap RefIds(footnotes) = {}
  BY <1>3, MarksDiffer DEF RefIds
<1>10. \A i \in 1..n : footnotes[i].refs # 0 => <<"fnref", i>> \in RefIds(footnotes)
  <2>1. \A i \in 1..n : footnotes[i].refs \in Nat
    <3>1. \A i \in 1..n : footnotes[i] \in FootnotesOf
      BY ElementOfSeq DEF HtmlTyped
    <3> QED BY <3>1 DEF FootnotesOf
  <2> QED BY <2>1 DEF RefIds
<1> HIDE DEF op, o, H, T, F, n
<1>11. Once(op)
  BY <1>1, <1>6, <1>8, <1>9, <1>4, OnceJoined DEF Apart
<1>12. Ids(op) = RefIds(footnotes) \union F /\ Tos(op) \subseteq F \union R
  BY <1>1, <1>2, <1>7, <1>8 DEF Gathers
<1>13. \A id \in Ids(op) : \E i \in 1..Len(op) : op[i].id # << >> /\ op[i].id = id
  BY DEF Ids
<1>14. ASSUME NEW i \in 1..Len(op), op[i].to # << >>, op[i].to # <<"elsewhere">>
       PROVE  \/ \E j \in 1..Len(op) : op[j].id # << >> /\ op[j].id = op[i].to
              \/ op[i].to[1] = "fnref" /\ footnotes[op[i].to[2]].refs = 0
  <2>1. op[i].to \in Tos(op)
    BY <1>14 DEF Tos
  <2>2. CASE op[i].to \in F
    BY <1>12, <1>13, <2>2
  <2>3. ASSUME NEW k \in 1..n, op[i].to = <<"fnref", k>>
        PROVE  \/ \E j \in 1..Len(op) : op[j].id # << >> /\ op[j].id = op[i].to
               \/ op[i].to[1] = "fnref" /\ footnotes[op[i].to[2]].refs = 0
    <3>1. CASE footnotes[k].refs = 0
      BY <2>3, <3>1
    <3>2. CASE footnotes[k].refs # 0
      BY <1>10, <1>12, <2>3, <3>2, <1>13
    <3> QED BY <3>1, <3>2
  <2> QED BY <1>12, <2>1, <2>2, <2>3
<1> DEFINE ids == {i \in 1..Len(op) : op[i].id # << >>}
<1>15. \A i, j \in ids : op[i].id = op[j].id => i = j
  BY <1>11 DEF Once
<1>16. \A i \in 1..Len(op) :
         op[i].to # << >> /\ op[i].to # <<"elsewhere">> =>
           \/ \E j \in ids : op[j].id = op[i].to
           \/ op[i].to[1] = "fnref" /\ footnotes[op[i].to[2]].refs = 0
  BY <1>14
<1> QED BY <1>1, <1>5, <1>15, <1>16 DEF NotesMeet, op

-----------------------------------------------------------------------------
(* How deep the texts are, and where the elements of the page are in its own.    *)

PieceOf == [first : Nat, last : Nat, line : Nat]

\* Up to there the two are as deep.
Levels(s, st, l) == \A m \in 0..l : Depth(st, m) = Depth(s, m)

\* A text goes on as before up to its end.
LEMMA TiledSame ==
  ASSUME NEW s, NEW st, NEW l \in Nat, NEW ps \in Seq(PieceOf), NEW n \in Nat,
         Tiled(s, ps, n), n <= l, Levels(s, st, l)
  PROVE  Tiled(st, ps, n)
<1>1. ASSUME NEW i \in 1..Len(ps) PROVE IsWholeIn(st, ps[i])
  <2> DEFINE p == ps[i]
  <2>1. p \in PieceOf
    BY ElementOfSeq
  <2>2. p.first \in Nat /\ p.last \in Nat
    BY <2>1 DEF PieceOf
  <2>3. IsWholeIn(s, p) /\ p.last <= n
    BY DEF Tiled
  <2> HIDE DEF p
  <2>4. p.first - 1 \in 0..l /\ p.last \in 0..l /\ \A m \in p.first..(p.last - 1) : m \in 0..l
    BY <2>2, <2>3 DEF IsWholeIn
  <2>5. IsWholeIn(st, p)
    BY <2>3, <2>4 DEF IsWholeIn, Levels
  <2> QED BY <2>5 DEF p
<1> QED BY <1>1 DEF Tiled

\* The pieces end where nothing is open.
LEMMA TiledEnds ==
  ASSUME NEW s, NEW ps \in Seq(PieceOf), NEW n, Tiled(s, ps, n)
  PROVE  n \in Nat /\ Depth(s, n) = 0
<1>1. CASE ps = << >>
  BY <1>1, NoDepth DEF Tiled
<1>2. CASE ps # << >>
  <2>1. Len(ps) \in 1..Len(ps)
    BY <1>2, EmptySeq, LenProperties
  <2>2. ps[Len(ps)] \in PieceOf
    BY <2>1, ElementOfSeq
  <2>3. ps[Len(ps)].last \in Nat
    BY <2>2 DEF PieceOf
  <2> QED BY <1>2, <2>1, <2>3 DEF Tiled, IsWholeIn
<1> QED BY <1>1, <1>2

\* One piece more.
LEMMA TiledMore ==
  ASSUME NEW s, NEW ps \in Seq(PieceOf), NEW n, Tiled(s, ps, n), NEW p \in PieceOf,
         p.first = n + 1, IsWholeIn(s, p)
  PROVE  Tiled(s, ps \o << p >>, p.last)
<1> DEFINE q  == << p >>
           pq == ps \o q
<1>1. q \in Seq(PieceOf) /\ Len(q) = 1 /\ q[1] = p
  BY OneInSeq
<1> HIDE DEF q
<1>2. pq \in Seq(PieceOf) /\ Joined(ps, q, pq) /\ Len(ps) \in Nat
  BY <1>1, JoinedAre
<1> HIDE DEF pq
<1>3. Len(pq) = Len(ps) + 1 /\ pq[Len(ps) + 1] = p /\ \A i \in 1..Len(ps) : pq[i] = ps[i]
  BY <1>1, <1>2 DEF Joined
<1>4. n \in Nat /\ p.first \in Nat /\ p.last \in Nat /\ p.first <= p.last
  BY TiledEnds DEF PieceOf, IsWholeIn
<1>5. ps = << >> => Len(ps) = 0
  OBVIOUS
<1>6. ps # << >> => Len(ps) # 0
  BY EmptySeq
<1>7. ASSUME NEW i \in 1..Len(pq)
      PROVE  /\ IsWholeIn(s, pq[i]) /\ pq[i].last <= p.last
             /\ pq[i].first = IF i = 1 THEN 1 ELSE pq[i - 1].last + 1
  <2>1. CASE i \in 1..Len(ps)
    <3>1. /\ IsWholeIn(s, ps[i]) /\ ps[i].last <= n
          /\ ps[i].first = IF i = 1 THEN 1 ELSE ps[i - 1].last + 1
      BY <2>1 DEF Tiled
    <3>2. ps[i].last \in Nat
      <4>1. ps[i] \in PieceOf
        BY <2>1, ElementOfSeq
      <4> QED BY <4>1 DEF PieceOf
    <3>3. i # 1 => i - 1 \in 1..Len(ps)
      BY <1>2, <2>1
    <3> QED BY <1>3, <1>4, <2>1, <3>1, <3>2, <3>3
  <2>2. CASE i = Len(ps) + 1
    BY <1>5, <2>2, <1>3, <1>4, <1>2, <1>6 DEF Tiled
  <2> QED BY <1>2, <1>3, <2>1, <2>2
<1>8. pq # << >> /\ pq[Len(pq)].last = p.last
  BY <1>2, <1>3
<1>9. Tiled(s, pq, p.last)
  BY <1>7, <1>8 DEF Tiled
<1> QED BY <1>9 DEF pq, q

\* Nothing is indexed, or the one element that was written.
LEMMA TiledIndexed ==
  ASSUME NEW X, NEW st \in Seq(X), NEW ps \in Seq(PieceOf), NEW n, Tiled(st, ps, n),
         NEW at \in Nat, NEW m, m.out = st,
         n = Len(st) \/ (n < Len(st) /\ Depth(st, Len(st)) = 0
                         /\ \A k \in (n + 1)..(Len(st) - 1) : Depth(st, k) > 0)
  PROVE  Tiled(st, ps \o Indexed(n, at, m), Len(st))
<1>1. n \in Nat /\ Depth(st, n) = 0 /\ Len(st) \in Nat
  BY TiledEnds, LenProperties
<1>2. CASE n = Len(st)
  <2>1. Indexed(n, at, m) = << >>
    BY <1>1, <1>2 DEF Indexed
  <2>2. ps \o << >> = ps
    BY ConcatEmptySeq
  <2> QED BY <1>2, <2>1, <2>2
<1>3. CASE n < Len(st)
  <2> DEFINE p == [first |-> n + 1, last |-> Len(st), line |-> at]
  <2>1. Indexed(n, at, m) = << p >>
    BY <1>1, <1>3 DEF Indexed
  <2>2. p \in PieceOf /\ p.first = n + 1 /\ p.last = Len(st)
    BY <1>1 DEF PieceOf
  <2> HIDE DEF p
  <2>3. IsWholeIn(st, p)
    BY <1>1, <1>3, <2>2 DEF IsWholeIn
  <2>4. Tiled(st, ps \o << p >>, p.last)
    BY <2>2, <2>3, TiledMore
  <2> QED BY <2>1, <2>2, <2>4
<1> QED BY <1>1, <1>2, <1>3

LEMMA ClosedOn ==
  ASSUME NEW t, Closed(t), NEW a \in Nat
  PROVE  GoesOn(t, a, 0)
<1>1. \A m \in 0..Len(t) : Depth(t, m) \in Int
  BY DepthStep
<1> QED BY <1>1 DEF Closed, Rises, GoesOn

LEMMA OpensOn ==
  ASSUME NEW X, NEW t \in Seq(X), Opens(t), NEW a \in Nat
  PROVE  GoesOn(t, a, 1)
<1>1. \A m \in 0..Len(t) : Depth(t, m) \in Int /\ (m = 0 \/ m \in 1..Len(t))
  BY DepthStep, LenProperties
<1> QED BY <1>1, NoDepth DEF Opens, GoesOn

LEMMA EndOn ==
  ASSUME NEW z, Single(z, "close", 0), NEW a \in Nat \ {0}
  PROVE  GoesOn(z, a, -1)
<1>1. Len(z) = 1 /\ Depth(z, 0) = 0 /\ Depth(z, 1) = -1
  BY OneItem DEF Single, Rise
<1>2. \A m \in 0..1 : m = 0 \/ m = 1
  OBVIOUS
<1> QED BY <1>1, <1>2 DEF GoesOn

\* What is known of a text and what comes after it.
LEMMA After ==
  ASSUME NEW X, NEW s \in Seq(X), NEW t \in Seq(X)
  PROVE  LET st == s \o t
         IN  /\ st \in Seq(X) /\ Sums(s, t, st) /\ Len(st) = Len(s) + Len(t)
             /\ Len(s) \in Nat /\ Len(t) \in Nat
             /\ \A m \in (Len(s) + 1)..Len(st) : m - Len(s) \in 1..Len(t)
<1> DEFINE st == s \o t
<1>1. st \in Seq(X) /\ Joined(s, t, st) /\ Len(s) \in Nat /\ Len(t) \in Nat
  BY JoinedAre
<1> HIDE DEF st
<1>2. Sums(s, t, st) /\ Len(st) = Len(s) + Len(t)
  BY <1>1, DepthJoined DEF Joined
<1>3. \A m \in (Len(s) + 1)..Len(st) : m - Len(s) \in 1..Len(t)
  BY <1>1, <1>2
<1> QED BY <1>1, <1>2, <1>3 DEF st

\* The places of the containers before it are what a text's place is known by.
LEMMA PlacedSame ==
  ASSUME NEW s, NEW e \in Nat \ {0}, NEW ps, NEW w, NEW v, Placed(s, e, ps, w),
         \A k \in 1..(e - 1) : v[k] = w[k]
  PROVE  Placed(s, e, ps, v)
<1>1. ASSUME NEW o \in 0..(e - 1), Over(v, o, e) PROVE Layer(s, o, e, ps, v)
  BY <1>1 DEF Over, Placed, Layer, MainFits
<1> QED BY <1>1 DEF Placed

\* More is written inside a container.
LEMMA PlacedOn ==
  ASSUME NEW X, NEW s \in Seq(X), NEW t \in Seq(X), NEW e \in Nat \ {0, 1},
         NEW ps \in Seq(PieceOf), NEW w, Placed(s, e, ps, w), Closed(t)
  PROVE  Placed(s \o t, e, ps, w)
<1> DEFINE st == s \o t
<1>1. /\ st \in Seq(X) /\ Sums(s, t, st) /\ Len(st) = Len(s) + Len(t)
      /\ Len(s) \in Nat /\ Len(t) \in Nat
      /\ \A m \in (Len(s) + 1)..Len(st) : m - Len(s) \in 1..Len(t)
  BY After
<1>2. ASSUME NEW o \in 0..(e - 1), Over(w, o, e) PROVE Layer(st, o, e, ps, w)
  <2>1. Layer(s, o, e, ps, w) /\ e - 1 - o \in Nat
    BY <1>2 DEF Placed
  <2>2. Rises(st, e - 1 - o)
    BY <2>1, ClosedOn, RisesOn DEF Layer
  <2> HIDE DEF st
  <2>3. ASSUME o = 0 PROVE MainFits(st, e - 1, ps, w)
    <3>1. /\ Tiled(s, ps, w[1].from) /\ w[1].from < Len(s)
          /\ \A m \in (w[1].from + 1)..Len(s) : Depth(s, m) > 0
      BY <2>1, <2>3 DEF Layer, MainFits
    <3> DEFINE b == w[1].from
    <3>2. b \in Nat
      BY <3>1, TiledEnds
    <3> HIDE DEF b
    <3>3. \A m \in 0..Len(s) : Depth(st, m) = Depth(s, m)
      BY <1>1 DEF Sums
    <3>4. Tiled(st, ps, b)
      <4>1. Levels(s, st, Len(s))
        BY <3>3 DEF Levels
      <4>2. Tiled(s, ps, b) /\ b <= Len(s)
        BY <1>1, <3>1, <3>2 DEF b
      <4> QED BY <1>1, <3>2, <4>1, <4>2, TiledSame
    <3>5. ASSUME NEW m \in (b + 1)..Len(st) PROVE Depth(st, m) > 0
      <4>1. CASE m <= Len(s)
        BY <1>1, <3>1, <3>2, <3>3, <4>1 DEF b
      <4>2. CASE m > Len(s)
        <5> DEFINE k == m - Len(s)
        <5>1. k \in 0..Len(t) /\ m \in Len(s)..Len(st)
          BY <1>1, <3>2, <4>2
        <5>2. Depth(st, m) = Depth(s, Len(s)) + Depth(t, k)
          BY <1>1, <5>1 DEF Sums
        <5> HIDE DEF k
        <5>3. Depth(s, Len(s)) = e - 1
          BY <2>1, <2>3 DEF Layer, Rises
        <5>4. Depth(t, k) >= 0 /\ Depth(t, k) \in Int
          BY <5>1, DepthStep DEF Closed, Rises
        <5> QED BY <5>2, <5>3, <5>4
      <4> QED BY <1>1, <3>2, <4>1, <4>2
    <3>6. b < Len(st)
      BY <1>1, <3>1, <3>2 DEF b
    <3> QED BY <3>4, <3>5, <3>6 DEF MainFits, b
  <2> QED BY <2>2, <2>3 DEF Layer
<1> QED BY <1>2 DEF Placed

\* An element of the page, or nothing, is written where no container is.
LEMMA PlacedTop ==
  ASSUME NEW X, NEW s \in Seq(X), NEW t \in Seq(X), NEW ps \in Seq(PieceOf), NEW w, NEW v,
         Placed(s, 1, ps, w), t = << >> \/ Whole(t), NEW at \in Nat, NEW m, m.out = s \o t
  PROVE  Placed(s \o t, 1, ps \o Indexed(Len(s), at, m), v)
<1> DEFINE st == s \o t
<1>1. /\ st \in Seq(X) /\ Sums(s, t, st) /\ Len(st) = Len(s) + Len(t)
      /\ Len(s) \in Nat /\ Len(t) \in Nat
      /\ \A k \in (Len(s) + 1)..Len(st) : k - Len(s) \in 1..Len(t)
  BY After
<1>2. Rises(s, 0) /\ Tiled(s, ps, Len(s))
  BY DEF Over, Placed, Layer, MainFits
<1>3. Rises(st, 0)
  BY EmptyIsClosed, WholeIsClosed, <1>2, ClosedOn, RisesOn
<1>4. m.out = st
  OBVIOUS
<1> HIDE DEF st
<1>5. \A k \in 0..Len(s) : Depth(st, k) = Depth(s, k)
  BY <1>1 DEF Sums
<1>6. Tiled(st, ps, Len(s))
  <2>1. Levels(s, st, Len(s)) /\ Len(s) <= Len(s)
    BY <1>1, <1>5 DEF Levels
  <2> QED BY <1>1, <1>2, <2>1, TiledSame
<1>7. Len(s) = Len(st) \/ (Len(s) < Len(st) /\ Depth(st, Len(st)) = 0
                           /\ \A k \in (Len(s) + 1)..(Len(st) - 1) : Depth(st, k) > 0)
  <2>1. CASE t = << >>
    BY <2>1, <1>1
  <2>2. CASE Whole(t)
    <3>1. Len(s) < Len(st) /\ Depth(st, Len(st)) = 0
      BY <1>1, <1>3, <2>2 DEF Whole, Rises
    <3>2. ASSUME NEW k \in (Len(s) + 1)..(Len(st) - 1) PROVE Depth(st, k) > 0
      <4> DEFINE j == k - Len(s)
      <4>1. j \in 1..(Len(t) - 1) /\ k \in Len(s)..Len(st)
        BY <1>1
      <4>2. Depth(st, k) = Depth(s, Len(s)) + Depth(t, j)
        BY <1>1, <4>1 DEF Sums
      <4> HIDE DEF j
      <4>3. Depth(s, Len(s)) = 0
        BY <1>2 DEF Rises
      <4>4. Depth(t, j) > 0
        BY <2>2, <4>1 DEF Whole
      <4>5. Depth(t, j) \in Int
        BY <4>1, DepthStep
      <4> QED BY <4>2, <4>3, <4>4, <4>5
    <3> QED BY <3>1, <3>2
  <2> QED BY <2>1, <2>2
<1>8. Tiled(st, ps \o Indexed(Len(s), at, m), Len(st))
  BY <1>1, <1>4, <1>6, <1>7, TiledIndexed
<1> DEFINE pq == ps \o Indexed(Len(s), at, m)
<1> HIDE DEF pq
<1>9. ASSUME NEW o \in 0..(1 - 1), Over(v, o, 1) PROVE Layer(st, o, 1, pq, v)
  BY <1>8, <1>3 DEF MainFits, pq, Layer
<1> QED BY <1>9 DEF Placed, pq, st

\* Into a container whose text goes on where it is.
LEMMA PlacedDeeper ==
  ASSUME NEW X, NEW s \in Seq(X), NEW t \in Seq(X), NEW e \in Nat \ {0},
         NEW ps \in Seq(PieceOf), NEW w, NEW v, Placed(s, e, ps, w), Opens(t),
         \A k \in 1..(e - 1) : v[k] = w[k], ~Captor(v[e]), v[e].from = Len(s)
  PROVE  Placed(s \o t, e + 1, ps, v)
<1> DEFINE st == s \o t
<1>1. /\ st \in Seq(X) /\ Sums(s, t, st) /\ Len(st) = Len(s) + Len(t)
      /\ Len(s) \in Nat /\ Len(t) \in Nat
      /\ \A m \in (Len(s) + 1)..Len(st) : m - Len(s) \in 1..Len(t)
  BY After
<1>2. ASSUME NEW o \in 0..((e + 1) - 1), Over(v, o, e + 1) PROVE Layer(st, o, e + 1, ps, v)
  <2>1. o # e
    BY <1>2 DEF Over
  <2>2. o \in 0..(e - 1) /\ e - 1 - o \in Nat
    BY <2>1
  <2>3. Over(w, o, e)
    BY <2>2, <1>2 DEF Over
  <2>4. Layer(s, o, e, ps, w)
    BY <2>2, <2>3 DEF Placed
  <2>5. Rises(st, (e + 1) - 1 - o)
    <3> DEFINE a == e - 1 - o
    <3>1. a \in Nat /\ Rises(s, a)
      BY <2>2, <2>4 DEF Layer
    <3>2. (e + 1) - 1 - o = a + 1
      BY <2>2
    <3> HIDE DEF a
    <3>3. GoesOn(t, a, 1)
      BY <3>1, OpensOn
    <3>4. s \in Seq(X) /\ t \in Seq(X) /\ a \in Int /\ 1 \in Int /\ Rises(s, a) /\ GoesOn(t, a, 1)
      BY <3>1, <3>3
    <3>5. Rises(s \o t, a + 1)
      BY ONLY <3>4, RisesOn
    <3> QED BY <3>2, <3>5
  <2> HIDE DEF st
  <2>6. ASSUME o = 0 PROVE MainFits(st, (e + 1) - 1, ps, v)
    <3> DEFINE b == v[1].from
    <3>1. MainFits(s, e - 1, ps, w) /\ Depth(s, Len(s)) = e - 1
      BY <2>4, <2>6 DEF Layer, Rises
    <3>2. /\ Tiled(s, ps, b) /\ b <= Len(s)
          /\ \A m \in (b + 1)..Len(s) : Depth(s, m) > 0
      BY <3>1, <1>1, TiledEnds DEF MainFits
    <3>3. b \in Nat
      BY <3>2, TiledEnds
    <3> HIDE DEF b
    <3>4. \A m \in 0..Len(s) : Depth(st, m) = Depth(s, m)
      BY <1>1 DEF Sums
    <3>5. Tiled(st, ps, b)
      BY <3>4, <1>1, <3>2, <3>3, TiledSame DEF Levels
    <3>6. ASSUME NEW m \in (b + 1)..Len(st) PROVE Depth(st, m) > 0
      <4>1. CASE m <= Len(s)
        BY <1>1, <3>2, <3>3, <3>4, <4>1
      <4>2. CASE m > Len(s)
        <5> DEFINE k == m - Len(s)
        <5>1. k \in 1..Len(t) /\ m \in Len(s)..Len(st)
          BY <1>1, <3>3, <4>2
        <5>2. Depth(st, m) = Depth(s, Len(s)) + Depth(t, k)
          BY <1>1, <5>1 DEF Sums
        <5> HIDE DEF k
        <5>3. Depth(t, k) > 0 /\ Depth(t, k) \in Int
          <6>1. k \in Nat /\ Depth(t, k) > 0
            BY <5>1 DEF Opens
          <6> QED BY <6>1, DepthStep
        <5> QED BY <3>1, <5>2, <5>3
      <4> QED BY <1>1, <3>3, <4>1, <4>2
    <3>7. b < Len(st)
      BY <1>1, <3>2, <3>3 DEF Opens
    <3>8. (e + 1) - 1 # 0
      OBVIOUS
    <3> QED BY <3>5, <3>6, <3>7, <3>8 DEF MainFits, b
  <2> QED BY <2>5, <2>6 DEF Layer
<1> QED BY <1>2 DEF Placed

\* Out of a container inside another.
LEMMA PlacedBack ==
  ASSUME NEW X, NEW s \in Seq(X), NEW z \in Seq(X), NEW e \in Nat \ {0, 1},
         NEW ps \in Seq(PieceOf), NEW w, NEW v, Placed(s, e + 1, ps, w), Single(z, "close", 0),
         \A k \in 1..(e - 1) : v[k] = w[k], ~Captor(w[e])
  PROVE  Placed(s \o z, e, ps, v)
<1> DEFINE st == s \o z
<1>1. /\ st \in Seq(X) /\ Sums(s, z, st) /\ Len(st) = Len(s) + Len(z)
      /\ Len(s) \in Nat /\ Len(z) \in Nat
      /\ \A m \in (Len(s) + 1)..Len(st) : m - Len(s) \in 1..Len(z)
  BY After
<1>2. ASSUME NEW o \in 0..(e - 1), Over(v, o, e) PROVE Layer(st, o, e, ps, v)
  <2>1. Over(w, o, e + 1)
    BY <1>2 DEF Over
  <2>2. Layer(s, o, e + 1, ps, w)
    BY <2>1 DEF Placed
  <2>3. Rises(st, e - 1 - o)
    BY <2>2, EndOn, RisesOn DEF Layer
  <2> HIDE DEF st
  <2>4. ASSUME o = 0 PROVE MainFits(st, e - 1, ps, v)
    <3> DEFINE b == w[1].from
    <3>1. /\ Tiled(s, ps, b) /\ b < Len(s)
          /\ \A m \in (b + 1)..Len(s) : Depth(s, m) > 0
      BY <2>2, <2>4 DEF Layer, MainFits
    <3>2. b \in Nat
      BY <3>1, TiledEnds
    <3>3. b = v[1].from /\ e - 1 # 0
      OBVIOUS
    <3> HIDE DEF b
    <3>4. \A m \in 0..Len(s) : Depth(st, m) = Depth(s, m)
      BY <1>1 DEF Sums
    <3>5. Tiled(st, ps, b)
      <4>1. Levels(s, st, Len(s)) /\ b <= Len(s)
        BY <1>1, <3>1, <3>2, <3>4 DEF Levels
      <4> QED BY <1>1, <3>1, <3>2, <4>1, TiledSame
    <3>6. Len(z) = 1
      BY DEF Single
    <3>7. ASSUME NEW m \in (b + 1)..Len(st) PROVE Depth(st, m) > 0
      BY <1>1, <3>1, <3>2, <3>4, <3>6, <2>3, <2>4 DEF Rises
    <3>8. b < Len(st)
      BY <1>1, <3>1, <3>2, <3>6
    <3> QED BY <3>3, <3>5, <3>7, <3>8 DEF MainFits
  <2> QED BY <2>3, <2>4 DEF Layer
<1> QED BY <1>2 DEF Placed

\* Out of the only container: an element of the page ends.
LEMMA PlacedBackTop ==
  ASSUME NEW X, NEW s \in Seq(X), NEW z \in Seq(X),
         NEW ps \in Seq(PieceOf), NEW w, NEW v, Placed(s, 2, ps, w), Single(z, "close", 0),
         ~Captor(w[1]), NEW at \in Nat, NEW m, m.out = s \o z
  PROVE  Placed(s \o z, 1, ps \o Indexed(w[1].from, at, m), v)
<1> DEFINE st == s \o z
           b  == w[1].from
<1>1. /\ st \in Seq(X) /\ Sums(s, z, st) /\ Len(st) = Len(s) + Len(z)
      /\ Len(s) \in Nat /\ Len(z) \in Nat
      /\ \A k \in (Len(s) + 1)..Len(st) : k - Len(s) \in 1..Len(z)
  BY After
<1>2. /\ Rises(s, 1) /\ Tiled(s, ps, b) /\ b < Len(s)
      /\ \A k \in (b + 1)..Len(s) : Depth(s, k) > 0
  BY DEF Over, Placed, Layer, MainFits
<1>3. Rises(st, 0)
  BY <1>2, EndOn, RisesOn
<1>4. m.out = st /\ b \in Nat
  BY <1>2, TiledEnds
<1> HIDE DEF st, b
<1>5. \A k \in 0..Len(s) : Depth(st, k) = Depth(s, k)
  BY <1>1 DEF Sums
<1>6. Tiled(st, ps, b)
  <2>1. Levels(s, st, Len(s)) /\ b <= Len(s)
    BY <1>1, <1>2, <1>4, <1>5 DEF Levels
  <2> QED BY <1>1, <1>2, <1>4, <2>1, TiledSame
<1>7. b < Len(st) /\ Depth(st, Len(st)) = 0 /\ \A k \in (b + 1)..(Len(st) - 1) : Depth(st, k) > 0
  BY <1>1, <1>4, <1>2, <1>3, <1>5 DEF Single, Rises
<1> DEFINE pq == ps \o Indexed(b, at, m)
<1>8. Tiled(st, pq, Len(st))
  BY <1>1, <1>4, <1>6, <1>7, TiledIndexed
<1> HIDE DEF pq
<1>9. ASSUME NEW o \in 0..(1 - 1), Over(v, o, 1) PROVE Layer(st, o, 1, pq, v)
  BY <1>8, <1>3 DEF MainFits, Layer
<1> QED BY <1>9 DEF Placed, pq, st, b

LEMMA PiecesAre ==
  ASSUME HtmlTyped
  PROVE  pieces \in Seq(PieceOf)
BY DEF HtmlTyped, PieceOf

\* What is held stays where it is while the containers before it and the pieces do.
LEMMA HeldPlaced ==
  ASSUME DepthInv, pieces' = pieces, NEW e \in 1..Len(within), Len(within) \in Nat,
         \A k \in 1..e : within'[k] = within[k], Captor(within'[e])
  PROVE  /\ Placed(within'[e].held, e, pieces', within')
         /\ within'[e].from = Len(within'[e].held)
<1>1. within'[e] = within[e] /\ e \in Nat \ {0}
  OBVIOUS
<1>2. Placed(within[e].held, e, pieces, within) /\ within[e].from = Len(within[e].held)
  BY <1>1 DEF DepthInv
<1>3. \A k \in 1..(e - 1) : k \in 1..e
  BY <1>1
<1>4. Placed(within[e].held, e, pieces, within')
  BY <1>1, <1>2, <1>3, PlacedSame
<1> QED BY <1>1, <1>2, <1>4

\* The depths, where the walk stays inside a container.
LEMMA InsideDepth ==
  ASSUME HtmlTyped, DepthInv, within # << >>, within' = within, pieces' = pieces,
         NEW t \in Seq(MarkupItems), NEW raw, WrittenIn(markup', t, raw), Closed(t),
         \A i \in 1..Len(footnotes') : Rises(footnotes'[i].html, 0)
  PROVE  DepthInv'
<1>1. markup.out \in Seq(MarkupItems) /\ pieces \in Seq(PieceOf) /\ Len(within) \in Nat
  BY MarkupParts, PiecesAre, LenProperties DEF HtmlTyped
<1>2. Len(within) + 1 \in Nat \ {0, 1}
  BY <1>1, EmptySeq DEF HtmlTyped
<1>3. Placed(markup.out, Len(within) + 1, pieces, within)
  BY DEF DepthInv
<1> DEFINE e == Len(within) + 1
<1>4. Placed(markup.out \o t, e, pieces, within)
  BY <1>2, <1>3, <1>1, PlacedOn
<1>5. Placed(markup'.out, Len(within') + 1, pieces', within')
  BY <1>4 DEF WrittenIn
<1>6. ASSUME NEW k \in 1..Len(within'), Captor(within'[k])
      PROVE  /\ Placed(within'[k].held, k, pieces', within')
             /\ within'[k].from = Len(within'[k].held)
  BY <1>1, <1>6, HeldPlaced
<1> QED BY <1>5, <1>6 DEF DepthInv

LEMMA LeafDepth ==
  ASSUME HtmlTyped, DepthInv, NEW t, NEW raw, LeafOf(t, raw), markup'.raw = {}
  PROVE  DepthInv'
<1>1. /\ t \in Seq(MarkupItems) /\ WrittenIn(markup', t, raw) /\ within' = within
      /\ footnotes' = footnotes
  BY DEF LeafOf, Plain
<1>2. t = << >> \/ Whole(t)
  <2>1. markup'.raw = markup.raw \union raw /\ (raw # {} \/ t = << >> \/ Whole(t))
    BY DEF LeafOf, WrittenIn
  <2> QED BY <2>1
<1>3. markup.out \in Seq(MarkupItems) /\ pieces \in Seq(PieceOf) /\ line \in Nat
  BY MarkupParts, PiecesAre DEF HtmlTyped
<1>4. Closed(t)
  BY <1>1, <1>2, EmptyIsClosed, WholeIsClosed
<1>5. \A i \in 1..Len(footnotes') : Rises(footnotes'[i].html, 0)
  BY <1>1 DEF DepthInv
<1>6. CASE within # << >>
  BY <1>6, <1>1, <1>4, <1>5, InsideDepth DEF LeafOf
<1>7. CASE within = << >>
  <2>1. pieces' = pieces \o Indexed(Len(markup.out), line, markup')
    BY <1>7 DEF LeafOf
  <2>2. Len(within) = 0 /\ 1..Len(within) = {} /\ 0 + 1 = 1
    BY <1>7
  <2>3. Placed(markup.out, 1, pieces, within)
    BY <2>2 DEF DepthInv
  <2>4. markup'.out = markup.out \o t
    BY <1>1 DEF WrittenIn
  <2>5. Placed(markup'.out, 1, pieces', within')
    <3>1. Placed(markup.out \o t, 1, pieces \o Indexed(Len(markup.out), line, markup'), within')
      BY <1>1, <1>2, <1>3, <2>3, <2>4, PlacedTop
    <3> QED BY <2>1, <2>4, <3>1
  <2> QED BY <1>1, <1>5, <2>2, <2>5 DEF DepthInv
<1> QED BY <1>6, <1>7

LEMMA InlineDepth ==
  ASSUME HtmlTyped, DepthInv, NEW t, NEW raw, InlineOf(t, raw), markup'.raw = {}
  PROVE  DepthInv'
<1>1. within # << >>
  BY DEF InlineOf, InlineHere, Within
<1>2. /\ t \in Seq(MarkupItems) /\ Closed(t) /\ WrittenIn(markup', t, raw)
      /\ within' = within /\ pieces' = pieces /\ footnotes' = footnotes
  <2>1. markup'.raw = markup.raw \union raw
    BY DEF InlineOf, WrittenIn
  <2>2. raw = {}
    BY <2>1
  <2> QED BY <2>2 DEF InlineOf, Plain
<1>3. \A i \in 1..Len(footnotes') : Rises(footnotes'[i].html, 0)
  BY <1>2 DEF DepthInv
<1> QED BY <1>1, <1>2, <1>3, InsideDepth

LEMMA ReferenceDepth ==
  ASSUME HtmlTyped, DepthInv, NEW f, NEW n, NEW label, NEW t, ReferenceOf(f, n, label, t)
  PROVE  DepthInv'
<1>1. within # << >>
  BY DEF ReferenceOf, InlineHere, Within
<1>2. /\ t \in Seq(MarkupItems) /\ Closed(t) /\ WrittenIn(markup', t, {})
      /\ within' = within /\ pieces' = pieces
  BY WholeIsClosed DEF ReferenceOf, Refers
<1>3. ASSUME NEW i \in 1..Len(footnotes') PROVE Rises(footnotes'[i].html, 0)
  <2>1. NotesAfter(n, f[n], Referred(f[n], label))
    BY ReferenceNotes
  <2>2. CASE i = n
    BY <2>1, <2>2, OldHtml, EmptyIsClosed DEF NotesAfter, Referred, DepthInv, Closed
  <2>3. CASE i # n
    BY <2>1, <2>3 DEF NotesAfter, DepthInv
  <2> QED BY <2>2, <2>3
<1> QED BY <1>1, <1>2, <1>3, InsideDepth

LEMMA EnterDepth ==
  ASSUME HtmlTyped, DepthInv, NEW kind, NEW t, EnterOf(kind, t)
  PROVE  DepthInv'
<1> DEFINE c == Container(kind, "", << >>)
           e == Len(within) + 1
<1>1. Deeper(c) /\ ~Captor(c) /\ c.from = Len(markup.out)
  BY EnterTyped DEF Container, EnterOf, Captor
<1>2. t \in Seq(MarkupItems) /\ Opens(t) /\ markup'.out = markup.out \o t
      /\ pieces' = pieces /\ footnotes' = footnotes
  BY DEF EnterOf, WrittenIn, Plain
<1>3. markup.out \in Seq(MarkupItems) /\ pieces \in Seq(PieceOf)
  BY MarkupParts, PiecesAre
<1>4. Placed(markup.out, e, pieces, within)
  BY DEF DepthInv
<1> HIDE DEF c
<1>5. /\ Len(within) \in Nat /\ e \in Nat \ {0} /\ Len(within') = e /\ within'[e] = c
      /\ \A k \in 1..Len(within) : within'[k] = within[k]
      /\ e - 1 = Len(within)
  BY <1>1 DEF Deeper
<1> HIDE DEF e
<1>6. Placed(markup.out \o t, e + 1, pieces, within')
  BY <1>5, <1>1, <1>2, <1>3, <1>4, PlacedDeeper
<1>7. ASSUME NEW k \in 1..Len(within'), Captor(within'[k])
      PROVE  /\ Placed(within'[k].held, k, pieces', within')
             /\ within'[k].from = Len(within'[k].held)
  BY <1>1, <1>5, <1>7, <1>2, HeldPlaced
<1> QED BY <1>2, <1>5, <1>6, <1>7 DEF DepthInv

LEMMA ApartDepth ==
  ASSUME HtmlTyped, DepthInv, NEW kind, NEW label, ApartOf(kind, label)
  PROVE  DepthInv'
<1> DEFINE c == Container(kind, label, markup.out)
           e == Len(within) + 1
<1>1. Deeper(c) /\ Captor(c) /\ c.from = Len(markup.out) /\ c.held = markup.out
  BY ApartTyped DEF Container, ApartOf, Captor
<1>2. markup'.out = << >> /\ pieces' = pieces /\ footnotes' = footnotes
  BY DEF ApartOf
<1>3. Placed(markup.out, e, pieces, within)
  BY DEF DepthInv
<1> HIDE DEF c
<1>4. /\ Len(within) \in Nat /\ e \in Nat \ {0} /\ Len(within') = e /\ within'[e] = c
      /\ \A k \in 1..Len(within) : within'[k] = within[k]
      /\ e - 1 = Len(within)
  BY <1>1 DEF Deeper
<1> HIDE DEF e
<1>5. Placed(<< >>, e + 1, pieces, within')
  <2>1. ASSUME NEW o \in 0..((e + 1) - 1), Over(within', o, e + 1)
        PROVE  Layer(<< >>, o, e + 1, pieces, within')
    BY <1>4, <1>1, <2>1, EmptyIsClosed DEF Over, Layer, Closed
  <2> QED BY <2>1 DEF Placed
<1>6. ASSUME NEW k \in 1..Len(within'), Captor(within'[k])
      PROVE  /\ Placed(within'[k].held, k, pieces', within')
             /\ within'[k].from = Len(within'[k].held)
  <2>1. CASE k = e
    BY <1>4, <1>3, PlacedSame, <1>1, <1>2, <2>1
  <2>2. CASE k # e
    BY <1>4, <2>2, <1>2, <1>6, HeldPlaced
  <2> QED BY <2>1, <2>2
<1> QED BY <1>2, <1>4, <1>5, <1>6 DEF DepthInv

\* What is held by the containers that are left, once the walk is out of one of them.
LEMMA BackHeld ==
  ASSUME DepthInv, Shallower, pieces' = pieces \/ Len(within) = 1
  PROVE  \A k \in 1..Len(within') : Captor(within'[k]) =>
           /\ Placed(within'[k].held, k, pieces', within')
           /\ within'[k].from = Len(within'[k].held)
<1>1. ASSUME NEW k \in 1..Len(within'), Captor(within'[k])
      PROVE  /\ Placed(within'[k].held, k, pieces', within')
             /\ within'[k].from = Len(within'[k].held)
  BY <1>1, HeldPlaced DEF Shallower
<1> QED BY <1>1

LEMMA CloseDepth ==
  ASSUME HtmlTyped, DepthInv, NEW kind, CloseOf(kind)
  PROVE  DepthInv'
<1> DEFINE z == EndTag(kind)
           e == Len(within)
<1>1. Shallower /\ within[e].kind = kind
  BY CloseTyped
<1>2. /\ kind \in HtmlNames /\ kind \notin {"h", "note"} /\ BackFrom(kind)
      /\ footnotes' = footnotes /\ markup'.out = markup.out \o z
  BY DEF CloseOf, HtmlNames, WrittenIn
<1>3. Single(z, "close", 0) /\ z \in Seq(MarkupItems)
  BY <1>2, TagIs DEF Single, Plain
<1>4. markup.out \in Seq(MarkupItems) /\ pieces \in Seq(PieceOf)
  BY MarkupParts, PiecesAre
<1>5. e \in Nat \ {0} /\ ~Captor(within[e]) /\ within[e] \in Containers
  BY <1>1, <1>2 DEF Shallower, Captor
<1>6. Placed(markup.out, e + 1, pieces, within)
  BY DEF DepthInv
<1>7. Len(within') = e - 1 /\ \A k \in 1..(e - 1) : within'[k] = within[k]
  BY <1>1 DEF Shallower
<1>8. pieces' = IF e = 1 THEN pieces \o Indexed(within[1].from, within[1].line, markup') ELSE pieces
  BY <1>2 DEF BackFrom
<1> HIDE DEF z, e
<1>9. Placed(markup'.out, Len(within') + 1, pieces', within')
  <2>1. CASE e = 1
    <3>1. within[1].line \in Nat
      BY <1>5, <2>1 DEF Containers
    <3> DEFINE pq == pieces \o Indexed(within[1].from, within[1].line, markup')
    <3>2. Placed(markup.out \o z, 1, pq, within')
      <4>1. Placed(markup.out, 2, pieces, within) /\ ~Captor(within[1])
        BY <1>5, <1>6, <2>1
      <4> QED BY <1>2, <1>3, <1>4, <3>1, <4>1, PlacedBackTop
    <3> HIDE DEF pq
    <3>3. pieces' = pq /\ Len(within') + 1 = 1
      BY <1>7, <1>8, <2>1 DEF pq
    <3> QED BY <1>2, <3>2, <3>3
  <2>2. CASE e # 1
    <3>1. e \in Nat \ {0, 1} /\ pieces' = pieces /\ Len(within') + 1 = e
      BY <1>5, <1>7, <1>8, <2>2
    <3>2. Placed(markup.out \o z, e, pieces, within')
      BY <1>3, <1>4, <1>5, <1>6, <1>7, <3>1, PlacedBack
    <3> QED BY <1>2, <3>1, <3>2
  <2> QED BY <2>1, <2>2
<1>10. \A k \in 1..Len(within') : Captor(within'[k]) =>
         /\ Placed(within'[k].held, k, pieces', within')
         /\ within'[k].from = Len(within'[k].held)
  BY <1>8, <1>1, BackHeld DEF e
<1> QED BY <1>2, <1>9, <1>10 DEF DepthInv

\* The text of a heading or a note closes what it opens, and what it is written apart from
\* is held where it was.
LEMMA ApartText ==
  ASSUME HtmlTyped, DepthInv, Shallower, Captor(within[Len(within)])
  PROVE  /\ Closed(markup.out)
         /\ Last(within).held \in Seq(MarkupItems) /\ Last(within).line \in Nat
         /\ Last(within).from = Len(Last(within).held)
         /\ Placed(Last(within).held, Len(within), pieces, within)
<1> DEFINE e == Len(within)
           c == within[e]
<1>1. e \in Nat \ {0} /\ Last(within) = c /\ c \in Containers
  BY DEF Shallower
<1>2. Placed(markup.out, e + 1, pieces, within)
  BY DEF DepthInv
<1>3. Placed(c.held, e, pieces, within) /\ c.from = Len(c.held)
  BY <1>1 DEF DepthInv
<1>4. Captor(c)
  OBVIOUS
<1> HIDE DEF e
<1>5. Layer(markup.out, e, e + 1, pieces, within)
  BY <1>1, <1>4, <1>2 DEF Over, Placed
<1>6. Closed(markup.out)
  BY <1>1, <1>5 DEF Layer, Closed
<1>7. c.held \in Seq(MarkupItems) /\ c.line \in Nat
  BY <1>1 DEF Containers
<1> QED BY <1>1, <1>3, <1>6, <1>7 DEF e

LEMMA HeadingDepth ==
  ASSUME HtmlTyped, DepthInv, NEW t, HeadingOf(t)
  PROVE  DepthInv'
<1> DEFINE e == Len(within)
           h == Last(within).held
<1>1. Shallower /\ within[e].kind = "h"
  BY HeadingTyped
<1>2. BackFrom("h") /\ footnotes' = footnotes /\ markup'.out = h \o t
  BY DEF HeadingOf
<1>3. /\ Closed(markup.out) /\ h \in Seq(MarkupItems) /\ Last(within).line \in Nat
      /\ Last(within).from = Len(h) /\ Placed(h, e, pieces, within)
  BY <1>1, ApartText DEF Captor
<1>4. t \in Seq(MarkupItems) /\ Whole(t)
  BY <1>3, HeadingWrites
<1>5. pieces \in Seq(PieceOf)
  BY PiecesAre
<1>6. /\ e \in Nat \ {0} /\ Len(within') = e - 1 /\ Last(within) = within[e]
      /\ \A k \in 1..(e - 1) : within'[k] = within[k]
  BY <1>1 DEF Shallower
<1>7. pieces' = IF e = 1 THEN pieces \o Indexed(within[1].from, within[1].line, markup') ELSE pieces
  BY <1>2 DEF BackFrom
<1> DEFINE at == Last(within).line
           from == Last(within).from
<1>8. e = 1 => within[1].from = from /\ within[1].line = at
  BY <1>6
<1> HIDE DEF e, h, at, from
<1>9. Placed(markup'.out, Len(within') + 1, pieces', within')
  <2>1. CASE e = 1
    <3> DEFINE pq == pieces \o Indexed(Len(h), at, markup')
    <3>1. Placed(h \o t, 1, pq, within')
      BY <1>2, <1>3, <1>4, <1>5, <2>1, PlacedTop DEF at
    <3>2. pieces' = pq
      BY <1>3, <1>7, <1>8, <2>1 DEF from
    <3> HIDE DEF pq
    <3>3. Len(within') + 1 = 1
      BY <1>6, <2>1
    <3> QED BY <1>2, <3>1, <3>2, <3>3
  <2>2. CASE e # 1
    <3>1. e \in Nat \ {0, 1} /\ pieces' = pieces /\ Len(within') + 1 = e
      BY <1>6, <1>7, <2>2
    <3>2. Closed(t)
      BY <1>4, WholeIsClosed
    <3>3. Placed(h \o t, e, pieces, within)
      BY <1>3, <1>4, <1>5, <3>1, <3>2, PlacedOn
    <3>4. Placed(h \o t, e, pieces, within')
      BY <1>6, <3>1, <3>3, PlacedSame
    <3> QED BY <1>2, <3>1, <3>4
  <2> QED BY <2>1, <2>2
<1>10. \A k \in 1..Len(within') : Captor(within'[k]) =>
         /\ Placed(within'[k].held, k, pieces', within')
         /\ within'[k].from = Len(within'[k].held)
  BY <1>7, <1>1, BackHeld DEF e
<1> QED BY <1>2, <1>9, <1>10 DEF DepthInv

LEMMA NoteDepth ==
  ASSUME HtmlTyped, DepthInv, NEW f, NEW n, NEW label, NoteOf(f, n, label)
  PROVE  DepthInv'
<1> DEFINE e == Len(within)
           h == Last(within).held
<1>1. Shallower /\ within[e].kind = "note"
  BY NoteTyped
<1>2. BackFrom("note") /\ markup'.out = h
  BY DEF NoteOf
<1>3. /\ Closed(markup.out) /\ h \in Seq(MarkupItems)
      /\ Last(within).from = Len(h) /\ Placed(h, e, pieces, within)
  BY <1>1, ApartText DEF Captor
<1>4. /\ e \in Nat \ {0} /\ Len(within') + 1 = e /\ Last(within) = within[e]
      /\ \A k \in 1..(e - 1) : within'[k] = within[k]
  BY <1>1 DEF Shallower
<1>5. pieces' = pieces
  BY <1>2, <1>3, <1>4, LenProperties, PiecesAre, ConcatEmptySeq DEF BackFrom, Indexed
<1> HIDE DEF e, h
<1>6. Placed(h, e, pieces, within')
  BY <1>3, <1>4, PlacedSame
<1>7. Placed(markup'.out, Len(within') + 1, pieces', within')
  BY <1>2, <1>4, <1>5, <1>6
<1>8. \A k \in 1..Len(within') : Captor(within'[k]) =>
         /\ Placed(within'[k].held, k, pieces', within')
         /\ within'[k].from = Len(within'[k].held)
  BY <1>1, <1>5, BackHeld
<1>9. ASSUME NEW i \in 1..Len(footnotes') PROVE Rises(footnotes'[i].html, 0)
  <2>1. NotesAfter(n, f[n], Ended(f[n], label))
    BY NoteNotes
  <2>2. CASE i = n
    <3> DEFINE s == StripSourceLines(markup.out)
    <3>1. footnotes'[i].html = s
      BY <2>1, <2>2 DEF NotesAfter, Ended
    <3>2. Bare(s, markup.out) /\ Len(markup.out) \in Nat
      BY MarkupParts, StrippingIs
    <3> HIDE DEF s
    <3>3. Len(s) = Len(markup.out) /\ \A j \in 1..Len(markup.out) : s[j].is = markup.out[j].is
      BY <3>2 DEF Bare
    <3>4. \A m \in 0..Len(markup.out) : Depth(s, m) = Depth(markup.out, m)
      BY <3>2, <3>3, DepthSame
    <3>5. Len(markup.out) \in 0..Len(markup.out)
      BY <3>2
    <3> QED BY <1>3, <3>1, <3>3, <3>4, <3>5 DEF Closed, Rises
  <2>3. CASE i # n
    BY <2>1, <2>3 DEF NotesAfter, DepthInv
  <2> QED BY <2>2, <2>3
<1> QED BY <1>7, <1>8, <1>9 DEF DepthInv

\* What stands at the place of an element of the page is that element.
LEMMA WholeIsElement ==
  ASSUME NEW X, NEW s \in Seq(X), NEW p \in PieceOf, IsWholeIn(s, p), p.last <= Len(s)
  PROVE  IsOneElement(SubSeq(s, p.first, p.last))
<1> DEFINE a == p.first
           b == p.last
           t == SubSeq(s, a, b)
           k == a - 1
<1>1. a \in Nat \ {0} /\ b \in Nat /\ a <= b /\ k \in Nat /\ Len(s) \in Nat
  BY LenProperties DEF PieceOf, IsWholeIn
<1>2. Depth(s, k) = 0 /\ Depth(s, b) = 0 /\ \A m \in a..(b - 1) : Depth(s, m) > 0
  BY DEF IsWholeIn
<1>3. b <= Len(s)
  OBVIOUS
<1> HIDE DEF a, b
<1>4. /\ Len(t) = b - a + 1 /\ \A i \in 1..(b - a + 1) : t[i] = s[a + i - 1]
  BY <1>1, <1>3, ElementOfSeq, SubSeqProperties
<1> DEFINE l == b - a + 1
<1>5. l \in Nat \ {0} /\ k + l = b /\ \A i \in 1..l : a + i - 1 = k + i
  BY <1>1
<1>6. \A m \in 1..(l - 1) : k + m \in a..(b - 1) /\ m \in 0..l
  BY <1>1
<1>7. Len(t) = l /\ \A i \in 1..l : t[i] = s[k + i]
  BY <1>4, <1>5
<1> HIDE DEF t, k, l
<1>8. Alike(t, l, s, k)
  BY <1>7 DEF Alike
<1>9. \A m \in 0..l : Depth(s, k + m) = Depth(s, k) + Depth(t, m)
  BY <1>1, <1>5, <1>8, DepthShift
<1>10. \A m \in 0..l : Depth(s, k + m) = Depth(t, m)
  BY DepthStep, <1>2, <1>9
<1>11. l \in 0..l
  BY <1>5
<1>12. Depth(t, Len(t)) = 0
  BY <1>2, <1>5, <1>7, <1>10, <1>11
<1>13. \A m \in 1..(Len(t) - 1) : Depth(t, m) > 0
  BY <1>2, <1>6, <1>7, <1>10
<1>14. IsOneElement(t)
  BY <1>12, <1>13 DEF IsOneElement
<1> QED BY <1>14 DEF t, a, b

LEMMA EndElements ==
  ASSUME HtmlTyped, markup.raw = {} => DepthInv, NEW t, EndOf(t)
  PROVE  OneElementEach'
<1> SUFFICES ASSUME markup'.raw = {} PROVE BlocksAreTheElements'
  BY EndTyped DEF OneElementEach, Splittable, HtmlTyped, RawSorts
<1>1. /\ within = << >> /\ footnotes' = footnotes /\ WrittenIn(markup', t, {})
      /\ SectionOf(t) /\ pieces' = pieces \o Indexed(Len(markup.out), 0, markup')
  BY DEF EndOf
<1>2. DepthInv
  BY <1>1, MarkupParts DEF WrittenIn
<1>3. markup.out \in Seq(MarkupItems) /\ t \in Seq(MarkupItems) /\ pieces \in Seq(PieceOf)
      /\ markup'.out = markup.out \o t /\ markup'.out \in Seq(MarkupItems)
  BY <1>1, MarkupParts, PiecesAre DEF SectionOf, WrittenIn
<1>4. t = << >> \/ Whole(t)
  BY <1>1, <1>2 DEF SectionOf, DepthInv, Closed
<1>5. Placed(markup.out, 1, pieces, within)
  BY <1>1, <1>2 DEF DepthInv
<1>6. Placed(markup'.out, 1, pieces', within)
  BY <1>1, <1>3, <1>4, <1>5, PlacedTop
<1>7. Tiled(markup'.out, pieces', Len(markup'.out))
  BY <1>6 DEF Over, Placed, Layer, MainFits
<1>8. pieces' \in Seq(PieceOf)
  BY EndTyped DEF HtmlTyped, PieceOf
<1>9. DOMAIN pieces' = 1..Len(pieces') /\ Last(pieces') = pieces'[Len(pieces')]
  BY <1>8, LenProperties DEF Last
<1>10. ASSUME NEW i \in 1..Len(pieces')
       PROVE  IsOneElement(SubSeq(markup'.out, pieces'[i].first, pieces'[i].last))
  BY <1>8, ElementOfSeq, <1>7, <1>3, WholeIsElement DEF Tiled
<1> QED BY <1>7, <1>9, <1>10 DEF Tiled, BlocksAreTheElements

-----------------------------------------------------------------------------
(* Every step of the walk.                                                       *)

LEMMA HtmlInvStarts ==
  HtmlInit => HtmlInv
<1> SUFFICES ASSUME HtmlInit PROVE HtmlInv
  OBVIOUS
<1>1. /\ markup.out = << >> /\ markup = [out |-> << >>, raw |-> {}]
      /\ within = << >> /\ footnotes = << >> /\ pieces = << >> /\ line = 1 /\ ~htmlEnded
  BY DEF HtmlInit
<1>2. Len(<< >>) = 0 /\ 1..0 = {}
  OBVIOUS
<1>3. HtmlTyped
  BY EmptySeq, <1>1 DEF HtmlTyped
<1>4. LinesInv
  BY EmptyAscends, <1>1, <1>2 DEF LinesInv
<1>5. NotesLabelled
  BY <1>1, <1>2 DEF NotesLabelled
<1>6. IdsOnce
  BY <1>1, <1>2 DEF IdsOnce, Once
<1>7. IdsKept
  BY <1>2, <1>1 DEF Ids, Tos, AllIds, IdsIn, RefIds, TosKept, ToNotes, IdsKept
<1>8. DepthInv
  BY <1>2, EmptyIsClosed, <1>1 DEF Tiled, Closed, MainFits, Layer, Placed, DepthInv
<1> QED
  BY <1>1, <1>3, <1>4, <1>5, <1>6, <1>7, <1>8
     DEF HtmlInv, HtmlWalking, PageHangsTogether, LinesAscend, NotesMeet, OneElementEach

\* While the walk goes on, what holds of it is what there is to show.
LEMMA WalksOn ==
  ASSUME ~htmlEnded', HtmlTyped', LinesInv', NotesLabelled', IdsOnce', IdsKept',
         markup'.raw = {} => DepthInv'
  PROVE  HtmlInv'
BY DEF HtmlInv, HtmlWalking, PageHangsTogether, LinesAscend, NotesMeet, OneElementEach

LEMMA WalkIs ==
  ASSUME HtmlInv, ~htmlEnded
  PROVE  /\ HtmlTyped /\ LinesInv /\ NotesLabelled /\ IdsOnce /\ IdsKept
         /\ (markup.raw = {} => DepthInv)
BY DEF HtmlInv, HtmlWalking

LEMMA LeafWalks ==
  ASSUME HtmlInv, NEW t, NEW raw, LeafOf(t, raw)
  PROVE  HtmlInv'
<1>1. /\ ~htmlEnded /\ ~htmlEnded' /\ WrittenIn(markup', t, raw)
      /\ UNCHANGED <<within, footnotes>>
  BY DEF LeafOf
<1>2. HtmlTyped'
  BY <1>1, WalkIs, LeafTyped
<1>3. LinesInv'
  BY <1>1, WalkIs, LeafLines
<1>4. NotesLabelled'
  BY <1>1, WalkIs DEF NotesLabelled
<1>5. IdsOnce' /\ IdsKept'
  BY <1>1, WalkIs, LeafIds
<1>6. ASSUME markup'.raw = {} PROVE DepthInv'
  BY <1>1, <1>6, WalkIs, LeafDepth DEF WrittenIn
<1> QED BY <1>1, <1>2, <1>3, <1>4, <1>5, <1>6, WalksOn

LEMMA InlineWalks ==
  ASSUME HtmlInv, NEW t, NEW raw, InlineOf(t, raw)
  PROVE  HtmlInv'
<1>1. /\ ~htmlEnded /\ ~htmlEnded' /\ WrittenIn(markup', t, raw)
      /\ UNCHANGED <<within, footnotes>>
  BY DEF InlineOf
<1>2. HtmlTyped'
  BY <1>1, WalkIs, InlineTyped
<1>3. LinesInv'
  BY <1>1, WalkIs, InlineLines
<1>4. NotesLabelled'
  BY <1>1, WalkIs DEF NotesLabelled
<1>5. IdsOnce' /\ IdsKept'
  BY <1>1, WalkIs, InlineIds
<1>6. ASSUME markup'.raw = {} PROVE DepthInv'
  BY <1>1, <1>6, WalkIs, InlineDepth DEF WrittenIn
<1> QED BY <1>1, <1>2, <1>3, <1>4, <1>5, <1>6, WalksOn

LEMMA EnterWalks ==
  ASSUME HtmlInv, NEW kind, NEW t, EnterOf(kind, t)
  PROVE  HtmlInv'
<1>1. ~htmlEnded /\ ~htmlEnded' /\ WrittenIn(markup', t, {})
  BY DEF EnterOf
<1>2. HtmlTyped'
  BY <1>1, WalkIs, EnterTyped
<1>3. LinesInv'
  BY <1>1, WalkIs, EnterLines
<1>4. NotesLabelled'
  BY <1>1, WalkIs, EnterLabels
<1>5. IdsOnce' /\ IdsKept'
  BY <1>1, WalkIs, EnterIds
<1>6. ASSUME markup'.raw = {} PROVE DepthInv'
  BY <1>1, <1>6, WalkIs, EnterDepth DEF WrittenIn
<1> QED BY <1>1, <1>2, <1>3, <1>4, <1>5, <1>6, WalksOn

LEMMA ApartWalks ==
  ASSUME HtmlInv, NEW kind, NEW label, ApartOf(kind, label)
  PROVE  HtmlInv'
<1>1. ~htmlEnded /\ ~htmlEnded' /\ markup'.raw = markup.raw
  BY DEF ApartOf
<1>2. HtmlTyped'
  BY <1>1, WalkIs, ApartTyped
<1>3. LinesInv'
  BY <1>1, WalkIs, ApartLines
<1>4. NotesLabelled'
  BY <1>1, WalkIs, ApartLabels
<1>5. IdsOnce' /\ IdsKept'
  BY <1>1, WalkIs, ApartIds
<1>6. ASSUME markup'.raw = {} PROVE DepthInv'
  BY <1>1, <1>6, WalkIs, ApartDepth
<1> QED BY <1>1, <1>2, <1>3, <1>4, <1>5, <1>6, WalksOn

LEMMA CloseWalks ==
  ASSUME HtmlInv, NEW kind, CloseOf(kind)
  PROVE  HtmlInv'
<1>1. /\ ~htmlEnded /\ ~htmlEnded' /\ WrittenIn(markup', EndTag(kind), {})
      /\ footnotes' = footnotes
  BY DEF CloseOf, BackFrom
<1>2. HtmlTyped' /\ Shallower
  BY <1>1, WalkIs, CloseTyped
<1>3. LinesInv'
  BY <1>1, WalkIs, CloseLines
<1>4. NotesLabelled'
  BY <1>1, <1>2, WalkIs, BackLabels
<1>5. IdsOnce' /\ IdsKept'
  BY <1>1, WalkIs, CloseIds
<1>6. ASSUME markup'.raw = {} PROVE DepthInv'
  BY <1>1, <1>6, WalkIs, CloseDepth DEF WrittenIn
<1> QED BY <1>1, <1>2, <1>3, <1>4, <1>5, <1>6, WalksOn

LEMMA HeadingWalks ==
  ASSUME HtmlInv, NEW t, HeadingOf(t)
  PROVE  HtmlInv'
<1>1. ~htmlEnded /\ ~htmlEnded' /\ markup'.raw = markup.raw /\ footnotes' = footnotes
  BY DEF HeadingOf, BackFrom
<1>2. HtmlTyped' /\ Shallower
  BY <1>1, WalkIs, HeadingTyped
<1>3. LinesInv'
  BY <1>1, WalkIs, HeadingLines
<1>4. NotesLabelled'
  BY <1>1, <1>2, WalkIs, BackLabels
<1>5. IdsOnce' /\ IdsKept'
  BY <1>1, WalkIs, HeadingIds
<1>6. ASSUME markup'.raw = {} PROVE DepthInv'
  BY <1>1, <1>6, WalkIs, HeadingDepth
<1> QED BY <1>1, <1>2, <1>3, <1>4, <1>5, <1>6, WalksOn

LEMMA NoteWalks ==
  ASSUME HtmlInv, NEW f, NEW n, NEW label, NoteOf(f, n, label)
  PROVE  HtmlInv'
<1>1. ~htmlEnded /\ ~htmlEnded' /\ markup'.raw = markup.raw
  BY DEF NoteOf, BackFrom
<1>2. HtmlTyped'
  BY <1>1, WalkIs, NoteTyped
<1>3. LinesInv'
  BY <1>1, WalkIs, NoteLines
<1>4. NotesLabelled'
  BY <1>1, WalkIs, NoteLabels
<1>5. IdsOnce' /\ IdsKept'
  BY <1>1, WalkIs, NoteIds
<1>6. ASSUME markup'.raw = {} PROVE DepthInv'
  BY <1>1, <1>6, WalkIs, NoteDepth
<1> QED BY <1>1, <1>2, <1>3, <1>4, <1>5, <1>6, WalksOn

LEMMA ReferenceWalks ==
  ASSUME HtmlInv, NEW f, NEW n, NEW label, NEW t, ReferenceOf(f, n, label, t)
  PROVE  HtmlInv'
<1>1. ~htmlEnded /\ ~htmlEnded' /\ WrittenIn(markup', t, {})
  BY DEF ReferenceOf
<1>2. HtmlTyped'
  BY <1>1, WalkIs, ReferenceTyped
<1>3. LinesInv'
  BY <1>1, WalkIs, ReferenceLines
<1>4. NotesLabelled'
  BY <1>1, WalkIs, ReferenceLabels
<1>5. IdsOnce' /\ IdsKept'
  BY <1>1, WalkIs, ReferenceIds
<1>6. ASSUME markup'.raw = {} PROVE DepthInv'
  BY <1>1, <1>6, WalkIs, ReferenceDepth DEF WrittenIn
<1> QED BY <1>1, <1>2, <1>3, <1>4, <1>5, <1>6, WalksOn

LEMMA EndWalks ==
  ASSUME HtmlInv, HtmlEnd
  PROVE  HtmlInv'
<1>1. ~htmlEnded /\ htmlEnded'
  BY DEF HtmlEnd
<1>2. EndOf(FootnoteSection)
  BY <1>1, WalkIs, EndIs
<1>3. HtmlTyped'
  BY <1>1, <1>2, WalkIs, EndTyped
<1>4. LinesAscend' /\ NotesMeet'
  BY <1>1, <1>2, WalkIs, EndLines, EndNotes
<1>5. OneElementEach'
  BY <1>1, <1>2, WalkIs, EndElements
<1> QED BY <1>1, <1>3, <1>4, <1>5 DEF HtmlInv, PageHangsTogether

LEMMA HtmlInvStays ==
  HtmlInv /\ [HtmlNext]_htmlVars => HtmlInv'
<1> SUFFICES ASSUME HtmlInv, [HtmlNext]_htmlVars PROVE HtmlInv'
  OBVIOUS
<1>1. HtmlTyped
  BY DEF HtmlInv
<1>2. ASSUME \/ HtmlRule \/ HtmlMath \/ HtmlCode \/ HtmlRaw
             \/ \E b \in BOOLEAN : HtmlMetadata(b) \/ HtmlTable(b)
      PROVE  HtmlInv'
  BY <1>1, <1>2, LeavesAre, LeafWalks
<1>3. ASSUME \/ StartParagraph \/ StartList \/ StartDefinitions \/ StartTerm \/ StartDefinition
             \/ \E b \in BOOLEAN : StartQuote(b) \/ StartItem(b)
      PROVE  HtmlInv'
  BY <1>1, <1>3, EntersAre, EnterWalks
<1>4. ASSUME NEW kind \in {"p", "blockquote", "list", "li", "dl", "dt", "dd"}, EndElement(kind)
      PROVE  HtmlInv'
  BY <1>1, <1>4, ClosesAre, CloseWalks
<1>5. ASSUME StartHeading \/ \E label \in Labels : StartNote(label)
      PROVE  HtmlInv'
  BY <1>1, <1>5, ApartsAre, ApartWalks
<1>6. CASE EndHeading
  BY <1>1, <1>6, HeadingIs, HeadingWalks
<1>7. CASE EndNote
  BY <1>7, WalkIs, <1>1, NoteIs, NoteWalks DEF EndNote, LeaveElement
<1>8. ASSUME NEW label \in Labels, FootnoteReference(label) PROVE HtmlInv'
  BY <1>8, WalkIs, <1>1, ReferenceIs, ReferenceWalks DEF FootnoteReference, SpendsEvent
<1>9. ASSUME InlineWords \/ InlineEmphasis \/ InlineLink \/ InlineImage \/ InlineHtml
      PROVE  HtmlInv'
  BY <1>1, <1>9, InlinesAre, InlineWalks
<1>10. CASE HtmlEnd
  BY <1>10, EndWalks
<1>11. CASE UNCHANGED htmlVars
  <2>1. UNCHANGED <<markup, within, footnotes, pieces, line, htmlEnded>>
    BY <1>11 DEF htmlVars
  <2>2. HtmlTyped'
    BY <1>1, <2>1 DEF HtmlTyped
  <2>3. HtmlWalking' = HtmlWalking
    <3>1. LinesInv' = LinesInv
      BY <2>1 DEF LinesInv, Within
    <3>2. NotesLabelled' = NotesLabelled
      BY <2>1 DEF NotesLabelled
    <3>3. IdsOnce' = IdsOnce
      BY <2>1 DEF IdsOnce
    <3>4. IdsKept' = IdsKept
      BY <2>1 DEF IdsKept, AllIds, TosKept
    <3>5. DepthInv' = DepthInv
      BY <2>1 DEF DepthInv
    <3> QED BY <2>1, <3>1, <3>2, <3>3, <3>4, <3>5 DEF HtmlWalking
  <2>4. PageHangsTogether' = PageHangsTogether
    BY <2>1 DEF PageHangsTogether, LinesAscend, NotesMeet
  <2>5. OneElementEach' = OneElementEach
    BY <2>1 DEF OneElementEach, BlocksAreTheElements, Splittable, StartsWithTag
  <2> QED BY <2>1, <2>2, <2>3, <2>4, <2>5 DEF HtmlInv
<1> QED
  BY <1>2, <1>3, <1>4, <1>5, <1>6, <1>7, <1>8, <1>9, <1>10, <1>11 DEF HtmlNext

\* Whatever the document, what the walk has written, what it holds for later and what it
\* has gathered of the notes fit together at every step of it (render_block(), capture()).
THEOREM HtmlHolds ==
  HtmlSpec => []HtmlInv
<1> QED BY HtmlInvStarts, HtmlInvStays, PTL DEF HtmlSpec

\* The source lines of a page ascend, and its references and notes lead to one another with
\* no id twice, in whatever order and inside whatever they come (render(), note_number(),
\* footnote_section(), strip_source_lines()).
THEOREM PageAlwaysHangsTogether ==
  HtmlSpec => []PageHangsTogether
<1>1. HtmlInv => PageHangsTogether
  BY DEF HtmlInv
<1> QED BY <1>1, HtmlHolds, PTL

\* The blocks that an edit of a document is pushed by are the elements of its page, each one
\* whole and nothing between them, unless the page may not be pushed so, or a piece of HTML
\* in a line does not close what it opens or closes what it does not open, which nothing in
\* the walk looks at (render(), Page::splittable).
THEOREM BlocksAreElements ==
  HtmlSpec => []OneElementEach
<1>1. HtmlInv => OneElementEach
  BY DEF HtmlInv
<1> QED BY <1>1, HtmlHolds, PTL

-----------------------------------------------------------------------------
(* What the folds of the library compute.                                  *)

\* sums[i] is what the first i of n weights come to.
RunningSums(sums, n, weights) ==
  /\ sums \in [0..n -> Nat] /\ sums[0] = 0
  /\ weights \in [1..n -> Nat]
  /\ \A i \in 1..n : sums[i] = sums[i - 1] + weights[i]

\* RunningSums are there for any weights.
LEMMA SumsExist ==
  ASSUME NEW n \in Nat, NEW weights \in [1..n -> Nat]
  PROVE  \E sums : RunningSums(sums, n, weights)
<1> DEFINE step == [x \in Nat \X (1..n) |-> x[1] + weights[x[2]]]
<1>1. step \in [Nat \X (1..n) -> Nat]
  OBVIOUS
<1>2. PICK f : Solves(f, Nat, 0, n, step)
  BY <1>1, RecursionExists
<1>3. f \in [0..n -> Nat] /\ f[0] = 0 /\ \A i \in 1..n : f[i] = step[<<f[i - 1], i>>]
  BY <1>2 DEF Solves
<1>4. ASSUME NEW i \in 1..n PROVE f[i] = f[i - 1] + weights[i]
  <2> HIDE DEF step
  <2>1. i - 1 \in 0..n
    OBVIOUS
  <2>2. f[i - 1] \in Nat /\ f[i] = step[<<f[i - 1], i>>]
    BY <1>3, <2>1
  <2>3. <<f[i - 1], i>> \in Nat \X (1..n)
    BY <2>2
  <2> QED BY <2>2, <2>3 DEF step
<1> QED BY <1>3, <1>4 DEF RunningSums

\* Two stretches of the same weights come to the same.
LEMMA SumsAgree ==
  ASSUME NEW c, NEW m \in Nat, NEW v, RunningSums(c, m, v), NEW d, NEW n \in Nat, NEW w, RunningSums(d, n, w),
         NEW k \in Nat, NEW l \in Nat, NEW t \in Nat, k + t <= m, l + t <= n,
         \A i \in 1..t : v[k + i] = w[l + i]
  PROVE  c[k + t] - c[k] = d[l + t] - d[l]
<1>1. /\ \A i \in 0..m : c[i] \in Nat
      /\ \A i \in 1..m : c[i] = c[i - 1] + v[i] /\ v[i] \in Nat
      /\ \A i \in 0..n : d[i] \in Nat
      /\ \A i \in 1..n : d[i] = d[i - 1] + w[i] /\ w[i] \in Nat
  BY DEF RunningSums
<1> DEFINE Bad == {i \in 0..t : c[k + i] - c[k] # d[l + i] - d[l]}
<1>2. ASSUME Bad # {} PROVE FALSE
  <2>1. PICK i \in Bad : \A j \in Bad : i <= j
    <3>1. Bad \in SUBSET Nat
      OBVIOUS
    <3> HIDE DEF Bad
    <3> QED BY <1>2, <3>1, NatLeast
  <2>2. i \in 0..t /\ c[k + i] - c[k] # d[l + i] - d[l]
    BY <2>1
  <2>3. k \in 0..m /\ l \in 0..n /\ k + 0 = k /\ l + 0 = l
    OBVIOUS
  <2>4. i # 0
    BY <1>1, <2>3, <2>2
  <2>5. /\ i \in 1..t /\ i - 1 \in 0..t /\ ~(i <= i - 1)
        /\ k + i \in 1..m /\ l + i \in 1..n
        /\ k + (i - 1) = (k + i) - 1 /\ l + (i - 1) = (l + i) - 1
        /\ (k + i) - 1 \in 0..m /\ (l + i) - 1 \in 0..n
    BY <2>2, <2>4
  <2>6. c[(k + i) - 1] - c[k] = d[(l + i) - 1] - d[l]
    BY <2>1, <2>5
  <2>7. /\ c[k + i] = c[(k + i) - 1] + v[k + i] /\ d[l + i] = d[(l + i) - 1] + w[l + i]
        /\ v[k + i] = w[l + i] /\ v[k + i] \in Nat
        /\ c[(k + i) - 1] \in Nat /\ d[(l + i) - 1] \in Nat /\ c[k] \in Nat /\ d[l] \in Nat
    BY <1>1, <2>3, <2>5
  <2> QED BY <2>2, <2>6, <2>7
<1>3. t \in 0..t
  OBVIOUS
<1> QED BY <1>2, <1>3

\* Without the first k, they come to that much less.
Without(w, v, k, l) == \A i \in 1..l : v[k + i] = w[i]


\* Along any stretch of other weights they come to what those do.
LEMMA SumsAlong ==
  ASSUME NEW c, NEW n \in Nat, NEW v, RunningSums(c, n, v), NEW d, NEW l \in Nat, NEW w, RunningSums(d, l, w),
         NEW k \in Nat, NEW t \in 0..l, k + t <= n, Without(w, v, k, t)
  PROVE  c[k + t] = c[k] + d[t] /\ c[k] \in Nat /\ d[t] \in Nat
<1>1. k \in 0..n /\ k + t \in 0..n /\ t \in Nat /\ 0 + t = t /\ 0 + t <= l /\ 0 \in Nat
  OBVIOUS
<1>2. c[k + t] \in Nat /\ c[k] \in Nat /\ d[t] \in Nat /\ d[0] = 0
  BY <1>1 DEF RunningSums
<1>3. \A i \in 1..t : v[k + i] = w[0 + i]
  BY DEF Without
<1>4. c[k + t] - c[k] = d[0 + t] - d[0]
  BY <1>1, <1>3, SumsAgree
<1> QED BY <1>1, <1>2, <1>4

-----------------------------------------------------------------------------
(* How wide a text is.                                                     *)

LEMMA GlyphsAreWide == \A ch : GlyphColumns(ch) \in {1, 2}
BY DEF GlyphColumns

\* How wide each character of a text is.
EachWide(s) == [i \in 1..Len(s) |-> GlyphColumns(s[i])]

LEMMA ColumnsWalk ==
  ASSUME NEW X, NEW s \in Seq(X)
  PROVE  \E w : RunningSums(w, Len(s), EachWide(s)) /\ ColumnsOf(s) = w[Len(s)]
<1> DEFINE n == Len(s)
<1>0. n \in Nat /\ DOMAIN s = 1..n
  BY LenProperties
<1> HIDE DEF n
<1> DEFINE Rec(g) == g = [t \in SUBSET (DOMAIN s) |->
                            IF t = {} THEN 0 ELSE g[t \ {Max(t)}] + GlyphColumns(s[Max(t)])]
           it == CHOOSE g : Rec(g)
           step == [x \in Nat \X (1..n) |-> x[1] + GlyphColumns(s[x[2]])]
<1>1. ColumnsOf(s) = it[DOMAIN s]
  BY DEF ColumnsOf, FoldLeft, MapThenFoldSet
<1>2. step \in [Nat \X (1..n) -> Nat]
  BY GlyphsAreWide
<1>3. \A v \in Nat, k \in 1..n : step[<<v, k>>] = v + GlyphColumns(s[k])
  BY <1>0
<1> HIDE DEF step
<1>4. PICK f : FoldsOn(f, Nat, 0, n, step)
  BY <1>0, <1>2, FoldExists
<1>5. Rec(f)
  BY <1>4, <1>0, TopIsIn, <1>3 DEF FoldsOn
<1>6. Rec(it)
  BY <1>5
<1> HIDE DEF it
<1>7. ASSUME NEW t \in SUBSET (1..n), t # {}, it[t \ {Max(t)}] \in Nat
      PROVE  it[t] = step[<<it[t \ {Max(t)}], Max(t)>>]
  BY <1>0, <1>7, TopIsIn, <1>3, <1>6
<1>8. FoldsAs(it, Nat, 0, n, step)
  BY <1>0, <1>6, <1>7 DEF FoldsAs
<1>9. WalksTo(it[1..n], Nat, 0, n, step)
  BY <1>0, <1>2, <1>8, FoldWalks
<1> PICK w : Solves(w, Nat, 0, n, step) /\ it[1..n] = w[n]
  BY <1>9 DEF WalksTo
<1>10. w \in [0..n -> Nat] /\ w[0] = 0 /\ \A k \in 1..n : w[k] = step[<<w[k - 1], k>>]
  BY DEF Solves
<1>11. \A k \in 1..n : w[k - 1] \in Nat
  BY <1>0, <1>10
<1>12. ColumnsOf(s) = w[n] /\ \A k \in 1..n : w[k] = w[k - 1] + GlyphColumns(s[k])
  BY <1>0, <1>1, <1>3, <1>10, <1>11
<1>13. EachWide(s) \in [1..n -> Nat] /\ \A k \in 1..n : EachWide(s)[k] = GlyphColumns(s[k])
  BY GlyphsAreWide DEF EachWide, n
<1> QED BY <1>10, <1>12, <1>13 DEF RunningSums, n

\* Up to any place a text is as wide as what comes before that place.
LEMMA ColumnsUpTo ==
  ASSUME NEW X, NEW s \in Seq(X), NEW w, RunningSums(w, Len(s), EachWide(s)), NEW k \in 0..Len(s)
  PROVE  ColumnsOf(SubSeq(s, 1, k)) = w[k] /\ w[k] \in Nat /\ w[k] <= w[Len(s)]
<1> DEFINE p == SubSeq(s, 1, k)
           n == Len(s)
<1>1. n \in Nat /\ k \in Nat /\ k <= n
  BY LenProperties
<1>2. p \in Seq(X) /\ Len(p) = k /\ \A i \in 1..k : p[i] = s[i]
  BY <1>1, ElementOfSeq, SubSeqProperties
<1> HIDE DEF p
<1>3. PICK v : RunningSums(v, k, EachWide(p)) /\ ColumnsOf(p) = v[k]
  BY <1>2, ColumnsWalk
<1>4. Without(EachWide(p), EachWide(s), 0, k)
  BY <1>1, <1>2 DEF EachWide, Without, n
<1>5. /\ 0 \in Nat /\ 0 + k <= n /\ 0 + k = k /\ k \in 0..k /\ k \in 0..n /\ n \in 0..n
      /\ w[0] = 0 /\ RunningSums(w, n, EachWide(s))
  BY <1>1 DEF RunningSums
<1>6. v[k] \in Nat /\ w[k] \in Nat /\ w[n] \in Nat
  BY <1>3, <1>5 DEF RunningSums
<1>7. w[0 + k] = w[0] + v[k]
  BY <1>1, <1>3, <1>4, <1>5, SumsAlong
<1>8. v[k] = w[k]
  BY <1>5, <1>6, <1>7
<1>9. w[k] <= w[n]
  <2> DEFINE S == {i \in 0..(n - k) : w[k] <= w[k + i]}
  <2>1. 0 \in S
    BY <1>1, <1>6
  <2>2. ASSUME NEW i \in 1..(n - k), i - 1 \in S PROVE i \in S
    <3>1. k + i \in 1..n /\ k + i - 1 = k + (i - 1) /\ k + (i - 1) \in 0..n /\ i \in 0..(n - k) /\ k + i \in 0..n
      BY <1>1
    <3>2. w[k + i] = w[k + i - 1] + EachWide(s)[k + i] /\ EachWide(s)[k + i] \in Nat
          /\ w[k + (i - 1)] \in Nat /\ w[k + i] \in Nat
      BY <3>1 DEF RunningSums, n
    <3>3. w[k] <= w[k + (i - 1)]
      BY <2>2
    <3>4. w[k] <= w[k + i]
      BY <1>6, <3>1, <3>2, <3>3
    <3> QED BY <3>1, <3>4
  <2>3. n - k \in S
    <3> HIDE DEF S
    <3>1. n - k \in Nat /\ n - k \in 0..(n - k)
      BY <1>1
    <3> QED BY <2>1, <2>2, <3>1, StepByStep
  <2>4. k + (n - k) = n
    BY <1>1
  <2> QED BY <2>3, <2>4
<1> QED BY <1>3, <1>6, <1>8, <1>9 DEF p, n

LEMMA ColumnsAreNat ==
  ASSUME NEW X, NEW s \in Seq(X)
  PROVE  /\ ColumnsOf(s) \in Nat
         /\ \A k \in 0..Len(s) : /\ ColumnsOf(SubSeq(s, 1, k)) \in Nat
                                  /\ ColumnsOf(SubSeq(s, 1, k)) <= ColumnsOf(s)
<1>1. PICK w : RunningSums(w, Len(s), EachWide(s)) /\ ColumnsOf(s) = w[Len(s)]
  BY ColumnsWalk
<1>2. Len(s) \in 0..Len(s)
  BY LenProperties
<1> QED BY <1>1, <1>2, ColumnsUpTo

LEMMA ColumnsOfJoined ==
  ASSUME NEW X, NEW s \in Seq(X), NEW t \in Seq(X)
  PROVE  /\ ColumnsOf(s \o t) = ColumnsOf(s) + ColumnsOf(t)
         /\ \A k \in 0..Len(s) : ColumnsOf(SubSeq(s \o t, 1, k)) = ColumnsOf(SubSeq(s, 1, k))
         /\ \A k \in 0..Len(t) : ColumnsOf(SubSeq(s \o t, 1, Len(s) + k))
                                    = ColumnsOf(s) + ColumnsOf(SubSeq(t, 1, k))
<1> DEFINE j == s \o t
           m == Len(s)
           l == Len(t)
<1>1. m \in Nat /\ l \in Nat
  BY LenProperties
<1>2. /\ j \in Seq(X) /\ Len(j) = m + l
      /\ \A i \in 1..(m + l) : j[i] = IF i <= m THEN s[i] ELSE t[i - m]
  BY ConcatProperties
<1> HIDE DEF j
<1>3. PICK u : RunningSums(u, m, EachWide(s)) /\ ColumnsOf(s) = u[m]
  BY ColumnsWalk
<1>4. PICK v : RunningSums(v, l, EachWide(t)) /\ ColumnsOf(t) = v[l]
  BY ColumnsWalk
<1>5. PICK w : RunningSums(w, m + l, EachWide(j)) /\ ColumnsOf(j) = w[m + l]
  BY <1>2, ColumnsWalk
<1>6. Without(EachWide(s), EachWide(j), 0, m) /\ Without(EachWide(t), EachWide(j), m, l)
  <2>1. ASSUME NEW i \in 1..m PROVE EachWide(j)[0 + i] = EachWide(s)[i]
    BY <1>1, <1>2 DEF EachWide
  <2>2. ASSUME NEW i \in 1..l PROVE EachWide(j)[m + i] = EachWide(t)[i]
    <3>1. m + i \in 1..(m + l) /\ ~ (m + i <= m) /\ m + i - m = i
      BY <1>1
    <3> QED BY <1>2, <3>1 DEF EachWide
  <2> QED BY <2>1, <2>2 DEF Without
<1>7. /\ \A i \in 0..m : u[i] \in Nat
      /\ \A i \in 0..l : v[i] \in Nat
      /\ \A i \in 0..(m + l) : w[i] \in Nat
      /\ u[0] = 0 /\ v[0] = 0 /\ w[0] = 0
  BY <1>3, <1>4, <1>5 DEF RunningSums
<1>8. ASSUME NEW k \in 0..m PROVE w[k] = u[k]
  <2>1. 0 \in Nat /\ 0 + k <= m + l /\ 0 + k = k /\ m + l \in Nat
    BY <1>1
  <2>2. Without(EachWide(s), EachWide(j), 0, k)
    <3>1. \A i \in 1..k : i \in 1..m
      BY <1>1
    <3> QED BY <1>6, <3>1 DEF Without
  <2> HIDE DEF m, l
  <2>3. w[0 + k] = w[0] + u[k]
    BY <1>1, <1>3, <1>5, <2>1, <2>2, SumsAlong
  <2> QED BY <1>7, <2>1, <2>3
<1>9. ASSUME NEW k \in 0..l PROVE w[m + k] = u[m] + v[k]
  <2>1. m + k <= m + l /\ m + l \in Nat /\ m \in 0..m
    BY <1>1
  <2>2. Without(EachWide(t), EachWide(j), m, k)
    BY <1>1, <1>6 DEF Without
  <2> HIDE DEF m, l
  <2>3. w[m + k] = w[m] + v[k]
    BY <1>1, <1>4, <1>5, <2>1, <2>2, SumsAlong
  <2> QED BY <1>8, <2>1, <2>3
<1>10. ASSUME NEW k \in 0..m PROVE ColumnsOf(SubSeq(j, 1, k)) = ColumnsOf(SubSeq(s, 1, k))
  <2>1. k \in 0..Len(j) /\ j \in Seq(X) /\ RunningSums(w, Len(j), EachWide(j))
    BY <1>1, <1>2, <1>5
  <2>2. ColumnsOf(SubSeq(j, 1, k)) = w[k]
    BY <2>1, ColumnsUpTo
  <2>3. ColumnsOf(SubSeq(s, 1, k)) = u[k]
    BY <1>3, ColumnsUpTo
  <2> QED BY <1>8, <2>2, <2>3
<1>11. ASSUME NEW k \in 0..l
       PROVE  ColumnsOf(SubSeq(j, 1, m + k)) = ColumnsOf(s) + ColumnsOf(SubSeq(t, 1, k))
  <2>1. m + k \in 0..Len(j) /\ j \in Seq(X) /\ RunningSums(w, Len(j), EachWide(j))
    BY <1>1, <1>2, <1>5
  <2>2. ColumnsOf(SubSeq(j, 1, m + k)) = w[m + k]
    BY <2>1, ColumnsUpTo
  <2>3. ColumnsOf(SubSeq(t, 1, k)) = v[k]
    BY <1>4, ColumnsUpTo
  <2> QED BY <1>3, <1>9, <2>2, <2>3
<1>12. ColumnsOf(j) = ColumnsOf(s) + ColumnsOf(t)
  BY <1>1, <1>3, <1>4, <1>5, <1>9
<1> QED BY <1>10, <1>11, <1>12 DEF j, m, l

\* A text of characters of one column is as wide as it is long.
LEMMA ColumnsOfNarrow ==
  ASSUME NEW X, NEW s \in Seq(X), NEW c, \A i \in 1..Len(s) : GlyphColumns(s[i]) = c, c \in Nat
  PROVE  /\ c = 1 => ColumnsOf(s) = Len(s)
         /\ Len(s) = 0 => ColumnsOf(s) = 0
         /\ Len(s) = 1 => ColumnsOf(s) = c
<1> DEFINE n == Len(s)
<1>1. PICK w : RunningSums(w, n, EachWide(s)) /\ ColumnsOf(s) = w[n]
  BY ColumnsWalk
<1>2. n \in Nat /\ w \in [0..n -> Nat] /\ w[0] = 0 /\ \A i \in 1..n : w[i] = w[i - 1] + c
  BY LenProperties, <1>1 DEF EachWide, RunningSums
<1> HIDE DEF n
<1>3. c = 1 => w[n] = n
  <2> SUFFICES ASSUME c = 1 PROVE w[n] = n
    OBVIOUS
  <2> DEFINE S == {k \in 0..n : w[k] = k}
  <2>1. 0 \in S
    BY <1>2
  <2>2. ASSUME NEW k \in 1..n, k - 1 \in S PROVE k \in S
    BY <1>2, <2>2
  <2>3. n \in S
    <3> HIDE DEF S
    <3>1. n \in 0..n
      BY <1>2
    <3> QED BY <1>2, <2>1, <2>2, <3>1, StepByStep
  <2> QED BY <2>3
<1>4. n = 1 => w[1] = c
  BY <1>2
<1> QED BY <1>1, <1>2, <1>3, <1>4 DEF n

-----------------------------------------------------------------------------
(* How wide some runs of text are together.                                *)

\* How wide each piece is.
EachPiece(ps) == [i \in 1..Len(ps) |-> ColumnsOf(ps[i].text)]


LEMMA PiecesWalk ==
  ASSUME NEW C, NEW ps \in Seq(RunsOf(C))
  PROVE  \E w : RunningSums(w, Len(ps), EachPiece(ps)) /\ PiecesWidth(ps) = w[Len(ps)]
<1> DEFINE s == ps
           n == Len(s)
           base == 0
           V == Nat
           Op(v, e) == v + ColumnsOf(e.text)
           Rec(g) == g = [t \in SUBSET (DOMAIN s) |->
                            IF t = {} THEN base ELSE Op(g[t \ {Max(t)}], s[Max(t)])]
           it == CHOOSE g : Rec(g)
           step == [x \in V \X (1..n) |-> Op(x[1], s[x[2]])]
<1>1. n \in Nat /\ DOMAIN s = 1..n
  BY LenProperties
<1>2. PiecesWidth(ps) = it[DOMAIN s]
  BY DEF PiecesWidth, FoldLeft, MapThenFoldSet
<1>3. base \in V
  OBVIOUS
<1> HIDE DEF s, n, base, V
<1>4. ASSUME NEW v \in V, NEW k \in 1..n PROVE Op(v, s[k]) \in V
  <2>1. s[k] \in RunsOf(C)
    BY <1>1, ElementOfSeq DEF s, n
  <2>2. ColumnsOf(s[k].text) \in Nat
    BY <2>1, ColumnsAreNat DEF RunsOf
  <2> QED BY <2>2 DEF V
<1> HIDE DEF Op
<1>5. step \in [V \X (1..n) -> V] /\ \A v \in V, k \in 1..n : step[<<v, k>>] = Op(v, s[k])
  BY <1>4
<1> HIDE DEF step
<1>6. PICK f : FoldsOn(f, V, base, n, step)
  BY <1>1, <1>3, <1>5, FoldExists
<1>7. Rec(f)
  BY <1>6, <1>1, TopIsIn, <1>5 DEF FoldsOn
<1>8. Rec(it)
  BY <1>7
<1> HIDE DEF it
<1>9. FoldsAs(it, V, base, n, step)
  BY <1>1, <1>8, TopIsIn, <1>5 DEF FoldsAs
<1>10. WalksTo(it[1..n], V, base, n, step)
  BY <1>1, <1>3, <1>5, <1>9, FoldWalks
<1>11. WalksTo(PiecesWidth(ps), V, base, n, step)
  BY <1>1, <1>2, <1>10
<1> PICK w : Solves(w, V, base, n, step) /\ PiecesWidth(ps) = w[n]
  BY <1>11 DEF WalksTo
<1>12. /\ w \in [0..n -> Nat] /\ w[0] = 0
       /\ \A k \in 1..n : w[k] = w[k - 1] + EachPiece(ps)[k] /\ EachPiece(ps)[k] \in Nat
  <2>1. w \in [0..n -> V] /\ w[0] = base /\ \A k \in 1..n : w[k] = step[<<w[k - 1], k>>]
    BY DEF Solves
  <2>2. ASSUME NEW k \in 1..n
        PROVE  w[k] = w[k - 1] + EachPiece(ps)[k] /\ EachPiece(ps)[k] \in Nat
    <3>1. k - 1 \in 0..n
      BY <1>1
    <3>2. w[k] = Op(w[k - 1], s[k])
      BY <1>5, <2>1, <3>1
    <3>3. s[k] \in RunsOf(C) /\ s[k] = ps[k]
      BY <1>1, ElementOfSeq DEF s, n
    <3>4. EachPiece(ps)[k] = ColumnsOf(s[k].text)
      BY <3>3 DEF EachPiece, n, s
    <3>5. ColumnsOf(s[k].text) \in Nat
      BY <3>3, ColumnsAreNat DEF RunsOf
    <3> QED BY <3>2, <3>4, <3>5 DEF Op
  <2> QED BY <2>1, <2>2 DEF V, base
<1>13. EachPiece(ps) \in [1..n -> Nat]
  BY <1>12 DEF EachPiece, n, s
<1>14. RunningSums(w, n, EachPiece(ps))
  BY <1>12, <1>13 DEF RunningSums
<1> QED BY <1>14 DEF n, s


\* Pieces that are joined are as wide as the one and the other.
LEMMA PiecesOfJoined ==
  ASSUME NEW C, NEW ps \in Seq(RunsOf(C)), NEW qs \in Seq(RunsOf(C))
  PROVE  /\ ps \o qs \in Seq(RunsOf(C))
         /\ PiecesWidth(ps \o qs) = PiecesWidth(ps) + PiecesWidth(qs)
         /\ PiecesWidth(ps) \in Nat /\ PiecesWidth(qs) \in Nat
<1> DEFINE j == ps \o qs
           m == Len(ps)
           l == Len(qs)
<1>1. m \in Nat /\ l \in Nat
  BY LenProperties
<1>2. /\ j \in Seq(RunsOf(C)) /\ Len(j) = m + l
      /\ \A i \in 1..(m + l) : j[i] = IF i <= m THEN ps[i] ELSE qs[i - m]
  BY ConcatProperties
<1> HIDE DEF j
<1>3. PICK u : RunningSums(u, m, EachPiece(ps)) /\ PiecesWidth(ps) = u[m]
  BY PiecesWalk
<1>4. PICK v : RunningSums(v, l, EachPiece(qs)) /\ PiecesWidth(qs) = v[l]
  BY PiecesWalk
<1>5. PICK w : RunningSums(w, m + l, EachPiece(j)) /\ PiecesWidth(j) = w[m + l]
  BY <1>2, PiecesWalk
<1>6. Without(EachPiece(ps), EachPiece(j), 0, m) /\ Without(EachPiece(qs), EachPiece(j), m, l)
  <2>1. ASSUME NEW i \in 1..m PROVE EachPiece(j)[0 + i] = EachPiece(ps)[i]
    BY <1>1, <1>2 DEF EachPiece
  <2>2. ASSUME NEW i \in 1..l PROVE EachPiece(j)[m + i] = EachPiece(qs)[i]
    BY <1>1, <1>2 DEF EachPiece
  <2> QED BY <2>1, <2>2 DEF Without
<1> HIDE DEF m, l
<1>7. 0 \in Nat /\ m \in 0..m /\ l \in 0..l /\ 0 + m <= m + l /\ 0 + m = m /\ m + l <= m + l /\ m + l \in Nat
  BY <1>1
<1>8. w[0 + m] = w[0] + u[m] /\ u[m] \in Nat /\ w[0] = 0
  <2>1. w[0 + m] = w[0] + u[m] /\ u[m] \in Nat
    BY <1>1, <1>3, <1>5, <1>6, <1>7, SumsAlong
  <2>2. w[0] = 0
    BY <1>5 DEF RunningSums
  <2> QED BY <2>1, <2>2
<1>9. w[m + l] = w[m] + v[l] /\ v[l] \in Nat
  BY <1>1, <1>4, <1>5, <1>6, <1>7, SumsAlong
<1> QED BY <1>2, <1>3, <1>4, <1>5, <1>7, <1>8, <1>9 DEF j

\* One piece is as wide as its text, and none at all takes no room.
LEMMA PiecesOfOne ==
  ASSUME NEW C
  PROVE  /\ PiecesWidth(<< >>) = 0
         /\ \A p \in RunsOf(C) : /\ << p >> \in Seq(RunsOf(C)) /\ ColumnsOf(p.text) \in Nat
                                  /\ PiecesWidth(<< p >>) = ColumnsOf(p.text)
<1>1. << >> \in Seq(RunsOf(C)) /\ Len(<< >>) = 0
  BY EmptySeq
<1>2. PiecesWidth(<< >>) = 0
  BY <1>1, PiecesWalk DEF RunningSums
<1>3. ASSUME NEW p \in RunsOf(C)
      PROVE  << p >> \in Seq(RunsOf(C)) /\ ColumnsOf(p.text) \in Nat
             /\ PiecesWidth(<< p >>) = ColumnsOf(p.text)
  <2>1. << p >> \in Seq(RunsOf(C)) /\ Len(<< p >>) = 1 /\ << p >>[1] = p
    OBVIOUS
  <2>2. PICK w : RunningSums(w, 1, EachPiece(<< p >>)) /\ PiecesWidth(<< p >>) = w[1]
    BY <2>1, PiecesWalk
  <2>3. ColumnsOf(p.text) \in Nat
    BY ColumnsAreNat DEF RunsOf
  <2>4. EachPiece(<< p >>)[1] = ColumnsOf(p.text) /\ 1 - 1 = 0 /\ 1 \in 1..1
    BY <2>1 DEF EachPiece
  <2>5. w[1] = w[0] + EachPiece(<< p >>)[1] /\ w[0] = 0
    BY <2>2, <2>4 DEF RunningSums
  <2> QED BY <2>1, <2>2, <2>3, <2>4, <2>5
<1> QED BY <1>2, <1>3

-----------------------------------------------------------------------------
(* The words and spaces of a paragraph (LineWrap).                         *)

\* A place where a line may be broken, and a word, which has something in it.
TokensOf(C) == [is : {" ", "break"}, word : {<< >>}]
               \union [is : {"word"}, word : Seq(RunsOf(C)) \ {<< >>}]

\* What tokenize() is at.
Tokenizing(C) == [tokens : Seq(TokensOf(C)), word : Seq(RunsOf(C)), buffer : Seq(C)]

LEMMA BankStays ==
  ASSUME NEW C, NEW w \in Tokenizing(C), NEW run \in RunsOf(C)
  PROVE  Bank(w, run) \in Tokenizing(C)
<1>1. CASE w.buffer = << >>
  BY <1>1 DEF Bank
<1>2. CASE w.buffer # << >>
  <2> DEFINE piece == [run EXCEPT !.text = w.buffer]
  <2>1. piece \in RunsOf(C)
    BY DEF Tokenizing, RunsOf
  <2> HIDE DEF piece
  <2>2. w.word \in Seq(RunsOf(C)) /\ w \in Tokenizing(C)
    BY DEF Tokenizing
  <2>3. Append(w.word, piece) \in Seq(RunsOf(C))
    BY <2>1, <2>2, AppendProperties
  <2>4. Bank(w, run) = [w EXCEPT !.word = Append(@, piece), !.buffer = << >>]
    BY <1>2 DEF Bank, piece
  <2>5. << >> \in Seq(C)
    OBVIOUS
  <2> QED BY <2>3, <2>4, <2>5 DEF Tokenizing
<1> QED BY <1>1, <1>2

LEMMA EndWordStays ==
  ASSUME NEW C, NEW w \in Tokenizing(C)
  PROVE  EndWord(w) \in Tokenizing(C)
<1>1. CASE w.word = << >>
  BY <1>1 DEF EndWord
<1>2. CASE w.word # << >>
  <2> DEFINE token == [is |-> "word", word |-> w.word]
  <2>1. token \in TokensOf(C)
    BY <1>2 DEF Tokenizing, TokensOf
  <2> HIDE DEF token
  <2>2. w.tokens \in Seq(TokensOf(C))
    BY DEF Tokenizing
  <2>3. Append(w.tokens, token) \in Seq(TokensOf(C))
    BY <2>1, <2>2, AppendProperties
  <2>4. EndWord(w) = [w EXCEPT !.tokens = Append(@, token), !.word = << >>]
    BY <1>2 DEF EndWord, token
  <2>5. << >> \in Seq(RunsOf(C))
    OBVIOUS
  <2> QED BY <2>3, <2>4, <2>5 DEF Tokenizing
<1> QED BY <1>1, <1>2

LEMMA TokenizedStays ==
  ASSUME NEW C, NEW w \in Tokenizing(C), NEW run \in RunsOf(C), NEW ch \in C
  PROVE  Tokenized(w, run, ch) \in Tokenizing(C)
<1> DEFINE read == [w EXCEPT !.buffer = Append(@, ch)]
<1>1. read \in Tokenizing(C)
  BY AppendProperties DEF Tokenizing
<1>2. EndWord(Bank(read, run)) \in Tokenizing(C) /\ EndWord(Bank(w, run)) \in Tokenizing(C)
  BY <1>1, BankStays, EndWordStays
<1>3. ASSUME NEW v \in Tokenizing(C), IsSpace(ch) PROVE AddToken(v, ch) \in Tokenizing(C)
  BY <1>3, AppendProperties DEF TokensOf, IsSpace, Tokenizing, AddToken
<1>4. Tokenized(w, run, ch) \in {AddToken(EndWord(Bank(w, run)), ch), EndWord(Bank(read, run)), read}
      /\ (~ IsSpace(ch) => Tokenized(w, run, ch) \in {EndWord(Bank(read, run)), read})
  BY DEF Tokenized
<1> HIDE DEF read
<1>5. CASE IsSpace(ch)
  BY <1>1, <1>2, <1>3, <1>4, <1>5
<1> QED BY <1>1, <1>2, <1>4, <1>5


LEMMA TokenizedRunStays ==
  ASSUME NEW C, NEW w \in Tokenizing(C), NEW run \in RunsOf(C)
  PROVE  TokenizeRun(w, run) \in Tokenizing(C)
<1> DEFINE s == run.text
           n == Len(s)
           base == w
           V == Tokenizing(C)
           Op(v, e) == Tokenized(v, run, e)
           Rec(g) == g = [t \in SUBSET (DOMAIN s) |->
                            IF t = {} THEN base ELSE Op(g[t \ {Max(t)}], s[Max(t)])]
           it == CHOOSE g : Rec(g)
           whole == FoldLeft(LAMBDA v, ch : Tokenized(v, run, ch), w, run.text)
           step == [x \in V \X (1..n) |-> Op(x[1], s[x[2]])]
<1>1. n \in Nat /\ DOMAIN s = 1..n
  BY LenProperties DEF RunsOf
<1>2. whole = it[DOMAIN s]
  BY DEF FoldLeft, MapThenFoldSet
<1>3. base \in V
  BY DEF base, V
<1>0. TokenizeRun(w, run) = Bank(whole, run)
  BY DEF TokenizeRun
<1> HIDE DEF s, n, base, V, whole
<1>4. ASSUME NEW v \in V, NEW k \in 1..n PROVE Op(v, s[k]) \in V
  BY <1>1, ElementOfSeq, TokenizedStays DEF RunsOf, s, n, V
<1> HIDE DEF Op
<1>5. step \in [V \X (1..n) -> V] /\ \A v \in V, k \in 1..n : step[<<v, k>>] = Op(v, s[k])
  BY <1>4
<1> HIDE DEF step
<1>6. PICK f : FoldsOn(f, V, base, n, step)
  BY <1>1, <1>3, <1>5, FoldExists
<1>7. Rec(f)
  BY <1>6, <1>1, TopIsIn, <1>5 DEF FoldsOn
<1>8. Rec(it)
  BY <1>7
<1> HIDE DEF it
<1>9. FoldsAs(it, V, base, n, step)
  BY <1>1, <1>8, TopIsIn, <1>5 DEF FoldsAs
<1>10. WalksTo(it[1..n], V, base, n, step)
  BY <1>1, <1>3, <1>5, <1>9, FoldWalks
<1>11. WalksTo(whole, V, base, n, step)
  BY <1>1, <1>2, <1>10
<1>12. whole \in Tokenizing(C)
  BY <1>1, <1>11, WalkStays DEF V
<1> QED BY <1>0, <1>12, BankStays

\* tokenize() makes words and spaces of the runs.
LEMMA TokensStay ==
  ASSUME NEW C, NEW runs \in Seq(RunsOf(C))
  PROVE  Tokens(runs) \in Seq(TokensOf(C))
<1> DEFINE s == runs
           n == Len(s)
           base == [tokens |-> << >>, word |-> << >>, buffer |-> << >>]
           V == Tokenizing(C)
           Op(v, e) == TokenizeRun(v, e)
           Rec(g) == g = [t \in SUBSET (DOMAIN s) |->
                            IF t = {} THEN base ELSE Op(g[t \ {Max(t)}], s[Max(t)])]
           it == CHOOSE g : Rec(g)
           whole == FoldLeft(TokenizeRun, [tokens |-> << >>, word |-> << >>, buffer |-> << >>], runs)
           step == [x \in V \X (1..n) |-> Op(x[1], s[x[2]])]
<1>1. n \in Nat /\ DOMAIN s = 1..n
  BY LenProperties
<1>2. whole = it[DOMAIN s]
  BY DEF FoldLeft, MapThenFoldSet
<1>3. base \in V
  BY DEF Tokenizing
<1>0. Tokens(runs) = EndWord(whole).tokens
  BY DEF Tokens
<1> HIDE DEF s, n, base, V, whole
<1>4. ASSUME NEW v \in V, NEW k \in 1..n PROVE Op(v, s[k]) \in V
  BY <1>1, ElementOfSeq, TokenizedRunStays DEF s, n, V
<1> HIDE DEF Op
<1>5. step \in [V \X (1..n) -> V] /\ \A v \in V, k \in 1..n : step[<<v, k>>] = Op(v, s[k])
  BY <1>4
<1> HIDE DEF step
<1>6. PICK f : FoldsOn(f, V, base, n, step)
  BY <1>1, <1>3, <1>5, FoldExists
<1>7. Rec(f)
  BY <1>6, <1>1, TopIsIn, <1>5 DEF FoldsOn
<1>8. Rec(it)
  BY <1>7
<1> HIDE DEF it
<1>9. FoldsAs(it, V, base, n, step)
  BY <1>1, <1>8, TopIsIn, <1>5 DEF FoldsAs
<1>10. WalksTo(it[1..n], V, base, n, step)
  BY <1>1, <1>3, <1>5, <1>9, FoldWalks
<1>11. WalksTo(whole, V, base, n, step)
  BY <1>1, <1>2, <1>10
<1>12. whole \in Tokenizing(C)
  BY <1>1, <1>11, WalkStays DEF V
<1>13. EndWord(whole) \in Tokenizing(C)
  BY <1>12, EndWordStays
<1> QED BY <1>0, <1>13 DEF Tokenizing


-----------------------------------------------------------------------------
(* What a word is split into (LineWrap).                                   *)

OneSpace == " "

\* Characters that a column has room for, and the space is one of them.
Narrow(C, avail) == OneSpace \in C /\ avail \in Nat \ {0} /\ \A ch \in C : GlyphColumns(ch) <= avail

LEMMA NarrowIs ==
  ASSUME NEW C, NEW avail, Narrow(C, avail)
  PROVE  OneSpace \in C /\ avail \in Nat /\ avail # 0 /\ \A ch \in C : GlyphColumns(ch) <= avail
BY DEF Narrow

\* What split_word() is at: no chunk is wider than there is room.
Splitting(C, avail) ==
  {c \in [chunks : Seq(Seq(RunsOf(C))), chunk : Seq(RunsOf(C)), buffer : Seq(C), width : Nat,
          room : Nat] :
     /\ c.room = avail /\ c.width <= avail
     /\ c.width = PiecesWidth(c.chunk) + ColumnsOf(c.buffer)
     /\ \A i \in 1..Len(c.chunks) : PiecesWidth(c.chunks[i]) <= avail}

LEMMA ColumnsOfNone == ColumnsOf(<< >>) = 0
<1>1. << >> \in Seq({}) /\ Len(<< >>) = 0
  BY EmptySeq
<1>2. \A i \in 1..0 : GlyphColumns(<< >>[i]) = 0
  OBVIOUS
<1> QED BY <1>1, <1>2, ColumnsOfNarrow

LEMMA ColumnsOfOne ==
  ASSUME NEW C, NEW ch \in C
  PROVE  ColumnsOf(<< ch >>) = GlyphColumns(ch) /\ << ch >> \in Seq(C)
<1>1. << ch >> \in Seq(C) /\ Len(<< ch >>) = 1 /\ \A i \in 1..1 : << ch >>[i] = ch
  OBVIOUS
<1>2. GlyphColumns(ch) \in Nat
  BY GlyphsAreWide
<1>3. \A i \in 1..Len(<< ch >>) : GlyphColumns(<< ch >>[i]) = GlyphColumns(ch)
  BY <1>1
<1> QED BY <1>1, <1>2, <1>3, ColumnsOfNarrow

LEMMA ColumnsOfMore ==
  ASSUME NEW C, NEW s \in Seq(C), NEW ch \in C
  PROVE  /\ ColumnsOf(Append(s, ch)) = ColumnsOf(s) + GlyphColumns(ch) /\ ColumnsOf(s) \in Nat
         /\ Append(s, ch) \in Seq(C)
<1>1. Append(s, ch) = s \o << ch >> /\ Append(s, ch) \in Seq(C)
  BY AppendIsConcat, AppendProperties
<1>2. ColumnsOf(s \o << ch >>) = ColumnsOf(s) + ColumnsOf(<< ch >>)
  <2>1. << ch >> \in Seq(C)
    BY ColumnsOfOne
  <2> QED BY <2>1, ColumnsOfJoined
<1> QED BY <1>1, <1>2, ColumnsOfOne, ColumnsAreNat

\* What is in the buffer becomes a piece of the chunk.
LEMMA BankChunkStays ==
  ASSUME NEW C, NEW avail, NEW c \in Splitting(C, avail), NEW run \in RunsOf(C)
  PROVE  BankChunk(c, run) \in Splitting(C, avail)
<1>1. CASE c.buffer = << >>
  BY <1>1 DEF BankChunk
<1>2. CASE c.buffer # << >>
  <2> DEFINE piece == [run EXCEPT !.text = c.buffer]
  <2>1. c.chunk \in Seq(RunsOf(C)) /\ c.buffer \in Seq(C)
    BY DEF Splitting
  <2>2. piece \in RunsOf(C) /\ piece.text = c.buffer
    BY <2>1 DEF RunsOf
  <2> HIDE DEF piece
  <2>3. << piece >> \in Seq(RunsOf(C)) /\ PiecesWidth(<< piece >>) = ColumnsOf(c.buffer)
    BY <2>2, PiecesOfOne
  <2>4. Append(c.chunk, piece) = c.chunk \o << piece >>
    BY <2>1, <2>2, AppendIsConcat
  <2>5. /\ Append(c.chunk, piece) \in Seq(RunsOf(C))
        /\ PiecesWidth(Append(c.chunk, piece)) = PiecesWidth(c.chunk) + ColumnsOf(c.buffer)
    BY <2>1, <2>3, <2>4, PiecesOfJoined
  <2>6. BankChunk(c, run) = [c EXCEPT !.chunk = Append(@, piece), !.buffer = << >>]
    BY <1>2 DEF BankChunk, piece
  <2>7. << >> \in Seq(C) /\ ColumnsOf(<< >>) = 0 /\ ColumnsOf(c.buffer) \in Nat
        /\ PiecesWidth(c.chunk) \in Nat
    BY <2>1, <2>3, ColumnsOfNone, ColumnsAreNat, PiecesOfJoined
  <2>8. PiecesWidth(Append(c.chunk, piece)) + ColumnsOf(<< >>)
        = PiecesWidth(c.chunk) + ColumnsOf(c.buffer)
    BY <2>5, <2>7
  <2> QED BY <2>5, <2>6, <2>7, <2>8 DEF Splitting
<1> QED BY <1>1, <1>2

LEMMA SplitStays ==
  ASSUME NEW C, NEW avail, Narrow(C, avail), NEW c \in Splitting(C, avail), NEW run \in RunsOf(C),
         NEW ch \in C
  PROVE  Split(c, run, ch, avail) \in Splitting(C, avail)
<1> DEFINE full == BankChunk(c, run)
           wide == GlyphColumns(ch)
           turned == [full EXCEPT !.chunks = Append(@, full.chunk), !.chunk = << >>,
                                  !.room = Max({avail, 1}), !.width = 0]
           fresh == IF ChunkFull(c, wide) THEN turned ELSE c
<1>1. wide \in {1, 2} /\ wide <= avail /\ avail \in Nat \ {0}
  BY GlyphsAreWide, NarrowIs
<1>2. Max({avail, 1}) = avail
  <2>1. {avail, 1} \in SUBSET (0..avail) /\ avail \in {avail, 1} /\ {avail, 1} # {}
    BY <1>1
  <2>2. Max({avail, 1}) \in {avail, 1} /\ avail <= Max({avail, 1})
    BY <1>1, <2>1, GreatestOf
  <2> QED BY <1>1, <2>2
<1>3. full \in Splitting(C, avail) /\ full.buffer = << >>
  BY BankChunkStays DEF BankChunk, Splitting
<1> HIDE DEF full
<1>4. full.chunk \in Seq(RunsOf(C)) /\ full.chunks \in Seq(Seq(RunsOf(C)))
      /\ PiecesWidth(full.chunk) <= avail
  BY <1>3, ColumnsOfNone, PiecesOfJoined DEF Splitting
<1>5. /\ Append(full.chunks, full.chunk) \in Seq(Seq(RunsOf(C)))
      /\ \A i \in 1..Len(Append(full.chunks, full.chunk)) :
           PiecesWidth(Append(full.chunks, full.chunk)[i]) <= avail
  <2>1. Append(full.chunks, full.chunk) \in Seq(Seq(RunsOf(C)))
        /\ Longer(Append(full.chunks, full.chunk), full.chunks, full.chunk)
    BY <1>4, AppendIsLonger
  <2>2. \A i \in 1..Len(full.chunks) : PiecesWidth(full.chunks[i]) <= avail
    BY <1>3 DEF Splitting
  <2> QED BY <1>4, <2>1, <2>2 DEF Longer
<1>6. turned \in Splitting(C, avail) /\ turned.width = 0 /\ turned.buffer = << >>
  <2> DEFINE chunks == Append(full.chunks, full.chunk)
  <2>1. turned = [full EXCEPT !.chunks = chunks, !.chunk = << >>, !.room = avail, !.width = 0]
    BY <1>2, <1>3 DEF Splitting
  <2>2. << >> \in Seq(RunsOf(C)) /\ PiecesWidth(<< >>) = 0 /\ ColumnsOf(<< >>) = 0 /\ 0 + 0 = 0
        /\ 0 <= avail /\ avail \in Nat
    BY <1>1, ColumnsOfNone, PiecesOfOne
  <2> HIDE DEF chunks, turned
  <2> QED BY <1>3, <1>5, <2>1, <2>2 DEF Splitting, chunks
<1>7. /\ fresh \in Splitting(C, avail) /\ fresh.width + wide <= avail
  BY <1>1, <1>6 DEF Splitting, ChunkFull
<1>8. Split(c, run, ch, avail) = [fresh EXCEPT !.buffer = Append(@, ch), !.width = @ + wide]
  BY DEF Split, full
<1> HIDE DEF fresh
<1>9. fresh.buffer \in Seq(C) /\ fresh.width \in Nat /\ fresh.chunk \in Seq(RunsOf(C))
      /\ fresh.width = PiecesWidth(fresh.chunk) + ColumnsOf(fresh.buffer)
  BY <1>7 DEF Splitting
<1>10. /\ Append(fresh.buffer, ch) \in Seq(C)
       /\ ColumnsOf(Append(fresh.buffer, ch)) = ColumnsOf(fresh.buffer) + wide
       /\ ColumnsOf(fresh.buffer) \in Nat /\ PiecesWidth(fresh.chunk) \in Nat
  BY <1>9, ColumnsOfMore, PiecesOfJoined
<1>11. fresh.width + wide = PiecesWidth(fresh.chunk) + ColumnsOf(Append(fresh.buffer, ch))
       /\ fresh.width + wide \in Nat
  BY <1>1, <1>9, <1>10
<1> HIDE DEF wide
<1> QED BY <1>7, <1>8, <1>10, <1>11 DEF Splitting


LEMMA SplitRunStays ==
  ASSUME NEW C, NEW avail, Narrow(C, avail), NEW c \in Splitting(C, avail), NEW run \in RunsOf(C)
  PROVE  SplitRun(c, run, avail) \in Splitting(C, avail)
<1> DEFINE s == run.text
           n == Len(s)
           base == c
           V == Splitting(C, avail)
           Op(v, e) == Split(v, run, e, avail)
           Rec(g) == g = [t \in SUBSET (DOMAIN s) |->
                            IF t = {} THEN base ELSE Op(g[t \ {Max(t)}], s[Max(t)])]
           it == CHOOSE g : Rec(g)
           whole == FoldLeft(LAMBDA d, ch : Split(d, run, ch, avail), c, run.text)
           step == [x \in V \X (1..n) |-> Op(x[1], s[x[2]])]
<1>1. n \in Nat /\ DOMAIN s = 1..n
  BY LenProperties DEF RunsOf
<1>2. whole = it[DOMAIN s]
  BY DEF FoldLeft, MapThenFoldSet
<1>3. base \in V
  BY DEF base, V
<1>0. SplitRun(c, run, avail) = BankChunk(whole, run)
  BY DEF SplitRun
<1> HIDE DEF s, n, base, V, whole
<1>4. ASSUME NEW v \in V, NEW k \in 1..n PROVE Op(v, s[k]) \in V
  BY <1>1, ElementOfSeq, SplitStays DEF RunsOf, s, n, V
<1> HIDE DEF Op
<1>5. step \in [V \X (1..n) -> V] /\ \A v \in V, k \in 1..n : step[<<v, k>>] = Op(v, s[k])
  BY <1>4
<1> HIDE DEF step
<1>6. PICK f : FoldsOn(f, V, base, n, step)
  BY <1>1, <1>3, <1>5, FoldExists
<1>7. Rec(f)
  BY <1>6, <1>1, TopIsIn, <1>5 DEF FoldsOn
<1>8. Rec(it)
  BY <1>7
<1> HIDE DEF it
<1>9. FoldsAs(it, V, base, n, step)
  BY <1>1, <1>8, TopIsIn, <1>5 DEF FoldsAs
<1>10. WalksTo(it[1..n], V, base, n, step)
  BY <1>1, <1>3, <1>5, <1>9, FoldWalks
<1>11. WalksTo(whole, V, base, n, step)
  BY <1>1, <1>2, <1>10
<1>12. whole \in Splitting(C, avail)
  BY <1>1, <1>11, WalkStays DEF V
<1> QED BY <1>0, <1>12, BankChunkStays

\* No chunk of a word is wider than there is room, on a row of its own.
LEMMA ChunksFit ==
  ASSUME NEW C, NEW avail, Narrow(C, avail), NEW word \in Seq(RunsOf(C))
  PROVE  /\ Chunks(word, avail, 0) \in Seq(Seq(RunsOf(C)))
         /\ \A i \in 1..Len(Chunks(word, avail, 0)) : PiecesWidth(Chunks(word, avail, 0)[i]) <= avail
<1> DEFINE s == word
           n == Len(s)
           base == [chunks |-> << >>, chunk |-> << >>, buffer |-> << >>, width |-> 0,
                    room |-> Max({avail - 0, 1})]
           V == Splitting(C, avail)
           Op(v, e) == SplitRun(v, e, avail)
           Rec(g) == g = [t \in SUBSET (DOMAIN s) |->
                            IF t = {} THEN base ELSE Op(g[t \ {Max(t)}], s[Max(t)])]
           it == CHOOSE g : Rec(g)
           whole == FoldLeft(LAMBDA d, run : SplitRun(d, run, avail),
                             [chunks |-> << >>, chunk |-> << >>, buffer |-> << >>, width |-> 0,
                              room |-> Max({avail - 0, 1})], word)
           step == [x \in V \X (1..n) |-> Op(x[1], s[x[2]])]
<1>1. n \in Nat /\ DOMAIN s = 1..n
  BY LenProperties
<1>2. whole = it[DOMAIN s]
  BY DEF FoldLeft, MapThenFoldSet
<1>3. base \in V
  <2>1. avail \in Nat \ {0} /\ avail - 0 = avail
    BY NarrowIs
  <2>2. {avail, 1} \in SUBSET (0..avail) /\ avail \in {avail, 1} /\ {avail, 1} # {}
    BY <2>1
  <2>3. Max({avail, 1}) \in {avail, 1} /\ avail <= Max({avail, 1})
    BY <2>1, <2>2, GreatestOf
  <2>4. Max({avail, 1}) = avail
    BY <2>1, <2>3
  <2>5. base = [chunks |-> << >>, chunk |-> << >>, buffer |-> << >>, width |-> 0, room |-> avail]
    BY <2>1, <2>4
  <2>6. /\ << >> \in Seq(RunsOf(C)) /\ << >> \in Seq(C) /\ << >> \in Seq(Seq(RunsOf(C)))
        /\ PiecesWidth(<< >>) = 0 /\ ColumnsOf(<< >>) = 0 /\ 0 + 0 = 0 /\ 0 <= avail
        /\ Len(<< >>) = 0 /\ \A i \in 1..0 : FALSE
    BY PiecesOfOne, ColumnsOfNone, <2>1
  <2> HIDE DEF base
  <2> QED BY <2>1, <2>5, <2>6 DEF Splitting
<1>0. Chunks(word, avail, 0) = IF whole.chunk = << >> THEN whole.chunks
                               ELSE Append(whole.chunks, whole.chunk)
  BY DEF Chunks
<1> HIDE DEF s, n, base, V, whole
<1>4. ASSUME NEW v \in V, NEW k \in 1..n PROVE Op(v, s[k]) \in V
  BY <1>1, ElementOfSeq, SplitRunStays DEF s, n, V
<1> HIDE DEF Op
<1>5. step \in [V \X (1..n) -> V] /\ \A v \in V, k \in 1..n : step[<<v, k>>] = Op(v, s[k])
  BY <1>4
<1> HIDE DEF step
<1>6. PICK f : FoldsOn(f, V, base, n, step)
  BY <1>1, <1>3, <1>5, FoldExists
<1>7. Rec(f)
  BY <1>6, <1>1, TopIsIn, <1>5 DEF FoldsOn
<1>8. Rec(it)
  BY <1>7
<1> HIDE DEF it
<1>9. FoldsAs(it, V, base, n, step)
  BY <1>1, <1>8, TopIsIn, <1>5 DEF FoldsAs
<1>10. WalksTo(it[1..n], V, base, n, step)
  BY <1>1, <1>3, <1>5, <1>9, FoldWalks
<1>11. WalksTo(whole, V, base, n, step)
  BY <1>1, <1>2, <1>10
<1>12. whole \in Splitting(C, avail)
  BY <1>1, <1>11, WalkStays DEF V
<1>13. /\ whole.chunk \in Seq(RunsOf(C)) /\ whole.chunks \in Seq(Seq(RunsOf(C)))
       /\ PiecesWidth(whole.chunk) <= avail
       /\ \A i \in 1..Len(whole.chunks) : PiecesWidth(whole.chunks[i]) <= avail
  <2>1. /\ whole.chunk \in Seq(RunsOf(C)) /\ whole.chunks \in Seq(Seq(RunsOf(C)))
        /\ whole.width = PiecesWidth(whole.chunk) + ColumnsOf(whole.buffer) /\ whole.width <= avail
        /\ whole.buffer \in Seq(C) /\ avail \in Nat
        /\ \A i \in 1..Len(whole.chunks) : PiecesWidth(whole.chunks[i]) <= avail
    BY <1>12 DEF Splitting, Narrow
  <2>2. ColumnsOf(whole.buffer) \in Nat /\ PiecesWidth(whole.chunk) \in Nat
    BY <2>1, ColumnsAreNat, PiecesOfJoined
  <2> QED BY <2>1, <2>2
<1>14. /\ Append(whole.chunks, whole.chunk) \in Seq(Seq(RunsOf(C)))
       /\ Longer(Append(whole.chunks, whole.chunk), whole.chunks, whole.chunk)
  BY <1>13, AppendIsLonger
<1>15. \A i \in 1..Len(Append(whole.chunks, whole.chunk)) :
         PiecesWidth(Append(whole.chunks, whole.chunk)[i]) <= avail
  BY <1>13, <1>14 DEF Longer
<1> QED BY <1>0, <1>13, <1>14, <1>15


-----------------------------------------------------------------------------
(* The rows that are put together of words and chunks (LineWrap).          *)

\* What wrap() is at: no row is wider than there is room, and a space is only remembered
\* where there is something before it.
Filling(C, avail) ==
  {w \in [rows : Seq(Seq(RunsOf(C))), row : Seq(RunsOf(C)), width : Nat, space : BOOLEAN] :
     /\ w.width = PiecesWidth(w.row) /\ w.width <= avail
     /\ w.space => w.row # << >>
     /\ \A i \in 1..Len(w.rows) : PiecesWidth(w.rows[i]) <= avail}

\* No space is remembered.
Spaceless(C, avail) == {w \in Filling(C, avail) : ~ w.space}

LEMMA FillingIs ==
  ASSUME NEW C, NEW avail, NEW w \in Filling(C, avail)
  PROVE  /\ w.rows \in Seq(Seq(RunsOf(C))) /\ w.row \in Seq(RunsOf(C)) /\ w.width \in Nat
         /\ w.width = PiecesWidth(w.row) /\ w.width <= avail
         /\ w.space \in BOOLEAN /\ (w.space => w.row # << >>)
BY DEF Filling

\* What is put on a row that has room for it.
LEMMA PutStays ==
  ASSUME NEW C, NEW avail, NEW w \in Filling(C, avail), NEW ps \in Seq(RunsOf(C)),
         w.width + PiecesWidth(ps) <= avail
  PROVE  /\ Put(w, ps) \in Filling(C, avail) /\ Put(w, ps).space = w.space
         /\ Put(w, ps).width = w.width + PiecesWidth(ps)
         /\ ps # << >> => Put(w, ps).row # << >>
<1>1. w.row \in Seq(RunsOf(C)) /\ w.width \in Nat /\ w.width = PiecesWidth(w.row)
      /\ (w.space => w.row # << >>)
  BY FillingIs
<1> DEFINE row == w.row \o ps
<1>2. /\ row \in Seq(RunsOf(C)) /\ PiecesWidth(row) = w.width + PiecesWidth(ps)
      /\ PiecesWidth(ps) \in Nat
  BY <1>1, PiecesOfJoined
<1>3. (w.row # << >> => row # << >>) /\ (ps # << >> => row # << >>)
  BY <1>1, ConcatEqualIffEmpty, ConcatEmptySeq, EmptySeq, ConcatProperties, LenProperties
<1>4. Put(w, ps) = [w EXCEPT !.row = row, !.width = w.width + PiecesWidth(ps)]
  BY DEF Put, Filling
<1> HIDE DEF row
<1>5. w.width + PiecesWidth(ps) \in Nat
  BY <1>1, <1>2
<1> QED BY <1>1, <1>2, <1>3, <1>4, <1>5 DEF Filling

\* A row that is finished.
LEMMA EndRowStays ==
  ASSUME NEW C, NEW avail \in Nat, NEW w \in Filling(C, avail)
  PROVE  /\ [EndRow(w) EXCEPT !.space = FALSE] \in Filling(C, avail)
         /\ [EndRow(w) EXCEPT !.space = FALSE].width = 0
         /\ [EndRow(w) EXCEPT !.space = FALSE].row = << >>
         /\ [EndRow(w) EXCEPT !.space = FALSE].space = FALSE
         /\ ~ w.space => EndRow(w) \in Filling(C, avail) /\ EndRow(w).space = FALSE
                         /\ EndRow(w).width = 0
<1>1. w.row \in Seq(RunsOf(C)) /\ w.rows \in Seq(Seq(RunsOf(C))) /\ PiecesWidth(w.row) <= avail
      /\ \A i \in 1..Len(w.rows) : PiecesWidth(w.rows[i]) <= avail
  BY DEF Filling
<1> DEFINE rows == Append(w.rows, w.row)
<1>2. rows \in Seq(Seq(RunsOf(C))) /\ Longer(rows, w.rows, w.row)
  BY <1>1, AppendIsLonger
<1>3. \A i \in 1..Len(rows) : PiecesWidth(rows[i]) <= avail
  BY <1>2, <1>1 DEF Longer
<1>4. EndRow(w) = [w EXCEPT !.rows = rows, !.row = << >>, !.width = 0]
  BY DEF EndRow, Filling
<1> HIDE DEF rows
<1>5. << >> \in Seq(RunsOf(C)) /\ PiecesWidth(<< >>) = 0 /\ 0 <= avail
  BY PiecesOfOne
<1>6. w \in [rows : Seq(Seq(RunsOf(C))), row : Seq(RunsOf(C)), width : Nat, space : BOOLEAN]
  BY DEF Filling
<1> DEFINE e == EndRow(w)
           r == [e EXCEPT !.space = FALSE]
<1>7. e = [rows |-> rows, row |-> << >>, width |-> 0, space |-> w.space]
  BY <1>4, <1>6
<1> HIDE DEF e
<1>8. /\ e \in [rows : Seq(Seq(RunsOf(C))), row : Seq(RunsOf(C)), width : Nat, space : BOOLEAN]
       /\ e.rows = rows /\ e.row = << >> /\ e.width = 0 /\ e.space = w.space
  BY <1>2, <1>5, <1>6, <1>7
<1>9. /\ r \in [rows : Seq(Seq(RunsOf(C))), row : Seq(RunsOf(C)), width : Nat, space : BOOLEAN]
      /\ r.rows = rows /\ r.row = << >> /\ r.width = 0 /\ r.space = FALSE
  BY <1>8
<1> HIDE DEF r
<1>10. r \in Filling(C, avail)
  BY <1>3, <1>5, <1>9 DEF Filling
<1>11. ASSUME ~ w.space
      PROVE  EndRow(w) \in Filling(C, avail) /\ EndRow(w).space = FALSE /\ EndRow(w).width = 0
  BY <1>6, <1>8, <1>11, <1>3, <1>5 DEF Filling, e
<1> QED BY <1>9, <1>10, <1>11 DEF r, e

LEMMA PutChunkStays ==
  ASSUME NEW C, NEW avail \in Nat, NEW w \in Spaceless(C, avail), NEW chunk \in Seq(RunsOf(C)),
         PiecesWidth(chunk) <= avail
  PROVE  PutChunk(w, chunk, avail) \in Spaceless(C, avail)
<1> DEFINE fresh == IF w.width + PiecesWidth(chunk) > avail /\ w.row # << >> THEN EndRow(w) ELSE w
<1>1. w \in Filling(C, avail) /\ ~ w.space
  BY DEF Spaceless
<1>2. w.width \in Nat /\ w.width = PiecesWidth(w.row) /\ PiecesWidth(chunk) \in Nat
  BY PiecesOfJoined, <1>1, FillingIs
<1>3. fresh \in Filling(C, avail) /\ fresh.space = FALSE /\ fresh.width + PiecesWidth(chunk) <= avail
  <2>1. CASE w.width + PiecesWidth(chunk) > avail /\ w.row # << >>
    <3>1. EndRow(w) \in Filling(C, avail) /\ EndRow(w).space = FALSE /\ EndRow(w).width = 0
      BY <1>1, EndRowStays
    <3> QED BY <1>2, <2>1, <3>1
  <2>2. CASE ~ (w.width + PiecesWidth(chunk) > avail)
    BY <1>1, <1>2, <2>2, FillingIs
  <2>3. CASE w.row = << >>
    BY PiecesOfOne, <1>2, <2>3, <1>1, FillingIs
  <2> QED BY <2>1, <2>2, <2>3
<1>4. PutChunk(w, chunk, avail) = Put(fresh, chunk)
  BY DEF PutChunk
<1> HIDE DEF fresh
<1>5. Put(fresh, chunk) \in Filling(C, avail) /\ Put(fresh, chunk).space = FALSE
  BY <1>3, PutStays
<1> QED BY <1>4, <1>5 DEF Spaceless

\* The chunks of a word, each on a row where there is room for it.
LEMMA ChunksPutStay ==
  ASSUME NEW C, NEW avail \in Nat, NEW w \in Spaceless(C, avail), NEW chunks \in Seq(Seq(RunsOf(C))),
         NEW word, NEW used, chunks = Chunks(word, avail, used),
         \A i \in 1..Len(chunks) : PiecesWidth(chunks[i]) <= avail
  PROVE  FoldLeft(LAMBDA v, chunk : PutChunk(v, chunk, avail), w, Chunks(word, avail, used))
           \in Spaceless(C, avail)
<1> DEFINE s == Chunks(word, avail, used)
           n == Len(s)
           base == w
           V == Spaceless(C, avail)
           Op(v, e) == PutChunk(v, e, avail)
           Rec(g) == g = [t \in SUBSET (DOMAIN s) |->
                            IF t = {} THEN base ELSE Op(g[t \ {Max(t)}], s[Max(t)])]
           it == CHOOSE g : Rec(g)
           whole == FoldLeft(LAMBDA v, chunk : PutChunk(v, chunk, avail), w, Chunks(word, avail, used))
           step == [x \in V \X (1..n) |-> Op(x[1], s[x[2]])]
<1>1. n \in Nat /\ DOMAIN s = 1..n
  BY LenProperties
<1>2. whole = it[DOMAIN s]
  BY DEF FoldLeft, MapThenFoldSet
<1>3. base \in V
  BY DEF base, V
<1> HIDE DEF s, n, base, V, whole
<1>4. ASSUME NEW v \in V, NEW k \in 1..n PROVE Op(v, s[k]) \in V
  BY <1>1, ElementOfSeq, PutChunkStays DEF s, n, V
<1> HIDE DEF Op
<1>5. step \in [V \X (1..n) -> V] /\ \A v \in V, k \in 1..n : step[<<v, k>>] = Op(v, s[k])
  BY <1>4
<1> HIDE DEF step
<1>6. PICK f : FoldsOn(f, V, base, n, step)
  BY <1>1, <1>3, <1>5, FoldExists
<1>7. Rec(f)
  BY <1>6, <1>1, TopIsIn, <1>5 DEF FoldsOn
<1>8. Rec(it)
  BY <1>7
<1> HIDE DEF it
<1>9. FoldsAs(it, V, base, n, step)
  BY <1>1, <1>8, TopIsIn, <1>5 DEF FoldsAs
<1>10. WalksTo(it[1..n], V, base, n, step)
  BY <1>1, <1>3, <1>5, <1>9, FoldWalks
<1>11. WalksTo(whole, V, base, n, step)
  BY <1>1, <1>2, <1>10
<1>12. whole \in Spaceless(C, avail)
  BY <1>1, <1>11, WalkStays DEF V
<1> QED BY <1>12 DEF whole

\* The space before a word, in the style of the word.
SpacePiece(word, b) == [word[1] EXCEPT !.text = << b >>, !.base = << >>, !.href = << >>, !.src = 0]

LEMMA PutSpaceStays ==
  ASSUME NEW C, NEW avail, Narrow(C, avail), NEW w \in Filling(C, avail),
         NEW word \in Seq(RunsOf(C)), word # << >>, w.space => w.width + 1 <= avail
  PROVE  /\ PutSpace(w, word) \in Spaceless(C, avail)
         /\ PutSpace(w, word).width = w.width + (IF w.space THEN 1 ELSE 0)
<1>1. CASE ~ w.space
  BY <1>1, FillingIs DEF PutSpace, Spaceless
<1>2. CASE w.space
  <2> DEFINE piece == SpacePiece(word, OneSpace)
  <2>1. word[1] \in RunsOf(C)
    BY EmptySeq, ElementOfSeq
  <2>2. OneSpace \in C
    BY NarrowIs
  <2>3. << OneSpace >> \in Seq(C) /\ ColumnsOf(<< OneSpace >>) = 1
    BY <2>2, ColumnsOfOne DEF GlyphColumns, OneSpace
  <2>4. piece \in RunsOf(C) /\ piece.text = << OneSpace >>
    <3>1. << >> \in Seq(STRING) /\ 0 \in Nat
      OBVIOUS
    <3> QED BY <2>1, <2>3, <3>1 DEF RunsOf, SpacePiece
  <2>5. << piece >> \in Seq(RunsOf(C)) /\ PiecesWidth(<< piece >>) = 1 /\ << piece >> # << >>
    BY <2>3, <2>4, PiecesOfOne
  <2>6. PutSpace(w, word) = [Put(w, << piece >>) EXCEPT !.space = FALSE]
    BY <1>2 DEF PutSpace, SpacePiece, OneSpace
  <2> HIDE DEF piece
  <2>7. Put(w, << piece >>) \in Filling(C, avail) /\ Put(w, << piece >>).width = w.width + 1
    BY <1>2, <2>5, PutStays
  <2> DEFINE put == Put(w, << piece >>)
  <2>8. [put EXCEPT !.space = FALSE] \in Filling(C, avail) /\ [put EXCEPT !.space = FALSE].space = FALSE
        /\ [put EXCEPT !.space = FALSE].width = put.width
    BY <2>7 DEF put, Filling
  <2> QED BY <1>2, <2>6, <2>7, <2>8 DEF Spaceless
<1> QED BY <1>1, <1>2

LEMMA PutWordStays ==
  ASSUME NEW C, NEW avail, Narrow(C, avail), NEW w \in Filling(C, avail),
         NEW word \in Seq(RunsOf(C)), word # << >>
  PROVE  PutWord(w, word, avail) \in Filling(C, avail)
<1> DEFINE wide == PiecesWidth(word)
           gap == IF w.space THEN 1 ELSE 0
           fits == avail = 0 \/ w.width + gap + wide <= avail
           fresh == IF ~ fits /\ w.row # << >> THEN [EndRow(w) EXCEPT !.space = FALSE] ELSE w
           spaced == PutSpace(fresh, word)
<1>1. avail \in Nat /\ avail # 0
  BY NarrowIs
<1>2. wide \in Nat /\ w.width \in Nat /\ w.width <= avail /\ w.width = PiecesWidth(w.row)
      /\ gap \in {0, 1} /\ (w.space => w.row # << >>)
  BY PiecesOfJoined, FillingIs
<1>3. PutWord(w, word, avail)
        = IF avail > 0 /\ wide > avail
          THEN FoldLeft(LAMBDA v, chunk : PutChunk(v, chunk, avail), spaced,
                        Chunks(word, avail, spaced.width))
          ELSE Put(spaced, word)
  BY DEF PutWord
<1>4. CASE w.width + gap + wide <= avail
  <2>1. fresh = w
    BY <1>4
  <2>2. spaced \in Spaceless(C, avail) /\ spaced.width = w.width + gap
    BY <1>1, <1>2, <1>4, <2>1, PutSpaceStays
  <2>3. ~ (wide > avail)
    BY <1>1, <1>2, <1>4
  <2>4. PutWord(w, word, avail) = Put(spaced, word)
    BY <1>3, <2>3
  <2>5. spaced \in Filling(C, avail) /\ spaced.width + PiecesWidth(word) <= avail
    BY <1>4, <2>2 DEF Spaceless
  <2> HIDE DEF spaced
  <2> QED BY <2>4, <2>5, PutStays
<1>5. CASE ~ (w.width + gap + wide <= avail)
  <2>1. fresh \in Filling(C, avail) /\ fresh.space = FALSE /\ fresh.width = 0
    <3>1. CASE w.row # << >>
      BY <1>1, <1>5, <3>1, EndRowStays
    <3>2. CASE w.row = << >>
      BY PiecesOfOne, <3>2, <1>2, FillingIs
    <3> QED BY <3>1, <3>2
  <2> HIDE DEF fresh
  <2>2. spaced \in Spaceless(C, avail) /\ spaced.width = 0
    BY <2>1, PutSpaceStays
  <2> HIDE DEF spaced, wide
  <2>3. CASE wide > avail
    <3>1. Chunks(word, avail, 0) \in Seq(Seq(RunsOf(C)))
          /\ \A i \in 1..Len(Chunks(word, avail, 0)) : PiecesWidth(Chunks(word, avail, 0)[i]) <= avail
      BY ChunksFit
    <3> DEFINE put == FoldLeft(LAMBDA v, chunk : PutChunk(v, chunk, avail), spaced,
                               Chunks(word, avail, spaced.width))
    <3>2. PutWord(w, word, avail) = put
      <4>1. avail > 0 /\ wide > avail
        BY <1>1, <2>3
      <4> HIDE DEF put
      <4> QED BY <1>3, <4>1 DEF put
    <3>3. put \in Spaceless(C, avail)
      BY <1>1, <2>2, <3>1, ChunksPutStay
    <3> HIDE DEF put
    <3> QED BY <3>2, <3>3 DEF Spaceless
  <2>4. CASE ~ (wide > avail)
    BY <1>3, <2>4, <1>1, <1>2, <2>2, PutStays DEF Spaceless, wide
  <2> QED BY <2>3, <2>4
<1> QED BY <1>4, <1>5

LEMMA WrappingStays ==
  ASSUME NEW C, NEW avail, Narrow(C, avail), NEW w \in Filling(C, avail), NEW token \in TokensOf(C)
  PROVE  Wrapping(w, token, avail) \in Filling(C, avail)
<1>1. avail \in Nat
  BY NarrowIs
<1>2. CASE token.is = "break"
  BY <1>2, <1>1, EndRowStays DEF Wrapping
<1>3. CASE token.is = OneSpace
  BY <1>3 DEF Wrapping, OneSpace, Filling
<1>4. CASE token.is # "break" /\ token.is # OneSpace
  BY <1>4, PutWordStays DEF TokensOf, OneSpace, Wrapping
<1> QED BY <1>2, <1>3, <1>4



LEMMA FinishWalk ==
  ASSUME NEW C, NEW parts \in Seq(RunsOf(C))
  PROVE  \E w : /\ w[0] = EmptyRow /\ FoldLeft(FinishPiece, EmptyRow, parts) = w[Len(parts)]
                /\ \A k \in 1..Len(parts) : w[k] = FinishPiece(w[k - 1], parts[k])
<1> DEFINE s == parts
           n == Len(s)
           base == EmptyRow
           Op(v, e) == FinishPiece(v, e)
           Value(g, t) == IF t = {} THEN base ELSE Op(g[t \ {Max(t)}], s[Max(t)])
           Rec(g, m) == g = [t \in SUBSET (1..m) |-> Value(g, t)]
           it == CHOOSE g : g = [t \in SUBSET (DOMAIN s) |-> Value(g, t)]
           whole == FoldLeft(FinishPiece, EmptyRow, parts)
           S == {m \in 0..n : \E g : Rec(g, m)}
<1>1. n \in Nat /\ DOMAIN s = 1..n
  BY LenProperties
<1>2. whole = it[DOMAIN s]
  BY DEF FoldLeft, MapThenFoldSet
<1> HIDE DEF s, n, base, whole, Op
<1>3. 0 \in S
  <2> DEFINE f == [t \in SUBSET (1..0) |-> base]
  <2>1. \A t \in SUBSET (1..0) : t = {}
    OBVIOUS
  <2>2. \A t \in SUBSET (1..0) : base = Value(f, t)
    BY <2>1
  <2> HIDE DEF Value
  <2>3. Rec(f, 0)
    BY <2>2
  <2>4. 0 \in 0..n
    BY <1>1
  <2> HIDE DEF Rec, f
  <2> QED BY <2>3, <2>4
<1>4. ASSUME NEW m \in 1..n, m - 1 \in S PROVE m \in S
  <2>1. PICK f : Rec(f, m - 1)
    BY <1>4
  <2>2. m - 1 \in Nat /\ m \in Nat /\ \A x \in 1..m : x = m \/ x \in 1..(m - 1)
    BY <1>1
  <2> DEFINE g == [t \in SUBSET (1..m) |-> IF m \in t THEN Op(f[t \ {m}], s[m]) ELSE f[t]]
  <2>3. ASSUME NEW t \in SUBSET (1..m), m \in t
        PROVE  t # {} /\ Max(t) = m /\ t \ {m} \in SUBSET (1..(m - 1))
    <3>1. t \in SUBSET (0..m)
      OBVIOUS
    <3>2. Max(t) \in t /\ m <= Max(t)
      BY <2>2, <2>3, <3>1, GreatestOf
    <3>3. Max(t) \in 1..m
      BY <3>2
    <3> QED BY <2>2, <2>3, <3>2, <3>3
  <2>4. ASSUME NEW t \in SUBSET (1..m), m \notin t PROVE t \in SUBSET (1..(m - 1))
    BY <2>2, <2>4
  <2>5. ASSUME NEW t \in SUBSET (1..m) PROVE g[t] = Value(g, t)
    <3>1. CASE m \in t
      BY <2>3, <3>1
    <3>2. CASE m \notin t
      BY <2>4, <3>2, <2>1
    <3> QED BY <3>1, <3>2
  <2>6. Rec(g, m)
    BY <2>5
  <2>7. m \in 0..n
    OBVIOUS
  <2> HIDE DEF Rec, g
  <2> QED BY <2>6, <2>7
<1>5. \E g : Rec(g, n)
  <2>1. n \in 0..n
    BY <1>1
  <2>2. n \in S
    BY <1>1, <1>3, <1>4, <2>1, StepByStep
  <2> HIDE DEF Rec
  <2> QED BY <2>2
<1>6. Rec(it, n)
  BY <1>1, <1>5
<1> HIDE DEF it, S
<1>7. it[1..0] = base
  BY <1>6
<1>8. ASSUME NEW k \in 1..n PROVE it[1..k] = Op(it[1..(k - 1)], s[k])
  <2>1. k \in Nat /\ k # 0 /\ 1..k \in SUBSET (1..n)
    BY <1>1
  <2>2. Max(1..k) = k /\ (1..k) \ {k} = 1..(k - 1) /\ 1..k # {}
    BY <2>1, TopOfUpTo
  <2> QED BY <1>6, <2>1, <2>2
<1> DEFINE w == [k \in 0..n |-> it[1..k]]
<1>9. w[0] = base /\ w[n] = whole
  BY <1>1, <1>2, <1>7
<1>10. ASSUME NEW k \in 1..n PROVE w[k] = Op(w[k - 1], s[k])
  BY <1>1, <1>8
<1> HIDE DEF w
<1> QED BY <1>9, <1>10 DEF whole, base, n, s, Op


\* What finish() makes of a piece, and of all of them before it is trimmed.
LEMMA FinishPieceIs ==
  ASSUME NEW row, NEW p
  PROVE  \E a, b, c : FinishPiece(row, p)
                        = [text |-> row.text \o p.text, props |-> a, links |-> b, src |-> c]
BY DEF FinishPiece

\* It has these four.
FourFields(row) ==
  row = [text |-> row.text, props |-> row.props, links |-> row.links, src |-> row.src]

LEMMA FourFieldsOf ==
  ASSUME NEW x, NEW a, NEW b, NEW c
  PROVE  LET row == [text |-> x, props |-> a, links |-> b, src |-> c]
         IN  row.text = x /\ FourFields(row)
<1> DEFINE row == [text |-> x, props |-> a, links |-> b, src |-> c]
<1>1. row.text = x /\ row.props = a /\ row.links = b /\ row.src = c
  OBVIOUS
<1> QED BY <1>1 DEF FourFields

LEMMA FinishPieceHas ==
  ASSUME NEW row, NEW p
  PROVE  FinishPiece(row, p).text = row.text \o p.text /\ FourFields(FinishPiece(row, p))
<1>1. PICK a, b, c : FinishPiece(row, p)
                     = [text |-> row.text \o p.text, props |-> a, links |-> b, src |-> c]
  BY FinishPieceIs
<1> DEFINE x == row.text \o p.text
<1>2. FinishPiece(row, p) = [text |-> x, props |-> a, links |-> b, src |-> c]
  BY <1>1
<1> HIDE DEF x
<1>3. FinishPiece(row, p).text = x /\ FourFields(FinishPiece(row, p))
  BY <1>2, FourFieldsOf
<1> QED BY <1>3 DEF x

LEMMA FinishRowIs ==
  ASSUME NEW row, FourFields(row), NEW k, NEW a, NEW b
  PROVE  [row EXCEPT !.text = k, !.props = a, !.links = b].text = k
BY DEF FourFields

LEMMA FinishedFits ==
  ASSUME NEW C, NEW parts \in Seq(RunsOf(C))
  PROVE  /\ FinishRow(parts).text \in Seq(C)
         /\ ColumnsOf(FinishRow(parts).text) <= PiecesWidth(parts)
         /\ ColumnsOf(FinishRow(parts).text) \in Nat
<1> DEFINE n == Len(parts)
           row == FoldLeft(FinishPiece, EmptyRow, parts)
           shown == {i \in DOMAIN row.text : row.text[i] # " "}
           last == Max({0} \union shown)
           trimmed == SubSeq(row.text, 1, last)
<1>1. n \in Nat /\ \A i \in 1..n : parts[i] \in RunsOf(C)
  BY LenProperties, ElementOfSeq
<1>2. \E w : /\ w[0] = EmptyRow /\ row = w[n]
             /\ \A k \in 1..n : w[k] = FinishPiece(w[k - 1], parts[k])
  BY FinishWalk
<1>3. FinishRow(parts) = [row EXCEPT !.text = trimmed, !.props = Clamp(@, BytesOf(trimmed)),
                                      !.links = Clamp(@, BytesOf(trimmed))]
  BY DEF FinishRow
<1> HIDE DEF row
<1> PICK w : /\ w[0] = EmptyRow /\ row = w[n]
             /\ \A k \in 1..n : w[k] = FinishPiece(w[k - 1], parts[k])
  BY <1>2
<1>4. PICK u : RunningSums(u, n, EachPiece(parts)) /\ PiecesWidth(parts) = u[n]
  BY PiecesWalk
<1> DEFINE S == {k \in 0..n : /\ w[k].text \in Seq(C) /\ ColumnsOf(w[k].text) = u[k]
                              /\ FourFields(w[k])}
<1>5. 0 \in S
  <2>1. EmptyRow.text = << >> /\ FourFields(EmptyRow) /\ << >> \in Seq(C)
    BY DEF EmptyRow, FourFields
  <2>2. u[0] = 0 /\ 0 \in 0..n
    BY <1>1, <1>4 DEF RunningSums
  <2> QED BY <2>1, <2>2, ColumnsOfNone
<1> HIDE DEF n
<1>6. ASSUME NEW k \in 1..n, k - 1 \in S PROVE k \in S
  <2>1. k \in 0..n /\ k - 1 \in 0..n
    BY <1>1
  <2>2. w[k - 1].text \in Seq(C) /\ ColumnsOf(w[k - 1].text) = u[k - 1]
    BY <1>6
  <2>3. parts[k].text \in Seq(C)
    BY <1>1 DEF RunsOf
  <2>4. w[k] = FinishPiece(w[k - 1], parts[k])
    OBVIOUS
  <2>5. w[k].text = w[k - 1].text \o parts[k].text /\ FourFields(w[k])
    BY ONLY <2>4, FinishPieceHas
  <2>6. w[k].text \in Seq(C) /\ ColumnsOf(w[k].text) = u[k - 1] + ColumnsOf(parts[k].text)
    BY <2>2, <2>3, <2>5, ColumnsOfJoined, ConcatProperties
  <2>7. u[k] = u[k - 1] + ColumnsOf(parts[k].text)
    BY <1>4 DEF EachPiece, n, RunningSums
  <2> QED BY <2>1, <2>5, <2>6, <2>7
<1>7. row.text \in Seq(C) /\ ColumnsOf(row.text) = PiecesWidth(parts) /\ FourFields(row)
  <2>1. n \in 0..n
    BY <1>1
  <2>2. n \in S
    BY <1>1, <1>5, <1>6, <2>1, StepByStep
  <2> QED BY <1>4, <2>2
<1>8. FinishRow(parts).text = trimmed
  <2> HIDE DEF trimmed
  <2>1. FinishRow(parts) = [row EXCEPT !.text = trimmed, !.props = Clamp(row.props, BytesOf(trimmed)),
                                        !.links = Clamp(row.links, BytesOf(trimmed))]
    BY <1>3
  <2> QED BY <1>7, <2>1, FinishRowIs
<1>9. last \in 0..Len(row.text)
  <2> DEFINE l == Len(row.text)
             places == {0} \union shown
  <2>1. l \in Nat /\ DOMAIN row.text = 1..l
    BY <1>7, LenProperties
  <2>2. shown \subseteq DOMAIN row.text
    OBVIOUS
  <2> HIDE DEF l, shown
  <2>3. places \in SUBSET (0..l) /\ places # {}
    BY <2>1, <2>2
  <2>4. Max(places) \in places
    BY <2>1, <2>3, GreatestOf
  <2> QED BY <2>3, <2>4 DEF l, shown
<1> HIDE DEF last
<1>10. trimmed \in Seq(C)
  BY <1>7, LenProperties, <1>9, ElementOfSeq, SubSeqProperties
<1>11. ColumnsOf(trimmed) \in Nat /\ ColumnsOf(trimmed) <= ColumnsOf(row.text)
  BY <1>7, <1>9, ColumnsAreNat
<1> QED BY <1>7, <1>8, <1>10, <1>11

\* Lines that a column has room for.
LinesFit(ls, C, avail) ==
  /\ Len(ls) \in Nat /\ Len(ls) # 0 /\ DOMAIN ls = 1..Len(ls)
  /\ \A i \in 1..Len(ls) : ls[i].text \in Seq(C) /\ ColumnsOf(ls[i].text) <= avail

LEMMA EmptyRowFits ==
  ASSUME NEW C, NEW avail \in Nat
  PROVE  LinesFit(<< EmptyRow >>, C, avail)
<1>1. EmptyRow.text = << >> /\ << >> \in Seq(C) /\ 0 <= avail
  BY DEF EmptyRow
<1>2. Len(<< EmptyRow >>) = 1 /\ DOMAIN << EmptyRow >> = 1..1 /\ << EmptyRow >>[1] = EmptyRow
  OBVIOUS
<1>3. \A i \in 1..1 : << EmptyRow >>[i] = EmptyRow
  BY <1>2
<1>4. ColumnsOf(EmptyRow.text) = 0
  BY <1>1, ColumnsOfNone
<1>5. \A i \in 1..1 : << EmptyRow >>[i].text \in Seq(C) /\ ColumnsOf(<< EmptyRow >>[i].text) <= avail
  BY <1>1, <1>3, <1>4
<1> DEFINE ls == << EmptyRow >>
<1>6. Len(ls) = 1 /\ DOMAIN ls = 1..1
      /\ \A i \in 1..1 : ls[i].text \in Seq(C) /\ ColumnsOf(ls[i].text) <= avail
  BY <1>2, <1>5
<1> HIDE DEF ls
<1>7. LinesFit(ls, C, avail)
  BY <1>6 DEF LinesFit
<1> QED BY <1>7 DEF ls

\* No row of a paragraph is wider than the column, which has room for each of its characters.
LEMMA WrapFits ==
  ASSUME NEW C, NEW avail, Narrow(C, avail), NEW runs \in Seq(RunsOf(C))
  PROVE  LinesFit(Wrap(runs, avail), C, avail)
<1> DEFINE s == Tokens(runs)
           n == Len(s)
           base == [rows |-> << >>, row |-> << >>, width |-> 0, space |-> FALSE]
           V == Filling(C, avail)
           Op(v, e) == Wrapping(v, e, avail)
           Rec(g) == g = [t \in SUBSET (DOMAIN s) |->
                            IF t = {} THEN base ELSE Op(g[t \ {Max(t)}], s[Max(t)])]
           it == CHOOSE g : Rec(g)
           whole == FoldLeft(LAMBDA v, token : Wrapping(v, token, avail),
                             [rows |-> << >>, row |-> << >>, width |-> 0, space |-> FALSE],
                             Tokens(runs))
           step == [x \in V \X (1..n) |-> Op(x[1], s[x[2]])]
<1>1. n \in Nat /\ DOMAIN s = 1..n
  BY TokensStay, LenProperties
<1>2. whole = it[DOMAIN s]
  BY DEF FoldLeft, MapThenFoldSet
<1>3. base \in V
  BY PiecesOfOne, NarrowIs DEF base, Filling
<1>0. Wrap(runs, avail) =
        LET rows == IF whole.row = << >> THEN whole.rows ELSE Append(whole.rows, whole.row)
        IN  IF rows = << >> THEN << EmptyRow >> ELSE [i \in DOMAIN rows |-> FinishRow(rows[i])]
  BY DEF Wrap
<1> HIDE DEF s, n, base, V, whole
<1>4. ASSUME NEW v \in V, NEW k \in 1..n PROVE Op(v, s[k]) \in V
  BY TokensStay, <1>1, ElementOfSeq, WrappingStays DEF s, n, V
<1> HIDE DEF Op
<1>5. step \in [V \X (1..n) -> V] /\ \A v \in V, k \in 1..n : step[<<v, k>>] = Op(v, s[k])
  BY <1>4
<1> HIDE DEF step
<1>6. PICK f : FoldsOn(f, V, base, n, step)
  BY <1>1, <1>3, <1>5, FoldExists
<1>7. Rec(f)
  BY <1>6, <1>1, TopIsIn, <1>5 DEF FoldsOn
<1>8. Rec(it)
  BY <1>7
<1> HIDE DEF it
<1>9. FoldsAs(it, V, base, n, step)
  BY <1>1, <1>8, TopIsIn, <1>5 DEF FoldsAs
<1>10. WalksTo(it[1..n], V, base, n, step)
  BY <1>1, <1>3, <1>5, <1>9, FoldWalks
<1>11. WalksTo(whole, V, base, n, step)
  BY <1>1, <1>2, <1>10
<1>12. whole \in Filling(C, avail)
  BY <1>1, <1>11, WalkStays DEF V
<1> DEFINE rows == IF whole.row = << >> THEN whole.rows ELSE Append(whole.rows, whole.row)
<1>13. avail \in Nat
  BY NarrowIs
<1>14. rows \in Seq(Seq(RunsOf(C))) /\ \A i \in 1..Len(rows) : PiecesWidth(rows[i]) <= avail
  BY <1>12, AppendIsLonger DEF Filling, Longer
<1> DEFINE finished == [i \in DOMAIN rows |-> FinishRow(rows[i])]
<1>15. Wrap(runs, avail) = IF rows = << >> THEN << EmptyRow >> ELSE finished
  BY <1>0
<1> HIDE DEF rows
<1>16. CASE rows = << >>
  BY <1>13, <1>15, <1>16, EmptyRowFits
<1>17. CASE rows # << >>
  <2> DEFINE l == Len(rows)
             Y == {FinishRow(rows[i]) : i \in 1..l}
  <2>1. l \in Nat /\ l # 0 /\ DOMAIN rows = 1..l
    BY <1>14, <1>17, EmptySeq, LenProperties
  <2>2. finished \in [1..l -> Y]
    BY <2>1
  <2>3. finished \in Seq(Y) /\ DOMAIN finished = 1..l
    BY <2>1, <2>2, SeqDef
  <2>4. Len(finished) = l
    BY <2>1, <2>3, LenOfDomain
  <2>5. ASSUME NEW i \in 1..l
        PROVE  finished[i].text \in Seq(C) /\ ColumnsOf(finished[i].text) <= avail
    BY <1>14, <2>1, ElementOfSeq, PiecesOfJoined, FinishedFits, <1>13
  <2> HIDE DEF finished
  <2>6. Wrap(runs, avail) = finished
    BY <1>15, <1>17
  <2> QED BY <2>1, <2>3, <2>4, <2>5, <2>6 DEF LinesFit
<1> QED BY <1>16, <1>17

-----------------------------------------------------------------------------
(* How wide a column would like to be.                                     *)

\* No character of a cell is a bar.
Bar == "|"
Letters == (STRING \ {Bar}) \union {OneSpace}

LEMMA SpaceIsNoBar == OneSpace \in Letters /\ OneSpace # Bar /\ Bar \notin Letters
<1>1. OneSpace # Bar
  BY DEF OneSpace, Bar
<1> QED BY <1>1 DEF Letters

\* Runs of some characters are runs of more.
LEMMA RunsOfMore ==
  ASSUME NEW A, NEW B, NEW cell \in Seq(RunsOf(A)),
         \A k \in 1..Len(cell) : \A i \in 1..Len(cell[k].text) : cell[k].text[i] \in B
  PROVE  cell \in Seq(RunsOf(B))
<1>1. ASSUME NEW k \in 1..Len(cell) PROVE cell[k] \in RunsOf(B)
  <2>1. cell[k] \in RunsOf(A)
    BY ElementOfSeq
  <2>2. cell[k].text \in Seq(A)
    BY <2>1 DEF RunsOf
  <2> DEFINE t == cell[k].text
  <2>3. Len(t) \in Nat /\ t = [i \in 1..Len(t) |-> t[i]]
    BY <2>2, LenProperties
  <2> HIDE DEF t
  <2>4. [i \in 1..Len(t) |-> t[i]] \in [1..Len(t) -> B]
    BY DEF t
  <2>5. t \in Seq(B)
    BY <2>3, <2>4, SeqDef
  <2> QED BY <2>1, <2>5 DEF RunsOf, t
<1>2. Len(cell) \in Nat /\ cell = [k \in 1..Len(cell) |-> cell[k]]
  BY LenProperties
<1>3. [k \in 1..Len(cell) |-> cell[k]] \in [1..Len(cell) -> RunsOf(B)]
  BY <1>1
<1> QED BY <1>2, <1>3, SeqDef

LEMMA GridCellsAre ==
  ASSUME NEW cell \in GridCells
  PROVE  cell \in Seq(RunsOf(Letters))
<1> DEFINE A == STRING \ {Bar}
<1>1. cell \in Seq(RunsOf(A))
  BY DEF GridCells, Bar
<1>2. ASSUME NEW k \in 1..Len(cell), NEW i \in 1..Len(cell[k].text) PROVE cell[k].text[i] \in A
  <2> HIDE DEF A
  <2>1. cell[k].text \in Seq(A)
    <3>1. cell[k] \in RunsOf(A)
      BY <1>1, ElementOfSeq
    <3> QED BY <3>1 DEF RunsOf
  <2> QED BY <2>1, ElementOfSeq
<1>3. \A k \in 1..Len(cell) : \A i \in 1..Len(cell[k].text) : cell[k].text[i] \in Letters
  BY <1>2 DEF Letters
<1> HIDE DEF A
<1> QED BY <1>1, <1>3, RunsOfMore

\* The characters of a cell, one run after the other.
JoinRun(s, run) == s \o run.text
WholeCell(cell) == FoldLeft(JoinRun, << >>, cell)


LEMMA JoinWalk ==
  ASSUME NEW C, NEW cell \in Seq(C)
  PROVE  \E w : /\ w[0] = << >> /\ FoldLeft(JoinRun, << >>, cell) = w[Len(cell)]
                /\ \A k \in 1..Len(cell) : w[k] = JoinRun(w[k - 1], cell[k])
<1> DEFINE s == cell
           n == Len(s)
           base == << >>
           Op(v, e) == JoinRun(v, e)
           Value(g, t) == IF t = {} THEN base ELSE Op(g[t \ {Max(t)}], s[Max(t)])
           Rec(g, m) == g = [t \in SUBSET (1..m) |-> Value(g, t)]
           it == CHOOSE g : g = [t \in SUBSET (DOMAIN s) |-> Value(g, t)]
           whole == FoldLeft(JoinRun, << >>, cell)
           S == {m \in 0..n : \E g : Rec(g, m)}
<1>1. n \in Nat /\ DOMAIN s = 1..n
  BY LenProperties
<1>2. whole = it[DOMAIN s]
  BY DEF FoldLeft, MapThenFoldSet
<1> HIDE DEF s, n, base, whole, Op
<1>3. 0 \in S
  <2> DEFINE f == [t \in SUBSET (1..0) |-> base]
  <2>1. \A t \in SUBSET (1..0) : t = {}
    OBVIOUS
  <2>2. \A t \in SUBSET (1..0) : base = Value(f, t)
    BY <2>1
  <2> HIDE DEF Value
  <2>3. Rec(f, 0)
    BY <2>2
  <2>4. 0 \in 0..n
    BY <1>1
  <2> HIDE DEF Rec, f
  <2> QED BY <2>3, <2>4
<1>4. ASSUME NEW m \in 1..n, m - 1 \in S PROVE m \in S
  <2>1. PICK f : Rec(f, m - 1)
    BY <1>4
  <2>2. m - 1 \in Nat /\ m \in Nat /\ \A x \in 1..m : x = m \/ x \in 1..(m - 1)
    BY <1>1
  <2> DEFINE g == [t \in SUBSET (1..m) |-> IF m \in t THEN Op(f[t \ {m}], s[m]) ELSE f[t]]
  <2>3. ASSUME NEW t \in SUBSET (1..m), m \in t
        PROVE  t # {} /\ Max(t) = m /\ t \ {m} \in SUBSET (1..(m - 1))
    <3>1. t \in SUBSET (0..m)
      OBVIOUS
    <3>2. Max(t) \in t /\ m <= Max(t)
      BY <2>2, <2>3, <3>1, GreatestOf
    <3>3. Max(t) \in 1..m
      BY <3>2
    <3> QED BY <2>2, <2>3, <3>2, <3>3
  <2>4. ASSUME NEW t \in SUBSET (1..m), m \notin t PROVE t \in SUBSET (1..(m - 1))
    BY <2>2, <2>4
  <2>5. ASSUME NEW t \in SUBSET (1..m) PROVE g[t] = Value(g, t)
    <3>1. CASE m \in t
      BY <2>3, <3>1
    <3>2. CASE m \notin t
      BY <2>4, <3>2, <2>1
    <3> QED BY <3>1, <3>2
  <2>6. Rec(g, m)
    BY <2>5
  <2>7. m \in 0..n
    OBVIOUS
  <2> HIDE DEF Rec, g
  <2> QED BY <2>6, <2>7
<1>5. \E g : Rec(g, n)
  <2>1. n \in 0..n
    BY <1>1
  <2>2. n \in S
    BY <1>1, <1>3, <1>4, <2>1, StepByStep
  <2> HIDE DEF Rec
  <2> QED BY <2>2
<1>6. Rec(it, n)
  BY <1>1, <1>5
<1> HIDE DEF it, S
<1>7. it[1..0] = base
  BY <1>6
<1>8. ASSUME NEW k \in 1..n PROVE it[1..k] = Op(it[1..(k - 1)], s[k])
  <2>1. k \in Nat /\ k # 0 /\ 1..k \in SUBSET (1..n)
    BY <1>1
  <2>2. Max(1..k) = k /\ (1..k) \ {k} = 1..(k - 1) /\ 1..k # {}
    BY <2>1, TopOfUpTo
  <2> QED BY <1>6, <2>1, <2>2
<1> DEFINE w == [k \in 0..n |-> it[1..k]]
<1>9. w[0] = base /\ w[n] = whole
  BY <1>1, <1>2, <1>7
<1>10. ASSUME NEW k \in 1..n PROVE w[k] = Op(w[k - 1], s[k])
  BY <1>1, <1>8
<1> HIDE DEF w
<1> QED BY <1>9, <1>10 DEF whole, base, n, s, Op

LEMMA JoinedHasAll ==
  ASSUME NEW C, NEW cell \in Seq(RunsOf(C))
  PROVE  /\ WholeCell(cell) \in Seq(C)
         /\ \A k \in 1..Len(cell) : \A i \in 1..Len(cell[k].text) :
              \E j \in 1..Len(WholeCell(cell)) : WholeCell(cell)[j] = cell[k].text[i]
<1> PICK w : /\ w[0] = << >> /\ WholeCell(cell) = w[Len(cell)]
             /\ \A k \in 1..Len(cell) : w[k] = JoinRun(w[k - 1], cell[k])
  BY JoinWalk DEF WholeCell
<1> DEFINE n == Len(cell)
           Has(s, k) == \A i \in 1..Len(cell[k].text) : \E j \in 1..Len(s) : s[j] = cell[k].text[i]
           All(s, m) == s \in Seq(C) /\ \A k \in 1..m : Has(s, k)
           S == {m \in 0..n : All(w[m], m)}
<1>1. n \in Nat
  BY LenProperties
<1>2. 0 \in S
  <2>1. w[0] \in Seq(C) /\ 0 \in 0..n /\ 1..0 = {}
    BY <1>1
  <2> HIDE DEF Has
  <2> QED BY <2>1
<1>3. ASSUME NEW m \in 1..n, m - 1 \in S PROVE m \in S
  <2>0. All(w[m - 1], m - 1)
    BY <1>3
  <2> DEFINE a == w[m - 1]
             b == cell[m].text
  <2>1. a \in Seq(C) /\ b \in Seq(C) /\ w[m] = a \o b /\ m \in Nat /\ m \in 0..n
    <3>1. cell[m] \in RunsOf(C)
      BY ElementOfSeq
    <3>2. cell[m].text \in Seq(C)
      BY <3>1 DEF RunsOf
    <3>3. w[m] = w[m - 1] \o cell[m].text
      BY DEF JoinRun
    <3> HIDE DEF Has
    <3> QED BY <1>1, <2>0, <3>2, <3>3
  <2>2. \A k \in 1..(m - 1) : Has(a, k)
    BY <2>0
  <2> HIDE DEF a, b
  <2>3. /\ a \o b \in Seq(C) /\ Len(a \o b) = Len(a) + Len(b) /\ Len(a) \in Nat /\ Len(b) \in Nat
        /\ \A i \in 1..Len(a) : (a \o b)[i] = a[i]
        /\ \A i \in 1..Len(b) : (a \o b)[Len(a) + i] = b[i]
    BY <2>1, ConcatProperties, LenProperties
  <2>4. ASSUME NEW k \in 1..m PROVE Has(a \o b, k)
    <3>1. CASE k = m
      <4>1. \A i \in 1..Len(b) : Len(a) + i \in 1..Len(a \o b)
        BY <2>3
      <4> QED BY <2>3, <3>1, <4>1 DEF b
    <3>2. CASE k # m
      <4>1. Has(a, k)
        <5> HIDE DEF Has
        <5> QED BY <2>1, <2>2, <3>2
      <4>2. \A i \in 1..Len(a) : i \in 1..Len(a \o b)
        BY <2>3
      <4> QED BY <2>3, <4>1, <4>2
    <3> QED BY <3>1, <3>2
  <2> HIDE DEF Has
  <2> QED BY <2>1, <2>3, <2>4
<1>4. All(w[n], n)
  <2> HIDE DEF All
  <2>1. n \in 0..n
    BY <1>1
  <2>2. \A m \in 1..n : m - 1 \in S => m \in S
    BY <1>3
  <2> HIDE DEF S
  <2>3. n \in S
    BY <1>1, <1>2, <2>1, <2>2, StepByStep
  <2> QED BY <2>3 DEF S
<1> QED BY <1>4

\* One more character of a cell.
Weigh(w, ch) ==
  IF ch = OneSpace THEN [w EXCEPT !.apart = TRUE]
  ELSE [apart |-> FALSE,
        width |-> w.width + GlyphColumns(ch) + (IF w.apart /\ w.width > 0 THEN 1 ELSE 0)]
Weightless == [apart |-> FALSE, width |-> 0]

LEMMA WeighStays ==
  ASSUME NEW v \in [apart : BOOLEAN, width : Nat], NEW ch
  PROVE  /\ Weigh(v, ch) \in [apart : BOOLEAN, width : Nat]
         /\ v.width <= Weigh(v, ch).width /\ v.width \in Nat
         /\ ch # OneSpace => GlyphColumns(ch) <= Weigh(v, ch).width
<1>0. GlyphColumns(ch) \in {1, 2} /\ v.width \in Nat /\ v.apart \in BOOLEAN
  BY GlyphsAreWide
<1>1. CASE ch = OneSpace
  <2>1. Weigh(v, ch) = [v EXCEPT !.apart = TRUE]
    BY <1>1 DEF Weigh
  <2>2. ASSUME NEW B, NEW y \in B, NEW u \in [apart : B, width : Nat]
        PROVE  [u EXCEPT !.apart = y] \in [apart : B, width : Nat]
               /\ [u EXCEPT !.apart = y].width = u.width
    OBVIOUS
  <2>3. Weigh(v, ch) \in [apart : BOOLEAN, width : Nat] /\ Weigh(v, ch).width = v.width
    <3> DEFINE B == BOOLEAN
    <3>1. TRUE \in B /\ v \in [apart : B, width : Nat]
      OBVIOUS
    <3> HIDE DEF B
    <3>2. Weigh(v, ch) \in [apart : B, width : Nat] /\ Weigh(v, ch).width = v.width
      BY <2>1, <2>2, <3>1, Zenon
    <3> QED BY <3>2, Zenon DEF B
  <2>4. v.width <= v.width
    BY <1>0
  <2> QED BY <1>0, <1>1, <2>3, <2>4, Zenon
<1>2. CASE ch # OneSpace
  BY <1>2, <1>0 DEF Weigh
<1> QED BY <1>1, <1>2

LEMMA CellWidthIs ==
  ASSUME NEW cell
  PROVE  CellWidth(cell) = FoldLeft(Weigh, Weightless, WholeCell(cell)).width
BY DEF CellWidth, Weigh, Weightless, WholeCell, JoinRun, OneSpace, FoldLeft, MapThenFoldSet


LEMMA WeighWalk ==
  ASSUME NEW C, NEW text \in Seq(C)
  PROVE  \E w : /\ w[0] = Weightless /\ FoldLeft(Weigh, Weightless, text) = w[Len(text)]
                /\ \A k \in 1..Len(text) : w[k] = Weigh(w[k - 1], text[k])
<1> DEFINE s == text
           n == Len(s)
           base == Weightless
           Op(v, e) == Weigh(v, e)
           Value(g, t) == IF t = {} THEN base ELSE Op(g[t \ {Max(t)}], s[Max(t)])
           Rec(g, m) == g = [t \in SUBSET (1..m) |-> Value(g, t)]
           it == CHOOSE g : g = [t \in SUBSET (DOMAIN s) |-> Value(g, t)]
           whole == FoldLeft(Weigh, Weightless, text)
           S == {m \in 0..n : \E g : Rec(g, m)}
<1>1. n \in Nat /\ DOMAIN s = 1..n
  BY LenProperties
<1>2. whole = it[DOMAIN s]
  BY DEF FoldLeft, MapThenFoldSet
<1> HIDE DEF s, n, base, whole, Op
<1>3. 0 \in S
  <2> DEFINE f == [t \in SUBSET (1..0) |-> base]
  <2>1. \A t \in SUBSET (1..0) : t = {}
    OBVIOUS
  <2>2. \A t \in SUBSET (1..0) : base = Value(f, t)
    BY <2>1
  <2> HIDE DEF Value
  <2>3. Rec(f, 0)
    BY <2>2
  <2>4. 0 \in 0..n
    BY <1>1
  <2> HIDE DEF Rec, f
  <2> QED BY <2>3, <2>4
<1>4. ASSUME NEW m \in 1..n, m - 1 \in S PROVE m \in S
  <2>1. PICK f : Rec(f, m - 1)
    BY <1>4
  <2>2. m - 1 \in Nat /\ m \in Nat /\ \A x \in 1..m : x = m \/ x \in 1..(m - 1)
    BY <1>1
  <2> DEFINE g == [t \in SUBSET (1..m) |-> IF m \in t THEN Op(f[t \ {m}], s[m]) ELSE f[t]]
  <2>3. ASSUME NEW t \in SUBSET (1..m), m \in t
        PROVE  t # {} /\ Max(t) = m /\ t \ {m} \in SUBSET (1..(m - 1))
    <3>1. t \in SUBSET (0..m)
      OBVIOUS
    <3>2. Max(t) \in t /\ m <= Max(t)
      BY <2>2, <2>3, <3>1, GreatestOf
    <3>3. Max(t) \in 1..m
      BY <3>2
    <3> QED BY <2>2, <2>3, <3>2, <3>3
  <2>4. ASSUME NEW t \in SUBSET (1..m), m \notin t PROVE t \in SUBSET (1..(m - 1))
    BY <2>2, <2>4
  <2>5. ASSUME NEW t \in SUBSET (1..m) PROVE g[t] = Value(g, t)
    <3>1. CASE m \in t
      BY <2>3, <3>1
    <3>2. CASE m \notin t
      BY <2>4, <3>2, <2>1
    <3> QED BY <3>1, <3>2
  <2>6. Rec(g, m)
    BY <2>5
  <2>7. m \in 0..n
    OBVIOUS
  <2> HIDE DEF Rec, g
  <2> QED BY <2>6, <2>7
<1>5. \E g : Rec(g, n)
  <2>1. n \in 0..n
    BY <1>1
  <2>2. n \in S
    BY <1>1, <1>3, <1>4, <2>1, StepByStep
  <2> HIDE DEF Rec
  <2> QED BY <2>2
<1>6. Rec(it, n)
  BY <1>1, <1>5
<1> HIDE DEF it, S
<1>7. it[1..0] = base
  BY <1>6
<1>8. ASSUME NEW k \in 1..n PROVE it[1..k] = Op(it[1..(k - 1)], s[k])
  <2>1. k \in Nat /\ k # 0 /\ 1..k \in SUBSET (1..n)
    BY <1>1
  <2>2. Max(1..k) = k /\ (1..k) \ {k} = 1..(k - 1) /\ 1..k # {}
    BY <2>1, TopOfUpTo
  <2> QED BY <1>6, <2>1, <2>2
<1> DEFINE w == [k \in 0..n |-> it[1..k]]
<1>9. w[0] = base /\ w[n] = whole
  BY <1>1, <1>2, <1>7
<1>10. ASSUME NEW k \in 1..n PROVE w[k] = Op(w[k - 1], s[k])
  BY <1>1, <1>8
<1> HIDE DEF w
<1> QED BY <1>9, <1>10 DEF whole, base, n, s, Op

\* A cell would have room for each of its characters.
LEMMA CellWidthHolds ==
  ASSUME NEW C, NEW cell \in Seq(RunsOf(C))
  PROVE  /\ CellWidth(cell) \in Nat
         /\ \A k \in 1..Len(cell) : \A i \in 1..Len(cell[k].text) :
              cell[k].text[i] # OneSpace => GlyphColumns(cell[k].text[i]) <= CellWidth(cell)
<1> DEFINE text == WholeCell(cell)
           n == Len(text)
           Weighed == [apart : BOOLEAN, width : Nat]
<1>1. text \in Seq(C) /\ n \in Nat
  BY JoinedHasAll, LenProperties
<1>2. PICK w : /\ w[0] = Weightless /\ FoldLeft(Weigh, Weightless, text) = w[n]
               /\ \A k \in 1..n : w[k] = Weigh(w[k - 1], text[k])
  BY <1>1, WeighWalk
<1> DEFINE Under(k, m) == text[k] # OneSpace => GlyphColumns(text[k]) <= w[m].width
           Fine(m) == w[m] \in Weighed /\ \A k \in 1..m : Under(k, m)
           S == {m \in 0..n : Fine(m)}
<1>3. 0 \in S
  <2>1. w[0] \in Weighed /\ 0 \in 0..n /\ 1..0 = {}
    BY <1>1, <1>2 DEF Weightless
  <2> HIDE DEF Under, Weighed
  <2> QED BY <2>1
<1>4. ASSUME NEW m \in 1..n, m - 1 \in S PROVE m \in S
  <2>0. w[m - 1] \in Weighed /\ (\A k \in 1..(m - 1) : Under(k, m - 1)) /\ m \in Nat /\ m \in 0..n
    BY <1>1, <1>4
  <2> DEFINE v == w[m - 1]
             ch == text[m]
  <2>1. w[m] = Weigh(v, ch) /\ v \in Weighed /\ GlyphColumns(ch) \in {1, 2}
    BY <1>2, <2>0, GlyphsAreWide
  <2> HIDE DEF v, ch
  <2>2. /\ Weigh(v, ch) \in Weighed /\ v.width <= Weigh(v, ch).width /\ v.width \in Nat
        /\ ch # OneSpace => GlyphColumns(ch) <= Weigh(v, ch).width
    BY <2>1, WeighStays
  <2>3. ASSUME NEW k \in 1..m PROVE Under(k, m)
    <3>1. CASE k = m
      BY <2>1, <2>2, <3>1 DEF ch
    <3>2. CASE k # m
      BY <2>0, <3>2, <2>1, <2>2, GlyphsAreWide DEF v
    <3> QED BY <3>1, <3>2
  <2> HIDE DEF Under
  <2> QED BY <2>0, <2>1, <2>2, <2>3
<1>5. Fine(n)
  <2>1. n \in 0..n
    BY <1>1
  <2>2. \A m \in 1..n : m - 1 \in S => m \in S
    BY <1>4
  <2>3. n \in S
    BY <1>1, <1>3, <2>1, <2>2, StepByStep
  <2> HIDE DEF Fine
  <2> QED BY <2>3
<1>6. CellWidth(cell) = w[n].width
  BY <1>2, CellWidthIs
<1>7. ASSUME NEW k \in 1..Len(cell), NEW i \in 1..Len(cell[k].text), cell[k].text[i] # OneSpace
      PROVE  GlyphColumns(cell[k].text[i]) <= CellWidth(cell)
  <2>1. PICK j \in 1..n : text[j] = cell[k].text[i]
    BY JoinedHasAll
  <2>2. Under(j, n)
    <3> HIDE DEF Under, Weighed
    <3> QED BY <1>5
  <2> HIDE DEF text, n
  <2> QED BY <1>6, <1>7, <2>1, <2>2
<1> QED BY <1>5, <1>6, <1>7

LEMMA GridRowsAre ==
  ASSUME NEW g \in Grids
  PROVE  /\ GridRows(g) \in Seq(Seq(GridCells)) /\ Len(GridRows(g)) \in Nat
         /\ Len(GridRows(g)) # 0 /\ GridRows(g)[1] # << >>
<1>1. g.header \in Seq(GridCells) /\ g.header # << >> /\ g.body \in Seq(Seq(GridCells))
  BY GridsAssumption
<1> DEFINE a == << g.header >>
           b == g.body
<1>2. /\ a \in Seq(Seq(GridCells)) /\ Len(a) = 1 /\ a[1] = g.header
      /\ b \in Seq(Seq(GridCells))
  BY <1>1
<1> HIDE DEF a, b
<1>3. /\ a \o b \in Seq(Seq(GridCells)) /\ Len(a \o b) = Len(a) + Len(b) /\ Len(b) \in Nat
      /\ \A i \in 1..Len(a) : (a \o b)[i] = a[i]
  BY <1>2, ConcatProperties, LenProperties
<1>4. GridRows(g) = a \o b
  BY DEF GridRows, a, b
<1>5. (a \o b)[1] = a[1]
  BY <1>2, <1>3
<1> QED BY <1>1, <1>2, <1>3, <1>4, <1>5

LEMMA CellAtIs ==
  ASSUME NEW row \in Seq(GridCells), NEW i
  PROVE  CellAt(row, i) \in GridCells
<1>1. << >> \in GridCells
  BY DEF GridCells, Bar
<1>2. DOMAIN row = 1..Len(row)
  BY LenProperties
<1>3. i \in DOMAIN row => row[i] \in GridCells
  BY <1>2, ElementOfSeq
<1> QED BY <1>1, <1>3 DEF CellAt

\* A table has as many columns as the longest row has cells.
LEMMA ColumnsAre ==
  ASSUME NEW g \in Grids
  PROVE  \E n \in Nat \ {0} : ColumnsIn(g) = 1..n
<1> DEFINE rows == GridRows(g)
           T == {Len(row) : row \in ToSet(rows)}
           f == [i \in 1..Len(rows) |-> Len(rows[i])]
<1>1. /\ rows \in Seq(Seq(GridCells)) /\ Len(rows) \in Nat /\ Len(rows) # 0 /\ rows[1] # << >>
      /\ DOMAIN rows = 1..Len(rows)
  BY GridRowsAre, LenProperties
<1> HIDE DEF rows
<1>2. \A i \in 1..Len(rows) : rows[i] \in Seq(GridCells) /\ f[i] = Len(rows[i]) /\ f[i] \in Nat
  BY <1>1, ElementOfSeq, LenProperties
<1> HIDE DEF f
<1>3. PICK b \in Nat : \A i \in 1..Len(rows) : f[i] <= b
  BY <1>1, <1>2, ManyAreBounded
<1>4. T = {Len(rows[i]) : i \in 1..Len(rows)}
  BY <1>1 DEF ToSet
<1>5. 1 \in 1..Len(rows) /\ Len(rows[1]) \in T /\ Len(rows[1]) # 0
  BY <1>1, <1>2, EmptySeq, <1>4
<1>6. T \subseteq Nat /\ \A x \in T : x <= b
  BY <1>2, <1>3, <1>4
<1>7. ColumnsIn(g) = 1..Max(T)
  BY DEF ColumnsIn, rows
<1> HIDE DEF T
<1>8. Max(T) \in Nat /\ Len(rows[1]) <= Max(T)
  BY <1>5, <1>6, GreatestOfMany
<1>9. Len(rows[1]) \in Nat
  BY <1>2, <1>5
<1> QED BY <1>5, <1>7, <1>8, <1>9

\* What a column would like has room for the cells in it.
LikedBy(g, natural_, n) ==
  /\ natural_ \in [1..n -> Nat \ {0}]
  /\ \A i \in 1..n : \A r \in 1..Len(GridRows(g)) :
       CellWidth(CellAt(GridRows(g)[r], i)) <= natural_[i]

LEMMA NaturalHolds ==
  ASSUME NEW g \in Grids
  PROVE  \E n \in Nat \ {0} : ColumnsIn(g) = 1..n /\ LikedBy(g, Natural(g), n)
<1> PICK n \in Nat \ {0} : ColumnsIn(g) = 1..n
  BY ColumnsAre
<1> DEFINE rows == GridRows(g)
           T(i) == {1} \union {CellWidth(CellAt(row, i)) : row \in ToSet(rows)}
<1>1. rows \in Seq(Seq(GridCells)) /\ Len(rows) \in Nat /\ DOMAIN rows = 1..Len(rows)
  BY GridRowsAre, LenProperties
<1>2. Natural(g) = [i \in 1..n |-> Max(T(i))]
  BY DEF Natural
<1> HIDE DEF rows
<1>3. ASSUME NEW i \in 1..n
      PROVE  /\ Max(T(i)) \in Nat \ {0}
             /\ \A r \in 1..Len(rows) : CellWidth(CellAt(rows[r], i)) <= Max(T(i))
  <2> DEFINE f == [r \in 1..Len(rows) |-> CellWidth(CellAt(rows[r], i))]
             U == T(i)
  <2>1. ASSUME NEW r \in 1..Len(rows) PROVE CellWidth(CellAt(rows[r], i)) \in Nat
    BY <1>1, ElementOfSeq, CellAtIs, GridCellsAre, CellWidthHolds
  <2>2. \A r \in 1..Len(rows) : f[r] = CellWidth(CellAt(rows[r], i)) /\ f[r] \in Nat
    BY <2>1
  <2>3. U = {1} \union {f[r] : r \in 1..Len(rows)}
    BY <1>1 DEF ToSet
  <2> HIDE DEF f
  <2>4. PICK b \in Nat : \A r \in 1..Len(rows) : f[r] <= b
    BY <1>1, <2>2, ManyAreBounded
  <2> HIDE DEF U
  <2>5. U \subseteq Nat /\ 1 \in U /\ b + 1 \in Nat /\ \A x \in U : x <= b + 1
    BY <2>2, <2>3, <2>4
  <2>6. \A r \in 1..Len(rows) : f[r] \in U
    BY <2>3
  <2>7. Max(U) \in Nat /\ \A x \in U : x <= Max(U)
    BY <2>5, GreatestOfMany
  <2>8. Max(U) # 0
    BY <2>5, <2>7
  <2> QED BY <2>2, <2>6, <2>7, <2>8 DEF U
<1>4. LikedBy(g, Natural(g), n)
  BY <1>2, <1>3 DEF LikedBy, rows
<1> QED BY <1>4

-----------------------------------------------------------------------------
(* What some of n columns come to.                                         *)

PartOf(f, S, n) == [i \in 1..n |-> IF i \in S THEN f[i] ELSE 0]
Total(f, S, n)  == CHOOSE v : \E c : RunningSums(c, n, PartOf(f, S, n)) /\ v = c[n]

LEMMA TotalIs ==
  ASSUME NEW n \in Nat, NEW f \in [1..n -> Nat], NEW S
  PROVE  /\ Total(f, S, n) \in Nat
         /\ \E c : RunningSums(c, n, PartOf(f, S, n)) /\ Total(f, S, n) = c[n]
         /\ \A c : RunningSums(c, n, PartOf(f, S, n)) => Total(f, S, n) = c[n]
<1> DEFINE u == PartOf(f, S, n)
<1>1. u \in [1..n -> Nat]
  BY DEF PartOf
<1> HIDE DEF u
<1>2. PICK c : RunningSums(c, n, u)
  BY <1>1, SumsExist
<1>3. ASSUME NEW d, RunningSums(d, n, u), NEW e, RunningSums(e, n, u) PROVE d[n] = e[n] /\ d[n] \in Nat
  <2>1. 0 \in Nat /\ 0 + n = n /\ 0 + n <= n /\ n \in 0..n
    OBVIOUS
  <2>2. Without(u, u, 0, n)
    BY DEF Without
  <2>3. d[0 + n] = d[0] + e[n] /\ e[n] \in Nat
    BY <1>3, <2>1, <2>2, SumsAlong
  <2>4. d[0] = 0
    BY <1>3 DEF RunningSums
  <2> QED BY <2>1, <2>3, <2>4
<1> DEFINE Fits(v) == \E d : RunningSums(d, n, u) /\ v = d[n]
<1>4. Fits(c[n]) /\ Total(f, S, n) = CHOOSE v : Fits(v)
  BY <1>2 DEF Total, u
<1>5. Fits(Total(f, S, n))
  BY <1>4
<1>6. PICK d : RunningSums(d, n, u) /\ Total(f, S, n) = d[n]
  BY <1>5
<1>7. Total(f, S, n) \in Nat
  BY <1>3, <1>6
<1>8. \A e : RunningSums(e, n, u) => Total(f, S, n) = e[n]
  BY <1>3, <1>6
<1> QED BY <1>6, <1>7, <1>8 DEF u

\* RunningSums of sums.
LEMMA SumsAdded ==
  ASSUME NEW n \in Nat, NEW a, NEW u, RunningSums(a, n, u), NEW b, NEW v, RunningSums(b, n, v),
         NEW c, NEW w, RunningSums(c, n, w), \A i \in 1..n : w[i] = u[i] + v[i]
  PROVE  c[n] = a[n] + b[n]
<1> DEFINE S == {m \in 0..n : c[m] = a[m] + b[m]}
<1>1. 0 \in S
  BY DEF RunningSums
<1>2. ASSUME NEW m \in 1..n, m - 1 \in S PROVE m \in S
  BY <1>2 DEF RunningSums
<1>3. \A m \in 1..n : m - 1 \in S => m \in S
  BY <1>2
<1>4. n \in S
  <2> HIDE DEF S
  <2>1. n \in 0..n
    OBVIOUS
  <2> QED BY <1>1, <1>3, <2>1, StepByStep
<1> QED BY <1>4

LEMMA TotalOfParts ==
  ASSUME NEW n \in Nat, NEW f \in [1..n -> Nat], NEW A, NEW B, A \cap B = {}
  PROVE  Total(f, A \union B, n) = Total(f, A, n) + Total(f, B, n)
<1> DEFINE u == PartOf(f, A, n)
           v == PartOf(f, B, n)
           w == PartOf(f, A \union B, n)
<1>1. \A i \in 1..n : w[i] = u[i] + v[i]
  BY DEF PartOf
<1> HIDE DEF u, v, w
<1>2. PICK a : RunningSums(a, n, u) /\ Total(f, A, n) = a[n]
  BY TotalIs DEF u
<1>3. PICK b : RunningSums(b, n, v) /\ Total(f, B, n) = b[n]
  BY TotalIs DEF v
<1>4. PICK c : RunningSums(c, n, w) /\ Total(f, A \union B, n) = c[n]
  BY TotalIs DEF w
<1> QED BY <1>1, <1>2, <1>3, <1>4, SumsAdded

LEMMA TotalOfNone ==
  ASSUME NEW n \in Nat, NEW f \in [1..n -> Nat]
  PROVE  Total(f, {}, n) = 0
<1>1. {} \cap {} = {} /\ {} \union {} = {}
  OBVIOUS
<1>2. Total(f, {}, n) = Total(f, {}, n) + Total(f, {}, n)
  BY <1>1, TotalOfParts
<1>3. Total(f, {}, n) \in Nat
  BY TotalIs
<1> QED BY <1>2, <1>3

LEMMA TotalOfOne ==
  ASSUME NEW n \in Nat, NEW f \in [1..n -> Nat], NEW x \in 1..n
  PROVE  Total(f, {x}, n) = f[x]
<1> PICK c : RunningSums(c, n, PartOf(f, {x}, n)) /\ Total(f, {x}, n) = c[n]
  BY TotalIs
<1> DEFINE S == {m \in 0..n : c[m] = IF m >= x THEN f[x] ELSE 0}
<1>1. 0 \in S
  BY DEF RunningSums
<1>2. ASSUME NEW m \in 1..n, m - 1 \in S PROVE m \in S
  <2>1. c[m - 1] = IF m - 1 >= x THEN f[x] ELSE 0
    BY <1>2
  <2>2. m \in 0..n /\ m - 1 \in 0..n /\ f[x] \in Nat
    OBVIOUS
  <2>3. c[m] = c[m - 1] + (IF m = x THEN f[x] ELSE 0)
    BY DEF RunningSums, PartOf
  <2>4. c[m] = IF m >= x THEN f[x] ELSE 0
    BY <2>1, <2>2, <2>3
  <2> QED BY <2>2, <2>4
<1>3. \A m \in 1..n : m - 1 \in S => m \in S
  BY <1>2
<1>4. n \in S
  <2> HIDE DEF S
  <2>1. n \in 0..n
    OBVIOUS
  <2> QED BY <1>1, <1>3, <2>1, StepByStep
<1> QED BY <1>4

\* The order the library takes them in makes no difference.
LEMMA SumOverIs ==
  ASSUME NEW n \in Nat, NEW f \in [1..n -> Nat], NEW S \in SUBSET (1..n)
  PROVE  SumOver(f, S) = Total(f, S, n)
<1> DEFINE One(t) == CHOOSE x \in t : TRUE
           Value(g, t) == IF t = {} THEN 0 ELSE f[One(t)] + g[t \ {One(t)}]
           Rec(g) == g = [t \in SUBSET S |-> Value(g, t)]
           it == CHOOSE g : Rec(g)
           h == [t \in SUBSET S |-> Total(f, t, n)]
<1>1. SumOver(f, S) = it[S]
  BY DEF SumOver, MapThenSumSet, MapThenFoldSet
<1>2. \A t \in SUBSET S : t # {} => One(t) \in t
  OBVIOUS
<1> HIDE DEF One
<1>3. ASSUME NEW t \in SUBSET S, t # {}
      PROVE  /\ Total(f, t, n) = f[One(t)] + Total(f, t \ {One(t)}, n)
             /\ t \ {One(t)} \in SUBSET S
  <2> DEFINE x == One(t)
  <2>1. /\ x \in t /\ x \in 1..n /\ {x} \cap (t \ {x}) = {} /\ {x} \union (t \ {x}) = t
        /\ t \ {x} \in SUBSET S
    BY <1>2, <1>3
  <2> HIDE DEF x
  <2>2. Total(f, {x} \union (t \ {x}), n) = Total(f, {x}, n) + Total(f, t \ {x}, n)
    BY <2>1, TotalOfParts
  <2>3. Total(f, {x}, n) = f[x]
    BY <2>1, TotalOfOne
  <2> QED BY <2>1, <2>2, <2>3 DEF x
<1>4. Rec(h)
  BY <1>3, TotalOfNone
<1>5. Rec(it)
  BY <1>4
<1> HIDE DEF it, h
<1> DEFINE Bad == {m \in Nat : \E t \in SUBSET S : Cardinality(t) = m /\ it[t] # Total(f, t, n)}
<1>6. ASSUME Bad # {} PROVE FALSE
  <2>1. PICK m \in Bad : \A k \in Bad : m <= k
    BY <1>6, NatLeast
  <2>2. PICK t \in SUBSET S : Cardinality(t) = m /\ it[t] # Total(f, t, n)
    BY <2>1
  <2>3. it[t] = Value(it, t)
    BY <1>5
  <2>4. t # {}
    BY <2>2, <2>3, TotalOfNone
  <2> DEFINE x == One(t)
             r == t \ {x}
  <2>5. r \in SUBSET S /\ Total(f, t, n) = f[x] + Total(f, r, n)
    BY <1>3, <2>4
  <2>6. it[t] = f[x] + it[r]
    BY <2>3, <2>4
  <2>7. it[r] # Total(f, r, n)
    BY <2>2, <2>5, <2>6
  <2>8. Cardinality(r) = m - 1 /\ m - 1 \in Nat
    <3>1. IsFiniteSet(1..n)
      BY FS_Interval
    <3>2. IsFiniteSet(t)
      BY <3>1, FS_Subset
    <3>3. x \in t
      BY <1>2, <2>4
    <3>4. IsFiniteSet(r) /\ Cardinality(r) = Cardinality(t) - 1
      BY <3>2, <3>3, FS_RemoveElement
    <3>5. Cardinality(r) \in Nat
      BY <3>4, FS_CardinalityType
    <3> QED BY <2>2, <3>4, <3>5
  <2>9. m - 1 \in Bad
    BY <2>5, <2>7, <2>8
  <2> QED BY <2>1, <2>9
<1>7. it[S] = Total(f, S, n)
  <2> SUFFICES ASSUME it[S] # Total(f, S, n) PROVE FALSE
    OBVIOUS
  <2>1. IsFiniteSet(S)
    <3>1. IsFiniteSet(1..n)
      BY FS_Interval
    <3> QED BY <3>1, FS_Subset
  <2>2. Cardinality(S) \in Nat
    BY <2>1, FS_CardinalityType
  <2>3. Cardinality(S) \in Bad
    BY <2>2
  <2> QED BY <1>6, <2>3
<1> QED BY <1>1, <1>7

\* Two parts of n columns that have none in common.
TwoParts(A, B, n, f) ==
  /\ n \in Nat /\ f \in [1..n -> Nat]
  /\ A \in SUBSET (1..n) /\ B \in SUBSET (1..n) /\ A \cap B = {}

LEMMA SumOverHas ==
  ASSUME NEW n, NEW f, NEW A, NEW B, TwoParts(A, B, n, f)
  PROVE  /\ SumOver(f, A) \in Nat /\ SumOver(f, B) \in Nat /\ SumOver(f, {}) = 0
         /\ SumOver(f, A \union B) = SumOver(f, A) + SumOver(f, B)
<1> USE DEF TwoParts
<1>1. /\ SumOver(f, A) = Total(f, A, n) /\ SumOver(f, B) = Total(f, B, n)
      /\ SumOver(f, {}) = Total(f, {}, n) /\ SumOver(f, A \union B) = Total(f, A \union B, n)
  BY SumOverIs
<1>2. Total(f, A, n) \in Nat /\ Total(f, B, n) \in Nat
  BY TotalIs
<1>3. Total(f, A \union B, n) = Total(f, A, n) + Total(f, B, n) /\ Total(f, {}, n) = 0
  BY TotalOfNone, TotalOfParts
<1> QED BY <1>1, <1>2, <1>3

\* What comes to the same for each comes to the same for all.
LEMMA SumOverSame ==
  ASSUME NEW n \in Nat, NEW f \in [1..n -> Nat], NEW g \in [1..n -> Nat], NEW A \in SUBSET (1..n),
         \A i \in A : f[i] = g[i]
  PROVE  SumOver(f, A) = SumOver(g, A)
<1>1. PartOf(f, A, n) = PartOf(g, A, n)
  BY DEF PartOf
<1>2. Total(f, A, n) = Total(g, A, n)
  BY <1>1 DEF Total
<1> QED BY <1>2, SumOverIs

\* How many there are of each, and what they come to when each is no more than s, or just s.
LEMMA SumOverAtMost ==
  ASSUME NEW n \in Nat, NEW f \in [1..n -> Nat], NEW A \in SUBSET (1..n), NEW s \in Nat,
         \A i \in A : f[i] <= s
  PROVE  /\ Cardinality(A) \in Nat /\ SumOver(f, A) \in Nat
         /\ SumOver(f, A) <= Cardinality(A) * s
         /\ (\A i \in A : f[i] = s) => SumOver(f, A) = Cardinality(A) * s
<1> PICK c : RunningSums(c, n, PartOf(f, A, n)) /\ Total(f, A, n) = c[n]
  BY TotalIs
<1> DEFINE F(m) == A \cap (1..m)
           Q(m) == Cardinality(F(m))
           Even == \A i \in A : f[i] = s
           Fine(m) == /\ IsFiniteSet(F(m)) /\ Q(m) \in Nat /\ c[m] <= Q(m) * s
                      /\ Even => c[m] = Q(m) * s
           S == {m \in 0..n : Fine(m)}
<1>1. 0 \in S
  BY FS_EmptySet DEF RunningSums
<1>2. ASSUME NEW m \in 1..n, m - 1 \in S PROVE m \in S
  <2>1. Fine(m - 1) /\ m \in 0..n /\ m - 1 \in 0..n
    BY <1>2
  <2>2. c[m] = c[m - 1] + (IF m \in A THEN f[m] ELSE 0) /\ c[m - 1] \in Nat /\ f[m] \in Nat
    BY <2>1 DEF RunningSums, PartOf
  <2> DEFINE b == F(m - 1)
             e == F(m)
             q == Cardinality(b)
  <2>3. /\ IsFiniteSet(b) /\ q \in Nat /\ c[m - 1] <= q * s /\ (Even => c[m - 1] = q * s)
    BY <2>1
  <2>4. /\ m \in A => e = b \union {m} /\ m \notin b
        /\ m \notin A => e = b
    OBVIOUS
  <2>5. m \in A => f[m] <= s /\ (Even => f[m] = s)
    OBVIOUS
  <2>6. Fine(m) = /\ IsFiniteSet(e) /\ Cardinality(e) \in Nat /\ c[m] <= Cardinality(e) * s
                  /\ Even => c[m] = Cardinality(e) * s
    OBVIOUS
  <2> HIDE DEF F, Even, Fine, b, e
  <2>7. CASE m \in A
    <3>1. IsFiniteSet(e) /\ Cardinality(e) = q + 1
      BY <2>3, <2>4, <2>7, FS_AddElement
    <3> HIDE DEF q
    <3>2. (q + 1) * s = q * s + s /\ q * s \in Nat
      BY <2>3
    <3>3. c[m] <= (q + 1) * s /\ (Even => c[m] = (q + 1) * s)
      BY <2>2, <2>3, <2>5, <2>7, <3>2
    <3>4. Fine(m)
      BY <2>3, <2>6, <3>1, <3>3
    <3> QED BY <2>1, <3>4
  <2>8. CASE m \notin A
    BY <2>2, <2>4, <2>8, <2>3, <2>6, <2>1
  <2> QED BY <2>7, <2>8
<1>3. \A m \in 1..n : m - 1 \in S => m \in S
  BY <1>2
<1>4. Fine(n)
  <2> HIDE DEF Fine
  <2>1. n \in 0..n
    OBVIOUS
  <2>2. n \in S
    BY <1>1, <1>3, <2>1, StepByStep
  <2> QED BY <2>2
<1>5. F(n) = A
  OBVIOUS
<1>6. SumOver(f, A) = c[n] /\ c[n] \in Nat
  BY SumOverIs, TotalIs
<1> QED BY <1>4, <1>5, <1>6

\* All columns together come to what they do one after the other.
LEMMA SumOverAll ==
  ASSUME NEW n \in Nat, NEW f \in [1..n -> Nat], NEW c, RunningSums(c, n, f)
  PROVE  SumOver(f, 1..n) = c[n] /\ c[n] \in Nat
<1>1. PartOf(f, 1..n, n) = f
  BY DEF PartOf
<1>2. Total(f, 1..n, n) = c[n]
  BY <1>1, TotalIs
<1>3. n \in 0..n /\ 1..n \in SUBSET (1..n)
  OBVIOUS
<1> QED BY <1>2, <1>3, SumOverIs DEF RunningSums

-----------------------------------------------------------------------------
(* How the room is shared out (fit()).                                     *)

LEMMA GreaterOf ==
  ASSUME NEW a \in Int, NEW b \in Int
  PROVE  Max({a, b}) = IF a >= b THEN a ELSE b
<1> DEFINE Tops(x) == x \in {a, b} /\ \A y \in {a, b} : x >= y
<1>1. Max({a, b}) = CHOOSE x \in {a, b} : \A y \in {a, b} : x >= y
  BY DEF Max
<1>2. \E x \in {a, b} : \A y \in {a, b} : x >= y
  OBVIOUS
<1>3. Max({a, b}) \in {a, b} /\ Max({a, b}) >= a /\ Max({a, b}) >= b
  BY <1>1, <1>2
<1> QED BY <1>3

LEMMA ProductsKeepOrder ==
  ASSUME NEW m \in Nat, NEW a \in Nat, NEW b \in Nat, a <= b
  PROVE  m * a <= m * b /\ m * a \in Nat /\ m * b \in Nat /\ m * (a + 1) = m * a + m
<1>1. b - a \in Nat /\ m * (b - a) = m * b - m * a
  OBVIOUS
<1>2. m * (b - a) \in Nat /\ m * a \in Nat /\ m * b \in Nat /\ m * (a + 1) = m * a + m
  BY <1>1
<1> QED BY <1>1, <1>2

LEMMA EqualShares ==
  ASSUME NEW l \in Nat, NEW m \in Nat \ {0}
  PROVE  /\ l \div m \in Nat /\ m * (l \div m) <= l /\ l < m * (l \div m) + m
         /\ \A s \in Nat : m * s <= l => s <= l \div m
<1> DEFINE q == l \div m
           r == l % m
<1>1. q \in Nat /\ r \in 0..(m - 1) /\ l = m * q + r
  OBVIOUS
<1> HIDE DEF q, r
<1>2. ASSUME NEW s \in Nat, m * s <= l, ~(s <= q) PROVE FALSE
  BY <1>1, <1>2, ProductsKeepOrder
<1>3. m * q \in Nat
  BY <1>1
<1> QED BY <1>1, <1>2, <1>3 DEF q

\* What each column that is not settled may have of what is left, when F are settled.
ShareOf(f, F, n, b) == Max({b - SumOver(f, F), 0}) \div Cardinality((1..n) \ F)

\* What is shared is what is left, but for less than one for each.
LEMMA SharesOut ==
  ASSUME NEW n \in Nat, NEW f \in [1..n -> Nat], NEW F \in SUBSET (1..n), F # 1..n, NEW b \in Nat
  PROVE  LET m == Cardinality((1..n) \ F)
             s == ShareOf(f, F, n, b)
         IN  /\ m \in Nat \ {0} /\ s \in Nat /\ SumOver(f, F) \in Nat
             /\ s > 0 => SumOver(f, F) + m * s <= b /\ b < SumOver(f, F) + m * s + m
             /\ \A x \in Nat : SumOver(f, F) + m * x <= b => x <= s
<1> DEFINE R == (1..n) \ F
           m == Cardinality(R)
           s == ShareOf(f, F, n, b)
           u == SumOver(f, F)
           l == Max({b - u, 0})
<1>1. m \in Nat \ {0}
  <2>1. IsFiniteSet(1..n)
    BY FS_Interval
  <2>2. R \in SUBSET (1..n) /\ R # {}
    OBVIOUS
  <2> HIDE DEF R
  <2>3. IsFiniteSet(R)
    BY <2>1, <2>2, FS_Subset
  <2> QED BY <2>2, <2>3, FS_CardinalityType, FS_EmptySet
<1>2. u \in Nat
  <2>1. TwoParts(F, {}, n, f)
    BY DEF TwoParts
  <2> QED BY <2>1, SumOverHas
<1>3. s = l \div m
  BY DEF ShareOf
<1> HIDE DEF R, m, s, u
<1>4. l = IF b - u >= 0 THEN b - u ELSE 0
  BY <1>2, GreaterOf
<1> HIDE DEF l
<1>5. l \in Nat
  BY <1>2, <1>4
<1>6. s \in Nat /\ m * s <= l /\ l < m * s + m /\ \A x \in Nat : m * x <= l => x <= s
  BY <1>1, <1>3, <1>5, EqualShares
<1>7. ASSUME s > 0 PROVE u + m * s <= b /\ b < u + m * s + m
  BY <1>1, <1>6, <1>7, <1>2, <1>4
<1>8. ASSUME NEW x \in Nat, u + m * x <= b PROVE x <= s
  BY <1>1, <1>2, <1>4, <1>8, <1>6
<1> QED BY <1>1, <1>2, <1>6, <1>7, <1>8 DEF R, m, s, u

\* Those that want no more than their share leave the others no less; and they are never
\* all that is left, when there is not room for all.
LEMMA SharesGrow ==
  ASSUME NEW n \in Nat, NEW f \in [1..n -> Nat], NEW F \in SUBSET (1..n), F # 1..n, NEW b \in Nat,
         NEW G \in SUBSET ((1..n) \ F), NEW s, s = ShareOf(f, F, n, b), s > 0,
         \A i \in G : f[i] <= s
  PROVE  /\ F \union G = 1..n => SumOver(f, 1..n) <= b
         /\ F \union G # 1..n => s <= ShareOf(f, F \union G, n, b)
<1> DEFINE m == Cardinality((1..n) \ F)
           k == Cardinality(G)
           u == SumOver(f, F)
           v == SumOver(f, G)
           H == F \union G
<1>1. /\ m \in Nat \ {0} /\ s \in Nat /\ u \in Nat /\ u + m * s <= b
  BY SharesOut
<1>2. k \in Nat /\ v \in Nat /\ v <= k * s
  BY <1>1, SumOverAtMost
<1>3. SumOver(f, H) = u + v
  <2>1. G \in SUBSET (1..n) /\ F \cap G = {}
    OBVIOUS
  <2>2. SumOver(f, F \union G) = SumOver(f, F) + SumOver(f, G)
    <3>1. TwoParts(F, G, n, f)
      BY <2>1 DEF TwoParts
    <3> QED BY ONLY <3>1, SumOverHas
  <2> QED BY <2>2
<1>4. IsFiniteSet(1..n)
  BY FS_Interval
<1>5. k <= m /\ Cardinality((1..n) \ H) = m - k
  <2> DEFINE R == (1..n) \ F
  <2>1. R \in SUBSET (1..n) /\ G \in SUBSET R /\ (1..n) \ H = R \ G
    OBVIOUS
  <2> HIDE DEF R
  <2>2. IsFiniteSet(R) /\ IsFiniteSet(G) /\ Cardinality(G) <= Cardinality(R)
    BY <1>4, <2>1, FS_Subset
  <2>3. R \cap G = G
    BY <2>1
  <2>4. Cardinality(R \ G) = Cardinality(R) - Cardinality(R \cap G)
    BY <2>2, FS_Difference
  <2> QED BY <2>1, <2>2, <2>3, <2>4 DEF R
<1> HIDE DEF m, k, u, v
<1>6. m * s = k * s + (m - k) * s /\ (m - k) * s \in Nat /\ k * s \in Nat /\ m - k \in Nat
  <2>1. m - k \in Nat
    BY <1>1, <1>2, <1>5
  <2>2. m * s = k * s + (m - k) * s
    BY <1>1, <1>2, <2>1
  <2>3. (m - k) * s \in Nat /\ k * s \in Nat
    <3>1. \A x, y \in Nat : x * y \in Nat
      OBVIOUS
    <3>2. k \in Nat /\ s \in Nat
      BY <1>1, <1>2
    <3> QED BY <2>1, <3>1, <3>2
  <2> QED BY <2>1, <2>2, <2>3
<1>7. (u + v) + (m - k) * s <= b /\ u + v <= b
  <2> DEFINE p == k * s
             q == (m - k) * s
             w == m * s
  <2>1. w = p + q /\ p \in Nat /\ q \in Nat /\ v <= p /\ u + w <= b
    BY <1>1, <1>2, <1>6
  <2> HIDE DEF p, q, w
  <2>2. (u + v) + q <= b /\ u + v <= b
    BY <1>1, <1>2, <2>1
  <2> QED BY <2>2 DEF q
<1>8. H # 1..n => s <= ShareOf(f, H, n, b)
  <2> SUFFICES ASSUME H # 1..n PROVE s <= ShareOf(f, H, n, b)
    OBVIOUS
  <2>1. H \in SUBSET (1..n)
    OBVIOUS
  <2> HIDE DEF H
  <2>2. \A x \in Nat : SumOver(f, H) + Cardinality((1..n) \ H) * x <= b => x <= ShareOf(f, H, n, b)
    BY <2>1, SharesOut
  <2> QED BY <1>1, <1>3, <1>5, <1>7, <2>2
<1> QED BY <1>3, <1>7, <1>8

\* When the others all get that share, what is left over is less than one for each.
LEMMA SharesEnd ==
  ASSUME NEW n \in Nat, NEW f \in [1..n -> Nat], NEW F \in SUBSET (1..n), F # 1..n, NEW b \in Nat,
         NEW s, s = ShareOf(f, F, n, b), s > 0,
         NEW g, g = [i \in 1..n |-> IF i \in F THEN f[i] ELSE s]
  PROVE  /\ SumOver(g, 1..n) \in Nat /\ SumOver(g, 1..n) <= b
         /\ b < SumOver(g, 1..n) + Cardinality((1..n) \ F)
<1> DEFINE R == (1..n) \ F
           m == Cardinality(R)
<1>1. /\ m \in Nat \ {0} /\ s \in Nat /\ SumOver(f, F) \in Nat /\ SumOver(f, F) + m * s <= b
      /\ b < SumOver(f, F) + m * s + m
  BY SharesOut
<1>2. g \in [1..n -> Nat] /\ (\A i \in F : g[i] = f[i]) /\ \A i \in R : g[i] = s
  BY <1>1
<1>3. /\ R \in SUBSET (1..n) /\ F \cap R = {} /\ F \union R = 1..n
  OBVIOUS
<1> HIDE DEF R
<1>4. \A i \in R : g[i] <= s
  <2>1. s <= s
    BY <1>1
  <2> QED BY <1>2, <2>1
<1>5. SumOver(g, R) = m * s
  <2>1. (\A i \in R : g[i] = s) => SumOver(g, R) = Cardinality(R) * s
    <3>1. /\ n \in Nat /\ g \in [1..n -> Nat] /\ R \in SUBSET (1..n) /\ s \in Nat
          /\ \A i \in R : g[i] <= s
      BY <1>1, <1>2, <1>3, <1>4
    <3> QED BY ONLY <3>1, SumOverAtMost
  <2> QED BY <1>2, <2>1
<1>6. SumOver(g, F) = SumOver(f, F)
  <2>1. /\ n \in Nat /\ g \in [1..n -> Nat] /\ f \in [1..n -> Nat] /\ F \in SUBSET (1..n)
        /\ \A i \in F : g[i] = f[i]
    BY <1>2
  <2> QED BY ONLY <2>1, SumOverSame
<1>7. SumOver(g, F \union R) = SumOver(g, F) + SumOver(g, R)
  <2>1. TwoParts(F, R, n, g)
    BY <1>2, <1>3 DEF TwoParts
  <2> QED BY ONLY <2>1, SumOverHas
<1>8. SumOver(g, 1..n) = SumOver(f, F) + m * s
  BY <1>3, <1>5, <1>6, <1>7
<1>9. m * s \in Nat
  BY <1>1
<1> QED BY <1>1, <1>8, <1>9 DEF R

\* One that got less than it needs got no less than an equal share.
Kept(w, liked, n, b) == \A i \in 1..n : w[i] = liked[i] \/ (b \div n <= w[i] /\ w[i] < liked[i])

\* Of n columns F have their width w, and the others share what is left of b.
Sharing(w, liked, F, n, b) ==
  /\ n \in Nat \ {0} /\ b \in Nat
  /\ liked \in [1..n -> Nat \ {0}] /\ w \in [1..n -> Nat \ {0}] /\ F \in SUBSET (1..n)
  /\ \A i \in 1..n : w[i] = liked[i] \/ w[i] >= NarrowColumn
  /\ F # 1..n => /\ w = liked
                 /\ \A i \in F : w[i] <= ShareOf(w, F, n, b)
                 /\ b \div n <= ShareOf(w, F, n, b)
  /\ F = 1..n /\ b \div n >= NarrowColumn => SumOver(w, 1..n) <= b /\ Kept(w, liked, n, b)

LEMMA ArePositive ==
  ASSUME NEW n \in Nat \ {0}, NEW f \in [1..n -> Nat \ {0}]
  PROVE  f \in [1..n -> Nat] /\ n \in Nat /\ {} # 1..n /\ {} \in SUBSET (1..n)
         /\ 1..n \in SUBSET (1..n)
<1>1. 1 \in 1..n
  OBVIOUS
<1> QED BY <1>1

LEMMA SharingBegins ==
  ASSUME NEW n \in Nat \ {0}, NEW b \in Nat, NEW f \in [1..n -> Nat \ {0}]
  PROVE  Sharing(f, f, {}, n, b)
<1>1. f \in [1..n -> Nat] /\ n \in Nat /\ {} # 1..n /\ {} \in SUBSET (1..n)
  BY ArePositive
<1>2. SumOver(f, {}) = 0
  <2>1. TwoParts({}, {}, n, f)
    BY <1>1 DEF TwoParts
  <2> QED BY ONLY <2>1, SumOverHas
<1>3. Cardinality((1..n) \ {}) = n
  BY FS_Interval
<1>4. Max({b - 0, 0}) = b
  BY GreaterOf
<1>5. ShareOf(f, {}, n, b) = b \div n
  BY <1>2, <1>3, <1>4 DEF ShareOf
<1>6. b \div n \in Nat
  BY EqualShares
<1>7. b \div n <= b \div n
  BY <1>6
<1> QED BY <1>1, <1>5, <1>7 DEF Sharing

\* When there is not enough for three each, those that are left get three.
LEMMA SharingNarrows ==
  ASSUME NEW w, NEW liked, NEW F, NEW n, NEW b, Sharing(w, liked, F, n, b),
         ~(b \div n >= NarrowColumn),
         NEW g, g = [i \in 1..n |-> IF i \in F THEN w[i] ELSE NarrowColumn]
  PROVE  Sharing(g, liked, 1..n, n, b)
<1>1. /\ n \in Nat \ {0} /\ b \in Nat /\ liked \in [1..n -> Nat \ {0}] /\ w \in [1..n -> Nat \ {0}]
      /\ \A i \in 1..n : w[i] = liked[i] \/ w[i] >= NarrowColumn
  BY DEF Sharing
<1>2. g \in [1..n -> Nat \ {0}] /\ \A i \in 1..n : g[i] = liked[i] \/ g[i] >= NarrowColumn
  BY <1>1 DEF NarrowColumn
<1>3. 1..n \in SUBSET (1..n)
  OBVIOUS
<1> QED BY <1>1, <1>2, <1>3 DEF Sharing

\* When there is room for all they get what they like.
LEMMA SharingFits ==
  ASSUME NEW w, NEW liked, NEW n, NEW b, Sharing(w, liked, {}, n, b), SumOver(w, 1..n) <= b
  PROVE  Sharing(w, liked, 1..n, n, b)
<1>1. /\ n \in Nat \ {0} /\ b \in Nat /\ liked \in [1..n -> Nat \ {0}] /\ w \in [1..n -> Nat \ {0}]
      /\ \A i \in 1..n : w[i] = liked[i] \/ w[i] >= NarrowColumn
      /\ {} # 1..n => w = liked
  BY DEF Sharing
<1>2. w = liked /\ 1..n \in SUBSET (1..n)
  BY <1>1, ArePositive
<1>3. Kept(w, liked, n, b)
  BY <1>2 DEF Kept
<1> QED BY <1>1, <1>2, <1>3 DEF Sharing

\* When all that are left need more than their share, they get their share.
LEMMA SharingEnds ==
  ASSUME NEW w, NEW liked, NEW F, NEW n, NEW b, Sharing(w, liked, F, n, b), F # 1..n,
         NEW s, s = ShareOf(w, F, n, b), s >= NarrowColumn, {i \in (1..n) \ F : w[i] <= s} = {},
         NEW g, g = [i \in 1..n |-> IF i \in F THEN w[i] ELSE s]
  PROVE  Sharing(g, liked, 1..n, n, b)
<1>1. /\ n \in Nat \ {0} /\ b \in Nat /\ liked \in [1..n -> Nat \ {0}] /\ w \in [1..n -> Nat \ {0}]
      /\ \A i \in 1..n : w[i] = liked[i] \/ w[i] >= NarrowColumn
      /\ w = liked /\ (\A i \in F : w[i] <= s) /\ F \in SUBSET (1..n) /\ b \div n <= s
  BY DEF Sharing
<1>2. w \in [1..n -> Nat] /\ n \in Nat /\ 1..n \in SUBSET (1..n)
  BY <1>1, ArePositive
<1>3. s \in Nat
  BY <1>1, <1>2, SharesOut
<1>4. s > 0
  BY <1>3 DEF NarrowColumn
<1>5. g \in [1..n -> Nat \ {0}] /\ \A i \in 1..n : g[i] = liked[i] \/ g[i] >= NarrowColumn
  BY <1>1, <1>3, <1>4
<1>6. /\ SumOver(g, 1..n) \in Nat /\ SumOver(g, 1..n) <= b
      /\ b < SumOver(g, 1..n) + Cardinality((1..n) \ F)
  <2>1. /\ n \in Nat /\ w \in [1..n -> Nat] /\ F \in SUBSET (1..n) /\ F # 1..n /\ b \in Nat
        /\ s = ShareOf(w, F, n, b) /\ s > 0 /\ g = [i \in 1..n |-> IF i \in F THEN w[i] ELSE s]
    BY <1>1, <1>2, <1>4
  <2> QED BY ONLY <2>1, SharesEnd
<1>7. \A i \in 1..n : g[i] = liked[i] \/ (g[i] = s /\ s < liked[i])
  <2> SUFFICES ASSUME NEW i \in 1..n PROVE g[i] = liked[i] \/ (g[i] = s /\ s < liked[i])
    OBVIOUS
  <2>1. CASE i \in F
    BY <2>1, <1>1
  <2>2. CASE i \notin F
    <3>1. g[i] = s /\ w[i] \in Nat /\ ~ (w[i] <= s)
      BY <1>2, <2>2
    <3> QED BY <1>1, <1>3, <3>1
  <2> QED BY <2>1, <2>2
<1>8. Kept(g, liked, n, b)
  BY <1>1, <1>7 DEF Kept
<1> QED BY <1>1, <1>2, <1>5, <1>6, <1>8 DEF Sharing

\* Those that need no more than their share get it.
LEMMA SharingGoesOn ==
  ASSUME NEW w, NEW liked, NEW F, NEW n, NEW b, Sharing(w, liked, F, n, b), F # 1..n,
         NEW s, s = ShareOf(w, F, n, b), s >= NarrowColumn, ~ (SumOver(w, 1..n) <= b),
         NEW G, G = {i \in (1..n) \ F : w[i] <= s}
  PROVE  Sharing(w, liked, F \union G, n, b)
<1>1. /\ n \in Nat \ {0} /\ b \in Nat /\ liked \in [1..n -> Nat \ {0}] /\ w \in [1..n -> Nat \ {0}]
      /\ \A i \in 1..n : w[i] = liked[i] \/ w[i] >= NarrowColumn
      /\ w = liked /\ (\A i \in F : w[i] <= s) /\ F \in SUBSET (1..n) /\ b \div n <= s
  BY DEF Sharing
<1>2. w \in [1..n -> Nat] /\ n \in Nat
  BY <1>1, ArePositive
<1>3. s \in Nat
  BY <1>1, <1>2, SharesOut
<1>4. s > 0
  BY <1>3 DEF NarrowColumn
<1>5. G \in SUBSET ((1..n) \ F) /\ \A i \in G : w[i] <= s
  OBVIOUS
<1> DEFINE H == F \union G
<1>6. H # 1..n /\ s <= ShareOf(w, H, n, b)
  BY <1>1, <1>2, <1>4, <1>5, SharesGrow
<1>7. H \in SUBSET (1..n) /\ \A i \in H : w[i] <= s
  BY <1>1, <1>5
<1> HIDE DEF H
<1> DEFINE z == ShareOf(w, H, n, b)
<1>8. z \in Nat
  BY <1>1, <1>2, <1>6, <1>7, SharesOut
<1>9. b \div n \in Nat
  BY <1>1, EqualShares
<1>10. (\A i \in H : w[i] <= z) /\ b \div n <= z
  BY <1>6, <1>2, <1>7, <1>1, <1>3, <1>8, <1>9 DEF z
<1>11. Sharing(w, liked, H, n, b)
  BY <1>1, <1>6, <1>7, <1>10 DEF Sharing
<1> QED BY <1>11 DEF H

-----------------------------------------------------------------------------
(* Where the dividers of a row are (body_rows(), border()).                *)

Paper == Letters \union {Bar}

\* The columns of the dividers in a text.
Marks(text) == {ColumnsOf(SubSeq(text, 1, i)) : i \in {k \in DOMAIN text : text[k] = Bar}}

LEMMA NarrowGlyphs == GlyphColumns(OneSpace) = 1 /\ GlyphColumns(Bar) = 1
<1>1. OneSpace # "W" /\ Bar # "W"
  BY DEF OneSpace, Bar
<1> QED BY <1>1 DEF GlyphColumns

LEMMA MarksOfNone ==
  ASSUME NEW X, NEW s \in Seq(X), Bar \notin X
  PROVE  Marks(s) = {}
<1>1. ASSUME NEW k \in DOMAIN s PROVE s[k] # Bar
  BY ElementOfSeq, LenProperties
<1> QED BY <1>1 DEF Marks

\* What follows a text has its dividers that much further to the right.
LEMMA MarksOfJoined ==
  ASSUME NEW X, NEW s \in Seq(X), NEW t \in Seq(X)
  PROVE  Marks(s \o t) = Marks(s) \union {ColumnsOf(s) + c : c \in Marks(t)}
<1> DEFINE j == s \o t
           m == Len(s)
           l == Len(t)
           At(i) == ColumnsOf(SubSeq(j, 1, i))
<1>1. /\ m \in Nat /\ l \in Nat /\ DOMAIN s = 1..m /\ DOMAIN t = 1..l /\ DOMAIN j = 1..(m + l)
      /\ \A i \in 1..m : j[i] = s[i]
      /\ \A i \in 1..l : j[m + i] = t[i]
  BY ConcatProperties, LenProperties
<1>2. /\ \A i \in 0..m : At(i) = ColumnsOf(SubSeq(s, 1, i))
      /\ \A i \in 0..l : At(m + i) = ColumnsOf(s) + ColumnsOf(SubSeq(t, 1, i))
  BY ColumnsOfJoined
<1>3. Marks(j) = {At(i) : i \in {k \in 1..(m + l) : j[k] = Bar}}
  BY <1>1 DEF Marks
<1> HIDE DEF j, m, l, At
<1>4. ASSUME NEW c \in Marks(j)
      PROVE  c \in Marks(s) \union {ColumnsOf(s) + d : d \in Marks(t)}
  <2>1. PICK i \in 1..(m + l) : j[i] = Bar /\ c = At(i)
    BY <1>3
  <2>2. CASE i <= m
    BY <1>1, <2>2, <1>2, <2>1 DEF Marks
  <2>3. CASE ~ (i <= m)
    <3> DEFINE p == i - m
    <3>1. p \in 1..l /\ p \in 0..l /\ i = m + p
      BY <1>1, <2>3
    <3> HIDE DEF p
    <3>2. t[p] = Bar /\ c = ColumnsOf(s) + ColumnsOf(SubSeq(t, 1, p))
      BY <1>1, <1>2, <2>1, <3>1
    <3>3. ColumnsOf(SubSeq(t, 1, p)) \in Marks(t)
      BY <1>1, <3>1, <3>2 DEF Marks
    <3> QED BY <3>2, <3>3
  <2> QED BY <2>2, <2>3
<1>5. ASSUME NEW c \in Marks(s) PROVE c \in Marks(j)
  <2>1. PICK i \in 1..m : s[i] = Bar /\ c = ColumnsOf(SubSeq(s, 1, i))
    BY <1>1 DEF Marks
  <2>2. i \in 0..m /\ i \in 1..(m + l)
    BY <1>1
  <2> QED BY <1>1, <1>2, <1>3, <2>1, <2>2
<1>6. ASSUME NEW d \in Marks(t) PROVE ColumnsOf(s) + d \in Marks(j)
  <2>1. PICK i \in 1..l : t[i] = Bar /\ d = ColumnsOf(SubSeq(t, 1, i))
    BY <1>1 DEF Marks
  <2>2. i \in 0..l /\ m + i \in 1..(m + l)
    BY <1>1
  <2>3. j[m + i] = Bar /\ At(m + i) = ColumnsOf(s) + d
    BY <1>1, <1>2, <2>1, <2>2
  <2> QED BY <1>3, <2>2, <2>3
<1>7. Marks(j) = Marks(s) \union {ColumnsOf(s) + c : c \in Marks(t)}
  BY <1>4, <1>5, <1>6
<1> QED BY <1>7 DEF j

\* A text, how wide it is and where its dividers are.
Marked(text, wide, marks) == text \in Seq(Paper) /\ ColumnsOf(text) = wide /\ Marks(text) = marks

LEMMA QuietTail ==
  ASSUME NEW s, NEW wide \in Nat, NEW marks, Marked(s, wide, marks),
         NEW t \in Seq(Letters), NEW more, ColumnsOf(t) = more
  PROVE  Marked(s \o t, wide + more, marks)
<1>1. s \in Seq(Paper) /\ t \in Seq(Paper) /\ t \in Seq(Letters)
  BY DEF Paper, Marked
<1>2. Marks(t) = {}
  BY MarksOfNone, SpaceIsNoBar
<1>3. Marks(s \o t) = Marks(s) \union {ColumnsOf(s) + c : c \in Marks(t)}
  BY <1>1, MarksOfJoined
<1>4. ColumnsOf(s \o t) = ColumnsOf(s) + ColumnsOf(t)
  BY <1>1, ColumnsOfJoined
<1>5. s \o t \in Seq(Paper)
  BY <1>1, ConcatProperties
<1> QED BY <1>2, <1>3, <1>4, <1>5 DEF Marked

LEMMA BarTail ==
  ASSUME NEW s, NEW wide \in Nat, NEW marks, Marked(s, wide, marks)
  PROVE  Marked(Append(s, Bar), wide + 1, marks \union {wide + 1})
<1> DEFINE t == << Bar >>
<1>1. s \in Seq(Paper) /\ t \in Seq(Paper) /\ Bar \in Paper
  BY DEF Marked, Paper
<1>2. ColumnsOf(t) = 1
  BY <1>1, NarrowGlyphs, ColumnsOfOne
<1>3. Marks(t) = {1}
  <2>1. DOMAIN t = 1..1 /\ t[1] = Bar /\ SubSeq(t, 1, 1) = t
    <3>1. Len(t) = 1 /\ DOMAIN t = 1..1 /\ t[1] = Bar
      OBVIOUS
    <3>2. SubSeq(t, 1, Len(t)) = t
      BY <1>1, SubSeqFull
    <3> QED BY <3>1, <3>2
  <2>2. {k \in DOMAIN t : t[k] = Bar} = {1}
    BY <2>1
  <2>3. Marks(t) = {ColumnsOf(SubSeq(t, 1, i)) : i \in {1}}
    BY <2>2 DEF Marks
  <2> HIDE DEF t
  <2> QED BY <1>2, <2>1, <2>3
<1>4. Append(s, Bar) = s \o t
  BY <1>1
<1> HIDE DEF t
<1>5. Marks(s \o t) = Marks(s) \union {ColumnsOf(s) + c : c \in Marks(t)}
  BY <1>1, MarksOfJoined
<1>6. ColumnsOf(s \o t) = ColumnsOf(s) + ColumnsOf(t)
  BY <1>1, ColumnsOfJoined
<1>7. s \o t \in Seq(Paper)
  BY <1>1, ConcatProperties
<1> QED BY <1>2, <1>3, <1>4, <1>5, <1>6, <1>7 DEF Marked

LEMMA BlanksAre ==
  ASSUME NEW n \in Nat
  PROVE  Blanks(n) \in Seq(Letters) /\ ColumnsOf(Blanks(n)) = n
<1> DEFINE s == [i \in 1..n |-> OneSpace]
<1>1. Blanks(n) = s
  BY DEF Blanks, OneSpace
<1>2. s \in Seq(Letters) /\ DOMAIN s = 1..n /\ \A i \in 1..n : s[i] = OneSpace
  BY SpaceIsNoBar
<1> HIDE DEF s
<1>3. Len(s) = n
  BY <1>2, LenOfDomain
<1>4. \A i \in 1..Len(s) : GlyphColumns(s[i]) = 1
  BY <1>2, <1>3, NarrowGlyphs
<1>5. ColumnsOf(s) = Len(s)
  BY <1>2, <1>4, ColumnsOfNarrow
<1> QED BY <1>1, <1>2, <1>3, <1>5

LEMMA SlackIs ==
  ASSUME NEW align, NEW slack \in Nat
  PROVE  /\ Slack(align, slack)[1] \in Nat /\ Slack(align, slack)[2] \in Nat
         /\ Slack(align, slack)[1] + Slack(align, slack)[2] = slack
<1> DEFINE before == CASE align = "left" -> 0 [] align = "right" -> slack [] OTHER -> slack \div 2
<1>1. before \in 0..slack
  OBVIOUS
<1>2. Slack(align, slack) = << before, slack - before >>
  BY DEF Slack
<1> HIDE DEF before
<1> QED BY <1>1, <1>2

LEMMA LesserOf ==
  ASSUME NEW a \in Nat, NEW b \in Nat, a <= b
  PROVE  Min({a, b}) = a
<1>1. Min({a, b}) = CHOOSE x \in {a, b} : \A y \in {a, b} : x =< y
  BY DEF Min
<1>2. \E x \in {a, b} : \A y \in {a, b} : x =< y
  OBVIOUS
<1>3. Min({a, b}) \in {a, b} /\ Min({a, b}) <= a /\ Min({a, b}) <= b
  BY <1>1, <1>2
<1> QED BY <1>3

\* A row, whose text there is to change.
HasText(row) == "text" \in DOMAIN row

LEMMA FieldsAfter ==
  ASSUME NEW row, HasText(row), NEW x, NEW a, NEW b
  PROVE  /\ [row EXCEPT !.text = x, !.props = a].text = x
         /\ HasText([row EXCEPT !.text = x, !.props = a])
         /\ [row EXCEPT !.text = x, !.props = a, !.links = b].text = x
         /\ HasText([row EXCEPT !.text = x, !.props = a, !.links = b])
BY DEF HasText

\* A divider, and what is put in a column after it.
LEMMA PutBorderIs ==
  ASSUME NEW row
  PROVE  \E a : PutBorder(row) = [row EXCEPT !.text = Append(row.text, Bar), !.props = a]
BY DEF PutBorder, Bar

LEMMA PutBorderHas ==
  ASSUME NEW row, HasText(row)
  PROVE  PutBorder(row).text = Append(row.text, Bar) /\ HasText(PutBorder(row))
<1> DEFINE put == PutBorder(row)
           x == Append(row.text, Bar)
<1>1. PICK a : put = [row EXCEPT !.text = x, !.props = a]
  BY PutBorderIs
<1> HIDE DEF put, x
<1>2. put.text = x /\ HasText(put)
  BY <1>1 DEF HasText
<1> QED BY <1>2 DEF put, x

CellText(t, s, before, after) ==
  (((t \o << OneSpace >>) \o Blanks(before)) \o s) \o Blanks(after) \o << OneSpace >>

LEMMA PutCellIs ==
  ASSUME NEW row, HasText(row), NEW piece, NEW width, NEW align, NEW header,
         NEW put, put = PutCell(row, piece, width, align, header),
         NEW sides, sides = Slack(align, width - Min({ColumnsOf(piece.text), width})),
         NEW full, full = CellText(PutBorder(row).text, piece.text, sides[1], sides[2])
  PROVE  HasText(put) /\ put.text = full
<1>1. \E a, b : put = [row EXCEPT !.text = full, !.props = a, !.links = b]
  BY DEF PutCell, CellText, OneSpace
<1>2. PICK a, b : put = [row EXCEPT !.text = full, !.props = a, !.links = b]
  BY <1>1
<1> QED BY <1>2 DEF HasText

LEMMA FilledMarks ==
  ASSUME NEW t0, NEW wide \in Nat, NEW m, Marked(t0, wide, m),
         NEW x \in Seq(Letters), NEW c \in Nat, ColumnsOf(x) = c,
         NEW before \in Nat, NEW after \in Nat
  PROVE  Marked(CellText(t0, x, before, after), wide + 1 + before + c + after + 1, m)
<1> DEFINE t1 == t0 \o << OneSpace >>
           t2 == t1 \o Blanks(before)
           t3 == t2 \o x
           t4 == t3 \o Blanks(after)
           t5 == t4 \o << OneSpace >>
<1>1. << OneSpace >> \in Seq(Letters) /\ ColumnsOf(<< OneSpace >>) = 1
  BY SpaceIsNoBar, NarrowGlyphs, ColumnsOfOne
<1>2. /\ Blanks(before) \in Seq(Letters) /\ ColumnsOf(Blanks(before)) = before
      /\ Blanks(after) \in Seq(Letters) /\ ColumnsOf(Blanks(after)) = after
  BY BlanksAre
<1>3. /\ wide + 1 \in Nat /\ wide + 1 + before \in Nat /\ wide + 1 + before + c \in Nat
      /\ wide + 1 + before + c + after \in Nat
  OBVIOUS
<1>4. Marked(t1, wide + 1, m)
  BY <1>1, <1>3, QuietTail
<1> HIDE DEF t1
<1>5. Marked(t2, wide + 1 + before, m)
  BY <1>2, <1>3, <1>4, QuietTail
<1> HIDE DEF t2
<1>6. Marked(t3, wide + 1 + before + c, m)
  BY <1>3, <1>5, QuietTail
<1> HIDE DEF t3
<1>7. Marked(t4, wide + 1 + before + c + after, m)
  BY <1>2, <1>3, <1>6, QuietTail
<1> HIDE DEF t4
<1>8. Marked(t5, wide + 1 + before + c + after + 1, m)
  BY <1>1, <1>3, <1>7, QuietTail
<1>9. CellText(t0, x, before, after) = t5
  BY DEF CellText, t1, t2, t3, t4
<1> QED BY <1>8, <1>9

LEMMA PutCellMarks ==
  ASSUME NEW row, HasText(row), NEW wide \in Nat, NEW marks, Marked(row.text, wide, marks),
         NEW width \in Nat, NEW piece, piece.text \in Seq(Letters), ColumnsOf(piece.text) <= width,
         NEW align, NEW header, NEW put, put = PutCell(row, piece, width, align, header)
  PROVE  HasText(put) /\ Marked(put.text, wide + (width + 3), marks \union {wide + 1})
<1> DEFINE x == piece.text
           c == ColumnsOf(x)
           sides == Slack(align, width - Min({c, width}))
           t0 == PutBorder(row).text
           m == marks \union {wide + 1}
<1>1. c \in Nat /\ Min({c, width}) = c /\ width - c \in Nat
  BY ColumnsAreNat, LesserOf DEF c
<1>2. sides[1] \in Nat /\ sides[2] \in Nat /\ sides[1] + sides[2] = width - c
  BY <1>1, SlackIs
<1> DEFINE full == CellText(t0, x, sides[1], sides[2])
<1>4. HasText(put) /\ put.text = full
  <2>1. /\ HasText(row)
        /\ put = PutCell(row, piece, width, align, header)
        /\ sides = Slack(align, width - Min({ColumnsOf(piece.text), width}))
        /\ full = CellText(PutBorder(row).text, piece.text, sides[1], sides[2])
    OBVIOUS
  <2> HIDE DEF full, sides
  <2> QED BY ONLY <2>1, PutCellIs
<1> HIDE DEF full
<1>5. t0 = Append(row.text, Bar)
  BY PutBorderHas
<1>6. Marked(Append(row.text, Bar), wide + 1, m)
  BY BarTail
<1>7. Marked(t0, wide + 1, m)
  BY <1>5, <1>6
<1>8. x \in Seq(Letters) /\ ColumnsOf(x) = c /\ wide + 1 \in Nat
  OBVIOUS
<1> DEFINE p == sides[1]
           q == sides[2]
<1>9. p \in Nat /\ q \in Nat /\ p + q = width - c /\ c \in Nat
  BY <1>1, <1>2
<1>10. full = CellText(t0, x, p, q)
  BY DEF full
<1> HIDE DEF x, c, sides, t0, m, p, q
<1>11. Marked(CellText(t0, x, p, q), wide + 1 + 1 + p + c + q + 1, m)
  BY <1>7, <1>8, <1>9, FilledMarks
<1>12. wide + 1 + 1 + p + c + q + 1 = wide + (width + 3)
  BY <1>9
<1>13. Marked(put.text, wide + (width + 3), m)
  BY <1>4, <1>10, <1>11, <1>12
<1> QED BY <1>4, <1>13 DEF m

\* The k-th line of the i-th cell, and all the cells of a row.
LineAt(lines_, i, k) == IF k \in DOMAIN lines_[i] THEN lines_[i][k] ELSE EmptyRow

PutAll(start, lines_, ws, aligns, header, k, order) ==
  FoldLeft(LAMBDA row, i : PutCell(row, LineAt(lines_, i, k), ws[i], aligns[i], header), start, order)


Walked(start, lines_, ws, aligns, header, k0, order) ==
  \E w : /\ w[0] = start /\ PutAll(start, lines_, ws, aligns, header, k0, order) = w[Len(order)]
         /\ \A k \in 1..Len(order) :
              w[k] = PutCell(w[k - 1], LineAt(lines_, order[k], k0), ws[order[k]], aligns[order[k]], header)

LEMMA PutAllWalk ==
  ASSUME NEW start, NEW lines_, NEW ws, NEW aligns, NEW header, NEW k0, NEW C,
                  NEW order \in Seq(C)
  PROVE  Walked(start, lines_, ws, aligns, header, k0, order)
<1> DEFINE s == order
           n == Len(s)
           base == start
           Op(v, e) == PutCell(v, LineAt(lines_, e, k0), ws[e], aligns[e], header)
           Value(g, t) == IF t = {} THEN base ELSE Op(g[t \ {Max(t)}], s[Max(t)])
           Rec(g, m) == g = [t \in SUBSET (1..m) |-> Value(g, t)]
           it == CHOOSE g : g = [t \in SUBSET (DOMAIN s) |-> Value(g, t)]
           whole == PutAll(start, lines_, ws, aligns, header, k0, order)
           S == {m \in 0..n : \E g : Rec(g, m)}
<1>1. n \in Nat /\ DOMAIN s = 1..n
  BY LenProperties
<1>2. whole = it[DOMAIN s]
  BY DEF PutAll, FoldLeft, MapThenFoldSet
<1> HIDE DEF s, n, base, whole, Op
<1>3. 0 \in S
  <2> DEFINE f == [t \in SUBSET (1..0) |-> base]
  <2>1. \A t \in SUBSET (1..0) : t = {}
    OBVIOUS
  <2>2. \A t \in SUBSET (1..0) : base = Value(f, t)
    BY <2>1
  <2> HIDE DEF Value
  <2>3. Rec(f, 0)
    BY <2>2
  <2>4. 0 \in 0..n
    BY <1>1
  <2> HIDE DEF Rec, f
  <2> QED BY <2>3, <2>4
<1>4. ASSUME NEW m \in 1..n, m - 1 \in S PROVE m \in S
  <2>1. PICK f : Rec(f, m - 1)
    BY <1>4
  <2>2. m - 1 \in Nat /\ m \in Nat /\ \A x \in 1..m : x = m \/ x \in 1..(m - 1)
    BY <1>1
  <2> DEFINE g == [t \in SUBSET (1..m) |-> IF m \in t THEN Op(f[t \ {m}], s[m]) ELSE f[t]]
  <2>3. ASSUME NEW t \in SUBSET (1..m), m \in t
        PROVE  t # {} /\ Max(t) = m /\ t \ {m} \in SUBSET (1..(m - 1))
    <3>1. t \in SUBSET (0..m)
      OBVIOUS
    <3>2. Max(t) \in t /\ m <= Max(t)
      BY <2>2, <2>3, <3>1, GreatestOf
    <3>3. Max(t) \in 1..m
      BY <3>2
    <3> QED BY <2>2, <2>3, <3>2, <3>3
  <2>4. ASSUME NEW t \in SUBSET (1..m), m \notin t PROVE t \in SUBSET (1..(m - 1))
    BY <2>2, <2>4
  <2>5. ASSUME NEW t \in SUBSET (1..m) PROVE g[t] = Value(g, t)
    <3>1. CASE m \in t
      BY <2>3, <3>1
    <3>2. CASE m \notin t
      BY <2>4, <3>2, <2>1
    <3> QED BY <3>1, <3>2
  <2>6. Rec(g, m)
    BY <2>5
  <2>7. m \in 0..n
    OBVIOUS
  <2> HIDE DEF Rec, g
  <2> QED BY <2>6, <2>7
<1>5. \E g : Rec(g, n)
  <2>1. n \in 0..n
    BY <1>1
  <2>2. n \in S
    BY <1>1, <1>3, <1>4, <2>1, StepByStep
  <2> HIDE DEF Rec
  <2> QED BY <2>2
<1>6. Rec(it, n)
  BY <1>1, <1>5
<1> HIDE DEF it, S
<1>7. it[1..0] = base
  BY <1>6
<1>8. ASSUME NEW k \in 1..n PROVE it[1..k] = Op(it[1..(k - 1)], s[k])
  <2>1. k \in Nat /\ k # 0 /\ 1..k \in SUBSET (1..n)
    BY <1>1
  <2>2. Max(1..k) = k /\ (1..k) \ {k} = 1..(k - 1) /\ 1..k # {}
    BY <2>1, TopOfUpTo
  <2> QED BY <1>6, <2>1, <2>2
<1> DEFINE w == [k \in 0..n |-> it[1..k]]
<1>9. w[0] = base /\ w[n] = whole
  BY <1>1, <1>2, <1>7
<1>10. ASSUME NEW k \in 1..n PROVE w[k] = Op(w[k - 1], s[k])
  BY <1>1, <1>8
<1> HIDE DEF w
<1> QED BY <1>9, <1>10 DEF whole, base, n, s, Op, Walked

\* e[k] is where the first k columns of a table end, and there are n.
Edges(e, ws, n) == RunningSums(e, n, [i \in 1..n |-> ws[i] + 3])

\* The dividers of a row.
Rails(e, k) == {e[j] + 1 : j \in 0..k}

\* A row that has been drawn is as wide as any other, and has its dividers where they have theirs.
RowEven(row, e, n) ==
  /\ row.text \in Seq(Paper) /\ ColumnsOf(row.text) = e[n] + 1
  /\ OneSpace \in ToSet(row.text) => Marks(row.text) = Rails(e, n)

\* Lines that fit the columns.
CellsFit(lines_, ws, n) ==
  \A i \in 1..n : \E C : C \subseteq Letters /\ LinesFit(lines_[i], C, ws[i])

LEMMA RowOfCells ==
  ASSUME NEW n \in Nat, NEW ws \in [1..n -> Nat], NEW e, Edges(e, ws, n),
         NEW lines_, CellsFit(lines_, ws, n),
         NEW start, HasText(start), start.text = << >>, NEW aligns, NEW header, NEW k0,
         NEW order, order = [i \in 1..n |-> i]
  PROVE  RowEven(PutBorder(PutAll(start, lines_, ws, aligns, header, k0, order)), e, n)
<1>1. order \in Seq(1..n) /\ Len(order) = n /\ \A i \in 1..n : order[i] = i
  BY SeqDef, LenOfDomain
<1>2. PICK w : /\ w[0] = start /\ PutAll(start, lines_, ws, aligns, header, k0, order) = w[n]
               /\ \A k \in 1..n : w[k] = PutCell(w[k - 1], LineAt(lines_, order[k], k0), ws[order[k]],
                                                  aligns[order[k]], header)
  <2>1. \E w : /\ w[0] = start /\ PutAll(start, lines_, ws, aligns, header, k0, order) = w[Len(order)]
               /\ \A k \in 1..Len(order) : w[k] = PutCell(w[k - 1], LineAt(lines_, order[k], k0), ws[order[k]],
                                                  aligns[order[k]], header)
    <3>1. Walked(start, lines_, ws, aligns, header, k0, order)
      BY <1>1, PutAllWalk
    <3> QED BY ONLY <3>1 DEF Walked
  <2>2. Len(order) = n
    BY <1>1
  <2> QED BY ONLY <2>1, <2>2
<1>3. /\ e \in [0..n -> Nat] /\ e[0] = 0 /\ \A i \in 1..n : e[i] = e[i - 1] + (ws[i] + 3)
  BY DEF Edges, RunningSums
<1> DEFINE Before(k) == {e[j] + 1 : j \in {j \in 0..n : j < k}}
           Fine(k) == HasText(w[k]) /\ Marked(w[k].text, e[k], Before(k))
           S == {k \in 0..n : Fine(k)}
<1>4. 0 \in S
  <2>1. 0 \in 0..n /\ Before(0) = {}
    OBVIOUS
  <2>2. Marked(<< >>, 0, {})
    <3>1. << >> \in Seq(Paper) /\ << >> \in Seq(Letters) /\ ColumnsOf(<< >>) = 0
      BY ColumnsOfNone
    <3> QED BY <3>1, MarksOfNone, SpaceIsNoBar DEF Marked
  <2> HIDE DEF Before
  <2> QED BY <1>2, <1>3, <2>1, <2>2
<1>5. ASSUME NEW k \in 1..n, k - 1 \in S PROVE k \in S
  <2>1. k \in 0..n /\ k - 1 \in 0..n /\ Fine(k - 1)
    BY <1>5
  <2> DEFINE row == w[k - 1]
             piece == LineAt(lines_, k, k0)
             d == e[k - 1]
             b == Before(k - 1)
  <2>2. w[k] = PutCell(row, piece, ws[k], aligns[k], header)
    BY <1>1, <1>2
  <2>3. HasText(row) /\ Marked(row.text, d, b) /\ d \in Nat /\ ws[k] \in Nat
    BY <1>3, <2>1
  <2>4. piece.text \in Seq(Letters) /\ ColumnsOf(piece.text) <= ws[k]
    <3>1. PICK C : C \subseteq Letters /\ LinesFit(lines_[k], C, ws[k])
      BY DEF CellsFit
    <3>2. /\ DOMAIN lines_[k] = 1..Len(lines_[k])
          /\ \A i \in 1..Len(lines_[k]) : /\ lines_[k][i].text \in Seq(C)
                                             /\ ColumnsOf(lines_[k][i].text) <= ws[k]
      BY <3>1 DEF LinesFit
    <3>3. CASE k0 \in DOMAIN lines_[k]
      BY <3>2, <3>3, <3>1 DEF LineAt
    <3>4. CASE k0 \notin DOMAIN lines_[k]
      BY <3>4, <2>3, ColumnsOfNone DEF LineAt, EmptyRow
    <3> QED BY <3>3, <3>4
  <2> HIDE DEF row, piece
  <2> DEFINE h == ws[k]
             z == aligns[k]
             put == w[k]
  <2>5. HasText(put) /\ Marked(put.text, d + (h + 3), b \union {d + 1})
    <3>1. /\ HasText(row) /\ Marked(row.text, d, b) /\ d \in Nat /\ h \in Nat
          /\ piece.text \in Seq(Letters) /\ ColumnsOf(piece.text) <= h
          /\ put = PutCell(row, piece, h, z, header)
      BY <2>2, <2>3, <2>4
    <3> HIDE DEF b, d, h, z, put
    <3> QED BY ONLY <3>1, PutCellMarks
  <2>6. Before(k) = b \union {d + 1}
    BY <2>1
  <2>7. e[k] = d + (ws[k] + 3)
    BY <1>3
  <2>8. Fine(k)
    BY <2>5, <2>6, <2>7
  <2> QED BY <2>1, <2>8
<1>6. Fine(n)
  <2>1. n \in 0..n
    OBVIOUS
  <2>2. \A k \in 1..n : k - 1 \in S => k \in S
    BY <1>5
  <2>3. n \in S
    BY <1>4, <2>1, <2>2, StepByStep
  <2> HIDE DEF Fine
  <2> QED BY <2>3
<1> DEFINE last == PutAll(start, lines_, ws, aligns, header, k0, order)
<1>7. HasText(last) /\ Marked(last.text, e[n], Before(n)) /\ e[n] \in Nat
  BY <1>3, <1>2, <1>6
<1>8. Before(n) \union {e[n] + 1} = Rails(e, n)
  BY DEF Rails
<1> HIDE DEF last, Before
<1> DEFINE end == e[n]
           b == Before(n)
<1>9. Marked(PutBorder(last).text, end + 1, b \union {end + 1})
  <2>1. /\ HasText(last) /\ Marked(last.text, end, b) /\ end \in Nat
    BY <1>7
  <2> DEFINE t == last.text
  <2>2. PutBorder(last).text = Append(t, Bar)
    BY <2>1, PutBorderHas
  <2>3. Marked(t, end, b) /\ end \in Nat
    BY <2>1
  <2> HIDE DEF end, b, t
  <2>4. Marked(Append(t, Bar), end + 1, b \union {end + 1})
    BY ONLY <2>3, BarTail
  <2> QED BY ONLY <2>2, <2>4
<1> QED BY <1>8, <1>9 DEF RowEven, Marked, last

\* A border: as many bars as the rows have columns.
Bars(n) == [k \in 1..n |-> Bar]
Barred(s, width) == s \o Bars(width + PerColumn)
BorderText(ws) == FoldLeft(Barred, << Bar >>, ws)

LEMMA BorderIs ==
  \E a : Border = << [EmptyRow EXCEPT !.text = BorderText(widths), !.props = a] >>
<1> DEFINE op(s, width) == s \o [k \in 1..(width + PerColumn) |-> Bar]
           text == FoldLeft(op, << Bar >>, widths)
<1>1. text = BorderText(widths)
  BY DEF BorderText, Barred, Bars, FoldLeft, MapThenFoldSet
<1>2. Border = << [EmptyRow EXCEPT !.text = text,
                          !.props = << [col |-> 1, len |-> BytesOf(text), is |-> "border"] >>] >>
  BY DEF Border, Bar, FoldLeft, MapThenFoldSet
<1> HIDE DEF text
<1> QED BY <1>1, <1>2

LEMMA BarsAre ==
  ASSUME NEW n \in Nat
  PROVE  Bars(n) \in Seq({Bar}) /\ ColumnsOf(Bars(n)) = n
<1> DEFINE s == Bars(n)
           X == {Bar}
<1>1. s = [i \in 1..n |-> Bar] /\ Bar \in X
  BY DEF Bars
<1>2. s \in Seq(X) /\ DOMAIN s = 1..n /\ \A i \in 1..n : s[i] = Bar
  BY <1>1, SeqDef
<1> HIDE DEF s, X
<1>3. Len(s) = n
  BY <1>2, LenOfDomain
<1>4. \A i \in 1..Len(s) : GlyphColumns(s[i]) = 1
  BY <1>2, <1>3, NarrowGlyphs
<1>5. ColumnsOf(s) = Len(s)
  BY <1>2, <1>4, ColumnsOfNarrow
<1> QED BY <1>2, <1>3, <1>5 DEF s, X


LEMMA BorderWalk ==
  ASSUME NEW C, NEW ws \in Seq(C)
  PROVE  \E w : /\ w[0] = << Bar >> /\ BorderText(ws) = w[Len(ws)]
                /\ \A k \in 1..Len(ws) : w[k] = Barred(w[k - 1], ws[k])
<1> DEFINE s == ws
           n == Len(s)
           base == << Bar >>
           Op(v, e) == Barred(v, e)
           Value(g, t) == IF t = {} THEN base ELSE Op(g[t \ {Max(t)}], s[Max(t)])
           Rec(g, m) == g = [t \in SUBSET (1..m) |-> Value(g, t)]
           it == CHOOSE g : g = [t \in SUBSET (DOMAIN s) |-> Value(g, t)]
           whole == BorderText(ws)
           S == {m \in 0..n : \E g : Rec(g, m)}
<1>1. n \in Nat /\ DOMAIN s = 1..n
  BY LenProperties
<1>2. whole = it[DOMAIN s]
  BY DEF BorderText, FoldLeft, MapThenFoldSet
<1> HIDE DEF s, n, base, whole, Op
<1>3. 0 \in S
  <2> DEFINE f == [t \in SUBSET (1..0) |-> base]
  <2>1. \A t \in SUBSET (1..0) : t = {}
    OBVIOUS
  <2>2. \A t \in SUBSET (1..0) : base = Value(f, t)
    BY <2>1
  <2> HIDE DEF Value
  <2>3. Rec(f, 0)
    BY <2>2
  <2>4. 0 \in 0..n
    BY <1>1
  <2> HIDE DEF Rec, f
  <2> QED BY <2>3, <2>4
<1>4. ASSUME NEW m \in 1..n, m - 1 \in S PROVE m \in S
  <2>1. PICK f : Rec(f, m - 1)
    BY <1>4
  <2>2. m - 1 \in Nat /\ m \in Nat /\ \A x \in 1..m : x = m \/ x \in 1..(m - 1)
    BY <1>1
  <2> DEFINE g == [t \in SUBSET (1..m) |-> IF m \in t THEN Op(f[t \ {m}], s[m]) ELSE f[t]]
  <2>3. ASSUME NEW t \in SUBSET (1..m), m \in t
        PROVE  t # {} /\ Max(t) = m /\ t \ {m} \in SUBSET (1..(m - 1))
    <3>1. t \in SUBSET (0..m)
      OBVIOUS
    <3>2. Max(t) \in t /\ m <= Max(t)
      BY <2>2, <2>3, <3>1, GreatestOf
    <3>3. Max(t) \in 1..m
      BY <3>2
    <3> QED BY <2>2, <2>3, <3>2, <3>3
  <2>4. ASSUME NEW t \in SUBSET (1..m), m \notin t PROVE t \in SUBSET (1..(m - 1))
    BY <2>2, <2>4
  <2>5. ASSUME NEW t \in SUBSET (1..m) PROVE g[t] = Value(g, t)
    <3>1. CASE m \in t
      BY <2>3, <3>1
    <3>2. CASE m \notin t
      BY <2>4, <3>2, <2>1
    <3> QED BY <3>1, <3>2
  <2>6. Rec(g, m)
    BY <2>5
  <2>7. m \in 0..n
    OBVIOUS
  <2> HIDE DEF Rec, g
  <2> QED BY <2>6, <2>7
<1>5. \E g : Rec(g, n)
  <2>1. n \in 0..n
    BY <1>1
  <2>2. n \in S
    BY <1>1, <1>3, <1>4, <2>1, StepByStep
  <2> HIDE DEF Rec
  <2> QED BY <2>2
<1>6. Rec(it, n)
  BY <1>1, <1>5
<1> HIDE DEF it, S
<1>7. it[1..0] = base
  BY <1>6
<1>8. ASSUME NEW k \in 1..n PROVE it[1..k] = Op(it[1..(k - 1)], s[k])
  <2>1. k \in Nat /\ k # 0 /\ 1..k \in SUBSET (1..n)
    BY <1>1
  <2>2. Max(1..k) = k /\ (1..k) \ {k} = 1..(k - 1) /\ 1..k # {}
    BY <2>1, TopOfUpTo
  <2> QED BY <1>6, <2>1, <2>2
<1> DEFINE w == [k \in 0..n |-> it[1..k]]
<1>9. w[0] = base /\ w[n] = whole
  BY <1>1, <1>2, <1>7
<1>10. ASSUME NEW k \in 1..n PROVE w[k] = Op(w[k - 1], s[k])
  BY <1>1, <1>8
<1> HIDE DEF w
<1> QED BY <1>9, <1>10 DEF whole, base, n, s, Op

LEMMA BorderSpans ==
  ASSUME NEW n \in Nat, NEW ws \in [1..n -> Nat], NEW e, Edges(e, ws, n)
  PROVE  BorderText(ws) \in Seq({Bar}) /\ ColumnsOf(BorderText(ws)) = e[n] + 1
<1>1. ws \in Seq(Nat) /\ Len(ws) = n
  BY SeqDef, LenOfDomain
<1>2. PICK w : /\ w[0] = << Bar >> /\ BorderText(ws) = w[n]
               /\ \A k \in 1..n : w[k] = Barred(w[k - 1], ws[k])
  BY <1>1, BorderWalk
<1>3. /\ e \in [0..n -> Nat] /\ e[0] = 0 /\ \A i \in 1..n : e[i] = e[i - 1] + (ws[i] + 3)
  BY DEF Edges, RunningSums
<1> DEFINE X == {Bar}
           Fine(k) == w[k] \in Seq(X) /\ ColumnsOf(w[k]) = e[k] + 1
           S == {k \in 0..n : Fine(k)}
<1>4. 0 \in S
  <2>1. 0 \in 0..n /\ Bar \in X
    OBVIOUS
  <2> HIDE DEF X
  <2>2. << Bar >> \in Seq(X) /\ ColumnsOf(<< Bar >>) = 1
    BY <2>1, ColumnsOfOne, NarrowGlyphs
  <2>3. Fine(0)
    BY <1>2, <1>3, <2>2
  <2> HIDE DEF Fine
  <2> QED BY <2>1, <2>3
<1>5. ASSUME NEW k \in 1..n, k - 1 \in S PROVE k \in S
  <2> DEFINE v == w[k - 1]
             a == Bars(ws[k] + 3)
             d == e[k - 1]
  <2>1. v \in Seq(X) /\ ColumnsOf(v) = d + 1 /\ d \in Nat /\ k \in 0..n
    BY <1>3, <1>5
  <2>2. ws[k] \in Nat /\ ws[k] + 3 \in Nat
    OBVIOUS
  <2>3. a \in Seq(X) /\ ColumnsOf(a) = ws[k] + 3
    BY <2>2, BarsAre
  <2>4. w[k] = v \o a
    BY <1>2 DEF Barred, PerColumn
  <2>5. e[k] = d + (ws[k] + 3)
    BY <1>3
  <2> HIDE DEF v, a, d, X
  <2>6. v \o a \in Seq(X)
    BY <2>1, <2>3, ConcatProperties
  <2>7. ColumnsOf(v \o a) = (d + 1) + (ws[k] + 3)
    BY <2>1, <2>3, ColumnsOfJoined
  <2>8. (d + 1) + (ws[k] + 3) = (d + (ws[k] + 3)) + 1
    BY <2>1, <2>2
  <2>9. Fine(k)
    BY <2>4, <2>5, <2>6, <2>7, <2>8
  <2> HIDE DEF Fine
  <2> QED BY <2>1, <2>9
<1>6. Fine(n)
  <2>1. n \in 0..n
    OBVIOUS
  <2>2. \A k \in 1..n : k - 1 \in S => k \in S
    BY <1>5
  <2>3. n \in S
    BY <1>4, <2>1, <2>2, StepByStep
  <2> HIDE DEF Fine
  <2> QED BY <2>3
<1> QED BY <1>2, <1>6

\* Every row of some is like those of a table.
AllEven(rows_, e, n) == \E S : rows_ \in Seq(S) /\ \A k \in 1..Len(rows_) : RowEven(rows_[k], e, n)

LEMMA JoinedAllEven ==
  ASSUME NEW e, NEW n, NEW a, NEW b, AllEven(a, e, n), AllEven(b, e, n)
  PROVE  AllEven(a \o b, e, n)
<1>1. PICK A : a \in Seq(A) /\ \A k \in 1..Len(a) : RowEven(a[k], e, n)
  BY DEF AllEven
<1>2. PICK B : b \in Seq(B) /\ \A k \in 1..Len(b) : RowEven(b[k], e, n)
  BY DEF AllEven
<1> DEFINE S == A \union B
           j == a \o b
<1>3. a \in Seq(S) /\ b \in Seq(S) /\ A \subseteq S /\ B \subseteq S
  BY <1>1, <1>2
<1> HIDE DEF S
<1>4. /\ j \in Seq(S) /\ Len(j) = Len(a) + Len(b) /\ Len(a) \in Nat /\ Len(b) \in Nat
      /\ \A i \in 1..Len(a) : j[i] = a[i]
      /\ \A i \in 1..Len(b) : j[Len(a) + i] = b[i]
  BY <1>3, ConcatProperties, LenProperties
<1> HIDE DEF j
<1>5. ASSUME NEW k \in 1..Len(j) PROVE RowEven(j[k], e, n)
  <2>1. CASE k <= Len(a)
    BY <1>4, <2>1, <1>1
  <2>2. CASE ~ (k <= Len(a))
    <3> DEFINE i == k - Len(a)
    <3>1. i \in 1..Len(b) /\ k = Len(a) + i
      BY <1>4, <2>2
    <3> HIDE DEF i
    <3> QED BY <1>2, <1>4, <3>1
  <2> QED BY <2>1, <2>2
<1>6. AllEven(j, e, n)
  BY <1>4, <1>5 DEF AllEven
<1> QED BY <1>6 DEF j

LEMMA BorderEven ==
  ASSUME NEW n \in Nat, widths \in [1..n -> Nat], NEW e, Edges(e, widths, n)
  PROVE  AllEven(Border, e, n) /\ Border # << >>
<1>1. PICK a : Border = << [EmptyRow EXCEPT !.text = BorderText(widths), !.props = a] >>
  BY BorderIs
<1> DEFINE row == [EmptyRow EXCEPT !.text = BorderText(widths), !.props = a]
           t == BorderText(widths)
<1>2. row.text = t
  BY DEF EmptyRow
<1>3. t \in Seq({Bar}) /\ ColumnsOf(t) = e[n] + 1
  BY BorderSpans
<1> HIDE DEF t, row
<1>4. t \in Seq(Paper)
  BY <1>3 DEF Paper
<1>5. OneSpace \notin ToSet(t)
  BY <1>3, ElementOfSeq, LenProperties, SpaceIsNoBar DEF ToSet
<1>6. RowEven(row, e, n)
  BY <1>2, <1>3, <1>4, <1>5 DEF RowEven
<1>7. << row >> \in Seq({row}) /\ Len(<< row >>) = 1 /\ << row >>[1] = row /\ << row >> # << >>
  OBVIOUS
<1>8. \A k \in 1..1 : << row >>[k] = row
  BY <1>7
<1>9. AllEven(<< row >>, e, n)
  BY <1>6, <1>7, <1>8 DEF AllEven
<1>10. Border = << row >>
  BY <1>1 DEF row
<1> QED BY <1>7, <1>9, <1>10

\* What there is to share between n columns.
BudgetFor(n) == Max({room - (n * PerColumn + 1), 0})

\* What a table is, of n columns, from its start to its last row.
Laying(n) ==
  /\ n \in Nat \ {0} /\ grid \in Grids /\ room \in Nat /\ laidOut \in Nat
  /\ LikedBy(grid, natural, n)
  /\ Sharing(widths, natural, fixed, n, BudgetFor(n))
  /\ drawn # << >> \/ broken # << >> \/ laidOut # 0 => fixed = 1..n
  /\ \A e : Edges(e, widths, n) => AllEven(drawn, e, n)
  /\ broken # << >> => CellsFit(broken, widths, n) /\ DOMAIN broken = 1..n

GridInv == \E n \in Nat \ {0} : Laying(n)

LEMMA EvenOfNone ==
  ASSUME NEW e, NEW n
  PROVE  AllEven(<< >>, e, n)
<1>1. << >> \in Seq({}) /\ Len(<< >>) = 0
  BY EmptySeq
<1>2. \A k \in 1..0 : RowEven(<< >>[k], e, n)
  OBVIOUS
<1> QED BY <1>1, <1>2 DEF AllEven

LEMMA BudgetForIs ==
  ASSUME NEW n \in Nat, room \in Nat
  PROVE  /\ BudgetFor(n) \in Nat
         /\ BudgetFor(n) = IF room - (n * 3 + 1) >= 0 THEN room - (n * 3 + 1) ELSE 0
<1>1. n * 3 + 1 \in Nat /\ room - (n * 3 + 1) \in Int /\ 0 \in Int
  OBVIOUS
<1>2. BudgetFor(n) = IF room - (n * 3 + 1) >= 0 THEN room - (n * 3 + 1) ELSE 0
  BY <1>1, GreaterOf DEF BudgetFor, PerColumn
<1> QED BY <1>1, <1>2

LEMMA LayingHas ==
  ASSUME NEW n, Laying(n)
  PROVE  /\ n \in Nat /\ n # 0 /\ widths \in [1..n -> Nat] /\ widths \in [1..n -> Nat \ {0}]
         /\ ColumnSet = 1..n /\ Len(widths) = n
         /\ BudgetFor(n) \in Nat /\ Budget = BudgetFor(n)
         /\ Share = ShareOf(widths, fixed, n, BudgetFor(n))
         /\ fixed \in SUBSET (1..n) /\ {} # 1..n
<1>1. n \in Nat \ {0} /\ room \in Nat /\ widths \in [1..n -> Nat \ {0}] /\ fixed \in SUBSET (1..n)
  BY DEF Laying, Sharing
<1>2. n \in Nat /\ n # 0 /\ widths \in [1..n -> Nat] /\ ColumnSet = 1..n /\ {} # 1..n
  BY <1>1, ArePositive DEF ColumnSet
<1>3. Len(widths) = n
  BY <1>2, SeqDef, LenOfDomain
<1>4. BudgetFor(n) \in Nat
  BY <1>1, <1>2, BudgetForIs
<1>5. Budget = BudgetFor(n)
  BY <1>3 DEF Budget, BudgetFor
<1>6. Share = ShareOf(widths, fixed, n, BudgetFor(n))
  BY <1>2, <1>5 DEF Share, ShareOf
<1> QED BY <1>1, <1>2, <1>3, <1>4, <1>5, <1>6

LEMMA FitKeeps ==
  ASSUME NEW n, Laying(n), fixed # 1..n, UNCHANGED <<grid, room, natural, broken, laidOut, drawn>>,
         Sharing(widths', natural, fixed', n, BudgetFor(n))
  PROVE  Laying(n)'
<1>1. drawn = << >> /\ broken = << >> /\ laidOut = 0
  BY DEF Laying
<1>2. BudgetFor(n)' = BudgetFor(n)
  BY DEF BudgetFor
<1>3. \A e : AllEven(drawn', e, n)
  BY <1>1, EvenOfNone
<1>4. LikedBy(grid, natural, n)' /\ (n \in Nat \ {0} /\ grid \in Grids /\ room \in Nat /\ laidOut \in Nat)'
  BY DEF Laying, LikedBy
<1>5. Sharing(widths, natural, fixed, n, BudgetFor(n))'
  BY <1>2
<1> QED BY <1>1, <1>3, <1>4, <1>5 DEF Laying

LEMMA NothingToShare ==
  ASSUME NEW n \in Nat, n # 0
  PROVE  ~ (0 \div n >= NarrowColumn)
<1> DEFINE q == 0 \div n
<1>1. q \in Nat /\ n * q <= 0
  BY EqualShares
<1> HIDE DEF q
<1>2. q = 0
  BY <1>1
<1> QED BY <1>2 DEF q, NarrowColumn

LEMMA FitAtOnceKeeps ==
  ASSUME NEW n, Laying(n), FitAtOnce
  PROVE  Laying(n)'
<1> DEFINE b == BudgetFor(n)
<1>1. /\ n \in Nat /\ n # 0 /\ ColumnSet = 1..n /\ Budget = b /\ b \in Nat /\ {} # 1..n
      /\ Sharing(widths, natural, fixed, n, b)
  BY LayingHas DEF Laying
<1> HIDE DEF b
<1>2. fixed = {} /\ UNCHANGED <<grid, room, natural, broken, laidOut, drawn>>
  BY DEF FitAtOnce
<1>3. CASE Budget = 0 /\ GiveTheRest(NarrowColumn)
  BY <1>1, <1>3, NothingToShare, SharingNarrows, <1>2, FitKeeps DEF GiveTheRest, b
<1>4. CASE SumOver(widths, ColumnSet) <= Budget /\ fixed' = ColumnSet /\ UNCHANGED widths
  BY <1>1, <1>4, <1>2, SharingFits, FitKeeps DEF b
<1> QED BY <1>3, <1>4 DEF FitAtOnce

LEMMA FitSomeKeeps ==
  ASSUME NEW n, Laying(n), FitSome
  PROVE  Laying(n)'
<1> DEFINE b == BudgetFor(n)
           s == Share
<1>1. /\ n \in Nat /\ n # 0 /\ ColumnSet = 1..n /\ Budget = b /\ b \in Nat
      /\ Sharing(widths, natural, fixed, n, b) /\ s = ShareOf(widths, fixed, n, b)
      /\ widths \in [1..n -> Nat] /\ fixed \in SUBSET (1..n)
  BY LayingHas DEF Laying
<1> HIDE DEF b, s
<1>2. fixed # 1..n /\ UNCHANGED <<grid, room, natural, broken, laidOut, drawn>>
      /\ ~ (SumOver(widths, 1..n) <= b)
  <2>1. SumOver(widths, 1..n) \in Nat /\ SumOver(widths, 1..n) > b
    BY <1>1, SumsExist, SumOverAll DEF FitSome
  <2> QED BY <1>1, <2>1 DEF FitSome
<1>3. s \in Nat
  BY <1>1, <1>2, SharesOut
<1>4. b \div n \in Nat /\ b \div n <= s
  BY <1>1, <1>2, EqualShares DEF Sharing
<1>5. CASE s < NarrowColumn /\ GiveTheRest(NarrowColumn)
  BY <1>1, <1>5, <1>3, <1>4, SharingNarrows, <1>2, FitKeeps DEF GiveTheRest, NarrowColumn, b
<1>6. Modest = {i \in (1..n) \ fixed : widths[i] <= s}
  BY <1>1 DEF Modest, s
<1>7. CASE s >= NarrowColumn /\ Modest = {} /\ GiveTheRest(s)
  BY <1>1, <1>7, <1>6, <1>2, SharingEnds, FitKeeps DEF GiveTheRest, b
<1>8. CASE s >= NarrowColumn /\ fixed' = fixed \union Modest /\ UNCHANGED widths
  BY <1>1, <1>2, <1>6, <1>8, SharingGoesOn, FitKeeps DEF b
<1> QED BY <1>5, <1>7, <1>8 DEF FitSome, s

-----------------------------------------------------------------------------
(* Drawing.                                                                *)

\* What is drawn, and what is broken, once the widths are settled.
LEMMA DrawKeeps ==
  ASSUME NEW n, Laying(n), fixed = 1..n, UNCHANGED <<grid, room, natural, widths, fixed>>,
         laidOut' \in Nat,
         \A e : Edges(e, widths, n) => AllEven(drawn', e, n),
         broken' # << >> => CellsFit(broken', widths, n) /\ DOMAIN broken' = 1..n
  PROVE  Laying(n)'
<1>1. BudgetFor(n)' = BudgetFor(n)
  BY DEF BudgetFor
<1>2. Sharing(widths, natural, fixed, n, BudgetFor(n))'
  BY <1>1 DEF Laying
<1>3. LikedBy(grid, natural, n)' /\ (n \in Nat \ {0} /\ grid \in Grids /\ room \in Nat)'
  BY DEF Laying, LikedBy
<1>4. \A e : Edges(e, widths, n)' => AllEven(drawn', e, n)
  BY DEF Edges
<1>5. broken' # << >> => CellsFit(broken, widths, n)' /\ DOMAIN broken' = 1..n
  BY DEF CellsFit
<1> QED BY <1>2, <1>3, <1>4, <1>5 DEF Laying

LEMMA DrawTopKeeps ==
  ASSUME NEW n, Laying(n), DrawTop
  PROVE  Laying(n)'
<1>1. n \in Nat /\ ColumnSet = 1..n /\ widths \in [1..n -> Nat]
  BY LayingHas
<1>2. fixed = 1..n /\ UNCHANGED <<grid, room, natural, widths, fixed>> /\ drawn' = Border
      /\ broken' = broken /\ laidOut' = laidOut
  BY <1>1 DEF DrawTop
<1>3. \A e : Edges(e, widths, n) => AllEven(drawn', e, n)
  BY <1>1, <1>2, BorderEven
<1>4. laidOut' \in Nat /\ (broken' # << >> => CellsFit(broken', widths, n) /\ DOMAIN broken' = 1..n)
  BY <1>2 DEF Laying
<1> QED BY <1>2, <1>3, <1>4, DrawKeeps

LEMMA DrawBottomKeeps ==
  ASSUME NEW n, Laying(n), DrawBottom
  PROVE  Laying(n)'
<1>1. n \in Nat /\ ColumnSet = 1..n /\ widths \in [1..n -> Nat] /\ grid \in Grids /\ laidOut \in Nat
  BY LayingHas DEF Laying
<1>2. UNCHANGED <<grid, room, natural, widths, fixed>> /\ drawn' = drawn \o Border
      /\ broken' = broken /\ laidOut' = laidOut + 1 /\ laidOut = Len(GridRows(grid))
  BY DEF DrawBottom
<1>3. fixed = 1..n
  BY <1>1, <1>2, GridRowsAre DEF Laying
<1>4. ASSUME NEW e, Edges(e, widths, n) PROVE AllEven(drawn', e, n)
  BY <1>1, <1>4, BorderEven, JoinedAllEven, <1>2 DEF Laying
<1>5. laidOut' \in Nat /\ (broken' # << >> => CellsFit(broken', widths, n) /\ DOMAIN broken' = 1..n)
  BY <1>1, <1>2 DEF Laying
<1> QED BY <1>2, <1>3, <1>4, <1>5, DrawKeeps

\* What a cell wraps into fits its column.
LEMMA CellWraps ==
  ASSUME NEW cell \in GridCells, NEW wide \in Nat \ {0}, CellWidth(cell) <= wide \/ wide >= 3
  PROVE  \E C : C \subseteq Letters /\ LinesFit(Wrap(cell, wide), C, wide)
<1> DEFINE C == {ch \in Letters : GlyphColumns(ch) <= wide}
<1>1. cell \in Seq(RunsOf(Letters))
  BY GridCellsAre
<1>2. CellWidth(cell) \in Nat
  BY <1>1, CellWidthHolds
<1>3. OneSpace \in C
  BY SpaceIsNoBar, NarrowGlyphs
<1>4. ASSUME NEW k \in 1..Len(cell), NEW i \in 1..Len(cell[k].text)
      PROVE  cell[k].text[i] \in C
  <2> DEFINE ch == cell[k].text[i]
  <2>1. ch \in Letters
    <3>1. cell[k] \in RunsOf(Letters)
      BY <1>1, ElementOfSeq
    <3>2. cell[k].text \in Seq(Letters)
      BY <3>1 DEF RunsOf
    <3> QED BY <3>2, ElementOfSeq
  <2>2. CASE wide >= 3
    BY GlyphsAreWide, <2>2, <2>1
  <2>3. CASE CellWidth(cell) <= wide
    BY <1>1, CellWidthHolds, GlyphsAreWide, <1>2, <2>3, <1>3, <2>1 DEF C, ch
  <2> QED BY <2>2, <2>3
<1>5. \A ch \in C : GlyphColumns(ch) <= wide
  OBVIOUS
<1>6. C \subseteq Letters
  OBVIOUS
<1> HIDE DEF C
<1>7. cell \in Seq(RunsOf(C))
  BY <1>1, <1>4, RunsOfMore
<1>8. Narrow(C, wide)
  BY <1>3, <1>5 DEF Narrow
<1>9. LinesFit(Wrap(cell, wide), C, wide)
  BY <1>7, <1>8, WrapFits
<1> QED BY <1>6, <1>9

LEMMA BreakCellsKeeps ==
  ASSUME NEW n, Laying(n), BreakCells
  PROVE  Laying(n)'
<1> DEFINE rows == GridRows(grid)
           cells == rows[laidOut + 1]
<1>1. /\ n \in Nat /\ n # 0 /\ ColumnSet = 1..n /\ widths \in [1..n -> Nat \ {0}]
      /\ grid \in Grids /\ laidOut \in Nat /\ LikedBy(grid, natural, n)
      /\ \A i \in 1..n : widths[i] = natural[i] \/ widths[i] >= 3
  BY LayingHas DEF Laying, Sharing, NarrowColumn
<1>2. /\ UNCHANGED <<grid, room, natural, widths, fixed>> /\ drawn' = drawn /\ laidOut' = laidOut
      /\ drawn # << >> /\ laidOut < Len(rows)
      /\ broken' = [i \in 1..n |-> IF CellAt(cells, i) = << >> THEN << EmptyRow >>
                                   ELSE Wrap(cells[i], widths[i])]
  BY <1>1 DEF BreakCells
<1>3. fixed = 1..n
  BY <1>2 DEF Laying
<1>4. /\ laidOut + 1 \in 1..Len(rows) /\ cells \in Seq(GridCells)
  BY <1>1, GridRowsAre, <1>2, ElementOfSeq
<1>5. ASSUME NEW i \in 1..n PROVE \E C : C \subseteq Letters /\ LinesFit(broken'[i], C, widths[i])
  BY <1>1, <1>2, EmptyRowFits, <1>4, CellAtIs, CellWraps DEF CellAt, LikedBy
<1>6. CellsFit(broken', widths, n) /\ DOMAIN broken' = 1..n
  BY <1>2, <1>5 DEF CellsFit
<1>7. laidOut' \in Nat /\ \A e : Edges(e, widths, n) => AllEven(drawn', e, n)
  BY <1>1, <1>2 DEF Laying
<1> QED BY <1>2, <1>3, <1>6, <1>7, DrawKeeps

\* One row of the tallest cell, and of the others what they have there.
RowDrawn(k, n) ==
  PutBorder(PutAll([EmptyRow EXCEPT !.src = IF k = 1 THEN SourceOf(GridRows(grid)[laidOut + 1])
                                            ELSE 0],
                   broken, widths, grid.aligns, laidOut = 0, k, [i \in 1..n |-> i]))

LEMMA DrawCellsIs ==
  ASSUME NEW n, ColumnSet = 1..n, DrawCells
  PROVE  drawn' = (drawn \o [k \in 1..Max({Len(broken[i]) : i \in 1..n}) |-> RowDrawn(k, n)])
                  \o (IF laidOut = 0 THEN Border ELSE << >>)
BY DEF DrawCells, RowDrawn, PutAll, LineAt, FoldLeft, MapThenFoldSet

LEMMA RowIsDrawn ==
  ASSUME NEW n, Laying(n), CellsFit(broken, widths, n), NEW e, Edges(e, widths, n), NEW k
  PROVE  RowEven(RowDrawn(k, n), e, n)
<1> DEFINE src == IF k = 1 THEN SourceOf(GridRows(grid)[laidOut + 1]) ELSE 0
           start == [EmptyRow EXCEPT !.src = src]
           order == [i \in 1..n |-> i]
           aligns == grid.aligns
           header == laidOut = 0
<1>1. n \in Nat /\ widths \in [1..n -> Nat]
  BY LayingHas
<1>2. HasText(start) /\ start.text = << >>
  BY DEF EmptyRow, HasText
<1>3. order = [i \in 1..n |-> i]
  OBVIOUS
<1>4. RowDrawn(k, n) = PutBorder(PutAll(start, broken, widths, aligns, header, k, order))
  BY DEF RowDrawn
<1> HIDE DEF start, order, aligns, header
<1>5. RowEven(PutBorder(PutAll(start, broken, widths, aligns, header, k, order)), e, n)
  BY <1>1, <1>2, <1>3, RowOfCells
<1> QED BY <1>4, <1>5

LEMMA DrawCellsKeeps ==
  ASSUME NEW n, Laying(n), DrawCells
  PROVE  Laying(n)'
<1> DEFINE height == Max({Len(broken[i]) : i \in 1..n})
           more == [k \in 1..height |-> RowDrawn(k, n)]
           under == IF laidOut = 0 THEN Border ELSE << >>
<1>1. /\ n \in Nat /\ n # 0 /\ ColumnSet = 1..n /\ widths \in [1..n -> Nat]
      /\ laidOut \in Nat
  BY LayingHas DEF Laying
<1>2. /\ UNCHANGED <<grid, room, natural, widths, fixed>> /\ broken # << >> /\ broken' = << >>
      /\ laidOut' = laidOut + 1
  BY DEF DrawCells
<1>3. drawn' = (drawn \o more) \o under
  BY <1>1, DrawCellsIs
<1>4. fixed = 1..n /\ CellsFit(broken, widths, n)
  BY <1>2 DEF Laying
<1>5. height \in Nat
  <2> DEFINE T == {Len(broken[i]) : i \in 1..n}
             f == [i \in 1..n |-> Len(broken[i])]
  <2>1. \A i \in 1..n : f[i] = Len(broken[i]) /\ f[i] \in Nat
    BY <1>4 DEF CellsFit, LinesFit
  <2>2. T = {f[i] : i \in 1..n}
    OBVIOUS
  <2> HIDE DEF f, T
  <2>3. PICK b \in Nat : \A i \in 1..n : f[i] <= b
    BY <1>1, <2>1, ManyAreBounded
  <2>4. T \subseteq Nat /\ T # {} /\ \A x \in T : x <= b
    <3>1. 1 \in 1..n
      BY <1>1
    <3>2. f[1] \in T
      BY <2>2, <3>1
    <3>3. \A x \in T : x \in Nat /\ x <= b
      BY <2>1, <2>2, <2>3
    <3> QED BY <3>2, <3>3
  <2>5. Max(T) \in Nat
    BY <2>3, <2>4, GreatestOfMany
  <2> QED BY <2>5 DEF T
<1> HIDE DEF height, under
<1>6. ASSUME NEW e, Edges(e, widths, n) PROVE AllEven(drawn', e, n)
  <2> DEFINE S == {RowDrawn(k, n) : k \in 1..height}
  <2>1. AllEven(more, e, n)
    <3>1. more \in [1..height -> S] /\ DOMAIN more = 1..height
      OBVIOUS
    <3>2. \A k \in 1..height : RowEven(more[k], e, n)
      BY <1>4, <1>6, RowIsDrawn
    <3> HIDE DEF more, S
    <3>3. more \in Seq(S)
      BY <1>5, <3>1, SeqDef
    <3>4. Len(more) = height
      BY <1>5, <3>1, <3>3, LenOfDomain
    <3> QED BY <3>2, <3>3, <3>4 DEF AllEven
  <2>2. AllEven(under, e, n)
    BY <1>1, <1>6, BorderEven, EvenOfNone DEF under
  <2>3. AllEven(drawn, e, n)
    BY <1>6 DEF Laying
  <2> HIDE DEF more
  <2>4. AllEven(drawn \o more, e, n)
    BY <2>1, <2>3, JoinedAllEven
  <2>5. AllEven((drawn \o more) \o under, e, n)
    BY <2>2, <2>4, JoinedAllEven
  <2> QED BY <1>3, <2>5
<1>7. laidOut' \in Nat
  BY <1>1, <1>2
<1> QED BY <1>2, <1>4, <1>6, <1>7, DrawKeeps

-----------------------------------------------------------------------------
(* What the invariant says of the table.                                   *)

\* How wide a table is: its columns, and three more for each.
LEMMA EdgesAre ==
  ASSUME NEW n \in Nat, NEW ws, NEW c, RunningSums(c, n, ws), NEW e, Edges(e, ws, n)
  PROVE  e[n] = c[n] + 3 * n
<1> DEFINE S == {m \in 0..n : e[m] = c[m] + 3 * m}
<1>1. /\ e[0] = 0 /\ c[0] = 0 /\ e \in [0..n -> Nat] /\ c \in [0..n -> Nat] /\ ws \in [1..n -> Nat]
      /\ \A i \in 1..n : e[i] = e[i - 1] + (ws[i] + 3) /\ c[i] = c[i - 1] + ws[i]
  BY DEF Edges, RunningSums
<1>2. 0 \in S
  BY <1>1
<1>3. ASSUME NEW m \in 1..n, m - 1 \in S PROVE m \in S
  BY <1>3, <1>1
<1>4. n \in S
  <2>1. n \in 0..n
    OBVIOUS
  <2> HIDE DEF S
  <2> QED BY <1>2, <1>3, <2>1, StepByStep
<1> QED BY <1>4

LEMMA EdgesExist ==
  ASSUME NEW n \in Nat, NEW ws \in [1..n -> Nat]
  PROVE  \E e : Edges(e, ws, n)
<1> DEFINE more == [i \in 1..n |-> ws[i] + 3]
<1>1. more \in [1..n -> Nat]
  OBVIOUS
<1>2. \E e : RunningSums(e, n, more)
  BY <1>1, SumsExist
<1> QED BY <1>2 DEF Edges

LEMMA ThreeEach ==
  ASSUME NEW n \in Nat, n # 0, NEW b \in Nat, b \div n >= 3
  PROVE  b # 0
<1> DEFINE q == b \div n
<1>1. q \in Nat /\ n * q <= b
  BY EqualShares
<1>2. q >= 3
  OBVIOUS
<1> HIDE DEF q
<1>3. n * q # 0
  BY <1>1, <1>2
<1>4. n * q \in Nat
  BY <1>1
<1> QED BY <1>1, <1>3, <1>4

LEMMA LayingFits ==
  ASSUME NEW n, Laying(n), drawn # << >>, Budget \div Len(widths) >= NarrowColumn,
         NEW e, Edges(e, widths, n)
  PROVE  e[n] + 1 <= room
<1> DEFINE b == BudgetFor(n)
           u == SumOver(widths, 1..n)
<1>1. /\ n \in Nat /\ n # 0 /\ Len(widths) = n /\ Budget = b /\ b \in Nat
      /\ widths \in [1..n -> Nat] /\ fixed = 1..n /\ room \in Nat
  BY LayingHas DEF Laying
<1>2. b = IF room - (n * 3 + 1) >= 0 THEN room - (n * 3 + 1) ELSE 0
  BY <1>1, BudgetForIs
<1> HIDE DEF b, u
<1>3. b \div n >= 3
  BY <1>1 DEF NarrowColumn
<1>4. b # 0
  BY <1>1, <1>3, ThreeEach
<1>5. u <= b
  BY <1>1, <1>3 DEF Laying, Sharing, NarrowColumn, b, u
<1>6. PICK c : RunningSums(c, n, widths)
  BY <1>1, SumsExist
<1>7. u = c[n] /\ c[n] \in Nat
  BY <1>1, <1>6, SumOverAll DEF u
<1>8. e[n] = c[n] + 3 * n
  BY <1>1, <1>6, EdgesAre
<1>9. 3 * n = n * 3 /\ n * 3 \in Nat
  BY <1>1
<1> DEFINE t == n * 3
<1> HIDE DEF t
<1>10. e[n] = c[n] + t /\ t \in Nat /\ b = IF room - (t + 1) >= 0 THEN room - (t + 1) ELSE 0
  BY <1>2, <1>8, <1>9 DEF t
<1> QED BY <1>1, <1>4, <1>5, <1>7, <1>10

\* StandsEven, in the words of the lemmas.
Stands ==
  LET written == {drawn[i] : i \in {k \in DOMAIN drawn : OneSpace \in ToSet(drawn[k].text)}}
  IN  /\ \A r \in DOMAIN drawn : ColumnsOf(drawn[r].text) = ColumnsOf(drawn[1].text)
      /\ \A a, b \in written : Marks(a.text) = Marks(b.text)
      /\ Budget \div Len(widths) >= NarrowColumn =>
           \A r \in DOMAIN drawn : ColumnsOf(drawn[r].text) <= room

LEMMA StandsIs == Stands => StandsEven
BY DEF Stands, StandsEven, Marks, OneSpace, Bar

LEMMA LayingStands ==
  ASSUME NEW n, Laying(n)
  PROVE  Stands
<1>1. n \in Nat /\ widths \in [1..n -> Nat]
  BY LayingHas
<1>2. PICK e : Edges(e, widths, n)
  BY <1>1, EdgesExist
<1>3. AllEven(drawn, e, n)
  BY <1>2 DEF Laying
<1>4. PICK S : drawn \in Seq(S) /\ \A k \in 1..Len(drawn) : RowEven(drawn[k], e, n)
  BY <1>3 DEF AllEven
<1>5. DOMAIN drawn = 1..Len(drawn) /\ Len(drawn) \in Nat
  BY <1>4, LenProperties
<1>6. /\ \A r \in DOMAIN drawn : ColumnsOf(drawn[r].text) = e[n] + 1
      /\ \A r \in DOMAIN drawn : OneSpace \in ToSet(drawn[r].text) => Marks(drawn[r].text) = Rails(e, n)
  BY <1>4, <1>5 DEF RowEven
<1>7. \A r \in DOMAIN drawn : 1 \in DOMAIN drawn
  BY <1>5
<1>8. ASSUME NEW r \in DOMAIN drawn PROVE ColumnsOf(drawn[r].text) = ColumnsOf(drawn[1].text)
  BY <1>6, <1>7
<1>9. ASSUME NEW r \in DOMAIN drawn, Budget \div Len(widths) >= NarrowColumn
      PROVE  ColumnsOf(drawn[r].text) <= room
  BY <1>2, <1>9, LayingFits, <1>6
<1> DEFINE written == {drawn[i] : i \in {k \in DOMAIN drawn : OneSpace \in ToSet(drawn[k].text)}}
<1>10. \A a \in written : Marks(a.text) = Rails(e, n)
  BY <1>6
<1>11. \A a, b \in written : Marks(a.text) = Marks(b.text)
  BY <1>10
<1> QED BY <1>8, <1>9, <1>11 DEF Stands

LEMMA LayingKeepsNarrow ==
  ASSUME NEW n, Laying(n)
  PROVE  NarrowKeepTheirs
<1>1. /\ n \in Nat \ {0} /\ ColumnSet = 1..n /\ Len(widths) = n /\ Budget = BudgetFor(n)
      /\ Sharing(widths, natural, fixed, n, BudgetFor(n))
  BY LayingHas DEF Laying, Sharing
<1> DEFINE b == BudgetFor(n)
<1>2. natural \in [1..n -> Nat \ {0}] /\ b \div n \in Nat
  BY <1>1, EqualShares DEF Sharing
<1> HIDE DEF b
<1>3. SUFFICES ASSUME fixed = 1..n, b \div n >= NarrowColumn, NEW i \in 1..n, natural[i] <= b \div n
               PROVE  widths[i] = natural[i]
  BY <1>1 DEF NarrowKeepTheirs, b
<1>4. widths[i] = natural[i] \/ (b \div n <= widths[i] /\ widths[i] < natural[i])
  BY <1>1, <1>3 DEF Sharing, Kept, b
<1> DEFINE q == b \div n
<1>5. q \in Nat /\ natural[i] \in Nat /\ widths[i] \in Nat
  BY <1>1, <1>2 DEF Sharing
<1> HIDE DEF q
<1> QED BY <1>3, <1>4, <1>5 DEF q

LEMMA LayingBegins == GridInit => GridInv
<1> SUFFICES ASSUME GridInit PROVE GridInv
  OBVIOUS
<1>1. /\ grid \in Grids /\ room \in Nat /\ widths = natural /\ natural = Natural(grid)
      /\ fixed = {} /\ broken = << >> /\ laidOut = 0 /\ drawn = << >>
  BY GridsAssumption DEF GridInit
<1>2. PICK n \in Nat \ {0} : LikedBy(grid, natural, n)
  BY <1>1, NaturalHolds
<1>3. natural \in [1..n -> Nat \ {0}] /\ BudgetFor(n) \in Nat
  BY <1>1, <1>2, BudgetForIs DEF LikedBy
<1>4. Sharing(widths, natural, fixed, n, BudgetFor(n))
  BY <1>1, <1>3, SharingBegins
<1>5. \A e : AllEven(drawn, e, n)
  BY <1>1, EvenOfNone
<1>6. Laying(n)
  BY <1>1, <1>2, <1>4, <1>5 DEF Laying
<1> QED BY <1>6 DEF GridInv

\* The room of every table is divided so that its narrow columns keep what they need, and
\* every table is drawn evenly in it, whatever its cells say (fit(), body_rows(), border()).
THEOREM GridsAreAlwaysEven == GridSpec => []DrawsEvenly
<1>1. GridInit => GridInv
  BY LayingBegins
<1>2. GridInv /\ [GridNext]_gridVars => GridInv'
  <2> SUFFICES ASSUME GridInv, [GridNext]_gridVars PROVE GridInv'
    OBVIOUS
  <2>1. PICK n \in Nat \ {0} : Laying(n)
    BY DEF GridInv
  <2>2. CASE FitAtOnce
    BY <2>1, <2>2, FitAtOnceKeeps DEF GridInv
  <2>3. CASE FitSome
    BY <2>1, <2>3, FitSomeKeeps DEF GridInv
  <2>4. CASE DrawTop
    BY <2>1, <2>4, DrawTopKeeps DEF GridInv
  <2>5. CASE BreakCells
    BY <2>1, <2>5, BreakCellsKeeps DEF GridInv
  <2>6. CASE DrawCells
    BY <2>1, <2>6, DrawCellsKeeps DEF GridInv
  <2>7. CASE DrawBottom
    BY <2>1, <2>7, DrawBottomKeeps DEF GridInv
  <2>8. CASE UNCHANGED gridVars
    BY <2>8 DEF GridInv, Laying, gridVars, LikedBy, Sharing, CellsFit, Edges, BudgetFor
  <2> QED BY <2>2, <2>3, <2>4, <2>5, <2>6, <2>7, <2>8 DEF GridNext
<1>3. GridInv => DrawsEvenly
  BY LayingStands, StandsIs, LayingKeepsNarrow DEF GridInv, DrawsEvenly
<1> QED BY <1>1, <1>2, <1>3, PTL DEF GridSpec

-----------------------------------------------------------------------------
(* Paragraphs (LineWrap).                                                  *)

\* No row of a paragraph is wider than its column.
RowsFit == column >= 2 => \A r \in DOMAIN laid : ColumnsOf(laid[r].text) <= column

WrapInv ==
  /\ paragraph \in Paragraphs /\ column \in WrapColumns
  /\ laid = << >> \/ laid = Wrap(paragraph, column)

LEMMA WrapInvFits == WrapInv => RowsFit
<1> SUFFICES ASSUME WrapInv, column >= 2, laid = Wrap(paragraph, column)
             PROVE  \A r \in DOMAIN laid : ColumnsOf(laid[r].text) <= column
  BY DEF WrapInv, RowsFit
<1> DEFINE C == STRING \union {OneSpace}
<1>1. paragraph \in Seq(RunsOf(STRING)) /\ column \in Nat /\ column # 0
  BY ParagraphsAssumption DEF WrapInv
<1>2. ASSUME NEW k \in 1..Len(paragraph), NEW i \in 1..Len(paragraph[k].text)
      PROVE  paragraph[k].text[i] \in C
  <2>1. paragraph[k] \in RunsOf(STRING)
    BY <1>1, ElementOfSeq
  <2>2. paragraph[k].text \in Seq(STRING)
    BY <2>1 DEF RunsOf
  <2>3. paragraph[k].text[i] \in STRING
    BY <2>2, ElementOfSeq
  <2> QED BY <2>3
<1>3. \A ch : GlyphColumns(ch) <= column
  BY <1>1, GlyphsAreWide
<1>4. OneSpace \in C
  OBVIOUS
<1> HIDE DEF C
<1>5. paragraph \in Seq(RunsOf(C))
  BY <1>1, <1>2, RunsOfMore
<1>6. Narrow(C, column)
  BY <1>1, <1>3, <1>4 DEF Narrow
<1>7. LinesFit(laid, C, column)
  BY <1>5, <1>6, WrapFits
<1> QED BY <1>7 DEF LinesFit

\* Whatever is in a paragraph, none of its rows is wider than the column it is broken for,
\* if that has room for a wide character (wrap(), split_word()).
THEOREM RowsAlwaysFit == WrapSpec => []RowsFit
<1>1. WrapInit => WrapInv
  BY DEF WrapInit, WrapInv
<1>2. WrapInv /\ [LayOut]_wrapVars => WrapInv'
  BY DEF WrapInv, LayOut, wrapVars
<1> QED BY <1>1, <1>2, WrapInvFits, PTL DEF WrapSpec
=============================================================================
