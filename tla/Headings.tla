------------------------------ MODULE Headings ------------------------------
(***************************************************************************)
(* Headings of a Markdown source and the two edits that move them:         *)
(* shift_headings() of the daemon's edit.rs, the sections of its           *)
(* outline.rs, and the folds the editor builds.                            *)
(*                                                                         *)
(* A line is what these tell apart: text, a blank, a setext rule of "=" or *)
(* "-", or an ATX heading. A text or an ATX heading may stand behind a     *)
(* list marker (`bullet`), which is no container character to edit.rs.     *)
(* What the parser sees in the lines is external: CommonMark's rules for   *)
(* them.                                                                   *)
(***************************************************************************)
EXTENDS Integers, Sequences, SequencesExt, FiniteSets, FiniteSetsExt, Ordering

CONSTANT Sayings  \* what a line may say

ASSUME SayingsAssumption == "" \in Sayings

Line == [kind : {"text", "blank", "rule", "atx"}, text : Sayings, level : 0..6, bullet : BOOLEAN]

Text(t)     == [kind |-> "text", text |-> t, level |-> 0, bullet |-> FALSE]
Blank       == [kind |-> "blank", text |-> "", level |-> 0, bullet |-> FALSE]
RuleLine(level) == [kind |-> "rule", text |-> "", level |-> level, bullet |-> FALSE]
Atx(level, t) == [kind |-> "atx", text |-> t, level |-> level, bullet |-> FALSE]
Behind(line)  == [line EXCEPT !.bullet = TRUE]

Lowest(S) == CHOOSE x \in S : \A y \in S : x <= y

-----------------------------------------------------------------------------
(* What the parser finds.                                                  *)

\* The first line of the paragraph that line i is in.
ParagraphStart(ls, i) ==
  Lowest({j \in 1..i : /\ \A k \in j..i : ls[k].kind = "text"
                       /\ \A k \in (j + 1)..i : ~ls[k].bullet})

Underlines(ls, i) == ls[i].kind = "rule" /\ i > 1 /\ ls[i - 1].kind = "text"

\* The headings, each with its level and its first and last line.
HeadingsOf(ls) ==
  {[level |-> ls[i].level, src |-> i, last |-> i] :
      i \in {i \in DOMAIN ls : ls[i].kind = "atx"}}
  \union
  {[level |-> ls[i].level, src |-> ParagraphStart(ls, i - 1), last |-> i] :
      i \in {i \in DOMAIN ls : Underlines(ls, i)}}

InOrder(headings) == Sorted(headings, LAMBDA g, h : g.src < h.src)

-----------------------------------------------------------------------------
(* edit.rs.                                                                *)

\* selected(): the headings inside a range the user drew; for one line, the heading at
\* or above it and everything nested under that.
Selected(all, from, to) ==
  LET above == {h \in all : h.src <= from}
      top   == CHOOSE h \in above : \A g \in above : g.src <= h.src
  IN  IF from # to THEN {h \in all : from <= h.src /\ h.src <= to}
      ELSE IF above = {} THEN {}
      ELSE {top} \union {h \in all : /\ top.src < h.src
                                     /\ \A g \in all : (top.src < g.src /\ g.src <= h.src)
                                                       => g.level > top.level}

Setext(h) == h.last # h.src

\* Past H1 or H6; or below H2, and several lines would have to become one.
Refuses(h, want) == want \notin 1..6 \/ (Setext(h) /\ want > 2 /\ h.last # h.src + 1)

Replacement(from, to, lines) == [from |-> from, to |-> to, lines |-> lines]

\* A `#` run is put where the line is taken to begin, behind quote marks and blanks;
\* a line that begins with a list marker has no run there, and becomes text.
Hashed(line, want) ==
  IF line.bullet THEN [kind |-> "text", text |-> line.text, level |-> want, bullet |-> FALSE]
  ELSE Atx(want, line.text)

\* The edit that gives one heading the level it should have.
Shifted(ls, h, want) ==
  IF ~Setext(h) THEN Replacement(h.src, h.src, << Hashed(ls[h.src], want) >>)
  ELSE IF want <= 2 THEN Replacement(h.last, h.last, << RuleLine(want) >>)
  ELSE Replacement(h.src, h.last, << Atx(want, ls[h.src].text) >>)

\* shift_headings(): refused whole, or the edits.
ShiftHeadings(ls, from, to, delta) ==
  LET chosen == Selected(HeadingsOf(ls), from, to)
  IN  IF \E h \in chosen : Refuses(h, h.level + delta)
      THEN [refused |-> TRUE, edits |-> {}]
      ELSE [refused |-> FALSE,
            edits   |-> {Shifted(ls, h, h.level + delta) : h \in chosen}]

-----------------------------------------------------------------------------
(* The editor makes the edits: OnEditReply() and ReplaceRange().           *)

ReplaceRange(ls, e) == SubSeq(ls, 1, e.from - 1) \o e.lines \o SubSeq(ls, e.to + 1, Len(ls))

\* One edit after the other.
MadeOf(ls, es) ==
  LET text[n \in 0..Len(es)] == IF n = 0 THEN ls ELSE ReplaceRange(text[n - 1], es[n])
  IN  text[Len(es)]

\* A plausible slip: the edits are made in the order they come.
MadeTopDown(ls, edits) == MadeOf(ls, Sorted(edits, LAMBDA d, e : d.from < e.from))

\* Bottom up, so that none moves the lines another one names.
Made(ls, edits) == MadeOf(ls, Sorted(edits, LAMBDA d, e : d.from > e.from))

-----------------------------------------------------------------------------
(* outline.rs, lint.rs and BuildFolds().                                   *)

\* A section ends before the next heading that is no deeper.
EndOfSection(ls, h) ==
  LET after == {g.src : g \in {g \in HeadingsOf(ls) : g.src > h.src /\ g.level <= h.level}}
  IN  IF after = {} THEN Len(ls) ELSE Lowest(after) - 1

\* outline(): every heading with the lines of its section.
Outline(ls) ==
  LET hs == InOrder(HeadingsOf(ls))
  IN  [i \in DOMAIN hs |-> [level |-> hs[i].level, src |-> hs[i].src,
                            end |-> EndOfSection(ls, hs[i])]]

NoFold == [level |-> 0, opens |-> FALSE]

\* One answer of foldexpr per line: each section written over the one around it.
BuildFolds(entries, count) ==
  LET Overwrite(folds, e) ==
        [i \in 1..count |-> IF i < e.src \/ i > e.end THEN folds[i]
                            ELSE [level |-> e.level, opens |-> i = e.src]]
      layers[n \in 0..Len(entries)] ==
        IF n = 0 THEN [i \in 1..count |-> NoFold] ELSE Overwrite(layers[n - 1], entries[n])
  IN  layers[Len(entries)]

-----------------------------------------------------------------------------
(* What the properties speak of.                                           *)

\* A document as its reader has it: its lines, a heading being one of them whatever
\* it is written with.
Content(ls) ==
  LET hs     == HeadingsOf(ls)
      kept   == {i \in DOMAIN ls : \A h \in hs : ~(h.src < i /\ i <= h.last)}
      places == Sorted(kept, LAMBDA i, j : i < j)
      said(i) ==
        IF \E h \in hs : h.src = i
        THEN LET h == CHOOSE h \in hs : h.src = i
             IN  [level |-> h.level, bullet |-> ls[i].bullet,
                  text  |-> [k \in 0..(IF Setext(h) THEN h.last - h.src - 1 ELSE 0) |->
                               ls[h.src + k].text]]
        ELSE [level |-> 0, bullet |-> ls[i].bullet, text |-> [k \in {0} |-> ls[i].text]]
  IN  [k \in DOMAIN places |-> said(places[k])]

\* What a shift of some lines is for: the same document, with the headings that are
\* meant one level up or down.  A heading is meant when it begins in the range, or,
\* for one line, when that line is in its section or its section is inside the one
\* that the line's own heading has.
Means(ls, from, to, h) ==
  IF from # to THEN from <= h.src /\ h.src <= to
  ELSE \E top \in HeadingsOf(ls) :
         /\ top.src <= from
         /\ \A g \in HeadingsOf(ls) : g.src <= from => g.src <= top.src
         /\ top.src <= h.src /\ h.src <= EndOfSection(ls, top)

ContentShifted(ls, from, to, delta) ==
  LET hs     == HeadingsOf(ls)
      kept   == {i \in DOMAIN ls : \A h \in hs : ~(h.src < i /\ i <= h.last)}
      places == Sorted(kept, LAMBDA i, j : i < j)
  IN  [k \in DOMAIN places |->
         IF \E h \in hs : h.src = places[k] /\ Means(ls, from, to, h)
         THEN [Content(ls)[k] EXCEPT !.level = @ + delta] ELSE Content(ls)[k]]

\* The fold of a line: the level of the last heading at or above it.
FoldMeant(ls, i) ==
  LET above == {h \in HeadingsOf(ls) : h.src <= i}
      near  == CHOOSE h \in above : \A g \in above : g.src <= h.src
  IN  IF above = {} THEN NoFold ELSE [level |-> near.level, opens |-> near.src = i]
=============================================================================
