------------------------------ MODULE LineWrap ------------------------------
(***************************************************************************)
(* The line breaker of inline.rs: runs of styled text in, rows no wider    *)
(* than the column out, each with the bytes its styles and links cover.    *)
(*                                                                         *)
(* A run is [text, base, flags, href, src]: its characters, the class laid *)
(* over it (one or none), the classes of its emphasis, its link (one or    *)
(* none) and its source line. A character is " ", "break" (HARD_BREAK),    *)
(* "W" (two columns and three bytes, as a Chinese one is), "|" (one        *)
(* column, three bytes) or any other, of one column and one byte.          *)
(***************************************************************************)
EXTENDS Integers, Sequences, SequencesExt, FiniteSets, FiniteSetsExt

CONSTANTS
  Paragraphs,  \* the paragraphs, each a sequence of runs
  WrapColumns  \* how wide the column may be, 0 for not wrapped

\* Runs of text that some characters make up.
RunsOf(C) == [text : Seq(C), base : Seq(STRING), flags : Seq(STRING), href : Seq(STRING), src : Nat]

\* A paragraph is made of runs, and a column has a width.
ASSUME ParagraphsAssumption ==
  Paragraphs \subseteq Seq(RunsOf(STRING)) /\ WrapColumns \subseteq Nat

VARIABLES
  paragraph,  \* what is laid out
  column,     \* how wide it may be
  laid        \* the rows, none before wrap() has run

wrapVars == <<paragraph, column, laid>>

GlyphColumns(ch) == IF ch = "W" THEN 2 ELSE 1
GlyphBytes(ch)   == IF ch \in {"W", "|"} THEN 3 ELSE 1
ColumnsOf(s)     == FoldLeft(LAMBDA n, ch : n + GlyphColumns(ch), 0, s)
BytesOf(s)       == FoldLeft(LAMBDA n, ch : n + GlyphBytes(ch), 0, s)
PiecesWidth(ps)  == FoldLeft(LAMBDA n, p : n + ColumnsOf(p.text), 0, ps)

IsSpace(ch) == ch \in {" ", "break"}

\* Style::classes()
ClassesOf(run) == run.base \o run.flags

Bank(w, run)   == IF w.buffer = << >> THEN w
                  ELSE [w EXCEPT !.word = Append(@, [run EXCEPT !.text = w.buffer]), !.buffer = << >>]
EndWord(w)     == IF w.word = << >> THEN w
                  ELSE [w EXCEPT !.tokens = Append(@, [is |-> "word", word |-> w.word]), !.word = << >>]
AddToken(w, ch) == [w EXCEPT !.tokens = Append(@, [is |-> ch, word |-> << >>])]

\* One character of tokenize().  A wide one is a place to break.
Tokenized(w, run, ch) ==
  LET read == [w EXCEPT !.buffer = Append(@, ch)]
  IN  IF IsSpace(ch) THEN AddToken(EndWord(Bank(w, run)), ch)
      ELSE IF GlyphColumns(ch) >= 2 THEN EndWord(Bank(read, run))
      ELSE read

TokenizeRun(w, run) ==
  Bank(FoldLeft(LAMBDA v, ch : Tokenized(v, run, ch), w, run.text), run)

Tokens(runs) ==
  EndWord(FoldLeft(TokenizeRun, [tokens |-> << >>, word |-> << >>, buffer |-> << >>], runs)).tokens

\* A plausible slip: a chunk ends after the character that overflows it.
ChunkFullAfter(c, wide) == c.width > c.room /\ c.width > 0

ChunkFull(c, wide) == c.width + wide > c.room /\ (c.width > 0 \/ c.chunk # << >>)

BankChunk(c, run) ==
  IF c.buffer = << >> THEN c
  ELSE [c EXCEPT !.chunk = Append(@, [run EXCEPT !.text = c.buffer]), !.buffer = << >>]

\* One character of split_word().
Split(c, run, ch, avail) ==
  LET full  == BankChunk(c, run)
      fresh == IF ChunkFull(c, GlyphColumns(ch))
               THEN [full EXCEPT !.chunks = Append(@, full.chunk), !.chunk = << >>,
                                 !.room = Max({avail, 1}), !.width = 0]
               ELSE c
  IN  [fresh EXCEPT !.buffer = Append(@, ch), !.width = @ + GlyphColumns(ch)]

SplitRun(c, run, avail) ==
  BankChunk(FoldLeft(LAMBDA d, ch : Split(d, run, ch, avail), c, run.text), run)

Chunks(word, avail, used) ==
  LET c == FoldLeft(LAMBDA d, run : SplitRun(d, run, avail),
                    [chunks |-> << >>, chunk |-> << >>, buffer |-> << >>, width |-> 0,
                     room |-> Max({avail - used, 1})], word)
  IN  IF c.chunk = << >> THEN c.chunks ELSE Append(c.chunks, c.chunk)

\* Finishing a row: it starts again, `width` with it.
EndRow(w) == [w EXCEPT !.rows = Append(@, w.row), !.row = << >>, !.width = 0]

Put(w, pieces) == [w EXCEPT !.row = @ \o pieces, !.width = @ + PiecesWidth(pieces)]

PutChunk(w, chunk, avail) ==
  Put(IF w.width + PiecesWidth(chunk) > avail /\ w.row # << >> THEN EndRow(w) ELSE w, chunk)

\* A plausible slip: the space before a word is written whether or not there was one.
PutSpaceAlways(w, word) ==
  IF w.row = << >> THEN w
  ELSE [Put(w, << [word[1] EXCEPT !.text = << " " >>, !.base = << >>, !.href = << >>, !.src = 0] >>)
          EXCEPT !.space = FALSE]

\* The space that was read before a word, in the style of the word but for its base.
PutSpace(w, word) ==
  IF ~w.space THEN w
  ELSE [Put(w, << [word[1] EXCEPT !.text = << " " >>, !.base = << >>, !.href = << >>, !.src = 0] >>)
          EXCEPT !.space = FALSE]

PutWord(w, word, avail) ==
  LET wide   == PiecesWidth(word)
      fits   == avail = 0 \/ w.width + (IF w.space THEN 1 ELSE 0) + wide <= avail
      fresh  == IF ~fits /\ w.row # << >> THEN [EndRow(w) EXCEPT !.space = FALSE] ELSE w
      spaced == PutSpace(fresh, word)
  IN  IF avail > 0 /\ wide > avail
      THEN FoldLeft(LAMBDA v, chunk : PutChunk(v, chunk, avail), spaced,
                    Chunks(word, avail, spaced.width))
      ELSE Put(spaced, word)

Wrapping(w, token, avail) ==
  CASE token.is = "break" -> [EndRow(w) EXCEPT !.space = FALSE]
    [] token.is = " "     -> [w EXCEPT !.space = (w.row # << >>)]
    [] OTHER              -> PutWord(w, token.word, avail)

\* clamp(): what would run past the end of a row is dropped or shortened.
Clamp(props, length) ==
  LET inside == SelectSeq(props, LAMBDA p : p.col <= length)
  IN  SelectSeq([i \in DOMAIN inside |->
                   [inside[i] EXCEPT !.len = Min({@, length + 1 - inside[i].col})]],
                LAMBDA p : p.len > 0)

\* push_prop(), and what finish() does for links.
PushProp(props, col, len, is) ==
  IF props # << >> /\ Last(props).is = is /\ Last(props).col + Last(props).len = col
  THEN [props EXCEPT ![Len(props)].len = @ + len]
  ELSE Append(props, [col |-> col, len |-> len, is |-> is])

\* A plausible slip: columns are counted in characters.
StartOfGlyphs(row) == Len(row.text) + 1

\* Where the next piece starts, in bytes.
StartOf(row) == BytesOf(row.text) + 1

FinishPiece(row, p) ==
  LET push(props, is) == PushProp(props, StartOf(row), BytesOf(p.text), is)
  IN  [text  |-> row.text \o p.text,
       props |-> FoldLeft(push, row.props, ClassesOf(p)),
       links |-> FoldLeft(push, row.links, p.href),
       src   |-> IF row.src = 0 THEN p.src ELSE row.src]

EmptyRow == [text |-> << >>, props |-> << >>, links |-> << >>, src |-> 0]

\* finish() and trim_end()
FinishRow(pieces) ==
  LET row  == FoldLeft(FinishPiece, EmptyRow, pieces)
      kept == SubSeq(row.text, 1, Max({0} \union {i \in DOMAIN row.text : row.text[i] # " "}))
  IN  [row EXCEPT !.text = kept, !.props = Clamp(@, BytesOf(kept)), !.links = Clamp(@, BytesOf(kept))]

\* wrap()
Wrap(runs, avail) ==
  LET w    == FoldLeft(LAMBDA v, token : Wrapping(v, token, avail),
                       [rows |-> << >>, row |-> << >>, width |-> 0, space |-> FALSE], Tokens(runs))
      rows == IF w.row = << >> THEN w.rows ELSE Append(w.rows, w.row)
  IN  IF rows = << >> THEN << EmptyRow >> ELSE [i \in DOMAIN rows |-> FinishRow(rows[i])]

WrapInit == paragraph \in Paragraphs /\ column \in WrapColumns /\ laid = << >>

LayOut ==
  /\ laid = << >> /\ laid' = Wrap(paragraph, column)
  /\ UNCHANGED <<paragraph, column>>

WrapSpec == WrapInit /\ [][LayOut]_wrapVars

-----------------------------------------------------------------------------
(* Properties.                                                             *)

\* The characters of runs, each with its run; those that show; and the place in the
\* source of the n-th of them.
GlyphsOf(runs) ==
  FoldLeft(LAMBDA s, run : s \o [i \in DOMAIN run.text |-> [run EXCEPT !.text = run.text[i]]],
           << >>, runs)
Shown(s) == SelectSeq(s, LAMBDA g : ~IsSpace(g.text))

\* The characters of the rows, each with its row, the bytes where it starts and whether
\* a space stands before it.
OnPage(rows) ==
  FoldLeft(LAMBDA s, r :
             s \o SelectSeq([i \in DOMAIN rows[r].text |->
                               [ch |-> rows[r].text[i], row |-> r,
                                at |-> BytesOf(SubSeq(rows[r].text, 1, i - 1)) + 1,
                                apart |-> i > 1 /\ rows[r].text[i - 1] = " "]],
                            LAMBDA g : g.ch # " "),
           << >>, [r \in DOMAIN rows |-> r])

\* What is between the n-th character that shows and the one after it.
Between(source, n) ==
  LET shown == {i \in DOMAIN source : ~IsSpace(source[i].text)}
      ith(k) == CHOOSE i \in shown : Cardinality({j \in shown : j <= i}) = k
  IN  {source[i].text : i \in (ith(n) + 1)..(ith(n + 1) - 1)}

\* Every character is on the page, once, in order.  Two are apart on a row exactly if
\* there was a space between them; they are on different rows if there was a break, and
\* otherwise only where the column leaves no choice: at a space, beside a wide one, or
\* in a word wider than the column (wrap(), tokenize(), split_word()).
ReadsTheSame ==
  laid # << >> =>
    LET source == GlyphsOf(paragraph)
        shown  == Shown(source)
        page   == OnPage(laid)
        wordOf(n) == {k \in DOMAIN shown : \A m \in Min({k, n})..(Max({k, n}) - 1) :
                                             Between(source, m) = {}}
    IN  /\ Len(page) = Len(shown)
        /\ \A n \in DOMAIN page : page[n].ch = shown[n].text
        /\ \A n \in 1..(Len(page) - 1) :
             LET gap == Between(source, n)
             IN  /\ page[n].row = page[n + 1].row =>
                      (page[n + 1].apart <=> gap # {}) /\ "break" \notin gap
                 /\ page[n].row # page[n + 1].row /\ gap = {} =>
                      /\ column > 0
                      /\ \/ "W" \in {page[n].ch, page[n + 1].ch}
                         \/ ColumnsOf([k \in 1..Cardinality(wordOf(n)) |-> "x"]) > column

\* No row is wider than the column, unless one character is; none begins or ends in a
\* space (wrap(), split_word()).
FitsTheColumn ==
  \A r \in DOMAIN laid :
    LET text == laid[r].text
    IN  /\ column = 0 \/ ColumnsOf(text) <= column \/ Len(text) = 1
        /\ text # << >> => Head(text) # " " /\ Last(text) # " "

Covered(props, byte) == {props[i].is : i \in {k \in DOMAIN props :
                           props[k].col <= byte /\ byte < props[k].col + props[k].len}}

\* What is styled on the page is what was styled in the text: each byte of a character
\* is in the spans of its own classes and of its own link, in no other, and no span
\* goes past its row (finish(), push_prop(), clamp()).
StylesStayOn ==
  laid # << >> =>
    LET shown == Shown(GlyphsOf(paragraph))
        page  == OnPage(laid)
    IN  /\ \A n \in DOMAIN page, b \in 0..2 : b < GlyphBytes(page[n].ch) =>
             /\ Covered(laid[page[n].row].props, page[n].at + b) = ToSet(ClassesOf(shown[n]))
             /\ Covered(laid[page[n].row].links, page[n].at + b) = ToSet(shown[n].href)
        /\ \A r \in DOMAIN laid : \A i \in DOMAIN laid[r].props :
             laid[r].props[i].col + laid[r].props[i].len <= BytesOf(laid[r].text) + 1

\* A paragraph that was broken says what it said, in the room there is and in the styles
\* it had (wrap(), finish()).
WrapsAsWritten == ReadsTheSame /\ FitsTheColumn /\ StylesStayOn
=============================================================================
