----------------------------- MODULE BlockWalk ------------------------------
(***************************************************************************)
(* The walk of render.rs over the blocks of a document: which rows it      *)
(* writes, with which markers and bars at their left and which blank rows  *)
(* between them. What a row says, and how a paragraph is broken into rows, *)
(* is left out; a document is the events of its parser, chosen one by one. *)
(***************************************************************************)
EXTENDS Integers, Sequences, SequencesExt, FiniteSets, FiniteSetsExt

CONSTANTS
  MaxDepth,   \* bound: containers inside one another
  Documented  \* bound: the kinds of blocks a document is made of, and how many

VARIABLES
  walked,     \* the rows written, and the frames, `pending_gap` and `tight`
  open,       \* the containers the walk is in, with what it keeps for each
  toc,        \* the headings, each with the row it is on
  spans,      \* the top-level blocks, each with its first row and how many it has
  nextFrame,  \* the number of the next container
  events,     \* how many there may still be
  kinds       \* the blocks and containers of this document

walkVars == <<walked, open, toc, spans, nextFrame, events, kinds>>

-----------------------------------------------------------------------------
(* Emitting.                                                               *)

\* A plausible slip: the gap is made of the same prefix as a row.
PrefixForRow(p) ==
  [i \in DOMAIN p.frames |-> [frame |-> p.frames[i].id, kind |-> p.frames[i].kind,
                              first |-> ~p.frames[i].used]]

\* The prefix of a blank row has no marker.
PrefixForGap(p) ==
  [i \in DOMAIN p.frames |-> [frame |-> p.frames[i].id, kind |-> p.frames[i].kind,
                              first |-> FALSE]]

\* flush_gap(): the frames keep their first variant.
FlushGap(p) ==
  IF p.gap
  THEN [p EXCEPT !.gap = FALSE, !.rows = Append(@, [kind |-> "gap", prefix |-> PrefixForGap(p)])]
  ELSE p

\* prefix(): the first variant of a frame that has none of it yet.
Prefix(p) ==
  [i \in DOMAIN p.frames |-> [frame |-> p.frames[i].id, kind |-> p.frames[i].kind,
                              first |-> ~p.frames[i].used]]

\* emit()
Emit(p, kind) ==
  LET q == FlushGap(p)
  IN  [q EXCEPT !.rows = Append(@, [kind |-> kind, prefix |-> Prefix(q)]),
                !.frames = [i \in DOMAIN @ |-> [@[i] EXCEPT !.used = TRUE]]]

EmitRows(p, kind, n) ==
  LET emitted[i \in 0..n] == IF i = 0 THEN p ELSE Emit(emitted[i - 1], kind)
  IN  emitted[n]

HardGap(p) == [p EXCEPT !.gap = @ \/ p.rows # << >>]
Gap(p)     == IF p.tight THEN p ELSE HardGap(p)

\* A plausible slip: what was asked for before a container is written inside it.
PushFrameInside(p, id, kind) ==
  [p EXCEPT !.frames = Append(@, [id |-> id, kind |-> kind, used |-> FALSE])]

\* push_frame(): a blank row asked for before it belongs outside.
PushFrame(p, id, kind) ==
  [FlushGap(p) EXCEPT !.frames = Append(@, [id |-> id, kind |-> kind, used |-> FALSE])]

Pop(p) == [p EXCEPT !.frames = Front(@)]

\* What a container asked for at its end is not charged to it.
PopQuietly(p) == Pop([p EXCEPT !.gap = FALSE])

-----------------------------------------------------------------------------
(* Blocks without blocks in them: block(), paragraph(), heading(),         *)
(* table(), raw_block() and code_block().                                  *)

IsBlankRow(row) == row.kind = "gap" /\ \A i \in DOMAIN row.prefix : row.prefix[i].kind # "quote"

\* A plausible slip: a block begins where the one before it ended.
SpanFromEnd(before, rows) ==
  IF Len(rows) > before THEN << [first |-> before + 1, count |-> Len(rows) - before] >> ELSE << >>

\* A block's first row may be the blank one that the block before it asked for.
Span(before, rows) ==
  LET said == {i \in (before + 1)..Len(rows) : ~IsBlankRow(rows[i])}
  IN  IF said = {} THEN << >>
      ELSE << [first |-> Min(said), count |-> Len(rows) - Min(said) + 1] >>

SpendsBlock(kind) ==
  /\ events > 0 /\ events' = events - 1
  /\ kind \in kinds

Around == IF open = << >> THEN "document" ELSE Last(open).kind

\* Whether a block may come here: anywhere but between the items of a list.
AmongBlocks == Around \notin {"list", "definitions"}

\* A tight item has its text without a paragraph around it.
InTightItem == Around = "item" /\ walked.tight

Block(kind, p) ==
  /\ AmongBlocks /\ SpendsBlock(kind)
  /\ walked' = p
  /\ spans' = IF open = << >> THEN spans \o Span(Len(walked.rows), p.rows) ELSE spans
  /\ UNCHANGED <<open, nextFrame, kinds>>

Paragraph(n) ==
  /\ ~InTightItem
  /\ Block("text", Gap(EmitRows(walked, "text", n)))
  /\ UNCHANGED toc

BareText(n) ==
  /\ InTightItem
  /\ Block("text", EmitRows(walked, "bare", n))
  /\ UNCHANGED toc

\* The row a heading begins on, taken when its frame is there and its text is not.
HeadingRow(p) == Len(p.rows) + 1 + (IF p.gap THEN 1 ELSE 0)

Heading(level, n) ==
  LET p == PushFrame(HardGap(walked), 0, "heading")
      q == Pop(EmitRows(p, "heading", n))
  IN  /\ Block("heading", HardGap(IF level <= 2 THEN Emit(q, "rule") ELSE q))
      /\ toc' = Append(toc, HeadingRow(p))

Rule  == Block("rule", HardGap(Emit(HardGap(walked), "rule"))) /\ UNCHANGED toc
Table == Block("table", HardGap(EmitRows(HardGap(walked), "table", 3))) /\ UNCHANGED toc
Html  == Block("html", HardGap(Emit(HardGap(walked), "html"))) /\ UNCHANGED toc

\* A code block; metadata is one when it is shown.  It asks for its blank rows softly.
Code(n) == Block("code", Gap(EmitRows(Gap(walked), "code", n + 2))) /\ UNCHANGED toc

-----------------------------------------------------------------------------
(* Blocks with blocks in them: block_quote(), list(),                      *)
(* footnote_definition() and definition_list().                            *)

Container(kind) == [kind |-> kind, id |-> nextFrame, before |-> Len(walked.rows), tight |-> walked.tight,
                    loose |-> FALSE, tasks |-> 0, done |-> 0]

Enter(what, p, container) ==
  /\ SpendsBlock(what) /\ Len(open) < MaxDepth
  /\ walked' = p
  /\ open' = Append(open, container)
  /\ nextFrame' = nextFrame + 1
  /\ UNCHANGED <<toc, spans, kinds>>

\* The walk is back in the container around; at the top level the block is indexed.
Leave(kind, p, around) ==
  /\ Around = kind
  /\ walked' = p
  /\ open' = around
  /\ spans' = IF Len(open) = 1 THEN spans \o Span(open[1].before, p.rows) ELSE spans
  /\ UNCHANGED <<toc, nextFrame, events, kinds>>

\* Whether something was written in the container: one with nothing in it is left out,
\* items excepted.
Said == open # << >> /\ \E i \in (Last(open).before + 1)..Len(walked.rows) : walked.rows[i].kind # "gap"

Titled(p, alert) == IF alert THEN Emit(p, "title") ELSE p

OpenQuote(alert) ==
  /\ AmongBlocks
  /\ Enter("quote", [Titled(PushFrame(HardGap(walked), nextFrame, "quote"), alert) EXCEPT !.tight = FALSE],
           Container("quote"))

CloseQuote ==
  /\ Said
  /\ Leave("quote", HardGap(PopQuietly([walked EXCEPT !.tight = Last(open).tight])), Front(open))

OpenList(loose) ==
  /\ AmongBlocks
  /\ Enter("list", Gap(walked), [Container("list") EXCEPT !.loose = loose])

OpenItem ==
  /\ Around = "list"
  /\ Enter("item", [PushFrame(walked, nextFrame, "item") EXCEPT !.tight = ~Last(open).loose],
           Container("item"))

\* The item's tick box is counted.
Counted(list, task) ==
  [list EXCEPT !.tasks = @ + (IF task = "none" THEN 0 ELSE 1),
               !.done  = @ + (IF task = "done" THEN 1 ELSE 0)]

CloseItem(task) ==
  LET list == open[Len(open) - 1]
      p    == PopQuietly([walked EXCEPT !.tight = Last(open).tight])
  IN  Leave("item", IF list.loose THEN Gap(p) ELSE p,
            Append(Front(Front(open)), Counted(list, task)))

\* task_progress(), and the blank row after the list.
CloseList ==
  /\ Said
  /\ Leave("list", Gap(IF Last(open).tasks >= 2 THEN Emit(walked, "progress") ELSE walked), Front(open))

OpenNote ==
  /\ open = << >>
  /\ Enter("note", PushFrame(HardGap(walked), nextFrame, "note"), Container("note"))

CloseNote == Said /\ Leave("note", HardGap(PopQuietly(walked)), Front(open))

OpenDefinitions ==
  /\ AmongBlocks
  /\ Enter("definition", walked, Container("definitions"))

\* A term, and the first of what is said of it.
Term ==
  /\ Around = "definitions"
  /\ Enter("definition", PushFrame(Emit(Gap(walked), "term"), nextFrame, "definition"), Container("definition"))

CloseDefinition == Said /\ Leave("definition", PopQuietly(walked), Front(open))

CloseDefinitions == Said /\ Leave("definitions", HardGap(walked), Front(open))

-----------------------------------------------------------------------------
WalkInit ==
  /\ walked = [rows |-> << >>, frames |-> << >>, gap |-> FALSE, tight |-> FALSE]
  /\ open = << >> /\ toc = << >> /\ spans = << >> /\ nextFrame = 1
  /\ \E d \in Documented : kinds = d.kinds /\ events = d.events

WalkNext ==
  \/ \E n \in 1..2 : Paragraph(n) \/ BareText(n)
  \/ \E level \in {1, 3} : Heading(level, 1)
  \/ Rule \/ Table \/ Html \/ Code(1)
  \/ \E alert \in BOOLEAN : OpenQuote(alert)
  \/ \E loose \in BOOLEAN : OpenList(loose)
  \/ OpenItem
  \/ \E task \in {"none", "todo", "done"} : CloseItem(task)
  \/ OpenNote \/ OpenDefinitions \/ Term
  \/ CloseQuote \/ CloseList \/ CloseNote \/ CloseDefinition \/ CloseDefinitions

WalkSpec == WalkInit /\ [][WalkNext]_walkVars

-----------------------------------------------------------------------------
(* Properties.                                                             *)

RowsOf(id) == {i \in DOMAIN walked.rows : \E k \in DOMAIN walked.rows[i].prefix :
                                          walked.rows[i].prefix[k].frame = id}
Marked(i, id) == \E k \in DOMAIN walked.rows[i].prefix :
                   walked.rows[i].prefix[k].frame = id /\ walked.rows[i].prefix[k].first
IsGap(i) == walked.rows[i].kind = "gap"

\* A container's marker is on the first row that says something in it and on no other:
\* no blank row eats it and no continuation repeats it, whatever is nested in what
\* (prefix(), flush_gap()).
MarkedOnce ==
  \A id \in 1..(nextFrame - 1) :
    LET said == {i \in RowsOf(id) : ~IsGap(i)}
    IN  \A i \in RowsOf(id) : Marked(i, id) <=> (said # {} /\ i = Min(said))

\* The rows of a container are all together, and one that begins with a paragraph begins
\* with its words: the blank row asked for above it stays above it, without its bar
\* (push_frame(), flush_gap()).
BarsStayInside ==
  \A id \in 1..(nextFrame - 1) :
    LET own  == RowsOf(id)
        said == {i \in own : ~IsGap(i)}
        head == walked.rows[Min(said)]
    IN  /\ own # {} => own = Min(own)..Max(own)
        /\ said # {} /\ head.kind \in {"text", "bare"} /\ Last(head.prefix).frame = id =>
             Min(own) = Min(said)

\* The blocks a reader can be in are all the rows there are but the blank ones between
\* them, each row in one of them, and the table of contents has the rows the headings
\* begin on (render(), heading()).
IndexesAgree ==
  LET rows(s) == s.first..(s.first + s.count - 1)
  IN  /\ \A a, b \in DOMAIN spans : a < b =>
           spans[a].first + spans[a].count <= spans[b].first
      /\ open = << >> =>
           \A i \in DOMAIN walked.rows :
             (\E k \in DOMAIN spans : i \in rows(spans[k])) \/ IsBlankRow(walked.rows[i])
      /\ \A k \in DOMAIN spans : ~IsBlankRow(walked.rows[spans[k].first])
      /\ \A k \in DOMAIN toc : walked.rows[toc[k]].kind = "heading"

\* Whatever is nested in what, each row has its own container's marker and bars and is
\* counted once in the indexes the editor navigates by (render()).
RowsKnowTheirBlocks == MarkedOnce /\ BarsStayInside /\ IndexesAgree
=============================================================================
