------------------------------ MODULE HtmlWalk ------------------------------
(***************************************************************************)
(* The walk of html.rs over a document: the elements it writes for the     *)
(* page of the browser preview, the source lines it marks them with, the   *)
(* footnotes it gathers at the end, and the index of blocks that edits are *)
(* pushed by.                                                              *)
(*                                                                         *)
(* A document is the events of its parser, chosen one by one. What is      *)
(* written is a sequence of opening tags, closing tags, and what has no    *)
(* children.                                                               *)
(***************************************************************************)
EXTENDS Integers, Sequences, SequencesExt, FiniteSets, FiniteSetsExt

CONSTANTS
  HtmlDepth,      \* bound: containers inside one another
  HtmlDocuments,  \* bound: the sorts of events a document is made of, and how many
  Labels,         \* the labels of footnotes
  RawBlocks,      \* what an HTML block may hold
  RawInlines      \* what HTML in a line may hold

VARIABLES
  markup,     \* what is written, and what of the document's own HTML has gone out
  within,     \* the containers the walk is in, with what a capture has set aside
  footnotes,  \* `notes`: each label with its definition, in order of appearance
  pieces,     \* `blocks`: the top-level blocks written, each with its line
  line,       \* the source line of the next event
  htmlEnded,  \* whether the walk is over
  htmlLeft,   \* how many events there may still be
  sorts       \* the events of this document

htmlVars == <<markup, within, footnotes, pieces, line, htmlEnded, htmlLeft, sorts>>

-----------------------------------------------------------------------------
(* Writing.                                                                *)

Tag(name, at)    == << [is |-> "open", name |-> name, line |-> at, id |-> << >>, to |-> << >>] >>
EndTag(name)     == << [is |-> "close", name |-> name, line |-> 0, id |-> << >>, to |-> << >>] >>
Alone(name, at)  == << [is |-> "alone", name |-> name, line |-> at, id |-> << >>, to |-> << >>] >>
Element(name, at, inner) == Tag(name, at) \o inner \o EndTag(name)
Words            == Alone("words", 0)
WithId(tag, id)  == << [tag[1] EXCEPT !.id = id] >>
LinkTo(to, inner) == << [Tag("a", 0)[1] EXCEPT !.to = to] >> \o inner \o EndTag("a")

WriteMarkup(items) == [markup EXCEPT !.out = @ \o items]

Within == IF within = << >> THEN "document" ELSE Last(within).kind

\* capture(): the text of a heading and of a note is written apart, and what was written
\* before it is held until it ends.
Held(kind) == IF kind \in {"h", "note"} THEN markup.out ELSE << >>
SetAside   == [markup EXCEPT !.out = << >>]
TakeBack   == [markup EXCEPT !.out = Last(within).held]

\* The index of a top-level block, unless it wrote nothing.
Indexed(from, at, m) ==
  IF Len(m.out) > from THEN << [first |-> from + 1, last |-> Len(m.out), line |-> at] >> ELSE << >>

SpendsEvent(sort) == ~htmlEnded /\ htmlLeft > 0 /\ htmlLeft' = htmlLeft - 1 /\ sort \in sorts

\* Whether a block may come here, and whether an inline may: a tight item has its text
\* without a paragraph.
BlockHere  == Within \in {"document", "blockquote", "li", "dd", "note"}
InlineHere == Within \in {"p", "li", "dt", "h"}

-----------------------------------------------------------------------------
(* Blocks without blocks in them.                                          *)

Leaf(sort, items, raw) ==
  /\ BlockHere /\ SpendsEvent(sort)
  /\ markup' = [WriteMarkup(items) EXCEPT !.raw = @ \union raw]
  /\ pieces' = IF within = << >>
               THEN pieces \o Indexed(Len(markup.out), line, markup') ELSE pieces
  /\ line' = line + 1
  /\ UNCHANGED <<within, footnotes, htmlEnded, sorts>>

HtmlRule    == Leaf("rule", Alone("hr", line), {})
HtmlMath    == Leaf("math", Element("div", line, Words), {})
HtmlCode    == Leaf("code", Element("figure", line, Element("figcaption", 0, Words)
                                                    \o Element("pre", 0, Words)), {})
HtmlMetadata(shown) ==
  Leaf("metadata", IF shown THEN Element("details", line, Words) ELSE << >>, {})
HtmlTable(body) ==
  LET head == Element("thead", 0, Element("tr", 0, Element("th", 0, Words)))
      rows == Element("tbody", 0, Element("tr", 0, Element("td", 0, Words)))
  IN  Leaf("table", Element("div", line, Element("table", 0,
                      head \o (IF body THEN rows ELSE << >>))), {})

\* An HTML block goes out as it is, and that it did is remembered.
HtmlRaw == \E raw \in RawBlocks : Leaf("html", raw, {"block"})

-----------------------------------------------------------------------------
(* Blocks with others in them, and paragraphs.                             *)

EnterElement(sort, kind, m, label) ==
  /\ SpendsEvent(sort) /\ Len(within) < HtmlDepth
  /\ within' = Append(within, [kind |-> kind, from |-> Len(markup.out), line |-> line,
                               label |-> label, held |-> Held(kind)])
  /\ markup' = m
  /\ line' = line + 1
  /\ UNCHANGED <<footnotes, pieces, htmlEnded, sorts>>

\* The walk is back around the container; at the top level the block is indexed.
LeaveElement(kind, m) ==
  /\ ~htmlEnded /\ Within = kind
  /\ markup' = m
  /\ within' = Front(within)
  /\ pieces' = IF Len(within) = 1
               THEN pieces \o Indexed(within[1].from, within[1].line, m) ELSE pieces
  /\ UNCHANGED <<line, htmlEnded, htmlLeft, sorts>>

StartParagraph == BlockHere /\ EnterElement("p", "p", WriteMarkup(Tag("p", line)), "")
StartQuote(alert) ==
  BlockHere /\ EnterElement("blockquote", "blockquote",
                 WriteMarkup(Tag("blockquote", line)
                       \o IF alert THEN Element("p", 0, Words) ELSE << >>), "")
StartList == BlockHere /\ EnterElement("list", "list", WriteMarkup(Tag("list", line)), "")
StartItem(task) ==
  Within = "list" /\ EnterElement("list", "li",
                       WriteMarkup(Tag("li", line)
                             \o IF task THEN Alone("input", 0) ELSE << >>), "")
StartDefinitions == BlockHere /\ EnterElement("dl", "dl", WriteMarkup(Tag("dl", line)), "")
StartTerm       == Within = "dl" /\ EnterElement("dl", "dt", WriteMarkup(Tag("dt", 0)), "")
StartDefinition == Within = "dl" /\ EnterElement("dl", "dd", WriteMarkup(Tag("dd", 0)), "")

\* Only quotes and items may have nothing in them.
EndElement(kind) ==
  /\ kind \in {"blockquote", "li"} \/ (within # << >> /\ Len(markup.out) > Last(within).from + 1)
  /\ LeaveElement(kind, WriteMarkup(EndTag(kind)))
  /\ UNCHANGED footnotes

\* A heading's text is captured, and placed in the heading with its anchor after it.
StartHeading == BlockHere /\ EnterElement("h", "h", SetAside, "")

EndHeading ==
  /\ Within = "h" /\ markup.out # << >>
  /\ LeaveElement("h", [TakeBack EXCEPT !.out = @ \o Element("h", Last(within).line,
                                                     markup.out \o Element("a", 0, << >>))])
  /\ UNCHANGED footnotes

-----------------------------------------------------------------------------
(* Footnotes.                                                              *)

Known(label) == \E i \in DOMAIN footnotes : footnotes[i].label = label

\* note_number(): a label's place in the order of appearance, and the labels with it.
Noted(label) == IF Known(label) THEN footnotes
                ELSE Append(footnotes, [label |-> label, html |-> << >>, defined |-> FALSE,
                                        refs |-> 0])
NoteNumber(label) == CHOOSE i \in DOMAIN Noted(label) : Noted(label)[i].label = label

\* A plausible slip: what is moved keeps its source lines.
NotStripped(html) == html

\* strip_source_lines()
StripSourceLines(html) == [i \in DOMAIN html |-> [html[i] EXCEPT !.line = 0]]

\* A label is defined once in a document.
StartNote(label) ==
  /\ BlockHere
  /\ \A i \in DOMAIN footnotes : footnotes[i].label = label => ~footnotes[i].defined
  /\ \A i \in DOMAIN within : within[i].label # label
  /\ EnterElement("note", "note", SetAside, label)

EndNote ==
  /\ Within = "note" /\ markup.out # << >>
  /\ LeaveElement("note", TakeBack)
  /\ LET label == Last(within).label
     IN  footnotes' = [Noted(label) EXCEPT ![NoteNumber(label)] =
                         [@ EXCEPT !.html = StripSourceLines(markup.out), !.defined = TRUE]]

\* A plausible slip: every reference is a place to come back to.
CarriesIdAlways(refs) == refs >= 0

\* Only the first reference has the id that the note leads back to.
CarriesId(refs) == refs = 0

FootnoteReference(label) ==
  /\ InlineHere /\ SpendsEvent("ref")
  /\ LET number == NoteNumber(label)
         sup    == IF CarriesId(Noted(label)[number].refs)
                   THEN WithId(Tag("sup", 0), <<"fnref", number>>) ELSE Tag("sup", 0)
     IN  /\ markup' = WriteMarkup(sup \o LinkTo(<<"fn", number>>, Words) \o EndTag("sup"))
         /\ footnotes' = [Noted(label) EXCEPT ![number].refs = @ + 1]
  /\ UNCHANGED <<within, pieces, line, htmlEnded, sorts>>

\* footnote_section(): the link back goes into the note's last paragraph, if it ends
\* in one.
NoteItem(i) ==
  LET back == LinkTo(<<"fnref", i>>, Words)
      body == footnotes[i].html
      filled == IF body # << >> /\ Last(body) = EndTag("p")[1]
                THEN Front(body) \o back \o EndTag("p") ELSE body \o back
  IN  WithId(Tag("li", 0), <<"fn", i>>) \o filled \o EndTag("li")

NoteItems ==
  LET items[n \in 0..Len(footnotes)] ==
        IF n = 0 THEN << >>
        ELSE items[n - 1] \o IF footnotes[n].defined THEN NoteItem(n) ELSE << >>
  IN  items[Len(footnotes)]

FootnoteSection ==
  IF \A i \in DOMAIN footnotes : ~footnotes[i].defined THEN << >>
  ELSE Element("section", 0, Element("h2", 0, Words) \o Element("ol", 0, NoteItems))

\* How many elements are open after each of the first items.
Depth(items, n) ==
  Cardinality({i \in 1..n : items[i].is = "open"})
    - Cardinality({i \in 1..n : items[i].is = "close"})

ClosesItself(items) ==
  Depth(items, Len(items)) = 0 /\ \A n \in 1..Len(items) : Depth(items, n) >= 0

-----------------------------------------------------------------------------
(* Inlines.                                                                *)

Inline(sort, items, raw) ==
  /\ InlineHere /\ SpendsEvent(sort)
  /\ markup' = [WriteMarkup(items) EXCEPT !.raw = @ \union raw]
  /\ UNCHANGED <<within, footnotes, pieces, line, htmlEnded, sorts>>

InlineWords    == Inline("words", Words, {})
InlineEmphasis == Inline("em", Element("em", 0, Words), {})
\* A link with nothing between its brackets shows where it leads.
InlineLink     == Inline("link", LinkTo(<<"elsewhere">>, Words), {})
InlineImage    == Inline("link", Alone("img", 0), {})

\* HTML in a line goes out as it is, whatever it opens and closes.  History: whether it
\* closed there all it opened and nothing else, which the walk does not look at.
InlineHtml == \E raw \in RawInlines :
                Inline("inline", raw, IF ClosesItself(raw) THEN {} ELSE {"loose"})

-----------------------------------------------------------------------------
\* The end of the document, and of render().  A reference to a label that is not
\* defined is no reference for the parser.
HtmlEnd ==
  /\ ~htmlEnded /\ within = << >>
  /\ \A i \in DOMAIN footnotes : footnotes[i].defined
  /\ htmlEnded' = TRUE
  /\ markup' = WriteMarkup(FootnoteSection)
  /\ pieces' = pieces \o Indexed(Len(markup.out), 0, markup')
  /\ UNCHANGED <<within, footnotes, line, htmlLeft, sorts>>

StartsWithTag(piece) == markup.out[piece.first].name # "words"

\* A plausible slip: an HTML block that begins with a tag is trusted to be an element.
SplittableByLook == \A i \in DOMAIN pieces : StartsWithTag(pieces[i])

\* Whether the page may be told of an edit by its blocks.
Splittable == "block" \notin markup.raw /\ \A i \in DOMAIN pieces : StartsWithTag(pieces[i])

HtmlInit ==
  /\ markup = [out |-> << >>, raw |-> {}]
  /\ within = << >> /\ footnotes = << >> /\ pieces = << >>
  /\ line = 1 /\ htmlEnded = FALSE
  /\ \E d \in HtmlDocuments : sorts = d.sorts /\ htmlLeft = d.events

HtmlNext ==
  \/ HtmlRule \/ HtmlMath \/ HtmlCode \/ HtmlRaw
  \/ \E b \in BOOLEAN : HtmlMetadata(b) \/ HtmlTable(b) \/ StartQuote(b) \/ StartItem(b)
  \/ StartParagraph \/ StartList \/ StartDefinitions \/ StartTerm \/ StartDefinition
  \/ \E kind \in {"p", "blockquote", "list", "li", "dl", "dt", "dd"} : EndElement(kind)
  \/ StartHeading \/ EndHeading
  \/ \E label \in Labels : StartNote(label) \/ FootnoteReference(label)
  \/ EndNote
  \/ InlineWords \/ InlineEmphasis \/ InlineLink \/ InlineImage \/ InlineHtml
  \/ HtmlEnd

HtmlSpec == HtmlInit /\ [][HtmlNext]_htmlVars

-----------------------------------------------------------------------------
(* Properties.                                                             *)

\* What the document's own HTML has is neither a mark nor an id of the walk's.
RawNames == {item.name : item \in UNION {Range(raw) : raw \in RawBlocks \union RawInlines}}
RawItems == [is : {"open", "close", "alone"}, name : RawNames,
             line : {0}, id : {<< >>}, to : {<< >>}]

ASSUME HtmlIsBare == RawBlocks \subseteq Seq(RawItems) /\ RawInlines \subseteq Seq(RawItems)

IsOneElement(items) ==
  /\ Depth(items, Len(items)) = 0
  /\ \A n \in 1..(Len(items) - 1) : Depth(items, n) > 0

BlocksAreTheElements ==
  /\ \A i \in DOMAIN pieces :
       /\ IsOneElement(SubSeq(markup.out, pieces[i].first, pieces[i].last))
       /\ pieces[i].first = IF i = 1 THEN 1 ELSE pieces[i - 1].last + 1
  /\ Len(markup.out) = IF pieces = << >> THEN 0 ELSE Last(pieces).last

\* A document that is pushed by its blocks has, for each of them, one element in the page,
\* and nothing else is in the page: the page finds a block by counting its children.  So
\* the comments say of every document that may be pushed by its blocks (render(),
\* Page::splittable).
PushedByElements == htmlEnded /\ Splittable => BlocksAreTheElements

\* It is so of those whose HTML in a line, of each piece of it, closes what it opens.
OneElementEach == htmlEnded /\ Splittable /\ "loose" \notin markup.raw => BlocksAreTheElements

\* The source lines marked in the page ascend, which is what the page's search for the
\* element of a line takes for granted: what is moved to the end has none (block(),
\* strip_source_lines()).
LinesAscend ==
  htmlEnded =>
    \A i, j \in {k \in DOMAIN markup.out : markup.out[k].line > 0} :
      i < j => markup.out[i].line <= markup.out[j].line

\* Every reference leads to a note and every note that is referred to leads back to a
\* reference of its own, and no two elements have the same id: whatever the order in
\* which references and definitions come, inside one another too (note_number(),
\* footnote_section()).
NotesMeet ==
  htmlEnded =>
    LET ids == {i \in DOMAIN markup.out : markup.out[i].id # << >>}
        has(id) == \E i \in ids : markup.out[i].id = id
    IN  /\ \A i, j \in ids : markup.out[i].id = markup.out[j].id => i = j
        /\ \A i \in DOMAIN markup.out :
             LET to == markup.out[i].to
             IN  to # << >> /\ to # <<"elsewhere">> =>
                   has(to) \/ (to[1] = "fnref" /\ footnotes[to[2]].refs = 0)

\* The page can be searched by source line and followed from note to reference and back,
\* though the notes are moved to its end (render()).
PageHangsTogether == LinesAscend /\ NotesMeet
=============================================================================
