------------------------------ MODULE MCParts -------------------------------
(***************************************************************************)
(* Instances of the modules that model a part of the program by itself.  A *)
(* behaviour is one of one part; the others stay at one state of theirs.   *)
(***************************************************************************)
EXTENDS PatchStream, CancelledRequests, PreviewTable, RequestReader, AnswerQueue, Connection,
        Authoring, ListNumbers, TableText, BlockWalk, TableLayout, HtmlWalk, HighlightMemo,
        Staging

CONSTANT PartsChecked  \* the parts there are behaviours of

VARIABLE part  \* the part this behaviour is about

-----------------------------------------------------------------------------
(* Every document of up to three rows whose source lines are 0..2: two     *)
(* looks are enough for a row to be kept or replaced, three rows for a     *)
(* prefix, a changed run and a suffix to be there at once, and three lines *)
(* for a row to have none, to stay and to move.                            *)

MCCost == [l \in Looks |-> 16]
MCDocuments == UNION {[1..n -> [look : Looks, src : 0..2]] : n \in 0..3}

\* Two buffers, room for one preview.
Calm == [opens |-> 0, closes |-> 0, closealls |-> 0, wipes |-> 0, edits |-> 0, options |-> 0,
         timeouts |-> 0, exits |-> 0, refusals |-> 0]
MCPreviews ==
  {Calm,
   [Calm EXCEPT !.opens = 2, !.closes = 1, !.edits = 2],
   [Calm EXCEPT !.opens = 2, !.wipes = 1, !.refusals = 1, !.options = 1],
   [Calm EXCEPT !.opens = 2, !.closealls = 1, !.edits = 1],
   [Calm EXCEPT !.opens = 2, !.timeouts = 1],
   [Calm EXCEPT !.opens = 2, !.exits = 1, !.edits = 1]}

-----------------------------------------------------------------------------
(* Peers whose heads end before, at and after the limit; whose requests    *)
(* are for every route, from every host; and whose bodies are short, just  *)
(* right, too long and cut off.                                            *)

Asking == [head |-> 3, rest |-> 0, text |-> TRUE, parses |-> TRUE, host |-> TRUE,
           route |-> "page", roots |-> << >>, syncBack |-> TRUE, length |-> 0, report |-> TRUE]

Heads  == {[Asking EXCEPT !.head = n, !.text = b, !.parses = b, !.host = b] :
             n \in 2..7, b \in BOOLEAN}
Routes ==
  {[Asking EXCEPT !.parses = p, !.host = p /\ h, !.route = r, !.roots = where] :
     p \in BOOLEAN, h \in BOOLEAN, r \in {"page", "events", "other", "asset"},
     where \in {<<"inside">>, <<"large">>, <<"outside", "inside">>, <<"large", "inside">>,
                <<"absent", "outside">>}}
Bodies ==
  {[Asking EXCEPT !.route = "cursor", !.rest = n, !.length = l, !.report = r, !.syncBack = b] :
     n \in 0..4, l \in 0..4, r \in BOOLEAN, b \in BOOLEAN}

MCPeers == Heads \union Routes \union {p \in Bodies : p.length = 0 => ~p.report}

-----------------------------------------------------------------------------
(* Headings of both kinds, one inside another's section, at the limits of  *)
(* their levels, or behind list markers, and edits while an answer is on   *)
(* its way.                                                                *)

Plain == Text("t")
MCDrafts ==
  {<< Atx(1, "a"), Plain, Atx(2, "b"), Atx(3, "c"), Atx(2, "d"), Atx(1, "e") >>,
   << Text("a"), RuleLine(1), Plain, Blank, Text("b"), RuleLine(2), Atx(3, "c"), Text("d"),
      RuleLine(2) >>,
   << Behind(Atx(1, "a")), Plain, Behind(Text("b")), RuleLine(2) >>,
   << Plain, Blank, Text("a"), Text("b"), RuleLine(2), Blank, RuleLine(2), Atx(6, "c") >>,
   << Plain >>}

Idle == [edits |-> 0, shifts |-> 0, tocs |-> 0, folding |-> 0, timeouts |-> 0]
MCAuthoring == {[Idle EXCEPT !.edits = 1, !.shifts = 1],
                [Idle EXCEPT !.edits = 2, !.folding = 1],
                [Idle EXCEPT !.edits = 1, !.tocs = 1, !.folding = 1, !.timeouts = 1]}

\* Lists in lists and between them, bullets and prose at either depth.
MCLists ==
  [1..3 -> {Numbered(0, 1), Numbered(3, 2), Bullet(0), Bullet(3), Prose(0)}]
  \union [1..4 -> {Numbered(0, 1), Numbered(3, 2), Bullet(3)}]
  \union {<< Numbered(0, 4), Numbered(3, 7), Numbered(3, 7), Bullet(3), Bullet(5),
             Numbered(0, 1), Prose(3), Numbered(0, 1) >>,
          << Numbered(0, 9), Numbered(0, 9), Numbered(3, 1) >>}
  \union {FlattenSeq(ls) : ls \in [1..3 -> {<< Numbered(0, 1) >>, << Numbered(3, 1) >>,
             << Numbered(0, 2), Beside(3, 1) >>, << Bullet(0), Beside(2, 5) >>,
             << Numbered(0, 1), Beside(3, 3), Beside(6, 3) >>}]}

\* Tables with cells missing and to spare, pipes and backslashes, in a quote or not.
Header == << "|", "x", "|", "w", "w", "|" >>
Delimiters == {<<"-", "|", "-">>, <<"|", ":", "-", ":", "|", "-", ":", "|">>,
               <<":", "-", "|", "-">>}
LastRows == UNION {[1..n -> {"|", "\\", " ", "x"}] : n \in 1..3}
            \union {<<"x", "|", "x", "|", "x">>, <<"|", "x", "|", " ", "|", "|">>,
                    <<"x", "|", " ", "x", "\\">>}
MCTables ==
  {<< Header, <<"-", "|", "-">>, row >> : row \in LastRows}
  \union {<< <<"x">>, << >>, <<">", " ">> \o Header, <<">">> \o d,
             <<">", "w", "x", "w", "x", "|", "x">>, <<">">>, <<">", "x", "|", "x">> >> :
            d \in Delimiters}

-----------------------------------------------------------------------------
(* Documents of the two walks.                                             *)

WalkOf(ks, n) == [kinds |-> ks, events |-> n]
MCWalks ==
  {WalkOf({"text", "quote", "list", "item"}, 5),
   WalkOf({"text", "list", "item", "code"}, 5),
   WalkOf({"text", "heading", "quote", "note"}, 4),
   WalkOf({"text", "definition", "list", "item"}, 4),
   WalkOf({"table", "html", "rule", "text", "quote"}, 4)}

PageOf(ss, n) == [sorts |-> ss, events |-> n]
MCPages ==
  {PageOf({"p", "inline", "blockquote", "list"}, 5),
   PageOf({"p", "ref", "note", "rule"}, 5),
   PageOf({"h", "ref", "note", "em"}, 4),
   PageOf({"dl", "p", "math", "code", "link"}, 4),
   PageOf({"html", "p", "blockquote", "words", "metadata", "table"}, 4)}
MCRawBlocks == {Tag("div", 0), EndTag("div"), Element("div", 0, Words)}
MCRawSpans  == {Element("b", 0, Words), EndTag("p") \o Tag("p", 0)}

-----------------------------------------------------------------------------
(* Paragraphs of two styles, and tables whose columns compete.             *)

MCRun(s, n) == [text |-> s, base |-> IF n = 1 THEN << >> ELSE <<"head">>,
                flags |-> IF n = 1 THEN <<"bold">> ELSE <<"bold", "code">>,
                href |-> IF n = 1 THEN << >> ELSE <<"there">>, src |-> n]
MCTexts == UNION {[1..n -> {"a", "W", " ", "break"}] : n \in 1..4}
           \union {<< c, "a", d, " ", "a", "a" >> : c, d \in {"a", "W"}}
Half(s) == Len(s) \div 2
MCParagraphs ==
  {<< MCRun(<< >>, n), MCRun(s, 3 - n) >> :
     s \in MCTexts, n \in {1, 2}} \union
  {<< MCRun(SubSeq(s, 1, Half(s)), n), MCRun(SubSeq(s, Half(s) + 1, Len(s)), 3 - n) >> :
     s \in MCTexts, n \in {1, 2}}

Cell(s) == << MCRun(s, 1) >>
MCCells == {<< >>, Cell(<<"W">>), Cell(<<"a", "a", "a", " ", "a">>),
           Cell(<<"a", "W", "a", "W", "a", " ", " ", "a", "a">>)}
Long(n) == Cell([i \in 1..n |-> "x"])
MCGrid(header, body) ==
  [header |-> header, body |-> body, aligns |-> <<"left", "right", "center">>]
MCGrids ==
  {MCGrid(<<a, b>>, << <<c, Cell(<<"a">>)>> >>) : a, b, c \in MCCells}
  \union {MCGrid(<<Long(a), Long(b), Long(c)>>, << >>) : a \in {1, 4}, b \in {4, 6}, c \in {1, 9}}

-----------------------------------------------------------------------------
(* Code blocks: more than the memo has room for, one of no language; two   *)
(* of one hash and of different weight; one too long to be kept; one over  *)
(* the budget by itself.                                                   *)

Fence(token, code, hash, size, weight) ==
  [token |-> token, code |-> code, hash |-> hash, size |-> size, weight |-> weight]
Rust(code, hash, weight) == Fence("rust", code, hash, 1, weight)
MCFences ==
  {{Rust("a", 1, 2), Rust("b", 2, 2), Rust("c", 3, 1), Fence("", "a", 4, 1, 1)},
   {Rust("a", 1, 2), Rust("b", 2, 1), Fence("js", "a", 1, 1, 4)},
   {Rust("a", 1, 2), Rust("b", 2, 3), Fence("rust", "c", 3, 2, 4)},
   {Rust("a", 1, 2), Rust("b", 2, 5)}}

\* Documents that name two of three pictures, none, or all; one of them heavy, room for
\* two and for less than what two may weigh; previews closed, wiped and opened again.
MCSize(href) == IF href = "q1" THEN 2 ELSE 1
MCGalleries  == {<<"q1", "q2">>, <<"q3", "q1">>, << >>}
NoStaging == [opens |-> 0, statics |-> 0, closes |-> 0, wipes |-> 0, exits |-> 0, edits |-> 0]
MCStaging ==
  {[NoStaging EXCEPT !.opens = 2, !.closes = 1, !.edits = 1],
   [NoStaging EXCEPT !.opens = 1, !.statics = 1, !.wipes = 1, !.edits = 1],
   [NoStaging EXCEPT !.opens = 1, !.exits = 1, !.edits = 2]}

-----------------------------------------------------------------------------
(* Where a part stays that a behaviour is not about.                       *)

NoPatch     == lastSent = << >> /\ PatchInit
NoPreviews  == allowed = Calm /\ TableInit
NoReader    == /\ stream = << >> /\ taken = 0 /\ kept = << >> /\ tooLong = FALSE
               /\ records = << >> /\ inputEnded = FALSE
NoPeer      == /\ peer = Asking /\ sent = 0 /\ phase = "head" /\ answer = ""
               /\ written = "nothing" /\ waiting = 0
NoAuthoring == lines = << Plain >> /\ budget = [Idle EXCEPT !.edits = 1, !.shifts = 1]
               /\ AuthoringInit
NoList      == listText = << >> /\ before = << >> /\ range = NoRange
NoTable     == rows = << >> /\ original = << >> /\ cursor = 0
NoWalk      == /\ kinds = {} /\ events = 0 /\ open = << >> /\ toc = << >> /\ spans = << >>
               /\ walked = [rows |-> << >>, frames |-> << >>, gap |-> FALSE, tight |-> FALSE]
               /\ nextFrame = 1
NoParagraph == paragraph = << >> /\ column = 0 /\ laid = << >>
NoGrid      == /\ grid = MCGrid(<< Cell(<<"a">>) >>, << >>) /\ room = 0
               /\ natural = <<1>> /\ widths = <<1>> /\ fixed = {}
               /\ broken = << >> /\ laidOut = 0 /\ drawn = << >>
NoPage      == /\ sorts = {} /\ htmlLeft = 0 /\ within = << >> /\ footnotes = << >>
               /\ markup = [out |-> << >>, raw |-> {}]
               /\ pieces = << >> /\ line = 1 /\ htmlEnded = FALSE

NoPaint     == /\ fences = {} /\ memo = [entries |-> << >>, arrived |-> << >>, bytes |-> 0]
               /\ painting = [r \in Painters |-> NoFence]
               /\ colours = [asked |-> NoFence, given |-> NoFence] /\ lookups = 0
NoStagingYet == /\ stagingMay = NoStaging /\ named = << >> /\ alive = TRUE /\ rounds = 0
                /\ preview = [opening |-> "no", stagingOpen |-> FALSE, shown |-> FALSE,
                              timer |-> FALSE, asked |-> 0, astray |-> FALSE]
                /\ stage = NoStage /\ transfers = {}

On(name, Starts, Rests) == IF part = name THEN Starts ELSE Rests

PartsInit ==
  /\ part \in PartsChecked
  /\ On("patch", PatchInit, NoPatch)
  /\ MemoryInit
  /\ On("previews", TableInit, NoPreviews)
  /\ On("reader", ReaderInit, NoReader)
  /\ QueueInit
  /\ On("connection", ConnectionInit, NoPeer)
  /\ On("authoring", AuthoringInit, NoAuthoring)
  /\ On("list", ListInit, NoList)
  /\ On("table", TableTextInit, NoTable)
  /\ On("walk", WalkInit, NoWalk)
  /\ On("wrap", WrapInit, NoParagraph)
  /\ On("grid", GridInit, NoGrid)
  /\ On("html", HtmlInit, NoPage)
  /\ On("paint", PaintInit, NoPaint)
  /\ On("staging", StagingInit, NoStagingYet)

PartsNext ==
  /\ UNCHANGED part
  /\ IF part = "patch" THEN PatchNext ELSE UNCHANGED patchVars
  /\ IF part = "memory" THEN MemoryNext ELSE UNCHANGED memoryVars
  /\ IF part = "previews" THEN TableNext ELSE UNCHANGED tableVars
  /\ IF part = "reader" THEN ReaderNext ELSE UNCHANGED readerVars
  /\ IF part = "queue" THEN QueueNext ELSE UNCHANGED queueVars
  /\ IF part = "connection" THEN ConnectionNext ELSE UNCHANGED connectionVars
  /\ IF part = "authoring" THEN AuthoringNext ELSE UNCHANGED authoringVars
  /\ IF part = "list" THEN ListNext ELSE UNCHANGED listVars
  /\ IF part = "table" THEN TableTextNext ELSE UNCHANGED tableTextVars
  /\ IF part = "walk" THEN WalkNext ELSE UNCHANGED walkVars
  /\ IF part = "wrap" THEN LayOut ELSE UNCHANGED wrapVars
  /\ IF part = "grid" THEN GridNext ELSE UNCHANGED gridVars
  /\ IF part = "html" THEN HtmlNext ELSE UNCHANGED htmlVars
  /\ IF part = "paint" THEN PaintNext ELSE UNCHANGED paintVars
  /\ IF part = "staging" THEN StagingNext ELSE UNCHANGED stagingVars

PartsSpec ==
  PartsInit /\ [][PartsNext]_<<part, patchVars, memoryVars, tableVars, readerVars, queueVars,
                               connectionVars, authoringVars, listVars, tableTextVars, walkVars,
                               wrapVars, gridVars, htmlVars, paintVars,
                               stagingVars>>
=============================================================================
