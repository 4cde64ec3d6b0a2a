---------------------------- MODULE TableLayout -----------------------------
(***************************************************************************)
(* The tables of the preview: table.rs, which chooses a width for each     *)
(* column and breaks each cell into rows of it with the breaker of         *)
(* LineWrap.                                                               *)
(***************************************************************************)
EXTENDS LineWrap

CONSTANTS
  Grids,       \* the tables: [header, body, aligns], a cell being a paragraph
  GridColumns  \* how much room there may be

\* A cell, in which no character looks as what is drawn between the cells.
GridCells == Seq(RunsOf(STRING \ {"|"}))

\* A table has a header.
ASSUME GridsAssumption ==
  /\ GridColumns \subseteq Nat
  /\ \A g \in Grids : g.header \in Seq(GridCells) \ {<< >>} /\ g.body \in Seq(Seq(GridCells))

VARIABLES
  grid,     \* the table
  room,     \* how many columns it may take
  natural,  \* `natural`: the width each column would like
  widths,   \* `widths`
  fixed,    \* `fixed`: the columns whose width is settled
  broken,   \* `wrapped`: the cells of the row that is being laid out, none between rows
  laidOut,  \* how many rows have been laid out, one more when the table is closed
  drawn     \* its rows on the page

gridVars == <<grid, room, natural, widths, fixed, broken, laidOut, drawn>>

PerColumn    == 3  \* PER_COLUMN
NarrowColumn == 3  \* MIN_COLUMN

CellAt(cells, i) == IF i \in DOMAIN cells THEN cells[i] ELSE << >>
GridRows(g)  == << g.header >> \o g.body
ColumnsIn(g) == 1..Max({Len(row) : row \in ToSet(GridRows(g))})
SumOver(f, S) == MapThenSumSet(LAMBDA i : f[i], S)

\* cell_width(): the words of a cell with one space between them.
CellWidth(cell) ==
  FoldLeft(LAMBDA w, ch : IF ch = " " THEN [w EXCEPT !.apart = TRUE]
                          ELSE [apart |-> FALSE,
                                width |-> w.width + GlyphColumns(ch)
                                          + (IF w.apart /\ w.width > 0 THEN 1 ELSE 0)],
           [apart |-> FALSE, width |-> 0],
           FoldLeft(LAMBDA s, run : s \o run.text, << >>, cell)).width

Natural(g) ==
  [i \in ColumnsIn(g) |->
     Max({1} \union {CellWidth(CellAt(row, i)) : row \in ToSet(GridRows(g))})]

-----------------------------------------------------------------------------
(* fit().                                                                  *)

ColumnSet == DOMAIN widths
Budget  == Max({room - (Len(widths) * PerColumn + 1), 0})

\* A plausible slip: a divider of every column is taken off what is left once more.
ShareLessDividers ==
  Max({Budget - Len(widths) - SumOver(widths, fixed), 0}) \div Cardinality(ColumnSet \ fixed)

\* What each column that is not settled may have of what is left.
Share == Max({Budget - SumOver(widths, fixed), 0}) \div Cardinality(ColumnSet \ fixed)

Modest == {i \in ColumnSet \ fixed : widths[i] <= Share}

GiveTheRest(width) ==
  /\ widths' = [i \in ColumnSet |-> IF i \in fixed THEN widths[i] ELSE width]
  /\ fixed' = ColumnSet

\* There is room for all, or for none.
FitAtOnce ==
  /\ fixed = {}
  /\ \/ Budget = 0 /\ GiveTheRest(NarrowColumn)
     \/ Budget > 0 /\ SumOver(widths, ColumnSet) <= Budget /\ fixed' = ColumnSet /\ UNCHANGED widths
  /\ UNCHANGED <<grid, room, natural, broken, laidOut, drawn>>

\* The loop: the columns that need no more than an equal share of what is left keep what
\* they need; when there is none, the others get that share, or the least there is.
FitSome ==
  /\ fixed # ColumnSet /\ Budget > 0 /\ SumOver(widths, ColumnSet) > Budget
  /\ \/ Share < NarrowColumn /\ GiveTheRest(NarrowColumn)
     \/ Share >= NarrowColumn /\ Modest = {} /\ GiveTheRest(Share)
     \/ Share >= NarrowColumn /\ Modest # {} /\ fixed' = fixed \union Modest /\ UNCHANGED widths
  /\ UNCHANGED <<grid, room, natural, broken, laidOut, drawn>>

-----------------------------------------------------------------------------
(* body_rows() and border().                                               *)

Blanks(n) == [i \in 1..n |-> " "]

PutBorder(row) ==
  [row EXCEPT !.text = Append(@, "|"), !.props = PushProp(@, StartOf(row), 3, "border")]

\* A plausible slip: what a cell's text leaves of its column is not written after it.
SlackBefore(align, slack) == << IF align = "right" THEN slack ELSE slack \div 2, 0 >>

\* Where the room that a cell's text leaves goes: before it and after it.
Slack(align, slack) ==
  LET before == CASE align = "left" -> 0 [] align = "right" -> slack [] OTHER -> slack \div 2
  IN  << before, slack - before >>

\* One cell of a row, in body_rows().
PutCell(row, line, width, align, header) ==
  LET content == Min({ColumnsOf(line.text), width})
      slack   == Slack(align, width - content)
      start   == PutBorder(row).text \o << " " >> \o Blanks(slack[1])
      base    == BytesOf(start)
      moved(spans) == [i \in DOMAIN spans |-> [spans[i] EXCEPT !.col = @ + base]]
  IN  [row EXCEPT !.text  = start \o line.text \o Blanks(slack[2]) \o << " " >>,
                  !.props = PutBorder(row).props \o moved(line.props)
                            \o (IF header THEN << [col |-> base + 1, len |-> BytesOf(line.text),
                                                   is |-> "head"] >> ELSE << >>),
                  !.links = @ \o moved(line.links)]

\* border(): one span, as wide as the rows.
Border ==
  LET text == FoldLeft(LAMBDA s, width : s \o [k \in 1..(width + PerColumn) |-> "|"], << "|" >>,
                       widths)
  IN  << [EmptyRow EXCEPT !.text = text,
                          !.props = << [col |-> 1, len |-> BytesOf(text), is |-> "border"] >>] >>

DrawTop ==
  /\ fixed = ColumnSet /\ drawn = << >>
  /\ drawn' = Border
  /\ UNCHANGED <<grid, room, natural, widths, fixed, broken, laidOut>>

\* Every cell of the next row is wrapped to its column first.
BreakCells ==
  /\ drawn # << >> /\ broken = << >> /\ laidOut < Len(GridRows(grid))
  /\ broken' = [i \in ColumnSet |->
                  IF CellAt(GridRows(grid)[laidOut + 1], i) = << >> THEN << EmptyRow >>
                  ELSE Wrap(GridRows(grid)[laidOut + 1][i], widths[i])]
  /\ UNCHANGED <<grid, room, natural, widths, fixed, laidOut, drawn>>

\* The first source line that a cell of a row names.
SourceOf(cells) ==
  FoldLeft(LAMBDA src, run : IF src > 0 THEN src ELSE run.src, 0,
           FoldLeft(LAMBDA s, cell : s \o cell, << >>, cells))

\* As many rows as the tallest cell has, and a border under those of the header.
DrawCells ==
  LET height == Max({Len(broken[i]) : i \in ColumnSet})
      line(i, n) == IF n \in DOMAIN broken[i] THEN broken[i][n] ELSE EmptyRow
      start(n) == [EmptyRow EXCEPT !.src = IF n = 1 THEN SourceOf(GridRows(grid)[laidOut + 1])
                                           ELSE 0]
      put(n)   == FoldLeft(LAMBDA row, i : PutCell(row, line(i, n), widths[i], grid.aligns[i],
                                                   laidOut = 0),
                           start(n), [i \in ColumnSet |-> i])
  IN  /\ broken # << >>
      /\ broken' = << >>
      /\ laidOut' = laidOut + 1
      /\ drawn' = drawn \o [n \in 1..height |-> PutBorder(put(n))]
                        \o (IF laidOut = 0 THEN Border ELSE << >>)
      /\ UNCHANGED <<grid, room, natural, widths, fixed>>

DrawBottom ==
  /\ laidOut = Len(GridRows(grid))
  /\ laidOut' = laidOut + 1
  /\ drawn' = drawn \o Border
  /\ UNCHANGED <<grid, room, natural, widths, fixed, broken>>

GridInit ==
  /\ grid \in Grids /\ room \in GridColumns
  /\ natural = Natural(grid)
  /\ widths = natural
  /\ fixed = {}
  /\ broken = << >> /\ laidOut = 0 /\ drawn = << >>

GridNext == FitAtOnce \/ FitSome \/ DrawTop \/ BreakCells \/ DrawCells \/ DrawBottom

GridSpec == GridInit /\ [][GridNext]_gridVars

-----------------------------------------------------------------------------
(* Properties.                                                             *)

\* All rows of a table are equally wide, whatever the cells wrapped into, and a row that
\* says something has its dividers in the same columns as any other; the table is no
\* wider than the room there is unless that leaves some column fewer than three (fit(),
\* body_rows(), border()).
StandsEven ==
  LET dividers(row) == {ColumnsOf(SubSeq(row.text, 1, i)) :
                          i \in {k \in DOMAIN row.text : row.text[k] = "|"}}
      written == {drawn[i] : i \in {k \in DOMAIN drawn : " " \in ToSet(drawn[k].text)}}
  IN  /\ \A r \in DOMAIN drawn : ColumnsOf(drawn[r].text) = ColumnsOf(drawn[1].text)
      /\ \A a, b \in written : dividers(a) = dividers(b)
      /\ Budget \div Len(widths) >= NarrowColumn =>
           \A r \in DOMAIN drawn : ColumnsOf(drawn[r].text) <= room

\* A column that needs no more than an equal share of the room keeps what it needs,
\* however many share what is left over and however often they share it (fit()).
NarrowKeepTheirs ==
  LET equal == Budget \div Len(widths)
  IN  fixed = ColumnSet /\ equal >= NarrowColumn =>
        \A i \in ColumnSet : natural[i] <= equal => widths[i] = natural[i]

\* The room of a table is divided so that none of its narrow columns is broken up, and the
\* table drawn evenly in it (layout()).
DrawsEvenly == StandsEven /\ NarrowKeepTheirs

\* What the doc comment of fit() says: what the narrow columns leave is shared among the
\* wide ones in proportion to their demand, to within one column of the screen.
SharedInProportion ==
  LET equal   == Budget \div Len(widths)
      wide    == {i \in ColumnSet : natural[i] > equal}
      surplus == Budget - SumOver(natural, ColumnSet \ wide)
      due(i)  == (surplus * natural[i]) \div SumOver(natural, wide)
  IN  fixed = ColumnSet /\ equal >= NarrowColumn /\ SumOver(natural, ColumnSet) > Budget =>
        \A i \in wide : widths[i] \in due(i)..(due(i) + 1)
=============================================================================
