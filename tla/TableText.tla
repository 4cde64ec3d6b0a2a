----------------------------- MODULE TableText ------------------------------
(***************************************************************************)
(* A table in a Markdown source: format.rs, which squares it up, and the   *)
(* check of lint.rs that counts its cells by the same division.            *)
(*                                                                         *)
(* A line is its characters: "|", "\\", " ", "-", ":", ">" for a           *)
(* container's, "w" one that is two columns wide on screen, and any other. *)
(* Which lines are a table is external: a row, a delimiter row with as     *)
(* many cells, and what follows up to a blank line.  A list marker is no   *)
(* container's by this rule but text of a cell: tables that begin on the   *)
(* line of one are left out.                                               *)
(***************************************************************************)
EXTENDS Integers, Sequences, SequencesExt, FiniteSets, FiniteSetsExt

CONSTANT TableDrafts  \* the documents

VARIABLES
  rows,      \* the lines
  original,  \* what they were before the table was formatted
  cursor     \* the line the cursor was on, 0 before that

tableTextVars == <<rows, original, cursor>>

MinColumn == 3  \* MIN_COLUMN

ContainerChars == {" ", ">"}  \* is_container_char()

Repeat(ch, n) == [i \in 1..n |-> ch]
OnScreen(s) == Len(s) + Cardinality({i \in DOMAIN s : s[i] = "w"})

\* trim_start_matches(), trim_end() and trim()
TrimStart(s, chars) ==
  SubSeq(s, Min({Len(s) + 1} \union {i \in DOMAIN s : s[i] \notin chars}), Len(s))
TrimEnd(s) == SubSeq(s, 1, Max({0} \union {i \in DOMAIN s : s[i] # " "}))
Trim(s) == TrimEnd(TrimStart(s, {" "}))

-----------------------------------------------------------------------------
(* format.rs.                                                              *)

ContainerPrefix(row) == SubSeq(row, 1, Len(row) - Len(TrimStart(row, ContainerChars)))

\* The walk of split_cells() over one character.  `at` is where the pipes are that
\* divide cells.
Walk(w, ch) ==
  LET read == [w EXCEPT !.place = @ + 1]
  IN  CASE w.escaped -> [read EXCEPT !.escaped = FALSE, !.current = Append(@, ch)]
        [] ~w.escaped /\ ch = "|" ->
             [read EXCEPT !.cells = Append(@, Trim(w.current)), !.current = << >>,
                          !.at = Append(@, w.place)]
        [] OTHER -> [read EXCEPT !.escaped = (ch = "\\"), !.current = Append(@, ch)]

Walked(row) ==
  FoldLeft(Walk, [cells |-> << >>, current |-> << >>, escaped |-> FALSE, place |-> 1,
                  at |-> << >>], TrimEnd(row))

\* split_cells(): pipes at either end are optional, known by what they left behind.
SplitCells(row) ==
  LET w     == Walked(row)
      cells == IF w.at # << >> /\ Trim(w.current) = << >> THEN w.cells
               ELSE Append(w.cells, Trim(w.current))
  IN  IF row # << >> /\ row[1] = "|" /\ cells # << >> /\ cells[1] = << >>
      THEN Tail(cells) ELSE cells

Cells(line) == SplitCells(TrimStart(line, ContainerChars))

Dashes(align, width) ==
  CASE align = "left"   -> << ":" >> \o Repeat("-", width - 1)
    [] align = "right"  -> Repeat("-", width - 1) \o << ":" >>
    [] align = "center" -> << ":" >> \o Repeat("-", width - 2) \o << ":" >>
    [] align = "none"   -> Repeat("-", width)

\* A plausible slip: characters are counted, not the columns they take.
PadByCount(cell, align, width) == cell \o Repeat(" ", Max({0, width - Len(cell)}))

Pad(cell, align, width) ==
  LET slack == Max({0, width - OnScreen(cell)})
      left  == CASE align = "right" -> slack [] align = "center" -> slack \div 2
                 [] OTHER -> 0
  IN  Repeat(" ", left) \o cell \o Repeat(" ", slack - left)

\* A plausible slip: the table is as wide as its widest row.
ColumnsOfWidest(t) == Max({Len(t.cells[i]) : i \in DOMAIN t.cells})

\* The delimiter row declares how many columns there are.
Columns(t) == Len(t.aligns)

\* format(): the rows of one table, each behind the first one's container prefix.
Formatted(t) ==
  LET cell(i, k) == IF k \in DOMAIN t.cells[i] THEN t.cells[i][k] ELSE << >>
      align(k)   == IF k \in DOMAIN t.aligns THEN t.aligns[k] ELSE "none"
      width(k)   == Max({MinColumn} \union {OnScreen(cell(i, k)) : i \in DOMAIN t.cells \ {2}})
      declared(i, k) == IF i = 2 THEN Dashes(align(k), width(k))
                        ELSE Pad(cell(i, k), align(k), width(k))
      surplus(i) == IF i = 2 THEN << >> ELSE SubSeq(t.cells[i], Columns(t) + 1, Len(t.cells[i]))
      joined(i)  == FoldLeft(LAMBDA s, c : s \o << " " >> \o c \o << " ", "|" >>,
                             t.prefix \o << "|" >>,
                             [k \in 1..Columns(t) |-> declared(i, k)] \o surplus(i))
  IN  [i \in DOMAIN t.cells |-> joined(i)]

-----------------------------------------------------------------------------
(* The tables of a document, and what is done with them.                   *)

\* Of the cells of a delimiter row.
IsDelimiter(cells) ==
  cells # << >> /\ \A c \in Range(cells) : Range(c) \subseteq {"-", ":"} /\ "-" \in Range(c)

AlignsOf(cells) ==
  LET aligned(c) == CASE Head(c) = ":" /\ Last(c) = ":" -> "center"
                      [] Head(c) = ":" /\ Last(c) # ":" -> "left"
                      [] Head(c) # ":" /\ Last(c) = ":" -> "right"
                      [] OTHER -> "none"
  IN  [k \in DOMAIN cells |-> aligned(cells[k])]

IsBlank(line) == TrimStart(line, ContainerChars) = << >>

\* The tables: where each begins and ends, its alignments, what is before its first row
\* and the cells of every row.
TablesOf(ls, cells) ==
  LET begin == {d \in 2..Len(ls) : /\ IsDelimiter(cells[d])
                                   /\ ~IsBlank(ls[d - 1])
                                   /\ Len(cells[d]) = Len(cells[d - 1])}
      stop(d) == Min({i \in d..Len(ls) : i = Len(ls) \/ IsBlank(ls[i + 1])})
  IN  {[from |-> d - 1, to |-> stop(d), aligns |-> AlignsOf(cells[d]),
        prefix |-> ContainerPrefix(ls[d - 1]), cells |-> SubSeq(cells, d - 1, stop(d))] :
         d \in begin}

Tables(ls) == UNION {TablesOf(ls, cells) : cells \in {[i \in DOMAIN ls |-> Cells(ls[i])]}}

\* A draft is lines of characters.  Which of them are a table, the definition above gives
\* for those where no row of a table's body reads as another delimiter row.
CharsOf(ls) == UNION {Range(line) : line \in Range(ls)}

ASSUME TableDraftsAssumption ==
  \A ls \in TableDrafts :
    /\ ls \in Seq(Seq(CharsOf(ls)))
    /\ \A t \in Tables(ls) : \A i \in 3..Len(t.cells) : ~IsDelimiter(t.cells[i])

Holds(t, line) == t.from <= line /\ line <= t.to

\* table_at(), and OnFormatReply() of the answer.
Format(line) ==
  /\ cursor = 0 /\ cursor' = line
  /\ original' = rows
  /\ \/ /\ ~ \E t \in Tables(rows) : Holds(t, line)
        /\ UNCHANGED rows
     \/ \E t \in Tables(rows) :
          /\ Holds(t, line)
          /\ rows' = SubSeq(rows, 1, t.from - 1) \o Formatted(t)
                       \o SubSeq(rows, t.to + 1, Len(rows))

\* tables() of lint.rs: the rows that have too many cells, or too few.
Ragged(ls) ==
  UNION {{i \in (t.from..t.to) \ {t.from + 1} : Len(t.cells[i - t.from + 1]) # Len(t.aligns)} :
           t \in Tables(ls)}

TableTextInit ==
  /\ rows \in TableDrafts
  /\ original = rows
  /\ cursor = 0

TableTextNext == \E line \in DOMAIN rows : Format(line)

TableTextSpec == TableTextInit /\ [][TableTextNext]_tableTextVars

-----------------------------------------------------------------------------
(* Properties.                                                             *)

InFormatted(i) == \E t \in Tables(original) : Holds(t, i) /\ Holds(t, cursor)

\* Formatting changes no cell: each row of the table under the cursor has the cells it
\* had, with empty ones after them up to the columns declared, the delimiter declares
\* the same alignments, and no other line is touched (format(), split_cells()).
SaysTheSame ==
  /\ \A i \in DOMAIN original : ~InFormatted(i) => rows[i] = original[i]
  /\ \A t \in Tables(original) : Holds(t, cursor) =>
       \A i \in DOMAIN t.cells :
         LET now == Cells(rows[t.from + i - 1])
         IN  IF i = 2 THEN AlignsOf(now) = t.aligns
             ELSE /\ Len(now) = Max({Len(t.cells[i]), Len(t.cells[1])})
                  /\ \A k \in DOMAIN now :
                       now[k] = IF k \in DOMAIN t.cells[i] THEN t.cells[i][k] ELSE << >>

\* On screen every pipe that closes a declared column is under the one above it; the
\* only rows the linter goes on reporting are those with a cell too many; and a table
\* that was formatted is left as it is the next time.
StandsSquare ==
  \A t \in Tables(rows) : Holds(t, cursor) =>
    LET pipe(i, k) == OnScreen(SubSeq(rows[i], 1, Walked(rows[i]).at[k]))
    IN  /\ \A i \in t.from..t.to, k \in 1..(Len(t.aligns) + 1) : pipe(i, k) = pipe(t.from, k)
        /\ Ragged(rows) \intersect (t.from..t.to)
             = {i \in t.from..t.to : Len(t.cells[i - t.from + 1]) > Len(t.aligns)}
        /\ Formatted(t) = SubSeq(rows, t.from, t.to)

\* A table that was formatted says what it said, and stands square (format()).
SquaresUp == SaysTheSame /\ StandsSquare
=============================================================================
