---------------------------- MODULE ListNumbers -----------------------------
(***************************************************************************)
(* renumber() of the daemon's edit.rs: a walk over the events of the lists *)
(* in a document with a stack of the numbers they are at.                  *)
(*                                                                         *)
(* A text is its lines and the markers of its lists in the order they are  *)
(* read: an entry for every line, with the marker it begins with, if any   *)
(* (a bullet, or a number), and one for every marker that stands behind    *)
(* another on its line (`- 1. x`).  What lists they make is external,      *)
(* CommonMark's rules: a line belongs to an item when it begins no further *)
(* left than the item's own text, which is as far right as its marker is   *)
(* wide.                                                                   *)
(***************************************************************************)
EXTENDS Integers, Sequences, SequencesExt, FiniteSets, FiniteSetsExt, Ordering

CONSTANT ListDrafts  \* the documents

ListLines == [col : Nat, mark : {"number", "bullet", "none"}, number : Nat, first : BOOLEAN]

Width(line) ==
  CASE line.mark = "number" -> IF line.number < 10 THEN 3 ELSE 4
    [] line.mark = "bullet" -> 2
    [] OTHER -> 0

\* A marker that is not the first of its line is in the item of the one before it.
MarkersFollow(ls) ==
  \A i \in DOMAIN ls :
    ~ ls[i].first => /\ i > 1 /\ ls[i].mark # "none" /\ ls[i - 1].mark # "none"
                     /\ ls[i].col >= ls[i - 1].col + Width(ls[i - 1])

ASSUME ListsAssumption == ListDrafts \subseteq Seq(ListLines) /\ \A ls \in ListDrafts : MarkersFollow(ls)

VARIABLES
  listText,  \* the lines
  before,    \* what they were before the last renumbering
  range      \* the range it was asked for

listVars == <<listText, before, range>>

NoRange == <<1, 0>>

Numbered(col, number) == [col |-> col, mark |-> "number", number |-> number, first |-> TRUE]
Bullet(col) == [col |-> col, mark |-> "bullet", number |-> 0, first |-> TRUE]
Prose(col)  == [col |-> col, mark |-> "none", number |-> 0, first |-> TRUE]
Beside(col, number) == [Numbered(col, number) EXCEPT !.first = FALSE]

-----------------------------------------------------------------------------
(* The lists in a document.                                                *)

Items(ls) == {i \in DOMAIN ls : ls[i].mark # "none"}

\* Whether line i is inside the item that line j begins.
Inside(ls, i, j) == \A k \in (j + 1)..i : ls[k].col >= ls[j].col + Width(ls[j])

\* The item a line is directly in, 0 for none.
ItemAround(ls, i) == Max({0} \union {j \in Items(ls) : j < i /\ Inside(ls, i, j)})

\* Whether two items are of one list: of one kind, and nothing else beside them.
OneList(ls, i, j) ==
  /\ ItemAround(ls, i) = ItemAround(ls, j)
  /\ \A k \in Min({i, j})..Max({i, j}) :
       ItemAround(ls, k) = ItemAround(ls, i) => ls[k].mark = ls[i].mark

\* A list, as the items in it.
ListOf(ls, i) == {j \in Items(ls) : OneList(ls, i, j)}
Lists(ls) == {ListOf(ls, i) : i \in Items(ls)}

\* The last line of a list: everything in its last item.
LastLine(ls, list) ==
  Max({i \in DOMAIN ls : i >= Max(list) /\ (i = Max(list) \/ Inside(ls, i, Max(list)))})

\* The parser's events: a list opens before its first item and closes after all that is
\* in its last one, an inner list before the one around it.
Events(ls) ==
  LET opens  == {[kind |-> "open", list |-> l, at |-> Min(l), rank |-> 0] : l \in Lists(ls)}
      items  == {[kind |-> "item", list |-> ListOf(ls, i), at |-> i, rank |-> 1] : i \in Items(ls)}
      closes == {[kind |-> "close", list |-> l, at |-> LastLine(ls, l),
                  rank |-> 2 + Len(ls) - Min(l)] : l \in Lists(ls)}
  IN  Sorted(opens \union items \union closes,
                   LAMBDA d, e : d.at < e.at \/ (d.at = e.at /\ d.rank < e.rank))

-----------------------------------------------------------------------------
(* edit.rs.                                                                *)

Overlaps(ls, list, from, to) == Min(list) <= to /\ LastLine(ls, list) >= from

\* A plausible slip: a list is wanted when it overlaps the range itself.
OpenedAlone(ls, walk, list, from, to) ==
  [walk EXCEPT !.stack = Append(@, [next |-> ls[Min(list)].number,
                                    ordered |-> ls[Min(list)].mark = "number",
                                    wanted |-> Overlaps(ls, list, from, to)])]

\* A list is wanted when it overlaps the range or is inside one that does.
Opened(ls, walk, list, from, to) ==
  [walk EXCEPT !.stack = Append(@, [next |-> ls[Min(list)].number,
                                    ordered |-> ls[Min(list)].mark = "number",
                                    wanted |-> \/ Overlaps(ls, list, from, to)
                                               \/ @ # << >> /\ Last(@).wanted])]

\* Where the line of an entry begins.
LineStart(ls, i) == Max({j \in 1..i : ls[j].first})

\* An item of an ordered list takes the number the list is at; bullets take none.
Item(walk, i) ==
  LET top == Last(walk.stack)
  IN  IF ~top.ordered THEN walk
      ELSE [stack   |-> Append(Front(walk.stack), [top EXCEPT !.next = @ + 1]),
            numbers |-> IF top.wanted THEN [walk.numbers EXCEPT ![i] = top.next]
                        ELSE walk.numbers]

Closed(walk) == [walk EXCEPT !.stack = Front(@)]

\* renumber(): the number each item is to have, where that is to be written; elsewhere
\* the one its line begins with, and a number that is there already is no edit.
Renumbered(ls, from, to) ==
  LET events == Events(ls)
      start  == [stack |-> << >>, numbers |-> [i \in DOMAIN ls |-> ls[LineStart(ls, i)].number]]
      step(walk, e) ==
        CASE e.kind = "open"  -> Opened(ls, walk, e.list, from, to)
          [] e.kind = "item"  -> Item(walk, e.at)
          [] e.kind = "close" -> Closed(walk)
      walks[n \in 0..Len(events)] ==
        IF n = 0 THEN start ELSE step(walks[n - 1], events[n])
  IN  walks[Len(events)].numbers

\* with_number() writes an item's number over the one its line begins with, and of two
\* edits of a line the client makes the inner item's last, each of the line as it was.
Written(ls, numbers) ==
  [i \in DOMAIN ls |->
     LET edits == {k \in DOMAIN ls : LineStart(ls, k) = i /\ numbers[k] # ls[i].number}
     IN  IF ls[i].first /\ ls[i].mark = "number" /\ edits # {} THEN numbers[Max(edits)]
         ELSE ls[i].number]

\* What is behind a number on its line moves when the number grows wider.
PutOn(ls, numbers) ==
  [i \in DOMAIN ls |->
     LET s == LineStart(ls, i)
     IN  [ls[i] EXCEPT !.number = numbers[i],
                       !.col = IF s = i THEN @
                               ELSE @ + Width([ls[s] EXCEPT !.number = numbers[s]]) - Width(ls[s])]]

\* One renumbering of a range of lines.
Renumber(from, to) ==
  /\ range = NoRange
  /\ before' = listText
  /\ range' = <<from, to>>
  /\ listText' = PutOn(listText, Written(listText, Renumbered(listText, from, to)))

ListInit ==
  /\ listText \in ListDrafts
  /\ before = listText
  /\ range = NoRange

ListNext ==
  \E from, to \in DOMAIN listText :
    /\ from <= to /\ listText[from].first
    /\ to < Len(listText) => listText[to + 1].first
    /\ Renumber(from, to)

ListSpec == ListInit /\ [][ListNext]_listVars

-----------------------------------------------------------------------------
(* Properties.                                                             *)

\* The lists a range touches, and every list inside one of them.
Touched(ls, i, from, to) ==
  \E l \in Lists(ls) :
    /\ \E k \in from..to : Min(l) <= k /\ k <= LastLine(ls, l)
    /\ Min(l) <= i /\ i <= LastLine(ls, l)

\* The number an item is due.
Due(ls, i) ==
  ls[Min(ListOf(ls, i))].number + Cardinality({j \in ListOf(ls, i) : j < i})

\* An item is as it is due when its list was touched, and as it was otherwise.
Right(i) ==
  listText[i].number = IF before[i].mark = "number" /\ Touched(before, i, range[1], range[2])
                       THEN Due(before, i) ELSE before[i].number

\* A number with an ordered item behind it on its line: the digits of the line are
\* written over for both (renumber(), with_number()).
WrittenOver(i) ==
  /\ before[i].first /\ before[i].mark = "number"
  /\ \E k \in DOMAIN before :
       /\ k # i /\ LineStart(before, k) = i /\ before[k].mark = "number"
       /\ Touched(before, k, range[1], range[2])

\* After a renumbering every list it touched counts up by one from the number it
\* declares, on its own whatever is nested in it, stands between its items or begins
\* behind their markers, and every other item is as it was; a number is the exception
\* that has an ordered list beginning behind it on its line (renumber(), with_number()).
CountsUp == \A i \in DOMAIN listText : WrittenOver(i) \/ Right(i)

\* What the doc comment of renumber() says: every list counts up, those too that have an
\* ordered list begin behind a number of theirs.
EveryListCountsUp == \A i \in DOMAIN listText : Right(i)

\* What the test `renumbering_an_ordered_list_is_idempotent` says: a list that has been
\* renumbered is numbered, and doing it again changes nothing (renumber()).  A number
\* that grew wider takes the lists that were nested in its item out of it.
OnceIsEnough ==
  (\A i \in DOMAIN listText : ~ WrittenOver(i))
    => \A i \in DOMAIN listText :
         Written(listText, Renumbered(listText, range[1], range[2]))[i] = listText[i].number
=============================================================================
