------------------------------ MODULE RowPatch ------------------------------
(***************************************************************************)
(* The incremental reply, as pure functions: the splice the daemon         *)
(* computes between the rows it last sent and the rows it has just         *)
(* rendered, the independent repair of the row -> source map that travels  *)
(* with it, and what the editor does with both.                            *)
(*                                                                         *)
(* A row is what it looks like (text and text properties together) and the *)
(* source line it came from, 0 for a row that came from no line.           *)
(***************************************************************************)
EXTENDS Integers, Sequences

CONSTANTS Looks,  \* every way a row can look
          Cost    \* what a row of each look costs on the wire

ASSUME CostAssumption == Cost \in [Looks -> Nat \ {0}]

Row == [look : Looks, src : Nat]

\* Rows compare on appearance alone: `impl PartialEq for Line`.
SameLook(a, b) == a.look = b.look

\* The row -> source map of a sequence of rows.
SrcMap(rows) == [i \in 1..Len(rows) |-> rows[i].src]

\* The rows with their source map replaced, entry for entry.
WithSrc(rows, map) == [i \in 1..Len(rows) |-> [rows[i] EXCEPT !.src = map[i]]]

Shorter(m, n) == IF m <= n THEN m ELSE n

-----------------------------------------------------------------------------
(* The daemon's side.                                                      *)

\* The length of the longest common prefix of two documents.
CommonHead(prev, next) ==
  LET room == Shorter(Len(prev), Len(next))
  IN  CHOOSE h \in 0..room :
        /\ \A i \in 1..h : SameLook(prev[i], next[i])
        /\ h < room => ~ SameLook(prev[h + 1], next[h + 1])

\* The length of the longest common suffix of what the prefix left over.
CommonTail(prev, next, head) ==
  LET room == Shorter(Len(prev), Len(next)) - head
      Same(i) == SameLook(prev[Len(prev) - i], next[Len(next) - i])
  IN  CHOOSE t \in 0..room :
        /\ \A i \in 0..(t - 1) : Same(i)
        /\ t < room => ~ Same(t)

\* list[from-1 : from-1+del] = replacement
Splice(list, from, del, replacement) ==
  SubSeq(list, 1, from - 1) \o replacement \o SubSeq(list, from + del, Len(list))

NoFix == [kind |-> "none"]
ShiftFix(from, delta) == [kind |-> "shift", from |-> from, delta |-> delta]
TailFix(from, tail) == [kind |-> "tail", from |-> from, tail |-> tail]

\* The first row the spliced map and the new document disagree on.
FirstDisagreement(have, want) ==
  CHOOSE i \in 1..Len(have) :
    /\ have[i] # want[i]
    /\ \A j \in 1..(i - 1) : have[j] = want[j]

\* A plausible slip: rows without a line are left to the editor, which skips them.
MovesAsOneOrSkips(have, want, start) ==
  LET delta == want[start] - have[start]
  IN  \A i \in start..Len(have) : have[i] > 0 => want[i] - have[i] = delta

\* Whether one integer carries every entry from `start` on to its new place.
\* A row without a source line has to stay one; it is not something that moves.
MovesAsOne(have, want, start) ==
  LET delta == want[start] - have[start]
  IN  \A i \in start..Len(have) :
        IF have[i] = 0 \/ want[i] = 0 THEN have[i] = want[i]
                                      ELSE want[i] - have[i] = delta

\* What still has to happen to the map `have` for it to be `want`.
SrcCorrection(have, want) ==
  IF have = want THEN NoFix
  ELSE LET start == FirstDisagreement(have, want)
       IN  IF MovesAsOne(have, want, start)
           THEN ShiftFix(start, want[start] - have[start])
           ELSE TailFix(start, SubSeq(want, start, Len(want)))

\* The rows that changed, as one splice, with the repair of the map the editor
\* will be holding once it has made that splice.
Diff(prev, next) ==
  LET head == CommonHead(prev, next)
      tail == CommonTail(prev, next, head)
      from == head + 1
      del  == Len(prev) - head - tail
      rows == SubSeq(next, head + 1, Len(next) - tail)
  IN  [from |-> from,
       del  |-> del,
       rows |-> rows,
       fix  |-> SrcCorrection(SrcMap(Splice(prev, from, del, rows)), SrcMap(next))]

WireSize(rows) ==
  LET sum[n \in 0..Len(rows)] ==
        IF n = 0 THEN 0 ELSE sum[n - 1] + Cost[rows[n].look]
  IN  sum[Len(rows)]

PatchSize(patch) ==
  WireSize(patch.rows)
    + (IF patch.fix.kind = "tail" THEN 5 * Len(patch.fix.tail) ELSE 0)

\* A patch is sent only when it is at most half of the document.
WorthSending(patch, next) == PatchSize(patch) * 2 <= WireSize(next)

-----------------------------------------------------------------------------
(* The editor's side.                                                      *)

ChangesNoRow(patch) == patch.del = 0 /\ patch.rows = << >>

\* Whether the splice can be made in what the editor is holding.
SpliceFits(held, patch) ==
  \/ ChangesNoRow(patch)
  \/ /\ patch.from - 1 + patch.del <= Len(held)
     /\ held # << >>

Spliced(held, patch) ==
  IF ChangesNoRow(patch) THEN held
  ELSE Splice(held, patch.from, patch.del, patch.rows)

\* Whether the repair of the map can be made in it.
FixFits(held, fix) ==
  \/ fix.kind = "none"
  \/ fix.kind = "shift" /\ fix.from \in 1..Len(held)
  \/ /\ fix.kind = "tail"
     /\ fix.from \in 1..Len(held)
     /\ fix.from - 1 + Len(fix.tail) = Len(held)

\* A plausible slip: rows without a line move with the others.
FixedMapMovingAll(map, fix) ==
  CASE fix.kind = "none"  -> map
    [] fix.kind = "shift" ->
         [i \in 1..Len(map) |-> IF i >= fix.from THEN map[i] + fix.delta ELSE map[i]]
    [] fix.kind = "tail"  ->
         [i \in 1..Len(map) |->
            IF i >= fix.from THEN fix.tail[i - fix.from + 1] ELSE map[i]]

\* The map once repaired.
FixedMap(map, fix) ==
  CASE fix.kind = "none"  -> map
    [] fix.kind = "shift" ->
         [i \in 1..Len(map) |->
            IF i >= fix.from /\ map[i] > 0 THEN map[i] + fix.delta ELSE map[i]]
    [] fix.kind = "tail"  ->
         [i \in 1..Len(map) |->
            IF i >= fix.from THEN fix.tail[i - fix.from + 1] ELSE map[i]]

PatchFits(held, patch) ==
  /\ SpliceFits(held, patch)
  /\ FixFits(Spliced(held, patch), patch.fix)

\* What the editor holds afterwards: a splice that does not fit is not begun, a
\* repair that does not fit leaves the rows already spliced.
Patched(held, patch) ==
  IF ~ SpliceFits(held, patch) THEN held
  ELSE LET rows == Spliced(held, patch)
       IN  IF FixFits(rows, patch.fix)
           THEN WithSrc(rows, FixedMap(SrcMap(rows), patch.fix))
           ELSE rows

\* The checksum that travels with the map.
SourceSum(rows) ==
  LET sum[n \in 0..Len(rows)] == IF n = 0 THEN 0 ELSE sum[n - 1] + rows[n].src
  IN  sum[Len(rows)]
=============================================================================
