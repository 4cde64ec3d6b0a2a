----------------------------- MODULE BlockPatch -----------------------------
(***************************************************************************)
(* The update of a browser page as a splice of its blocks: block_patch()   *)
(* of serve.rs makes it, applyPatch() of preview.js takes it.              *)
(*                                                                         *)
(* A page is its blocks, its title and its contents rail. A block is its   *)
(* markup but for the source lines in it (`look`, what                     *)
(* same_but_for_lines() compares) and the `data-line`s in it, the block's  *)
(* own first, 0 for a block of no source line. A page of the browser is a  *)
(* sequence of children of #sm-doc; the markup of a block parses to        *)
(* Elements[look] of them, one unless it holds inline HTML that closes its *)
(* paragraph.                                                              *)
(***************************************************************************)
EXTENDS Integers, Sequences, FiniteSets, SequencesExt, FiniteSetsExt

CONSTANTS Elements,  \* elements a browser makes of the markup of one block
          Size       \* the bytes of that markup

Same == "same"   \* a field the frame leaves out: the page keeps its own

Line(block) == block.lines[1]

Bytes(blocks) == FoldSeq(LAMBDA b, n : Size[b.look] + n, 0, blocks)

-----------------------------------------------------------------------------
(* The daemon: block_patch(before, after).                                 *)

SameButForLines(a, b) == a.look = b.look

\* The blocks both pages begin with, and those both end with.
SameHead(old, new) ==
  Max({h \in 0..Min({Len(old), Len(new)}) :
         \A i \in 1..h : SameButForLines(old[i], new[i])})

SameTail(old, new, head) ==
  Max({t \in 0..(Min({Len(old), Len(new)}) - head) :
         \A i \in 0..(t - 1) : SameButForLines(old[Len(old) - i], new[Len(new) - i])})

\* The places in `old` of the blocks that survive the splice, and where each
\* of them is in `new`.
Survivors(old, head, tail) == (1..head) \union ((Len(old) - tail + 1)..Len(old))
Now(i, old, new, head) == IF i <= head THEN i ELSE i + Len(new) - Len(old)

Moved(old, new, head, tail) ==
  {i \in Survivors(old, head, tail) : Line(old[i]) # Line(new[Now(i, old, new, head)])}

Delta(i, old, new, head) == Line(new[Now(i, old, new, head)]) - Line(old[i])

\* Whether one integer says how every block that moved has moved.
OneShift(old, new, head, moved) ==
  /\ \A i \in moved : Line(old[i]) # 0 /\ Line(new[Now(i, old, new, head)]) # 0
  /\ \A i, j \in moved : Delta(i, old, new, head) = Delta(j, old, new, head)

NoShift == [from |-> 0, delta |-> 0]
ShiftOf(old, new, head, moved) ==
  IF moved = {} THEN NoShift
  ELSE [from |-> Min(moved), delta |-> Delta(Min(moved), old, new, head)]

NoSplice == [from |-> 0, del |-> 0, blocks |-> << >>, shift |-> NoShift, whole |-> TRUE]

SpliceBlocks(before, after) ==
  LET old   == before.blocks
      new   == after.blocks
      head  == SameHead(old, new)
      tail  == SameTail(old, new, head)
      moved == Moved(old, new, head, tail)
      kept  == SubSeq(new, head + 1, Len(new) - tail)
  IN  IF \/ ~before.splittable \/ ~after.splittable
         \/ ~OneShift(old, new, head, moved)
         \/ 2 * Bytes(kept) > Bytes(new)
      THEN NoSplice
      ELSE [from   |-> head,
            del    |-> Len(old) - head - tail,
            blocks |-> kept,
            shift  |-> ShiftOf(old, new, head, moved),
            whole  |-> FALSE]

-----------------------------------------------------------------------------
(* The page: what a browser makes of markup, and applyPatch() on it.       *)

Child(block, part) ==
  [look |-> block.look, part |-> part, lines |-> IF part = 1 THEN block.lines ELSE << >>]

Children(blocks) ==
  FlattenSeq([i \in 1..Len(blocks) |->
                [part \in 1..Elements[blocks[i].look] |-> Child(blocks[i], part)]])

\* shiftLines(): every source line in the children from `from` on, those of no
\* line excepted.
ShiftLines(children, shift) ==
  [i \in 1..Len(children) |->
     IF shift = NoShift \/ i < shift.from THEN children[i]
     ELSE [children[i] EXCEPT !.lines =
             [n \in DOMAIN @ |-> IF @[n] > 0 THEN @[n] + shift.delta ELSE @[n]]]]

Fits(children, splice) == splice.from + splice.del <= Len(children)

\* First the shift, of the children as they stand, then the splice.
SplicedBlocks(children, splice) ==
  LET shifted == ShiftLines(children, splice.shift)
  IN  SubSeq(shifted, 1, splice.from)
        \o Children(splice.blocks)
        \o SubSeq(shifted, splice.from + splice.del + 1, Len(children))
=============================================================================
