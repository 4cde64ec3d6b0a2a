----------------------------- MODULE MCBrowser ------------------------------
(***************************************************************************)
(* Pages small enough to enumerate: one of three blocks, one with a block  *)
(* changed, one with a line put above it, one with a line put above its    *)
(* first block and one taken out below, one with a block that a browser    *)
(* makes two elements of; footnotes end them, at no source line.  And one  *)
(* that is all new.                                                        *)
(***************************************************************************)
EXTENDS EventStream

\* The block `b` is of two source lines, any other of one.
B(look, line) == [look |-> look, lines |-> IF look = "b" THEN << line, line + 1 >> ELSE << line >>]
Of(blocks, title) == [blocks |-> blocks, title |-> title, toc |-> title, splittable |-> TRUE]

MCPage ==
  [plain |-> Of(<< B("a", 1), B("b", 3), B("n", 0) >>, "one"),
   typed |-> Of(<< B("a", 1), B("d", 3), B("n", 0) >>, "one"),
   lower |-> Of(<< B("a", 2), B("b", 4), B("n", 0) >>, "two"),
   uneven |-> Of(<< B("a", 2), B("b", 3), B("n", 0) >>, "one"),
   split |-> Of(<< B("a", 1), B("odd", 3), B("n", 0) >>, "one"),
   other |-> Of(<< B("x", 1), B("y", 2) >>, "one")]

MCElements == [l \in {"a", "b", "d", "n", "odd", "x", "y"} |-> IF l = "odd" THEN 2 ELSE 1]
MCSize == [l \in {"a", "b", "d", "n", "odd", "x", "y"} |-> 1]

Quiet == [updates |-> 0, opts |-> 0, cursors |-> 0, stops |-> 0, reopens |-> 0, loads |-> 0,
          closes |-> 0, drops |-> 0, looks |-> 0, rests |-> 0]

\* A page that is edited under while its stream breaks, gives up or falls behind;
\* one that is closed, or whose options are set; one whose server is stopped or
\* dies, and is started again.
Browsing ==
  {Quiet,
   [Quiet EXCEPT !.loads = 1, !.updates = 2, !.cursors = 1, !.drops = 2, !.looks = 1],
   [Quiet EXCEPT !.loads = 1, !.updates = 3, !.rests = 1],
   [Quiet EXCEPT !.loads = 2, !.updates = 1, !.closes = 1, !.opts = 2, !.drops = 1],
   [Quiet EXCEPT !.loads = 1, !.updates = 2, !.stops = 1, !.reopens = 1]}

\* A page whose stream falls behind three updates, one of them a rewrite.
Lagging == {[Quiet EXCEPT !.loads = 1, !.updates = 3]}

\* A page whose server dies, and another is opened on its port.
Reusing == {[Quiet EXCEPT !.loads = 1, !.reopens = 1]}

\* A page with one update.
Shifting == {[Quiet EXCEPT !.loads = 1, !.updates = 1]}
=============================================================================
