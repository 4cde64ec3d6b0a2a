------------------------------ MODULE MCRender ------------------------------
(***************************************************************************)
(* Instances of RenderProtocol small enough to enumerate.                  *)
(*                                                                         *)
(* Four texts, two rows each: one plain, one with the second row changed,  *)
(* one with the first row changed too, one with a blank line put above.    *)
(* Between some a patch is worth sending and between others it is not; two *)
(* differ in nothing but their source lines.  In a narrow window the first *)
(* row breaks in two.                                                      *)
(***************************************************************************)
EXTENDS RenderProtocol

Plain == "plain"
Second == "second"
Both == "both"
Lower == "lower"

MCTyped == {Plain, Second, Both}
MCMoved == {Plain, Lower}
MCTwo == {Plain, Second}

R(look, src) == [look |-> look, src |-> src]

Rows(doc) ==
  CASE doc = Plain  -> << R("a", 1), R("b", 2) >>
    [] doc = Second -> << R("a", 1), R("c", 2) >>
    [] doc = Both   -> << R("d", 1), R("c", 2) >>
    [] doc = Lower  -> << R("a", 2), R("b", 3) >>

MCLayout(doc, width) ==
  IF width = 80 THEN Rows(doc) ELSE << R("w", Rows(doc)[1].src) >> \o Rows(doc)

MCIndex(doc, width) == IF doc = Plain THEN 1 ELSE 2

MCLooks == {"a", "b", "c", "d", "w"}
MCCost == [l \in MCLooks |-> 16]

Nothing == [opens |-> [k \in Keys |-> 0], edits |-> 0, resizes |-> 0, switches |-> 0,
            refreshes |-> 0,
            toggles |-> 0, closes |-> 0, crashes |-> 0, timeouts |-> 0]

\* A window; any other stays unopened.
One == [k \in Keys |-> IF k = CHOOSE any \in Keys : TRUE THEN 1 ELSE 0]

\* One window, edited, resized, with renders that fail or time out, while the
\* daemon is started, dies and is restarted.
Editing == [Nothing EXCEPT !.opens = One, !.edits = 1, !.resizes = 1, !.timeouts = 1,
                           !.crashes = 1]

\* One window that changes buffers, with tasks toggled from the preview.
Sources == [Nothing EXCEPT !.opens = One, !.switches = 1, !.toggles = 1, !.edits = 1,
                           !.refreshes = 1]

\* Two windows on one buffer and room for one of them in the daemon's memory.
Windows == [Nothing EXCEPT !.opens = [k \in Keys |-> 1], !.edits = 1, !.closes = 1]

\* The user rests after two keystrokes and a crash.
Settling == [Nothing EXCEPT !.opens = One, !.edits = 2, !.crashes = 1]

\* Two keystrokes, the second while the render of the first is on its way.
Drifting == [Nothing EXCEPT !.opens = One, !.edits = 2]

\* One window, narrower than the renderer goes.
Narrowing == [Nothing EXCEPT !.opens = One, !.resizes = 1]

Cold(budget) == [job |-> "none", left |-> budget]
Up(budget)   == [job |-> "run", left |-> budget]

MCEditing   == {Cold(Editing)}
MCSources   == {Up(Sources), Up(Windows)}
MCResting   == {Cold(Settling), Cold(Nothing)}
MCDrifting  == {Up(Drifting)}
MCNarrowing == {Up(Narrowing)}
=============================================================================
