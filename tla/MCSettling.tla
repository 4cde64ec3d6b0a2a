----------------------------- MODULE MCSettling -----------------------------
(***************************************************************************)
(* What must come in the end, in either preview: a behaviour is one of the *)
(* terminal's, as RenderProtocol has it, or one of the browser's, as       *)
(* EventStream has it, and the other preview is not there.                 *)
(***************************************************************************)
EXTENDS MCRender, MCBrowser

ASSUME SettlingIsExact == BlocksMoveAsOne /\ PatchesAreExact

VARIABLE part  \* which of the two previews this behaviour is about

NoPreview == Init /\ left = Nothing /\ \A b \in Bufs : buf[b].doc = Plain
NoBrowser == StreamInit /\ spare = Quiet /\ published = << MCPage.plain >>

SettlingInit ==
  \/ part = "preview" /\ Init /\ NoBrowser
  \/ part = "browser" /\ StreamInit /\ NoPreview

SettlingNext ==
  \/ part = "preview" /\ Next /\ UNCHANGED <<streamVars, part>>
  \/ part = "browser" /\ StreamNext /\ UNCHANGED <<vars, part>>

SettlingSpec ==
  /\ SettlingInit /\ [][SettlingNext]_<<vars, streamVars, part>>
  /\ Fairness /\ StreamFairness
=============================================================================
