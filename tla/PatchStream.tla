---------------------------- MODULE PatchStream ----------------------------
(***************************************************************************)
(* One preview window in lock step with the daemon: every render is        *)
(* answered before the next is asked for.  This is the conversation the    *)
(* incremental reply was designed for, and the reference the asynchronous  *)
(* protocol of RenderProtocol is held against.                             *)
(*                                                                         *)
(* The question it settles is whether the patch is right, for every pair   *)
(* of documents: what the editor holds afterwards is the document the      *)
(* daemon rendered, rows and row -> source map both.                       *)
(***************************************************************************)
EXTENDS RowPatch

CONSTANT Documents  \* the row sequences a document can be laid out as

ASSUME DocumentsAssumption == Documents \subseteq Seq(Row)

VARIABLES lastSent,     \* the rows the daemon believes the editor is holding
          holding,     \* the rows the editor is holding
          resyncs   \* whether a patch has ever failed to fit

patchVars == <<lastSent, holding, resyncs>>

PatchTypeOK ==
  /\ lastSent \in Seq(Row)
  /\ holding \in Seq(Row)
  /\ resyncs \in BOOLEAN

PatchInit ==
  /\ lastSent \in Documents
  /\ holding = lastSent
  /\ resyncs = FALSE

\* The daemon has rendered `next`; a patch small enough to be worth it is sent
\* as one, and the editor splices it into what it holds.
SendPatch(next) ==
  LET patch == Diff(lastSent, next)
  IN  /\ WorthSending(patch, next)
      /\ lastSent' = next
      /\ holding' = Patched(holding, patch)
      /\ resyncs' = (resyncs \/ ~ PatchFits(holding, patch))

\* Anything else is sent whole.
SendWhole(next) ==
  /\ ~ WorthSending(Diff(lastSent, next), next)
  /\ lastSent' = next
  /\ holding' = next
  /\ UNCHANGED resyncs

PatchNext == \E next \in Documents : SendPatch(next) \/ SendWhole(next)

PatchSpec == PatchInit /\ [][PatchNext]_patchVars

-----------------------------------------------------------------------------
\* What the editor holds after any number of patches is what the daemon
\* rendered, and no patch ever had to be refused: `diff` and `src_correction`
\* on one side, `ApplyPatch` and `PatchSourceMap` on the other, are inverse to
\* one another on every pair of documents.
InSync == holding = lastSent /\ ~ resyncs
=============================================================================
