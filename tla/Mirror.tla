------------------------------- MODULE Mirror -------------------------------
(***************************************************************************)
(* What a browser preview promises, whatever becomes of frames and         *)
(* streams.                                                                *)
(*                                                                         *)
(* Documents are written one after another.  A viewer sees one of them or  *)
(* nothing it vouches for; what it sees is never older than what it was at *)
(* before, unless it fell so far behind that it is given old ones again.   *)
(***************************************************************************)
EXTENDS Naturals, Sequences

CONSTANT Viewers

VARIABLES
  written,  \* the documents, in order
  at,       \* the number of the document a viewer is at, 0 for none yet
  view,     \* the document it sees and vouches for, as a set: none or one
  late      \* whether it has fallen behind since it opened

vars == <<written, at, view, late>>

Init ==
  /\ Len(written) = 1
  /\ at = [v \in Viewers |-> 0]
  /\ view = [v \in Viewers |-> {}]
  /\ late = [v \in Viewers |-> FALSE]

Write ==
  /\ Len(written') = Len(written) + 1
  /\ SubSeq(written', 1, Len(written)) = written
  /\ UNCHANGED <<at, view, late>>

\* A viewer moves to a document, and sees it or vouches for nothing.
MovesTo(v, i) ==
  /\ at' = [at EXCEPT ![v] = i]
  /\ \E seen \in SUBSET {written[i]} : view' = [view EXCEPT ![v] = seen]
  /\ UNCHANGED <<written, late>>

Follow(v) == \E i \in DOMAIN written : i >= at[v] /\ MovesTo(v, i)

Replay(v) == late[v] /\ \E i \in DOMAIN written : MovesTo(v, i)

FallBehind(v) ==
  /\ late' = [late EXCEPT ![v] = TRUE]
  /\ UNCHANGED <<written, at, view>>

\* A viewer begins again, from nothing.
Leave(v) ==
  /\ at' = [at EXCEPT ![v] = 0]
  /\ view' = [view EXCEPT ![v] = {}]
  /\ late' = [late EXCEPT ![v] = FALSE]
  /\ UNCHANGED written

\* Another document begins, which nobody sees yet.
Begin ==
  /\ Len(written') = 1
  /\ at' = [v \in Viewers |-> 0]
  /\ view' = [v \in Viewers |-> {}]
  /\ \E still \in SUBSET Viewers : late' = [v \in Viewers |-> v \in still]

Next ==
  \/ Write
  \/ Begin
  \/ \E v \in Viewers : Follow(v) \/ Replay(v) \/ FallBehind(v) \/ Leave(v)

Spec == Init /\ [][Next]_vars
=============================================================================
