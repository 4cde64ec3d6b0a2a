--------------------------- MODULE CancelledTable ---------------------------
(***************************************************************************)
(* The daemon's memory of withdrawn requests: a set for the lookup and a   *)
(* queue for the order they arrived in, kept in step by hand and bounded.  *)
(* These are the operations the daemon's loop and its tasks call.          *)
(***************************************************************************)
EXTENDS Naturals, Sequences, FiniteSets, Retaining

CONSTANT MaxCancelled  \* withdrawn ids remembered at most (MAX_CANCELLED)

ASSUME MaxCancelledAssumption == MaxCancelled \in Nat \ {0}

NoneCancelled == [ids |-> {}, order |-> << >>]

\* A plausible slip: an id already remembered is queued again.
NoteEveryTime(table, id) ==
  LET noted == [ids |-> table.ids \cup {id}, order |-> Append(table.order, id)]
  IN  IF Cardinality(noted.ids) > MaxCancelled
      THEN [ids   |-> noted.ids \ {Head(noted.order)},
            order |-> Tail(noted.order)]
      ELSE noted

\* `note_cancelled`.  One insertion can only ever be one too many, so the
\* code's loop runs at most once.
NoteCancelled(table, id) ==
  LET noted == IF id \in table.ids THEN table
               ELSE [ids |-> table.ids \cup {id}, order |-> Append(table.order, id)]
  IN  IF Cardinality(noted.ids) > MaxCancelled
      THEN [ids   |-> noted.ids \ {Head(noted.order)},
            order |-> Tail(noted.order)]
      ELSE noted

\* A plausible slip: the id stays in the queue.
ForgiveInSetOnly(table, id) == [table EXCEPT !.ids = @ \ {id}]

\* `CancelledRequests::remove`: whether the id was there is asked beforehand.
Forgive(table, id) ==
  [ids   |-> table.ids \ {id},
   order |-> Dropping(table.order, {id})]
=============================================================================
