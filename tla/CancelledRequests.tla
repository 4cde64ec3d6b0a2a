------------------------- MODULE CancelledRequests -------------------------
(***************************************************************************)
(* The table of withdrawn requests alone, driven by any client at all. The *)
(* client that ships sends increasing ids and withdraws each once, but the *)
(* wire is public: ids arrive in any order, again and again.               *)
(***************************************************************************)
EXTENDS CancelledTable

CONSTANTS ClientIds,      \* the request ids a client may name
          MaxNotes  \* bound: how many withdrawals a behaviour has

VARIABLES memory,    \* the two halves of the memory
          notes,    \* withdrawals received so far
          since     \* for every id, the withdrawal that put it in the table

memoryVars == <<memory, notes, since>>

MemoryInit ==
  /\ memory = NoneCancelled
  /\ notes = 0
  /\ since = [id \in ClientIds |-> 0]

Note(id) ==
  /\ notes < MaxNotes
  /\ memory' = NoteCancelled(memory, id)
  /\ notes' = notes + 1
  /\ since' = IF id \in memory.ids THEN since ELSE [since EXCEPT ![id] = notes']

\* A render finds its own id withdrawn and takes it off the table.
Take(id) ==
  /\ id \in memory.ids
  /\ memory' = Forgive(memory, id)
  /\ UNCHANGED <<notes, since>>

MemoryNext == \E id \in ClientIds : Note(id) \/ Take(id)

MemorySpec == MemoryInit /\ [][MemoryNext]_memoryVars

-----------------------------------------------------------------------------
\* The set and the queue hold the same ids, each once, and never more of them
\* than the bound: neither half can grow behind the other's back, whatever
\* order a client sends and reuses ids in.
HalvesAgree ==
  /\ memory.ids = {memory.order[i] : i \in 1..Len(memory.order)}
  /\ Len(memory.order) = Cardinality(memory.ids)
  /\ Cardinality(memory.ids) <= MaxCancelled

\* An id leaves the table because its render took it, or because it had been
\* there longest of all.  An id that was taken and is withdrawn again counts
\* from its second withdrawal: nothing left over from its first life may evict it.
OnlyTheOldestIsEvicted ==
  [][ \A id \in memory.ids \ memory'.ids :
        \/ notes' = notes
        \/ \A other \in memory.ids : since[id] <= since[other] ]_memoryVars
=============================================================================
