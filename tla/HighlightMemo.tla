--------------------------- MODULE HighlightMemo ----------------------------
(***************************************************************************)
(* The memo of highlighted code blocks: block() of highlight.rs, which     *)
(* every render of either preview calls for each code block it comes to.   *)
(* The memo is looked into under a lock and added to under a lock, and the *)
(* block is highlighted between the two by whoever did not find it.        *)
(*                                                                         *)
(* A block is its language (`token`), its text (`code`), the hash of both, *)
(* the size of the text and what an entry for it weighs.                   *)
(***************************************************************************)
EXTENDS Integers, Sequences, SequencesExt, FiniteSets, FiniteSetsExt, Functions

CONSTANTS
  Painters,    \* the renders that run at once
  Fences,      \* the sets of blocks a document may have
  MaxLookups,  \* bound: how often the memo is asked
  MemoBudget,  \* CACHE_BUDGET
  MaxKept      \* CACHE_MAX_BYTES

ASSUME PaintAssumption ==
  /\ \A blocks \in Fences : \A fence \in blocks : fence.weight \in Nat
  /\ MemoBudget \in Nat

VARIABLES
  fences,    \* the blocks of this document
  memo,      \* the cache: entries by hash, the hashes as they arrived, and their weight
  painting,  \* the block a render highlights, or NoFence
  colours,   \* the last answer: the block asked about, and the one it was highlighted as
  lookups    \* how often the memo may still be asked

paintVars == <<fences, memo, painting, colours, lookups>>

NoFence == [token |-> "", code |-> "", hash |-> 0, size |-> 0, weight |-> 0]

\* A plausible slip: the hash is taken for the block.
HoldsItsHash(fence) == fence.hash \in DOMAIN memo.entries

\* Entries are compared and not trusted.
HeldAs(fence) ==
  /\ fence.hash \in DOMAIN memo.entries
  /\ memo.entries[fence.hash].token = fence.token
  /\ memo.entries[fence.hash].code = fence.code

Cacheable(fence) == fence.size <= MaxKept

Asks(painter, fence) ==
  /\ painting[painter] = NoFence
  /\ fence \in fences
  /\ lookups > 0 /\ lookups' = lookups - 1
  /\ UNCHANGED <<fences, memo>>

\* A block of no language is not highlighted, and one that is held is not again.
NoLanguage(painter, fence) ==
  /\ Asks(painter, fence) /\ fence.token = ""
  /\ colours' = [asked |-> fence, given |-> NoFence]
  /\ UNCHANGED painting

Hits(painter, fence) ==
  /\ Asks(painter, fence) /\ fence.token # ""
  /\ Cacheable(fence) /\ HeldAs(fence)
  /\ colours' = [asked |-> fence, given |-> memo.entries[fence.hash]]
  /\ UNCHANGED painting

Misses(painter, fence) ==
  /\ Asks(painter, fence) /\ fence.token # ""
  /\ ~(Cacheable(fence) /\ HeldAs(fence))
  /\ painting' = [painting EXCEPT ![painter] = fence]
  /\ UNCHANGED colours

-----------------------------------------------------------------------------
(* Adding an entry.                                                        *)

\* A plausible slip: what is replaced goes on being charged for.
EnteredOverweight(fence) ==
  [entries |-> [h \in DOMAIN memo.entries \union {fence.hash} |->
                  IF h = fence.hash THEN fence ELSE memo.entries[h]],
   arrived |-> IF fence.hash \in DOMAIN memo.entries THEN memo.arrived
               ELSE Append(memo.arrived, fence.hash),
   bytes   |-> memo.bytes + fence.weight]

\* An entry of the same hash is replaced where it stands in the order of arrival.
Entered(fence) ==
  LET replaced == IF fence.hash \in DOMAIN memo.entries
                  THEN memo.entries[fence.hash].weight ELSE 0
  IN  [entries |-> [h \in DOMAIN memo.entries \union {fence.hash} |->
                      IF h = fence.hash THEN fence ELSE memo.entries[h]],
       arrived |-> IF fence.hash \in DOMAIN memo.entries THEN memo.arrived
                   ELSE Append(memo.arrived, fence.hash),
       bytes   |-> memo.bytes - replaced + fence.weight]

\* charged[n] is what the n oldest entries weigh.
Charged(m) ==
  LET charged[n \in 0..Len(m.arrived)] ==
        IF n = 0 THEN 0 ELSE charged[n - 1] + m.entries[m.arrived[n]].weight
  IN  charged

\* The oldest go until the budget is kept or the one just entered is the oldest, which
\* becomes the youngest.
Evicted(m, hash) ==
  LET left(n) == m.bytes - Charged(m)[n]
      n == Min({n \in 0..Len(m.arrived) :
                  \/ left(n) <= MemoBudget
                  \/ n < Len(m.arrived) /\ m.arrived[n + 1] = hash})
      rest == SubSeq(m.arrived, n + 1, Len(m.arrived))
  IN  [entries |-> Restrict(m.entries, ToSet(rest)),
       arrived |-> IF left(n) <= MemoBudget THEN rest ELSE Append(Tail(rest), hash),
       bytes   |-> left(n)]

Paints(painter) ==
  LET fence == painting[painter]
  IN  /\ fence # NoFence
      /\ painting' = [painting EXCEPT ![painter] = NoFence]
      /\ colours' = [asked |-> fence, given |-> fence]
      /\ memo' = IF Cacheable(fence) THEN Evicted(Entered(fence), fence.hash) ELSE memo
      /\ UNCHANGED <<fences, lookups>>

PaintInit ==
  /\ fences \in Fences
  /\ memo = [entries |-> << >>, arrived |-> << >>, bytes |-> 0]
  /\ painting = [p \in Painters |-> NoFence]
  /\ colours = [asked |-> NoFence, given |-> NoFence]
  /\ lookups = MaxLookups

PaintNext ==
  \E painter \in Painters :
    \/ Paints(painter)
    \/ \E fence \in fences :
         NoLanguage(painter, fence) \/ Hits(painter, fence) \/ Misses(painter, fence)

PaintSpec == PaintInit /\ [][PaintNext]_paintVars

-----------------------------------------------------------------------------
(* Properties.                                                             *)

\* A block has the colours of its own text, whatever else has its hash and whoever else
\* was highlighting it (block()).
ColoursAreItsOwn ==
  colours.given # NoFence =>
    colours.given.token = colours.asked.token /\ colours.given.code = colours.asked.code

\* However the same block or one of the same hash is highlighted twice at once, the
\* order of arrival has each entry once, what is charged is what is kept, and the
\* budget is kept too, unless two blocks of different weight have one hash or one is
\* over the budget by itself (block()).
MemoAddsUp ==
  /\ IsInjective(memo.arrived) /\ ToSet(memo.arrived) = DOMAIN memo.entries
  /\ memo.bytes = Charged(memo)[Len(memo.arrived)]
  /\ memo.bytes > MemoBudget =>
       \/ \E a, b \in fences : a.hash = b.hash /\ a.weight # b.weight
       \/ \E fence \in fences : fence.weight > MemoBudget

\* The memo answers for the block it was asked about and keeps count of itself (block()).
MemoIsSound == ColoursAreItsOwn /\ MemoAddsUp
=============================================================================
