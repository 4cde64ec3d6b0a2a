----------------------------- MODULE PartsProofs ----------------------------
(***************************************************************************)
(* Theorems about the parts of the daemon that are modelled by themselves. *)
(***************************************************************************)
EXTENDS CancelledRequests, AnswerQueue, Connection, RequestReader, Authoring,
        HighlightMemo, BlockWalk, ListNumbers, SequenceLemmas

-----------------------------------------------------------------------------
(* The table of withdrawn requests, whatever a client sends (CancelledRequests). *)
(* The queue is in the order of withdrawal, so that its head is the oldest.      *)

MemoryTyped ==
  /\ memory \in [ids : SUBSET ClientIds, order : Seq(ClientIds)]
  /\ notes \in Nat /\ since \in [ClientIds -> Nat]

\* The table holds what the queue does, in the order of withdrawal.
OldestFirst ==
  /\ memory.ids = {memory.order[i] : i \in 1..Len(memory.order)}
  /\ Len(memory.order) <= MaxCancelled
  /\ \A i \in 1..Len(memory.order) : since[memory.order[i]] <= notes
  /\ \A i, j \in 1..Len(memory.order) :
       i < j => since[memory.order[i]] < since[memory.order[j]]

MemoryInv == MemoryTyped /\ OldestFirst

LEMMA MemoryParts ==
  ASSUME MemoryInv
  PROVE  /\ memory.order \in Seq(ClientIds) /\ Len(memory.order) \in Nat
         /\ memory.ids \subseteq ClientIds
         /\ \A i \in 1..Len(memory.order) : /\ memory.order[i] \in ClientIds
                                            /\ since[memory.order[i]] \in Nat
         /\ \A i, j \in 1..Len(memory.order) : memory.order[i] = memory.order[j] => i = j
         /\ IsFiniteSet(memory.ids) /\ Cardinality(memory.ids) = Len(memory.order)
<1>1. /\ memory.order \in Seq(ClientIds) /\ memory.ids \subseteq ClientIds
      /\ since \in [ClientIds -> Nat]
  BY DEF MemoryInv, MemoryTyped
<1>2. Len(memory.order) \in Nat /\ \A i \in 1..Len(memory.order) : memory.order[i] \in ClientIds
  BY <1>1, LenProperties, ElementOfSeq
<1>3. \A i \in 1..Len(memory.order) : since[memory.order[i]] \in Nat
  BY <1>1, <1>2
<1>4. \A i, j \in 1..Len(memory.order) :
        i < j => since[memory.order[i]] < since[memory.order[j]]
  BY DEF MemoryInv, OldestFirst
<1>5. ASSUME NEW i \in 1..Len(memory.order), NEW j \in 1..Len(memory.order),
             memory.order[i] = memory.order[j]
      PROVE  i = j
  BY <1>3, <1>4, <1>5, <1>2
<1>6. IsFiniteSet(memory.ids) /\ Cardinality(memory.ids) = Len(memory.order)
  <2> DEFINE S == {memory.order[i] : i \in 1..Len(memory.order)}
  <2>1. IsFiniteSet(S) /\ Cardinality(S) = Len(memory.order)
    BY <1>1, <1>5, DistinctCount
  <2>2. memory.ids = S
    BY DEF MemoryInv, OldestFirst
  <2> QED BY <2>1, <2>2
<1> QED BY <1>1, <1>2, <1>3, <1>5, <1>6


\* A withdrawal the table does not have is queued, and the oldest makes room for it.
LEMMA NoteKeepsOrder ==
  ASSUME MemoryInv, NEW id \in ClientIds, Note(id)
  PROVE  /\ MemoryInv'
         /\ \A gone \in memory.ids \ memory'.ids : \A other \in memory.ids :
              since[gone] <= since[other]
<1> DEFINE order == memory.order
           n == Len(order)
<1>1. /\ order \in Seq(ClientIds) /\ n \in Nat /\ memory.ids \subseteq ClientIds
      /\ \A i \in 1..n : order[i] \in ClientIds /\ since[order[i]] \in Nat
      /\ \A i, j \in 1..n : order[i] = order[j] => i = j
      /\ IsFiniteSet(memory.ids) /\ Cardinality(memory.ids) = n
  BY MemoryParts
<1>2. /\ memory.ids = {order[i] : i \in 1..n} /\ n <= MaxCancelled
      /\ \A i \in 1..n : since[order[i]] <= notes
      /\ \A i, j \in 1..n : i < j => since[order[i]] < since[order[j]]
      /\ notes \in Nat /\ since \in [ClientIds -> Nat] /\ MaxCancelled \in Nat \ {0}
      /\ memory = [ids |-> memory.ids, order |-> order]
  BY MaxCancelledAssumption DEF MemoryInv, MemoryTyped, OldestFirst
<1>3. /\ memory' = NoteCancelled(memory, id) /\ notes' = notes + 1
      /\ since' = IF id \in memory.ids THEN since ELSE [since EXCEPT ![id] = notes + 1]
  BY DEF Note
<1>4. CASE id \in memory.ids
  <2>1. memory' = memory /\ since' = since
    <3>1. ~ (Cardinality(memory.ids) > MaxCancelled)
      BY <1>1, <1>2
    <3> QED BY <1>3, <1>4, <3>1 DEF NoteCancelled
  <2>2. MemoryTyped'
    BY <1>1, <1>2, <1>3, <2>1 DEF MemoryTyped
  <2>3. OldestFirst'
    BY <1>1, <1>2, <1>3, <2>1 DEF OldestFirst
  <2> QED BY <2>1, <2>2, <2>3 DEF MemoryInv
<1>5. CASE id \notin memory.ids
  <2> DEFINE more == Append(order, id)
             ids == memory.ids \cup {id}
  <2>1. /\ more \in Seq(ClientIds) /\ Len(more) = n + 1 /\ more[n + 1] = id
        /\ \A i \in 1..n : more[i] = order[i]
    BY <1>1, AppendProperties
  <2>2. Cardinality(ids) = n + 1
    BY <1>1, <1>5, FS_AddElement
  <2>3. /\ since' \in [ClientIds -> Nat] /\ since'[id] = notes + 1
        /\ \A i \in 1..n : since'[order[i]] = since[order[i]]
    BY <1>1, <1>2, <1>3, <1>5
  <2>4. memory' = IF n + 1 > MaxCancelled
                  THEN [ids |-> ids \ {Head(more)}, order |-> Tail(more)]
                  ELSE [ids |-> ids, order |-> more]
    BY <1>2, <1>3, <1>5, <2>2 DEF NoteCancelled
  <2> HIDE DEF more
  <2>a. \A i \in 1..(n + 1) : i \in 1..n \/ i = n + 1
    BY <1>1
  <2>b. /\ since'[more[n + 1]] = notes + 1
        /\ \A i \in 1..n : since'[more[i]] = since[order[i]]
    BY <2>1, <2>3
  <2>5. \A i \in 1..(n + 1) : since'[more[i]] \in Nat /\ since'[more[i]] <= notes + 1
    BY <1>1, <1>2, <2>a, <2>b
  <2>6. ASSUME NEW i \in 1..(n + 1), NEW j \in 1..(n + 1), i < j
        PROVE  since'[more[i]] < since'[more[j]]
    <3>1. i \in 1..n
      BY <1>1, <2>6
    <3>2. CASE j \in 1..n
      BY <1>2, <2>6, <2>b, <3>1, <3>2
    <3>3. CASE j = n + 1
      BY <1>1, <1>2, <2>b, <3>1, <3>3
    <3> QED BY <2>a, <3>2, <3>3
  <2>7. ids = {more[i] : i \in 1..(n + 1)}
    <3>1. ASSUME NEW x \in ids PROVE \E i \in 1..(n + 1) : more[i] = x
      BY <1>1, <2>1, <1>2
    <3>2. \A i \in 1..(n + 1) : more[i] \in ids
      BY <1>2, <2>1, <2>a
    <3> QED BY <3>1, <3>2
  <2>8. ids \subseteq ClientIds
    BY <1>1
  <2> HIDE DEF ids
  <2>9. CASE ~ (n + 1 > MaxCancelled)
    <3>1. memory' = [ids |-> ids, order |-> more]
      BY <2>4, <2>9
    <3>2. MemoryTyped'
      BY <1>2, <1>3, <2>1, <2>3, <2>8, <3>1 DEF MemoryTyped
    <3>3. OldestFirst'
      <4>1. memory'.ids = {more[i] : i \in 1..(n + 1)} /\ memory'.order = more
        BY <2>7, <3>1
      <4>2. Len(more) = n + 1 /\ n + 1 <= MaxCancelled /\ notes' = notes + 1
        BY <1>1, <1>2, <1>3, <2>1, <2>9
      <4>3. \A i \in 1..(n + 1) : since'[more[i]] <= notes'
        BY <2>5, <4>2
      <4> QED BY <2>6, <4>1, <4>2, <4>3 DEF OldestFirst
    <3>4. memory.ids \ memory'.ids = {}
      BY <3>1 DEF ids
    <3> QED BY <3>2, <3>3, <3>4 DEF MemoryInv
  <2>10. CASE n + 1 > MaxCancelled
    <3> DEFINE rest == Tail(more)
    <3>1. memory' = [ids |-> ids \ {Head(more)}, order |-> rest]
      BY <2>4, <2>10
    <3>2. /\ Head(more) = more[1] /\ rest \in Seq(ClientIds) /\ Len(rest) = n
          /\ \A i \in 1..n : rest[i] = more[i + 1]
      BY <1>1, <2>1, EmptySeq, HeadTailProperties
    <3> HIDE DEF rest
    <3>3. \A i \in 1..n : i + 1 \in 1..(n + 1) /\ i + 1 # 1
      BY <1>1
    <3>4. n >= 1 /\ 1 \in 1..n
      BY <1>1, <1>2, <2>10
    <3>5. \A i, j \in 1..(n + 1) : more[i] = more[j] => i = j
      BY <1>1, <2>5, <2>6
    <3>6. ids \ {more[1]} = {rest[i] : i \in 1..n}
      <4>1. ASSUME NEW x \in ids, x # more[1] PROVE \E i \in 1..n : rest[i] = x
        <5>1. PICK j \in 1..(n + 1) : more[j] = x
          BY <2>7
        <5>2. j - 1 \in 1..n /\ (j - 1) + 1 = j
          BY <1>1, <4>1, <5>1
        <5> QED BY <3>2, <5>1, <5>2
      <4>2. \A i \in 1..n : rest[i] \in ids /\ rest[i] # more[1]
        BY <1>1, <2>7, <3>2, <3>3, <3>5
      <4> QED BY <4>1, <4>2
    <3>7. MemoryTyped'
      BY <1>2, <1>3, <2>3, <2>8, <3>1, <3>2 DEF MemoryTyped
    <3>8. OldestFirst'
      <4>1. memory'.order = rest /\ memory'.ids = {rest[i] : i \in 1..n} /\ notes' = notes + 1
        BY <1>3, <3>1, <3>2, <3>6
      <4>2. \A i \in 1..n : since'[rest[i]] <= notes + 1
        BY <2>5, <3>2, <3>3
      <4>3. \A i, j \in 1..n : i < j => since'[rest[i]] < since'[rest[j]]
        BY <2>6, <3>2, <3>3
      <4> QED BY <1>2, <3>2, <4>1, <4>2, <4>3 DEF OldestFirst
    <3>9. ASSUME NEW gone \in memory.ids \ memory'.ids, NEW other \in memory.ids
          PROVE  since[gone] <= since[other]
      <4>1. gone = order[1]
        BY <2>1, <3>1, <3>2, <3>4, <3>9 DEF ids
      <4>2. PICK j \in 1..n : other = order[j]
        BY <1>2
      <4>3. CASE j = 1
        BY <1>1, <3>4, <4>1, <4>2, <4>3
      <4>4. CASE j # 1
        <5>1. 1 < j
          BY <1>1, <4>4
        <5>2. /\ since[order[1]] \in Nat /\ since[order[j]] \in Nat
              /\ since[order[1]] < since[order[j]]
          BY <1>1, <1>2, <3>4, <5>1
        <5> QED BY <4>1, <4>2, <5>2
      <4> QED BY <4>3, <4>4
    <3> QED BY <3>7, <3>8, <3>9 DEF MemoryInv
  <2> QED BY <2>9, <2>10
<1> QED BY <1>4, <1>5

\* What is taken leaves the others in their order.
LEMMA TakeKeepsOrder ==
  ASSUME MemoryInv, NEW id \in ClientIds, Take(id)
  PROVE  MemoryInv'
<1> DEFINE order == memory.order
           n == Len(order)
           rest == Dropping(order, {id})
           l == Len(rest)
<1>1. /\ order \in Seq(ClientIds) /\ n \in Nat
      /\ \A i \in 1..n : order[i] \in ClientIds /\ since[order[i]] \in Nat
      /\ memory.ids \subseteq ClientIds
  BY MemoryParts
<1>2. /\ memory.ids = {order[i] : i \in 1..n} /\ n <= MaxCancelled
      /\ \A i \in 1..n : since[order[i]] <= notes
      /\ \A i, j \in 1..n : i < j => since[order[i]] < since[order[j]]
      /\ notes \in Nat /\ since \in [ClientIds -> Nat] /\ MaxCancelled \in Nat
  BY MaxCancelledAssumption DEF MemoryInv, OldestFirst, MemoryTyped
<1>3. /\ memory' = [ids |-> memory.ids \ {id}, order |-> rest]
      /\ notes' = notes /\ since' = since
  BY DEF Take, Forgive
<1>4. rest \in Seq(ClientIds) /\ LeftOf(rest, order, n, {id})
  BY <1>1, DroppingSpec
<1> HIDE DEF rest
<1>5. l \in Nat
  BY <1>4, LenProperties
<1>6. PICK place \in [1..l -> 1..n] :
        /\ \A k \in 1..l : rest[k] = order[place[k]] /\ rest[k] # id
        /\ \A j, k \in 1..l : j < k => place[j] < place[k]
        /\ \A i \in 1..n : order[i] # id => \E k \in 1..l : place[k] = i
  BY <1>4 DEF LeftOf
<1>7. memory.ids \ {id} = {rest[k] : k \in 1..l}
  <2>1. ASSUME NEW x \in memory.ids, x # id PROVE \E k \in 1..l : rest[k] = x
    <3>1. PICK i \in 1..n : order[i] = x
      BY <1>2
    <3>2. PICK k \in 1..l : place[k] = i
      BY <1>6, <2>1, <3>1
    <3> QED BY <1>6, <3>1, <3>2
  <2>2. \A k \in 1..l : rest[k] \in memory.ids /\ rest[k] # id
    BY <1>2, <1>6
  <2> QED BY <2>1, <2>2
<1>8. l <= n
  BY <1>1, <1>5, <1>6, NoMorePlaces
<1>9. MemoryTyped'
  BY <1>1, <1>2, <1>3, <1>4 DEF MemoryTyped
<1>10. OldestFirst'
  <2>1. memory'.order = rest /\ memory'.ids = {rest[k] : k \in 1..l}
    BY <1>3, <1>7
  <2>2. \A k \in 1..l : since[rest[k]] <= notes
    BY <1>2, <1>6
  <2>3. ASSUME NEW j \in 1..l, NEW k \in 1..l, j < k PROVE since[rest[j]] < since[rest[k]]
    <3>1. place[j] \in 1..n /\ place[k] \in 1..n /\ place[j] < place[k]
      BY <1>6, <2>3
    <3> QED BY <1>2, <1>6, <3>1
  <2>4. l <= MaxCancelled
    BY <1>1, <1>2, <1>5, <1>8
  <2> QED BY <1>3, <2>1, <2>2, <2>3, <2>4 DEF OldestFirst
<1> QED BY <1>9, <1>10 DEF MemoryInv

LEMMA MemoryInvInit == MemoryInit => MemoryInv
<1> SUFFICES ASSUME MemoryInit PROVE MemoryInv
  OBVIOUS
<1>1. /\ memory.ids = {} /\ memory.order = << >> /\ Len(memory.order) = 0
      /\ notes = 0 /\ since = [id \in ClientIds |-> 0] /\ MaxCancelled \in Nat
      /\ memory = [ids |-> {}, order |-> << >>]
  BY MaxCancelledAssumption DEF MemoryInit, NoneCancelled
<1>2. << >> \in Seq(ClientIds)
  BY EmptySeq
<1> QED BY <1>1, <1>2 DEF MemoryInv, MemoryTyped, OldestFirst

LEMMA MemoryInvNext == MemoryInv /\ [MemoryNext]_memoryVars => MemoryInv'
<1> SUFFICES ASSUME MemoryInv, [MemoryNext]_memoryVars PROVE MemoryInv'
  OBVIOUS
<1>1. CASE MemoryNext
  BY <1>1, NoteKeepsOrder, TakeKeepsOrder DEF MemoryNext
<1>2. CASE UNCHANGED memoryVars
  BY <1>2 DEF memoryVars, MemoryInv, MemoryTyped, OldestFirst
<1> QED BY <1>1, <1>2

\* The set and the queue hold the same ids, each once, and no more than the bound.
THEOREM CancelledHalvesAgree == MemorySpec => []HalvesAgree
<1>1. MemoryInv => HalvesAgree
  BY MemoryParts DEF MemoryInv, OldestFirst, HalvesAgree
<1> QED BY <1>1, MemoryInvInit, MemoryInvNext, PTL DEF MemorySpec

\* What goes to make room has been there longest, whatever came and went before.
THEOREM CancelledOldestGoes == MemorySpec => OnlyTheOldestIsEvicted
<1>1. MemoryInv /\ [MemoryNext]_memoryVars =>
        [ \A id \in memory.ids \ memory'.ids :
            \/ notes' = notes
            \/ \A other \in memory.ids : since[id] <= since[other] ]_memoryVars
  <2> SUFFICES ASSUME MemoryInv, NEW id \in ClientIds, Note(id) \/ Take(id)
               PROVE  \A gone \in memory.ids \ memory'.ids :
                        \/ notes' = notes
                        \/ \A other \in memory.ids : since[gone] <= since[other]
    BY DEF MemoryNext
  <2>1. CASE Note(id)
    BY <2>1, NoteKeepsOrder
  <2>2. CASE Take(id)
    BY <2>2 DEF Take
  <2> QED BY <2>1, <2>2
<1> QED BY <1>1, MemoryInvInit, MemoryInvNext, PTL DEF MemorySpec, OnlyTheOldestIsEvicted


-----------------------------------------------------------------------------
(* The daemon's way out (AnswerQueue). Every request read is worked on,    *)
(* waits for room, is on its way out or is lost, and only one of these.    *)

\* What has left the tasks, from the first answer read to the last one queued.
Out == got \o stdout \o queue

QueueTyped ==
  /\ asked \in Nat /\ lost \subseteq 1..asked
  /\ tasks \subseteq 1..asked /\ sending \subseteq 1..asked
  /\ queue \in Seq(1..asked) /\ stdout \in Seq(1..asked) /\ got \in Seq(1..asked)

EachInOnePlace ==
  /\ tasks \cap sending = {} /\ (tasks \union sending) \cap Range(Out) = {}
  /\ tasks \union sending \union Range(Out) \union lost = 1..asked
  /\ IsInjective(Out)

LostIsSaid ==
  /\ lost # {} => stalled \/ loop = "gone"
  /\ loop = "gone" => tasks = {} /\ sending = {}

QueueInv == QueueTyped /\ EachInOnePlace /\ LostIsSaid

\* What is out is a sequence of answers, and they are those in its three parts.
LEMMA OutParts ==
  ASSUME QueueTyped
  PROVE  Out \in Seq(1..asked) /\ Range(Out) = Answered
<1> DEFINE X == 1..asked
<1>1. queue \in Seq(X) /\ stdout \in Seq(X) /\ got \in Seq(X)
  BY DEF QueueTyped
<1> HIDE DEF X
<1>2. got \o stdout \in Seq(X) /\ Range(got \o stdout) = Range(got) \union Range(stdout)
  BY <1>1, ConcatProperties, RangeConcatenation
<1>3. Out \in Seq(X) /\ Range(Out) = Range(got \o stdout) \union Range(queue)
  <2> DEFINE early == got \o stdout
  <2>1. Out = early \o queue /\ early \in Seq(X)
    BY <1>2 DEF Out
  <2> HIDE DEF early
  <2>2. early \o queue \in Seq(X) /\ Range(early \o queue) = Range(early) \union Range(queue)
    BY <1>1, <2>1, ConcatProperties, RangeConcatenation
  <2> QED BY <2>1, <2>2 DEF early
<1> QED BY <1>2, <1>3 DEF Answered, X

\* An answer that is not out yet goes to the end.
LEMMA EnqueueKeepsPlaces ==
  ASSUME QueueInv, NEW a, Enqueue(a)
  PROVE  QueueInv'
<1> DEFINE X == 1..asked
<1>1. /\ a \in sending /\ a \in X /\ sending' = sending \ {a} /\ queue' = Append(queue, a)
      /\ asked' = asked /\ tasks' = tasks /\ stdout' = stdout /\ got' = got /\ lost' = lost
      /\ stalled' = stalled /\ loop' = loop /\ loop # "gone"
  BY DEF Enqueue, QueueInv, QueueTyped
<1>2. Out \in Seq(X) /\ queue \in Seq(X) /\ stdout \in Seq(X) /\ got \in Seq(X)
  BY OutParts DEF QueueInv, QueueTyped
<1>3. QueueTyped'
  BY <1>1, <1>2, AppendProperties DEF QueueInv, QueueTyped
<1>4. Out' = Append(Out, a)
  BY <1>1, <1>2, AppendIsConcat, ConcatProperties, ConcatAssociative DEF Out
<1>5. a \notin Range(Out) /\ IsInjective(Out)
  BY <1>1 DEF QueueInv, EachInOnePlace
<1>6. Range(Out') = Range(Out) \union {a} /\ IsInjective(Out')
  <2> HIDE DEF X
  <2>1. Range(Append(Out, a)) = Range(Out) \union {a} /\ IsInjective(Append(Out, a))
    BY <1>1, <1>2, <1>5, AppendInjects
  <2> QED BY <1>4, <2>1
<1>7. EachInOnePlace'
  BY <1>1, <1>6 DEF QueueInv, EachInOnePlace
<1>8. LostIsSaid'
  BY <1>1 DEF QueueInv, LostIsSaid
<1> QED BY <1>3, <1>7, <1>8 DEF QueueInv

\* What is written and what is read stay where they are in all of what is out.
LEMMA WriteKeepsPlaces ==
  ASSUME QueueInv, Write
  PROVE  QueueInv'
<1> DEFINE X == 1..asked
<1>1. /\ queue # << >> /\ queue' = Tail(queue) /\ stdout' = Append(stdout, Head(queue))
      /\ asked' = asked /\ tasks' = tasks /\ sending' = sending /\ got' = got /\ lost' = lost
      /\ stalled' = stalled /\ loop' = loop
  BY DEF Write
<1>2. queue \in Seq(X) /\ stdout \in Seq(X) /\ got \in Seq(X)
  BY DEF QueueInv, QueueTyped
<1>3. stdout' \in Seq(X) /\ queue' \in Seq(X) /\ stdout' \o queue' = stdout \o queue
  <2> HIDE DEF X
  <2> QED BY <1>1, <1>2, HandedOver
<1>4. Out' = Out
  <2> DEFINE said == Append(stdout, Head(queue))
             left == Tail(queue)
  <2>1. said \in Seq(X) /\ left \in Seq(X)
    BY <1>1, <1>3
  <2>b. said \o left = stdout \o queue
    BY <1>1, <1>3
  <2> HIDE DEF X, said, left
  <2>2. (got \o said) \o left = got \o (said \o left)
    BY <1>2, <2>1, ConcatAssociative
  <2>a. (got \o stdout) \o queue = got \o (stdout \o queue)
    BY <1>2, ConcatAssociative
  <2>3. Out' = (got \o said) \o left
    BY <1>1 DEF Out, said, left
  <2> QED BY <2>2, <2>a, <2>b, <2>3 DEF Out
<1>5. QueueTyped'
  BY <1>1, <1>2, <1>3 DEF QueueInv, QueueTyped
<1>6. EachInOnePlace' /\ LostIsSaid'
  BY <1>1, <1>4 DEF QueueInv, EachInOnePlace, LostIsSaid
<1> QED BY <1>5, <1>6 DEF QueueInv

LEMMA EditorReadsKeepsPlaces ==
  ASSUME QueueInv, EditorReads
  PROVE  QueueInv'
<1> DEFINE X == 1..asked
<1>1. /\ stdout # << >> /\ stdout' = Tail(stdout) /\ got' = Append(got, Head(stdout))
      /\ asked' = asked /\ tasks' = tasks /\ sending' = sending /\ queue' = queue /\ lost' = lost
      /\ stalled' = stalled /\ loop' = loop
  BY DEF EditorReads
<1>2. queue \in Seq(X) /\ stdout \in Seq(X) /\ got \in Seq(X)
  BY DEF QueueInv, QueueTyped
<1>3. got' \in Seq(X) /\ stdout' \in Seq(X) /\ got' \o stdout' = got \o stdout
  <2> HIDE DEF X
  <2> QED BY <1>1, <1>2, HandedOver
<1>4. Out' = Out
  BY <1>1, <1>3 DEF Out
<1>5. QueueTyped'
  BY <1>1, <1>2, <1>3 DEF QueueInv, QueueTyped
<1>6. EachInOnePlace' /\ LostIsSaid'
  BY <1>1, <1>4 DEF QueueInv, EachInOnePlace, LostIsSaid
<1> QED BY <1>5, <1>6 DEF QueueInv

\* What is given up at the end was queued: the answers before it stay apart.
LEMMA ExitKeepsPlaces ==
  ASSUME QueueInv, ExitAnyway
  PROVE  QueueInv'
<1> DEFINE X == 1..asked
           all == got \o stdout
<1>1. /\ loop' = "gone" /\ lost' = lost \union tasks \union sending \union Range(queue)
      /\ tasks' = {} /\ sending' = {} /\ queue' = << >>
      /\ asked' = asked /\ stdout' = stdout /\ got' = got
  BY DEF ExitAnyway
<1>2. queue \in Seq(X) /\ stdout \in Seq(X) /\ got \in Seq(X) /\ << >> \in Seq(X)
  BY EmptySeq DEF QueueInv, QueueTyped
<1>3. Range(queue) \subseteq X
  BY <1>2, RangeOfSeq
<1>4. QueueTyped'
  BY <1>1, <1>2, <1>3 DEF QueueInv, QueueTyped
<1>5. Out' = all /\ Range(Out) = Range(all) \union Range(queue) /\ IsInjective(all)
  <2> HIDE DEF X
  <2>1. all \in Seq(X)
    BY <1>2, ConcatProperties
  <2>2. Out = all \o queue /\ IsInjective(Out)
    BY DEF Out, QueueInv, EachInOnePlace
  <2> HIDE DEF all
  <2>3. Range(Out) = Range(all) \union Range(queue)
    BY <1>2, <2>1, <2>2, RangeConcatenation
  <2>4. IsInjective(all)
    BY <1>2, <2>1, <2>2, PrefixInjects
  <2>5. all \o << >> = all
    BY <2>1, ConcatEmptySeq
  <2> QED BY <1>1, <2>3, <2>4, <2>5 DEF Out, all
<1>6. EachInOnePlace'
  BY <1>1, <1>5 DEF QueueInv, EachInOnePlace
<1>7. LostIsSaid'
  BY <1>1 DEF LostIsSaid
<1> QED BY <1>4, <1>6, <1>7 DEF QueueInv

\* The other steps leave what is out alone.
LEMMA OthersKeepPlaces ==
  ASSUME QueueInv,
         \/ Look \/ Ask \/ CloseStdin \/ EndOfRequests \/ Exit
         \/ \E a \in 1..Requests : Send(a) \/ GivesUp(a)
         \/ UNCHANGED queueVars
  PROVE  QueueInv'
<1>1. QueueTyped /\ EachInOnePlace /\ LostIsSaid
  BY DEF QueueInv
<1>2. CASE Ask
  BY <1>2, <1>1, SeqMonotonic DEF Ask, QueueTyped, Out, EachInOnePlace, QueueInv, LostIsSaid
<1>3. CASE \E a \in 1..Requests : Send(a) \/ GivesUp(a)
  <2>1. PICK a \in 1..Requests : Send(a) \/ GivesUp(a)
    BY <1>3
  <2>2. /\ asked' = asked /\ queue' = queue /\ stdout' = stdout /\ got' = got /\ loop' = loop
        /\ Out' = Out
    BY <2>1 DEF Send, GivesUp, Out
  <2> QED BY <1>1, <2>1, <2>2
         DEF Send, GivesUp, QueueInv, QueueTyped, EachInOnePlace, LostIsSaid
<1>4. CASE Look \/ CloseStdin \/ EndOfRequests \/ Exit \/ UNCHANGED queueVars
  <2>1. /\ asked' = asked /\ queue' = queue /\ stdout' = stdout /\ got' = got
        /\ tasks' = tasks /\ sending' = sending /\ lost' = lost /\ stalled' = stalled
        /\ Out' = Out
    BY <1>4 DEF Look, CloseStdin, EndOfRequests, Exit, queueVars, Out
  <2>2. QueueTyped' /\ EachInOnePlace'
    BY <1>1, <2>1 DEF QueueTyped, EachInOnePlace
  <2>3. LostIsSaid'
    BY <1>1, <1>4, <2>1
       DEF Look, CloseStdin, EndOfRequests, Exit, Drained, queueVars, LostIsSaid
  <2> QED BY <2>2, <2>3 DEF QueueInv
<1> QED BY <1>2, <1>3, <1>4

LEMMA QueueInvInit == QueueInit => QueueInv
<1> SUFFICES ASSUME QueueInit PROVE QueueInv
  OBVIOUS
<1>1. /\ asked = 0 /\ tasks = {} /\ sending = {} /\ lost = {} /\ loop = "looking"
      /\ queue = << >> /\ stdout = << >> /\ got = << >> /\ 1..asked = {}
  BY DEF QueueInit
<1>2. << >> \in Seq(1..asked) /\ << >> \o << >> = << >> /\ DOMAIN << >> = {}
  BY EmptySeq
<1>3. Out = << >> /\ Range(Out) = {} /\ IsInjective(Out)
  BY <1>1, <1>2 DEF Out, Range, IsInjective
<1> QED BY <1>1, <1>2, <1>3 DEF QueueInv, QueueTyped, EachInOnePlace, LostIsSaid

LEMMA QueueInvNext == QueueInv /\ [QueueNext]_queueVars => QueueInv'
BY EnqueueKeepsPlaces, WriteKeepsPlaces, EditorReadsKeepsPlaces, ExitKeepsPlaces,
   OthersKeepPlaces DEF QueueNext

\* No answer is lost and none written twice without the daemon's having said so, however
\* many requests there are and however long the queue and the pipe.
THEOREM QueueLosesNothingQuietly == QueueSpec => []NothingLostQuietly
<1>1. QueueInv => NothingLostQuietly
  <2> SUFFICES ASSUME QueueInv PROVE NothingLostQuietly
    OBVIOUS
  <2>1. Range(Out) = Answered /\ IsInjective(got \o stdout \o queue)
    BY OutParts DEF QueueInv, EachInOnePlace, Out
  <2> QED BY <2>1 DEF QueueInv, EachInOnePlace, LostIsSaid, NothingLostQuietly
<1> QED BY <1>1, QueueInvInit, QueueInvNext, PTL DEF QueueSpec


-----------------------------------------------------------------------------
(* One connection (Connection). A head that is being read is within a      *)
(* chunk of the limit; a body is read for a report that may be taken.      *)

ConnectionTyped ==
  peer \in Peers /\ sent \in Nat /\ written \in {"nothing", "some", "all"}

\* What is known of the peer, and what it may be answered, in each phase.
HeadBounded == phase = "head" => answer = "" /\ sent <= MaxHead + Chunk
BodyIsReport ==
  phase = "body" => answer = "" /\ peer.host /\ peer.route = "cursor" /\ peer.syncBack
BodyBounded ==
  phase = "body" => /\ sent >= peer.head /\ peer.head <= MaxHead + Chunk
                    /\ peer.length <= MaxBody
GivenIsDue == answer # "" => answer \in DueAnswers
TookAll == answer = "204" => sent >= peer.head + peer.length

AnswerIsDue == HeadBounded /\ BodyIsReport /\ BodyBounded /\ GivenIsDue /\ TookAll

ConnectionInv == ConnectionTyped /\ AnswerIsDue

LEMMA PeerFacts ==
  ASSUME ConnectionTyped
  PROVE  /\ peer.head \in Nat /\ peer.rest \in Nat /\ peer.length \in Nat
         /\ peer.host => peer.parses
         /\ peer.parses => peer.text
         /\ peer.route \in {"page", "events", "asset", "other", "cursor"}
         /\ peer.roots \in Seq({"inside", "large", "outside", "absent"})
         /\ MaxHead \in Nat /\ Chunk \in Nat /\ MaxBody \in Nat
BY PeersAssumption, ConnectionAssumption DEF ConnectionTyped

\* The first directory a file can be read in decides, and it is the first that has it.
LEMMA AssetStatusIsFirst ==
  ASSUME NEW X, NEW roots \in Seq(X)
  PROVE  AssetStatus(roots) = IF \E i \in DOMAIN roots :
                                   /\ roots[i] = "inside"
                                   /\ \A j \in 1..(i - 1) : ~Readable(roots[j])
                              THEN "200" ELSE "404"
<1> DEFINE in == {i \in DOMAIN roots : Readable(roots[i])}
<1>1. Len(roots) \in Nat /\ DOMAIN roots = 1..Len(roots)
  BY LenProperties
<1>2. CASE in = {}
  BY <1>2 DEF Readable, AssetStatus
<1>3. CASE in # {}
  <2>1. in \in SUBSET Nat
    BY <1>1
  <2> HIDE DEF in
  <2>2. \E m \in in : \A n \in in : m <= n
    BY <1>3, <2>1, NatLeast
  <2>3. Min(in) \in in /\ \A n \in in : Min(in) <= n
    BY <2>2 DEF Min
  <2> DEFINE first == Min(in)
  <2>4. first \in in /\ first \in Nat /\ \A n \in in : first <= n
    BY <2>1, <2>3
  <2>5. AssetStatus(roots) = IF in # {} /\ roots[first] = "inside" THEN "200" ELSE "404"
    BY DEF AssetStatus, in
  <2> HIDE DEF first
  <2>6. \A j \in 1..(first - 1) : ~Readable(roots[j])
    <3> SUFFICES ASSUME NEW j \in 1..(first - 1), Readable(roots[j]) PROVE FALSE
      OBVIOUS
    <3>1. first \in 1..Len(roots)
      BY <1>1, <2>4 DEF in
    <3>2. j \in DOMAIN roots /\ ~ (first <= j)
      BY <1>1, <2>4, <3>1
    <3> QED BY <2>4, <3>2 DEF in
  <2>7. ASSUME NEW i \in DOMAIN roots, roots[i] = "inside",
               \A j \in 1..(i - 1) : ~Readable(roots[j])
        PROVE  i = first
    BY <2>7, <2>4, <1>1 DEF in, Readable
  <2> QED BY <1>3, <2>4, <2>5, <2>6, <2>7 DEF in
<1> QED BY <1>2, <1>3

\* A head that has come whole is routed, whatever came with it.
LEMMA RouteAnswers ==
  ASSUME ConnectionInv, phase = "head", sent >= peer.head, Route,
         peer' = peer, sent' = sent
  PROVE  AnswerIsDue'
<1>1. /\ peer.host => peer.parses
      /\ peer.parses => peer.text
      /\ peer.route \in {"page", "events", "asset", "other", "cursor"}
  BY PeerFacts DEF ConnectionInv
<1>n. /\ peer.head \in Nat /\ peer.length \in Nat /\ sent \in Nat
      /\ MaxHead \in Nat /\ Chunk \in Nat /\ MaxBody \in Nat
  BY PeerFacts DEF ConnectionInv, ConnectionTyped
<1>h. answer = "" /\ sent <= MaxHead + Chunk
  BY DEF ConnectionInv, AnswerIsDue, HeadBounded
<1>2. answer = "" /\ peer.head <= MaxHead + Chunk
  <2> DEFINE h == peer.head
             m == MaxHead
             c == Chunk
  <2>1. h \in Nat /\ m \in Nat /\ c \in Nat /\ sent \in Nat /\ sent >= h /\ sent <= m + c
    BY <1>n, <1>h
  <2> HIDE DEF h, m, c
  <2>2. h <= m + c
    BY <2>1
  <2> QED BY <1>h, <2>2 DEF h, m, c
<1>3. peer.text => RouteAnswer \in DueAnswers
  BY <1>2 DEF DueAnswers
<1>4. DueAnswers' = DueAnswers
  BY DEF DueAnswers, RouteAnswer
<1>5. CASE ~peer.text
  BY <1>1, <1>2, <1>5 DEF Route, Leaves, AnswerIsDue, HeadBounded, BodyIsReport, BodyBounded,
     GivenIsDue, TookAll
<1>6. CASE peer.text /\ ~peer.host
  <2>1. phase' = "answer" /\ answer' = "400" /\ RouteAnswer = "400"
    BY <1>1, <1>6 DEF Route, Decides, RouteAnswer
  <2> QED BY <1>3, <1>4, <1>6, <2>1
          DEF AnswerIsDue, HeadBounded, BodyIsReport, BodyBounded, GivenIsDue, TookAll
<1>7. CASE peer.host /\ peer.route # "cursor"
  <2>1. phase' \in {"answer", "stream"} /\ answer' = RouteAnswer /\ answer' # "204"
    BY PeerFacts, AssetStatusIsFirst, <1>1, <1>7 DEF ConnectionInv, RouteAnswer, Route, Decides
  <2> QED BY <1>1, <1>3, <1>4, <1>7, <2>1
          DEF AnswerIsDue, HeadBounded, BodyIsReport, BodyBounded, GivenIsDue, TookAll
<1>8. CASE peer.host /\ peer.route = "cursor"
  <2>1. IF ~peer.syncBack THEN Decides("404")
        ELSE IF peer.length > MaxBody THEN Decides("413")
        ELSE phase' = "body" /\ UNCHANGED answer
    BY <1>1, <1>8 DEF Route
  <2>2. RouteAnswer = IF ~peer.syncBack THEN "404"
                      ELSE IF peer.length > MaxBody THEN "413"
                      ELSE IF peer.report THEN "204" ELSE "400"
    BY <1>1, <1>8 DEF RouteAnswer
  <2>3. CASE ~peer.syncBack \/ peer.length > MaxBody
    BY <2>1, <2>2, <2>3, <1>1, <1>3, <1>4, <1>8 DEF Decides, AnswerIsDue, HeadBounded,
       BodyIsReport, BodyBounded, GivenIsDue, TookAll
  <2>4. CASE ~(~peer.syncBack \/ peer.length > MaxBody)
    <3>1. peer.syncBack /\ ~(peer.length > MaxBody)
      BY <2>4
    <3>2. phase' = "body" /\ answer' = ""
      BY <1>2, <2>1, <3>1
    <3>3. peer.length <= MaxBody
      BY <1>n, <3>1
    <3> QED BY <1>2, <1>8, <3>1, <3>2, <3>3
            DEF AnswerIsDue, HeadBounded, BodyIsReport, BodyBounded, GivenIsDue, TookAll
  <2> QED BY <2>3, <2>4
<1> QED BY <1>1, <1>5, <1>6, <1>7, <1>8

\* A body that has come is all of what was declared of it, and a report or not.
LEMMA TakeBodyAnswers ==
  ASSUME ConnectionInv, TakeBody
  PROVE  AnswerIsDue'
<1>1. peer.host => peer.parses /\ peer.text
  BY PeerFacts DEF ConnectionInv
<1>n. /\ peer.head \in Nat /\ peer.length \in Nat /\ sent \in Nat
      /\ MaxHead \in Nat /\ Chunk \in Nat /\ MaxBody \in Nat
  BY PeerFacts DEF ConnectionInv, ConnectionTyped
<1>b. peer.host /\ peer.route = "cursor" /\ peer.syncBack
  BY DEF ConnectionInv, AnswerIsDue, BodyIsReport, TakeBody
<1>2. /\ peer.length <= MaxBody /\ peer.head <= MaxHead + Chunk
      /\ sent - peer.head >= peer.length /\ peer' = peer /\ sent' = sent
  BY DEF ConnectionInv, AnswerIsDue, BodyBounded, TakeBody, BodyDone
<1>3. RouteAnswer = IF peer.report THEN "204" ELSE "400"
  BY <1>n, <1>2, <1>1, <1>b DEF RouteAnswer
<1>4. RouteAnswer \in DueAnswers /\ DueAnswers' = DueAnswers
  BY <1>1, <1>b, <1>2 DEF DueAnswers, RouteAnswer
<1>5. Min({sent - peer.head, peer.length}) = peer.length
  BY <1>n, <1>2 DEF Min
<1>6. phase' = "answer" /\ answer' = RouteAnswer
  BY <1>3, <1>5 DEF TakeBody, IsReport, Decides
<1>7. TookAll'
  BY <1>n, <1>2 DEF TookAll
<1> QED BY <1>4, <1>6, <1>7
        DEF AnswerIsDue, HeadBounded, BodyIsReport, BodyBounded, GivenIsDue, TookAll

LEMMA TakeHeadAnswers ==
  ASSUME ConnectionInv, TakeHead
  PROVE  AnswerIsDue'
<1>1. /\ peer.head \in Nat /\ sent \in Nat /\ MaxHead \in Nat
      /\ phase = "head" /\ peer' = peer /\ sent' = sent
  BY PeerFacts DEF ConnectionInv, ConnectionTyped, TakeHead
<1>2. CASE sent >= peer.head
  BY <1>1, <1>2, RouteAnswers DEF TakeHead, Judged
<1>3. CASE ~(sent >= peer.head)
  <2>1. sent > MaxHead /\ answer' = "431" /\ phase' = "answer"
    BY <1>3 DEF TakeHead, Judged, Decides
  <2>2. peer.head > MaxHead + 1
    BY <1>1, <1>3, <2>1
  <2>3. "431" \in DueAnswers'
    BY <1>1, <2>2 DEF DueAnswers
  <2> QED BY <2>1, <2>3 DEF AnswerIsDue, HeadBounded, BodyIsReport, BodyBounded, GivenIsDue, TookAll
<1> QED BY <1>2, <1>3

\* The other steps decide on no answer.
LEMMA OthersDecideNothing ==
  ASSUME ConnectionInv,
         \/ ReadHead \/ ReadBody \/ Silence \/ WriteSome \/ WriteAll \/ WriteStalls
         \/ EditorTakes \/ UNCHANGED connectionVars
  PROVE  sent' \in Nat /\ AnswerIsDue'
<1>1. /\ peer.head \in Nat /\ peer.length \in Nat /\ sent \in Nat
      /\ MaxHead \in Nat /\ Chunk \in Nat
  BY PeerFacts DEF ConnectionInv, ConnectionTyped
<1>2. peer' = peer /\ answer' = answer
  BY DEF ReadHead, ReadBody, Silence, Leaves, WriteSome, WriteAll, WriteStalls, EditorTakes,
         connectionVars
<1>3. DueAnswers' = DueAnswers
  BY <1>2 DEF DueAnswers, RouteAnswer
<1>4. CASE ReadHead
  <2>1. PICK n \in Pieces(Chunk) : sent' = sent + n
    BY <1>4 DEF ReadHead
  <2>2. n \in 1..Chunk /\ phase = "head" /\ phase' = phase /\ sent <= MaxHead
    BY <1>1, <1>4, <2>1 DEF ReadHead, HeadDone, Pieces
  <2>3. sent' \in Nat /\ sent' >= sent /\ sent' <= MaxHead + Chunk
    BY <1>1, <2>1, <2>2
  <2> QED BY <1>2, <1>3, <2>2, <2>3
          DEF ConnectionInv, AnswerIsDue, HeadBounded, BodyIsReport, BodyBounded, GivenIsDue,
              TookAll
<1>5. CASE ReadBody
  <2>1. PICK n \in Pieces(4 * Chunk) : sent' = sent + n
    BY <1>5 DEF ReadBody
  <2>2. n \in Nat /\ phase = "body" /\ phase' = phase
    BY <1>1, <1>5, <2>1 DEF ReadBody, Pieces
  <2>a. sent >= peer.head
    BY <2>2 DEF ConnectionInv, AnswerIsDue, BodyBounded
  <2>3. sent' \in Nat /\ sent' >= peer.head
    BY <1>1, <2>1, <2>2, <2>a
  <2>b. answer = ""
    BY <2>2 DEF ConnectionInv, AnswerIsDue, BodyIsReport
  <2> QED BY <1>2, <1>3, <2>2, <2>3, <2>b
          DEF ConnectionInv, AnswerIsDue, HeadBounded, BodyIsReport, BodyBounded, GivenIsDue,
              TookAll
<1>6. CASE \/ Silence \/ WriteSome \/ WriteAll \/ WriteStalls
           \/ EditorTakes \/ UNCHANGED connectionVars
  <2>1. sent' = sent /\ (phase' \in {"answer", "closed"} \/ phase' = phase)
    BY <1>6 DEF Silence, Leaves, WriteSome, WriteAll, WriteStalls, EditorTakes, connectionVars
  <2> QED BY <1>1, <1>2, <1>3, <2>1
          DEF ConnectionInv, AnswerIsDue, HeadBounded, BodyIsReport, BodyBounded, GivenIsDue,
              TookAll
<1> QED BY <1>4, <1>5, <1>6

LEMMA ConnectionInvNext == ConnectionInv /\ [ConnectionNext]_connectionVars => ConnectionInv'
<1> SUFFICES ASSUME ConnectionInv, [ConnectionNext]_connectionVars PROVE ConnectionInv'
  OBVIOUS
<1>1. peer' = peer
  BY DEF ConnectionNext, ReadHead, TakeHead, ReadBody, TakeBody, Silence, WriteSome, WriteAll,
         WriteStalls, EditorTakes, connectionVars
<1>2. written' \in {"nothing", "some", "all"}
  BY DEF ConnectionInv, ConnectionTyped, ConnectionNext, ReadHead, TakeHead, ReadBody, TakeBody,
         Silence, WriteSome, WriteAll, WriteStalls, EditorTakes, connectionVars
<1>3. CASE TakeHead \/ TakeBody
  BY <1>3, <1>1, <1>2, TakeHeadAnswers, TakeBodyAnswers DEF TakeHead, TakeBody, ConnectionInv,
     ConnectionTyped
<1>4. CASE ~(TakeHead \/ TakeBody)
  BY <1>4, OthersDecideNothing, <1>1, <1>2 DEF ConnectionNext, ConnectionInv, ConnectionTyped
<1> QED BY <1>3, <1>4

LEMMA ConnectionInvInit == ConnectionInit => ConnectionInv
<1> SUFFICES ASSUME ConnectionInit PROVE ConnectionInv
  OBVIOUS
<1>1. 0 <= MaxHead + Chunk /\ 0 \in Nat
  BY ConnectionAssumption
<1>2. peer \in Peers /\ sent = 0 /\ phase = "head" /\ answer = "" /\ written = "nothing"
  BY DEF ConnectionInit
<1>3. HeadBounded
  BY <1>1, <1>2 DEF HeadBounded
<1> QED BY <1>1, <1>2, <1>3 DEF ConnectionInv, ConnectionTyped, AnswerIsDue, BodyIsReport,
                                   BodyBounded, GivenIsDue, TookAll

\* What a connection is answered depends on what its peer sent, whoever the peer, whatever
\* the limits, and however its bytes were cut into pieces.
THEOREM ConnectionAnswersWhatWasAsked == ConnectionSpec => []AnswersWhatWasAsked
<1>1. ConnectionInv => AnswersWhatWasAsked
  BY DEF ConnectionInv, AnswerIsDue, HeadBounded, GivenIsDue, TookAll, AnswersWhatWasAsked
<1> QED BY <1>1, ConnectionInvInit, ConnectionInvNext, PTL DEF ConnectionSpec
-----------------------------------------------------------------------------
(* The records of the reader, however the stream comes in pieces (RequestReader). *)
(* The invariant says where the line that is being read begins.                   *)

\* What a reader of the whole text returns.
Returned(s) == {Lines(s)[i] : i \in 1..Cardinality(Newlines(s))} \union {Meant(Unterminated(s))}

\* The newlines of a text up to a place.
NewlinesTo(s, stop) == {i \in Newlines(s) : i <= stop}

\* A part of a text, byte by byte.
LEMMA BetweenIs ==
  ASSUME NEW s \in Seq(Bytes), NEW a \in 1..Len(s) + 1, NEW z \in (a - 1)..Len(s)
  PROVE  /\ SubSeq(s, a, z) \in Seq(Bytes) /\ Len(SubSeq(s, a, z)) = z - a + 1
         /\ \A i \in 1..(z - a + 1) : SubSeq(s, a, z)[i] = s[a + i - 1]
<1>1. Len(s) \in Nat
  BY LenProperties
<1>2. SubSeq(s, a, z) = [i \in 1..(z - a + 1) |-> s[a + i - 1]]
  BY <1>1
<1>3. \A i \in 1..(z - a + 1) : s[a + i - 1] \in Bytes
  BY <1>1, ElementOfSeq
<1>4. z - a + 1 \in Nat
  BY <1>1
<1>5. SubSeq(s, a, z) \in [1..(z - a + 1) -> Bytes]
  BY <1>2, <1>3
<1>6. SubSeq(s, a, z) \in Seq(Bytes)
  BY <1>4, <1>5, SeqDef
<1>7. Len(SubSeq(s, a, z)) = z - a + 1
  BY <1>4, <1>5, <1>6, LenProperties
<1> QED BY <1>2, <1>6, <1>7

\* Two neighbouring parts of a text are the part that holds both.
LEMMA BetweenJoins ==
  ASSUME NEW s \in Seq(Bytes), NEW b \in 0..Len(s), NEW t \in b..Len(s), NEW z \in t..Len(s)
  PROVE  SubSeq(s, b + 1, t) \o SubSeq(s, t + 1, z) = SubSeq(s, b + 1, z)
<1> DEFINE x == SubSeq(s, b + 1, t)
           y == SubSeq(s, t + 1, z)
           w == SubSeq(s, b + 1, z)
<1>0. b \in Nat /\ t \in Nat /\ z \in Nat /\ b <= t /\ t <= z /\ z <= Len(s) /\ Len(s) \in Nat
  BY LenProperties
<1>1. /\ x \in Seq(Bytes) /\ Len(x) = t - b
      /\ \A i \in 1..(t - b) : x[i] = s[b + i]
  BY <1>0, BetweenIs
<1>2. /\ y \in Seq(Bytes) /\ Len(y) = z - t
      /\ \A i \in 1..(z - t) : y[i] = s[t + i]
  BY <1>0, BetweenIs
<1>3. /\ w \in Seq(Bytes) /\ Len(w) = z - b
      /\ \A i \in 1..(z - b) : w[i] = s[b + i]
  BY <1>0, BetweenIs
<1> HIDE DEF x, y, w
<1>4. /\ x \o y \in Seq(Bytes) /\ Len(x \o y) = z - b
      /\ \A i \in 1..(z - b) : (x \o y)[i] = IF i <= t - b THEN x[i] ELSE y[i - (t - b)]
  <2>1. /\ x \o y \in Seq(Bytes) /\ Len(x \o y) = Len(x) + Len(y)
        /\ \A i \in 1..(Len(x) + Len(y)) :
             (x \o y)[i] = IF i <= Len(x) THEN x[i] ELSE y[i - Len(x)]
    BY <1>1, <1>2, ConcatProperties
  <2>2. Len(x) + Len(y) = z - b
    BY <1>0, <1>1, <1>2
  <2> QED BY <1>1, <2>1, <2>2
<1>5. ASSUME NEW i \in 1..(z - b)
      PROVE  (x \o y)[i] = w[i]
  <2>1. CASE i <= t - b
    BY <1>0, <1>1, <1>3, <1>4, <2>1
  <2>2. CASE i > t - b
    <3>1. i - (t - b) \in 1..(z - t) /\ t + (i - (t - b)) = b + i
      BY <1>0, <2>2
    <3>2. (x \o y)[i] = y[i - (t - b)]
      BY <1>0, <2>2, <1>4
    <3>3. y[i - (t - b)] = s[t + (i - (t - b))]
      BY <1>2, <3>1
    <3>4. w[i] = s[b + i]
      BY <1>3
    <3> QED BY <3>1, <3>2, <3>3, <3>4
  <2>3. i <= t - b \/ i > t - b
    BY <1>0
  <2> QED BY <2>1, <2>2, <2>3
<1>6. x \o y = w
  BY <1>3, <1>4, <1>5, SeqEqual
<1> QED BY <1>6 DEF x, y, w

\* The line before a place begins after the last newline before it.
LEMMA LineBegins ==
  ASSUME NEW s \in Seq(Bytes), NEW b \in 0..Len(s), NEW stop \in (b + 1)..(Len(s) + 1),
         b = 0 \/ s[b] = "n", \A i \in (b + 1)..(stop - 1) : s[i] # "n"
  PROVE  LineBefore(s, stop) = SubSeq(s, b + 1, stop - 1)
<1> DEFINE breaks == {0} \union {i \in Newlines(s) : i < stop}
<1>1. Len(s) \in Nat /\ DOMAIN s = 1..Len(s)
  BY LenProperties
<1>2. b \in breaks /\ \A y \in breaks : b >= y /\ y \in Int
  BY <1>1 DEF Newlines
<1>3. Max(breaks) = b
  <2>1. \A x \in breaks : (\A y \in breaks : x >= y) => x = b
    BY <1>2
  <2> QED BY <1>2, <2>1 DEF Max
<1>4. LineBefore(s, stop) = SubSeq(s, 1 + b, stop - 1)
  BY <1>3 DEF LineBefore
<1>5. 1 + b = b + 1
  BY <1>1
<1> QED BY <1>4, <1>5

\* A line that was dropped for its length is refused like the whole line.
LEMMA FinishedAsMeant ==
  ASSUME NEW line \in Seq(Bytes), Limit \in Nat,
         NEW bytes, NEW over \in BOOLEAN, over <=> Len(line) > Limit + 1,
         ~ over => bytes = line
  PROVE  Finished(bytes, over) = Meant(line)
<1>1. Len(line) \in Nat
  BY LenProperties
<1>2. CASE over
  BY <1>1, <1>2, EmptySeq, BetweenIs DEF Front, Meant, Finished
<1>3. CASE ~ over
  BY <1>3 DEF Finished, Meant
<1> QED BY <1>2, <1>3

\* The line that ends at a newline is the record with that newline's number.
LEMMA LineAt ==
  ASSUME NEW s \in Seq(Bytes), NEW e \in Newlines(s)
  PROVE  /\ IsFiniteSet(Newlines(s))
         /\ Cardinality(NewlinesTo(s, e)) \in 1..Cardinality(Newlines(s))
         /\ Lines(s)[Cardinality(NewlinesTo(s, e))] = Meant(LineBefore(s, e))
<1> DEFINE k == Cardinality(NewlinesTo(s, e))
<1>1. Len(s) \in Nat /\ DOMAIN s = 1..Len(s)
  BY LenProperties
<1>2. IsFiniteSet(Newlines(s)) /\ Newlines(s) \subseteq 1..Len(s)
  <2>1. Newlines(s) \in SUBSET (1..Len(s))
    BY <1>1 DEF Newlines
  <2>2. IsFiniteSet(1..Len(s))
    BY <1>1, FS_Interval
  <2> QED BY <2>1, <2>2, FS_Subset
<1>3. ASSUME NEW n \in Newlines(s)
      PROVE  /\ NewlinesTo(s, n) \in SUBSET Newlines(s) /\ n \in NewlinesTo(s, n)
             /\ IsFiniteSet(NewlinesTo(s, n))
             /\ Cardinality(NewlinesTo(s, n)) \in 1..Cardinality(Newlines(s))
  <2>1. NewlinesTo(s, n) \in SUBSET Newlines(s) /\ n \in NewlinesTo(s, n)
    BY <1>2 DEF NewlinesTo
  <2>2. /\ IsFiniteSet(NewlinesTo(s, n))
        /\ Cardinality(NewlinesTo(s, n)) <= Cardinality(Newlines(s))
    BY <1>2, <2>1, FS_Subset
  <2>3. Cardinality(NewlinesTo(s, n)) # 0
    BY <2>1, <2>2, FS_EmptySet
  <2> QED BY <1>2, <2>1, <2>2, <2>3, FS_CardinalityType
<1>4. ASSUME NEW n \in Newlines(s), Cardinality(NewlinesTo(s, n)) = k
      PROVE  n = e
  <2>1. CASE n <= e
    <3>1. NewlinesTo(s, n) \in SUBSET NewlinesTo(s, e)
      BY <1>2, <2>1 DEF NewlinesTo
    <3>2. NewlinesTo(s, e) = NewlinesTo(s, n)
      BY <1>3, <1>4, <3>1, FS_Subset
    <3>3. e <= n
      BY <1>3, <3>2 DEF NewlinesTo
    <3> QED BY <1>2, <2>1, <3>3
  <2>2. CASE e <= n
    <3>1. NewlinesTo(s, e) \in SUBSET NewlinesTo(s, n)
      BY <1>2, <2>2 DEF NewlinesTo
    <3>2. NewlinesTo(s, e) = NewlinesTo(s, n)
      BY <1>3, <1>4, <3>1, FS_Subset
    <3>3. n <= e
      BY <1>3, <3>2 DEF NewlinesTo
    <3> QED BY <1>2, <2>2, <3>3
  <2> QED BY <1>2, <2>1, <2>2
<1>5. (CHOOSE n \in Newlines(s) : Cardinality(NewlinesTo(s, n)) = k) = e
  BY <1>4
<1>6. k \in 1..Cardinality(Newlines(s))
  BY <1>3
<1>7. Lines(s)[k] = Meant(LineBefore(s, CHOOSE n \in Newlines(s) :
                                          Cardinality(NewlinesTo(s, n)) = k))
  BY <1>6 DEF Lines, NewlinesTo
<1> QED BY <1>2, <1>5, <1>6, <1>7

ReaderTyped ==
  /\ stream \in Seq(Bytes) /\ taken \in 0..Len(stream)
  /\ kept \in Seq(Bytes) /\ Len(kept) <= Limit + 1
  /\ tooLong \in BOOLEAN /\ inputEnded \in BOOLEAN
  /\ records \in Seq(Returned(stream))

\* The line that begins after b is being read: all before it was returned, and what is
\* kept is all there is of it, or nothing when it is too long.
Reading(b) ==
  /\ b \in 0..taken /\ (b = 0 \/ stream[b] = "n")
  /\ \A i \in (b + 1)..taken : stream[i] # "n"
  /\ tooLong <=> taken - b > Limit + 1
  /\ kept = IF tooLong THEN << >> ELSE SubSeq(stream, b + 1, taken)
  /\ Len(records) = Cardinality(NewlinesTo(stream, b))
  /\ \A i \in 1..Len(records) : records[i] = Lines(stream)[i]

\* The last line was returned, whether or not a newline ends it.
AllRead ==
  /\ taken = Len(stream) /\ kept = << >> /\ ~ tooLong
  /\ records = Lines(stream) \o (IF Unterminated(stream) = << >> THEN << >>
                                 ELSE << Meant(Unterminated(stream)) >>)

ReaderInv ==
  /\ ReaderTyped
  /\ AllRead \/ (~ inputEnded /\ \E b \in 0..taken : Reading(b))

\* The lines of a text are as many as its newlines.
LEMMA LinesAreReturned ==
  ASSUME NEW s \in Seq(Bytes)
  PROVE  /\ Lines(s) \in Seq(Returned(s)) /\ Len(Lines(s)) = Cardinality(Newlines(s))
         /\ IsFiniteSet(Newlines(s)) /\ Cardinality(Newlines(s)) \in Nat
         /\ Newlines(s) \subseteq 1..Len(s) /\ Len(s) \in Nat
<1> DEFINE n == Cardinality(Newlines(s))
<1>1. Len(s) \in Nat /\ DOMAIN s = 1..Len(s)
  BY LenProperties
<1>2. IsFiniteSet(Newlines(s)) /\ Newlines(s) \subseteq 1..Len(s) /\ n \in Nat
  <2>1. Newlines(s) \in SUBSET (1..Len(s))
    BY <1>1 DEF Newlines
  <2>2. IsFiniteSet(1..Len(s))
    BY <1>1, FS_Interval
  <2> QED BY <2>1, <2>2, FS_Subset, FS_CardinalityType
<1>3. \A i \in 1..n : Lines(s)[i] \in Returned(s)
  BY DEF Returned
<1>4. Lines(s) = [i \in 1..n |-> Lines(s)[i]]
  BY DEF Lines
<1> HIDE DEF n
<1>5. Lines(s) \in [1..n -> Returned(s)]
  BY <1>3, <1>4
<1>6. Lines(s) \in Seq(Returned(s))
  BY <1>2, <1>5, SeqDef
<1>7. Len(Lines(s)) = n
  BY <1>2, <1>5, <1>6, LenProperties
<1> QED BY <1>1, <1>2, <1>6, <1>7 DEF n

LEMMA ReaderInvInit == ReaderInit => ReaderInv
<1> SUFFICES ASSUME ReaderInit
             PROVE  ReaderInv
  OBVIOUS
<1>1. PICK n \in 0..MaxStream : stream \in [1..n -> Bytes]
  BY DEF ReaderInit
<1>2. stream \in Seq(Bytes)
  BY <1>1, ReaderAssumption, SeqDef
<1>3. Len(stream) \in Nat /\ Limit \in Nat
  BY <1>2, LenProperties, ReaderAssumption
<1>4. << >> \in Seq(Bytes) /\ Len(<< >>) = 0 /\ << >> \in Seq(Returned(stream))
  BY EmptySeq
<1>0. /\ taken = 0 /\ kept = << >> /\ tooLong = FALSE /\ records = << >> /\ inputEnded = FALSE
  BY DEF ReaderInit
<1>5. ReaderTyped
  <2>1. stream \in Seq(Bytes) /\ taken \in 0..Len(stream)
    BY <1>0, <1>2, <1>3
  <2>2. kept \in Seq(Bytes) /\ Len(kept) <= Limit + 1
    BY <1>0, <1>3, <1>4
  <2>3. tooLong \in BOOLEAN /\ inputEnded \in BOOLEAN
    BY <1>0
  <2>4. records \in Seq(Returned(stream))
    BY <1>0, <1>4
  <2> QED BY <2>1, <2>2, <2>3, <2>4 DEF ReaderTyped
<1>6. SubSeq(stream, 1, 0) = << >>
  BY <1>2, <1>3, BetweenIs, EmptySeq
<1>7. NewlinesTo(stream, 0) = {}
  BY <1>2, LinesAreReturned DEF NewlinesTo
<1>8. Reading(0)
  BY <1>0, <1>3, <1>6, <1>4, <1>7, FS_EmptySet DEF Reading
<1> QED BY <1>0, <1>5, <1>8 DEF ReaderInv

\* A piece with no newline in it is more of the line that is being read.
LEMMA FillGrows ==
  ASSUME ReaderTyped, NEW b \in 0..taken, Reading(b),
         NEW z \in taken..Len(stream), NEW more, NEW over,
         \A i \in (taken + 1)..z : stream[i] # "n",
         more = SubSeq(stream, taken + 1, z), over = (tooLong \/ Overflows(kept, more))
  PROVE  /\ over \in BOOLEAN /\ (over <=> z - b > Limit + 1)
         /\ ~ over => kept \o more = SubSeq(stream, b + 1, z)
         /\ SubSeq(stream, b + 1, z) \in Seq(Bytes) /\ Len(SubSeq(stream, b + 1, z)) = z - b
         /\ \A i \in (b + 1)..z : stream[i] # "n"
<1>1. /\ stream \in Seq(Bytes) /\ Len(stream) \in Nat /\ taken \in Nat /\ taken <= Len(stream)
      /\ b \in Nat /\ b <= taken /\ z \in Nat /\ taken <= z /\ z <= Len(stream)
      /\ Limit \in Nat /\ tooLong \in BOOLEAN
  BY LenProperties, ReaderAssumption DEF ReaderTyped
<1>2. Len(more) = z - taken
  BY <1>1, BetweenIs
<1>3. tooLong => taken - b > Limit + 1
  BY DEF Reading
<1>4. ~ tooLong => kept = SubSeq(stream, b + 1, taken) /\ Len(kept) = taken - b
  BY <1>1, BetweenIs DEF Reading
<1>5. over \in BOOLEAN /\ (over <=> z - b > Limit + 1)
  <2> DEFINE spills == Overflows(kept, more)
  <2>1. tooLong => z - b > Limit + 1
    BY <1>1, <1>3
  <2>2. ~ tooLong => (spills <=> z - b > Limit + 1)
    <3> SUFFICES ASSUME ~ tooLong
                 PROVE  spills <=> z - b > Limit + 1
      OBVIOUS
    <3>0. Len(kept) = taken - b
      BY <1>4, Zenon
    <3>1. Len(kept) + Len(more) = z - b
      BY <1>1, <1>2, <3>0
    <3> QED BY <3>1 DEF Overflows
  <2> HIDE DEF spills
  <2>3. over = (tooLong \/ spills)
    BY DEF spills
  <2> DEFINE long == z - b > Limit + 1
  <2>4. (tooLong => long) /\ (~ tooLong => (spills <=> long))
    BY <2>1, <2>2
  <2> HIDE DEF long
  <2>5. over \in BOOLEAN /\ (over <=> long)
    BY <2>3, <2>4, Zenon
  <2> QED BY <2>5 DEF long
<1>6. ~ over => kept \o more = SubSeq(stream, b + 1, z)
  <2>1. ~ over => ~ tooLong
    BY Zenon
  <2>2. /\ b \in 0..Len(stream) /\ taken \in b..Len(stream)
    BY <1>1
  <2>3. SubSeq(stream, b + 1, taken) \o SubSeq(stream, taken + 1, z) = SubSeq(stream, b + 1, z)
    BY <1>1, <2>2, BetweenJoins
  <2> QED BY <1>4, <2>1, <2>3
<1>7. SubSeq(stream, b + 1, z) \in Seq(Bytes) /\ Len(SubSeq(stream, b + 1, z)) = z - b
  BY <1>1, BetweenIs
<1>8. \A i \in (b + 1)..z : stream[i] # "n"
  BY <1>1 DEF Reading
<1> QED BY <1>5, <1>6, <1>7, <1>8

\* A piece is more of the line, or ends it and begins the next.
LEMMA FillReads ==
  ASSUME ReaderInv, NEW size \in 1..MaxStream, Fill(size)
  PROVE  ReaderInv'
<1> DEFINE piece == SubSeq(stream, taken + 1, taken + size)
           stops == {i \in DOMAIN piece : piece[i] = "n"}
           more  == IF stops = {} THEN piece ELSE SubSeq(piece, 1, Min(stops) - 1)
           over  == tooLong \/ Overflows(kept, more)
           all   == IF over THEN << >> ELSE kept \o more
<1>1. /\ stream \in Seq(Bytes) /\ Len(stream) \in Nat /\ taken \in Nat /\ taken <= Len(stream)
      /\ Limit \in Nat /\ ReaderTyped /\ records \in Seq(Returned(stream))
      /\ inputEnded \in BOOLEAN
  BY LenProperties, ReaderAssumption DEF ReaderInv, ReaderTyped
<1>2. /\ ~ inputEnded /\ size \in 1..(Len(stream) - taken)
      /\ stream' = stream /\ inputEnded' = inputEnded
  BY DEF Fill
<1>3. size \in Nat /\ size >= 1 /\ taken + size <= Len(stream)
  BY <1>1, <1>2
<1>4. PICK b \in 0..taken : Reading(b)
  BY <1>1, <1>3 DEF AllRead, ReaderInv
<1>5. /\ piece \in Seq(Bytes) /\ Len(piece) = size /\ DOMAIN piece = 1..size
      /\ \A i \in 1..size : piece[i] = stream[taken + i]
  BY <1>1, <1>3, BetweenIs, LenProperties
<1>6. \/ /\ stops = {} /\ taken' = taken + size
         /\ kept' = all /\ tooLong' = over /\ records' = records
      \/ /\ stops # {} /\ taken' = taken + Min(stops)
         /\ records' = Append(records, Finished(all, over))
         /\ kept' = << >> /\ tooLong' = FALSE
  BY DEF Fill
<1>7. CASE stops = {}
  <2> HIDE DEF piece
  <2> DEFINE z == taken + size
  <2>1. z \in taken..Len(stream)
    BY <1>1, <1>3
  <2>2. \A i \in (taken + 1)..z : stream[i] # "n"
    <3>1. ASSUME NEW i \in (taken + 1)..z
          PROVE  stream[i] # "n"
      <4>1. i - taken \in 1..size /\ taken + (i - taken) = i
        BY <1>1, <1>3
      <4> QED BY <1>5, <1>7, <4>1
    <3> QED BY <3>1
  <2>3. more = SubSeq(stream, taken + 1, z)
    BY <1>7 DEF piece
  <2> HIDE DEF stops, more
  <2>4. over = (tooLong \/ Overflows(kept, more))
    OBVIOUS
  <2> HIDE DEF over, z
  <2>5. /\ over \in BOOLEAN /\ (over <=> z - b > Limit + 1)
        /\ ~ over => kept \o more = SubSeq(stream, b + 1, z)
        /\ SubSeq(stream, b + 1, z) \in Seq(Bytes) /\ Len(SubSeq(stream, b + 1, z)) = z - b
        /\ \A i \in (b + 1)..z : stream[i] # "n"
    BY <1>1, <1>4, <2>1, <2>2, <2>3, <2>4, FillGrows
  <2>6. taken' = z /\ kept' = all /\ tooLong' = over /\ records' = records
    BY <1>6, <1>7 DEF z, stops
  <2>7. z - b \in Int /\ b \in 0..z
    BY <1>1, <2>1
  <2>8. ReaderTyped'
    <3>1. all \in Seq(Bytes) /\ Len(all) <= Limit + 1
      <4>1. CASE over
        <5>1. all = << >>
          BY <4>1
        <5> HIDE DEF all
        <5>2. << >> \in Seq(Bytes) /\ Len(<< >>) = 0
          BY EmptySeq
        <5>3. all \in Seq(Bytes) /\ Len(all) = 0
          BY <5>1, <5>2, Zenon
        <5> QED BY <1>1, <5>3
      <4>2. CASE ~ over
        <5>1. all = SubSeq(stream, b + 1, z)
          BY <2>5, <4>2
        <5> HIDE DEF all
        <5> QED BY <1>1, <2>5, <2>7, <4>2, <5>1
      <4> QED BY <4>1, <4>2
    <3> HIDE DEF all
    <3>2. stream' \in Seq(Bytes) /\ taken' \in 0..Len(stream')
      BY <1>1, <1>2, <2>1, <2>6
    <3>3. kept' \in Seq(Bytes) /\ Len(kept') <= Limit + 1
      BY <2>6, <3>1
    <3>4. tooLong' \in BOOLEAN /\ inputEnded' \in BOOLEAN
      BY <1>1, <1>2, <2>5, <2>6
    <3>5. records' \in Seq(Returned(stream'))
      BY <1>1, <1>2, <2>6
    <3> QED BY <3>2, <3>3, <3>4, <3>5 DEF ReaderTyped
  <2>9. Reading(b)'
    BY <1>4, <2>5, <1>2, <2>6, <2>7 DEF Reading, all
  <2> QED BY <1>2, <2>6, <2>7, <2>8, <2>9 DEF ReaderInv
<1>8. CASE stops # {}
  <2> DEFINE n == Min(stops)
             z == taken + n - 1
  <2>1. n \in stops /\ \A i \in stops : n <= i
    <3>1. stops \in SUBSET Nat
      BY <1>3, <1>5
    <3> HIDE DEF stops
    <3> QED BY <1>8, <3>1, NatLeast DEF Min
  <2>2. n \in 1..size /\ stream[taken + n] = "n"
    BY <1>5, <2>1
  <2> HIDE DEF n
  <2>3. z \in taken..Len(stream) /\ z + 1 = taken + n /\ z + 1 \in 1..Len(stream) /\ z \in Nat
    BY <1>1, <1>3, <2>2
  <2>4. \A i \in (taken + 1)..z : stream[i] # "n"
    <3>1. ASSUME NEW i \in (taken + 1)..z
          PROVE  stream[i] # "n"
      <4>1. i - taken \in 1..size /\ taken + (i - taken) = i /\ i - taken < n
        BY <1>1, <1>3, <2>2
      <4>2. i - taken \notin stops
        <5>1. n \in Nat
          BY <1>3, <2>2
        <5> HIDE DEF stops
        <5> QED BY <1>1, <2>1, <4>1, <5>1
      <4> HIDE DEF piece
      <4> QED BY <1>5, <4>1, <4>2
    <3> QED BY <3>1
  <2>5. more = SubSeq(stream, taken + 1, z)
    <3>1. more = SubSeq(piece, 1, n - 1)
      BY <1>8 DEF n
    <3> HIDE DEF piece, more
    <3> DEFINE x == SubSeq(piece, 1, n - 1)
               y == SubSeq(stream, taken + 1, z)
    <3>2. 1 \in 1..Len(piece) + 1 /\ n - 1 \in (1 - 1)..Len(piece)
      BY <1>3, <1>5, <2>2
    <3>3. /\ x \in Seq(Bytes) /\ Len(x) = n - 1 - 1 + 1
          /\ \A i \in 1..(n - 1 - 1 + 1) : x[i] = piece[1 + i - 1]
      BY <1>5, <3>2, BetweenIs
    <3>4. taken + 1 \in 1..Len(stream) + 1 /\ z \in (taken + 1 - 1)..Len(stream)
      BY <1>1, <2>3
    <3>5. /\ y \in Seq(Bytes) /\ Len(y) = z - (taken + 1) + 1
          /\ \A i \in 1..(z - (taken + 1) + 1) : y[i] = stream[taken + 1 + i - 1]
      BY <1>1, <3>4, BetweenIs
    <3> HIDE DEF x, y
    <3>6. ASSUME NEW i \in 1..(n - 1)
          PROVE  x[i] = y[i]
      <4>1. /\ i \in 1..(n - 1 - 1 + 1) /\ 1 + i - 1 = i /\ i \in 1..size
            /\ i \in 1..(z - (taken + 1) + 1) /\ taken + 1 + i - 1 = taken + i
        BY <1>1, <1>3, <2>2, <2>3
      <4> QED BY <1>5, <3>3, <3>5, <4>1
    <3>7. Len(x) = n - 1 /\ Len(y) = n - 1
      BY <1>1, <2>2, <2>3, <3>3, <3>5
    <3>8. x = y
      BY <3>3, <3>5, <3>6, <3>7, SeqEqual
    <3> QED BY <3>1, <3>8 DEF x, y
  <2> HIDE DEF stops, more, piece
  <2>6. over = (tooLong \/ Overflows(kept, more))
    OBVIOUS
  <2> HIDE DEF over, z
  <2> DEFINE line == SubSeq(stream, b + 1, z)
             e    == z + 1
  <2>7. /\ over \in BOOLEAN /\ (over <=> z - b > Limit + 1)
        /\ ~ over => kept \o more = line
        /\ line \in Seq(Bytes) /\ Len(line) = z - b
        /\ \A i \in (b + 1)..z : stream[i] # "n"
    BY <1>1, <1>4, <2>3, <2>4, <2>5, <2>6, FillGrows
  <2>8. LineBefore(stream, e) = line
    <3>1. b = 0 \/ stream[b] = "n"
      BY <1>4 DEF Reading
    <3>2. b \in 0..Len(stream) /\ e \in (b + 1)..(Len(stream) + 1) /\ e - 1 = z
      BY <1>1, <2>3
    <3> HIDE DEF e
    <3> QED BY <1>1, <2>7, <3>1, <3>2, LineBegins
  <2>9. Finished(all, over) = Meant(LineBefore(stream, e))
    BY <2>7, <1>1, <2>8, FinishedAsMeant
  <2>10. /\ taken' = e /\ records' = Append(records, Meant(LineBefore(stream, e)))
         /\ kept' = << >> /\ tooLong' = FALSE
    BY <1>6, <1>8, <2>3, <2>9 DEF n, stops
  <2>11. e \in Newlines(stream)
    BY <1>1, <2>2, <2>3, LenProperties DEF Newlines
  <2> DEFINE k == Len(records)
  <2>12. k = Cardinality(NewlinesTo(stream, b)) /\ k \in Nat
         /\ \A i \in 1..k : records[i] = Lines(stream)[i]
    BY <1>1, <1>4, LenProperties DEF Reading
  <2>13. Cardinality(NewlinesTo(stream, e)) = k + 1
    <3>1. NewlinesTo(stream, e) = NewlinesTo(stream, b) \union {e}
      <4>1. \A i \in Newlines(stream) : (i <= e) <=> (i <= b \/ i = e)
        BY <1>1, LinesAreReturned, <2>7, <2>3 DEF Newlines
      <4> HIDE DEF e
      <4> QED BY <2>11, <4>1 DEF NewlinesTo
    <3>2. IsFiniteSet(NewlinesTo(stream, b)) /\ e \notin NewlinesTo(stream, b)
      BY <1>1, <2>3, LinesAreReturned, FS_Subset DEF NewlinesTo
    <3> HIDE DEF e
    <3>3. Cardinality(NewlinesTo(stream, b) \union {e}) = Cardinality(NewlinesTo(stream, b)) + 1
      BY <3>2, FS_AddElement
    <3> QED BY <2>12, <3>1, <3>3
  <2>14. /\ k + 1 \in 1..Cardinality(Newlines(stream))
         /\ Meant(LineBefore(stream, e)) = Lines(stream)[k + 1]
         /\ Meant(LineBefore(stream, e)) \in Returned(stream)
    BY <1>1, <2>11, <2>13, LineAt DEF Returned
  <2>15. /\ records' \in Seq(Returned(stream)) /\ Len(records') = k + 1
         /\ \A i \in 1..(k + 1) : records'[i] = Lines(stream)[i]
    BY <1>1, <2>10, <2>14, AppendProperties, <2>12
  <2>16. ReaderTyped'
    <3>1. stream' \in Seq(Bytes) /\ taken' \in 0..Len(stream')
      BY <1>1, <1>2, <2>3, <2>10
    <3>2. kept' \in Seq(Bytes) /\ Len(kept') <= Limit + 1
      BY <1>1, <2>10, EmptySeq
    <3>3. tooLong' \in BOOLEAN /\ inputEnded' \in BOOLEAN
      BY <1>1, <1>2, <2>10
    <3>4. records' \in Seq(Returned(stream'))
      BY <1>2, <2>15
    <3> QED BY <3>1, <3>2, <3>3, <3>4 DEF ReaderTyped
  <2> PICK c : c = e
    OBVIOUS
  <2>17. Reading(c)'
    <3>1. SubSeq(stream, e + 1, e) = << >>
      BY <1>1, <2>3, BetweenIs, EmptySeq
    <3>2. e \in 0..e /\ ~ e - e > Limit + 1 /\ stream[e] = "n" /\ (e + 1)..e = {}
      BY <1>1, <2>2, <2>3
    <3> HIDE DEF e
    <3>3. /\ c \in 0..taken' /\ stream'[c] = "n" /\ \A i \in (c + 1)..taken' : stream'[i] # "n"
      BY <1>2, <2>10, <3>2
    <3>4. ~ tooLong' /\ ~ taken' - c > Limit + 1 /\ kept' = SubSeq(stream', c + 1, taken')
      BY <1>2, <2>10, <3>1, <3>2
    <3>5. /\ Len(records') = Cardinality(NewlinesTo(stream', c))
          /\ \A i \in 1..Len(records') : records'[i] = Lines(stream')[i]
      BY <1>2, <2>13, <2>15
    <3> QED BY <3>3, <3>4, <3>5 DEF Reading
  <2>18. c \in 0..taken'
    BY <2>3, <2>10
  <2> QED BY <1>2, <2>16, <2>17, <2>18 DEF ReaderInv
<1> QED BY <1>7, <1>8

\* The end of the stream ends the line that is left, and then the reading.
LEMMA EndReads ==
  ASSUME ReaderInv, EndOfStream
  PROVE  ReaderInv'
<1>1. /\ stream \in Seq(Bytes) /\ Len(stream) \in Nat /\ taken = Len(stream)
      /\ Limit \in Nat /\ ReaderTyped /\ records \in Seq(Returned(stream))
      /\ inputEnded = FALSE /\ stream' = stream /\ taken' = taken
  BY LenProperties, ReaderAssumption DEF ReaderInv, ReaderTyped, EndOfStream
<1>2. ASSUME NEW b \in 0..taken, Reading(b)
      PROVE  /\ Unterminated(stream) = SubSeq(stream, b + 1, taken)
             /\ Unterminated(stream) \in Seq(Bytes) /\ Len(Unterminated(stream)) = taken - b
             /\ records = Lines(stream) /\ b \in Nat /\ taken - b \in Nat
  <2>1. b \in Nat /\ b <= taken /\ taken - b \in Nat
    BY <1>1
  <2>2. LineBefore(stream, Len(stream) + 1) = SubSeq(stream, b + 1, Len(stream) + 1 - 1)
    <3>1. /\ b \in 0..Len(stream) /\ Len(stream) + 1 \in (b + 1)..(Len(stream) + 1)
          /\ Len(stream) + 1 - 1 = taken
      BY <1>1, <2>1
    <3>2. (b = 0 \/ stream[b] = "n") /\ \A i \in (b + 1)..taken : stream[i] # "n"
      BY <1>2 DEF Reading
    <3> DEFINE stop == Len(stream) + 1
    <3>3. \A i \in (b + 1)..(stop - 1) : stream[i] # "n"
      BY <3>1, <3>2
    <3> HIDE DEF stop
    <3>4. b \in 0..Len(stream) /\ stop \in (b + 1)..(Len(stream) + 1)
      BY <3>1 DEF stop
    <3>5. LineBefore(stream, stop) = SubSeq(stream, b + 1, stop - 1)
      BY <1>1, <3>2, <3>3, <3>4, LineBegins
    <3> QED BY <3>5 DEF stop
  <2>3. Unterminated(stream) = SubSeq(stream, b + 1, taken)
    BY <1>1, <2>2 DEF Unterminated
  <2>4. NewlinesTo(stream, b) = Newlines(stream)
    BY <1>2, <1>1, LinesAreReturned, <2>1 DEF Reading, Newlines, NewlinesTo
  <2>5. records = Lines(stream)
    BY <1>1, <1>2, <2>4, LinesAreReturned, SeqEqual DEF Reading
  <2>6. SubSeq(stream, b + 1, taken) \in Seq(Bytes) /\ Len(SubSeq(stream, b + 1, taken)) = taken - b
    BY <1>1, <2>1, BetweenIs
  <2> QED BY <2>1, <2>3, <2>5, <2>6
<1>3. CASE kept = << >> /\ ~ tooLong
  <2>1. inputEnded' = TRUE /\ kept' = kept /\ tooLong' = tooLong /\ records' = records
    BY <1>3 DEF EndOfStream
  <2>2. ReaderTyped'
    BY <1>1, <2>1 DEF ReaderTyped
  <2>3. AllRead
    BY <1>2, <1>3, <1>1, LinesAreReturned, ConcatEmptySeq DEF Reading, AllRead, ReaderInv
  <2>4. AllRead'
    BY <1>1, <2>1, <2>3 DEF AllRead
  <2> QED BY <2>2, <2>4 DEF ReaderInv
<1>4. CASE ~ (kept = << >> /\ ~ tooLong)
  <2>1. /\ records' = Append(records, Finished(kept, tooLong))
        /\ kept' = << >> /\ tooLong' = FALSE /\ inputEnded' = inputEnded
    BY <1>4 DEF EndOfStream
  <2>2. PICK b \in 0..taken : Reading(b)
    BY <1>4 DEF ReaderInv, AllRead
  <2> DEFINE line == Unterminated(stream)
  <2>3. /\ line = SubSeq(stream, b + 1, taken) /\ line \in Seq(Bytes) /\ Len(line) = taken - b
        /\ records = Lines(stream) /\ taken - b \in Nat
    BY <1>2, <2>2
  <2>4. /\ tooLong \in BOOLEAN /\ (tooLong <=> Len(line) > Limit + 1)
        /\ ~ tooLong => kept = line
    BY <1>1, <2>2, <2>3 DEF Reading, ReaderTyped
  <2>5. line # << >>
    <3>1. CASE tooLong
      <4> HIDE DEF line
      <4>1. Len(line) > 0
        BY <1>1, <2>3, <2>4, <3>1
      <4> QED BY <4>1, EmptySeq
    <3> QED BY <1>4, <2>4, <3>1
  <2> HIDE DEF line
  <2>6. Finished(kept, tooLong) = Meant(line)
    BY <1>1, <2>3, <2>4, FinishedAsMeant
  <2>7. Meant(line) \in Returned(stream)
    BY DEF Returned, line
  <2>8. records' \in Seq(Returned(stream))
    BY <1>1, <2>1, <2>6, <2>7, AppendProperties
  <2>9. records' = Lines(stream) \o << Meant(line) >>
    BY <1>1, <2>1, <2>3, <2>6, <2>7, LinesAreReturned, AppendIsConcat
  <2>10. ReaderTyped'
    <3>1. stream' \in Seq(Bytes) /\ taken' \in 0..Len(stream')
      BY <1>1, <2>1
    <3>2. kept' \in Seq(Bytes) /\ Len(kept') <= Limit + 1
      BY <1>1, <2>1, EmptySeq
    <3>3. tooLong' \in BOOLEAN /\ inputEnded' \in BOOLEAN
      BY <1>1, <2>1
    <3>4. records' \in Seq(Returned(stream'))
      BY <1>1, <2>8
    <3> QED BY <3>1, <3>2, <3>3, <3>4 DEF ReaderTyped
  <2>11. AllRead'
    BY <1>1, <2>1, <2>5, <2>9 DEF AllRead, line
  <2> QED BY <2>10, <2>11 DEF ReaderInv
<1> QED BY <1>3, <1>4

LEMMA ReaderInvNext == ReaderInv /\ [ReaderNext]_readerVars => ReaderInv'
<1> SUFFICES ASSUME ReaderInv, [ReaderNext]_readerVars
             PROVE  ReaderInv'
  OBVIOUS
<1>1. CASE EndOfStream
  BY <1>1, EndReads
<1>2. ASSUME NEW size \in 1..MaxStream, Fill(size)
      PROVE  ReaderInv'
  BY <1>2, FillReads
<1>3. CASE UNCHANGED readerVars
  BY <1>3 DEF ReaderInv, ReaderTyped, AllRead, Reading, readerVars
<1> QED BY <1>1, <1>2, <1>3 DEF ReaderNext

\* However the bytes of the stream fall into pieces, and whatever the limit, what
\* read_request_line() returns are the lines of the stream, and it never keeps more
\* than a byte over the limit.
THEOREM ReaderRecordsAreLines == ReaderSpec => []RecordsAreLines
<1>1. ReaderInv => RecordsAreLines
  <2> SUFFICES ASSUME ReaderInv
               PROVE  RecordsAreLines
    OBVIOUS
  <2>1. /\ stream \in Seq(Bytes) /\ records \in Seq(Returned(stream)) /\ Len(kept) <= Limit + 1
        /\ taken \in 0..Len(stream) /\ Len(stream) \in Nat
    BY LenProperties DEF ReaderInv, ReaderTyped
  <2>2. inputEnded => AllRead
    BY DEF ReaderInv
  <2>3. ASSUME NEW b \in 0..taken, Reading(b)
        PROVE  IsPrefix(records, Lines(stream))
    <3> DEFINE k == Len(records)
    <3>1. /\ k = Cardinality(NewlinesTo(stream, b)) /\ k \in Nat
          /\ \A i \in 1..k : records[i] = Lines(stream)[i]
      BY <2>1, <2>3, LenProperties DEF Reading
    <3>2. k <= Len(Lines(stream))
      BY <2>1, <3>1, LinesAreReturned, FS_Subset DEF NewlinesTo
    <3>3. SubSeq(records, 1, k) = [i \in 1..k |-> records[i]]
      BY <2>1, <3>1
    <3>4. SubSeq(Lines(stream), 1, k) = [i \in 1..k |-> Lines(stream)[i]]
      BY <2>1, <3>1, <3>2, LinesAreReturned
    <3> QED BY <3>1, <3>2, <3>3, <3>4 DEF IsPrefix
  <2> QED BY <2>1, <2>2, <2>3 DEF ReaderInv, AllRead, RecordsAreLines
<1> QED BY ReaderInvInit, ReaderInvNext, <1>1, PTL DEF ReaderSpec

-----------------------------------------------------------------------------
(* Headings, their sections and the edits that move them (Headings): what  *)
(* the parser finds in a text lies apart, and an outline has all of it, in *)
(* order.                                                                  *)

Entry == [level : 0..6, src : Nat, end : Int]

LEMMA LowestFound ==
  ASSUME NEW S \in SUBSET Nat, S # {}
  PROVE  Lowest(S) \in S /\ \A n \in S : Lowest(S) <= n
BY NatLeast DEF Lowest

\* A paragraph begins where it begins, and is text from there on.
LEMMA ParagraphFound ==
  ASSUME NEW ls, NEW i \in Nat, i > 0, ls[i].kind = "text"
  PROVE  /\ ParagraphStart(ls, i) \in 1..i
         /\ \A k \in ParagraphStart(ls, i)..i : ls[k].kind = "text"
<1> DEFINE S == {j \in 1..i : /\ \A k \in j..i : ls[k].kind = "text"
                             /\ \A k \in (j + 1)..i : ~ls[k].bullet}
<1>1. i \in S
  OBVIOUS
<1>2. S \in SUBSET Nat
  OBVIOUS
<1>3. Lowest(S) \in S
  BY <1>1, <1>2, LowestFound
<1>4. ParagraphStart(ls, i) = Lowest(S)
  BY DEF ParagraphStart
<1> HIDE DEF Lowest
<1> QED BY <1>3, <1>4

\* Headings are whole, of a level, and none lies in the lines of another.
LEMMA HeadingsFit ==
  ASSUME NEW ls \in Seq(Line)
  PROVE  /\ \A h \in HeadingsOf(ls) :
              /\ h \in [level : 0..6, src : Nat, last : Nat]
              /\ h.src \in 1..Len(ls) /\ h.last \in h.src..Len(ls)
              /\ ls[h.src].kind = (IF h.last = h.src THEN "atx" ELSE "text")
         /\ \A g, h \in HeadingsOf(ls) : g = h \/ g.last < h.src \/ h.last < g.src
<1> DEFINE n == Len(ls)
           ParaOf(i) == ParagraphStart(ls, i - 1)
           Atxs == {[level |-> ls[i].level, src |-> i, last |-> i] :
                      i \in {i \in DOMAIN ls : ls[i].kind = "atx"}}
           Setexts == {[level |-> ls[i].level, src |-> ParagraphStart(ls, i - 1), last |-> i] :
                         i \in {i \in DOMAIN ls : Underlines(ls, i)}}
<1>1. n \in Nat /\ DOMAIN ls = 1..n /\ \A i \in 1..n : ls[i].level \in 0..6
  <2>1. \A i \in 1..Len(ls) : ls[i] \in Line
    BY ElementOfSeq
  <2> QED BY <2>1, LenProperties DEF Line
<1>2. ASSUME NEW i \in 1..n, Underlines(ls, i)
      PROVE  /\ i - 1 \in 1..n /\ ls[i].kind = "rule"
             /\ ParaOf(i) \in 1..(i - 1) /\ \A k \in ParaOf(i)..(i - 1) : ls[k].kind = "text"
  BY <1>2, <1>1, ParagraphFound DEF Underlines
<1>3. \A h \in HeadingsOf(ls) : h \in Atxs \/ h \in Setexts
  BY DEF HeadingsOf
<1>4. ASSUME NEW h \in Atxs
      PROVE  /\ h \in [level : 0..6, src : Nat, last : Nat]
             /\ h.src \in 1..n /\ h.last = h.src /\ ls[h.src].kind = "atx"
             /\ h.level = ls[h.last].level
  BY <1>1
<1>5. ASSUME NEW h \in Setexts
      PROVE  /\ h \in [level : 0..6, src : Nat, last : Nat]
             /\ h.last \in 1..n /\ h.src \in 1..(h.last - 1) /\ ls[h.last].kind = "rule"
             /\ h.src = ParaOf(h.last) /\ h.level = ls[h.last].level
             /\ \A k \in h.src..(h.last - 1) : ls[k].kind = "text"
  BY <1>1, <1>2
<1> HIDE DEF Atxs, Setexts, ParaOf
<1>6. ASSUME NEW h \in HeadingsOf(ls)
      PROVE  /\ h \in [level : 0..6, src : Nat, last : Nat]
             /\ h.src \in 1..n /\ h.last \in h.src..n
             /\ ls[h.src].kind = (IF h.last = h.src THEN "atx" ELSE "text")
  BY <1>1, <1>4, <1>5, <1>3
<1>7. ASSUME NEW g \in HeadingsOf(ls), NEW h \in HeadingsOf(ls), g.last < h.last
      PROVE  g.last < h.src
  BY <1>4, <1>7, <1>3, <1>5, <1>6
<1>8. ASSUME NEW g \in HeadingsOf(ls), NEW h \in HeadingsOf(ls), g.last = h.last
      PROVE  g = h
  BY <1>3, <1>4, <1>5, <1>8, <1>6
<1>9. ASSUME NEW g \in HeadingsOf(ls), NEW h \in HeadingsOf(ls)
      PROVE  g = h \/ g.last < h.src \/ h.last < g.src
  BY <1>6, <1>7, <1>8
<1> QED BY <1>6, <1>9

LEMMA HeadingsFinite ==
  ASSUME NEW ls \in Seq(Line)
  PROVE  IsFiniteSet(HeadingsOf(ls))
<1> DEFINE f == [h \in HeadingsOf(ls) |-> h.src]
<1>1. f \in Injection(HeadingsOf(ls), 1..Len(ls))
  BY HeadingsFit, LenProperties DEF Injection, IsInjective
<1>2. IsFiniteSet(1..Len(ls))
  BY FS_Interval, LenProperties
<1> HIDE DEF f
<1> QED BY <1>1, <1>2, FS_Injection

\* One heading begins at a line, at the most.
LEMMA HeadingsApart ==
  ASSUME NEW ls \in Seq(Line), NEW g \in HeadingsOf(ls), NEW h \in HeadingsOf(ls),
         g.src = h.src
  PROVE  g = h
<1>1. g.src \in Nat /\ g.last \in g.src..Len(ls) /\ h.last \in h.src..Len(ls) /\ Len(ls) \in Nat
  BY HeadingsFit, LenProperties
<1>2. ~ (g.last < h.src) /\ ~ (h.last < g.src)
  BY <1>1
<1> QED BY <1>2, HeadingsFit

LEMMA SectionsEnd ==
  ASSUME NEW ls \in Seq(Line), NEW h \in HeadingsOf(ls)
  PROVE  /\ EndOfSection(ls, h) \in Int
         /\ \A i \in 1..Len(ls) :
              (\A g \in HeadingsOf(ls) : g.src <= i => g.src <= h.src) => i <= EndOfSection(ls, h)
<1> DEFINE after == {g.src : g \in {g \in HeadingsOf(ls) : g.src > h.src /\ g.level <= h.level}}
<1>1. /\ after \in SUBSET Nat /\ Len(ls) \in Nat /\ h.src \in Nat
      /\ \A n \in after : n > h.src /\ \E g \in HeadingsOf(ls) : g.src = n
  BY HeadingsFit, LenProperties
<1>2. EndOfSection(ls, h) = IF after = {} THEN Len(ls) ELSE Lowest(after) - 1
  BY DEF EndOfSection
<1> HIDE DEF after
<1>3. CASE after = {}
  BY <1>1, <1>2, <1>3
<1>4. CASE after # {}
  <2>1. Lowest(after) \in after /\ Lowest(after) \in Nat
    BY <1>1, <1>4, LowestFound
  <2>2. PICK g \in HeadingsOf(ls) : g.src = Lowest(after)
    BY <1>1, <2>1
  <2>3. g.src > h.src /\ EndOfSection(ls, h) = g.src - 1 /\ g.src \in Nat
    BY <1>1, <1>2, <1>4, <2>1, <2>2
  <2>4. ASSUME NEW i \in 1..Len(ls), \A f \in HeadingsOf(ls) : f.src <= i => f.src <= h.src
        PROVE  i <= EndOfSection(ls, h)
    BY <1>1, <2>3, <2>4
  <2> QED BY <2>3, <2>4
<1> QED BY <1>3, <1>4

\* The outline has every heading once, from the first to the last.
LEMMA OutlineFits ==
  ASSUME NEW ls \in Seq(Line)
  PROVE  /\ Outline(ls) \in Seq(Entry)
         /\ \A j, k \in 1..Len(Outline(ls)) : j < k => Outline(ls)[j].src < Outline(ls)[k].src
         /\ \A k \in 1..Len(Outline(ls)) : \E h \in HeadingsOf(ls) :
              Outline(ls)[k] = [level |-> h.level, src |-> h.src, end |-> EndOfSection(ls, h)]
         /\ \A h \in HeadingsOf(ls) : \E k \in 1..Len(Outline(ls)) :
              Outline(ls)[k] = [level |-> h.level, src |-> h.src, end |-> EndOfSection(ls, h)]
<1> DEFINE S == HeadingsOf(ls)
           key == [h \in S |-> h.src]
           hs == InOrder(S)
           EntryOf(h) == [level |-> h.level, src |-> h.src, end |-> EndOfSection(ls, h)]
           es == [k \in DOMAIN hs |-> EntryOf(hs[k])]
<1>1. key \in [S -> Int] /\ (\A d, e \in S : key[d] = key[e] => d = e) /\ IsFiniteSet(S)
  BY HeadingsFit, HeadingsApart, HeadingsFinite
<1>2. \A e \in S : Below(S, key, e) = {d \in S : d.src < e.src}
  BY DEF Below
<1>3. hs = [k \in 1..Cardinality(S) |->
              CHOOSE e \in S : Cardinality({d \in S : d.src < e.src}) = k - 1]
  BY DEF InOrder, Sorted
<1>4. hs = [k \in 1..Cardinality(S) |-> hs[k]]
  BY <1>3
<1>5. ASSUME NEW k \in 1..Cardinality(S),
             \E e \in S : Cardinality(Below(S, key, e)) = k - 1
      PROVE  hs[k] \in S /\ Cardinality(Below(S, key, hs[k])) = k - 1
  BY <1>2, <1>5, <1>3
<1>6. /\ hs \in Seq(S) /\ Len(hs) \in Nat /\ DOMAIN hs = 1..Len(hs)
      /\ \A j, k \in 1..Len(hs) : j < k => key[hs[j]] < key[hs[k]]
      /\ \A e \in S : \E k \in 1..Len(hs) : hs[k] = e
  <2> HIDE DEF S, key, hs
  <2>1. /\ hs \in Seq(S) /\ Len(hs) = Cardinality(S) /\ Cardinality(S) \in Nat
        /\ \A j, k \in 1..Len(hs) : j < k => key[hs[j]] < key[hs[k]]
        /\ \A e \in S : \E k \in 1..Len(hs) : hs[k] = e
    <3>1. Keyed(S, key)
      BY <1>1 DEF Keyed
    <3>2. ByRank(hs, S, key)
      BY <1>4, <1>5 DEF ByRank
    <3> QED BY <3>1, <3>2, InRankOrder
  <2> QED BY <2>1, LenProperties
<1>7. Outline(ls) = es
  BY DEF Outline
<1> HIDE DEF hs
<1>8. \A k \in 1..Len(hs) : hs[k] \in S
  BY <1>6, ElementOfSeq
<1>9. \A h \in S : EntryOf(h) \in Entry /\ EntryOf(h).src = h.src
  BY HeadingsFit, SectionsEnd DEF Entry
<1> HIDE DEF EntryOf, S
<1>10. es \in [1..Len(hs) -> Entry] /\ \A k \in 1..Len(hs) : es[k] = EntryOf(hs[k])
  BY <1>6, <1>8, <1>9
<1> HIDE DEF es
<1>11. es \in Seq(Entry) /\ Len(es) = Len(hs)
  BY SeqDef, <1>6, <1>10, LenOfDomain
<1>12. ASSUME NEW j \in 1..Len(es), NEW k \in 1..Len(es), j < k PROVE es[j].src < es[k].src
  <2>1. hs[j] \in S /\ hs[k] \in S /\ es[j] = EntryOf(hs[j]) /\ es[k] = EntryOf(hs[k])
    BY <1>8, <1>10, <1>11
  <2>2. key[hs[j]] < key[hs[k]]
    BY <1>6, <1>11, <1>12
  <2>3. hs[j].src < hs[k].src
    BY <2>1, <2>2
  <2> QED BY <1>9, <2>1, <2>3
<1>13. \A k \in 1..Len(es) : \E h \in S : es[k] = EntryOf(h)
  BY <1>8, <1>10, <1>11
<1>14. \A h \in S : \E k \in 1..Len(es) : es[k] = EntryOf(h)
  BY <1>6, <1>10, <1>11
<1> QED BY <1>7, <1>11, <1>12, <1>13, <1>14 DEF S, EntryOf

\* The fold of a line is of the last heading at or above it.
LEMMA FoldMeantOf ==
  ASSUME NEW ls \in Seq(Line), NEW i \in 1..Len(ls)
  PROVE  /\ (\A g \in HeadingsOf(ls) : g.src > i) => FoldMeant(ls, i) = NoFold
         /\ \A h \in HeadingsOf(ls) :
              h.src <= i /\ (\A g \in HeadingsOf(ls) : g.src <= i => g.src <= h.src)
                => FoldMeant(ls, i) = [level |-> h.level, opens |-> h.src = i]
<1> DEFINE above == {h \in HeadingsOf(ls) : h.src <= i}
           near == CHOOSE h \in above : \A g \in above : g.src <= h.src
<1>1. FoldMeant(ls, i) = IF above = {} THEN NoFold
                         ELSE [level |-> near.level, opens |-> near.src = i]
  BY DEF FoldMeant
<1>2. \A g \in HeadingsOf(ls) : g.src \in Nat
  BY HeadingsFit
<1>3. ASSUME \A g \in HeadingsOf(ls) : g.src > i PROVE FoldMeant(ls, i) = NoFold
  BY <1>2, <1>3, <1>1
<1>4. ASSUME NEW h \in HeadingsOf(ls), h.src <= i,
             \A g \in HeadingsOf(ls) : g.src <= i => g.src <= h.src
      PROVE  FoldMeant(ls, i) = [level |-> h.level, opens |-> h.src = i]
  BY <1>4, <1>2, HeadingsApart, <1>1
<1> QED BY <1>3, <1>4

-----------------------------------------------------------------------------
(* The folds, one section written over the other.                          *)

Fold == [level : 0..6, opens : BOOLEAN]

Outside(e, i) == i < e.src \/ i > e.end

\* The last section that line i is in.
LastOver(entries, n, i) ==
  ~ Outside(entries[n], i) /\ \A k \in (n + 1)..Len(entries) : Outside(entries[k], i)

\* The folds after each section; a section is written over what was there.
AreWritten(layers, entries, count) ==
  /\ BuildFolds(entries, count) = layers[Len(entries)]
  /\ layers \in [0..Len(entries) -> [1..count -> Fold]]
  /\ layers[0] = [i \in 1..count |-> NoFold]
  /\ \A n \in 1..Len(entries), i \in 1..count :
       layers[n][i] = IF Outside(entries[n], i) THEN layers[n - 1][i]
                       ELSE [level |-> entries[n].level, opens |-> i = entries[n].src]

LEMMA FoldsWritten ==
  ASSUME NEW entries \in Seq(Entry), NEW count \in Nat
  PROVE  \E layers : AreWritten(layers, entries, count)
<1> DEFINE m == Len(entries)
           V == [1..count -> Fold]
           none == [i \in 1..count |-> NoFold]
           Overwrite(f, e) ==
             [i \in 1..count |-> IF i < e.src \/ i > e.end THEN f[i]
                                 ELSE [level |-> e.level, opens |-> i = e.src]]
           step == [p \in V \X (1..m) |-> Overwrite(p[1], entries[p[2]])]
           Rec(f) == f = [n \in 0..m |-> IF n = 0 THEN none ELSE Overwrite(f[n - 1], entries[n])]
           layers == CHOOSE f : Rec(f)
<1>1. m \in Nat /\ \A n \in 1..m : entries[n] \in Entry
  BY LenProperties, ElementOfSeq
<1>2. none \in V
  BY DEF NoFold, Fold
<1>3. ASSUME NEW f \in V, NEW e \in Entry PROVE Overwrite(f, e) \in V
  BY DEF Entry, Fold
<1>4. step \in [V \X (1..m) -> V]
  BY <1>1, <1>3
<1>5. PICK f : Solves(f, V, none, m, step)
  BY <1>1, <1>2, <1>4, RecursionExists
<1>6. f \in [0..m -> V] /\ f[0] = none /\ \A n \in 1..m : f[n] = Overwrite(f[n - 1], entries[n])
  <2> HIDE DEF Overwrite, V, m, none
  <2>1. ASSUME NEW n \in 1..m PROVE f[n] = Overwrite(f[n - 1], entries[n])
    BY <1>1, <1>5 DEF Solves
  <2> QED BY <1>5, <2>1 DEF Solves
<1>7. Rec(f)
  <2> HIDE DEF Overwrite, V, none, m
  <2>1. \A n \in 0..m : n # 0 => n \in 1..m
    BY <1>1
  <2>2. f = [n \in 0..m |-> f[n]]
    BY <1>6
  <2> QED BY <1>6, <2>1, <2>2
<1>8. Rec(layers)
  BY <1>7
<1>9. BuildFolds(entries, count) = layers[m]
  BY DEF BuildFolds
<1> HIDE DEF layers
<1>10. layers[0] = none /\ \A n \in 1..m : layers[n] = Overwrite(layers[n - 1], entries[n])
  <2> HIDE DEF Overwrite, none, m
  <2>1. 0 \in 0..m /\ \A n \in 1..m : n \in 0..m /\ n # 0
    BY <1>1
  <2> QED BY <1>8, <2>1
<1>11. ASSUME NEW n \in 0..m PROVE layers[n] \in V
  <2> HIDE DEF Overwrite, V, none, m
  <2> DEFINE Bad == {k \in 0..m : layers[k] \notin V}
  <2>1. ASSUME Bad # {} PROVE FALSE
    <3>1. PICK k \in Bad : \A j \in Bad : k <= j
      <4>1. Bad \in SUBSET Nat
        BY <1>1
      <4> HIDE DEF Bad
      <4> QED BY <2>1, <4>1, NatLeast
    <3>2. k \in 0..m /\ layers[k] \notin V
      BY <3>1
    <3>3. k # 0
      BY <1>2, <1>10, <3>2
    <3>4. k \in 1..m /\ k - 1 \in 0..m /\ ~ (k <= k - 1)
      BY <1>1, <3>2, <3>3
    <3>5. layers[k - 1] \in V
      BY <3>1, <3>4
    <3>6. Overwrite(layers[k - 1], entries[k]) \in V
      BY <1>1, <1>3, <3>4, <3>5
    <3> QED BY <1>10, <3>2, <3>4, <3>6
  <2> QED BY <2>1
<1>12. layers \in [0..m -> V]
  BY <1>8, <1>11
<1>13. ASSUME NEW n \in 1..m, NEW i \in 1..count
       PROVE  layers[n][i] = IF Outside(entries[n], i) THEN layers[n - 1][i]
                              ELSE [level |-> entries[n].level, opens |-> i = entries[n].src]
  <2>1. layers[n] = Overwrite(layers[n - 1], entries[n])
    BY <1>10
  <2> HIDE DEF m
  <2> QED BY <2>1 DEF Outside
<1> QED BY <1>9, <1>10, <1>12, <1>13 DEF AreWritten

\* A line is folded by the last section that covers it, and by none if none does.
LEMMA LastSectionFolds ==
  ASSUME NEW entries \in Seq(Entry), NEW count \in Nat
  PROVE  /\ BuildFolds(entries, count) \in Seq(Fold)
         /\ Len(BuildFolds(entries, count)) = count
         /\ \A i \in 1..count :
              (\A n \in 1..Len(entries) : Outside(entries[n], i))
                => BuildFolds(entries, count)[i] = NoFold
         /\ \A i \in 1..count, n \in 1..Len(entries) :
              LastOver(entries, n, i) =>
                BuildFolds(entries, count)[i] =
                  [level |-> entries[n].level, opens |-> i = entries[n].src]
<1> DEFINE m == Len(entries)
           folded == BuildFolds(entries, count)
<1>1. m \in Nat
  BY LenProperties
<1>2. PICK layers : AreWritten(layers, entries, count)
  BY FoldsWritten
<1> HIDE DEF m
<1>3. /\ folded = layers[m] /\ layers \in [0..m -> [1..count -> Fold]]
      /\ layers[0] = [i \in 1..count |-> NoFold]
      /\ \A n \in 1..m, i \in 1..count :
           layers[n][i] = IF Outside(entries[n], i) THEN layers[n - 1][i]
                           ELSE [level |-> entries[n].level, opens |-> i = entries[n].src]
  BY <1>2 DEF AreWritten, m
<1> HIDE DEF folded
<1>4. folded \in [1..count -> Fold]
  BY <1>1, <1>3
<1>5. folded \in Seq(Fold) /\ Len(folded) = count
  BY SeqDef, <1>4, LenOfDomain
<1>6. ASSUME NEW i \in 1..count, NEW n \in 0..m,
             \A k \in (n + 1)..m : Outside(entries[k], i)
      PROVE  folded[i] = layers[n][i]
  <2> DEFINE Bad == {k \in n..m : layers[k][i] # layers[n][i]}
  <2>1. ASSUME Bad # {} PROVE FALSE
    <3>1. PICK k \in Bad : \A j \in Bad : k <= j
      <4>1. Bad \in SUBSET Nat
        BY <1>1
      <4> HIDE DEF Bad
      <4> QED BY <2>1, <4>1, NatLeast
    <3>2. k \in n..m /\ layers[k][i] # layers[n][i] /\ k # n
      BY <3>1
    <3>3. k \in (n + 1)..m /\ k \in 1..m /\ k - 1 \in n..m /\ ~ (k <= k - 1)
      BY <1>1, <3>2
    <3>4. k - 1 \notin Bad
      BY <3>1, <3>3
    <3>5. layers[k - 1][i] = layers[n][i]
      BY <3>3, <3>4
    <3>6. layers[k][i] = layers[k - 1][i]
      BY <1>3, <1>6, <3>3
    <3> QED BY <3>2, <3>5, <3>6
  <2>2. m \in n..m
    BY <1>1
  <2> QED BY <1>3, <2>1, <2>2
<1>7. ASSUME NEW i \in 1..count, \A n \in 1..m : Outside(entries[n], i)
      PROVE  folded[i] = NoFold
  <2>1. 0 \in 0..m /\ \A k \in (0 + 1)..m : Outside(entries[k], i)
    BY <1>1, <1>7
  <2>2. folded[i] = layers[0][i]
    BY <1>6, <2>1
  <2> QED BY <1>3, <2>2
<1>8. ASSUME NEW i \in 1..count, NEW n \in 1..m, LastOver(entries, n, i)
      PROVE  folded[i] = [level |-> entries[n].level, opens |-> i = entries[n].src]
  BY <1>1, <1>8, <1>6, <1>3 DEF LastOver, m
<1> QED BY <1>5, <1>7, <1>8 DEF folded, m

\* The folds of an outline are what the headings say.
LEMMA FoldsOfOutline ==
  ASSUME NEW ls \in Seq(Line)
  PROVE  BuildFolds(Outline(ls), Len(ls)) = [i \in DOMAIN ls |-> FoldMeant(ls, i)]
<1> DEFINE es == Outline(ls)
           count == Len(ls)
           folded == BuildFolds(es, count)
<1>1. /\ count \in Nat /\ DOMAIN ls = 1..count
      /\ es \in Seq(Entry) /\ Len(es) \in Nat
      /\ \A n \in 1..Len(es) : es[n].src \in Nat /\ es[n].end \in Int
  <2>1. \A n \in 1..Len(es) : es[n] \in Entry
    BY OutlineFits, ElementOfSeq
  <2> QED BY <2>1, OutlineFits, LenProperties DEF Entry
<1>2. folded \in Seq(Fold) /\ Len(folded) = count
  BY <1>1, LastSectionFolds
<1>3. ASSUME NEW i \in 1..count PROVE folded[i] = FoldMeant(ls, i)
  <2> DEFINE above == {g.src : g \in {g \in HeadingsOf(ls) : g.src <= i}}
  <2>1. CASE above = {}
    <3>1. ASSUME NEW g \in HeadingsOf(ls) PROVE g.src > i
      <4>1. ~ (g.src <= i) /\ g.src \in Nat
        BY <2>1, HeadingsFit
      <4> QED BY <1>1, <4>1
    <3>2. ASSUME NEW n \in 1..Len(es) PROVE Outside(es[n], i)
      <4>1. PICK g \in HeadingsOf(ls) :
              es[n] = [level |-> g.level, src |-> g.src, end |-> EndOfSection(ls, g)]
        BY OutlineFits
      <4>2. es[n].src > i /\ es[n].src \in Nat
        BY <1>1, <3>1, <4>1
      <4> QED BY <1>1, <4>2 DEF Outside
    <3>3. folded[i] = NoFold
      BY <1>1, <3>2, LastSectionFolds
    <3> QED BY <3>1, <3>3, FoldMeantOf
  <2>2. CASE above # {}
    <3>1. above \in SUBSET (0..i)
      BY HeadingsFit
    <3>2. PICK top \in above : \A k \in above : k <= top
      <4>1. i \in Nat
        BY <1>1
      <4> HIDE DEF above
      <4> QED BY <2>2, <3>1, <4>1, IntervalGreatest
    <3>3. PICK h \in HeadingsOf(ls) : h.src = top /\ h.src <= i
      OBVIOUS
    <3>4. \A g \in HeadingsOf(ls) : g.src <= i => g.src <= h.src
      BY <3>2, <3>3
    <3>5. i <= EndOfSection(ls, h)
      BY <3>4, SectionsEnd
    <3>6. PICK n \in 1..Len(es) :
            es[n] = [level |-> h.level, src |-> h.src, end |-> EndOfSection(ls, h)]
      BY OutlineFits
    <3> HIDE DEF above
    <3>7. ~ Outside(es[n], i)
      BY <1>1, <3>3, <3>5, <3>6 DEF Outside
    <3>8. ASSUME NEW k \in (n + 1)..Len(es) PROVE Outside(es[k], i)
      <4>1. k \in 1..Len(es) /\ n < k
        BY <1>1
      <4>2. es[n].src < es[k].src
        BY <4>1, OutlineFits
      <4>3. PICK g \in HeadingsOf(ls) :
              es[k] = [level |-> g.level, src |-> g.src, end |-> EndOfSection(ls, g)]
        BY <4>1, OutlineFits
      <4>4. ~ (g.src <= i)
        BY <1>1, <3>4, <3>6, <4>1, <4>2, <4>3
      <4> QED BY <1>1, <4>1, <4>3, <4>4 DEF Outside
    <3>9. folded[i] = [level |-> es[n].level, opens |-> i = es[n].src]
      <4>1. LastOver(es, n, i)
        BY <3>7, <3>8 DEF LastOver
      <4> HIDE DEF es, count
      <4>2. es \in Seq(Entry) /\ count \in Nat
        BY <1>1
      <4>3. \A x \in 1..count, k \in 1..Len(es) :
              LastOver(es, k, x) =>
                folded[x] = [level |-> es[k].level, opens |-> x = es[k].src]
        BY <4>2, LastSectionFolds
      <4> HIDE DEF folded
      <4> QED BY <4>1, <4>3
    <3>10. FoldMeant(ls, i) = [level |-> h.level, opens |-> h.src = i]
      BY <3>3, <3>4, FoldMeantOf
    <3> QED BY <3>6, <3>9, <3>10
  <2> QED BY <2>1, <2>2
<1> HIDE DEF folded
<1>4. folded = [i \in 1..count |-> folded[i]]
  BY <1>2, LenProperties
<1> QED BY <1>1, <1>3, <1>4 DEF folded

-----------------------------------------------------------------------------
(* The edits of a shift.                                                   *)

\* Edits are of lines the text has, and no two of the same one.
EditsFit(ls, edits) ==
  /\ IsFiniteSet(edits)
  /\ \A e \in edits : /\ e.from \in 1..Len(ls) /\ e.to \in e.from..Len(ls)
                      /\ e.lines \in Seq(Line)
  /\ \A d, e \in edits : d = e \/ d.to < e.from \/ e.to < d.from

LEMMA SelectedAreHeadings ==
  ASSUME NEW ls \in Seq(Line), NEW from, NEW to
  PROVE  Selected(HeadingsOf(ls), from, to) \subseteq HeadingsOf(ls)
<1> DEFINE all == HeadingsOf(ls)
           above == {h \in all : h.src <= from}
           srcs == {h.src : h \in above}
           top == CHOOSE h \in above : \A g \in above : g.src <= h.src
<1>1. ASSUME above # {} PROVE top \in all
  <2>1. srcs \in SUBSET (0..Len(ls)) /\ srcs # {} /\ Len(ls) \in Nat
    BY <1>1, HeadingsFit, LenProperties
  <2>2. PICK m \in srcs : \A k \in srcs : k <= m
    BY <2>1, IntervalGreatest
  <2>3. \E h \in above : \A g \in above : g.src <= h.src
    BY <2>2
  <2>4. top \in above
    BY <2>3
  <2> HIDE DEF top
  <2> QED BY <2>4
<1>2. /\ from # to => Selected(all, from, to) \subseteq all
      /\ from = to /\ above = {} => Selected(all, from, to) = {}
      /\ from = to /\ above # {} => Selected(all, from, to) \subseteq {top} \union all
  BY DEF Selected
<1> HIDE DEF top, above
<1> QED BY <1>1, <1>2

LEMMA ShiftFits ==
  ASSUME NEW ls \in Seq(Line), NEW h \in HeadingsOf(ls), NEW want \in 1..6
  PROVE  /\ Shifted(ls, h, want).from \in h.src..h.last
         /\ Shifted(ls, h, want).to = h.last
         /\ Shifted(ls, h, want).lines \in Seq(Line)
<1>1. /\ h.src \in 1..Len(ls) /\ h.last \in h.src..Len(ls) /\ Len(ls) \in Nat
      /\ ls[h.src] \in Line
  BY HeadingsFit, LenProperties, ElementOfSeq
<1>2. \A line \in Line : << line >> \in Seq(Line)
  OBVIOUS
<1>3. ls[h.src].text \in Sayings
  BY <1>1 DEF Line
<1>4. /\ Hashed(ls[h.src], want) \in Line /\ RuleLine(want) \in Line
      /\ Atx(want, ls[h.src].text) \in Line
  <2>1. \A kind \in {"text", "rule", "atx"}, t \in Sayings :
          [kind |-> kind, text |-> t, level |-> want, bullet |-> FALSE] \in Line
    BY DEF Line
  <2>2. \A t \in Sayings : Atx(want, t) \in Line
    BY <2>1 DEF Atx
  <2>3. RuleLine(want) \in Line
    BY <2>1, SayingsAssumption DEF RuleLine
  <2>4. Hashed(ls[h.src], want) \in Line
    BY <1>3, <2>1, <2>2 DEF Hashed
  <2> QED BY <1>3, <2>2, <2>3, <2>4
<1>5. CASE ~ Setext(h)
  BY <1>5, <1>1, <1>2, <1>4 DEF Setext, Shifted, Replacement
<1>6. CASE Setext(h) /\ want <= 2
  BY <1>6, <1>1, <1>2, <1>4 DEF Shifted, Replacement
<1>7. CASE Setext(h) /\ ~ (want <= 2)
  BY <1>7, <1>1, <1>2, <1>4 DEF Shifted, Replacement
<1> QED BY <1>5, <1>6, <1>7

\* The edits of a shift are of lines the text has, and no two of the same ones.
LEMMA ShiftsFit ==
  ASSUME NEW ls \in Seq(Line), NEW from, NEW to, NEW delta
  PROVE  EditsFit(ls, ShiftHeadings(ls, from, to, delta).edits)
<1> DEFINE chosen == Selected(HeadingsOf(ls), from, to)
           shift == [h \in chosen |-> Shifted(ls, h, h.level + delta)]
           edits == {Shifted(ls, h, h.level + delta) : h \in chosen}
<1>1. chosen \subseteq HeadingsOf(ls) /\ IsFiniteSet(chosen)
  BY SelectedAreHeadings, HeadingsFinite, FS_Subset
<1>2. CASE \E h \in chosen : Refuses(h, h.level + delta)
  BY <1>2, FS_EmptySet DEF ShiftHeadings, EditsFit
<1>3. CASE ~ \E h \in chosen : Refuses(h, h.level + delta)
  <2>1. ShiftHeadings(ls, from, to, delta).edits = edits
    BY <1>3 DEF ShiftHeadings
  <2>2. ASSUME NEW h \in chosen PROVE h.level + delta \in 1..6
    BY <1>3 DEF Refuses
  <2> HIDE DEF chosen
  <2>3. ASSUME NEW h \in chosen
        PROVE  LET e == Shifted(ls, h, h.level + delta)
               IN  /\ h.src \in 1..Len(ls) /\ h.last \in h.src..Len(ls) /\ Len(ls) \in Nat
                   /\ e.from \in h.src..h.last /\ e.to = h.last /\ e.lines \in Seq(Line)
    BY <1>1, <2>2, ShiftFits, HeadingsFit, LenProperties
  <2>4. IsFiniteSet(edits)
    <3>1. shift \in Surjection(chosen, edits)
      BY DEF Surjection
    <3> HIDE DEF shift, edits
    <3> QED BY <1>1, <3>1, FS_Surjection
  <2>5. ASSUME NEW e \in edits
        PROVE  /\ e.from \in 1..Len(ls) /\ e.to \in e.from..Len(ls)
               /\ e.lines \in Seq(Line)
    BY <2>3
  <2>6. ASSUME NEW d \in edits, NEW e \in edits
        PROVE  d = e \/ d.to < e.from \/ e.to < d.from
    BY <1>1, HeadingsFit, <2>3
  <2> HIDE DEF edits
  <2> QED BY <2>1, <2>4, <2>5, <2>6 DEF EditsFit
<1> QED BY <1>2, <1>3

-----------------------------------------------------------------------------
(* The edits, made bottom up.                                              *)

LEMMA ReplacedIsText ==
  ASSUME NEW ls \in Seq(Line), NEW e, e.from \in 1..Len(ls), e.to \in e.from..Len(ls),
         e.lines \in Seq(Line)
  PROVE  ReplaceRange(ls, e) \in Seq(Line) /\ Len(ReplaceRange(ls, e)) >= e.from - 1
<1> DEFINE head == SubSeq(ls, 1, e.from - 1)
           tail == SubSeq(ls, e.to + 1, Len(ls))
<1>1. Len(ls) \in Nat /\ e.from \in Nat /\ e.to \in Nat /\ \A i \in 1..Len(ls) : ls[i] \in Line
  BY LenProperties, ElementOfSeq
<1>2. head \in Seq(Line) /\ Len(head) = e.from - 1
  BY <1>1, SubSeqProperties
<1>3. tail \in Seq(Line)
  BY <1>1, SubSeqProperties
<1>4. Len(e.lines) \in Nat /\ Len(tail) \in Nat
  BY <1>3, LenProperties
<1>5. ReplaceRange(ls, e) = head \o e.lines \o tail
  BY DEF ReplaceRange
<1> HIDE DEF head, tail
<1>6. head \o e.lines \in Seq(Line) /\ Len(head \o e.lines) = Len(head) + Len(e.lines)
  BY <1>2, ConcatProperties
<1>7. /\ (head \o e.lines) \o tail \in Seq(Line)
      /\ Len((head \o e.lines) \o tail) = Len(head \o e.lines) + Len(tail)
  BY <1>3, <1>6, ConcatProperties
<1> QED BY <1>1, <1>2, <1>4, <1>5, <1>6, <1>7

\* The edits in an order in which none moves the lines of a later one.
BottomUp(ls, es) ==
  /\ Len(es) \in Nat
  /\ \A k \in 1..Len(es) : /\ es[k].from \in 1..Len(ls) /\ es[k].to \in es[k].from..Len(ls)
                            /\ es[k].lines \in Seq(Line)
  /\ \A j, k \in 1..Len(es) : j < k => es[k].to < es[j].from

\* The first n edits were made, and the others are of lines the text still has.
MadeWell(text, es, n) ==
  text \in Seq(Line) /\ \A k \in (n + 1)..Len(es) : es[k].to <= Len(text)

LEMMA NoneIsMoved ==
  ASSUME NEW ls \in Seq(Line), NEW es, BottomUp(ls, es), NEW text, text[0] = ls,
         \A n \in 1..Len(es) :
           MadeWell(text[n - 1], es, n - 1) => text[n] = ReplaceRange(text[n - 1], es[n])
  PROVE  \A n \in 0..Len(es) : MadeWell(text[n], es, n)
<1> DEFINE m == Len(es)
           Bad == {n \in 0..m : ~ MadeWell(text[n], es, n)}
<1>1. m \in Nat /\ Len(ls) \in Nat
  BY LenProperties DEF BottomUp
<1>2. ASSUME Bad # {} PROVE FALSE
  <2>1. PICK n \in Bad : \A k \in Bad : n <= k
    <3>1. Bad \in SUBSET Nat
      BY <1>1
    <3> HIDE DEF Bad
    <3> QED BY <1>2, <3>1, NatLeast
  <2>2. n \in 0..m /\ ~ MadeWell(text[n], es, n)
    BY <2>1
  <2>3. CASE n = 0
    BY <1>1, <2>2, <2>3 DEF BottomUp, MadeWell
  <2>4. CASE n # 0
    <3>1. n \in 1..m /\ n - 1 \in 0..m /\ ~ (n <= n - 1) /\ n \in (n - 1 + 1)..m
      BY <1>1, <2>2, <2>4
    <3>2. n - 1 \notin Bad
      BY <2>1, <3>1
    <3>3. MadeWell(text[n - 1], es, n - 1)
      BY <3>1, <3>2
    <3>4. text[n] = ReplaceRange(text[n - 1], es[n])
      BY <3>1, <3>3
    <3>5. text[n - 1] \in Seq(Line) /\ es[n].to <= Len(text[n - 1])
      BY <3>1, <3>3 DEF MadeWell
    <3>6. /\ es[n].from \in Nat /\ es[n].from >= 1 /\ es[n].to \in Nat /\ es[n].from <= es[n].to
          /\ es[n].lines \in Seq(Line) /\ Len(text[n - 1]) \in Nat
      BY <1>1, <3>1, <3>5, LenProperties DEF BottomUp
    <3>7. es[n].from \in 1..Len(text[n - 1]) /\ es[n].to \in es[n].from..Len(text[n - 1])
      BY ONLY <3>5, <3>6
    <3>8. text[n] \in Seq(Line) /\ Len(text[n]) >= es[n].from - 1
      BY <3>4, <3>5, <3>6, <3>7, ReplacedIsText
    <3>9. ASSUME NEW k \in (n + 1)..m PROVE es[k].to <= Len(text[n])
      <4>1. k \in 1..m /\ n < k
        BY <1>1, <3>1
      <4>2. es[k].to < es[n].from /\ es[k].to \in Nat
        <5>1. es[k].to < es[n].from
          BY <1>1, <3>1, <4>1 DEF BottomUp
        <5>2. es[k].to \in Nat
          <6>1. es[k].from \in Nat
            BY <1>1, <4>1 DEF BottomUp
          <6>2. es[k].to \in es[k].from..Len(ls)
            BY <4>1 DEF BottomUp, m
          <6> QED BY <1>1, <6>1, <6>2
        <5> QED BY <5>1, <5>2
      <4>3. Len(text[n]) \in Nat /\ es[n].from \in Nat /\ Len(text[n]) >= es[n].from - 1
        BY <3>6, <3>8, LenProperties
      <4> QED BY ONLY <4>2, <4>3
    <3> QED BY <2>2, <3>8, <3>9 DEF MadeWell
  <2> QED BY <2>3, <2>4
<1> QED BY <1>2

LEMMA MadeOfFits ==
  ASSUME NEW ls \in Seq(Line), NEW es, BottomUp(ls, es)
  PROVE  MadeOf(ls, es) \in Seq(Line)
<1> DEFINE m == Len(es)
           Step(t, n) == IF MadeWell(t, es, n - 1) THEN ReplaceRange(t, es[n]) ELSE << >>
           step == [p \in Seq(Line) \X (1..m) |-> Step(p[1], p[2])]
           Rec(f) == f = [n \in 0..m |-> IF n = 0 THEN ls ELSE ReplaceRange(f[n - 1], es[n])]
           text == CHOOSE f : Rec(f)
<1>1. m \in Nat
  BY DEF BottomUp
<1>2. step \in [Seq(Line) \X (1..m) -> Seq(Line)]
  <2>1. ASSUME NEW t \in Seq(Line), NEW n \in 1..m PROVE Step(t, n) \in Seq(Line)
    BY <1>1, LenProperties, ReplacedIsText, EmptySeq DEF MadeWell, BottomUp
  <2> HIDE DEF Step, m
  <2> QED BY <2>1
<1>3. PICK f : Solves(f, Seq(Line), ls, m, step)
  BY <1>1, <1>2, RecursionExists
<1>4. f \in [0..m -> Seq(Line)] /\ f[0] = ls /\ \A n \in 1..m : f[n] = Step(f[n - 1], n)
  <2> HIDE DEF Step, m
  <2>1. ASSUME NEW n \in 1..m PROVE f[n] = Step(f[n - 1], n)
    <3>1. n - 1 \in 0..m
      BY <1>1
    <3>2. f[n - 1] \in Seq(Line) /\ f[n] = step[<<f[n - 1], n>>]
      BY <1>3, <3>1 DEF Solves
    <3> QED BY <3>2
  <2> QED BY <1>3, <2>1 DEF Solves
<1>5. \A n \in 0..m : MadeWell(f[n], es, n)
  BY <1>4, NoneIsMoved
<1>6. Rec(f)
  BY <1>1, <1>4, <1>5
<1>7. Rec(text)
  BY <1>6
<1>8. MadeOf(ls, es) = text[m]
  BY DEF MadeOf
<1> HIDE DEF text
<1>9. text[0] = ls /\ \A n \in 1..m : text[n] = ReplaceRange(text[n - 1], es[n])
  BY <1>1, <1>7
<1>10. MadeWell(text[m], es, m)
  BY <1>1, <1>9, NoneIsMoved
<1> QED BY <1>8, <1>10 DEF MadeWell

\* A text stays one when edits that fit it are made, from the last line to the first.
LEMMA MadeFits ==
  ASSUME NEW ls \in Seq(Line), NEW edits, EditsFit(ls, edits)
  PROVE  Made(ls, edits) \in Seq(Line)
<1> DEFINE key == [e \in edits |-> -e.from]
           es == Sorted(edits, LAMBDA d, e : d.from > e.from)
<1>1. /\ IsFiniteSet(edits) /\ Len(ls) \in Nat
      /\ \A e \in edits : /\ e.from \in 1..Len(ls) /\ e.to \in e.from..Len(ls)
                          /\ e.lines \in Seq(Line)
      /\ \A d, e \in edits : d = e \/ d.to < e.from \/ e.to < d.from
  BY LenProperties DEF EditsFit
<1>2. Keyed(edits, key)
  BY <1>1 DEF Keyed
<1>3. \A e \in edits : Below(edits, key, e) = {d \in edits : d.from > e.from}
  <2> SUFFICES ASSUME NEW e \in edits, NEW d \in edits
               PROVE  key[d] < key[e] <=> d.from > e.from
    BY DEF Below
  <2>1. key[d] = -d.from /\ key[e] = -e.from /\ d.from \in Nat /\ e.from \in Nat
    BY <1>1
  <2> HIDE DEF key
  <2> QED BY <2>1
<1>4. es = [k \in 1..Cardinality(edits) |->
              CHOOSE e \in edits : Cardinality({d \in edits : d.from > e.from}) = k - 1]
  BY DEF Sorted
<1> HIDE DEF es, key
<1>5. ByRank(es, edits, key)
  <2>1. ASSUME NEW k \in 1..Cardinality(edits),
               \E e \in edits : Cardinality(Below(edits, key, e)) = k - 1
        PROVE  es[k] \in edits /\ Cardinality(Below(edits, key, es[k])) = k - 1
    BY <1>3, <2>1, <1>4
  <2>2. es = [k \in 1..Cardinality(edits) |-> es[k]]
    <3> DEFINE At(k) ==
          CHOOSE e \in edits : Cardinality({d \in edits : d.from > e.from}) = k - 1
    <3>1. es = [k \in 1..Cardinality(edits) |-> At(k)]
      BY <1>4
    <3> HIDE DEF At
    <3> QED BY <3>1
  <2> QED BY <2>1, <2>2 DEF ByRank
<1>6. /\ es \in Seq(edits) /\ Len(es) \in Nat
      /\ \A j, k \in 1..Len(es) : j < k => key[es[j]] < key[es[k]]
  BY <1>2, <1>5, InRankOrder
<1>7. \A k \in 1..Len(es) : es[k] \in edits
  BY <1>6, ElementOfSeq
<1>8. ASSUME NEW j \in 1..Len(es), NEW k \in 1..Len(es), j < k
      PROVE  es[k].to < es[j].from
  <2>1. key[es[j]] = -es[j].from /\ key[es[k]] = -es[k].from
    BY <1>7 DEF key
  <2>2. -es[j].from < -es[k].from
    BY <1>6, <1>8, <2>1
  <2>3. /\ es[j].from \in Nat /\ es[k].from \in Nat /\ es[j].to \in Nat /\ es[k].to \in Nat
        /\ es[j].from <= es[j].to
    BY <1>1, <1>7
  <2>4. es[j] = es[k] \/ es[j].to < es[k].from \/ es[k].to < es[j].from
    BY <1>1, <1>7
  <2>5. es[j].from # es[k].from /\ ~ (es[j].to < es[k].from)
    BY <2>2, <2>3
  <2> QED BY <2>4, <2>5
<1>9. BottomUp(ls, es)
  BY <1>1, <1>6, <1>7, <1>8 DEF BottomUp
<1>10. MadeOf(ls, es) \in Seq(Line)
  BY <1>9, MadeOfFits
<1> QED BY <1>10 DEF Made, es

-----------------------------------------------------------------------------
(* The outline and the folds of a text that is typed in, while outlines of *)
(* earlier texts come, are superseded, withdrawn or given up (Authoring).  *)

ClocksTyped ==
  /\ lines \in Seq(Line) /\ tick \in Nat /\ nextId \in Nat \ {0}
  /\ wait \in Nat /\ wait <= tick /\ due \in Nat /\ due <= tick

\* An outline of this text is this text's, and the folds are of the outline.
OutlineIsOfItsText ==
  /\ outline.tick \in Nat /\ outline.tick <= tick /\ outline.entries \in Seq(Entry)
  /\ Len(folds) \in Nat /\ folds = BuildFolds(outline.entries, Len(folds))
  /\ outline.tick = tick => outline.entries = Outline(lines) /\ Len(folds) = Len(lines)

\* An outline that is due will be asked for; one that was is on its way, here or given up.
OutlineIsOnItsWay ==
  /\ due = tick => timer \/ wait = tick
  /\ wait = tick => \/ \E c \in pending : c.kind = "outline" /\ c.tick = tick
                    \/ outline.tick = tick
                    \/ tick \in editGiven

CallsKnown ==
  /\ \A c \in pending : /\ c.id \in Nat \ {0} /\ c.id < nextId /\ c.tick \in Nat /\ c.tick <= tick
                        /\ c.kind \in {"edit", "outline"}
  /\ \A c, d \in pending : c.id = d.id => c = d

TasksKnown ==
  \A w \in working :
    /\ w.id \in Nat /\ w.id < nextId /\ w.call.tick \in Nat /\ w.call.tick <= tick
    /\ w.call.kind \in {"edit", "outline"}
    /\ w.lines \in Seq(Line) /\ (w.call.tick = tick => w.lines = lines)
    /\ \A c \in pending : c.id = w.id => c = w.call

RepliesKnown ==
  \A a \in replies :
    /\ a.id \in Nat /\ a.id < nextId
    /\ \A c \in pending :
         c.id = a.id =>
           /\ c.kind = "edit" /\ c.tick = tick => EditsFit(lines, a.result.edits)
           /\ c.kind = "outline" => /\ a.result \in Seq(Entry)
                                    /\ c.tick = tick => a.result = Outline(lines)

AuthoringInv ==
  /\ ClocksTyped /\ OutlineIsOfItsText /\ OutlineIsOnItsWay
  /\ CallsKnown /\ TasksKnown /\ RepliesKnown

LEMMA FoldsOfNothing ==
  BuildFolds(<< >>, 0) = << >> /\ << >> \in Seq(Entry)
<1>1. << >> \in Seq(Entry) /\ 0 \in Nat
  BY EmptySeq
<1>2. BuildFolds(<< >>, 0) \in Seq(Fold) /\ Len(BuildFolds(<< >>, 0)) = 0
  BY <1>1, LastSectionFolds
<1> QED BY <1>1, <1>2, EmptySeq

LEMMA AuthoringStarts ==
  ASSUME AuthoringInit
  PROVE  AuthoringInv
<1>1. lines \in Seq(Line)
  BY DraftsAreTexts DEF AuthoringInit
<1>2. Len(<< >>) = 0
  OBVIOUS
<1>3. ClocksTyped /\ CallsKnown /\ TasksKnown /\ RepliesKnown
  BY <1>1 DEF AuthoringInit, ClocksTyped, CallsKnown, TasksKnown, RepliesKnown
<1>4. OutlineIsOfItsText
  BY <1>2, FoldsOfNothing DEF AuthoringInit, OutlineIsOfItsText
<1>5. OutlineIsOnItsWay
  BY DEF AuthoringInit, OutlineIsOnItsWay
<1> QED BY <1>3, <1>4, <1>5 DEF AuthoringInv

\* What is asked is of this text, and like no other.
LEMMA AskingKeeps ==
  ASSUME AuthoringInv, NEW call, NEW dropped, AsksDaemon(call, dropped),
         call.id = nextId, call.tick = tick, call.kind \in {"edit", "outline"},
         UNCHANGED <<lines, tick>>
  PROVE  nextId' \in Nat \ {0} /\ CallsKnown' /\ TasksKnown' /\ RepliesKnown'
<1>1. /\ pending' = {c \in pending : c.id # dropped} \union {call}
      /\ working' = working \union
           {[id |-> nextId, call |-> call, lines |-> lines, begun |-> FALSE]}
      /\ nextId' = nextId + 1 /\ replies' = replies /\ lines' = lines /\ tick' = tick
  BY DEF AsksDaemon
<1>2. nextId \in Nat \ {0} /\ tick \in Nat /\ lines \in Seq(Line)
  BY DEF AuthoringInv, ClocksTyped
<1>3. \A c \in pending' : c = call \/ (c \in pending /\ c.id # nextId)
  BY <1>2, <1>1 DEF AuthoringInv, CallsKnown
<1>4. CallsKnown'
  BY <1>1, <1>2, <1>3 DEF AuthoringInv, CallsKnown
<1>5. TasksKnown'
  <2>1. ASSUME NEW w \in working'
        PROVE  /\ w.id \in Nat /\ w.id < nextId' /\ w.call.tick \in Nat /\ w.call.tick <= tick'
               /\ w.call.kind \in {"edit", "outline"}
               /\ w.lines \in Seq(Line) /\ (w.call.tick = tick' => w.lines = lines')
               /\ \A c \in pending' : c.id = w.id => c = w.call
    BY <1>1, <1>2, <1>3 DEF AuthoringInv, TasksKnown
  <2> QED BY <2>1 DEF TasksKnown
<1>6. RepliesKnown'
  BY <1>1, <1>2, <1>3 DEF AuthoringInv, RepliesKnown
<1> QED BY <1>1, <1>2, <1>4, <1>5, <1>6

\* What was asked stays of its text when that is typed over, and when less is asked.
LEMMA FewerKeep ==
  ASSUME AuthoringInv, pending' \subseteq pending, working' \subseteq working,
         replies' \subseteq replies, nextId' = nextId,
         (tick' = tick /\ lines' = lines) \/ tick' = tick + 1
  PROVE  CallsKnown' /\ TasksKnown' /\ RepliesKnown'
<1>1. tick \in Nat /\ CallsKnown /\ TasksKnown /\ RepliesKnown
  BY DEF AuthoringInv, ClocksTyped
<1>2. ASSUME NEW t \in Nat, t <= tick
      PROVE  t <= tick' /\ (t = tick' => t = tick /\ lines' = lines)
  BY <1>1, <1>2
<1>3. CallsKnown'
  BY <1>1, <1>2 DEF CallsKnown
<1>4. TasksKnown'
  BY <1>1, <1>2 DEF TasksKnown
<1>5. RepliesKnown'
  BY <1>1, <1>2 DEF CallsKnown, RepliesKnown
<1> QED BY <1>3, <1>4, <1>5

\* A text that is changed has no outline yet, and none on its way.
LEMMA TextMoves ==
  ASSUME AuthoringInv, lines' \in Seq(Line), tick' = tick + 1, UNCHANGED <<outlineVars, nextId>>
  PROVE  ClocksTyped' /\ OutlineIsOfItsText' /\ OutlineIsOnItsWay'
<1>1. /\ tick \in Nat /\ wait \in Nat /\ wait <= tick /\ due \in Nat /\ due <= tick
      /\ outline.tick \in Nat /\ outline.tick <= tick /\ outline.entries \in Seq(Entry)
      /\ Len(folds) \in Nat /\ folds = BuildFolds(outline.entries, Len(folds))
  BY DEF AuthoringInv, ClocksTyped, OutlineIsOfItsText
<1>2. /\ outline' = outline /\ wait' = wait /\ due' = due /\ folds' = folds
      /\ nextId' = nextId /\ nextId \in Nat \ {0}
  BY DEF outlineVars, AuthoringInv, ClocksTyped
<1>3. /\ tick' \in Nat /\ wait <= tick' /\ due <= tick' /\ outline.tick <= tick'
      /\ tick' # wait /\ tick' # due /\ tick' # outline.tick
  BY <1>1
<1>4. ClocksTyped'
  BY <1>1, <1>2, <1>3 DEF ClocksTyped
<1>5. OutlineIsOfItsText'
  BY <1>1, <1>2, <1>3 DEF OutlineIsOfItsText
<1>6. OutlineIsOnItsWay'
  BY <1>2, <1>3 DEF OutlineIsOnItsWay
<1> QED BY <1>4, <1>5, <1>6

LEMMA TypeKeeps ==
  ASSUME AuthoringInv, Type
  PROVE  AuthoringInv'
<1>1. /\ lines' \in Seq(Line) /\ tick' = tick + 1 /\ UNCHANGED outlineVars
      /\ pending' = pending /\ working' = working /\ replies' = replies /\ nextId' = nextId
  BY DraftsAreTexts DEF Type, callVars
<1>2. CallsKnown' /\ TasksKnown' /\ RepliesKnown'
  BY <1>1, FewerKeep
<1> QED BY <1>1, <1>2, TextMoves DEF AuthoringInv

LEMMA SendEditKeeps ==
  ASSUME AuthoringInv, NEW delta, NEW from, NEW to, SendEdit(delta, from, to)
  PROVE  AuthoringInv'
<1>1. PICK call : call = [id |-> nextId, kind |-> "edit", tick |-> tick,
                          delta |-> delta, from |-> from, to |-> to]
  OBVIOUS
<1>2. /\ AsksDaemon(call, 0)
      /\ lines' = lines /\ tick' = tick
      /\ outline' = outline /\ wait' = wait /\ due' = due /\ timer' = timer /\ folds' = folds
  BY <1>1 DEF SendEdit, textVars, outlineVars
<1>3. call.id = nextId /\ call.tick = tick /\ call.kind = "edit"
  BY <1>1
<1>4. nextId' \in Nat \ {0} /\ CallsKnown' /\ TasksKnown' /\ RepliesKnown'
  BY <1>2, <1>3, AskingKeeps
<1>5. editGiven' = editGiven /\ pending' = {c \in pending : c.id # 0} \union {call}
  BY <1>2 DEF AsksDaemon
<1>6. ClocksTyped' /\ OutlineIsOfItsText'
  BY <1>2, <1>4 DEF AuthoringInv, ClocksTyped, OutlineIsOfItsText
<1>7. OutlineIsOnItsWay'
  BY <1>5, <1>2 DEF AuthoringInv, CallsKnown, OutlineIsOnItsWay
<1> QED BY <1>4, <1>6, <1>7 DEF AuthoringInv

\* Once it is asked for, the outline of this text is on its way.
LEMMA RequestKeeps ==
  ASSUME AuthoringInv, NEW background \in BOOLEAN, RequestOutline(background),
         UNCHANGED <<textVars, outline, due, folds>>
  PROVE  AuthoringInv'
<1>1. PICK call : call = [id |-> nextId, kind |-> "outline", tick |-> tick]
  OBVIOUS
<1>2. PICK dropped : dropped = IF background THEN current ELSE 0
  OBVIOUS
<1>3. AsksDaemon(call, dropped) /\ wait' = tick
  BY <1>1, <1>2 DEF RequestOutline
<1>4. lines' = lines /\ tick' = tick /\ outline' = outline /\ due' = due /\ folds' = folds
  BY DEF textVars
<1>5. call.id = nextId /\ call.tick = tick /\ call.kind = "outline"
  BY <1>1
<1>6. nextId' \in Nat \ {0} /\ CallsKnown' /\ TasksKnown' /\ RepliesKnown'
  BY <1>3, <1>4, <1>5, AskingKeeps
<1>7. ClocksTyped' /\ OutlineIsOfItsText'
  BY <1>3, <1>4, <1>6 DEF AuthoringInv, ClocksTyped, OutlineIsOfItsText
<1>8. OutlineIsOnItsWay'
  BY <1>3, <1>4, <1>5 DEF AsksDaemon, OutlineIsOnItsWay
<1> QED BY <1>6, <1>7, <1>8 DEF AuthoringInv

LEMMA EnsureOutlineKeeps ==
  ASSUME AuthoringInv, EnsureOutline
  PROVE  AuthoringInv'
<1>1. /\ lines' = lines /\ tick' = tick /\ outline' = outline /\ wait' = wait /\ folds' = folds
      /\ pending' = pending /\ working' = working /\ replies' = replies /\ nextId' = nextId
      /\ editGiven' = editGiven /\ due' = tick /\ timer' = TRUE
  BY DEF EnsureOutline, textVars, callVars
<1>2. CallsKnown' /\ TasksKnown' /\ RepliesKnown'
  BY <1>1, FewerKeep
<1>3. ClocksTyped' /\ OutlineIsOfItsText'
  BY <1>1 DEF AuthoringInv, ClocksTyped, OutlineIsOfItsText
<1>4. OutlineIsOnItsWay'
  BY <1>1 DEF AuthoringInv, OutlineIsOnItsWay
<1> QED BY <1>2, <1>3, <1>4 DEF AuthoringInv

LEMMA ExpireKeeps ==
  ASSUME AuthoringInv, NEW call \in pending, Expire(call)
  PROVE  AuthoringInv'
<1>1. /\ lines' = lines /\ tick' = tick /\ outline' = outline /\ wait' = wait /\ folds' = folds
      /\ working' = working /\ replies' = replies /\ nextId' = nextId
      /\ due' = due /\ timer' = timer /\ pending' = pending \ {call}
      /\ editGiven' = IF call.kind = "outline" THEN editGiven \union {call.tick} ELSE editGiven
  BY DEF Expire, textVars
<1>2. CallsKnown' /\ TasksKnown' /\ RepliesKnown'
  BY <1>1, FewerKeep
<1>3. ClocksTyped' /\ OutlineIsOfItsText'
  BY <1>1 DEF AuthoringInv, ClocksTyped, OutlineIsOfItsText
<1>4. OutlineIsOnItsWay'
  <2>1. due' = tick' => timer' \/ wait' = tick'
    BY <1>1 DEF AuthoringInv, OutlineIsOnItsWay
  <2>2. ASSUME wait' = tick'
        PROVE  \/ \E c \in pending' : c.kind = "outline" /\ c.tick = tick'
               \/ outline.tick' = tick'
               \/ tick' \in editGiven'
    BY <1>1, <2>2 DEF AuthoringInv, OutlineIsOnItsWay
  <2> QED BY <2>1, <2>2 DEF OutlineIsOnItsWay
<1> QED BY <1>2, <1>3, <1>4 DEF AuthoringInv

LEMMA BeginKeeps ==
  ASSUME AuthoringInv, NEW w \in working, Begin(w)
  PROVE  AuthoringInv'
<1>1. /\ lines' = lines /\ tick' = tick /\ outline' = outline /\ wait' = wait /\ folds' = folds
      /\ pending' = pending /\ replies' = replies /\ nextId' = nextId
      /\ due' = due /\ timer' = timer /\ editGiven' = editGiven
      /\ working' \subseteq working \union {[w EXCEPT !.begun = TRUE]}
  BY DEF Begin, Dropped, textVars, outlineVars
<1>2. PICK v : v = [w EXCEPT !.begun = TRUE]
  OBVIOUS
<1>3. v.id = w.id /\ v.call = w.call /\ v.lines = w.lines
  BY <1>2
<1>4. CallsKnown' /\ RepliesKnown'
  BY <1>1 DEF AuthoringInv, CallsKnown, RepliesKnown
<1>5. TasksKnown'
  BY <1>1, <1>2, <1>3, ZenonT(60) DEF AuthoringInv, TasksKnown
<1>6. ClocksTyped' /\ OutlineIsOfItsText' /\ OutlineIsOnItsWay'
  BY <1>1 DEF AuthoringInv, ClocksTyped, OutlineIsOfItsText, OutlineIsOnItsWay
<1> QED BY <1>4, <1>5, <1>6 DEF AuthoringInv

LEMMA FinishKeeps ==
  ASSUME AuthoringInv, NEW w \in working, Finish(w)
  PROVE  AuthoringInv'
<1>1. /\ lines' = lines /\ tick' = tick /\ outline' = outline /\ wait' = wait /\ folds' = folds
      /\ pending' = pending /\ nextId' = nextId
      /\ due' = due /\ timer' = timer /\ editGiven' = editGiven
      /\ working' \subseteq working
      /\ \A a \in replies' : a \in replies \/ a = [id |-> w.id, result |-> Result(w)]
  BY DEF Finish, Dropped, textVars, outlineVars
<1>2. CallsKnown' /\ TasksKnown'
  BY <1>1 DEF AuthoringInv, CallsKnown, TasksKnown
<1>3. ClocksTyped' /\ OutlineIsOfItsText' /\ OutlineIsOnItsWay'
  BY <1>1 DEF AuthoringInv, ClocksTyped, OutlineIsOfItsText, OutlineIsOnItsWay
<1>4. /\ w.id \in Nat /\ w.id < nextId /\ w.call.kind \in {"edit", "outline"}
      /\ w.lines \in Seq(Line) /\ (w.call.tick = tick => w.lines = lines)
      /\ \A c \in pending : c.id = w.id => c = w.call
  BY DEF AuthoringInv, TasksKnown
<1>5. ASSUME NEW c \in pending, c.id = w.id
      PROVE  /\ c.kind = "edit" /\ c.tick = tick => EditsFit(lines, Result(w).edits)
             /\ c.kind = "outline" => /\ Result(w) \in Seq(Entry)
                                      /\ c.tick = tick => Result(w) = Outline(lines)
  BY <1>4, <1>5, ShiftsFit, OutlineFits DEF Result
<1>6. RepliesKnown'
  <2>1. ASSUME NEW a \in replies'
        PROVE  /\ a.id \in Nat /\ a.id < nextId
               /\ \A c \in pending :
                    c.id = a.id =>
                      /\ c.kind = "edit" /\ c.tick = tick => EditsFit(lines, a.result.edits)
                      /\ c.kind = "outline" => /\ a.result \in Seq(Entry)
                                               /\ c.tick = tick => a.result = Outline(lines)
    BY <1>4, <1>5, <1>1 DEF AuthoringInv, RepliesKnown
  <2> QED BY <1>1, <2>1 DEF RepliesKnown
<1> QED BY <1>2, <1>3, <1>6 DEF AuthoringInv

\* An edit is made in the text it was meant for, or not at all.
LEMMA EditReplyKeeps ==
  ASSUME AuthoringInv, NEW call \in pending, NEW a \in replies, call.id = a.id,
         call.kind = "edit", OnEditReply(call, a.result), UNCHANGED outlineVars,
         pending' = {c \in pending : c.id # a.id}, replies' = replies \ {a},
         UNCHANGED <<working, nextId, editGiven>>
  PROVE  AuthoringInv'
<1>1. CASE lines' = lines /\ tick' = tick
  BY <1>1, FewerKeep DEF outlineVars, AuthoringInv, ClocksTyped, OutlineIsOfItsText, CallsKnown,
     OutlineIsOnItsWay
<1>2. CASE /\ SameText(call) /\ tick' = tick + 1
           /\ lines' = Made(lines, a.result.edits)
  BY <1>2, MadeFits, TextMoves, FewerKeep DEF SameText, AuthoringInv, RepliesKnown, ClocksTyped
<1> QED BY <1>1, <1>2 DEF OnEditReply

\* An outline that comes is kept unless a later one is there, and the folds follow it.
LEMMA OutlineReplyKeeps ==
  ASSUME AuthoringInv, NEW call \in pending, NEW a \in replies, call.id = a.id,
         call.kind = "outline", CacheOutline(call, a.result),
         UNCHANGED <<textVars, wait, due, timer>>,
         pending' = {c \in pending : c.id # a.id}, replies' = replies \ {a},
         UNCHANGED <<working, nextId, editGiven>>
  PROVE  AuthoringInv'
<1>1. /\ lines' = lines /\ tick' = tick /\ wait' = wait /\ due' = due /\ timer' = timer
      /\ editGiven' = editGiven
  BY DEF textVars
<1>2. CallsKnown' /\ TasksKnown' /\ RepliesKnown'
  BY <1>1, FewerKeep
<1>3. ClocksTyped'
  BY <1>1 DEF AuthoringInv, ClocksTyped
<1>4. /\ call.tick \in Nat /\ call.tick <= tick /\ tick \in Nat /\ lines \in Seq(Line)
      /\ a.result \in Seq(Entry) /\ (call.tick = tick => a.result = Outline(lines))
      /\ outline.tick \in Nat /\ outline.tick <= tick /\ outline.entries \in Seq(Entry)
      /\ Len(folds) \in Nat /\ folds = BuildFolds(outline.entries, Len(folds))
      /\ outline.tick = tick => outline.entries = Outline(lines) /\ Len(folds) = Len(lines)
  BY DEF AuthoringInv, ClocksTyped, CallsKnown, RepliesKnown, OutlineIsOfItsText
<1>5. \A c \in pending : c = call \/ c \in pending'
  BY DEF AuthoringInv, CallsKnown
<1>6. CASE Superseded(call)
  BY <1>4, <1>6, <1>1, <1>5, <1>2, <1>3 DEF CacheOutline, Superseded, OutlineIsOfItsText,
     AuthoringInv, OutlineIsOnItsWay
<1>7. CASE ~ Superseded(call)
  <2>1. /\ outline' = [entries |-> a.result, tick |-> call.tick]
        /\ folds' = IF Len(folds) = Len(lines) /\ outline.entries = a.result
                     THEN folds ELSE BuildFolds(a.result, Len(lines))
    BY <1>7 DEF CacheOutline
  <2>2. outline'.entries = a.result /\ outline'.tick = call.tick
    BY <2>1
  <2>3. Len(lines) \in Nat
    BY <1>4, LenProperties
  <2>4. folds' = BuildFolds(a.result, Len(lines)) /\ Len(folds') = Len(lines)
    BY <1>4, <2>3, LastSectionFolds, <2>1
  <2>5. OutlineIsOfItsText'
    BY <1>1, <1>4, <2>2, <2>3, <2>4 DEF OutlineIsOfItsText
  <2>6. OutlineIsOnItsWay'
    <3>1. due' = tick' => timer' \/ wait' = tick'
      BY <1>1 DEF AuthoringInv, OutlineIsOnItsWay
    <3>2. ASSUME wait' = tick'
          PROVE  \/ \E c \in pending' : c.kind = "outline" /\ c.tick = tick'
                 \/ outline.tick' = tick'
                 \/ tick' \in editGiven'
      BY <1>1, <1>5, <2>2, <1>4, <1>7, <3>2 DEF Superseded, AuthoringInv, OutlineIsOnItsWay
    <3> QED BY <3>1, <3>2 DEF OutlineIsOnItsWay
  <2> QED BY <1>2, <1>3, <2>5, <2>6 DEF AuthoringInv
<1> QED BY <1>6, <1>7

LEMMA ReplyKeeps ==
  ASSUME AuthoringInv, NEW a \in replies, Reply(a)
  PROVE  AuthoringInv'
<1>1. /\ replies' = replies \ {a} /\ pending' = {c \in pending : c.id # a.id}
      /\ working' = working /\ nextId' = nextId /\ editGiven' = editGiven
  BY DEF Reply
<1>2. CASE \E c \in pending : c.id = a.id
  BY <1>2, <1>1, EditReplyKeeps, OutlineReplyKeeps DEF Reply, AuthoringInv, CallsKnown
<1>3. CASE ~ \E c \in pending : c.id = a.id
  BY <1>3, <1>1, FewerKeep DEF Reply, textVars, outlineVars, AuthoringInv, ClocksTyped,
     OutlineIsOfItsText, OutlineIsOnItsWay
<1> QED BY <1>2, <1>3

LEMMA AuthoringKeeps ==
  ASSUME AuthoringInv, [AuthoringNext]_authoringVars
  PROVE  AuthoringInv'
<1>1. ASSUME Type PROVE AuthoringInv'
  BY <1>1, TypeKeeps
<1>2. ASSUME NEW delta \in {-1, 1}, NEW from \in DOMAIN lines, NEW to \in DOMAIN lines,
             SendEdit(delta, from, to)
      PROVE  AuthoringInv'
  BY <1>2, SendEditKeeps
<1>3. ASSUME Toc PROVE AuthoringInv'
  BY <1>3, RequestKeeps DEF Toc
<1>4. ASSUME EnsureOutline PROVE AuthoringInv'
  BY <1>4, EnsureOutlineKeeps
<1>5. ASSUME TimerFires PROVE AuthoringInv'
  BY <1>5, RequestKeeps DEF TimerFires
<1>6. ASSUME NEW a \in replies, Reply(a) PROVE AuthoringInv'
  BY <1>6, ReplyKeeps
<1>7. ASSUME NEW call \in pending, Expire(call) PROVE AuthoringInv'
  BY <1>7, ExpireKeeps
<1>8. ASSUME NEW w \in working, Begin(w) PROVE AuthoringInv'
  BY <1>8, BeginKeeps
<1>9. ASSUME NEW w \in working, Finish(w) PROVE AuthoringInv'
  BY <1>9, FinishKeeps
<1>10. ASSUME UNCHANGED authoringVars PROVE AuthoringInv'
  BY <1>10, FewerKeep DEF authoringVars, textVars, outlineVars, callVars, AuthoringInv,
     ClocksTyped, OutlineIsOfItsText, OutlineIsOnItsWay
<1> QED BY <1>1, <1>2, <1>3, <1>4, <1>5, <1>6, <1>7, <1>8, <1>9, <1>10 DEF AuthoringNext

LEMMA FoldsFollow ==
  ASSUME AuthoringInv
  PROVE  FoldsAreRight
<1> SUFFICES ASSUME Quiet PROVE folds = [i \in DOMAIN lines |-> FoldMeant(lines, i)]
  BY DEF FoldsAreRight
<1>1. outline.tick = tick
  BY DEF Quiet, AuthoringInv, OutlineIsOnItsWay
<1>2. folds = BuildFolds(Outline(lines), Len(lines)) /\ lines \in Seq(Line)
  BY <1>1 DEF AuthoringInv, OutlineIsOfItsText, ClocksTyped
<1> QED BY <1>2, FoldsOfOutline

\* At rest every line is folded as the headings above it say: FoldsAreRight of Authoring.
THEOREM FoldsFollowTheText == AuthoringSpec => []FoldsAreRight
<1>1. AuthoringInit => AuthoringInv
  BY AuthoringStarts
<1>2. AuthoringInv /\ [AuthoringNext]_authoringVars => AuthoringInv'
  BY AuthoringKeeps
<1>3. AuthoringInv => FoldsAreRight
  BY FoldsFollow
<1> QED BY <1>1, <1>2, <1>3, PTL DEF AuthoringSpec

-----------------------------------------------------------------------------
(* What is charged for the entries of a memo (HighlightMemo).              *)

\* sums[i] is what the first i of n weights come to.
Sums(sums, n, weights) ==
  /\ sums \in [0..n -> Nat] /\ sums[0] = 0
  /\ weights \in [1..n -> Nat]
  /\ \A i \in 1..n : sums[i] = sums[i - 1] + weights[i]

\* What the entries weigh, in the order in which they arrived.
WeightsOf(m) == [i \in 1..Len(m.arrived) |-> m.entries[m.arrived[i]].weight]

\* Sums are there for any weights.
LEMMA SumsExist ==
  ASSUME NEW n \in Nat, NEW weights \in [1..n -> Nat]
  PROVE  \E sums : Sums(sums, n, weights)
<1> DEFINE step == [x \in Nat \X (1..n) |-> x[1] + weights[x[2]]]
<1>1. step \in [Nat \X (1..n) -> Nat]
  OBVIOUS
<1>2. PICK f : Solves(f, Nat, 0, n, step)
  BY <1>1, RecursionExists
<1>3. f \in [0..n -> Nat] /\ f[0] = 0 /\ \A i \in 1..n : f[i] = step[<<f[i - 1], i>>]
  BY <1>2 DEF Solves
<1>4. ASSUME NEW i \in 1..n PROVE f[i] = f[i - 1] + weights[i]
  <2> HIDE DEF step
  <2>1. i - 1 \in 0..n
    OBVIOUS
  <2>2. f[i - 1] \in Nat /\ f[i] = step[<<f[i - 1], i>>]
    BY <1>3, <2>1
  <2>3. <<f[i - 1], i>> \in Nat \X (1..n)
    BY <2>2
  <2> QED BY <2>2, <2>3 DEF step
<1> QED BY <1>3, <1>4 DEF Sums

\* Charged is the sums of what the entries weigh.
LEMMA ChargedSums ==
  ASSUME NEW m, Len(m.arrived) \in Nat, WeightsOf(m) \in [1..Len(m.arrived) -> Nat]
  PROVE  Sums(Charged(m), Len(m.arrived), WeightsOf(m))
<1> DEFINE n == Len(m.arrived)
           w == WeightsOf(m)
           Rec(f) == f = [i \in 0..n |->
                            IF i = 0 THEN 0 ELSE f[i - 1] + m.entries[m.arrived[i]].weight]
           charged == CHOOSE f : Rec(f)
<1>1. n \in Nat /\ w \in [1..n -> Nat]
  OBVIOUS
<1>2. \A i \in 1..n : w[i] = m.entries[m.arrived[i]].weight
  BY DEF WeightsOf
<1>3. PICK f : Sums(f, n, w)
  BY <1>1, SumsExist
<1>4. Rec(f)
  BY <1>3, <1>1, <1>2 DEF Sums
<1>5. Rec(charged)
  BY <1>4
<1>6. Charged(m) = charged
  BY DEF Charged
<1> HIDE DEF charged
<1>7. charged[0] = 0 /\ \A i \in 1..n : charged[i] = charged[i - 1] + w[i]
  <2>1. charged = [i \in 0..n |-> IF i = 0 THEN 0
                                  ELSE charged[i - 1] + m.entries[m.arrived[i]].weight]
    BY <1>5
  <2>2. 0 \in 0..n /\ \A i \in 1..n : i \in 0..n /\ i # 0
    BY <1>1
  <2> HIDE DEF n, w
  <2> QED BY <1>2, <2>1, <2>2
<1>8. charged \in [0..n -> Nat]
  <2> HIDE DEF w
  <2>1. DOMAIN charged = 0..n /\ charged = [i \in DOMAIN charged |-> charged[i]]
    BY <1>5
  <2> HIDE DEF n
  <2> DEFINE Bad == {k \in 0..n : charged[k] \notin Nat}
  <2>2. ASSUME Bad # {} PROVE FALSE
    <3>1. PICK k \in Bad : \A j \in Bad : k <= j
      <4>1. Bad \in SUBSET Nat
        BY <1>1
      <4> HIDE DEF Bad
      <4> QED BY <2>2, <4>1, NatLeast
    <3>2. k \in 0..n /\ charged[k] \notin Nat
      BY <3>1
    <3>3. k \in 1..n /\ k - 1 \in 0..n /\ ~(k <= k - 1)
      BY <1>1, <1>7, <3>2
    <3>4. charged[k - 1] \in Nat
      BY <3>1, <3>3
    <3>5. charged[k] = charged[k - 1] + w[k] /\ w[k] \in Nat
      BY <1>1, <1>7, <3>3
    <3> QED BY <3>2, <3>4, <3>5
  <2>3. \A k \in 0..n : charged[k] \in Nat
    BY <2>2
  <2> QED BY <2>1, <2>3
<1> HIDE DEF n, w
<1>9. Sums(charged, n, w)
  BY <1>1, <1>7, <1>8 DEF Sums
<1> QED BY <1>6, <1>9 DEF n, w

\* Two stretches of the same weights come to the same.
LEMMA SumsAgree ==
  ASSUME NEW c, NEW m \in Nat, NEW v, Sums(c, m, v), NEW d, NEW n \in Nat, NEW w, Sums(d, n, w),
         NEW k \in Nat, NEW l \in Nat, NEW t \in Nat, k + t <= m, l + t <= n,
         \A i \in 1..t : v[k + i] = w[l + i]
  PROVE  c[k + t] - c[k] = d[l + t] - d[l]
<1>1. /\ \A i \in 0..m : c[i] \in Nat
      /\ \A i \in 1..m : c[i] = c[i - 1] + v[i] /\ v[i] \in Nat
      /\ \A i \in 0..n : d[i] \in Nat
      /\ \A i \in 1..n : d[i] = d[i - 1] + w[i] /\ w[i] \in Nat
  BY DEF Sums
<1> DEFINE Bad == {i \in 0..t : c[k + i] - c[k] # d[l + i] - d[l]}
<1>2. ASSUME Bad # {} PROVE FALSE
  <2>1. PICK i \in Bad : \A j \in Bad : i <= j
    <3>1. Bad \in SUBSET Nat
      OBVIOUS
    <3> HIDE DEF Bad
    <3> QED BY <1>2, <3>1, NatLeast
  <2>2. i \in 0..t /\ c[k + i] - c[k] # d[l + i] - d[l]
    BY <2>1
  <2>3. k \in 0..m /\ l \in 0..n /\ k + 0 = k /\ l + 0 = l
    OBVIOUS
  <2>4. i # 0
    BY <1>1, <2>3, <2>2
  <2>5. /\ i \in 1..t /\ i - 1 \in 0..t /\ ~(i <= i - 1)
        /\ k + i \in 1..m /\ l + i \in 1..n
        /\ k + (i - 1) = (k + i) - 1 /\ l + (i - 1) = (l + i) - 1
        /\ (k + i) - 1 \in 0..m /\ (l + i) - 1 \in 0..n
    BY <2>2, <2>4
  <2>6. c[(k + i) - 1] - c[k] = d[(l + i) - 1] - d[l]
    BY <2>1, <2>5
  <2>7. /\ c[k + i] = c[(k + i) - 1] + v[k + i] /\ d[l + i] = d[(l + i) - 1] + w[l + i]
        /\ v[k + i] = w[l + i] /\ v[k + i] \in Nat
        /\ c[(k + i) - 1] \in Nat /\ d[(l + i) - 1] \in Nat /\ c[k] \in Nat /\ d[l] \in Nat
    BY <1>1, <2>3, <2>5
  <2> QED BY <2>2, <2>6, <2>7
<1>3. t \in 0..t
  OBVIOUS
<1> QED BY <1>2, <1>3

\* One weight among the others is another.
LEMMA SumsOfOther ==
  ASSUME NEW c, NEW n \in Nat, NEW v, Sums(c, n, v), NEW d, NEW w, Sums(d, n, w),
         NEW k \in 1..n, \A i \in 1..n : i # k => v[i] = w[i]
  PROVE  d[n] = c[n] - v[k] + w[k]
<1>1. /\ \A i \in 0..n : c[i] \in Nat /\ d[i] \in Nat
      /\ c[0] = 0 /\ d[0] = 0
      /\ c[k] = c[k - 1] + v[k] /\ d[k] = d[k - 1] + w[k] /\ v[k] \in Nat /\ w[k] \in Nat
  BY DEF Sums
<1>2. k - 1 \in Nat /\ n - k \in Nat /\ k \in Nat /\ 0 \in Nat
      /\ 0 + (k - 1) = k - 1 /\ k - 1 <= n /\ k + (n - k) = n /\ n <= n
  OBVIOUS
<1>3. c[k - 1] - c[0] = d[k - 1] - d[0]
  <2>1. \A i \in 1..(k - 1) : v[0 + i] = w[0 + i]
    OBVIOUS
  <2>2. c[0 + (k - 1)] - c[0] = d[0 + (k - 1)] - d[0]
    BY <1>2, <2>1, SumsAgree, SMTT(30)
  <2> QED BY <1>2, <2>2
<1>4. c[n] - c[k] = d[n] - d[k]
  <2> DEFINE t == n - k
  <2>1. t \in Nat /\ k + t = n /\ \A i \in 1..t : v[k + i] = w[k + i]
    OBVIOUS
  <2> HIDE DEF t
  <2>2. c[k + t] - c[k] = d[k + t] - d[k]
    BY <1>2, <2>1, SumsAgree
  <2> QED BY <2>1, <2>2
<1>5. /\ c[n] \in Nat /\ d[n] \in Nat /\ c[k] \in Nat /\ d[k] \in Nat
      /\ c[k - 1] \in Nat /\ d[k - 1] \in Nat
  BY <1>1
<1> QED BY <1>1, <1>3, <1>4, <1>5

\* With one more, they come to that much more.
LEMMA SumsOfMore ==
  ASSUME NEW c, NEW n \in Nat, NEW v, Sums(c, n, v), NEW d, NEW w, Sums(d, n + 1, w),
         \A i \in 1..n : v[i] = w[i]
  PROVE  d[n + 1] = c[n] + w[n + 1]
<1>1. n + 1 \in 1..(n + 1) /\ n \in 0..n /\ n \in 0..(n + 1) /\ (n + 1) - 1 = n
  OBVIOUS
<1>2. /\ d[n + 1] = d[n] + w[n + 1] /\ d[0] = 0 /\ c[0] = 0
      /\ d[n] \in Nat /\ c[n] \in Nat /\ w[n + 1] \in Nat
  BY <1>1 DEF Sums
<1>3. c[n] = d[n]
  <2>1. /\ 0 \in Nat /\ n + 1 \in Nat /\ 0 + n = n /\ 0 + n <= n /\ 0 + n <= n + 1
        /\ \A i \in 1..n : v[0 + i] = w[0 + i]
    OBVIOUS
  <2>2. c[0 + n] - c[0] = d[0 + n] - d[0]
    BY <2>1, SumsAgree
  <2> QED BY <1>2, <2>1, <2>2
<1> QED BY <1>2, <1>3

\* Without the first k, they come to that much less.
Without(w, v, k, l) == \A i \in 1..l : v[k + i] = w[i]

LEMMA SumsOfRest ==
  ASSUME NEW c, NEW n \in Nat, NEW v, Sums(c, n, v), NEW d, NEW l \in Nat, NEW w, Sums(d, l, w),
         NEW k \in Nat, k + l = n, Without(w, v, k, l)
  PROVE  d[l] = c[n] - c[k]
<1>1. n \in 0..n /\ k \in 0..n /\ l \in 0..l /\ k + l <= n /\ 0 + l <= l /\ 0 + l = l /\ 0 \in Nat
  OBVIOUS
<1>2. c[n] \in Nat /\ c[k] \in Nat /\ d[l] \in Nat /\ d[0] = 0
  BY <1>1 DEF Sums
<1>3. \A i \in 1..l : v[k + i] = w[0 + i]
  BY DEF Without
<1>4. c[k + l] - c[k] = d[0 + l] - d[0]
  BY <1>1, <1>3, SumsAgree
<1> QED BY <1>1, <1>2, <1>4

-----------------------------------------------------------------------------
(* The memo is sound, but for its weight, after every step.                *)

\* The order of arrival has each entry once, and the entries are of these blocks, each
\* under its hash.
Holds(entries, arrived, n, blocks) ==
  /\ arrived \in Seq(DOMAIN entries) /\ n \in Nat /\ n = Len(arrived)
  /\ \A i, j \in 1..n : arrived[i] = arrived[j] => i = j
  /\ \A h \in DOMAIN entries : \E i \in 1..n : arrived[i] = h
  /\ \A h \in DOMAIN entries : entries[h] \in blocks /\ entries[h].hash = h

\* And what is charged is what they weigh.
MemoSound(m, blocks) ==
  /\ Holds(m.entries, m.arrived, Len(m.arrived), blocks)
  /\ m.bytes = Charged(m)[Len(m.arrived)]

\* weights are those of the entries, in the order in which they arrived.
Weigh(weights, entries, arrived, n) ==
  \A i \in 1..n : weights[i] = entries[arrived[i]].weight

\* There are sums of what the entries of a memo weigh.
LEMMA HoldsSums ==
  ASSUME NEW blocks \in Fences, NEW m,
         Holds(m.entries, m.arrived, Len(m.arrived), blocks)
  PROVE  /\ Weigh(WeightsOf(m), m.entries, m.arrived, Len(m.arrived))
         /\ Sums(Charged(m), Len(m.arrived), WeightsOf(m))
<1>1. /\ Len(m.arrived) \in Nat /\ m.arrived \in Seq(DOMAIN m.entries)
      /\ \A h \in DOMAIN m.entries : m.entries[h] \in blocks
  BY DEF Holds
<1>2. \A i \in 1..Len(m.arrived) : m.arrived[i] \in DOMAIN m.entries
  BY <1>1, ElementOfSeq
<1>3. \A i \in 1..Len(m.arrived) : m.entries[m.arrived[i]].weight \in Nat
  BY <1>1, <1>2, PaintAssumption
<1>4. WeightsOf(m) \in [1..Len(m.arrived) -> Nat]
  BY <1>3 DEF WeightsOf
<1>5. Weigh(WeightsOf(m), m.entries, m.arrived, Len(m.arrived))
  BY DEF WeightsOf, Weigh
<1> QED BY <1>1, <1>4, <1>5, ChargedSums

\* The entries with one that is replaced or added.
Takes(result, entries, fence) ==
  /\ DOMAIN result = DOMAIN entries \union {fence.hash}
  /\ \A h \in DOMAIN result : result[h] = IF h = fence.hash THEN fence ELSE entries[h]

\* An entry that is replaced stays where it is in the order of arrival.
LEMMA HoldsReplaced ==
  ASSUME NEW blocks, NEW e, NEW a, NEW n, Holds(e, a, n, blocks), NEW fence \in blocks,
         NEW t, Takes(t, e, fence), fence.hash \in DOMAIN e
  PROVE  /\ Holds(t, a, n, blocks)
         /\ \E k \in 1..n :
              /\ a[k] = fence.hash /\ t[a[k]] = fence
              /\ \A i \in 1..n : i # k => t[a[i]] = e[a[i]]
<1>1. /\ a \in Seq(DOMAIN e) /\ n \in Nat /\ n = Len(a)
      /\ \A i, j \in 1..n : a[i] = a[j] => i = j
      /\ \A h \in DOMAIN e : \E i \in 1..n : a[i] = h
      /\ \A h \in DOMAIN e : e[h] \in blocks /\ e[h].hash = h
  BY DEF Holds
<1>2. /\ DOMAIN t = DOMAIN e
      /\ \A h \in DOMAIN t : t[h] = IF h = fence.hash THEN fence ELSE e[h]
  BY DEF Takes
<1>3. \A i \in 1..n : a[i] \in DOMAIN t
  BY <1>1, <1>2, ElementOfSeq
<1>4. \A h \in DOMAIN t : t[h] \in blocks /\ t[h].hash = h
  BY <1>1, <1>2
<1>5. Holds(t, a, n, blocks)
  BY <1>1, <1>2, <1>4 DEF Holds
<1>6. PICK k \in 1..n : a[k] = fence.hash
  BY <1>1
<1>7. t[a[k]] = fence /\ \A i \in 1..n : i # k => t[a[i]] = e[a[i]]
  BY <1>1, <1>2, <1>3, <1>6
<1> QED BY <1>5, <1>6, <1>7

\* What becomes of the order of arrival: an entry is added, the oldest k are gone, and
\* the entries with them, or the oldest becomes the youngest.
Adds(b, a, hash) == b = Append(a, hash)
Forgets(b, t, a, e, k, n) == b = SubSeq(a, k + 1, n) /\ t = Restrict(e, ToSet(b))
Turns(b, a) == b = Append(Tail(a), a[1])

\* An entry that is added is the youngest.
LEMMA HoldsAdded ==
  ASSUME NEW blocks, NEW e, NEW a, NEW n, Holds(e, a, n, blocks), NEW fence \in blocks,
         NEW t, Takes(t, e, fence), fence.hash \notin DOMAIN e,
         NEW b, Adds(b, a, fence.hash)
  PROVE  /\ n \in Nat /\ Holds(t, b, n + 1, blocks)
         /\ b[n + 1] = fence.hash /\ t[b[n + 1]] = fence
         /\ \A i \in 1..n : t[b[i]] = e[a[i]]
<1>1. /\ a \in Seq(DOMAIN e) /\ n \in Nat /\ n = Len(a)
      /\ \A i, j \in 1..n : a[i] = a[j] => i = j
      /\ \A h \in DOMAIN e : \E i \in 1..n : a[i] = h
      /\ \A h \in DOMAIN e : e[h] \in blocks /\ e[h].hash = h
  BY DEF Holds
<1>2. /\ DOMAIN t = DOMAIN e \union {fence.hash}
      /\ \A h \in DOMAIN t : t[h] = IF h = fence.hash THEN fence ELSE e[h]
  BY DEF Takes
<1>3. \A i \in 1..n : a[i] \in DOMAIN e
  BY <1>1, ElementOfSeq
<1> DEFINE hash == fence.hash
           D == DOMAIN t
<1>4. a \in Seq(D) /\ hash \in D
  BY <1>1, <1>2
<1> HIDE DEF hash, D
<1>5. /\ Append(a, hash) \in Seq(D) /\ Len(Append(a, hash)) = n + 1
      /\ \A i \in 1..n : Append(a, hash)[i] = a[i]
      /\ Append(a, hash)[n + 1] = hash
  BY <1>1, <1>4, AppendProperties
<1>6. /\ b \in Seq(DOMAIN t) /\ Len(b) = n + 1
      /\ \A i \in 1..n : b[i] = a[i]
      /\ b[n + 1] = fence.hash
  BY <1>5 DEF hash, D, Adds
<1>7. \A i \in 1..(n + 1) : i = n + 1 \/ i \in 1..n
  BY <1>1
<1>8. \A i \in 1..n : b[i] # fence.hash /\ b[i] \in DOMAIN t
  BY <1>2, <1>3, <1>6
<1>9. \A i, j \in 1..(n + 1) : b[i] = b[j] => i = j
  BY <1>1, <1>6, <1>7, <1>8
<1>10. ASSUME NEW h \in DOMAIN t PROVE \E i \in 1..(n + 1) : b[i] = h
  BY <1>1, <1>6, <1>2
<1>11. \A h \in DOMAIN t : t[h] \in blocks /\ t[h].hash = h
  BY <1>1, <1>2
<1>12. n + 1 \in Nat
  BY <1>1
<1>13. Holds(t, b, n + 1, blocks)
  BY <1>6, <1>9, <1>10, <1>11, <1>12 DEF Holds
<1>14. t[b[n + 1]] = fence /\ \A i \in 1..n : t[b[i]] = e[a[i]]
  BY <1>2, <1>6, <1>8
<1> QED BY <1>1, <1>6, <1>13, <1>14

\* Without the oldest k there is the rest of the order.
LEMMA HoldsLeft ==
  ASSUME NEW blocks, NEW e, NEW a, NEW n, Holds(e, a, n, blocks), NEW k \in 0..n,
         NEW b, NEW t, Forgets(b, t, a, e, k, n)
  PROVE  /\ n - k \in Nat /\ k + (n - k) = n /\ Holds(t, b, n - k, blocks)
         /\ \A i \in 1..(n - k) : b[i] = a[k + i] /\ t[b[i]] = e[a[k + i]]
<1> DEFINE l == n - k
<1>1. /\ a \in Seq(DOMAIN e) /\ n \in Nat /\ n = Len(a)
      /\ \A i, j \in 1..n : a[i] = a[j] => i = j
      /\ \A h \in DOMAIN e : e[h] \in blocks /\ e[h].hash = h
  BY DEF Holds
<1>2. \A i \in 1..n : a[i] \in DOMAIN e
  BY <1>1, ElementOfSeq
<1>3. l \in Nat /\ k \in Nat /\ k + l = n /\ \A i \in 1..l : k + i \in 1..n
  BY <1>1
<1>4. /\ b \in Seq(DOMAIN e) /\ Len(b) = l /\ \A i \in 1..l : b[i] = a[k + i]
  BY <1>1, <1>2, SubSeqProperties DEF Forgets
<1> HIDE DEF l
<1>5. DOMAIN b = 1..l /\ ToSet(b) = {b[i] : i \in 1..l}
  BY <1>4, LenProperties DEF ToSet
<1>6. DOMAIN t = ToSet(b) /\ \A h \in ToSet(b) : t[h] = e[h]
  BY DEF Restrict, Forgets
<1>7. \A i \in 1..l : b[i] \in DOMAIN t /\ b[i] \in DOMAIN e
  BY <1>2, <1>3, <1>4, <1>5, <1>6
<1>8. \A h \in DOMAIN t : h \in DOMAIN e /\ t[h] = e[h] /\ \E i \in 1..l : b[i] = h
  <2> SUFFICES ASSUME NEW h \in DOMAIN t
               PROVE  h \in DOMAIN e /\ t[h] = e[h] /\ \E i \in 1..l : b[i] = h
    OBVIOUS
  <2>1. h \in ToSet(b)
    BY <1>6
  <2>2. PICK i \in 1..l : b[i] = h
    BY <1>5, <2>1
  <2> QED BY <1>6, <1>7, <2>1, <2>2
<1>9. b \in Seq(DOMAIN t)
  BY <1>4, LenProperties, <1>7, SeqDef, <1>3
<1>10. ASSUME NEW i \in 1..l, NEW j \in 1..l, b[i] = b[j] PROVE i = j
  BY <1>1, <1>3, <1>4, <1>10
<1>11. \A h \in DOMAIN t : t[h] \in blocks /\ t[h].hash = h
  BY <1>1, <1>8
<1>12. Holds(t, b, l, blocks)
  BY <1>3, <1>4, <1>8, <1>9, <1>10, <1>11 DEF Holds
<1>13. \A i \in 1..l : b[i] = a[k + i] /\ t[b[i]] = e[a[k + i]]
  BY <1>4, <1>7, <1>8
<1> QED BY <1>3, <1>12, <1>13 DEF l

\* The oldest may become the youngest.
LEMMA HoldsTurned ==
  ASSUME NEW blocks, NEW e, NEW a, NEW n, Holds(e, a, n, blocks), n # 0,
         NEW b, Turns(b, a)
  PROVE  /\ n - 1 \in Nat /\ Holds(e, b, n, blocks) /\ b[n] = a[1]
         /\ \A i \in 1..(n - 1) : b[i] = a[1 + i]
<1>1. /\ a \in Seq(DOMAIN e) /\ n \in Nat /\ n = Len(a)
      /\ \A i, j \in 1..n : a[i] = a[j] => i = j
      /\ \A h \in DOMAIN e : \E i \in 1..n : a[i] = h
      /\ \A h \in DOMAIN e : e[h] \in blocks /\ e[h].hash = h
  BY DEF Holds
<1> DEFINE l == n - 1
           D == DOMAIN e
           tail == Tail(a)
           first == a[1]
<1>2. /\ l \in Nat /\ n = l + 1 /\ 1 \in 1..n /\ \A i \in 1..l : 1 + i \in 1..n /\ 1 + i = i + 1
      /\ \A i \in 1..n : i = n \/ i \in 1..l
      /\ \A i \in 1..n : i = 1 \/ (i - 1 \in 1..l /\ (i - 1) + 1 = i)
  BY <1>1
<1>3. /\ tail \in Seq(D) /\ Len(tail) = l /\ \A i \in 1..l : tail[i] = a[i + 1]
  BY <1>1, HeadTailProperties
<1>4. first \in D
  BY <1>1, <1>2, ElementOfSeq
<1> HIDE DEF l, D, tail, first
<1>5. /\ Append(tail, first) \in Seq(D) /\ Len(Append(tail, first)) = l + 1
      /\ \A i \in 1..l : Append(tail, first)[i] = tail[i]
      /\ Append(tail, first)[l + 1] = first
  BY <1>3, <1>4, AppendProperties
<1>6. /\ b \in Seq(DOMAIN e) /\ Len(b) = n /\ b[n] = a[1]
      /\ \A i \in 1..l : b[i] = a[i + 1]
  BY <1>2, <1>3, <1>5 DEF tail, first, D, Turns
<1>7. ASSUME NEW i \in 1..n, NEW j \in 1..n, b[i] = b[j] PROVE i = j
  <2>1. CASE i \in 1..l /\ j \in 1..l
    BY <1>1, <1>2, <1>6, <1>7, <2>1
  <2>2. \A m \in 1..l : b[m] # a[1]
    BY <1>2, <1>1, <1>6
  <2> QED BY <1>2, <1>6, <1>7, <2>1, <2>2
<1>8. ASSUME NEW h \in DOMAIN e PROVE \E i \in 1..n : b[i] = h
  <2>1. PICK i \in 1..n : a[i] = h
    BY <1>1
  <2>2. CASE i = 1
    BY <1>2, <1>6, <2>1, <2>2
  <2>3. CASE i # 1
    <3>1. i - 1 \in 1..l /\ b[i - 1] = a[(i - 1) + 1] /\ (i - 1) + 1 = i /\ i - 1 \in 1..n
      BY <1>2, <1>6, <2>3
    <3> QED BY <2>1, <3>1
  <2> QED BY <2>2, <2>3
<1>9. Holds(e, b, n, blocks)
  BY <1>1, <1>6, <1>7, <1>8 DEF Holds
<1>10. \A i \in 1..l : b[i] = a[1 + i]
  BY <1>2, <1>6
<1> QED BY <1>2, <1>6, <1>9, <1>10 DEF l

\* An entry that is added or replaced leaves a memo that is sound.
LEMMA EnteredSound ==
  ASSUME NEW blocks \in Fences, NEW fence \in blocks, MemoSound(memo, blocks), NEW m,
         m = Entered(fence)
  PROVE  /\ MemoSound(m, blocks) /\ fence.hash \in DOMAIN m.entries
         /\ fence.hash \in DOMAIN memo.entries =>
              m.bytes = memo.bytes - memo.entries[fence.hash].weight + fence.weight
         /\ fence.hash \notin DOMAIN memo.entries =>
              /\ m.arrived[Len(m.arrived)] = fence.hash
              /\ WeightsOf(m)[Len(m.arrived)] = fence.weight
<1> DEFINE e == memo.entries
           a == memo.arrived
           n == Len(memo.arrived)
           c == Charged(memo)
           v == WeightsOf(memo)
           t == m.entries
           b == m.arrived
           l == Len(m.arrived)
           d == Charged(m)
           w == WeightsOf(m)
<1>1. Holds(e, a, n, blocks) /\ memo.bytes = c[n] /\ Weigh(v, e, a, n) /\ Sums(c, n, v)
  BY HoldsSums DEF MemoSound
<1>2. Takes(t, e, fence) /\ fence.hash \in DOMAIN t
  BY DEF Entered, Takes
<1>3. Holds(t, b, l, blocks) => Weigh(w, t, b, l) /\ Sums(d, l, w)
  BY HoldsSums
<1>4. Holds(t, b, l, blocks) /\ m.bytes = d[l] => MemoSound(m, blocks)
  BY DEF MemoSound
<1>5. fence.weight \in Nat
  BY PaintAssumption
<1>6. CASE fence.hash \in DOMAIN e
  <2>1. b = a /\ l = n /\ m.bytes = c[n] - e[fence.hash].weight + fence.weight
    BY <1>1, <1>6 DEF Entered
  <2> HIDE DEF e, a, n, c, v, t, b, l, d, w
  <2>2. n \in Nat /\ Holds(t, a, n, blocks)
    <3>1. Holds(e, a, n, blocks) /\ Takes(t, e, fence) /\ fence.hash \in DOMAIN e
      BY <1>1, <1>2, <1>6
    <3>2. Holds(t, a, n, blocks)
      BY <3>1, HoldsReplaced
    <3> QED BY <3>1, <3>2 DEF Holds
  <2>3. PICK k \in 1..n : /\ a[k] = fence.hash /\ t[a[k]] = fence
                          /\ \A i \in 1..n : i # k => t[a[i]] = e[a[i]]
    BY <1>1, <1>2, <1>6, HoldsReplaced
  <2>4. Weigh(w, t, a, n) /\ Sums(d, n, w)
    BY <1>3, <2>1, <2>2
  <2>5. v[k] = e[fence.hash].weight /\ w[k] = fence.weight
    BY <1>1, <2>3, <2>4 DEF Weigh
  <2>6. \A i \in 1..n : i # k => v[i] = w[i]
    BY <1>1, <2>3, <2>4 DEF Weigh
  <2>7. d[n] = c[n] - v[k] + w[k]
    BY <1>1, <2>2, <2>4, <2>6, SumsOfOther
  <2>8. MemoSound(m, blocks)
    BY <1>4, <2>1, <2>2, <2>5, <2>7
  <2> QED BY <1>1, <1>2, <1>6, <2>1, <2>8 DEF e, t
<1>7. CASE fence.hash \notin DOMAIN e
  <2>1. b = Append(a, fence.hash) /\ m.bytes = c[n] - 0 + fence.weight
    BY <1>1, <1>7 DEF Entered
  <2>2. l = Len(b)
    OBVIOUS
  <2> HIDE DEF e, a, n, c, v, t, b, l, d, w
  <2>3. /\ n \in Nat /\ Holds(t, b, n + 1, blocks)
        /\ b[n + 1] = fence.hash /\ t[b[n + 1]] = fence
        /\ \A i \in 1..n : t[b[i]] = e[a[i]]
    <3>1. /\ Holds(e, a, n, blocks) /\ Takes(t, e, fence) /\ fence.hash \notin DOMAIN e
          /\ Adds(b, a, fence.hash)
      BY <1>1, <1>2, <1>7, <2>1 DEF Adds
    <3> QED BY <3>1, HoldsAdded
  <2>4. l = n + 1
    BY <2>2, <2>3 DEF Holds
  <2>5. Weigh(w, t, b, n + 1) /\ Sums(d, n + 1, w)
    BY <1>3, <2>3, <2>4
  <2>6. n + 1 \in 1..(n + 1) /\ \A i \in 1..n : i \in 1..(n + 1)
    BY <2>3
  <2>7. w[n + 1] = fence.weight /\ \A i \in 1..n : v[i] = w[i]
    BY <1>1, <2>3, <2>5, <2>6 DEF Weigh
  <2>8. d[n + 1] = c[n] + w[n + 1]
    BY <1>1, <2>3, <2>5, <2>7, SumsOfMore
  <2>9. c[n] \in Nat
    BY <2>3, <1>1 DEF Sums
  <2>10. MemoSound(m, blocks)
    BY <1>4, <1>5, <2>1, <2>3, <2>4, <2>7, <2>8, <2>9
  <2>11. b[l] = fence.hash /\ w[l] = fence.weight
    BY <2>3, <2>4, <2>7
  <2> QED BY <1>2, <1>7, <2>10, <2>11 DEF e, t, b, l, w
<1> QED BY <1>6, <1>7

\* How many go, and what is left then.
LEMMA EvictedIs ==
  ASSUME NEW blocks \in Fences, NEW m, MemoSound(m, blocks), NEW hash \in DOMAIN m.entries
  PROVE  \E n \in 0..Len(m.arrived) :
           LET left == m.bytes - Charged(m)[n]
               rest == SubSeq(m.arrived, n + 1, Len(m.arrived))
           IN  /\ \A k \in 0..Len(m.arrived) :
                    \/ m.bytes - Charged(m)[k] <= MemoBudget
                    \/ k < Len(m.arrived) /\ m.arrived[k + 1] = hash
                    => n <= k
               /\ left <= MemoBudget \/ (n < Len(m.arrived) /\ m.arrived[n + 1] = hash)
               /\ Evicted(m, hash) =
                    [entries |-> Restrict(m.entries, ToSet(rest)),
                     arrived |-> IF left <= MemoBudget THEN rest ELSE Append(Tail(rest), hash),
                     bytes   |-> left]
<1> DEFINE l == Len(m.arrived)
           left(n) == m.bytes - Charged(m)[n]
           Fits(n) == left(n) <= MemoBudget \/ (n < l /\ m.arrived[n + 1] = hash)
           Enough == {n \in 0..l : Fits(n)}
           n == Min(Enough)
           rest == SubSeq(m.arrived, n + 1, l)
<1>1. l \in Nat /\ m.bytes = Charged(m)[l] /\ Charged(m)[l] \in Nat /\ MemoBudget \in Nat
  <2>1. l \in Nat /\ Sums(Charged(m), l, WeightsOf(m)) /\ m.bytes = Charged(m)[l]
    BY HoldsSums DEF MemoSound, Holds
  <2>2. l \in 0..l
    BY <2>1
  <2> HIDE DEF l
  <2> QED BY <2>1, <2>2, PaintAssumption DEF Sums
<1>2. l \in Enough
  BY <1>1
<1>3. \E x \in Enough : \A y \in Enough : x <= y
  <2>1. Enough \in SUBSET Nat
    BY <1>1
  <2> HIDE DEF Enough
  <2> QED BY <1>2, <2>1, NatLeast
<1>4. n \in Enough /\ \A y \in Enough : n <= y
  BY <1>3 DEF Min
<1>5. Evicted(m, hash) =
        [entries |-> Restrict(m.entries, ToSet(rest)),
         arrived |-> IF left(n) <= MemoBudget THEN rest ELSE Append(Tail(rest), hash),
         bytes   |-> left(n)]
  BY DEF Evicted
<1> HIDE DEF n
<1>6. n \in 0..l /\ Fits(n) /\ \A k \in 0..l : Fits(k) => n <= k
  BY <1>4
<1>7. /\ \A k \in 0..l :
           \/ left(k) <= MemoBudget
           \/ k < l /\ m.arrived[k + 1] = hash
           => n <= k
      /\ left(n) <= MemoBudget \/ (n < l /\ m.arrived[n + 1] = hash)
  BY <1>6
<1>8. n \in 0..l
  BY <1>6
<1> QED BY <1>5, <1>7, <1>8

\* What is left after an eviction is sound, and within the budget unless the entry just
\* added is all there is or was not the youngest.
LEMMA EvictedSound ==
  ASSUME NEW blocks \in Fences, NEW m, MemoSound(m, blocks), NEW hash \in DOMAIN m.entries,
         NEW r, r = Evicted(m, hash)
  PROVE  /\ MemoSound(r, blocks)
         /\ m.bytes <= MemoBudget => r.bytes <= MemoBudget
         /\ m.arrived[Len(m.arrived)] = hash /\ WeightsOf(m)[Len(m.arrived)] <= MemoBudget
              => r.bytes <= MemoBudget
<1> DEFINE l == Len(m.arrived)
           c == Charged(m)
           v == WeightsOf(m)
           e == m.entries
           a == m.arrived
<1>1. /\ Holds(e, a, l, blocks) /\ m.bytes = c[l] /\ Weigh(v, e, a, l) /\ Sums(c, l, v)
  BY HoldsSums DEF MemoSound
<1>2. PICK n \in 0..l :
        /\ \A k \in 0..l :
             \/ m.bytes - c[k] <= MemoBudget
             \/ k < l /\ a[k + 1] = hash
             => n <= k
        /\ m.bytes - c[n] <= MemoBudget \/ (n < l /\ a[n + 1] = hash)
        /\ r = [entries |-> Restrict(e, ToSet(SubSeq(a, n + 1, l))),
                arrived |-> IF m.bytes - c[n] <= MemoBudget THEN SubSeq(a, n + 1, l)
                            ELSE Append(Tail(SubSeq(a, n + 1, l)), hash),
                bytes   |-> m.bytes - c[n]]
  BY EvictedIs
<1> DEFINE b == SubSeq(a, n + 1, l)
           t == Restrict(e, ToSet(b))
           d == Charged(r)
           w == WeightsOf(r)
           p == Len(r.arrived)
           k == l - n
<1>3. /\ r.entries = t /\ r.bytes = m.bytes - c[n]
      /\ m.bytes - c[n] <= MemoBudget => r.arrived = b
      /\ ~(m.bytes - c[n] <= MemoBudget) => r.arrived = Append(Tail(b), hash)
  <2> DEFINE left == m.bytes - c[n]
             turned == Append(Tail(b), hash)
  <2>1. r = [entries |-> t, arrived |-> IF left <= MemoBudget THEN b ELSE turned, bytes |-> left]
    BY <1>2
  <2> HIDE DEF t, b, left, turned
  <2>3. /\ r.entries = t /\ r.bytes = left
        /\ r.arrived = IF left <= MemoBudget THEN b ELSE turned
    BY <2>1
  <2> QED BY <2>3 DEF left, turned
<1>4. /\ Holds(t, r.arrived, p, blocks) => Weigh(w, t, r.arrived, p) /\ Sums(d, p, w)
      /\ Holds(t, r.arrived, p, blocks) /\ r.bytes = d[p] => MemoSound(r, blocks)
  <2>1. r.entries = t
    BY <1>2
  <2> HIDE DEF t
  <2> QED BY <2>1, HoldsSums DEF MemoSound
<1> HIDE DEF l, c, v, e, a
<1>5. /\ k \in Nat /\ n \in Nat /\ n + k = l /\ Holds(t, b, k, blocks)
      /\ \A i \in 1..k : b[i] = a[n + i] /\ t[b[i]] = e[a[n + i]]
  <2>1. n \in 0..l /\ Holds(e, a, l, blocks) /\ Forgets(b, t, a, e, n, l)
    BY <1>1, <1>2 DEF Forgets
  <2> HIDE DEF b, t, k
  <2>2. /\ l - n \in Nat /\ n + (l - n) = l /\ Holds(t, b, l - n, blocks)
        /\ \A i \in 1..(l - n) : b[i] = a[n + i] /\ t[b[i]] = e[a[n + i]]
    BY <2>1, HoldsLeft
  <2>3. n \in Nat
    BY <1>2
  <2> QED BY <2>2, <2>3 DEF k
<1>6. /\ l \in Nat /\ MemoBudget \in Nat
      /\ \A i \in 0..l : c[i] \in Nat
      /\ c[0] = 0 /\ \A i \in 1..l : c[i] = c[i - 1] + v[i] /\ v[i] \in Nat
  BY <1>1, PaintAssumption DEF Holds, Sums
<1> HIDE DEF b, t, d, w, p, k
<1>7. CASE m.bytes - c[n] <= MemoBudget
  <2>1. r.arrived = b
    BY <1>3, <1>7
  <2>2. p = k
    BY <1>5, <2>1 DEF Holds, p
  <2>3. Weigh(w, t, b, k) /\ Sums(d, k, w)
    BY <1>4, <1>5, <2>1, <2>2
  <2>4. ASSUME NEW i \in 1..k PROVE v[n + i] = w[i]
    BY <1>5, <1>1, <2>3 DEF Weigh
  <2>5. d[k] = c[l] - c[n]
    <3>1. l \in Nat /\ k \in Nat /\ n \in Nat /\ n + k = l /\ Sums(c, l, v) /\ Sums(d, k, w)
      BY <1>1, <1>5, <1>6, <2>3
    <3>2. Without(w, v, n, k)
      BY <2>4 DEF Without
    <3> QED BY <3>1, <3>2, SumsOfRest
  <2> QED BY <1>1, <1>3, <1>4, <1>5, <1>7, <2>1, <2>2, <2>5
<1>8. CASE ~(m.bytes - c[n] <= MemoBudget)
  <2>1. r.arrived = Append(Tail(b), hash) /\ a[n + 1] = hash
    BY <1>2, <1>3, <1>8
  <2>2. n # l /\ n \in 0..l
    BY <1>6, <1>1, <1>2, <1>8
  <2>3. k # 0 /\ 1 \in 1..k /\ k \in 1..k /\ n + 1 \in 1..l /\ (n + 1) - 1 = n
    BY <1>5, <1>6, <2>2
  <2>4. b[1] = hash /\ t[hash] = e[hash]
    BY <1>5, <2>1, <2>3
  <2>5. r.arrived = Append(Tail(b), b[1])
    BY <2>1, <2>4
  <2>6. /\ k - 1 \in Nat /\ Holds(t, r.arrived, k, blocks) /\ r.arrived[k] = b[1]
        /\ \A i \in 1..(k - 1) : r.arrived[i] = b[1 + i]
    <3>1. Holds(t, b, k, blocks) /\ k # 0 /\ Turns(r.arrived, b)
      BY <1>5, <2>3, <2>5 DEF Turns
    <3> DEFINE turned == r.arrived
    <3>2. Turns(turned, b)
      BY <3>1
    <3> HIDE DEF turned
    <3>3. /\ k - 1 \in Nat /\ Holds(t, turned, k, blocks) /\ turned[k] = b[1]
          /\ \A i \in 1..(k - 1) : turned[i] = b[1 + i]
      BY <3>1, <3>2, HoldsTurned
    <3> QED BY <3>3 DEF turned
  <2>7. p = k
    BY <2>6 DEF Holds, p
  <2>8. Weigh(w, t, r.arrived, k) /\ Sums(d, k, w)
    BY <1>4, <2>6, <2>7
  <2> DEFINE j == k - 1
  <2>9. /\ j \in Nat /\ j + 1 = k /\ k - 1 = j /\ (n + 1) + j = l /\ n + 1 \in Nat
        /\ \A i \in 1..j : /\ i \in 1..k /\ 1 + i \in 1..k /\ n + (1 + i) = (n + 1) + i
                           /\ (n + 1) + i \in 1..l
    BY <1>5, <2>3
  <2> HIDE DEF j
  <2>10. ASSUME NEW i \in 1..j PROVE v[(n + 1) + i] = w[i]
    BY <2>6, <2>8, <2>9, <1>5, <1>1 DEF Weigh
  <2>11. w[k] = e[hash].weight /\ v[n + 1] = e[hash].weight
    <3>1. v[n + 1] = e[a[n + 1]].weight
      BY <1>1, <2>3 DEF Weigh
    <3>2. w[k] = t[r.arrived[k]].weight
      BY <2>3, <2>8 DEF Weigh
    <3>3. r.arrived[k] = hash
      BY <2>4, <2>6
    <3> QED BY <2>1, <2>4, <3>1, <3>2, <3>3
  <2>12. Sums(d, j + 1, w)
    BY <2>8, <2>9
  <2>13. PICK x : Sums(x, j, [i \in 1..j |-> w[i]])
    BY <2>8, <2>9, SumsExist DEF Sums
  <2>14. x[j] = c[l] - c[n + 1]
    <3> DEFINE u == [i \in 1..j |-> w[i]]
    <3>1. \A i \in 1..j : v[(n + 1) + i] = u[i]
      BY <2>10
    <3>2. Sums(x, j, u)
      BY <2>13
    <3> HIDE DEF u
    <3> DEFINE q == n + 1
    <3>3. /\ l \in Nat /\ j \in Nat /\ q \in Nat /\ q + j = l /\ Sums(c, l, v)
          /\ Without(u, v, q, j)
      BY <1>1, <1>6, <2>9, <3>1 DEF Without
    <3> HIDE DEF q
    <3>4. x[j] = c[l] - c[q]
      BY <3>2, <3>3, SumsOfRest
    <3> QED BY <3>4 DEF q
  <2>15. d[j + 1] = x[j] + w[j + 1]
    <3> DEFINE u == [i \in 1..j |-> w[i]]
    <3>1. \A i \in 1..j : u[i] = w[i]
      OBVIOUS
    <3>2. Sums(x, j, u)
      BY <2>13
    <3> HIDE DEF u
    <3> QED BY <2>9, <2>12, <3>1, <3>2, SumsOfMore
  <2>16. /\ c[n + 1] = c[n] + v[n + 1] /\ v[n + 1] \in Nat
         /\ c[n] \in Nat /\ c[n + 1] \in Nat /\ c[l] \in Nat
    BY <1>6, <2>2, <2>3
  <2>17. d[k] = c[l] - c[n]
    BY <2>9, <2>11, <2>14, <2>15, <2>16
  <2>18. MemoSound(r, blocks)
    BY <1>1, <1>3, <1>4, <2>6, <2>7, <2>17
  <2>19. ~(m.bytes <= MemoBudget)
    BY <1>1, <1>6, <1>8, <2>16
  <2>20. ASSUME a[l] = hash, v[l] <= MemoBudget PROVE FALSE
    <3>1. n + 1 = l
      BY <1>6, <2>3, <1>1, <2>1, <2>20 DEF Holds
    <3> QED BY <1>1, <1>6, <1>8, <2>16, <2>20, <3>1
  <2> QED BY <2>18, <2>19, <2>20 DEF a, l, v
<1> QED BY <1>7, <1>8

-----------------------------------------------------------------------------
(* Every step of a render.                                                 *)

\* What the budget may be exceeded for.
Excused ==
  \/ \E a, b \in fences : a.hash = b.hash /\ a.weight # b.weight
  \/ \E fence \in fences : fence.weight > MemoBudget

\* The memo is sound at every moment, and so is what is being highlighted for it.
PaintInv ==
  /\ fences \in Fences
  /\ painting \in [Painters -> fences \union {NoFence}]
  /\ MemoSound(memo, fences)
  /\ memo.bytes <= MemoBudget \/ Excused
  /\ ColoursAreItsOwn

\* Nothing is held at first.
LEMMA PaintStarts == PaintInit => PaintInv
<1> SUFFICES ASSUME PaintInit PROVE PaintInv
  OBVIOUS
<1>1. /\ fences \in Fences /\ painting = [p \in Painters |-> NoFence]
      /\ memo = [entries |-> << >>, arrived |-> << >>, bytes |-> 0]
      /\ colours = [asked |-> NoFence, given |-> NoFence]
  BY DEF PaintInit
<1>2. memo.entries = << >> /\ memo.arrived = << >> /\ memo.bytes = 0
  BY <1>1
<1>3. Len(memo.arrived) = 0 /\ DOMAIN memo.entries = {} /\ memo.arrived \in Seq(DOMAIN memo.entries)
  BY <1>2
<1>4. Holds(memo.entries, memo.arrived, Len(memo.arrived), fences)
  BY <1>3 DEF Holds
<1>5. Charged(memo)[0] = 0
  BY <1>1, <1>3, <1>4, HoldsSums DEF Sums
<1>6. MemoSound(memo, fences)
  BY <1>2, <1>3, <1>4, <1>5 DEF MemoSound
<1>7. ColoursAreItsOwn
  BY <1>1 DEF ColoursAreItsOwn
<1>8. memo.bytes <= MemoBudget
  BY <1>2, PaintAssumption
<1>9. painting \in [Painters -> fences \union {NoFence}]
  BY <1>1
<1> QED BY <1>1, <1>6, <1>7, <1>8, <1>9 DEF PaintInv

\* A block that is highlighted is kept, and the memo with it.
LEMMA PaintsKeeps ==
  ASSUME PaintInv, NEW painter \in Painters, Paints(painter)
  PROVE  PaintInv'
<1> DEFINE fence == painting[painter]
           hash == fence.hash
<1>1. /\ fences \in Fences /\ painting \in [Painters -> fences \union {NoFence}]
      /\ MemoSound(memo, fences) /\ (memo.bytes <= MemoBudget \/ Excused)
  BY DEF PaintInv
<1>2. /\ fence # NoFence /\ painting' = [painting EXCEPT ![painter] = NoFence]
      /\ colours' = [asked |-> fence, given |-> fence] /\ fences' = fences
      /\ Cacheable(fence) => memo' = Evicted(Entered(fence), hash)
      /\ ~Cacheable(fence) => memo' = memo
  BY DEF Paints
<1>3. fence \in fences
  BY <1>1, <1>2
<1>4. ColoursAreItsOwn'
  BY <1>2 DEF ColoursAreItsOwn
<1>5. painting' \in [Painters -> fences' \union {NoFence}]
  BY <1>1, <1>2
<1>6. Excused' <=> Excused
  BY <1>2 DEF Excused
<1> HIDE DEF fence
<1>7. CASE ~Cacheable(fence)
  BY <1>1, <1>2, <1>7, <1>4, <1>5, <1>6 DEF PaintInv
<1>8. CASE Cacheable(fence)
  <2>1. PICK m : m = Entered(fence)
    OBVIOUS
  <2>2. /\ MemoSound(m, fences) /\ hash \in DOMAIN m.entries
        /\ hash \in DOMAIN memo.entries =>
             m.bytes = memo.bytes - memo.entries[hash].weight + fence.weight
        /\ hash \notin DOMAIN memo.entries =>
             /\ m.arrived[Len(m.arrived)] = hash
             /\ WeightsOf(m)[Len(m.arrived)] = fence.weight
    BY <1>1, <1>3, <2>1, EnteredSound
  <2>3. PICK r : r = Evicted(m, hash)
    OBVIOUS
  <2>4. memo' = r
    BY <1>2, <1>8, <2>1, <2>3
  <2>5. /\ MemoSound(r, fences)
        /\ m.bytes <= MemoBudget => r.bytes <= MemoBudget
        /\ m.arrived[Len(m.arrived)] = hash /\ WeightsOf(m)[Len(m.arrived)] <= MemoBudget
             => r.bytes <= MemoBudget
    BY <1>1, <2>2, <2>3, EvictedSound
  <2>6. ASSUME ~Excused PROVE r.bytes <= MemoBudget
    <3>1. /\ \A a, b \in fences : a.hash = b.hash => a.weight = b.weight
          /\ \A a \in fences : ~(a.weight > MemoBudget)
      BY <2>6 DEF Excused
    <3>2. fence.weight \in Nat /\ MemoBudget \in Nat /\ memo.bytes <= MemoBudget
      BY <1>1, <1>3, <2>6, PaintAssumption
    <3>3. CASE hash \notin DOMAIN memo.entries
      BY <1>3, <2>2, <2>5, <3>1, <3>2, <3>3
    <3>4. CASE hash \in DOMAIN memo.entries
      <4>1. memo.entries[hash] \in fences /\ memo.entries[hash].hash = hash
        BY <1>1, <3>4 DEF MemoSound, Holds
      <4>2. memo.entries[hash].weight = fence.weight
        BY <1>3, <3>1, <4>1
      <4>3. memo.bytes \in Nat
        BY <1>1, HoldsSums DEF MemoSound, Holds, Sums
      <4>4. m.bytes = memo.bytes
        BY <2>2, <3>2, <3>4, <4>2, <4>3
      <4> QED BY <2>5, <3>2, <4>4
    <3> QED BY <3>3, <3>4
  <2>7. MemoSound(memo', fences')
    BY <1>2, <2>4, <2>5
  <2> QED BY <1>1, <1>2, <1>4, <1>5, <1>6, <2>4, <2>6, <2>7 DEF PaintInv
<1> QED BY <1>7, <1>8

\* The memo is asked and left as it is.
LEMMA AsksKeeps ==
  ASSUME PaintInv, NEW painter \in Painters, NEW fence \in fences,
         NoLanguage(painter, fence) \/ Hits(painter, fence) \/ Misses(painter, fence)
  PROVE  PaintInv'
<1>1. /\ fences \in Fences /\ painting \in [Painters -> fences \union {NoFence}]
      /\ MemoSound(memo, fences) /\ (memo.bytes <= MemoBudget \/ Excused) /\ ColoursAreItsOwn
  BY DEF PaintInv
<1>2. fences' = fences /\ memo' = memo
  BY DEF NoLanguage, Hits, Misses, Asks
<1>3. Excused' <=> Excused
  BY <1>2 DEF Excused
<1>4. MemoSound(memo', fences')
  BY <1>1, <1>2
<1>5. painting' \in [Painters -> fences' \union {NoFence}]
  BY <1>1, <1>2 DEF NoLanguage, Hits, Misses
<1>6. ColoursAreItsOwn'
  <2>1. CASE NoLanguage(painter, fence)
    BY <2>1 DEF NoLanguage, ColoursAreItsOwn
  <2>2. CASE Hits(painter, fence)
    BY <2>2 DEF Hits, HeldAs, ColoursAreItsOwn
  <2>3. CASE Misses(painter, fence)
    BY <2>3, <1>1 DEF Misses, ColoursAreItsOwn
  <2> QED BY <2>1, <2>2, <2>3
<1> QED BY <1>1, <1>2, <1>3, <1>4, <1>5, <1>6 DEF PaintInv

\* The memo answers for the block it was asked about, has each entry once in the order
\* of arrival, is charged for what it holds, and keeps its budget but for blocks that
\* share a hash or weigh more than all of it (block() of highlight.rs).
THEOREM MemoStaysSound == PaintSpec => []MemoIsSound
<1>1. PaintInv /\ [PaintNext]_paintVars => PaintInv'
  <2> SUFFICES ASSUME PaintInv, [PaintNext]_paintVars PROVE PaintInv'
    OBVIOUS
  <2>1. CASE PaintNext
    BY <2>1, PaintsKeeps, AsksKeeps DEF PaintNext
  <2>2. CASE UNCHANGED paintVars
    BY <2>2 DEF PaintInv, paintVars, Excused, ColoursAreItsOwn
  <2> QED BY <2>1, <2>2
<1>2. PaintInv => MemoIsSound
  <2> SUFFICES ASSUME PaintInv PROVE MemoIsSound
    OBVIOUS
  <2>1. /\ Holds(memo.entries, memo.arrived, Len(memo.arrived), fences)
        /\ memo.bytes = Charged(memo)[Len(memo.arrived)]
        /\ (memo.bytes <= MemoBudget \/ Excused)
    BY DEF PaintInv, MemoSound
  <2>2. DOMAIN memo.arrived = 1..Len(memo.arrived)
    BY <2>1, LenProperties DEF Holds
  <2>3. \A i \in 1..Len(memo.arrived) : memo.arrived[i] \in DOMAIN memo.entries
    BY <2>1, ElementOfSeq DEF Holds
  <2>4. IsInjective(memo.arrived)
    BY <2>1, <2>2 DEF Holds, IsInjective
  <2>5. ToSet(memo.arrived) = DOMAIN memo.entries
    <3> DEFINE n == Len(memo.arrived)
    <3>1. ToSet(memo.arrived) = {memo.arrived[i] : i \in 1..n}
      BY <2>2 DEF ToSet
    <3>2. \A h \in DOMAIN memo.entries : \E i \in 1..n : memo.arrived[i] = h
      BY <2>1 DEF Holds
    <3> HIDE DEF n
    <3>3. \A i \in 1..n : memo.arrived[i] \in DOMAIN memo.entries
      BY <2>3 DEF n
    <3> QED BY <3>1, <3>2, <3>3
  <2>6. memo.bytes \in Nat /\ MemoBudget \in Nat
    <3>1. /\ Len(memo.arrived) \in Nat
          /\ Sums(Charged(memo), Len(memo.arrived), WeightsOf(memo))
      BY <2>1, HoldsSums DEF Holds, PaintInv
    <3>2. Len(memo.arrived) \in 0..Len(memo.arrived)
      BY <3>1
    <3> QED BY <2>1, <3>1, <3>2, PaintAssumption DEF Sums
  <2>7. memo.bytes > MemoBudget => Excused
    BY <2>1, <2>6
  <2>8. MemoAddsUp
    BY <2>1, <2>4, <2>5, <2>7 DEF MemoAddsUp, Excused
  <2> QED BY <2>8 DEF PaintInv, MemoIsSound
<1> QED BY <1>1, <1>2, PaintStarts, PTL DEF PaintSpec

-----------------------------------------------------------------------------
(* The rows of the terminal, and the frames at their left (BlockWalk).     *)

RowKinds == {"gap", "text", "bare", "heading", "rule", "table", "html", "code", "title",
             "progress", "term"}
FrameKinds == {"quote", "item", "note", "definition", "heading"}
ContainerKinds == {"quote", "list", "item", "note", "definitions", "definition"}

PrefixParts == [frame : Nat, kind : FrameKinds, first : BOOLEAN]
WalkRows    == [kind : RowKinds, prefix : Seq(PrefixParts)]
WalkFrames  == [id : Nat, kind : FrameKinds, used : BOOLEAN]
WalkPages   == [rows : Seq(WalkRows), frames : Seq(WalkFrames), gap : BOOLEAN, tight : BOOLEAN]
Containers  == [kind : ContainerKinds, id : Nat, before : Nat, tight : BOOLEAN, loose : BOOLEAN,
                tasks : Nat, done : Nat]
BlockSpans  == [first : Nat, count : Nat]

\* A row with the bar or the marker of a container; with its marker; one that speaks in
\* it; and one that says a paragraph of its own.
Bears(row, id)   == \E k \in 1..Len(row.prefix) : row.prefix[k].frame = id
Marks(row, id)   == \E k \in 1..Len(row.prefix) : row.prefix[k].frame = id /\ row.prefix[k].first
Speaks(row, id)  == Bears(row, id) /\ row.kind # "gap"
Narrates(row, id) == row.kind \in {"text", "bare"} /\ Last(row.prefix).frame = id

Spoken(rows, id)    == \E i \in 1..Len(rows) : Speaks(rows[i], id)
Untouched(rows, id) == \A i \in 1..Len(rows) : ~Bears(rows[i], id)
FirstWord(rows, id, i) ==
  Speaks(rows[i], id) /\ \A j \in 1..Len(rows) : Speaks(rows[j], id) => i <= j

\* The rows of a container so far: the marker is on the first row that says something,
\* they are together, and none is above the first if that is a paragraph of its own.
TidyMarks(rows, id) ==
  \A i \in 1..Len(rows) : Bears(rows[i], id) => (Marks(rows[i], id) <=> FirstWord(rows, id, i))
TidyBars(rows, id) ==
  \A i, j, m \in 1..Len(rows) :
    i <= m /\ m <= j /\ Bears(rows[i], id) /\ Bears(rows[j], id) => Bears(rows[m], id)
TidyHead(rows, id) ==
  \A i, j \in 1..Len(rows) :
    FirstWord(rows, id, i) /\ Narrates(rows[i], id) /\ Bears(rows[j], id) => i <= j
Tidy(rows, id) == TidyMarks(rows, id) /\ TidyBars(rows, id) /\ TidyHead(rows, id)

\* A container that is open goes on to the last row.
Running(rows, id) ==
  \A i, m \in 1..Len(rows) : i <= m /\ Bears(rows[i], id) => Bears(rows[m], id)

\* A page whose frames and rows are those of containers below n; 0 is a heading's.
SoundFrames(p, n) ==
  /\ \A a, b \in 1..Len(p.frames) : p.frames[a].id = p.frames[b].id => a = b
  /\ \A a \in 1..Len(p.frames) : p.frames[a].id < n
  /\ \A a \in 1..Len(p.frames) :
       p.frames[a].id # 0 => /\ Running(p.rows, p.frames[a].id)
                             /\ p.frames[a].used <=> Spoken(p.rows, p.frames[a].id)
SoundRows(p, n) ==
  /\ \A i \in 1..Len(p.rows) : \A k \in 1..Len(p.rows[i].prefix) : p.rows[i].prefix[k].frame < n
  /\ \A id \in 1..(n - 1) : Tidy(p.rows, id)
SoundPage(p, n) == p \in WalkPages /\ SoundFrames(p, n) /\ SoundRows(p, n)

AllUsed(p) == \A a \in 1..Len(p.frames) : p.frames[a].used

\* Whether what is written next may be a paragraph of the innermost container.
Ready(p) ==
  p.frames # << >> /\ p.frames[Len(p.frames)].id # 0 /\ ~p.frames[Len(p.frames)].used =>
    ~p.gap /\ Untouched(p.rows, p.frames[Len(p.frames)].id)

\* One page is another with more rows; with the same frames, which those rows bear.
Extends(q, p) ==
  Len(p.rows) <= Len(q.rows) /\ \A i \in 1..Len(p.rows) : q.rows[i] = p.rows[i]
SameFrames(q, p) ==
  /\ Len(q.frames) = Len(p.frames)
  /\ \A a \in 1..Len(p.frames) : q.frames[a].id = p.frames[a].id
BearsAll(q, p) ==
  \A i \in (Len(p.rows) + 1)..Len(q.rows), a \in 1..Len(p.frames) :
    Bears(q.rows[i], p.frames[a].id)
Carries(q, p) == Extends(q, p) /\ SameFrames(q, p) /\ BearsAll(q, p)

-----------------------------------------------------------------------------
(* The walk.                                                               *)

Framed == {"quote", "item", "note", "definition"}

WalkTyped ==
  /\ open \in Seq(Containers) /\ nextFrame \in Nat \ {0}
  /\ toc \in Seq(Nat) /\ spans \in Seq(BlockSpans)

\* Containers are numbered as they are entered.
Nested ==
  /\ \A i, j \in 1..Len(open) : i < j => open[i].id < open[j].id
  /\ \A j \in 1..Len(open) : /\ open[j].id \in 1..(nextFrame - 1)
                             /\ open[j].before <= Len(walked.rows)
  /\ \A j \in 1..Len(open) : open[j].kind = "item" => j > 1 /\ open[j - 1].kind = "list"

\* The frames are those of the containers that have one, in order.
FramesMatch ==
  /\ \A a, b \in 1..Len(walked.frames) : a < b => walked.frames[a].id < walked.frames[b].id
  /\ \A a \in 1..Len(walked.frames) :
       \E j \in 1..Len(open) : open[j].id = walked.frames[a].id /\ open[j].kind \in Framed
  /\ \A j \in 1..Len(open) :
       open[j].kind \in Framed => \E a \in 1..Len(walked.frames) : walked.frames[a].id = open[j].id

\* What was written since a container was entered bears the frames around it.
Enclosed ==
  \A j \in 1..Len(open), a \in 1..Len(walked.frames) :
    walked.frames[a].id < open[j].id =>
      \A i \in (open[j].before + 1)..Len(walked.rows) : Bears(walked.rows[i], walked.frames[a].id)

\* Where a block may come, a container that says nothing yet has no rows.
NothingAbove ==
  (open = << >> \/ open[Len(open)].kind \notin {"list", "definitions"}) => Ready(walked)

\* The rows that are indexed: those of the blocks that are over.
Indexable == IF open = << >> THEN Len(walked.rows) ELSE open[1].before
SpansFit(ss, rows, d) ==
  /\ \A a, b \in 1..Len(ss) : a < b => ss[a].first + ss[a].count <= ss[b].first
  /\ \A k \in 1..Len(ss) : /\ ss[k].first \in 1..d /\ ss[k].first + ss[k].count <= d + 1
                           /\ ~IsBlankRow(rows[ss[k].first])
  /\ \A i \in 1..d : \/ IsBlankRow(rows[i])
                     \/ \E k \in 1..Len(ss) : i \in ss[k].first..(ss[k].first + ss[k].count - 1)
TocFits(ts, rows) ==
  \A k \in 1..Len(ts) : ts[k] \in 1..Len(rows) /\ rows[ts[k]].kind = "heading"

WalkInside ==
  /\ WalkTyped /\ SoundPage(walked, nextFrame)
  /\ Nested /\ FramesMatch /\ Enclosed /\ NothingAbove
WalkIndexed == SpansFit(spans, walked.rows, Indexable) /\ TocFits(toc, walked.rows)
WalkHolds == WalkInside /\ WalkIndexed

-----------------------------------------------------------------------------
(* One more row.                                                           *)

\* What a row more does to what is said in a container.
LEMMA SpokenLonger ==
  ASSUME NEW rows, NEW row, NEW more, Longer(more, rows, row), NEW id
  PROVE  /\ Spoken(more, id) <=> Spoken(rows, id) \/ Speaks(row, id)
         /\ \A i \in 1..Len(rows) : FirstWord(more, id, i) <=> FirstWord(rows, id, i)
         /\ FirstWord(more, id, Len(rows) + 1) <=> Speaks(row, id) /\ ~Spoken(rows, id)
<1> DEFINE l == Len(rows)
<1>1. /\ l \in Nat /\ Len(more) = l + 1 /\ more[l + 1] = row
      /\ \A i \in 1..l : more[i] = rows[i]
  BY DEF Longer
<1>2. /\ \A i \in 1..(l + 1) : i \in 1..l \/ i = l + 1
      /\ \A i \in 1..l : i \in 1..(l + 1) /\ i <= l + 1 /\ ~(l + 1 <= i)
      /\ l + 1 \in 1..(l + 1) /\ l + 1 <= l + 1
  BY <1>1
<1> HIDE DEF l
<1>3. Spoken(more, id) <=> Spoken(rows, id) \/ Speaks(row, id)
  BY <1>1, <1>2 DEF Spoken, l
<1>4. ASSUME NEW i \in 1..l PROVE FirstWord(more, id, i) <=> FirstWord(rows, id, i)
  BY <1>1, <1>2 DEF FirstWord, l
<1>5. FirstWord(more, id, l + 1) <=> Speaks(row, id) /\ ~Spoken(rows, id)
  BY <1>1, <1>2 DEF FirstWord, Spoken, l
<1> QED BY <1>3, <1>4, <1>5 DEF l

\* A row of other containers changes nothing for one.
LEMMA TidyElsewhere ==
  ASSUME NEW rows, NEW row, NEW more, Longer(more, rows, row), NEW id, Tidy(rows, id),
         ~Bears(row, id)
  PROVE  Tidy(more, id)
<1> DEFINE l == Len(rows)
<1>1. /\ l \in Nat /\ Len(more) = l + 1 /\ more[l + 1] = row
      /\ \A i \in 1..l : more[i] = rows[i]
  BY DEF Longer
<1>2. /\ \A i \in 1..l : FirstWord(more, id, i) <=> FirstWord(rows, id, i)
  BY SpokenLonger DEF l
<1>3. /\ \A i \in 1..(l + 1) : i \in 1..l \/ i = l + 1
      /\ \A i \in 1..l : ~(l + 1 <= i)
  BY <1>1
<1>4. ~Bears(more[l + 1], id)
  BY <1>1
<1> HIDE DEF l
<1>5. TidyMarks(more, id)
  BY <1>1, <1>2, <1>3, <1>4 DEF TidyMarks, Tidy, l
<1>6. TidyBars(more, id)
  <2> SUFFICES ASSUME NEW i \in 1..Len(more), NEW j \in 1..Len(more), NEW m \in 1..Len(more),
                      i <= m, m <= j, Bears(more[i], id), Bears(more[j], id)
               PROVE  Bears(more[m], id)
    BY DEF TidyBars
  <2>1. i \in 1..l /\ j \in 1..l /\ m \in 1..l
    BY <1>1, <1>3, <1>4
  <2> QED BY <1>1, <2>1 DEF Tidy, TidyBars, l
<1>7. TidyHead(more, id)
  <2> SUFFICES ASSUME NEW i \in 1..Len(more), NEW j \in 1..Len(more), FirstWord(more, id, i),
                      Narrates(more[i], id), Bears(more[j], id)
               PROVE  i <= j
    BY DEF TidyHead
  <2>1. i \in 1..l /\ j \in 1..l
    BY <1>1, <1>3, <1>4 DEF FirstWord, Speaks
  <2> QED BY <1>1, <1>2, <2>1 DEF Tidy, TidyHead, l
<1> QED BY <1>5, <1>6, <1>7 DEF Tidy

\* A row of a container that is open: one that says nothing has no marker, and one that
\* does has it exactly if it is the first.
Fits(rows, row, id) ==
  /\ Bears(row, id)
  /\ row.kind = "gap" => ~Marks(row, id)
  /\ row.kind # "gap" => (Marks(row, id) <=> ~Spoken(rows, id))
  /\ row.kind # "gap" /\ Narrates(row, id) /\ ~Spoken(rows, id) => Untouched(rows, id)

LEMMA TidyOn ==
  ASSUME NEW rows, NEW row, NEW more, Longer(more, rows, row), NEW id, Tidy(rows, id),
         Running(rows, id), Fits(rows, row, id)
  PROVE  Tidy(more, id) /\ Running(more, id)
<1> DEFINE l == Len(rows)
<1>1. /\ l \in Nat /\ Len(more) = l + 1 /\ more[l + 1] = row
      /\ \A i \in 1..l : more[i] = rows[i]
  BY DEF Longer
<1>2. /\ \A i \in 1..l : FirstWord(more, id, i) <=> FirstWord(rows, id, i)
      /\ FirstWord(more, id, l + 1) <=> Speaks(row, id) /\ ~Spoken(rows, id)
  BY SpokenLonger DEF l
<1>3. /\ \A i \in 1..(l + 1) : i \in 1..l \/ i = l + 1
      /\ \A i \in 1..l : i <= l + 1 /\ ~(l + 1 <= i)
  BY <1>1
<1>4. Bears(more[l + 1], id)
  BY <1>1 DEF Fits
<1> HIDE DEF l
<1>5. TidyMarks(more, id)
  <2> SUFFICES ASSUME NEW i \in 1..Len(more), Bears(more[i], id)
               PROVE  Marks(more[i], id) <=> FirstWord(more, id, i)
    BY DEF TidyMarks
  <2>1. CASE i \in 1..l
    BY <1>1, <1>2, <2>1 DEF Tidy, TidyMarks, l
  <2>2. CASE i = l + 1
    BY <1>1, <1>2, <2>2 DEF Fits, Speaks
  <2> QED BY <1>1, <1>3, <2>1, <2>2
<1>6. Running(more, id)
  <2> SUFFICES ASSUME NEW i \in 1..Len(more), NEW m \in 1..Len(more), i <= m, Bears(more[i], id)
               PROVE  Bears(more[m], id)
    BY DEF Running
  <2>1. CASE m = l + 1
    BY <1>4, <2>1
  <2>2. CASE m \in 1..l
    BY <1>1, <1>3, <2>2 DEF Running, l
  <2> QED BY <1>1, <1>3, <2>1, <2>2
<1>7. TidyBars(more, id)
  BY <1>6 DEF TidyBars, Running
<1>8. TidyHead(more, id)
  <2> SUFFICES ASSUME NEW i \in 1..Len(more), NEW j \in 1..Len(more), FirstWord(more, id, i),
                      Narrates(more[i], id), Bears(more[j], id)
               PROVE  i <= j
    BY DEF TidyHead
  <2>1. CASE i \in 1..l
    BY <1>3, <2>1, <1>1, <1>2 DEF Tidy, TidyHead, l
  <2>2. CASE i = l + 1
    BY <1>1, <1>2, <2>2, <1>3 DEF Speaks, Fits, Untouched, l
  <2> QED BY <1>1, <1>3, <2>1, <2>2
<1> QED BY <1>5, <1>6, <1>7, <1>8 DEF Tidy

-----------------------------------------------------------------------------
(* Writing.                                                                *)

\* One page is another with one more row, which all its frames are on; a blank one
\* leaves the markers to come, any other has them.
WritesRow(q, p, row) ==
  /\ p \in WalkPages /\ q \in WalkPages /\ Longer(q.rows, p.rows, row) /\ SameFrames(q, p)
  /\ Len(row.prefix) = Len(p.frames)
  /\ \A k \in 1..Len(p.frames) : row.prefix[k].frame = p.frames[k].id
WritesGap(q, p, row) ==
  /\ WritesRow(q, p, row) /\ row.kind = "gap"
  /\ \A k \in 1..Len(p.frames) : ~row.prefix[k].first /\ (q.frames[k].used <=> p.frames[k].used)
WritesWords(q, p, row) ==
  /\ WritesRow(q, p, row) /\ row.kind # "gap"
  /\ \A k \in 1..Len(p.frames) : (row.prefix[k].first <=> ~p.frames[k].used) /\ q.frames[k].used
  /\ row.kind \in {"text", "bare"} => Ready(p)

\* What the row that is written bears.
LEMMA RowBears ==
  ASSUME NEW n, NEW p, SoundPage(p, n), NEW q, NEW row, WritesRow(q, p, row)
  PROVE  /\ \A id : Bears(row, id) <=> \E a \in 1..Len(p.frames) : p.frames[a].id = id
         /\ \A a \in 1..Len(p.frames) : Marks(row, p.frames[a].id) <=> row.prefix[a].first
<1>1. /\ Len(row.prefix) = Len(p.frames)
      /\ \A k \in 1..Len(p.frames) : row.prefix[k].frame = p.frames[k].id
  BY DEF WritesRow
<1>2. \A a, b \in 1..Len(p.frames) : p.frames[a].id = p.frames[b].id => a = b
  BY DEF SoundPage, SoundFrames
<1>3. \A id : Bears(row, id) <=> \E a \in 1..Len(p.frames) : p.frames[a].id = id
  BY <1>1 DEF Bears
<1>4. \A a \in 1..Len(p.frames) : Marks(row, p.frames[a].id) <=> row.prefix[a].first
  BY <1>1, <1>2 DEF Marks
<1> QED BY <1>3, <1>4

\* A row suits each frame it is on.
LEMMA RowFits ==
  ASSUME NEW n, NEW p, SoundPage(p, n), NEW q, NEW row,
         WritesGap(q, p, row) \/ WritesWords(q, p, row),
         NEW a \in 1..Len(p.frames), p.frames[a].id # 0
  PROVE  Fits(p.rows, row, p.frames[a].id)
<1> DEFINE id == p.frames[a].id
<1>1. WritesRow(q, p, row)
  BY DEF WritesGap, WritesWords
<1>2. Bears(row, id) /\ (Marks(row, id) <=> row.prefix[a].first)
  BY <1>1, RowBears
<1>3. CASE WritesGap(q, p, row)
  BY <1>2, <1>3 DEF WritesGap, Fits
<1>4. CASE WritesWords(q, p, row)
  <2>1. row.kind # "gap" /\ (row.prefix[a].first <=> ~p.frames[a].used)
    BY <1>4 DEF WritesWords
  <2>2. p.frames[a].used <=> Spoken(p.rows, id)
    BY DEF SoundPage, SoundFrames
  <2>3. ASSUME Narrates(row, id), ~Spoken(p.rows, id) PROVE Untouched(p.rows, id)
    <3> DEFINE l == Len(p.frames)
    <3>1. row.kind \in {"text", "bare"} /\ row.prefix[Len(row.prefix)].frame = id
      BY <2>3 DEF Narrates, Last
    <3>2. l \in Nat /\ Len(row.prefix) = l /\ \A k \in 1..l : row.prefix[k].frame = p.frames[k].id
      BY <1>1, LenProperties DEF WritesRow, WalkPages
    <3>3. l \in 1..l
      BY <3>2
    <3>4. p.frames[l].id = id /\ l = a
      BY <3>1, <3>2, <3>3 DEF SoundPage, SoundFrames
    <3>5. Ready(p) /\ p.frames # << >>
      BY <3>3, <1>4, <3>1 DEF WritesWords
    <3> QED BY <2>2, <2>3, <3>4, <3>5 DEF Ready
  <2> QED BY <1>2, <2>1, <2>2, <2>3 DEF Fits
<1> QED BY <1>3, <1>4

LEMMA RowWritten ==
  ASSUME NEW n \in Nat, NEW p, SoundPage(p, n), NEW q, NEW row,
         WritesGap(q, p, row) \/ WritesWords(q, p, row)
  PROVE  SoundPage(q, n) /\ Carries(q, p)
<1> DEFINE l == Len(p.rows)
           f == Len(p.frames)
<1>1. /\ WritesRow(q, p, row) /\ Longer(q.rows, p.rows, row) /\ SameFrames(q, p) /\ q \in WalkPages
      /\ Len(row.prefix) = f /\ \A k \in 1..f : row.prefix[k].frame = p.frames[k].id
  BY DEF WritesGap, WritesWords, WritesRow
<1>2. /\ l \in Nat /\ Len(q.rows) = l + 1 /\ q.rows[l + 1] = row
      /\ \A i \in 1..l : q.rows[i] = p.rows[i]
      /\ Len(q.frames) = f /\ \A a \in 1..f : q.frames[a].id = p.frames[a].id
  BY <1>1 DEF Longer, SameFrames
<1>3. \A i \in 1..(l + 1) : i \in 1..l \/ i = l + 1
  BY <1>2
<1>4. \A id : Bears(row, id) <=> \E a \in 1..f : p.frames[a].id = id
  BY <1>1, RowBears
<1>5. ASSUME NEW a \in 1..f, p.frames[a].id # 0
      PROVE  /\ Running(p.rows, p.frames[a].id) /\ Fits(p.rows, row, p.frames[a].id)
             /\ p.frames[a].used <=> Spoken(p.rows, p.frames[a].id)
  BY <1>5, RowFits DEF SoundPage, SoundFrames
<1>6. ASSUME NEW a \in 1..f PROVE p.frames[a].id \in Nat /\ p.frames[a].id < n
  <2>1. p.frames \in Seq(WalkFrames)
    BY DEF SoundPage, WalkPages
  <2>2. p.frames[a] \in WalkFrames
    BY <2>1, ElementOfSeq
  <2> QED BY <2>2 DEF SoundPage, SoundFrames, WalkFrames
<1>7. ASSUME NEW id \in 1..(n - 1) PROVE Tidy(q.rows, id)
  BY <1>1, TidyElsewhere, <1>4, <1>5, TidyOn DEF SoundPage, SoundRows
<1>8. SoundRows(q, n)
  <2>1. ASSUME NEW i \in 1..(l + 1), NEW k \in 1..Len(q.rows[i].prefix)
        PROVE  q.rows[i].prefix[k].frame < n
    <3>1. CASE i = l + 1
      BY <1>1, <1>2, <1>6, <3>1
    <3>2. CASE i \in 1..l
      BY <1>2, <3>2 DEF SoundPage, SoundRows
    <3> QED BY <1>3, <3>1, <3>2
  <2> QED BY <1>2, <1>7, <2>1 DEF SoundRows
<1>9. ASSUME NEW a \in 1..f, q.frames[a].id # 0
      PROVE  /\ Running(q.rows, q.frames[a].id)
             /\ q.frames[a].used <=> Spoken(q.rows, q.frames[a].id)
  <2> DEFINE id == p.frames[a].id
  <2>1. q.frames[a].id = id /\ id # 0 /\ id \in 1..(n - 1)
    BY <1>2, <1>6, <1>9
  <2>2. Running(p.rows, id) /\ Fits(p.rows, row, id) /\ Tidy(p.rows, id)
    BY <1>5, <2>1 DEF SoundPage, SoundRows
  <2>3. Running(q.rows, id)
    BY <1>1, <2>2, TidyOn
  <2>4. Spoken(q.rows, id) <=> Spoken(p.rows, id) \/ Speaks(row, id)
    BY <1>1, SpokenLonger
  <2>5. Bears(row, id)
    BY <2>2 DEF Fits
  <2>6. p.frames[a].used <=> Spoken(p.rows, id)
    BY <1>5, <2>1
  <2>7. q.frames[a].used <=> Spoken(q.rows, id)
    BY <2>4, <2>6, <2>5 DEF WritesGap, Speaks, WritesWords
  <2> QED BY <2>1, <2>3, <2>7
<1>10. SoundFrames(q, n)
  BY <1>2, <1>6, <1>9 DEF SoundPage, SoundFrames
<1>11. Carries(q, p)
  BY <1>2, <1>4, <1>1 DEF Extends, BearsAll, Carries
<1> QED BY <1>1, <1>8, <1>10, <1>11 DEF SoundPage

\* What is written after what was written.
LEMMA CarriesOn ==
  ASSUME NEW p, NEW m, NEW q, Carries(m, p), Carries(q, m),
         Len(p.rows) \in Nat, Len(m.rows) \in Nat, Len(q.rows) \in Nat
  PROVE  Carries(q, p)
<1> USE DEF Carries
<1>1. Extends(q, p)
  BY DEF Extends
<1>2. SameFrames(q, p)
  BY DEF SameFrames
<1>3. ASSUME NEW i \in (Len(p.rows) + 1)..Len(q.rows), NEW a \in 1..Len(p.frames)
      PROVE  Bears(q.rows[i], p.frames[a].id)
  BY DEF SameFrames, BearsAll, Extends
<1> QED BY <1>1, <1>2, <1>3 DEF BearsAll

\* What is in a page.
LEMMA PageParts ==
  ASSUME NEW p \in WalkPages
  PROVE  /\ p.rows \in Seq(WalkRows) /\ p.frames \in Seq(WalkFrames)
         /\ p.gap \in BOOLEAN /\ p.tight \in BOOLEAN
         /\ Len(p.rows) \in Nat /\ DOMAIN p.rows = 1..Len(p.rows)
         /\ \A i \in 1..Len(p.rows) : /\ p.rows[i] \in WalkRows /\ p.rows[i].kind \in RowKinds
                                      /\ p.rows[i].prefix \in Seq(PrefixParts)
                                      /\ Len(p.rows[i].prefix) \in Nat
                                      /\ DOMAIN p.rows[i].prefix = 1..Len(p.rows[i].prefix)
         /\ Len(p.frames) \in Nat /\ DOMAIN p.frames = 1..Len(p.frames)
         /\ \A a \in 1..Len(p.frames) : /\ p.frames[a] \in WalkFrames /\ p.frames[a].id \in Nat
                                        /\ p.frames[a].kind \in FrameKinds
                                        /\ p.frames[a].used \in BOOLEAN
<1>1. /\ p.rows \in Seq(WalkRows) /\ p.frames \in Seq(WalkFrames)
      /\ p.gap \in BOOLEAN /\ p.tight \in BOOLEAN
  BY DEF WalkPages
<1>2. /\ Len(p.rows) \in Nat /\ DOMAIN p.rows = 1..Len(p.rows)
      /\ Len(p.frames) \in Nat /\ DOMAIN p.frames = 1..Len(p.frames)
  BY <1>1, LenProperties
<1>3. ASSUME NEW i \in 1..Len(p.rows)
      PROVE  /\ p.rows[i] \in WalkRows /\ p.rows[i].kind \in RowKinds
             /\ p.rows[i].prefix \in Seq(PrefixParts) /\ Len(p.rows[i].prefix) \in Nat
             /\ DOMAIN p.rows[i].prefix = 1..Len(p.rows[i].prefix)
  <2>1. p.rows[i] \in WalkRows
    BY <1>1, ElementOfSeq
  <2>2. p.rows[i].kind \in RowKinds /\ p.rows[i].prefix \in Seq(PrefixParts)
    BY <2>1 DEF WalkRows
  <2> QED BY <2>1, <2>2, LenProperties
<1>4. ASSUME NEW a \in 1..Len(p.frames)
      PROVE  /\ p.frames[a] \in WalkFrames /\ p.frames[a].id \in Nat
             /\ p.frames[a].kind \in FrameKinds /\ p.frames[a].used \in BOOLEAN
  <2>1. p.frames[a] \in WalkFrames
    BY <1>1, ElementOfSeq
  <2> QED BY <2>1 DEF WalkFrames
<1> QED BY <1>1, <1>2, <1>3, <1>4

LEMMA PrefixParted ==
  ASSUME NEW p \in WalkPages
  PROVE  /\ PrefixForGap(p) \in Seq(PrefixParts) /\ Prefix(p) \in Seq(PrefixParts)
         /\ Len(PrefixForGap(p)) = Len(p.frames) /\ Len(Prefix(p)) = Len(p.frames)
         /\ \A k \in 1..Len(p.frames) :
              /\ PrefixForGap(p)[k].frame = p.frames[k].id /\ ~PrefixForGap(p)[k].first
              /\ Prefix(p)[k].frame = p.frames[k].id
              /\ Prefix(p)[k].first <=> ~p.frames[k].used
<1> DEFINE n == Len(p.frames)
           GapPart(i) == [frame |-> p.frames[i].id, kind |-> p.frames[i].kind, first |-> FALSE]
           Part(i) == [frame |-> p.frames[i].id, kind |-> p.frames[i].kind,
                       first |-> ~p.frames[i].used]
<1>1. n \in Nat /\ DOMAIN p.frames = 1..n
  BY PageParts
<1>2. ASSUME NEW i \in 1..n PROVE GapPart(i) \in PrefixParts /\ Part(i) \in PrefixParts
  BY PageParts DEF PrefixParts
<1>3. PrefixForGap(p) = [i \in 1..n |-> GapPart(i)] /\ Prefix(p) = [i \in 1..n |-> Part(i)]
  BY <1>1 DEF PrefixForGap, Prefix
<1>4. /\ PrefixForGap(p) \in Seq(PrefixParts) /\ Prefix(p) \in Seq(PrefixParts)
      /\ Len(PrefixForGap(p)) = n /\ Len(Prefix(p)) = n
      /\ \A k \in 1..n : PrefixForGap(p)[k] = GapPart(k) /\ Prefix(p)[k] = Part(k)
  <2> HIDE DEF n, GapPart, Part
  <2>1. /\ [i \in 1..n |-> GapPart(i)] \in Seq(PrefixParts)
        /\ [i \in 1..n |-> Part(i)] \in Seq(PrefixParts)
    BY <1>1, <1>2, SeqDef
  <2>2. Len([i \in 1..n |-> GapPart(i)]) = n /\ Len([i \in 1..n |-> Part(i)]) = n
    BY <1>1, <2>1, LenOfDomain
  <2> QED BY <1>3, <2>1, <2>2
<1>5. ASSUME NEW k \in 1..n
      PROVE  /\ PrefixForGap(p)[k].frame = p.frames[k].id /\ ~PrefixForGap(p)[k].first
             /\ Prefix(p)[k].frame = p.frames[k].id
             /\ Prefix(p)[k].first <=> ~p.frames[k].used
  <2>1. PrefixForGap(p)[k] = GapPart(k) /\ Prefix(p)[k] = Part(k)
    BY <1>4
  <2>2. p.frames[k].used \in BOOLEAN
    BY PageParts
  <2>3. PrefixForGap(p)[k].frame = p.frames[k].id /\ PrefixForGap(p)[k].first = FALSE
    BY <2>1
  <2>4. Prefix(p)[k].frame = p.frames[k].id /\ Prefix(p)[k].first = ~p.frames[k].used
    BY <2>1
  <2> QED BY <2>2, <2>3, <2>4
<1> HIDE DEF GapPart, Part
<1> QED BY <1>4, <1>5

\* The blank row that was asked for is written.
Flushed(q, p, n) ==
  /\ SoundPage(q, n) /\ Carries(q, p) /\ q.frames = p.frames
  /\ ~q.gap /\ q.tight = p.tight
  /\ ~p.gap => q = p
  /\ p.gap => /\ Len(q.rows) = Len(p.rows) + 1
              /\ q.rows[Len(p.rows) + 1] = [kind |-> "gap", prefix |-> PrefixForGap(p)]

LEMMA GapFlushed ==
  ASSUME NEW n \in Nat, NEW p, SoundPage(p, n)
  PROVE  Flushed(FlushGap(p), p, n)
<1> DEFINE q == FlushGap(p)
<1>1. p \in WalkPages
  BY DEF SoundPage
<1>2. CASE ~p.gap
  BY <1>2, <1>1, PageParts DEF FlushGap, Carries, Extends, SameFrames, BearsAll, Flushed, q
<1>3. CASE p.gap
  <2> DEFINE row == [kind |-> "gap", prefix |-> PrefixForGap(p)]
             more == Append(p.rows, row)
  <2>1. row \in WalkRows
    BY <1>1, PrefixParted DEF WalkRows, RowKinds
  <2>2. q = [p EXCEPT !.gap = FALSE, !.rows = Append(@, row)]
    BY <1>3 DEF FlushGap
  <2>3. more \in Seq(WalkRows) /\ Longer(more, p.rows, row)
    BY <1>1, <2>1, AppendIsLonger, PageParts
  <2>4. row.kind = "gap" /\ row.prefix = PrefixForGap(p)
    OBVIOUS
  <2> HIDE DEF row, q
  <2>5. /\ q \in WalkPages /\ q.rows = more /\ q.frames = p.frames /\ q.gap = FALSE
        /\ q.tight = p.tight
    BY <1>1, <2>2, <2>3 DEF WalkPages, more
  <2>6. SameFrames(q, p)
    BY <2>5 DEF SameFrames
  <2>7. WritesRow(q, p, row)
    BY <1>1, <2>3, <2>4, <2>5, <2>6, PrefixParted DEF WritesRow
  <2>8. WritesGap(q, p, row)
    BY <1>1, <2>4, <2>5, <2>7, PrefixParted DEF WritesGap
  <2>9. SoundPage(q, n) /\ Carries(q, p)
    BY <2>8, RowWritten
  <2>10. /\ Len(q.rows) = Len(p.rows) + 1
         /\ q.rows[Len(p.rows) + 1] = [kind |-> "gap", prefix |-> PrefixForGap(p)]
    BY <2>3, <2>5 DEF row, Longer
  <2>11. Flushed(q, p, n)
    BY <1>3, <2>5, <2>9, <2>10 DEF Flushed
  <2> QED BY <2>11 DEF q
<1> QED BY <1>2, <1>3, <1>1, PageParts

\* A row of some words is written, a blank one above it if it was asked for.
Emitted(q, p, kind, n) ==
  /\ SoundPage(q, n) /\ Carries(q, p) /\ AllUsed(q)
  /\ ~q.gap /\ q.tight = p.tight
  /\ Len(q.rows) = Len(p.rows) + (IF p.gap THEN 2 ELSE 1)
  /\ q.rows[Len(q.rows)].kind = kind
MayEmit(p, kind) == kind \in RowKinds \ {"gap"} /\ (kind \in {"text", "bare"} => Ready(p))

LEMMA RowEmitted ==
  ASSUME NEW n \in Nat, NEW p, SoundPage(p, n), NEW kind, MayEmit(p, kind)
  PROVE  Emitted(Emit(p, kind), p, kind, n)
<1> DEFINE q == Emit(p, kind)
           m == FlushGap(p)
           row == [kind |-> kind, prefix |-> Prefix(m)]
           more == Append(m.rows, row)
           spent == [i \in DOMAIN m.frames |-> [m.frames[i] EXCEPT !.used = TRUE]]
<1>1. p \in WalkPages /\ m \in WalkPages /\ SoundPage(m, n)
  BY GapFlushed DEF Flushed, SoundPage
<1>2. /\ Carries(m, p) /\ m.frames = p.frames /\ ~m.gap /\ m.tight = p.tight
      /\ ~p.gap => m = p
      /\ Len(m.rows) = Len(p.rows) + (IF p.gap THEN 1 ELSE 0)
  <2>1. Len(p.rows) \in Nat
    BY <1>1, PageParts
  <2>2. /\ Carries(m, p) /\ m.frames = p.frames /\ ~m.gap /\ m.tight = p.tight
        /\ ~p.gap => m = p
        /\ p.gap => Len(m.rows) = Len(p.rows) + 1
    BY GapFlushed DEF Flushed
  <2> HIDE DEF m
  <2>3. CASE p.gap
    BY <2>1, <2>2, <2>3
  <2>4. CASE ~p.gap
    BY <2>1, <2>2, <2>4
  <2> QED BY <2>3, <2>4
<1>3. q = [m EXCEPT !.rows = Append(@, row),
                    !.frames = [i \in DOMAIN @ |-> [@[i] EXCEPT !.used = TRUE]]]
  BY DEF Emit
<1> HIDE DEF q
<1> HIDE DEF m
<1>4. row \in WalkRows /\ row.kind = kind /\ row.prefix = Prefix(m)
  BY <1>1, PrefixParted DEF WalkRows, MayEmit
<1>5. more \in Seq(WalkRows) /\ Longer(more, m.rows, row)
  BY <1>1, <1>4, AppendIsLonger, PageParts
<1>6. /\ spent \in Seq(WalkFrames) /\ Len(spent) = Len(m.frames)
      /\ \A a \in 1..Len(m.frames) : spent[a].id = m.frames[a].id /\ spent[a].used
  <2> DEFINE l == Len(m.frames)
             Spend(i) == [m.frames[i] EXCEPT !.used = TRUE]
  <2>1. l \in Nat /\ DOMAIN m.frames = 1..l
    BY <1>1, PageParts
  <2>2. ASSUME NEW i \in 1..l
        PROVE  Spend(i) \in WalkFrames /\ Spend(i).id = m.frames[i].id /\ Spend(i).used
    BY <1>1, PageParts DEF WalkFrames
  <2>3. spent = [i \in 1..l |-> Spend(i)]
    BY <2>1
  <2> HIDE DEF l, Spend, spent
  <2>4. spent \in Seq(WalkFrames)
    BY <2>1, <2>2, <2>3, SeqDef
  <2>5. Len(spent) = l
    BY <2>1, <2>3, <2>4, LenOfDomain
  <2> QED BY <2>2, <2>3, <2>4, <2>5 DEF l
<1>7. /\ q \in WalkPages /\ q.rows = more /\ q.frames = spent /\ q.gap = m.gap
      /\ q.tight = m.tight
  BY <1>1, <1>3, <1>5, <1>6 DEF WalkPages, more, spent
<1>8. SameFrames(q, m)
  BY <1>6, <1>7 DEF SameFrames
<1> HIDE DEF row, more, spent
<1>9. WritesRow(q, m, row)
  BY <1>1, <1>4, <1>5, <1>7, <1>8, PrefixParted DEF WritesRow
<1>10. row.kind \in {"text", "bare"} => Ready(m)
  BY <1>2, <1>4 DEF MayEmit, Ready
<1>11. WritesWords(q, m, row)
  BY <1>4, <1>1, <1>6, <1>7, <1>9, <1>10, PrefixParted DEF MayEmit, WritesWords
<1>12. SoundPage(q, n) /\ Carries(q, m)
  BY <1>1, <1>11, RowWritten
<1>13. AllUsed(q)
  BY <1>6, <1>7 DEF AllUsed
<1>14. /\ Len(q.rows) = Len(m.rows) + 1 /\ q.rows[Len(q.rows)].kind = kind
       /\ Len(m.rows) \in Nat /\ Len(p.rows) \in Nat
  BY <1>1, <1>4, <1>5, <1>7, PageParts DEF Longer
<1>15. Carries(q, p)
  BY <1>2, <1>12, <1>14, CarriesOn
<1>16. Len(q.rows) = Len(p.rows) + (IF p.gap THEN 2 ELSE 1)
  <2>1. CASE p.gap
    BY <1>2, <1>14, <2>1
  <2>2. CASE ~p.gap
    BY <1>2, <1>14, <2>2
  <2> QED BY <2>1, <2>2
<1> QED BY <1>2, <1>7, <1>12, <1>13, <1>14, <1>15, <1>16 DEF Emitted, q

\* Any number of rows of some words: all pages on the way are sound.
RowsEmitted(q, p, kind, n) ==
  /\ SoundPage(q, n) /\ Carries(q, p) /\ AllUsed(q) /\ ~q.gap /\ q.tight = p.tight
  /\ Len(q.rows) > Len(p.rows) /\ q.rows[Len(q.rows)].kind = kind
  /\ ~p.gap => q.rows[Len(p.rows) + 1].kind = kind

LEMMA FirstEmitted ==
  ASSUME NEW n \in Nat, NEW p, SoundPage(p, n), NEW kind, MayEmit(p, kind)
  PROVE  RowsEmitted(Emit(p, kind), p, kind, n)
<1> DEFINE q == Emit(p, kind)
<1>1. Emitted(q, p, kind, n)
  BY RowEmitted
<1> HIDE DEF q
<1>2. /\ SoundPage(q, n) /\ Carries(q, p) /\ AllUsed(q) /\ ~q.gap /\ q.tight = p.tight
      /\ Len(q.rows) = Len(p.rows) + (IF p.gap THEN 2 ELSE 1)
      /\ q.rows[Len(q.rows)].kind = kind
  BY <1>1 DEF Emitted
<1>3. Len(p.rows) \in Nat
  BY PageParts DEF SoundPage
<1>4. CASE p.gap
  BY <1>2, <1>4, <1>3 DEF RowsEmitted, q
<1>5. CASE ~p.gap
  BY <1>2, <1>5, <1>3 DEF RowsEmitted, q
<1> QED BY <1>4, <1>5

\* A row after others.
LEMMA NextEmitted ==
  ASSUME NEW n \in Nat, NEW p, SoundPage(p, n), NEW kind, MayEmit(p, kind),
         NEW m, RowsEmitted(m, p, kind, n)
  PROVE  RowsEmitted(Emit(m, kind), p, kind, n)
<1> DEFINE q == Emit(m, kind)
<1>1. /\ SoundPage(m, n) /\ Carries(m, p) /\ AllUsed(m) /\ ~m.gap /\ m.tight = p.tight
      /\ Len(m.rows) > Len(p.rows) /\ (~p.gap => m.rows[Len(p.rows) + 1].kind = kind)
  BY DEF RowsEmitted
<1>2. MayEmit(m, kind)
  <2>1. Ready(m)
    <3>1. Len(m.frames) \in Nat /\ (m.frames # << >> => Len(m.frames) # 0)
      <4>1. m.frames \in Seq(WalkFrames)
        BY <1>1, PageParts DEF SoundPage
      <4> QED BY <4>1, LenProperties, EmptySeq
    <3> QED BY <1>1, <3>1 DEF Ready, AllUsed
  <2> QED BY <2>1 DEF MayEmit
<1>3. RowsEmitted(q, m, kind, n)
  BY <1>1, <1>2, FirstEmitted
<1> HIDE DEF q
<1>4. /\ SoundPage(q, n) /\ Carries(q, m) /\ AllUsed(q) /\ ~q.gap /\ q.tight = m.tight
      /\ Len(q.rows) > Len(m.rows) /\ q.rows[Len(q.rows)].kind = kind
  BY <1>3 DEF RowsEmitted
<1>5. Len(p.rows) \in Nat /\ Len(m.rows) \in Nat /\ Len(q.rows) \in Nat
  BY <1>1, <1>4, PageParts DEF SoundPage
<1>6. Carries(q, p)
  BY <1>1, <1>4, <1>5, CarriesOn
<1>7. Len(q.rows) > Len(p.rows)
  BY <1>1, <1>4, <1>5
<1>8. ~p.gap => q.rows[Len(p.rows) + 1].kind = kind
  <2>1. Len(p.rows) + 1 \in 1..Len(m.rows)
    BY <1>1, <1>5
  <2> QED BY <1>1, <1>4, <2>1 DEF Carries, Extends
<1>9. RowsEmitted(q, p, kind, n)
  BY <1>1, <1>4, <1>6, <1>7, <1>8 DEF RowsEmitted
<1> QED BY <1>9 DEF q

LEMMA ManyEmitted ==
  ASSUME NEW n \in Nat, NEW p, SoundPage(p, n), NEW kind, MayEmit(p, kind), NEW l \in Nat \ {0}
  PROVE  RowsEmitted(EmitRows(p, kind, l), p, kind, n)
<1> DEFINE V == {p} \union {q \in WalkPages : RowsEmitted(q, p, kind, n)}
           step == [x \in V \X (1..l) |-> Emit(x[1], kind)]
           Rec(f) == f = [i \in 0..l |-> IF i = 0 THEN p ELSE Emit(f[i - 1], kind)]
           emitted == CHOOSE f : Rec(f)
<1>1. ASSUME NEW q \in V
      PROVE  /\ Emit(q, kind) \in V /\ Emit(q, kind) \in WalkPages
             /\ RowsEmitted(Emit(q, kind), p, kind, n)
  BY FirstEmitted, NextEmitted DEF RowsEmitted, SoundPage
<1>2. step \in [V \X (1..l) -> V]
  BY <1>1
<1>3. PICK f : Solves(f, V, p, l, step)
  BY <1>2, RecursionExists
<1>4. f \in [0..l -> V] /\ f[0] = p /\ \A i \in 1..l : f[i] = step[<<f[i - 1], i>>]
  BY <1>3 DEF Solves
<1>5. ASSUME NEW i \in 1..l PROVE f[i] = Emit(f[i - 1], kind) /\ f[i - 1] \in V
  <2>1. i - 1 \in 0..l
    OBVIOUS
  <2> HIDE DEF V
  <2>2. f[i - 1] \in V
    BY <1>4, <2>1
  <2>3. f[i] = step[<<f[i - 1], i>>]
    BY <1>4
  <2>4. <<f[i - 1], i>> \in V \X (1..l)
    BY <2>2
  <2> QED BY <2>2, <2>3, <2>4
<1>6. Rec(f)
  BY <1>4, <1>5
<1>7. Rec(emitted)
  BY <1>6
<1>8. EmitRows(p, kind, l) = emitted[l]
  BY DEF EmitRows
<1> HIDE DEF emitted
<1>9. emitted[0] = p /\ \A i \in 1..l : emitted[i] = Emit(emitted[i - 1], kind)
  BY <1>7
<1> HIDE DEF V
<1> DEFINE Bad == {i \in 0..l : emitted[i] \notin V}
<1>10. ASSUME Bad # {} PROVE FALSE
  <2>1. PICK i \in Bad : \A j \in Bad : i <= j
    <3>1. Bad \in SUBSET Nat
      OBVIOUS
    <3> HIDE DEF Bad
    <3> QED BY <1>10, <3>1, NatLeast
  <2>2. i # 0
    BY <1>9, <2>1 DEF V
  <2>3. i \in 1..l /\ i - 1 \in 0..l /\ ~(i <= i - 1)
    BY <2>1, <2>2
  <2>4. emitted[i - 1] \in V
    BY <2>1, <2>3
  <2>5. emitted[i] = Emit(emitted[i - 1], kind)
    BY <1>9, <2>3
  <2> QED BY <1>1, <2>1, <2>4, <2>5
<1>11. l \in 1..l /\ l - 1 \in 0..l
  OBVIOUS
<1>12. emitted[l - 1] \in V /\ emitted[l] = Emit(emitted[l - 1], kind)
  BY <1>9, <1>10, <1>11
<1> QED BY <1>1, <1>8, <1>12

-----------------------------------------------------------------------------
(* What is asked for, and the frames.                                      *)

\* A page with the same rows and frames.
Retouched(q, p) == q \in WalkPages /\ q.rows = p.rows /\ q.frames = p.frames

LEMMA StillSound ==
  ASSUME NEW n, NEW p, SoundPage(p, n), NEW q, Retouched(q, p)
  PROVE  SoundPage(q, n) /\ Carries(q, p) /\ (AllUsed(p) => AllUsed(q))
<1>1. q \in WalkPages /\ q.rows = p.rows /\ q.frames = p.frames
  BY DEF Retouched
<1>2. Len(p.rows) \in Nat
  BY PageParts DEF SoundPage
<1>3. SoundPage(q, n)
  BY <1>1 DEF SoundPage, SoundFrames, SoundRows
<1>4. Carries(q, p)
  BY <1>1, <1>2 DEF Carries, Extends, SameFrames, BearsAll
<1> QED BY <1>1, <1>3, <1>4 DEF AllUsed

LEMMA Retouches ==
  ASSUME NEW p \in WalkPages
  PROVE  /\ Retouched(HardGap(p), p) /\ HardGap(p).tight = p.tight
         /\ Retouched(Gap(p), p) /\ Gap(p).tight = p.tight
         /\ \A b \in BOOLEAN : /\ Retouched([p EXCEPT !.tight = b], p)
                               /\ [p EXCEPT !.tight = b].gap = p.gap
         /\ Retouched([p EXCEPT !.gap = FALSE], p) /\ ~[p EXCEPT !.gap = FALSE].gap
<1>1. /\ p.rows \in Seq(WalkRows) /\ p.frames \in Seq(WalkFrames)
      /\ p.gap \in BOOLEAN /\ p.tight \in BOOLEAN
  BY DEF WalkPages
<1>2. ASSUME NEW b \in BOOLEAN
      PROVE  /\ Retouched([p EXCEPT !.gap = b], p) /\ [p EXCEPT !.gap = b].tight = p.tight
             /\ [p EXCEPT !.gap = b].gap = b
             /\ Retouched([p EXCEPT !.tight = b], p) /\ [p EXCEPT !.tight = b].gap = p.gap
  BY <1>1 DEF Retouched, WalkPages
<1>3. Retouched(HardGap(p), p) /\ HardGap(p).tight = p.tight
  BY <1>2 DEF HardGap
<1>4. Retouched(Gap(p), p) /\ Gap(p).tight = p.tight
  BY <1>3 DEF Retouched, Gap
<1>5. ~[p EXCEPT !.gap = FALSE].gap
  BY <1>2
<1> QED BY <1>2, <1>3, <1>4, <1>5

\* What is before the last of a sequence.
LEMMA FrontIs ==
  ASSUME NEW X, NEW s \in Seq(X), s # << >>
  PROVE  /\ Front(s) \in Seq(X) /\ Len(s) \in Nat \ {0} /\ Len(Front(s)) = Len(s) - 1
         /\ \A i \in 1..(Len(s) - 1) : Front(s)[i] = s[i]
         /\ s[Len(s)] \in X
BY AllButLast DEF Front

\* A page without its last frame.
Popped(q, p, n) ==
  /\ SoundPage(q, n) /\ q.rows = p.rows /\ q.gap = p.gap /\ q.tight = p.tight
  /\ Len(q.frames) = Len(p.frames) - 1
  /\ \A a \in 1..(Len(p.frames) - 1) : q.frames[a] = p.frames[a]

LEMMA FramePopped ==
  ASSUME NEW n \in Nat, NEW p, SoundPage(p, n), p.frames # << >>
  PROVE  Popped(Pop(p), p, n)
<1> DEFINE q == Pop(p)
           f == Len(p.frames)
           rest == Front(p.frames)
<1>1. p \in WalkPages /\ p.frames \in Seq(WalkFrames) /\ f \in Nat \ {0}
  BY PageParts, EmptySeq DEF SoundPage
<1>2. rest \in Seq(WalkFrames) /\ Len(rest) = f - 1 /\ \A a \in 1..(f - 1) : rest[a] = p.frames[a]
  BY <1>1, FrontIs
<1>3. q = [p EXCEPT !.frames = rest]
  BY <1>1 DEF Pop, WalkPages
<1> HIDE DEF q, rest
<1>4. /\ q \in WalkPages /\ q.rows = p.rows /\ q.frames = rest /\ q.gap = p.gap
      /\ q.tight = p.tight
  BY <1>1, <1>2, <1>3 DEF WalkPages
<1>5. \A a \in 1..(f - 1) : a \in 1..f
  BY <1>1
<1> HIDE DEF f
<1>6. SoundFrames(q, n)
  BY <1>2, <1>4, <1>5 DEF SoundPage, SoundFrames, f
<1>7. SoundRows(q, n)
  BY <1>4 DEF SoundPage, SoundRows
<1>8. Popped(q, p, n)
  BY <1>2, <1>4, <1>6, <1>7 DEF SoundPage, Popped, f
<1> QED BY <1>8 DEF q

\* A page with a frame more, of a container with the number n or of a heading.
Pushed(q, p, id, n) ==
  /\ SoundPage(q, n + 1) /\ (id = 0 => SoundPage(q, n))
  /\ Extends(q, p) /\ BearsAll(q, p) /\ ~q.gap /\ q.tight = p.tight
  /\ Len(q.frames) = Len(p.frames) + 1
  /\ \A a \in 1..Len(p.frames) : q.frames[a] = p.frames[a]
  /\ q.frames[Len(p.frames) + 1].id = id /\ ~q.frames[Len(p.frames) + 1].used
  /\ id = n => Untouched(q.rows, n)

LEMMA FramePushed ==
  ASSUME NEW n \in Nat \ {0}, NEW p, SoundPage(p, n), NEW id \in {0, n}, NEW kind \in FrameKinds,
         \A a \in 1..Len(p.frames) : p.frames[a].id # 0
  PROVE  Pushed(PushFrame(p, id, kind), p, id, n)
<1> DEFINE q == PushFrame(p, id, kind)
           m == FlushGap(p)
           f == Len(p.frames)
           new == [id |-> id, kind |-> kind, used |-> FALSE]
           more == Append(p.frames, new)
<1>1. /\ SoundPage(m, n) /\ Carries(m, p) /\ m.frames = p.frames /\ ~m.gap /\ m.tight = p.tight
  BY GapFlushed DEF Flushed
<1>2. q = [m EXCEPT !.frames = Append(@, new)]
  BY DEF PushFrame
<1>3. p \in WalkPages /\ m \in WalkPages
  BY <1>1 DEF SoundPage
<1> HIDE DEF m, q
<1>4. new \in WalkFrames /\ new.id = id /\ new.used = FALSE
  BY DEF WalkFrames
<1>5. f \in Nat /\ p.frames \in Seq(WalkFrames)
  BY <1>3, PageParts
<1> HIDE DEF new
<1>6. more \in Seq(WalkFrames) /\ Longer(more, p.frames, new)
  BY <1>4, <1>5, AppendIsLonger
<1>7. /\ Len(more) = f + 1 /\ more[f + 1] = new /\ \A a \in 1..f : more[a] = p.frames[a]
  BY <1>6 DEF Longer
<1> HIDE DEF more
<1>8. q \in WalkPages /\ q.rows = m.rows /\ q.frames = more /\ q.gap = m.gap /\ q.tight = m.tight
  BY <1>1, <1>2, <1>3, <1>6 DEF WalkPages, more
<1>9. \A a \in 1..(f + 1) : a \in 1..f \/ a = f + 1
  BY <1>5
<1>10. Untouched(m.rows, n)
  <2>1. \A i \in 1..Len(m.rows) : \A k \in 1..Len(m.rows[i].prefix) :
          m.rows[i].prefix[k].frame \in Nat /\ m.rows[i].prefix[k].frame < n
    <3> SUFFICES ASSUME NEW i \in 1..Len(m.rows), NEW k \in 1..Len(m.rows[i].prefix)
                 PROVE  m.rows[i].prefix[k].frame \in Nat /\ m.rows[i].prefix[k].frame < n
      OBVIOUS
    <3>1. m.rows[i].prefix \in Seq(PrefixParts)
      BY <1>3, PageParts
    <3>2. m.rows[i].prefix[k] \in PrefixParts
      BY <3>1, ElementOfSeq
    <3> QED BY <1>1, <3>2 DEF PrefixParts, SoundPage, SoundRows
  <2> QED BY <2>1 DEF Untouched, Bears
<1>11. /\ \A a, b \in 1..f : p.frames[a].id = p.frames[b].id => a = b
       /\ \A a \in 1..f : /\ p.frames[a].id \in Nat /\ p.frames[a].id < n /\ p.frames[a].id # 0
                          /\ Running(m.rows, p.frames[a].id)
                          /\ p.frames[a].used <=> Spoken(m.rows, p.frames[a].id)
  BY <1>3, PageParts, <1>1 DEF SoundPage, SoundFrames
<1>12. /\ \A a \in 1..f : more[a].id = p.frames[a].id /\ more[a].used = p.frames[a].used
       /\ more[f + 1].id = id /\ more[f + 1].used = FALSE
  BY <1>4, <1>7
<1>13. \A a, b \in 1..(f + 1) : more[a].id = more[b].id => a = b
  BY <1>11, <1>9, <1>12
<1>14. ASSUME NEW a \in 1..(f + 1), more[a].id # 0
       PROVE  Running(m.rows, more[a].id) /\ (more[a].used <=> Spoken(m.rows, more[a].id))
  <2>1. CASE a \in 1..f
    BY <1>11, <1>12, <2>1
  <2>2. CASE a = f + 1
    BY <1>12, <1>14, <2>2, <1>10 DEF Untouched, Running, Spoken, Speaks
  <2> QED BY <1>9, <2>1, <2>2
<1>15. \A a \in 1..(f + 1) : more[a].id < n + 1 /\ (id = 0 => more[a].id < n)
  BY <1>9, <1>11, <1>12
<1>16. SoundFrames(q, n + 1) /\ (id = 0 => SoundFrames(q, n))
  BY <1>7, <1>8, <1>13, <1>14, <1>15 DEF SoundFrames
<1>17. SoundRows(q, n) /\ SoundRows(q, n + 1)
  <2>1. SoundRows(q, n)
    BY <1>1, <1>8 DEF SoundPage, SoundRows
  <2>2. \A i \in 1..Len(q.rows) : \A k \in 1..Len(q.rows[i].prefix) :
          q.rows[i].prefix[k].frame < n + 1
    <3> SUFFICES ASSUME NEW i \in 1..Len(q.rows), NEW k \in 1..Len(q.rows[i].prefix)
                 PROVE  q.rows[i].prefix[k].frame < n + 1
      OBVIOUS
    <3>1. q.rows[i].prefix \in Seq(PrefixParts)
      BY <1>8, PageParts
    <3>2. q.rows[i].prefix[k] \in PrefixParts
      BY <3>1, ElementOfSeq
    <3> QED BY <2>1, <3>2 DEF PrefixParts, SoundRows
  <2>3. Tidy(q.rows, n)
    BY <1>8, <1>10 DEF Tidy, TidyMarks, TidyBars, TidyHead, Untouched
  <2>4. \A c \in 1..((n + 1) - 1) : c \in 1..(n - 1) \/ c = n
    OBVIOUS
  <2> QED BY <2>1, <2>2, <2>3, <2>4 DEF SoundRows
<1>18. Extends(q, p) /\ BearsAll(q, p)
  BY <1>1, <1>8 DEF Carries, Extends, BearsAll
<1>19. Pushed(q, p, id, n)
  BY <1>1, <1>7, <1>8, <1>10, <1>12, <1>16, <1>17, <1>18 DEF Pushed, SoundPage
<1> QED BY <1>19 DEF q

-----------------------------------------------------------------------------
(* The indexes.                                                            *)

\* The rows of a block: from the first that is not blank.
SpanStarts(f, span, base, rows) ==
  /\ f \in (base + 1)..Len(rows)
  /\ span = << [first |-> f, count |-> Len(rows) - f + 1] >>
  /\ ~IsBlankRow(rows[f]) /\ \A i \in (base + 1)..(f - 1) : IsBlankRow(rows[i])

LEMMA SpanIs ==
  ASSUME NEW rows, Len(rows) \in Nat, NEW base \in 0..Len(rows)
  PROVE  \/ /\ Span(base, rows) = << >>
            /\ \A i \in (base + 1)..Len(rows) : IsBlankRow(rows[i])
         \/ \E f : SpanStarts(f, Span(base, rows), base, rows)
<1> DEFINE l == Len(rows)
           said == {i \in (base + 1)..l : ~IsBlankRow(rows[i])}
<1>1. CASE said = {}
  BY <1>1 DEF Span
<1>2. CASE said # {}
  <2>1. \E x \in said : \A y \in said : x <= y
    <3>1. said \in SUBSET Nat
      OBVIOUS
    <3> HIDE DEF said
    <3> QED BY <1>2, <3>1, NatLeast
  <2> DEFINE f == Min(said)
  <2>2. f \in said /\ \A y \in said : f <= y
    BY <2>1 DEF Min
  <2>3. Span(base, rows) = << [first |-> f, count |-> l - f + 1] >>
    BY <1>2 DEF Span
  <2> HIDE DEF f
  <2>4. f \in (base + 1)..l /\ ~IsBlankRow(rows[f])
    BY <2>2
  <2>5. ASSUME NEW i \in (base + 1)..(f - 1) PROVE IsBlankRow(rows[i])
    BY <2>4, <2>2
  <2>6. SpanStarts(f, Span(base, rows), base, rows)
    BY <2>3, <2>4, <2>5 DEF SpanStarts
  <2> QED BY <2>6
<1> QED BY <1>1, <1>2

\* A block that is over is indexed.
LEMMA SpansGrow ==
  ASSUME NEW ss \in Seq(BlockSpans), NEW rows, Len(rows) \in Nat, NEW d \in 0..Len(rows),
         SpansFit(ss, rows, d), NEW more, Len(more) \in Nat, Len(rows) <= Len(more),
         \A i \in 1..Len(rows) : more[i] = rows[i]
  PROVE  /\ SpansFit(ss, more, d)
         /\ ss \o Span(d, more) \in Seq(BlockSpans)
         /\ SpansFit(ss \o Span(d, more), more, Len(more))
<1> DEFINE l == Len(more)
           n == Len(ss)
           span == Span(d, more)
           all == ss \o span
<1>1. /\ n \in Nat
      /\ \A k \in 1..n : ss[k] \in BlockSpans /\ ss[k].first \in Nat /\ ss[k].count \in Nat
  <2>1. n \in Nat /\ \A k \in 1..n : ss[k] \in BlockSpans
    BY LenProperties, ElementOfSeq
  <2> QED BY <2>1 DEF BlockSpans
<1>2. d \in Nat /\ d <= l /\ l \in Nat /\ \A i \in 1..d : more[i] = rows[i]
  OBVIOUS
<1>3. /\ \A a, b \in 1..n : a < b => ss[a].first + ss[a].count <= ss[b].first
      /\ \A k \in 1..n : /\ ss[k].first \in 1..d /\ ss[k].first + ss[k].count <= d + 1
                         /\ ~IsBlankRow(more[ss[k].first])
      /\ \A i \in 1..d : \/ IsBlankRow(more[i])
                         \/ \E k \in 1..n : i \in ss[k].first..(ss[k].first + ss[k].count - 1)
  BY <1>2 DEF SpansFit, n
<1>4. SpansFit(ss, more, d)
  BY <1>3 DEF SpansFit
<1> HIDE DEF n
<1>5. CASE span = << >> /\ \A i \in (d + 1)..l : IsBlankRow(more[i])
  <2>1. all = ss
    BY <1>5, ConcatEmptySeq
  <2>2. SpansFit(ss, more, l)
    <3>1. \A k \in 1..n : ss[k].first \in 1..l /\ ss[k].first + ss[k].count <= l + 1
      BY <1>1, <1>2, <1>3
    <3>2. \A i \in 1..l : i \in 1..d \/ i \in (d + 1)..l
      BY <1>2
    <3> QED BY <1>3, <1>5, <3>1, <3>2 DEF SpansFit, n
  <2> QED BY <1>4, <2>1, <2>2
<1>6. ASSUME NEW f, SpanStarts(f, span, d, more)
      PROVE  all \in Seq(BlockSpans) /\ SpansFit(all, more, l)
  <2> DEFINE last == [first |-> f, count |-> l - f + 1]
  <2>1. /\ f \in (d + 1)..l /\ span = << last >> /\ ~IsBlankRow(more[f])
        /\ \A i \in (d + 1)..(f - 1) : IsBlankRow(more[i])
    BY <1>6 DEF SpanStarts
  <2>2. /\ f \in Nat /\ d < f /\ f <= l /\ f \in 1..l /\ last \in BlockSpans
        /\ last.first = f /\ last.count = l - f + 1 /\ f + (l - f + 1) = l + 1
    BY <1>2, <2>1 DEF BlockSpans
  <2> HIDE DEF last, span
  <2>3. all = Append(ss, last)
    BY <2>1, <2>2, AppendIsConcat
  <2>4. all \in Seq(BlockSpans) /\ Longer(all, ss, last)
    BY <2>2, <2>3, AppendIsLonger
  <2> HIDE DEF all
  <2>5. /\ Len(all) = n + 1 /\ all[n + 1] = last /\ \A k \in 1..n : all[k] = ss[k]
    BY <2>4 DEF Longer, n
  <2>6. \A k \in 1..(n + 1) : k \in 1..n \/ k = n + 1
    BY <1>1
  <2>7. ASSUME NEW a \in 1..(n + 1), NEW b \in 1..(n + 1), a < b
        PROVE  all[a].first + all[a].count <= all[b].first
    <3>1. a \in 1..n
      BY <1>1, <2>7
    <3>2. CASE b \in 1..n
      BY <1>3, <2>5, <2>7, <3>1, <3>2
    <3>3. CASE b = n + 1
      <4>1. all[b].first = f /\ all[a] = ss[a]
        BY <2>2, <2>5, <3>1, <3>3
      <4>2. ss[a].first + ss[a].count <= d + 1 /\ d + 1 <= f
        BY <1>2, <1>3, <2>2, <3>1
      <4>3. ss[a].first \in Nat /\ ss[a].count \in Nat
        BY <1>1, <3>1
      <4>4. d \in Nat /\ f \in Nat
        BY <1>2, <2>2
      <4>5. ss[a].first + ss[a].count <= f
        BY ONLY <4>2, <4>3, <4>4
      <4> QED BY ONLY <4>1, <4>5
    <3> QED BY <2>6, <3>2, <3>3
  <2>8. ASSUME NEW k \in 1..(n + 1)
        PROVE  /\ all[k].first \in 1..l /\ all[k].first + all[k].count <= l + 1
               /\ ~IsBlankRow(more[all[k].first])
    <3>1. CASE k \in 1..n
      <4>1. all[k] = ss[k] /\ ss[k].first \in Nat /\ ss[k].count \in Nat
        BY <1>1, <2>5, <3>1
      <4>2. /\ ss[k].first \in 1..d /\ ss[k].first + ss[k].count <= d + 1
            /\ ~IsBlankRow(more[ss[k].first])
        BY <1>3, <3>1
      <4> HIDE DEF l
      <4>3. ss[k].first \in 1..l /\ ss[k].first + ss[k].count <= l + 1
        BY <1>2, <4>1, <4>2
      <4> QED BY <4>1, <4>2, <4>3
    <3>2. CASE k = n + 1
      BY <1>2, <2>1, <2>2, <2>5, <3>2
    <3> QED BY <2>6, <3>1, <3>2
  <2>9. ASSUME NEW i \in 1..l
        PROVE  \/ IsBlankRow(more[i])
               \/ \E k \in 1..(n + 1) : i \in all[k].first..(all[k].first + all[k].count - 1)
    <3>1. CASE i \in 1..d
      <4>1. \A k \in 1..n : k \in 1..(n + 1)
        BY <1>1
      <4>2. CASE IsBlankRow(more[i])
        BY <4>2
      <4>3. CASE ~IsBlankRow(more[i])
        <5>1. PICK k \in 1..n : i \in ss[k].first..(ss[k].first + ss[k].count - 1)
          BY <1>3, <3>1, <4>3
        <5>2. all[k] = ss[k] /\ k \in 1..(n + 1)
          BY <2>5, <4>1
        <5> QED BY <5>1, <5>2
      <4> QED BY <4>2, <4>3
    <3>2. CASE i \in (d + 1)..(f - 1)
      BY <2>1, <3>2
    <3>3. CASE i \in f..l
      BY <1>1, <2>2, <2>5, <1>2, <3>3
    <3>4. i \in 1..d \/ i \in (d + 1)..(f - 1) \/ i \in f..l
      BY <1>2, <2>2
    <3> QED BY <3>1, <3>2, <3>3, <3>4
  <2>10. SpansFit(all, more, l)
    BY <2>5, <2>7, <2>8, <2>9 DEF SpansFit
  <2> QED BY <2>4, <2>10
<1>7. \/ span = << >> /\ \A i \in (d + 1)..l : IsBlankRow(more[i])
      \/ \E f : SpanStarts(f, span, d, more)
  BY <1>2, SpanIs
<1> HIDE DEF span, all, l
<1> QED BY <1>4, <1>5, <1>6, <1>7 DEF span, all, l

\* The rows of the table of contents stay what they are.
LEMMA TocStays ==
  ASSUME NEW ts, NEW rows, Len(rows) \in Nat, TocFits(ts, rows), NEW more, Len(more) \in Nat,
         Len(rows) <= Len(more), \A i \in 1..Len(rows) : more[i] = rows[i]
  PROVE  TocFits(ts, more)
<1>1. \A i \in 1..Len(rows) : i \in 1..Len(more)
  OBVIOUS
<1> QED BY <1>1 DEF TocFits

-----------------------------------------------------------------------------
(* Steps of the walk.                                                      *)

LEMMA WalkParts ==
  ASSUME WalkHolds
  PROVE  /\ walked \in WalkPages /\ SoundPage(walked, nextFrame) /\ nextFrame \in Nat \ {0}
         /\ Len(walked.rows) \in Nat /\ Len(walked.frames) \in Nat
         /\ \A a \in 1..Len(walked.frames) : /\ walked.frames[a].id \in Nat \ {0}
                                             /\ walked.frames[a].id < nextFrame
         /\ open \in Seq(Containers) /\ Len(open) \in Nat
         /\ open # << >> => Len(open) # 0
         /\ \A j \in 1..Len(open) : /\ open[j] \in Containers /\ open[j].kind \in ContainerKinds
                                    /\ open[j].id \in 1..(nextFrame - 1) /\ open[j].before \in Nat
                                    /\ open[j].before <= Len(walked.rows)
                                    /\ open[j].tight \in BOOLEAN
         /\ toc \in Seq(Nat) /\ spans \in Seq(BlockSpans)
         /\ Indexable \in 0..Len(walked.rows)
<1>1. /\ walked \in WalkPages /\ SoundPage(walked, nextFrame) /\ nextFrame \in Nat \ {0}
      /\ open \in Seq(Containers) /\ toc \in Seq(Nat) /\ spans \in Seq(BlockSpans)
  BY DEF WalkHolds, WalkInside, WalkTyped, SoundPage
<1>2. Len(walked.rows) \in Nat /\ Len(walked.frames) \in Nat
  BY <1>1, PageParts
<1>3. Len(open) \in Nat /\ (open # << >> => Len(open) # 0)
  BY <1>1, EmptySeq, LenProperties
<1>4. ASSUME NEW j \in 1..Len(open)
      PROVE  /\ open[j] \in Containers /\ open[j].kind \in ContainerKinds
             /\ open[j].id \in 1..(nextFrame - 1) /\ open[j].before \in Nat
             /\ open[j].before <= Len(walked.rows) /\ open[j].tight \in BOOLEAN
  <2>1. open[j] \in Containers
    BY <1>1, ElementOfSeq
  <2>2. open[j].id \in 1..(nextFrame - 1) /\ open[j].before <= Len(walked.rows)
    BY DEF WalkHolds, WalkInside, Nested
  <2> QED BY <2>1, <2>2 DEF Containers
<1>5. ASSUME NEW a \in 1..Len(walked.frames)
      PROVE  walked.frames[a].id \in Nat \ {0} /\ walked.frames[a].id < nextFrame
  <2>1. PICK j \in 1..Len(open) : open[j].id = walked.frames[a].id
    BY DEF WalkHolds, WalkInside, FramesMatch
  <2> QED BY <1>1, <1>4, <2>1
<1>6. Indexable \in 0..Len(walked.rows)
  BY <1>2, <1>3, <1>4 DEF Indexable
<1> QED BY <1>1, <1>2, <1>3, <1>4, <1>5, <1>6

\* A block without blocks in it.
BlockDone(q) ==
  /\ SoundPage(q, nextFrame) /\ Carries(q, walked) /\ AllUsed(q)
  /\ walked' = q /\ UNCHANGED <<open, nextFrame>>
  /\ spans' = IF open = << >> THEN spans \o Span(Len(walked.rows), q.rows) ELSE spans
  /\ toc' \in Seq(Nat) /\ TocFits(toc', q.rows)

LEMMA BlockKeeps ==
  ASSUME WalkHolds, NEW q, BlockDone(q)
  PROVE  WalkHolds'
<1> DEFINE l == Len(walked.rows)
           m == Len(q.rows)
           f == Len(walked.frames)
<1>1. /\ SoundPage(q, nextFrame) /\ q \in WalkPages /\ walked' = q
      /\ open' = open /\ nextFrame' = nextFrame /\ AllUsed(q)
      /\ toc' \in Seq(Nat) /\ TocFits(toc', q.rows)
  BY DEF BlockDone, SoundPage
<1>2. l \in Nat /\ m \in Nat /\ f \in Nat
  BY <1>1, WalkParts, PageParts
<1>3. /\ l <= m /\ \A i \in 1..l : q.rows[i] = walked.rows[i]
      /\ Len(q.frames) = f /\ \A a \in 1..f : q.frames[a].id = walked.frames[a].id
      /\ \A i \in (l + 1)..m, a \in 1..f : Bears(q.rows[i], walked.frames[a].id)
  BY DEF BlockDone, Carries, Extends, SameFrames, BearsAll
<1>4. spans' \in Seq(BlockSpans) /\ SpansFit(spans', q.rows, Indexable')
  <2> DEFINE d == Indexable
  <2>1. d \in 0..l /\ spans \in Seq(BlockSpans) /\ SpansFit(spans, walked.rows, d)
    BY WalkParts DEF WalkHolds, WalkIndexed
  <2> HIDE DEF d
  <2>2. /\ SpansFit(spans, q.rows, d) /\ spans \o Span(d, q.rows) \in Seq(BlockSpans)
        /\ SpansFit(spans \o Span(d, q.rows), q.rows, m)
    BY <1>2, <1>3, <2>1, SpansGrow
  <2>3. CASE open = << >>
    BY <1>1, <2>3, <2>2 DEF Indexable, BlockDone, d
  <2>4. CASE open # << >>
    BY <1>1, <2>4, <2>1, <2>2 DEF Indexable, BlockDone, d
  <2> QED BY <2>3, <2>4
<1>5. WalkTyped'
  BY <1>1, <1>4, WalkParts DEF WalkTyped
<1>6. Nested'
  <2>1. \A j \in 1..Len(open) : open[j].before <= m
    BY <1>2, <1>3, WalkParts
  <2> QED BY <1>1, <2>1 DEF Nested, WalkHolds, WalkInside
<1>7. FramesMatch'
  <2> HIDE DEF f
  <2>1. /\ Len(q.frames) = Len(walked.frames)
        /\ \A a \in 1..Len(walked.frames) : q.frames[a].id = walked.frames[a].id
    BY <1>3 DEF f
  <2>2. FramesMatch
    BY DEF WalkHolds, WalkInside
  <2>3. \A a, b \in 1..Len(q.frames) : a < b => q.frames[a].id < q.frames[b].id
    BY <2>1, <2>2 DEF FramesMatch
  <2>4. \A a \in 1..Len(q.frames) :
          \E j \in 1..Len(open) : open[j].id = q.frames[a].id /\ open[j].kind \in Framed
    BY <2>1, <2>2 DEF FramesMatch
  <2>5. ASSUME NEW j \in 1..Len(open), open[j].kind \in Framed
        PROVE  \E a \in 1..Len(q.frames) : q.frames[a].id = open[j].id
    BY <2>2, <2>5, <2>1 DEF FramesMatch
  <2> QED BY <1>1, <2>3, <2>4, <2>5 DEF FramesMatch
<1>8. Enclosed'
  <2> SUFFICES ASSUME NEW j \in 1..Len(open), NEW a \in 1..f, q.frames[a].id < open[j].id,
                      NEW i \in (open[j].before + 1)..m
               PROVE  Bears(q.rows[i], q.frames[a].id)
    BY <1>1, <1>3 DEF Enclosed
  <2>1. open[j].before \in Nat
    BY WalkParts
  <2>2. CASE i <= l
    <3>1. i \in (open[j].before + 1)..l /\ i \in 1..l
      BY <1>2, <2>1, <2>2
    <3> QED BY <1>3, <3>1 DEF Enclosed, WalkHolds, WalkInside
  <2>3. CASE ~(i <= l)
    <3>1. i \in (l + 1)..m
      BY <1>2, <2>1, <2>3
    <3> QED BY <1>3, <3>1
  <2> QED BY <2>2, <2>3
<1>9. NothingAbove'
  BY <1>1, PageParts, EmptySeq DEF Ready, AllUsed, NothingAbove
<1>10. WalkInside'
  BY <1>1, <1>5, <1>6, <1>7, <1>8, <1>9 DEF WalkInside
<1>11. WalkIndexed'
  BY <1>1, <1>4 DEF WalkIndexed
<1> QED BY <1>10, <1>11 DEF WalkHolds

\* A container is entered, with a frame or without.
HasEntered(q, c) ==
  /\ c \in Containers /\ c.id = nextFrame /\ c.before = Len(walked.rows)
  /\ c.kind = "item" => open # << >> /\ open[Len(open)].kind = "list"
  /\ walked' = q /\ open' = Append(open, c) /\ nextFrame' = nextFrame + 1
  /\ UNCHANGED <<toc, spans>>
  /\ SoundPage(q, nextFrame + 1) /\ Extends(q, walked) /\ BearsAll(q, walked)
  /\ \A a \in 1..Len(walked.frames) : q.frames[a].id = walked.frames[a].id
  /\ c.kind \in Framed => /\ Len(q.frames) = Len(walked.frames) + 1 /\ Ready(q)
                          /\ q.frames[Len(walked.frames) + 1].id = nextFrame
  /\ c.kind \notin Framed => Len(q.frames) = Len(walked.frames)

LEMMA EnterKeeps ==
  ASSUME WalkHolds, NEW q, NEW c, HasEntered(q, c)
  PROVE  WalkHolds'
<1> DEFINE l == Len(walked.rows)
           m == Len(q.rows)
           f == Len(walked.frames)
           g == Len(q.frames)
           n == Len(open)
<1>1. /\ SoundPage(q, nextFrame + 1) /\ q \in WalkPages /\ walked' = q
      /\ nextFrame' = nextFrame + 1 /\ toc' = toc /\ spans' = spans
      /\ c \in Containers /\ c.kind \in ContainerKinds /\ c.id = nextFrame /\ c.before = l
      /\ open' = Append(open, c)
  BY DEF HasEntered, SoundPage, Containers
<1>2. /\ l \in Nat /\ m \in Nat /\ f \in Nat /\ g \in Nat /\ n \in Nat
      /\ nextFrame \in Nat \ {0} /\ open \in Seq(Containers)
  BY <1>1, WalkParts, PageParts
<1>3. /\ l <= m /\ \A i \in 1..l : q.rows[i] = walked.rows[i]
      /\ \A a \in 1..f : q.frames[a].id = walked.frames[a].id
      /\ \A i \in (l + 1)..m, a \in 1..f : Bears(q.rows[i], walked.frames[a].id)
  BY DEF HasEntered, Extends, BearsAll
<1>4. /\ open' \in Seq(Containers) /\ Len(open') = n + 1 /\ open'[n + 1] = c
      /\ \A j \in 1..n : open'[j] = open[j]
  BY <1>1, <1>2, AppendIsLonger DEF Longer
<1>5. \A j \in 1..(n + 1) : j \in 1..n \/ j = n + 1
  BY <1>2
<1>6. /\ \A a \in 1..g : a \in 1..f \/ (a = f + 1 /\ c.kind \in Framed)
      /\ \A a \in 1..f : a \in 1..g
      /\ c.kind \in Framed => f + 1 \in 1..g /\ q.frames[f + 1].id = nextFrame
  BY <1>2 DEF HasEntered, f, g
<1>7. \A a \in 1..f : walked.frames[a].id \in Nat \ {0} /\ walked.frames[a].id < nextFrame
  BY WalkParts
<1>8. \A j \in 1..n : /\ open[j].id \in 1..(nextFrame - 1) /\ open[j].before \in Nat
                      /\ open[j].before <= l
  BY WalkParts
<1>9. WalkTyped'
  BY <1>1, <1>2, <1>4, WalkParts DEF WalkTyped
<1>10. Nested'
  <2>1. /\ \A i, j \in 1..n : i < j => open[i].id < open[j].id
        /\ \A j \in 1..n : open[j].kind = "item" => j > 1 /\ open[j - 1].kind = "list"
    BY DEF WalkHolds, WalkInside, Nested
  <2>2. ASSUME NEW i \in 1..(n + 1), NEW j \in 1..(n + 1), i < j
        PROVE  open'[i].id < open'[j].id
    BY <1>2, <2>2, <1>4, <2>1, <1>1, <1>8, <1>5
  <2>3. ASSUME NEW j \in 1..(n + 1)
        PROVE  open'[j].id \in 1..((nextFrame + 1) - 1) /\ open'[j].before <= m
    BY <1>2, <1>3, <1>4, <1>8, <1>1, <1>5
  <2>4. ASSUME NEW j \in 1..(n + 1), open'[j].kind = "item"
        PROVE  j > 1 /\ open'[j - 1].kind = "list"
    BY <1>2, <1>4, <2>1, <2>4, WalkParts, <1>5 DEF HasEntered
  <2> QED BY <1>1, <1>4, <2>2, <2>3, <2>4 DEF Nested
<1>11. FramesMatch'
  <2>1. /\ \A a, b \in 1..f : a < b => walked.frames[a].id < walked.frames[b].id
        /\ \A a \in 1..f :
             \E j \in 1..n : open[j].id = walked.frames[a].id /\ open[j].kind \in Framed
        /\ \A j \in 1..n :
             open[j].kind \in Framed => \E a \in 1..f : walked.frames[a].id = open[j].id
    BY DEF WalkHolds, WalkInside, FramesMatch
  <2>2. ASSUME NEW a \in 1..g, NEW b \in 1..g, a < b PROVE q.frames[a].id < q.frames[b].id
    <3>1. a \in 1..f
      BY <1>2, <1>6, <2>2
    <3>2. CASE b \in 1..f
      BY <1>3, <2>1, <2>2, <3>1, <3>2
    <3>3. CASE b = f + 1 /\ c.kind \in Framed
      BY <1>3, <1>6, <1>7, <3>1, <3>3
    <3> QED BY <1>6, <3>2, <3>3
  <2>3. ASSUME NEW a \in 1..g
        PROVE  \E j \in 1..(n + 1) : open'[j].id = q.frames[a].id /\ open'[j].kind \in Framed
    <3>1. CASE a \in 1..f
      <4>1. PICK j \in 1..n : open[j].id = walked.frames[a].id /\ open[j].kind \in Framed
        BY <2>1, <3>1
      <4>2. j \in 1..(n + 1)
        BY <1>2
      <4> QED BY <1>3, <1>4, <3>1, <4>1, <4>2
    <3>2. CASE a = f + 1 /\ c.kind \in Framed
      BY <1>2, <1>1, <1>4, <1>6, <3>2
    <3> QED BY <1>6, <3>1, <3>2
  <2>4. ASSUME NEW j \in 1..(n + 1), open'[j].kind \in Framed
        PROVE  \E a \in 1..g : q.frames[a].id = open'[j].id
    <3>1. CASE j \in 1..n
      <4>1. PICK a \in 1..f : walked.frames[a].id = open[j].id
        BY <1>4, <2>1, <2>4, <3>1
      <4> QED BY <1>3, <1>4, <1>6, <3>1, <4>1
    <3>2. CASE j = n + 1
      BY <1>1, <1>4, <2>4, <3>2, <1>6
    <3> QED BY <1>5, <3>1, <3>2
  <2> QED BY <1>1, <1>4, <2>2, <2>3, <2>4 DEF FramesMatch
<1>12. Enclosed'
  <2> SUFFICES ASSUME NEW j \in 1..(n + 1), NEW a \in 1..g, q.frames[a].id < open'[j].id,
                      NEW i \in (open'[j].before + 1)..m
               PROVE  Bears(q.rows[i], q.frames[a].id)
    BY <1>1, <1>4 DEF Enclosed
  <2>1. a \in 1..f /\ q.frames[a].id = walked.frames[a].id
    <3>1. open'[j].id <= nextFrame
      BY <1>1, <1>2, <1>4, <1>5, <1>8
    <3>2. ~(a = f + 1 /\ c.kind \in Framed)
      <4>1. ASSUME a = f + 1, c.kind \in Framed PROVE FALSE
        <5>1. q.frames[a].id = nextFrame
          BY <1>6, <4>1
        <5>2. open'[j].id \in Nat
          BY <1>1, <1>2, <1>4, <1>5, <1>8
        <5> QED BY <1>2, <3>1, <5>1, <5>2
      <4> QED BY <4>1
    <3> QED BY <1>3, <1>6, <3>2
  <2>2. CASE j = n + 1
    BY <1>1, <1>3, <1>4, <2>1, <2>2
  <2>3. CASE j \in 1..n
    <3>1. open'[j] = open[j] /\ open[j].before \in Nat
      BY <1>4, <1>8, <2>3
    <3>2. CASE i <= l
      BY <1>2, <3>1, <3>2, <1>3, <2>1, <2>3, SMTT(30) DEF Enclosed, WalkHolds, WalkInside
    <3>3. CASE ~(i <= l)
      <4>1. i \in (l + 1)..m
        BY <1>2, <3>1, <3>3
      <4> QED BY <1>3, <2>1, <4>1
    <3> QED BY <3>2, <3>3
  <2> QED BY <1>5, <2>2, <2>3
<1>13. NothingAbove'
  BY <1>2, <1>4, EmptySeq, <1>1 DEF HasEntered, ContainerKinds, Framed, NothingAbove
<1>14. SpansFit(spans', q.rows, Indexable')
  <2> DEFINE d == Indexable
  <2>1. d \in 0..l /\ spans \in Seq(BlockSpans) /\ SpansFit(spans, walked.rows, d)
    BY WalkParts DEF WalkHolds, WalkIndexed
  <2>2. Indexable' = d
    <3>1. open' # << >>
      BY <1>2, <1>4, EmptySeq
    <3>2. CASE open = << >>
      BY <3>2, EmptySeq, <1>4, <1>1, <3>1 DEF Indexable
    <3>3. CASE open # << >>
      <4>1. 1 \in 1..n
        BY <1>2, <3>3, WalkParts
      <4>2. open'[1] = open[1]
        BY <1>4, <4>1
      <4> QED BY <3>1, <3>3, <4>2 DEF Indexable
    <3> QED BY <3>2, <3>3
  <2> HIDE DEF d
  <2>3. SpansFit(spans, q.rows, d)
    BY <1>2, <1>3, <2>1, SpansGrow
  <2> QED BY <1>1, <2>2, <2>3
<1>15. TocFits(toc', q.rows)
  BY <1>1, <1>2, <1>3, TocStays DEF WalkHolds, WalkIndexed
<1> QED BY <1>1, <1>9, <1>10, <1>11, <1>12, <1>13, <1>14, <1>15
     DEF WalkHolds, WalkInside, WalkIndexed

\* The frame of the innermost container is the last; those before it are of others
\* around it.
LEMMA LastFrame ==
  ASSUME WalkHolds, open # << >>
  PROVE  LET f == Len(walked.frames)
             c == open[Len(open)]
         IN  /\ c.kind \in Framed => /\ walked.frames # << >> /\ f \in 1..f
                                     /\ walked.frames[f].id = c.id
                                     /\ \A a \in 1..(f - 1) : walked.frames[a].id < c.id
             /\ c.kind \notin Framed => \A a \in 1..f : walked.frames[a].id < c.id
<1> DEFINE f == Len(walked.frames)
           n == Len(open)
           c == open[n]
<1>1. /\ f \in Nat /\ n \in Nat /\ n \in 1..n /\ nextFrame \in Nat
      /\ \A a \in 1..f : walked.frames[a].id \in Nat
      /\ \A j \in 1..n : open[j].id \in Nat
  BY WalkParts
<1>2. /\ \A a, b \in 1..f : a < b => walked.frames[a].id < walked.frames[b].id
      /\ \A a \in 1..f : \E j \in 1..n : open[j].id = walked.frames[a].id /\ open[j].kind \in Framed
      /\ \A j \in 1..n : open[j].kind \in Framed => \E a \in 1..f : walked.frames[a].id = open[j].id
      /\ \A i, j \in 1..n : i < j => open[i].id < open[j].id
  BY DEF WalkHolds, WalkInside, FramesMatch, Nested
<1>3. ASSUME NEW a \in 1..f
      PROVE  walked.frames[a].id < c.id \/ (walked.frames[a].id = c.id /\ c.kind \in Framed)
  BY <1>2, <1>1
<1> HIDE DEF f, n
<1>4. ASSUME c.kind \in Framed
      PROVE  /\ walked.frames # << >> /\ f \in 1..f /\ walked.frames[f].id = c.id
             /\ \A a \in 1..(f - 1) : walked.frames[a].id < c.id
  <2>1. PICK a \in 1..f : walked.frames[a].id = c.id
    BY <1>1, <1>2, <1>4
  <2>2. f \in 1..f /\ f # 0
    BY <1>1
  <2>3. a = f
    <3>1. ~(a < f)
      <4>1. ASSUME a < f PROVE FALSE
        <5>1. walked.frames[a].id < walked.frames[f].id
          BY <1>2, <2>2, <4>1
        <5>2. walked.frames[f].id < c.id \/ walked.frames[f].id = c.id
          BY <1>3, <2>2
        <5>3. walked.frames[f].id \in Nat /\ c.id \in Nat
          BY <1>1, <2>2
        <5> QED BY <2>1, <5>1, <5>2, <5>3
      <4> QED BY <4>1
    <3> QED BY <1>1, <3>1
  <2>4. walked.frames # << >>
    BY <2>2, EmptySeq DEF f
  <2>5. ASSUME NEW b \in 1..(f - 1) PROVE walked.frames[b].id < c.id
    <3>1. b \in 1..f /\ b < f
      BY <1>1
    <3> QED BY <1>2, <2>1, <2>2, <2>3, <3>1
  <2> QED BY <2>1, <2>2, <2>3, <2>4, <2>5
<1>5. ASSUME c.kind \notin Framed PROVE \A a \in 1..f : walked.frames[a].id < c.id
  BY <1>3, <1>5
<1> QED BY <1>4, <1>5 DEF f, n

\* Where something was said in a container, the markers around it are written.
LEMMA SaidAround ==
  ASSUME WalkHolds, Said, NEW a \in 1..Len(walked.frames),
         walked.frames[a].id < open[Len(open)].id
  PROVE  walked.frames[a].used
<1> DEFINE id == walked.frames[a].id
           n == Len(open)
<1>1. /\ open # << >> /\ n \in 1..n /\ open[n].before \in Nat /\ Len(walked.rows) \in Nat /\ id # 0
  BY WalkParts DEF Said
<1>2. PICK i \in (open[n].before + 1)..Len(walked.rows) : walked.rows[i].kind # "gap"
  BY <1>1 DEF Said, Last
<1>3. Bears(walked.rows[i], id)
  BY <1>1 DEF WalkHolds, WalkInside, Enclosed
<1>4. i \in 1..Len(walked.rows)
  BY <1>1
<1>5. Spoken(walked.rows, id)
  BY <1>2, <1>3, <1>4 DEF Spoken, Speaks
<1> QED BY <1>1, <1>5 DEF WalkHolds, WalkInside, SoundPage, SoundFrames

\* A container is left.
HasLeft(q, around) ==
  LET n == Len(open)
      left == IF open[n].kind \in Framed THEN Len(walked.frames) - 1 ELSE Len(walked.frames)
  IN  /\ open # << >> /\ around \in Seq(Containers) /\ Len(around) = n - 1
      /\ \A j \in 1..(n - 1) : /\ around[j].kind = open[j].kind /\ around[j].id = open[j].id
                               /\ around[j].before = open[j].before
      /\ walked' = q /\ open' = around /\ UNCHANGED <<nextFrame, toc>>
      /\ spans' = IF n = 1 THEN spans \o Span(open[1].before, q.rows) ELSE spans
      /\ SoundPage(q, nextFrame) /\ Extends(q, walked)
      /\ Len(q.frames) = left
      /\ \A a \in 1..left : q.frames[a].id = walked.frames[a].id
      /\ \A i \in (Len(walked.rows) + 1)..Len(q.rows), a \in 1..left :
           Bears(q.rows[i], walked.frames[a].id)
      /\ AllUsed(q) \/ open[n].kind = "item"

LEMMA LeaveKeeps ==
  ASSUME WalkHolds, NEW q, NEW around, HasLeft(q, around)
  PROVE  WalkHolds'
<1> DEFINE l == Len(walked.rows)
           m == Len(q.rows)
           f == Len(walked.frames)
           n == Len(open)
           k == n - 1
           g == IF open[n].kind \in Framed THEN f - 1 ELSE f
<1>1. /\ SoundPage(q, nextFrame) /\ q \in WalkPages /\ walked' = q /\ open' = around
      /\ nextFrame' = nextFrame /\ toc' = toc /\ open # << >>
  BY DEF HasLeft, SoundPage
<1>2. /\ l \in Nat /\ m \in Nat /\ f \in Nat /\ n \in Nat \ {0} /\ k \in Nat
      /\ n \in 1..n /\ \A j \in 1..k : j \in 1..n /\ j < n
      /\ nextFrame \in Nat \ {0}
  BY <1>1, WalkParts, PageParts
<1>3. /\ l <= m /\ \A i \in 1..l : q.rows[i] = walked.rows[i]
      /\ Len(q.frames) = g /\ \A a \in 1..g : q.frames[a].id = walked.frames[a].id
      /\ \A i \in (l + 1)..m, a \in 1..g : Bears(q.rows[i], walked.frames[a].id)
  BY DEF HasLeft, Extends
<1>4. /\ around \in Seq(Containers) /\ Len(around) = k
      /\ \A j \in 1..k : /\ around[j].kind = open[j].kind /\ around[j].id = open[j].id
                         /\ around[j].before = open[j].before
  BY DEF HasLeft
<1>5. /\ \A a \in 1..g : a \in 1..f /\ walked.frames[a].id < open[n].id
      /\ open[n].kind \in Framed => f \in 1..f /\ walked.frames[f].id = open[n].id
      /\ \A a \in 1..f : a \in 1..g \/ (a = f /\ open[n].kind \in Framed)
  <2>1. CASE open[n].kind \in Framed
    <3>1. /\ f \in 1..f /\ walked.frames[f].id = open[n].id
          /\ \A a \in 1..(f - 1) : walked.frames[a].id < open[n].id
      BY <1>1, <2>1, LastFrame
    <3>2. g = f - 1
      BY <2>1
    <3> HIDE DEF f, g
    <3> QED BY <1>2, <2>1, <3>1, <3>2
  <2>2. CASE open[n].kind \notin Framed
    <3>1. \A a \in 1..f : walked.frames[a].id < open[n].id
      BY <1>1, <2>2, LastFrame
    <3>2. g = f
      BY <2>2
    <3> HIDE DEF f, g
    <3> QED BY <1>2, <2>2, <3>1, <3>2
  <2> QED BY <2>1, <2>2
<1> HIDE DEF g
<1>6. \A j \in 1..n : /\ open[j].id \in 1..(nextFrame - 1) /\ open[j].before \in Nat
                      /\ open[j].before <= l
  BY WalkParts
<1>7. /\ \A i, j \in 1..n : i < j => open[i].id < open[j].id
      /\ \A j \in 1..n : open[j].kind = "item" => j > 1 /\ open[j - 1].kind = "list"
      /\ \A a, b \in 1..f : a < b => walked.frames[a].id < walked.frames[b].id
      /\ \A a \in 1..f : \E j \in 1..n : open[j].id = walked.frames[a].id /\ open[j].kind \in Framed
      /\ \A j \in 1..n : open[j].kind \in Framed => \E a \in 1..f : walked.frames[a].id = open[j].id
  BY DEF WalkHolds, WalkInside, FramesMatch, Nested
<1>8. SpansFit(spans', q.rows, Indexable') /\ spans' \in Seq(BlockSpans)
  <2> DEFINE d == Indexable
  <2>1. d \in 0..l /\ spans \in Seq(BlockSpans) /\ SpansFit(spans, walked.rows, d)
    BY WalkParts DEF WalkHolds, WalkIndexed
  <2>2. d = open[1].before
    BY <1>1 DEF Indexable
  <2>3. spans' = IF n = 1 THEN spans \o Span(open[1].before, q.rows) ELSE spans
    BY DEF HasLeft
  <2>4. CASE n = 1
    <3>1. around = << >>
      BY <1>4, <2>4, EmptySeq
    <3>2. Indexable' = m
      BY <1>1, <3>1 DEF Indexable
    <3> HIDE DEF d
    <3>3. /\ spans \o Span(d, q.rows) \in Seq(BlockSpans)
          /\ SpansFit(spans \o Span(d, q.rows), q.rows, m)
      BY <1>2, <1>3, <2>1, SpansGrow
    <3> QED BY <2>2, <2>3, <2>4, <3>2, <3>3
  <2>5. CASE n # 1
    <3>1. 1 \in 1..k /\ Len(around) # 0
      BY <1>2, <1>4, <2>5
    <3>2. around # << >>
      BY <3>1, EmptySeq
    <3>3. Indexable' = d
      BY <1>1, <1>4, <2>2, <3>1, <3>2 DEF Indexable
    <3> HIDE DEF d
    <3>4. SpansFit(spans, q.rows, d)
      BY <1>2, <1>3, <2>1, SpansGrow
    <3> QED BY <2>1, <2>3, <2>5, <3>3, <3>4
  <2> QED BY <2>4, <2>5
<1>9. WalkTyped'
  BY <1>1, <1>2, <1>4, <1>8, WalkParts DEF WalkTyped
<1>10. Nested'
  <2>1. \A i, j \in 1..k : i < j => around[i].id < around[j].id
    BY <1>2, <1>4, <1>7
  <2>2. ASSUME NEW j \in 1..k
        PROVE  around[j].id \in 1..(nextFrame - 1) /\ around[j].before <= m
    <3>1. j \in 1..n /\ around[j].id = open[j].id /\ around[j].before = open[j].before
      BY <1>2, <1>4
    <3>2. open[j].id \in 1..(nextFrame - 1) /\ open[j].before \in Nat /\ open[j].before <= l
      BY <1>6, <3>1
    <3> HIDE DEF k, l, m
    <3> QED BY <1>2, <1>3, <3>1, <3>2
  <2>3. ASSUME NEW j \in 1..k, around[j].kind = "item"
        PROVE  j > 1 /\ around[j - 1].kind = "list"
    <3>1. j > 1 /\ open[j - 1].kind = "list"
      BY <1>2, <1>4, <1>7, <2>3
    <3>2. j - 1 \in 1..k
      BY <1>2, <3>1
    <3> QED BY <1>4, <3>1, <3>2
  <2> QED BY <1>1, <1>4, <2>1, <2>2, <2>3 DEF Nested
<1>11. FramesMatch'
  <2>1. \A a, b \in 1..g : a < b => q.frames[a].id < q.frames[b].id
    BY <1>3, <1>5, <1>7
  <2>2. ASSUME NEW a \in 1..g
        PROVE  \E j \in 1..k : around[j].id = q.frames[a].id /\ around[j].kind \in Framed
    <3>1. PICK j \in 1..n : open[j].id = walked.frames[a].id /\ open[j].kind \in Framed
      BY <1>5, <1>7
    <3>2. j # n
      BY <1>2, <1>5, <1>6, <3>1
    <3>3. j \in 1..k
      BY <1>2, <3>2
    <3> QED BY <1>3, <1>4, <3>1, <3>3
  <2>3. ASSUME NEW j \in 1..k, around[j].kind \in Framed
        PROVE  \E a \in 1..g : q.frames[a].id = around[j].id
    <3>1. PICK a \in 1..f : walked.frames[a].id = open[j].id
      BY <1>2, <1>4, <1>7, <2>3
    <3>2. a \in 1..g
      <4>1. ASSUME a = f, open[n].kind \in Framed PROVE FALSE
        <5>1. j \in 1..n /\ n \in 1..n /\ j < n
          BY <1>2
        <5>2. open[j].id < open[n].id
          BY <1>7, <5>1
        <5>3. walked.frames[f].id = open[n].id
          BY <1>5, <4>1
        <5>4. open[n].id \in Nat
          BY <1>2, <1>6, <5>1
        <5> HIDE DEF f, n
        <5> QED BY <3>1, <4>1, <5>2, <5>3, <5>4
      <4> QED BY <1>5, <4>1
    <3> QED BY <1>3, <1>4, <3>1, <3>2
  <2> QED BY <1>1, <1>3, <1>4, <2>1, <2>2, <2>3 DEF FramesMatch
<1>12. Enclosed'
  <2> SUFFICES ASSUME NEW j \in 1..k, NEW a \in 1..g, q.frames[a].id < around[j].id,
                      NEW i \in (around[j].before + 1)..m
               PROVE  Bears(q.rows[i], q.frames[a].id)
    BY <1>1, <1>3, <1>4 DEF Enclosed
  <2>1. /\ j \in 1..n /\ around[j].id = open[j].id /\ around[j].before = open[j].before
        /\ open[j].before \in Nat /\ a \in 1..f /\ q.frames[a].id = walked.frames[a].id
    BY <1>2, <1>3, <1>4, <1>5, <1>6
  <2>2. CASE i <= l
    <3>1. i \in (open[j].before + 1)..l /\ i \in 1..l
      BY <1>2, <2>1, <2>2
    <3> QED BY <1>3, <2>1, <3>1 DEF Enclosed, WalkHolds, WalkInside
  <2>3. CASE ~(i <= l)
    <3>1. i \in (l + 1)..m
      BY <1>2, <2>1, <2>3
    <3> QED BY <1>3, <2>1, <3>1
  <2> QED BY <2>2, <2>3
<1>13. NothingAbove'
  <2>1. CASE AllUsed(q)
    BY <1>1, PageParts, EmptySeq, <2>1 DEF Ready, AllUsed, NothingAbove
  <2>2. CASE open[n].kind = "item"
    <3>1. n > 1 /\ open[k].kind = "list" /\ k \in 1..k
      BY <1>2, <1>7, <2>2
    <3>2. around[k].kind = "list"
      BY <1>4, <3>1
    <3>3. around # << >>
      BY <1>4, <3>1, EmptySeq
    <3> QED BY <1>1, <1>4, <3>2, <3>3 DEF NothingAbove
  <2> QED BY <2>1, <2>2 DEF HasLeft
<1>14. TocFits(toc', q.rows)
  BY <1>1, <1>2, <1>3, TocStays DEF WalkHolds, WalkIndexed
<1> QED BY <1>1, <1>8, <1>9, <1>10, <1>11, <1>12, <1>13, <1>14
     DEF WalkHolds, WalkInside, WalkIndexed

\* One page comes after another: more was written, and the frames are the same.
Follows(q, p, n) == SoundPage(q, n) /\ Carries(q, p)

LEMMA FollowsOn ==
  ASSUME NEW n, NEW p, SoundPage(p, n), NEW m, Follows(m, p, n), NEW q, Follows(q, m, n)
  PROVE  Follows(q, p, n)
<1>1. p \in WalkPages /\ m \in WalkPages /\ q \in WalkPages
  BY DEF Follows, SoundPage
<1>2. Len(p.rows) \in Nat /\ Len(m.rows) \in Nat /\ Len(q.rows) \in Nat
  BY <1>1, PageParts
<1> QED BY <1>2, CarriesOn DEF Follows

\* Asking for a blank row writes none.
LEMMA AsksForGap ==
  ASSUME NEW n, NEW p, SoundPage(p, n)
  PROVE  /\ Follows(HardGap(p), p, n) /\ (AllUsed(p) => AllUsed(HardGap(p)))
         /\ Follows(Gap(p), p, n) /\ (AllUsed(p) => AllUsed(Gap(p)))
<1>1. Retouched(HardGap(p), p) /\ Retouched(Gap(p), p)
  BY Retouches DEF SoundPage
<1> QED BY <1>1, StillSound DEF Follows

\* What is written on a page.
LEMMA Writes ==
  ASSUME NEW n \in Nat, NEW p, SoundPage(p, n), NEW kind, MayEmit(p, kind)
  PROVE  /\ Follows(Emit(p, kind), p, n) /\ AllUsed(Emit(p, kind))
         /\ \A l \in Nat \ {0} : /\ Follows(EmitRows(p, kind, l), p, n)
                                 /\ AllUsed(EmitRows(p, kind, l))
<1>1. Emitted(Emit(p, kind), p, kind, n)
  BY RowEmitted
<1>2. ASSUME NEW l \in Nat \ {0}
      PROVE  Follows(EmitRows(p, kind, l), p, n) /\ AllUsed(EmitRows(p, kind, l))
  BY ManyEmitted DEF RowsEmitted, Follows
<1> QED BY <1>1, <1>2 DEF Emitted, Follows

\* A block that is no heading.
LEMMA BlockEnds ==
  ASSUME WalkHolds, NEW kind, NEW q, Block(kind, q), toc' = toc,
         Follows(q, walked, nextFrame), AllUsed(q)
  PROVE  WalkHolds'
<1>1. /\ walked' = q /\ open' = open /\ nextFrame' = nextFrame
      /\ spans' = IF open = << >> THEN spans \o Span(Len(walked.rows), q.rows) ELSE spans
  BY DEF Block
<1>2. SoundPage(q, nextFrame) /\ Carries(q, walked) /\ q \in WalkPages
  BY DEF Follows, SoundPage
<1>3. Len(q.rows) \in Nat /\ Len(walked.rows) \in Nat /\ toc \in Seq(Nat)
  BY <1>2, PageParts, WalkParts
<1>4. Len(walked.rows) <= Len(q.rows) /\ \A i \in 1..Len(walked.rows) : q.rows[i] = walked.rows[i]
  BY <1>2 DEF Carries, Extends
<1>5. TocFits(toc, q.rows)
  BY <1>3, <1>4, TocStays DEF WalkHolds, WalkIndexed
<1>6. BlockDone(q)
  BY <1>1, <1>2, <1>3, <1>5 DEF BlockDone
<1> QED BY <1>6, BlockKeeps

\* Where a block may come, what it says may be a paragraph.
LEMMA BlockMaySpeak ==
  ASSUME WalkHolds, AmongBlocks
  PROVE  Ready(walked)
<1>1. open = << >> \/ open[Len(open)].kind \notin {"list", "definitions"}
  BY DEF AmongBlocks, Around, Last
<1> QED BY <1>1 DEF WalkHolds, WalkInside, NothingAbove

LEMMA ParagraphKeeps ==
  ASSUME WalkHolds, NEW n \in 1..2, Paragraph(n)
  PROVE  WalkHolds'
<1> DEFINE q == EmitRows(walked, "text", n)
<1>1. SoundPage(walked, nextFrame) /\ nextFrame \in Nat /\ n \in Nat \ {0}
  BY WalkParts
<1>2. Block("text", Gap(q)) /\ toc' = toc /\ AmongBlocks
  BY DEF Paragraph, Block
<1>3. MayEmit(walked, "text")
  BY <1>2, BlockMaySpeak DEF MayEmit, RowKinds
<1>4. Follows(q, walked, nextFrame) /\ AllUsed(q) /\ SoundPage(q, nextFrame)
  BY <1>1, <1>3, Writes DEF Follows
<1> HIDE DEF q
<1>5. Follows(Gap(q), q, nextFrame) /\ AllUsed(Gap(q))
  BY <1>4, AsksForGap
<1>6. Follows(Gap(q), walked, nextFrame)
  BY <1>1, <1>4, <1>5, FollowsOn
<1> QED BY <1>2, <1>5, <1>6, BlockEnds

LEMMA BareTextKeeps ==
  ASSUME WalkHolds, NEW n \in 1..2, BareText(n)
  PROVE  WalkHolds'
<1> DEFINE q == EmitRows(walked, "bare", n)
<1>1. SoundPage(walked, nextFrame) /\ nextFrame \in Nat /\ n \in Nat \ {0}
  BY WalkParts
<1>2. Block("text", q) /\ toc' = toc /\ AmongBlocks
  BY DEF BareText, Block
<1>3. MayEmit(walked, "bare")
  BY <1>2, BlockMaySpeak DEF MayEmit, RowKinds
<1>4. Follows(q, walked, nextFrame) /\ AllUsed(q)
  BY <1>1, <1>3, Writes
<1> QED BY <1>2, <1>4, BlockEnds

\* A rule, a table and raw HTML each begin and end with a blank row, if need be.
LEMMA FencedKeeps ==
  ASSUME WalkHolds, NEW what, NEW kind, kind \in {"rule", "table", "html"}, NEW q,
         \/ q = HardGap(Emit(HardGap(walked), kind))
         \/ q = HardGap(EmitRows(HardGap(walked), kind, 3)),
         Block(what, q), toc' = toc
  PROVE  WalkHolds'
<1> DEFINE p == HardGap(walked)
<1>1. SoundPage(walked, nextFrame) /\ nextFrame \in Nat
  BY WalkParts
<1>2. Follows(p, walked, nextFrame) /\ SoundPage(p, nextFrame)
  BY <1>1, AsksForGap DEF Follows
<1> HIDE DEF p
<1>3. MayEmit(p, kind) /\ 3 \in Nat \ {0}
  BY DEF MayEmit, RowKinds
<1>4. \E m : q = HardGap(m) /\ Follows(m, p, nextFrame) /\ AllUsed(m)
  BY <1>1, <1>2, <1>3, Writes DEF p
<1>5. PICK m : q = HardGap(m) /\ Follows(m, p, nextFrame) /\ AllUsed(m)
  BY <1>4
<1>6. Follows(m, walked, nextFrame) /\ SoundPage(m, nextFrame)
  BY <1>1, <1>2, <1>5, FollowsOn DEF Follows
<1>7. Follows(q, m, nextFrame) /\ AllUsed(q)
  BY <1>5, <1>6, AsksForGap
<1>8. Follows(q, walked, nextFrame)
  BY <1>1, <1>6, <1>7, FollowsOn
<1> QED BY <1>7, <1>8, BlockEnds

LEMMA CodeKeeps ==
  ASSUME WalkHolds, Code(1)
  PROVE  WalkHolds'
<1> DEFINE p == Gap(walked)
           m == EmitRows(p, "code", 3)
<1>1. SoundPage(walked, nextFrame) /\ nextFrame \in Nat
  BY WalkParts
<1>2. Follows(p, walked, nextFrame) /\ SoundPage(p, nextFrame)
  BY <1>1, AsksForGap DEF Follows
<1>3. Block("code", Gap(m)) /\ toc' = toc
  BY DEF Code
<1> HIDE DEF p
<1>4. MayEmit(p, "code") /\ 3 \in Nat \ {0}
  BY DEF MayEmit, RowKinds
<1>5. Follows(m, p, nextFrame) /\ AllUsed(m)
  BY <1>1, <1>2, <1>4, Writes
<1> HIDE DEF m
<1>6. Follows(m, walked, nextFrame) /\ SoundPage(m, nextFrame)
  BY <1>1, <1>2, <1>5, FollowsOn DEF Follows
<1>7. Follows(Gap(m), m, nextFrame) /\ AllUsed(Gap(m))
  BY <1>5, <1>6, AsksForGap
<1>8. Follows(Gap(m), walked, nextFrame)
  BY <1>1, <1>6, <1>7, FollowsOn
<1> QED BY <1>3, <1>7, <1>8, BlockEnds

LEMMA RuleTableHtmlKeep ==
  ASSUME WalkHolds, Rule \/ Table \/ Html
  PROVE  WalkHolds'
<1>1. CASE Rule
  BY <1>1, FencedKeeps DEF Rule
<1>2. CASE Table
  BY <1>2, FencedKeeps DEF Table
<1>3. CASE Html
  BY <1>3, FencedKeeps DEF Html
<1> QED BY <1>1, <1>2, <1>3

\* What is written inside a frame of its own, the frame gone again: the rows bear what
\* is around it, and the row after its beginning is the first that was written in it.
Framing(q, p, kind, from, n) ==
  /\ Follows(q, p, n) /\ AllUsed(q)
  /\ from + 1 \in 1..Len(q.rows) /\ q.rows[from + 1].kind = kind

LEMMA HeadingWrites ==
  ASSUME NEW n \in Nat \ {0}, NEW p, SoundPage(p, n), \A a \in 1..Len(p.frames) : p.frames[a].id # 0
  PROVE  /\ Framing(Pop(EmitRows(PushFrame(p, 0, "heading"), "heading", 1)), p, "heading",
                    Len(PushFrame(p, 0, "heading").rows), n)
         /\ ~PushFrame(p, 0, "heading").gap
<1> DEFINE b == PushFrame(p, 0, "heading")
           e == EmitRows(b, "heading", 1)
           q == Pop(e)
           f == Len(p.frames)
<1>1. Pushed(b, p, 0, n)
  BY FramePushed DEF FrameKinds
<1> HIDE DEF b
<1>2. /\ SoundPage(b, n) /\ Extends(b, p) /\ BearsAll(b, p) /\ ~b.gap /\ Len(b.frames) = f + 1
      /\ \A a \in 1..f : b.frames[a] = p.frames[a]
  BY <1>1 DEF Pushed
<1>3. MayEmit(b, "heading") /\ 1 \in Nat \ {0} /\ n \in Nat
  BY DEF MayEmit, RowKinds
<1>4. RowsEmitted(e, b, "heading", n)
  BY <1>2, <1>3, ManyEmitted
<1> HIDE DEF e
<1>5. /\ SoundPage(e, n) /\ Extends(e, b) /\ SameFrames(e, b) /\ BearsAll(e, b) /\ AllUsed(e)
      /\ Len(e.rows) > Len(b.rows) /\ e.rows[Len(b.rows) + 1].kind = "heading"
  BY <1>2, <1>4 DEF RowsEmitted, Carries
<1>6. /\ p \in WalkPages /\ b \in WalkPages /\ e \in WalkPages
      /\ f \in Nat /\ Len(p.rows) \in Nat /\ Len(b.rows) \in Nat /\ Len(e.rows) \in Nat
      /\ Len(e.frames) \in Nat
  BY <1>2, <1>5, PageParts DEF SoundPage
<1>7. /\ Len(e.frames) = f + 1 /\ \A a \in 1..f : a \in 1..(f + 1)
      /\ \A a \in 1..f : e.frames[a].id = p.frames[a].id
  <2>1. Len(e.frames) = Len(b.frames) /\ \A a \in 1..Len(b.frames) : e.frames[a].id = b.frames[a].id
    BY <1>5 DEF SameFrames
  <2>2. \A a \in 1..f : a \in 1..(f + 1)
    BY <1>6
  <2> HIDE DEF f
  <2> QED BY <1>2, <2>1, <2>2
<1>8. e.frames # << >>
  BY <1>6, <1>7, EmptySeq
<1>9. Popped(q, e, n)
  BY <1>3, <1>5, <1>8, FramePopped
<1> HIDE DEF q
<1>10. /\ SoundPage(q, n) /\ q.rows = e.rows /\ Len(q.frames) = f
       /\ \A a \in 1..f : q.frames[a] = e.frames[a]
  BY <1>6, <1>7, <1>9 DEF Popped
<1>11. AllUsed(q)
  BY <1>5, <1>7, <1>10 DEF AllUsed
<1>12. Extends(q, p)
  BY <1>2, <1>5, <1>6, <1>10 DEF Extends
<1>13. SameFrames(q, p)
  BY <1>7, <1>10 DEF SameFrames
<1>14. BearsAll(q, p)
  <2> SUFFICES ASSUME NEW i \in (Len(p.rows) + 1)..Len(e.rows), NEW a \in 1..f
               PROVE  Bears(e.rows[i], p.frames[a].id)
    BY <1>10 DEF BearsAll
  <2>1. CASE i <= Len(b.rows)
    BY <1>6, <2>1, <1>5, <1>2 DEF Extends, BearsAll
  <2>2. CASE ~(i <= Len(b.rows))
    <3>1. i \in (Len(b.rows) + 1)..Len(e.rows) /\ a \in 1..Len(b.frames)
      BY <1>2, <1>6, <1>7, <2>2
    <3>2. Bears(e.rows[i], b.frames[a].id)
      BY <1>5, <3>1 DEF BearsAll
    <3> QED BY <1>2, <3>2
  <2> QED BY <2>1, <2>2
<1>15. Follows(q, p, n)
  BY <1>10, <1>12, <1>13, <1>14 DEF Follows, Carries
<1>16. Len(b.rows) + 1 \in 1..Len(q.rows) /\ q.rows[Len(b.rows) + 1].kind = "heading"
  BY <1>5, <1>6, <1>10
<1>17. Framing(q, p, "heading", Len(b.rows), n)
  BY <1>11, <1>15, <1>16 DEF Framing
<1> QED BY <1>2, <1>17 DEF q, e, b

\* A heading is in the table of contents with the row it begins on.
LEMMA HeadingListed ==
  ASSUME WalkHolds, NEW q, Follows(q, walked, nextFrame), NEW i \in 1..Len(q.rows),
         q.rows[i].kind = "heading"
  PROVE  Append(toc, i) \in Seq(Nat) /\ TocFits(Append(toc, i), q.rows)
<1> DEFINE ts == Append(toc, i)
           k == Len(toc)
<1>1. q \in WalkPages /\ Len(q.rows) \in Nat /\ Len(walked.rows) \in Nat /\ toc \in Seq(Nat)
  BY WalkParts, PageParts DEF Follows, SoundPage
<1>2. Len(walked.rows) <= Len(q.rows) /\ \A j \in 1..Len(walked.rows) : q.rows[j] = walked.rows[j]
  BY DEF Follows, Carries, Extends
<1>3. TocFits(toc, q.rows)
  BY <1>1, <1>2, TocStays DEF WalkHolds, WalkIndexed
<1>4. /\ ts \in Seq(Nat) /\ Len(ts) = k + 1 /\ ts[k + 1] = i /\ k \in Nat
      /\ \A j \in 1..k : ts[j] = toc[j]
  BY <1>1, AppendProperties, LenProperties
<1> HIDE DEF ts, k
<1>5. \A j \in 1..Len(ts) : j \in 1..k \/ j = k + 1
  BY <1>4
<1>6. \A j \in 1..k : toc[j] \in 1..Len(q.rows) /\ q.rows[toc[j]].kind = "heading"
  BY <1>3 DEF TocFits, k
<1>7. TocFits(ts, q.rows)
  BY <1>4, <1>5, <1>6 DEF TocFits
<1> QED BY <1>4, <1>7 DEF ts

LEMMA HeadingKeeps ==
  ASSUME WalkHolds, NEW level, Heading(level, 1)
  PROVE  WalkHolds'
<1> DEFINE p == HardGap(walked)
           b == PushFrame(p, 0, "heading")
           m == Pop(EmitRows(b, "heading", 1))
           r == IF level <= 2 THEN Emit(m, "rule") ELSE m
           q == HardGap(r)
           i == Len(b.rows) + 1
<1>1. SoundPage(walked, nextFrame) /\ nextFrame \in Nat \ {0}
  BY WalkParts
<1>2. Block("heading", q) /\ toc' = Append(toc, HeadingRow(b))
  BY DEF Heading
<1>3. Follows(p, walked, nextFrame) /\ SoundPage(p, nextFrame)
  BY <1>1, AsksForGap DEF Follows
<1>4. \A a \in 1..Len(p.frames) : p.frames[a].id # 0
  BY <1>3, WalkParts DEF Follows, Carries, SameFrames
<1> HIDE DEF p
<1>5. Framing(m, p, "heading", Len(b.rows), nextFrame) /\ ~b.gap
  BY <1>1, <1>3, <1>4, HeadingWrites
<1>6. HeadingRow(b) = i
  BY <1>1, <1>3, <1>4, FramePushed, PageParts, <1>5 DEF FrameKinds, Pushed, SoundPage,
     HeadingRow
<1>7. toc' = Append(toc, i)
  BY <1>2, <1>6
<1> HIDE DEF b, m
<1>8. /\ Follows(m, p, nextFrame) /\ AllUsed(m) /\ SoundPage(m, nextFrame)
      /\ i \in 1..Len(m.rows) /\ m.rows[i].kind = "heading"
  BY <1>5 DEF Framing, Follows
<1> HIDE DEF i
<1>9. Follows(r, m, nextFrame) /\ AllUsed(r)
  BY <1>1, <1>8, Writes, StillSound DEF MayEmit, RowKinds, SoundPage, Retouched, Follows
<1> HIDE DEF r
<1>10. Follows(q, r, nextFrame) /\ AllUsed(q)
  BY <1>9, AsksForGap DEF Follows
<1> HIDE DEF q
<1>11. Follows(q, m, nextFrame)
  BY <1>8, <1>9, <1>10, FollowsOn
<1>12. Follows(q, walked, nextFrame)
  BY <1>1, <1>3, <1>8, <1>11, FollowsOn
<1>13. i \in 1..Len(q.rows) /\ q.rows[i].kind = "heading"
  BY <1>11, <1>8, PageParts DEF Follows, Carries, Extends, SoundPage
<1>14. toc' \in Seq(Nat) /\ TocFits(toc', q.rows)
  BY <1>7, <1>12, <1>13, HeadingListed
<1>15. /\ walked' = q /\ open' = open /\ nextFrame' = nextFrame
       /\ spans' = IF open = << >> THEN spans \o Span(Len(walked.rows), q.rows) ELSE spans
  BY <1>2 DEF Block
<1>16. BlockDone(q)
  BY <1>10, <1>12, <1>14, <1>15 DEF BlockDone, Follows
<1> QED BY <1>16, BlockKeeps

\* A page says nothing of a container that has not been entered.
LEMMA PageIsWider ==
  ASSUME NEW n \in Nat \ {0}, NEW p, SoundPage(p, n)
  PROVE  SoundPage(p, n + 1)
<1>1. p \in WalkPages /\ SoundFrames(p, n) /\ SoundRows(p, n)
  BY DEF SoundPage
<1>2. Len(p.rows) \in Nat /\ \A i \in 1..Len(p.rows) : p.rows[i].prefix \in Seq(PrefixParts)
  BY <1>1, PageParts
<1>3. \A i \in 1..Len(p.rows) : \A k \in 1..Len(p.rows[i].prefix) :
        p.rows[i].prefix[k].frame < n /\ p.rows[i].prefix[k].frame \in Nat
  <2> TAKE i \in 1..Len(p.rows)
  <2> TAKE k \in 1..Len(p.rows[i].prefix)
  <2>1. p.rows[i].prefix[k] \in PrefixParts
    BY <1>2, ElementOfSeq
  <2> QED BY <1>1, <2>1 DEF SoundRows, PrefixParts
<1>4. \A i \in 1..Len(p.rows) : ~Bears(p.rows[i], n)
  BY <1>3 DEF Bears
<1>5. Tidy(p.rows, n)
  BY <1>4 DEF Tidy, TidyMarks, TidyBars, TidyHead
<1>6. SoundRows(p, n + 1)
  BY <1>3, <1>1, <1>5, SMTT(30) DEF SoundRows
<1>7. SoundFrames(p, n + 1)
  <2>1. \A a \in 1..Len(p.frames) : p.frames[a].id < n + 1
    <3> TAKE a \in 1..Len(p.frames)
    <3>1. p.frames[a].id < n
      BY <1>1 DEF SoundFrames
    <3>2. p.frames[a] \in WalkFrames
      BY <1>1, PageParts, ElementOfSeq
    <3> QED BY <3>1, <3>2 DEF WalkFrames
  <2> QED BY <1>1, <2>1 DEF SoundFrames
<1> QED BY <1>1, <1>6, <1>7 DEF SoundPage

\* What is kept for a container that is entered.
FreshContainer(c, kind) ==
  c \in Containers /\ c.kind = kind /\ c.id = nextFrame /\ c.before = Len(walked.rows)

LEMMA ContainerIsFresh ==
  ASSUME WalkHolds, NEW kind \in ContainerKinds
  PROVE  /\ FreshContainer(Container(kind), kind)
         /\ \A b \in BOOLEAN : FreshContainer([Container(kind) EXCEPT !.loose = b], kind)
<1>1. nextFrame \in Nat /\ Len(walked.rows) \in Nat /\ walked.tight \in BOOLEAN
  BY WalkParts, PageParts
<1> QED BY <1>1 DEF FreshContainer, Containers, Container

\* A container without a frame is entered.
LEMMA EntersPlainly ==
  ASSUME WalkHolds, NEW kind \in {"list", "definitions"}, NEW c, FreshContainer(c, kind), NEW q,
         Follows(q, walked, nextFrame), NEW what, Enter(what, q, c)
  PROVE  WalkHolds'
<1>1. nextFrame \in Nat \ {0}
  BY WalkParts
<1>2. SoundPage(q, nextFrame + 1)
  BY <1>1, PageIsWider DEF Follows
<1>3. /\ Extends(q, walked) /\ BearsAll(q, walked) /\ Len(q.frames) = Len(walked.frames)
      /\ \A a \in 1..Len(walked.frames) : q.frames[a].id = walked.frames[a].id
  BY DEF Follows, Carries, SameFrames
<1>4. c \in Containers /\ c.id = nextFrame /\ c.before = Len(walked.rows) /\ c.kind = kind
  BY DEF FreshContainer
<1>5. c.kind \notin Framed /\ c.kind # "item"
  BY <1>4 DEF Framed
<1>6. /\ walked' = q /\ open' = Append(open, c) /\ nextFrame' = nextFrame + 1
      /\ UNCHANGED <<toc, spans>>
  BY DEF Enter
<1>7. HasEntered(q, c)
  BY <1>2, <1>3, <1>4, <1>5, <1>6 DEF HasEntered
<1> QED BY <1>7, EnterKeeps

\* A container with a frame is entered, after what was written for it.
LEMMA EntersFramed ==
  ASSUME WalkHolds, NEW kind \in Framed, NEW c, FreshContainer(c, kind),
         kind = "item" => open # << >> /\ open[Len(open)].kind = "list",
         NEW p, Follows(p, walked, nextFrame), NEW b, Pushed(b, p, nextFrame, nextFrame),
         NEW q, Follows(q, b, nextFrame + 1), Ready(q), NEW what, Enter(what, q, c)
  PROVE  WalkHolds'
<1> DEFINE n == nextFrame
           l == Len(walked.rows)
           f == Len(walked.frames)
<1>1. n \in Nat \ {0} /\ l \in Nat /\ f \in Nat
  BY WalkParts
<1>2. /\ SoundPage(p, n) /\ Extends(p, walked) /\ BearsAll(p, walked) /\ Len(p.frames) = f
      /\ \A a \in 1..f : p.frames[a].id = walked.frames[a].id
  BY DEF Follows, Carries, SameFrames
<1>3. /\ SoundPage(b, n + 1) /\ Extends(b, p) /\ BearsAll(b, p) /\ Len(b.frames) = Len(p.frames) + 1
      /\ \A a \in 1..Len(p.frames) : b.frames[a] = p.frames[a]
      /\ b.frames[Len(p.frames) + 1].id = n
  BY DEF Pushed
<1>4. /\ SoundPage(q, n + 1) /\ Extends(q, b) /\ BearsAll(q, b) /\ Len(q.frames) = Len(b.frames)
      /\ \A a \in 1..Len(b.frames) : q.frames[a].id = b.frames[a].id
  BY DEF Follows, Carries, SameFrames
<1>5. Len(p.rows) \in Nat /\ Len(b.rows) \in Nat /\ Len(q.rows) \in Nat
  BY <1>2, <1>3, <1>4, PageParts DEF SoundPage
<1>6. /\ Len(q.frames) = f + 1 /\ q.frames[f + 1].id = n
      /\ \A a \in 1..f : /\ b.frames[a].id = walked.frames[a].id
                         /\ q.frames[a].id = walked.frames[a].id
                         /\ a \in 1..Len(p.frames) /\ a \in 1..Len(b.frames)
  <2>1. f + 1 \in 1..(f + 1) /\ \A a \in 1..f : a \in 1..(f + 1)
    BY <1>1
  <2> HIDE DEF f, n
  <2> QED BY <1>2, <1>3, <1>4, <2>1
<1> HIDE DEF f, n
<1>7. /\ l <= Len(p.rows) /\ Len(p.rows) <= Len(b.rows) /\ Len(b.rows) <= Len(q.rows)
      /\ \A i \in 1..l : p.rows[i] = walked.rows[i]
      /\ \A i \in 1..Len(p.rows) : b.rows[i] = p.rows[i]
      /\ \A i \in 1..Len(b.rows) : q.rows[i] = b.rows[i]
  BY <1>2, <1>3, <1>4 DEF Extends
<1>8. Extends(q, walked)
  BY <1>1, <1>5, <1>7 DEF Extends
<1>9. BearsAll(q, walked)
  <2> SUFFICES ASSUME NEW i \in (l + 1)..Len(q.rows), NEW a \in 1..f
               PROVE  Bears(q.rows[i], walked.frames[a].id)
    BY DEF BearsAll, f
  <2>1. CASE i <= Len(p.rows)
    BY <1>1, <1>5, <1>7, <2>1, <1>2 DEF BearsAll, f
  <2>2. CASE ~(i <= Len(p.rows)) /\ i <= Len(b.rows)
    <3>1. i \in (Len(p.rows) + 1)..Len(b.rows) /\ i \in 1..Len(b.rows)
      BY <1>1, <1>5, <1>7, <2>2
    <3>2. Bears(b.rows[i], p.frames[a].id)
      BY <1>3, <1>6, <3>1 DEF BearsAll
    <3> QED BY <1>2, <1>7, <3>1, <3>2 DEF f
  <2>3. CASE ~(i <= Len(b.rows))
    <3>1. i \in (Len(b.rows) + 1)..Len(q.rows)
      BY <1>1, <1>5, <1>7, <2>3
    <3>2. Bears(q.rows[i], b.frames[a].id)
      BY <1>4, <1>6, <3>1 DEF BearsAll
    <3> QED BY <1>6, <3>2
  <2> QED BY <1>5, <2>1, <2>2, <2>3
<1>10. c \in Containers /\ c.id = nextFrame /\ c.before = Len(walked.rows) /\ c.kind = kind
  BY DEF FreshContainer
<1>11. /\ walked' = q /\ open' = Append(open, c) /\ nextFrame' = nextFrame + 1
       /\ UNCHANGED <<toc, spans>>
  BY DEF Enter
<1>12. HasEntered(q, c)
  BY <1>4, <1>6, <1>8, <1>9, <1>10, <1>11 DEF HasEntered, f, n
<1> QED BY <1>12, EnterKeeps

\* What is written first in a container may be a paragraph of its own.
LEMMA PushedIsReady ==
  ASSUME NEW n \in Nat \ {0}, NEW p, SoundPage(p, n), NEW b, Pushed(b, p, n, n)
  PROVE  SoundPage(b, n + 1) /\ Ready(b)
<1>1. Len(b.frames) = Len(p.frames) + 1 /\ ~b.gap /\ Untouched(b.rows, n)
  BY DEF Pushed
<1>2. b.frames[Len(b.frames)].id = n
  BY <1>1 DEF Pushed
<1> QED BY <1>1, <1>2 DEF Ready, Pushed

\* A container begins, tight or not.
LEMMA BeginsReady ==
  ASSUME NEW n, NEW b, SoundPage(b, n), Ready(b), NEW t \in BOOLEAN
  PROVE  Follows([b EXCEPT !.tight = t], b, n) /\ Ready([b EXCEPT !.tight = t])
<1> DEFINE q == [b EXCEPT !.tight = t]
<1>1. Retouched(q, b) /\ q.gap = b.gap
  BY Retouches DEF SoundPage
<1> HIDE DEF q
<1>2. Follows(q, b, n)
  BY <1>1, StillSound DEF Follows
<1>3. Ready(q)
  BY <1>1 DEF Ready, Retouched
<1> QED BY <1>2, <1>3 DEF q

\* Where a frame is pushed, the containers' own are there.
LEMMA PushesOn ==
  ASSUME WalkHolds, NEW p, Follows(p, walked, nextFrame), NEW kind \in Framed
  PROVE  /\ Pushed(PushFrame(p, nextFrame, kind), p, nextFrame, nextFrame)
         /\ SoundPage(PushFrame(p, nextFrame, kind), nextFrame + 1)
         /\ Ready(PushFrame(p, nextFrame, kind))
<1>1. nextFrame \in Nat \ {0} /\ SoundPage(p, nextFrame) /\ kind \in FrameKinds
  BY WalkParts DEF Follows, Framed, FrameKinds
<1>2. \A a \in 1..Len(p.frames) : p.frames[a].id # 0
  BY WalkParts DEF Follows, Carries, SameFrames
<1>3. Pushed(PushFrame(p, nextFrame, kind), p, nextFrame, nextFrame)
  BY <1>1, <1>2, FramePushed
<1> QED BY <1>1, <1>3, PushedIsReady

LEMMA WalkFollows ==
  ASSUME WalkHolds
  PROVE  Follows(walked, walked, nextFrame)
<1>1. Retouched(walked, walked)
  BY WalkParts DEF Retouched
<1> QED BY <1>1, WalkParts, StillSound DEF Follows

LEMMA OpenQuoteKeeps ==
  ASSUME WalkHolds, NEW alert \in BOOLEAN, OpenQuote(alert)
  PROVE  WalkHolds'
<1> DEFINE p == HardGap(walked)
           b == PushFrame(p, nextFrame, "quote")
           m == Titled(b, alert)
           q == [m EXCEPT !.tight = FALSE]
<1>1. Enter("quote", q, Container("quote"))
  BY DEF OpenQuote
<1>2. FreshContainer(Container("quote"), "quote")
  BY ContainerIsFresh DEF ContainerKinds
<1>3. Follows(p, walked, nextFrame) /\ "quote" \in Framed
  BY WalkParts, AsksForGap DEF Framed
<1> HIDE DEF p
<1>4. /\ Pushed(b, p, nextFrame, nextFrame) /\ SoundPage(b, nextFrame + 1) /\ Ready(b)
      /\ nextFrame + 1 \in Nat
  BY <1>3, PushesOn, WalkParts
<1> HIDE DEF b
<1>5. Follows(m, b, nextFrame + 1) /\ Ready(m) /\ SoundPage(m, nextFrame + 1)
  <2>1. CASE alert
    BY <2>1, <1>4, Writes, PageParts, EmptySeq DEF Titled, MayEmit, RowKinds, Follows,
       SoundPage, Ready, AllUsed
  <2>2. CASE ~alert
    BY <1>4, <2>2, StillSound DEF Titled, SoundPage, Retouched, Follows
  <2> QED BY <2>1, <2>2
<1> HIDE DEF m
<1>6. Follows(q, m, nextFrame + 1) /\ Ready(q)
  BY <1>5, BeginsReady
<1> HIDE DEF q
<1>7. Follows(q, b, nextFrame + 1)
  BY <1>4, <1>5, <1>6, FollowsOn
<1> QED BY <1>1, <1>2, <1>3, <1>4, <1>6, <1>7, EntersFramed

LEMMA OpenListKeeps ==
  ASSUME WalkHolds, NEW loose \in BOOLEAN, OpenList(loose)
  PROVE  WalkHolds'
<1> DEFINE c == [Container("list") EXCEPT !.loose = loose]
<1>1. Enter("list", Gap(walked), c)
  BY DEF OpenList
<1>2. FreshContainer(c, "list")
  BY ContainerIsFresh DEF ContainerKinds
<1> HIDE DEF c
<1>3. Follows(Gap(walked), walked, nextFrame)
  BY WalkParts, AsksForGap
<1> QED BY <1>1, <1>2, <1>3, EntersPlainly

LEMMA OpenItemKeeps ==
  ASSUME WalkHolds, OpenItem
  PROVE  WalkHolds'
<1> DEFINE b == PushFrame(walked, nextFrame, "item")
           t == ~Last(open).loose
           q == [b EXCEPT !.tight = t]
           c == Container("item")
<1>1. Enter("item", q, c) /\ open # << >> /\ open[Len(open)].kind = "list"
  BY DEF OpenItem, Around, Last
<1>2. FreshContainer(c, "item") /\ t \in BOOLEAN /\ "item" \in Framed
  BY ContainerIsFresh DEF ContainerKinds, Framed
<1>3. Follows(walked, walked, nextFrame)
  BY WalkFollows
<1> HIDE DEF c, t
<1>4. Pushed(b, walked, nextFrame, nextFrame) /\ SoundPage(b, nextFrame + 1) /\ Ready(b)
  BY <1>2, <1>3, PushesOn
<1> HIDE DEF b
<1>5. Follows(q, b, nextFrame + 1) /\ Ready(q)
  BY <1>2, <1>4, BeginsReady
<1> HIDE DEF q
<1> QED BY <1>1, <1>2, <1>3, <1>4, <1>5, EntersFramed

LEMMA OpenNoteKeeps ==
  ASSUME WalkHolds, OpenNote
  PROVE  WalkHolds'
<1> DEFINE p == HardGap(walked)
           b == PushFrame(p, nextFrame, "note")
           c == Container("note")
<1>1. Enter("note", b, c)
  BY DEF OpenNote
<1>2. FreshContainer(c, "note") /\ "note" \in Framed
  BY ContainerIsFresh DEF ContainerKinds, Framed
<1>3. Follows(p, walked, nextFrame)
  BY WalkParts, AsksForGap
<1> HIDE DEF c, p
<1>4. Pushed(b, p, nextFrame, nextFrame) /\ SoundPage(b, nextFrame + 1) /\ Ready(b)
  BY <1>2, <1>3, PushesOn
<1> HIDE DEF b
<1>5. Follows(b, b, nextFrame + 1)
  BY <1>4, StillSound DEF Retouched, SoundPage, Follows
<1>6. "note" # "item"
  OBVIOUS
<1> QED BY <1>1, <1>2, <1>3, <1>4, <1>5, <1>6, EntersFramed

LEMMA OpenDefinitionsKeeps ==
  ASSUME WalkHolds, OpenDefinitions
  PROVE  WalkHolds'
<1> DEFINE c == Container("definitions")
<1>1. Enter("definition", walked, c)
  BY DEF OpenDefinitions
<1>2. FreshContainer(c, "definitions")
  BY ContainerIsFresh DEF ContainerKinds
<1> HIDE DEF c
<1> QED BY <1>1, <1>2, WalkFollows, EntersPlainly

LEMMA TermKeeps ==
  ASSUME WalkHolds, Term
  PROVE  WalkHolds'
<1> DEFINE g == Gap(walked)
           p == Emit(g, "term")
           b == PushFrame(p, nextFrame, "definition")
           c == Container("definition")
<1>1. Enter("definition", b, c)
  BY DEF Term
<1>2. FreshContainer(c, "definition") /\ "definition" \in Framed
  BY ContainerIsFresh DEF ContainerKinds, Framed
<1>3. Follows(g, walked, nextFrame) /\ nextFrame \in Nat /\ SoundPage(walked, nextFrame)
  BY WalkParts, AsksForGap
<1> HIDE DEF c, g
<1>4. MayEmit(g, "term")
  BY DEF MayEmit, RowKinds
<1>5. Follows(p, g, nextFrame)
  BY <1>3, <1>4, Writes DEF Follows
<1> HIDE DEF p
<1>6. Follows(p, walked, nextFrame)
  BY <1>3, <1>5, FollowsOn
<1>7. Pushed(b, p, nextFrame, nextFrame) /\ SoundPage(b, nextFrame + 1) /\ Ready(b)
  BY <1>2, <1>6, PushesOn
<1> HIDE DEF b
<1>8. Follows(b, b, nextFrame + 1)
  BY <1>7, StillSound DEF Retouched, SoundPage, Follows
<1>9. "definition" # "item"
  OBVIOUS
<1> QED BY <1>1, <1>2, <1>6, <1>7, <1>8, <1>9, EntersFramed

\* A container's frame is gone, and what was asked for at its end is not charged to it.
Quits(q) ==
  /\ SoundPage(q, nextFrame) /\ q.rows = walked.rows /\ Len(q.frames) = Len(walked.frames) - 1
  /\ \A a \in 1..(Len(walked.frames) - 1) : q.frames[a] = walked.frames[a]

LEMMA PopQuits ==
  ASSUME WalkHolds, open # << >>, open[Len(open)].kind \in Framed, NEW p, Retouched(p, walked)
  PROVE  Quits(PopQuietly(p))
<1> DEFINE m == [p EXCEPT !.gap = FALSE]
           q == Pop(m)
<1>1. SoundPage(walked, nextFrame) /\ nextFrame \in Nat /\ walked.frames # << >>
  BY WalkParts, LastFrame
<1>2. SoundPage(p, nextFrame) /\ p \in WalkPages /\ p.rows = walked.rows /\ p.frames = walked.frames
  BY <1>1, StillSound DEF Retouched
<1>3. Retouched(m, p)
  BY <1>2, Retouches
<1> HIDE DEF m
<1>4. SoundPage(m, nextFrame) /\ m.rows = walked.rows /\ m.frames = walked.frames
  BY <1>2, <1>3, StillSound DEF Retouched
<1>5. Popped(q, m, nextFrame)
  BY <1>1, <1>4, FramePopped
<1>6. q = PopQuietly(p)
  BY DEF PopQuietly, m
<1> HIDE DEF q
<1>7. Quits(q)
  BY <1>4, <1>5 DEF Popped, Quits
<1> QED BY <1>6, <1>7

LEMMA QuitsSoftly ==
  ASSUME NEW p, Quits(p)
  PROVE  Quits(HardGap(p)) /\ Quits(Gap(p))
<1>1. SoundPage(p, nextFrame) /\ p \in WalkPages
  BY DEF Quits, SoundPage
<1>2. Retouched(HardGap(p), p) /\ Retouched(Gap(p), p)
  BY <1>1, Retouches
<1>3. SoundPage(HardGap(p), nextFrame) /\ SoundPage(Gap(p), nextFrame)
  BY <1>1, <1>2, StillSound
<1> QED BY <1>2, <1>3 DEF Quits, Retouched

\* The containers around the innermost, which is left.
GoesBackTo(around) ==
  LET n == Len(open)
  IN  /\ around \in Seq(Containers) /\ Len(around) = n - 1
      /\ \A j \in 1..(n - 1) : /\ around[j].kind = open[j].kind /\ around[j].id = open[j].id
                               /\ around[j].before = open[j].before

LEMMA GoesBack ==
  ASSUME WalkHolds, open # << >>
  PROVE  GoesBackTo(Front(open)) /\ Last(open) = open[Len(open)]
<1>1. open \in Seq(Containers)
  BY WalkParts
<1>2. /\ Front(open) \in Seq(Containers) /\ Len(Front(open)) = Len(open) - 1
      /\ \A i \in 1..(Len(open) - 1) : Front(open)[i] = open[i]
  BY <1>1, FrontIs
<1> QED BY <1>2 DEF GoesBackTo, Last

\* Where something was said, every marker of the containers around is written.
LEMMA SaidInside ==
  ASSUME WalkHolds, Said
  PROVE  /\ open # << >>
         /\ open[Len(open)].kind \in Framed =>
              \A a \in 1..(Len(walked.frames) - 1) : walked.frames[a].used
         /\ open[Len(open)].kind \notin Framed => AllUsed(walked)
<1> DEFINE f == Len(walked.frames)
           c == open[Len(open)]
<1>1. open # << >>
  BY DEF Said
<1>2. /\ c.kind \in Framed => \A a \in 1..(f - 1) : walked.frames[a].id < c.id
      /\ c.kind \notin Framed => \A a \in 1..f : walked.frames[a].id < c.id
  BY <1>1, LastFrame
<1>3. \A a \in 1..f : walked.frames[a].id < c.id => walked.frames[a].used
  BY SaidAround
<1>4. f \in Nat /\ \A a \in 1..(f - 1) : a \in 1..f
  BY WalkParts
<1> QED BY <1>1, <1>2, <1>3, <1>4 DEF AllUsed

LEMMA LeavesFramed ==
  ASSUME WalkHolds, open # << >>, open[Len(open)].kind \in Framed,
         Said \/ open[Len(open)].kind = "item",
         NEW q, Quits(q), NEW around, GoesBackTo(around), NEW kind, Leave(kind, q, around)
  PROVE  WalkHolds'
<1> DEFINE f == Len(walked.frames)
<1>1. /\ SoundPage(q, nextFrame) /\ q.rows = walked.rows /\ Len(q.frames) = f - 1
      /\ \A a \in 1..(f - 1) : q.frames[a] = walked.frames[a]
  BY DEF Quits
<1>2. Len(walked.rows) \in Nat
  BY WalkParts
<1>3. Extends(q, walked) /\ \A i : i \notin (Len(walked.rows) + 1)..Len(q.rows)
  BY <1>1, <1>2 DEF Extends
<1>4. AllUsed(q) \/ open[Len(open)].kind = "item"
  BY <1>1, SaidInside DEF AllUsed
<1>5. /\ walked' = q /\ open' = around /\ UNCHANGED <<nextFrame, toc>>
      /\ spans' = IF Len(open) = 1 THEN spans \o Span(open[1].before, q.rows) ELSE spans
  BY DEF Leave
<1>6. HasLeft(q, around)
  BY <1>1, <1>3, <1>4, <1>5 DEF HasLeft, GoesBackTo
<1> QED BY <1>6, LeaveKeeps

LEMMA LeavesPlainly ==
  ASSUME WalkHolds, Said, open[Len(open)].kind \notin Framed,
         NEW q, Follows(q, walked, nextFrame), AllUsed(q), NEW kind, Leave(kind, q, Front(open))
  PROVE  WalkHolds'
<1>1. open # << >> /\ GoesBackTo(Front(open))
  BY SaidInside, GoesBack
<1>2. /\ SoundPage(q, nextFrame) /\ Extends(q, walked) /\ Len(q.frames) = Len(walked.frames)
      /\ \A a \in 1..Len(walked.frames) : q.frames[a].id = walked.frames[a].id
      /\ \A i \in (Len(walked.rows) + 1)..Len(q.rows), a \in 1..Len(walked.frames) :
           Bears(q.rows[i], walked.frames[a].id)
  BY DEF Follows, Carries, SameFrames, BearsAll
<1>3. /\ walked' = q /\ open' = Front(open) /\ UNCHANGED <<nextFrame, toc>>
      /\ spans' = IF Len(open) = 1 THEN spans \o Span(open[1].before, q.rows) ELSE spans
  BY DEF Leave
<1>4. HasLeft(q, Front(open))
  BY <1>1, <1>2, <1>3 DEF HasLeft, GoesBackTo
<1> QED BY <1>4, LeaveKeeps

LEMMA CloseQuoteKeeps ==
  ASSUME WalkHolds, CloseQuote
  PROVE  WalkHolds'
<1> DEFINE t == Last(open).tight
           p == [walked EXCEPT !.tight = t]
           m == PopQuietly(p)
           q == HardGap(m)
<1>1. Said /\ Leave("quote", q, Front(open)) /\ open # << >> /\ open[Len(open)].kind = "quote"
  BY DEF CloseQuote, Leave, Around, Said, Last
<1>2. "quote" \in Framed
  BY DEF Framed
<1>3. t \in BOOLEAN
  BY <1>1, WalkParts DEF Last
<1> HIDE DEF t
<1>4. Retouched(p, walked)
  BY <1>3, WalkParts, Retouches
<1> HIDE DEF p
<1>5. Quits(m)
  BY <1>1, <1>2, <1>4, PopQuits
<1> HIDE DEF m
<1>6. Quits(q)
  BY <1>5, QuitsSoftly
<1> HIDE DEF q
<1> QED BY <1>1, <1>2, <1>6, GoesBack, LeavesFramed

LEMMA CloseNoteKeeps ==
  ASSUME WalkHolds, CloseNote
  PROVE  WalkHolds'
<1> DEFINE m == PopQuietly(walked)
           q == HardGap(m)
<1>1. Said /\ Leave("note", q, Front(open)) /\ open # << >> /\ open[Len(open)].kind = "note"
  BY DEF CloseNote, Leave, Around, Said, Last
<1>2. "note" \in Framed
  BY DEF Framed
<1>3. Retouched(walked, walked)
  BY WalkParts DEF Retouched
<1>4. Quits(m)
  BY <1>1, <1>2, <1>3, PopQuits
<1> HIDE DEF m
<1>5. Quits(q)
  BY <1>4, QuitsSoftly
<1> HIDE DEF q
<1> QED BY <1>1, <1>2, <1>5, GoesBack, LeavesFramed

LEMMA CloseDefinitionKeeps ==
  ASSUME WalkHolds, CloseDefinition
  PROVE  WalkHolds'
<1> DEFINE q == PopQuietly(walked)
<1>1. /\ Said /\ Leave("definition", q, Front(open)) /\ open # << >>
      /\ open[Len(open)].kind = "definition"
  BY DEF CloseDefinition, Leave, Around, Said, Last
<1>2. "definition" \in Framed
  BY DEF Framed
<1>3. Retouched(walked, walked)
  BY WalkParts DEF Retouched
<1>4. Quits(q)
  BY <1>1, <1>2, <1>3, PopQuits
<1> HIDE DEF q
<1> QED BY <1>1, <1>2, <1>4, GoesBack, LeavesFramed

LEMMA CloseDefinitionsKeeps ==
  ASSUME WalkHolds, CloseDefinitions
  PROVE  WalkHolds'
<1> DEFINE q == HardGap(walked)
<1>1. Said /\ Leave("definitions", q, Front(open)) /\ open[Len(open)].kind = "definitions"
  BY DEF CloseDefinitions, Leave, Around, Said, Last
<1>2. "definitions" \notin Framed
  BY DEF Framed
<1>3. AllUsed(walked)
  BY <1>1, <1>2, SaidInside
<1>4. Follows(q, walked, nextFrame) /\ AllUsed(q)
  BY <1>3, WalkParts, AsksForGap
<1> HIDE DEF q
<1> QED BY <1>1, <1>2, <1>4, LeavesPlainly

LEMMA CloseListKeeps ==
  ASSUME WalkHolds, CloseList
  PROVE  WalkHolds'
<1> DEFINE m == IF Last(open).tasks >= 2 THEN Emit(walked, "progress") ELSE walked
           q == Gap(m)
<1>1. Said /\ Leave("list", q, Front(open)) /\ open[Len(open)].kind = "list"
  BY DEF CloseList, Leave, Around, Said, Last
<1>2. "list" \notin Framed
  BY DEF Framed
<1>3. AllUsed(walked)
  BY <1>1, <1>2, SaidInside
<1>4. SoundPage(walked, nextFrame) /\ nextFrame \in Nat /\ MayEmit(walked, "progress")
  BY WalkParts DEF MayEmit, RowKinds
<1>5. Follows(Emit(walked, "progress"), walked, nextFrame) /\ AllUsed(Emit(walked, "progress"))
  BY <1>4, Writes
<1>6. Follows(m, walked, nextFrame) /\ AllUsed(m)
  BY <1>3, <1>5, WalkFollows
<1> HIDE DEF m
<1>7. Follows(q, m, nextFrame) /\ AllUsed(q)
  BY <1>6, AsksForGap DEF Follows
<1> HIDE DEF q
<1>8. Follows(q, walked, nextFrame)
  BY <1>4, <1>6, <1>7, FollowsOn
<1> QED BY <1>1, <1>2, <1>7, <1>8, LeavesPlainly

\* Counting a tick box changes nothing else of a list.
LEMMA CountedOn ==
  ASSUME NEW list \in Containers, NEW task
  PROVE  /\ Counted(list, task) \in Containers
         /\ Counted(list, task).kind = list.kind /\ Counted(list, task).id = list.id
         /\ Counted(list, task).before = list.before
<1> DEFINE x == list.tasks + (IF task = "none" THEN 0 ELSE 1)
           y == list.done + (IF task = "done" THEN 1 ELSE 0)
<1>1. x \in Nat /\ y \in Nat
  BY DEF Containers
<1>2. Counted(list, task) = [list EXCEPT !.tasks = x, !.done = y]
  BY DEF Counted
<1> HIDE DEF x, y
<1>3. [list EXCEPT !.tasks = x, !.done = y] \in Containers
  BY <1>1 DEF Containers
<1> QED BY <1>2, <1>3 DEF Containers

LEMMA CloseItemKeeps ==
  ASSUME WalkHolds, NEW task, CloseItem(task)
  PROVE  WalkHolds'
<1> DEFINE n == Len(open)
           list == open[n - 1]
           t == Last(open).tight
           w == [walked EXCEPT !.tight = t]
           p == PopQuietly(w)
           q == IF list.loose THEN Gap(p) ELSE p
           front == Front(Front(open))
           around == Append(front, Counted(list, task))
<1>1. Leave("item", q, around) /\ open # << >> /\ open[n].kind = "item"
  BY DEF CloseItem, Leave, Around, Last
<1>2. "item" \in Framed
  BY DEF Framed
<1>3. n \in Nat /\ n \in 1..n /\ open \in Seq(Containers)
  BY <1>1, WalkParts
<1>4. n > 1 /\ list.kind = "list" /\ list \in Containers
  BY <1>1, <1>3, ElementOfSeq DEF WalkHolds, WalkInside, Nested
<1>5. t \in BOOLEAN
  BY <1>3, WalkParts DEF Last
<1> HIDE DEF t
<1>6. Retouched(w, walked)
  BY <1>5, WalkParts, Retouches
<1> HIDE DEF w
<1>7. Quits(p)
  BY <1>1, <1>2, <1>6, PopQuits
<1> HIDE DEF p
<1>8. Quits(q)
  BY <1>7, QuitsSoftly
<1> HIDE DEF q
<1>9. GoesBackTo(around)
  <2> DEFINE s == Front(open)
  <2>1. s \in Seq(Containers) /\ Len(s) = n - 1 /\ \A i \in 1..(n - 1) : s[i] = open[i]
    BY <1>1, <1>3, FrontIs
  <2> HIDE DEF s
  <2>2. s # << >>
    BY <1>3, <1>4, <2>1, EmptySeq
  <2>3. /\ Front(s) \in Seq(Containers) /\ Len(Front(s)) = n - 2
        /\ \A i \in 1..(n - 2) : Front(s)[i] = s[i]
    BY <2>1, <2>2, FrontIs, <1>3
  <2>4. front = Front(s)
    BY DEF s
  <2> HIDE DEF front
  <2> DEFINE c == Counted(list, task)
  <2>5. c \in Containers /\ c.kind = list.kind /\ c.id = list.id /\ c.before = list.before
    BY <1>4, CountedOn
  <2> HIDE DEF c
  <2>6. /\ around \in Seq(Containers) /\ Len(around) = n - 1 /\ around[n - 1] = c
        /\ \A j \in 1..(n - 2) : around[j] = front[j]
    BY <2>3, <2>4, <2>5, AppendProperties, <1>3 DEF c
  <2> HIDE DEF around
  <2>7. ASSUME NEW j \in 1..(n - 1)
        PROVE  /\ around[j].kind = open[j].kind /\ around[j].id = open[j].id
               /\ around[j].before = open[j].before
    <3>1. CASE j = n - 1
      BY <2>5, <2>6, <3>1
    <3>2. CASE j # n - 1
      <4>1. j \in 1..(n - 2)
        BY <1>3, <3>2
      <4>2. around[j] = open[j]
        BY <2>1, <2>3, <2>4, <2>6, <4>1
      <4> QED BY <4>2
    <3> QED BY <3>1, <3>2
  <2> QED BY <2>6, <2>7 DEF GoesBackTo
<1> HIDE DEF around
<1> QED BY <1>1, <1>2, <1>8, <1>9, LeavesFramed

LEMMA WalkBegins == WalkInit => WalkHolds
<1> SUFFICES ASSUME WalkInit PROVE WalkHolds
  OBVIOUS
<1>1. /\ walked = [rows |-> << >>, frames |-> << >>, gap |-> FALSE, tight |-> FALSE]
      /\ open = << >> /\ toc = << >> /\ spans = << >> /\ nextFrame = 1
  BY DEF WalkInit
<1>2. \A X : << >> \in Seq(X)
  BY EmptySeq
<1>3. Len(<< >>) = 0
  OBVIOUS
<1>4. walked \in WalkPages /\ walked.rows = << >> /\ walked.frames = << >>
  BY <1>1, <1>2 DEF WalkPages
<1>5. WalkTyped
  BY <1>1, <1>2 DEF WalkTyped
<1>6. SoundPage(walked, nextFrame)
  BY <1>3, <1>4, <1>1 DEF SoundFrames, SoundRows, SoundPage
<1>7. Nested /\ FramesMatch /\ Enclosed
  BY <1>1, <1>3, <1>4 DEF Nested, FramesMatch, Enclosed
<1>8. NothingAbove
  BY <1>4 DEF NothingAbove, Ready
<1>9. SpansFit(spans, walked.rows, Indexable)
  BY <1>1, <1>3, <1>4 DEF Indexable, SpansFit
<1>10. TocFits(toc, walked.rows)
  BY <1>1, <1>3 DEF TocFits
<1> QED BY <1>5, <1>6, <1>7, <1>8, <1>9, <1>10 DEF WalkHolds, WalkInside, WalkIndexed

LEMMA WalkGoesOn == WalkHolds /\ [WalkNext]_walkVars => WalkHolds'
<1> SUFFICES ASSUME WalkHolds, [WalkNext]_walkVars PROVE WalkHolds'
  OBVIOUS
<1>1. ASSUME NEW n \in 1..2, Paragraph(n) \/ BareText(n) PROVE WalkHolds'
  BY <1>1, ParagraphKeeps, BareTextKeeps
<1>2. ASSUME NEW level \in {1, 3}, Heading(level, 1) PROVE WalkHolds'
  BY <1>2, HeadingKeeps
<1>3. CASE Rule \/ Table \/ Html
  BY <1>3, RuleTableHtmlKeep
<1>4. CASE Code(1)
  BY <1>4, CodeKeeps
<1>5. ASSUME NEW alert \in BOOLEAN, OpenQuote(alert) PROVE WalkHolds'
  BY <1>5, OpenQuoteKeeps
<1>6. ASSUME NEW loose \in BOOLEAN, OpenList(loose) PROVE WalkHolds'
  BY <1>6, OpenListKeeps
<1>7. CASE OpenItem
  BY <1>7, OpenItemKeeps
<1>8. ASSUME NEW task \in {"none", "todo", "done"}, CloseItem(task) PROVE WalkHolds'
  BY <1>8, CloseItemKeeps
<1>9. CASE OpenNote
  BY <1>9, OpenNoteKeeps
<1>10. CASE OpenDefinitions
  BY <1>10, OpenDefinitionsKeeps
<1>11. CASE Term
  BY <1>11, TermKeeps
<1>12. CASE CloseQuote
  BY <1>12, CloseQuoteKeeps
<1>13. CASE CloseList
  BY <1>13, CloseListKeeps
<1>14. CASE CloseNote
  BY <1>14, CloseNoteKeeps
<1>15. CASE CloseDefinition
  BY <1>15, CloseDefinitionKeeps
<1>16. CASE CloseDefinitions
  BY <1>16, CloseDefinitionsKeeps
<1>17. CASE UNCHANGED walkVars
  <2>1. walked' = walked /\ open' = open /\ toc' = toc /\ spans' = spans /\ nextFrame' = nextFrame
    BY <1>17 DEF walkVars
  <2> QED BY <2>1 DEF WalkHolds, WalkInside, WalkIndexed, WalkTyped, Nested, FramesMatch, Enclosed,
                      NothingAbove, Indexable
<1> QED BY <1>1, <1>2, <1>3, <1>4, <1>5, <1>6, <1>7, <1>8, <1>9, <1>10, <1>11, <1>12, <1>13,
           <1>14, <1>15, <1>16, <1>17 DEF WalkNext

\* The rows of a container as the properties have them.
LEMMA RowsAre ==
  ASSUME WalkHolds, NEW id
  PROVE  /\ RowsOf(id) = {i \in 1..Len(walked.rows) : Bears(walked.rows[i], id)}
         /\ {i \in RowsOf(id) : ~IsGap(i)}
              = {i \in 1..Len(walked.rows) : Speaks(walked.rows[i], id)}
         /\ \A i \in 1..Len(walked.rows) : Marked(i, id) <=> Marks(walked.rows[i], id)
<1>1. /\ DOMAIN walked.rows = 1..Len(walked.rows)
      /\ \A i \in 1..Len(walked.rows) : DOMAIN walked.rows[i].prefix = 1..Len(walked.rows[i].prefix)
  BY WalkParts, PageParts
<1>2. RowsOf(id) = {i \in 1..Len(walked.rows) : Bears(walked.rows[i], id)}
  BY <1>1 DEF RowsOf, Bears
<1>3. \A i \in 1..Len(walked.rows) : Marked(i, id) <=> Marks(walked.rows[i], id)
  BY <1>1 DEF Marked, Marks
<1> QED BY <1>2, <1>3 DEF Speaks, IsGap

\* The least of some rows.
LEMMA MinIsLeast ==
  ASSUME NEW S \in SUBSET Nat, S # {}
  PROVE  Min(S) \in S /\ \A x \in S : Min(S) <= x
<1>1. \E x \in S : \A y \in S : x <= y
  BY NatLeast
<1> QED BY <1>1 DEF Min

\* The first row that says something in a container.
LEMMA FirstWordIs ==
  ASSUME WalkHolds, NEW id, NEW i \in 1..Len(walked.rows)
  PROVE  LET said == {j \in RowsOf(id) : ~IsGap(j)}
         IN  FirstWord(walked.rows, id, i) <=> (said # {} /\ i = Min(said))
<1> DEFINE said == {j \in RowsOf(id) : ~IsGap(j)}
           l == Len(walked.rows)
<1>1. said = {j \in 1..l : Speaks(walked.rows[j], id)} /\ l \in Nat
  BY RowsAre, WalkParts
<1> HIDE DEF said
<1>2. said \in SUBSET Nat
  BY <1>1
<1>3. said # {} => Min(said) \in said /\ \A x \in said : Min(said) <= x
  BY <1>2, MinIsLeast
<1>4. FirstWord(walked.rows, id, i) <=> i \in said /\ \A x \in said : i <= x
  BY <1>1 DEF FirstWord
<1>5. ASSUME i \in said, \A x \in said : i <= x PROVE said # {} /\ i = Min(said)
  <2>1. Min(said) \in said /\ Min(said) <= i /\ i <= Min(said)
    BY <1>3, <1>5
  <2>2. i \in Nat /\ Min(said) \in Nat
    BY <1>2, <1>5, <2>1
  <2>3. i = Min(said)
    BY <2>1, <2>2
  <2> QED BY <1>5, <2>3
<1> QED BY <1>3, <1>4, <1>5 DEF said

LEMMA MarksAreOnce == WalkHolds => MarkedOnce
<1> SUFFICES ASSUME WalkHolds, NEW id \in 1..(nextFrame - 1), NEW i \in RowsOf(id)
             PROVE  LET said == {j \in RowsOf(id) : ~IsGap(j)}
                    IN  Marked(i, id) <=> (said # {} /\ i = Min(said))
  BY DEF MarkedOnce
<1>1. i \in 1..Len(walked.rows) /\ Bears(walked.rows[i], id)
      /\ (Marked(i, id) <=> Marks(walked.rows[i], id))
  BY RowsAre
<1>2. Tidy(walked.rows, id)
  BY WalkParts DEF SoundPage, SoundRows
<1>3. Marks(walked.rows[i], id) <=> FirstWord(walked.rows, id, i)
  BY <1>1, <1>2 DEF Tidy, TidyMarks
<1> QED BY <1>1, <1>3, FirstWordIs

LEMMA BarsAreInside == WalkHolds => BarsStayInside
<1> SUFFICES ASSUME WalkHolds, NEW id \in 1..(nextFrame - 1)
             PROVE  LET own  == RowsOf(id)
                        said == {i \in own : ~IsGap(i)}
                        head == walked.rows[Min(said)]
                    IN  /\ own # {} => own = Min(own)..Max(own)
                        /\ /\ said # {} /\ head.kind \in {"text", "bare"}
                           /\ Last(head.prefix).frame = id
                           => Min(own) = Min(said)
  BY DEF BarsStayInside
<1> DEFINE own == RowsOf(id)
           said == {i \in own : ~IsGap(i)}
           head == walked.rows[Min(said)]
           l == Len(walked.rows)
<1>1. /\ own = {i \in 1..l : Bears(walked.rows[i], id)} /\ l \in Nat
      /\ said = {i \in 1..l : Speaks(walked.rows[i], id)}
  BY RowsAre, WalkParts
<1>2. Tidy(walked.rows, id)
  BY WalkParts DEF SoundPage, SoundRows
<1>3. said \subseteq own
  OBVIOUS
<1>4. said # {} => Min(said) \in 1..l /\ FirstWord(walked.rows, id, Min(said))
  <2>1. said \in SUBSET Nat
    BY <1>1
  <2>2. said # {} => Min(said) \in said
    BY <2>1, MinIsLeast
  <2>3. said # {} => Min(said) \in 1..l
    BY <1>1, <2>2
  <2> QED BY <2>3, FirstWordIs
<1> HIDE DEF own, said, l
<1>5. own \in SUBSET Nat /\ own \in SUBSET (0..l)
  BY <1>1
<1>6. ASSUME own # {} PROVE own = Min(own)..Max(own)
  <2>1. Min(own) \in own /\ \A x \in own : Min(own) <= x
    BY <1>5, <1>6, MinIsLeast
  <2>2. \E x \in own : \A y \in own : y <= x
    BY <1>1, <1>5, <1>6, IntervalGreatest
  <2>3. Max(own) \in own /\ \A x \in own : x <= Max(own)
    BY <2>2 DEF Max
  <2>4. ASSUME NEW m \in Min(own)..Max(own) PROVE m \in own
    <3>1. Min(own) \in 1..l /\ Max(own) \in 1..l /\ Min(own) <= m /\ m <= Max(own)
      BY <1>1, <2>1, <2>3
    <3>2. m \in 1..l
      BY <1>1, <3>1
    <3>3. Bears(walked.rows[Min(own)], id) /\ Bears(walked.rows[Max(own)], id)
      BY <1>1, <2>1, <2>3
    <3>4. Bears(walked.rows[m], id)
      BY <1>2, <3>1, <3>2, <3>3 DEF Tidy, TidyBars, l
    <3> QED BY <1>1, <3>2, <3>4
  <2>5. \A x \in own : x \in Min(own)..Max(own)
    BY <1>5, <2>1, <2>3
  <2> QED BY <2>4, <2>5
<1>7. ASSUME said # {}, head.kind \in {"text", "bare"}, Last(head.prefix).frame = id
      PROVE  Min(own) = Min(said)
  <2>1. Narrates(walked.rows[Min(said)], id) /\ Min(said) \in 1..l
        /\ FirstWord(walked.rows, id, Min(said))
    BY <1>4, <1>7 DEF Narrates
  <2>2. \A j \in 1..l : Bears(walked.rows[j], id) => Min(said) <= j
    BY <1>2, <2>1 DEF Tidy, TidyHead, l
  <2>3. \A j \in own : Min(said) <= j
    BY <1>1, <2>2
  <2>4. Min(said) \in own
    BY <2>1, <1>1 DEF FirstWord, Speaks
  <2>5. Min(own) \in own /\ \A x \in own : Min(own) <= x
    BY <1>5, <2>4, MinIsLeast
  <2>6. Min(own) <= Min(said) /\ Min(said) <= Min(own)
    BY <2>3, <2>4, <2>5
  <2>7. Min(own) \in Nat /\ Min(said) \in Nat
    BY <1>5, <2>4, <2>5
  <2> QED BY <2>6, <2>7
<1> QED BY <1>6, <1>7 DEF own, said

LEMMA IndexesAreRight == WalkHolds => IndexesAgree
<1> SUFFICES ASSUME WalkHolds PROVE IndexesAgree
  OBVIOUS
<1>1. /\ DOMAIN walked.rows = 1..Len(walked.rows) /\ spans \in Seq(BlockSpans) /\ toc \in Seq(Nat)
  BY WalkParts, PageParts
<1>2. DOMAIN spans = 1..Len(spans) /\ DOMAIN toc = 1..Len(toc)
  BY <1>1, LenProperties
<1>3. SpansFit(spans, walked.rows, Indexable) /\ TocFits(toc, walked.rows)
  BY DEF WalkHolds, WalkIndexed
<1>4. open = << >> => Indexable = Len(walked.rows)
  BY DEF Indexable
<1>5. \A a, b \in DOMAIN spans : a < b => spans[a].first + spans[a].count <= spans[b].first
  BY <1>2, <1>3 DEF SpansFit
<1>6. open = << >> =>
        \A i \in DOMAIN walked.rows :
          \/ \E k \in DOMAIN spans : i \in spans[k].first..(spans[k].first + spans[k].count - 1)
          \/ IsBlankRow(walked.rows[i])
  BY <1>1, <1>2, <1>3, <1>4 DEF SpansFit
<1>7. \A k \in DOMAIN spans : ~IsBlankRow(walked.rows[spans[k].first])
  BY <1>2, <1>3 DEF SpansFit
<1>8. \A k \in DOMAIN toc : walked.rows[toc[k]].kind = "heading"
  BY <1>2, <1>3 DEF TocFits
<1> QED BY <1>5, <1>6, <1>7, <1>8 DEF IndexesAgree

\* RowsKnowTheirBlocks for every document, however deep: each row has the markers and
\* bars of the containers it is in, each marker once and on the first words, and is
\* counted once in the indexes of the blocks and of the headings (render(), prefix(),
\* flush_gap(), push_frame()).
THEOREM RowsAlwaysKnowTheirBlocks == WalkSpec => []RowsKnowTheirBlocks
<1>1. WalkHolds => RowsKnowTheirBlocks
  BY MarksAreOnce, BarsAreInside, IndexesAreRight DEF RowsKnowTheirBlocks
<1> QED BY <1>1, WalkBegins, WalkGoesOn, PTL DEF WalkSpec

-----------------------------------------------------------------------------
(* The numbers of lists, whatever the document (ListNumbers).  Two lists have no    *)
(* line in common, or one is in an item of the other (ListsNested).  So the walk    *)
(* meets the items of a list when it is the innermost of those that are open, and   *)
(* has the number for it (WalkIs).                                                  *)

\* The number of columns a marker takes is one.
LEMMA WidthIsNat ==
  ASSUME NEW ln \in ListLines
  PROVE  Width(ln) \in Nat
BY DEF Width, ListLines

LEMMA LinesHave ==
  ASSUME NEW ls \in Seq(ListLines)
  PROVE  /\ Len(ls) \in Nat /\ DOMAIN ls = 1..Len(ls)
         /\ \A i \in 1..Len(ls) : /\ ls[i] \in ListLines /\ ls[i].col \in Nat
                                  /\ ls[i].number \in Nat /\ Width(ls[i]) \in Nat
         /\ Items(ls) \subseteq 1..Len(ls)
<1>1. Len(ls) \in Nat /\ DOMAIN ls = 1..Len(ls) /\ \A i \in 1..Len(ls) : ls[i] \in ListLines
  BY LenProperties, ElementOfSeq
<1>2. \A i \in 1..Len(ls) : ls[i].col \in Nat /\ ls[i].number \in Nat
  BY <1>1 DEF ListLines
<1> QED BY <1>1, <1>2, WidthIsNat DEF Items

\* The lines of an item are those that follow it up to one of them.
LEMMA InsideLess ==
  ASSUME NEW ls, NEW i \in Nat, NEW j \in Nat, NEW k \in Nat, Inside(ls, i, j), k <= i
  PROVE  Inside(ls, k, j)
BY DEF Inside

\* What is in an item of an item is in it.
LEMMA InsideJoins ==
  ASSUME NEW ls \in Seq(ListLines), NEW i \in 1..Len(ls), NEW j \in 1..Len(ls),
         NEW k \in 1..Len(ls), j <= k, k <= i, Inside(ls, k, j), Inside(ls, i, k)
  PROVE  Inside(ls, i, j)
<1>1. /\ Len(ls) \in Nat
      /\ \A m \in 1..Len(ls) : ls[m].col \in Nat /\ Width(ls[m]) \in Nat
  BY LinesHave
<1>2. CASE j = k
  BY <1>2
<1>3. CASE j < k
  <2> SUFFICES ASSUME NEW m \in (j + 1)..i PROVE ls[m].col >= ls[j].col + Width(ls[j])
    BY DEF Inside
  <2>1. m \in 1..Len(ls) /\ k \in (j + 1)..k
    BY <1>1, <1>3
  <2>2. ls[k].col >= ls[j].col + Width(ls[j])
    BY <2>1 DEF Inside
  <2>3. CASE m <= k
    BY <2>3 DEF Inside
  <2>4. CASE m > k
    <3>1. m \in (k + 1)..i
      BY <2>4
    <3>2. ls[m].col >= ls[k].col + Width(ls[k])
      BY <3>1 DEF Inside
    <3>3. /\ ls[m].col \in Nat /\ ls[k].col \in Nat /\ ls[j].col \in Nat
          /\ Width(ls[k]) \in Nat /\ Width(ls[j]) \in Nat
      BY <1>1, <2>1
    <3> QED BY <2>2, <3>2, <3>3, SMT
  <2> QED BY <2>3, <2>4
<1> QED BY <1>2, <1>3

\* The greatest and the least of some lines.
LEMMA MaxOfLines ==
  ASSUME NEW n \in Nat, NEW S \in SUBSET (0..n), S # {}
  PROVE  Max(S) \in S /\ \A x \in S : x <= Max(S)
<1>1. \E m \in S : \A x \in S : m >= x
  BY IntervalGreatest
<1> QED BY <1>1 DEF Max

LEMMA MinOfLines ==
  ASSUME NEW n \in Nat, NEW S \in SUBSET (0..n), S # {}
  PROVE  Min(S) \in S /\ \A x \in S : Min(S) <= x
<1>1. \E m \in S : \A x \in S : m <= x
  BY NatLeast
<1> QED BY <1>1 DEF Min

\* The item a line is in is the last of those that it is inside.
LEMMA AroundIs ==
  ASSUME NEW ls \in Seq(ListLines), NEW i \in 1..Len(ls)
  PROVE  LET a == ItemAround(ls, i)
         IN  /\ a \in 0..(i - 1)
             /\ a > 0 => a \in Items(ls) /\ Inside(ls, i, a)
             /\ \A j \in Items(ls) : j < i /\ Inside(ls, i, j) => j <= a
<1> DEFINE S == {0} \union {j \in Items(ls) : j < i /\ Inside(ls, i, j)}
<1>1. Len(ls) \in Nat /\ Items(ls) \subseteq 1..Len(ls)
  BY LinesHave
<1>2. S \in SUBSET (0..Len(ls)) /\ S # {} /\ ItemAround(ls, i) = Max(S)
  BY <1>1 DEF ItemAround
<1>3. Max(S) \in S /\ \A x \in S : x <= Max(S)
  BY <1>1, <1>2, MaxOfLines
<1>4. Max(S) \in 0..(i - 1)
  BY <1>1, <1>3
<1> QED BY <1>2, <1>3, <1>4

\* Two items are of one list if all there is beside them, from the one to the other, is
\* of their kind.
Alike(ls, i, k) ==
  /\ ItemAround(ls, i) = ItemAround(ls, k)
  /\ \A m \in i..k : ItemAround(ls, m) = ItemAround(ls, i) => ls[m].mark = ls[i].mark

LEMMA MinMaxOfTwo ==
  ASSUME NEW i \in Nat, NEW k \in Nat, i <= k
  PROVE  Min({i, k}) = i /\ Max({i, k}) = k /\ Min({k, i}) = i /\ Max({k, i}) = k
<1>1. {i, k} \in SUBSET (0..k) /\ {i, k} # {} /\ {i, k} = {k, i}
  OBVIOUS
<1>2. Max({i, k}) \in {i, k} /\ k <= Max({i, k}) /\ Min({i, k}) \in {i, k} /\ Min({i, k}) <= i
  BY <1>1, MaxOfLines, MinOfLines
<1> QED BY <1>1, <1>2

LEMMA OneListIs ==
  ASSUME NEW ls \in Seq(ListLines), NEW i \in 1..Len(ls), NEW k \in 1..Len(ls), i <= k
  PROVE  (OneList(ls, i, k) <=> Alike(ls, i, k)) /\ (OneList(ls, k, i) <=> Alike(ls, i, k))
<1>1. Min({i, k}) = i /\ Max({i, k}) = k /\ Min({k, i}) = i /\ Max({k, i}) = k
  <2>1. i \in Nat /\ k \in Nat
    BY LinesHave
  <2> QED BY <2>1, MinMaxOfTwo
<1>2. i \in i..k /\ k \in i..k
  BY LinesHave
<1>3. OneList(ls, i, k) <=> Alike(ls, i, k)
  BY <1>1, <1>2 DEF OneList, Alike
<1>4. OneList(ls, k, i) <=> Alike(ls, i, k)
  BY <1>1, <1>2 DEF OneList, Alike
<1> QED BY <1>3, <1>4

LEMMA OneListIsShared ==
  ASSUME NEW ls \in Seq(ListLines)
  PROVE  /\ \A i \in 1..Len(ls) : OneList(ls, i, i)
         /\ \A i, j \in 1..Len(ls) : OneList(ls, i, j) => OneList(ls, j, i)
         /\ \A i, j, k \in 1..Len(ls) : OneList(ls, i, j) /\ OneList(ls, j, k) => OneList(ls, i, k)
<1>1. Len(ls) \in Nat
  BY LinesHave
<1>2. ASSUME NEW i \in 1..Len(ls) PROVE OneList(ls, i, i)
  BY <1>1, OneListIs DEF Alike
<1>3. ASSUME NEW i \in 1..Len(ls), NEW j \in 1..Len(ls), OneList(ls, i, j) PROVE OneList(ls, j, i)
  BY <1>3, OneListIs, <1>1
<1>4. ASSUME NEW i \in 1..Len(ls), NEW k \in 1..Len(ls), OneList(ls, i, k)
      PROVE  /\ ItemAround(ls, i) = ItemAround(ls, k) /\ ls[i].mark = ls[k].mark
             /\ \A m \in 1..Len(ls) :
                  ((i <= m /\ m <= k) \/ (k <= m /\ m <= i))
                  /\ ItemAround(ls, m) = ItemAround(ls, i) => ls[m].mark = ls[i].mark
  BY <1>4, OneListIs, <1>1 DEF Alike
<1>5. ASSUME NEW i \in 1..Len(ls), NEW j \in 1..Len(ls), NEW k \in 1..Len(ls),
             OneList(ls, i, j), OneList(ls, j, k), i <= k
      PROVE  OneList(ls, i, k)
  BY <1>4, <1>5, <1>1, OneListIs DEF Alike
<1>6. ASSUME NEW i \in 1..Len(ls), NEW j \in 1..Len(ls), NEW k \in 1..Len(ls),
             OneList(ls, i, j), OneList(ls, j, k)
      PROVE  OneList(ls, i, k)
  BY <1>5, <1>6, <1>3, <1>1
<1> QED BY <1>2, <1>3, <1>6

LEMMA ListsHave ==
  ASSUME NEW ls \in Seq(ListLines)
  PROVE  /\ \A i \in Items(ls) : i \in ListOf(ls, i) /\ ListOf(ls, i) \in Lists(ls)
         /\ \A l \in Lists(ls) :
              /\ l \subseteq Items(ls) /\ l # {}
              /\ \A i \in l : ListOf(ls, i) = l
              /\ \A i \in l, j \in Items(ls) : j \in l <=> OneList(ls, i, j)
<1>1. Items(ls) \subseteq 1..Len(ls)
  BY LinesHave
<1>2. \A i \in Items(ls) : i \in ListOf(ls, i) /\ ListOf(ls, i) \in Lists(ls)
  BY <1>1, OneListIsShared DEF ListOf, Lists
<1>3. ASSUME NEW l \in Lists(ls)
      PROVE  /\ l \subseteq Items(ls) /\ l # {}
             /\ \A i \in l : ListOf(ls, i) = l
             /\ \A i \in l, j \in Items(ls) : j \in l <=> OneList(ls, i, j)
  BY <1>2, <1>1, OneListIsShared DEF Lists, ListOf
<1> QED BY <1>2, <1>3

\* Where a list begins and ends, and what its items have in common.
LEMMA ListSpans ==
  ASSUME NEW ls \in Seq(ListLines), NEW l \in Lists(ls)
  PROVE  /\ Min(l) \in l /\ Max(l) \in l /\ l \subseteq 1..Len(ls)
         /\ \A i \in l : Min(l) <= i /\ i <= Max(l)
         /\ LastLine(ls, l) \in 1..Len(ls) /\ Max(l) <= LastLine(ls, l)
         /\ Inside(ls, LastLine(ls, l), Max(l))
         /\ \A i \in 1..Len(ls) : Max(l) <= i /\ Inside(ls, i, Max(l)) => i <= LastLine(ls, l)
         /\ \A i, j \in l : /\ ItemAround(ls, i) = ItemAround(ls, j) /\ ls[i].mark = ls[j].mark
         /\ \A i \in Items(ls) :
              Min(l) <= i /\ i <= Max(l) /\ ItemAround(ls, i) = ItemAround(ls, Min(l)) => i \in l
<1>1. /\ Len(ls) \in Nat /\ DOMAIN ls = 1..Len(ls) /\ Items(ls) \subseteq 1..Len(ls)
      /\ l \subseteq Items(ls) /\ l # {}
      /\ \A i \in l, j \in Items(ls) : j \in l <=> OneList(ls, i, j)
  BY LinesHave, ListsHave
<1>2. l \in SUBSET (0..Len(ls))
  BY <1>1
<1>3. Min(l) \in l /\ Max(l) \in l /\ \A i \in l : Min(l) <= i /\ i <= Max(l)
  BY <1>1, <1>2, MinOfLines, MaxOfLines
<1> DEFINE last == Max(l)
           S == {i \in DOMAIN ls : i >= last /\ (i = last \/ Inside(ls, i, last))}
<1>4. last \in 1..Len(ls)
  BY <1>1, <1>3
<1>5. Inside(ls, last, last)
  BY <1>4 DEF Inside
<1>6. S \in SUBSET (0..Len(ls)) /\ last \in S /\ LastLine(ls, l) = Max(S)
  BY <1>1, <1>4 DEF LastLine
<1>7. Max(S) \in S /\ \A x \in S : x <= Max(S)
  BY <1>1, <1>6, MaxOfLines
<1>8. /\ LastLine(ls, l) \in 1..Len(ls) /\ last <= LastLine(ls, l)
      /\ Inside(ls, LastLine(ls, l), last)
      /\ \A i \in 1..Len(ls) : last <= i /\ Inside(ls, i, last) => i <= LastLine(ls, l)
  BY <1>1, <1>4, <1>5, <1>6, <1>7
<1>9. ASSUME NEW i \in l, NEW j \in l
      PROVE  ItemAround(ls, i) = ItemAround(ls, j) /\ ls[i].mark = ls[j].mark
  BY <1>1, OneListIs DEF Alike
<1>10. ASSUME NEW i \in Items(ls), Min(l) <= i, i <= last,
              ItemAround(ls, i) = ItemAround(ls, Min(l))
       PROVE  i \in l
  BY <1>1, <1>3, <1>4, OneListIs, <1>10 DEF Alike
<1> QED BY <1>1, <1>3, <1>8, <1>9, <1>10

\* Its items are among its lines.
LEMMA ListRuns ==
  ASSUME NEW ls \in Seq(ListLines), NEW l \in Lists(ls)
  PROVE  /\ Min(l) \in l /\ Min(l) \in Nat /\ LastLine(ls, l) \in Nat
         /\ \A i \in l : i \in Nat /\ Min(l) <= i /\ i <= LastLine(ls, l)
<1>1. /\ Min(l) \in l /\ Max(l) \in l /\ l \subseteq 1..Len(ls)
      /\ \A i \in l : Min(l) <= i /\ i <= Max(l)
  BY ListSpans
<1>2. LastLine(ls, l) \in 1..Len(ls) /\ Max(l) <= LastLine(ls, l)
  BY ListSpans
<1> DEFINE first == Min(l)
           last == Max(l)
           end == LastLine(ls, l)
<1>3. first \in Nat /\ last \in Nat /\ end \in Nat /\ last <= end
      /\ \A i \in l : i \in Nat /\ first <= i /\ i <= last
  <2>1. \A i \in l : i \in 1..Len(ls)
    BY <1>1
  <2>2. first \in 1..Len(ls) /\ last \in 1..Len(ls)
    BY <1>1, <2>1
  <2>3. \A i \in 1..Len(ls) : i \in Nat
    OBVIOUS
  <2>4. first \in Nat /\ last \in Nat /\ end \in Nat
    BY <1>2, <2>2, <2>3
  <2> HIDE DEF first, last, end
  <2> QED BY <1>1, <1>2, <2>1, <2>3, <2>4 DEF first, last, end
<1> HIDE DEF first, last, end
<1>4. \A i \in l : i <= end
  BY <1>3
<1> QED BY <1>1, <1>3, <1>4 DEF first, end

\* A list with an item among the lines of another is in one of that one's items.
LEMMA ListsNested ==
  ASSUME NEW ls \in Seq(ListLines), NEW l \in Lists(ls), NEW k \in Lists(ls), l # k,
         NEW i \in k, Min(l) <= i, i <= LastLine(ls, l)
  PROVE  Min(l) < Min(k) /\ LastLine(ls, k) <= LastLine(ls, l)
<1> DEFINE first == Min(l)
           last == Max(l)
           end == LastLine(ls, k)
           j == ItemAround(ls, i)
           a == ItemAround(ls, first)
<1>1. /\ Len(ls) \in Nat /\ Items(ls) \subseteq 1..Len(ls)
      /\ first \in l /\ last \in l /\ l \subseteq 1..Len(ls) /\ l \subseteq Items(ls)
      /\ k \subseteq 1..Len(ls) /\ k \subseteq Items(ls)
  BY LinesHave, ListsHave, ListSpans
<1>2. /\ i \in 1..Len(ls) /\ first \in 1..Len(ls) /\ last \in 1..Len(ls)
      /\ Min(k) \in 1..Len(ls) /\ Max(k) \in 1..Len(ls) /\ Min(k) \in k /\ Max(k) \in k
      /\ Min(k) <= i /\ i <= Max(k) /\ first <= last /\ first <= i
      /\ LastLine(ls, l) \in 1..Len(ls) /\ last <= LastLine(ls, l)
      /\ end \in 1..Len(ls) /\ Max(k) <= end
      /\ Inside(ls, LastLine(ls, l), last) /\ Inside(ls, end, Max(k))
      /\ \A x \in 1..Len(ls) : last <= x /\ Inside(ls, x, last) => x <= LastLine(ls, l)
  BY <1>1, ListSpans
<1>3. i \notin l
  BY ListsHave
<1>4. i # first /\ i # last /\ first < i
  BY <1>1, <1>2, <1>3
<1>5. /\ a \in 0..(first - 1) /\ (a > 0 => a \in Items(ls) /\ Inside(ls, first, a))
      /\ \A x \in Items(ls) : x < first /\ Inside(ls, first, x) => x <= a
  BY <1>2, AroundIs
<1>6. /\ j \in 0..(i - 1) /\ (j > 0 => j \in Items(ls) /\ Inside(ls, i, j))
      /\ \A x \in Items(ls) : x < i /\ Inside(ls, i, x) => x <= j
  BY <1>2, AroundIs
<1>7. \A x \in k : ItemAround(ls, x) = j
  BY ListSpans
<1>8. \A x \in l : ItemAround(ls, x) = a
  BY <1>1, ListSpans
<1>9. first <= j /\ (i > last => last <= j)
  <2>1. CASE i > last
    BY <1>2, InsideLess, <1>1, <1>6, <2>1
  <2>2. CASE i <= last
    <3>1. j # a
      BY <1>1, <1>3, <2>2, ListSpans
    <3>2. ASSUME j < first PROVE FALSE
      <4>1. j > 0 => Inside(ls, first, j)
        BY <1>2, <1>6, InsideLess
      <4>2. j <= a
        BY <1>2, <1>5, <1>6, <3>2, <4>1
      <4>3. ItemAround(ls, last) = a /\ last \in 1..Len(ls)
        BY <1>1, <1>8
      <4>4. a > 0 => a \in Items(ls) /\ Inside(ls, last, a)
        BY <4>3, AroundIs
      <4>5. a > 0 => Inside(ls, i, a)
        BY <1>2, <1>5, <2>2, <4>4, InsideLess
      <4>6. a <= j
        BY <1>2, <1>4, <1>5, <1>6, <4>5
      <4> HIDE DEF a, j
      <4> QED BY <1>5, <1>6, <3>1, <4>2, <4>6
    <3> HIDE DEF j, first
    <3> QED BY <1>2, <1>6, <2>2, <3>2
  <2> HIDE DEF j, first, last
  <2> QED BY <1>2, <2>1, <2>2
<1>10. j \in 1..Len(ls) /\ j \in Items(ls) /\ j < Min(k) /\ first < Min(k)
       /\ Inside(ls, Max(k), j) /\ j < Max(k)
  <2>1. ItemAround(ls, Min(k)) = j /\ ItemAround(ls, Max(k)) = j
    BY <1>2, <1>7
  <2>2. j \in 0..(Min(k) - 1) /\ (j > 0 => j \in Items(ls) /\ Inside(ls, Max(k), j))
    BY <1>2, <2>1, AroundIs
  <2> HIDE DEF j, first
  <2> QED BY <1>1, <1>2, <1>9, <2>2
<1>11. Inside(ls, end, j) /\ j < end
  BY <1>2, <1>10, InsideJoins
<1>12. end <= LastLine(ls, l)
  <2>1. CASE i > last
    <3>1. last <= j /\ Inside(ls, j, last)
      BY <1>9, <2>1, <1>2, <1>6, InsideLess
    <3>2. Inside(ls, end, last)
      BY <1>2, <1>10, <1>11, <3>1, InsideJoins
    <3> HIDE DEF j, last, end
    <3> QED BY <1>2, <1>10, <1>11, <3>1, <3>2
  <2>2. CASE i <= last
    <3>1. ASSUME last <= end PROVE FALSE
      <4>1. Inside(ls, last, j)
        BY <1>2, <1>10, <1>11, <3>1, InsideLess
      <4>2. ItemAround(ls, last) = a /\ j < last
        BY <1>1, <1>8, <1>2, <1>6, <2>2
      <4>3. j <= a
        BY <1>2, <1>10, <4>1, <4>2, AroundIs
      <4> HIDE DEF j, a, first
      <4> QED BY <1>2, <1>5, <1>9, <1>10, <4>3
    <3> HIDE DEF last, end
    <3> QED BY <1>2, <3>1
  <2> HIDE DEF last
  <2> QED BY <1>2, <2>1, <2>2
<1> QED BY <1>10, <1>12

\* The events of a document, and what comes before one of them.
OpenOf(l) == [kind |-> "open", list |-> l, at |-> Min(l), rank |-> 0]
ItemOf(ls, i) == [kind |-> "item", list |-> ListOf(ls, i), at |-> i, rank |-> 1]
CloseOf(ls, l) ==
  [kind |-> "close", list |-> l, at |-> LastLine(ls, l), rank |-> 2 + Len(ls) - Min(l)]

AllEvents(ls) ==
  {OpenOf(l) : l \in Lists(ls)} \union {ItemOf(ls, i) : i \in Items(ls)}
    \union {CloseOf(ls, l) : l \in Lists(ls)}

Sooner(d, e) == d.at < e.at \/ (d.at = e.at /\ d.rank < e.rank)

PastOf(ls, e) == {d \in AllEvents(ls) : Sooner(d, e)}

\* The lines the events are at, and their ranks there.
LEMMA EventPlaces ==
  ASSUME NEW ls \in Seq(ListLines)
  PROVE  \A e \in AllEvents(ls) : e.at \in 1..Len(ls) /\ e.rank \in 0..(Len(ls) + 1)
<1>1. Len(ls) \in Nat /\ Items(ls) \subseteq 1..Len(ls)
  BY LinesHave
<1>2. \A l \in Lists(ls) : Min(l) \in 1..Len(ls) /\ LastLine(ls, l) \in 1..Len(ls)
  BY ListSpans
<1>3. \A l \in Lists(ls) : 2 + Len(ls) - Min(l) \in 0..(Len(ls) + 1)
  BY <1>1, <1>2
<1>4. \A l \in Lists(ls) : /\ OpenOf(l).at \in 1..Len(ls) /\ OpenOf(l).rank \in 0..(Len(ls) + 1)
                           /\ CloseOf(ls, l).at \in 1..Len(ls)
                           /\ CloseOf(ls, l).rank \in 0..(Len(ls) + 1)
  BY <1>1, <1>2, <1>3 DEF OpenOf, CloseOf
<1>5. \A i \in Items(ls) : ItemOf(ls, i).at \in 1..Len(ls) /\ ItemOf(ls, i).rank \in 0..(Len(ls) + 1)
  BY <1>1 DEF ItemOf
<1> QED BY <1>4, <1>5 DEF AllEvents

\* An event is of one list or one item, and of one kind.
LEMMA EventsApart ==
  ASSUME NEW ls \in Seq(ListLines)
  PROVE  /\ \A l, k \in Lists(ls) : /\ OpenOf(l) = OpenOf(k) => l = k
                                    /\ CloseOf(ls, l) = CloseOf(ls, k) => l = k
                                    /\ OpenOf(l) # CloseOf(ls, k)
         /\ \A i, j \in Items(ls) : ItemOf(ls, i) = ItemOf(ls, j) => i = j
         /\ \A i \in Items(ls), l \in Lists(ls) :
              ItemOf(ls, i) # OpenOf(l) /\ ItemOf(ls, i) # CloseOf(ls, l)
<1>1. \A l : OpenOf(l).kind = "open" /\ OpenOf(l).list = l
  BY DEF OpenOf
<1>2. \A l : CloseOf(ls, l).kind = "close" /\ CloseOf(ls, l).list = l
  BY DEF CloseOf
<1>3. \A i : ItemOf(ls, i).kind = "item" /\ ItemOf(ls, i).at = i
  BY DEF ItemOf
<1>4. "open" # "close" /\ "open" # "item" /\ "item" # "close"
  OBVIOUS
<1>5. \A l, k \in Lists(ls) : OpenOf(l) = OpenOf(k) => l = k
  BY <1>1
<1>6. \A l, k \in Lists(ls) : CloseOf(ls, l) = CloseOf(ls, k) => l = k
  BY <1>2
<1>7. \A l, k \in Lists(ls) : OpenOf(l) # CloseOf(ls, k)
  BY <1>1, <1>2, <1>4
<1>8. \A i, j \in Items(ls) : ItemOf(ls, i) = ItemOf(ls, j) => i = j
  BY <1>3
<1>9. \A i \in Items(ls), l \in Lists(ls) :
        ItemOf(ls, i) # OpenOf(l) /\ ItemOf(ls, i) # CloseOf(ls, l)
  BY <1>1, <1>2, <1>3, <1>4
<1> QED BY <1>5, <1>6, <1>7, <1>8, <1>9

\* What comes before an event of each kind.
LEMMA PastsAre ==
  ASSUME NEW ls \in Seq(ListLines), NEW l \in Lists(ls), NEW i \in Items(ls)
  PROVE  /\ \A k \in Lists(ls) : /\ OpenOf(k) \in PastOf(ls, OpenOf(l)) <=> Min(k) < Min(l)
                                 /\ OpenOf(k) \in PastOf(ls, ItemOf(ls, i)) <=> Min(k) <= i
                                 /\ OpenOf(k) \in PastOf(ls, CloseOf(ls, l))
                                      <=> Min(k) <= LastLine(ls, l)
                                 /\ CloseOf(ls, k) \in PastOf(ls, OpenOf(l))
                                      <=> LastLine(ls, k) < Min(l)
                                 /\ CloseOf(ls, k) \in PastOf(ls, ItemOf(ls, i))
                                      <=> LastLine(ls, k) < i
                                 /\ CloseOf(ls, k) \in PastOf(ls, CloseOf(ls, l))
                                      <=> \/ LastLine(ls, k) < LastLine(ls, l)
                                          \/ /\ LastLine(ls, k) = LastLine(ls, l)
                                             /\ Min(l) < Min(k)
         /\ \A j \in Items(ls) : /\ ItemOf(ls, j) \in PastOf(ls, OpenOf(l)) <=> j < Min(l)
                                 /\ ItemOf(ls, j) \in PastOf(ls, ItemOf(ls, i)) <=> j < i
                                 /\ ItemOf(ls, j) \in PastOf(ls, CloseOf(ls, l))
                                      <=> j <= LastLine(ls, l)
<1>1. Len(ls) \in Nat /\ Items(ls) \subseteq 1..Len(ls)
  BY LinesHave
<1>2. \A k \in Lists(ls) : Min(k) \in 1..Len(ls) /\ LastLine(ls, k) \in 1..Len(ls)
  BY ListSpans
<1>3. \A k \in Lists(ls) : /\ OpenOf(k) \in AllEvents(ls) /\ OpenOf(k).at = Min(k)
                           /\ OpenOf(k).rank = 0
  BY DEF AllEvents, OpenOf
<1>4. \A k \in Lists(ls) : /\ CloseOf(ls, k) \in AllEvents(ls)
                           /\ CloseOf(ls, k).at = LastLine(ls, k)
                           /\ CloseOf(ls, k).rank = 2 + Len(ls) - Min(k)
  BY DEF AllEvents, CloseOf
<1>5. \A j \in Items(ls) : /\ ItemOf(ls, j) \in AllEvents(ls) /\ ItemOf(ls, j).at = j
                           /\ ItemOf(ls, j).rank = 1
  BY DEF AllEvents, ItemOf
<1>6. \A d, e : d \in PastOf(ls, e)
                  <=> d \in AllEvents(ls) /\ (d.at < e.at \/ (d.at = e.at /\ d.rank < e.rank))
  BY DEF PastOf, Sooner
<1>7. ASSUME NEW k \in Lists(ls)
      PROVE  /\ OpenOf(k) \in PastOf(ls, OpenOf(l)) <=> Min(k) < Min(l)
             /\ OpenOf(k) \in PastOf(ls, ItemOf(ls, i)) <=> Min(k) <= i
             /\ OpenOf(k) \in PastOf(ls, CloseOf(ls, l)) <=> Min(k) <= LastLine(ls, l)
  <2>1. i \in Nat /\ Min(k) \in Nat /\ Min(l) \in Nat /\ LastLine(ls, l) \in Nat
        /\ 0 < 2 + Len(ls) - Min(l)
    BY <1>1, <1>2
  <2>2. OpenOf(k) \in PastOf(ls, OpenOf(l)) <=> Min(k) < Min(l)
    BY <1>3, <1>6, <2>1
  <2>3. OpenOf(k) \in PastOf(ls, ItemOf(ls, i)) <=> Min(k) <= i
    BY <1>3, <1>5, <1>6, <2>1
  <2>4. OpenOf(k) \in PastOf(ls, CloseOf(ls, l)) <=> Min(k) <= LastLine(ls, l)
    BY <1>3, <1>4, <2>1, <1>6
  <2> QED BY <2>2, <2>3, <2>4
<1>8. ASSUME NEW k \in Lists(ls)
      PROVE  /\ CloseOf(ls, k) \in PastOf(ls, OpenOf(l)) <=> LastLine(ls, k) < Min(l)
             /\ CloseOf(ls, k) \in PastOf(ls, ItemOf(ls, i)) <=> LastLine(ls, k) < i
             /\ CloseOf(ls, k) \in PastOf(ls, CloseOf(ls, l))
                  <=> \/ LastLine(ls, k) < LastLine(ls, l)
                      \/ LastLine(ls, k) = LastLine(ls, l) /\ Min(l) < Min(k)
  BY <1>1, <1>2, <1>3, <1>4, <1>5, <1>6
<1>9. ASSUME NEW j \in Items(ls)
      PROVE  /\ ItemOf(ls, j) \in PastOf(ls, OpenOf(l)) <=> j < Min(l)
             /\ ItemOf(ls, j) \in PastOf(ls, ItemOf(ls, i)) <=> j < i
             /\ ItemOf(ls, j) \in PastOf(ls, CloseOf(ls, l)) <=> j <= LastLine(ls, l)
  BY <1>1, <1>2, <1>3, <1>5, <1>6, <1>4
<1> QED BY <1>7, <1>8, <1>9

\* A place and a rank there, as one number.
LEMMA PlaceThenRank ==
  ASSUME NEW m \in Nat, NEW a \in Nat, NEW b \in Nat, NEW r \in 0..(m - 1), NEW q \in 0..(m - 1)
  PROVE  a * m + r < b * m + q <=> (a < b \/ (a = b /\ r < q))
<1>1. ASSUME NEW x \in Nat, NEW y \in Nat, x < y PROVE x * m + m <= y * m
  BY <1>1
<1>2. a * m \in Nat /\ b * m \in Nat
  OBVIOUS
<1>3. CASE a < b
  BY <1>1, <1>2, <1>3
<1>4. CASE a = b
  BY <1>2, <1>4
<1>5. CASE b < a
  BY <1>1, <1>2, <1>5
<1> QED BY <1>3, <1>4, <1>5

LEMMA EventsAreFinite ==
  ASSUME NEW ls \in Seq(ListLines)
  PROVE  IsFiniteSet(AllEvents(ls))
<1>1. Len(ls) \in Nat /\ Items(ls) \subseteq 1..Len(ls)
  BY LinesHave
<1>2. IsFiniteSet(Items(ls))
  <2>1. IsFiniteSet(1..Len(ls)) /\ Items(ls) \in SUBSET (1..Len(ls))
    BY <1>1, FS_Interval
  <2> QED BY <2>1, FS_Subset
<1>3. ASSUME NEW S, NEW f, IsFiniteSet(S), f = [x \in S |-> f[x]]
      PROVE  IsFiniteSet({f[x] : x \in S})
  <2> DEFINE T == {f[x] : x \in S}
  <2>1. f \in Surjection(S, T)
    BY <1>3 DEF Surjection
  <2>2. IsFiniteSet(T)
    BY <1>3, <2>1, FS_Surjection
  <2> QED BY <2>2
<1>4. IsFiniteSet({[i \in Items(ls) |-> ListOf(ls, i)][x] : x \in Items(ls)})
  BY <1>2, <1>3
<1>5. IsFiniteSet(Lists(ls))
  BY <1>4 DEF Lists
<1>6. IsFiniteSet({OpenOf(l) : l \in Lists(ls)})
  <2> DEFINE f == [l \in Lists(ls) |-> OpenOf(l)]
  <2>1. f = [x \in Lists(ls) |-> f[x]] /\ {f[x] : x \in Lists(ls)} = {OpenOf(l) : l \in Lists(ls)}
    OBVIOUS
  <2> HIDE DEF f
  <2>2. IsFiniteSet({f[x] : x \in Lists(ls)})
    BY <1>3, <1>5, <2>1
  <2> QED BY <2>1, <2>2
<1>7. IsFiniteSet({CloseOf(ls, l) : l \in Lists(ls)})
  <2> DEFINE f == [l \in Lists(ls) |-> CloseOf(ls, l)]
  <2>1. /\ f = [x \in Lists(ls) |-> f[x]]
        /\ {f[x] : x \in Lists(ls)} = {CloseOf(ls, l) : l \in Lists(ls)}
    OBVIOUS
  <2> HIDE DEF f
  <2>2. IsFiniteSet({f[x] : x \in Lists(ls)})
    BY <1>3, <1>5, <2>1
  <2> QED BY <2>1, <2>2
<1>8. IsFiniteSet({ItemOf(ls, i) : i \in Items(ls)})
  <2> DEFINE f == [i \in Items(ls) |-> ItemOf(ls, i)]
  <2>1. /\ f = [x \in Items(ls) |-> f[x]]
        /\ {f[x] : x \in Items(ls)} = {ItemOf(ls, i) : i \in Items(ls)}
    OBVIOUS
  <2> HIDE DEF f
  <2>2. IsFiniteSet({f[x] : x \in Items(ls)})
    BY <1>2, <1>3, <2>1
  <2> QED BY <2>1, <2>2
<1>9. IsFiniteSet({OpenOf(l) : l \in Lists(ls)} \union {ItemOf(ls, i) : i \in Items(ls)})
  BY <1>6, <1>8, FS_Union
<1> QED BY <1>7, <1>9, FS_Union DEF AllEvents

\* The walk meets every event once, in their order.
LEMMA EventsInOrder ==
  ASSUME NEW ls \in Seq(ListLines)
  PROVE  LET es == Events(ls)
         IN  /\ es \in Seq(AllEvents(ls)) /\ Len(es) \in Nat
             /\ \A j, k \in 1..Len(es) : j < k => Sooner(es[j], es[k])
             /\ \A e \in AllEvents(ls) : \E k \in 1..Len(es) : es[k] = e
<1> DEFINE S == AllEvents(ls)
           m == Len(ls) + 2
           es == Events(ls)
           key == [e \in S |-> e.at * m + e.rank]
<1>1. Len(ls) \in Nat /\ m \in Nat
  BY LinesHave
<1>2. \A e \in S : e.at \in Nat /\ e.rank \in 0..(m - 1)
  BY <1>1, EventPlaces
<1>3. key \in [S -> Int]
  BY <1>1, <1>2
<1>4. \A d, e \in S : key[d] < key[e] <=> Sooner(d, e)
  <2> SUFFICES ASSUME NEW d \in S, NEW e \in S PROVE key[d] < key[e] <=> Sooner(d, e)
    OBVIOUS
  <2>1. key[d] = d.at * m + d.rank /\ key[e] = e.at * m + e.rank
    OBVIOUS
  <2> HIDE DEF S, m, key
  <2>2. /\ d.at \in Nat /\ d.rank \in 0..(m - 1)
        /\ e.at \in Nat /\ e.rank \in 0..(m - 1)
    BY <1>2
  <2>3. d.at * m + d.rank < e.at * m + e.rank
          <=> (d.at < e.at \/ (d.at = e.at /\ d.rank < e.rank))
    <3>1. \A a, b \in Nat, r, q \in 0..(m - 1) :
            a * m + r < b * m + q <=> (a < b \/ (a = b /\ r < q))
      BY <1>1, PlaceThenRank
    <3> QED BY <2>2, <3>1, Zenon
  <2> QED BY <2>1, <2>3 DEF Sooner
<1>5. \A d, e \in S : key[d] = key[e] => d = e
  <2> SUFFICES ASSUME NEW d \in S, NEW e \in S, key[d] = key[e] PROVE d = e
    OBVIOUS
  <2>1. ~ Sooner(d, e) /\ ~ Sooner(e, d)
    BY <1>3, <1>4
  <2>2. d.at = e.at /\ d.rank = e.rank
    BY <1>1, <1>2, <2>1 DEF Sooner
  <2>3. Items(ls) \subseteq 1..Len(ls)
    BY LinesHave
  <2>4. \A l \in Lists(ls) : /\ Min(l) \in l /\ Min(l) \in 1..Len(ls) /\ ListOf(ls, Min(l)) = l
    BY ListSpans, ListsHave
  <2>5. \A l, k \in Lists(ls) : Min(l) = Min(k) => l = k
    BY <2>4
  <2>6. \A l, k \in Lists(ls) : /\ OpenOf(l).rank = 0 /\ OpenOf(l).at = Min(l)
                                /\ CloseOf(ls, l).rank = 2 + Len(ls) - Min(l)
    BY DEF OpenOf, CloseOf
  <2>7. \A i : ItemOf(ls, i).rank = 1 /\ ItemOf(ls, i).at = i
    BY DEF ItemOf
  <2>8. \A l \in Lists(ls) : 2 + Len(ls) - Min(l) > 1
    BY <1>1, <2>4
  <2>9. \A l, k \in Lists(ls) : 2 + Len(ls) - Min(l) = 2 + Len(ls) - Min(k) => l = k
    BY <1>1, <2>4, <2>5
  <2>10. \/ \E l \in Lists(ls) : d = OpenOf(l)
         \/ \E i \in Items(ls) : d = ItemOf(ls, i)
         \/ \E l \in Lists(ls) : d = CloseOf(ls, l)
    BY DEF AllEvents
  <2>11. \/ \E l \in Lists(ls) : e = OpenOf(l)
         \/ \E i \in Items(ls) : e = ItemOf(ls, i)
         \/ \E l \in Lists(ls) : e = CloseOf(ls, l)
    BY DEF AllEvents
  <2> HIDE DEF S, m, key
  <2>12. CASE \E l \in Lists(ls) : d = OpenOf(l)
    BY <2>2, <2>5, <2>6, <2>7, <2>8, <2>11, <2>12
  <2>13. CASE \E i \in Items(ls) : d = ItemOf(ls, i)
    BY <2>2, <2>6, <2>7, <2>8, <2>11, <2>13
  <2>14. CASE \E l \in Lists(ls) : d = CloseOf(ls, l)
    BY <2>2, <2>6, <2>7, <2>8, <2>9, <2>11, <2>14
  <2> QED BY <2>10, <2>12, <2>13, <2>14
<1>6. Keyed(S, key)
  BY <1>3, <1>5, EventsAreFinite DEF Keyed
<1>7. \A e \in S : Below(S, key, e) = {d \in S : Sooner(d, e)}
  BY <1>4 DEF Below
<1>8. es = [k \in 1..Cardinality(S) |->
              CHOOSE e \in S : Cardinality({d \in S : Sooner(d, e)}) = k - 1]
  BY DEF Events, Sorted, AllEvents, OpenOf, ItemOf, CloseOf, Sooner
<1>9. ByRank(es, S, key)
  <2> HIDE DEF S, key, es
  <2>1. ASSUME NEW k \in 1..Cardinality(S),
               \E e \in S : Cardinality(Below(S, key, e)) = k - 1
        PROVE  es[k] \in S /\ Cardinality(Below(S, key, es[k])) = k - 1
    BY <1>8, <1>7, <2>1
  <2>2. es = [k \in 1..Cardinality(S) |-> es[k]]
    <3> DEFINE Ranked(k) == CHOOSE e \in S : Cardinality({d \in S : Sooner(d, e)}) = k - 1
    <3>1. es = [k \in 1..Cardinality(S) |-> Ranked(k)]
      BY <1>8
    <3> HIDE DEF Ranked
    <3> QED BY <3>1
  <2> QED BY <2>1, <2>2 DEF ByRank
<1>10. /\ es \in Seq(S) /\ Len(es) = Cardinality(S) /\ Cardinality(S) \in Nat
       /\ \A j, k \in 1..Len(es) : j < k => key[es[j]] < key[es[k]]
       /\ \A e \in S : \E k \in 1..Len(es) : es[k] = e
  <2> HIDE DEF S, key, es
  <2> QED BY <1>6, <1>9, InRankOrder
<1>11. ASSUME NEW j \in 1..Len(es), NEW k \in 1..Len(es), j < k PROVE Sooner(es[j], es[k])
  BY <1>10, ElementOfSeq, <1>4, <1>11
<1> HIDE DEF key
<1> QED BY <1>10, <1>11

\* What the walk has at a place of its stack: q are the lists that are open, P the events
\* behind it.
Frames == [next : Nat, ordered : BOOLEAN, wanted : BOOLEAN]

\* The items of a list that are behind the walk.
Passed(ls, l, P) == {j \in l : ItemOf(ls, j) \in P}

FrameIs(ls, from, to, f, q, k, P) ==
  /\ f \in Frames
  /\ f.ordered <=> ls[Min(q[k])].mark = "number"
  /\ f.ordered => f.next = ls[Min(q[k])].number + Cardinality(Passed(ls, q[k], P))
  /\ f.wanted <=> \E m \in 1..k : Overlaps(ls, q[m], from, to)

StackIs(ls, from, to, stack, q, P) ==
  /\ stack \in Seq(Frames) /\ q \in Seq(Lists(ls)) /\ Len(stack) = Len(q)
  /\ \A k \in 1..Len(q) : FrameIs(ls, from, to, stack[k], q, k, P)
  /\ \A j, k \in 1..Len(q) : j < k => Min(q[j]) < Min(q[k])
  /\ \A l \in Lists(ls) :
       (\E k \in 1..Len(q) : q[k] = l) <=> OpenOf(l) \in P /\ CloseOf(ls, l) \notin P

NumbersAre(ls, from, to, numbers, P) ==
  /\ numbers \in [1..Len(ls) -> Nat]
  /\ \A i \in 1..Len(ls) :
       numbers[i] = IF /\ ls[i].mark = "number" /\ ItemOf(ls, i) \in P
                       /\ Touched(ls, i, from, to)
                    THEN Due(ls, i) ELSE ls[LineStart(ls, i)].number

WalkIs(ls, from, to, w, P) ==
  /\ w = [stack |-> w.stack, numbers |-> w.numbers]
  /\ \E q : StackIs(ls, from, to, w.stack, q, P)
  /\ NumbersAre(ls, from, to, w.numbers, P)

LEMMA StackHas ==
  ASSUME NEW ls, NEW from, NEW to, NEW stack, NEW q, NEW P, StackIs(ls, from, to, stack, q, P)
  PROVE  /\ Len(q) \in Nat /\ Len(stack) = Len(q)
         /\ stack \in Seq(Frames) /\ q \in Seq(Lists(ls))
         /\ \A k \in 1..Len(q) : q[k] \in Lists(ls) /\ stack[k] \in Frames
<1>1. stack \in Seq(Frames) /\ q \in Seq(Lists(ls)) /\ Len(stack) = Len(q)
  BY DEF StackIs
<1> QED BY <1>1, LenProperties, ElementOfSeq

\* Lists are finite, and as many of their items as are behind the walk.
LEMMA PassedIsFinite ==
  ASSUME NEW ls \in Seq(ListLines), NEW l \in Lists(ls), NEW S \in SUBSET l
  PROVE  IsFiniteSet(S) /\ Cardinality(S) \in Nat
<1>1. Len(ls) \in Nat /\ l \subseteq 1..Len(ls)
  BY LinesHave, ListSpans
<1>2. IsFiniteSet(1..Len(ls)) /\ S \in SUBSET (1..Len(ls))
  BY <1>1, FS_Interval
<1>3. IsFiniteSet(S)
  BY <1>2, FS_Subset
<1> QED BY <1>3, FS_CardinalityType

\* What a list opening does to the stack.
LEMMA OpenStep ==
  ASSUME NEW ls \in Seq(ListLines), NEW from, NEW to, NEW stack, NEW q,
         NEW l \in Lists(ls), StackIs(ls, from, to, stack, q, PastOf(ls, OpenOf(l)))
  PROVE  LET f == [next |-> ls[Min(l)].number, ordered |-> ls[Min(l)].mark = "number",
                   wanted |-> \/ Overlaps(ls, l, from, to)
                              \/ stack # << >> /\ stack[Len(stack)].wanted]
         IN  StackIs(ls, from, to, Append(stack, f), Append(q, l),
                     PastOf(ls, OpenOf(l)) \union {OpenOf(l)})
<1> DEFINE f == [next |-> ls[Min(l)].number, ordered |-> ls[Min(l)].mark = "number",
                 wanted |-> \/ Overlaps(ls, l, from, to)
                            \/ stack # << >> /\ stack[Len(stack)].wanted]
           P == PastOf(ls, OpenOf(l))
           N == P \union {OpenOf(l)}
           r == Append(q, l)
           s == Append(stack, f)
           n == Len(q)
<1>1. /\ n \in Nat /\ Len(stack) = n /\ stack \in Seq(Frames) /\ q \in Seq(Lists(ls))
      /\ \A k \in 1..n : q[k] \in Lists(ls) /\ stack[k] \in Frames
  BY StackHas
<1>2. Min(l) \in 1..Len(ls) /\ Len(ls) \in Nat /\ ls[Min(l)].number \in Nat /\ Min(l) \in l
      /\ \A j \in l : Min(l) <= j
  BY LinesHave, ListSpans
<1>3. f \in Frames
  <2>1. (Overlaps(ls, l, from, to) \/ (stack # << >> /\ stack[Len(stack)].wanted)) \in BOOLEAN
    <3>1. stack # << >> => stack[Len(stack)].wanted \in BOOLEAN
      <4>1. stack # << >> => Len(stack) \in 1..n
        BY <1>1, EmptySeq
      <4> QED BY <1>1, <4>1 DEF Frames
    <3>2. Overlaps(ls, l, from, to) \in BOOLEAN
      BY DEF Overlaps
    <3> QED BY <3>1, <3>2
  <2> QED BY <1>2, <2>1 DEF Frames
<1>4. /\ s \in Seq(Frames) /\ Len(s) = n + 1 /\ s[n + 1] = f
      /\ \A k \in 1..n : s[k] = stack[k]
  BY <1>1, <1>3, AppendProperties
<1>5. /\ r \in Seq(Lists(ls)) /\ Len(r) = n + 1 /\ r[n + 1] = l
      /\ \A k \in 1..n : r[k] = q[k]
  BY <1>1, AppendProperties
<1>6. \A k \in 1..n : /\ FrameIs(ls, from, to, stack[k], q, k, P)
                      /\ OpenOf(q[k]) \in P /\ CloseOf(ls, q[k]) \notin P
  BY <1>1 DEF StackIs
<1>7. \A k \in 1..n : Min(q[k]) < Min(l)
  <2> SUFFICES ASSUME NEW k \in 1..n PROVE Min(q[k]) < Min(l)
    OBVIOUS
  <2>1. \A i \in Items(ls) : OpenOf(q[k]) \in PastOf(ls, OpenOf(l)) <=> Min(q[k]) < Min(l)
    BY <1>1, PastsAre
  <2>2. Min(l) \in Items(ls)
    BY <1>2, ListsHave
  <2> QED BY <1>6, <2>1, <2>2
<1>8. \A k \in Lists(ls) : Passed(ls, k, N) = Passed(ls, k, P)
  BY ListsHave, EventsApart DEF Passed
<1>9. ASSUME NEW k \in 1..n PROVE FrameIs(ls, from, to, s[k], r, k, N)
  <2>1. FrameIs(ls, from, to, stack[k], q, k, P) /\ s[k] = stack[k] /\ r[k] = q[k]
        /\ q[k] \in Lists(ls)
    BY <1>1, <1>4, <1>5, <1>6
  <2>2. \A m \in 1..k : r[m] = q[m]
    BY <1>1, <1>5
  <2> HIDE DEF s, r, N, P
  <2> QED BY <1>8, <2>1, <2>2 DEF FrameIs
<1>10. FrameIs(ls, from, to, s[n + 1], r, n + 1, N)
  <2>1. Passed(ls, l, N) = {}
    <3>1. \A j \in l : ItemOf(ls, j) \notin P
      <4> SUFFICES ASSUME NEW j \in l PROVE ItemOf(ls, j) \notin P
        OBVIOUS
      <4>1. j \in Items(ls) /\ Min(l) <= j /\ j \in Nat /\ Min(l) \in Nat
        BY <1>2, LinesHave, ListsHave
      <4>2. ItemOf(ls, j) \in PastOf(ls, OpenOf(l)) <=> j < Min(l)
        BY <4>1, PastsAre
      <4> QED BY <4>1, <4>2
    <3>2. Passed(ls, l, P) = {}
      BY <3>1 DEF Passed
    <3> QED BY <1>8, <3>2
  <2>2. f.next = ls[Min(l)].number + Cardinality(Passed(ls, l, N))
    <3>1. Cardinality(Passed(ls, l, N)) = 0
      BY <2>1, FS_EmptySet
    <3> HIDE DEF N
    <3> QED BY <1>2, <3>1
  <2>3. f.wanted <=> \E m \in 1..(n + 1) : Overlaps(ls, r[m], from, to)
    <3>1. stack # << >> <=> n # 0
      BY <1>1, EmptySeq
    <3>2. n # 0 => (stack[n].wanted <=> \E m \in 1..n : Overlaps(ls, q[m], from, to))
      <4>1. n # 0 => n \in 1..n
        BY <1>1
      <4> HIDE DEF n, P
      <4> QED BY <1>6, <4>1 DEF FrameIs
    <3>3. \A m \in 1..(n + 1) : m = n + 1 \/ m \in 1..n
      BY <1>1
    <3>4. (\E m \in 1..(n + 1) : Overlaps(ls, r[m], from, to))
            <=> \/ Overlaps(ls, l, from, to)
                \/ \E m \in 1..n : Overlaps(ls, q[m], from, to)
      <4>1. n + 1 \in 1..(n + 1) /\ \A m \in 1..n : m \in 1..(n + 1)
        BY <1>1
      <4> HIDE DEF r, n
      <4> QED BY <1>5, <3>3, <4>1
    <3>5. f.wanted <=> \/ Overlaps(ls, l, from, to)
                       \/ stack # << >> /\ stack[n].wanted
      BY <1>1
    <3>6. n = 0 => ~ \E m \in 1..n : Overlaps(ls, q[m], from, to)
      OBVIOUS
    <3> HIDE DEF f, r, n
    <3> QED BY <3>1, <3>2, <3>4, <3>5, <3>6
  <2>4. f.ordered <=> ls[Min(l)].mark = "number"
    OBVIOUS
  <2> HIDE DEF f, N, r, n, s
  <2> QED BY <1>3, <1>4, <1>5, <2>2, <2>3, <2>4 DEF FrameIs
<1>11. \A k \in 1..(n + 1) : FrameIs(ls, from, to, s[k], r, k, N)
  <2>1. \A k \in 1..(n + 1) : k = n + 1 \/ k \in 1..n
    BY <1>1
  <2> HIDE DEF s, r, N, n
  <2> QED BY <1>9, <1>10, <2>1
<1>12. \A j, k \in 1..(n + 1) : j < k => Min(r[j]) < Min(r[k])
  <2> SUFFICES ASSUME NEW j \in 1..(n + 1), NEW k \in 1..(n + 1), j < k
               PROVE  Min(r[j]) < Min(r[k])
    OBVIOUS
  <2>1. j \in 1..n /\ (k = n + 1 \/ k \in 1..n)
    BY <1>1
  <2>2. \A x, y \in 1..n : x < y => Min(q[x]) < Min(q[y])
    BY DEF StackIs
  <2> HIDE DEF r, n
  <2> QED BY <1>5, <1>7, <2>1, <2>2
<1>13. ASSUME NEW k \in Lists(ls)
       PROVE  (\E m \in 1..(n + 1) : r[m] = k) <=> OpenOf(k) \in N /\ CloseOf(ls, k) \notin N
  <2>1. (\E m \in 1..n : q[m] = k) <=> OpenOf(k) \in P /\ CloseOf(ls, k) \notin P
    BY DEF StackIs
  <2>2. (\E m \in 1..(n + 1) : r[m] = k) <=> (k = l \/ \E m \in 1..n : q[m] = k)
    BY <1>1, <1>5
  <2>3. CloseOf(ls, k) \in N <=> CloseOf(ls, k) \in P
    BY EventsApart
  <2>4. OpenOf(k) \in N <=> (OpenOf(k) \in P \/ k = l)
    BY EventsApart
  <2>5. CloseOf(ls, l) \notin P
    BY <1>2, ListSpans, ListsHave, PastsAre
  <2> HIDE DEF r, n, N, P
  <2> QED BY <2>1, <2>2, <2>3, <2>4, <2>5
<1> HIDE DEF f, P, N, r, s, n
<1>14. StackIs(ls, from, to, s, r, N)
  BY <1>1, <1>4, <1>5, <1>11, <1>12, <1>13 DEF StackIs
<1> QED BY <1>14 DEF f, P, N, r, s

\* The lists open at an item are those it is among the lines of, the last one its own.
LEMMA OpenAtItem ==
  ASSUME NEW ls \in Seq(ListLines), NEW from, NEW to, NEW stack, NEW q, NEW i \in Items(ls),
         StackIs(ls, from, to, stack, q, PastOf(ls, ItemOf(ls, i)))
  PROVE  /\ \A l \in Lists(ls) :
              (\E k \in 1..Len(q) : q[k] = l) <=> Min(l) <= i /\ i <= LastLine(ls, l)
         /\ Len(q) \in 1..Len(q) /\ q[Len(q)] = ListOf(ls, i)
<1> DEFINE P == PastOf(ls, ItemOf(ls, i))
           n == Len(q)
           own == ListOf(ls, i)
<1>1. n \in Nat /\ \A k \in 1..n : q[k] \in Lists(ls)
  BY StackHas
<1>2. i \in 1..Len(ls) /\ Len(ls) \in Nat /\ own \in Lists(ls) /\ i \in own
  BY LinesHave, ListsHave
<1>3. ASSUME NEW l \in Lists(ls)
      PROVE  (\E k \in 1..n : q[k] = l) <=> Min(l) <= i /\ i <= LastLine(ls, l)
  BY PastsAre, <1>2, ListSpans DEF StackIs
<1>4. Min(own) <= i /\ i <= LastLine(ls, own)
  BY <1>2, ListRuns
<1>5. PICK x \in 1..n : q[x] = own
  BY <1>2, <1>3, <1>4
<1>6. n \in 1..n
  BY <1>1
<1>7. q[n] = own
  <2> SUFFICES ASSUME q[n] # own PROVE FALSE
    OBVIOUS
  <2>1. x < n
    BY <1>5, <1>1
  <2>2. Min(own) < Min(q[n])
    BY <1>5, <1>6, <2>1 DEF StackIs
  <2>3. q[n] \in Lists(ls) /\ Min(q[n]) <= i /\ i <= LastLine(ls, q[n])
    BY <1>1, <1>6, <1>3
  <2>4. Min(q[n]) < Min(own)
    BY <1>2, <2>3, ListsNested
  <2>5. Min(own) \in Nat /\ Min(q[n]) \in Nat
    BY <1>2, <2>3, ListRuns
  <2> HIDE DEF n, own
  <2> QED BY <2>2, <2>4, <2>5
<1> QED BY <1>3, <1>6, <1>7

\* An item is wanted when one of the lists that are open is in the range.
LEMMA TouchedIs ==
  ASSUME NEW ls \in Seq(ListLines), NEW from \in Nat, NEW to \in Nat, from <= to,
         NEW stack, NEW q, NEW i \in Items(ls),
         StackIs(ls, from, to, stack, q, PastOf(ls, ItemOf(ls, i)))
  PROVE  stack[Len(q)].wanted <=> Touched(ls, i, from, to)
<1> DEFINE n == Len(q)
<1>1. n \in 1..n /\ \A k \in 1..n : q[k] \in Lists(ls)
  BY StackHas, OpenAtItem
<1>2. stack[n].wanted <=> \E m \in 1..n : Overlaps(ls, q[m], from, to)
  BY <1>1 DEF StackIs, FrameIs
<1>3. ASSUME NEW l \in Lists(ls)
      PROVE  Overlaps(ls, l, from, to)
               <=> \E k \in from..to : Min(l) <= k /\ k <= LastLine(ls, l)
  BY ListSpans DEF Overlaps
<1>4. \A l \in Lists(ls) :
        (\E k \in 1..n : q[k] = l) <=> Min(l) <= i /\ i <= LastLine(ls, l)
  BY OpenAtItem
<1> HIDE DEF n
<1>5. Touched(ls, i, from, to) <=> \E m \in 1..n : Overlaps(ls, q[m], from, to)
  BY <1>3, <1>1, <1>4 DEF Touched
<1> QED BY <1>2, <1>5 DEF n

\* The items behind the walk at an item are those above it, and one more after it.
LEMMA ItemIsDue ==
  ASSUME NEW ls \in Seq(ListLines), NEW i \in Items(ls)
  PROVE  LET P == PastOf(ls, ItemOf(ls, i))
             N == P \union {ItemOf(ls, i)}
             l == ListOf(ls, i)
         IN  /\ Passed(ls, l, P) = {j \in l : j < i}
             /\ Cardinality(Passed(ls, l, N)) = Cardinality(Passed(ls, l, P)) + 1
             /\ Cardinality(Passed(ls, l, P)) \in Nat
             /\ \A k \in Lists(ls) : k # l => Passed(ls, k, N) = Passed(ls, k, P)
<1> DEFINE P == PastOf(ls, ItemOf(ls, i))
           N == P \union {ItemOf(ls, i)}
           l == ListOf(ls, i)
<1>1. /\ l \in Lists(ls) /\ i \in l /\ Items(ls) \subseteq 1..Len(ls)
      /\ \A k \in Lists(ls) : k \subseteq Items(ls)
  BY LinesHave, ListsHave
<1>2. \A j \in Items(ls) : ItemOf(ls, j) \in P <=> j < i
  BY <1>1, PastsAre
<1>3. Passed(ls, l, P) = {j \in l : j < i}
  BY <1>1, <1>2 DEF Passed
<1>4. \A j \in Items(ls) : ItemOf(ls, j) \in N <=> ItemOf(ls, j) \in P \/ j = i
  BY EventsApart
<1>5. Passed(ls, l, N) = Passed(ls, l, P) \union {i}
  BY <1>1, <1>4 DEF Passed
<1>6. i \notin Passed(ls, l, P)
  BY <1>1, <1>3
<1>7. IsFiniteSet(Passed(ls, l, P)) /\ Cardinality(Passed(ls, l, P)) \in Nat
  BY <1>1, PassedIsFinite DEF Passed
<1>8. Cardinality(Passed(ls, l, N)) = Cardinality(Passed(ls, l, P)) + 1
  BY <1>5, <1>6, <1>7, FS_AddElement
<1>9. ASSUME NEW k \in Lists(ls), k # l PROVE Passed(ls, k, N) = Passed(ls, k, P)
  BY <1>9, ListsHave, <1>1, <1>4 DEF Passed
<1> QED BY <1>3, <1>7, <1>8, <1>9

\* What an item does to the stack and to the numbers.
LEMMA ItemStep ==
  ASSUME NEW ls \in Seq(ListLines), NEW from \in Nat, NEW to \in Nat, from <= to, NEW w,
         NEW i \in Items(ls), WalkIs(ls, from, to, w, PastOf(ls, ItemOf(ls, i)))
  PROVE  WalkIs(ls, from, to, Item(w, i), PastOf(ls, ItemOf(ls, i)) \union {ItemOf(ls, i)})
<1> DEFINE P == PastOf(ls, ItemOf(ls, i))
           N == P \union {ItemOf(ls, i)}
           own == ListOf(ls, i)
<1>1. PICK q : StackIs(ls, from, to, w.stack, q, P)
  BY DEF WalkIs
<1> DEFINE n == Len(q)
           top == w.stack[n]
<1>2. /\ n \in Nat /\ Len(w.stack) = n /\ w.stack \in Seq(Frames) /\ q \in Seq(Lists(ls))
      /\ \A k \in 1..n : q[k] \in Lists(ls) /\ w.stack[k] \in Frames
  BY <1>1, StackHas
<1>3. n \in 1..n /\ q[n] = own /\ (top.wanted <=> Touched(ls, i, from, to))
  BY <1>1, OpenAtItem, TouchedIs
<1>4. /\ i \in 1..Len(ls) /\ own \in Lists(ls) /\ i \in own /\ Min(own) \in own
      /\ ls[Min(own)].mark = ls[i].mark
  BY LinesHave, ListsHave, ListSpans
<1>5. \A k \in 1..n : FrameIs(ls, from, to, w.stack[k], q, k, P)
  BY <1>1 DEF StackIs
<1>6. /\ top \in Frames /\ (top.ordered <=> ls[i].mark = "number")
      /\ top.ordered => top.next = ls[Min(own)].number + Cardinality(Passed(ls, own, P))
  BY <1>3, <1>5, <1>4 DEF FrameIs
<1>7. /\ Passed(ls, own, P) = {j \in own : j < i}
      /\ Cardinality(Passed(ls, own, N)) = Cardinality(Passed(ls, own, P)) + 1
      /\ Cardinality(Passed(ls, own, P)) \in Nat
      /\ \A k \in Lists(ls) : k # own => Passed(ls, k, N) = Passed(ls, k, P)
  BY ItemIsDue
<1>8. top.ordered => top.next = Due(ls, i) /\ Due(ls, i) \in Nat
  <2>1. Due(ls, i) = ls[Min(own)].number + Cardinality({j \in own : j < i})
    BY DEF Due
  <2>2. ls[Min(own)].number \in Nat
    BY <1>4, LinesHave, ListSpans
  <2> HIDE DEF top, own, P
  <2> QED BY <1>6, <1>7, <2>1, <2>2
<1>9. ASSUME NEW k \in 1..n, k # n PROVE q[k] # own
  <2>1. k < n
    BY <1>2, <1>9
  <2>2. Min(q[k]) < Min(q[n])
    BY <1>1, <1>3, <2>1 DEF StackIs
  <2>3. Min(own) \in Nat
    BY <1>4, ListRuns
  <2> HIDE DEF n, own
  <2> QED BY <1>3, <2>2, <2>3
<1>10. ASSUME NEW s \in Seq(Frames), Len(s) = n, \A k \in 1..n : k # n => s[k] = w.stack[k],
              s[n].ordered = top.ordered, s[n].wanted = top.wanted,
              top.ordered => s[n].next = top.next + 1
       PROVE  StackIs(ls, from, to, s, q, N)
  <2>1. ASSUME NEW k \in 1..n, k # n PROVE FrameIs(ls, from, to, s[k], q, k, N)
    BY <1>2, <1>5, <1>9, <1>10, <2>1, <1>7 DEF FrameIs
  <2>2. FrameIs(ls, from, to, s[n], q, n, N)
    <3>1. FrameIs(ls, from, to, top, q, n, P) /\ s[n] \in Frames
      BY <1>3, <1>5, <1>10, ElementOfSeq
    <3>2. s[n].ordered => s[n].next = ls[Min(q[n])].number + Cardinality(Passed(ls, q[n], N))
      <4>1. ls[Min(own)].number \in Nat
        BY <1>4, LinesHave, ListSpans
      <4> SUFFICES ASSUME s[n].ordered
                   PROVE  s[n].next = ls[Min(q[n])].number + Cardinality(Passed(ls, q[n], N))
        OBVIOUS
      <4>2. top.ordered
        BY <1>10
      <4>3. /\ top.next = ls[Min(own)].number + Cardinality(Passed(ls, own, P))
            /\ s[n].next = top.next + 1
        BY <1>6, <1>10, <4>2
      <4>4. Cardinality(Passed(ls, own, N)) = Cardinality(Passed(ls, own, P)) + 1
            /\ Cardinality(Passed(ls, own, P)) \in Nat
        BY <1>7
      <4>5. q[n] = own
        BY <1>3
      <4> DEFINE base == ls[Min(own)].number
                 count == Cardinality(Passed(ls, own, P))
      <4>6. base + count + 1 = base + (count + 1)
        <5>1. base \in Nat /\ count \in Nat
          BY <4>1, <4>4
        <5> HIDE DEF base, count
        <5> QED BY <5>1
      <4>7. s[n].next = base + count + 1
        BY <4>3
      <4>8. base = ls[Min(q[n])].number /\ count + 1 = Cardinality(Passed(ls, q[n], N))
        BY <4>4, <4>5
      <4> HIDE DEF base, count
      <4> QED BY <4>6, <4>7, <4>8
    <3> HIDE DEF P, N, own, top, n
    <3> QED BY <1>3, <1>10, <3>1, <3>2 DEF FrameIs
  <2>3. \A k \in 1..n : FrameIs(ls, from, to, s[k], q, k, N)
    BY <2>1, <2>2
  <2>4. \A l \in Lists(ls) : /\ OpenOf(l) \in N <=> OpenOf(l) \in P
                             /\ CloseOf(ls, l) \in N <=> CloseOf(ls, l) \in P
    BY EventsApart
  <2> HIDE DEF P, N
  <2> QED BY <1>1, <1>2, <1>10, <2>3, <2>4 DEF StackIs
<1>11. NumbersAre(ls, from, to, w.numbers, P) /\ w = [stack |-> w.stack, numbers |-> w.numbers]
  BY DEF WalkIs
<1>12. \A j \in Items(ls) : ItemOf(ls, j) \in N <=> ItemOf(ls, j) \in P \/ j = i
  BY EventsApart
<1>13. ItemOf(ls, i) \notin P
  BY <1>4, PastsAre
<1>14. \A j \in 1..Len(ls) : ls[j].mark = "number" => j \in Items(ls)
  BY LinesHave DEF Items
<1>15. top.ordered \in BOOLEAN /\ top.wanted \in BOOLEAN /\ top.next \in Nat
  BY <1>6 DEF Frames
<1>16. CASE ~ top.ordered
  BY <1>2, <1>16, <1>10, <1>6, <1>11, <1>12, <1>14 DEF Item, Last, NumbersAre, WalkIs, N
<1>17. CASE top.ordered
  <2> DEFINE g == [top EXCEPT !.next = @ + 1]
             front == SubSeq(w.stack, 1, Len(w.stack) - 1)
             s == Append(front, g)
             v == Item(w, i)
  <2>1. g \in Frames /\ g.ordered = top.ordered /\ g.wanted = top.wanted /\ g.next = top.next + 1
    BY <1>6 DEF Frames
  <2>2. /\ front \in Seq(Frames) /\ Len(front) = n - 1
        /\ \A k \in 1..(n - 1) : front[k] = w.stack[k]
    BY <1>2, <1>3, EmptySeq, AllButLast
  <2>3. s \in Seq(Frames) /\ Len(s) = n /\ s[n] = g
        /\ \A k \in 1..n : k # n => s[k] = w.stack[k]
    BY <2>1, <2>2, AppendProperties, <1>2
  <2>4. StackIs(ls, from, to, s, q, N)
    BY <1>10, <2>1, <2>3
  <2>5. v = [stack |-> s, numbers |-> IF top.wanted THEN [w.numbers EXCEPT ![i] = top.next]
                                      ELSE w.numbers]
    BY <1>2, <1>17 DEF Item, Last, Front
  <2>6. NumbersAre(ls, from, to, v.numbers, N)
    <3> DEFINE m == IF top.wanted THEN [w.numbers EXCEPT ![i] = top.next] ELSE w.numbers
    <3>1. v.numbers = m
      BY <2>5
    <3>2. w.numbers \in [1..Len(ls) -> Nat]
      BY <1>11 DEF NumbersAre
    <3>3. m \in [1..Len(ls) -> Nat]
      BY <1>15, <3>2
    <3>4. ASSUME NEW j \in 1..Len(ls)
          PROVE  m[j] = IF /\ ls[j].mark = "number" /\ ItemOf(ls, j) \in N
                           /\ Touched(ls, j, from, to)
                        THEN Due(ls, j) ELSE ls[LineStart(ls, j)].number
      <4>1. w.numbers[j] = IF /\ ls[j].mark = "number" /\ ItemOf(ls, j) \in P
                              /\ Touched(ls, j, from, to)
                           THEN Due(ls, j) ELSE ls[LineStart(ls, j)].number
        BY <1>11 DEF NumbersAre
      <4>2. CASE j = i
        <5>1. ItemOf(ls, j) \in N /\ ItemOf(ls, j) \notin P /\ ls[j].mark = "number"
          BY <1>6, <1>13, <1>17, <4>2
        <5>2. m[j] = IF top.wanted THEN top.next ELSE w.numbers[j]
          BY <1>4, <3>2, <4>2
        <5> HIDE DEF m, N, P, top
        <5> QED BY <1>3, <1>8, <1>17, <4>1, <4>2, <5>1, <5>2
      <4>3. CASE j # i
        BY <3>2, <4>3, <1>12, <1>14, <4>1
      <4> QED BY <4>2, <4>3
    <3> HIDE DEF m, N
    <3> QED BY <3>1, <3>3, <3>4 DEF NumbersAre
  <2>7. v.stack = s /\ v = [stack |-> v.stack, numbers |-> v.numbers]
    BY <2>5
  <2> HIDE DEF v, N, s
  <2>8. WalkIs(ls, from, to, v, N)
    BY <2>4, <2>6, <2>7 DEF WalkIs
  <2> QED BY <2>8 DEF v, N
<1> QED BY <1>15, <1>16, <1>17

\* A list that closes is the innermost of those that are open.
LEMMA CloseStep ==
  ASSUME NEW ls \in Seq(ListLines), NEW from, NEW to, NEW stack, NEW q,
         NEW l \in Lists(ls), StackIs(ls, from, to, stack, q, PastOf(ls, CloseOf(ls, l)))
  PROVE  StackIs(ls, from, to, SubSeq(stack, 1, Len(stack) - 1), SubSeq(q, 1, Len(q) - 1),
                 PastOf(ls, CloseOf(ls, l)) \union {CloseOf(ls, l)})
<1> DEFINE P == PastOf(ls, CloseOf(ls, l))
           N == P \union {CloseOf(ls, l)}
           r == SubSeq(q, 1, Len(q) - 1)
           s == SubSeq(stack, 1, Len(stack) - 1)
           n == Len(q)
<1>1. /\ n \in Nat /\ Len(stack) = n /\ stack \in Seq(Frames) /\ q \in Seq(Lists(ls))
      /\ \A k \in 1..n : q[k] \in Lists(ls) /\ stack[k] \in Frames
  BY StackHas
<1>2. \A k \in Lists(ls) : Min(k) \in k /\ Min(k) \in Nat /\ LastLine(ls, k) \in Nat
                           /\ Min(k) <= LastLine(ls, k) /\ Min(k) \in Items(ls)
  BY ListRuns, ListsHave
<1>3. \A k \in Lists(ls) : /\ OpenOf(k) \in P <=> Min(k) <= LastLine(ls, l)
                           /\ CloseOf(ls, k) \in P
                                <=> \/ LastLine(ls, k) < LastLine(ls, l)
                                    \/ LastLine(ls, k) = LastLine(ls, l) /\ Min(l) < Min(k)
  BY <1>2, PastsAre
<1>4. \A k \in Lists(ls) :
        (\E m \in 1..n : q[m] = k) <=> OpenOf(k) \in P /\ CloseOf(ls, k) \notin P
  BY DEF StackIs
<1>5. PICK x \in 1..n : q[x] = l
  BY <1>2, <1>3, <1>4
<1>6. n \in 1..n
  BY <1>1
<1>7. q[n] = l
  <2> SUFFICES ASSUME q[n] # l PROVE FALSE
    OBVIOUS
  <2>1. x < n
    BY <1>5, <1>1
  <2>2. Min(l) < Min(q[n])
    BY <1>5, <1>6, <2>1 DEF StackIs
  <2>3. q[n] \in Lists(ls) /\ OpenOf(q[n]) \in P /\ CloseOf(ls, q[n]) \notin P
    BY <1>1, <1>6, <1>4
  <2>4. Min(l) <= Min(q[n]) /\ Min(q[n]) <= LastLine(ls, l) /\ Min(q[n]) \in q[n]
    BY <1>2, <1>3, <2>2, <2>3
  <2>5. LastLine(ls, q[n]) <= LastLine(ls, l)
    BY <2>3, <2>4, ListsNested
  <2> HIDE DEF n, P
  <2> QED BY <1>2, <1>3, <2>2, <2>3, <2>5
<1>8. /\ s \in Seq(Frames) /\ Len(s) = n - 1 /\ \A k \in 1..(n - 1) : s[k] = stack[k]
      /\ r \in Seq(Lists(ls)) /\ Len(r) = n - 1 /\ \A k \in 1..(n - 1) : r[k] = q[k]
  BY <1>1, <1>6, EmptySeq, AllButLast DEF n
<1>9. \A k \in Lists(ls) : Passed(ls, k, N) = Passed(ls, k, P)
  BY ListsHave, EventsApart DEF Passed
<1>10. \A k \in 1..(n - 1) : k \in 1..n /\ k # n
  BY <1>1
<1>11. ASSUME NEW k \in 1..(n - 1) PROVE FrameIs(ls, from, to, s[k], r, k, N)
  <2>1. FrameIs(ls, from, to, stack[k], q, k, P) /\ q[k] \in Lists(ls)
        /\ s[k] = stack[k] /\ r[k] = q[k]
    BY <1>1, <1>8, <1>10 DEF StackIs
  <2>2. \A m \in 1..k : r[m] = q[m]
    BY <1>1, <1>8
  <2> HIDE DEF s, r, N, P, n
  <2> QED BY <1>9, <2>1, <2>2 DEF FrameIs
<1>12. \A j, k \in 1..(n - 1) : j < k => Min(r[j]) < Min(r[k])
  BY <1>8, <1>10 DEF StackIs
<1>13. ASSUME NEW k \in Lists(ls)
       PROVE  (\E m \in 1..(n - 1) : r[m] = k) <=> OpenOf(k) \in N /\ CloseOf(ls, k) \notin N
  <2>1. (\E m \in 1..(n - 1) : r[m] = k) <=> (k # l /\ \E m \in 1..n : q[m] = k)
    <3>1. \A m \in 1..n : m = n \/ m \in 1..(n - 1)
      BY <1>1
    <3>2. \A m \in 1..(n - 1) : q[m] # l
      <4>1. \A m \in 1..(n - 1) : Min(q[m]) < Min(q[n]) /\ Min(q[m]) \in Nat
        <5>1. \A m \in 1..(n - 1) : m < n
          BY <1>1
        <5>2. \A i, j \in 1..n : i < j => Min(q[i]) < Min(q[j])
          BY DEF StackIs
        <5> HIDE DEF n
        <5> QED BY <1>1, <1>2, <1>6, <1>10, <5>1, <5>2
      <4>2. \A m \in 1..(n - 1) : Min(q[m]) # Min(q[n])
        BY <1>2, <1>7, <4>1
      <4> HIDE DEF n
      <4> QED BY <1>7, <4>2
    <3> HIDE DEF n, r
    <3> QED BY <1>7, <1>8, <1>10, <3>1, <3>2
  <2>2. /\ OpenOf(k) \in N <=> OpenOf(k) \in P
        /\ CloseOf(ls, k) \in N <=> (CloseOf(ls, k) \in P \/ k = l)
    BY EventsApart
  <2> HIDE DEF n, r, N, P
  <2> QED BY <1>4, <2>1, <2>2
<1> HIDE DEF s, r, N, P
<1>14. StackIs(ls, from, to, s, r, N)
  BY <1>8, <1>11, <1>12, <1>13 DEF StackIs
<1> QED BY <1>14 DEF s, r, N, P

\* One event of the walk.
StepOf(ls, w, e, from, to) ==
  CASE e.kind = "open"  -> Opened(ls, w, e.list, from, to)
    [] e.kind = "item"  -> Item(w, e.at)
    [] e.kind = "close" -> Closed(w)

LEMMA StepKeeps ==
  ASSUME NEW ls \in Seq(ListLines), NEW from \in Nat, NEW to \in Nat, from <= to,
         NEW w, NEW e \in AllEvents(ls), WalkIs(ls, from, to, w, PastOf(ls, e))
  PROVE  WalkIs(ls, from, to, StepOf(ls, w, e, from, to), PastOf(ls, e) \union {e})
<1>1. w = [stack |-> w.stack, numbers |-> w.numbers]
      /\ NumbersAre(ls, from, to, w.numbers, PastOf(ls, e))
  BY DEF WalkIs
<1>2. PICK q : StackIs(ls, from, to, w.stack, q, PastOf(ls, e))
  BY DEF WalkIs
<1>3. \A j \in 1..Len(ls) : ls[j].mark = "number" => j \in Items(ls)
  BY LinesHave DEF Items
<1>4. CASE \E l \in Lists(ls) : e = OpenOf(l)
  <2>1. PICK l \in Lists(ls) : e = OpenOf(l)
    BY <1>4
  <2> DEFINE f == [next |-> ls[Min(l)].number, ordered |-> ls[Min(l)].mark = "number",
                   wanted |-> \/ Overlaps(ls, l, from, to)
                              \/ w.stack # << >> /\ w.stack[Len(w.stack)].wanted]
             s == Append(w.stack, f)
             v == StepOf(ls, w, e, from, to)
  <2>2. StackIs(ls, from, to, s, Append(q, l), PastOf(ls, e) \union {e})
    BY <1>2, <2>1, OpenStep
  <2>3. e.kind = "open" /\ e.list = l
    BY <2>1 DEF OpenOf
  <2>4. v = Opened(ls, w, l, from, to)
    BY <2>3 DEF StepOf
  <2>5. v = [stack |-> s, numbers |-> w.numbers]
    BY <1>1, <2>4 DEF Opened, Last
  <2>6. \A j \in Items(ls) : ItemOf(ls, j) # e
    BY <2>1, EventsApart
  <2>7. NumbersAre(ls, from, to, w.numbers, PastOf(ls, e) \union {e})
    BY <1>1, <1>3, <2>6 DEF NumbersAre
  <2> HIDE DEF s, v
  <2>8. v.stack = s /\ v.numbers = w.numbers
    BY <2>5
  <2>9. WalkIs(ls, from, to, v, PastOf(ls, e) \union {e})
    BY <2>2, <2>5, <2>7, <2>8 DEF WalkIs
  <2> QED BY <2>9 DEF v
<1>5. CASE \E i \in Items(ls) : e = ItemOf(ls, i)
  BY <1>5, ItemStep DEF ItemOf, StepOf
<1>6. CASE \E l \in Lists(ls) : e = CloseOf(ls, l)
  <2>1. PICK l \in Lists(ls) : e = CloseOf(ls, l)
    BY <1>6
  <2> DEFINE s == SubSeq(w.stack, 1, Len(w.stack) - 1)
             v == StepOf(ls, w, e, from, to)
  <2>2. StackIs(ls, from, to, s, SubSeq(q, 1, Len(q) - 1), PastOf(ls, e) \union {e})
    BY <1>2, <2>1, CloseStep
  <2>3. e.kind = "close"
    BY <2>1 DEF CloseOf
  <2>4. v = Closed(w)
    BY <2>3 DEF StepOf
  <2>5. v = [stack |-> s, numbers |-> w.numbers]
    BY <1>1, <2>4 DEF Closed, Front
  <2>6. \A j \in Items(ls) : ItemOf(ls, j) # e
    BY <2>1, EventsApart
  <2>7. NumbersAre(ls, from, to, w.numbers, PastOf(ls, e) \union {e})
    BY <1>1, <1>3, <2>6 DEF NumbersAre
  <2> HIDE DEF s, v
  <2>8. v.stack = s /\ v.numbers = w.numbers
    BY <2>5
  <2>9. WalkIs(ls, from, to, v, PastOf(ls, e) \union {e})
    BY <2>2, <2>5, <2>7, <2>8 DEF WalkIs
  <2> QED BY <2>9 DEF v
<1> QED BY <1>4, <1>5, <1>6 DEF AllEvents

\* The events behind the walk after k steps.
Read(ls, k) == {Events(ls)[j] : j \in 1..k}

LEMMA ReadIs ==
  ASSUME NEW ls \in Seq(ListLines), NEW k \in 1..Len(Events(ls))
  PROVE  /\ Read(ls, k - 1) = PastOf(ls, Events(ls)[k])
         /\ Read(ls, k) = Read(ls, k - 1) \union {Events(ls)[k]}
         /\ Events(ls)[k] \in AllEvents(ls)
<1> DEFINE es == Events(ls)
<1>1. /\ es \in Seq(AllEvents(ls)) /\ Len(es) \in Nat
      /\ \A i, j \in 1..Len(es) : i < j => Sooner(es[i], es[j])
      /\ \A e \in AllEvents(ls) : \E j \in 1..Len(es) : es[j] = e
  BY EventsInOrder
<1>2. \A j \in 1..Len(es) : es[j] \in AllEvents(ls)
  BY <1>1, ElementOfSeq
<1>3. \A d, e \in AllEvents(ls) : d.at \in Nat /\ d.rank \in Nat
  BY EventPlaces
<1>4. \A d, e \in AllEvents(ls) : ~ (Sooner(d, e) /\ Sooner(e, d))
  BY <1>3 DEF Sooner
<1>5. \A d \in AllEvents(ls) : ~ Sooner(d, d)
  BY <1>3 DEF Sooner
<1> HIDE DEF es
<1>6. k \in 1..Len(es) /\ k \in Nat
  BY DEF es
<1>7. \A j \in 1..Len(es) : Sooner(es[j], es[k]) => j < k
  <2> SUFFICES ASSUME NEW j \in 1..Len(es), Sooner(es[j], es[k]), ~ (j < k) PROVE FALSE
    OBVIOUS
  <2>1. j = k \/ k < j
    BY <1>6
  <2> QED BY <1>1, <1>2, <1>4, <1>5, <1>6, <2>1
<1>8. {es[j] : j \in 1..(k - 1)} = PastOf(ls, es[k])
  <2>1. \A j \in 1..(k - 1) : es[j] \in PastOf(ls, es[k])
    <3>1. \A j \in 1..(k - 1) : j \in 1..Len(es) /\ j < k
      BY <1>1, <1>6
    <3> QED BY <1>1, <1>2, <1>6, <3>1 DEF PastOf
  <2>2. \A d \in PastOf(ls, es[k]) : \E j \in 1..(k - 1) : es[j] = d
    <3> SUFFICES ASSUME NEW d \in PastOf(ls, es[k]) PROVE \E j \in 1..(k - 1) : es[j] = d
      OBVIOUS
    <3>1. d \in AllEvents(ls) /\ Sooner(d, es[k])
      BY DEF PastOf
    <3>2. PICK j \in 1..Len(es) : es[j] = d
      BY <1>1, <3>1
    <3>3. j < k
      BY <1>7, <3>1, <3>2
    <3>4. j \in 1..(k - 1)
      BY <1>1, <1>6, <3>3
    <3> QED BY <3>2, <3>4
  <2> QED BY <2>1, <2>2
<1>9. {es[j] : j \in 1..k} = {es[j] : j \in 1..(k - 1)} \union {es[k]}
  BY <1>6
<1> QED BY <1>2, <1>6, <1>8, <1>9 DEF es, Read

\* The line of an entry begins at the last entry up to it that begins a line.
LEMMA LineStartIs ==
  ASSUME NEW ls \in Seq(ListLines), MarkersFollow(ls), NEW i \in 1..Len(ls)
  PROVE  /\ LineStart(ls, i) \in 1..Len(ls)
         /\ ls[LineStart(ls, i)].number \in Nat
         /\ ls[i].first => LineStart(ls, i) = i
<1> DEFINE S == {j \in 1..i : ls[j].first}
<1>1. Len(ls) \in Nat /\ DOMAIN ls = 1..Len(ls) /\ \A j \in 1..Len(ls) : ls[j].number \in Nat
  BY LinesHave
<1>2. 1 \in S
  BY <1>1 DEF MarkersFollow
<1>3. S \in SUBSET (0..i) /\ S # {} /\ i \in Nat
  BY <1>2
<1>4. Max(S) \in S /\ \A x \in S : x <= Max(S)
  BY <1>3, MaxOfLines
<1>5. Max(S) \in 1..Len(ls) /\ (ls[i].first => Max(S) = i)
  BY <1>1, <1>4
<1> QED BY <1>1, <1>5 DEF LineStart

\* An item that begins behind another marker is the first of its list, and due the number
\* it has.
LEMMA BesideIsDue ==
  ASSUME NEW ls \in Seq(ListLines), MarkersFollow(ls), NEW i \in Items(ls), ~ ls[i].first
  PROVE  Due(ls, i) = ls[i].number
<1> DEFINE l == ListOf(ls, i)
<1>1. /\ Len(ls) \in Nat /\ DOMAIN ls = 1..Len(ls) /\ i \in 1..Len(ls)
      /\ Items(ls) \subseteq 1..Len(ls) /\ ls[i].number \in Nat
  BY LinesHave
<1>2. i > 1 /\ i - 1 \in Items(ls) /\ ls[i].col >= ls[i - 1].col + Width(ls[i - 1])
  BY <1>1 DEF MarkersFollow, Items
<1>3. Inside(ls, i, i - 1)
  <2> SUFFICES ASSUME NEW k \in ((i - 1) + 1)..i PROVE ls[k].col >= ls[i - 1].col + Width(ls[i - 1])
    BY DEF Inside
  <2>1. k = i
    BY <1>1
  <2> QED BY <2>1, <1>2
<1>4. ItemAround(ls, i) = i - 1
  BY <1>1, <1>2, <1>3, AroundIs
<1>5. ASSUME NEW j \in l PROVE j \in 1..Len(ls) /\ i <= j
  <2>1. j \in 1..Len(ls) /\ ItemAround(ls, j) = i - 1
    BY <1>1, <1>4 DEF ListOf, OneList
  <2>2. ItemAround(ls, j) \in 0..(j - 1)
    BY <2>1, AroundIs
  <2> QED BY <1>1, <2>1, <2>2
<1>6. i \in l
  BY <1>1, ListsHave
<1>7. l \in SUBSET (0..Len(ls)) /\ l # {}
  BY <1>1, <1>5, <1>6
<1>8. Min(l) \in l /\ Min(l) <= i
  BY <1>1, <1>6, <1>7, MinOfLines
<1>9. Min(l) = i /\ {j \in l : j < i} = {}
  <2>1. i <= Min(l) /\ Min(l) \in Nat /\ i \in Nat
    BY <1>1, <1>5, <1>8
  <2>2. \A j \in l : ~ (j < i)
    BY <1>1, <1>5
  <2> HIDE DEF l
  <2> QED BY <1>8, <2>1, <2>2
<1>10. Due(ls, i) = ls[i].number + Cardinality({})
  <2>1. Due(ls, i) = ls[Min(l)].number + Cardinality({j \in l : j < i})
    BY DEF Due
  <2> HIDE DEF l
  <2> QED BY <1>9, <2>1
<1> QED BY <1>1, <1>10, FS_EmptySet

\* The walk begins with no list open and every number as it is.
StartOfWalk(ls) == [stack |-> << >>, numbers |-> [i \in DOMAIN ls |-> ls[LineStart(ls, i)].number]]

LEMMA StartIs ==
  ASSUME NEW ls \in Seq(ListLines), MarkersFollow(ls), NEW from, NEW to
  PROVE  WalkIs(ls, from, to, StartOfWalk(ls), Read(ls, 0))
<1> DEFINE w == StartOfWalk(ls)
<1>1. Read(ls, 0) = {}
  BY DEF Read
<1>2. /\ w.stack = << >> /\ w.numbers = [i \in 1..Len(ls) |-> ls[LineStart(ls, i)].number]
      /\ w = [stack |-> w.stack, numbers |-> w.numbers]
  BY LinesHave DEF StartOfWalk
<1>3. StackIs(ls, from, to, << >>, << >>, {})
  BY EmptySeq DEF StackIs
<1>4. NumbersAre(ls, from, to, [i \in 1..Len(ls) |-> ls[LineStart(ls, i)].number], {})
  BY LinesHave, LineStartIs DEF NumbersAre
<1> HIDE DEF w
<1>5. WalkIs(ls, from, to, w, {})
  BY <1>2, <1>3, <1>4 DEF WalkIs
<1> QED BY <1>1, <1>5 DEF w

\* A walk that begins so and takes the events one by one.
LEMMA WalkGoes ==
  ASSUME NEW ls \in Seq(ListLines), MarkersFollow(ls), NEW from \in Nat, NEW to \in Nat,
         from <= to, NEW walks,
         walks[0] = StartOfWalk(ls),
         \A k \in 1..Len(Events(ls)) :
           WalkIs(ls, from, to, walks[k - 1], Read(ls, k - 1))
             => walks[k] = StepOf(ls, walks[k - 1], Events(ls)[k], from, to)
  PROVE  \A k \in 0..Len(Events(ls)) : WalkIs(ls, from, to, walks[k], Read(ls, k))
<1> DEFINE n == Len(Events(ls))
           Bad == {k \in 0..n : ~ WalkIs(ls, from, to, walks[k], Read(ls, k))}
<1>1. n \in Nat
  BY EventsInOrder
<1>2. ASSUME Bad # {} PROVE FALSE
  <2>1. PICK k \in Bad : \A j \in Bad : k <= j
    <3>1. Bad \in SUBSET Nat
      BY <1>1
    <3> HIDE DEF Bad
    <3> QED BY <1>2, <3>1, NatLeast
  <2>2. CASE k = 0
    BY <2>2, StartIs
  <2>3. CASE k # 0
    <3>1. k \in 1..n /\ k - 1 \in 0..n /\ ~ (k <= k - 1)
      BY <1>1, <2>3
    <3>2. WalkIs(ls, from, to, walks[k - 1], Read(ls, k - 1))
      BY <2>1, <3>1
    <3>3. walks[k] = StepOf(ls, walks[k - 1], Events(ls)[k], from, to)
      BY <3>1, <3>2
    <3>4. WalkIs(ls, from, to, walks[k], Read(ls, k))
      BY <3>1, <3>2, <3>3, ReadIs, StepKeeps
    <3> QED BY <3>4
  <2> QED BY <2>2, <2>3
<1> QED BY <1>2

\* Every walk that can be under way.
Walks(ls) == [stack : Seq(Frames), numbers : [1..Len(ls) -> Nat]]

LEMMA WalkIsTyped ==
  ASSUME NEW ls \in Seq(ListLines), NEW from, NEW to, NEW w, NEW P, WalkIs(ls, from, to, w, P)
  PROVE  w \in Walks(ls)
BY DEF WalkIs, StackIs, NumbersAre, Walks

\* renumber() ends with the number due on each item that is wanted, and no other changed.
LEMMA RenumberedIs ==
  ASSUME NEW ls \in Seq(ListLines), MarkersFollow(ls), NEW from \in Nat, NEW to \in Nat, from <= to
  PROVE  NumbersAre(ls, from, to, Renumbered(ls, from, to), AllEvents(ls))
<1> DEFINE es == Events(ls)
           n == Len(es)
           V == Walks(ls)
           start == StartOfWalk(ls)
           To(w, k) == StepOf(ls, w, es[k], from, to)
           step == [p \in V \X (1..n) |-> IF To(p[1], p[2]) \in V THEN To(p[1], p[2]) ELSE start]
           Sol(f) == f = [k \in 0..n |-> IF k = 0 THEN start ELSE To(f[k - 1], k)]
           walks == CHOOSE f : Sol(f)
<1>1. n \in Nat
  BY EventsInOrder
<1>2. start \in V
  BY StartIs, WalkIsTyped
<1>3. step \in [V \X (1..n) -> V]
  BY <1>2
<1>4. PICK g : Solves(g, V, start, n, step)
  BY <1>1, <1>2, <1>3, RecursionExists
<1>5. g \in [0..n -> V] /\ g[0] = start
  BY <1>4 DEF Solves
<1>6. ASSUME NEW k \in 1..n, To(g[k - 1], k) \in V PROVE g[k] = To(g[k - 1], k)
  <2> HIDE DEF V, n, start, To
  <2>1. k - 1 \in 0..n
    BY <1>1
  <2>2. g[k - 1] \in V /\ g[k] = step[<<g[k - 1], k>>]
    BY <1>4, <1>5, <2>1 DEF Solves
  <2> QED BY <1>6, <2>2
<1>7. ASSUME NEW k \in 1..n, WalkIs(ls, from, to, g[k - 1], Read(ls, k - 1))
      PROVE  g[k] = To(g[k - 1], k)
  <2>1. WalkIs(ls, from, to, g[k - 1], PastOf(ls, es[k])) /\ es[k] \in AllEvents(ls)
    BY <1>7, ReadIs
  <2>2. WalkIs(ls, from, to, To(g[k - 1], k), PastOf(ls, es[k]) \union {es[k]})
    BY <2>1, StepKeeps
  <2>3. To(g[k - 1], k) \in V
    BY <2>2, WalkIsTyped
  <2> HIDE DEF V, n, To
  <2> QED BY <1>6, <2>3
<1>8. \A k \in 0..n : WalkIs(ls, from, to, g[k], Read(ls, k))
  BY <1>7, <1>5, WalkGoes
<1>9. Sol(g)
  <2>1. ASSUME NEW k \in 1..n PROVE g[k] = To(g[k - 1], k)
    BY <1>1, <1>7, <1>8
  <2>2. g = [k \in 0..n |-> g[k]]
    BY <1>5
  <2>3. \A k \in 0..n : k # 0 => k \in 1..n
    BY <1>1
  <2> HIDE DEF V, n, To, start
  <2> QED BY <1>5, <2>1, <2>2, <2>3
<1>10. Sol(walks)
  BY <1>9
<1>11. walks[0] = start /\ \A k \in 1..n : walks[k] = To(walks[k - 1], k)
  <2> HIDE DEF walks, To, start, n
  <2>1. 0 \in 0..n /\ \A k \in 1..n : k \in 0..n /\ k # 0
    BY <1>1
  <2> QED BY <1>10, <2>1
<1>12. Renumbered(ls, from, to) = walks[n].numbers
  BY DEF Renumbered, StepOf, StartOfWalk
<1>13. WalkIs(ls, from, to, walks[n], Read(ls, n))
  <2> HIDE DEF walks
  <2>1. \A k \in 1..Len(Events(ls)) :
          WalkIs(ls, from, to, walks[k - 1], Read(ls, k - 1))
            => walks[k] = StepOf(ls, walks[k - 1], Events(ls)[k], from, to)
    BY <1>11
  <2>2. walks[0] = StartOfWalk(ls) /\ n \in 0..n
    BY <1>1, <1>11
  <2> QED BY <2>1, <2>2, WalkGoes
<1>14. \A d \in AllEvents(ls) : d \in Read(ls, n)
  BY EventsInOrder DEF Read
<1>15. \A i \in 1..Len(ls) :
         ls[i].mark = "number" => ItemOf(ls, i) \in AllEvents(ls) /\ ItemOf(ls, i) \in Read(ls, n)
  BY LinesHave, <1>14 DEF Items, AllEvents
<1> HIDE DEF walks, n
<1> QED BY <1>12, <1>13, <1>15 DEF WalkIs, NumbersAre

\* What is written over the digits of the lines: the number due on every item, except
\* where two ordered lists have an item on one line.
LEMMA WrittenIs ==
  ASSUME NEW ls \in Seq(ListLines), MarkersFollow(ls), NEW numbers \in [1..Len(ls) -> Nat],
         NEW from, NEW to, NEW i \in 1..Len(ls),
         \A k \in 1..Len(ls) :
           numbers[k] = IF ls[k].mark = "number" /\ Touched(ls, k, from, to)
                        THEN Due(ls, k) ELSE ls[LineStart(ls, k)].number,
         ~ (/\ ls[i].first /\ ls[i].mark = "number"
            /\ \E k \in 1..Len(ls) : /\ k # i /\ LineStart(ls, k) = i
                                     /\ ls[k].mark = "number" /\ Touched(ls, k, from, to))
  PROVE  Written(ls, numbers)[i] = IF ls[i].mark = "number" /\ Touched(ls, i, from, to)
                                   THEN Due(ls, i) ELSE ls[i].number
<1> DEFINE edits == {k \in DOMAIN ls : LineStart(ls, k) = i /\ numbers[k] # ls[i].number}
<1>1. Len(ls) \in Nat /\ DOMAIN ls = 1..Len(ls)
  BY LinesHave
<1>2. Written(ls, numbers)[i] = IF ls[i].first /\ ls[i].mark = "number" /\ edits # {}
                                THEN numbers[Max(edits)] ELSE ls[i].number
  BY <1>1 DEF Written
<1>3. CASE ls[i].first /\ ls[i].mark = "number"
  <2>1. LineStart(ls, i) = i
    BY <1>3, LineStartIs
  <2>2. edits \subseteq {i}
    BY <1>1, <1>3
  <2>3. i \in edits <=> numbers[i] # ls[i].number
    BY <1>1, <2>1
  <2>4. CASE edits = {}
    BY <1>2, <2>1, <2>3, <2>4
  <2>5. CASE edits = {i}
    <3>1. i \in Nat /\ {i} \in SUBSET (0..i)
      OBVIOUS
    <3>2. Max(edits) = i
      BY <2>5, <3>1, MaxOfLines
    <3> HIDE DEF edits
    <3> QED BY <1>2, <1>3, <2>1, <2>5, <3>2
  <2> HIDE DEF edits
  <2> QED BY <2>2, <2>4, <2>5
<1>4. CASE ~ (ls[i].first /\ ls[i].mark = "number")
  <2>1. ls[i].mark = "number" => Due(ls, i) = ls[i].number
    BY <1>1, <1>4, BesideIsDue DEF Items
  <2> HIDE DEF edits
  <2> QED BY <1>2, <1>4, <2>1
<1> QED BY <1>3, <1>4

\* CountsUp needs what the text was before the renumbering, and that it is a text.
ListInv ==
  /\ range = NoRange => listText = before /\ before \in Seq(ListLines) /\ MarkersFollow(before)
  /\ CountsUp

LEMMA ListInvInit == ListInit => ListInv
<1> SUFFICES ASSUME ListInit PROVE ListInv
  OBVIOUS
<1>1. listText \in Seq(ListLines) /\ MarkersFollow(listText) /\ before = listText /\ range = NoRange
  BY ListsAssumption DEF ListInit
<1>2. ASSUME NEW i \in DOMAIN listText PROVE ~ Touched(before, i, range[1], range[2])
  BY <1>1 DEF NoRange, Touched
<1>3. CountsUp
  BY <1>1, <1>2 DEF CountsUp, Right
<1> QED BY <1>1, <1>3 DEF ListInv

LEMMA ListInvNext == ListInv /\ [ListNext]_listVars => ListInv'
<1> SUFFICES ASSUME ListInv, [ListNext]_listVars PROVE ListInv'
  OBVIOUS
<1>1. CASE UNCHANGED listVars
  BY <1>1 DEF ListInv, CountsUp, Right, WrittenOver, listVars
<1>2. CASE ListNext
  <2> DEFINE ls == listText
  <2>1. PICK from \in DOMAIN listText, to \in DOMAIN listText : from <= to /\ Renumber(from, to)
    BY <1>2 DEF ListNext
  <2> DEFINE numbers == Renumbered(ls, from, to)
             new == Written(ls, numbers)
  <2>2. /\ range = NoRange /\ before' = ls /\ range' = <<from, to>>
        /\ listText' = PutOn(ls, new)
    BY <2>1 DEF Renumber
  <2>3. /\ ls \in Seq(ListLines) /\ MarkersFollow(ls)
        /\ Len(ls) \in Nat /\ DOMAIN ls = 1..Len(ls)
        /\ \A i \in 1..Len(ls) : ls[i] \in ListLines
    BY <2>2, LinesHave DEF ListInv
  <2>4. from \in Nat /\ to \in Nat /\ from <= to
    BY <2>1, <2>3
  <2>5. /\ numbers \in [1..Len(ls) -> Nat]
        /\ \A i \in 1..Len(ls) :
             numbers[i] = IF /\ ls[i].mark = "number" /\ ItemOf(ls, i) \in AllEvents(ls)
                             /\ Touched(ls, i, from, to)
                          THEN Due(ls, i) ELSE ls[LineStart(ls, i)].number
    BY <2>3, <2>4, RenumberedIs DEF NumbersAre
  <2>6. \A k \in 1..Len(ls) :
          numbers[k] = IF ls[k].mark = "number" /\ Touched(ls, k, from, to) THEN Due(ls, k)
                       ELSE ls[LineStart(ls, k)].number
    BY <2>3, <2>5 DEF AllEvents, Items
  <2> HIDE DEF numbers
  <2>7. DOMAIN listText' = 1..Len(ls)
    BY <2>2, <2>3 DEF PutOn
  <2>8. ASSUME NEW i \in 1..Len(ls) PROVE listText'[i].number = new[i]
    <3> HIDE DEF new
    <3>1. "number" \in DOMAIN ls[i] /\ "col" \in DOMAIN ls[i]
      BY <2>3 DEF ListLines
    <3> QED BY <2>2, <2>3, <3>1 DEF PutOn
  <2>9. range' # NoRange /\ range'[1] = from /\ range'[2] = to
    BY <2>1, <2>2, <2>3 DEF NoRange
  <2>10. ASSUME NEW i \in 1..Len(ls), ~ WrittenOver(i)' PROVE Right(i)'
    <3>1. ~ (/\ ls[i].first /\ ls[i].mark = "number"
             /\ \E k \in 1..Len(ls) : /\ k # i /\ LineStart(ls, k) = i
                                      /\ ls[k].mark = "number" /\ Touched(ls, k, from, to))
      BY <2>10, <2>2, <2>3, <2>9 DEF WrittenOver
    <3>2. new[i] = IF ls[i].mark = "number" /\ Touched(ls, i, from, to) THEN Due(ls, i) ELSE ls[i].number
      BY <2>3, <2>5, <2>6, <3>1, WrittenIs
    <3> HIDE DEF new
    <3> QED BY <2>2, <2>8, <2>9, <3>2 DEF Right
  <2>11. CountsUp'
    BY <2>7, <2>10 DEF CountsUp
  <2> QED BY <2>9, <2>11 DEF ListInv
<1> QED BY <1>1, <1>2

\* CountsUp for every document, however its lists are nested in one another, stand
\* between one another's items or begin behind one another's markers: a renumbering
\* leaves every item of a list that the range touches with the number that is due,
\* counting by one from the number the list declares, and every other as it was, but
\* for a number with an ordered list beginning behind it on its line (renumber(),
\* with_number()).
THEOREM ListsAlwaysCountUp == ListSpec => []CountsUp
<1>1. ListInv => CountsUp
  BY DEF ListInv
<1> QED BY <1>1, ListInvInit, ListInvNext, PTL DEF ListSpec
=============================================================================
