---------------------------- MODULE RenderProofs ----------------------------
(***************************************************************************)
(* Theorems about RenderProtocol, for any windows, buffers, texts, widths  *)
(* and renderers.                                                          *)
(*                                                                         *)
(* A handler of the editor is a function, so it is proved about as one:    *)
(* what is true of the editor before it (Sound) is true of what it         *)
(* returns, and no window opens or closes on the way (Follows). Sound has  *)
(* a parameter, the renders whose callbacks are about to run: inside       *)
(* ClearPending the supervisor's table is empty while the plugin's is not, *)
(* and the two agree again only when the last callback is through.         *)
(* RenderAll and ClearPending go through a sequence; the first step that   *)
(* broke Sound would be a least one, and the step before it shows that it  *)
(* did not.                                                                *)
(*                                                                         *)
(* An action is then a handler followed by Finish. The invariant, Inv,     *)
(* adds that nothing on the wire or in the daemon names an id that was     *)
(* never handed out (or the answer to it could reach the wrong callback    *)
(* later), and that the daemon's memory is within its bound.               *)
(*                                                                         *)
(* Before that come the patches the daemon answers with (RowPatch): a      *)
(* screen that takes every one of a stream of them shows the document      *)
(* (PatchStream).                                                          *)
(***************************************************************************)
EXTENDS RenderProtocol, PatchStream, SequenceLemmas

-----------------------------------------------------------------------------
(* The daemon's two trims.                                                 *)

\* The prefix `diff` keeps looks the same in both documents, and there is one
\* to keep whatever the documents are.
LEMMA CommonHeadSpec ==
  ASSUME NEW prev \in Seq(Row), NEW next \in Seq(Row)
  PROVE  /\ CommonHead(prev, next) \in 0..Shorter(Len(prev), Len(next))
         /\ \A i \in 1..CommonHead(prev, next) : SameLook(prev[i], next[i])
<1> DEFINE room == Shorter(Len(prev), Len(next))
           Stops(h) == h < room => ~ SameLook(prev[h + 1], next[h + 1])
           Good(h) == (\A i \in 1..h : SameLook(prev[i], next[i])) /\ Stops(h)
<1>1. room \in Nat
  BY DEF Shorter
<1>2. PICK h \in {n \in 0..room : Stops(n)} :
        \A n \in {m \in 0..room : Stops(m)} : h <= n
  <2>1. room \in {n \in 0..room : Stops(n)}
    BY <1>1
  <2>2. {n \in 0..room : Stops(n)} \in SUBSET Nat
    OBVIOUS
  <2> HIDE DEF Stops
  <2> QED BY <2>1, <2>2, NatLeast
<1>3. ASSUME NEW i \in 1..h PROVE SameLook(prev[i], next[i])
  <2>1. i - 1 \in 0..room /\ i - 1 < h /\ h \in 0..room
    BY <1>1, <1>2
  <2>2. ~ Stops(i - 1)
    BY <2>1, <1>2
  <2>3. (i - 1) + 1 = i
    OBVIOUS
  <2> QED BY <2>2, <2>3
<1>4. h \in 0..room /\ Good(h)
  BY <1>2, <1>3
<1>5. CommonHead(prev, next) = CHOOSE n \in 0..room : Good(n)
  BY DEF CommonHead
<1> HIDE DEF Good
<1>6. CommonHead(prev, next) \in 0..room /\ Good(CommonHead(prev, next))
  BY <1>4, <1>5
<1> QED BY <1>6 DEF Good

\* Likewise the suffix, which never overlaps the prefix.
LEMMA CommonTailSpec ==
  ASSUME NEW prev \in Seq(Row), NEW next \in Seq(Row),
         NEW head \in 0..Shorter(Len(prev), Len(next))
  PROVE  /\ CommonTail(prev, next, head) \in 0..(Shorter(Len(prev), Len(next)) - head)
         /\ \A i \in 0..(CommonTail(prev, next, head) - 1) :
              SameLook(prev[Len(prev) - i], next[Len(next) - i])
<1> DEFINE room == Shorter(Len(prev), Len(next)) - head
           Same(i) == SameLook(prev[Len(prev) - i], next[Len(next) - i])
           Stops(t) == t < room => ~ Same(t)
           Good(t) == (\A i \in 0..(t - 1) : Same(i)) /\ Stops(t)
<1>1. room \in Nat
  BY DEF Shorter
<1>2. PICK t \in {n \in 0..room : Stops(n)} :
        \A n \in {m \in 0..room : Stops(m)} : t <= n
  <2>1. room \in {n \in 0..room : Stops(n)}
    BY <1>1
  <2>2. {n \in 0..room : Stops(n)} \in SUBSET Nat
    OBVIOUS
  <2> HIDE DEF Stops
  <2> QED BY <2>1, <2>2, NatLeast
<1>3. ASSUME NEW i \in 0..(t - 1) PROVE Same(i)
  <2>1. i \in 0..room /\ i < t
    BY <1>1, <1>2
  <2>2. ~ Stops(i)
    BY <2>1, <1>2
  <2> QED BY <2>2
<1>4. t \in 0..room /\ Good(t)
  BY <1>2, <1>3
<1>5. CommonTail(prev, next, head) = CHOOSE n \in 0..room : Good(n)
  BY DEF CommonTail
<1> HIDE DEF Good
<1>6. CommonTail(prev, next, head) \in 0..room /\ Good(CommonTail(prev, next, head))
  BY <1>4, <1>5
<1> QED BY <1>6 DEF Good

-----------------------------------------------------------------------------
(* The splice.                                                             *)

\* Where every row of a spliced list comes from.
LEMMA SpliceSpec ==
  ASSUME NEW list \in Seq(Row), NEW rep \in Seq(Row),
         NEW from \in 1..(Len(list) + 1), NEW del \in 0..(Len(list) + 1 - from)
  PROVE  /\ Splice(list, from, del, rep) \in Seq(Row)
         /\ Len(Splice(list, from, del, rep)) = Len(list) - del + Len(rep)
         /\ \A i \in 1..Len(Splice(list, from, del, rep)) :
              Splice(list, from, del, rep)[i] =
                IF i < from THEN list[i]
                ELSE IF i < from + Len(rep) THEN rep[i - from + 1]
                ELSE list[i - Len(rep) + del]
<1> DEFINE a == SubSeq(list, 1, from - 1)
           b == SubSeq(list, from + del, Len(list))
<1>1. /\ a \in Seq(Row)
      /\ Len(a) = from - 1
      /\ \A i \in 1..(from - 1) : a[i] = list[i]
  BY ElementOfSeq, SubSeqProperties
<1>2. /\ b \in Seq(Row)
      /\ Len(b) = Len(list) - from - del + 1
      /\ \A i \in 1..(Len(list) - from - del + 1) : b[i] = list[from + del + i - 1]
  BY ElementOfSeq, SubSeqProperties
<1> HIDE DEF a, b
<1> DEFINE ab == a \o rep
           abc == ab \o b
<1>3. /\ ab \in Seq(Row)
      /\ Len(ab) = from - 1 + Len(rep)
      /\ \A i \in 1..(from - 1 + Len(rep)) :
           ab[i] = IF i <= from - 1 THEN a[i] ELSE rep[i - (from - 1)]
  <2>1. /\ ab \in Seq(Row)
        /\ Len(ab) = Len(a) + Len(rep)
        /\ \A i \in 1..(Len(a) + Len(rep)) :
             ab[i] = IF i <= Len(a) THEN a[i] ELSE rep[i - Len(a)]
    BY <1>1, ConcatProperties
  <2> HIDE DEF ab
  <2> QED BY <2>1, <1>1
<1> HIDE DEF ab
<1>4. /\ abc \in Seq(Row)
      /\ Len(abc) = from - 1 + Len(rep) + (Len(list) - from - del + 1)
      /\ \A i \in 1..(from - 1 + Len(rep) + (Len(list) - from - del + 1)) :
           abc[i] = IF i <= from - 1 + Len(rep) THEN ab[i]
                                  ELSE b[i - (from - 1 + Len(rep))]
  <2>1. /\ abc \in Seq(Row)
        /\ Len(abc) = Len(ab) + Len(b)
        /\ \A i \in 1..(Len(ab) + Len(b)) :
             abc[i] = IF i <= Len(ab) THEN ab[i] ELSE b[i - Len(ab)]
    BY <1>2, <1>3, ConcatProperties
  <2> HIDE DEF abc
  <2> QED BY <2>1, <1>2, <1>3
<1> HIDE DEF abc
<1>5. Splice(list, from, del, rep) = abc
  BY DEF Splice, a, b, ab, abc
<1>6. Len(abc) = Len(list) - del + Len(rep)
  BY <1>4
<1>7. ASSUME NEW i \in 1..(Len(list) - del + Len(rep))
      PROVE  abc[i] =
                IF i < from THEN list[i]
                ELSE IF i < from + Len(rep) THEN rep[i - from + 1]
                ELSE list[i - Len(rep) + del]
  <2>0. /\ Len(list) \in Nat /\ Len(rep) \in Nat
        /\ i \in 1..(from - 1 + Len(rep) + (Len(list) - from - del + 1))
    BY LenProperties
  <2>1. CASE i < from
    BY <2>0, <2>1, <1>1, <1>3, <1>4
  <2>2. CASE i >= from /\ i < from + Len(rep)
    <3>1. /\ i \in 1..(from - 1 + Len(rep)) /\ ~ (i <= from - 1)
          /\ i - (from - 1) = i - from + 1
      BY <2>0, <2>2
    <3>2. abc[i] = ab[i] /\ ab[i] = rep[i - (from - 1)]
      <4>1. ab[i] = rep[i - (from - 1)]
        BY <3>1, <1>3
      <4>2. abc[i] = ab[i]
        BY <2>0, <3>1, <1>4
      <4> QED BY <4>1, <4>2
    <3>3. abc[i] = rep[i - from + 1] /\ ~ (i < from)
      BY <2>0, <2>2, <3>1, <3>2
    <3> QED BY <2>2, <3>3
  <2>3. CASE i >= from + Len(rep)
    <3> DEFINE k == i - (from - 1 + Len(rep))
    <3>1. /\ k \in 1..(Len(list) - from - del + 1)
          /\ from + del + k - 1 = i - Len(rep) + del
          /\ ~ (i <= from - 1 + Len(rep))
          /\ ~ (i < from) /\ ~ (i < from + Len(rep))
      BY <2>0, <2>3
    <3>2. abc[i] = b[k]
      BY <2>0, <3>1, <1>4
    <3>3. b[k] = list[from + del + k - 1]
      BY <3>1, <1>2
    <3>4. abc[i] = list[i - Len(rep) + del]
      BY <3>1, <3>2, <3>3
    <3> QED BY <3>1, <3>4
  <2> QED BY <2>1, <2>2, <2>3
<1> QED BY <1>4, <1>5, <1>6, <1>7

\* Two sequences of one length that agree everywhere are one sequence.
LEMMA SeqExtensional ==
  ASSUME NEW S, NEW s \in Seq(S), NEW t \in Seq(S), Len(s) = Len(t),
         \A i \in 1..Len(s) : s[i] = t[i]
  PROVE  s = t
BY SeqEqual

\* Once the daemon's splice is made in the document it was computed from, the
\* rows are as many as were rendered and look the way they were rendered.
LEMMA DiffSplice ==
  ASSUME NEW prev \in Seq(Row), NEW next \in Seq(Row)
  PROVE  LET d  == Diff(prev, next)
             sp == Splice(prev, d.from, d.del, d.rows)
         IN  /\ d.from \in 1..(Len(prev) + 1)
             /\ d.del \in 0..(Len(prev) + 1 - d.from)
             /\ d.rows \in Seq(Row)
             /\ d.fix = SrcCorrection(SrcMap(sp), SrcMap(next))
             /\ sp \in Seq(Row)
             /\ Len(sp) = Len(next)
             /\ \A i \in 1..Len(next) : SameLook(sp[i], next[i])
             /\ prev = << >> => d.rows = next
<1> DEFINE h == CommonHead(prev, next)
           t == CommonTail(prev, next, h)
           from == h + 1
           del == Len(prev) - h - t
           rows == SubSeq(next, h + 1, Len(next) - t)
           sp == Splice(prev, from, del, rows)
           p == Len(prev)
           n == Len(next)
<1>1. p \in Nat /\ n \in Nat
  BY LenProperties
<1>2. /\ h \in 0..Shorter(p, n)
      /\ \A i \in 1..h : SameLook(prev[i], next[i])
  BY CommonHeadSpec
<1>3. /\ t \in 0..(Shorter(p, n) - h)
      /\ \A i \in 0..(t - 1) : SameLook(prev[p - i], next[n - i])
  BY <1>2, CommonTailSpec
<1>4. /\ h \in Nat /\ t \in Nat /\ h + t <= p /\ h + t <= n
  BY <1>1, <1>2, <1>3 DEF Shorter
<1>5. /\ rows \in Seq(Row)
      /\ Len(rows) = n - t - h
      /\ \A i \in 1..(n - t - h) : rows[i] = next[h + i]
  BY <1>1, <1>4, ElementOfSeq, SubSeqProperties
<1>6. from \in 1..(p + 1) /\ del \in 0..(p + 1 - from)
  BY <1>1, <1>4
<1> HIDE DEF h, t
<1>7. /\ sp \in Seq(Row)
      /\ Len(sp) = p - del + Len(rows)
      /\ \A i \in 1..Len(sp) :
           sp[i] = IF i < from THEN prev[i]
                   ELSE IF i < from + Len(rows) THEN rows[i - from + 1]
                   ELSE prev[i - Len(rows) + del]
  BY <1>5, <1>6, SpliceSpec
<1> HIDE DEF rows, sp
<1>8. Len(sp) = n
  BY <1>1, <1>4, <1>5, <1>7
<1>9. ASSUME NEW i \in 1..n PROVE SameLook(sp[i], next[i])
  <2>1. CASE i <= h
    <3>1. sp[i] = prev[i] /\ i \in 1..h
      BY <2>1, <1>1, <1>4, <1>7, <1>8, SMTT(30)
    <3> QED BY <3>1, <1>2
  <2>2. CASE h < i /\ i <= n - t
    <3>1. /\ i - from + 1 = i - h /\ i - h \in 1..(n - t - h)
          /\ ~ (i < from) /\ i < from + Len(rows) /\ h + (i - h) = i
      BY <2>2, <1>1, <1>4, <1>5
    <3>2. sp[i] = rows[i - h]
      BY <3>1, <1>7, <1>8
    <3>3. rows[i - h] = next[i]
      BY <3>1, <1>5
    <3> QED BY <3>2, <3>3 DEF SameLook
  <2>3. CASE n - t < i
    <3>1. /\ ~ (i < from) /\ ~ (i < from + Len(rows))
          /\ i - Len(rows) + del = p - (n - i)
          /\ n - i \in 0..(t - 1) /\ n - (n - i) = i
      BY <2>3, <1>1, <1>4, <1>5
    <3>2. sp[i] = prev[p - (n - i)]
      BY <3>1, <1>7, <1>8
    <3>3. SameLook(prev[p - (n - i)], next[n - (n - i)])
      BY <3>1, <1>3
    <3> QED BY <3>1, <3>2, <3>3
  <2> QED BY <2>1, <2>2, <2>3, <1>1, <1>4
<1>10. ASSUME prev = << >> PROVE rows = next
  BY <1>10, <1>4, <1>1, <1>5, SeqExtensional
<1>11. Diff(prev, next) = [from |-> from, del |-> del, rows |-> rows,
                           fix |-> SrcCorrection(SrcMap(sp), SrcMap(next))]
  BY DEF Diff, h, t, rows, sp
<1> QED BY <1>5, <1>6, <1>7, <1>8, <1>9, <1>10, <1>11 DEF sp

-----------------------------------------------------------------------------
(* The repair of the source map.                                           *)

\* The source map of a document is a map into line numbers.
LEMMA SrcMapType ==
  ASSUME NEW rows \in Seq(Row)
  PROVE  /\ Len(rows) \in Nat
         /\ SrcMap(rows) \in [1..Len(rows) -> Nat]
         /\ \A i \in 1..Len(rows) : rows[i] \in Row /\ SrcMap(rows)[i] = rows[i].src
<1>1. \A i \in 1..Len(rows) : rows[i] \in Row
  BY ElementOfSeq
<1>2. \A r \in Row : r.src \in Nat
  BY DEF Row
<1>3. Len(rows) \in Nat
  BY LenProperties
<1> QED BY <1>1, <1>2, <1>3 DEF SrcMap

\* Two maps that differ have a first entry they differ in.
LEMMA FirstDisagreementSpec ==
  ASSUME NEW len \in Nat,
         NEW have \in [1..len -> Nat], NEW want \in [1..len -> Nat], have # want
  PROVE  /\ FirstDisagreement(have, want) \in 1..len
         /\ have[FirstDisagreement(have, want)] # want[FirstDisagreement(have, want)]
         /\ \A j \in 1..(FirstDisagreement(have, want) - 1) : have[j] = want[j]
<1> DEFINE Differ == {i \in 1..len : have[i] # want[i]}
           Good(i) == have[i] # want[i] /\ \A j \in 1..(i - 1) : have[j] = want[j]
           first == FirstDisagreement(have, want)
<1>1. Differ \in SUBSET Nat /\ Differ # {}
  OBVIOUS
<1>2. PICK m \in Differ : \A i \in Differ : m <= i
  BY <1>1, NatLeast
<1>3. m \in 1..len /\ Good(m)
  BY <1>2
<1>4. Len(have) = len
  OBVIOUS
<1>5. first = CHOOSE i \in 1..len : Good(i)
  BY <1>4 DEF FirstDisagreement
<1> HIDE DEF Good, first
<1>6. first \in 1..len /\ Good(first)
  BY <1>3, <1>5
<1> QED BY <1>6 DEF Good, first

\* The repair the daemon computes fits the map it was computed against, and
\* turns it into the map of the new document.
LEMMA CorrectionSpec ==
  ASSUME NEW len \in Nat,
         NEW have \in [1..len -> Nat], NEW want \in [1..len -> Nat]
  PROVE  LET fix == SrcCorrection(have, want)
         IN  /\ \/ fix.kind = "none"
                \/ fix.kind = "shift" /\ fix.from \in 1..len
                \/ /\ fix.kind = "tail"
                   /\ fix.from \in 1..len
                   /\ fix.from - 1 + Len(fix.tail) = len
             /\ fix.kind = "tail" => Len(fix.tail) \in Nat
             /\ FixedMap(have, fix) = want
<1>0. Len(have) = len /\ Len(want) = len /\ have \in Seq(Nat) /\ want \in Seq(Nat)
  OBVIOUS
<1>1. CASE have = want
  BY <1>1 DEF SrcCorrection, NoFix, FixedMap
<1>2. CASE have # want
  <2> DEFINE start == FirstDisagreement(have, want)
             delta == want[start] - have[start]
  <2>1. /\ start \in 1..len
        /\ have[start] # want[start]
        /\ \A j \in 1..(start - 1) : have[j] = want[j]
    BY <1>2, FirstDisagreementSpec
  <2> HIDE DEF start
  <2>2. CASE MovesAsOne(have, want, start)
    <3>1. SrcCorrection(have, want) = [kind |-> "shift", from |-> start, delta |-> delta]
      BY <1>2, <2>2 DEF SrcCorrection, ShiftFix, start
    <3>2. FixedMap(have, SrcCorrection(have, want)) =
            [i \in 1..len |-> IF i >= start /\ have[i] > 0 THEN have[i] + delta ELSE have[i]]
      BY <3>1, <1>0 DEF FixedMap
    <3>3. ASSUME NEW i \in 1..len
          PROVE  want[i] = IF i >= start /\ have[i] > 0 THEN have[i] + delta ELSE have[i]
      <4>1. have[i] \in Nat /\ want[i] \in Nat /\ have[start] \in Nat /\ want[start] \in Nat
        BY <2>1
      <4>2. CASE i < start
        BY <2>1, <4>2
      <4>3. CASE i >= start
        BY <2>1, <2>2, <4>3, <1>0, <4>1 DEF MovesAsOne
      <4> QED BY <2>1, <4>2, <4>3
    <3>4. FixedMap(have, SrcCorrection(have, want)) = want
      BY <3>2, <3>3
    <3> QED BY <2>1, <3>1, <3>4
  <2>3. CASE ~ MovesAsOne(have, want, start)
    <3> DEFINE tail == SubSeq(want, start, Len(want))
    <3>1. SrcCorrection(have, want) = [kind |-> "tail", from |-> start, tail |-> tail]
      BY <1>2, <2>3 DEF SrcCorrection, TailFix, start
    <3>2. /\ Len(tail) = len - start + 1
          /\ \A i \in 1..(len - start + 1) : tail[i] = want[start + i - 1]
      <4>1. \A i \in start..len : want[i] \in Nat
        BY <2>1
      <4> QED BY <4>1, <2>1, <1>0, SubSeqProperties
    <3> HIDE DEF tail
    <3>3. FixedMap(have, SrcCorrection(have, want)) =
            [i \in 1..len |-> IF i >= start THEN tail[i - start + 1] ELSE have[i]]
      BY <3>1, <1>0 DEF FixedMap
    <3>4. ASSUME NEW i \in 1..len
          PROVE  want[i] = IF i >= start THEN tail[i - start + 1] ELSE have[i]
      BY <2>1, <3>2
    <3>5. FixedMap(have, SrcCorrection(have, want)) = want
      BY <3>3, <3>4
    <3>6. start - 1 + Len(tail) = len /\ Len(tail) \in Nat
      BY <2>1, <3>2
    <3> QED BY <2>1, <3>1, <3>5, <3>6
  <2> QED BY <2>2, <2>3
<1> QED BY <1>1, <1>2

-----------------------------------------------------------------------------
(* Whether a patch is worth sending.                                       *)

\* The recursion that adds up the size of a document has a solution, and a
\* document with rows in it costs something to send.
LEMMA WireSizeSpec ==
  ASSUME NEW rows \in Seq(Row)
  PROVE  /\ WireSize(rows) \in Nat
         /\ rows # << >> => WireSize(rows) > 0
<1> DEFINE len == Len(rows)
           cost(i) == Cost[rows[i].look]
           Step(f, n) == IF n = 0 THEN 0 ELSE f[n - 1] + cost(n)
           Rec(f, n) == f = [i \in 0..n |-> Step(f, i)]
           sum == CHOOSE f : Rec(f, len)
<1>1. len \in Nat
  BY LenProperties
<1>2. ASSUME NEW i \in 1..len PROVE cost(i) \in Nat \ {0}
  <2>1. rows[i] \in Row
    BY <1>1, ElementOfSeq
  <2> QED BY <2>1, CostAssumption DEF Row
<1> HIDE DEF cost
<1>3. \E f : Rec(f, len)
  <2> DEFINE Bad == {n \in 0..len : ~ \E f : Rec(f, n)}
  <2>1. SUFFICES ASSUME Bad # {} PROVE FALSE
    BY <1>1
  <2>2. PICK m \in Bad : \A n \in Bad : m <= n
    <3>1. Bad \in SUBSET Nat
      BY <1>1
    <3> HIDE DEF Bad
    <3> QED BY <2>1, <3>1, NatLeast
  <2>3. m \in 0..len /\ ~ \E f : Rec(f, m)
    BY <2>2
  <2>4. CASE m = 0
    <3>1. Rec([i \in 0..0 |-> 0], 0)
      OBVIOUS
    <3> QED BY <2>3, <2>4, <3>1
  <2>5. CASE m > 0
    <3>1. m - 1 \in 0..len /\ m - 1 < m
      BY <1>1, <2>3, <2>5
    <3>2. m - 1 \notin Bad
      <4>1. m \in Int
        BY <2>3
      <4> HIDE DEF Bad
      <4> QED BY <4>1, <2>2, <3>1
    <3>3. PICK g : Rec(g, m - 1)
      BY <3>1, <3>2
    <3> DEFINE f == [i \in 0..m |-> IF i = m THEN g[m - 1] + cost(m) ELSE g[i]]
    <3>4. ASSUME NEW i \in 0..m PROVE f[i] = Step(f, i)
      BY <2>3, <2>5, <3>3
    <3>5. Rec(f, m)
      BY <3>4
    <3> QED BY <2>3, <3>5
  <2> QED BY <2>3, <2>4, <2>5
<1>4. Rec(sum, len)
  BY <1>3
<1> HIDE DEF sum
<1>5. ASSUME NEW i \in 0..len PROVE sum[i] = Step(sum, i)
  BY <1>4
<1> DEFINE Right(n) == sum[n] \in Nat /\ (n > 0 => sum[n] > 0)
<1>6. \A n \in 0..len : Right(n)
  <2> DEFINE Bad == {n \in 0..len : ~ Right(n)}
  <2>1. SUFFICES ASSUME Bad # {} PROVE FALSE
    OBVIOUS
  <2>2. PICK m \in Bad : \A n \in Bad : m <= n
    <3>1. Bad \in SUBSET Nat
      BY <1>1
    <3> HIDE DEF Bad
    <3> QED BY <2>1, <3>1, NatLeast
  <2>3. m \in 0..len /\ ~ Right(m)
    BY <2>2
  <2>4. CASE m = 0
    BY <2>3, <2>4, <1>5
  <2>5. CASE m > 0
    BY <1>1, <2>3, <2>5, <2>2, <1>5, <1>2
  <2> QED BY <2>3, <2>4, <2>5
<1>7. WireSize(rows) = sum[len]
  BY DEF WireSize, sum, cost
<1>8. rows # << >> => len > 0
  BY <1>1, EmptySeq
<1> QED BY <1>1, <1>6, <1>7, <1>8

-----------------------------------------------------------------------------
(* The round trip.                                                         *)

\* A patch the daemon thinks worth sending fits the document it was computed
\* from, and turns it into the document that was rendered.
LEMMA RoundTrip ==
  ASSUME NEW prev \in Seq(Row), NEW next \in Seq(Row),
         WorthSending(Diff(prev, next), next)
  PROVE  /\ PatchFits(prev, Diff(prev, next))
         /\ Patched(prev, Diff(prev, next)) = next
<1> DEFINE d == Diff(prev, next)
           sp == Splice(prev, d.from, d.del, d.rows)
           have == SrcMap(sp)
           want == SrcMap(next)
           n == Len(next)
<1>1. /\ d.from \in 1..(Len(prev) + 1)
      /\ d.del \in 0..(Len(prev) + 1 - d.from)
      /\ d.rows \in Seq(Row)
      /\ d.fix = SrcCorrection(have, want)
      /\ sp \in Seq(Row)
      /\ Len(sp) = n
      /\ \A i \in 1..n : SameLook(sp[i], next[i])
      /\ prev = << >> => d.rows = next
  BY DiffSplice
<1>2. /\ Len(prev) \in Nat /\ n \in Nat /\ Len(d.rows) \in Nat
      /\ Len(sp) = Len(prev) - d.del + Len(d.rows)
      /\ \A i \in 1..Len(sp) :
           sp[i] = IF i < d.from THEN prev[i]
                   ELSE IF i < d.from + Len(d.rows) THEN d.rows[i - d.from + 1]
                   ELSE prev[i - Len(d.rows) + d.del]
  BY <1>1, LenProperties, SpliceSpec
<1> HIDE DEF d, sp
<1>5. /\ have \in [1..n -> Nat] /\ want \in [1..n -> Nat]
      /\ \A i \in 1..n : sp[i] \in Row /\ next[i] \in Row /\ want[i] = next[i].src
  BY <1>1, SrcMapType
<1> HIDE DEF have, want
<1>6. /\ \/ d.fix.kind = "none"
         \/ d.fix.kind = "shift" /\ d.fix.from \in 1..n
         \/ /\ d.fix.kind = "tail"
            /\ d.fix.from \in 1..n
            /\ d.fix.from - 1 + Len(d.fix.tail) = n
      /\ d.fix.kind = "tail" => Len(d.fix.tail) \in Nat
      /\ FixedMap(have, d.fix) = want
  <2>1. d.fix = SrcCorrection(have, want) /\ n \in Nat
    BY <1>1, <1>2
  <2> HIDE DEF n
  <2>2. LET fix == SrcCorrection(have, want)
        IN  /\ \/ fix.kind = "none"
               \/ fix.kind = "shift" /\ fix.from \in 1..n
               \/ /\ fix.kind = "tail"
                  /\ fix.from \in 1..n
                  /\ fix.from - 1 + Len(fix.tail) = n
            /\ fix.kind = "tail" => Len(fix.tail) \in Nat
            /\ FixedMap(have, fix) = want
    BY <1>5, <2>1, CorrectionSpec
  <2> QED BY <2>1, <2>2
<1>3. SpliceFits(prev, d)
  <2>1. d.from - 1 + d.del <= Len(prev)
    BY <1>1, <1>2
  <2>2. ASSUME prev = << >>, ~ ChangesNoRow(d) PROVE FALSE
    BY <1>1, <2>2, WireSizeSpec, <1>6 DEF ChangesNoRow, PatchSize, WorthSending, d
  <2> QED BY <2>1, <2>2 DEF SpliceFits
<1>4. Spliced(prev, d) = sp
  <2>1. CASE ChangesNoRow(d)
    <3>1. Len(d.rows) = 0 /\ d.del = 0
      BY <2>1 DEF ChangesNoRow
    <3>2. Len(sp) = Len(prev)
      BY <1>2, <3>1
    <3>3. ASSUME NEW i \in 1..Len(sp) PROVE sp[i] = prev[i]
      <4>1. i - Len(d.rows) + d.del = i /\ ~ (i >= d.from /\ i < d.from + Len(d.rows))
        BY <3>1, <1>1, <1>2
      <4> QED BY <4>1, <1>1, <1>2, SMTT(30)
    <3>4. sp = prev
      BY <1>1, <3>2, <3>3, SeqExtensional
    <3> QED BY <2>1, <3>4 DEF Spliced
  <2>2. CASE ~ ChangesNoRow(d)
    BY <2>2 DEF Spliced, sp
  <2> QED BY <2>1, <2>2
<1>7. FixFits(sp, d.fix)
  BY <1>1, <1>6 DEF FixFits
<1>8. Patched(prev, d) = WithSrc(sp, want)
  BY <1>3, <1>4, <1>6, <1>7 DEF Patched, have
<1>9. WithSrc(sp, want) = next
  <2>1. ASSUME NEW i \in 1..n PROVE [sp[i] EXCEPT !.src = want[i]] = next[i]
    BY <1>1, <1>5 DEF SameLook, Row
  <2>2. WithSrc(sp, want) = [i \in 1..n |-> next[i]]
    BY <1>1, <2>1 DEF WithSrc
  <2> QED BY <2>2
<1> QED BY <1>3, <1>4, <1>7, <1>8, <1>9 DEF PatchFits, d

-----------------------------------------------------------------------------
(* What is on the wire, and what it does to rows it was not meant for.     *)

\* A row on the screen may have been moved to any line by a repair that was
\* meant for other rows.
ScreenRow == [look : Looks, src : Int]

Fixes ==
  {NoFix}
    \cup [kind : {"shift"}, from : Nat \ {0}, delta : Int]
    \cup [kind : {"tail"}, from : Nat \ {0}, tail : Seq(Nat)]

Patches == [from : Nat \ {0}, del : Nat, rows : Seq(Row), fix : Fixes]

\* The repair is one of the three the wire knows.
LEMMA CorrectionType ==
  ASSUME NEW len \in Nat,
         NEW have \in [1..len -> Nat], NEW want \in [1..len -> Nat]
  PROVE  SrcCorrection(have, want) \in Fixes
<1> DEFINE start == FirstDisagreement(have, want)
<1>1. CASE have = want
  BY <1>1 DEF SrcCorrection, Fixes
<1>2. CASE have # want
  <2>1. start \in 1..len
    BY <1>2, FirstDisagreementSpec
  <2> HIDE DEF start
  <2>2. want[start] - have[start] \in Int
    BY <2>1
  <2>3. SubSeq(want, start, Len(want)) \in Seq(Nat)
    BY <2>1, SubSeqProperties
  <2> QED BY <1>2, <2>1, <2>2, <2>3 DEF SrcCorrection, ShiftFix, TailFix, Fixes, start
<1> QED BY <1>1, <1>2

\* The daemon only ever sends patches.
LEMMA DiffType ==
  ASSUME NEW prev \in Seq(Row), NEW next \in Seq(Row)
  PROVE  Diff(prev, next) \in Patches
<1> DEFINE d == Diff(prev, next)
           sp == Splice(prev, d.from, d.del, d.rows)
<1>1. /\ d.from \in 1..(Len(prev) + 1)
      /\ d.del \in 0..(Len(prev) + 1 - d.from)
      /\ d.rows \in Seq(Row)
      /\ d.fix = SrcCorrection(SrcMap(sp), SrcMap(next))
      /\ sp \in Seq(Row)
      /\ Len(sp) = Len(next)
  BY DiffSplice
<1>2. d = [from |-> d.from, del |-> d.del, rows |-> d.rows, fix |-> d.fix]
  BY DEF Diff
<1> HIDE DEF d, sp
<1>3. d.fix \in Fixes
  <2>1. SrcMap(sp) \in [1..Len(next) -> Nat] /\ SrcMap(next) \in [1..Len(next) -> Nat]
        /\ Len(next) \in Nat
    BY <1>1, SrcMapType
  <2> QED BY <1>1, <2>1, CorrectionType
<1>4. d.from \in Nat \ {0} /\ d.del \in Nat
  BY <1>1, LenProperties
<1> QED BY <1>1, <1>2, <1>3, <1>4 DEF Patches, d

\* A splice that fits leaves rows.
LEMMA SpliceType ==
  ASSUME NEW list \in Seq(ScreenRow), NEW rep \in Seq(ScreenRow),
         NEW from \in Nat \ {0}, NEW del \in Nat, from - 1 + del <= Len(list)
  PROVE  Splice(list, from, del, rep) \in Seq(ScreenRow)
<1>1. Len(list) \in Nat /\ \A i \in 1..Len(list) : list[i] \in ScreenRow
  BY LenProperties, ElementOfSeq
<1>2. SubSeq(list, 1, from - 1) \in Seq(ScreenRow)
  BY <1>1, SubSeqProperties
<1>3. SubSeq(list, from + del, Len(list)) \in Seq(ScreenRow)
  BY <1>1, SubSeqProperties
<1> QED BY <1>2, <1>3, ConcatProperties DEF Splice

\* Whatever patch meets whatever rows, the editor is left with rows.
LEMMA PatchedType ==
  ASSUME NEW held \in Seq(ScreenRow), NEW patch \in Patches
  PROVE  Patched(held, patch) \in Seq(ScreenRow)
<1> DEFINE rows == Spliced(held, patch)
           map == FixedMap(SrcMap(rows), patch.fix)
<1>1. /\ patch.from \in Nat \ {0} /\ patch.del \in Nat
      /\ patch.rows \in Seq(ScreenRow) /\ patch.fix \in Fixes
  <2>1. Row \subseteq ScreenRow
    BY DEF Row, ScreenRow
  <2> QED BY <2>1, SeqMonotonic DEF Patches
<1>2. CASE ~ SpliceFits(held, patch)
  BY <1>2 DEF Patched
<1>3. CASE SpliceFits(held, patch)
  <2>1. rows \in Seq(ScreenRow)
    BY <1>1, <1>3, SpliceType DEF SpliceFits, Spliced
  <2> HIDE DEF rows
  <2>2. Len(rows) \in Nat /\ \A i \in 1..Len(rows) : rows[i] \in ScreenRow
    BY <2>1, LenProperties, ElementOfSeq
  <2>3. CASE ~ FixFits(rows, patch.fix)
    BY <1>3, <2>1, <2>3 DEF Patched, rows
  <2>4. CASE FixFits(rows, patch.fix)
    <3>1. ASSUME NEW i \in 1..Len(rows) PROVE map[i] \in Int
      <4>1. SrcMap(rows) = [j \in 1..Len(rows) |-> rows[j].src] /\ Len(SrcMap(rows)) = Len(rows)
        BY <2>2 DEF SrcMap
      <4>2. SrcMap(rows)[i] \in Int
        BY <2>2, <4>1 DEF ScreenRow
      <4>3. CASE patch.fix.kind = "none"
        BY <4>2, <4>3 DEF FixedMap
      <4>4. CASE patch.fix.kind = "shift"
        BY <1>1, <4>4, <4>1, <4>2 DEF Fixes, NoFix, FixedMap
      <4>5. CASE patch.fix.kind = "tail"
        <5>1. /\ patch.fix.tail \in Seq(Nat) /\ patch.fix.from \in 1..Len(rows)
              /\ patch.fix.from - 1 + Len(patch.fix.tail) = Len(rows)
          BY <1>1, <2>4, <4>5 DEF Fixes, NoFix, FixFits
        <5>2. ASSUME i >= patch.fix.from PROVE patch.fix.tail[i - patch.fix.from + 1] \in Int
          <6>1. Len(patch.fix.tail) \in Nat
            BY <5>1, LenProperties
          <6>2. i - patch.fix.from + 1 \in 1..Len(patch.fix.tail)
            <7> DEFINE from == patch.fix.from
                       l == Len(patch.fix.tail)
                       n == Len(rows)
            <7>1. /\ from \in 1..n /\ from - 1 + l = n /\ l \in Nat /\ n \in Nat
                  /\ i \in 1..n /\ i >= from
              BY <2>2, <5>1, <5>2, <6>1
            <7> HIDE DEF from, l, n
            <7>2. i - from + 1 \in 1..l
              BY <7>1
            <7> QED BY <7>2 DEF from, l
          <6> DEFINE tail == patch.fix.tail
                     n == i - patch.fix.from + 1
          <6>3. tail \in Seq(Nat) /\ n \in 1..Len(tail)
            BY <5>1, <6>2
          <6> HIDE DEF tail, n
          <6>4. tail[n] \in Nat
            BY <6>3, ElementOfSeq
          <6> QED BY <6>4 DEF tail, n
        <5> QED BY <4>1, <4>2, <4>5, <5>2 DEF FixedMap
      <4> QED BY <1>1, <4>3, <4>4, <4>5 DEF Fixes, NoFix
    <3> HIDE DEF map
    <3>2. ASSUME NEW i \in 1..Len(rows) PROVE [rows[i] EXCEPT !.src = map[i]] \in ScreenRow
      BY <2>2, <3>1 DEF ScreenRow
    <3>3. WithSrc(rows, map) \in Seq(ScreenRow)
      BY <2>2, <3>2, IsASeq DEF WithSrc
    <3> QED BY <1>3, <2>4, <3>3 DEF Patched, rows, map
  <2> QED BY <2>3, <2>4
<1> QED BY <1>2, <1>3

-----------------------------------------------------------------------------
(* The incremental reply in lock step (PatchStream).                       *)

\* A step of the conversation keeps both sides in step with one another.
LEMMA LockStep == PatchTypeOK /\ InSync /\ [PatchNext]_patchVars => PatchTypeOK' /\ InSync'
<1> SUFFICES ASSUME PatchTypeOK, InSync, [PatchNext]_patchVars PROVE PatchTypeOK' /\ InSync'
  OBVIOUS
<1>1. ASSUME NEW next \in Documents, SendPatch(next) PROVE PatchTypeOK' /\ InSync'
  BY DocumentsAssumption, <1>1, RoundTrip DEF PatchTypeOK, InSync, SendPatch
<1>2. ASSUME NEW next \in Documents, SendWhole(next) PROVE PatchTypeOK' /\ InSync'
  BY <1>2, DocumentsAssumption DEF SendWhole, PatchTypeOK, InSync
<1>3. CASE UNCHANGED patchVars
  BY <1>3 DEF patchVars, PatchTypeOK, InSync
<1> QED BY <1>1, <1>2, <1>3 DEF PatchNext

LEMMA LockStepInit == PatchInit => PatchTypeOK /\ InSync
BY DocumentsAssumption DEF PatchInit, PatchTypeOK, InSync

\* Both sides hold sequences of rows for ever.
THEOREM StreamTypeOK == PatchSpec => []PatchTypeOK
BY LockStepInit, LockStep, PTL DEF PatchSpec

\* In lock step the incremental reply never leaves the preview different from
\* the document, whatever sequence of documents is rendered: `diff` and
\* `ApplyPatch`, `src_correction` and `PatchSourceMap` agree on every document.
THEOREM StreamInSync == PatchSpec => []InSync
BY LockStepInit, LockStep, PTL DEF PatchSpec

-----------------------------------------------------------------------------
(* Sequences and tables.                                                   *)

\* A set lists as a sequence of its elements, if it is finite.
LEMMA SetToSeqType ==
  ASSUME NEW S, IsFiniteSet(S)
  PROVE  SetToSeq(S) \in Seq(S)
<1> DEFINE n == Cardinality(S)
<1>1. n \in Nat /\ ExistsBijection(1..n, S)
  BY FS_CardinalityType
<1>2. \E f \in [1..n -> S] : IsInjective(f)
  BY <1>1 DEF ExistsBijection, Bijection, Injection, IsInjective
<1>3. SetToSeq(S) \in [1..n -> S]
  BY <1>2 DEF SetToSeq
<1> QED BY <1>1, <1>3, SeqDef

\* Every order a set may be gone through in is a sequence that has all of it.
LEMMA SetToSeqsType ==
  ASSUME NEW S, IsFiniteSet(S), NEW order \in SetToSeqs(S)
  PROVE  /\ order \in Seq(S)
         /\ \A x \in S : \E i \in 1..Len(order) : order[i] = x
         /\ \A i, j \in 1..Len(order) : order[i] = order[j] => i = j
<1> DEFINE n == Cardinality(S)
<1>1. n \in Nat /\ order \in [1..n -> S]
      /\ \A i, j \in 1..n : i # j => order[i] # order[j]
  BY FS_CardinalityType DEF SetToSeqs
<1>2. order \in Seq(S) /\ Len(order) = n
  BY <1>1, SeqDef
<1>3. order \in Injection(1..n, S)
  BY <1>1 DEF Injection, IsInjective
<1>4. Cardinality(1..n) = n
  BY <1>1, FS_Interval
<1>5. order \in Surjection(1..n, S)
  BY <1>3, <1>4, FS_Injection
<1>6. \A x \in S : \E i \in 1..n : order[i] = x
  BY <1>5 DEF Surjection
<1> QED BY <1>1, <1>2, <1>6

\* Tables from some of `ids` to `values`.
Table(ids, values) == UNION {[some -> values] : some \in SUBSET ids}

LEMMA EmptyTable ==
  ASSUME NEW ids, NEW values
  PROVE  << >> \in Table(ids, values) /\ DOMAIN << >> = {}
<1>1. << >> \in [{} -> values] /\ DOMAIN << >> = {}
  OBVIOUS
<1> QED BY <1>1 DEF Table

LEMMA TableParts ==
  ASSUME NEW ids, NEW values, NEW t \in Table(ids, values)
  PROVE  /\ t = [x \in DOMAIN t |-> t[x]]
         /\ DOMAIN t \subseteq ids
         /\ \A x \in DOMAIN t : t[x] \in values
BY DEF Table

LEMMA TableWhole ==
  ASSUME NEW ids, NEW values, NEW some \in SUBSET ids, NEW t \in [some -> values]
  PROVE  t \in Table(ids, values)
BY DEF Table

LEMMA TableGrows ==
  ASSUME NEW ids, NEW more, ids \subseteq more, NEW values, NEW t \in Table(ids, values)
  PROVE  t \in Table(more, values)
BY DEF Table

LEMMA WithoutType ==
  ASSUME NEW ids, NEW values, NEW t \in Table(ids, values), NEW xs
  PROVE  /\ Without(t, xs) \in Table(ids, values)
         /\ DOMAIN Without(t, xs) = DOMAIN t \ xs
         /\ \A x \in DOMAIN t \ xs : Without(t, xs)[x] = t[x]
<1>1. /\ DOMAIN t \subseteq ids
      /\ \A x \in DOMAIN t : t[x] \in values
  BY TableParts
<1>2. Without(t, xs) \in [DOMAIN t \ xs -> values] /\ DOMAIN t \ xs \in SUBSET ids
  BY <1>1 DEF Without
<1>3. Without(t, xs) \in Table(ids, values)
  BY <1>2, TableWhole
<1> QED BY <1>3 DEF Without

LEMMA WithType ==
  ASSUME NEW ids, NEW values, NEW t \in Table(ids, values), NEW x \in ids, NEW v \in values
  PROVE  /\ With(t, x, v) \in Table(ids, values)
         /\ DOMAIN With(t, x, v) = DOMAIN t \cup {x}
         /\ With(t, x, v)[x] = v
         /\ \A y \in DOMAIN t : y # x => With(t, x, v)[y] = t[y]
<1>1. /\ DOMAIN t \subseteq ids
      /\ \A y \in DOMAIN t : t[y] \in values
  BY TableParts
<1>2. With(t, x, v) \in [DOMAIN t \cup {x} -> values] /\ DOMAIN t \cup {x} \in SUBSET ids
  BY <1>1 DEF With
<1>3. With(t, x, v) \in Table(ids, values)
  BY <1>2, TableWhole
<1> QED BY <1>3 DEF With

-----------------------------------------------------------------------------
(* What the variables hold.  `ids` are the request ids handed out so far.  *)

Texts == [doc : Docs, tick : Nat]

Maps == {NoMap} \cup [buf : Bufs, tick : Nat, gen : Nat]

Answers == [id : Nat, rows : Seq(Row), index : Nat]

Sessions(ids) ==
  [open : {TRUE}, src : Bufs, timer : BOOLEAN, width : Widths \cup {0},
   held : Seq(ScreenRow), index : Nat, rendered : BOOLEAN, gen : Nat, map : Maps,
   shown : Answers, givenUp : SUBSET ids, astray : BOOLEAN]

Windows(ids) == {NoSession, Closed} \cup Sessions(ids)

Calls == [key : Keys, gen : Nat, buf : Bufs, tick : Nat]

Renderings(ids) ==
  [type : {"render"}, id : ids, key : Keys, doc : Docs, width : Widths,
   incremental : BOOLEAN]

Requests(ids) ==
  {Ping} \cup {Cancel(id) : id \in ids} \cup {Forget(k) : k \in Keys} \cup Renderings(ids)

Results(ids) ==
  [type : {"render_result"}, id : ids, width : Nat, whole : BOOLEAN, patch : Patches,
   rows : Seq(Row), carries : BOOLEAN, index : Nat, base : Nat]

Replies(ids) == {Failure(id) : id \in ids} \cup Results(ids)

Lines(ids) == {[type |-> "pong"]} \cup Replies(ids)

Editors(ids) ==
  [buf : [Bufs -> Texts], win : [Keys -> Widths], sess : [Keys -> Windows(ids)],
   requests : Table(ids, Keys), calls : Table(ids, Calls), nextId : Nat,
   job : {"none", "run", "dead"}, greeting : BOOLEAN,
   inbox : Seq(Lines(ids)), mail : Seq(Requests(ids))]

\* More ids are only ever handed out.
LEMMA EditorsGrow ==
  ASSUME NEW ids, NEW more, ids \subseteq more, NEW ed \in Editors(ids)
  PROVE  ed \in Editors(more)
<1>1. Sessions(ids) \subseteq Sessions(more)
  BY DEF Sessions
<1>2. Windows(ids) \subseteq Windows(more)
  BY <1>1 DEF Windows
<1>3. Requests(ids) \subseteq Requests(more)
  BY DEF Requests, Renderings
<1>4. Lines(ids) \subseteq Lines(more)
  BY DEF Lines, Replies, Results
<1>5. ed.requests \in Table(more, Keys) /\ ed.calls \in Table(more, Calls)
  BY TableGrows DEF Editors
<1>6. ed.inbox \in Seq(Lines(more)) /\ ed.mail \in Seq(Requests(more))
  BY <1>3, <1>4, SeqMonotonic DEF Editors
<1>7. ed.sess \in [Keys -> Windows(more)]
  BY <1>2 DEF Editors
<1> QED BY <1>5, <1>6, <1>7 DEF Editors

-----------------------------------------------------------------------------
(* The handlers of the editor.  `rest` are renders whose callback has been *)
(* taken out of the supervisor's table and has not run yet: there are some *)
(* only inside `ClearPending`.                                             *)

\* Every call is one the plugin waits for too, asked by an open session at its
\* present generation, and no session waits for two.
Waits(ed) ==
  /\ \A id \in DOMAIN ed.calls :
       /\ id \in DOMAIN ed.requests
       /\ ed.requests[id] = ed.calls[id].key
       /\ ed.sess[ed.calls[id].key].open
       /\ ed.calls[id].gen = ed.sess[ed.calls[id].key].gen
  /\ \A i, j \in DOMAIN ed.requests : ed.requests[i] = ed.requests[j] => i = j

Sound(ed, rest) ==
  /\ ed \in Editors(1..ed.nextId)
  /\ Waits(ed)
  /\ DOMAIN ed.requests \subseteq DOMAIN ed.calls \cup rest

\* What no handler touches: which windows are open, and whether there is a daemon;
\* and ids only grow.
Follows(ed, next) ==
  /\ next.nextId >= ed.nextId /\ next.job = ed.job
  /\ \A j \in Keys : next.sess[j].open = ed.sess[j].open

LEMMA FollowsOn ==
  ASSUME NEW one, NEW two, NEW three, NEW r1, NEW r2, NEW r3,
         Sound(one, r1), Sound(two, r2), Sound(three, r3),
         Follows(one, two), Follows(two, three)
  PROVE  Follows(one, three)
<1>1. one.nextId \in Nat /\ two.nextId \in Nat /\ three.nextId \in Nat
  BY DEF Sound, Editors
<1> QED BY <1>1 DEF Follows

\* An open window has a session.
LEMMA OpenIsSession ==
  ASSUME NEW ids, NEW w \in Windows(ids), w.open
  PROVE  w \in Sessions(ids)
BY DEF Windows, NoSession, Closed

LEMMA SessionParts ==
  ASSUME NEW ids, NEW s \in Sessions(ids)
  PROVE  /\ s.open = TRUE /\ s.src \in Bufs /\ s.gen \in Nat
         /\ s.rendered \in BOOLEAN /\ s.astray \in BOOLEAN
         /\ s.held \in Seq(ScreenRow) /\ s.index \in Nat /\ s.givenUp \subseteq ids
BY DEF Sessions

\* Nothing matters to the tables but themselves, and which windows are open and
\* at what generation.
LEMMA SoundAlike ==
  ASSUME NEW rest, NEW ed, Sound(ed, rest), NEW next \in Editors(1..ed.nextId),
         next.nextId = ed.nextId, next.requests = ed.requests, next.calls = ed.calls,
         \A j \in Keys : /\ next.sess[j].open = ed.sess[j].open
                         /\ ed.sess[j].open => next.sess[j].gen = ed.sess[j].gen
  PROVE  Sound(next, rest) /\ (next.job = ed.job => Follows(ed, next))
<1>1. /\ Waits(ed) /\ ed.nextId \in Nat
      /\ DOMAIN ed.requests \subseteq DOMAIN ed.calls \cup rest
      /\ ed.calls \in Table(1..ed.nextId, Calls)
  BY DEF Sound, Editors
<1>2. \A id \in DOMAIN ed.calls : ed.calls[id].key \in Keys
  <2>1. \A id \in DOMAIN ed.calls : ed.calls[id] \in Calls
    BY <1>1, TableParts
  <2> QED BY <2>1 DEF Calls
<1>3. Waits(next)
  BY <1>1, <1>2 DEF Waits
<1> QED BY <1>1, <1>3 DEF Sound, Follows

Put(ed, k, t) == [ed EXCEPT !.sess = [ed.sess EXCEPT ![k] = t]]

\* A session may change in all but its generation without disturbing anything.
LEMMA SessionUpdate ==
  ASSUME NEW rest, NEW ed, Sound(ed, rest), NEW k \in Keys, ed.sess[k].open,
         NEW t \in Sessions(1..ed.nextId), t.gen = ed.sess[k].gen
  PROVE  /\ Sound(Put(ed, k, t), rest) /\ Follows(ed, Put(ed, k, t))
         /\ Put(ed, k, t).sess[k] = t
<1> DEFINE next == Put(ed, k, t)
           ids == 1..ed.nextId
<1>1. /\ ed \in Editors(ids) /\ ed.sess \in [Keys -> Windows(ids)] /\ ed.nextId \in Nat
      /\ ed.calls \in Table(ids, Calls)
  BY DEF Sound, Editors
<1>2. t \in Windows(ids) /\ t.open
  BY DEF Windows, Sessions
<1>3. /\ next \in Editors(ids)
      /\ next.sess = [ed.sess EXCEPT ![k] = t] /\ next.job = ed.job
      /\ next.nextId = ed.nextId /\ next.calls = ed.calls /\ next.requests = ed.requests
  BY <1>1, <1>2 DEF Editors, Put
<1> HIDE DEF next, ids
<1>4. \A j \in Keys : next.sess[j].open = ed.sess[j].open /\ next.sess[j].gen = ed.sess[j].gen
  BY <1>1, OpenIsSession, <1>3 DEF Sessions
<1>5. Sound(next, rest) /\ Follows(ed, next)
  BY <1>3, <1>4, SoundAlike DEF ids
<1>6. next.sess[k] = t
  BY <1>1, <1>3
<1> QED BY <1>5, <1>6 DEF next

\* Withdrawing what a session waits for leaves nothing of it in either table.
LEMMA WithdrawSpec ==
  ASSUME NEW n \in Nat, NEW ed \in Editors(1..n), NEW k \in Keys
  PROVE  LET q == Withdraw(ed, k)
         IN  /\ q \in Editors(1..n)
             /\ \A f \in {"buf", "win", "sess", "nextId", "job", "greeting", "inbox"} :
                  q[f] = ed[f]
             /\ q.requests = Without(ed.requests, Moot(ed, k))
             /\ q.calls = Without(ed.calls, Moot(ed, k))
<1> DEFINE moot == Moot(ed, k)
           notes == {Cancel(id) : id \in moot}
           mail == ed.mail \o SetToSeq(notes)
<1>1. /\ ed.requests \in Table(1..n, Keys) /\ ed.calls \in Table(1..n, Calls)
      /\ ed.mail \in Seq(Requests(1..n))
  BY DEF Editors
<1>2. moot \subseteq 1..n
  BY <1>1, TableParts DEF Moot
<1>3. mail \in Seq(Requests(1..n))
  <2>1. IsFiniteSet(moot)
    BY <1>2, FS_Interval, FS_Subset
  <2>2. IsFiniteSet(notes)
    <3> DEFINE f == [id \in moot |-> Cancel(id)]
    <3>1. f \in Surjection(moot, notes)
      BY DEF Surjection
    <3> HIDE DEF moot, notes, f
    <3> QED BY <2>1, <3>1, FS_Surjection
  <2>3. notes \subseteq Requests(1..n)
    BY <1>2 DEF Requests
  <2> HIDE DEF notes
  <2>4. SetToSeq(notes) \in Seq(Requests(1..n))
    BY <2>2, <2>3, SetToSeqType, SeqMonotonic
  <2> QED BY <1>1, <2>4, ConcatProperties
<1>4. /\ Without(ed.requests, moot) \in Table(1..n, Keys)
      /\ Without(ed.calls, moot) \in Table(1..n, Calls)
  BY <1>1, WithoutType
<1> HIDE DEF moot, notes, mail
<1>5. Withdraw(ed, k) = [ed EXCEPT !.requests = Without(ed.requests, moot),
                                   !.calls = Without(ed.calls, moot), !.mail = mail]
  BY DEF Withdraw, moot, notes, mail
<1> QED BY <1>3, <1>4, <1>5 DEF Editors, moot

\* A render moves the generation and both tables together.
LEMMA RenderSpec ==
  ASSUME NEW rest, NEW ed, Sound(ed, rest), NEW k \in Keys, ed.sess[k].open
  PROVE  Sound(Render(ed, k), rest) /\ Follows(ed, Render(ed, k))
<1> DEFINE n == ed.nextId
           s == ed.sess[k]
           moot == Moot(ed, k)
           id == n + 1
           q == Withdraw(ed, k)
           t == [s EXCEPT !.timer = FALSE, !.width = ed.win[k], !.gen = s.gen + 1,
                          !.givenUp = s.givenUp \cup moot]
           c == [key |-> k, gen |-> s.gen + 1, buf |-> s.src, tick |-> ed.buf[s.src].tick]
           m == [type |-> "render", id |-> id, key |-> k,
                 doc |-> ed.buf[s.src].doc, width |-> ed.win[k], incremental |-> s.rendered]
           r == Render(ed, k)
<1>1. /\ ed \in Editors(1..n) /\ n \in Nat /\ ed.buf \in [Bufs -> Texts]
      /\ ed.win \in [Keys -> Widths]
      /\ ed.sess \in [Keys -> Windows(1..n)]
      /\ ed.requests \in Table(1..n, Keys) /\ ed.calls \in Table(1..n, Calls)
  BY DEF Sound, Editors
<1>2. s \in Sessions(1..n)
  BY <1>1, OpenIsSession
<1>3. /\ q \in Editors(1..n)
      /\ q.buf = ed.buf /\ q.win = ed.win /\ q.sess = ed.sess /\ q.job = ed.job
      /\ q.requests = Without(ed.requests, moot) /\ q.calls = Without(ed.calls, moot)
  BY <1>1, WithdrawSpec
<1>4. /\ q \in Editors(1..id) /\ id \in 1..id /\ id \in Nat
      /\ q.requests \in Table(1..id, Keys) /\ q.calls \in Table(1..id, Calls)
      /\ q.mail \in Seq(Requests(1..id))
  <2>1. 1..n \subseteq 1..id /\ id \in 1..id /\ id \in Nat
    BY <1>1
  <2> HIDE DEF id, q
  <2>2. q \in Editors(1..id)
    BY <1>3, <2>1, EditorsGrow
  <2> QED BY <2>1, <2>2 DEF Editors
<1>5. moot \subseteq 1..n
  BY <1>1, TableParts DEF Moot
<1>6. /\ t \in Windows(1..id) /\ t.open = TRUE /\ s.open = TRUE /\ t.gen = s.gen + 1
  <2>1. s.gen + 1 \in Nat /\ ed.win[k] \in Widths /\ s.open = TRUE
    <3>1. s.gen \in Nat /\ s.open = TRUE
      BY <1>2, SessionParts
    <3> QED BY <1>1, <3>1
  <2>2. s.givenUp \cup moot \in SUBSET (1..id)
    <3>1. 1..n \subseteq 1..id
      BY <1>1
    <3>2. s.givenUp \subseteq 1..n
      BY <1>2, SessionParts
    <3> HIDE DEF id, moot
    <3> QED BY <3>1, <3>2, <1>5
  <2> HIDE DEF id, moot, s
  <2>3. t \in Sessions(1..id)
    BY <1>2, <2>1, <2>2 DEF Sessions
  <2>4. t.open = TRUE /\ t.gen = s.gen + 1
    BY <1>2, <2>1 DEF Sessions
  <2> QED BY <2>1, <2>3, <2>4 DEF Windows
<1>7. ed.buf[s.src] \in Texts /\ s.src \in Bufs /\ s.gen \in Nat /\ s.rendered \in BOOLEAN
  BY <1>1, <1>2 DEF Sessions
<1>8. c \in Calls
  BY <1>7 DEF Calls, Texts
<1>9. m \in Requests(1..id)
  BY <1>1, <1>4, <1>7 DEF Requests, Renderings, Texts
<1>10. r = [q EXCEPT !.nextId = id, !.sess = [ed.sess EXCEPT ![k] = t],
                     !.requests = With(q.requests, id, k), !.calls = With(q.calls, id, c),
                     !.mail = Append(q.mail, m)]
  BY DEF Render, NextId
<1> HIDE DEF m, c, t, q, r
<1>11. /\ With(q.requests, id, k) \in Table(1..id, Keys)
       /\ DOMAIN With(q.requests, id, k) = DOMAIN q.requests \cup {id}
       /\ With(q.requests, id, k)[id] = k
       /\ \A j \in DOMAIN q.requests : j # id => With(q.requests, id, k)[j] = q.requests[j]
  <2> DEFINE ids == 1..id
             old == q.requests
  <2>1. id \in ids /\ old \in Table(ids, Keys)
    BY <1>4
  <2> HIDE DEF ids, old, id
  <2>2. /\ With(old, id, k) \in Table(ids, Keys)
        /\ DOMAIN With(old, id, k) = DOMAIN old \cup {id}
        /\ With(old, id, k)[id] = k
        /\ \A j \in DOMAIN old : j # id => With(old, id, k)[j] = old[j]
    BY <2>1, WithType
  <2> QED BY <2>2 DEF ids, old
<1>12. /\ With(q.calls, id, c) \in Table(1..id, Calls)
       /\ DOMAIN With(q.calls, id, c) = DOMAIN q.calls \cup {id}
       /\ With(q.calls, id, c)[id] = c
       /\ \A j \in DOMAIN q.calls : j # id => With(q.calls, id, c)[j] = q.calls[j]
  <2> DEFINE ids == 1..id
             old == q.calls
  <2>1. id \in ids /\ old \in Table(ids, Calls)
    BY <1>4
  <2> HIDE DEF ids, old, id
  <2>2. /\ With(old, id, c) \in Table(ids, Calls)
        /\ DOMAIN With(old, id, c) = DOMAIN old \cup {id}
        /\ With(old, id, c)[id] = c
        /\ \A j \in DOMAIN old : j # id => With(old, id, c)[j] = old[j]
    BY <1>8, <2>1, WithType
  <2> QED BY <2>2 DEF ids, old
<1>13. Append(q.mail, m) \in Seq(Requests(1..id))
  BY <1>4, <1>9, AppendProperties
<1>14. [ed.sess EXCEPT ![k] = t] \in [Keys -> Windows(1..id)]
  BY <1>4, <1>3, <1>6 DEF Editors
<1>15. /\ r \in Editors(1..id) /\ r.nextId = id
       /\ r.sess = [ed.sess EXCEPT ![k] = t]
       /\ r.requests = With(q.requests, id, k) /\ r.calls = With(q.calls, id, c)
  BY <1>4, <1>10, <1>11, <1>12, <1>13, <1>14 DEF Editors
<1>16. \A j \in Keys : r.sess[j].open = ed.sess[j].open
  BY <1>1, <1>6, <1>15
<1>17. /\ DOMAIN q.requests = DOMAIN ed.requests \ moot
       /\ \A j \in DOMAIN q.requests :
            q.requests[j] = ed.requests[j] /\ ed.requests[j] # k /\ j # id
       /\ DOMAIN q.calls = DOMAIN ed.calls \ moot
       /\ \A j \in DOMAIN q.calls : q.calls[j] = ed.calls[j]
  BY <1>1, TableParts, <1>3 DEF Moot, Without
<1>18. Waits(r)
  <2>1. ASSUME NEW j \in DOMAIN r.calls
        PROVE  /\ j \in DOMAIN r.requests
               /\ r.requests[j] = r.calls[j].key
               /\ r.sess[r.calls[j].key].open
               /\ r.calls[j].gen = r.sess[r.calls[j].key].gen
    <3>1. CASE j = id
      <4>1. c.key = k /\ c.gen = s.gen + 1
        BY DEF c
      <4> QED BY <1>1, <1>6, <1>11, <1>12, <1>15, <3>1, <4>1
    <3>2. CASE j # id
      BY <1>12, <1>15, <1>17, <3>2, <1>1, TableParts, <1>11 DEF Sound, Waits
    <3> QED BY <3>1, <3>2
  <2>2. ASSUME NEW i \in DOMAIN r.requests, NEW j \in DOMAIN r.requests,
               r.requests[i] = r.requests[j]
        PROVE  i = j
    BY <1>11, <1>15, <1>17, <2>2 DEF Sound, Waits
  <2> QED BY <2>1, <2>2 DEF Waits
<1>19. DOMAIN r.requests \subseteq DOMAIN r.calls \cup rest
  BY <1>11, <1>12, <1>15, <1>17 DEF Sound
<1>20. r.nextId >= ed.nextId /\ r.job = ed.job
  BY <1>3, <1>10, <1>1, <1>15 DEF Editors
<1> QED BY <1>15, <1>16, <1>18, <1>19, <1>20 DEF Sound, Follows, r

\* An answered call is gone from both tables, and from the rest.
LEMMA SettledSpec ==
  ASSUME NEW rest, NEW ed, Sound(ed, rest), NEW id
  PROVE  Sound(Settled(ed, id), rest \ {id}) /\ Follows(ed, Settled(ed, id))
<1> DEFINE n == ed.nextId
           next == Settled(ed, id)
<1>1. /\ ed \in Editors(1..n) /\ n \in Nat /\ Waits(ed)
      /\ ed.requests \in Table(1..n, Keys) /\ ed.calls \in Table(1..n, Calls)
      /\ DOMAIN ed.requests \subseteq DOMAIN ed.calls \cup rest
  BY DEF Sound, Editors
<1>2. /\ Without(ed.requests, {id}) \in Table(1..n, Keys)
      /\ Without(ed.calls, {id}) \in Table(1..n, Calls)
  BY <1>1, WithoutType
<1>3. /\ next \in Editors(1..n)
      /\ next.nextId = n /\ next.sess = ed.sess /\ next.job = ed.job
      /\ next.requests = Without(ed.requests, {id}) /\ next.calls = Without(ed.calls, {id})
  BY <1>1, <1>2 DEF Settled, Editors
<1> HIDE DEF next
<1>4. /\ DOMAIN next.requests = DOMAIN ed.requests \ {id}
      /\ \A j \in DOMAIN ed.requests \ {id} : next.requests[j] = ed.requests[j]
      /\ DOMAIN next.calls = DOMAIN ed.calls \ {id}
      /\ \A j \in DOMAIN ed.calls \ {id} : next.calls[j] = ed.calls[j]
  BY <1>3 DEF Without
<1>5. Waits(next)
  BY <1>1, <1>3, <1>4 DEF Waits
<1> QED BY <1>1, <1>3, <1>4, <1>5 DEF Sound, Follows, next

LEMMA PlaceholderSpec ==
  ASSUME NEW rest, NEW ed, Sound(ed, rest), NEW k \in Keys, ed.sess[k].open
  PROVE  Sound(Placeholder(ed, k), rest) /\ Follows(ed, Placeholder(ed, k))
<1> DEFINE ids == 1..ed.nextId
           s == ed.sess[k]
           t == [s EXCEPT !.held = << >>, !.index = 0, !.map = NoMap, !.rendered = FALSE]
<1>1. s \in Sessions(ids)
  BY OpenIsSession DEF Sound, Editors
<1>2. t \in Sessions(ids) /\ t.gen = s.gen
  <2>1. << >> \in Seq(ScreenRow) /\ NoMap \in Maps
    BY DEF Maps
  <2> HIDE DEF s, ids
  <2> QED BY <1>1, <2>1 DEF Sessions
<1>3. Placeholder(ed, k) = Put(ed, k, t)
  BY DEF Placeholder, Put
<1> HIDE DEF t
<1> QED BY <1>2, <1>3, SessionUpdate

LEMMA ResyncSpec ==
  ASSUME NEW rest, NEW ed, Sound(ed, rest), NEW k \in Keys, ed.sess[k].open
  PROVE  Sound(Resync(ed, k), rest) /\ Follows(ed, Resync(ed, k))
<1> DEFINE ids == 1..ed.nextId
           s == ed.sess[k]
           t == [s EXCEPT !.rendered = FALSE]
           quiet == Put(ed, k, t)
<1>1. s \in Sessions(ids)
  BY OpenIsSession DEF Sound, Editors
<1>2. t \in Sessions(ids) /\ t.gen = s.gen /\ t.open
  BY <1>1 DEF Sessions
<1>3. Resync(ed, k) = Render(quiet, k)
  BY DEF Resync, Put
<1> HIDE DEF t
<1>4. Sound(quiet, rest) /\ Follows(ed, quiet) /\ quiet.sess[k] = t
  BY <1>2, SessionUpdate
<1> HIDE DEF quiet
<1>5. Sound(Render(quiet, k), rest) /\ Follows(quiet, Render(quiet, k))
  BY <1>2, <1>4, RenderSpec
<1> QED BY <1>3, <1>4, <1>5, FollowsOn

\* Whatever answer comes for an open window, it ends with a session.
LEMMA ApplySpec ==
  ASSUME NEW rest, NEW ed, Sound(ed, rest), NEW call \in Calls, NEW k \in Keys, ed.sess[k].open,
         NEW reply \in Results(Nat)
  PROVE  LET next == Apply(ed, k, call, reply)
         IN  Sound(next, rest) /\ Follows(ed, next)
<1> DEFINE ids == 1..ed.nextId
           s == ed.sess[k]
           rows == IF reply.whole THEN reply.rows ELSE Patched(s.held, reply.patch)
           fits == reply.whole \/ PatchFits(s.held, reply.patch)
           agrees == Len(rows) = Len(reply.rows) /\ SourceSum(rows) = SourceSum(reply.rows)
           spoilt == [s EXCEPT !.held = rows]
           t == [s EXCEPT
                   !.held     = rows,
                   !.index    = IF reply.carries THEN reply.index ELSE s.index,
                   !.rendered = TRUE,
                   !.map      = [buf |-> call.buf, tick |-> call.tick, gen |-> call.gen],
                   !.astray   = reply.base \in s.givenUp \/ (reply.base > 0 /\ s.astray),
                   !.shown    = [id |-> reply.id, rows |-> reply.rows, index |-> reply.index]]
           middle == Put(ed, k, spoilt)
           next == Apply(ed, k, call, reply)
<1>1. s \in Sessions(ids)
  BY OpenIsSession DEF Sound, Editors
<1>2. /\ reply.patch \in Patches /\ reply.rows \in Seq(Row) /\ reply.index \in Nat
      /\ reply.id \in Nat
  BY DEF Results
<1>3. rows \in Seq(ScreenRow)
  <2>1. Row \subseteq ScreenRow
    BY DEF Row, ScreenRow
  <2>2. s.held \in Seq(ScreenRow)
    BY <1>1, SessionParts
  <2> QED BY <1>2, <2>1, <2>2, SeqMonotonic, PatchedType
<1> HIDE DEF rows
<1>4. spoilt \in Sessions(ids) /\ spoilt.gen = s.gen /\ spoilt.open
  BY <1>1, <1>3 DEF Sessions
<1>5. t \in Sessions(ids) /\ t.gen = s.gen
  <2>1. [buf |-> call.buf, tick |-> call.tick, gen |-> call.gen] \in Maps
    BY DEF Calls, Maps
  <2>2. [id |-> reply.id, rows |-> reply.rows, index |-> reply.index] \in Answers
    BY <1>2 DEF Answers
  <2>3. (reply.base \in s.givenUp \/ (reply.base > 0 /\ s.astray)) \in BOOLEAN
    OBVIOUS
  <2>4. (IF reply.carries THEN reply.index ELSE s.index) \in Nat
    BY <1>1, <1>2, SessionParts
  <2> HIDE DEF s, ids
  <2> QED BY <1>1, <1>3, <2>1, <2>2, <2>3, <2>4 DEF Sessions
<1>6. next = IF ~ reply.whole /\ ~ s.rendered THEN Render(ed, k)
             ELSE IF ~ fits \/ ~ agrees THEN Resync(middle, k)
             ELSE Put(ed, k, t)
  BY DEF Apply, rows, Put
<1>7. Sound(Render(ed, k), rest) /\ Follows(ed, Render(ed, k))
  BY RenderSpec
<1> HIDE DEF spoilt, t
<1>8. Sound(middle, rest) /\ Follows(ed, middle) /\ middle.sess[k] = spoilt
  BY <1>4, SessionUpdate
<1>9. Sound(Put(ed, k, t), rest) /\ Follows(ed, Put(ed, k, t))
  BY <1>5, SessionUpdate
<1> HIDE DEF middle
<1>10. Sound(Resync(middle, k), rest) /\ Follows(middle, Resync(middle, k))
  BY <1>4, <1>8, ResyncSpec
<1>11. Follows(ed, Resync(middle, k))
  BY <1>8, <1>10, FollowsOn
<1> HIDE DEF fits, agrees, next, s
<1> QED BY <1>6, <1>7, <1>9, <1>10, <1>11 DEF next

\* The callback of a render, whatever it is called with.
LEMMA OnRenderReplySpec ==
  ASSUME NEW rest, NEW ed, Sound(ed, rest), NEW call \in Calls, ed.sess[call.key].open,
         NEW reply \in Replies(Nat)
  PROVE  /\ Sound(OnRenderReply(ed, call, reply), rest \ {reply.id})
         /\ Follows(ed, OnRenderReply(ed, call, reply))
<1> DEFINE done == Settled(ed, reply.id)
           less == rest \ {reply.id}
           k == call.key
           next == OnRenderReply(ed, call, reply)
<1>1. Sound(done, less) /\ Follows(ed, done)
  BY SettledSpec
<1>2. k \in Keys
  BY DEF Calls
<1>3. done.sess[k].open
  BY <1>1, <1>2 DEF Follows
<1> HIDE DEF done, less, k
<1>4. /\ Sound(Resync(done, k), less) /\ Follows(done, Resync(done, k))
      /\ Sound(Placeholder(done, k), less) /\ Follows(done, Placeholder(done, k))
  BY <1>1, <1>2, <1>3, ResyncSpec, PlaceholderSpec
<1>5. ASSUME reply.type # "error"
      PROVE  Sound(Apply(done, k, call, reply), less) /\ Follows(done, Apply(done, k, call, reply))
  BY <1>5, <1>1, <1>2, <1>3, ApplySpec DEF Replies, Failure
<1>6. \/ next \in {Resync(done, k), Placeholder(done, k)}
      \/ reply.type # "error" /\ next = Apply(done, k, call, reply)
  BY DEF OnRenderReply, done, k
<1> HIDE DEF next
<1>7. Sound(next, less) /\ Follows(done, next)
  BY <1>4, <1>5, <1>6
<1>8. Follows(ed, next)
  BY <1>1, <1>7, FollowsOn
<1> QED BY <1>7, <1>8 DEF next, less

\* RenderAll goes through the sessions one by one.
RenderingSteps(ed, order, after) ==
  /\ after[0] = ed
  /\ \A n \in 1..Len(order) : after[n] = Render(after[n - 1], order[n])
  /\ RenderAll(ed, order) = after[Len(order)]

LEMMA RenderAllSteps ==
  ASSUME NEW ed, NEW order \in Seq(Keys)
  PROVE  \E after : RenderingSteps(ed, order, after)
<1> DEFINE len == Len(order)
           Step(f, n) == IF n = 0 THEN ed ELSE Render(f[n - 1], order[n])
           Rec(f, n) == f = [i \in 0..n |-> Step(f, i)]
           after == CHOOSE f : Rec(f, len)
<1>1. len \in Nat
  BY LenProperties
<1>2. \E f : Rec(f, len)
  <2> DEFINE Bad == {n \in 0..len : ~ \E f : Rec(f, n)}
  <2>1. SUFFICES ASSUME Bad # {} PROVE FALSE
    BY <1>1
  <2>2. PICK m \in Bad : \A n \in Bad : m <= n
    <3>1. Bad \in SUBSET Nat
      BY <1>1
    <3> HIDE DEF Bad
    <3> QED BY <2>1, <3>1, NatLeast
  <2>3. m \in 0..len /\ ~ \E f : Rec(f, m)
    BY <2>2
  <2>4. CASE m = 0
    <3>1. Rec([i \in 0..0 |-> ed], 0)
      OBVIOUS
    <3> QED BY <2>3, <2>4, <3>1
  <2>5. CASE m > 0
    <3>1. m - 1 \in 0..len /\ m - 1 < m
      BY <1>1, <2>3, <2>5
    <3>2. m - 1 \notin Bad
      <4>1. m \in Int
        BY <2>3
      <4> HIDE DEF Bad
      <4> QED BY <4>1, <2>2, <3>1
    <3>3. PICK g : Rec(g, m - 1)
      BY <3>1, <3>2
    <3> DEFINE last == Render(g[m - 1], order[m])
               f == [i \in 0..m |-> IF i = m THEN last ELSE g[i]]
    <3>4. ASSUME NEW i \in 0..m PROVE f[i] = Step(f, i)
      BY <2>3, <2>5, <3>3
    <3>5. Rec(f, m)
      BY <3>4
    <3> QED BY <2>3, <3>5
  <2> QED BY <2>3, <2>4, <2>5
<1>3. Rec(after, len)
  BY <1>2
<1>4. RenderAll(ed, order) = after[len]
  BY DEF RenderAll, after
<1> HIDE DEF after
<1>5. after[0] = ed /\ \A n \in 1..len : after[n] = Render(after[n - 1], order[n])
  BY <1>3, <1>1
<1> QED BY <1>4, <1>5 DEF RenderingSteps

\* Any number of sessions may be rendered, one after another.
LEMMA RenderAllSound ==
  ASSUME NEW rest, NEW ed, Sound(ed, rest), NEW order \in Seq(Keys),
         \A i \in 1..Len(order) : ed.sess[order[i]].open,
         NEW after, RenderingSteps(ed, order, after)
  PROVE  \A n \in 0..Len(order) : Sound(after[n], rest) /\ Follows(ed, after[n])
<1> DEFINE len == Len(order)
           Right(n) == Sound(after[n], rest) /\ Follows(ed, after[n])
<1>1. len \in Nat /\ \A i \in 1..len : order[i] \in Keys
  BY LenProperties, ElementOfSeq
<1>2. after[0] = ed /\ \A n \in 1..len : after[n] = Render(after[n - 1], order[n])
  BY DEF RenderingSteps
<1>3. \A n \in 0..len : Right(n)
  <2> DEFINE Bad == {n \in 0..len : ~ Right(n)}
  <2>1. SUFFICES ASSUME Bad # {} PROVE FALSE
    OBVIOUS
  <2>2. PICK m \in Bad : \A n \in Bad : m <= n
    <3>1. Bad \in SUBSET Nat
      BY <1>1
    <3> HIDE DEF Bad
    <3> QED BY <2>1, <3>1, NatLeast
  <2>3. m \in 0..len /\ ~ Right(m)
    BY <2>2
  <2>4. CASE m = 0
    BY <1>2, <2>3, <2>4 DEF Follows, Sound, Editors
  <2>5. CASE m > 0
    <3>1. m - 1 \in 0..len /\ m - 1 < m /\ m \in 1..len
      BY <1>1, <2>3, <2>5
    <3>2. Right(m - 1)
      BY <2>2, <3>1
    <3> DEFINE prev == after[m - 1]
               next == after[m]
               k == order[m]
    <3>3. next = Render(prev, k) /\ k \in Keys /\ ed.sess[k].open
      BY <1>1, <1>2, <3>1
    <3>4. Sound(prev, rest) /\ Follows(ed, prev)
      BY <3>2
    <3> HIDE DEF prev, next, k
    <3>5. prev.sess[k].open
      BY <3>3, <3>4 DEF Follows
    <3>6. Sound(next, rest) /\ Follows(prev, next)
      BY <3>3, <3>4, <3>5, RenderSpec
    <3>7. Follows(ed, next)
      BY <3>4, <3>6, FollowsOn
    <3> QED BY <2>3, <3>6, <3>7 DEF next
  <2> QED BY <2>3, <2>4, <2>5
<1> QED BY <1>3

LEMMA RenderAllSpec ==
  ASSUME NEW rest, NEW ed, Sound(ed, rest), NEW order \in Seq(Keys),
         \A i \in 1..Len(order) : ed.sess[order[i]].open
  PROVE  Sound(RenderAll(ed, order), rest) /\ Follows(ed, RenderAll(ed, order))
<1>1. PICK after : RenderingSteps(ed, order, after)
  BY RenderAllSteps
<1>2. Len(order) \in Nat /\ RenderAll(ed, order) = after[Len(order)]
  BY <1>1, LenProperties DEF RenderingSteps
<1>3. \A n \in 0..Len(order) : Sound(after[n], rest) /\ Follows(ed, after[n])
  BY <1>1, RenderAllSound
<1> QED BY <1>2, <1>3

\* ClearPending runs the callbacks one by one.
ClearingSteps(ed, order, after) ==
  /\ after[0] = [ed EXCEPT !.calls = << >>]
  /\ \A n \in 1..Len(order) :
       after[n] = OnRenderReply(after[n - 1], ed.calls[order[n]], Failure(order[n]))
  /\ ClearPending(ed, order) = after[Len(order)]

LEMMA ClearPendingSteps ==
  ASSUME NEW ed, NEW order, Len(order) \in Nat
  PROVE  \E after : ClearingSteps(ed, order, after)
<1> DEFINE len == Len(order)
           base == [ed EXCEPT !.calls = << >>]
           Answer(e, id) == OnRenderReply(e, ed.calls[id], Failure(id))
           Step(f, n) == IF n = 0 THEN base ELSE Answer(f[n - 1], order[n])
           Rec(f, n) == f = [i \in 0..n |-> Step(f, i)]
           after == CHOOSE f : Rec(f, len)
<1>1. len \in Nat
  OBVIOUS
<1> HIDE DEF Answer
<1>2. \E f : Rec(f, len)
  <2> DEFINE Bad == {n \in 0..len : ~ \E f : Rec(f, n)}
  <2>1. SUFFICES ASSUME Bad # {} PROVE FALSE
    BY <1>1
  <2>2. PICK m \in Bad : \A n \in Bad : m <= n
    <3>1. Bad \in SUBSET Nat
      BY <1>1
    <3> HIDE DEF Bad
    <3> QED BY <2>1, <3>1, NatLeast
  <2>3. m \in 0..len /\ ~ \E f : Rec(f, m)
    BY <2>2
  <2>4. CASE m = 0
    <3>1. Rec([i \in 0..0 |-> base], 0)
      OBVIOUS
    <3> QED BY <2>3, <2>4, <3>1
  <2>5. CASE m > 0
    <3>1. m - 1 \in 0..len /\ m - 1 < m
      BY <1>1, <2>3, <2>5
    <3>2. m - 1 \notin Bad
      BY <2>3, <2>2, <3>1
    <3>3. PICK g : Rec(g, m - 1)
      BY <3>1, <3>2
    <3> DEFINE last == Answer(g[m - 1], order[m])
               f == [i \in 0..m |-> IF i = m THEN last ELSE g[i]]
    <3>4. ASSUME NEW i \in 0..m PROVE f[i] = Step(f, i)
      <4>1. CASE i = m
        BY <4>1, <2>3, <2>5
      <4>2. CASE i # m
        <5>1. i \in 0..(m - 1) /\ (i # 0 => i - 1 \in 0..(m - 1) /\ i - 1 # m /\ i - 1 \in 0..m)
          BY <4>2, <2>3
        <5>2. f[i] = g[i] /\ (i # 0 => f[i - 1] = g[i - 1])
          BY <4>2, <5>1
        <5>3. g[i] = Step(g, i)
          BY <3>3, <5>1
        <5> HIDE DEF f
        <5> QED BY <5>2, <5>3
      <4> QED BY <4>1, <4>2
    <3>5. Rec(f, m)
      BY <3>4
    <3> QED BY <2>3, <3>5
  <2> QED BY <2>3, <2>4, <2>5
<1>3. Rec(after, len)
  BY <1>2
<1>4. ClearPending(ed, order) = after[len]
  BY DEF ClearPending, after, Answer
<1> HIDE DEF after
<1>5. after[0] = base /\ \A n \in 1..len : after[n] = Answer(after[n - 1], order[n])
  BY <1>3, <1>1
<1> QED BY <1>4, <1>5 DEF ClearingSteps, Answer, base

\* The order the callbacks run in has every call.
LEMMA ClearingOrder ==
  ASSUME NEW ed, Sound(ed, {}), NEW order \in SetToSeqs(DOMAIN ed.calls)
  PROVE  /\ Len(order) \in Nat
         /\ \A i \in 1..Len(order) : order[i] \in DOMAIN ed.calls
         /\ \A i, j \in 1..Len(order) : order[i] = order[j] => i = j
         /\ DOMAIN ed.calls \subseteq {order[i] : i \in 1..Len(order)}
<1>1. ed.calls \in Table(1..ed.nextId, Calls) /\ ed.nextId \in Nat
  BY DEF Sound, Editors
<1>2. IsFiniteSet(DOMAIN ed.calls)
  BY <1>1, TableParts, FS_Interval, FS_Subset
<1>3. /\ order \in Seq(DOMAIN ed.calls)
      /\ \A x \in DOMAIN ed.calls : \E i \in 1..Len(order) : order[i] = x
      /\ \A i, j \in 1..Len(order) : order[i] = order[j] => i = j
  BY <1>2, SetToSeqsType
<1> QED BY <1>3, LenProperties, ElementOfSeq

\* The renders whose callbacks have not run when the first `n` have.
StillToRun(order, n) == {order[i] : i \in (n + 1)..Len(order)}

\* When a daemon is gone every call is answered with a failure, in any order,
\* and nobody is left waiting for it.
LEMMA ClearPendingSound ==
  ASSUME NEW ed, Sound(ed, {}), NEW order \in SetToSeqs(DOMAIN ed.calls),
         NEW after, ClearingSteps(ed, order, after)
  PROVE  \A n \in 0..Len(order) :
           Sound(after[n], StillToRun(order, n)) /\ Follows(ed, after[n])
<1> DEFINE len == Len(order)
           base == [ed EXCEPT !.calls = << >>]
           Answer(e, id) == OnRenderReply(e, ed.calls[id], Failure(id))
           Rest(n) == StillToRun(order, n)
           Right(n) == Sound(after[n], Rest(n)) /\ Follows(ed, after[n])
<1>1. /\ ed \in Editors(1..ed.nextId) /\ ed.nextId \in Nat
      /\ ed.calls \in Table(1..ed.nextId, Calls)
      /\ DOMAIN ed.calls \subseteq 1..ed.nextId
      /\ \A id \in DOMAIN ed.calls : ed.calls[id] \in Calls
  BY TableParts DEF Sound, Editors
<1>2. /\ len \in Nat /\ \A i \in 1..len : order[i] \in DOMAIN ed.calls
      /\ DOMAIN ed.calls \subseteq {order[i] : i \in 1..len}
  BY ClearingOrder
<1>3. after[0] = base /\ \A n \in 1..len : after[n] = Answer(after[n - 1], order[n])
  BY DEF ClearingSteps
<1> HIDE DEF Answer
<1>4. Right(0)
  <2>1. << >> \in Table(1..ed.nextId, Calls) /\ DOMAIN << >> = {}
    BY EmptyTable
  <2>2. /\ base \in Editors(1..ed.nextId) /\ base.nextId = ed.nextId /\ base.sess = ed.sess
        /\ base.requests = ed.requests /\ base.calls = << >> /\ base.job = ed.job
    BY <1>1, <2>1 DEF Editors
  <2> HIDE DEF base
  <2>3. Waits(base)
    BY <2>1, <2>2 DEF Sound, Waits
  <2>4. DOMAIN base.requests \subseteq Rest(0)
    BY <1>2, <2>2 DEF Sound, StillToRun
  <2>5. Sound(base, Rest(0))
    BY <2>2, <2>3, <2>4 DEF Sound
  <2>6. Follows(ed, base)
    BY <1>1, <2>2 DEF Follows
  <2> QED BY <1>3, <2>5, <2>6
<1>5. \A n \in 0..len : Right(n)
  <2> DEFINE Bad == {n \in 0..len : ~ Right(n)}
  <2>1. SUFFICES ASSUME Bad # {} PROVE FALSE
    OBVIOUS
  <2>2. PICK m \in Bad : \A n \in Bad : m <= n
    <3>1. Bad \in SUBSET Nat
      BY <1>2
    <3> HIDE DEF Bad
    <3> QED BY <2>1, <3>1, NatLeast
  <2>3. m \in 0..len /\ ~ Right(m)
    BY <2>2
  <2> HIDE DEF Right
  <2>4. m > 0
    BY <1>4, <2>3
  <2>5. m - 1 \in 0..len /\ m - 1 < m /\ m \in 1..len
    BY <1>2, <2>3, <2>4
  <2>6. Right(m - 1)
    BY <2>2, <2>5
  <2> USE DEF Right
  <2> DEFINE prev == after[m - 1]
             next == after[m]
             id == order[m]
             rest == Rest(m - 1)
             call == ed.calls[id]
  <2>7. id \in DOMAIN ed.calls /\ next = Answer(prev, id)
    BY <1>2, <1>3, <2>5
  <2>8. Sound(prev, rest) /\ Follows(ed, prev)
    BY <2>6
  <2>9. rest \ {id} \subseteq Rest(m)
    BY <2>3 DEF StillToRun
  <2> HIDE DEF prev, next, id, rest, Rest
  <2>10. call \in Calls /\ call.key \in Keys /\ ed.sess[call.key].open
    BY <1>1, <2>7 DEF Sound, Waits, Calls
  <2>11. prev.sess[call.key].open
    BY <2>8, <2>10 DEF Follows
  <2>12. Failure(id) \in Replies(Nat) /\ Failure(id).id = id
    BY <1>1, <2>7 DEF Replies, Failure
  <2> HIDE DEF call
  <2>13. /\ Sound(OnRenderReply(prev, call, Failure(id)), rest \ {Failure(id).id})
         /\ Follows(prev, OnRenderReply(prev, call, Failure(id)))
    BY <2>8, <2>10, <2>11, <2>12, OnRenderReplySpec
  <2>14. next = OnRenderReply(prev, call, Failure(id))
    BY <2>7 DEF Answer, call
  <2>15. Sound(next, rest \ {id}) /\ Follows(prev, next)
    BY <2>12, <2>13, <2>14
  <2>16. Sound(next, Rest(m))
    BY <2>9, <2>15 DEF Sound
  <2>17. Follows(ed, next)
    BY <2>8, <2>15, FollowsOn
  <2> QED BY <2>3, <2>16, <2>17 DEF next
<1> QED BY <1>5

LEMMA ClearPendingSpec ==
  ASSUME NEW ed, Sound(ed, {}), NEW order \in SetToSeqs(DOMAIN ed.calls)
  PROVE  Sound(ClearPending(ed, order), {}) /\ Follows(ed, ClearPending(ed, order))
<1> DEFINE len == Len(order)
<1>1. len \in Nat
  BY ClearingOrder
<1>2. PICK after : ClearingSteps(ed, order, after)
  BY <1>1, ClearPendingSteps
<1>3. ClearPending(ed, order) = after[len]
  BY <1>2 DEF ClearingSteps
<1>4. Sound(after[len], StillToRun(order, len)) /\ Follows(ed, after[len])
  BY <1>1, <1>2, ClearPendingSound
<1>5. StillToRun(order, len) = {}
  BY <1>1 DEF StillToRun
<1> QED BY <1>3, <1>4, <1>5

\* A window that has no session may be given one.
LEMMA FreshSpec ==
  ASSUME NEW ed, Sound(ed, {}), NEW k \in Keys, ~ ed.sess[k].open, NEW b \in Bufs
  PROVE  /\ Sound(Put(ed, k, Fresh(b)), {})
         /\ Put(ed, k, Fresh(b)).nextId = ed.nextId
         /\ Put(ed, k, Fresh(b)).sess[k].open
<1> DEFINE ids == 1..ed.nextId
           next == Put(ed, k, Fresh(b))
<1>1. /\ ed \in Editors(ids) /\ Waits(ed) /\ ed.nextId \in Nat
      /\ DOMAIN ed.requests \subseteq DOMAIN ed.calls \cup {}
      /\ ed.sess \in [Keys -> Windows(ids)]
  BY DEF Sound, Editors
<1>2. Fresh(b) \in Windows(ids) /\ Fresh(b).open
  BY DEF Maps, Answers, Sessions, Fresh, Windows
<1>3. /\ next \in Editors(ids) /\ next.nextId = ed.nextId
      /\ next.calls = ed.calls /\ next.requests = ed.requests
      /\ next.sess = [ed.sess EXCEPT ![k] = Fresh(b)]
  BY <1>1, <1>2 DEF Editors, Put
<1> HIDE DEF next
<1>4. Waits(next)
  BY <1>1, <1>3 DEF Waits
<1>5. next.sess[k].open
  BY <1>1, <1>2, <1>3
<1> QED BY <1>1, <1>3, <1>4, <1>5 DEF Sound, next, ids

\* Closing a window leaves nobody waiting for it.
LEMMA CloseSpec ==
  ASSUME NEW ed, Sound(ed, {}), NEW k \in Keys, NEW next \in Editors(1..ed.nextId),
         next.nextId = ed.nextId,
         next.sess = [ed.sess EXCEPT ![k] = Closed],
         next.requests = Without(ed.requests, Moot(ed, k)),
         next.calls = Without(ed.calls, Moot(ed, k))
  PROVE  Sound(next, {})
<1> DEFINE ids == 1..ed.nextId
           moot == Moot(ed, k)
<1>1. /\ ed \in Editors(ids) /\ Waits(ed) /\ ed.nextId \in Nat
      /\ DOMAIN ed.requests \subseteq DOMAIN ed.calls \cup {}
      /\ ed.sess \in [Keys -> Windows(ids)]
  BY DEF Sound, Editors
<1>2. /\ DOMAIN next.requests = DOMAIN ed.requests \ moot
      /\ \A j \in DOMAIN ed.requests \ moot : next.requests[j] = ed.requests[j]
      /\ DOMAIN next.calls = DOMAIN ed.calls \ moot
      /\ \A j \in DOMAIN ed.calls \ moot : next.calls[j] = ed.calls[j]
  BY DEF Without
<1>3. Waits(next)
  <2>1. \A j \in DOMAIN ed.calls \ moot : ed.calls[j].key # k
    BY <1>1 DEF Waits, Moot
  <2>2. \A j \in Keys : j # k => next.sess[j] = ed.sess[j]
    BY <1>1
  <2>3. \A j \in DOMAIN ed.calls : ed.calls[j].key \in Keys
    <3>1. ed.calls \in Table(ids, Calls)
      BY <1>1 DEF Editors
    <3>2. \A j \in DOMAIN ed.calls : ed.calls[j] \in Calls
      BY <3>1, TableParts
    <3> QED BY <3>2 DEF Calls
  <2> QED BY <1>1, <1>2, <2>1, <2>2, <2>3 DEF Waits
<1> QED BY <1>1, <1>2, <1>3 DEF Sound

-----------------------------------------------------------------------------
(* The inductive invariant: the editor is sound, and nothing on the wire   *)
(* or in the daemon names a render that was never asked for.               *)

Tasks(ids) == [request : Renderings(ids), stage : {"queued", "rendering", "rendered"}]

OnTheWay(ids) ==
  /\ toDaemon \in Seq(Requests(ids))
  /\ tasks \subseteq Tasks(ids)
  /\ replies \subseteq Replies(ids)

Memory ==
  /\ remembered \in Table(Keys, Answers)
  /\ Cardinality(DOMAIN remembered) <= MaxSessions

Inv ==
  /\ Sound(Editor, {})
  /\ restart \in BOOLEAN
  /\ OnTheWay(1..nextId)
  /\ Memory

LEMMA IdsGrow ==
  ASSUME NEW ids, NEW more, ids \subseteq more
  PROVE  /\ Requests(ids) \subseteq Requests(more)
         /\ Replies(ids) \subseteq Replies(more)
         /\ Lines(ids) \subseteq Lines(more)
         /\ Tasks(ids) \subseteq Tasks(more)
         /\ Seq(Requests(ids)) \subseteq Seq(Requests(more))
         /\ Seq(Lines(ids)) \subseteq Seq(Lines(more))
<1>1. Renderings(ids) \subseteq Renderings(more)
  BY DEF Renderings
<1>2. Requests(ids) \subseteq Requests(more)
  BY <1>1 DEF Requests
<1>3. Replies(ids) \subseteq Replies(more) /\ Lines(ids) \subseteq Lines(more)
  BY DEF Replies, Lines, Results
<1>4. Tasks(ids) \subseteq Tasks(more)
  BY <1>1 DEF Tasks
<1>5. Seq(Requests(ids)) \subseteq Seq(Requests(more))
  BY <1>2, SeqMonotonic
<1>6. Seq(Lines(ids)) \subseteq Seq(Lines(more))
  BY <1>3, SeqMonotonic
<1> QED BY <1>2, <1>3, <1>4, <1>5, <1>6

\* A new daemon remembers nothing.
LEMMA BlankMemory == BlankDaemon => Memory' /\ tasks' = {} /\ replies' = {}
<1> SUFFICES ASSUME BlankDaemon PROVE Memory' /\ tasks' = {} /\ replies' = {}
  OBVIOUS
<1>1. remembered' = << >> /\ tasks' = {} /\ replies' = {}
  BY DEF BlankDaemon
<1>2. << >> \in Table(Keys, Answers) /\ DOMAIN << >> = {}
  BY EmptyTable
<1>3. Cardinality({}) = 0
  BY FS_EmptySet
<1> QED BY <1>1, <1>2, <1>3, SessionsAssumption DEF Memory

\* The end of a handler that did its part.
LEMMA FinishSpec ==
  ASSUME Inv, NEW ed, Sound(ed, {}), ed.nextId >= nextId, Finish(ed), restart' \in BOOLEAN
  PROVE  Inv'
<1> DEFINE n == ed.nextId
<1>1. /\ ed \in Editors(1..n) /\ n \in Nat /\ nextId \in Nat
      /\ ed.job \in {"none", "run", "dead"} /\ ed.greeting \in BOOLEAN
      /\ ed.inbox \in Seq(Lines(1..n)) /\ ed.mail \in Seq(Requests(1..n))
  BY DEF Sound, Editors, Inv, Editor
<1>2. /\ buf' = ed.buf /\ win' = ed.win /\ sess' = ed.sess
      /\ requests' = ed.requests /\ calls' = ed.calls /\ nextId' = n
  BY DEF Finish
<1>3. ASSUME job' \in {"none", "run", "dead"}, greeting' \in BOOLEAN, toEditor' \in Seq(Lines(1..n))
      PROVE  Sound(Editor', {})
  <2>1. Editor' \in Editors(1..n)
    BY <1>1, <1>2, <1>3 DEF Editor, Editors
  <2>2. /\ Editor'.nextId = ed.nextId /\ Editor'.requests = ed.requests
        /\ Editor'.calls = ed.calls /\ Editor'.sess = ed.sess
    BY <1>2 DEF Editor
  <2> QED BY <2>1, <2>2, SoundAlike
<1>4. << >> \in Seq(Requests(1..n)) /\ << >> \in Seq(Lines(1..n))
  OBVIOUS
<1>5. CASE ed.mail # << >> /\ ed.job # "run"
  <2>1. StartDaemon(ed.mail)
    BY <1>5 DEF Finish
  <2>2. /\ job' \in {"none", "run", "dead"} /\ greeting' \in BOOLEAN
        /\ toEditor' \in Seq(Lines(1..n))
    BY <1>4, <2>1 DEF StartDaemon
  <2>3. Sound(Editor', {})
    BY <1>3, <2>2
  <2>4. Memory' /\ tasks' = {} /\ replies' = {}
    BY <2>1, BlankMemory DEF StartDaemon
  <2>5. toDaemon' \in Seq(Requests(1..n))
    BY <1>1, <2>1, ConcatProperties DEF Requests, StartDaemon
  <2> QED BY <1>2, <2>3, <2>4, <2>5 DEF Inv, OnTheWay
<1>6. CASE ~ (ed.mail # << >> /\ ed.job # "run")
  <2>1. /\ job' = ed.job /\ greeting' = ed.greeting /\ toEditor' = ed.inbox
        /\ toDaemon' = toDaemon \o ed.mail
        /\ tasks' = tasks /\ replies' = replies /\ remembered' = remembered
    BY <1>6 DEF Finish, daemonVars
  <2>2. Sound(Editor', {})
    BY <1>1, <1>3, <2>1
  <2>3. 1..nextId \subseteq 1..n
    BY <1>1
  <2>4. OnTheWay(1..n)
    BY <2>3, IdsGrow, ZenonT(60) DEF Inv, OnTheWay
  <2>5. OnTheWay(1..nextId)'
    BY <1>1, <1>2, <2>1, <2>4, ConcatProperties DEF OnTheWay
  <2>6. Memory'
    BY <2>1 DEF Inv, Memory
  <2> QED BY <2>2, <2>5, <2>6 DEF Inv
<1> QED BY <1>5, <1>6

\* What the invariant says of each variable.
LEMMA InvParts ==
  ASSUME Inv
  PROVE  /\ buf \in [Bufs -> Texts] /\ win \in [Keys -> Widths]
         /\ sess \in [Keys -> Windows(1..nextId)]
         /\ requests \in Table(1..nextId, Keys) /\ calls \in Table(1..nextId, Calls)
         /\ nextId \in Nat /\ job \in {"none", "run", "dead"} /\ greeting \in BOOLEAN
         /\ toEditor \in Seq(Lines(1..nextId))
         /\ Editor \in Editors(1..nextId) /\ Editor.nextId = nextId /\ Editor.sess = sess
<1>1. Editor.nextId = nextId
  BY DEF Editor
<1>2. Editor \in Editors(1..nextId)
  BY <1>1 DEF Inv, Sound
<1> QED BY <1>1, <1>2 DEF Editors, Editor

LEMMA OpenIsKey ==
  ASSUME NEW k \in Open
  PROVE  k \in Keys /\ Editor.sess[k].open /\ Editor.sess[k] = sess[k]
BY DEF Open, Editor

LEMMA InvFollowing ==
  ASSUME NEW b
  PROVE  Following(b) \subseteq Open
BY DEF Following

\* An order of open windows is a sequence of them.
LEMMA InAnyOrder ==
  ASSUME NEW e, Follows(Editor, e), NEW some \in SUBSET Open, NEW order \in SetToSeqs(some)
  PROVE  order \in Seq(Keys) /\ \A i \in 1..Len(order) : e.sess[order[i]].open
<1>1. some \in SUBSET Keys
  BY DEF Open
<1>2. order \in Seq(some) /\ order \in Seq(Keys)
  BY <1>1, KeysAssumption, FS_Subset, SetToSeqsType, SeqMonotonic
<1>3. \A i \in 1..Len(order) : e.sess[order[i]].open
  BY <1>2, ElementOfSeq, OpenIsKey DEF Follows
<1> QED BY <1>2, <1>3

\* Any of the open windows may be rendered in any order.
LEMMA RenderAnyOrder ==
  ASSUME Inv, NEW e, Sound(e, {}), Follows(Editor, e),
         NEW some \in SUBSET Open, NEW order \in SetToSeqs(some)
  PROVE  /\ Sound(RenderAll(e, order), {}) /\ Follows(Editor, RenderAll(e, order))
         /\ RenderAll(e, order).nextId >= nextId
<1>1. order \in Seq(Keys) /\ \A i \in 1..Len(order) : e.sess[order[i]].open
  BY InAnyOrder
<1>2. Sound(RenderAll(e, order), {}) /\ Follows(e, RenderAll(e, order))
  BY <1>1, RenderAllSpec
<1>3. Follows(Editor, RenderAll(e, order))
  BY <1>2, FollowsOn DEF Inv
<1> QED BY <1>2, <1>3 DEF Follows, Editor

LEMMA InvOpenPreview ==
  ASSUME Inv, NEW k \in Keys, NEW b \in Bufs, OpenPreview(k, b)
  PROVE  Inv'
<1> DEFINE e == Put(Editor, k, Fresh(b))
<1>1. Finish(Render(e, k)) /\ restart' = restart /\ sess[k] = NoSession
  BY DEF OpenPreview, Put, Editor
<1>2. Sound(Editor, {}) /\ ~ Editor.sess[k].open /\ Editor.nextId = nextId /\ nextId \in Nat
  BY <1>1, InvParts DEF Inv, NoSession, Editor
<1>3. Sound(e, {}) /\ e.nextId = nextId /\ e.sess[k].open
  BY <1>2, FreshSpec
<1> HIDE DEF e
<1>4. Sound(Render(e, k), {}) /\ Follows(e, Render(e, k))
  BY <1>3, RenderSpec
<1>5. Render(e, k).nextId >= nextId
  BY <1>3, <1>4 DEF Follows
<1> QED BY <1>1, <1>4, <1>5, FinishSpec DEF Inv

LEMMA InvSwitchSource ==
  ASSUME Inv, NEW k \in Keys, NEW b \in Bufs, SwitchSource(k, b)
  PROVE  Inv'
<1> DEFINE t == [sess[k] EXCEPT !.src = b, !.map = NoMap]
           e == Put(Editor, k, t)
<1>1. Finish(Render(e, k)) /\ restart' = restart /\ k \in Open
  BY DEF SwitchSource, Put, Editor
<1>2. /\ Sound(Editor, {}) /\ Editor.nextId = nextId /\ Editor.sess = sess
      /\ sess[k] \in Windows(1..nextId) /\ Editor.sess[k].open
  BY <1>1, InvParts, OpenIsKey DEF Inv
<1>3. sess[k] \in Sessions(1..nextId)
  BY <1>2, OpenIsSession
<1>4. t \in Sessions(1..Editor.nextId) /\ t.gen = Editor.sess[k].gen /\ t.open
  BY <1>2, <1>3 DEF Sessions, Maps
<1> HIDE DEF t
<1>5. Sound(e, {}) /\ Follows(Editor, e) /\ e.sess[k] = t
  BY <1>2, <1>4, SessionUpdate
<1> HIDE DEF e
<1>6. Sound(Render(e, k), {}) /\ Follows(e, Render(e, k))
  BY <1>4, <1>5, RenderSpec
<1>7. Follows(Editor, Render(e, k))
  BY <1>2, <1>5, <1>6, FollowsOn
<1>8. Render(e, k).nextId >= nextId
  BY <1>2, <1>7 DEF Follows
<1> QED BY <1>1, <1>6, <1>8, FinishSpec DEF Inv

LEMMA InvTimerFires ==
  ASSUME Inv, NEW k \in Keys, TimerFires(k)
  PROVE  Inv'
<1>1. Finish(Render(Editor, k)) /\ restart' = restart /\ k \in Open
  BY DEF TimerFires
<1>2. Sound(Editor, {}) /\ Editor.nextId = nextId /\ Editor.sess[k].open
  BY <1>1, InvParts, OpenIsKey DEF Inv
<1>3. Sound(Render(Editor, k), {}) /\ Follows(Editor, Render(Editor, k))
  BY <1>2, RenderSpec
<1>4. Render(Editor, k).nextId >= nextId
  BY <1>2, <1>3 DEF Follows
<1> QED BY <1>1, <1>3, <1>4, FinishSpec DEF Inv

\* Texts and timers: `Edit` and `Resize` write nothing to the daemon.
LEMMA InvScreen ==
  ASSUME Inv,
         buf' \in [Bufs -> Texts], win' \in [Keys -> Widths],
         sess' \in [Keys -> Windows(1..nextId)],
         \A j \in Keys : /\ sess'[j].open = sess[j].open
                         /\ sess[j].open => sess'[j].gen = sess[j].gen,
         UNCHANGED <<requests, calls, nextId, greeting, restart,
                     job, toDaemon, toEditor, daemonVars>>
  PROVE  Inv'
<1>1. /\ Sound(Editor, {}) /\ Editor \in Editors(1..nextId) /\ Editor.nextId = nextId
      /\ Editor.sess = sess
  BY InvParts DEF Inv
<1>2. Editor' \in Editors(1..nextId)
  BY InvParts DEF Editors, Editor
<1>3. /\ Editor'.nextId = nextId /\ Editor'.requests = Editor.requests
      /\ Editor'.calls = Editor.calls /\ Editor'.sess = sess'
  BY DEF Editor
<1>4. Sound(Editor', {})
  BY <1>1, <1>2, <1>3, SoundAlike
<1> QED BY <1>4 DEF Inv, OnTheWay, Memory, daemonVars

\* A timer is armed or not, whatever else a session is.
LEMMA TimerUpdate ==
  ASSUME NEW ids, NEW w \in Windows(ids), w.open
  PROVE  LET armed == [w EXCEPT !.timer = TRUE]
         IN  armed \in Windows(ids) /\ armed.open = w.open /\ armed.gen = w.gen
<1>1. w \in Sessions(ids)
  BY OpenIsSession
<1>2. [w EXCEPT !.timer = TRUE] \in Sessions(ids)
  BY <1>1 DEF Sessions
<1> QED BY <1>1, <1>2 DEF Sessions, Windows

LEMMA InvEdit ==
  ASSUME Inv, NEW b \in Bufs, NEW doc \in Docs, Edit(b, doc)
  PROVE  Inv'
<1>1. buf \in [Bufs -> Texts] /\ sess \in [Keys -> Windows(1..nextId)] /\ win \in [Keys -> Widths]
  BY InvParts
<1>2. buf' \in [Bufs -> Texts]
  BY <1>1 DEF Texts, Edit, Changed
<1>3. sess' = [k \in Keys |-> IF k \in Following(b) THEN [sess[k] EXCEPT !.timer = TRUE]
                                                    ELSE sess[k]]
  BY DEF Edit
<1>4. ASSUME NEW j \in Keys
      PROVE  sess'[j] \in Windows(1..nextId) /\ sess'[j].open = sess[j].open
               /\ (sess[j].open => sess'[j].gen = sess[j].gen)
  BY <1>1, <1>3, TimerUpdate DEF Following, Open
<1>5. sess' \in [Keys -> Windows(1..nextId)]
  BY <1>3, <1>4
<1>6. /\ win' = win
      /\ UNCHANGED <<requests, calls, nextId, greeting, restart,
                     job, toDaemon, toEditor, daemonVars>>
  BY DEF Edit
<1> QED BY <1>1, <1>2, <1>4, <1>5, <1>6, InvScreen

LEMMA InvResize ==
  ASSUME Inv, NEW k \in Keys, NEW width \in Widths, Resize(k, width)
  PROVE  Inv'
<1>1. buf \in [Bufs -> Texts] /\ sess \in [Keys -> Windows(1..nextId)] /\ win \in [Keys -> Widths]
  BY InvParts
<1>2. win' \in [Keys -> Widths]
  BY <1>1 DEF Resize
<1>3. sess' = [j \in Keys |-> IF j \in Open /\ win'[j] # sess[j].width
                              THEN [sess[j] EXCEPT !.timer = TRUE] ELSE sess[j]]
  BY DEF Resize
<1>4. ASSUME NEW j \in Keys
      PROVE  sess'[j] \in Windows(1..nextId) /\ sess'[j].open = sess[j].open
               /\ (sess[j].open => sess'[j].gen = sess[j].gen)
  BY <1>1, <1>3, TimerUpdate DEF Open
<1>5. sess' \in [Keys -> Windows(1..nextId)]
  BY <1>3, <1>4
<1>6. /\ buf' = buf
      /\ UNCHANGED <<requests, calls, nextId, greeting, restart,
                     job, toDaemon, toEditor, daemonVars>>
  BY DEF Resize
<1> QED BY <1>1, <1>2, <1>4, <1>5, <1>6, InvScreen

LEMMA InvRefresh ==
  ASSUME Inv, NEW k \in Keys, Refresh(k)
  PROVE  Inv'
<1>1. PICK order \in SetToSeqs(Following(sess[k].src)) : Finish(RenderAll(Editor, order))
  BY DEF Refresh
<1>2. Follows(Editor, Editor)
  BY InvParts DEF Follows
<1>3. Sound(RenderAll(Editor, order), {}) /\ RenderAll(Editor, order).nextId >= nextId
  BY <1>1, <1>2, InvFollowing, RenderAnyOrder DEF Inv
<1>4. restart' = restart
  BY DEF Refresh
<1> QED BY <1>1, <1>3, <1>4, FinishSpec DEF Inv

LEMMA InvToggleTask ==
  ASSUME Inv, NEW k \in Keys, NEW doc \in Docs, ToggleTask(k, doc)
  PROVE  Inv'
<1> DEFINE b == sess[k].src
           e == [Editor EXCEPT !.buf = Changed(b, doc)]
<1>1. PICK order \in SetToSeqs(Following(b)) : Finish(RenderAll(e, order))
  BY DEF ToggleTask
<1>2. b \in Bufs
  <2>1. k \in Open /\ sess[k] \in Windows(1..nextId) /\ sess[k].open
    BY InvParts DEF ToggleTask, Open
  <2> QED BY <2>1, OpenIsSession, SessionParts
<1>3. Changed(b, doc) \in [Bufs -> Texts]
  BY <1>2, InvParts DEF Texts, Changed
<1>4. /\ e \in Editors(1..Editor.nextId)
      /\ e.nextId = Editor.nextId /\ e.requests = Editor.requests /\ e.calls = Editor.calls
      /\ e.sess = Editor.sess /\ e.job = Editor.job
  BY <1>3, InvParts DEF Editors, Editor
<1> HIDE DEF e
<1>5. Sound(e, {}) /\ Follows(Editor, e)
  BY <1>4, SoundAlike DEF Inv
<1>6. Sound(RenderAll(e, order), {}) /\ RenderAll(e, order).nextId >= nextId
  BY <1>1, <1>5, InvFollowing, RenderAnyOrder
<1>7. restart' = restart
  BY DEF ToggleTask
<1> QED BY <1>1, <1>6, <1>7, FinishSpec DEF Inv

LEMMA InvClosePreview ==
  ASSUME Inv, NEW k \in Keys, ClosePreview(k)
  PROVE  Inv'
<1> DEFINE q == Withdraw(Editor, k)
<1>1. /\ sess' = [sess EXCEPT ![k] = Closed]
      /\ requests' = q.requests /\ calls' = q.calls
      /\ toDaemon' = IF job = "run" THEN toDaemon \o q.mail \o <<Forget(k)>> ELSE toDaemon
      /\ UNCHANGED <<buf, win, nextId, greeting, restart, job, toEditor, daemonVars>>
  BY DEF ClosePreview
<1>2. /\ q \in Editors(1..nextId)
      /\ q.requests = Without(Editor.requests, Moot(Editor, k))
      /\ q.calls = Without(Editor.calls, Moot(Editor, k))
  BY InvParts, WithdrawSpec
<1> HIDE DEF q
<1>3. /\ q.requests \in Table(1..nextId, Keys) /\ q.calls \in Table(1..nextId, Calls)
      /\ q.mail \in Seq(Requests(1..nextId))
  BY <1>2 DEF Editors
<1>4. sess' \in [Keys -> Windows(1..nextId)]
  BY <1>1, InvParts DEF Windows
<1>5. Editor' \in Editors(1..nextId)
  BY <1>1, <1>3, <1>4, InvParts DEF Editors, Editor
<1>6. /\ Editor'.nextId = Editor.nextId /\ Editor.nextId = nextId
      /\ Editor'.sess = [Editor.sess EXCEPT ![k] = Closed]
      /\ Editor'.requests = Without(Editor.requests, Moot(Editor, k))
      /\ Editor'.calls = Without(Editor.calls, Moot(Editor, k))
  BY <1>1, <1>2 DEF Editor
<1>7. Sound(Editor', {})
  BY <1>5, <1>6, CloseSpec DEF Inv
<1>8. toDaemon' \in Seq(Requests(1..nextId))
  <2>1. <<Forget(k)>> \in Seq(Requests(1..nextId))
    BY DEF Requests
  <2>2. toDaemon \in Seq(Requests(1..nextId))
    BY DEF Inv, OnTheWay
  <2>3. toDaemon \o q.mail \in Seq(Requests(1..nextId))
    BY <1>3, <2>2, ConcatProperties
  <2>4. (toDaemon \o q.mail) \o <<Forget(k)>> \in Seq(Requests(1..nextId))
    BY <2>1, <2>3, ConcatProperties
  <2> QED BY <1>1, <2>2, <2>4
<1> QED BY <1>1, <1>7, <1>8 DEF Inv, OnTheWay, Memory, daemonVars

\* Reading a line leaves the editor sound and the line well formed.
LEMMA ReadingSpec ==
  ASSUME Inv, toEditor # << >>, NEW g \in BOOLEAN
  PROVE  LET e == [Reading EXCEPT !.greeting = g]
         IN  /\ Sound(e, {}) /\ Follows(Editor, e)
             /\ Sound(Reading, {}) /\ Follows(Editor, Reading)
             /\ Head(toEditor) \in Lines(1..nextId)
<1> DEFINE e == [Reading EXCEPT !.greeting = g]
<1>1. Head(toEditor) \in Lines(1..nextId) /\ Tail(toEditor) \in Seq(Lines(1..nextId))
  BY InvParts, HeadTailProperties
<1>2. /\ Sound(Editor, {}) /\ Editor.nextId = nextId
      /\ Editor \in Editors(1..nextId)
  BY InvParts DEF Inv
<1>3. /\ Reading \in Editors(1..nextId)
      /\ Reading.nextId = Editor.nextId /\ Reading.requests = Editor.requests
      /\ Reading.calls = Editor.calls /\ Reading.sess = Editor.sess
      /\ Reading.job = Editor.job
  BY <1>1, <1>2 DEF Editors, Reading
<1>4. /\ e \in Editors(1..nextId)
      /\ e.nextId = Editor.nextId /\ e.requests = Editor.requests
      /\ e.calls = Editor.calls /\ e.sess = Editor.sess /\ e.job = Editor.job
  BY <1>3 DEF Editors
<1> HIDE DEF e
<1>5. Sound(e, {}) /\ Follows(Editor, e)
  BY <1>2, <1>4, SoundAlike
<1>6. Sound(Reading, {}) /\ Follows(Editor, Reading)
  BY <1>2, <1>3, SoundAlike
<1> QED BY <1>1, <1>5, <1>6 DEF e

LEMMA InvGreeted == Inv /\ Greeted => Inv'
<1> SUFFICES ASSUME Inv, Greeted PROVE Inv'
  OBVIOUS
<1>1. toEditor # << >> /\ restart' = restart
  BY DEF Greeted
<1> DEFINE e == [Reading EXCEPT !.greeting = FALSE]
<1>2. /\ Sound(e, {}) /\ Follows(Editor, e)
      /\ Sound(Reading, {}) /\ Follows(Editor, Reading)
  BY <1>1, ReadingSpec
<1>3. (\E order \in SetToSeqs(Open) : Finish(RenderAll(e, order))) \/ Finish(Reading)
  BY DEF Greeted
<1> HIDE DEF e
<1>4. ASSUME NEW order \in SetToSeqs(Open), Finish(RenderAll(e, order)) PROVE Inv'
  BY <1>2, RenderAnyOrder, <1>1, <1>4, FinishSpec DEF Inv
<1>5. ASSUME Finish(Reading) PROVE Inv'
  BY <1>2, InvParts, <1>1, <1>5, FinishSpec DEF Follows, Inv
<1> QED BY <1>3, <1>4, <1>5

\* The callback of a call that is in the table, from any handler.
LEMMA InvCallback ==
  ASSUME Inv, NEW e, Sound(e, {}), Follows(Editor, e), NEW id \in DOMAIN calls,
         NEW reply \in Replies(Nat), Finish(OnRenderReply(e, calls[id], reply)),
         restart' = restart
  PROVE  Inv'
<1>1. calls[id] \in Calls /\ calls[id].key \in Keys
  <2>1. calls[id] \in Calls
    BY InvParts, TableParts
  <2> QED BY <2>1 DEF Calls
<1>2. Editor.sess[calls[id].key].open
  BY DEF Inv, Sound, Waits, Editor
<1>3. e.sess[calls[id].key].open
  BY <1>1, <1>2 DEF Follows
<1> DEFINE next == OnRenderReply(e, calls[id], reply)
<1>4. Sound(next, {} \ {reply.id}) /\ Follows(e, next)
  BY <1>1, <1>3, OnRenderReplySpec
<1> HIDE DEF next
<1>5. Sound(next, {}) /\ Follows(Editor, next)
  BY <1>4, FollowsOn DEF Inv
<1>6. next.nextId >= nextId
  BY <1>5, InvParts DEF Follows
<1> QED BY <1>5, <1>6, FinishSpec DEF Inv, next

LEMMA InvAnswered == Inv /\ Answered => Inv'
<1> SUFFICES ASSUME Inv, Answered PROVE Inv'
  OBVIOUS
<1> DEFINE reply == Head(toEditor)
<1>1. toEditor # << >> /\ restart' = restart /\ reply.type # "pong"
  BY DEF Answered
<1>2. Sound(Reading, {}) /\ Follows(Editor, Reading) /\ reply \in Lines(1..nextId)
  BY <1>1, ReadingSpec
<1>3. reply \in Replies(Nat)
  <2>1. reply \in Replies(1..nextId)
    BY <1>1, <1>2 DEF Lines
  <2>2. 1..nextId \subseteq Nat
    BY InvParts
  <2> QED BY <2>1, <2>2, IdsGrow
<1>4. CASE reply.id \in DOMAIN calls
  BY <1>4, <1>1, <1>2, <1>3, InvCallback DEF Answered
<1>5. CASE reply.id \notin DOMAIN calls
  BY <1>5, <1>2, InvParts, <1>1, FinishSpec DEF Answered, Follows, Inv
<1> QED BY <1>4, <1>5

\* What a session gave up is history.
LEMMA GivingUpSpec ==
  ASSUME Inv, NEW id \in DOMAIN calls
  PROVE  /\ Sound(GivingUp(Editor, id), {}) /\ Follows(Editor, GivingUp(Editor, id))
         /\ calls[id] \in Calls /\ id \in 1..nextId
<1> DEFINE k == calls[id].key
           s == sess[k]
           t == [s EXCEPT !.givenUp = s.givenUp \cup {id}]
<1>1. calls[id] \in Calls /\ k \in Keys /\ id \in 1..nextId
  <2>1. calls[id] \in Calls /\ id \in 1..nextId
    BY InvParts, TableParts
  <2> QED BY <2>1 DEF Calls
<1>2. /\ Sound(Editor, {}) /\ Editor.nextId = nextId /\ Editor.sess = sess
      /\ Editor.calls = calls
  BY InvParts DEF Inv, Editor
<1>3. s.open /\ s \in Windows(1..nextId)
  BY <1>1, <1>2, InvParts DEF Sound, Waits
<1>4. s \in Sessions(1..nextId)
  BY <1>3, OpenIsSession
<1>5. t \in Sessions(1..nextId) /\ t.gen = s.gen
  BY <1>1, <1>4, SessionParts DEF Sessions
<1>6. GivingUp(Editor, id) = Put(Editor, k, t)
  BY <1>2 DEF GivingUp, Put
<1> HIDE DEF t, k
<1>7. Sound(Put(Editor, k, t), {}) /\ Follows(Editor, Put(Editor, k, t))
  BY <1>1, <1>2, <1>3, <1>5, SessionUpdate
<1> QED BY <1>1, <1>6, <1>7

LEMMA InvTimesOut ==
  ASSUME Inv, NEW id \in DOMAIN calls, TimesOut(id)
  PROVE  Inv'
<1> DEFINE e == GivingUp(Editor, id)
<1>1. Finish(OnRenderReply(e, calls[id], Failure(id))) /\ restart' = restart
  BY DEF TimesOut
<1>2. Failure(id) \in Replies(Nat)
  BY InvParts, TableParts DEF Replies
<1>3. Sound(e, {}) /\ Follows(Editor, e)
  BY GivingUpSpec
<1> HIDE DEF e
<1> QED BY <1>1, <1>2, <1>3, InvCallback

LEMMA InvDaemonExits == Inv /\ DaemonExits => Inv'
<1> SUFFICES ASSUME Inv, DaemonExits PROVE Inv'
  OBVIOUS
<1> DEFINE e == [Editor EXCEPT !.job = "none", !.greeting = FALSE]
<1>1. PICK order \in SetToSeqs(DOMAIN calls) : Finish(ClearPending(e, order))
  BY DEF DaemonExits
<1>2. restart' = TRUE
  BY DEF DaemonExits
<1>3. /\ e \in Editors(1..Editor.nextId)
      /\ e.nextId = Editor.nextId /\ e.requests = Editor.requests /\ e.calls = Editor.calls
      /\ e.sess = Editor.sess /\ e.calls = calls
  BY InvParts DEF Editors, Editor
<1> HIDE DEF e
<1>4. Sound(e, {})
  BY <1>3, SoundAlike DEF Inv
<1>5. Sound(ClearPending(e, order), {}) /\ Follows(e, ClearPending(e, order))
  BY <1>1, <1>3, <1>4, ClearPendingSpec
<1>6. ClearPending(e, order).nextId >= nextId
  BY <1>3, <1>5, InvParts DEF Follows
<1> QED BY <1>1, <1>2, <1>5, <1>6, FinishSpec

\* What happens outside the editor's tables.
LEMMA InvPipes ==
  ASSUME Inv, UNCHANGED <<buf, win, sess, requests, calls, nextId>>,
         job' \in {"none", "run", "dead"}, greeting' \in BOOLEAN, restart' \in BOOLEAN,
         toEditor' \in Seq(Lines(1..nextId)), OnTheWay(1..nextId)', Memory'
  PROVE  Inv'
<1>1. Editor' \in Editors(1..nextId)
  BY InvParts DEF Editors, Editor
<1>2. /\ Editor'.nextId = Editor.nextId /\ Editor'.requests = Editor.requests
      /\ Editor'.calls = Editor.calls /\ Editor'.sess = Editor.sess /\ Editor.nextId = nextId
  BY DEF Editor
<1>3. Sound(Editor', {})
  BY <1>1, <1>2, SoundAlike DEF Inv
<1> QED BY <1>3 DEF Inv

LEMMA InvRestartFires == Inv /\ RestartFires => Inv'
<1> SUFFICES ASSUME Inv, RestartFires PROVE Inv'
  OBVIOUS
<1>1. UNCHANGED <<buf, win, sess, requests, calls, nextId>> /\ restart' = FALSE
  BY DEF RestartFires
<1>2. CASE job # "run"
  <2>1. StartDaemon(<< >>)
    BY <1>2 DEF RestartFires
  <2>2. Memory' /\ tasks' = {} /\ replies' = {}
    BY <2>1, BlankMemory DEF StartDaemon
  <2>3. /\ job' = "run" /\ greeting' = TRUE /\ toEditor' = << >>
        /\ toDaemon' = <<Ping>> \o << >>
    BY <2>1 DEF StartDaemon
  <2>4. toDaemon' \in Seq(Requests(1..nextId)) /\ toEditor' \in Seq(Lines(1..nextId))
    BY <2>3, ConcatProperties DEF Requests
  <2>5. OnTheWay(1..nextId)'
    BY <1>1, <2>2, <2>4 DEF OnTheWay
  <2> QED BY <1>1, <2>2, <2>3, <2>4, <2>5, InvPipes
<1>3. CASE job = "run"
  BY <1>3, <1>1, InvParts, InvPipes DEF RestartFires, Inv, OnTheWay, Memory, daemonVars
<1> QED BY <1>2, <1>3

-----------------------------------------------------------------------------
(* The daemon.                                                             *)

\* A table with a session in it has a stalest one.
LEMMA StalestSpec ==
  ASSUME NEW t \in Table(Keys, Answers), DOMAIN t # {}
  PROVE  Stalest(t) \in DOMAIN t
<1> DEFINE ages == {t[k].id : k \in DOMAIN t}
<1>1. \A k \in DOMAIN t : t[k].id \in Nat
  <2>1. \A k \in DOMAIN t : t[k] \in Answers
    BY TableParts
  <2> QED BY <2>1 DEF Answers
<1>2. PICK least \in ages : \A age \in ages : least <= age
  BY <1>1, NatLeast
<1>3. \E k \in DOMAIN t : \A j \in DOMAIN t : t[k].id <= t[j].id
  BY <1>2
<1> QED BY <1>3 DEF Stalest

\* The table takes any answer, stays bounded, and changes nothing else it keeps.
LEMMA RememberSpec ==
  ASSUME NEW t \in Table(Keys, Answers), Cardinality(DOMAIN t) <= MaxSessions,
         NEW k \in Keys, NEW entry \in Answers
  PROVE  LET next == Remember(t, k, entry)
         IN  /\ next \in Table(Keys, Answers)
             /\ Cardinality(DOMAIN next) <= MaxSessions
             /\ next[k] = entry
             /\ \A j \in DOMAIN next : j # k => j \in DOMAIN t /\ next[j] = t[j]
<1> DEFINE old == Stalest(t)
           full == Cardinality(DOMAIN t) >= MaxSessions /\ k \notin DOMAIN t
           kept == IF full THEN Without(t, {old}) ELSE t
           next == Remember(t, k, entry)
<1>1. MaxSessions \in Nat \ {0}
  BY SessionsAssumption
<1>2. IsFiniteSet(DOMAIN t) /\ Cardinality(DOMAIN t) \in Nat
  BY TableParts, KeysAssumption, FS_Subset, FS_CardinalityType
<1>3. /\ kept \in Table(Keys, Answers)
      /\ DOMAIN kept \subseteq DOMAIN t
      /\ \A j \in DOMAIN kept : kept[j] = t[j]
  BY WithoutType DEF Without
<1>4. /\ IsFiniteSet(DOMAIN kept) /\ Cardinality(DOMAIN kept) \in Nat
      /\ Cardinality(DOMAIN kept) <= MaxSessions
      /\ k \notin DOMAIN kept => Cardinality(DOMAIN kept) + 1 <= MaxSessions
  <2>1. CASE full
    <3>1. old \in DOMAIN t
      BY <1>1, <1>2, <2>1, FS_EmptySet, StalestSpec
    <3>2. DOMAIN kept = DOMAIN t \ {old}
      BY <2>1 DEF Without
    <3> HIDE DEF old, kept
    <3>3. IsFiniteSet(DOMAIN kept) /\ Cardinality(DOMAIN kept) = Cardinality(DOMAIN t) - 1
      BY <1>2, <3>1, <3>2, FS_RemoveElement
    <3>4. Cardinality(DOMAIN kept) \in Nat
      BY <3>3, FS_CardinalityType
    <3> QED BY <1>1, <1>2, <3>3, <3>4
  <2>2. CASE ~ full
    BY <1>1, <1>2, <2>2
  <2> QED BY <2>1, <2>2
<1>5. next = With(kept, k, entry)
  BY DEF Remember
<1> HIDE DEF kept, next
<1>6. /\ next \in Table(Keys, Answers)
      /\ DOMAIN next = DOMAIN kept \cup {k}
      /\ next[k] = entry
      /\ \A j \in DOMAIN kept : j # k => next[j] = kept[j]
  BY <1>3, <1>5, WithType
<1>7. Cardinality(DOMAIN next) <= MaxSessions
  BY <1>4, FS_AddElement, <1>6
<1> QED BY <1>3, <1>6, <1>7 DEF next

\* A session forgotten only makes room.
LEMMA ForgetSpec ==
  ASSUME NEW t \in Table(Keys, Answers), Cardinality(DOMAIN t) <= MaxSessions, NEW k
  PROVE  /\ Without(t, {k}) \in Table(Keys, Answers)
         /\ Cardinality(DOMAIN Without(t, {k})) <= MaxSessions
         /\ \A j \in DOMAIN Without(t, {k}) : Without(t, {k})[j] = t[j]
<1> DEFINE xs == {k}
<1> HIDE DEF xs
<1>1. /\ Without(t, xs) \in Table(Keys, Answers)
      /\ DOMAIN Without(t, xs) = DOMAIN t \ xs
      /\ \A j \in DOMAIN t \ xs : Without(t, xs)[j] = t[j]
  BY WithoutType DEF Without
<1>2. DOMAIN Without(t, xs) \in SUBSET DOMAIN t
  BY <1>1
<1>3. DOMAIN t \in SUBSET Keys
  BY TableParts
<1>4. /\ Cardinality(DOMAIN Without(t, xs)) <= Cardinality(DOMAIN t)
      /\ Cardinality(DOMAIN Without(t, xs)) \in Nat /\ Cardinality(DOMAIN t) \in Nat
  BY <1>2, <1>3, KeysAssumption, FS_Subset, FS_CardinalityType
<1>5. Cardinality(DOMAIN Without(t, xs)) <= MaxSessions
  BY <1>4, SessionsAssumption
<1> QED BY <1>1, <1>5 DEF xs

LEMMA InvReadsRequest == Inv /\ ReadsRequest => Inv'
<1> SUFFICES ASSUME Inv, ReadsRequest PROVE Inv'
  OBVIOUS
<1> DEFINE ids == 1..nextId
           request == Head(toDaemon)
<1>1. /\ toDaemon # << >> /\ toDaemon' = Tail(toDaemon)
      /\ UNCHANGED <<editorVars, job, left>>
  BY DEF ReadsRequest
<1>2. /\ UNCHANGED <<buf, win, sess, requests, calls, nextId, greeting, restart, job>>
  BY <1>1 DEF editorVars
<1>3. request \in Requests(ids) /\ toDaemon' \in Seq(Requests(ids))
  BY <1>1, HeadTailProperties DEF Inv, OnTheWay
<1>4. tasks \subseteq Tasks(ids) /\ replies \subseteq Replies(ids) /\ Memory
      /\ toEditor \in Seq(Lines(ids)) /\ restart \in BOOLEAN
  BY InvParts DEF Inv, OnTheWay
<1> HIDE DEF request
<1>5. /\ toEditor' \in Seq(Lines(ids)) /\ tasks' \subseteq Tasks(ids)
      /\ replies' \subseteq Replies(ids)
        /\ Memory'
  <2>1. CASE request.type = "ping"
    <3>1. toEditor' = Append(toEditor, [type |-> "pong"]) /\ UNCHANGED daemonVars
      BY <2>1 DEF ReadsRequest, request
    <3>2. [type |-> "pong"] \in Lines(ids)
      BY DEF Lines
    <3>3. toEditor' \in Seq(Lines(ids))
      BY <1>4, <3>1, <3>2, AppendProperties
    <3> QED BY <1>4, <3>1, <3>3 DEF daemonVars, Memory
  <2>2. CASE request.type = "cancel"
    BY <2>2, <1>4 DEF ReadsRequest, request, Memory
  <2>3. CASE request.type = "forget"
    BY <2>3, <1>4, ForgetSpec DEF ReadsRequest, request, Memory
  <2>4. CASE request.type = "render"
    BY <2>4, <1>3, <1>4 DEF ReadsRequest, request, Requests, Ping, Cancel, Forget, Memory, Tasks
  <2> QED BY <2>1, <2>2, <2>3, <2>4 DEF ReadsRequest, request
<1>6. OnTheWay(ids)'
  BY <1>2, <1>3, <1>5 DEF OnTheWay
<1> QED BY <1>2, <1>4, <1>5, <1>6, InvParts, InvPipes

\* A task's own steps leave the editor and the pipes alone.
LEMMA InvTasks ==
  ASSUME Inv, UNCHANGED <<editorVars, job, toDaemon, toEditor>>,
         tasks' \subseteq Tasks(1..nextId), replies' \subseteq Replies(1..nextId), Memory'
  PROVE  Inv'
<1>1. UNCHANGED <<buf, win, sess, requests, calls, nextId, greeting, restart,
                  job, toDaemon, toEditor>>
  BY DEF editorVars
<1>2. OnTheWay(1..nextId)'
  BY <1>1 DEF OnTheWay, Inv
<1> QED BY <1>1, <1>2, InvParts, InvPipes DEF Inv

LEMMA InvLooksForCancel ==
  ASSUME Inv, NEW task \in tasks, NEW stage \in {"rendering", "rendered"},
         LooksForCancel(task, stage)
  PROVE  Inv'
<1>1. /\ tasks' \subseteq tasks \cup {[task EXCEPT !.stage = stage]}
      /\ UNCHANGED <<editorVars, job, toDaemon, toEditor, remembered, replies>>
  BY DEF LooksForCancel
<1>2. /\ task \in Tasks(1..nextId) /\ tasks \subseteq Tasks(1..nextId)
      /\ replies \subseteq Replies(1..nextId)
        /\ Memory
  BY DEF Inv, OnTheWay
<1>3. [task EXCEPT !.stage = stage] \in Tasks(1..nextId)
  BY <1>2 DEF Tasks
<1>4. Memory' /\ tasks' \subseteq Tasks(1..nextId) /\ replies' \subseteq Replies(1..nextId)
  BY <1>1, <1>2, <1>3 DEF Memory
<1> QED BY <1>1, <1>4, InvTasks

LEMMA InvPanics ==
  ASSUME Inv, NEW task \in tasks, Panics(task)
  PROVE  Inv'
<1>1. /\ tasks' \subseteq tasks /\ replies' = replies \cup {Failure(task.request.id)}
      /\ UNCHANGED <<editorVars, job, toDaemon, toEditor, remembered>>
  BY DEF Panics
<1>2. /\ task \in Tasks(1..nextId) /\ tasks \subseteq Tasks(1..nextId)
      /\ replies \subseteq Replies(1..nextId)
        /\ Memory
  BY DEF Inv, OnTheWay
<1>3. Failure(task.request.id) \in Replies(1..nextId)
  BY <1>2 DEF Tasks, Renderings, Replies
<1>4. Memory' /\ tasks' \subseteq Tasks(1..nextId) /\ replies' \subseteq Replies(1..nextId)
  BY <1>1, <1>2, <1>3 DEF Memory
<1> QED BY <1>1, <1>4, InvTasks

LEMMA InvSends ==
  ASSUME Inv, NEW reply \in replies, Sends(reply)
  PROVE  Inv'
<1>1. /\ UNCHANGED <<buf, win, sess, requests, calls, nextId, greeting, restart, job>>
      /\ UNCHANGED <<toDaemon, remembered, tasks>>
      /\ replies' \subseteq replies /\ toEditor' = Append(toEditor, reply)
  BY DEF Sends, editorVars
<1>2. reply \in Lines(1..nextId)
  BY DEF Inv, OnTheWay, Lines
<1>3. toEditor' \in Seq(Lines(1..nextId))
  BY <1>1, <1>2, InvParts, AppendProperties
<1>4. OnTheWay(1..nextId)' /\ Memory'
  BY <1>1 DEF Inv, OnTheWay, Memory
<1> QED BY <1>1, <1>3, <1>4, InvParts, InvPipes DEF Inv

LEMMA InvCrashes == Inv /\ Crashes => Inv'
<1> SUFFICES ASSUME Inv, Crashes PROVE Inv'
  OBVIOUS
<1>1. /\ UNCHANGED <<buf, win, sess, requests, calls, nextId, greeting, restart>>
      /\ job' = "dead" /\ toDaemon' = << >>
  BY DEF Crashes, editorVars
<1>2. Memory' /\ tasks' = {} /\ replies' = {}
  BY BlankMemory DEF Crashes
<1>3. toEditor' \in Seq(Lines(1..nextId))
  BY InvParts, LenProperties, ElementOfSeq, SubSeqProperties DEF Crashes
<1>4. OnTheWay(1..nextId)'
  BY <1>1, <1>2 DEF OnTheWay
<1> QED BY <1>1, <1>2, <1>3, <1>4, InvParts, InvPipes DEF Inv

\* What the daemon makes of a request, what it keeps of it, and what it answers
\* given what it kept before.
Laid(request) == Layout(request.doc, LaidOutAt(request.width))

Indexed(request) == Index(request.doc, LaidOutAt(request.width))

Entry(request) == [id |-> request.id, rows |-> Laid(request), index |-> Indexed(request)]

Known(request) == request.incremental /\ request.key \in DOMAIN remembered

Before(request) ==
  IF Known(request) THEN remembered[request.key] ELSE [id |-> 0, rows |-> << >>, index |-> 0]

AnswerTo(request) ==
  LET before == Before(request)
      patch  == Diff(before.rows, Laid(request))
  IN  [type |-> "render_result", id |-> request.id, width |-> LaidOutAt(request.width),
       whole |-> ~ Known(request) \/ ~ WorthSending(patch, Laid(request)), patch |-> patch,
       rows |-> Laid(request), carries |-> before.index # Indexed(request),
       index |-> Indexed(request), base |-> before.id]

LEMMA RequestParts ==
  ASSUME Inv, NEW task \in tasks
  PROVE  LET request == task.request
         IN  /\ request \in Renderings(1..nextId) /\ request.key \in Keys
             /\ request.id \in 1..nextId /\ request.id \in Nat
             /\ Laid(request) \in Seq(Row) /\ Indexed(request) \in Nat \ {0}
             /\ LaidOutAt(request.width) \in Nat /\ Before(request) \in Answers
<1> DEFINE request == task.request
           width   == LaidOutAt(request.width)
<1>1. tasks \subseteq Tasks(1..nextId) /\ remembered \in Table(Keys, Answers) /\ nextId \in Nat
  BY InvParts DEF Inv, OnTheWay, Memory
<1>2. request \in Renderings(1..nextId)
  BY <1>1 DEF Tasks
<1> HIDE DEF request
<1>3. /\ request.id \in 1..nextId /\ request.key \in Keys /\ request.doc \in Docs
      /\ request.width \in Widths
  BY <1>2 DEF Renderings
<1>4. width \in Widths \cup {Narrowest} /\ width \in Nat
  BY <1>3, LayoutAssumption DEF LaidOutAt
<1> HIDE DEF width
<1>5. Layout(request.doc, width) \in Seq(Row) /\ Index(request.doc, width) \in Nat \ {0}
  BY <1>3, <1>4, LayoutAssumption
<1>6. Before(request) \in Answers
  <2>1. Known(request) => remembered[request.key] \in Answers
    BY <1>1, TableParts DEF Known
  <2>2. [id |-> 0, rows |-> << >>, index |-> 0] \in Answers
    BY DEF Answers
  <2> QED BY <2>1, <2>2 DEF Before
<1> QED BY <1>1, <1>2, <1>3, <1>4, <1>5, <1>6 DEF request, width, Laid, Indexed

LEMMA CommitsSpec ==
  ASSUME Inv, NEW task \in tasks, Commits(task)
  PROVE  LET request == task.request
             k       == request.key
         IN  /\ tasks' = tasks \ {task}
             /\ Entry(request) \in Answers /\ AnswerTo(request) \in Replies(1..nextId)
             /\ \/ UNCHANGED <<remembered, replies>>
                \/ /\ ~ Overtaken(k, request.id)
                   /\ remembered' = Remember(remembered, k, Entry(request))
                   /\ replies' = replies \cup {AnswerTo(request)}
<1> DEFINE request == task.request
           k       == request.key
           rows    == Laid(request)
           index   == Indexed(request)
           before  == Before(request)
           patch   == Diff(before.rows, rows)
           known   == Known(request)
           width   == LaidOutAt(request.width)
<1>1. /\ request.id \in 1..nextId /\ request.id \in Nat /\ rows \in Seq(Row)
      /\ index \in Nat /\ width \in Nat /\ before \in Answers
  BY RequestParts
<1>2. before.rows \in Seq(Row) /\ before.id \in Nat
  BY <1>1 DEF Answers
<1>3. /\ tasks' = tasks \ {task}
      /\ IF Overtaken(k, request.id)
         THEN UNCHANGED <<remembered, replies>>
         ELSE /\ remembered' = Remember(remembered, k, Entry(request))
              /\ replies' = replies \cup {AnswerTo(request)}
  BY DEF Commits, Entry, AnswerTo, Laid, Indexed, Before, Known
<1> HIDE DEF rows, index, before, known, width, request
<1>4. patch \in Patches
  BY <1>1, <1>2, DiffType
<1>5. Entry(request) \in Answers
  BY <1>1 DEF Entry, Answers, rows, index
<1>6. AnswerTo(request) \in Replies(1..nextId)
  BY <1>1, <1>2, <1>4 DEF AnswerTo, rows, index, before, known, width, Results, Replies
<1> QED BY <1>3, <1>5, <1>6 DEF request

LEMMA InvCommits ==
  ASSUME Inv, NEW task \in tasks, Commits(task)
  PROVE  Inv'
<1> DEFINE request == task.request
           k == request.key
<1>1. /\ tasks' = tasks \ {task} /\ k \in Keys
      /\ Entry(request) \in Answers /\ AnswerTo(request) \in Replies(1..nextId)
      /\ \/ UNCHANGED <<remembered, replies>>
         \/ /\ remembered' = Remember(remembered, k, Entry(request))
            /\ replies' = replies \cup {AnswerTo(request)}
  BY CommitsSpec, RequestParts
<1>2. Memory' /\ replies' \subseteq Replies(1..nextId)
  BY <1>1, RememberSpec DEF Inv, Memory, OnTheWay
<1>3. UNCHANGED <<editorVars, job, toDaemon, toEditor>>
  BY DEF Commits
<1> QED BY <1>1, <1>2, <1>3, InvTasks DEF Inv, OnTheWay

-----------------------------------------------------------------------------
(* The theorems.                                                           *)

LEMMA InvInit == Init => Inv
<1> SUFFICES ASSUME Init PROVE Inv
  OBVIOUS
<1>1. /\ buf \in [Bufs -> Texts] /\ win \in [Keys -> Widths]
      /\ sess = [k \in Keys |-> NoSession]
      /\ requests = << >> /\ calls = << >> /\ nextId = 0
      /\ job \in {"none", "run", "dead"} /\ greeting = FALSE /\ restart = FALSE
      /\ toDaemon = << >> /\ toEditor = << >> /\ remembered = << >>
      /\ tasks = {} /\ replies = {}
  BY ScenariosAssumption DEF Init, Texts
<1>2. /\ DOMAIN << >> = {}
      /\ << >> \in Table(1..0, Keys) /\ << >> \in Table(1..0, Calls)
      /\ << >> \in Table(Keys, Answers)
  BY EmptyTable
<1>3. NoSession \in Windows(1..0)
  BY DEF Windows
<1>4. Editor \in Editors(1..0) /\ Editor.nextId = 0
      /\ Editor.requests = << >> /\ Editor.calls = << >>
  <2>1. /\ sess \in [Keys -> Windows(1..0)]
        /\ nextId \in Nat /\ job \in {"none", "run", "dead"} /\ greeting \in BOOLEAN
    BY <1>1, <1>3
  <2>2. toEditor \in Seq(Lines(1..0)) /\ << >> \in Seq(Requests(1..0))
    BY <1>1
  <2>3. requests \in Table(1..0, Keys) /\ calls \in Table(1..0, Calls)
    BY <1>1, <1>2
  <2>4. Editor \in Editors(1..0)
    BY <1>1, <2>1, <2>2, <2>3 DEF Editors, Editor
  <2> QED BY <1>1, <2>4 DEF Editor
<1>5. Sound(Editor, {})
  BY <1>2, <1>4 DEF Sound, Waits
<1>6. OnTheWay(1..nextId)
  BY <1>1 DEF OnTheWay
<1>7. Memory
  BY <1>1, <1>2, FS_EmptySet, SessionsAssumption DEF Memory
<1> QED BY <1>1, <1>5, <1>6, <1>7 DEF Inv

LEMMA InvNext == Inv /\ [Next]_vars => Inv'
<1> SUFFICES ASSUME Inv, [Next]_vars PROVE Inv'
  OBVIOUS
<1>1. CASE User
  BY <1>1, InvOpenPreview, InvSwitchSource, InvEdit, InvResize, InvToggleTask, InvRefresh,
     InvClosePreview DEF User
<1>2. CASE Timers
  BY <1>2, InvTimerFires, InvRestartFires DEF Timers
<1>3. CASE Callbacks
  BY <1>3, InvGreeted, InvAnswered, InvDaemonExits DEF Callbacks
<1>4. CASE Daemon
  BY InvLooksForCancel, <1>4, InvReadsRequest, InvPanics, InvCommits, InvSends DEF PicksUp,
     Renders, Daemon, Task
<1>5. CASE Faults
  BY <1>5, InvCrashes, InvTimesOut DEF Faults
<1>6. CASE UNCHANGED vars
  BY <1>6, InvScreen, InvParts DEF vars, editorVars
<1> QED BY <1>1, <1>2, <1>3, <1>4, <1>5, <1>6 DEF Next

-----------------------------------------------------------------------------
(* Type correctness.                                                       *)

LEMMA InvSessionOK ==
  ASSUME Inv, NEW k \in Keys
  PROVE  SessionOK(k)
<1> DEFINE w == sess[k]
<1>1. w \in Windows(1..nextId)
  BY InvParts
<1>2. CASE w \in {NoSession, Closed}
  BY <1>2 DEF SessionOK
<1>3. CASE w \in Sessions(1..nextId)
  <2> HIDE DEF w
  <2>1. /\ w.open /\ w.src \in Bufs
        /\ w.timer \in BOOLEAN /\ w.rendered \in BOOLEAN /\ w.astray \in BOOLEAN
        /\ w.width \in Widths \cup {0} /\ w.index \in Nat /\ w.gen \in Nat
        /\ w.givenUp \subseteq 1..nextId
        /\ w.held \in Seq(ScreenRow) /\ w.shown \in Answers /\ w.map \in Maps
    BY <1>3 DEF Sessions
  <2>2. w.shown.id \in Nat /\ w.shown.rows \in Seq(Row)
    BY <2>1 DEF Answers
  <2>3. \A i \in 1..Len(w.held) : w.held[i].look \in Looks /\ w.held[i].src \in Int
    <3>1. \A i \in 1..Len(w.held) : w.held[i] \in ScreenRow
      BY <2>1, ElementOfSeq
    <3> QED BY <3>1 DEF ScreenRow
  <2>4. \A i \in 1..Len(w.shown.rows) :
          w.shown.rows[i].look \in Looks /\ w.shown.rows[i].src \in Int
    <3>1. \A i \in 1..Len(w.shown.rows) : w.shown.rows[i] \in Row
      BY <2>2, ElementOfSeq
    <3> QED BY <3>1 DEF Row
  <2>5. w.map = NoMap \/ (w.map.buf \in Bufs /\ w.map.tick \in Nat)
    BY <2>1 DEF Maps
  <2> QED BY <2>1, <2>2, <2>3, <2>4, <2>5 DEF SessionOK, Ids, w
<1> QED BY <1>1, <1>2, <1>3 DEF Windows

LEMMA InvTypeOK == Inv => TypeOK
<1> SUFFICES ASSUME Inv PROVE TypeOK
  OBVIOUS
<1>1. \A b \in Bufs : buf[b].doc \in Docs /\ buf[b].tick \in Nat
  BY InvParts DEF Texts
<1>2. DOMAIN requests \subseteq Ids /\ DOMAIN calls \subseteq Ids
  BY InvParts, TableParts DEF Ids
<1>3. DOMAIN remembered \subseteq Keys
  BY TableParts DEF Inv, Memory
<1>4. \A task \in tasks : task.request.id \in Ids
  BY DEF Inv, OnTheWay, Tasks, Renderings, Ids
<1>5. \A reply \in replies : reply.id \in Ids
  BY DEF Inv, OnTheWay, Replies, Failure, Results, Ids
<1>6. {greeting, restart} \subseteq BOOLEAN
  BY InvParts DEF Inv
<1> QED BY <1>1, <1>2, <1>3, <1>4, <1>5, <1>6, InvParts, InvSessionOK DEF TypeOK

\* Every variable holds what the code declares, however many windows, buffers,
\* documents and widths there are and whatever the renderer makes of them.
THEOREM RenderTypeOK == Spec => []TypeOK
BY InvInit, InvNext, InvTypeOK, PTL DEF Spec

-----------------------------------------------------------------------------
(* The two tables agree.                                                   *)

LEMMA InvNewestOnly == Inv => NewestOnly
<1> SUFFICES ASSUME Inv PROVE NewestOnly
  OBVIOUS
<1>1. /\ Waits(Editor) /\ DOMAIN Editor.requests \subseteq DOMAIN Editor.calls
      /\ Editor.requests = requests /\ Editor.calls = calls /\ Editor.sess = sess
  BY DEF Inv, Sound, Editor
<1>2. DOMAIN requests = DOMAIN calls
  BY <1>1 DEF Waits
<1>3. ASSUME NEW id \in DOMAIN calls
      PROVE  /\ requests[id] = calls[id].key /\ calls[id].key \in Open
             /\ calls[id].gen = sess[calls[id].key].gen
             /\ Cardinality(Moot(Editor, calls[id].key)) = 1
  <2>1. calls[id].key \in Keys
    <3>1. calls[id] \in Calls
      BY InvParts, TableParts
    <3> QED BY <3>1 DEF Calls
  <2>2. /\ requests[id] = calls[id].key /\ sess[calls[id].key].open
        /\ calls[id].gen = sess[calls[id].key].gen
    BY <1>1 DEF Waits
  <2>3. Moot(Editor, calls[id].key) = {id}
    BY <1>1, <1>2, <2>2 DEF Waits, Moot
  <2>4. Cardinality({id}) = 1
    BY FS_Singleton
  <2> QED BY <2>1, <2>2, <2>3, <2>4 DEF Open
<1> QED BY <1>2, <1>3 DEF NewestOnly

\* The plugin's table and the supervisor's never drift apart: an open session
\* waits for at most one render, the newest it asked for, and a closed one for
\* none, whatever was typed, resized, answered, refused, timed out or crashed.
THEOREM RenderNewestOnly == Spec => []NewestOnly
BY InvInit, InvNext, InvNewestOnly, PTL DEF Spec

-----------------------------------------------------------------------------
(* The daemon's memory.                                                    *)

\* However many windows come and go, with or without a word, the daemon never
\* remembers more than MaxSessions of them.
THEOREM RenderSessionsBounded == Spec => []SessionsBounded
<1>1. Inv => SessionsBounded
  BY DEF Inv, Memory, SessionsBounded
<1> QED BY <1>1, InvInit, InvNext, PTL DEF Spec

\* What a step may do to what the daemon remembers of a session.
Onwards ==
  \A k \in DOMAIN remembered \cap DOMAIN remembered' : remembered[k].id <= remembered'[k].id

LEMMA AgesAreNumbers ==
  ASSUME Inv
  PROVE  \A k \in DOMAIN remembered : remembered[k].id \in Nat
<1>1. \A k \in DOMAIN remembered : remembered[k] \in Answers
  BY TableParts DEF Inv, Memory
<1> QED BY <1>1 DEF Answers

LEMMA SameMemory ==
  ASSUME Inv, remembered' = remembered
  PROVE  Onwards
<1>1. \A k \in DOMAIN remembered : remembered[k].id \in Nat
  BY AgesAreNumbers
<1> QED BY <1>1 DEF Onwards

LEMMA NoMemory == BlankDaemon => Onwards
<1>1. DOMAIN << >> = {}
  BY EmptyTable
<1> QED BY <1>1 DEF BlankDaemon, Onwards

LEMMA FinishOnwards ==
  ASSUME Inv, NEW ed, Finish(ed)
  PROVE  Onwards
BY SameMemory, NoMemory DEF Finish, StartDaemon, daemonVars

\* An answer is refused its place when a later one already has it.
LEMMA CommitsOnwards ==
  ASSUME Inv, NEW task \in tasks, Commits(task)
  PROVE  Onwards
<1> DEFINE request == task.request
           k == request.key
           id == request.id
           entry == Entry(request)
<1>1. /\ k \in Keys /\ id \in Nat /\ entry \in Answers /\ entry.id = id
      /\ \/ remembered' = remembered
         \/ ~ Overtaken(k, id) /\ remembered' = Remember(remembered, k, entry)
  BY CommitsSpec, RequestParts DEF Entry
<1> HIDE DEF entry, k, id
<1>2. CASE remembered' = remembered
  BY <1>2, SameMemory
<1>3. CASE ~ Overtaken(k, id) /\ remembered' = Remember(remembered, k, entry)
  BY <1>1, <1>3, RememberSpec, AgesAreNumbers DEF Inv, Memory, Overtaken, Onwards
<1> QED BY <1>1, <1>2, <1>3

LEMMA ReadsRequestOnwards ==
  ASSUME Inv, ReadsRequest
  PROVE  Onwards
<1>1. CASE remembered' = remembered
  BY <1>1, SameMemory
<1>2. ASSUME NEW k, remembered' = Without(remembered, {k}) PROVE Onwards
  BY AgesAreNumbers, <1>2 DEF Onwards, Without
<1> QED BY <1>1, <1>2 DEF ReadsRequest, daemonVars

LEMMA NextOnwards == Inv /\ [Next]_vars => Onwards
<1> SUFFICES ASSUME Inv, [Next]_vars PROVE Onwards
  OBVIOUS
<1>1. CASE User
  <2>1. ASSUME NEW k \in Keys, NEW b \in Bufs, OpenPreview(k, b) \/ SwitchSource(k, b) PROVE Onwards
    BY <2>1, FinishOnwards DEF OpenPreview, SwitchSource
  <2>2. ASSUME NEW b \in Bufs, NEW doc \in Docs, Edit(b, doc) PROVE Onwards
    BY <2>2, SameMemory DEF Edit, daemonVars
  <2>3. ASSUME NEW k \in Keys, NEW width \in Widths, Resize(k, width) PROVE Onwards
    BY <2>3, SameMemory DEF Resize, daemonVars
  <2>4. ASSUME NEW k \in Keys, NEW doc \in Docs, ToggleTask(k, doc) PROVE Onwards
    BY <2>4, FinishOnwards DEF ToggleTask
  <2>5. ASSUME NEW k \in Keys, Refresh(k) PROVE Onwards
    BY <2>5, FinishOnwards DEF Refresh
  <2>6. ASSUME NEW k \in Keys, ClosePreview(k) PROVE Onwards
    BY <2>6, SameMemory DEF ClosePreview, daemonVars
  <2> QED BY <1>1, <2>1, <2>2, <2>3, <2>4, <2>5, <2>6 DEF User
<1>2. CASE Timers
  BY FinishOnwards, SameMemory, NoMemory, <1>2 DEF TimerFires, RestartFires, StartDaemon,
     daemonVars, Timers
<1>3. CASE Callbacks
  BY FinishOnwards, <1>3 DEF Greeted, Answered, DaemonExits, Callbacks
<1>4. CASE Daemon
  BY SameMemory, CommitsOnwards, <1>4, ReadsRequestOnwards DEF Task, PicksUp, Renders,
     LooksForCancel, Panics, Sends, Daemon
<1>5. CASE Faults
  BY NoMemory, FinishOnwards, <1>5 DEF Crashes, TimesOut, Faults
<1>6. CASE UNCHANGED vars
  BY <1>6, SameMemory DEF vars, daemonVars
<1> QED BY <1>1, <1>2, <1>3, <1>4, <1>5, <1>6 DEF Next

\* However renders overtake one another in the daemon, what it takes a session to
\* hold is only ever replaced by a later asking of that session.
THEOREM RenderNeverGoesBack == Spec => NeverGoesBack
<1>1. Inv /\ [Next]_vars =>
        [\A k \in DOMAIN remembered \cap DOMAIN remembered' :
           remembered[k].id <= remembered'[k].id]_vars
  BY NextOnwards DEF Onwards
<1> QED BY <1>1, InvInit, InvNext, PTL DEF Spec, NeverGoesBack

-----------------------------------------------------------------------------
(***************************************************************************)
(* What is on screen, for any windows, buffers, texts, widths and          *)
(* renderers: RenderProtocol's ShowsItsLastAnswer and TaskHitsItsLine.     *)
(*                                                                         *)
(* A patch is right on the rows it was made against and on no others, so   *)
(* the proof follows every render from the asking to the screen. The       *)
(* daemon makes an answer against what it remembers of the session; what   *)
(* it remembers is what the session shows, or what it is about to show, or *)
(* a render the session gave up; and a render is in one place at a time,   *)
(* so the answer that is being waited for is the only one that can be put  *)
(* on screen. That is the invariant, Screen, about an editor and the       *)
(* daemon it talks to: an editor in the middle of a handler has it too,    *)
(* except that the session whose callback is running (`out`) has yet to    *)
(* catch up with the daemon.                                               *)
(***************************************************************************)

(* The daemon and the pipes, as a handler of the editor finds them.        *)

World == [pipe |-> toDaemon, tasks |-> tasks, replies |-> replies, memory |-> remembered]

\* The renders in a sequence of requests.
RendersIn(seq) == {seq[i] : i \in {j \in 1..Len(seq) : seq[j].type = "render"}}

\* No render is in it twice.
NoneTwice(seq) ==
  \A i, j \in 1..Len(seq) :
    seq[i].type = "render" /\ seq[j].type = "render" /\ seq[i].id = seq[j].id => i = j

Pipe(w, ed) == w.pipe \o ed.mail

\* The renders the daemon has not answered yet.
UnderWay(w, ed) == RendersIn(Pipe(w, ed)) \cup {task.request : task \in w.tasks}

\* The answers the editor has not read yet.
Given(w, ed) ==
  w.replies \cup {ed.inbox[i] : i \in {j \in 1..Len(ed.inbox) : ed.inbox[j].type # "pong"}}

Typed(w, ids) ==
  /\ w.pipe \in Seq(Requests(ids))
  /\ w.tasks \subseteq Tasks(ids)
  /\ w.replies \subseteq Replies(ids)
  /\ w.memory \in Table(Keys, Answers)

\* A render that is under way is in one place, and nothing has come of it.
OnePlace(w, ed) ==
  /\ NoneTwice(Pipe(w, ed))
  /\ \A t, u \in w.tasks : t.request.id = u.request.id => t = u
  /\ \A r \in RendersIn(Pipe(w, ed)), t \in w.tasks : r.id # t.request.id

Unanswered(w, ed) ==
  /\ \A r \in UnderWay(w, ed) :
       /\ \A a \in Given(w, ed) : a.id # r.id
       /\ \A k \in DOMAIN w.memory : w.memory[k].id # r.id
       /\ \A k \in Keys : ed.sess[k].open => ed.sess[k].shown.id # r.id
  /\ \A k \in DOMAIN w.memory : w.memory[k].id \in 1..ed.nextId
  /\ \A k \in Keys : ed.sess[k].open => ed.sess[k].shown.id \in 0..ed.nextId

\* What a call that is being waited for asked for.
AsAsked(ed, r) ==
  r.id \in DOMAIN ed.calls =>
    LET call == ed.calls[r.id]
        s    == ed.sess[call.key]
    IN  /\ call.key = r.key
        /\ r.incremental => s.rendered
        /\ r.width = s.width
        /\ call.tick = ed.buf[call.buf].tick => r.doc = ed.buf[call.buf].doc

\* A session waits for what is under way for it, or has given it up.
Wanted(ed, r) ==
  /\ ed.sess[r.key] # NoSession
  /\ ed.sess[r.key].open => r.id \in ed.sess[r.key].givenUp \cup DOMAIN ed.calls

\* Two accounts of what the daemon rendered under an id.
Alike(a, b) == a.id = b.id /\ a.rows = b.rows /\ a.index = b.index

\* An answer that is good for the session that waits for it.
Fits(w, ed, call, a) ==
  LET k == call.key
      s == ed.sess[k]
  IN  /\ a.whole \/ WorthSending(a.patch, a.rows)
      /\ a.base = 0 => a.whole /\ a.carries
      /\ a.base > 0 =>
           /\ s.rendered
           /\ \/ a.base \in s.givenUp
              \/ /\ a.base = s.shown.id
                 /\ a.patch = Diff(s.shown.rows, a.rows)
                 /\ a.carries <=> s.shown.index # a.index
      /\ k \in DOMAIN w.memory => w.memory[k].id \in s.givenUp \/ Alike(w.memory[k], a)
      /\ call.tick = ed.buf[call.buf].tick =>
           a.rows = Layout(ed.buf[call.buf].doc, LaidOutAt(s.width))

\* A session that may be sent a patch: the daemon is not ahead of it by an answer
\* it will not read, and it shows what it was sent.
InStep(w, ed, k) ==
  LET s == ed.sess[k]
  IN  s.rendered =>
        /\ k \in DOMAIN w.memory =>
             LET m == w.memory[k]
             IN  \/ m.id \in s.givenUp
                 \/ m.id \in DOMAIN ed.calls /\ ed.calls[m.id].key = k
                 \/ Alike(m, s.shown)
        /\ ~ s.astray => s.held = s.shown.rows /\ s.index = s.shown.index

\* The map a session has is of the text and the width it says.
MapIsRight(ed, k) ==
  LET s == ed.sess[k]
      m == s.map
      b == ed.buf[m.buf]
  IN  m # NoMap =>
        /\ m.gen <= s.gen
        /\ m.tick <= b.tick
        /\ m.tick = b.tick /\ m.gen = s.gen =>
             s.shown.rows = Layout(b.doc, LaidOutAt(s.width))

Ticks(ed) == \A id \in DOMAIN ed.calls : ed.calls[id].tick <= ed.buf[ed.calls[id].buf].tick

Screen(w, ed, out) ==
  /\ Typed(w, 1..ed.nextId)
  /\ OnePlace(w, ed)
  /\ Unanswered(w, ed)
  /\ \A r \in UnderWay(w, ed) : AsAsked(ed, r) /\ Wanted(ed, r)
  /\ \A a \in Given(w, ed) :
       a.type = "render_result" /\ a.id \in DOMAIN ed.calls => Fits(w, ed, ed.calls[a.id], a)
  /\ \A k \in Keys : ed.sess[k].open => MapIsRight(ed, k)
  /\ \A k \in Keys \ out : ed.sess[k].open => InStep(w, ed, k)
  /\ Ticks(ed)

\* With no process there is nobody to have read or remembered anything.
NobodyThere ==
  job # "run" => toDaemon = << >> /\ tasks = {} /\ replies = {} /\ DOMAIN remembered = {}

ScreenInv == Inv /\ Screen(World, Editor, {}) /\ NobodyThere

-----------------------------------------------------------------------------
(* What travels.                                                           *)

\* What is put after a sequence adds its renders to it.
LEMMA RendersJoin ==
  ASSUME NEW X, NEW s \in Seq(X), NEW t \in Seq(X)
  PROVE  /\ RendersIn(s \o t) = RendersIn(s) \cup RendersIn(t)
         /\ NoneTwice(s \o t) => NoneTwice(s) /\ NoneTwice(t)
         /\ NoneTwice(s) /\ NoneTwice(t)
              /\ (\A a \in RendersIn(s), b \in RendersIn(t) : a.id # b.id) => NoneTwice(s \o t)
<1> DEFINE m == Len(s)
           n == Len(t)
           u == s \o t
<1>1. /\ m \in Nat /\ n \in Nat /\ Len(u) = m + n
      /\ \A i \in 1..(m + n) : u[i] = IF i <= m THEN s[i] ELSE t[i - m]
  BY LenProperties, ConcatProperties
<1> HIDE DEF m, n, u
<1>2. /\ \A i \in 1..m : i \in 1..Len(u) /\ u[i] = s[i]
      /\ \A i \in 1..n : m + i \in 1..Len(u) /\ u[m + i] = t[i]
  BY <1>1
<1>3. \A i \in 1..Len(u) : \/ i \in 1..m /\ u[i] = s[i]
                           \/ i - m \in 1..n /\ u[i] = t[i - m]
  BY <1>1
<1>4. RendersIn(u) = RendersIn(s) \cup RendersIn(t)
  <2>1. RendersIn(s) \subseteq RendersIn(u) /\ RendersIn(t) \subseteq RendersIn(u)
    BY <1>2 DEF RendersIn, m, n
  <2>2. RendersIn(u) \subseteq RendersIn(s) \cup RendersIn(t)
    BY <1>3 DEF RendersIn, m, n
  <2> QED BY <2>1, <2>2
<1>5. ASSUME NoneTwice(u) PROVE NoneTwice(s) /\ NoneTwice(t)
  <2>1. NoneTwice(s)
    BY <1>2, <1>5 DEF NoneTwice, m
  <2>2. NoneTwice(t)
    <3> SUFFICES ASSUME NEW i \in 1..n, NEW j \in 1..n,
                        t[i].type = "render", t[j].type = "render", t[i].id = t[j].id
                 PROVE  i = j
      BY DEF NoneTwice, n
    <3>1. m + i = m + j
      BY <1>2, <1>5 DEF NoneTwice
    <3> QED BY <1>1, <3>1
  <2> QED BY <2>1, <2>2
<1>6. ASSUME NoneTwice(s), NoneTwice(t), \A a \in RendersIn(s), b \in RendersIn(t) : a.id # b.id
      PROVE  NoneTwice(u)
  <2> SUFFICES ASSUME NEW i \in 1..Len(u), NEW j \in 1..Len(u),
                      u[i].type = "render", u[j].type = "render", u[i].id = u[j].id
               PROVE  i = j
    BY DEF NoneTwice
  <2>1. CASE i \in 1..m /\ j \in 1..m
    BY <1>2, <1>6, <2>1 DEF NoneTwice, m
  <2>2. CASE i - m \in 1..n /\ u[i] = t[i - m] /\ j - m \in 1..n /\ u[j] = t[j - m]
    <3>1. i - m = j - m
      BY <1>6, <2>2 DEF NoneTwice, n
    <3> QED BY <1>1, <3>1
  <2>3. ASSUME NEW a \in 1..m, NEW b \in 1..n, s[a].type = "render", t[b].type = "render"
        PROVE  s[a].id # t[b].id
    BY <2>3, <1>6 DEF RendersIn, m, n
  <2> QED BY <1>3, <2>1, <2>2, <2>3
<1> QED BY <1>4, <1>5, <1>6 DEF u

\* A sequence without renders.
LEMMA NoRenders ==
  ASSUME NEW seq, \A i \in 1..Len(seq) : seq[i].type # "render"
  PROVE  RendersIn(seq) = {} /\ NoneTwice(seq)
BY DEF RendersIn, NoneTwice

\* One request.
LEMMA OneRequest ==
  ASSUME NEW X, NEW m \in X
  PROVE  /\ <<m>> \in Seq(X)
         /\ RendersIn(<<m>>) = IF m.type = "render" THEN {m} ELSE {}
         /\ NoneTwice(<<m>>)
<1>1. Len(<<m>>) = 1 /\ <<m>>[1] = m /\ <<m>> \in Seq(X)
  OBVIOUS
<1>2. 1..1 = {1}
  OBVIOUS
<1> QED BY <1>1, <1>2 DEF RendersIn, NoneTwice

\* A render written after something that is none.
LEMMA RendersGrow ==
  ASSUME NEW X, NEW pipe \in Seq(X), NEW mail \in Seq(X), NEW notes \in Seq(X), NEW m \in X,
         RendersIn(notes) = {}, m.type = "render", NoneTwice(pipe \o mail),
         \A x \in RendersIn(pipe \o mail) : x.id # m.id
  PROVE  LET all == pipe \o Append(mail \o notes, m)
         IN  RendersIn(all) = RendersIn(pipe \o mail) \cup {m} /\ NoneTwice(all)
<1> DEFINE old == pipe \o mail
           most == old \o notes
           new == <<m>>
           all == pipe \o Append(mail \o notes, m)
<1>1. old \in Seq(X)
  BY ConcatProperties
<1>2. most \in Seq(X)
  BY <1>1, ConcatProperties
<1>3. new \in Seq(X) /\ RendersIn(new) = {m} /\ NoneTwice(new)
  BY OneRequest
<1>4. all = most \o new
  BY ConcatProperties, AppendIsConcat, <1>3, ConcatAssociative
<1> HIDE DEF old, most, new, all
<1>5. RendersIn(most) = RendersIn(old)
  <2>1. RendersIn(old \o notes) = RendersIn(old) \cup RendersIn(notes)
    BY ONLY <1>1, notes \in Seq(X), RendersJoin
  <2> QED BY <2>1 DEF most
<1>6. NoneTwice(most)
  <2>1. NoneTwice(notes)
    BY NoRenders DEF RendersIn
  <2>2. NoneTwice(old \o notes)
    BY <1>1, <2>1, RendersJoin DEF old
  <2> QED BY <2>2 DEF most
<1>7. RendersIn(most \o new) = RendersIn(most) \cup RendersIn(new)
  BY <1>2, <1>3, RendersJoin
<1>8. \A a \in RendersIn(most), b \in RendersIn(new) : a.id # b.id
  BY <1>3, <1>5 DEF old
<1>9. NoneTwice(most \o new)
  BY <1>2, <1>3, <1>6, <1>8, RendersJoin
<1> QED BY <1>3, <1>4, <1>5, <1>7, <1>9 DEF old, all

\* What is left when the first request is read.
LEMMA RendersTail ==
  ASSUME NEW X, NEW seq \in Seq(X), seq # << >>
  PROVE  LET r == Head(seq)
         IN  /\ r \in X /\ Tail(seq) \in Seq(X)
             /\ RendersIn(seq) = RendersIn(Tail(seq)) \cup RendersIn(<<r>>)
             /\ NoneTwice(seq) =>
                  /\ NoneTwice(Tail(seq))
                  /\ r.type = "render" => \A a \in RendersIn(Tail(seq)) : a.id # r.id
<1> DEFINE r == Head(seq)
           n == Len(seq)
           t == Tail(seq)
<1>1. /\ r \in X /\ t \in Seq(X) /\ n \in Nat \ {0} /\ Len(t) = n - 1 /\ r = seq[1]
      /\ \A i \in 1..(n - 1) : t[i] = seq[i + 1]
  BY HeadTailProperties, EmptySeq
<1> HIDE DEF n, t, r
<1>2. \A i \in 1..n : i = 1 \/ (i - 1 \in 1..Len(t) /\ t[i - 1] = seq[i])
  BY <1>1
<1>3. \A i \in 1..Len(t) : i + 1 \in 1..n /\ i + 1 # 1 /\ t[i] = seq[i + 1]
  BY <1>1
<1>4. RendersIn(<<r>>) = IF r.type = "render" THEN {r} ELSE {}
  BY <1>1, OneRequest
<1>5. 1 \in 1..n
  BY <1>1
<1>6. RendersIn(seq) = RendersIn(t) \cup RendersIn(<<r>>)
  <2>1. RendersIn(t) \subseteq RendersIn(seq)
    BY <1>3 DEF RendersIn, n
  <2>2. RendersIn(<<r>>) \subseteq RendersIn(seq)
    BY <1>1, <1>4, <1>5 DEF RendersIn, n
  <2>3. ASSUME NEW i \in 1..n, seq[i].type = "render"
        PROVE  seq[i] \in RendersIn(t) \cup RendersIn(<<r>>)
    BY <1>1, <1>2, <1>4, <2>3 DEF RendersIn
  <2> QED BY <2>1, <2>2, <2>3 DEF RendersIn, n
<1>7. ASSUME NoneTwice(seq)
      PROVE  NoneTwice(t) /\ (r.type = "render" => \A a \in RendersIn(t) : a.id # r.id)
  <2>1. NoneTwice(t)
    <3> SUFFICES ASSUME NEW i \in 1..Len(t), NEW j \in 1..Len(t),
                        t[i].type = "render", t[j].type = "render", t[i].id = t[j].id
                 PROVE  i = j
      BY DEF NoneTwice
    <3>1. i + 1 = j + 1
      BY <1>3, <1>7 DEF NoneTwice, n
    <3> QED BY <3>1
  <2>2. ASSUME r.type = "render", NEW i \in 1..Len(t), t[i].type = "render"
        PROVE  t[i].id # r.id
    BY <1>1, <1>3, <1>5, <1>7, <2>2 DEF NoneTwice, n
  <2> QED BY <2>1, <2>2 DEF RendersIn
<1> QED BY <1>1, <1>6, <1>7 DEF r, t

-----------------------------------------------------------------------------
(* Screen does not mind.                                                   *)

\* What a sound editor is made of.
LEMMA EditorParts ==
  ASSUME NEW rest, NEW ed, Sound(ed, rest)
  PROVE  /\ ed.nextId \in Nat /\ ed \in Editors(1..ed.nextId)
         /\ ed.buf \in [Bufs -> Texts] /\ ed.win \in [Keys -> Widths]
         /\ ed.sess \in [Keys -> Windows(1..ed.nextId)]
         /\ ed.mail \in Seq(Requests(1..ed.nextId)) /\ ed.inbox \in Seq(Lines(1..ed.nextId))
         /\ ed.requests \in Table(1..ed.nextId, Keys) /\ ed.calls \in Table(1..ed.nextId, Calls)
         /\ \A i, j \in DOMAIN ed.requests : ed.requests[i] = ed.requests[j] => i = j
         /\ \A id \in DOMAIN ed.requests : id \in 1..ed.nextId /\ ed.requests[id] \in Keys
         /\ \A k \in Keys : ed.sess[k].open => ed.sess[k] \in Sessions(1..ed.nextId)
<1>1. ed \in Editors(1..ed.nextId) /\ Waits(ed)
  BY DEF Sound
<1>2. /\ ed.nextId \in Nat /\ ed.requests \in Table(1..ed.nextId, Keys)
      /\ ed.sess \in [Keys -> Windows(1..ed.nextId)]
  BY <1>1 DEF Editors
<1>3. \A id \in DOMAIN ed.requests : id \in 1..ed.nextId /\ ed.requests[id] \in Keys
  BY <1>2, TableParts
<1>4. \A k \in Keys : ed.sess[k].open => ed.sess[k] \in Sessions(1..ed.nextId)
  BY <1>2, OpenIsSession
<1> QED BY <1>1, <1>2, <1>3, <1>4 DEF Editors, Waits

\* And what a call in it is.
LEMMA CallParts ==
  ASSUME NEW rest, NEW ed, Sound(ed, rest), NEW id \in DOMAIN ed.calls
  PROVE  /\ id \in 1..ed.nextId /\ id \in DOMAIN ed.requests
         /\ ed.requests[id] = ed.calls[id].key
         /\ ed.calls[id] \in Calls /\ ed.calls[id].key \in Keys /\ ed.calls[id].buf \in Bufs
         /\ ed.calls[id].tick \in Nat /\ ed.calls[id].gen \in Nat
         /\ ed.sess[ed.calls[id].key].open
         /\ ed.calls[id].gen = ed.sess[ed.calls[id].key].gen
<1>1. ed.calls[id] \in Calls /\ id \in 1..ed.nextId
  BY EditorParts, TableParts
<1>2. /\ id \in DOMAIN ed.requests /\ ed.requests[id] = ed.calls[id].key
      /\ ed.sess[ed.calls[id].key].open
      /\ ed.calls[id].gen = ed.sess[ed.calls[id].key].gen
  BY DEF Sound, Waits
<1> QED BY <1>1, <1>2 DEF Calls

\* A request that asks for a render is one.
LEMMA RendersAreRenders ==
  ASSUME NEW ids, NEW seq \in Seq(Requests(ids))
  PROVE  RendersIn(seq) \subseteq Renderings(ids)
<1>1. \A i \in 1..Len(seq) : seq[i] \in Requests(ids)
  BY ElementOfSeq
<1>2. \A r \in Requests(ids) : r.type = "render" => r \in Renderings(ids)
  BY DEF Requests, Ping, Cancel, Forget
<1> QED BY <1>1, <1>2 DEF RendersIn

\* What is in the pipes names renders that were asked for.
LEMMA TravelParts ==
  ASSUME NEW rest, NEW w, NEW ed, Sound(ed, rest), Typed(w, 1..ed.nextId)
  PROVE  /\ Pipe(w, ed) \in Seq(Requests(1..ed.nextId))
         /\ UnderWay(w, ed) \subseteq Renderings(1..ed.nextId)
         /\ \A r \in UnderWay(w, ed) : r.id \in 1..ed.nextId /\ r.key \in Keys
         /\ Given(w, ed) \subseteq Replies(1..ed.nextId)
<1> DEFINE ids == 1..ed.nextId
<1> HIDE DEF ids
<1>1. /\ ed.mail \in Seq(Requests(ids)) /\ ed.inbox \in Seq(Lines(ids))
      /\ w.pipe \in Seq(Requests(ids)) /\ w.tasks \subseteq Tasks(ids)
      /\ w.replies \subseteq Replies(ids)
  BY EditorParts DEF Typed, ids
<1>2. Pipe(w, ed) \in Seq(Requests(ids))
  BY <1>1, ConcatProperties DEF Pipe
<1>3. UnderWay(w, ed) \subseteq Renderings(ids)
  BY <1>1, <1>2, RendersAreRenders DEF UnderWay, Tasks
<1>4. Given(w, ed) \subseteq Replies(ids)
  BY <1>1, ElementOfSeq DEF Given, Lines
<1>5. \A r \in UnderWay(w, ed) : r.id \in ids /\ r.key \in Keys
  BY <1>3 DEF Renderings
<1> QED BY <1>2, <1>3, <1>4, <1>5 DEF ids

\* A source map there is.
LEMMA MapParts ==
  ASSUME NEW ids, NEW s \in Sessions(ids), s.map # NoMap
  PROVE  s.map.buf \in Bufs /\ s.map.tick \in Nat /\ s.map.gen \in Nat
BY DEF Sessions, Maps

\* Sessions that show the same: the timer, the source, a map or a render given up.
ShowsSame(s, t) ==
  \/ t = s
  \/ /\ s.open = TRUE /\ t.open = TRUE
     /\ t.width = s.width /\ t.held = s.held /\ t.index = s.index
     /\ t.rendered = s.rendered /\ t.gen = s.gen /\ t.map \in {s.map, NoMap}
     /\ t.shown = s.shown /\ s.givenUp \subseteq t.givenUp /\ t.astray = s.astray

\* Less to read or only failures more, less under way, less remembered, texts that
\* moved on: what is on screen stays as good as it was.
LEMMA ScreenAlike ==
  ASSUME NEW rest, NEW w, NEW ed, Sound(ed, rest), NEW out, Screen(w, ed, out),
         NEW v, NEW next, next \in Editors(1..ed.nextId), next.nextId = ed.nextId,
         next.calls = ed.calls,
         Typed(v, 1..ed.nextId), OnePlace(v, next),
         UnderWay(v, next) \subseteq UnderWay(w, ed),
         \A a \in Given(v, next) :
           a \in Given(w, ed) \/ (a.type = "error" /\ \A r \in UnderWay(v, next) : a.id # r.id),
         \A k \in DOMAIN v.memory : k \in DOMAIN w.memory /\ v.memory[k] = w.memory[k],
         \A b \in Bufs : next.buf[b] = ed.buf[b] \/ next.buf[b].tick > ed.buf[b].tick,
         \A k \in Keys : ShowsSame(ed.sess[k], next.sess[k])
  PROVE  Screen(v, next, out)
<1>1. /\ ed.nextId \in Nat
      /\ \A b \in Bufs : ed.buf[b].tick \in Nat /\ next.buf[b].tick \in Nat
  BY EditorParts DEF Editors, Texts
<1>2. \A k \in Keys : next.sess[k].open <=> ed.sess[k].open
  BY DEF ShowsSame
<1>3. Unanswered(v, next)
  BY <1>2 DEF ShowsSame, Screen, Unanswered
<1>4. ASSUME NEW r \in UnderWay(v, next)
      PROVE  AsAsked(next, r) /\ Wanted(next, r)
  <2>1. AsAsked(ed, r) /\ Wanted(ed, r) /\ r \in UnderWay(w, ed)
    BY <1>4 DEF Screen
  <2>2. AsAsked(next, r)
    <3> SUFFICES ASSUME r.id \in DOMAIN ed.calls
                 PROVE  LET call == ed.calls[r.id]
                            s    == next.sess[call.key]
                        IN  /\ call.key = r.key
                            /\ r.incremental => s.rendered
                            /\ r.width = s.width
                            /\ call.tick = next.buf[call.buf].tick => r.doc = next.buf[call.buf].doc
      BY DEF AsAsked
    <3> DEFINE call == ed.calls[r.id]
    <3>1. call.key \in Keys /\ call.buf \in Bufs /\ call.tick \in Nat
      BY CallParts
    <3>2. call.tick <= ed.buf[call.buf].tick
      BY DEF Screen, Ticks
    <3>3. /\ call.key = r.key
          /\ r.incremental => ed.sess[call.key].rendered
          /\ r.width = ed.sess[call.key].width
          /\ call.tick = ed.buf[call.buf].tick => r.doc = ed.buf[call.buf].doc
      BY <2>1 DEF AsAsked
    <3> HIDE DEF call
    <3>4. /\ next.sess[call.key].rendered = ed.sess[call.key].rendered
          /\ next.sess[call.key].width = ed.sess[call.key].width
      BY <3>1 DEF ShowsSame
    <3>5. call.tick = next.buf[call.buf].tick => r.doc = next.buf[call.buf].doc
      BY <1>1, <3>1, <3>2, <3>3
    <3> QED BY <3>3, <3>4, <3>5 DEF call
  <2>3. Wanted(next, r)
    <3>1. r.key \in Keys
      BY <2>1, TravelParts DEF Screen
    <3>2. ed.sess[r.key] # NoSession => next.sess[r.key] # NoSession
      BY <3>1 DEF ShowsSame, NoSession
    <3>3. next.sess[r.key].open => ed.sess[r.key].givenUp \subseteq next.sess[r.key].givenUp
      BY <3>1 DEF ShowsSame
    <3> QED BY <1>2, <2>1, <3>1, <3>2, <3>3 DEF Wanted
  <2> QED BY <2>2, <2>3
<1>5. ASSUME NEW a \in Given(v, next), a.type = "render_result", a.id \in DOMAIN next.calls
      PROVE  Fits(v, next, next.calls[a.id], a)
  <2> DEFINE call == ed.calls[a.id]
             k == call.key
             s == ed.sess[k]
             t == next.sess[k]
  <2>1. Fits(w, ed, call, a)
    BY <1>5 DEF Screen
  <2>2. k \in Keys /\ call.buf \in Bufs /\ call.tick \in Nat
    BY <1>5, CallParts
  <2>3. call.tick <= ed.buf[call.buf].tick
    BY <1>5 DEF Screen, Ticks
  <2>4. /\ t.rendered = s.rendered /\ s.givenUp \subseteq t.givenUp /\ t.shown = s.shown
        /\ t.width = s.width
    BY <2>2 DEF ShowsSame
  <2>5. next.calls[a.id] = call
    OBVIOUS
  <2> HIDE DEF call
  <2>6. /\ call.tick = next.buf[call.buf].tick => call.tick = ed.buf[call.buf].tick
        /\ call.tick = next.buf[call.buf].tick => next.buf[call.buf] = ed.buf[call.buf]
    BY <1>1, <2>2, <2>3
  <2>7. Fits(v, next, call, a)
    BY <2>1, <2>4, <2>6 DEF Fits
  <2> QED BY <2>5, <2>7
<1>6. ASSUME NEW k \in Keys, next.sess[k].open
      PROVE  MapIsRight(next, k)
  <2> DEFINE s == ed.sess[k]
             t == next.sess[k]
  <2>1. MapIsRight(ed, k) /\ s \in Sessions(1..ed.nextId) /\ s.open
    BY <1>2, <1>6, EditorParts DEF Screen
  <2>2. t.width = s.width /\ t.gen = s.gen /\ t.shown = s.shown /\ t.map \in {s.map, NoMap}
    BY DEF ShowsSame
  <2> SUFFICES ASSUME t.map # NoMap
               PROVE  LET m == s.map
                          b == next.buf[m.buf]
                      IN  /\ m.gen <= s.gen
                          /\ m.tick <= b.tick
                          /\ m.tick = b.tick /\ m.gen = s.gen =>
                               s.shown.rows = Layout(b.doc, LaidOutAt(s.width))
    BY <2>2 DEF MapIsRight
  <2>3. s.map # NoMap
    BY <2>2
  <2>4. s.map.buf \in Bufs /\ s.map.tick \in Nat /\ s.map.gen \in Nat
    BY <2>1, <2>3, MapParts
  <2>5. LET m == s.map
            b == ed.buf[m.buf]
        IN  /\ m.gen <= s.gen
            /\ m.tick <= b.tick
            /\ m.tick = b.tick /\ m.gen = s.gen =>
                 s.shown.rows = Layout(b.doc, LaidOutAt(s.width))
    BY <2>1, <2>3 DEF MapIsRight
  <2> HIDE DEF s
  <2> QED BY <1>1, <2>4, <2>5
<1>7. ASSUME NEW k \in Keys \ out, next.sess[k].open
      PROVE  InStep(v, next, k)
  BY <1>2, <1>7 DEF Screen, ShowsSame, InStep
<1>8. Ticks(next)
  <2> SUFFICES ASSUME NEW id \in DOMAIN ed.calls
               PROVE  ed.calls[id].tick <= next.buf[ed.calls[id].buf].tick
    BY DEF Ticks
  <2>1. ed.calls[id].buf \in Bufs /\ ed.calls[id].tick \in Nat
    BY CallParts
  <2>2. ed.calls[id].tick <= ed.buf[ed.calls[id].buf].tick
    BY DEF Screen, Ticks
  <2> QED BY <1>1, <2>1, <2>2
<1> QED BY <1>3, <1>4, <1>5, <1>6, <1>7, <1>8 DEF Screen

-----------------------------------------------------------------------------
(* What the parts of a handler do to it.                                   *)

\* What a session becomes, when no call of it is waited for.
LEMMA ScreenPut ==
  ASSUME NEW rest, NEW w, NEW ed, Sound(ed, rest), NEW out, Screen(w, ed, out),
         NEW k \in Keys, ed.sess[k].open, \A id \in DOMAIN ed.calls : ed.calls[id].key # k,
         NEW t \in Sessions(1..ed.nextId), ed.sess[k].givenUp \subseteq t.givenUp,
         t.shown.id \in 0..ed.nextId, \A r \in UnderWay(w, ed) : t.shown.id # r.id,
         MapIsRight(Put(ed, k, t), k),
         NEW less, out \subseteq less \cup {k}, k \notin less => InStep(w, Put(ed, k, t), k)
  PROVE  Screen(w, Put(ed, k, t), less)
<1> DEFINE next == Put(ed, k, t)
<1>1. /\ ed \in Editors(1..ed.nextId) /\ ed.sess \in [Keys -> Windows(1..ed.nextId)]
      /\ t.open = TRUE
  BY EditorParts DEF Sessions
<1>2. /\ next.nextId = ed.nextId /\ next.calls = ed.calls /\ next.buf = ed.buf
      /\ next.mail = ed.mail /\ next.inbox = ed.inbox
      /\ next.sess = [ed.sess EXCEPT ![k] = t]
  BY <1>1 DEF Put, Editors
<1> HIDE DEF next
<1>3. next.sess[k] = t /\ \A j \in Keys : j # k => next.sess[j] = ed.sess[j]
  BY <1>1, <1>2
<1>4. /\ Pipe(w, next) = Pipe(w, ed) /\ UnderWay(w, next) = UnderWay(w, ed)
      /\ Given(w, next) = Given(w, ed)
  BY <1>2 DEF Pipe, UnderWay, Given
<1>5. Typed(w, 1..next.nextId) /\ OnePlace(w, next) /\ Unanswered(w, next) /\ Ticks(next)
  BY <1>2, <1>3, <1>4 DEF Screen, OnePlace, Unanswered, Ticks
<1>6. ASSUME NEW r \in UnderWay(w, next)
      PROVE  AsAsked(next, r) /\ Wanted(next, r)
  <2>1. AsAsked(ed, r) /\ Wanted(ed, r) /\ r.key \in Keys
    BY <1>4, TravelParts DEF Screen
  <2>2. ASSUME r.id \in DOMAIN ed.calls
        PROVE  next.sess[ed.calls[r.id].key] = ed.sess[ed.calls[r.id].key]
    BY <1>3, <2>2, CallParts
  <2>3. AsAsked(next, r)
    BY <1>2, <2>1, <2>2 DEF AsAsked
  <2>4. Wanted(next, r)
    BY <1>1, <1>2, <1>3, <2>1 DEF NoSession, Wanted
  <2> QED BY <2>3, <2>4
<1>7. ASSUME NEW a \in Given(w, next), a.type = "render_result", a.id \in DOMAIN next.calls
      PROVE  Fits(w, next, next.calls[a.id], a)
  <2> DEFINE call == ed.calls[a.id]
  <2>1. Fits(w, ed, call, a)
    BY <1>2, <1>4, <1>7 DEF Screen
  <2>2. call.key \in Keys /\ call.key # k
    BY <1>2, <1>7, CallParts
  <2>3. next.calls[a.id] = call
    BY <1>2
  <2> HIDE DEF call
  <2>4. next.sess[call.key] = ed.sess[call.key]
    BY <1>3, <2>2
  <2>5. Fits(w, next, call, a)
    BY <1>2, <2>1, <2>4 DEF Fits
  <2> QED BY <2>3, <2>5
<1>8. ASSUME NEW j \in Keys, next.sess[j].open
      PROVE  MapIsRight(next, j)
  BY <1>3, <1>8, <1>2 DEF next, Screen, MapIsRight
<1>9. ASSUME NEW j \in Keys \ less, next.sess[j].open
      PROVE  InStep(w, next, j)
  BY <1>3, <1>9, <1>2 DEF next, Screen, InStep
<1>10. Screen(w, next, less)
  BY <1>5, <1>6, <1>7, <1>8, <1>9 DEF Screen
<1> QED BY <1>10 DEF next

\* A call that is answered leaves its session to catch up.
LEMMA ScreenSettled ==
  ASSUME NEW rest, NEW w, NEW ed, Sound(ed, rest), Screen(w, ed, {}), NEW k \in Keys, NEW id,
         id \in DOMAIN ed.calls => ed.calls[id].key = k,
         \A r \in UnderWay(w, ed) :
           r.id = id /\ ed.sess[r.key].open => r.id \in ed.sess[r.key].givenUp
  PROVE  Screen(w, Settled(ed, id), {k})
<1> DEFINE next == Settled(ed, id)
<1>1. ed \in Editors(1..ed.nextId)
  BY EditorParts
<1>2. /\ next.nextId = ed.nextId /\ next.buf = ed.buf /\ next.sess = ed.sess
      /\ next.mail = ed.mail /\ next.inbox = ed.inbox
      /\ next.calls = Without(ed.calls, {id})
  BY <1>1 DEF Settled, Editors
<1> HIDE DEF next
<1>3. /\ DOMAIN next.calls = DOMAIN ed.calls \ {id}
      /\ \A j \in DOMAIN ed.calls \ {id} : next.calls[j] = ed.calls[j]
  BY <1>2 DEF Without
<1>4. /\ Pipe(w, next) = Pipe(w, ed) /\ UnderWay(w, next) = UnderWay(w, ed)
      /\ Given(w, next) = Given(w, ed)
  BY <1>2 DEF Pipe, UnderWay, Given
<1>5. Typed(w, 1..next.nextId) /\ OnePlace(w, next) /\ Unanswered(w, next) /\ Ticks(next)
  <2>1. Ticks(next)
    BY <1>2, <1>3 DEF Screen, Ticks
  <2>2. Typed(w, 1..next.nextId) /\ OnePlace(w, next) /\ Unanswered(w, next)
    BY <1>2, <1>4 DEF Screen, OnePlace, Unanswered
  <2> QED BY <2>1, <2>2
<1>6. ASSUME NEW r \in UnderWay(w, next)
      PROVE  AsAsked(next, r) /\ Wanted(next, r)
  <2>1. AsAsked(ed, r) /\ Wanted(ed, r)
    BY <1>4 DEF Screen
  <2>2. AsAsked(next, r)
    BY <1>2, <1>3, <2>1 DEF AsAsked
  <2>3. Wanted(next, r)
    BY <1>2, <1>3, <1>4, <2>1 DEF Wanted
  <2> QED BY <2>2, <2>3
<1>7. ASSUME NEW a \in Given(w, next), a.type = "render_result", a.id \in DOMAIN next.calls
      PROVE  Fits(w, next, next.calls[a.id], a)
  <2>1. Fits(w, ed, ed.calls[a.id], a) /\ next.calls[a.id] = ed.calls[a.id]
    BY <1>3, <1>4, <1>7 DEF Screen
  <2> QED BY <1>2, <2>1 DEF Fits
<1>8. ASSUME NEW j \in Keys, next.sess[j].open
      PROVE  MapIsRight(next, j)
  BY <1>2, <1>8 DEF Screen, MapIsRight
<1>9. ASSUME NEW j \in Keys \ {k}, next.sess[j].open
      PROVE  InStep(w, next, j)
  <2>1. InStep(w, ed, j)
    BY <1>2, <1>9 DEF Screen
  <2>2. ASSUME NEW i \in DOMAIN ed.calls, ed.calls[i].key = j
        PROVE  i \in DOMAIN next.calls /\ next.calls[i].key = j
    BY <1>3, <2>2
  <2> QED BY <1>2, <2>1, <2>2 DEF InStep
<1>10. Screen(w, next, {k})
  BY <1>5, <1>6, <1>7, <1>8, <1>9 DEF Screen
<1> QED BY <1>10 DEF next

\* The request a render writes, the call it leaves behind, and its session.
Asking(ed, k) ==
  LET s == ed.sess[k]
  IN  [type |-> "render", id |-> ed.nextId + 1, key |-> k, doc |-> ed.buf[s.src].doc,
       width |-> ed.win[k], incremental |-> s.rendered]

Awaited(ed, k) ==
  LET s == ed.sess[k]
  IN  [key |-> k, gen |-> s.gen + 1, buf |-> s.src, tick |-> ed.buf[s.src].tick]

Asked(ed, k) ==
  LET s == ed.sess[k]
  IN  [s EXCEPT !.timer = FALSE, !.width = ed.win[k], !.gen = s.gen + 1,
                !.givenUp = s.givenUp \cup Moot(ed, k)]

\* The one render among what was written.
WritesOnly(ed, next, m) ==
  \E notes \in Seq(Requests(1..ed.nextId)) :
    RendersIn(notes) = {} /\ next.mail = Append(ed.mail \o notes, m)

\* The calls of the other sessions, and what they asked for.
KeepsOthers(ed, next, k) ==
  \A j \in DOMAIN ed.calls \ Moot(ed, k) : j # ed.nextId + 1 /\ next.calls[j] = ed.calls[j]

\* What a session's withdrawal writes is no render.
LEMMA CancelsOnly ==
  ASSUME NEW rest, NEW ed, Sound(ed, rest), NEW k \in Keys
  PROVE  LET notes == SetToSeq({Cancel(i) : i \in Moot(ed, k)})
         IN  notes \in Seq(Requests(1..ed.nextId)) /\ RendersIn(notes) = {}
<1> DEFINE n == ed.nextId
           moot == Moot(ed, k)
           C == {Cancel(i) : i \in moot}
<1>1. moot \subseteq 1..n /\ IsFiniteSet(moot)
  <2>1. moot \subseteq 1..n /\ n \in Nat
    BY EditorParts DEF Moot
  <2> HIDE DEF moot
  <2>2. IsFiniteSet(1..n)
    BY <2>1, FS_Interval
  <2> QED BY <2>1, <2>2, FS_Subset
<1>2. IsFiniteSet(C)
  <2> DEFINE f == [i \in moot |-> Cancel(i)]
  <2>1. f \in Surjection(moot, C)
    BY DEF Surjection
  <2> HIDE DEF moot, C, f
  <2> QED BY <1>1, <2>1, FS_Surjection
<1>3. C \subseteq Requests(1..n) /\ \A x \in C : x.type = "cancel"
  BY <1>1 DEF Requests, Cancel
<1> HIDE DEF C
<1>4. SetToSeq(C) \in Seq(C)
  BY <1>2, SetToSeqType
<1>5. \A i \in 1..Len(SetToSeq(C)) : SetToSeq(C)[i].type = "cancel"
  BY <1>3, <1>4, ElementOfSeq
<1>6. RendersIn(SetToSeq(C)) = {}
  BY <1>5, NoRenders
<1>7. SetToSeq(C) \in Seq(Requests(1..n))
  BY <1>3, <1>4, SeqMonotonic
<1> QED BY <1>6, <1>7 DEF C

\* What a render changes.
LEMMA RenderParts ==
  ASSUME NEW rest, NEW ed, Sound(ed, rest), NEW k \in Keys, ed.sess[k].open
  PROVE  LET n == ed.nextId
             r == Render(ed, k)
         IN  /\ r.nextId = n + 1 /\ r.buf = ed.buf /\ r.inbox = ed.inbox
             /\ r.sess = [ed.sess EXCEPT ![k] = Asked(ed, k)]
             /\ DOMAIN r.calls = (DOMAIN ed.calls \ Moot(ed, k)) \cup {n + 1}
             /\ r.calls[n + 1] = Awaited(ed, k)
             /\ KeepsOthers(ed, r, k)
             /\ Asking(ed, k) \in Renderings(1..(n + 1))
             /\ WritesOnly(ed, r, Asking(ed, k))
<1> DEFINE n == ed.nextId
           s == ed.sess[k]
           moot == Moot(ed, k)
           id == n + 1
           notes == SetToSeq({Cancel(i) : i \in moot})
           q == Withdraw(ed, k)
           t == Asked(ed, k)
           c == Awaited(ed, k)
           m == Asking(ed, k)
           r == Render(ed, k)
<1>1. /\ ed \in Editors(1..n) /\ n \in Nat /\ ed.win \in [Keys -> Widths]
      /\ ed.buf \in [Bufs -> Texts]
      /\ s \in Sessions(1..n) /\ DOMAIN ed.calls \subseteq 1..n
      /\ DOMAIN ed.requests \subseteq 1..n
  BY EditorParts, CallParts
<1>2. s.src \in Bufs /\ s.gen \in Nat /\ s.rendered \in BOOLEAN
  BY <1>1, SessionParts
<1>3. m \in Renderings(1..(n + 1))
  BY <1>1, <1>2 DEF Texts, Renderings, Asking
<1>4. notes \in Seq(Requests(1..n)) /\ RendersIn(notes) = {}
  BY CancelsOnly
<1>5. /\ q = [ed EXCEPT !.requests = Without(ed.requests, moot),
                        !.calls = Without(ed.calls, moot), !.mail = ed.mail \o notes]
  BY DEF Withdraw
<1> HIDE DEF notes, moot
<1>6. /\ q.buf = ed.buf /\ q.inbox = ed.inbox /\ q.calls = Without(ed.calls, moot)
      /\ q.mail = ed.mail \o notes
      /\ q = [q EXCEPT !.buf = ed.buf]
  BY <1>1, <1>5 DEF Editors
<1>7. r = [q EXCEPT !.nextId = id, !.sess = [ed.sess EXCEPT ![k] = t],
                    !.requests = With(q.requests, id, k), !.calls = With(q.calls, id, c),
                    !.mail = Append(q.mail, m)]
  BY DEF Render, NextId, moot, Asking, Awaited, Asked
<1> HIDE DEF m, c, t
<1>8. /\ r.nextId = id /\ r.buf = ed.buf /\ r.inbox = ed.inbox
      /\ r.sess = [ed.sess EXCEPT ![k] = t] /\ r.calls = With(Without(ed.calls, moot), id, c)
      /\ r.mail = Append(ed.mail \o notes, m)
  BY <1>1, <1>5, <1>7 DEF Editors
<1> HIDE DEF q, r
<1>9. id \notin DOMAIN ed.calls
  BY <1>1
<1>10. /\ DOMAIN r.calls = (DOMAIN ed.calls \ moot) \cup {id}
       /\ r.calls[id] = c
       /\ \A j \in DOMAIN ed.calls \ moot : j # id /\ r.calls[j] = ed.calls[j]
  BY <1>8, <1>9 DEF With, Without
<1>11. WritesOnly(ed, r, m)
  BY <1>4, <1>8 DEF WritesOnly
<1>12. KeepsOthers(ed, r, k)
  BY <1>10 DEF KeepsOthers, moot
<1> QED BY <1>3, <1>8, <1>10, <1>11, <1>12 DEF moot, c, t, m, r

\* A render joins what is under way.
LEMMA RenderUnderWay ==
  ASSUME NEW rest, NEW w, NEW ed, Sound(ed, rest), Typed(w, 1..ed.nextId), NoneTwice(Pipe(w, ed)),
         NEW k \in Keys, ed.sess[k].open
  PROVE  LET r == Render(ed, k)
             m == Asking(ed, k)
         IN  /\ RendersIn(Pipe(w, r)) = RendersIn(Pipe(w, ed)) \cup {m}
             /\ UnderWay(w, r) = UnderWay(w, ed) \cup {m}
             /\ NoneTwice(Pipe(w, r)) /\ Given(w, r) = Given(w, ed)
<1> DEFINE n == ed.nextId
           m == Asking(ed, k)
           r == Render(ed, k)
           X == Requests(1..(n + 1))
<1>1. /\ n \in Nat /\ ed.mail \in Seq(Requests(1..n)) /\ w.pipe \in Seq(Requests(1..n))
      /\ \A x \in UnderWay(w, ed) : x.id \in 1..n
  BY EditorParts, TravelParts DEF Typed
<1>2. WritesOnly(ed, r, m) /\ m \in Renderings(1..(n + 1)) /\ r.inbox = ed.inbox
  BY RenderParts
<1>3. m.type = "render" /\ m.id = n + 1
  BY DEF Asking
<1> HIDE DEF r, m
<1>4. PICK notes \in Seq(Requests(1..n)) :
             RendersIn(notes) = {} /\ r.mail = Append(ed.mail \o notes, m)
  BY <1>2 DEF WritesOnly
<1>5. Seq(Requests(1..n)) \subseteq Seq(X) /\ m \in X
  <2>1. 1..n \subseteq 1..(n + 1)
    BY <1>1
  <2>2. Seq(Requests(1..n)) \subseteq Seq(X)
    <3> HIDE DEF n
    <3> QED BY <2>1, IdsGrow
  <2> QED BY <1>2, <2>2 DEF Requests
<1> HIDE DEF X
<1>6. /\ notes \in Seq(X) /\ ed.mail \in Seq(X) /\ w.pipe \in Seq(X) /\ m \in X
  BY <1>1, <1>4, <1>5
<1>7. NoneTwice(w.pipe \o ed.mail) /\ \A x \in RendersIn(w.pipe \o ed.mail) : x.id # m.id
  BY <1>1, <1>3 DEF Pipe, UnderWay
<1>8. Pipe(w, r) = w.pipe \o Append(ed.mail \o notes, m)
  BY <1>4 DEF Pipe
<1>9. RendersIn(Pipe(w, r)) = RendersIn(Pipe(w, ed)) \cup {m} /\ NoneTwice(Pipe(w, r))
  BY <1>3, <1>4, <1>6, <1>7, <1>8, RendersGrow DEF Pipe
<1>10. UnderWay(w, r) = UnderWay(w, ed) \cup {m} /\ Given(w, r) = Given(w, ed)
  BY <1>2, <1>9 DEF UnderWay, Given
<1> QED BY <1>9, <1>10 DEF r, m

\* A render asked for is waited for; what the session waited for before it has
\* given up.
LEMMA ScreenRender ==
  ASSUME NEW rest, NEW w, NEW ed, Sound(ed, rest), Screen(w, ed, {}),
         NEW k \in Keys, ed.sess[k].open
  PROVE  Screen(w, Render(ed, k), {})
<1> DEFINE n == ed.nextId
           s == ed.sess[k]
           moot == Moot(ed, k)
           t == Asked(ed, k)
           c == Awaited(ed, k)
           m == Asking(ed, k)
           r == Render(ed, k)
           id == n + 1
<1>1. /\ n \in Nat /\ ed.sess \in [Keys -> Windows(1..n)] /\ ed.buf \in [Bufs -> Texts]
      /\ ed.mail \in Seq(Requests(1..n)) /\ s \in Sessions(1..n)
  BY EditorParts
<1>2. /\ r.nextId = id /\ r.buf = ed.buf /\ r.inbox = ed.inbox
      /\ r.sess = [ed.sess EXCEPT ![k] = t]
      /\ DOMAIN r.calls = (DOMAIN ed.calls \ moot) \cup {id}
      /\ r.calls[id] = c
      /\ \A j \in DOMAIN ed.calls \ moot : j # id /\ r.calls[j] = ed.calls[j]
      /\ m \in Renderings(1..id)
      /\ WritesOnly(ed, r, m)
  BY RenderParts DEF KeepsOthers
<1>3. /\ t.open = TRUE /\ t.gen = s.gen + 1 /\ t.width = ed.win[k] /\ t.map = s.map
      /\ t.shown = s.shown /\ t.held = s.held /\ t.index = s.index
      /\ t.rendered = s.rendered /\ t.astray = s.astray
      /\ t.givenUp = s.givenUp \cup moot /\ s.open = TRUE /\ s.src \in Bufs /\ s.gen \in Nat
  BY <1>1 DEF Asked, Sessions
<1>4. /\ m.type = "render" /\ m.id = id /\ m.key = k /\ m.doc = ed.buf[s.src].doc
      /\ m.width = ed.win[k] /\ m.incremental = s.rendered
  BY DEF Asking
<1>5. c.key = k /\ c.buf = s.src /\ c.tick = ed.buf[s.src].tick
  BY DEF Awaited
<1>6. id \in Nat /\ id \notin 1..n /\ 1..n \subseteq 1..id
  BY <1>1
<1> HIDE DEF r, m, c, t, id
<1>7. r.sess[k] = t /\ \A j \in Keys : j # k => r.sess[j] = ed.sess[j]
  BY <1>1, <1>2
<1> HIDE DEF s
<1>8. \A i \in DOMAIN ed.calls : i \in moot <=> ed.calls[i].key = k
  BY CallParts DEF Moot
<1> HIDE DEF moot
<1>9. /\ Typed(w, 1..n) /\ OnePlace(w, ed) /\ Unanswered(w, ed)
      /\ UnderWay(w, ed) \subseteq Renderings(1..n)
      /\ \A x \in UnderWay(w, ed) : x.id \in 1..n /\ x.key \in Keys
      /\ Pipe(w, ed) \in Seq(Requests(1..n))
      /\ Given(w, ed) \subseteq Replies(1..n)
  BY TravelParts DEF Screen
<1>10. /\ RendersIn(Pipe(w, r)) = RendersIn(Pipe(w, ed)) \cup {m}
       /\ UnderWay(w, r) = UnderWay(w, ed) \cup {m}
       /\ NoneTwice(Pipe(w, r)) /\ Given(w, r) = Given(w, ed)
  BY <1>9, RenderUnderWay DEF OnePlace, r, m
<1>12. Typed(w, 1..r.nextId)
  <2>1. r.nextId = id
    BY <1>2
  <2>2. Typed(w, 1..id)
    BY <1>6, <1>9, IdsGrow DEF Typed
  <2> QED BY <2>1, <2>2
<1>13. OnePlace(w, r)
  BY <1>9, <1>4, <1>6, <1>10 DEF UnderWay, OnePlace
<1>14. Unanswered(w, r)
  <2>1. \A a \in Given(w, ed) : a.id \in 1..n
    BY <1>9 DEF Replies, Failure, Results
  <2>2. \A j \in Keys : r.sess[j].open =>
          ed.sess[j].open /\ r.sess[j].shown = ed.sess[j].shown
    BY <1>3, <1>7 DEF s
  <2>3. /\ \A j \in DOMAIN w.memory : w.memory[j].id \in 1..n
        /\ \A j \in Keys : ed.sess[j].open => ed.sess[j].shown.id \in 0..n
    BY <1>9 DEF Unanswered
  <2>4. \A j \in Keys : ed.sess[j].open => ed.sess[j].shown.id # id
    BY <1>1, <2>3 DEF id
  <2>5. \A x \in UnderWay(w, ed) \cup {m} :
          /\ \A a \in Given(w, ed) : a.id # x.id
          /\ \A j \in DOMAIN w.memory : w.memory[j].id # x.id
          /\ \A j \in Keys : ed.sess[j].open => ed.sess[j].shown.id # x.id
    BY <1>9, <1>4, <1>6, <2>1, <2>3, <2>4 DEF Unanswered
  <2>6. 0..n \subseteq 0..r.nextId /\ 1..n \subseteq 1..r.nextId
    BY <1>1, <1>2 DEF id
  <2> QED BY <1>10, <2>2, <2>3, <2>5, <2>6 DEF Unanswered
<1>15. ASSUME NEW x \in UnderWay(w, r)
       PROVE  AsAsked(r, x) /\ Wanted(r, x)
  <2>1. CASE x = m
    BY <1>2, <1>3, <1>4, <1>5, <1>7, <2>1 DEF AsAsked, NoSession, Wanted
  <2>2. CASE x \in UnderWay(w, ed)
    <3>1. AsAsked(ed, x) /\ Wanted(ed, x) /\ x.id \in 1..n /\ x.key \in Keys
      BY <1>9, <2>2 DEF Screen
    <3>2. x.id # id
      BY <1>6, <3>1
    <3>3. ASSUME x.id \in DOMAIN r.calls
          PROVE  /\ x.id \in DOMAIN ed.calls /\ r.calls[x.id] = ed.calls[x.id]
                 /\ ed.calls[x.id].key \in Keys /\ ed.calls[x.id].key # k
      BY <1>2, <1>8, <3>2, <3>3, CallParts
    <3>4. AsAsked(r, x)
      BY <1>2, <1>7, <3>1, <3>3 DEF AsAsked
    <3>5. x.id \in DOMAIN ed.calls => ed.calls[x.id].key = x.key
      BY <3>1 DEF AsAsked
    <3>6. Wanted(r, x)
      BY <1>3, <3>1, <1>8, <3>5, <1>7, <1>2 DEF NoSession, Wanted, s
    <3> QED BY <3>4, <3>6
  <2> QED BY <1>10, <2>1, <2>2
<1>16. ASSUME NEW a \in Given(w, r), a.type = "render_result", a.id \in DOMAIN r.calls
       PROVE  Fits(w, r, r.calls[a.id], a)
  <2>1. a \in Given(w, ed) /\ a.id \in 1..n
    BY <1>9, <1>10, <1>16 DEF Replies, Failure, Results
  <2>2. /\ a.id \in DOMAIN ed.calls /\ r.calls[a.id] = ed.calls[a.id]
        /\ ed.calls[a.id].key # k
    BY <1>2, <1>6, <1>8, <1>16, <2>1
  <2> DEFINE call == ed.calls[a.id]
  <2>3. Fits(w, ed, call, a)
    BY <1>16, <2>1, <2>2 DEF Screen
  <2>4. call.key \in Keys
    BY <2>2, CallParts
  <2>5. r.sess[call.key] = ed.sess[call.key]
    BY <1>7, <2>2, <2>4
  <2>6. r.calls[a.id] = call
    BY <2>2
  <2> HIDE DEF call
  <2>7. Fits(w, r, call, a)
    BY <1>2, <2>3, <2>5 DEF Fits
  <2> QED BY <2>6, <2>7
<1>17. ASSUME NEW j \in Keys, r.sess[j].open
       PROVE  MapIsRight(r, j)
  <2>1. CASE j = k
    <3>1. MapIsRight(ed, k)
      BY <1>3 DEF Screen, s
    <3> SUFFICES ASSUME s.map # NoMap
                 PROVE  LET mm == s.map
                            b == ed.buf[mm.buf]
                        IN  /\ mm.gen <= s.gen + 1
                            /\ mm.tick <= b.tick
                            /\ mm.tick = b.tick /\ mm.gen = s.gen + 1 =>
                                 s.shown.rows = Layout(b.doc, LaidOutAt(ed.win[k]))
      BY <1>2, <1>3, <1>7, <2>1 DEF MapIsRight
    <3>2. s.map.gen \in Nat
      BY <1>1, MapParts
    <3>3. s.map.gen <= s.gen /\ s.map.tick <= ed.buf[s.map.buf].tick
      BY <3>1 DEF MapIsRight, s
    <3> QED BY <1>3, <3>2, <3>3
  <2>2. CASE j # k
    BY <1>7, <1>17, <2>2, <1>2 DEF Screen, MapIsRight
  <2> QED BY <2>1, <2>2
<1>18. ASSUME NEW j \in Keys, r.sess[j].open
       PROVE  InStep(w, r, j)
  <2>1. CASE j = k
    <3>1. InStep(w, ed, k)
      BY <1>3 DEF Screen, s
    <3>2. \A i \in DOMAIN ed.calls : ed.calls[i].key = k => i \in t.givenUp
      BY <1>3, <1>8
    <3>3. s.givenUp \subseteq t.givenUp
      BY <1>3
    <3>4. InStep(w, r, k)
      BY <1>3, <1>7, <3>1, <3>2, <3>3 DEF InStep, s
    <3> QED BY <2>1, <3>4
  <2>2. CASE j # k
    BY <1>7, <1>18, <2>2, <1>2, <1>8 DEF Screen, InStep
  <2> QED BY <2>1, <2>2
<1>19. Ticks(r)
  <2> SUFFICES ASSUME NEW i \in DOMAIN r.calls
               PROVE  r.calls[i].tick <= ed.buf[r.calls[i].buf].tick
    BY <1>2 DEF Ticks
  <2>1. CASE i = id
    BY <1>1, <1>3, <1>2, <1>5, <2>1 DEF Texts
  <2>2. CASE i # id
    BY <1>2, <2>2 DEF Screen, Ticks
  <2> QED BY <2>1, <2>2
<1>20. Screen(w, r, {})
  BY <1>12, <1>13, <1>14, <1>15, <1>16, <1>17, <1>18, <1>19 DEF Screen
<1> QED BY <1>20 DEF r

\* A session put in its place.
LEMMA PutParts ==
  ASSUME NEW rest, NEW ed, Sound(ed, rest), NEW k \in Keys, NEW t
  PROVE  /\ Put(ed, k, t).sess[k] = t /\ Put(ed, k, t).buf = ed.buf
         /\ Put(ed, k, t).calls = ed.calls /\ Put(ed, k, t).nextId = ed.nextId
         /\ Put(ed, k, t).requests = ed.requests
BY EditorParts DEF Put, Editors

\* A map stays right while what it is about does.
LEMMA MapStays ==
  ASSUME NEW rest, NEW ed, Sound(ed, rest), NEW k \in Keys, MapIsRight(ed, k), NEW t,
         t.map \in {ed.sess[k].map, NoMap}, t.gen = ed.sess[k].gen,
         t.width = ed.sess[k].width, t.shown = ed.sess[k].shown
  PROVE  MapIsRight(Put(ed, k, t), k)
<1>1. Put(ed, k, t).sess[k] = t /\ Put(ed, k, t).buf = ed.buf
  BY PutParts
<1> QED BY <1>1 DEF MapIsRight

\* What a session shows was not made by a render that is still to come.
LEMMA ShownParts ==
  ASSUME NEW rest, NEW w, NEW ed, Sound(ed, rest), NEW out, Screen(w, ed, out),
         NEW k \in Keys, ed.sess[k].open
  PROVE  /\ MapIsRight(ed, k)
         /\ ed.sess[k] \in Sessions(1..ed.nextId)
         /\ ed.sess[k].shown.id \in 0..ed.nextId
         /\ \A r \in UnderWay(w, ed) : ed.sess[k].shown.id # r.id
<1>1. Unanswered(w, ed) /\ MapIsRight(ed, k)
  BY DEF Screen
<1> QED BY <1>1, EditorParts DEF Unanswered

\* The claim is given up and the whole document is asked for.
LEMMA ScreenResync ==
  ASSUME NEW rest, NEW w, NEW ed, Sound(ed, rest), NEW k \in Keys, Screen(w, ed, {k}),
         ed.sess[k].open, \A id \in DOMAIN ed.calls : ed.calls[id].key # k
  PROVE  Screen(w, Resync(ed, k), {})
<1> DEFINE s == ed.sess[k]
           t == [s EXCEPT !.rendered = FALSE]
           quiet == Put(ed, k, t)
<1>1. /\ s \in Sessions(1..ed.nextId) /\ s.shown.id \in 0..ed.nextId /\ MapIsRight(ed, k)
      /\ \A r \in UnderWay(w, ed) : s.shown.id # r.id
  BY ShownParts
<1>2. /\ t \in Sessions(1..ed.nextId) /\ t.gen = s.gen /\ t.open /\ ~ t.rendered
      /\ t.shown = s.shown /\ t.map = s.map /\ t.width = s.width /\ t.givenUp = s.givenUp
  BY <1>1 DEF Sessions
<1>3. Resync(ed, k) = Render(quiet, k)
  BY DEF Resync, Put
<1> HIDE DEF t
<1>4. Sound(quiet, rest) /\ quiet.sess[k] = t
  BY <1>2, SessionUpdate
<1>5. MapIsRight(quiet, k)
  BY <1>1, <1>2, MapStays
<1>6. InStep(w, quiet, k)
  BY <1>2, <1>4 DEF InStep
<1>7. Screen(w, quiet, {})
  BY <1>1, <1>2, <1>5, <1>6, ScreenPut
<1> HIDE DEF quiet
<1>8. quiet.sess[k].open
  BY <1>2, <1>4
<1>9. Screen(w, Render(quiet, k), {})
  BY <1>4, <1>7, <1>8, ScreenRender
<1> QED BY <1>3, <1>9

\* A message in place of the rows.
LEMMA ScreenPlaceholder ==
  ASSUME NEW rest, NEW w, NEW ed, Sound(ed, rest), NEW k \in Keys, Screen(w, ed, {k}),
         ed.sess[k].open, \A id \in DOMAIN ed.calls : ed.calls[id].key # k
  PROVE  Screen(w, Placeholder(ed, k), {})
<1> DEFINE s == ed.sess[k]
           t == [s EXCEPT !.held = << >>, !.index = 0, !.map = NoMap, !.rendered = FALSE]
           next == Put(ed, k, t)
<1>1. /\ s \in Sessions(1..ed.nextId) /\ s.shown.id \in 0..ed.nextId /\ MapIsRight(ed, k)
      /\ \A r \in UnderWay(w, ed) : s.shown.id # r.id
  BY ShownParts
<1>2. /\ t \in Sessions(1..ed.nextId) /\ t.gen = s.gen /\ ~ t.rendered
      /\ t.shown = s.shown /\ t.map = NoMap /\ t.width = s.width /\ t.givenUp = s.givenUp
  <2> HIDE DEF s
  <2>1. << >> \in Seq(ScreenRow) /\ NoMap \in Maps
    BY DEF Maps
  <2>2. t \in Sessions(1..ed.nextId) /\ ~ t.rendered
    BY <1>1, <2>1 DEF Sessions
  <2>3. /\ t.gen = s.gen
        /\ t.shown = s.shown /\ t.map = NoMap /\ t.width = s.width /\ t.givenUp = s.givenUp
    BY <1>1 DEF Sessions
  <2> QED BY <2>2, <2>3
<1>3. Placeholder(ed, k) = next
  BY DEF Placeholder, Put
<1> HIDE DEF t
<1>4. next.sess[k] = t
  BY PutParts
<1>5. MapIsRight(next, k)
  BY <1>1, <1>2, MapStays
<1>6. InStep(w, next, k)
  BY <1>2, <1>4 DEF InStep
<1>7. Screen(w, next, {})
  BY <1>1, <1>2, <1>5, <1>6, ScreenPut
<1> QED BY <1>3, <1>7

\* A patch that fits what a session shows gives what was rendered.
LEMMA FittingRows ==
  ASSUME NEW w, NEW ed, NEW call, NEW reply \in Results(Nat), Fits(w, ed, call, reply),
         NEW s, s = ed.sess[call.key], s.shown \in Answers,
         s.rendered, s.held = s.shown.rows, s.index = s.shown.index,
         reply.base \notin s.givenUp
  PROVE  /\ ~ reply.whole => Patched(s.held, reply.patch) = reply.rows
         /\ ~ reply.carries => s.index = reply.index
<1>1. /\ reply.base = 0 => reply.whole /\ reply.carries
      /\ reply.base > 0 => /\ reply.patch = Diff(s.shown.rows, reply.rows)
                           /\ reply.carries <=> s.shown.index # reply.index
      /\ reply.whole \/ WorthSending(reply.patch, reply.rows)
  BY DEF Fits
<1>2. reply.base \in Nat /\ reply.rows \in Seq(Row) /\ s.shown.rows \in Seq(Row)
  BY DEF Results, Answers
<1>3. ASSUME ~ reply.whole
      PROVE  Patched(s.held, reply.patch) = reply.rows
  BY <1>1, <1>2, <1>3, RoundTrip
<1>4. ASSUME ~ reply.carries
      PROVE  s.index = reply.index
  BY <1>1, <1>2, <1>4
<1> QED BY <1>3, <1>4

\* An answer that is good for a session leaves it in step.
LEMMA ScreenApply ==
  ASSUME NEW rest, NEW w, NEW ed, Sound(ed, rest), NEW call \in Calls, NEW k,
         k = call.key, Screen(w, ed, {k}), ed.sess[k].open,
         \A id \in DOMAIN ed.calls : ed.calls[id].key # k,
         ~ Stale(ed, call), NEW reply \in Results(Nat), reply.id \in 0..ed.nextId,
         \A r \in UnderWay(w, ed) : reply.id # r.id,
         Fits(w, ed, call, reply),
         ed.sess[k].rendered /\ ~ ed.sess[k].astray =>
           /\ ed.sess[k].held = ed.sess[k].shown.rows
           /\ ed.sess[k].index = ed.sess[k].shown.index
  PROVE  Screen(w, Apply(ed, k, call, reply), {})
<1> DEFINE ids == 1..ed.nextId
           s == ed.sess[k]
           rows == IF reply.whole THEN reply.rows ELSE Patched(s.held, reply.patch)
           fits == reply.whole \/ PatchFits(s.held, reply.patch)
           agrees == Len(rows) = Len(reply.rows) /\ SourceSum(rows) = SourceSum(reply.rows)
           spoilt == [s EXCEPT !.held = rows]
           map == [buf |-> call.buf, tick |-> call.tick, gen |-> call.gen]
           shown == [id |-> reply.id, rows |-> reply.rows, index |-> reply.index]
           index == IF reply.carries THEN reply.index ELSE s.index
           astray == reply.base \in s.givenUp \/ (reply.base > 0 /\ s.astray)
           t == [s EXCEPT !.held = rows, !.index = index, !.rendered = TRUE, !.map = map,
                          !.astray = astray, !.shown = shown]
           middle == Put(ed, k, spoilt)
           last == Put(ed, k, t)
           next == Apply(ed, k, call, reply)
<1>1. k \in Keys
  BY DEF Calls
<1>2. /\ s \in Sessions(ids) /\ s.shown.id \in 0..ed.nextId /\ MapIsRight(ed, k)
      /\ \A r \in UnderWay(w, ed) : s.shown.id # r.id
  BY <1>1, ShownParts
<1>3. /\ reply.patch \in Patches /\ reply.rows \in Seq(Row) /\ reply.index \in Nat
      /\ reply.id \in Nat /\ reply.base \in Nat
  BY DEF Results
<1>4. rows \in Seq(ScreenRow)
  <2>1. Row \subseteq ScreenRow
    BY DEF Row, ScreenRow
  <2>2. s.held \in Seq(ScreenRow)
    BY <1>2, SessionParts
  <2> QED BY <1>3, <2>1, <2>2, SeqMonotonic, PatchedType
<1>5. next = IF ~ reply.whole /\ ~ s.rendered THEN Render(ed, k)
             ELSE IF ~ fits \/ ~ agrees THEN Resync(middle, k)
             ELSE last
  BY DEF Apply, rows, Put
<1>6. ASSUME ~ s.rendered
      PROVE  Screen(w, Render(ed, k), {})
  BY <1>6, <1>1, ScreenRender DEF InStep, Screen
<1>7. Screen(w, Resync(middle, k), {})
  <2>1. /\ spoilt \in Sessions(ids) /\ spoilt.gen = s.gen /\ spoilt.open
        /\ spoilt.shown = s.shown /\ spoilt.map = s.map /\ spoilt.width = s.width
        /\ spoilt.givenUp = s.givenUp
    BY <1>2, <1>4 DEF Sessions
  <2> HIDE DEF spoilt
  <2>2. Sound(middle, rest) /\ middle.sess[k] = spoilt /\ middle.calls = ed.calls
    BY <1>1, <2>1, SessionUpdate, PutParts
  <2>3. MapIsRight(middle, k)
    BY <1>1, <1>2, <2>1, MapStays
  <2>4. Screen(w, middle, {k})
    BY <1>1, <1>2, <2>1, <2>3, ScreenPut
  <2> HIDE DEF middle
  <2> QED BY <1>1, <2>1, <2>2, <2>4, ScreenResync
<1>8. ASSUME reply.whole \/ s.rendered
      PROVE  Screen(w, last, {})
  <2>1. /\ shown \in Answers /\ map \in Maps /\ index \in Nat /\ astray \in BOOLEAN
        /\ shown.id = reply.id /\ shown.rows = reply.rows /\ shown.index = reply.index
    BY <1>3, <1>2, SessionParts DEF Calls, Maps, Answers
  <2>2. map.buf = call.buf /\ map.tick = call.tick /\ map.gen = call.gen
    OBVIOUS
  <2> HIDE DEF shown, map, index
  <2>3. astray <=> reply.base \in s.givenUp \/ (reply.base > 0 /\ s.astray)
    OBVIOUS
  <2> HIDE DEF astray, rows
  <2>4. /\ t \in Sessions(ids) /\ t.gen = s.gen
        /\ t.shown = shown /\ t.map = map /\ t.width = s.width
        /\ t.givenUp = s.givenUp /\ t.held = rows /\ t.index = index
        /\ t.astray <=> astray
    BY <1>2, <1>4, <2>1 DEF Sessions
  <2> HIDE DEF t
  <2>5. last.sess[k] = t /\ last.buf = ed.buf /\ last.calls = ed.calls
    BY <1>1, PutParts
  <2>6. /\ call.gen = s.gen /\ call.tick = ed.buf[call.buf].tick
        /\ call.gen \in Nat /\ call.tick \in Nat
    BY DEF Stale, Calls
  <2>7. reply.rows = Layout(ed.buf[call.buf].doc, LaidOutAt(s.width))
    BY <2>6 DEF Fits
  <2> HIDE DEF last
  <2>8. MapIsRight(last, k)
    <3> SUFFICES /\ map.gen <= t.gen
                 /\ map.tick <= ed.buf[map.buf].tick
                 /\ t.shown.rows = Layout(ed.buf[map.buf].doc, LaidOutAt(t.width))
      BY <2>4, <2>5 DEF MapIsRight
    <3> QED BY <2>1, <2>2, <2>4, <2>6, <2>7
  <2>9. InStep(w, last, k)
    <3>1. k \in DOMAIN w.memory => w.memory[k].id \in s.givenUp \/ Alike(w.memory[k], t.shown)
      BY <2>1, <2>4 DEF Fits, Alike
    <3>2. ASSUME ~ t.astray
          PROVE  t.held = t.shown.rows /\ t.index = t.shown.index
      <4>1. reply.base \notin s.givenUp /\ (reply.base > 0 => ~ s.astray)
        BY <2>3, <2>4, <3>2
      <4>2. reply.base = 0 => reply.whole /\ reply.carries
        BY DEF Fits
      <4>3. CASE reply.whole /\ reply.carries
        BY <2>1, <2>4, <4>3 DEF rows, index
      <4>4. CASE ~ (reply.whole /\ reply.carries)
        <5>1. reply.base > 0 /\ s.rendered
          BY <1>3, <4>2, <4>4 DEF Fits
        <5>2. s.held = s.shown.rows /\ s.index = s.shown.index
          BY <4>1, <5>1
        <5>3. s.shown \in Answers
          BY <1>2 DEF Sessions
        <5> HIDE DEF s
        <5>4. /\ ~ reply.whole => Patched(s.held, reply.patch) = reply.rows
              /\ ~ reply.carries => s.index = reply.index
          BY <4>1, <5>1, <5>2, <5>3, FittingRows DEF s
        <5>5. rows = reply.rows
          BY <5>4 DEF rows
        <5>6. index = reply.index
          BY <5>4 DEF index
        <5> QED BY <2>1, <2>4, <5>5, <5>6
      <4> QED BY <4>3, <4>4
    <3> QED BY <2>4, <2>5, <3>1, <3>2 DEF InStep
  <2>10. t.shown.id \in 0..ed.nextId /\ \A r \in UnderWay(w, ed) : t.shown.id # r.id
    BY <2>1, <2>4
  <2>11. ed.sess[k].givenUp \subseteq t.givenUp
    BY <2>4
  <2> HIDE DEF s
  <2>12. Screen(w, Put(ed, k, t), {})
    BY <1>1, <2>4, <2>8, <2>9, <2>10, <2>11, ScreenPut DEF last
  <2> QED BY <2>12 DEF last
<1> HIDE DEF fits, agrees, next, last, middle
<1>9. s.rendered \in BOOLEAN
  BY <1>2, SessionParts
<1> HIDE DEF s
<1>10. Screen(w, next, {})
  BY <1>5, <1>6, <1>7, <1>8, <1>9
<1> QED BY <1>10 DEF next

\* A callback, whatever it is called with, leaves its session in step.
LEMMA ScreenReply ==
  ASSUME NEW rest, NEW w, NEW ed, Sound(ed, rest), Screen(w, ed, {}), NEW call \in Calls,
         ed.sess[call.key].open, NEW reply \in Replies(Nat),
         reply.id \in 1..ed.nextId,
         \A id \in DOMAIN ed.calls : id = reply.id <=> ed.calls[id].key = call.key,
         \A r \in UnderWay(w, ed) :
           r.id = reply.id /\ ed.sess[r.key].open => r.id \in ed.sess[r.key].givenUp,
         reply.type # "error" =>
           Fits(w, ed, call, reply) /\ \A r \in UnderWay(w, ed) : reply.id # r.id
  PROVE  Screen(w, OnRenderReply(ed, call, reply), {})
<1> DEFINE done == Settled(ed, reply.id)
           less == rest \ {reply.id}
           k == call.key
           next == OnRenderReply(ed, call, reply)
<1>1. k \in Keys /\ reply.id \in 1..ed.nextId /\ ed.nextId \in Nat
  BY EditorParts DEF Calls
<1>2. Sound(done, less)
  BY SettledSpec
<1>3. reply.id \in DOMAIN ed.calls => ed.calls[reply.id].key = k
  OBVIOUS
<1>4. Screen(w, done, {k})
  BY <1>1, <1>3, ScreenSettled
<1>5. /\ done.sess = ed.sess /\ done.buf = ed.buf /\ done.nextId = ed.nextId
      /\ done.mail = ed.mail
      /\ done.calls = Without(ed.calls, {reply.id})
  BY EditorParts DEF Settled, Editors
<1>6. /\ \/ next \in {Resync(done, k), Placeholder(done, k)}
         \/ reply.type # "error" /\ ~ Stale(done, call) /\ next = Apply(done, k, call, reply)
  BY DEF OnRenderReply, done, k
<1> HIDE DEF done, less, next
<1>7. \A id \in DOMAIN done.calls : done.calls[id].key # k
  BY <1>5 DEF Without
<1>8. done.sess[k].open
  BY <1>5
<1>9. UnderWay(w, done) = UnderWay(w, ed)
  BY <1>5 DEF UnderWay, Pipe
<1>10. Screen(w, Resync(done, k), {}) /\ Screen(w, Placeholder(done, k), {})
  BY <1>1, <1>2, <1>4, <1>7, <1>8, ScreenResync, ScreenPlaceholder
<1>11. ASSUME reply.type # "error", ~ Stale(done, call)
       PROVE  Screen(w, Apply(done, k, call, reply), {})
  <2>1. reply \in Results(Nat)
    BY <1>11 DEF Replies, Failure
  <2>2. Fits(w, done, call, reply)
    BY <1>5, <1>11 DEF Fits
  <2>3. reply.id \in 0..done.nextId
    BY <1>1, <1>5
  <2>4. \A r \in UnderWay(w, done) : reply.id # r.id
    BY <1>9, <1>11
  <2>5. done.sess[k].rendered /\ ~ done.sess[k].astray =>
           /\ done.sess[k].held = done.sess[k].shown.rows
           /\ done.sess[k].index = done.sess[k].shown.index
    BY <1>1, <1>5, <1>8 DEF Screen, InStep
  <2>6. k = call.key
    OBVIOUS
  <2> HIDE DEF k
  <2> QED BY <1>2, <1>4, <1>7, <1>8, <1>11, <2>1, <2>2, <2>3, <2>4, <2>5, <2>6, ScreenApply
<1>12. Screen(w, next, {})
  BY <1>6, <1>10, <1>11
<1> QED BY <1>12 DEF next

\* A failure touches the calls and the renders of its session and no others.
LEMMA FailureKeeps ==
  ASSUME NEW rest, NEW w, NEW ed, Sound(ed, rest), Screen(w, ed, {}), NEW call \in Calls,
         ed.sess[call.key].open, NEW id
  PROVE  LET next == OnRenderReply(ed, call, Failure(id))
         IN  /\ \A j \in DOMAIN next.calls :
                  \/ j \in DOMAIN ed.calls /\ next.calls[j] = ed.calls[j]
                  \/ j = ed.nextId + 1 /\ next.calls[j].key = call.key
             /\ \A r \in UnderWay(w, next) : r \in UnderWay(w, ed) \/ r.id = ed.nextId + 1
<1> DEFINE done == Settled(ed, id)
           k == call.key
           s == done.sess[k]
           t == [s EXCEPT !.rendered = FALSE]
           u == [s EXCEPT !.held = << >>, !.index = 0, !.map = NoMap, !.rendered = FALSE]
           quiet == Put(done, k, t)
           next == OnRenderReply(ed, call, Failure(id))
<1>1. k \in Keys /\ Typed(w, 1..ed.nextId) /\ NoneTwice(Pipe(w, ed))
  BY DEF Calls, Screen, OnePlace
<1>2. Sound(done, rest \ {id})
  BY SettledSpec
<1>3. /\ done.sess = ed.sess /\ done.nextId = ed.nextId /\ done.mail = ed.mail
      /\ done.calls = Without(ed.calls, {id})
  BY EditorParts DEF Settled, Editors
<1>4. next \in {Render(quiet, k), Put(done, k, u)}
  BY DEF OnRenderReply, Failure, Resync, Placeholder, Put
<1> HIDE DEF next, done
<1>5. \A j \in DOMAIN done.calls : j \in DOMAIN ed.calls /\ done.calls[j] = ed.calls[j]
  BY <1>3 DEF Without
<1>6. \A v : /\ Put(done, k, v).calls = done.calls /\ Put(done, k, v).mail = ed.mail
             /\ Put(done, k, v).nextId = ed.nextId
  BY <1>1, <1>2, <1>3, EditorParts DEF Put, Editors
<1>7. t \in Sessions(1..ed.nextId) /\ t.gen = s.gen /\ t.open
  <2>1. s \in Sessions(1..ed.nextId)
    BY <1>1, <1>3, EditorParts
  <2> HIDE DEF s
  <2> QED BY <2>1 DEF Sessions
<1> HIDE DEF t, u, s
<1>8. Sound(quiet, rest \ {id}) /\ quiet.sess[k] = t
  BY <1>1, <1>2, <1>3, <1>7, SessionUpdate DEF s
<1>9. quiet.calls = done.calls /\ quiet.nextId = ed.nextId /\ Pipe(w, quiet) = Pipe(w, ed)
      /\ UnderWay(w, quiet) = UnderWay(w, ed)
  BY <1>6 DEF Pipe, UnderWay
<1> HIDE DEF quiet
<1>10. CASE next = Put(done, k, u)
  BY <1>6, <1>10, <1>5 DEF Pipe, UnderWay, next
<1>11. CASE next = Render(quiet, k)
  <2>1. quiet.sess[k].open
    BY <1>7, <1>8
  <2>2. /\ DOMAIN next.calls = (DOMAIN quiet.calls \ Moot(quiet, k)) \cup {ed.nextId + 1}
        /\ next.calls[ed.nextId + 1] = Awaited(quiet, k)
        /\ KeepsOthers(quiet, next, k)
    <3>1. LET r == Render(quiet, k)
          IN  /\ DOMAIN r.calls = (DOMAIN quiet.calls \ Moot(quiet, k)) \cup {quiet.nextId + 1}
              /\ r.calls[quiet.nextId + 1] = Awaited(quiet, k)
              /\ KeepsOthers(quiet, r, k)
      BY <1>1, <1>8, <2>1, RenderParts
    <3> QED BY <1>9, <1>11, <3>1
  <2>3. UnderWay(w, next) = UnderWay(w, quiet) \cup {Asking(quiet, k)}
    BY <1>1, <1>8, <1>9, <1>11, <2>1, RenderUnderWay
  <2>4. Asking(quiet, k).id = ed.nextId + 1 /\ Awaited(quiet, k).key = k
    BY <1>9 DEF Asking, Awaited
  <2>5. ASSUME NEW j \in DOMAIN next.calls
        PROVE  \/ j \in DOMAIN ed.calls /\ next.calls[j] = ed.calls[j]
               \/ j = ed.nextId + 1 /\ next.calls[j].key = call.key
    BY <2>2, <2>4, <1>5, <1>9 DEF KeepsOthers
  <2>6. \A r \in UnderWay(w, next) : r \in UnderWay(w, ed) \/ r.id = ed.nextId + 1
    BY <1>9, <2>3, <2>4
  <2> QED BY <2>5, <2>6 DEF next
<1> QED BY <1>4, <1>10, <1>11

\* Any number of sessions may ask again.
LEMMA ScreenRenderAll ==
  ASSUME NEW rest, NEW w, NEW ed, Sound(ed, rest), Screen(w, ed, {}), NEW order \in Seq(Keys),
         \A i \in 1..Len(order) : ed.sess[order[i]].open
  PROVE  Screen(w, RenderAll(ed, order), {})
<1> DEFINE len == Len(order)
<1>1. len \in Nat /\ \A i \in 1..len : order[i] \in Keys
  BY LenProperties, ElementOfSeq
<1>2. PICK after : RenderingSteps(ed, order, after)
  BY RenderAllSteps
<1>3. /\ after[0] = ed /\ RenderAll(ed, order) = after[len]
      /\ \A n \in 1..len : after[n] = Render(after[n - 1], order[n])
  BY <1>2 DEF RenderingSteps
<1>4. \A n \in 0..len : Sound(after[n], rest) /\ Follows(ed, after[n])
  BY <1>2, RenderAllSound
<1> DEFINE Bad == {n \in 0..len : ~ Screen(w, after[n], {})}
<1>5. ASSUME Bad # {} PROVE FALSE
  <2>1. PICK m \in Bad : \A n \in Bad : m <= n
    <3>1. Bad \in SUBSET Nat
      BY <1>1
    <3> HIDE DEF Bad
    <3> QED BY <1>5, <3>1, NatLeast
  <2>2. m \in 0..len /\ ~ Screen(w, after[m], {})
    BY <2>1
  <2>3. m > 0
    BY <1>3, <2>2
  <2>4. m - 1 \in 0..len /\ m - 1 < m /\ m \in 1..len
    BY <1>1, <2>2, <2>3
  <2>5. Screen(w, after[m - 1], {})
    BY <2>1, <2>4
  <2> DEFINE prev == after[m - 1]
             k == order[m]
  <2>6. Sound(prev, rest) /\ Follows(ed, prev) /\ k \in Keys /\ ed.sess[k].open
    BY <1>1, <1>4, <2>4
  <2>7. after[m] = Render(prev, k)
    BY <1>3, <2>4
  <2> HIDE DEF prev, k
  <2>8. prev.sess[k].open
    BY <2>6 DEF Follows
  <2>9. Screen(w, Render(prev, k), {})
    BY <2>5, <2>6, <2>8, ScreenRender DEF prev
  <2> QED BY <2>2, <2>7, <2>9
<1>6. Screen(w, after[len], {})
  BY <1>1, <1>5
<1> QED BY <1>3, <1>6

\* With nothing under way and nothing remembered, the calls may be forgotten.
LEMMA ScreenCleared ==
  ASSUME NEW rest, NEW w, NEW ed, Sound(ed, rest), Screen(w, ed, {}),
         UnderWay(w, ed) = {}, DOMAIN w.memory = {}
  PROVE  LET base == [ed EXCEPT !.calls = << >>]
         IN  Screen(w, base, {}) /\ UnderWay(w, base) = {} /\ DOMAIN base.calls = {}
<1> DEFINE base == [ed EXCEPT !.calls = << >>]
<1>1. /\ base.nextId = ed.nextId /\ base.buf = ed.buf /\ base.sess = ed.sess
      /\ base.mail = ed.mail /\ base.inbox = ed.inbox /\ base.calls = << >>
  BY EditorParts DEF Editors
<1>2. DOMAIN base.calls = {}
  BY <1>1
<1> HIDE DEF base
<1>3. /\ Pipe(w, base) = Pipe(w, ed) /\ UnderWay(w, base) = UnderWay(w, ed)
      /\ Given(w, base) = Given(w, ed)
  BY <1>1 DEF Pipe, UnderWay, Given
<1>4. Typed(w, 1..base.nextId) /\ OnePlace(w, base) /\ Unanswered(w, base)
  BY <1>1, <1>3 DEF Screen, OnePlace, Unanswered
<1>5. Ticks(base)
  BY <1>2 DEF Ticks
<1>6. \A k \in Keys : base.sess[k].open => MapIsRight(base, k) /\ InStep(w, base, k)
  BY <1>1 DEF Screen, MapIsRight, InStep
<1>7. Screen(w, base, {})
  BY <1>2, <1>3, <1>4, <1>5, <1>6 DEF Screen
<1> QED BY <1>2, <1>3, <1>7 DEF base

\* The calls of a daemon that is gone fail one after another.  Whatever the first
\* callbacks ask for is new, and for other sessions than those still to be told.
LEMMA ScreenClearPending ==
  ASSUME NEW w, NEW ed, Sound(ed, {}), Screen(w, ed, {}),
         UnderWay(w, ed) = {}, DOMAIN w.memory = {},
         NEW order \in SetToSeqs(DOMAIN ed.calls)
  PROVE  Screen(w, ClearPending(ed, order), {})
<1> DEFINE len == Len(order)
<1>1. /\ len \in Nat /\ ed.nextId \in Nat
      /\ \A i \in 1..len : order[i] \in DOMAIN ed.calls
      /\ \A i, j \in 1..len : order[i] = order[j] => i = j
  BY ClearingOrder, EditorParts
<1>2. PICK after : ClearingSteps(ed, order, after)
  BY <1>1, ClearPendingSteps
<1>3. /\ after[0] = [ed EXCEPT !.calls = << >>] /\ ClearPending(ed, order) = after[len]
      /\ \A n \in 1..len :
           after[n] = OnRenderReply(after[n - 1], ed.calls[order[n]], Failure(order[n]))
  BY <1>2 DEF ClearingSteps
<1>4. \A n \in 0..len : Sound(after[n], StillToRun(order, n)) /\ Follows(ed, after[n])
  BY <1>2, ClearPendingSound
<1> DEFINE Told(n) == {ed.calls[order[i]].key : i \in 1..n}
           New(e, n) ==
             /\ \A j \in DOMAIN e.calls : j > ed.nextId /\ e.calls[j].key \in Told(n)
             /\ \A r \in UnderWay(w, e) : r.id > ed.nextId
           Right(n) == Screen(w, after[n], {}) /\ New(after[n], n)
           Bad == {n \in 0..len : ~ Right(n)}
<1>5. Right(0)
  <2>1. Screen(w, after[0], {}) /\ UnderWay(w, after[0]) = {} /\ DOMAIN after[0].calls = {}
    <3>1. LET base == [ed EXCEPT !.calls = << >>]
          IN  Screen(w, base, {}) /\ UnderWay(w, base) = {} /\ DOMAIN base.calls = {}
      BY ScreenCleared
    <3> QED BY <1>3, <3>1
  <2> HIDE DEF Told
  <2> QED BY <2>1
<1>6. ASSUME Bad # {} PROVE FALSE
  <2>1. PICK m \in Bad : \A n \in Bad : m <= n
    <3>1. Bad \in SUBSET Nat
      BY <1>1
    <3> HIDE DEF Bad
    <3> QED BY <1>6, <3>1, NatLeast
  <2>2. m \in 0..len /\ ~ Right(m)
    BY <2>1
  <2>3. m > 0
    <3> HIDE DEF Right
    <3> QED BY <1>5, <2>2
  <2>4. m - 1 \in 0..len /\ m - 1 < m /\ m \in 1..len
    <3>1. m \in 0..len
      BY <2>1
    <3> QED BY <1>1, <2>3, <3>1
  <2>5. Right(m - 1)
    <3> HIDE DEF Right
    <3> QED BY <2>1, <2>4
  <2> DEFINE prev == after[m - 1]
             next == after[m]
             id == order[m]
             call == ed.calls[id]
  <2>6. Screen(w, prev, {}) /\ New(prev, m - 1)
    BY <2>5
  <2>7. /\ Sound(prev, StillToRun(order, m - 1)) /\ Follows(ed, prev)
        /\ Sound(next, StillToRun(order, m)) /\ Follows(ed, next)
    BY <1>4, <2>4
  <2>8. next = OnRenderReply(prev, call, Failure(id))
    BY <1>3, <2>4
  <2>9. id \in DOMAIN ed.calls /\ id \in 1..ed.nextId /\ call \in Calls /\ call.key \in Keys
        /\ ed.sess[call.key].open
    BY <1>1, <2>4, CallParts
  <2>10. call.key \notin Told(m - 1)
    <3> SUFFICES ASSUME NEW i \in 1..(m - 1), ed.calls[order[i]].key = call.key
                 PROVE  FALSE
      OBVIOUS
    <3>1. i \in 1..len /\ i # m
      BY <2>4
    <3>2. order[i] \in DOMAIN ed.calls /\ order[i] # id
      BY <1>1, <2>4, <3>1
    <3>3. /\ order[i] \in DOMAIN ed.requests /\ ed.requests[order[i]] = ed.calls[order[i]].key
          /\ id \in DOMAIN ed.requests /\ ed.requests[id] = call.key
      BY <2>9, <3>2, CallParts
    <3>4. \A x, y \in DOMAIN ed.requests : ed.requests[x] = ed.requests[y] => x = y
      BY EditorParts
    <3> QED BY <3>2, <3>3, <3>4
  <2>11. Told(m) = Told(m - 1) \cup {call.key}
    BY <2>4
  <2> HIDE DEF prev, next, id, call, Told
  <2>12. prev.sess[call.key].open /\ prev.nextId \in Nat /\ prev.nextId >= ed.nextId
    BY <2>7, <2>9, EditorParts DEF Follows
  <2>13. Failure(id) \in Replies(Nat) /\ Failure(id).id = id /\ Failure(id).type = "error"
    BY <1>1, <2>9 DEF Replies, Failure
  <2>14. id \in 1..prev.nextId
    BY <1>1, <2>9, <2>12
  <2>15. \A j \in DOMAIN prev.calls : j = id <=> prev.calls[j].key = call.key
    BY <1>1, <2>6, <2>9, <2>10
  <2>16. \A r \in UnderWay(w, prev) : r.id # id
    BY <1>1, <2>6, <2>9
  <2>17. Screen(w, next, {})
    BY <2>6, <2>7, <2>8, <2>9, <2>12, <2>13, <2>14, <2>15, <2>16, ScreenReply
  <2>18. New(next, m)
    BY <2>6, <2>7, <2>8, <2>9, <2>12, FailureKeeps, <1>1, <2>11
  <2> QED BY <2>2, <2>17, <2>18 DEF next
<1>7. Right(len)
  BY <1>1, <1>6
<1> QED BY <1>3, <1>7

-----------------------------------------------------------------------------
(* The end of a handler.                                                   *)

\* What a handler leaves as it found it when the variables take its parts.
SameEditor(ed, next) ==
  /\ next \in Editors(1..ed.nextId) /\ next.nextId = ed.nextId
  /\ next.calls = ed.calls /\ next.buf = ed.buf /\ next.sess = ed.sess
  /\ next.mail = << >>

LEMMA SameEditorShows ==
  ASSUME NEW ed, NEW next, SameEditor(ed, next)
  PROVE  /\ next \in Editors(1..ed.nextId) /\ next.nextId = ed.nextId
         /\ next.calls = ed.calls
         /\ \A b \in Bufs : next.buf[b] = ed.buf[b] \/ next.buf[b].tick > ed.buf[b].tick
         /\ \A k \in Keys : ShowsSame(ed.sess[k], next.sess[k])
BY DEF SameEditor, ShowsSame

\* What it wrote goes after what is in the pipe.
LEMMA ScreenWritten ==
  ASSUME NEW rest, NEW w, NEW ed, Sound(ed, rest), Screen(w, ed, {}),
         NEW v, NEW next, SameEditor(ed, next), next.inbox = ed.inbox,
         v.pipe = w.pipe \o ed.mail, v.tasks = w.tasks, v.replies = w.replies,
         v.memory = w.memory
  PROVE  Screen(v, next, {})
<1>1. /\ Typed(w, 1..ed.nextId) /\ OnePlace(w, ed)
      /\ Pipe(w, ed) \in Seq(Requests(1..ed.nextId))
  BY TravelParts DEF Screen
<1>2. Pipe(v, next) = Pipe(w, ed)
  BY <1>1, ConcatEmptySeq DEF Pipe, SameEditor
<1>3. UnderWay(v, next) = UnderWay(w, ed) /\ Given(v, next) = Given(w, ed)
  BY <1>2 DEF UnderWay, Given
<1>4. Typed(v, 1..ed.nextId)
  BY <1>1 DEF Typed, Pipe
<1>5. OnePlace(v, next)
  BY <1>1, <1>2 DEF OnePlace
<1> QED BY <1>3, <1>4, <1>5, SameEditorShows, ScreenAlike

\* Or to a process of its own, which has read nothing and remembers nothing.
LEMMA ScreenStarted ==
  ASSUME NEW rest, NEW w, NEW ed, Sound(ed, rest), Screen(w, ed, {}),
         NEW v, NEW next, SameEditor(ed, next), next.inbox = << >>,
         v.pipe = <<Ping>> \o ed.mail, v.tasks = {}, v.replies = {}, v.memory = << >>
  PROVE  Screen(v, next, {})
<1> DEFINE X == Requests(1..ed.nextId)
<1>1. Typed(w, 1..ed.nextId) /\ OnePlace(w, ed) /\ NoneTwice(w.pipe \o ed.mail)
  BY DEF Screen, OnePlace, Pipe
<1>2. w.pipe \in Seq(X) /\ ed.mail \in Seq(X) /\ Ping \in X /\ next.mail = << >>
  BY <1>1, EditorParts DEF Typed, Requests, SameEditor
<1>3. v.tasks \subseteq Tasks(1..ed.nextId) /\ v.replies \subseteq Replies(1..ed.nextId)
      /\ v.memory \in Table(Keys, Answers) /\ DOMAIN v.memory = {}
  BY EmptyTable
<1> HIDE DEF X
<1>4. <<Ping>> \in Seq(X) /\ RendersIn(<<Ping>>) = {} /\ NoneTwice(<<Ping>>)
  BY <1>2, OneRequest DEF Ping
<1>5. /\ NoneTwice(ed.mail) /\ RendersIn(ed.mail) \subseteq RendersIn(w.pipe \o ed.mail)
  BY <1>1, <1>2, RendersJoin
<1> DEFINE new == <<Ping>>
<1>6. v.pipe \in Seq(X) /\ v.pipe \o << >> = v.pipe
  BY <1>2, <1>4, ConcatProperties, ConcatEmptySeq DEF new
<1>7. Pipe(v, next) = v.pipe
  BY <1>2, <1>6 DEF Pipe
<1>8. RendersIn(v.pipe) = RendersIn(ed.mail) /\ NoneTwice(v.pipe)
  <2>1. /\ RendersIn(new \o ed.mail) = RendersIn(new) \cup RendersIn(ed.mail)
        /\ NoneTwice(new) /\ NoneTwice(ed.mail)
              /\ (\A a \in RendersIn(new), b \in RendersIn(ed.mail) : a.id # b.id)
              => NoneTwice(new \o ed.mail)
    <3>1. new \in Seq(X)
      BY <1>4
    <3> HIDE DEF new
    <3> QED BY <1>2, <3>1, RendersJoin
  <2>2. RendersIn(new) = {} /\ NoneTwice(new) /\ v.pipe = new \o ed.mail
    BY <1>4
  <2> HIDE DEF new
  <2> QED BY <1>5, <2>1, <2>2
<1>9. UnderWay(v, next) \subseteq UnderWay(w, ed)
  BY <1>5, <1>7, <1>8 DEF UnderWay, Pipe
<1>10. Given(v, next) \subseteq Given(w, ed)
  BY DEF Given
<1>11. Typed(v, 1..ed.nextId)
  BY <1>3, <1>6 DEF Typed, X
<1>12. OnePlace(v, next)
  BY <1>7, <1>8 DEF OnePlace
<1> QED BY <1>3, <1>9, <1>10, <1>11, <1>12, SameEditorShows, ScreenAlike

\* A handler that leaves the screen right leaves the next state right.
LEMMA ScreenFinish ==
  ASSUME ScreenInv, NEW ed, Sound(ed, {}), ed.nextId >= nextId, Screen(World, ed, {}),
         ed.job # "run" => job # "run", Finish(ed), restart' \in BOOLEAN
  PROVE  ScreenInv'
<1>1. Inv' /\ NobodyThere
  BY FinishSpec DEF ScreenInv
<1>2. Sound(Editor', {})
  BY <1>1 DEF Inv
<1>3. /\ Editor'.calls = ed.calls /\ Editor'.buf = ed.buf /\ Editor'.sess = ed.sess
      /\ Editor'.nextId = ed.nextId /\ Editor'.mail = << >> /\ Editor'.inbox = toEditor'
  BY DEF Editor, Finish
<1>4. SameEditor(ed, Editor')
  BY <1>2, <1>3 DEF SameEditor, Sound
<1>5. /\ World'.pipe = toDaemon' /\ World'.tasks = tasks' /\ World'.replies = replies'
      /\ World'.memory = remembered'
      /\ World.pipe = toDaemon /\ World.tasks = tasks /\ World.replies = replies
      /\ World.memory = remembered
  BY DEF World
<1>6. CASE ed.mail # << >> /\ ed.job # "run"
  BY <1>6, <1>3, <1>4, <1>5, ScreenStarted, <1>1 DEF Finish, StartDaemon, BlankDaemon,
     NobodyThere, ScreenInv
<1>7. CASE ~ (ed.mail # << >> /\ ed.job # "run")
  <2>1. /\ job' = ed.job /\ toDaemon' = toDaemon \o ed.mail /\ toEditor' = ed.inbox
        /\ tasks' = tasks /\ replies' = replies /\ remembered' = remembered
    BY <1>7 DEF Finish, daemonVars
  <2>2. NobodyThere'
    BY <1>1, <1>7, <2>1 DEF NobodyThere
  <2>3. Screen(World', Editor', {})
    BY <1>3, <1>4, <1>5, <2>1, ScreenWritten
  <2> QED BY <1>1, <2>2, <2>3 DEF ScreenInv
<1> QED BY <1>6, <1>7

-----------------------------------------------------------------------------
(* What the editor does.                                                   *)

\* A handler that began with the editor as it is.
LEMMA ScreenHandled ==
  ASSUME ScreenInv, NEW ed, Sound(ed, {}), Follows(Editor, ed), Screen(World, ed, {}),
         Finish(ed), restart' \in BOOLEAN
  PROVE  ScreenInv'
<1>1. ed.nextId >= nextId /\ ed.job = job
  BY DEF Follows, Editor
<1> QED BY <1>1, ScreenFinish

\* Nothing is written and nothing is heard.
LEMMA ScreenTouched ==
  ASSUME NEW rest, NEW w, NEW ed, Sound(ed, rest), Screen(w, ed, {}),
         NEW next, next \in Editors(1..ed.nextId), next.nextId = ed.nextId,
         next.calls = ed.calls, next.mail = ed.mail, Given(w, next) \subseteq Given(w, ed),
         \A b \in Bufs : next.buf[b] = ed.buf[b] \/ next.buf[b].tick > ed.buf[b].tick,
         \A k \in Keys : ShowsSame(ed.sess[k], next.sess[k])
  PROVE  Screen(w, next, {})
<1>1. Pipe(w, next) = Pipe(w, ed) /\ UnderWay(w, next) = UnderWay(w, ed)
  BY DEF Pipe, UnderWay
<1>2. Typed(w, 1..ed.nextId) /\ OnePlace(w, ed)
  BY DEF Screen
<1>3. OnePlace(w, next)
  BY <1>1, <1>2 DEF OnePlace
<1> QED BY <1>1, <1>2, <1>3, ScreenAlike

\* The answers in a queue that lost its first line were in it before.
LEMMA HeardLess ==
  ASSUME NEW X, NEW seq \in Seq(X), seq # << >>,
         NEW w, NEW ed, NEW next, ed.inbox = seq, next.inbox = Tail(seq)
  PROVE  Given(w, next) \subseteq Given(w, ed)
<1>1. \A i \in 1..Len(Tail(seq)) : i + 1 \in 1..Len(seq) /\ Tail(seq)[i] = seq[i + 1]
  BY HeadTailProperties, EmptySeq, LenProperties
<1> QED BY <1>1 DEF Given

LEMMA ScreenReading ==
  ASSUME ScreenInv, toEditor # << >>, NEW g \in BOOLEAN
  PROVE  /\ Screen(World, [Reading EXCEPT !.greeting = g], {})
         /\ Screen(World, Reading, {})
<1> DEFINE e == [Reading EXCEPT !.greeting = g]
<1>1. Inv /\ Sound(Editor, {}) /\ Screen(World, Editor, {})
  BY DEF ScreenInv, Inv
<1>2. /\ Sound(e, {}) /\ Sound(Reading, {}) /\ toEditor \in Seq(Lines(1..nextId))
      /\ Editor \in Editors(1..nextId)
  BY <1>1, ReadingSpec, InvParts
<1>3. /\ Reading.nextId = Editor.nextId /\ Reading.calls = Editor.calls
      /\ Reading.mail = Editor.mail /\ Reading.buf = Editor.buf /\ Reading.sess = Editor.sess
      /\ Reading.inbox = Tail(toEditor) /\ Editor.inbox = toEditor
  BY <1>2 DEF Reading, Editor, Editors
<1>4. /\ e.nextId = Editor.nextId /\ e.calls = Editor.calls
      /\ e.mail = Editor.mail /\ e.buf = Editor.buf /\ e.sess = Editor.sess
      /\ e.inbox = Tail(toEditor)
  BY <1>2 DEF Reading, Editor, Editors
<1> HIDE DEF e
<1>5. Given(World, Reading) \subseteq Given(World, Editor)
  BY <1>2, <1>3, HeardLess
<1>6. Given(World, e) \subseteq Given(World, Editor)
  BY <1>2, <1>3, <1>4, HeardLess
<1>7. e \in Editors(1..Editor.nextId) /\ Reading \in Editors(1..Editor.nextId)
  BY <1>2, <1>3, <1>4 DEF Sound
<1>8. \A k \in Keys : /\ ShowsSame(Editor.sess[k], e.sess[k])
                      /\ ShowsSame(Editor.sess[k], Reading.sess[k])
  BY <1>3, <1>4 DEF ShowsSame
<1>9. Screen(World, Reading, {})
  BY <1>1, <1>3, <1>5, <1>7, <1>8, ScreenTouched
<1>10. Screen(World, e, {})
  BY <1>1, <1>4, <1>6, <1>7, <1>8, ScreenTouched
<1> QED BY <1>9, <1>10 DEF e

LEMMA ScreenTimerFires ==
  ASSUME ScreenInv, NEW k \in Keys, TimerFires(k)
  PROVE  ScreenInv'
<1>1. Finish(Render(Editor, k)) /\ restart' = restart /\ k \in Open
  BY DEF TimerFires
<1>2. Inv /\ Sound(Editor, {}) /\ Screen(World, Editor, {}) /\ restart \in BOOLEAN
  BY DEF ScreenInv, Inv
<1>3. Editor.sess[k].open
  BY <1>1, OpenIsKey
<1>4. Sound(Render(Editor, k), {}) /\ Follows(Editor, Render(Editor, k))
  BY <1>2, <1>3, RenderSpec
<1>5. Screen(World, Render(Editor, k), {})
  BY <1>2, <1>3, ScreenRender
<1> QED BY <1>1, <1>2, <1>4, <1>5, ScreenHandled

\* A window opens, or closes and leaves nobody waiting for it.
LEMMA ScreenChange ==
  ASSUME NEW rest, NEW w, NEW ed, Sound(ed, rest), Screen(w, ed, {}), NEW k \in Keys,
         NEW t \in {Closed} \cup {Fresh(b) : b \in Bufs}, t.open => ed.sess[k] = NoSession,
         NEW v, NEW next, next.nextId = ed.nextId, next.buf = ed.buf,
         next.sess = [ed.sess EXCEPT ![k] = t],
         \A id \in DOMAIN ed.calls : id \in DOMAIN next.calls <=> ed.calls[id].key # k,
         \A id \in DOMAIN next.calls : id \in DOMAIN ed.calls /\ next.calls[id] = ed.calls[id],
         Typed(v, 1..ed.nextId), OnePlace(v, next), v.memory = w.memory,
         UnderWay(v, next) \subseteq UnderWay(w, ed), Given(v, next) \subseteq Given(w, ed)
  PROVE  Screen(v, next, {})
<1>1. /\ next.sess[k] = t /\ \A j \in Keys : j # k => next.sess[j] = ed.sess[j]
      /\ ed.nextId \in Nat
  BY EditorParts
<1>2. /\ t # NoSession
      /\ t.open => /\ t.map = NoMap /\ t.rendered = FALSE /\ t.shown.id = 0
  BY DEF Fresh, Closed, NoSession
<1>3. /\ Typed(w, 1..ed.nextId) /\ Unanswered(w, ed) /\ Ticks(ed)
      /\ \A r \in UnderWay(w, ed) : r.id \in 1..ed.nextId /\ r.key \in Keys
  BY TravelParts DEF Screen
<1> HIDE DEF Closed, NoSession
<1>4. Unanswered(v, next)
  BY <1>1, <1>2, <1>3 DEF Unanswered
<1>5. Ticks(next)
  BY <1>3 DEF Ticks
<1>6. ASSUME NEW r \in UnderWay(v, next)
      PROVE  AsAsked(next, r) /\ Wanted(next, r)
  <2>1. AsAsked(ed, r) /\ Wanted(ed, r) /\ r.key \in Keys
    BY <1>3 DEF Screen
  <2>2. ASSUME r.id \in DOMAIN next.calls
        PROVE  /\ next.calls[r.id] = ed.calls[r.id] /\ r.id \in DOMAIN ed.calls
               /\ next.sess[ed.calls[r.id].key] = ed.sess[ed.calls[r.id].key]
    BY <1>1, <2>2, CallParts
  <2>3. AsAsked(next, r)
    BY <2>1, <2>2 DEF AsAsked
  <2>4. CASE r.key = k
    BY <1>1, <1>2, <2>1, <2>4, <2>3 DEF Wanted
  <2>5. CASE r.key # k
    BY <2>1, <2>5, <1>1, <2>3 DEF AsAsked, Wanted
  <2> QED BY <2>4, <2>5
<1>7. ASSUME NEW a \in Given(v, next), a.type = "render_result", a.id \in DOMAIN next.calls
      PROVE  Fits(v, next, next.calls[a.id], a)
  <2> DEFINE call == ed.calls[a.id]
  <2>1. a.id \in DOMAIN ed.calls /\ next.calls[a.id] = call
    BY <1>7
  <2>2. Fits(w, ed, call, a)
    BY <1>7, <2>1 DEF Screen
  <2>3. call.key \in Keys /\ call.key # k
    BY <1>7, <2>1, CallParts
  <2> HIDE DEF call
  <2>4. next.sess[call.key] = ed.sess[call.key]
    BY <1>1, <2>3
  <2>5. Fits(v, next, call, a)
    BY <2>2, <2>4 DEF Fits
  <2> QED BY <2>1, <2>5
<1>8. ASSUME NEW j \in Keys, next.sess[j].open
      PROVE  MapIsRight(next, j) /\ InStep(v, next, j)
  BY <1>1, <1>2, <1>8, SMTT(30) DEF MapIsRight, InStep, Screen
<1> QED BY <1>4, <1>5, <1>6, <1>7, <1>8 DEF Screen

LEMMA ScreenFresh ==
  ASSUME NEW w, NEW ed, Sound(ed, {}), Screen(w, ed, {}), NEW k \in Keys,
         ed.sess[k] = NoSession, NEW b \in Bufs
  PROVE  Screen(w, Put(ed, k, Fresh(b)), {})
<1> DEFINE next == Put(ed, k, Fresh(b))
<1>1. /\ ed \in Editors(1..ed.nextId) /\ Typed(w, 1..ed.nextId) /\ OnePlace(w, ed)
  BY EditorParts DEF Screen
<1>2. /\ next.nextId = ed.nextId /\ next.calls = ed.calls /\ next.buf = ed.buf
      /\ next.mail = ed.mail /\ next.inbox = ed.inbox
      /\ next.sess = [ed.sess EXCEPT ![k] = Fresh(b)]
  BY <1>1 DEF Put, Editors
<1> HIDE DEF next
<1>3. /\ UnderWay(w, next) = UnderWay(w, ed) /\ Given(w, next) = Given(w, ed)
      /\ Pipe(w, next) = Pipe(w, ed)
  BY <1>2 DEF Pipe, UnderWay, Given
<1>4. OnePlace(w, next)
  BY <1>1, <1>3 DEF OnePlace
<1>5. \A id \in DOMAIN ed.calls : ed.calls[id].key # k
  BY CallParts DEF NoSession
<1>6. Screen(w, next, {})
  BY <1>1, <1>2, <1>3, <1>4, <1>5, ScreenChange
<1> QED BY <1>6 DEF next

LEMMA ScreenOpenPreview ==
  ASSUME ScreenInv, NEW k \in Keys, NEW b \in Bufs, OpenPreview(k, b)
  PROVE  ScreenInv'
<1> DEFINE e == Put(Editor, k, Fresh(b))
<1>1. /\ Finish(Render(e, k)) /\ restart' = restart /\ sess[k] = NoSession
      /\ Editor.sess = sess
  BY DEF OpenPreview, Put, Editor
<1>2. /\ Inv /\ Sound(Editor, {}) /\ Screen(World, Editor, {}) /\ restart \in BOOLEAN
      /\ ~ Editor.sess[k].open
  BY <1>1 DEF ScreenInv, Inv, NoSession
<1>3. Sound(e, {}) /\ e.nextId = Editor.nextId /\ e.sess[k].open
  BY <1>2, FreshSpec
<1>4. Screen(World, e, {})
  BY <1>1, <1>2, ScreenFresh
<1>5. e.job = job
  BY <1>2, InvParts DEF Put, Editors, Editor
<1> HIDE DEF e
<1>6. Sound(Render(e, k), {}) /\ Follows(e, Render(e, k))
  BY <1>3, RenderSpec
<1>7. Screen(World, Render(e, k), {})
  BY <1>3, <1>4, ScreenRender
<1>8. Render(e, k).nextId >= nextId /\ Render(e, k).job = job
  BY <1>3, <1>5, <1>6 DEF Follows, Editor
<1> QED BY <1>1, <1>2, <1>6, <1>7, <1>8, ScreenFinish

LEMMA ScreenSwitchSource ==
  ASSUME ScreenInv, NEW k \in Keys, NEW b \in Bufs, SwitchSource(k, b)
  PROVE  ScreenInv'
<1> DEFINE t == [sess[k] EXCEPT !.src = b, !.map = NoMap]
           e == Put(Editor, k, t)
<1>1. Finish(Render(e, k)) /\ restart' = restart /\ k \in Open
  BY DEF SwitchSource, Put, Editor
<1>2. /\ Inv /\ Sound(Editor, {}) /\ Screen(World, Editor, {}) /\ restart \in BOOLEAN
      /\ Editor.nextId = nextId /\ Editor.sess = sess /\ Editor.sess[k].open
      /\ sess[k] \in Windows(1..nextId) /\ sess \in [Keys -> Windows(1..nextId)]
  BY <1>1, InvParts, OpenIsKey DEF ScreenInv, Inv
<1>3. sess[k] \in Sessions(1..nextId)
  BY <1>2, OpenIsSession
<1>4. /\ t \in Sessions(1..Editor.nextId) /\ t.gen = Editor.sess[k].gen /\ t.open
      /\ ShowsSame(Editor.sess[k], t)
  BY <1>2, <1>3 DEF Sessions, Maps, ShowsSame
<1> HIDE DEF t
<1>5. Sound(e, {}) /\ Follows(Editor, e) /\ e.sess[k] = t
  BY <1>2, <1>4, SessionUpdate
<1>6. /\ e.nextId = Editor.nextId /\ e.calls = Editor.calls /\ e.mail = Editor.mail
      /\ e.inbox = Editor.inbox /\ e.buf = Editor.buf /\ e.sess = [sess EXCEPT ![k] = t]
  BY <1>2, InvParts DEF Put, Editors
<1> HIDE DEF e
<1>7. e \in Editors(1..Editor.nextId)
  BY <1>5, <1>6 DEF Sound
<1>8. \A j \in Keys : ShowsSame(Editor.sess[j], e.sess[j])
  BY <1>2, <1>4, <1>6 DEF ShowsSame
<1>9. Given(World, e) = Given(World, Editor)
  BY <1>6 DEF Given
<1>10. Screen(World, e, {})
  BY <1>2, <1>6, <1>7, <1>8, <1>9, ScreenTouched
<1>11. Sound(Render(e, k), {}) /\ Follows(e, Render(e, k))
  BY <1>4, <1>5, RenderSpec
<1>12. Screen(World, Render(e, k), {})
  BY <1>4, <1>5, <1>10, ScreenRender
<1>13. Follows(Editor, Render(e, k))
  BY <1>2, <1>5, <1>11, FollowsOn
<1> QED BY <1>1, <1>2, <1>11, <1>12, <1>13, ScreenHandled

\* Any of the open windows may be rendered in any order.
LEMMA ScreenAnyOrder ==
  ASSUME ScreenInv, NEW e, Sound(e, {}), Follows(Editor, e), Screen(World, e, {}),
         NEW some \in SUBSET Open, NEW order \in SetToSeqs(some),
         Finish(RenderAll(e, order)), restart' = restart
  PROVE  ScreenInv'
<1>1. Inv /\ restart' \in BOOLEAN
  BY DEF ScreenInv, Inv
<1>2. Sound(RenderAll(e, order), {}) /\ Follows(Editor, RenderAll(e, order))
  BY <1>1, RenderAnyOrder
<1>3. order \in Seq(Keys) /\ \A i \in 1..Len(order) : e.sess[order[i]].open
  BY InAnyOrder
<1>4. Screen(World, RenderAll(e, order), {})
  BY <1>3, ScreenRenderAll
<1> QED BY <1>1, <1>2, <1>4, ScreenHandled

LEMMA ScreenRefresh ==
  ASSUME ScreenInv, NEW k \in Keys, Refresh(k)
  PROVE  ScreenInv'
<1>1. PICK order \in SetToSeqs(Following(sess[k].src)) : Finish(RenderAll(Editor, order))
  BY DEF Refresh
<1>2. Inv /\ Sound(Editor, {}) /\ Screen(World, Editor, {})
  BY DEF ScreenInv, Inv
<1>3. Follows(Editor, Editor)
  BY <1>2, InvParts DEF Follows
<1>4. restart' = restart
  BY DEF Refresh
<1> QED BY <1>1, <1>2, <1>3, <1>4, InvFollowing, ScreenAnyOrder

LEMMA ScreenToggleTask ==
  ASSUME ScreenInv, NEW k \in Keys, NEW doc \in Docs, ToggleTask(k, doc)
  PROVE  ScreenInv'
<1> DEFINE b == sess[k].src
           e == [Editor EXCEPT !.buf = Changed(b, doc)]
<1>1. PICK order \in SetToSeqs(Following(b)) : Finish(RenderAll(e, order))
  BY DEF ToggleTask
<1>2. Inv /\ Sound(Editor, {}) /\ Screen(World, Editor, {})
  BY DEF ScreenInv, Inv
<1>3. b \in Bufs /\ buf \in [Bufs -> Texts]
  <2>1. k \in Open /\ sess[k] \in Windows(1..nextId) /\ sess[k].open
    BY <1>2, InvParts DEF ToggleTask, Open
  <2>2. b \in Bufs
    BY <2>1, OpenIsSession, SessionParts
  <2> QED BY <1>2, <2>2, InvParts
<1>4. /\ Changed(b, doc) \in [Bufs -> Texts]
      /\ \A c \in Bufs : Changed(b, doc)[c] = buf[c] \/ Changed(b, doc)[c].tick > buf[c].tick
  BY <1>3 DEF Texts, Changed
<1>5. /\ e \in Editors(1..Editor.nextId)
      /\ e.nextId = Editor.nextId /\ e.requests = Editor.requests /\ e.calls = Editor.calls
      /\ e.sess = Editor.sess /\ e.job = Editor.job /\ e.mail = Editor.mail
      /\ e.inbox = Editor.inbox /\ e.buf = Changed(b, doc) /\ Editor.buf = buf
  BY <1>2, <1>4, InvParts DEF Editors, Editor
<1> HIDE DEF e
<1>6. Sound(e, {}) /\ Follows(Editor, e)
  BY <1>2, <1>5, SoundAlike
<1>7. Screen(World, e, {})
  BY <1>5, <1>4, <1>2, ScreenTouched DEF Given, ShowsSame
<1>8. restart' = restart
  BY DEF ToggleTask
<1> HIDE DEF b
<1> QED BY <1>1, <1>6, <1>7, <1>8, InvFollowing, ScreenAnyOrder

LEMMA ScreenGreeted == ScreenInv /\ Greeted => ScreenInv'
<1> SUFFICES ASSUME ScreenInv, Greeted PROVE ScreenInv'
  OBVIOUS
<1>1. Inv /\ toEditor # << >> /\ restart' = restart /\ restart \in BOOLEAN
  BY DEF Greeted, ScreenInv, Inv
<1> DEFINE e == [Reading EXCEPT !.greeting = FALSE]
<1>2. /\ Sound(e, {}) /\ Follows(Editor, e)
      /\ Sound(Reading, {}) /\ Follows(Editor, Reading)
  BY <1>1, ReadingSpec
<1>3. Screen(World, e, {}) /\ Screen(World, Reading, {})
  BY <1>1, ScreenReading
<1>4. (\E order \in SetToSeqs(Open) : Finish(RenderAll(e, order))) \/ Finish(Reading)
  BY DEF Greeted
<1> HIDE DEF e
<1>5. ASSUME NEW order \in SetToSeqs(Open), Finish(RenderAll(e, order)) PROVE ScreenInv'
  BY <1>1, <1>2, <1>3, <1>5, ScreenAnyOrder
<1>6. ASSUME Finish(Reading) PROVE ScreenInv'
  BY <1>1, <1>2, <1>3, <1>6, ScreenHandled
<1> QED BY <1>4, <1>5, <1>6

\* Texts and timers: `Edit` and `Resize` write nothing to the daemon.
LEMMA ScreenTimers ==
  ASSUME ScreenInv, Inv',
         \A b \in Bufs : buf'[b] = buf[b] \/ buf'[b].tick > buf[b].tick,
         \A j \in Keys : ShowsSame(sess[j], sess'[j]),
         UNCHANGED <<requests, calls, nextId, greeting, restart,
                     job, toDaemon, toEditor, daemonVars>>
  PROVE  ScreenInv'
<1>1. Sound(Editor, {}) /\ Screen(World, Editor, {}) /\ Sound(Editor', {})
  BY DEF ScreenInv, Inv
<1>2. /\ Editor'.nextId = Editor.nextId /\ Editor'.calls = Editor.calls
      /\ Editor'.mail = Editor.mail /\ Editor'.inbox = Editor.inbox
      /\ Editor'.buf = buf' /\ Editor.buf = buf
      /\ Editor'.sess = sess' /\ Editor.sess = sess
  BY DEF Editor
<1>3. World' = World
  BY DEF World, daemonVars
<1>4. Given(World, Editor') = Given(World, Editor)
  BY <1>2 DEF Given
<1>5. Editor' \in Editors(1..Editor.nextId)
  BY <1>1, <1>2 DEF Sound
<1>6. Screen(World, Editor', {})
  BY <1>1, <1>2, <1>4, <1>5, ScreenTouched
<1>7. Screen(World', Editor', {})
  BY <1>3, <1>6
<1>8. NobodyThere'
  BY DEF ScreenInv, NobodyThere, daemonVars
<1> QED BY <1>7, <1>8 DEF ScreenInv

LEMMA ArmedShowsSame ==
  ASSUME NEW ids, NEW w \in Windows(ids), w.open
  PROVE  ShowsSame(w, [w EXCEPT !.timer = TRUE])
<1>1. w \in Sessions(ids)
  BY OpenIsSession
<1> QED BY <1>1 DEF Sessions, ShowsSame

LEMMA ScreenEdit ==
  ASSUME ScreenInv, NEW b \in Bufs, NEW doc \in Docs, Edit(b, doc)
  PROVE  ScreenInv'
<1>1. Inv /\ buf \in [Bufs -> Texts] /\ sess \in [Keys -> Windows(1..nextId)]
  BY InvParts DEF ScreenInv
<1>2. Inv'
  BY <1>1, InvEdit
<1>3. ASSUME NEW c \in Bufs PROVE buf'[c] = buf[c] \/ buf'[c].tick > buf[c].tick
  BY <1>1 DEF Edit, Changed, Texts
<1>4. ASSUME NEW j \in Keys PROVE ShowsSame(sess[j], sess'[j])
  BY <1>1, ArmedShowsSame DEF Edit, Following, Open, ShowsSame
<1>5. UNCHANGED <<requests, calls, nextId, greeting, restart, job, toDaemon, toEditor, daemonVars>>
  BY DEF Edit
<1> QED BY <1>2, <1>3, <1>4, <1>5, ScreenTimers

LEMMA ScreenResize ==
  ASSUME ScreenInv, NEW k \in Keys, NEW width \in Widths, Resize(k, width)
  PROVE  ScreenInv'
<1>1. Inv /\ sess \in [Keys -> Windows(1..nextId)]
  BY InvParts DEF ScreenInv
<1>2. Inv'
  BY <1>1, InvResize
<1>3. ASSUME NEW j \in Keys PROVE ShowsSame(sess[j], sess'[j])
  BY <1>1, ArmedShowsSame DEF Resize, Open, ShowsSame
<1>4. /\ \A c \in Bufs : buf'[c] = buf[c]
      /\ UNCHANGED <<requests, calls, nextId, greeting, restart,
                     job, toDaemon, toEditor, daemonVars>>
  BY DEF Resize
<1> QED BY <1>2, <1>3, <1>4, ScreenTimers

\* What is written without a render in it.
LEMMA RendersStay ==
  ASSUME NEW X, NEW pipe \in Seq(X), NEW notes \in Seq(X), RendersIn(notes) = {},
         NoneTwice(pipe)
  PROVE  /\ pipe \o notes \in Seq(X)
         /\ RendersIn(pipe \o notes) = RendersIn(pipe) /\ NoneTwice(pipe \o notes)
<1>1. NoneTwice(notes)
  BY NoRenders DEF RendersIn
<1>2. RendersIn(pipe \o notes) = RendersIn(pipe) \cup RendersIn(notes)
  BY RendersJoin
<1>3. NoneTwice(pipe \o notes)
  BY <1>1, RendersJoin
<1> QED BY <1>2, <1>3, ConcatProperties

\* The window is closed, and the daemon told if there is one.
LEMMA ScreenClosePreview ==
  ASSUME ScreenInv, NEW k \in Keys, ClosePreview(k)
  PROVE  ScreenInv'
<1> DEFINE q == Withdraw(Editor, k)
           notes == SetToSeq({Cancel(i) : i \in Moot(Editor, k)})
           bye == <<Forget(k)>>
           moot == Moot(Editor, k)
           X == Requests(1..nextId)
<1>1. /\ sess' = [sess EXCEPT ![k] = Closed] /\ calls' = q.calls
      /\ toDaemon' = IF job = "run" THEN toDaemon \o q.mail \o bye ELSE toDaemon
      /\ UNCHANGED <<buf, win, nextId, greeting, restart, job, toEditor, daemonVars>>
      /\ k \in Open
  BY DEF ClosePreview
<1>2. /\ Inv /\ Sound(Editor, {}) /\ Screen(World, Editor, {}) /\ NobodyThere
      /\ Editor \in Editors(1..nextId)
  BY InvParts DEF ScreenInv, Inv
<1>3. q.calls = Without(calls, moot) /\ q.mail = << >> \o notes
  BY <1>2 DEF Withdraw, Editor
<1>4. /\ Editor'.nextId = Editor.nextId /\ Editor'.buf = Editor.buf /\ Editor'.mail = << >>
      /\ Editor'.inbox = Editor.inbox /\ Editor'.sess = [Editor.sess EXCEPT ![k] = Closed]
      /\ Editor'.calls = Without(Editor.calls, moot) /\ Editor.mail = << >>
      /\ Editor.nextId = nextId /\ Editor.calls = calls /\ Editor.requests = requests
  BY <1>1, <1>3 DEF Editor
<1>5. /\ World'.pipe = toDaemon' /\ World'.tasks = tasks /\ World'.replies = replies
      /\ World'.memory = remembered /\ World.pipe = toDaemon /\ World.tasks = tasks
      /\ World.replies = replies /\ World.memory = remembered
  BY <1>1 DEF World, daemonVars
<1>6. notes \in Seq(X) /\ RendersIn(notes) = {}
  BY <1>2, <1>4, CancelsOnly
<1>7. bye \in Seq(X) /\ RendersIn(bye) = {}
  BY OneRequest DEF Requests, Forget
<1>8. Typed(World, 1..nextId) /\ OnePlace(World, Editor)
  BY <1>2, <1>4 DEF Screen
<1> HIDE DEF notes, bye, X, moot, q
<1>9. toDaemon \in Seq(X) /\ Pipe(World, Editor) = toDaemon /\ NoneTwice(toDaemon)
  BY <1>5, <1>8, ConcatEmptySeq, <1>4 DEF Typed, X, Pipe, OnePlace
<1>10. toDaemon' \in Seq(X) /\ RendersIn(toDaemon') = RendersIn(toDaemon) /\ NoneTwice(toDaemon')
  <2>1. CASE job = "run"
    <3>1. << >> \o notes = notes
      BY <1>6, ConcatEmptySeq
    <3> DEFINE most == toDaemon \o notes
    <3>2. toDaemon' = most \o bye
      BY <1>1, <1>3, <2>1, <3>1
    <3>3. /\ most \in Seq(X) /\ RendersIn(most) = RendersIn(toDaemon) /\ NoneTwice(most)
      BY <1>6, <1>9, RendersStay
    <3> HIDE DEF most
    <3>4. /\ most \o bye \in Seq(X) /\ RendersIn(most \o bye) = RendersIn(most)
          /\ NoneTwice(most \o bye)
      BY <1>7, <3>3, RendersStay
    <3> QED BY <3>2, <3>3, <3>4
  <2>2. CASE job # "run"
    BY <1>1, <1>9, <2>2
  <2> QED BY <2>1, <2>2
<1>11. Pipe(World', Editor') = toDaemon'
  BY <1>10, ConcatEmptySeq, <1>4, <1>5 DEF Pipe
<1>12. /\ UnderWay(World', Editor') = UnderWay(World, Editor)
       /\ Given(World', Editor') = Given(World, Editor)
  BY <1>4, <1>5, <1>9, <1>10, <1>11 DEF UnderWay, Given
<1>13. OnePlace(World', Editor')
  BY <1>5, <1>8, <1>9, <1>10, <1>11 DEF OnePlace
<1>14. Typed(World', 1..Editor.nextId)
  BY <1>4, <1>5, <1>8, <1>10 DEF Typed, X
<1>15. /\ \A id \in DOMAIN Editor.calls :
            id \in DOMAIN Editor'.calls <=> Editor.calls[id].key # k
       /\ \A id \in DOMAIN Editor'.calls :
            id \in DOMAIN Editor.calls /\ Editor'.calls[id] = Editor.calls[id]
  BY <1>2, CallParts, <1>4 DEF moot, Moot, Without
<1>16. Screen(World', Editor', {})
  <2>1. ~ Closed.open
    BY DEF Closed
  <2> QED BY <1>2, <1>4, <1>5, <1>12, <1>13, <1>14, <1>15, <2>1, ScreenChange
<1>17. NobodyThere'
  BY <1>1, <1>2 DEF NobodyThere, daemonVars
<1>18. Inv'
  BY <1>2, InvClosePreview
<1> QED BY <1>16, <1>17, <1>18 DEF ScreenInv

\* The callback of a call that is in the table, from any handler.
LEMMA ScreenCallback ==
  ASSUME ScreenInv, NEW e, Sound(e, {}), Follows(Editor, e), Screen(World, e, {}),
         e.nextId = nextId, e.calls = calls, NEW reply \in Replies(Nat), reply.id \in DOMAIN calls,
         \A r \in UnderWay(World, e) :
           r.id = reply.id /\ e.sess[r.key].open => r.id \in e.sess[r.key].givenUp,
         reply.type # "error" =>
           /\ Fits(World, e, calls[reply.id], reply)
           /\ \A r \in UnderWay(World, e) : reply.id # r.id,
         Finish(OnRenderReply(e, calls[reply.id], reply)), restart' = restart
  PROVE  ScreenInv'
<1> DEFINE call == calls[reply.id]
           next == OnRenderReply(e, call, reply)
<1>1. /\ call \in Calls /\ e.sess[call.key].open /\ reply.id \in 1..e.nextId
      /\ \A id \in DOMAIN calls : id \in DOMAIN e.requests /\ e.requests[id] = calls[id].key
  BY CallParts
<1>2. \A id \in DOMAIN e.calls : id = reply.id <=> e.calls[id].key = call.key
  BY <1>1, EditorParts
<1>3. Sound(next, {} \ {reply.id}) /\ Follows(e, next)
  BY <1>1, OnRenderReplySpec
<1>4. Screen(World, next, {})
  BY <1>1, <1>2, ScreenReply
<1>5. Inv /\ restart' \in BOOLEAN
  BY DEF ScreenInv, Inv
<1> HIDE DEF next
<1>6. Sound(next, {}) /\ Follows(Editor, next)
  BY <1>3, <1>5, FollowsOn DEF Inv
<1>7. Finish(next)
  BY DEF next
<1> QED BY <1>4, <1>5, <1>6, <1>7, ScreenHandled

LEMMA ScreenAnswered == ScreenInv /\ Answered => ScreenInv'
<1> SUFFICES ASSUME ScreenInv, Answered PROVE ScreenInv'
  OBVIOUS
<1> DEFINE reply == Head(toEditor)
<1>1. /\ Inv /\ Screen(World, Editor, {}) /\ toEditor # << >> /\ reply.type # "pong"
      /\ restart' = restart /\ restart \in BOOLEAN
  BY DEF Answered, ScreenInv, Inv
<1>2. /\ Sound(Reading, {}) /\ Follows(Editor, Reading) /\ reply \in Lines(1..nextId)
      /\ Screen(World, Reading, {}) /\ toEditor \in Seq(Lines(1..nextId))
      /\ Editor \in Editors(1..nextId)
  BY <1>1, ReadingSpec, ScreenReading, InvParts
<1>3. /\ Reading.nextId = nextId /\ Reading.calls = calls /\ Reading.mail = Editor.mail
      /\ Reading.buf = Editor.buf /\ Reading.sess = Editor.sess
      /\ Editor.inbox = toEditor /\ Editor.calls = calls
  BY <1>2 DEF Reading, Editor, Editors
<1>4. reply \in Replies(Nat) /\ (reply.type # "error" => reply.type = "render_result")
  BY <1>1, <1>2, InvParts, IdsGrow DEF Lines, Replies, Results, Failure
<1>5. reply \in Given(World, Editor)
  BY <1>1, <1>2, HeadTailProperties, EmptySeq, LenProperties, <1>3 DEF Given
<1>6. UnderWay(World, Reading) = UnderWay(World, Editor)
  BY <1>3 DEF UnderWay, Pipe
<1>7. \A r \in UnderWay(World, Reading) : reply.id # r.id
  BY <1>1, <1>5, <1>6 DEF Screen, Unanswered
<1>8. CASE reply.id \in DOMAIN calls
  <2>1. Finish(OnRenderReply(Reading, calls[reply.id], reply))
    BY <1>8 DEF Answered
  <2> DEFINE call == calls[reply.id]
  <2>2. ASSUME reply.type # "error" PROVE Fits(World, Reading, call, reply)
    BY <1>1, <1>3, <1>4, <1>5, <1>8, <2>2, SMTT(30) DEF Screen, Fits
  <2> HIDE DEF reply
  <2> QED BY <1>1, <1>2, <1>3, <1>4, <1>7, <1>8, <2>1, <2>2, ScreenCallback
<1>9. CASE reply.id \notin DOMAIN calls
  BY <1>9, <1>1, <1>2, ScreenHandled DEF Answered
<1> QED BY <1>8, <1>9

\* Nobody answered in time: whatever comes of that render now, it was given up.
LEMMA ScreenTimesOut ==
  ASSUME ScreenInv, NEW id \in DOMAIN calls, TimesOut(id)
  PROVE  ScreenInv'
<1> DEFINE e == GivingUp(Editor, id)
           k == calls[id].key
           s == sess[k]
           t == [s EXCEPT !.givenUp = s.givenUp \cup {id}]
<1>1. /\ Inv /\ Screen(World, Editor, {}) /\ Editor.sess = sess /\ Editor.calls = calls
      /\ Sound(Editor, {}) /\ Editor \in Editors(1..nextId) /\ Editor.nextId = nextId
  BY InvParts DEF ScreenInv, Inv, Editor
<1>2. /\ Sound(e, {}) /\ Follows(Editor, e) /\ id \in 1..nextId
  BY <1>1, GivingUpSpec
<1>3. k \in Keys /\ s \in Sessions(1..nextId)
  BY <1>1, CallParts, EditorParts
<1>4. /\ e.nextId = nextId /\ e.calls = calls /\ e.mail = Editor.mail
      /\ e.inbox = Editor.inbox /\ e.buf = Editor.buf /\ e.sess = [sess EXCEPT ![k] = t]
  BY <1>1 DEF GivingUp, Editors
<1>5. ShowsSame(s, t) /\ t.givenUp = s.givenUp \cup {id}
  BY <1>3 DEF Sessions, ShowsSame
<1> HIDE DEF e, t
<1>6. \A j \in Keys : ShowsSame(Editor.sess[j], e.sess[j])
  BY <1>1, <1>3, <1>4, <1>5, InvParts DEF ShowsSame
<1>7. Screen(World, e, {})
  <2>1. Given(World, e) = Given(World, Editor)
    BY <1>4 DEF Given
  <2>2. e \in Editors(1..Editor.nextId)
    BY <1>1, <1>2, <1>4 DEF Sound
  <2> QED BY <1>1, <1>4, <1>6, <2>1, <2>2, ScreenTouched
<1>8. ASSUME NEW r \in UnderWay(World, e), r.id = id
      PROVE  r.id \in e.sess[r.key].givenUp
  BY <1>4, <1>1, <1>8, <1>3, InvParts, <1>5 DEF UnderWay, Pipe, Screen, AsAsked
<1> DEFINE reply == Failure(id)
<1>9. reply \in Replies(Nat) /\ reply.id = id /\ reply.type = "error"
  BY <1>1, <1>2, InvParts DEF Replies, Failure
<1>10. Finish(OnRenderReply(e, calls[id], reply)) /\ restart' = restart
  BY DEF TimesOut, e
<1> HIDE DEF reply
<1> QED BY <1>2, <1>4, <1>7, <1>8, <1>9, <1>10, ScreenCallback

\* The process is gone: every callback is told of a failure.
LEMMA ScreenDaemonExits == ScreenInv /\ DaemonExits => ScreenInv'
<1> SUFFICES ASSUME ScreenInv, DaemonExits PROVE ScreenInv'
  OBVIOUS
<1> DEFINE e == [Editor EXCEPT !.job = "none", !.greeting = FALSE]
<1>1. PICK order \in SetToSeqs(DOMAIN calls) : Finish(ClearPending(e, order))
  BY DEF DaemonExits
<1>2. /\ restart' = TRUE /\ job = "dead"
      /\ Inv /\ Sound(Editor, {}) /\ Screen(World, Editor, {}) /\ NobodyThere
  BY DEF DaemonExits, ScreenInv, Inv
<1>3. /\ e \in Editors(1..Editor.nextId)
      /\ e.nextId = Editor.nextId /\ e.requests = Editor.requests /\ e.calls = Editor.calls
      /\ e.sess = Editor.sess /\ e.calls = calls /\ e.mail = Editor.mail
      /\ e.inbox = Editor.inbox /\ e.buf = Editor.buf /\ Editor.nextId = nextId
      /\ Editor.mail = << >>
  BY <1>2, InvParts DEF Editors, Editor
<1> HIDE DEF e
<1>4. Sound(e, {})
  BY <1>2, <1>3, SoundAlike
<1>5. Sound(ClearPending(e, order), {}) /\ Follows(e, ClearPending(e, order))
  BY <1>1, <1>3, <1>4, ClearPendingSpec
<1>6. ClearPending(e, order).nextId >= nextId
  BY <1>3, <1>5 DEF Follows
<1>7. Screen(World, e, {})
  BY <1>3, <1>2, ScreenTouched DEF Given, ShowsSame
<1>8. UnderWay(World, e) = {} /\ DOMAIN World.memory = {}
  BY <1>2, <1>3 DEF NobodyThere, RendersIn, Pipe, World, UnderWay
<1>9. Screen(World, ClearPending(e, order), {})
  BY <1>1, <1>3, <1>4, <1>7, <1>8, ScreenClearPending
<1>10. job # "run" /\ restart' \in BOOLEAN
  BY <1>2
<1> QED BY <1>1, <1>5, <1>6, <1>9, <1>10, ScreenFinish

LEMMA ScreenRestartFires == ScreenInv /\ RestartFires => ScreenInv'
<1> SUFFICES ASSUME ScreenInv, RestartFires PROVE ScreenInv'
  OBVIOUS
<1>1. /\ Inv /\ Sound(Editor, {}) /\ Screen(World, Editor, {}) /\ NobodyThere
      /\ UNCHANGED <<buf, win, sess, requests, calls, nextId>>
  BY DEF RestartFires, ScreenInv, Inv
<1>2. Inv'
  BY <1>1, InvRestartFires
<1>3. Sound(Editor', {})
  BY <1>2 DEF Inv
<1>4. /\ Editor'.calls = Editor.calls /\ Editor'.buf = Editor.buf /\ Editor'.sess = Editor.sess
      /\ Editor'.nextId = Editor.nextId /\ Editor'.mail = << >> /\ Editor.mail = << >>
      /\ Editor'.inbox = toEditor' /\ Editor.inbox = toEditor
  BY <1>1 DEF Editor
<1>5. SameEditor(Editor, Editor')
  BY <1>3, <1>4 DEF SameEditor, Sound
<1>6. /\ World'.pipe = toDaemon' /\ World'.tasks = tasks' /\ World'.replies = replies'
      /\ World'.memory = remembered'
  BY DEF World
<1>7. CASE job # "run"
  BY <1>7, <1>1, <1>4, <1>5, <1>6, ScreenStarted, <1>2 DEF RestartFires, StartDaemon,
     BlankDaemon, NobodyThere, ScreenInv
<1>8. CASE job = "run"
  BY <1>8, <1>4, <1>1, <1>5, SameEditorShows, ScreenTouched, <1>2 DEF RestartFires, World,
     daemonVars, Given, NobodyThere, ScreenInv
<1> QED BY <1>7, <1>8

-----------------------------------------------------------------------------
(* What the daemon does.                                                   *)

\* Between two handlers nothing waits to be written.
LEMMA PipeIsRead ==
  ASSUME NEW X, NEW w, NEW ed, w.pipe \in Seq(X), ed.mail = << >>
  PROVE  Pipe(w, ed) = w.pipe
BY ConcatEmptySeq DEF Pipe

InHand == {task.request : task \in tasks}

Heard == {toEditor[i] : i \in {j \in 1..Len(toEditor) : toEditor[j].type # "pong"}}

LEMMA DaemonParts ==
  ASSUME ScreenInv
  PROVE  /\ Inv /\ Sound(Editor, {}) /\ Screen(World, Editor, {}) /\ NobodyThere
         /\ toDaemon \in Seq(Requests(1..nextId)) /\ tasks \subseteq Tasks(1..nextId)
         /\ remembered \in Table(Keys, Answers) /\ Editor.nextId = nextId
         /\ UnderWay(World, Editor) = RendersIn(toDaemon) \cup InHand
         /\ Given(World, Editor) = replies \cup Heard
         /\ NoneTwice(toDaemon)
         /\ \A t, u \in tasks : t.request.id = u.request.id => t = u
         /\ \A r \in RendersIn(toDaemon), t \in tasks : r.id # t.request.id
         /\ \A r \in UnderWay(World, Editor), a \in Given(World, Editor) : a.id # r.id
<1>1. Inv /\ Sound(Editor, {}) /\ Screen(World, Editor, {}) /\ NobodyThere
  BY DEF ScreenInv, Inv
<1>2. /\ toDaemon \in Seq(Requests(1..nextId)) /\ tasks \subseteq Tasks(1..nextId)
      /\ remembered \in Table(Keys, Answers)
  BY <1>1 DEF Inv, OnTheWay, Memory
<1>3. /\ World.pipe = toDaemon /\ World.tasks = tasks /\ World.replies = replies
      /\ Editor.mail = << >> /\ Editor.inbox = toEditor /\ Editor.nextId = nextId
  BY DEF World, Editor
<1>4. Pipe(World, Editor) = toDaemon
  BY <1>2, <1>3, PipeIsRead
<1>5. OnePlace(World, Editor) /\ Unanswered(World, Editor)
  BY <1>1 DEF Screen
<1>6. /\ UnderWay(World, Editor) = RendersIn(toDaemon) \cup InHand
      /\ Given(World, Editor) = replies \cup Heard
  BY <1>3, <1>4 DEF UnderWay, Given, InHand, Heard
<1>7. \A r \in UnderWay(World, Editor), a \in Given(World, Editor) : a.id # r.id
  BY <1>5 DEF Unanswered
<1>8. /\ NoneTwice(toDaemon)
      /\ \A t, u \in tasks : t.request.id = u.request.id => t = u
      /\ \A r \in RendersIn(toDaemon), t \in tasks : r.id # t.request.id
  BY <1>3, <1>4, <1>5 DEF OnePlace
<1> QED BY <1>1, <1>2, <1>3, <1>6, <1>7, <1>8

\* Less under way, less remembered, and nothing to read but what there was and
\* failures of what is under way no longer.
LEMMA ScreenDaemon ==
  ASSUME ScreenInv, Inv', NobodyThere', UNCHANGED <<buf, sess, calls, nextId>>,
         NoneTwice(toDaemon'),
         \A t, u \in tasks' : t.request.id = u.request.id => t = u,
         \A r \in RendersIn(toDaemon'), t \in tasks' : r.id # t.request.id,
         RendersIn(toDaemon') \cup InHand' \subseteq RendersIn(toDaemon) \cup InHand,
         \A a \in replies' \cup Heard' :
           \/ a \in replies \cup Heard
           \/ a.type = "error" /\ \A r \in RendersIn(toDaemon') \cup InHand' : a.id # r.id,
         \A k \in DOMAIN remembered' : k \in DOMAIN remembered /\ remembered'[k] = remembered[k]
  PROVE  ScreenInv'
<1>1. /\ Sound(Editor, {}) /\ Screen(World, Editor, {}) /\ Sound(Editor', {})
      /\ UnderWay(World, Editor) = RendersIn(toDaemon) \cup InHand
      /\ Given(World, Editor) = replies \cup Heard
  BY DaemonParts DEF Inv
<1>2. /\ Editor'.calls = Editor.calls /\ Editor'.buf = Editor.buf /\ Editor'.sess = Editor.sess
      /\ Editor'.nextId = Editor.nextId /\ Editor'.mail = << >> /\ Editor.nextId = nextId
      /\ Editor'.inbox = toEditor' /\ nextId' = nextId
  BY DEF Editor
<1>3. /\ World'.pipe = toDaemon' /\ World'.tasks = tasks' /\ World'.replies = replies'
      /\ World'.memory = remembered' /\ World.memory = remembered
  BY DEF World
<1>4. SameEditor(Editor, Editor')
  BY <1>1, <1>2 DEF SameEditor, Sound
<1>5. Typed(World', 1..Editor.nextId)
  BY <1>2, <1>3 DEF Inv, OnTheWay, Memory, Typed
<1>6. Pipe(World', Editor') = toDaemon'
  BY <1>3, <1>5, ConcatEmptySeq, <1>2 DEF Typed, Pipe
<1>7. /\ UnderWay(World', Editor') = RendersIn(toDaemon') \cup InHand'
      /\ Given(World', Editor') = replies' \cup Heard'
  BY <1>2, <1>3, <1>6 DEF UnderWay, Given, InHand, Heard
<1>8. OnePlace(World', Editor')
  BY <1>3, <1>6 DEF OnePlace
<1>9. Screen(World', Editor', {})
  BY <1>1, <1>3, <1>4, <1>5, <1>7, <1>8, SameEditorShows, ScreenAlike
<1> QED BY <1>9 DEF ScreenInv

\* Reading a request moves a render from the pipe to a task.
LEMMA ScreenReadsRequest == ScreenInv /\ ReadsRequest => ScreenInv'
<1> SUFFICES ASSUME ScreenInv, ReadsRequest PROVE ScreenInv'
  OBVIOUS
<1> DEFINE request == Head(toDaemon)
           X == Requests(1..nextId)
<1>1. /\ job = "run" /\ toDaemon # << >> /\ toDaemon' = Tail(toDaemon)
      /\ UNCHANGED <<editorVars, job>>
  BY DEF ReadsRequest
<1>2. UNCHANGED <<buf, sess, calls, nextId>> /\ NobodyThere'
  BY <1>1 DEF editorVars, NobodyThere
<1>3. /\ Inv /\ toDaemon \in Seq(X) /\ NoneTwice(toDaemon)
      /\ tasks \subseteq Tasks(1..nextId) /\ remembered \in Table(Keys, Answers)
      /\ \A t, u \in tasks : t.request.id = u.request.id => t = u
      /\ \A r \in RendersIn(toDaemon), t \in tasks : r.id # t.request.id
  BY DaemonParts
<1>4. Inv'
  BY <1>3, InvReadsRequest
<1> HIDE DEF X
<1>5. /\ request \in X
      /\ RendersIn(toDaemon) = RendersIn(toDaemon') \cup RendersIn(<<request>>)
      /\ NoneTwice(toDaemon')
      /\ request.type = "render" => \A a \in RendersIn(toDaemon') : a.id # request.id
  BY <1>1, <1>3, RendersTail
<1> HIDE DEF request
<1>6. CASE request.type = "ping"
  <2>1. toEditor' = Append(toEditor, [type |-> "pong"]) /\ UNCHANGED daemonVars
    BY <1>6 DEF ReadsRequest, request
  <2>2. toEditor \in Seq(Lines(1..nextId))
    BY <1>3, InvParts
  <2>3. Heard' = Heard
    BY <2>1, <2>2, AppendProperties, LenProperties DEF Heard
  <2>4. InHand' = InHand /\ tasks' = tasks /\ replies' = replies /\ remembered' = remembered
    BY <2>1 DEF InHand, daemonVars
  <2> QED BY <1>2, <1>3, <1>4, <1>5, <2>3, <2>4, ScreenDaemon
<1>7. CASE request.type = "cancel"
  BY <1>7, <1>2, <1>3, <1>4, <1>5, ScreenDaemon DEF ReadsRequest, request, InHand, Heard
<1>8. CASE request.type = "forget"
  BY <1>8, <1>2, <1>3, <1>4, <1>5, ScreenDaemon DEF ReadsRequest, request, InHand, Heard,
     Without
<1>9. CASE request.type = "render"
  <2> DEFINE task == [request |-> request, stage |-> "queued"]
  <2>1. UNCHANGED <<toEditor, remembered, replies>> /\ tasks' = tasks \cup {task}
    BY <1>9 DEF ReadsRequest, request
  <2>2. InHand' = InHand \cup {request} /\ Heard' = Heard
    <3>1. task.request = request
      OBVIOUS
    <3> HIDE DEF task
    <3> QED BY <2>1, <3>1 DEF InHand, Heard
  <2>3. RendersIn(<<request>>) = {request}
    BY <1>5, <1>9, OneRequest
  <2>4. \A t \in tasks : t.request.id # request.id
    BY <1>3, <1>5, <2>3
  <2>5. \A t, u \in tasks' : t.request.id = u.request.id => t = u
    BY <1>3, <2>1, <2>4
  <2>6. \A r \in RendersIn(toDaemon'), t \in tasks' : r.id # t.request.id
    BY <1>3, <1>5, <1>9, <2>1
  <2> QED BY <1>2, <1>3, <1>4, <1>5, <2>1, <2>2, <2>3, <2>5, <2>6, ScreenDaemon
<1> QED BY <1>6, <1>7, <1>8, <1>9 DEF ReadsRequest, request

\* A task that is dropped or goes on is the same render.
LEMMA ScreenLooksForCancel ==
  ASSUME ScreenInv, NEW task \in tasks, NEW stage \in {"rendering", "rendered"},
         LooksForCancel(task, stage)
  PROVE  ScreenInv'
<1> DEFINE next == [task EXCEPT !.stage = stage]
<1>1. /\ \/ tasks' = tasks \ {task}
         \/ tasks' = (tasks \ {task}) \cup {next}
      /\ UNCHANGED <<buf, sess, calls, nextId, job, toDaemon, toEditor, remembered, replies>>
  BY DEF LooksForCancel, editorVars
<1>2. /\ Inv /\ NobodyThere /\ tasks \subseteq Tasks(1..nextId) /\ NoneTwice(toDaemon)
      /\ \A t, u \in tasks : t.request.id = u.request.id => t = u
      /\ \A r \in RendersIn(toDaemon), t \in tasks : r.id # t.request.id
  BY DaemonParts
<1>3. next.request = task.request
  BY <1>2 DEF Tasks
<1> HIDE DEF next
<1>4. Inv'
  BY <1>2, InvLooksForCancel
<1>5. NobodyThere'
  BY <1>1, <1>2 DEF NobodyThere
<1>6. InHand' \subseteq InHand /\ Heard' = Heard
  BY <1>1, <1>3 DEF InHand, Heard
<1>7. \A t, u \in tasks' : t.request.id = u.request.id => t = u
  BY <1>1, <1>2, <1>3
<1>8. \A r \in RendersIn(toDaemon), t \in tasks' : r.id # t.request.id
  BY <1>1, <1>2, <1>3
<1> QED BY <1>1, <1>2, <1>4, <1>5, <1>6, <1>7, <1>8, ScreenDaemon

\* A failure is of a render that is under way no longer.
LEMMA ScreenPanics ==
  ASSUME ScreenInv, NEW task \in tasks, Panics(task)
  PROVE  ScreenInv'
<1>1. /\ tasks' = tasks \ {task} /\ replies' = replies \cup {Failure(task.request.id)}
      /\ UNCHANGED <<buf, sess, calls, nextId, job, toDaemon, toEditor, remembered>>
  BY DEF Panics, editorVars
<1>2. /\ Inv /\ NobodyThere /\ NoneTwice(toDaemon)
      /\ \A t, u \in tasks : t.request.id = u.request.id => t = u
      /\ \A r \in RendersIn(toDaemon), t \in tasks : r.id # t.request.id
  BY DaemonParts
<1>3. Inv'
  BY <1>2, InvPanics
<1>4. NobodyThere'
  BY <1>1, <1>2 DEF NobodyThere
<1>5. InHand' \subseteq InHand /\ Heard' = Heard
  BY <1>1 DEF InHand, Heard
<1>6. \A r \in RendersIn(toDaemon) \cup InHand' : r.id # task.request.id
  BY <1>1, <1>2 DEF InHand
<1>7. \A a \in replies' \cup Heard' :
        \/ a \in replies \cup Heard
        \/ a.type = "error" /\ \A r \in RendersIn(toDaemon') \cup InHand' : a.id # r.id
  BY <1>1, <1>5, <1>6 DEF Failure
<1> QED BY <1>1, <1>2, <1>3, <1>4, <1>5, <1>7, ScreenDaemon

\* An answer goes from a task to the queue.
LEMMA ScreenSends ==
  ASSUME ScreenInv, NEW reply \in replies, Sends(reply)
  PROVE  ScreenInv'
<1>1. /\ replies' = replies \ {reply} /\ toEditor' = Append(toEditor, reply)
      /\ UNCHANGED <<buf, sess, calls, nextId, job, toDaemon, remembered, tasks>>
  BY DEF Sends, editorVars
<1>2. /\ Inv /\ NobodyThere /\ NoneTwice(toDaemon)
      /\ \A t, u \in tasks : t.request.id = u.request.id => t = u
      /\ \A r \in RendersIn(toDaemon), t \in tasks : r.id # t.request.id
  BY DaemonParts
<1>3. Inv'
  BY <1>2, InvSends
<1>4. NobodyThere'
  BY <1>1, <1>2 DEF NobodyThere
<1>5. Heard' \subseteq Heard \cup {reply}
  BY <1>2, InvParts, <1>1, AppendProperties, LenProperties DEF Inv, OnTheWay, Lines, Heard
<1>6. InHand' = InHand
  BY <1>1 DEF InHand
<1> QED BY <1>1, <1>2, <1>3, <1>4, <1>5, <1>6, ScreenDaemon

\* A process that dies leaves what it had written, or the start of it.
LEMMA ScreenCrashes == ScreenInv /\ Crashes => ScreenInv'
<1> SUFFICES ASSUME ScreenInv, Crashes PROVE ScreenInv'
  OBVIOUS
<1>1. /\ toDaemon' = << >> /\ tasks' = {} /\ replies' = {} /\ remembered' = << >>
      /\ UNCHANGED <<buf, sess, calls, nextId>>
  BY DEF Crashes, BlankDaemon, editorVars
<1>2. Inv
  BY DaemonParts
<1>3. Inv'
  BY <1>2, InvCrashes
<1>4. DOMAIN remembered' = {}
  BY <1>1, EmptyTable
<1>5. NobodyThere'
  BY <1>1, <1>4 DEF NobodyThere
<1>6. Heard' \subseteq Heard
  BY <1>2, InvParts, LenProperties, ElementOfSeq, SubSeqProperties DEF Crashes, Heard
<1>7. RendersIn(toDaemon') = {} /\ NoneTwice(toDaemon') /\ InHand' = {}
  BY <1>1 DEF RendersIn, NoneTwice, InHand
<1> QED BY <1>1, <1>3, <1>4, <1>5, <1>6, <1>7, ScreenDaemon

\* A render of a session's is what the session waits for, or was given up, and
\* what else the session waits for has not been answered by it.
LEMMA RenderInHand ==
  ASSUME ScreenInv, NEW task \in tasks
  PROVE  LET r == task.request
             k == r.key
         IN  /\ r \in UnderWay(World, Editor) /\ k \in Keys /\ r.id \in 1..nextId
             /\ AsAsked(Editor, r) /\ Unanswered(World, Editor)
             /\ r.id \in DOMAIN calls => calls[r.id].key = k
             /\ \A id \in DOMAIN calls :
                  /\ calls[id].key \in Keys /\ sess[calls[id].key].open
                  /\ calls[id].key = k => id = r.id \/ r.id \in sess[k].givenUp
             /\ sess[k].open =>
                  r.id \in sess[k].givenUp \/ (r.id \in DOMAIN calls /\ calls[r.id].key = k)
<1> DEFINE r == task.request
           k == r.key
<1>1. /\ Sound(Editor, {}) /\ Screen(World, Editor, {})
      /\ UnderWay(World, Editor) = RendersIn(toDaemon) \cup InHand
      /\ Editor.nextId = nextId /\ Editor.calls = calls /\ Editor.sess = sess
  BY DaemonParts DEF Editor
<1>2. r \in UnderWay(World, Editor)
  BY <1>1 DEF InHand
<1>3. k \in Keys /\ r.id \in 1..nextId
  BY DaemonParts, RequestParts
<1>4. AsAsked(Editor, r) /\ Wanted(Editor, r) /\ Unanswered(World, Editor)
  BY <1>1, <1>2 DEF Screen
<1>5. r.id \in DOMAIN calls => calls[r.id].key = k
  BY <1>1, <1>4 DEF AsAsked
<1>6. sess[k].open => r.id \in sess[k].givenUp \/ (r.id \in DOMAIN calls /\ calls[r.id].key = k)
  BY <1>1, <1>4, <1>5 DEF Wanted
<1>7. ASSUME NEW id \in DOMAIN calls
      PROVE  /\ calls[id].key \in Keys /\ sess[calls[id].key].open
             /\ id \in DOMAIN Editor.requests /\ Editor.requests[id] = calls[id].key
  BY <1>1, CallParts
<1>8. ASSUME NEW id \in DOMAIN calls, calls[id].key = k
      PROVE  id = r.id \/ r.id \in sess[k].givenUp
  BY <1>1, <1>5, <1>7, <1>8, EditorParts, <1>6
<1> QED BY <1>2, <1>3, <1>4, <1>5, <1>6, <1>7, <1>8

\* An answer is made against what the daemon kept, which is what the session that
\* waits for it shows, or a render the session gave up.
LEMMA AnswerFits ==
  ASSUME ScreenInv, NEW task \in tasks, task.request.id \in DOMAIN calls,
         NEW v, v.memory[task.request.key] = Entry(task.request)
  PROVE  Fits(v, Editor, calls[task.request.id], AnswerTo(task.request))
<1> DEFINE r == task.request
           k == r.key
           s == sess[k]
           call == calls[r.id]
           a == AnswerTo(r)
           rows == Laid(r)
           index == Indexed(r)
           before == Before(r)
<1>1. /\ k \in Keys /\ AsAsked(Editor, r) /\ Unanswered(World, Editor) /\ call.key = k /\ s.open
      /\ \A id \in DOMAIN calls : calls[id].key = k => id = r.id \/ r.id \in s.givenUp
  BY RenderInHand
<1>2. /\ Editor.calls = calls /\ Editor.sess = sess /\ Editor.buf = buf
      /\ World.memory = remembered /\ Editor.nextId = nextId
  BY DEF Editor, World
<1>3. /\ r.incremental => s.rendered
      /\ r.width = s.width
      /\ call.tick = buf[call.buf].tick => r.doc = buf[call.buf].doc
  BY <1>1, <1>2 DEF AsAsked
<1>4. index # 0 /\ index \in Nat
  BY DaemonParts, RequestParts
<1>5. /\ a.whole <=> ~ Known(r) \/ ~ WorthSending(a.patch, rows)
      /\ a.patch = Diff(before.rows, rows) /\ a.rows = rows /\ a.index = index /\ a.id = r.id
      /\ a.carries <=> before.index # index
      /\ a.base = before.id
  BY DEF AnswerTo
<1>6. InStep(World, Editor, k) /\ \A id \in DOMAIN calls : calls[id].key = k => id = r.id
  BY DaemonParts, <1>1, <1>2, CallParts, EditorParts DEF Screen
<1> HIDE DEF a, rows, index, before, call
<1>7. CASE ~ Known(r)
  <2>1. before.id = 0 /\ before.index = 0
    BY <1>7 DEF Before, before
  <2>2. a.whole /\ a.base = 0 /\ a.carries
    BY <1>4, <1>5, <1>7, <2>1
  <2>3. v.memory[k].id = r.id /\ v.memory[k].rows = rows /\ v.memory[k].index = index
    BY DEF Entry, rows, index
  <2>4. call.tick = buf[call.buf].tick => a.rows = Layout(buf[call.buf].doc, LaidOutAt(s.width))
    BY <1>3, <1>5 DEF rows, Laid
  <2> HIDE DEF r
  <2>5. Fits(v, Editor, call, a)
    BY <1>1, <1>2, <1>5, <2>2, <2>3, <2>4 DEF Fits, Alike
  <2> QED BY <2>5 DEF a, call, r
<1>8. CASE Known(r)
  <2>1. k \in DOMAIN remembered /\ before = remembered[k] /\ s.rendered
    BY <1>3, <1>8 DEF Known, Before, before
  <2>2. before.id \in 1..nextId /\ before.id # r.id
    BY RenderInHand, <1>1, <1>2, <2>1 DEF Unanswered
  <2>3. \/ before.id \in s.givenUp
        \/ Alike(before, s.shown)
    BY <1>2, <1>6, <2>1, <2>2 DEF InStep
  <2>4. a.base > 0 /\ a.base # 0
    BY DaemonParts, InvParts, <1>5, <2>2
  <2>5. a.whole \/ WorthSending(a.patch, a.rows)
    BY <1>5, <1>8
  <2>6. \/ a.base \in s.givenUp
        \/ /\ a.base = s.shown.id
           /\ a.patch = Diff(s.shown.rows, a.rows)
           /\ a.carries <=> s.shown.index # a.index
    BY <1>5, <2>3 DEF Alike
  <2>7. v.memory[k].id = r.id /\ v.memory[k].rows = rows /\ v.memory[k].index = index
    BY DEF Entry, rows, index
  <2>8. call.tick = buf[call.buf].tick => a.rows = Layout(buf[call.buf].doc, LaidOutAt(s.width))
    BY <1>3, <1>5 DEF rows, Laid
  <2>9. Alike(v.memory[k], a)
    BY <1>5, <2>7 DEF Alike
  <2> HIDE DEF r
  <2>10. Fits(v, Editor, call, a)
    BY <1>1, <1>2, <2>1, <2>4, <2>5, <2>6, <2>8, <2>9 DEF Fits
  <2> QED BY <2>10 DEF a, call, r
<1> QED BY <1>7, <1>8

\* An answer is decided on: it is good for whoever waits for it, and what is
\* waited for meanwhile stays good, for the render that was answered was given up.
LEMMA ScreenCommits ==
  ASSUME ScreenInv, NEW task \in tasks, Commits(task)
  PROVE  ScreenInv'
<1> DEFINE r == task.request
           k == r.key
           entry == Entry(r)
           answer == AnswerTo(r)
<1>1. /\ Inv /\ Sound(Editor, {}) /\ Screen(World, Editor, {}) /\ NobodyThere
      /\ toDaemon \in Seq(Requests(1..nextId)) /\ tasks \subseteq Tasks(1..nextId)
      /\ remembered \in Table(Keys, Answers)
      /\ UnderWay(World, Editor) = RendersIn(toDaemon) \cup InHand
      /\ Given(World, Editor) = replies \cup Heard
      /\ NoneTwice(toDaemon)
      /\ \A t, u \in tasks : t.request.id = u.request.id => t = u
      /\ \A x \in RendersIn(toDaemon), t \in tasks : x.id # t.request.id
      /\ \A x \in UnderWay(World, Editor), a \in Given(World, Editor) : a.id # x.id
  BY DaemonParts
<1>2. /\ UNCHANGED <<buf, sess, calls, nextId, job, toDaemon, toEditor>>
      /\ UNCHANGED editorVars
  BY DEF Commits, editorVars
<1>3. /\ tasks' = tasks \ {task}
      /\ entry \in Answers /\ answer \in Replies(1..nextId)
      /\ \/ UNCHANGED <<remembered, replies>>
         \/ remembered' = Remember(remembered, k, entry) /\ replies' = replies \cup {answer}
  BY <1>1, CommitsSpec
<1>4. Inv'
  BY <1>1, InvCommits
<1>5. NobodyThere'
  BY <1>1, <1>2 DEF NobodyThere
<1>6. Heard' = Heard /\ InHand' \subseteq InHand
  BY <1>2, <1>3 DEF Heard, InHand
<1>7. CASE UNCHANGED <<remembered, replies>>
  BY <1>1, <1>2, <1>3, <1>4, <1>5, <1>6, <1>7, ScreenDaemon
<1>8. CASE remembered' = Remember(remembered, k, entry) /\ replies' = replies \cup {answer}
  <2> DEFINE ids == 1..nextId
  <2>1. /\ k \in Keys /\ r.id \in ids /\ r \in UnderWay(World, Editor)
        /\ AsAsked(Editor, r) /\ Unanswered(World, Editor)
        /\ r.id \in DOMAIN calls => calls[r.id].key = k
        /\ \A id \in DOMAIN calls :
             /\ calls[id].key \in Keys /\ sess[calls[id].key].open
             /\ calls[id].key = k => id = r.id \/ r.id \in sess[k].givenUp
        /\ sess[k].open =>
             r.id \in sess[k].givenUp \/ (r.id \in DOMAIN calls /\ calls[r.id].key = k)
    BY RenderInHand
  <2>2. /\ remembered'[k] = entry
        /\ \A j \in DOMAIN remembered' :
             j # k => j \in DOMAIN remembered /\ remembered'[j] = remembered[j]
    BY <1>1, <1>3, <1>8, <2>1, RememberSpec DEF Inv, Memory
  <2>3. entry.id = r.id /\ answer.id = r.id
    BY DEF Entry, AnswerTo
  <2>4. Editor' = Editor
    BY <1>2 DEF Editor, editorVars
  <2> DEFINE v == World'
             new == remembered'
  <2>5. /\ v.pipe = toDaemon /\ v.tasks = tasks \ {task} /\ v.replies = replies \cup {answer}
        /\ v.memory = new /\ World.memory = remembered
        /\ Editor.mail = << >> /\ Editor.inbox = toEditor /\ Editor.calls = calls
        /\ Editor.sess = sess /\ Editor.nextId = nextId /\ Editor.buf = buf
    BY <1>2, <1>3, <1>8 DEF World, Editor
  <2>6. Typed(v, 1..Editor.nextId)
    BY <1>2, <1>4, <1>1, <1>3, <1>8, <2>5 DEF Inv, OnTheWay, Memory, Typed
  <2> HIDE DEF v, new, entry, answer
  <2>7. Pipe(v, Editor) = toDaemon
    BY <1>1, <2>5, PipeIsRead
  <2>8. /\ UnderWay(v, Editor) \subseteq UnderWay(World, Editor)
        /\ \A x \in UnderWay(v, Editor) : x.id # r.id
        /\ Given(v, Editor) \subseteq Given(World, Editor) \cup {answer}
    BY <2>5, <2>7, <1>1 DEF UnderWay, Given, Heard, InHand
  <2>9. OnePlace(v, Editor)
    BY <1>1, <2>5, <2>7 DEF OnePlace
  <2>10. Unanswered(v, Editor)
    BY <2>8, <1>1, <2>3, <2>1, <2>2, <2>5 DEF Unanswered, new
  <2>11. \A x \in UnderWay(v, Editor) : AsAsked(Editor, x) /\ Wanted(Editor, x)
    BY <1>1, <2>8 DEF Screen
  <2>12. ASSUME NEW a \in Given(v, Editor), a.type = "render_result", a.id \in DOMAIN Editor.calls
         PROVE  Fits(v, Editor, Editor.calls[a.id], a)
    <3>1. CASE a = answer
      BY <2>2, <2>3, <2>5, <2>12, <3>1, AnswerFits DEF new, entry, answer
    <3>2. CASE a # answer
      BY <1>1, <2>5, <2>8, <2>12, <3>2, <2>1, <2>2, <2>3 DEF Screen, new, Fits
    <3> QED BY <3>1, <3>2
  <2>13. \A j \in Keys : Editor.sess[j].open => MapIsRight(Editor, j)
    BY <1>1 DEF Screen
  <2>14. ASSUME NEW j \in Keys, Editor.sess[j].open
         PROVE  InStep(v, Editor, j)
    BY <1>1, <2>14, <2>1, <2>2, <2>3, <2>5 DEF Screen, new, InStep
  <2>15. Ticks(Editor)
    BY <1>1 DEF Screen
  <2>16. Screen(v, Editor, {})
    BY <2>6, <2>9, <2>10, <2>11, <2>12, <2>13, <2>14, <2>15 DEF Screen
  <2> QED BY <1>4, <1>5, <2>4, <2>16 DEF ScreenInv, v
<1> QED BY <1>3, <1>7, <1>8

-----------------------------------------------------------------------------
(* The invariant holds.                                                    *)

LEMMA ScreenInit == Init => ScreenInv
<1> SUFFICES ASSUME Init PROVE ScreenInv
  OBVIOUS
<1>1. /\ sess = [k \in Keys |-> NoSession] /\ calls = << >> /\ toDaemon = << >>
      /\ toEditor = << >> /\ remembered = << >> /\ tasks = {} /\ replies = {}
  BY DEF Init
<1>2. /\ DOMAIN << >> = {} /\ << >> \in Table(Keys, Answers)
      /\ << >> \o << >> = << >> /\ Len(<< >>) = 0 /\ 1..0 = {}
  BY EmptyTable
<1>3. /\ World.pipe = << >> /\ World.tasks = {} /\ World.replies = {}
      /\ World.memory = << >> /\ DOMAIN World.memory = {}
      /\ Editor.mail = << >> /\ Editor.inbox = << >> /\ DOMAIN Editor.calls = {}
  BY <1>1, <1>2 DEF World, Editor
<1>4. \A k \in Keys : ~ Editor.sess[k].open
  BY <1>1 DEF Editor, NoSession
<1>5. Pipe(World, Editor) = << >> /\ RendersIn(<< >>) = {} /\ NoneTwice(<< >>)
  BY <1>2, <1>3, NoRenders DEF Pipe
<1>6. UnderWay(World, Editor) = {} /\ Given(World, Editor) = {}
  BY <1>2, <1>3, <1>5 DEF UnderWay, Given
<1>7. Typed(World, 1..Editor.nextId)
  BY <1>2, <1>3 DEF Typed
<1>8. OnePlace(World, Editor) /\ Unanswered(World, Editor)
  BY <1>3, <1>4, <1>5, <1>6 DEF OnePlace, Unanswered
<1>9. Screen(World, Editor, {})
  BY <1>3, <1>4, <1>6, <1>7, <1>8 DEF Screen, Ticks
<1>10. NobodyThere
  BY <1>1, <1>2 DEF NobodyThere
<1> QED BY <1>9, <1>10, InvInit DEF ScreenInv

LEMMA ScreenNext == ScreenInv /\ [Next]_vars => ScreenInv'
<1> SUFFICES ASSUME ScreenInv, [Next]_vars PROVE ScreenInv'
  OBVIOUS
<1>1. CASE User
  BY <1>1, ScreenOpenPreview, ScreenSwitchSource, ScreenEdit, ScreenResize,
     ScreenToggleTask, ScreenRefresh, ScreenClosePreview DEF User
<1>2. CASE Timers
  BY <1>2, ScreenTimerFires, ScreenRestartFires DEF Timers
<1>3. CASE Callbacks
  BY <1>3, ScreenGreeted, ScreenAnswered, ScreenDaemonExits DEF Callbacks
<1>4. CASE Daemon
  BY ScreenLooksForCancel, <1>4, ScreenReadsRequest, ScreenPanics, ScreenCommits, ScreenSends
     DEF PicksUp, Renders, Daemon, Task
<1>5. CASE Faults
  BY <1>5, ScreenCrashes, ScreenTimesOut DEF Faults
<1>6. CASE UNCHANGED vars
  BY <1>6, InvNext DEF ScreenInv, vars, editorVars, daemonVars, Editor, World, NobodyThere
<1> QED BY <1>1, <1>2, <1>3, <1>4, <1>5, <1>6 DEF Next

-----------------------------------------------------------------------------
(* What it shows.                                                          *)

\* A session that claims its rows has those of the answer it last accepted.
LEMMA ScreenShows ==
  ASSUME ScreenInv, NEW k \in Open, sess[k].rendered, ~ sess[k].astray
  PROVE  sess[k].held = sess[k].shown.rows /\ sess[k].index = sess[k].shown.index
<1>1. k \in Keys /\ sess[k].open /\ Editor.sess = sess
  BY DEF Open, Editor
<1>2. InStep(World, Editor, k)
  BY <1>1 DEF ScreenInv, Screen
<1> QED BY <1>1, <1>2 DEF InStep

\* What is on screen is what the daemon rendered last for it, for every number
\* of windows and buffers, every renderer and every order of events: no patch is
\* ever put on rows it was not made against, except over a render given up.
THEOREM RenderShowsItsLastAnswer == Spec => []ShowsItsLastAnswer
<1>1. ScreenInv => ShowsItsLastAnswer
  BY ScreenShows DEF ShowsItsLastAnswer
<1> QED BY <1>1, ScreenInit, ScreenNext, PTL DEF Spec

\* A map that may be used to edit the source is that of the text in the buffer.
LEMMA ScreenMaps ==
  ASSUME ScreenInv, NEW k \in Open, SourceMapCurrent(k)
  PROVE  sess[k].shown.rows = Layout(buf[sess[k].src].doc, LaidOutAt(sess[k].width))
<1> DEFINE s == sess[k]
<1>1. k \in Keys /\ s.open /\ Editor.sess = sess /\ Editor.buf = buf /\ Editor.nextId = nextId
  BY DEF Open, Editor
<1>2. s \in Sessions(1..nextId) /\ buf \in [Bufs -> Texts]
  BY <1>1, InvParts, OpenIsSession DEF ScreenInv
<1>3. s.src \in Bufs /\ buf[s.src].tick \in Nat /\ s.gen \in Nat
  BY <1>2 DEF Sessions, Texts
<1>4. s.map = [buf |-> s.src, tick |-> buf[s.src].tick, gen |-> s.gen]
  BY DEF SourceMapCurrent
<1>5. MapIsRight(Editor, k)
  BY <1>1 DEF ScreenInv, Screen
<1> HIDE DEF s
<1>6. s.map.buf = s.src /\ s.map.tick = buf[s.src].tick /\ s.map.gen = s.gen
  BY <1>4
<1>7. s.map # NoMap
  BY <1>3, <1>6 DEF NoMap
<1>8. Editor.sess[k] = s
  BY <1>1 DEF s
<1>9. s.shown.rows = Layout(buf[s.src].doc, LaidOutAt(s.width))
  BY <1>1, <1>5, <1>6, <1>7, <1>8 DEF MapIsRight
<1> QED BY <1>9 DEF s

\* A checkbox ticked in the preview is the one on that line of the source, for
\* every number of windows and buffers, every renderer and every order of events:
\* a map that says it is current is that of the text the buffer holds.
THEOREM RenderTaskHitsItsLine == Spec => []TaskHitsItsLine
<1>1. ScreenInv => TaskHitsItsLine
  <2> SUFFICES ASSUME ScreenInv, NEW k \in Open, SourceMapCurrent(k), ~ sess[k].astray
               PROVE  SrcMap(sess[k].held)
                        = SrcMap(Layout(buf[sess[k].src].doc, LaidOutAt(sess[k].width)))
    BY DEF TaskHitsItsLine
  <2>1. sess[k].rendered
    BY DEF SourceMapCurrent
  <2>2. sess[k].held = sess[k].shown.rows
    BY <2>1, ScreenShows
  <2> QED BY <2>2, ScreenMaps
<1> QED BY <1>1, ScreenInit, ScreenNext, PTL DEF Spec
=============================================================================
