--------------------------- MODULE SequenceLemmas ---------------------------
(***************************************************************************)
(* Facts about numbers and sequences that the proofs of several parts need *)
(* and the library does not have in a form they can cite.                  *)
(***************************************************************************)
EXTENDS Retaining, SequencesExt, SequenceTheorems, FiniteSetTheorems, TLAPS

-----------------------------------------------------------------------------
(* Well-ordering of the naturals, in the form CHOOSEs and recursions need. *)

\* Every inhabited set of naturals has a least element.
LEMMA NatLeast ==
  ASSUME NEW S \in SUBSET Nat, S # {}
  PROVE  \E m \in S : \A n \in S : m <= n
<1> DEFINE Intervals == {1..n : n \in S}
<1>1. \A n \in S : IsFiniteSet(1..n)
  BY FS_Interval
<1>2. Intervals \subseteq FiniteSubsetsOf(Nat) /\ Intervals # {}
  <2>1. ASSUME NEW n \in S PROVE 1..n \in FiniteSubsetsOf(Nat)
    <3>1. 1..n \in SUBSET Nat
      OBVIOUS
    <3> QED BY <3>1, <1>1 DEF FiniteSubsetsOf
  <2> QED BY <2>1
<1>3. \E x \in Intervals : \A y \in Intervals :
        <<y, x>> \notin StrictSubsetOrdering(Nat)
  <2>1. IsWellFoundedOn(StrictSubsetOrdering(Nat), FiniteSubsetsOf(Nat))
    BY FS_StrictSubsetOrderingWellFounded
  <2> HIDE DEF Intervals
  <2> QED BY <1>2, <2>1, WFMin
<1>4. PICK m \in S : \A n \in S : <<1..n, 1..m>> \notin StrictSubsetOrdering(Nat)
  BY <1>3
<1>5. ASSUME NEW n \in S, n < m PROVE FALSE
  <2>1. 1..n \subseteq 1..m /\ m \in 1..m /\ m \notin 1..n
    BY <1>5
  <2>2. <<1..n, 1..m>> \in (SUBSET Nat) \X (SUBSET Nat)
    OBVIOUS
  <2> QED BY <2>1, <2>2, <1>4 DEF StrictSubsetOrdering
<1> QED BY <1>5

\* f[0] is `base`, and every other value is made of the one before it.
Solves(f, V, base, n, step) ==
  /\ f \in [0..n -> V]
  /\ f[0] = base
  /\ \A i \in 1..n : f[i] = step[<<f[i - 1], i>>]

\* A function defined by recursion on 0..n is there, and has the values it should.
LEMMA RecursionExists ==
  ASSUME NEW V, NEW base \in V, NEW n \in Nat, NEW step \in [V \X (1..n) -> V]
  PROVE  \E f : Solves(f, V, base, n, step)
<1> DEFINE Rec(f, m) == /\ f \in [0..m -> V]
                        /\ f[0] = base
                        /\ \A i \in 1..m : f[i] = step[<<f[i - 1], i>>]
           Bad == {m \in 0..n : ~ \E f : Rec(f, m)}
<1>1. ASSUME Bad # {} PROVE FALSE
  <2>1. PICK m \in Bad : \A k \in Bad : m <= k
    <3>1. Bad \in SUBSET Nat
      OBVIOUS
    <3> HIDE DEF Bad
    <3> QED BY <1>1, <3>1, NatLeast
  <2>2. m \in 0..n /\ ~ \E f : Rec(f, m)
    BY <2>1
  <2>3. CASE m = 0
    <3>1. Rec([i \in 0..0 |-> base], 0)
      OBVIOUS
    <3> QED BY <2>2, <2>3, <3>1
  <2>4. CASE m > 0
    <3>1. m - 1 \in 0..n /\ ~ (m <= m - 1)
      BY <2>2, <2>4
    <3>2. m - 1 \notin Bad
      <4> HIDE DEF Bad
      <4> QED BY <2>1, <3>1
    <3>3. PICK g : Rec(g, m - 1)
      BY <3>1, <3>2
    <3> DEFINE f == [i \in 0..m |-> IF i = m THEN step[<<g[m - 1], m>>] ELSE g[i]]
    <3>4. g[m - 1] \in V /\ m \in 1..n
      BY <2>2, <2>4, <3>3
    <3>5. f \in [0..m -> V] /\ f[0] = base
      BY <2>2, <2>4, <3>3, <3>4
    <3>6. ASSUME NEW i \in 1..m PROVE f[i] = step[<<f[i - 1], i>>]
      <4>1. CASE i = m
        <5>1. m \in 0..m /\ m - 1 \in 0..m /\ m - 1 # m
          BY <2>2, <2>4
        <5> QED BY <4>1, <5>1
      <4>2. CASE i # m
        <5>1. i \in 1..(m - 1) /\ i \in 0..m /\ i - 1 \in 0..m /\ i - 1 # m
          BY <2>2, <4>2
        <5>2. f[i] = g[i] /\ f[i - 1] = g[i - 1]
          BY <4>2, <5>1
        <5> HIDE DEF f
        <5> QED BY <3>3, <5>1, <5>2
      <4> QED BY <4>1, <4>2
    <3>7. Rec(f, m)
      <4> HIDE DEF f
      <4> QED BY <3>5, <3>6
    <3> QED BY <2>2, <3>7
  <2> QED BY <2>2, <2>3, <2>4
<1>2. n \in 0..n
  OBVIOUS
<1>3. \E f : Rec(f, n)
  <2>1. n \notin Bad
    BY <1>1
  <2> HIDE DEF Rec
  <2> QED BY <1>2, <2>1
<1> QED BY <1>3 DEF Solves


-----------------------------------------------------------------------------
(* What is left of a sequence.                                             *)

\* left[n] is what is left of the first n elements.
IsLeft(left, X, s, T) ==
  /\ Dropping(s, T) = left[Len(s)]
  /\ left[0] = << >>
  /\ \A i \in 0..Len(s) : left[i] \in Seq(X)
  /\ \A i \in 1..Len(s) :
       left[i] = IF s[i] \in T THEN left[i - 1] ELSE Append(left[i - 1], s[i])

LEMMA DroppingSteps ==
  ASSUME NEW X, NEW s \in Seq(X), NEW T
  PROVE  \E left : IsLeft(left, X, s, T)
<1> DEFINE n == Len(s)
           Step(x, i) == IF s[i] \in T THEN x ELSE Append(x, s[i])
           step == [p \in Seq(X) \X (1..n) |-> Step(p[1], p[2])]
           Rec(f) == f = [i \in 0..n |->
                            IF i = 0 THEN << >>
                            ELSE IF s[i] \in T THEN f[i - 1]
                            ELSE Append(f[i - 1], s[i])]
           left == CHOOSE f : Rec(f)
<1>1. n \in Nat /\ \A i \in 1..n : s[i] \in X
  BY LenProperties, ElementOfSeq
<1>2. << >> \in Seq(X)
  BY EmptySeq
<1>3. step \in [Seq(X) \X (1..n) -> Seq(X)]
  <2>1. \A x \in Seq(X), i \in 1..n : Step(x, i) \in Seq(X)
    BY <1>1, AppendProperties
  <2> HIDE DEF Step
  <2> QED BY <2>1
<1>4. PICK f \in [0..n -> Seq(X)] :
        f[0] = << >> /\ \A i \in 1..n : f[i] = step[<<f[i - 1], i>>]
  <2> HIDE DEF step, n
  <2>1. \E f : Solves(f, Seq(X), << >>, n, step)
    BY <1>1, <1>2, <1>3, RecursionExists
  <2> QED BY <2>1 DEF Solves
<1>5. \A i \in 1..n : f[i] = IF s[i] \in T THEN f[i - 1] ELSE Append(f[i - 1], s[i])
  <2> SUFFICES ASSUME NEW i \in 1..n PROVE f[i] = Step(f[i - 1], i)
    OBVIOUS
  <2>1. i - 1 \in 0..n
    BY <1>1
  <2>2. f[i - 1] \in Seq(X) /\ f[i] = step[<<f[i - 1], i>>]
    BY <1>4, <2>1
  <2> HIDE DEF Step
  <2> QED BY <2>2
<1>6. Rec(f)
  <2>1. \A i \in 0..n : i # 0 => i \in 1..n
    BY <1>1
  <2>2. f = [i \in 0..n |-> f[i]]
    BY <1>4
  <2> QED BY <1>4, <1>5, <2>1, <2>2
<1>7. Rec(left)
  <2> HIDE DEF Rec
  <2> QED BY <1>6
<1>8. Dropping(s, T) = left[n]
  BY DEF Dropping
<1> HIDE DEF left
<1>9. /\ left[0] = << >>
      /\ \A i \in 1..n : left[i] = IF s[i] \in T THEN left[i - 1] ELSE Append(left[i - 1], s[i])
  <2>1. 0 \in 0..n /\ \A i \in 1..n : i \in 0..n /\ i # 0
    BY <1>1
  <2> QED BY <1>7, <2>1
<1>10. ASSUME NEW m \in 0..n PROVE left[m] \in Seq(X)
  <2> HIDE DEF n
  <2> DEFINE Bad == {k \in 0..n : left[k] \notin Seq(X)}
  <2>1. ASSUME Bad # {} PROVE FALSE
    <3>1. PICK k \in Bad : \A j \in Bad : k <= j
      <4>1. Bad \in SUBSET Nat
        BY <1>1
      <4> HIDE DEF Bad
      <4> QED BY <2>1, <4>1, NatLeast
    <3>2. k \in 0..n /\ left[k] \notin Seq(X)
      BY <3>1
    <3>3. k # 0
      BY <1>2, <1>9, <3>2
    <3>4. k \in 1..n /\ k - 1 \in 0..n /\ ~ (k <= k - 1)
      BY <1>1, <3>2, <3>3
    <3>5. left[k - 1] \in Seq(X)
      BY <3>1, <3>4
    <3>6. Append(left[k - 1], s[k]) \in Seq(X)
      BY <1>1, <3>4, <3>5, AppendProperties
    <3> QED BY <1>9, <3>2, <3>4, <3>5, <3>6
  <2> QED BY <2>1
<1> QED BY <1>8, <1>9, <1>10 DEF IsLeft

\* The elements of r are those of the first m of s that are not in T, in their order.
LeftOf(r, s, m, T) ==
  \E place \in [1..Len(r) -> 1..m] :
    /\ \A k \in 1..Len(r) : r[k] = s[place[k]] /\ r[k] \notin T
    /\ \A j, k \in 1..Len(r) : j < k => place[j] < place[k]
    /\ \A i \in 1..m : s[i] \notin T => \E k \in 1..Len(r) : place[k] = i

LEMMA LeftNone ==
  ASSUME NEW s, NEW T
  PROVE  LeftOf(<< >>, s, 0, T)
<1> DEFINE place == [k \in 1..0 |-> 0]
<1>1. Len(<< >>) = 0 /\ place \in [1..0 -> 1..0] /\ 1..0 = {}
  OBVIOUS
<1> HIDE DEF place
<1> QED BY <1>1 DEF LeftOf

LEMMA LeftOut ==
  ASSUME NEW r, NEW s, NEW m \in Nat \ {0}, NEW T, Len(r) \in Nat,
         LeftOf(r, s, m - 1, T), s[m] \in T
  PROVE  LeftOf(r, s, m, T)
<1>1. \A i \in 1..m : i = m \/ i \in 1..(m - 1)
  OBVIOUS
<1> QED BY <1>1 DEF LeftOf

LEMMA LeftIn ==
  ASSUME NEW X, NEW r \in Seq(X), NEW s, NEW m \in Nat \ {0}, NEW T,
         LeftOf(r, s, m - 1, T), s[m] \notin T, s[m] \in X
  PROVE  LeftOf(Append(r, s[m]), s, m, T)
<1> DEFINE l   == Len(r)
           now == Append(r, s[m])
<1>1. /\ l \in Nat /\ Len(now) = l + 1 /\ now[l + 1] = s[m]
      /\ \A k \in 1..l : now[k] = r[k]
  BY AppendProperties, LenProperties
<1>2. PICK place \in [1..l -> 1..(m - 1)] :
        /\ \A k \in 1..l : r[k] = s[place[k]] /\ r[k] \notin T
        /\ \A j, k \in 1..l : j < k => place[j] < place[k]
        /\ \A i \in 1..(m - 1) : s[i] \notin T => \E k \in 1..l : place[k] = i
  BY DEF LeftOf
<1> DEFINE more == [k \in 1..(l + 1) |-> IF k <= l THEN place[k] ELSE m]
<1>3. /\ more \in [1..(l + 1) -> 1..m] /\ more[l + 1] = m
      /\ \A k \in 1..l : more[k] = place[k] /\ place[k] \in 1..(m - 1)
  BY <1>1, <1>2
<1>4. /\ \A k \in 1..(l + 1) : k = l + 1 \/ k \in 1..l
      /\ \A i \in 1..m : i = m \/ i \in 1..(m - 1)
  BY <1>1
<1> HIDE DEF more, now, l
<1>5. \A k \in 1..(l + 1) : now[k] = s[more[k]] /\ now[k] \notin T
  BY <1>1, <1>2, <1>3, <1>4
<1>6. ASSUME NEW j \in 1..(l + 1), NEW k \in 1..(l + 1), j < k PROVE more[j] < more[k]
  <2>1. j \in 1..l
    BY <1>1, <1>6
  <2>2. CASE k = l + 1
    BY <1>3, <2>1, <2>2
  <2>3. CASE k \in 1..l
    BY <1>2, <1>3, <1>6, <2>1, <2>3
  <2> QED BY <1>4, <2>2, <2>3
<1>7. \A i \in 1..m : s[i] \notin T => \E k \in 1..(l + 1) : more[k] = i
  BY <1>1, <1>2, <1>3, <1>4
<1>8. /\ Len(now) = l + 1 /\ more \in [1..Len(now) -> 1..m]
  BY <1>1, <1>3
<1>9. LeftOf(now, s, m, T)
  BY <1>5, <1>6, <1>7, <1>8 DEF LeftOf
<1> QED BY <1>9 DEF now

\* What is left are the elements not taken out, in their order.
LEMMA DroppingSpec ==
  ASSUME NEW X, NEW s \in Seq(X), NEW T
  PROVE  /\ Dropping(s, T) \in Seq(X)
         /\ LeftOf(Dropping(s, T), s, Len(s), T)
<1>1. PICK left : IsLeft(left, X, s, T)
  BY DroppingSteps
<1> USE DEF IsLeft
<1> DEFINE n == Len(s)
           Bad == {m \in 0..n : ~ LeftOf(left[m], s, m, T)}
<1>2. n \in Nat /\ n \in 0..n /\ \A i \in 1..n : s[i] \in X
  BY LenProperties, ElementOfSeq
<1>3. ASSUME Bad # {} PROVE FALSE
  <2>1. PICK m \in Bad : \A k \in Bad : m <= k
    <3>1. Bad \in SUBSET Nat
      BY <1>2
    <3> HIDE DEF Bad
    <3> QED BY <1>3, <3>1, NatLeast
  <2>2. m \in 0..n /\ ~ LeftOf(left[m], s, m, T)
    BY <2>1
  <2>3. m # 0
    BY <1>1, <2>2, LeftNone
  <2>4. m \in 1..n /\ m \in Nat \ {0} /\ m - 1 \in 0..n /\ ~ (m <= m - 1)
    BY <1>2, <2>2, <2>3
  <2>5. LeftOf(left[m - 1], s, m - 1, T)
    BY <2>1, <2>4
  <2>6. left[m - 1] \in Seq(X) /\ Len(left[m - 1]) \in Nat /\ s[m] \in X
    BY <1>1, <1>2, <2>4, LenProperties
  <2>7. CASE s[m] \in T
    BY <1>1, <2>2, <2>4, <2>5, <2>6, <2>7, LeftOut
  <2>8. CASE s[m] \notin T
    <3>1. LeftOf(Append(left[m - 1], s[m]), s, m, T)
      BY <2>4, <2>5, <2>6, <2>8, LeftIn
    <3> QED BY <1>1, <2>2, <2>4, <2>8, <3>1
  <2> QED BY <2>7, <2>8
<1>4. LeftOf(left[n], s, n, T)
  BY <1>2, <1>3
<1> QED BY <1>1, <1>2, <1>4


\* A sequence that repeats nothing is as long as the set of what is in it.
LEMMA DistinctCount ==
  ASSUME NEW X, NEW s \in Seq(X),
         \A i, j \in 1..Len(s) : s[i] = s[j] => i = j
  PROVE  LET S == {s[i] : i \in 1..Len(s)}
         IN  IsFiniteSet(S) /\ Cardinality(S) = Len(s)
<1> DEFINE S == {s[i] : i \in 1..Len(s)}
           f == [i \in 1..Len(s) |-> s[i]]
<1>1. Len(s) \in Nat
  BY LenProperties
<1>2. IsFiniteSet(1..Len(s)) /\ Cardinality(1..Len(s)) = Len(s)
  <2>1. IsFiniteSet(1..Len(s))
    BY <1>1, FS_Interval
  <2>2. Cardinality(1..Len(s)) = IF 1 > Len(s) THEN 0 ELSE Len(s) - 1 + 1
    BY <1>1, FS_Interval
  <2> QED BY <1>1, <2>1, <2>2
<1>3. f \in Bijection(1..Len(s), S)
  BY DEF Bijection, Injection, Surjection, IsInjective
<1>4. ExistsBijection(1..Len(s), S)
  BY <1>3 DEF ExistsBijection
<1> QED BY <1>2, <1>4, FS_Bijection


\* An increasing map of 1..l into 1..n has room for it.
LEMMA NoMorePlaces ==
  ASSUME NEW l \in Nat, NEW n \in Nat, NEW place \in [1..l -> 1..n],
         \A j, k \in 1..l : j < k => place[j] < place[k]
  PROVE  l <= n
<1>1. /\ IsFiniteSet(1..l) /\ IsFiniteSet(1..n)
      /\ Cardinality(1..l) = l /\ Cardinality(1..n) = n
  BY FS_Interval
<1>2. place \in Injection(1..l, 1..n)
  BY DEF Injection, IsInjective
<1>3. Cardinality(1..l) <= Cardinality(1..n)
  BY <1>1, <1>2, FS_Injection DEF ExistsInjection
<1> QED BY <1>1, <1>3


-----------------------------------------------------------------------------
(* Sequences whose elements are handed on.                                 *)

\* What goes from the head of one to the end of another leaves the two of them together
\* as they were.
LEMMA HandedOver ==
  ASSUME NEW X, NEW s \in Seq(X), NEW t \in Seq(X), t # << >>
  PROVE  /\ Append(s, Head(t)) \in Seq(X) /\ Tail(t) \in Seq(X)
         /\ Append(s, Head(t)) \o Tail(t) = s \o t
<1> DEFINE more == Append(s, Head(t))
           rest == Tail(t)
<1>1. /\ Head(t) \in X /\ Head(t) = t[1] /\ rest \in Seq(X) /\ Len(rest) = Len(t) - 1
      /\ \A i \in 1..Len(rest) : rest[i] = t[i + 1]
  BY HeadTailProperties
<1>2. /\ more \in Seq(X) /\ Len(more) = Len(s) + 1 /\ more[Len(s) + 1] = t[1]
      /\ \A i \in 1..Len(s) : more[i] = s[i]
  BY <1>1, AppendProperties
<1>3. Len(s) \in Nat /\ Len(t) \in Nat
  BY LenProperties
<1> HIDE DEF more, rest
<1>4. /\ more \o rest \in Seq(X) /\ Len(more \o rest) = Len(s) + Len(t)
      /\ \A i \in 1..(Len(s) + Len(t)) :
           (more \o rest)[i] = IF i <= Len(s) + 1 THEN more[i] ELSE rest[i - (Len(s) + 1)]
  <2>1. /\ more \o rest \in Seq(X) /\ Len(more \o rest) = Len(more) + Len(rest)
        /\ \A i \in 1..(Len(more) + Len(rest)) :
             (more \o rest)[i] = IF i <= Len(more) THEN more[i] ELSE rest[i - Len(more)]
    BY <1>1, <1>2, ConcatProperties
  <2>2. Len(more) = Len(s) + 1 /\ Len(more) + Len(rest) = Len(s) + Len(t)
    BY <1>1, <1>2, <1>3
  <2> QED BY <2>1, <2>2
<1>5. /\ s \o t \in Seq(X) /\ Len(s \o t) = Len(s) + Len(t)
      /\ \A i \in 1..(Len(s) + Len(t)) :
           (s \o t)[i] = IF i <= Len(s) THEN s[i] ELSE t[i - Len(s)]
  BY ConcatProperties
<1>6. ASSUME NEW i \in 1..(Len(s) + Len(t)) PROVE (more \o rest)[i] = (s \o t)[i]
  <2>1. CASE i <= Len(s)
    <3>1. i \in 1..Len(s) /\ i <= Len(s) + 1
      BY <1>3, <2>1
    <3> QED BY <1>2, <1>4, <1>5, <2>1, <3>1
  <2>2. CASE i = Len(s) + 1
    <3>1. i - Len(s) = 1 /\ ~ (i <= Len(s)) /\ i <= Len(s) + 1
      BY <1>3, <2>2
    <3> QED BY <1>2, <1>4, <1>5, <2>2, <3>1
  <2>3. CASE i > Len(s) + 1
    <3>1. /\ i - (Len(s) + 1) \in 1..Len(rest) /\ (i - (Len(s) + 1)) + 1 = i - Len(s)
          /\ ~ (i <= Len(s)) /\ ~ (i <= Len(s) + 1)
      BY <1>1, <1>3, <2>3
    <3> QED BY <1>1, <1>4, <1>5, <3>1
  <2>4. i <= Len(s) \/ i = Len(s) + 1 \/ i > Len(s) + 1
    BY <1>3
  <2> QED BY <2>1, <2>2, <2>3, <2>4
<1>7. more \o rest = s \o t
  BY <1>4, <1>5, <1>6, SeqEqual
<1> QED BY <1>1, <1>2, <1>7 DEF more, rest

\* What is new goes to the end of a sequence that has nothing twice.
LEMMA AppendInjects ==
  ASSUME NEW X, NEW s \in Seq(X), NEW x \in X, x \notin Range(s), IsInjective(s)
  PROVE  Range(Append(s, x)) = Range(s) \union {x} /\ IsInjective(Append(s, x))
<1> DEFINE n == Len(s)
           more == Append(s, x)
<1>1. n \in Nat /\ DOMAIN s = 1..n
  BY LenProperties
<1>2. /\ more \in Seq(X) /\ Len(more) = n + 1 /\ more[n + 1] = x
      /\ \A i \in 1..n : more[i] = s[i]
  BY AppendProperties
<1>3. DOMAIN more = 1..(n + 1)
  BY <1>2, LenProperties
<1>4. \A i \in 1..(n + 1) : i \in 1..n \/ i = n + 1
  BY <1>1
<1>5. 1..n \subseteq 1..(n + 1) /\ n + 1 \in 1..(n + 1) /\ n + 1 \notin 1..n
  BY <1>1
<1> HIDE DEF more, n
<1>6. Range(more) = Range(s) \union {x}
  BY <1>1, <1>2, <1>3, <1>4, <1>5 DEF Range
<1>7. IsInjective(more)
  <2> SUFFICES ASSUME NEW i \in 1..(n + 1), NEW j \in 1..(n + 1), more[i] = more[j]
               PROVE  i = j
    BY <1>3 DEF IsInjective
  <2>1. \A k \in 1..n : s[k] # x
    BY <1>1 DEF Range
  <2> QED BY <1>1, <1>2, <1>4, <2>1 DEF IsInjective
<1> QED BY <1>6, <1>7 DEF more

\* Nor does its beginning.
LEMMA PrefixInjects ==
  ASSUME NEW X, NEW s \in Seq(X), NEW t \in Seq(X), IsInjective(s \o t)
  PROVE  IsInjective(s)
<1>1. Len(s) \in Nat /\ Len(t) \in Nat /\ DOMAIN s = 1..Len(s)
  BY LenProperties
<1>2. /\ s \o t \in Seq(X) /\ Len(s \o t) = Len(s) + Len(t)
      /\ \A i \in 1..(Len(s) + Len(t)) :
           (s \o t)[i] = IF i <= Len(s) THEN s[i] ELSE t[i - Len(s)]
  BY ConcatProperties
<1>3. DOMAIN (s \o t) = 1..(Len(s) + Len(t))
  BY <1>2, LenProperties
<1>4. \A i \in 1..Len(s) : i \in 1..(Len(s) + Len(t)) /\ i <= Len(s)
  BY <1>1
<1> QED BY <1>1, <1>2, <1>3, <1>4 DEF IsInjective

-----------------------------------------------------------------------------
(* A finite set in the order of a key, which Sorted() puts it in.          *)

Keyed(S, key) ==
  /\ IsFiniteSet(S) /\ key \in [S -> Int]
  /\ \A d, e \in S : key[d] = key[e] => d = e

Below(S, key, e) == {d \in S : key[d] < key[e]}

\* s has in each place an element of that rank, if there is one.
ByRank(s, S, key) ==
  /\ s = [k \in 1..Cardinality(S) |-> s[k]]
  /\ \A k \in 1..Cardinality(S) :
       (\E e \in S : Cardinality(Below(S, key, e)) = k - 1)
         => s[k] \in S /\ Cardinality(Below(S, key, s[k])) = k - 1

\* The ranks of the elements are 0..Cardinality(S) - 1, and in the order of their keys.
LEMMA RanksAreInOrder ==
  ASSUME NEW S, NEW key, Keyed(S, key)
  PROVE  /\ Cardinality(S) \in Nat
         /\ \A e \in S : Cardinality(Below(S, key, e)) \in 0..(Cardinality(S) - 1)
         /\ \A d, e \in S :
              key[d] < key[e] => Cardinality(Below(S, key, d)) < Cardinality(Below(S, key, e))
         /\ \A k \in 0..(Cardinality(S) - 1) : \E e \in S : Cardinality(Below(S, key, e)) = k
<1> DEFINE n == Cardinality(S)
           rank == [e \in S |-> Cardinality(Below(S, key, e))]
<1> USE DEF Keyed
<1>1. n \in Nat
  BY FS_CardinalityType
<1>2. ASSUME NEW e \in S
      PROVE  IsFiniteSet(Below(S, key, e)) /\ rank[e] \in 0..(n - 1)
  <2>1. Below(S, key, e) \in SUBSET (S \ {e})
    BY DEF Below
  <2>2. IsFiniteSet(S \ {e}) /\ Cardinality(S \ {e}) = n - 1
    BY FS_RemoveElement
  <2>3. /\ IsFiniteSet(Below(S, key, e))
        /\ Cardinality(Below(S, key, e)) <= n - 1
    BY <2>1, <2>2, FS_Subset
  <2>4. Cardinality(Below(S, key, e)) \in Nat
    BY <2>3, FS_CardinalityType
  <2> QED BY <1>1, <2>3, <2>4
<1>3. ASSUME NEW d \in S, NEW e \in S, key[d] < key[e]
      PROVE  rank[d] < rank[e]
  <2>1. d \notin Below(S, key, d)
    BY DEF Below
  <2>2. IsFiniteSet(Below(S, key, d) \cup {d})
        /\ Cardinality(Below(S, key, d) \cup {d}) = rank[d] + 1
    BY <1>2, <2>1, FS_AddElement
  <2>3. Below(S, key, d) \cup {d} \in SUBSET Below(S, key, e)
    BY <1>3 DEF Below
  <2>4. rank[d] + 1 <= rank[e]
    BY <1>2, <2>2, <2>3, FS_Subset
  <2> HIDE DEF rank, n
  <2> QED BY <1>1, <1>2, <2>4
<1>4. rank \in Injection(S, 0..(n - 1))
  <2>1. rank \in [S -> 0..(n - 1)]
    BY <1>2
  <2>2. ASSUME NEW d \in S, NEW e \in S, rank[d] = rank[e] PROVE d = e
    <3> HIDE DEF rank, n
    <3>1. ~ (rank[d] < rank[e]) /\ ~ (rank[e] < rank[d])
      BY <2>1, <2>2, <1>1
    <3>2. key[d] = key[e]
      BY <3>1, <1>3
    <3> QED BY <3>2
  <2> HIDE DEF rank
  <2> QED BY <2>1, <2>2 DEF Injection, IsInjective
<1>5. IsFiniteSet(0..(n - 1)) /\ Cardinality(0..(n - 1)) = n
  BY <1>1, FS_Interval
<1>6. rank \in Surjection(S, 0..(n - 1))
  <2> HIDE DEF rank
  <2> QED BY <1>4, <1>5, FS_Injection
<1>7. \A k \in 0..(n - 1) : \E e \in S : rank[e] = k
  <2> HIDE DEF rank
  <2> QED BY <1>6 DEF Surjection
<1> QED BY <1>1, <1>2, <1>3, <1>7

\* A sequence is as long as the domain it has.
LEMMA LenOfDomain ==
  ASSUME NEW S, NEW s \in Seq(S), NEW n \in Nat, DOMAIN s = 1..n
  PROVE  Len(s) = n
<1>1. Len(s) \in Nat /\ DOMAIN s = 1..Len(s)
  BY LenProperties
<1>2. \A a, b \in Nat : a < b => 1..a # 1..b
  <2> SUFFICES ASSUME NEW a \in Nat, NEW b \in Nat, a < b PROVE 1..a # 1..b
    OBVIOUS
  <2>1. b \in 1..b /\ b \notin 1..a
    OBVIOUS
  <2> QED BY <2>1
<1> QED BY <1>1, <1>2

\* A sequence that has each rank in its place has every element once, in order.
LEMMA InRankOrder ==
  ASSUME NEW S, NEW key, Keyed(S, key), NEW s, ByRank(s, S, key)
  PROVE  /\ s \in Seq(S) /\ Len(s) = Cardinality(S) /\ Cardinality(S) \in Nat
         /\ \A j, k \in 1..Len(s) : j < k => key[s[j]] < key[s[k]]
         /\ \A e \in S : \E k \in 1..Len(s) : s[k] = e
<1> DEFINE n == Cardinality(S)
           Rank(e) == Cardinality(Below(S, key, e))
<1>1. /\ n \in Nat
      /\ \A e \in S : Rank(e) \in 0..(n - 1)
      /\ \A d, e \in S : key[d] < key[e] => Rank(d) < Rank(e)
      /\ \A k \in 0..(n - 1) : \E e \in S : Rank(e) = k
  BY RanksAreInOrder
<1> USE DEF Keyed, ByRank
<1>2. ASSUME NEW k \in 1..n PROVE s[k] \in S /\ Rank(s[k]) = k - 1
  <2>1. k - 1 \in 0..(n - 1)
    BY <1>1
  <2> HIDE DEF n, Rank
  <2>2. \E e \in S : Rank(e) = k - 1
    BY <1>1, <2>1
  <2> QED BY <2>2 DEF n, Rank
<1>3. s \in Seq(S) /\ Len(s) = n
  <2>1. s \in [1..n -> S]
    BY <1>2
  <2> HIDE DEF n
  <2>2. s \in Seq(S)
    <3>1. \A m \in Nat : [1..m -> S] \subseteq Seq(S)
      BY SeqDef
    <3>2. n \in Nat
      BY <1>1
    <3> QED BY <2>1, <3>1, <3>2
  <2> QED BY <1>1, <2>1, <2>2, LenOfDomain
<1>4. ASSUME NEW j \in 1..n, NEW k \in 1..n, j < k PROVE key[s[j]] < key[s[k]]
  <2>1. s[j] \in S /\ s[k] \in S /\ Rank(s[j]) = j - 1 /\ Rank(s[k]) = k - 1
    BY <1>2
  <2> HIDE DEF n, Rank
  <2>2. s[j] # s[k]
    BY <1>1, <1>4, <2>1
  <2>3. ~ (key[s[k]] < key[s[j]])
    BY <1>1, <1>4, <2>1
  <2>4. key[s[j]] # key[s[k]]
    BY <2>1, <2>2
  <2> QED BY <2>1, <2>3, <2>4
<1>5. ASSUME NEW e \in S PROVE \E k \in 1..n : s[k] = e
  <2> DEFINE k == Rank(e) + 1
  <2>1. k \in 1..n /\ k - 1 = Rank(e)
    <3> HIDE DEF n, Rank
    <3> QED BY <1>1
  <2>2. s[k] \in S /\ Rank(s[k]) = Rank(e)
    <3> HIDE DEF n, Rank
    <3>1. \A i \in 1..n : s[i] \in S /\ Rank(s[i]) = i - 1
      BY <1>2
    <3> QED BY <2>1, <3>1
  <2>3. key[s[k]] = key[e]
    <3> HIDE DEF n, Rank, k
    <3>1. Rank(e) \in 0..(n - 1)
      BY <1>1
    <3>2. ~ (key[s[k]] < key[e]) /\ ~ (key[e] < key[s[k]])
      BY <1>1, <2>2, <3>1
    <3> QED BY <2>2, <3>2
  <2> HIDE DEF k
  <2> QED BY <2>1, <2>2, <2>3
<1> QED BY <1>1, <1>3, <1>4, <1>5

\* What is bounded has a greatest element, and CHOOSE finds it.
LEMMA IntervalGreatest ==
  ASSUME NEW n \in Nat, NEW S \in SUBSET (0..n), S # {}
  PROVE  \E m \in S : \A k \in S : k <= m
<1> DEFINE T == {x \in 0..n : n - x \in S}
<1>1. T \in SUBSET Nat /\ T # {}
  <2>1. PICK k \in S : TRUE
    OBVIOUS
  <2>2. n - k \in 0..n /\ n - (n - k) = k
    OBVIOUS
  <2>3. n - k \in T
    BY <2>2
  <2>4. T # {}
    BY <2>3
  <2>5. T \in SUBSET Nat
    OBVIOUS
  <2> QED BY <2>4, <2>5
<1>2. PICK x \in T : \A y \in T : x <= y
  <2> HIDE DEF T
  <2> QED BY <1>1, NatLeast
<1>3. ASSUME NEW k \in S PROVE k <= n - x
  <2>1. n - k \in 0..n /\ n - (n - k) = k
    OBVIOUS
  <2>2. n - k \in T
    BY <2>1
  <2>3. x <= n - k
    BY <1>2, <2>2
  <2> QED BY <2>3
<1> QED BY <1>2, <1>3

\* What is before the last of a sequence.
LEMMA AllButLast ==
  ASSUME NEW X, NEW s \in Seq(X), s # << >>
  PROVE  LET front == SubSeq(s, 1, Len(s) - 1)
         IN  /\ front \in Seq(X) /\ Len(s) \in Nat \ {0} /\ Len(front) = Len(s) - 1
             /\ \A i \in 1..(Len(s) - 1) : front[i] = s[i]
             /\ s[Len(s)] \in X
<1> DEFINE l == Len(s)
<1>1. l \in Nat \ {0} /\ \A i \in 1..l : s[i] \in X
  BY EmptySeq, ElementOfSeq
<1> HIDE DEF l
<1>2. 1 \in Int /\ l - 1 \in Int /\ \A i \in 1..(l - 1) : s[i] \in X
  BY <1>1
<1>3. /\ SubSeq(s, 1, l - 1) \in Seq(X)
      /\ Len(SubSeq(s, 1, l - 1)) = IF 1 <= l - 1 THEN (l - 1) - 1 + 1 ELSE 0
      /\ \A i \in 1..((l - 1) - 1 + 1) : SubSeq(s, 1, l - 1)[i] = s[1 + i - 1]
  BY <1>2, SubSeqProperties
<1>4. /\ (IF 1 <= l - 1 THEN (l - 1) - 1 + 1 ELSE 0) = l - 1 /\ (l - 1) - 1 + 1 = l - 1
      /\ \A i \in 1..(l - 1) : 1 + i - 1 = i
      /\ l \in 1..l
  BY <1>1
<1> QED BY <1>1, <1>3, <1>4 DEF l

\* A sequence with one more at its end.
Longer(more, s, x) ==
  /\ Len(s) \in Nat /\ Len(more) = Len(s) + 1 /\ more[Len(s) + 1] = x
  /\ \A i \in 1..Len(s) : more[i] = s[i]

LEMMA AppendIsLonger ==
  ASSUME NEW X, NEW s \in Seq(X), NEW x \in X
  PROVE  Append(s, x) \in Seq(X) /\ Longer(Append(s, x), s, x)
BY AppendProperties, LenProperties DEF Longer

-----------------------------------------------------------------------------
(* What the folds of the library compute, by walking along them.           *)

\* What holds of 0, and of each number after one it holds of, holds of all of them.
LEMMA StepByStep ==
  ASSUME NEW n \in Nat, NEW S, 0 \in S, \A m \in 1..n : m - 1 \in S => m \in S
  PROVE  \A k \in 0..n : k \in S
<1> DEFINE Bad == {k \in 0..n : k \notin S}
<1>1. ASSUME Bad # {} PROVE FALSE
  <2>1. PICK k \in Bad : \A j \in Bad : k <= j
    <3>1. Bad \in SUBSET Nat
      OBVIOUS
    <3> HIDE DEF Bad
    <3> QED BY <1>1, <3>1, NatLeast
  <2>2. k # 0 /\ k \in 1..n /\ k - 1 \in 0..n /\ ~ (k <= k - 1)
    OBVIOUS
  <2>3. k - 1 \in S
    BY <2>1, <2>2
  <2>4. k \in S
    BY <2>2, <2>3
  <2> QED BY <2>1, <2>4
<1> QED BY <1>1

LEMMA GreatestOf ==
  ASSUME NEW n \in Nat, NEW S \in SUBSET (0..n), S # {}
  PROVE  Max(S) \in S /\ \A x \in S : x <= Max(S)
<1>1. \E m \in S : \A x \in S : m >= x
  BY IntervalGreatest
<1> QED BY <1>1 DEF Max

LEMMA TopIsIn ==
  ASSUME NEW n \in Nat, NEW t \in SUBSET (1..n), t # {}
  PROVE  Max(t) \in t /\ Max(t) \in 1..n /\ t \ {Max(t)} \in SUBSET (1..n)
<1>1. t \in SUBSET (0..n)
  OBVIOUS
<1> QED BY <1>1, GreatestOf

LEMMA TopOfUpTo ==
  ASSUME NEW k \in Nat, k # 0
  PROVE  Max(1..k) = k /\ (1..k) \ {k} = 1..(k - 1) /\ 1..k # {}
<1>1. 1..k \in SUBSET (0..k) /\ k \in 1..k
  OBVIOUS
<1>2. Max(1..k) \in 1..k /\ k <= Max(1..k)
  BY <1>1, GreatestOf
<1>3. (1..k) \ {k} = 1..(k - 1)
  OBVIOUS
<1> QED BY <1>1, <1>2, <1>3

\* f is the fold over every set of the first n places, the greatest last.
FoldsOn(f, V, base, n, step) ==
  /\ f \in [SUBSET (1..n) -> V]
  /\ \A t \in SUBSET (1..n) :
       f[t] = IF t = {} THEN base ELSE step[<<f[t \ {Max(t)}], Max(t)>>]

LEMMA FoldExists ==
  ASSUME NEW V, NEW base \in V, NEW n \in Nat, NEW step \in [V \X (1..n) -> V]
  PROVE  \E f : FoldsOn(f, V, base, n, step)
<1> DEFINE Value(f, t) == IF t = {} THEN base ELSE step[<<f[t \ {Max(t)}], Max(t)>>]
           Rec(f, m) == /\ f \in [SUBSET (1..m) -> V]
                        /\ \A t \in SUBSET (1..m) : f[t] = Value(f, t)
           S == {m \in 0..n : \E f : Rec(f, m)}
<1>1. 0 \in S
  <2>1. \A t \in SUBSET (1..0) : t = {}
    OBVIOUS
  <2> DEFINE f == [t \in SUBSET (1..0) |-> base]
  <2>2. f \in [SUBSET (1..0) -> V] /\ \A t \in SUBSET (1..0) : f[t] = base
    OBVIOUS
  <2> HIDE DEF f
  <2>3. Rec(f, 0)
    BY <2>1, <2>2
  <2>4. 0 \in 0..n
    OBVIOUS
  <2> HIDE DEF Rec
  <2> QED BY <2>3, <2>4
<1>2. ASSUME NEW m \in 1..n, m - 1 \in S PROVE m \in S
  <2>1. PICK f : Rec(f, m - 1)
    BY <1>2
  <2>2. m - 1 \in Nat /\ m \in Nat /\ \A x \in 1..m : x = m \/ x \in 1..(m - 1)
    OBVIOUS
  <2> DEFINE g == [t \in SUBSET (1..m) |-> IF m \in t THEN step[<<f[t \ {m}], m>>] ELSE f[t]]
  <2>3. ASSUME NEW t \in SUBSET (1..m), m \in t
        PROVE  t # {} /\ Max(t) = m /\ t \ {m} \in SUBSET (1..(m - 1))
    <3>1. t \in SUBSET (0..m)
      OBVIOUS
    <3>2. Max(t) \in t /\ m <= Max(t)
      BY <2>2, <2>3, <3>1, GreatestOf
    <3>3. Max(t) \in 1..m
      BY <3>2
    <3> QED BY <2>2, <2>3, <3>2, <3>3
  <2>4. ASSUME NEW t \in SUBSET (1..m), m \notin t PROVE t \in SUBSET (1..(m - 1))
    BY <2>2, <2>4
  <2>5. ASSUME NEW t \in SUBSET (1..m) PROVE g[t] \in V /\ g[t] = Value(g, t)
    <3>1. CASE m \in t
      <4>1. t # {} /\ Max(t) = m /\ t \ {m} \in SUBSET (1..(m - 1)) /\ t \ {m} \in SUBSET (1..m)
        BY <2>3, <3>1
      <4>2. g[t \ {m}] = f[t \ {m}] /\ f[t \ {m}] \in V /\ g[t] = step[<<f[t \ {m}], m>>]
        BY <2>1, <3>1, <4>1
      <4> QED BY <4>1, <4>2
    <3>2. CASE m \notin t
      <4>1. t \in SUBSET (1..(m - 1)) /\ g[t] = f[t] /\ f[t] \in V /\ f[t] = Value(f, t)
        BY <2>1, <2>4, <3>2
      <4>2. CASE t # {}
        <5>1. t \ {Max(t)} \in SUBSET (1..m) /\ m \notin t \ {Max(t)}
          BY <3>2
        <5>2. g[t \ {Max(t)}] = f[t \ {Max(t)}]
          BY <5>1
        <5> HIDE DEF g
        <5> QED BY <4>1, <4>2, <5>2
      <4> QED BY <4>1, <4>2
    <3> QED BY <3>1, <3>2
  <2>6. Rec(g, m)
    <3>1. DOMAIN g = SUBSET (1..m) /\ g = [t \in DOMAIN g |-> g[t]]
      OBVIOUS
    <3> HIDE DEF g, Value
    <3> QED BY <2>5, <3>1
  <2> HIDE DEF Rec
  <2> QED BY <2>6
<1>3. n \in S
  <2> HIDE DEF S
  <2>1. \A k \in 0..n : k \in S
    BY <1>1, <1>2, StepByStep
  <2> QED BY <2>1
<1> QED BY <1>3 DEF FoldsOn

\* it does as f does, for all that is known of where its values are.
FoldsAs(it, V, base, n, step) ==
  /\ it[{}] = base
  /\ \A t \in SUBSET (1..n) : t # {} /\ it[t \ {Max(t)}] \in V =>
                               it[t] = step[<<it[t \ {Max(t)}], Max(t)>>]

\* x is reached along the first places, one after the other.
WalksTo(x, V, base, n, step) == \E w : Solves(w, V, base, n, step) /\ x = w[n]

\* What is computed along the first places, one after the other, is the fold over them.
LEMMA FoldWalks ==
  ASSUME NEW V, NEW base \in V, NEW n \in Nat, NEW step \in [V \X (1..n) -> V], NEW it,
         FoldsAs(it, V, base, n, step)
  PROVE  WalksTo(it[1..n], V, base, n, step)
<1> DEFINE S == {k \in 0..n : it[1..k] \in V}
           w == [k \in 0..n |-> it[1..k]]
<1>1. 0 \in S /\ it[1..0] = base
  <2>1. 1..0 = {}
    OBVIOUS
  <2> QED BY <2>1 DEF FoldsAs
<1>2. ASSUME NEW k \in 1..n, it[1..(k - 1)] \in V
      PROVE  it[1..k] = step[<<it[1..(k - 1)], k>>] /\ it[1..k] \in V
  <2>1. k \in Nat /\ k # 0 /\ 1..k \in SUBSET (1..n)
    OBVIOUS
  <2>2. Max(1..k) = k /\ (1..k) \ {k} = 1..(k - 1) /\ 1..k # {}
    BY <2>1, TopOfUpTo
  <2>3. it[1..k] = step[<<it[1..(k - 1)], k>>]
    BY <1>2, <2>1, <2>2 DEF FoldsAs
  <2> QED BY <1>2, <2>3
<1>3. \A k \in 0..n : k \in S
  <2>1. \A k \in 1..n : k - 1 \in S => k \in S
    <3>1. \A k \in 1..n : k \in 0..n
      OBVIOUS
    <3> QED BY <1>2, <3>1
  <2> HIDE DEF S
  <2> QED BY <1>1, <2>1, StepByStep
<1>4. w \in [0..n -> V] /\ w[0] = base /\ w[n] = it[1..n]
  BY <1>1, <1>3
<1>5. ASSUME NEW k \in 1..n PROVE w[k] = step[<<w[k - 1], k>>]
  <2>1. k - 1 \in 0..n /\ k \in 0..n
    OBVIOUS
  <2>2. it[1..(k - 1)] \in V
    BY <1>3, <2>1
  <2> QED BY <1>2, <2>1, <2>2
<1> HIDE DEF w
<1> QED BY <1>4, <1>5 DEF Solves, WalksTo

\* What is reached is among what was walked over.
LEMMA WalkStays ==
  ASSUME NEW V, NEW base, NEW n \in Nat, NEW step, NEW x, WalksTo(x, V, base, n, step)
  PROVE  x \in V
BY DEF WalksTo, Solves

\* Finitely many numbers have a bound, and so the greatest of them is one of them.
LEMMA ManyAreBounded ==
  ASSUME NEW n \in Nat, NEW f, \A i \in 1..n : f[i] \in Nat
  PROVE  \E b \in Nat : \A i \in 1..n : f[i] <= b
<1> DEFINE S == {m \in 0..n : \E b \in Nat : \A i \in 1..m : f[i] <= b}
<1>1. 0 \in S
  <2>1. 0 \in 0..n /\ 0 \in Nat /\ 1..0 = {}
    OBVIOUS
  <2> QED BY <2>1
<1>2. ASSUME NEW m \in 1..n, m - 1 \in S PROVE m \in S
  <2>1. PICK b \in Nat : \A i \in 1..(m - 1) : f[i] <= b
    BY <1>2
  <2>2. \A i \in 1..m : i = m \/ i \in 1..(m - 1)
    OBVIOUS
  <2>3. b + f[m] \in Nat /\ f[m] \in Nat /\ \A i \in 1..m : f[i] <= b + f[m]
    <3>1. \A i \in 1..m : i \in 1..n /\ f[i] \in Nat
      OBVIOUS
    <3> QED BY <2>1, <2>2, <3>1
  <2>4. m \in 0..n
    OBVIOUS
  <2> QED BY <2>3, <2>4
<1>3. \A m \in 1..n : m - 1 \in S => m \in S
  <2> HIDE DEF S
  <2> QED BY <1>2
<1>4. n \in S
  <2> HIDE DEF S
  <2>1. n \in 0..n
    OBVIOUS
  <2> QED BY <1>1, <1>3, <2>1, StepByStep
<1> QED BY <1>4

LEMMA GreatestOfMany ==
  ASSUME NEW T, T \subseteq Nat, T # {}, NEW b \in Nat, \A x \in T : x <= b
  PROVE  Max(T) \in T /\ Max(T) \in Nat /\ \A x \in T : x <= Max(T)
<1>1. T \in SUBSET (0..b)
  OBVIOUS
<1> QED BY <1>1, GreatestOf
=============================================================================
