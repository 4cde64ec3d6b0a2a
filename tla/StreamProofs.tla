---------------------------- MODULE StreamProofs ----------------------------
(***************************************************************************)
(* Theorems about EventStream: no page is left behind, and a server and    *)
(* its pages are a Mirror.                                                 *)
(*                                                                         *)
(* Every frame, broadcast or on a stream, speaks of a page that was        *)
(* published by the number it was published under (Frames), and the        *)
(* broadcast has them in that order, the newest last (ServerOk). Of a      *)
(* stream the invariant says two things: with nothing more to be said of   *)
(* documents, what is on it ends in the document as it is, or the page is  *)
(* at it already (Behind, which gives NoneBehind); and if it never fell    *)
(* behind, page, stream and broadcast come in the order of publishing      *)
(* (Ahead). So a page moves as a viewer of Mirror does (Goes), and what it *)
(* shows, if it trusts it, is what its number stands for (Shown).  That    *)
(* patches are exact is proved from what has to be so of the lines in two  *)
(* pages (MovingAsOne).                                                    *)
(***************************************************************************)
EXTENDS EventStream, SequenceLemmas

-----------------------------------------------------------------------------
(* Frames. Every frame that is broadcast or on a stream speaks of a page   *)
(* that was published, by the number it was published under.               *)

Pages == {Page[doc] : doc \in StreamDocs}

DocOf(sv, page, seq) ==
  [k |-> "doc", of |-> sv, seq |-> seq, children |-> Children(page.blocks),
   blocks |-> Len(page.blocks), title |-> page.title, toc |-> page.toc]

SpliceOf(pub, i) == SpliceBlocks(pub[i], pub[i + 1])

\* The places a patch was sent for.
Patched(pub) == {i \in 1..(Len(pub) - 1) : ~ SpliceOf(pub, i).whole}

Docs(sv, pub) == {DocOf(sv, pub[i], i - 1) : i \in 1..Len(pub)}
Patches(pub) == {PatchFrame(pub[i], pub[i + 1], i - 1, SpliceOf(pub, i)) : i \in Patched(pub)}
Others == {OptsFrame(v) : v \in Nat} \cup {LineFrame, ByeFrame}

Frames(sv, pub) == Docs(sv, pub) \cup Patches(pub) \cup Others

Numbered(f) == f.k \in {"doc", "patch"}

LEMMA FrameFacts ==
  ASSUME NEW sv \in Nat, NEW pub \in Seq(Pages), NEW f \in Frames(sv, pub)
  PROVE  /\ f.k \in {"doc", "patch", "opts", "line", "bye"}
         /\ f.k = "bye" <=> f = ByeFrame
         /\ f.k = "opts" => f.opts \in Nat
         /\ Numbered(f) => f.seq \in 0..(Len(pub) - 1)
         /\ f.k = "doc" => f = DocOf(sv, pub[f.seq + 1], f.seq)
         /\ f.k = "patch" =>
              /\ f.seq \in Patched(pub)
              /\ f = PatchFrame(pub[f.seq], pub[f.seq + 1], f.seq - 1, SpliceOf(pub, f.seq))
<1>0. Len(pub) \in Nat
  BY LenProperties
<1>1. CASE f \in Docs(sv, pub)
  BY <1>1, <1>0 DEF Docs, DocOf, ByeFrame, Numbered
<1>2. CASE f \in Patches(pub)
  BY <1>2, <1>0 DEF Patches, PatchFrame, Patched, ByeFrame, Numbered
<1>3. CASE f \in Others
  BY <1>3 DEF Others, OptsFrame, LineFrame, ByeFrame, Numbered
<1> QED BY <1>1, <1>2, <1>3 DEF Frames

LEMMA FramesGrow ==
  ASSUME NEW sv \in Nat, NEW pub \in Seq(Pages), NEW page \in Pages
  PROVE  /\ Append(pub, page) \in Seq(Pages) /\ Len(Append(pub, page)) = Len(pub) + 1
         /\ \A i \in 1..Len(pub) : Append(pub, page)[i] = pub[i]
         /\ Append(pub, page)[Len(pub) + 1] = page
         /\ Frames(sv, pub) \subseteq Frames(sv, Append(pub, page))
<1> DEFINE more == Append(pub, page)
<1>1. /\ more \in Seq(Pages) /\ Len(more) = Len(pub) + 1 /\ Len(pub) \in Nat
      /\ \A i \in 1..Len(pub) : more[i] = pub[i]
      /\ more[Len(pub) + 1] = page
  BY AppendProperties, LenProperties
<1> HIDE DEF more
<1>2. Docs(sv, pub) \subseteq Docs(sv, more)
  <2> SUFFICES ASSUME NEW i \in 1..Len(pub)
               PROVE  DocOf(sv, pub[i], i - 1) \in Docs(sv, more)
    BY DEF Docs
  <2>1. i \in 1..Len(more) /\ more[i] = pub[i]
    BY <1>1
  <2> QED BY <2>1 DEF Docs
<1>3. Patches(pub) \subseteq Patches(more)
  <2> SUFFICES ASSUME NEW i \in Patched(pub)
               PROVE  PatchFrame(pub[i], pub[i + 1], i - 1, SpliceOf(pub, i)) \in Patches(more)
    BY DEF Patches
  <2>1. i \in 1..(Len(pub) - 1) /\ ~ SpliceOf(pub, i).whole
    BY DEF Patched
  <2>2. /\ i \in 1..(Len(more) - 1) /\ i \in 1..Len(pub) /\ i + 1 \in 1..Len(pub)
    BY <1>1, <2>1
  <2>3. more[i] = pub[i] /\ more[i + 1] = pub[i + 1]
    BY <1>1, <2>2
  <2>4. SpliceOf(more, i) = SpliceOf(pub, i)
    BY <2>3 DEF SpliceOf
  <2>5. i \in Patched(more)
    BY <2>1, <2>2, <2>4 DEF Patched
  <2>6. PatchFrame(more[i], more[i + 1], i - 1, SpliceOf(more, i)) \in Patches(more)
    BY <2>5 DEF Patches
  <2> QED BY <2>3, <2>4, <2>6
<1> QED BY <1>1, <1>2, <1>3 DEF more, Frames

LEMMA SeqOfMore ==
  ASSUME NEW S, NEW T, S \subseteq T, NEW s \in Seq(S)
  PROVE  s \in Seq(T)
<1>1. Len(s) \in Nat /\ s \in [1..Len(s) -> S]
  BY LenProperties
<1>2. s \in [1..Len(s) -> T]
  BY <1>1
<1>3. [1..Len(s) -> T] \subseteq Seq(T)
  BY <1>1, SeqDef
<1> QED BY <1>2, <1>3

-----------------------------------------------------------------------------
(* The server: what it has broadcast is in the order of publishing, and    *)
(* the last of it is what it shows.                                        *)

LastNumbered(fs, i) == Numbered(fs[i]) /\ \A j \in 1..Len(fs) : j > i => ~ Numbered(fs[j])

ServerOk(sv, pub, lg) ==
  /\ sv \in Nat \ {0}
  /\ pub \in Seq(Pages) /\ pub # << >>
  /\ lg \in Seq(Frames(sv, pub))
  /\ \A i, j \in 1..Len(lg) : i < j /\ Numbered(lg[i]) /\ Numbered(lg[j]) => lg[i].seq < lg[j].seq
  /\ \A i \in 1..Len(lg) : LastNumbered(lg, i) => lg[i].seq = Len(pub) - 1

-----------------------------------------------------------------------------
(* A tab.                                                                  *)

TabFields ==
  {"state", "children", "title", "toc", "seq", "patchable", "opts", "conn", "pos", "wire",
   "failures", "dot", "quiet", "bye", "of", "lagged"}

IsTab(tab) == DOMAIN tab = TabFields /\ tab = [f \in TabFields |-> tab[f]]

TabTyped(tab, sv, pub, lg) ==
  /\ IsTab(tab)
  /\ tab.state \in {"shut", "fetched", "open", "reloading"}
  /\ tab.conn \in {"none", "due", "on"}
  /\ tab.seq \in Int /\ tab.pos \in Nat /\ tab.of \in 0..sv
  /\ tab.patchable \in BOOLEAN /\ tab.lagged \in BOOLEAN
  /\ tab.wire \in Seq(Frames(sv, pub))
  /\ tab.conn = "on" => tab.pos <= Len(lg)
  /\ tab.state # "open" => tab.conn = "none"
  /\ tab.conn # "on" => tab.wire = << >>

\* A page whose number is the present server's.
Ours(tab, sv) == tab.state \in {"fetched", "open"} /\ tab.of = sv

Numbers(tab, sv, pub) ==
  /\ tab.state = "fetched" => tab.of = sv
  /\ Ours(tab, sv) => tab.seq \in 0..(Len(pub) - 1)

NoneLeft(lg, pos) == \A k \in 1..Len(lg) : k > pos => ~ Numbered(lg[k])

\* With nothing left to be said of documents, what is on the stream ends in the
\* document as it is, or the page is at it.
Behind(tab, pub, lg) ==
  /\ tab.conn = "on" /\ NoneLeft(lg, tab.pos)
  /\ \A i \in 1..Len(tab.wire) : tab.wire[i] # ByeFrame
  => /\ \A i \in 1..Len(tab.wire) : LastNumbered(tab.wire, i) => tab.wire[i].seq = Len(pub) - 1
     /\ NoneLeft(tab.wire, 0) /\ tab.patchable => tab.seq = Len(pub) - 1

\* A stream that never fell behind brings no document twice and none out of order.
Ahead(tab, sv, lg) ==
  tab.conn = "on" /\ ~ tab.lagged =>
    /\ \A i, j \in 1..Len(tab.wire) :
         i < j /\ Numbered(tab.wire[i]) /\ Numbered(tab.wire[j])
           => tab.wire[i].seq <= tab.wire[j].seq
    /\ \A i \in 1..Len(tab.wire), k \in 1..Len(lg) :
         k > tab.pos /\ Numbered(tab.wire[i]) /\ Numbered(lg[k]) => tab.wire[i].seq <= lg[k].seq
    /\ Ours(tab, sv) =>
         /\ \A i \in 1..Len(tab.wire) : Numbered(tab.wire[i]) => tab.seq <= tab.wire[i].seq
         /\ \A k \in 1..Len(lg) : k > tab.pos /\ Numbered(lg[k]) => tab.seq <= lg[k].seq

TabOk(tab, sv, pub, lg) ==
  /\ TabTyped(tab, sv, pub, lg) /\ Numbers(tab, sv, pub)
  /\ Behind(tab, pub, lg) /\ Ahead(tab, sv, lg)

StreamInv ==
  /\ ServerOk(server, published, log) /\ opts \in Nat /\ saying \in Nat
  /\ tabs = [t \in Tabs |-> tabs[t]]
  /\ \A t \in Tabs : TabOk(tabs[t], server, published, log)

-----------------------------------------------------------------------------
(* How a page moves, as a viewer of Mirror.                                *)

At(tab, sv) == IF tab.state = "open" /\ tab.of = sv THEN tab.seq + 1 ELSE 0
Trusted(tab, sv) == tab.state = "open" /\ tab.of = sv /\ tab.patchable
Shows(tab) == [children |-> tab.children, title |-> tab.title, toc |-> tab.toc]

Alike(old, tab, sv) ==
  /\ At(tab, sv) = At(old, sv) /\ Trusted(tab, sv) = Trusted(old, sv)
  /\ Trusted(old, sv) => Shows(tab) = Shows(old)

Stays(old, tab, sv) == Alike(old, tab, sv) /\ (tab.lagged = old.lagged \/ tab.lagged)

Goes(old, tab, sv) ==
  \/ Stays(old, tab, sv)
  \/ /\ At(tab, sv) # 0 /\ tab.lagged = old.lagged
     /\ At(old, sv) <= At(tab, sv) \/ old.lagged
  \/ At(tab, sv) = 0 /\ ~ Trusted(tab, sv) /\ ~ tab.lagged

-----------------------------------------------------------------------------
(* What the server says, whoever listens.                                  *)

LEMMA ServerTyped ==
  ASSUME NEW sv, NEW pub, NEW lg, ServerOk(sv, pub, lg)
  PROVE  /\ sv \in Nat /\ sv # 0 /\ pub \in Seq(Pages) /\ Len(pub) \in Nat /\ Len(pub) # 0
         /\ Len(pub) \in 1..Len(pub)
         /\ lg \in Seq(Frames(sv, pub)) /\ Len(lg) \in Nat
         /\ \A k \in 1..Len(lg) : lg[k] \in Frames(sv, pub)
         /\ \A k \in 1..Len(lg) : Numbered(lg[k]) => lg[k].seq \in 0..(Len(pub) - 1)
<1>1. sv \in Nat /\ sv # 0 /\ pub \in Seq(Pages) /\ pub # << >> /\ lg \in Seq(Frames(sv, pub))
  BY DEF ServerOk
<1>2. Len(pub) \in Nat /\ Len(lg) \in Nat /\ Len(pub) # 0
  BY <1>1, LenProperties, EmptySeq
<1>3. Len(pub) \in 1..Len(pub)
  BY <1>2
<1>4. \A k \in 1..Len(lg) : lg[k] \in Frames(sv, pub)
  BY <1>1, ElementOfSeq
<1> QED BY <1>1, <1>2, <1>3, <1>4, FrameFacts

\* A page that is published is broadcast; anything else is broadcast without a number.
Says(pub, more, f) ==
  \/ more = pub /\ ~ Numbered(f)
  \/ \E page \in Pages : more = Append(pub, page) /\ Numbered(f) /\ f.seq = Len(pub)

LEMMA SaysMore ==
  ASSUME NEW sv, NEW pub, NEW lg, ServerOk(sv, pub, lg),
         NEW more, NEW f, Says(pub, more, f), f \in Frames(sv, more)
  PROVE  /\ more \in Seq(Pages) /\ Frames(sv, pub) \subseteq Frames(sv, more)
         /\ Len(more) \in Nat /\ Len(pub) <= Len(more)
         /\ Append(lg, f) \in Seq(Frames(sv, more)) /\ Len(Append(lg, f)) = Len(lg) + 1
         /\ \A k \in 1..Len(lg) : Append(lg, f)[k] = lg[k]
         /\ Append(lg, f)[Len(lg) + 1] = f
         /\ ~ Numbered(f) => Len(more) = Len(pub)
         /\ Numbered(f) => Len(more) = Len(pub) + 1 /\ f.seq = Len(pub)
<1>1. /\ sv \in Nat /\ pub \in Seq(Pages) /\ lg \in Seq(Frames(sv, pub)) /\ Len(pub) \in Nat
  BY ServerTyped
<1>2. /\ more \in Seq(Pages) /\ Frames(sv, pub) \subseteq Frames(sv, more)
      /\ ~ Numbered(f) => Len(more) = Len(pub)
      /\ Numbered(f) => Len(more) = Len(pub) + 1 /\ f.seq = Len(pub)
  <2>1. CASE more = pub /\ ~ Numbered(f)
    BY <1>1, <2>1
  <2>2. CASE \E page \in Pages : more = Append(pub, page) /\ Numbered(f) /\ f.seq = Len(pub)
    BY <2>2, <1>1, FramesGrow
  <2> QED BY <2>1, <2>2 DEF Says
<1>3. lg \in Seq(Frames(sv, more))
  BY <1>1, <1>2, SeqOfMore
<1>4. /\ Append(lg, f) \in Seq(Frames(sv, more)) /\ Len(Append(lg, f)) = Len(lg) + 1
      /\ \A k \in 1..Len(lg) : Append(lg, f)[k] = lg[k]
      /\ Append(lg, f)[Len(lg) + 1] = f
  BY <1>3, AppendProperties
<1>5. Len(more) \in Nat /\ Len(pub) <= Len(more)
  BY <1>1, <1>2, LenProperties
<1> QED BY <1>2, <1>4, <1>5

LEMMA ServerSays ==
  ASSUME NEW sv, NEW pub, NEW lg, ServerOk(sv, pub, lg),
         NEW more, NEW f, Says(pub, more, f), f \in Frames(sv, more)
  PROVE  ServerOk(sv, more, Append(lg, f))
<1> DEFINE lm == Append(lg, f)
<1>1. /\ more \in Seq(Pages) /\ lm \in Seq(Frames(sv, more)) /\ Len(lm) = Len(lg) + 1
      /\ Len(more) \in Nat /\ Len(pub) <= Len(more)
      /\ \A k \in 1..Len(lg) : lm[k] = lg[k]
      /\ lm[Len(lg) + 1] = f
      /\ ~ Numbered(f) => Len(more) = Len(pub)
      /\ Numbered(f) => Len(more) = Len(pub) + 1 /\ f.seq = Len(pub)
  BY SaysMore
<1> HIDE DEF lm
<1>2. /\ sv \in Nat \ {0} /\ Len(pub) \in Nat /\ Len(pub) # 0 /\ Len(lg) \in Nat
      /\ \A k \in 1..Len(lg) : Numbered(lg[k]) => lg[k].seq \in 0..(Len(pub) - 1)
  BY ServerTyped
<1>3. more # << >>
  BY <1>1, <1>2, EmptySeq
<1>4. ASSUME NEW i \in 1..Len(lm), NEW j \in 1..Len(lm), i < j, Numbered(lm[i]), Numbered(lm[j])
      PROVE  lm[i].seq < lm[j].seq
  <2>1. i \in 1..Len(lg) /\ lm[i] = lg[i]
    BY <1>1, <1>2, <1>4
  <2>2. CASE j \in 1..Len(lg)
    BY <1>1, <2>2, <1>4, <2>1 DEF ServerOk
  <2>3. CASE j = Len(lg) + 1
    BY <1>1, <1>4, <2>3, <1>2, <2>1
  <2>4. j \in 1..Len(lg) \/ j = Len(lg) + 1
    BY <1>1, <1>2
  <2> QED BY <2>2, <2>3, <2>4
<1>5. ASSUME NEW i \in 1..Len(lm), LastNumbered(lm, i)
      PROVE  lm[i].seq = Len(more) - 1
  <2>1. Len(lg) + 1 \in 1..Len(lm)
    BY <1>1, <1>2
  <2>2. CASE Numbered(f)
    <3>1. ~ (Len(lg) + 1 > i)
      BY <1>1, <1>5, <2>1, <2>2 DEF LastNumbered
    <3>2. i = Len(lg) + 1
      BY <1>1, <1>2, <3>1
    <3> QED BY <1>1, <1>2, <2>2, <3>2
  <2>3. CASE ~ Numbered(f)
    <3>1. i # Len(lg) + 1
      BY <1>1, <1>5, <2>3 DEF LastNumbered
    <3>2. i \in 1..Len(lg) /\ lm[i] = lg[i]
      BY <1>1, <1>2, <3>1
    <3>3. LastNumbered(lg, i)
      BY <1>1, <1>2, <1>5, <3>2 DEF LastNumbered
    <3>4. lg[i].seq = Len(pub) - 1
      BY <3>2, <3>3 DEF ServerOk
    <3> QED BY <1>1, <2>3, <3>2, <3>4
  <2> QED BY <2>2, <2>3
<1> QED BY <1>1, <1>2, <1>3, <1>4, <1>5 DEF ServerOk, lm

LEMMA TabHears ==
  ASSUME NEW sv, NEW pub, NEW lg, ServerOk(sv, pub, lg),
         NEW more, NEW f, Says(pub, more, f), f \in Frames(sv, more),
         NEW tab, TabOk(tab, sv, pub, lg)
  PROVE  TabOk(tab, sv, more, Append(lg, f))
<1> DEFINE lm == Append(lg, f)
<1>1. /\ Frames(sv, pub) \subseteq Frames(sv, more)
      /\ Len(lm) = Len(lg) + 1
      /\ Len(more) \in Nat /\ Len(pub) <= Len(more)
      /\ \A k \in 1..Len(lg) : lm[k] = lg[k]
      /\ lm[Len(lg) + 1] = f
      /\ ~ Numbered(f) => Len(more) = Len(pub)
      /\ Numbered(f) => f.seq = Len(pub)
  BY SaysMore
<1> HIDE DEF lm
<1>2. Len(pub) \in Nat /\ Len(pub) # 0 /\ Len(lg) \in Nat /\ sv \in Nat /\ pub \in Seq(Pages)
  BY ServerTyped
<1>3. /\ TabTyped(tab, sv, pub, lg) /\ Numbers(tab, sv, pub)
      /\ Behind(tab, pub, lg) /\ Ahead(tab, sv, lg)
  BY DEF TabOk
<1>4. tab.wire \in Seq(Frames(sv, more))
  BY <1>1, <1>3, SeqOfMore DEF TabTyped
<1>5. TabTyped(tab, sv, more, lm)
  BY <1>1, <1>2, <1>3, <1>4 DEF TabTyped
<1>6. Numbers(tab, sv, more)
  BY <1>1, <1>2, <1>3 DEF Numbers
<1>7. \A k \in 1..Len(lm) : (k \in 1..Len(lg) /\ lm[k] = lg[k]) \/ (k = Len(lg) + 1 /\ lm[k] = f)
  BY <1>1, <1>2
<1>8. Behind(tab, more, lm)
  <2> SUFFICES ASSUME tab.conn = "on", NoneLeft(lm, tab.pos)
               PROVE  NoneLeft(lg, tab.pos) /\ Len(more) = Len(pub)
    BY <1>3 DEF Behind
  <2>1. tab.pos \in Nat /\ tab.pos <= Len(lg)
    BY <1>3 DEF TabTyped
  <2>2. Len(lg) + 1 \in 1..Len(lm) /\ Len(lg) + 1 > tab.pos
    BY <1>1, <1>2, <2>1
  <2>3. ~ Numbered(f)
    BY <1>1, <2>2 DEF NoneLeft
  <2>4. \A k \in 1..Len(lg) : k \in 1..Len(lm) /\ lm[k] = lg[k]
    BY <1>1, <1>2
  <2> QED BY <1>1, <2>3, <2>4 DEF NoneLeft
<1>9. Ahead(tab, sv, lm)
  <2> SUFFICES ASSUME tab.conn = "on", ~ tab.lagged PROVE Ahead(tab, sv, lm)
    BY DEF Ahead
  <2>1. \A i \in 1..Len(tab.wire) : Numbered(tab.wire[i]) => tab.wire[i].seq \in 0..(Len(pub) - 1)
    BY <1>3, ElementOfSeq, <1>2, FrameFacts DEF TabTyped
  <2>2. ASSUME NEW i \in 1..Len(tab.wire), NEW k \in 1..Len(lm),
               k > tab.pos, Numbered(tab.wire[i]), Numbered(lm[k])
        PROVE  tab.wire[i].seq <= lm[k].seq
    <3>1. CASE k \in 1..Len(lg) /\ lm[k] = lg[k]
      BY <1>3, <2>2, <3>1 DEF Ahead
    <3>2. CASE k = Len(lg) + 1 /\ lm[k] = f
      <4>1. lm[k].seq = Len(pub)
        BY <1>1, <2>2, <3>2
      <4> QED BY <1>2, <2>1, <2>2, <4>1
    <3> QED BY <1>7, <3>1, <3>2
  <2>3. ASSUME Ours(tab, sv), NEW k \in 1..Len(lm), k > tab.pos, Numbered(lm[k])
        PROVE  tab.seq <= lm[k].seq
    BY <1>3, <2>3, <1>1, <1>2, <1>7 DEF Ahead, Numbers
  <2> QED BY <1>3, <2>2, <2>3 DEF Ahead
<1> QED BY <1>5, <1>6, <1>8, <1>9 DEF TabOk, lm

-----------------------------------------------------------------------------
(* What becomes of a tab.                                                  *)

\* A page without a stream can neither be behind nor be ahead.
LEMMA Unconnected ==
  ASSUME NEW sv \in Nat, NEW pub, NEW lg, NEW tab, TabTyped(tab, sv, pub, lg), tab.conn # "on",
         Numbers(tab, sv, pub)
  PROVE  TabOk(tab, sv, pub, lg)
BY DEF TabOk, Behind, Ahead

LEMMA ShutOk ==
  ASSUME NEW sv, NEW pub, NEW lg, ServerOk(sv, pub, lg), NEW old,
         NEW again \in {Shut, [Shut EXCEPT !.state = "reloading", !.quiet = TRUE]}
  PROVE  TabOk(again, sv, pub, lg) /\ Goes(old, again, sv)
<1>1. /\ DOMAIN again = TabFields /\ again = [f \in TabFields |-> again[f]]
      /\ again.state \in {"shut", "reloading"} /\ again.conn = "none"
      /\ again.seq = -1 /\ again.pos = 0 /\ again.of = 0
      /\ again.patchable = FALSE /\ again.lagged = FALSE /\ again.wire = << >>
  <2>1. CASE again = Shut
    BY <2>1 DEF Shut, TabFields
  <2>2. CASE again = [Shut EXCEPT !.state = "reloading", !.quiet = TRUE]
    BY <2>2 DEF Shut, TabFields
  <2> QED BY <2>1, <2>2
<1>2. sv \in Nat /\ << >> \in Seq(Frames(sv, pub))
  BY ServerTyped, EmptySeq
<1>3. TabTyped(again, sv, pub, lg) /\ Numbers(again, sv, pub)
  <2> HIDE DEF Frames
  <2>1. again.of \in 0..sv /\ again.seq \in Int /\ again.pos \in Nat
    BY <1>1, <1>2
  <2>2. again.wire \in Seq(Frames(sv, pub))
    BY <1>1, <1>2
  <2>3. again.patchable \in BOOLEAN /\ again.lagged \in BOOLEAN
    BY <1>1
  <2>4. TabTyped(again, sv, pub, lg)
    BY <1>1, <2>1, <2>2, <2>3 DEF TabTyped, IsTab
  <2> QED BY <1>1, <2>4 DEF Numbers, Ours
<1>4. Goes(old, again, sv)
  BY <1>1 DEF Goes, At, Trusted
<1> QED BY <1>1, <1>2, <1>3, <1>4, Unconnected

LEMMA ConnectOk ==
  ASSUME NEW sv, NEW pub, NEW lg, ServerOk(sv, pub, lg),
         NEW tab, TabOk(tab, sv, pub, lg), tab.state = "open",
         NEW f \in Frames(sv, pub), f.k = "doc", f.seq = Len(pub) - 1,
         NEW w, (w = << >> /\ tab.seq = Len(pub) - 1) \/ w = << f >>
  PROVE  LET t == [tab EXCEPT !.conn = "on", !.pos = Len(lg), !.wire = w,
                              !.failures = 0, !.dot = "live"]
         IN  TabOk(t, sv, pub, lg) /\ Stays(tab, t, sv)
<1> DEFINE t == [tab EXCEPT !.conn = "on", !.pos = Len(lg), !.wire = w,
                            !.failures = 0, !.dot = "live"]
<1>1. TabTyped(tab, sv, pub, lg) /\ Numbers(tab, sv, pub)
  BY DEF TabOk
<1>2. /\ IsTab(t) /\ t.state = "open" /\ t.conn = "on" /\ t.seq = tab.seq /\ t.pos = Len(lg)
      /\ t.of = tab.of /\ t.patchable = tab.patchable /\ t.lagged = tab.lagged /\ t.wire = w
      /\ t.children = tab.children /\ t.title = tab.title /\ t.toc = tab.toc
  BY <1>1 DEF TabTyped, IsTab, TabFields
<1> HIDE DEF t
<1>3. /\ w \in Seq(Frames(sv, pub)) /\ Len(w) \in {0, 1}
      /\ \A i \in 1..Len(w) : i = 1 /\ w[i] = f
      /\ Len(w) = 0 => tab.seq = Len(pub) - 1
  <2>1. CASE w = << >>
    BY <2>1, EmptySeq
  <2>2. CASE w = << f >>
    BY <2>2
  <2> QED BY <2>1, <2>2
<1>4. Len(pub) \in Nat /\ Len(lg) \in Nat /\ sv \in Nat /\ pub \in Seq(Pages)
  BY ServerTyped
<1>5. TabTyped(t, sv, pub, lg) /\ Numbers(t, sv, pub)
  BY <1>1, <1>2, <1>3, <1>4 DEF TabTyped, Numbers, Ours
<1>6. Behind(t, pub, lg)
  BY <1>2, <1>3 DEF Numbered, NoneLeft, Behind
<1>7. Ahead(t, sv, lg)
  BY <1>2, <1>4, <1>3, <1>5 DEF Numbers, Ahead
<1>8. Stays(tab, t, sv)
  BY <1>2 DEF Stays, Alike, At, Trusted, Shows
<1> QED BY <1>5, <1>6, <1>7, <1>8 DEF t, TabOk
LEMMA TabFacts ==
  ASSUME NEW sv, NEW pub, NEW lg, ServerOk(sv, pub, lg), NEW tab, TabOk(tab, sv, pub, lg)
  PROVE  /\ TabTyped(tab, sv, pub, lg) /\ Numbers(tab, sv, pub)
         /\ Behind(tab, pub, lg) /\ Ahead(tab, sv, lg)
         /\ tab.wire \in Seq(Frames(sv, pub)) /\ Len(tab.wire) \in Nat
         /\ \A i \in 1..Len(tab.wire) : tab.wire[i] \in Frames(sv, pub)
         /\ \A i \in 1..Len(tab.wire) :
              Numbered(tab.wire[i]) => tab.wire[i].seq \in 0..(Len(pub) - 1)
<1>1. /\ TabTyped(tab, sv, pub, lg) /\ Numbers(tab, sv, pub)
      /\ Behind(tab, pub, lg) /\ Ahead(tab, sv, lg)
  BY DEF TabOk
<1>2. tab.wire \in Seq(Frames(sv, pub))
  BY <1>1 DEF TabTyped
<1>3. /\ Len(tab.wire) \in Nat
      /\ \A i \in 1..Len(tab.wire) : tab.wire[i] \in Frames(sv, pub)
  BY <1>2, LenProperties, ElementOfSeq
<1>4. sv \in Nat /\ pub \in Seq(Pages)
  BY ServerTyped
<1> QED BY <1>1, <1>2, <1>3, <1>4, FrameFacts

LEMMA ForwardOk ==
  ASSUME NEW sv, NEW pub, NEW lg, ServerOk(sv, pub, lg),
         NEW tab, TabOk(tab, sv, pub, lg), tab.conn = "on", tab.pos < Len(lg),
         \A i \in 1..Len(tab.wire) : tab.wire[i] # ByeFrame,
         NEW f \in Frames(sv, pub), NEW pos, NEW late,
         \/ f = lg[tab.pos + 1] /\ pos = tab.pos + 1 /\ late = tab.lagged
         \/ f.k = "doc" /\ f.seq = Len(pub) - 1 /\ pos \in 0..Len(lg) /\ late = TRUE
  PROVE  LET t == [tab EXCEPT !.wire = Append(@, f), !.pos = pos, !.lagged = late]
         IN  TabOk(t, sv, pub, lg) /\ Stays(tab, t, sv)
<1> DEFINE w == Append(tab.wire, f)
           t == [tab EXCEPT !.wire = Append(@, f), !.pos = pos, !.lagged = late]
<1>1. /\ TabTyped(tab, sv, pub, lg) /\ Numbers(tab, sv, pub)
      /\ Behind(tab, pub, lg) /\ Ahead(tab, sv, lg)
      /\ tab.wire \in Seq(Frames(sv, pub)) /\ Len(tab.wire) \in Nat
  BY TabFacts
<1>2. /\ Len(pub) \in Nat /\ Len(lg) \in Nat /\ tab.pos \in Nat
      /\ tab.pos + 1 \in 1..Len(lg) /\ tab.lagged \in BOOLEAN
  BY <1>1, ServerTyped DEF TabTyped
<1>3. pos \in 0..Len(lg) /\ pos \in Nat /\ late \in BOOLEAN
  <2>1. tab.pos + 1 \in 0..Len(lg)
    BY <1>2
  <2>2. pos \in 0..Len(lg) /\ late \in BOOLEAN
    BY <1>2, <2>1
  <2> QED BY <1>2, <2>2
<1>4. /\ IsTab(t) /\ t.state = tab.state /\ t.conn = "on" /\ t.seq = tab.seq /\ t.pos = pos
      /\ t.of = tab.of /\ t.patchable = tab.patchable /\ t.lagged = late /\ t.wire = w
      /\ t.children = tab.children /\ t.title = tab.title /\ t.toc = tab.toc
  BY <1>1 DEF TabTyped, IsTab, TabFields
<1>5. /\ w \in Seq(Frames(sv, pub)) /\ Len(w) = Len(tab.wire) + 1
      /\ \A i \in 1..Len(tab.wire) : w[i] = tab.wire[i]
      /\ w[Len(tab.wire) + 1] = f
  BY <1>1, AppendProperties
<1> HIDE DEF t, w
<1>6. /\ \A i \in 1..Len(w) : \/ i \in 1..Len(tab.wire) /\ w[i] = tab.wire[i]
                              \/ i = Len(tab.wire) + 1 /\ w[i] = f
      /\ Len(tab.wire) + 1 \in 1..Len(w)
      /\ \A i \in 1..Len(tab.wire) : i \in 1..Len(w) /\ Len(tab.wire) + 1 > i
  BY <1>1, <1>5
<1>7. TabTyped(t, sv, pub, lg)
  BY <1>1, <1>2, <1>3, <1>4, <1>5 DEF TabTyped
<1>8. Numbers(t, sv, pub)
  BY <1>1, <1>4 DEF Numbers, Ours
<1>9. Behind(t, pub, lg)
  <2> SUFFICES ASSUME NoneLeft(lg, pos), \A i \in 1..Len(w) : w[i] # ByeFrame
               PROVE  /\ \A i \in 1..Len(w) : LastNumbered(w, i) => w[i].seq = Len(pub) - 1
                      /\ NoneLeft(w, 0) /\ tab.patchable => tab.seq = Len(pub) - 1
    BY <1>4 DEF Behind
  <2>1. CASE Numbered(f)
    <3>1. f.seq = Len(pub) - 1
      BY <2>1, <1>2 DEF LastNumbered, NoneLeft, ServerOk
    <3>2. \A i \in 1..Len(w) : LastNumbered(w, i) => w[i] = f
      <4> SUFFICES ASSUME NEW i \in 1..Len(w), LastNumbered(w, i) PROVE w[i] = f
        OBVIOUS
      <4>1. ~ (Len(tab.wire) + 1 > i)
        BY <1>5, <1>6, <2>1 DEF LastNumbered
      <4> QED BY <1>6, <4>1
    <3>3. ~ NoneLeft(w, 0)
      BY <1>1, <1>5, <1>6, <2>1 DEF NoneLeft
    <3> QED BY <3>1, <3>2, <3>3
  <2>2. CASE ~ Numbered(f)
    <3>1. f = lg[tab.pos + 1] /\ pos = tab.pos + 1
      BY <2>2 DEF Numbered
    <3>2. NoneLeft(lg, tab.pos)
      <4> SUFFICES ASSUME NEW k \in 1..Len(lg), k > tab.pos PROVE ~ Numbered(lg[k])
        BY DEF NoneLeft
      <4>1. k = tab.pos + 1 \/ k > pos
        BY <1>2, <3>1
      <4> QED BY <2>2, <3>1, <4>1 DEF NoneLeft
    <3>3. /\ \A i \in 1..Len(tab.wire) :
               LastNumbered(tab.wire, i) => tab.wire[i].seq = Len(pub) - 1
          /\ NoneLeft(tab.wire, 0) /\ tab.patchable => tab.seq = Len(pub) - 1
      BY <1>1, <3>2 DEF Behind
    <3>4. ASSUME NEW i \in 1..Len(w), LastNumbered(w, i) PROVE w[i].seq = Len(pub) - 1
      BY <1>6, <2>2, <3>4, <1>5, <3>3 DEF LastNumbered
    <3>5. NoneLeft(w, 0) => NoneLeft(tab.wire, 0)
      BY <1>5, <1>6 DEF NoneLeft
    <3> QED BY <3>3, <3>4, <3>5
  <2> QED BY <2>1, <2>2
<1>10. Ahead(t, sv, lg)
  <2> SUFFICES ASSUME ~ late PROVE Ahead(t, sv, lg)
    BY <1>4 DEF Ahead
  <2>1. f = lg[tab.pos + 1] /\ pos = tab.pos + 1 /\ ~ tab.lagged
    OBVIOUS
  <2>2. \A k \in 1..Len(lg) : k > pos => k > tab.pos /\ k > tab.pos + 1
    BY <1>2, <2>1
  <2>3. tab.pos + 1 > tab.pos
    BY <1>2
  <2>4. ASSUME NEW i \in 1..Len(w), NEW j \in 1..Len(w), i < j, Numbered(w[i]), Numbered(w[j])
        PROVE  w[i].seq <= w[j].seq
    <3>1. CASE j \in 1..Len(tab.wire) /\ w[j] = tab.wire[j]
      BY <1>1, <1>6, <2>4, <3>1, <1>4, <2>1 DEF Ahead
    <3>2. CASE j = Len(tab.wire) + 1 /\ w[j] = f
      <4>1. i \in 1..Len(tab.wire) /\ w[i] = tab.wire[i]
        BY <1>1, <1>6, <2>4, <3>2
      <4> QED BY <1>1, <1>2, <1>4, <2>1, <2>3, <2>4, <3>2, <4>1 DEF Ahead
    <3> QED BY <1>6, <3>1, <3>2
  <2>5. ASSUME NEW i \in 1..Len(w), NEW k \in 1..Len(lg), k > pos, Numbered(w[i]), Numbered(lg[k])
        PROVE  w[i].seq <= lg[k].seq
    <3>1. CASE i \in 1..Len(tab.wire) /\ w[i] = tab.wire[i]
      BY <1>1, <1>4, <2>1, <2>2, <2>5, <3>1 DEF Ahead
    <3>2. CASE w[i] = f
      <4>1. f.seq < lg[k].seq
        BY <1>2, <2>1, <2>2, <2>5, <3>2 DEF ServerOk
      <4>2. f.seq \in Nat /\ lg[k].seq \in Nat
        BY <1>2, <2>1, <2>5, <3>2, ServerTyped
      <4> QED BY <3>2, <4>1, <4>2
    <3> QED BY <1>6, <3>1, <3>2
  <2>6. ASSUME Ours(t, sv)
        PROVE  /\ \A i \in 1..Len(w) : Numbered(w[i]) => tab.seq <= w[i].seq
               /\ \A k \in 1..Len(lg) : k > pos /\ Numbered(lg[k]) => tab.seq <= lg[k].seq
    <3>1. Ours(tab, sv)
      BY <1>4, <2>6 DEF Ours
    <3>2. /\ \A i \in 1..Len(tab.wire) : Numbered(tab.wire[i]) => tab.seq <= tab.wire[i].seq
          /\ \A k \in 1..Len(lg) : k > tab.pos /\ Numbered(lg[k]) => tab.seq <= lg[k].seq
      BY <1>1, <2>1, <3>1 DEF Ahead
    <3> QED BY <1>2, <1>6, <2>1, <2>2, <2>3, <3>2
  <2> QED BY <1>4, <2>4, <2>5, <2>6 DEF Ahead
<1>11. Stays(tab, t, sv)
  BY <1>3, <1>4 DEF Stays, Alike, At, Trusted, Shows
<1> QED BY <1>7, <1>8, <1>9, <1>10, <1>11 DEF TabOk, t

LEMMA SayByeOk ==
  ASSUME NEW sv, NEW pub, NEW lg, ServerOk(sv, pub, lg),
         NEW tab, TabOk(tab, sv, pub, lg), tab.conn = "on"
  PROVE  LET t == [tab EXCEPT !.wire = Append(@, ByeFrame), !.pos = Len(lg)]
         IN  TabOk(t, sv, pub, lg) /\ Stays(tab, t, sv)
<1> DEFINE w == Append(tab.wire, ByeFrame)
           t == [tab EXCEPT !.wire = Append(@, ByeFrame), !.pos = Len(lg)]
<1>1. /\ TabTyped(tab, sv, pub, lg) /\ Numbers(tab, sv, pub) /\ Ahead(tab, sv, lg)
      /\ tab.wire \in Seq(Frames(sv, pub)) /\ Len(tab.wire) \in Nat
  BY TabFacts
<1>2. Len(lg) \in Nat
  BY ServerTyped
<1>3. ByeFrame \in Frames(sv, pub) /\ ~ Numbered(ByeFrame)
  BY DEF ByeFrame, Frames, Others, Numbered
<1>4. /\ IsTab(t) /\ t.state = tab.state /\ t.conn = "on" /\ t.seq = tab.seq /\ t.pos = Len(lg)
      /\ t.of = tab.of /\ t.patchable = tab.patchable /\ t.lagged = tab.lagged /\ t.wire = w
      /\ t.children = tab.children /\ t.title = tab.title /\ t.toc = tab.toc
  BY <1>1 DEF TabTyped, IsTab, TabFields
<1>5. /\ w \in Seq(Frames(sv, pub)) /\ Len(w) = Len(tab.wire) + 1
      /\ \A i \in 1..Len(tab.wire) : w[i] = tab.wire[i]
      /\ w[Len(tab.wire) + 1] = ByeFrame
  BY <1>1, <1>3, AppendProperties
<1> HIDE DEF t, w
<1>6. \A i \in 1..Len(w) : Numbered(w[i]) => i \in 1..Len(tab.wire) /\ w[i] = tab.wire[i]
  BY <1>1, <1>5, <1>3
<1>7. Len(tab.wire) + 1 \in 1..Len(w)
  BY <1>1, <1>5
<1>8. TabTyped(t, sv, pub, lg)
  BY <1>1, <1>2, <1>4, <1>5 DEF TabTyped
<1>9. Numbers(t, sv, pub)
  BY <1>1, <1>4 DEF Numbers, Ours
<1>10. Behind(t, pub, lg)
  BY <1>4, <1>5, <1>7 DEF Behind
<1>11. Ahead(t, sv, lg)
  <2>1. \A k \in 1..Len(lg) : ~ (k > Len(lg))
    BY <1>2
  <2>2. Ours(t, sv) => Ours(tab, sv)
    BY <1>4 DEF Ours
  <2> QED BY <1>1, <1>4, <1>6, <2>1, <2>2 DEF Ahead
<1>12. Stays(tab, t, sv)
  BY <1>4 DEF Stays, Alike, At, Trusted, Shows
<1> QED BY <1>8, <1>9, <1>10, <1>11, <1>12 DEF TabOk, t

LEMMA FetchOk ==
  ASSUME NEW sv, NEW pub, NEW lg, ServerOk(sv, pub, lg), NEW old,
         NEW quiet, NEW children, NEW title, NEW toc
  PROVE  LET t == [Shut EXCEPT !.state = "fetched", !.quiet = quiet, !.children = children,
                               !.title = title, !.toc = toc, !.seq = Len(pub) - 1, !.of = sv]
         IN  TabOk(t, sv, pub, lg) /\ Goes(old, t, sv)
<1> DEFINE t == [Shut EXCEPT !.state = "fetched", !.quiet = quiet, !.children = children,
                             !.title = title, !.toc = toc, !.seq = Len(pub) - 1, !.of = sv]
<1>1. /\ DOMAIN t = TabFields /\ t = [f \in TabFields |-> t[f]]
      /\ t.state = "fetched" /\ t.conn = "none" /\ t.seq = Len(pub) - 1 /\ t.pos = 0 /\ t.of = sv
      /\ t.patchable = FALSE /\ t.lagged = FALSE /\ t.wire = << >>
  BY DEF Shut, TabFields
<1> HIDE DEF t
<1>2. /\ sv \in Nat /\ Len(pub) \in Nat /\ Len(pub) # 0 /\ << >> \in Seq(Frames(sv, pub))
  BY ServerTyped, EmptySeq
<1>3. /\ t.of \in 0..sv /\ t.seq \in Int /\ t.pos \in Nat /\ t.seq \in 0..(Len(pub) - 1)
  BY <1>1, <1>2
<1>4. t.wire \in Seq(Frames(sv, pub)) /\ t.patchable \in BOOLEAN /\ t.lagged \in BOOLEAN
  BY <1>1, <1>2
<1>5. TabTyped(t, sv, pub, lg)
  BY <1>1, <1>3, <1>4 DEF TabTyped, IsTab
<1>6. Numbers(t, sv, pub)
  BY <1>1, <1>3 DEF Numbers
<1>7. Goes(old, t, sv)
  BY <1>1 DEF Goes, At, Trusted
<1>8. TabOk(t, sv, pub, lg)
  BY <1>1, <1>2, <1>5, <1>6, Unconnected
<1> QED BY <1>7, <1>8 DEF t

LEMMA StartOk ==
  ASSUME NEW sv, NEW pub, NEW lg, ServerOk(sv, pub, lg),
         NEW tab, TabOk(tab, sv, pub, lg), tab.state = "fetched", NEW options
  PROVE  LET t == [tab EXCEPT !.state = "open", !.opts = options, !.patchable = TRUE,
                              !.conn = "due", !.dot = "live"]
         IN  TabOk(t, sv, pub, lg) /\ Goes(tab, t, sv)
<1> DEFINE t == [tab EXCEPT !.state = "open", !.opts = options, !.patchable = TRUE,
                            !.conn = "due", !.dot = "live"]
<1>1. /\ TabTyped(tab, sv, pub, lg) /\ Numbers(tab, sv, pub) /\ sv \in Nat /\ Len(pub) \in Nat
  BY TabFacts, ServerTyped
<1>2. /\ IsTab(t) /\ t.state = "open" /\ t.conn = "due" /\ t.seq = tab.seq /\ t.pos = tab.pos
      /\ t.of = tab.of /\ t.patchable = TRUE /\ t.lagged = tab.lagged /\ t.wire = tab.wire
  BY <1>1 DEF TabTyped, IsTab, TabFields
<1> HIDE DEF t
<1>3. tab.of = sv /\ tab.seq \in 0..(Len(pub) - 1) /\ tab.wire = << >>
  BY <1>1 DEF Numbers, Ours, TabTyped
<1>4. TabTyped(t, sv, pub, lg) /\ Numbers(t, sv, pub)
  BY <1>1, <1>2, <1>3 DEF TabTyped, Numbers
<1>5. Goes(tab, t, sv)
  BY <1>2, <1>3, <1>1 DEF At, Goes
<1>6. TabOk(t, sv, pub, lg)
  BY <1>1, <1>2, <1>4, Unconnected
<1> QED BY <1>5, <1>6 DEF t

\* A page whose stream is not there, whatever else is told of it.
LEMMA OffOk ==
  ASSUME NEW sv, NEW pub, NEW lg, ServerOk(sv, pub, lg),
         NEW tab, TabOk(tab, sv, pub, lg), tab.state = "open",
         NEW t, IsTab(t), t.state = "open", t.conn \in {"none", "due"}, t.wire = << >>,
         t.seq = tab.seq, t.pos = tab.pos, t.of = tab.of, t.patchable = tab.patchable,
         t.lagged = tab.lagged, t.children = tab.children, t.title = tab.title, t.toc = tab.toc
  PROVE  TabOk(t, sv, pub, lg) /\ Stays(tab, t, sv)
<1>1. /\ TabTyped(tab, sv, pub, lg) /\ Numbers(tab, sv, pub) /\ sv \in Nat
      /\ << >> \in Seq(Frames(sv, pub))
  BY TabFacts, ServerTyped, EmptySeq
<1>2. TabTyped(t, sv, pub, lg) /\ Numbers(t, sv, pub)
  BY <1>1 DEF TabTyped, Numbers, Ours
<1>3. Stays(tab, t, sv)
  BY DEF Stays, Alike, At, Trusted, Shows
<1> QED BY <1>1, <1>2, <1>3, Unconnected

LEMMA FailsOk ==
  ASSUME NEW sv, NEW pub, NEW lg, ServerOk(sv, pub, lg),
         NEW tab, TabOk(tab, sv, pub, lg), tab.state = "open"
  PROVE  /\ TabOk(Fails(tab), sv, pub, lg) /\ Stays(tab, Fails(tab), sv)
         /\ Fails(tab).conn \in {"none", "due"} /\ Fails(tab).state = "open"
<1>1. IsTab(tab)
  BY TabFacts DEF TabTyped
<1> DEFINE t == Fails(tab)
<1>2. /\ IsTab(t) /\ t.state = "open" /\ t.conn \in {"none", "due"} /\ t.wire = << >>
      /\ t.seq = tab.seq /\ t.pos = tab.pos /\ t.of = tab.of /\ t.patchable = tab.patchable
      /\ t.lagged = tab.lagged /\ t.children = tab.children /\ t.title = tab.title
      /\ t.toc = tab.toc
  BY <1>1 DEF IsTab, TabFields, Fails
<1> HIDE DEF t
<1>3. TabOk(t, sv, pub, lg) /\ Stays(tab, t, sv)
  BY <1>2, OffOk
<1> QED BY <1>2, <1>3 DEF t

\* Another server begins: a page that has no stream knows nothing of it.
LEMMA LeftBehindOk ==
  ASSUME NEW sv, NEW pub, NEW lg, ServerOk(sv, pub, lg),
         NEW tab, TabOk(tab, sv, pub, lg), tab.conn # "on", tab.state # "fetched",
         NEW next, NEW page
  PROVE  next = sv + 1 => TabOk(tab, next, << page >>, << >>) /\ At(tab, next) = 0
<1> SUFFICES ASSUME next = sv + 1
             PROVE  TabOk(tab, next, << page >>, << >>) /\ At(tab, next) = 0
  OBVIOUS
<1>1. /\ TabTyped(tab, sv, pub, lg) /\ sv \in Nat /\ next \in Nat
      /\ << >> \in Seq(Frames(next, << page >>))
  BY TabFacts, ServerTyped, EmptySeq
<1>2. tab.of \in 0..next /\ tab.of # next
  BY <1>1 DEF TabTyped
<1>3. TabTyped(tab, next, << page >>, << >>)
  BY <1>1, <1>2 DEF TabTyped
<1>4. Numbers(tab, next, << page >>) /\ At(tab, next) = 0
  BY <1>2 DEF Numbers, Ours, At
<1> QED BY <1>1, <1>3, <1>4, Unconnected

\* A page that is the same in what is told of it here.
LEMMA SameOk ==
  ASSUME NEW sv, NEW pub, NEW lg, NEW tab, TabOk(tab, sv, pub, lg),
         NEW t, IsTab(t), t.state = tab.state, t.conn = tab.conn, t.wire = tab.wire,
         t.seq = tab.seq, t.pos = tab.pos, t.of = tab.of, t.patchable = tab.patchable,
         t.lagged = tab.lagged, t.children = tab.children, t.title = tab.title, t.toc = tab.toc
  PROVE  TabOk(t, sv, pub, lg) /\ Stays(tab, t, sv)
<1>1. TabTyped(t, sv, pub, lg)
  BY DEF TabOk, TabTyped
<1>2. Ours(t, sv) <=> Ours(tab, sv)
  BY DEF Ours
<1>3. Numbers(t, sv, pub)
  BY <1>2 DEF TabOk, Numbers
<1>4. Behind(t, pub, lg)
  BY DEF TabOk, Behind
<1>5. Ahead(t, sv, lg)
  BY <1>2 DEF TabOk, Ahead
<1>6. Stays(tab, t, sv)
  BY DEF Stays, Alike, At, Trusted, Shows
<1> QED BY <1>1, <1>3, <1>4, <1>5, <1>6 DEF TabOk

-----------------------------------------------------------------------------
(* What becomes of a page when the first frame of its stream comes.        *)

\* It is at what the frame says; or it stays where it is, and trusts itself no longer
\* when it was a document that it did not take.
Took(tab, f, t, sv) ==
  /\ Numbered(f) /\ t.seq = f.seq
  /\ (t.of = sv /\ f.k = "doc") \/ (t.of = tab.of /\ tab.patchable)
LetBe(tab, f, t) ==
  /\ t.seq = tab.seq /\ t.of = tab.of
  /\ t.children = tab.children /\ t.title = tab.title /\ t.toc = tab.toc
  /\ t.patchable = (tab.patchable /\ ~ Numbered(f))

HandsOn(tab, t) ==
  /\ IsTab(t) /\ t.state = "open" /\ t.conn = "on" /\ t.pos = tab.pos /\ t.lagged = tab.lagged
  /\ t.wire = Tail(tab.wire) /\ t.patchable \in BOOLEAN

LEMMA HandsOnOk ==
  ASSUME NEW sv, NEW pub, NEW lg, ServerOk(sv, pub, lg),
         NEW tab, TabOk(tab, sv, pub, lg), tab.conn = "on", tab.state = "open",
         tab.wire # << >>, tab.wire[1] # ByeFrame,
         NEW t, HandsOn(tab, t), Took(tab, tab.wire[1], t, sv) \/ LetBe(tab, tab.wire[1], t)
  PROVE  TabOk(t, sv, pub, lg) /\ Goes(tab, t, sv)
<1> DEFINE w == tab.wire
           f == tab.wire[1]
           rest == Tail(tab.wire)
<1>1. /\ TabTyped(tab, sv, pub, lg) /\ Numbers(tab, sv, pub)
      /\ Behind(tab, pub, lg) /\ Ahead(tab, sv, lg)
      /\ w \in Seq(Frames(sv, pub)) /\ Len(w) \in Nat
      /\ \A i \in 1..Len(w) : Numbered(w[i]) => w[i].seq \in 0..(Len(pub) - 1)
  BY TabFacts
<1>2. sv \in Nat /\ Len(pub) \in Nat /\ Len(lg) \in Nat /\ pub \in Seq(Pages)
  BY ServerTyped
<1>3. Len(w) # 0 /\ 1 \in 1..Len(w)
  BY <1>1, EmptySeq
<1>4. /\ rest \in Seq(Frames(sv, pub)) /\ Len(rest) = Len(w) - 1
      /\ \A i \in 1..Len(rest) : rest[i] = w[i + 1]
  BY <1>1, HeadTailProperties
<1>5. /\ \A i \in 1..Len(rest) : i + 1 \in 1..Len(w) /\ i + 1 > 1 /\ rest[i] = w[i + 1]
      /\ \A i \in 1..Len(w) : i = 1 \/ (i - 1 \in 1..Len(rest) /\ rest[i - 1] = w[i])
  BY <1>1, <1>3, <1>4
<1>6. /\ t.state = "open" /\ t.conn = "on" /\ t.pos = tab.pos /\ t.lagged = tab.lagged
      /\ t.wire = rest
  BY DEF HandsOn
<1> HIDE DEF rest
<1>7. TabTyped(t, sv, pub, lg)
  BY <1>1, <1>2, <1>3, <1>4, <1>6 DEF Took, TabTyped, LetBe, HandsOn
<1>8. Numbers(t, sv, pub)
  BY <1>1, <1>3, <1>6 DEF Took, Numbers, LetBe, Ours
<1>9. Behind(t, pub, lg)
  <2> SUFFICES ASSUME NoneLeft(lg, tab.pos), \A i \in 1..Len(rest) : rest[i] # ByeFrame
               PROVE  /\ \A i \in 1..Len(rest) :
                           LastNumbered(rest, i) => rest[i].seq = Len(pub) - 1
                      /\ NoneLeft(rest, 0) /\ t.patchable => t.seq = Len(pub) - 1
    BY <1>6 DEF Behind
  <2>1. \A i \in 1..Len(w) : w[i] # ByeFrame
    BY <1>5
  <2>2. /\ \A i \in 1..Len(w) : LastNumbered(w, i) => w[i].seq = Len(pub) - 1
        /\ NoneLeft(w, 0) /\ tab.patchable => tab.seq = Len(pub) - 1
    BY <1>1, <2>1 DEF Behind
  <2>3. ASSUME NEW i \in 1..Len(rest), LastNumbered(rest, i) PROVE rest[i].seq = Len(pub) - 1
    <3>1. ASSUME NEW j \in 1..Len(w), j > i + 1 PROVE ~ Numbered(w[j])
      BY <1>4, <1>5, <3>1, <2>3 DEF LastNumbered
    <3>2. i + 1 \in 1..Len(w) /\ rest[i] = w[i + 1]
      BY <1>5
    <3>3. LastNumbered(w, i + 1)
      BY <2>3, <3>1, <3>2 DEF LastNumbered
    <3> QED BY <2>2, <3>2, <3>3
  <2>4. ASSUME NoneLeft(rest, 0), t.patchable PROVE t.seq = Len(pub) - 1
    <3>1. \A j \in 1..Len(w) : j > 1 => ~ Numbered(w[j])
      <4> SUFFICES ASSUME NEW j \in 1..Len(w), j > 1 PROVE ~ Numbered(w[j])
        OBVIOUS
      <4>1. j - 1 \in 1..Len(rest) /\ rest[j - 1] = w[j] /\ j - 1 > 0
        BY <1>4, <1>5
      <4> QED BY <2>4, <4>1 DEF NoneLeft
    <3>2. CASE Took(tab, f, t, sv)
      BY <1>3, <3>1, <3>2, <2>2 DEF Took, LastNumbered
    <3>3. CASE LetBe(tab, f, t)
      <4>1. ~ Numbered(f) /\ tab.patchable /\ t.seq = tab.seq
        BY <1>1, <2>4, <3>3 DEF LetBe, TabTyped
      <4>2. NoneLeft(w, 0)
        BY <3>1, <4>1 DEF NoneLeft
      <4> QED BY <2>2, <4>1, <4>2
    <3> QED BY <3>2, <3>3
  <2> QED BY <2>3, <2>4
<1>10. Ahead(t, sv, lg)
  <2> SUFFICES ASSUME ~ tab.lagged PROVE Ahead(t, sv, lg)
    BY <1>6 DEF Ahead
  <2>1. /\ \A i, j \in 1..Len(w) :
             i < j /\ Numbered(w[i]) /\ Numbered(w[j]) => w[i].seq <= w[j].seq
        /\ \A i \in 1..Len(w), k \in 1..Len(lg) :
             k > tab.pos /\ Numbered(w[i]) /\ Numbered(lg[k]) => w[i].seq <= lg[k].seq
        /\ Ours(tab, sv) =>
             /\ \A i \in 1..Len(w) : Numbered(w[i]) => tab.seq <= w[i].seq
             /\ \A k \in 1..Len(lg) : k > tab.pos /\ Numbered(lg[k]) => tab.seq <= lg[k].seq
    BY <1>1 DEF Ahead
  <2>2. ASSUME NEW i \in 1..Len(rest), NEW j \in 1..Len(rest), i < j,
               Numbered(rest[i]), Numbered(rest[j])
        PROVE  rest[i].seq <= rest[j].seq
    <3>1. i + 1 < j + 1
      BY <2>2
    <3> QED BY <1>5, <2>1, <2>2, <3>1
  <2>3. \A i \in 1..Len(rest), k \in 1..Len(lg) :
          k > tab.pos /\ Numbered(rest[i]) /\ Numbered(lg[k]) => rest[i].seq <= lg[k].seq
    BY <1>5, <2>1
  <2>4. ASSUME Ours(t, sv)
        PROVE  /\ \A i \in 1..Len(rest) : Numbered(rest[i]) => t.seq <= rest[i].seq
               /\ \A k \in 1..Len(lg) : k > tab.pos /\ Numbered(lg[k]) => t.seq <= lg[k].seq
    BY <1>3, <1>5, <2>1, <2>4 DEF Took, LetBe, Ours
  <2> QED BY <1>6, <2>2, <2>3, <2>4 DEF Ahead
<1>11. Goes(tab, t, sv)
  <2>1. CASE t.of # sv
    BY <2>1, <1>6 DEF Took, LetBe, Goes, Stays, Alike, At, Trusted
  <2>2. CASE t.of = sv
    <3>1. At(t, sv) = t.seq + 1 /\ t.seq \in 0..(Len(pub) - 1)
      BY <1>6, <1>8, <2>2 DEF At, Numbers, Ours
    <3>2. CASE tab.of # sv
      BY <3>2, <1>2, <1>6, <3>1 DEF At, Goes
    <3>3. CASE tab.of = sv
      BY <1>1, <3>3, <1>3, <1>2, <3>1, <1>6 DEF At, Ours, Numbers, Took, Ahead, LetBe, Goes
    <3> QED BY <3>2, <3>3
  <2> QED BY <2>1, <2>2
<1> QED BY <1>7, <1>8, <1>9, <1>10, <1>11 DEF TabOk

LEMMA HandleOk ==
  ASSUME NEW sv, NEW pub, NEW lg, ServerOk(sv, pub, lg),
         NEW tab, TabOk(tab, sv, pub, lg), tab.conn = "on", tab.wire # << >>,
         NEW t \in Taken([tab EXCEPT !.wire = Tail(@)], Head(tab.wire))
  PROVE  TabOk(t, sv, pub, lg) /\ Goes(tab, t, sv)
<1> DEFINE f == tab.wire[1]
           bare == [tab EXCEPT !.wire = Tail(@)]
<1>1. /\ TabTyped(tab, sv, pub, lg) /\ tab.wire \in Seq(Frames(sv, pub)) /\ Len(tab.wire) \in Nat
      /\ \A i \in 1..Len(tab.wire) : tab.wire[i] \in Frames(sv, pub)
      /\ sv \in Nat /\ pub \in Seq(Pages)
  BY TabFacts, ServerTyped
<1>2. /\ f \in Frames(sv, pub) /\ f = Head(tab.wire)
  BY <1>1, EmptySeq, HeadTailProperties
<1>3. tab.state = "open" /\ IsTab(tab)
  BY <1>1 DEF TabTyped
<1>4. /\ IsTab(bare) /\ bare.state = "open" /\ bare.conn = "on" /\ bare.pos = tab.pos
      /\ bare.lagged = tab.lagged /\ bare.wire = Tail(tab.wire) /\ bare.patchable = tab.patchable
      /\ bare.seq = tab.seq /\ bare.of = tab.of /\ bare.patchable \in BOOLEAN
      /\ bare.children = tab.children /\ bare.title = tab.title /\ bare.toc = tab.toc
  BY <1>1, <1>3 DEF IsTab, TabFields, TabTyped
<1> HIDE DEF bare
<1>5. t \in Taken(bare, f)
  BY <1>2 DEF bare
<1>6. /\ f.k \in {"doc", "patch", "opts", "line", "bye"}
      /\ f.k = "bye" <=> f = ByeFrame
      /\ f.k = "doc" => f = DocOf(sv, pub[f.seq + 1], f.seq)
  BY <1>1, <1>2, FrameFacts
<1> HIDE DEF f
<1>7. CASE f.k = "doc"
  <2>1. t = TakeDoc(bare, f)
    BY <1>5, <1>7 DEF Taken
  <2>2. HandsOn(tab, t) /\ t.seq = f.seq /\ t.of = f.of
    BY <1>4, <2>1 DEF TakeDoc, Whole, HandsOn, IsTab, TabFields
  <2>3. f.of = sv
    BY <1>6, <1>7 DEF DocOf
  <2>4. Took(tab, f, t, sv)
    BY <1>7, <2>2, <2>3 DEF Took, Numbered
  <2> QED BY <1>3, <1>6, <1>7, <2>2, <2>4, HandsOnOk DEF f
<1>8. CASE f.k = "patch"
  <2>1. CASE FitsPatch(bare, f)
    <3>1. t = SplicePatch(bare, f)
      BY <1>5, <1>8, <2>1 DEF Taken, TakePatch
    <3>2. HandsOn(tab, t) /\ t.seq = f.seq /\ t.of = tab.of
      BY <1>4, <3>1 DEF SplicePatch, Whole, HandsOn, IsTab, TabFields
    <3>3. Took(tab, f, t, sv)
      BY <1>4, <1>8, <2>1, <3>2 DEF Took, Numbered, FitsPatch
    <3> QED BY <1>3, <1>6, <1>8, <3>2, <3>3, HandsOnOk DEF f
  <2>2. CASE ~ FitsPatch(bare, f)
    <3>1. t \in Resynced(bare)
      BY <1>5, <1>8, <2>2 DEF Taken, TakePatch
    <3>2. \/ t = [bare EXCEPT !.patchable = FALSE, !.dot = "stale"]
          \/ t = [Shut EXCEPT !.state = "reloading", !.quiet = TRUE]
      BY <3>1 DEF Resynced
    <3>3. CASE t = [bare EXCEPT !.patchable = FALSE, !.dot = "stale"]
      BY <1>4, <3>3, <1>8, <1>3, <1>6, HandsOnOk DEF HandsOn, IsTab, TabFields, LetBe, Numbered,
         f
    <3>4. CASE t = [Shut EXCEPT !.state = "reloading", !.quiet = TRUE]
      BY <3>4, ShutOk
    <3> QED BY <3>2, <3>3, <3>4
  <2> QED BY <2>1, <2>2
<1>9. CASE f.k \in {"opts", "line"}
  <2>1. t = [bare EXCEPT !.opts = f.opts] \/ t = bare
    BY <1>5, <1>9 DEF Taken
  <2>2. /\ HandsOn(tab, t) /\ t.seq = tab.seq /\ t.of = tab.of /\ t.patchable = tab.patchable
        /\ t.children = tab.children /\ t.title = tab.title /\ t.toc = tab.toc
    BY <1>4, <2>1 DEF HandsOn, IsTab, TabFields
  <2>3. LetBe(tab, f, t)
    BY <1>1, <1>9, <2>2 DEF LetBe, Numbered, TabTyped
  <2> QED BY <1>3, <1>6, <1>9, <2>2, <2>3, HandsOnOk DEF f
<1>10. CASE f.k = "bye"
  <2>1. t = TakeBye(bare)
    BY <1>5, <1>10 DEF Taken
  <2>2. /\ IsTab(t) /\ t.state = "open" /\ t.conn = "none" /\ t.wire = << >>
        /\ t.seq = tab.seq /\ t.pos = tab.pos /\ t.of = tab.of /\ t.patchable = tab.patchable
        /\ t.lagged = tab.lagged /\ t.children = tab.children /\ t.title = tab.title
        /\ t.toc = tab.toc
    BY <1>4, <2>1 DEF TakeBye, IsTab, TabFields
  <2>3. TabOk(t, sv, pub, lg) /\ Stays(tab, t, sv)
    BY <1>3, <2>2, OffOk
  <2> QED BY <2>3 DEF Goes
<1> QED BY <1>6, <1>7, <1>8, <1>9, <1>10

-----------------------------------------------------------------------------
(* The steps.                                                              *)

LEMMA SnapshotFrame ==
  ASSUME StreamInv
  PROVE  LET f == DocFrame(Snapshot, Current)
         IN  f \in Frames(server, published) /\ f.k = "doc" /\ f.seq = Len(published) - 1
<1>1. Len(published) \in 1..Len(published)
  BY ServerTyped DEF StreamInv
<1>2. DocFrame(Snapshot, Current) = DocOf(server, published[Len(published)], Len(published) - 1)
  BY DEF DocFrame, DocOf, Snapshot, Current, Last
<1>3. DocOf(server, published[Len(published)], Len(published) - 1) \in Docs(server, published)
  BY <1>1 DEF Docs
<1> QED BY <1>2, <1>3 DEF Frames, DocOf

LEMMA UpdateSays ==
  ASSUME StreamInv, NEW page \in Pages
  PROVE  LET f == UpdateFrame(Snapshot, page, Current)
             more == Append(published, page)
         IN  Says(published, more, f) /\ f \in Frames(server, more)
<1> DEFINE f == UpdateFrame(Snapshot, page, Current)
           more == Append(published, page)
           n == Len(published)
           splice == SpliceBlocks(Snapshot, page)
<1>1. server \in Nat /\ published \in Seq(Pages) /\ n \in Nat /\ n \in 1..n
  BY ServerTyped DEF StreamInv
<1>2. Len(more) = n + 1 /\ more[n] = published[n] /\ more[n + 1] = page
  BY <1>1, FramesGrow
<1>3. Snapshot = more[n] /\ Current + 1 = n
  BY <1>1, <1>2 DEF Snapshot, Current, Last
<1>4. splice = SpliceOf(more, n)
  BY <1>2, <1>3 DEF SpliceOf
<1> HIDE DEF more, n, splice
<1>5. CASE splice.whole
  <2>1. f = DocFrame(page, Current + 1)
    BY <1>5 DEF UpdateFrame, splice
  <2>2. f = DocOf(server, more[n + 1], n)
    BY <1>2, <1>3, <2>1 DEF DocFrame, DocOf
  <2>3. n + 1 \in 1..Len(more) /\ (n + 1) - 1 = n
    BY <1>1, <1>2
  <2>4. DocOf(server, more[n + 1], (n + 1) - 1) \in Docs(server, more)
    BY <2>3 DEF Docs
  <2>5. f.k = "doc" /\ f.seq = n
    BY <2>2 DEF DocOf
  <2> QED BY <2>2, <2>3, <2>4, <2>5 DEF Says, Frames, Numbered, more, n
<1>6. CASE ~ splice.whole
  <2>1. f = PatchFrame(Snapshot, page, Current, splice)
    BY <1>6 DEF UpdateFrame, splice
  <2>2. Current = n - 1
    BY DEF Current, n
  <2>3. f = PatchFrame(more[n], more[n + 1], n - 1, SpliceOf(more, n))
    BY <1>2, <1>3, <1>4, <2>1, <2>2
  <2>4. n \in 1..(Len(more) - 1)
    BY <1>1, <1>2
  <2>5. n \in Patched(more)
    BY <1>4, <1>6, <2>4 DEF Patched
  <2>6. f \in Patches(more)
    BY <2>3, <2>5 DEF Patches
  <2>7. f.k = "patch" /\ f.seq = n
    BY <1>3, <2>1 DEF PatchFrame
  <2> QED BY <2>6, <2>7 DEF Says, Frames, Numbered, more, n
<1> QED BY <1>5, <1>6

\* A step of one tab.
TabAction(t) ==
  \/ Connect(t) \/ Forward(t) \/ SayBye(t) \/ Load(t) \/ LoadAgain(t) \/ LoadFails(t)
  \/ Start(t) \/ Close(t) \/ Handle(t) \/ Drop(t) \/ Refused(t) \/ LookAgain(t) \/ QuietEnds(t)

Becomes(t, tab) ==
  /\ tabs' = [tabs EXCEPT ![t] = tab]
  /\ TabOk(tab, server, published, log) /\ Goes(tabs[t], tab, server)

LEMMA TabBecomes ==
  ASSUME StreamInv, NEW t \in Tabs, TabAction(t)
  PROVE  UNCHANGED serverVars /\ \E tab : Becomes(t, tab)
<1> DEFINE tab == tabs[t]
<1>1. /\ ServerOk(server, published, log) /\ TabOk(tab, server, published, log)
      /\ IsTab(tab) /\ TabTyped(tab, server, published, log)
  BY DEF StreamInv, TabOk, TabTyped
<1>2. tab.conn # "none" => tab.state = "open"
  BY <1>1 DEF TabTyped
<1>3. CASE Connect(t)
  <2> DEFINE w == Opening(tab.seq)
             new == [tab EXCEPT !.conn = "on", !.pos = Len(log), !.wire = w,
                                !.failures = 0, !.dot = "live"]
  <2>1. tabs' = [tabs EXCEPT ![t] = new] /\ UNCHANGED serverVars /\ tab.state = "open"
    BY <1>3 DEF Connect, IsOpen
  <2>2. (w = << >> /\ tab.seq = Len(published) - 1) \/ w = << DocFrame(Snapshot, Current) >>
    BY DEF Opening, Current
  <2> HIDE DEF w
  <2>3. TabOk(new, server, published, log) /\ Stays(tab, new, server)
    BY <1>1, <2>1, <2>2, SnapshotFrame, ConnectOk
  <2> QED BY <2>1, <2>3 DEF Becomes, Goes
<1>4. CASE Forward(t)
  <2> DEFINE got == Received(t)
             new == [tab EXCEPT !.wire = Append(@, got.frame), !.pos = got.pos,
                                !.lagged = @ \/ Lags(t)]
  <2>1. /\ tabs' = [tabs EXCEPT ![t] = new] /\ UNCHANGED serverVars
        /\ tab.conn = "on" /\ tab.pos < Len(log) /\ ByeFrame \notin Range(tab.wire)
    BY <1>4 DEF Forward
  <2>2. \A i \in 1..Len(tab.wire) : tab.wire[i] # ByeFrame
    BY <1>1, <2>1 DEF Range, TabTyped
  <2>3. Capacity \in Nat /\ tab.pos \in Nat /\ Len(log) \in Nat /\ tab.lagged \in BOOLEAN
    BY <1>1, StreamAssumption, ServerTyped DEF TabTyped
  <2>4. /\ got.frame \in Frames(server, published)
        /\ \/ /\ got.frame = log[tab.pos + 1] /\ got.pos = tab.pos + 1
              /\ (tab.lagged \/ Lags(t)) = tab.lagged
           \/ /\ got.frame.k = "doc" /\ got.frame.seq = Len(published) - 1
              /\ got.pos \in 0..Len(log) /\ (tab.lagged \/ Lags(t)) = TRUE
    <3>1. CASE Lags(t)
      BY <3>1, <2>3, SnapshotFrame DEF Received, Lags
    <3>2. CASE ~ Lags(t)
      BY <3>2, <2>1, <2>3, <1>1, ServerTyped DEF Received
    <3> QED BY <3>1, <3>2
  <2> HIDE DEF got
  <2>5. TabOk(new, server, published, log) /\ Stays(tab, new, server)
    BY <1>1, <2>1, <2>2, <2>4, ForwardOk
  <2> QED BY <2>1, <2>5 DEF Becomes, Goes
<1>5. CASE SayBye(t)
  BY <1>5, <1>1, SayByeOk DEF SayBye, Becomes, Goes
<1>6. CASE Load(t) \/ LoadAgain(t)
  <2>1. Fetch(t)
    BY <1>6 DEF Load, LoadAgain
  <2> DEFINE new == [Shut EXCEPT
                !.state = "fetched", !.quiet = tab.quiet,
                !.children = Children(Snapshot.blocks), !.title = Snapshot.title,
                !.toc = Snapshot.toc, !.seq = Len(published) - 1, !.of = server]
  <2>2. tabs' = [tabs EXCEPT ![t] = new] /\ UNCHANGED serverVars
    BY <2>1 DEF Fetch, Current
  <2>3. TabOk(new, server, published, log) /\ Goes(tab, new, server)
    BY <1>1, FetchOk
  <2> QED BY <2>2, <2>3 DEF Becomes
<1>7. CASE LoadFails(t) \/ Close(t)
  BY <1>7, <1>1, ShutOk DEF LoadFails, Close, Becomes
<1>8. CASE Start(t)
  BY <1>8, <1>1, StartOk DEF Start, Becomes
<1>9. CASE Handle(t)
  BY <1>9, <1>1, HandleOk DEF Handle, Becomes
<1>10. CASE Drop(t) \/ Refused(t)
  BY <1>2, <1>10, <1>1, FailsOk DEF Drop, Refused, Becomes, Goes
<1>11. CASE LookAgain(t)
  <2> DEFINE new == [tab EXCEPT !.failures = 0, !.conn = "due"]
  <2>1. /\ tabs' = [tabs EXCEPT ![t] = new] /\ UNCHANGED serverVars
        /\ tab.state = "open" /\ tab.conn # "on"
    BY <1>11 DEF LookAgain, IsOpen
  <2>2. /\ IsTab(new) /\ new.state = "open" /\ new.conn = "due" /\ new.wire = << >>
        /\ new.seq = tab.seq /\ new.pos = tab.pos /\ new.of = tab.of
        /\ new.patchable = tab.patchable /\ new.lagged = tab.lagged
        /\ new.children = tab.children /\ new.title = tab.title /\ new.toc = tab.toc
    BY <1>1, <2>1 DEF IsTab, TabFields, TabTyped
  <2> HIDE DEF new
  <2>3. TabOk(new, server, published, log) /\ Stays(tab, new, server)
    BY <1>1, <2>1, <2>2, OffOk
  <2> QED BY <2>1, <2>3 DEF Becomes, Goes
<1>12. CASE QuietEnds(t)
  <2> DEFINE new == [tab EXCEPT !.quiet = FALSE]
  <2>1. tabs' = [tabs EXCEPT ![t] = new] /\ UNCHANGED serverVars
    BY <1>12 DEF QuietEnds
  <2>2. /\ IsTab(new) /\ new.state = tab.state /\ new.conn = tab.conn /\ new.wire = tab.wire
        /\ new.seq = tab.seq /\ new.pos = tab.pos /\ new.of = tab.of
        /\ new.patchable = tab.patchable /\ new.lagged = tab.lagged
        /\ new.children = tab.children /\ new.title = tab.title /\ new.toc = tab.toc
    BY <1>1 DEF IsTab, TabFields
  <2> HIDE DEF new
  <2>3. TabOk(new, server, published, log) /\ Stays(tab, new, server)
    BY <1>1, <2>2, SameOk
  <2> QED BY <2>1, <2>3 DEF Becomes, Goes
<1> QED
  BY <1>3, <1>4, <1>5, <1>6, <1>7, <1>8, <1>9, <1>10, <1>11, <1>12 DEF TabAction

LEMMA StreamBegins ==
  ASSUME NEW sv \in Nat \ {0}, NEW page \in Pages
  PROVE  ServerOk(sv, << page >>, << >>)
<1>1. << page >> \in Seq(Pages) /\ << page >> # << >>
  BY EmptySeq
<1>2. << >> \in Seq(Frames(sv, << page >>)) /\ Len(<< >>) = 0
  BY EmptySeq
<1> QED BY <1>1, <1>2 DEF ServerOk

LEMMA StreamInvInit == StreamInit => StreamInv
<1> SUFFICES ASSUME StreamInit PROVE StreamInv
  OBVIOUS
<1>1. PICK doc \in StreamDocs : published = << Page[doc] >>
  BY DEF StreamInit
<1>2. ServerOk(server, published, log)
  BY <1>1, StreamBegins DEF StreamInit, Pages
<1>3. TabOk(Shut, server, published, log)
  BY <1>2, ShutOk
<1> QED BY <1>2, <1>3 DEF StreamInv, StreamInit

\* What the server says, every tab hears.
LEMMA SaysKeeps ==
  ASSUME StreamInv, NEW f, Says(published, published', f), f \in Frames(server, published'),
         log' = Append(log, f), UNCHANGED <<server, tabs>>, opts' \in Nat, saying' \in Nat
  PROVE  StreamInv'
<1>1. ServerOk(server, published, log) /\ \A t \in Tabs : TabOk(tabs[t], server, published, log)
  BY DEF StreamInv
<1>2. ServerOk(server, published', log')
  BY <1>1, ServerSays
<1>3. \A t \in Tabs : TabOk(tabs[t], server, published', log')
  BY <1>1, TabHears
<1> QED BY <1>2, <1>3 DEF StreamInv

LEMMA ServerStepKeeps ==
  ASSUME StreamInv,
         \/ \E doc \in StreamDocs : Update(doc)
         \/ \E version \in 1..MaxOpts : SetOpts(version)
         \/ SayOpts \/ SayLine \/ Stop
  PROVE  StreamInv'
<1>0. opts \in Nat /\ saying \in Nat /\ MaxOpts \in Nat
  BY StreamAssumption DEF StreamInv
<1>1. ASSUME NEW doc \in StreamDocs, Update(doc) PROVE StreamInv'
  BY <1>1, UpdateSays, <1>0, SaysKeeps DEF Pages, Update
<1>2. ASSUME NEW version \in 1..MaxOpts, SetOpts(version) PROVE StreamInv'
  BY <1>0, <1>2 DEF SetOpts, StreamInv
<1>3. CASE SayOpts
  BY <1>0, <1>3, SaysKeeps DEF OptsFrame, Frames, Others, Numbered, SayOpts, Says
<1>4. CASE SayLine
  BY <1>0, <1>4, SaysKeeps DEF LineFrame, Frames, Others, Numbered, SayLine, Says
<1>5. CASE Stop
  BY <1>5 DEF Stop, StreamInv
<1> QED BY <1>1, <1>2, <1>3, <1>4, <1>5

LEMMA ReopenKeeps ==
  ASSUME StreamInv, NEW doc \in StreamDocs, Reopen(doc)
  PROVE  /\ StreamInv'
         /\ \A t \in Tabs : At(tabs'[t], server') = 0 /\ tabs'[t].state # "fetched"
<1>1. /\ server' = server + 1 /\ published' = << Page[doc] >> /\ log' = << >>
      /\ opts' = 1 /\ saying' = 0
      /\ tabs' = [t \in Tabs |-> CASE tabs[t].conn = "on" -> Fails(tabs[t])
                                   [] tabs[t].state = "fetched" -> Shut
                                   [] OTHER -> tabs[t]]
  BY DEF Reopen
<1>2. ServerOk(server, published, log) /\ \A t \in Tabs : TabOk(tabs[t], server, published, log)
  BY DEF StreamInv
<1>3. ServerOk(server', published', log')
  <2>0. server \in Nat
    BY <1>2, ServerTyped
  <2>1. server + 1 \in Nat \ {0} /\ Page[doc] \in Pages
    BY <2>0 DEF Pages
  <2> QED BY <1>1, <2>1, StreamBegins
<1>4. ASSUME NEW t \in Tabs
      PROVE  /\ TabOk(tabs'[t], server', published', log') /\ At(tabs'[t], server') = 0
             /\ tabs'[t].state # "fetched"
  <2>0. TabOk(tabs[t], server, published, log) /\ TabTyped(tabs[t], server, published, log)
    BY <1>2 DEF TabOk
  <2>1. CASE tabs[t].conn = "on"
    BY <1>1, <2>0, <2>1, <1>2, FailsOk, LeftBehindOk DEF TabTyped
  <2>2. CASE tabs[t].conn # "on" /\ tabs[t].state = "fetched"
    BY <1>1, <2>2, <1>3, ShutOk DEF At, Shut
  <2>3. CASE tabs[t].conn # "on" /\ tabs[t].state # "fetched"
    BY <1>1, <2>3, <1>2, <2>0, LeftBehindOk
  <2> QED BY <2>1, <2>2, <2>3
<1>5. tabs' = [t \in Tabs |-> tabs'[t]]
  BY <1>1
<1> QED BY <1>1, <1>3, <1>4, <1>5 DEF StreamInv

LEMMA TabStepKeeps ==
  ASSUME StreamInv, NEW t \in Tabs, TabAction(t)
  PROVE  StreamInv'
<1>1. UNCHANGED serverVars
  BY TabBecomes
<1>2. PICK tab : Becomes(t, tab)
  BY TabBecomes
<1>3. /\ tabs' = [tabs EXCEPT ![t] = tab] /\ TabOk(tab, server, published, log)
  BY <1>2 DEF Becomes
<1>4. \A s \in Tabs : tabs'[s] = IF s = t THEN tab ELSE tabs[s]
  BY <1>3 DEF StreamInv
<1>5. tabs' = [s \in Tabs |-> tabs'[s]]
  BY <1>3 DEF StreamInv
<1> QED BY <1>1, <1>3, <1>4, <1>5 DEF StreamInv, serverVars

\* What a step can be.
LEMMA StreamSteps ==
  ASSUME StreamNext
  PROVE  \/ \E doc \in StreamDocs : Update(doc)
         \/ \E version \in 1..MaxOpts : SetOpts(version)
         \/ SayOpts \/ SayLine \/ Stop
         \/ \E doc \in StreamDocs : Reopen(doc)
         \/ \E t \in Tabs : TabAction(t)
BY DEF StreamNext, TabAction

LEMMA StreamInvNext == StreamInv /\ [StreamNext]_streamVars => StreamInv'
<1> SUFFICES ASSUME StreamInv, [StreamNext]_streamVars PROVE StreamInv'
  OBVIOUS
<1>1. CASE UNCHANGED streamVars
  BY <1>1 DEF streamVars, StreamInv
<1>2. CASE StreamNext
  BY <1>2, StreamSteps, ServerStepKeeps, ReopenKeeps, TabStepKeeps
<1> QED BY <1>1, <1>2

\* A page that has taken everything there is, and would take a patch, is at the number of
\* the document as it is now: no update falls between the document a stream opens with
\* and the first frame it is given, and a stream that fell behind is brought up to date
\* (events() of serve.rs).  That it shows that document is StreamIsAMirror's to say, and
\* only of pages that have theirs from this server.
THEOREM StreamNoneBehind == StreamSpec => []NoneBehind
<1>1. StreamInv => NoneBehind
  <2> SUFFICES ASSUME StreamInv, NEW t \in Tabs, CaughtUp(t), tabs[t].patchable
               PROVE  tabs[t].seq = Current
    BY DEF NoneBehind
  <2>1. ServerOk(server, published, log) /\ TabOk(tabs[t], server, published, log)
    BY DEF StreamInv
  <2>2. tabs[t].conn = "on" /\ tabs[t].wire = << >> /\ tabs[t].pos = Len(log)
    BY DEF CaughtUp
  <2>3. Len(log) \in Nat /\ Len(tabs[t].wire) = 0
    BY <2>1, <2>2, ServerTyped, EmptySeq
  <2>4. NoneLeft(log, tabs[t].pos) /\ NoneLeft(tabs[t].wire, 0)
    BY <2>2, <2>3 DEF NoneLeft
  <2>5. \A i \in 1..Len(tabs[t].wire) : tabs[t].wire[i] # ByeFrame
    BY <2>3
  <2> QED BY <2>1, <2>2, <2>4, <2>5 DEF TabOk, Behind, Current
<1> QED BY <1>1, StreamInvInit, StreamInvNext, PTL DEF StreamSpec

-----------------------------------------------------------------------------
(* A server and its pages are a Mirror, where patches are exact.           *)

\* A page that trusts itself, or is about to, shows what its number stands for.
Shown(tab, sv, pub) ==
  tab.state = "fetched" \/ Trusted(tab, sv) => Shows(tab) = Look(pub[tab.seq + 1])

\* A patch taken by a page that shows the document it was made from makes it show the
\* one it was made for.
LEMMA PatchShows ==
  ASSUME PatchesAreExact, NEW before \in Pages, NEW after \in Pages, NEW base,
         NEW tab, IsTab(tab), Shows(tab) = Look(before),
         ~ SpliceBlocks(before, after).whole,
         SplicePatch(tab, PatchFrame(before, after, base, SpliceBlocks(before, after))).patchable
  PROVE  Shows(SplicePatch(tab, PatchFrame(before, after, base, SpliceBlocks(before, after))))
           = Look(after)
<1> DEFINE splice == SpliceBlocks(before, after)
           f == PatchFrame(before, after, base, splice)
           made == SplicedBlocks(Children(before.blocks), splice)
           t == SplicePatch(tab, f)
<1>1. PICK doc \in StreamDocs, next \in StreamDocs : before = Page[doc] /\ after = Page[next]
  BY DEF Pages
<1>2. Same \notin {after.title, after.toc}
  BY <1>1, StreamAssumption
<1>3. /\ tab.children = Children(before.blocks) /\ tab.title = before.title
      /\ tab.toc = before.toc
  BY DEF Shows, Look
<1>4. /\ f.splice = splice /\ f.blocks = Len(after.blocks)
      /\ f.title = Unless(before.title = after.title, after.title)
      /\ f.toc = Unless(before.toc = after.toc, after.toc)
  BY DEF PatchFrame
<1> HIDE DEF f, splice
<1>5. /\ t.children = SplicedBlocks(tab.children, splice)
      /\ t.title = Kept(tab.title, f.title) /\ t.toc = Kept(tab.toc, f.toc)
      /\ t.patchable = (Len(t.children) = f.blocks)
  BY <1>4 DEF SplicePatch, Whole, IsTab, TabFields
<1> HIDE DEF t
<1>6. t.children = made
  BY <1>3, <1>5
<1>7. t.title = after.title /\ t.toc = after.toc
  BY <1>2, <1>3, <1>4, <1>5 DEF Kept, Unless
<1>8. made = Children(after.blocks)
  <2>1. t.patchable /\ ~ splice.whole
    BY DEF t, f, splice
  <2>2. Len(made) = Len(after.blocks)
    BY <1>4, <1>5, <1>6, <2>1
  <2> HIDE DEF made
  <2>3. splice = SpliceBlocks(Page[doc], Page[next])
    BY <1>1 DEF splice
  <2> QED BY <1>1, <2>1, <2>2, <2>3 DEF PatchesAreExact, made
<1>9. Shows(t) = Look(after)
  BY <1>6, <1>7, <1>8 DEF Shows, Look
<1> QED BY <1>9 DEF t, f, splice

LEMMA HandleShows ==
  ASSUME PatchesAreExact,
         NEW sv, NEW pub, NEW lg, ServerOk(sv, pub, lg),
         NEW tab, TabOk(tab, sv, pub, lg), tab.conn = "on", tab.wire # << >>,
         Shown(tab, sv, pub),
         NEW t \in Taken([tab EXCEPT !.wire = Tail(@)], Head(tab.wire))
  PROVE  Shown(t, sv, pub)
<1> DEFINE f == Head(tab.wire)
           bare == [tab EXCEPT !.wire = Tail(@)]
<1>1. /\ TabTyped(tab, sv, pub, lg) /\ Numbers(tab, sv, pub)
      /\ tab.wire \in Seq(Frames(sv, pub)) /\ Len(tab.wire) \in Nat
      /\ sv \in Nat /\ pub \in Seq(Pages) /\ Len(pub) \in Nat
  BY TabFacts, ServerTyped
<1>2. f \in Frames(sv, pub)
  BY <1>1, HeadTailProperties
<1>3. tab.state = "open" /\ IsTab(tab)
  BY <1>1 DEF TabTyped
<1>4. /\ IsTab(bare) /\ bare.state = "open" /\ bare.patchable = tab.patchable
      /\ bare.seq = tab.seq /\ bare.of = tab.of /\ Shows(bare) = Shows(tab)
  BY <1>1, <1>3 DEF IsTab, TabFields, Shows
<1>5. Shown(bare, sv, pub)
  BY <1>3, <1>4 DEF Shown, Trusted
<1> HIDE DEF bare
<1>6. t \in Taken(bare, f)
  BY DEF bare
<1>7. /\ f.k \in {"doc", "patch", "opts", "line", "bye"}
      /\ Numbered(f) => f.seq \in 0..(Len(pub) - 1)
      /\ f.k = "doc" => f = DocOf(sv, pub[f.seq + 1], f.seq)
      /\ f.k = "patch" =>
           /\ f.seq \in Patched(pub)
           /\ f = PatchFrame(pub[f.seq], pub[f.seq + 1], f.seq - 1, SpliceOf(pub, f.seq))
  BY <1>1, <1>2, FrameFacts
<1> HIDE DEF f
<1>8. CASE f.k = "doc"
  <2>1. t = TakeDoc(bare, f)
    BY <1>6, <1>8 DEF Taken
  <2>2. /\ t.children = f.children /\ t.title = f.title /\ t.toc = f.toc /\ t.seq = f.seq
    BY <1>4, <2>1 DEF TakeDoc, Whole, IsTab, TabFields
  <2>3. /\ f.children = Children(pub[f.seq + 1].blocks) /\ f.title = pub[f.seq + 1].title
        /\ f.toc = pub[f.seq + 1].toc
    BY <1>7, <1>8 DEF DocOf
  <2> QED BY <2>2, <2>3 DEF Shown, Shows, Look
<1>9. CASE f.k = "patch" /\ FitsPatch(bare, f)
  <2> DEFINE s == f.seq
  <2>1. t = SplicePatch(bare, f)
    BY <1>6, <1>9 DEF Taken, TakePatch
  <2>2. t.seq = s /\ t.of = tab.of /\ t.state = "open"
    BY <1>4, <2>1 DEF SplicePatch, Whole, IsTab, TabFields
  <2>3. /\ s \in Patched(pub)
        /\ f = PatchFrame(pub[s], pub[s + 1], s - 1, SpliceOf(pub, s))
    BY <1>7, <1>9
  <2>4. s \in 1..(Len(pub) - 1) /\ ~ SpliceOf(pub, s).whole
    BY <2>3 DEF Patched
  <2>5. f.base = s - 1
    BY <2>3 DEF PatchFrame
  <2> HIDE DEF s
  <2>6. s \in 1..Len(pub) /\ s + 1 \in 1..Len(pub) /\ s \in Nat
    BY <1>1, <2>4
  <2>7. pub[s] \in Pages /\ pub[s + 1] \in Pages
    BY <1>1, <2>6, ElementOfSeq
  <2> SUFFICES ASSUME Trusted(t, sv) PROVE Shows(t) = Look(pub[t.seq + 1])
    BY <2>2 DEF Shown
  <2>8. t.patchable /\ tab.of = sv
    BY <2>2 DEF Trusted
  <2>9. Trusted(bare, sv) /\ bare.seq + 1 = s
    BY <1>9, <2>5, <2>6, <1>4, <2>8 DEF FitsPatch, Trusted
  <2>10. Shows(bare) = Look(pub[s])
    BY <1>5, <2>9 DEF Shown
  <2>11. Shows(t) = Look(pub[s + 1])
    BY <1>4, <2>1, <2>3, <2>4, <2>7, <2>8, <2>10, PatchShows DEF SpliceOf
  <2> QED BY <2>2, <2>11
<1>10. CASE f.k = "patch" /\ ~ FitsPatch(bare, f)
  <2>1. t \in Resynced(bare)
    BY <1>6, <1>10 DEF Taken, TakePatch
  <2>2. \/ t = [bare EXCEPT !.patchable = FALSE, !.dot = "stale"]
        \/ t = [Shut EXCEPT !.state = "reloading", !.quiet = TRUE]
    BY <2>1 DEF Resynced
  <2>3. t.state \in {"open", "reloading"} /\ ~ t.patchable
    BY <1>4, <2>2 DEF IsTab, TabFields, Shut
  <2> QED BY <2>3 DEF Shown, Trusted
<1>11. CASE f.k \in {"opts", "line", "bye"}
  <2>1. t = [bare EXCEPT !.opts = f.opts] \/ t = bare \/ t = TakeBye(bare)
    BY <1>6, <1>11 DEF Taken
  <2>2. /\ t.state = "open" /\ t.seq = bare.seq /\ t.of = bare.of /\ t.patchable = bare.patchable
        /\ t.children = bare.children /\ t.title = bare.title /\ t.toc = bare.toc
    BY <1>4, <2>1 DEF TakeBye, IsTab, TabFields
  <2> QED BY <1>4, <1>5, <2>2 DEF Shown, Trusted, Shows
<1> QED BY <1>7, <1>8, <1>9, <1>10, <1>11

LEMMA TabShows ==
  ASSUME PatchesAreExact, StreamInv, NEW t \in Tabs, TabAction(t),
         Shown(tabs[t], server, published)
  PROVE  Shown(tabs'[t], server, published)
<1>1. /\ ServerOk(server, published, log) /\ TabOk(tabs[t], server, published, log)
      /\ IsTab(tabs[t]) /\ TabTyped(tabs[t], server, published, log)
      /\ tabs = [s \in Tabs |-> tabs[s]]
  BY DEF StreamInv, TabOk, TabTyped
<1>2. CASE \/ Connect(t) \/ Forward(t) \/ SayBye(t) \/ Drop(t) \/ Refused(t) \/ LookAgain(t)
           \/ QuietEnds(t)
  <2>1. /\ tabs'[t].state = tabs[t].state /\ tabs'[t].of = tabs[t].of
        /\ tabs'[t].seq = tabs[t].seq /\ tabs'[t].patchable = tabs[t].patchable
        /\ Shows(tabs'[t]) = Shows(tabs[t])
    <3>1. CASE Connect(t) \/ LookAgain(t) \/ QuietEnds(t)
      BY <1>1, <3>1 DEF Connect, LookAgain, QuietEnds, IsTab, TabFields, Shows
    <3>2. CASE Forward(t) \/ SayBye(t)
      BY <1>1, <3>2 DEF Forward, SayBye, IsTab, TabFields, Shows
    <3>3. CASE Drop(t) \/ Refused(t)
      <4>1. tabs'[t] = Fails(tabs[t])
        BY <1>1, <3>3 DEF Drop, Refused
      <4> DEFINE old == tabs[t]
      <4>2. IsTab(old) /\ tabs'[t] = Fails(old)
        BY <1>1, <4>1
      <4> HIDE DEF old
      <4>3. /\ Fails(old).state = old.state /\ Fails(old).of = old.of
            /\ Fails(old).seq = old.seq /\ Fails(old).patchable = old.patchable
            /\ Shows(Fails(old)) = Shows(old)
        BY <4>2 DEF Fails, IsTab, TabFields, Shows
      <4> QED BY <4>2, <4>3 DEF old
    <3> QED BY <1>2, <3>1, <3>2, <3>3
  <2> QED BY <2>1 DEF Shown, Trusted
<1>3. CASE Load(t) \/ LoadAgain(t)
  <2>1. Fetch(t)
    BY <1>3 DEF Load, LoadAgain
  <2>2. /\ tabs'[t].children = Children(Snapshot.blocks) /\ tabs'[t].title = Snapshot.title
        /\ tabs'[t].toc = Snapshot.toc /\ tabs'[t].seq = Current
    BY <1>1, <2>1 DEF Fetch, Shut
  <2>3. Len(published) \in Nat
    BY <1>1, ServerTyped
  <2>4. Current + 1 = Len(published)
    BY <2>3 DEF Current
  <2>5. published[tabs'[t].seq + 1] = Snapshot
    BY <2>2, <2>4 DEF Snapshot, Last
  <2> QED BY <2>2, <2>5 DEF Shown, Shows, Look
<1>4. CASE LoadFails(t) \/ Close(t)
  <2>1. tabs'[t] = Shut
    BY <1>1, <1>4 DEF LoadFails, Close
  <2>2. Shut.state = "shut"
    BY DEF Shut
  <2>3. Shown(Shut, server, published)
    BY <2>2 DEF Shown, Trusted
  <2> QED BY <2>1, <2>3
<1>5. CASE Start(t)
  BY <1>1, <1>5 DEF Start, IsTab, TabFields, Shows, Shown
<1>6. CASE Handle(t)
  BY <1>1, <1>6, HandleShows DEF Handle
<1> QED BY <1>2, <1>3, <1>4, <1>5, <1>6 DEF TabAction

MirrorInv == StreamInv /\ \A t \in Tabs : Shown(tabs[t], server, published)

LEMMA MirrorInvInit == StreamInit => MirrorInv
<1>1. StreamInit => \A t \in Tabs : tabs[t] = Shut
  BY DEF StreamInit
<1>2. Shown(Shut, server, published)
  BY DEF Shown, Shut, Trusted
<1> QED BY <1>1, <1>2, StreamInvInit DEF MirrorInv

LEMMA MirrorInvNext ==
  ASSUME PatchesAreExact, MirrorInv, [StreamNext]_streamVars
  PROVE  MirrorInv'
<1>1. StreamInv /\ StreamInv'
  BY StreamInvNext DEF MirrorInv
<1>2. ASSUME NEW t \in Tabs PROVE Shown(tabs'[t], server', published')
  <2>1. /\ Shown(tabs[t], server, published) /\ ServerOk(server, published, log)
        /\ TabTyped(tabs[t], server, published, log) /\ Numbers(tabs[t], server, published)
        /\ tabs = [s \in Tabs |-> tabs[s]]
    BY <1>1 DEF MirrorInv, StreamInv, TabOk
  <2>2. CASE UNCHANGED <<server, published, tabs>>
    BY <2>1, <2>2
  <2>3. ASSUME NEW doc \in StreamDocs, Update(doc) PROVE Shown(tabs'[t], server', published')
    <3>1. /\ published' = Append(published, Page[doc]) /\ UNCHANGED <<server, tabs>>
          /\ Page[doc] \in Pages
      BY <2>3 DEF Update, Pages
    <3>2. /\ server \in Nat /\ published \in Seq(Pages) /\ Len(published) \in Nat
      BY <2>1, ServerTyped
    <3>3. \A i \in 1..Len(published) : published'[i] = published[i]
      BY <3>1, <3>2, FramesGrow
    <3> SUFFICES ASSUME tabs[t].state = "fetched" \/ Trusted(tabs[t], server)
                 PROVE  published'[tabs[t].seq + 1] = published[tabs[t].seq + 1]
      BY <2>1, <3>1 DEF Shown
    <3>4. tabs[t].seq \in 0..(Len(published) - 1)
      BY <2>1 DEF Numbers, Ours, Trusted
    <3>5. tabs[t].seq + 1 \in 1..Len(published)
      BY <3>2, <3>4
    <3> QED BY <3>3, <3>5
  <2>4. ASSUME NEW doc \in StreamDocs, Reopen(doc) PROVE Shown(tabs'[t], server', published')
    <3>1. At(tabs'[t], server') = 0 /\ tabs'[t].state # "fetched"
      BY <1>1, <2>4, ReopenKeeps
    <3>2. /\ server' \in Nat /\ Len(published') \in Nat
          /\ Numbers(tabs'[t], server', published')
      BY <1>1, ServerTyped DEF StreamInv, TabOk
    <3>3. ~ Trusted(tabs'[t], server')
      <4> SUFFICES ASSUME Trusted(tabs'[t], server') PROVE FALSE
        OBVIOUS
      <4>1. tabs'[t].seq \in 0..(Len(published') - 1)
        BY <3>2 DEF Trusted, Numbers, Ours
      <4>2. At(tabs'[t], server') = tabs'[t].seq + 1
        BY DEF Trusted, At
      <4> QED BY <3>1, <3>2, <4>1, <4>2
    <3> QED BY <3>1, <3>3 DEF Shown
  <2>5. ASSUME NEW s \in Tabs, TabAction(s) PROVE Shown(tabs'[t], server', published')
    BY <1>1, <2>5, TabBecomes, <2>1, TabShows DEF Becomes, serverVars
  <2>6. CASE UNCHANGED streamVars
    BY <2>2, <2>6 DEF streamVars
  <2>7. CASE StreamNext
    BY <2>2, <2>3, <2>4, <2>5, <2>7, StreamSteps DEF SetOpts, SayOpts, SayLine, Stop
  <2> QED BY <2>6, <2>7
<1> QED BY <1>1, <1>2 DEF MirrorInv

\* What a Mirror is told of the server and of its pages.
Written(pub) == [i \in DOMAIN pub |-> Look(pub[i])]
Ats(tbs, sv) == [t \in Tabs |-> At(tbs[t], sv)]
View(tab, sv) == IF Trusted(tab, sv) THEN {Shows(tab)} ELSE {}
Views(tbs, sv) == [t \in Tabs |-> View(tbs[t], sv)]
Lates(tbs) == [t \in Tabs |-> tbs[t].lagged]

LEMMA WrittenParts ==
  ASSUME NEW pub \in Seq(Pages)
  PROVE  /\ Len(Written(pub)) = Len(pub) /\ DOMAIN Written(pub) = 1..Len(pub)
         /\ \A i \in 1..Len(pub) : Written(pub)[i] = Look(pub[i])
<1>1. Len(pub) \in Nat /\ DOMAIN pub = 1..Len(pub)
  BY LenProperties
<1>2. Written(pub) = [i \in 1..Len(pub) |-> Look(pub[i])]
  BY <1>1 DEF Written
<1>3. Len(Written(pub)) = Len(pub)
  BY <1>1, <1>2
<1> QED BY <1>2, <1>3

LEMMA Seeing ==
  /\ [t \in Tabs |-> IF Mine(t) THEN tabs[t].seq + 1 ELSE 0] = Ats(tabs, server)
  /\ [t \in Tabs |-> ViewOf(t)] = Views(tabs, server)
  /\ [t \in Tabs |-> IF Mine(t) THEN tabs[t].seq + 1 ELSE 0]' = Ats(tabs', server')
  /\ [t \in Tabs |-> ViewOf(t)]' = Views(tabs', server')
<1>1. \A t \in Tabs : (IF Mine(t) THEN tabs[t].seq + 1 ELSE 0) = At(tabs[t], server)
  BY DEF Mine, IsOpen, At
<1>2. \A t \in Tabs : ViewOf(t) = View(tabs[t], server)
  BY DEF ViewOf, Mine, IsOpen, Seen, View, Trusted, Shows
<1>3. \A t \in Tabs : (IF Mine(t) THEN tabs[t].seq + 1 ELSE 0)' = At(tabs'[t], server')
  BY DEF Mine, IsOpen, At
<1>4. \A t \in Tabs : ViewOf(t)' = View(tabs'[t], server')
  BY DEF ViewOf, Mine, IsOpen, Seen, View, Trusted, Shows
<1> QED BY <1>1, <1>2, <1>3, <1>4 DEF Ats, Views

LEMMA MirrorStutters ==
  ASSUME UNCHANGED Written(published), UNCHANGED Ats(tabs, server),
         UNCHANGED Views(tabs, server), UNCHANGED Lates(tabs)
  PROVE  UNCHANGED M!vars
BY Seeing DEF M!vars, Written, Lates

LEMMA MirrorInit == StreamInit => M!Init
<1> SUFFICES ASSUME StreamInit PROVE M!Init
  OBVIOUS
<1>1. PICK doc \in StreamDocs : published = << Page[doc] >>
  BY DEF StreamInit
<1>2. published \in Seq(Pages) /\ Len(published) = 1
  BY <1>1 DEF Pages
<1>3. Len(Written(published)) = 1
  BY <1>2, WrittenParts
<1>4. \A t \in Tabs : tabs[t] = Shut
  BY DEF StreamInit
<1>5. At(Shut, server) = 0 /\ View(Shut, server) = {} /\ Shut.lagged = FALSE
  BY DEF At, View, Trusted, Shut
<1>6. /\ Ats(tabs, server) = [t \in Tabs |-> 0] /\ Views(tabs, server) = [t \in Tabs |-> {}]
      /\ Lates(tabs) = [t \in Tabs |-> FALSE]
  BY <1>4, <1>5 DEF Ats, Views, Lates
<1> QED BY <1>3, <1>6, Seeing DEF M!Init, Written, Lates

LEMMA UpdateWrites ==
  ASSUME StreamInv, NEW doc \in StreamDocs, Update(doc)
  PROVE  M!Write
<1>1. /\ published' = Append(published, Page[doc]) /\ UNCHANGED <<server, tabs>>
      /\ Page[doc] \in Pages
  BY DEF Update, Pages
<1>2. /\ server \in Nat /\ published \in Seq(Pages) /\ Len(published) \in Nat
  BY ServerTyped DEF StreamInv
<1>3. /\ published' \in Seq(Pages) /\ Len(published') = Len(published) + 1
      /\ \A i \in 1..Len(published) : published'[i] = published[i]
  BY <1>1, <1>2, FramesGrow
<1> DEFINE now == Written(published')
           was == Written(published)
<1>4. /\ Len(now) = Len(published) + 1 /\ Len(was) = Len(published)
      /\ \A i \in 1..Len(published) : now[i] = was[i]
      /\ was = [i \in 1..Len(published) |-> was[i]]
  BY <1>2, <1>3, WrittenParts DEF Written
<1> HIDE DEF now, was
<1>5. SubSeq(now, 1, Len(was)) = was
  BY <1>2, <1>4
<1>6. UNCHANGED Ats(tabs, server) /\ UNCHANGED Views(tabs, server) /\ UNCHANGED Lates(tabs)
  BY <1>1
<1> QED BY <1>4, <1>5, <1>6, Seeing DEF M!Write, Written, Lates, now, was

LEMMA ReopenBegins ==
  ASSUME StreamInv, NEW doc \in StreamDocs, Reopen(doc)
  PROVE  M!Begin
<1>1. /\ StreamInv'
      /\ \A t \in Tabs : At(tabs'[t], server') = 0 /\ tabs'[t].state # "fetched"
  BY ReopenKeeps
<1>2. published' \in Seq(Pages) /\ Len(published') = 1
  BY DEF Reopen, Pages
<1>3. Len(Written(published')) = 1
  BY <1>2, WrittenParts
<1>4. ASSUME NEW t \in Tabs PROVE View(tabs'[t], server') = {} /\ tabs'[t].lagged \in BOOLEAN
  <2>1. ServerOk(server', published', log') /\ TabOk(tabs'[t], server', published', log')
    BY <1>1 DEF StreamInv
  <2>2. /\ server' \in Nat /\ Len(published') \in Nat
        /\ Numbers(tabs'[t], server', published')
        /\ TabTyped(tabs'[t], server', published', log')
    BY <2>1, ServerTyped DEF TabOk
  <2>3. ~ Trusted(tabs'[t], server')
    <3> SUFFICES ASSUME Trusted(tabs'[t], server') PROVE FALSE
      OBVIOUS
    <3>1. tabs'[t].seq \in 0..(Len(published') - 1)
      BY <2>2 DEF Trusted, Numbers, Ours
    <3>2. At(tabs'[t], server') = tabs'[t].seq + 1
      BY DEF Trusted, At
    <3> QED BY <1>1, <2>2, <3>1, <3>2
  <2> QED BY <2>2, <2>3 DEF View, TabTyped
<1>5. /\ Ats(tabs', server') = [t \in Tabs |-> 0] /\ Views(tabs', server') = [t \in Tabs |-> {}]
  BY <1>1, <1>4 DEF Ats, Views
<1> DEFINE still == {t \in Tabs : tabs'[t].lagged}
<1>6. still \in SUBSET Tabs /\ Lates(tabs') = [t \in Tabs |-> t \in still]
  BY <1>4 DEF Lates
<1> HIDE DEF still
<1>7. \E some \in SUBSET Tabs : Lates(tabs') = [t \in Tabs |-> t \in some]
  BY <1>6
<1> QED BY <1>3, <1>5, <1>7, Seeing DEF M!Begin, Written, Lates

LEMMA TabMirrors ==
  ASSUME MirrorInv, MirrorInv', NEW t \in Tabs, TabAction(t)
  PROVE  UNCHANGED M!vars \/ M!Follow(t) \/ M!Replay(t) \/ M!FallBehind(t) \/ M!Leave(t)
<1>1. UNCHANGED serverVars /\ \E tab : Becomes(t, tab)
  BY TabBecomes DEF MirrorInv
<1>2. PICK tab : Becomes(t, tab)
  BY <1>1
<1> DEFINE old == tabs[t]
<1>3. /\ tabs' = [tabs EXCEPT ![t] = tab] /\ Goes(old, tab, server)
      /\ tabs = [s \in Tabs |-> tabs[s]] /\ UNCHANGED <<server, published>>
  BY <1>1, <1>2 DEF Becomes, MirrorInv, StreamInv, serverVars
<1>4. /\ tabs'[t] = tab /\ \A s \in Tabs : s # t => tabs'[s] = tabs[s]
  BY <1>3
<1>5. /\ TabTyped(old, server, published, log) /\ TabTyped(tab, server, published, log)
      /\ Numbers(tab, server, published) /\ Shown(tab, server, published)
      /\ ServerOk(server, published, log)
  BY <1>2, <1>3, <1>4 DEF MirrorInv, StreamInv, TabOk, Becomes
<1>6. /\ published \in Seq(Pages) /\ Len(published) \in Nat
      /\ old.lagged \in BOOLEAN /\ tab.lagged \in BOOLEAN
  BY <1>5, ServerTyped DEF TabTyped
<1>7. /\ Ats(tabs', server') = [Ats(tabs, server) EXCEPT ![t] = At(tab, server)]
      /\ Views(tabs', server') = [Views(tabs, server) EXCEPT ![t] = View(tab, server)]
      /\ Lates(tabs') = [Lates(tabs) EXCEPT ![t] = tab.lagged]
      /\ Ats(tabs, server)[t] = At(old, server) /\ Lates(tabs)[t] = old.lagged
  BY <1>3, <1>4 DEF Ats, Views, Lates
<1>8. CASE Stays(old, tab, server)
  <2>1. At(tab, server) = At(old, server) /\ View(tab, server) = View(old, server)
    BY <1>8 DEF Stays, Alike, View
  <2>2. UNCHANGED Ats(tabs, server) /\ UNCHANGED Views(tabs, server)
    BY <1>7, <2>1 DEF Ats, Views
  <2>3. CASE tab.lagged = old.lagged
    BY <1>3, <1>7, <2>3, <2>2, MirrorStutters DEF Lates
  <2>4. CASE tab.lagged = TRUE
    BY <1>3, <1>7, <2>4, <2>2, Seeing DEF M!FallBehind, Written, Lates
  <2> QED BY <1>6, <1>8, <2>3, <2>4 DEF Stays
<1>9. CASE /\ At(tab, server) # 0 /\ tab.lagged = old.lagged
           /\ At(old, server) <= At(tab, server) \/ old.lagged
  <2>0. PICK i : i = At(tab, server)
    OBVIOUS
  <2>1. /\ tab.state = "open" /\ tab.of = server /\ i = tab.seq + 1
        /\ tab.seq \in 0..(Len(published) - 1)
    BY <1>5, <1>9, <2>0 DEF At, Numbers, Ours
  <2>2. i \in DOMAIN Written(published) /\ Written(published)[i] = Look(published[i])
    BY <1>6, <2>1, WrittenParts
  <2>3. View(tab, server) \in SUBSET {Written(published)[i]}
    BY <1>5, <2>1, <2>2 DEF View, Shown
  <2>4. /\ Ats(tabs', server') = [Ats(tabs, server) EXCEPT ![t] = i]
        /\ \E seen \in SUBSET {Written(published)[i]} :
             Views(tabs', server') = [Views(tabs, server) EXCEPT ![t] = seen]
        /\ UNCHANGED Written(published) /\ UNCHANGED Lates(tabs)
    BY <1>7, <1>9, <1>3, <2>0, <2>3 DEF Lates
  <2>5. M!MovesTo(t, i)
    BY <2>4, Seeing DEF M!MovesTo, Written, Lates
  <2>6. i \in DOMAIN [k \in DOMAIN published |-> Look(published[k])]
    BY <2>2 DEF Written
  <2>7. CASE At(old, server) <= i
    BY <1>5, <1>7, <2>1, <2>7, Seeing, <2>5, <2>6 DEF At, TabTyped, M!Follow
  <2>8. CASE old.lagged
    BY <2>8, <2>5, <2>6 DEF M!Replay
  <2> QED BY <1>9, <2>0, <2>7, <2>8
<1>10. CASE At(tab, server) = 0 /\ ~ Trusted(tab, server) /\ ~ tab.lagged
  BY <1>6, <1>10, <1>3, <1>7, Seeing DEF View, M!Leave, Written, Lates
<1> QED BY <1>3, <1>8, <1>9, <1>10 DEF Goes

LEMMA MirrorStep ==
  ASSUME MirrorInv, MirrorInv', [StreamNext]_streamVars
  PROVE  [M!Next]_M!vars
<1>1. StreamInv
  BY DEF MirrorInv
<1>2. ASSUME UNCHANGED <<server, published, tabs>> PROVE UNCHANGED M!vars
  BY <1>2, MirrorStutters DEF Written, Ats, Views, Lates
<1>3. ASSUME NEW doc \in StreamDocs, Update(doc) PROVE M!Next
  BY <1>1, <1>3, UpdateWrites DEF M!Next
<1>4. ASSUME NEW doc \in StreamDocs, Reopen(doc) PROVE M!Next
  BY <1>1, <1>4, ReopenBegins DEF M!Next
<1>5. ASSUME NEW t \in Tabs, TabAction(t) PROVE [M!Next]_M!vars
  BY <1>5, TabMirrors DEF M!Next
<1>6. CASE UNCHANGED streamVars
  BY <1>2, <1>6 DEF streamVars
<1>7. CASE StreamNext
  BY <1>2, <1>3, <1>4, <1>5, <1>7, StreamSteps DEF SetOpts, SayOpts, SayLine, Stop
<1> QED BY <1>6, <1>7

\* A server and its pages implement a mirror, for every set of pages, tabs and sizes of
\* the broadcast, where no patch is one that a page would count right and have wrong:
\* what a page shows and trusts is a document that was published, and never an older
\* one after a newer one unless its stream fell behind, whatever frames it
\* missed, took twice or took late (events() and update() of serve.rs, applyDoc(),
\* applyPatch() and resync() of preview.js).
THEOREM StreamIsAMirror == PatchesAreExact => (StreamSpec => MirrorsTheEditor)
<1> SUFFICES ASSUME PatchesAreExact PROVE StreamSpec => MirrorsTheEditor
  OBVIOUS
<1>1. MirrorInv /\ [StreamNext]_streamVars => MirrorInv'
  BY MirrorInvNext
<1>2. MirrorInv /\ MirrorInv' /\ [StreamNext]_streamVars => [M!Next]_M!vars
  BY MirrorStep
<1> QED
  BY <1>1, <1>2, MirrorInit, MirrorInvInit, PTL DEF StreamSpec, MirrorsTheEditor, M!Spec

-----------------------------------------------------------------------------
(* When patches are exact: where blocks move as one.                       *)

\* As many of the first sequences as m, one after the other.
JoinsUp(flat, V, seqs, m) ==
  /\ flat \in Seq(V) /\ Len(flat) >= m
  /\ Len(flat) = m => \A i \in 1..m : Len(seqs[i]) = 1
  /\ (\A i \in 1..m : Len(seqs[i]) = 1) =>
       Len(flat) = m /\ \A i \in 1..m : flat[i] = seqs[i][1]

\* The first sequence by itself is the first, joined up.
LEMMA JoinsFirst ==
  ASSUME NEW V, NEW seqs, NEW s \in Seq(V), s = seqs[1], Len(s) # 0
  PROVE  JoinsUp(s, V, seqs, 1)
<1>1. Len(s) \in Nat /\ \A i \in 1..1 : i = 1
  OBVIOUS
<1> QED BY <1>1 DEF JoinsUp

\* And with the next one put behind it, one more is joined up.
LEMMA JoinsMore ==
  ASSUME NEW V, NEW seqs, NEW m \in Nat \ {0}, NEW flat, JoinsUp(flat, V, seqs, m - 1),
         seqs[m] \in Seq(V), Len(seqs[m]) # 0
  PROVE  JoinsUp(flat \o seqs[m], V, seqs, m)
<1> DEFINE s == seqs[m]
           all == flat \o s
<1>1. /\ flat \in Seq(V) /\ Len(flat) \in Nat /\ Len(flat) >= m - 1
      /\ s \in Seq(V) /\ Len(s) \in Nat \ {0}
  BY DEF JoinsUp
<1>2. /\ all \in Seq(V) /\ Len(all) = Len(flat) + Len(s)
      /\ \A i \in 1..Len(all) : all[i] = IF i <= Len(flat) THEN flat[i] ELSE s[i - Len(flat)]
  BY <1>1, ConcatProperties
<1>3. /\ \A i \in 1..m : i = m \/ i \in 1..(m - 1)
      /\ \A i \in 1..(m - 1) : i \in 1..m /\ i <= m - 1
      /\ m \in 1..m
  OBVIOUS
<1> HIDE DEF all, s
<1>4. Len(all) >= m
  BY <1>1, <1>2
<1>5. ASSUME Len(all) = m, NEW i \in 1..m PROVE Len(seqs[i]) = 1
  <2>1. \A a, b \in Nat : a >= m - 1 /\ b # 0 /\ a + b = m => a = m - 1 /\ b = 1
    OBVIOUS
  <2>2. Len(flat) = m - 1 /\ Len(s) = 1
    BY <1>1, <1>2, <1>5, <2>1
  <2> QED BY <1>3, <2>2 DEF JoinsUp, s
<1>6. ASSUME \A i \in 1..m : Len(seqs[i]) = 1
      PROVE  Len(all) = m /\ \A i \in 1..m : all[i] = seqs[i][1]
  <2>1. Len(flat) = m - 1 /\ \A i \in 1..(m - 1) : flat[i] = seqs[i][1]
    BY <1>3, <1>6 DEF JoinsUp
  <2>2. Len(s) = 1
    BY <1>3, <1>6 DEF s
  <2>3. Len(all) = m
    BY <1>2, <2>1, <2>2
  <2>4. all[m] = s[1]
    <3>1. m - Len(flat) = 1 /\ ~ (m <= Len(flat))
      BY <2>1
    <3> QED BY <1>2, <1>3, <2>3, <3>1
  <2>5. \A i \in 1..(m - 1) : all[i] = flat[i]
    BY <1>2, <1>3, <2>1, <2>3
  <2> QED BY <1>3, <2>1, <2>3, <2>4, <2>5 DEF s
<1> QED BY <1>2, <1>4, <1>5, <1>6 DEF JoinsUp, all, s

\* FlattenSeq joins up all of them.
LEMMA Flattened ==
  ASSUME NEW V, NEW seqs \in Seq(Seq(V)), \A i \in 1..Len(seqs) : Len(seqs[i]) # 0
  PROVE  JoinsUp(FlattenSeq(seqs), V, seqs, Len(seqs))
<1> DEFINE n == Len(seqs)
<1>1. n \in Nat /\ \A i \in 1..n : seqs[i] \in Seq(V)
  BY LenProperties, ElementOfSeq
<1>2. CASE n = 0
  <2>1. seqs = << >> /\ FlattenSeq(seqs) = seqs
    BY <1>2, EmptySeq DEF FlattenSeq
  <2>2. << >> \in Seq(V) /\ Len(<< >>) = 0 /\ 1..0 = {}
    BY EmptySeq
  <2>3. JoinsUp(<< >>, V, seqs, 0)
    BY <2>2 DEF JoinsUp
  <2> QED BY <1>2, <2>1, <2>3
<1>3. CASE n # 0
  <2> DEFINE Rec(f) == f = [i \in 1..n |-> IF i = 1 THEN seqs[i] ELSE f[i - 1] \o seqs[i]]
             flat == CHOOSE f : Rec(f)
             step == [p \in Seq(V) \X (1..n) |->
                        IF p[2] = 1 THEN seqs[p[2]] ELSE p[1] \o seqs[p[2]]]
  <2>1. FlattenSeq(seqs) = flat[n]
    BY <1>3 DEF FlattenSeq
  <2>2. step \in [Seq(V) \X (1..n) -> Seq(V)]
    BY <1>1, ConcatProperties
  <2>3. \E f : Solves(f, Seq(V), << >>, n, step)
    <3> HIDE DEF step, n
    <3>1. << >> \in Seq(V)
      BY EmptySeq
    <3> QED BY <1>1, <2>2, <3>1, RecursionExists
  <2>4. PICK g : Solves(g, Seq(V), << >>, n, step)
    BY <2>3
  <2> DEFINE f == [i \in 1..n |-> g[i]]
  <2>5. Rec(f)
    <3>1. ASSUME NEW i \in 1..n
          PROVE  g[i] = IF i = 1 THEN seqs[i] ELSE f[i - 1] \o seqs[i]
      <4>1. i - 1 \in 0..n /\ (i # 1 => i - 1 \in 1..n)
        BY <1>1
      <4>2. g[i - 1] \in Seq(V) /\ g[i] = step[<<g[i - 1], i>>]
        BY <2>4, <4>1 DEF Solves
      <4>3. g[i] = IF i = 1 THEN seqs[i] ELSE g[i - 1] \o seqs[i]
        BY <4>2
      <4> QED BY <4>1, <4>3
    <3> QED BY <3>1
  <2>6. Rec(flat)
    <3> HIDE DEF Rec
    <3> QED BY <2>5
  <2> HIDE DEF flat
  <2>7. /\ flat[1] = seqs[1]
        /\ \A i \in 1..n : i # 1 => flat[i] = flat[i - 1] \o seqs[i]
    <3>1. 1 \in 1..n
      BY <1>1, <1>3
    <3> QED BY <2>6, <3>1
  <2> DEFINE S == {m \in 0..n : m = 0 \/ JoinsUp(flat[m], V, seqs, m)}
  <2>8. 0 \in S
    BY <1>1
  <2>9. ASSUME NEW m \in 1..n, m - 1 \in S PROVE m \in S
    <3>1. m \in Nat \ {0} /\ m \in 0..n /\ seqs[m] \in Seq(V) /\ Len(seqs[m]) # 0
      BY <1>1
    <3>2. CASE m = 1
      BY <2>7, <3>1, <3>2, JoinsFirst
    <3>3. CASE m # 1
      <4>1. m - 1 # 0 /\ JoinsUp(flat[m - 1], V, seqs, m - 1)
        BY <2>9, <3>1, <3>3
      <4>2. JoinsUp(flat[m - 1] \o seqs[m], V, seqs, m)
        BY <3>1, <4>1, JoinsMore
      <4> QED BY <2>7, <3>1, <3>3, <4>2
    <3> QED BY <3>2, <3>3
  <2>10. n \in 0..n /\ \A k \in 0..n : k \in S
    <3> HIDE DEF S, n
    <3>1. \A m \in 1..n : m - 1 \in S => m \in S
      BY <2>9
    <3>2. \A k \in 0..n : k \in S
      BY <1>1, <2>8, <3>1, StepByStep
    <3> QED BY <1>1, <3>2
  <2> QED BY <1>3, <2>1, <2>10
<1> QED BY <1>2, <1>3

Blocks == [look : DOMAIN Size, lines : Seq(Nat)]
Kids == [look : DOMAIN Size, part : Nat, lines : Seq(Nat)]
EachShows == \A look \in DOMAIN Size : Elements[look] \in Nat \ {0}

\* Every block is one element.
AllOnes(bs) == \A i \in 1..Len(bs) : Elements[bs[i].look] = 1

OneEach(kids, bs) ==
  Len(kids) = Len(bs) /\ \A i \in 1..Len(bs) : kids[i] = Child(bs[i], 1)

\* A page has an element of each block at least, and has no more where each is one.
LEMMA ChildrenCount ==
  ASSUME EachShows, NEW bs \in Seq(Blocks)
  PROVE  /\ Children(bs) \in Seq(Kids) /\ Len(Children(bs)) >= Len(bs)
         /\ Len(Children(bs)) = Len(bs) => AllOnes(bs)
         /\ AllOnes(bs) => OneEach(Children(bs), bs)
<1> DEFINE n == Len(bs)
           kids(i) == [part \in 1..Elements[bs[i].look] |-> Child(bs[i], part)]
           seqs == [i \in 1..n |-> kids(i)]
<1>1. /\ n \in Nat
      /\ \A i \in 1..n : /\ bs[i] \in Blocks /\ Elements[bs[i].look] \in Nat \ {0}
  <2>1. n \in Nat /\ \A i \in 1..n : bs[i] \in Blocks
    BY LenProperties, ElementOfSeq
  <2> QED BY <2>1 DEF Blocks, EachShows
<1>2. ASSUME NEW i \in 1..n
      PROVE  /\ kids(i) \in Seq(Kids) /\ Len(kids(i)) = Elements[bs[i].look]
             /\ kids(i)[1] = Child(bs[i], 1)
  <2> DEFINE e == Elements[bs[i].look]
  <2>1. e \in Nat \ {0} /\ bs[i].look \in DOMAIN Size /\ bs[i].lines \in Seq(Nat)
    BY <1>1 DEF Blocks
  <2>2. << >> \in Seq(Nat)
    BY EmptySeq
  <2> HIDE DEF e
  <2>3. \A part \in 1..e : Child(bs[i], part) \in Kids
    BY <2>1, <2>2 DEF Child, Kids
  <2>4. 1 \in 1..e
    BY <2>1
  <2> DEFINE k == [part \in 1..e |-> Child(bs[i], part)]
  <2>5. k \in Seq(Kids) /\ Len(k) = e /\ k[1] = Child(bs[i], 1)
    <3>1. k \in [1..e -> Kids] /\ k[1] = Child(bs[i], 1)
      BY <2>3, <2>4
    <3>2. k \in Seq(Kids)
      BY <2>1, <3>1, SeqDef
    <3>3. Len(k) = e
      <4> HIDE DEF k
      <4> QED BY <2>1, <3>1, <3>2, LenProperties
    <3> QED BY <3>1, <3>2, <3>3
  <2> QED BY <2>5 DEF e
<1>3. Children(bs) = FlattenSeq(seqs)
  BY DEF Children
<1> HIDE DEF kids, n
<1>4. seqs \in Seq(Seq(Kids)) /\ Len(seqs) = n /\ \A i \in 1..n : seqs[i] = kids(i)
  <2>1. seqs \in [1..n -> Seq(Kids)]
    BY <1>2
  <2>2. seqs \in Seq(Seq(Kids))
    BY <1>1, <2>1, SeqDef
  <2>3. Len(seqs) = n
    <3> HIDE DEF seqs
    <3> QED BY <1>1, <2>1, <2>2, LenProperties
  <2> QED BY <2>2, <2>3
<1> HIDE DEF seqs
<1>5. JoinsUp(FlattenSeq(seqs), Kids, seqs, n)
  <2>1. ASSUME NEW i \in 1..n PROVE Len(seqs[i]) # 0
    <3>1. Len(seqs[i]) = Elements[bs[i].look]
      BY <1>2, <1>4
    <3> QED BY <1>1, <3>1
  <2>2. \A i \in 1..Len(seqs) : Len(seqs[i]) # 0
    BY <1>4, <2>1
  <2> QED BY <1>4, <2>2, Flattened
<1> DEFINE flat == FlattenSeq(seqs)
<1> HIDE DEF flat
<1>6. /\ flat \in Seq(Kids) /\ Len(flat) >= n
      /\ Len(flat) = n => AllOnes(bs)
      /\ AllOnes(bs) => OneEach(flat, bs)
  <2>1. \A i \in 1..n : Len(seqs[i]) = Elements[bs[i].look] /\ seqs[i][1] = Child(bs[i], 1)
    BY <1>2, <1>4
  <2> QED BY <1>5, <2>1 DEF JoinsUp, AllOnes, OneEach, flat, n
<1> QED BY <1>3, <1>6 DEF flat, n

\* The lesser of two numbers is one of them and not above the other.
LEMMA LesserOfTwo ==
  ASSUME NEW a \in Nat, NEW b \in Nat
  PROVE  Min({a, b}) \in Nat /\ Min({a, b}) <= a /\ Min({a, b}) <= b
<1>1. \E x \in {a, b} : \A y \in {a, b} : x =< y
  OBVIOUS
<1> QED BY <1>1 DEF Min

\* What a patch takes to be the same in both pages is in both of them, the blocks they
\* begin with apart from those they end with, and looks the same.
EndsAlike(old, new, h, t) ==
  /\ {h, t} \subseteq Nat /\ h + t <= Len(old) /\ h + t <= Len(new)
  /\ \A i \in 1..h : old[i].look = new[i].look
  /\ \A i \in 0..(t - 1) : old[Len(old) - i].look = new[Len(new) - i].look

\* The head and the tail that block_patch() finds are in both pages and look the same.
LEMMA HeadAndTail ==
  ASSUME NEW old \in Seq(Blocks), NEW new \in Seq(Blocks)
  PROVE  EndsAlike(old, new, SameHead(old, new), SameTail(old, new, SameHead(old, new)))
<1> DEFINE n == Len(old)
           m == Len(new)
           l == Min({n, m})
           Hs == {h \in 0..l : \A i \in 1..h : SameButForLines(old[i], new[i])}
           h == SameHead(old, new)
           Ts == {t \in 0..(l - h) : \A i \in 0..(t - 1) : SameButForLines(old[n - i], new[m - i])}
           t == SameTail(old, new, h)
<1>1. n \in Nat /\ m \in Nat
  BY LenProperties
<1>2. h = Max(Hs) /\ t = Max(Ts)
  BY DEF SameHead, SameTail
<1> HIDE DEF n, m, h, t
<1>3. l \in Nat /\ l <= n /\ l <= m
  BY <1>1, LesserOfTwo
<1> HIDE DEF l
<1>4. h \in Hs
  <2>1. Hs \in SUBSET (0..l) /\ Hs # {}
    <3>1. 0 \in Hs
      BY <1>3
    <3> QED BY <3>1
  <2> HIDE DEF Hs
  <2> QED BY <1>2, <1>3, <2>1, GreatestOf
<1>5. h \in 0..l /\ l - h \in Nat
  BY <1>3, <1>4
<1>6. t \in Ts
  <2>1. Ts \in SUBSET (0..(l - h)) /\ Ts # {}
    <3>1. 0 \in Ts
      BY <1>5
    <3> QED BY <3>1
  <2> HIDE DEF Ts
  <2> QED BY <1>2, <1>5, <2>1, GreatestOf
<1>7. {h, t} \subseteq Nat /\ h + t <= n /\ h + t <= m
  BY <1>1, <1>3, <1>5, <1>6
<1>8. /\ \A i \in 1..h : old[i].look = new[i].look
      /\ \A i \in 0..(t - 1) : old[n - i].look = new[m - i].look
  BY <1>4, <1>6 DEF SameButForLines
<1>9. EndsAlike(old, new, h, t)
  BY <1>7, <1>8 DEF EndsAlike, n, m
<1> QED BY <1>9 DEF h, t

\* What the shift makes of the child at a place.
AsShifted(child, j, shift) ==
  IF shift = NoShift \/ j < shift.from THEN child
  ELSE [child EXCEPT !.lines =
          [n \in DOMAIN @ |-> IF @[n] > 0 THEN @[n] + shift.delta ELSE @[n]]]

\* The place in the new page of a block that stays.
LEMMA StayingOne ==
  ASSUME NEW old \in Seq(Blocks), NEW new \in Seq(Blocks), NEW h, NEW t,
         EndsAlike(old, new, h, t), NEW j \in Survivors(old, h, t)
  PROVE  /\ j \in 1..Len(old) /\ Now(j, old, new, h) \in 1..Len(new)
         /\ old[j].look = new[Now(j, old, new, h)].look
<1> DEFINE n == Len(old)
           m == Len(new)
<1>1. n \in Nat /\ m \in Nat /\ h \in Nat /\ t \in Nat /\ h + t <= n /\ h + t <= m
  BY LenProperties DEF EndsAlike
<1>2. j \in 1..h \/ j \in (n - t + 1)..n
  BY DEF Survivors
<1> HIDE DEF n, m
<1>3. CASE j \in 1..h
  <2>1. j <= h /\ j \in 1..n /\ j \in 1..m
    BY <1>1, <1>3
  <2> QED BY <1>3, <2>1 DEF Now, EndsAlike, n, m
<1>4. CASE j \in (n - t + 1)..n
  <2>1. /\ j \in 1..n /\ ~ (j <= h) /\ j + m - n \in 1..m
        /\ n - j \in 0..(t - 1) /\ n - (n - j) = j /\ m - (n - j) = j + m - n
    BY <1>1, <1>4
  <2>2. old[n - (n - j)].look = new[m - (n - j)].look
    BY <2>1 DEF EndsAlike, n, m
  <2> QED BY <2>1, <2>2 DEF Now, n, m
<1> QED BY <1>2, <1>3, <1>4

\* Lines that follow their block: moved as far as it, they are those of the other.
LEMMA FollowedLines ==
  ASSUME NEW a \in Blocks, NEW b \in Blocks, LinesFollow(a, b), NEW d \in Int,
         Line(a) = 0 \/ d = Line(b) - Line(a)
  PROVE  [n \in DOMAIN a.lines |-> IF a.lines[n] > 0 THEN a.lines[n] + d ELSE a.lines[n]] = b.lines
<1> DEFINE now == [n \in DOMAIN a.lines |-> IF a.lines[n] > 0 THEN a.lines[n] + d ELSE a.lines[n]]
<1>1. a.lines \in Seq(Nat) /\ b.lines \in Seq(Nat)
  BY DEF Blocks
<1>2. /\ DOMAIN a.lines = 1..Len(a.lines) /\ DOMAIN b.lines = 1..Len(b.lines)
      /\ Len(a.lines) = Len(b.lines)
      /\ \A n \in DOMAIN a.lines : a.lines[n] \in Nat /\ b.lines[n] \in Nat
      /\ b.lines = [n \in DOMAIN b.lines |-> b.lines[n]]
  BY <1>1, LenProperties, ElementOfSeq DEF LinesFollow
<1>3. Line(a) \in Nat /\ Line(b) \in Nat
  <2>1. a.lines # << >>
    BY DEF LinesFollow
  <2>2. Len(a.lines) \in Nat /\ Len(a.lines) # 0
    BY <1>1, <2>1, EmptySeq, LenProperties
  <2>3. 1 \in DOMAIN a.lines
    BY <1>2, <2>2
  <2> QED BY <1>2, <2>3 DEF Line
<1>4. ASSUME NEW n \in DOMAIN a.lines PROVE now[n] = b.lines[n]
  <2>1. CASE a.lines[n] = 0
    BY <2>1 DEF LinesFollow
  <2>2. CASE a.lines[n] # 0
    <3>1. b.lines[n] - a.lines[n] = Line(b) - Line(a) /\ Line(a) # 0
      BY <2>2 DEF LinesFollow
    <3>2. now[n] = a.lines[n] + d
      BY <1>2, <2>2
    <3> HIDE DEF now
    <3> QED BY <1>2, <1>3, <3>1, <3>2
  <2> QED BY <2>1, <2>2
<1>5. now = [n \in DOMAIN a.lines |-> now[n]]
  OBVIOUS
<1> HIDE DEF now
<1>6. now = b.lines
  BY <1>2, <1>4, <1>5
<1> QED BY <1>6 DEF now

\* The shift makes of a block that stays the one that takes its place.
LEMMA ShiftsToNew ==
  ASSUME NEW old \in Seq(Blocks), NEW new \in Seq(Blocks), NEW h, NEW t,
         EndsAlike(old, new, h, t),
         \A i \in DOMAIN old, j \in DOMAIN new :
           old[i].look = new[j].look => LinesFollow(old[i], new[j]),
         \A i \in Moved(old, new, h, t), j \in Survivors(old, h, t) :
           i < j => j \in Moved(old, new, h, t) \/ Line(old[j]) = 0,
         OneShift(old, new, h, Moved(old, new, h, t)),
         NEW j \in Survivors(old, h, t)
  PROVE  AsShifted(Child(old[j], 1), j, ShiftOf(old, new, h, Moved(old, new, h, t)))
           = Child(new[Now(j, old, new, h)], 1)
<1> DEFINE moved == Moved(old, new, h, t)
           k == Now(j, old, new, h)
           a == old[j]
           b == new[k]
           shift == ShiftOf(old, new, h, moved)
           d == Line(b) - Line(a)
<1>1. /\ j \in 1..Len(old) /\ k \in 1..Len(new) /\ a.look = b.look
      /\ DOMAIN old = 1..Len(old) /\ DOMAIN new = 1..Len(new)
  BY StayingOne, LenProperties
<1>2. a \in Blocks /\ b \in Blocks /\ LinesFollow(a, b)
  BY <1>1, ElementOfSeq
<1> HIDE DEF k
<1>3. /\ Line(a) \in Nat /\ Line(b) \in Nat /\ d \in Int
      /\ Line(a) = 0 => Line(b) = 0
  <2>1. /\ a.lines \in Seq(Nat) /\ b.lines \in Seq(Nat)
        /\ Len(a.lines) = Len(b.lines) /\ a.lines # << >>
    BY <1>2 DEF Blocks, LinesFollow
  <2>2. Len(a.lines) \in Nat \ {0} /\ DOMAIN a.lines = 1..Len(a.lines)
    BY <2>1, EmptySeq, LenProperties
  <2>3. 1 \in 1..Len(a.lines)
    BY <2>2
  <2>4. Line(a) \in Nat /\ Line(b) \in Nat
    BY <2>1, <2>3, ElementOfSeq DEF Line
  <2>5. Line(a) = 0 => Line(b) = 0
    BY <1>2, <2>2, <2>3 DEF LinesFollow, Line
  <2> QED BY <2>4, <2>5
<1> HIDE DEF a, b
<1>4. (j \in moved) <=> Line(a) # Line(b)
  BY DEF Moved, a, b, k
<1>5. moved \in SUBSET Nat /\ \A i \in moved : i \in 1..Len(old)
  <2>1. \A i \in moved : i \in Survivors(old, h, t)
    BY DEF Moved
  <2>2. \A i \in moved : i \in 1..Len(old)
    BY <2>1, StayingOne
  <2> QED BY <2>2
<1>6. /\ Child(a, 1) = [look |-> a.look, part |-> 1, lines |-> a.lines]
      /\ Child(b, 1) = [look |-> b.look, part |-> 1, lines |-> b.lines]
  BY DEF Child
<1>7. b.look = a.look
  BY <1>1 DEF a, b
<1>8. ASSUME Line(a) = Line(b) PROVE a.lines = b.lines
  <2>1. a.lines \in Seq(Nat)
    BY <1>2 DEF Blocks
  <2>2. /\ a.lines = [n \in DOMAIN a.lines |-> a.lines[n]]
        /\ \A n \in DOMAIN a.lines : a.lines[n] \in Nat
    BY <2>1, LenProperties, ElementOfSeq
  <2>3. 0 = Line(b) - Line(a) /\ 0 \in Int
    BY <1>3, <1>8
  <2>4. [n \in DOMAIN a.lines |-> IF a.lines[n] > 0 THEN a.lines[n] + 0 ELSE a.lines[n]] = b.lines
    BY <1>2, <2>3, FollowedLines
  <2>5. \A n \in DOMAIN a.lines :
          (IF a.lines[n] > 0 THEN a.lines[n] + 0 ELSE a.lines[n]) = a.lines[n]
    BY <2>2
  <2> QED BY <2>2, <2>4, <2>5
<1>9. CASE moved = {}
  <2>1. shift = NoShift /\ Line(a) = Line(b)
    BY <1>4, <1>9 DEF ShiftOf
  <2>2. AsShifted(Child(a, 1), j, shift) = Child(a, 1)
    BY <2>1 DEF AsShifted
  <2> QED BY <1>6, <1>7, <1>8, <2>1, <2>2 DEF a, b, k
<1>10. CASE moved # {}
  <2> DEFINE first == Min(moved)
             delta == Delta(first, old, new, h)
  <2> HIDE DEF moved
  <2>1. first \in moved /\ \A i \in moved : first =< i
    <3>1. \E x \in moved : \A y \in moved : x =< y
      BY <1>5, <1>10, NatLeast
    <3> QED BY <3>1 DEF Min
  <2> HIDE DEF first
  <2>2. shift.from = first /\ shift.delta = delta /\ first \in Nat \ {0} /\ shift # NoShift
    <3>1. shift = [from |-> first, delta |-> delta]
      BY <1>10 DEF ShiftOf, first
    <3>2. first \in 1..Len(old)
      BY <1>5, <2>1
    <3>3. first \in Nat \ {0}
      BY <1>5, <2>1, <3>2
    <3> QED BY <3>1, <3>3 DEF NoShift
  <2> HIDE DEF shift, delta
  <2>3. CASE j < first
    <3>1. j \notin moved
      BY <1>1, <1>5, <2>1, <2>2, <2>3
    <3>2. AsShifted(Child(a, 1), j, shift) = Child(a, 1)
      BY <2>2, <2>3 DEF AsShifted
    <3> QED BY <1>4, <1>6, <1>7, <1>8, <3>1, <3>2 DEF a, b, k, moved, shift
  <2>4. CASE ~ (j < first)
    <3>1. j \in moved \/ Line(a) = 0
      <4>1. j = first \/ first < j
        BY <1>1, <2>2, <2>4
      <4> QED BY <2>1, <4>1 DEF moved, a
    <3>2. delta \in Int /\ (Line(a) = 0 \/ delta = Line(b) - Line(a))
      <4>1. delta \in Int
        <5>1. first \in Survivors(old, h, t)
          BY <2>1 DEF moved, Moved
        <5> DEFINE f == Now(first, old, new, h)
        <5>2. first \in DOMAIN old /\ f \in DOMAIN new /\ old[first].look = new[f].look
          BY <1>1, <5>1, StayingOne
        <5>3. /\ old[first] \in Blocks /\ new[f] \in Blocks
              /\ LinesFollow(old[first], new[f])
          BY <1>1, <5>2, ElementOfSeq
        <5> HIDE DEF f
        <5> DEFINE p == old[first]
                   q == new[f]
        <5> HIDE DEF p, q
        <5>4. /\ p.lines \in Seq(Nat) /\ q.lines \in Seq(Nat)
              /\ Len(p.lines) = Len(q.lines) /\ p.lines # << >>
          BY <5>3 DEF Blocks, LinesFollow, p, q
        <5>5. Len(p.lines) \in Nat \ {0}
          BY <5>4, EmptySeq, LenProperties
        <5>6. 1 \in 1..Len(p.lines)
          BY <5>5
        <5>7. Line(p) \in Nat /\ Line(q) \in Nat
          BY <5>4, <5>6, ElementOfSeq DEF Line
        <5>8. delta = Line(q) - Line(p)
          BY DEF delta, Delta, f, p, q
        <5> QED BY <5>7, <5>8
      <4>2. ASSUME j \in moved PROVE delta = Line(b) - Line(a)
        <5>1. Delta(first, old, new, h) = Delta(j, old, new, h)
          BY <2>1, <4>2 DEF OneShift, moved
        <5> QED BY <5>1 DEF delta, Delta, a, b, k
      <4> QED BY <3>1, <4>1, <4>2
    <3>3. [n \in DOMAIN a.lines |-> IF a.lines[n] > 0 THEN a.lines[n] + delta ELSE a.lines[n]]
            = b.lines
      BY <1>2, <3>2, FollowedLines
    <3>4. AsShifted(Child(a, 1), j, shift)
            = [Child(a, 1) EXCEPT !.lines =
                 [n \in DOMAIN a.lines |->
                    IF a.lines[n] > 0 THEN a.lines[n] + delta ELSE a.lines[n]]]
      <4> DEFINE c == Child(a, 1)
      <4>1. c.lines = a.lines /\ c = [look |-> a.look, part |-> 1, lines |-> c.lines]
        BY <1>6
      <4> HIDE DEF c
      <4>2. ~ (shift = NoShift \/ j < shift.from)
        BY <2>2, <2>4
      <4>3. AsShifted(c, j, shift)
              = [c EXCEPT !.lines =
                   [n \in DOMAIN c.lines |->
                      IF c.lines[n] > 0 THEN c.lines[n] + shift.delta ELSE c.lines[n]]]
        BY <4>1, <4>2 DEF AsShifted
      <4> QED BY <2>2, <4>1, <4>3 DEF c
    <3>5. AsShifted(Child(a, 1), j, shift) = Child(b, 1)
      BY <1>6, <1>7, <3>3, <3>4
    <3> QED BY <3>5 DEF a, b, k, moved, shift
  <2> QED BY <2>3, <2>4
<1> QED BY <1>9, <1>10

\* The shift is right for every block that stays.
ShiftsRight(old, new, h, t, shift) ==
  \A j \in Survivors(old, h, t) :
    AsShifted(Child(old[j], 1), j, shift) = Child(new[Now(j, old, new, h)], 1)

\* Three sequences, one after the other.
LEMMA ThreeParts ==
  ASSUME NEW V, NEW a \in Seq(V), NEW b \in Seq(V), NEW c \in Seq(V)
  PROVE  /\ a \o b \o c \in Seq(V) /\ Len(a \o b \o c) = Len(a) + Len(b) + Len(c)
         /\ \A i \in 1..Len(a \o b \o c) :
              (a \o b \o c)[i] = IF i <= Len(a) THEN a[i]
                                 ELSE IF i <= Len(a) + Len(b) THEN b[i - Len(a)]
                                 ELSE c[i - (Len(a) + Len(b))]
<1> DEFINE ab == a \o b
<1>1. Len(a) \in Nat /\ Len(b) \in Nat /\ Len(c) \in Nat
  BY LenProperties
<1>2. /\ ab \in Seq(V) /\ Len(ab) = Len(a) + Len(b)
      /\ \A i \in 1..(Len(a) + Len(b)) : ab[i] = IF i <= Len(a) THEN a[i] ELSE b[i - Len(a)]
  BY ConcatProperties
<1> HIDE DEF ab
<1>3. /\ ab \o c \in Seq(V) /\ Len(ab \o c) = Len(ab) + Len(c)
      /\ \A i \in 1..(Len(ab) + Len(c)) :
           (ab \o c)[i] = IF i <= Len(ab) THEN ab[i] ELSE c[i - Len(ab)]
  <2>1. ab \in Seq(V)
    BY <1>2
  <2> QED BY <2>1, ConcatProperties
<1>4. ASSUME NEW i \in 1..Len(ab \o c)
      PROVE  (ab \o c)[i] = IF i <= Len(a) THEN a[i]
                           ELSE IF i <= Len(a) + Len(b) THEN b[i - Len(a)]
                           ELSE c[i - (Len(a) + Len(b))]
  <2>1. CASE i <= Len(a) + Len(b)
    BY <1>1, <1>2, <1>3, <2>1
  <2>2. CASE ~ (i <= Len(a) + Len(b))
    BY <1>1, <1>2, <1>3, <2>2
  <2> QED BY <2>1, <2>2
<1> QED BY <1>2, <1>3, <1>4 DEF ab

\* Of blocks none is left over: a page that comes out as long as the document has one element
\* for each.
LEMMA NoneToSpare ==
  ASSUME NEW n \in Nat, NEW m \in Nat, NEW h \in Nat, NEW t \in Nat, NEW k \in Nat, NEW l \in Nat,
         k >= m - t - h, l >= n, h + k + (l - (n - t)) = m
  PROVE  l = n /\ k = m - t - h
OBVIOUS

\* What a page comes to by a patch that leaves it as many elements as the document has
\* blocks: the page of that document.
LEMMA PatchIsExact ==
  ASSUME EachShows, NEW old \in Seq(Blocks), NEW new \in Seq(Blocks), NEW h, NEW t,
         EndsAlike(old, new, h, t),
         NEW shift,
         ShiftsRight(old, new, h, t, shift),
         NEW splice,
         splice.from = h, splice.del = Len(old) - h - t, splice.shift = shift,
         splice.blocks = SubSeq(new, h + 1, Len(new) - t),
         Len(SplicedBlocks(Children(old), splice)) = Len(new)
  PROVE  SplicedBlocks(Children(old), splice) = Children(new)
<1> DEFINE n == Len(old)
           m == Len(new)
           kept == SubSeq(new, h + 1, m - t)
           was == Children(old)
           c == Children(kept)
           now == ShiftLines(was, shift)
           first == SubSeq(now, 1, h)
           last == SubSeq(now, n - t + 1, Len(was))
           made == SplicedBlocks(was, splice)
<1>1. n \in Nat /\ m \in Nat /\ h \in Nat /\ t \in Nat /\ h + t <= n /\ h + t <= m
  BY LenProperties DEF EndsAlike
<1>2. made = first \o c \o last
  <2>1. h + (n - h - t) + 1 = n - t + 1
    BY <1>1
  <2> QED BY <2>1 DEF SplicedBlocks
<1> HIDE DEF n, m
<1>12. Len(made) = m
  BY DEF m
<1>3. /\ kept \in Seq(Blocks) /\ Len(kept) = m - t - h
      /\ \A i \in 1..(m - t - h) : kept[i] = new[h + i]
  <2>1. /\ h + 1 \in Int /\ m - t \in Int
        /\ \A i \in (h + 1)..(m - t) : new[i] \in Blocks
    <3>1. \A i \in (h + 1)..(m - t) : i \in 1..m
      BY <1>1
    <3>2. \A i \in 1..m : new[i] \in Blocks
      BY ElementOfSeq DEF m
    <3> QED BY <1>1, <3>1, <3>2
  <2>2. /\ kept \in Seq(Blocks)
        /\ Len(kept) = IF h + 1 <= m - t THEN (m - t) - (h + 1) + 1 ELSE 0
        /\ \A i \in 1..((m - t) - (h + 1) + 1) : kept[i] = new[(h + 1) + i - 1]
    BY <2>1, SubSeqProperties
  <2>3. /\ (IF h + 1 <= m - t THEN (m - t) - (h + 1) + 1 ELSE 0) = m - t - h
        /\ (m - t) - (h + 1) + 1 = m - t - h
        /\ \A i \in 1..(m - t - h) : (h + 1) + i - 1 = h + i
    BY <1>1
  <2> QED BY <2>2, <2>3
<1>4. /\ was \in Seq(Kids) /\ Len(was) \in Nat /\ Len(was) >= n
      /\ Len(was) = n => AllOnes(old)
      /\ AllOnes(old) => OneEach(was, old)
  BY ChildrenCount, LenProperties DEF n
<1>5. /\ c \in Seq(Kids) /\ Len(c) \in Nat /\ Len(c) >= Len(kept)
      /\ Len(c) = Len(kept) => AllOnes(kept)
      /\ AllOnes(kept) => OneEach(c, kept)
  <2> HIDE DEF kept
  <2> QED BY <1>3, ChildrenCount, LenProperties
<1> DEFINE Those == {now[i] : i \in 1..Len(was)} \cup Kids
<1> HIDE DEF kept, was, c, made
<1>6. /\ now \in Seq(Those) /\ Len(now) = Len(was)
      /\ \A i \in 1..Len(was) : now[i] = AsShifted(was[i], i, shift)
  <2>1. now = [i \in 1..Len(was) |-> AsShifted(was[i], i, shift)]
    BY DEF ShiftLines, AsShifted
  <2> HIDE DEF now
  <2>2. now = [i \in 1..Len(was) |-> now[i]]
    BY <2>1
  <2>3. now \in [1..Len(was) -> Those]
    BY <2>2
  <2> HIDE DEF Those
  <2>4. now \in Seq(Those)
    BY <1>4, <2>3, SeqDef
  <2> QED BY <1>4, <2>1, <2>3, <2>4, LenProperties
<1>7. Kids \subseteq Those
  OBVIOUS
<1> HIDE DEF now, Those
<1>8. \A i \in 1..Len(was) : now[i] \in Those
  BY <1>6, ElementOfSeq
<1>9. /\ first \in Seq(Those) /\ Len(first) = h
      /\ \A i \in 1..h : first[i] = now[i]
  <2>1. 1 \in Int /\ h \in Int /\ \A i \in 1..h : now[i] \in Those
    BY <1>1, <1>4, <1>8
  <2>2. /\ first \in Seq(Those) /\ Len(first) = IF 1 <= h THEN h - 1 + 1 ELSE 0
        /\ \A i \in 1..(h - 1 + 1) : first[i] = now[1 + i - 1]
    BY <2>1, SubSeqProperties
  <2>3. /\ (IF 1 <= h THEN h - 1 + 1 ELSE 0) = h /\ h - 1 + 1 = h
        /\ \A i \in 1..h : 1 + i - 1 = i
    BY <1>1
  <2> QED BY <2>2, <2>3
<1> DEFINE l == Len(was)
<1> HIDE DEF l
<1>10. /\ last \in Seq(Those) /\ Len(last) = l - (n - t)
       /\ \A i \in 1..(l - (n - t)) : last[i] = now[n - t + i]
  <2>1. n - t + 1 \in Int /\ l \in Int /\ \A i \in (n - t + 1)..l : now[i] \in Those
    BY <1>1, <1>4, <1>8 DEF l
  <2>2. /\ SubSeq(now, n - t + 1, l) \in Seq(Those)
        /\ Len(SubSeq(now, n - t + 1, l)) = IF n - t + 1 <= l THEN l - (n - t + 1) + 1 ELSE 0
        /\ \A i \in 1..(l - (n - t + 1) + 1) :
             SubSeq(now, n - t + 1, l)[i] = now[(n - t + 1) + i - 1]
    BY <2>1, SubSeqProperties
  <2>3. /\ (IF n - t + 1 <= l THEN l - (n - t + 1) + 1 ELSE 0) = l - (n - t)
        /\ l - (n - t + 1) + 1 = l - (n - t)
        /\ \A i \in 1..(l - (n - t)) : (n - t + 1) + i - 1 = n - t + i
    BY <1>1, <1>4 DEF l
  <2> QED BY <2>2, <2>3 DEF l
<1> HIDE DEF first, last
<1>11. /\ c \in Seq(Those)
       /\ made \in Seq(Those) /\ Len(made) = h + Len(c) + (l - (n - t))
       /\ \A i \in 1..Len(made) :
            made[i] = IF i <= h THEN first[i]
                      ELSE IF i <= h + Len(c) THEN c[i - h] ELSE last[i - (h + Len(c))]
  <2>1. c \in Seq(Those)
    BY <1>5, <1>7, SeqOfMore
  <2>2. made = first \o c \o last
    BY <1>2
  <2>3. first \in Seq(Those) /\ last \in Seq(Those)
    BY <1>9, <1>10
  <2>4. /\ made \in Seq(Those) /\ Len(made) = Len(first) + Len(c) + Len(last)
        /\ \A i \in 1..Len(made) :
             made[i] = IF i <= Len(first) THEN first[i]
                       ELSE IF i <= Len(first) + Len(c) THEN c[i - Len(first)]
                       ELSE last[i - (Len(first) + Len(c))]
    BY <2>1, <2>2, <2>3, ThreeParts
  <2>5. Len(first) = h /\ Len(last) = l - (n - t)
    BY <1>9, <1>10
  <2> QED BY <2>1, <2>4, <2>5
<1>13. l = n /\ Len(c) = m - t - h
  BY <1>1, <1>3, <1>4, <1>5, <1>11, <1>12, NoneToSpare DEF l
<1>14. /\ AllOnes(old) /\ OneEach(was, old)
       /\ AllOnes(kept) /\ OneEach(c, kept)
  BY <1>3, <1>4, <1>5, <1>13 DEF l
<1>15. ASSUME NEW i \in 1..m
       PROVE  \/ i \in 1..h /\ i \in Survivors(old, h, t) /\ Now(i, old, new, h) = i
              \/ i - h \in 1..(m - t - h) /\ ~ (i <= h) /\ i <= m - t /\ h + (i - h) = i
              \/ /\ i + n - m \in (n - t + 1)..n /\ i + n - m \in Survivors(old, h, t)
                 /\ Now(i + n - m, old, new, h) = i
                 /\ ~ (i <= h) /\ ~ (i <= m - t)
                 /\ i - (m - t) \in 1..t /\ n - t + (i - (m - t)) = i + n - m
  <2>1. CASE i <= h
    BY <1>1, <2>1 DEF Survivors, Now
  <2>2. CASE ~ (i <= h) /\ i <= m - t
    BY <1>1, <2>2
  <2>3. CASE ~ (i <= m - t)
    <3>1. /\ i + n - m \in (n - t + 1)..n /\ ~ (i <= h) /\ ~ (i + n - m <= h)
          /\ i - (m - t) \in 1..t /\ n - t + (i - (m - t)) = i + n - m
          /\ i + n - m + m - n = i
      BY <1>1, <2>3
    <3> QED BY <2>3, <3>1 DEF Survivors, Now, n, m
  <2> QED BY <2>1, <2>2, <2>3
<1>16. \A j \in Survivors(old, h, t) : j \in 1..n /\ old[j].look = new[Now(j, old, new, h)].look
  BY StayingOne DEF n
<1>17. ASSUME NEW j \in Survivors(old, h, t) PROVE now[j] = Child(new[Now(j, old, new, h)], 1)
  <2>1. j \in 1..Len(was) /\ was[j] = Child(old[j], 1)
    BY <1>13, <1>14, <1>16 DEF OneEach, l, n
  <2> QED BY <1>6, <2>1 DEF ShiftsRight
<1>18. AllOnes(new)
  <2> SUFFICES ASSUME NEW i \in 1..m PROVE Elements[new[i].look] = 1
    BY DEF AllOnes, m
  <2>1. CASE i \in Survivors(old, h, t) /\ Now(i, old, new, h) = i
    BY <1>14, <1>16, <2>1 DEF AllOnes, n
  <2>2. CASE i - h \in 1..(m - t - h) /\ h + (i - h) = i
    <3>1. kept[i - h] = new[i] /\ i - h \in 1..Len(kept)
      BY <1>3, <2>2
    <3> QED BY <1>14, <3>1 DEF AllOnes
  <2>3. CASE i + n - m \in Survivors(old, h, t) /\ Now(i + n - m, old, new, h) = i
    BY <1>14, <1>16, <2>3 DEF AllOnes, n
  <2> QED BY <1>15, <2>1, <2>2, <2>3
<1>19. Children(new) \in Seq(Kids) /\ OneEach(Children(new), new)
  BY <1>18, ChildrenCount
<1>20. ASSUME NEW i \in 1..m PROVE made[i] = Child(new[i], 1)
  <2>1. i \in 1..Len(made) /\ h + Len(c) = m - t
    BY <1>1, <1>12, <1>13
  <2>2. CASE i \in 1..h /\ i \in Survivors(old, h, t) /\ Now(i, old, new, h) = i
    <3>1. made[i] = now[i]
      BY <1>9, <1>11, <2>1, <2>2
    <3> QED BY <1>17, <2>2, <3>1
  <2>3. CASE i - h \in 1..(m - t - h) /\ ~ (i <= h) /\ i <= m - t /\ h + (i - h) = i
    <3>1. made[i] = c[i - h]
      BY <1>11, <2>1, <2>3
    <3>2. c[i - h] = Child(kept[i - h], 1) /\ kept[i - h] = new[i]
      BY <1>3, <1>14, <2>3 DEF OneEach
    <3> QED BY <3>1, <3>2
  <2>4. CASE /\ i + n - m \in Survivors(old, h, t) /\ Now(i + n - m, old, new, h) = i
             /\ ~ (i <= h) /\ ~ (i <= m - t)
             /\ i - (m - t) \in 1..t /\ n - t + (i - (m - t)) = i + n - m
    <3>1. made[i] = last[i - (m - t)]
      BY <1>11, <2>1, <2>4
    <3>2. l - (n - t) = t
      BY <1>1, <1>13
    <3>3. last[i - (m - t)] = now[i + n - m]
      BY <1>10, <2>4, <3>2
    <3> QED BY <1>17, <2>4, <3>1, <3>3
  <2> QED BY <1>15, <2>2, <2>3, <2>4
<1>21. made = Children(new)
  <2> DEFINE kids == Children(new)
  <2>1. /\ kids = [i \in 1..Len(kids) |-> kids[i]] /\ made = [i \in 1..Len(made) |-> made[i]]
    <3>1. kids \in [1..Len(kids) -> Kids] /\ made \in [1..Len(made) -> Those]
      BY <1>11, <1>19, LenProperties
    <3> HIDE DEF kids
    <3> QED BY <3>1
  <2>2. Len(kids) = m /\ \A i \in 1..m : kids[i] = Child(new[i], 1)
    BY <1>19 DEF OneEach, m
  <2> HIDE DEF kids
  <2>3. kids = made
    BY <1>12, <1>20, <2>1, <2>2
  <2> QED BY <2>3 DEF kids
<1> QED BY <1>21 DEF made, was

\* Where the blocks of every two pages move as one, patches are exact.
LEMMA MovingAsOne ==
  ASSUME BlocksMoveAsOne
  PROVE  PatchesAreExact
<1> SUFFICES ASSUME NEW doc \in StreamDocs, NEW next \in StreamDocs,
                    ~ SpliceBlocks(Page[doc], Page[next]).whole,
                    Len(SplicedBlocks(Children(Page[doc].blocks),
                                      SpliceBlocks(Page[doc], Page[next])))
                      = Len(Page[next].blocks)
             PROVE  SplicedBlocks(Children(Page[doc].blocks),
                                  SpliceBlocks(Page[doc], Page[next]))
                      = Children(Page[next].blocks)
  BY DEF PatchesAreExact
<1> DEFINE old == Page[doc].blocks
           new == Page[next].blocks
           h == SameHead(old, new)
           t == SameTail(old, new, h)
           moved == Moved(old, new, h, t)
           shift == ShiftOf(old, new, h, moved)
           splice == SpliceBlocks(Page[doc], Page[next])
           good == [from |-> h, del |-> Len(old) - h - t,
                    blocks |-> SubSeq(new, h + 1, Len(new) - t), shift |-> shift,
                    whole |-> FALSE]
<1>1. EachShows /\ old \in Seq(Blocks) /\ new \in Seq(Blocks)
  BY StreamAssumption DEF BlocksMoveAsOne, EachShows, Blocks
<1>2. OneShift(old, new, h, moved) /\ splice = good
  <2>1. NoSplice.whole = TRUE
    BY DEF NoSplice
  <2> QED BY <2>1 DEF SpliceBlocks
<1>3. /\ \A i \in DOMAIN old, j \in DOMAIN new :
           old[i].look = new[j].look => LinesFollow(old[i], new[j])
      /\ \A i \in moved, j \in Survivors(old, h, t) : i < j => j \in moved \/ Line(old[j]) = 0
  BY DEF BlocksMoveAsOne, MoveTogether
<1>4. Len(SplicedBlocks(Children(old), splice)) = Len(new)
  OBVIOUS
<1> HIDE DEF old, new, splice
<1>5. EndsAlike(old, new, h, t)
  BY <1>1, HeadAndTail
<1> HIDE DEF h, t
<1>6. ShiftsRight(old, new, h, t, shift)
  BY <1>1, <1>2, <1>3, <1>5, ShiftsToNew DEF ShiftsRight
<1> HIDE DEF shift
<1>7. /\ splice.from = h /\ splice.del = Len(old) - h - t /\ splice.shift = shift
      /\ splice.blocks = SubSeq(new, h + 1, Len(new) - t)
  BY <1>2
<1>8. SplicedBlocks(Children(old), splice) = Children(new)
  BY <1>1, <1>4, <1>5, <1>6, <1>7, PatchIsExact
<1> QED BY <1>8 DEF old, new, splice

\* A server and its pages implement a mirror wherever, between any two pages, the blocks
\* that stay move as one and the lines within a block move with it. block_patch() looks
\* for the first of these in the blocks that did move, and for the second not at all
\* (block_patch() of serve.rs, applyPatch() and shiftLines() of preview.js).
THEOREM StreamMirrorsWhatMovesAsOne == BlocksMoveAsOne => (StreamSpec => MirrorsTheEditor)
BY MovingAsOne, StreamIsAMirror
=============================================================================
