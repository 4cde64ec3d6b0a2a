---------------------------- MODULE PreviewProofs ----------------------------
(***************************************************************************)
(* Theorems about PreviewTable, for any buffers, any room for previews and *)
(* any budget.                                                             *)
(*                                                                         *)
(* No server is left running with nobody to stop it, because a server is   *)
(* known to one place at a time: the task that bound it, then the table,   *)
(* and none is in two (Known).                                             *)
(*                                                                         *)
(* A page goes back to an older text only by an update that was late for   *)
(* its number, because one that was not has the newest text there is with  *)
(* the greatest number there is, and what is shown is of the greatest      *)
(* number yet (Ordered), in whatever order tasks and renders run.          *)
(*                                                                         *)
(* The two tables agree when all is quiet because, while it is not, each   *)
(* buffer's opening is in one place - a call that is waiting, whose serve  *)
(* is in the pipe, or whose task is at work, or whose answer is coming -   *)
(* and what the editor holds is what the daemon shows, with what was sent  *)
(* last either with the daemon or under way to it (Agreed), where nothing  *)
(* is newer than what was sent last (Sent).                                *)
(*                                                                         *)
(* What the editor does is, for the daemon, only what it adds to the pipe  *)
(* (EditorSends).                                                          *)
(*                                                                         *)
(* And about Staging, for any pictures, whatever they weigh, and any limits:*)
(* what is pending in a stage is what is under way for it, the answers of a*)
(* stage that was closed count for nothing, and whoever waits is called once,*)
(* so a page is asked for once, and with its pictures (StagingInv).        *)
(***************************************************************************)
EXTENDS PreviewTable, Staging, SequenceLemmas

-----------------------------------------------------------------------------
(* What the variables hold.                                                *)

Holding == [server : Nat \ {0}, page : Nat, timer : BOOLEAN]
Preview == [server : Nat \ {0}, epoch : Nat \ {0}, issued : Nat, served : Nat,
            newest : Nat, astray : BOOLEAN]
UpdateOf(id) ==
  [id : {id}, buf : Bufs, text : Nat, epoch : Nat, seq : Nat, late : BOOLEAN]
Server  == [text : Nat, page : Nat, running : BOOLEAN]
Task    == [id : Nat, buf : Bufs, text : Nat, page : Nat, server : Nat]
Call    == [id : Nat, buf : Bufs]
Reply   == [id : Nat, buf : Bufs, server : Nat]

Serve   == [type : {"serve"}, buf : Bufs, id : Nat, text : Nat, page : Nat]
Updates == [type : {"serve_update"}, buf : Bufs, text : Nat]
Opts    == [type : {"serve_opts"}, buf : Bufs, page : Nat]
Stops   == [type : {"serve_stop"}, buf : Bufs]
StopAll == [type : {"serve_stop_all"}]
Request == Serve \union Updates \union Opts \union Stops \union StopAll

EditorTyped ==
  /\ text \in [Bufs -> Nat] /\ page \in Nat /\ serial \in Nat
  /\ exists \subseteq Bufs
  /\ held \in [Bufs -> {None} \union Holding]
  /\ opening \in [Bufs -> {"no", "wanted", "withdrawn"}]
  /\ last \in [Bufs -> [text : Nat, page : Nat]]
  /\ given \in BOOLEAN
  /\ calls \subseteq Call /\ answers \subseteq Reply
  /\ pipe \in Seq(Request)

DaemonTyped ==
  /\ starts \subseteq Task
  /\ \A u \in updates : u \in UpdateOf(u.id)
  /\ table \in [Bufs -> {None} \union Preview]
  /\ servers \in Seq(Server)

\* A server is in one place at most and runs there: in the table ...
Displayed ==
  \A b \in Bufs : table[b] # None =>
    /\ table[b].epoch = table[b].server
    /\ table[b].server \in 1..Len(servers) /\ servers[table[b].server].running
    /\ \A c \in Bufs : table[c] # None /\ table[c].server = table[b].server => c = b

\* ... or with the task that bound it.
Bound ==
  \A p \in starts : p.server # 0 =>
    /\ p.server \in 1..Len(servers) /\ servers[p.server].running
    /\ servers[p.server].text = p.text /\ servers[p.server].page = p.page
    /\ \A b \in Bufs : table[b] # None => table[b].server # p.server
    /\ \A q \in starts : q.server = p.server => q = p

\* An update is of a server that was in the table.
OfServers ==
  \A u \in updates :
    /\ u.epoch <= Len(servers)
    /\ \A p \in starts : u.epoch # 0 => p.server # u.epoch

Accounted ==
  \A s \in 1..Len(servers) : servers[s].running =>
    \/ \E b \in Bufs : table[b] # None /\ table[b].server = s
    \/ \E p \in starts : p.server = s

Known == Displayed /\ Bound /\ OfServers /\ Accounted

\* An update that has its number holds the newest text there was, or was late, ...
NewestKept ==
  \A b \in Bufs : table[b] # None =>
    LET t == table[b]
        shows == servers[t.server].text
    IN  /\ t.served <= t.issued /\ shows <= t.newest
        /\ t.served = t.issued /\ ~ t.astray => shows = t.newest
        /\ t.served # t.issued =>
             \E u \in updates : u.buf = b /\ u.epoch = t.epoch /\ u.seq = t.issued

NumbersRise ==
  \A u \in updates : table[u.buf] # None /\ u.epoch = table[u.buf].epoch =>
    LET t == table[u.buf]
    IN  /\ u.seq <= t.issued /\ u.text <= t.newest
        /\ u.seq = t.issued /\ ~ t.astray => u.text = t.newest
        /\ u.seq > t.served /\ ~ u.late => servers[t.server].text <= u.text

\* ... and of two updates of one preview the one of the greater number is no older,
\* unless it was late.
NumbersAgree ==
  \A u, v \in updates :
    u.epoch # 0 /\ v.epoch = u.epoch /\ v.buf = u.buf /\ v.seq < u.seq /\ ~ u.late
      => v.text <= u.text

Ordered == NewestKept /\ NumbersRise /\ NumbersAgree

Carries(r) == r.type \in {"serve", "serve_update"}

\* The texts of a buffer that the daemon has anything to do with, or is about to.
Texts(b) ==
  {p.text : p \in {p \in starts : p.buf = b}}
    \union {u.text : u \in {u \in updates : u.buf = b}}
    \union {table[c].newest : c \in {c \in {b} : table[c] # None}}
    \union {pipe[i].text : i \in {i \in 1..Len(pipe) : Carries(pipe[i]) /\ pipe[i].buf = b}}

\* None is newer than what was sent last.
Sent ==
  \A b \in Bufs : last[b].text <= text[b] /\ \A x \in Texts(b) : x <= last[b].text

Typed == EditorTyped /\ DaemonTyped
Inv   == Typed /\ Known /\ Ordered /\ Sent


-----------------------------------------------------------------------------
(* What the editor does, as the daemon sees it.                            *)

\* `more` goes into the pipe; a text in it is what was sent last of its buffer.
SendsMore(more) ==
  /\ more \in Seq(Request)
  /\ pipe' = pipe \o more
  /\ \A i \in 1..Len(more) : Carries(more[i]) => more[i].text = last'[more[i].buf].text

Sends == \E more : SendsMore(more)

LEMMA SendsNone ==
  ASSUME EditorTyped, pipe' = pipe
  PROVE  Sends
<1>1. << >> \in Seq(Request) /\ pipe \o << >> = pipe /\ Len(<< >>) = 0
  BY ConcatEmptySeq, EmptySeq DEF EditorTyped
<1>2. SendsMore(<< >>)
  BY <1>1 DEF SendsMore
<1> QED BY <1>2 DEF Sends

LEMMA SendsOne ==
  ASSUME EditorTyped, NEW r \in Request, pipe' = Append(pipe, r),
         Carries(r) => r.text = last'[r.buf].text
  PROVE  Sends
<1>1. pipe \in Seq(Request)
  BY DEF EditorTyped
<1>2. Append(pipe, r) = pipe \o << r >>
  BY <1>1, AppendIsConcat
<1>3. << r >> \in Seq(Request) /\ Len(<< r >>) = 1 /\ << r >>[1] = r
  OBVIOUS
<1>4. SendsMore(<< r >>)
  BY <1>2, <1>3 DEF SendsMore
<1> QED BY <1>4 DEF Sends

LEMMA StopIsSent ==
  ASSUME NEW b \in Bufs
  PROVE  StopOf(b) \in Request /\ ~ Carries(StopOf(b))
BY DEF StopOf, Request, Stops, Carries

LEMMA SendsStop ==
  ASSUME EditorTyped, NEW b \in Bufs, pipe' = Append(pipe, StopOf(b))
  PROVE  Sends
<1>1. StopOf(b) \in Request /\ ~ Carries(StopOf(b))
  BY StopIsSent
<1> HIDE DEF StopOf
<1> QED BY <1>1, SendsOne

\* Texts grow newer, and the newest is sent.
Patience ==
  /\ text' \in [Bufs -> Nat]
  /\ \A b \in Bufs : text[b] <= text'[b] /\ last'[b].text \in {last[b].text, text[b]}

\* One that is told of its options, in any order.
LEMMA SetOptionSends == EditorTyped /\ SetOption => Sends
<1> SUFFICES ASSUME EditorTyped, SetOption PROVE Sends
  OBVIOUS
<1> DEFINE Of(order) == [i \in DOMAIN order |->
                           [type |-> "serve_opts", buf |-> order[i], page |-> page']]
<1>1. PICK order \in [1..Cardinality(Told) -> Told] : pipe' = pipe \o Of(order)
  BY DEF SetOption
<1>2. Cardinality(Told) \in Nat
  BY PreviewAssumption, FS_Subset, FS_CardinalityType DEF Told
<1>3. page' \in Nat
  BY DEF EditorTyped, SetOption
<1> DEFINE more == Of(order)
<1>4. /\ DOMAIN more = 1..Cardinality(Told)
      /\ \A i \in 1..Cardinality(Told) : more[i] \in Opts
  BY <1>3 DEF Opts, Told
<1>5. \A i \in 1..Cardinality(Told) : more[i] \in Request /\ ~ Carries(more[i])
  BY <1>4 DEF Opts, Request, Carries
<1>6. more = [i \in 1..Cardinality(Told) |-> more[i]]
  BY <1>4
<1> HIDE DEF more
<1>7. more \in Seq(Request) /\ Len(more) = Cardinality(Told)
  BY <1>2, <1>4, <1>5, <1>6
<1>8. SendsMore(more)
  BY <1>1, <1>5, <1>7 DEF SendsMore, more
<1> QED BY <1>8 DEF Sends

LEMMA OfBufferSends ==
  ASSUME EditorTyped, NEW b \in Bufs,
         Open(b) \/ Close(b) \/ Wipe(b) \/ Edit(b) \/ Push(b)
  PROVE  Sends
<1>1. CASE Open(b)
  BY <1>1, SendsOne DEF Serve, EditorTyped, Open, Request
<1>2. CASE Close(b) \/ Wipe(b)
  BY <1>2, SendsNone, SendsStop DEF Close, Wipe, Discards
<1>3. CASE Edit(b)
  BY <1>3, SendsNone DEF Edit
<1>4. CASE Push(b)
  BY <1>4, SendsOne DEF Updates, EditorTyped, Push, Request
<1> QED BY <1>1, <1>2, <1>3, <1>4

EditorStep ==
  \/ \E b \in Bufs : Open(b) \/ Close(b) \/ Wipe(b) \/ Edit(b) \/ Push(b)
  \/ CloseAll
  \/ SetOption
  \/ \E a \in answers : Answer(a)
  \/ \E c \in calls : TimesOut(c)

LEMMA EditorSends ==
  ASSUME EditorTyped, EditorStep
  PROVE  Sends /\ Patience /\ UNCHANGED daemonVars
<1>1. Patience
  <2>1. text' = text \/ \E b \in Bufs : text' = [text EXCEPT ![b] = @ + 1]
    BY DEF EditorStep, Open, Close, Wipe, Edit, Push, CloseAll, SetOption, Answer, TimesOut
  <2>2. text \in [Bufs -> Nat] /\ last \in [Bufs -> [text : Nat, page : Nat]]
    BY DEF EditorTyped
  <2>3. ASSUME NEW b \in Bufs PROVE last'[b].text \in {last[b].text, text[b]}
    <3>1. CASE SetOption
      <4>1. \A n : [last[b] EXCEPT !.page = n].text = last[b].text
        BY <2>2
      <4> QED BY <3>1, <4>1 DEF SetOption
    <3>2. ASSUME NEW c \in Bufs, Open(c) \/ Close(c) \/ Wipe(c) \/ Edit(c) \/ Push(c)
          PROVE  last'[b].text \in {last[b].text, text[b]}
      <4>1. CASE last' = last
        BY <4>1
      <4>2. CASE Open(c)
        <5>1. last' = [last EXCEPT ![c] = [text |-> text[c], page |-> page]]
          BY <4>2 DEF Open
        <5> QED BY <2>2, <5>1
      <4>3. CASE Push(c)
        <5>1. last' = [last EXCEPT ![c].text = text[c]]
          BY <4>3 DEF Push
        <5> QED BY <2>2, <5>1
      <4>4. Close(c) \/ Wipe(c) \/ Edit(c) => last' = last
        BY DEF Close, Wipe, Edit
      <4> QED BY <3>2, <4>1, <4>2, <4>3, <4>4
    <3> QED BY <3>1, <3>2
            DEF EditorStep, CloseAll, Answer, Served, TimesOut, Unserved
  <2>4. \A b \in Bufs : text[b] <= text'[b]
    BY <2>1, <2>2
  <2> QED BY <2>1, <2>2, <2>3, <2>4 DEF Patience
<1>2. UNCHANGED daemonVars
  BY DEF EditorStep, Open, Close, Wipe, Edit, Push, CloseAll, SetOption, Answer, TimesOut
<1>3. ASSUME CloseAll PROVE Sends
  BY <1>3, SendsOne DEF Request, StopAll, Carries, CloseAll
<1>4. ASSUME NEW a \in answers, Answer(a) PROVE Sends
  BY <1>4, SendsNone, SendsStop DEF EditorTyped, Reply, Answer, Served, Unserved
<1>5. ASSUME NEW c \in calls, TimesOut(c) PROVE Sends
  BY <1>5, SendsStop DEF EditorTyped, Call, TimesOut, Unserved
<1> QED BY <1>1, <1>2, <1>3, <1>4, <1>5, OfBufferSends, SetOptionSends DEF EditorStep


-----------------------------------------------------------------------------
(* The variables hold what they are meant to.                              *)

LEMMA PipeTyped ==
  ASSUME EditorTyped, Sends
  PROVE  pipe' \in Seq(Request)
<1>1. PICK more : SendsMore(more)
  BY DEF Sends
<1> QED BY <1>1, ConcatProperties DEF SendsMore, EditorTyped

LEMMA HeldTyped ==
  ASSUME EditorTyped, EditorStep
  PROVE  held' \in [Bufs -> {None} \union Holding]
<1>1. held \in [Bufs -> {None} \union Holding] /\ page \in Nat
  BY DEF EditorTyped
<1>2. ASSUME NEW b \in Bufs, Open(b) \/ Close(b) \/ Wipe(b) \/ Edit(b) \/ Push(b)
      PROVE  held' \in [Bufs -> {None} \union Holding]
  <2>1. held[b] # None => [held[b] EXCEPT !.timer = TRUE] \in Holding
                          /\ [held[b] EXCEPT !.timer = FALSE] \in Holding
    BY <1>1 DEF Holding
  <2> QED BY <1>1, <1>2, <2>1 DEF Open, Close, Wipe, Edit, Push, Discards
<1>3. CASE SetOption
  BY <1>1, <1>3 DEF SetOption, Holding, Told
<1>4. ASSUME NEW a \in answers, Answer(a) PROVE held' \in [Bufs -> {None} \union Holding]
  <2>1. a.server \in Nat
    BY DEF EditorTyped, Reply
  <2>2. a.server # 0 => [server |-> a.server, page |-> page, timer |-> FALSE] \in Holding
    BY <1>1, <2>1 DEF Holding
  <2> QED BY <1>1, <1>4, <2>2 DEF Answer, Served, Unserved
<1> QED BY <1>1, <1>2, <1>3, <1>4 DEF EditorStep, CloseAll, TimesOut, Unserved

LEMMA LastTyped ==
  ASSUME EditorTyped, EditorStep
  PROVE  last' \in [Bufs -> [text : Nat, page : Nat]]
<1>1. last \in [Bufs -> [text : Nat, page : Nat]] /\ page \in Nat /\ text \in [Bufs -> Nat]
  BY DEF EditorTyped
<1>2. CASE SetOption
  <2>1. page' \in Nat
    BY <1>1, <1>2 DEF SetOption
  <2>2. \A b \in Bufs : [last[b] EXCEPT !.page = page'] \in [text : Nat, page : Nat]
    BY <1>1, <2>1
  <2> QED BY <1>1, <1>2, <2>2 DEF SetOption
<1>3. ASSUME NEW b \in Bufs, Open(b) \/ Close(b) \/ Wipe(b) \/ Edit(b) \/ Push(b)
      PROVE  last' \in [Bufs -> [text : Nat, page : Nat]]
  <2>1. /\ [last[b] EXCEPT !.text = text[b]] \in [text : Nat, page : Nat]
        /\ [text |-> text[b], page |-> page] \in [text : Nat, page : Nat]
    BY <1>1
  <2> QED BY <1>1, <1>3, <2>1 DEF Open, Close, Wipe, Edit, Push
<1> QED BY <1>1, <1>2, <1>3
        DEF EditorStep, CloseAll, Answer, Served, TimesOut, Unserved

LEMMA CallsTyped ==
  ASSUME EditorTyped, EditorStep
  PROVE  /\ page' \in Nat /\ serial' \in Nat /\ exists' \subseteq Bufs
         /\ opening' \in [Bufs -> {"no", "wanted", "withdrawn"}] /\ given' \in BOOLEAN
         /\ calls' \subseteq Call /\ answers' \subseteq Reply
<1>1. /\ page \in Nat /\ serial \in Nat /\ exists \subseteq Bufs
      /\ opening \in [Bufs -> {"no", "wanted", "withdrawn"}] /\ given \in BOOLEAN
      /\ calls \subseteq Call /\ answers \subseteq Reply
  BY DEF EditorTyped
<1>2. ASSUME NEW b \in Bufs, Open(b) PROVE [id |-> serial, buf |-> b] \in Call
  BY <1>1 DEF Call
<1>3. page' \in Nat /\ serial' \in Nat /\ exists' \subseteq Bufs /\ given' \in BOOLEAN
  <2>1. page' \in {page, page + 1} /\ serial' \in {serial, serial + 1} /\ exists' \subseteq exists
    BY DEF EditorStep, Open, Close, Wipe, Edit, Push, CloseAll, SetOption, Answer, TimesOut
  <2>2. given' \in {given, TRUE, given \/ calls # {}}
    BY DEF EditorStep, Open, Close, Wipe, Edit, Push, CloseAll, SetOption, Answer, TimesOut
  <2>3. given' \in BOOLEAN
    BY <1>1, <2>2
  <2> QED BY <1>1, <2>1, <2>3
<1>4. calls' \subseteq Call /\ answers' \subseteq Reply
  BY <1>1, <1>2
     DEF EditorStep, Open, Close, Wipe, Edit, Push, CloseAll, SetOption, Answer, TimesOut
<1>5. opening' \in [Bufs -> {"no", "wanted", "withdrawn"}]
  BY <1>1 DEF EditorStep, Open, Close, Wipe, Edit, Push, CloseAll, SetOption, Answer, TimesOut,
              Served, Unserved
<1> QED BY <1>3, <1>4, <1>5

LEMMA EditorTypedStep ==
  ASSUME EditorTyped, EditorStep
  PROVE  EditorTyped'
BY EditorSends, PipeTyped, HeldTyped, LastTyped, CallsTyped DEF EditorTyped, Patience


-----------------------------------------------------------------------------
(* What the daemon does.                                                   *)

LEMMA HaltedSpec ==
  ASSUME servers \in Seq(Server), NEW which
  PROVE  /\ Halted(which) \in Seq(Server) /\ Len(Halted(which)) = Len(servers)
         /\ \A s \in 1..Len(servers) :
              /\ Halted(which)[s].text = servers[s].text
              /\ Halted(which)[s].page = servers[s].page
              /\ Halted(which)[s].running <=> servers[s].running /\ s \notin which
<1>1. DOMAIN servers = 1..Len(servers) /\ Len(servers) \in Nat
      /\ \A s \in 1..Len(servers) : servers[s] \in Server
  BY LenProperties, ElementOfSeq
<1> DEFINE h == Halted(which)
<1>2. h = [s \in 1..Len(servers) |-> [servers[s] EXCEPT !.running = @ /\ s \notin which]]
  BY <1>1 DEF Halted
<1>3. \A s \in 1..Len(servers) :
        /\ h[s] \in Server
        /\ h[s].text = servers[s].text /\ h[s].page = servers[s].page
        /\ h[s].running <=> servers[s].running /\ s \notin which
  BY <1>1, <1>2 DEF Server
<1>4. h = [s \in 1..Len(servers) |-> h[s]]
  BY <1>2
<1> HIDE DEF h
<1>5. h \in Seq(Server) /\ Len(h) = Len(servers)
  BY <1>1, <1>3, <1>4
<1> QED BY <1>3, <1>5 DEF h

ReadsServe(r) ==
  /\ r \in Serve
  /\ starts' = starts \union {[id |-> r.id, buf |-> r.buf, text |-> r.text,
                               page |-> r.page, server |-> 0]}
  /\ UNCHANGED <<updates, table, servers>>

ReadsUpdate(r) ==
  /\ r \in Updates
  /\ updates' = updates \union {[id |-> Fresh(updates), buf |-> r.buf, text |-> r.text,
                                 epoch |-> 0, seq |-> 0, late |-> FALSE]}
  /\ UNCHANGED <<starts, table, servers>>

ReadsOpts(r) ==
  /\ r \in Opts
  /\ servers' = IF table[r.buf] = None THEN servers
                ELSE [servers EXCEPT ![table[r.buf].server].page = r.page]
  /\ UNCHANGED <<starts, updates, table>>

ReadsStop(r) ==
  /\ r \in Stops
  /\ table' = [table EXCEPT ![r.buf] = None]
  /\ servers' = Halted({table[r.buf].server})
  /\ UNCHANGED <<starts, updates>>

ReadsStopAll(r) ==
  /\ r \in StopAll
  /\ table' = [b \in Bufs |-> None]
  /\ servers' = Halted({table[b].server : b \in Bufs})
  /\ UNCHANGED <<starts, updates>>

LEMMA ReadsKinds ==
  ASSUME NEW r \in Request, Reads(r)
  PROVE  ReadsServe(r) \/ ReadsUpdate(r) \/ ReadsOpts(r) \/ ReadsStop(r) \/ ReadsStopAll(r)
<1> USE DEF Reads
<1>1. CASE r \in Serve
  BY <1>1 DEF Serve, ReadsServe
<1>2. CASE r \in Updates
  BY <1>2 DEF Updates, ReadsUpdate
<1>3. CASE r \in Opts
  BY <1>3 DEF Opts, ReadsOpts
<1>4. CASE r \in Stops
  BY <1>4 DEF Stops, ReadsStop
<1>5. CASE r \in StopAll
  BY <1>5 DEF StopAll, ReadsStopAll
<1> QED BY <1>1, <1>2, <1>3, <1>4, <1>5 DEF Request

LEMMA ReadSpec ==
  ASSUME EditorTyped, Read
  PROVE  /\ Head(pipe) \in Request /\ pipe' \in Seq(Request) /\ Len(pipe) \in Nat \ {0}
         /\ Len(pipe') = Len(pipe) - 1 /\ Head(pipe) = pipe[1]
         /\ \A i \in 1..Len(pipe') : pipe'[i] = pipe[i + 1]
         /\ \/ ReadsServe(Head(pipe)) \/ ReadsUpdate(Head(pipe)) \/ ReadsOpts(Head(pipe))
            \/ ReadsStop(Head(pipe)) \/ ReadsStopAll(Head(pipe))
<1>1. pipe \in Seq(Request) /\ pipe # << >> /\ pipe' = Tail(pipe) /\ Reads(Head(pipe))
  BY DEF EditorTyped, Read
<1>2. /\ Head(pipe) \in Request /\ pipe' \in Seq(Request)
      /\ Len(pipe') = Len(pipe) - 1
      /\ \A i \in 1..Len(pipe') : pipe'[i] = pipe[i + 1]
  BY <1>1, HeadTailProperties
<1>3. Len(pipe) \in Nat \ {0} /\ Head(pipe) = pipe[1]
  BY <1>1, EmptySeq
<1> QED BY <1>1, <1>2, <1>3, ReadsKinds

DaemonStep ==
  \/ Read
  \/ \E task \in starts : Bind(task) \/ BindFails(task) \/ Insert(task)
  \/ \E u \in updates : Number(u) \/ Show(u)

\* A server's page or text is another, or it is stopped; there are as many.
LEMMA SetOnServer ==
  ASSUME servers \in Seq(Server), NEW s \in 1..Len(servers), NEW x \in Nat
  PROVE  /\ [servers EXCEPT ![s].page = x] \in Seq(Server)
         /\ [servers EXCEPT ![s].text = x] \in Seq(Server)
         /\ Len([servers EXCEPT ![s].page = x]) = Len(servers)
         /\ Len([servers EXCEPT ![s].text = x]) = Len(servers)
         /\ \A r \in 1..Len(servers) :
              /\ [servers EXCEPT ![s].page = x][r] =
                   IF r = s THEN [servers[r] EXCEPT !.page = x] ELSE servers[r]
              /\ [servers EXCEPT ![s].text = x][r] =
                   IF r = s THEN [servers[r] EXCEPT !.text = x] ELSE servers[r]
<1>1. servers[s] \in Server
  BY ElementOfSeq
<1>2. [servers[s] EXCEPT !.page = x] \in Server /\ [servers[s] EXCEPT !.text = x] \in Server
  BY <1>1 DEF Server
<1>3. /\ [servers EXCEPT ![s].page = x] = [servers EXCEPT ![s] = [servers[s] EXCEPT !.page = x]]
      /\ [servers EXCEPT ![s].text = x] = [servers EXCEPT ![s] = [servers[s] EXCEPT !.text = x]]
  OBVIOUS
<1>4. /\ [servers EXCEPT ![s] = [servers[s] EXCEPT !.page = x]] \in Seq(Server)
      /\ Len([servers EXCEPT ![s] = [servers[s] EXCEPT !.page = x]]) = Len(servers)
      /\ \A r \in 1..Len(servers) : [servers EXCEPT ![s] = [servers[s] EXCEPT !.page = x]][r] =
                                  IF r = s THEN [servers[s] EXCEPT !.page = x] ELSE servers[r]
  BY <1>2, ExceptSeq
<1>5. /\ [servers EXCEPT ![s] = [servers[s] EXCEPT !.text = x]] \in Seq(Server)
      /\ Len([servers EXCEPT ![s] = [servers[s] EXCEPT !.text = x]]) = Len(servers)
      /\ \A r \in 1..Len(servers) : [servers EXCEPT ![s] = [servers[s] EXCEPT !.text = x]][r] =
                                  IF r = s THEN [servers[s] EXCEPT !.text = x] ELSE servers[r]
  BY <1>2, ExceptSeq
<1> QED BY <1>3, <1>4, <1>5


LEMMA TypedParts ==
  ASSUME DaemonTyped
  PROVE  /\ servers \in Seq(Server) /\ Len(servers) \in Nat
         /\ \A s \in 1..Len(servers) : servers[s] \in Server
         /\ \A b \in Bufs : table[b] # None =>
              table[b] \in Preview /\ table[b].server \in Nat \ {0} /\ table[b].epoch \in Nat \ {0}
              /\ table[b].issued \in Nat /\ table[b].served \in Nat
              /\ table[b].newest \in Nat /\ table[b].astray \in BOOLEAN
         /\ \A p \in starts : p \in Task /\ p.buf \in Bufs /\ p.text \in Nat /\ p.server \in Nat
         /\ \A u \in updates : u.buf \in Bufs /\ u.text \in Nat /\ u.epoch \in Nat /\ u.seq \in Nat
                               /\ u.late \in BOOLEAN
<1>1. /\ servers \in Seq(Server) /\ Len(servers) \in Nat
      /\ \A s \in 1..Len(servers) : servers[s] \in Server
  BY LenProperties, ElementOfSeq DEF DaemonTyped
<1>2. \A b \in Bufs : table[b] # None =>
         table[b] \in Preview /\ table[b].server \in Nat \ {0} /\ table[b].epoch \in Nat \ {0}
         /\ table[b].issued \in Nat /\ table[b].served \in Nat
         /\ table[b].newest \in Nat /\ table[b].astray \in BOOLEAN
  BY DEF DaemonTyped, Preview
<1>3. \A p \in starts : p \in Task /\ p.buf \in Bufs /\ p.text \in Nat /\ p.server \in Nat
  BY DEF DaemonTyped, Task
<1>4. \A u \in updates : u.buf \in Bufs /\ u.text \in Nat /\ u.epoch \in Nat /\ u.seq \in Nat
                         /\ u.late \in BOOLEAN
  BY DEF DaemonTyped, UpdateOf
<1> QED BY <1>1, <1>2, <1>3, <1>4

LEMMA ShowsNat ==
  ASSUME DaemonTyped, Known, NEW b \in Bufs, table[b] # None
  PROVE  servers[table[b].server].text \in Nat
BY TypedParts DEF Known, Displayed, Server

LEMMA NumberedSpec ==
  ASSUME DaemonTyped, NEW u \in updates, table[u.buf] # None
  PROVE  /\ WithNumber(u) \in UpdateOf(u.id) /\ Issuing(u) \in Preview /\ Issuing(u) # None
         /\ WithNumber(u).id = u.id /\ WithNumber(u).buf = u.buf /\ WithNumber(u).text = u.text
         /\ WithNumber(u).epoch = table[u.buf].epoch /\ WithNumber(u).seq = table[u.buf].issued + 1
         /\ WithNumber(u).late = Overtaken(u)
         /\ Issuing(u).server = table[u.buf].server /\ Issuing(u).epoch = table[u.buf].epoch
         /\ Issuing(u).issued = table[u.buf].issued + 1
         /\ Issuing(u).served = table[u.buf].served /\ Issuing(u).astray = Overtaken(u)
         /\ Issuing(u).newest = IF Overtaken(u) THEN table[u.buf].newest ELSE u.text
<1>1. /\ u \in UpdateOf(u.id) /\ u.buf \in Bufs /\ u.text \in Nat
      /\ table[u.buf] \in Preview /\ table[u.buf].epoch \in Nat
      /\ table[u.buf].issued \in Nat /\ table[u.buf].newest \in Nat
  BY TypedParts DEF DaemonTyped
<1>2. Overtaken(u) \in BOOLEAN
  BY <1>1 DEF Overtaken
<1>3. PICK o \in BOOLEAN : o = Overtaken(u)
  BY <1>2
<1>6. WithNumber(u) = [u EXCEPT !.epoch = table[u.buf].epoch, !.seq = table[u.buf].issued + 1,
                         !.late = o]
  BY <1>3 DEF WithNumber
<1>7. Issuing(u) = [table[u.buf] EXCEPT !.issued = table[u.buf].issued + 1, !.astray = o,
                      !.newest = IF o THEN table[u.buf].newest ELSE u.text]
  BY <1>3 DEF Issuing
<1>8. table[u.buf].issued + 1 \in Nat
      /\ (IF o THEN table[u.buf].newest ELSE u.text) \in Nat
  BY <1>1
<1>9. /\ WithNumber(u) \in UpdateOf(u.id)
      /\ WithNumber(u).id = u.id /\ WithNumber(u).buf = u.buf /\ WithNumber(u).text = u.text
      /\ WithNumber(u).epoch = table[u.buf].epoch /\ WithNumber(u).seq = table[u.buf].issued + 1
      /\ WithNumber(u).late = o
  <2> DEFINE e == table[u.buf].epoch
             n == table[u.buf].issued + 1
             v == [u EXCEPT !.epoch = e, !.seq = n, !.late = o]
  <2>1. e \in Nat /\ n \in Nat
    BY <1>1, <1>8
  <2> HIDE DEF e, n
  <2>2. /\ v \in UpdateOf(u.id) /\ v.id = u.id /\ v.buf = u.buf /\ v.text = u.text
        /\ v.epoch = e /\ v.seq = n /\ v.late = o
    BY <1>1, <2>1 DEF UpdateOf
  <2>3. WithNumber(u) = v
    BY <1>6 DEF e, n
  <2> HIDE DEF v
  <2> QED BY <2>2, <2>3 DEF e, n
<1>10. /\ Issuing(u) \in Preview
       /\ Issuing(u).server = table[u.buf].server /\ Issuing(u).epoch = table[u.buf].epoch
       /\ Issuing(u).issued = table[u.buf].issued + 1
       /\ Issuing(u).served = table[u.buf].served /\ Issuing(u).astray = o
       /\ Issuing(u).newest = IF o THEN table[u.buf].newest ELSE u.text
  <2> DEFINE t == table[u.buf]
             n == table[u.buf].issued + 1
             x == IF o THEN table[u.buf].newest ELSE u.text
             v == [t EXCEPT !.issued = n, !.astray = o, !.newest = x]
  <2>1. t \in Preview /\ n \in Nat /\ x \in Nat
    BY <1>1, <1>8
  <2> HIDE DEF t, n, x
  <2>2. /\ v \in Preview /\ v.server = t.server /\ v.epoch = t.epoch
        /\ v.issued = n /\ v.served = t.served /\ v.astray = o /\ v.newest = x
    BY <2>1 DEF Preview
  <2>3. Issuing(u) = v
    BY <1>7 DEF t, n, x
  <2> HIDE DEF v
  <2>4. x = IF o THEN table[u.buf].newest ELSE u.text
    BY DEF x
  <2> QED BY <2>2, <2>3, <2>4 DEF t, n
<1>11. Issuing(u) # None
  BY <1>10 DEF Preview, None
<1> QED BY <1>3, <1>9, <1>10, <1>11

LEMMA NumberSpec ==
  ASSUME NEW u \in updates, Number(u), table[u.buf] # None
  PROVE  /\ updates' = (updates \ {u}) \union {WithNumber(u)}
         /\ table' = [table EXCEPT ![u.buf] = Issuing(u)]
BY DEF Number

LEMMA DaemonTypedStep ==
  ASSUME EditorTyped, DaemonTyped, Known, DaemonStep
  PROVE  EditorTyped' /\ DaemonTyped'
<1>1. /\ starts \subseteq Task /\ table \in [Bufs -> {None} \union Preview]
      /\ servers \in Seq(Server)
      /\ \A u \in updates : u \in UpdateOf(u.id) /\ u.buf \in Bufs
  BY TypedParts DEF DaemonTyped
<1>2. CASE Read
  <2> DEFINE r == Head(pipe)
  <2>1. /\ pipe' \in Seq(Request)
        /\ ReadsServe(r) \/ ReadsUpdate(r) \/ ReadsOpts(r) \/ ReadsStop(r) \/ ReadsStopAll(r)
    BY <1>2, ReadSpec
  <2> HIDE DEF r
  <2>2. EditorTyped'
    BY <1>2, <2>1 DEF EditorTyped, Read, editorVars
  <2>3. CASE ReadsServe(r)
    BY <2>3, <1>1, <2>2 DEF ReadsServe, Serve, Task, DaemonTyped
  <2>4. CASE ReadsUpdate(r)
    <3>1. r.buf \in Bufs /\ r.text \in Nat
      BY <2>4 DEF ReadsUpdate, Updates
    <3>2. ASSUME NEW i
          PROVE  [id |-> i, buf |-> r.buf, text |-> r.text, epoch |-> 0, seq |-> 0,
                  late |-> FALSE] \in UpdateOf(i)
      BY <3>1 DEF UpdateOf
    <3> QED BY <2>4, <1>1, <2>2, <3>2 DEF ReadsUpdate, DaemonTyped
  <2>5. CASE ReadsOpts(r)
    BY <2>5, <1>1, SetOnServer, <2>2 DEF ReadsOpts, Opts, Known, Displayed, DaemonTyped
  <2>6. CASE ReadsStop(r)
    BY <1>1, <2>6, HaltedSpec, <2>2 DEF ReadsStop, DaemonTyped
  <2>7. CASE ReadsStopAll(r)
    BY <1>1, <2>7, HaltedSpec, <2>2 DEF ReadsStopAll, DaemonTyped
  <2> QED BY <2>1, <2>3, <2>4, <2>5, <2>6, <2>7
<1>3. ASSUME NEW task \in starts, Bind(task) PROVE EditorTyped' /\ DaemonTyped'
  <2> DEFINE new == [text |-> task.text, page |-> task.page, running |-> TRUE]
             now == [task EXCEPT !.server = Len(servers) + 1]
  <2>1. new \in Server /\ Len(servers) \in Nat
    BY <1>1, LenProperties DEF Task, Server
  <2>2. now \in Task
    BY <1>1, <2>1 DEF Task
  <2>3. servers' = Append(servers, new) /\ starts' = (starts \ {task}) \union {now}
        /\ UNCHANGED <<editorVars, pipe, answers, updates, table>>
    BY <1>3 DEF Bind
  <2> HIDE DEF new, now
  <2>4. servers' \in Seq(Server)
    BY <1>1, <2>1, <2>3, AppendProperties
  <2> QED BY <1>1, <2>2, <2>3, <2>4 DEF EditorTyped, editorVars, DaemonTyped
<1>4. ASSUME NEW task \in starts, BindFails(task) PROVE EditorTyped' /\ DaemonTyped'
  <2>1. [id |-> task.id, buf |-> task.buf, server |-> 0] \in Reply
    BY <1>1 DEF Task, Reply
  <2> QED BY <1>1, <1>4, <2>1 DEF BindFails, EditorTyped, editorVars, DaemonTyped
<1>5. ASSUME NEW task \in starts, Insert(task) PROVE EditorTyped' /\ DaemonTyped'
  <2> DEFINE full == Full(task.buf)
             new == [server |-> task.server, epoch |-> task.server, issued |-> 0, served |-> 0,
                     newest |-> task.text, astray |-> FALSE]
             reply == [id |-> task.id, buf |-> task.buf,
                       server |-> IF full THEN 0 ELSE task.server]
  <2>1. new \in Preview /\ reply \in Reply /\ task.buf \in Bufs
    BY <1>1, <1>5 DEF Insert, Task, Preview, Reply
  <2>2. /\ table' = IF full THEN table ELSE [table EXCEPT ![task.buf] = new]
        /\ answers' = answers \union {reply} /\ servers' = Halted({Loser(task)})
        /\ starts' = starts \ {task} /\ UNCHANGED <<editorVars, pipe, updates>>
    BY <1>5 DEF Insert
  <2> HIDE DEF new, reply, full
  <2>3. servers' \in Seq(Server)
    BY <1>1, <2>2, HaltedSpec
  <2> QED BY <1>1, <2>1, <2>2, <2>3 DEF EditorTyped, editorVars, DaemonTyped
<1>6. ASSUME NEW u \in updates, Number(u) PROVE EditorTyped' /\ DaemonTyped'
  <2>1. u.buf \in Bufs
    BY <1>1
  <2>2. CASE table[u.buf] = None
    BY <1>1, <1>6, <2>2 DEF Number, EditorTyped, editorVars, DaemonTyped
  <2>3. CASE table[u.buf] # None
    <3>1. Issuing(u) \in Preview /\ WithNumber(u) \in UpdateOf(WithNumber(u).id)
      BY <2>3, NumberedSpec
    <3>2. /\ updates' = (updates \ {u}) \union {WithNumber(u)} /\ table' = [table EXCEPT ![u.buf] = Issuing(u)]
          /\ UNCHANGED <<editorVars, pipe, answers, starts, servers>>
      BY <1>6, <2>3, NumberSpec DEF Number
    <3> QED BY <1>1, <3>1, <3>2 DEF EditorTyped, editorVars, DaemonTyped
  <2> QED BY <2>2, <2>3
<1>7. ASSUME NEW u \in updates, Show(u) PROVE EditorTyped' /\ DaemonTyped'
  <2>1. u.buf \in Bufs /\ u.text \in Nat /\ u.seq \in Nat
    BY TypedParts
  <2>2. CASE Newest(u)
    <3>1. table[u.buf] \in Preview /\ table[u.buf].server \in 1..Len(servers)
      BY <1>1, <2>1, <2>2 DEF Newest, Known, Displayed
    <3>2. [table[u.buf] EXCEPT !.served = u.seq] \in Preview
      BY <2>1, <3>1 DEF Preview
    <3>3. servers' \in Seq(Server)
      <4>1. [servers EXCEPT ![table[u.buf].server].text = u.text] \in Seq(Server)
        BY <1>1, <2>1, <3>1, SetOnServer
      <4> QED BY <1>7, <2>2, <4>1 DEF Show
    <3>4. /\ updates' = updates \ {u}
          /\ table' = [table EXCEPT ![u.buf] = [table[u.buf] EXCEPT !.served = u.seq]]
          /\ UNCHANGED <<editorVars, pipe, answers, starts>>
      BY <1>7, <2>2 DEF Show
    <3> QED BY <1>1, <3>2, <3>3, <3>4 DEF EditorTyped, editorVars, DaemonTyped
  <2>3. CASE ~ Newest(u)
    BY <1>1, <1>7, <2>3 DEF Show, EditorTyped, editorVars, DaemonTyped
  <2> QED BY <2>2, <2>3
<1> QED BY <1>2, <1>3, <1>4, <1>5, <1>6, <1>7 DEF DaemonStep


-----------------------------------------------------------------------------
(* Every server is known to one place.                                     *)

LEMMA ReadKnown ==
  ASSUME EditorTyped, DaemonTyped, Known, Read
  PROVE  Known'
<1> DEFINE r == Head(pipe)
<1>1. /\ servers \in Seq(Server) /\ Len(servers) \in Nat
      /\ \A b \in Bufs : table[b] # None => table[b].server \in Nat \ {0}
      /\ table \in [Bufs -> {None} \union Preview] /\ None.server = 0
  BY TypedParts DEF DaemonTyped, None
<1>2. ReadsServe(r) \/ ReadsUpdate(r) \/ ReadsOpts(r) \/ ReadsStop(r) \/ ReadsStopAll(r)
  BY ReadSpec
<1> HIDE DEF r
<1>3. CASE ReadsServe(r)
  BY <1>3 DEF ReadsServe, Known, Displayed, Bound, OfServers, Accounted
<1>4. CASE ReadsUpdate(r)
  BY <1>4, <1>1 DEF ReadsUpdate, Known, Displayed, Bound, OfServers, Accounted
<1>5. CASE ReadsOpts(r)
  <2>1. r.page \in Nat /\ r.buf \in Bufs /\ UNCHANGED <<starts, updates, table>>
    BY <1>5 DEF ReadsOpts, Opts
  <2>2. CASE table[r.buf] = None
    BY <1>5, <2>1, <2>2 DEF ReadsOpts, Known, Displayed, Bound, OfServers, Accounted
  <2>3. CASE table[r.buf] # None
    <3> DEFINE s == table[r.buf].server
    <3>1. s \in 1..Len(servers) /\ \A p \in starts : p.server # s
      BY <1>1, <2>1, <2>3 DEF Known, Displayed, Bound
    <3>2. servers' = [servers EXCEPT ![s].page = r.page]
      BY <1>5, <2>3 DEF ReadsOpts
    <3> HIDE DEF s
    <3>3. /\ Len(servers') = Len(servers)
          /\ \A i \in 1..Len(servers) :
               servers'[i] = IF i = s THEN [servers[i] EXCEPT !.page = r.page] ELSE servers[i]
      <4> DEFINE shown == r.page
      <4>1. servers \in Seq(Server) /\ s \in 1..Len(servers) /\ shown \in Nat
        BY <1>1, <2>1, <3>1
      <4> HIDE DEF shown
      <4>2. /\ Len([servers EXCEPT ![s].page = shown]) = Len(servers)
            /\ \A i \in 1..Len(servers) :
                 [servers EXCEPT ![s].page = shown][i] =
                   IF i = s THEN [servers[i] EXCEPT !.page = shown] ELSE servers[i]
        BY <4>1, SetOnServer
      <4> QED BY <3>2, <4>2 DEF shown
    <3>4. \A i \in 1..Len(servers) :
            /\ servers'[i].running <=> servers[i].running
            /\ i # s => servers'[i] = servers[i]
      BY <1>1, <3>3, TypedParts DEF Server
    <3>5. Bound'
      BY <2>1, <3>1, <3>3, <3>4 DEF Known, Bound
    <3> QED BY <2>1, <3>3, <3>4, <3>5 DEF Known, Displayed, OfServers, Accounted
  <2> QED BY <2>2, <2>3
<1>6. CASE ReadsStop(r)
  <2> DEFINE s == table[r.buf].server
  <2>1. /\ r.buf \in Bufs /\ UNCHANGED <<starts, updates>>
        /\ table' = [table EXCEPT ![r.buf] = None] /\ servers' = Halted({s})
    BY <1>6 DEF ReadsStop, Stops
  <2>2. /\ Len(servers') = Len(servers)
        /\ \A i \in 1..Len(servers) :
             /\ servers'[i].text = servers[i].text /\ servers'[i].page = servers[i].page
             /\ servers'[i].running <=> servers[i].running /\ i # s
    BY <1>1, <2>1, HaltedSpec
  <2>3. table[r.buf] = None => s = 0
    BY <1>1
  <2>4. \A b \in Bufs :
          /\ table'[b] # None =>
               table'[b] = table[b] /\ table[b] # None /\ table[b].server # s
          /\ table[b] # None /\ table[b].server # s => table'[b] = table[b]
    BY <1>1, <2>1, <2>3 DEF Known, Displayed
  <2>5. \A p \in starts : p.server # 0 => p.server # s
    BY <1>1, <2>1, <2>3 DEF Known, Bound
  <2> HIDE DEF s
  <2>6. Displayed'
    BY <2>2, <2>4 DEF Known, Displayed
  <2>7. Bound'
    <3>1. ASSUME NEW p \in starts, p.server # 0
          PROVE  /\ p.server \in 1..Len(servers) /\ servers'[p.server].running
                 /\ servers'[p.server].text = p.text /\ servers'[p.server].page = p.page
                 /\ \A b \in Bufs : table'[b] # None => table'[b].server # p.server
                 /\ \A q \in starts : q.server = p.server => q = p
      BY <2>2, <2>4, <2>5, <3>1 DEF Known, Bound
    <3> QED BY <2>1, <2>2, <3>1 DEF Bound
  <2>8. OfServers'
    BY <2>1, <2>2 DEF Known, OfServers
  <2>9. Accounted'
    <3>1. ASSUME NEW i \in 1..Len(servers), servers'[i].running
          PROVE  \/ \E b \in Bufs : table'[b] # None /\ table'[b].server = i
                 \/ \E p \in starts : p.server = i
      BY <2>2, <3>1, <2>4 DEF Known, Accounted
    <3> QED BY <2>1, <2>2, <3>1 DEF Accounted
  <2> QED BY <2>6, <2>7, <2>8, <2>9 DEF Known
<1>7. CASE ReadsStopAll(r)
  <2> DEFINE which == {table[b].server : b \in Bufs}
  <2>1. /\ UNCHANGED <<starts, updates>>
        /\ table' = [b \in Bufs |-> None] /\ servers' = Halted(which)
    BY <1>7 DEF ReadsStopAll
  <2>2. \A p \in starts : p.server # 0 => p.server \notin which
    BY <1>1 DEF Known, Bound
  <2>3. \A b \in Bufs : table[b].server \in which
    OBVIOUS
  <2> HIDE DEF which
  <2>4. /\ Len(servers') = Len(servers)
        /\ \A i \in 1..Len(servers) :
             /\ servers'[i].text = servers[i].text /\ servers'[i].page = servers[i].page
             /\ servers'[i].running <=> servers[i].running /\ i \notin which
    BY <1>1, <2>1, HaltedSpec
  <2>5. Displayed' /\ OfServers'
    BY <2>1, <2>4 DEF Known, Displayed, OfServers
  <2>6. Bound'
    BY <2>1, <2>2, <2>4 DEF Known, Bound
  <2>7. Accounted'
    BY <2>1, <2>3, <2>4 DEF Known, Accounted
  <2> QED BY <2>5, <2>6, <2>7 DEF Known
<1> QED BY <1>2, <1>3, <1>4, <1>5, <1>6, <1>7

LEMMA BindKnown ==
  ASSUME DaemonTyped, Known, NEW task \in starts, Bind(task)
  PROVE  Known'
<1> DEFINE new == [text |-> task.text, page |-> task.page, running |-> TRUE]
           n   == Len(servers) + 1
           now == [task EXCEPT !.server = n]
<1>1. /\ servers \in Seq(Server) /\ Len(servers) \in Nat /\ task \in Task
      /\ \A p \in starts : p.server \in Nat
      /\ \A b \in Bufs : table[b] # None => table[b].server \in Nat
      /\ \A u \in updates : u.epoch \in Nat
  BY TypedParts
<1>2. new \in Server /\ new.text = task.text /\ new.page = task.page /\ new.running = TRUE
  BY <1>1 DEF Task, Server
<1>3. now.server = n /\ now.text = task.text /\ now.page = task.page
  BY <1>1 DEF Task
<1>4. /\ task.server = 0 /\ servers' = Append(servers, new)
      /\ starts' = (starts \ {task}) \union {now} /\ UNCHANGED <<updates, table>>
  BY DEF Bind
<1> HIDE DEF new, now
<1>5. /\ Len(servers') = n /\ servers'[n] = new
      /\ \A i \in 1..Len(servers) : servers'[i] = servers[i]
  BY <1>1, <1>2, <1>4, AppendProperties
<1>6. Displayed'
  BY <1>1, <1>4, <1>5 DEF Known, Displayed
<1>7. Bound'
  <2>1. \A p \in starts : p.server # n
    BY <1>1 DEF Known, Bound
  <2>2. \A b \in Bufs : table[b] # None => table[b].server # n
    BY <1>1 DEF Known, Displayed
  <2>3. ASSUME NEW p \in starts', p.server # 0
        PROVE  /\ p.server \in 1..Len(servers') /\ servers'[p.server].running
               /\ servers'[p.server].text = p.text /\ servers'[p.server].page = p.page
               /\ \A b \in Bufs : table'[b] # None => table'[b].server # p.server
               /\ \A q \in starts' : q.server = p.server => q = p
    <3>1. CASE p = now
      BY <1>1, <1>2, <1>3, <1>4, <1>5, <2>1, <2>2, <3>1
    <3>2. CASE p # now
      BY <1>4, <3>2, <1>1, <1>3, <1>5, <2>1, <2>3 DEF Known, Bound
    <3> QED BY <3>1, <3>2
  <2> QED BY <2>3 DEF Bound
<1>8. OfServers'
  BY <1>1, <1>3, <1>4, <1>5 DEF Known, OfServers
<1>9. Accounted'
  <2>1. ASSUME NEW s \in 1..Len(servers'), servers'[s].running
        PROVE  \/ \E b \in Bufs : table'[b] # None /\ table'[b].server = s
               \/ \E p \in starts' : p.server = s
    BY <1>3, <1>4, <1>1, <1>5, <2>1 DEF Known, Accounted
  <2> QED BY <2>1 DEF Accounted
<1> QED BY <1>6, <1>7, <1>8, <1>9 DEF Known


LEMMA BindFailsKnown ==
  ASSUME DaemonTyped, Known, NEW task \in starts, BindFails(task)
  PROVE  Known'
<1>1. /\ task.server = 0 /\ starts' = starts \ {task} /\ UNCHANGED <<updates, table, servers>>
  BY DEF BindFails
<1>2. Accounted'
  BY <1>1 DEF Known, Accounted
<1> QED BY <1>1, <1>2 DEF Known, Displayed, Bound, OfServers

\* The task's server goes to the table, or stops; the one that was there stops.
LEMMA InsertKnown ==
  ASSUME DaemonTyped, Known, NEW task \in starts, Insert(task)
  PROVE  Known'
<1> DEFINE n == task.server
           c == task.buf
           s == Loser(task)
           new == [server |-> n, epoch |-> n, issued |-> 0, served |-> 0,
                   newest |-> task.text, astray |-> FALSE]
<1>1. /\ servers \in Seq(Server) /\ Len(servers) \in Nat /\ c \in Bufs
      /\ \A p \in starts : p.server \in Nat
      /\ \A b \in Bufs : table[b] # None => table[b].server \in Nat \ {0}
      /\ table \in [Bufs -> {None} \union Preview] /\ None.server = 0
  BY TypedParts DEF DaemonTyped, None
<1>2. /\ n # 0 /\ n \in 1..Len(servers) /\ servers[n].running
      /\ \A b \in Bufs : table[b] # None => table[b].server # n
      /\ \A q \in starts : q.server = n => q = task
  BY DEF Known, Bound, Insert
<1>3. starts' = starts \ {task} /\ servers' = Halted({s}) /\ updates' = updates
  BY DEF Insert
<1>4. /\ Len(servers') = Len(servers)
      /\ \A i \in 1..Len(servers) :
           /\ servers'[i].text = servers[i].text /\ servers'[i].page = servers[i].page
           /\ servers'[i].running <=> servers[i].running /\ i # s
  BY <1>1, <1>3, HaltedSpec
<1>5. \A p \in starts' : p.server # 0 => p.server # s
  BY <1>1, <1>2, <1>3 DEF Known, Bound, Loser
<1>6. OfServers'
  BY <1>3, <1>4 DEF Known, OfServers
<1>7. CASE Full(c)
  <2>1. s = n /\ table' = table
    BY <1>7 DEF Loser, Insert
  <2>2. Displayed'
    BY <1>2, <1>4, <2>1 DEF Known, Displayed
  <2>3. Bound'
    <3>1. ASSUME NEW p \in starts', p.server # 0
          PROVE  /\ p.server \in 1..Len(servers) /\ servers'[p.server].running
                 /\ servers'[p.server].text = p.text /\ servers'[p.server].page = p.page
                 /\ \A b \in Bufs : table[b] # None => table[b].server # p.server
                 /\ \A q \in starts : q.server = p.server => q = p
      BY <1>3, <1>4, <1>5, <3>1 DEF Known, Bound
    <3> QED BY <1>3, <1>4, <2>1, <3>1 DEF Bound
  <2>4. Accounted'
    <3>1. ASSUME NEW i \in 1..Len(servers), servers'[i].running
          PROVE  \/ \E b \in Bufs : table[b] # None /\ table[b].server = i
                 \/ \E p \in starts' : p.server = i
      <4>1. servers[i].running /\ i # n
        BY <1>4, <2>1, <3>1
      <4> QED BY <1>3, <4>1 DEF Known, Accounted
    <3> QED BY <1>4, <2>1, <3>1 DEF Accounted
  <2> QED BY <1>6, <2>2, <2>3, <2>4 DEF Known
<1>8. CASE ~ Full(c)
  <2>1. s = table[c].server /\ table' = [table EXCEPT ![c] = new]
    BY <1>8 DEF Loser, Insert
  <2>2. new.server = n /\ new.epoch = n /\ new # None
    BY <1>2 DEF None
  <2> HIDE DEF new
  <2>3. table[c] = None => s = 0
    BY <1>1, <2>1
  <2>4. s # n
    BY <1>1, <1>2, <2>1, <2>3
  <2>5. \A b \in Bufs : /\ b = c => table'[b] = new
                        /\ b # c => table'[b] = table[b]
    BY <1>1, <2>1
  <2>6. \A b \in Bufs : b # c /\ table[b] # None => table[b].server # s
    BY <1>1, <2>1, <2>3 DEF Known, Displayed
  <2> HIDE DEF s
  <2>7. Displayed'
    BY <1>2, <1>4, <2>2, <2>4, <2>5, <1>1, <2>6 DEF Known, Displayed
  <2>8. Bound'
    <3>1. ASSUME NEW p \in starts', p.server # 0
          PROVE  /\ p.server \in 1..Len(servers) /\ servers'[p.server].running
                 /\ servers'[p.server].text = p.text /\ servers'[p.server].page = p.page
                 /\ \A b \in Bufs : table'[b] # None => table'[b].server # p.server
                 /\ \A q \in starts : q.server = p.server => q = p
      <4>1. p \in starts /\ p # task /\ p.server # n /\ p.server # s
        BY <1>2, <1>3, <1>5, <3>1
      <4>2. \A b \in Bufs : table'[b] # None => table'[b].server # p.server
        BY <2>2, <2>5, <3>1, <4>1 DEF Known, Bound
      <4> QED BY <1>4, <3>1, <4>1, <4>2 DEF Known, Bound
    <3> QED BY <1>3, <1>4, <3>1 DEF Bound
  <2>9. Accounted'
    <3>1. ASSUME NEW i \in 1..Len(servers), servers'[i].running
          PROVE  \/ \E b \in Bufs : table'[b] # None /\ table'[b].server = i
                 \/ \E p \in starts' : p.server = i
      <4>1. servers[i].running /\ i # s
        BY <1>4, <3>1
      <4>2. CASE \E b \in Bufs : table[b] # None /\ table[b].server = i
        BY <2>1, <2>5, <4>1, <4>2 DEF s
      <4>3. CASE \E p \in starts : p.server = i
        BY <1>1, <1>3, <2>2, <2>5, <4>3
      <4> QED BY <4>1, <4>2, <4>3 DEF Known, Accounted
    <3> QED BY <1>4, <3>1 DEF Accounted
  <2> QED BY <1>6, <2>7, <2>8, <2>9 DEF Known
<1> QED BY <1>7, <1>8

LEMMA NumberKnown ==
  ASSUME DaemonTyped, Known, NEW u \in updates, Number(u)
  PROVE  Known'
<1>1. /\ u.buf \in Bufs /\ table \in [Bufs -> {None} \union Preview]
      /\ Len(servers) \in Nat
  BY TypedParts DEF DaemonTyped
<1>2. CASE table[u.buf] = None
  BY <1>2 DEF Number, Known, Displayed, Bound, OfServers, Accounted
<1>3. CASE table[u.buf] # None
  <2> DEFINE now == WithNumber(u)
             new == Issuing(u)
  <2>1. /\ updates' = (updates \ {u}) \union {now} /\ table' = [table EXCEPT ![u.buf] = new]
        /\ UNCHANGED <<starts, servers>>
    BY <1>3, NumberSpec DEF Number
  <2>2. now.epoch = table[u.buf].epoch
    BY <1>3, NumberedSpec
  <2>4. new \in Preview /\ new.server = table[u.buf].server /\ new.epoch = table[u.buf].epoch
    BY <1>3, NumberedSpec
  <2>5. new # None
    BY <1>3, NumberedSpec
  <2> HIDE DEF now, new
  <2>6. \A b \in Bufs : /\ table'[b] # None <=> table[b] # None
                        /\ table[b] # None => /\ table'[b].server = table[b].server
                                              /\ table'[b].epoch = table[b].epoch
    BY <1>1, <1>3, <2>1, <2>4, <2>5
  <2>7. Displayed'
    BY <2>1, <2>6 DEF Known, Displayed
  <2>8. Bound'
    BY <2>1, <2>6 DEF Known, Bound
  <2>9. OfServers'
    BY <1>1, <1>3, <2>2, <2>1 DEF Known, Displayed, Bound, OfServers
  <2>10. Accounted'
    BY <2>1, <2>6 DEF Known, Accounted
  <2> QED BY <2>7, <2>8, <2>9, <2>10 DEF Known
<1> QED BY <1>2, <1>3

LEMMA ShowKnown ==
  ASSUME DaemonTyped, Known, NEW u \in updates, Show(u)
  PROVE  Known'
<1>1. /\ u.buf \in Bufs /\ u.text \in Nat /\ table \in [Bufs -> {None} \union Preview]
      /\ servers \in Seq(Server) /\ Len(servers) \in Nat
      /\ \A s \in 1..Len(servers) : servers[s] \in Server
  BY TypedParts DEF DaemonTyped
<1>2. CASE ~ Newest(u)
  BY <1>2 DEF Show, Known, Displayed, Bound, OfServers, Accounted
<1>3. CASE Newest(u)
  <2> DEFINE s == table[u.buf].server
             new == [table[u.buf] EXCEPT !.served = u.seq]
  <2>1. /\ updates' = updates \ {u} /\ table' = [table EXCEPT ![u.buf] = new]
        /\ servers' = [servers EXCEPT ![s].text = u.text] /\ starts' = starts
    BY <1>3 DEF Show
  <2>2. table[u.buf] # None /\ table[u.buf] \in Preview /\ s \in 1..Len(servers)
        /\ \A p \in starts : p.server # 0 => p.server # s
    BY <1>1, <1>3 DEF Newest, Known, Displayed, Bound
  <2>3. new.server = s /\ new.epoch = table[u.buf].epoch /\ new # None
    BY <2>2 DEF Preview, None
  <2> HIDE DEF new, s
  <2>4. LET now == [servers EXCEPT ![s].text = u.text]
        IN  /\ Len(now) = Len(servers)
            /\ \A i \in 1..Len(servers) :
                 now[i] = IF i = s THEN [servers[i] EXCEPT !.text = u.text] ELSE servers[i]
    BY <1>1, <2>2, SetOnServer
  <2>5. /\ Len(servers') = Len(servers)
        /\ \A i \in 1..Len(servers) : /\ servers'[i].running <=> servers[i].running
                                      /\ i # s => servers'[i] = servers[i]
    BY <1>1, <2>1, <2>4 DEF Server
  <2>6. \A b \in Bufs : /\ table'[b] # None <=> table[b] # None
                        /\ table[b] # None => /\ table'[b].server = table[b].server
                                              /\ table'[b].epoch = table[b].epoch
    BY <1>1, <2>1, <2>2, <2>3 DEF s
  <2>7. Displayed'
    BY <2>5, <2>6 DEF Known, Displayed
  <2>8. Bound'
    BY <2>1, <2>2, <2>5, <2>6 DEF Known, Bound
  <2>9. OfServers' /\ Accounted'
    BY <2>1, <2>5, <2>6 DEF Known, OfServers, Accounted
  <2> QED BY <2>7, <2>8, <2>9 DEF Known
<1> QED BY <1>2, <1>3

LEMMA DaemonKnown ==
  ASSUME EditorTyped, DaemonTyped, Known, DaemonStep
  PROVE  Known'
BY ReadKnown, BindKnown, BindFailsKnown, InsertKnown, NumberKnown, ShowKnown DEF DaemonStep

\* Nothing is left of the daemon.
LEMMA ExitsTypedKnown ==
  ASSUME EditorTyped, DaemonTyped, DaemonExits
  PROVE  EditorTyped' /\ DaemonTyped' /\ Known'
<1>1. servers \in Seq(Server) /\ Len(servers) \in Nat
  BY TypedParts
<1>2. /\ table' = [b \in Bufs |-> None] /\ starts' = {} /\ updates' = {}
      /\ servers' = Halted(DOMAIN servers)
  BY DEF DaemonExits
<1>3. /\ Len(servers') = Len(servers) /\ servers' \in Seq(Server)
      /\ \A i \in 1..Len(servers) : ~ servers'[i].running
  BY <1>1, <1>2, HaltedSpec
<1>4. DaemonTyped' /\ Known'
  BY <1>2, <1>3 DEF DaemonTyped, Known, Displayed, Bound, OfServers, Accounted
<1>5. EditorTyped'
  BY EmptySeq DEF DaemonExits, EditorTyped
<1> QED BY <1>4, <1>5


-----------------------------------------------------------------------------
(* What has a number is the newest, or was late for it.                    *)

LEMMA EditorOrdered ==
  ASSUME EditorTyped, Ordered, EditorStep
  PROVE  Ordered'
<1>1. UNCHANGED daemonVars
  BY EditorSends
<1> QED BY <1>1 DEF Ordered, NewestKept, NumbersRise, NumbersAgree, daemonVars

\* A preview that shows what it did, and one that comes to the table.
StaysAsItWas(b) ==
  table'[b] = table[b] /\ servers'[table[b].server].text = servers[table[b].server].text

StartsAnew(b) ==
  /\ table'[b].epoch # 0 /\ table'[b].issued = 0 /\ table'[b].served = 0 /\ ~ table'[b].astray
  /\ servers'[table'[b].server].text = table'[b].newest /\ table'[b].newest \in Nat
  /\ \A u \in updates : u.epoch # table'[b].epoch

\* No update takes a number or is shown.
LEMMA StillOrdered ==
  ASSUME DaemonTyped, Ordered, updates \subseteq updates',
         \A u \in updates' : u \in updates \/ (u.epoch = 0 /\ u.buf \in Bufs),
         \A b \in Bufs : table'[b] # None => StaysAsItWas(b) \/ StartsAnew(b)
  PROVE  Ordered'
<1>1. NumbersAgree'
  BY DEF Ordered, NumbersAgree
<1>2. NumbersRise'
  <2> SUFFICES ASSUME NEW u \in updates', table'[u.buf] # None, u.epoch = table'[u.buf].epoch
               PROVE  u \in updates /\ StaysAsItWas(u.buf)
    BY DEF Ordered, NumbersRise, StaysAsItWas
  <2>1. u.buf \in Bufs
    BY TypedParts
  <2>2. u.epoch # 0
    BY <2>1, TypedParts DEF StaysAsItWas, StartsAnew
  <2> QED BY <2>1, <2>2 DEF StartsAnew
<1>3. NewestKept'
  <2> SUFFICES ASSUME NEW b \in Bufs, table'[b] # None
               PROVE  LET t == table'[b]
                          shows == servers'[t.server].text
                      IN  /\ t.served <= t.issued /\ shows <= t.newest
                          /\ t.served = t.issued /\ ~ t.astray => shows = t.newest
                          /\ t.served # t.issued =>
                               \E u \in updates' :
                                 u.buf = b /\ u.epoch = t.epoch /\ u.seq = t.issued
    BY DEF NewestKept
  <2>1. CASE StaysAsItWas(b)
    BY <2>1 DEF StaysAsItWas, Ordered, NewestKept
  <2>2. CASE StartsAnew(b)
    BY <2>2 DEF StartsAnew
  <2> QED BY <2>1, <2>2
<1> QED BY <1>1, <1>2, <1>3 DEF Ordered

\* What is read has no effect on what servers show by now.
LEMMA ReadKeepsTexts ==
  ASSUME DaemonTyped, Known, NEW r,
         ReadsServe(r) \/ ReadsUpdate(r) \/ ReadsOpts(r) \/ ReadsStop(r) \/ ReadsStopAll(r)
  PROVE  \A i \in 1..Len(servers) : servers'[i].text = servers[i].text
<1>1. CASE ReadsServe(r) \/ ReadsUpdate(r)
  BY <1>1 DEF ReadsServe, ReadsUpdate
<1>2. CASE ReadsOpts(r)
  <2>1. r.page \in Nat /\ r.buf \in Bufs
    BY <1>2 DEF ReadsOpts, Opts
  <2>2. table[r.buf] # None => table[r.buf].server \in 1..Len(servers)
    BY <2>1 DEF Known, Displayed
  <2>3. ASSUME table[r.buf] # None, NEW i \in 1..Len(servers)
        PROVE  [servers EXCEPT ![table[r.buf].server].page = r.page][i] =
                 IF i = table[r.buf].server THEN [servers[i] EXCEPT !.page = r.page]
                 ELSE servers[i]
    <3>1. servers \in Seq(Server)
      BY TypedParts
    <3>2. table[r.buf].server \in 1..Len(servers)
      BY <2>2, <2>3
    <3> QED BY <2>1, <2>3, <3>1, <3>2, SetOnServer, SMTT(30)
  <2>4. \A i \in 1..Len(servers) : [servers[i] EXCEPT !.page = r.page].text = servers[i].text
    BY TypedParts DEF Server
  <2> QED BY <1>2, <2>3, <2>4 DEF ReadsOpts
<1>3. CASE ReadsStop(r) \/ ReadsStopAll(r)
  BY <1>3, HaltedSpec, TypedParts DEF ReadsStop, ReadsStopAll
<1> QED BY <1>1, <1>2, <1>3

LEMMA ReadOrdered ==
  ASSUME EditorTyped, DaemonTyped, Known, Ordered, Read
  PROVE  Ordered'
<1> DEFINE r == Head(pipe)
<1>1. ReadsServe(r) \/ ReadsUpdate(r) \/ ReadsOpts(r) \/ ReadsStop(r) \/ ReadsStopAll(r)
  BY ReadSpec
<1> HIDE DEF r
<1>2. \A i \in 1..Len(servers) : servers'[i].text = servers[i].text
  BY <1>1, ReadKeepsTexts
<1>3. \A b \in Bufs : table'[b] # None => table'[b] = table[b]
  BY <1>1 DEF ReadsServe, ReadsUpdate, ReadsOpts, ReadsStop, ReadsStopAll, Stops, DaemonTyped
<1>4. \A b \in Bufs : table'[b] # None => StaysAsItWas(b)
  BY <1>2, <1>3 DEF StaysAsItWas, Known, Displayed
<1>5. /\ updates \subseteq updates'
      /\ \A u \in updates' : u \in updates \/ (u.epoch = 0 /\ u.buf \in Bufs)
  BY <1>1 DEF ReadsServe, ReadsUpdate, ReadsOpts, ReadsStop, ReadsStopAll, Updates
<1> QED BY <1>4, <1>5, StillOrdered

LEMMA BindOrdered ==
  ASSUME DaemonTyped, Known, Ordered, NEW task \in starts, Bind(task) \/ BindFails(task)
  PROVE  Ordered'
<1>1. /\ servers \in Seq(Server) /\ Len(servers) \in Nat /\ task \in Task
  BY TypedParts
<1>2. UNCHANGED <<updates, table>>
  BY DEF Bind, BindFails
<1>3. \A i \in 1..Len(servers) : servers'[i] = servers[i]
  BY <1>1, AppendProperties DEF BindFails, Task, Server, Bind
<1>4. \A b \in Bufs : table'[b] # None => StaysAsItWas(b)
  BY <1>2, <1>3 DEF StaysAsItWas, Known, Displayed
<1> QED BY <1>2, <1>4, StillOrdered

\* No update has the number of a server that comes to the table.
LEMMA InsertOrdered ==
  ASSUME DaemonTyped, Known, Ordered, NEW task \in starts, Insert(task)
  PROVE  Ordered'
<1> DEFINE n == task.server
           c == task.buf
           new == [server |-> n, epoch |-> n, issued |-> 0, served |-> 0,
                   newest |-> task.text, astray |-> FALSE]
<1>1. /\ c \in Bufs /\ servers \in Seq(Server) /\ task.text \in Nat
      /\ table \in [Bufs -> {None} \union Preview]
  BY TypedParts DEF DaemonTyped
<1>2. /\ updates' = updates /\ servers' = Halted({Loser(task)}) /\ n # 0
      /\ table' = table \/ table' = [table EXCEPT ![c] = new]
  BY DEF Insert
<1>3. \A i \in 1..Len(servers) : servers'[i].text = servers[i].text
  BY <1>1, <1>2, HaltedSpec
<1>4. /\ new.server = n /\ new.epoch = n /\ new.issued = 0 /\ new.served = 0
      /\ new.newest = task.text /\ new.astray = FALSE
  OBVIOUS
<1>5. n \in 1..Len(servers) /\ servers[n].text = task.text /\ \A u \in updates : u.epoch # n
  BY <1>2 DEF Known, Bound, OfServers
<1> HIDE DEF new
<1>6. \A b \in Bufs : table'[b] = table[b] \/ (b = c /\ table'[b] = new)
  BY <1>1, <1>2
<1>7. ASSUME NEW b \in Bufs, table'[b] # None PROVE StaysAsItWas(b) \/ StartsAnew(b)
  <2>1. CASE table'[b] = table[b]
    BY <1>3, <1>7, <2>1 DEF StaysAsItWas, Known, Displayed
  <2>2. CASE table'[b] = new
    BY <1>1, <1>2, <1>3, <1>4, <1>5, <2>2 DEF StartsAnew
  <2> QED BY <1>6, <2>1, <2>2
<1> QED BY <1>2, <1>7, StillOrdered

\* The newest text takes the greatest number yet, or is late.
LEMMA NumberOrdered ==
  ASSUME DaemonTyped, Known, Ordered, NEW u \in updates, Number(u)
  PROVE  Ordered'
<1>1. /\ u.buf \in Bufs /\ table \in [Bufs -> {None} \union Preview] /\ u.text \in Nat
      /\ \A v \in updates : v.buf \in Bufs /\ v.seq \in Nat /\ v.text \in Nat
  BY TypedParts DEF DaemonTyped
<1>2. u.epoch = 0 /\ servers' = servers
  BY DEF Number
<1>3. CASE table[u.buf] = None
  <2>1. updates' = updates \ {u} /\ table' = table
    BY <1>3 DEF Number
  <2>2. \A b \in Bufs : table[b] # None => table[b].epoch # 0
    BY TypedParts
  <2> QED BY <1>2, <2>1, <2>2 DEF Ordered, NewestKept, NumbersRise, NumbersAgree
<1>4. CASE table[u.buf] # None
  <2> DEFINE c == u.buf
             t == table[c]
             now == WithNumber(u)
             new == Issuing(u)
  <2>1. updates' = (updates \ {u}) \union {now} /\ table' = [table EXCEPT ![c] = new]
    BY <1>4, NumberSpec
  <2>2. /\ t.issued \in Nat /\ t.epoch \in Nat \ {0} /\ t.served \in Nat /\ t.newest \in Nat
        /\ t.astray \in BOOLEAN
    BY <1>1, <1>4, TypedParts
  <2>3. /\ now.buf = c /\ now.text = u.text /\ now.epoch = t.epoch
        /\ now.seq = t.issued + 1 /\ now.late = (u.text < t.newest)
    BY <1>4, NumberedSpec DEF Overtaken
  <2>4. /\ new.issued = t.issued + 1 /\ new.server = t.server /\ new.epoch = t.epoch
        /\ new.served = t.served /\ new # None /\ new.astray = (u.text < t.newest)
        /\ new.newest = IF u.text < t.newest THEN t.newest ELSE u.text
    BY <1>4, NumberedSpec DEF Overtaken
  <2>5. \A b \in Bufs : /\ b # c => table'[b] = table[b]
                        /\ b = c => table'[b] = new
    BY <1>1, <2>1
  <2>6. /\ t.served <= t.issued /\ servers[t.server].text <= t.newest
    BY <1>1, <1>4 DEF Ordered, NewestKept
  <2>7. \A v \in updates : v.buf = c /\ v.epoch = t.epoch =>
          v.seq <= t.issued /\ v.text <= t.newest
    BY <1>4 DEF Ordered, NumbersRise
  <2>8. \A v \in updates' : v = now \/ (v \in updates /\ v # u)
    BY <2>1
  <2> HIDE DEF now, new, t, c
  <2>9. NumbersAgree'
    <3>1. ASSUME NEW v \in updates', NEW w \in updates', v.epoch # 0, w.epoch = v.epoch,
                 w.buf = v.buf, w.seq < v.seq, ~ v.late
          PROVE  w.text <= v.text
      <4>1. CASE v = now /\ w = now
        BY <2>2, <2>3, <3>1, <4>1
      <4>2. CASE v = now /\ w # now
        <5>1. w \in updates /\ w.buf = c /\ w.epoch = t.epoch /\ ~ (u.text < t.newest)
          BY <2>3, <2>8, <3>1, <4>2
        <5> QED BY <1>1, <2>2, <2>3, <2>7, <4>2, <5>1
      <4>3. CASE v # now /\ w = now
        BY <1>1, <2>2, <2>3, <2>7, <2>8, <3>1, <4>3
      <4>4. CASE v # now /\ w # now
        BY <2>8, <4>4, <3>1 DEF Ordered, NumbersAgree
      <4> QED BY <4>1, <4>2, <4>3, <4>4
    <3> QED BY <3>1 DEF NumbersAgree
  <2>10. NumbersRise'
    <3>1. ASSUME NEW v \in updates', table'[v.buf] # None, v.epoch = table'[v.buf].epoch
          PROVE  /\ v.seq <= table'[v.buf].issued /\ v.text <= table'[v.buf].newest
                 /\ v.seq = table'[v.buf].issued /\ ~ table'[v.buf].astray
                      => v.text = table'[v.buf].newest
                 /\ v.seq > table'[v.buf].served /\ ~ v.late
                      => servers[table'[v.buf].server].text <= v.text
      <4>1. CASE v = now
        <5>1. table'[v.buf] = new
          BY <1>1, <2>3, <2>5, <4>1 DEF c
        <5>2. ~ v.late => servers[t.server].text <= u.text
          <6>1. servers[t.server].text \in Nat
            BY <1>1, <1>4, ShowsNat DEF t, c
          <6>2. ~ (u.text < t.newest) => servers[t.server].text <= u.text
            BY <1>1, <2>2, <2>6, <6>1
          <6>3. ~ now.late => ~ (u.text < t.newest)
            BY <2>3
          <6> QED BY <4>1, <6>2, <6>3
        <5>3. v.seq <= new.issued /\ u.text <= new.newest
          BY <1>1, <2>2, <2>3, <2>4, <4>1
        <5>4. ~ new.astray => u.text = new.newest
          <6>1. ~ new.astray => ~ (u.text < t.newest)
            BY <2>4
          <6>2. ~ (u.text < t.newest) => new.newest = u.text
            BY <2>4
          <6> QED BY <6>1, <6>2
        <5>5. v.text = u.text /\ new.server = t.server
          BY <2>3, <2>4, <4>1
        <5> QED BY <5>1, <5>2, <5>3, <5>4, <5>5
      <4>2. CASE v # now /\ v.buf = c
        <5>1. v \in updates /\ table'[v.buf] = new /\ v.epoch = t.epoch
          BY <1>1, <2>4, <2>5, <2>8, <3>1, <4>2 DEF c
        <5>2. v.seq <= t.issued /\ v.text <= t.newest
          BY <2>7, <4>2, <5>1
        <5>3. v.seq > t.served /\ ~ v.late => servers[t.server].text <= v.text
          BY <1>4, <4>2, <5>1 DEF Ordered, NumbersRise, t, c
        <5> QED BY <1>1, <2>2, <2>4, <5>1, <5>2, <5>3
      <4>3. CASE v # now /\ v.buf # c
        BY <1>1, <2>5, <2>8, <3>1, <4>3 DEF Ordered, NumbersRise
      <4> QED BY <4>1, <4>2, <4>3
    <3> QED BY <1>2, <3>1 DEF NumbersRise
  <2>11. NewestKept'
    <3>1. ASSUME NEW b \in Bufs, table'[b] # None
          PROVE  LET x == table'[b]
                     shows == servers[x.server].text
                 IN  /\ x.served <= x.issued /\ shows <= x.newest
                     /\ x.served = x.issued /\ ~ x.astray => shows = x.newest
                     /\ x.served # x.issued =>
                          \E v \in updates' : v.buf = b /\ v.epoch = x.epoch /\ v.seq = x.issued
      <4>1. CASE b = c
        <5>1. table'[b] = new /\ now \in updates'
          BY <2>1, <2>5, <4>1
        <5>2. servers[t.server].text <= new.newest
          <6>1. servers[t.server].text \in Nat
            BY <1>1, <1>4, ShowsNat DEF t, c
          <6> QED BY <1>1, <2>2, <2>4, <2>6, <6>1
        <5> QED BY <2>2, <2>3, <2>4, <2>6, <4>1, <5>1, <5>2
      <4>2. CASE b # c
        <5>1. table'[b] = table[b]
          BY <2>5, <4>2
        <5>2. \A v \in updates : v.buf = b => v \in updates'
          BY <2>1, <4>2 DEF c
        <5> QED BY <3>1, <5>1, <5>2 DEF Ordered, NewestKept
      <4> QED BY <4>1, <4>2
    <3> QED BY <1>2, <3>1 DEF NewestKept
  <2> QED BY <2>9, <2>10, <2>11 DEF Ordered
<1> QED BY <1>3, <1>4

\* What showing an update does to its preview and its server.
LEMMA ShowSpec ==
  ASSUME DaemonTyped, Known, NEW u \in updates, Show(u), Newest(u)
  PROVE  LET c == u.buf
             t == table[c]
         IN  /\ t # None /\ t.epoch = u.epoch /\ u.epoch # 0 /\ t.served < u.seq
             /\ table'[c] # None /\ table'[c].server = t.server /\ table'[c].epoch = t.epoch
             /\ table'[c].issued = t.issued /\ table'[c].served = u.seq
             /\ table'[c].newest = t.newest /\ table'[c].astray = t.astray
             /\ t.server \in 1..Len(servers) /\ servers'[t.server].text = u.text
             /\ \A i \in 1..Len(servers) : i # t.server => servers'[i] = servers[i]
             /\ \A b \in Bufs : b # c => table'[b] = table[b]
             /\ \A b \in Bufs : b # c /\ table[b] # None =>
                  servers'[table[b].server].text = servers[table[b].server].text
<1> DEFINE c == u.buf
           t == table[c]
           new == [table[u.buf] EXCEPT !.served = u.seq]
<1>1. /\ c \in Bufs /\ u.text \in Nat /\ u.seq \in Nat
      /\ servers \in Seq(Server) /\ table \in [Bufs -> {None} \union Preview]
      /\ \A i \in 1..Len(servers) : servers[i] \in Server
  BY TypedParts DEF DaemonTyped
<1>2. /\ table' = [table EXCEPT ![c] = new] /\ u.epoch # 0
      /\ servers' = [servers EXCEPT ![t.server].text = u.text]
  BY DEF Show
<1>3. t # None /\ t \in Preview /\ t.epoch = u.epoch /\ t.served < u.seq
  BY <1>1 DEF Newest
<1>4. /\ new.issued = t.issued /\ new.server = t.server /\ new # None
      /\ new.epoch = t.epoch /\ new.served = u.seq
      /\ new.newest = t.newest /\ new.astray = t.astray
  BY <1>3 DEF Preview, None
<1>5. t.server \in 1..Len(servers)
  BY <1>1, <1>3 DEF Known, Displayed
<1> HIDE DEF new, t
<1>6. \A i \in 1..Len(servers) :
        servers'[i] = IF i = t.server THEN [servers[i] EXCEPT !.text = u.text] ELSE servers[i]
  <2>1. LET now == [servers EXCEPT ![t.server].text = u.text]
        IN  \A i \in 1..Len(servers) :
              now[i] = IF i = t.server THEN [servers[i] EXCEPT !.text = u.text] ELSE servers[i]
    BY <1>1, <1>5, SetOnServer
  <2> QED BY <1>2, <2>1
<1>7. servers'[t.server].text = u.text
  BY <1>1, <1>5, <1>6 DEF Server
<1>8. \A b \in Bufs : IF b = c THEN table'[b] = new ELSE table'[b] = table[b]
  BY <1>1, <1>2
<1>9. \A b \in Bufs : b # c /\ table[b] # None =>
        servers'[table[b].server].text = servers[table[b].server].text
  BY <1>1, <1>3, <1>6 DEF Known, Displayed, t
<1> QED BY <1>1, <1>2, <1>3, <1>4, <1>5, <1>6, <1>7, <1>8, <1>9 DEF t

\* What is shown is of the greatest number yet.
LEMMA ShowOrdered ==
  ASSUME DaemonTyped, Known, Ordered, NEW u \in updates, Show(u)
  PROVE  Ordered'
<1>1. /\ u.buf \in Bufs /\ u.text \in Nat /\ u.seq \in Nat
      /\ \A v \in updates : v.buf \in Bufs /\ v.seq \in Nat /\ v.text \in Nat
      /\ \A b \in Bufs : table[b] # None => table[b].issued \in Nat /\ table[b].served \in Nat
  BY TypedParts
<1>2. updates' = updates \ {u}
  BY DEF Show
<1>3. CASE ~ Newest(u)
  <2>1. table' = table /\ servers' = servers
    BY <1>3 DEF Show
  <2>2. NumbersRise' /\ NumbersAgree'
    BY <1>2, <2>1 DEF Ordered, NumbersRise, NumbersAgree
  <2>3. ASSUME NEW b \in Bufs, table[b] # None, table[b].served # table[b].issued
        PROVE  \E v \in updates' :
                 v.buf = b /\ v.epoch = table[b].epoch /\ v.seq = table[b].issued
    <3>1. PICK v \in updates : v.buf = b /\ v.epoch = table[b].epoch /\ v.seq = table[b].issued
      BY <2>3 DEF Ordered, NewestKept
    <3>2. table[b].served < table[b].issued
      BY <1>1, <2>3 DEF Ordered, NewestKept
    <3>3. v # u
      BY <1>3, <2>3, <3>1, <3>2 DEF Newest
    <3> QED BY <1>2, <3>1, <3>3
  <2>4. NewestKept'
    BY <2>1, <2>3 DEF Ordered, NewestKept
  <2> QED BY <2>2, <2>4 DEF Ordered
<1>4. CASE Newest(u)
  <2> DEFINE c == u.buf
             t == table[c]
             new == table'[c]
  <2>1. /\ t # None /\ t.epoch = u.epoch /\ u.epoch # 0 /\ t.served < u.seq
        /\ new # None /\ new.server = t.server /\ new.epoch = t.epoch
        /\ new.issued = t.issued /\ new.served = u.seq
        /\ new.newest = t.newest /\ new.astray = t.astray
        /\ t.server \in 1..Len(servers) /\ servers'[t.server].text = u.text
        /\ \A b \in Bufs : b # c => table'[b] = table[b]
        /\ \A b \in Bufs : b # c /\ table[b] # None =>
             servers'[table[b].server].text = servers[table[b].server].text
    BY <1>4, ShowSpec
  <2>2. /\ u.seq <= t.issued /\ u.text <= t.newest
        /\ u.seq = t.issued /\ ~ t.astray => u.text = t.newest
    BY <2>1 DEF Ordered, NumbersRise
  <2> HIDE DEF new
  <2>3. NumbersAgree'
    BY <1>2 DEF Ordered, NumbersAgree
  <2>4. NumbersRise'
    <3>1. ASSUME NEW v \in updates', table'[v.buf] # None, v.epoch = table'[v.buf].epoch
          PROVE  /\ v.seq <= table'[v.buf].issued /\ v.text <= table'[v.buf].newest
                 /\ v.seq = table'[v.buf].issued /\ ~ table'[v.buf].astray
                      => v.text = table'[v.buf].newest
                 /\ v.seq > table'[v.buf].served /\ ~ v.late
                      => servers'[table'[v.buf].server].text <= v.text
      <4>1. v \in updates /\ v.buf \in Bufs
        BY <1>1, <1>2
      <4>2. CASE v.buf = c
        <5>1. table'[v.buf] = new /\ v.epoch = t.epoch
          BY <2>1, <3>1, <4>2 DEF new
        <5>2. /\ v.seq <= t.issued /\ v.text <= t.newest
              /\ v.seq = t.issued /\ ~ t.astray => v.text = t.newest
          BY <2>1, <4>1, <4>2, <5>1 DEF Ordered, NumbersRise
        <5>3. v.seq > u.seq /\ ~ v.late => u.text <= v.text
          BY <1>1, <2>1, <4>1, <4>2, <5>1 DEF Ordered, NumbersAgree
        <5> QED BY <2>1, <5>1, <5>2, <5>3
      <4>3. CASE v.buf # c
        BY <2>1, <3>1, <4>1, <4>3 DEF Ordered, NumbersRise
      <4> QED BY <4>2, <4>3
    <3> QED BY <3>1 DEF NumbersRise
  <2>5. NewestKept'
    <3>1. ASSUME NEW b \in Bufs, table'[b] # None
          PROVE  LET x == table'[b]
                     shows == servers'[x.server].text
                 IN  /\ x.served <= x.issued /\ shows <= x.newest
                     /\ x.served = x.issued /\ ~ x.astray => shows = x.newest
                     /\ x.served # x.issued =>
                          \E v \in updates' : v.buf = b /\ v.epoch = x.epoch /\ v.seq = x.issued
      <4>1. CASE b = c
        <5>1. ASSUME u.seq # t.issued
              PROVE  \E v \in updates' : v.buf = b /\ v.epoch = t.epoch /\ v.seq = t.issued
          <6>1. t.served # t.issued
            BY <1>1, <2>1, <2>2, <5>1
          <6>2. PICK v \in updates : v.buf = c /\ v.epoch = t.epoch /\ v.seq = t.issued
            BY <1>1, <2>1, <6>1 DEF Ordered, NewestKept
          <6> QED BY <1>2, <4>1, <5>1, <6>2
        <5>2. table'[b] = new
          BY <4>1 DEF new
        <5> QED BY <2>1, <2>2, <5>1, <5>2
      <4>2. CASE b # c
        <5>1. table'[b] = table[b]
          BY <2>1, <4>2
        <5>2. \A v \in updates : v.buf = b => v \in updates'
          BY <1>2, <4>2
        <5> QED BY <2>1, <3>1, <4>2, <5>1, <5>2 DEF Ordered, NewestKept
      <4> QED BY <4>1, <4>2
    <3> QED BY <3>1 DEF NewestKept
  <2> QED BY <2>3, <2>4, <2>5 DEF Ordered
<1> QED BY <1>3, <1>4

-----------------------------------------------------------------------------
(* What was sent last is the newest.                                       *)

LEMMA TextsAre ==
  ASSUME NEW b
  PROVE  /\ \A p \in starts : p.buf = b => p.text \in Texts(b)
         /\ \A u \in updates : u.buf = b => u.text \in Texts(b)
         /\ table[b] # None => table[b].newest \in Texts(b)
         /\ \A i \in 1..Len(pipe) : Carries(pipe[i]) /\ pipe[i].buf = b
              => pipe[i].text \in Texts(b)
         /\ \A x \in Texts(b) :
              \/ \E p \in starts : p.buf = b /\ p.text = x
              \/ \E u \in updates : u.buf = b /\ u.text = x
              \/ table[b] # None /\ table[b].newest = x
              \/ \E i \in 1..Len(pipe) : /\ Carries(pipe[i]) /\ pipe[i].buf = b
                                         /\ pipe[i].text = x
BY DEF Texts

LEMMA TextsNat ==
  ASSUME EditorTyped, DaemonTyped, NEW b \in Bufs
  PROVE  Texts(b) \subseteq Nat
<1>1. \A i \in 1..Len(pipe) : Carries(pipe[i]) => pipe[i].text \in Nat
  <2>1. \A i \in 1..Len(pipe) : pipe[i] \in Request
    BY ElementOfSeq DEF EditorTyped
  <2>2. \A r \in Request : Carries(r) => r.text \in Nat
    BY DEF Request, Serve, Updates, Opts, Stops, StopAll, Carries
  <2> QED BY <2>1, <2>2
<1> QED BY <1>1, TypedParts, TextsAre

LEMMA EditorSent ==
  ASSUME EditorTyped, EditorTyped', DaemonTyped, Sent, EditorStep
  PROVE  Sent'
<1>1. Sends /\ Patience /\ UNCHANGED daemonVars
  BY EditorSends
<1>2. PICK more : SendsMore(more)
  BY <1>1 DEF Sends
<1>3. /\ pipe \in Seq(Request) /\ more \in Seq(Request) /\ pipe' = pipe \o more
  BY <1>2 DEF EditorTyped, SendsMore
<1>4. \A i \in 1..Len(pipe') :
        \/ i \in 1..Len(pipe) /\ pipe'[i] = pipe[i]
        \/ \E j \in 1..Len(more) : pipe'[i] = more[j]
  <2>1. /\ Len(pipe') = Len(pipe) + Len(more) /\ Len(pipe) \in Nat /\ Len(more) \in Nat
        /\ \A i \in 1..(Len(pipe) + Len(more)) :
             pipe'[i] = IF i <= Len(pipe) THEN pipe[i] ELSE more[i - Len(pipe)]
    BY <1>3, ConcatProperties, LenProperties
  <2> QED BY <2>1
<1>5. \A j \in 1..Len(more) : Carries(more[j]) => more[j].text = last'[more[j].buf].text
  BY <1>2 DEF SendsMore
<1>6. \A b \in Bufs : \A x \in Texts(b)' : x \in Texts(b) \/ x = last'[b].text
  BY <1>1, <1>4, <1>5, TextsAre DEF Texts, daemonVars
<1>7. \A b \in Bufs : /\ last[b].text \in Nat /\ last'[b].text \in Nat
                      /\ text[b] \in Nat /\ text'[b] \in Nat
  BY DEF EditorTyped
<1>8. \A b \in Bufs : text[b] <= text'[b] /\ last'[b].text \in {last[b].text, text[b]}
                      /\ last[b].text <= text[b]
  BY <1>1 DEF Patience, Sent
<1>9. \A b \in Bufs : last'[b].text <= text'[b] /\ last[b].text <= last'[b].text
  BY <1>7, <1>8
<1>10. \A b \in Bufs : \A x \in Texts(b) : x \in Nat /\ x <= last[b].text
  BY TextsNat DEF Sent
<1>11. \A b \in Bufs : \A x \in Texts(b)' : x <= last'[b].text
  BY <1>6, <1>7, <1>9, <1>10
<1> QED BY <1>9, <1>11 DEF Sent

\* The daemon has no text but from the pipe.
LEMMA DaemonTexts ==
  ASSUME EditorTyped, DaemonTyped, DaemonStep, NEW b \in Bufs, NEW x \in Texts(b)'
  PROVE  x \in Texts(b)
<1>1. /\ \/ \E p \in starts' : p.buf = b /\ p.text = x
         \/ \E u \in updates' : u.buf = b /\ u.text = x
         \/ table'[b] # None /\ table'[b].newest = x
         \/ \E i \in 1..Len(pipe') : Carries(pipe'[i]) /\ pipe'[i].buf = b /\ pipe'[i].text = x
  BY DEF Texts
<1>2. table \in [Bufs -> {None} \union Preview]
  BY DEF DaemonTyped
<1>3. CASE Read
  <2> DEFINE r == Head(pipe)
  <2>1. /\ Len(pipe) \in Nat \ {0} /\ Len(pipe') = Len(pipe) - 1 /\ r = pipe[1]
        /\ \A i \in 1..Len(pipe') : pipe'[i] = pipe[i + 1]
        /\ ReadsServe(r) \/ ReadsUpdate(r) \/ ReadsOpts(r) \/ ReadsStop(r) \/ ReadsStopAll(r)
    BY <1>3, ReadSpec
  <2>2. 1 \in 1..Len(pipe) /\ \A i \in 1..Len(pipe') : i + 1 \in 1..Len(pipe)
    BY <2>1
  <2>3. CASE \E i \in 1..Len(pipe') : /\ Carries(pipe'[i]) /\ pipe'[i].buf = b
                                      /\ pipe'[i].text = x
    BY <2>1, <2>2, <2>3, TextsAre
  <2>4. Carries(r) /\ r.buf = b => r.text \in Texts(b)
    BY <2>1, <2>2, TextsAre
  <2> HIDE DEF r
  <2>5. ASSUME \E p \in starts' : p.buf = b /\ p.text = x PROVE x \in Texts(b)
    BY <2>1, <2>4, <2>5, TextsAre
       DEF ReadsServe, ReadsUpdate, ReadsOpts, ReadsStop, ReadsStopAll, Serve, Carries
  <2>6. ASSUME \E u \in updates' : u.buf = b /\ u.text = x PROVE x \in Texts(b)
    BY <2>1, <2>4, <2>6, TextsAre
       DEF ReadsServe, ReadsUpdate, ReadsOpts, ReadsStop, ReadsStopAll, Updates, Carries
  <2>7. ASSUME table'[b] # None, table'[b].newest = x PROVE x \in Texts(b)
    BY <1>2, <2>1, <2>7, TextsAre
       DEF ReadsServe, ReadsUpdate, ReadsOpts, ReadsStop, ReadsStopAll, Stops
  <2> QED BY <1>1, <2>3, <2>5, <2>6, <2>7
<1>4. ASSUME NEW task \in starts, Bind(task) \/ BindFails(task) PROVE x \in Texts(b)
  <2>1. /\ UNCHANGED <<pipe, updates, table>>
        /\ \A p \in starts' : \E q \in starts : q.buf = p.buf /\ q.text = p.text
    BY <1>4, TypedParts DEF Bind, BindFails, Task
  <2> QED BY <1>1, <2>1, TextsAre
<1>5. ASSUME NEW task \in starts, Insert(task) PROVE x \in Texts(b)
  <2> DEFINE new == [server |-> task.server, epoch |-> task.server, issued |-> 0, served |-> 0,
                     newest |-> task.text, astray |-> FALSE]
  <2>1. /\ UNCHANGED <<pipe, updates>> /\ starts' \subseteq starts
        /\ table' = table \/ table' = [table EXCEPT ![task.buf] = new]
    BY <1>5 DEF Insert
  <2>2. new.newest = task.text /\ task.buf \in Bufs
    BY TypedParts
  <2> HIDE DEF new
  <2>3. table'[b] = table[b] \/ (b = task.buf /\ table'[b] = new)
    BY <1>2, <2>1
  <2> QED BY <1>1, <2>1, <2>2, <2>3, TextsAre
<1>6. ASSUME NEW u \in updates, Number(u) PROVE x \in Texts(b)
  <2>1. UNCHANGED <<pipe, starts>> /\ u.buf \in Bufs
    BY <1>6, TypedParts DEF Number
  <2>2. CASE table[u.buf] = None
    BY <1>1, <1>6, <2>1, <2>2, TextsAre DEF Number
  <2>3. CASE table[u.buf] # None
    <3>1. /\ updates' = (updates \ {u}) \union {WithNumber(u)}
          /\ table' = [table EXCEPT ![u.buf] = Issuing(u)]
      BY <1>6, <2>3, NumberSpec
    <3>2. /\ WithNumber(u).buf = u.buf /\ WithNumber(u).text = u.text
          /\ Issuing(u).newest \in {table[u.buf].newest, u.text}
      BY <2>3, NumberedSpec
    <3>3. table'[b] = table[b] \/ (b = u.buf /\ table'[b] = Issuing(u))
      BY <1>2, <3>1
    <3>4. u.text \in Texts(u.buf) /\ table[u.buf].newest \in Texts(u.buf)
      BY <2>3, TextsAre
    <3>5. ASSUME \E v \in updates' : v.buf = b /\ v.text = x PROVE x \in Texts(b)
      BY <3>1, <3>2, <3>4, <3>5, TextsAre
    <3>6. ASSUME table'[b] # None, table'[b].newest = x PROVE x \in Texts(b)
      BY <3>2, <3>3, <3>4, <3>6, TextsAre
    <3> QED BY <1>1, <2>1, <3>5, <3>6, TextsAre
  <2> QED BY <2>2, <2>3
<1>7. ASSUME NEW u \in updates, Show(u) PROVE x \in Texts(b)
  <2>1. UNCHANGED <<pipe, starts>> /\ updates' \subseteq updates /\ u.buf \in Bufs
    BY <1>7, TypedParts DEF Show
  <2>2. CASE table' = table
    BY <1>1, <2>1, <2>2, TextsAre
  <2>3. CASE Newest(u)
    <3> DEFINE t == [table[u.buf] EXCEPT !.served = u.seq]
    <3>1. table' = [table EXCEPT ![u.buf] = t]
      BY <1>7, <2>3 DEF Show
    <3>2. table[u.buf] # None /\ t.newest = table[u.buf].newest
      BY <1>2, <2>1, <2>3 DEF Newest, Preview
    <3> HIDE DEF t
    <3>3. table'[b] # None => table[b] # None /\ table'[b].newest = table[b].newest
      BY <1>2, <2>1, <3>1, <3>2
    <3> QED BY <1>1, <2>1, <3>3, TextsAre
  <2> QED BY <1>7, <2>2, <2>3 DEF Show
<1> QED BY <1>3, <1>4, <1>5, <1>6, <1>7 DEF DaemonStep

LEMMA DaemonSent ==
  ASSUME EditorTyped, DaemonTyped, Sent, DaemonStep
  PROVE  Sent'
<1>1. UNCHANGED <<text, last>>
  BY DEF DaemonStep, Read, Bind, BindFails, Insert, Number, Show, editorVars
<1>2. \A b \in Bufs : Texts(b)' \subseteq Texts(b)
  BY DaemonTexts
<1> QED BY <1>1, <1>2 DEF Sent

-----------------------------------------------------------------------------
(* The theorems.                                                           *)

LEMMA ExitsOrdered ==
  ASSUME Sent, DaemonExits
  PROVE  Ordered' /\ Sent'
<1>1. /\ table' = [b \in Bufs |-> None] /\ starts' = {} /\ updates' = {} /\ pipe' = << >>
      /\ UNCHANGED <<text, last>>
  BY DEF DaemonExits
<1>2. \A b \in Bufs : Texts(b)' = {}
  BY <1>1 DEF Texts
<1> QED BY <1>1, <1>2 DEF Ordered, NewestKept, NumbersRise, NumbersAgree, Sent

\* What the editor does leaves the daemon what it is.
LEMMA EditorKnown ==
  ASSUME EditorTyped, DaemonTyped, Known, EditorStep
  PROVE  DaemonTyped' /\ Known'
<1>1. UNCHANGED daemonVars
  BY EditorSends
<1> QED BY <1>1
        DEF daemonVars, DaemonTyped, Known, Displayed, Bound, OfServers, Accounted

LEMMA InvInit == TableInit => Inv
<1> SUFFICES ASSUME TableInit PROVE Inv
  OBVIOUS
<1>1. EditorTyped
  BY EmptySeq DEF TableInit, EditorTyped
<1>2. DaemonTyped /\ Known
  BY EmptySeq DEF TableInit, DaemonTyped, Known, Displayed, Bound, OfServers, Accounted
<1>3. \A b \in Bufs : Texts(b) = {}
  BY DEF TableInit, Texts
<1>4. Ordered /\ Sent
  BY <1>3 DEF TableInit, Ordered, NewestKept, NumbersRise, NumbersAgree, Sent
<1> QED BY <1>1, <1>2, <1>4 DEF Inv, Typed

LEMMA InvStutters == Inv /\ UNCHANGED tableVars => Inv'
BY DEF Inv, Typed, EditorTyped, DaemonTyped, Known, Displayed, Bound, OfServers, Accounted,
       Ordered, NewestKept, NumbersRise, NumbersAgree, Sent, Texts, tableVars, editorVars, daemonVars

LEMMA StepKinds == TableNext => EditorStep \/ DaemonExits \/ DaemonStep
BY DEF TableNext, EditorStep, DaemonStep

LEMMA InvNext == Inv /\ [TableNext]_tableVars => Inv'
<1> SUFFICES ASSUME Inv, [TableNext]_tableVars PROVE Inv'
  OBVIOUS
<1>1. EditorTyped /\ DaemonTyped /\ Known /\ Ordered /\ Sent
  BY DEF Inv, Typed
<1>2. CASE EditorStep
  BY <1>1, <1>2, EditorTypedStep, EditorKnown, EditorOrdered, EditorSent DEF Inv, Typed
<1>3. CASE DaemonExits
  BY <1>1, <1>3, ExitsTypedKnown, ExitsOrdered DEF Inv, Typed
<1>4. CASE DaemonStep
  <2>1. EditorTyped' /\ DaemonTyped' /\ Known'
    BY <1>1, <1>4, DaemonTypedStep, DaemonKnown
  <2>2. Ordered'
    BY <1>1, <1>4, ReadOrdered, BindOrdered, InsertOrdered, NumberOrdered, ShowOrdered
       DEF DaemonStep
  <2>3. Sent'
    BY <1>1, <1>4, DaemonSent
  <2> QED BY <2>1, <2>2, <2>3 DEF Inv, Typed
<1> QED BY <1>2, <1>3, <1>4, InvStutters, StepKinds

\* A server runs only while the table or the task that started it has it, and what
\* the table has does run, in whatever order starts, stops and a full table meet.
THEOREM PreviewServersAreHeld == TableSpec => []EveryServerIsHeld
<1>1. Inv => EveryServerIsHeld
  <2> SUFFICES ASSUME Inv PROVE EveryServerIsHeld
    OBVIOUS
  <2>1. Known /\ DOMAIN servers = 1..Len(servers)
    BY LenProperties DEF Inv, Typed, DaemonTyped
  <2>2. Running \subseteq InTable \union {task.server : task \in starts}
    BY <2>1 DEF Known, Accounted, Running, InTable
  <2>3. InTable \subseteq Running
    BY <2>1 DEF Known, Displayed, Running, InTable
  <2> QED BY <2>2, <2>3 DEF EveryServerIsHeld
<1> QED BY <1>1, InvInit, InvNext, PTL DEF TableSpec

\* A step that shows an older text than what is shown is one of an update that was
\* late for its number.
LEMMA TextsRise ==
  ASSUME Inv, [TableNext]_tableVars, NEW s \in DOMAIN servers,
         servers'[s].text < servers[s].text
  PROVE  \E u \in updates \ updates' : u.late /\ table[u.buf].server = s
<1>1. EditorTyped /\ DaemonTyped /\ Known /\ Ordered
  BY DEF Inv, Typed
<1>2. /\ DOMAIN servers = 1..Len(servers) /\ servers \in Seq(Server) /\ Len(servers) \in Nat
      /\ s \in 1..Len(servers) /\ servers[s].text \in Nat
  BY <1>1, TypedParts, LenProperties DEF DaemonTyped, Server
<1>3. servers'[s].text # servers[s].text
  BY <1>2
<1>4. ~ (EditorStep \/ UNCHANGED tableVars)
  BY <1>1, <1>3, EditorSends DEF daemonVars, tableVars
<1>5. ~ DaemonExits
  BY <1>2, <1>3, HaltedSpec DEF DaemonExits
<1>6. ~ Read
  BY <1>1, <1>2, <1>3, ReadSpec, ReadKeepsTexts
<1>7. ASSUME NEW task \in starts, Bind(task) \/ BindFails(task) \/ Insert(task) PROVE FALSE
  <2>1. ASSUME Bind(task) PROVE servers'[s].text = servers[s].text
    BY <1>1, TypedParts, <1>2, <2>1, AppendProperties DEF Task, Server, Bind
  <2>2. ASSUME BindFails(task) PROVE servers'[s].text = servers[s].text
    BY <2>2 DEF BindFails
  <2>3. ASSUME Insert(task) PROVE servers'[s].text = servers[s].text
    BY <1>2, <2>3, HaltedSpec DEF Insert
  <2> QED BY <1>3, <1>7, <2>1, <2>2, <2>3
<1>8. ASSUME NEW u \in updates, Number(u) PROVE FALSE
  BY <1>3, <1>8 DEF Number
<1>9. PICK u \in updates : Show(u)
  BY <1>4, <1>5, <1>6, <1>7, <1>8, StepKinds DEF DaemonStep
<1>10. Newest(u)
  BY <1>3, <1>9 DEF Show
<1> DEFINE t == table[u.buf]
<1>11. /\ t # None /\ t.epoch = u.epoch /\ t.served < u.seq
       /\ servers'[t.server].text = u.text
       /\ \A i \in 1..Len(servers) : i # t.server => servers'[i] = servers[i]
  BY <1>1, <1>9, <1>10, ShowSpec
<1>12. t.server = s
  BY <1>2, <1>3, <1>11
<1>13. u.late \in BOOLEAN /\ u.text \in Nat /\ u.seq \in Nat /\ t.served \in Nat
  BY <1>1, <1>11, TypedParts
<1>14. ~ u.late => servers[s].text <= u.text
  BY <1>1, <1>11, <1>12, <1>13 DEF Ordered, NumbersRise
<1>15. u \notin updates'
  BY <1>9 DEF Show
<1> QED BY <1>2, <1>11, <1>12, <1>13, <1>14, <1>15

\* Whatever order tasks are run in and renders end in, a page goes back to an older
\* text only by an update that took its number when a newer text had one.
THEOREM PreviewGoesBackOnlyLate == TableSpec => GoesBackOnlyByALateOne
<1>1. Inv /\ [TableNext]_tableVars =>
        [\A s \in DOMAIN servers :
           servers'[s].text < servers[s].text =>
             \E u \in updates \ updates' : u.late /\ table[u.buf].server = s]_tableVars
  BY TextsRise
<1> QED BY <1>1, InvInit, InvNext, PTL DEF TableSpec, GoesBackOnlyByALateOne


-----------------------------------------------------------------------------
(* The two tables, and what is on its way between them.                    *)

Has(seq, R) == \E i \in 1..Len(seq) : seq[i] \in R

\* The last of R in a sequence, if there is one, is in S.
LastIs(seq, R, S) ==
  \A i \in 1..Len(seq) :
    seq[i] \in R /\ (\A j \in 1..Len(seq) : j > i => seq[j] \notin R) => seq[i] \in S

ServesOf(b)  == {r \in Serve : r.buf = b}
UpdatesOf(b) == {r \in Updates : r.buf = b}
OptsOf(b)    == {r \in Opts : r.buf = b}
StopsOf(b)   == {r \in Stops : r.buf = b} \union StopAll
About(b)     == ServesOf(b) \union UpdatesOf(b) \union OptsOf(b) \union StopsOf(b)

\* A server is asked for after what was there was told to stop, and nothing is said
\* about it before it is there.
ServeIsLast(seq, b, there) ==
  \A i \in 1..Len(seq) : seq[i] \in ServesOf(b) =>
    /\ \A j \in 1..Len(seq) : j > i => seq[j] \notin About(b)
    /\ there => \E j \in 1..Len(seq) : j < i /\ seq[j] \in StopsOf(b)

Asked(id, b) == \E c \in calls : c.id = id /\ c.buf = b

\* What was sent last has its number, or is on its way to it.
Coming(b) == \E u \in updates : u.buf = b /\ u.epoch = 0 /\ u.text = last[b].text

TextComes(b) ==
  /\ LastIs(pipe, UpdatesOf(b), {r \in UpdatesOf(b) : r.text = last[b].text})
  /\ ~ Has(pipe, UpdatesOf(b)) => Coming(b) \/ table[b].newest = last[b].text

PageComes(b) ==
  /\ LastIs(pipe, OptsOf(b), {r \in OptsOf(b) : r.page = last[b].page})
  /\ ~ Has(pipe, OptsOf(b)) => servers[table[b].server].page = last[b].page

\* The editor has, or is about to have, the server that the daemon has for a buffer.
Shown(b, server) ==
  /\ table[b] # None /\ table[b].server = server
  /\ ~ Has(pipe, StopsOf(b))
  /\ TextComes(b) /\ PageComes(b)

AsSent(b, r) == r.text = last[b].text /\ r.page = last[b].page

\* A buffer is waited for by one call or none.
OneCall(b) ==
  /\ opening[b] = "no" <=> \A c \in calls : c.buf # b
  /\ \A c, d \in calls : c.buf = b /\ d.buf = b => c = d

Serving(b) ==
  /\ ServeIsLast(pipe, b, table[b] # None)
  /\ \A i \in 1..Len(pipe) :
       pipe[i] \in ServesOf(b) => Asked(pipe[i].id, b) /\ AsSent(b, pipe[i])

Starting(b) ==
  \A p \in starts : p.buf = b =>
    /\ Asked(p.id, b) /\ AsSent(b, p)
    /\ \A q \in starts : q.buf = b => q = p
    /\ table[b] = None /\ ~ Has(pipe, About(b))

Answering(b) ==
  \A a \in answers : a.buf = b =>
    /\ Asked(a.id, b)
    /\ \A e \in answers : e.buf = b => e = a
    /\ \A p \in starts : p.buf # b
    /\ ~ Has(pipe, ServesOf(b))
    /\ IF a.server = 0 THEN table[b] = None ELSE Shown(b, a.server)

Holds(b) ==
  /\ held[b] # None => opening[b] = "no" /\ Shown(b, held[b].server)
  /\ held[b] = None /\ opening[b] = "no" /\ table[b] # None => Has(pipe, StopsOf(b))

Agree(b) == OneCall(b) /\ Serving(b) /\ Starting(b) /\ Answering(b) /\ Holds(b)

CallsOnce == \A c, d \in calls : c.id < serial /\ (c.id = d.id => c = d)

Agreed == ~ given => CallsOnce /\ \A b \in Bufs : Agree(b)

-----------------------------------------------------------------------------
(* What a sequence says.                                                   *)

\* The indexes of two sequences in one.
LEMMA JoinIndexes ==
  ASSUME NEW X, NEW s \in Seq(X), NEW t \in Seq(X)
  PROVE  /\ Len(s) \in Nat /\ Len(t) \in Nat /\ Len(s \o t) = Len(s) + Len(t)
         /\ \A i \in 1..Len(s) : i \in 1..Len(s \o t) /\ (s \o t)[i] = s[i]
         /\ \A i \in 1..Len(t) : Len(s) + i \in 1..Len(s \o t) /\ (s \o t)[Len(s) + i] = t[i]
         /\ \A i \in 1..Len(s \o t) : \/ i \in 1..Len(s) /\ (s \o t)[i] = s[i]
                                      \/ /\ i > Len(s) /\ i - Len(s) \in 1..Len(t)
                                         /\ (s \o t)[i] = t[i - Len(s)]
<1> DEFINE m == Len(s)
           n == Len(t)
           u == s \o t
<1>1. /\ m \in Nat /\ n \in Nat /\ Len(u) = m + n
      /\ \A i \in 1..(m + n) : u[i] = IF i <= m THEN s[i] ELSE t[i - m]
  BY LenProperties, ConcatProperties
<1> HIDE DEF m, n, u
<1>2. /\ m \in Nat /\ n \in Nat /\ Len(u) = m + n
      /\ \A i \in 1..m : i \in 1..Len(u) /\ u[i] = s[i]
      /\ \A i \in 1..n : m + i \in 1..Len(u) /\ u[m + i] = t[i]
      /\ \A i \in 1..Len(u) : \/ i \in 1..m /\ u[i] = s[i]
                              \/ i > m /\ i - m \in 1..n /\ u[i] = t[i - m]
  BY <1>1
<1> QED BY <1>2 DEF m, n, u

\* What a sequence has when another is put behind it, and which of it comes last.
LEMMA HasJoin ==
  ASSUME NEW X, NEW s \in Seq(X), NEW t \in Seq(X), NEW R
  PROVE  /\ Has(s \o t, R) <=> Has(s, R) \/ Has(t, R)
         /\ \A S : LastIs(s, R, S) /\ ~ Has(t, R) => LastIs(s \o t, R, S)
         /\ \A S : LastIs(t, R, S) /\ Has(t, R) => LastIs(s \o t, R, S)
<1> DEFINE m == Len(s)
           n == Len(t)
           u == s \o t
<1>1. /\ m \in Nat /\ n \in Nat /\ Len(u) = m + n
      /\ \A i \in 1..m : i \in 1..Len(u) /\ u[i] = s[i]
      /\ \A i \in 1..n : m + i \in 1..Len(u) /\ u[m + i] = t[i]
      /\ \A i \in 1..Len(u) : \/ i \in 1..m /\ u[i] = s[i]
                              \/ i > m /\ i - m \in 1..n /\ u[i] = t[i - m]
  BY JoinIndexes
<1> HIDE DEF u
<1>2. Has(u, R) <=> Has(s, R) \/ Has(t, R)
  BY <1>1 DEF Has, m, n
<1>3. ASSUME NEW S, LastIs(s, R, S), ~ Has(t, R) PROVE LastIs(u, R, S)
  <2> SUFFICES ASSUME NEW i \in 1..Len(u), u[i] \in R,
                      \A j \in 1..Len(u) : j > i => u[j] \notin R
               PROVE  u[i] \in S
    BY DEF LastIs
  <2>1. i \in 1..m /\ u[i] = s[i]
    BY <1>1, <1>3 DEF Has
  <2>2. \A j \in 1..m : j > i => s[j] \notin R
    BY <1>1
  <2> QED BY <1>3, <2>1, <2>2 DEF LastIs
<1>4. ASSUME NEW S, LastIs(t, R, S), Has(t, R) PROVE LastIs(u, R, S)
  <2> SUFFICES ASSUME NEW i \in 1..Len(u), u[i] \in R,
                      \A j \in 1..Len(u) : j > i => u[j] \notin R
               PROVE  u[i] \in S
    BY DEF LastIs
  <2>1. i - m \in 1..n /\ u[i] = t[i - m] /\ i > m
    BY <1>4, <1>1 DEF Has
  <2>2. \A j \in 1..n : j > i - m => t[j] \notin R
    <3> SUFFICES ASSUME NEW j \in 1..n, j > i - m PROVE t[j] \notin R
      OBVIOUS
    <3>1. m + j \in 1..Len(u) /\ u[m + j] = t[j]
      BY <1>1
    <3>2. m + j > i
      BY <1>1
    <3> QED BY <3>1, <3>2
  <2> QED BY <1>4, <2>1, <2>2 DEF LastIs
<1> QED BY <1>2, <1>3, <1>4 DEF u

\* One request.
LEMMA HasOne ==
  ASSUME NEW X, NEW r \in X, NEW R
  PROVE  /\ << r >> \in Seq(X)
         /\ Has(<< r >>, R) <=> r \in R
         /\ \A S : r \in S => LastIs(<< r >>, R, S)
<1>1. << r >> \in Seq(X) /\ Len(<< r >>) = 1 /\ << r >>[1] = r /\ 1..1 = {1}
  OBVIOUS
<1> QED BY <1>1 DEF Has, LastIs

\* What is left of a sequence when its first element is taken off.
LEMMA HasTail ==
  ASSUME NEW X, NEW s \in Seq(X), s # << >>, NEW R
  PROVE  /\ Has(s, R) <=> Head(s) \in R \/ Has(Tail(s), R)
         /\ \A S : LastIs(s, R, S) => LastIs(Tail(s), R, S)
         /\ \A S : LastIs(s, R, S) /\ Head(s) \in R /\ ~ Has(Tail(s), R) => Head(s) \in S
<1> DEFINE t == Tail(s)
           n == Len(s)
<1>1. /\ n \in Nat \ {0} /\ Len(t) = n - 1 /\ Head(s) = s[1]
      /\ \A i \in 1..Len(t) : t[i] = s[i + 1]
  BY HeadTailProperties, EmptySeq, LenProperties
<1> HIDE DEF t, n
<1>2. \A i \in 1..n : i = 1 \/ (i - 1 \in 1..Len(t) /\ s[i] = t[i - 1])
  BY <1>1
<1>3. \A i \in 1..Len(t) : i + 1 \in 1..n
  BY <1>1
<1>4. (\E i \in 1..n : s[i] \in R) <=> s[1] \in R \/ \E i \in 1..Len(t) : t[i] \in R
  <2>1. 1 \in 1..n
    BY <1>1
  <2> QED BY <1>1, <1>2, <1>3, <2>1
<1>5. ASSUME NEW S, LastIs(s, R, S) PROVE LastIs(t, R, S)
  <2> SUFFICES ASSUME NEW i \in 1..Len(t), t[i] \in R,
                      \A j \in 1..Len(t) : j > i => t[j] \notin R
               PROVE  t[i] \in S
    BY DEF LastIs
  <2>1. \A j \in 1..n : j > i + 1 => s[j] \notin R
    <3> SUFFICES ASSUME NEW j \in 1..n, j > i + 1 PROVE s[j] \notin R
      OBVIOUS
    <3>1. j - 1 \in 1..Len(t) /\ j - 1 > i /\ s[j] = t[j - 1]
      BY <1>1, <1>2
    <3> QED BY <3>1
  <2> QED BY <1>1, <1>3, <1>5, <2>1 DEF LastIs, n
<1>6. ASSUME NEW S, LastIs(s, R, S), s[1] \in R, ~ Has(t, R) PROVE s[1] \in S
  BY <1>2, <1>6, <1>1 DEF Has, LastIs, n
<1> QED BY <1>1, <1>4, <1>5, <1>6 DEF Has, t, n

\* Requests of five kinds; those about a buffer.
LEMMA KindsOf ==
  ASSUME NEW b \in Bufs
  PROVE  /\ \A R \in {ServesOf(b), UpdatesOf(b), OptsOf(b), StopsOf(b)} : R \subseteq About(b)
         /\ \A r \in Request : r \in About(b) <=> r \in StopAll \/ (r \notin StopAll /\ r.buf = b)
         /\ \A r \in Serve : r \notin UpdatesOf(b) \union OptsOf(b) \union StopsOf(b)
         /\ \A r \in Updates : r \notin ServesOf(b) \union OptsOf(b) \union StopsOf(b)
         /\ \A r \in Opts : r \notin ServesOf(b) \union UpdatesOf(b) \union StopsOf(b)
         /\ \A r \in Stops \union StopAll :
              r \notin ServesOf(b) \union UpdatesOf(b) \union OptsOf(b)
<1>1. /\ \A r \in Serve : r.type = "serve" /\ r.buf \in Bufs
      /\ \A r \in Updates : r.type = "serve_update" /\ r.buf \in Bufs
      /\ \A r \in Opts : r.type = "serve_opts" /\ r.buf \in Bufs
      /\ \A r \in Stops : r.type = "serve_stop" /\ r.buf \in Bufs
      /\ \A r \in StopAll : r.type = "serve_stop_all"
  BY DEF Serve, Updates, Opts, Stops, StopAll
<1>2. /\ \A r \in Serve : r \notin Updates /\ r \notin Opts /\ r \notin Stops /\ r \notin StopAll
      /\ \A r \in Updates : r \notin Opts /\ r \notin Stops /\ r \notin StopAll
      /\ \A r \in Opts : r \notin Stops /\ r \notin StopAll
      /\ \A r \in Stops : r \notin StopAll
  BY <1>1
<1> HIDE DEF Serve, Updates, Opts, Stops, StopAll
<1>3. \A r \in Request : r \in About(b) <=> r \in StopAll \/ (r \notin StopAll /\ r.buf = b)
  BY <1>2 DEF Request, About, ServesOf, UpdatesOf, OptsOf, StopsOf
<1>4. \A R \in {ServesOf(b), UpdatesOf(b), OptsOf(b), StopsOf(b)} : R \subseteq About(b)
  BY DEF About
<1> QED BY <1>2, <1>3, <1>4 DEF ServesOf, UpdatesOf, OptsOf, StopsOf

Kinds(b) == {ServesOf(b), UpdatesOf(b), OptsOf(b), StopsOf(b), About(b)}

\* What a pipe says of a buffer is what another said.
SaysTheSame(s, u, b) ==
  /\ \A R \in Kinds(b) : /\ Has(u, R) <=> Has(s, R)
                         /\ \A S : LastIs(s, R, S) => LastIs(u, R, S)
  /\ \A i \in 1..Len(u) : u[i] \in ServesOf(b) => \E j \in 1..Len(s) : s[j] = u[i]
  /\ \A there : ServeIsLast(s, b, there) => ServeIsLast(u, b, there)

\* More that is not about the buffer is behind it.
LEMMA SameWithMore ==
  ASSUME NEW b \in Bufs, NEW s \in Seq(Request), NEW t \in Seq(Request), ~ Has(t, About(b))
  PROVE  SaysTheSame(s, s \o t, b)
<1> DEFINE m == Len(s)
           n == Len(t)
           u == s \o t
<1>1. /\ m \in Nat /\ n \in Nat /\ Len(u) = m + n
      /\ \A i \in 1..m : i \in 1..Len(u) /\ u[i] = s[i]
      /\ \A i \in 1..Len(u) : \/ i \in 1..m /\ u[i] = s[i]
                              \/ i > m /\ i - m \in 1..n /\ u[i] = t[i - m]
  BY JoinIndexes
<1>2. \A R \in Kinds(b) : R \subseteq About(b)
  BY KindsOf DEF Kinds
<1>3. \A R \in Kinds(b) : ~ Has(t, R)
  BY <1>2 DEF Has
<1>4. \A R \in Kinds(b) : /\ Has(u, R) <=> Has(s, R)
                          /\ \A S : LastIs(s, R, S) => LastIs(u, R, S)
  BY <1>3, HasJoin
<1> HIDE DEF u
<1>5. \A i \in 1..Len(u) : u[i] \in About(b) => i \in 1..m /\ u[i] = s[i]
  BY <1>1 DEF Has
<1>6. \A i \in 1..Len(u) : u[i] \in ServesOf(b) => i \in 1..m /\ u[i] = s[i]
  BY <1>5, KindsOf
<1>7. ASSUME NEW there, ServeIsLast(s, b, there) PROVE ServeIsLast(u, b, there)
  <2> SUFFICES ASSUME NEW i \in 1..Len(u), u[i] \in ServesOf(b)
               PROVE  /\ \A j \in 1..Len(u) : j > i => u[j] \notin About(b)
                      /\ there => \E j \in 1..Len(u) : j < i /\ u[j] \in StopsOf(b)
    BY DEF ServeIsLast
  <2>1. i \in 1..m /\ s[i] \in ServesOf(b)
    BY <1>6
  <2>2. \A j \in 1..m : j > i => s[j] \notin About(b)
    BY <1>7, <2>1 DEF ServeIsLast
  <2>3. there => \E j \in 1..m : j < i /\ s[j] \in StopsOf(b)
    BY <1>7, <2>1 DEF ServeIsLast
  <2>4. \A j \in 1..Len(u) : j > i => u[j] \notin About(b)
    BY <1>5, <2>2
  <2>5. there => \E j \in 1..Len(u) : j < i /\ u[j] \in StopsOf(b)
    BY <1>1, <2>3
  <2> QED BY <2>4, <2>5
<1> QED BY <1>4, <1>6, <1>7 DEF SaysTheSame, u

\* A request to serve that is still to come.
LEMMA ServeStaysLast ==
  ASSUME NEW b \in Bufs, NEW s \in Seq(Request), s # << >>, NEW there, NEW still,
         ServeIsLast(s, b, there), still => there /\ Head(s) \notin StopsOf(b)
  PROVE  ServeIsLast(Tail(s), b, still)
<1> DEFINE t == Tail(s)
           n == Len(s)
<1>1. /\ n \in Nat \ {0} /\ Len(t) = n - 1 /\ Head(s) = s[1]
      /\ \A i \in 1..Len(t) : t[i] = s[i + 1]
  BY HeadTailProperties, EmptySeq, LenProperties
<1> HIDE DEF t, n
<1>2. /\ \A i \in 1..n : i = 1 \/ (i - 1 \in 1..Len(t) /\ s[i] = t[i - 1])
      /\ \A i \in 1..Len(t) : i + 1 \in 1..n
  BY <1>1
<1> SUFFICES ASSUME NEW i \in 1..Len(t), t[i] \in ServesOf(b)
             PROVE  /\ \A j \in 1..Len(t) : j > i => t[j] \notin About(b)
                    /\ still => \E j \in 1..Len(t) : j < i /\ t[j] \in StopsOf(b)
  BY DEF ServeIsLast, t
<1>3. i + 1 \in 1..n /\ s[i + 1] \in ServesOf(b)
  BY <1>1, <1>2
<1>4. \A j \in 1..n : j > i + 1 => s[j] \notin About(b)
  BY <1>3 DEF ServeIsLast, n
<1>5. \A j \in 1..Len(t) : j > i => t[j] \notin About(b)
  <2> SUFFICES ASSUME NEW j \in 1..Len(t), j > i PROVE t[j] \notin About(b)
    OBVIOUS
  <2>1. j + 1 \in 1..n /\ j + 1 > i + 1
    BY <1>1, <1>2
  <2> QED BY <1>1, <1>4, <2>1
<1>6. ASSUME still PROVE \E j \in 1..Len(t) : j < i /\ t[j] \in StopsOf(b)
  <2>1. PICK j \in 1..n : j < i + 1 /\ s[j] \in StopsOf(b)
    BY <1>3, <1>6 DEF ServeIsLast, n
  <2>2. j # 1
    BY <1>1, <1>6, <2>1
  <2>3. j - 1 \in 1..Len(t) /\ s[j] = t[j - 1]
    BY <1>2, <2>2
  <2>4. j - 1 < i
    BY <1>1, <2>1
  <2> QED BY <2>1, <2>3, <2>4
<1> QED BY <1>5, <1>6

\* Something that is not about the buffer has been read.
LEMMA SameWithoutHead ==
  ASSUME NEW b \in Bufs, NEW s \in Seq(Request), s # << >>, Head(s) \notin About(b)
  PROVE  SaysTheSame(s, Tail(s), b)
<1> DEFINE t == Tail(s)
           n == Len(s)
<1>1. /\ n \in Nat \ {0} /\ Len(t) = n - 1 /\ Head(s) = s[1]
      /\ \A i \in 1..Len(t) : t[i] = s[i + 1]
  BY HeadTailProperties, EmptySeq, LenProperties
<1>2. \A R \in Kinds(b) : R \subseteq About(b)
  BY KindsOf DEF Kinds
<1>3. \A R \in Kinds(b) : /\ Has(t, R) <=> Has(s, R)
                          /\ \A S : LastIs(s, R, S) => LastIs(t, R, S)
  BY <1>2, HasTail
<1>4. StopsOf(b) \subseteq About(b)
  BY KindsOf
<1>5. \A there : ServeIsLast(s, b, there) => ServeIsLast(t, b, there)
  BY <1>4, ServeStaysLast
<1> HIDE DEF t, n
<1>6. \A i \in 1..Len(t) : i + 1 \in 1..n
  BY <1>1
<1> QED BY <1>1, <1>3, <1>5, <1>6 DEF SaysTheSame, t, n

-----------------------------------------------------------------------------
(* What a step does not touch.                                             *)

SameCalls(b)   == \A c : c.buf = b => (c \in calls' <=> c \in calls)
SameStarts(b)  == \A p : p.buf = b => (p \in starts' <=> p \in starts)
SameAnswers(b) == \A a : a.buf = b => (a \in answers' <=> a \in answers)
SameUpdates(b) == \A u : u.buf = b => (u \in updates' <=> u \in updates)
SamePage(b) ==
  table[b] # None =>
    /\ servers'[table[b].server].text = servers[table[b].server].text
    /\ servers'[table[b].server].page = servers[table[b].server].page
SamePreview(b) == table'[b] = table[b] /\ SamePage(b) /\ SameUpdates(b)
SameWaiting(b) == (opening'[b] = "no" <=> opening[b] = "no") /\ SameCalls(b)

Untouched(b) ==
  /\ SameWaiting(b) /\ SamePreview(b) /\ SameStarts(b) /\ SameAnswers(b)
  /\ held'[b].server = held[b].server /\ (held'[b] = None <=> held[b] = None)
  /\ last'[b] = last[b]
  /\ SaysTheSame(pipe, pipe', b)

LEMMA OneCallStays ==
  ASSUME NEW b \in Bufs, OneCall(b), SameWaiting(b)
  PROVE  OneCall(b)' /\ \A id : Asked(id, b)' <=> Asked(id, b)
<1>1. SameCalls(b) /\ (opening'[b] = "no" <=> opening[b] = "no")
  BY DEF SameWaiting
<1>2. OneCall(b)'
  BY <1>1 DEF OneCall, SameCalls
<1>3. \A id : Asked(id, b)' <=> Asked(id, b)
  BY <1>1 DEF Asked, SameCalls
<1> QED BY <1>2, <1>3

LEMMA ServingStays ==
  ASSUME NEW b \in Bufs, Serving(b), SameCalls(b),
         SaysTheSame(pipe, pipe', b), last'[b] = last[b], table'[b] = table[b]
  PROVE  Serving(b)'
<1>1. ServeIsLast(pipe', b, table[b] # None)
  BY DEF SaysTheSame, Serving
<1>2. ASSUME NEW i \in 1..Len(pipe'), pipe'[i] \in ServesOf(b)
      PROVE  Asked(pipe[i].id, b)' /\ AsSent(b, pipe[i])'
  BY <1>2 DEF SaysTheSame, Serving, Asked, SameCalls, AsSent
<1>3. ServeIsLast(pipe', b, table'[b] # None)
  BY <1>1
<1> QED BY <1>2, <1>3 DEF Serving

LEMMA ComingStays ==
  ASSUME NEW b \in Bufs, SameUpdates(b), last'[b].text = last[b].text
  PROVE  Coming(b)' <=> Coming(b)
BY DEF SameUpdates, Coming

LEMMA ShownStays ==
  ASSUME NEW b \in Bufs, SamePreview(b), last'[b] = last[b], SaysTheSame(pipe, pipe', b),
         NEW server, Shown(b, server)
  PROVE  Shown(b, server)'
<1>1. table'[b] # None /\ table'[b].server = server
  BY DEF Shown, SamePreview
<1>2. \A R \in Kinds(b) : /\ Has(pipe', R) <=> Has(pipe, R)
                          /\ \A S : LastIs(pipe, R, S) => LastIs(pipe', R, S)
  BY DEF SaysTheSame
<1>3. {UpdatesOf(b), OptsOf(b), StopsOf(b)} \subseteq Kinds(b)
  BY DEF Kinds
<1>4. ~ Has(pipe', StopsOf(b))
  BY <1>2, <1>3 DEF Shown
<1>5. LastIs(pipe', UpdatesOf(b), {r \in UpdatesOf(b) : r.text = last'[b].text})
  BY <1>2, <1>3 DEF Shown, TextComes
<1>6. LastIs(pipe', OptsOf(b), {r \in OptsOf(b) : r.page = last'[b].page})
  BY <1>2, <1>3 DEF Shown, PageComes
<1>7. ~ Has(pipe', UpdatesOf(b)) => Coming(b)' \/ table'[b].newest = last'[b].text
  BY ComingStays, <1>2, <1>3 DEF SamePreview, Shown, TextComes
<1>8. ~ Has(pipe', OptsOf(b)) => servers'[table'[b].server].page = last'[b].page
  BY <1>2, <1>3 DEF Shown, PageComes, SamePreview, SamePage
<1>9. TextComes(b)' /\ PageComes(b)'
  BY <1>5, <1>6, <1>7, <1>8 DEF TextComes, PageComes
<1> QED BY <1>1, <1>4, <1>9 DEF Shown

LEMMA StartingStays ==
  ASSUME NEW b \in Bufs, Starting(b), SameStarts(b), \A id : Asked(id, b)' <=> Asked(id, b),
         last'[b] = last[b], table'[b] = table[b],
         Has(pipe', About(b)) => Has(pipe, About(b))
  PROVE  Starting(b)'
<1> SUFFICES ASSUME NEW p \in starts', p.buf = b
             PROVE  /\ Asked(p.id, b)' /\ AsSent(b, p)'
                    /\ \A q \in starts' : q.buf = b => q = p
                    /\ table'[b] = None /\ ~ Has(pipe', About(b))
  BY DEF Starting
<1>1. p \in starts
  BY DEF SameStarts
<1>2. /\ Asked(p.id, b) /\ AsSent(b, p)
      /\ \A q \in starts : q.buf = b => q = p
      /\ table[b] = None /\ ~ Has(pipe, About(b))
  BY <1>1 DEF Starting
<1>3. AsSent(b, p)'
  BY <1>2 DEF AsSent
<1>4. \A q \in starts' : q.buf = b => q = p
  BY <1>2 DEF SameStarts
<1> QED BY <1>2, <1>3, <1>4

LEMMA AnsweringStays ==
  ASSUME NEW b \in Bufs, Answering(b), SameAnswers(b), \A id : Asked(id, b)' <=> Asked(id, b),
         \A p \in starts' : p.buf = b => \E q \in starts : q.buf = b,
         Has(pipe', ServesOf(b)) => Has(pipe, ServesOf(b)),
         table[b] = None => table'[b] = None,
         \A server : Shown(b, server) => Shown(b, server)'
  PROVE  Answering(b)'
<1> SUFFICES ASSUME NEW a \in answers', a.buf = b
             PROVE  /\ Asked(a.id, b)'
                    /\ \A e \in answers' : e.buf = b => e = a
                    /\ \A p \in starts' : p.buf # b
                    /\ ~ Has(pipe', ServesOf(b))
                    /\ IF a.server = 0 THEN table'[b] = None ELSE Shown(b, a.server)'
  BY DEF Answering
<1>1. a \in answers
  BY DEF SameAnswers
<1>2. /\ Asked(a.id, b)
      /\ \A e \in answers : e.buf = b => e = a
      /\ \A p \in starts : p.buf # b
      /\ ~ Has(pipe, ServesOf(b))
      /\ IF a.server = 0 THEN table[b] = None ELSE Shown(b, a.server)
  BY <1>1 DEF Answering
<1>3. \A e \in answers' : e.buf = b => e = a
  BY <1>2 DEF SameAnswers
<1>4. \A p \in starts' : p.buf # b
  BY <1>2
<1>5. a.server # 0 => Shown(b, a.server)'
  BY <1>2
<1> QED BY <1>2, <1>3, <1>4, <1>5

LEMMA HoldsStays ==
  ASSUME NEW b \in Bufs, Holds(b),
         held'[b].server = held[b].server, held'[b] = None <=> held[b] = None,
         opening'[b] = "no" <=> opening[b] = "no", table'[b] = table[b],
         Has(pipe, StopsOf(b)) => Has(pipe', StopsOf(b)),
         \A server : Shown(b, server) => Shown(b, server)'
  PROVE  Holds(b)'
<1>1. held'[b] # None => opening'[b] = "no" /\ Shown(b, held[b].server)'
  BY DEF Holds
<1>2. held'[b] = None /\ opening'[b] = "no" /\ table'[b] # None => Has(pipe', StopsOf(b))
  BY DEF Holds
<1> QED BY <1>1, <1>2 DEF Holds

\* What a step does not touch agrees after it.
LEMMA AgreeStays ==
  ASSUME NEW b \in Bufs, Agree(b), Untouched(b)
  PROVE  Agree(b)'
<1>1. OneCall(b)' /\ \A id : Asked(id, b)' <=> Asked(id, b)
  BY OneCallStays DEF Agree, Untouched
<1>2. Serving(b)'
  BY ServingStays DEF Agree, Untouched, SamePreview, SameWaiting
<1>3. \A R \in Kinds(b) : Has(pipe', R) <=> Has(pipe, R)
  BY DEF Untouched, SaysTheSame
<1>4. {ServesOf(b), StopsOf(b), About(b)} \subseteq Kinds(b)
  BY DEF Kinds
<1>5. Starting(b)'
  BY <1>1, <1>3, <1>4, StartingStays DEF Agree, Untouched, SamePreview
<1>6. \A server : Shown(b, server) => Shown(b, server)'
  BY ShownStays DEF Untouched
<1>7. Answering(b)'
  BY <1>1, <1>3, <1>4, <1>6, AnsweringStays DEF Agree, Untouched, SamePreview, SameStarts
<1>8. Holds(b)'
  BY <1>3, <1>4, <1>6, HoldsStays DEF Agree, Untouched, SamePreview, SameWaiting
<1> QED BY <1>1, <1>2, <1>5, <1>7, <1>8 DEF Agree

-----------------------------------------------------------------------------
(* What the editor does.                                                   *)

\* Nothing that would answer an opening is on its way.
NoneOpens(b) ==
  /\ ~ Has(pipe, ServesOf(b))
  /\ \A p \in starts : p.buf # b
  /\ \A a \in answers : a.buf # b

LEMMA UnaskedOpensNone ==
  ASSUME NEW b \in Bufs, Agree(b), opening[b] = "no"
  PROVE  NoneOpens(b)
<1>1. \A id : ~ Asked(id, b)
  BY DEF Agree, OneCall, Asked
<1> QED BY <1>1 DEF Agree, Serving, Starting, Answering, NoneOpens, Has

LEMMA OpensNoneAgrees ==
  ASSUME NEW b \in Bufs, OneCall(b)', NoneOpens(b)', Holds(b)'
  PROVE  Agree(b)'
<1>1. Serving(b)'
  BY DEF Serving, ServeIsLast, NoneOpens, Has
<1>2. Starting(b)' /\ Answering(b)'
  BY DEF Starting, Answering, NoneOpens
<1> QED BY <1>1, <1>2 DEF Agree

\* A buffer that nothing is asked for is told something.
LEMMA ToldAgrees ==
  ASSUME NEW b \in Bufs, Typed, Agree(b), opening[b] = "no", SameWaiting(b),
         UNCHANGED <<answers, daemonVars>>,
         NEW t \in Seq(Request), pipe' = pipe \o t, ~ Has(t, ServesOf(b)), Holds(b)'
  PROVE  Agree(b)'
<1>1. NoneOpens(b)
  BY UnaskedOpensNone
<1>2. pipe \in Seq(Request)
  BY DEF Typed, EditorTyped
<1>3. Has(pipe', ServesOf(b)) <=> Has(pipe, ServesOf(b)) \/ Has(t, ServesOf(b))
  BY <1>2, HasJoin
<1>4. NoneOpens(b)'
  BY <1>1, <1>3 DEF NoneOpens, daemonVars
<1>5. OneCall(b)'
  BY OneCallStays DEF Agree
<1> QED BY <1>4, <1>5, OpensNoneAgrees

\* What is held of it is dropped, and the daemon told.
LEMMA DroppedAgrees ==
  ASSUME NEW b \in Bufs, Typed, Agree(b), opening[b] = "no", SameWaiting(b),
         UNCHANGED <<answers, daemonVars>>, held'[b] = None,
         NEW r \in Stops \union StopAll, r \in StopsOf(b), pipe' = Append(pipe, r)
  PROVE  Agree(b)'
<1>1. pipe \in Seq(Request) /\ r \in Request
  BY DEF Typed, EditorTyped, Request
<1> DEFINE t == << r >>
<1>2. pipe' = pipe \o t /\ t \in Seq(Request)
  BY <1>1, AppendIsConcat
<1>3. r \notin ServesOf(b)
  BY KindsOf
<1>4. ~ Has(t, ServesOf(b)) /\ Has(t, StopsOf(b))
  BY <1>1, <1>3, HasOne
<1> HIDE DEF t
<1>5. Has(pipe', StopsOf(b))
  BY <1>1, <1>2, <1>4, HasJoin
<1>6. Holds(b)'
  BY <1>5 DEF Holds
<1> QED BY <1>2, <1>4, <1>6, ToldAgrees

\* Nothing is said, or something about another buffer.
LEMMA OtherIsTold ==
  ASSUME NEW b \in Bufs, NEW c \in Bufs, c # b, EditorTyped,
         NEW r \in Request \ StopAll, r.buf = b, pipe' = Append(pipe, r)
  PROVE  SaysTheSame(pipe, pipe', c)
<1>1. pipe \in Seq(Request) /\ r \in Request
  BY DEF EditorTyped
<1> DEFINE t == << r >>
<1>2. pipe' = pipe \o t /\ t \in Seq(Request)
  BY <1>1, AppendIsConcat
<1>3. r \notin About(c)
  BY KindsOf
<1>4. ~ Has(t, About(c))
  BY <1>1, <1>3, HasOne
<1> HIDE DEF t
<1> QED BY <1>1, <1>2, <1>4, SameWithMore

LEMMA SaysNothing ==
  ASSUME NEW b \in Bufs, pipe' = pipe
  PROVE  SaysTheSame(pipe, pipe', b)
BY DEF SaysTheSame

LEMMA DaemonRests ==
  ASSUME NEW b \in Bufs, UNCHANGED daemonVars
  PROVE  SamePreview(b) /\ SameStarts(b)
BY DEF daemonVars, SamePreview, SamePage, SameUpdates, SameStarts

LEMMA OpenAgrees ==
  ASSUME NEW b \in Bufs, Typed, Open(b), CallsOnce, \A c \in Bufs : Agree(c)
  PROVE  CallsOnce' /\ \A c \in Bufs : Agree(c)'
<1> DEFINE r == [type |-> "serve", buf |-> b, id |-> serial, text |-> text[b], page |-> page]
           n == [id |-> serial, buf |-> b]
<1>1. /\ held[b] = None /\ opening[b] = "no" /\ UNCHANGED <<answers, daemonVars, held>>
      /\ opening' = [opening EXCEPT ![b] = "wanted"] /\ calls' = calls \union {n}
      /\ last' = [last EXCEPT ![b] = [text |-> text[b], page |-> page]]
      /\ pipe' = Append(pipe, r) /\ serial' = serial + 1
  BY DEF Open
<1>2. r \in Serve /\ r.buf = b /\ r.id = serial /\ r.text = text[b] /\ r.page = page
      /\ n.id = serial /\ n.buf = b
  BY DEF Typed, EditorTyped, Serve
<1>3. /\ pipe \in Seq(Request) /\ serial \in Nat /\ \A d \in calls : d.id \in Nat
      /\ last \in [Bufs -> [text : Nat, page : Nat]]
      /\ opening \in [Bufs -> {"no", "wanted", "withdrawn"}]
  BY DEF Typed, EditorTyped, Call
<1> HIDE DEF r, n
<1>4. r \in Request /\ r \in ServesOf(b)
  BY <1>2 DEF Request, ServesOf
<1>5. CallsOnce'
  BY <1>1, <1>2, <1>3 DEF CallsOnce
<1>6. ASSUME NEW c \in Bufs, c # b PROVE Agree(c)'
  BY <1>2, <1>4, <1>1, <1>6, OtherIsTold, DaemonRests, <1>3, AgreeStays DEF StopAll, Serve,
     Typed, SameWaiting, SameCalls, SameAnswers, Untouched
<1>7. Agree(b)'
  <2>1. NoneOpens(b)
    BY <1>1, UnaskedOpensNone
  <2>2. \A d \in calls : d.buf # b
    BY <1>1 DEF Agree, OneCall
  <2>3. OneCall(b)'
    BY <1>1, <1>2, <1>3, <2>2 DEF OneCall
  <2> DEFINE m == Len(pipe)
  <2>4. /\ m \in Nat /\ Len(pipe') = m + 1 /\ pipe'[m + 1] = r
        /\ \A i \in 1..m : pipe'[i] = pipe[i]
    BY <1>1, <1>3, <1>4, AppendProperties, LenProperties
  <2>5. \A i \in 1..m : pipe[i] \notin ServesOf(b)
    BY <2>1 DEF NoneOpens, Has
  <2>6. table[b] # None => \E j \in 1..m : pipe[j] \in StopsOf(b)
    BY <1>1 DEF Agree, Holds, Has
  <2> HIDE DEF m
  <2>7. \A i \in 1..Len(pipe') : pipe'[i] \in ServesOf(b) => i = m + 1
    BY <2>4, <2>5
  <2>8. table[b] # None => \E j \in 1..Len(pipe') : j < m + 1 /\ pipe'[j] \in StopsOf(b)
    BY <2>4, <2>6
  <2>9. ServeIsLast(pipe', b, table[b] # None)
    BY <2>4, <2>7, <2>8 DEF ServeIsLast
  <2>10. /\ \E c \in calls' : c.id = r.id /\ c.buf = b
         /\ r.text = last'[b].text /\ r.page = last'[b].page
    BY <1>1, <1>2, <1>3
  <2>11. table' = table /\ starts' = starts /\ answers' = answers
    BY <1>1 DEF daemonVars
  <2>12. Serving(b)'
    BY <2>4, <2>7, <2>9, <2>10, <2>11 DEF Serving, Asked, AsSent
  <2>13. Starting(b)' /\ Answering(b)'
    BY <2>1, <2>11 DEF Starting, Answering, NoneOpens
  <2>14. Holds(b)'
    BY <1>1, <1>3, <2>11 DEF Holds, Agree
  <2> QED BY <2>3, <2>12, <2>13, <2>14 DEF Agree
<1> QED BY <1>5, <1>6, <1>7

LEMMA OfBufferAgrees ==
  ASSUME NEW b \in Bufs, Typed, Close(b) \/ Wipe(b) \/ Edit(b) \/ Push(b),
         \A c \in Bufs : Agree(c)
  PROVE  \A c \in Bufs : Agree(c)'
<1>1. /\ opening \in [Bufs -> {"no", "wanted", "withdrawn"}]
      /\ held \in [Bufs -> {None} \union Holding]
      /\ last \in [Bufs -> [text : Nat, page : Nat]]
      /\ pipe \in Seq(Request)
  BY DEF Typed, EditorTyped
<1>2. UNCHANGED <<calls, answers, daemonVars>>
  BY DEF Close, Wipe, Edit, Push
<1>3. \A c \in Bufs : SamePreview(c) /\ SameStarts(c) /\ SameAnswers(c) /\ SameCalls(c)
  BY <1>2, DaemonRests DEF SameAnswers, SameCalls
<1>4. \A c \in Bufs : opening'[c] = "no" <=> opening[c] = "no"
  BY <1>1 DEF Close, Wipe, Edit, Push
<1>5. \A c \in Bufs : SameWaiting(c)
  BY <1>3, <1>4 DEF SameWaiting
<1>6. ASSUME NEW c \in Bufs, c # b PROVE Agree(c)'
  <2>1. held'[c] = held[c] /\ last'[c] = last[c]
    BY <1>1, <1>6 DEF Close, Wipe, Edit, Push, Discards
  <2>2. SaysTheSame(pipe, pipe', c)
    <3>1. pipe' = pipe \/ \E r \in Request \ StopAll : r.buf = b /\ pipe' = Append(pipe, r)
      <4>1. StopOf(b) \in Request \ StopAll /\ StopOf(b).buf = b
        BY DEF StopOf, Request, Stops, StopAll
      <4>2. ASSUME Push(b)
            PROVE  \E r \in Request \ StopAll : r.buf = b /\ pipe' = Append(pipe, r)
        BY <4>2 DEF Typed, EditorTyped, Updates, StopAll, Push, Request
      <4> HIDE DEF StopOf
      <4> QED BY <4>1, <4>2 DEF Close, Wipe, Edit, Discards
    <3> QED BY <1>6, <3>1, OtherIsTold, SaysNothing DEF Typed
  <2>3. Untouched(c)
    BY <1>3, <1>5, <2>1, <2>2 DEF Untouched
  <2> QED BY <2>3, AgreeStays
<1>7. ASSUME pipe' = pipe, last' = last, held'[b].server = held[b].server,
             held'[b] = None <=> held[b] = None
      PROVE  Agree(b)'
  BY <1>3, <1>5, <1>7, SaysNothing, AgreeStays DEF Untouched
<1>8. ASSUME held[b] # None, Discards(b) PROVE Agree(b)'
  BY <1>1, <1>8, <1>2, <1>5, DroppedAgrees DEF Discards, Agree, Holds, StopOf, Stops, StopsOf
<1>9. ASSUME Close(b) PROVE Agree(b)'
  BY <1>1, <1>7, <1>8, <1>9 DEF Close
<1>10. ASSUME Wipe(b) PROVE Agree(b)'
  BY <1>1, <1>10, <1>7, <1>8 DEF Wipe, Discards
<1>11. ASSUME Edit(b) PROVE Agree(b)'
  BY <1>1, <1>11, <1>7 DEF Edit, Holding, None
<1>12. ASSUME Push(b) PROVE Agree(b)'
  <2> DEFINE r == [type |-> "serve_update", buf |-> b, text |-> text[b]]
             t == << r >>
  <2>1. r \in Updates /\ r.buf = b /\ r.text = text[b]
    BY DEF Typed, EditorTyped, Updates
  <2>2. /\ held[b] # None /\ held' = [held EXCEPT ![b].timer = FALSE]
        /\ last' = [last EXCEPT ![b].text = text[b]] /\ pipe' = Append(pipe, r)
    BY <1>12 DEF Push
  <2> HIDE DEF r
  <2>3. r \in Request
    BY <2>1 DEF Request
  <2>4. t \in Seq(Request) /\ pipe' = pipe \o t
    BY <1>1, <2>2, <2>3, AppendIsConcat
  <2>5. /\ r \in UpdatesOf(b)
        /\ r \notin ServesOf(b) /\ r \notin OptsOf(b) /\ r \notin StopsOf(b)
    BY <2>1, KindsOf DEF UpdatesOf
  <2>6. last'[b].text = text[b] /\ last'[b].page = last[b].page
    BY <1>1, <2>2
  <2> DEFINE S == {q \in UpdatesOf(b) : q.text = last'[b].text}
  <2>7. r \in S
    BY <2>1, <2>5, <2>6
  <2> HIDE DEF S
  <2>8. /\ ~ Has(t, ServesOf(b)) /\ ~ Has(t, OptsOf(b)) /\ ~ Has(t, StopsOf(b))
        /\ Has(t, UpdatesOf(b)) /\ LastIs(t, UpdatesOf(b), S)
    BY <2>3, <2>5, <2>7, HasOne
  <2> HIDE DEF t
  <2>9. /\ LastIs(pipe', UpdatesOf(b), S) /\ Has(pipe', UpdatesOf(b))
        /\ Has(pipe', OptsOf(b)) <=> Has(pipe, OptsOf(b))
        /\ Has(pipe', StopsOf(b)) <=> Has(pipe, StopsOf(b))
        /\ \A Q : LastIs(pipe, OptsOf(b), Q) => LastIs(pipe', OptsOf(b), Q)
    BY <1>1, <2>4, <2>8, HasJoin
  <2>10. opening[b] = "no" /\ Shown(b, held[b].server)
    BY <2>2 DEF Agree, Holds
  <2>11. table' = table /\ servers' = servers
    BY <1>2 DEF daemonVars
  <2>12. TextComes(b)'
    BY <2>9 DEF TextComes, S
  <2>13. PageComes(b)'
    BY <2>6, <2>9, <2>10, <2>11 DEF PageComes, Shown
  <2>14. held'[b].server = held[b].server /\ held'[b] # None
    BY <1>1, <2>2 DEF Holding, None
  <2>15. Shown(b, held[b].server)'
    BY <2>9, <2>10, <2>11, <2>12, <2>13, <2>14 DEF Shown
  <2>16. Holds(b)'
    BY <1>4, <2>10, <2>11, <2>14, <2>15 DEF Holds, Agree
  <2> QED BY <1>2, <1>5, <2>4, <2>8, <2>10, <2>16, ToldAgrees
<1> QED BY <1>6, <1>9, <1>10, <1>11, <1>12

LEMMA CloseAllAgrees ==
  ASSUME Typed, CloseAll, calls = {}, \A c \in Bufs : Agree(c)
  PROVE  \A c \in Bufs : Agree(c)'
<1> SUFFICES ASSUME NEW b \in Bufs PROVE Agree(b)'
  OBVIOUS
<1> DEFINE r == [type |-> "serve_stop_all"]
<1>1. r \in StopAll /\ r \in StopsOf(b)
  BY DEF StopAll, StopsOf
<1>2. /\ held'[b] = None /\ opening'[b] = "no" /\ pipe' = Append(pipe, r)
      /\ UNCHANGED <<calls, answers, daemonVars>>
  BY DEF CloseAll
<1>3. opening[b] = "no"
  BY DEF Agree, OneCall
<1>4. SameWaiting(b)
  BY <1>2, <1>3 DEF SameWaiting, SameCalls
<1> HIDE DEF r
<1> QED BY <1>1, <1>2, <1>3, <1>4, DroppedAgrees

\* Every preview that is told of its options is told of the new ones.
LEMMA OptionsAreTold ==
  ASSUME Typed, SetOption
  PROVE  \E more \in Seq(Request) :
           /\ pipe' = pipe \o more
           /\ \A i \in 1..Len(more) :
                more[i] \in Opts /\ more[i].buf \in Told /\ more[i].page = page'
           /\ \A c \in Told : Has(more, OptsOf(c))
<1> DEFINE Of(order) == [i \in DOMAIN order |->
                           [type |-> "serve_opts", buf |-> order[i], page |-> page']]
<1>1. PICK order \in [1..Cardinality(Told) -> Told] :
        /\ {order[i] : i \in DOMAIN order} = Told
        /\ pipe' = pipe \o Of(order)
  BY DEF SetOption
<1> DEFINE n == Cardinality(Told)
<1>2. n \in Nat /\ Told \subseteq Bufs
  BY PreviewAssumption, FS_Subset, FS_CardinalityType DEF Told
<1>3. page' \in Nat
  BY DEF Typed, EditorTyped, SetOption
<1> DEFINE more == Of(order)
<1>4. /\ DOMAIN more = 1..n
      /\ \A i \in 1..n : more[i] \in Opts /\ more[i].buf = order[i] /\ more[i].page = page'
  BY <1>1, <1>2, <1>3 DEF Opts
<1>5. \A i \in 1..n : more[i] \in Request /\ more[i].buf \in Told
  BY <1>1, <1>4 DEF Request
<1>6. more = [i \in 1..n |-> more[i]]
  BY <1>4
<1>7. \A c \in Told : \E i \in 1..n : order[i] = c
  BY <1>1
<1> HIDE DEF more, n
<1>8. more \in Seq(Request) /\ Len(more) = n
  BY <1>2, <1>4, <1>5, <1>6
<1>9. \A c \in Told : Has(more, OptsOf(c))
  BY <1>4, <1>7, <1>8 DEF Has, OptsOf
<1>10. \A i \in 1..Len(more) : more[i] \in Opts /\ more[i].buf \in Told /\ more[i].page = page'
  BY <1>4, <1>5, <1>8
<1>11. pipe' = pipe \o more
  BY <1>1 DEF more
<1> QED BY <1>8, <1>9, <1>10, <1>11

LEMMA SetOptionAgrees ==
  ASSUME Typed, SetOption, \A c \in Bufs : Agree(c)
  PROVE  \A c \in Bufs : Agree(c)'
<1>1. PICK more \in Seq(Request) :
           /\ pipe' = pipe \o more
           /\ \A i \in 1..Len(more) :
                more[i] \in Opts /\ more[i].buf \in Told /\ more[i].page = page'
           /\ \A c \in Told : Has(more, OptsOf(c))
  BY OptionsAreTold
<1>2. /\ held \in [Bufs -> {None} \union Holding] /\ pipe \in Seq(Request)
      /\ last \in [Bufs -> [text : Nat, page : Nat]]
  BY DEF Typed, EditorTyped
<1>3. /\ UNCHANGED <<calls, answers, opening, daemonVars>>
      /\ held' = [b \in Bufs |-> IF b \in Told THEN [held[b] EXCEPT !.page = page'] ELSE held[b]]
      /\ last' = [b \in Bufs |-> IF b \in Told THEN [last[b] EXCEPT !.page = page'] ELSE last[b]]
  BY DEF SetOption
<1> SUFFICES ASSUME NEW b \in Bufs PROVE Agree(b)'
  OBVIOUS
<1>4. /\ SamePreview(b) /\ SameStarts(b) /\ SameAnswers(b) /\ SameCalls(b) /\ SameWaiting(b)
  BY <1>3, DaemonRests DEF SameAnswers, SameCalls, SameWaiting
<1>5. CASE b \notin Told
  <2>1. held'[b] = held[b] /\ last'[b] = last[b]
    BY <1>3, <1>5
  <2>2. ~ Has(more, About(b))
    <3> SUFFICES ASSUME NEW i \in 1..Len(more), more[i] \in About(b) PROVE FALSE
      BY DEF Has
    <3>1. more[i] \in Opts /\ more[i].buf # b
      BY <1>1, <1>5
    <3>2. more[i] \in Request /\ more[i] \notin StopAll
      BY <3>1 DEF Request, Opts, StopAll
    <3> QED BY <3>1, <3>2, KindsOf
  <2>3. SaysTheSame(pipe, pipe', b)
    BY <1>1, <1>2, <2>2, SameWithMore
  <2>4. Untouched(b)
    BY <1>4, <2>1, <2>3 DEF Untouched
  <2> QED BY <2>4, AgreeStays
<1>6. CASE b \in Told
  <2>1. held[b] # None /\ opening[b] = "no" /\ Shown(b, held[b].server)
    BY <1>6 DEF Told, Agree, Holds
  <2>2. held'[b].server = held[b].server /\ held'[b] # None
    BY <1>2, <1>3, <1>6, <2>1 DEF Holding, None
  <2>3. last'[b].text = last[b].text /\ last'[b].page = page'
    BY <1>2, <1>3, <1>6
  <2>4. \A i \in 1..Len(more) :
          more[i] \notin ServesOf(b) /\ more[i] \notin UpdatesOf(b) /\ more[i] \notin StopsOf(b)
    BY <1>1, KindsOf
  <2>5. ~ Has(more, ServesOf(b)) /\ ~ Has(more, UpdatesOf(b)) /\ ~ Has(more, StopsOf(b))
    BY <2>4 DEF Has
  <2> DEFINE S == {r \in OptsOf(b) : r.page = last'[b].page}
  <2>6. LastIs(more, OptsOf(b), S) /\ Has(more, OptsOf(b))
    BY <1>1, <1>6, <2>3 DEF LastIs
  <2> HIDE DEF S
  <2>7. /\ LastIs(pipe', OptsOf(b), S) /\ Has(pipe', OptsOf(b))
        /\ Has(pipe', UpdatesOf(b)) <=> Has(pipe, UpdatesOf(b))
        /\ Has(pipe', StopsOf(b)) <=> Has(pipe, StopsOf(b))
        /\ \A Q : LastIs(pipe, UpdatesOf(b), Q) => LastIs(pipe', UpdatesOf(b), Q)
    BY <1>1, <1>2, <2>5, <2>6, HasJoin
  <2>8. PageComes(b)'
    BY <2>7 DEF PageComes, S
  <2>9. Coming(b)' <=> Coming(b)
    BY <1>4, <2>3, ComingStays DEF SamePreview
  <2>12. table' = table
    BY <1>3 DEF daemonVars
  <2>11. TextComes(b)'
    BY <2>1, <2>3, <2>7, <2>9, <2>12 DEF TextComes, Shown
  <2>13. Shown(b, held[b].server)'
    BY <2>1, <2>2, <2>7, <2>8, <2>11, <2>12 DEF Shown
  <2>14. Holds(b)'
    BY <1>3, <2>1, <2>2, <2>12, <2>13 DEF Holds, Agree
  <2> QED BY <1>1, <1>3, <1>4, <2>1, <2>5, <2>14, ToldAgrees
<1> QED BY <1>5, <1>6

LEMMA AnswerAgrees ==
  ASSUME Typed, NEW a \in answers, Answer(a), CallsOnce, \A c \in Bufs : Agree(c)
  PROVE  CallsOnce' /\ \A c \in Bufs : Agree(c)'
<1> DEFINE b == a.buf
<1>1. b \in Bufs /\ a.server \in Nat
  BY DEF Typed, EditorTyped, Reply
<1>2. /\ pipe \in Seq(Request) /\ opening \in [Bufs -> {"no", "wanted", "withdrawn"}]
      /\ held \in [Bufs -> {None} \union Holding]
  BY DEF Typed, EditorTyped
<1>3. Answering(b) /\ OneCall(b) /\ Holds(b)
  BY <1>1 DEF Agree
<1> HIDE DEF b
<1>4. /\ Asked(a.id, b) /\ \A e \in answers : e.buf = b => e = a
      /\ \A p \in starts : p.buf # b
      /\ ~ Has(pipe, ServesOf(b))
      /\ IF a.server = 0 THEN table[b] = None ELSE Shown(b, a.server)
  BY <1>3 DEF Answering, b
<1>5. PICK call \in calls : call.id = a.id /\ call.buf = b
  BY <1>4 DEF Asked
<1>6. /\ answers' = answers \ {a} /\ calls' = {c \in calls : c.id # a.id}
      /\ (IF a.server = 0 THEN Unserved(b) ELSE Served(b, a.server))
      /\ UNCHANGED <<given, serial, daemonVars>>
  BY <1>5 DEF Answer, b
<1>7. calls' = calls \ {call}
  BY <1>5, <1>6 DEF CallsOnce
<1>8. CallsOnce'
  BY <1>6, <1>7 DEF CallsOnce
<1>9. opening'[b] = "no" /\ \A c \in Bufs : c # b => opening'[c] = opening[c] /\ held'[c] = held[c]
  BY <1>1, <1>2, <1>6 DEF Unserved, Served
<1>10. opening[b] # "no" /\ held[b] = None /\ last' = last
  BY <1>3, <1>5, <1>6 DEF OneCall, Holds, Unserved, Served
<1>11. pipe' = pipe \/ pipe' = Append(pipe, StopOf(b))
  BY <1>6 DEF Unserved, Served
<1>12. StopOf(b) \in Request \ StopAll /\ StopOf(b).buf = b /\ StopOf(b) \in Stops
       /\ StopOf(b) \in StopsOf(b)
  BY <1>1 DEF StopOf, Request, Stops, StopAll, StopsOf
<1>13. ASSUME NEW c \in Bufs, c # b PROVE Agree(c)'
  <2>1. SaysTheSame(pipe, pipe', c)
    BY <1>1, <1>11, <1>12, <1>13, OtherIsTold, SaysNothing DEF Typed
  <2>2. SamePreview(c) /\ SameStarts(c)
    BY <1>6, DaemonRests
  <2>3. SameWaiting(c) /\ SameAnswers(c)
    BY <1>13, <1>5, <1>6, <1>7, <1>9 DEF b, SameWaiting, SameCalls, SameAnswers
  <2>4. Untouched(c)
    BY <1>9, <1>10, <1>13, <2>1, <2>2, <2>3 DEF Untouched
  <2> QED BY <2>4, AgreeStays
<1>14. Agree(b)'
  <2>1. OneCall(b)'
    BY <1>3, <1>5, <1>7, <1>9 DEF OneCall
  <2>2. starts' = starts /\ table' = table /\ servers' = servers /\ updates' = updates
    BY <1>6 DEF daemonVars
  <2>3. ~ Has(pipe', ServesOf(b)) /\ (pipe' # pipe => Has(pipe', StopsOf(b)))
    <3>1. CASE pipe' = pipe
      BY <1>4, <3>1
    <3>2. CASE pipe' = Append(pipe, StopOf(b))
      <4> DEFINE r == StopOf(b)
                 t == << r >>
      <4>1. r \in Request /\ r \notin ServesOf(b) /\ r \in StopsOf(b) /\ pipe' = Append(pipe, r)
        BY <1>1, <1>12, <3>2, KindsOf
      <4> HIDE DEF r
      <4>2. t \in Seq(Request) /\ pipe' = pipe \o t
        BY <1>2, <4>1, AppendIsConcat
      <4>3. ~ Has(t, ServesOf(b)) /\ Has(t, StopsOf(b))
        BY <4>1, HasOne
      <4> HIDE DEF t
      <4> QED BY <1>2, <1>4, <4>2, <4>3, HasJoin
    <3> QED BY <1>11, <3>1, <3>2
  <2>4. NoneOpens(b)'
    BY <1>4, <1>6, <2>2, <2>3 DEF NoneOpens
  <2>5. CASE Unserved(b)
    <3>1. held'[b] = None /\ pipe' = Append(pipe, StopOf(b))
      BY <1>10, <2>5 DEF Unserved
    <3>2. Has(pipe', StopsOf(b))
      BY <1>2, <1>12, AppendProperties, LenProperties, <2>3, <3>1
    <3>3. Holds(b)'
      BY <1>3, <2>2, <3>1, <3>2 DEF Holds
    <3> QED BY <1>1, <2>1, <2>4, <3>3, OpensNoneAgrees
  <2>6. CASE ~ Unserved(b)
    <3>1. /\ held'[b] = [server |-> a.server, page |-> page, timer |-> FALSE]
          /\ pipe' = pipe /\ a.server # 0
      BY <1>1, <1>2, <1>6, <2>6 DEF Served
    <3>2. held'[b].server = a.server /\ held'[b] # None
      BY <3>1 DEF None
    <3>3. Shown(b, a.server)'
      BY <1>1, <1>6, <3>1, DaemonRests, SaysNothing, <1>4, <1>10, ShownStays
    <3>4. Holds(b)'
      BY <1>3, <1>9, <2>2, <3>2, <3>3 DEF Holds
    <3> QED BY <1>1, <2>1, <2>4, <3>4, OpensNoneAgrees
  <2> QED BY <2>5, <2>6
<1> QED BY <1>8, <1>13, <1>14

LEMMA EditorAgrees ==
  ASSUME Typed, EditorStep, Agreed
  PROVE  Agreed'
<1> SUFFICES ASSUME ~ given' PROVE CallsOnce' /\ \A c \in Bufs : Agree(c)'
  BY DEF Agreed
<1>1. ~ given /\ ~ (\E c \in calls : TimesOut(c)) /\ (CloseAll => calls = {})
  <2>1. given \in BOOLEAN
    BY DEF Typed, EditorTyped
  <2>2. (\E c \in calls : TimesOut(c)) => given' = TRUE
    BY DEF TimesOut
  <2>3. CloseAll => given' = (given \/ calls # {})
    BY DEF CloseAll
  <2>4. EditorStep => CloseAll \/ given' = given \/ \E c \in calls : TimesOut(c)
    BY DEF EditorStep, Open, Close, Wipe, Edit, Push, SetOption, Answer
  <2> QED BY <2>1, <2>2, <2>3, <2>4
<1>2. CallsOnce /\ \A c \in Bufs : Agree(c)
  BY <1>1 DEF Agreed
<1>3. ASSUME NEW b \in Bufs, Close(b) \/ Wipe(b) \/ Edit(b) \/ Push(b)
      PROVE  CallsOnce' /\ \A c \in Bufs : Agree(c)'
  BY <1>2, <1>3, OfBufferAgrees DEF CallsOnce, Close, Wipe, Edit, Push
<1>4. CASE CloseAll
  BY <1>2, <1>4, <1>1, CloseAllAgrees DEF CallsOnce, CloseAll
<1>5. CASE SetOption
  BY <1>2, <1>5, SetOptionAgrees DEF CallsOnce, SetOption
<1> QED BY <1>1, <1>2, <1>3, <1>4, <1>5, OpenAgrees, AnswerAgrees DEF EditorStep

-----------------------------------------------------------------------------
(* What the daemon reads.                                                  *)

\* What it does to what is shown of a buffer.
LEMMA ReadsPage ==
  ASSUME DaemonTyped, Known, NEW r,
         ReadsServe(r) \/ ReadsUpdate(r) \/ ReadsOpts(r) \/ ReadsStop(r) \/ ReadsStopAll(r),
         NEW b \in Bufs, table[b] # None
  PROVE  /\ servers'[table[b].server].text = servers[table[b].server].text
         /\ r \notin OptsOf(b) => servers'[table[b].server].page = servers[table[b].server].page
         /\ r \in OptsOf(b) => servers'[table[b].server].page = r.page
<1>1. table[b].server \in 1..Len(servers)
  BY DEF Known, Displayed
<1>2. servers'[table[b].server].text = servers[table[b].server].text
  BY <1>1, ReadKeepsTexts
<1>3. CASE ReadsServe(r) \/ ReadsUpdate(r)
  BY <1>3, KindsOf, <1>2 DEF ReadsServe, ReadsUpdate
<1>4. CASE ReadsOpts(r)
  <2>1. r.page \in Nat /\ r.buf \in Bufs /\ (r \in OptsOf(b) <=> r.buf = b)
    BY <1>4 DEF ReadsOpts, Opts, OptsOf
  <2>2. table[r.buf] # None => table[r.buf].server \in 1..Len(servers)
    BY <2>1 DEF Known, Displayed
  <2>3. ASSUME table[r.buf] # None, NEW i \in 1..Len(servers)
        PROVE  [servers EXCEPT ![table[r.buf].server].page = r.page][i] =
                 IF i = table[r.buf].server THEN [servers[i] EXCEPT !.page = r.page]
                 ELSE servers[i]
    <3>1. servers \in Seq(Server)
      BY TypedParts
    <3>2. table[r.buf].server \in 1..Len(servers)
      BY <2>2, <2>3
    <3> QED BY <2>1, <2>3, <3>1, <3>2, SetOnServer, SMTT(30)
  <2>4. [servers[table[b].server] EXCEPT !.page = r.page].page = r.page
    BY <1>1, TypedParts DEF Server
  <2>5. table[r.buf] # None /\ table[r.buf].server = table[b].server => r.buf = b
    BY <2>1 DEF Known, Displayed
  <2> QED BY <1>1, <1>2, <1>4, <2>1, <2>3, <2>4, <2>5 DEF ReadsOpts
<1>5. CASE ReadsStop(r) \/ ReadsStopAll(r)
  BY <1>5, KindsOf, <1>1, <1>2, HaltedSpec, TypedParts DEF ReadsStop, ReadsStopAll
<1> QED BY <1>3, <1>4, <1>5

\* A request that is not about the buffer.
LEMMA ReadsOfOther ==
  ASSUME Typed, Known, Read, NEW b \in Bufs, Agree(b), Head(pipe) \notin About(b)
  PROVE  Agree(b)'
<1> DEFINE r == Head(pipe)
<1>1. /\ pipe \in Seq(Request) /\ pipe # << >> /\ pipe' = Tail(pipe)
      /\ UNCHANGED <<editorVars, answers>>
  BY DEF Typed, EditorTyped, Read
<1>2. /\ r \in Request
      /\ \/ ReadsServe(r) \/ ReadsUpdate(r) \/ ReadsOpts(r) \/ ReadsStop(r) \/ ReadsStopAll(r)
  BY ReadSpec DEF Typed
<1>3. r \notin StopAll /\ r.buf # b
  BY <1>2, KindsOf
<1>4. SaysTheSame(pipe, pipe', b)
  BY <1>1, SameWithoutHead
<1> HIDE DEF r
<1>5. SamePage(b)
  BY <1>3, <1>2, ReadsPage DEF OptsOf, SamePage, Typed
<1>6. table'[b] = table[b] /\ SameUpdates(b) /\ SameStarts(b)
  <2>1. table \in [Bufs -> {None} \union Preview]
    BY DEF Typed, DaemonTyped
  <2> QED BY <1>2, <1>3, <2>1 DEF ReadsServe, ReadsUpdate, ReadsOpts, ReadsStop, ReadsStopAll,
                                  SameUpdates, SameStarts
<1>7. Untouched(b)
  BY <1>1, <1>4, <1>5, <1>6
     DEF Untouched, SamePreview, SameWaiting, SameCalls, SameAnswers, editorVars
<1> QED BY <1>7, AgreeStays

\* One that is: what all of them have in common.
LEMMA ReadsOwn ==
  ASSUME Typed, Read, NEW b \in Bufs, Agree(b), Head(pipe) \in About(b)
  PROVE  /\ pipe \in Seq(Request) /\ pipe # << >> /\ pipe' = Tail(pipe)
         /\ UNCHANGED <<opening, held, calls, last, answers>>
         /\ OneCall(b)' /\ \A p \in starts : p.buf # b
         /\ \A R : Has(pipe, R) <=> Head(pipe) \in R \/ Has(pipe', R)
         /\ \A i \in 1..Len(pipe') : pipe'[i] \in ServesOf(b) =>
              Asked(pipe'[i].id, b) /\ AsSent(b, pipe'[i])
<1>1. /\ pipe \in Seq(Request) /\ pipe # << >> /\ pipe' = Tail(pipe)
      /\ UNCHANGED <<opening, held, calls, last, answers>>
  BY DEF Typed, EditorTyped, Read, editorVars
<1>2. OneCall(b)'
  BY <1>1 DEF Agree, OneCall
<1>3. \A R : Has(pipe, R) <=> Head(pipe) \in R \/ Has(pipe', R)
  BY <1>1, HasTail
<1>4. \A p \in starts : p.buf # b
  BY <1>3 DEF Agree, Starting
<1>5. \A i \in 1..Len(pipe') : i + 1 \in 1..Len(pipe) /\ pipe'[i] = pipe[i + 1]
  BY ReadSpec DEF Typed
<1>6. \A i \in 1..Len(pipe') : pipe'[i] \in ServesOf(b) =>
        Asked(pipe'[i].id, b) /\ AsSent(b, pipe'[i])
  BY <1>5 DEF Agree, Serving
<1> QED BY <1>1, <1>2, <1>3, <1>4, <1>6

LEMMA ReadServeAgrees ==
  ASSUME Typed, Known, Read, NEW b \in Bufs, Agree(b),
         Head(pipe) \in ServesOf(b), ReadsServe(Head(pipe))
  PROVE  Agree(b)'
<1> DEFINE r == Head(pipe)
           n == [id |-> r.id, buf |-> r.buf, text |-> r.text, page |-> r.page, server |-> 0]
<1>1. r \in About(b)
  BY KindsOf
<1>2. /\ pipe \in Seq(Request) /\ pipe # << >> /\ pipe' = Tail(pipe)
      /\ UNCHANGED <<opening, held, calls, last, answers>>
      /\ OneCall(b)' /\ \A p \in starts : p.buf # b
      /\ \A R : Has(pipe, R) <=> r \in R \/ Has(pipe', R)
  BY <1>1, ReadsOwn
<1>3. r = pipe[1] /\ 1 \in 1..Len(pipe) /\ \A i \in 1..Len(pipe') : i + 1 \in 1..Len(pipe)
                                                                 /\ pipe'[i] = pipe[i + 1]
  BY ReadSpec DEF Typed
<1>4. /\ r.buf = b
      /\ starts' = starts \union {n} /\ UNCHANGED <<updates, table, servers>>
  BY DEF ReadsServe, ServesOf
<1> HIDE DEF r
<1>5. Asked(r.id, b) /\ AsSent(b, r)
  BY <1>3 DEF Agree, Serving
<1>6. /\ \A j \in 1..Len(pipe) : j > 1 => pipe[j] \notin About(b)
      /\ table[b] = None
  BY <1>3 DEF Agree, Serving, r, ServeIsLast
<1>7. ~ Has(pipe', About(b))
  BY <1>3, <1>6 DEF Has
<1>8. ServesOf(b) \subseteq About(b) /\ r \in ServesOf(b)
  BY KindsOf DEF r
<1>9. Serving(b)'
  BY <1>7, <1>8 DEF Serving, ServeIsLast, Has
<1>10. Starting(b)'
  BY <1>4, <1>2, <1>5, <1>6, <1>7 DEF Asked, AsSent, Starting
<1>11. \A a \in answers : a.buf # b
  BY <1>2, <1>8 DEF Agree, Answering
<1>12. Answering(b)'
  BY <1>2, <1>11 DEF Answering
<1>13. Holds(b)'
  BY <1>5, <1>2, <1>4, <1>6 DEF Asked, Agree, OneCall, Holds
<1> QED BY <1>2, <1>9, <1>10, <1>12, <1>13 DEF Agree

LEMMA ReadUpdateAgrees ==
  ASSUME Typed, Known, Read, NEW b \in Bufs, Agree(b),
         Head(pipe) \in UpdatesOf(b), ReadsUpdate(Head(pipe))
  PROVE  Agree(b)'
<1> DEFINE r == Head(pipe)
           n == [id |-> Fresh(updates), buf |-> r.buf, text |-> r.text, epoch |-> 0, seq |-> 0,
                 late |-> FALSE]
<1>1. /\ r \in UpdatesOf(b) /\ r \in About(b) /\ r \notin ServesOf(b)
      /\ r \notin OptsOf(b) /\ r \notin StopsOf(b)
  BY KindsOf DEF UpdatesOf
<1>2. /\ pipe \in Seq(Request) /\ pipe # << >> /\ pipe' = Tail(pipe)
      /\ UNCHANGED <<opening, held, calls, last, answers>>
      /\ OneCall(b)' /\ \A p \in starts : p.buf # b
      /\ \A R : Has(pipe, R) <=> r \in R \/ Has(pipe', R)
      /\ \A i \in 1..Len(pipe') : pipe'[i] \in ServesOf(b) =>
           Asked(pipe'[i].id, b) /\ AsSent(b, pipe'[i])
  BY <1>1, ReadsOwn
<1>3. /\ r.buf = b
      /\ updates' = updates \union {n} /\ UNCHANGED <<starts, table, servers>>
  BY DEF ReadsUpdate, UpdatesOf
<1>4. /\ Has(pipe', ServesOf(b)) <=> Has(pipe, ServesOf(b))
      /\ Has(pipe', OptsOf(b)) <=> Has(pipe, OptsOf(b))
      /\ Has(pipe', StopsOf(b)) <=> Has(pipe, StopsOf(b))
  BY <1>1, <1>2
<1>5. /\ \A R, S : LastIs(pipe, R, S) => LastIs(pipe', R, S)
      /\ \A R, S : LastIs(pipe, R, S) /\ r \in R /\ ~ Has(pipe', R) => r \in S
  BY <1>2, HasTail
<1>6. ServeIsLast(pipe', b, table[b] # None)
  BY <1>1, <1>2, ServeStaysLast DEF Agree, Serving
<1> HIDE DEF r
<1>7. Serving(b)'
  BY <1>2, <1>3, <1>6 DEF Serving, Asked, AsSent
<1>8. n.text = r.text /\ n.buf = b /\ n.epoch = 0
  BY <1>3
<1> HIDE DEF n
<1>9. /\ r.text = last[b].text => Coming(b)'
      /\ Coming(b) => Coming(b)'
  BY <1>2, <1>3, <1>8 DEF Coming
<1>10. Starting(b)'
  BY <1>2, <1>3 DEF Starting
<1>11. ASSUME NEW server, Shown(b, server) PROVE Shown(b, server)'
  BY <1>11, <1>1, <1>5, <1>2, <1>9, <1>3, <1>4 DEF Shown, TextComes, PageComes
<1>12. Answering(b)'
  BY <1>2, <1>3, <1>4, <1>11 DEF Agree, Answering, Asked
<1>13. Holds(b)'
  BY <1>2, <1>3, <1>4, <1>11, HoldsStays DEF Agree
<1> QED BY <1>2, <1>7, <1>10, <1>12, <1>13 DEF Agree

LEMMA ReadOptsAgrees ==
  ASSUME Typed, Known, Read, NEW b \in Bufs, Agree(b),
         Head(pipe) \in OptsOf(b), ReadsOpts(Head(pipe))
  PROVE  Agree(b)'
<1> DEFINE r == Head(pipe)
<1>1. /\ r \in OptsOf(b) /\ r \in About(b) /\ r \notin ServesOf(b)
      /\ r \notin UpdatesOf(b) /\ r \notin StopsOf(b)
  BY KindsOf DEF OptsOf
<1>2. /\ pipe \in Seq(Request) /\ pipe # << >> /\ pipe' = Tail(pipe)
      /\ UNCHANGED <<opening, held, calls, last, answers>>
      /\ OneCall(b)' /\ \A p \in starts : p.buf # b
      /\ \A R : Has(pipe, R) <=> r \in R \/ Has(pipe', R)
      /\ \A i \in 1..Len(pipe') : pipe'[i] \in ServesOf(b) =>
           Asked(pipe'[i].id, b) /\ AsSent(b, pipe'[i])
  BY <1>1, ReadsOwn
<1>3. UNCHANGED <<starts, table, updates>>
  BY DEF ReadsOpts
<1>4. /\ Has(pipe', ServesOf(b)) <=> Has(pipe, ServesOf(b))
      /\ Has(pipe', UpdatesOf(b)) <=> Has(pipe, UpdatesOf(b))
      /\ Has(pipe', StopsOf(b)) <=> Has(pipe, StopsOf(b))
  BY <1>1, <1>2
<1>5. /\ \A R, S : LastIs(pipe, R, S) => LastIs(pipe', R, S)
      /\ \A R, S : LastIs(pipe, R, S) /\ r \in R /\ ~ Has(pipe', R) => r \in S
  BY <1>2, HasTail
<1>6. ServeIsLast(pipe', b, table[b] # None)
  BY <1>1, <1>2, ServeStaysLast DEF Agree, Serving
<1>7. table[b] # None => /\ servers'[table[b].server].text = servers[table[b].server].text
                         /\ servers'[table[b].server].page = r.page
  BY <1>1, ReadsPage DEF Typed
<1> HIDE DEF r
<1>8. Serving(b)'
  BY <1>2, <1>3, <1>6 DEF Serving, Asked, AsSent
<1>9. Starting(b)'
  BY <1>2, <1>3 DEF Starting
<1>10. ASSUME NEW server, Shown(b, server) PROVE Shown(b, server)'
  BY <1>10, <1>1, <1>5, <1>2, <1>3, <1>7, <1>4 DEF Shown, PageComes, Coming, TextComes
<1>11. Answering(b)'
  BY <1>2, <1>3, <1>4, <1>10 DEF Agree, Answering, Asked
<1>12. Holds(b)'
  BY <1>2, <1>3, <1>4, <1>10, HoldsStays DEF Agree
<1> QED BY <1>2, <1>8, <1>9, <1>11, <1>12 DEF Agree

LEMMA ReadStopAgrees ==
  ASSUME Typed, Known, Read, NEW b \in Bufs, Agree(b),
         Head(pipe) \in StopsOf(b), ReadsStop(Head(pipe)) \/ ReadsStopAll(Head(pipe))
  PROVE  Agree(b)'
<1> DEFINE r == Head(pipe)
<1>1. /\ r \in StopsOf(b) /\ r \in About(b) /\ r \notin ServesOf(b)
  BY KindsOf DEF StopsOf, ReadsStop, ReadsStopAll
<1>2. /\ pipe \in Seq(Request) /\ pipe # << >> /\ pipe' = Tail(pipe)
      /\ UNCHANGED <<opening, held, calls, last, answers>>
      /\ OneCall(b)' /\ \A p \in starts : p.buf # b
      /\ \A R : Has(pipe, R) <=> r \in R \/ Has(pipe', R)
      /\ \A i \in 1..Len(pipe') : pipe'[i] \in ServesOf(b) =>
           Asked(pipe'[i].id, b) /\ AsSent(b, pipe'[i])
  BY <1>1, ReadsOwn
<1>3. table'[b] = None /\ UNCHANGED <<starts, updates>>
  BY <1>1 DEF StopsOf, Stops, StopAll, Typed, DaemonTyped, ReadsStop, ReadsStopAll
<1>4. Has(pipe', ServesOf(b)) <=> Has(pipe, ServesOf(b))
  BY <1>1, <1>2
<1>5. ServeIsLast(pipe', b, FALSE)
  BY <1>2, ServeStaysLast DEF Agree, Serving
<1>6. Has(pipe, StopsOf(b))
  BY <1>1, <1>2
<1> HIDE DEF r
<1>7. Serving(b)'
  BY <1>2, <1>3, <1>5 DEF Serving, Asked, AsSent
<1>8. Starting(b)'
  BY <1>2, <1>3 DEF Starting
<1>9. \A server : ~ Shown(b, server)
  BY <1>6 DEF Shown
<1>10. Answering(b)'
  BY <1>2, <1>3, <1>4, <1>9 DEF Agree, Answering, Asked
<1>11. Holds(b)'
  BY <1>2, <1>3, <1>9 DEF Agree, Holds
<1> QED BY <1>2, <1>7, <1>8, <1>10, <1>11 DEF Agree

LEMMA ReadAgrees ==
  ASSUME Typed, Known, Read, \A b \in Bufs : Agree(b)
  PROVE  \A b \in Bufs : Agree(b)'
<1> SUFFICES ASSUME NEW b \in Bufs, Head(pipe) \in About(b) PROVE Agree(b)'
  BY ReadsOfOther
<1> DEFINE r == Head(pipe)
<1>2. /\ r \in Request
      /\ \/ ReadsServe(r) \/ ReadsUpdate(r) \/ ReadsOpts(r) \/ ReadsStop(r) \/ ReadsStopAll(r)
  BY ReadSpec DEF Typed
<1>3. r \in ServesOf(b) \/ r \in UpdatesOf(b) \/ r \in OptsOf(b) \/ r \in StopsOf(b)
  BY DEF About
<1>4. CASE ReadsServe(r)
  BY <1>3, <1>4, KindsOf, ReadServeAgrees DEF ReadsServe
<1>5. CASE ReadsUpdate(r)
  BY <1>3, <1>5, KindsOf, ReadUpdateAgrees DEF ReadsUpdate
<1>6. CASE ReadsOpts(r)
  BY <1>3, <1>6, KindsOf, ReadOptsAgrees DEF ReadsOpts
<1>7. CASE ReadsStop(r) \/ ReadsStopAll(r)
  BY <1>3, <1>7, KindsOf, ReadStopAgrees DEF ReadsStop, ReadsStopAll
<1> QED BY <1>2, <1>4, <1>5, <1>6, <1>7

-----------------------------------------------------------------------------
(* What the daemon's tasks do.                                             *)

LEMMA TaskOfOther ==
  ASSUME NEW b \in Bufs, Agree(b), UNCHANGED <<editorVars, pipe>>,
         SamePreview(b), SameStarts(b), SameAnswers(b)
  PROVE  Agree(b)'
<1>1. SameWaiting(b) /\ held'[b] = held[b] /\ last'[b] = last[b]
  BY DEF SameWaiting, SameCalls, editorVars
<1>2. Untouched(b)
  BY <1>1, SaysNothing DEF Untouched
<1> QED BY <1>2, AgreeStays

LEMMA BindAgrees ==
  ASSUME Typed, Known, NEW task \in starts, Bind(task), \A b \in Bufs : Agree(b)
  PROVE  \A b \in Bufs : Agree(b)'
<1> DEFINE n == [text |-> task.text, page |-> task.page, running |-> TRUE]
           p == [task EXCEPT !.server = Len(servers) + 1]
<1>1. /\ servers' = Append(servers, n) /\ starts' = (starts \ {task}) \union {p}
      /\ UNCHANGED <<editorVars, pipe, answers, updates, table>>
  BY DEF Bind
<1>2. /\ task \in Task /\ task.buf \in Bufs /\ servers \in Seq(Server) /\ Len(servers) \in Nat
      /\ n \in Server
  BY TypedParts DEF Typed, Task, Server
<1>3. p.id = task.id /\ p.buf = task.buf /\ p.text = task.text /\ p.page = task.page
  BY <1>2 DEF Task
<1>4. \A s \in 1..Len(servers) : servers'[s] = servers[s]
  BY <1>1, <1>2, AppendProperties
<1> HIDE DEF n, p
<1>5. \A b \in Bufs : SamePreview(b) /\ SameAnswers(b)
  BY <1>1, <1>4 DEF SamePreview, SamePage, SameUpdates, SameAnswers, Known, Displayed
<1> SUFFICES ASSUME NEW b \in Bufs PROVE Agree(b)'
  OBVIOUS
<1>6. CASE b # task.buf
  BY <1>1, <1>3, <1>6, <1>5, TaskOfOther DEF SameStarts
<1>7. CASE b = task.buf
  <2>1. /\ Asked(task.id, b) /\ AsSent(b, task)
        /\ \A q \in starts : q.buf = b => q = task
        /\ table[b] = None /\ ~ Has(pipe, About(b))
    BY <1>7 DEF Agree, Starting
  <2>2. OneCall(b)' /\ Serving(b)'
    BY <1>1 DEF Agree, OneCall, Serving, Asked, AsSent, editorVars
  <2>4. \A q \in starts' : q.buf = b => q = p
    BY <1>1, <2>1
  <2>5. /\ \E c \in calls' : c.id = p.id /\ c.buf = b
        /\ p.text = last'[b].text /\ p.page = last'[b].page
    BY <1>1, <1>3, <2>1 DEF Asked, AsSent, editorVars
  <2>6. Starting(b)'
    BY <1>1, <2>1, <2>4, <2>5 DEF Starting, Asked, AsSent
  <2>7. \A a \in answers : a.buf # b
    BY <1>7 DEF Agree, Answering
  <2>8. Answering(b)'
    BY <1>1, <2>7 DEF Answering
  <2>9. Holds(b)'
    BY <2>1, <1>1 DEF Asked, Agree, OneCall, Holds, editorVars
  <2> QED BY <2>2, <2>6, <2>8, <2>9 DEF Agree
<1> QED BY <1>6, <1>7

\* What is asked for is answered, and the table has what the answer says.
LEMMA StartEndsAgrees ==
  ASSUME Typed, NEW task \in starts, Agree(task.buf), task.buf \in Bufs, NEW a,
         a.id = task.id, a.buf = task.buf,
         starts' = starts \ {task}, answers' = answers \union {a},
         UNCHANGED <<editorVars, pipe, updates>>,
         IF a.server = 0 THEN table'[task.buf] = None ELSE Shown(task.buf, a.server)'
  PROVE  Agree(task.buf)'
<1> DEFINE b == task.buf
<1>1. /\ Asked(task.id, b) /\ \A q \in starts : q.buf = b => q = task
      /\ table[b] = None /\ ~ Has(pipe, About(b))
  BY DEF Agree, Starting
<1>2. OneCall(b) /\ Answering(b) /\ Holds(b) /\ b \in Bufs
  BY DEF Agree
<1> HIDE DEF b
<1>3. OneCall(b)'
  BY <1>2 DEF OneCall, editorVars
<1>4. ~ Has(pipe, ServesOf(b))
  BY <1>1, <1>2, KindsOf DEF Has
<1>5. Serving(b)'
  BY <1>4 DEF Serving, ServeIsLast, Has
<1>6. \A p \in starts' : p.buf # b
  BY <1>1
<1>7. Starting(b)'
  BY <1>6 DEF Starting
<1>8. \A e \in answers : e.buf # b
  BY <1>2 DEF Answering, b
<1>9. \A e \in answers' : e.buf = b => e = a
  BY <1>8
<1>10. \E c \in calls' : c.id = a.id /\ c.buf = b
  BY <1>1 DEF Asked, editorVars
<1>11. IF a.server = 0 THEN table'[b] = None ELSE Shown(b, a.server)'
  BY DEF b
<1>12. Answering(b)'
  BY <1>4, <1>6, <1>9, <1>10, <1>11 DEF Answering, Asked
<1>13. Holds(b)'
  BY <1>1, <1>2 DEF Asked, OneCall, Holds, editorVars, b
<1>14. Agree(b)'
  BY <1>3, <1>5, <1>7, <1>12, <1>13 DEF Agree
<1> QED BY <1>14 DEF b

LEMMA BindFailsAgrees ==
  ASSUME Typed, NEW task \in starts, BindFails(task), \A b \in Bufs : Agree(b)
  PROVE  \A b \in Bufs : Agree(b)'
<1> DEFINE a == [id |-> task.id, buf |-> task.buf, server |-> 0]
<1>1. /\ starts' = starts \ {task} /\ answers' = answers \union {a}
      /\ UNCHANGED <<editorVars, pipe, updates, table, servers>>
  BY DEF BindFails
<1>2. task.buf \in Bufs
  BY TypedParts DEF Typed
<1>3. a.id = task.id /\ a.buf = task.buf /\ a.server = 0
  OBVIOUS
<1> HIDE DEF a
<1>4. table[task.buf] = None
  BY <1>2 DEF Agree, Starting
<1>5. Agree(task.buf)'
  BY <1>1, <1>2, <1>3, <1>4, StartEndsAgrees
<1>6. ASSUME NEW b \in Bufs, b # task.buf PROVE Agree(b)'
  BY <1>1, <1>3, <1>6, TaskOfOther DEF SameStarts, SameAnswers, SamePreview, SamePage,
     SameUpdates
<1> QED BY <1>5, <1>6

LEMMA InsertAgrees ==
  ASSUME Typed, Known, NEW task \in starts, Insert(task), \A b \in Bufs : Agree(b)
  PROVE  \A b \in Bufs : Agree(b)'
<1> DEFINE k == task.buf
           t == [server |-> task.server, epoch |-> task.server, issued |-> 0, served |-> 0,
                 newest |-> task.text, astray |-> FALSE]
<1>1. PICK a : /\ a = [id |-> task.id, buf |-> task.buf,
                        server |-> IF Full(task.buf) THEN 0 ELSE task.server]
               /\ task.server # 0
               /\ starts' = starts \ {task} /\ answers' = answers \union {a}
               /\ servers' = Halted({Loser(task)})
               /\ table' = IF Full(k) THEN table ELSE [table EXCEPT ![k] = t]
               /\ UNCHANGED <<editorVars, pipe, updates>>
  BY DEF Insert
<1>2. /\ k \in Bufs /\ servers \in Seq(Server) /\ task.server \in Nat
      /\ table \in [Bufs -> {None} \union Preview]
      /\ \A u \in updates : u.epoch \in Nat
  BY TypedParts DEF Typed, DaemonTyped
<1>3. a.id = task.id /\ a.buf = k /\ a.server = IF Full(k) THEN 0 ELSE task.server
  BY <1>1
<1>4. t.server = task.server /\ t.newest = task.text
  OBVIOUS
<1>5. \A s \in 1..Len(servers) :
        servers'[s].text = servers[s].text /\ servers'[s].page = servers[s].page
  BY <1>1, <1>2, HaltedSpec
<1>6. t # None
  BY <1>1, <1>4 DEF None
<1> HIDE DEF k, t
<1>7. /\ AsSent(k, task) /\ table[k] = None /\ ~ Has(pipe, About(k))
  BY <1>2 DEF Agree, Starting, k
<1>8. task.server \in 1..Len(servers) /\ servers[task.server].text = task.text
      /\ servers[task.server].page = task.page
  BY <1>1 DEF Known, Bound
<1>10. IF a.server = 0 THEN table'[k] = None ELSE Shown(k, a.server)'
  <2>1. CASE Full(k)
    BY <1>1, <1>3, <1>7, <2>1
  <2>2. CASE ~ Full(k)
    <3>1. table'[k] = t /\ a.server = task.server
      BY <1>1, <1>2, <1>3, <2>2
    <3>2. ~ Has(pipe, StopsOf(k)) /\ ~ Has(pipe, UpdatesOf(k)) /\ ~ Has(pipe, OptsOf(k))
      BY <1>2, <1>7, KindsOf DEF Has
    <3>3. /\ task.text = last'[k].text
          /\ servers'[task.server].page = last'[k].page
      BY <1>1, <1>5, <1>7, <1>8 DEF AsSent, editorVars
    <3>6. TextComes(k)'
      BY <1>1, <1>4, <3>1, <3>2, <3>3 DEF TextComes, LastIs, Has
    <3>7. PageComes(k)'
      BY <1>1, <1>4, <3>1, <3>2, <3>3 DEF PageComes, LastIs, Has
    <3>8. Shown(k, task.server)'
      BY <1>1, <1>4, <1>6, <3>1, <3>2, <3>6, <3>7 DEF Shown
    <3> QED BY <1>1, <3>1, <3>8
  <2> QED BY <2>1, <2>2
<1>12. Agree(k)'
  BY <1>1, <1>2, <1>3, <1>10, StartEndsAgrees DEF k
<1>13. ASSUME NEW b \in Bufs, b # k PROVE Agree(b)'
  BY <1>1, <1>3, <1>13, <1>2, <1>5, TaskOfOther DEF SameStarts, SameAnswers, k, SamePreview,
     SamePage, SameUpdates, Known, Displayed
<1> QED BY <1>12, <1>13

\* What an update is about: no other buffer sees it.
LEMMA UpdateOfOther ==
  ASSUME Typed, Known, NEW u \in updates, Number(u) \/ Show(u), NEW b \in Bufs, Agree(b),
         b # u.buf
  PROVE  Agree(b)'
<1>1. u.buf \in Bufs /\ u.text \in Nat /\ table \in [Bufs -> {None} \union Preview]
  BY TypedParts DEF Typed, DaemonTyped
<1>2. UNCHANGED <<editorVars, pipe, answers, starts>>
  BY DEF Number, Show
<1>3. table'[b] = table[b]
  BY <1>1 DEF Number, Show
<1>4. SameUpdates(b)
  <2>1. \/ updates' = updates \ {u}
        \/ table[u.buf] # None /\ updates' = (updates \ {u}) \union {WithNumber(u)}
    BY NumberSpec DEF Number, Show
  <2>2. table[u.buf] # None => WithNumber(u).buf = u.buf
    BY NumberedSpec DEF Typed
  <2> QED BY <2>1, <2>2 DEF SameUpdates
<1>5. SamePage(b)
  <2> SUFFICES ASSUME table[b] # None PROVE SamePage(b)
    BY DEF SamePage
  <2>1. table[b].server \in 1..Len(servers)
    BY DEF Known, Displayed
  <2>2. CASE servers' = servers
    BY <2>2 DEF SamePage
  <2>3. CASE Show(u) /\ Newest(u)
    <3>1. /\ table[u.buf] # None
          /\ servers' = [servers EXCEPT ![table[u.buf].server].text = u.text]
      BY <2>3 DEF Show, Newest
    <3>2. table[u.buf].server # table[b].server /\ table[u.buf].server \in 1..Len(servers)
      BY <1>1, <3>1 DEF Known, Displayed
    <3>3. servers'[table[b].server] = servers[table[b].server]
      BY <1>1, <2>1, <3>1, <3>2, SetOnServer, TypedParts DEF Typed
    <3> QED BY <3>3 DEF SamePage
  <2> QED BY <2>2, <2>3 DEF Number, Show
<1>6. SamePreview(b) /\ SameStarts(b) /\ SameAnswers(b)
  BY <1>2, <1>3, <1>4, <1>5 DEF SamePreview, SameStarts, SameAnswers
<1> QED BY <1>2, <1>6, TaskOfOther

\* What it is about agrees, if what is shown of it stays so.
LEMMA UpdateOfOwn ==
  ASSUME Typed, NEW b \in Bufs, Agree(b), UNCHANGED <<editorVars, pipe, answers, starts>>,
         table'[b] = None <=> table[b] = None,
         \A server : Shown(b, server) => Shown(b, server)'
  PROVE  Agree(b)'
<1>1. UNCHANGED <<opening, held, calls, last>>
  BY DEF editorVars
<1>2. OneCall(b)' /\ Serving(b)'
  BY <1>1 DEF Agree, OneCall, Serving, Asked, AsSent
<1>3. Starting(b)'
  BY <1>1 DEF Agree, Starting, Asked, AsSent
<1>4. Answering(b)'
  BY <1>1 DEF Agree, Answering, Asked
<1>5. held'[b] # None => Shown(b, held[b].server)'
  BY <1>1 DEF Agree, Holds
<1>6. Holds(b)'
  BY <1>1, <1>5 DEF Agree, Holds
<1> QED BY <1>2, <1>3, <1>4, <1>6 DEF Agree

LEMMA NumberAgrees ==
  ASSUME Typed, Sent, NEW u \in updates, Number(u), Agree(u.buf)
  PROVE  Agree(u.buf)'
<1> DEFINE b == u.buf
           t == table[b]
<1>1. /\ b \in Bufs /\ table \in [Bufs -> {None} \union Preview] /\ u.text \in Nat
      /\ t # None => t.newest \in Nat
      /\ last[b].text \in Nat
  BY TypedParts DEF Typed, EditorTyped, DaemonTyped
<1>2. u.epoch = 0 /\ UNCHANGED <<editorVars, pipe, answers, starts, servers>>
  BY DEF Number
<1>3. last' = last
  BY <1>2 DEF editorVars
<1>4. CASE t = None
  BY <1>4, <1>1, <1>2, UpdateOfOwn DEF Number, Shown, b
<1>5. CASE t # None
  <2>1. /\ updates' = (updates \ {u}) \union {WithNumber(u)} /\ table' = [table EXCEPT ![b] = Issuing(u)]
        /\ Issuing(u) # None /\ Issuing(u).server = t.server
        /\ Issuing(u).newest = IF u.text < t.newest THEN t.newest ELSE u.text
    BY <1>5, NumberSpec, NumberedSpec DEF Overtaken, Typed
  <2>2. table'[b] = Issuing(u)
    BY <1>1, <2>1
  <2>3. t.newest <= last[b].text
    BY <1>1, <1>5, TextsAre DEF Sent
  <2> HIDE DEF t, b
  <2>4. table[b].newest = last[b].text => table'[b].newest = last[b].text
    <3>1. u.text <= last[b].text
      BY <1>1, TextsAre DEF Sent, b
    <3> QED BY <1>1, <2>1, <2>2, <3>1 DEF t
  <2>5. u.text = last[b].text => table'[b].newest = last[b].text
    BY <1>1, <1>5, <2>1, <2>2, <2>3
  <2>6. Coming(b) => Coming(b)' \/ table'[b].newest = last[b].text
    BY <1>3, <2>1, <2>5 DEF Coming
  <2>7. ASSUME NEW server, Shown(b, server) PROVE Shown(b, server)'
    <3>1. TextComes(b)'
      BY <1>2, <1>3, <2>4, <2>6, <2>7 DEF TextComes, Shown
    <3>2. PageComes(b)'
      BY <1>2, <1>3, <2>1, <2>2, <2>7 DEF PageComes, Shown, t
    <3> QED BY <1>2, <2>1, <2>2, <2>7, <3>1, <3>2 DEF Shown, t
  <2>8. Agree(b)'
    BY <1>1, <1>2, <1>5, <2>1, <2>2, <2>7, UpdateOfOwn DEF b, t
  <2> QED BY <2>8 DEF b
<1> QED BY <1>4, <1>5

LEMMA ShowAgrees ==
  ASSUME Typed, Known, NEW u \in updates, Show(u), Agree(u.buf)
  PROVE  Agree(u.buf)'
<1> DEFINE b == u.buf
           t == table[b]
<1>1. b \in Bufs /\ servers \in Seq(Server) /\ \A i \in 1..Len(servers) : servers[i] \in Server
  BY TypedParts DEF Typed
<1>2. /\ u.epoch # 0 /\ updates' = updates \ {u}
      /\ UNCHANGED <<editorVars, pipe, answers, starts>>
  BY DEF Show
<1>3. last' = last
  BY <1>2 DEF editorVars
<1>4. Coming(b)' <=> Coming(b)
  BY <1>2, <1>3 DEF Coming
<1>5. /\ table'[b] = None <=> t = None
      /\ t # None => /\ table'[b].server = t.server /\ table'[b].newest = t.newest
                     /\ servers'[t.server].page = servers[t.server].page
  <2>1. CASE Newest(u)
    <3>1. /\ t # None /\ table'[b] # None
          /\ table'[b].server = t.server /\ table'[b].newest = t.newest
          /\ t.server \in 1..Len(servers)
      BY <2>1, ShowSpec DEF Typed
    <3>2. servers' = [servers EXCEPT ![t.server].text = u.text]
      BY <2>1 DEF Show
    <3> HIDE DEF t
    <3> DEFINE k == t.server
    <3>3. /\ u.text \in Nat
          /\ LET now == [servers EXCEPT ![t.server].text = u.text]
             IN  now[t.server] = [servers[t.server] EXCEPT !.text = u.text]
      <4>1. u.text \in Nat /\ servers \in Seq(Server)
        BY <1>1, TypedParts DEF Typed
      <4>2. k \in 1..Len(servers)
        BY <3>1
      <4> HIDE DEF k
      <4>3. [servers EXCEPT ![k].text = u.text][k] = [servers[k] EXCEPT !.text = u.text]
        BY <4>1, <4>2, SetOnServer
      <4> QED BY <4>1, <4>3 DEF k
    <3>4. [servers[t.server] EXCEPT !.text = u.text].page = servers[t.server].page
      BY <1>1, <3>1, <3>3 DEF Server
    <3> QED BY <3>1, <3>2, <3>3, <3>4
  <2>2. CASE ~ Newest(u)
    BY <2>2 DEF Show
  <2> QED BY <2>1, <2>2
<1> HIDE DEF b, t
<1>6. ASSUME NEW server, Shown(b, server) PROVE Shown(b, server)'
  BY <1>2, <1>3, <1>4, <1>5, <1>6 DEF TextComes, Shown, PageComes, t
<1>7. Agree(b)'
  BY <1>1, <1>2, <1>5, <1>6, UpdateOfOwn DEF b, t
<1> QED BY <1>7 DEF b

LEMMA DaemonAgrees ==
  ASSUME Typed, Known, Sent, DaemonStep, Agreed
  PROVE  Agreed'
<1>1. given' = given /\ calls' = calls /\ serial' = serial
  BY DEF DaemonStep, Read, Bind, BindFails, Insert, Number, Show, editorVars
<1> SUFFICES ASSUME ~ given PROVE CallsOnce' /\ \A b \in Bufs : Agree(b)'
  BY <1>1 DEF Agreed
<1>2. CallsOnce /\ \A b \in Bufs : Agree(b)
  BY DEF Agreed
<1>3. CallsOnce'
  BY <1>1, <1>2 DEF CallsOnce
<1>4. ASSUME NEW u \in updates, Number(u) \/ Show(u) PROVE \A b \in Bufs : Agree(b)'
  BY TypedParts, <1>2, <1>4, NumberAgrees, ShowAgrees, UpdateOfOther DEF Typed
<1> QED BY <1>2, <1>3, <1>4, ReadAgrees, BindAgrees, BindFailsAgrees, InsertAgrees DEF DaemonStep

\* Nothing is left to disagree.
LEMMA ExitsAgrees ==
  ASSUME Typed, DaemonExits, Agreed
  PROVE  Agreed'
<1>1. given' = given /\ calls' = {} /\ answers' = {} /\ starts' = {} /\ pipe' = << >>
  BY DEF DaemonExits
<1> SUFFICES ASSUME ~ given PROVE CallsOnce' /\ \A b \in Bufs : Agree(b)'
  BY <1>1 DEF Agreed
<1>2. CallsOnce'
  BY <1>1 DEF CallsOnce
<1>3. ASSUME NEW b \in Bufs PROVE Agree(b)'
  BY <1>1, OpensNoneAgrees DEF DaemonExits, Agreed, Agree, OneCall, NoneOpens, Has, Holds
<1> QED BY <1>2, <1>3

LEMMA AgreedInit == TableInit => Agreed
<1> SUFFICES ASSUME TableInit PROVE Agreed
  OBVIOUS
<1>1. CallsOnce
  BY DEF TableInit, CallsOnce
<1>2. ASSUME NEW b \in Bufs PROVE Agree(b)
  BY DEF TableInit, Agree, OneCall, Serving, ServeIsLast, Starting, Answering, Holds
<1> QED BY <1>1, <1>2 DEF Agreed

LEMMA AgreedNext == Inv /\ Agreed /\ [TableNext]_tableVars => Agreed'
<1> SUFFICES ASSUME Inv, Agreed, [TableNext]_tableVars PROVE Agreed'
  OBVIOUS
<1>1. Typed /\ Known /\ Sent
  BY DEF Inv
<1>2. CASE TableNext
  BY <1>1, <1>2, StepKinds, EditorAgrees, DaemonAgrees, ExitsAgrees
<1>3. CASE UNCHANGED tableVars
  BY <1>3, DaemonRests, TaskOfOther DEF tableVars, SameAnswers, CallsOnce, editorVars, Agreed
<1> QED BY <1>2, <1>3

\* With nothing on its way there is nothing left but what both have.
LEMMA AgreedAtRest == Inv /\ Agreed => TablesAgree
<1> SUFFICES ASSUME Inv, Agreed, AtRest, ~given, NEW b \in Bufs
             PROVE  /\ held[b].server = table[b].server
                    /\ held[b] # None =>
                         LET s == servers[held[b].server]
                         IN  /\ s.running /\ s.page = last[b].page
                             /\ s.text = last[b].text \/ table[b].astray
  BY DEF TablesAgree
<1>1. Agree(b) /\ opening[b] = "no"
  BY DEF Agreed, Agree, OneCall, AtRest
<1>2. \A R : ~ Has(pipe, R)
  BY DEF AtRest, Has
<1>3. updates = {} /\ ~ Coming(b)
  BY DEF AtRest, Coming
<1>4. CASE held[b] = None
  BY <1>1, <1>2, <1>4 DEF Agree, Holds
<1>5. CASE held[b] # None
  <2>1. /\ table[b] # None /\ table[b].server = held[b].server
        /\ TextComes(b) /\ PageComes(b)
    BY <1>1, <1>5 DEF Agree, Holds, Shown
  <2>2. servers[table[b].server].page = last[b].page
    BY <1>2, <2>1 DEF PageComes
  <2>3. table[b].newest = last[b].text
    BY <1>2, <1>3, <2>1 DEF TextComes
  <2>4. table[b].served = table[b].issued
    BY <1>3, <2>1 DEF Inv, Ordered, NewestKept
  <2>5. ~ table[b].astray => servers[table[b].server].text = table[b].newest
    BY <2>1, <2>4 DEF Inv, Ordered, NewestKept
  <2>6. servers[table[b].server].running
    BY <2>1 DEF Inv, Known, Displayed
  <2> QED BY <2>1, <2>2, <2>3, <2>5, <2>6
<1> QED BY <1>4, <1>5

\* Whatever was opened, closed, wiped out, refused, typed and set on the way, and in
\* whatever order tasks ran and renders ended, once nothing is on its way the editor's
\* table and the daemon's have the same previews, each with the options that were sent
\* last and showing the text that was, unless a request was given up before its answer
\* came, and but for the text where the last number went astray.
THEOREM PreviewTablesAgree == TableSpec => []TablesAgree
<1>1. TableInit => Inv /\ Agreed
  BY InvInit, AgreedInit
<1>2. Inv /\ Agreed /\ [TableNext]_tableVars => Inv' /\ Agreed'
  BY InvNext, AgreedNext
<1>3. Inv /\ Agreed => TablesAgree
  BY AgreedAtRest
<1> QED BY <1>1, <1>2, <1>3, PTL DEF TableSpec

-----------------------------------------------------------------------------
(* What pictures weigh together, in whatever order they are put on the scales. *)

Weighs(S) == MapThenSumSet(Size, S)

AnyOf(s) == CHOOSE href \in s : TRUE

\* total[s] is what the pictures of s weigh, for every s in P.
IsTotal(total, P) ==
  /\ total \in [SUBSET P -> Nat]
  /\ \A s \in SUBSET P :
       total[s] = IF s = {} THEN 0 ELSE Size(AnyOf(s)) + total[s \ {AnyOf(s)}]

\* A finite set with one of its elements taken away.
LEMMA OneTaken ==
  ASSUME NEW S, IsFiniteSet(S), NEW x \in S
  PROVE  /\ IsFiniteSet(S \ {x}) /\ Cardinality(S) \in Nat \ {0}
         /\ Cardinality(S \ {x}) = Cardinality(S) - 1
<1>1. Cardinality(S \ {x}) = Cardinality(S) - 1 /\ IsFiniteSet(S \ {x})
  BY FS_RemoveElement
<1>2. Cardinality(S) \in Nat /\ Cardinality(S \ {x}) \in Nat
  BY <1>1, FS_CardinalityType
<1> QED BY <1>1, <1>2

\* The same of a subset of a finite set.
LEMMA OneLess ==
  ASSUME NEW P, IsFiniteSet(P), NEW s \in SUBSET P, NEW href \in s
  PROVE  /\ IsFiniteSet(s) /\ s \ {href} \in SUBSET P
         /\ Cardinality(s) \in Nat \ {0} /\ Cardinality(s) <= Cardinality(P)
         /\ Cardinality(s \ {href}) = Cardinality(s) - 1
<1>1. IsFiniteSet(s) /\ Cardinality(s) <= Cardinality(P)
  BY FS_Subset
<1>2. Cardinality(s) \in Nat /\ Cardinality(s \ {href}) \in Nat
  BY <1>1, FS_CardinalityType, FS_Subset
<1>3. Cardinality(s \ {href}) = Cardinality(s) - 1
  BY <1>1, FS_RemoveElement
<1> QED BY <1>1, <1>2, <1>3

\* There is such a total for any finite set of pictures.
LEMMA TotalExists ==
  ASSUME NEW P \in SUBSET Pictures, IsFiniteSet(P)
  PROVE  \E total : IsTotal(total, P)
<1> DEFINE n == Cardinality(P)
           V == [SUBSET P -> Nat]
           base == [s \in SUBSET P |-> 0]
           Next1(g) == [s \in SUBSET P |->
                          IF s = {} THEN 0 ELSE Size(AnyOf(s)) + g[s \ {AnyOf(s)}]]
           step == [p \in V \X (1..n) |-> Next1(p[1])]
<1>1. n \in Nat /\ base \in V
  BY FS_CardinalityType
<1>2. \A s \in SUBSET P : s # {} => AnyOf(s) \in s /\ Size(AnyOf(s)) \in Nat
  BY StagingAssumption DEF AnyOf
<1>3. \A g \in V : Next1(g) \in V
  BY <1>2
<1>4. step \in [V \X (1..n) -> V]
  <2>1. \A p \in V \X (1..n) : Next1(p[1]) \in V
    BY <1>3
  <2> HIDE DEF V, Next1, n
  <2> QED BY <2>1
<1>5. PICK g : Solves(g, V, base, n, step)
  BY <1>1, <1>4, RecursionExists
<1>6. g \in [0..n -> V] /\ \A i \in 1..n : g[i] = Next1(g[i - 1])
  <2>1. g \in [0..n -> V] /\ \A i \in 1..n : g[i] = step[<<g[i - 1], i>>]
    BY <1>5 DEF Solves
  <2>2. \A i \in 1..n : <<g[i - 1], i>> \in V \X (1..n)
    <3> HIDE DEF V, n
    <3>1. \A i \in 1..n : i - 1 \in 0..n
      BY <1>1
    <3> QED BY <2>1, <3>1
  <2> HIDE DEF V, Next1, n
  <2> QED BY <2>1, <2>2
<1> DEFINE total == [s \in SUBSET P |-> g[Cardinality(s)][s]]
<1>7. \A s \in SUBSET P : Cardinality(s) \in 0..n
  BY <1>1, FS_Subset, FS_CardinalityType
<1>8. total \in [SUBSET P -> Nat]
  BY <1>6, <1>7
<1>9. ASSUME NEW s \in SUBSET P
      PROVE  total[s] = IF s = {} THEN 0 ELSE Size(AnyOf(s)) + total[s \ {AnyOf(s)}]
  <2>1. CASE s = {}
    BY <2>1, FS_EmptySet, <1>5 DEF Solves
  <2>2. CASE s # {}
    <3>1. AnyOf(s) \in s
      BY <1>2, <2>2
    <3>2. /\ s \ {AnyOf(s)} \in SUBSET P /\ Cardinality(s) \in Nat \ {0}
          /\ Cardinality(s \ {AnyOf(s)}) = Cardinality(s) - 1
      BY <3>1, OneLess
    <3>3. Cardinality(s) \in 1..n
      BY <1>1, <1>7, <3>2
    <3>4. g[Cardinality(s)] = Next1(g[Cardinality(s) - 1])
      BY <1>6, <3>3
    <3>5. total[s] = Next1(g[Cardinality(s) - 1])[s]
      BY <3>4
    <3>6. total[s \ {AnyOf(s)}] = g[Cardinality(s) - 1][s \ {AnyOf(s)}]
      BY <3>2
    <3>7. Next1(g[Cardinality(s) - 1])[s]
            = Size(AnyOf(s)) + g[Cardinality(s) - 1][s \ {AnyOf(s)}]
      BY <2>2
    <3> QED BY <2>2, <3>5, <3>6, <3>7
  <2> QED BY <2>1, <2>2
<1>10. IsTotal(total, P)
  BY <1>8, <1>9 DEF IsTotal
<1> QED BY <1>10

\* Whatever obeys the recursion is that.
LEMMA TotalIsOne ==
  ASSUME NEW P \in SUBSET Pictures, IsFiniteSet(P), NEW total, IsTotal(total, P),
         NEW S \in SUBSET P, NEW other,
         \A s \in SUBSET S :
           other[s] = IF s = {} THEN 0 ELSE Size(AnyOf(s)) + other[s \ {AnyOf(s)}]
  PROVE  other[S] = total[S]
<1> DEFINE Bad == {s \in SUBSET S : other[s] # total[s]}
<1>1. IsFiniteSet(S)
  BY FS_Subset
<1>2. ASSUME Bad # {} PROVE FALSE
  <2>1. {Cardinality(s) : s \in Bad} \in SUBSET Nat /\ {Cardinality(s) : s \in Bad} # {}
    BY <1>1, <1>2, FS_Subset, FS_CardinalityType
  <2>2. PICK m \in {Cardinality(s) : s \in Bad} : \A k \in {Cardinality(s) : s \in Bad} : m <= k
    BY <2>1, NatLeast
  <2>3. PICK s \in Bad : m = Cardinality(s)
    BY <2>2
  <2>4. s # {}
    BY <2>3 DEF IsTotal
  <2>5. AnyOf(s) \in s
    BY <2>4 DEF AnyOf
  <2>6. s \ {AnyOf(s)} \in SUBSET S /\ Cardinality(s \ {AnyOf(s)}) = Cardinality(s) - 1
        /\ Cardinality(s) \in Nat \ {0}
    BY <1>1, <2>3, <2>5, OneLess
  <2>7. s \ {AnyOf(s)} \notin Bad
    BY <2>3, <2>6, <2>2
  <2>8. other[s \ {AnyOf(s)}] = total[s \ {AnyOf(s)}]
    BY <2>6, <2>7
  <2>9. s \in SUBSET P /\ s \in SUBSET S /\ other[s] # total[s]
    BY <2>3
  <2> QED BY <2>4, <2>8, <2>9 DEF IsTotal
<1> QED BY <1>2

\* And it is what the fold comes to.
LEMMA WeighsIsTotal ==
  ASSUME NEW P \in SUBSET Pictures, IsFiniteSet(P), NEW total, IsTotal(total, P),
         NEW S \in SUBSET P
  PROVE  Weighs(S) = total[S]
<1> DEFINE Rec(f) == f = [s \in SUBSET S |->
                            IF s = {} THEN 0
                            ELSE Size(CHOOSE href \in s : TRUE)
                                   + f[s \ {CHOOSE href \in s : TRUE}]]
           iter == CHOOSE f : Rec(f)
<1>1. Rec([s \in SUBSET S |-> total[s]])
  BY DEF IsTotal, AnyOf
<1>2. Rec(iter)
  BY <1>1
<1>3. Weighs(S) = iter[S]
  BY DEF Weighs, MapThenSumSet, MapThenFoldSet
<1>4. \A s \in SUBSET S :
        iter[s] = IF s = {} THEN 0 ELSE Size(AnyOf(s)) + iter[s \ {AnyOf(s)}]
  BY <1>2 DEF AnyOf
<1>5. iter[S] = total[S]
  <2> HIDE DEF iter
  <2> QED BY <1>4, TotalIsOne
<1> QED BY <1>3, <1>5

\* The total does not depend on which picture is put on the scales first.
LEMMA TotalOfAny ==
  ASSUME NEW P \in SUBSET Pictures, IsFiniteSet(P), NEW total, IsTotal(total, P),
         NEW S \in SUBSET P, NEW href \in S
  PROVE  total[S] = Size(href) + total[S \ {href}]
<1> DEFINE Good(s) == \A h \in s : total[s] = Size(h) + total[s \ {h}]
           Bad == {s \in SUBSET P : ~Good(s)}
<1>1. ASSUME Bad # {} PROVE FALSE
  <2>1. {Cardinality(s) : s \in Bad} \in SUBSET Nat /\ {Cardinality(s) : s \in Bad} # {}
    BY <1>1, FS_Subset, FS_CardinalityType
  <2>2. PICK m \in {Cardinality(s) : s \in Bad} : \A k \in {Cardinality(s) : s \in Bad} : m <= k
    BY <2>1, NatLeast
  <2>3. PICK s \in Bad : m = Cardinality(s)
    BY <2>2
  <2>4. s \in SUBSET P /\ ~Good(s)
    BY <2>3
  <2>5. PICK h \in s : total[s] # Size(h) + total[s \ {h}]
    BY <2>4
  <2> DEFINE x == AnyOf(s)
  <2>6. x \in s /\ total[s] = Size(x) + total[s \ {x}]
    BY <2>4, <2>5 DEF IsTotal, AnyOf
  <2>7. x # h
    BY <2>5, <2>6
  <2> HIDE DEF x
  <2>8. ASSUME NEW y \in s PROVE Good(s \ {y})
    <3>1. /\ s \ {y} \in SUBSET P /\ Cardinality(s \ {y}) = Cardinality(s) - 1
          /\ Cardinality(s) \in Nat \ {0}
      BY <2>4, OneLess
    <3>2. ~ (m <= Cardinality(s \ {y}))
      BY <2>3, <3>1
    <3>3. s \ {y} \notin Bad
      BY <2>2, <3>2
    <3> HIDE DEF Good
    <3> QED BY <3>1, <3>3
  <2>9. /\ total[s \ {x}] = Size(h) + total[(s \ {x}) \ {h}]
        /\ total[s \ {h}] = Size(x) + total[(s \ {h}) \ {x}]
    BY <2>6, <2>7, <2>8
  <2>10. (s \ {x}) \ {h} = (s \ {h}) \ {x} /\ (s \ {x}) \ {h} \in SUBSET P
    BY <2>4
  <2>11. /\ total[(s \ {x}) \ {h}] \in Nat /\ Size(x) \in Nat /\ Size(h) \in Nat
    BY <2>4, <2>6, <2>10, StagingAssumption DEF IsTotal
  <2> DEFINE both == (s \ {h}) \ {x}
  <2>12. /\ total[s] = Size(x) + total[s \ {x}]
         /\ total[s \ {x}] = Size(h) + total[both]
         /\ total[s \ {h}] = Size(x) + total[both]
         /\ total[both] \in Nat
    BY <2>6, <2>9, <2>10, <2>11
  <2> HIDE DEF both
  <2>13. total[s] = Size(h) + total[s \ {h}]
    BY <2>11, <2>12
  <2> QED BY <2>5, <2>13
<1>2. Good(S)
  BY <1>1
<1> QED BY <1>2

\* One picture more weighs what it weighs more.
LEMMA WeighsMore ==
  ASSUME NEW S \in SUBSET Pictures, IsFiniteSet(S), NEW href \in Pictures, href \notin S
  PROVE  Weighs(S \union {href}) = Weighs(S) + Size(href) /\ Weighs(S) \in Nat
<1> DEFINE P == S \union {href}
<1>1. P \in SUBSET Pictures /\ IsFiniteSet(P) /\ S \in SUBSET P /\ P \in SUBSET P
  BY FS_AddElement
<1>2. PICK total : IsTotal(total, P)
  BY <1>1, TotalExists
<1>3. Weighs(S) = total[S] /\ Weighs(P) = total[P]
  BY <1>1, <1>2, WeighsIsTotal
<1>4. P \ {href} = S /\ href \in P
  OBVIOUS
<1>5. total[P] = Size(href) + total[P \ {href}]
  BY <1>1, <1>2, <1>4, TotalOfAny
<1>6. total[S] \in Nat /\ Size(href) \in Nat
  BY <1>1, <1>2, StagingAssumption DEF IsTotal
<1>7. Weighs(P) = Size(href) + Weighs(S) /\ Weighs(S) \in Nat
  BY <1>3, <1>4, <1>5, <1>6
<1>8. Weighs(P) = Weighs(S) + Size(href)
  BY <1>6, <1>7
<1> QED BY <1>7, <1>8

\* What finitely many pictures weigh is a number.
LEMMA WeighsNat ==
  ASSUME NEW S \in SUBSET Pictures, IsFiniteSet(S)
  PROVE  Weighs(S) \in Nat
<1>1. PICK total : IsTotal(total, S)
  BY TotalExists
<1>2. Weighs(S) = total[S]
  BY <1>1, WeighsIsTotal
<1> QED BY <1>1, <1>2 DEF IsTotal

\* No pictures weigh nothing.
LEMMA WeighsNothing ==
  Weighs({}) = 0
<1>1. {} \in SUBSET Pictures /\ IsFiniteSet({})
  BY FS_EmptySet
<1>2. PICK total : IsTotal(total, {})
  BY <1>1, TotalExists
<1>3. Weighs({}) = total[{}]
  BY <1>1, <1>2, WeighsIsTotal
<1> QED BY <1>2, <1>3 DEF IsTotal

-----------------------------------------------------------------------------
(* Records.                                                                *)

States == {"pending", "ok", "failed", "skipped"}
Assets == UNION {[S -> States] : S \in SUBSET Pictures}
Waiters == {"serve", "static", "update"}
Record == [generation : Nat \ {0}, assets : Assets, pending : Nat, bytes : Nat,
           waiters : Seq(Waiters)]
Attempt == [opening : {"no", "wanted", "withdrawn"}, stagingOpen : BOOLEAN, shown : BOOLEAN,
            timer : BOOLEAN, asked : Nat, astray : BOOLEAN]

InState(s, state) == {h \in DOMAIN s.assets : s.assets[h] = state}

\* What counts against the number of pictures, and what those weigh that are here.
TakenUp(s) == InState(s, "pending") \union InState(s, "ok")

WithinLimits(s) ==
  /\ IsFiniteSet(DOMAIN s.assets)
  /\ Cardinality(TakenUp(s)) <= MaxAssets
  /\ Weighs(InState(s, "ok")) <= s.bytes /\ s.bytes <= MaxStaged

\* g is f but for what it says of one picture.
Says(g, f, href, state) ==
  /\ DOMAIN g = DOMAIN f \union {href}
  /\ g[href] = state
  /\ \A h \in DOMAIN f \ {href} : g[h] = f[h]

Notes(r, s, href, state) == Says(r.assets, s.assets, href, state)

\* Writing a picture's state down puts it in that state, out of every other.
LEMMA NotesInState ==
  ASSUME NEW r, NEW s, NEW href, NEW state, Notes(r, s, href, state)
  PROVE  /\ InState(r, state) = InState(s, state) \union {href}
         /\ \A other : other # state => InState(r, other) = InState(s, other) \ {href}
BY DEF Notes, Says, InState

\* What a stage says of the pictures, as a function from them to states.
LEMMA AssetsAre ==
  /\ \A f \in Assets : /\ DOMAIN f \in SUBSET Pictures
                       /\ \A h \in DOMAIN f : f[h] \in States
                       /\ f = [h \in DOMAIN f |-> f[h]]
  /\ \A S \in SUBSET Pictures : \A f \in [S -> States] : f \in Assets
BY DEF Assets

\* Noting something of a picture.
LEMMA NotedAssets ==
  ASSUME NEW f \in Assets, NEW href \in Pictures, NEW state \in States
  PROVE  /\ WithState(f, href, state) \in Assets
         /\ Says(WithState(f, href, state), f, href, state)
<1> DEFINE g == WithState(f, href, state)
<1>1. g = [h \in DOMAIN f \union {href} |-> IF h = href THEN state ELSE f[h]]
  BY DEF WithState
<1>2. DOMAIN f \in SUBSET Pictures /\ \A h \in DOMAIN f : f[h] \in States
  BY AssetsAre
<1>3. g \in [DOMAIN f \union {href} -> States] /\ DOMAIN f \union {href} \in SUBSET Pictures
  BY <1>1, <1>2
<1>4. g \in Assets
  BY <1>3, AssetsAre
<1>5. Says(g, f, href, state)
  BY <1>1 DEF Says
<1> QED BY <1>4, <1>5

\* Writing the state of a picture that is known already.
LEMMA LandedAssets ==
  ASSUME NEW f \in Assets, NEW href \in DOMAIN f, NEW state \in States
  PROVE  /\ [f EXCEPT ![href] = state] \in Assets
         /\ Says([f EXCEPT ![href] = state], f, href, state)
<1> DEFINE g == [f EXCEPT ![href] = state]
<1>1. DOMAIN f \in SUBSET Pictures /\ f \in [DOMAIN f -> States]
  BY AssetsAre
<1>2. g \in [DOMAIN f -> States]
  BY <1>1
<1>3. g \in Assets
  BY <1>1, <1>2, AssetsAre
<1>4. Says(g, f, href, state)
  BY <1>1 DEF Says
<1> QED BY <1>3, <1>4

-----------------------------------------------------------------------------
(* The loop of Stage().                                                    *)

\* One turn of the loop leaves a stage.
LEMMA FetchesTyped ==
  ASSUME NEW s \in Record, NEW href \in Pictures, NEW started
  PROVE  Fetches(s, href, started) \in Record
<1>1. /\ WithState(s.assets, href, "skipped") \in Assets
      /\ WithState(s.assets, href, "pending") \in Assets
      /\ WithState(s.assets, href, "failed") \in Assets
  BY NotedAssets DEF Record, States
<1>2. s.pending + 1 \in Nat
  BY DEF Record
<1>3. CASE href \in DOMAIN s.assets
  BY <1>3 DEF Fetches
<1>4. CASE /\ href \notin DOMAIN s.assets
           /\ Cardinality(DOMAIN s.assets) >= MaxAssets \/ s.bytes >= MaxStaged
  BY <1>4, <1>1 DEF Fetches, Record
<1>5. CASE /\ href \notin DOMAIN s.assets /\ href \in started
           /\ ~(Cardinality(DOMAIN s.assets) >= MaxAssets \/ s.bytes >= MaxStaged)
  BY <1>5, <1>1, <1>2 DEF Fetches, Record
<1>6. CASE /\ href \notin DOMAIN s.assets /\ href \notin started
           /\ ~(Cardinality(DOMAIN s.assets) >= MaxAssets \/ s.bytes >= MaxStaged)
  BY <1>6, <1>1 DEF Fetches, Record
<1> QED BY <1>3, <1>4, <1>5, <1>6

\* s is s0 and what was asked for since, which is `done`.
Grown(s, s0, done) ==
  /\ s.generation = s0.generation /\ s.waiters = s0.waiters /\ s.bytes = s0.bytes
  /\ DOMAIN s.assets = DOMAIN s0.assets \union done
  /\ \A h \in DOMAIN s0.assets : s.assets[h] = s0.assets[h]
  /\ \A h \in DOMAIN s.assets \ DOMAIN s0.assets : s.assets[h] # "ok"
  /\ s.pending = s0.pending + Cardinality(InState(s, "pending") \ DOMAIN s0.assets)
  /\ WithinLimits(s)

\* r is s but for its pictures and how many are in flight.
But(r, s, assets, pending) ==
  /\ r.generation = s.generation /\ r.waiters = s.waiters /\ r.bytes = s.bytes
  /\ r.assets = assets /\ r.pending = pending

\* Noting that a picture is not coming.
LEMMA GrowsBySkipping ==
  ASSUME NEW s0 \in Record, NEW s \in Record, NEW done, Grown(s, s0, done),
         NEW href \in Pictures, href \notin DOMAIN s.assets, NEW state \in {"skipped", "failed"},
         NEW r, But(r, s, WithState(s.assets, href, state), s.pending)
  PROVE  Grown(r, s0, done \union {href})
<1>1. /\ r.generation = s.generation /\ r.waiters = s.waiters /\ r.bytes = s.bytes
      /\ r.pending = s.pending /\ r.assets = WithState(s.assets, href, state)
  BY DEF But
<1>2. Notes(r, s, href, state)
  BY NotedAssets, <1>1 DEF Record, States, Notes
<1>3. InState(r, "pending") = InState(s, "pending") /\ InState(r, "ok") = InState(s, "ok")
  BY <1>2, NotesInState DEF InState
<1>4. TakenUp(r) = TakenUp(s) /\ IsFiniteSet(DOMAIN r.assets)
  BY <1>2, <1>3, FS_AddElement DEF TakenUp, Notes, Says, Grown, WithinLimits
<1>5. WithinLimits(r)
  BY <1>1, <1>3, <1>4 DEF Grown, WithinLimits
<1>6. \A h \in DOMAIN r.assets \ DOMAIN s0.assets : r.assets[h] # "ok"
  BY <1>2 DEF Notes, Says, Grown
<1>7. \A h \in DOMAIN s0.assets : r.assets[h] = s0.assets[h]
  BY <1>2 DEF Notes, Says, Grown
<1>8. DOMAIN r.assets = DOMAIN s0.assets \union (done \union {href})
  BY <1>2 DEF Notes, Says, Grown
<1> QED BY <1>1, <1>3, <1>5, <1>6, <1>7, <1>8 DEF Grown

\* Noting that it is.
LEMMA GrowsByFetching ==
  ASSUME NEW s0 \in Record, NEW s \in Record, NEW done, Grown(s, s0, done),
         NEW href \in Pictures, href \notin DOMAIN s.assets,
         Cardinality(DOMAIN s.assets) < MaxAssets,
         NEW r, But(r, s, WithState(s.assets, href, "pending"), s.pending + 1)
  PROVE  Grown(r, s0, done \union {href})
<1>1. /\ r.generation = s.generation /\ r.waiters = s.waiters /\ r.bytes = s.bytes
      /\ r.pending = s.pending + 1 /\ r.assets = WithState(s.assets, href, "pending")
  BY DEF But
<1>2. Notes(r, s, href, "pending")
  BY NotedAssets, <1>1 DEF Record, States, Notes
<1>3. InState(r, "pending") = InState(s, "pending") \union {href}
      /\ InState(r, "ok") = InState(s, "ok")
  BY <1>2, NotesInState DEF InState
<1>4. IsFiniteSet(DOMAIN s.assets) /\ Cardinality(DOMAIN s.assets) \in Nat
      /\ MaxAssets \in Nat
  BY FS_CardinalityType, StagingAssumption DEF Grown, WithinLimits
<1>5. /\ IsFiniteSet(DOMAIN r.assets)
      /\ Cardinality(DOMAIN r.assets) = Cardinality(DOMAIN s.assets) + 1
  <2>1. DOMAIN r.assets = DOMAIN s.assets \union {href}
    BY <1>2 DEF Notes, Says
  <2> DEFINE known == DOMAIN s.assets
  <2>2. IsFiniteSet(known) /\ href \notin known
    BY <1>4
  <2> HIDE DEF known
  <2>3. /\ IsFiniteSet(known \union {href})
        /\ Cardinality(known \union {href}) = Cardinality(known) + 1
    BY <2>2, FS_AddElement
  <2> QED BY <2>1, <2>3 DEF known
<1>6. TakenUp(r) \subseteq DOMAIN r.assets
  BY DEF TakenUp, InState
<1>7. Cardinality(TakenUp(r)) <= Cardinality(DOMAIN r.assets)
  BY <1>5, <1>6, FS_Subset
<1>8. Cardinality(TakenUp(r)) \in Nat /\ Cardinality(TakenUp(r)) <= MaxAssets
  BY <1>4, <1>5, <1>6, <1>7, FS_Subset, FS_CardinalityType
<1>9. WithinLimits(r)
  BY <1>1, <1>3, <1>5, <1>8 DEF Grown, WithinLimits
<1>10. \A h \in DOMAIN r.assets \ DOMAIN s0.assets : r.assets[h] # "ok"
  BY <1>2 DEF Notes, Says, Grown
<1>11. \A h \in DOMAIN s0.assets : r.assets[h] = s0.assets[h]
  BY <1>2 DEF Notes, Says, Grown
<1>12. DOMAIN r.assets = DOMAIN s0.assets \union (done \union {href})
  BY <1>2 DEF Notes, Says, Grown
<1> DEFINE new == InState(s, "pending") \ DOMAIN s0.assets
<1>13. InState(r, "pending") \ DOMAIN s0.assets = new \union {href} /\ href \notin new
  BY <1>3, <1>12 DEF InState, Grown
<1>14. IsFiniteSet(new)
  BY <1>4, FS_Subset DEF InState
<1>15. Cardinality(new \union {href}) = Cardinality(new) + 1 /\ Cardinality(new) \in Nat
  BY <1>13, <1>14, FS_AddElement, FS_CardinalityType
<1>16. r.pending = s0.pending + Cardinality(InState(r, "pending") \ DOMAIN s0.assets)
  <2>1. s.pending = s0.pending + Cardinality(new) /\ s0.pending \in Nat
    BY DEF Grown, Record
  <2>2. r.pending = s.pending + 1
    BY <1>1
  <2>3. Cardinality(InState(r, "pending") \ DOMAIN s0.assets) = Cardinality(new) + 1
    BY <1>13, <1>15
  <2>4. Cardinality(new) \in Nat
    BY <1>15
  <2> HIDE DEF new
  <2> QED BY <2>1, <2>2, <2>3, <2>4
<1> QED BY <1>1, <1>9, <1>10, <1>11, <1>12, <1>16 DEF Grown

\* One turn of the loop adds to what the turns before it added.
LEMMA FetchesGrows ==
  ASSUME NEW s0 \in Record, NEW s \in Record, NEW done, Grown(s, s0, done),
         NEW href \in Pictures, NEW started
  PROVE  Grown(Fetches(s, href, started), s0, done \union {href})
<1>1. Fetches(s, href, started) \in Record
  BY FetchesTyped
<1>2. Cardinality(DOMAIN s.assets) \in Nat /\ MaxAssets \in Nat
  BY FS_CardinalityType, StagingAssumption DEF Grown, WithinLimits
<1>3. CASE href \in DOMAIN s.assets
  BY <1>3 DEF Fetches, Grown
<1>4. CASE /\ href \notin DOMAIN s.assets
           /\ Cardinality(DOMAIN s.assets) >= MaxAssets \/ s.bytes >= MaxStaged
  BY <1>4, GrowsBySkipping DEF Fetches, Record, But
<1>5. CASE /\ href \notin DOMAIN s.assets /\ href \in started
           /\ ~(Cardinality(DOMAIN s.assets) >= MaxAssets \/ s.bytes >= MaxStaged)
  <2>1. Fetches(s, href, started)
          = [s EXCEPT !.assets = WithState(@, href, "pending"), !.pending = @ + 1]
    BY <1>5 DEF Fetches
  <2>2. Cardinality(DOMAIN s.assets) < MaxAssets
    BY <1>2, <1>5
  <2>3. But(Fetches(s, href, started), s, WithState(s.assets, href, "pending"), s.pending + 1)
    BY <2>1 DEF Record, But
  <2> QED BY <1>5, <2>2, <2>3, GrowsByFetching
<1>6. CASE /\ href \notin DOMAIN s.assets /\ href \notin started
           /\ ~(Cardinality(DOMAIN s.assets) >= MaxAssets \/ s.bytes >= MaxStaged)
  BY <1>6, GrowsBySkipping DEF Fetches, Record, But
<1> QED BY <1>3, <1>4, <1>5, <1>6

\* So does the loop, for every picture it is given.
LEMMA FetchedGrows ==
  ASSUME NEW s0 \in Record, WithinLimits(s0), NEW hrefs \in Seq(Pictures), NEW started
  PROVE  /\ Fetched(s0, hrefs, started) \in Record
         /\ Grown(Fetched(s0, hrefs, started), s0, ToSet(hrefs))
<1> DEFINE n == Len(hrefs)
           step == [p \in Record \X (1..n) |-> Fetches(p[1], hrefs[p[2]], started)]
           Rec(f) == f = [i \in 0..n |->
                            IF i = 0 THEN s0 ELSE Fetches(f[i - 1], hrefs[i], started)]
           fetched == CHOOSE f : Rec(f)
<1>1. n \in Nat /\ \A i \in 1..n : hrefs[i] \in Pictures
  BY LenProperties, ElementOfSeq
<1>2. step \in [Record \X (1..n) -> Record]
  BY <1>1, FetchesTyped
<1>3. PICK f : Solves(f, Record, s0, n, step)
  BY <1>1, <1>2, RecursionExists
<1>4. f \in [0..n -> Record] /\ f[0] = s0
      /\ \A i \in 1..n : f[i] = Fetches(f[i - 1], hrefs[i], started)
  BY <1>3, <1>1 DEF Solves
<1>5. Rec(f)
  BY <1>4, <1>1
<1>6. Rec(fetched)
  BY <1>5
<1>7. Fetched(s0, hrefs, started) = fetched[n]
  BY DEF Fetched
<1> HIDE DEF fetched
<1>8. fetched[0] = s0 /\ \A i \in 1..n : fetched[i] = Fetches(fetched[i - 1], hrefs[i], started)
  BY <1>1, <1>6
<1> DEFINE Done(m) == {hrefs[i] : i \in 1..m}
           Good(m) == fetched[m] \in Record /\ Grown(fetched[m], s0, Done(m))
           Bad == {m \in 0..n : ~Good(m)}
<1>9. Good(0)
  <2>1. Done(0) = {}
    OBVIOUS
  <2>2. InState(s0, "pending") \ DOMAIN s0.assets = {}
    BY DEF InState
  <2>3. s0.pending = s0.pending + Cardinality(InState(s0, "pending") \ DOMAIN s0.assets)
    <3>1. Cardinality(InState(s0, "pending") \ DOMAIN s0.assets) = 0
      BY <2>2, FS_EmptySet
    <3>2. s0.pending \in Nat
      BY DEF Record
    <3> QED BY <3>1, <3>2
  <2>4. DOMAIN s0.assets = DOMAIN s0.assets \union {}
    OBVIOUS
  <2>5. Grown(s0, s0, {})
    BY <2>3, <2>4 DEF Grown
  <2> HIDE DEF Done
  <2> QED BY <1>8, <2>1, <2>5
<1>10. ASSUME NEW m \in 1..n, Good(m - 1) PROVE Good(m)
  <2>1. fetched[m] = Fetches(fetched[m - 1], hrefs[m], started) /\ hrefs[m] \in Pictures
    <3> HIDE DEF n
    <3> QED BY <1>1, <1>8
  <2>2. Done(m) = Done(m - 1) \union {hrefs[m]}
    <3>1. 1..m = 1..(m - 1) \union {m}
      BY <1>1
    <3> QED BY <3>1
  <2>3. fetched[m] \in Record
    BY <1>10, <2>1, FetchesTyped
  <2>4. Grown(fetched[m], s0, Done(m - 1) \union {hrefs[m]})
    <3> HIDE DEF Done
    <3> QED BY <1>10, <2>1, FetchesGrows
  <2> HIDE DEF Done
  <2> QED BY <2>2, <2>3, <2>4
<1>11. ASSUME Bad # {} PROVE FALSE
  <2>1. Bad \in SUBSET Nat
    BY <1>1
  <2>2. PICK m \in Bad : \A k \in Bad : m <= k
    BY <1>11, <2>1, NatLeast
  <2>3. m \in 0..n /\ ~Good(m)
    BY <2>2
  <2> HIDE DEF Good
  <2>4. m # 0
    BY <1>9, <2>3
  <2>5. m \in 1..n /\ m - 1 \in 0..n /\ ~ (m <= m - 1)
    BY <1>1, <2>3, <2>4
  <2>6. m - 1 \notin Bad
    BY <2>2, <2>5
  <2>7. Good(m - 1)
    BY <2>5, <2>6
  <2> QED BY <1>10, <2>3, <2>5, <2>7
<1>12. Good(n)
  <2> HIDE DEF Good, n
  <2>1. n \in 0..n
    BY <1>1
  <2> QED BY <1>11, <2>1
<1>13. DOMAIN hrefs = 1..n
  BY LenProperties
<1>14. Done(n) = ToSet(hrefs)
  BY <1>13 DEF ToSet
<1> QED BY <1>7, <1>12, <1>14

-----------------------------------------------------------------------------
(* Those who wait.                                                         *)

\* Of those who wait, one will ask for the page if the preview is waiting for it, and
\* otherwise nobody will.
AwaitedOnce(p, waiters) ==
  ~p.astray =>
    IF p.stagingOpen
    THEN \E n \in DOMAIN waiters : \A m \in DOMAIN waiters : waiters[m] = "serve" <=> m = n
    ELSE \A m \in DOMAIN waiters : waiters[m] # "serve"

\* What was asked is asked once, by an attempt that no longer waits for pictures.
OneServe(p) ==
  ~p.astray =>
    /\ p.stagingOpen => p.opening = "wanted"
    /\ p.asked <= 1
    /\ p.asked = 1 => p.opening # "no" /\ ~p.stagingOpen

\* Asking for the page asks once at most, of an attempt that waits for its pictures.
LEMMA ServesTyped ==
  ASSUME NEW p \in Attempt, NEW reached
  PROVE  /\ Serves(p, reached) \in Attempt
         /\ Serves(p, reached).astray = p.astray /\ ~Serves(p, reached).stagingOpen
         /\ OneServe(p) /\ p.stagingOpen => OneServe(Serves(p, reached))
<1>1. p.asked + 1 \in Nat
  BY DEF Attempt
<1>2. CASE p.opening # "wanted" \/ ~alive \/ ~reached
  BY <1>2 DEF Serves, Attempt, OneServe
<1>3. CASE ~(p.opening # "wanted" \/ ~alive \/ ~reached)
  <2>1. Serves(p, reached) = [p EXCEPT !.stagingOpen = FALSE, !.asked = @ + 1]
    BY <1>3 DEF Serves
  <2>2. Serves(p, reached) \in Attempt
    BY <1>1, <2>1 DEF Attempt
  <2>3. /\ Serves(p, reached).astray = p.astray /\ ~Serves(p, reached).stagingOpen
        /\ Serves(p, reached).opening = "wanted" /\ Serves(p, reached).asked = p.asked + 1
    BY <1>3, <2>1 DEF Attempt
  <2>4. p.asked \in Nat
    BY DEF Attempt
  <2>5. ASSUME OneServe(p), p.stagingOpen PROVE OneServe(Serves(p, reached))
    BY <2>3, <2>4, <2>5 DEF OneServe
  <2> QED BY <2>2, <2>3, <2>5
<1> QED BY <1>2, <1>3

\* called[n] is the preview after n of those who wait.
IsCalled(called, p, waiters, reached) ==
  /\ called \in [0..Len(waiters) -> Attempt] /\ called[0] = p
  /\ \A n \in 1..Len(waiters) :
       called[n] = IF waiters[n] = "serve" THEN Serves(called[n - 1], reached)
                   ELSE called[n - 1]

\* The loop of Settle(), turn by turn.
LEMMA CalledSteps ==
  ASSUME NEW p \in Attempt, NEW waiters \in Seq(Waiters), NEW reached
  PROVE  \E called : /\ IsCalled(called, p, waiters, reached)
                     /\ Called(p, waiters, reached) = called[Len(waiters)]
<1> DEFINE n == Len(waiters)
           One(q, i) == IF waiters[i] = "serve" THEN Serves(q, reached) ELSE q
           step == [x \in Attempt \X (1..n) |-> One(x[1], x[2])]
           Rec(f) == f = [i \in 0..n |->
                            IF i = 0 THEN p
                            ELSE IF waiters[i] = "serve" THEN Serves(f[i - 1], reached)
                            ELSE f[i - 1]]
           called == CHOOSE f : Rec(f)
<1>1. n \in Nat
  BY LenProperties
<1>2. step \in [Attempt \X (1..n) -> Attempt]
  BY ServesTyped
<1>3. PICK f : Solves(f, Attempt, p, n, step)
  BY <1>1, <1>2, RecursionExists
<1>4. f \in [0..n -> Attempt] /\ f[0] = p /\ \A i \in 1..n : f[i] = One(f[i - 1], i)
  BY <1>3, <1>1 DEF Solves
<1>5. Rec(f)
  BY <1>4, <1>1
<1>6. Rec(called)
  BY <1>5
<1>7. Called(p, waiters, reached) = called[n]
  BY DEF Called
<1> HIDE DEF called
<1>8. called = [i \in 0..n |-> IF i = 0 THEN p ELSE One(called[i - 1], i)]
  BY <1>6
<1>9. called[0] = p /\ \A i \in 1..n : called[i] = One(called[i - 1], i)
  BY <1>1, <1>8
<1> DEFINE Bad == {m \in 0..n : called[m] # f[m]}
<1>10. ASSUME Bad # {} PROVE FALSE
  <2>1. Bad \in SUBSET Nat
    BY <1>1
  <2>2. PICK m \in Bad : \A k \in Bad : m <= k
    BY <1>10, <2>1, NatLeast
  <2>3. m \in 0..n /\ called[m] # f[m]
    BY <2>2
  <2>4. m # 0
    BY <1>4, <1>9, <2>3
  <2>5. m \in 1..n /\ m - 1 \in 0..n /\ ~ (m <= m - 1)
    BY <1>1, <2>3, <2>4
  <2>6. m - 1 \notin Bad
    BY <2>2, <2>5
  <2>7. called[m - 1] = f[m - 1]
    BY <2>5, <2>6
  <2> HIDE DEF n, One
  <2> QED BY <1>4, <1>9, <2>3, <2>5, <2>7
<1>11. called \in [0..n -> Attempt]
  BY <1>4, <1>10, <1>8
<1>12. IsCalled(called, p, waiters, reached)
  BY <1>9, <1>11 DEF IsCalled
<1> QED BY <1>7, <1>12

\* However many wait, the page is asked for once, if the preview waits for it, and
\* nobody waits any more.
LEMMA CalledOnce ==
  ASSUME NEW p \in Attempt, NEW waiters \in Seq(Waiters), NEW reached,
         OneServe(p), AwaitedOnce(p, waiters)
  PROVE  LET q == Called(p, waiters, reached)
         IN  q \in Attempt /\ OneServe(q) /\ AwaitedOnce(q, << >>)
<1>1. PICK called : /\ IsCalled(called, p, waiters, reached)
                    /\ Called(p, waiters, reached) = called[Len(waiters)]
  BY CalledSteps
<1> DEFINE n == Len(waiters)
           Before(m) == \A i \in 1..m : waiters[i] # "serve"
           Good(m) == /\ called[m].astray = p.astray
                      /\ ~p.astray =>
                           \/ called[m] = p /\ Before(m)
                           \/ /\ p.stagingOpen /\ ~Before(m)
                              /\ ~called[m].stagingOpen /\ OneServe(called[m])
           Bad == {m \in 0..n : ~Good(m)}
<1>2. n \in Nat /\ DOMAIN waiters = 1..n
  BY LenProperties
<1>3. called \in [0..n -> Attempt] /\ called[0] = p
      /\ \A m \in 1..n : called[m] = IF waiters[m] = "serve" THEN Serves(called[m - 1], reached)
                                     ELSE called[m - 1]
  BY <1>1 DEF IsCalled
<1> HIDE DEF n
<1>4. Good(0)
  BY <1>3
<1>5. ASSUME NEW m \in 1..n, Good(m - 1) PROVE Good(m)
  <2>1. m - 1 \in 0..n /\ called[m - 1] \in Attempt
    BY <1>2, <1>3
  <2>2. Before(m) <=> Before(m - 1) /\ waiters[m] # "serve"
    BY <1>2
  <2> HIDE DEF Before
  <2>3. CASE waiters[m] # "serve"
    BY <1>3, <2>3, <1>5, <2>2
  <2>4. CASE waiters[m] = "serve"
    <3>1. called[m] = Serves(called[m - 1], reached)
      BY <1>3, <2>4
    <3>2. called[m].astray = p.astray /\ ~called[m].stagingOpen
      BY <1>5, <2>1, <3>1, ServesTyped
    <3>3. ASSUME ~p.astray PROVE p.stagingOpen /\ ~Before(m) /\ OneServe(called[m])
      BY <1>2, <2>4, <3>3, <1>5, <2>2, <3>1, ServesTyped DEF AwaitedOnce, Before
    <3> QED BY <3>2, <3>3
  <2> QED BY <2>3, <2>4
<1>6. ASSUME Bad # {} PROVE FALSE
  <2>1. Bad \in SUBSET Nat
    BY <1>2
  <2>2. PICK m \in Bad : \A k \in Bad : m <= k
    BY <1>6, <2>1, NatLeast
  <2>3. m \in 0..n /\ ~Good(m)
    BY <2>2
  <2> HIDE DEF Good
  <2>4. m # 0
    BY <1>4, <2>3
  <2>5. m \in 1..n /\ m - 1 \in 0..n /\ ~ (m <= m - 1)
    BY <1>2, <2>3, <2>4
  <2>6. m - 1 \notin Bad
    BY <2>2, <2>5
  <2>7. Good(m - 1)
    BY <2>5, <2>6
  <2> QED BY <1>5, <2>3, <2>5, <2>7
<1>7. Good(n) /\ n \in 0..n
  BY <1>2, <1>6
<1>8. called[n] \in Attempt /\ Called(p, waiters, reached) = called[n]
  BY <1>1, <1>3, <1>7 DEF n
<1>9. DOMAIN << >> = {}
  OBVIOUS
<1>10. ASSUME ~p.astray PROVE OneServe(called[n]) /\ ~called[n].stagingOpen
  BY <1>2, <1>10, <1>7 DEF AwaitedOnce
<1>11. OneServe(called[n])
  BY <1>7, <1>10 DEF OneServe
<1>12. AwaitedOnce(called[n], << >>)
  BY <1>7, <1>9, <1>10 DEF AwaitedOnce
<1> QED BY <1>8, <1>11, <1>12

-----------------------------------------------------------------------------
(* A record and its transfers.                                             *)

InRound(s, T) == {t \in T : t.generation = s.generation}

\* What is in flight for a record is what it says is pending.
CountsItsOwn(s, T) ==
  /\ s.pending = Cardinality(InRound(s, T))
  /\ InState(s, "pending") = {t.href : t \in InRound(s, T)}

Transfer == [generation : Nat \ {0}, href : Pictures]

\* One picture of the record has come, or will not.
Lands(s, href, ok) ==
  LET left == [s EXCEPT !.pending = Max({0, @ - 1})]
  IN  IF ok THEN LandsWell(left, href) ELSE [left EXCEPT !.assets[href] = "failed"]

\* One transfer fewer is under way: max([0, pending - 1]) never meets the zero.
LEMMA OneFewer ==
  ASSUME NEW n \in Nat \ {0}
  PROVE  Max({0, n - 1}) = n - 1 /\ n - 1 \in Nat
<1>1. n - 1 \in {0, n - 1} /\ \A m \in {0, n - 1} : n - 1 >= m
  OBVIOUS
<1>2. \A x \in {0, n - 1} : (\A m \in {0, n - 1} : x >= m) => x = n - 1
  OBVIOUS
<1> QED BY <1>1, <1>2 DEF Max

\* What is said of it then is not that it is pending, and only what is here weighs more.
Landed(r, s, href) ==
  /\ r \in Record
  /\ r.generation = s.generation /\ r.waiters = s.waiters /\ r.pending = s.pending - 1
  /\ \/ /\ Notes(r, s, href, "ok")
        /\ r.bytes = s.bytes + Size(href) /\ r.bytes <= MaxStaged
     \/ Notes(r, s, href, "skipped") /\ r.bytes = MaxStaged
     \/ Notes(r, s, href, "failed") /\ r.bytes = s.bytes

\* A transfer that answers gives its picture a state, whatever it weighs.
LEMMA LandsOne ==
  ASSUME NEW s \in Record, NEW href \in DOMAIN s.assets, s.pending # 0, NEW ok
  PROVE  Landed(Lands(s, href, ok), s, href)
<1>1. /\ s.assets \in Assets /\ s.pending \in Nat \ {0} /\ s.bytes \in Nat
      /\ MaxStaged \in Nat
  BY StagingAssumption DEF Record
<1>2. href \in Pictures /\ Size(href) \in Nat
  BY <1>1, AssetsAre, StagingAssumption
<1>3. Max({0, s.pending - 1}) = s.pending - 1 /\ s.pending - 1 \in Nat
  BY <1>1, OneFewer
<1> DEFINE left == [s EXCEPT !.pending = Max({0, @ - 1})]
<1>4. /\ left \in Record /\ left.generation = s.generation /\ left.waiters = s.waiters
      /\ left.pending = s.pending - 1 /\ left.assets = s.assets /\ left.bytes = s.bytes
  BY <1>3 DEF Record
<1>5. Lands(s, href, ok) = IF ok THEN LandsWell(left, href)
                           ELSE [left EXCEPT !.assets[href] = "failed"]
  BY DEF Lands
<1> HIDE DEF left
<1>6. \A state \in States : /\ [left.assets EXCEPT ![href] = state] \in Assets
                            /\ Says([left.assets EXCEPT ![href] = state], s.assets, href, state)
  BY <1>1, <1>4, LandedAssets
<1>7. CASE ok /\ left.bytes + Size(href) > MaxStaged
  BY <1>5, <1>7, <1>6, <1>1, <1>4 DEF LandsWell, States, Landed, Notes, Record
<1>8. CASE ok /\ ~(left.bytes + Size(href) > MaxStaged)
  <2>1. Lands(s, href, ok) = [left EXCEPT !.assets[href] = "ok", !.bytes = @ + Size(href)]
    BY <1>5, <1>8 DEF LandsWell
  <2>2. "ok" \in States
    BY DEF States
  <2> DEFINE new == [left.assets EXCEPT ![href] = "ok"]
             bytes == left.bytes + Size(href)
  <2>3. Lands(s, href, ok) = [left EXCEPT !.assets = new, !.bytes = bytes]
    BY <2>1
  <2>4. new \in Assets /\ Says(new, s.assets, href, "ok")
    BY <1>6, <2>2
  <2>5. bytes \in Nat /\ bytes = s.bytes + Size(href) /\ bytes <= MaxStaged
    BY <1>1, <1>2, <1>4, <1>8
  <2> HIDE DEF new, bytes
  <2> QED BY <1>1, <1>4, <2>3, <2>4, <2>5 DEF Landed, Notes, Record
<1>9. CASE ~ok
  BY <1>5, <1>9, <1>6, <1>1, <1>4 DEF States, Landed, Notes, Record
<1> QED BY <1>7, <1>8, <1>9

\* Landing keeps the count and the limits.
LEMMA LandsWithin ==
  ASSUME NEW s \in Record, NEW T \in SUBSET Transfer, IsFiniteSet(T),
         CountsItsOwn(s, T), WithinLimits(s), NEW t \in InRound(s, T), NEW ok
  PROVE  /\ t.href \in DOMAIN s.assets
         /\ Landed(Lands(s, t.href, ok), s, t.href)
         /\ CountsItsOwn(Lands(s, t.href, ok), T \ {t})
         /\ WithinLimits(Lands(s, t.href, ok))
<1> DEFINE href == t.href
           r == Lands(s, href, ok)
           own == InRound(s, T)
<1>1. t \in T /\ t \in Transfer /\ t.generation = s.generation /\ own \subseteq T
  BY DEF InRound
<1>2. IsFiniteSet(own) /\ Cardinality(own) \in Nat \ {0}
      /\ Cardinality(own \ {t}) = Cardinality(own) - 1
  BY <1>1, FS_Subset, OneTaken DEF own
<1>3. href \in InState(s, "pending")
  BY DEF CountsItsOwn
<1>4. href \in DOMAIN s.assets /\ s.assets[href] = "pending" /\ href \notin InState(s, "ok")
  BY <1>3 DEF InState
<1>5. s.pending # 0
  BY <1>2 DEF CountsItsOwn
<1>6. Landed(r, s, href)
  BY <1>4, <1>5, LandsOne
<1> HIDE DEF r, href
<1>7. r.generation = s.generation /\ r.pending = s.pending - 1
  BY <1>6 DEF Landed
<1>8. PICK state \in {"ok", "skipped", "failed"} : Notes(r, s, href, state)
  BY <1>6 DEF Landed
<1>9. InState(r, "pending") = InState(s, "pending") \ {href}
  BY <1>8, NotesInState
<1>10. CountsItsOwn(r, T \ {t})
  <2>1. InRound(r, T \ {t}) = own \ {t}
    BY <1>7 DEF InRound
  <2>2. r.pending = Cardinality(own \ {t})
    BY <1>2, <1>7 DEF CountsItsOwn
  <2>3. ASSUME NEW u \in own, u.href = href PROVE u = t
    BY <1>1, <2>3 DEF InRound, Transfer, href
  <2>4. {u.href : u \in own \ {t}} = {u.href : u \in own} \ {href}
    BY <2>3 DEF href
  <2>5. InState(s, "pending") = {u.href : u \in own}
    BY DEF CountsItsOwn
  <2> QED BY <1>9, <2>1, <2>2, <2>4, <2>5 DEF CountsItsOwn
<1>11. IsFiniteSet(DOMAIN r.assets)
  BY <1>4, <1>8 DEF Notes, Says, WithinLimits
<1>12. Cardinality(TakenUp(r)) <= MaxAssets
  <2>1. InState(r, "ok") \subseteq InState(s, "ok") \union {href}
    BY <1>8, NotesInState
  <2>2. TakenUp(r) \subseteq TakenUp(s)
    BY <1>3, <1>9, <2>1 DEF TakenUp
  <2>3. TakenUp(s) \subseteq DOMAIN s.assets
    BY DEF TakenUp, InState
  <2>4. /\ IsFiniteSet(TakenUp(s)) /\ IsFiniteSet(TakenUp(r))
        /\ Cardinality(TakenUp(r)) <= Cardinality(TakenUp(s))
    BY <2>2, <2>3, FS_Subset DEF WithinLimits
  <2>5. Cardinality(TakenUp(r)) \in Nat /\ Cardinality(TakenUp(s)) \in Nat /\ MaxAssets \in Nat
    BY <2>4, FS_CardinalityType, StagingAssumption
  <2> QED BY <2>4, <2>5 DEF WithinLimits
<1>13. Weighs(InState(r, "ok")) <= r.bytes /\ r.bytes <= MaxStaged
  <2> DEFINE kept == InState(s, "ok")
  <2>1. kept \in SUBSET Pictures /\ IsFiniteSet(kept) /\ href \in Pictures
    BY AssetsAre, <1>4, FS_Subset DEF Record, InState, WithinLimits
  <2>2. Weighs(kept \union {href}) = Weighs(kept) + Size(href) /\ Weighs(kept) \in Nat
    BY <1>4, <2>1, WeighsMore
  <2>3. Weighs(kept) <= s.bytes /\ s.bytes <= MaxStaged
    BY DEF WithinLimits
  <2>4. s.bytes \in Nat /\ MaxStaged \in Nat /\ Size(href) \in Nat
    BY <2>1, StagingAssumption DEF Record
  <2>5. ASSUME NEW other \in {"skipped", "failed"}, Notes(r, s, href, other)
        PROVE  InState(r, "ok") = kept
    BY <2>5, NotesInState, <1>4
  <2>6. CASE /\ Notes(r, s, href, "ok")
             /\ r.bytes = s.bytes + Size(href) /\ r.bytes <= MaxStaged
    <3>1. InState(r, "ok") = kept \union {href}
      BY <2>6, NotesInState
    <3> HIDE DEF kept
    <3>2. Weighs(InState(r, "ok")) = Weighs(kept) + Size(href)
      BY <2>2, <3>1
    <3> QED BY <2>2, <2>3, <2>4, <2>6, <3>2
  <2>7. CASE Notes(r, s, href, "skipped") /\ r.bytes = MaxStaged
    BY <2>5, <2>7, <2>2, <2>3, <2>4
  <2>8. CASE Notes(r, s, href, "failed") /\ r.bytes = s.bytes
    BY <2>5, <2>8, <2>2, <2>3, <2>4
  <2> QED BY <1>6, <2>6, <2>7, <2>8 DEF Landed
<1>14. WithinLimits(r)
  BY <1>11, <1>12, <1>13 DEF WithinLimits
<1> QED BY <1>4, <1>6, <1>10, <1>14 DEF r, href

-----------------------------------------------------------------------------
(* The invariant.                                                          *)

StagingTyped ==
  /\ named \in Seq(Pictures) /\ rounds \in Nat /\ preview \in Attempt
  /\ IsFiniteSet(transfers) /\ transfers \in SUBSET Transfer
  /\ \A t \in transfers : t.generation <= rounds

\* A record as it is between two calls.
RecordSound(s, p, T, n) ==
  /\ s \in Record /\ s.generation <= n
  /\ CountsItsOwn(s, T) /\ WithinLimits(s)
  /\ AwaitedOnce(p, s.waiters)
  /\ s.pending = 0 => s.waiters = << >>

StagingInv ==
  /\ StagingTyped /\ OneServe(preview)
  /\ stage = NoStage => AwaitedOnce(preview, << >>)
  /\ stage # NoStage => RecordSound(stage, preview, transfers, rounds)

\* No record is NoStage.
LEMMA NoRecord ==
  \A s \in Record : s # NoStage /\ s.generation # 0
BY DEF Record, NoStage

\* Settling leaves a record sound.
LEMMA SettlesWell ==
  ASSUME NEW s \in Record, NEW p \in Attempt, NEW T, NEW n, NEW reached,
         s.generation <= n, CountsItsOwn(s, T), WithinLimits(s),
         OneServe(p), AwaitedOnce(p, s.waiters), Settles(p, s, reached)
  PROVE  /\ preview' \in Attempt /\ OneServe(preview')
         /\ RecordSound(stage', preview', T, n)
         /\ preview'.asked = p.asked \/ stage'.pending = 0
<1>1. CASE s.pending > 0
  BY <1>1 DEF Settles, Record, RecordSound
<1>2. CASE ~(s.pending > 0)
  <2>1. /\ preview' = Called(p, s.waiters, reached)
        /\ stage' = [s EXCEPT !.waiters = << >>]
    BY <1>2 DEF Settles
  <2>2. s.waiters \in Seq(Waiters) /\ << >> \in Seq(Waiters) /\ s.pending = 0
    BY <1>2 DEF Record
  <2>3. preview' \in Attempt /\ OneServe(preview') /\ AwaitedOnce(preview', << >>)
    BY <2>1, <2>2, CalledOnce
  <2>4. /\ stage' \in Record /\ stage'.generation = s.generation /\ stage'.assets = s.assets
        /\ stage'.bytes = s.bytes /\ stage'.pending = s.pending /\ stage'.waiters = << >>
    BY <2>1, <2>2 DEF Record
  <2>5. CountsItsOwn(stage', T)
    BY <2>4 DEF CountsItsOwn, InRound, InState
  <2>6. WithinLimits(stage')
    BY <2>4 DEF WithinLimits, TakenUp, InState
  <2>7. AwaitedOnce(preview', stage'.waiters) /\ stage'.generation <= n
    BY <2>3, <2>4
  <2> QED BY <2>2, <2>3, <2>4, <2>5, <2>6, <2>7 DEF RecordSound
<1> QED BY <1>1, <1>2

\* The pictures that were asked for and those in flight add up.
LEMMA StartsWhatIsPending ==
  ASSUME NEW s0 \in Record, NEW s \in Record, NEW done, Grown(s, s0, done),
         NEW T \in SUBSET Transfer, IsFiniteSet(T), CountsItsOwn(s0, T),
         NEW new, new = {h \in done \ DOMAIN s0.assets : s.assets[h] = "pending"},
         NEW started, started = {[generation |-> s.generation, href |-> h] : h \in new}
  PROVE  /\ started \in SUBSET Transfer /\ IsFiniteSet(T \union started)
         /\ CountsItsOwn(s, T \union started)
<1>1. new = InState(s, "pending") \ DOMAIN s0.assets
  BY DEF Grown, InState
<1>2. DOMAIN s.assets \in SUBSET Pictures /\ s.generation \in Nat \ {0} /\ s0.pending \in Nat
  BY AssetsAre DEF Record
<1>3. new \in SUBSET Pictures /\ IsFiniteSet(new)
  BY <1>1, <1>2, FS_Subset DEF InState, Grown, WithinLimits
<1>4. started \in SUBSET Transfer
  BY <1>2, <1>3 DEF Transfer
<1> DEFINE g == [h \in new |-> [generation |-> s.generation, href |-> h]]
<1>5. g \in Bijection(new, started)
  BY DEF Bijection, Injection, Surjection, IsInjective
<1>6. IsFiniteSet(started) /\ Cardinality(started) = Cardinality(new)
  BY <1>5, <1>3, FS_Bijection DEF ExistsBijection
<1> DEFINE own == InRound(s0, T)
<1>7. InRound(s, T \union started) = own \union started
  BY DEF Grown, InRound
<1>8. IsFiniteSet(own) /\ IsFiniteSet(T \union started)
  BY <1>6, FS_Subset, FS_Union DEF InRound
<1>9. own \intersect started = {}
  BY DEF CountsItsOwn, InState
<1>10. Cardinality(own \union started) = Cardinality(own) + Cardinality(started)
  <2>1. Cardinality(own \union started)
          = Cardinality(own) + Cardinality(started) - Cardinality(own \intersect started)
    BY <1>6, <1>8, FS_Union
  <2>2. Cardinality(own \intersect started) = 0
    BY <1>9, FS_EmptySet
  <2>3. Cardinality(own) \in Nat /\ Cardinality(started) \in Nat
    BY <1>6, <1>8, FS_CardinalityType
  <2> QED BY <2>1, <2>2, <2>3
<1>11. s.pending = Cardinality(own \union started)
  BY <1>1, <1>6, <1>10 DEF Grown, CountsItsOwn
<1>12. InState(s, "pending") = {t.href : t \in own \union started}
  <2>1. InState(s, "pending") = InState(s0, "pending") \union new
    BY <1>1 DEF InState, Grown
  <2>2. InState(s0, "pending") = {t.href : t \in own}
    BY DEF CountsItsOwn
  <2>3. new = {t.href : t \in started}
    <3>1. ASSUME NEW t \in started PROVE t.href \in new
      OBVIOUS
    <3>2. ASSUME NEW h \in new PROVE h \in {t.href : t \in started}
      <4>1. [generation |-> s.generation, href |-> h] \in started
        OBVIOUS
      <4> QED BY <4>1
    <3> QED BY <3>1, <3>2
  <2>4. {t.href : t \in own \union started} = {t.href : t \in own} \union {t.href : t \in started}
    OBVIOUS
  <2> HIDE DEF own
  <2> QED BY <2>1, <2>2, <2>3, <2>4
<1> QED BY <1>4, <1>7, <1>8, <1>11, <1>12 DEF CountsItsOwn

\* Whatever is staged, for whoever waits, the record is sound again.
LEMMA StagesWell ==
  ASSUME StagingInv, NEW p \in Attempt, OneServe(p), NEW hrefs \in Seq(Pictures),
         NEW then \in Waiters,
         AwaitedOnce(p, Append(IF stage = NoStage THEN << >> ELSE stage.waiters, then)),
         Stages(p, hrefs, then)
  PROVE  /\ preview' \in Attempt /\ OneServe(preview')
         /\ rounds' \in Nat /\ IsFiniteSet(transfers') /\ transfers' \in SUBSET Transfer
         /\ \A t \in transfers' : t.generation <= rounds'
         /\ RecordSound(stage', preview', transfers', rounds')
         /\ preview'.asked = p.asked \/ stage'.pending = 0
<1> DEFINE begun == IF stage # NoStage THEN stage
                    ELSE [generation |-> rounds + 1, assets |-> << >>, pending |-> 0,
                          bytes |-> 0, waiters |-> << >>]
<1>1. PICK started, reached :
        LET s == Fetched([begun EXCEPT !.waiters = Append(@, then)], hrefs, started)
            new == {h \in ToSet(hrefs) \ DOMAIN begun.assets : s.assets[h] = "pending"}
        IN  /\ rounds' = IF stage # NoStage THEN rounds ELSE rounds + 1
            /\ transfers' = transfers \union {[generation |-> s.generation, href |-> h] : h \in new}
            /\ Settles(p, s, reached)
  BY DEF Stages
<1>2. /\ begun \in Record /\ begun.generation <= rounds' /\ rounds' \in Nat /\ rounds <= rounds'
      /\ begun.waiters = IF stage = NoStage THEN << >> ELSE stage.waiters
      /\ CountsItsOwn(begun, transfers) /\ WithinLimits(begun)
  <2>1. rounds \in Nat /\ rounds' = IF stage # NoStage THEN rounds ELSE rounds + 1
    BY <1>1 DEF StagingInv, StagingTyped
  <2>2. CASE stage # NoStage
    BY <2>1, <2>2 DEF StagingInv, RecordSound
  <2>3. CASE stage = NoStage
    <3>1. << >> \in Assets
      <4>1. << >> \in [{} -> States] /\ {} \in SUBSET Pictures
        OBVIOUS
      <4> QED BY <4>1, AssetsAre
    <3>2. << >> \in Seq(Waiters)
      OBVIOUS
    <3>3. /\ begun.generation = rounds + 1 /\ begun.assets = << >> /\ begun.pending = 0
          /\ begun.bytes = 0 /\ begun.waiters = << >>
      BY <2>3
    <3>4. begun \in Record
      BY <2>1, <2>3, <3>1, <3>2 DEF Record
    <3> HIDE DEF begun
    <3>5. DOMAIN begun.assets = {}
      BY <3>3
    <3>6. /\ InState(begun, "pending") = {} /\ InState(begun, "ok") = {}
          /\ TakenUp(begun) = {}
      BY <3>5 DEF InState, TakenUp
    <3>7. InRound(begun, transfers) = {}
      BY <2>1, <3>3 DEF StagingInv, StagingTyped, Transfer, InRound
    <3>8. CountsItsOwn(begun, transfers)
      BY <3>3, <3>6, <3>7, FS_EmptySet DEF CountsItsOwn
    <3>9. WithinLimits(begun)
      <4>1. IsFiniteSet(DOMAIN begun.assets) /\ Cardinality(TakenUp(begun)) = 0
        BY <3>5, <3>6, FS_EmptySet
      <4>2. Weighs(InState(begun, "ok")) = 0 /\ begun.bytes = 0
        BY <3>3, <3>6, WeighsNothing
      <4>3. MaxAssets \in Nat /\ MaxStaged \in Nat
        BY StagingAssumption
      <4> QED BY <4>1, <4>2, <4>3 DEF WithinLimits
    <3> QED BY <2>1, <2>3, <3>3, <3>4, <3>8, <3>9
  <2> QED BY <2>2, <2>3
<1> DEFINE s0 == [begun EXCEPT !.waiters = Append(@, then)]
           s == Fetched(s0, hrefs, started)
           new == {h \in ToSet(hrefs) \ DOMAIN begun.assets : s.assets[h] = "pending"}
           fresh == {[generation |-> s.generation, href |-> h] : h \in new}
<1>3. transfers' = transfers \union fresh /\ Settles(p, s, reached)
  BY <1>1
<1> HIDE DEF begun
<1>4. /\ s0 \in Record /\ s0.generation = begun.generation /\ s0.assets = begun.assets
      /\ s0.pending = begun.pending /\ s0.bytes = begun.bytes
      /\ s0.waiters = Append(begun.waiters, then)
  BY <1>2, AppendProperties DEF Record
<1> HIDE DEF s0
<1>5. WithinLimits(s0) /\ CountsItsOwn(s0, transfers)
  BY <1>2, <1>4 DEF WithinLimits, CountsItsOwn, TakenUp, InState, InRound
<1>6. s \in Record /\ Grown(s, s0, ToSet(hrefs))
  BY <1>4, <1>5, FetchedGrows
<1> HIDE DEF s
<1>7. transfers \in SUBSET Transfer /\ IsFiniteSet(transfers)
  BY DEF StagingInv, StagingTyped
<1>8. new = {h \in ToSet(hrefs) \ DOMAIN s0.assets : s.assets[h] = "pending"}
  BY <1>4
<1>9. /\ fresh \in SUBSET Transfer /\ IsFiniteSet(transfers \union fresh)
      /\ CountsItsOwn(s, transfers \union fresh)
  BY <1>4, <1>5, <1>6, <1>7, <1>8, StartsWhatIsPending
<1>10. /\ s.generation <= rounds' /\ WithinLimits(s)
       /\ s.waiters = Append(IF stage = NoStage THEN << >> ELSE stage.waiters, then)
  BY <1>2, <1>4, <1>6 DEF Grown
<1>11. \A t \in transfers' : t.generation <= rounds'
  BY <1>10, <1>2, <1>3 DEF StagingInv, StagingTyped, Transfer
<1> HIDE DEF fresh
<1>12. AwaitedOnce(p, s.waiters) /\ CountsItsOwn(s, transfers')
  BY <1>3, <1>9, <1>10
<1>13. /\ preview' \in Attempt /\ OneServe(preview')
       /\ RecordSound(stage', preview', transfers', rounds')
       /\ preview'.asked = p.asked \/ stage'.pending = 0
  BY <1>3, <1>6, <1>10, <1>12, SettlesWell
<1> QED BY <1>2, <1>3, <1>7, <1>9, <1>11, <1>13

\* Nothing is staged at first.
LEMMA StagingStarts ==
  ASSUME StagingInit
  PROVE  StagingInv
<1>1. named \in Seq(Pictures) /\ rounds = 0 /\ transfers = {} /\ stage = NoStage
  BY StagingAssumption DEF StagingInit
<1>2. preview \in Attempt /\ ~preview.stagingOpen /\ preview.asked = 0 /\ ~preview.astray
  BY DEF StagingInit, Attempt
<1>3. StagingTyped
  BY <1>1, <1>2, FS_EmptySet DEF StagingTyped
<1>4. OneServe(preview)
  BY <1>2 DEF OneServe
<1>5. AwaitedOnce(preview, << >>)
  BY <1>2 DEF AwaitedOnce
<1> QED BY <1>1, <1>3, <1>4, <1>5 DEF StagingInv

\* What waits with the record, if there is one.
Waiting == IF stage = NoStage THEN << >> ELSE stage.waiters

\* Who waits, staged or not, is at most one of a kind.
LEMMA WaitingIsSound ==
  ASSUME StagingInv
  PROVE  Waiting \in Seq(Waiters) /\ AwaitedOnce(preview, Waiting)
<1>1. << >> \in Seq(Waiters)
  OBVIOUS
<1>2. CASE stage = NoStage
  BY <1>1, <1>2 DEF Waiting, StagingInv
<1>3. CASE stage # NoStage
  BY <1>3 DEF Waiting, StagingInv, RecordSound, Record
<1> QED BY <1>2, <1>3

\* One more waits.
LEMMA JoinsThem ==
  ASSUME NEW p, NEW q, NEW waiters \in Seq(Waiters), NEW then \in Waiters,
         AwaitedOnce(p, waiters), q.astray = p.astray,
         then = "serve" => ~p.stagingOpen /\ q.stagingOpen,
         then # "serve" => q.stagingOpen = p.stagingOpen
  PROVE  AwaitedOnce(q, Append(waiters, then))
<1> DEFINE n == Len(waiters)
           more == Append(waiters, then)
<1>1. n \in Nat /\ DOMAIN waiters = 1..n
  BY LenProperties
<1>2. DOMAIN more = 1..(n + 1) /\ more[n + 1] = then /\ \A i \in 1..n : more[i] = waiters[i]
  BY AppendProperties, <1>1, LenProperties
<1>3. 1..(n + 1) = 1..n \union {n + 1} /\ n + 1 \notin 1..n
  BY <1>1
<1> HIDE DEF n, more
<1>4. SUFFICES ASSUME ~q.astray
               PROVE  IF q.stagingOpen
                      THEN \E i \in DOMAIN more : \A j \in DOMAIN more : more[j] = "serve" <=> j = i
                      ELSE \A j \in DOMAIN more : more[j] # "serve"
  BY DEF AwaitedOnce, more
<1>5. CASE then = "serve"
  <2>1. \A j \in 1..n : more[j] # "serve"
    BY <1>1, <1>2, <1>4, <1>5 DEF AwaitedOnce
  <2>2. \A j \in DOMAIN more : more[j] = "serve" <=> j = n + 1
    BY <1>2, <1>3, <1>5, <2>1
  <2>3. n + 1 \in DOMAIN more
    BY <1>2, <1>3
  <2> QED BY <1>5, <2>2, <2>3
<1>6. CASE then # "serve" /\ ~q.stagingOpen
  <2>1. \A j \in 1..n : more[j] # "serve"
    BY <1>1, <1>2, <1>4, <1>6 DEF AwaitedOnce
  <2>2. \A j \in DOMAIN more : more[j] # "serve"
    BY <1>2, <1>3, <1>6, <2>1
  <2> QED BY <1>6, <2>2
<1>7. CASE then # "serve" /\ q.stagingOpen
  <2>1. ~p.astray /\ p.stagingOpen
    BY <1>4, <1>7
  <2>2. PICK i \in DOMAIN waiters : \A j \in DOMAIN waiters : waiters[j] = "serve" <=> j = i
    BY <2>1 DEF AwaitedOnce
  <2>3. i \in DOMAIN more /\ \A j \in DOMAIN more : more[j] = "serve" <=> j = i
    BY <1>1, <1>2, <1>3, <2>2, <1>7
  <2> QED BY <1>7, <2>3
<1> QED BY <1>5, <1>6, <1>7

\* A step keeps the invariant, and asks for the page with nothing pending.
StepsWell ==
  /\ StagingInv'
  /\ preview'.asked > preview.asked => stage' \in Record /\ stage'.pending = 0

\* A step that stages.
LEMMA StagingSteps ==
  ASSUME StagingInv, NEW p \in Attempt, OneServe(p), NEW hrefs \in Seq(Pictures),
         NEW then \in Waiters, AwaitedOnce(p, Append(Waiting, then)), p.asked = preview.asked,
         Stages(p, hrefs, then), named' \in Seq(Pictures)
  PROVE  StepsWell
<1>1. /\ preview' \in Attempt /\ OneServe(preview')
      /\ rounds' \in Nat /\ IsFiniteSet(transfers') /\ transfers' \in SUBSET Transfer
      /\ \A t \in transfers' : t.generation <= rounds'
      /\ RecordSound(stage', preview', transfers', rounds')
      /\ preview'.asked = p.asked \/ stage'.pending = 0
  BY StagesWell DEF Waiting
<1>2. stage' # NoStage /\ stage' \in Record
  BY <1>1, NoRecord DEF RecordSound
<1>3. StagingTyped'
  BY <1>1 DEF StagingTyped
<1>4. StagingInv'
  BY <1>1, <1>2, <1>3 DEF StagingInv, NoStage, OneServe, RecordSound, AwaitedOnce
<1>5. preview'.asked > preview.asked => preview'.asked # p.asked
  BY <1>1 DEF Attempt
<1> QED BY <1>1, <1>2, <1>4, <1>5 DEF StepsWell

\* Each action in turn: the step it takes is sound.
LEMMA OpenRemoteKeeps ==
  ASSUME StagingInv, OpenRemote PROVE StepsWell
<1> DEFINE p == [preview EXCEPT !.opening = "wanted", !.stagingOpen = TRUE]
<1>1. /\ preview \in Attempt /\ OneServe(preview) /\ preview.opening = "no"
      /\ Stages(p, named, "serve") /\ named' = named /\ named \in Seq(Pictures)
  BY DEF StagingInv, StagingTyped, OpenRemote
<1>2. /\ p \in Attempt /\ p.astray = preview.astray /\ p.asked = preview.asked
      /\ p.stagingOpen /\ p.opening = "wanted"
  BY <1>1 DEF Attempt
<1> HIDE DEF p
<1>3. ~p.astray => ~preview.stagingOpen
  BY <1>1, <1>2 DEF OneServe
<1>4. OneServe(p)
  BY <1>1, <1>2 DEF OneServe
<1>5. Waiting \in Seq(Waiters) /\ AwaitedOnce(preview, Waiting) /\ "serve" \in Waiters
  BY WaitingIsSound DEF Waiters
<1>6. AwaitedOnce(p, Append(Waiting, "serve"))
  <2>1. CASE p.astray
    BY <2>1 DEF AwaitedOnce
  <2>2. CASE ~p.astray
    BY <1>2, <1>3, <1>5, <2>2, JoinsThem
  <2> QED BY <2>1, <2>2
<1> QED BY <1>1, <1>2, <1>4, <1>5, <1>6, StagingSteps

LEMMA StaticRemoteKeeps ==
  ASSUME StagingInv, StaticRemote PROVE StepsWell
<1>1. /\ preview \in Attempt /\ OneServe(preview)
      /\ Stages(preview, named, "static") /\ named' = named /\ named \in Seq(Pictures)
  BY DEF StagingInv, StagingTyped, StaticRemote
<1>2. Waiting \in Seq(Waiters) /\ AwaitedOnce(preview, Waiting)
      /\ "static" \in Waiters /\ "static" # "serve"
  BY WaitingIsSound DEF Waiters
<1>3. AwaitedOnce(preview, Append(Waiting, "static"))
  BY <1>2, JoinsThem
<1> QED BY <1>1, <1>2, <1>3, StagingSteps

\* A step that stages nothing and asks for nothing.
LEMMA RestsWell ==
  ASSUME StagingInv, named' \in Seq(Pictures), preview' \in Attempt, OneServe(preview'),
         UNCHANGED <<rounds, transfers>>, preview'.asked <= preview.asked,
         \/ stage' = NoStage /\ AwaitedOnce(preview', << >>)
         \/ /\ stage' = stage /\ preview'.stagingOpen = preview.stagingOpen
            /\ preview'.astray = preview.astray
  PROVE  StepsWell
<1>1. StagingTyped'
  BY DEF StagingInv, StagingTyped
<1>2. StagingInv'
  BY <1>1 DEF StagingInv, OneServe, AwaitedOnce, NoStage, RecordSound
<1>3. ~(preview'.asked > preview.asked)
  BY DEF StagingInv, StagingTyped, Attempt
<1> QED BY <1>2, <1>3 DEF StepsWell

\* What CloseRemote and StopAllRemote forget of an attempt.
LEMMA ForgottenIs ==
  ASSUME StagingInv
  PROVE  /\ Forgotten(preview) \in Attempt /\ ~Forgotten(preview).stagingOpen
         /\ Forgotten(preview).asked = preview.asked
         /\ Forgotten(preview).astray = preview.astray
         /\ Forgotten(preview).opening = preview.opening
         /\ OneServe(Forgotten(preview)) /\ AwaitedOnce(Forgotten(preview), << >>)
<1>1. preview \in Attempt /\ OneServe(preview)
  BY DEF StagingInv, StagingTyped
<1>2. /\ Forgotten(preview) \in Attempt /\ ~Forgotten(preview).stagingOpen
      /\ Forgotten(preview).asked = preview.asked
      /\ Forgotten(preview).astray = preview.astray
      /\ Forgotten(preview).opening = preview.opening
  BY <1>1 DEF Forgotten, Attempt
<1>3. OneServe(Forgotten(preview)) /\ AwaitedOnce(Forgotten(preview), << >>)
  BY <1>1, <1>2 DEF OneServe, AwaitedOnce
<1> QED BY <1>2, <1>3

\* What is forgotten leaves no record.
LEMMA ForgetsWell ==
  ASSUME StagingInv, preview' = Forgotten(preview), stage' = NoStage,
         UNCHANGED <<named, rounds, transfers>>
  PROVE  StepsWell
<1>1. preview.asked \in Nat /\ named' \in Seq(Pictures)
  BY DEF StagingInv, StagingTyped, Attempt
<1>2. preview' \in Attempt /\ OneServe(preview') /\ AwaitedOnce(preview', << >>)
      /\ preview'.asked <= preview.asked
  BY <1>1, ForgottenIs
<1> QED BY <1>1, <1>2, RestsWell

LEMMA CloseRemoteKeeps ==
  ASSUME StagingInv, CloseRemote PROVE StepsWell
<1>1. /\ preview \in Attempt /\ OneServe(preview) /\ preview.asked \in Nat
      /\ named' \in Seq(Pictures) /\ UNCHANGED <<named, rounds, transfers>> /\ Closes
  BY DEF StagingInv, StagingTyped, CloseRemote, Attempt
<1>2. CASE preview.shown
  BY <1>1, <1>2, ForgetsWell DEF Closes
<1>3. CASE ~preview.shown /\ preview.stagingOpen
  <2>1. preview' = [preview EXCEPT !.opening = "no", !.stagingOpen = FALSE] /\ stage' = NoStage
    BY <1>1, <1>3 DEF Closes
  <2>2. /\ preview' \in Attempt /\ ~preview'.stagingOpen /\ preview'.asked = preview.asked
        /\ preview'.astray = preview.astray
    BY <1>1, <2>1 DEF Attempt
  <2>3. OneServe(preview') /\ AwaitedOnce(preview', << >>)
    BY <1>1, <1>3, <2>2 DEF OneServe, AwaitedOnce
  <2> QED BY <1>1, <2>1, <2>2, <2>3, RestsWell
<1>4. CASE ~preview.shown /\ ~preview.stagingOpen
  BY <1>1, <1>4, RestsWell DEF Closes, Attempt, OneServe
<1> QED BY <1>2, <1>3, <1>4

LEMMA StopAllRemoteKeeps ==
  ASSUME StagingInv, StopAllRemote PROVE StepsWell
<1>1. /\ preview \in Attempt /\ OneServe(preview) /\ preview.asked \in Nat
      /\ named' \in Seq(Pictures) /\ UNCHANGED <<named, rounds, transfers>>
      /\ preview' = [Forgotten(preview) EXCEPT !.opening = "no",
                                               !.astray = @ \/ preview.asked > 0]
      /\ stage' = NoStage
  BY DEF StagingInv, StagingTyped, StopAllRemote, Attempt
<1>2. /\ Forgotten(preview) \in Attempt /\ ~Forgotten(preview).stagingOpen
      /\ Forgotten(preview).asked = preview.asked
      /\ Forgotten(preview).astray = preview.astray
  BY ForgottenIs
<1>3. /\ preview' \in Attempt /\ ~preview'.stagingOpen /\ preview'.asked = preview.asked
      /\ ~preview'.astray => ~(preview.asked > 0)
  BY <1>2, <1>1 DEF Attempt
<1>4. OneServe(preview') /\ AwaitedOnce(preview', << >>)
  BY <1>1, <1>3 DEF OneServe, AwaitedOnce
<1> QED BY <1>1, <1>3, <1>4, RestsWell

LEMMA OnServedRemoteKeeps ==
  ASSUME StagingInv, NEW ok \in BOOLEAN, OnServedRemote(ok) PROVE StepsWell
<1>1. /\ preview \in Attempt /\ OneServe(preview) /\ preview.asked \in Nat /\ preview.asked > 0
      /\ named' \in Seq(Pictures) /\ UNCHANGED <<named, rounds, transfers>> /\ stage' = stage
  BY DEF StagingInv, StagingTyped, OnServedRemote, Attempt
<1> DEFINE shown == preview.shown \/ (ok /\ preview.opening = "wanted" /\ alive)
<1>2. preview' = [preview EXCEPT !.asked = @ - 1, !.opening = "no", !.shown = shown]
  BY DEF OnServedRemote
<1>3. shown \in BOOLEAN /\ preview.asked - 1 \in Nat
  BY <1>1 DEF Attempt
<1> HIDE DEF shown
<1>4. /\ preview' \in Attempt /\ preview'.stagingOpen = preview.stagingOpen
      /\ preview'.asked = preview.asked - 1 /\ preview'.astray = preview.astray
  BY <1>1, <1>2, <1>3 DEF Attempt
<1>5. OneServe(preview') /\ preview'.asked <= preview.asked
  BY <1>1, <1>4 DEF OneServe
<1> QED BY <1>1, <1>4, <1>5, RestsWell

LEMMA EditRemoteKeeps ==
  ASSUME StagingInv, EditRemote PROVE StepsWell
<1>1. /\ preview \in Attempt /\ OneServe(preview) /\ preview.asked \in Nat
      /\ named' \in Seq(Pictures) /\ UNCHANGED <<rounds, transfers>> /\ stage' = stage
      /\ preview' = [preview EXCEPT !.timer = preview.shown]
  BY StagingAssumption DEF StagingInv, StagingTyped, EditRemote, Attempt
<1>2. /\ preview' \in Attempt /\ preview'.stagingOpen = preview.stagingOpen
      /\ preview'.asked = preview.asked /\ preview'.astray = preview.astray
      /\ preview'.opening = preview.opening
  BY <1>1 DEF Attempt
<1>3. OneServe(preview') /\ preview'.asked <= preview.asked
  BY <1>1, <1>2 DEF OneServe
<1> QED BY <1>1, <1>2, <1>3, RestsWell

LEMMA PushRemoteKeeps ==
  ASSUME StagingInv, PushRemote PROVE StepsWell
<1> DEFINE p == [preview EXCEPT !.timer = FALSE]
           missing == Dropping(named, DOMAIN stage.assets)
<1>1. /\ preview \in Attempt /\ OneServe(preview) /\ preview.asked \in Nat
      /\ named' = named /\ named \in Seq(Pictures)
      /\ \/ Stages(p, missing, "update")
         \/ preview' = p /\ UNCHANGED <<stage, rounds, transfers>>
  BY DEF StagingInv, StagingTyped, PushRemote, Attempt
<1>2. /\ p \in Attempt /\ p.stagingOpen = preview.stagingOpen /\ p.asked = preview.asked
      /\ p.astray = preview.astray /\ p.opening = preview.opening
  BY <1>1 DEF Attempt
<1> HIDE DEF p
<1>3. OneServe(p)
  BY <1>1, <1>2 DEF OneServe
<1>4. CASE Stages(p, missing, "update")
  BY <1>1, DroppingSpec, WaitingIsSound, <1>2, JoinsThem, <1>3, <1>4, StagingSteps DEF Waiters
<1>5. CASE preview' = p /\ UNCHANGED <<stage, rounds, transfers>>
  BY <1>1, <1>2, <1>3, <1>5, RestsWell
<1> QED BY <1>1, <1>4, <1>5

\* The answer of a transfer: of this stage, or of one that was closed.
LEMMA OnStagedKeeps ==
  ASSUME StagingInv, NEW t \in transfers, NEW ok \in BOOLEAN, OnStaged(t, ok)
  PROVE  StepsWell
<1>1. /\ preview \in Attempt /\ OneServe(preview) /\ preview.asked \in Nat
      /\ named' = named /\ named \in Seq(Pictures) /\ rounds' = rounds /\ rounds \in Nat
      /\ transfers' = transfers \ {t} /\ transfers \in SUBSET Transfer /\ IsFiniteSet(transfers)
      /\ t \in Transfer /\ \A u \in transfers : u.generation <= rounds
  BY DEF StagingInv, StagingTyped, OnStaged, Attempt
<1>2. IsFiniteSet(transfers')
  BY <1>1, FS_Subset
<1>3. CASE ~AnswersThis(t)
  <2>1. preview' = preview /\ stage' = stage /\ stage.generation # t.generation
    BY <1>3 DEF OnStaged, AnswersThis
  <2>2. StagingTyped'
    BY <1>1, <1>2, <2>1 DEF StagingTyped
  <2>3. stage # NoStage => RecordSound(stage, preview, transfers', rounds)
    BY <1>1, <2>1 DEF InRound, StagingInv, RecordSound, CountsItsOwn
  <2>4. StagingInv'
    BY <1>1, <2>1, <2>2, <2>3 DEF StagingInv, OneServe, AwaitedOnce, NoStage, RecordSound
  <2> QED BY <1>1, <2>1, <2>4 DEF StepsWell
<1>4. CASE AnswersThis(t)
  <2>1. stage # NoStage /\ t \in InRound(stage, transfers)
    BY <1>1, <1>4 DEF AnswersThis, Transfer, NoStage, InRound
  <2>2. /\ stage \in Record /\ stage.generation <= rounds /\ CountsItsOwn(stage, transfers)
        /\ WithinLimits(stage) /\ AwaitedOnce(preview, stage.waiters)
    BY <2>1 DEF StagingInv, RecordSound
  <2> DEFINE r == Lands(stage, t.href, ok)
  <2>3. /\ t.href \in DOMAIN stage.assets /\ Landed(r, stage, t.href)
        /\ CountsItsOwn(r, transfers') /\ WithinLimits(r)
    BY <1>1, <2>1, <2>2, LandsWithin
  <2>4. PICK reached \in BOOLEAN :
          LET s == [stage EXCEPT !.pending = Max({0, @ - 1})]
          IN  Settles(preview, IF t.href \notin DOMAIN s.assets THEN s
                               ELSE IF ok THEN LandsWell(s, t.href)
                               ELSE [s EXCEPT !.assets[t.href] = "failed"], reached)
    BY <1>4 DEF OnStaged
  <2>5. Settles(preview, r, reached)
    BY <2>2, <2>3, <2>4 DEF Record, Lands
  <2> HIDE DEF r
  <2>6. /\ r \in Record /\ r.generation <= rounds /\ r.waiters = stage.waiters
    BY <2>2, <2>3 DEF Landed
  <2>7. AwaitedOnce(preview, r.waiters)
    BY <2>2, <2>6
  <2>8. /\ preview' \in Attempt /\ OneServe(preview')
        /\ RecordSound(stage', preview', transfers', rounds)
        /\ preview'.asked = preview.asked \/ stage'.pending = 0
    BY <1>1, <2>3, <2>5, <2>6, <2>7, SettlesWell
  <2>9. stage' # NoStage /\ stage' \in Record
    BY <2>8, NoRecord DEF RecordSound
  <2>10. StagingTyped'
    BY <1>1, <1>2, <2>8 DEF StagingTyped
  <2>11. StagingInv'
    BY <1>1, <2>8, <2>9, <2>10 DEF StagingInv, NoStage, OneServe, RecordSound, AwaitedOnce
  <2>12. preview'.asked > preview.asked => stage'.pending = 0
    BY <2>8, <1>1 DEF Attempt
  <2> QED BY <2>9, <2>11, <2>12 DEF StepsWell
<1> QED BY <1>3, <1>4

\* So every step is sound.
LEMMA StagingKeeps ==
  ASSUME StagingInv, StagingNext PROVE StepsWell
<1>1. CASE OpenRemote
  BY <1>1, OpenRemoteKeeps
<1>2. CASE StaticRemote
  BY <1>2, StaticRemoteKeeps
<1>3. CASE CloseRemote
  BY <1>3, CloseRemoteKeeps
<1>4. CASE StopAllRemote
  BY <1>4, StopAllRemoteKeeps
<1>5. CASE WipeRemote \/ OnDaemonExitRemote
  BY <1>5, ForgetsWell DEF WipeRemote, OnDaemonExitRemote
<1>6. CASE EditRemote
  BY <1>6, EditRemoteKeeps
<1>7. CASE PushRemote
  BY <1>7, PushRemoteKeeps
<1>8. CASE \E ok \in BOOLEAN : OnServedRemote(ok)
  BY <1>8, OnServedRemoteKeeps
<1>9. CASE \E t \in transfers, ok \in BOOLEAN : OnStaged(t, ok)
  BY <1>9, OnStagedKeeps
<1> QED BY <1>1, <1>2, <1>3, <1>4, <1>5, <1>6, <1>7, <1>8, <1>9 DEF StagingNext

\* The invariant holds of every behaviour.
LEMMA StagingInvariant ==
  StagingSpec => []StagingInv
<1>1. StagingInv /\ [StagingNext]_stagingVars => StagingInv'
  <2> SUFFICES ASSUME StagingInv, [StagingNext]_stagingVars PROVE StagingInv'
    OBVIOUS
  <2>1. CASE StagingNext
    BY <2>1, StagingKeeps DEF StepsWell
  <2>2. CASE UNCHANGED stagingVars
    BY <2>2 DEF stagingVars, StagingInv, StagingTyped, OneServe, AwaitedOnce, NoStage, RecordSound
  <2> QED BY <2>1, <2>2
<1> QED BY <1>1, StagingStarts, PTL DEF StagingSpec

\* What the invariant says of rounds.
LEMMA StagingMeans ==
  ASSUME StagingInv
  PROVE  RoundsEndOnce
<1>1. PendingIsInFlight
  <2> SUFFICES ASSUME stage # NoStage
               PROVE  /\ stage.pending = Cardinality(OfThisRound)
                      /\ {h \in DOMAIN stage.assets : stage.assets[h] = "pending"}
                           = {t.href : t \in OfThisRound}
                      /\ stage.pending = 0 => stage.waiters = << >>
    BY DEF PendingIsInFlight
  <2>1. OfThisRound = InRound(stage, transfers)
    BY DEF OfThisRound, InRound
  <2> QED BY <2>1 DEF StagingInv, RecordSound, CountsItsOwn, InState
<1>2. WaitsOnce
  <2> SUFFICES ASSUME ~preview.astray
               PROVE  LET waiting == IF stage = NoStage THEN {}
                                     ELSE {n \in DOMAIN stage.waiters : stage.waiters[n] = "serve"}
                      IN  Cardinality(waiting)
                            = IF preview.opening = "wanted" /\ preview.stagingOpen THEN 1 ELSE 0
    BY DEF WaitsOnce
  <2> DEFINE waiting == IF stage = NoStage THEN {}
                        ELSE {n \in DOMAIN stage.waiters : stage.waiters[n] = "serve"}
  <2>1. waiting = {n \in DOMAIN Waiting : Waiting[n] = "serve"}
    BY DEF Waiting
  <2> HIDE DEF waiting
  <2>2. AwaitedOnce(preview, Waiting) /\ (preview.stagingOpen => preview.opening = "wanted")
    BY WaitingIsSound DEF StagingInv, OneServe
  <2>3. CASE preview.stagingOpen
    <3>1. PICK n \in DOMAIN Waiting : \A m \in DOMAIN Waiting : Waiting[m] = "serve" <=> m = n
      BY <2>2, <2>3 DEF AwaitedOnce
    <3>2. waiting = {n}
      BY <2>1, <3>1
    <3>3. Cardinality(waiting) = 1
      BY <3>2, FS_Singleton
    <3> QED BY <2>2, <2>3, <3>3 DEF waiting
  <2>4. CASE ~preview.stagingOpen
    BY <2>1, <2>2, <2>4, FS_EmptySet DEF AwaitedOnce, waiting
  <2> QED BY <2>3, <2>4
<1>3. StagedWithinLimits
  <2> SUFFICES ASSUME stage # NoStage
               PROVE  LET kept == {h \in DOMAIN stage.assets : stage.assets[h] = "ok"}
                      IN  /\ Cardinality(kept) <= MaxAssets
                          /\ MapThenSumSet(Size, kept) <= MaxStaged
    BY DEF StagedWithinLimits
  <2> DEFINE kept == {h \in DOMAIN stage.assets : stage.assets[h] = "ok"}
  <2>1. kept = InState(stage, "ok") /\ stage \in Record /\ WithinLimits(stage)
    BY DEF InState, StagingInv, RecordSound
  <2> HIDE DEF kept
  <2>2. /\ TakenUp(stage) \subseteq DOMAIN stage.assets /\ kept \subseteq TakenUp(stage)
        /\ DOMAIN stage.assets \in SUBSET Pictures
    BY <2>1, AssetsAre DEF TakenUp, InState, Record
  <2>3. /\ IsFiniteSet(TakenUp(stage)) /\ IsFiniteSet(kept) /\ kept \in SUBSET Pictures
        /\ Cardinality(kept) <= Cardinality(TakenUp(stage))
    BY <2>1, <2>2, FS_Subset DEF WithinLimits
  <2>4. Cardinality(kept) <= MaxAssets
    BY <2>3, FS_CardinalityType, StagingAssumption, <2>1 DEF WithinLimits
  <2>5. Weighs(kept) <= MaxStaged
    BY <2>3, WeighsNat, <2>1, StagingAssumption DEF Record, WithinLimits
  <2> QED BY <2>4, <2>5 DEF Weighs, kept
<1> QED BY <1>1, <1>2, <1>3 DEF RoundsEndOnce

\* A round of transfers ends once, for those who wait for it, and within what a document
\* may take, for any pictures, any limits and whatever else the editor does meanwhile
\* (Stage(), OnStaged(), Settle()).
THEOREM StagingRoundsEndOnce == StagingSpec => []RoundsEndOnce
BY StagingInvariant, StagingMeans, PTL

\* The page is asked for when every picture that was fetched for it is there or will not
\* be (Open(), Serve(), Settle()).
THEOREM StagingOpensWithPictures == StagingSpec => OpensWithItsPictures
<1>1. StagingInv /\ [StagingNext]_stagingVars
        => [preview'.asked > preview.asked =>
              /\ \A t \in transfers' : t.generation # stage'.generation
              /\ \A h \in DOMAIN stage'.assets : stage'.assets[h] # "pending"]_stagingVars
  <2> SUFFICES ASSUME StagingInv, StagingNext, preview'.asked > preview.asked
               PROVE  /\ \A t \in transfers' : t.generation # stage'.generation
                      /\ \A h \in DOMAIN stage'.assets : stage'.assets[h] # "pending"
    OBVIOUS
  <2>1. StagingInv' /\ stage' \in Record /\ stage'.pending = 0
    BY StagingKeeps DEF StepsWell
  <2>2. stage' # NoStage
    BY <2>1, NoRecord
  <2>3. CountsItsOwn(stage', transfers') /\ IsFiniteSet(transfers')
    BY <2>1, <2>2 DEF StagingInv, NoStage, RecordSound, StagingTyped
  <2> DEFINE own == InRound(stage', transfers')
  <2>4. own \subseteq transfers' /\ IsFiniteSet(own) /\ Cardinality(own) = 0
    BY <2>1, <2>3, FS_Subset DEF InRound, CountsItsOwn
  <2>5. own = {}
    BY <2>4, FS_EmptySet
  <2>6. InState(stage', "pending") = {}
    BY <2>3, <2>5 DEF CountsItsOwn
  <2> QED BY <2>5, <2>6 DEF InRound, InState
<1> QED BY <1>1, StagingInvariant, PTL DEF StagingSpec, OpensWithItsPictures
=============================================================================
