---------------------------- MODULE EventStream -----------------------------
(***************************************************************************)
(* One browser preview: the server of serve.rs and the pages of preview.js *)
(* that look at it.                                                        *)
(*                                                                         *)
(* The server keeps the page it is showing and its number, the options,    *)
(* and a broadcast of frames; every stream has a place in the broadcast,   *)
(* and the broadcast keeps the last Capacity frames and no more. A page is *)
(* loaded with GET /, opens a stream and applies what comes; it closes and *)
(* reopens the stream when it breaks, and reloads itself when a patch does *)
(* not fit.                                                                *)
(***************************************************************************)
EXTENDS BlockPatch

CONSTANTS
  Tabs,          \* the browser tabs
  StreamDocs,    \* the texts the editor sends
  Page,          \* the page a text is rendered to, [StreamDocs -> pages]
  Capacity,      \* EVENT_QUEUE: frames the broadcast keeps for a slow stream
  Socket,        \* bound: frames a socket holds before a write waits
  GiveUp,        \* RECONNECT_GIVE_UP: failures before a page stops trying
  MaxOpts,       \* bound: versions of the page options
  StreamBudgets  \* bounds: how often each thing outside the program happens

ASSUME StreamAssumption ==
  /\ {Capacity, Socket, GiveUp} \subseteq Nat \ {0} /\ MaxOpts \in Nat
  /\ StreamDocs \subseteq DOMAIN Page
  /\ \A doc \in StreamDocs :
       /\ Page[doc] \in [blocks : Seq([look : DOMAIN Size, lines : Seq(Nat)]),
                         title : STRING, toc : STRING, splittable : BOOLEAN]
       /\ Same \notin {Page[doc].title, Page[doc].toc}

VARIABLES
  server,     \* which server this is on the port, from 1
  published,  \* every page this server has shown; the last is the snapshot
  opts,       \* the page options, as a version
  saying,     \* options set and not yet broadcast, 0 for none
  log,        \* every frame broadcast
  stopped,    \* the shutdown flag
  tabs,       \* what each tab has and is
  spare       \* how often each thing outside may still happen

streamVars == <<server, published, opts, saying, log, stopped, tabs, spare>>
serverVars == <<server, published, opts, saying, log, stopped>>

Snapshot == Last(published)
Current  == Len(published) - 1     \* Snapshot.seq: the first page is number 0

Shut == [state |-> "shut", children |-> << >>, title |-> "", toc |-> "", seq |-> -1,
         patchable |-> FALSE, opts |-> 0, conn |-> "none", pos |-> 0, wire |-> << >>,
         failures |-> 0, dot |-> "none", quiet |-> FALSE, bye |-> FALSE,
         of |-> 0, lagged |-> FALSE]

IsOpen(t) == tabs[t].state = "open"

Spends(what) ==
  /\ spare[what] > 0
  /\ spare' = [spare EXCEPT ![what] = @ - 1]

\* onError(): the stream is closed; the page will try again, later and later,
\* and gives up in the end.
Fails(tab) ==
  [tab EXCEPT !.wire = << >>, !.failures = @ + 1,
              !.conn = IF tab.failures + 1 >= GiveUp THEN "none" ELSE "due",
              !.dot = IF tab.failures + 1 >= GiveUp THEN "dead" ELSE "reconnecting"]

-----------------------------------------------------------------------------
(* Frames.                                                                 *)

DocFrame(page, seq) ==
  [k |-> "doc", of |-> server, seq |-> seq, children |-> Children(page.blocks), blocks |-> Len(page.blocks),
   title |-> page.title, toc |-> page.toc]

Unless(same, value) == IF same THEN Same ELSE value

PatchFrame(before, after, base, splice) ==
  [k |-> "patch", seq |-> base + 1, base |-> base, splice |-> splice,
   blocks |-> Len(after.blocks),
   title |-> Unless(before.title = after.title, after.title),
   toc |-> Unless(before.toc = after.toc, after.toc)]

UpdateFrame(before, after, base) ==
  LET splice == SpliceBlocks(before, after)
  IN  IF splice.whole THEN DocFrame(after, base + 1)
      ELSE PatchFrame(before, after, base, splice)

OptsFrame(version) == [k |-> "opts", opts |-> version]
LineFrame == [k |-> "line"]
ByeFrame == [k |-> "bye"]

\* A plausible slip: the number the page is holding is not compared with the
\* number of the document being shown.
OpeningIfNew(have) == IF have >= 0 THEN << >> ELSE << DocFrame(Snapshot, Current) >>

\* The document a stream opens with, unless the page says it has that one.
Opening(have) == IF have = Current THEN << >> ELSE << DocFrame(Snapshot, Current) >>

-----------------------------------------------------------------------------
(* The server, called by the daemon, which holds its table of previews     *)
(* over every one of these calls.                                          *)

Held == ~stopped /\ saying = 0

\* update(): under the snapshot's lock.
Update(doc) ==
  /\ Spends("updates") /\ Held
  /\ published' = Append(published, Page[doc])
  /\ log' = Append(log, UpdateFrame(Snapshot, Page[doc], Current))
  /\ UNCHANGED <<server, opts, saying, stopped, tabs>>

\* set_opts(): the options are stored under their lock ...
SetOpts(version) ==
  /\ Spends("opts") /\ Held
  /\ version # opts
  /\ opts' = version
  /\ saying' = version
  /\ UNCHANGED <<server, published, log, stopped, tabs>>

\* ... and the frame is sent when it has been let go of.
SayOpts ==
  /\ saying # 0
  /\ log' = Append(log, OptsFrame(saying))
  /\ saying' = 0
  /\ UNCHANGED <<server, published, opts, stopped, tabs, spare>>

\* cursor()
SayLine ==
  /\ Spends("cursors") /\ Held
  /\ log' = Append(log, LineFrame)
  /\ UNCHANGED <<server, published, opts, saying, stopped, tabs>>

\* stop(): the flag; every stream notices it for itself.
Stop ==
  /\ Spends("stops") /\ Held
  /\ stopped' = TRUE
  /\ UNCHANGED <<server, published, opts, saying, log, tabs>>

\* The daemon goes, and every stream with it, or the server has stopped; then a
\* preview is opened again, on the port the search comes to first: the same.
Reopen(doc) ==
  /\ stopped => \A t \in Tabs : tabs[t].conn # "on"
  /\ Spends("reopens")
  /\ server' = server + 1
  /\ published' = << Page[doc] >>
  /\ opts' = 1 /\ saying' = 0 /\ log' = << >> /\ stopped' = FALSE
  /\ tabs' = [t \in Tabs |-> CASE tabs[t].conn = "on" -> Fails(tabs[t])
                               [] tabs[t].state = "fetched" -> Shut
                               [] OTHER -> tabs[t]]

-----------------------------------------------------------------------------
(* A stream: events(). It is given its opening document and its place in   *)
(* the broadcast under the snapshot's lock.                                *)

Connect(t) ==
  /\ IsOpen(t) /\ tabs[t].conn = "due" /\ ~tabs[t].bye
  /\ tabs' = [tabs EXCEPT ![t].conn = "on", ![t].pos = Len(log),
                          ![t].wire = Opening(tabs[t].seq),
                          ![t].failures = 0, ![t].dot = "live"]
  /\ UNCHANGED <<serverVars, spare>>

Lags(t) == Len(log) - tabs[t].pos > Capacity

\* A plausible slip: a stream that has fallen behind takes the next frame there
\* is.
ReceivedOldest(t) ==
  LET at == Max({tabs[t].pos, Len(log) - Capacity})
  IN  [frame |-> log[at + 1], pos |-> at + 1]

\* What recv() gives a stream, and the place it leaves it at: the next frame,
\* or, when that is gone, the document as it is now, the place being that of the
\* oldest frame still kept.
Received(t) ==
  IF Lags(t) THEN [frame |-> DocFrame(Snapshot, Current), pos |-> Len(log) - Capacity]
  ELSE [frame |-> log[tabs[t].pos + 1], pos |-> tabs[t].pos + 1]

Forward(t) ==
  /\ tabs[t].conn = "on" /\ Len(tabs[t].wire) < Socket
  /\ tabs[t].pos < Len(log) /\ ByeFrame \notin Range(tabs[t].wire)
  /\ LET got == Received(t)
     IN  tabs' = [tabs EXCEPT ![t].wire = Append(@, got.frame), ![t].pos = got.pos,
                              ![t].lagged = @ \/ Lags(t)]
  /\ UNCHANGED <<serverVars, spare>>

\* The goodbye overtakes whatever the stream has not taken from the broadcast.
SayBye(t) ==
  /\ stopped /\ tabs[t].conn = "on" /\ ByeFrame \notin Range(tabs[t].wire)
  /\ tabs' = [tabs EXCEPT ![t].wire = Append(@, ByeFrame), ![t].pos = Len(log)]
  /\ UNCHANGED <<serverVars, spare>>

-----------------------------------------------------------------------------
(* A page.                                                                 *)

\* GET / takes the snapshot and then, under another lock, the options.
Fetch(t) ==
  /\ ~stopped
  /\ tabs' = [tabs EXCEPT ![t] = [Shut EXCEPT
                !.state = "fetched", !.quiet = tabs[t].quiet,
                !.children = Children(Snapshot.blocks), !.title = Snapshot.title,
                !.toc = Snapshot.toc, !.seq = Current, !.of = server]]
  /\ UNCHANGED serverVars

\* Somebody opens the page, or it loads itself again.
Load(t) ==
  /\ tabs[t].state = "shut" /\ Spends("loads")
  /\ Fetch(t)

LoadAgain(t) ==
  /\ tabs[t].state = "reloading"
  /\ Fetch(t)
  /\ UNCHANGED spare

\* A page that loads itself again finds nobody there.
LoadFails(t) ==
  /\ tabs[t].state = "reloading" /\ stopped
  /\ tabs' = [tabs EXCEPT ![t] = Shut]
  /\ UNCHANGED <<serverVars, spare>>

\* The shell is put together and runs: it takes its own markup for the document
\* of that number, and asks for a stream.
Start(t) ==
  /\ tabs[t].state = "fetched"
  /\ tabs' = [tabs EXCEPT ![t].state = "open", ![t].opts = opts, ![t].patchable = TRUE,
                          ![t].conn = "due", ![t].dot = "live"]
  /\ UNCHANGED <<serverVars, spare>>

Close(t) ==
  /\ IsOpen(t) /\ Spends("closes")
  /\ tabs' = [tabs EXCEPT ![t] = Shut]
  /\ UNCHANGED serverVars

\* resync(): the page loads itself again, unless it did a moment ago or cannot
\* tell; then it says it is stale.
Resynced(tab) ==
  {[tab EXCEPT !.patchable = FALSE, !.dot = "stale"]} \union
  (IF tab.quiet THEN {}
   ELSE {[Shut EXCEPT !.state = "reloading", !.quiet = TRUE]})

Whole(tab, blocks) == Len(tab.children) = blocks

\* applyDoc()
TakeDoc(tab, f) ==
  LET held == [tab EXCEPT !.children = f.children, !.seq = f.seq, !.title = f.title,
                          !.toc = f.toc, !.of = f.of]
  IN  [held EXCEPT !.patchable = Whole(held, f.blocks)]

Kept(was, now) == IF now = Same THEN was ELSE now

\* A plausible slip: the children are not counted again after a splice.
SpliceTrusted(tab, f) ==
  [tab EXCEPT !.children = SplicedBlocks(@, f.splice), !.seq = f.seq,
              !.title = Kept(@, f.title), !.toc = Kept(@, f.toc)]

\* The rest of applyPatch(), when it is about the document the page holds.
SplicePatch(tab, f) ==
  LET held == [tab EXCEPT !.children = SplicedBlocks(@, f.splice), !.seq = f.seq,
                          !.title = Kept(@, f.title), !.toc = Kept(@, f.toc)]
  IN  [held EXCEPT !.patchable = Whole(held, f.blocks)]

\* A plausible slip: only the number of children is compared, not the base.
FitsByCount(tab, f) == tab.patchable /\ Fits(tab.children, f.splice)

FitsPatch(tab, f) ==
  tab.patchable /\ f.base = tab.seq /\ Fits(tab.children, f.splice)

\* applyPatch()
TakePatch(tab, f) == IF FitsPatch(tab, f) THEN {SplicePatch(tab, f)} ELSE Resynced(tab)

\* onBye()
TakeBye(tab) ==
  [tab EXCEPT !.bye = TRUE, !.conn = "none", !.wire = << >>, !.dot = "dead"]

\* onMessage(): what may become of the page when a frame comes.
Taken(tab, f) ==
  CASE f.k = "doc"   -> {TakeDoc(tab, f)}
    [] f.k = "patch" -> TakePatch(tab, f)
    [] f.k = "opts"  -> {[tab EXCEPT !.opts = f.opts]}
    [] f.k = "line"  -> {tab}
    [] f.k = "bye"   -> {TakeBye(tab)}

Handle(t) ==
  /\ tabs[t].conn = "on" /\ tabs[t].wire # << >>
  /\ \E tab \in Taken([tabs[t] EXCEPT !.wire = Tail(@)], Head(tabs[t].wire)) :
       tabs' = [tabs EXCEPT ![t] = tab]
  /\ UNCHANGED <<serverVars, spare>>

\* A stream breaks, or a write to it stalls for too long.
Drop(t) ==
  /\ tabs[t].conn = "on" /\ Spends("drops")
  /\ tabs' = [tabs EXCEPT ![t] = Fails(tabs[t])]
  /\ UNCHANGED serverVars

\* A stream is asked for and nobody answers: the server has stopped.
Refused(t) ==
  /\ tabs[t].conn = "due" /\ stopped
  /\ tabs' = [tabs EXCEPT ![t] = Fails(tabs[t])]
  /\ UNCHANGED <<serverVars, spare>>

\* onVisible(): somebody looks at a page that has no stream.
LookAgain(t) ==
  /\ IsOpen(t) /\ tabs[t].conn # "on" /\ tabs[t].failures > 0 /\ ~tabs[t].bye
  /\ Spends("looks")
  /\ tabs' = [tabs EXCEPT ![t].failures = 0, ![t].conn = "due"]
  /\ UNCHANGED serverVars

\* RESYNC_QUIET_MS have gone by since a page last loaded itself again.
QuietEnds(t) ==
  /\ tabs[t].quiet /\ Spends("rests")
  /\ tabs' = [tabs EXCEPT ![t].quiet = FALSE]
  /\ UNCHANGED serverVars

-----------------------------------------------------------------------------
StreamInit ==
  /\ server = 1
  /\ \E doc \in StreamDocs : published = << Page[doc] >>
  /\ opts = 1 /\ saying = 0 /\ log = << >> /\ stopped = FALSE
  /\ tabs = [t \in Tabs |-> Shut]
  /\ spare \in StreamBudgets

StreamNext ==
  \/ \E doc \in StreamDocs : Update(doc)
  \/ \E version \in 1..MaxOpts : SetOpts(version)
  \/ SayOpts
  \/ SayLine
  \/ Stop
  \/ \E doc \in StreamDocs : Reopen(doc)
  \/ \E t \in Tabs :
       \/ Connect(t)
       \/ Forward(t)
       \/ SayBye(t)
       \/ Load(t)
       \/ LoadAgain(t)
       \/ LoadFails(t)
       \/ Start(t)
       \/ Close(t)
       \/ Handle(t)
       \/ Drop(t)
       \/ Refused(t)
       \/ LookAgain(t)
       \/ QuietEnds(t)

StreamSpec == StreamInit /\ [][StreamNext]_streamVars

\* Streams are served, frames travel and pages run; nobody need do anything.
StreamFairness ==
  /\ WF_streamVars(SayOpts)
  /\ \A t \in Tabs : /\ WF_streamVars(Connect(t) \/ Refused(t))
                     /\ WF_streamVars(Forward(t))
                     /\ WF_streamVars(SayBye(t))
                     /\ WF_streamVars(Start(t))
                     /\ WF_streamVars(LoadAgain(t) \/ LoadFails(t))
                     /\ WF_streamVars(Handle(t))

FairStreamSpec == StreamSpec /\ StreamFairness

-----------------------------------------------------------------------------
(* Properties.                                                             *)

\* What a tab shows, and what the document of this number should look like.
Seen(t) == [children |-> tabs[t].children, title |-> tabs[t].title, toc |-> tabs[t].toc]
Look(page) == [children |-> Children(page.blocks), title |-> page.title, toc |-> page.toc]

\* A page that has its document from this server.  (A page that lost a server
\* without a goodbye asks the next one with the number it has, which says nothing of
\* whose number it is.)
Mine(t) == IsOpen(t) /\ tabs[t].of = server

\* A page that has taken everything there is, and would take a patch, is at the number
\* of the document as it is now: no update falls between the document a stream opens
\* with and the first frame it is given (events() of serve.rs).  For a page that has its
\* document from this server that is the document too (MirrorsTheEditor).
CaughtUp(t) ==
  /\ tabs[t].conn = "on" /\ tabs[t].wire = << >> /\ tabs[t].pos = Len(log)

NoneBehind ==
  \A t \in Tabs : CaughtUp(t) /\ tabs[t].patchable => tabs[t].seq = Current

\* What the viewer of Mirror sees: the page, where the page trusts itself.
ViewOf(t) == IF Mine(t) /\ tabs[t].patchable THEN {Seen(t)} ELSE {}

\* Whether the patch from each document to each makes the page it was made for, or one
\* that counts itself wrong (block_patch() of serve.rs, applyPatch() of preview.js).
PatchesAreExact ==
  \A doc, next \in StreamDocs :
    LET splice == SpliceBlocks(Page[doc], Page[next])
        made   == SplicedBlocks(Children(Page[doc].blocks), splice)
    IN  splice.whole \/ (Len(made) = Len(Page[next].blocks) => made = Children(Page[next].blocks))

\* The lines in a block are as far from its own as they are in another that looks the
\* same, and one that is of no source line has none in it.
LinesFollow(a, b) ==
  /\ Len(a.lines) = Len(b.lines) /\ a.lines # << >>
  /\ \A n \in DOMAIN a.lines :
       IF a.lines[n] = 0 THEN b.lines[n] = 0
       ELSE /\ b.lines[n] # 0 /\ Line(a) # 0
            /\ b.lines[n] - a.lines[n] = Line(b) - Line(a)

\* From the first block that moved on, every one that stays has moved, or is of no
\* source line.
MoveTogether(old, new) ==
  LET head  == SameHead(old, new)
      tail  == SameTail(old, new, head)
      moved == Moved(old, new, head, tail)
  IN  \A i \in moved, j \in Survivors(old, head, tail) :
        i < j => j \in moved \/ Line(old[j]) = 0

\* What has to be so of pages for a patch to make the one it was made for.
BlocksMoveAsOne ==
  /\ \A look \in DOMAIN Size : Elements[look] \in Nat \ {0}
  /\ \A doc, next \in StreamDocs :
       LET old == Page[doc].blocks
           new == Page[next].blocks
       IN  /\ MoveTogether(old, new)
           /\ \A i \in DOMAIN old, j \in DOMAIN new :
                old[i].look = new[j].look => LinesFollow(old[i], new[j])

M == INSTANCE Mirror WITH
       Viewers <- Tabs,
       written <- [i \in DOMAIN published |-> Look(published[i])],
       at      <- [t \in Tabs |-> IF Mine(t) THEN tabs[t].seq + 1 ELSE 0],
       view    <- [t \in Tabs |-> ViewOf(t)],
       late    <- [t \in Tabs |-> tabs[t].lagged]

\* The server and its pages implement a mirror: every page that trusts itself
\* shows a document that was published, and never an older one after a newer one
\* unless its stream fell behind. A page that will take a patch thus shows the very
\* document its number stands for, whatever frames it missed, took twice or took late
\* (events() and update() of serve.rs, applyDoc(), applyPatch() and resync() of
\* preview.js).
MirrorsTheEditor == M!Spec

\* Whatever was lost on the way, a page that goes on saying it is live has taken all
\* there is in the end, and if it would take a patch, it shows the document as it is
\* now: what it missed it is sent, or it loads itself again, or it says that it is
\* stale, trying again or dead (events() of serve.rs, onError(), resync() and setDot()
\* of preview.js).  Of a page that still has its document from an earlier server, and
\* of one that found itself with too many children, that is said of the number alone.
PagesSettle ==
  \A t \in Tabs : <>[](IsOpen(t) /\ tabs[t].dot = "live" =>
                        /\ CaughtUp(t) /\ tabs[t].seq = Current
                        /\ Mine(t) /\ tabs[t].patchable => Seen(t) = Look(Snapshot))

\* What the server says of its numbers: a page that does not have the document a number
\* stands for "can tell, and wait for the next whole document" (struct Snapshot).  So one
\* that says it is live and has taken all there is shows that document.
LiveIsCurrent ==
  \A t \in Tabs : CaughtUp(t) /\ tabs[t].dot = "live" => Seen(t) = Look(Snapshot)

\* What block_patch() says of blocks that moved by more than one distance: "the honest
\* answer is the whole document".  A page that would take another patch then shows the
\* very document its number stands for, source lines included.
TrustedIsReal ==
  \A t \in Tabs : Mine(t) /\ tabs[t].patchable =>
    /\ tabs[t].seq + 1 \in DOMAIN published
    /\ Seen(t) = Look(published[tabs[t].seq + 1])

\* What events() says of a stream that fell behind: "the honest repair is the one
\* that is current".  After it, the page never goes back to an older document.
NeverShowsOlder ==
  [][\A t \in Tabs : Mine(t) /\ Mine(t)' => tabs'[t].seq >= tabs[t].seq]_streamVars
=============================================================================
