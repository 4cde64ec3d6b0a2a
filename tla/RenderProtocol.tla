--------------------------- MODULE RenderProtocol ---------------------------
(***************************************************************************)
(* The in-Vim preview: several windows, each following a buffer, and one   *)
(* daemon that lays documents out for all of them.                         *)
(*                                                                         *)
(* The editor (autoload/simplemarkdown.vim over its supervisor core.vim)   *)
(* is single threaded: an action of it is one command, autocommand, timer  *)
(* or channel callback, run to its end with every call it makes. The       *)
(* daemon is a loop that reads one request at a time and a task per        *)
(* render; the steps of a task are the stretches between its lock          *)
(* acquisitions.                                                           *)
(*                                                                         *)
(* A document stands for the text of a buffer, an index for the three      *)
(* whole-document indexes (outline, links, blocks) that travel together;   *)
(* index 0 is what a session that was sent none has.                       *)
(***************************************************************************)
EXTENDS RowPatch, CancelledTable, SequencesExt

CONSTANTS
  Keys,           \* preview windows; a window id is never used twice
  Bufs,           \* Markdown buffers
  Docs,           \* the texts a buffer can hold
  Widths,         \* window widths
  Narrowest,      \* the width below which no document is laid out
  Layout(_, _),   \* the rows of a document at a width
  Index(_, _),    \* its outline, links and blocks at a width, never 0
  FailingDocs,    \* documents the renderer panics on
  MaxSessions,    \* documents the daemon remembers at most (MAX_SESSIONS)
  Scenarios       \* whether a daemon is up already (`job`), and a bound (`left`):
                  \* how often each thing outside the program happens

ASSUME SessionsAssumption == MaxSessions \in Nat \ {0}

ASSUME KeysAssumption == IsFiniteSet(Keys)

ASSUME ScenariosAssumption == \A s \in Scenarios : s.job \in {"none", "run"}

ASSUME LayoutAssumption ==
  /\ Widths \subseteq Nat /\ Narrowest \in Nat
  /\ \A doc \in Docs, width \in Widths \cup {Narrowest} :
       Layout(doc, width) \in Seq(Row) /\ Index(doc, width) \in Nat \ {0}

VARIABLES
  buf,         \* for every buffer its text and its changedtick
  win,         \* for every window its width
  sess,        \* the preview sessions (sessions)
  requests,    \* the plugin's table: render id -> session key
  calls,       \* the supervisor's table: id -> callback (s_pending)
  nextId,      \* the last request id handed out (s_next_id)
  job,         \* "none", "run", or "dead" while its exit is not yet reported
  greeting,    \* whether the handshake is unanswered (s_handshake_id > 0)
  restart,     \* whether the backoff timer is running (s_restart_timer)
  toDaemon,    \* the daemon's stdin
  toEditor,    \* its stdout, the queue in front of it included
  cancelled,   \* withdrawn ids (CancelledRequests)
  remembered,  \* what each session was last sent (sessions)
  tasks,       \* renders in progress
  replies,     \* answers decided on and not yet queued
  left         \* what is left of the budget

editorVars == <<buf, win, sess, requests, calls, nextId, greeting, restart>>
daemonVars == <<cancelled, remembered, tasks, replies>>
vars == <<editorVars, job, toDaemon, toEditor, daemonVars, left>>

Without(f, xs) == [x \in DOMAIN f \ xs |-> f[x]]
With(f, x, value) == [y \in DOMAIN f \cup {x} |-> IF y = x THEN value ELSE f[y]]

NoMap == [buf |-> 0, tick |-> -1, gen |-> 0]

\* A session as OpenForCurrentTab() makes it.  The last three are history: the
\* answer last put on screen, as the daemon rendered it; the renders that were
\* given up, withdrawn or timed out; and whether an answer has been put on screen
\* that builds on one of those, which the daemon gave all the same.
Fresh(b) ==
  [open |-> TRUE, src |-> b, timer |-> FALSE, width |-> 0, held |-> << >>,
   index |-> 0, rendered |-> FALSE, gen |-> 0, map |-> NoMap,
   shown |-> [id |-> 0, rows |-> << >>, index |-> 0],
   givenUp |-> {}, astray |-> FALSE]

NoSession == [open |-> FALSE, used |-> FALSE]
Closed == [open |-> FALSE, used |-> TRUE]

Open == {k \in Keys : sess[k].open}
Following(b) == {k \in Open : sess[k].src = b}

\* A plausible slip: the generation is trusted to tell that the text moved on.
SourceMapOfThisAsking(k) ==
  /\ sess[k].rendered
  /\ sess[k].map.buf = sess[k].src
  /\ sess[k].map.gen = sess[k].gen

\* Whether a row of the preview may be used to edit the source.
SourceMapCurrent(k) ==
  /\ sess[k].rendered
  /\ sess[k].map = [buf |-> sess[k].src, tick |-> buf[sess[k].src].tick, gen |-> sess[k].gen]

-----------------------------------------------------------------------------
(* The editor. A handler is a function on what the editor knows; `mail` is *)
(* what it writes to the daemon on the way.                                *)

Editor == [buf |-> buf, win |-> win, sess |-> sess, requests |-> requests,
           calls |-> calls, nextId |-> nextId, job |-> job, greeting |-> greeting,
           inbox |-> toEditor, mail |-> << >>]

Ping == [type |-> "ping"]
Cancel(id) == [type |-> "cancel", id |-> id]
Forget(k) == [type |-> "forget", key |-> k]

\* The renders a session has asked for and not heard about.
Moot(ed, k) == {id \in DOMAIN ed.requests : ed.requests[id] = k}

\* A plausible slip: the plugin's own entry stays behind.
WithdrawFromSupervisor(ed, k) ==
  LET moot == Moot(ed, k)
  IN  [ed EXCEPT !.calls = Without(ed.calls, moot),
                 !.mail  = ed.mail \o SetToSeq({Cancel(id) : id \in moot})]

\* Whatever a session is waiting for is moot: it is dropped from both tables and
\* the daemon is told.
Withdraw(ed, k) ==
  LET moot == Moot(ed, k)
  IN  [ed EXCEPT !.requests = Without(ed.requests, moot),
                 !.calls    = Without(ed.calls, moot),
                 !.mail     = ed.mail \o SetToSeq({Cancel(id) : id \in moot})]

\* A plausible slip: the counter is read before it is advanced.
NextIdReadFirst(ed) == ed.nextId

\* `NextId`: the sequence is the supervisor's, and starts at 1.
NextId(ed) == ed.nextId + 1

\* `Render`, by way of `Schedule(key, 0)`: a new generation of this session is
\* asked for and the one before it is withdrawn.
Render(ed, k) ==
  LET s     == ed.sess[k]
      id    == NextId(ed)
      gen   == s.gen + 1
      tick  == ed.buf[s.src].tick
      quiet == Withdraw(ed, k)
  IN  [quiet EXCEPT
        !.nextId   = ed.nextId + 1,
        !.sess     = [ed.sess EXCEPT ![k] =
                       [s EXCEPT !.timer = FALSE, !.width = ed.win[k], !.gen = gen,
                                 !.givenUp = s.givenUp \cup Moot(ed, k)]],
        !.requests = With(quiet.requests, id, k),
        !.calls    = With(quiet.calls, id,
                          [key |-> k, gen |-> gen, buf |-> s.src, tick |-> tick]),
        !.mail     = Append(quiet.mail,
                            [type |-> "render", id |-> id, key |-> k,
                             doc |-> ed.buf[s.src].doc, width |-> ed.win[k],
                             incremental |-> s.rendered])]

\* The same for several sessions, in the order the dictionary offers them.
RenderAll(ed, order) ==
  LET after[n \in 0..Len(order)] ==
        IF n = 0 THEN ed ELSE Render(after[n - 1], order[n])
  IN  after[Len(order)]

\* A plausible slip: the flag is left for the next answer to clear.
PlaceholderKeepingClaim(ed, k) ==
  [ed EXCEPT !.sess = [ed.sess EXCEPT ![k] =
    [ed.sess[k] EXCEPT !.held = << >>, !.index = 0, !.map = NoMap]]]

\* `Placeholder`: a message in place of the rows.
Placeholder(ed, k) ==
  [ed EXCEPT !.sess = [ed.sess EXCEPT ![k] =
    [ed.sess[k] EXCEPT !.held = << >>, !.index = 0, !.map = NoMap, !.rendered = FALSE]]]

\* A session says its rows are gone and asks for the whole document: `Discard`,
\* and every other place that sets `rendered` false and schedules.
Resync(ed, k) ==
  Render([ed EXCEPT !.sess = [ed.sess EXCEPT ![k] = [ed.sess[k] EXCEPT !.rendered = FALSE]]], k)

\* `Apply` on an answer that is for this window as it is now.
Apply(ed, k, call, reply) ==
  LET s      == ed.sess[k]
      rows   == IF reply.whole THEN reply.rows ELSE Patched(s.held, reply.patch)
      fits   == reply.whole \/ PatchFits(s.held, reply.patch)
      agrees == Len(rows) = Len(reply.rows) /\ SourceSum(rows) = SourceSum(reply.rows)
      After(t) == [ed EXCEPT !.sess = [ed.sess EXCEPT ![k] = t]]
  IN  IF ~ reply.whole /\ ~ s.rendered THEN Render(ed, k)
      ELSE IF ~ fits \/ ~ agrees THEN Resync(After([s EXCEPT !.held = rows]), k)
      ELSE After([s EXCEPT
             !.held     = rows,
             !.index    = IF reply.carries THEN reply.index ELSE s.index,
             !.rendered = TRUE,
             !.map      = [buf |-> call.buf, tick |-> call.tick, gen |-> call.gen],
             !.astray   = reply.base \in s.givenUp \/ (reply.base > 0 /\ s.astray),
             !.shown    = [id |-> reply.id, rows |-> reply.rows, index |-> reply.index]])

\* Whether an answer is about a document or an asking this session has left.
Stale(ed, call) ==
  LET s == ed.sess[call.key]
  IN  \/ call.gen # s.gen
      \/ call.buf # s.src
      \/ call.tick # ed.buf[call.buf].tick

Failure(id) == [type |-> "error", id |-> id]

\* A plausible slip: the callback is gone, the plugin's entry is not.
SettledInSupervisor(ed, id) == [ed EXCEPT !.calls = Without(ed.calls, {id})]

\* A call that is being answered is in neither table while its callback runs.
Settled(ed, id) ==
  [ed EXCEPT !.requests = Without(ed.requests, {id}),
             !.calls    = Without(ed.calls, {id})]

\* `OnRenderReply`, from the supervisor's `ResolvePending`.
OnRenderReply(ed, call, reply) ==
  LET done == Settled(ed, reply.id)
  IN  IF Stale(done, call) THEN Resync(done, call.key)
      ELSE IF reply.type = "error" THEN Placeholder(done, call.key)
      ELSE IF reply.width # done.win[call.key] THEN Resync(done, call.key)
      ELSE Apply(done, call.key, call, reply)

\* `ClearPending`: the table is emptied first, then the callbacks run on what
\* was in it, in the order the dictionary offers them.
ClearPending(ed, order) ==
  LET after[n \in 0..Len(order)] ==
        IF n = 0 THEN [ed EXCEPT !.calls = << >>]
        ELSE OnRenderReply(after[n - 1], ed.calls[order[n]], Failure(order[n]))
  IN  after[Len(order)]

\* A new process has read nothing and remembers nothing.
BlankDaemon ==
  /\ cancelled' = NoneCancelled
  /\ remembered' = << >>
  /\ tasks' = {}
  /\ replies' = {}

\* `Ensure`, with what the handler that called it went on to write.  The
\* handshake goes first; output of the process before is fenced off.
StartDaemon(mail) ==
  /\ job' = "run"
  /\ greeting' = TRUE
  /\ toDaemon' = <<Ping>> \o mail
  /\ toEditor' = << >>
  /\ BlankDaemon

\* The end of a handler.  Only one that asks for a render writes anything, and
\* it ensures a daemon first.
Finish(handler) ==
  \E ed \in {handler} :  \* one value, of which every variable takes its part
    /\ buf' = ed.buf
    /\ win' = ed.win
    /\ sess' = ed.sess
    /\ requests' = ed.requests
    /\ calls' = ed.calls
    /\ nextId' = ed.nextId
    /\ IF ed.mail # << >> /\ ed.job # "run"
       THEN StartDaemon(ed.mail)
       ELSE /\ job' = ed.job
            /\ greeting' = ed.greeting
            /\ toDaemon' = toDaemon \o ed.mail
            /\ toEditor' = ed.inbox
            /\ UNCHANGED daemonVars

Spend(what) ==
  /\ left[what] > 0
  /\ left' = [left EXCEPT ![what] = @ - 1]

\* OpenForCurrentTab: one preview per tab page, so one session is made at a time.
OpenPreview(k, b) ==
  /\ sess[k] = NoSession
  /\ left.opens[k] > 0
  /\ left' = [left EXCEPT !.opens[k] = @ - 1]
  /\ Finish(Render([Editor EXCEPT !.sess = [sess EXCEPT ![k] = Fresh(b)]], k))
  /\ UNCHANGED restart

\* A text with its changedtick moved on.
Changed(b, doc) == [buf EXCEPT ![b] = [doc |-> doc, tick |-> @.tick + 1]]

\* A keystroke: OnTextChanged (re)arms the debounce timer of every preview of
\* the buffer.
Edit(b, doc) ==
  /\ doc # buf[b].doc
  /\ Spend("edits")
  /\ buf' = Changed(b, doc)
  /\ sess' = [k \in Keys |-> IF k \in Following(b) THEN [sess[k] EXCEPT !.timer = TRUE]
                                                  ELSE sess[k]]
  /\ UNCHANGED <<win, requests, calls, nextId, greeting, restart,
                 job, toDaemon, toEditor, daemonVars>>

\* The debounce (or resize) timer of a session goes off.
TimerFires(k) ==
  /\ k \in Open
  /\ sess[k].timer
  /\ Finish(Render(Editor, k))
  /\ UNCHANGED <<restart, left>>

\* A window changes width; OnResized arms a timer for every session that was
\* laid out for another one.
Resize(k, width) ==
  /\ k \in Open
  /\ width # win[k]
  /\ Spend("resizes")
  /\ win' = [win EXCEPT ![k] = width]
  /\ sess' = [j \in Keys |-> IF j \in Open /\ win'[j] # sess[j].width
                             THEN [sess[j] EXCEPT !.timer = TRUE] ELSE sess[j]]
  /\ UNCHANGED <<buf, requests, calls, nextId, greeting, restart,
                 job, toDaemon, toEditor, daemonVars>>

\* OnContextChanged: the preview follows the user to another buffer.
SwitchSource(k, b) ==
  /\ k \in Open
  /\ sess[k].src # b
  /\ Spend("switches")
  /\ Finish(Render([Editor EXCEPT !.sess = [sess EXCEPT ![k] =
                     [sess[k] EXCEPT !.src = b, !.map = NoMap]]], k))
  /\ UNCHANGED restart

\* :SimpleMarkdownRefresh, and a ToggleTask() refused for its stale map.
Refresh(k) ==
  /\ k \in Open
  /\ Spend("refreshes")
  /\ \E order \in SetToSeqs(Following(sess[k].src)) :
       Finish(RenderAll(Editor, order))
  /\ UNCHANGED restart

\* ToggleTask() from a preview row: the source line the map names is edited, and
\* every preview of the buffer is rendered at once.
ToggleTask(k, doc) ==
  /\ k \in Open
  /\ SourceMapCurrent(k)
  /\ doc # buf[sess[k].src].doc
  /\ Spend("toggles")
  /\ \E order \in SetToSeqs(Following(sess[k].src)) :
       Finish(RenderAll([Editor EXCEPT !.buf = Changed(sess[k].src, doc)], order))
  /\ UNCHANGED restart

\* The window is closed: DropSession withdraws what the session had asked for
\* and has the daemon forget it, if there is a daemon to tell.
ClosePreview(k) ==
  /\ k \in Open
  /\ Spend("closes")
  /\ sess' = [sess EXCEPT ![k] = Closed]
  /\ LET quiet == Withdraw(Editor, k)
     IN  /\ requests' = quiet.requests
         /\ calls' = quiet.calls
         /\ toDaemon' = IF job = "run" THEN toDaemon \o quiet.mail \o <<Forget(k)>>
                                       ELSE toDaemon
  /\ UNCHANGED <<buf, win, nextId, greeting, restart, job, toEditor, daemonVars>>

\* The editor with the first line of the daemon's output read.
Reading == [Editor EXCEPT !.inbox = Tail(toEditor)]

\* A plausible slip: the handshake is noted and no session asks again.
GreetedAndThatIsAll ==
  /\ toEditor # << >> /\ Head(toEditor).type = "pong"
  /\ Finish([Reading EXCEPT !.greeting = FALSE])
  /\ UNCHANGED <<restart, left>>

\* `Dispatch` of the handshake's answer, then OnDaemonReady: every session asks.
Greeted ==
  /\ toEditor # << >> /\ Head(toEditor).type = "pong"
  /\ IF greeting
     THEN \E order \in SetToSeqs(Open) :
            Finish(RenderAll([Reading EXCEPT !.greeting = FALSE], order))
     ELSE Finish(Reading)
  /\ UNCHANGED <<restart, left>>

\* `Dispatch` of an answer: to the callback waiting for it, or to nobody.
Answered ==
  /\ toEditor # << >> /\ Head(toEditor).type # "pong"
  /\ LET reply == Head(toEditor)
     IN  Finish(IF reply.id \in DOMAIN calls THEN OnRenderReply(Reading, calls[reply.id], reply)
                                             ELSE Reading)
  /\ UNCHANGED <<restart, left>>

\* History: a render is waited for no longer.  The daemon is not told.
GivingUp(ed, id) ==
  LET k == ed.calls[id].key
  IN  [ed EXCEPT !.sess = [ed.sess EXCEPT ![k] =
        [ed.sess[k] EXCEPT !.givenUp = ed.sess[k].givenUp \cup {id}]]]

\* `ExpireRequest`: nobody answered in time.
TimesOut(id) ==
  /\ id \in DOMAIN calls
  /\ Spend("timeouts")
  /\ Finish(OnRenderReply(GivingUp(Editor, id), calls[id], Failure(id)))
  /\ UNCHANGED restart

\* `OnExit` of a daemon nobody asked to stop: every call fails, any of the
\* callbacks may start the next daemon, and the restart is put on the backoff
\* timer.
DaemonExits ==
  /\ job = "dead"
  /\ \E order \in SetToSeqs(DOMAIN calls) :
       Finish(ClearPending([Editor EXCEPT !.job = "none", !.greeting = FALSE], order))
  /\ restart' = TRUE
  /\ UNCHANGED left

\* The backoff timer goes off.
RestartFires ==
  /\ restart
  /\ restart' = FALSE
  /\ IF job # "run" THEN StartDaemon(<< >>)
                    ELSE UNCHANGED <<job, greeting, toDaemon, toEditor, daemonVars>>
  /\ UNCHANGED <<buf, win, sess, requests, calls, nextId, left>>

-----------------------------------------------------------------------------
(* The daemon.                                                             *)

\* The loop in `serve` reads a line.
ReadsRequest ==
  /\ job = "run"
  /\ toDaemon # << >>
  /\ toDaemon' = Tail(toDaemon)
  /\ LET request == Head(toDaemon)
     IN  \/ /\ request.type = "ping"
            /\ toEditor' = Append(toEditor, [type |-> "pong"])
            /\ UNCHANGED daemonVars
         \/ /\ request.type = "cancel"
            /\ cancelled' = NoteCancelled(cancelled, request.id)
            /\ UNCHANGED <<toEditor, remembered, tasks, replies>>
         \/ /\ request.type = "forget"
            /\ remembered' = Without(remembered, {request.key})
            /\ UNCHANGED <<toEditor, cancelled, tasks, replies>>
         \/ /\ request.type = "render"
            /\ tasks' = tasks \cup {[request |-> request, stage |-> "queued"]}
            /\ UNCHANGED <<toEditor, cancelled, remembered, replies>>
  /\ UNCHANGED <<editorVars, job, left>>

\* A task looks for its id among the withdrawn ones, and goes on to `stage`
\* unless it is there.
LooksForCancel(task, stage) ==
  LET id   == task.request.id
      gone == id \in cancelled.ids
  IN  /\ cancelled' = IF gone THEN Forgive(cancelled, id) ELSE cancelled
      /\ tasks' = (tasks \ {task})
                    \cup (IF gone THEN {} ELSE {[task EXCEPT !.stage = stage]})
      /\ UNCHANGED <<editorVars, job, toDaemon, toEditor, remembered, replies, left>>

\* The render is picked up; a cancel that overtook it in the queue is seen here.
PicksUp(task) ==
  /\ task.stage = "queued"
  /\ LooksForCancel(task, "rendering")

\* The renderer is done; a cancel that came meanwhile is seen here, one that
\* comes later is not.
Renders(task) ==
  /\ task.stage = "rendering"
  /\ task.request.doc \notin FailingDocs
  /\ LooksForCancel(task, "rendered")

\* The renderer panicked: the task reports it without asking for a cancel.
Panics(task) ==
  /\ task.stage = "rendering"
  /\ task.request.doc \in FailingDocs
  /\ tasks' = tasks \ {task}
  /\ replies' = replies \cup {Failure(task.request.id)}
  /\ UNCHANGED <<editorVars, job, toDaemon, toEditor, cancelled, remembered, left>>

\* `stalest_session`.
Stalest(table) ==
  CHOOSE k \in DOMAIN table : \A j \in DOMAIN table : table[k].id <= table[j].id

\* A plausible slip: only `forget` ever takes a session off the table.
RememberWithoutEviction(table, k, entry) == With(table, k, entry)

\* The session table after an answer: room is made for a session it did not hold.
Remember(table, k, entry) ==
  LET kept == IF Cardinality(DOMAIN table) >= MaxSessions /\ k \notin DOMAIN table
              THEN Without(table, {Stalest(table)}) ELSE table
  IN  With(kept, k, entry)

\* A plausible slip: answers are remembered in the order renders finish.
NeverOvertaken(k, id) == FALSE

\* A document is never laid out for a window narrower than this.
LaidOutAt(width) == IF width < Narrowest THEN Narrowest ELSE width

\* Whether an answer newer than this one has already been given.
Overtaken(k, id) == k \in DOMAIN remembered /\ remembered[k].id > id

\* Under the session lock the answer is decided on, as a patch against what the
\* session was last sent or whole, and remembered as what it was last sent.
\* `rows` stands for the count and the checksum every answer carries, and for
\* the rows themselves in a whole one; `base` is history, the answer it builds on.
Commits(task) ==
  LET request == task.request
      k       == request.key
      width   == LaidOutAt(request.width)
      rows    == Layout(request.doc, width)
      index   == Index(request.doc, width)
      known   == request.incremental /\ k \in DOMAIN remembered
      before  == IF known THEN remembered[k] ELSE [id |-> 0, rows |-> << >>, index |-> 0]
      patch   == Diff(before.rows, rows)
  IN  /\ task.stage = "rendered"
      /\ tasks' = tasks \ {task}
      /\ IF Overtaken(k, request.id)
         THEN UNCHANGED <<remembered, replies>>
         ELSE /\ remembered' = Remember(remembered, k,
                                 [id |-> request.id, rows |-> rows, index |-> index])
              /\ replies' = replies \cup
                   {[type |-> "render_result", id |-> request.id, width |-> width,
                     whole |-> ~ known \/ ~ WorthSending(patch, rows), patch |-> patch,
                     rows |-> rows, carries |-> before.index # index, index |-> index,
                     base |-> before.id]}
      /\ UNCHANGED <<editorVars, job, toDaemon, toEditor, cancelled, left>>

\* `send`: tasks queue their answers in whatever order they are scheduled.
Sends(reply) ==
  /\ replies' = replies \ {reply}
  /\ toEditor' = Append(toEditor, reply)
  /\ UNCHANGED <<editorVars, job, toDaemon, cancelled, remembered, tasks, left>>

\* The process dies; what it had not written is lost with all it knew.
Crashes ==
  /\ job = "run"
  /\ Spend("crashes")
  /\ job' = "dead"
  /\ toDaemon' = << >>
  /\ \E n \in 0..Len(toEditor) : toEditor' = SubSeq(toEditor, 1, n)
  /\ BlankDaemon
  /\ UNCHANGED editorVars

-----------------------------------------------------------------------------
Init ==
  /\ \E text \in [Bufs -> Docs] : buf = [b \in Bufs |-> [doc |-> text[b], tick |-> 0]]
  /\ win \in [Keys -> Widths]
  /\ sess = [k \in Keys |-> NoSession]
  /\ requests = << >>
  /\ calls = << >>
  /\ nextId = 0
  /\ greeting = FALSE
  /\ restart = FALSE
  /\ toDaemon = << >>
  /\ toEditor = << >>
  /\ cancelled = NoneCancelled
  /\ remembered = << >>
  /\ tasks = {}
  /\ replies = {}
  /\ \E s \in Scenarios : job = s.job /\ left = s.left

User ==
  \/ \E k \in Keys, b \in Bufs : OpenPreview(k, b) \/ SwitchSource(k, b)
  \/ \E b \in Bufs, doc \in Docs : Edit(b, doc)
  \/ \E k \in Keys, width \in Widths : Resize(k, width)
  \/ \E k \in Keys, doc \in Docs : ToggleTask(k, doc)
  \/ \E k \in Keys : Refresh(k) \/ ClosePreview(k)

Timers ==
  \/ \E k \in Keys : TimerFires(k)
  \/ RestartFires

Callbacks == Greeted \/ Answered \/ DaemonExits

Task(task) == PicksUp(task) \/ Renders(task) \/ Panics(task) \/ Commits(task)

Daemon ==
  \/ ReadsRequest
  \/ \E task \in tasks : Task(task)
  \/ \E reply \in replies : Sends(reply)

Faults ==
  \/ Crashes
  \/ \E id \in DOMAIN calls : TimesOut(id)

Next == User \/ Timers \/ Callbacks \/ Daemon \/ Faults

Spec == Init /\ [][Next]_vars

-----------------------------------------------------------------------------
(* Fairness: Vim's loop runs the timers that are due and the callbacks of  *)
(* output that has arrived, the daemon's runtime runs its loop and every   *)
(* task that can go on.  Nothing the user does, and no fault, is fair.     *)

Fairness ==
  /\ \A k \in Keys : WF_vars(TimerFires(k))
  /\ WF_vars(RestartFires)
  /\ WF_vars(Greeted)
  /\ WF_vars(Answered)
  /\ WF_vars(DaemonExits)
  /\ WF_vars(ReadsRequest)
  /\ WF_vars(\E task \in tasks : Task(task))
  /\ WF_vars(\E reply \in replies : Sends(reply))

FairSpec == Spec /\ Fairness

-----------------------------------------------------------------------------
(* Properties.                                                             *)

Ids == 1..nextId

SessionOK(k) ==
  \/ sess[k] \in {NoSession, Closed}
  \/ /\ sess[k].open /\ sess[k].src \in Bufs
     /\ {sess[k].timer, sess[k].rendered, sess[k].astray} \subseteq BOOLEAN
     /\ sess[k].width \in Widths \cup {0}
     /\ {sess[k].index, sess[k].gen, sess[k].shown.id} \subseteq Nat
     /\ sess[k].givenUp \subseteq Ids
     /\ \A rows \in {sess[k].held, sess[k].shown.rows} :
          \A i \in 1..Len(rows) : rows[i].look \in Looks /\ rows[i].src \in Int
     /\ sess[k].map = NoMap \/ (sess[k].map.buf \in Bufs /\ sess[k].map.tick \in Nat)

\* Every variable holds what the code declares.  A source map is a list of
\* numbers: one repaired by a patch meant for other rows may hold any.
TypeOK ==
  /\ \A b \in Bufs : buf[b].doc \in Docs /\ buf[b].tick \in Nat
  /\ win \in [Keys -> Widths]
  /\ \A k \in Keys : SessionOK(k)
  /\ DOMAIN requests \subseteq Ids
  /\ DOMAIN calls \subseteq Ids
  /\ job \in {"none", "run", "dead"}
  /\ {greeting, restart} \subseteq BOOLEAN
  /\ DOMAIN remembered \subseteq Keys
  /\ \A task \in tasks : task.request.id \in Ids
  /\ \A reply \in replies : reply.id \in Ids

\* What the plugin is waiting for is what the supervisor is: at most one render
\* for every open session, the newest it asked for, and none for a closed one.
\* The two tables are kept by two modules that call one another back; the
\* generation check in OnRenderReply is there for the day they disagree.
NewestOnly ==
  /\ DOMAIN requests = DOMAIN calls
  /\ \A id \in DOMAIN calls :
       /\ requests[id] = calls[id].key
       /\ calls[id].key \in Open
       /\ calls[id].gen = sess[calls[id].key].gen
       /\ Cardinality(Moot(Editor, calls[id].key)) = 1

\* A session shows rows, source map and indexes exactly as they were last
\* rendered for it, whatever mixture of patches, whole documents, refusals,
\* discards, timeouts and restarts it got there by: every answer it could not use
\* cost it the right to be sent a patch.  The one exception is an answer that
\* builds on a render it gave up (see ShowsWhatWasRendered), which the daemon can
\* remember late: one it was told to drop, or one that timed out, of which it is
\* told nothing.
ShowsItsLastAnswer ==
  \A k \in Open :
    sess[k].rendered /\ ~ sess[k].astray =>
      /\ sess[k].held = sess[k].shown.rows
      /\ sess[k].index = sess[k].shown.index

\* The row under the cursor leads to the line it was laid out from: whenever the
\* map may be used to edit the source, it is the map of the text the buffer
\* holds at that moment, at the width the window has been laid out for.
TaskHitsItsLine ==
  \A k \in Open :
    SourceMapCurrent(k) /\ ~ sess[k].astray =>
      SrcMap(sess[k].held) = SrcMap(Layout(buf[sess[k].src].doc, LaidOutAt(sess[k].width)))

\* The daemon's memory of documents stays bounded, windows whose forget was
\* overtaken by their own render and windows it is never told about included.
SessionsBounded == Cardinality(DOMAIN remembered) <= MaxSessions

\* The comment in Render(): a patch is only claimed to apply when the session
\* holds the rows the daemon thinks it sent, so what is on screen after an
\* answer was accepted is what the daemon rendered.
ShowsWhatWasRendered ==
  \A k \in Open : sess[k].rendered => sess[k].held = sess[k].shown.rows

\* The help: a render is discarded if the window has been resized since it was
\* requested, and a resize costs one full document.  An answer to the newest
\* asking, about the text the buffer holds, in a window that still has the width
\* it was asked for at, is not thrown away.
DiscardedOnlyWhenResized ==
  \A i \in 1..Len(toEditor) :
    LET reply == toEditor[i]
    IN  /\ reply.type = "render_result"
        /\ reply.id \in DOMAIN calls
        /\ ~ Stale(Editor, calls[reply.id])
        => LET k == calls[reply.id].key
           IN  sess[k].width = win[k] => reply.width = win[k]

\* While a daemon lives, what it remembers of a session only ever becomes newer:
\* a render that finishes late never takes the place of one asked for later.
NeverGoesBack ==
  [][ \A k \in DOMAIN remembered \cap DOMAIN remembered' :
        remembered[k].id <= remembered'[k].id ]_vars

\* Once the user rests, every open preview ends up current: no lost race, no
\* refused patch, no crash leaves a window on an old document for ever.
PreviewSettles == <>[](\A k \in Open : SourceMapCurrent(k))

\* Every call is answered or withdrawn in the end, whichever daemon it was made
\* to: nothing waits for a process that is gone, or for the answer to a render
\* the daemon was told to drop, which it drops without a word.
NothingLeftWaiting == <>[](DOMAIN calls = {} /\ DOMAIN requests = {})
=============================================================================
