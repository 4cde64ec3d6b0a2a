---------------------------- MODULE PreviewTable ----------------------------
(***************************************************************************)
(* The browser previews of one editor: the table of external.vim, the      *)
(* table of the daemon, and the servers between the two.                   *)
(*                                                                         *)
(* A `serve` is answered by a task that renders, binds a port and puts a   *)
(* server in the daemon's table; a `serve_update` by one that takes a      *)
(* number from the preview, renders, and shows its page if it is still the *)
(* newest. The other requests are handled where they are read. Requests    *)
(* reach the daemon in order, answers the editor in any; and the tasks run *)
(* in any order, before they take their numbers as well as after.          *)
(***************************************************************************)
EXTENDS Integers, Sequences, FiniteSets, FiniteSetsExt

CONSTANTS
  Bufs,           \* the buffers previewed
  MaxPreviews,    \* MAX_PREVIEWS
  PreviewBudgets  \* bounds: how often each thing outside may happen

ASSUME PreviewAssumption ==
  MaxPreviews \in Nat \ {0} /\ IsFiniteSet(Bufs)

VARIABLES
  text,     \* the text of each buffer, as a version
  page,     \* the page options, as a version
  exists,   \* the buffers that exist
  opening,  \* asked for and not answered: "wanted", or "withdrawn" since
  held,     \* the editor's table: for a buffer, its preview or None
  serial,   \* the id of the next request
  calls,    \* requests waiting for an answer
  pipe,     \* requests on their way to the daemon
  answers,  \* answers on their way to the editor
  starts,   \* serve_start() tasks
  updates,  \* serve_update() tasks; `late` when a newer text has a number already (history)
  table,    \* the daemon's table: for a session, its preview or None; of that the newest text
            \* it was given, and whether the last number went `astray`, to an older (history)
  servers,  \* every server there has been: what it shows, and whether it runs
  last,     \* the text and the options last sent for each buffer
  given,    \* whether a request was ever given up before its answer came
  allowed   \* how often each thing outside may still happen

editorVars == <<text, page, exists, opening, held, serial, calls, last, given>>
daemonVars == <<starts, updates, table, servers>>
tableVars  == <<editorVars, pipe, answers, daemonVars, allowed>>

None == [server |-> 0]
Ids(records) == {r.id : r \in records}
Fresh(records) == 1 + Max({0} \union Ids(records))

Allows(what) ==
  /\ allowed[what] > 0
  /\ allowed' = [allowed EXCEPT ![what] = @ - 1]

Halted(which) ==
  [s \in DOMAIN servers |-> [servers[s] EXCEPT !.running = @ /\ s \notin which]]

-----------------------------------------------------------------------------
(* The editor: external.vim.                                               *)

StopOf(b) == [type |-> "serve_stop", buf |-> b]

\* Open(), and Serve() of a document on this machine.
Open(b) ==
  /\ b \in exists /\ held[b] = None /\ opening[b] = "no"
  /\ Allows("opens")
  /\ opening' = [opening EXCEPT ![b] = "wanted"]
  /\ serial' = serial + 1
  /\ calls' = calls \union {[id |-> serial, buf |-> b]}
  /\ pipe' = Append(pipe, [type |-> "serve", buf |-> b, id |-> serial, text |-> text[b],
                           page |-> page])
  /\ last' = [last EXCEPT ![b] = [text |-> text[b], page |-> page]]
  /\ UNCHANGED <<given, text, page, exists, held, answers, daemonVars>>

\* Discard(): what is held is dropped, its timer with it, and the daemon told.
Discards(b) ==
  /\ held' = [held EXCEPT ![b] = None]
  /\ pipe' = IF held[b] = None THEN pipe ELSE Append(pipe, StopOf(b))

\* Close() of one preview, or of one that is being opened.
Close(b) ==
  /\ b \in exists /\ Allows("closes")
  /\ IF held[b] # None
     THEN Discards(b) /\ UNCHANGED opening
     ELSE /\ opening[b] = "wanted"
          /\ opening' = [opening EXCEPT ![b] = "withdrawn"]
          /\ UNCHANGED <<held, pipe>>
  /\ UNCHANGED <<given, serial, text, page, exists, calls, last, answers, daemonVars>>

\* StopAll(): Close(true), and the end of the session.
CloseAll ==
  /\ Allows("closealls")
  /\ given' = (given \/ calls # {})
  /\ held' = [b \in Bufs |-> None]
  /\ opening' = [b \in Bufs |-> "no"]
  /\ pipe' = Append(pipe, [type |-> "serve_stop_all"])
  /\ UNCHANGED <<serial, text, page, exists, calls, last, answers, daemonVars>>

\* OnBufferWipeout()
Wipe(b) ==
  /\ b \in exists /\ Allows("wipes")
  /\ exists' = exists \ {b}
  /\ Discards(b)
  /\ UNCHANGED <<given, serial, text, page, opening, calls, last, answers, daemonVars>>

\* OnTextChanged(): a push is scheduled, for a preview there is.
Edit(b) ==
  /\ b \in exists /\ Allows("edits")
  /\ text' = [text EXCEPT ![b] = @ + 1]
  /\ held' = IF held[b] = None THEN held ELSE [held EXCEPT ![b].timer = TRUE]
  /\ UNCHANGED <<given, serial, page, exists, opening, calls, last, pipe, answers, daemonVars>>

\* Push() and Update(), when the timer fires.
Push(b) ==
  /\ held[b] # None /\ held[b].timer
  /\ held' = [held EXCEPT ![b].timer = FALSE]
  /\ pipe' = Append(pipe, [type |-> "serve_update", buf |-> b, text |-> text[b]])
  /\ last' = [last EXCEPT ![b].text = text[b]]
  /\ UNCHANGED <<given, serial, text, page, exists, opening, calls, answers, daemonVars, allowed>>

\* OnOptionsChanged(): every preview that was made with others is told.
Told == {b \in Bufs : held[b] # None /\ held[b].page # page'}

SetOption ==
  /\ Allows("options")
  /\ page' = page + 1
  /\ held' = [b \in Bufs |-> IF b \in Told THEN [held[b] EXCEPT !.page = page'] ELSE held[b]]
  /\ last' = [b \in Bufs |-> IF b \in Told THEN [last[b] EXCEPT !.page = page'] ELSE last[b]]
  /\ \E order \in [1..Cardinality(Told) -> Told] :
       /\ {order[i] : i \in DOMAIN order} = Told
       /\ pipe' = pipe \o [i \in DOMAIN order |->
                             [type |-> "serve_opts", buf |-> order[i], page |-> page']]
  /\ UNCHANGED <<given, serial, text, exists, opening, calls, answers, daemonVars>>

\* OnServed() of a request that failed or was given up: the daemon may be about to
\* start what was asked for all the same, and is told to stop it.
Unserved(b) ==
  /\ opening' = [opening EXCEPT ![b] = "no"]
  /\ pipe' = Append(pipe, StopOf(b))
  /\ UNCHANGED <<held, last>>

\* OnServed() of a server that is running.  The preview is taken to have been made
\* with the options as they are by now.
Served(b, server) ==
  IF opening[b] = "wanted" /\ b \in exists
  THEN /\ opening' = [opening EXCEPT ![b] = "no"]
       /\ held' = [held EXCEPT ![b] = [server |-> server, page |-> page, timer |-> FALSE]]
       /\ UNCHANGED <<pipe, last>>
  ELSE Unserved(b)

Answer(a) ==
  /\ answers' = answers \ {a}
  /\ IF \E c \in calls : c.id = a.id
     THEN /\ calls' = {c \in calls : c.id # a.id}
          /\ IF a.server = 0 THEN Unserved(a.buf) ELSE Served(a.buf, a.server)
     ELSE UNCHANGED <<calls, opening, held, pipe, last>>
  /\ UNCHANGED <<given, serial, text, page, exists, daemonVars, allowed>>

\* OPEN_TIMEOUT_MS have gone by.
TimesOut(c) ==
  /\ Allows("timeouts")
  /\ calls' = calls \ {c}
  /\ Unserved(c.buf)
  /\ given' = TRUE
  /\ UNCHANGED <<serial, text, page, exists, answers, daemonVars>>

\* The daemon goes: what was waiting fails, what was held is forgotten.
DaemonExits ==
  /\ Allows("exits")
  /\ calls' = {} /\ answers' = {} /\ pipe' = << >>
  /\ starts' = {} /\ updates' = {}
  /\ table' = [b \in Bufs |-> None]
  /\ servers' = Halted(DOMAIN servers)
  /\ held' = [b \in Bufs |-> None]
  /\ opening' = [b \in Bufs |-> IF \E c \in calls : c.buf = b THEN "no" ELSE opening[b]]
  /\ UNCHANGED <<given, serial, text, page, exists, last>>

-----------------------------------------------------------------------------
(* The daemon: the request loop, serve_start() and serve_update().         *)

\* What reading a request does, by its kind.
Reads(r) ==
  CASE r.type = "serve" ->
         /\ starts' = starts \union {[id |-> r.id, buf |-> r.buf, text |-> r.text,
                                      page |-> r.page, server |-> 0]}
         /\ UNCHANGED <<updates, table, servers>>
    [] r.type = "serve_update" ->
         /\ updates' = updates \union {[id |-> Fresh(updates), buf |-> r.buf, text |-> r.text,
                                        epoch |-> 0, seq |-> 0, late |-> FALSE]}
         /\ UNCHANGED <<starts, table, servers>>
    [] r.type = "serve_opts" ->
         /\ servers' = IF table[r.buf] = None THEN servers
                       ELSE [servers EXCEPT ![table[r.buf].server].page = r.page]
         /\ UNCHANGED <<starts, updates, table>>
    [] r.type = "serve_stop" ->
         /\ table' = [table EXCEPT ![r.buf] = None]
         /\ servers' = Halted({table[r.buf].server})
         /\ UNCHANGED <<starts, updates>>
    [] r.type = "serve_stop_all" ->
         /\ table' = [b \in Bufs |-> None]
         /\ servers' = Halted({table[b].server : b \in Bufs})
         /\ UNCHANGED <<starts, updates>>

Read ==
  /\ pipe # << >>
  /\ pipe' = Tail(pipe)
  /\ Reads(Head(pipe))
  /\ UNCHANGED <<editorVars, answers, allowed>>

\* Rendered, and a port bound: a server runs that nothing but this task knows.
Bind(task) ==
  /\ task.server = 0
  /\ servers' = Append(servers, [text |-> task.text, page |-> task.page, running |-> TRUE])
  /\ starts' = (starts \ {task}) \union {[task EXCEPT !.server = Len(servers) + 1]}
  /\ UNCHANGED <<editorVars, pipe, answers, updates, table, allowed>>

\* No port is free.
BindFails(task) ==
  /\ task.server = 0
  /\ Allows("refusals")
  /\ starts' = starts \ {task}
  /\ answers' = answers \union {[id |-> task.id, buf |-> task.buf, server |-> 0]}
  /\ UNCHANGED <<editorVars, pipe, updates, table, servers>>

Full(b) == table[b] = None /\ Cardinality({c \in Bufs : table[c] # None}) >= MaxPreviews

\* A plausible slip: a server the table has no room for is only dropped.
LoserDropped(task) == IF Full(task.buf) THEN 0 ELSE table[task.buf].server

\* Whose server stops when a task comes to the table: its own when the table is
\* full, or the one it displaces.
Loser(task) == IF Full(task.buf) THEN task.server ELSE table[task.buf].server

\* Under the table's lock, and the answer.
Insert(task) ==
  /\ task.server # 0
  /\ starts' = starts \ {task}
  /\ servers' = Halted({Loser(task)})
  /\ table' = IF Full(task.buf) THEN table
              ELSE [table EXCEPT ![task.buf] =
                      [server |-> task.server, epoch |-> task.server, issued |-> 0, served |-> 0,
                       newest |-> task.text, astray |-> FALSE]]
  /\ answers' = answers \union {[id |-> task.id, buf |-> task.buf,
                                 server |-> IF Full(task.buf) THEN 0 ELSE task.server]}
  /\ UNCHANGED <<editorVars, pipe, updates, allowed>>

\* Whether an update comes to the table after a newer one did.
Overtaken(u) == u.text < table[u.buf].newest

\* The preview that hands out a number, and the update that has it.
Issuing(u) ==
  [table[u.buf] EXCEPT !.issued = @ + 1, !.astray = Overtaken(u),
                       !.newest = IF Overtaken(u) THEN @ ELSE u.text]

WithNumber(u) ==
  [u EXCEPT !.epoch = table[u.buf].epoch, !.seq = table[u.buf].issued + 1,
            !.late = Overtaken(u)]

\* serve_update() begins, whenever the runtime has its task run: it takes a number,
\* if there is a preview to take it from.
Number(u) ==
  /\ u.epoch = 0
  /\ IF table[u.buf] = None
     THEN updates' = updates \ {u} /\ UNCHANGED table
     ELSE /\ table' = [table EXCEPT ![u.buf] = Issuing(u)]
          /\ updates' = (updates \ {u}) \union {WithNumber(u)}
  /\ UNCHANGED <<editorVars, pipe, answers, starts, servers, allowed>>

\* A plausible slip: a preview is known by its session alone.
NewestOfSession(u) == table[u.buf] # None /\ table[u.buf].served < u.seq

\* A plausible slip: renders are taken to end in the order they began.
NewestByEpoch(u) == table[u.buf] # None /\ table[u.buf].epoch = u.epoch

\* Whether what an update rendered is still to be shown.
Newest(u) ==
  /\ table[u.buf] # None
  /\ table[u.buf].epoch = u.epoch
  /\ table[u.buf].served < u.seq

\* Rendered.
Show(u) ==
  /\ u.epoch # 0
  /\ updates' = updates \ {u}
  /\ IF Newest(u)
     THEN /\ table' = [table EXCEPT ![u.buf].served = u.seq]
          /\ servers' = [servers EXCEPT ![table[u.buf].server].text = u.text]
     ELSE UNCHANGED <<table, servers>>
  /\ UNCHANGED <<editorVars, pipe, answers, starts, allowed>>

-----------------------------------------------------------------------------
TableInit ==
  /\ text = [b \in Bufs |-> 1] /\ page = 1
  /\ exists = Bufs
  /\ opening = [b \in Bufs |-> "no"]
  /\ held = [b \in Bufs |-> None]
  /\ last = [b \in Bufs |-> [text |-> 0, page |-> 0]]
  /\ serial = 1 /\ given = FALSE /\ calls = {} /\ pipe = << >> /\ answers = {}
  /\ starts = {} /\ updates = {}
  /\ table = [b \in Bufs |-> None]
  /\ servers = << >>
  /\ allowed \in PreviewBudgets

TableNext ==
  \/ \E b \in Bufs : Open(b) \/ Close(b) \/ Wipe(b) \/ Edit(b) \/ Push(b)
  \/ CloseAll
  \/ SetOption
  \/ \E a \in answers : Answer(a)
  \/ \E c \in calls : TimesOut(c)
  \/ DaemonExits
  \/ Read
  \/ \E task \in starts : Bind(task) \/ BindFails(task) \/ Insert(task)
  \/ \E u \in updates : Number(u) \/ Show(u)

TableSpec == TableInit /\ [][TableNext]_tableVars

-----------------------------------------------------------------------------
(* Properties.                                                             *)

Running == {s \in DOMAIN servers : servers[s].running}
InTable == {table[b].server : b \in {b \in Bufs : table[b] # None}}

\* A server runs only while the daemon's table has it or the task that started it
\* is on its way there: no port is held by nobody, in whatever order two starts of
\* one session, a full table and a stop meet (serve_start(), and ServeStop in the
\* daemon's loop).  And what the table has does run.
EveryServerIsHeld ==
  /\ Running \subseteq InTable \union {task.server : task \in starts}
  /\ InTable \subseteq Running

\* Nothing is on its way.
AtRest ==
  /\ calls = {} /\ pipe = << >> /\ answers = {} /\ starts = {} /\ updates = {}
  /\ \A b \in Bufs : held[b] # None => ~held[b].timer

\* With nothing on its way, the two tables have the same previews, and every one of
\* them has the options that were last sent for it and shows the text that was, whatever
\* was closed, wiped out, refused or typed on the way, and whichever render ended first:
\* unless a request was given up before its answer came, and but for the text of a
\* preview of which the last number was taken by a text that is not the newest
\* (OnServed(), Close(), Discard() and Push() of external.vim; serve_start() and
\* serve_update() of the daemon).
TablesAgree ==
  AtRest /\ ~given => \A b \in Bufs :
    /\ held[b].server = table[b].server
    /\ held[b] # None =>
         LET s == servers[held[b].server]
         IN  /\ s.running /\ s.page = last[b].page
             /\ s.text = last[b].text \/ table[b].astray

\* What the daemon says of `issued` and `served`: of two keystrokes it is not the older
\* that a page is left with, as renders can overtake one another (struct Preview).  The
\* number that is to tell is taken in the task, and tasks too overtake one another.
LeftWithTheNewest ==
  AtRest /\ ~given => \A b \in Bufs :
    held[b] # None => servers[held[b].server].text = last[b].text

\* A page goes back to an older text only by an update that took its number when a
\* newer text had one: not when two renders of it end out of order, and not when one
\* of an earlier preview ends under a later one (issued, served and epoch in
\* serve_update()).
GoesBackOnlyByALateOne ==
  [][\A s \in DOMAIN servers :
       servers'[s].text < servers[s].text =>
         \E u \in updates \ updates' : u.late /\ table[u.buf].server = s]_tableVars
=============================================================================
