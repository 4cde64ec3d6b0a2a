# Verification of simplemarkdown

simplemarkdown previews Markdown inside Vim and in a browser. A Rust daemon
(`src/simplemarkdown/`) parses and lays documents out; a Vim9 plugin
(`autoload/`) asks it to, over JSON lines on a pipe, and puts the answers on
screen or into a browser. This directory holds TLA+ models of the system, TLC
configurations that check them on small instances, and proofs checked by TLAPS.

Paths below are relative to the repository; `PROJECT.json` has, for every
definition that models code, the lines it models (`map`), the hazards of the
code and what covers them (`hazards`), and for every property a plausible slip
with which TLC finds it violated (`mutants`; each slip stands in the module
before the definition it alters, marked as one).

## 1. The system

| component | state it keeps | operations |
|---|---|---|
| in-Vim preview, `autoload/simplemarkdown.vim` | `sessions` (one per preview window: rows, row → source map, indexes, `rendered`, generation, debounce timer), `requests` (render id → window) | `OpenForCurrentTab`, `Schedule`, `Render`, `OnRenderReply`, `Apply`, `ApplyPatch`, `PatchSourceMap`, `Discard`, `Placeholder`, `ToggleTask`, `DropSession`, autocommand handlers |
| authoring, `autoload/simplemarkdown.vim` with `edit.rs`, `outline.rs`, `format.rs`, `lint.rs` | per buffer: outline, its changedtick, what waits for it, folds | promote and demote, renumber, format a table, lint, table of contents, folds |
| supervisor, `autoload/simplemarkdown/core.vim` | the job and its generation, `s_pending` (id → callback and timer), handshake, backoff and breaker, kill timer | `Ensure`, `Request`, `Cancel`, `Dispatch`, `ExpireRequest`, `OnExit`, `Stop`, `Restart` |
| browser preview client, `autoload/simplemarkdown/external.vim` | previews per buffer, what is being opened, staged remote pictures | `Open`, `Close`, `Push`, `OnServed`, `Stage`, `OnStaged`, `OnDaemonExit` |
| daemon, `simplemarkdown_daemon.rs` | `sessions` (rows, indexes and id last sent, per window), `cancelled`, `previews`, the queue in front of stdout | one request loop, one task per render or other job |
| web server, `serve.rs` | current page and snapshot, a broadcast of frames, a shutdown flag; a connection each | `update`, `set_opts`, `cursor`, `stop`, `events`, `block_patch`, `handle` |
| page, `assets/preview.js` | sequence number, the blocks it shows, the stream and its failures | full document, patch, line, reconnect, reload |
| renderers, `render.rs`, `inline.rs`, `table.rs`, `html.rs` | none outside one call | functions of a document |
| highlighting, `highlight.rs` | a memo of highlighted blocks | `block` |
| wire format, `protocol.rs`; `glyphs.rs`, `classes.rs`, `md.rs`; plugin entry, installers, tests | none | records, tables of constants |

How they interact. The editor is one thread: commands, autocommands, timers and
channel callbacks run one at a time and to their end, but `Render` may be run by
any of them. The daemon reads one request at a time and spawns a task per
render, so renders finish in any order, cancels overtake them or come too late,
and answers are queued in whatever order tasks get to it. For each preview
window the daemon keeps *what it last sent there* and answers with a patch
against it; the editor keeps what it is showing. Nothing makes the two equal but
the protocol: `incremental` in the request, the row count and the sum of the
source map in the answer, and the rule that every answer the editor cannot use
costs it the claim. For each browser preview the daemon keeps a server, which
pushes to its pages a splice of blocks if they are at the document before, and
the whole document otherwise; a page that a patch does not fit loads itself
again. The daemon may die at any moment and is restarted with an empty memory.

## 2. What is modelled

| module | models |
|---|---|
| `RowPatch` | `diff`, `src_correction`, `wire_size`, `patch_size` of the daemon; `ApplyPatch`, `PatchSourceMap`, `SpliceInto`, `SourceSum` of the editor |
| `PatchStream` | one window and the daemon in lock step: what the incremental reply was designed for |
| `CancelledTable`, `CancelledRequests` | the table of withdrawn renders, driven by any client at all |
| `RenderProtocol` | the in-Vim preview, the supervisor as far as renders see it, and the daemon, composed |
| `Supervisor` | `core.vim` by itself: generations, exits, calls, `Stop` and SIGKILL, `Restart`, the breaker |
| `RequestReader`, `AnswerQueue` | stdin and stdout of the daemon: bounded records; the queue of answers, the stall, the end |
| `PreviewTable` | the browser previews: `external.vim`'s table, the daemon's, and the servers between them |
| `BlockPatch`, `EventStream` | `block_patch` and its application; one server and its pages: broadcast, lag, reconnects, reloads |
| `Mirror` | abstract: what a browser preview promises. `EventStream` implements it |
| `Connection` | one connection to the server: head, routes, body, answer |
| `Staging` | the pictures of a remote document: `Stage`, `OnStaged`, `Settle`, `Unstage` |
| `Headings`, `Authoring` | headings, promotion, outline and folds as operators; a buffer that is edited and folded while answers are on their way |
| `ListNumbers`, `TableText` | `renumber`; `format.rs` and the linter's view of tables |
| `LineWrap`, `TableLayout`, `BlockWalk` | the terminal renderer: line breaker, tables, the walk over blocks |
| `HtmlWalk` | the page renderer: elements, source lines, footnotes, the index of blocks |
| `HighlightMemo` | the memo of highlighted blocks |
| `Ordering`, `Retaining` | a finite set in an order; what is left of a queue when some of it is taken out |
| `RenderProofs`, `SupervisorProofs`, `PreviewProofs`, `StreamProofs`, `PartsProofs`, `LayoutProofs`, `TableProofs` | theorems |
| `SequenceLemmas` | lemmas on numbers and sequences that several of them use |
| `MCRender`, `MCSupervisor`, `MCBrowser`, `MCSettling`, `MCParts` | instances for TLC: constants, and which modules stand side by side |

### RowPatch and PatchStream

A row is `[look, src]`: everything `Line`'s equality compares (text and
properties) is one value, and `src` is the source line, 0 for none. The loops of
`diff` that trim the common prefix and suffix are `CHOOSE`s of the index the loop
stops at. `Patched` is what the editor does, including what it leaves behind when
a splice or a correction does not fit. `PatchStream` is the conversation with
every answer given before the next question; `RenderProtocol` uses the same
operators where questions and answers overlap.

### RenderProtocol

One action is one handler of the editor with every call it makes, or one stretch
of the daemon between two lock acquisitions or awaits.

* A handler of the editor is a function from what the editor knows (`Editor`, a
  record of the editor's variables) to what it knows afterwards; `mail` collects
  what it writes. `Render`, `Withdraw`, `Resync` (`Discard` and its kin),
  `Placeholder`, `Apply`, `OnRenderReply` and `ClearPending` are such functions,
  so a handler that renders several windows, or a callback that renders from
  inside another table's clean-up, is their composition, exactly as in the code.
  `Finish` ends the action, starting a daemon first (`EnsureBackend`) if
  something is to be written and none is running.
* Iteration over a Vim dictionary has no order a reader may rely on: every order
  is allowed (`SetToSeqs`).
* A render task is `PicksUp` (first look for a cancel), `Renders` or `Panics`,
  then `Commits` (session table under its lock), then `Sends` (the answer is
  queued). The cancel is looked for at the first two and nowhere after: that is
  the code, and the source of the first finding below.
* `toDaemon` and `toEditor` are the pipes, in order and without loss while the
  process lives; `Crashes` loses everything unread by the daemon and any suffix of
  what the editor has not read, `Ensure` fences off the rest.
* A text is a member of a small set and a buffer is its text and changedtick.
  `Layout(text, width)` and `Index(text, width)` stand for the renderers:
  constants, given as tables by `MCRender`. The three indexes travel together as
  one value. `LaidOutAt` is the daemon's clamp of the width.
* An answer carries `rows` even when it is a patch: that stands for the row count
  and the sum of the map every answer carries, and only `Apply` looks, and only at
  those. `shown`, `givenUp` and `astray` of a session, and `base` of an answer,
  are history and guard nothing. `givenUp` has the renders the session withdrew
  and those whose timer ran out; `astray` says that an answer made against one of
  them was put on screen. That a timeout counts was found by the proof of
  `ShowsItsLastAnswer`, which failed without it: the render that timed out is asked
  for again in full, but its task may still be on its way, and commits after all if
  the daemon's memory of the session, which says that a newer one was answered, was
  evicted meanwhile. The next patch is then made against rows nobody was shown. It
  takes a full session table and 27 steps.

Left out of `RenderProtocol`: a protocol mismatch after the handshake, the crash
breaker (every crash is followed by a restart), `Stop`/`Restart`, buffers over the
size limit, `g:simplemarkdown_incremental = 0`, a write that fails between
`Ensure` and `Send`, renders without a session, and the daemon's stall.

### Supervisor

The variables are the script variables of `core.vim` and, beside them, every
process there has been (`proc`: running, dead and not yet reported, gone). A
function of `core.vim` is an operator from a record of all that (`Now`) to
another, so callbacks that run inside a function, and may start a daemon there,
are part of the step that runs them; `Becomes` ends an action. What is up to the
environment within one function (the start succeeds or not, the process is dead
by the time it is written to, a callback of an exit asks again) is a record
`Luck`, chosen by the action.

**When an exit is reported** decides much. `tests/vim_core.vim:267-268` says
that `job_status()` reports the old job dead before its `exit_cb` is delivered,
and the generation guard is there for that case. Vim's help says of
`job_status()` that it invokes the `exit_cb` of a job it detects to be dead, in
which case every `IsRunning()` may be an `OnExit()` first. The constant `AtOnce`
chooses; both are checked. With `AtOnce` false, a stale exit is never counted as
a crash and its calls are left to their timers. `RenderProtocol` takes the
tests at their word (`AtOnce` false).

Left out: the lengths of delays and the backoff between them (a timer goes off
at some time later), the handshake's timer (it only warns), the raw codec,
`auto_restart` off, `Stop(force)`, `ClearBreaker`, counters, logs. A daemon that
a callback starts from inside an exit is not dead before its first request is
written, and one callback of an exit at most asks again: one is enough to start
a daemon.

### RequestReader and AnswerQueue

`RequestReader` takes the stream apart as `read_request_line` does, a piece of
any size at a time, and compares with the lines of the whole stream. A byte is a
newline, a carriage return, one that is not UTF-8, or another. `AnswerQueue` has
the tasks, the bounded queue, the thread that writes it out into a pipe of finite
size, an editor that may stop reading or close its end, the mark `stalled` that a
task sets when the queue takes nothing for two seconds, and the loop that sees it
only between two requests. A broken stdout pipe and the errors the loop itself
sends are left out.

### PreviewTable

Both tables, requests in order, tasks in any order: `serve_start` renders, binds
and enters the table (which may be full, or have a preview of the same session to
be replaced); `serve_update` takes a number, renders, and shows its page if no
newer one of this epoch was shown. A text is a version that `Edit` raises. A
`serve` may be given up before its answer comes (`timeouts`) and be refused.
`given` is history: after a request was given up the two tables may differ for
good. The number of an update is taken inside its task, and tasks overtake one
another before they take theirs as after (the runtime has several threads). So an
older text may get the higher number (finding 6); an update knows that it was `late`,
and a preview that its last number went `astray`, which are history too. These two
exceptions `TablesAgree` makes, and no other.

### BlockPatch, EventStream and Mirror

A block is its markup without the source lines (`look`) and the lines in it.
`EventStream` has a server (page shown, number, options, every frame broadcast),
and tabs, each with a place in the broadcast, the frames in its socket and what
its script believes. A stream that falls more than `Capacity` behind is sent the
document as it is and goes on from the oldest frame kept, as tokio's broadcast
does. `Socket` frames can be under way to a page. A stream can break, a page can
be closed, give up, be looked at again and load itself again (not twice within
`RESYNC_QUIET_MS`), and its server can be stopped or be replaced by another on the
same port. `of` and `lagged` of a
tab are history: which server its document is from, and whether it ever fell
behind. The page's own scrolling, its assets and the size of frames are left out
(a patch is compared with the document by `Size`, the bytes of a block).

`Mirror` says in a page what this should amount to: documents are written; a
viewer sees one of those, or nothing it vouches for, and never goes back, unless
it fell behind; a viewer may begin again. `EventStream` implements it under the
mapping `M == INSTANCE Mirror WITH ...`: `written` is how every published page
should look, `at` the number a tab holds, `view` what it shows if it would take a
patch. `MirrorsTheEditor` is that refinement: checked as a
property, and proved in `StreamProofs` for documents whose patches are exact
(`PatchesAreExact`: no patch makes a page that counts itself right and is wrong), as they
are where blocks move as one (`BlocksMoveAsOne`), which finding 5 shows to be a condition.

### Connection

A peer's bytes come in pieces of any size up to `Chunk`; the peer may fall silent
or leave at any time. A request is its head's length, what the head says (parses,
host, route, where the asset is found), the declared length of the body and
whether that is a report. What may come out is defined from the request alone
(`DueAnswers`), so that the pieces are seen to make no difference, except between
`MAX_HEAD` and one chunk more, where the code accepts or refuses by where they
fall.

### Staging

One buffer with a remote document, its record of staged pictures, and transfers
that land in any order, also after the record they were started for is gone. The
transfer itself is another plugin's (`g:SimpleRemoteDownload`): it starts, or is
refused from inside the call. Paths are left out (a picture is its name), and so
is what is sent to the daemon, beyond that it is sent. `astray` of the preview is
history, see the observations in section 4.

### Headings, Authoring, ListNumbers, TableText

Line by line: a line is what the code tells apart. What the parser makes of the
lines (which are headings, tables, items of which list) is CommonMark's and
marked external in the map; the definitions say which rule they take. `Authoring`
adds the editor's guards: the buffer's changedtick when the answer comes, the
outline that is asked for once and waited for by many, superseded and withdrawn
requests, the fold cache. `ListNumbers` and `TableText` compare what an edit
leaves with what was there. `ListNumbers` has an entry for every line and one for
every marker that stands behind another on its line (`- 1. x`, `Beside`). It walks the
events of the lists as `renumber` does, with its stack of numbers; the walk is a
recursive function (`Renumbered`). What it decides is then written as `with_number`
does: over the digits its line begins with, whichever item of the line it is for, the
edit of the innermost being made last (`Written`), and a number that grows wider moves
what is behind it on its line and nothing else (`PutOn`). Of a document it assumes that
a marker behind another is in its item (`ListsAssumption`). Which lines of a draft are a table, `TableText` says by its
delimiter row, and for drafts where no row of a table's body reads as another one
(`TableDraftsAssumption`): where one does, only the parser knows that it is a row. A
list marker is text of a cell by that rule, so tables that begin on the line of one are
left out (`format.rs:99-103` would take them out of their list).

Left out: anchors, links and footnotes of the linter, and the quickfix window.

### LineWrap, TableLayout, BlockWalk, HtmlWalk

`LineWrap` is the breaker with characters of one and of two columns and one and
three bytes, styles and links as spans of bytes. `TableLayout` adds the choice of
widths and the drawing of a table out of wrapped cells; it assumes that a table has
a header and that no cell has the character the dividers are drawn with, by which
its properties find them (`GridsAssumption`). `BlockWalk` and `HtmlWalk`
are the two walks over a parser's events, chosen one by one, so that every nesting
up to a bound is walked; text itself is left out there. Several rows of one kind are a
recursive function (`EmitRows`), so that it can be reasoned about. Footnotes, captured
markup, identifiers and the rule `splittable` are modelled in `HtmlWalk`; the
shell of the page, escaping and the markup of highlighted code are not. What a
capture sets aside is kept with its container, as `capture()` keeps it in a local
variable, and the notes are put together by a recursive function (`NoteItems`), so
that it can be reasoned about. HTML of the document's own is any sequence of tags, in
blocks and in lines, closed there or not; it is assumed only to have no marks or ids
of the walk's (`HtmlIsBare`). That a piece of it in a line does not close what it opens,
and no more, is noted (`loose`, history): nothing in the walk sees to it, which is
finding 9. A page that is pushed such a document may find that it has not as many
children as there are blocks, and then takes no more patches of it (`preview.js:876`).

### HighlightMemo

Blocks are looked up under a lock, highlighted without it by whoever did not find
them, and entered under it; two renders may be at the same block. Hashes collide
when `MCParts` says so, and one of its blocks is over the budget by itself. What is
charged is a recursive function (`Charged`), so that it can be reasoned about.

## 3. What the runs check

| run | properties | question |
|---|---|---|
| `render_editing` | `TypeOK`, `ShowsItsLastAnswer`, `NeverGoesBack` | an edit, a resize, a render that panics, a timeout and a crash, from a cold start |
| `render_sources` | `TaskHitsItsLine`, `NewestOnly`, `SessionsBounded` | a window that changes buffers, with tasks toggled from the preview (does `x` always edit the line under the cursor?); two windows on a daemon that remembers one document and one withdrawn render |
| `settling` | `PreviewSettles`, `NothingLeftWaiting`, `PagesSettle` (liveness); `MirrorsTheEditor` (refinement); `NoneBehind` | either preview, once the user rests |
| `sup_exits` | `OneDaemon`, `ReadyMeansGreeted`; liveness: `StopIsFinal`, `EveryCallEnds` | exits reported late, failed writes, a stop and a restart of daemons that may ignore SIGTERM and never answer |
| `sup_looping` | `TypeOK`, `CalledBackOnce`, `RespawnsBounded` | exits reported by `IsRunning()` itself, starts that fail: does the breaker end every crash loop? |
| `parts` | see below | the modules that model a part by itself |
| `render_drift`, `render_narrow`, `sup_doubling`, `browser_lag`, `browser_shift`, `preview_overtaken` | one each | violated, see section 4 |

`parts` runs many small machines in one: `MCParts` picks a `part` in the initial
state, and only that part's actions are taken in the behaviour. Each invariant
speaks of its own module's variables, so it says of its part what it would say in
a run of its own.

| part | module | properties |
|---|---|---|
| `patch` | `PatchStream` | `PatchTypeOK`; `InSync`: the patch is right for every pair of documents |
| `memory` | `CancelledRequests` | `HalvesAgree`, `OnlyTheOldestIsEvicted` |
| `previews` | `PreviewTable` | `EveryServerIsHeld`, `TablesAgree`, `GoesBackOnlyByALateOne` |
| `reader`, `queue` | `RequestReader`, `AnswerQueue` | `RecordsAreLines`; `NothingLostQuietly` |
| `connection` | `Connection` | `AnswersWhatWasAsked` |
| `staging` | `Staging` | `RoundsEndOnce`, `OpensWithItsPictures` |
| `authoring` | `Authoring`, `Headings` | `ShiftsAsAsked`, `FoldsAreRight` |
| `list`, `table` | `ListNumbers`, `TableText` | `CountsUp`; `SquaresUp` (`SaysTheSame`, `StandsSquare`) |
| `wrap`, `grid` | `LineWrap`, `TableLayout` | `WrapsAsWritten` (`ReadsTheSame`, `FitsTheColumn`, `StylesStayOn`); `DrawsEvenly` (`StandsEven`, `NarrowKeepTheirs`) |
| `walk`, `html` | `BlockWalk`, `HtmlWalk` | `RowsKnowTheirBlocks` (`MarkedOnce`, `BarsStayInside`, `IndexesAgree`); `OneElementEach`, `PageHangsTogether` (`LinesAscend`, `NotesMeet`) |
| `paint` | `HighlightMemo` | `MemoIsSound` (`ColoursAreItsOwn`, `MemoAddsUp`) |

A property in front of a bracket is the conjunction of those in it; each of these
has a mutant of its own.

**Bounds.** What is outside the program costs from a budget, a record with an
entry per kind of event, so a behaviour has as many keystrokes, resizes, crashes,
closes and timeouts as a run gives it; ids, generations, epochs and numbers are
bounded by that. A run has several budgets (`Scenarios`, `PreviewBudgets`,
`StreamBudgets`, `AuthoringBudgets`, `StagingBudgets`, `Documented`,
`HtmlDocuments`) rather than one large one: each puts the events together that
can get into each other's way.

* `RenderProtocol`: `MaxSessions = 1` and `MaxCancelled = 1` (32 and 256 in the
  code) make eviction happen with two windows. Between some texts of `MCRender` a
  patch is worth sending and between others it is not, two differ only in their
  source lines, and two have the same row count and the same sum, so neither
  checksum can tell them apart. `Up` starts a scenario with a daemon that has
  answered its handshake before.
* `PatchStream`: three rows and two looks let a prefix, a changed run and a suffix
  be there at once; lines 0..2 let a row have none, stay and move. The theorems of
  section 5 remove these bounds. `MaxNotes = 7` is three more than it takes to
  withdraw, take, withdraw again and overflow a table of two.
* `Supervisor`: `MaxRestarts = 1` (5 in the code) opens the breaker at the second
  crash. Ages stop growing where nothing depends on them any more.
  `Window = 0, Stable = 1` makes a tick longer than both; `sup_looping`, where
  both matter, has 1 and 2, so that crashes can be too far apart to count while no
  daemon has yet been up long enough to be forgiven.
* `EventStream`: `Capacity` 1 or 2 (64 in the code) frames make a stream lag;
  pages of three blocks and a footnote block at no line let every kind of splice
  and shift happen, one block that parses to two elements the index go wrong. The
  page `uneven`, whose blocks do not all move alike, is in `browser_shift` only.
* `PreviewTable`: two buffers and room for one preview. `Connection`: limits of
  four, three and two bytes, every request length up to beyond them.
  `AnswerQueue`: a queue and a pipe of one, four requests. `RequestReader`: every
  stream of up to five bytes with a limit of one.
* `Staging`: three pictures, room for two and for less than two of them weigh.
* Documents: every document of three or four list lines out of five, of up to three
  lines with one, two and three markers, and one whose `9.` becomes `10.`; drafts with
  headings behind list markers; HTML in a line that closes what it opens and HTML that
  does not (`</p><p>`); tables with
  every last row of up to three characters; every text of up to four characters in
  one or two runs, and in words wider than any column; every walk of up to five
  events in containers up to four deep.

Deadlock is not checked: a user who rests for ever is a behaviour, and documents end.

**Fairness.** `RenderProtocol!Fairness`: weak fairness of the debounce and backoff
timers, of reading the daemon's output and its exit (Vim's event loop), of the
daemon's request loop, of its tasks together and of its queued answers together
(the tokio runtime). `EventStream!StreamFairness`: weak fairness of each
connection's task on the server, and of the browser's script and reconnection
timer. Nothing the user does is fair, and no crash, lost stream or timeout: in
particular liveness of `RenderProtocol` does not lean on the request timeout. In
`Supervisor` it must: nothing makes a daemon answer or heed SIGTERM there, and its
`FairSpec` has weak fairness of the timers (request timeouts included), of the
callbacks Vim owes and of SIGKILL only.

## 4. Findings

Of the first six a run of that name shows the trace. Of the others the definition
named states what the code or its documentation promises, beside the property that
does hold and is checked; TLC refutes it within seconds when it is given as the
invariant (`HeadingsKeepTheirText`: as the property) of `MCParts.cfg` with
`PartsChecked` reduced to its part (`html`, `authoring`, `list`, `grid`); of
`MCBrowserLagging.cfg` with `StreamBudgets <- Reusing` (`LiveIsCurrent`); or, under
`FairSpec`, as the property of `MCSupervisorExits.cfg` with `Budget <- Restarting`
(`RestartComesBack`).

1. **A cancel that loses the race (`render_drift`).** `Render` withdraws the
   render in flight but goes on claiming `incremental`. If the daemon has already
   committed that render, it takes its rows for what the window shows, and the
   next answer is a patch against rows that were never shown. `total` and
   `src_sum` catch the cases where the count or the sum differ. TLC's trace: both
   rows of a document change (this render is withdrawn too late), the first
   changes back; the patch carries the first row only, and the window goes on
   showing the second as it was before both edits. The indexes have the same
   problem, with no checksum. `ShowsItsLastAnswer` and `TaskHitsItsLine` hold for
   every session no such answer was put on (`astray`), which is how far the
   guarantee goes. (It also excepts renders that timed out, see `givenUp` in
   section 2.)
2. **A window narrower than eight columns (`render_narrow`).** The daemon lays
   out at `max(width, 8)` and says so in its answer; the editor compares that with
   the window and discards, and `Discard` asks again at once: the two exchange
   renders for as long as the window stays narrow. `PreviewSettles` is therefore
   checked for windows that are not.
3. **Two daemons (`sup_doubling`, with `AtOnce`).** `Ensure` finds the daemon
   dead, which runs its exit callback; one of the calls that fails there is a
   render whose text has changed, so it is asked for again and starts a daemon;
   then `Ensure` goes on and starts another over it. Nobody can stop the first,
   and the render that was written to it times out. `RestartTimerFires`,
   `HopFires` and `Restart` look twice and do not have the problem.
4. **An older text after a newer one (`browser_lag`).** A stream that fell behind
   is sent the document as it is, and then the older frames that were kept for it:
   the page takes each whole document it is sent and goes back to it.
   `MirrorsTheEditor` allows a viewer that fell behind to be given old documents
   again, and `PagesSettle` says that it catches up.
5. **Blocks that moved by different distances (`browser_shift`).** `block_patch`
   accepts a block whose line is as it was also after a shift from an earlier block
   on was recorded, and the page shifts it with the rest. From `# a`, blank, `b` to
   blank, `# a`, `b` the heading moves by one line and the paragraph stays on the
   third; the page marks it with the fourth, and every later splice keeps it so.
   The comment at `serve.rs:523-525` says that such a page is sent whole.
   `MirrorsTheEditor` is checked on pages whose moved blocks all move together, which
   `MCSettling` asserts (`SettlingIsExact`), and proved for all such pages.
6. **The older of two keystrokes (`preview_overtaken`).** `serve_update()` is spawned
   (`simplemarkdown_daemon.rs:730`) and takes the number of its update inside the task,
   under a lock (`1127-1138`), on a runtime of several threads. If the task of the later
   request takes its number first, the older text has the higher one: it is shown, or
   shown last, and `served` turns the newer away. The page stays at the older text until the
   next edit, which is what the comment at `226-229` says the numbers are there to
   prevent. `TablesAgree` and `GoesBackOnlyByALateOne` say that nothing else does it.
7. **A restart that does not come back (`RestartComesBack`).** `Restart` of a
   running daemon sends SIGTERM and starts the next one from a zero timer, if the
   process is gone by then. If it is not, the timer does nothing and the exit,
   being expected, schedules nothing: the daemon stays down until something asks.
   `tests/vim_outline.vim:197-200` describes the race and goes round it.
8. **A dead server's page taken for live (`LiveIsCurrent`).** A page that reconnects
   says `?have=N`, and is sent the document if N is not the present number
   (`serve.rs:763`). Numbers begin anew with every server. Where another server was bound
   to the port in the meantime, a page of the dead one with an equal number is sent
   nothing, says it is live, and shows a document that is gone; the comment at
   `serve.rs:128-131` says that a number tells. `PagesSettle` therefore speaks of the
   document for pages that have theirs from this server, and of the number for others,
   as also for a page that found itself with other children than blocks and will load
   itself again at the next patch.
9. **HTML in a line that closes what it did not open (`PushedByElements`).** `html.rs:714`
   writes it as it is, and only a raw block makes a page one that is not pushed by its
   blocks. A paragraph with `</p><p>` in it is one block to the server and two elements
   to the page, and every block after it is looked for one place too early; the comment at
   `html.rs:84-86` says that every entry is one element. `OneElementEach` is checked and
   proved for documents without it.
10. **A heading behind a list marker (`HeadingsKeepTheirText`).** `shift_headings()` writes the
    new level behind the quotes and spaces a line begins with, and a list marker is
    none of these: `- # h` becomes `##- # h` (`edit.rs:170-184`), no item and no heading.
    The comment at `edit.rs:19-20` says that a heading keeps its text. `ShiftsAsAsked`
    excepts shifts in which such a heading is meant.
11. **A list that begins behind a number (`EveryListCountsUp`).** Of `1. a`, `2. 1. x`, which
    is right already, renumbering makes `1. a`, `1. 1. x`: the inner item's number is
    written over the digits its line begins with (`edit.rs:272-283`, `296-309`). The
    comment at `edit.rs:231-235` and the manual say that every list is numbered on its own.
    `CountsUp` excepts the number that is written over, and no other.
12. **A marker that grows wider (`OnceIsEnough`).** Of `9. a`, `9. b`, `   1. c` it makes
    `9. a`, `10. b`, `   1. c`: what was nested in the second item is not far enough right
    any more, is the next item of the outer list, and a second renumbering makes it 11. The
    test at `edit.rs:462-466` asserts that there is nothing to do the second time, on a
    list where no number grows.
13. **Shares that are not in proportion (`SharedInProportion`).** `fit()` gives the columns that
    want more than an equal share equal shares of what the others leave: of six, a column
    that wants ten and one that wants five get three each. Its comment
    (`table.rs:104-107`) says "in proportion to their demand". `NarrowKeepTheirs` is
    what holds: columns that need no more than an equal share keep what they need.

Observations from modelling that no run is about, because nothing in the
repository promises otherwise or because they need no model to be seen:

* *Render daemon.* The session table's eviction takes with it the id that keeps an
  overtaken render from being remembered, so with the table full (32 windows) an
  old, withdrawn render can re-enter it. A stalled daemon handles one more request
  before it leaves.
* *Browser previews.* Opened, closed with `Close!` and opened again before the
  first answer, a preview takes the first answer for the second (`given` in
  `PreviewTable`, `astray` in `Staging`). `serve_stop` after a failed `serve`
  covers a server that is in the table and not one that is still on its way there
  (comment at `external.vim:340-344`). An edit while a preview is being opened schedules no push: the
  page shows it after the next one.
* *Remote pictures.* `Push` leaves out the pictures a record already has, those in
  flight included: a second edit while a new picture is coming is pushed at once,
  the page asks for the picture before it is there, and the push that follows its
  arrival changes no block and so does not make the page ask again (the comment at
  `external.vim:844-849` describes this for the first push only). An attempt that is
  withdrawn after its pictures came, or a page in a file, leaves its record: the
  next `Open` does not fetch again. A buffer wiped while its pictures come leaves
  `opening` behind, under a number that is not used again.
* *Patches of pages.* `block_patch()` notes where a block's first line went and not
  where the lines in it did (`serve.rs:528-549`): of a list that looks the same with a
  blank line more between two of its items, the page keeps the old lines of the items
  below. A page
  that was loaded with its document inside takes a patch without having counted
  its children (`preview.js:861-862`). `preview.js:855-857` counts on whole documents
  sent periodically; `serve.rs:246-251` says why there are none.
* *Edits.* `1. 1. x` gets two edits of one line, and the client makes the last of them
  count. Formatting a table that begins on the line of a list marker takes it out of its
  list, the marker being put into its first cell (`format.rs:99-103`).
* *Rendering.* Of empty items no marker is shown. A container whose first child is a
  container, a heading or a rule begins with a blank row behind its bar, though
  `render.rs:14-16` says otherwise. An empty quote leaves a blank row at the end.
  Columns of width one become three wide when the room is short. Loose lists in tight ones get
  no blank rows. The space inside a link has no link.
* *Pages.* Footnotes are numbered by first appearance, definitions that come first
  included. Headings `A`, `A`, `A-1` share an anchor; the linter lowercases anchors,
  and the heading anchors of the terminal's renderer include addresses of links.
* *Highlighting.* When two blocks share a hash and the second is heavier, replacing
  the first in the oldest place ends the eviction with the budget exceeded
  (`MemoAddsUp` allows that and nothing else).
* *Server.* A head between `MAX_HEAD` and a chunk more is taken or refused by how
  its pieces fall.

## 5. What is proved

See the module headers for the argument in each proof.

* `RenderProofs!StreamTypeOK`, `RenderProofs!StreamInSync`: for all
  looks, costs and documents, `PatchStream` keeps `PatchTypeOK` and `InSync`. The only
  assumptions are the modules' own: a row costs at least one byte, documents are
  sequences of rows. `InSync` is inductive with `PatchTypeOK`; the work is `RoundTrip`
  (a patch worth sending fits, and applying it gives the new document), which
  rests on `DiffSplice` (replacing what lies between common prefix and suffix
  gives the new looks) and `CorrectionSpec` (the correction turns any map into any
  other of the same length). `CommonHead` and `CommonTail` exist by the
  least-number principle (`NatLeast`), and `WireSizeSpec` is proved by a minimal
  counterexample, the library's induction theorems being out of the provers'
  reach. That a patch against an empty buffer is never sent, the one case
  `ApplyPatch` refuses, comes from the size rule: this is why rows must cost
  something.
* `RenderProofs!RenderTypeOK`, `!RenderNewestOnly`, `!RenderSessionsBounded`,
  `!RenderNeverGoesBack`: `RenderProtocol` keeps `TypeOK`, `NewestOnly`,
  `SessionsBounded` and `NeverGoesBack` with any number of windows, buffers,
  texts and events. Assumed: finitely many windows (`KeysAssumption`), room for
  at least one session (`SessionsAssumption`), a renderer that returns rows and a
  nonzero index (`LayoutAssumption`), rows that cost something
  (`CostAssumption`); nothing of the budget, of which documents fail, or of the
  order in which a dictionary is gone through.

  `NewestOnly` is not inductive: `ClearPending` empties the supervisor's table and
  then runs callbacks, each of which renders, which withdraws and enters into both
  tables, while the renders whose callbacks are still to come are in the plugin's
  table only. The invariant `Inv` is therefore built from `Sound(editor, rest)`,
  where `rest` are those renders: the editor is well typed, every call is waited
  for by an open session at its present generation, no session waits for two, and
  what is in the plugin's table and not in the supervisor's is in `rest`. Each
  handler is proved to turn a sound editor into a sound one (`RenderSpec`,
  `ApplySpec`, `OnRenderReplySpec`, `ClearPendingSpec`, ...), the actions follow by
  one lemma each (`InvOpenPreview`, ..., collected in `InvNext`). `Inv` further
  says that requests, tasks and answers only carry ids that were handed out
  (`OnTheWay`: without it a stray id could be handed out a second time and be
  answered twice) and that the daemon remembers at most `MaxSessions` windows
  (`Memory`). `NeverGoesBack` follows from `Inv` and the guard `Overtaken`.

* `RenderProofs!RenderShowsItsLastAnswer`, `!RenderTaskHitsItsLine`: what is
  on screen is the last answer, and a task toggled from the preview is toggled on
  the line under the cursor, under the same assumptions. `Inv` says nothing of the
  daemon's memory, so `Screen` strengthens it: a render is in one place at a time, a
  pipe, a task, or an answer that is queued or being read (`OnePlace`); what the
  daemon remembers of a session is what the session shows, or the render it is
  waiting for, or one it gave up (`InStep`); every answer under way was made
  against such a memory, and if against what the session shows, fits it (`Fits`,
  by `RoundTrip`); and the map of a session whose map is current
  is that of its buffer (`MapIsRight`). A handler of the editor sees, and leaves,
  such a world, except for the one session whose callback is running (`out`),
  whose answer has been read and not yet been put on screen.
* `SupervisorProofs!SupervisorTypeOK`, `!SupervisorReadyMeansGreeted`,
  `!SupervisorCallsBackOnce`, `!SupervisorHasOneDaemon`: for any breaker and
  budget, and the first three whichever way exits are reported. Each function of
  `core.vim` turns a state that is `Sound` (typed; ready only if greeted; every call
  handed out is in the table or was settled, once; every process but the present
  one is being stopped or over) into one that is `Sound` and `Later`. At most one
  process runs because a process is started only by who has just seen that
  `s_job`'s does not run (`NoneRuns`). With `AtOnce` that look can start one itself,
  which is finding 3, so `OneDaemon` is proved for `~AtOnce`.
* `SupervisorProofs!SupervisorRespawnsBounded`: the breaker ends every loop of
  crashes. The count itself is not inductive: a crash leaves the window while its
  starts are still in it, unless starts and crashes are counted by age. `Counted`
  says so: of no age are there more starts than two for each crash of that age and
  one for the process that runs (`Owes`), what is in the window when the breaker opens
  is within the bound, and a daemon up for `stable_ms` has no start counted against it
  (`Held`). An exit owes nothing after it: the crash it notes pays for the process that
  ran and for the one a callback started (`OnExitHeld`, `NoteCrashHeld`). Assumed are
  `AtOnce`, because a late exit that finds another process in place is not counted
  as a crash, and that `stable_ms` is not 0, with which every start clears the
  record. The attempt to prove it showed that the bound was not one on larger
  instances: a daemon told to stop whose exit is reported from a request's own look
  lets a callback start a process, and the request another, and neither crash is
  counted, for stopping was wanted. Stopping is the user's doing, so the count
  now begins afresh when such a daemon is gone (`ByHand` in `OnExit`).
* `PreviewProofs!PreviewServersAreHeld`: no port is held by nobody and what the
  table has does run, for any buffers and any room. A server is known to one place
  at a time, the task that bound it or the table (`Known`).
  `PreviewProofs!PreviewGoesBackOnlyLate`: in whatever order tasks begin, take their
  numbers and end, a page goes back to an older text only by an update that was late for
  its number. One that was not has the newest text that was given a number, with the
  greatest number there is, and what is shown never has a lower number than what was
  (`Ordered`: `NewestKept`, `NumbersRise`, `NumbersAgree`). `PreviewProofs!PreviewTablesAgree`:
  with nothing on its way the two tables are the same and every page is as was last
  sent, but for the text of one whose last number went to an older text. While something is, each buffer's opening is in one place (`OneCall`,
  `Serving`, `Starting`, `Answering`), a request to serve is behind the stop of what
  was there (`ServeIsLast`), and of what the editor holds, or is about to, the text
  and the options last sent are the last of their kind in the pipe, or with the
  newest update, or on the page (`Shown`), and nothing anywhere is newer (`Sent`).
  Assumed: finitely many buffers and room for one preview (`PreviewAssumption`).
* `PreviewProofs!StagingRoundsEndOnce`, `!StagingOpensWithPictures`: for any pictures,
  weights and limits, a round of transfers ends once and the page is asked for when it
  has. The invariant (`StagingInv`): of a record that is there, the transfers under way
  are of different pictures, they are the ones it has as pending, and they are as many as
  it counts (`CountsItsOwn`); transfers of records that are gone have numbers of their own;
  what is kept or on its way (`TakenUp`) is within the number of pictures, and what is kept
  within the weight (`WithinLimits`); exactly one waiter will ask for the page if the
  attempt waits for its pictures, and none if not (`AwaitedOnce`); and what was asked for
  is asked for once (`OneServe`). `FetchedGrows` is the loop of `Stage()`, `CalledSteps`
  that of `Settle()`, `LandsOne` an answer: three lemmas that say all the actions need of
  them. That pictures weigh the same in whatever order they are put on the scales
  (`TotalOfAny`) is proved from the smallest set that would not. Assumed
  (`StagingAssumption`): a text names pictures, a picture's weight and the limits are
  numbers.
* `StreamProofs!StreamNoneBehind`: no update falls between the document a stream
  opens with and the first frame it is given, and a page that has taken all there is
  is at the number of the document as it is, for any tabs, sizes of the broadcast and of sockets,
  and any order of updates, drops, reconnections, restarts of the server and goodbyes.
  Of a page that still shows an earlier server's document that says no more than the
  number (finding 8); of the others `StreamIsAMirror` says the rest.
  The invariant (`StreamInv`) says of every stream, and not only of an empty one, that with
  nothing more to be said of documents what is on it ends in the present one, or the page
  is at it (`Behind`); a stream that fell behind is sent the document first, which makes
  `Behind` true again. `StreamProofs!StreamIsAMirror`: every step of `EventStream` is one of
  `Mirror` or none. A stream that never fell behind has page, frames on their way and
  frames to come in the order of publishing (`Ahead`), and a page that would take a patch
  shows what its number stands for (`Shown`): a patch is taken only by a page at the
  document it was made from. Assumed is `PatchesAreExact`, a fact of the documents and not
  of the protocol; without it a page may show what nobody published (finding 5), but
  `StreamInv`, and with it everything said of numbers, holds all the same.
  `StreamProofs!StreamMirrorsWhatMovesAsOne` replaces the assumption by what has to be so
  of the lines of two pages (`BlocksMoveAsOne`): from the first block that moved on, every
  one that stays has moved or is of no line; blocks that look the same have their lines as
  far apart; and the markup of a block is one element at least. A page then has as many
  children as the document has blocks only if each block of the old page and of the new
  is one (`ChildrenCount`, by walking along `FlattenSeq`), so head, new blocks and tail
  stand where they should (`PatchIsExact`), and the one shift is right for all that stay
  (`ShiftsToNew`). Titles and rails
  must not look like the mark for "as before" (`StreamAssumption`; the code leaves the
  field out).
* `PartsProofs!CancelledHalvesAgree`, `!CancelledOldestGoes`: the set and the queue
  of withdrawn renders agree and only the oldest is dropped, whatever a client
  sends: the queue is in the order of withdrawal (`OldestFirst`).
  `PartsProofs!QueueLosesNothingQuietly`: what a task answered is in one place
  (`EachInOnePlace`) or its loss is said. `PartsProofs!ConnectionAnswersWhatWasAsked`:
  a connection ends with an answer its request deserves, however its bytes fall into
  pieces, under the module's assumption that a request has a head and a chunk a byte.
  `PartsProofs!ReaderRecordsAreLines`: however the bytes of a stream fall into pieces,
  what `read_request_line()` returns are its lines, the overlong said to be so, and it
  keeps no more than a byte over the limit.
* `PartsProofs!FoldsFollowTheText`: at rest every line is folded as the headings above
  it say. That is a protocol and an algorithm. Of the protocol (`AuthoringInv`): an outline
  kept for this tick is this text's and the folds are built of it; one that is due has a
  timer or has been asked for, and one that was asked for is on its way, here or given
  up; what is on its way back under this tick was made of this text. It
  rests on edits leaving a text: the replacements of a promotion that fits are disjoint
  and in order, so that made from the last to the first each finds its lines where the
  daemon saw them. Of the algorithm: sections written over each other, the deepest
  last, give each line the level of its nearest heading (`LastSectionFolds`,
  `FoldsOfOutline`). The headings themselves are any that a text of those lines can have.
  Assumed: what is typed is made of lines (`DraftsAreTexts`) and there is an empty one
  (`SayingsAssumption`).
* `PartsProofs!MemoStaysSound`: the memo answers for the block it was asked about and
  keeps count of itself, for any renders, documents and budget, though a block may be
  entered by two renders at once and over another of its hash. By `PaintInv`: the order
  of arrival has each entry once and an entry has the hash it is under (`Holds`), and
  what is charged is what the entries in that order weigh. So the subtraction of a
  replaced or evicted entry never saturates. That a block replaced or moved leaves the
  rest of the sum alone is `SumsAgree`, by the least-number principle. Assumed: weights
  and the budget are numbers (`PaintAssumption`).
* `PartsProofs!RowsAlwaysKnowTheirBlocks`: every row has the markers and bars of the
  containers it is in and is counted once in the indexes, for every document and however
  deep it is. The invariant (`WalkHolds`) says what the property does of the containers
  that are closed and of those that are open (`Tidy`), and for these why it stays so: an
  open frame's rows go on to the last (`Running`), its marker is spent exactly if one of
  them says something, what was written since a container was entered bears the frames
  around it (`Enclosed`), and where a paragraph may come the innermost container has
  none of the rows above (`NothingAbove`). Each helper of the renderer (`flush_gap`,
  `emit`, `push_frame`, `pop`) has a lemma saying what page it makes of a page, and
  an action is a composition of them. Nothing is assumed.
* `LayoutProofs!PageAlwaysHangsTogether`, `!BlocksAreElements`: whatever the document and
  however deep, the source lines marked in the page ascend, references and notes lead to
  one another, no id is there twice, and a page that is pushed by its blocks has one
  element for each and no other, unless a piece of HTML in a line does not close what it
  opens or closes more (`loose`, finding 9). The actions are put into a few kinds first: a step
  writes a text where it is (`LeafOf`), opens a container (`EnterOf`) or sets the text
  aside for one (`ApartOf`), closes it (`CloseOf`), and so on; the invariant (`HtmlInv`)
  is shown of each kind. It is about every text there is while the walk goes on: the one
  being written, those the containers hold, and those of the notes. The marks of each
  ascend and are of lines before the container's (`LinesInv`); no id is in two of them or twice
  in one, and they are the ids of the references counted so far (`IdsOnce`, `IdsKept`),
  which needs that a label is noted once and defined once (`NotesLabelled`); and each is
  as deep as the containers between it and the text it goes back into (`Placed`), so that what
  was indexed of the page are elements that follow one another (`Tiled`). That depth is
  kept only while nothing loose was written; what is said of lines and ids does not depend
  on it. Assumed of the document's own HTML is that no mark and no id of it is one of the
  walk's (`HtmlIsBare`).
* `PartsProofs!ListsAlwaysCountUp`: a renumbering leaves every list that the range touches
  counting up by one from the number it declares, on its own, and all else as it was,
  whatever the document, however its lists are nested and behind whichever marker they
  begin; excepted is a number with an ordered list beginning behind it on its line
  (finding 11). Two lists have no line in
  common, or one of them is in an item of the other (`ListsNested`), which follows from
  what it is to be in an item, being a question of columns, and from lists not being
  joined across another's item. So in the order of the events (`EventsInOrder`; two
  lists that end on one line close from the inside out) a list that closes is the one that
  opened last (`CloseStep`), and an item is met when its own list is the innermost
  (`OpenAtItem`). The invariant of the walk (`WalkIs`) says which lists the stack is of,
  that each frame has the number of its list's first item and one more for each item
  behind the walk, and that it is wanted when its list or one around it overlaps the
  range. What the walk decides is what each item is due; that it is what is written, where
  a line has more markers than one, is `WrittenIs`, and `BesideIsDue` that an item which is
  behind another's marker and begins its list there has the number it declares. Assumed is
  `ListsAssumption`.
* `LayoutProofs!GridsAreAlwaysEven`: the rows of every table are equally wide, with their
  dividers in the same columns and within the room there is if each column can have
  three, and a column that needs no more than an equal share of the room keeps what it
  needs, whatever the cells are and however wide. The invariant (`Laying`, in `GridInv`) follows the table from its
  start: a column has what it would like until the widths are settled, those that
  are settled have no more than an equal share of what is left, and the share does
  not shrink as more are settled (`Sharing`, `SharesGrow`); once all are, what is drawn
  is as wide as the columns and three more for each (`AllEven`, `RowOfCells`). That needs
  every line of a cell to fit its column, which rests on the whole of the breaker: every
  row that `wrap()` makes fits where each character does (`WrapFits`), a word that
  does not fit being split where it must. A column may be narrower than a character only
  if none of its cells has it (`CellWraps`): it has what its cells need, or three.
  `LayoutProofs!RowsAlwaysFit`: nor is any row of a paragraph wider than its column, if
  that has room for a wide character. Assumed are `GridsAssumption` and
  `ParagraphsAssumption`, which is that a paragraph is made of runs.
* `TableProofs!TablesAlwaysSquareUp`: the table under the cursor, formatted, says what it
  said and stands square, whatever the document, its cells and the quotes and indents it
  stands in; tables that begin on the line of a list marker are left out. The
  invariant (`TextInv`) is plain: the document is what it was, or that with the one table
  under the cursor formatted. The work is in reading it back. A text in which no
  pipe stands but after an escape is `Quiet`; the walk of `split_cells()` goes over it and
  divides nothing (`QuietWalks`), and what it does divide off is trimmed and quiet (`Tidy`,
  `SplitsIntoCells`). So along the rows that `format()` joins, one cell more each
  (`Chain`), what is divided off is what the cells were padded from (`ChainReads`,
  `RowSays`), an escape at the end of a cell being spent on the space behind it. The
  pipes are level because `pad()` and `dashes()` fill the columns of the screen they were
  given (`PadsTo`, `DashesRule`, `PipesAgree`). The lines are then still one table, and
  the only one there (`StillATable`), which needs that the delimiter row is read back with
  its alignments (`DelimiterSays`) and no row of the body becomes one
  (`NoneBecomesOne`); and of cells that were read back the same rows are drawn
  (`FormattedAgain`). Assumed is `TableDraftsAssumption`.
* `RenderProofs`, `SequenceLemmas`: what `diff`, `src_correction`, `Dropping`
  (retain) and a splice return, for all inputs.

Only model-checked:

* Liveness: `PreviewSettles`, `NothingLeftWaiting`, `PagesSettle`, `StopIsFinal`,
  `EveryCallEnds`. Temporal fairness and `ENABLED` are out of the provers' reach.
* `ShiftsAsAsked`: that the edits of a promotion are the ones asked for, read back by
  the parser's rules from the text they leave.
* `WrapsAsWritten`, but for what `RowsAlwaysFit` says of columns of two and more: that
  no text is lost or moved by the breaking, and where a row may begin and end.

Induction over data with an operator as a parameter is not something the installed
provers can do. Where a theorem needs what a recursion returns, the definition is a
recursive function, whose values `RecursionExists` of `SequenceLemmas` gives and the
least-number principle reasons about; where it needs what a fold of the library returns,
as with tables, the fold is unfolded and walked along, anew for each operator it is used
with (`ColumnsWalk`, `FinishWalk`, `PutAllWalk`, `WalkOverWalk`, `JoinedWalk`, ...).
`ShiftsAsAsked` and the rest of `WrapsAsWritten` are not proved so far.

## 6. Not modelled

* The parser (pulldown-cmark), the lexer of `highlight.rs` (syntect) and the
  transfers of remote pictures are other people's code: what they deliver is
  enumerated or chosen.
* `protocol.rs` is serde records; the models carry the fields that decide
  something. `glyphs.rs`, `classes.rs` and `md.rs` are tables of constants.
* Capabilities, statistics, the panic hook, the health report, the raw codec.
* The editor's highlighting of rows, statuslines, links that are followed, search,
  and the commands that only open or report something.
* Of the page: scrolling, math, diagrams, themes. Of the server: MIME types, the
  port search, the text of answers.
* The plugin's entry, installers and tests.
* Two hazards are covered in part. `Request()` that fails runs a callback which
  removes what its caller then removes again (`simplemarkdown.vim:1247`):
  `RenderProtocol` takes a handler of the editor as one step in which the daemon
  does not die. And `RenderProtocol` takes exits as reported late (`AtOnce` false);
  exits reported at once are `Supervisor`'s alone.

## 7. What is left of the plan

Every part of the plan is modelled, and every safety property of a passing run is proved
but `ShiftsAsAsked` and the rest of `WrapsAsWritten`. What could be added, by walking
along the folds as is done for tables, or with the folds rewritten as recursive
functions as `Dropping` in `Retaining`, `Called` in `Staging`, `Charged` in
`HighlightMemo`, `BuildFolds` in `Headings` and `Renumbered` in `ListNumbers` are:
`ShiftsAsAsked`, heading by heading; and the rest of `WrapsAsWritten`, run by run.
