----------------------------- MODULE Authoring ------------------------------
(***************************************************************************)
(* One source buffer whose headings are edited and folded while it is      *)
(* typed in: :SimpleMarkdownPromote, ...Demote and ...Toc, the outline     *)
(* behind the folds, and the daemon's tasks that answer them, each on the  *)
(* text it was sent and in any order.                                      *)
(***************************************************************************)
EXTENDS Headings

CONSTANTS
  Drafts,           \* the texts that are typed
  AuthoringBudgets  \* bounds: how often each thing the user or the clock does may happen,
                    \* and whether folding is on

ASSUME DraftsAreTexts == Drafts \subseteq Seq(Line)

VARIABLES
  lines,      \* the text of the buffer
  tick,       \* its changedtick
  made,       \* the last answer to an edit the user was told of
  pending,    \* requests with an answer outstanding
  working,    \* the daemon's tasks
  withdrawn,  \* the daemon's table of withdrawn requests
  replies,    \* answers on their way to the editor
  nextId,     \* the id of the next request
  outline,    \* ..._outline and ..._outline_tick
  wait,       \* ..._outline_wait
  due,        \* ..._outline_due
  timer,      \* ..._outline_timer
  current,    \* ..._outline_id
  folds,      \* ..._folds; its length is ..._folds_lines
  editGiven,  \* the ticks for which an outline was given up
  budget      \* how often things may still happen

textVars    == <<lines, tick, made>>
outlineVars == <<outline, wait, due, timer, current, folds>>
callVars    == <<pending, working, withdrawn, replies, nextId, editGiven>>
authoringVars == <<textVars, outlineVars, callVars, budget>>

SpendsRequest(what) ==
  /\ budget[what] > 0
  /\ budget' = [budget EXCEPT ![what] = @ - 1]

AsksDaemon(call, dropped) ==
  /\ pending' = {c \in pending : c.id # dropped} \union {call}
  /\ working' = working \union {[id |-> nextId, call |-> call, lines |-> lines, begun |-> FALSE]}
  /\ withdrawn' = IF dropped = 0 THEN withdrawn ELSE withdrawn \union {dropped}
  /\ nextId' = nextId + 1
  /\ UNCHANGED <<replies, editGiven>>

-----------------------------------------------------------------------------
(* The editor.                                                             *)

Type ==
  /\ SpendsRequest("edits")
  /\ lines' \in Drafts \ {lines}
  /\ tick' = tick + 1
  /\ UNCHANGED <<made, outlineVars, callVars>>

\* SendEdit()
SendEdit(delta, from, to) ==
  /\ SpendsRequest("shifts")
  /\ AsksDaemon([id |-> nextId, kind |-> "edit", tick |-> tick,
               delta |-> delta, from |-> from, to |-> to], 0)
  /\ UNCHANGED <<textVars, outlineVars>>

\* Whether the buffer still has the text a request was about.
SameText(call) == tick = call.tick

\* OnEditReply()
OnEditReply(call, result) ==
  LET told(what) == [id |-> call.id, what |-> what, delta |-> call.delta,
                     from |-> call.from, to |-> call.to]
  IN  IF result.refused THEN made' = told("refused") /\ UNCHANGED <<lines, tick>>
      ELSE IF ~SameText(call) THEN made' = told("stale") /\ UNCHANGED <<lines, tick>>
      ELSE IF result.edits = {} THEN made' = told("nothing") /\ UNCHANGED <<lines, tick>>
      ELSE /\ made' = told("made")
           /\ lines' = Made(lines, result.edits)
           /\ tick' = tick + 1

\* RequestOutline(): one in the background takes the place of the last one.
RequestOutline(background) ==
  LET dropped == IF background THEN current ELSE 0
  IN  /\ AsksDaemon([id |-> nextId, kind |-> "outline", tick |-> tick], dropped)
      /\ wait' = tick
      /\ current' = IF background THEN nextId ELSE current

\* SourceToc()
Toc ==
  /\ SpendsRequest("tocs")
  /\ RequestOutline(FALSE)
  /\ UNCHANGED <<textVars, outline, due, timer, folds>>

\* With folding on, foldexpr is evaluated after a change: EnsureOutline() arms the timer, once a tick.
EnsureOutline ==
  /\ budget.folding = 1
  /\ tick \notin {outline.tick, wait, due}
  /\ due' = tick
  /\ timer' = TRUE
  /\ UNCHANGED <<textVars, outline, wait, current, folds, callVars, budget>>

TimerFires ==
  /\ timer
  /\ timer' = FALSE
  /\ RequestOutline(TRUE)
  /\ UNCHANGED <<textVars, outline, due, folds, budget>>

\* A plausible slip: the answers are taken in the order they come.
SupersededNever(call) == FALSE

Superseded(call) == call.tick < outline.tick

\* CacheOutline(): folds are built anew when the headings or the line count moved.
CacheOutline(call, entries) ==
  IF Superseded(call) THEN UNCHANGED <<outline, folds>>
  ELSE /\ outline' = [entries |-> entries, tick |-> call.tick]
       /\ folds' = IF Len(folds) = Len(lines) /\ outline.entries = entries
                   THEN folds ELSE BuildFolds(entries, Len(lines))

Released(call) == IF current = call.id THEN 0 ELSE current

\* An answer: the call it is for, if there is one still, is made.
Reply(a) ==
  /\ replies' = replies \ {a}
  /\ pending' = {c \in pending : c.id # a.id}
  /\ IF \E c \in pending : c.id = a.id
     THEN LET call == CHOOSE c \in pending : c.id = a.id
          IN  IF call.kind = "edit"
              THEN OnEditReply(call, a.result) /\ UNCHANGED outlineVars
              ELSE /\ current' = Released(call)
                   /\ CacheOutline(call, a.result)
                   /\ UNCHANGED <<textVars, wait, due, timer>>
     ELSE UNCHANGED <<textVars, outlineVars>>
  /\ UNCHANGED <<working, withdrawn, nextId, editGiven, budget>>

\* ExpireRequest(): the user is told of an edit that came to nothing, and nothing
\* asks for an outline again until the next edit.
Expire(call) ==
  /\ SpendsRequest("timeouts")
  /\ pending' = pending \ {call}
  /\ current' = Released(call)
  /\ editGiven' = IF call.kind = "outline" THEN editGiven \union {call.tick} ELSE editGiven
  /\ UNCHANGED <<textVars, outline, wait, due, timer, folds, working, withdrawn, replies, nextId>>

-----------------------------------------------------------------------------
(* The daemon.                                                             *)

Dropped(w) ==
  /\ working' = working \ {w}
  /\ withdrawn' = withdrawn \ {w.id}
  /\ UNCHANGED replies

\* walk_outline() looks for its id before the walk and after it; an edit does not.
Begin(w) ==
  /\ ~w.begun
  /\ IF w.call.kind = "outline" /\ w.id \in withdrawn THEN Dropped(w)
     ELSE /\ working' = (working \ {w}) \union {[w EXCEPT !.begun = TRUE]}
          /\ UNCHANGED <<withdrawn, replies>>
  /\ UNCHANGED <<textVars, outlineVars, pending, nextId, editGiven, budget>>

Result(w) ==
  IF w.call.kind = "outline" THEN Outline(w.lines)
  ELSE ShiftHeadings(w.lines, w.call.from, w.call.to, w.call.delta)

Finish(w) ==
  /\ w.begun
  /\ IF w.call.kind = "outline" /\ w.id \in withdrawn THEN Dropped(w)
     ELSE /\ working' = working \ {w}
          /\ replies' = replies \union {[id |-> w.id, result |-> Result(w)]}
          /\ UNCHANGED withdrawn
  /\ UNCHANGED <<textVars, outlineVars, pending, nextId, editGiven, budget>>

-----------------------------------------------------------------------------
AuthoringInit ==
  /\ lines \in Drafts
  /\ tick = 1 /\ made = [id |-> 0, what |-> "none"]
  /\ pending = {} /\ working = {} /\ withdrawn = {} /\ replies = {} /\ nextId = 1
  /\ outline = [entries |-> << >>, tick |-> 0]
  /\ wait = 0 /\ due = 0 /\ timer = FALSE /\ current = 0
  /\ folds = << >> /\ editGiven = {}
  /\ budget \in AuthoringBudgets

AuthoringNext ==
  \/ Type
  \/ \E delta \in {-1, 1}, from, to \in DOMAIN lines : from <= to /\ SendEdit(delta, from, to)
  \/ Toc
  \/ EnsureOutline
  \/ TimerFires
  \/ \E a \in replies : Reply(a)
  \/ \E call \in pending : Expire(call)
  \/ \E w \in working : Begin(w) \/ Finish(w)

AuthoringSpec == AuthoringInit /\ [][AuthoringNext]_authoringVars

-----------------------------------------------------------------------------
(* Properties.                                                             *)

ShiftMade == made' # made /\ made'.what = "made"

\* The document is what was asked for: the headings that were meant one level up or down,
\* and every other line, the text of every heading and their order as they were.
AsAsked == Content(lines') = ContentShifted(lines, made'.from, made'.to, made'.delta)

\* A heading that was meant has a list marker before it, where its level is to be written.
MarkerInTheWay ==
  \E h \in HeadingsOf(lines) :
    /\ Means(lines, made'.from, made'.to, h) /\ lines[h.src].bullet
    /\ ~Setext(h) \/ h.level + made'.delta > 2

\* "Nothing here reflows or rewrites content: a heading keeps its text", as the comment at
\* the head of edit.rs has it of every heading.
HeadingsKeepTheirText == [][ShiftMade => AsAsked]_authoringVars

\* A shift the user is told was made left the document it was asked for, though headings
\* change their height and the text was open to typing since, unless a heading that was
\* meant stands behind a list marker.  One that found nothing to do had no heading to move
\* (shift_headings(), selected(), OnEditReply()).
ShiftsAsAsked ==
  [][made' # made =>
       /\ ShiftMade => AsAsked \/ MarkerInTheWay
       /\ made'.what = "nothing" =>
            \A h \in HeadingsOf(lines) : ~Means(lines, made'.from, made'.to, h)
       /\ made'.what # "made" => lines' = lines]_authoringVars

\* The user and the daemon are at rest, and no outline of this text was given up.
Quiet ==
  /\ budget.folding = 1 /\ ~timer /\ pending = {} /\ tick \in {outline.tick, wait, due}
  /\ tick \notin editGiven

\* At rest every line is folded as the headings above it say, in whatever order the
\* outlines of earlier texts came, were superseded or withdrawn (RequestOutline(),
\* CacheOutline(), EnsureOutline(), walk_outline()).
FoldsAreRight ==
  Quiet => folds = [i \in DOMAIN lines |-> FoldMeant(lines, i)]
=============================================================================
