----------------------------- MODULE Connection -----------------------------
(***************************************************************************)
(* One connection to a preview's server: read_head(), the routes of        *)
(* handle(), read_body() and the answer. What a peer sends is a head and   *)
(* what follows it, as numbers of bytes and what they say; it comes in     *)
(* pieces of any size up to a chunk, and the peer may fall silent or leave *)
(* at any time.                                                            *)
(***************************************************************************)
EXTENDS Integers, Sequences, FiniteSetsExt

CONSTANTS
  MaxHead,  \* MAX_HEAD
  Chunk,    \* the bytes read at a time
  MaxBody,  \* MAX_BODY
  Backlog,  \* CURSOR_QUEUE
  Peers     \* what peers may send

ASSUME ConnectionAssumption == {MaxHead, Chunk, MaxBody, Backlog} \subseteq Nat \ {0}

\* Only text can parse, and only what parses names a host; a file asked for is looked
\* for in the directories in their order.
ASSUME PeersAssumption ==
  \A p \in Peers :
    /\ p.head \in Nat /\ p.rest \in Nat /\ p.length \in Nat
    /\ p.host => p.parses
    /\ p.parses => p.text
    /\ p.route \in {"page", "events", "asset", "other", "cursor"}
    /\ p.roots \in Seq({"inside", "large", "outside", "absent"})

VARIABLES
  peer,     \* what this peer sends
  sent,     \* bytes of it that have been read
  phase,    \* "head", "body", "answer", "stream" or "closed"
  answer,   \* the status decided on, "" for none
  written,  \* whether any of the answer, and all of it, has been written
  waiting   \* scroll positions queued for the editor

connectionVars == <<peer, sent, phase, answer, written, waiting>>

Coming == peer.head + peer.rest

Decides(status) ==
  /\ answer' = status
  /\ phase' = "answer"

Leaves ==
  /\ phase' = "closed"
  /\ UNCHANGED answer

\* asset(): the first directory the file is really in, if it is not too large.
Readable(where) == where \in {"inside", "large"}
AssetStatus(roots) ==
  LET in == {i \in DOMAIN roots : Readable(roots[i])}
  IN  IF in # {} /\ roots[Min(in)] = "inside" THEN "200" ELSE "404"

\* What handle() does with a head.
Route ==
  CASE ~peer.text                       -> Leaves
    [] peer.text /\ ~peer.parses        -> Decides("400")
    [] peer.parses /\ ~peer.host        -> Decides("400")
    [] peer.host /\ peer.route = "page"   -> Decides("200")
    [] peer.host /\ peer.route = "events" -> phase' = "stream" /\ answer' = "200"
    [] peer.host /\ peer.route = "asset"  -> Decides(AssetStatus(peer.roots))
    [] peer.host /\ peer.route = "other"  -> Decides("405")
    [] peer.host /\ peer.route = "cursor" ->
         IF ~peer.syncBack THEN Decides("404")
         ELSE IF peer.length > MaxBody THEN Decides("413")
         ELSE phase' = "body" /\ UNCHANGED answer

\* A plausible slip: the size is judged before the end of the head is looked for.
JudgedEarly ==
  IF sent > MaxHead THEN Decides("431")
  ELSE sent >= peer.head /\ Route

\* read_head() looks for the end of the head in what it has; when there is none, it
\* has had enough once that is more than a head may be.
Judged ==
  IF sent >= peer.head THEN Route
  ELSE sent > MaxHead /\ Decides("431")

Pieces(most) == {n \in 1..most : sent + n <= Coming}

HeadDone == sent >= peer.head \/ sent > MaxHead

ReadHead ==
  /\ phase = "head" /\ ~HeadDone
  /\ \E n \in Pieces(Chunk) : sent' = sent + n
  /\ UNCHANGED <<peer, phase, answer, written, waiting>>

TakeHead ==
  /\ phase = "head" /\ HeadDone
  /\ Judged
  /\ UNCHANGED <<peer, sent, written, waiting>>

BodyDone == sent - peer.head >= peer.length

\* The body is what was declared of it; anything after that is left.
ReadBody ==
  /\ phase = "body" /\ ~BodyDone
  /\ \E n \in Pieces(4 * Chunk) : sent' = sent + n
  /\ UNCHANGED <<peer, phase, answer, written, waiting>>

\* Whether the bytes taken for the body are a report: all of one and nothing else.
IsReport(bytes) == peer.report /\ bytes = peer.length

\* The position is dropped, and the page told the same, when the editor is behind.
TakeBody ==
  /\ phase = "body" /\ BodyDone
  /\ LET bytes == Min({sent - peer.head, peer.length}) IN
       IF ~IsReport(bytes)
       THEN Decides("400") /\ UNCHANGED waiting
       ELSE /\ Decides("204")
            /\ waiting' = IF waiting < Backlog THEN waiting + 1 ELSE waiting
  /\ UNCHANGED <<peer, sent, written>>

\* The peer leaves or says nothing for HEAD_TIMEOUT.
Silence ==
  /\ \/ phase = "head" /\ ~HeadDone
     \/ phase = "body" /\ ~BodyDone
  /\ Leaves
  /\ UNCHANGED <<peer, sent, written, waiting>>

\* write_bounded(): some bytes, then the rest, or nothing for WRITE_STALL.
WriteSome ==
  /\ phase = "answer" /\ written = "nothing"
  /\ written' = "some"
  /\ UNCHANGED <<peer, sent, phase, answer, waiting>>

WriteAll ==
  /\ phase = "answer" /\ written = "some"
  /\ written' = "all"
  /\ phase' = "closed"
  /\ UNCHANGED <<peer, sent, answer, waiting>>

WriteStalls ==
  /\ phase \in {"answer", "stream"}
  /\ phase' = "closed"
  /\ UNCHANGED <<peer, sent, answer, written, waiting>>

\* The editor takes a scroll position.
EditorTakes ==
  /\ waiting > 0 /\ waiting' = waiting - 1
  /\ UNCHANGED <<peer, sent, phase, answer, written>>

ConnectionInit ==
  /\ peer \in Peers
  /\ sent = 0 /\ phase = "head" /\ answer = "" /\ written = "nothing"
  /\ waiting \in {0, Backlog}

ConnectionNext ==
  \/ ReadHead \/ TakeHead \/ ReadBody \/ TakeBody \/ Silence
  \/ WriteSome \/ WriteAll \/ WriteStalls \/ EditorTakes

ConnectionSpec == ConnectionInit /\ [][ConnectionNext]_connectionVars

-----------------------------------------------------------------------------
(* Properties.                                                             *)

\* The answers that what a peer sends may get, however it comes: a head of up to
\* MAX_HEAD is always read, one that a chunk cannot take beyond that never, and one
\* in between depends on where its pieces fall.
RouteAnswer ==
  IF ~peer.parses \/ ~peer.host THEN "400"
  ELSE CASE peer.route \in {"page", "events"} -> "200"
         [] peer.route = "asset"  -> IF \E i \in DOMAIN peer.roots :
                                         /\ peer.roots[i] = "inside"
                                         /\ \A j \in 1..(i - 1) : ~Readable(peer.roots[j])
                                     THEN "200" ELSE "404"
         [] peer.route = "other"  -> "405"
         [] peer.route = "cursor" -> IF ~peer.syncBack THEN "404"
                                     ELSE IF peer.length > MaxBody THEN "413"
                                     ELSE IF peer.report THEN "204" ELSE "400"

DueAnswers ==
  (IF peer.head > MaxHead + 1 THEN {"431"} ELSE {})
  \union (IF peer.head <= MaxHead + Chunk /\ peer.text THEN {RouteAnswer} ELSE {})

\* What a connection is answered depends on what was sent and never on the pieces it
\* came in; a report is believed only when all of it, and nothing after it, was
\* taken; and what is held of a head is never more than a chunk over the limit
\* (read_head(), handle(), cursor(), read_body()).
AnswersWhatWasAsked ==
  /\ answer # "" => answer \in DueAnswers
  /\ answer = "204" => sent >= peer.head + peer.length
  /\ phase = "head" => sent <= MaxHead + Chunk
=============================================================================
