----------------------------- MODULE AnswerQueue ----------------------------
(***************************************************************************)
(* The daemon's way out: every task sends its answer into a queue, a       *)
(* thread writes the queue to stdout, and a queue that takes nothing for   *)
(* two seconds marks the daemon stalled. The loop that reads requests      *)
(* leaves when it sees the mark, or at the end of stdin; what is still     *)
(* queued is then written for as long as the daemon waits.                 *)
(***************************************************************************)
EXTENDS Integers, Sequences, SequencesExt, FiniteSets

CONSTANTS
  Requests,  \* bound: requests the editor writes; each has one answer
  Room,      \* the queue: 256 answers
  PipeRoom   \* bound: answers in the pipe to an editor that does not read

ASSUME QueueAssumption == {Requests, Room, PipeRoom} \subseteq Nat \ {0}

VARIABLES
  asked,    \* requests read from stdin
  closed,   \* whether the editor has closed stdin
  tasks,    \* requests being worked on
  sending,  \* answers waiting for room in the queue
  queue,    \* answers queued
  stdout,   \* answers written and not read
  got,      \* answers the editor has read
  lost,     \* answers that were given up
  stalled,  \* the mark
  loop      \* "looking" at the mark, "waiting" for a request, "draining", "gone"

queueVars == <<asked, closed, tasks, sending, queue, stdout, got, lost, stalled, loop>>

\* The loop looks at the mark before it waits for a request, and not after.
Look ==
  /\ loop = "looking"
  /\ loop' = IF stalled THEN "draining" ELSE "waiting"
  /\ UNCHANGED <<asked, closed, tasks, sending, queue, stdout, got, lost, stalled>>

Ask ==
  /\ loop = "waiting" /\ ~closed
  /\ asked < Requests
  /\ asked' = asked + 1
  /\ tasks' = tasks \union {asked + 1}
  /\ loop' = "looking"
  /\ UNCHANGED <<closed, sending, queue, stdout, got, lost, stalled>>

\* The editor has no more to ask.
CloseStdin ==
  /\ ~closed /\ closed' = TRUE
  /\ UNCHANGED <<asked, tasks, sending, queue, stdout, got, lost, stalled, loop>>

EndOfRequests ==
  /\ loop = "waiting" /\ closed
  /\ loop' = "draining"
  /\ UNCHANGED <<asked, closed, tasks, sending, queue, stdout, got, lost, stalled>>

\* send() begins: nothing is tried once the daemon is stalled.
Send(a) ==
  /\ a \in tasks /\ loop # "gone"
  /\ tasks' = tasks \ {a}
  /\ IF stalled THEN lost' = lost \union {a} /\ UNCHANGED sending
                ELSE sending' = sending \union {a} /\ UNCHANGED lost
  /\ UNCHANGED <<asked, closed, queue, stdout, got, stalled, loop>>

Enqueue(a) ==
  /\ a \in sending /\ loop # "gone" /\ Len(queue) < Room
  /\ sending' = sending \ {a}
  /\ queue' = Append(queue, a)
  /\ UNCHANGED <<asked, closed, tasks, stdout, got, lost, stalled, loop>>

\* A plausible slip: an answer that found no room is dropped without the mark.
GivesUpQuietly(a) ==
  /\ a \in sending /\ loop # "gone" /\ Len(queue) = Room
  /\ sending' = sending \ {a}
  /\ lost' = lost \union {a}
  /\ UNCHANGED <<asked, closed, tasks, queue, stdout, got, stalled, loop>>

\* Two seconds without room: the answer is lost, and the daemon marked.
GivesUp(a) ==
  /\ a \in sending /\ loop # "gone" /\ Len(queue) = Room
  /\ sending' = sending \ {a}
  /\ lost' = lost \union {a}
  /\ stalled' = TRUE
  /\ UNCHANGED <<asked, closed, tasks, queue, stdout, got, loop>>

\* stdout_writer()
Write ==
  /\ queue # << >> /\ loop # "gone" /\ Len(stdout) < PipeRoom
  /\ queue' = Tail(queue)
  /\ stdout' = Append(stdout, Head(queue))
  /\ UNCHANGED <<asked, closed, tasks, sending, got, lost, stalled, loop>>

EditorReads ==
  /\ stdout # << >>
  /\ stdout' = Tail(stdout)
  /\ got' = Append(got, Head(stdout))
  /\ UNCHANGED <<asked, closed, tasks, sending, queue, lost, stalled, loop>>

\* Whether the writer has written all it ever will: every sender is gone.
Drained == tasks = {} /\ sending = {} /\ queue = << >>

\* The daemon ends: the writer is done.
Exit ==
  /\ loop = "draining" /\ Drained
  /\ loop' = "gone"
  /\ UNCHANGED <<asked, closed, tasks, sending, queue, stdout, got, lost, stalled>>

\* Five seconds have gone by: what was not written is left.
ExitAnyway ==
  /\ loop = "draining" /\ ~Drained
  /\ loop' = "gone"
  /\ lost' = lost \union tasks \union sending \union Range(queue)
  /\ tasks' = {} /\ sending' = {} /\ queue' = << >>
  /\ UNCHANGED <<asked, closed, stdout, got, stalled>>

QueueInit ==
  /\ asked = 0 /\ closed = FALSE /\ tasks = {} /\ sending = {}
  /\ queue = << >> /\ stdout = << >> /\ got = << >> /\ lost = {}
  /\ stalled = FALSE /\ loop = "looking"

QueueNext ==
  \/ Look \/ Ask \/ CloseStdin \/ EndOfRequests
  \/ \E a \in 1..Requests : Send(a) \/ Enqueue(a) \/ GivesUp(a)
  \/ Write \/ EditorReads \/ Exit \/ ExitAnyway

QueueSpec == QueueInit /\ [][QueueNext]_queueVars

-----------------------------------------------------------------------------
(* Properties.                                                             *)

Answered == Range(queue) \union Range(stdout) \union Range(got)

\* No answer is lost unless the daemon says so: one that found no room has marked it
\* stalled, and one that was never written was left when the editor was not reading
\* at the end (send() and the end of serve()).  No answer is written twice.
NothingLostQuietly ==
  /\ lost # {} => stalled \/ loop = "gone"
  /\ loop = "gone" /\ lost = {} => Answered = 1..asked
  /\ IsInjective(got \o stdout \o queue)
=============================================================================
