----------------------------- MODULE Supervisor -----------------------------
(***************************************************************************)
(* The daemon's supervisor, autoload/simplemarkdown/core.vim: starting the *)
(* process, its exit, restarts and their breaker, stopping with            *)
(* escalation, and the table of calls waiting for an answer.               *)
(*                                                                         *)
(* When does the editor learn that a process is gone? tests/vim_core.vim   *)
(* expects job_status() to say so first and the exit callback to come      *)
(* later, when another process may have taken its place. Vim's own help    *)
(* says that job_status() runs the callback itself when it finds the       *)
(* process dead, so that IsRunning() may do all that OnExit() does before  *)
(* it answers. Both are modelled: AtOnce says which.                       *)
(*                                                                         *)
(* How long a timer waits is left out: it goes off some time later.  Time  *)
(* passes in the ages of what the breaker counts, up to where they matter. *)
(***************************************************************************)
EXTENDS Naturals, Sequences, FiniteSets, Retaining

CONSTANTS
  AtOnce,       \* job_status() runs the exit callback of a process it finds dead
  MaxRestarts,  \* crashes within the window before the breaker opens (max_restarts)
  Window,       \* the window (restart_window_ms)
  Stable,       \* an uptime that clears the record (stable_ms)
  Budget        \* bound: how often each thing outside the supervisor happens

ASSUME BreakerAssumption ==
  {MaxRestarts, Window, Stable} \subseteq Nat /\ AtOnce \in BOOLEAN

VARIABLES
  generation,    \* starts attempted (s_generation)
  job,           \* the generation s_job is of, 0 for null_job
  stopping,      \* s_stopping
  ready,         \* s_ready
  handshake,     \* s_handshake_id
  nextId,        \* s_next_id
  pending,       \* s_pending: id -> whether its timer is running
  crashes,       \* s_crash_times, as ages
  tripped,       \* s_tripped
  restartTimer,  \* s_restart_timer is running
  killTimer,     \* the generation s_kill_timer is for, 0 if it is not running
  hops,          \* the zero timers of Restart() that have not gone off
  proc,          \* every process: "run", "dead" while its exit is unreported, "gone"
  uptime,        \* how long the last one has been up
  termed,        \* processes sent SIGTERM
  killed,        \* processes sent SIGKILL
  wire,          \* requests written to a process and not answered
  out,           \* answers on their way back
  history,       \* for the properties only, see Unwritten
  left           \* what is left of the budget

processes == <<proc, uptime, termed, killed, wire>>
table == <<nextId, pending>>
policy == <<crashes, tripped, restartTimer, killTimer, hops>>
vars == <<generation, job, stopping, ready, handshake, table, policy, processes, out,
          history, left>>

\* Nothing is spent.
Free == [w \in DOMAIN Budget |-> 0]

\* Calls made; calls answered or withdrawn; calls that heard again after that;
\* whose handshake was answered last; ages of the starts since the user last did
\* anything, a daemon that was told to stop was gone or one proved stable; the
\* generation Restart() promised.
Unwritten == [asked |-> {}, settled |-> {}, echoes |-> {}, greetedBy |-> 0,
              starts |-> << >>, wanted |-> 0]

With(f, x, y) == [z \in DOMAIN f \cup {x} |-> IF z = x THEN y ELSE f[z]]

Without(f, xs) == [x \in DOMAIN f \ xs |-> f[x]]

-----------------------------------------------------------------------------
(* A function of core.vim is a function on what the editor and the         *)
(* processes are; a callback it runs is part of it.                        *)

Now == [generation |-> generation, job |-> job, stopping |-> stopping, ready |-> ready,
        handshake |-> handshake, nextId |-> nextId, pending |-> pending,
        crashes |-> crashes, tripped |-> tripped, restartTimer |-> restartTimer,
        killTimer |-> killTimer, proc |-> proc, uptime |-> uptime, termed |-> termed,
        wire |-> wire, history |-> history]

Becomes(s) ==
  \E t \in {s} :  \* one value, of which every variable takes its part
    /\ generation' = t.generation
    /\ job' = t.job
    /\ stopping' = t.stopping
    /\ ready' = t.ready
    /\ handshake' = t.handshake
    /\ nextId' = t.nextId
    /\ pending' = t.pending
    /\ crashes' = t.crashes
    /\ tripped' = t.tripped
    /\ restartTimer' = t.restartTimer
    /\ killTimer' = t.killTimer
    /\ proc' = t.proc
    /\ uptime' = t.uptime
    /\ termed' = t.termed
    /\ wire' = t.wire
    /\ history' = t.history

\* `IsRunning`: job_status(), whatever the exit callback has or has not said.
IsRunning(s) == s.job # 0 /\ s.proc[s.job] = "run"

\* What the environment decides on the way: whether a daemon can be started
\* ("fails": job_start() returns a job that is not running), whether it is dead
\* again by the time something is written to it, and whether a callback that an
\* exit runs asks again, with a start that succeeds or not.
Starts == {"runs", "fails", "missing"}
Luck == [start : Starts, dies : BOOLEAN, again : BOOLEAN, restart : Starts]

\* A look at a process that is dead reports its exit, or it does not.
Looking == {luck \in Luck : luck.again => AtOnce}

Fine == [start |-> "runs", dies |-> FALSE, again |-> FALSE, restart |-> "runs"]

\* A plausible slip: the handle of the process before is kept.
FailingKeepingJob(s) ==
  [s EXCEPT !.generation = s.generation + 1, !.proc = Append(s.proc, "gone")]

Failing(s) ==
  [s EXCEPT !.generation = s.generation + 1, !.job = 0, !.proc = Append(s.proc, "gone")]

\* A plausible slip: `ready` is left to the exit callback.
StartingStillReady(s) ==
  LET gen == s.generation + 1
      id  == s.nextId + 1
  IN  [s EXCEPT !.generation = gen, !.job = gen, !.stopping = FALSE,
                !.proc = Append(s.proc, "run"), !.uptime = 0,
                !.nextId = id, !.handshake = id,
                !.wire = s.wire \cup {[gen |-> gen, id |-> id]},
                !.history.starts = Append(s.history.starts, 0)]

Starting(s) ==
  LET gen == s.generation + 1
      id  == s.nextId + 1
  IN  [s EXCEPT !.generation = gen, !.job = gen, !.stopping = FALSE, !.ready = FALSE,
                !.proc = Append(s.proc, "run"), !.uptime = 0,
                !.nextId = id, !.handshake = id,
                !.wire = s.wire \cup {[gen |-> gen, id |-> id]},
                !.history.starts = Append(s.history.starts, 0)]

\* `Ensure` once nothing is known to be running, `SendHandshake` included.  (What
\* IsRunning() did on the way may have started another: it is not asked again.)
StartIfAllowed(s, start) ==
  IF s.tripped \/ start = "missing" THEN s
  ELSE IF start = "fails" THEN Failing(s)
  ELSE Starting(s)

\* Callbacks run: of calls that were waiting, one hopes.
Tell(s, ids) ==
  [s EXCEPT !.history.settled = @ \cup ids,
            !.history.echoes = @ \cup (ids \cap s.history.settled)]

\* A plausible slip: an answer is expected, so no timer is started.
WrittenForEver(s, id) ==
  [s EXCEPT !.pending = With(s.pending, id, FALSE),
            !.wire = s.wire \cup {[gen |-> s.job, id |-> id]}]

\* A request goes out, with a timer for its answer.
Written(s, id) ==
  [s EXCEPT !.pending = With(s.pending, id, TRUE),
            !.wire = s.wire \cup {[gen |-> s.job, id |-> id]}]

\* `NextId`, and a call to be accounted for.
Numbered(s) == [s EXCEPT !.nextId = s.nextId + 1, !.history.asked = @ \cup {s.nextId + 1}]

\* What a dead process had not answered it never will.
Dead(s, gen) ==
  [s EXCEPT !.proc[gen] = "dead", !.wire = {w \in s.wire : w.gen # gen}]

\* Something the user has a hand in starts the count of starts afresh.
ByHand(s) == [s EXCEPT !.history.starts = << >>]

ResetBackoff(s) == [s EXCEPT !.crashes = << >>, !.tripped = FALSE]

\* What is within the window still counts.
Recent(ages) == Dropping(ages, Nat \ 0..Window)

\* A plausible slip: the breaker closes again as it opens.
NoteCrashAndForget(s) ==
  LET recent == Append(Recent(s.crashes), 0)
  IN  IF Len(recent) <= MaxRestarts
      THEN [s EXCEPT !.crashes = recent, !.restartTimer = TRUE]
      ELSE ResetBackoff(s)

\* `NoteCrash` and what follows from it: a restart, or the breaker.
NoteCrash(s) ==
  LET recent == Append(Recent(s.crashes), 0)
  IN  IF Len(recent) <= MaxRestarts
      THEN [s EXCEPT !.crashes = recent, !.restartTimer = TRUE]
      ELSE [s EXCEPT !.crashes = recent, !.tripped = TRUE]

\* One of the callbacks an exit runs asks again, if there is one and it does:
\* there is nothing to be running.  (A daemon started here is not dead before it
\* is written to.)
AskFromExit(s, luck) ==
  LET e == StartIfAllowed(s, luck.restart)
  IN  IF ~ luck.again THEN s
      ELSE IF e.job = 0 THEN e
      ELSE Written(Numbered(e), e.nextId + 1)

\* A plausible slip: the table is emptied when the callbacks are through.
ClearPendingAfterwards(s, luck) ==
  LET told == Tell(s, DOMAIN s.pending)
  IN  [(IF s.pending = << >> THEN told ELSE AskFromExit(told, luck))
         EXCEPT !.pending = << >>]

\* `ClearPending`: the table is emptied, then all the callbacks run.
ClearPending(s, luck) ==
  LET told == Tell([s EXCEPT !.pending = << >>], DOMAIN s.pending)
  IN  IF s.pending = << >> THEN told ELSE AskFromExit(told, luck)

\* `OnExit` of the process that s_job stands for.
OnExit(s, luck) ==
  LET over == [s EXCEPT !.job = 0, !.ready = FALSE, !.handshake = 0, !.stopping = FALSE,
                        !.killTimer = 0, !.proc[s.job] = "gone"]
      told == ClearPending(over, luck)
  IN  IF s.stopping THEN ResetBackoff(ByHand(told))
      ELSE NoteCrash(IF s.uptime >= Stable THEN ResetBackoff(told) ELSE told)

\* What else IsRunning() does.
Look(s, luck) ==
  IF AtOnce /\ s.job # 0 /\ s.proc[s.job] = "dead" THEN OnExit(s, luck) ELSE s

\* `Ensure`.
Ensure(s, luck) ==
  IF IsRunning(s) THEN s ELSE StartIfAllowed(Look(s, luck), luck.start)

\* What it says.
Ensures(s, luck) ==
  IsRunning(s) \/ (~ Look(s, luck).tripped /\ luck.start = "runs")

\* "if !IsRunning() then Ensure()", which looks twice.
EnsureUnlessRunning(s, luck) == Ensure(Look(s, luck), luck)

\* `Request`.  A write that fails answers at once, after what the look at the
\* process may have answered already.
Request(s, luck) ==
  LET id    == s.nextId + 1
      entry == [Numbered(s) EXCEPT !.pending = With(s.pending, id, TRUE)]
      after == Look(Dead(entry, s.job), luck)
  IN  IF ~ luck.dies THEN Written(Numbered(s), id)
      ELSE IF id \in DOMAIN after.pending
      THEN Tell([after EXCEPT !.pending = Without(after.pending, {id})], {id})
      ELSE after

\* The plugin asks: EnsureBackend() and, if that says yes, Request().
Ask(s, luck) ==
  IF Ensures(s, luck) THEN Request(Ensure(s, luck), luck) ELSE Ensure(s, luck)

\* `ResolvePending`: the entry goes, its timer with it, and then the callback
\* runs, which may ask again.
ResolvePending(s, id, asks, luck) ==
  LET told == Tell([s EXCEPT !.pending = Without(s.pending, {id})], {id})
  IN  IF asks THEN Ask(told, luck) ELSE told

\* A plausible slip: a kill timer that is running will do.
StopKeepingTimer(s) ==
  LET quiet == [s EXCEPT !.restartTimer = FALSE]
  IN  IF s.job = 0 THEN ClearPending(quiet, Fine)
      ELSE [quiet EXCEPT !.stopping = TRUE, !.termed = s.termed \cup {s.job},
                         !.killTimer = IF s.killTimer = 0 THEN s.generation ELSE s.killTimer]

\* `Stop`: SIGTERM now, SIGKILL if that is not enough.
Stop(s) ==
  LET quiet == [s EXCEPT !.restartTimer = FALSE]
  IN  IF s.job = 0 THEN ClearPending(quiet, Fine)
      ELSE [quiet EXCEPT !.stopping = TRUE, !.termed = s.termed \cup {s.job},
                         !.killTimer = s.generation]

-----------------------------------------------------------------------------
(* What the user does.                                                     *)

Spend(what) ==
  /\ left[what] > 0
  /\ left' = [left EXCEPT ![what] = @ - 1]

\* What luck costs.  A callback asks again only where an exit is reported.
Affords(what, n, luck) ==
  LET failures == Cardinality({f \in {"start", "restart"} : luck[f] # "runs"})
      Cost(b)  == IF b THEN 1 ELSE 0
      cost     == [Free EXCEPT !["failures"] = failures, !["deaths"] = Cost(luck.dies),
                               !["repeats"] = Cost(luck.again)]
      total    == [cost EXCEPT ![what] = @ + n]
  IN  /\ luck.again \/ luck.restart = "runs"
      /\ \A w \in DOMAIN left : total[w] <= left[w]
      /\ left' = [w \in DOMAIN left |-> left[w] - total[w]]

\* Handlers that have a callback running, which may ask again.
Calling(asks, luck) ==
  /\ asks \/ luck = Fine
  /\ Affords("repeats", IF asks THEN 1 ELSE 0, luck)

\* A command, a keystroke or a timer of the plugin's asks for something.
UserAsks ==
  /\ \E luck \in Looking :
       /\ Affords("asks", 1, luck)
       /\ Becomes(Ask(ByHand(Now), luck))
  /\ UNCHANGED <<hops, killed, out>>

\* `Cancel`: nobody wants the answer any more.
Cancel(id) ==
  /\ id \in DOMAIN pending
  /\ pending' = Without(pending, {id})
  /\ history' = [history EXCEPT !.settled = @ \cup {id}]
  /\ UNCHANGED <<generation, job, stopping, ready, handshake, nextId, policy, processes,
                 out, left>>

\* `Restart`, for :SimpleMarkdownRestart.
Restart ==
  /\ LET s == ResetBackoff(ByHand([Now EXCEPT !.history.wanted = generation + 1]))
     IN  \E luck \in Looking :
           /\ ~ luck.dies
           /\ Affords("restarts", 1, luck)
           /\ IF IsRunning(Now)
              THEN luck = Fine /\ Becomes(Stop(s)) /\ hops' = hops + 1
              ELSE Becomes(EnsureUnlessRunning(s, luck)) /\ hops' = hops
  /\ UNCHANGED <<killed, out>>

\* simplemarkdown#Stop(): the supervisor's part of it.
UserStops ==
  /\ Spend("stops")
  /\ Becomes(Stop(ByHand(Now)))
  /\ UNCHANGED <<hops, killed, out>>

-----------------------------------------------------------------------------
(* Timers and callbacks.                                                   *)

\* The backoff timer.
RestartTimerFires ==
  /\ restartTimer
  /\ \E luck \in Looking :
       /\ ~ luck.dies
       /\ Affords("repeats", 0, luck)
       /\ Becomes(EnsureUnlessRunning([Now EXCEPT !.restartTimer = FALSE], luck))
  /\ UNCHANGED <<hops, killed, out>>

\* The zero timer of Restart().
HopFires ==
  /\ hops > 0
  /\ hops' = hops - 1
  /\ \E luck \in Looking :
       /\ ~ luck.dies
       /\ Affords("repeats", 0, luck)
       /\ Becomes(EnsureUnlessRunning(Now, luck))
  /\ UNCHANGED <<killed, out>>

\* The grace period of Stop() is over.
KillTimerFires ==
  /\ killTimer # 0
  /\ killed' = IF killTimer = generation /\ proc[killTimer] = "run"
               THEN killed \cup {killTimer} ELSE killed
  /\ LET over == [Now EXCEPT !.killTimer = 0]
     IN  \E luck \in Looking :
           /\ ~ luck.dies /\ luck.start = "runs"
           /\ Affords("repeats", 0, luck)
           /\ Becomes(IF killTimer = generation THEN Look(over, luck) ELSE over)
  /\ UNCHANGED <<hops, out>>

\* `ExpireRequest`.
ExpireRequest(id) ==
  /\ id \in DOMAIN pending
  /\ pending[id]
  /\ \E asks \in BOOLEAN, luck \in Looking :
       /\ Calling(asks, luck)
       /\ Becomes(ResolvePending(Now, id, asks, luck))
  /\ UNCHANGED <<hops, killed, out>>

\* A line of output, behind its two fences.  The handshake's answer makes every
\* preview ask (OnReady).
Dispatch(reply) ==
  /\ out' = out \ {reply}
  /\ IF reply.gen # generation \/ stopping
     THEN UNCHANGED <<generation, job, stopping, ready, handshake, table, policy,
                      processes, history, left>>
     ELSE /\ \E asks \in BOOLEAN, luck \in Looking :
               LET greeted == [Now EXCEPT !.ready = TRUE, !.handshake = 0,
                                          !.history.greetedBy = reply.gen]
               IN  /\ Calling(asks, luck)
                   /\ IF reply.id = handshake
                      THEN Becomes(IF asks THEN Ask(greeted, luck) ELSE greeted)
                      ELSE IF reply.id \in DOMAIN pending
                      THEN Becomes(ResolvePending(Now, reply.id, asks, luck))
                      ELSE ~ asks /\ Becomes(Now)
          /\ UNCHANGED <<hops, killed>>

\* A plausible slip: the exit of any process is taken for that of the present one.
AnyProcessExits(gen) ==
  /\ proc[gen] = "dead"
  /\ \E luck \in Luck :
       /\ ~ luck.dies /\ luck.start = "runs"
       /\ Affords("repeats", 0, luck)
       /\ Becomes([OnExit([Now EXCEPT !.job = gen], luck) EXCEPT !.proc[gen] = "gone"])
  /\ UNCHANGED <<hops, killed, out>>

\* The exit callback of a process: nothing, if there has been another since.
ProcessExits(gen) ==
  /\ proc[gen] = "dead"
  /\ \E luck \in Luck :
       /\ ~ luck.dies /\ luck.start = "runs"
       /\ Affords("repeats", 0, luck)
       /\ IF gen = generation
          THEN Becomes(OnExit(Now, luck))
          ELSE luck = Fine /\ Becomes([Now EXCEPT !.proc[gen] = "gone"])
  /\ UNCHANGED <<hops, killed, out>>

-----------------------------------------------------------------------------
(* The processes.                                                          *)

\* A crash, or the SIGTERM heeded.
Dies(gen) ==
  /\ proc[gen] = "run"
  /\ Spend("deaths")
  /\ Becomes(Dead(Now, gen))
  /\ UNCHANGED <<hops, killed, out>>

\* SIGKILL cannot be ignored.
IsKilled(gen) ==
  /\ gen \in killed
  /\ proc[gen] = "run"
  /\ Becomes(Dead(Now, gen))
  /\ UNCHANGED <<hops, killed, out, left>>

Answers(w) ==
  /\ wire' = wire \ {w}
  /\ out' = out \cup {w}
  /\ UNCHANGED <<generation, job, stopping, ready, handshake, table, policy,
                 proc, uptime, termed, killed, history, left>>

\* Time passes, as far as anything depends on it.
Older(ages) == [i \in DOMAIN ages |-> IF ages[i] > Window THEN ages[i] ELSE ages[i] + 1]

Tick ==
  /\ crashes' = Older(crashes)
  /\ uptime' = IF job # 0 /\ uptime < Stable THEN uptime + 1 ELSE uptime
  /\ history' = [history EXCEPT !.starts =
                  IF job # 0 /\ uptime' >= Stable THEN << >>
                  ELSE Recent(Older(history.starts))]
  /\ UNCHANGED <<generation, job, stopping, ready, handshake, table, tripped, restartTimer,
                 killTimer, hops, proc, termed, killed, wire, out, left>>

-----------------------------------------------------------------------------
Init ==
  /\ generation = 0 /\ job = 0 /\ stopping = FALSE /\ ready = FALSE /\ handshake = 0
  /\ nextId = 0 /\ pending = << >>
  /\ crashes = << >> /\ tripped = FALSE /\ restartTimer = FALSE /\ killTimer = 0 /\ hops = 0
  /\ proc = << >> /\ uptime = 0 /\ termed = {} /\ killed = {} /\ wire = {} /\ out = {}
  /\ history = Unwritten
  /\ left = Budget

User == UserAsks \/ Restart \/ UserStops \/ \E id \in DOMAIN pending : Cancel(id)

Timers ==
  \/ RestartTimerFires \/ HopFires \/ KillTimerFires
  \/ \E id \in DOMAIN pending : ExpireRequest(id)

Callbacks ==
  \/ \E reply \in out : Dispatch(reply)
  \/ \E gen \in 1..generation : ProcessExits(gen)

Processes ==
  \/ \E gen \in 1..generation : Dies(gen) \/ IsKilled(gen)
  \/ \E w \in wire : Answers(w)
  \/ Tick

Next == User \/ Timers \/ Callbacks \/ Processes

Spec == Init /\ [][Next]_vars

\* Vim runs the timers that are due and the callbacks that are owed; SIGKILL
\* works.  That a daemon answers, or heeds SIGTERM, is not assumed.
Fairness ==
  /\ WF_vars(RestartTimerFires) /\ WF_vars(HopFires) /\ WF_vars(KillTimerFires)
  /\ WF_vars(\E id \in DOMAIN pending : ExpireRequest(id))
  /\ WF_vars(\E reply \in out : Dispatch(reply))
  /\ WF_vars(\E gen \in 1..generation : ProcessExits(gen))
  /\ WF_vars(\E gen \in 1..generation : IsKilled(gen))

FairSpec == Spec /\ Fairness

-----------------------------------------------------------------------------
(* Properties.                                                             *)

\* What the variables hold; `s_job` is of the last start attempted or null.
TypeOK ==
  /\ {generation, nextId, handshake, hops, uptime} \subseteq Nat
  /\ job \in {0, generation}
  /\ killTimer \in 0..generation
  /\ {stopping, ready, tripped, restartTimer} \subseteq BOOLEAN
  /\ pending \in [DOMAIN pending -> BOOLEAN] /\ DOMAIN pending \subseteq 1..nextId
  /\ handshake <= nextId
  /\ proc \in [1..generation -> {"run", "dead", "gone"}]
  /\ killed \subseteq termed /\ termed \subseteq 1..generation
  /\ \A w \in wire \cup out : w.gen \in 1..generation /\ w.id \in 1..nextId

\* There is never more than one daemon, and the supervisor has hold of it:
\* no order of exits, stops, restarts and requests leaves one running unattended.
OneDaemon == \A gen \in 1..generation : proc[gen] = "run" => gen = job

\* `Ready()` speaks of the daemon that is running: it has answered the handshake
\* itself, and what is known of its protocol and capabilities is its own.
ReadyMeansGreeted == ready /\ job # 0 => history.greetedBy = job

\* "Route exactly one reply back to Cb": every call is waiting, or was answered
\* or withdrawn exactly once, through every exit, timeout and failed write, and
\* through callbacks that ask again while the table is being cleared.
CalledBackOnce ==
  /\ history.echoes = {}
  /\ DOMAIN pending = history.asked \ history.settled

\* "A wedged daemon cannot strand a caller's callback": every call is answered,
\* failed or withdrawn in the end, though a daemon need never answer and the exit
\* callback that would fail its calls is ignored once another has been started.
EveryCallEnds == <>[](DOMAIN pending = {})

\* A daemon that was told to stop is gone in the end, whether it heeds SIGTERM or
\* not and whatever was started and stopped meanwhile.
StopIsFinal == <>[](\A gen \in termed : proc[gen] # "run")

\* The help: :SimpleMarkdownRestart restarts the backend.  Where a daemon can be
\* started, one is, after the one that was running.
RestartComesBack == []<>(generation >= history.wanted)

\* "Tripping a circuit breaker when the daemon crash-loops instead of spinning
\* forever": with no hand of the user's in it and no daemon staying up for long,
\* there are no more starts in a window than the first, two for each crash the
\* breaker lets pass (a callback's and its own), and the one a callback begins
\* just before it opens.
RespawnsBounded == Len(history.starts) <= 2 * MaxRestarts + 2
=============================================================================
