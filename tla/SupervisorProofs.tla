-------------------------- MODULE SupervisorProofs --------------------------
(***************************************************************************)
(* Theorems about Supervisor, for any breaker, any budget and, but for     *)
(* OneDaemon and RespawnsBounded, either answer to when an exit is         *)
(* reported.                                                               *)
(*                                                                         *)
(* A function of core.vim is an operator on a state of the editor and its  *)
(* processes, so it is proved about as one: what is Sound before it is     *)
(* Sound after it, and nothing that was handed out is taken back (Later).  *)
(* Functions that run callbacks pass through states that are not: between  *)
(* emptying the table and telling its callers, a call is in neither. Those *)
(* are never shown to another function, and no lemma is about them.        *)
(*                                                                         *)
(* One process at most runs, and s_job stands for it, because a process is *)
(* only ever started by whoever has seen that s_job's does not run: that   *)
(* is what NoneRuns says wherever Starting() may be reached. A look that   *)
(* reports exits from inside can start one in between, so this is claimed  *)
(* for exits that are reported late.                                       *)
(*                                                                         *)
(* That the breaker ends every loop of crashes is an argument about counts *)
(* by age (Counted): of no age are there more starts than two for each     *)
(* crash and one for the process that runs. Ages, and not how many there   *)
(* are in all, because a crash leaves the window when its starts do. An    *)
(* exit that is reported late, when another process has taken its place,   *)
(* is not counted, so this is claimed for exits that are reported at once. *)
(***************************************************************************)
EXTENDS Supervisor, SequenceLemmas

-----------------------------------------------------------------------------
(* States, and what is true of them.                                       *)

Fields ==
  {"generation", "job", "stopping", "ready", "handshake", "nextId", "pending", "crashes",
   "tripped", "restartTimer", "killTimer", "proc", "uptime", "termed", "wire", "history"}

HistoryFields == {"asked", "settled", "echoes", "greetedBy", "starts", "wanted"}

IsState(s) ==
  /\ DOMAIN s = Fields /\ s = [f \in Fields |-> s[f]]
  /\ DOMAIN s.history = HistoryFields /\ s.history = [f \in HistoryFields |-> s.history[f]]

\* What the fields hold, and that a running kill timer is for a process that was
\* told to stop.
Typed(s) ==
  /\ s.generation \in Nat /\ s.nextId \in Nat /\ s.uptime \in Nat
  /\ s.handshake \in 0..s.nextId
  /\ s.job \in {0, s.generation}
  /\ s.stopping \in BOOLEAN /\ s.ready \in BOOLEAN
  /\ s.tripped \in BOOLEAN /\ s.restartTimer \in BOOLEAN
  /\ s.pending \in [DOMAIN s.pending -> BOOLEAN]
  /\ s.proc \in [1..s.generation -> {"run", "dead", "gone"}]
  /\ s.termed \subseteq 1..s.generation
  /\ s.killTimer \in s.termed \cup {0}
  /\ \A w \in s.wire : w.gen \in 1..s.generation /\ w.id \in 1..s.nextId

\* Every call is waiting or settled, and no other id ever was.
AddsUp(s) ==
  /\ s.history.asked \subseteq 1..s.nextId
  /\ s.history.settled \subseteq s.history.asked
  /\ s.history.echoes = {}
  /\ DOMAIN s.pending = s.history.asked \ s.history.settled

Greeted(s) == s.ready /\ s.job # 0 => s.history.greetedBy = s.job

Alone(s) ==
  ~ AtOnce => \A gen \in 1..s.generation : s.proc[gen] = "run" => gen = s.job

Sound(s) == IsState(s) /\ Typed(s) /\ AddsUp(s) /\ Greeted(s) /\ Alone(s)

NoneRuns(s) == ~ AtOnce => \A gen \in 1..s.generation : s.proc[gen] # "run"

\* `t` is reached from `s`: numbers are not handed out twice.
Later(s, t) ==
  /\ s.generation <= t.generation /\ s.nextId <= t.nextId
  /\ s.termed \subseteq t.termed

LEMMA LaterStill ==
  ASSUME NEW r, NEW s, NEW t, Sound(r), Sound(s), Sound(t), Later(r, s), Later(s, t)
  PROVE  Later(r, t)
<1>1. /\ r.generation \in Nat /\ r.nextId \in Nat /\ s.generation \in Nat /\ s.nextId \in Nat
      /\ t.generation \in Nat /\ t.nextId \in Nat
  BY DEF Sound, Typed
<1> QED BY <1>1 DEF Later

LEMMA WithDomain ==
  ASSUME NEW f, NEW x, NEW y, f \in [DOMAIN f -> BOOLEAN], y \in BOOLEAN
  PROVE  DOMAIN With(f, x, y) = DOMAIN f \cup {x}
         /\ With(f, x, y) \in [DOMAIN With(f, x, y) -> BOOLEAN]
BY DEF With

LEMMA WithoutDomain ==
  ASSUME NEW f, NEW xs, f \in [DOMAIN f -> BOOLEAN]
  PROVE  DOMAIN Without(f, xs) = DOMAIN f \ xs
         /\ Without(f, xs) \in [DOMAIN Without(f, xs) -> BOOLEAN]
BY DEF Without

LEMMA AppendProc ==
  ASSUME NEW n \in Nat, NEW p \in [1..n -> {"run", "dead", "gone"}],
         NEW x \in {"run", "dead", "gone"}
  PROVE  /\ Append(p, x) \in [1..(n + 1) -> {"run", "dead", "gone"}]
         /\ \A i \in 1..n : Append(p, x)[i] = p[i]
         /\ Append(p, x)[n + 1] = x
<1> DEFINE q == Append(p, x)
<1>1. p \in Seq({"run", "dead", "gone"}) /\ Len(p) = n
  OBVIOUS
<1>2. /\ q \in Seq({"run", "dead", "gone"}) /\ Len(q) = n + 1
      /\ \A i \in 1..n : q[i] = p[i]
      /\ q[n + 1] = x
  BY <1>1, AppendProperties
<1>3. q \in [1..(n + 1) -> {"run", "dead", "gone"}]
  BY <1>2, LenProperties
<1> QED BY <1>2, <1>3

-----------------------------------------------------------------------------
(* Starting a process.                                                     *)

LEMMA FailingSpec ==
  ASSUME NEW s, Sound(s), NoneRuns(s)
  PROVE  Sound(Failing(s)) /\ Later(s, Failing(s)) /\ Failing(s).job = 0
<1> DEFINE t == Failing(s)
<1>1. IsState(t)
  BY DEF Sound, IsState, Fields, Failing
<1>2. /\ t.generation = s.generation + 1 /\ t.job = 0 /\ t.proc = Append(s.proc, "gone")
      /\ t.nextId = s.nextId /\ t.uptime = s.uptime /\ t.handshake = s.handshake
      /\ t.stopping = s.stopping /\ t.ready = s.ready /\ t.tripped = s.tripped
      /\ t.restartTimer = s.restartTimer /\ t.pending = s.pending /\ t.termed = s.termed
      /\ t.killTimer = s.killTimer /\ t.wire = s.wire /\ t.history = s.history
  BY DEF Sound, IsState, Fields, Failing
<1> HIDE DEF t
<1>a. s.generation \in Nat /\ s.proc \in [1..s.generation -> {"run", "dead", "gone"}]
  BY DEF Sound, Typed
<1>b. /\ Append(s.proc, "gone") \in [1..(s.generation + 1) -> {"run", "dead", "gone"}]
      /\ \A i \in 1..s.generation : Append(s.proc, "gone")[i] = s.proc[i]
      /\ Append(s.proc, "gone")[s.generation + 1] = "gone"
  BY <1>a, AppendProc
<1>3. /\ t.proc \in [1..t.generation -> {"run", "dead", "gone"}]
      /\ \A i \in 1..s.generation : t.proc[i] = s.proc[i]
      /\ t.proc[t.generation] = "gone"
  BY <1>2, <1>b
<1>4. Typed(t)
  BY <1>2, <1>3 DEF Sound, Typed
<1>5. AddsUp(t) /\ Greeted(t)
  BY <1>2 DEF Sound, AddsUp, Greeted
<1>6. Alone(t)
  BY <1>2, <1>3 DEF Sound, Typed, NoneRuns, Alone
<1>7. Later(s, t)
  BY <1>2 DEF Sound, Typed, Later
<1> QED BY <1>1, <1>2, <1>4, <1>5, <1>6, <1>7 DEF t, Sound

LEMMA StartingSpec ==
  ASSUME NEW s, Sound(s), NoneRuns(s)
  PROVE  Sound(Starting(s)) /\ Later(s, Starting(s)) /\ Starting(s).job # 0
<1> DEFINE t == Starting(s)
<1>1. IsState(t)
  BY DEF Sound, IsState, Fields, HistoryFields, Starting
<1>2. /\ t.generation = s.generation + 1 /\ t.job = s.generation + 1
      /\ t.proc = Append(s.proc, "run") /\ t.uptime = 0
      /\ t.nextId = s.nextId + 1 /\ t.handshake = s.nextId + 1
      /\ t.stopping = FALSE /\ t.ready = FALSE /\ t.tripped = s.tripped
      /\ t.restartTimer = s.restartTimer /\ t.pending = s.pending /\ t.termed = s.termed
      /\ t.killTimer = s.killTimer
      /\ t.wire = s.wire \cup {[gen |-> s.generation + 1, id |-> s.nextId + 1]}
  BY DEF Sound, IsState, Fields, Starting
<1>3. /\ t.history.asked = s.history.asked /\ t.history.settled = s.history.settled
      /\ t.history.echoes = s.history.echoes
  BY DEF Sound, IsState, Fields, HistoryFields, Starting
<1> HIDE DEF t
<1>a. s.generation \in Nat /\ s.proc \in [1..s.generation -> {"run", "dead", "gone"}]
  BY DEF Sound, Typed
<1>b. /\ Append(s.proc, "run") \in [1..(s.generation + 1) -> {"run", "dead", "gone"}]
      /\ \A i \in 1..s.generation : Append(s.proc, "run")[i] = s.proc[i]
      /\ Append(s.proc, "run")[s.generation + 1] = "run"
  BY <1>a, AppendProc
<1>4. /\ t.proc \in [1..t.generation -> {"run", "dead", "gone"}]
      /\ \A i \in 1..s.generation : t.proc[i] = s.proc[i]
  BY <1>2, <1>b
<1>5. Typed(t)
  <2>1. \A w \in t.wire : w.gen \in 1..t.generation /\ w.id \in 1..t.nextId
    BY <1>2 DEF Sound, Typed
  <2>2. t.termed \subseteq 1..t.generation /\ t.killTimer \in t.termed \cup {0}
    BY <1>2 DEF Sound, Typed
  <2>3. /\ t.generation \in Nat /\ t.nextId \in Nat /\ t.uptime \in Nat
        /\ t.handshake \in 0..t.nextId
    BY <1>2 DEF Sound, Typed
  <2>4. t.pending \in [DOMAIN t.pending -> BOOLEAN]
    BY <1>2 DEF Sound, Typed
  <2> QED BY <1>2, <1>4, <2>1, <2>2, <2>3, <2>4 DEF Sound, Typed
<1>6. AddsUp(t)
  BY <1>2, <1>3 DEF Sound, Typed, AddsUp
<1>7. Greeted(t)
  BY <1>2 DEF Greeted
<1>8. Alone(t)
  BY <1>2, <1>4 DEF Sound, Typed, NoneRuns, Alone
<1>9. Later(s, t) /\ t.job # 0
  BY <1>2 DEF Sound, Typed, Later
<1> QED BY <1>1, <1>5, <1>6, <1>7, <1>8, <1>9 DEF t, Sound

LEMMA LaterSame == ASSUME NEW s, Sound(s) PROVE Later(s, s)
BY DEF Sound, Typed, Later

LEMMA StartIfAllowedSpec ==
  ASSUME NEW s, Sound(s), NoneRuns(s), NEW start \in Starts
  PROVE  /\ Sound(StartIfAllowed(s, start)) /\ Later(s, StartIfAllowed(s, start))
         /\ ~ s.tripped /\ start = "runs" => StartIfAllowed(s, start).job # 0
BY FailingSpec, StartingSpec, LaterSame DEF StartIfAllowed, Starts

-----------------------------------------------------------------------------
(* The table of calls.                                                     *)

\* `t` differs from `s` in its calls alone.
SameButCalls(s, t) ==
  /\ t.generation = s.generation /\ t.job = s.job /\ t.stopping = s.stopping
  /\ t.ready = s.ready /\ t.handshake = s.handshake /\ t.tripped = s.tripped
  /\ t.restartTimer = s.restartTimer /\ t.killTimer = s.killTimer
  /\ t.proc = s.proc /\ t.uptime = s.uptime /\ t.termed = s.termed
  /\ t.history.greetedBy = s.history.greetedBy

LEMMA CallsSpec ==
  ASSUME NEW s, Sound(s), NEW t, IsState(t), SameButCalls(s, t),
         t.nextId \in Nat, s.nextId <= t.nextId,
         t.pending \in [DOMAIN t.pending -> BOOLEAN], AddsUp(t),
         \A w \in t.wire : w.gen \in 1..t.generation /\ w.id \in 1..t.nextId
  PROVE  Sound(t) /\ Later(s, t)
<1>1. Typed(t)
  BY DEF Sound, Typed, SameButCalls
<1>2. Greeted(t) /\ Alone(t)
  BY DEF Sound, Greeted, Alone, SameButCalls
<1>3. Later(s, t)
  BY <1>1 DEF Sound, Typed, Later, SameButCalls
<1> QED BY <1>1, <1>2, <1>3 DEF Sound

\* Callbacks run and nothing else changes.
LEMMA TellParts ==
  ASSUME NEW s, IsState(s), NEW ids
  PROVE  /\ IsState(Tell(s, ids)) /\ SameButCalls(s, Tell(s, ids))
         /\ Tell(s, ids).nextId = s.nextId /\ Tell(s, ids).pending = s.pending
         /\ Tell(s, ids).wire = s.wire
         /\ Tell(s, ids).history.asked = s.history.asked
         /\ Tell(s, ids).history.settled = s.history.settled \cup ids
         /\ Tell(s, ids).history.echoes =
              s.history.echoes \cup (ids \cap s.history.settled)
BY DEF IsState, Fields, HistoryFields, Tell, SameButCalls

\* A table from which some are taken and told is as good as before.
LEMMA SettleSpec ==
  ASSUME NEW s, Sound(s), NEW ids, ids \subseteq DOMAIN s.pending,
         NEW p, p \in [DOMAIN p -> BOOLEAN], DOMAIN p = DOMAIN s.pending \ ids
  PROVE  LET t == Tell([s EXCEPT !.pending = p], ids)
         IN  Sound(t) /\ Later(s, t) /\ SameButCalls(s, t)
<1> DEFINE r == [s EXCEPT !.pending = p]
           t == Tell(r, ids)
<1>1. IsState(r) /\ SameButCalls(s, r)
  BY DEF Sound, IsState, Fields, SameButCalls
<1>2. /\ r.nextId = s.nextId /\ r.pending = p /\ r.wire = s.wire /\ r.history = s.history
  BY DEF Sound, IsState, Fields
<1> HIDE DEF r
<1>3. /\ IsState(t) /\ SameButCalls(r, t)
      /\ t.nextId = r.nextId /\ t.pending = r.pending /\ t.wire = r.wire
      /\ t.history.asked = r.history.asked
      /\ t.history.settled = r.history.settled \cup ids
      /\ t.history.echoes = r.history.echoes \cup (ids \cap r.history.settled)
  BY <1>1, TellParts
<1> HIDE DEF t
<1>4. SameButCalls(s, t)
  BY <1>1, <1>3 DEF SameButCalls
<1>5. AddsUp(t)
  BY <1>2, <1>3 DEF Sound, AddsUp
<1>6. /\ t.nextId \in Nat /\ s.nextId <= t.nextId
      /\ t.pending \in [DOMAIN t.pending -> BOOLEAN]
      /\ \A w \in t.wire : w.gen \in 1..t.generation /\ w.id \in 1..t.nextId
  BY <1>2, <1>3, <1>4 DEF Sound, Typed, SameButCalls
<1>7. Sound(t) /\ Later(s, t)
  BY <1>3, <1>4, <1>5, <1>6, CallsSpec
<1> QED BY <1>4, <1>7 DEF t, r

\* One call is entered; `wires` is what is written with it, or nothing.
LEMMA EnterSpec ==
  ASSUME NEW s, Sound(s), NEW t, IsState(t), SameButCalls(s, t),
         t.nextId = s.nextId + 1,
         t.pending = With(s.pending, s.nextId + 1, TRUE),
         t.history.asked = s.history.asked \cup {s.nextId + 1},
         t.history.settled = s.history.settled, t.history.echoes = s.history.echoes,
         t.wire \subseteq s.wire \cup
           {w \in {[gen |-> s.job, id |-> s.nextId + 1]} : s.job # 0}
  PROVE  Sound(t) /\ Later(s, t)
<1>1. s.nextId \in Nat /\ s.generation \in Nat /\ s.job \in {0, s.generation}
  BY DEF Sound, Typed
<1>2. /\ DOMAIN t.pending = DOMAIN s.pending \cup {s.nextId + 1}
      /\ t.pending \in [DOMAIN t.pending -> BOOLEAN]
  <2>1. s.pending \in [DOMAIN s.pending -> BOOLEAN] /\ TRUE \in BOOLEAN
    BY DEF Sound, Typed
  <2>2. /\ DOMAIN With(s.pending, s.nextId + 1, TRUE) = DOMAIN s.pending \cup {s.nextId + 1}
        /\ With(s.pending, s.nextId + 1, TRUE)
             \in [DOMAIN With(s.pending, s.nextId + 1, TRUE) -> BOOLEAN]
    BY <2>1, WithDomain
  <2> QED BY <2>2
<1>3. AddsUp(t)
  <2>1. /\ s.history.asked \subseteq 1..s.nextId
        /\ s.history.settled \subseteq s.history.asked
        /\ DOMAIN s.pending = s.history.asked \ s.history.settled
        /\ s.history.echoes = {}
    BY DEF Sound, AddsUp
  <2>2. t.history.asked \subseteq 1..t.nextId /\ s.nextId + 1 \notin s.history.settled
    BY <1>1, <2>1
  <2>3. DOMAIN t.pending = t.history.asked \ t.history.settled
    BY <1>2, <2>1, <2>2
  <2> QED BY <2>1, <2>2, <2>3 DEF AddsUp
<1>4. \A w \in t.wire : w.gen \in 1..t.generation /\ w.id \in 1..t.nextId
  BY <1>1 DEF Sound, Typed, SameButCalls
<1>5. t.nextId \in Nat /\ s.nextId <= t.nextId
  BY <1>1
<1> QED BY <1>2, <1>3, <1>4, <1>5, CallsSpec

LEMMA WrittenSpec ==
  ASSUME NEW s, Sound(s), s.job # 0
  PROVE  LET t == Written(Numbered(s), s.nextId + 1) IN Sound(t) /\ Later(s, t)
<1> DEFINE t == Written(Numbered(s), s.nextId + 1)
<1>1. /\ IsState(t) /\ SameButCalls(s, t)
      /\ t.nextId = s.nextId + 1 /\ t.pending = With(s.pending, s.nextId + 1, TRUE)
      /\ t.history.asked = s.history.asked \cup {s.nextId + 1}
      /\ t.history.settled = s.history.settled /\ t.history.echoes = s.history.echoes
      /\ t.wire = s.wire \cup {[gen |-> s.job, id |-> s.nextId + 1]}
  BY DEF Sound, IsState, Fields, HistoryFields, Written, Numbered, SameButCalls
<1> HIDE DEF t
<1>2. t.wire \subseteq s.wire \cup {w \in {[gen |-> s.job, id |-> s.nextId + 1]} : s.job # 0}
  BY <1>1
<1> QED BY <1>1, <1>2, EnterSpec DEF t

-----------------------------------------------------------------------------
(* What leaves processes and calls as they are.                            *)

Steady(s, t) ==
  /\ t.generation = s.generation /\ t.nextId = s.nextId /\ t.job = s.job
  /\ t.proc = s.proc /\ t.pending = s.pending /\ t.wire = s.wire
  /\ t.history.asked = s.history.asked /\ t.history.settled = s.history.settled
  /\ t.history.echoes = s.history.echoes

LEMMA SteadySpec ==
  ASSUME NEW s, Sound(s), NEW t, IsState(t), Steady(s, t), Greeted(t),
         t.uptime \in Nat, t.handshake \in 0..t.nextId,
         t.stopping \in BOOLEAN, t.ready \in BOOLEAN, t.tripped \in BOOLEAN,
         t.restartTimer \in BOOLEAN, s.termed \subseteq t.termed,
         t.termed \subseteq 1..t.generation, t.killTimer \in t.termed \cup {0}
  PROVE  Sound(t) /\ Later(s, t)
<1>1. Typed(t)
  BY DEF Sound, Typed, Steady
<1>2. AddsUp(t) /\ Alone(t)
  BY DEF Sound, AddsUp, Alone, Steady
<1>3. Later(s, t)
  BY <1>1 DEF Typed, Later, Steady
<1> QED BY <1>1, <1>2, <1>3 DEF Sound

\* `t` differs from `s` in what is held of crashes, the breaker, the backoff timer
\* and the history of starts alone.
SameButPolicy(s, t) ==
  /\ Steady(s, t)
  /\ t.stopping = s.stopping /\ t.ready = s.ready /\ t.handshake = s.handshake
  /\ t.killTimer = s.killTimer /\ t.uptime = s.uptime /\ t.termed = s.termed
  /\ t.history.greetedBy = s.history.greetedBy

LEMMA PolicySpec ==
  ASSUME NEW s, Sound(s), NEW t, IsState(t), SameButPolicy(s, t),
         t.tripped \in BOOLEAN, t.restartTimer \in BOOLEAN
  PROVE  Sound(t) /\ Later(s, t) /\ Steady(s, t)
<1>1. Greeted(t)
  BY DEF Sound, Greeted, Steady, SameButPolicy
<1>2. /\ t.uptime \in Nat /\ t.handshake \in 0..t.nextId
      /\ t.stopping \in BOOLEAN /\ t.ready \in BOOLEAN
      /\ s.termed \subseteq t.termed /\ t.termed \subseteq 1..t.generation
      /\ t.killTimer \in t.termed \cup {0}
  BY DEF Sound, Typed, Steady, SameButPolicy
<1> QED BY <1>1, <1>2, SteadySpec DEF SameButPolicy

LEMMA ResetBackoffSpec ==
  ASSUME NEW s, Sound(s)
  PROVE  LET t == ResetBackoff(s)
         IN  Sound(t) /\ Later(s, t) /\ t.job = s.job /\ t.proc = s.proc
             /\ t.generation = s.generation
<1> DEFINE t == ResetBackoff(s)
<1>1. IsState(t) /\ SameButPolicy(s, t) /\ t.tripped = FALSE /\ t.restartTimer = s.restartTimer
  BY DEF Sound, IsState, Fields, HistoryFields, ResetBackoff, Steady, SameButPolicy
<1> HIDE DEF t
<1>2. t.restartTimer \in BOOLEAN
  BY <1>1 DEF Sound, Typed
<1> QED BY <1>1, <1>2, PolicySpec DEF t, Steady

LEMMA NoteCrashSpec ==
  ASSUME NEW s, Sound(s)
  PROVE  LET t == NoteCrash(s) IN Sound(t) /\ Later(s, t)
<1> DEFINE t == NoteCrash(s)
           recent == Append(Recent(s.crashes), 0)
<1>1. \/ t = [s EXCEPT !.crashes = recent, !.restartTimer = TRUE]
      \/ t = [s EXCEPT !.crashes = recent, !.tripped = TRUE]
  BY DEF NoteCrash
<1> HIDE DEF recent, t
<1>2. s.tripped \in BOOLEAN /\ s.restartTimer \in BOOLEAN
  BY DEF Sound, Typed
<1>3. IsState(t) /\ SameButPolicy(s, t)
  BY <1>1 DEF Sound, IsState, Fields, HistoryFields, Steady, SameButPolicy
<1>4. t.tripped \in BOOLEAN /\ t.restartTimer \in BOOLEAN
  BY <1>1, <1>2 DEF Sound, IsState, Fields
<1> QED BY <1>3, <1>4, PolicySpec DEF t

\* The count of starts begins afresh, or Restart() promises another.
LEMMA ByHandSpec ==
  ASSUME NEW s, Sound(s), NEW wanted
  PROVE  /\ Sound(ByHand(s)) /\ Later(s, ByHand(s)) /\ Steady(s, ByHand(s))
         /\ LET t == [s EXCEPT !.history.wanted = wanted]
            IN  Sound(t) /\ Later(s, t) /\ Steady(s, t)
<1> DEFINE u == ByHand(s)
           t == [s EXCEPT !.history.wanted = wanted]
<1>1. IsState(u) /\ SameButPolicy(s, u) /\ u.tripped = s.tripped /\ u.restartTimer = s.restartTimer
  BY DEF Sound, IsState, Fields, HistoryFields, ByHand, Steady, SameButPolicy
<1>2. IsState(t) /\ SameButPolicy(s, t) /\ t.tripped = s.tripped /\ t.restartTimer = s.restartTimer
  BY DEF Sound, IsState, Fields, HistoryFields, Steady, SameButPolicy
<1>3. s.tripped \in BOOLEAN /\ s.restartTimer \in BOOLEAN
  BY DEF Sound, Typed
<1> HIDE DEF u, t
<1>4. Sound(u) /\ Later(s, u) /\ Steady(s, u)
  BY <1>1, <1>3, PolicySpec
<1>5. Sound(t) /\ Later(s, t) /\ Steady(s, t)
  BY <1>2, <1>3, PolicySpec
<1> QED BY <1>4, <1>5 DEF u, t

\* The backoff timer is stopped.
LEMMA QuietSpec ==
  ASSUME NEW s, Sound(s)
  PROVE  LET t == [s EXCEPT !.restartTimer = FALSE]
         IN  Sound(t) /\ Later(s, t) /\ Steady(s, t)
<1> DEFINE t == [s EXCEPT !.restartTimer = FALSE]
<1>1. IsState(t) /\ SameButPolicy(s, t) /\ t.tripped = s.tripped /\ t.restartTimer = FALSE
  BY DEF Sound, IsState, Fields, HistoryFields, Steady, SameButPolicy
<1>2. s.tripped \in BOOLEAN
  BY DEF Sound, Typed
<1> HIDE DEF t
<1> QED BY <1>1, <1>2, PolicySpec DEF t

-----------------------------------------------------------------------------
(* An exit, and what looks for one.                                        *)

LEMMA DeadSpec ==
  ASSUME NEW s, Sound(s), NEW gen
  PROVE  LET t == Dead(s, gen)
         IN  Sound(t) /\ Later(s, t) /\ t.pending = s.pending /\ t.nextId = s.nextId
<1> DEFINE t == Dead(s, gen)
<1>1. /\ IsState(t)
      /\ t.nextId = s.nextId /\ t.pending = s.pending /\ t.history = s.history
      /\ t.proc = [s.proc EXCEPT ![gen] = "dead"] /\ t.wire \subseteq s.wire
      /\ t.generation = s.generation /\ t.job = s.job /\ t.ready = s.ready
      /\ t.handshake = s.handshake /\ t.stopping = s.stopping /\ t.tripped = s.tripped
      /\ t.restartTimer = s.restartTimer /\ t.killTimer = s.killTimer
      /\ t.uptime = s.uptime /\ t.termed = s.termed
  BY DEF Sound, IsState, Fields, Dead
<1> HIDE DEF t
<1>2. t.proc \in [1..t.generation -> {"run", "dead", "gone"}]
  BY <1>1 DEF Sound, Typed
<1>3. Typed(t)
  BY <1>1, <1>2 DEF Sound, Typed
<1>4. AddsUp(t) /\ Greeted(t)
  BY <1>1 DEF Sound, AddsUp, Greeted
<1>5. Alone(t)
  BY <1>1 DEF Sound, Typed, Alone
<1>6. Later(s, t)
  BY <1>1 DEF Sound, Typed, Later
<1> QED BY <1>1, <1>3, <1>4, <1>5, <1>6 DEF t, Sound

LEMMA AskFromExitSpec ==
  ASSUME NEW s, Sound(s), NoneRuns(s), NEW luck \in Luck
  PROVE  LET t == AskFromExit(s, luck) IN Sound(t) /\ Later(s, t)
<1> DEFINE e == StartIfAllowed(s, luck.restart)
<1>1. Sound(e) /\ Later(s, e)
  BY StartIfAllowedSpec DEF Luck
<1>2. e.job # 0 => LET t == Written(Numbered(e), e.nextId + 1) IN Sound(t) /\ Later(s, t)
  BY <1>1, WrittenSpec, LaterStill
<1> QED BY <1>1, <1>2, LaterSame DEF AskFromExit

LEMMA ClearPendingSpec ==
  ASSUME NEW s, Sound(s), NoneRuns(s), NEW luck \in Luck
  PROVE  LET t == ClearPending(s, luck) IN Sound(t) /\ Later(s, t)
<1> DEFINE told == Tell([s EXCEPT !.pending = << >>], DOMAIN s.pending)
<1>1. << >> \in [DOMAIN << >> -> BOOLEAN] /\ DOMAIN << >> = {}
  OBVIOUS
<1>2. Sound(told) /\ Later(s, told) /\ SameButCalls(s, told)
  BY <1>1, SettleSpec
<1> HIDE DEF told
<1>3. NoneRuns(told)
  BY <1>2 DEF NoneRuns, SameButCalls
<1>4. LET t == AskFromExit(told, luck) IN Sound(t) /\ Later(s, t)
  BY <1>2, <1>3, AskFromExitSpec, LaterStill
<1> QED BY <1>2, <1>4 DEF ClearPending, told

\* The process that s_job stands for is not running when its exit is reported, so
\* nothing is.
LEMMA OverSpec ==
  ASSUME NEW s, Sound(s)
  PROVE  LET t == [s EXCEPT !.job = 0, !.ready = FALSE, !.handshake = 0, !.stopping = FALSE,
                            !.killTimer = 0, !.proc[s.job] = "gone"]
         IN  Sound(t) /\ Later(s, t) /\ NoneRuns(t)
<1> DEFINE over == [s EXCEPT !.job = 0, !.ready = FALSE, !.handshake = 0, !.stopping = FALSE,
                             !.killTimer = 0, !.proc[s.job] = "gone"]
<1>1. /\ IsState(over) /\ over.job = 0 /\ over.ready = FALSE /\ over.handshake = 0
      /\ over.stopping = FALSE /\ over.killTimer = 0
      /\ over.proc = [s.proc EXCEPT ![s.job] = "gone"]
      /\ over.generation = s.generation /\ over.nextId = s.nextId
      /\ over.pending = s.pending /\ over.tripped = s.tripped
      /\ over.restartTimer = s.restartTimer /\ over.uptime = s.uptime
      /\ over.termed = s.termed /\ over.wire = s.wire /\ over.history = s.history
  BY DEF Sound, IsState, Fields
<1> HIDE DEF over
<1>2. over.proc \in [1..over.generation -> {"run", "dead", "gone"}]
  BY <1>1 DEF Sound, Typed
<1>3. Typed(over)
  <2>1. /\ s.generation \in Nat /\ s.nextId \in Nat /\ s.uptime \in Nat
        /\ s.tripped \in BOOLEAN /\ s.restartTimer \in BOOLEAN
        /\ s.pending \in [DOMAIN s.pending -> BOOLEAN] /\ s.termed \subseteq 1..s.generation
        /\ \A w \in s.wire : w.gen \in 1..s.generation /\ w.id \in 1..s.nextId
    BY DEF Sound, Typed
  <2>2. over.handshake \in 0..over.nextId /\ over.job \in {0, over.generation}
    BY <1>1, <2>1
  <2>3. over.killTimer \in over.termed \cup {0} /\ over.termed \subseteq 1..over.generation
    BY <1>1, <2>1
  <2> QED BY <1>1, <1>2, <2>1, <2>2, <2>3 DEF Typed
<1>4. AddsUp(over) /\ Greeted(over)
  BY <1>1 DEF Sound, AddsUp, Greeted
<1>5. NoneRuns(over)
  <2> SUFFICES ASSUME ~ AtOnce, NEW gen \in 1..s.generation
               PROVE  over.proc[gen] # "run"
    BY <1>1 DEF NoneRuns
  <2>1. s.proc[gen] = "run" => gen = s.job
    BY DEF Sound, Alone
  <2>2. s.proc \in [1..s.generation -> {"run", "dead", "gone"}]
    BY DEF Sound, Typed
  <2>3. CASE gen = s.job
    BY <1>1, <2>2, <2>3
  <2>4. CASE gen # s.job
    BY <1>1, <2>1, <2>2, <2>4
  <2> QED BY <2>3, <2>4
<1>6. Alone(over)
  BY <1>5 DEF Alone, NoneRuns
<1>11. Sound(over)
  BY <1>1, <1>3, <1>4, <1>6 DEF Sound
<1>12. Later(s, over)
  BY <1>1 DEF Sound, Typed, Later
<1> QED BY <1>5, <1>11, <1>12 DEF over

LEMMA OnExitSpec ==
  ASSUME NEW s, Sound(s), NEW luck \in Luck
  PROVE  LET t == OnExit(s, luck) IN Sound(t) /\ Later(s, t)
<1> DEFINE over == [s EXCEPT !.job = 0, !.ready = FALSE, !.handshake = 0, !.stopping = FALSE,
                             !.killTimer = 0, !.proc[s.job] = "gone"]
           told == ClearPending(over, luck)
<1>1. Sound(over) /\ Later(s, over) /\ NoneRuns(over)
  BY OverSpec
<1> HIDE DEF over
<1>2. Sound(told) /\ Later(s, told)
  BY <1>1, ClearPendingSpec, LaterStill
<1> HIDE DEF told
<1>3. LET t == ResetBackoff(told)
      IN  Sound(t) /\ Later(s, t) /\ Sound(NoteCrash(t)) /\ Later(s, NoteCrash(t))
  BY <1>2, ResetBackoffSpec, NoteCrashSpec, LaterStill
<1>4. Sound(NoteCrash(told)) /\ Later(s, NoteCrash(told))
  BY <1>2, NoteCrashSpec, LaterStill
<1>5. LET t == ResetBackoff(ByHand(told)) IN Sound(t) /\ Later(s, t)
  BY <1>2, ByHandSpec, LaterStill, ResetBackoffSpec
<1>6. OnExit(s, luck) = IF s.stopping THEN ResetBackoff(ByHand(told))
                        ELSE NoteCrash(IF s.uptime >= Stable THEN ResetBackoff(told)
                                       ELSE told)
  BY DEF OnExit, told, over
<1> QED BY <1>3, <1>4, <1>5, <1>6

LEMMA LookSpec ==
  ASSUME NEW s, Sound(s), NEW luck \in Luck
  PROVE  Sound(Look(s, luck)) /\ Later(s, Look(s, luck))
BY OnExitSpec, LaterSame DEF Look

\* Whoever has looked may start a process: if exits are reported late nothing has
\* changed meanwhile, and what s_job stands for does not run.
LEMMA EnsureSpec ==
  ASSUME NEW s, Sound(s), NEW luck \in Luck
  PROVE  /\ Sound(Ensure(s, luck)) /\ Later(s, Ensure(s, luck))
         /\ Ensures(s, luck) => Ensure(s, luck).job # 0
<1> DEFINE l == Look(s, luck)
<1>1. CASE IsRunning(s)
  BY <1>1, LaterSame DEF Ensure, IsRunning
<1>2. CASE ~ IsRunning(s)
  <2>1. Sound(l) /\ Later(s, l)
    BY LookSpec
  <2>2. NoneRuns(l)
    BY <1>2 DEF Look, Sound, Typed, Alone, NoneRuns, IsRunning
  <2> HIDE DEF l
  <2>3. /\ Sound(StartIfAllowed(l, luck.start)) /\ Later(l, StartIfAllowed(l, luck.start))
        /\ ~ l.tripped /\ luck.start = "runs" => StartIfAllowed(l, luck.start).job # 0
    BY <2>1, <2>2, StartIfAllowedSpec DEF Luck
  <2>4. Ensure(s, luck) = StartIfAllowed(l, luck.start)
        /\ (Ensures(s, luck) => ~ l.tripped /\ luck.start = "runs")
    BY <1>2 DEF Ensure, Ensures, l
  <2> QED BY <2>1, <2>3, <2>4, LaterStill
<1> QED BY <1>1, <1>2

LEMMA EnsureUnlessRunningSpec ==
  ASSUME NEW s, Sound(s), NEW luck \in Luck
  PROVE  LET t == EnsureUnlessRunning(s, luck) IN Sound(t) /\ Later(s, t)
<1>1. Sound(Look(s, luck)) /\ Later(s, Look(s, luck))
  BY LookSpec
<1>2. LET t == Ensure(Look(s, luck), luck) IN Sound(t) /\ Later(Look(s, luck), t)
  BY <1>1, EnsureSpec
<1> QED BY <1>1, <1>2, LaterStill DEF EnsureUnlessRunning

-----------------------------------------------------------------------------
(* Requests and answers.                                                   *)

\* A call is entered before it is written.
LEMMA EntrySpec ==
  ASSUME NEW s, Sound(s)
  PROVE  LET t == [Numbered(s) EXCEPT !.pending = With(s.pending, s.nextId + 1, TRUE)]
         IN  Sound(t) /\ Later(s, t)
<1> DEFINE t == [Numbered(s) EXCEPT !.pending = With(s.pending, s.nextId + 1, TRUE)]
<1>1. /\ IsState(t) /\ SameButCalls(s, t) /\ t.nextId = s.nextId + 1
      /\ t.pending = With(s.pending, s.nextId + 1, TRUE)
      /\ t.history.asked = s.history.asked \cup {s.nextId + 1}
      /\ t.history.settled = s.history.settled
      /\ t.history.echoes = s.history.echoes /\ t.wire = s.wire
  BY DEF Sound, IsState, Fields, HistoryFields, Numbered, SameButCalls
<1> HIDE DEF t
<1> QED BY <1>1, EnterSpec DEF t

\* A call that was not cleared by the look at a dead process is answered with the
\* failure of its write; one that was has been answered already.
LEMMA RequestSpec ==
  ASSUME NEW s, Sound(s), s.job # 0, NEW luck \in Luck
  PROVE  LET t == Request(s, luck) IN Sound(t) /\ Later(s, t)
<1> DEFINE id    == s.nextId + 1
           entry == [Numbered(s) EXCEPT !.pending = With(s.pending, id, TRUE)]
           dead  == Dead(entry, s.job)
           after == Look(dead, luck)
           told  == Tell([after EXCEPT !.pending = Without(after.pending, {id})], {id})
<1>2. Sound(entry) /\ Later(s, entry)
  BY EntrySpec
<1> HIDE DEF entry
<1>3. Sound(dead) /\ Later(s, dead)
  BY <1>2, DeadSpec, LaterStill
<1> HIDE DEF dead
<1>4. Sound(after) /\ Later(s, after)
  BY <1>3, LookSpec, LaterStill
<1> HIDE DEF after
<1>5. id \in DOMAIN after.pending => Sound(told) /\ Later(s, told)
  <2> SUFFICES ASSUME id \in DOMAIN after.pending PROVE Sound(told) /\ Later(s, told)
    OBVIOUS
  <2> DEFINE p == Without(after.pending, {id})
  <2>1. after.pending \in [DOMAIN after.pending -> BOOLEAN]
    BY <1>4 DEF Sound, Typed
  <2>2. DOMAIN p = DOMAIN after.pending \ {id} /\ p \in [DOMAIN p -> BOOLEAN]
    BY <2>1, WithoutDomain
  <2> HIDE DEF p
  <2>3. LET t == Tell([after EXCEPT !.pending = p], {id}) IN Sound(t) /\ Later(after, t)
    BY <1>4, <2>2, SettleSpec
  <2> QED BY <1>4, <2>3, LaterStill DEF p
<1>6. LET t == Written(Numbered(s), id) IN Sound(t) /\ Later(s, t)
  BY WrittenSpec
<1> QED BY <1>4, <1>5, <1>6 DEF Request, after, dead, entry

LEMMA AskSpec ==
  ASSUME NEW s, Sound(s), NEW luck \in Luck
  PROVE  LET t == Ask(s, luck) IN Sound(t) /\ Later(s, t)
<1>1. /\ Sound(Ensure(s, luck)) /\ Later(s, Ensure(s, luck))
      /\ Ensures(s, luck) => Ensure(s, luck).job # 0
  BY EnsureSpec
<1>2. Ensures(s, luck) =>
        LET t == Request(Ensure(s, luck), luck) IN Sound(t) /\ Later(s, t)
  BY <1>1, RequestSpec, LaterStill
<1> QED BY <1>1, <1>2 DEF Ask

LEMMA ResolvePendingSpec ==
  ASSUME NEW s, Sound(s), NEW id \in DOMAIN s.pending, NEW asks \in BOOLEAN, NEW luck \in Luck
  PROVE  LET t == ResolvePending(s, id, asks, luck) IN Sound(t) /\ Later(s, t)
<1> DEFINE p    == Without(s.pending, {id})
           told == Tell([s EXCEPT !.pending = p], {id})
<1>1. s.pending \in [DOMAIN s.pending -> BOOLEAN]
  BY DEF Sound, Typed
<1>2. DOMAIN p = DOMAIN s.pending \ {id} /\ p \in [DOMAIN p -> BOOLEAN]
  BY <1>1, WithoutDomain
<1> HIDE DEF p
<1>3. Sound(told) /\ Later(s, told)
  BY <1>2, SettleSpec
<1> HIDE DEF told
<1>4. LET t == Ask(told, luck) IN Sound(t) /\ Later(s, t)
  BY <1>3, AskSpec, LaterStill
<1> QED BY <1>3, <1>4 DEF ResolvePending, told, p

LEMMA StopSpec ==
  ASSUME NEW s, Sound(s)
  PROVE  LET t == Stop(s) IN Sound(t) /\ Later(s, t)
<1> DEFINE quiet == [s EXCEPT !.restartTimer = FALSE]
           told  == [quiet EXCEPT !.stopping = TRUE, !.termed = s.termed \cup {s.job},
                                  !.killTimer = s.generation]
<1>1. Sound(quiet) /\ Later(s, quiet) /\ Steady(s, quiet)
  BY QuietSpec
<1>2. CASE s.job = 0
  <2>1. NoneRuns(quiet)
    BY <1>1, <1>2 DEF Sound, Typed, Alone, NoneRuns, Steady
  <2>2. Fine \in Luck
    BY DEF Fine, Luck, Starts
  <2>3. Sound(ClearPending(quiet, Fine)) /\ Later(quiet, ClearPending(quiet, Fine))
    BY <1>1, <2>1, <2>2, ClearPendingSpec
  <2> QED BY <1>1, <1>2, <2>3, LaterStill DEF Stop
<1>3. CASE s.job # 0
  <2>1. /\ IsState(told) /\ Steady(s, told) /\ told.ready = s.ready
        /\ told.history.greetedBy = s.history.greetedBy
        /\ told.uptime = s.uptime /\ told.handshake = s.handshake /\ told.stopping = TRUE
        /\ told.tripped = s.tripped /\ told.restartTimer = FALSE
        /\ told.termed = s.termed \cup {s.job} /\ told.killTimer = s.generation
    BY DEF Sound, IsState, Fields, HistoryFields, Steady
  <2> HIDE DEF told
  <2>2. s.job = s.generation /\ s.generation \in 1..s.generation
    BY <1>3 DEF Sound, Typed
  <2>3. Greeted(told)
    BY <2>1 DEF Sound, Greeted, Steady
  <2>4. /\ s.uptime \in Nat /\ s.handshake \in 0..s.nextId
        /\ s.ready \in BOOLEAN /\ s.tripped \in BOOLEAN /\ s.termed \subseteq 1..s.generation
    BY DEF Sound, Typed
  <2>5. told.generation = s.generation /\ told.nextId = s.nextId
    BY <2>1 DEF Steady
  <2>6. /\ told.uptime \in Nat /\ told.handshake \in 0..told.nextId
        /\ told.stopping \in BOOLEAN /\ told.ready \in BOOLEAN /\ told.tripped \in BOOLEAN
        /\ told.restartTimer \in BOOLEAN /\ s.termed \subseteq told.termed
    BY <2>1, <2>4, <2>5
  <2>7. told.termed \subseteq 1..told.generation /\ told.killTimer \in told.termed \cup {0}
    BY <2>1, <2>2, <2>4, <2>5
  <2>8. Sound(told) /\ Later(s, told)
    BY <2>1, <2>3, <2>6, <2>7, SteadySpec
  <2> QED BY <1>3, <2>8 DEF Stop, told, quiet
<1> QED BY <1>2, <1>3


-----------------------------------------------------------------------------
(* The invariant.                                                          *)

\* What the variables hold that no function of the supervisor sees.
Outside(k, t, o, h) ==
  /\ h \in Nat /\ k \subseteq t.termed
  /\ \A w \in o : w.gen \in 1..t.generation /\ w.id \in 1..t.nextId

Inv == Sound(Now) /\ Outside(killed, Now, out, hops)

LEMMA BecomesIs ==
  ASSUME NEW s, IsState(s), Becomes(s)
  PROVE  Now' = s
BY DEF IsState, Now, Becomes, Fields

\* Every action is a function of the supervisor, and what it leaves behind.
LEMMA StepSpec ==
  ASSUME Inv, NEW t, Sound(t), Later(Now, t), Now' = t,
         hops' \in Nat, killed' \subseteq t.termed, out' \subseteq out \cup wire
  PROVE  Inv'
<1>1. Sound(Now')
  OBVIOUS
<1>2. \A w \in out' : w.gen \in 1..generation /\ w.id \in 1..nextId
  BY DEF Inv, Outside, Sound, Typed, Now
<1>3. /\ generation \in Nat /\ generation <= t.generation /\ t.generation \in Nat
      /\ nextId \in Nat /\ nextId <= t.nextId /\ t.nextId \in Nat
  BY DEF Inv, Sound, Typed, Later, Now
<1>4. \A w \in out' : w.gen \in 1..t.generation /\ w.id \in 1..t.nextId
  BY <1>2, <1>3
<1>5. Outside(killed', t, out', hops')
  BY <1>4 DEF Outside
<1>6. Inv' = (Sound(Now') /\ Outside(killed', Now', out', hops'))
  BY DEF Inv
<1> QED BY <1>1, <1>5, <1>6

\* The same where the action leaves all but the supervisor and its processes.
LEMMA FunctionSpec ==
  ASSUME Inv, NEW t, Sound(t), Later(Now, t), Becomes(t),
         UNCHANGED <<killed, out>>, hops' \in Nat
  PROVE  Inv'
<1>1. Now' = t
  BY BecomesIs DEF Sound
<1>2. killed \subseteq t.termed
  BY DEF Inv, Outside, Later
<1> QED BY <1>1, <1>2, StepSpec


LEMMA NowSound == ASSUME Inv PROVE Sound(Now) /\ hops \in Nat
BY DEF Inv, Outside

LEMMA LookingIsLuck == Looking \subseteq Luck
BY DEF Looking

-----------------------------------------------------------------------------
(* Every step keeps it.                                                    *)

LEMMA UserAsksInv == ASSUME Inv, UserAsks PROVE Inv'
<1>1. PICK luck \in Looking : Becomes(Ask(ByHand(Now), luck))
  BY DEF UserAsks
<1> DEFINE t == Ask(ByHand(Now), luck)
<1>2. Sound(ByHand(Now)) /\ Later(Now, ByHand(Now))
  BY NowSound, ByHandSpec
<1>3. Sound(t) /\ Later(ByHand(Now), t)
  BY <1>2, AskSpec, LookingIsLuck
<1>4. Later(Now, t)
  BY <1>2, <1>3, NowSound, LaterStill
<1>5. UNCHANGED <<killed, out>> /\ hops' \in Nat
  BY NowSound DEF UserAsks
<1> QED BY <1>1, <1>3, <1>4, <1>5, FunctionSpec

LEMMA CancelInv == ASSUME Inv, NEW id \in DOMAIN pending, Cancel(id) PROVE Inv'
<1> DEFINE t == Now'
<1>1. /\ IsState(Now) /\ Now.history = history
      /\ Now.pending = pending /\ Now.nextId = nextId /\ Now.generation = generation
      /\ Now.wire = wire /\ Now.termed = termed
  BY NowSound DEF Sound, Now
<1>2. IsState(t) /\ SameButCalls(Now, t)
  <2>1. /\ DOMAIN history' = HistoryFields
        /\ history' = [f \in HistoryFields |-> history'[f]]
    BY <1>1 DEF IsState, Cancel, HistoryFields
  <2>2. history'.greetedBy = history.greetedBy
    BY <1>1 DEF IsState, Cancel, HistoryFields
  <2>3. DOMAIN t = Fields /\ t = [f \in Fields |-> t[f]] /\ t.history = history'
    BY DEF Now, Fields
  <2>4. IsState(t)
    BY <2>1, <2>3 DEF IsState
  <2> QED BY <2>2, <2>4 DEF Cancel, Now, SameButCalls, policy, processes
<1>3. /\ t.nextId = nextId /\ t.pending = Without(pending, {id}) /\ t.wire = wire
      /\ t.generation = generation /\ t.termed = termed
      /\ t.history.asked = history.asked
      /\ t.history.settled = history.settled \cup {id}
      /\ t.history.echoes = history.echoes
  BY <1>1 DEF IsState, Cancel, HistoryFields, Now, policy, processes
<1>a. UNCHANGED <<killed, out, hops>>
  BY DEF Cancel, policy, processes
<1> HIDE DEF t
<1>4. /\ nextId \in Nat /\ pending \in [DOMAIN pending -> BOOLEAN]
      /\ \A w \in wire : w.gen \in 1..generation /\ w.id \in 1..nextId
  BY <1>1, NowSound DEF Sound, Typed
<1>5. /\ DOMAIN t.pending = DOMAIN pending \ {id}
      /\ t.pending \in [DOMAIN t.pending -> BOOLEAN]
  <2>1. t.pending = Without(pending, {id})
    BY <1>3
  <2>2. pending \in [DOMAIN pending -> BOOLEAN]
    BY <1>4
  <2> DEFINE p == pending
             q == Without(p, {id})
  <2>3. p \in [DOMAIN p -> BOOLEAN]
    BY <2>2
  <2> HIDE DEF p
  <2>4. DOMAIN q = DOMAIN p \ {id} /\ q \in [DOMAIN q -> BOOLEAN]
    BY ONLY <2>3, WithoutDomain DEF q
  <2> QED BY <2>1, <2>4 DEF p, q
<1>6. AddsUp(t)
  <2>1. AddsUp(Now)
    BY NowSound DEF Sound
  <2> QED BY <1>1, <1>3, <1>5, <2>1, ZenonT(40) DEF AddsUp
<1>7. Sound(t) /\ Later(Now, t)
  <2>1. Sound(Now) /\ Now.nextId = nextId
    BY NowSound DEF Now, Fields
  <2>2. /\ t.nextId \in Nat /\ Now.nextId <= t.nextId
        /\ \A w \in t.wire : w.gen \in 1..t.generation /\ w.id \in 1..t.nextId
    BY <1>3, <1>4, <2>1
  <2> QED BY <1>1, <1>2, <1>5, <1>6, <2>1, <2>2, CallsSpec
<1>8. killed' \subseteq t.termed /\ hops' \in Nat /\ out' \subseteq out \cup wire
  BY <1>1, <1>3, <1>a DEF Inv, Outside
<1> QED BY <1>7, <1>8, StepSpec DEF t

LEMMA RestartInv == ASSUME Inv, Restart PROVE Inv'
<1> DEFINE w == [Now EXCEPT !.history.wanted = generation + 1]
           s == ResetBackoff(ByHand(w))
<1>1. Sound(w) /\ Later(Now, w)
  BY NowSound, ByHandSpec
<1> HIDE DEF w
<1>2. Sound(ByHand(w)) /\ Later(Now, ByHand(w))
  BY <1>1, NowSound, ByHandSpec, LaterStill
<1>3. Sound(s) /\ Later(Now, s)
  BY <1>2, NowSound, ResetBackoffSpec, LaterStill
<1> HIDE DEF s
<1>4. PICK luck \in Looking :
        IF IsRunning(Now) THEN luck = Fine /\ Becomes(Stop(s)) /\ hops' = hops + 1
        ELSE Becomes(EnsureUnlessRunning(s, luck)) /\ hops' = hops
  BY DEF Restart, s, w
<1>5. Sound(Stop(s)) /\ Later(Now, Stop(s))
  BY <1>3, NowSound, StopSpec, LaterStill
<1>6. Sound(EnsureUnlessRunning(s, luck)) /\ Later(Now, EnsureUnlessRunning(s, luck))
  BY <1>3, NowSound, EnsureUnlessRunningSpec, LookingIsLuck, LaterStill
<1>7. UNCHANGED <<killed, out>>
  BY DEF Restart
<1>8. hops' \in Nat
  BY <1>4, NowSound
<1> QED BY <1>4, <1>5, <1>6, <1>7, <1>8, FunctionSpec

LEMMA UserStopsInv == ASSUME Inv, UserStops PROVE Inv'
<1> DEFINE t == Stop(ByHand(Now))
<1>1. Sound(ByHand(Now)) /\ Later(Now, ByHand(Now))
  BY NowSound, ByHandSpec
<1>2. Sound(t) /\ Later(Now, t)
  BY <1>1, NowSound, StopSpec, LaterStill
<1>3. Becomes(t) /\ UNCHANGED <<killed, out>> /\ hops' \in Nat
  BY NowSound DEF UserStops
<1> QED BY <1>2, <1>3, FunctionSpec

LEMMA RestartTimerFiresInv == ASSUME Inv, RestartTimerFires PROVE Inv'
<1> DEFINE s == [Now EXCEPT !.restartTimer = FALSE]
<1>1. Sound(s) /\ Later(Now, s)
  BY NowSound, QuietSpec
<1>2. PICK luck \in Looking : Becomes(EnsureUnlessRunning(s, luck))
  BY DEF RestartTimerFires
<1> HIDE DEF s
<1>3. Sound(EnsureUnlessRunning(s, luck)) /\ Later(Now, EnsureUnlessRunning(s, luck))
  BY <1>1, NowSound, EnsureUnlessRunningSpec, LookingIsLuck, LaterStill
<1>4. UNCHANGED <<killed, out>> /\ hops' \in Nat
  BY NowSound DEF RestartTimerFires
<1> QED BY <1>2, <1>3, <1>4, FunctionSpec

LEMMA HopFiresInv == ASSUME Inv, HopFires PROVE Inv'
<1>1. PICK luck \in Looking : Becomes(EnsureUnlessRunning(Now, luck))
  BY DEF HopFires
<1>2. /\ Sound(EnsureUnlessRunning(Now, luck))
      /\ Later(Now, EnsureUnlessRunning(Now, luck))
  BY NowSound, EnsureUnlessRunningSpec, LookingIsLuck
<1>3. UNCHANGED <<killed, out>> /\ hops' \in Nat
  BY NowSound DEF HopFires
<1> QED BY <1>1, <1>2, <1>3, FunctionSpec


LEMMA KillOverSpec ==
  ASSUME Inv
  PROVE  LET t == [Now EXCEPT !.killTimer = 0] IN Sound(t) /\ Later(Now, t)
<1> DEFINE over == [Now EXCEPT !.killTimer = 0]
<1>1. Sound(over) /\ Later(Now, over)
  <2>1. /\ IsState(over) /\ Steady(Now, over) /\ over.ready = Now.ready
        /\ over.history.greetedBy = Now.history.greetedBy
        /\ over.uptime = Now.uptime /\ over.handshake = Now.handshake
        /\ over.stopping = Now.stopping /\ over.tripped = Now.tripped
        /\ over.restartTimer = Now.restartTimer /\ over.termed = Now.termed
        /\ over.killTimer = 0
    BY NowSound DEF Sound, IsState, Fields, HistoryFields, Steady
  <2> HIDE DEF over
  <2>2. Greeted(over)
    BY <2>1, NowSound DEF Sound, Greeted, Steady
  <2>3. /\ Now.uptime \in Nat /\ Now.handshake \in 0..Now.nextId
        /\ Now.stopping \in BOOLEAN /\ Now.ready \in BOOLEAN /\ Now.tripped \in BOOLEAN
        /\ Now.restartTimer \in BOOLEAN /\ Now.termed \subseteq 1..Now.generation
    BY NowSound DEF Sound, Typed
  <2>4. over.generation = Now.generation /\ over.nextId = Now.nextId
    BY <2>1 DEF Steady
  <2> QED BY <2>1, <2>2, <2>3, <2>4, NowSound, SteadySpec
<1> QED BY <1>1

LEMMA KillTimerFiresInv == ASSUME Inv, KillTimerFires PROVE Inv'
<1> DEFINE over == [Now EXCEPT !.killTimer = 0]
<1>1. Sound(over) /\ Later(Now, over)
  BY KillOverSpec
<1> HIDE DEF over
<1>2. PICK luck \in Looking :
        Becomes(IF killTimer = generation THEN Look(over, luck) ELSE over)
  BY DEF KillTimerFires, over
<1> DEFINE t == IF killTimer = generation THEN Look(over, luck) ELSE over
<1>3. Sound(t) /\ Later(Now, t)
  BY <1>1, NowSound, LookSpec, LookingIsLuck, LaterStill
<1> HIDE DEF t
<1>4. Now' = t
  BY <1>2, <1>3, BecomesIs DEF Sound, t
<1>5. killed' \subseteq termed
  BY NowSound DEF Inv, Outside, Sound, Typed, Now, KillTimerFires
<1>6. killed' \subseteq t.termed /\ hops' \in Nat /\ out' = out
  BY <1>3, <1>5, NowSound DEF Later, Now, KillTimerFires
<1> QED BY <1>3, <1>4, <1>6, StepSpec

LEMMA ExpireRequestInv ==
  ASSUME Inv, NEW id \in DOMAIN pending, ExpireRequest(id)
  PROVE  Inv'
<1>1. PICK asks \in BOOLEAN, luck \in Looking : Becomes(ResolvePending(Now, id, asks, luck))
  BY DEF ExpireRequest
<1>2. id \in DOMAIN Now.pending
  BY DEF Now
<1>3. /\ Sound(ResolvePending(Now, id, asks, luck))
      /\ Later(Now, ResolvePending(Now, id, asks, luck))
  BY <1>2, NowSound, ResolvePendingSpec, LookingIsLuck
<1>4. UNCHANGED <<killed, out>> /\ hops' \in Nat
  BY NowSound DEF ExpireRequest
<1> QED BY <1>1, <1>3, <1>4, FunctionSpec

\* Behind its fences an answer to the handshake is of the daemon that runs.
LEMMA GreetedSpec ==
  ASSUME NEW s, Sound(s)
  PROVE  LET t == [s EXCEPT !.ready = TRUE, !.handshake = 0,
                            !.history.greetedBy = s.generation]
         IN  Sound(t) /\ Later(s, t)
<1> DEFINE t == [s EXCEPT !.ready = TRUE, !.handshake = 0,
                          !.history.greetedBy = s.generation]
<1>1. /\ IsState(t) /\ Steady(s, t) /\ t.ready = TRUE
      /\ t.history.greetedBy = s.generation
      /\ t.uptime = s.uptime /\ t.handshake = 0
      /\ t.stopping = s.stopping /\ t.tripped = s.tripped
      /\ t.restartTimer = s.restartTimer /\ t.termed = s.termed
      /\ t.killTimer = s.killTimer
  BY DEF Sound, IsState, Fields, HistoryFields, Steady
<1> HIDE DEF t
<1>2. /\ s.uptime \in Nat /\ s.nextId \in Nat /\ s.job \in {0, s.generation}
      /\ s.stopping \in BOOLEAN /\ s.tripped \in BOOLEAN
      /\ s.restartTimer \in BOOLEAN /\ s.termed \subseteq 1..s.generation
      /\ s.killTimer \in s.termed \cup {0}
  BY DEF Sound, Typed
<1>3. t.generation = s.generation /\ t.nextId = s.nextId /\ t.job = s.job
  BY <1>1 DEF Steady
<1>4. Greeted(t)
  BY <1>1, <1>2, <1>3 DEF Greeted
<1>5. t.handshake \in 0..t.nextId
  BY <1>1, <1>2, <1>3
<1>6. Sound(t) /\ Later(s, t)
  BY <1>1, <1>2, <1>3, <1>4, <1>5, SteadySpec
<1> QED BY <1>6 DEF t

LEMMA DispatchInv == ASSUME Inv, NEW reply \in out, Dispatch(reply) PROVE Inv'
<1>1. out' \subseteq out
  BY DEF Dispatch
<1>2. CASE reply.gen # generation \/ stopping
  BY <1>2, <1>1, NowSound, LaterSame, StepSpec DEF Dispatch, Now, table, policy, processes, Inv,
     Outside
<1>3. CASE ~ (reply.gen # generation \/ stopping)
  <2> DEFINE greeted == [Now EXCEPT !.ready = TRUE, !.handshake = 0,
                                    !.history.greetedBy = reply.gen]
  <2>1. Sound(greeted) /\ Later(Now, greeted)
    BY <1>3, NowSound, GreetedSpec DEF Now
  <2> HIDE DEF greeted
  <2>2. PICK asks \in BOOLEAN, luck \in Looking :
          IF reply.id = handshake
          THEN Becomes(IF asks THEN Ask(greeted, luck) ELSE greeted)
          ELSE IF reply.id \in DOMAIN pending
          THEN Becomes(ResolvePending(Now, reply.id, asks, luck))
          ELSE ~ asks /\ Becomes(Now)
    BY <1>3 DEF Dispatch, greeted
  <2>3. \E t : Becomes(t) /\ Sound(t) /\ Later(Now, t)
    <3>1. Sound(Ask(greeted, luck)) /\ Later(Now, Ask(greeted, luck))
      BY <2>1, NowSound, AskSpec, LookingIsLuck, LaterStill
    <3>2. reply.id \in DOMAIN pending =>
            /\ Sound(ResolvePending(Now, reply.id, asks, luck))
            /\ Later(Now, ResolvePending(Now, reply.id, asks, luck))
      BY NowSound, ResolvePendingSpec, LookingIsLuck DEF Now
    <3>3. Sound(Now) /\ Later(Now, Now)
      BY NowSound, LaterSame
    <3> QED BY <2>1, <2>2, <3>1, <3>2, <3>3
  <2>4. PICK t : Becomes(t) /\ Sound(t) /\ Later(Now, t)
    BY <2>3
  <2>5. UNCHANGED <<hops, killed>>
    BY <1>3 DEF Dispatch
  <2>6. Now' = t
    BY <2>4, BecomesIs DEF Sound
  <2>7. killed' \subseteq t.termed /\ hops' \in Nat
    BY <2>4, <2>5, NowSound DEF Inv, Outside, Later
  <2> QED BY <1>1, <2>4, <2>6, <2>7, StepSpec
<1> QED BY <1>2, <1>3


\* The exit of a process that is not the latest is only noted.
LEMMA GoneSpec ==
  ASSUME NEW s, Sound(s), NEW gen
  PROVE  LET t == [s EXCEPT !.proc[gen] = "gone"] IN Sound(t) /\ Later(s, t)
<1> DEFINE t == [s EXCEPT !.proc[gen] = "gone"]
<1>1. /\ IsState(t)
      /\ t.nextId = s.nextId /\ t.pending = s.pending /\ t.history = s.history
      /\ t.proc = [s.proc EXCEPT ![gen] = "gone"] /\ t.wire = s.wire
      /\ t.generation = s.generation /\ t.job = s.job /\ t.ready = s.ready
      /\ t.handshake = s.handshake /\ t.stopping = s.stopping /\ t.tripped = s.tripped
      /\ t.restartTimer = s.restartTimer /\ t.killTimer = s.killTimer
      /\ t.uptime = s.uptime /\ t.termed = s.termed
  BY DEF Sound, IsState, Fields
<1> HIDE DEF t
<1>2. t.proc \in [1..t.generation -> {"run", "dead", "gone"}]
  BY <1>1 DEF Sound, Typed
<1>3. Typed(t)
  BY <1>1, <1>2 DEF Sound, Typed
<1>4. AddsUp(t) /\ Greeted(t)
  BY <1>1 DEF Sound, AddsUp, Greeted
<1>5. Alone(t)
  BY <1>1 DEF Sound, Typed, Alone
<1>6. Later(s, t)
  BY <1>1 DEF Sound, Typed, Later
<1> QED BY <1>1, <1>3, <1>4, <1>5, <1>6 DEF t, Sound

LEMMA ProcessExitsInv == ASSUME Inv, NEW gen, ProcessExits(gen) PROVE Inv'
<1>1. PICK luck \in Luck :
        IF gen = generation THEN Becomes(OnExit(Now, luck))
        ELSE Becomes([Now EXCEPT !.proc[gen] = "gone"])
  BY DEF ProcessExits
<1>2. Sound(OnExit(Now, luck)) /\ Later(Now, OnExit(Now, luck))
  BY NowSound, OnExitSpec
<1>3. LET t == [Now EXCEPT !.proc[gen] = "gone"] IN Sound(t) /\ Later(Now, t)
  BY NowSound, GoneSpec
<1>4. UNCHANGED <<killed, out>> /\ hops' \in Nat
  BY NowSound DEF ProcessExits
<1> QED BY <1>1, <1>2, <1>3, <1>4, FunctionSpec

LEMMA DiesInv == ASSUME Inv, NEW gen, Dies(gen) \/ IsKilled(gen) PROVE Inv'
<1>1. Becomes(Dead(Now, gen)) /\ UNCHANGED <<killed, out>> /\ hops' \in Nat
  BY NowSound DEF Dies, IsKilled
<1>2. Sound(Dead(Now, gen)) /\ Later(Now, Dead(Now, gen))
  BY NowSound, DeadSpec
<1> QED BY <1>1, <1>2, FunctionSpec

LEMMA AnswersInv == ASSUME Inv, NEW w \in wire, Answers(w) PROVE Inv'
<1> DEFINE t == Now'
<1>1. /\ t.wire = Now.wire \ {w} /\ SameButCalls(Now, t) /\ t.nextId = Now.nextId
      /\ t.pending = Now.pending /\ t.history = Now.history
  BY DEF Answers, Now, SameButCalls, table, policy
<1>2. IsState(t)
  BY <1>1, NowSound DEF Now, Fields, Sound, IsState
<1>3. UNCHANGED <<killed, hops>> /\ out' \subseteq out \cup wire
  BY DEF Answers, policy
<1> HIDE DEF t
<1>4. AddsUp(t)
  BY <1>1, NowSound DEF Sound, AddsUp
<1>5. /\ t.nextId \in Nat /\ Now.nextId <= t.nextId
      /\ t.pending \in [DOMAIN t.pending -> BOOLEAN]
      /\ \A x \in t.wire : x.gen \in 1..t.generation /\ x.id \in 1..t.nextId
  BY <1>1, NowSound DEF Sound, Typed, SameButCalls
<1>6. Sound(t) /\ Later(Now, t)
  BY <1>1, <1>2, <1>4, <1>5, NowSound, CallsSpec
<1>7. killed' \subseteq t.termed /\ hops' \in Nat
  BY <1>3, <1>6, NowSound DEF Inv, Outside, Later
<1> QED BY <1>3, <1>6, <1>7, StepSpec DEF t

LEMMA TickInv == ASSUME Inv, Tick PROVE Inv'
<1> DEFINE t == Now'
<1>1. /\ IsState(Now) /\ Now.history = history
  BY NowSound DEF Sound, Now
<1>2. /\ DOMAIN history' = HistoryFields /\ history' = [f \in HistoryFields |-> history'[f]]
      /\ history'.asked = history.asked /\ history'.settled = history.settled
      /\ history'.echoes = history.echoes /\ history'.greetedBy = history.greetedBy
  BY <1>1 DEF IsState, Tick, HistoryFields
<1>3. IsState(t)
  BY <1>2 DEF Now, Fields, IsState
<1>5. /\ Steady(Now, t) /\ t.history.greetedBy = Now.history.greetedBy
      /\ t.ready = Now.ready /\ t.handshake = Now.handshake
      /\ t.stopping = Now.stopping /\ t.tripped = Now.tripped
      /\ t.restartTimer = Now.restartTimer /\ t.termed = Now.termed
      /\ t.killTimer = Now.killTimer
  BY <1>2 DEF Tick, Now, Steady, table
<1>6. t.uptime \in Nat
  BY NowSound DEF Sound, Typed, Tick, Now
<1>7. UNCHANGED <<killed, hops, out>>
  BY DEF Tick
<1> HIDE DEF t
<1>8. /\ t.generation = Now.generation /\ t.nextId = Now.nextId /\ t.job = Now.job
      /\ Now.handshake \in 0..Now.nextId
      /\ Now.stopping \in BOOLEAN /\ Now.ready \in BOOLEAN /\ Now.tripped \in BOOLEAN
      /\ Now.restartTimer \in BOOLEAN /\ Now.termed \subseteq 1..Now.generation
      /\ Now.killTimer \in Now.termed \cup {0}
  BY <1>5, NowSound DEF Sound, Typed, Steady
<1>9. Greeted(t)
  BY <1>5, <1>8, NowSound DEF Sound, Greeted
<1>10. Sound(t) /\ Later(Now, t)
  BY <1>3, <1>5, <1>6, <1>8, <1>9, NowSound, SteadySpec
<1>11. killed' \subseteq t.termed /\ hops' \in Nat /\ out' = out
  BY <1>7, <1>10, NowSound DEF Inv, Outside, Later
<1> QED BY <1>10, <1>11, StepSpec DEF t


LEMMA InvInit == Init => Inv
<1> SUFFICES ASSUME Init PROVE Inv
  OBVIOUS
<1>1. IsState(Now)
  BY DEF Init, Now, Fields, Unwritten, HistoryFields, IsState
<1>2. Typed(Now)
  <2>1. << >> \in [DOMAIN << >> -> BOOLEAN] /\ << >> \in [1..0 -> {"run", "dead", "gone"}]
    OBVIOUS
  <2>2. /\ Now.pending \in [DOMAIN Now.pending -> BOOLEAN]
        /\ Now.proc \in [1..Now.generation -> {"run", "dead", "gone"}]
    BY <2>1 DEF Init, Now
  <2>3. /\ Now.generation = 0 /\ Now.nextId = 0 /\ Now.uptime = 0 /\ Now.handshake = 0
        /\ Now.job = 0 /\ Now.stopping = FALSE /\ Now.ready = FALSE /\ Now.tripped = FALSE
        /\ Now.restartTimer = FALSE
        /\ Now.termed = {} /\ Now.killTimer = 0 /\ Now.wire = {}
    BY DEF Init, Now
  <2>4. /\ Now.generation \in Nat /\ Now.nextId \in Nat /\ Now.uptime \in Nat
        /\ Now.handshake \in 0..Now.nextId /\ Now.job \in {0, Now.generation}
    BY <2>3
  <2>5. /\ Now.stopping \in BOOLEAN /\ Now.ready \in BOOLEAN /\ Now.tripped \in BOOLEAN
        /\ Now.restartTimer \in BOOLEAN
    BY <2>3
  <2>6. /\ Now.termed \subseteq 1..Now.generation /\ Now.killTimer \in Now.termed \cup {0}
        /\ \A w \in Now.wire : w.gen \in 1..Now.generation /\ w.id \in 1..Now.nextId
    BY <2>3
  <2> QED BY <2>2, <2>4, <2>5, <2>6 DEF Typed
<1>3. AddsUp(Now) /\ Greeted(Now) /\ Alone(Now)
  BY DEF Init, Now, Unwritten, AddsUp, Greeted, Alone
<1>4. Outside(killed, Now, out, hops)
  BY DEF Init, Now, Outside
<1> QED BY <1>1, <1>2, <1>3, <1>4 DEF Inv, Sound

LEMMA InvStutters == ASSUME Inv, UNCHANGED vars PROVE Inv'
<1>1. Now' = Now /\ UNCHANGED <<killed, out, hops>>
  BY DEF vars, table, policy, processes, Now
<1>2. killed' \subseteq Now.termed
  BY <1>1 DEF Inv, Outside
<1> QED BY <1>1, <1>2, NowSound, LaterSame, StepSpec

LEMMA InvNext == Inv /\ [Next]_vars => Inv'
<1> SUFFICES ASSUME Inv, [Next]_vars PROVE Inv'
  OBVIOUS
<1>1. CASE User
  BY <1>1, UserAsksInv, RestartInv, UserStopsInv, CancelInv DEF User
<1>2. CASE Timers
  BY <1>2, RestartTimerFiresInv, HopFiresInv, KillTimerFiresInv, ExpireRequestInv DEF Timers
<1>3. CASE Callbacks
  BY <1>3, DispatchInv, ProcessExitsInv DEF Callbacks
<1>4. CASE Processes
  BY <1>4, DiesInv, AnswersInv, TickInv DEF Processes
<1>5. CASE UNCHANGED vars
  BY <1>5, InvStutters
<1> QED BY <1>1, <1>2, <1>3, <1>4, <1>5 DEF Next

LEMMA InvImplies ==
  ASSUME Inv
  PROVE  TypeOK /\ ReadyMeansGreeted /\ CalledBackOnce /\ (~ AtOnce => OneDaemon)
<1>1. Sound(Now) /\ Outside(killed, Now, out, hops)
  BY DEF Inv
<1>2. TypeOK
  BY <1>1 DEF Sound, Typed, Now, AddsUp, Outside, TypeOK
<1>3. ReadyMeansGreeted
  BY <1>1 DEF Sound, Greeted, Now, ReadyMeansGreeted
<1>4. CalledBackOnce
  BY <1>1 DEF Sound, AddsUp, Now, CalledBackOnce
<1>5. ~ AtOnce => OneDaemon
  BY <1>1 DEF Sound, Alone, Now, OneDaemon
<1> QED BY <1>2, <1>3, <1>4, <1>5

Upto(ages, a) == {i \in 1..Len(ages) : ages[i] <= a}

LEMMA UptoCount ==
  ASSUME NEW ages \in Seq(Nat), NEW a \in Nat
  PROVE  /\ IsFiniteSet(Upto(ages, a)) /\ Cardinality(Upto(ages, a)) \in Nat
         /\ Cardinality(Upto(ages, a)) <= Len(ages) /\ Len(ages) \in Nat
         /\ (\A i \in 1..Len(ages) : ages[i] <= a) => Cardinality(Upto(ages, a)) = Len(ages)
<1>1. Len(ages) \in Nat
  BY LenProperties
<1> DEFINE n == Len(ages)
<1>2. IsFiniteSet(1..n) /\ Cardinality(1..n) = n
  <2>1. IsFiniteSet(1..n) /\ Cardinality(1..n) = IF 1 > n THEN 0 ELSE n - 1 + 1
    BY <1>1, FS_Interval
  <2> QED BY <1>1, <2>1
<1>3. Upto(ages, a) \in SUBSET (1..Len(ages))
  BY DEF Upto
<1>4. IsFiniteSet(Upto(ages, a)) /\ Cardinality(Upto(ages, a)) <= Len(ages)
  BY <1>2, <1>3, FS_Subset
<1>5. (\A i \in 1..Len(ages) : ages[i] <= a) => Upto(ages, a) = 1..Len(ages)
  BY DEF Upto
<1> QED BY <1>1, <1>2, <1>4, <1>5, FS_CardinalityType

LEMMA NoneCount ==
  /\ << >> \in Seq(Nat) /\ << >> \in Seq(0..Window) /\ Len(<< >>) = 0
  /\ \A a : Cardinality(Upto(<< >>, a)) = 0
<1>1. \A a : Upto(<< >>, a) = {}
  BY DEF Upto
<1> QED BY <1>1, EmptySeq, FS_EmptySet

LEMMA NewCount ==
  ASSUME NEW ages \in Seq(Nat), NEW a \in Nat
  PROVE  /\ Append(ages, 0) \in Seq(Nat) /\ Len(Append(ages, 0)) = Len(ages) + 1
         /\ Cardinality(Upto(Append(ages, 0), a)) = Cardinality(Upto(ages, a)) + 1
<1> DEFINE n == Len(ages)
           more == Append(ages, 0)
<1>1. /\ n \in Nat /\ more \in Seq(Nat) /\ Len(more) = n + 1
      /\ \A i \in 1..n : more[i] = ages[i]
      /\ more[n + 1] = 0
  BY AppendProperties, LenProperties
<1> HIDE DEF more
<1>2. Upto(more, a) = Upto(ages, a) \cup {n + 1}
  BY <1>1 DEF Upto
<1>3. n + 1 \notin Upto(ages, a)
  BY <1>1 DEF Upto
<1>4. IsFiniteSet(Upto(ages, a))
  BY UptoCount
<1>5. Cardinality(Upto(ages, a) \cup {n + 1}) = Cardinality(Upto(ages, a)) + 1
  BY <1>3, <1>4, FS_AddElement
<1> QED BY <1>1, <1>2, <1>5 DEF more

LEMMA RecentCount ==
  ASSUME NEW ages \in Seq(Nat)
  PROVE  /\ Recent(ages) \in Seq(Nat) /\ Recent(ages) \in Seq(0..Window)
         /\ Len(Recent(ages)) <= Len(ages)
         /\ \A a \in 0..Window : Cardinality(Upto(Recent(ages), a)) = Cardinality(Upto(ages, a))
<1> DEFINE old == Nat \ 0..Window
           r   == Recent(ages)
<1>1. Window \in Nat /\ Len(ages) \in Nat
  BY BreakerAssumption, LenProperties
<1>2. r \in Seq(Nat) /\ LeftOf(r, ages, Len(ages), old)
  BY DroppingSpec DEF Recent
<1> HIDE DEF r
<1>3. PICK place \in [1..Len(r) -> 1..Len(ages)] :
        /\ \A k \in 1..Len(r) : r[k] = ages[place[k]] /\ r[k] \notin old
        /\ \A j, k \in 1..Len(r) : j < k => place[j] < place[k]
        /\ \A i \in 1..Len(ages) : ages[i] \notin old => \E k \in 1..Len(r) : place[k] = i
  BY <1>2 DEF LeftOf
<1>4. Len(r) \in Nat /\ \A k \in 1..Len(r) : r[k] \in 0..Window
  BY <1>2, LenProperties, ElementOfSeq, <1>3
<1>5. r \in Seq(0..Window)
  <2>1. r = [k \in 1..Len(r) |-> r[k]]
    BY <1>2, LenProperties
  <2> DEFINE l == Len(r)
  <2> HIDE DEF l
  <2>2. r \in [1..l -> 0..Window]
    BY <1>4, <2>1 DEF l
  <2>3. l \in Nat
    BY <1>4 DEF l
  <2>4. \A X : [1..l -> X] \subseteq Seq(X)
    BY <2>3, SeqDef
  <2> DEFINE X == 0..Window
  <2> HIDE DEF X
  <2>5. r \in [1..l -> X]
    BY <2>2 DEF X
  <2>6. r \in Seq(X)
    BY <2>4, <2>5
  <2> QED BY <2>6 DEF X
<1>6. ASSUME NEW a \in 0..Window
      PROVE  Cardinality(Upto(r, a)) = Cardinality(Upto(ages, a))
  <2> DEFINE S == Upto(r, a)
             T == Upto(ages, a)
             f == [k \in S |-> place[k]]
  <2>1. \A k \in S : k \in 1..Len(r) /\ r[k] <= a
    BY DEF Upto
  <2>2. \A k \in S : place[k] \in T
    BY <1>3, <2>1 DEF Upto
  <2>3. f \in [S -> T]
    BY <2>2
  <2>4. \A j, k \in S : f[j] = f[k] => j = k
    <3> SUFFICES ASSUME NEW j \in S, NEW k \in S, place[j] = place[k], j # k
                 PROVE  FALSE
      OBVIOUS
    <3>1. j \in 1..Len(r) /\ k \in 1..Len(r)
      BY <2>1
    <3>2. place[j] \in Nat /\ place[k] \in Nat
      BY <1>1, <1>3, <3>1, SMTT(30)
    <3>3. j < k \/ k < j
      BY <1>4, <3>1
    <3> QED BY <1>3, <3>1, <3>2, <3>3
  <2>5. ASSUME NEW i \in T
        PROVE  \E k \in S : f[k] = i
    <3>1. i \in 1..Len(ages) /\ ages[i] <= a /\ ages[i] \in Nat
      BY <1>1, ElementOfSeq DEF Upto
    <3>2. ages[i] \notin old
      BY <1>1, <3>1
    <3>3. PICK k \in 1..Len(r) : place[k] = i
      BY <1>3, <3>1, <3>2
    <3>4. k \in S
      BY <1>3, <3>1, <3>3 DEF Upto
    <3> QED BY <3>3, <3>4
  <2> HIDE DEF S, T, f
  <2>6. f \in Bijection(S, T)
    BY <2>3, <2>4, <2>5 DEF Bijection, Injection, Surjection, IsInjective
  <2>7. ExistsBijection(S, T)
    BY <2>6 DEF ExistsBijection
  <2>8. IsFiniteSet(S)
    BY <1>1, <1>2, UptoCount DEF S
  <2> QED BY <2>7, <2>8, FS_Bijection DEF S, T
<1>7. Len(r) <= Len(ages)
  <2>1. \A i \in 1..Len(r) : r[i] <= Window
    BY <1>1, <1>4
  <2>2. Cardinality(Upto(r, Window)) = Len(r)
    BY <1>1, <1>2, <2>1, UptoCount
  <2>3. Cardinality(Upto(ages, Window)) <= Len(ages) /\ Window \in 0..Window
    BY <1>1, UptoCount
  <2> QED BY <1>6, <2>2, <2>3
<1> QED BY <1>2, <1>5, <1>6, <1>7 DEF r

LEMMA OlderCount ==
  ASSUME NEW ages \in Seq(Nat)
  PROVE  /\ Older(ages) \in Seq(Nat) /\ Len(Older(ages)) = Len(ages)
         /\ Cardinality(Upto(Older(ages), 0)) = 0
         /\ \A a \in 1..Window : Upto(Older(ages), a) = Upto(ages, a - 1)
<1> DEFINE n == Len(ages)
           r == Older(ages)
<1>1. n \in Nat /\ DOMAIN ages = 1..n /\ Window \in Nat /\ \A i \in 1..n : ages[i] \in Nat
  BY BreakerAssumption, LenProperties, ElementOfSeq
<1>2. r = [i \in 1..n |-> IF ages[i] > Window THEN ages[i] ELSE ages[i] + 1]
  BY <1>1 DEF Older
<1> HIDE DEF r, n
<1>3. r \in [1..n -> Nat]
  BY <1>1, <1>2
<1>4. r \in Seq(Nat)
  BY <1>1, <1>3, SeqDef
<1>5. Len(r) = n
  BY <1>1, <1>3, <1>4, LenProperties
<1>6. \A i \in 1..n : r[i] = IF ages[i] > Window THEN ages[i] ELSE ages[i] + 1
  BY <1>2
<1>7. Upto(r, 0) = {}
  BY <1>1, <1>6, <1>5 DEF Upto
<1>8. ASSUME NEW a \in 1..Window
      PROVE  Upto(r, a) = Upto(ages, a - 1)
  BY <1>1, <1>6, <1>5 DEF Upto, n
<1> QED BY <1>4, <1>5, <1>7, <1>8, FS_EmptySet DEF r, n

-----------------------------------------------------------------------------
(* The breaker. Of any age, there are never more starts than two for each  *)
(* crash and one for the process that runs: what a start is owed to is     *)
(* still counted, or was forgiven when the starts were.                    *)

StartsTo(s, a) == Cardinality(Upto(s.history.starts, a))
CrashesTo(s, a) == Cardinality(Upto(s.crashes, a))

Owes(s, more) == s.tripped \/ \A a \in 0..Window : StartsTo(s, a) <= 2 * CrashesTo(s, a) + more

\* What s_job says of the latest process; nothing is counted against a daemon that has
\* proved stable; and the breaker is open or closed for a reason.
Held(s) ==
  /\ s.crashes \in Seq(Nat) /\ s.history.starts \in Seq(Nat)
  /\ s.history.starts \in Seq(0..Window)
  /\ s.generation # 0 => (s.proc[s.generation] = "gone" <=> s.job = 0)
  /\ s.job # 0 /\ s.uptime >= Stable => s.history.starts = << >>
  /\ s.tripped => Len(s.history.starts) <= 2 * MaxRestarts + 2
  /\ ~ s.tripped => Len(s.crashes) <= MaxRestarts

Running(s) == IF s.job # 0 THEN 1 ELSE 0

Counted(s) == Held(s) /\ Owes(s, Running(s))

LEMMA HeldCounts ==
  ASSUME NEW s, Held(s)
  PROVE  /\ Window \in Nat /\ MaxRestarts \in Nat /\ Stable \in Nat
         /\ \A a \in 0..Window : /\ StartsTo(s, a) \in Nat /\ CrashesTo(s, a) \in Nat
                                 /\ CrashesTo(s, a) <= Len(s.crashes)
         /\ StartsTo(s, Window) = Len(s.history.starts) /\ Window \in 0..Window
         /\ Len(s.crashes) \in Nat /\ Len(s.history.starts) \in Nat
<1> DEFINE starts == s.history.starts
<1>1. Window \in Nat /\ MaxRestarts \in Nat /\ Stable \in Nat /\ Window \in 0..Window
  BY BreakerAssumption
<1>2. s.crashes \in Seq(Nat) /\ starts \in Seq(Nat) /\ starts \in Seq(0..Window)
  BY DEF Held
<1> HIDE DEF starts
<1>3. \A i \in 1..Len(starts) : starts[i] <= Window
  BY <1>2, ElementOfSeq, <1>1
<1>4. Cardinality(Upto(starts, Window)) = Len(starts)
  BY <1>1, <1>2, <1>3, UptoCount
<1>5. \A a \in 0..Window : a \in Nat
  BY <1>1
<1> QED BY <1>1, <1>2, <1>4, <1>5, UptoCount, LenProperties DEF StartsTo, CrashesTo, starts

LEMMA OwesMore ==
  ASSUME NEW s, Held(s), NEW d \in Nat, NEW e \in Nat, d <= e, Owes(s, d)
  PROVE  Owes(s, e)
BY HeldCounts, SMTT(30) DEF Owes

\* `t` differs from `s` in nothing that the count is of.
SameCount(s, t) ==
  /\ t.generation = s.generation /\ t.job = s.job /\ t.proc = s.proc
  /\ t.uptime = s.uptime /\ t.crashes = s.crashes /\ t.tripped = s.tripped
  /\ t.history.starts = s.history.starts

LEMMA SameCounted ==
  ASSUME NEW s, NEW t, SameCount(s, t), Held(s)
  PROVE  Held(t) /\ (\A d : Owes(s, d) => Owes(t, d)) /\ (Counted(s) => Counted(t))
<1>1. Held(t)
  BY DEF SameCount, Held
<1>2. \A d : Owes(s, d) => Owes(t, d)
  BY DEF SameCount, Owes, StartsTo, CrashesTo
<1>3. Running(t) = Running(s)
  BY DEF SameCount, Running
<1> QED BY <1>1, <1>2, <1>3 DEF Counted

LEMMA StartingHeld ==
  ASSUME NEW s, Sound(s), Held(s), ~ s.tripped, NEW d \in 0..1, Owes(s, d), Stable > 0
  PROVE  LET t == Starting(s)
         IN  /\ Held(t) /\ Owes(t, d + 1) /\ t.job # 0
             /\ t.history.starts = Append(s.history.starts, 0)
<1> DEFINE t == Starting(s)
<1>1. /\ t.generation = s.generation + 1 /\ t.job = s.generation + 1
      /\ t.proc = Append(s.proc, "run") /\ t.uptime = 0 /\ t.crashes = s.crashes
      /\ t.tripped = s.tripped
  BY DEF Sound, IsState, Fields, Starting
<1>2. t.history.starts = Append(s.history.starts, 0)
  BY DEF Sound, IsState, Fields, HistoryFields, Starting
<1> HIDE DEF t
<1>3. s.generation \in Nat /\ s.proc \in [1..s.generation -> {"run", "dead", "gone"}]
  BY DEF Sound, Typed
<1>4. t.proc[t.generation] = "run" /\ t.job # 0
  BY <1>1, <1>3, AppendProc
<1>5. t.history.starts \in Seq(Nat) /\ t.history.starts \in Seq(0..Window)
  BY HeldCounts, <1>2, AppendProperties DEF Held
<1>6. ~ (t.uptime >= Stable)
  BY <1>1, HeldCounts
<1>7. Held(t)
  BY <1>1, <1>4, <1>5, <1>6 DEF Held
<1>8. ASSUME NEW a \in 0..Window
      PROVE  StartsTo(t, a) <= 2 * CrashesTo(t, a) + (d + 1)
  <2>1. a \in Nat
    BY HeldCounts
  <2>2. StartsTo(t, a) = StartsTo(s, a) + 1
    BY <1>2, <2>1, NewCount DEF Held, StartsTo
  <2>3. CrashesTo(t, a) = CrashesTo(s, a)
    BY <1>1 DEF CrashesTo
  <2>4. StartsTo(s, a) <= 2 * CrashesTo(s, a) + d
    BY DEF Owes
  <2>5. StartsTo(s, a) \in Nat /\ CrashesTo(s, a) \in Nat
    BY HeldCounts
  <2> QED BY <2>2, <2>3, <2>4, <2>5
<1> QED BY <1>2, <1>4, <1>7, <1>8 DEF t, Owes

LEMMA FailingHeld ==
  ASSUME NEW s, Sound(s), Held(s), NEW d, Owes(s, d)
  PROVE  LET t == Failing(s)
         IN  /\ Held(t) /\ Owes(t, d) /\ t.job = 0
             /\ t.history.starts = s.history.starts
<1> DEFINE t == Failing(s)
<1>1. /\ t.generation = s.generation + 1 /\ t.job = 0
      /\ t.proc = Append(s.proc, "gone") /\ t.crashes = s.crashes
      /\ t.tripped = s.tripped /\ t.history = s.history
  BY DEF Sound, IsState, Fields, Failing
<1> HIDE DEF t
<1>2. s.generation \in Nat /\ s.proc \in [1..s.generation -> {"run", "dead", "gone"}]
  BY DEF Sound, Typed
<1>3. t.proc[t.generation] = "gone"
  BY <1>1, <1>2, AppendProc
<1>4. Held(t)
  BY <1>1, <1>3 DEF Held
<1>5. Owes(t, d)
  BY <1>1 DEF Owes, StartsTo, CrashesTo
<1> QED BY <1>1, <1>4, <1>5 DEF t

\* `t` has the starts of `s`, or one more.
OneStart(s, t) == t.history.starts \in {s.history.starts, Append(s.history.starts, 0)}

LEMMA StartIfAllowedHeld ==
  ASSUME NEW s, Sound(s), Held(s), NEW d \in 0..1, Owes(s, d), Stable > 0, NEW start
  PROVE  LET t == StartIfAllowed(s, start)
         IN  Held(t) /\ Owes(t, d + Running(t)) /\ OneStart(s, t)
<1> DEFINE t == StartIfAllowed(s, start)
<1>1. CASE t = s
  BY OwesMore, <1>1 DEF Running, OneStart
<1>2. CASE t = Failing(s)
  BY <1>2, FailingHeld DEF Running, OneStart
<1>3. CASE ~ s.tripped /\ t = Starting(s)
  BY <1>3, StartingHeld DEF Running, OneStart
<1> QED BY <1>1, <1>2, <1>3 DEF StartIfAllowed

LEMMA WrittenSame ==
  ASSUME NEW s, Sound(s), NEW id
  PROVE  SameCount(s, Written(Numbered(s), id))
BY DEF Sound, IsState, Fields, HistoryFields, Written, Numbered, SameCount

LEMMA AskFromExitHeld ==
  ASSUME NEW s, Sound(s), Held(s), Owes(s, 1), AtOnce, Stable > 0, NEW luck \in Luck
  PROVE  LET t == AskFromExit(s, luck)
         IN  Held(t) /\ Owes(t, 2) /\ OneStart(s, t)
<1> DEFINE e == StartIfAllowed(s, luck.restart)
           t == Written(Numbered(e), e.nextId + 1)
<1>1. Held(e) /\ Owes(e, 1 + Running(e)) /\ OneStart(s, e)
  BY StartIfAllowedHeld
<1>2. Sound(e)
  BY StartIfAllowedSpec DEF NoneRuns, Luck
<1> HIDE DEF e
<1>3. Owes(e, 2)
  BY <1>1, OwesMore DEF Running
<1>4. SameCount(e, t)
  BY <1>2, WrittenSame
<1>5. Held(t) /\ Owes(t, 2) /\ OneStart(s, t)
  BY <1>1, <1>3, <1>4, SameCounted DEF SameCount, OneStart
<1>6. Owes(s, 2) /\ OneStart(s, s)
  BY OwesMore DEF OneStart
<1> QED BY <1>1, <1>3, <1>5, <1>6 DEF AskFromExit, e

LEMMA ClearPendingHeld ==
  ASSUME NEW s, Sound(s), Held(s), Owes(s, 1), AtOnce, Stable > 0, NEW luck \in Luck
  PROVE  LET t == ClearPending(s, luck)
         IN  Sound(t) /\ Held(t) /\ Owes(t, 2) /\ OneStart(s, t)
<1> DEFINE told == Tell([s EXCEPT !.pending = << >>], DOMAIN s.pending)
<1>1. SameCount(s, told)
  BY DEF Sound, IsState, Fields, HistoryFields, Tell, SameCount
<1>2. Sound(told)
  <2>1. << >> \in [DOMAIN << >> -> BOOLEAN] /\ DOMAIN << >> = {}
    OBVIOUS
  <2> QED BY <2>1, SettleSpec
<1> HIDE DEF told
<1>3. Held(told) /\ Owes(told, 1) /\ told.history.starts = s.history.starts
  BY <1>1, SameCounted DEF SameCount
<1>4. LET t == AskFromExit(told, luck) IN Held(t) /\ Owes(t, 2) /\ OneStart(s, t)
  BY <1>2, <1>3, AskFromExitHeld DEF OneStart
<1>5. Owes(told, 2) /\ OneStart(s, told)
  BY <1>3, OwesMore DEF OneStart
<1>6. Sound(ClearPending(s, luck))
  BY ClearPendingSpec DEF NoneRuns
<1> QED BY <1>3, <1>4, <1>5, <1>6 DEF ClearPending, told

\* A crash that is counted pays for two starts, and leaves nothing to be paid.
LEMMA NoteCrashHeld ==
  ASSUME NEW s, Sound(s), Held(s), Owes(s, 2)
  PROVE  LET t == NoteCrash(s) IN Held(t) /\ Owes(t, 0)
<1> DEFINE t == NoteCrash(s)
           recent == Append(Recent(s.crashes), 0)
<1>1. \/ Len(recent) <= MaxRestarts /\ t = [s EXCEPT !.crashes = recent, !.restartTimer = TRUE]
      \/ t = [s EXCEPT !.crashes = recent, !.tripped = TRUE]
  BY DEF NoteCrash
<1>2. recent \in Seq(Nat) /\ \A a \in 0..Window : Cardinality(Upto(recent, a)) = CrashesTo(s, a) + 1
  <2>1. /\ Recent(s.crashes) \in Seq(Nat)
        /\ \A a \in 0..Window : Cardinality(Upto(Recent(s.crashes), a)) = CrashesTo(s, a)
    BY RecentCount DEF Held, CrashesTo
  <2>2. \A a \in 0..Window : a \in Nat
    BY HeldCounts
  <2> QED BY <2>1, <2>2, NewCount
<1> HIDE DEF recent, t
<1>3. /\ t.generation = s.generation /\ t.job = s.job /\ t.proc = s.proc /\ t.uptime = s.uptime
      /\ t.history = s.history /\ t.crashes = recent
      /\ \/ t.tripped = s.tripped /\ Len(recent) <= MaxRestarts
         \/ t.tripped = TRUE
  BY <1>1 DEF Sound, IsState, Fields
<1>4. t.tripped => Len(t.history.starts) <= 2 * MaxRestarts + 2
  <2>1. CASE s.tripped
    BY <1>3, <2>1 DEF Held
  <2>2. CASE ~ s.tripped
    <3>1. StartsTo(s, Window) <= 2 * CrashesTo(s, Window) + 2
      BY <2>2, HeldCounts DEF Owes
    <3>2. CrashesTo(s, Window) <= MaxRestarts /\ CrashesTo(s, Window) \in Nat
      BY <2>2, HeldCounts DEF Held
    <3> QED BY <1>3, <3>1, <3>2, HeldCounts
  <2> QED BY <2>1, <2>2
<1>5. Held(t)
  BY <1>3, <1>2, <1>4 DEF Held
<1>6. Owes(t, 0)
  <2> SUFFICES ASSUME ~ t.tripped, NEW a \in 0..Window
               PROVE  StartsTo(t, a) <= 2 * CrashesTo(t, a) + 0
    BY DEF Owes
  <2>1. StartsTo(s, a) <= 2 * CrashesTo(s, a) + 2
    BY <1>3 DEF Owes
  <2>2. StartsTo(t, a) = StartsTo(s, a) /\ CrashesTo(t, a) = CrashesTo(s, a) + 1
    BY <1>2, <1>3 DEF StartsTo, CrashesTo
  <2> QED BY <2>1, <2>2, HeldCounts
<1> QED BY <1>5, <1>6 DEF t

LEMMA ResetHeld ==
  ASSUME NEW s, Sound(s), Held(s), NEW d \in Nat, Len(s.history.starts) <= d
  PROVE  LET t == ResetBackoff(s) IN Held(t) /\ Owes(t, d)
<1> DEFINE t == ResetBackoff(s)
<1>1. /\ t.generation = s.generation /\ t.job = s.job /\ t.proc = s.proc /\ t.uptime = s.uptime
      /\ t.history = s.history /\ t.crashes = << >> /\ t.tripped = FALSE
  BY DEF Sound, IsState, Fields, ResetBackoff
<1> HIDE DEF t
<1>2. Held(t)
  BY <1>1, NoneCount, HeldCounts DEF Held
<1>3. ASSUME NEW a \in 0..Window
      PROVE  StartsTo(t, a) <= 2 * CrashesTo(t, a) + d
  <2>1. CrashesTo(t, a) = 0
    BY <1>1, NoneCount DEF CrashesTo
  <2>2. StartsTo(t, a) <= Len(s.history.starts) /\ StartsTo(t, a) \in Nat
    <3>1. a \in Nat /\ s.history.starts \in Seq(Nat)
      BY HeldCounts DEF Held
    <3> QED BY <1>1, <3>1, UptoCount DEF StartsTo
  <2> QED BY <2>1, <2>2, HeldCounts
<1> QED BY <1>2, <1>3 DEF t, Owes

LEMMA ByHandHeld ==
  ASSUME NEW s, Sound(s), Held(s)
  PROVE  Held(ByHand(s)) /\ Owes(ByHand(s), 0) /\ ByHand(s).history.starts = << >>
<1> DEFINE t == ByHand(s)
<1>1. /\ t.generation = s.generation /\ t.job = s.job /\ t.proc = s.proc /\ t.uptime = s.uptime
      /\ t.history.starts = << >> /\ t.crashes = s.crashes /\ t.tripped = s.tripped
  BY DEF Sound, IsState, Fields, HistoryFields, ByHand
<1> HIDE DEF t
<1>2. Held(t)
  BY <1>1, NoneCount, HeldCounts DEF Held
<1>3. \A a \in 0..Window : StartsTo(t, a) = 0
  BY <1>1, NoneCount DEF StartsTo
<1> QED BY <1>1, <1>2, <1>3, HeldCounts DEF t, Owes

-----------------------------------------------------------------------------
(* The functions that start processes, and those that end up in them.      *)

LEMMA OwesNothing == ASSUME NEW s, Held(s), Owes(s, 0) PROVE Counted(s)
<1>1. Running(s) \in Nat /\ 0 <= Running(s)
  BY DEF Running
<1> QED BY <1>1, OwesMore DEF Counted

LEMMA TellSame ==
  ASSUME NEW s, Sound(s), NEW p, NEW ids
  PROVE  SameCount(s, Tell([s EXCEPT !.pending = p], ids))
BY DEF Sound, IsState, Fields, HistoryFields, Tell, SameCount

\* The start that ran is owed to the crash that is counted, a callback's with it; a
\* daemon that was told to stop takes its starts with it.
LEMMA OnExitHeld ==
  ASSUME NEW s, Sound(s), Counted(s), s.job # 0, AtOnce, Stable > 0, NEW luck \in Luck
  PROVE  LET t == OnExit(s, luck) IN Held(t) /\ Owes(t, 0)
<1> DEFINE over == [s EXCEPT !.job = 0, !.ready = FALSE, !.handshake = 0, !.stopping = FALSE,
                             !.killTimer = 0, !.proc[s.job] = "gone"]
           told == ClearPending(over, luck)
           t    == OnExit(s, luck)
<1>1. Held(over) /\ Owes(over, 1) /\ over.history = s.history
  <2>1. /\ over.job = 0 /\ over.proc = [s.proc EXCEPT ![s.job] = "gone"]
        /\ over.generation = s.generation /\ over.history = s.history
        /\ over.crashes = s.crashes /\ over.tripped = s.tripped
    BY DEF Sound, IsState, Fields
  <2> HIDE DEF over
  <2>2. s.job = s.generation /\ s.proc \in [1..s.generation -> {"run", "dead", "gone"}]
    BY DEF Sound, Typed
  <2>3. s.generation \in 1..s.generation
    BY <2>2 DEF Sound, Typed
  <2>4. over.proc[over.generation] = "gone"
    BY <2>1, <2>2, <2>3
  <2>5. Held(s) /\ Owes(s, 1)
    BY DEF Counted, Running
  <2>6. Held(over)
    BY <2>1, <2>4, <2>5 DEF Held
  <2>7. Owes(over, 1)
    BY <2>1, <2>5 DEF Owes, StartsTo, CrashesTo
  <2> QED BY <2>1, <2>6, <2>7
<1>2. Sound(over)
  BY OverSpec
<1> HIDE DEF over
<1>3. Sound(told) /\ Held(told) /\ Owes(told, 2) /\ OneStart(s, told)
  BY <1>1, <1>2, ClearPendingHeld DEF OneStart
<1> HIDE DEF told
<1>4. LET r == ResetBackoff(ByHand(told)) IN Held(r) /\ Owes(r, 0)
  <2>1. /\ Sound(ByHand(told)) /\ Held(ByHand(told))
        /\ Len(ByHand(told).history.starts) = 0
    BY <1>3, ByHandSpec, ByHandHeld, NoneCount
  <2> QED BY <2>1, ResetHeld
<1>5. s.uptime >= Stable => LET r == NoteCrash(ResetBackoff(told)) IN Held(r) /\ Owes(r, 0)
  <2> SUFFICES ASSUME s.uptime >= Stable
               PROVE  LET r == NoteCrash(ResetBackoff(told)) IN Held(r) /\ Owes(r, 0)
    OBVIOUS
  <2>1. s.history.starts = << >>
    BY DEF Counted, Held
  <2>2. Len(told.history.starts) <= 1
    <3>1. Len(Append(<< >>, 0)) = 1
      BY NoneCount, NewCount, BreakerAssumption
    <3>2. \/ told.history.starts = << >>
          \/ told.history.starts = Append(<< >>, 0)
      BY <1>1, <1>3, <2>1 DEF OneStart
    <3>3. CASE told.history.starts = << >>
      BY <3>3, NoneCount
    <3>4. CASE told.history.starts = Append(<< >>, 0)
      BY <3>1, <3>4
    <3> QED BY <3>2, <3>3, <3>4
  <2>3. Held(ResetBackoff(told)) /\ Owes(ResetBackoff(told), 1)
    BY <1>3, <2>2, ResetHeld
  <2>4. Owes(ResetBackoff(told), 2) /\ Sound(ResetBackoff(told))
    BY <1>3, <2>3, OwesMore, ResetBackoffSpec
  <2> QED BY <2>3, <2>4, NoteCrashHeld
<1>6. LET r == NoteCrash(told) IN Held(r) /\ Owes(r, 0)
  BY <1>3, NoteCrashHeld
<1>7. t = IF s.stopping THEN ResetBackoff(ByHand(told))
          ELSE NoteCrash(IF s.uptime >= Stable THEN ResetBackoff(told) ELSE told)
  BY DEF OnExit, told, over
<1> QED BY <1>4, <1>5, <1>6, <1>7

LEMMA LookHeld ==
  ASSUME NEW s, Sound(s), Counted(s), AtOnce, Stable > 0, NEW luck \in Luck
  PROVE  LET t == Look(s, luck)
         IN  Counted(t) /\ (~ IsRunning(s) => Held(t) /\ Owes(t, 0))
<1>1. CASE s.job # 0 /\ s.proc[s.job] = "dead"
  BY <1>1, OnExitHeld, OwesNothing DEF Look
<1>2. CASE ~ (s.job # 0 /\ s.proc[s.job] = "dead")
  <2>1. Look(s, luck) = s
    BY <1>2 DEF Look
  <2>2. ~ IsRunning(s) => s.job = 0
    <3> SUFFICES ASSUME s.job # 0, s.proc[s.job] # "run" PROVE FALSE
      BY DEF IsRunning
    <3>1. s.job = s.generation /\ s.proc \in [1..s.generation -> {"run", "dead", "gone"}]
      BY DEF Sound, Typed
    <3>2. s.generation \in 1..s.generation /\ s.generation # 0
      BY <3>1 DEF Sound, Typed
    <3>3. s.proc[s.generation] = "gone"
      BY <1>2, <3>1, <3>2
    <3> QED BY <3>2, <3>3 DEF Counted, Held
  <2> QED BY <2>1, <2>2 DEF Counted, Running
<1> QED BY <1>1, <1>2

LEMMA EnsureHeld ==
  ASSUME NEW s, Sound(s), Counted(s), AtOnce, Stable > 0, NEW luck \in Luck
  PROVE  Counted(Ensure(s, luck)) /\ Counted(EnsureUnlessRunning(s, luck))
<1>1. ASSUME NEW r, Sound(r), Counted(r)
      PROVE  Counted(Ensure(r, luck))
  BY <1>1, LookSpec, LookHeld, StartIfAllowedHeld DEF Ensure, Running, Counted
<1>2. Sound(Look(s, luck)) /\ Counted(Look(s, luck))
  BY LookSpec, LookHeld
<1> QED BY <1>1, <1>2 DEF EnsureUnlessRunning

\* A process that dies is one whose exit has not been reported.
LEMMA DeadHeld ==
  ASSUME NEW s, Sound(s), Counted(s), NEW gen, gen = s.generation => s.job # 0
  PROVE  Counted(Dead(s, gen))
<1> DEFINE t == Dead(s, gen)
<1>1. /\ t.proc = [s.proc EXCEPT ![gen] = "dead"]
      /\ t.generation = s.generation /\ t.job = s.job /\ t.uptime = s.uptime
      /\ t.crashes = s.crashes /\ t.tripped = s.tripped /\ t.history = s.history
  BY DEF Sound, IsState, Fields, Dead
<1> HIDE DEF t
<1>2. t.generation # 0 => (t.proc[t.generation] = "gone" <=> t.job = 0)
  <2> SUFFICES ASSUME s.generation # 0
               PROVE  t.proc[s.generation] = "gone" <=> s.job = 0
    BY <1>1
  <2>1. s.generation \in 1..s.generation
    BY DEF Sound, Typed
  <2>2. s.proc \in [1..s.generation -> {"run", "dead", "gone"}]
    BY DEF Sound, Typed
  <2>3. s.proc[s.generation] = "gone" <=> s.job = 0
    BY DEF Counted, Held
  <2> QED BY <1>1, <2>1, <2>2, <2>3
<1>3. Held(t)
  BY <1>1, <1>2 DEF Counted, Held
<1>4. Owes(t, Running(t))
  BY <1>1 DEF Counted, Owes, StartsTo, CrashesTo, Running
<1> QED BY <1>3, <1>4 DEF t, Counted

LEMMA RequestHeld ==
  ASSUME NEW s, Sound(s), Counted(s), s.job # 0, AtOnce, Stable > 0, NEW luck \in Luck
  PROVE  Counted(Request(s, luck))
<1> DEFINE id    == s.nextId + 1
           entry == [Numbered(s) EXCEPT !.pending = With(s.pending, id, TRUE)]
           dead  == Dead(entry, s.job)
           after == Look(dead, luck)
           told  == Tell([after EXCEPT !.pending = Without(after.pending, {id})], {id})
<1>1. Sound(entry)
  BY EntrySpec
<1>2. SameCount(s, entry)
  BY DEF Sound, IsState, Fields, HistoryFields, Numbered, SameCount
<1> HIDE DEF entry
<1>3. Counted(entry) /\ entry.job # 0
  BY <1>2, SameCounted DEF SameCount, Counted
<1>4. Sound(dead) /\ Counted(dead)
  BY <1>1, <1>3, DeadSpec, DeadHeld
<1> HIDE DEF dead
<1>5. Sound(after) /\ Counted(after)
  BY <1>4, LookSpec, LookHeld
<1> HIDE DEF after
<1>6. Counted(told)
  BY <1>5, TellSame, SameCounted DEF Counted
<1>7. Counted(Written(Numbered(s), id))
  BY WrittenSame, SameCounted DEF Counted
<1> QED BY <1>5, <1>6, <1>7 DEF Request, after, dead, entry

LEMMA AskHeld ==
  ASSUME NEW s, Sound(s), Counted(s), AtOnce, Stable > 0, NEW luck \in Luck
  PROVE  Counted(Ask(s, luck))
<1>1. /\ Sound(Ensure(s, luck)) /\ Counted(Ensure(s, luck))
      /\ Ensures(s, luck) => Ensure(s, luck).job # 0
  BY EnsureSpec, EnsureHeld
<1> QED BY <1>1, RequestHeld DEF Ask

LEMMA ResolvePendingHeld ==
  ASSUME NEW s, Sound(s), Counted(s), AtOnce, Stable > 0,
         NEW id \in DOMAIN s.pending, NEW asks \in BOOLEAN, NEW luck \in Luck
  PROVE  Counted(ResolvePending(s, id, asks, luck))
<1> DEFINE p    == Without(s.pending, {id})
           told == Tell([s EXCEPT !.pending = p], {id})
<1>1. s.pending \in [DOMAIN s.pending -> BOOLEAN]
  BY DEF Sound, Typed
<1>2. DOMAIN p = DOMAIN s.pending \ {id} /\ p \in [DOMAIN p -> BOOLEAN]
  BY <1>1, WithoutDomain
<1> HIDE DEF p
<1>3. Sound(told) /\ Counted(told)
  BY <1>2, SettleSpec, TellSame, SameCounted DEF Counted
<1> HIDE DEF told
<1> QED BY <1>3, AskHeld DEF ResolvePending, told, p

LEMMA StopHeld ==
  ASSUME NEW s, Sound(s), Counted(s)
  PROVE  Counted(Stop(s))
<1> DEFINE quiet == [s EXCEPT !.restartTimer = FALSE]
           told  == Tell([quiet EXCEPT !.pending = << >>], DOMAIN quiet.pending)
<1>1. Sound(quiet) /\ SameCount(s, quiet)
  BY QuietSpec DEF Sound, IsState, Fields, SameCount
<1>2. Counted(told)
  <2> HIDE DEF quiet
  <2>1. Counted(quiet)
    BY <1>1, SameCounted DEF Counted
  <2> QED BY <1>1, <2>1, TellSame, SameCounted DEF Counted
<1>3. ClearPending(quiet, Fine) = told
  BY DEF ClearPending, AskFromExit, Fine
<1>4. CASE s.job # 0
  BY <1>4, SameCounted DEF Sound, IsState, Fields, Stop, SameCount, Counted
<1> QED BY <1>2, <1>3, <1>4 DEF Stop

-----------------------------------------------------------------------------
(* Every step keeps the count.                                             *)

LEMMA FunctionCounted ==
  ASSUME NEW t, Sound(t), Counted(t), Becomes(t)
  PROVE  Counted(Now)'
<1>1. Now' = t
  BY BecomesIs DEF Sound
<1>2. Counted(Now')
  BY <1>1
<1> QED BY <1>2

LEMMA SameNowCounted ==
  ASSUME Counted(Now), SameCount(Now, Now')
  PROVE  Counted(Now)'
<1> DEFINE s == Now'
<1>1. SameCount(Now, s)
  OBVIOUS
<1> HIDE DEF s
<1>2. Counted(s)
  BY <1>1, SameCounted DEF Counted
<1> QED BY <1>2 DEF s

LEMMA UserAsksCounted ==
  ASSUME Inv, Counted(Now), AtOnce, Stable > 0, UserAsks
  PROVE  Counted(Now)'
<1>1. PICK luck \in Looking : Becomes(Ask(ByHand(Now), luck))
  BY DEF UserAsks
<1>2. Sound(ByHand(Now)) /\ Counted(ByHand(Now))
  BY NowSound, ByHandSpec, ByHandHeld, OwesNothing DEF Counted
<1>3. Sound(Ask(ByHand(Now), luck)) /\ Counted(Ask(ByHand(Now), luck))
  BY <1>2, AskSpec, AskHeld, LookingIsLuck
<1> QED BY <1>1, <1>3, FunctionCounted

LEMMA RestartCounted ==
  ASSUME Inv, Counted(Now), AtOnce, Stable > 0, Restart
  PROVE  Counted(Now)'
<1> DEFINE w == [Now EXCEPT !.history.wanted = generation + 1]
           s == ResetBackoff(ByHand(w))
<1>1. Sound(w) /\ Held(w)
  <2>1. SameCount(Now, w)
    BY NowSound DEF Sound, IsState, Fields, HistoryFields, SameCount
  <2> QED BY <2>1, NowSound, ByHandSpec, SameCounted DEF Counted
<1> HIDE DEF w
<1>2. /\ Sound(ByHand(w)) /\ Held(ByHand(w)) /\ Len(ByHand(w).history.starts) = 0
  BY <1>1, ByHandSpec, ByHandHeld, NoneCount
<1>3. Sound(s) /\ Counted(s)
  BY <1>2, ResetBackoffSpec, ResetHeld, OwesNothing
<1> HIDE DEF s
<1>4. PICK luck \in Looking :
        IF IsRunning(Now) THEN Becomes(Stop(s)) ELSE Becomes(EnsureUnlessRunning(s, luck))
  BY DEF Restart, s, w
<1>5. /\ Sound(Stop(s)) /\ Counted(Stop(s))
      /\ Sound(EnsureUnlessRunning(s, luck)) /\ Counted(EnsureUnlessRunning(s, luck))
  BY <1>3, StopSpec, StopHeld, EnsureUnlessRunningSpec, EnsureHeld, LookingIsLuck
<1> QED BY <1>4, <1>5, FunctionCounted

LEMMA UserStopsCounted ==
  ASSUME Inv, Counted(Now), UserStops
  PROVE  Counted(Now)'
<1>1. Sound(ByHand(Now)) /\ Counted(ByHand(Now))
  BY NowSound, ByHandSpec, ByHandHeld, OwesNothing DEF Counted
<1>2. Sound(Stop(ByHand(Now))) /\ Counted(Stop(ByHand(Now)))
  BY <1>1, StopSpec, StopHeld
<1>3. Becomes(Stop(ByHand(Now)))
  BY DEF UserStops
<1> QED BY <1>2, <1>3, FunctionCounted

LEMMA TimerCounted ==
  ASSUME Inv, Counted(Now), AtOnce, Stable > 0, RestartTimerFires \/ HopFires
  PROVE  Counted(Now)'
<1> DEFINE s == [Now EXCEPT !.restartTimer = FALSE]
<1>1. Sound(s) /\ Counted(s)
  BY NowSound, QuietSpec, SameCounted DEF Sound, IsState, Fields, SameCount, Counted
<1>2. PICK luck \in Looking :
        \/ Becomes(EnsureUnlessRunning(s, luck))
        \/ Becomes(EnsureUnlessRunning(Now, luck))
  BY DEF RestartTimerFires, HopFires
<1> HIDE DEF s
<1>3. /\ Sound(EnsureUnlessRunning(s, luck)) /\ Counted(EnsureUnlessRunning(s, luck))
      /\ Sound(EnsureUnlessRunning(Now, luck)) /\ Counted(EnsureUnlessRunning(Now, luck))
  BY <1>1, NowSound, EnsureUnlessRunningSpec, EnsureHeld, LookingIsLuck
<1> QED BY <1>2, <1>3, FunctionCounted

LEMMA KillTimerFiresCounted ==
  ASSUME Inv, Counted(Now), AtOnce, Stable > 0, KillTimerFires
  PROVE  Counted(Now)'
<1> DEFINE over == [Now EXCEPT !.killTimer = 0]
<1>1. Sound(over) /\ Counted(over)
  BY NowSound, KillOverSpec, SameCounted DEF Sound, IsState, Fields, SameCount, Counted
<1>2. PICK luck \in Looking :
        Becomes(IF killTimer = generation THEN Look(over, luck) ELSE over)
  BY DEF KillTimerFires
<1> HIDE DEF over
<1>3. Sound(Look(over, luck)) /\ Counted(Look(over, luck))
  BY <1>1, LookSpec, LookHeld, LookingIsLuck
<1> QED BY <1>1, <1>2, <1>3, FunctionCounted

LEMMA ExpireRequestCounted ==
  ASSUME Inv, Counted(Now), AtOnce, Stable > 0, NEW id \in DOMAIN pending, ExpireRequest(id)
  PROVE  Counted(Now)'
<1>1. PICK asks \in BOOLEAN, luck \in Looking : Becomes(ResolvePending(Now, id, asks, luck))
  BY DEF ExpireRequest
<1>2. id \in DOMAIN Now.pending
  BY DEF Now
<1>3. /\ Sound(ResolvePending(Now, id, asks, luck))
      /\ Counted(ResolvePending(Now, id, asks, luck))
  BY <1>2, NowSound, ResolvePendingSpec, ResolvePendingHeld, LookingIsLuck
<1> QED BY <1>1, <1>3, FunctionCounted

LEMMA DispatchCounted ==
  ASSUME Inv, Counted(Now), AtOnce, Stable > 0, NEW reply \in out, Dispatch(reply)
  PROVE  Counted(Now)'
<1>1. CASE reply.gen # generation \/ stopping
  BY <1>1 DEF Dispatch, Now, table, policy, processes
<1>2. CASE ~ (reply.gen # generation \/ stopping)
  <2> DEFINE greeted == [Now EXCEPT !.ready = TRUE, !.handshake = 0,
                                    !.history.greetedBy = reply.gen]
  <2>1. Sound(greeted) /\ Counted(greeted)
    <3>1. Now.generation = reply.gen
      BY <1>2 DEF Now
    <3>2. Sound(greeted)
      BY <3>1, NowSound, GreetedSpec
    <3>3. SameCount(Now, greeted)
      BY NowSound DEF Sound, IsState, Fields, HistoryFields, SameCount
    <3> QED BY <3>2, <3>3, SameCounted DEF Counted
  <2> HIDE DEF greeted
  <2>2. PICK asks \in BOOLEAN, luck \in Looking :
          IF reply.id = handshake
          THEN Becomes(IF asks THEN Ask(greeted, luck) ELSE greeted)
          ELSE IF reply.id \in DOMAIN pending
          THEN Becomes(ResolvePending(Now, reply.id, asks, luck))
          ELSE ~ asks /\ Becomes(Now)
    BY <1>2 DEF Dispatch, greeted
  <2>3. Sound(Ask(greeted, luck)) /\ Counted(Ask(greeted, luck))
    BY <2>1, AskSpec, AskHeld, LookingIsLuck
  <2>4. reply.id \in DOMAIN pending =>
          /\ Sound(ResolvePending(Now, reply.id, asks, luck))
          /\ Counted(ResolvePending(Now, reply.id, asks, luck))
    BY NowSound, ResolvePendingSpec, ResolvePendingHeld, LookingIsLuck DEF Now
  <2> QED BY <2>1, <2>2, <2>3, <2>4, NowSound, FunctionCounted
<1> QED BY <1>1, <1>2

LEMMA ProcessExitsCounted ==
  ASSUME Inv, Counted(Now), AtOnce, Stable > 0, NEW gen \in 1..generation, ProcessExits(gen)
  PROVE  Counted(Now)'
<1>1. PICK luck \in Luck :
        IF gen = generation THEN Becomes(OnExit(Now, luck))
        ELSE Becomes([Now EXCEPT !.proc[gen] = "gone"])
  BY DEF ProcessExits
<1>2. gen = generation => /\ Sound(OnExit(Now, luck)) /\ Counted(OnExit(Now, luck))
  <2> SUFFICES ASSUME gen = generation
               PROVE  Sound(OnExit(Now, luck)) /\ Counted(OnExit(Now, luck))
    OBVIOUS
  <2>1. Now.proc[Now.generation] = "dead" /\ Now.generation # 0
    BY NowSound DEF ProcessExits, Now, Sound, Typed
  <2>2. Now.job # 0
    BY <2>1 DEF Counted, Held
  <2> QED BY <2>2, NowSound, OnExitSpec, OnExitHeld, OwesNothing
<1>3. gen # generation =>
        LET t == [Now EXCEPT !.proc[gen] = "gone"] IN Sound(t) /\ Counted(t)
  <2> SUFFICES ASSUME gen # generation
               PROVE  LET t == [Now EXCEPT !.proc[gen] = "gone"] IN Sound(t) /\ Counted(t)
    OBVIOUS
  <2> DEFINE t == [Now EXCEPT !.proc[gen] = "gone"]
  <2>1. Sound(t)
    BY NowSound, GoneSpec
  <2>2. /\ t.proc = [Now.proc EXCEPT ![gen] = "gone"]
        /\ t.generation = Now.generation /\ t.job = Now.job /\ t.uptime = Now.uptime
        /\ t.crashes = Now.crashes /\ t.tripped = Now.tripped /\ t.history = Now.history
        /\ Now.generation = generation
    BY NowSound DEF Sound, IsState, Fields, Now
  <2> HIDE DEF t
  <2>3. t.generation # 0 => t.proc[t.generation] = Now.proc[Now.generation]
    BY <2>2, NowSound DEF Sound, Typed
  <2>4. Held(t)
    BY <2>2, <2>3 DEF Counted, Held
  <2>5. Owes(t, Running(t))
    BY <2>2 DEF Counted, Owes, StartsTo, CrashesTo, Running
  <2> QED BY <2>1, <2>4, <2>5 DEF t, Counted
<1> QED BY <1>1, <1>2, <1>3, FunctionCounted

LEMMA DiesCounted ==
  ASSUME Inv, Counted(Now), NEW gen \in 1..generation, Dies(gen) \/ IsKilled(gen)
  PROVE  Counted(Now)'
<1>1. Becomes(Dead(Now, gen)) /\ proc[gen] = "run"
  BY DEF Dies, IsKilled
<1>2. gen = Now.generation => Now.job # 0
  <2> SUFFICES ASSUME gen = Now.generation PROVE Now.job # 0
    OBVIOUS
  <2>1. Now.proc[Now.generation] = "run" /\ Now.generation # 0
    BY <1>1, NowSound DEF Now, Sound, Typed
  <2> QED BY <2>1 DEF Counted, Held
<1>3. Sound(Dead(Now, gen)) /\ Counted(Dead(Now, gen))
  BY <1>2, NowSound, DeadSpec, DeadHeld
<1> QED BY <1>1, <1>3, FunctionCounted

LEMMA OthersCounted ==
  ASSUME Inv, Counted(Now),
         \/ \E id \in DOMAIN pending : Cancel(id)
         \/ \E w \in wire : Answers(w)
         \/ UNCHANGED vars
  PROVE  Counted(Now)'
<1>1. SameCount(Now, Now')
  <2>1. CASE \E id \in DOMAIN pending : Cancel(id)
    <3>1. PICK id \in DOMAIN pending : Cancel(id)
      BY <2>1
    <3>2. history'.starts = history.starts
      BY NowSound, <3>1 DEF Sound, IsState, Now, Cancel, HistoryFields
    <3> QED BY <3>1, <3>2 DEF Cancel, SameCount, Now, policy, processes
  <2>2. CASE \E w \in wire : Answers(w)
    BY <2>2 DEF Answers, SameCount, Now, policy
  <2>3. CASE UNCHANGED vars
    BY <2>3 DEF vars, SameCount, Now, policy, processes
  <2> QED BY <2>1, <2>2, <2>3
<1> QED BY <1>1, SameNowCounted

\* Time that passes takes from the starts no fewer than from the crashes.
LEMMA OlderOwes ==
  ASSUME NEW s, Held(s), NEW d \in 0..1, Owes(s, d), ~ s.tripped, NEW a \in 0..Window
  PROVE  Cardinality(Upto(Recent(Older(s.history.starts)), a))
           <= 2 * Cardinality(Upto(Older(s.crashes), a)) + d
<1> DEFINE starts  == Older(s.history.starts)
           crashed == Older(s.crashes)
<1>1. /\ s.history.starts \in Seq(Nat) /\ s.crashes \in Seq(Nat)
      /\ Window \in Nat /\ a \in Nat
  BY BreakerAssumption DEF Held
<1>2. /\ starts \in Seq(Nat) /\ Cardinality(Upto(starts, 0)) = 0
      /\ \A b \in 1..Window : Upto(starts, b) = Upto(s.history.starts, b - 1)
  BY <1>1, OlderCount
<1>3. /\ crashed \in Seq(Nat) /\ Cardinality(Upto(crashed, 0)) = 0
      /\ \A b \in 1..Window : Upto(crashed, b) = Upto(s.crashes, b - 1)
  BY <1>1, OlderCount
<1> HIDE DEF starts, crashed
<1>4. Cardinality(Upto(Recent(starts), a)) = Cardinality(Upto(starts, a))
  BY <1>2, RecentCount
<1>5. Cardinality(Upto(starts, a)) <= 2 * Cardinality(Upto(crashed, a)) + d
  BY <1>2, <1>3, <1>1 DEF Owes, StartsTo, CrashesTo
<1> QED BY <1>4, <1>5 DEF starts, crashed

LEMMA TickCounted == ASSUME Inv, Counted(Now), Tick PROVE Counted(Now)'
<1>1. PICK t : t = Now'
  OBVIOUS
<1>2. /\ t.generation = Now.generation /\ t.job = Now.job /\ t.proc = Now.proc
      /\ t.tripped = Now.tripped /\ t.crashes = Older(Now.crashes)
  BY <1>1 DEF Tick, Now
<1>3. t.history.starts = IF t.job # 0 /\ t.uptime >= Stable THEN << >>
                         ELSE Recent(Older(Now.history.starts))
  BY NowSound, <1>1, <1>2 DEF Sound, IsState, Now, Tick, HistoryFields
<1>4. Held(Now) /\ Owes(Now, Running(Now)) /\ Running(t) = Running(Now) /\ Running(Now) \in 0..1
  BY <1>2 DEF Counted, Running
<1>5. /\ Now.crashes \in Seq(Nat) /\ Now.history.starts \in Seq(Nat)
      /\ Older(Now.crashes) \in Seq(Nat) /\ Len(Older(Now.crashes)) = Len(Now.crashes)
      /\ Older(Now.history.starts) \in Seq(Nat)
      /\ Len(Older(Now.history.starts)) = Len(Now.history.starts)
  BY <1>4, OlderCount DEF Held
<1>6. /\ t.history.starts \in Seq(Nat) /\ t.history.starts \in Seq(0..Window)
      /\ Len(t.history.starts) <= Len(Now.history.starts)
  <2>1. CASE t.history.starts = << >>
    BY <1>5, <2>1, NoneCount, LenProperties
  <2>2. CASE t.history.starts = Recent(Older(Now.history.starts))
    BY <1>5, <2>2, RecentCount
  <2> QED BY <1>3, <2>1, <2>2
<1>7. Held(t)
  <2>1. /\ t.job # 0 /\ t.uptime >= Stable => t.history.starts = << >>
        /\ t.generation # 0 => (t.proc[t.generation] = "gone" <=> t.job = 0)
        /\ t.crashes \in Seq(Nat)
    BY <1>2, <1>3, <1>4, <1>5 DEF Held
  <2>2. t.tripped => Len(t.history.starts) <= 2 * MaxRestarts + 2
    <3>1. Now.tripped => Len(Now.history.starts) <= 2 * MaxRestarts + 2
      BY <1>4 DEF Held
    <3>2. /\ Len(t.history.starts) \in Nat /\ Len(Now.history.starts) \in Nat
          /\ MaxRestarts \in Nat
      BY <1>5, <1>6, LenProperties, BreakerAssumption
    <3> QED BY <1>2, <1>6, <3>1, <3>2
  <2>3. ~ t.tripped => Len(t.crashes) <= MaxRestarts
    BY <1>2, <1>4, <1>5 DEF Held
  <2> QED BY <1>6, <2>1, <2>2, <2>3 DEF Held
<1>8. Owes(t, Running(t))
  <2> SUFFICES ASSUME ~ t.tripped, NEW a \in 0..Window
               PROVE  StartsTo(t, a) <= 2 * CrashesTo(t, a) + Running(t)
    BY DEF Owes
  <2>1. Cardinality(Upto(Recent(Older(Now.history.starts)), a))
          <= 2 * CrashesTo(t, a) + Running(t)
    BY <1>2, <1>4, OlderOwes DEF CrashesTo
  <2>2. CASE t.history.starts = << >>
    BY <2>2, NoneCount, <1>4, <1>7, HeldCounts, SMTT(30) DEF StartsTo
  <2>3. CASE t.history.starts = Recent(Older(Now.history.starts))
    BY <2>1, <2>3 DEF StartsTo
  <2> QED BY <1>3, <2>2, <2>3
<1>9. Counted(Now')
  BY <1>1, <1>7, <1>8 DEF Counted
<1> QED BY <1>9

LEMMA CountedInit == Init => Counted(Now)
<1> SUFFICES ASSUME Init PROVE Counted(Now)
  OBVIOUS
<1>1. /\ Now.generation = 0 /\ Now.job = 0 /\ Now.tripped = FALSE
      /\ Now.crashes = << >> /\ Now.history.starts = << >>
  BY DEF Init, Now, Unwritten
<1>2. Held(Now)
  BY <1>1, NoneCount, BreakerAssumption DEF Held
<1>3. \A a \in 0..Window : StartsTo(Now, a) = 0
  BY <1>1, NoneCount DEF StartsTo
<1>4. Owes(Now, 0)
  BY <1>2, <1>3, HeldCounts DEF Owes
<1> QED BY <1>2, <1>4, OwesNothing

LEMMA CountedNext ==
  ASSUME AtOnce, Stable > 0
  PROVE  Inv /\ Counted(Now) /\ [Next]_vars => Counted(Now)'
<1> SUFFICES ASSUME Inv, Counted(Now), [Next]_vars PROVE Counted(Now)'
  OBVIOUS
<1>1. CASE User
  BY <1>1, UserAsksCounted, RestartCounted, UserStopsCounted, OthersCounted DEF User
<1>2. CASE Timers
  BY <1>2, TimerCounted, KillTimerFiresCounted, ExpireRequestCounted DEF Timers
<1>3. CASE Callbacks
  BY <1>3, DispatchCounted, ProcessExitsCounted DEF Callbacks
<1>4. CASE Processes
  BY <1>4, DiesCounted, OthersCounted, TickCounted DEF Processes
<1>5. CASE UNCHANGED vars
  BY <1>5, OthersCounted
<1> QED BY <1>1, <1>2, <1>3, <1>4, <1>5 DEF Next

\* While the breaker is closed no more crashes are counted than it lets pass, and
\* what it opened at is kept while it is open.
LEMMA CountedBounds == ASSUME Counted(Now) PROVE RespawnsBounded
<1>1. Held(Now) /\ Now.history = history /\ Now.tripped = tripped
  BY DEF Counted, Now
<1>2. CASE Now.tripped
  BY <1>1, <1>2 DEF Held, RespawnsBounded
<1>3. CASE ~ Now.tripped
  <2>1. StartsTo(Now, Window) <= 2 * CrashesTo(Now, Window) + Running(Now)
    BY <1>1, <1>3, HeldCounts DEF Counted, Owes
  <2>2. CrashesTo(Now, Window) <= MaxRestarts /\ CrashesTo(Now, Window) \in Nat
    BY <1>1, <1>3, HeldCounts DEF Held
  <2>3. Running(Now) \in 0..1
    BY DEF Running
  <2>4. Len(Now.history.starts) <= 2 * MaxRestarts + 2
    BY <1>1, <2>1, <2>2, <2>3, HeldCounts
  <2> QED BY <1>1, <2>4 DEF RespawnsBounded
<1> QED BY <1>2, <1>3

-----------------------------------------------------------------------------
(* What a run checks on a small instance, for every breaker and budget.    *)

\* The supervisor's variables hold what they are meant to.
THEOREM SupervisorTypeOK == Spec => []TypeOK
<1>1. Inv => TypeOK
  BY InvImplies
<1> QED BY <1>1, InvInit, InvNext, PTL DEF Spec

\* What Ready() says is said of the daemon that runs, through any number of exits,
\* restarts and late answers, whenever exits are reported.
THEOREM SupervisorReadyMeansGreeted == Spec => []ReadyMeansGreeted
<1>1. Inv => ReadyMeansGreeted
  BY InvImplies
<1> QED BY <1>1, InvInit, InvNext, PTL DEF Spec

\* Every call's callback runs once, whatever ends the call, whenever exits are
\* reported, and though callbacks call again.
THEOREM SupervisorCallsBackOnce == Spec => []CalledBackOnce
<1>1. Inv => CalledBackOnce
  BY InvImplies
<1> QED BY <1>1, InvInit, InvNext, PTL DEF Spec

\* Where exits are reported late, two daemons never run, and the one that runs is
\* the one the supervisor has hold of.
THEOREM SupervisorHasOneDaemon == ~ AtOnce /\ Spec => []OneDaemon
<1>1. ~ AtOnce /\ Inv => OneDaemon
  BY InvImplies
<1>2. CASE AtOnce
  BY <1>2
<1>3. CASE ~ AtOnce
  <2>1. Inv => OneDaemon
    BY <1>1, <1>3
  <2> QED BY <2>1, InvInit, InvNext, PTL DEF Spec
<1> QED BY <1>2, <1>3

\* Where exits are reported as soon as they are looked for, and a daemon has to stay
\* up for a while to be forgiven its crashes, the breaker ends every loop of crashes:
\* there are no more starts in a window than two for each crash it lets pass and two.
THEOREM SupervisorRespawnsBounded == AtOnce /\ Stable > 0 /\ Spec => []RespawnsBounded
<1>1. AtOnce /\ Stable > 0 => (Inv /\ Counted(Now) /\ [Next]_vars => Counted(Now)')
  BY CountedNext
<1>2. Counted(Now) => RespawnsBounded
  BY CountedBounds
<1>3. CASE AtOnce /\ Stable > 0
  <2>1. Inv /\ Counted(Now) /\ [Next]_vars => Counted(Now)'
    BY <1>1, <1>3
  <2> QED BY <1>2, <2>1, CountedInit, InvInit, InvNext, PTL DEF Spec
<1>4. CASE ~ (AtOnce /\ Stable > 0)
  BY <1>4
<1> QED BY <1>3, <1>4
=============================================================================
