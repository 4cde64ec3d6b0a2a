------------------------------ MODULE Staging -------------------------------
(***************************************************************************)
(* The pictures of a document on another host, staged for its browser      *)
(* preview: Stage(), OnStaged(), Settle() and Unstage() of external.vim,   *)
(* and what opens, closes and feeds the preview around them. The buffer is *)
(* one; its pictures come one by one, in any order, and a transfer that    *)
(* was started is never taken back.                                        *)
(***************************************************************************)
EXTENDS Integers, Sequences, SequencesExt, FiniteSets, FiniteSetsExt, Retaining

CONSTANTS
  Galleries,     \* the pictures a text may name: sequences without repetition
  Size(_),       \* what a picture weighs
  MaxAssets,     \* REMOTE_ASSET_MAX
  MaxStaged,     \* REMOTE_ASSET_MAX_BYTES
  StagingBudgets \* bounds: how often each thing outside may happen

\* The pictures that texts may name.
Pictures == UNION {ToSet(gallery) : gallery \in Galleries}

ASSUME StagingAssumption ==
  /\ Galleries \subseteq Seq(Pictures)
  /\ \A href \in Pictures : Size(href) \in Nat
  /\ MaxAssets \in Nat /\ MaxStaged \in Nat

VARIABLES
  named,      \* the pictures the text names
  alive,      \* bufexists()
  preview,    \* `opening` and `staging_open` of the buffer, whether `previews` has it,
              \* whether its timer runs, the `serve`s that are not answered, and whether
              \* everything was ever stopped while there were any
  stage,      \* `staging` of the buffer, or NoStage
  rounds,     \* staging_generation
  transfers,  \* the transfers in flight
  stagingMay  \* how often each thing outside may still happen

stagingVars == <<named, alive, preview, stage, rounds, transfers, stagingMay>>

NoStage == [generation |-> 0]

StagingAllows(what) ==
  /\ stagingMay[what] > 0
  /\ stagingMay' = [stagingMay EXCEPT ![what] = @ - 1]

-----------------------------------------------------------------------------
(* What was waiting for the pictures.                                      *)

\* Serve(): the attempt may have been withdrawn; the daemon may be out of reach.
Serves(p, reached) ==
  IF p.opening # "wanted" \/ ~alive \/ ~reached
  THEN [p EXCEPT !.stagingOpen = FALSE, !.opening = "no"]
  ELSE [p EXCEPT !.stagingOpen = FALSE, !.asked = @ + 1]

\* The waiters one after the other. An update and a request for a page in a file leave
\* nothing behind here.
Called(p, waiters, reached) ==
  LET called[n \in 0..Len(waiters)] ==
        IF n = 0 THEN p
        ELSE IF waiters[n] = "serve" THEN Serves(called[n - 1], reached)
        ELSE called[n - 1]
  IN  called[Len(waiters)]

\* Settle(): with nothing in flight everybody who waits is called.
Settles(p, s, reached) ==
  IF s.pending > 0 THEN preview' = p /\ stage' = s
  ELSE /\ preview' = Called(p, s.waiters, reached)
       /\ stage' = [s EXCEPT !.waiters = << >>]

WithState(assets, href, state) ==
  [h \in DOMAIN assets \union {href} |-> IF h = href THEN state ELSE assets[h]]

\* A plausible slip: a transfer refused from inside the call is counted off twice.
FetchesRefusedTwice(s, href, started) ==
  IF href \in DOMAIN s.assets THEN s
  ELSE IF Cardinality(DOMAIN s.assets) >= MaxAssets \/ s.bytes >= MaxStaged
  THEN [s EXCEPT !.assets = WithState(@, href, "skipped")]
  ELSE IF href \in started
  THEN [s EXCEPT !.assets = WithState(@, href, "pending"), !.pending = @ + 1]
  ELSE [s EXCEPT !.assets = WithState(@, href, "failed"), !.pending = Max({0, @ - 1})]

\* One picture of Stage()'s loop, started or refused from inside the call.
Fetches(s, href, started) ==
  IF href \in DOMAIN s.assets THEN s
  ELSE IF Cardinality(DOMAIN s.assets) >= MaxAssets \/ s.bytes >= MaxStaged
  THEN [s EXCEPT !.assets = WithState(@, href, "skipped")]
  ELSE IF href \in started
  THEN [s EXCEPT !.assets = WithState(@, href, "pending"), !.pending = @ + 1]
  ELSE [s EXCEPT !.assets = WithState(@, href, "failed")]

\* The loop.
Fetched(s, hrefs, started) ==
  LET fetched[n \in 0..Len(hrefs)] ==
        IF n = 0 THEN s ELSE Fetches(fetched[n - 1], hrefs[n], started)
  IN  fetched[Len(hrefs)]

\* Stage(): joins the record there is or begins one.
Stages(p, hrefs, then) ==
  \E started \in SUBSET ToSet(hrefs), reached \in BOOLEAN :
    LET begun == IF stage # NoStage THEN stage
                 ELSE [generation |-> rounds + 1, assets |-> << >>, pending |-> 0, bytes |-> 0,
                       waiters |-> << >>]
        s == Fetched([begun EXCEPT !.waiters = Append(@, then)], hrefs, started)
        new == {h \in ToSet(hrefs) \ DOMAIN begun.assets : s.assets[h] = "pending"}
    IN  /\ rounds' = IF stage # NoStage THEN rounds ELSE rounds + 1
        /\ transfers' = transfers \union {[generation |-> s.generation, href |-> h] : h \in new}
        /\ Settles(p, s, reached)

-----------------------------------------------------------------------------
(* What lands.                                                             *)

\* A plausible slip: a transfer is told by its buffer alone.
AnswersAny(t) == stage # NoStage

\* The record a transfer was started for, and no later one of the same buffer.
AnswersThis(t) == stage.generation = t.generation

\* A plausible slip: the budget is looked at before the picture is weighed.
LandsUnweighed(s, href) ==
  IF s.bytes > MaxStaged
  THEN [s EXCEPT !.assets[href] = "skipped", !.bytes = MaxStaged]
  ELSE [s EXCEPT !.assets[href] = "ok", !.bytes = @ + Size(href)]

LandsWell(s, href) ==
  IF s.bytes + Size(href) > MaxStaged
  THEN [s EXCEPT !.assets[href] = "skipped", !.bytes = MaxStaged]
  ELSE [s EXCEPT !.assets[href] = "ok", !.bytes = @ + Size(href)]

\* OnStaged()
OnStaged(t, ok) ==
  /\ t \in transfers
  /\ transfers' = transfers \ {t}
  /\ IF AnswersThis(t)
     THEN LET s == [stage EXCEPT !.pending = Max({0, @ - 1})]
          IN  \E reached \in BOOLEAN :
                Settles(preview,
                        IF t.href \notin DOMAIN s.assets THEN s
                        ELSE IF ok THEN LandsWell(s, t.href)
                        ELSE [s EXCEPT !.assets[t.href] = "failed"],
                        reached)
     ELSE UNCHANGED <<preview, stage>>
  /\ UNCHANGED <<named, alive, rounds, stagingMay>>

-----------------------------------------------------------------------------
(* The preview around it.                                                  *)

\* Open() of a remote document, and Static() of one.
OpenRemote ==
  /\ alive /\ ~preview.shown /\ preview.opening = "no"
  /\ StagingAllows("opens")
  /\ Stages([preview EXCEPT !.opening = "wanted", !.stagingOpen = TRUE], named, "serve")
  /\ UNCHANGED <<named, alive>>

StaticRemote ==
  /\ alive /\ StagingAllows("statics")
  /\ Stages(preview, named, "static")
  /\ UNCHANGED <<named, alive>>

\* Forget(), Unstage() with it: those who wait are dropped, not called.
Forgotten(p) == [p EXCEPT !.stagingOpen = FALSE, !.shown = FALSE, !.timer = FALSE]

\* A plausible slip: what was withdrawn while its pictures came leaves its record behind.
ClosesLeavingStage ==
  IF preview.shown THEN preview' = Forgotten(preview) /\ stage' = NoStage
  ELSE IF preview.stagingOpen
  THEN preview' = [preview EXCEPT !.opening = "no", !.stagingOpen = FALSE] /\ UNCHANGED stage
  ELSE preview' = [preview EXCEPT !.opening = "withdrawn"] /\ UNCHANGED stage

\* Close() of the preview, of one whose pictures come, or of one that was asked for.
Closes ==
  IF preview.shown THEN preview' = Forgotten(preview) /\ stage' = NoStage
  ELSE IF preview.stagingOpen
  THEN preview' = [preview EXCEPT !.opening = "no", !.stagingOpen = FALSE] /\ stage' = NoStage
  ELSE preview' = [preview EXCEPT !.opening = "withdrawn"] /\ UNCHANGED stage

CloseRemote ==
  /\ alive /\ (preview.shown \/ preview.opening # "no")
  /\ StagingAllows("closes")
  /\ Closes
  /\ UNCHANGED <<named, alive, rounds, transfers>>

\* StopAll()
StopAllRemote ==
  /\ StagingAllows("closes")
  /\ preview' = [Forgotten(preview) EXCEPT !.opening = "no", !.astray = @ \/ preview.asked > 0]
  /\ stage' = NoStage
  /\ UNCHANGED <<named, alive, rounds, transfers>>

\* OnBufferWipeout()
WipeRemote ==
  /\ alive /\ StagingAllows("wipes")
  /\ alive' = FALSE
  /\ preview' = Forgotten(preview) /\ stage' = NoStage
  /\ UNCHANGED <<named, rounds, transfers>>

\* OnServed(): an answer, or that there will be none. OnDaemonExit().
OnServedRemote(ok) ==
  /\ preview.asked > 0
  /\ preview' = [preview EXCEPT !.asked = @ - 1, !.opening = "no",
                                !.shown = @ \/ (ok /\ preview.opening = "wanted" /\ alive)]
  /\ UNCHANGED <<named, alive, stage, rounds, transfers, stagingMay>>

OnDaemonExitRemote ==
  /\ preview.shown /\ StagingAllows("exits")
  /\ preview' = Forgotten(preview) /\ stage' = NoStage
  /\ UNCHANGED <<named, alive, rounds, transfers>>

\* OnTextChanged()
EditRemote ==
  /\ alive /\ StagingAllows("edits")
  /\ \E gallery \in Galleries : named' = gallery
  /\ preview' = [preview EXCEPT !.timer = preview.shown]
  /\ UNCHANGED <<alive, stage, rounds, transfers>>

\* Push(): pictures the record does not have are fetched first.
PushRemote ==
  /\ preview.shown /\ preview.timer
  /\ LET p == [preview EXCEPT !.timer = FALSE]
         missing == Dropping(named, DOMAIN stage.assets)
     IN  IF stage # NoStage /\ missing # << >>
         THEN Stages(p, missing, "update")
         ELSE preview' = p /\ UNCHANGED <<stage, rounds, transfers>>
  /\ UNCHANGED <<named, alive, stagingMay>>

StagingInit ==
  /\ stagingMay \in StagingBudgets
  /\ named \in Galleries
  /\ alive = TRUE
  /\ preview = [opening |-> "no", stagingOpen |-> FALSE, shown |-> FALSE, timer |-> FALSE,
                asked |-> 0, astray |-> FALSE]
  /\ stage = NoStage /\ rounds = 0 /\ transfers = {}

StagingNext ==
  \/ OpenRemote \/ StaticRemote \/ CloseRemote \/ StopAllRemote \/ WipeRemote
  \/ OnDaemonExitRemote \/ EditRemote \/ PushRemote
  \/ \E ok \in BOOLEAN : OnServedRemote(ok)
  \/ \E t \in transfers, ok \in BOOLEAN : OnStaged(t, ok)

StagingSpec == StagingInit /\ [][StagingNext]_stagingVars

-----------------------------------------------------------------------------
(* Properties.                                                             *)

OfThisRound == {t \in transfers : t.generation = stage.generation}

\* A record counts its own transfers, whatever of an earlier record still lands, fails
\* or is refused, and nobody waits when there is nothing to wait for (Stage(), OnStaged(),
\* Settle()).
PendingIsInFlight ==
  stage # NoStage =>
    /\ stage.pending = Cardinality(OfThisRound)
    /\ {h \in DOMAIN stage.assets : stage.assets[h] = "pending"} = {t.href : t \in OfThisRound}
    /\ stage.pending = 0 => stage.waiters = << >>

\* However often a preview is opened and closed while its pictures come, the attempt
\* that counts is waiting for them exactly once, and one that was closed not at all: a
\* second `serve` would be answered as one that is not wanted, and stop the first. The
\* answer to a `serve` from before a StopAll() is taken for the next attempt's, and ends
\* it early (Open(), Close(), Serve()).
WaitsOnce ==
  ~preview.astray =>
  LET waiting == IF stage = NoStage THEN {}
                 ELSE {n \in DOMAIN stage.waiters : stage.waiters[n] = "serve"}
  IN  Cardinality(waiting) = IF preview.opening = "wanted" /\ preview.stagingOpen THEN 1 ELSE 0

\* What is kept of a document's pictures is within both limits, however many were in
\* flight when the last one was looked at (Stage(), OnStaged()).
StagedWithinLimits ==
  stage # NoStage =>
    LET kept == {h \in DOMAIN stage.assets : stage.assets[h] = "ok"}
    IN  /\ Cardinality(kept) <= MaxAssets
        /\ MapThenSumSet(Size, kept) <= MaxStaged

\* Between them: a round of transfers ends once, for those who wait for it, and within
\* what the document may take (Stage(), OnStaged(), Settle()).
RoundsEndOnce == PendingIsInFlight /\ WaitsOnce /\ StagedWithinLimits

\* The page is asked for when every picture that was fetched for it is there or will not
\* be: a browser does not ask again (Open(), Serve(), Settle()).
OpensWithItsPictures ==
  [][preview'.asked > preview.asked =>
       /\ \A t \in transfers' : t.generation # stage'.generation
       /\ \A h \in DOMAIN stage'.assets : stage'.assets[h] # "pending"]_stagingVars
=============================================================================
