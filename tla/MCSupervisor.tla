---------------------------- MODULE MCSupervisor ----------------------------
(***************************************************************************)
(* Budgets for Supervisor: what the user does, how often a daemon dies and *)
(* cannot be started, and how often a callback asks again.                 *)
(***************************************************************************)
EXTENDS Supervisor

Nothing == [asks |-> 0, restarts |-> 0, stops |-> 0, failures |-> 0,
            deaths |-> 0, repeats |-> 0]

\* A request, a restart and a stop of daemons that may die, ignore SIGTERM and
\* never answer, and a callback that asks again.
Exits == [Nothing EXCEPT !.asks = 1, !.restarts = 1, !.stops = 1, !.deaths = 1, !.repeats = 1]

\* One request, and daemons that die every time they are started, or cannot be.
Looping == [Nothing EXCEPT !.asks = 1, !.failures = 1, !.deaths = 3, !.repeats = 2]

\* Two requests about a daemon that dies.
Doubling == [Nothing EXCEPT !.asks = 2, !.deaths = 1, !.repeats = 1]

\* One request and one restart, nothing going wrong.
Restarting == [Nothing EXCEPT !.asks = 1, !.restarts = 1, !.deaths = 1]
=============================================================================
