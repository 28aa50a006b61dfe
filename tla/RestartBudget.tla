----------------------------- MODULE RestartBudget -----------------------------
(***************************************************************************)
(* The restart budget of internal/domain/service: one service whose        *)
(* process keeps exiting unexpectedly while its policy asks for a restart. *)
(* awaitExit reads the clock and appends that instant to rp.restartTimes;  *)
(* pruneRestartWindow reads the clock again and drops what is older than   *)
(* the window by then.  With more than MaxRestarts entries left awaitExit  *)
(* gives up; otherwise it starts a process, which may fail.  startProcess  *)
(* hands the list on to the next runningProc, and a Start, a Restart or an *)
(* autostart begins with an empty one.  ServiceManager leaves the clock    *)
(* out and keeps any number of older entries instead.                      *)
(*                                                                         *)
(* Two exits of one service are two spawns apart, so time passes between   *)
(* them: a list of exit times is a set.                                    *)
(***************************************************************************)
EXTENDS Integers, FiniteSets

CONSTANTS
  MaxRestarts,  \* svc.MaxRestarts
  Window,       \* svc.RestartWindow
  Horizon       \* last instant explored

ASSUME BudgetConstants ==
  MaxRestarts \in Nat \ {0} /\ Window \in Nat \ {0} /\ Horizon \in Nat

VARIABLES
  now,           \* the clock
  status,        \* of the service: stopped, running, failed
  restartTimes,  \* rp.restartTimes of the running process
  said,          \* awaitExit's last log line since the last fresh start
  exits,         \* history: the unexpected exits since then
  restarts       \* history: exit of an automatic restart |-> when it was decided

vars == <<now, status, restartTimes, said, exits, restarts>>

TypeOK ==
  /\ now \in Nat
  /\ status \in {"stopped", "running", "failed"}
  /\ restartTimes \in SUBSET Nat /\ IsFiniteSet(restartTimes)
  /\ said \in {"nothing", "restarting", "giving up", "restart failed"}
  /\ exits \in SUBSET Nat /\ IsFiniteSet(exits)
  /\ restarts \in [DOMAIN restarts -> Nat] /\ DOMAIN restarts \subseteq exits

Init ==
  /\ now = 0
  /\ status = "stopped"
  /\ restartTimes = {}
  /\ said = "nothing"
  /\ exits = {}
  /\ restarts = [x \in {} |-> 0]

\* t.After(cutoff), the cutoff taken at instant t
Within(times, t) == {x \in times : x > t - Window}

PruneLate(times, t)  == {x \in times : x >= t - Window}      \* mutants of
PruneEarly(times, t) == {x \in times : x > t + 1 - Window}   \* pruneRestartWindow
pruneRestartWindow(times, t) == Within(times, t)

\* startProcess(svc, nil) by a request, whatever the service was before; one
\* that fails leaves everything as it was.
FreshStart ==
  /\ status # "running"
  /\ status' = "running"
  /\ restartTimes' = {}
  /\ said' = "nothing"
  /\ exits' = {}
  /\ restarts' = [x \in {} |-> 0]
  /\ UNCHANGED now

\* A deliberate Stop.
Stop ==
  /\ status = "running"
  /\ status' = "stopped"
  /\ UNCHANGED <<now, restartTimes, said, exits, restarts>>

GiveUp ==
  /\ status' = "failed"
  /\ said' = "giving up"
  /\ UNCHANGED restarts

\* startProcess(svc, restartTimes) for the exit at t, decided on at p.
Restart(t, p) ==
  /\ said' = "restarting"
  /\ restarts' = [x \in DOMAIN restarts \cup {t} |-> IF x = t THEN p ELSE restarts[x]]
  /\ UNCHANGED status

\* The same when the log file, a pipe or the command cannot be had.
RestartFails ==
  /\ status' = "failed"
  /\ said' = "restart failed"
  /\ UNCHANGED restarts

\* An unexpected exit d instants after the last event; pruneRestartWindow reads
\* the clock lag instants after that.
Exit(d, lag) ==
  LET t    == now + d
      p    == t + lag
      kept == pruneRestartWindow(restartTimes \cup {t}, p)
  IN  /\ status = "running"
      /\ p <= Horizon
      /\ now' = p
      /\ restartTimes' = kept
      /\ exits' = exits \cup {t}
      /\ IF Cardinality(kept) > MaxRestarts
           THEN GiveUp
           ELSE Restart(t, p) \/ RestartFails

Next == FreshStart \/ Stop \/ \E d \in 1..Horizon, lag \in 0..Horizon : Exit(d, lag)

Spec == Init /\ [][Next]_vars

-----------------------------------------------------------------------------
(* Properties.                                                                *)

Inside(times, t) == {x \in times : t - Window < x /\ x <= t}

\* The restarts that lie wholly in the window that ends at t: the exit as well as
\* the decision to restart.
RestartsInside(t) == {x \in DOMAIN restarts : t - Window < x /\ restarts[x] <= t}

\* However the exits are spread and the goroutine is delayed between its two
\* looks at the clock, no window of time holds more than MaxRestarts automatic
\* restarts, unless somebody starts the service anew.
BudgetHolds == \A t \in 0..Horizon : Cardinality(RestartsInside(t)) <= MaxRestarts

\* awaitExit says "crashed %d times within %s, giving up" only of a service that
\* exited more than MaxRestarts times in the window that ends as it says so; a
\* service is marked failed without that only because a restart failed.
GivesUpForCause ==
  /\ said = "giving up" => Cardinality(Inside(exits, now)) > MaxRestarts
  /\ status = "failed" => said \in {"giving up", "restart failed"}

\* No exit is forgotten while it is still inside the window, and none counts
\* once it has left, across any number of runningProcs.
ListIsExact == status = "running" => Within(restartTimes, now) = Within(exits, now)

\* The inductive invariant: no exit lies in the future, a restart is decided on
\* at or after its exit, and no window, past or future, holds too many of them.
BudgetInv ==
  /\ TypeOK
  /\ restartTimes \subseteq exits
  /\ \A x \in exits : x <= now
  /\ ListIsExact
  /\ \A t \in Nat : Cardinality(RestartsInside(t)) <= MaxRestarts
  /\ GivesUpForCause
=============================================================================
