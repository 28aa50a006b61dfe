---------------------------- MODULE ServiceManager ----------------------------
(***************************************************************************)
(* internal/domain/service.Manager during one lifetime of the daemon: the  *)
(* API goroutines that call Start, Stop and Restart, the awaitExit         *)
(* goroutine of every process that was started, the operating-system       *)
(* processes themselves, the in-memory table m.procs and the persisted     *)
(* rows of `services`.                                                     *)
(*                                                                         *)
(* m.mu protects single reads and writes of m.procs only; it is never held *)
(* across a spawn, a persist or a wait.  Each action below is therefore    *)
(* one critical section, one system call or one database write, and two    *)
(* goroutines interleave between any two of them.                          *)
(*                                                                         *)
(* A member of Proc is one runningProc with the process it owns.  Log      *)
(* pumping and the wording of errors are left out.                         *)
(***************************************************************************)
EXTENDS Naturals

CONSTANTS
  Service,       \* service IDs
  Client,        \* goroutines serving API calls
  Proc,          \* identities of processes (bounds the number of spawns)
  NoProc,        \* "no entry in m.procs", "pid 0"
  Policy,        \* [Service -> {"always", "on-failure", "no"}], RestartPolicy
  MaxRestarts,   \* svc.MaxRestarts
  TermKills,     \* TRUE for signal_windows.go, FALSE for signal_unix.go
  StoreMayFail   \* may UpsertServiceRecord fail (persist only logs it)

ASSUME ServiceAssumption == Service # {}
ASSUME ThreadAssumption  == Client \cap Proc = {}
ASSUME NoProcAssumption  == NoProc \notin Proc
ASSUME PolicyAssumption  == Policy \in [Service -> {"always", "on-failure", "no"}]
ASSUME BudgetAssumption  == MaxRestarts \in Nat
ASSUME SwitchAssumption  == TermKills \in BOOLEAN /\ StoreMayFail \in BOOLEAN

VARIABLES
  \* Manager
  procs,          \* m.procs: service -> its runningProc
  rec,            \* the row of `services`: its status and pid columns
  \* runningProc and its process
  svcOf,          \* rp.svc.ID
  life,           \* the process: unborn, up, exited (a zombie), reaped (Wait returned)
  crashed,        \* its exit code is not 0
  killed,         \* SIGKILL was delivered
  stopRequested,  \* rp.stopRequested
  restarts,       \* Len(rp.restartTimes)
  done,           \* rp.done is closed
  \* goroutines: API calls and the awaitExit of each process
  pc,             \* what the goroutine does next
  op,             \* the call a client serves (or served last)
  arg,            \* the service the client's call is about
  held,           \* the runningProc Stop found
  new,            \* the process startProcess spawned and has not announced yet
  times,          \* Len(restartTimes) that awaitExit passes to startProcess
  res             \* how the client's call ended

procVars   == <<svcOf, life, crashed, killed, stopRequested, restarts, done>>
threadVars == <<pc, op, arg, held, new, times, res>>
vars       == <<procs, rec, procVars, threadVars>>

Thread  == Client \cup Proc
MayProc == Proc \cup {NoProc}
Record  == [status : {"none", "stopped", "running", "failed"}, pid : MayProc]

\* A call that ended returned nil, refused (already running, not running,
\* unknown), the error of proc.Kill or an error of startProcess.
Result  == {"none", "ok", "refused", "killErr", "spawnErr"}

\* Where startProcess is: before cmd.Start, before the insertion into m.procs
\* and before m.persist.
Starting == {"spawn", "install", "persist"}
\* Where Stop is after it found the process: about to send SIGTERM, in the
\* select, about to kill, waiting for done with a nil or a non-nil error.
Stopping == {"term", "select", "kill", "drain", "drainErr"}
ClientPC == {"idle", "stop"} \cup Starting \cup Stopping
AwaitPC  == {"none", "wait", "lock", "stopped", "failed", "close", "end"} \cup Starting

TypeOK ==
  /\ procs \in [Service -> MayProc]
  /\ rec \in [Service -> Record]
  /\ svcOf \in [Proc -> Service]
  /\ life \in [Proc -> {"unborn", "up", "exited", "reaped"}]
  /\ crashed \in [Proc -> BOOLEAN]
  /\ killed \in [Proc -> BOOLEAN]
  /\ stopRequested \in [Proc -> BOOLEAN]
  /\ restarts \in [Proc -> 0..MaxRestarts]
  /\ done \in [Proc -> BOOLEAN]
  /\ pc \in [Thread -> ClientPC \cup AwaitPC]
  /\ op \in [Client -> {"none", "start", "stop", "restart"}]
  /\ arg \in [Client -> Service]
  /\ held \in [Client -> MayProc]
  /\ new \in [Thread -> MayProc]
  /\ times \in [Proc -> 0..MaxRestarts]
  /\ res \in [Client -> Result]

AnyService == CHOOSE s \in Service : TRUE

\* NewManager, after a clean previous run: nothing is tracked, a row may exist.
Init ==
  /\ procs = [s \in Service |-> NoProc]
  /\ rec \in [Service -> [status : {"none", "stopped", "failed"}, pid : {NoProc}]]
  /\ svcOf = [p \in Proc |-> AnyService]
  /\ life = [p \in Proc |-> "unborn"]
  /\ crashed = [p \in Proc |-> FALSE]
  /\ killed = [p \in Proc |-> FALSE]
  /\ stopRequested = [p \in Proc |-> FALSE]
  /\ restarts = [p \in Proc |-> 0]
  /\ done = [p \in Proc |-> FALSE]
  /\ pc = [t \in Thread |-> IF t \in Client THEN "idle" ELSE "none"]
  /\ op = [c \in Client |-> "none"]
  /\ arg = [c \in Client |-> AnyService]
  /\ held = [c \in Client |-> NoProc]
  /\ new = [t \in Thread |-> NoProc]
  /\ times = [p \in Proc |-> 0]
  /\ res = [c \in Client |-> "none"]

Goto(t, l) == pc' = [pc EXCEPT ![t] = l]

Return(c, r) == /\ Goto(c, "idle")
                /\ res' = [res EXCEPT ![c] = r]

\* m.persist: the row is replaced; an error of the store is only logged.
Persist(s, status, p) ==
  LET written == [rec EXCEPT ![s] = [status |-> status, pid |-> p]]
  IN  rec' \in IF StoreMayFail THEN {written, rec} ELSE {written}

-----------------------------------------------------------------------------
(* startProcess, run by an API goroutine or by the awaitExit of a process    *)
(* that is to be restarted.                                                   *)

\* The arguments svc and restartTimes: an API call starts with an empty history.
SvcArg(t)   == IF t \in Client THEN arg[t] ELSE svcOf[t]
TimesArg(t) == IF t \in Client THEN 0 ELSE times[t]

\* cmd.Start succeeds: a process p exists that no table knows yet.
Spawn(t) ==
  /\ pc[t] = "spawn"
  /\ \E p \in Proc :
       /\ life[p] = "unborn"
       /\ life' = [life EXCEPT ![p] = "up"]
       /\ svcOf' = [svcOf EXCEPT ![p] = SvcArg(t)]
       /\ restarts' = [restarts EXCEPT ![p] = TimesArg(t)]
       /\ new' = [new EXCEPT ![t] = p]
  /\ Goto(t, "install")
  /\ UNCHANGED <<procs, rec, crashed, killed, stopRequested, done,
                 op, arg, held, times, res>>

\* MkdirAll, OpenFile or cmd.Start fails: the caller gets the error, and the
\* caller awaitExit persists the service as failed.
SpawnFails(t) ==
  /\ pc[t] = "spawn"
  /\ IF t \in Client THEN Return(t, "spawnErr")
                     ELSE Goto(t, "failed") /\ UNCHANGED res
  /\ UNCHANGED <<procs, rec, procVars, op, arg, held, new, times>>

\* m.procs[svc.ID] = rp, whatever the table held for that ID.
Install(t) ==
  /\ pc[t] = "install"
  /\ procs' = [procs EXCEPT ![SvcArg(t)] = new[t]]
  /\ Goto(t, "persist")
  /\ UNCHANGED <<rec, procVars, op, arg, held, new, times, res>>

\* The row says running with the new pid, then `go m.awaitExit(rp, lf)`.
PersistRunning(t) ==
  /\ pc[t] = "persist"
  /\ Persist(SvcArg(t), "running", new[t])
  /\ pc' = [pc EXCEPT ![new[t]] = "wait",
                      ![t] = IF t \in Client THEN "idle" ELSE "close"]
  /\ res' = IF t \in Client THEN [res EXCEPT ![t] = "ok"] ELSE res
  /\ new' = [new EXCEPT ![t] = NoProc]
  /\ UNCHANGED <<procs, procVars, op, arg, held, times>>

-----------------------------------------------------------------------------
(* The operating system.                                                      *)

\* A process exits by itself, on SIGTERM or on SIGKILL (whose code is -1).
Exit(p) ==
  /\ life[p] = "up"
  /\ life' = [life EXCEPT ![p] = "exited"]
  /\ \/ crashed' = [crashed EXCEPT ![p] = TRUE]
     \/ ~killed[p] /\ crashed' = [crashed EXCEPT ![p] = FALSE]
  /\ UNCHANGED <<procs, rec, svcOf, killed, stopRequested, restarts, done, threadVars>>

-----------------------------------------------------------------------------
(* awaitExit of process p.                                                    *)

\* rp.cmd.Wait() returns: from here on signals fail with ErrProcessDone.
Wait(p) ==
  /\ pc[p] = "wait"
  /\ life[p] = "exited"
  /\ life' = [life EXCEPT ![p] = "reaped"]
  /\ Goto(p, "lock")
  /\ UNCHANGED <<procs, rec, svcOf, crashed, killed, stopRequested, restarts, done,
                 op, arg, held, new, times, res>>

ShouldRestart(p) ==
  \/ Policy[svcOf[p]] = "always"
  \/ Policy[svcOf[p]] = "on-failure" /\ crashed[p]

\* pruneRestartWindow: the entry of now stays, any number of the older ones,
\* depending on the clock, have left the window.
Pruned(p) == 1..(restarts[p] + 1)

OverBudget(k) == k > MaxRestarts

DeliberateUnlessAlways(p) ==                   \* mutant of Deliberate
  stopRequested[p] /\ Policy[svcOf[p]] # "always"
Deliberate(p) == stopRequested[p]

\* delete(m.procs, svc.ID): the entry of that ID, whichever process it holds.
Forget(p) == procs' = [procs EXCEPT ![svcOf[p]] = NoProc]

\* The critical section that reads stopRequested and deletes the ID from
\* m.procs, and the decision taken from what was read: persist stopped,
\* persist failed or restart.
AwaitLock(p) ==
  /\ pc[p] = "lock"
  /\ Forget(p)
  /\ \/ /\ Deliberate(p) \/ (~ShouldRestart(p) /\ ~crashed[p])
        /\ Goto(p, "stopped")
        /\ UNCHANGED times
     \/ /\ ~Deliberate(p) /\ ~ShouldRestart(p) /\ crashed[p]
        /\ Goto(p, "failed")
        /\ UNCHANGED times
     \/ /\ ~Deliberate(p) /\ ShouldRestart(p)
        /\ \E k \in Pruned(p) :
             \/ /\ OverBudget(k)
                /\ Goto(p, "failed")
                /\ UNCHANGED times
             \/ /\ ~OverBudget(k)
                /\ Goto(p, "spawn")
                /\ times' = [times EXCEPT ![p] = k]
  /\ UNCHANGED <<rec, procVars, op, arg, held, new, res>>

AwaitPersistFailures(p) ==                     \* mutant of AwaitPersist
  /\ pc[p] \in {"stopped", "failed"}
  /\ IF pc[p] = "failed" THEN Persist(svcOf[p], "failed", NoProc) ELSE UNCHANGED rec
  /\ Goto(p, "close")
  /\ UNCHANGED <<procs, procVars, op, arg, held, new, times, res>>

\* svc.Status = StatusStopped or StatusFailed with PID 0, m.persist(svc).
AwaitPersist(p) ==
  /\ pc[p] \in {"stopped", "failed"}
  /\ Persist(svcOf[p], pc[p], NoProc)
  /\ Goto(p, "close")
  /\ UNCHANGED <<procs, procVars, op, arg, held, new, times, res>>

AwaitCloseIfStopped(p) ==                      \* mutant of AwaitClose
  /\ pc[p] = "close" /\ stopRequested[p]
  /\ done' = [done EXCEPT ![p] = TRUE]
  /\ Goto(p, "end")
  /\ UNCHANGED <<procs, rec, svcOf, life, crashed, killed, stopRequested, restarts,
                 op, arg, held, new, times, res>>

\* The deferred close(rp.done).
AwaitClose(p) ==
  /\ pc[p] = "close"
  /\ done' = [done EXCEPT ![p] = TRUE]
  /\ Goto(p, "end")
  /\ UNCHANGED <<procs, rec, svcOf, life, crashed, killed, stopRequested, restarts,
                 op, arg, held, new, times, res>>

-----------------------------------------------------------------------------
(* API goroutines.                                                            *)

\* A call arrives at an idle client; s is its argument.
Call(c, s, o) ==
  /\ pc[c] = "idle"
  /\ op' = [op EXCEPT ![c] = o]
  /\ arg' = [arg EXCEPT ![c] = s]
  /\ UNCHANGED <<new, times>>

\* Start looks the ID up under m.mu, releases it and goes on to startProcess.
Start(c, s) ==
  /\ Call(c, s, "start")
  /\ held' = [held EXCEPT ![c] = NoProc]
  /\ \/ procs[s] # NoProc /\ Return(c, "refused")
     \/ procs[s] = NoProc /\ Goto(c, "spawn") /\ res' = [res EXCEPT ![c] = "none"]
  /\ UNCHANGED <<procs, rec, procVars>>

\* The critical section of Stop for service s: no entry is an error, otherwise
\* the exit becomes deliberate.
StopLookup(c, s, graceful) ==
  \/ /\ procs[s] = NoProc
     /\ Return(c, "refused")
     /\ held' = [held EXCEPT ![c] = NoProc]
     /\ UNCHANGED stopRequested
  \/ /\ procs[s] # NoProc
     /\ stopRequested' = [stopRequested EXCEPT ![procs[s]] = TRUE]
     /\ held' = [held EXCEPT ![c] = procs[s]]
     /\ Goto(c, IF graceful THEN "term" ELSE "kill")
     /\ res' = [res EXCEPT ![c] = "none"]

Stop(c, s, graceful) ==
  /\ Call(c, s, "stop")
  /\ StopLookup(c, s, graceful)
  /\ UNCHANGED <<procs, rec, svcOf, life, crashed, killed, restarts, done>>

\* Restart looks the ID up: a running service is stopped by a second lookup,
\* another one is started from its row.
Restart(c, s) ==
  /\ Call(c, s, "restart")
  /\ held' = [held EXCEPT ![c] = NoProc]
  /\ \/ /\ procs[s] # NoProc
        /\ Goto(c, "stop")
        /\ res' = [res EXCEPT ![c] = "none"]
     \/ /\ procs[s] = NoProc
        /\ rec[s].status = "none"
        /\ Return(c, "refused")
     \/ /\ procs[s] = NoProc
        /\ rec[s].status # "none"
        /\ Goto(c, "spawn")
        /\ res' = [res EXCEPT ![c] = "none"]
  /\ UNCHANGED <<procs, rec, procVars>>

\* m.Stop(id, true, 0) inside Restart.
RestartStop(c) ==
  /\ pc[c] = "stop"
  /\ StopLookup(c, arg[c], TRUE)
  /\ UNCHANGED <<procs, rec, svcOf, life, crashed, killed, restarts, done,
                 op, arg, new, times>>

\* Stop returns nil: the call ends, or Restart goes on to startProcess.
StopReturns(c) ==
  IF op[c] = "restart" THEN Goto(c, "spawn") /\ UNCHANGED res
                       ELSE Return(c, "ok")

Signal(c) == killed' = [killed EXCEPT ![held[c]] = TRUE]

\* terminate(proc).  Once Wait has returned the signal cannot be delivered,
\* and neither can the Kill that follows: its error is what Stop will return.
Terminate(c) ==
  /\ pc[c] = "term"
  /\ \/ /\ life[held[c]] = "reaped"
        /\ Goto(c, "drainErr")
        /\ UNCHANGED killed
     \/ /\ life[held[c]] # "reaped"
        /\ IF TermKills THEN Signal(c) ELSE UNCHANGED killed
        /\ Goto(c, "select")
  /\ UNCHANGED <<procs, rec, svcOf, life, crashed, stopRequested, restarts, done,
                 op, arg, held, new, times, res>>

\* The select: done is closed ...
StopSeesDone(c) ==
  /\ pc[c] = "select"
  /\ done[held[c]]
  /\ StopReturns(c)
  /\ UNCHANGED <<procs, rec, procVars, op, arg, held, new, times>>

StopTimeoutNever(c) == FALSE                   \* mutant of StopTimeout

\* ... or the timeout fires first.
StopTimeout(c) ==
  /\ pc[c] = "select"
  /\ Goto(c, "kill")
  /\ UNCHANGED <<procs, rec, procVars, op, arg, held, new, times, res>>

\* proc.Kill()
Kill(c) ==
  /\ pc[c] = "kill"
  /\ \/ /\ life[held[c]] = "reaped"
        /\ Goto(c, "drainErr")
        /\ UNCHANGED killed
     \/ /\ life[held[c]] # "reaped"
        /\ Signal(c)
        /\ Goto(c, "drain")
  /\ UNCHANGED <<procs, rec, svcOf, life, crashed, stopRequested, restarts, done,
                 op, arg, held, new, times, res>>

StopNotDrained(c) ==                           \* mutant of StopDrained
  /\ \/ pc[c] = "drain" /\ StopReturns(c)
     \/ pc[c] = "drainErr" /\ Return(c, "killErr")
  /\ UNCHANGED <<procs, rec, procVars, op, arg, held, new, times>>

\* <-done; return killErr
StopDrained(c) ==
  /\ pc[c] \in {"drain", "drainErr"}
  /\ done[held[c]]
  /\ \/ pc[c] = "drain" /\ StopReturns(c)
     \/ pc[c] = "drainErr" /\ Return(c, "killErr")
  /\ UNCHANGED <<procs, rec, procVars, op, arg, held, new, times>>

-----------------------------------------------------------------------------
StartProcess(t) == Spawn(t) \/ SpawnFails(t) \/ Install(t) \/ PersistRunning(t)

AwaitExit(p) == Wait(p) \/ AwaitLock(p) \/ AwaitPersist(p) \/ AwaitClose(p)

StopSteps(c) == \/ RestartStop(c) \/ Terminate(c) \/ StopSeesDone(c)
                \/ StopTimeout(c) \/ Kill(c) \/ StopDrained(c)

ApiCall(c) == \E s \in Service :
                \/ Start(c, s)
                \/ \E graceful \in BOOLEAN : Stop(c, s, graceful)
                \/ Restart(c, s)

Next ==
  \/ \E t \in Thread : StartProcess(t)
  \/ \E p \in Proc : Exit(p) \/ AwaitExit(p)
  \/ \E c \in Client : ApiCall(c) \/ StopSteps(c)

Spec == Init /\ [][Next]_vars

\* Goroutines that can run do run; a process that was sent SIGKILL exits; a
\* timer fires.  Nothing makes a process exit by itself, or a client call.
Fairness ==
  /\ \A t \in Thread : WF_vars(StartProcess(t))
  /\ \A p \in Proc : WF_vars(AwaitExit(p)) /\ WF_vars(killed[p] /\ Exit(p))
  /\ \A c \in Client : WF_vars(StopSteps(c))

LiveSpec == Spec /\ Fairness

-----------------------------------------------------------------------------
(* Properties.                                                                *)

Live(p)    == life[p] \in {"up", "exited"}
Tracked(p) == procs[svcOf[p]] = p

\* Stop wins over the restart policy: once Stop has marked a runningProc, the
\* awaitExit of that runningProc never goes on to startProcess and never
\* records a failure, whatever the exit code, the policy and the other calls.
\* (Stop sets stopRequested and awaitExit reads it under the same mutex.)
StopWins ==
  \A p \in Proc : stopRequested[p] => pc[p] \notin Starting \cup {"failed"}

\* "Stop always blocks until the process has fully exited and been cleaned up":
\* when Stop has returned nil, the process it found is reaped, its awaitExit
\* has taken its last step and the table does not hold it any more.
StopIsComplete ==
  \A c \in Client :
    pc[c] = "idle" /\ op[c] = "stop" /\ res[c] = "ok" =>
      /\ life[held[c]] = "reaped"
      /\ pc[held[c]] = "end"
      /\ ~Tracked(held[c])

\* A row that says "running" names a process that runs or whose awaitExit still
\* has a write of its own to come: no dead process stays recorded as running,
\* whatever overlapping Starts and restarts do.  (The store must not fail.)
RunningRowIsPending ==
  \A s \in Service :
    rec[s].status = "running" =>
      pc[rec[s].pid] \in {"wait", "lock", "stopped", "failed"} \cup Starting

\* The table never holds a process whose awaitExit has passed its critical
\* section: an entry can always be stopped by signalling it, and its exit will
\* be noticed by someone.
TableIsSupervised ==
  \A s \in Service :
    procs[s] # NoProc =>
      pc[procs[s]] = "none" \/ (pc[procs[s]] \in {"wait", "lock"} /\ ~done[procs[s]])

\* At most one process of a service is alive in one daemon lifetime.
AtMostOneLive ==
  \A p, q \in Proc : p # q /\ Live(p) /\ Live(q) => svcOf[p] # svcOf[q]

\* Every Stop and Restart that found a process returns, even when the process
\* ignores SIGTERM, has already exited or is being restarted by others.
StopReturnsEventually ==
  \A c \in Client : pc[c] \in Stopping ~> pc[c] = "idle"

\* Every exit of a supervised process is followed to the end: awaitExit comes
\* to its last step, having persisted the outcome or started a replacement.
ExitIsHandled ==
  \A p \in Proc : life[p] = "exited" ~> pc[p] = "end"

-----------------------------------------------------------------------------
(* Why these hold: the facts every step preserves.                            *)

Announcing(t) == pc[t] \in {"install", "persist"}

\* Each goroutine is at a place its code has.
PcFits == /\ \A c \in Client : pc[c] \in ClientPC
          /\ \A p \in Proc : pc[p] \in AwaitPC

\* A process that startProcess has not announced has no awaitExit yet, belongs
\* to the service it was started for, and is held by one goroutine only.
SpawnedIsPrivate ==
  \A t \in Thread :
    Announcing(t) =>
      /\ new[t] \in Proc
      /\ pc[new[t]] = "none"
      /\ life[new[t]] # "unborn"
      /\ svcOf[new[t]] = SvcArg(t)
      /\ \A u \in Thread : Announcing(u) /\ new[u] = new[t] => u = t

UnbornIsUnknown ==
  \A p \in Proc : life[p] = "unborn" => pc[p] = "none" /\ ~stopRequested[p]

\* awaitExit is past Wait only for a reaped process, and done only at the end.
ProgressOrder ==
  \A p \in Proc : /\ pc[p] \notin {"none", "wait"} => life[p] = "reaped"
                  /\ done[p] => pc[p] = "end"

\* An entry of the table is a started process whose awaitExit has not taken
\* its critical section.
TableEntry ==
  \A s \in Service :
    procs[s] # NoProc =>
      /\ svcOf[procs[s]] = s
      /\ life[procs[s]] # "unborn"
      /\ pc[procs[s]] \in {"none", "wait", "lock"}

\* Stop works on a process that was started and that it has marked.
HeldIsMarked ==
  \A c \in Client :
    pc[c] \in Stopping => held[c] \in Proc /\ stopRequested[held[c]]

\* The inductive invariant of the Manager.
SupervisionInv ==
  /\ PcFits
  /\ SpawnedIsPrivate
  /\ UnbornIsUnknown
  /\ ProgressOrder
  /\ TableEntry
  /\ HeldIsMarked
  /\ StopWins
=============================================================================
