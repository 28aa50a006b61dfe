------------------------------- MODULE JobRunner -------------------------------
(***************************************************************************)
(* The background jobs of internal/providers/pkgmanager/brew (runJob,      *)
(* finish, Cancel) and their rows in internal/domain/job: API goroutines   *)
(* that start and cancel jobs, the completion goroutine of every job, the  *)
(* brew processes, the in-memory tables Provider.active and                *)
(* Provider.targets, and the death and restart of the daemon, after which  *)
(* ReconcileStale settles the rows nobody is left to settle.               *)
(*                                                                         *)
(* Provider.mu is held only around single reads and writes of the two      *)
(* tables, so every action is one critical section, one system call or one *)
(* statement of the database.                                              *)
(***************************************************************************)
EXTENDS Naturals

CONSTANTS
  Caller,         \* API goroutines
  Job,            \* job IDs (bounds the number of jobs)
  Key,            \* kind + "\x00" + target
  None,           \* no job, no key
  FaultSets       \* the sets of faults a behaviour may be exposed to

ASSUME JobAssumption  == None \notin Job /\ None \notin Key /\ Key # {}

\* write: an UPDATE of the jobs table may fail; log: os.OpenFile of the log file
\* may fail; crash: the daemon may die.
Fault == {"write", "log", "crash"}

ASSUME FaultAssumption == FaultSets \subseteq SUBSET Fault

VARIABLES
  row,       \* the status column of the job's row; "none" before the INSERT
  active,    \* DOMAIN of Provider.active: the jobs Cancel can find
  targets,   \* Provider.targets: key -> job
  keyOf,     \* the kind and target columns of the job's row
  proc,      \* the brew process: none, up, exited, reaped
  outcome,   \* how it ended: success, failed (exit code), canceled (a signal)
  pipes,     \* pipeLogs still reads: brew or a descendant holds its output pipes
  killed,    \* Cancel delivered SIGKILL
  comp,      \* the completion goroutine: none, wait, cleanup, finish, retry, end
  pc,        \* the API goroutine
  key,       \* its argument of runJob
  cur,       \* the job it creates or cancels
  up,        \* the daemon runs
  faults     \* the faults this behaviour is exposed to (it never changes)

vars == <<row, active, targets, keyOf, proc, outcome, pipes, killed, comp, pc, key, cur, up, faults>>
tables     == <<row, active, targets, keyOf>>
processes  == <<proc, outcome, pipes, killed>>
goroutines == <<comp, pc, key, cur>>

Terminal == {"success", "failed", "canceled"}

TypeOK ==
  /\ row \in [Job -> {"none", "running"} \cup Terminal]
  /\ active \in SUBSET Job
  /\ targets \in [Key -> Job \cup {None}]
  /\ keyOf \in [Job -> Key]
  /\ proc \in [Job -> {"none", "up", "exited", "reaped"}]
  /\ outcome \in [Job -> {"none"} \cup Terminal]
  /\ pipes \in [Job -> BOOLEAN]
  /\ killed \in [Job -> BOOLEAN]
  /\ comp \in [Job -> {"none", "wait", "cleanup", "finish", "retry", "end"}]
  /\ pc \in [Caller -> {"idle", "create", "open", "exec", "register",
                        "recordFail", "retryFail", "kill"}]
  /\ key \in [Caller -> Key]
  /\ cur \in [Caller -> Job \cup {None}]
  /\ up \in BOOLEAN
  /\ faults \in FaultSets

Init ==
  /\ row = [j \in Job |-> "none"]
  /\ active = {}
  /\ targets = [k \in Key |-> None]
  /\ keyOf = [j \in Job |-> CHOOSE k \in Key : TRUE]
  /\ proc = [j \in Job |-> "none"]
  /\ outcome = [j \in Job |-> "none"]
  /\ pipes = [j \in Job |-> FALSE]
  /\ killed = [j \in Job |-> FALSE]
  /\ comp = [j \in Job |-> "none"]
  /\ pc = [c \in Caller |-> "idle"]
  /\ key = [c \in Caller |-> CHOOSE k \in Key : TRUE]
  /\ cur = [c \in Caller |-> None]
  /\ up = TRUE
  /\ faults \in FaultSets

Goto(c, l)  == pc' = [pc EXCEPT ![c] = l]
CompTo(j, l) == comp' = [comp EXCEPT ![j] = l]

\* The API goroutine answers its request; its local variables are gone.
Answer(c) == Goto(c, "idle") /\ cur' = [cur EXCEPT ![c] = None]

\* Jobs.Finish: the UPDATE names the row by its ID only, not by its status.
SetStatus(j, status) == row' = [row EXCEPT ![j] = status]

-----------------------------------------------------------------------------
(* runJob                                                                     *)

\* The look at p.targets under p.mu; a running job of the same key is refused.
CheckTarget(c, k) ==
  /\ up /\ pc[c] = "idle"
  /\ targets[k] = None
  /\ key' = [key EXCEPT ![c] = k]
  /\ Goto(c, "create")
  /\ UNCHANGED <<tables, processes, comp, cur, up, faults>>

\* A new UUID: jobs are interchangeable, so the choice among them is fixed.
NewJob == CHOOSE j \in Job : row[j] = "none"

\* MkdirAll and Jobs.Create: a row that says running, or an error.
CreateRow(c) ==
  /\ pc[c] = "create"
  /\ \/ LET j == NewJob
        IN  /\ \E i \in Job : row[i] = "none"
            /\ SetStatus(j, "running")
            /\ keyOf' = [keyOf EXCEPT ![j] = key[c]]
            /\ cur' = [cur EXCEPT ![c] = j]
            /\ Goto(c, "open")
     \/ Answer(c) /\ UNCHANGED <<row, keyOf>>
  /\ UNCHANGED <<active, targets, processes, comp, key, up, faults>>

\* Opening the log file; its failure ends runJob and leaves the row as it is.
OpenLog(c) ==
  /\ pc[c] = "open"
  /\ \/ Goto(c, "exec") /\ UNCHANGED cur
     \/ "log" \in faults /\ Answer(c)
  /\ UNCHANGED <<tables, processes, comp, key, up, faults>>

\* cmd.Start
Exec(c) ==
  /\ pc[c] = "exec"
  /\ \/ /\ proc' = [proc EXCEPT ![cur[c]] = "up"]
        /\ pipes' = [pipes EXCEPT ![cur[c]] = TRUE]
        /\ Goto(c, "register")
     \/ /\ Goto(c, "recordFail")
        /\ UNCHANGED <<proc, pipes>>
  /\ UNCHANGED <<tables, outcome, killed, comp, key, cur, up, faults>>

\* p.finish(j.ID, StatusFailed, ...) of a command that did not start, with its
\* one retry; then runJob returns the error.
RecordFail(c) ==
  /\ pc[c] \in {"recordFail", "retryFail"}
  /\ \/ SetStatus(cur[c], "failed") /\ Answer(c)
     \/ /\ "write" \in faults
        /\ IF pc[c] = "recordFail" THEN Goto(c, "retryFail") /\ UNCHANGED cur
                                   ELSE Answer(c)
        /\ UNCHANGED row
  /\ UNCHANGED <<active, targets, keyOf, processes, comp, key, up, faults>>

\* p.active and p.targets are set under p.mu, then the goroutines start.
Register(c) ==
  /\ pc[c] = "register"
  /\ active' = active \cup {cur[c]}
  /\ targets' = [targets EXCEPT ![key[c]] = cur[c]]
  /\ CompTo(cur[c], "wait")
  /\ Answer(c)
  /\ UNCHANGED <<row, keyOf, processes, key, up, faults>>

-----------------------------------------------------------------------------
(* Cancel                                                                     *)

\* The look at p.active under p.mu.
FindActive(c, j) ==
  /\ up /\ pc[c] = "idle"
  /\ j \in active
  /\ cur' = [cur EXCEPT ![c] = j]
  /\ Goto(c, "kill")
  /\ UNCHANGED <<tables, processes, comp, key, up, faults>>

\* cmd.Process.Kill: nothing happens to a process that was reaped, and the
\* outcome of one that has exited is settled.  Descendants are not signalled.
Kill(c) ==
  /\ pc[c] = "kill"
  /\ IF proc[cur[c]] = "up" THEN killed' = [killed EXCEPT ![cur[c]] = TRUE]
                            ELSE UNCHANGED killed
  /\ Answer(c)
  /\ UNCHANGED <<tables, proc, outcome, pipes, comp, key, up, faults>>

-----------------------------------------------------------------------------
(* The brew process and its completion goroutine.                             *)

\* brew exits: 0, another code, or a signal (Cancel's or anybody's), and may
\* leave descendants behind that hold its pipes.  How the brew of an earlier
\* daemon ends is seen by nobody.
Exit(j) ==
  /\ proc[j] = "up"
  /\ proc' = [proc EXCEPT ![j] = "exited"]
  /\ \/ /\ pipes[j]
        /\ \E r \in IF killed[j] THEN {"canceled"} ELSE Terminal :
             outcome' = [outcome EXCEPT ![j] = r]
        /\ \E held \in BOOLEAN : pipes' = [pipes EXCEPT ![j] = held]
     \/ ~pipes[j] /\ UNCHANGED <<outcome, pipes>>
  /\ UNCHANGED <<tables, killed, goroutines, up, faults>>

\* The last descendant that inherited stdout or stderr exits.
PipesClose(j) ==
  /\ proc[j] = "exited" /\ pipes[j]
  /\ pipes' = [pipes EXCEPT ![j] = FALSE]
  /\ UNCHANGED <<tables, proc, outcome, killed, goroutines, up, faults>>

\* Both pipeLogs are done (end of file on both pipes), then cmd.Wait returns.
Reap(j) ==
  /\ comp[j] = "wait"
  /\ proc[j] = "exited" /\ ~pipes[j]
  /\ proc' = [proc EXCEPT ![j] = "reaped"]
  /\ CompTo(j, "cleanup")
  /\ UNCHANGED <<tables, outcome, pipes, killed, pc, key, cur, up, faults>>

CleanupActiveOnly(j) ==                    \* mutant of Cleanup
  /\ comp[j] = "cleanup"
  /\ active' = active \ {j}
  /\ CompTo(j, "finish")
  /\ UNCHANGED <<targets, row, keyOf, processes, pc, key, cur, up, faults>>

\* delete(p.active, j.ID); delete(p.targets, key) -- whatever job the key names.
Cleanup(j) ==
  /\ comp[j] = "cleanup"
  /\ active' = active \ {j}
  /\ targets' = [targets EXCEPT ![keyOf[j]] = None]
  /\ CompTo(j, "finish")
  /\ UNCHANGED <<row, keyOf, processes, pc, key, cur, up, faults>>

StatusBySuccessOnly(j) ==                  \* mutant of StatusOf
  IF outcome[j] = "success" THEN "success" ELSE "failed"
\* The status derived from the wait error; a signal counts as a cancellation.
StatusOf(j) == outcome[j]

\* p.finish with the status derived from the wait error: one try, one retry.
Finish(j) ==
  /\ comp[j] \in {"finish", "retry"}
  /\ \/ SetStatus(j, StatusOf(j)) /\ CompTo(j, "end")
     \/ /\ "write" \in faults
        /\ CompTo(j, IF comp[j] = "finish" THEN "retry" ELSE "end")
        /\ UNCHANGED row
  /\ UNCHANGED <<active, targets, keyOf, processes, pc, key, cur, up, faults>>

-----------------------------------------------------------------------------
(* The daemon.                                                                *)

\* The daemon dies: its goroutines and tables are gone, brew lives on.
Crash ==
  /\ "crash" \in faults /\ up
  /\ up' = FALSE
  /\ active' = {}
  /\ targets' = [k \in Key |-> None]
  /\ pc' = [c \in Caller |-> "idle"]
  /\ cur' = [c \in Caller |-> None]
  /\ comp' = [j \in Job |-> "none"]
  /\ pipes' = [j \in Job |-> FALSE]
  /\ UNCHANGED <<row, keyOf, proc, outcome, killed, key, faults>>

BootWithoutReconcile ==                    \* mutant of Boot
  /\ ~up /\ up' = TRUE
  /\ UNCHANGED <<tables, processes, goroutines, faults>>
BootFailsAll ==                            \* mutant of Boot
  /\ ~up /\ up' = TRUE
  /\ row' = [j \in Job |-> IF row[j] = "none" THEN "none" ELSE "failed"]
  /\ UNCHANGED <<active, targets, keyOf, processes, goroutines, faults>>
\* server.New: a fresh Provider, after ReconcileStale, whose failure is logged.
Boot ==
  /\ ~up
  /\ up' = TRUE
  /\ \/ row' = [j \in Job |-> IF row[j] = "running" THEN "failed" ELSE row[j]]
     \/ "write" \in faults /\ UNCHANGED row
  /\ UNCHANGED <<active, targets, keyOf, processes, goroutines, faults>>

-----------------------------------------------------------------------------
RunJob(c) == CreateRow(c) \/ OpenLog(c) \/ Exec(c) \/ RecordFail(c) \/ Register(c)

Complete(j) == Reap(j) \/ Cleanup(j) \/ Finish(j)

Next ==
  \/ \E c \in Caller :
       \/ \E k \in Key : CheckTarget(c, k)
       \/ \E j \in Job : FindActive(c, j)
       \/ RunJob(c) \/ Kill(c)
  \/ \E j \in Job : Exit(j) \/ PipesClose(j) \/ Complete(j)
  \/ Crash \/ Boot

Spec == Init /\ [][Next]_vars

\* Goroutines that can run do; SIGKILL ends a process; what brew started comes
\* to an end; a daemon that died is started again.  Brew itself need not end.
Fairness ==
  /\ \A c \in Caller : WF_vars(RunJob(c) \/ Kill(c))
  /\ \A j \in Job : /\ WF_vars(Complete(j))
                    /\ WF_vars(killed[j] /\ Exit(j))
                    /\ WF_vars(PipesClose(j))
  /\ WF_vars(Boot)

LiveSpec == Spec /\ Fairness

-----------------------------------------------------------------------------
(* Properties.                                                                *)

\* What the table of jobs promises its readers.
JobRows == INSTANCE RowLifecycle WITH Row <- Job, status <- row

\* The jobs implement the life cycle of a row: neither the retry of finish, nor a
\* second completion, nor the ReconcileStale of a later daemon rewrites the history
\* of a job.
JobsFollowLifecycle == JobRows!Spec

Owner(c, j) == cur[c] = j /\ pc[c] \in {"open", "exec", "register", "recordFail", "retryFail"}

\* While the daemon runs, a row that says running has a goroutine that will
\* settle it: no job is stuck at running because its tracking was lost, in
\* particular none that a previous daemon started.  (Neither the database nor the
\* opening of a log file may fail: runJob leaves the row as it is after the latter.)
RunningRowHasOwner ==
  up /\ faults \cap {"write", "log"} = {} => \A j \in Job :
          row[j] = "running" =>
            \/ \E c \in Caller : Owner(c, j)
            \/ comp[j] \in {"wait", "cleanup", "finish", "retry"}

\* A key that refuses new jobs belongs to a job whose completion will free it,
\* even when two jobs of one key have overlapped.
TargetIsOwned ==
  \A k \in Key :
    targets[k] # None => comp[targets[k]] \in {"wait", "cleanup"} /\ keyOf[targets[k]] = k

\* The row of a completed job tells how its process ended, in particular a
\* cancelled job is not recorded as failed; the only other thing it may say is
\* running, when the UPDATE and its retry both failed.
RowTellsOutcome ==
  \A j \in Job : comp[j] = "end" => row[j] = outcome[j] \/ ("write" \in faults /\ row[j] = "running")

\* A job whose process Cancel killed is recorded as ended, by its completion
\* goroutine or, when the daemon dies first, by the next daemon.
\* (The database must not fail.)
CancelIsRecorded ==
  \A j \in Job : killed[j] /\ "write" \notin faults ~> row[j] \in Terminal
=============================================================================
