---------------------------- MODULE JobRunnerProofs ----------------------------
(***************************************************************************)
(* Theorems about JobRunner for any number of API goroutines, jobs and     *)
(* keys, under every set of faults.                                        *)
(***************************************************************************)
EXTENDS JobRunner, TLAPS

\* An API goroutine in runJob, after the INSERT.
Held(c) == pc[c] \in {"open", "exec", "register", "recordFail", "retryFail"}

\* The daemon's death takes all goroutines with it.
DeadIsEmpty ==
  ~up => /\ \A c \in Caller : pc[c] = "idle"
         /\ \A j \in Job : comp[j] = "none"

\* Until its completion goroutine starts, a job belongs to the one API goroutine
\* that inserted its row; that row still says running.
HeldIsPrivate ==
  /\ \A c \in Caller : Held(c) =>
       /\ cur[c] \in Job /\ keyOf[cur[c]] = key[c]
       /\ row[cur[c]] = "running" /\ comp[cur[c]] = "none"
  /\ \A c \in Caller, e \in Caller : Held(c) /\ Held(e) /\ cur[c] = cur[e] => c = e

\* Brew is started once, by exec.
StartedOnce ==
  \A c \in Caller : Held(c) =>
    IF pc[c] = "register" THEN proc[cur[c]] \in {"up", "exited"} ELSE proc[cur[c]] = "none"

\* Who kills has found a job.
KillKnows == \A c \in Caller : pc[c] = "kill" => cur[c] \in Job

\* Somebody of this daemon waits, or is about to wait, for the brew of this job.
Watched(j) ==
  \/ comp[j] # "none"
  \/ \E c \in Caller : pc[c] = "register" /\ cur[c] = j

\* The end of a watched brew cannot be missed: its pipes are open until it exits,
\* and then it has an outcome.
OutcomeIsSeen ==
  \A j \in Job : Watched(j) =>
    /\ proc[j] # "none"
    /\ proc[j] = "up" => pipes[j]
    /\ proc[j] \in {"exited", "reaped"} => outcome[j] \in Terminal

\* A completion goroutine waits, and then is the only one to settle its row.
CompletionSettles ==
  \A j \in Job :
    /\ comp[j] = "wait" => proc[j] \in {"up", "exited"}
    /\ comp[j] \in {"cleanup", "finish", "retry", "end"} => proc[j] = "reaped"
    /\ comp[j] \in {"wait", "cleanup", "finish", "retry"} => row[j] = "running"
    /\ row[j] = "none" => proc[j] = "none"

JobInv ==
  /\ TypeOK /\ DeadIsEmpty /\ HeldIsPrivate /\ StartedOnce /\ KillKnows /\ OutcomeIsSeen
  /\ CompletionSettles /\ TargetIsOwned /\ RowTellsOutcome

USE JobAssumption, FaultAssumption

LEMMA InitJob == Init => JobInv
<1> SUFFICES ASSUME Init PROVE JobInv
  OBVIOUS
<1>1. TypeOK
  BY DEF Init, TypeOK
<1>2. DeadIsEmpty /\ HeldIsPrivate /\ StartedOnce /\ KillKnows
  BY DEF Init, DeadIsEmpty, HeldIsPrivate, StartedOnce, KillKnows, Held
<1>3. OutcomeIsSeen /\ CompletionSettles /\ TargetIsOwned /\ RowTellsOutcome
  BY DEF Init, OutcomeIsSeen, Watched, CompletionSettles, TargetIsOwned, RowTellsOutcome
<1> QED BY <1>1, <1>2, <1>3 DEF JobInv

LEMMA CheckTargetKeeps ==
  ASSUME JobInv, NEW c \in Caller, NEW k \in Key, CheckTarget(c, k)
  PROVE  JobInv'
<1>1. TypeOK'
  BY DEF JobInv, CheckTarget, Goto, tables, processes, TypeOK
<1>2. DeadIsEmpty'
  BY DEF CheckTarget, DeadIsEmpty
<1>3. HeldIsPrivate'
  BY DEF JobInv, CheckTarget, Goto, tables, HeldIsPrivate, Held
<1>4. StartedOnce'
  BY DEF JobInv, CheckTarget, Goto, processes, StartedOnce, Held
<1>5. KillKnows'
  BY DEF JobInv, CheckTarget, Goto, KillKnows
<1>6. OutcomeIsSeen'
  BY DEF JobInv, CheckTarget, Goto, processes, OutcomeIsSeen, Watched
<1>7. CompletionSettles'
  BY DEF JobInv, CheckTarget, tables, processes, CompletionSettles
<1>8. TargetIsOwned'
  BY DEF JobInv, CheckTarget, tables, TargetIsOwned
<1>9. RowTellsOutcome'
  BY DEF JobInv, CheckTarget, tables, processes, RowTellsOutcome
<1> QED BY <1>1, <1>2, <1>3, <1>4, <1>5, <1>6, <1>7, <1>8, <1>9 DEF JobInv

\* The row is inserted under a new ID, or it is not and the request ends.
LEMMA CreateRowMoves ==
  ASSUME NEW c \in Caller, CreateRow(c)
  PROVE  \/ \E j \in Job :
              /\ row[j] = "none" /\ row' = [row EXCEPT ![j] = "running"]
              /\ keyOf' = [keyOf EXCEPT ![j] = key[c]] /\ cur' = [cur EXCEPT ![c] = j]
              /\ pc' = [pc EXCEPT ![c] = "open"]
         \/ /\ pc' = [pc EXCEPT ![c] = "idle"] /\ cur' = [cur EXCEPT ![c] = None]
            /\ UNCHANGED <<row, keyOf>>
BY DEF CreateRow, NewJob, SetStatus, Goto, Answer

LEMMA CreateRowKeeps ==
  ASSUME JobInv, NEW c \in Caller, CreateRow(c)
  PROVE  JobInv'
<1>1. TypeOK'
  BY CreateRowMoves DEF JobInv, CreateRow, processes, TypeOK
<1>2. DeadIsEmpty'
  BY DEF JobInv, CreateRow, DeadIsEmpty
<1>3. HeldIsPrivate'
  <2>1. CASE pc'[c] = "idle"
    BY CreateRowMoves, <2>1 DEF JobInv, CreateRow, HeldIsPrivate, Held, TypeOK
  <2>2. CASE pc'[c] = "open"
    <3>1. PICK j \in Job : /\ row[j] = "none" /\ row' = [row EXCEPT ![j] = "running"]
                           /\ keyOf' = [keyOf EXCEPT ![j] = key[c]] /\ cur' = [cur EXCEPT ![c] = j]
                           /\ pc' = [pc EXCEPT ![c] = "open"]
      BY CreateRowMoves, <2>2 DEF JobInv, TypeOK
    <3>2. comp[j] = "none"
      BY <3>1 DEF JobInv, CompletionSettles, TypeOK
    <3>3. \A e \in Caller : Held(e) => cur[e] # j
      BY <3>1 DEF JobInv, HeldIsPrivate
    <3> QED BY <3>1, <3>2, <3>3 DEF JobInv, CreateRow, HeldIsPrivate, Held, TypeOK
  <2> QED BY CreateRowMoves, <2>1, <2>2 DEF JobInv, TypeOK
<1>4. StartedOnce'
  BY DEF JobInv, CreateRow, Goto, Answer, NewJob, processes, StartedOnce, TypeOK, Held,
     CompletionSettles
<1>5. KillKnows'
  BY DEF JobInv, CreateRow, Goto, Answer, KillKnows, TypeOK
<1>6. OutcomeIsSeen'
  BY DEF JobInv, CreateRow, Goto, Answer, processes, OutcomeIsSeen, TypeOK, Watched
<1>7. CompletionSettles'
  BY DEF JobInv, CreateRow, SetStatus, processes, CompletionSettles, TypeOK
<1>8. TargetIsOwned'
  BY DEF JobInv, CreateRow, NewJob, TargetIsOwned, TypeOK, CompletionSettles
<1>9. RowTellsOutcome'
  BY DEF JobInv, CreateRow, SetStatus, NewJob, processes, RowTellsOutcome, TypeOK, CompletionSettles
<1> QED BY <1>1, <1>2, <1>3, <1>4, <1>5, <1>6, <1>7, <1>8, <1>9 DEF JobInv

LEMMA OpenLogKeeps ==
  ASSUME JobInv, NEW c \in Caller, OpenLog(c)
  PROVE  JobInv'
<1>1. TypeOK'
  BY DEF JobInv, OpenLog, Goto, Answer, tables, processes, TypeOK
<1>2. DeadIsEmpty'
  BY DEF JobInv, OpenLog, DeadIsEmpty
<1>3. HeldIsPrivate'
  <2>1. CASE Goto(c, "exec") /\ UNCHANGED cur
    BY <2>1 DEF JobInv, OpenLog, Goto, tables, HeldIsPrivate, Held
  <2>2. CASE Answer(c)
    BY <2>2 DEF JobInv, OpenLog, Goto, Answer, tables, HeldIsPrivate, Held, TypeOK
  <2> QED BY <2>1, <2>2 DEF OpenLog
<1>4. StartedOnce'
  BY DEF JobInv, OpenLog, Goto, Answer, processes, StartedOnce, TypeOK, Held
<1>5. KillKnows'
  BY DEF JobInv, OpenLog, Goto, Answer, KillKnows, TypeOK
<1>6. OutcomeIsSeen'
  BY DEF JobInv, OpenLog, Goto, Answer, processes, OutcomeIsSeen, TypeOK, Watched
<1>7. CompletionSettles'
  BY DEF JobInv, OpenLog, tables, processes, CompletionSettles
<1>8. TargetIsOwned'
  BY DEF JobInv, OpenLog, tables, TargetIsOwned
<1>9. RowTellsOutcome'
  BY DEF JobInv, OpenLog, tables, processes, RowTellsOutcome
<1> QED BY <1>1, <1>2, <1>3, <1>4, <1>5, <1>6, <1>7, <1>8, <1>9 DEF JobInv

LEMMA ExecKeeps ==
  ASSUME JobInv, NEW c \in Caller, Exec(c)
  PROVE  JobInv'
<1>1. TypeOK'
  <2>1. pc' \in [Caller -> {"idle", "create", "open", "exec", "register",
                              "recordFail", "retryFail", "kill"}]
    BY DEF JobInv, Exec, Goto, TypeOK
  <2>2. proc' \in [Job -> {"none", "up", "exited", "reaped"}] /\ pipes' \in [Job -> BOOLEAN]
    BY DEF JobInv, Exec, TypeOK
  <2> QED BY <2>1, <2>2 DEF JobInv, Exec, tables, TypeOK
<1>2. DeadIsEmpty'
  BY DEF JobInv, Exec, DeadIsEmpty
<1>3. HeldIsPrivate'
  BY DEF JobInv, Exec, Goto, tables, HeldIsPrivate, TypeOK, Held
<1>4. StartedOnce'
  BY DEF JobInv, Exec, Goto, StartedOnce, TypeOK, HeldIsPrivate, Held
<1>5. KillKnows'
  BY DEF JobInv, Exec, Goto, KillKnows, TypeOK
<1>6. OutcomeIsSeen'
  BY DEF JobInv, Exec, Goto, OutcomeIsSeen, TypeOK, Watched
<1>7. CompletionSettles'
  BY DEF JobInv, Exec, tables, CompletionSettles, TypeOK, HeldIsPrivate, Held
<1>8. TargetIsOwned'
  BY DEF JobInv, Exec, tables, TargetIsOwned
<1>9. RowTellsOutcome'
  BY DEF JobInv, Exec, tables, RowTellsOutcome
<1> QED BY <1>1, <1>2, <1>3, <1>4, <1>5, <1>6, <1>7, <1>8, <1>9 DEF JobInv

LEMMA RecordFailKeeps ==
  ASSUME JobInv, NEW c \in Caller, RecordFail(c)
  PROVE  JobInv'
<1>1. TypeOK'
  BY DEF JobInv, RecordFail, SetStatus, Goto, Answer, processes, TypeOK, Terminal
<1>2. DeadIsEmpty'
  BY DEF JobInv, RecordFail, DeadIsEmpty
<1>3. HeldIsPrivate'
  BY DEF JobInv, RecordFail, SetStatus, Goto, Answer, HeldIsPrivate, TypeOK, Held
<1>4. StartedOnce'
  BY DEF JobInv, RecordFail, Goto, Answer, processes, StartedOnce, TypeOK, Held
<1>5. KillKnows'
  BY DEF JobInv, RecordFail, Goto, Answer, KillKnows, TypeOK
<1>6. OutcomeIsSeen'
  BY DEF JobInv, RecordFail, Goto, Answer, processes, OutcomeIsSeen, TypeOK, Watched
<1>7. CompletionSettles'
  BY DEF JobInv, RecordFail, SetStatus, processes, CompletionSettles, TypeOK, Held, StartedOnce
<1>8. TargetIsOwned'
  BY DEF JobInv, RecordFail, TargetIsOwned
<1>9. RowTellsOutcome'
  BY DEF JobInv, RecordFail, SetStatus, processes, RowTellsOutcome, TypeOK, HeldIsPrivate, Held
<1> QED BY <1>1, <1>2, <1>3, <1>4, <1>5, <1>6, <1>7, <1>8, <1>9 DEF JobInv

LEMMA RegisterKeeps ==
  ASSUME JobInv, NEW c \in Caller, Register(c)
  PROVE  JobInv'
<1>1. TypeOK'
  BY DEF JobInv, Register, CompTo, Goto, Answer, processes, TypeOK, HeldIsPrivate, Held
<1>2. DeadIsEmpty'
  BY DEF JobInv, Register, DeadIsEmpty
<1>3. HeldIsPrivate'
  BY DEF JobInv, Register, CompTo, Goto, Answer, HeldIsPrivate, TypeOK, Held
<1>4. StartedOnce'
  BY DEF JobInv, Register, Goto, Answer, processes, StartedOnce, TypeOK, Held
<1>5. KillKnows'
  BY DEF JobInv, Register, Goto, Answer, KillKnows
<1>6. OutcomeIsSeen'
  BY DEF JobInv, Register, CompTo, Goto, Answer, processes, OutcomeIsSeen, Watched
<1>7. CompletionSettles'
  BY DEF JobInv, Register, CompTo, processes, CompletionSettles, HeldIsPrivate, Held, StartedOnce
<1>8. TargetIsOwned'
  BY DEF JobInv, Register, CompTo, TargetIsOwned, TypeOK, HeldIsPrivate, Held
<1>9. RowTellsOutcome'
  BY DEF JobInv, Register, CompTo, processes, RowTellsOutcome
<1> QED BY <1>1, <1>2, <1>3, <1>4, <1>5, <1>6, <1>7, <1>8, <1>9 DEF JobInv

LEMMA FindActiveKeeps ==
  ASSUME JobInv, NEW c \in Caller, NEW j \in Job, FindActive(c, j)
  PROVE  JobInv'
<1>1. TypeOK'
  BY DEF JobInv, FindActive, Goto, tables, processes, TypeOK
<1>2. DeadIsEmpty'
  BY DEF FindActive, DeadIsEmpty
<1>3. HeldIsPrivate'
  BY DEF JobInv, FindActive, Goto, tables, HeldIsPrivate, Held
<1>4. StartedOnce'
  BY DEF JobInv, FindActive, Goto, processes, StartedOnce, Held
<1>5. KillKnows'
  BY DEF JobInv, FindActive, Goto, KillKnows, TypeOK
<1>6. OutcomeIsSeen'
  BY DEF JobInv, FindActive, Goto, processes, OutcomeIsSeen, Watched
<1>7. CompletionSettles'
  BY DEF JobInv, FindActive, tables, processes, CompletionSettles
<1>8. TargetIsOwned'
  BY DEF JobInv, FindActive, tables, TargetIsOwned
<1>9. RowTellsOutcome'
  BY DEF JobInv, FindActive, tables, processes, RowTellsOutcome
<1> QED BY <1>1, <1>2, <1>3, <1>4, <1>5, <1>6, <1>7, <1>8, <1>9 DEF JobInv

LEMMA KillKeeps ==
  ASSUME JobInv, NEW c \in Caller, Kill(c)
  PROVE  JobInv'
<1>1. TypeOK'
  <2>1. /\ pc' \in [Caller -> {"idle", "create", "open", "exec", "register",
                                 "recordFail", "retryFail", "kill"}]
        /\ cur' \in [Caller -> Job \cup {None}]
    BY DEF JobInv, Kill, Answer, Goto, TypeOK
  <2>2. killed' \in [Job -> BOOLEAN]
    BY DEF JobInv, Kill, TypeOK
  <2> QED BY <2>1, <2>2 DEF JobInv, Kill, tables, TypeOK
<1>2. DeadIsEmpty'
  BY DEF JobInv, Kill, DeadIsEmpty
<1>3. HeldIsPrivate'
  BY DEF JobInv, Kill, Answer, Goto, tables, HeldIsPrivate, Held
<1>4. StartedOnce'
  BY DEF JobInv, Kill, Answer, Goto, StartedOnce, Held
<1>5. KillKnows'
  BY DEF JobInv, Kill, Answer, Goto, KillKnows, TypeOK
<1>6. OutcomeIsSeen'
  BY DEF JobInv, Kill, Answer, Goto, OutcomeIsSeen, Watched
<1>7. CompletionSettles'
  BY DEF JobInv, Kill, tables, CompletionSettles
<1>8. TargetIsOwned'
  BY DEF JobInv, Kill, tables, TargetIsOwned
<1>9. RowTellsOutcome'
  BY DEF JobInv, Kill, tables, RowTellsOutcome
<1> QED BY <1>1, <1>2, <1>3, <1>4, <1>5, <1>6, <1>7, <1>8, <1>9 DEF JobInv

LEMMA ExitKeeps ==
  ASSUME JobInv, NEW j \in Job, Exit(j)
  PROVE  JobInv'
<1>1. TypeOK'
  BY DEF JobInv, Exit, goroutines, tables, TypeOK, Terminal
<1>2. DeadIsEmpty'
  BY DEF JobInv, Exit, goroutines, DeadIsEmpty
<1>3. HeldIsPrivate'
  BY DEF JobInv, Exit, goroutines, tables, HeldIsPrivate, Held
<1>4. StartedOnce'
  BY DEF JobInv, Exit, goroutines, StartedOnce, Held
<1>5. KillKnows'
  BY DEF JobInv, Exit, goroutines, KillKnows
<1>6. OutcomeIsSeen'
  <2>1. \A i \in Job : i # j =>
          proc'[i] = proc[i] /\ outcome'[i] = outcome[i] /\ pipes'[i] = pipes[i]
    BY DEF JobInv, Exit, TypeOK
  <2>2. \A i \in Job : Watched(i)' <=> Watched(i)
    BY DEF Exit, goroutines, Watched
  <2>3. Watched(j) => outcome'[j] \in Terminal
    <3>1. CASE pipes[j]
      BY <3>1 DEF JobInv, Exit, TypeOK, Terminal
    <3>2. CASE ~pipes[j]
      BY <3>2 DEF JobInv, Exit, OutcomeIsSeen
    <3> QED BY <3>1, <3>2
  <2>4. proc'[j] = "exited"
    BY DEF JobInv, Exit, TypeOK
  <2> QED BY <2>1, <2>2, <2>3, <2>4 DEF JobInv, OutcomeIsSeen
<1>7. CompletionSettles'
  BY DEF JobInv, Exit, goroutines, tables, CompletionSettles
<1>8. TargetIsOwned'
  BY DEF JobInv, Exit, goroutines, tables, TargetIsOwned
<1>9. RowTellsOutcome'
  BY DEF JobInv, Exit, goroutines, tables, RowTellsOutcome, TypeOK, CompletionSettles
<1> QED BY <1>1, <1>2, <1>3, <1>4, <1>5, <1>6, <1>7, <1>8, <1>9 DEF JobInv

LEMMA PipesCloseKeeps ==
  ASSUME JobInv, NEW j \in Job, PipesClose(j)
  PROVE  JobInv'
<1>1. TypeOK'
  BY DEF JobInv, PipesClose, goroutines, tables, TypeOK
<1>2. DeadIsEmpty'
  BY DEF JobInv, PipesClose, goroutines, DeadIsEmpty
<1>3. HeldIsPrivate'
  BY DEF JobInv, PipesClose, goroutines, tables, HeldIsPrivate, Held
<1>4. StartedOnce'
  BY DEF JobInv, PipesClose, goroutines, StartedOnce, Held
<1>5. KillKnows'
  BY DEF JobInv, PipesClose, goroutines, KillKnows
<1>6. OutcomeIsSeen'
  BY DEF JobInv, PipesClose, goroutines, OutcomeIsSeen, Watched
<1>7. CompletionSettles'
  BY DEF JobInv, PipesClose, goroutines, tables, CompletionSettles
<1>8. TargetIsOwned'
  BY DEF JobInv, PipesClose, goroutines, tables, TargetIsOwned
<1>9. RowTellsOutcome'
  BY DEF JobInv, PipesClose, goroutines, tables, RowTellsOutcome
<1> QED BY <1>1, <1>2, <1>3, <1>4, <1>5, <1>6, <1>7, <1>8, <1>9 DEF JobInv

LEMMA ReapKeeps ==
  ASSUME JobInv, NEW j \in Job, Reap(j)
  PROVE  JobInv'
<1>1. TypeOK'
  BY DEF JobInv, Reap, CompTo, tables, TypeOK
<1>2. DeadIsEmpty'
  BY DEF JobInv, Reap, DeadIsEmpty
<1>3. HeldIsPrivate'
  BY DEF JobInv, Reap, CompTo, tables, HeldIsPrivate, Held
<1>4. StartedOnce'
  BY DEF JobInv, Reap, StartedOnce, HeldIsPrivate, Held
<1>5. KillKnows'
  BY DEF JobInv, Reap, KillKnows
<1>6. OutcomeIsSeen'
  BY DEF JobInv, Reap, CompTo, OutcomeIsSeen, Watched
<1>7. CompletionSettles'
  BY DEF JobInv, Reap, CompTo, tables, CompletionSettles, TypeOK
<1>8. TargetIsOwned'
  BY DEF JobInv, Reap, CompTo, tables, TargetIsOwned
<1>9. RowTellsOutcome'
  BY DEF JobInv, Reap, CompTo, tables, RowTellsOutcome
<1> QED BY <1>1, <1>2, <1>3, <1>4, <1>5, <1>6, <1>7, <1>8, <1>9 DEF JobInv

LEMMA CleanupKeeps ==
  ASSUME JobInv, NEW j \in Job, Cleanup(j)
  PROVE  JobInv'
<1>1. TypeOK'
  BY DEF JobInv, Cleanup, CompTo, processes, TypeOK
<1>2. DeadIsEmpty'
  BY DEF JobInv, Cleanup, DeadIsEmpty
<1>3. HeldIsPrivate'
  BY DEF JobInv, Cleanup, CompTo, HeldIsPrivate, Held
<1>4. StartedOnce'
  BY DEF JobInv, Cleanup, processes, StartedOnce, Held
<1>5. KillKnows'
  BY DEF JobInv, Cleanup, KillKnows
<1>6. OutcomeIsSeen'
  BY DEF JobInv, Cleanup, CompTo, processes, OutcomeIsSeen, Watched
<1>7. CompletionSettles'
  BY DEF JobInv, Cleanup, CompTo, processes, CompletionSettles
<1>8. TargetIsOwned'
  BY DEF JobInv, Cleanup, CompTo, TargetIsOwned, TypeOK
<1>9. RowTellsOutcome'
  BY DEF JobInv, Cleanup, CompTo, processes, RowTellsOutcome
<1> QED BY <1>1, <1>2, <1>3, <1>4, <1>5, <1>6, <1>7, <1>8, <1>9 DEF JobInv

LEMMA FinishKeeps ==
  ASSUME JobInv, NEW j \in Job, Finish(j)
  PROVE  JobInv'
<1>1. TypeOK'
  BY DEF JobInv, Finish, SetStatus, StatusOf, CompTo, processes, TypeOK
<1>2. DeadIsEmpty'
  BY DEF JobInv, Finish, DeadIsEmpty
<1>3. HeldIsPrivate'
  BY DEF JobInv, Finish, SetStatus, CompTo, HeldIsPrivate, TypeOK, Held
<1>4. StartedOnce'
  BY DEF JobInv, Finish, processes, StartedOnce, Held
<1>5. KillKnows'
  BY DEF JobInv, Finish, KillKnows
<1>6. OutcomeIsSeen'
  BY DEF JobInv, Finish, CompTo, processes, OutcomeIsSeen, TypeOK, Watched
<1>7. CompletionSettles'
  BY DEF JobInv, Finish, SetStatus, StatusOf, CompTo, processes, CompletionSettles, TypeOK,
     OutcomeIsSeen, Watched, Terminal
<1>8. TargetIsOwned'
  BY DEF JobInv, Finish, CompTo, TargetIsOwned, TypeOK
<1>9. RowTellsOutcome'
  BY DEF JobInv, Finish, SetStatus, StatusOf, CompTo, processes, RowTellsOutcome, TypeOK,
     CompletionSettles
<1> QED BY <1>1, <1>2, <1>3, <1>4, <1>5, <1>6, <1>7, <1>8, <1>9 DEF JobInv

LEMMA CrashKeeps ==
  ASSUME JobInv, Crash
  PROVE  JobInv'
<1>1. TypeOK'
  BY DEF JobInv, Crash, TypeOK
<1>2. DeadIsEmpty'
  BY DEF Crash, DeadIsEmpty
<1>3. HeldIsPrivate'
  BY DEF Crash, HeldIsPrivate, Held
<1>4. StartedOnce'
  BY DEF Crash, StartedOnce, Held
<1>5. KillKnows'
  BY DEF Crash, KillKnows
<1>6. OutcomeIsSeen'
  BY DEF Crash, OutcomeIsSeen, Watched
<1>7. CompletionSettles'
  BY DEF JobInv, Crash, CompletionSettles
<1>8. TargetIsOwned'
  BY DEF Crash, TargetIsOwned
<1>9. RowTellsOutcome'
  BY DEF Crash, RowTellsOutcome
<1> QED BY <1>1, <1>2, <1>3, <1>4, <1>5, <1>6, <1>7, <1>8, <1>9 DEF JobInv

LEMMA BootKeeps ==
  ASSUME JobInv, Boot
  PROVE  JobInv'
<1>1. TypeOK'
  BY DEF JobInv, Boot, goroutines, processes, TypeOK, Terminal
<1>2. DeadIsEmpty'
  BY DEF Boot, DeadIsEmpty
<1>3. HeldIsPrivate'
  BY DEF JobInv, Boot, goroutines, HeldIsPrivate, DeadIsEmpty, Held
<1>4. StartedOnce'
  BY DEF JobInv, Boot, goroutines, StartedOnce, DeadIsEmpty, Held
<1>5. KillKnows'
  BY DEF JobInv, Boot, goroutines, KillKnows
<1>6. OutcomeIsSeen'
  BY DEF JobInv, Boot, goroutines, OutcomeIsSeen, DeadIsEmpty, Watched
<1>7. CompletionSettles'
  BY DEF JobInv, Boot, goroutines, processes, CompletionSettles, DeadIsEmpty
<1>8. TargetIsOwned'
  BY DEF JobInv, Boot, TargetIsOwned, TypeOK, DeadIsEmpty
<1>9. RowTellsOutcome'
  BY DEF JobInv, Boot, goroutines, RowTellsOutcome, DeadIsEmpty
<1> QED BY <1>1, <1>2, <1>3, <1>4, <1>5, <1>6, <1>7, <1>8, <1>9 DEF JobInv

\* The invariant is preserved by every step.
LEMMA NextJobInv == JobInv /\ [Next]_vars => JobInv'
<1> SUFFICES ASSUME JobInv, [Next]_vars PROVE JobInv'
  OBVIOUS
<1>1. ASSUME NEW c \in Caller, NEW k \in Key, CheckTarget(c, k) PROVE JobInv'
  BY <1>1, CheckTargetKeeps
<1>2. ASSUME NEW c \in Caller, NEW j \in Job, FindActive(c, j) PROVE JobInv'
  BY <1>2, FindActiveKeeps
<1>3. ASSUME NEW c \in Caller, RunJob(c) \/ Kill(c) PROVE JobInv'
  BY <1>3, CreateRowKeeps, OpenLogKeeps, ExecKeeps, RecordFailKeeps, RegisterKeeps,
     KillKeeps DEF RunJob
<1>4. ASSUME NEW j \in Job, Exit(j) \/ PipesClose(j) \/ Complete(j) PROVE JobInv'
  BY <1>4, ExitKeeps, PipesCloseKeeps, ReapKeeps, CleanupKeeps, FinishKeeps DEF Complete
<1>5. CASE Crash \/ Boot
  BY <1>5, CrashKeeps, BootKeeps
<1>6. CASE UNCHANGED vars
  BY <1>6 DEF JobInv, vars, TypeOK, DeadIsEmpty, HeldIsPrivate, Held, StartedOnce, KillKnows,
     OutcomeIsSeen, Watched, CompletionSettles, TargetIsOwned, RowTellsOutcome
<1> QED BY <1>1, <1>2, <1>3, <1>4, <1>5, <1>6 DEF Next

LEMMA Tracking == Spec => []JobInv
BY InitJob, NextJobInv, PTL DEF Spec

\* A key that refuses new jobs will accept them again: Provider.targets holds it for
\* a job whose completion goroutine has not yet removed it, even when two jobs of
\* one key have overlapped.
THEOREM TargetIsOwnedTheorem == Spec => []TargetIsOwned
<1>1. JobInv => TargetIsOwned
  BY DEF JobInv
<1> QED BY <1>1, Tracking, PTL

\* The row of a completed job tells how its brew ended, whatever Cancel, the pipes
\* and other jobs did meanwhile; the exception is a row whose UPDATE failed twice,
\* which still says running.
THEOREM RowTellsOutcomeTheorem == Spec => []RowTellsOutcome
<1>1. JobInv => RowTellsOutcome
  BY DEF JobInv
<1> QED BY <1>1, Tracking, PTL

-----------------------------------------------------------------------------
(* The rows: who settles them, and what their readers see.                    *)

\* A goroutine of this daemon that will settle the row: Owner, or its completion.
Settling(j) == \/ \E c \in Caller : Owner(c, j)
               \/ comp[j] \in {"wait", "cleanup", "finish", "retry"}

\* A row changes from nothing to running, or from running to an outcome.
LEMMA RowStep ==
  ASSUME JobInv, [Next]_vars
  PROVE  \/ UNCHANGED row
         \/ \E j \in Job : row[j] = "none" /\ row' = [row EXCEPT ![j] = "running"]
         \/ \E j \in Job, r \in Terminal : row[j] = "running" /\ row' = [row EXCEPT ![j] = r]
         \/ row' = [j \in Job |-> IF row[j] = "running" THEN "failed" ELSE row[j]]
<1>1. ASSUME NEW c \in Caller, RunJob(c)
      PROVE  \/ UNCHANGED row
             \/ \E j \in Job : row[j] = "none" /\ row' = [row EXCEPT ![j] = "running"]
             \/ \E j \in Job, r \in Terminal : row[j] = "running" /\ row' = [row EXCEPT ![j] = r]
  <2>1. CASE CreateRow(c)
    BY <2>1 DEF CreateRow, NewJob, SetStatus
  <2>2. CASE RecordFail(c)
    BY <2>2 DEF JobInv, HeldIsPrivate, Held, RecordFail, SetStatus, Terminal
  <2>3. CASE OpenLog(c) \/ Exec(c) \/ Register(c)
    BY <2>3 DEF OpenLog, Exec, Register, tables
  <2> QED BY <1>1, <2>1, <2>2, <2>3 DEF RunJob
<1>2. ASSUME NEW j \in Job, Finish(j)
      PROVE  \/ UNCHANGED row
             \/ \E r \in Terminal : row[j] = "running" /\ row' = [row EXCEPT ![j] = r]
  BY <1>2 DEF JobInv, CompletionSettles, OutcomeIsSeen, Watched, Finish, SetStatus, StatusOf
<1>3. ASSUME NEW c \in Caller,
             Kill(c) \/ (\E k \in Key : CheckTarget(c, k)) \/ \E j \in Job : FindActive(c, j)
      PROVE  UNCHANGED row
  BY <1>3 DEF Kill, CheckTarget, FindActive, tables
<1>4. ASSUME NEW j \in Job, Exit(j) \/ PipesClose(j) \/ Reap(j) \/ Cleanup(j)
      PROVE  UNCHANGED row
  BY <1>4 DEF Exit, PipesClose, Reap, Cleanup, tables
<1>5. CASE Crash \/ UNCHANGED vars
  BY <1>5 DEF Crash, vars
<1>6. CASE Boot
  BY <1>6 DEF Boot
<1> QED BY <1>1, <1>2, <1>3, <1>4, <1>5, <1>6 DEF Next, Complete

\* The faults do not change.
LEMMA FaultsStay == [Next]_vars => UNCHANGED faults
BY DEF vars, Next, CheckTarget, FindActive, RunJob, CreateRow, OpenLog, Exec, RecordFail,
   Register, Kill, Exit, PipesClose, Complete, Reap, Cleanup, Finish, Crash, Boot

LEMMA NextRowHasOwner ==
  ASSUME JobInv, RunningRowHasOwner, [Next]_vars
  PROVE  RunningRowHasOwner'
<1> SUFFICES ASSUME up', faults' \cap {"write", "log"} = {}, NEW j \in Job, row'[j] = "running"
             PROVE  Settling(j)'
  BY DEF RunningRowHasOwner, Settling
<1>0. "log" \notin faults /\ "write" \notin faults
  BY FaultsStay
<1>1. up /\ row[j] = "running" => Settling(j)
  BY <1>0 DEF RunningRowHasOwner, Settling
<1>2. ASSUME NEW c \in Caller, CreateRow(c) PROVE Settling(j)'
  <2>1. up /\ ~Held(c) /\ UNCHANGED comp
    BY <1>2 DEF CreateRow, Held
  <2>2. CASE UNCHANGED row /\ \A e \in Caller : e # c => pc'[e] = pc[e] /\ cur'[e] = cur[e]
    BY <2>1, <2>2, <1>1 DEF Settling, Owner, Held
  <2>3. ASSUME NEW i \in Job, row' = [row EXCEPT ![i] = "running"],
               cur' = [cur EXCEPT ![c] = i], pc' = [pc EXCEPT ![c] = "open"]
        PROVE  Settling(j)'
    <3>1. CASE i = j
      BY <2>3, <3>1 DEF Settling, Owner, JobInv, TypeOK
    <3>2. CASE i # j
      BY <2>1, <2>3, <3>2, <1>1 DEF Settling, Owner, Held
    <3> QED BY <3>1, <3>2
  <2>4. \/ UNCHANGED row /\ \A e \in Caller : e # c => pc'[e] = pc[e] /\ cur'[e] = cur[e]
        \/ \E i \in Job : /\ row' = [row EXCEPT ![i] = "running"]
                          /\ cur' = [cur EXCEPT ![c] = i] /\ pc' = [pc EXCEPT ![c] = "open"]
    BY <1>2, CreateRowMoves DEF JobInv, TypeOK
  <2> QED BY <2>2, <2>3, <2>4
<1>3. ASSUME NEW c \in Caller, OpenLog(c) \/ Exec(c) \/ RecordFail(c) \/ Register(c)
      PROVE  Settling(j)'
  <2>1. up /\ Held(c) /\ cur[c] \in Job /\ row[cur[c]] = "running"
    BY <1>3 DEF OpenLog, Exec, RecordFail, Register, JobInv, HeldIsPrivate, Held
  <2>2. CASE OpenLog(c) \/ Exec(c)
    BY <2>2, <2>1, <1>0, <1>1 DEF OpenLog, Exec, tables, Goto, Settling, Owner, JobInv, TypeOK
  <2>3. CASE RecordFail(c)
    BY <2>3, <2>1, <1>0, <1>1 DEF RecordFail, SetStatus, Goto, Answer, Settling, Owner, JobInv,
       TypeOK
  <2>4. CASE Register(c)
    BY <2>4, <2>1, <1>1 DEF Register, CompTo, Goto, Answer, Settling, Owner, JobInv, TypeOK
  <2> QED BY <1>3, <2>2, <2>3, <2>4
<1>4. ASSUME NEW c \in Caller,
             Kill(c) \/ (\E k \in Key : CheckTarget(c, k)) \/ \E i \in Job : FindActive(c, i)
      PROVE  Settling(j)'
  BY <1>4, <1>1 DEF Kill, CheckTarget, FindActive, tables, Goto, Answer, Settling, Owner, JobInv,
     TypeOK
<1>5. ASSUME NEW i \in Job, Exit(i) \/ PipesClose(i) PROVE Settling(j)'
  BY <1>5, <1>1 DEF Exit, PipesClose, tables, goroutines, Settling, Owner
<1>6. ASSUME NEW i \in Job, Reap(i) \/ Cleanup(i) PROVE Settling(j)'
  BY <1>6, <1>1 DEF Reap, Cleanup, CompTo, tables, Settling, Owner, JobInv, TypeOK
<1>7. ASSUME NEW i \in Job, Finish(i) PROVE Settling(j)'
  <2>1. up /\ outcome[i] \in Terminal
    BY <1>7 DEF Finish, JobInv, CompletionSettles, OutcomeIsSeen, Watched
  <2> QED BY <1>7, <2>1, <1>0, <1>1 DEF Finish, SetStatus, StatusOf, CompTo, Settling, Owner,
             JobInv, TypeOK, Terminal
<1>8. CASE UNCHANGED vars
  BY <1>8, <1>1 DEF vars, Settling, Owner
<1>9. ~Crash
  BY DEF Crash
<1>10. CASE Boot
  BY <1>10, <1>0 DEF Boot
<1> QED BY <1>2, <1>3, <1>4, <1>5, <1>6, <1>7, <1>8, <1>9, <1>10 DEF Next, RunJob, Complete

\* While the daemon runs, a row that says running has a goroutine of this daemon
\* that will settle it, unless the database or the opening of a log file fails:
\* runJob hands each row to one completion goroutine, and the sweep at boot leaves
\* no row of an earlier daemon running.
THEOREM RunningRowHasOwnerTheorem == Spec => []RunningRowHasOwner
<1>1. Init => RunningRowHasOwner
  BY DEF Init, RunningRowHasOwner
<1>2. JobInv /\ RunningRowHasOwner /\ [Next]_vars => RunningRowHasOwner'
  BY NextRowHasOwner
<1> QED BY <1>1, <1>2, Tracking, PTL DEF Spec

\* The jobs implement the life cycle of a row, for every set of faults and through
\* any number of crashes: a row begins running and is settled once, by its
\* completion, by the goroutine that could not start it, or by the sweep at boot.
THEOREM JobsFollowLifecycleTheorem == Spec => JobsFollowLifecycle
<1>1. Init => JobRows!Init
  BY DEF Init, JobRows!Init
<1>2. JobInv /\ [Next]_vars => [JobRows!Next]_row
  <2> SUFFICES ASSUME JobInv, [Next]_vars PROVE [JobRows!Next]_row
    OBVIOUS
  <2>1. ASSUME NEW j \in Job, row[j] = "none", row' = [row EXCEPT ![j] = "running"]
        PROVE  JobRows!Next
    BY <2>1 DEF JobRows!Next, JobRows!Begin
  <2>2. ASSUME NEW R \in SUBSET {i \in Job : row[i] = "running"}, NEW s \in [R -> Terminal],
               row' = [i \in Job |-> IF i \in R THEN s[i] ELSE row[i]]
        PROVE  JobRows!Next
    BY <2>2 DEF JobRows!Next, JobRows!Settle
  <2>3. ASSUME NEW j \in Job, NEW r \in Terminal, row[j] = "running", row' = [row EXCEPT ![j] = r]
        PROVE  JobRows!Next
    <3> DEFINE s == [i \in {j} |-> r]
    <3>1. row' = [i \in Job |-> IF i \in {j} THEN s[i] ELSE row[i]]
      BY <2>3 DEF JobInv, TypeOK
    <3>2. {j} \in SUBSET {i \in Job : row[i] = "running"} /\ s \in [{j} -> Terminal]
      BY <2>3
    <3> QED BY <3>1, <3>2, <2>2
  <2>4. ASSUME row' = [i \in Job |-> IF row[i] = "running" THEN "failed" ELSE row[i]]
        PROVE  JobRows!Next
    <3> DEFINE R == {i \in Job : row[i] = "running"}
               s == [i \in R |-> "failed"]
    <3>1. row' = [i \in Job |-> IF i \in R THEN s[i] ELSE row[i]]
      BY <2>4
    <3>2. R \in SUBSET R /\ s \in [R -> Terminal]
      BY DEF Terminal
    <3> QED BY <3>1, <3>2, <2>2
  <2> QED BY RowStep, <2>1, <2>3, <2>4
<1> QED BY <1>1, <1>2, Tracking, PTL DEF Spec, JobsFollowLifecycle, JobRows!Spec
=============================================================================
