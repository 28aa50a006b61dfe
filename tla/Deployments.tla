------------------------------ MODULE Deployments ------------------------------
(***************************************************************************)
(* The deployment engine of internal/domain/deployment: Deploy and         *)
(* Rollback, step by step, over SSH sessions (internal/providers/remote/   *)
(* ssh), the rows they write and the checkouts they change.                *)
(*                                                                         *)
(* A remote command is one step.  Session.Exec returns when its context    *)
(* ends although the command goes on at the other side, and so does the    *)
(* command of a daemon that dies: its effect then comes late.              *)
(***************************************************************************)
EXTENDS Naturals, Sequences, SequencesExt

CONSTANTS
  Caller,      \* API goroutines
  Target,      \* deployment targets of one project
  Place,       \* a server and a path on it
  PlaceOf,     \* Target -> Place
  MaxDeploy,   \* bounds the number of deployments
  MaxUnruly,   \* ... and their number where requests overlap or are cut off
  MaxCommit,   \* bounds the number of pushes
  FaultSets

ASSUME DeployAssumption == /\ PlaceOf \in [Target -> Place]
                           /\ MaxDeploy \in Nat /\ MaxUnruly \in Nat /\ MaxCommit \in Nat \ {0}

\* overlap: requests run at the same time; cancel: the client goes away, which ends
\* the context of its request; crash: the daemon dies; write: an UPDATE fails.
ASSUME DeployFaults == FaultSets \subseteq SUBSET {"overlap", "cancel", "crash", "write"}

VARIABLES
  origin,   \* the tip of the branch at the git host
  head,     \* Place -> HEAD of the checkout, 0 without one
  late,     \* <<place, commit>>: a cut-off checkout still at work; 0 for the tip of the branch
  targets,  \* the rows of deployment_targets, oldest first
  dep,      \* deployments: [status, place, commit, back]; 0 for NULL
  loc,      \* each goroutine's step and local variables
  faults    \* the faults of this behaviour (never changes)

Deployment == 1 .. MaxDeploy
Commit     == 0 .. MaxCommit
NoRow      == [status |-> "none", place |-> CHOOSE p \in Place : TRUE, commit |-> 0, back |-> 0]
Idle       == [pc |-> "idle", t |-> CHOOSE t \in Target : TRUE, d |-> 0, back |-> 0, sha |-> 0,
               ref |-> 0, ok |-> TRUE, run |-> 0, step |-> 0]

remote == <<origin, head, late>>

DeployTypeOK ==
  /\ origin \in Commit /\ head \in [Place -> Commit] /\ late \in SUBSET (Place \X Commit)
  /\ targets \in Seq(Target)
  /\ dep \in [Deployment -> [status : {"none", "running", "success", "failed"}, place : Place,
                             commit : Commit, back : Commit]]
  /\ faults \in FaultSets

DeployInit ==
  /\ origin = 1 /\ head = [p \in Place |-> 0] /\ late = {}
  /\ targets = <<>>
  /\ dep = [d \in Deployment |-> NoRow]
  /\ loc = [c \in Caller |-> Idle]
  /\ faults \in FaultSets

At(c, l)   == loc[c].pc = l
Goto(c, l) == loc' = [loc EXCEPT ![c].pc = l]
Here(c)    == PlaceOf[loc[c].t]
Quiet      == \A c \in Caller : At(c, "idle")

Orderly    == faults \cap {"overlap", "cancel", "crash"} = {}

\* A request arrives; without the fault "overlap" only when no other runs.
MayArrive == "overlap" \in faults \/ Quiet

Arrive(c, r) ==
  /\ At(c, "idle") /\ MayArrive
  /\ loc' = [loc EXCEPT ![c] = r]

\* Deploy or Rollback returns: to the client, or to the pipeline's step.
Return(c, ok) ==
  loc' = [loc EXCEPT ![c] = IF loc[c].run = 0 THEN Idle
                            ELSE [Idle EXCEPT !.pc = "stepDone", !.run = loc[c].run,
                                              !.step = loc[c].step, !.ok = ok]]

\* The engine's closure returns an error; the row is settled all the same.
Fails(c) == loc' = [loc EXCEPT ![c].pc = "finish", ![c].ok = FALSE]

-----------------------------------------------------------------------------
(* deployment_targets                                                         *)

createDeploymentTarget(t) ==
  /\ MayArrive /\ t \notin ToSet(targets)
  /\ targets' = Append(targets, t)
  /\ UNCHANGED <<remote, dep, loc, faults>>

deleteDeploymentTarget(t) ==
  /\ MayArrive
  /\ \E i \in DOMAIN targets : targets[i] = t /\ targets' = RemoveAt(targets, i)
  /\ UNCHANGED <<remote, dep, loc, faults>>

-----------------------------------------------------------------------------
(* Deploy                                                                     *)

\* The target and its server are read; what follows uses these copies.
StartDeploy(c, t, run, step) ==
  [Idle EXCEPT !.pc = "create", !.t = t, !.run = run, !.step = step]

deploy(c, t) ==
  /\ t \in ToSet(targets)
  /\ Arrive(c, StartDeploy(c, t, 0, 0))
  /\ UNCHANGED <<remote, targets, dep, faults>>

NoRowYet(d) == dep[d].status = "none"

\* Deployments.create: a row that says running.
CreateRow(c) ==
  /\ At(c, "create")
  /\ \/ \E d \in Deployment :
          /\ NoRowYet(d) /\ (Orderly \/ d <= MaxUnruly) /\ \A e \in 1 .. (d - 1) : ~NoRowYet(e)
          /\ dep' = [dep EXCEPT ![d] = [NoRow EXCEPT !.status = "running", !.place = Here(c)]]
          /\ loc' = [loc EXCEPT ![c].pc = "connect", ![c].d = d]
     \/ Return(c, FALSE) /\ UNCHANGED dep
  /\ UNCHANGED <<remote, targets, faults>>

\* Remote.Connect, then resolveCloneURL: an unreachable server, a key or a token
\* that cannot be had.
Connect(c) ==
  /\ At(c, "connect")
  /\ Goto(c, IF loc[c].ref = 0 THEN "prev" ELSE "restore") \/ Fails(c)
  /\ UNCHANGED <<remote, targets, dep, faults>>

PrevRefAfter(c) ==                         \* mutant of PrevRef
  /\ At(c, "prev")
  /\ loc' = [loc EXCEPT ![c].pc = "checkout", ![c].back = origin]
  /\ UNCHANGED <<remote, targets, dep, faults>>

\* git rev-parse HEAD before anything is changed; no checkout yet, or a command
\* that fails, leaves the reference empty.
PrevRef(c) ==
  /\ At(c, "prev")
  /\ \E b \in {0, head[Here(c)]} : loc' = [loc EXCEPT ![c].pc = "checkout", ![c].back = b]
  /\ UNCHANGED <<remote, targets, dep, faults>>

\* The client is gone: Exec returns the error of the context while the command goes
\* on over there.
GivenUp(c, ref) ==
  /\ "cancel" \in faults
  /\ Fails(c)
  /\ late' = late \cup {<<Here(c), ref>>}
  /\ UNCHANGED head

\* git clone, or fetch, checkout and reset --hard: done, failed or given up.
Checkout(c) ==
  /\ At(c, "checkout")
  /\ \/ head' = [head EXCEPT ![Here(c)] = origin] /\ Goto(c, "sha") /\ UNCHANGED late
     \/ Fails(c) /\ UNCHANGED <<head, late>>
     \/ GivenUp(c, 0)
  /\ UNCHANGED <<origin, targets, dep, faults>>

ShaOfOrigin(c) ==                          \* mutant of Sha
  /\ At(c, "sha")
  /\ loc' = [loc EXCEPT ![c].pc = "afterwards", ![c].sha = origin]
  /\ UNCHANGED <<remote, targets, dep, faults>>

\* git rev-parse HEAD; a failure is tolerated.
Sha(c) ==
  /\ At(c, "sha")
  /\ \E s \in {0, head[Here(c)]} : loc' = [loc EXCEPT ![c].pc = "afterwards", ![c].sha = s]
  /\ UNCHANGED <<remote, targets, dep, faults>>

\* The install command, the restart command and the health check, where the
\* target has them; the first that fails ends it.  Of a rollback only the restart.
Afterwards(c) ==
  /\ At(c, "afterwards")
  /\ Goto(c, "finish") \/ Fails(c)
  /\ UNCHANGED <<remote, targets, dep, faults>>

FinishReopens(c) ==                        \* mutant of Finish
  LET l == loc[c] IN
  /\ At(c, "finish")
  /\ dep' = [dep EXCEPT ![l.d] = [@ EXCEPT !.status = IF l.ok THEN "success" ELSE "none"]]
  /\ Return(c, l.ok)
  /\ UNCHANGED <<remote, targets, faults>>

\* writeLog, whose failure is tolerated, and Deployments.finish, whose failure is
\* returned and leaves the row running; so is that of the Get after it.
Finish(c) ==
  LET l == loc[c] IN
  /\ At(c, "finish")
  /\ \/ /\ dep' = [dep EXCEPT ![l.d] = [@ EXCEPT !.status = IF l.ok THEN "success" ELSE "failed",
                                                 !.commit = l.sha, !.back = l.back]]
        /\ Return(c, l.ok) \/ ("write" \in faults /\ Return(c, FALSE))
     \/ "write" \in faults /\ Return(c, FALSE) /\ UNCHANGED dep
  /\ UNCHANGED <<remote, targets, faults>>

-----------------------------------------------------------------------------
(* Rollback                                                                   *)

\* A deployment with a reference to go back to, and the oldest target of the
\* project; commit_sha of the new row will be that reference, whatever happens.
rollbackDeployment(c, d) ==
  /\ dep[d].back # 0 /\ targets # <<>>
  /\ Arrive(c, [Idle EXCEPT !.pc = "create", !.t = Head(targets), !.ref = dep[d].back, !.sha = dep[d].back])
  /\ UNCHANGED <<remote, targets, dep, faults>>

\* git checkout of the reference: needs a checkout.
Restore(c) ==
  /\ At(c, "restore")
  /\ \/ /\ head[Here(c)] # 0
        /\ head' = [head EXCEPT ![Here(c)] = loc[c].ref]
        /\ Goto(c, "afterwards")
        /\ UNCHANGED late
     \/ Fails(c) /\ UNCHANGED <<head, late>>
     \/ GivenUp(c, loc[c].ref)
  /\ UNCHANGED <<origin, targets, dep, faults>>

-----------------------------------------------------------------------------
(* Surroundings                                                               *)

Push ==
  /\ origin < MaxCommit
  /\ origin' = origin + 1
  /\ UNCHANGED <<head, late, targets, dep, loc, faults>>

\* A command nobody waits for any more takes effect.
LateCheckout(p, ref) ==
  /\ <<p, ref>> \in late
  /\ head' = [head EXCEPT ![p] = IF ref = 0 THEN origin ELSE IF @ = 0 THEN 0 ELSE ref]
  /\ late' = late \ {<<p, ref>>}
  /\ UNCHANGED <<origin, targets, dep, loc, faults>>

\* What the death of the daemon does to this module's variables.
DeployCrash ==
  /\ late' = late \cup {<<Here(c), loc[c].ref>> : c \in {x \in Caller : loc[x].pc \in {"checkout", "restore"}}}
  /\ loc' = [c \in Caller |-> Idle]
  /\ UNCHANGED <<origin, head, targets, dep, faults>>

DeploySteps(c) ==
  \/ CreateRow(c) \/ Connect(c) \/ PrevRef(c) \/ Checkout(c) \/ Sha(c)
  \/ Afterwards(c) \/ Finish(c) \/ Restore(c)

DeployNext ==
  \/ \E c \in Caller :
       \/ \E t \in Target : deploy(c, t)
       \/ \E d \in Deployment : rollbackDeployment(c, d)
       \/ DeploySteps(c)
  \/ \E t \in Target : createDeploymentTarget(t) \/ deleteDeploymentTarget(t)
  \/ \E p \in Place, ref \in Commit : LateCheckout(p, ref)
  \/ Push

-----------------------------------------------------------------------------
(* Properties                                                                 *)

Settled == {d \in Deployment : dep[d].status # "none"}
Before(d) == {e \in Settled : e < d /\ dep[e].place = dep[d].place}

\* One request after the other, none cut off: the latest deployment of a place, if
\* it succeeded, tells which commit lies there, also after rollbacks, pushes and
\* failed deployments in between.
SuccessIsDeployed ==
  Orderly /\ Quiet =>
    \A d \in Settled :
      \/ \E e \in Settled : e > d /\ dep[e].place = dep[d].place
      \/ dep[d].status = "success" => dep[d].commit \in {0, head[dep[d].place]}

\* ... and the history is a chain: the reference a deployment can be rolled back to
\* is the commit of the deployment before it, if that one succeeded.
HistoryIsChained ==
  Orderly =>
    \A d \in Settled : dep[d].back # 0 =>
      \E e \in Before(d) : /\ \A x \in Before(d) : x <= e
                           /\ dep[e].status = "success" => dep[e].commit \in {0, dep[d].back}

\* What the table of deployments promises its readers.
DeploymentRows == INSTANCE RowLifecycle WITH Row <- Deployment, Terminal <- {"success", "failed"},
                                             status <- [d \in Deployment |-> dep[d].status]
=============================================================================
