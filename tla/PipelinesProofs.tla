---------------------------- MODULE PipelinesProofs ----------------------------
(***************************************************************************)
(* Theorems about Pipelines and Deployments for any number of goroutines,  *)
(* targets, places, deployments, runs and pushes, for every definition of  *)
(* a pipeline and under every set of faults.                               *)
(***************************************************************************)
EXTENDS Pipelines, TLAPS

\* Where a goroutine is in Deploy or Rollback, after the INSERT ...
Working == {"connect", "prev", "checkout", "sha", "afterwards", "restore", "finish"}
\* ... and in Engine.Run, between CreateRun and FinishRun.
Between == {"step", "stepDone", "finishRun"}

Loc == [pc : {"idle", "create", "createRun"} \cup Working \cup Between, t : Target, d : {0} \cup Deployment,
        back : Commit, sha : Commit, ref : Commit, ok : BOOLEAN, run : {0} \cup Run, step : Nat]

Types == TypeOK /\ loc \in [Caller -> Loc]

Held(c) == loc[c].pc \in Working

\* A deployment under way has one goroutine, and its row says running.
HeldRow ==
  /\ \A c \in Caller : Held(c) => loc[c].d \in Deployment /\ dep[loc[c].d].status = "running"
  /\ \A c \in Caller : ~Held(c) => loc[c].d = 0
  /\ \A c \in Caller, e \in Caller : Held(c) /\ Held(e) /\ loc[c].d = loc[e].d => c = e

\* So has a run.
HeldRun ==
  /\ \A c \in Caller : loc[c].pc \in Between => loc[c].run # 0
  /\ \A c \in Caller : loc[c].run # 0 => /\ loc[c].pc \in Working \cup Between \cup {"create"}
                                         /\ runs[loc[c].run].status = "running"
  /\ \A c \in Caller, e \in Caller : loc[c].run # 0 /\ loc[c].run = loc[e].run => c = e

\* What a run has caused includes the deployment its goroutine is at.
CausesAreKept ==
  /\ \A c \in Caller : loc[c].run # 0 /\ loc[c].d # 0 => loc[c].d \in deps[loc[c].run]
  /\ \A r \in Run : runs[r].status = "none" => deps[r] = {}

Failed(l) == l.pc \in {"stepDone", "finishRun"} /\ ~l.ok
Passed(l, i) == i < l.step \/ (i = l.step /\ l.pc = "stepDone" /\ l.ok)

\* While it runs, its deployments have succeeded, but for the one it is at and for
\* the one whose failure is about to end it.
RunFits(c) ==
  LET l == loc[c] IN
  /\ l.step \in 1 .. (Len(Steps) + 1)
  /\ l.pc = "finishRun" /\ l.ok => l.step = Len(Steps) + 1
  /\ l.pc \in {"create", "stepDone"} \cup Working => l.step <= Len(Steps)
  /\ \A i \in DOMAIN Steps : Steps[i] = "deploy" /\ Passed(l, i) => deps[l.run] # {}
  /\ Failed(l) \/ \A d \in deps[l.run] : d = l.d \/ dep[d].status = "success"
StepsAreDone == \A c \in Caller : loc[c].run # 0 => RunFits(c)

RunInv == Types /\ HeldRow /\ HeldRun /\ CausesAreKept /\ StepsAreDone /\ RunTellsDeployments

USE DeployAssumption, DeployFaults, StepsAssumption

-----------------------------------------------------------------------------
(* What the steps do to the local variables                                   *)

LEMMA Idles ==
  /\ Idle \in Loc /\ Idle.pc = "idle" /\ Idle.d = 0 /\ Idle.back = 0 /\ Idle.sha = 0 /\ Idle.ref = 0
  /\ Idle.ok = TRUE /\ Idle.run = 0 /\ Idle.step = 0
BY DEF Idle, Loc, Commit

Others(c) == loc' \in [Caller -> Loc] /\ \A e \in Caller : e # c => loc'[e] = loc[e]

LEMMA OneMoves ==
  ASSUME Types, NEW c \in Caller, NEW r \in Loc, loc' = [loc EXCEPT ![c] = r]
  PROVE  Others(c) /\ loc'[c] = r
BY DEF Others, Types

AllPcs == {"idle", "create", "createRun"} \cup Working \cup Between

\* The goroutine goes on with the same request.
Stays(c) == /\ Others(c)
            /\ loc'[c].t = loc[c].t /\ loc'[c].d = loc[c].d /\ loc'[c].ref = loc[c].ref
            /\ loc'[c].run = loc[c].run /\ loc'[c].step = loc[c].step
Goes(c, l) == Stays(c) /\ loc'[c].pc = l /\ loc'[c].back = loc[c].back /\ loc'[c].sha = loc[c].sha

LEMMA GotoMoves ==
  ASSUME Types, NEW c \in Caller, NEW l \in AllPcs, Goto(c, l)
  PROVE  Goes(c, l) /\ loc'[c].ok = loc[c].ok
<1>q. PICK q : q = [loc[c] EXCEPT !.pc = l]
  OBVIOUS
<1>1. loc[c] \in Loc
  BY DEF Types
<1>2. loc' = [loc EXCEPT ![c] = q]
  BY <1>q DEF Goto
<1>3. /\ q \in Loc /\ q.pc = l /\ q.t = loc[c].t /\ q.d = loc[c].d /\ q.back = loc[c].back /\ q.sha = loc[c].sha
      /\ q.ref = loc[c].ref /\ q.ok = loc[c].ok /\ q.run = loc[c].run /\ q.step = loc[c].step
  BY <1>1, <1>q DEF Loc, AllPcs
<1>4. Others(c) /\ loc'[c] = q
  BY <1>2, <1>3, OneMoves
<1> QED BY <1>3, <1>4 DEF Goes, Stays

LEMMA FailsMoves ==
  ASSUME Types, NEW c \in Caller, Fails(c)
  PROVE  Goes(c, "finish") /\ ~loc'[c].ok
<1>q. PICK q : q = [loc[c] EXCEPT !.pc = "finish", !.ok = FALSE]
  OBVIOUS
<1>1. loc[c] \in Loc
  BY DEF Types
<1>2. loc' = [loc EXCEPT ![c] = q]
  BY <1>q DEF Fails
<1>3. /\ q \in Loc /\ q.pc = "finish" /\ q.t = loc[c].t /\ q.d = loc[c].d /\ q.back = loc[c].back
      /\ q.sha = loc[c].sha /\ q.ref = loc[c].ref /\ q.ok = FALSE /\ q.run = loc[c].run /\ q.step = loc[c].step
  <2>1. "finish" \in AllPcs /\ FALSE \in BOOLEAN
    BY DEF AllPcs, Working
  <2> QED BY <1>1, <1>q, <2>1 DEF Loc, AllPcs
<1>4. Others(c) /\ loc'[c] = q
  BY <1>2, <1>3, OneMoves
<1> QED BY <1>3, <1>4 DEF Goes, Stays

\* To the client, or to the pipeline's step.
LEMMA ReturnMoves ==
  ASSUME Types, NEW c \in Caller, NEW ok \in BOOLEAN, Return(c, ok)
  PROVE  /\ Others(c) /\ loc'[c].run = loc[c].run /\ loc'[c].d = 0
         /\ loc[c].run = 0 => loc'[c].pc = "idle"
         /\ loc[c].run # 0 => loc'[c].pc = "stepDone" /\ loc'[c].step = loc[c].step /\ loc'[c].ok = ok
<1>q. PICK q : q = [Idle EXCEPT !.pc = "stepDone", !.run = loc[c].run, !.step = loc[c].step, !.ok = ok]
  OBVIOUS
<1>1. loc[c].run \in {0} \cup Run /\ loc[c].step \in Nat
  BY DEF Types, Loc
<1>2. CASE loc[c].run = 0
  <2>1. loc' = [loc EXCEPT ![c] = Idle]
    BY <1>2 DEF Return
  <2> QED BY <1>2, <2>1, Idles, OneMoves
<1>3. CASE loc[c].run # 0
  <2>1. loc' = [loc EXCEPT ![c] = q]
    BY <1>3, <1>q DEF Return
  <2>2. q \in Loc /\ q.pc = "stepDone" /\ q.d = 0 /\ q.ok = ok /\ q.run = loc[c].run /\ q.step = loc[c].step
    <3>1. "stepDone" \in AllPcs
      BY DEF AllPcs, Between
    <3>2. PICK t \in Target : TRUE
      OBVIOUS
    <3> QED BY <1>1, <3>1, <3>2, <1>q, Idles DEF Loc, AllPcs
  <2>3. Others(c) /\ loc'[c] = q
    BY <2>1, <2>2, OneMoves
  <2> QED BY <1>3, <2>2, <2>3
<1> QED BY <1>2, <1>3

LEMMA CreateRowMoves ==
  ASSUME Types, NEW c \in Caller, CreateRow(c)
  PROVE  /\ loc[c].pc = "create" /\ UNCHANGED <<origin, head, late, targets, faults>>
         /\ \/ \E d \in Deployment :
                 /\ NoRowYet(d) /\ \A e \in 1 .. (d - 1) : ~NoRowYet(e)
                 /\ dep' = [dep EXCEPT ![d] = [NoRow EXCEPT !.status = "running", !.place = Here(c)]]
                 /\ Others(c) /\ loc'[c].pc = "connect" /\ loc'[c].d = d /\ loc'[c].t = loc[c].t
                 /\ loc'[c].back = loc[c].back /\ loc'[c].sha = loc[c].sha /\ loc'[c].ref = loc[c].ref
                 /\ loc'[c].ok = loc[c].ok /\ loc'[c].run = loc[c].run /\ loc'[c].step = loc[c].step
            \/ Return(c, FALSE) /\ UNCHANGED dep
<1>1. loc[c].pc = "create" /\ UNCHANGED <<origin, head, late, targets, faults>>
  BY DEF CreateRow, At, remote
<1>2. ASSUME NEW d \in Deployment, loc' = [loc EXCEPT ![c].pc = "connect", ![c].d = d]
      PROVE  /\ Others(c) /\ loc'[c].pc = "connect" /\ loc'[c].d = d /\ loc'[c].t = loc[c].t
             /\ loc'[c].back = loc[c].back /\ loc'[c].sha = loc[c].sha /\ loc'[c].ref = loc[c].ref
             /\ loc'[c].ok = loc[c].ok /\ loc'[c].run = loc[c].run /\ loc'[c].step = loc[c].step
  <2>q. PICK q : q = [loc[c] EXCEPT !.pc = "connect", !.d = d]
    OBVIOUS
  <2>1. loc[c] \in Loc /\ "connect" \in AllPcs
    BY DEF Types, AllPcs, Working
  <2>2. loc' = [loc EXCEPT ![c] = q]
    BY <1>2, <2>q
  <2>3. /\ q \in Loc /\ q.pc = "connect" /\ q.t = loc[c].t /\ q.d = d /\ q.back = loc[c].back
        /\ q.sha = loc[c].sha /\ q.ref = loc[c].ref /\ q.ok = loc[c].ok /\ q.run = loc[c].run
        /\ q.step = loc[c].step
    BY <2>1, <2>q DEF Loc, AllPcs
  <2>4. Others(c) /\ loc'[c] = q
    BY <2>2, <2>3, OneMoves
  <2> QED BY <2>3, <2>4
<1>3. CASE Return(c, FALSE) /\ UNCHANGED dep
  BY <1>1, <1>3
<1>4. CASE \E d \in Deployment :
             /\ NoRowYet(d) /\ (Orderly \/ d <= MaxUnruly) /\ \A e \in 1 .. (d - 1) : ~NoRowYet(e)
             /\ dep' = [dep EXCEPT ![d] = [NoRow EXCEPT !.status = "running", !.place = Here(c)]]
             /\ loc' = [loc EXCEPT ![c].pc = "connect", ![c].d = d]
  BY <1>1, <1>2, <1>4
<1> QED BY <1>3, <1>4 DEF CreateRow

\* The steps of Deploy and Rollback between the INSERT and the UPDATE.
Walk(c) == Connect(c) \/ PrevRef(c) \/ Checkout(c) \/ Sha(c) \/ Afterwards(c) \/ Restore(c)

LEMMA WalkMoves ==
  ASSUME Types, NEW c \in Caller, Walk(c)
  PROVE  /\ Stays(c) /\ loc[c].pc \in Working \ {"finish"} /\ UNCHANGED <<origin, targets, dep, faults>>
         /\ \/ Goes(c, "finish") /\ ~loc'[c].ok
            \/ /\ loc[c].pc = "connect" /\ Goes(c, IF loc[c].ref = 0 THEN "prev" ELSE "restore")
               /\ UNCHANGED head
            \/ /\ loc[c].pc = "prev" /\ loc'[c].pc = "checkout" /\ loc'[c].sha = loc[c].sha
               /\ loc'[c].back \in {0, head[Here(c)]} /\ UNCHANGED head
            \/ /\ loc[c].pc = "checkout" /\ Goes(c, "sha") /\ head' = [head EXCEPT ![Here(c)] = origin]
            \/ /\ loc[c].pc = "sha" /\ loc'[c].pc = "afterwards" /\ loc'[c].back = loc[c].back
               /\ loc'[c].sha \in {0, head[Here(c)]} /\ UNCHANGED head
            \/ /\ loc[c].pc = "afterwards" /\ Goes(c, "finish") /\ UNCHANGED head
            \/ /\ loc[c].pc = "restore" /\ Goes(c, "afterwards") /\ head[Here(c)] # 0
               /\ head' = [head EXCEPT ![Here(c)] = loc[c].ref]
         /\ loc'[c].ok = loc[c].ok \/ loc'[c].pc = "finish"
         /\ loc'[c].pc \in Working
         /\ \/ UNCHANGED <<head, late>>
            \/ UNCHANGED late /\ loc[c].pc = "checkout" /\ head' = [head EXCEPT ![Here(c)] = origin]
            \/ UNCHANGED late /\ loc[c].pc = "restore" /\ head' = [head EXCEPT ![Here(c)] = loc[c].ref]
            \/ /\ "cancel" \in faults /\ UNCHANGED head /\ ~loc'[c].ok
               /\ \E x \in Commit : late' = late \cup {<<Here(c), x>>}
<1>t. loc[c] \in Loc /\ loc[c].ref \in Commit /\ loc[c].t \in Target /\ Here(c) \in Place /\ 0 \in Commit
  BY DEF Types, Loc, Here, Commit
<1>h. head[Here(c)] \in Commit
  BY <1>t DEF Types, TypeOK, DeployTypeOK
<1>p. "prev" \in AllPcs /\ "restore" \in AllPcs /\ "sha" \in AllPcs /\ "finish" \in AllPcs
      /\ "afterwards" \in AllPcs /\ "checkout" \in AllPcs
  BY DEF AllPcs, Working
<1>s. \A l : Goes(c, l) => Stays(c) /\ loc'[c].pc = l
  BY DEF Goes
<1>f. Fails(c) => Goes(c, "finish") /\ ~loc'[c].ok
  BY FailsMoves
<1>1. CASE Connect(c)
  <2>1. loc[c].pc = "connect" /\ UNCHANGED <<origin, head, late, targets, dep, faults>>
    BY <1>1 DEF Connect, At, remote
  <2>2. CASE Fails(c)
    BY <1>f, <1>s, <2>1, <2>2 DEF Working
  <2>3. CASE Goto(c, IF loc[c].ref = 0 THEN "prev" ELSE "restore")
    <3>1. Goes(c, IF loc[c].ref = 0 THEN "prev" ELSE "restore") /\ loc'[c].ok = loc[c].ok
      BY <1>p, <2>3, GotoMoves
    <3> QED BY <1>s, <2>1, <3>1 DEF Working
  <2> QED BY <1>1, <2>2, <2>3 DEF Connect
<1>2. CASE PrevRef(c)
  <2>1. loc[c].pc = "prev" /\ UNCHANGED <<origin, head, late, targets, dep, faults>>
    BY <1>2 DEF PrevRef, At, remote
  <2>2. PICK b \in {0, head[Here(c)]} : loc' = [loc EXCEPT ![c].pc = "checkout", ![c].back = b]
    BY <1>2 DEF PrevRef
  <2>q. PICK q : q = [loc[c] EXCEPT !.pc = "checkout", !.back = b]
    OBVIOUS
  <2>3. loc' = [loc EXCEPT ![c] = q]
    BY <2>2, <2>q
  <2>4. /\ q \in Loc /\ q.pc = "checkout" /\ q.t = loc[c].t /\ q.d = loc[c].d /\ q.back = b /\ q.sha = loc[c].sha
        /\ q.ref = loc[c].ref /\ q.ok = loc[c].ok /\ q.run = loc[c].run /\ q.step = loc[c].step
    <3>1. b \in Commit
      BY <1>t, <1>h
    <3> QED BY <1>t, <1>p, <3>1, <2>q DEF Loc, AllPcs
  <2>5. Others(c) /\ loc'[c] = q
    BY <2>3, <2>4, OneMoves
  <2> QED BY <2>1, <2>4, <2>5 DEF Stays, Working
<1>3. CASE Sha(c)
  <2>1. loc[c].pc = "sha" /\ UNCHANGED <<origin, head, late, targets, dep, faults>>
    BY <1>3 DEF Sha, At, remote
  <2>2. PICK b \in {0, head[Here(c)]} : loc' = [loc EXCEPT ![c].pc = "afterwards", ![c].sha = b]
    BY <1>3 DEF Sha
  <2>q. PICK q : q = [loc[c] EXCEPT !.pc = "afterwards", !.sha = b]
    OBVIOUS
  <2>3. loc' = [loc EXCEPT ![c] = q]
    BY <2>2, <2>q
  <2>4. /\ q \in Loc /\ q.pc = "afterwards" /\ q.t = loc[c].t /\ q.d = loc[c].d /\ q.back = loc[c].back /\ q.sha = b
        /\ q.ref = loc[c].ref /\ q.ok = loc[c].ok /\ q.run = loc[c].run /\ q.step = loc[c].step
    <3>1. b \in Commit
      BY <1>t, <1>h
    <3> QED BY <1>t, <1>p, <3>1, <2>q DEF Loc, AllPcs
  <2>5. Others(c) /\ loc'[c] = q
    BY <2>3, <2>4, OneMoves
  <2> QED BY <2>1, <2>4, <2>5 DEF Stays, Working
<1>4. CASE Afterwards(c)
  <2>1. loc[c].pc = "afterwards" /\ UNCHANGED <<origin, head, late, targets, dep, faults>>
    BY <1>4 DEF Afterwards, At, remote
  <2>2. CASE Fails(c)
    BY <1>f, <1>s, <2>1, <2>2 DEF Working
  <2>3. CASE Goto(c, "finish")
    <3>1. Goes(c, "finish") /\ loc'[c].ok = loc[c].ok
      BY <1>p, <2>3, GotoMoves
    <3> QED BY <1>s, <2>1, <3>1 DEF Working
  <2> QED BY <1>4, <2>2, <2>3 DEF Afterwards
<1>g. \A x \in Commit : GivenUp(c, x) =>
        /\ Fails(c) /\ "cancel" \in faults /\ UNCHANGED head /\ late' = late \cup {<<Here(c), x>>}
  BY DEF GivenUp
<1>5. CASE Checkout(c)
  <2>1. loc[c].pc = "checkout" /\ UNCHANGED <<origin, targets, dep, faults>>
    BY <1>5 DEF Checkout, At
  <2>2. CASE Fails(c) /\ (UNCHANGED <<head, late>> \/ GivenUp(c, 0))
    BY <1>f, <1>s, <1>g, <1>t, <2>1, <2>2 DEF Working
  <2>3. CASE head' = [head EXCEPT ![Here(c)] = origin] /\ Goto(c, "sha") /\ UNCHANGED late
    <3>1. Goes(c, "sha") /\ loc'[c].ok = loc[c].ok
      BY <1>p, <2>3, GotoMoves
    <3> QED BY <1>s, <2>1, <2>3, <3>1 DEF Working
  <2> QED BY <1>5, <1>g, <1>t, <2>2, <2>3 DEF Checkout
<1>6. CASE Restore(c)
  <2>1. loc[c].pc = "restore" /\ UNCHANGED <<origin, targets, dep, faults>>
    BY <1>6 DEF Restore, At
  <2>2. CASE Fails(c) /\ (UNCHANGED <<head, late>> \/ GivenUp(c, loc[c].ref))
    BY <1>f, <1>s, <1>g, <1>t, <2>1, <2>2 DEF Working
  <2>3. CASE /\ head[Here(c)] # 0 /\ head' = [head EXCEPT ![Here(c)] = loc[c].ref]
             /\ Goto(c, "afterwards") /\ UNCHANGED late
    <3>1. Goes(c, "afterwards") /\ loc'[c].ok = loc[c].ok
      BY <1>p, <2>3, GotoMoves
    <3> QED BY <1>s, <2>1, <2>3, <3>1 DEF Working
  <2> QED BY <1>6, <1>g, <1>t, <2>2, <2>3 DEF Restore
<1> QED BY <1>1, <1>2, <1>3, <1>4, <1>5, <1>6 DEF Walk

\* A request begins.
Start(c) == \/ \E t \in Target : deploy(c, t)
            \/ \E d \in Deployment : rollbackDeployment(c, d)
            \/ runPipeline(c)

LEMMA StartMoves ==
  ASSUME Types, NEW c \in Caller, Start(c)
  PROVE  /\ loc[c].pc = "idle" /\ MayArrive /\ UNCHANGED <<remote, targets, dep, faults>>
         /\ Others(c) /\ loc'[c].pc \in {"create", "createRun"} /\ loc'[c].d = 0 /\ loc'[c].run = 0
         /\ loc'[c].back = 0 /\ loc'[c].sha = loc'[c].ref /\ loc'[c].ok = TRUE
<1>1. ASSUME NEW t \in Target, deploy(c, t)
      PROVE  /\ loc[c].pc = "idle" /\ MayArrive /\ UNCHANGED <<remote, targets, dep, faults>>
             /\ \E q \in Loc : /\ loc' = [loc EXCEPT ![c] = q] /\ q.pc \in {"create", "createRun"} /\ q.d = 0
                               /\ q.run = 0 /\ q.back = 0 /\ q.sha = q.ref /\ q.ok = TRUE
  <2>q. PICK q : q = [Idle EXCEPT !.pc = "create", !.t = t, !.run = 0, !.step = 0]
    OBVIOUS
  <2>1. q \in Loc /\ q.pc = "create" /\ q.d = 0 /\ q.run = 0 /\ q.back = 0 /\ q.sha = 0 /\ q.ref = 0 /\ q.ok = TRUE
    BY <2>q, Idles DEF Loc
  <2> QED BY <1>1, <2>q, <2>1 DEF deploy, Arrive, StartDeploy, At
<1>2. ASSUME NEW d \in Deployment, rollbackDeployment(c, d)
      PROVE  /\ loc[c].pc = "idle" /\ MayArrive /\ UNCHANGED <<remote, targets, dep, faults>>
             /\ \E q \in Loc : /\ loc' = [loc EXCEPT ![c] = q] /\ q.pc \in {"create", "createRun"} /\ q.d = 0
                               /\ q.run = 0 /\ q.back = 0 /\ q.sha = q.ref /\ q.ok = TRUE
  <2>q. PICK q : q = [Idle EXCEPT !.pc = "create", !.t = Head(targets), !.ref = dep[d].back, !.sha = dep[d].back]
    OBVIOUS
  <2>1. dep[d].back \in Commit /\ Head(targets) \in Target
    BY <1>2 DEF rollbackDeployment, Types, TypeOK, DeployTypeOK
  <2>2. q \in Loc /\ q.pc = "create" /\ q.d = 0 /\ q.run = 0 /\ q.back = 0 /\ q.sha = q.ref /\ q.ok = TRUE
    BY <2>q, <2>1, Idles DEF Loc
  <2> QED BY <1>2, <2>q, <2>2 DEF rollbackDeployment, Arrive, At
<1>3. ASSUME runPipeline(c)
      PROVE  /\ loc[c].pc = "idle" /\ MayArrive /\ UNCHANGED <<remote, targets, dep, faults>>
             /\ \E q \in Loc : /\ loc' = [loc EXCEPT ![c] = q] /\ q.pc \in {"create", "createRun"} /\ q.d = 0
                               /\ q.run = 0 /\ q.back = 0 /\ q.sha = q.ref /\ q.ok = TRUE
  <2>q. PICK q : q = [Idle EXCEPT !.pc = "createRun"]
    OBVIOUS
  <2>1. q \in Loc /\ q.pc = "createRun" /\ q.d = 0 /\ q.run = 0 /\ q.back = 0 /\ q.sha = q.ref /\ q.ok = TRUE
    BY <2>q, Idles DEF Loc
  <2> QED BY <1>3, <2>q, <2>1 DEF runPipeline, Arrive, At
<1>4. /\ loc[c].pc = "idle" /\ MayArrive /\ UNCHANGED <<remote, targets, dep, faults>>
      /\ \E q \in Loc : /\ loc' = [loc EXCEPT ![c] = q] /\ q.pc \in {"create", "createRun"} /\ q.d = 0
                        /\ q.run = 0 /\ q.back = 0 /\ q.sha = q.ref /\ q.ok = TRUE
  BY <1>1, <1>2, <1>3 DEF Start
<1>5. PICK q \in Loc : /\ loc' = [loc EXCEPT ![c] = q] /\ q.pc \in {"create", "createRun"} /\ q.d = 0
                       /\ q.run = 0 /\ q.back = 0 /\ q.sha = q.ref /\ q.ok = TRUE
  BY <1>4
<1>6. Others(c) /\ loc'[c] = q
  BY <1>5, OneMoves
<1> QED BY <1>4, <1>5, <1>6

\* The row of the deployment is given its outcome.
Settles(c) ==
  dep' = [dep EXCEPT ![loc[c].d] = [dep[loc[c].d] EXCEPT !.status = IF loc[c].ok THEN "success" ELSE "failed",
                                                         !.commit = loc[c].sha, !.back = loc[c].back]]

LEMMA FinishMoves ==
  ASSUME Types, NEW c \in Caller, Finish(c)
  PROVE  /\ loc[c].pc = "finish" /\ UNCHANGED <<origin, head, late, targets, faults>>
         /\ \/ /\ Settles(c)
               /\ \E ok \in BOOLEAN : Return(c, ok) /\ ok \in {FALSE, loc[c].ok}
            \/ UNCHANGED dep /\ Return(c, FALSE)
BY DEF Finish, Settles, At, remote, Types, Loc

LEMMA CreateRunMoves ==
  ASSUME Types, NEW c \in Caller, CreateRun(c)
  PROVE  /\ loc[c].pc = "createRun" /\ UNCHANGED <<remote, targets, dep, faults, deps>> /\ Others(c)
         /\ loc'[c].d = 0
         /\ \/ loc'[c].pc = "idle" /\ loc'[c].run = 0 /\ UNCHANGED runs
            \/ \E r \in Run : /\ runs[r].status = "none"
                              /\ runs' = [runs EXCEPT ![r] = [runs[r] EXCEPT !.status = "running"]]
                              /\ loc'[c].pc = "step" /\ loc'[c].run = r /\ loc'[c].step = 1
<1>1. loc[c].pc = "createRun" /\ UNCHANGED <<remote, targets, dep, faults, deps>>
  BY DEF CreateRun, At
<1>2. CASE loc' = [loc EXCEPT ![c] = Idle] /\ UNCHANGED runs
  BY <1>1, <1>2, Idles, OneMoves
<1>3. ASSUME NEW r \in Run, pipeline, runs[r].status = "none",
             runs' = [runs EXCEPT ![r].status = "running"],
             loc' = [loc EXCEPT ![c] = [Idle EXCEPT !.pc = "step", !.run = r, !.step = 1]]
      PROVE  /\ Others(c) /\ loc'[c].d = 0 /\ loc'[c].pc = "step" /\ loc'[c].run = r /\ loc'[c].step = 1
             /\ runs' = [runs EXCEPT ![r] = [runs[r] EXCEPT !.status = "running"]]
  <2>q. PICK q : q = [Idle EXCEPT !.pc = "step", !.run = r, !.step = 1]
    OBVIOUS
  <2>1. q \in Loc /\ q.pc = "step" /\ q.d = 0 /\ q.run = r /\ q.step = 1
    BY <2>q, Idles DEF Loc, Between
  <2>2. Others(c) /\ loc'[c] = q
    BY <1>3, <2>q, <2>1, OneMoves
  <2> QED BY <1>3, <2>1, <2>2
<1> QED BY <1>1, <1>2, <1>3 DEF CreateRun

LEMMA RunStepMoves ==
  ASSUME Types, NEW c \in Caller, RunStep(c)
  PROVE  /\ loc[c].pc = "step" /\ loc[c].step <= Len(Steps) /\ UNCHANGED <<remote, targets, dep, faults, pipeVars>>
         /\ Others(c) /\ loc'[c].run = loc[c].run /\ loc'[c].step = loc[c].step
         /\ \/ loc'[c].pc = "create" /\ loc'[c].d = 0 /\ loc'[c].back = 0 /\ loc'[c].sha = loc'[c].ref
            \/ /\ loc'[c].pc = "stepDone" /\ loc'[c].d = loc[c].d
               /\ Steps[loc[c].step] = "deploy" => ~loc'[c].ok
<1>1. /\ loc[c].pc = "step" /\ loc[c].step <= Len(Steps) /\ UNCHANGED <<remote, targets, dep, faults, pipeVars>>
      /\ loc[c] \in Loc
  BY DEF RunStep, At, Types
<1>2. ASSUME loc' = [loc EXCEPT ![c] = StartDeploy(c, StepTarget, loc[c].run, loc[c].step)]
      PROVE  /\ Others(c) /\ loc'[c].run = loc[c].run /\ loc'[c].step = loc[c].step
             /\ loc'[c].pc = "create" /\ loc'[c].d = 0 /\ loc'[c].back = 0 /\ loc'[c].sha = loc'[c].ref
  <2>q. PICK q : q = StartDeploy(c, StepTarget, loc[c].run, loc[c].step)
    OBVIOUS
  <2>0. loc[c].run \in {0} \cup Run /\ loc[c].step \in Nat
    BY <1>1 DEF Loc
  <2>1. /\ q \in Loc /\ q.pc = "create" /\ q.d = 0 /\ q.run = loc[c].run /\ q.step = loc[c].step
        /\ q.back = 0 /\ q.sha = q.ref
    BY <2>q, <2>0, Idles DEF Loc, StartDeploy
  <2>2. Others(c) /\ loc'[c] = q
    BY <1>2, <2>q, <2>1, OneMoves
  <2> QED BY <2>1, <2>2
<1>3. ASSUME NEW ok \in BOOLEAN, loc' = [loc EXCEPT ![c].pc = "stepDone", ![c].ok = ok]
      PROVE  /\ Others(c) /\ loc'[c].run = loc[c].run /\ loc'[c].step = loc[c].step
             /\ loc'[c].pc = "stepDone" /\ loc'[c].d = loc[c].d /\ loc'[c].ok = ok
  <2>q. PICK q : q = [loc[c] EXCEPT !.pc = "stepDone", !.ok = ok]
    OBVIOUS
  <2>1. /\ q \in Loc /\ q.pc = "stepDone" /\ q.d = loc[c].d /\ q.run = loc[c].run /\ q.step = loc[c].step
        /\ q.ok = ok
    BY <1>1, <2>q DEF Loc, Between
  <2>2. loc' = [loc EXCEPT ![c] = q]
    BY <1>3, <2>q
  <2>3. Others(c) /\ loc'[c] = q
    BY <2>1, <2>2, OneMoves
  <2> QED BY <2>1, <2>3
<1>4. \/ loc' = [loc EXCEPT ![c] = StartDeploy(c, StepTarget, loc[c].run, loc[c].step)]
      \/ \E ok \in BOOLEAN : /\ loc' = [loc EXCEPT ![c].pc = "stepDone", ![c].ok = ok]
                             /\ Steps[loc[c].step] = "deploy" => ok = FALSE
  BY DEF RunStep
<1> QED BY <1>1, <1>2, <1>3, <1>4

LEMMA StepDoneMoves ==
  ASSUME Types, NEW c \in Caller, StepDone(c)
  PROVE  /\ loc[c].pc = "stepDone" /\ UNCHANGED <<remote, targets, dep, faults, pipeVars>>
         /\ Others(c) /\ loc'[c].run = loc[c].run /\ loc'[c].d = loc[c].d /\ loc'[c].ok = loc[c].ok
         /\ loc[c].ok => loc'[c].pc = "step" /\ loc'[c].step = loc[c].step + 1
         /\ ~loc[c].ok => loc'[c].pc = "finishRun" /\ loc'[c].step = loc[c].step
<1>1. /\ loc[c].pc = "stepDone" /\ UNCHANGED <<remote, targets, dep, faults, pipeVars>>
      /\ loc[c] \in Loc /\ loc[c].step \in Nat /\ loc[c].ok \in BOOLEAN
  BY DEF StepDone, At, Types, Loc
<1>2. CASE loc[c].ok
  <2>n. PICK n \in Nat : n = loc[c].step + 1
    BY <1>1
  <2>q. PICK q : q = [loc[c] EXCEPT !.pc = "step", !.step = n]
    OBVIOUS
  <2>1. /\ q \in Loc /\ q.pc = "step" /\ q.d = loc[c].d /\ q.run = loc[c].run /\ q.step = n
        /\ q.ok = loc[c].ok
    BY <1>1, <2>q DEF Loc, Between
  <2>2. loc' = [loc EXCEPT ![c] = q]
    BY <1>2, <2>n, <2>q DEF StepDone
  <2>3. Others(c) /\ loc'[c] = q
    BY <2>1, <2>2, OneMoves
  <2> QED BY <1>1, <1>2, <2>n, <2>1, <2>3
<1>3. CASE ~loc[c].ok
  <2>q. PICK q : q = [loc[c] EXCEPT !.pc = "finishRun", !.step = loc[c].step]
    OBVIOUS
  <2>1. /\ q \in Loc /\ q.pc = "finishRun" /\ q.d = loc[c].d /\ q.run = loc[c].run /\ q.step = loc[c].step
        /\ q.ok = loc[c].ok
    BY <1>1, <2>q DEF Loc, Between
  <2>2. loc' = [loc EXCEPT ![c] = q]
    BY <1>3, <2>q DEF StepDone
  <2>3. Others(c) /\ loc'[c] = q
    BY <2>1, <2>2, OneMoves
  <2> QED BY <1>1, <1>3, <2>1, <2>3
<1> QED BY <1>2, <1>3

LEMMA AllDoneMoves ==
  ASSUME Types, NEW c \in Caller, AllDone(c)
  PROVE  /\ loc[c].pc = "step" /\ loc[c].step > Len(Steps) /\ UNCHANGED <<remote, targets, dep, faults, pipeVars>>
         /\ Goes(c, "finishRun") /\ loc'[c].ok = loc[c].ok
<1>1. "finishRun" \in AllPcs
  BY DEF AllPcs, Between
<1> QED BY <1>1, GotoMoves DEF AllDone, At

LEMMA FinishRunMoves ==
  ASSUME Types, NEW c \in Caller, FinishRun(c)
  PROVE  /\ loc[c].pc = "finishRun" /\ UNCHANGED <<remote, targets, dep, faults, deps>>
         /\ Others(c) /\ loc'[c].pc = "idle" /\ loc'[c].run = 0 /\ loc'[c].d = 0
         /\ \/ UNCHANGED runs
            \/ runs' = [runs EXCEPT ![loc[c].run] = [status |-> IF loc[c].ok THEN "success" ELSE "failed",
                                                     results |-> Results(loc[c])]]
BY Idles, OneMoves DEF FinishRun, At

-----------------------------------------------------------------------------
(* The invariant of rows and runs                                             *)

LEMMA InitRun == Init => RunInv
<1> SUFFICES ASSUME Init PROVE RunInv
  OBVIOUS
<1>0. Init /\ DeployInit /\ \A c \in Caller : loc[c] = Idle
  BY DEF Init, DeployInit
<1>1. NoRow \in [status : {"none", "running", "success", "failed"}, place : Place, commit : Commit, back : Commit]
  BY DEF NoRow, Commit
<1>2. <<>> \in Seq(Target) /\ <<>> \in Seq({"success", "failed"}) /\ 0 \in Commit
  BY DEF Commit
<1>o. origin \in Commit
  BY <1>0 DEF DeployInit, Commit
<1>3. Types
  <2>1. dep = [d \in Deployment |-> NoRow] /\ dep \in [Deployment -> [status : {"none", "running", "success", "failed"},
                                                place : Place, commit : Commit, back : Commit]]
    BY <1>0, <1>1 DEF DeployInit
  <2>2. head \in [Place -> Commit] /\ late \in SUBSET (Place \X Commit) /\ targets \in Seq(Target) /\ faults \in FaultSets
    BY <1>0, <1>2 DEF DeployInit
  <2>3. /\ pipeline \in BOOLEAN /\ deps \in [Run -> SUBSET Deployment]
        /\ runs \in [Run -> [status : {"none", "running", "success", "failed"}, results : Seq({"success", "failed"})]]
    BY <1>2 DEF Init
  <2>4. loc \in [Caller -> Loc]
    BY <1>0, Idles DEF DeployInit
  <2> QED BY <1>o, <2>1, <2>2, <2>3, <2>4 DEF Types, TypeOK, DeployTypeOK
<1>4. HeldRow /\ HeldRun
  BY <1>0, Idles DEF HeldRow, HeldRun, Held, Working, Between
<1>5. CausesAreKept /\ StepsAreDone /\ RunTellsDeployments
  BY <1>0, Idles DEF Init, CausesAreKept, StepsAreDone, RunTellsDeployments
<1> QED BY <1>3, <1>4, <1>5 DEF RunInv

RunParts == HeldRow /\ HeldRun /\ CausesAreKept /\ StepsAreDone /\ RunTellsDeployments

\* A step of one goroutine that leaves the rows alone.
LEMMA AsideKeeps ==
  ASSUME RunInv, NEW c \in Caller, Others(c), UNCHANGED <<dep, runs, deps>>,
         loc'[c].run \in {0, loc[c].run}, loc'[c].d \in {0, loc[c].d}, Held(c)' <=> loc'[c].d # 0,
         loc'[c].pc \in Between => loc'[c].run # 0,
         loc'[c].run # 0 => loc'[c].pc \in Working \cup Between \cup {"create"} /\ RunFits(c)'
  PROVE  RunParts'
<1>t. HeldRow /\ HeldRun /\ CausesAreKept /\ StepsAreDone /\ RunTellsDeployments /\ Types
  BY DEF RunInv
<1>1. HeldRow'
  <2>1. \A e \in Caller : Held(e)' => Held(e) /\ loc'[e].d = loc[e].d
    BY <1>t DEF HeldRow, Others, Held
  <2> QED BY <1>t, <2>1 DEF HeldRow, Others, Held
<1>2. HeldRun'
  BY <1>t DEF HeldRun, Others
<1>3. CausesAreKept'
  BY <1>t DEF CausesAreKept, Others
<1>4. StepsAreDone'
  BY <1>t DEF StepsAreDone, Others, RunFits
<1>5. RunTellsDeployments'
  BY <1>t DEF RunTellsDeployments
<1> QED BY <1>1, <1>2, <1>3, <1>4, <1>5 DEF RunParts

\* A step that is not about any request.
LEMMA AroundKeeps ==
  ASSUME RunInv, UNCHANGED <<loc, dep, runs, deps>>
  PROVE  RunParts'
BY DEF RunInv, RunParts, HeldRow, HeldRun, CausesAreKept, StepsAreDone, RunFits, RunTellsDeployments, Held

\* Only the INSERT of a deployment adds to what a run has caused.
LEMMA CausedSame ==
  ASSUME RunInv, Caused,
         \A e \in Caller : loc'[e].run # 0 /\ loc'[e].d # 0 => loc'[e].run = loc[e].run /\ loc'[e].d = loc[e].d
  PROVE  UNCHANGED deps
<1>1. deps \in [Run -> SUBSET Deployment]
  BY DEF RunInv, Types, TypeOK
<1>2. \A r \in Run : deps[r] \cup {loc'[e].d : e \in {x \in Caller : loc'[x].run = r /\ loc'[x].d # 0}} = deps[r]
  <2> SUFFICES ASSUME NEW r \in Run, NEW e \in Caller, loc'[e].run = r, loc'[e].d # 0 PROVE loc'[e].d \in deps[r]
    OBVIOUS
  <2>1. r # 0
    BY DEF Run
  <2> QED BY <2>1 DEF RunInv, CausesAreKept
<1> QED BY <1>1, <1>2 DEF Caused

LEMMA WalkKeeps ==
  ASSUME RunInv, NEW c \in Caller, Walk(c), Caused, UNCHANGED runs
  PROVE  RunParts'
<1>t. HeldRow /\ HeldRun /\ CausesAreKept /\ StepsAreDone /\ Types
  BY DEF RunInv
<1>1. /\ Stays(c) /\ Others(c) /\ Held(c) /\ Held(c)' /\ UNCHANGED dep
      /\ loc[c].pc \in Working /\ loc'[c].pc \in Working
  BY <1>t, WalkMoves DEF Held, Stays
<1>2. UNCHANGED deps
  BY <1>1, CausedSame DEF Stays, Others
<1>3. loc[c].run # 0 => RunFits(c)'
  <2> SUFFICES ASSUME loc[c].run # 0 PROVE RunFits(c)'
    OBVIOUS
  <2>1. RunFits(c)
    BY <1>t DEF StepsAreDone
  <2>2. ~Failed(loc[c]) /\ ~Failed(loc'[c])
    BY <1>1 DEF Failed, Working
  <2>3. \A i \in DOMAIN Steps : Passed(loc'[c], i) => Passed(loc[c], i)
    BY <1>1 DEF Passed, Working, Stays
  <2>4. loc'[c].pc # "finishRun"
    BY <1>1 DEF Working
  <2> QED BY <1>1, <1>2, <2>1, <2>2, <2>3, <2>4 DEF RunFits, Stays
<1>4. loc'[c].pc \notin Between /\ loc[c].d # 0
  BY <1>t, <1>1 DEF Working, Between, HeldRow, Deployment
<1> QED BY <1>1, <1>2, <1>3, <1>4, AsideKeeps DEF Stays

LEMMA StartKeeps ==
  ASSUME RunInv, NEW c \in Caller, Start(c), Caused \/ UNCHANGED deps, UNCHANGED runs
  PROVE  RunParts'
<1>1. /\ Others(c) /\ loc'[c].pc \in {"create", "createRun"} /\ loc'[c].d = 0 /\ loc'[c].run = 0 /\ UNCHANGED dep
  BY StartMoves DEF RunInv
<1>2. UNCHANGED deps
  BY <1>1, CausedSame DEF Others
<1> QED BY <1>1, <1>2, AsideKeeps DEF Held, Working, Between

\* Deploy returns: what it answers reaches the run it is a step of.
LEMMA ReturnFits ==
  ASSUME RunInv, NEW c \in Caller, NEW ok \in BOOLEAN, Return(c, ok), loc[c].pc \in {"create", "finish"}
  PROVE  /\ Others(c) /\ loc'[c].run = loc[c].run /\ loc'[c].d = 0 /\ ~Held(c)'
         /\ loc'[c].pc \in Between => loc'[c].run # 0
         /\ loc'[c].run # 0 => /\ loc'[c].pc = "stepDone" /\ loc'[c].ok = ok
                               /\ loc'[c].step = loc[c].step /\ loc[c].step \in 1 .. Len(Steps)
<1>1. /\ Others(c) /\ loc'[c].run = loc[c].run /\ loc'[c].d = 0
      /\ loc[c].run = 0 => loc'[c].pc = "idle"
      /\ loc[c].run # 0 => loc'[c].pc = "stepDone" /\ loc'[c].step = loc[c].step /\ loc'[c].ok = ok
  BY ReturnMoves DEF RunInv
<1>2. loc[c].run # 0 => loc[c].step \in 1 .. Len(Steps)
  BY DEF RunInv, StepsAreDone, RunFits, Working, Types, Loc
<1> QED BY <1>1, <1>2 DEF Held, Working, Between

\* Deploy fails without a result of its own.
LEMMA ReturnKeeps ==
  ASSUME RunInv, NEW c \in Caller, Return(c, FALSE), loc[c].pc \in {"create", "finish"}, UNCHANGED <<dep, runs>>, Caused
  PROVE  RunParts'
<1>1. /\ Others(c) /\ loc'[c].run = loc[c].run /\ loc'[c].d = 0 /\ ~Held(c)'
      /\ loc'[c].pc \in Between => loc'[c].run # 0
      /\ loc'[c].run # 0 => /\ loc'[c].pc = "stepDone" /\ loc'[c].ok = FALSE
                            /\ loc'[c].step = loc[c].step /\ loc[c].step \in 1 .. Len(Steps)
  BY ReturnFits
<1>2. UNCHANGED deps
  BY <1>1, CausedSame DEF Others
<1>3. loc'[c].run # 0 => RunFits(c)'
  <2> SUFFICES ASSUME loc'[c].run # 0 PROVE RunFits(c)'
    OBVIOUS
  <2>1. RunFits(c)
    BY <1>1 DEF RunInv, StepsAreDone
  <2>2. Failed(loc'[c])
    BY <1>1 DEF Failed
  <2>3. \A i \in DOMAIN Steps : Passed(loc'[c], i) => Passed(loc[c], i)
    BY <1>1 DEF Passed
  <2> QED BY <1>1, <1>2, <2>1, <2>2, <2>3 DEF RunFits
<1> QED BY <1>1, <1>2, <1>3, AsideKeeps DEF Between

LEMMA FitsStay ==
  ASSUME NEW e \in Caller, RunFits(e), loc'[e] = loc[e], UNCHANGED <<dep, deps>>
  PROVE  RunFits(e)'
BY DEF RunFits

LEMMA RunStepKeeps ==
  ASSUME RunInv, NEW c \in Caller, RunStep(c) \/ StepDone(c) \/ AllDone(c)
  PROVE  RunParts'
<1>t. HeldRow /\ HeldRun /\ CausesAreKept /\ StepsAreDone /\ Types /\ loc[c].step \in Nat /\ loc[c].ok \in BOOLEAN
  BY DEF RunInv, Types, Loc
<1>n. Len(Steps) \in Nat /\ DOMAIN Steps = 1 .. Len(Steps)
  OBVIOUS
<1>1. loc[c].pc \in {"step", "stepDone"} /\ UNCHANGED <<dep, runs, deps>>
  BY <1>t, RunStepMoves, StepDoneMoves, AllDoneMoves DEF pipeVars
<1>2. loc[c].run # 0 /\ RunFits(c) /\ loc[c].d = 0
  BY <1>t, <1>1 DEF HeldRun, HeldRow, StepsAreDone, Between, Held, Working
<1>3. /\ Others(c) /\ loc'[c].run = loc[c].run /\ loc'[c].d = 0 /\ loc'[c].pc \in Between \cup {"create"}
      /\ RunFits(c)'
  <2>1. CASE RunStep(c)
    <3>1. /\ loc[c].pc = "step" /\ loc[c].step <= Len(Steps)
          /\ Others(c) /\ loc'[c].run = loc[c].run /\ loc'[c].step = loc[c].step
          /\ \/ loc'[c].pc = "create" /\ loc'[c].d = 0
             \/ /\ loc'[c].pc = "stepDone" /\ loc'[c].d = loc[c].d
                /\ Steps[loc[c].step] = "deploy" => ~loc'[c].ok
      BY <1>t, <2>1, RunStepMoves
    <3>2. \A i \in DOMAIN Steps : Steps[i] = "deploy" /\ Passed(loc'[c], i) => Passed(loc[c], i)
      BY <3>1 DEF Passed
    <3>3. ~Failed(loc[c])
      BY <3>1 DEF Failed
    <3>4. RunFits(c)'
      BY <1>1, <1>2, <3>1, <3>2, <3>3 DEF RunFits
    <3> QED BY <1>2, <3>1, <3>4 DEF Between
  <2>2. CASE StepDone(c)
    <3>1. /\ loc[c].pc = "stepDone"
          /\ Others(c) /\ loc'[c].run = loc[c].run /\ loc'[c].d = loc[c].d /\ loc'[c].ok = loc[c].ok
          /\ loc[c].ok => loc'[c].pc = "step" /\ loc'[c].step = loc[c].step + 1
          /\ ~loc[c].ok => loc'[c].pc = "finishRun" /\ loc'[c].step = loc[c].step
      BY <1>t, <2>2, StepDoneMoves
    <3>2. \A i \in DOMAIN Steps : Passed(loc'[c], i) => Passed(loc[c], i)
      BY <1>t, <1>n, <3>1 DEF Passed
    <3>3. Failed(loc[c]) <=> Failed(loc'[c])
      BY <3>1 DEF Failed
    <3>4. loc'[c].step \in 1 .. (Len(Steps) + 1)
      BY <1>t, <1>2, <3>1 DEF RunFits
    <3>5. RunFits(c)'
      BY <1>1, <1>2, <3>1, <3>2, <3>3, <3>4 DEF RunFits, Working
    <3> QED BY <1>2, <3>1, <3>5 DEF Between
  <2>3. CASE AllDone(c)
    <3>1. /\ loc[c].pc = "step" /\ loc[c].step > Len(Steps)
          /\ Goes(c, "finishRun") /\ loc'[c].ok = loc[c].ok
      BY <1>t, <2>3, AllDoneMoves
    <3>2. \A i \in DOMAIN Steps : Passed(loc'[c], i) => Passed(loc[c], i)
      BY <3>1 DEF Passed, Goes, Stays
    <3>3. ~Failed(loc[c])
      BY <3>1 DEF Failed
    <3>4. loc[c].step = Len(Steps) + 1
      BY <1>t, <1>n, <1>2, <3>1 DEF RunFits
    <3>5. RunFits(c)'
      BY <1>1, <1>2, <3>1, <3>2, <3>3, <3>4 DEF RunFits, Working, Goes, Stays
    <3> QED BY <1>2, <3>1, <3>5 DEF Between, Goes, Stays
  <2> QED BY <2>1, <2>2, <2>3
<1> QED BY <1>1, <1>2, <1>3, AsideKeeps DEF Held, Between, Working

LEMMA CreateRunKeeps ==
  ASSUME RunInv, NEW c \in Caller, CreateRun(c)
  PROVE  RunParts'
<1>t. HeldRow /\ HeldRun /\ CausesAreKept /\ StepsAreDone /\ RunTellsDeployments /\ Types
  BY DEF RunInv
<1>1. /\ loc[c].pc = "createRun" /\ UNCHANGED <<dep, deps>> /\ Others(c) /\ loc'[c].d = 0
      /\ \/ loc'[c].pc = "idle" /\ loc'[c].run = 0 /\ UNCHANGED runs
         \/ \E r \in Run : /\ runs[r].status = "none"
                           /\ runs' = [runs EXCEPT ![r] = [runs[r] EXCEPT !.status = "running"]]
                           /\ loc'[c].pc = "step" /\ loc'[c].run = r /\ loc'[c].step = 1
  BY <1>t, CreateRunMoves
<1>2. CASE loc'[c].pc = "idle" /\ loc'[c].run = 0 /\ UNCHANGED runs
  BY <1>1, <1>2, AsideKeeps DEF Held, Between, Working
<1>3. ASSUME NEW r \in Run, runs[r].status = "none",
             runs' = [runs EXCEPT ![r] = [runs[r] EXCEPT !.status = "running"]],
             loc'[c].pc = "step", loc'[c].run = r, loc'[c].step = 1
      PROVE  RunParts'
  <2>0. /\ runs'[r].status = "running" /\ \A x \in Run : x # r => runs'[x] = runs[x]
        /\ r # 0 /\ r \notin {0}
    BY <1>t, <1>3 DEF Types, TypeOK, Run
  <2>1. \A e \in Caller : loc[e].run # r
    BY <1>t, <1>3, <2>0 DEF HeldRun
  <2>r. \A e \in Caller : loc[e].run # 0 => loc[e].run \in Run
    BY <1>t DEF Types, Loc
  <2>2. HeldRow'
    <3>1. \A e \in Caller : Held(e)' => Held(e) /\ loc'[e].d = loc[e].d
      BY <1>1, <1>3 DEF Others, Held, Working
    <3> QED BY <1>t, <1>1, <3>1 DEF HeldRow, Others, Held
  <2>3. HeldRun'
    BY <1>t, <1>1, <1>3, <2>0, <2>1, <2>r DEF HeldRun, Others, Between
  <2>4. CausesAreKept'
    BY <1>t, <1>1, <1>3, <2>0 DEF CausesAreKept, Others
  <2>5. StepsAreDone'
    <3>1. RunFits(c)'
      <4>1. deps[r] = {} /\ \A i \in DOMAIN Steps : ~Passed(loc'[c], i)
        BY <1>t, <1>3 DEF CausesAreKept, Passed
      <4> QED BY <1>1, <1>3, <4>1 DEF RunFits, Working
    <3>2. \A e \in Caller : e # c /\ loc'[e].run # 0 => RunFits(e)'
      BY <1>t, <1>1, FitsStay DEF StepsAreDone, Others
    <3> QED BY <3>1, <3>2 DEF StepsAreDone
  <2>6. RunTellsDeployments'
    BY <1>t, <1>1, <2>0 DEF RunTellsDeployments
  <2> QED BY <2>2, <2>3, <2>4, <2>5, <2>6 DEF RunParts
<1> QED BY <1>1, <1>2, <1>3

\* Only a run that has done every step, each with success, is settled as a success.
LEMMA FinishRunKeeps ==
  ASSUME RunInv, NEW c \in Caller, FinishRun(c)
  PROVE  RunParts'
<1>t. HeldRow /\ HeldRun /\ CausesAreKept /\ StepsAreDone /\ RunTellsDeployments /\ Types
  BY DEF RunInv
<1>1. /\ loc[c].pc = "finishRun" /\ UNCHANGED <<dep, deps>>
      /\ Others(c) /\ loc'[c].pc = "idle" /\ loc'[c].run = 0 /\ loc'[c].d = 0
      /\ \/ UNCHANGED runs
         \/ runs' = [runs EXCEPT ![loc[c].run] = [status |-> IF loc[c].ok THEN "success" ELSE "failed",
                                                  results |-> Results(loc[c])]]
  BY <1>t, FinishRunMoves
<1>2. CASE UNCHANGED runs
  BY <1>1, <1>2, AsideKeeps DEF Held, Between, Working
<1>3. CASE runs' = [runs EXCEPT ![loc[c].run] = [status |-> IF loc[c].ok THEN "success" ELSE "failed",
                                                 results |-> Results(loc[c])]]
  <2>0. PICK r \in Run : r = loc[c].run
    BY <1>t, <1>1 DEF HeldRun, Between, Types, Loc
  <2>1. /\ runs[r].status = "running" /\ r # 0 /\ RunFits(c) /\ loc[c].d = 0
    BY <1>t, <1>1, <2>0 DEF HeldRun, HeldRow, Held, Working, StepsAreDone, Run
  <2>2. /\ runs'[r].status = (IF loc[c].ok THEN "success" ELSE "failed") /\ runs'[r].results = Results(loc[c])
        /\ \A x \in Run : x # r => runs'[x] = runs[x]
    BY <1>t, <1>3, <2>0 DEF Types, TypeOK
  <2>3. \A e \in Caller : e # c => loc[e].run # r
    BY <1>t, <2>0, <2>1 DEF HeldRun
  <2>r. \A e \in Caller : loc[e].run # 0 => loc[e].run \in Run
    BY <1>t DEF Types, Loc
  <2>4. HeldRow'
    <3>1. \A e \in Caller : Held(e)' => Held(e) /\ loc'[e].d = loc[e].d
      BY <1>1 DEF Others, Held, Working
    <3> QED BY <1>t, <1>1, <3>1 DEF HeldRow, Others, Held
  <2>5. HeldRun'
    BY <1>t, <1>1, <2>2, <2>3, <2>r DEF HeldRun, Others, Between
  <2>6. CausesAreKept'
    BY <1>t, <1>1, <2>2 DEF CausesAreKept, Others
  <2>7. StepsAreDone'
    <3>1. \A e \in Caller : loc'[e].run # 0 => e # c /\ loc'[e] = loc[e]
      BY <1>1 DEF Others
    <3> QED BY <1>t, <1>1, <3>1, FitsStay DEF StepsAreDone
  <2>8. ASSUME loc[c].ok
        PROVE  /\ runs'[r].results = [i \in DOMAIN Steps |-> "success"]
               /\ \A d \in deps[r] : dep[d].status = "success"
               /\ \A i \in DOMAIN Steps : Steps[i] = "deploy" => deps[r] # {}
    <3>1. loc[c].step = Len(Steps) + 1 /\ Len(Steps) \in Nat /\ DOMAIN Steps = 1 .. Len(Steps)
      BY <1>1, <2>1, <2>8 DEF RunFits
    <3>2. \A i \in DOMAIN Steps : Passed(loc[c], i)
      BY <3>1 DEF Passed
    <3>3. ~Failed(loc[c])
      BY <2>8 DEF Failed
    <3>4. Results(loc[c]) = [i \in 1 .. (loc[c].step - 1) |-> "success"]
      BY <2>8 DEF Results
    <3>5. loc[c].step - 1 = Len(Steps)
      BY <3>1
    <3>6. \A d \in deps[r] : d # 0
      BY <1>t DEF Types, TypeOK, Deployment
    <3> QED BY <2>0, <2>1, <2>2, <3>1, <3>2, <3>3, <3>4, <3>5, <3>6 DEF RunFits
  <2>9. RunTellsDeployments'
    BY <1>t, <1>1, <2>2, <2>8 DEF RunTellsDeployments
  <2> QED BY <2>4, <2>5, <2>6, <2>7, <2>9 DEF RunParts
<1> QED BY <1>1, <1>2, <1>3

\* A row is inserted, for a client or for a step of a run.
LEMMA InsertKeeps ==
  ASSUME RunInv, NEW c \in Caller, NEW d \in Deployment, loc[c].pc = "create", dep[d].status = "none",
         dep' = [dep EXCEPT ![d] = [NoRow EXCEPT !.status = "running", !.place = Here(c)]],
         Others(c), loc'[c].pc = "connect", loc'[c].d = d, loc'[c].run = loc[c].run, loc'[c].step = loc[c].step,
         Caused, UNCHANGED runs
  PROVE  RunParts'
<1>t. HeldRow /\ HeldRun /\ CausesAreKept /\ StepsAreDone /\ RunTellsDeployments /\ Types
  BY DEF RunInv
<1>0. d # 0 /\ \A r \in Run : r # 0
  BY DEF Deployment, Run
<1>1. dep'[d].status = "running" /\ \A x \in Deployment : x # d => dep'[x] = dep[x]
  <2>1. [NoRow EXCEPT !.status = "running", !.place = Here(c)].status = "running"
    BY DEF NoRow
  <2> QED BY <1>t, <2>1 DEF Types, TypeOK, DeployTypeOK
<1>2. loc[c].d = 0 /\ \A e \in Caller : Held(e) => loc[e].d # d
  BY <1>t DEF HeldRow, Held, Working
<1>3. \A r \in Run : deps'[r] = deps[r] \cup (IF loc[c].run = r THEN {d} ELSE {})
  <2>1. deps' = [r \in Run |-> deps[r] \cup {loc'[e].d : e \in {x \in Caller : loc'[x].run = r /\ loc'[x].d # 0}}]
    BY DEF Caused
  <2>2. ASSUME NEW r \in Run, NEW e \in Caller, loc'[e].run = r, loc'[e].d # 0
        PROVE  loc'[e].d \in deps[r] \/ (loc[c].run = r /\ loc'[e].d = d)
    BY <1>t, <1>0, <2>2 DEF CausesAreKept, Others
  <2>3. \A r \in Run : loc[c].run = r =>
          d \in {loc'[e].d : e \in {x \in Caller : loc'[x].run = r /\ loc'[x].d # 0}}
    BY <1>0
  <2> QED BY <2>1, <2>2, <2>3
<1>m. \A r \in Run : loc[c].run # r => deps'[r] = deps[r]
  <2>1. \A r \in Run : deps[r] \cup {} = deps[r]
    OBVIOUS
  <2> QED BY <1>3, <2>1
<1>r. \A e \in Caller : loc[e].run # 0 => loc[e].run \in Run /\ deps[loc[e].run] \in SUBSET Deployment
  BY <1>t DEF Types, TypeOK, Loc
<1>s. \A r \in Run : deps[r] \in SUBSET Deployment
  BY <1>t DEF Types, TypeOK
<1>4. HeldRow'
  <2>1. \A e \in Caller : e # c /\ Held(e)' => Held(e) /\ loc'[e].d = loc[e].d
    BY DEF Others, Held
  <2>2. Held(c)'
    BY DEF Held, Working
  <2> QED BY <1>t, <1>1, <1>2, <2>1, <2>2 DEF HeldRow, Others, Held
<1>5. HeldRun'
  BY <1>t DEF HeldRun, Others, Working, Between
<1>6. CausesAreKept'
  <2>1. ASSUME NEW e \in Caller, loc'[e].run # 0, loc'[e].d # 0 PROVE loc'[e].d \in deps'[loc'[e].run]
    BY <1>t, <1>3, <1>r, <2>1 DEF CausesAreKept, Others
  <2>2. ASSUME NEW r \in Run, runs'[r].status = "none" PROVE deps'[r] = {}
    <3>1. deps[r] = {} /\ runs[r].status = "none"
      BY <1>t, <2>2 DEF CausesAreKept
    <3>2. loc[c].run # r
      BY <1>t, <1>0, <3>1 DEF HeldRun
    <3> QED BY <1>3, <3>1, <3>2
  <2> QED BY <2>1, <2>2 DEF CausesAreKept
<1>7. StepsAreDone'
  <2>1. ASSUME loc'[c].run # 0 PROVE RunFits(c)'
    <3>1. RunFits(c) /\ ~Failed(loc[c]) /\ loc[c].run # 0 /\ loc[c].run \in Run
      BY <1>t, <1>r, <2>1 DEF StepsAreDone, Failed
    <3>2. \A i \in DOMAIN Steps : Passed(loc'[c], i) => Passed(loc[c], i)
      BY DEF Passed
    <3>3. deps'[loc[c].run] = deps[loc[c].run] \cup {d}
      BY <1>3, <3>1
    <3>4. \A x \in deps'[loc[c].run] : x = d \/ dep'[x].status = "success"
      BY <1>0, <1>1, <1>2, <1>r, <3>1, <3>3 DEF RunFits, Deployment
    <3> QED BY <3>1, <3>2, <3>3, <3>4 DEF RunFits, Working
  <2>2. ASSUME NEW e \in Caller, e # c, loc'[e].run # 0 PROVE RunFits(e)'
    <3>1. loc'[e] = loc[e] /\ RunFits(e) /\ loc[e].run \in Run /\ loc[e].run # loc[c].run
      BY <1>t, <1>r, <2>2 DEF StepsAreDone, Others, HeldRun
    <3>2. deps'[loc[e].run] = deps[loc[e].run]
      BY <1>m, <3>1
    <3>3. \A x \in deps[loc[e].run] : dep[x].status = "success" => dep'[x].status = "success"
      BY <1>1, <1>r, <3>1
    <3> QED BY <3>1, <3>2, <3>3 DEF RunFits
  <2> QED BY <2>1, <2>2 DEF StepsAreDone
<1>8. RunTellsDeployments'
  <2> SUFFICES ASSUME NEW r \in Run, runs[r].status = "success"
               PROVE  /\ runs'[r].results = [i \in DOMAIN Steps |-> "success"]
                      /\ \A x \in deps'[r] : dep'[x].status = "success"
                      /\ \A i \in DOMAIN Steps : Steps[i] = "deploy" => deps'[r] # {}
    BY DEF RunTellsDeployments
  <2>1. loc[c].run # r
    BY <1>t, <1>0 DEF HeldRun
  <2>2. deps'[r] = deps[r]
    BY <1>m, <2>1
  <2> QED BY <1>t, <1>1, <1>s, <2>2 DEF RunTellsDeployments
<1> QED BY <1>4, <1>5, <1>6, <1>7, <1>8 DEF RunParts

\* A row is settled: with success only where Deploy answers no failure of its own.
LEMMA UpdateKeeps ==
  ASSUME RunInv, NEW c \in Caller, loc[c].pc = "finish", NEW ok \in BOOLEAN, Return(c, ok), ok \in {FALSE, loc[c].ok},
         Settles(c),
         Caused, UNCHANGED runs
  PROVE  RunParts'
<1>t. HeldRow /\ HeldRun /\ CausesAreKept /\ StepsAreDone /\ RunTellsDeployments /\ Types
  BY DEF RunInv
<1>0. PICK d \in Deployment : d = loc[c].d /\ dep[d].status = "running" /\ d # 0
  BY <1>t DEF HeldRow, Held, Working, Deployment
<1>1. dep'[d].status = (IF loc[c].ok THEN "success" ELSE "failed") /\ \A x \in Deployment : x # d => dep'[x] = dep[x]
  <2>1. dep[d] \in [status : {"none", "running", "success", "failed"}, place : Place, commit : Commit, back : Commit]
    BY <1>t DEF Types, TypeOK, DeployTypeOK
  <2>2. \A a, x, y : [dep[d] EXCEPT !.status = a, !.commit = x, !.back = y].status = a
    BY <2>1
  <2> QED BY <1>t, <1>0, <2>2 DEF Settles, Types, TypeOK, DeployTypeOK
<1>k. \A x \in Deployment : dep[x].status = "success" => dep'[x].status = "success"
  BY <1>0, <1>1
<1>2. /\ Others(c) /\ loc'[c].run = loc[c].run /\ loc'[c].d = 0 /\ ~Held(c)'
      /\ loc'[c].pc \in Between => loc'[c].run # 0
      /\ loc'[c].run # 0 => /\ loc'[c].pc = "stepDone" /\ loc'[c].ok = ok
                            /\ loc'[c].step = loc[c].step /\ loc[c].step \in 1 .. Len(Steps)
  BY ReturnFits
<1>3. UNCHANGED deps
  BY <1>2, CausedSame DEF Others
<1>r. \A e \in Caller : loc[e].run # 0 => loc[e].run \in Run /\ deps[loc[e].run] \in SUBSET Deployment
  BY <1>t DEF Types, TypeOK, Loc
<1>s. \A r \in Run : deps[r] \in SUBSET Deployment
  BY <1>t DEF Types, TypeOK
<1>4. HeldRow'
  <2>1. \A e \in Caller : Held(e)' => e # c /\ Held(e) /\ loc'[e].d = loc[e].d
    BY <1>2 DEF Others, Held
  <2>2. \A e \in Caller : Held(e)' => loc[e].d \in Deployment /\ loc[e].d # d
    BY <1>t, <1>0, <2>1 DEF HeldRow, Held, Working
  <2>3. \A e \in Caller : Held(e)' => loc'[e].d \in Deployment /\ dep'[loc'[e].d].status = "running"
    <3> SUFFICES ASSUME NEW e \in Caller, Held(e)'
                 PROVE  loc'[e].d \in Deployment /\ dep'[loc'[e].d].status = "running"
      OBVIOUS
    <3>1. Held(e) /\ loc'[e].d = loc[e].d /\ loc[e].d \in Deployment /\ loc[e].d # d
      BY <2>1, <2>2
    <3>2. dep[loc[e].d].status = "running"
      BY <1>t, <3>1 DEF HeldRow
    <3>3. dep'[loc[e].d] = dep[loc[e].d]
      BY <1>1, <3>1
    <3> QED BY <3>1, <3>2, <3>3
  <2> QED BY <1>t, <1>2, <2>1, <2>3 DEF HeldRow, Others, Held
<1>5. HeldRun'
  BY <1>t, <1>2 DEF HeldRun, Others, Working, Between
<1>6. CausesAreKept'
  BY <1>t, <1>2, <1>3 DEF CausesAreKept, Others
<1>7. StepsAreDone'
  <2>1. ASSUME loc'[c].run # 0 PROVE RunFits(c)'
    <3>1. RunFits(c) /\ ~Failed(loc[c]) /\ loc[c].run # 0 /\ loc[c].run \in Run
      BY <1>t, <1>2, <1>r, <2>1 DEF StepsAreDone, Failed
    <3>2. d \in deps[loc[c].run]
      BY <1>t, <1>0, <3>1 DEF CausesAreKept
    <3>3. ok => \A x \in deps[loc[c].run] : dep'[x].status = "success"
      <4>1. \A x \in deps[loc[c].run] : x = d \/ dep[x].status = "success"
        BY <1>0, <3>1 DEF RunFits
      <4>2. deps[loc[c].run] \subseteq Deployment
        BY <1>s, <3>1
      <4>3. ok => dep'[d].status = "success"
        BY <1>1
      <4> QED BY <1>k, <4>1, <4>2, <4>3
    <3>4. Failed(loc'[c]) \/ ok
      BY <1>2, <2>1 DEF Failed
    <3> QED BY <1>2, <1>3, <2>1, <3>1, <3>2, <3>3, <3>4 DEF RunFits, Working
  <2>2. ASSUME NEW e \in Caller, e # c, loc'[e].run # 0 PROVE RunFits(e)'
    <3>1. loc'[e] = loc[e] /\ RunFits(e) /\ loc[e].run \in Run
      BY <1>t, <1>2, <1>r, <2>2 DEF StepsAreDone, Others
    <3>2. \A x \in deps[loc[e].run] : dep[x].status = "success" => dep'[x].status = "success"
      <4>1. deps[loc[e].run] \subseteq Deployment
        BY <1>s, <3>1
      <4> QED BY <1>k, <4>1
    <3> QED BY <1>3, <3>1, <3>2 DEF RunFits
  <2> QED BY <2>1, <2>2 DEF StepsAreDone
<1>8. RunTellsDeployments'
  <2>1. \A r \in Run : \A x \in deps[r] : dep[x].status = "success" => dep'[x].status = "success"
    BY <1>k, <1>s
  <2> QED BY <1>t, <1>3, <2>1 DEF RunTellsDeployments
<1> QED BY <1>4, <1>5, <1>6, <1>7, <1>8 DEF RunParts

LEMMA CrashKeeps == ASSUME RunInv, Crash PROVE RunParts' /\ loc' \in [Caller -> Loc]
<1>1. \A c \in Caller : loc'[c] = Idle
  BY DEF Crash, DeployCrash
<1>2. UNCHANGED <<dep, runs, deps>>
  BY DEF Crash, DeployCrash, pipeVars
<1>3. HeldRow' /\ HeldRun'
  BY <1>1, Idles DEF HeldRow, HeldRun, Held, Working, Between
<1>4. CausesAreKept' /\ StepsAreDone' /\ RunTellsDeployments'
  BY <1>1, <1>2, Idles DEF RunInv, CausesAreKept, StepsAreDone, RunTellsDeployments
<1>5. loc' \in [Caller -> Loc]
  BY Idles DEF Crash, DeployCrash
<1> QED BY <1>3, <1>4, <1>5 DEF RunParts

\* What happens around the requests, and between them.
Around == \/ \E t \in Target : createDeploymentTarget(t) \/ deleteDeploymentTarget(t)
          \/ \E p \in Place, ref \in Commit : LateCheckout(p, ref)
          \/ Push

LEMMA AroundMoves == Around => UNCHANGED <<loc, dep, faults>>
BY DEF Around, createDeploymentTarget, deleteDeploymentTarget, LateCheckout, Push, remote

\* The steps, sorted by what they are about.
LEMMA StepKinds ==
  ASSUME Next
  PROVE  \/ /\ Caused /\ UNCHANGED <<pipeline, runs>>
            /\ \/ Around
               \/ \E c \in Caller : Start(c) \/ CreateRow(c) \/ Walk(c) \/ Finish(c)
         \/ \E c \in Caller : \/ Start(c) /\ UNCHANGED pipeVars
                              \/ CreateRun(c) \/ RunStep(c) \/ StepDone(c) \/ AllDone(c) \/ FinishRun(c)
         \/ createPipeline \/ deletePipeline \/ Crash
<1>1. ASSUME DeployNext PROVE Around \/ \E c \in Caller : Start(c) \/ CreateRow(c) \/ Walk(c) \/ Finish(c)
  BY <1>1 DEF DeployNext, DeploySteps, Around, Start, Walk
<1>2. ASSUME NEW c \in Caller, PipeSteps(c)
      PROVE  \/ Start(c) /\ UNCHANGED pipeVars
             \/ CreateRun(c) \/ RunStep(c) \/ StepDone(c) \/ AllDone(c) \/ FinishRun(c)
  BY <1>2 DEF PipeSteps, Start, runPipeline
<1> QED BY <1>1, <1>2 DEF Next

LEMMA NextParts == ASSUME RunInv, [Next]_vars PROVE RunParts'
<1>1. ASSUME Caused, UNCHANGED runs, NEW c \in Caller, Start(c) \/ CreateRow(c) \/ Walk(c) \/ Finish(c)
      PROVE  RunParts'
  <2>1. CASE Start(c)
    BY <1>1, <2>1, StartKeeps
  <2>2. CASE Walk(c)
    BY <1>1, <2>2, WalkKeeps
  <2>3. CASE CreateRow(c)
    <3>1. Types
      BY DEF RunInv
    <3>2. CASE Return(c, FALSE) /\ UNCHANGED dep
      BY <1>1, <2>3, <3>1, <3>2, CreateRowMoves, ReturnKeeps
    <3>3. ASSUME NEW d \in Deployment, NoRowYet(d),
                 dep' = [dep EXCEPT ![d] = [NoRow EXCEPT !.status = "running", !.place = Here(c)]],
                 Others(c), loc'[c].pc = "connect", loc'[c].d = d, loc'[c].run = loc[c].run,
                 loc'[c].step = loc[c].step
          PROVE  RunParts'
      BY <1>1, <2>3, <3>1, <3>3, CreateRowMoves, InsertKeeps DEF NoRowYet
    <3> QED BY <2>3, <3>1, <3>2, <3>3, CreateRowMoves
  <2>4. CASE Finish(c)
    <3>1. Types
      BY DEF RunInv
    <3>2. loc[c].pc = "finish"
      BY <2>4, <3>1, FinishMoves
    <3>3. CASE UNCHANGED dep /\ Return(c, FALSE)
      BY <1>1, <3>2, <3>3, ReturnKeeps
    <3>4. ASSUME NEW ok \in BOOLEAN, Return(c, ok), ok \in {FALSE, loc[c].ok},
                 Settles(c)
          PROVE  RunParts'
      BY <1>1, <3>2, <3>4, UpdateKeeps
    <3> QED BY <2>4, <3>1, <3>3, <3>4, FinishMoves
  <2> QED BY <1>1, <2>1, <2>2, <2>3, <2>4
<1>2. ASSUME Around, Caused, UNCHANGED runs PROVE RunParts'
  <2>1. UNCHANGED <<loc, dep>>
    BY <1>2, AroundMoves
  <2>2. UNCHANGED deps
    BY <1>2, <2>1, CausedSame
  <2> QED BY <1>2, <2>1, <2>2, AroundKeeps
<1>3. ASSUME NEW c \in Caller, Start(c), UNCHANGED pipeVars PROVE RunParts'
  BY <1>3, StartKeeps DEF pipeVars
<1>4. ASSUME NEW c \in Caller, CreateRun(c) \/ RunStep(c) \/ StepDone(c) \/ AllDone(c) \/ FinishRun(c)
      PROVE  RunParts'
  BY <1>4, CreateRunKeeps, RunStepKeeps, FinishRunKeeps
<1>5. CASE createPipeline \/ deletePipeline
  BY <1>5, AroundKeeps DEF createPipeline, deletePipeline
<1>6. CASE Crash
  BY <1>6, CrashKeeps
<1>7. CASE UNCHANGED vars
  BY <1>7, AroundKeeps DEF vars, pipeVars
<1> QED BY <1>1, <1>2, <1>3, <1>4, <1>5, <1>6, <1>7, StepKinds

-----------------------------------------------------------------------------
(* The types                                                                  *)

LEMMA RemoveAtType == ASSUME NEW S, NEW s \in Seq(S), NEW i \in DOMAIN s PROVE RemoveAt(s, i) \in Seq(S)
<1>1. i \in 1 .. Len(s) /\ Len(s) \in Nat
  OBVIOUS
<1>2. SubSeq(s, 1, i - 1) \in Seq(S) /\ SubSeq(s, i + 1, Len(s)) \in Seq(S)
  <2>1. (\A j \in 1 .. (i - 1) : s[j] \in S) /\ \A j \in (i + 1) .. Len(s) : s[j] \in S
    BY <1>1
  <2> QED BY <1>1, <2>1
<1> QED BY <1>2 DEF RemoveAt

DepType == dep \in [Deployment -> [status : {"none", "running", "success", "failed"}, place : Place,
                                   commit : Commit, back : Commit]]
RunType == runs \in [Run -> [status : {"none", "running", "success", "failed"}, results : Seq({"success", "failed"})]]
RemoteType == origin \in Commit /\ head \in [Place -> Commit] /\ late \in SUBSET (Place \X Commit)

LEMMA TypeParts ==
  Types <=> /\ RemoteType /\ targets \in Seq(Target) /\ DepType /\ faults \in FaultSets
            /\ pipeline \in BOOLEAN /\ RunType /\ deps \in [Run -> SUBSET Deployment] /\ loc \in [Caller -> Loc]
BY DEF Types, TypeOK, DeployTypeOK, RemoteType, DepType, RunType

LEMMA TypePartsNext ==
  ASSUME RemoteType', targets' \in Seq(Target), DepType', faults' \in FaultSets, pipeline' \in BOOLEAN,
         RunType', deps' \in [Run -> SUBSET Deployment], loc' \in [Caller -> Loc]
  PROVE  Types'
BY DEF Types, TypeOK, DeployTypeOK, RemoteType, DepType, RunType

LEMMA CausedType ==
  ASSUME Types, Caused, loc' \in [Caller -> Loc]
  PROVE  deps' \in [Run -> SUBSET Deployment]
<1>1. \A e \in Caller : loc'[e].d # 0 => loc'[e].d \in Deployment
  BY DEF Loc
<1> QED BY <1>1, TypeParts DEF Caused

LEMMA NextDeployTypes ==
  ASSUME RunInv, NEW c \in Caller, Start(c) \/ CreateRow(c) \/ Walk(c) \/ Finish(c)
  PROVE  RemoteType' /\ targets' \in Seq(Target) /\ DepType' /\ faults' \in FaultSets /\ loc' \in [Caller -> Loc]
<1>t. Types /\ RemoteType /\ targets \in Seq(Target) /\ DepType /\ faults \in FaultSets
  BY TypeParts DEF RunInv
<1>l. loc[c].sha \in Commit /\ loc[c].back \in Commit /\ loc[c].ref \in Commit /\ Here(c) \in Place /\ origin \in Commit
  BY <1>t DEF Types, Loc, Here, RemoteType
<1>1. CASE Start(c)
  BY <1>1, <1>t, StartMoves DEF RemoteType, DepType, remote, Others
<1>2. CASE Walk(c)
  <2>1. UNCHANGED <<origin, targets, dep, faults>> /\ loc' \in [Caller -> Loc]
    BY <1>t, <1>2, WalkMoves DEF Stays, Others
  <2>2. \/ UNCHANGED <<head, late>>
        \/ UNCHANGED late /\ head' = [head EXCEPT ![Here(c)] = origin]
        \/ UNCHANGED late /\ head' = [head EXCEPT ![Here(c)] = loc[c].ref]
        \/ UNCHANGED head /\ \E x \in Commit : late' = late \cup {<<Here(c), x>>}
    BY <1>t, <1>2, WalkMoves
  <2>3. RemoteType'
    BY <1>t, <1>l, <2>1, <2>2 DEF RemoteType
  <2> QED BY <1>t, <2>1, <2>3 DEF DepType
<1>3. CASE CreateRow(c)
  <2>1. loc[c].pc = "create" /\ UNCHANGED <<origin, head, late, targets, faults>>
    BY <1>t, <1>3, CreateRowMoves
  <2>2. RemoteType' /\ targets' \in Seq(Target) /\ faults' \in FaultSets
    BY <1>t, <2>1 DEF RemoteType
  <2>3. CASE Return(c, FALSE) /\ UNCHANGED dep
    BY <1>t, <2>2, <2>3, ReturnMoves DEF DepType, Others
  <2>4. ASSUME NEW d \in Deployment, Others(c),
               dep' = [dep EXCEPT ![d] = [NoRow EXCEPT !.status = "running", !.place = Here(c)]]
        PROVE  DepType' /\ loc' \in [Caller -> Loc]
    <3>1. [NoRow EXCEPT !.status = "running", !.place = Here(c)] \in
            [status : {"none", "running", "success", "failed"}, place : Place, commit : Commit, back : Commit]
      <4>1. PICK q : q = NoRow
        OBVIOUS
      <4>2. q \in [status : {"none", "running", "success", "failed"}, place : Place, commit : Commit, back : Commit]
        BY <1>l, <4>1 DEF NoRow, Commit
      <4> QED BY <1>l, <4>1, <4>2
    <3> QED BY <1>t, <2>4, <3>1 DEF DepType, Others
  <2> QED BY <1>t, <1>3, <2>2, <2>3, <2>4, CreateRowMoves
<1>4. CASE Finish(c)
  <2>1. loc[c].pc = "finish" /\ UNCHANGED <<origin, head, late, targets, faults>>
    BY <1>t, <1>4, FinishMoves
  <2>2. RemoteType' /\ targets' \in Seq(Target) /\ faults' \in FaultSets
    BY <1>t, <2>1 DEF RemoteType
  <2>3. (\E ok \in BOOLEAN : Return(c, ok)) /\ (UNCHANGED dep \/ Settles(c))
    BY <1>t, <1>4, FinishMoves
  <2>4. loc' \in [Caller -> Loc]
    BY <1>t, <2>3, ReturnMoves DEF Others
  <2>5. ASSUME Settles(c) PROVE DepType'
    <3>1. loc[c].d \in Deployment
      BY <2>1 DEF RunInv, HeldRow, Held, Working
    <3>2. dep[loc[c].d] \in [status : {"none", "running", "success", "failed"}, place : Place,
                             commit : Commit, back : Commit]
      BY <1>t, <3>1 DEF DepType
    <3>3. PICK s \in {"success", "failed"} : s = IF loc[c].ok THEN "success" ELSE "failed"
      OBVIOUS
    <3>4. [dep[loc[c].d] EXCEPT !.status = s, !.commit = loc[c].sha, !.back = loc[c].back] \in
            [status : {"none", "running", "success", "failed"}, place : Place, commit : Commit, back : Commit]
      BY <1>l, <3>2
    <3> QED BY <1>t, <2>5, <3>3, <3>4 DEF DepType, Settles
  <2> QED BY <1>t, <2>2, <2>3, <2>4, <2>5 DEF DepType
<1> QED BY <1>1, <1>2, <1>3, <1>4

LEMMA NextAroundTypes ==
  ASSUME Types, Around
  PROVE  RemoteType' /\ targets' \in Seq(Target)
<1>t. Types /\ RemoteType /\ targets \in Seq(Target)
  BY TypeParts
<1>1. ASSUME NEW t \in Target, createDeploymentTarget(t) PROVE RemoteType' /\ targets' \in Seq(Target)
  BY <1>1, <1>t DEF createDeploymentTarget, remote, RemoteType
<1>2. ASSUME NEW t \in Target, deleteDeploymentTarget(t) PROVE RemoteType' /\ targets' \in Seq(Target)
  BY <1>2, <1>t, RemoveAtType DEF deleteDeploymentTarget, remote, RemoteType
<1>3. ASSUME NEW p \in Place, NEW ref \in Commit, LateCheckout(p, ref) PROVE RemoteType' /\ targets' \in Seq(Target)
  <2>1. (IF ref = 0 THEN origin ELSE IF head[p] = 0 THEN 0 ELSE ref) \in Commit
    BY <1>t DEF RemoteType, Commit
  <2> QED BY <1>3, <1>t, <2>1 DEF LateCheckout, RemoteType
<1>4. CASE Push
  BY <1>4, <1>t DEF Push, RemoteType, Commit
<1> QED BY <1>1, <1>2, <1>3, <1>4 DEF Around

LEMMA NextRunTypes ==
  ASSUME RunInv, NEW c \in Caller, CreateRun(c) \/ RunStep(c) \/ StepDone(c) \/ AllDone(c) \/ FinishRun(c)
  PROVE  /\ RemoteType' /\ targets' \in Seq(Target) /\ DepType' /\ faults' \in FaultSets /\ loc' \in [Caller -> Loc]
         /\ RunType' /\ deps' \in [Run -> SUBSET Deployment] /\ pipeline' \in BOOLEAN
<1>t. /\ Types /\ RemoteType /\ targets \in Seq(Target) /\ DepType /\ faults \in FaultSets
      /\ RunType /\ deps \in [Run -> SUBSET Deployment] /\ pipeline \in BOOLEAN
  BY TypeParts DEF RunInv
<1>1. UNCHANGED <<remote, targets, dep, faults, deps, pipeline>>
  BY DEF CreateRun, RunStep, StepDone, AllDone, FinishRun, pipeVars
<1>2. loc' \in [Caller -> Loc]
  BY <1>t, CreateRunMoves, RunStepMoves, StepDoneMoves, AllDoneMoves, FinishRunMoves DEF Others, Goes, Stays
<1>3. RunType'
  <2>1. CASE UNCHANGED runs
    BY <1>t, <2>1 DEF RunType
  <2>2. ASSUME NEW r \in Run, runs' = [runs EXCEPT ![r] = [runs[r] EXCEPT !.status = "running"]]
        PROVE  RunType'
    <3>1. [runs[r] EXCEPT !.status = "running"] \in
            [status : {"none", "running", "success", "failed"}, results : Seq({"success", "failed"})]
      <4>1. runs[r] \in [status : {"none", "running", "success", "failed"}, results : Seq({"success", "failed"})]
        BY <1>t DEF RunType
      <4> QED BY <4>1
    <3> QED BY <1>t, <2>2, <3>1 DEF RunType
  <2>3. ASSUME loc[c].pc = "finishRun",
               runs' = [runs EXCEPT ![loc[c].run] = [status |-> IF loc[c].ok THEN "success" ELSE "failed",
                                                     results |-> Results(loc[c])]]
        PROVE  RunType'
    <3>1. loc[c].run # 0 /\ RunFits(c)
      BY <2>3 DEF RunInv, HeldRun, StepsAreDone, Between
    <3>2. loc[c].step \in Nat /\ loc[c].step - 1 \in Nat
      BY <1>t, <3>1 DEF RunFits, Types, Loc
    <3>3. PICK n \in Nat : n = IF loc[c].ok THEN loc[c].step - 1 ELSE loc[c].step
      BY <3>2
    <3>4. Results(loc[c]) = [i \in 1 .. n |-> IF loc[c].ok \/ i < loc[c].step THEN "success" ELSE "failed"]
      BY <3>3 DEF Results
    <3>5. \A i \in 1 .. n : (IF loc[c].ok \/ i < loc[c].step THEN "success" ELSE "failed") \in {"success", "failed"}
      OBVIOUS
    <3>6. Results(loc[c]) \in Seq({"success", "failed"})
      <4> DEFINE f == [i \in 1 .. n |-> IF loc[c].ok \/ i < loc[c].step THEN "success" ELSE "failed"]
      <4>1. f \in [1 .. n -> {"success", "failed"}]
        BY <3>5
      <4> HIDE DEF f
      <4>2. f \in Seq({"success", "failed"})
        BY <4>1
      <4> QED BY <3>4, <4>2 DEF f
    <3> QED BY <1>t, <2>3, <3>6 DEF RunType
  <2> QED BY <1>t, <2>1, <2>2, <2>3, CreateRunMoves, RunStepMoves, StepDoneMoves, AllDoneMoves, FinishRunMoves
          DEF pipeVars
<1> QED BY <1>t, <1>1, <1>2, <1>3 DEF RemoteType, DepType, remote

LEMMA NextTypes == ASSUME RunInv, [Next]_vars PROVE Types'
<1>t. /\ Types /\ RemoteType /\ targets \in Seq(Target) /\ DepType /\ faults \in FaultSets /\ loc \in [Caller -> Loc]
      /\ RunType /\ deps \in [Run -> SUBSET Deployment] /\ pipeline \in BOOLEAN
  BY TypeParts DEF RunInv
<1>1. ASSUME NEW c \in Caller, Start(c) \/ CreateRow(c) \/ Walk(c) \/ Finish(c),
             UNCHANGED <<pipeline, runs>>, Caused \/ UNCHANGED deps
      PROVE  Types'
  <2>1. RemoteType' /\ targets' \in Seq(Target) /\ DepType' /\ faults' \in FaultSets /\ loc' \in [Caller -> Loc]
    BY <1>1, NextDeployTypes
  <2>2. deps' \in [Run -> SUBSET Deployment]
    BY <1>1, <1>t, <2>1, CausedType
  <2> QED BY <1>1, <1>t, <2>1, <2>2, TypePartsNext DEF RunType
<1>2. ASSUME Around, Caused, UNCHANGED <<pipeline, runs>> PROVE Types'
  <2>1. RemoteType' /\ targets' \in Seq(Target) /\ UNCHANGED <<loc, dep, faults>>
    BY <1>2, <1>t, NextAroundTypes, AroundMoves
  <2>2. deps' \in [Run -> SUBSET Deployment]
    BY <1>2, <1>t, <2>1, CausedType
  <2> QED BY <1>2, <1>t, <2>1, <2>2, TypePartsNext DEF RunType, DepType
<1>3. ASSUME NEW c \in Caller, CreateRun(c) \/ RunStep(c) \/ StepDone(c) \/ AllDone(c) \/ FinishRun(c)
      PROVE  Types'
  BY <1>3, NextRunTypes, TypePartsNext
<1>4. CASE createPipeline \/ deletePipeline
  BY <1>4, <1>t, TypePartsNext DEF createPipeline, deletePipeline, remote, RemoteType, DepType, RunType
<1>5. CASE Crash
  <2>1. late' \in SUBSET (Place \X Commit)
    <3>1. \A e \in Caller : Here(e) \in Place /\ loc[e].ref \in Commit
      BY <1>t DEF Here, Loc
    <3> QED BY <1>5, <1>t, <3>1 DEF Crash, DeployCrash, RemoteType
  <2> QED BY <1>5, <1>t, <2>1, CrashKeeps, TypePartsNext
     DEF Crash, DeployCrash, pipeVars, RemoteType, DepType, RunType
<1>6. CASE UNCHANGED vars
  BY <1>6, <1>t, TypePartsNext DEF vars, remote, pipeVars, RemoteType, DepType, RunType
<1> QED BY <1>1, <1>2, <1>3, <1>4, <1>5, <1>6, StepKinds DEF pipeVars

LEMMA NextRun == ASSUME RunInv, [Next]_vars PROVE RunInv'
BY NextTypes, NextParts DEF RunInv, RunParts

LEMMA Tracked == Spec => []RunInv
<1>1. RunInv /\ [Next]_vars => RunInv'
  BY NextRun
<1> QED BY InitRun, <1>1, PTL DEF Spec

\* The states of Deployments and Pipelines have the types their modules state: every
\* reference is a commit of the branch, every row has one of its four statuses.
THEOREM TypeTheorem == Spec => []TypeOK
<1>1. RunInv => TypeOK
  BY DEF RunInv, Types
<1> QED BY <1>1, Tracked, PTL

\* A run that is recorded as a success has done every step, every deployment it
\* caused is recorded as a success, and each deploy step has caused one: whatever
\* overlaps with it, is cut off, fails or crashes, for every definition.
THEOREM RunTellsDeploymentsTheorem == Spec => []RunTellsDeployments
<1>1. RunInv => RunTellsDeployments
  BY DEF RunInv
<1> QED BY <1>1, Tracked, PTL

-----------------------------------------------------------------------------
(* The life cycle of rows                                                     *)

DepStatus == [d \in Deployment |-> dep[d].status]
RunStatus == [r \in Run |-> runs[r].status]

LEMMA DepStep ==
  ASSUME RunInv, [Next]_vars
  PROVE  \/ UNCHANGED DepStatus
         \/ \E d \in Deployment : DepStatus[d] = "none" /\ DepStatus' = [DepStatus EXCEPT ![d] = "running"]
         \/ \E d \in Deployment, s \in {"success", "failed"} :
              DepStatus[d] = "running" /\ DepStatus' = [DepStatus EXCEPT ![d] = s]
<1>t. Types /\ DepType
  BY TypeParts DEF RunInv
<1>s. UNCHANGED dep => UNCHANGED DepStatus
  BY DEF DepStatus
<1>1. ASSUME NEW c \in Caller, CreateRow(c), ~ UNCHANGED dep
      PROVE  \E d \in Deployment : DepStatus[d] = "none" /\ DepStatus' = [DepStatus EXCEPT ![d] = "running"]
  <2>1. PICK d \in Deployment :
          /\ NoRowYet(d) /\ dep' = [dep EXCEPT ![d] = [NoRow EXCEPT !.status = "running", !.place = Here(c)]]
    BY <1>1, <1>t, CreateRowMoves
  <2>2. [NoRow EXCEPT !.status = "running", !.place = Here(c)].status = "running"
    BY DEF NoRow
  <2>3. dep'[d].status = "running" /\ \A x \in Deployment : x # d => dep'[x] = dep[x]
    BY <1>t, <2>1, <2>2 DEF DepType
  <2>4. DepStatus' = [DepStatus EXCEPT ![d] = "running"]
    BY <2>3 DEF DepStatus
  <2>5. DepStatus[d] = "none"
    BY <2>1 DEF DepStatus, NoRowYet
  <2> QED BY <2>4, <2>5
<1>2. ASSUME NEW c \in Caller, Finish(c), ~ UNCHANGED dep
      PROVE  \E d \in Deployment, s \in {"success", "failed"} :
               DepStatus[d] = "running" /\ DepStatus' = [DepStatus EXCEPT ![d] = s]
  <2>1. loc[c].pc = "finish" /\ Settles(c)
    BY <1>2, <1>t, FinishMoves
  <2>2. PICK d \in Deployment : d = loc[c].d /\ dep[d].status = "running"
    BY <2>1 DEF RunInv, HeldRow, Held, Working
  <2>3. PICK s \in {"success", "failed"} : s = IF loc[c].ok THEN "success" ELSE "failed"
    OBVIOUS
  <2>4. [dep[d] EXCEPT !.status = s, !.commit = loc[c].sha, !.back = loc[c].back].status = s
    BY <1>t DEF DepType
  <2>5. dep'[d].status = s /\ \A x \in Deployment : x # d => dep'[x] = dep[x]
    BY <1>t, <2>1, <2>2, <2>3, <2>4 DEF DepType, Settles
  <2>6. DepStatus' = [DepStatus EXCEPT ![d] = s]
    BY <2>5 DEF DepStatus
  <2>7. DepStatus[d] = "running"
    BY <2>2 DEF DepStatus
  <2> QED BY <2>6, <2>7
<1>3. ASSUME NEW c \in Caller, Start(c) \/ Walk(c) PROVE UNCHANGED dep
  BY <1>3, <1>t, StartMoves, WalkMoves
<1>4. ASSUME NEW c \in Caller, CreateRun(c) \/ RunStep(c) \/ StepDone(c) \/ AllDone(c) \/ FinishRun(c)
      PROVE  UNCHANGED dep
  BY <1>4 DEF CreateRun, RunStep, StepDone, AllDone, FinishRun
<1>5. Around \/ createPipeline \/ deletePipeline \/ Crash \/ UNCHANGED vars => UNCHANGED dep
  BY AroundMoves DEF createPipeline, deletePipeline, Crash, DeployCrash, vars
<1> QED BY <1>s, <1>1, <1>2, <1>3, <1>4, <1>5, StepKinds

LEMMA RunsStep ==
  ASSUME RunInv, [Next]_vars
  PROVE  \/ UNCHANGED RunStatus
         \/ \E r \in Run : RunStatus[r] = "none" /\ RunStatus' = [RunStatus EXCEPT ![r] = "running"]
         \/ \E r \in Run, s \in {"success", "failed"} :
              RunStatus[r] = "running" /\ RunStatus' = [RunStatus EXCEPT ![r] = s]
<1>t. Types /\ RunType
  BY TypeParts DEF RunInv
<1>s. UNCHANGED runs => UNCHANGED RunStatus
  BY DEF RunStatus
<1>1. ASSUME NEW c \in Caller, CreateRun(c), ~ UNCHANGED runs
      PROVE  \E r \in Run : RunStatus[r] = "none" /\ RunStatus' = [RunStatus EXCEPT ![r] = "running"]
  <2>1. PICK r \in Run : runs[r].status = "none" /\ runs' = [runs EXCEPT ![r] = [runs[r] EXCEPT !.status = "running"]]
    BY <1>1, <1>t, CreateRunMoves
  <2>2. [runs[r] EXCEPT !.status = "running"].status = "running"
    BY <1>t DEF RunType
  <2>3. runs'[r].status = "running" /\ \A x \in Run : x # r => runs'[x] = runs[x]
    BY <1>t, <2>1, <2>2 DEF RunType
  <2>4. RunStatus' = [RunStatus EXCEPT ![r] = "running"]
    BY <2>3 DEF RunStatus
  <2>5. RunStatus[r] = "none"
    BY <2>1 DEF RunStatus
  <2> QED BY <2>4, <2>5
<1>2. ASSUME NEW c \in Caller, FinishRun(c), ~ UNCHANGED runs
      PROVE  \E r \in Run, s \in {"success", "failed"} :
               RunStatus[r] = "running" /\ RunStatus' = [RunStatus EXCEPT ![r] = s]
  <2>1. /\ loc[c].pc = "finishRun"
        /\ runs' = [runs EXCEPT ![loc[c].run] = [status |-> IF loc[c].ok THEN "success" ELSE "failed",
                                                 results |-> Results(loc[c])]]
    BY <1>2, <1>t, FinishRunMoves
  <2>2. PICK r \in Run : r = loc[c].run /\ runs[r].status = "running"
    BY <1>t, <2>1 DEF RunInv, HeldRun, Between, Types, Loc
  <2>3. PICK s \in {"success", "failed"} : s = IF loc[c].ok THEN "success" ELSE "failed"
    OBVIOUS
  <2>4. runs'[r].status = s /\ \A x \in Run : x # r => runs'[x] = runs[x]
    BY <1>t, <2>1, <2>2, <2>3 DEF RunType
  <2>5. RunStatus' = [RunStatus EXCEPT ![r] = s]
    BY <2>4 DEF RunStatus
  <2>6. RunStatus[r] = "running"
    BY <2>2 DEF RunStatus
  <2> QED BY <2>5, <2>6
<1>3. ASSUME NEW c \in Caller, RunStep(c) \/ StepDone(c) \/ AllDone(c) \/ (Start(c) /\ UNCHANGED pipeVars)
      PROVE  UNCHANGED runs
  BY <1>3 DEF RunStep, StepDone, AllDone, pipeVars
<1>4. createPipeline \/ deletePipeline \/ Crash \/ UNCHANGED vars => UNCHANGED runs
  BY DEF createPipeline, deletePipeline, Crash, vars, pipeVars
<1> QED BY <1>s, <1>1, <1>2, <1>3, <1>4, StepKinds

\* Deployments and pipeline runs both implement RowLifecycle: a row appears as
\* running and is settled at most once, by the request that made it, with a status
\* that never changes, whatever requests overlap, fail, are cut off or die.
THEOREM RowsFollowLifecycleTheorem == Spec => RowsFollowLifecycle
<1>1. Init => DeploymentRows!Init /\ RunRows!Init
  BY DEF Init, DeployInit, NoRow, DeploymentRows!Init, RunRows!Init
<1>2. RunInv /\ [Next]_vars => [DeploymentRows!Next]_DepStatus
  <2> SUFFICES ASSUME RunInv, [Next]_vars PROVE [DeploymentRows!Next]_DepStatus
    OBVIOUS
  <2>1. ASSUME NEW d \in Deployment, DepStatus[d] = "none", DepStatus' = [DepStatus EXCEPT ![d] = "running"]
        PROVE  DeploymentRows!Next
    BY <2>1 DEF DeploymentRows!Next, DeploymentRows!Begin, DepStatus
  <2>2. ASSUME NEW d \in Deployment, NEW s \in {"success", "failed"},
               DepStatus[d] = "running", DepStatus' = [DepStatus EXCEPT ![d] = s]
        PROVE  DeploymentRows!Next
    <3> DEFINE S == [x \in Deployment |-> dep[x].status]
    <3>0. S = DepStatus /\ S' = DepStatus'
      BY DEF DepStatus
    <3> SUFFICES \E R \in SUBSET {x \in Deployment : S[x] = "running"} :
                   \E f \in [R -> {"success", "failed"}] :
                     S' = [x \in Deployment |-> IF x \in R THEN f[x] ELSE S[x]]
      BY DEF DeploymentRows!Next, DeploymentRows!Settle
    <3>1. {d} \in SUBSET {x \in Deployment : S[x] = "running"}
      BY <2>2, <3>0
    <3> DEFINE f == [y \in {d} |-> s]
    <3>2. f \in [{d} -> {"success", "failed"}]
      OBVIOUS
    <3>3. S' = [x \in Deployment |-> IF x \in {d} THEN f[x] ELSE S[x]]
      BY <2>2, <3>0 DEF DepStatus
    <3> HIDE DEF S, f
    <3>4. \E h \in [{d} -> {"success", "failed"}] :
            S' = [x \in Deployment |-> IF x \in {d} THEN h[x] ELSE S[x]]
      <4> WITNESS f \in [{d} -> {"success", "failed"}]
      <4> QED BY <3>3
    <3> WITNESS {d} \in SUBSET {x \in Deployment : S[x] = "running"}
    <3> QED BY <3>4
  <2> QED BY <2>1, <2>2, DepStep
<1>3. RunInv /\ [Next]_vars => [RunRows!Next]_RunStatus
  <2> SUFFICES ASSUME RunInv, [Next]_vars PROVE [RunRows!Next]_RunStatus
    OBVIOUS
  <2>1. ASSUME NEW r \in Run, RunStatus[r] = "none", RunStatus' = [RunStatus EXCEPT ![r] = "running"]
        PROVE  RunRows!Next
    BY <2>1 DEF RunRows!Next, RunRows!Begin, RunStatus
  <2>2. ASSUME NEW r \in Run, NEW s \in {"success", "failed"},
               RunStatus[r] = "running", RunStatus' = [RunStatus EXCEPT ![r] = s]
        PROVE  RunRows!Next
    <3> DEFINE S == [x \in Run |-> runs[x].status]
    <3>0. S = RunStatus /\ S' = RunStatus'
      BY DEF RunStatus
    <3> SUFFICES \E R \in SUBSET {x \in Run : S[x] = "running"} :
                   \E f \in [R -> {"success", "failed"}] :
                     S' = [x \in Run |-> IF x \in R THEN f[x] ELSE S[x]]
      BY DEF RunRows!Next, RunRows!Settle
    <3>1. {r} \in SUBSET {x \in Run : S[x] = "running"}
      BY <2>2, <3>0
    <3> DEFINE f == [y \in {r} |-> s]
    <3>2. f \in [{r} -> {"success", "failed"}]
      OBVIOUS
    <3>3. S' = [x \in Run |-> IF x \in {r} THEN f[x] ELSE S[x]]
      BY <2>2, <3>0 DEF RunStatus
    <3> HIDE DEF S, f
    <3>4. \E h \in [{r} -> {"success", "failed"}] :
            S' = [x \in Run |-> IF x \in {r} THEN h[x] ELSE S[x]]
      <4> WITNESS f \in [{r} -> {"success", "failed"}]
      <4> QED BY <3>3
    <3> WITNESS {r} \in SUBSET {x \in Run : S[x] = "running"}
    <3> QED BY <3>4
  <2> QED BY <2>1, <2>2, RunsStep
<1>4. RunInv /\ [Next]_vars => [DeploymentRows!Next]_[d \in Deployment |-> dep[d].status]
  BY <1>2 DEF DepStatus
<1>5. RunInv /\ [Next]_vars => [RunRows!Next]_[r \in Run |-> runs[r].status]
  BY <1>3 DEF RunStatus
<1> QED BY <1>1, <1>4, <1>5, Tracked, PTL DEF Spec, RowsFollowLifecycle, DeploymentRows!Spec, RunRows!Spec

-----------------------------------------------------------------------------
(* The history of a place                                                     *)

\* A deployment that has not touched its checkout yet.
Early    == {"connect", "prev", "checkout", "restore"}
Fresh(d) == \E c \in Caller : loc[c].pc \in Early /\ loc[c].d = d

OneActive == \A c \in Caller, e \in Caller : loc[c].pc # "idle" /\ loc[e].pc # "idle" => c = e

\* IDs are given in order, and the deployment under way is the latest.
InOrder == \A d \in Settled : \A x \in Deployment : x < d => x \in Settled
Latest  == \A c \in Caller : Held(c) => dep[loc[c].d].place = Here(c) /\ \A x \in Settled : x <= loc[c].d

\* The copies a goroutine will write into its row.
Copies ==
  \A c \in Caller :
    /\ loc[c].pc \in {"create", "connect", "restore"} => loc[c].sha = loc[c].ref
    /\ loc[c].pc = "create" => loc[c].back = 0
    /\ loc[c].pc = "afterwards" \/ (loc[c].pc = "finish" /\ loc[c].ok) => loc[c].sha \in {0, head[Here(c)]}

\* The last deployment that touched a place tells what lies there, if it succeeded.
Tells ==
  \A e \in Settled :
    /\ dep[e].status = "success"
    /\ \A x \in Settled : x > e /\ dep[x].place = dep[e].place => Fresh(x)
    => dep[e].commit \in {0, head[dep[e].place]}

\* What lies in a place was brought there by a deployment, one of which was the last.
HeadIsDeployed ==
  \A p \in Place : head[p] # 0 =>
    \E e \in Settled : /\ dep[e].place = p /\ ~Fresh(e)
                       /\ \A x \in Settled : dep[x].place = p /\ ~Fresh(x) => x <= e

Chained(d, b) ==
  b # 0 => \E e \in Before(d) : /\ \A x \in Before(d) : x <= e
                                /\ dep[e].status = "success" => dep[e].commit \in {0, b}
Chain == /\ \A d \in Settled : Chained(d, dep[d].back)
         /\ \A c \in Caller : Held(c) => Chained(loc[c].d, loc[c].back)

OrderParts == /\ OneActive /\ late = {} /\ InOrder /\ Latest /\ Copies
              /\ Tells /\ HeadIsDeployed /\ Chain
OrderInv   == Orderly => OrderParts

LEMMA InitOrder == Init => OrderInv
<1> SUFFICES ASSUME Init PROVE OrderParts
  BY DEF OrderInv
<1>0. /\ \A c \in Caller : loc[c] = Idle
      /\ late = {} /\ \A p \in Place : head[p] = 0
  BY DEF Init, DeployInit
<1>1. Settled = {}
  BY DEF Init, DeployInit, Settled, NoRow
<1> QED BY <1>0, <1>1, Idles DEF OrderParts, OneActive, InOrder, Latest, Copies, Tells, HeadIsDeployed, Chain,
                               Held, Working

\* A step that neither is in a checkout nor touches a row.
LEMMA AsideOrder ==
  ASSUME RunInv, OrderParts, NEW c \in Caller, Others(c), UNCHANGED <<dep, head, late>>,
         loc[c].pc \notin Early, ~Held(c)', loc[c].pc # "idle" \/ Quiet,
         loc'[c].pc = "create" => loc'[c].back = 0 /\ loc'[c].sha = loc'[c].ref
  PROVE  OrderParts'
<1>t. OneActive /\ late = {} /\ InOrder /\ Latest /\ Copies /\ Tells /\ HeadIsDeployed /\ Chain
  BY DEF OrderParts
<1>s. Settled' = Settled /\ \A d : Before(d)' = Before(d)
  BY DEF Settled, Before
<1>e. \A e \in Caller : e # c => loc'[e] = loc[e]
  BY DEF Others
<1>n. loc'[c].pc \notin Working
  BY DEF Held
<1>f. \A x : Fresh(x)' <=> Fresh(x)
  BY <1>e, <1>n DEF Fresh, Early, Working
<1>1. OneActive'
  BY <1>t, <1>e DEF OneActive, Quiet, At
<1>2. InOrder' /\ Latest'
  BY <1>t, <1>s, <1>e DEF InOrder, Latest, Held, Here
<1>3. Copies'
  BY <1>t, <1>e, <1>n DEF Copies, Here, Working
<1>4. Tells' /\ HeadIsDeployed'
  <2>1. Tells'
    BY <1>t, <1>s, <1>f DEF Tells
  <2>2. HeadIsDeployed'
    BY <1>t, <1>s, <1>f DEF HeadIsDeployed
  <2> QED BY <2>1, <2>2
<1>5. Chain'
  BY <1>t, <1>s, <1>e DEF Chain, Chained, Held
<1> QED BY <1>t, <1>1, <1>2, <1>3, <1>4, <1>5 DEF OrderParts

LEMMA StillOrder ==
  ASSUME OrderParts, UNCHANGED <<loc, dep, head, late>>
  PROVE  OrderParts'
<1>s. Settled' = Settled /\ \A d : Before(d)' = Before(d)
  BY DEF Settled, Before
<1>f. \A x : Fresh(x)' <=> Fresh(x)
  BY DEF Fresh
<1>1. Tells' /\ HeadIsDeployed'
  BY <1>s, <1>f DEF OrderParts, Tells, HeadIsDeployed
<1> QED BY <1>s, <1>1 DEF OrderParts, OneActive, InOrder, Latest, Copies, Chain, Chained, Held, Here

\* What is true of the goroutine at a deployment, when it is the only one.
LEMMA Alone ==
  ASSUME RunInv, OrderParts, NEW c \in Caller, Held(c)
  PROVE  /\ loc[c].d \in Deployment /\ loc[c].d \in Settled /\ dep[loc[c].d].status = "running"
         /\ dep[loc[c].d].place = Here(c) /\ Here(c) \in Place
         /\ \A x \in Settled : x <= loc[c].d
         /\ \A e \in Caller : e # c => loc[e].pc = "idle"
         /\ \A x : Fresh(x) <=> (x = loc[c].d /\ loc[c].pc \in Early)
<1>1. loc[c].d \in Deployment /\ dep[loc[c].d].status = "running" /\ loc[c].t \in Target
  BY DEF RunInv, HeldRow, Types, Loc
<1>2. \A e \in Caller : e # c => loc[e].pc = "idle"
  BY DEF OrderParts, OneActive, Held, Working
<1>3. \A x : Fresh(x) <=> (x = loc[c].d /\ loc[c].pc \in Early)
  BY <1>2 DEF Fresh, Early
<1> QED BY <1>1, <1>2, <1>3 DEF OrderParts, Latest, Settled, Here

\* At git rev-parse HEAD: the commit that lies there is the one the deployment before
\* this one brought, if that one succeeded.
LEMMA PrevIsBefore ==
  ASSUME RunInv, OrderParts, NEW c \in Caller, loc[c].pc = "prev"
  PROVE  Chained(loc[c].d, head[Here(c)])
<1> DEFINE p == Here(c)
           d == loc[c].d
<1>1. Held(c) /\ loc[c].pc \in Early
  BY DEF Held, Working, Early
<1>2. /\ d \in Settled /\ dep[d].place = p /\ p \in Place /\ \A x \in Settled : x <= d
      /\ \A x : Fresh(x) <=> x = d
  BY <1>1, Alone
<1> SUFFICES ASSUME head[p] # 0
             PROVE  \E e \in Before(d) : /\ \A x \in Before(d) : x <= e
                                         /\ dep[e].status = "success" => dep[e].commit \in {0, head[p]}
  BY DEF Chained
<1>3. PICK e \in Settled : /\ dep[e].place = p /\ ~Fresh(e)
                           /\ \A x \in Settled : dep[x].place = p /\ ~Fresh(x) => x <= e
  BY <1>2 DEF OrderParts, HeadIsDeployed
<1>o. \A x \in Settled : x \in Nat
  BY DEF Settled, Deployment
<1>4. e < d /\ e \in Before(d)
  BY <1>2, <1>3, <1>o DEF Before
<1>5. \A x \in Before(d) : x <= e
  BY <1>2, <1>3, <1>o DEF Before
<1>6. \A x \in Settled : x > e /\ dep[x].place = dep[e].place => Fresh(x)
  BY <1>3, <1>o
<1>7. dep[e].status = "success" => dep[e].commit \in {0, head[p]}
  BY <1>3, <1>6 DEF OrderParts, Tells
<1> QED BY <1>4, <1>5, <1>7

\* A step of Deploy or Rollback changes its own place, and then it is the last there.
LEMMA WalkOrder ==
  ASSUME RunInv, Orderly, OrderParts, NEW c \in Caller, Walk(c)
  PROVE  OrderParts'
<1> DEFINE p == Here(c)
           d == loc[c].d
<1>t. /\ Types /\ OneActive /\ late = {} /\ InOrder /\ Latest /\ Copies /\ Tells /\ HeadIsDeployed /\ Chain
      /\ head \in [Place -> Commit]
  BY TypeParts DEF OrderParts, RunInv, RemoteType
<1>m. /\ Stays(c) /\ Others(c) /\ Held(c) /\ loc'[c].pc \in Working /\ UNCHANGED <<dep, late>>
      /\ loc[c].pc \in Working
  BY <1>t, WalkMoves DEF Stays, Held, Orderly
<1>a. /\ d \in Settled /\ dep[d].status = "running" /\ dep[d].place = p /\ p \in Place
      /\ \A x \in Settled : x <= d
      /\ \A e \in Caller : e # c => loc[e].pc = "idle"
      /\ \A x : Fresh(x) <=> (x = d /\ loc[c].pc \in Early)
  BY <1>m, Alone
<1>e. \A e \in Caller : e # c => loc'[e].pc = "idle"
  BY <1>m, <1>a DEF Others
<1>s. Settled' = Settled /\ \A x : Before(x)' = Before(x)
  BY <1>m DEF Settled, Before
<1>f. \A x : Fresh(x)' <=> (x = d /\ loc'[c].pc \in Early)
  BY <1>m, <1>e DEF Fresh, Early, Stays
<1>h. Here(c)' = p /\ loc'[c].d = d
  BY <1>m DEF Here, Stays
<1>b. /\ \A q \in Place : q # p => head'[q] = head[q]
      /\ \/ UNCHANGED head
         \/ loc[c].pc \in Early /\ loc'[c].pc \notin Early
  <2>1. CASE UNCHANGED head
    BY <2>1
  <2>2. CASE ~ UNCHANGED head
    <3>1. \/ loc[c].pc = "checkout" /\ head' = [head EXCEPT ![p] = origin]
          \/ loc[c].pc = "restore" /\ head' = [head EXCEPT ![p] = loc[c].ref]
      BY <1>t, <2>2, WalkMoves
    <3>2. loc[c].pc \in {"checkout", "restore"} => loc'[c].pc \in {"sha", "afterwards", "finish"}
      BY <1>t, WalkMoves DEF Goes
    <3> QED BY <1>t, <1>a, <3>1, <3>2 DEF Early
  <2> QED BY <2>1, <2>2
<1>g. loc'[c].pc \in Early => loc[c].pc \in Early
  <2>1. loc[c].pc \in {"sha", "afterwards"} => loc'[c].pc \in {"afterwards", "finish"}
    BY <1>t, WalkMoves DEF Goes
  <2>2. loc[c].pc # "finish"
    BY <1>t, WalkMoves
  <2> QED BY <1>m, <2>1, <2>2 DEF Early, Working
<1>o. \A x \in Settled : x \in Nat
  BY DEF Settled, Deployment
<1>1. OneActive'
  BY <1>e DEF OneActive
<1>2. InOrder' /\ Latest'
  BY <1>t, <1>m, <1>a, <1>s, <1>e, <1>h DEF InOrder, Latest, Held, Working
<1>3. Copies'
  <2>1. loc'[c].pc # "create" /\ loc'[c].pc # "connect"
    BY <1>t, WalkMoves DEF Goes
  <2>2. loc'[c].pc = "restore" => loc'[c].sha = loc'[c].ref
    BY <1>t, <1>m, WalkMoves DEF Goes, Copies, Stays
  <2>3. ASSUME loc'[c].pc = "afterwards" PROVE loc'[c].sha \in {0, head'[p]}
    <3>1. CASE loc[c].pc = "sha"
      BY <1>t, <2>3, <3>1, WalkMoves DEF Goes
    <3>2. CASE loc[c].pc = "restore"
      <4>1. loc'[c].sha = loc[c].sha /\ loc[c].sha = loc[c].ref /\ head' = [head EXCEPT ![p] = loc[c].ref]
        BY <1>t, <2>3, <3>2, WalkMoves DEF Goes, Copies
      <4> QED BY <1>t, <1>a, <4>1
    <3>3. loc[c].pc \in {"sha", "restore"}
      BY <1>t, <2>3, WalkMoves DEF Goes
    <3> QED BY <3>1, <3>2, <3>3
  <2>4. ASSUME loc'[c].pc = "finish", loc'[c].ok PROVE loc'[c].sha \in {0, head'[p]}
    <3>1. loc[c].pc = "afterwards" /\ loc'[c].sha = loc[c].sha /\ UNCHANGED head
      BY <1>t, <2>4, WalkMoves DEF Goes
    <3> QED BY <1>t, <3>1 DEF Copies
  <2> QED BY <1>e, <1>h, <2>1, <2>2, <2>3, <2>4 DEF Copies
<1>4. Tells'
  <2> SUFFICES ASSUME NEW e \in Settled, dep[e].status = "success",
                      \A x \in Settled : x > e /\ dep[x].place = dep[e].place => Fresh(x)'
               PROVE  dep[e].commit \in {0, head'[dep[e].place]}
    BY <1>s, <1>m DEF Tells
  <2>1. \A x \in Settled : x > e /\ dep[x].place = dep[e].place => Fresh(x)
    BY <1>a, <1>f, <1>g
  <2>2. dep[e].commit \in {0, head[dep[e].place]} /\ e < d
    BY <1>t, <1>a, <1>o, <2>1 DEF Tells
  <2>3. dep[e].place = p => loc'[c].pc \in Early
    BY <1>a, <1>f, <2>2
  <2>4. dep[e].place \in Place
    BY <1>t, TypeParts DEF DepType, Settled
  <2> QED BY <1>b, <2>2, <2>3, <2>4
<1>5. HeadIsDeployed'
  <2> SUFFICES ASSUME NEW q \in Place, head'[q] # 0
               PROVE  \E e \in Settled : /\ dep[e].place = q /\ ~Fresh(e)'
                                         /\ \A x \in Settled : dep[x].place = q /\ ~Fresh(x)' => x <= e
    BY <1>s, <1>m DEF HeadIsDeployed
  <2>1. CASE q = p /\ loc[c].pc \in Early /\ loc'[c].pc \notin Early
    BY <1>a, <1>f, <2>1
  <2>2. CASE ~(q = p /\ loc[c].pc \in Early /\ loc'[c].pc \notin Early)
    <3>1. head'[q] = head[q]
      BY <1>b, <2>2
    <3>2. \A x \in Settled : dep[x].place = q => (Fresh(x) <=> Fresh(x)')
      BY <1>a, <1>f, <1>g, <2>2
    <3>3. PICK e \in Settled : /\ dep[e].place = q /\ ~Fresh(e)
                               /\ \A x \in Settled : dep[x].place = q /\ ~Fresh(x) => x <= e
      BY <1>t, <3>1 DEF HeadIsDeployed
    <3> QED BY <3>2, <3>3
  <2> QED BY <2>1, <2>2
<1>6. Chain'
  <2>0. \A x, b : Chained(x, b) <=> Chained(x, b)'
    BY <1>s, <1>m DEF Chained
  <2>1. Chained(d, loc'[c].back)
    <3>1. CASE loc[c].pc = "prev"
      <4>1. Chained(d, head[p]) /\ Chained(d, loc[c].back) /\ Chained(d, 0)
        BY <1>t, <1>m, <3>1, PrevIsBefore DEF Chain, Chained
      <4>2. loc'[c].back \in {0, head[p], loc[c].back}
        BY <1>t, <3>1, WalkMoves DEF Goes
      <4> QED BY <4>1, <4>2
    <3>2. CASE loc[c].pc # "prev"
      <4>1. loc'[c].back = loc[c].back
        BY <1>t, <3>2, WalkMoves DEF Goes
      <4> QED BY <1>t, <1>m, <4>1 DEF Chain
    <3> QED BY <3>1, <3>2
  <2>2. \A e \in Caller : Held(e)' => e = c
    BY <1>e DEF Held, Working
  <2>3. \A x \in Settled' : dep'[x].back = dep[x].back /\ x \in Settled
    BY <1>s, <1>m
  <2> QED BY <1>t, <1>h, <2>0, <2>1, <2>2, <2>3 DEF Chain
<1> QED BY <1>t, <1>m, <1>1, <1>2, <1>3, <1>4, <1>5, <1>6 DEF OrderParts

LEMMA InsertOrder ==
  ASSUME RunInv, OrderParts, NEW c \in Caller, NEW d \in Deployment, loc[c].pc = "create",
         NoRowYet(d), \A e \in 1 .. (d - 1) : ~NoRowYet(e),
         dep' = [dep EXCEPT ![d] = [NoRow EXCEPT !.status = "running", !.place = Here(c)]],
         Others(c), loc'[c].pc = "connect", loc'[c].d = d, loc'[c].t = loc[c].t,
         loc'[c].back = loc[c].back, loc'[c].sha = loc[c].sha, loc'[c].ref = loc[c].ref,
         UNCHANGED <<head, late>>
  PROVE  OrderParts'
<1> DEFINE p == Here(c)
<1>t. /\ Types /\ OneActive /\ late = {} /\ InOrder /\ Latest /\ Copies /\ Tells /\ HeadIsDeployed /\ Chain
      /\ DepType
  BY TypeParts DEF OrderParts, RunInv
<1>1. /\ dep'[d].status = "running" /\ dep'[d].place = p /\ dep'[d].back = 0
      /\ \A x \in Deployment : x # d => dep'[x] = dep[x]
  <2>1. PICK q : q = [NoRow EXCEPT !.status = "running", !.place = Here(c)]
    OBVIOUS
  <2>2. q.status = "running" /\ q.place = p /\ q.back = 0
    BY <2>1 DEF NoRow
  <2> QED BY <1>t, <2>1, <2>2 DEF DepType
<1>e. \A e \in Caller : e # c => loc[e].pc = "idle" /\ loc'[e].pc = "idle"
  BY <1>t DEF OneActive, Others
<1>o. \A x \in Deployment : x \in Nat
  BY DEF Deployment
<1>s. /\ d \notin Settled /\ Settled' = Settled \cup {d} /\ Settled \subseteq Deployment
      /\ \A x \in Settled : x < d
  <2>1. d \notin Settled /\ Settled' = Settled \cup {d}
    BY <1>1 DEF Settled, NoRowYet
  <2>2. \A x \in Settled : x < d
    BY <1>t, <1>o, <2>1 DEF InOrder, Settled
  <2> QED BY <2>1, <2>2 DEF Settled
<1>b. \A x \in Settled : Before(x)' = Before(x)
  BY <1>1, <1>s, <1>o DEF Before
<1>f. (\A x : ~Fresh(x)) /\ \A x : Fresh(x)' <=> x = d
  BY <1>e DEF Fresh, Early
<1>2. OneActive'
  BY <1>e DEF OneActive
<1>3. InOrder'
  <2>1. \A x \in Deployment : x < d => x \in Settled
    BY <1>o DEF Settled, NoRowYet, Deployment
  <2> QED BY <1>t, <1>s, <2>1 DEF InOrder
<1>4. Latest'
  <2>1. \A e \in Caller : Held(e)' => e = c
    BY <1>e DEF Held, Working
  <2>2. Here(c)' = p
    BY DEF Here
  <2> QED BY <1>1, <1>s, <1>o, <2>1, <2>2 DEF Latest
<1>5. Copies'
  BY <1>t, <1>e DEF Copies
<1>6. Tells'
  <2> SUFFICES ASSUME NEW e \in Settled', dep'[e].status = "success",
                      \A x \in Settled' : x > e /\ dep'[x].place = dep'[e].place => Fresh(x)'
               PROVE  dep'[e].commit \in {0, head[dep'[e].place]}
    BY DEF Tells
  <2>1. e \in Settled /\ dep'[e] = dep[e]
    BY <1>1, <1>s
  <2>2. \A x \in Settled : x > e /\ dep[x].place = dep[e].place => Fresh(x)
    BY <1>1, <1>s, <1>f, <2>1
  <2> QED BY <1>t, <2>1, <2>2 DEF Tells
<1>7. HeadIsDeployed'
  <2> SUFFICES ASSUME NEW q \in Place, head[q] # 0
               PROVE  \E e \in Settled' : /\ dep'[e].place = q /\ ~Fresh(e)'
                                          /\ \A x \in Settled' : dep'[x].place = q /\ ~Fresh(x)' => x <= e
    BY DEF HeadIsDeployed
  <2>1. PICK e \in Settled : /\ dep[e].place = q /\ ~Fresh(e)
                             /\ \A x \in Settled : dep[x].place = q /\ ~Fresh(x) => x <= e
    BY <1>t DEF HeadIsDeployed
  <2> QED BY <1>1, <1>s, <1>f, <2>1
<1>8. Chain'
  <2>1. \A e \in Caller : Held(e)' => e = c
    BY <1>e DEF Held, Working
  <2>2. Chained(d, 0)' /\ loc'[c].back = 0
    BY <1>t DEF Chained, Copies
  <2>3. ASSUME NEW x \in Settled PROVE Chained(x, dep[x].back)'
    <3>1. dep'[x] = dep[x] /\ Chained(x, dep[x].back) /\ \A e \in Before(x) : dep'[e] = dep[e]
      <4>1. dep'[x] = dep[x]
        BY <1>1, <1>s
      <4>2. \A e \in Before(x) : dep'[e] = dep[e]
        BY <1>1, <1>s DEF Before
      <4> QED BY <1>t, <4>1, <4>2 DEF Chain
    <3>2. /\ Before(x)' = Before(x) /\ \A e \in Before(x) : dep'[e] = dep[e]
          /\ dep'[x].back = dep[x].back
      BY <1>b, <3>1
    <3> QED BY <3>1, <3>2 DEF Chained
  <2> QED BY <1>1, <1>s, <2>1, <2>2, <2>3 DEF Chain
<1> QED BY <1>t, <1>2, <1>3, <1>4, <1>5, <1>6, <1>7, <1>8 DEF OrderParts

LEMMA UpdateOrder ==
  ASSUME RunInv, OrderParts, NEW c \in Caller, loc[c].pc = "finish", Settles(c), Others(c),
         loc'[c].pc \in {"idle", "stepDone"}, UNCHANGED <<head, late>>
  PROVE  OrderParts'
<1> DEFINE p == Here(c)
           d == loc[c].d
<1>t. /\ Types /\ OneActive /\ late = {} /\ InOrder /\ Latest /\ Copies /\ Tells /\ HeadIsDeployed /\ Chain
      /\ DepType
  BY TypeParts DEF OrderParts, RunInv
<1>m. Held(c) /\ loc[c].pc \notin Early
  BY DEF Held, Working, Early
<1>a. /\ d \in Deployment /\ d \in Settled /\ dep[d].status = "running" /\ dep[d].place = p
      /\ \A x \in Settled : x <= d
      /\ \A e \in Caller : e # c => loc[e].pc = "idle"
      /\ \A x : ~Fresh(x)
  BY <1>m, Alone
<1>e. \A e \in Caller : loc'[e].pc \in {"idle", "stepDone"} /\ (e # c => loc'[e].pc = "idle")
  BY <1>a DEF Others
<1>1. /\ dep'[d].status = (IF loc[c].ok THEN "success" ELSE "failed") /\ dep'[d].place = p
      /\ dep'[d].commit = loc[c].sha /\ dep'[d].back = loc[c].back
      /\ \A x \in Deployment : x # d => dep'[x] = dep[x]
  <2>1. \A s, x, y : LET q == [dep[d] EXCEPT !.status = s, !.commit = x, !.back = y]
                     IN  q.status = s /\ q.commit = x /\ q.back = y /\ q.place = dep[d].place
    BY <1>t, <1>a DEF DepType
  <2>2. PICK s : s = IF loc[c].ok THEN "success" ELSE "failed"
    OBVIOUS
  <2>3. dep' = [dep EXCEPT ![d] = [dep[d] EXCEPT !.status = s, !.commit = loc[c].sha, !.back = loc[c].back]]
    BY <2>2 DEF Settles
  <2> QED BY <1>t, <1>a, <2>1, <2>2, <2>3 DEF DepType
<1>o. \A x \in Settled : x \in Nat /\ x \in Deployment
  BY DEF Settled, Deployment
<1>s. Settled' = Settled
  BY <1>a, <1>1 DEF Settled
<1>p. \A x \in Settled : dep'[x].place = dep[x].place
  BY <1>a, <1>1, <1>o
<1>b. \A x \in Settled : Before(x)' = Before(x) /\ \A e \in Before(x) : dep'[e] = dep[e]
  BY <1>a, <1>1, <1>o, <1>s, <1>p DEF Before
<1>f. \A x : ~Fresh(x)'
  BY <1>e DEF Fresh, Early
<1>2. OneActive' /\ InOrder'
  BY <1>t, <1>e, <1>s DEF OneActive, InOrder
<1>3. Latest' /\ Copies'
  BY <1>e DEF Latest, Copies, Held, Working
<1>4. Tells'
  <2> SUFFICES ASSUME NEW e \in Settled, dep'[e].status = "success",
                      \A x \in Settled : ~(x > e /\ dep[x].place = dep[e].place)
               PROVE  dep'[e].commit \in {0, head[dep[e].place]}
    BY <1>s, <1>p, <1>f DEF Tells
  <2>1. CASE e = d
    BY <1>t, <1>a, <1>1, <2>1 DEF Copies
  <2>2. CASE e # d
    BY <1>t, <1>1, <1>o, <2>2 DEF Tells
  <2> QED BY <2>1, <2>2
<1>5. HeadIsDeployed'
  BY <1>t, <1>a, <1>s, <1>p, <1>f DEF HeadIsDeployed
<1>6. Chain'
  <2>1. ASSUME NEW x \in Settled, NEW b, Chained(x, b) PROVE Chained(x, b)'
    BY <1>b, <2>1 DEF Chained
  <2>2. \A x \in Settled : Chained(x, dep'[x].back)
    BY <1>t, <1>m, <1>a, <1>1, <1>o DEF Chain
  <2>3. \A x \in Settled : Chained(x, dep[x].back)'
    <3> SUFFICES ASSUME NEW x \in Settled
                 PROVE  dep'[x].back # 0 =>
                          \E e \in Before(x)' : /\ \A y \in Before(x)' : y <= e
                                                /\ dep'[e].status = "success" => dep'[e].commit \in {0, dep'[x].back}
      BY DEF Chained
    <3> QED BY <1>b, <2>2 DEF Chained
  <2>4. \A e \in Caller : ~Held(e)'
    BY <1>e DEF Held, Working
  <2> QED BY <1>s, <2>3, <2>4 DEF Chain
<1> QED BY <1>t, <1>2, <1>3, <1>4, <1>5, <1>6 DEF OrderParts

LEMMA ReturnOrder ==
  ASSUME RunInv, OrderParts, NEW c \in Caller, NEW ok \in BOOLEAN, Return(c, ok), loc[c].pc \in {"create", "finish"}
  PROVE  Others(c) /\ loc'[c].pc \in {"idle", "stepDone"} /\ ~Held(c)' /\ loc[c].pc \notin Early
BY ReturnMoves DEF RunInv, Held, Working, Early

LEMMA NextOrder == ASSUME RunInv, OrderInv, [Next]_vars PROVE OrderInv'
<1>f. UNCHANGED faults
  <2>1. ASSUME NEW c \in Caller, Start(c) \/ CreateRow(c) \/ Walk(c) \/ Finish(c) PROVE UNCHANGED faults
    BY <2>1, StartMoves, CreateRowMoves, WalkMoves, FinishMoves DEF RunInv
  <2>2. ASSUME NEW c \in Caller, CreateRun(c) \/ RunStep(c) \/ StepDone(c) \/ AllDone(c) \/ FinishRun(c)
        PROVE  UNCHANGED faults
    BY <2>2 DEF CreateRun, RunStep, StepDone, AllDone, FinishRun
  <2>3. Around \/ createPipeline \/ deletePipeline \/ Crash \/ UNCHANGED vars => UNCHANGED faults
    BY AroundMoves DEF createPipeline, deletePipeline, Crash, DeployCrash, vars
  <2> QED BY <2>1, <2>2, <2>3, StepKinds
<1> SUFFICES ASSUME Orderly PROVE OrderParts'
  BY <1>f DEF OrderInv, Orderly
<1>t. Types /\ OrderParts
  BY DEF RunInv, OrderInv
<1>q. MayArrive => Quiet
  BY DEF MayArrive, Orderly
<1>1. ASSUME NEW c \in Caller, Start(c) PROVE OrderParts'
  <2>1. loc[c].pc \notin Early /\ Quiet /\ UNCHANGED <<dep, head, late>> /\ Others(c) /\ ~Held(c)'
        /\ (loc'[c].pc = "create" => loc'[c].back = 0 /\ loc'[c].sha = loc'[c].ref)
    BY <1>1, <1>t, <1>q, StartMoves DEF Held, Working, Early, remote
  <2> QED BY <1>t, <2>1, AsideOrder
<1>2. ASSUME NEW c \in Caller, Walk(c) PROVE OrderParts'
  BY <1>2, <1>t, WalkOrder
<1>3. ASSUME NEW c \in Caller, CreateRow(c) PROVE OrderParts'
  <2>1. loc[c].pc = "create" /\ UNCHANGED <<head, late>>
    BY <1>3, <1>t, CreateRowMoves
  <2>2. CASE Return(c, FALSE) /\ UNCHANGED dep
    <3>1. Others(c) /\ loc'[c].pc \in {"idle", "stepDone"} /\ ~Held(c)' /\ loc[c].pc \notin Early
      BY <1>t, <2>1, <2>2, ReturnOrder
    <3> QED BY <1>t, <2>1, <2>2, <3>1, AsideOrder
  <2>3. ASSUME NEW d \in Deployment, NoRowYet(d), \A e \in 1 .. (d - 1) : ~NoRowYet(e),
               dep' = [dep EXCEPT ![d] = [NoRow EXCEPT !.status = "running", !.place = Here(c)]],
               Others(c), loc'[c].pc = "connect", loc'[c].d = d, loc'[c].t = loc[c].t,
               loc'[c].back = loc[c].back, loc'[c].sha = loc[c].sha, loc'[c].ref = loc[c].ref
        PROVE  OrderParts'
    BY <1>t, <2>1, <2>3, InsertOrder
  <2> QED BY <1>3, <1>t, <2>2, <2>3, CreateRowMoves
<1>4. ASSUME NEW c \in Caller, Finish(c) PROVE OrderParts'
  <2>1. loc[c].pc = "finish" /\ UNCHANGED <<head, late>>
    BY <1>4, <1>t, FinishMoves
  <2>2. PICK ok \in BOOLEAN : Return(c, ok) /\ (UNCHANGED dep \/ Settles(c))
    BY <1>4, <1>t, FinishMoves
  <2>3. Others(c) /\ loc'[c].pc \in {"idle", "stepDone"} /\ ~Held(c)' /\ loc[c].pc \notin Early
    BY <1>t, <2>1, <2>2, ReturnOrder
  <2>4. CASE UNCHANGED dep
    BY <1>t, <2>1, <2>3, <2>4, AsideOrder
  <2>5. CASE Settles(c)
    BY <1>t, <2>1, <2>3, <2>5, UpdateOrder
  <2> QED BY <2>2, <2>4, <2>5
<1>5. ASSUME NEW c \in Caller, CreateRun(c) \/ RunStep(c) \/ StepDone(c) \/ AllDone(c) \/ FinishRun(c)
      PROVE  OrderParts'
  <2>1. UNCHANGED <<dep, head, late>>
    BY <1>5 DEF CreateRun, RunStep, StepDone, AllDone, FinishRun, remote
  <2>2. /\ Others(c) /\ loc[c].pc \in Between \cup {"createRun"} /\ loc'[c].pc \in Between \cup {"idle", "create"}
        /\ loc'[c].pc = "create" => loc'[c].back = 0 /\ loc'[c].sha = loc'[c].ref
    <3>1. CASE CreateRun(c)
      BY <1>t, <3>1, CreateRunMoves DEF Between
    <3>2. CASE RunStep(c)
      BY <1>t, <3>2, RunStepMoves DEF Between
    <3>3. CASE StepDone(c)
      <4>1. loc[c].ok \in BOOLEAN
        BY <1>t DEF Types, Loc
      <4> QED BY <1>t, <3>3, <4>1, StepDoneMoves DEF Between
    <3>4. CASE AllDone(c)
      BY <1>t, <3>4, AllDoneMoves DEF Between, Goes, Stays
    <3>5. CASE FinishRun(c)
      BY <1>t, <3>5, FinishRunMoves DEF Between
    <3> QED BY <1>5, <3>1, <3>2, <3>3, <3>4, <3>5
  <2>3. loc[c].pc \notin Early /\ loc[c].pc # "idle" /\ ~Held(c)'
    BY <2>2 DEF Between, Early, Held, Working
  <2> QED BY <1>t, <2>1, <2>2, <2>3, AsideOrder
<1>6. CASE Around
  <2>1. late = {}
    BY <1>t DEF OrderParts
  <2>2. UNCHANGED <<loc, dep, head, late>>
    BY <1>6, <2>1, AroundMoves
       DEF Around, createDeploymentTarget, deleteDeploymentTarget, LateCheckout, Push, remote
  <2> QED BY <1>t, <2>2, StillOrder
<1>7. CASE createPipeline \/ deletePipeline \/ UNCHANGED vars
  BY <1>7, <1>t, StillOrder DEF createPipeline, deletePipeline, vars, remote
<1>8. ~Crash
  BY DEF Crash, Orderly
<1> QED BY <1>1, <1>2, <1>3, <1>4, <1>5, <1>6, <1>7, <1>8, StepKinds

LEMMA Ordered == Spec => []OrderInv
<1>1. RunInv /\ OrderInv /\ [Next]_vars => OrderInv'
  BY NextOrder
<1> QED BY InitOrder, Tracked, <1>1, PTL DEF Spec

\* One request after the other, none cut off: the latest deployment of a place, if it
\* succeeded, tells which commit lies there, also after rollbacks, pushes, failed
\* deployments and updates that failed, for any number of targets that share a place.
THEOREM SuccessIsDeployedTheorem == Spec => []SuccessIsDeployed
<1>1. OrderInv => SuccessIsDeployed
  <2> SUFFICES ASSUME OrderParts, Quiet, NEW d \in Settled,
                      ~ \E e \in Settled : e > d /\ dep[e].place = dep[d].place,
                      dep[d].status = "success"
               PROVE  dep[d].commit \in {0, head[dep[d].place]}
    BY DEF OrderInv, SuccessIsDeployed
  <2> QED BY DEF OrderParts, Tells
<1> QED BY <1>1, Ordered, PTL

\* The history of a place is a chain: the reference a deployment can be rolled back to
\* is the commit of the deployment before it, if that one succeeded.
THEOREM HistoryIsChainedTheorem == Spec => []HistoryIsChained
<1>1. OrderInv => HistoryIsChained
  BY DEF OrderInv, OrderParts, Chain, Chained, HistoryIsChained
<1> QED BY <1>1, Ordered, PTL

=============================================================================
