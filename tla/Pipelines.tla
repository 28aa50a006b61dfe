------------------------------- MODULE Pipelines -------------------------------
(***************************************************************************)
(* The pipeline engine of internal/pipeline and internal/domain/pipeline,  *)
(* with the handlers of internal/api/v1/pipelines.go, over Deployments: a  *)
(* run executes the steps of its definition in order, stops at the first   *)
(* that fails, and its "deploy" steps are deployments of the engine.       *)
(***************************************************************************)
EXTENDS Deployments

CONSTANTS
  StepTarget,\* the target the definition's deploy steps name
  Steps,     \* the parsed definition: a sequence of step kinds
  MaxRun     \* bounds the number of runs

ASSUME StepsAssumption == Steps \in Seq({"run", "ssh", "deploy", "healthcheck"}) /\ Steps # <<>> /\ StepTarget \in Target

VARIABLES
  pipeline,  \* the row of pipelines is there (one pipeline at a time)
  runs,      \* pipeline_runs: [status, results]
  deps       \* the deployments each run has caused

Run == 1 .. MaxRun

pipeVars == <<pipeline, runs, deps>>
vars     == <<remote, targets, dep, loc, faults, pipeVars>>

TypeOK ==
  /\ DeployTypeOK
  /\ pipeline \in BOOLEAN
  /\ runs \in [Run -> [status : {"none", "running", "success", "failed"},
                       results : Seq({"success", "failed"})]]
  /\ deps \in [Run -> SUBSET Deployment]

Init ==
  /\ DeployInit
  /\ pipeline = FALSE
  /\ runs = [r \in Run |-> [status |-> "none", results |-> <<>>]]
  /\ deps = [r \in Run |-> {}]

\* createPipeline: a definition that does not parse is refused.
createPipeline ==
  /\ MayArrive /\ ~pipeline
  /\ pipeline' = TRUE
  /\ UNCHANGED <<remote, targets, dep, loc, faults, runs, deps>>

\* deletePipeline: refused while a run refers to the pipeline.
deletePipeline ==
  /\ MayArrive /\ pipeline /\ \A r \in Run : runs[r].status = "none"
  /\ pipeline' = FALSE
  /\ UNCHANGED <<remote, targets, dep, loc, faults, runs, deps>>

\* runPipelineManual, or pipelineWebhook with a signature that verifies (a wrong
\* one ends the request): the pipeline is read and parsed.
runPipeline(c) ==
  /\ pipeline
  /\ Arrive(c, [Idle EXCEPT !.pc = "createRun"])
  /\ UNCHANGED <<remote, targets, dep, faults, pipeVars>>

\* CreateRun: pipeline_id is a foreign key.
CreateRun(c) ==
  /\ At(c, "createRun")
  /\ \/ \E r \in Run :
          /\ pipeline /\ runs[r].status = "none" /\ \A q \in 1 .. (r - 1) : runs[q].status # "none"
          /\ runs' = [runs EXCEPT ![r].status = "running"]
          /\ loc' = [loc EXCEPT ![c] = [Idle EXCEPT !.pc = "step", !.run = r, !.step = 1]]
     \/ loc' = [loc EXCEPT ![c] = Idle] /\ UNCHANGED runs
  /\ UNCHANGED <<remote, targets, dep, faults, pipeline, deps>>

\* runStep: a local command, a command over SSH and a health check succeed or
\* fail; a deploy step is Engine.Deploy of the target it names, if that is there.
RunStep(c) ==
  LET l == loc[c] IN
  /\ At(c, "step") /\ l.step <= Len(Steps)
  /\ IF Steps[l.step] = "deploy" /\ StepTarget \in ToSet(targets)
     THEN loc' = [loc EXCEPT ![c] = StartDeploy(c, StepTarget, l.run, l.step)]
     ELSE \E ok \in (IF Steps[l.step] = "deploy" THEN {FALSE} ELSE BOOLEAN) :
            loc' = [loc EXCEPT ![c].pc = "stepDone", ![c].ok = ok]
  /\ UNCHANGED <<remote, targets, dep, faults, pipeVars>>

StepDoneGoesOn(c) ==                       \* mutant of StepDone
  LET l == loc[c] IN
  /\ At(c, "stepDone")
  /\ loc' = [loc EXCEPT ![c].pc = "step", ![c].step = l.step + 1, ![c].ok = TRUE]
  /\ UNCHANGED <<remote, targets, dep, faults, pipeVars>>

\* The result of a step; the first failure ends Engine.Run.
StepDone(c) ==
  LET l == loc[c] IN
  /\ At(c, "stepDone")
  /\ loc' = [loc EXCEPT ![c].pc = IF l.ok THEN "step" ELSE "finishRun",
                        ![c].step = IF l.ok THEN l.step + 1 ELSE l.step]
  /\ UNCHANGED <<remote, targets, dep, faults, pipeVars>>

AllDone(c) ==
  /\ At(c, "step") /\ loc[c].step > Len(Steps)
  /\ Goto(c, "finishRun")
  /\ UNCHANGED <<remote, targets, dep, faults, pipeVars>>

Results(l) == [i \in 1 .. (IF l.ok THEN l.step - 1 ELSE l.step) |-> IF l.ok \/ i < l.step THEN "success" ELSE "failed"]

\* FinishRun; its failure is returned and leaves the row running.
FinishRun(c) ==
  LET l == loc[c] IN
  /\ At(c, "finishRun")
  /\ \/ runs' = [runs EXCEPT ![l.run] = [status |-> IF l.ok THEN "success" ELSE "failed", results |-> Results(l)]]
     \/ "write" \in faults /\ UNCHANGED runs
  /\ loc' = [loc EXCEPT ![c] = Idle]
  /\ UNCHANGED <<remote, targets, dep, faults, pipeline, deps>>

\* The deployments a run's steps have created, for the properties only.
Caused == deps' = [r \in Run |-> deps[r] \cup {loc'[c].d : c \in {x \in Caller : loc'[x].run = r /\ loc'[x].d # 0}}]

PipeSteps(c) ==
  \/ runPipeline(c) \/ CreateRun(c) \/ RunStep(c) \/ StepDone(c) \/ AllDone(c) \/ FinishRun(c)

Crash ==
  /\ "crash" \in faults
  /\ DeployCrash
  /\ UNCHANGED pipeVars

Next ==
  \/ DeployNext /\ Caused /\ UNCHANGED <<pipeline, runs>>
  \/ \E c \in Caller : PipeSteps(c)
  \/ createPipeline \/ deletePipeline
  \/ Crash

Spec == Init /\ [][Next]_vars

-----------------------------------------------------------------------------
(* Properties                                                                 *)

\* A run that is recorded as a success has done every step, and every deployment
\* it caused is recorded as a success, although each is written by its own UPDATE
\* that may fail, and deployments of other requests overlap with it.
RunTellsDeployments ==
  \A r \in Run : runs[r].status = "success" =>
    /\ runs[r].results = [i \in DOMAIN Steps |-> "success"]
    /\ \A d \in deps[r] : dep[d].status = "success"
    /\ \A i \in DOMAIN Steps : Steps[i] = "deploy" => deps[r] # {}

\* What the table of pipeline runs promises its readers.
RunRows == INSTANCE RowLifecycle WITH Row <- Run, Terminal <- {"success", "failed"},
                                      status <- [r \in Run |-> runs[r].status]

\* Deployments and pipeline runs both implement the life cycle of a row: settled
\* once, never reopened, whatever overlaps, fails or is cut off.
RowsFollowLifecycle == DeploymentRows!Spec /\ RunRows!Spec
=============================================================================
