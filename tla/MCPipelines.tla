------------------------------ MODULE MCPipelines ------------------------------
(* The instance of Pipelines and Deployments for TLC. *)
EXTENDS Pipelines, TLC

CONSTANTS t1, t2, h1, h2

MCPlaceOf   == (t1 :> h1) @@ (t2 :> h2)
MCSteps     == <<"run", "deploy">>
MCFaultSets == {{"write"}, {"overlap", "cancel"}, {"crash", "write"}}
Symmetry    == Permutations(Caller)

\* Where updates fail, the last of the deployments is made without a pipeline.
FewRows == "write" \in faults /\ pipeline' => dep'[MaxDeploy].status = "none"
\* Requests that overlap are about one target.
OneTarget == "overlap" \in faults => t1 \notin ToSet(targets')

MCSpec == Init /\ [][Next /\ FewRows /\ OneTarget]_vars
=============================================================================
