\* Two goroutines, two targets, a definition of two steps, three deployments, two pushes.
SPECIFICATION MCSpec
CONSTANTS
  t1 = t1
  t2 = t2
  h1 = h1
  h2 = h2
  Caller = {c1, c2}
  Target = {t1, t2}
  Place = {h1, h2}
  PlaceOf <- MCPlaceOf
  MaxDeploy = 3
  MaxUnruly = 2
  MaxCommit = 2
  MaxRun = 1
  StepTarget = t2
  Steps <- MCSteps
  FaultSets <- MCFaultSets
INVARIANTS
  SuccessIsDeployed
  HistoryIsChained
  RunTellsDeployments
PROPERTY
  RowsFollowLifecycle
SYMMETRY Symmetry
