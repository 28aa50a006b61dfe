\* Two API goroutines, two jobs, two keys, crashes; with and without a failing
\* database and log directory.
SPECIFICATION MCSpec
CONSTANTS
  Caller = {c1, c2}
  Job = {j1, j2}
  Key = {k1, k2}
  None = None
  FaultSets <- MCFaultSets
INVARIANTS
  RunningRowHasOwner
  TargetIsOwned
  RowTellsOutcome
PROPERTIES
  JobsFollowLifecycle
  CancelIsRecorded
