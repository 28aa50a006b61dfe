\* Budget: two restarts in a window of four instants, ten instants.  Secrets: one
\* owner of each kind, two of them in a behaviour (one where requests fail), two
\* goroutines, two keys, one database and two pools.  Runtimes: two versions, one of
\* them also on PATH.  Daemon: three processes and one terminal.  Hub: a queue of
\* two, two connections, four messages.
\* Every part stops when its bound is used up.
SPECIFICATION PartsSpec
CONSTANTS
  MaxRestarts = 2
  Window = 4
  Horizon = 10
  Caller = {c1, c2}
  Owner = {s1, d1, i1}
  KindOf <- MCKindOf
  MaxKey = 2
  MaxOwners = 2
  MaxDatabase = 1
  MaxPool = 2
  FaultSets <- MCFaultSets
  Worker = {w1, w2}
  Version = {v1, v2}
  NoVersion = NoVersion
  PathVersion = v2
  RtFaultSets <- MCRtFaultSets
  MaxProc = 3
  Cli = {t1}
  BootFaultSets <- MCBootFaultSets
  Conn = {n1, n2}
  QueueSize = 2
  MaxMessage = 4
  s1 = s1
  d1 = d1
  i1 = i1
SYMMETRY Symmetry
CHECK_DEADLOCK FALSE
INVARIANTS
  BudgetHolds
  GivesUpForCause
  RefIsStored
  BlobsStayReadable
  NothingOrphaned
  PoolsAreOwned
  RowsTellDisk
  VersionsAreComplete
  
  StreamHasNoGaps
