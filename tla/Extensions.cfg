\* Two goroutines manage two extensions at once; the daemon dies.
SPECIFICATION Spec
CONSTANTS
  e1 = e1
  e2 = e2
  python = python
  ruby = ruby
  node = node
  Thread = {a1, a2}
  Admin = {a1, a2}
  User = {}
  Instance = {i1, i2}
  None = None
  Ext = {e1, e2}
  Kind <- MCKind
  NameOf <- MCNameOf
  Builtin = {node}
  DbMayFail = {TRUE, FALSE}
  MayCrash = TRUE
SYMMETRY Symmetry
INVARIANTS
  NothingLeaks
  LoadedIsRegistered
  RemovedIsStopped
