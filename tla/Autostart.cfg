\* The sort and the autostart pass over graphs of three services.
SPECIFICATION Spec
CONSTANTS
  a = a
  b = b
  c = c
  absent = absent
  Input <- MCInput
  Name <- MCName
  DepLists <- MCDepLists
  MayCancel = TRUE
INVARIANTS
  ResultIsRight
  DependenciesFirst
  NothingStartsOnCycle
PROPERTIES
  PassEnds
CHECK_DEADLOCK FALSE
