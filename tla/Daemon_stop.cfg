\* One daemon, started and stopped.
SPECIFICATION DaemonSpec
CONSTANTS
  MaxProc = 1
  Cli = {t1}
  BootFaultSets = {{}}
INVARIANT ClosedWhenGone
CHECK_DEADLOCK FALSE
