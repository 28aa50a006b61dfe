\* Two API goroutines, one of them stopping, on one service that is always restarted.
SPECIFICATION MCSpec
CONSTANTS
  Service = {web}
  c2 = c2
  Client = {c1, c2}
  Proc = {p1, p2, p3}
  NoProc = NoProc
  Policy <- PolicyAlways
  MaxRestarts = 1
  TermKills = FALSE
  StoreMayFail = FALSE
SYMMETRY Symmetry
INVARIANTS
  StopWins
  StopIsComplete
  RunningRowIsPending
