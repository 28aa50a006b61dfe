\* Liveness of Stop and of awaitExit, for two API goroutines, one of them stopping.
SPECIFICATION MCLiveSpec
CONSTANTS
  Service = {web}
  c2 = c2
  Client = {c1, c2}
  Proc = {p1, p2}
  NoProc = NoProc
  Policy <- PolicyOnFailure
  MaxRestarts = 1
  TermKills = FALSE
  StoreMayFail = FALSE
PROPERTIES
  StopReturnsEventually
  ExitIsHandled
