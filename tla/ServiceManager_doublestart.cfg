\* Two API goroutines start the same service.
SPECIFICATION Spec
CONSTANTS
  Service = {web}
  c2 = c2
  Client = {c1, c2}
  Proc = {p1, p2}
  NoProc = NoProc
  Policy <- PolicyNo
  MaxRestarts = 1
  TermKills = FALSE
  StoreMayFail = FALSE
INVARIANT AtMostOneLive
