\* One install that is interrupted.
SPECIFICATION RtSpec
CONSTANTS
  Worker = {w1}
  Version = {v1}
  NoVersion = NoVersion
  PathVersion = NoVersion
  RtFaultSets = {{"crash"}}
INVARIANT PartialIsNotListed
