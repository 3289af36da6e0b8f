\* Two runs, on any of two temporary names and one that only looks like one;
\* a tick is 30 minutes, so a run may get older than CleanUpAge.
CONSTANTS
  Runs = {r1, r2}
  TmpNames = {tmp1, tmp2}
  LikeNames = {like}
  OtherNames = {}
  CleanUpAge = 1
  Timeout = 3
  MaxTime = 5
SPECIFICATION FairSpec
INVARIANTS
  NsInv
  ReinitFresh
PROPERTIES
  
  PrepareEnds
CHECK_DEADLOCK FALSE
