\* As MCNsLifecycle.cfg, for the command line of testkit_v2/README.md:24.
CONSTANTS
  Runs = {r1, r2}
  TmpNames = {tmp1, tmp2}
  LikeNames = {like}
  OtherNames = {}
  CleanUpAge = 1
  Timeout = 3
  MaxTime = 5
SPECIFICATION FairSpec
INVARIANTS
  RunKeepsItsNs
CHECK_DEADLOCK FALSE
