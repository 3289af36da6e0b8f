\* As MCLvgTests.cfg, with the flags' defaults: parallel.
CONSTANTS
  n0 = n0
  n1 = n1
  b0 = b0
  b1 = b1
  b2 = b2
  b3 = b3
  Node = {n0, n1}
  Bd = {b0, b1, b2, b3}
  NodeOf <- MCNodeOf
  Id <- MCId
  Deb = {n0}
  OldLvgs <- MCOldLvgs
  Commands <- MCParallel
SPECIFICATION FairSpec
INVARIANTS
  ReadyBeforeResize
CHECK_DEADLOCK FALSE
