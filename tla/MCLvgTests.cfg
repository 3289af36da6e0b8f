\* Two runs, one after another, with four command lines.
CONSTANTS
  n0 = n0
  n1 = n1
  b0 = b0
  b1 = b1
  b2 = b2
  b3 = b3
  Node = {n0, n1}
  Bd = {b0, b1, b2, b3}
  NodeOf <- MCNodeOf
  Id <- MCId
  Deb = {}
  OldLvgs <- MCOldLvgs
  Commands <- MCCommands
SPECIFICATION FairSpec
INVARIANTS
  LvgInv
  InOrder
  OneGroupPerDevice
PROPERTIES
  DisksAfterGroups
  TestEnds
CHECK_DEADLOCK FALSE
