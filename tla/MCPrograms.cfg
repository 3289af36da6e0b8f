CONSTANTS
  VmItems <- MCVmItems
  MaxBoots = 3
  NoFile = NoFile
  Empty = Empty
  StorNodes = {n1, n2}
  NoNode = NoNode
  MaxPvcRuns = 2
  MaxRev = 2
  MaxGoTests = 2
  ClaimNames = {c1, c2}
  Goroutines = {g1, g2}
  BN = 3
SPECIFICATION Spec
INVARIANTS
  BootInv
  OneKeyPair
  BootComplete
  PvcInv
  
  PvcPassMeansResized
  CasesInv
  CasePassed
  
  NamesInRange
PROPERTIES
  BootsImplementLife
  EditsSurvive
  DeletesOwn
  BootEnds
  
CHECK_DEADLOCK FALSE
