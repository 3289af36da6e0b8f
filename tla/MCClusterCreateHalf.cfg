\* As MCClusterCreate.cfg, for what EnsureCluster's comment says of repairs.
CONSTANTS
  snapshot = snapshot
  localVolume = localVolume
  configurator = configurator
  VmRoles <- MCVmRoles
  Checks <- MCChecks
  MaxApt = 2
  MaxRuns = 3
SPECIFICATION FairSpec
INVARIANTS
  RepairedByRerun
CHECK_DEADLOCK FALSE
