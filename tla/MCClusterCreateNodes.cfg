\* As MCClusterCreate.cfg, for the comment of ensureNodesReady.
CONSTANTS
  snapshot = snapshot
  localVolume = localVolume
  configurator = configurator
  VmRoles <- MCVmRoles
  Checks <- MCChecks
  MaxApt = 2
  MaxRuns = 3
SPECIFICATION FairSpec
PROPERTIES
  AllAddedReady
CHECK_DEADLOCK FALSE
