\* Three runs on one namespace, each but the first after a crash or a reinit.
CONSTANTS
  snapshot = snapshot
  localVolume = localVolume
  configurator = configurator
  VmRoles <- MCVmRoles
  Checks <- MCChecks
  MaxApt = 2
  MaxRuns = 3
SPECIFICATION FairSpec

  
  
PROPERTIES
  
  CreateEnds
CHECK_DEADLOCK FALSE
