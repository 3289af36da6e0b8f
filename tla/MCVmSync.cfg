\* Two runs started with the same -namespace, restarted as often as they die.
CONSTANTS
  vm1 = vm1
  vm2 = vm2
  old = old
  vm3 = vm3
  ub22 = ub22
  deb11 = deb11
  Runs = {r1, r2}
  Namespaces = {ns1}
  Images = {ub22, deb11}
  VmCluster <- MCVmCluster
  Foreign <- MCForeign
  ImageOf <- MCImageOf
  StaticIp <- MCStaticIp
SPECIFICATION FairSpec
INVARIANTS
  ProvisionInv
  SyncedComplete
PROPERTIES
  SyncEnds
