------------------------------- MODULE MCVmSync -------------------------------
(* VmSync for TLC: three VMs of two images, of which the last has an        *)
(* address of its own, and one VM left behind by another cluster type.      *)
EXTENDS VmSync
CONSTANTS vm1, vm2, vm3, old, ub22, deb11
MCVmCluster == <<vm1, vm2, vm3>>
MCForeign == {old}
MCImageOf == [v \in {vm1, vm2, vm3} |-> IF v = vm3 THEN deb11 ELSE ub22]
MCStaticIp == {vm3}
==============================================================================
