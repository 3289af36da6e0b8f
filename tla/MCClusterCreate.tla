---------------------------- MODULE MCClusterCreate ----------------------------
(* ClusterCreate for TLC: the cluster type "Ubuntu 22 mini", a master, a     *)
(* setup VM that is a worker too, and a worker; and the waits of             *)
(* ensureClusterReady, two of which are for one module.                     *)
EXTENDS ClusterCreate
CONSTANTS snapshot, localVolume, configurator
MCVmRoles == <<{"master"}, {"setup", "worker"}, {"worker"}>>
MCChecks == <<snapshot, localVolume, localVolume, configurator>>
==============================================================================
