--------------------------- MODULE MCEnsureCluster ---------------------------
(* EnsureCluster with three goroutines, for TLC.                           *)
EXTENDS EnsureCluster
==============================================================================
