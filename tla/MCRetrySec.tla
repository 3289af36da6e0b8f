------------------------------ MODULE MCRetrySec ------------------------------
(* RetrySec for TLC: timeouts with latencies of 2, 5 and 15 seconds.         *)
EXTENDS RetrySec
==============================================================================
