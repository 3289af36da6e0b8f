----------------------------- MODULE MCNsLifecycle -----------------------------
(* NsLifecycle for TLC. *)
EXTENDS NsLifecycle
==============================================================================
