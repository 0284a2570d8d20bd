---------------------------- MODULE MCLifecycle -----------------------------
(* One deployment.                                                         *)
EXTENDS Lifecycle
=============================================================================
