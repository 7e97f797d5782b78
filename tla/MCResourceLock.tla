--------------------------- MODULE MCResourceLock ---------------------------
(* Four threads contending for two resources. *)
EXTENDS ResourceLock
=============================================================================
