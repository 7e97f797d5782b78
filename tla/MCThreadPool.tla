---------------------------- MODULE MCThreadPool ----------------------------
(* The thread pool on a small instance. *)
EXTENDS ThreadPool
=============================================================================
