------------------------------- MODULE MCDima -------------------------------
(* Dima with capacities 1, 2, 3 in place of 16, 18, 20. *)
EXTENDS Dima
=============================================================================
