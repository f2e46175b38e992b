----------------------------- MODULE MCRequest ------------------------------
(* Instance of Request for TLC. *)
EXTENDS Request
=============================================================================
