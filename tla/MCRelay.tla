------------------------------ MODULE MCRelay -------------------------------
(* Instance of Relay for TLC. *)
EXTENDS Relay
=============================================================================
