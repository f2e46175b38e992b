--------------------------- MODULE MCEventClients ---------------------------
(* Instance of EventClients for TLC. *)
EXTENDS EventClients
=============================================================================
