------------------------------- MODULE MCSse --------------------------------
(* Instance of Sse for TLC. *)
EXTENDS Sse
=============================================================================
