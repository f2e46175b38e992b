----------------------------- MODULE MCWsServer -----------------------------
(* Instance of WsServer for TLC. *)
EXTENDS WsServer
=============================================================================
