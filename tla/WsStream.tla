------------------------------ MODULE WsStream ------------------------------
(***************************************************************************)
(* One upgraded WebSocket stream seen from its callers and from the wire:   *)
(* wf_xrpc_server_ws_send, _ping, _close, _retain, _release, the frame      *)
(* writer and the control-frame loop of src/server/xrpc_server_ws.c.  Every *)
(* operation holds stream->mutex throughout, so each is one step.           *)
(*                                                                          *)
(* The worker's life before and after the loop is the subject of WsServer;  *)
(* here it runs the user's handler, then the loop ("serving"), then waits   *)
(* ("leaving") and is "gone" once it has seen worker_refs at zero.          *)
(***************************************************************************)
EXTENDS Naturals, Sequences, SequencesExt

CONSTANT MaxWire    \* bound: no ping is received once this many frames are sent

ASSUME StreamAssumption == MaxWire \in Nat \ {0}

VARIABLES
  closed,      \* stream->closed
  workerRefs,  \* stream->worker_refs
  wire,        \* frames on the socket, in order, each whole or cut short
  serve,       \* the upgrade worker: "handler", "serving", "leaving", "gone"
  peer         \* the client: "open", or "lost" (every write and read fails)

streamVars == <<closed, workerRefs, wire, serve, peer>>

NoBody == "empty"
Status == {"ok", "timeout", "network", "invalid_arg"}

StreamInit ==
  /\ closed = FALSE
  /\ workerRefs = 0
  /\ wire = <<>>
  /\ serve = "handler"
  /\ peer = "open"

\* wf_ws_write_frame_locked over wf_ws_write_all: the whole frame; nothing or a
\* part of it when the peer's window stays full for the write time-out; nothing
\* that arrives when the connection is broken.
WriteFrame(op, body, status) ==
  \/ /\ status = "ok" /\ peer = "open"
     /\ wire' = Append(wire, [op |-> op, body |-> body, sent |-> "whole"])
  \/ /\ status = "timeout" /\ peer = "open"
     /\ \/ wire' = wire
        \/ wire' = Append(wire, [op |-> op, body |-> body, sent |-> "part"])
  \/ /\ status = "network" /\ peer = "lost"
     /\ wire' = wire

\* Mutant: closed is not looked at.
SendBlind(body, status) ==
  /\ WriteFrame("data", body, status)
  /\ UNCHANGED <<closed, workerRefs, serve, peer>>

\* wf_xrpc_server_ws_send.
Send(body, status) ==
  /\ IF closed THEN status = "invalid_arg" /\ UNCHANGED wire
     ELSE WriteFrame("data", body, status)
  /\ UNCHANGED <<closed, workerRefs, serve, peer>>

\* wf_xrpc_server_ws_ping.
Ping(status) ==
  /\ IF closed THEN status = "invalid_arg" /\ UNCHANGED wire
     ELSE WriteFrame("ping", NoBody, status)
  /\ UNCHANGED <<closed, workerRefs, serve, peer>>

\* wf_xrpc_server_ws_close: the flag is set before the frame is written, and
\* the result of the write is ignored.
Close ==
  /\ IF closed THEN UNCHANGED <<closed, wire>>
     ELSE /\ closed' = TRUE
          /\ \E status \in Status : WriteFrame("close", NoBody, status)
  /\ UNCHANGED <<workerRefs, serve, peer>>

\* wf_xrpc_server_ws_retain, when it succeeds.
Retain ==
  /\ ~closed
  /\ workerRefs' = workerRefs + 1
  /\ UNCHANGED <<closed, wire, serve, peer>>

\* Mutant: the last reference is never given back.
ReleaseOffByOne ==
  /\ workerRefs' = IF workerRefs > 1 THEN workerRefs - 1 ELSE workerRefs
  /\ UNCHANGED <<closed, wire, serve, peer>>

\* wf_xrpc_server_ws_release.
Release ==
  /\ workerRefs' = IF workerRefs > 0 THEN workerRefs - 1 ELSE workerRefs
  /\ UNCHANGED <<closed, wire, serve, peer>>

-----------------------------------------------------------------------------
(* The control-frame loop of wf_ws_serve_thread.                           *)

\* The user's handler returns, whatever its result.
HandlerReturn ==
  /\ serve = "handler"
  /\ serve' = "serving"
  /\ UNCHANGED <<closed, workerRefs, wire, peer>>

\* The head of the loop sees closed.
LoopClosed ==
  /\ serve = "serving"
  /\ closed
  /\ serve' = "leaving"
  /\ UNCHANGED <<closed, workerRefs, wire, peer>>

\* A ping is answered, whether or not the stream was closed since the head of
\* the loop; a data frame is read and dropped.
LoopPing ==
  /\ serve = "serving"
  /\ peer = "open"
  /\ Len(wire) < MaxWire
  /\ \E status \in Status : WriteFrame("pong", NoBody, status)
  /\ UNCHANGED <<closed, workerRefs, serve, peer>>

\* A close frame is echoed unless this side has closed first.
LoopPeerClose ==
  /\ serve = "serving"
  /\ peer = "open"
  /\ IF closed THEN UNCHANGED <<closed, wire>>
     ELSE /\ closed' = TRUE
          /\ \E status \in Status : WriteFrame("close", NoBody, status)
  /\ serve' = "leaving"
  /\ UNCHANGED <<workerRefs, peer>>

\* End of file or an error of the socket.
LoopError ==
  /\ serve = "serving"
  /\ peer = "lost"
  /\ serve' = "leaving"
  /\ UNCHANGED <<closed, workerRefs, wire, peer>>

\* A client that is still there sends a frame above the size guard, or one that
\* does not arrive in time, or there is no memory for it.
LoopBadFrame ==
  /\ serve = "serving"
  /\ peer = "open"
  /\ serve' = "leaving"
  /\ UNCHANGED <<closed, workerRefs, wire, peer>>

\* Mutant: worker_refs is not waited for.
LeaveAtOnce ==
  /\ serve = "leaving"
  /\ closed' = TRUE
  /\ serve' = "gone"
  /\ UNCHANGED <<workerRefs, wire, peer>>

\* After the loop: closed is set, and the worker goes once nobody holds on.
Leave ==
  /\ serve = "leaving"
  /\ closed' = TRUE
  /\ serve' = IF workerRefs = 0 THEN "gone" ELSE "leaving"
  /\ UNCHANGED <<workerRefs, wire, peer>>

\* The client goes away without a close frame.
PeerLost ==
  /\ peer = "open"
  /\ peer' = "lost"
  /\ UNCHANGED <<closed, workerRefs, wire, serve>>

\* wf_xrpc_server_stop marks a listed stream closed and shuts its socket down.
StopMark ==
  /\ serve # "gone"
  /\ closed' = TRUE
  /\ peer' = "lost"
  /\ UNCHANGED <<workerRefs, wire, serve>>

\* What the worker does of its own accord.
ServeRuns == LoopClosed \/ LoopError \/ Leave

ServeStep == HandlerReturn \/ LoopPing \/ LoopPeerClose \/ LoopBadFrame \/ ServeRuns

-----------------------------------------------------------------------------
\* A close frame ends the conversation: at most one is sent, and after it no
\* data and no ping, whoever closes and whoever is sending at that moment.  A
\* pong may still follow: the loop answers a ping without looking at closed.
NothingAfterClose ==
  \A i, j \in 1..Len(wire) :
    i < j /\ wire[i].op = "close" => wire[j].op = "pong"
=============================================================================
