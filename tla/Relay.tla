------------------------------- MODULE Relay --------------------------------
(***************************************************************************)
(* The subscription relay (src/server/relay_server.c) on one downstream     *)
(* WebSocket stream: the handler retains the stream and spawns a forward    *)
(* thread, which connects upstream (src/transport/websocket.c), forwards    *)
(* every message, and reconnects after a delay when that is enabled.        *)
(*                                                                          *)
(* The upstream publishes messages 1, 2, ... to whoever is connected at the *)
(* time.  A message reaches the forward thread's socket in two pieces, and  *)
(* a quiet moment or the end of the session may fall in the middle of it.   *)
(*                                                                          *)
(* The handler of a stream is the relay's, or it belongs to the embedding   *)
(* program and spawns producers (WsCallers).                                *)
(***************************************************************************)
EXTENDS WsCallers

CONSTANTS Reconnects,   \* choices of reconnect_delay_ms # 0 in the configuration
          MaxMessages,  \* bound: messages the upstream publishes
          MaxSessions   \* bound: sessions whose messages are told apart

ASSUME RelayAssumption ==
  /\ Reconnects \subseteq BOOLEAN
  /\ MaxMessages \in Nat \ {0}
  /\ MaxSessions \in Nat \ {0}

VARIABLES
  handler,    \* whose stream it is: "relay" or "producers"; never changes
  fwd,        \* program counter of relay_forward
  up,         \* the upstream connection: "none", "open", "dropped"
  rest,       \* the second piece of the last message is on its way
  inbox,      \* pieces of messages received by the socket, not yet read
  pending,    \* socket->pending: the first half of a message, or 0
  published,  \* messages published so far
  session,    \* number of the current upstream session
  reconnect,  \* reconnect_delay_ms # 0; never changes
  relay       \* the wf_relay_server: "live" or "freed"

relayVars == <<handler, fwd, up, rest, inbox, pending, published, session, reconnect, relay>>
vars == <<streamVars, caller, relayVars>>

Init ==
  /\ StreamInit
  /\ CallerInit
  /\ handler \in {"relay", "producers"}
  /\ fwd = "none"
  /\ up = "none"
  /\ rest = FALSE
  /\ inbox = <<>>
  /\ pending = 0
  /\ published = 0
  /\ session = 0
  /\ reconnect \in Reconnects
  /\ relay = "live"

-----------------------------------------------------------------------------
(* The upstream, outside this program.                                     *)

\* A message is published; a connected session receives its first piece ...
Publish ==
  /\ published < MaxMessages
  /\ ~rest
  /\ published' = published + 1
  /\ IF up = "open" THEN inbox' = Append(inbox, published + 1) /\ rest' = TRUE
     ELSE UNCHANGED <<inbox, rest>>
  /\ UNCHANGED <<streamVars, fwd, up, pending, session, reconnect, relay>>

\* ... and, unless the session ends before, its second.
PublishRest ==
  /\ rest
  /\ rest' = FALSE
  /\ inbox' = Append(inbox, published)
  /\ UNCHANGED <<streamVars, fwd, up, pending, published, session, reconnect, relay>>

\* The upstream closes the session, the connection to it breaks, or it sends
\* what wf_websocket_receive refuses.
UpstreamDrop ==
  /\ up = "open"
  /\ up' = "dropped"
  /\ rest' = FALSE
  /\ UNCHANGED <<streamVars, fwd, inbox, pending, published, session, reconnect, relay>>

-----------------------------------------------------------------------------
(* relay_ws_handler and relay_forward.                                     *)

\* relay_ws_handler: retain, then spawn the forward thread; a failure of either
\* leaves the stream to its control loop alone.
Handle ==
  /\ fwd = "none" /\ handler = "relay"
  /\ serve = "handler"
  /\ \/ Retain /\ fwd' = "connect"
     \/ UNCHANGED streamVars /\ fwd' = "done"
  /\ UNCHANGED <<up, rest, inbox, pending, published, session, reconnect, relay>>

\* Mutant: without reconnecting the thread leaves the loop past the close.
EndSessionUnclosed(why) ==
  /\ up' = "none"
  /\ inbox' = <<>>
  /\ pending' = 0
  /\ rest' = FALSE
  /\ fwd' = IF why = "downstream" THEN "close" ELSE IF reconnect THEN "sleep" ELSE "release"

\* End of relay_run_session and the decision of relay_forward: the socket is
\* freed with whatever it had received, and unless the downstream is gone the
\* thread sleeps and tries again, when reconnecting is enabled.
EndSession(why) ==
  /\ up' = "none"
  /\ inbox' = <<>>
  /\ pending' = 0
  /\ rest' = FALSE
  /\ fwd' = IF why = "downstream" \/ ~reconnect THEN "close" ELSE "sleep"

\* wf_websocket_connect.
Connect ==
  /\ fwd = "connect"
  /\ session < MaxSessions
  /\ session' = session + 1
  /\ up' = "open"
  /\ fwd' = "receive"
  /\ UNCHANGED <<streamVars, rest, inbox, pending, published, reconnect, relay>>

ConnectFail ==
  /\ fwd = "connect"
  /\ EndSession("connect_failed")
  /\ UNCHANGED <<streamVars, published, session, reconnect, relay>>

\* wf_websocket_receive reads the first piece of a message and goes on.
ReceivePiece ==
  /\ fwd = "receive"
  /\ inbox # <<>>
  /\ pending = 0
  /\ pending' = Head(inbox)
  /\ inbox' = Tail(inbox)
  /\ UNCHANGED <<streamVars, fwd, up, rest, published, session, reconnect, relay>>

\* Mutant: a send that timed out is tried again.
ForwardRetrying ==
  /\ fwd = "receive"
  /\ inbox # <<>>
  /\ pending # 0
  /\ \E status \in Status :
       /\ Send(<<pending, session>>, status)
       /\ CASE status = "ok" -> pending' = 0 /\ inbox' = Tail(inbox) /\ UNCHANGED <<fwd, up, rest>>
            [] status = "timeout" -> UNCHANGED <<pending, inbox, fwd, up, rest>>
            [] OTHER -> EndSession("downstream")
  /\ UNCHANGED <<published, session, reconnect, relay>>

\* wf_websocket_receive completes a message, which is sent downstream; any
\* result but WF_OK ends the session as closed downstream.
Forward ==
  /\ fwd = "receive"
  /\ inbox # <<>>
  /\ pending # 0
  /\ \E status \in Status :
       /\ Send(<<pending, session>>, status)
       /\ IF status = "ok"
          THEN pending' = 0 /\ inbox' = Tail(inbox) /\ UNCHANGED <<fwd, up, rest>>
          ELSE EndSession("downstream")
  /\ UNCHANGED <<published, session, reconnect, relay>>

\* wf_websocket_receive returns WF_ERR_NETWORK: upstream closed or broken.
ReceiveDropped ==
  /\ fwd = "receive"
  /\ inbox = <<>>
  /\ up = "dropped"
  /\ EndSession("dropped")
  /\ UNCHANGED <<streamVars, published, session, reconnect, relay>>

\* wf_websocket_receive returns WF_ERR_WOULD_BLOCK: 100 ms without data.
ReceiveQuiet ==
  /\ fwd = "receive"
  /\ inbox = <<>>
  /\ up = "open"
  /\ EndSession("quiet")
  /\ UNCHANGED <<streamVars, published, session, reconnect, relay>>

\* usleep(reconnect_delay_ms), then the next session.
Sleep ==
  /\ fwd = "sleep"
  /\ fwd' = "connect"
  /\ UNCHANGED <<streamVars, up, rest, inbox, pending, published, session, reconnect, relay>>

\* The end of relay_forward: close the downstream, release it, free fwd.
ForwardClose ==
  /\ fwd = "close"
  /\ Close
  /\ fwd' = "release"
  /\ UNCHANGED <<up, rest, inbox, pending, published, session, reconnect, relay>>

ForwardRelease ==
  /\ fwd = "release"
  /\ Release
  /\ fwd' = "done"
  /\ UNCHANGED <<up, rest, inbox, pending, published, session, reconnect, relay>>

\* The owner frees the relay once wf_xrpc_server_free has returned, which has
\* waited for the upgrade worker.
FreeRelay ==
  /\ serve = "gone"
  /\ relay = "live"
  /\ relay' = "freed"
  /\ UNCHANGED <<streamVars, fwd, up, rest, inbox, pending, published, session, reconnect>>

FwdStep ==
  Connect \/ ConnectFail \/ ReceivePiece \/ Forward \/ ReceiveDropped
    \/ ReceiveQuiet \/ Sleep \/ ForwardClose \/ ForwardRelease

\* The relay's handler returns when it has spawned the forward thread.
Spawned == handler = "relay" => fwd # "none"

Next ==
  \/ (Handle \/ FwdStep \/ FreeRelay) /\ UNCHANGED <<caller, handler>>
  \/ (Publish \/ PublishRest \/ UpstreamDrop) /\ UNCHANGED <<caller, handler>>
  \/ handler = "producers" /\ CallerStep /\ UNCHANGED relayVars
  \/ ((ServeStep /\ Spawned) \/ PeerLost \/ StopMark) /\ UNCHANGED <<caller, relayVars>>

\* The forward thread and the upgrade worker keep running, and a producer
\* gives up a closed stream.
Spec ==
  /\ Init /\ [][Next]_vars
  /\ WF_vars(FwdStep /\ UNCHANGED <<caller, handler>>)
  /\ WF_vars(Spawned /\ (HandlerReturn \/ ServeRuns) /\ UNCHANGED <<caller, relayVars>>)
  /\ \A p \in Producers : WF_vars(closed /\ End(p) /\ UNCHANGED relayVars)

-----------------------------------------------------------------------------
\* The data frames of w are messages in the order published, none twice, and
\* between two of a session there are all the messages between them.
Ordered(w) ==
  \A i, j \in 1..Len(w) :
    i < j /\ w[i].op = "data" /\ w[j].op = "data" =>
      /\ w[i].body[1] < w[j].body[1]
      /\ w[i].body[2] = w[j].body[2] =>
           \A k \in w[i].body[1]..w[j].body[1] :
             \E l \in i..j : w[l].op = "data" /\ w[l].body = <<k, w[j].body[2]>>

\* relay_run_session forwards every message of a session: downstream, messages
\* come in the order published, none twice, and a message is missing between
\* two others only if an upstream session ended between them.
ForwardedInOrder == handler = "relay" => Ordered(wire)

\* The worker frees the stream, and the owner the relay, only when no
\* producer and no forward thread can still use it: relay_forward reads the
\* relay's configuration until its last session.
GoneUnheld ==
  serve = "gone" \/ relay = "freed" =>
    fwd \in {"none", "done"} /\ \A p \in Producers : caller[p] # "holding"

\* A stream that its producers, the client or stop() closed, or whose client
\* is lost, comes to its end.
EndsOnceClosed == handler = "producers" /\ (closed \/ peer = "lost") ~> serve = "gone"

\* The upstream session is over, or was never made, and relay_forward goes on
\* from there: closed or broken by the upstream, quiet for 100 ms, not
\* connected at all, or given up because the downstream refused a message.
SessionOver ==
  \/ fwd = "receive" /\ up # "open"
  \/ fwd \in {"sleep", "close", "release"}
  \/ fwd = "done" /\ session > 0

\* Without reconnecting, a session that ends for whatever reason, a failed
\* connect and a quiet moment included, ends the downstream stream and its
\* worker (relay_forward, after relay_run_session).
SessionEndEnds == ~reconnect /\ SessionOver ~> serve = "gone"

\* What relay_server.h:88 says of a reconnecting relay, "It stops retrying
\* once the downstream client disconnects". It does not hold: while the
\* upstream cannot be reached no send is made that could fail, and the forward
\* thread retries with its reference held. No run checks it.
StopsOnceClosed == handler = "relay" /\ (closed \/ peer = "lost") ~> serve = "gone"
=============================================================================
