------------------------------ MODULE Jetstream -----------------------------
(***************************************************************************)
(* The Jetstream client (src/jetstream/jetstream.c): wf_jetstream_next,     *)
(* which the caller polls and which reconnects by itself, and               *)
(* wf_jetstream_update_options, which sends a text message that the socket  *)
(* may take in pieces (wf_websocket_send_text, src/transport/websocket.c).  *)
(* One thread uses the stream.                                              *)
(***************************************************************************)
EXTENDS Feed

CONSTANTS
  Versions,  \* protocol versions the caller may ask for, 1 or 2
  Updates,   \* the updates of the filters the caller may want
  NoUpdate,
  Pieces     \* the pieces the socket may take an update in

ASSUME JetstreamAssumption ==
  Versions \subseteq {1, 2} /\ NoUpdate \notin Updates /\ Pieces \in Nat \ {0}

VARIABLES
  version,   \* options.protocol_version
  due,       \* retry_at_ms has passed
  failed,    \* events that a call consumed and reported an error for
  pending,   \* pending_update_json
  outgoing,  \* socket->outgoing
  offset,    \* socket->outgoing_offset
  message,   \* pieces the service has of the last message on this connection
  agreed     \* the update it was, once WF_OK was returned for it

sendVars == <<pending, outgoing, offset, message, agreed>>
pollVars == <<version, due, failed>>
jetVars  == <<pollVars, sendVars>>

\* An update as the service should get it.
Whole(u) == [i \in 1..Pieces |-> <<u, i>>]

JetInit ==
  /\ version \in Versions
  /\ due = TRUE
  /\ failed = {}
  /\ pending = NoUpdate
  /\ outgoing = NoUpdate
  /\ offset = 0
  /\ message = <<>>
  /\ agreed = NoUpdate

\* A new socket, on which nothing was sent; stream->options go with the URL.
NewSocket ==
  /\ outgoing' = NoUpdate
  /\ offset' = 0
  /\ message' = <<>>
  /\ agreed' = NoUpdate

\* wf_jetstream_connect; when it fails there is no stream.
JetConnect ==
  /\ pc = "start"
  /\ \/ /\ Accepted(cursor)
        /\ pc' = "idle"
        /\ NewSocket
     \/ /\ Refused
        /\ pc' = "done"
        /\ UNCHANGED <<outgoing, offset, message, agreed>>
  /\ UNCHANGED <<cursor, delay, delivered, pollVars, pending>>

-----------------------------------------------------------------------------
(* wf_jetstream_next.                                                      *)

\* The call on a stream that has a socket.
NextBegin ==
  /\ pc = "idle"
  /\ sock # "none"
  /\ pc' = "next"
  /\ UNCHANGED <<serviceVars, cursor, delay, delivered, jetVars>>

\* Mutant: the cursor is left out of the URL.
ReopenFresh ==
  /\ pc = "idle"
  /\ sock = "none"
  /\ due
  /\ Accepted(0)
  /\ NewSocket
  /\ pc' = "next"
  /\ UNCHANGED <<cursor, delay, delivered, pollVars, pending>>

\* The call on a stream without one, when the retry is due: wf_jetstream_open.
Reopen ==
  /\ pc = "idle"
  /\ sock = "none"
  /\ due
  /\ Accepted(cursor)
  /\ NewSocket
  /\ pc' = "next"
  /\ UNCHANGED <<cursor, delay, delivered, pollVars, pending>>

\* It fails: the next retry is due after the delay, which is doubled.
ReopenFails ==
  /\ pc = "idle"
  /\ sock = "none"
  /\ due
  /\ Refused
  /\ due' = FALSE
  /\ delay' = Doubled
  /\ UNCHANGED <<pc, cursor, delivered, version, failed, sendVars>>

\* Time passes; until then calls return WF_ERR_WOULD_BLOCK and change nothing.
RetryDue ==
  /\ pc = "idle"
  /\ sock = "none"
  /\ ~due
  /\ due' = TRUE
  /\ UNCHANGED <<feedVars, version, failed, sendVars>>

\* WF_ERR_NETWORK: the socket is freed and a retry is scheduled.
NextLost ==
  /\ pc = "next"
  /\ Over
  /\ sock' = "none"
  /\ due' = FALSE
  /\ pc' = "idle"
  /\ UNCHANGED <<published, oldest, nextSeq, feed, drops, cursor, delay, delivered, version,
                 failed, sendVars>>

\* WF_ERR_WOULD_BLOCK, perhaps with a ping.
NextQuiet ==
  /\ pc = "next"
  /\ Quiet
  /\ pc' = "idle"
  /\ UNCHANGED <<serviceVars, cursor, delay, delivered, jetVars>>

\* An event: the cursor is the event's, and the delay is reset.
NextEvent(seq) ==
  /\ cursor' = seq
  /\ delivered' = Append(delivered, seq)
  /\ delay' = InitialDelay
  /\ due' = TRUE
  /\ pc' = "idle"
  /\ UNCHANGED failed

\* The error is returned, the message is gone and the stream stays as it is.
NextError(f) ==
  /\ failed' = failed \cup {f}
  /\ pc' = "idle"
  /\ UNCHANGED <<cursor, delivered, delay, due>>

\* An info frame resets the cursor and the call goes on; those of version 2 do
\* not parse.
NextOutdated ==
  /\ version = 1
  /\ cursor' = 0
  /\ UNCHANGED <<pc, delivered, delay, due, failed>>

\* There is no memory to look at its name: the cursor stays.
NextUnread == version = 1 /\ UNCHANGED <<pc, cursor, delivered, delay, due, failed>>

\* A message: an event, an info frame, or an error, because it does not parse or
\* because there is no memory for it (which counts as a fault).
NextMessage ==
  /\ pc = "next"
  /\ feed # <<>>
  /\ feed' = Tail(feed)
  /\ LET f == Head(feed) IN
     \/ f = Outdated /\ NextOutdated /\ UNCHANGED drops
     \/ (f \in Bad \/ (f = Outdated /\ version = 2)) /\ NextError(f) /\ UNCHANGED drops
     \/ /\ drops < MaxDrops /\ drops' = drops + 1
        /\ NextError(f) \/ (f = Outdated /\ NextUnread)
     \/ f \notin Bad \cup {Outdated} /\ NextEvent(f) /\ UNCHANGED drops
  /\ UNCHANGED <<published, oldest, sock, nextSeq, version, sendVars>>

-----------------------------------------------------------------------------
(* wf_jetstream_update_options.                                            *)

\* Mutant: the offset is not reset with the message it belongs to.
SentStale == outgoing' = NoUpdate /\ UNCHANGED offset

\* wf_websocket_send_text is done with the message, sent or failed.
Sent == outgoing' = NoUpdate /\ offset' = 0

\* curl_ws_send takes the n pieces after the offset (external), for a service
\* that gets them while the connection is up.
Taken(u, n) ==
  message' = IF sock = "open"
             THEN (IF outgoing = NoUpdate THEN <<>> ELSE message)
                    \o [i \in 1..n |-> <<u, offset + i>>]
             ELSE message

\* The rest is taken: WF_OK.
SendAll(u) ==
  /\ Taken(u, Pieces - offset)
  /\ Sent
  /\ pending' = NoUpdate
  /\ agreed' = u

\* Some of it, or nothing: WF_ERR_WOULD_BLOCK, to be retried unchanged.
SendSome(u) ==
  /\ \E n \in 0..(Pieces - offset - 1) : Taken(u, n) /\ offset' = offset + n
  /\ outgoing' = u
  /\ pending' = u
  /\ agreed' = NoUpdate

\* The connection is found to be lost: WF_ERR_NETWORK.
SendLost ==
  /\ sock = "lost"
  /\ Sent
  /\ pending' = NoUpdate
  /\ UNCHANGED <<message, agreed>>

\* No memory for the copy: WF_ERR_ALLOC.
SendNoMemory ==
  /\ outgoing = NoUpdate
  /\ pending' = NoUpdate
  /\ UNCHANGED <<outgoing, offset, message, agreed>>

\* A call for u: refused while another update is pending, on the stream or on
\* its socket.
UpdateOptions(u) ==
  /\ pc = "idle"
  /\ sock # "none"
  /\ pending \in {NoUpdate, u}
  /\ outgoing \in {NoUpdate, u}
  /\ SendAll(u) \/ SendSome(u) \/ SendLost \/ SendNoMemory
  /\ UNCHANGED <<feedVars, pollVars>>

\* wf_jetstream_free.
JetFree ==
  /\ pc = "idle"
  /\ sock' = "none"
  /\ feed' = <<>>
  /\ pc' = "done"
  /\ UNCHANGED <<published, oldest, nextSeq, drops, cursor, delay, delivered, jetVars>>

\* The caller's polls, and the time they wait for.
Poll ==
  \/ JetConnect \/ NextBegin \/ Reopen \/ ReopenFails \/ RetryDue
  \/ NextLost \/ NextQuiet \/ NextMessage
=============================================================================
