-------------------------------- MODULE Sse ---------------------------------
(***************************************************************************)
(* Server-Sent Events streams of the XRPC server (src/server/xrpc_server.c):*)
(* producer threads append frames under the stream mutex and resume the     *)
(* connection after releasing it; MHD pulls frames through the content      *)
(* reader, which suspends the connection when it finds nothing; MHD frees   *)
(* the stream when the connection ends; wf_xrpc_server_stop closes every    *)
(* registered stream before it stops the daemon.                            *)
(*                                                                          *)
(* A frame is the pair of the producer that sent it and its number.         *)
(***************************************************************************)
EXTENDS Naturals, Sequences

CONSTANTS Streams,   \* connections to an SSE route
          Producers, \* worker threads a handler may spawn
          NoStream,  \* a producer that was not spawned yet
          MaxFrames  \* bound: frames one producer sends

ASSUME SseAssumption == NoStream \notin Streams /\ MaxFrames \in Nat \ {0}

VARIABLES
  conn,      \* [Streams -> ConnState]: the connection as MHD drives it
  mem,       \* [Streams -> Mem]: the wf_xrpc_sse_stream
  chunks,    \* [Streams -> Seq(Frame)]: stream->chunks
  closed,    \* stream->closed
  listed,    \* server->sse_streams
  wire,      \* [Streams -> Seq(Frame)]: what the client was sent
  target,    \* [Producers -> Streams \cup {NoStream}]
  pc,        \* [Producers -> ProdPc]
  sent,      \* [Producers -> 0..MaxFrames]: frames the producer has appended
  stop,      \* program counter of wf_xrpc_server_stop
  unmarked   \* streams its loop has yet to close; it holds sse_mutex

connVars == <<conn, mem, chunks, closed, listed, wire>>
prodVars == <<target, pc, sent>>
stopVars == <<stop, unmarked>>
vars == <<connVars, prodVars, stopVars>>

Mem       == {"none", "live", "freed"}
ConnState == {"idle", "handler", "reading", "suspended", "ended"}
ProdPc    == {"none", "ready", "append", "resume", "closing", "done"}
StopPc    == {"run", "mark", "ws", "daemon", "stopped"}
Frame     == Producers \X (1..MaxFrames)

Init ==
  /\ conn = [s \in Streams |-> "idle"]
  /\ mem = [s \in Streams |-> "none"]
  /\ chunks = [s \in Streams |-> <<>>]
  /\ closed = [s \in Streams |-> FALSE]
  /\ listed = {}
  /\ wire = [s \in Streams |-> <<>>]
  /\ target = [p \in Producers |-> NoStream]
  /\ pc = [p \in Producers |-> "none"]
  /\ sent = [p \in Producers |-> 0]
  /\ stop = "run"
  /\ unmarked = {}

\* sse_mutex is held across steps only by the loop of stop().
SseMutexFree == stop # "mark"

\* MHD_resume_connection: no effect on a connection that is not suspended.
Resumed(s) == [conn EXCEPT ![s] = IF @ = "suspended" THEN "reading" ELSE @]

-----------------------------------------------------------------------------
(* The connection: request handler, content reader, release.              *)

\* The sse_stream block of the request handler: wf_sse_stream_new and
\* wf_sse_register, then the user handler runs.
Open(s) ==
  /\ conn[s] = "idle"
  /\ stop # "stopped"
  /\ SseMutexFree
  /\ conn' = [conn EXCEPT ![s] = "handler"]
  /\ mem' = [mem EXCEPT ![s] = "live"]
  /\ listed' = listed \cup {s}
  /\ UNCHANGED <<chunks, closed, wire, prodVars, stopVars>>

\* The user handler spawns a producer and hands it the stream.
Spawn(s, p) ==
  /\ conn[s] = "handler"
  /\ pc[p] = "none"
  /\ pc' = [pc EXCEPT ![p] = "ready"]
  /\ target' = [target EXCEPT ![p] = s]
  /\ UNCHANGED <<connVars, sent, stopVars>>

\* wf_sse_stream_free: leave the list, drop the buffered chunks, free.
Freed(s) ==
  /\ SseMutexFree
  /\ conn' = [conn EXCEPT ![s] = "ended"]
  /\ mem' = [mem EXCEPT ![s] = "freed"]
  /\ chunks' = [chunks EXCEPT ![s] = <<>>]
  /\ listed' = listed \ {s}

\* The handler returned: the response is created and queued, or it cannot be
\* and the stream is freed at once.
Respond(s) ==
  /\ conn[s] = "handler"
  /\ \/ /\ conn' = [conn EXCEPT ![s] = "reading"]
        /\ UNCHANGED <<mem, chunks, listed>>
     \/ Freed(s)
  /\ UNCHANGED <<closed, wire, prodVars, stopVars>>

\* Mutant: a chunk that was only partly copied is dropped.
ReadChunksDropping(s) ==
  /\ conn[s] = "reading"
  /\ \E n \in 1..Len(chunks[s]) :
       /\ wire' = [wire EXCEPT ![s] = @ \o SubSeq(chunks[s], 1, n)]
       /\ chunks' = [chunks EXCEPT ![s] = SubSeq(@, n + 2, Len(@))]
  /\ UNCHANGED <<conn, mem, closed, listed, prodVars, stopVars>>

\* wf_sse_content_reader, data present: some frames from the head of the queue
\* are copied out.
ReadChunks(s) ==
  /\ conn[s] = "reading"
  /\ \E n \in 1..Len(chunks[s]) :
       /\ wire' = [wire EXCEPT ![s] = @ \o SubSeq(chunks[s], 1, n)]
       /\ chunks' = [chunks EXCEPT ![s] = SubSeq(@, n + 1, Len(@))]
  /\ UNCHANGED <<conn, mem, closed, listed, prodVars, stopVars>>

\* Mutant: the suspend comes after the mutex is released, on a stale look.
ReadSuspendUnlocked(s) ==
  /\ conn[s] = "reading"
  /\ conn' = [conn EXCEPT ![s] = "suspended"]
  /\ UNCHANGED <<mem, chunks, closed, listed, wire, prodVars, stopVars>>

\* wf_sse_content_reader, nothing to send: suspend under the stream mutex.
ReadSuspend(s) ==
  /\ conn[s] = "reading"
  /\ chunks[s] = <<>>
  /\ ~closed[s]
  /\ conn' = [conn EXCEPT ![s] = "suspended"]
  /\ UNCHANGED <<mem, chunks, closed, listed, wire, prodVars, stopVars>>

\* wf_sse_content_reader, nothing to send and closed: end of stream; MHD
\* destroys the response, which frees the stream.
ReadEnd(s) ==
  /\ conn[s] = "reading"
  /\ chunks[s] = <<>>
  /\ closed[s]
  /\ Freed(s)
  /\ UNCHANGED <<closed, wire, prodVars, stopVars>>

\* A write to the client fails, or MHD_stop_daemon unwinds the connection: the
\* response is destroyed whatever is still buffered.
Drop(s) ==
  /\ conn[s] = "reading" \/ (stop = "daemon" /\ conn[s] = "suspended")
  /\ Freed(s)
  /\ UNCHANGED <<closed, wire, prodVars, stopVars>>

ConnStep(s) ==
  Respond(s) \/ ReadChunks(s) \/ ReadSuspend(s) \/ ReadEnd(s)

-----------------------------------------------------------------------------
(* Producers.                                                              *)

\* A call on a freed stream is undefined, and the model lets the producer end
\* there.
UseFreed(p) ==
  /\ pc[p] \in {"ready", "append", "resume", "closing"}
  /\ mem[target[p]] = "freed"
  /\ pc' = [pc EXCEPT ![p] = "done"]
  /\ UNCHANGED <<connVars, target, sent, stopVars>>

\* wf_xrpc_server_sse_send / _send_raw, entry: closed is read without the mutex.
SendCheck(p) ==
  /\ pc[p] = "ready"
  /\ mem[target[p]] = "live"
  /\ IF closed[target[p]]
     THEN pc' = [pc EXCEPT ![p] = "done"]
     ELSE sent[p] < MaxFrames /\ pc' = [pc EXCEPT ![p] = "append"]
  /\ UNCHANGED <<connVars, target, sent, stopVars>>

\* wf_sse_append_locked under the stream mutex; an allocation failure ends the
\* call without queueing anything.
SendAppend(p) ==
  LET s == target[p] IN
  /\ pc[p] = "append"
  /\ mem[s] = "live"
  /\ \/ /\ chunks' = [chunks EXCEPT ![s] = Append(@, <<p, sent[p] + 1>>)]
        /\ sent' = [sent EXCEPT ![p] = @ + 1]
        /\ pc' = [pc EXCEPT ![p] = "resume"]
     \/ /\ pc' = [pc EXCEPT ![p] = "ready"]
        /\ UNCHANGED <<chunks, sent>>
  /\ UNCHANGED <<conn, mem, closed, listed, wire, target, stopVars>>

\* MHD_resume_connection(s->conn), after the mutex was released.
SendResume(p) ==
  /\ pc[p] = "resume"
  /\ mem[target[p]] = "live"
  /\ conn' = Resumed(target[p])
  /\ pc' = [pc EXCEPT ![p] = "ready"]
  /\ UNCHANGED <<mem, chunks, closed, listed, wire, target, sent, stopVars>>

\* wf_xrpc_server_sse_close up to the release of the mutex.
CloseMark(p) ==
  LET s == target[p] IN
  /\ pc[p] = "ready"
  /\ mem[s] = "live"
  /\ IF closed[s]
     THEN /\ pc' = [pc EXCEPT ![p] = "done"]
          /\ UNCHANGED closed
     ELSE /\ closed' = [closed EXCEPT ![s] = TRUE]
          /\ pc' = [pc EXCEPT ![p] = "closing"]
  /\ UNCHANGED <<conn, mem, chunks, listed, wire, target, sent, stopVars>>

\* Mutant: a close does not resume the connection.
CloseResumeForgotten(p) ==
  /\ pc[p] = "closing"
  /\ mem[target[p]] = "live"
  /\ pc' = [pc EXCEPT ![p] = "ready"]
  /\ UNCHANGED <<connVars, target, sent, stopVars>>

\* wf_xrpc_server_sse_close, MHD_resume_connection.
CloseResume(p) ==
  /\ pc[p] = "closing"
  /\ mem[target[p]] = "live"
  /\ conn' = Resumed(target[p])
  /\ pc' = [pc EXCEPT ![p] = "ready"]
  /\ UNCHANGED <<mem, chunks, closed, listed, wire, target, sent, stopVars>>

ProdStep(p) ==
  UseFreed(p) \/ SendCheck(p) \/ SendAppend(p) \/ SendResume(p)
    \/ CloseMark(p) \/ CloseResume(p)

-----------------------------------------------------------------------------
(* wf_xrpc_server_stop.                                                    *)

StopBegin ==
  /\ stop = "run"
  /\ stop' = "mark"
  /\ unmarked' = listed
  /\ UNCHANGED <<connVars, prodVars>>

\* One turn of the loop under sse_mutex: closed, then resume.
StopMark(s) ==
  /\ stop = "mark"
  /\ s \in unmarked
  /\ unmarked' = unmarked \ {s}
  /\ closed' = [closed EXCEPT ![s] = TRUE]
  /\ conn' = Resumed(s)
  /\ UNCHANGED <<mem, chunks, listed, wire, prodVars, stop>>

\* sse_mutex is released; the WebSocket workers are joined next (WsServer).
StopMarked ==
  /\ stop = "mark"
  /\ unmarked = {}
  /\ stop' = "ws"
  /\ UNCHANGED <<connVars, prodVars, unmarked>>

\* MHD_stop_daemon is called ...
StopDaemon ==
  /\ stop = "ws"
  /\ stop' = "daemon"
  /\ UNCHANGED <<connVars, prodVars, unmarked>>

\* ... and returns once no connection is left.
StopReturn ==
  /\ stop = "daemon"
  /\ \A s \in Streams : conn[s] \in {"idle", "ended"}
  /\ stop' = "stopped"
  /\ UNCHANGED <<connVars, prodVars, unmarked>>

StopStep ==
  StopBegin \/ StopMarked \/ StopDaemon \/ StopReturn
    \/ \E s \in Streams : StopMark(s)

Terminated == stop = "stopped" /\ UNCHANGED vars

Next ==
  \/ \E s \in Streams : Open(s) \/ ConnStep(s) \/ Drop(s)
  \/ \E s \in Streams, p \in Producers : Spawn(s, p)
  \/ \E p \in Producers : ProdStep(p)
  \/ StopStep
  \/ Terminated

Spec == Init /\ [][Next]_vars

\* MHD serves a connection that is not suspended, and a call of a producer
\* that has begun runs to its end.  No producer is assumed to send or close.
Fairness ==
  /\ \A s \in Streams : WF_vars(ConnStep(s))
  /\ \A p \in Producers : WF_vars(SendAppend(p) \/ SendResume(p) \/ CloseResume(p))
  /\ WF_vars(stop # "run" /\ StopStep)

FairSpec == Spec /\ Fairness

-----------------------------------------------------------------------------
\* A connection is never left suspended with something to do: when frames are
\* queued or the stream is closed, some call that will resume it has not got
\* there yet.  This is what calling MHD_suspend_connection under the stream
\* mutex is for.
NoLostWakeup ==
  \A s \in Streams :
    conn[s] = "suspended" /\ (chunks[s] # <<>> \/ closed[s]) =>
      \E p \in Producers : target[p] = s /\ pc[p] \in {"resume", "closing"}

\* What the client was sent, and what is still to be sent to it.
Stream(s) == wire[s] \o chunks[s]

\* In a sequence of frames, those of one producer are in the order of their
\* numbers and none is there twice; and none is missing before another.
Ascending(q) ==
  \A i, j \in 1..Len(q) : i < j /\ q[i][1] = q[j][1] => q[i][2] < q[j][2]

Gapless(q) ==
  \A j \in 1..Len(q) : \A n \in 1..(q[j][2] - 1) :
    \E i \in 1..(j - 1) : q[i] = <<q[j][1], n>>

\* The frames of one producer reach the client in the order of its sends, none
\* missing in between and none twice, whatever the other producers do; until
\* the connection ends all of them are on the wire or in the queue.
DeliveredInOrder ==
  \A s \in Streams :
    /\ Ascending(Stream(s)) /\ Gapless(Stream(s))
    /\ \A i \in 1..Len(Stream(s)) : Stream(s)[i][2] <= sent[Stream(s)[i][1]]
    /\ conn[s] # "ended" =>
         \A p \in Producers : target[p] = s =>
           \A n \in 1..sent[p] : \E i \in 1..Len(Stream(s)) : Stream(s)[i] = <<p, n>>

\* The loop of stop() only ever touches streams that are still allocated.  No
\* run checks it, SseProofs proves it.
StopWalksLive == \A s \in listed \cup unmarked : mem[s] = "live"

\* A stream that is closed, by a producer or by stop(), ends.
ClosedEnds ==
  \A s \in Streams : closed[s] ~> conn[s] = "ended"

\* The comment in wf_xrpc_server_stop: "Resume and mark any still-suspended SSE
\* connections for closure so the daemon can finish draining them": no
\* connection is suspended when MHD_stop_daemon runs.  It does not hold for a
\* stream opened behind the pass of stop().  No run checks it.
NoneSuspendedAtStop ==
  stop = "daemon" => \A s \in Streams : conn[s] # "suspended"
=============================================================================
