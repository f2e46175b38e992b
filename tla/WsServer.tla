------------------------------ MODULE WsServer ------------------------------
(***************************************************************************)
(* Life cycle of the WebSocket upgrades of the XRPC server: the handshake   *)
(* that queues the 101 response, the hand-over of the socket by             *)
(* libmicrohttpd (MHD), the upgrade worker thread that serves it, the       *)
(* producer threads the user handler spawns, and wf_xrpc_server_stop /      *)
(* wf_xrpc_server_free running against all of them                          *)
(* (src/server/xrpc_server_ws.c, src/server/xrpc_server.c).                 *)
(*                                                                          *)
(* A connection carries at most one upgrade, so a connection also names its *)
(* wf_xrpc_ws_stream and its wf_ws_upgrade_ctx.  A critical section is one  *)
(* step, except the loop of stop() that keeps ws_mutex while it takes the   *)
(* mutex of one stream after the other.                                     *)
(***************************************************************************)
EXTENDS Naturals, FiniteSets

CONSTANTS Conns,     \* connections that ask for an upgrade
          Producers, \* threads a handler may spawn on a retained stream
          NoConn     \* a producer that holds no stream, a join that waits for none

ASSUME ConnsAssumption == IsFiniteSet(Conns) /\ NoConn \notin Conns
ASSUME ProducersAssumption == IsFiniteSet(Producers)

VARIABLES
  up,           \* [Conns -> UpPc]: the MHD side of the upgrade
  ctx,          \* [Conns -> Mem]: the wf_ws_upgrade_ctx
  mem,          \* [Conns -> Mem]: the wf_xrpc_ws_stream
  pending,      \* server->ws_pending
  unrecorded,   \* upgrades whose pending record could not be allocated
  wk,           \* [Conns -> WkPc]: wf_ws_serve_thread
  thread,       \* [Conns -> ThreadState]: the pthread of the worker
  threadReady,  \* stream->thread_ready
  closed,       \* stream->closed
  workerRefs,   \* stream->worker_refs
  hold,         \* [Producers -> Conns \cup {NoConn}]: who retained what
  sock,         \* [Conns -> SockState]: the upgraded descriptor
  reaped,       \* stream->reaped
  wsStreams,    \* server->ws_streams, as a set: only its members matter
  wsStopping,   \* server->ws_stopping
  wsClosing,    \* server->ws_closing
  unmarked,     \* streams the loop of stop() has yet to mark; it holds ws_mutex
  stop,         \* program counter of the thread in stop() / free()
  joining,      \* the stream whose worker stop() is joining
  daemon        \* the MHD daemon

streamVars == <<ctx, mem, threadReady, closed, workerRefs, reaped>>
serverVars == <<pending, unrecorded, wsStreams, wsStopping, wsClosing>>
stopVars   == <<unmarked, stop, joining, daemon>>
vars == <<up, wk, thread, hold, sock, streamVars, serverVars, stopVars>>

Mem         == {"none", "live", "freed"}
UpPc        == {"idle", "queued", "taken", "refused", "published", "gone"}
WkPc        == {"none", "spawned", "parked", "handler", "loop", "poll", "drain",
                "wait", "unlink", "linger", "action", "uncount", "finish", "done"}
ThreadState == {"none", "joinable", "joined", "detached"}
SockState   == {"mhd", "open", "shut", "closed"}
StopPc      == {"run", "mark", "pop", "join", "closing", "daemon", "stopped",
                "freed"}

Init ==
  /\ up = [c \in Conns |-> "idle"]
  /\ ctx = [c \in Conns |-> "none"]
  /\ mem = [c \in Conns |-> "none"]
  /\ pending = {}
  /\ unrecorded = {}
  /\ wk = [c \in Conns |-> "none"]
  /\ thread = [c \in Conns |-> "none"]
  /\ threadReady = [c \in Conns |-> FALSE]
  /\ closed = [c \in Conns |-> FALSE]
  /\ workerRefs = [c \in Conns |-> 0]
  /\ hold = [p \in Producers |-> NoConn]
  /\ sock = [c \in Conns |-> "mhd"]
  /\ reaped = [c \in Conns |-> FALSE]
  /\ wsStreams = {}
  /\ wsStopping = FALSE
  /\ wsClosing = 0
  /\ unmarked = {}
  /\ stop = "run"
  /\ joining = NoConn
  /\ daemon = "up"

\* ws_mutex is held across steps only by the marking loop of stop().
WsMutexFree == stop # "mark"

\* Threads of MHD run callbacks until MHD_stop_daemon has returned.
MhdRuns == daemon = "up"

-----------------------------------------------------------------------------
(* The MHD side: handshake, connection close, upgrade handler.             *)

\* wf_server_ws_handshake: every validation and allocation failure frees what
\* was built and answers MHD_NO; otherwise the stream and its context exist and
\* the 101 response is queued.  The record of the pending upgrade is allocated
\* last, and its allocation may fail on its own.
Handshake(c) ==
  /\ up[c] = "idle"
  /\ MhdRuns
  /\ WsMutexFree
  /\ \/ /\ up' = [up EXCEPT ![c] = "gone"]
        /\ UNCHANGED <<ctx, mem, pending, unrecorded>>
     \/ /\ up' = [up EXCEPT ![c] = "queued"]
        /\ ctx' = [ctx EXCEPT ![c] = "live"]
        /\ mem' = [mem EXCEPT ![c] = "live"]
        /\ \/ pending' = pending \cup {c} /\ UNCHANGED unrecorded
           \/ unrecorded' = unrecorded \cup {c} /\ UNCHANGED pending
  /\ UNCHANGED <<wk, thread, hold, sock, threadReady, closed, workerRefs,
                 reaped, wsStreams, wsStopping, wsClosing, stopVars>>

\* wf_ws_discard_upgrade: the context and the half-built stream are released.
Discard(c) ==
  /\ ctx' = [ctx EXCEPT ![c] = "freed"]
  /\ mem' = [mem EXCEPT ![c] = "freed"]

\* wf_ws_notify_connection(CLOSED) for a connection that was never handed over:
\* the client vanished, or the response could not be queued or sent.
ConnectionClosed(c) ==
  /\ up[c] = "queued"
  /\ MhdRuns
  /\ WsMutexFree
  /\ up' = [up EXCEPT ![c] = "gone"]
  /\ pending' = pending \ {c}
  /\ IF c \in pending THEN Discard(c) ELSE UNCHANGED <<ctx, mem>>
  /\ UNCHANGED <<wk, thread, hold, sock, threadReady, closed, workerRefs,
                 reaped, unrecorded, wsStreams, wsStopping, wsClosing, stopVars>>

\* wf_ws_upgrade_handler, entry: claim the pending record.  With an invalid
\* socket the upgrade is refused before anything is spawned.
UpgradeTake(c) ==
  /\ up[c] = "queued"
  /\ MhdRuns
  /\ WsMutexFree
  /\ pending' = pending \ {c}
  /\ \/ /\ up' = [up EXCEPT ![c] = "taken"]
        /\ sock' = [sock EXCEPT ![c] = "open"]
     \/ /\ up' = [up EXCEPT ![c] = "refused"]
        /\ UNCHANGED sock
  /\ UNCHANGED <<wk, thread, hold, streamVars, unrecorded, wsStreams,
                 wsStopping, wsClosing, stopVars>>

\* wf_ws_upgrade_handler, the ws_mutex section: refuse when teardown has
\* started or no thread can be created; otherwise spawn the worker, store its
\* id and list the stream, all under one hold of ws_mutex.
UpgradePublish(c) ==
  /\ up[c] = "taken"
  /\ WsMutexFree
  /\ \/ /\ up' = [up EXCEPT ![c] = "refused"]
        /\ UNCHANGED <<wk, thread, wsStreams>>
     \/ /\ ~wsStopping
        /\ up' = [up EXCEPT ![c] = "published"]
        /\ wk' = [wk EXCEPT ![c] = "spawned"]
        /\ thread' = [thread EXCEPT ![c] = "joinable"]
        /\ wsStreams' = wsStreams \cup {c}
  /\ UNCHANGED <<hold, sock, streamVars, pending, unrecorded, wsStopping,
                 wsClosing, stopVars>>

\* wf_ws_upgrade_handler, the refusal: MHD_upgrade_action(CLOSE), then free.
UpgradeRefuse(c) ==
  /\ up[c] = "refused"
  /\ up' = [up EXCEPT ![c] = "gone"]
  /\ sock' = [sock EXCEPT ![c] = "closed"]
  /\ Discard(c)
  /\ UNCHANGED <<wk, thread, hold, threadReady, closed, workerRefs, reaped,
                 serverVars, stopVars>>

\* Mutant: the worker is never released.
UpgradeReadyForgotten(c) ==
  /\ up[c] = "published"
  /\ up' = [up EXCEPT ![c] = "gone"]
  /\ UNCHANGED <<wk, thread, hold, sock, streamVars, serverVars, stopVars>>

\* wf_ws_upgrade_handler, last step: release the worker parked on thread_ready.
UpgradeReady(c) ==
  /\ up[c] = "published"
  /\ up' = [up EXCEPT ![c] = "gone"]
  /\ threadReady' = [threadReady EXCEPT ![c] = TRUE]
  /\ UNCHANGED <<wk, thread, hold, sock, ctx, mem, closed, workerRefs, reaped,
                 serverVars, stopVars>>

MhdStep(c) ==
  Handshake(c) \/ ConnectionClosed(c) \/ UpgradeTake(c) \/ UpgradePublish(c)
    \/ UpgradeRefuse(c) \/ UpgradeReady(c)

-----------------------------------------------------------------------------
(* The upgrade worker, wf_ws_serve_thread, and the user handler it calls.  *)

\* The worker moves on and changes nothing but what its step names.
GoTo(c, from, to) ==
  /\ wk[c] = from
  /\ wk' = [wk EXCEPT ![c] = to]

\* First act: copy the request out of the context and free the context.
WorkerSpawned(c) ==
  /\ GoTo(c, "spawned", "parked")
  /\ ctx' = [ctx EXCEPT ![c] = "freed"]
  /\ UNCHANGED <<up, thread, hold, sock, mem, threadReady, closed, workerRefs,
                 reaped, serverVars, stopVars>>

\* Mutant: the worker runs ahead of the store of thread_ready.
WorkerUnparkEarly(c) ==
  /\ GoTo(c, "parked", "handler")
  /\ UNCHANGED <<up, thread, hold, sock, streamVars, serverVars, stopVars>>

\* Wait on worker_cond until the spawning thread has set thread_ready.
WorkerUnpark(c) ==
  /\ threadReady[c]
  /\ GoTo(c, "parked", "handler")
  /\ UNCHANGED <<up, thread, hold, sock, streamVars, serverVars, stopVars>>

\* The threads that may call into stream c: its handler, and its producers.
InUse(c) == wk[c] = "handler" \/ \E p \in Producers : hold[p] = c

\* wf_xrpc_server_ws_retain on behalf of producer p, before p is spawned;
\* refused once the stream is closing.
Retain(c, p) ==
  /\ InUse(c)
  /\ hold[p] = NoConn
  /\ ~closed[c]
  /\ workerRefs' = [workerRefs EXCEPT ![c] = @ + 1]
  /\ hold' = [hold EXCEPT ![p] = c]
  /\ UNCHANGED <<up, wk, thread, sock, ctx, mem, threadReady, closed, reaped,
                 serverVars, stopVars>>

\* wf_xrpc_server_ws_close: no-op when already closed.
Close(c) ==
  /\ InUse(c)
  /\ ~closed[c]
  /\ closed' = [closed EXCEPT ![c] = TRUE]
  /\ UNCHANGED <<up, wk, thread, hold, sock, ctx, mem, threadReady, workerRefs,
                 reaped, serverVars, stopVars>>

\* wf_xrpc_server_ws_release by producer p; the broadcast at zero is what
\* WorkerDrained waits for.
Release(p) ==
  /\ hold[p] # NoConn
  /\ hold' = [hold EXCEPT ![p] = NoConn]
  /\ workerRefs' = [workerRefs EXCEPT ![hold[p]] = IF @ > 0 THEN @ - 1 ELSE @]
  /\ UNCHANGED <<up, wk, thread, sock, ctx, mem, threadReady, closed, reaped,
                 serverVars, stopVars>>

HandlerReturn(c) ==
  /\ GoTo(c, "handler", "loop")
  /\ UNCHANGED <<up, thread, hold, sock, streamVars, serverVars, stopVars>>

\* Mutant: the loop does not re-check closed after a time-out.
LoopCheckBlind(c) ==
  /\ GoTo(c, "loop", "poll")
  /\ UNCHANGED <<up, thread, hold, sock, streamVars, serverVars, stopVars>>

\* Head of the control-frame loop: leave once closed is seen.
LoopCheck(c) ==
  /\ GoTo(c, "loop", IF closed[c] THEN "drain" ELSE "poll")
  /\ UNCHANGED <<up, thread, hold, sock, streamVars, serverVars, stopVars>>

\* Rest of the loop body: a poll timeout, a ping or a data frame go round; a
\* close frame marks the stream closed and leaves, an error or end of file on
\* the socket just leaves.  After stop() has shut the socket down a read fails.
LoopPoll(c) ==
  /\ \/ /\ sock[c] = "open"
        /\ GoTo(c, "poll", "loop")
        /\ UNCHANGED closed
     \/ /\ sock[c] = "open"
        /\ GoTo(c, "poll", "drain")
        /\ closed' = [closed EXCEPT ![c] = TRUE]
     \/ /\ GoTo(c, "poll", "drain")
        /\ UNCHANGED closed
  /\ UNCHANGED <<up, thread, hold, sock, ctx, mem, threadReady, workerRefs,
                 reaped, serverVars, stopVars>>

\* After the loop: closed is set, which refuses further retains ...
WorkerDrain(c) ==
  /\ GoTo(c, "drain", "wait")
  /\ closed' = [closed EXCEPT ![c] = TRUE]
  /\ UNCHANGED <<up, thread, hold, sock, ctx, mem, threadReady, workerRefs,
                 reaped, serverVars, stopVars>>

\* ... and the worker waits on worker_cond for worker_refs to reach zero.
WorkerDrained(c) ==
  /\ workerRefs[c] = 0
  /\ GoTo(c, "wait", "unlink")
  /\ UNCHANGED <<up, thread, hold, sock, streamVars, serverVars, stopVars>>

\* Leave the list and, in the same ws_mutex section, learn who joins this
\* thread: a worker that stop() has not claimed is counted in ws_closing.
WorkerUnlink(c) ==
  /\ WsMutexFree
  /\ GoTo(c, "unlink", "linger")
  /\ wsStreams' = wsStreams \ {c}
  /\ wsClosing' = IF reaped[c] THEN wsClosing ELSE wsClosing + 1
  /\ UNCHANGED <<up, thread, hold, sock, streamVars, pending, unrecorded,
                 wsStopping, stopVars>>

\* wf_ws_shutdown_gracefully: half-close and drain, bounded by WS_LINGER_MS.
WorkerLinger(c) ==
  /\ GoTo(c, "linger", "action")
  /\ sock' = [sock EXCEPT ![c] = "shut"]
  /\ UNCHANGED <<up, thread, hold, streamVars, serverVars, stopVars>>

\* MHD_upgrade_action(CLOSE): closes the descriptor, whose number the kernel
\* may give to another connection at once.
WorkerAction(c) ==
  /\ GoTo(c, "action", IF reaped[c] THEN "finish" ELSE "uncount")
  /\ sock' = [sock EXCEPT ![c] = "closed"]
  /\ UNCHANGED <<up, thread, hold, streamVars, serverVars, stopVars>>

\* The last touch of the server by a worker that stop() does not join.
WorkerUncount(c) ==
  /\ WsMutexFree
  /\ GoTo(c, "uncount", "finish")
  /\ wsClosing' = wsClosing - 1
  /\ UNCHANGED <<up, thread, hold, sock, streamVars, pending, unrecorded,
                 wsStreams, wsStopping, stopVars>>

\* Mutant: the worker detaches although stop() has claimed its join.
WorkerFinishDetached(c) ==
  /\ GoTo(c, "finish", "done")
  /\ thread' = [thread EXCEPT ![c] = "detached"]
  /\ mem' = [mem EXCEPT ![c] = "freed"]
  /\ UNCHANGED <<up, hold, sock, ctx, threadReady, closed, workerRefs, reaped,
                 serverVars, stopVars>>

\* Detach unless claimed, free the request copy and the stream, return.
WorkerFinish(c) ==
  /\ GoTo(c, "finish", "done")
  /\ thread' = [thread EXCEPT ![c] = IF reaped[c] THEN @ ELSE "detached"]
  /\ mem' = [mem EXCEPT ![c] = "freed"]
  /\ UNCHANGED <<up, hold, sock, ctx, threadReady, closed, workerRefs, reaped,
                 serverVars, stopVars>>

WorkerStep(c) ==
  WorkerSpawned(c) \/ WorkerUnpark(c) \/ HandlerReturn(c) \/ LoopCheck(c)
    \/ LoopPoll(c) \/ WorkerDrain(c) \/ WorkerDrained(c) \/ WorkerUnlink(c)
    \/ WorkerLinger(c) \/ WorkerAction(c) \/ WorkerUncount(c) \/ WorkerFinish(c)

-----------------------------------------------------------------------------
(* wf_xrpc_server_stop and wf_xrpc_server_free, on the owner's thread.     *)

\* Take ws_mutex, latch ws_stopping; the loop over the list follows.
StopBegin ==
  /\ stop = "run"
  /\ stop' = "mark"
  /\ wsStopping' = TRUE
  /\ unmarked' = wsStreams
  /\ UNCHANGED <<up, wk, thread, hold, sock, streamVars, pending, unrecorded,
                 wsStreams, wsClosing, joining, daemon>>

\* One turn of the marking loop: closed under the stream's mutex, then
\* shutdown(SHUT_RDWR) to wake the worker's poll.
StopMark(c) ==
  /\ stop = "mark"
  /\ c \in unmarked
  /\ unmarked' = unmarked \ {c}
  /\ closed' = [closed EXCEPT ![c] = TRUE]
  /\ sock' = [sock EXCEPT ![c] = "shut"]
  /\ UNCHANGED <<up, wk, thread, hold, ctx, mem, threadReady, workerRefs,
                 reaped, serverVars, stop, joining, daemon>>

\* The loop is through: ws_mutex is released.
StopMarked ==
  /\ stop = "mark"
  /\ unmarked = {}
  /\ stop' = "pop"
  /\ UNCHANGED <<up, wk, thread, hold, sock, streamVars, serverVars, unmarked,
                 joining, daemon>>

\* Pop one listed stream and claim the join of its worker.
StopPop(c) ==
  /\ stop = "pop"
  /\ c \in wsStreams
  /\ wsStreams' = wsStreams \ {c}
  /\ reaped' = [reaped EXCEPT ![c] = TRUE]
  /\ joining' = c
  /\ stop' = "join"
  /\ UNCHANGED <<up, wk, thread, hold, sock, ctx, mem, threadReady, closed,
                 workerRefs, pending, unrecorded, wsStopping, wsClosing,
                 unmarked, daemon>>

\* pthread_join returns once the worker has returned.
StopJoin ==
  /\ stop = "join"
  /\ wk[joining] = "done"
  /\ thread' = [thread EXCEPT ![joining] = "joined"]
  /\ joining' = NoConn
  /\ stop' = "pop"
  /\ UNCHANGED <<up, wk, hold, sock, streamVars, serverVars, unmarked, daemon>>

\* The list is empty: go and wait for the workers counted in ws_closing.
StopPopped ==
  /\ stop = "pop"
  /\ wsStreams = {}
  /\ stop' = "closing"
  /\ UNCHANGED <<up, wk, thread, hold, sock, streamVars, serverVars, unmarked,
                 joining, daemon>>

\* Mutant: the daemon is stopped without waiting for ws_closing.
StopClosingAtOnce ==
  /\ stop = "closing"
  /\ stop' = "daemon"
  /\ UNCHANGED <<up, wk, thread, hold, sock, streamVars, serverVars, unmarked,
                 joining, daemon>>

\* ws_closing has reached zero; call MHD_stop_daemon.
StopClosing ==
  /\ stop = "closing"
  /\ wsClosing = 0
  /\ stop' = "daemon"
  /\ UNCHANGED <<up, wk, thread, hold, sock, streamVars, serverVars, unmarked,
                 joining, daemon>>

\* MHD_stop_daemon returns: no thread of MHD is inside a callback any more.
\* Upgrades still queued may or may not have been notified as closed.
StopDaemon ==
  /\ stop = "daemon"
  /\ \A c \in Conns : up[c] \in {"idle", "queued", "gone"}
  /\ daemon' = "down"
  /\ stop' = "stopped"
  /\ UNCHANGED <<up, wk, thread, hold, sock, streamVars, serverVars, unmarked,
                 joining>>

\* wf_xrpc_server_free: discard one upgrade that was never handed over.
FreePending(c) ==
  /\ stop = "stopped"
  /\ c \in pending
  /\ pending' = pending \ {c}
  /\ Discard(c)
  /\ UNCHANGED <<up, wk, thread, hold, sock, threadReady, closed, workerRefs,
                 reaped, unrecorded, wsStreams, wsStopping, wsClosing, stopVars>>

\* wf_xrpc_server_free: routes, locks and the server itself are freed.
FreeServer ==
  /\ stop = "stopped"
  /\ pending = {}
  /\ stop' = "freed"
  /\ UNCHANGED <<up, wk, thread, hold, sock, streamVars, serverVars, unmarked,
                 joining, daemon>>

StopStep ==
  StopBegin \/ StopMarked \/ StopJoin \/ StopPopped \/ StopClosing
    \/ StopDaemon \/ FreeServer
    \/ \E c \in Conns : StopMark(c) \/ StopPop(c) \/ FreePending(c)

\* Everything has run to its end; the process may go on without the server.
Terminated ==
  /\ stop = "freed"
  /\ \A c \in Conns : wk[c] \in {"none", "done"}
  /\ UNCHANGED vars

Next ==
  \/ \E c \in Conns : MhdStep(c) \/ WorkerStep(c) \/ Close(c)
  \/ \E c \in Conns, p \in Producers : Retain(c, p)
  \/ \E p \in Producers : Release(p)
  \/ StopStep
  \/ Terminated

Spec == Init /\ [][Next]_vars

\* Threads that are scheduled keep running: the worker (its handler returns, its
\* polls and lingering are bounded by time-outs), a callback MHD is inside of,
\* and stop() once called.  A producer releases its stream some time after the
\* stream is closed: the contract of wf_xrpc_server_ws_retain.  Nothing is
\* assumed of clients, of MHD starting callbacks, or of stop() being called.
Fairness ==
  /\ \A c \in Conns : WF_vars(WorkerStep(c))
  /\ \A c \in Conns : WF_vars(UpgradePublish(c) \/ UpgradeRefuse(c) \/ UpgradeReady(c))
  /\ WF_vars(stop # "run" /\ StopStep)
  /\ \A p \in Producers :
       WF_vars(hold[p] # NoConn /\ closed[hold[p]] /\ Release(p))

FairSpec == Spec /\ Fairness

-----------------------------------------------------------------------------
TypeOK ==
  /\ up \in [Conns -> UpPc]
  /\ ctx \in [Conns -> Mem]
  /\ mem \in [Conns -> Mem]
  /\ pending \in SUBSET Conns
  /\ unrecorded \in SUBSET Conns
  /\ wk \in [Conns -> WkPc]
  /\ thread \in [Conns -> ThreadState]
  /\ threadReady \in [Conns -> BOOLEAN]
  /\ closed \in [Conns -> BOOLEAN]
  /\ workerRefs \in [Conns -> Nat]
  /\ hold \in [Producers -> Conns \cup {NoConn}]
  /\ sock \in [Conns -> SockState]
  /\ reaped \in [Conns -> BOOLEAN]
  /\ wsStreams \in SUBSET Conns
  /\ wsStopping \in BOOLEAN
  /\ wsClosing \in Nat
  /\ unmarked \in SUBSET Conns
  /\ stop \in StopPc
  /\ joining \in Conns \cup {NoConn}
  /\ daemon \in {"up", "down"}

\* The worker thread of c is running.
Serving(c) == wk[c] \notin {"none", "done"}

\* MHD or a thread of MHD is between the queued response and its hand-over.
HandingOver(c) == (up[c] = "queued" /\ daemon = "up") \/ up[c] \in {"taken", "refused"}

\* Somebody can still dereference the upgrade context, or the stream, of c.
ReachesCtx(c) == c \in pending \/ HandingOver(c) \/ wk[c] = "spawned"
ReachesStream(c) ==
  \/ c \in pending \cup wsStreams
  \/ HandingOver(c)
  \/ up[c] = "published"
  \/ Serving(c)
  \/ \E p \in Producers : hold[p] = c

\* Whoever can still reach a stream or its upgrade context finds it allocated:
\* the pending record, MHD holding the queued response, the upgrade handler up
\* to its last store (thread_ready), the list stop() walks, the worker up to its
\* own free, and every producer that has not released its reference.
NoUseAfterFree ==
  \A c \in Conns : /\ ReachesCtx(c) => ctx[c] = "live"
                   /\ ReachesStream(c) => mem[c] = "live"

\* Until a worker has made its MHD_upgrade_action call and its last use of the
\* server (ws_closing, or being joined), and while an upgrade handler runs, the
\* daemon is up and the server and its routes are not freed.
DaemonOutlivesWorkers ==
  \A c \in Conns :
    wk[c] \notin {"none", "finish", "done"} \/ up[c] \in {"taken", "refused", "published"}
      => daemon = "up" /\ stop \notin {"stopped", "freed"}

\* A stream is listed only while its descriptor is its own: the shutdown() of
\* stop() never hits a number the kernel has handed to another connection.
ListedOwnsSocket ==
  \A c \in wsStreams \cup unmarked : sock[c] \in {"open", "shut"}

\* Every worker thread is joined or detached, and never both: stop() joins only
\* a thread that will not detach itself, and no finished thread is left that
\* nobody will ever collect.
JoinedOrDetached ==
  /\ joining # NoConn => thread[joining] = "joinable" /\ reaped[joining]
  /\ \A c \in Conns :
       /\ thread[c] = "detached" => ~reaped[c]
       /\ wk[c] = "done" => thread[c] # "joinable" \/ joining = c

\* After wf_xrpc_server_free no upgrade is stranded: every context and stream
\* has been freed, except the stream a detached worker is about to free, and an
\* upgrade whose pending record could not be allocated.
NothingStranded ==
  stop = "freed" =>
    \A c \in Conns \ unrecorded :
      /\ ctx[c] # "live"
      /\ mem[c] = "live" => wk[c] = "finish"

\* Once the loop of stop() has found the list empty no stream is listed again,
\* whatever hand-over was in flight when stop() was called.
NoListingBehindStop ==
  stop \in {"closing", "daemon", "stopped", "freed"} => wsStreams = {}

-----------------------------------------------------------------------------
(* The inductive invariant behind the safety properties.                   *)

\* Where a worker is listed or claimed, and where it is counted in ws_closing.
Early == {"spawned", "parked", "handler", "loop", "poll", "drain", "wait", "unlink"}
Late  == {"linger", "action", "uncount"}
Counted    == {c \in Conns : wk[c] \in Late /\ ~reaped[c]}
Holders(c) == {p \in Producers : hold[p] = c}

\* Who owns the context and the stream of an upgrade on the MHD side.
UpgradeInv ==
  \A c \in Conns :
    /\ up[c] = "idle" => ctx[c] = "none" /\ mem[c] = "none"
    /\ up[c] \in {"idle", "queued", "taken", "refused"} => wk[c] = "none"
    /\ c \in pending => up[c] = "queued"
    /\ up[c] = "queued" /\ (c \in pending \/ daemon = "up")
         => ctx[c] = "live" /\ mem[c] = "live"
    /\ up[c] = "queued" /\ c \notin pending
         => c \in unrecorded \/ (ctx[c] = "freed" /\ mem[c] = "freed")
    /\ up[c] \in {"taken", "refused"} => ctx[c] = "live" /\ mem[c] = "live"
    /\ up[c] = "taken" => sock[c] = "open"
    /\ up[c] = "published" => wk[c] \in {"spawned", "parked"}
    /\ threadReady[c] => up[c] = "gone"
    /\ up[c] = "gone" /\ wk[c] = "none"
         => c \in unrecorded \/ (ctx[c] # "live" /\ mem[c] # "live")

\* What a worker owns at each point, and how its thread ends.
WorkerInv ==
  \A c \in Conns :
    /\ wk[c] = "none" => thread[c] = "none" /\ ~reaped[c]
    /\ wk[c] = "spawned" => ctx[c] = "live"
    /\ wk[c] \notin {"none", "spawned"} => ctx[c] = "freed"
    /\ Serving(c) => mem[c] = "live" /\ thread[c] = "joinable"
    /\ wk[c] \in Early => sock[c] \in {"open", "shut"}
    /\ wk[c] = "uncount" => ~reaped[c]
    /\ wk[c] = "done" => mem[c] = "freed"
    /\ wk[c] = "done" =>
         \/ ~reaped[c] /\ thread[c] = "detached"
         \/ reaped[c] /\ thread[c] = "joined"
         \/ reaped[c] /\ thread[c] = "joinable" /\ joining = c

\* The list, the claim of stop(), and the streams it has yet to mark.
ListInv ==
  /\ \A c \in wsStreams : wk[c] \in Early /\ ~reaped[c]
  /\ \A c \in Conns : wk[c] \in Early => c \in wsStreams \/ reaped[c]
  /\ \A c \in Conns : reaped[c] => joining = c \/ thread[c] = "joined"
  /\ joining # NoConn => /\ stop = "join"
                         /\ reaped[joining]
                         /\ thread[joining] = "joinable"
  /\ unmarked \subseteq wsStreams
  /\ unmarked # {} => stop = "mark"

\* The reference count is the number of producers, and none is left behind.
HoldInv ==
  /\ \A c \in Conns : workerRefs[c] = Cardinality(Holders(c))
  /\ \A p \in Producers : hold[p] # NoConn =>
       wk[hold[p]] \in {"handler", "loop", "poll", "drain", "wait"}

\* ws_closing is the number of workers that left the list unclaimed and may
\* still call into MHD or the server.
CountInv == wsClosing = Cardinality(Counted)

\* What each phase of stop() and free() has established.
StopInv ==
  /\ wsStopping <=> stop # "run"
  /\ stop \in {"closing", "daemon", "stopped", "freed"} => wsStreams = {}
  /\ stop \in {"daemon", "stopped", "freed"} =>
       \A c \in Conns : wk[c] \in {"none", "finish", "done"}
  /\ daemon = "down" <=> stop \in {"stopped", "freed"}
  /\ daemon = "down" => \A c \in Conns : up[c] \in {"idle", "queued", "gone"}
  /\ stop = "freed" => pending = {}

IndInv == TypeOK /\ UpgradeInv /\ WorkerInv /\ ListInv /\ HoldInv
            /\ CountInv /\ StopInv

-----------------------------------------------------------------------------
\* stop() returns, however many upgrades and workers it meets on its way.
StopReturns == stop # "run" ~> stop \in {"stopped", "freed"}

\* A closed stream that was handed over is freed, with or without stop().
ClosedIsFreed ==
  \A c \in Conns : closed[c] /\ Serving(c) ~> mem[c] = "freed"
=============================================================================
