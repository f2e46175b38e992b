------------------------------- MODULE MhdShim ------------------------------
(***************************************************************************)
(* The thread-per-connection HTTP daemon of src/server/mhd_shim.c, which    *)
(* replaces libmicrohttpd where that is not available: the acceptor, the    *)
(* connection threads, suspended readers, upgraded connections, and         *)
(* MHD_stop_daemon.                                                         *)
(*                                                                          *)
(* Parsing and formatting are abstracted to the outcome of a request.  A    *)
(* read of freed memory is not given a meaning: the model goes on as if it  *)
(* had been harmless, and the lifetime properties say where it happens.     *)
(***************************************************************************)
EXTENDS Naturals

CONSTANT Conns   \* connections that clients make

VARIABLES
  mem,        \* struct MHD_Connection: "none", "live", "freed"
  pc,         \* connection_main
  suspended,  \* conn->suspended
  open,       \* the socket: FALSE once shut down, so that no read blocks
  urh,        \* conn->urh.connection is set
  frees,      \* times the connection was freed
  list,       \* daemon->connections, whose order nothing depends on
  acceptor,   \* acceptor_main: "running" or "joined"
  stopping,   \* daemon->stopping
  stop,       \* MHD_stop_daemon
  daemon      \* struct MHD_Daemon: "live", "freed"

connVars == <<mem, pc, suspended, open, urh, frees>>
daemonVars == <<list, acceptor, stopping, stop, daemon>>
shimVars == <<connVars, daemonVars>>

\* connection_main: "read" may block in recv, "crc" runs the content reader,
\* "parked" waits on resume_cv, "upgrade" runs the upgrade handler.
Pc == {"none", "read", "handle", "crc", "check", "parked", "upgrade", "unlink",
       "finish", "done"}

ShimInit ==
  /\ mem = [c \in Conns |-> "none"]
  /\ pc = [c \in Conns |-> "none"]
  /\ suspended = [c \in Conns |-> FALSE]
  /\ open = [c \in Conns |-> TRUE]
  /\ urh = [c \in Conns |-> FALSE]
  /\ frees = [c \in Conns |-> 0]
  /\ list = {}
  /\ acceptor = "running"
  /\ stopping = FALSE
  /\ stop = "none"
  /\ daemon = "live"

ThreadTo(c, to) == pc' = [pc EXCEPT ![c] = to]

-----------------------------------------------------------------------------
(* The acceptor and a connection's thread.                                 *)

\* acceptor_main: the connection is listed before its thread exists.  It may be
\* past its last look at stopping when stop sets it.
Accept(c) ==
  /\ acceptor = "running"
  /\ mem[c] = "none"
  /\ mem' = [mem EXCEPT ![c] = "live"]
  /\ list' = list \cup {c}
  /\ ThreadTo(c, "read")
  /\ UNCHANGED <<suspended, open, urh, frees, acceptor, stopping, stop, daemon>>

\* pthread_create fails: unlisted, closed and freed again.
AcceptFail(c) ==
  /\ acceptor = "running"
  /\ mem[c] = "none"
  /\ mem' = [mem EXCEPT ![c] = "freed"]
  /\ frees' = [frees EXCEPT ![c] = @ + 1]
  /\ ThreadTo(c, "done")
  /\ UNCHANGED <<suspended, open, urh, daemonVars>>

\* The headers and the body arrive.
ReadRequest(c) ==
  /\ pc[c] = "read"
  /\ open[c]
  /\ ThreadTo(c, "handle")
  /\ UNCHANGED <<mem, suspended, open, urh, frees, daemonVars>>

\* A malformed request, or a client or a stop that ended the socket.
ReadFail(c) ==
  /\ pc[c] = "read"
  /\ ThreadTo(c, "unlink")
  /\ UNCHANGED <<mem, suspended, open, urh, frees, daemonVars>>

\* The last call of the handler queues a response: a buffer (or none), a
\* content reader, or an upgrade whose status line could be sent.
Handle(c) ==
  /\ pc[c] = "handle"
  /\ \/ ThreadTo(c, "unlink") /\ UNCHANGED urh
     \/ ThreadTo(c, "crc") /\ UNCHANGED urh
     \/ /\ ThreadTo(c, "upgrade")
        /\ urh' = [urh EXCEPT ![c] = TRUE]
  /\ UNCHANGED <<mem, suspended, open, frees, daemonVars>>

\* write_callback_body calls the content reader: data is written and it is
\* called again, the stream or the client ends, or the reader suspends the
\* connection and returns 0.
ReadBody(c) ==
  /\ pc[c] = "crc"
  /\ \/ ThreadTo(c, "unlink") /\ UNCHANGED suspended
     \/ /\ ThreadTo(c, "check")
        /\ suspended' = [suspended EXCEPT ![c] = TRUE]
  /\ UNCHANGED <<mem, open, urh, frees, daemonVars>>

\* The wait condition, under conn->lock; leaving the wait, stopping ends the body.
Check(c) ==
  /\ pc[c] = "check"
  /\ IF suspended[c] /\ ~stopping THEN ThreadTo(c, "parked")
     ELSE ThreadTo(c, IF stopping THEN "unlink" ELSE "crc")
  /\ UNCHANGED <<mem, suspended, open, urh, frees, daemonVars>>

\* MHD_resume_connection, called by a producer of the stream.
Resume(c) ==
  /\ suspended[c]
  /\ pc[c] \in {"check", "parked"}
  /\ suspended' = [suspended EXCEPT ![c] = FALSE]
  /\ IF pc[c] = "parked" THEN ThreadTo(c, "check") ELSE UNCHANGED pc
  /\ UNCHANGED <<mem, open, urh, frees, daemonVars>>

\* Mutant: every connection is left to its upgrade handle.
UnlinkLeaking(c) ==
  /\ pc[c] = "unlink"
  /\ list' = list \ {c}
  /\ ThreadTo(c, "done")
  /\ UNCHANGED <<mem, suspended, open, urh, frees, acceptor, stopping, stop, daemon>>

\* connection_unlink by an ordinary connection, and by an upgraded one, whose
\* thread then leaves it to MHD_upgrade_action.
Unlink(c) ==
  /\ pc[c] = "unlink"
  /\ list' = list \ {c}
  /\ ThreadTo(c, "finish")
  /\ UNCHANGED <<mem, suspended, open, urh, frees, acceptor, stopping, stop, daemon>>

UnlinkUpgraded(c) ==
  /\ pc[c] = "upgrade"
  /\ list' = list \ {c}
  /\ ThreadTo(c, "done")
  /\ UNCHANGED <<mem, suspended, open, urh, frees, acceptor, stopping, stop, daemon>>

\* connection_finish: calls back into the server through the daemon, then frees.
Finish(c) ==
  /\ pc[c] = "finish"
  /\ mem' = [mem EXCEPT ![c] = "freed"]
  /\ frees' = [frees EXCEPT ![c] = @ + 1]
  /\ ThreadTo(c, "done")
  /\ UNCHANGED <<suspended, open, urh, daemonVars>>

\* MHD_upgrade_action(CLOSE), by the upgrade handler that refuses the stream or
\* by the worker it has handed the stream to, which runs at once.
UpgradeClose(c) ==
  /\ urh[c]
  /\ urh' = [urh EXCEPT ![c] = FALSE]
  /\ mem' = [mem EXCEPT ![c] = "freed"]
  /\ frees' = [frees EXCEPT ![c] = @ + 1]
  /\ UNCHANGED <<pc, suspended, open, daemonVars>>

-----------------------------------------------------------------------------
(* MHD_stop_daemon.                                                        *)

StopBegin ==
  /\ stop = "none"
  /\ stopping' = TRUE
  /\ stop' = "join"
  /\ UNCHANGED <<connVars, list, acceptor, daemon>>

\* Mutant: stop does not wait for the acceptor.
StopJoinSkipped ==
  /\ stop = "join"
  /\ stop' = "wake"
  /\ UNCHANGED <<connVars, list, acceptor, stopping, daemon>>

StopJoin ==
  /\ stop = "join"
  /\ acceptor' = "joined"
  /\ stop' = "wake"
  /\ UNCHANGED <<connVars, list, stopping, daemon>>

\* The listed connections, shut down and woken under daemon->lock.
StopWake ==
  /\ stop = "wake"
  /\ open' = [c \in Conns |-> open[c] /\ c \notin list]
  /\ suspended' = [c \in Conns |-> suspended[c] /\ c \notin list]
  /\ pc' = [c \in Conns |-> IF c \in list /\ pc[c] = "parked" THEN "check" ELSE pc[c]]
  /\ stop' = "poll"
  /\ UNCHANGED <<mem, urh, frees, list, acceptor, stopping, daemon>>

\* The daemon is freed once a poll has found the list empty, or after 200 polls
\* of 10 ms whatever it holds.
StopFree ==
  /\ stop = "poll"
  /\ daemon' = "freed"
  /\ stop' = "done"
  /\ UNCHANGED <<connVars, list, acceptor, stopping>>

Thread(c) ==
  ReadRequest(c) \/ Handle(c) \/ ReadBody(c) \/ Check(c) \/ Unlink(c)
    \/ UnlinkUpgraded(c) \/ Finish(c)

Stopper == StopJoin \/ StopWake \/ StopFree

ShimNext ==
  \/ \E c \in Conns : Accept(c) \/ AcceptFail(c) \/ ReadFail(c) \/ Thread(c)
                        \/ Resume(c) \/ UpgradeClose(c)
  \/ StopBegin \/ Stopper

ShimSpec == ShimInit /\ [][ShimNext]_shimVars

\* Threads that are not blocked run on; a read on a socket that was shut down
\* returns; stop, once called, goes on.
ShimFairness ==
  /\ WF_shimVars(Stopper)
  /\ \A c \in Conns :
       /\ WF_shimVars(Handle(c) \/ ReadBody(c) \/ Check(c) \/ Unlink(c) \/ UnlinkUpgraded(c) \/ Finish(c))
       /\ WF_shimVars(~open[c] /\ ReadFail(c))

-----------------------------------------------------------------------------
\* A connection is freed by its thread or by MHD_upgrade_action, never by both
\* and never by neither: when its thread is over it has been freed once, or its
\* upgrade handle is still there to free it.
FreedOnce ==
  \A c \in Conns : pc[c] = "done" => frees[c] + (IF urh[c] THEN 1 ELSE 0) = 1

\* MHD_stop_daemon wakes every thread, whether it is suspended, about to be, or
\* blocked in recv: after it was called every connection's thread ends.
StopEndsThreads ==
  \A c \in Conns : stopping /\ pc[c] # "none" ~> pc[c] = "done"

\* Why it holds: MHD_stop_daemon leaves no thread parked or blocked in recv
\* behind the pass in which it wakes the listed connections; none is missing
\* from the list, none can join it, and none can park any more.  No run checks
\* it, ServerProofs proves it.
StopWakesAll ==
  stop \in {"poll", "done"} =>
    \A c \in Conns : pc[c] # "parked" /\ (pc[c] = "read" => ~open[c])

\* A thread that has not turned its connection into an upgraded one works on
\* an allocated connection up to connection_finish.  No run checks it,
\* ServerProofs proves it.
RunsAllocated ==
  \A c \in Conns :
    pc[c] \in {"read", "handle", "crc", "check", "parked", "unlink", "finish"} => mem[c] = "live"

\* connection_main on an upgraded connection: "Unlink it so a concurrent
\* MHD_stop_daemon does not wait on it, but leave it allocated": what
\* daemon->connections lists, and connection_unlink walks, is allocated.  It does
\* not hold: MHD_upgrade_action may free the connection before its thread has
\* unlinked it.  No run checks it.
ListedAllocated == \A c \in list : mem[c] = "live"
=============================================================================
