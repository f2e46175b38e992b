------------------------------ MODULE Subscribe -----------------------------
(***************************************************************************)
(* The firehose subscriber (src/sync/sync_subscribe.c): subscribe_loop with *)
(* its cursor, its reconnects and backoff, and wf_subscribe_stop from       *)
(* another thread.                                                          *)
(***************************************************************************)
EXTENDS Feed

VARIABLES
  stopped,  \* handle->stopped
  late      \* events given to on_event after wf_subscribe_stop

loopVars == <<stopped, late>>

LoopInit == stopped = FALSE /\ late = 0

\* Mutant: stopped is looked at only when nothing is left to receive.
TopDraining ==
  /\ pc = "top"
  /\ pc' = IF stopped /\ feed = <<>> THEN "end" ELSE IF sock = "none" THEN "connect" ELSE "receive"
  /\ UNCHANGED <<serviceVars, cursor, delay, delivered, loopVars>>

\* while (!handle->stopped), and whether there is a live socket.
Top ==
  /\ pc = "top"
  /\ pc' = IF stopped THEN "end" ELSE IF sock = "none" THEN "connect" ELSE "receive"
  /\ UNCHANGED <<serviceVars, cursor, delay, delivered, loopVars>>

\* handle_connect succeeds; build_url names the cursor only when it is positive.
Connect ==
  /\ pc = "connect"
  /\ Accepted(cursor)
  /\ delay' = InitialDelay
  /\ pc' = "receive"
  /\ UNCHANGED <<cursor, delivered, loopVars>>

ConnectFail ==
  /\ pc = "connect"
  /\ Refused
  /\ pc' = "backoff"
  /\ UNCHANGED <<cursor, delay, delivered, loopVars>>

\* The sleep after a failed connect, then the doubling of the delay.
Backoff ==
  /\ pc = "backoff"
  /\ IF stopped THEN pc' = "end" /\ UNCHANGED delay
     ELSE pc' = "top" /\ delay' = Doubled
  /\ UNCHANGED <<serviceVars, cursor, delivered, loopVars>>

\* Mutant: the broken socket is kept, so that no connect is tried.
ReceiveLostKept ==
  /\ pc = "receive"
  /\ Over
  /\ pc' = "sleep"
  /\ UNCHANGED <<serviceVars, cursor, delay, delivered, loopVars>>

\* WF_ERR_NETWORK: the socket is closed and the loop sleeps, without doubling.
ReceiveLost ==
  /\ pc = "receive"
  /\ Over
  /\ sock' = "none"
  /\ pc' = "sleep"
  /\ UNCHANGED <<published, oldest, nextSeq, feed, drops, cursor, delay, delivered, loopVars>>

Sleep ==
  /\ pc = "sleep"
  /\ pc' = IF stopped THEN "end" ELSE "top"
  /\ UNCHANGED <<serviceVars, cursor, delay, delivered, loopVars>>

\* Mutant: a quiet connection is polled without looking at stopped.
ReceiveQuietDeaf ==
  /\ pc = "receive"
  /\ Quiet
  /\ UNCHANGED <<feedVars, loopVars>>

\* WF_ERR_WOULD_BLOCK: perhaps a ping, a short sleep, and around again.
ReceiveQuiet ==
  /\ pc = "receive"
  /\ Quiet
  /\ pc' = "top"
  /\ UNCHANGED <<serviceVars, cursor, delay, delivered, loopVars>>

\* Any other error of wf_websocket_receive leaves the loop.
ReceiveBroken ==
  /\ pc = "receive"
  /\ Refused
  /\ pc' = "end"
  /\ UNCHANGED <<cursor, delay, delivered, loopVars>>

\* An event that parses: the cursor advances, then on_event is called.
ReceiveEvent(seq) ==
  /\ cursor' = IF seq > cursor THEN seq ELSE cursor
  /\ delivered' = Append(delivered, seq)
  /\ late' = IF stopped THEN late + 1 ELSE late

\* OutdatedCursor: the cursor is forgotten and the connection kept.
ReceiveOutdated ==
  /\ cursor' = 0
  /\ UNCHANGED <<delivered, late>>

\* WF_OK: a frame that does not parse, or finds no memory for its blocks or
\* operations, is skipped.  Frames of #labels, errors and other #info, which
\* leave the cursor alone, do not matter here.
Receive ==
  /\ pc = "receive"
  /\ feed # <<>>
  /\ feed' = Tail(feed)
  /\ LET f == Head(feed) IN
     \/ f = Outdated /\ ReceiveOutdated
     \/ f \in Bad /\ UNCHANGED <<cursor, delivered, late>>
     \/ f # Outdated /\ ReceiveEvent(f)
  /\ pc' = "top"
  /\ UNCHANGED <<published, oldest, sock, nextSeq, drops, delay, stopped>>

\* handle_close, then wf_subscribe_start frees the handle and clears *out.
End ==
  /\ pc = "end"
  /\ sock' = "none"
  /\ feed' = <<>>
  /\ pc' = "done"
  /\ UNCHANGED <<published, oldest, nextSeq, drops, cursor, delay, delivered, loopVars>>

\* wf_subscribe_stop in another thread, while the loop has not ended.
StopCall ==
  /\ pc # "done"
  /\ ~stopped
  /\ stopped' = TRUE
  /\ UNCHANGED <<feedVars, late>>

Loop ==
  \/ Top \/ Connect \/ ConnectFail \/ Backoff \/ ReceiveLost \/ Sleep
  \/ ReceiveQuiet \/ ReceiveBroken \/ Receive \/ End
=============================================================================
