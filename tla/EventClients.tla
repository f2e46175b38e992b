---------------------------- MODULE EventClients ----------------------------
(***************************************************************************)
(* A service with one of its readers: the firehose subscriber, or the       *)
(* Jetstream client.                                                        *)
(***************************************************************************)
EXTENDS Subscribe, Jetstream

VARIABLE client  \* "firehose" or "jetstream"

eventVars == <<feedVars, loopVars, jetVars, client>>

EventInit ==
  /\ FeedInit
  /\ LoopInit
  /\ JetInit
  /\ \/ client = "firehose" /\ pc = "top"
     \/ client = "jetstream" /\ pc = "start"

Service ==
  /\ Publish \/ Expire \/ ServiceSend \/ Drop
  /\ UNCHANGED <<readerVars, loopVars, jetVars, client>>

Firehose ==
  /\ client = "firehose"
  /\ Loop \/ StopCall
  /\ UNCHANGED <<jetVars, client>>

JetstreamCaller ==
  /\ client = "jetstream"
  /\ Poll \/ JetFree \/ \E u \in Updates : UpdateOptions(u)
  /\ UNCHANGED <<loopVars, client>>

EventNext == Service \/ Firehose \/ JetstreamCaller

\* The loop and the service keep going, and so does a caller that polls; nothing
\* obliges a connection to break, or anyone to stop or to change the filters.
EventSpec ==
  /\ EventInit /\ [][EventNext]_eventVars
  /\ WF_eventVars(Firehose /\ Loop)
  /\ WF_eventVars(JetstreamCaller /\ Poll)
  /\ WF_eventVars(Service /\ ServiceSend)

-----------------------------------------------------------------------------
\* The next event delivered, and the events passed over since the last one.
NextDelivery == delivered # <<>> /\ delivered' # delivered
PassedOver   == (Last(delivered) + 1)..(Last(delivered') - 1)

\* What a reader may pass over: the subscriber skips frames it cannot parse;
\* Jetstream returns an error for what it loses, and may go on from the oldest
\* event without having read the frame that says so.
Skipped == IF client = "firehose" THEN Bad ELSE failed \cup 1..(oldest - 1)

\* docs/sync.md, "reconnection automatically resumes where it left off", and
\* jetstream.h, "schedules a reconnect from the last delivered cursor": over any
\* number of reconnects no event is delivered twice or after a later one, and
\* unless OutdatedCursor has reset the cursor, no event is passed over silently.
Resumes ==
  [][NextDelivery => /\ Last(delivered) < Last(delivered')
                     /\ cursor > 0 => PassedOver \subseteq Skipped]_eventVars

\* wf_subscribe_stop takes effect at the next turn of the loop: at most one
\* event is delivered after it has returned.
OneLateEvent == late <= 1

\* A stop ends the loop, whatever the loop is doing: connecting, sleeping, or
\* waiting on a quiet connection.
StopEnds == stopped ~> pc = "done"

\* An event after the reader's cursor is delivered, through any number of
\* dropped connections and failed connects, unless it does not parse or an error
\* is returned for it, the service forgets it or resets the cursor, or the
\* reader ends.
EveryEventArrives ==
  \A seq \in 1..MaxSeq :
    (cursor > 0 /\ cursor < seq /\ seq <= published /\ seq \notin Bad)
      ~> (seq \in Range(delivered) \cup failed \/ seq < oldest \/ cursor = 0 \/ pc = "done")

\* jetstream.h, "retry unchanged after WOULD_BLOCK": however many calls it takes
\* to send it, and whatever was pending before, an update that WF_OK was returned
\* for is what the service has got on this connection, whole.
UpdatesWhole == sock = "open" /\ agreed # NoUpdate => message = Whole(agreed)
=============================================================================
