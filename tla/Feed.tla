-------------------------------- MODULE Feed --------------------------------
(***************************************************************************)
(* A service with a sequence of events, one connection to it, and what its  *)
(* two readers have in common: the firehose subscriber (Subscribe) and the  *)
(* Jetstream client (Jetstream).  The service is external.  It numbers its   *)
(* events 1, 2, ..., replays those after a requested cursor that it still   *)
(* has, and sends only new ones to a reader without a cursor.               *)
(***************************************************************************)
EXTENDS Naturals, Sequences, SequencesExt, FiniteSetsExt

CONSTANTS
  StartCursors,  \* cursors the caller may start with; 0 is none
  FirstSeq,      \* bound: events published before the reader starts
  MaxSeq,        \* bound: events published in all
  MaxDrops,      \* bound: connections that break, connects that fail, other errors
  InFlight,      \* bound: frames on their way to the reader
  Bad,           \* events whose frames do not parse, or may find no memory
  InitialDelay,  \* the initial delay of the reconnects
  MaxDelay       \* their longest delay, in the same unit

ASSUME FeedAssumption ==
  /\ FirstSeq \in Nat /\ MaxSeq \in Nat /\ FirstSeq <= MaxSeq
  /\ StartCursors \subseteq 0..FirstSeq
  /\ MaxDrops \in Nat /\ InFlight \in Nat \ {0}
  /\ Bad \subseteq 1..MaxSeq
  /\ InitialDelay \in Nat \ {0} /\ MaxDelay \in Nat \ {0}

VARIABLES
  \* the service and the connection
  published,  \* the newest event
  oldest,     \* the oldest event it still has
  sock,       \* "none", "open", "lost"
  nextSeq,    \* the next event the service sends on this connection
  feed,       \* frames on their way
  drops,      \* such faults so far
  \* the reader
  pc,         \* where it is
  cursor,     \* the cursor of the handle
  delay,      \* retry_delay_ms of the handle
  delivered   \* events given to the caller, in order

serviceVars == <<published, oldest, sock, nextSeq, feed, drops>>
readerVars  == <<pc, cursor, delay, delivered>>
feedVars    == <<serviceVars, readerVars>>

\* Frames: an event with its number, or an info frame OutdatedCursor.
Outdated == 0
Frame    == {Outdated} \cup (1..MaxSeq)

FeedInit ==
  /\ published = FirstSeq
  /\ oldest = 1
  /\ sock = "none"
  /\ nextSeq = 1
  /\ feed = <<>>
  /\ drops = 0
  /\ cursor \in StartCursors
  /\ delay = InitialDelay
  /\ delivered = <<>>

-----------------------------------------------------------------------------
(* The service and the network.                                            *)

Publish ==
  /\ published < MaxSeq
  /\ published' = published + 1
  /\ UNCHANGED <<oldest, sock, nextSeq, feed, drops>>

Expire ==
  /\ oldest <= published
  /\ oldest' = oldest + 1
  /\ UNCHANGED <<published, sock, nextSeq, feed, drops>>

ServiceSend ==
  /\ sock = "open"
  /\ nextSeq <= published
  /\ Len(feed) < InFlight
  /\ feed' = Append(feed, nextSeq)
  /\ nextSeq' = nextSeq + 1
  /\ UNCHANGED <<published, oldest, sock, drops>>

\* The connection breaks; frames on their way may still arrive or be lost.
Drop ==
  /\ sock = "open"
  /\ drops < MaxDrops
  /\ drops' = drops + 1
  /\ sock' = "lost"
  /\ \E n \in 0..Len(feed) : feed' = SubSeq(feed, 1, n)
  /\ UNCHANGED <<published, oldest, nextSeq>>

\* The service takes a connection whose URL names cursor c, if it is positive;
\* it answers an outdated one with an info frame and starts from the oldest
\* event it has.
Accepted(c) ==
  /\ sock' = "open"
  /\ nextSeq' = IF c = 0 THEN published + 1
                ELSE IF c + 1 < oldest THEN oldest ELSE c + 1
  /\ feed' = IF c > 0 /\ c + 1 < oldest THEN <<Outdated>> ELSE <<>>
  /\ UNCHANGED <<published, oldest, drops>>

\* A connect that fails, or an error of the connection that is not its end.
Refused ==
  /\ drops < MaxDrops
  /\ drops' = drops + 1
  /\ UNCHANGED <<published, oldest, sock, nextSeq, feed>>

-----------------------------------------------------------------------------
\* retry_delay_ms after a failed connect.
Doubled == IF delay < MaxDelay THEN Min({2 * delay, MaxDelay}) ELSE delay

\* Where the next frame is to be taken from, if there is one.
Quiet == sock = "open" /\ feed = <<>>
Over  == sock = "lost" /\ feed = <<>>
=============================================================================
