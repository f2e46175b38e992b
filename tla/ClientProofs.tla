---------------------------- MODULE ClientProofs ----------------------------
(***************************************************************************)
(* The safety properties of the clients of a service: of Session, for every *)
(* set of threads and accounts and every number of sessions issued, and of   *)
(* EventClients, for every number of events, faults and pieces.              *)
(*                                                                         *)
(* None is inductive.  Session's need that at most one thread is in the      *)
(* session's code (Alone: a second one ends the defined behaviour), and      *)
(* what holds while that thread is at each of its steps (InsideInv).         *)
(*                                                                         *)
(* Resumes needs to know every frame between the service and the reader:     *)
(* FlowInv says that they are consecutive events after everything delivered, *)
(* perhaps behind an info frame.  OneLateEvent needs where the loop is after *)
(* a late event (LateInv), and UpdatesWhole what the service has of an       *)
(* update that is still being sent (SendInv).                                *)
(***************************************************************************)
EXTENDS Session, EventClients, SequenceTheorems, TLAPS

Alone == \A s, t \in Threads : Inside(s) /\ Inside(t) => s = t

\* A refresh or a logout starts from a session; while a login is out there is
\* none; and a refresh leaves the agent's credential alone until it is done.
InsideInv ==
  \A t \in Threads :
    /\ call[t].pc = "cb_refresh" => HasSession /\ auth \in Header(Access)
    /\ call[t].pc = "resume" => HasSession
    /\ call[t].pc = "login" => ~HasSession
    /\ call[t].pc \in {"install", "login", "sync", "bearer"} => own.kind # "refresh"

SessionInv == TypeOK /\ Alone /\ InsideInv /\ RefreshTokenPutAway /\ AgentFollows /\ GuardOwned

\* Init establishes the invariant.
LEMMA SessionInit == Init => SessionInv
<1> SUFFICES ASSUME Init PROVE SessionInv
  OBVIOUS
<1>1. TypeOK
  BY DEF Init, TypeOK, SessionCode, Steps, Sessions, Tokens, Idle, NoSession, NoToken
<1>2. \A t \in Threads : call[t].pc = "idle"
  BY DEF Init, Idle
<1>3. Alone /\ InsideInv
  BY <1>2 DEF Alone, InsideInv, Inside, SessionCode
<1>4. RefreshTokenPutAway /\ AgentFollows
  BY DEF Init, RefreshTokenPutAway, AgentFollows, HasSession, NoSession, NoToken
<1>5. GuardOwned
  BY Zenon DEF Init, GuardOwned
<1> QED
  BY <1>1, <1>3, <1>4, <1>5 DEF SessionInv

\* Each step preserves it.
LEMMA SessionNext == SessionInv /\ [Next]_vars => SessionInv'
<1> SUFFICES ASSUME SessionInv, [Next]_vars PROVE SessionInv'
  OBVIOUS
<1> USE DEF SessionInv, TypeOK, Alone, InsideInv, RefreshTokenPutAway, AgentFollows, GuardOwned,
            Inside, Free, SessionCode, Steps, Sessions, Tokens, Idle, NoSession, HasSession,
            NoToken, At, Header, Access, Token
<1>1. ASSUME NEW t \in Threads, Request(t) PROVE SessionInv'
  BY <1>1 DEF Request
<1>2. ASSUME NEW t \in Threads, Answer(t) PROVE SessionInv'
  BY <1>2 DEF Answer, Return
<1>3. ASSUME NEW t \in Threads, Expired(t) PROVE SessionInv'
  BY <1>3 DEF Expired, Goto
<1>4. ASSUME NEW t \in Threads, ReadGuard(t) PROVE SessionInv'
  BY <1>4 DEF ReadGuard, Goto, Return
<1>5. ASSUME NEW t \in Threads, SetGuard(t) PROVE SessionInv'
  BY <1>5 DEF SetGuard, Goto
<1>6. ASSUME NEW t \in Threads, ClearGuard(t) PROVE SessionInv'
  <2>1. refreshing' = FALSE
    BY <1>6 DEF ClearGuard
  <2>2. GuardOwned' /\ refreshing' \in BOOLEAN
    BY <2>1, Zenon
  <2>3. call' \in [Threads -> [pc : Steps, attempt : {1, 2}]]
    BY <1>6 DEF ClearGuard, Return
  <2>4. TypeOK'
    BY <1>6, <2>2, <2>3 DEF ClearGuard
  <2>5. (Alone /\ InsideInv /\ RefreshTokenPutAway /\ AgentFollows)'
    BY <1>6 DEF ClearGuard, Return
  <2> QED
    BY <2>2, <2>4, <2>5
<1>7. ASSUME NEW t \in Threads, Again(t) PROVE SessionInv'
  BY <1>7 DEF Again, Goto
<1>8. ASSUME NEW t \in Threads, Callback(t) PROVE SessionInv'
  BY <1>8 DEF Callback, Goto, Refresh
<1>9. ASSUME NEW t \in Threads, CallbackReply(t) PROVE SessionInv'
  BY <1>9 DEF CallbackReply, Goto, RefreshRefused, RefreshFails, RefreshTaken, Cleared, Issue,
     CanIssue
<1>10. ASSUME NEW t \in Threads, Install(t) PROVE SessionInv'
  BY <1>10 DEF Install, Goto
<1>11. ASSUME NEW t \in Threads, Login(t) PROVE SessionInv'
  BY <1>11 DEF Login, Goto, Cleared
<1>12. ASSUME NEW t \in Threads, LoginReply(t) PROVE SessionInv'
  BY <1>12 DEF LoginReply, Goto, Return, CanIssue, Issue
<1>13. ASSUME NEW t \in Threads, ResumeReply(t) PROVE SessionInv'
  BY <1>13 DEF ResumeReply, Goto, RefreshRefused, RefreshFails, RefreshTaken, Cleared,
     CanIssue, Issue
<1>14. ASSUME NEW t \in Threads, Logout(t) PROVE SessionInv'
  BY <1>14 DEF Logout, Goto, Refresh
<1>15. ASSUME NEW t \in Threads, LogoutReply(t) PROVE SessionInv'
  BY <1>15 DEF LogoutReply, Goto, Cleared
<1>16. ASSUME NEW t \in Threads, Get(t) PROVE SessionInv'
  BY <1>16 DEF Get, Goto
<1>17. ASSUME NEW t \in Threads, SyncAuth(t) PROVE SessionInv'
  BY <1>17 DEF SyncAuth, Return
<1>18. ASSUME NEW t \in Threads, Race(t) PROVE SessionInv'
  BY <1>18 DEF Race
<1>19. ASSUME NEW t \in Threads, NEW a \in Accounts, NEW n \in 1..MaxIssued, Resume(t, a, n)
       PROVE  SessionInv'
  BY <1>19, IssuedAssumption DEF Resume, Goto
<1>20. ASSUME NEW t \in Threads, NEW a \in Accounts, SetBearer(t, a) PROVE SessionInv'
  BY <1>20 DEF SetBearer, CanIssue, Goto
<1>21. CASE UNCHANGED vars
  BY <1>21 DEF vars
<1> QED
  BY <1>1, <1>2, <1>3, <1>4, <1>5, <1>6, <1>7, <1>8, <1>9, <1>10, <1>11, <1>12,
     <1>13, <1>14, <1>15, <1>16, <1>17, <1>18, <1>19, <1>20, <1>21
     DEF Next, Transport, Renewal, Start, Finish

\* Whatever a refresh or a logout meets, the refresh token does not stay the
\* credential of the session's client (wf_session_refresh, wf_session_delete).
THEOREM PutAway == Spec => []RefreshTokenPutAway
<1>1. SessionInv => RefreshTokenPutAway
  BY DEF SessionInv
<1> QED
  BY <1>1, SessionInit, SessionNext, PTL DEF Spec

\* The agent's requests carry the access token of its session, however it
\* came to that session (wf_agent_refresh_cb, wf_agent_sync_auth).
THEOREM Follows == Spec => []AgentFollows
<1>1. SessionInv => AgentFollows
  BY DEF SessionInv
<1> QED
  BY <1>1, SessionInit, SessionNext, PTL DEF Spec

\* No way out of a refresh leaves client->refreshing set (wf_xrpc_request).
THEOREM Owned == Spec => []GuardOwned
<1>1. SessionInv => GuardOwned
  BY DEF SessionInv
<1> QED
  BY <1>1, SessionInit, SessionNext, PTL DEF Spec

-----------------------------------------------------------------------------
\* The types of the state that the proofs are about.
EventTypeOK ==
  /\ published \in Nat /\ oldest \in Nat \ {0} /\ nextSeq \in Nat
  /\ sock \in {"none", "open", "lost"}
  /\ feed \in Seq(Nat)
  /\ cursor \in Nat
  /\ delivered \in Seq(Nat)
  /\ client \in {"firehose", "jetstream"}
  /\ stopped \in BOOLEAN

\* Only a loop that has yet to look at stopped again has delivered a late event.
LateInv ==
  \/ late = 0
  \/ late = 1 /\ stopped /\ client = "firehose" /\ pc \in {"top", "end", "done"}

\* The pieces of an update that the service has once n of them were taken.
Part(u, n) == [i \in 1..n |-> <<u, i>>]

\* What the service has is what the offset of the socket says, and an update is
\* agreed only when nothing is left of it.
SendInv ==
  /\ offset \in 0..(Pieces - 1)
  /\ outgoing = NoUpdate => offset = 0
  /\ outgoing # NoUpdate => agreed = NoUpdate
  /\ client = "firehose" => outgoing = NoUpdate /\ agreed = NoUpdate
  /\ sock = "open" /\ outgoing # NoUpdate => message = Part(outgoing, offset)
  /\ UpdatesWhole

\* The cursor is the last event delivered unless it was reset, and no event is
\* delivered, forgotten or asked for before it is published.
CursorInv ==
  /\ cursor <= published
  /\ oldest <= published + 1
  /\ delivered # <<>> => Last(delivered) <= published /\ (cursor > 0 => cursor = Last(delivered))
  /\ sock = "none" => feed = <<>>

\* The frames on their way: a of them say that the cursor is outdated, and the
\* others are consecutive events from low on, which is after everything
\* delivered; what lies between has been passed over with a reason.
Following(low, a) ==
  /\ a = 1 => Len(feed) > 0 /\ feed[1] = Outdated /\ low <= oldest
  /\ \A i \in (a + 1)..Len(feed) : feed[i] = low + i - 1 - a
  /\ low + Len(feed) - a <= published + 1
  /\ sock = "open" => nextSeq = low + Len(feed) - a
  /\ low > cursor
  /\ delivered # <<>> => low > Last(delivered)
  /\ a = 0 /\ cursor > 0 /\ delivered # <<>> =>
       (Last(delivered) + 1)..(low - 1) \subseteq Skipped

FlowInv ==
  sock = "open" \/ feed # <<>> => \E low \in Nat \ {0}, a \in {0, 1} : Following(low, a)

ReadInv == EventTypeOK /\ CursorInv /\ FlowInv

-----------------------------------------------------------------------------
\* The last element of a sequence of numbers, and of one that has got one more.
LEMMA LastNat ==
  ASSUME NEW s \in Seq(Nat)
  PROVE  /\ s # <<>> => Last(s) \in Nat
         /\ \A x \in Nat : Append(s, x) # <<>> /\ Last(Append(s, x)) = x /\ Append(s,
            x) \in Seq(Nat)
BY DEF Last

\* The first frame and the ones after it.
LEMMA FirstFrame ==
  ASSUME NEW s \in Seq(Nat), s # <<>>
  PROVE  /\ Len(s) \in Nat \ {0} /\ Head(s) = s[1] /\ Head(s) \in Nat
         /\ Tail(s) \in Seq(Nat) /\ Len(Tail(s)) = Len(s) - 1
         /\ \A i \in 1..Len(Tail(s)) : Tail(s)[i] = s[i + 1]
OBVIOUS

\* The service accepts a connection that asks for the cursor.
LEMMA FlowAccepted ==
  ASSUME ReadInv, Accepted(cursor), UNCHANGED <<cursor, delivered, client, failed, stopped>>
  PROVE  ReadInv'
<1> USE DEF ReadInv, EventTypeOK, CursorInv
<1>0. /\ sock' = "open" /\ UNCHANGED <<published, oldest>>
      /\ <<Outdated>> \in Seq(Nat) /\ <<>> \in Seq(Nat) /\ Len(<<Outdated>>) = 1 /\ <<Outdated>>[1] = Outdated
  BY DEF Accepted, Outdated
<1>1. CASE cursor > 0 /\ cursor + 1 < oldest
  <2>1. feed' = <<Outdated>> /\ nextSeq' = oldest
    BY <1>1 DEF Accepted
  <2>2. Following(oldest, 1)'
    BY <1>0, <1>1, <2>1 DEF Following
  <2>3. FlowInv'
    BY <1>0, <2>2 DEF FlowInv
  <2> QED
    BY <1>0, <2>1, <2>3
<1>2. CASE cursor > 0 /\ ~(cursor + 1 < oldest)
  <2>1. feed' = <<>> /\ nextSeq' = cursor + 1
    BY <1>2 DEF Accepted
  <2>2. Following(cursor + 1, 0)'
    BY <1>0, <1>2, <2>1 DEF Following
  <2>3. FlowInv'
    BY <1>0, <2>2 DEF FlowInv
  <2> QED
    BY <1>0, <2>1, <2>3
<1>3. CASE cursor = 0
  <2>1. feed' = <<>> /\ nextSeq' = published + 1
    BY <1>3 DEF Accepted
  <2>2. Following(published + 1, 0)'
    BY <1>0, <1>3, <2>1, LastNat DEF Following
  <2>3. FlowInv'
    BY <1>0, <2>2 DEF FlowInv
  <2> QED
    BY <1>0, <2>1, <2>3
<1> QED
  BY <1>1, <1>2, <1>3

\* A connection is given up with nothing left to read, or thrown away.
LEMMA FlowClosed ==
  ASSUME ReadInv, sock' = "none", feed' = <<>>,
         UNCHANGED <<published, oldest, nextSeq, cursor, delivered, client, stopped>>
  PROVE  ReadInv'
BY DEF ReadInv, EventTypeOK, CursorInv, FlowInv

\* A step that neither reads nor connects; more errors may have been returned.
LEMMA FlowKept ==
  ASSUME ReadInv, UNCHANGED <<published, oldest, sock, nextSeq, feed, cursor, delivered, client>>,
         failed \subseteq failed', stopped' \in BOOLEAN
  PROVE  ReadInv'
<1>1. EventTypeOK' /\ CursorInv'
  BY DEF ReadInv, EventTypeOK, CursorInv
<1>2. Skipped \subseteq Skipped'
  BY DEF Skipped
<1>3. ASSUME NEW low \in Nat \ {0}, NEW a \in {0, 1}, Following(low, a) PROVE Following(low, a)'
  BY <1>2, <1>3 DEF Following
<1>4. FlowInv'
  BY <1>3 DEF ReadInv, FlowInv
<1> QED
  BY <1>1, <1>4 DEF ReadInv

\* The service publishes, forgets and sends; the connection breaks.
LEMMA FlowService ==
  ASSUME ReadInv, Publish \/ Expire \/ ServiceSend \/ Drop,
         UNCHANGED <<cursor, delivered, client, failed, stopped>>
  PROVE  ReadInv'
<1> USE DEF ReadInv, EventTypeOK
<1>1. CASE Publish
  <2>1. ASSUME NEW low \in Nat \ {0}, NEW a \in {0, 1}, Following(low, a) PROVE Following(low, a)'
    BY <1>1, <2>1 DEF Publish, Following, Skipped
  <2>2. EventTypeOK' /\ CursorInv'
    BY <1>1, LastNat DEF Publish, CursorInv
  <2> QED
    BY <1>1, <2>1, <2>2 DEF FlowInv, Publish
<1>2. CASE Expire
  <2>0. Skipped \subseteq Skipped'
    BY <1>2 DEF Expire, Skipped
  <2>1. ASSUME NEW low \in Nat \ {0}, NEW a \in {0, 1}, Following(low, a) PROVE Following(low, a)'
    BY <1>2, <2>0, <2>1 DEF Expire, Following
  <2>2. EventTypeOK' /\ CursorInv'
    BY <1>2 DEF Expire, CursorInv
  <2> QED
    BY <1>2, <2>1, <2>2 DEF FlowInv, Expire
<1>3. CASE ServiceSend
  <2>0. /\ feed' \in Seq(Nat) /\ Len(feed') = Len(feed) + 1 /\ Len(feed) \in Nat
        /\ feed'[Len(feed) + 1] = nextSeq /\ \A i \in 1..Len(feed) : feed'[i] = feed[i]
        /\ sock = "open" /\ sock' = "open" /\ nextSeq' = nextSeq + 1 /\ nextSeq <= published
        /\ UNCHANGED <<published, oldest>>
    BY <1>3 DEF ServiceSend
  <2>1. PICK low \in Nat \ {0}, a \in {0, 1} : Following(low, a)
    BY <2>0 DEF FlowInv
  <2>2. Skipped' = Skipped
    BY <2>0 DEF Skipped
  <2>3. Following(low, a)'
    <3>0. nextSeq = low + Len(feed) - a
      BY <2>0, <2>1 DEF Following
    <3>1. /\ a = 1 => Len(feed') > 0 /\ feed'[1] = Outdated /\ low <= oldest'
          /\ low + Len(feed') - a <= published' + 1
          /\ nextSeq' = low + Len(feed') - a
      <4>1. CASE a = 0
        BY <2>0, <3>0, <4>1
      <4>2. CASE a = 1
        <5>1. Len(feed) > 0 /\ feed[1] = Outdated /\ low <= oldest
          BY <2>1, <4>2 DEF Following
        <5>2. 1 \in 1..Len(feed)
          BY <2>0, <5>1
        <5>3. feed'[1] = feed[1]
          BY <2>0, <5>2
        <5>4. feed'[1] = Outdated
          BY <5>1, <5>3
        <5> QED
          BY <2>0, <3>0, <4>2, <5>1, <5>4
      <4> QED
        BY <4>1, <4>2
    <3>2. ASSUME NEW i \in (a + 1)..Len(feed') PROVE feed'[i] = low + i - 1 - a
      <4>1. CASE i = Len(feed')
        BY <2>0, <3>0, <4>1
      <4>2. CASE i # Len(feed')
        <5>1. i \in (a + 1)..Len(feed) /\ i \in 1..Len(feed)
          BY <2>0, <4>2
        <5> QED
          BY <2>0, <2>1, <5>1 DEF Following
      <4> QED
        BY <4>1, <4>2
    <3> QED
      BY <2>0, <2>1, <2>2, <3>1, <3>2 DEF Following
  <2>4. EventTypeOK' /\ CursorInv'
    BY <2>0 DEF CursorInv
  <2> QED
    BY <2>3, <2>4 DEF FlowInv
<1>4. CASE Drop
  <2>0. PICK n \in 0..Len(feed) : feed' = SubSeq(feed, 1, n)
    BY <1>4 DEF Drop
  <2>1. /\ feed' \in Seq(Nat) /\ Len(feed') = n /\ \A i \in 1..n : feed'[i] = feed[i]
        /\ sock = "open" /\ sock' = "lost" /\ UNCHANGED <<published, oldest, nextSeq>>
    BY <1>4, <2>0 DEF Drop
  <2>2. EventTypeOK' /\ CursorInv'
    BY <2>1 DEF CursorInv
  <2>3. CASE n = 0
    <3>1. feed' = <<>>
      BY <2>1, <2>3
    <3> QED
      BY <2>1, <2>2, <3>1 DEF FlowInv
  <2>4. CASE n > 0
    <3>1. PICK low \in Nat \ {0}, a \in {0, 1} : Following(low, a)
      BY <2>1 DEF FlowInv
    <3>2. Skipped' = Skipped
      BY <2>1 DEF Skipped
    <3>3. low + Len(feed') - a <= published' + 1
      BY <2>0, <2>1, <3>1 DEF Following
    <3>4. \A i \in (a + 1)..Len(feed') : feed'[i] = low + i - 1 - a
      BY <2>0, <2>1, <3>1 DEF Following
    <3>5. Following(low, a)'
      BY <2>1, <2>4, <3>1, <3>2, <3>3, <3>4 DEF Following
    <3> QED
      BY <2>2, <3>5 DEF FlowInv
  <2> QED
    BY <2>3, <2>4
<1> QED
  BY <1>1, <1>2, <1>3, <1>4

-----------------------------------------------------------------------------
\* The first frame is event low, or says that the cursor is outdated and the
\* events after it start at low.
Ahead(low, a) ==
  /\ Head(feed) = IF a = 1 THEN Outdated ELSE low
  /\ low > cursor /\ low <= published + 1 /\ (a = 0 => low <= published)
  /\ a = 1 => low <= oldest
  /\ \A i \in 1..Len(Tail(feed)) : Tail(feed)[i] = low + i - a
  /\ low + Len(Tail(feed)) + 1 - a <= published + 1
  /\ sock = "open" => nextSeq = low + Len(Tail(feed)) + 1 - a

\* A reader that takes a frame takes one of these.
LEMMA FrameTaken ==
  ASSUME ReadInv, feed # <<>>
  PROVE  \E low \in Nat \ {0}, a \in {0, 1} : Following(low, a) /\ Ahead(low, a)
<1> USE DEF ReadInv, EventTypeOK, Ahead
<1>1. PICK low \in Nat \ {0}, a \in {0, 1} : Following(low, a)
  BY DEF FlowInv
<1>2. /\ Len(feed) \in Nat \ {0} /\ Head(feed) = feed[1]
      /\ Len(Tail(feed)) = Len(feed) - 1
      /\ \A i \in 1..Len(Tail(feed)) : Tail(feed)[i] = feed[i + 1]
  BY FirstFrame
<1>3. Head(feed) = IF a = 1 THEN Outdated ELSE low
  BY <1>1, <1>2 DEF Following
<1>4. \A i \in 1..Len(Tail(feed)) : Tail(feed)[i] = low + i - a
  BY <1>1, <1>2 DEF Following
<1>5. /\ low > cursor /\ low <= published + 1 /\ (a = 0 => low <= published)
      /\ a = 1 => low <= oldest
      /\ low + Len(Tail(feed)) + 1 - a <= published + 1
      /\ sock = "open" => nextSeq = low + Len(Tail(feed)) + 1 - a
  BY <1>1, <1>2 DEF Following
<1> QED
  BY <1>1, <1>3, <1>4, <1>5

\* What is left after a frame follows the events from low on.
LEMMA Shifted ==
  ASSUME ReadInv, feed # <<>>, feed' = Tail(feed), NEW low \in Nat \ {0},
         UNCHANGED <<published, oldest, sock, nextSeq, client, stopped>>,
         \A i \in 1..Len(Tail(feed)) : Tail(feed)[i] = low + i - 1,
         low + Len(Tail(feed)) <= published + 1,
         sock = "open" => nextSeq = low + Len(Tail(feed)),
         cursor' \in Nat, cursor' < low, delivered' \in Seq(Nat), CursorInv',
         delivered' # <<>> => low > Last(delivered'),
         cursor' > 0 /\ delivered' # <<>> => (Last(delivered') + 1)..(low - 1) \subseteq Skipped'
  PROVE  ReadInv'
<1> USE DEF ReadInv, EventTypeOK
<1>1. feed' \in Seq(Nat)
  BY FirstFrame
<1>2. Following(low, 0)'
  BY <1>1 DEF Following
<1>3. EventTypeOK'
  BY <1>1
<1> QED
  BY <1>2, <1>3 DEF FlowInv

\* What Resumes says of a step.
Forward ==
  NextDelivery => /\ Last(delivered) < Last(delivered')
                  /\ cursor > 0 => PassedOver \subseteq Skipped

\* An event is delivered: it comes after the last one, and what is between them
\* has been passed over with a reason.
LEMMA FlowEvent ==
  ASSUME ReadInv, feed # <<>>, feed' = Tail(feed), Head(feed) # Outdated,
         UNCHANGED <<published, oldest, sock, nextSeq, client, stopped, failed>>,
         cursor' = Head(feed) \/ cursor' = (IF Head(feed) > cursor THEN Head(feed) ELSE cursor),
         delivered' = Append(delivered, Head(feed))
  PROVE  /\ ReadInv'
         /\ Forward
<1> USE DEF ReadInv, EventTypeOK, Ahead
<1>1. PICK low \in Nat \ {0}, a \in {0, 1} : Following(low, a) /\ Ahead(low, a)
  BY FrameTaken
<1>2. a = 0 /\ Head(feed) = low /\ cursor' = low
  BY <1>1
<1>3. delivered' \in Seq(Nat) /\ Last(delivered') = low /\ delivered' # <<>>
  BY <1>2, LastNat
<1>4. CursorInv'
  BY <1>1, <1>2, <1>3, FirstFrame DEF CursorInv
<1>5. Len(Tail(feed)) \in Nat
  BY FirstFrame
<1>6. ReadInv'
  <2>1. PICK n \in Nat \ {0} : n = low + 1
    OBVIOUS
  <2>2. \A i \in 1..Len(Tail(feed)) : Tail(feed)[i] = n + i - 1
    BY <1>1, <1>2, <1>5, <2>1
  <2>3. n + Len(Tail(feed)) <= published + 1
    BY <1>1, <1>2, <1>5, <2>1
  <2>4. sock = "open" => nextSeq = n + Len(Tail(feed))
    BY <1>1, <1>2, <1>5, <2>1
  <2>5. cursor' \in Nat /\ cursor' < n /\ Last(delivered') < n /\ (Last(delivered') + 1)..(n - 1) = {}
    BY <1>2, <1>3, <2>1
  <2> QED
    BY <1>3, <1>4, <2>2, <2>3, <2>4, <2>5, Shifted
<1>7. ASSUME delivered # <<>> PROVE Last(delivered) < low
  BY <1>1, <1>7 DEF Following
<1>8. ASSUME delivered # <<>>, cursor > 0 PROVE PassedOver \subseteq Skipped
  BY <1>1, <1>2, <1>3, <1>8 DEF Following, PassedOver
<1> QED
  BY <1>3, <1>6, <1>7, <1>8 DEF Forward, NextDelivery

\* An event is passed over because it does not parse, or with an error.
LEMMA FlowPassed ==
  ASSUME ReadInv, feed # <<>>, feed' = Tail(feed), Head(feed) # Outdated,
         UNCHANGED <<published, oldest, sock, nextSeq, client, stopped, cursor, delivered>>,
         failed \subseteq failed', Head(feed) \in Skipped'
  PROVE  ReadInv'
<1> USE DEF ReadInv, EventTypeOK, Ahead
<1>1. PICK low \in Nat \ {0}, a \in {0, 1} : Following(low, a) /\ Ahead(low, a)
  BY FrameTaken
<1>2. a = 0 /\ Head(feed) = low
  BY <1>1
<1>3. Len(Tail(feed)) \in Nat
  BY FirstFrame
<1>4. Skipped \subseteq Skipped'
  BY DEF Skipped
<1>5. CursorInv'
  BY FirstFrame DEF CursorInv
<1>6. ASSUME delivered # <<>> PROVE Last(delivered) \in Nat /\ Last(delivered) < low
  BY <1>1, <1>6, LastNat DEF Following
<1>7. PICK n \in Nat \ {0} : n = low + 1
  OBVIOUS
<1>8. ASSUME delivered # <<>>, cursor > 0
      PROVE  (Last(delivered) + 1)..(n - 1) \subseteq Skipped'
  <2>1. (Last(delivered) + 1)..(low - 1) \subseteq Skipped
    BY <1>1, <1>2, <1>8 DEF Following
  <2> QED
    BY <1>2, <1>4, <1>6, <1>7, <1>8, <2>1
<1>9. \A i \in 1..Len(Tail(feed)) : Tail(feed)[i] = n + i - 1
  BY <1>1, <1>2, <1>3, <1>7
<1>10. n + Len(Tail(feed)) <= published + 1
  BY <1>1, <1>2, <1>3, <1>7
<1>11. sock = "open" => nextSeq = n + Len(Tail(feed))
  BY <1>1, <1>2, <1>3, <1>7
<1>12. cursor' < n /\ (delivered' # <<>> => n > Last(delivered'))
  BY <1>1, <1>6, <1>7
<1> QED
  BY <1>5, <1>8, <1>9, <1>10, <1>11, <1>12, Shifted

\* OutdatedCursor: the cursor is forgotten, or kept by the Jetstream client,
\* which then goes on from an event that the service has no older one than.
LEMMA FlowOutdated ==
  ASSUME ReadInv, feed # <<>>, feed' = Tail(feed), Head(feed) = Outdated,
         UNCHANGED <<published, oldest, sock, nextSeq, client, stopped, delivered>>,
         cursor' = 0 \/ (cursor' = cursor /\ client = "jetstream")
  PROVE  ReadInv'
<1> USE DEF ReadInv, EventTypeOK, Ahead
<1>1. PICK low \in Nat \ {0}, a \in {0, 1} : Following(low, a) /\ Ahead(low, a)
  BY FrameTaken
<1>2. a = 1
  BY <1>1 DEF Outdated
<1>3. Len(Tail(feed)) \in Nat
  BY FirstFrame
<1>4. CursorInv'
  BY FirstFrame, LastNat DEF CursorInv
<1>5. ASSUME delivered # <<>> PROVE Last(delivered) \in Nat /\ Last(delivered) < low
  BY <1>1, <1>5, LastNat DEF Following
<1>6. ASSUME delivered # <<>>, cursor' > 0
      PROVE  (Last(delivered) + 1)..(low - 1) \subseteq Skipped'
  <2>1. Skipped' = failed' \cup 1..(oldest - 1)
    BY <1>6 DEF Skipped
  <2> QED
    BY <1>1, <1>2, <1>5, <1>6, <2>1
<1>7. /\ \A i \in 1..Len(Tail(feed)) : Tail(feed)[i] = low + i - 1
      /\ low + Len(Tail(feed)) <= published + 1
      /\ sock = "open" => nextSeq = low + Len(Tail(feed))
      /\ cursor' \in Nat /\ cursor' < low
      /\ delivered # <<>> => low > Last(delivered)
  BY <1>1, <1>2, <1>3, <1>5
<1> QED
  BY <1>4, <1>6, <1>7, Shifted

-----------------------------------------------------------------------------
\* Nothing has been read before the first connect.
LEMMA ReadInit == EventInit => ReadInv
<1> SUFFICES ASSUME EventInit PROVE ReadInv
  OBVIOUS
<1>1. /\ cursor \in Nat /\ cursor <= published /\ published \in Nat /\ oldest = 1 /\ sock = "none"
      /\ nextSeq = 1 /\ feed = <<>> /\ delivered = <<>>
  BY FeedAssumption DEF EventInit, FeedInit
<1>2. stopped \in BOOLEAN /\ client \in {"firehose", "jetstream"}
  BY DEF EventInit, LoopInit
<1> QED
  BY <1>1, <1>2 DEF ReadInv, EventTypeOK, CursorInv, FlowInv

\* The service's steps, and each step of the subscriber's loop.
LEMMA FirehoseNext ==
  ASSUME ReadInv, Service \/ Firehose
  PROVE  ReadInv' /\ Forward
<1>0. stopped \in BOOLEAN
  BY DEF ReadInv, EventTypeOK
<1>s. CASE Service
  <2>1. ReadInv'
    BY <1>s, FlowService DEF Service, readerVars, loopVars, jetVars, pollVars
  <2> QED
    BY <1>s, <2>1 DEF Service, readerVars, Forward, NextDelivery
<1>1. CASE Firehose /\ StopCall
  BY <1>1, FlowKept DEF Firehose, StopCall, feedVars, serviceVars, readerVars, jetVars,
     pollVars, Forward, NextDelivery
<1>2. CASE Firehose /\ (Top \/ Backoff \/ Sleep \/ ReceiveQuiet)
  <2>1. UNCHANGED <<published, oldest, sock, nextSeq, feed, cursor, delivered, client, failed,
        stopped>>
    BY <1>2 DEF Firehose, Top, Backoff, Sleep, ReceiveQuiet, serviceVars, loopVars, jetVars,
       pollVars
  <2> QED
    BY <1>0, <2>1, FlowKept DEF Forward, NextDelivery
<1>3. CASE Firehose /\ (ConnectFail \/ ReceiveBroken)
  <2>1. UNCHANGED <<published, oldest, sock, nextSeq, feed, cursor, delivered, client, failed,
        stopped>>
    BY <1>3 DEF Firehose, ConnectFail, ReceiveBroken, Refused, loopVars, jetVars, pollVars
  <2> QED
    BY <1>0, <2>1, FlowKept DEF Forward, NextDelivery
<1>4. CASE Firehose /\ Connect
  BY <1>4, FlowAccepted DEF Firehose, Connect, loopVars, jetVars, pollVars, Forward, NextDelivery
<1>5. CASE Firehose /\ (ReceiveLost \/ End)
  <2>1. /\ sock' = "none" /\ feed' = <<>>
        /\ UNCHANGED <<published, oldest, nextSeq, cursor, delivered, client, stopped>>
    BY <1>5 DEF Firehose, ReceiveLost, Over, End, loopVars
  <2> QED
    BY <2>1, FlowClosed DEF Forward, NextDelivery
<1>6. CASE Firehose /\ Receive
  <2>1. /\ feed # <<>> /\ feed' = Tail(feed) /\ client = "firehose"
        /\ UNCHANGED <<published, oldest, sock, nextSeq, client, stopped, failed>>
    BY <1>6 DEF Firehose, Receive, jetVars, pollVars
  <2>2. \/ Head(feed) = Outdated /\ ReceiveOutdated
        \/ Head(feed) \in Bad /\ UNCHANGED <<cursor, delivered, late>>
        \/ Head(feed) # Outdated /\ ReceiveEvent(Head(feed))
    BY <1>6 DEF Receive
  <2>3. CASE Head(feed) = Outdated /\ ReceiveOutdated
    BY <2>1, <2>3, FlowOutdated DEF ReceiveOutdated, Forward, NextDelivery
  <2>4. CASE Head(feed) \in Bad /\ UNCHANGED <<cursor, delivered, late>>
    <3>1. Head(feed) # Outdated
      BY <2>4, FeedAssumption DEF Outdated
    <3>2. Head(feed) \in Skipped'
      BY <2>1, <2>4 DEF Skipped
    <3> QED
      BY <2>1, <2>4, <3>1, <3>2, FlowPassed DEF Forward, NextDelivery
  <2>5. CASE Head(feed) # Outdated /\ ReceiveEvent(Head(feed))
    BY <2>1, <2>5, FlowEvent DEF ReceiveEvent
  <2> QED
    BY <2>2, <2>3, <2>4, <2>5
<1> QED
  BY <1>s, <1>1, <1>2, <1>3, <1>4, <1>5, <1>6 DEF Firehose, Loop

\* Each step of the Jetstream client.
LEMMA JetstreamNext ==
  ASSUME ReadInv, JetstreamCaller
  PROVE  ReadInv' /\ Forward
<1>0. stopped \in BOOLEAN /\ UNCHANGED <<stopped, client>> /\ client = "jetstream"
  BY DEF ReadInv, EventTypeOK, JetstreamCaller, loopVars
<1>1. CASE \E u \in Updates : UpdateOptions(u)
  <2>1. UNCHANGED <<published, oldest, sock, nextSeq, feed, cursor, delivered, client, failed>>
    BY <1>0, <1>1 DEF UpdateOptions, feedVars, serviceVars, readerVars, pollVars
  <2> QED
    BY <1>0, <2>1, FlowKept DEF Forward, NextDelivery
<1>2. CASE NextBegin \/ NextQuiet \/ RetryDue
  <2>1. UNCHANGED <<published, oldest, sock, nextSeq, feed, cursor, delivered, client, failed>>
    BY <1>0, <1>2 DEF NextBegin, NextQuiet, RetryDue, feedVars, serviceVars, readerVars,
       jetVars, pollVars
  <2> QED
    BY <1>0, <2>1, FlowKept DEF Forward, NextDelivery
<1>3. CASE ReopenFails \/ (JetConnect /\ Refused)
  <2>1. UNCHANGED <<published, oldest, sock, nextSeq, feed, cursor, delivered, client, failed>>
    BY <1>0, <1>3 DEF ReopenFails, JetConnect, Refused, pollVars
  <2> QED
    BY <1>0, <2>1, FlowKept DEF Forward, NextDelivery
<1>4. CASE Reopen \/ (JetConnect /\ Accepted(cursor))
  <2>1. Accepted(cursor) /\ UNCHANGED <<cursor, delivered, client, failed, stopped>>
    BY <1>0, <1>4 DEF Reopen, JetConnect, pollVars
  <2> QED
    BY <2>1, FlowAccepted DEF Forward, NextDelivery
<1>5. CASE NextLost \/ JetFree
  <2>1. /\ sock' = "none" /\ feed' = <<>>
        /\ UNCHANGED <<published, oldest, nextSeq, cursor, delivered, client, stopped>>
    BY <1>0, <1>5 DEF NextLost, Over, JetFree
  <2> QED
    BY <2>1, FlowClosed DEF Forward, NextDelivery
<1>6. CASE NextMessage
  <2>1. /\ feed # <<>> /\ feed' = Tail(feed)
        /\ UNCHANGED <<published, oldest, sock, nextSeq, client, stopped>>
    BY <1>0, <1>6 DEF NextMessage
  <2>2. \/ Head(feed) = Outdated /\ (NextOutdated \/ NextUnread)
        \/ NextError(Head(feed))
        \/ Head(feed) \notin Bad \cup {Outdated} /\ NextEvent(Head(feed))
    BY <1>6 DEF NextMessage
  <2>3. CASE Head(feed) = Outdated /\ (NextOutdated \/ NextUnread)
    BY <1>0, <2>1, <2>3, FlowOutdated DEF NextOutdated, NextUnread, Forward, NextDelivery
  <2>4. CASE NextError(Head(feed)) /\ Head(feed) = Outdated
    BY <1>0, <2>1, <2>4, FlowOutdated DEF NextError, Forward, NextDelivery
  <2>5. CASE NextError(Head(feed)) /\ Head(feed) # Outdated
    <3>1. Head(feed) \in Skipped' /\ failed \subseteq failed' /\ UNCHANGED <<cursor, delivered>>
      BY <1>0, <2>5 DEF Skipped, NextError
    <3> QED
      BY <2>1, <2>5, <3>1, FlowPassed DEF Forward, NextDelivery
  <2>6. CASE Head(feed) \notin Bad \cup {Outdated} /\ NextEvent(Head(feed))
    BY <2>1, <2>6, FlowEvent DEF NextEvent
  <2> QED
    BY <2>2, <2>3, <2>4, <2>5, <2>6
<1> QED
  BY <1>1, <1>2, <1>3, <1>4, <1>5, <1>6 DEF JetstreamCaller, Poll, JetConnect

\* Over any number of reconnects, both readers deliver the events in order and
\* without a silent gap.
THEOREM ResumesInOrder == EventSpec => Resumes
<1>1. ReadInv /\ [EventNext]_eventVars => ReadInv' /\ [Forward]_eventVars
  <2> SUFFICES ASSUME ReadInv, [EventNext]_eventVars PROVE ReadInv' /\ [Forward]_eventVars
    OBVIOUS
  <2>1. CASE EventNext
    BY <2>1, FirehoseNext, JetstreamNext DEF EventNext
  <2>2. CASE UNCHANGED eventVars
    <3>1. ReadInv'
      BY <2>2, FlowKept DEF eventVars, feedVars, serviceVars, readerVars, loopVars, jetVars,
         pollVars, ReadInv, EventTypeOK
    <3> QED
      BY <2>2, <3>1
  <2> QED
    BY <2>1, <2>2
<1> QED
  BY <1>1, ReadInit, PTL DEF EventSpec, Resumes, Forward

-----------------------------------------------------------------------------
\* After a late event the loop looks at stopped, and ends.
LEMMA LateNext ==
  ASSUME LateInv, stopped \in BOOLEAN, [EventNext]_eventVars
  PROVE  LateInv'
<1> USE DEF LateInv
<1>1. CASE Service
  BY <1>1 DEF Service, readerVars, loopVars
<1>2. CASE Firehose /\ StopCall
  BY <1>2 DEF Firehose, StopCall, feedVars, readerVars
<1>3. CASE Firehose /\ Receive
  <2>1. /\ client = "firehose" /\ client' = client /\ stopped' = stopped /\ pc = "receive" /\ pc' = "top"
        /\ late' = late \/ late' = IF stopped THEN late + 1 ELSE late
    BY <1>3 DEF Firehose, Receive, ReceiveOutdated, ReceiveEvent
  <2>2. late = 0
    BY <2>1
  <2> QED
    BY <2>1, <2>2
<1>4. CASE Firehose /\ Top
  BY <1>4 DEF Firehose, Top, loopVars
<1>5. CASE Firehose /\ (Connect \/ ConnectFail \/ Backoff \/ ReceiveLost \/ Sleep \/ ReceiveQuiet \/ ReceiveBroken)
  BY <1>5 DEF Firehose, Connect, ConnectFail, Backoff, ReceiveLost, Sleep, ReceiveQuiet,
     ReceiveBroken, loopVars
<1>6. CASE Firehose /\ End
  BY <1>6 DEF Firehose, End, loopVars
<1>7. CASE JetstreamCaller
  <2>1. late = 0 /\ late' = late
    BY <1>7 DEF JetstreamCaller, loopVars
  <2> QED
    BY <2>1
<1>8. CASE UNCHANGED eventVars
  BY <1>8 DEF eventVars, feedVars, readerVars, loopVars
<1> QED
  BY <1>1, <1>2, <1>3, <1>4, <1>5, <1>6, <1>7, <1>8 DEF EventNext, Firehose, Loop

\* wf_subscribe_stop lets at most one more event through.
THEOREM StopTakesEffect == EventSpec => []OneLateEvent
<1>1. EventInit => LateInv /\ stopped \in BOOLEAN
  BY DEF EventInit, LoopInit, LateInv
<1>2. stopped \in BOOLEAN /\ [EventNext]_eventVars => (stopped \in BOOLEAN)'
  BY Zenon DEF EventNext, eventVars, loopVars, Service, Firehose, JetstreamCaller, StopCall,
     Loop, Top,
     Connect, ConnectFail, Backoff, ReceiveLost, Sleep, ReceiveQuiet, ReceiveBroken, Receive, End
<1>3. LateInv => OneLateEvent
  BY DEF LateInv, OneLateEvent
<1> QED
  BY <1>1, <1>2, <1>3, LateNext, PTL DEF EventSpec

-----------------------------------------------------------------------------
\* The pieces taken before and the ones taken now.
LEMMA Pieced ==
  ASSUME NEW u, NEW a \in Nat, NEW n \in Nat
  PROVE  /\ Part(u, a) \o [i \in 1..n |-> <<u, a + i>>] = Part(u, a + n)
         /\ <<>> = Part(u, 0)
<1> DEFINE s == Part(u, a)
           t == [i \in 1..n |-> <<u, a + i>>]
<1>1. s \in Seq({u} \X Nat) /\ Len(s) = a /\ \A i \in 1..a : s[i] = <<u, i>>
  <2>1. s \in [1..a -> {u} \X Nat]
    BY DEF Part
  <2> QED
    BY <2>1, SeqDef, LenProperties DEF Part
<1>2. t \in Seq({u} \X Nat) /\ Len(t) = n /\ \A i \in 1..n : t[i] = <<u, a + i>>
  <2>1. t \in [1..n -> {u} \X Nat]
    OBVIOUS
  <2> QED
    BY <2>1, SeqDef, LenProperties
<1>3. Part(u, a + n) \in Seq({u} \X Nat) /\ Len(Part(u, a + n)) = a + n
      /\ \A i \in 1..(a + n) : Part(u, a + n)[i] = <<u, i>>
  <2>1. Part(u, a + n) \in [1..(a + n) -> {u} \X Nat]
    BY DEF Part
  <2> QED
    BY <2>1, SeqDef, LenProperties DEF Part
<1> HIDE DEF s, t
<1>4. s \o t \in Seq({u} \X Nat) /\ Len(s \o t) = a + n
  BY <1>1, <1>2
<1>5. ASSUME NEW i \in 1..(a + n) PROVE (s \o t)[i] = <<u, i>>
  <2>1. CASE i <= a
    BY <1>1, <1>2, <2>1
  <2>2. CASE i > a
    <3>1. i - a \in 1..n /\ a + (i - a) = i
      BY <2>2
    <3>2. (s \o t)[i] = t[i - a]
      BY <1>1, <1>2, <2>2
    <3> QED
      BY <1>2, <3>1, <3>2
  <2>3. i <= a \/ i > a
    OBVIOUS
  <2> QED
    BY <2>1, <2>2, <2>3
<1>6. s \o t = Part(u, a + n)
  BY <1>3, <1>4, <1>5, SeqEqual
<1>7. <<>> = Part(u, 0)
  BY DEF Part
<1> QED
  BY <1>6, <1>7 DEF s, t

\* What the service has once n more pieces were taken.
LEMMA TakenPart ==
  ASSUME SendInv, NEW u \in Updates, NEW n \in Nat, Taken(u, n), sock = "open",
         outgoing \in {NoUpdate, u}
  PROVE  message' = Part(u, offset + n)
<1> USE DEF SendInv
<1>0. offset \in Nat
  BY JetstreamAssumption
<1>1. CASE outgoing = NoUpdate
  <2>1. offset = 0 /\ message' = <<>> \o [i \in 1..n |-> <<u, offset + i>>]
    BY <1>1 DEF Taken
  <2> QED
    BY <1>0, <2>1, Pieced
<1>2. CASE outgoing # NoUpdate
  <2>1. outgoing = u
    BY <1>2
  <2>2. message = Part(u, offset)
    BY <1>2, <2>1
  <2>3. message' = message \o [i \in 1..n |-> <<u, offset + i>>]
    BY <1>2 DEF Taken
  <2> QED
    BY <1>0, <2>2, <2>3, Pieced
<1> QED
  BY <1>1, <1>2

\* Every step keeps what the service has and the offset in agreement.
LEMMA SendNext ==
  ASSUME SendInv, [EventNext]_eventVars
  PROVE  SendInv'
<1> USE DEF SendInv, UpdatesWhole
<1>0. Pieces \in Nat \ {0} /\ NoUpdate \notin Updates
  BY JetstreamAssumption
<1>1. ASSUME UNCHANGED <<outgoing, offset, message, agreed, client>>,
             sock' = "open" => sock = "open"
      PROVE  SendInv'
  BY <1>1
<1>2. CASE Service
  <2>1. sock' = "open" => sock = "open"
    BY <1>2 DEF Service, Publish, Expire, ServiceSend, Drop
  <2> QED
    BY <1>1, <1>2, <2>1 DEF Service, jetVars, sendVars
<1>3. CASE Firehose
  <2>1. client = "firehose" /\ UNCHANGED <<outgoing, offset, agreed, client>>
    BY <1>3 DEF Firehose, jetVars, sendVars
  <2> QED
    BY <2>1
<1>4. CASE JetstreamCaller /\ (NextBegin \/ ReopenFails \/ RetryDue \/ NextLost \/ NextQuiet \/ NextMessage \/ JetFree)
  <2>1. UNCHANGED <<outgoing, offset, message, agreed,
        client>> /\ (sock' = "open" => sock = "open")
    BY <1>4 DEF JetstreamCaller, NextBegin, ReopenFails, RetryDue, NextLost, NextQuiet,
       NextMessage, JetFree,
       Refused, jetVars, sendVars, serviceVars, feedVars
  <2> QED
    BY <1>1, <2>1
<1>5. CASE JetstreamCaller /\ (Reopen \/ JetConnect)
  <2>1. CASE NewSocket
    BY <1>0, <2>1 DEF NewSocket
  <2>2. CASE UNCHANGED <<outgoing, offset, message, agreed>> /\ Refused
    BY <1>1, <1>5, <2>2 DEF JetstreamCaller, Refused
  <2> QED
    BY <1>5, <2>1, <2>2 DEF Reopen, JetConnect
<1>6. ASSUME JetstreamCaller, NEW u \in Updates, UpdateOptions(u) PROVE SendInv'
  <2>0. /\ outgoing \in {NoUpdate, u} /\ sock' = sock /\ client = "jetstream" /\ client' = client
        /\ u # NoUpdate /\ offset \in Nat
    BY <1>0, <1>6 DEF JetstreamCaller, UpdateOptions, feedVars, serviceVars
  <2>1. CASE SendAll(u)
    <3>1. /\ Taken(u, Pieces - offset) /\ Pieces - offset \in Nat /\ offset + (Pieces - offset) = Pieces
          /\ outgoing' = NoUpdate /\ offset' = 0 /\ agreed' = u
      BY <1>0, <2>1 DEF SendAll, Sent
    <3>2. sock = "open" => message' = Whole(u)
      BY <2>0, <3>1, TakenPart DEF Whole, Part
    <3> QED
      BY <1>0, <2>0, <3>1, <3>2
  <2>2. CASE SendSome(u)
    <3>1. PICK n \in 0..(Pieces - offset - 1) : Taken(u, n) /\ offset' = offset + n
      BY <2>2 DEF SendSome
    <3>2. outgoing' = u /\ agreed' = NoUpdate /\ n \in Nat /\ offset + n \in 0..(Pieces - 1)
      BY <1>0, <2>0, <2>2, <3>1 DEF SendSome
    <3>3. sock = "open" => message' = Part(u, offset + n)
      BY <2>0, <3>1, <3>2, TakenPart
    <3> QED
      BY <2>0, <3>1, <3>2, <3>3
  <2>3. CASE SendLost
    BY <1>0, <2>0, <2>3 DEF SendLost, Sent
  <2>4. CASE SendNoMemory
    BY <2>0, <2>4 DEF SendNoMemory
  <2> QED
    BY <1>6, <2>1, <2>2, <2>3, <2>4 DEF UpdateOptions
<1>7. CASE UNCHANGED eventVars
  BY <1>1, <1>7 DEF eventVars, feedVars, serviceVars, jetVars, sendVars
<1> QED
  BY <1>2, <1>3, <1>4, <1>5, <1>6, <1>7 DEF EventNext, JetstreamCaller, Poll

\* An update of the filters that WF_OK was returned for has reached the service
\* whole, whatever the pieces it was taken in.
THEOREM UpdatesArriveWhole == EventSpec => []UpdatesWhole
<1>1. EventInit => SendInv
  BY JetstreamAssumption DEF EventInit, JetInit, SendInv, UpdatesWhole, FeedInit
<1>2. SendInv => UpdatesWhole
  BY DEF SendInv
<1> QED
  BY <1>1, <1>2, SendNext, PTL DEF EventSpec
=============================================================================
