----------------------------- MODULE SseProofs ------------------------------
(***************************************************************************)
(* NoLostWakeup, StopWalksLive and DeliveredInOrder of Sse, for every set of *)
(* streams and of producers and every number of frames.                      *)
(*                                                                           *)
(* None is inductive: a producer that gives up its call because the stream   *)
(* is gone could be the one a suspended connection waits for, unless the     *)
(* connection has ended with its stream (MemInv); a producer must be on a    *)
(* stream before it calls (SpawnInv); what stop() has yet to mark must still *)
(* be in the list (ListInv); and the order of what the client has is kept    *)
(* only if what is in the reader's hands and in the queue continues it, up   *)
(* to the last frame appended (FrameInv).                                    *)
(***************************************************************************)
EXTENDS Sse, SequenceTheorems, TLAPS

\* The types of the state, but for the frames themselves.
SseTypeOK ==
  /\ conn \in [Streams -> ConnState]
  /\ mem \in [Streams -> Mem]
  /\ chunks \in [Streams -> Seq(Producers \X Nat)]
  /\ closed \in [Streams -> BOOLEAN]
  /\ listed \subseteq Streams
  /\ target \in [Producers -> Streams \cup {NoStream}]
  /\ pc \in [Producers -> ProdPc]
  /\ sent \in [Producers -> Nat]
  /\ stop \in StopPc
  /\ unmarked \subseteq Streams

\* A stream is allocated from the request handler to the end of its connection.
MemInv ==
  \A s \in Streams :
    /\ conn[s] = "idle" <=> mem[s] = "none"
    /\ conn[s] = "ended" <=> mem[s] = "freed"

\* A producer has a stream once it was spawned.
SpawnInv == \A p \in Producers : pc[p] # "none" => target[p] \in Streams

\* Streams are listed while they are allocated, and stop() walks the list
\* under its mutex.
ListInv ==
  /\ \A s \in listed : mem[s] = "live"
  /\ unmarked \subseteq listed
  /\ stop # "mark" => unmarked = {}

IndInv == SseTypeOK /\ MemInv /\ SpawnInv /\ ListInv /\ NoLostWakeup

\* Init establishes the invariant.
LEMMA InitInv == Init => IndInv
BY SseAssumption DEF Init, IndInv, SseTypeOK, MemInv, SpawnInv, ListInv, NoLostWakeup,
   ConnState, Mem,
       ProdPc, StopPc

\* What wf_sse_stream_free does to one stream preserves it, with nothing else
\* changed.
LEMMA FreedInv ==
  ASSUME IndInv, NEW s \in Streams, conn[s] \in {"handler", "reading", "suspended"}, Freed(s),
         UNCHANGED <<closed, wire, prodVars, stopVars>>
  PROVE  IndInv'
<1> USE DEF IndInv, SseTypeOK, ConnState, Mem, prodVars, stopVars, Freed, SseMutexFree
<1>1. SseTypeOK'
  OBVIOUS
<1>2. MemInv'
  BY DEF MemInv
<1>3. SpawnInv'
  BY DEF SpawnInv
<1>4. ListInv'
  BY DEF ListInv
<1>5. NoLostWakeup'
  BY DEF NoLostWakeup
<1> QED
  BY <1>1, <1>2, <1>3, <1>4, <1>5

\* The steps of a connection preserve it.
LEMMA ConnInv ==
  ASSUME IndInv, NEW s \in Streams, Open(s) \/ ConnStep(s) \/ Drop(s)
  PROVE  IndInv'
<1> USE DEF IndInv, prodVars, stopVars
<1>1. CASE Open(s)
  <2> USE <1>1 DEF Open, SseTypeOK, ConnState, Mem
  <2>1. SseTypeOK'
    OBVIOUS
  <2>2. MemInv' /\ SpawnInv'
    BY DEF MemInv, SpawnInv
  <2>3. ListInv'
    BY DEF ListInv, SseMutexFree
  <2>4. NoLostWakeup'
    BY DEF NoLostWakeup
  <2> QED
    BY <2>1, <2>2, <2>3, <2>4
<1>2. CASE Respond(s)
  <2>1. CASE Freed(s)
    BY <1>2, <2>1, FreedInv DEF Respond
  <2>2. CASE conn' = [conn EXCEPT ![s] = "reading"] /\ UNCHANGED <<mem, chunks, listed>>
    BY <1>2, <2>2 DEF Respond, SseTypeOK, MemInv, SpawnInv, ListInv, NoLostWakeup, ConnState
  <2> QED
    BY <1>2, <2>1, <2>2 DEF Respond
<1>3. CASE ReadChunks(s)
  <2> PICK n \in 1..Len(chunks[s]) :
        chunks' = [chunks EXCEPT ![s] = SubSeq(@, n + 1, Len(@))]
    BY <1>3 DEF ReadChunks
  <2>1. SubSeq(chunks[s], n + 1, Len(chunks[s])) \in Seq(Producers \X Nat)
    BY DEF SseTypeOK
  <2>2. SseTypeOK'
    BY <1>3, <2>1 DEF ReadChunks, SseTypeOK
  <2>3. MemInv' /\ SpawnInv' /\ ListInv'
    BY <1>3 DEF ReadChunks, MemInv, SpawnInv, ListInv
  <2>4. NoLostWakeup'
    BY <1>3 DEF ReadChunks, NoLostWakeup, SseTypeOK
  <2> QED
    BY <2>2, <2>3, <2>4
<1>4. CASE ReadSuspend(s)
  BY <1>4 DEF ReadSuspend, SseTypeOK, MemInv, SpawnInv, ListInv, NoLostWakeup, ConnState
<1>5. CASE ReadEnd(s)
  BY <1>5, FreedInv DEF ReadEnd
<1>6. CASE Drop(s)
  BY <1>6, FreedInv DEF Drop
<1> QED
  BY <1>1, <1>2, <1>3, <1>4, <1>5, <1>6 DEF ConnStep

\* A resumed connection is not suspended, and its stream is where it was: the
\* call of a producer that ends with a resume, for a send or for a close.
LEMMA ResumeInv ==
  ASSUME IndInv, NEW p \in Producers, pc[p] \in {"resume", "closing"}, mem[target[p]] = "live",
         conn' = Resumed(target[p]), pc' = [pc EXCEPT ![p] = "ready"],
         UNCHANGED <<mem, chunks, closed, listed, wire, target, sent, stopVars>>
  PROVE  IndInv'
<1> USE DEF IndInv, SseTypeOK, ConnState, ProdPc, stopVars, Resumed
<1>0. target[p] \in Streams
  BY DEF SpawnInv
<1>1. SseTypeOK'
  BY <1>0
<1>2. MemInv'
  BY <1>0 DEF MemInv
<1>3. SpawnInv' /\ ListInv'
  BY DEF SpawnInv, ListInv
<1>4. NoLostWakeup'
  BY <1>0 DEF NoLostWakeup
<1> QED
  BY <1>1, <1>2, <1>3, <1>4

\* A producer that was not about to resume a connection goes on, and no stream
\* changes: whoever was about to resume one still is.
LEMMA QuietInv ==
  ASSUME IndInv, NEW p \in Producers, pc[p] \in {"ready", "append"},
         NEW v \in ProdPc \ {"none"}, pc' = [pc EXCEPT ![p] = v],
         UNCHANGED <<connVars, target, sent, stopVars>>
  PROVE  IndInv'
<1> USE DEF IndInv, SseTypeOK, connVars, stopVars, ProdPc
<1>1. SseTypeOK' /\ MemInv' /\ SpawnInv' /\ ListInv'
  BY DEF MemInv, SpawnInv, ListInv
<1>2. ASSUME NEW s \in Streams, conn[s] = "suspended", chunks[s] # <<>> \/ closed[s]
      PROVE  \E q \in Producers : target'[q] = s /\ pc'[q] \in {"resume", "closing"}
  <2> PICK q \in Producers : target[q] = s /\ pc[q] \in {"resume", "closing"}
    BY <1>2 DEF NoLostWakeup
  <2> QED
    OBVIOUS
<1>3. NoLostWakeup'
  BY <1>2 DEF NoLostWakeup
<1> QED
  BY <1>1, <1>3

\* The steps of a producer preserve it.
LEMMA ProdInv ==
  ASSUME IndInv, NEW p \in Producers, ProdStep(p)
  PROVE  IndInv'
<1> USE DEF IndInv, connVars, stopVars
<1>0. pc[p] # "none" => target[p] \in Streams
  BY DEF SpawnInv
<1>1. CASE UseFreed(p)
  BY <1>0, <1>1 DEF UseFreed, SseTypeOK, MemInv, SpawnInv, ListInv, NoLostWakeup, ProdPc
<1>2. CASE SendCheck(p)
  <2>1. /\ pc[p] = "ready"
        /\ pc' = [pc EXCEPT ![p] = "done"] \/ pc' = [pc EXCEPT ![p] = "append"]
        /\ UNCHANGED <<connVars, target, sent, stopVars>>
    BY <1>2 DEF SendCheck
  <2> QED
    BY <2>1, QuietInv DEF ProdPc
<1>3. CASE SendAppend(p)
  <2>0. target[p] \in Streams /\ pc[p] = "append"
    BY <1>0, <1>3 DEF SendAppend
  <2>1. CASE /\ chunks' = [chunks EXCEPT ![target[p]] = Append(@, <<p, sent[p] + 1>>)]
             /\ sent' = [sent EXCEPT ![p] = @ + 1]
             /\ pc' = [pc EXCEPT ![p] = "resume"]
             /\ UNCHANGED <<conn, mem, closed, listed, wire, target, stopVars>>
    <3>1. Append(chunks[target[p]], <<p, sent[p] + 1>>) \in Seq(Producers \X Nat)
      BY <2>0 DEF SseTypeOK
    <3>2. SseTypeOK'
      BY <2>0, <2>1, <3>1 DEF SseTypeOK, ProdPc
    <3>3. MemInv' /\ SpawnInv' /\ ListInv'
      BY <2>0, <2>1 DEF MemInv, SpawnInv, ListInv, SseTypeOK
    <3>4. NoLostWakeup'
      BY <2>0, <2>1 DEF NoLostWakeup, SseTypeOK
    <3> QED
      BY <3>2, <3>3, <3>4
  <2>2. CASE /\ pc' = [pc EXCEPT ![p] = "ready"]
             /\ UNCHANGED <<conn, mem, chunks, closed, listed, wire, target, sent, stopVars>>
    BY <2>0, <2>2, QuietInv DEF ProdPc
  <2> QED
    BY <1>3, <2>1, <2>2 DEF SendAppend
<1>4. CASE SendResume(p)
  BY <1>4, ResumeInv DEF SendResume
<1>5. CASE CloseMark(p)
  <2>0. target[p] \in Streams /\ pc[p] = "ready"
    BY <1>0, <1>5 DEF CloseMark
  <2>1. CASE /\ closed' = [closed EXCEPT ![target[p]] = TRUE]
             /\ pc' = [pc EXCEPT ![p] = "closing"]
             /\ UNCHANGED <<conn, mem, chunks, listed, wire, target, sent, stopVars>>
    <3>1. SseTypeOK'
      BY <2>0, <2>1 DEF SseTypeOK, ProdPc
    <3>2. MemInv' /\ SpawnInv' /\ ListInv'
      BY <2>0, <2>1 DEF MemInv, SpawnInv, ListInv, SseTypeOK
    <3>3. NoLostWakeup'
      BY <2>0, <2>1 DEF NoLostWakeup, SseTypeOK
    <3> QED
      BY <3>1, <3>2, <3>3
  <2>2. CASE /\ pc' = [pc EXCEPT ![p] = "done"]
             /\ UNCHANGED <<conn, mem, chunks, closed, listed, wire, target, sent, stopVars>>
    BY <2>0, <2>2, QuietInv DEF ProdPc
  <2> QED
    BY <1>5, <2>1, <2>2 DEF CloseMark
<1>6. CASE CloseResume(p)
  BY <1>6, ResumeInv DEF CloseResume
<1> QED
  BY <1>1, <1>2, <1>3, <1>4, <1>5, <1>6 DEF ProdStep

\* The steps of stop() preserve it.
LEMMA StopInv ==
  ASSUME IndInv, StopStep
  PROVE  IndInv'
<1> USE DEF IndInv, SseTypeOK, connVars, prodVars, StopPc
<1>1. ASSUME NEW s \in Streams, StopMark(s) PROVE IndInv'
  <2> USE <1>1 DEF StopMark, Resumed, ConnState
  <2>1. SseTypeOK'
    OBVIOUS
  <2>2. MemInv' /\ SpawnInv' /\ ListInv'
    BY DEF MemInv, SpawnInv, ListInv
  <2>3. NoLostWakeup'
    BY DEF NoLostWakeup
  <2> QED
    BY <2>1, <2>2, <2>3
<1>2. CASE StopBegin \/ StopMarked \/ StopDaemon \/ StopReturn
  BY <1>2 DEF StopBegin, StopMarked, StopDaemon, StopReturn, MemInv, SpawnInv, ListInv,
     NoLostWakeup
<1> QED
  BY <1>1, <1>2 DEF StopStep

\* Every step preserves it.
LEMMA NextInv == IndInv /\ [Next]_vars => IndInv'
<1> SUFFICES ASSUME IndInv, [Next]_vars PROVE IndInv'
  OBVIOUS
<1>1. ASSUME NEW s \in Streams, NEW p \in Producers, Spawn(s, p) PROVE IndInv'
  <2>1. SseTypeOK'
    BY <1>1 DEF Spawn, IndInv, SseTypeOK, ProdPc, connVars, stopVars
  <2>2. MemInv' /\ SpawnInv' /\ ListInv'
    BY <1>1 DEF Spawn, IndInv, SseTypeOK, MemInv, SpawnInv, ListInv, ProdPc, connVars, stopVars
  <2>3. NoLostWakeup'
    BY <1>1 DEF Spawn, IndInv, SseTypeOK, SpawnInv, NoLostWakeup, connVars, stopVars
  <2> QED
    BY <2>1, <2>2, <2>3 DEF IndInv
<1>2. CASE UNCHANGED vars
  BY <1>2 DEF vars, connVars, prodVars, stopVars, IndInv, SseTypeOK, MemInv, SpawnInv, ListInv,
              NoLostWakeup
<1> QED
  BY <1>1, <1>2, ConnInv, ProdInv, StopInv DEF Next, Terminated

\* No connection stays suspended while frames are queued or its stream is
\* closed, unless a call is about to resume it (wf_sse_content_reader suspends
\* under the stream mutex).
THEOREM NoWakeupLost == Spec => []NoLostWakeup
<1>1. IndInv => NoLostWakeup
  BY DEF IndInv
<1> QED
  BY <1>1, InitInv, NextInv, PTL DEF Spec

\* wf_xrpc_server_stop meets only streams that are still allocated.
THEOREM WalksLive == Spec => []StopWalksLive
<1>1. IndInv => StopWalksLive
  BY DEF IndInv, ListInv, StopWalksLive
<1> QED
  BY <1>1, InitInv, NextInv, PTL DEF Spec

-----------------------------------------------------------------------------
(* DeliveredInOrder.  It takes, besides, that a frame in a stream is of a    *)
(* producer of that stream, which sends nothing before it is spawned.  Good   *)
(* says so of one sequence of frames, so that what the steps do to it can be  *)
(* stated without the rest of the state.                                      *)

Frames == Producers \X Nat

\* The frames q of stream s, whose connection is in state c, when the producers
\* have the streams tgt and have sent snt frames.
Good(q, s, c, tgt, snt) ==
  /\ q \in Seq(Frames)
  /\ Ascending(q) /\ Gapless(q)
  /\ \A i \in 1..Len(q) : /\ q[i][2] # 0 /\ q[i][2] <= snt[q[i][1]]
                          /\ tgt[q[i][1]] = s
  /\ c # "ended" =>
       \A p \in Producers : tgt[p] = s =>
         \A n \in 1..snt[p] : \E i \in 1..Len(q) : q[i] = <<p, n>>

FrameInv ==
  /\ wire \in [Streams -> Seq(Frames)]
  /\ \A p \in Producers : pc[p] = "none" => sent[p] = 0
  /\ \A s \in Streams : Good(Stream(s), s, conn[s], target, sent)

\* Moving frames from the queue to the wire, and queueing one more.
LEMMA Moving ==
  ASSUME NEW w \in Seq(Frames), NEW c \in Seq(Frames)
  PROVE  /\ w \o <<>> = w
         /\ \A e \in Frames : w \o Append(c, e) = Append(w \o c, e)
         /\ \A n \in 1..Len(c) :
              (w \o SubSeq(c, 1, n)) \o SubSeq(c, n + 1, Len(c)) = w \o c
<1>1. w \o <<>> = w
  BY ConcatEmptySeq
<1>2. ASSUME NEW e \in Frames PROVE w \o Append(c, e) = Append(w \o c, e)
  <2>1. <<e>> \in Seq(Frames) /\ w \o c \in Seq(Frames)
    OBVIOUS
  <2>2. Append(c, e) = c \o <<e>> /\ Append(w \o c, e) = (w \o c) \o <<e>>
    BY <2>1, AppendIsConcat
  <2> QED
    BY <2>1, <2>2, ConcatAssociative
<1>3. ASSUME NEW n \in 1..Len(c)
      PROVE  (w \o SubSeq(c, 1, n)) \o SubSeq(c, n + 1, Len(c)) = w \o c
  <2>1. SubSeq(c, 1, n) \in Seq(Frames) /\ SubSeq(c, n + 1, Len(c)) \in Seq(Frames)
    OBVIOUS
  <2>2. SubSeq(c, 1, n) \o SubSeq(c, n + 1, Len(c)) = SubSeq(c, 1, Len(c))
    BY ConcatAdjacentSubSeq
  <2>3. SubSeq(c, 1, Len(c)) = c
    BY SubSeqFull
  <2>4. ASSUME NEW a \in Seq(Frames), NEW b \in Seq(Frames), a \o b = c
        PROVE  (w \o a) \o b = w \o c
    <3> DEFINE l == (w \o a) \o b
               r == w \o c
    <3>1. /\ l \in Seq(Frames) /\ r \in Seq(Frames)
          /\ Len(l) = Len(w) + Len(a) + Len(b) /\ Len(r) = Len(w) + Len(c)
          /\ Len(c) = Len(a) + Len(b)
      BY <2>4
    <3>2. \A i \in 1..Len(l) : l[i] = IF i <= Len(w) THEN w[i]
                                     ELSE IF i <= Len(w) + Len(a) THEN a[i - Len(w)]
                                     ELSE b[i - Len(w) - Len(a)]
      OBVIOUS
    <3>3. \A i \in 1..Len(r) : r[i] = IF i <= Len(w) THEN w[i] ELSE c[i - Len(w)]
      OBVIOUS
    <3>4. \A i \in 1..Len(c) : c[i] = IF i <= Len(a) THEN a[i] ELSE b[i - Len(a)]
      BY <2>4
    <3> HIDE DEF l, r
    <3>5. ASSUME NEW i \in 1..Len(l) PROVE l[i] = r[i]
      <4>1. Len(w) \in Nat /\ Len(a) \in Nat /\ Len(b) \in Nat /\ i \in 1..Len(r)
        BY <3>1
      <4>2. CASE i <= Len(w)
        BY <3>2, <3>3, <4>1, <4>2
      <4>3. CASE i > Len(w)
        <5>1. i - Len(w) \in 1..Len(c)
          BY <3>1, <4>1, <4>3
        <5>2. c[i - Len(w)] = IF i <= Len(w) + Len(a) THEN a[i - Len(w)]
                              ELSE b[i - Len(w) - Len(a)]
          BY <3>4, <4>1, <5>1
        <5> QED
          BY <3>2, <3>3, <4>1, <4>3, <5>2
      <4> QED
        BY <4>1, <4>2, <4>3
    <3>6. l = r
      BY <3>1, <3>5, SeqEqual
    <3> QED
      BY <3>6 DEF l, r
  <2> QED
    BY <2>1, <2>2, <2>3, <2>4
<1> QED
  BY <1>1, <1>2, <1>3

\* What a stream loses at its end is the end of its frames.
LEMMA Cut ==
  ASSUME NEW w \in Seq(Frames), NEW c \in Seq(Frames), Ascending(w \o c), Gapless(w \o c)
  PROVE  Ascending(w) /\ Gapless(w)
<1>1. /\ w \o c \in Seq(Frames)
      /\ Len(w) \in Nat /\ Len(w \o c) = Len(w) + Len(c) /\ Len(c) \in Nat
      /\ \A i \in 1..Len(w) : (w \o c)[i] = w[i]
  BY ConcatProperties
<1>2. Ascending(w)
  BY <1>1 DEF Ascending
<1>3. ASSUME NEW j \in 1..Len(w), NEW n \in 1..(w[j][2] - 1)
      PROVE  \E i \in 1..(j - 1) : w[i] = <<w[j][1], n>>
  <2>1. j \in 1..Len(w \o c) /\ (w \o c)[j] = w[j]
    BY <1>1
  <2>2. PICK i \in 1..(j - 1) : (w \o c)[i] = <<w[j][1], n>>
    BY <2>1 DEF Gapless
  <2> QED
    BY <1>1, <2>2
<1> QED
  BY <1>2, <1>3 DEF Gapless

\* The next frame of a producer all of whose frames are there.
LEMMA OneMoreFrame ==
  ASSUME NEW q \in Seq(Frames), NEW p \in Producers, NEW m \in Nat, Ascending(q), Gapless(q),
         \A i \in 1..Len(q) : q[i][1] = p => q[i][2] <= m,
         \A n \in 1..m : \E i \in 1..Len(q) : q[i] = <<p, n>>
  PROVE  Ascending(Append(q, <<p, m + 1>>)) /\ Gapless(Append(q, <<p, m + 1>>))
<1> DEFINE r == Append(q, <<p, m + 1>>)
<1>1. /\ Len(q) \in Nat /\ Len(r) = Len(q) + 1 /\ r[Len(q) + 1] = <<p, m + 1>>
      /\ \A i \in 1..Len(q) : r[i] = q[i]
  OBVIOUS
<1>2. \A i \in 1..Len(q) : q[i][1] \in Producers /\ q[i][2] \in Nat
  BY DEF Frames
<1> HIDE DEF r
<1>3. ASSUME NEW i \in 1..Len(r), NEW j \in 1..Len(r), i < j, r[i][1] = r[j][1]
      PROVE  r[i][2] < r[j][2]
  <2>1. i \in 1..Len(q) /\ r[i] = q[i]
    BY <1>1, <1>3
  <2>2. CASE j \in 1..Len(q)
    <3>1. r[j] = q[j]
      BY <1>1, <2>2
    <3> QED
      BY <1>3, <2>1, <2>2, <3>1 DEF Ascending
  <2>3. CASE j = Len(q) + 1
    <3>1. r[j][1] = p /\ r[j][2] = m + 1
      BY <1>1, <2>3
    <3>2. q[i][1] = p
      BY <1>3, <2>1, <3>1
    <3> QED
      BY <1>2, <2>1, <3>1, <3>2
  <2> QED
    BY <1>1, <2>2, <2>3
<1>4. ASSUME NEW j \in 1..Len(r), NEW n \in 1..(r[j][2] - 1)
      PROVE  \E i \in 1..(j - 1) : r[i] = <<r[j][1], n>>
  <2>1. CASE j \in 1..Len(q)
    <3>1. PICK i \in 1..(j - 1) : q[i] = <<q[j][1], n>>
      BY <1>1, <1>4, <2>1 DEF Gapless
    <3>2. i \in 1..Len(q) /\ r[i] = q[i] /\ r[j] = q[j]
      BY <1>1, <2>1
    <3> QED
      BY <3>1, <3>2
  <2>2. CASE j = Len(q) + 1
    <3>1. n \in 1..m /\ r[j][1] = p
      BY <1>1, <1>4, <2>2
    <3>2. PICK i \in 1..Len(q) : q[i] = <<p, n>>
      BY <3>1
    <3>3. r[i] = <<r[j][1], n>> /\ i \in 1..(j - 1)
      BY <1>1, <2>2, <3>1, <3>2
    <3> QED
      BY <3>3
  <2> QED
    BY <1>1, <2>1, <2>2
<1> QED
  BY <1>3, <1>4 DEF Ascending, Gapless, r

\* A stream that ends drops the frames still queued.
LEMMA GoodCut ==
  ASSUME NEW w \in Seq(Frames), NEW k \in Seq(Frames), NEW s \in Streams, NEW c, NEW tgt, NEW snt,
         Good(w \o k, s, c, tgt, snt)
  PROVE  Good(w, s, "ended", tgt, snt)
<1>1. \A i \in 1..Len(w) : i \in 1..Len(w \o k) /\ (w \o k)[i] = w[i]
  BY ConcatProperties
<1> QED
  BY <1>1, Cut DEF Good

\* A producer of the stream queues its next frame.
LEMMA GoodMore ==
  ASSUME NEW q, NEW s \in Streams, NEW c, c # "ended",
         NEW tgt \in [Producers -> Streams \cup {NoStream}], NEW snt \in [Producers -> Nat],
         Good(q, s, c, tgt, snt), NEW p \in Producers, tgt[p] = s
  PROVE  Good(Append(q, <<p, snt[p] + 1>>), s, c, tgt, [snt EXCEPT ![p] = @ + 1])
<1> DEFINE m == snt[p]
           r == Append(q, <<p, m + 1>>)
           now == [snt EXCEPT ![p] = @ + 1]
<1>1. /\ m \in Nat /\ q \in Seq(Frames) /\ <<p, m + 1>> \in Frames
      /\ now[p] = m + 1 /\ \A o \in Producers : o # p => now[o] = snt[o]
  BY DEF Good, Frames
<1>2. /\ r \in Seq(Frames) /\ Len(q) \in Nat /\ Len(r) = Len(q) + 1
      /\ r[Len(q) + 1] = <<p, m + 1>> /\ \A i \in 1..Len(q) : r[i] = q[i]
  BY <1>1
<1>3. Ascending(r) /\ Gapless(r)
  BY <1>1, OneMoreFrame DEF Good
<1>4. \A i \in 1..Len(q) : q[i][1] \in Producers /\ q[i][2] \in Nat
  BY <1>1 DEF Frames
<1> HIDE DEF m, r, now
<1>5. ASSUME NEW i \in 1..Len(r)
      PROVE  r[i][2] # 0 /\ r[i][2] <= now[r[i][1]] /\ tgt[r[i][1]] = s
  <2>1. CASE i = Len(q) + 1
    BY <1>1, <1>2, <2>1
  <2>2. CASE i \in 1..Len(q)
    <3>1. q[i][2] # 0 /\ q[i][2] <= snt[q[i][1]] /\ tgt[q[i][1]] = s
      BY <2>2 DEF Good
    <3>2. now[q[i][1]] \in Nat /\ snt[q[i][1]] \in Nat /\ snt[q[i][1]] <= now[q[i][1]]
      <4>1. q[i][1] \in Producers
        BY <1>4, <2>2
      <4>2. CASE q[i][1] = p
        BY <1>1, <4>2 DEF m
      <4>3. CASE q[i][1] # p
        BY <1>1, <4>1, <4>3
      <4> QED
        BY <4>2, <4>3
    <3>3. q[i][2] \in Nat /\ r[i] = q[i]
      BY <1>2, <1>4, <2>2
    <3> QED
      BY <3>1, <3>2, <3>3
  <2> QED
    BY <1>2, <2>1, <2>2
<1>6. ASSUME NEW o \in Producers, tgt[o] = s, NEW n \in 1..now[o]
      PROVE  \E i \in 1..Len(r) : r[i] = <<o, n>>
  <2>1. CASE o = p /\ n = m + 1
    BY <1>2, <2>1
  <2>2. CASE n \in 1..snt[o]
    <3>1. PICK i \in 1..Len(q) : q[i] = <<o, n>>
      BY <1>6, <2>2 DEF Good
    <3> QED
      BY <1>2, <3>1
  <2> QED
    BY <1>1, <1>6, <2>1, <2>2 DEF m
<1> QED
  BY <1>2, <1>3, <1>5, <1>6 DEF Good, r, now, m

\* A producer of another stream sends a frame there.
LEMMA GoodOther ==
  ASSUME NEW q, NEW s \in Streams, NEW c,
         NEW tgt \in [Producers -> Streams \cup {NoStream}], NEW snt \in [Producers -> Nat],
         Good(q, s, c, tgt, snt), NEW p \in Producers, tgt[p] # s
  PROVE  Good(q, s, c, tgt, [snt EXCEPT ![p] = @ + 1])
<1>1. \A i \in 1..Len(q) : q[i][1] \in Producers \ {p}
  <2>1. \A i \in 1..Len(q) : q[i][1] \in Producers
    BY DEF Good, Frames
  <2> QED
    BY <2>1 DEF Good
<1> QED
  BY <1>1 DEF Good

\* A producer is spawned for stream t.
LEMMA GoodSpawn ==
  ASSUME NEW q, NEW s \in Streams, NEW c,
         NEW tgt \in [Producers -> Streams \cup {NoStream}], NEW snt \in [Producers -> Nat],
         Good(q, s, c, tgt, snt), NEW p \in Producers, snt[p] = 0, NEW t \in Streams
  PROVE  Good(q, s, c, [tgt EXCEPT ![p] = t], snt)
<1>1. \A i \in 1..Len(q) : q[i][1] \in Producers /\ q[i][2] \in Nat
  BY DEF Good, Frames
<1>2. \A i \in 1..Len(q) : q[i][1] # p
  BY <1>1 DEF Good
<1>3. ASSUME NEW o \in Producers, [tgt EXCEPT ![p] = t][o] = s, NEW n \in 1..snt[o], c # "ended"
      PROVE  \E i \in 1..Len(q) : q[i] = <<o, n>>
  <2>1. o # p /\ tgt[o] = s
    BY <1>3
  <2> QED
    BY <1>3, <2>1 DEF Good
<1>4. \A i \in 1..Len(q) : [tgt EXCEPT ![p] = t][q[i][1]] = s
  BY <1>1, <1>2 DEF Good
<1> QED
  BY <1>3, <1>4 DEF Good

\* A step that leaves the frames of every stream as they are preserves FrameInv.
LEMMA FramesKept ==
  ASSUME FrameInv, wire' \in [Streams -> Seq(Frames)],
         \A s \in Streams : Stream(s)' = Stream(s), UNCHANGED <<target, sent>>,
         \A s \in Streams : conn'[s] # "ended" => conn[s] # "ended",
         \A p \in Producers : pc'[p] = "none" => pc[p] = "none"
  PROVE  FrameInv'
<1>1. ASSUME NEW s \in Streams PROVE Good(Stream(s), s, conn'[s], target, sent)
  BY DEF FrameInv, Good
<1>2. \A p \in Producers : pc'[p] = "none" => sent'[p] = 0
  BY DEF FrameInv
<1> QED
  BY <1>1, <1>2 DEF FrameInv

\* So does the end of a stream (wf_sse_stream_free).
LEMMA FramesCut ==
  ASSUME IndInv, FrameInv, NEW s \in Streams, Freed(s),
         UNCHANGED <<closed, wire, prodVars, stopVars>>
  PROVE  FrameInv'
<1>0. /\ wire[s] \in Seq(Frames) /\ chunks[s] \in Seq(Frames)
      /\ UNCHANGED <<wire, target, pc, sent>>
  BY DEF IndInv, SseTypeOK, FrameInv, Frames, prodVars
<1>1. \A t \in Streams : t # s => Stream(t)' = Stream(t) /\ conn'[t] = conn[t]
  BY <1>0 DEF Freed, Stream, IndInv, SseTypeOK
<1>2. Stream(s)' = wire[s] /\ conn'[s] = "ended"
  BY <1>0, Moving DEF Freed, Stream, IndInv, SseTypeOK
<1>3. Good(wire[s], s, "ended", target, sent)
  BY <1>0, GoodCut DEF FrameInv, Stream
<1> QED
  BY <1>0, <1>1, <1>2, <1>3 DEF FrameInv

\* So does the next frame of a producer (wf_sse_append_locked).
LEMMA FramesMore ==
  ASSUME IndInv, FrameInv, NEW p \in Producers, NEW s \in Streams, target[p] = s,
         conn[s] # "ended", pc[p] # "none",
         chunks' = [chunks EXCEPT ![s] = Append(@, <<p, sent[p] + 1>>)],
         sent' = [sent EXCEPT ![p] = @ + 1], pc' = [pc EXCEPT ![p] = "resume"],
         UNCHANGED <<conn, wire, target>>
  PROVE  FrameInv'
<1>0. /\ wire[s] \in Seq(Frames) /\ chunks[s] \in Seq(Frames) /\ <<p, sent[p] + 1>> \in Frames
      /\ target \in [Producers -> Streams \cup {NoStream}] /\ sent \in [Producers -> Nat]
      /\ chunks'[s] = Append(chunks[s], <<p, sent[p] + 1>>)
  BY DEF IndInv, SseTypeOK, FrameInv, Frames
<1>1. Stream(s)' = Append(Stream(s), <<p, sent[p] + 1>>)
  <2>1. wire[s] \o Append(chunks[s], <<p, sent[p] + 1>>) = Append(Stream(s), <<p, sent[p] + 1>>)
    BY <1>0, Moving DEF Stream
  <2> QED
    BY <1>0, <2>1 DEF Stream
<1>2. Good(Stream(s)', s, conn[s], target, sent')
  <2>1. Good(Stream(s), s, conn[s], target, sent)
    BY DEF FrameInv
  <2>2. Good(Append(Stream(s), <<p, sent[p] + 1>>), s, conn[s], target,
        [sent EXCEPT ![p] = @ + 1])
    BY <1>0, <2>1, GoodMore
  <2> QED
    BY <1>1, <2>2
<1>3. ASSUME NEW t \in Streams, t # s PROVE Good(Stream(t)', t, conn[t], target, sent')
  <2>1. Stream(t)' = Stream(t)
    BY <1>3 DEF Stream, IndInv, SseTypeOK
  <2> QED
    BY <1>0, <1>3, <2>1, GoodOther DEF FrameInv
<1>4. \A q \in Producers : pc'[q] = "none" => sent'[q] = 0
  BY DEF FrameInv, IndInv, SseTypeOK
<1> QED
  BY <1>2, <1>3, <1>4 DEF FrameInv

\* Init establishes it.
LEMMA FrameInit == Init => FrameInv
<1> SUFFICES ASSUME Init PROVE FrameInv
  OBVIOUS
<1>1. \A s \in Streams : Stream(s) = <<>>
  <2>1. <<>> \in Seq(Frames) /\ <<>> \o <<>> = <<>>
    BY ConcatEmptySeq
  <2> QED
    BY <2>1 DEF Init, Stream
<1>2. <<>> \in Seq(Frames) /\ Len(<<>>) = 0
  OBVIOUS
<1>3. ASSUME NEW s \in Streams PROVE Good(<<>>, s, conn[s], target, sent)
  BY <1>2 DEF Init, Good, Ascending, Gapless
<1> QED
  BY <1>1, <1>2, <1>3 DEF Init, FrameInv

\* Every step preserves it.
LEMMA FrameNext == IndInv /\ FrameInv /\ [Next]_vars => FrameInv'
<1> SUFFICES ASSUME IndInv, FrameInv, [Next]_vars PROVE FrameInv'
  OBVIOUS
<1>0. wire \in [Streams -> Seq(Frames)] /\ chunks \in [Streams -> Seq(Frames)]
  BY DEF IndInv, SseTypeOK, FrameInv, Frames
<1>1. ASSUME NEW s \in Streams, ReadChunks(s) PROVE FrameInv'
  <2> PICK n \in 1..Len(chunks[s]) :
        /\ wire' = [wire EXCEPT ![s] = @ \o SubSeq(chunks[s], 1, n)]
        /\ chunks' = [chunks EXCEPT ![s] = SubSeq(@, n + 1, Len(@))]
    BY <1>1 DEF ReadChunks
  <2>1. wire[s] \o SubSeq(chunks[s], 1, n) \in Seq(Frames)
    <3>1. SubSeq(chunks[s], 1, n) \in Seq(Frames)
      BY <1>0
    <3> QED
      BY <1>0, <3>1
  <2>2. Stream(s)' = Stream(s)
    <3>1. (wire[s] \o SubSeq(chunks[s], 1, n)) \o SubSeq(chunks[s], n + 1, Len(chunks[s]))
            = wire[s] \o chunks[s]
      BY <1>0, Moving
    <3>2. /\ wire'[s] = wire[s] \o SubSeq(chunks[s], 1, n)
          /\ chunks'[s] = SubSeq(chunks[s], n + 1, Len(chunks[s]))
      BY <1>0
    <3> QED
      BY <3>1, <3>2 DEF Stream
  <2>3. \A t \in Streams : t # s => Stream(t)' = Stream(t)
    BY <1>0 DEF Stream
  <2>4. wire' \in [Streams -> Seq(Frames)]
    BY <1>0, <2>1
  <2>5. UNCHANGED <<conn, target, pc, sent>>
    BY <1>1 DEF ReadChunks, prodVars
  <2> QED
    BY <2>2, <2>3, <2>4, <2>5, FramesKept
<1>2. ASSUME NEW s \in Streams, ReadEnd(s) \/ Drop(s) \/ (Respond(s) /\ Freed(s)) PROVE FrameInv'
  BY <1>2, FramesCut DEF ReadEnd, Drop, Respond
<1>3. ASSUME NEW p \in Producers, SendAppend(p), sent' # sent PROVE FrameInv'
  <2>1. target[p] \in Streams /\ conn[target[p]] # "ended"
    BY <1>3 DEF SendAppend, IndInv, SpawnInv, MemInv
  <2>2. /\ chunks' = [chunks EXCEPT ![target[p]] = Append(@, <<p, sent[p] + 1>>)]
        /\ sent' = [sent EXCEPT ![p] = @ + 1] /\ pc' = [pc EXCEPT ![p] = "resume"]
        /\ UNCHANGED <<conn, wire, target>> /\ pc[p] # "none"
    BY <1>3 DEF SendAppend
  <2> QED
    BY <2>1, <2>2, FramesMore
<1>4. ASSUME NEW s \in Streams, NEW p \in Producers, Spawn(s, p) PROVE FrameInv'
  <2>1. /\ target' = [target EXCEPT ![p] = s] /\ pc[p] = "none" /\ pc' = [pc EXCEPT ![p] = "ready"]
        /\ UNCHANGED <<conn, wire, chunks, sent>> /\ sent[p] = 0
    BY <1>4 DEF Spawn, connVars, FrameInv
  <2>2. \A t \in Streams : Good(Stream(t), t, conn[t], target', sent)
    BY <2>1, GoodSpawn DEF FrameInv, IndInv, SseTypeOK
  <2>3. \A t \in Streams : Stream(t)' = Stream(t)
    BY <2>1 DEF Stream
  <2> QED
    BY <2>1, <2>2, <2>3 DEF FrameInv, IndInv, SseTypeOK
<1>5. ASSUME UNCHANGED <<wire, chunks, target, sent>>,
             \A s \in Streams : conn'[s] # "ended" => conn[s] # "ended",
             \A p \in Producers : pc'[p] = "none" => pc[p] = "none"
      PROVE  FrameInv'
  BY <1>0, <1>5, FramesKept DEF Stream
<1>6. ASSUME NEW s \in Streams, Open(s) \/ ReadSuspend(s) \/ (Respond(s) /\ ~Freed(s)) PROVE FrameInv'
  BY <1>5, <1>6 DEF Open, ReadSuspend, Respond, prodVars, IndInv, SseTypeOK
<1>7. ASSUME NEW p \in Producers, ProdStep(p), sent' = sent PROVE FrameInv'
  <2>1. UNCHANGED <<wire, chunks, target>>
    BY <1>7 DEF ProdStep, UseFreed, SendCheck, SendAppend, SendResume, CloseMark, CloseResume,
       connVars,
                IndInv, SseTypeOK
  <2>2. \A q \in Producers : pc'[q] = "none" => pc[q] = "none"
    BY <1>7 DEF ProdStep, UseFreed, SendCheck, SendAppend, SendResume, CloseMark, CloseResume,
                IndInv, SseTypeOK
  <2>3. \A s \in Streams : conn'[s] # "ended" => conn[s] # "ended"
    BY <1>7 DEF ProdStep, UseFreed, SendCheck, SendAppend, SendResume, CloseMark, CloseResume,
       connVars,
                Resumed, IndInv, SseTypeOK
  <2> QED
    BY <1>5, <1>7, <2>1, <2>2, <2>3
<1>8. CASE StopStep
  BY <1>5, <1>8 DEF StopStep, StopBegin, StopMark, StopMarked, StopDaemon, StopReturn, connVars,
                    prodVars, Resumed, IndInv, SseTypeOK
<1>9. CASE UNCHANGED vars
  BY <1>5, <1>9 DEF vars, connVars, prodVars
<1>10. \A p \in Producers : ProdStep(p) /\ sent' # sent => SendAppend(p)
  BY DEF ProdStep, UseFreed, SendCheck, SendResume, CloseMark, CloseResume
<1> QED
  BY <1>1, <1>2, <1>3, <1>4, <1>6, <1>7, <1>8, <1>9, <1>10 DEF Next, ConnStep, Terminated

\* The frames of each producer are delivered in the order of its sends, without
\* a gap, and until the connection ends none is lost (wf_sse_append_locked and
\* wf_sse_content_reader, under the stream mutex).
THEOREM InOrder == Spec => []DeliveredInOrder
<1>1. FrameInv => DeliveredInOrder
  BY DEF FrameInv, Good, DeliveredInOrder
<1> QED
  BY <1>1, InitInv, NextInv, FrameInit, FrameNext, PTL DEF Spec
=============================================================================
