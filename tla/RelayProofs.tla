----------------------------- MODULE RelayProofs ----------------------------
(***************************************************************************)
(* The safety properties of a WebSocket stream and of the relay on it, for  *)
(* every set of producers and payloads and every number of messages.        *)
(*                                                                         *)
(* None is inductive.  NothingAfterClose needs that a close frame is only   *)
(* on the wire of a closed stream (CloseInv); GoneUnheld that worker_refs   *)
(* is the number of those who hold the stream (RefInv); ForwardedInOrder    *)
(* everything between the upstream and the wire: the pieces of messages in  *)
(* the socket are consecutive from the message that is to be sent next, and *)
(* of the current session no earlier message is missing (ForwardInv).       *)
(***************************************************************************)
EXTENDS Relay, FiniteSetTheorems, SequenceTheorems, TLAPS

\* The frames that may be on the wire.
Bodies == Payloads \cup {NoBody} \cup (Nat \X Nat)
Frames == [op : {"data", "ping", "pong", "close"}, body : Bodies, sent : {"whole", "part"}]

\* The types of the state that the proofs are about.
RelayTypeOK ==
  /\ closed \in BOOLEAN
  /\ workerRefs \in Nat
  /\ wire \in Seq(Frames)
  /\ serve \in {"handler", "serving", "leaving", "gone"}
  /\ caller \in [Producers -> {"idle", "holding", "done"}]
  /\ handler \in {"relay", "producers"}
  /\ fwd \in {"none", "connect", "receive", "sleep", "close", "release", "done"}
  /\ up \in {"none", "open", "dropped"}
  /\ rest \in BOOLEAN
  /\ inbox \in Seq(Nat)
  /\ pending \in Nat /\ published \in Nat /\ session \in Nat
  /\ relay \in {"live", "freed"}

\* Every close frame was written by someone who had set closed.
CloseInv ==
  /\ NothingAfterClose
  /\ \A i \in 1..Len(wire) : wire[i].op = "close" => closed

Holders == {p \in Producers : caller[p] = "holding"}

\* The reference count is the number of those who hold the stream, and a worker
\* that is gone has seen it at zero, on a stream nobody can retain any more.
RefInv ==
  /\ handler = "relay" => /\ Holders = {}
                          /\ workerRefs = IF fwd \in {"none", "done"} THEN 0 ELSE 1
  /\ handler = "producers" => /\ fwd = "none"
                              /\ workerRefs = Cardinality(Holders)
  /\ serve = "gone" => closed /\ workerRefs = 0
  /\ relay = "freed" => serve = "gone"

\* The data frames of w are messages before b, of sessions up to s.
Bounded(w, b, s) ==
  \A i \in 1..Len(w) :
    w[i].op = "data" => w[i].body \in Nat \X Nat /\ w[i].body[1] < b /\ w[i].body[2] <= s

\* Since the first message of session s in w, none before b is missing.
Caught(w, b, s) ==
  \A i \in 1..Len(w) :
    w[i].op = "data" /\ w[i].body[2] = s =>
      \A k \in w[i].body[1]..(b - 1) :
        \E l \in i..Len(w) : w[l].op = "data" /\ w[l].body = <<k, s>>

\* The pieces the socket has read or received, two of each message from b on.
Half == IF pending = 0 THEN 0 ELSE 1
Pieces(b) ==
  /\ pending # 0 => pending = b
  /\ \A i \in 1..Len(inbox) :
       2 * inbox[i] = 2 * b + i + Half - 1 \/ 2 * inbox[i] = 2 * b + i + Half - 2
  /\ Len(inbox) + Half <= 2 * (published + 1 - b)
  /\ up = "open" /\ rest => Len(inbox) + Half = 2 * (published + 1 - b) - 1
  /\ up = "open" /\ ~rest => Len(inbox) + Half = 2 * (published + 1 - b)

\* The socket is empty between sessions; in a session, the next message to be
\* forwarded is b.
ForwardInv ==
  /\ fwd # "receive" => up = "none" /\ inbox = <<>> /\ pending = 0 /\ ~rest
  /\ fwd = "receive" => up # "none"
  /\ rest => up = "open"
  /\ handler = "relay" =>
       /\ Ordered(wire)
       /\ Bounded(wire, published + 1, session)
       /\ fwd = "receive" =>
            \E b \in Nat \ {0} : Pieces(b) /\ Bounded(wire, b, session) /\ Caught(wire, b,
            session)

RelayInv == RelayTypeOK /\ CloseInv /\ RefInv /\ ForwardInv

-----------------------------------------------------------------------------
\* What a step may do to the wire: nothing, or one more frame, which is a pong
\* once the stream is closed, and closes it if it is a close frame.
SafeWire ==
  /\ closed' \in BOOLEAN /\ (closed => closed')
  /\ \/ wire' = wire
     \/ \E f \in Frames :
          /\ wire' = Append(wire, f)
          /\ closed => f.op = "pong"
          /\ f.op = "close" => closed'

NoData == wire' = wire \/ \E f \in Frames : wire' = Append(wire, f) /\ f.op # "data"

\* The wire with one more frame.
LEMMA OneMore ==
  ASSUME NEW w \in Seq(Frames), NEW f \in Frames
  PROVE  /\ Append(w, f) \in Seq(Frames)
         /\ Len(w) \in Nat /\ Len(Append(w, f)) = Len(w) + 1
         /\ \A i \in 1..Len(w) : Append(w, f)[i] = w[i]
         /\ Append(w, f)[Len(w) + 1] = f
OBVIOUS

\* The frame writer adds the frame it was given, or nothing.
LEMMA Written ==
  ASSUME NEW op \in {"data", "ping", "pong", "close"}, NEW b \in Bodies, NEW st,
         WriteFrame(op, b, st)
  PROVE  wire' = wire \/ \E f \in Frames : wire' = Append(wire, f) /\ f.op = op /\ f.body = b
<1>1. ASSUME NEW w \in {"whole", "part"}
      PROVE  [op |-> op, body |-> b, sent |-> w] \in Frames
  BY <1>1 DEF Frames
<1>2. CASE wire' = wire
  BY <1>2
<1>3. CASE wire' = Append(wire, [op |-> op, body |-> b, sent |-> "whole"])
  BY <1>1, <1>3
<1>4. CASE wire' = Append(wire, [op |-> op, body |-> b, sent |-> "part"])
  BY <1>1, <1>4
<1> QED
  BY <1>2, <1>3, <1>4 DEF WriteFrame

\* The five ways to write.
LEMMA Writers ==
  ASSUME closed \in BOOLEAN
  PROVE  /\ \A b \in Bodies : \A st \in Status : Send(b, st) => SafeWire
         /\ \A st \in Status : Ping(st) => SafeWire /\ NoData
         /\ Close => SafeWire /\ NoData
         /\ LoopPing => SafeWire /\ NoData
         /\ LoopPeerClose => SafeWire /\ NoData
<1>0. NoBody \in Bodies
  BY DEF Bodies
<1>1. ASSUME NEW b \in Bodies, NEW st \in Status, Send(b, st) PROVE SafeWire
  <2>1. CASE closed
    BY <1>1, <2>1 DEF Send, SafeWire
  <2>2. CASE ~closed
    <3>1. closed' = closed /\ WriteFrame("data", b, st)
      BY <1>1, <2>2 DEF Send
    <3> QED
      BY <2>2, <3>1, Written DEF SafeWire
  <2> QED
    BY <2>1, <2>2
<1>2. ASSUME NEW st \in Status, Ping(st) PROVE SafeWire /\ NoData
  <2>1. CASE closed
    BY <1>2, <2>1 DEF Ping, SafeWire, NoData
  <2>2. CASE ~closed
    <3>1. closed' = closed /\ WriteFrame("ping", NoBody, st)
      BY <1>2, <2>2 DEF Ping
    <3> QED
      BY <1>0, <2>2, <3>1, Written DEF SafeWire, NoData
  <2> QED
    BY <2>1, <2>2
<1>3. ASSUME Close \/ LoopPeerClose PROVE SafeWire /\ NoData
  <2>1. CASE closed
    BY <1>3, <2>1 DEF Close, LoopPeerClose, SafeWire, NoData
  <2>2. CASE ~closed
    <3>1. closed' = TRUE /\ \E st \in Status : WriteFrame("close", NoBody, st)
      BY <1>3, <2>2 DEF Close, LoopPeerClose
    <3> QED
      BY <1>0, <2>2, <3>1, Written DEF SafeWire, NoData
  <2> QED
    BY <2>1, <2>2
<1>4. ASSUME LoopPing PROVE SafeWire /\ NoData
  <2>1. closed' = closed /\ \E st \in Status : WriteFrame("pong", NoBody, st)
    BY <1>4 DEF LoopPing
  <2> QED
    BY <1>0, <2>1, Written DEF SafeWire, NoData
<1> QED
  BY <1>1, <1>2, <1>3, <1>4

\* A step that is safe on the wire keeps what is said of close frames.
LEMMA CloseKept ==
  ASSUME wire \in Seq(Frames), closed \in BOOLEAN, CloseInv, SafeWire
  PROVE  CloseInv' /\ wire' \in Seq(Frames)
<1> USE DEF CloseInv, NothingAfterClose
<1>1. CASE wire' = wire
  BY <1>1 DEF SafeWire
<1>2. ASSUME NEW f \in Frames, wire' = Append(wire, f), closed => f.op = "pong",
             f.op = "close" => closed'
      PROVE  CloseInv' /\ wire' \in Seq(Frames)
  <2>1. /\ wire' \in Seq(Frames) /\ Len(wire) \in Nat /\ Len(wire') = Len(wire) + 1
        /\ \A i \in 1..Len(wire) : wire'[i] = wire[i]
        /\ wire'[Len(wire) + 1] = f
    BY <1>2, OneMore
  <2>2. \A i \in 1..Len(wire') : i \in 1..Len(wire) \/ i = Len(wire) + 1
    BY <2>1
  <2>3. closed => closed'
    BY DEF SafeWire
  <2>4. \A i \in 1..Len(wire') : wire'[i].op = "close" => closed'
    BY <1>2, <2>1, <2>2, <2>3
  <2>5. ASSUME NEW i \in 1..Len(wire'), NEW j \in 1..Len(wire'), i < j, wire'[i].op = "close"
        PROVE  wire'[j].op = "pong"
    <3>1. i \in 1..Len(wire)
      BY <2>1, <2>5
    <3>2. wire[i].op = "close"
      BY <2>1, <2>5, <3>1
    <3>3. CASE j \in 1..Len(wire)
      BY <2>1, <2>5, <3>1, <3>2, <3>3
    <3>4. CASE j = Len(wire) + 1
      BY <1>2, <2>1, <3>1, <3>2, <3>4
    <3> QED
      BY <2>2, <3>3, <3>4
  <2> QED
    BY <2>1, <2>4, <2>5
<1> QED
  BY <1>1, <1>2 DEF SafeWire

-----------------------------------------------------------------------------
\* Bounds may be raised, and no message of the next session is on the wire.
LEMMA Raised ==
  ASSUME NEW w \in Seq(Frames), NEW b \in Nat, NEW s \in Nat, Bounded(w, b, s)
  PROVE  /\ \A c \in Nat, t \in Nat : b <= c /\ s <= t => Bounded(w, c, t)
         /\ \A c \in Nat : Caught(w, c, s + 1)
<1>1. ASSUME NEW i \in 1..Len(w), w[i].op = "data"
      PROVE  w[i].body[1] \in Nat /\ w[i].body[2] \in Nat /\ w[i].body[1] < b /\ w[i].body[2] <= s
             /\ w[i].body \in Nat \X Nat
  BY <1>1 DEF Bounded
<1>2. ASSUME NEW c \in Nat, NEW t \in Nat, b <= c, s <= t PROVE Bounded(w, c, t)
  <2>1. ASSUME NEW i \in 1..Len(w), w[i].op = "data" PROVE w[i].body[1] < c /\ w[i].body[2] <= t
    BY <1>1, <1>2, <2>1
  <2> QED
    BY <1>1, <2>1 DEF Bounded
<1>3. ASSUME NEW i \in 1..Len(w), w[i].op = "data" PROVE w[i].body[2] # s + 1
  BY <1>1, <1>3
<1> QED
  BY <1>2, <1>3 DEF Caught

\* Two frames of w are in order in every v that starts with w.
LEMMA PrefixOrdered ==
  ASSUME NEW w \in Seq(Frames), NEW v, \A l \in 1..Len(w) : v[l] = w[l], Ordered(w),
         NEW i \in 1..Len(w), NEW j \in 1..Len(w), i < j, w[i].op = "data", w[j].op = "data"
  PROVE  /\ v[i].body[1] < v[j].body[1]
         /\ v[i].body[2] = v[j].body[2] =>
              \A k \in v[i].body[1]..v[j].body[1] :
                \E l \in i..j : v[l].op = "data" /\ v[l].body = <<k, v[j].body[2]>>
<1>1. /\ w[i].body[1] < w[j].body[1]
      /\ w[i].body[2] = w[j].body[2] =>
           \A k \in w[i].body[1]..w[j].body[1] :
             \E l \in i..j : w[l].op = "data" /\ w[l].body = <<k, w[j].body[2]>>
  BY Zenon DEF Ordered
<1>2. v[i] = w[i] /\ v[j] = w[j] /\ \A l \in i..j : v[l] = w[l]
  OBVIOUS
<1>3. ASSUME w[i].body[2] = w[j].body[2], NEW k \in w[i].body[1]..w[j].body[1]
      PROVE  \E l \in i..j : v[l].op = "data" /\ v[l].body = <<k, w[j].body[2]>>
  <2>1. PICK l \in i..j : w[l].op = "data" /\ w[l].body = <<k, w[j].body[2]>>
    BY Zenon, <1>1, <1>3
  <2>2. v[l].op = "data" /\ v[l].body = <<k, w[j].body[2]>>
    BY Zenon, <1>2, <2>1
  <2> QED
    BY Zenon, <2>2
<1> QED
  BY <1>1, <1>2, <1>3

\* A frame that is no data.
LEMMA OtherFrame ==
  ASSUME NEW w \in Seq(Frames), NEW f \in Frames, f.op # "data"
  PROVE  /\ Ordered(w) => Ordered(Append(w, f))
         /\ \A b, s : Bounded(w, b, s) => Bounded(Append(w, f), b, s)
         /\ \A b, s : Caught(w, b, s) => Caught(Append(w, f), b, s)
<1> DEFINE v == Append(w, f)
<1>1. /\ v \in Seq(Frames) /\ Len(w) \in Nat /\ Len(v) = Len(w) + 1
      /\ \A i \in 1..Len(w) : v[i] = w[i]
      /\ v[Len(w) + 1] = f
  BY OneMore
<1> HIDE DEF v
<1>2. \A i \in 1..Len(v) : v[i].op = "data" => i \in 1..Len(w)
  BY <1>1
<1>3. ASSUME Ordered(w) PROVE Ordered(v)
  <2>1. ASSUME NEW i \in 1..Len(v), NEW j \in 1..Len(v), i < j, v[i].op = "data", v[j].op = "data"
        PROVE  /\ v[i].body[1] < v[j].body[1]
               /\ v[i].body[2] = v[j].body[2] =>
                    \A k \in v[i].body[1]..v[j].body[1] :
                      \E l \in i..j : v[l].op = "data" /\ v[l].body = <<k, v[j].body[2]>>
    <3>1. i \in 1..Len(w) /\ j \in 1..Len(w) /\ v[i] = w[i] /\ v[j] = w[j]
      BY <1>1, <1>2, <2>1
    <3>2. w[i].op = "data" /\ w[j].op = "data"
      BY <2>1, <3>1
    <3> QED
      BY <1>1, <1>3, <2>1, <3>1, <3>2, PrefixOrdered
  <2> QED
    BY <2>1 DEF Ordered
<1>4. ASSUME NEW b, NEW s, Bounded(w, b, s) PROVE Bounded(v, b, s)
  BY <1>1, <1>2, <1>4 DEF Bounded
<1>5. ASSUME NEW b, NEW s, Caught(w, b, s) PROVE Caught(v, b, s)
  <2>1. ASSUME NEW i \in 1..Len(v), v[i].op = "data", v[i].body[2] = s,
               NEW k \in v[i].body[1]..(b - 1)
        PROVE  \E l \in i..Len(v) : v[l].op = "data" /\ v[l].body = <<k, s>>
    <3>1. i \in 1..Len(w) /\ v[i] = w[i]
      BY <1>1, <1>2, <2>1
    <3>2. PICK l \in i..Len(w) : w[l].op = "data" /\ w[l].body = <<k, s>>
      BY <1>5, <2>1, <3>1 DEF Caught
    <3>3. l \in i..Len(v) /\ v[l] = w[l]
      BY <1>1, <3>1
    <3> QED
      BY <3>2, <3>3
  <2> QED
    BY <2>1 DEF Caught
<1> QED
  BY <1>3, <1>4, <1>5 DEF v

\* Message b of session s.
LEMMA DataFrame ==
  ASSUME NEW w \in Seq(Frames), NEW f \in Frames, NEW b \in Nat, NEW s \in Nat,
         f.op = "data", f.body = <<b, s>>,
         Ordered(w), Bounded(w, b, s), Caught(w, b, s)
  PROVE  /\ Ordered(Append(w, f))
         /\ Bounded(Append(w, f), b + 1, s)
         /\ Caught(Append(w, f), b + 1, s)
<1> DEFINE v == Append(w, f)
<1>1. /\ v \in Seq(Frames) /\ Len(w) \in Nat /\ Len(v) = Len(w) + 1
      /\ \A i \in 1..Len(w) : v[i] = w[i]
      /\ v[Len(w) + 1] = f
  BY OneMore
<1> HIDE DEF v
<1>2. \A i \in 1..Len(v) : i \in 1..Len(w) \/ i = Len(w) + 1
  BY <1>1
<1>3. /\ v[Len(v)].op = "data" /\ v[Len(v)].body = <<b, s>>
      /\ v[Len(v)].body[1] = b /\ v[Len(v)].body[2] = s /\ <<b, s>> \in Nat \X Nat
  BY <1>1
<1>4. ASSUME NEW i \in 1..Len(w), w[i].op = "data"
      PROVE  w[i].body \in Nat \X Nat /\ w[i].body[1] \in Nat /\ w[i].body[1] < b /\ w[i].body[2] <= s
  BY <1>4 DEF Bounded
<1>5. Bounded(v, b + 1, s)
  <2>1. ASSUME NEW i \in 1..Len(v), v[i].op = "data"
        PROVE  v[i].body \in Nat \X Nat /\ v[i].body[1] < b + 1 /\ v[i].body[2] <= s
    <3>1. CASE i \in 1..Len(w)
      BY <1>1, <1>4, <2>1, <3>1
    <3>2. CASE i = Len(w) + 1
      BY <1>1, <1>3, <3>2
    <3> QED
      BY <1>2, <3>1, <3>2
  <2> QED
    BY <2>1 DEF Bounded
<1>6. ASSUME NEW i \in 1..Len(w), w[i].op = "data", w[i].body[2] = s, NEW k \in w[i].body[1]..b
      PROVE  \E l \in i..Len(v) : v[l].op = "data" /\ v[l].body = <<k, s>>
  <2>1. CASE k = b
    <3>1. Len(v) \in i..Len(v)
      BY <1>1
    <3> QED
      BY <1>3, <2>1, <3>1
  <2>2. CASE k # b
    <3>1. k \in w[i].body[1]..(b - 1)
      BY <1>4, <1>6, <2>2
    <3>2. PICK l \in i..Len(w) : w[l].op = "data" /\ w[l].body = <<k, s>>
      BY <1>6, <3>1 DEF Caught
    <3>3. l \in i..Len(v) /\ v[l] = w[l]
      BY <1>1
    <3> QED
      BY <3>2, <3>3
  <2> QED
    BY <2>1, <2>2
<1>7. Caught(v, b + 1, s)
  <2>1. ASSUME NEW i \in 1..Len(v), v[i].op = "data", v[i].body[2] = s,
               NEW k \in v[i].body[1]..((b + 1) - 1)
        PROVE  \E l \in i..Len(v) : v[l].op = "data" /\ v[l].body = <<k, s>>
    <3>0. (b + 1) - 1 = b
      OBVIOUS
    <3>1. CASE i \in 1..Len(w)
      BY <1>1, <1>6, <2>1, <3>0, <3>1
    <3>2. CASE i = Len(w) + 1
      <4>1. i = Len(v) /\ k = b
        BY <1>1, <1>3, <2>1, <3>0, <3>2
      <4>2. Len(v) \in i..Len(v)
        BY <1>1, <4>1
      <4> QED
        BY <1>3, <4>1, <4>2
    <3> QED
      BY <1>2, <3>1, <3>2
  <2> QED
    BY <2>1 DEF Caught
<1>8. Ordered(v)
  <2>1. ASSUME NEW i \in 1..Len(v), NEW j \in 1..Len(v), i < j, v[i].op = "data", v[j].op = "data"
        PROVE  /\ v[i].body[1] < v[j].body[1]
               /\ v[i].body[2] = v[j].body[2] =>
                    \A k \in v[i].body[1]..v[j].body[1] :
                      \E l \in i..j : v[l].op = "data" /\ v[l].body = <<k, v[j].body[2]>>
    <3>1. i \in 1..Len(w) /\ v[i] = w[i]
      BY <1>1, <2>1
    <3>2. CASE j \in 1..Len(w)
      <4>1. w[i].op = "data" /\ w[j].op = "data"
        BY <1>1, <2>1, <3>1, <3>2
      <4> QED
        BY <1>1, <2>1, <3>1, <3>2, <4>1, PrefixOrdered
    <3>3. CASE j = Len(w) + 1
      <4>1. j = Len(v) /\ v[j].body[1] = b /\ v[j].body[2] = s
        BY <1>1, <1>3, <3>3
      <4>2. w[i].op = "data"
        BY <2>1, <3>1
      <4>3. w[i].body[1] < b
        BY <1>4, <3>1, <4>2
      <4>4. ASSUME w[i].body[2] = s, NEW k \in w[i].body[1]..b
            PROVE  \E l \in i..j : v[l].op = "data" /\ v[l].body = <<k, s>>
        BY <1>6, <3>1, <4>1, <4>2, <4>4
      <4> QED
        BY <3>1, <4>1, <4>3, <4>4
    <3> QED
      BY <1>2, <3>2, <3>3
  <2> QED
    BY <2>1 DEF Ordered
<1> QED
  BY <1>5, <1>7, <1>8 DEF v

-----------------------------------------------------------------------------
\* Producers that come and go are counted.
LEMMA Counted ==
  ASSUME RelayTypeOK, NEW p \in Producers
  PROVE  /\ Cardinality(Holders) \in Nat
         /\ Cardinality(Holders) = 0 <=> Holders = {}
         /\ caller[p] = "idle" /\ caller' = [caller EXCEPT ![p] = "holding"] =>
              Cardinality(Holders') = Cardinality(Holders) + 1
         /\ caller[p] = "holding" /\ caller' = [caller EXCEPT ![p] = "done"] =>
              Cardinality(Holders) > 0 /\ Cardinality(Holders') = Cardinality(Holders) - 1
<1>1. IsFiniteSet(Holders)
  BY CallersAssumption, FS_Subset DEF Holders
<1>2. Cardinality(Holders) \in Nat /\ (Cardinality(Holders) = 0 <=> Holders = {})
  BY <1>1, FS_CardinalityType, FS_EmptySet
<1>3. ASSUME caller[p] = "idle", caller' = [caller EXCEPT ![p] = "holding"]
      PROVE  Cardinality(Holders') = Cardinality(Holders) + 1
  <2>1. Holders' = Holders \cup {p} /\ p \notin Holders
    BY <1>3 DEF Holders, RelayTypeOK
  <2> QED
    BY <1>1, <2>1, FS_AddElement
<1>4. ASSUME caller[p] = "holding", caller' = [caller EXCEPT ![p] = "done"]
      PROVE  Cardinality(Holders) > 0 /\ Cardinality(Holders') = Cardinality(Holders) - 1
  <2>1. Holders' = Holders \ {p} /\ p \in Holders
    BY <1>4 DEF Holders, RelayTypeOK
  <2> QED
    BY <1>1, <1>2, <2>1, FS_RemoveElement
<1> QED
  BY <1>2, <1>3, <1>4

\* A step that neither retains nor releases.
LEMMA RefKept ==
  ASSUME RelayTypeOK, RefInv, UNCHANGED <<handler, caller, workerRefs, relay>>,
         fwd' = fwd \/ (fwd \notin {"none", "done"} /\ fwd' \notin {"none", "done"}),
         serve' = serve \/ (serve' # "gone" /\ serve # "gone"), closed => closed'
  PROVE  RefInv'
<1>1. Holders' = Holders
  BY DEF Holders
<1>2. (fwd \in {"none", "done"} <=> fwd' \in {"none", "done"}) /\ (fwd = "none" => fwd' = "none")
  OBVIOUS
<1> QED
  BY <1>1, <1>2 DEF RefInv, RelayTypeOK

\* The socket is empty and no session is on.
LEMMA BetweenSessions ==
  ASSUME RelayTypeOK, UNCHANGED <<handler, published, session>>,
         fwd' # "receive", up' = "none", inbox' = <<>>, pending' = 0, rest' = FALSE,
         handler = "relay" => Ordered(wire') /\ Bounded(wire', published + 1, session)
  PROVE  ForwardInv'
BY DEF ForwardInv

\* The socket as it was, with perhaps a frame on the wire that is no data.
LEMMA SocketKept ==
  ASSUME RelayTypeOK, ForwardInv,
         UNCHANGED <<handler, published, session, up, inbox, pending, rest>>,
         fwd' = fwd \/ (fwd # "receive" /\ fwd' # "receive"),
         handler = "relay" => NoData
  PROVE  ForwardInv'
<1>0. wire \in Seq(Frames)
  BY DEF RelayTypeOK
<1>1. \A b : Pieces(b)' = Pieces(b)
  BY DEF Pieces, Half
<1>2. CASE handler # "relay"
  BY <1>2 DEF ForwardInv
<1>3. CASE handler = "relay" /\ wire' = wire
  BY <1>1, <1>3 DEF ForwardInv
<1>4. ASSUME handler = "relay", NEW f \in Frames, wire' = Append(wire, f),
             f.op # "data" PROVE ForwardInv'
  <2>1. /\ Ordered(wire) => Ordered(wire')
        /\ \A b, s : Bounded(wire, b, s) => Bounded(wire', b, s)
        /\ \A b, s : Caught(wire, b, s) => Caught(wire', b, s)
    BY <1>0, <1>4, OtherFrame
  <2> QED
    BY <1>1, <1>4, <2>1 DEF ForwardInv
<1> QED
  BY <1>2, <1>3, <1>4 DEF NoData

-----------------------------------------------------------------------------
\* Init establishes the invariant.
LEMMA RelayInit == Init => RelayInv
<1> SUFFICES ASSUME Init PROVE RelayInv
  OBVIOUS
<1> USE DEF Init, StreamInit, CallerInit
<1>1. RelayTypeOK
  <2>1. wire \in Seq(Frames) /\ inbox \in Seq(Nat)
    OBVIOUS
  <2>2. closed \in BOOLEAN /\ rest \in BOOLEAN
    BY Zenon
  <2>3. caller \in [Producers -> {"idle", "holding", "done"}]
    OBVIOUS
  <2> QED
    BY <2>1, <2>2, <2>3 DEF RelayTypeOK
<1>2. CloseInv
  BY DEF CloseInv, NothingAfterClose
<1>3. RefInv
  <2>1. Holders = {}
    BY DEF Holders
  <2> QED
    BY <2>1, FS_EmptySet DEF RefInv
<1>4. ForwardInv
  BY DEF ForwardInv, Ordered, Bounded
<1> QED
  BY <1>1, <1>2, <1>3, <1>4 DEF RelayInv

\* The upstream's steps.
LEMMA UpstreamNext ==
  ASSUME RelayInv, Publish \/ PublishRest \/ UpstreamDrop, UNCHANGED <<caller, handler>>
  PROVE  RelayInv'
<1> USE DEF RelayInv
<1>1. UNCHANGED <<closed, workerRefs, wire, serve, fwd, pending, session, relay, caller, handler>>
  BY DEF Publish, PublishRest, UpstreamDrop, streamVars
<1>2. CloseInv'
  BY <1>1 DEF CloseInv, NothingAfterClose
<1>3. RefInv'
  BY <1>1, RefKept
<1>4. RelayTypeOK'
  <2>1. published' \in Nat /\ up' \in {"none", "open", "dropped"}
    BY DEF RelayTypeOK, Publish, PublishRest, UpstreamDrop
  <2>2. inbox' = inbox \/ inbox' = Append(inbox, published + 1) \/ inbox' = Append(inbox,
        published)
    BY DEF Publish, PublishRest, UpstreamDrop
  <2>3. inbox' \in Seq(Nat)
    <3>0. inbox \in Seq(Nat) /\ published \in Nat /\ published + 1 \in Nat
      BY DEF RelayTypeOK
    <3>1. \A n \in Nat : Append(inbox, n) \in Seq(Nat)
      BY <3>0
    <3> QED
      BY <2>2, <3>0, <3>1
  <2>4. rest' = TRUE \/ rest' = FALSE \/ rest' = rest
    BY Zenon DEF Publish, PublishRest, UpstreamDrop
  <2>5. rest' \in BOOLEAN
    BY Zenon, <2>4 DEF RelayTypeOK
  <2> QED
    BY <1>1, <2>1, <2>3, <2>5 DEF RelayTypeOK
<1>5. CASE Publish /\ up = "open"
  <2>1. /\ inbox' = Append(inbox, published + 1) /\ rest' = TRUE /\ ~rest /\ published' = published + 1 /\ up' = up
    BY <1>5 DEF Publish
  <2>2. /\ Len(inbox) \in Nat /\ Len(inbox') = Len(inbox) + 1
        /\ \A i \in 1..Len(inbox) : inbox'[i] = inbox[i]
        /\ inbox'[Len(inbox) + 1] = published + 1
    BY <2>1 DEF RelayTypeOK
  <2>3. ASSUME NEW b \in Nat \ {0}, Pieces(b) PROVE Pieces(b)'
    <3>0. Half \in {0, 1} /\ Half' = Half /\ published \in Nat
      BY <1>1 DEF Half, RelayTypeOK
    <3>1. Len(inbox) + Half = 2 * (published + 1 - b)
      BY <1>5, <2>1, <2>3 DEF Pieces
    <3>2. /\ Len(inbox') + Half <= 2 * (published' + 1 - b)
          /\ Len(inbox') + Half = 2 * (published' + 1 - b) - 1
      BY <2>1, <2>2, <3>0, <3>1
    <3>3. ASSUME NEW i \in 1..Len(inbox')
          PROVE  2 * inbox'[i] = 2 * b + i + Half - 1 \/ 2 * inbox'[i] = 2 * b + i + Half - 2
      <4>1. CASE i \in 1..Len(inbox)
        BY <2>2, <2>3, <4>1 DEF Pieces
      <4>2. CASE i = Len(inbox) + 1
        <5>1. inbox'[i] = published + 1 /\ i - 1 + Half = 2 * (published + 1 - b)
          BY <2>2, <3>0, <3>1, <4>2
        <5> QED
          BY <2>2, <3>0, <4>2, <5>1
      <4> QED
        BY <2>2, <4>1, <4>2
    <3> QED
      BY <1>1, <2>1, <2>3, <3>0, <3>2, <3>3 DEF Pieces
  <2>4. handler = "relay" => Bounded(wire, published' + 1, session)
    BY <2>1, Raised DEF ForwardInv, RelayTypeOK
  <2> QED
    BY <1>1, <1>2, <1>3, <1>4, <1>5, <2>1, <2>3, <2>4 DEF ForwardInv
<1>6. CASE Publish /\ up # "open"
  <2>1. UNCHANGED <<inbox, rest, up>> /\ published' = published + 1
    BY <1>6 DEF Publish
  <2>2. ASSUME NEW b \in Nat \ {0}, Pieces(b) PROVE Pieces(b)'
    <3>0. Half \in {0, 1} /\ Half' = Half /\ published \in Nat /\ Len(inbox) \in Nat
      BY <1>1 DEF Half, RelayTypeOK
    <3>1. Len(inbox) + Half <= 2 * (published' + 1 - b)
      BY <2>1, <2>2, <3>0 DEF Pieces
    <3> QED
      BY <1>1, <1>6, <2>1, <2>2, <3>0, <3>1 DEF Pieces
  <2>3. handler = "relay" => Bounded(wire, published' + 1, session)
    BY <2>1, Raised DEF ForwardInv, RelayTypeOK
  <2> QED
    BY <1>1, <1>2, <1>3, <1>4, <2>1, <2>2, <2>3 DEF ForwardInv
<1>7. CASE PublishRest
  <2>1. inbox' = Append(inbox, published) /\ rest' = FALSE /\ rest /\ UNCHANGED <<published, up>>
    BY <1>7 DEF PublishRest
  <2>2. /\ Len(inbox) \in Nat /\ Len(inbox') = Len(inbox) + 1
        /\ \A i \in 1..Len(inbox) : inbox'[i] = inbox[i]
        /\ inbox'[Len(inbox) + 1] = published
    BY <2>1 DEF RelayTypeOK
  <2>3. up = "open"
    BY <2>1 DEF ForwardInv
  <2>4. ASSUME NEW b \in Nat \ {0}, Pieces(b) PROVE Pieces(b)'
    <3>0. Half \in {0, 1} /\ Half' = Half /\ published \in Nat
      BY <1>1 DEF Half, RelayTypeOK
    <3>1. Len(inbox) + Half = 2 * (published + 1 - b) - 1
      BY <2>1, <2>3, <2>4 DEF Pieces
    <3>2. Len(inbox') + Half = 2 * (published + 1 - b)
      BY <2>2, <3>0, <3>1
    <3>3. ASSUME NEW i \in 1..Len(inbox')
          PROVE  2 * inbox'[i] = 2 * b + i + Half - 1 \/ 2 * inbox'[i] = 2 * b + i + Half - 2
      <4>1. CASE i \in 1..Len(inbox)
        BY <2>2, <2>4, <4>1 DEF Pieces
      <4>2. CASE i = Len(inbox) + 1
        BY <2>2, <3>0, <3>1, <4>2
      <4> QED
        BY <2>2, <4>1, <4>2
    <3>4. Len(inbox') + Half <= 2 * (published + 1 - b)
      BY <2>2, <3>0, <3>2
    <3> QED
      BY <1>1, <2>1, <2>4, <3>0, <3>2, <3>3, <3>4 DEF Pieces
  <2> QED
    BY <1>1, <1>2, <1>3, <1>4, <2>1, <2>3, <2>4 DEF ForwardInv
<1>8. CASE UpstreamDrop
  <2>1. up = "open" /\ up' = "dropped" /\ rest' = FALSE /\ UNCHANGED <<inbox, published>>
    BY <1>8 DEF UpstreamDrop
  <2>2. fwd = "receive"
    BY <2>1 DEF ForwardInv
  <2>3. ASSUME NEW b \in Nat \ {0}, Pieces(b) PROVE Pieces(b)'
    BY <1>1, <2>1, <2>3 DEF Pieces, Half
  <2> QED
    BY <1>1, <1>2, <1>3, <1>4, <2>1, <2>2, <2>3 DEF ForwardInv
<1> QED
  BY <1>5, <1>6, <1>7, <1>8

\* The forward thread between two sessions, and the start and end of one.
LEMMA SessionNext ==
  ASSUME RelayInv, Connect \/ ConnectFail \/ ReceiveDropped \/ ReceiveQuiet \/ Sleep,
         UNCHANGED <<caller, handler>>
  PROVE  RelayInv'
<1> USE DEF RelayInv
<1>1. UNCHANGED <<closed, workerRefs, wire, serve, published, relay, caller, handler>>
  BY DEF Connect, ConnectFail, ReceiveDropped, ReceiveQuiet, Sleep, streamVars
<1>2. CloseInv'
  BY <1>1 DEF CloseInv, NothingAfterClose
<1>3. RefInv'
  <2>1. fwd \notin {"none", "done"} /\ fwd' \notin {"none", "done"}
    BY DEF Connect, ConnectFail, ReceiveDropped, ReceiveQuiet, Sleep, EndSession
  <2> QED
    BY <1>1, <2>1, RefKept
<1>4. CASE Connect
  <2>1. /\ fwd = "connect" /\ session' = session + 1 /\ up' = "open" /\ fwd' = "receive"
        /\ UNCHANGED <<rest, inbox, pending>>
    BY <1>4 DEF Connect
  <2>2. inbox = <<>> /\ pending = 0 /\ ~rest /\ published \in Nat /\ session \in Nat
    BY <2>1 DEF ForwardInv, RelayTypeOK
  <2>3. Pieces(published + 1)'
    BY <1>1, <2>1, <2>2 DEF Pieces, Half
  <2>4. handler = "relay" => /\ Ordered(wire) /\ Bounded(wire, published + 1, session + 1)
                             /\ Caught(wire, published + 1, session + 1)
    BY <2>2, Raised DEF ForwardInv, RelayTypeOK
  <2>5. RelayTypeOK'
    BY <1>1, <2>1 DEF RelayTypeOK
  <2>6. published + 1 \in Nat \ {0}
    BY <2>2
  <2> QED
    BY <1>1, <1>2, <1>3, <2>1, <2>2, <2>3, <2>4, <2>5, <2>6 DEF ForwardInv
<1>5. CASE Sleep
  <2>1. fwd = "sleep" /\ fwd' = "connect" /\ UNCHANGED <<up, rest, inbox, pending, session>>
    BY <1>5 DEF Sleep
  <2>2. RelayTypeOK'
    BY <1>1, <2>1 DEF RelayTypeOK
  <2>3. ForwardInv'
    BY <1>1, <2>1, SocketKept DEF NoData
  <2> QED
    BY <1>2, <1>3, <2>2, <2>3
<1>6. CASE ConnectFail \/ ReceiveDropped \/ ReceiveQuiet
  <2>1. /\ fwd' \in {"close", "sleep"} /\ up' = "none" /\ inbox' = <<>> /\ pending' = 0 /\ rest' = FALSE
        /\ session' = session
    BY <1>6 DEF ConnectFail, ReceiveDropped, ReceiveQuiet, EndSession
  <2>2. RelayTypeOK'
    <3>1. inbox' \in Seq(Nat)
      BY <2>1
    <3> QED
      BY <1>1, <2>1, <3>1 DEF RelayTypeOK
  <2>3. ForwardInv'
    BY <1>1, <2>1, BetweenSessions DEF ForwardInv
  <2> QED
    BY <1>2, <1>3, <2>2, <2>3
<1> QED
  BY <1>4, <1>5, <1>6

\* The forward thread reads a piece.
LEMMA PieceNext ==
  ASSUME RelayInv, ReceivePiece, UNCHANGED <<caller, handler>>
  PROVE  RelayInv'
<1> USE DEF RelayInv
<1>1. /\ UNCHANGED <<closed, workerRefs, wire, serve, published, relay, caller, handler, fwd,
         up, rest, session>>
      /\ inbox # <<>> /\ pending = 0 /\ pending' = Head(inbox) /\ inbox' = Tail(inbox) /\ fwd = "receive"
  BY DEF ReceivePiece, streamVars
<1>2. CloseInv'
  BY <1>1 DEF CloseInv, NothingAfterClose
<1>3. RefInv'
  BY <1>1, RefKept
<1>4. /\ Len(inbox) \in Nat \ {0} /\ Head(inbox) = inbox[1] /\ Head(inbox) \in Nat
      /\ inbox' \in Seq(Nat) /\ Len(inbox') = Len(inbox) - 1
      /\ \A i \in 1..Len(inbox') : inbox'[i] = inbox[i + 1]
  BY <1>1 DEF RelayTypeOK
<1>5. RelayTypeOK'
  BY <1>1, <1>4 DEF RelayTypeOK
<1>6. ASSUME NEW b \in Nat \ {0}, Pieces(b) PROVE Pieces(b)'
  <2>1. Half = 0
    BY <1>1 DEF Half
  <2>2. 2 * inbox[1] = 2 * b + 1 + Half - 1 \/ 2 * inbox[1] = 2 * b + 1 + Half - 2
    BY <1>4, <1>6 DEF Pieces
  <2>3. pending' = b
    BY <1>1, <1>4, <2>1, <2>2
  <2>4. Half' = 1
    BY <2>3 DEF Half
  <2>5. ASSUME NEW i \in 1..Len(inbox')
        PROVE  2 * inbox'[i] = 2 * b + i + Half' - 1 \/ 2 * inbox'[i] = 2 * b + i + Half' - 2
    <3>1. i + 1 \in 1..Len(inbox) /\ inbox'[i] = inbox[i + 1]
      BY <1>4
    <3>2. 2 * inbox[i + 1] = 2 * b + (i + 1) + Half - 1 \/ 2 * inbox[i + 1] = 2 * b + (i + 1) + Half - 2
      BY <1>6, <3>1 DEF Pieces
    <3> QED
      BY <1>4, <2>1, <2>4, <3>1, <3>2
  <2>6. Len(inbox') + Half' = Len(inbox) + Half
    BY <1>4, <2>1, <2>4
  <2> QED
    BY <1>1, <1>6, <2>3, <2>5, <2>6 DEF Pieces
<1>7. ForwardInv'
  BY <1>1, <1>6 DEF ForwardInv
<1> QED
  BY <1>2, <1>3, <1>5, <1>7

\* The forward thread sends a message downstream.
LEMMA ForwardNext ==
  ASSUME RelayInv, Forward, UNCHANGED <<caller, handler>>
  PROVE  RelayInv'
<1> USE DEF RelayInv
<1>1. PICK st \in Status : /\ Send(<<pending, session>>, st)
                           /\ IF st = "ok"
                              THEN pending' = 0 /\ inbox' = Tail(inbox) /\ UNCHANGED <<fwd,
                              up, rest>>
                              ELSE EndSession("downstream")
  BY DEF Forward
<1>2. /\ UNCHANGED <<closed, workerRefs, serve, published, relay, caller, handler, session>>
      /\ inbox # <<>> /\ pending # 0 /\ fwd = "receive"
      /\ pending \in Nat /\ session \in Nat /\ published \in Nat /\ wire \in Seq(Frames)
  BY <1>1 DEF Forward, Send, RelayTypeOK
<1>3. handler = "relay"
  BY <1>2 DEF RefInv, RelayTypeOK
<1>4. <<pending, session>> \in Bodies
  BY <1>2 DEF Bodies
<1>5. SafeWire
  BY <1>1, <1>4, Writers DEF RelayTypeOK
<1>6. CloseInv' /\ wire' \in Seq(Frames)
  BY <1>5, CloseKept DEF RelayTypeOK
<1>7. fwd' \notin {"none", "done", "connect", "release"} /\ RefInv'
  <2>1. fwd' \in {"receive", "close"}
    BY <1>1, <1>2 DEF EndSession
  <2> QED
    BY <1>2, <2>1, RefKept
<1>8. /\ Len(inbox) \in Nat \ {0} /\ Tail(inbox) \in Seq(Nat) /\ Len(Tail(inbox)) = Len(inbox) - 1
      /\ \A i \in 1..Len(Tail(inbox)) : Tail(inbox)[i] = inbox[i + 1]
  BY <1>2 DEF RelayTypeOK
<1>9. PICK b \in Nat \ {0} : Pieces(b) /\ Bounded(wire, b, session) /\ Caught(wire, b, session)
  BY <1>2, <1>3 DEF ForwardInv
<1>10. pending = b /\ Half = 1
  BY <1>2, <1>9 DEF Pieces, Half
<1>11. b + 1 <= published + 1
  BY <1>2, <1>8, <1>9, <1>10 DEF Pieces
<1>12. \/ wire' = wire /\ st # "ok"
       \/ \E f \in Frames : wire' = Append(wire, f) /\ f.op = "data" /\ f.body = <<b, session>>
  <2>1. CASE closed
    BY <1>1, <2>1 DEF Send
  <2>2. CASE ~closed
    <3>1. WriteFrame("data", <<b, session>>, st)
      BY <1>1, <1>10, <2>2 DEF Send
    <3>2. CASE st = "ok"
      <4>1. wire' = Append(wire, [op |-> "data", body |-> <<b, session>>, sent |-> "whole"])
        BY <3>1, <3>2 DEF WriteFrame
      <4>2. [op |-> "data", body |-> <<b, session>>, sent |-> "whole"] \in Frames
        BY <1>4, <1>10 DEF Frames
      <4> QED
        BY <4>1, <4>2
    <3>3. CASE st # "ok"
      BY <1>4, <1>10, <3>1, <3>3, Written
    <3> QED
      BY <3>2, <3>3
  <2> QED
    BY <2>1, <2>2 DEF RelayTypeOK
<1>13. Ordered(wire)
  BY <1>3 DEF ForwardInv
<1>14. ASSUME NEW f \in Frames, wire' = Append(wire, f), f.op = "data", f.body = <<b, session>>
       PROVE  Ordered(wire') /\ Bounded(wire', b + 1, session) /\ Caught(wire', b + 1, session)
  BY <1>2, <1>9, <1>13, <1>14, DataFrame
<1>15. Ordered(wire') /\ Bounded(wire', published + 1, session)
  <2>1. CASE wire' = wire
    BY <1>3, <2>1 DEF ForwardInv
  <2>2. CASE wire' # wire
    <3>1. Ordered(wire') /\ Bounded(wire', b + 1, session)
      BY <1>12, <1>14, <2>2
    <3> QED
      BY <1>2, <1>6, <1>11, <3>1, Raised
  <2> QED
    BY <2>1, <2>2
<1>16. CASE st # "ok"
  <2>1. fwd' = "close" /\ up' = "none" /\ inbox' = <<>> /\ pending' = 0 /\ rest' = FALSE
    BY <1>1, <1>16 DEF EndSession
  <2>2. inbox' \in Seq(Nat)
    BY <2>1
  <2>3. RelayTypeOK'
    BY <1>2, <1>6, <2>1, <2>2 DEF RelayTypeOK
  <2>4. ForwardInv'
    BY <1>2, <1>15, <2>1, BetweenSessions
  <2> QED
    BY <1>6, <1>7, <2>3, <2>4
<1>17. CASE st = "ok"
  <2>1. pending' = 0 /\ inbox' = Tail(inbox) /\ UNCHANGED <<fwd, up, rest>>
    BY <1>1, <1>17
  <2>2. RelayTypeOK'
    BY <1>2, <1>6, <1>8, <2>1 DEF RelayTypeOK
  <2>3. Half' = 0
    BY <2>1 DEF Half
  <2>4. ASSUME NEW i \in 1..Len(inbox')
        PROVE  \/ 2 * inbox'[i] = 2 * (b + 1) + i + Half' - 1
               \/ 2 * inbox'[i] = 2 * (b + 1) + i + Half' - 2
    <3>1. i + 1 \in 1..Len(inbox) /\ inbox'[i] = inbox[i + 1]
      BY <1>8, <2>1
    <3>2. 2 * inbox[i + 1] = 2 * b + (i + 1) + Half - 1 \/ 2 * inbox[i + 1] = 2 * b + (i + 1) + Half - 2
      BY <1>9, <3>1 DEF Pieces
    <3> QED
      BY <1>8, <1>10, <2>3, <3>1, <3>2
  <2>5. /\ Len(inbox') + Half' = Len(inbox) + Half - 2
        /\ 2 * (published + 1 - (b + 1)) = 2 * (published + 1 - b) - 2
        /\ Len(inbox) + Half \in Nat /\ 2 * (published + 1 - b) \in Int
    BY <1>2, <1>8, <1>10, <2>1, <2>3
  <2>6. Pieces(b + 1)'
    <3>0. /\ Len(inbox) + Half <= 2 * (published + 1 - b)
          /\ up = "open" /\ rest => Len(inbox) + Half = 2 * (published + 1 - b) - 1
          /\ up = "open" /\ ~rest => Len(inbox) + Half = 2 * (published + 1 - b)
          /\ published' = published /\ up' = up /\ rest' = rest
      BY <1>2, <1>9, <2>1 DEF Pieces
    <3>1. Len(inbox') + Half' <= 2 * (published + 1 - (b + 1))
      BY <1>2, <1>8, <1>10, <2>5, <3>0
    <3>2. up = "open" /\ rest => Len(inbox') + Half' = 2 * (published + 1 - (b + 1)) - 1
      BY <1>2, <1>8, <1>10, <2>5, <3>0
    <3>3. up = "open" /\ ~rest => Len(inbox') + Half' = 2 * (published + 1 - (b + 1))
      BY <1>2, <1>8, <1>10, <2>5, <3>0
    <3> QED
      BY <2>1, <2>4, <3>0, <3>1, <3>2, <3>3 DEF Pieces
  <2>7. Bounded(wire', b + 1, session) /\ Caught(wire', b + 1, session)
    BY <1>12, <1>14, <1>17
  <2>8. ForwardInv'
    <3>1. b + 1 \in Nat \ {0}
      OBVIOUS
    <3> QED
      BY <1>2, <1>15, <2>1, <2>6, <2>7, <3>1 DEF ForwardInv
  <2> QED
    BY <1>6, <1>7, <2>2, <2>8
<1> QED
  BY <1>16, <1>17

\* The handler, the end of the forward thread and the owner of the relay.
LEMMA HandleNext ==
  ASSUME RelayInv, Handle \/ ForwardClose \/ ForwardRelease \/ FreeRelay, UNCHANGED <<caller,
         handler>>
  PROVE  RelayInv'
<1> USE DEF RelayInv
<1>1. UNCHANGED <<handler, caller, up, rest, inbox, pending, published, session, serve>>
  BY DEF Handle, ForwardClose, ForwardRelease, FreeRelay, Retain, Release, Close, streamVars
<1>2. Holders' = Holders
  BY <1>1 DEF Holders
<1>3. CASE Handle
  <2>1. /\ fwd = "none" /\ handler = "relay" /\ serve = "handler" /\ workerRefs = 0
        /\ UNCHANGED <<closed, wire, relay>>
    BY <1>3 DEF Handle, Retain, streamVars, RefInv
  <2>2. \/ fwd' = "connect" /\ workerRefs' = 1
        \/ fwd' = "done" /\ workerRefs' = 0
    BY <1>3, <2>1 DEF Handle, Retain, streamVars
  <2>3. RelayTypeOK'
    BY <1>1, <2>1, <2>2 DEF RelayTypeOK
  <2>4. CloseInv'
    BY <2>1 DEF CloseInv, NothingAfterClose
  <2>5. RefInv'
    BY <1>1, <1>2, <2>1, <2>2 DEF RefInv
  <2>6. ForwardInv'
    BY <1>1, <2>1, <2>2, SocketKept DEF NoData
  <2> QED
    BY <2>3, <2>4, <2>5, <2>6
<1>4. CASE ForwardClose
  <2>1. fwd = "close" /\ fwd' = "release" /\ Close /\ UNCHANGED <<relay, workerRefs>>
    BY <1>4 DEF ForwardClose, Close
  <2>2. SafeWire /\ NoData
    BY <2>1, Writers DEF RelayTypeOK
  <2>3. CloseInv' /\ wire' \in Seq(Frames)
    BY <2>2, CloseKept DEF RelayTypeOK
  <2>4. RelayTypeOK'
    BY <1>1, <2>1, <2>2, <2>3 DEF RelayTypeOK, SafeWire
  <2>5. RefInv'
    BY <1>1, <2>1, <2>2, RefKept DEF SafeWire
  <2>6. ForwardInv'
    BY <1>1, <2>1, <2>2, SocketKept
  <2> QED
    BY <2>3, <2>4, <2>5, <2>6
<1>5. CASE ForwardRelease
  <2>1. fwd = "release" /\ fwd' = "done" /\ Release /\ UNCHANGED <<closed, wire, relay>>
    BY <1>5 DEF ForwardRelease, Release
  <2>2. handler = "relay" /\ workerRefs = 1
    BY <2>1 DEF RefInv, RelayTypeOK
  <2>3. workerRefs' = 0
    BY <2>1, <2>2 DEF Release
  <2>4. RelayTypeOK'
    BY <1>1, <2>1, <2>3 DEF RelayTypeOK
  <2>5. CloseInv'
    BY <2>1 DEF CloseInv, NothingAfterClose
  <2>6. RefInv'
    BY <1>1, <1>2, <2>1, <2>2, <2>3 DEF RefInv
  <2>7. ForwardInv'
    BY <1>1, <2>1, SocketKept DEF NoData
  <2> QED
    BY <2>4, <2>5, <2>6, <2>7
<1>6. CASE FreeRelay
  <2>1. serve = "gone" /\ relay' = "freed" /\ UNCHANGED <<closed, wire, workerRefs, fwd>>
    BY <1>6 DEF FreeRelay, streamVars
  <2>2. RelayTypeOK'
    BY <1>1, <2>1 DEF RelayTypeOK
  <2>3. CloseInv'
    BY <2>1 DEF CloseInv, NothingAfterClose
  <2>4. RefInv'
    BY <1>1, <1>2, <2>1 DEF RefInv
  <2>5. ForwardInv'
    BY <1>1, <2>1, SocketKept DEF NoData
  <2> QED
    BY <2>2, <2>3, <2>4, <2>5
<1> QED
  BY <1>3, <1>4, <1>5, <1>6

\* The producers of the embedding program.
LEMMA CallerNext ==
  ASSUME RelayInv, handler = "producers", CallerStep, UNCHANGED relayVars
  PROVE  RelayInv'
<1> USE DEF RelayInv
<1>0. UNCHANGED <<handler, fwd, up, rest, inbox, pending, published, session, relay>>
  BY DEF relayVars
<1>1. PICK p \in Producers : Begin(p) \/ Call(p) \/ End(p)
  BY DEF CallerStep
<1>2. ForwardInv'
  BY <1>0, SocketKept
<1>3. CASE Begin(p)
  <2>1. /\ caller[p] = "idle" /\ caller' = [caller EXCEPT ![p] = "holding"]
        /\ ~closed /\ workerRefs' = workerRefs + 1 /\ UNCHANGED <<closed, wire, serve>>
    BY <1>3 DEF Begin, Retain
  <2>2. RelayTypeOK'
    BY <1>0, <2>1 DEF RelayTypeOK
  <2>3. CloseInv'
    BY <2>1 DEF CloseInv, NothingAfterClose
  <2>4. Cardinality(Holders') = Cardinality(Holders) + 1
    BY <2>1, Counted
  <2>5. RefInv'
    BY <1>0, <2>1, <2>4 DEF RefInv
  <2> QED
    BY <1>2, <2>2, <2>3, <2>5
<1>4. CASE Call(p)
  <2>1. UNCHANGED <<caller, workerRefs, serve>>
    BY <1>4 DEF Call, Send, Ping, Close
  <2>2. \A b \in Payloads : b \in Bodies
    BY DEF Bodies
  <2>3. SafeWire
    BY <1>4, <2>2, Writers DEF Call, RelayTypeOK
  <2>4. CloseInv' /\ wire' \in Seq(Frames)
    BY <2>3, CloseKept DEF RelayTypeOK
  <2>5. RelayTypeOK'
    BY <1>0, <2>1, <2>3, <2>4 DEF RelayTypeOK, SafeWire
  <2>6. RefInv'
    BY <1>0, <2>1, <2>3, RefKept DEF SafeWire
  <2> QED
    BY <1>2, <2>4, <2>5, <2>6
<1>5. CASE End(p)
  <2>1. /\ caller[p] = "holding" /\ caller' = [caller EXCEPT ![p] = "done"]
        /\ Release /\ UNCHANGED <<closed, wire, serve>>
    BY <1>5 DEF End, Release
  <2>2. /\ Cardinality(Holders) > 0 /\ Cardinality(Holders') = Cardinality(Holders) - 1
        /\ Cardinality(Holders) \in Nat
    BY <2>1, Counted
  <2>3. workerRefs = Cardinality(Holders)
    BY DEF RefInv
  <2>4. workerRefs' = workerRefs - 1 /\ workerRefs' \in Nat
    BY <2>1, <2>2, <2>3 DEF Release
  <2>5. RelayTypeOK'
    BY <1>0, <2>1, <2>4 DEF RelayTypeOK
  <2>6. CloseInv'
    BY <2>1 DEF CloseInv, NothingAfterClose
  <2>7. RefInv'
    BY <1>0, <2>1, <2>2, <2>3, <2>4 DEF RefInv
  <2> QED
    BY <1>2, <2>5, <2>6, <2>7
<1> QED
  BY <1>1, <1>3, <1>4, <1>5

\* The upgrade worker, stop() and the client.
LEMMA ServeNext ==
  ASSUME RelayInv, (ServeStep /\ Spawned) \/ PeerLost \/ StopMark, UNCHANGED <<caller, relayVars>>
  PROVE  RelayInv'
<1> USE DEF RelayInv
<1>0. UNCHANGED <<handler, fwd, up, rest, inbox, pending, published, session, relay, caller,
      workerRefs>>
  BY DEF relayVars, ServeStep, ServeRuns, HandlerReturn, LoopPing, LoopPeerClose, LoopBadFrame, LoopClosed,
     LoopError, Leave,
     PeerLost, StopMark
<1>1. SafeWire /\ NoData
  <2>1. CASE LoopPing \/ LoopPeerClose
    BY <2>1, Writers DEF RelayTypeOK
  <2>2. CASE HandlerReturn \/ LoopClosed \/ LoopBadFrame \/ LoopError \/ PeerLost
    BY <2>2 DEF HandlerReturn, LoopClosed, LoopBadFrame, LoopError, PeerLost, SafeWire, NoData,
       RelayTypeOK
  <2>3. CASE Leave \/ StopMark
    <3>1. wire' = wire /\ closed' = TRUE
      BY <2>3 DEF Leave, StopMark
    <3> QED
      BY <3>1 DEF SafeWire, NoData
  <2> QED
    BY <2>1, <2>2, <2>3 DEF ServeStep, ServeRuns
<1>2. CloseInv' /\ wire' \in Seq(Frames)
  BY <1>1, CloseKept DEF RelayTypeOK
<1>3. ForwardInv'
  BY <1>0, <1>1, SocketKept
<1>4. serve' \in {"handler", "serving", "leaving", "gone"}
  BY DEF ServeStep, ServeRuns, HandlerReturn, LoopPing, LoopPeerClose, LoopBadFrame, LoopClosed, LoopError,
     Leave, PeerLost, StopMark,
     RelayTypeOK
<1>5. RelayTypeOK'
  BY <1>0, <1>1, <1>2, <1>4 DEF RelayTypeOK, SafeWire
<1>6. RefInv'
  <2>1. CASE serve' = "gone" /\ serve # "gone"
    <3>1. Leave
      BY <2>1 DEF ServeStep, ServeRuns, HandlerReturn, LoopPing, LoopPeerClose, LoopBadFrame, LoopClosed,
         LoopError, PeerLost, StopMark
    <3>2. closed' = TRUE /\ workerRefs = 0
      BY <2>1, <3>1 DEF Leave
    <3>3. Holders' = Holders
      BY <1>0 DEF Holders
    <3> QED
      BY <1>0, <2>1, <3>2, <3>3 DEF RefInv
  <2>2. CASE serve = "gone"
    <3>1. serve' = "gone"
      BY <2>2 DEF ServeStep, ServeRuns, HandlerReturn, LoopPing, LoopPeerClose, LoopBadFrame, LoopClosed,
         LoopError, Leave, PeerLost, StopMark
    <3> QED
      BY <1>0, <1>1, <2>2, <3>1, RefKept DEF SafeWire
  <2>3. CASE serve # "gone" /\ serve' # "gone"
    BY <1>0, <1>1, <2>3, RefKept DEF SafeWire
  <2> QED
    BY <2>1, <2>2, <2>3
<1> QED
  BY <1>2, <1>3, <1>5, <1>6

-----------------------------------------------------------------------------
\* Every step keeps the invariant.
LEMMA RelayNext == RelayInv /\ [Next]_vars => RelayInv'
<1> SUFFICES ASSUME RelayInv, [Next]_vars PROVE RelayInv'
  OBVIOUS
<1>1. CASE UNCHANGED vars
  <2>1. UNCHANGED <<closed, workerRefs, wire, serve, caller, handler, fwd, up, rest, inbox,
        pending, published, session, relay>>
    BY <1>1 DEF vars, streamVars, relayVars
  <2>2. RelayTypeOK' /\ CloseInv'
    BY <2>1 DEF RelayInv, RelayTypeOK, CloseInv, NothingAfterClose
  <2>3. RefInv'
    BY <2>1, RefKept DEF RelayInv
  <2>4. ForwardInv'
    BY <2>1, SocketKept DEF RelayInv, NoData
  <2> QED
    BY <2>2, <2>3, <2>4 DEF RelayInv
<1> QED
  BY <1>1, UpstreamNext, SessionNext, PieceNext, ForwardNext, HandleNext, CallerNext,
     ServeNext DEF Next, FwdStep

\* So it always holds.
LEMMA RelayAlways == Spec => []RelayInv
BY RelayInit, RelayNext, PTL DEF Spec

\* Whoever closes and whoever sends, only pongs follow a close frame.
THEOREM CloseIsLast == Spec => []NothingAfterClose
<1>1. RelayInv => NothingAfterClose
  BY DEF RelayInv, CloseInv
<1> QED
  BY <1>1, RelayAlways, PTL

\* The stream and the relay outlive everyone who holds the stream.
THEOREM GoneOnlyUnheld == Spec => []GoneUnheld
<1>1. RelayInv => GoneUnheld
  <2> SUFFICES ASSUME RelayInv, serve = "gone" \/ relay = "freed"
               PROVE  fwd \in {"none", "done"} /\ Holders = {}
    BY DEF GoneUnheld, Holders
  <2>1. workerRefs = 0
    BY DEF RelayInv, RefInv
  <2>2. CASE handler = "relay"
    BY <2>1, <2>2 DEF RelayInv, RefInv
  <2>3. CASE handler = "producers"
    <3>1. IsFiniteSet(Holders)
      BY CallersAssumption, FS_Subset DEF Holders
    <3> QED
      BY <2>1, <2>3, <3>1, FS_EmptySet DEF RelayInv, RefInv
  <2> QED
    BY <2>2, <2>3 DEF RelayInv, RelayTypeOK
<1> QED
  BY <1>1, RelayAlways, PTL

\* What the relay forwards is in the order published, and whole within a session.
THEOREM RelayedInOrder == Spec => []ForwardedInOrder
<1>1. RelayInv => ForwardedInOrder
  BY DEF RelayInv, ForwardInv, ForwardedInOrder
<1> QED
  BY <1>1, RelayAlways, PTL
=============================================================================
