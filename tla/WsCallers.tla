------------------------------ MODULE WsCallers -----------------------------
(***************************************************************************)
(* A WebSocket stream with the producers its handler spawned: each retains  *)
(* the stream, sends, pings and closes as it likes, and releases it once.   *)
(***************************************************************************)
EXTENDS WsStream, FiniteSets

CONSTANTS Producers,
          Payloads    \* what producers send

ASSUME CallersAssumption == IsFiniteSet(Producers)

VARIABLE caller   \* [Producers -> {"idle", "holding", "done"}]

CallerInit == caller = [p \in Producers |-> "idle"]

\* The handler, or a producer that holds the stream, retains it on behalf of a
\* producer it is about to spawn.
Begin(p) ==
  /\ caller[p] = "idle"
  /\ serve = "handler" \/ \E q \in Producers : caller[q] = "holding"
  /\ Retain
  /\ caller' = [caller EXCEPT ![p] = "holding"]

\* Any call on the stream by a producer that holds it.
Call(p) ==
  /\ caller[p] = "holding"
  /\ \/ Len(wire) < MaxWire /\ \E b \in Payloads, st \in Status : Send(b, st)
     \/ Len(wire) < MaxWire /\ \E st \in Status : Ping(st)
     \/ Close
  /\ UNCHANGED caller

End(p) ==
  /\ caller[p] = "holding"
  /\ Release
  /\ caller' = [caller EXCEPT ![p] = "done"]

CallerStep == \E p \in Producers : Begin(p) \/ Call(p) \/ End(p)
=============================================================================
