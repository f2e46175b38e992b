--------------------------- MODULE WsServerSteps ----------------------------
(***************************************************************************)
(* The steps of MHD and of the upgrade workers preserve the inductive       *)
(* invariant of WsServer, and the facts about counting they rest on.        *)
(***************************************************************************)
EXTENDS WsServer, FiniteSetTheorems, TLAPS

\* The sets that worker_refs and ws_closing count are finite.
LEMMA FiniteCounts == IsFiniteSet(Counted) /\ \A c \in Conns : IsFiniteSet(Holders(c))
<1>1. Counted \subseteq Conns /\ \A c \in Conns : Holders(c) \subseteq Producers
  BY DEF Counted, Holders
<1>. QED BY <1>1, ConnsAssumption, ProducersAssumption, FS_Subset

\* Counting one element more: ws_closing++ and worker_refs++.
LEMMA CountAdd ==
  ASSUME NEW S, IsFiniteSet(S), NEW x, x \notin S
  PROVE  Cardinality(S \cup {x}) = Cardinality(S) + 1
BY FS_AddElement

\* Counting one element less: the counter was not zero.
LEMMA CountRemove ==
  ASSUME NEW S, IsFiniteSet(S), NEW x, x \in S
  PROVE  /\ Cardinality(S \ {x}) = Cardinality(S) - 1
         /\ Cardinality(S) \in Nat \ {0}
<1>1. Cardinality(S \ {x}) = Cardinality(S) - 1
  BY FS_RemoveElement
<1>2. Cardinality(S) \in Nat
  BY FS_CardinalityType
<1>3. Cardinality(S) # 0
  BY FS_EmptySet
<1>. QED BY <1>1, <1>2, <1>3

\* The steps MHD takes for a handshake: queueing it, giving up on it, handing
\* the socket over to a worker.
LEMMA MhdKeeps ==
  ASSUME IndInv, NEW c \in Conns, MhdStep(c)
  PROVE  IndInv'
<1>. USE ConnsAssumption DEF IndInv, streamVars, serverVars, stopVars, Mem, UpPc,
       WkPc, ThreadState, SockState, StopPc, Early, Late
<1>1. CASE Handshake(c)
  <2>. USE <1>1 DEF Handshake, WsMutexFree, MhdRuns
  <2>1. TypeOK' BY DEF TypeOK
  <2>2. UpgradeInv' BY DEF TypeOK, UpgradeInv
  <2>3. WorkerInv' BY DEF TypeOK, UpgradeInv, WorkerInv, Serving
  <2>4. ListInv' BY DEF ListInv
  <2>5. HoldInv' BY DEF HoldInv, Holders
  <2>c. Counted' = Counted BY DEF Counted
  <2>6. CountInv' BY <2>c DEF CountInv
  <2>7. StopInv' BY DEF StopInv
  <2>. QED BY <2>1, <2>2, <2>3, <2>4, <2>5, <2>6, <2>7
<1>2. CASE ConnectionClosed(c)
  <2>. USE <1>2 DEF ConnectionClosed, Discard, WsMutexFree, MhdRuns
  <2>1. TypeOK' BY DEF TypeOK
  <2>2. UpgradeInv' BY DEF TypeOK, UpgradeInv
  <2>3. WorkerInv' BY DEF TypeOK, UpgradeInv, WorkerInv, Serving
  <2>4. ListInv' BY DEF ListInv
  <2>5. HoldInv' BY DEF HoldInv, Holders
  <2>c. Counted' = Counted BY DEF Counted
  <2>6. CountInv' BY <2>c DEF CountInv
  <2>7. StopInv' BY DEF StopInv
  <2>. QED BY <2>1, <2>2, <2>3, <2>4, <2>5, <2>6, <2>7
<1>3. CASE UpgradeTake(c)
  <2>. USE <1>3 DEF UpgradeTake, WsMutexFree, MhdRuns
  <2>1. TypeOK' BY DEF TypeOK
  <2>2. UpgradeInv' BY DEF TypeOK, UpgradeInv
  <2>3. WorkerInv' BY DEF TypeOK, WorkerInv, Serving
  <2>4. ListInv' BY DEF ListInv
  <2>5. HoldInv' BY DEF HoldInv, Holders
  <2>c. Counted' = Counted BY DEF Counted
  <2>6. CountInv' BY <2>c DEF CountInv
  <2>7. StopInv' BY DEF StopInv
  <2>. QED BY <2>1, <2>2, <2>3, <2>4, <2>5, <2>6, <2>7
<1>4. CASE UpgradePublish(c)
  <2>. USE <1>4 DEF UpgradePublish, WsMutexFree
  <2>1. TypeOK' BY DEF TypeOK
  <2>2. UpgradeInv' BY DEF TypeOK, UpgradeInv
  <2>3. WorkerInv' BY DEF TypeOK, UpgradeInv, WorkerInv, Serving
  <2>4. ListInv' BY DEF TypeOK, UpgradeInv, WorkerInv, ListInv
  <2>5. HoldInv' BY DEF TypeOK, UpgradeInv, HoldInv, Holders
  <2>c. Counted' = Counted BY DEF TypeOK, UpgradeInv, Counted
  <2>6. CountInv' BY <2>c DEF CountInv
  <2>7. StopInv' BY DEF StopInv
  <2>. QED BY <2>1, <2>2, <2>3, <2>4, <2>5, <2>6, <2>7
<1>5. CASE UpgradeRefuse(c)
  <2>. USE <1>5 DEF UpgradeRefuse, Discard
  <2>1. TypeOK' BY DEF TypeOK
  <2>2. UpgradeInv' BY DEF TypeOK, UpgradeInv
  <2>3. WorkerInv' BY DEF UpgradeInv, WorkerInv, Serving
  <2>4. ListInv' BY DEF ListInv
  <2>5. HoldInv' BY DEF HoldInv, Holders
  <2>c. Counted' = Counted BY DEF Counted
  <2>6. CountInv' BY <2>c DEF CountInv
  <2>7. StopInv' BY DEF StopInv
  <2>. QED BY <2>1, <2>2, <2>3, <2>4, <2>5, <2>6, <2>7
<1>6. CASE UpgradeReady(c)
  <2>. USE <1>6 DEF UpgradeReady
  <2>1. TypeOK' BY DEF TypeOK
  <2>2. UpgradeInv' BY DEF TypeOK, UpgradeInv
  <2>3. WorkerInv' BY DEF WorkerInv, Serving
  <2>4. ListInv' BY DEF ListInv
  <2>5. HoldInv' BY DEF HoldInv, Holders
  <2>c. Counted' = Counted BY DEF Counted
  <2>6. CountInv' BY <2>c DEF CountInv
  <2>7. StopInv' BY DEF StopInv
  <2>. QED BY <2>1, <2>2, <2>3, <2>4, <2>5, <2>6, <2>7
<1>. QED BY <1>1, <1>2, <1>3, <1>4, <1>5, <1>6 DEF MhdStep

\* The steps of an upgrade worker, from its start to the end of its thread.
LEMMA WorkerKeeps ==
  ASSUME IndInv, NEW c \in Conns, WorkerStep(c)
  PROVE  IndInv'
<1>. USE ConnsAssumption DEF IndInv, streamVars, serverVars, stopVars, Mem, UpPc,
       WkPc, ThreadState, SockState, StopPc, Early, Late
<1>1. CASE WorkerSpawned(c)
  <2>. USE <1>1 DEF WorkerSpawned, GoTo
  <2>1. TypeOK' BY DEF TypeOK
  <2>2. UpgradeInv' BY DEF UpgradeInv
  <2>3. WorkerInv' BY DEF TypeOK, WorkerInv, Serving
  <2>4. ListInv' BY DEF ListInv
  <2>5. HoldInv' BY DEF HoldInv, Holders
  <2>c. Counted' = Counted BY DEF Counted
  <2>6. CountInv' BY <2>c DEF CountInv
  <2>7. StopInv' BY DEF StopInv
  <2>. QED BY <2>1, <2>2, <2>3, <2>4, <2>5, <2>6, <2>7
<1>2. CASE WorkerUnpark(c)
  <2>. USE <1>2 DEF WorkerUnpark, GoTo
  <2>1. TypeOK' BY DEF TypeOK
  <2>2. UpgradeInv' BY DEF UpgradeInv
  <2>3. WorkerInv' BY DEF WorkerInv, Serving
  <2>4. ListInv' BY DEF ListInv
  <2>5. HoldInv' BY DEF HoldInv, Holders
  <2>c. Counted' = Counted BY DEF Counted
  <2>6. CountInv' BY <2>c DEF CountInv
  <2>7. StopInv' BY DEF StopInv
  <2>. QED BY <2>1, <2>2, <2>3, <2>4, <2>5, <2>6, <2>7
<1>3. CASE HandlerReturn(c)
  <2>. USE <1>3 DEF HandlerReturn, GoTo
  <2>1. TypeOK' BY DEF TypeOK
  <2>2. UpgradeInv' BY DEF UpgradeInv
  <2>3. WorkerInv' BY DEF WorkerInv, Serving
  <2>4. ListInv' BY DEF ListInv
  <2>5. HoldInv' BY DEF HoldInv, Holders
  <2>c. Counted' = Counted BY DEF Counted
  <2>6. CountInv' BY <2>c DEF CountInv
  <2>7. StopInv' BY DEF StopInv
  <2>. QED BY <2>1, <2>2, <2>3, <2>4, <2>5, <2>6, <2>7
<1>4. CASE LoopCheck(c)
  <2>. USE <1>4 DEF LoopCheck, GoTo
  <2>1. TypeOK' BY DEF TypeOK
  <2>2. UpgradeInv' BY DEF UpgradeInv
  <2>3. WorkerInv' BY DEF WorkerInv, Serving
  <2>4. ListInv' BY DEF ListInv
  <2>5. HoldInv' BY DEF HoldInv, Holders
  <2>c. Counted' = Counted BY DEF Counted
  <2>6. CountInv' BY <2>c DEF CountInv
  <2>7. StopInv' BY DEF StopInv
  <2>. QED BY <2>1, <2>2, <2>3, <2>4, <2>5, <2>6, <2>7
<1>5. CASE LoopPoll(c)
  <2>. USE <1>5 DEF LoopPoll, GoTo
  <2>1. TypeOK'
    <3>1. closed' = closed \/ closed' = [closed EXCEPT ![c] = TRUE]
      OBVIOUS
    <3>2. closed' \in [Conns -> BOOLEAN]
      BY <3>1, Zenon DEF TypeOK
    <3>3. wk' \in [Conns -> WkPc]
      BY DEF TypeOK
    <3>. QED BY <3>2, <3>3 DEF TypeOK
  <2>2. UpgradeInv' BY DEF TypeOK, UpgradeInv
  <2>3. WorkerInv' BY DEF TypeOK, WorkerInv, Serving
  <2>4. ListInv' BY DEF TypeOK, ListInv
  <2>5. HoldInv' BY DEF TypeOK, HoldInv, Holders
  <2>c. Counted' = Counted BY DEF TypeOK, Counted
  <2>6. CountInv' BY <2>c DEF CountInv
  <2>7. StopInv' BY DEF StopInv
  <2>. QED BY <2>1, <2>2, <2>3, <2>4, <2>5, <2>6, <2>7
<1>6. CASE WorkerDrain(c)
  <2>. USE <1>6 DEF WorkerDrain, GoTo
  <2>1. TypeOK' BY DEF TypeOK
  <2>2. UpgradeInv' BY DEF UpgradeInv
  <2>3. WorkerInv' BY DEF WorkerInv, Serving
  <2>4. ListInv' BY DEF ListInv
  <2>5. HoldInv' BY DEF HoldInv, Holders
  <2>c. Counted' = Counted BY DEF Counted
  <2>6. CountInv' BY <2>c DEF CountInv
  <2>7. StopInv' BY DEF StopInv
  <2>. QED BY <2>1, <2>2, <2>3, <2>4, <2>5, <2>6, <2>7
<1>7. CASE WorkerDrained(c)
  <2>. USE <1>7 DEF WorkerDrained, GoTo
  <2>1. TypeOK' BY DEF TypeOK
  <2>2. UpgradeInv' BY DEF UpgradeInv
  <2>3. WorkerInv' BY DEF WorkerInv, Serving
  <2>4. ListInv' BY DEF ListInv
  <2>0. Holders(c) = {}
    BY FiniteCounts, FS_EmptySet DEF HoldInv
  <2>5. HoldInv' BY <2>0 DEF HoldInv, Holders
  <2>c. Counted' = Counted BY DEF Counted
  <2>6. CountInv' BY <2>c DEF CountInv
  <2>7. StopInv' BY DEF StopInv
  <2>. QED BY <2>1, <2>2, <2>3, <2>4, <2>5, <2>6, <2>7
<1>8. CASE WorkerUnlink(c)
  <2>. USE <1>8 DEF WorkerUnlink, GoTo, WsMutexFree
  <2>1. TypeOK' BY DEF TypeOK
  <2>2. UpgradeInv' BY DEF UpgradeInv
  <2>3. WorkerInv' BY DEF WorkerInv, Serving
  <2>4. ListInv' BY DEF TypeOK, ListInv
  <2>5. HoldInv' BY DEF HoldInv, Holders
  <2>0. Counted' = IF reaped[c] THEN Counted ELSE Counted \cup {c}
    BY DEF TypeOK, Counted
  <2>b. c \notin Counted
    BY DEF Counted
  <2>6. CountInv'
    <3>1. CASE reaped[c]
      BY <2>0, <3>1 DEF CountInv
    <3>2. CASE ~reaped[c]
      <4>1. Cardinality(Counted \cup {c}) = Cardinality(Counted) + 1
        BY <2>b, FiniteCounts, CountAdd
      <4>. QED BY <2>0, <3>2, <4>1 DEF CountInv
    <3>. QED BY <3>1, <3>2
  <2>7. StopInv' BY DEF StopInv
  <2>. QED BY <2>1, <2>2, <2>3, <2>4, <2>5, <2>6, <2>7
<1>9. CASE WorkerLinger(c)
  <2>. USE <1>9 DEF WorkerLinger, GoTo
  <2>1. TypeOK' BY DEF TypeOK
  <2>2. UpgradeInv' BY DEF UpgradeInv
  <2>3. WorkerInv' BY DEF WorkerInv, Serving
  <2>4. ListInv' BY DEF ListInv
  <2>5. HoldInv' BY DEF HoldInv, Holders
  <2>c. Counted' = Counted BY DEF Counted
  <2>6. CountInv' BY <2>c DEF CountInv
  <2>7. StopInv' BY DEF StopInv
  <2>. QED BY <2>1, <2>2, <2>3, <2>4, <2>5, <2>6, <2>7
<1>10. CASE WorkerAction(c)
  <2>. USE <1>10 DEF WorkerAction, GoTo
  <2>1. TypeOK' BY DEF TypeOK
  <2>2. UpgradeInv' BY DEF UpgradeInv
  <2>3. WorkerInv' BY DEF WorkerInv, Serving
  <2>4. ListInv' BY DEF ListInv
  <2>5. HoldInv' BY DEF HoldInv, Holders
  <2>c. Counted' = Counted BY DEF Counted
  <2>6. CountInv' BY <2>c DEF CountInv
  <2>7. StopInv' BY DEF StopInv
  <2>. QED BY <2>1, <2>2, <2>3, <2>4, <2>5, <2>6, <2>7
<1>11. CASE WorkerUncount(c)
  <2>. USE <1>11 DEF WorkerUncount, GoTo, WsMutexFree
  <2>0. /\ c \in Counted
        /\ Counted' = Counted \ {c}
    BY DEF TypeOK, WorkerInv, Counted
  <2>a. CountInv' /\ wsClosing' \in Nat
    BY <2>0, FiniteCounts, CountRemove DEF CountInv
  <2>1. TypeOK' BY <2>a DEF TypeOK
  <2>2. UpgradeInv' BY DEF UpgradeInv
  <2>3. WorkerInv' BY DEF WorkerInv, Serving
  <2>4. ListInv' BY DEF ListInv
  <2>5. HoldInv' BY DEF HoldInv, Holders
  <2>6. CountInv' BY <2>a
  <2>7. StopInv' BY DEF StopInv
  <2>. QED BY <2>1, <2>2, <2>3, <2>4, <2>5, <2>6, <2>7
<1>12. CASE WorkerFinish(c)
  <2>. USE <1>12 DEF WorkerFinish, GoTo
  <2>1. TypeOK' BY DEF TypeOK
  <2>2. UpgradeInv' BY DEF UpgradeInv
  <2>3. WorkerInv' BY DEF TypeOK, WorkerInv, ListInv, Serving
  <2>4. ListInv' BY DEF ListInv
  <2>5. HoldInv' BY DEF HoldInv, Holders
  <2>c. Counted' = Counted BY DEF Counted
  <2>6. CountInv' BY <2>c DEF CountInv
  <2>7. StopInv' BY DEF StopInv
  <2>. QED BY <2>1, <2>2, <2>3, <2>4, <2>5, <2>6, <2>7
<1>. QED BY <1>1, <1>2, <1>3, <1>4, <1>5, <1>6, <1>7, <1>8, <1>9, <1>10, <1>11, <1>12 DEF WorkerStep
=============================================================================
