--------------------------- MODULE WsServerProofs ---------------------------
(***************************************************************************)
(* Safety of WsServer for every finite set of connections and producers.   *)
(* IndInv is inductive: TypeOK alone is not, because ws_closing stays a     *)
(* natural number only while it counts the workers in Counted, and a        *)
(* reference count protects a stream only while it counts its holders.      *)
(***************************************************************************)
EXTENDS WsServerSteps

\* The program starts in the inductive invariant.
LEMMA InitInv == Init => IndInv
<1>. SUFFICES ASSUME Init PROVE IndInv
  OBVIOUS
<1>1. Counted = {} /\ \A c \in Conns : Holders(c) = {}
  BY ConnsAssumption DEF Init, Counted, Holders, Late
<1>2. CountInv /\ HoldInv
  BY <1>1, FS_EmptySet DEF Init, CountInv, HoldInv
<1>3. TypeOK
  BY Zenon DEF Init, TypeOK, Mem, UpPc, WkPc, ThreadState, SockState, StopPc
<1>4. UpgradeInv /\ WorkerInv
  BY DEF Init, UpgradeInv, WorkerInv, Serving, Early
<1>5. ListInv /\ StopInv
  BY DEF Init, ListInv, StopInv, Serving, Early
<1>. QED BY <1>2, <1>3, <1>4, <1>5 DEF IndInv

\* Closing a stream leaves its owners as they are.
LEMMA CloseKeeps ==
  ASSUME IndInv, NEW c \in Conns, Close(c)
  PROVE  IndInv'
<1>. USE ConnsAssumption DEF IndInv, streamVars, serverVars, stopVars, Mem, UpPc,
       WkPc, ThreadState, SockState, StopPc, Early, Late
<1>. USE DEF Close
<1>1. TypeOK' BY DEF TypeOK
<1>2. UpgradeInv' BY DEF UpgradeInv
<1>3. WorkerInv' BY DEF WorkerInv, Serving
<1>4. ListInv' BY DEF ListInv
<1>5. HoldInv' BY DEF HoldInv, Holders
<1>c. Counted' = Counted BY DEF Counted
<1>6. CountInv' BY <1>c DEF CountInv
<1>7. StopInv' BY DEF StopInv
<1>. QED BY <1>1, <1>2, <1>3, <1>4, <1>5, <1>6, <1>7

\* Retaining adds a holder and counts it.
LEMMA RetainKeeps ==
  ASSUME IndInv, NEW c \in Conns, NEW p \in Producers, Retain(c, p)
  PROVE  IndInv'
<1>. USE ConnsAssumption DEF IndInv, streamVars, serverVars, stopVars, Mem, UpPc,
       WkPc, ThreadState, SockState, StopPc, Early, Late
<1>. USE DEF Retain
<1>1. TypeOK' BY DEF TypeOK
<1>2. UpgradeInv' BY DEF UpgradeInv
<1>3. WorkerInv' BY DEF WorkerInv, Serving
<1>4. ListInv' BY DEF ListInv
<1>0. /\ p \notin Holders(c)
      /\ Holders(c)' = Holders(c) \cup {p}
      /\ \A d \in Conns \ {c} : Holders(d)' = Holders(d)
  BY DEF TypeOK, Holders
<1>d. Cardinality(Holders(c)') = Cardinality(Holders(c)) + 1
  BY <1>0, FiniteCounts, CountAdd
<1>a. \A d \in Conns : workerRefs'[d] = Cardinality(Holders(d)')
  <2>1. /\ workerRefs'[c] = workerRefs[c] + 1
        /\ \A d \in Conns \ {c} : workerRefs'[d] = workerRefs[d]
    BY DEF TypeOK
  <2>2. workerRefs'[c] = Cardinality(Holders(c)')
    BY <1>d, <2>1 DEF HoldInv
  <2>3. \A d \in Conns \ {c} : workerRefs'[d] = Cardinality(Holders(d)')
    BY <1>0, <2>1 DEF HoldInv
  <2>. QED BY <2>2, <2>3
<1>b. wk[c] \in {"handler", "loop", "poll", "drain", "wait"}
  BY DEF InUse, HoldInv
<1>5. HoldInv' BY <1>a, <1>b DEF HoldInv
<1>c. Counted' = Counted BY DEF Counted
<1>6. CountInv' BY <1>c DEF CountInv
<1>7. StopInv' BY DEF StopInv
<1>. QED BY <1>1, <1>2, <1>3, <1>4, <1>5, <1>6, <1>7

\* Releasing removes a holder and uncounts it.
LEMMA ReleaseKeeps ==
  ASSUME IndInv, NEW p \in Producers, Release(p)
  PROVE  IndInv'
<1>. USE ConnsAssumption DEF IndInv, streamVars, serverVars, stopVars, Mem, UpPc,
       WkPc, ThreadState, SockState, StopPc, Early, Late
<1>. USE DEF Release
<1>1. TypeOK' BY DEF TypeOK
<1>2. UpgradeInv' BY DEF UpgradeInv
<1>3. WorkerInv' BY DEF WorkerInv, Serving
<1>4. ListInv' BY DEF ListInv
<1>h. PICK c \in Conns : hold[p] = c
  BY DEF TypeOK
<1>0. /\ p \in Holders(c)
      /\ Holders(c)' = Holders(c) \ {p}
      /\ \A d \in Conns \ {c} : Holders(d)' = Holders(d)
  BY <1>h DEF TypeOK, Holders
<1>d. /\ Cardinality(Holders(c)') = Cardinality(Holders(c)) - 1
      /\ Cardinality(Holders(c)) \in Nat \ {0}
  BY <1>0, FiniteCounts, CountRemove
<1>e. workerRefs[c] = Cardinality(Holders(c))
  BY DEF HoldInv
<1>f. /\ workerRefs'[c] = workerRefs[c] - 1
      /\ \A d \in Conns \ {c} : workerRefs'[d] = workerRefs[d]
  BY <1>h, <1>d, <1>e DEF TypeOK
<1>a. \A d \in Conns : workerRefs'[d] = Cardinality(Holders(d)')
  <2>1. workerRefs'[c] = Cardinality(Holders(c)')
    BY <1>d, <1>e, <1>f
  <2>2. \A d \in Conns \ {c} : workerRefs'[d] = Cardinality(Holders(d)')
    BY <1>0, <1>f DEF HoldInv
  <2>. QED BY <2>1, <2>2
<1>5. HoldInv' BY <1>a DEF HoldInv
<1>c. Counted' = Counted BY DEF Counted
<1>6. CountInv' BY <1>c DEF CountInv
<1>7. StopInv' BY DEF StopInv
<1>. QED BY <1>1, <1>2, <1>3, <1>4, <1>5, <1>6, <1>7

\* The steps of wf_xrpc_server_stop and wf_xrpc_server_free.
LEMMA StopKeeps ==
  ASSUME IndInv, StopStep
  PROVE  IndInv'
<1>. USE ConnsAssumption DEF IndInv, streamVars, serverVars, stopVars, Mem, UpPc,
       WkPc, ThreadState, SockState, StopPc, Early, Late
<1>1. ASSUME StopBegin PROVE IndInv'
  <2>. USE <1>1 DEF StopBegin
  <2>1. TypeOK' BY DEF TypeOK
  <2>2. UpgradeInv' BY DEF UpgradeInv
  <2>3. WorkerInv' BY DEF WorkerInv, Serving
  <2>4. ListInv' BY DEF ListInv
  <2>5. HoldInv' BY DEF HoldInv, Holders
  <2>c. Counted' = Counted BY DEF Counted
  <2>6. CountInv' BY <2>c DEF CountInv
  <2>7. StopInv' BY DEF StopInv
  <2>. QED BY <2>1, <2>2, <2>3, <2>4, <2>5, <2>6, <2>7
<1>2. ASSUME NEW c \in Conns, StopMark(c) PROVE IndInv'
  <2>. USE <1>2 DEF StopMark
  <2>1. TypeOK' BY DEF TypeOK
  <2>a. wk[c] \in Early BY DEF ListInv
  <2>b. \A d \in Conns : sock'[d] = IF d = c THEN "shut" ELSE sock[d] BY DEF TypeOK
  <2>2. UpgradeInv'
    <3>1. UNCHANGED <<up, ctx, mem, wk, pending, unrecorded, daemon, threadReady>> OBVIOUS
    <3>2. up[c] # "taken" BY <2>a DEF UpgradeInv
    <3>. HIDE <1>2 DEF StopMark
    <3>. QED BY <2>b, <3>1, <3>2 DEF UpgradeInv
  <2>3. WorkerInv'
    <3>1. UNCHANGED <<wk, thread, reaped, ctx, mem, joining>> OBVIOUS
    <3>. HIDE <1>2 DEF StopMark
    <3>. QED BY <2>b, <3>1 DEF WorkerInv, Serving
  <2>4. ListInv' BY DEF ListInv
  <2>5. HoldInv' BY DEF HoldInv, Holders
  <2>c. Counted' = Counted BY DEF Counted
  <2>6. CountInv' BY <2>c DEF CountInv
  <2>7. StopInv' BY DEF StopInv
  <2>. QED BY <2>1, <2>2, <2>3, <2>4, <2>5, <2>6, <2>7
<1>3. ASSUME StopMarked PROVE IndInv'
  <2>. USE <1>3 DEF StopMarked
  <2>1. TypeOK' BY DEF TypeOK
  <2>2. UpgradeInv' BY DEF UpgradeInv
  <2>3. WorkerInv' BY DEF WorkerInv, Serving
  <2>4. ListInv' BY DEF ListInv
  <2>5. HoldInv' BY DEF HoldInv, Holders
  <2>c. Counted' = Counted BY DEF Counted
  <2>6. CountInv' BY <2>c DEF CountInv
  <2>7. StopInv' BY DEF StopInv
  <2>. QED BY <2>1, <2>2, <2>3, <2>4, <2>5, <2>6, <2>7
<1>4. ASSUME NEW c \in Conns, StopPop(c) PROVE IndInv'
  <2>. USE <1>4 DEF StopPop
  <2>1. TypeOK' BY DEF TypeOK
  <2>2. UpgradeInv' BY DEF UpgradeInv
  <2>3. WorkerInv'
    <3>1. wk[c] \in Early BY DEF ListInv
    <3>2. \A d \in Conns : d # c => reaped'[d] = reaped[d] BY DEF TypeOK
    <3>3. joining = NoConn BY DEF ListInv
    <3>4. UNCHANGED <<wk, thread, ctx, mem, sock>> OBVIOUS
    <3>. HIDE <1>4 DEF StopPop
    <3>. QED BY <3>1, <3>2, <3>3, <3>4 DEF WorkerInv, Serving
  <2>4. ListInv' BY DEF TypeOK, WorkerInv, ListInv, Serving
  <2>5. HoldInv' BY DEF HoldInv, Holders
  <2>a. wk[c] \notin Late BY DEF ListInv
  <2>b. \A d \in Conns : d # c => reaped'[d] = reaped[d] BY DEF TypeOK
  <2>c. Counted' = Counted BY <2>a, <2>b DEF Counted
  <2>6. CountInv' BY <2>c DEF CountInv
  <2>7. StopInv' BY DEF StopInv
  <2>. QED BY <2>1, <2>2, <2>3, <2>4, <2>5, <2>6, <2>7
<1>5. ASSUME StopJoin PROVE IndInv'
  <2>. USE <1>5 DEF StopJoin
  <2>t. thread' \in [Conns -> ThreadState] BY Zenon DEF TypeOK
  <2>1. TypeOK' BY <2>t DEF TypeOK
  <2>2. UpgradeInv' BY DEF UpgradeInv
  <2>3. WorkerInv'
    <3>1. joining \in Conns => reaped[joining] /\ wk[joining] = "done" BY DEF ListInv
    <3>2. \A d \in Conns : thread'[d] = IF d = joining THEN "joined" ELSE thread[d] BY DEF TypeOK
    <3>3. UNCHANGED <<wk, reaped, ctx, mem, sock>> OBVIOUS
    <3>. HIDE <1>5 DEF StopJoin
    <3>. QED BY <3>1, <3>2, <3>3 DEF WorkerInv, Serving
  <2>4. ListInv' BY DEF TypeOK, ListInv
  <2>5. HoldInv' BY DEF HoldInv, Holders
  <2>c. Counted' = Counted BY DEF Counted
  <2>6. CountInv' BY <2>c DEF CountInv
  <2>7. StopInv' BY DEF StopInv
  <2>. QED BY <2>1, <2>2, <2>3, <2>4, <2>5, <2>6, <2>7
<1>6. ASSUME StopPopped PROVE IndInv'
  <2>. USE <1>6 DEF StopPopped
  <2>1. TypeOK' BY DEF TypeOK
  <2>2. UpgradeInv' BY DEF UpgradeInv
  <2>3. WorkerInv' BY DEF WorkerInv, Serving
  <2>4. ListInv' BY DEF ListInv
  <2>5. HoldInv' BY DEF HoldInv, Holders
  <2>c. Counted' = Counted BY DEF Counted
  <2>6. CountInv' BY <2>c DEF CountInv
  <2>7. StopInv' BY DEF StopInv
  <2>. QED BY <2>1, <2>2, <2>3, <2>4, <2>5, <2>6, <2>7
<1>7. ASSUME StopClosing PROVE IndInv'
  <2>. USE <1>7 DEF StopClosing
  <2>1. TypeOK' BY DEF TypeOK
  <2>2. UpgradeInv' BY DEF UpgradeInv
  <2>3. WorkerInv' BY DEF WorkerInv, Serving
  <2>4. ListInv' BY DEF ListInv
  <2>5. HoldInv' BY DEF HoldInv, Holders
  <2>c. Counted' = Counted BY DEF Counted
  <2>6. CountInv' BY <2>c, Zenon DEF CountInv
  <2>d. Counted = {}
    <3>1. Cardinality(Counted) = 0 BY DEF CountInv
    <3>. QED BY <3>1, FiniteCounts, FS_EmptySet
  <2>e. \A c \in Conns : wk[c] \in {"none", "finish", "done"}
    BY <2>d DEF Counted, TypeOK, WorkerInv, ListInv, StopInv, Serving
  <2>7. StopInv' BY <2>e DEF StopInv
  <2>. QED BY <2>1, <2>2, <2>3, <2>4, <2>5, <2>6, <2>7
<1>8. ASSUME StopDaemon PROVE IndInv'
  <2>. USE <1>8 DEF StopDaemon
  <2>1. TypeOK' BY DEF TypeOK
  <2>2. UpgradeInv' BY DEF UpgradeInv
  <2>3. WorkerInv' BY DEF WorkerInv, Serving
  <2>4. ListInv' BY DEF ListInv
  <2>5. HoldInv' BY DEF HoldInv, Holders
  <2>c. Counted' = Counted BY DEF Counted
  <2>6. CountInv' BY <2>c DEF CountInv
  <2>7. StopInv' BY DEF StopInv
  <2>. QED BY <2>1, <2>2, <2>3, <2>4, <2>5, <2>6, <2>7
<1>9. ASSUME NEW c \in Conns, FreePending(c) PROVE IndInv'
  <2>. USE <1>9 DEF FreePending, Discard
  <2>1. TypeOK' BY DEF TypeOK
  <2>2. UpgradeInv' BY DEF TypeOK, UpgradeInv, StopInv
  <2>3. WorkerInv'
    <3>1. wk[c] = "none" BY DEF UpgradeInv
    <3>2. \A d \in Conns : d # c => ctx'[d] = ctx[d] /\ mem'[d] = mem[d] BY DEF TypeOK
    <3>3. UNCHANGED <<wk, thread, reaped, sock, joining>> OBVIOUS
    <3>. HIDE <1>9 DEF FreePending, Discard
    <3>. QED BY <3>1, <3>2, <3>3 DEF WorkerInv, Serving
  <2>4. ListInv' BY DEF ListInv
  <2>5. HoldInv' BY DEF HoldInv, Holders
  <2>c. Counted' = Counted BY DEF Counted
  <2>6. CountInv' BY <2>c DEF CountInv
  <2>7. StopInv' BY DEF StopInv
  <2>. QED BY <2>1, <2>2, <2>3, <2>4, <2>5, <2>6, <2>7
<1>10. ASSUME FreeServer PROVE IndInv'
  <2>. USE <1>10 DEF FreeServer
  <2>1. TypeOK' BY DEF TypeOK
  <2>2. UpgradeInv' BY DEF UpgradeInv
  <2>3. WorkerInv' BY DEF WorkerInv, Serving
  <2>4. ListInv' BY DEF ListInv
  <2>5. HoldInv' BY DEF HoldInv, Holders
  <2>c. Counted' = Counted BY DEF Counted
  <2>6. CountInv' BY <2>c DEF CountInv
  <2>7. StopInv' BY DEF StopInv
  <2>. QED BY <2>1, <2>2, <2>3, <2>4, <2>5, <2>6, <2>7
<1>. QED BY <1>1, <1>2, <1>3, <1>4, <1>5, <1>6, <1>7, <1>8, <1>9, <1>10 DEF StopStep

\* Every step of every thread preserves the inductive invariant.
LEMMA NextInv == IndInv /\ [Next]_vars => IndInv'
<1>. SUFFICES ASSUME IndInv, [Next]_vars PROVE IndInv'
  OBVIOUS
<1>1. CASE UNCHANGED vars
  <2>. USE <1>1 DEF IndInv, vars, streamVars, serverVars, stopVars
  <2>1. TypeOK' BY DEF TypeOK
  <2>2. UpgradeInv' BY DEF UpgradeInv
  <2>3. WorkerInv' BY DEF WorkerInv, Serving, Early
  <2>4. ListInv' BY DEF ListInv, Early
  <2>5. HoldInv' BY DEF HoldInv, Holders
  <2>c. Counted' = Counted BY DEF Counted, Late
  <2>6. CountInv' BY <2>c DEF CountInv
  <2>7. StopInv' BY DEF StopInv
  <2>. QED BY <2>1, <2>2, <2>3, <2>4, <2>5, <2>6, <2>7
<1>. QED BY <1>1, MhdKeeps, WorkerKeeps, CloseKeeps, RetainKeeps, ReleaseKeeps, StopKeeps
           DEF Next, Terminated

\* The inductive invariant holds throughout.
LEMMA Invariance == Spec => []IndInv
<1>. QED BY InitInv, NextInv, PTL DEF Spec

-----------------------------------------------------------------------------
\* Every variable keeps its type; ws_closing never drops below zero.
THEOREM TypeCorrect == Spec => []TypeOK
<1>1. IndInv => TypeOK
  BY DEF IndInv
<1>. QED BY <1>1, Invariance, PTL

\* Nobody who can still reach a stream or its upgrade context finds it freed:
\* not the upgrade handler storing thread_ready, not stop() walking the list,
\* not a producer that holds a reference, not the worker itself.
THEOREM Lifetimes == Spec => []NoUseAfterFree
<1>1. IndInv => NoUseAfterFree
  <2>. SUFFICES ASSUME IndInv, NEW c \in Conns
                PROVE  /\ ReachesCtx(c) => ctx[c] = "live"
                       /\ ReachesStream(c) => mem[c] = "live"
    BY DEF NoUseAfterFree
  <2>. USE DEF IndInv, TypeOK, WkPc
  <2>1. HandingOver(c) => ctx[c] = "live" /\ mem[c] = "live"
    BY DEF HandingOver, UpgradeInv
  <2>2. c \in pending => ctx[c] = "live" /\ mem[c] = "live"
    BY DEF UpgradeInv
  <2>3. c \in wsStreams \/ up[c] = "published" => Serving(c)
    BY DEF ListInv, UpgradeInv, Early, Serving
  <2>4. (\E p \in Producers : hold[p] = c) => Serving(c)
    BY ConnsAssumption DEF HoldInv, Serving
  <2>5. Serving(c) => mem[c] = "live"
    BY DEF WorkerInv
  <2>6. wk[c] = "spawned" => ctx[c] = "live"
    BY DEF WorkerInv
  <2>. QED BY <2>1, <2>2, <2>3, <2>4, <2>5, <2>6 DEF ReachesCtx, ReachesStream
<1>. QED BY <1>1, Invariance, PTL

\* stop() and free() never take the daemon or the server away from a worker
\* that has still to call into them.
THEOREM Teardown == Spec => []DaemonOutlivesWorkers
<1>1. IndInv => DaemonOutlivesWorkers
  BY DEF IndInv, DaemonOutlivesWorkers, StopInv, TypeOK, WkPc, StopPc, UpPc
<1>. QED BY <1>1, Invariance, PTL

\* The shutdown() of stop() only hits descriptors of streams that own them.
THEOREM Descriptors == Spec => []ListedOwnsSocket
<1>1. IndInv => ListedOwnsSocket
  BY DEF IndInv, ListedOwnsSocket, ListInv, WorkerInv, TypeOK
<1>. QED BY <1>1, Invariance, PTL

\* Every worker thread is joined by stop() or detaches itself, never both.
THEOREM Joins == Spec => []JoinedOrDetached
<1>1. IndInv => JoinedOrDetached
  BY ConnsAssumption DEF IndInv, JoinedOrDetached, ListInv, WorkerInv, TypeOK
<1>. QED BY <1>1, Invariance, PTL

\* wf_xrpc_server_free leaves no recorded upgrade allocated.
THEOREM Released == Spec => []NothingStranded
<1>1. IndInv => NothingStranded
  <2>. SUFFICES ASSUME IndInv, stop = "freed", NEW c \in Conns \ unrecorded
                PROVE  ctx[c] # "live" /\ (mem[c] = "live" => wk[c] = "finish")
    BY DEF NothingStranded
  <2>1. /\ wk[c] \in {"none", "finish", "done"}
        /\ up[c] \in {"idle", "queued", "gone"}
        /\ pending = {}
    BY DEF IndInv, StopInv, TypeOK
  <2>2. CASE wk[c] = "none"
    BY <2>1, <2>2 DEF IndInv, UpgradeInv
  <2>3. CASE wk[c] \in {"finish", "done"}
    BY <2>3 DEF IndInv, WorkerInv
  <2>. QED BY <2>1, <2>2, <2>3
<1>. QED BY <1>1, Invariance, PTL

\* ws_stopping keeps every later hand-over off the list.
THEOREM DrainedStaysEmpty == Spec => []NoListingBehindStop
<1>1. IndInv => NoListingBehindStop
  BY DEF IndInv, NoListingBehindStop, StopInv
<1>. QED BY <1>1, Invariance, PTL
=============================================================================
