---------------------------- MODULE ServerProofs ----------------------------
(***************************************************************************)
(* The daemon beneath the server (MhdShim), for every set of connections,   *)
(* and the blob store behind it (BlobStore), for every set of CIDs and MIME *)
(* types.                                                                   *)
(***************************************************************************)
EXTENDS MhdShim, BlobStore, TLAPS

-----------------------------------------------------------------------------
(* The daemon.  FreedOnce speaks of threads that are over; before that it   *)
(* must be known who is going to free the connection (OwnInv).  StopWakesAll *)
(* needs that every thread that may wait is in the list stop() walks, and    *)
(* that no connection is accepted behind its pass (ListInv).                 *)

\* The types of the daemon's state.
ShimTypeOK ==
  /\ mem \in [Conns -> {"none", "live", "freed"}]
  /\ pc \in [Conns -> Pc]
  /\ suspended \in [Conns -> BOOLEAN]
  /\ open \in [Conns -> BOOLEAN]
  /\ urh \in [Conns -> BOOLEAN]
  /\ frees \in [Conns -> Nat]
  /\ list \subseteq Conns
  /\ acceptor \in {"running", "joined"}
  /\ stop \in {"none", "join", "wake", "poll", "done"}

\* Who is to free a connection: its thread until the upgrade handler is called
\* and the upgrade handle from then on; and it is allocated until then.
OwnInv ==
  \A c \in Conns :
    /\ pc[c] = "none" <=> mem[c] = "none"
    /\ mem[c] = "freed" <=> frees[c] # 0
    /\ pc[c] \notin {"upgrade", "done"} => frees[c] = 0 /\ ~urh[c]
    /\ pc[c] \in {"upgrade", "done"} => frees[c] + (IF urh[c] THEN 1 ELSE 0) = 1

\* Threads that may wait are listed, and stop() has joined the acceptor before
\* it walks the list.
ListInv ==
  /\ \A c \in Conns : pc[c] \in Pc \ {"none", "finish", "done"} => c \in list
  /\ stop # "none" => stopping
  /\ stop \in {"wake", "poll", "done"} => acceptor = "joined"

ShimInv == ShimTypeOK /\ OwnInv /\ ListInv /\ StopWakesAll

\* MHD_start_daemon establishes the invariant.
LEMMA ShimInitInv == ShimInit => ShimInv
BY DEF ShimInit, ShimInv, ShimTypeOK, OwnInv, ListInv, StopWakesAll, Pc

\* The acceptor and the steps of a connection preserve it.
LEMMA ConnStepInv ==
  ASSUME ShimInv, NEW c \in Conns,
         Accept(c) \/ AcceptFail(c) \/ ReadFail(c) \/ Thread(c) \/ Resume(c) \/ UpgradeClose(c)
  PROVE  ShimInv'
<1> USE DEF ShimInv, ShimTypeOK, OwnInv, ListInv, StopWakesAll, Pc, ThreadTo, daemonVars
<1>1. CASE Accept(c)
  BY <1>1 DEF Accept
<1>2. CASE AcceptFail(c)
  BY <1>2 DEF AcceptFail
<1>3. CASE ReadFail(c)
  BY <1>3 DEF ReadFail
<1>4. CASE ReadRequest(c)
  BY <1>4 DEF ReadRequest
<1>5. CASE Handle(c)
  <2>1. CASE pc' = [pc EXCEPT ![c] = "upgrade"] /\ urh' = [urh EXCEPT ![c] = TRUE]
    BY <1>5, <2>1 DEF Handle
  <2>2. CASE UNCHANGED urh /\ \E to \in {"unlink", "crc"} : pc' = [pc EXCEPT ![c] = to]
    BY <1>5, <2>2 DEF Handle
  <2> QED
    BY <1>5, <2>1, <2>2 DEF Handle
<1>6. CASE ReadBody(c)
  BY <1>6 DEF ReadBody
<1>7. CASE Check(c)
  BY <1>7 DEF Check
<1>8. CASE Resume(c)
  BY <1>8 DEF Resume
<1>9. CASE Unlink(c)
  BY <1>9 DEF Unlink
<1>10. CASE UnlinkUpgraded(c)
  BY <1>10 DEF UnlinkUpgraded
<1>11. CASE Finish(c)
  BY <1>11 DEF Finish
<1>12. CASE UpgradeClose(c)
  BY <1>12 DEF UpgradeClose
<1> QED
  BY <1>1, <1>2, <1>3, <1>4, <1>5, <1>6, <1>7, <1>8, <1>9, <1>10, <1>11, <1>12 DEF Thread

\* The steps of MHD_stop_daemon preserve it.
LEMMA StopperInv ==
  ASSUME ShimInv, StopBegin \/ Stopper
  PROVE  ShimInv'
<1> USE DEF ShimInv, ShimTypeOK, OwnInv, ListInv, StopWakesAll, Pc, connVars
<1>1. CASE StopBegin \/ StopJoin \/ StopFree
  BY <1>1 DEF StopBegin, StopJoin, StopFree
<1>2. CASE StopWake
  BY <1>2 DEF StopWake
<1> QED
  BY <1>1, <1>2 DEF Stopper

\* Every step of the daemon preserves it.
LEMMA ShimNextInv == ShimInv /\ [ShimNext]_shimVars => ShimInv'
<1> SUFFICES ASSUME ShimInv, [ShimNext]_shimVars PROVE ShimInv'
  OBVIOUS
<1>1. CASE UNCHANGED shimVars
  BY <1>1 DEF shimVars, connVars, daemonVars, ShimInv, ShimTypeOK, OwnInv, ListInv, StopWakesAll
<1> QED
  BY <1>1, ConnStepInv, StopperInv DEF ShimNext

\* A connection is freed exactly once, by its thread (connection_finish) or by
\* MHD_upgrade_action.
THEOREM ConnectionsFreedOnce == ShimSpec => []FreedOnce
<1>1. ShimInv => FreedOnce
  BY DEF ShimInv, OwnInv, FreedOnce
<1> QED
  BY <1>1, ShimInitInv, ShimNextInv, PTL DEF ShimSpec

\* Behind the pass of MHD_stop_daemon over the list no thread is parked on
\* resume_cv or blocked in recv.
THEOREM AllWoken == ShimSpec => []StopWakesAll
<1>1. ShimInv => StopWakesAll
  BY DEF ShimInv
<1> QED
  BY <1>1, ShimInitInv, ShimNextInv, PTL DEF ShimSpec

\* connection_main works on an allocated connection until it is upgraded or
\* finished.
THEOREM ThreadsAllocated == ShimSpec => []RunsAllocated
<1>1. ShimInv => RunsAllocated
  BY DEF ShimInv, ShimTypeOK, OwnInv, RunsAllocated
<1> QED
  BY <1>1, ShimInitInv, ShimNextInv, PTL DEF ShimSpec

-----------------------------------------------------------------------------
(* The blob store.  Durable is not inductive: what a step of a put or a     *)
(* delete may do to the files depends on what the steps before it have      *)
(* promised and done (PutInv and DeleteInv).                                *)

\* Once a put has opened the data file, any blob may be found, or the blob is a
\* new one: then nothing is found until the sidecar is there.  By then the data
\* is whole, unless fclose has failed.
PutInv ==
  /\ op.pc \in PutSteps \ {"open_data"} =>
       \/ Blobs \subseteq acked[op.cid]
       \/ /\ {NoBlob, [data |-> "whole", mime |-> op.mime], [data |-> "whole", mime |-> "torn"]}
               \subseteq acked[op.cid]
          /\ mime[op.cid] = IF op.pc = "write_mime" THEN "torn" ELSE "none"
  /\ op.pc \in {"open_mime", "write_mime"} =>
       data[op.cid] = "whole" \/ <<op.cid, "data">> \in lost

\* A delete takes the data first, and from then on the blob may be gone.
DeleteInv ==
  /\ op.pc \in DeleteSteps \ {"remove_data"} => NoBlob \in acked[op.cid]
  /\ op.pc \in {"remove_mime", "reopen_data"} => data[op.cid] = "none"
  /\ op.pc = "rewrite_data" => Blobs \subseteq acked[op.cid]

StoreInv == TypeOK /\ Durable /\ PutInv /\ DeleteInv

\* Whatever is on disk is a blob or none (wf_blob_store_new).
LEMMA OnDiskIsBlob ==
  ASSUME TypeOK, NEW c \in Cids
  PROVE  OnDisk(c) \in Anything
BY MimesAssumption DEF TypeOK, OnDisk, Anything, Blobs, NoBlob

\* Init establishes the invariant: an empty directory is what is promised.
LEMMA StoreInit == Init => StoreInv
BY DEF Init, StoreInv, TypeOK, Durable, PutInv, DeleteInv, OnDisk, Idle, NoBlob, Anything,
       Blobs, PutSteps, DeleteSteps

\* Each step of the store, and each crash, preserves it.
LEMMA StoreNext == StoreInv /\ [Next]_vars => StoreInv'
<1> SUFFICES ASSUME StoreInv, [Next]_vars PROVE StoreInv'
  OBVIOUS
<1> USE MimesAssumption DEF StoreInv, TypeOK, Durable, PutInv, DeleteInv, OnDisk, At, PutSteps,
        DeleteSteps, Idle, NoBlob, Anything, Blobs
<1>1. ASSUME NEW c \in Cids, NEW m \in Mimes, Put(c, m) PROVE StoreInv'
  BY <1>1 DEF Put
<1>2. CASE PutOpenData
  BY <1>2 DEF PutOpenData, AtRisk, Goto, Fails, Promise, Renewed
<1>3. CASE PutWriteData
  <2>1. TypeOK'
    BY <1>3 DEF PutWriteData, Goto, Fails, CutShort
  <2>2. Durable'
    BY <1>3 DEF PutWriteData, Goto, Fails, CutShort
  <2>3. PutInv'
    BY <1>3 DEF PutWriteData, Goto, Fails, CutShort
  <2>4. DeleteInv'
    BY <1>3 DEF PutWriteData, Goto, Fails, CutShort
  <2> QED
    BY <2>1, <2>2, <2>3, <2>4 DEF StoreInv
<1>4. CASE PutOpenMime
  BY <1>4 DEF PutOpenMime, Goto, Fails, Renewed
<1>5. CASE PutWriteMime
  <2>1. TypeOK'
    BY <1>5 DEF PutWriteMime, Fails, Promise, CutShort
  <2>2. Durable'
    <3>1. CASE <<op.cid, "mime">> \in lost' \/ <<op.cid, "data">> \in lost'
      BY <1>5, <3>1 DEF PutWriteMime, Fails, Promise, CutShort
    <3>2. CASE op' = Idle /\ mime' = [mime EXCEPT ![op.cid] = op.mime] /\ UNCHANGED <<data, lost>>
               /\ acked' = [acked EXCEPT ![op.cid] = {[data |-> "whole", mime |-> op.mime]}]
               /\ <<op.cid, "data">> \notin lost
      <4>1. data[op.cid] = "whole" /\ op.mime \in Mimes /\ op.cid \in Cids
        BY <1>5, <3>2 DEF PutWriteMime
      <4>2. \A c \in Cids : c = op.cid => OnDisk(c)' = [data |-> "whole", mime |-> op.mime]
        BY <3>2, <4>1
      <4>3. \A c \in Cids \ {op.cid} : OnDisk(c)' = OnDisk(c) /\ acked'[c] = acked[c]
        BY <3>2, <4>1
      <4> QED
        BY <3>2, <4>1, <4>2, <4>3
    <3>3. CASE UNCHANGED <<data, mime, lost, acked>>
      BY <3>3
    <3> QED
      BY <1>5, <3>1, <3>2, <3>3 DEF PutWriteMime, Fails, Promise, CutShort
  <2>3. PutInv'
    BY <1>5 DEF PutWriteMime, Fails, Promise, CutShort
  <2>4. DeleteInv'
    BY <1>5 DEF PutWriteMime, Fails, Promise, CutShort
  <2> QED
    BY <2>1, <2>2, <2>3, <2>4 DEF StoreInv
<1>6. ASSUME NEW c \in Cids, Delete(c) PROVE StoreInv'
  BY <1>6 DEF Delete
<1>7. CASE RemoveData
  BY <1>7 DEF RemoveData, Goto, Fails, Promise, Renewed
<1>8. CASE RemoveMime
  <2>1. TypeOK'
    BY <1>8 DEF RemoveMime, Goto, Promise, Renewed
  <2>2. Durable'
    BY <1>8 DEF RemoveMime, Goto, Promise, Renewed
  <2>3. PutInv'
    BY <1>8 DEF RemoveMime, Goto, Promise, Renewed
  <2>4. DeleteInv'
    BY <1>8 DEF RemoveMime, Goto, Promise, Renewed
  <2> QED
    BY <2>1, <2>2, <2>3, <2>4 DEF StoreInv
<1>9. CASE ReopenData
  BY <1>9 DEF ReopenData, Goto, Fails, Promise, Renewed
<1>10. CASE RewriteData
  BY <1>10 DEF RewriteData, Fails, CutShort
<1>11. CASE Restart
  BY <1>11, OnDiskIsBlob DEF Restart
<1>12. CASE UNCHANGED vars
  BY <1>12 DEF vars
<1> QED
  BY <1>1, <1>2, <1>3, <1>4, <1>5, <1>6, <1>7, <1>8, <1>9, <1>10, <1>11, <1>12 DEF Next

\* What is in the directory is always something the caller was told to expect,
\* whatever fails and wherever the process is killed, except for a blob of which
\* fclose has lost bytes (wf_blob_store_put, wf_blob_store_delete).
THEOREM DurableKept == Spec => []Durable
<1>1. StoreInv => Durable
  BY DEF StoreInv
<1> QED
  BY <1>1, StoreInit, StoreNext, PTL DEF Spec
=============================================================================
