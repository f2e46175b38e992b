----------------------------- MODULE BlobStore -----------------------------
(***************************************************************************)
(* The file-backed blob store (src/blob/blob_store.c): an index in memory,  *)
(* and for each blob a file of data and a sidecar file with its MIME type,  *)
(* written one after the other.  One thread uses the store, its operations  *)
(* can fail at every call of the C library, and the process can be killed   *)
(* between any two of them.  What a call of the library did is on disk.     *)
(*                                                                          *)
(* A CID is the hash of its data, so the data of a blob is "whole" or it is *)
(* "torn": cut short, or empty.                                             *)
(***************************************************************************)
CONSTANTS Cids, Mimes

ASSUME MimesAssumption == "none" \notin Mimes /\ "torn" \notin Mimes

VARIABLES
  index,   \* store->head: for each CID its blob in memory, or NoBlob
  data,    \* the data files
  mime,    \* the sidecar files
  op,      \* the operation in progress
  lost,    \* files that fclose could not write to the end
  acked    \* for each CID what the caller may expect when it opens the store again

vars == <<index, data, mime, op, lost, acked>>

NoBlob == [data |-> "none", mime |-> "none"]
Blobs  == [data : {"whole", "torn"}, mime : Mimes \cup {"torn"}]
Anything == Blobs \cup {NoBlob}
Idle   == [pc |-> "idle"]

Init ==
  /\ index = [c \in Cids |-> NoBlob]
  /\ data = [c \in Cids |-> "none"]
  /\ mime = [c \in Cids |-> "none"]
  /\ op = Idle
  /\ lost = {}
  /\ acked = [c \in Cids |-> {NoBlob}]

\* wf_blob_store_new takes a blob whose two files can be read.
OnDisk(c) == IF "none" \in {data[c], mime[c]} THEN NoBlob
             ELSE [data |-> data[c], mime |-> mime[c]]

\* Opening a store, after a crash too.  There is no memory for some blobs, or
\* they cannot be read: these are left out.
Restart ==
  /\ op' = Idle
  /\ \E skipped \in SUBSET Cids :
       index' = [c \in Cids |-> IF c \in skipped THEN NoBlob ELSE OnDisk(c)]
  /\ UNCHANGED <<data, mime, lost, acked>>

At(pc)   == op.pc = pc
Goto(pc) == op' = [op EXCEPT !.pc = pc]

\* What the caller may expect from now on; a call that fails tells it nothing
\* new.
Promise(B) == acked' = [acked EXCEPT ![op.cid] = B]
Fails      == op' = Idle /\ UNCHANGED acked

\* A file is opened or removed, and what was missing of it no longer matters; or
\* fclose fails to write what is still in its buffer.
Renewed(file) == lost' = lost \ {<<op.cid, file>>}
CutShort(file) == lost' = lost \cup {<<op.cid, file>>}

-----------------------------------------------------------------------------
\* wf_blob_store_put.  The entry in memory comes first.
Put(c, m) ==
  /\ At("idle")
  /\ index' = [index EXCEPT ![c] = [data |-> "whole", mime |-> m]]
  /\ op' \in {[pc |-> "open_data", cid |-> c, mime |-> m], Idle}
  /\ UNCHANGED <<data, mime, lost, acked>>

\* What the caller may find until the put returns, once the data file is opened.
\* When a sidecar of an earlier blob is there, the data is at risk; when none
\* is, the blob comes into being with its sidecar.
AtRisk(c, m) ==
  IF mime[c] = "none"
  THEN acked[c] \cup {NoBlob, [data |-> "whole", mime |-> m], [data |-> "whole", mime |-> "torn"]}
  ELSE acked[c] \cup Blobs

PutOpenData ==
  /\ At("open_data")
  /\ \/ /\ data' = [data EXCEPT ![op.cid] = "torn"]
        /\ Renewed("data")
        /\ Goto("write_data")
        /\ Promise(AtRisk(op.cid, op.mime))
     \/ UNCHANGED <<data, lost>> /\ Fails
  /\ UNCHANGED <<index, mime>>

\* Mutant: the result of fwrite is not looked at either.
PutWriteDataUnchecked ==
  /\ At("write_data")
  /\ \E d \in {"whole", "torn"} : data' = [data EXCEPT ![op.cid] = d]
  /\ Goto("open_mime")
  /\ UNCHANGED <<index, mime, lost, acked>>

\* fwrite is checked.  The result of fclose is not: when it fails the call goes
\* on as if the bytes were written.
PutWriteData ==
  /\ At("write_data")
  /\ \/ /\ data' = [data EXCEPT ![op.cid] = "whole"]
        /\ Goto("open_mime")
        /\ UNCHANGED <<lost, acked>>
     \/ CutShort("data") /\ Goto("open_mime") /\ UNCHANGED <<data, acked>>
     \/ UNCHANGED <<data, lost>> /\ Fails
  /\ UNCHANGED <<index, mime>>

PutOpenMime ==
  /\ At("open_mime")
  /\ \/ /\ mime' = [mime EXCEPT ![op.cid] = "torn"]
        /\ Renewed("mime")
        /\ Goto("write_mime")
        /\ UNCHANGED acked
     \/ UNCHANGED <<mime, lost>> /\ Fails
  /\ UNCHANGED <<index, data>>

\* WF_OK, also when fclose fails; or fwrite fails.
PutWriteMime ==
  /\ At("write_mime")
  /\ \/ /\ \/ mime' = [mime EXCEPT ![op.cid] = op.mime] /\ UNCHANGED lost
           \/ CutShort("mime") /\ UNCHANGED mime
        /\ op' = Idle
        /\ Promise({[data |-> "whole", mime |-> op.mime]})
     \/ UNCHANGED <<mime, lost>> /\ Fails
  /\ UNCHANGED <<index, data>>

-----------------------------------------------------------------------------
\* wf_blob_store_delete: the data, the sidecar, then the entry in memory.  A
\* file that is not there cannot be removed.
Delete(c) ==
  /\ At("idle") /\ index[c] # NoBlob
  /\ op' = [pc |-> "remove_data", cid |-> c]
  /\ UNCHANGED <<index, data, mime, lost, acked>>

RemoveData ==
  /\ At("remove_data")
  /\ \/ /\ data[op.cid] # "none"
        /\ data' = [data EXCEPT ![op.cid] = "none"]
        /\ Renewed("data")
        /\ Goto("remove_mime")
        /\ Promise(acked[op.cid] \cup {NoBlob})
     \/ UNCHANGED <<data, lost>> /\ Fails
  /\ UNCHANGED <<index, mime>>

RemoveMime ==
  /\ At("remove_mime")
  /\ \/ /\ mime[op.cid] # "none"
        /\ mime' = [mime EXCEPT ![op.cid] = "none"]
        /\ index' = [index EXCEPT ![op.cid] = NoBlob]
        /\ Renewed("mime")
        /\ op' = Idle
        /\ Promise({NoBlob})
     \/ UNCHANGED <<mime, index, lost>> /\ Goto("reopen_data") /\ UNCHANGED acked
  /\ UNCHANGED data

\* The sidecar stays, so the data is written again, and removed if that fails.
\* The delete fails either way, and while it writes the data is at risk.
ReopenData ==
  /\ At("reopen_data")
  /\ \/ /\ data' = [data EXCEPT ![op.cid] = "torn"]
        /\ Renewed("data")
        /\ Goto("rewrite_data")
        /\ Promise(acked[op.cid] \cup Blobs)
     \/ UNCHANGED <<data, lost>> /\ Fails
  /\ UNCHANGED <<index, mime>>

\* As it is in memory, cut short by fclose, or removed because fwrite failed.
RewriteData ==
  /\ At("rewrite_data")
  /\ \/ data' = [data EXCEPT ![op.cid] = index[op.cid].data] /\ UNCHANGED lost
     \/ CutShort("data") /\ UNCHANGED data
     \/ data' = [data EXCEPT ![op.cid] = "none"] /\ UNCHANGED lost
  /\ Fails
  /\ UNCHANGED <<index, mime>>

-----------------------------------------------------------------------------
Next ==
  \/ \E c \in Cids : Delete(c) \/ \E m \in Mimes : Put(c, m)
  \/ PutOpenData \/ PutWriteData \/ PutOpenMime \/ PutWriteMime
  \/ RemoveData \/ RemoveMime \/ ReopenData \/ RewriteData
  \/ Restart

Spec == Init /\ [][Next]_vars

-----------------------------------------------------------------------------
PutSteps    == {"open_data", "write_data", "open_mime", "write_mime"}
DeleteSteps == {"remove_data", "remove_mime", "reopen_data", "rewrite_data"}

TypeOK ==
  /\ index \in [Cids -> Anything]
  /\ data \in [Cids -> {"none", "whole", "torn"}]
  /\ mime \in [Cids -> Mimes \cup {"none", "torn"}]
  /\ lost \subseteq Cids \X {"data", "mime"}
  /\ acked \in [Cids -> SUBSET Anything]
  /\ \/ op = Idle
     \/ op \in [pc : PutSteps, cid : Cids, mime : Mimes]
     \/ op \in [pc : DeleteSteps, cid : Cids]

\* What the directory holds is at any time, in the middle of an operation
\* too, something the caller was told to expect, for every blob of which
\* fclose has written both files to the end.  A put that returned WF_OK is
\* there, data and type, until a later call has opened or removed its data;
\* a blob whose delete returned WF_OK is gone, and one
\* whose delete was cut short before the data is written again is as it was or
\* gone; a blob stored for the first time is never found with part of its
\* data; one that is stored again does not vanish; and nothing done to one CID
\* touches another (wf_blob_store_put, wf_blob_store_delete).
Durable ==
  \A c \in Cids : {<<c, "data">>, <<c, "mime">>} \cap lost = {} => OnDisk(c) \in acked[c]

\* What blob_store.h:49-51 says of wf_blob_store_put, "Returns WF_OK, [...] or
\* WF_ERR_INTERNAL on file IO failure": as long as nothing else is done to it, a
\* blob that was stored with WF_OK is on disk, all of its data and its type.
StoredOnOk ==
  \A c \in Cids, m \in Mimes :
    LET blob == [data |-> "whole", mime |-> m] IN acked[c] = {blob} => OnDisk(c) = blob
=============================================================================
