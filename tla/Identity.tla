------------------------------ MODULE Identity ------------------------------
(***************************************************************************)
(* wf_identity_verify_handle (src/identity/identity.c) in some threads,     *)
(* wf_did_resolve and the other readers of documents in others: a handle is *)
(* resolved to a DID (HandleRace) and the DID to its document, through the  *)
(* cache all threads share (DidCache).  What the document says of the       *)
(* handle is left to the caller.                                            *)
(***************************************************************************)
EXTENDS HandleRace, DidCache

ASSUME VerifiersRead == Callers \subseteq Readers

VARIABLE verify   \* where each verifying thread is after its handle is resolved

vars == <<raceVars, cacheVars, verify>>

Init == RaceInit /\ CacheInit /\ verify = [c \in Callers |-> "handle"]

\* The handle is resolved: its document is next.
VerifyFetch(c) ==
  /\ verify[c] = "handle" /\ call[c] = "returned" /\ result[c].did # NoDid
  /\ Begin(c, result[c].did)
  /\ TakeResult(c)
  /\ verify' = [verify EXCEPT ![c] = "document"]

\* An error is returned.  WF_OK without a DID is not taken for one: the cache
\* compares the null pointer with the DID of its first document, and when it
\* has none the null DID is refused.
VerifyFails(c) ==
  /\ verify[c] = "handle" /\ call[c] = "returned" /\ result[c].did = NoDid
  /\ TakeResult(c)
  /\ \E end \in {"returned"} \cup (IF result[c].status = "ok" THEN {"crashed"} ELSE {}) :
       verify' = [verify EXCEPT ![c] = end]
  /\ UNCHANGED cacheVars

VerifyReturns(c) ==
  /\ verify[c] = "document" /\ fetch[c].pc = "idle"
  /\ verify' = [verify EXCEPT ![c] = "returned"]
  /\ UNCHANGED <<raceVars, cacheVars>>

\* The client goes when the whole call is over.
Discard(c) ==
  /\ verify[c] = "returned"
  /\ FreeClient(c)
  /\ UNCHANGED <<cacheVars, verify>>

RaceStep(c) ==
  /\ CallStep(c) \/ \E s \in Sides : ThreadStep(c, s)
  /\ UNCHANGED <<cacheVars, verify>>

\* wf_did_resolve, wf_did_resolve_raw, wf_did_resolve_service_by_id and
\* wf_did_resolve_verification_key.
Resolve(r, d) ==
  /\ r \notin Callers
  /\ Begin(r, d)
  /\ UNCHANGED <<raceVars, verify>>

CacheStep(r) == ReaderStep(r) /\ UNCHANGED <<raceVars, verify>>
Around == (Clear \/ Configure \/ Tick) /\ UNCHANGED <<raceVars, verify>>

Next == \/ \E c \in Callers : \/ VerifyFetch(c) \/ VerifyFails(c) \/ VerifyReturns(c)
                              \/ Discard(c) \/ RaceStep(c)
        \/ \E r \in Readers : CacheStep(r) \/ \E d \in Dids : Resolve(r, d)
        \/ Around

\* Of the threads that work on a call, one that can run does, and a lookup or
\* a request ends by itself: the DNS query waits 5 seconds, the transport gives
\* up on a stalled peer.
WorkOn(c) == \/ VerifyFetch(c) \/ VerifyFails(c) \/ VerifyReturns(c)
             \/ RaceStep(c) \/ CacheStep(c)

Fairness == \A c \in Callers : WF_vars(WorkOn(c))

Spec == Init /\ [][Next]_vars /\ Fairness

-----------------------------------------------------------------------------
\* The client that a verifying call uses, for the race and for the document,
\* is alive until every use is over.
ClientOutlivesUse ==
  /\ ClientOutlivesLookups
  /\ \A c \in Callers : fetch[c].pc = "wait" => client[c]

\* Every call returns, and the shared state of its race is freed: no thread
\* waits for a side that cannot report any more, whatever failed; only a DID
\* that could not be copied may end it otherwise.
CallsEnd == \A c \in Callers : <>[](verify[c] \in {"returned", "crashed"} /\ refs[c] = 0)
=============================================================================
