------------------------------ MODULE DidCache ------------------------------
(***************************************************************************)
(* The process-wide cache of DID documents (src/identity/identity.c): a     *)
(* table with a fixed number of slots behind a mutex, read and filled by    *)
(* did_fetch_document in any thread, with the network in between.           *)
(*                                                                          *)
(* A document is known by the time its request was sent: it was current     *)
(* then or later.  Time is in whole ticks; a request ends within FetchMax   *)
(* of them (the transport's connect timeout, low-speed abort and the size   *)
(* limit see to that), and code that does not wait takes less than one.     *)
(* The clock is not set back: every entry would be taken for younger than   *)
(* it is by as much, and served that much longer.                           *)
(***************************************************************************)
EXTENDS Integers, DidNames

CONSTANTS Readers,    \* threads that call did_fetch_document
          SlotCount,  \* WF_DID_CACHE_SLOTS
          Ttls,       \* settings of wf_did_cache_configure: [stale, max]
          FetchMax,   \* the longest a request takes
          MaxTime     \* bound on the clock

ASSUME CacheAssumption ==
  /\ SlotCount \in Nat \ {0}
  /\ Ttls \subseteq [stale : Int, max : Int]
  /\ FetchMax \in Nat
  /\ MaxTime \in Nat

Slots == 1..SlotCount

VARIABLES
  now,      \* time(NULL)
  ttl,      \* wf_did_cache_stale_ttl and wf_did_cache_max_ttl
  cache,    \* wf_did_cache: for each slot the DID, its document and fetched_at
  fetch     \* where each reader is in did_fetch_document

cacheVars == <<now, ttl, cache, fetch>>

Empty == [did |-> NoDid, asof |-> 0, at |-> 0]
NoTtl == [stale |-> 0, max |-> 0]
Idle  == [pc |-> "idle", did |-> NoDid, ttl |-> NoTtl, copy |-> Empty, age |-> 0,
          sent |-> 0, from |-> "none", limit |-> 0]

CacheInit ==
  /\ now = 0
  /\ ttl \in Ttls
  /\ cache = [i \in Slots |-> Empty]
  /\ fetch = [r \in Readers |-> Idle]

\* The call returns a document, with the TTL that allowed it, or an error.
Return(r, from, asof, limit) ==
  fetch' = [fetch EXCEPT ![r] = [Idle EXCEPT !.pc = "return", !.from = from,
                                             !.sent = asof, !.limit = limit]]

Done(r) ==
  /\ fetch[r].pc = "return"
  /\ fetch' = [fetch EXCEPT ![r] = Idle]
  /\ UNCHANGED <<now, ttl, cache>>

\* The settings are read under the lock, once for the whole call.
Begin(r, d) ==
  /\ fetch[r].pc = "idle"
  /\ fetch' = [fetch EXCEPT ![r] = [Idle EXCEPT !.pc = "get", !.did = d, !.ttl = ttl]]
  /\ UNCHANGED <<now, ttl, cache>>

\* wf_did_cache_get: the first slot with the DID.
SlotsOf(d) == {i \in Slots : cache[i].did = d}
First(i, S) == i \in S /\ \A j \in S : i <= j

Send(r, copy, age) ==
  fetch' = [fetch EXCEPT ![r] = [@ EXCEPT !.pc = "wait", !.sent = now, !.copy = copy, !.age = age]]

Bypass(r) ==
  /\ fetch[r].pc = "get" /\ fetch[r].ttl.max <= 0
  /\ Send(r, Empty, 0)
  /\ UNCHANGED <<now, ttl, cache>>

\* No slot has the DID, or there is no memory for the copy.
Miss(r) ==
  /\ fetch[r].pc = "get" /\ fetch[r].ttl.max > 0
  /\ Send(r, Empty, 0)
  /\ UNCHANGED <<now, ttl, cache>>

\* Mutant: a copy is served without a request until max_ttl.
HitLong(r) ==
  /\ fetch[r].pc = "get" /\ fetch[r].ttl.max > 0
  /\ \E i \in Slots :
       LET e   == cache[i]
           age == now - e.at
       IN  /\ First(i, SlotsOf(fetch[r].did))
           /\ IF age < fetch[r].ttl.max
              THEN Return(r, "cache", e.asof, fetch[r].ttl.stale)
              ELSE Send(r, e, age)
  /\ UNCHANGED <<now, ttl, cache>>

\* A young copy is returned, if it can be parsed.
Hit(r) ==
  /\ fetch[r].pc = "get" /\ fetch[r].ttl.max > 0
  /\ \E i \in Slots :
       LET e   == cache[i]
           age == now - e.at
       IN  /\ First(i, SlotsOf(fetch[r].did))
           /\ IF age < fetch[r].ttl.stale
              THEN Return(r, "cache", e.asof, fetch[r].ttl.stale) \/ Return(r, "error", 0, 0)
              ELSE Send(r, e, age)
  /\ UNCHANGED <<now, ttl, cache>>

\* The request fails: the copy read before it is returned if it was young
\* enough then, and can be parsed.
FetchFails(r) ==
  /\ fetch[r].pc = "wait"
  /\ \/ /\ fetch[r].copy # Empty /\ fetch[r].age < fetch[r].ttl.max
        /\ Return(r, "stale", fetch[r].copy.asof, fetch[r].ttl.max)
     \/ Return(r, "error", 0, 0)
  /\ UNCHANGED <<now, ttl, cache>>

FetchSucceeds(r) ==
  /\ fetch[r].pc = "wait"
  /\ fetch' = [fetch EXCEPT ![r] = [@ EXCEPT !.pc = "put", !.copy = Empty, !.age = 0]]
  /\ UNCHANGED <<now, ttl, cache>>

\* wf_did_cache_put, in the first slot that is the DID's or is empty, else in
\* the oldest; without memory for the copy the slot is left empty, and without
\* memory for the text, or with the cache off, nothing is put.
Victims(d) ==
  LET fit == {i \in Slots : cache[i].did \in {d, NoDid}}
      old == {i \in Slots : \A j \in Slots : cache[i].at <= cache[j].at}
  IN  IF fit # {} THEN fit ELSE old

Put(r) ==
  /\ fetch[r].pc = "put"
  /\ \/ UNCHANGED cache
     \/ /\ fetch[r].ttl.max > 0
        /\ \E i \in Slots, e \in {Empty, [did |-> fetch[r].did, asof |-> fetch[r].sent, at |-> now]} :
             First(i, Victims(fetch[r].did)) /\ cache' = [cache EXCEPT ![i] = e]
  /\ Return(r, "network", fetch[r].sent, 0)
  /\ UNCHANGED <<now, ttl>>

\* wf_did_cache_clear and wf_did_cache_configure, at any time.
Clear ==
  /\ cache' = [i \in Slots |-> Empty]
  /\ UNCHANGED <<now, ttl, fetch>>

Configure ==
  /\ ttl' \in Ttls
  /\ UNCHANGED <<now, cache, fetch>>

Tick ==
  /\ now < MaxTime
  /\ \A r \in Readers : \/ fetch[r].pc = "idle"
                        \/ fetch[r].pc = "wait" /\ now - fetch[r].sent < FetchMax
  /\ now' = now + 1
  /\ UNCHANGED <<ttl, cache, fetch>>

ReaderStep(r) == \/ Bypass(r) \/ Miss(r) \/ Hit(r)
                 \/ FetchFails(r) \/ FetchSucceeds(r) \/ Put(r) \/ Done(r)

CacheNext == \/ \E r \in Readers : ReaderStep(r) \/ \E d \in Dids : Begin(r, d)
             \/ Clear \/ Configure \/ Tick

-----------------------------------------------------------------------------
\* How old a document is when a call returns it, counted from the request
\* that fetched it: one from the network at most as old as that request, one
\* from the cache under stale_ttl and the request that filled the slot, and
\* one served for want of a better under max_ttl and two requests: the age
\* was read before the request that failed (did_fetch_document).
BoundedAge ==
  \A r \in Readers :
    LET f   == fetch[r]
        age == now - f.sent
    IN  f.pc = "return" =>
          /\ f.from = "network" => age <= FetchMax
          /\ f.from = "cache" => age < f.limit + FetchMax
          /\ f.from = "stale" => age < f.limit + 2 * FetchMax
=============================================================================
