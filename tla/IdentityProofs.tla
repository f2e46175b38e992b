--------------------------- MODULE IdentityProofs ---------------------------
(***************************************************************************)
(* The safety properties of Identity, for every set of callers, readers and *)
(* DIDs, every number of slots, every setting of the TTLs and every bound   *)
(* on the time a request takes.                                             *)
(*                                                                          *)
(* RaceInv says what the reference count of a race counts, and that the     *)
(* caller has seen both sides report before it gives up its own reference.  *)
(* AgeInv says how old the documents in the cache and in the readers' hands *)
(* are.  UseInv says when a verifying thread is in which of the two.        *)
(***************************************************************************)
EXTENDS Identity, TLAPS

CallSteps == {"idle", "launch_dns", "launch_wk", "wait", "release", "returned"}

RaceTypeOK ==
  /\ call \in [Callers -> CallSteps]
  /\ refs \in [Callers -> Int]
  /\ freed \in [Callers -> BOOLEAN]
  /\ thread \in [Callers -> [Sides -> {"none", "lookup", "release", "gone"}]]
  /\ done \in [Callers -> [Sides -> BOOLEAN]]
  /\ client \in [Callers -> BOOLEAN]

\* The references of the caller and of the two threads.
Own(c)     == IF InCall(c) THEN 1 ELSE 0
Held(c, s) == IF thread[c][s] \in {"lookup", "release"} THEN 1 ELSE 0

RaceInv ==
  \A c \in Callers :
    /\ refs[c] = Own(c) + Held(c, "dns") + Held(c, "wk")
    /\ freed[c] => refs[c] = 0
    /\ call[c] = "idle" => ~freed[c]
    /\ call[c] \in {"idle", "launch_dns"} => thread[c]["dns"] = "none" /\ ~done[c]["dns"]
    /\ call[c] \in {"idle", "launch_dns", "launch_wk"} => thread[c]["wk"] = "none" /\ ~done[c]["wk"]
    /\ call[c] \in {"release", "returned"} => \A s \in Sides : thread[c][s] # "lookup"
    /\ \A s \in Sides : done[c][s] => thread[c][s] # "lookup"
    /\ ~client[c] => call[c] = "returned"

RaceIndInv == RaceTypeOK /\ RaceInv

\* The reference count makes the two properties of the race true.
LEMMA RaceProperties == RaceIndInv => StateOwned /\ ClientOutlivesLookups
BY DEF RaceIndInv, RaceTypeOK, RaceInv, StateOwned, ClientOutlivesLookups, Own, Held, InCall,
       Touches, Sides, CallSteps

\* No call has begun at first.
LEMMA RaceInitInv == RaceInit => RaceIndInv
BY DEF RaceInit, RaceIndInv, RaceTypeOK, RaceInv, Own, Held, InCall, Sides, Pair, CallSteps

\* The last release frees the state; no release lets a side be done.
LEMMA ReleaseFacts ==
  ASSUME RaceTypeOK, NEW c \in Callers, Release(c)
  PROVE  /\ refs' = [refs EXCEPT ![c] = @ - 1]
         /\ freed' \in [Callers -> BOOLEAN]
         /\ done' \in [Callers -> [Sides -> BOOLEAN]]
         /\ \A d \in Callers, s \in Sides : done'[d][s] => done[d][s]
         /\ \A d \in Callers : freed'[d] => freed[d] \/ (d = c /\ refs[c] = 1)
<1>1. CASE refs[c] = 1
  <2>1. /\ refs' = [refs EXCEPT ![c] = @ - 1]
        /\ freed' = [freed EXCEPT ![c] = TRUE]
        /\ done' = [done EXCEPT ![c] = [s \in Sides |-> FALSE]]
    BY <1>1 DEF Release, Pair
  <2>2. freed' \in [Callers -> BOOLEAN] /\ done' \in [Callers -> [Sides -> BOOLEAN]]
    BY <2>1 DEF RaceTypeOK
  <2>3. \A d \in Callers, s \in Sides : done'[d][s] => done[d][s]
    BY <2>1 DEF RaceTypeOK
  <2>4. \A d \in Callers : freed'[d] => freed[d] \/ (d = c /\ refs[c] = 1)
    BY <1>1, <2>1 DEF RaceTypeOK
  <2> QED
    BY <2>1, <2>2, <2>3, <2>4
<1>2. CASE refs[c] # 1
  BY <1>2 DEF RaceTypeOK, Release
<1> QED
  BY <1>1, <1>2

\* Each step of a race keeps the count right.
LEMMA RaceNextInv == RaceIndInv /\ [RaceNext]_raceVars => RaceIndInv'
<1> SUFFICES ASSUME RaceIndInv, [RaceNext]_raceVars PROVE RaceIndInv'
  OBVIOUS
<1> USE DEF RaceIndInv, RaceTypeOK, RaceInv, Own, Held, InCall, Sides, CallSteps
<1>1. ASSUME NEW c \in Callers, StartRace(c) PROVE RaceIndInv'
  BY <1>1 DEF StartRace
<1>2. ASSUME NEW c \in Callers, StartSequential(c) PROVE RaceIndInv'
  BY <1>2 DEF StartSequential
<1>3. ASSUME NEW c \in Callers, NEW s \in Sides, Launch(c, s) PROVE RaceIndInv'
  BY <1>3 DEF Launch, Launching, Launched
<1>4. ASSUME NEW c \in Callers, NEW s \in Sides, LaunchFails(c, s) PROVE RaceIndInv'
  BY <1>4 DEF LaunchFails, Launching, Launched
<1>5. ASSUME NEW c \in Callers, NEW s \in Sides, Lookup(c, s) PROVE RaceIndInv'
  <2>1. /\ thread[c][s] = "lookup"
        /\ thread' = [thread EXCEPT ![c][s] = "release"]
        /\ done' = [done EXCEPT ![c][s] = TRUE]
        /\ UNCHANGED <<call, refs, freed, client>>
    BY <1>5 DEF Lookup
  <2>2. call[c] \notin {"idle", "launch_dns"} \/ s = "wk"
    BY <2>1
  <2>3. RaceTypeOK'
    BY <2>1
  <2>4. RaceInv'
    BY <2>1, <2>2
  <2> QED
    BY <2>3, <2>4
<1>6. ASSUME NEW c \in Callers, NEW s \in Sides, ThreadRelease(c, s) PROVE RaceIndInv'
  <2>1. /\ thread[c][s] = "release"
        /\ thread' = [thread EXCEPT ![c][s] = "gone"]
        /\ UNCHANGED <<call, client>>
    BY <1>6 DEF ThreadRelease
  <2>2. Release(c)
    BY <1>6 DEF ThreadRelease
  <2>3. RaceTypeOK'
    BY <2>1, <2>2, ReleaseFacts
  <2>4. RaceInv'
    BY <2>1, <2>2, ReleaseFacts
  <2> QED
    BY <2>3, <2>4
<1>7. ASSUME NEW c \in Callers, Choose(c) PROVE RaceIndInv'
  <2>1. /\ call[c] = "wait" /\ \A s \in Sides : done[c][s]
        /\ call' = [call EXCEPT ![c] = "release"]
        /\ UNCHANGED <<refs, freed, thread, done, client>>
    BY <1>7 DEF Choose, AllDone
  <2>2. \A s \in Sides : thread[c][s] # "lookup"
    BY <2>1
  <2> QED
    BY <2>1, <2>2
<1>8. ASSUME NEW c \in Callers, CallerRelease(c) PROVE RaceIndInv'
  <2>1. /\ call[c] = "release"
        /\ call' = [call EXCEPT ![c] = "returned"]
        /\ UNCHANGED <<thread, client>>
    BY <1>8 DEF CallerRelease
  <2>2. Release(c)
    BY <1>8 DEF CallerRelease
  <2>3. RaceTypeOK'
    BY <2>1, <2>2, ReleaseFacts
  <2>4. RaceInv'
    BY <2>1, <2>2, ReleaseFacts
  <2> QED
    BY <2>3, <2>4
<1>9. ASSUME NEW c \in Callers, TakeResult(c) PROVE RaceIndInv'
  BY <1>9 DEF TakeResult
<1>10. ASSUME NEW c \in Callers, FreeClient(c) PROVE RaceIndInv'
  BY <1>10 DEF FreeClient
<1>11. CASE UNCHANGED raceVars
  BY <1>11 DEF raceVars
<1> QED
  BY <1>1, <1>2, <1>3, <1>4, <1>5, <1>6, <1>7, <1>8, <1>9, <1>10, <1>11
     DEF RaceNext, CallStep, ThreadStep

\* The answers keep their types.
AnswerInv ==
  /\ status \in [Callers -> [Sides -> {"none", "ok"} \cup Failures]]
  /\ did \in [Callers -> [Sides -> Dids \cup {NoDid}]]
  /\ result \in [Callers -> [status : {"none", "ok"} \cup Failures, did : Dids \cup {NoDid}]]

\* There are no answers at first.
LEMMA AnswerInitInv == RaceInit => AnswerInv
BY DEF RaceInit, AnswerInv, Pair, Nothing

\* Each step of a race keeps its answers so.
LEMMA AnswerNextInv == AnswerInv /\ [RaceNext]_raceVars => AnswerInv'
<1> SUFFICES ASSUME AnswerInv, [RaceNext]_raceVars PROVE AnswerInv'
  OBVIOUS
<1> USE DEF AnswerInv, Failures
<1>1. ASSUME NEW c \in Callers, NEW s \in Sides, Lookup(c, s) PROVE AnswerInv'
  <2>1. PICK r \in Answers : /\ status' = [status EXCEPT ![c][s] = r.status]
                             /\ did' = [did EXCEPT ![c][s] = r.did]
    BY <1>1 DEF Lookup
  <2>2. r.status \in {"ok"} \cup Failures /\ r.did \in Dids \cup {NoDid}
    BY DEF Answers
  <2> QED
    BY <1>1, <2>1, <2>2 DEF Lookup
<1>2. ASSUME NEW c \in Callers, StartSequential(c) PROVE AnswerInv'
  <2>1. PICK r \in Answers : result' = [result EXCEPT ![c] = r]
    BY <1>2 DEF StartSequential
  <2>2. r \in [status : {"none", "ok"} \cup Failures, did : Dids \cup {NoDid}]
    BY DEF Answers
  <2> QED
    BY <1>2, <2>1, <2>2 DEF StartSequential
<1>3. ASSUME NEW c \in Callers, NEW s \in Sides, Launch(c, s) \/ LaunchFails(c, s) PROVE AnswerInv'
  <2>1. CASE UNCHANGED <<status, did, result>>
    BY <2>1
  <2>2. CASE status' = [status EXCEPT ![c][s] = "other"] /\ UNCHANGED <<did, result>>
    BY <2>2
  <2> QED
    BY <1>3, <2>1, <2>2 DEF Launch, LaunchFails
<1>4. ASSUME NEW c \in Callers, Release(c), UNCHANGED result PROVE AnswerInv'
  <2>1. CASE UNCHANGED <<status, did>>
    BY <1>4, <2>1
  <2>2. CASE /\ status' = [status EXCEPT ![c] = [s \in Sides |-> "none"]]
             /\ did' = [did EXCEPT ![c] = [s \in Sides |-> NoDid]]
    BY <1>4, <2>2
  <2> QED
    BY <1>4, <2>1, <2>2 DEF Release, Pair
<1>5. ASSUME NEW c \in Callers, Choose(c) PROVE AnswerInv'
  <2>1. Choice(c) \in [status : {"none", "ok"} \cup Failures, did : Dids \cup {NoDid}]
    BY DEF Choice, Sides
  <2>2. PICK d \in {Choice(c).did, NoDid} :
          result' = [result EXCEPT ![c] = [Choice(c) EXCEPT !.did = d]]
    BY <1>5 DEF Choose
  <2> QED
    BY <1>5, <2>1, <2>2 DEF Choose
<1>6. ASSUME NEW c \in Callers, TakeResult(c) PROVE AnswerInv'
  BY <1>6 DEF TakeResult, Nothing
<1>7. ASSUME NEW c \in Callers, StartRace(c) \/ FreeClient(c) PROVE AnswerInv'
  BY <1>7 DEF StartRace, FreeClient
<1>8. CASE UNCHANGED raceVars
  BY <1>8 DEF raceVars
<1> QED
  BY <1>1, <1>2, <1>3, <1>4, <1>5, <1>6, <1>7, <1>8
     DEF RaceNext, CallStep, ThreadStep, ThreadRelease, CallerRelease

-----------------------------------------------------------------------------
Settings == [stale : Int, max : Int]
Entries  == [did : Dids \cup {NoDid}, asof : Int, at : Int]
Fetches  == [pc : {"idle", "get", "wait", "put", "return"}, did : Dids \cup {NoDid},
             ttl : Settings, copy : Entries, age : Int, sent : Int,
             from : {"none", "cache", "stale", "network", "error"}, limit : Int]

CacheTypeOK ==
  /\ now \in Int
  /\ ttl \in Settings
  /\ cache \in [Slots -> Entries]
  /\ fetch \in [Readers -> Fetches]

\* An entry was written within one request of the time its document is from.
Fresh(e) == e.at - e.asof <= FetchMax

\* A request that is out has not taken longer than it may, the copy read
\* before it had the age noted then, and a returned document is not too old.
FetchOK(f) ==
  /\ f.pc \in {"wait", "put"} => now - f.sent <= FetchMax
  /\ f.pc = "wait" /\ f.copy # Empty => Fresh(f.copy) /\ f.age = f.sent - f.copy.at
  /\ f.pc = "return" =>
       /\ f.from = "network" => now - f.sent <= FetchMax
       /\ f.from = "cache" => now - f.sent < f.limit + FetchMax
       /\ f.from = "stale" => now - f.sent < f.limit + 2 * FetchMax

AgeInv ==
  /\ \A i \in Slots : Fresh(cache[i])
  /\ \A r \in Readers : FetchOK(fetch[r])

CacheIndInv == CacheTypeOK /\ AgeInv

\* The ages are those the property is about.
LEMMA CacheProperty == CacheIndInv => BoundedAge
BY DEF CacheIndInv, AgeInv, FetchOK, BoundedAge

\* An empty slot is a fresh entry.
LEMMA EmptyFresh == Empty \in Entries /\ Fresh(Empty)
BY CacheAssumption DEF Empty, Entries, Fresh

\* A reader that is not in a call has nothing that is too old.
LEMMA IdleOK == Idle \in Fetches /\ FetchOK(Idle)
BY EmptyFresh DEF Idle, Fetches, Settings, NoTtl, FetchOK

\* What a fetch is while its request is out, and after it.
LEMMA FetchTypes ==
  ASSUME NEW f \in Fetches, NEW s \in Int, NEW e \in Entries, NEW a \in Int
  PROVE  /\ [f EXCEPT !.pc = "wait", !.sent = s, !.copy = e, !.age = a] \in Fetches
         /\ [f EXCEPT !.pc = "put", !.copy = e, !.age = a] \in Fetches
BY DEF Fetches

\* The cache is empty at first.
LEMMA CacheInitInv == CacheInit => CacheIndInv
<1> SUFFICES ASSUME CacheInit PROVE CacheIndInv
  OBVIOUS
<1>1. CacheTypeOK
  BY EmptyFresh, IdleOK, CacheAssumption DEF CacheInit, CacheTypeOK, Settings
<1>2. AgeInv
  BY EmptyFresh, IdleOK DEF CacheInit, AgeInv
<1> QED
  BY <1>1, <1>2 DEF CacheIndInv

\* One reader's step is about its own fetch, and about the cache if it fills
\* a slot.
LEMMA ReaderMoves ==
  ASSUME CacheIndInv, NEW r \in Readers, NEW f \in Fetches, FetchOK(f),
         fetch' = [fetch EXCEPT ![r] = f],
         cache' \in [Slots -> Entries], \A i \in Slots : Fresh(cache'[i]),
         UNCHANGED <<now, ttl>>
  PROVE  CacheIndInv'
BY DEF CacheIndInv, CacheTypeOK, AgeInv, FetchOK, Fresh

\* A request is sent, with the copy that is at hand.
LEMMA SendMoves ==
  ASSUME CacheIndInv, NEW r \in Readers, NEW e \in Entries, Fresh(e),
         Send(r, e, now - e.at) \/ (e = Empty /\ Send(r, e, 0)), UNCHANGED <<now, ttl, cache>>
  PROVE  CacheIndInv'
<1>1. PICK a \in Int : Send(r, e, a) /\ (e # Empty => a = now - e.at)
  BY DEF CacheIndInv, CacheTypeOK, Entries
<1> DEFINE f == [fetch[r] EXCEPT !.pc = "wait", !.sent = now, !.copy = e, !.age = a]
<1>2. fetch[r] \in Fetches /\ now \in Int
  BY DEF CacheIndInv, CacheTypeOK
<1>3. f \in Fetches
  BY <1>2, FetchTypes
<1>4. f.pc = "wait" /\ f.sent = now /\ f.copy = e /\ f.age = a
  BY <1>2 DEF Fetches
<1>5. FetchOK(f)
  <2> HIDE DEF f
  <2> QED
    BY <1>1, <1>2, <1>4, CacheAssumption DEF FetchOK
<1>6. fetch' = [fetch EXCEPT ![r] = f]
  BY <1>1 DEF Send
<1> HIDE DEF f
<1> QED
  BY <1>3, <1>5, <1>6, ReaderMoves DEF CacheIndInv, CacheTypeOK, AgeInv

\* A call returns.
LEMMA ReturnMoves ==
  ASSUME CacheIndInv, NEW r \in Readers,
         NEW from \in {"cache", "stale", "network", "error"}, NEW asof \in Int, NEW limit \in Int,
         Return(r, from, asof, limit),
         from = "network" => now - asof <= FetchMax,
         from = "cache" => now - asof < limit + FetchMax,
         from = "stale" => now - asof < limit + 2 * FetchMax,
         cache' \in [Slots -> Entries], \A i \in Slots : Fresh(cache'[i]),
         UNCHANGED <<now, ttl>>
  PROVE  CacheIndInv'
<1> DEFINE f == [Idle EXCEPT !.pc = "return", !.from = from, !.sent = asof, !.limit = limit]
<1>1. f \in Fetches /\ f.pc = "return" /\ f.from = from /\ f.sent = asof /\ f.limit = limit
  BY IdleOK DEF Fetches, Idle
<1>2. FetchOK(f)
  BY <1>1 DEF FetchOK
<1>3. fetch' = [fetch EXCEPT ![r] = f]
  BY DEF Return
<1> QED
  BY <1>1, <1>2, <1>3, ReaderMoves

\* It returns an error, and nothing else happens.
LEMMA ErrorMoves ==
  ASSUME CacheIndInv, NEW r \in Readers, Return(r, "error", 0, 0), UNCHANGED <<now, ttl, cache>>
  PROVE  CacheIndInv'
<1>1. cache' \in [Slots -> Entries] /\ \A k \in Slots : Fresh(cache'[k])
  BY DEF CacheIndInv, CacheTypeOK, AgeInv
<1>2. 0 \in Int
  OBVIOUS
<1> QED
  BY <1>1, <1>2, ReturnMoves

\* Each step of a reader, of the clock and of the settings keeps the ages.
LEMMA CacheNextInv == CacheIndInv /\ [CacheNext]_cacheVars => CacheIndInv'
<1> SUFFICES ASSUME CacheIndInv, [CacheNext]_cacheVars PROVE CacheIndInv'
  OBVIOUS
<1>1. ASSUME NEW r \in Readers, NEW d \in Dids, Begin(r, d) PROVE CacheIndInv'
  <2> DEFINE f == [Idle EXCEPT !.pc = "get", !.did = d, !.ttl = ttl]
  <2>1. f \in Fetches /\ f.pc = "get"
    BY IdleOK DEF Idle, Fetches, CacheIndInv, CacheTypeOK
  <2>2. FetchOK(f)
    BY <2>1 DEF FetchOK
  <2> QED
    BY <1>1, <2>1, <2>2, ReaderMoves DEF Begin, CacheIndInv, CacheTypeOK, AgeInv
<1>2. ASSUME NEW r \in Readers, Bypass(r) \/ Miss(r) PROVE CacheIndInv'
  BY <1>2, EmptyFresh, SendMoves DEF Bypass, Miss
<1>3. ASSUME NEW r \in Readers, Hit(r) PROVE CacheIndInv'
  <2>1. PICK i \in Slots :
          /\ \/ /\ now - cache[i].at < fetch[r].ttl.stale
                /\ \/ Return(r, "cache", cache[i].asof, fetch[r].ttl.stale)
                   \/ Return(r, "error", 0, 0)
             \/ Send(r, cache[i], now - cache[i].at)
          /\ UNCHANGED <<now, ttl, cache>>
    BY <1>3 DEF Hit
  <2>2. cache[i] \in Entries /\ Fresh(cache[i]) /\ fetch[r].ttl.stale \in Int /\ now \in Int
    BY DEF CacheIndInv, CacheTypeOK, AgeInv, Fetches, Settings
  <2>3. cache' \in [Slots -> Entries] /\ \A k \in Slots : Fresh(cache'[k])
    BY <2>1 DEF CacheIndInv, CacheTypeOK, AgeInv
  <2>4. CASE Send(r, cache[i], now - cache[i].at)
    BY <2>1, <2>2, <2>4, SendMoves
  <2>5. CASE Return(r, "error", 0, 0)
    BY <2>1, <2>5, ErrorMoves
  <2>6. CASE now - cache[i].at < fetch[r].ttl.stale /\ Return(r, "cache", cache[i].asof, fetch[r].ttl.stale)
    <3>1. cache[i].asof \in Int /\ now - cache[i].asof < fetch[r].ttl.stale + FetchMax
      BY <2>2, <2>6, CacheAssumption DEF Fresh, Entries
    <3> QED
      BY <2>1, <2>2, <2>3, <2>6, <3>1, ReturnMoves
  <2> QED
    BY <2>1, <2>4, <2>5, <2>6
<1>4. ASSUME NEW r \in Readers, FetchFails(r) PROVE CacheIndInv'
  <2>1. cache' \in [Slots -> Entries] /\ \A k \in Slots : Fresh(cache'[k])
    BY <1>4 DEF FetchFails, CacheIndInv, CacheTypeOK, AgeInv
  <2>2. CASE Return(r, "error", 0, 0)
    BY <1>4, <2>2, ErrorMoves DEF FetchFails
  <2>3. CASE /\ fetch[r].copy # Empty /\ fetch[r].age < fetch[r].ttl.max
             /\ Return(r, "stale", fetch[r].copy.asof, fetch[r].ttl.max)
    <3>1. fetch[r] \in Fetches /\ fetch[r].pc = "wait" /\ FetchOK(fetch[r]) /\ now \in Int
      BY <1>4 DEF FetchFails, CacheIndInv, CacheTypeOK, AgeInv
    <3>2. /\ fetch[r].copy.asof \in Int /\ fetch[r].ttl.max \in Int
          /\ now - fetch[r].copy.asof < fetch[r].ttl.max + 2 * FetchMax
      BY <2>3, <3>1, CacheAssumption DEF FetchOK, Fresh, Fetches, Entries, Settings
    <3> QED
      BY <1>4, <2>1, <2>3, <3>2, ReturnMoves DEF FetchFails
  <2> QED
    BY <1>4, <2>2, <2>3 DEF FetchFails
<1>5. ASSUME NEW r \in Readers, FetchSucceeds(r) PROVE CacheIndInv'
  <2> DEFINE f == [fetch[r] EXCEPT !.pc = "put", !.copy = Empty, !.age = 0]
  <2>1. fetch[r] \in Fetches /\ fetch[r].pc = "wait" /\ FetchOK(fetch[r])
    BY <1>5 DEF FetchSucceeds, CacheIndInv, CacheTypeOK, AgeInv
  <2>2. f \in Fetches /\ f.pc = "put" /\ f.sent = fetch[r].sent
    <3>1. 0 \in Int
      OBVIOUS
    <3>2. f \in Fetches
      BY <2>1, <3>1, EmptyFresh, FetchTypes
    <3>3. f.pc = "put" /\ f.sent = fetch[r].sent
      BY <2>1 DEF Fetches
    <3> QED
      BY <3>2, <3>3
  <2>3. FetchOK(f)
    BY <2>1, <2>2 DEF FetchOK
  <2> QED
    BY <1>5, <2>2, <2>3, ReaderMoves DEF FetchSucceeds, CacheIndInv, CacheTypeOK, AgeInv
<1>6. ASSUME NEW r \in Readers, Put(r) PROVE CacheIndInv'
  <2> DEFINE e == [did |-> fetch[r].did, asof |-> fetch[r].sent, at |-> now]
  <2>1. fetch[r] \in Fetches /\ now - fetch[r].sent <= FetchMax /\ fetch[r].sent \in Int /\ now \in Int
    BY <1>6 DEF Put, CacheIndInv, CacheTypeOK, AgeInv, FetchOK, Fetches
  <2>2. e \in Entries /\ Fresh(e)
    BY <2>1 DEF Fresh, Entries, Fetches
  <2>3. cache' \in [Slots -> Entries] /\ \A k \in Slots : Fresh(cache'[k])
    BY <1>6, <2>2, EmptyFresh DEF Put, CacheIndInv, CacheTypeOK, AgeInv
  <2> QED
    BY <1>6, <2>1, <2>3, ReturnMoves DEF Put
<1>7. ASSUME NEW r \in Readers, Done(r) PROVE CacheIndInv'
  BY <1>7, IdleOK, ReaderMoves DEF Done, CacheIndInv, CacheTypeOK, AgeInv
<1>8. CASE Clear
  <2>1. CacheTypeOK' /\ \A i \in Slots : Fresh(cache'[i])
    BY <1>8, EmptyFresh DEF Clear, CacheIndInv, CacheTypeOK
  <2>2. \A r \in Readers : FetchOK(fetch[r])'
    BY <1>8 DEF Clear, CacheIndInv, AgeInv, FetchOK, Fresh
  <2> QED
    BY <2>1, <2>2 DEF CacheIndInv, AgeInv, Fresh
<1>9. CASE Configure
  BY <1>9, CacheAssumption DEF Configure, CacheIndInv, CacheTypeOK, AgeInv, FetchOK, Fresh, Settings
<1>10. CASE Tick
  <2>1. now' \in Int /\ CacheTypeOK'
    BY <1>10 DEF Tick, CacheIndInv, CacheTypeOK
  <2>2. ASSUME NEW r \in Readers PROVE FetchOK(fetch[r])'
    BY <1>10, CacheAssumption DEF Tick, CacheIndInv, CacheTypeOK, AgeInv, FetchOK, Fresh, Fetches
  <2> QED
    BY <1>10, <2>1, <2>2 DEF Tick, CacheIndInv, AgeInv, Fresh
<1>11. CASE UNCHANGED cacheVars
  BY <1>11 DEF cacheVars, CacheIndInv, CacheTypeOK, AgeInv, FetchOK, Fresh
<1> QED
  BY <1>1, <1>2, <1>3, <1>4, <1>5, <1>6, <1>7, <1>8, <1>9, <1>10, <1>11 DEF CacheNext, ReaderStep

-----------------------------------------------------------------------------
\* A verifying thread reads a document only between the end of its race and
\* its own return, and its client is freed after that.
UseInv ==
  \A c \in Callers :
    /\ verify[c] # "document" => fetch[c].pc = "idle"
    /\ ~client[c] => verify[c] = "returned"

IndInv ==
  /\ RaceIndInv
  /\ AnswerInv
  /\ CacheIndInv
  /\ verify \in [Callers -> {"handle", "document", "returned", "crashed"}]
  /\ UseInv

\* Init establishes the invariant of the composition.
LEMMA InitInv == Init => IndInv
<1> SUFFICES ASSUME Init PROVE IndInv
  OBVIOUS
<1>1. RaceIndInv /\ AnswerInv /\ CacheIndInv
  BY RaceInitInv, AnswerInitInv, CacheInitInv DEF Init
<1>2. UseInv
  BY VerifiersRead DEF Init, RaceInit, CacheInit, UseInv, Idle
<1> QED
  BY <1>1, <1>2 DEF Init, IndInv

\* A step of the composition is a step of the race, of the cache or of both.
LEMMA NextParts == AnswerInv /\ [Next]_vars => [RaceNext]_raceVars /\ [CacheNext]_cacheVars
<1> SUFFICES ASSUME AnswerInv, [Next]_vars PROVE [RaceNext]_raceVars /\ [CacheNext]_cacheVars
  OBVIOUS
<1>1. ASSUME NEW c \in Callers, VerifyFetch(c) PROVE RaceNext /\ CacheNext
  <2>1. Begin(c, result[c].did) /\ TakeResult(c)
    BY <1>1 DEF VerifyFetch
  <2>2. result[c].did \in Dids
    BY <1>1 DEF VerifyFetch, AnswerInv
  <2> QED
    BY <2>1, <2>2, VerifiersRead DEF RaceNext, CacheNext
<1>2. ASSUME NEW c \in Callers, VerifyFails(c) PROVE RaceNext /\ UNCHANGED cacheVars
  BY <1>2 DEF VerifyFails, RaceNext
<1>3. ASSUME NEW c \in Callers, VerifyReturns(c) PROVE UNCHANGED <<raceVars, cacheVars>>
  BY <1>3 DEF VerifyReturns
<1>4. ASSUME NEW c \in Callers, Discard(c) PROVE RaceNext /\ UNCHANGED cacheVars
  BY <1>4 DEF Discard, RaceNext
<1>5. ASSUME NEW c \in Callers, RaceStep(c) PROVE RaceNext /\ UNCHANGED cacheVars
  BY <1>5 DEF RaceStep, RaceNext
<1>6. ASSUME NEW r \in Readers, CacheStep(r) PROVE CacheNext /\ UNCHANGED raceVars
  BY <1>6 DEF CacheStep, CacheNext
<1>7. ASSUME NEW r \in Readers, NEW d \in Dids, Resolve(r, d) PROVE CacheNext /\ UNCHANGED raceVars
  BY <1>7 DEF Resolve, CacheNext
<1>8. CASE Around
  BY <1>8 DEF Around, CacheNext
<1>9. CASE UNCHANGED vars
  BY <1>9 DEF vars
<1> QED
  BY <1>1, <1>2, <1>3, <1>4, <1>5, <1>6, <1>7, <1>8, <1>9 DEF Next

\* A reader's step is made in the middle of its call, and is about its own.
LEMMA ReaderOnly ==
  ASSUME NEW r \in Readers, ReaderStep(r)
  PROVE  fetch[r].pc # "idle" /\ \E f : fetch' = [fetch EXCEPT ![r] = f]
<1>1. CASE Bypass(r) \/ Miss(r)
  BY <1>1 DEF Bypass, Miss, Send
<1>2. CASE Hit(r)
  BY <1>2 DEF Hit, Send, Return
<1>3. CASE FetchFails(r) \/ FetchSucceeds(r)
  BY <1>3 DEF FetchFails, FetchSucceeds, Return
<1>4. CASE Put(r) \/ Done(r)
  BY <1>4 DEF Put, Done, Return
<1> QED
  BY <1>1, <1>2, <1>3, <1>4 DEF ReaderStep

\* A call's steps leave its client alone.
LEMMA ClientKept ==
  ASSUME NEW c \in Callers, CallStep(c) \/ (\E s \in Sides : ThreadStep(c, s)) \/ TakeResult(c)
  PROVE  UNCHANGED client
BY DEF CallStep, ThreadStep, StartRace, StartSequential, Choose, CallerRelease, Launch, LaunchFails,
       Lookup, ThreadRelease, TakeResult

Phases == {"handle", "document", "returned", "crashed"}

\* Each step keeps the order of a verifying call.
LEMMA UseNext ==
  ASSUME IndInv, [Next]_vars
  PROVE  UseInv' /\ verify' \in [Callers -> Phases]
<1> USE VerifiersRead DEF IndInv, UseInv, Phases
<1>0. fetch \in [Readers -> Fetches] /\ client \in [Callers -> BOOLEAN]
  BY DEF CacheIndInv, CacheTypeOK, RaceIndInv, RaceTypeOK
<1>1. ASSUME NEW c \in Callers, VerifyFetch(c) PROVE UseInv' /\ verify' \in [Callers -> Phases]
  <2>1. UNCHANGED client
    BY <1>1, ClientKept DEF VerifyFetch
  <2>2. /\ verify[c] = "handle" /\ verify' = [verify EXCEPT ![c] = "document"]
        /\ \E f : fetch' = [fetch EXCEPT ![c] = f]
    BY <1>1 DEF VerifyFetch, Begin
  <2> QED
    BY <1>0, <2>1, <2>2
<1>2. ASSUME NEW c \in Callers, VerifyFails(c) PROVE UseInv' /\ verify' \in [Callers -> Phases]
  <2>1. UNCHANGED client
    BY <1>2, ClientKept DEF VerifyFails
  <2> QED
    BY <1>0, <1>2, <2>1 DEF VerifyFails, cacheVars
<1>3. ASSUME NEW c \in Callers, VerifyReturns(c) PROVE UseInv' /\ verify' \in [Callers -> Phases]
  BY <1>0, <1>3 DEF VerifyReturns, cacheVars, raceVars
<1>4. ASSUME NEW c \in Callers, Discard(c) PROVE UseInv' /\ verify' \in [Callers -> Phases]
  BY <1>0, <1>4 DEF Discard, FreeClient, cacheVars
<1>5. ASSUME NEW c \in Callers, RaceStep(c) PROVE UseInv' /\ verify' \in [Callers -> Phases]
  <2>1. UNCHANGED client
    BY <1>5, ClientKept DEF RaceStep
  <2> QED
    BY <1>5, <2>1 DEF RaceStep, cacheVars
<1>6. ASSUME NEW r \in Readers, CacheStep(r) PROVE UseInv' /\ verify' \in [Callers -> Phases]
  <2>1. fetch[r].pc # "idle" /\ \E f : fetch' = [fetch EXCEPT ![r] = f]
    BY <1>6, ReaderOnly DEF CacheStep
  <2> QED
    BY <1>0, <1>6, <2>1 DEF CacheStep, raceVars
<1>7. ASSUME NEW r \in Readers, NEW d \in Dids, Resolve(r, d) PROVE UseInv' /\ verify' \in [Callers -> Phases]
  BY <1>0, <1>7 DEF Resolve, Begin, raceVars
<1>8. CASE Around
  BY <1>8 DEF Around, Clear, Configure, Tick, raceVars
<1>9. CASE UNCHANGED vars
  BY <1>9 DEF vars, raceVars, cacheVars
<1> QED
  BY <1>1, <1>2, <1>3, <1>4, <1>5, <1>6, <1>7, <1>8, <1>9 DEF Next

\* Each step preserves the invariant of the composition.
LEMMA NextInv == IndInv /\ [Next]_vars => IndInv'
BY NextParts, RaceNextInv, AnswerNextInv, CacheNextInv, UseNext DEF IndInv, Phases

\* The state shared by a call and its two threads is freed by the last of
\* them, and not before (handle_race_state_release).
THEOREM Counted == Spec => []StateOwned
<1>1. IndInv => StateOwned
  BY RaceProperties DEF IndInv
<1> QED
  BY <1>1, InitInv, NextInv, PTL DEF Spec

\* No lookup and no request uses a client that its owner has freed
\* (wf_handle_resolve, wf_identity_verify_handle).
THEOREM ClientKeptAlive == Spec => []ClientOutlivesUse
<1>1. IndInv => ClientOutlivesUse
  BY RaceProperties DEF IndInv, UseInv, ClientOutlivesUse
<1> QED
  BY <1>1, InitInv, NextInv, PTL DEF Spec

\* A returned document is not older than its TTL and the requests around it
\* allow, whatever other readers do to the cache (did_fetch_document).
THEOREM AgeBounded == Spec => []BoundedAge
<1>1. IndInv => BoundedAge
  BY CacheProperty DEF IndInv
<1> QED
  BY <1>1, InitInv, NextInv, PTL DEF Spec
=============================================================================
