--------------------------- MODULE RequestProofs ----------------------------
(***************************************************************************)
(* Proofs about Request, for all caps, chunk sizes and lengths of body, and *)
(* about RateLimiter, which the handler consults, for every capacity,       *)
(* window, set of keys and set of costs.                                    *)
(*                                                                          *)
(* None of Request's properties is inductive by itself.  Inv adds what      *)
(* holds between the calls of the handler: what *con_cls names is what has  *)
(* been made and not yet freed, a buffer that has not overflowed holds all  *)
(* that has arrived, a stream without a response has been given all of it   *)
(* or a refusal was missed for want of memory, and each look-up step has    *)
(* behind it the checks that lead to it.                                    *)
(***************************************************************************)
EXTENDS Request, RateLimiter, TLAPS

Steps == {"http", "path", "route", "other", "limit", "auth", "handle"}
Over  == {"answered", "ended"}

\* What *con_cls names, and what has been allocated and freed.
OwnerInv ==
  /\ pc = "first" => con = "null" /\ made = 0
  /\ pc \in Over => con = "null"
  /\ pc = "body" => con # "null"
  /\ pc \in Steps => con \in {"one", "buffer"}
  /\ con \in {"buffer", "stream"} => made = 1 /\ freed = 0
  /\ con \in {"null", "one"} => freed = made
  /\ con = "one" => req.method # "POST"
  /\ con = "stream" => pc = "body"

\* What has been done with the body.
BodyInv ==
  /\ pc = "first" => sent = 0 /\ len = 0 /\ written = 0 /\ ~over
  /\ con = "buffer" /\ ~over => len = sent
  /\ con = "buffer" /\ pc \in Steps => ~over
  /\ con = "stream" /\ status = 0 /\ ctx => written = sent \/ missed
  /\ written <= sent
  /\ finished => pc \in Over
  /\ ran \in {"http", "procedure", "fallback"} => pc \in Over
  /\ con # "stream" /\ pc \notin Over => status = 0

\* What has been checked.
CheckInv ==
  /\ pc = "first" => ran = "none" /\ ~ctx /\ passed = {}
  /\ pc \in Steps => ran = "none" /\ ~ctx
  /\ con \in {"buffer", "one"} => ran = "none" /\ ~ctx
  /\ pc \in {"limit", "auth", "handle"} => route # "none"
  /\ pc \in {"first", "http", "path", "route", "other", "limit"} => passed = {}
  /\ pc = "body" /\ con # "stream" => passed = {}
  /\ pc = "auth" => passed = {"limit"}
  /\ pc = "handle" => passed = IF route = "http" THEN {"limit"} ELSE Passed

Inv ==
  /\ TypeOK
  /\ OwnerInv /\ BodyInv /\ CheckInv
  /\ CleanupOnce /\ ReleasedOnce /\ FinishedWhole /\ WholeBody /\ CheckedFirst

-----------------------------------------------------------------------------
\* The properties and the facts they rest on hold in the initial states.
LEMMA InitInv == Init => Inv
<1> SUFFICES ASSUME Init PROVE Inv
  OBVIOUS
<1>1. TypeOK
  <2>1. \E c \in Caps : len <= c
    BY RequestAssumption DEF Init
  <2>2. over \in BOOLEAN /\ ctx \in BOOLEAN /\ missed \in BOOLEAN /\ finished \in BOOLEAN
    BY Zenon DEF Init
  <2>3. static \in BOOLEAN /\ passed \subseteq {"limit", "auth"}
    BY DEF Init
  <2> QED
    BY <2>1, <2>2, <2>3, RequestAssumption DEF Init, TypeOK, Queries, Procs, Methods, Statuses
<1> QED
  BY <1>1 DEF Init, Inv, OwnerInv, BodyInv, CheckInv, Steps, Over, CleanupOnce, ReleasedOnce,
           FinishedWhole, WholeBody, CheckedFirst, Passed, serverVars, streamVars

\* Every step keeps the types.
LEMMA NextType == ASSUME Inv, [Next]_vars PROVE TypeOK'
<1> USE RequestAssumption DEF Inv
<1>1. CASE FirstOptions
  BY <1>1 DEF FirstOptions, TypeOK, Queries, Procs, Methods, Statuses, serverVars, streamVars, Answer
<1>2. CASE FirstGet
  BY <1>2 DEF FirstGet, TypeOK, Queries, Procs, Methods, Statuses, serverVars, streamVars
<1>3. CASE FirstPost
  BY <1>3 DEF FirstPost, TypeOK, Queries, Procs, Methods, Statuses, serverVars, streamVars, StreamingRoute
<1>4. CASE FirstFail
  BY <1>4 DEF FirstFail, TypeOK, Queries, Procs, Methods, Statuses, serverVars, streamVars
<1>5. CASE FirstStream
  <2>1. passed' \subseteq {"limit", "auth"}
    <3>1. Passed \subseteq {"limit", "auth"}
      BY DEF Passed
    <3>2. passed' = passed \/ passed' = {"limit"} \/ passed' = Passed
      BY <1>5 DEF FirstStream
    <3> QED
      BY <3>1, <3>2 DEF TypeOK
  <2>2. ctx' \in BOOLEAN
    BY <1>5, Zenon DEF FirstStream, TypeOK
  <2>3. status' \in Statuses
    BY <1>5 DEF FirstStream, TypeOK, Statuses
  <2> QED
    BY <1>5, <2>1, <2>2, <2>3 DEF FirstStream, TypeOK, Queries, Procs, Methods, serverVars
<1>6. CASE ChunkFail
  BY <1>6 DEF ChunkFail, TypeOK, Queries, Procs, Methods, Statuses, serverVars, streamVars, bufferCallUnchanged
<1>7. CASE LastStream
  BY <1>7 DEF LastStream, TypeOK, Queries, Procs, Methods, Statuses, serverVars, streamVars, FreeStream
<1>8. CASE LastOverflow
  BY <1>8 DEF LastOverflow, TypeOK, Queries, Procs, Methods, Statuses, serverVars, streamVars, Answer, stepUnchanged
<1>9. CASE LastPost
  BY <1>9 DEF LastPost, TypeOK, Queries, Procs, Methods, Statuses, serverVars, streamVars, Goto, stepUnchanged
<1>10. CASE LastGet
  BY <1>10 DEF LastGet, TypeOK, Queries, Procs, Methods, Statuses, serverVars, streamVars, Goto, Answer, stepUnchanged
<1>11. CASE FindHttpRoute
  BY <1>11 DEF FindHttpRoute, TypeOK, Queries, Procs, Methods, Statuses, serverVars, streamVars, Goto, stepUnchanged
<1>12. CASE CheckPath
  BY <1>12 DEF CheckPath, TypeOK, Queries, Procs, Methods, Statuses, serverVars, streamVars, Goto, Answer, stepUnchanged
<1>13. CASE FindRoute
  BY <1>13 DEF FindRoute, TypeOK, Queries, Procs, Methods, Statuses, serverVars, streamVars, Goto, stepUnchanged
<1>14. CASE FindOther
  BY <1>14 DEF FindOther, TypeOK, Queries, Procs, Methods, Statuses, serverVars, streamVars, Answer, stepUnchanged
<1>15. CASE Limit
  <2>1. passed' \subseteq {"limit", "auth"}
    BY <1>15 DEF Limit, TypeOK
  <2>2. pc' \in {"auth", "answered"} /\ con' \in {con, "null"} /\ freed' \in Nat /\ status' \in Statuses
    BY <1>15 DEF Limit, Goto, Answer, TypeOK, Statuses
  <2> QED
    BY <1>15, <2>1, <2>2 DEF Limit, TypeOK, stepUnchanged, serverVars, streamVars
<1>16. CASE Auth
  <2>1. passed' \subseteq {"limit", "auth"}
    BY <1>16 DEF Auth, TypeOK
  <2>2. pc' \in {"handle", "answered"} /\ con' \in {con, "null"} /\ freed' \in Nat /\ status' \in Statuses
    BY <1>16 DEF Auth, Goto, Answer, TypeOK, Statuses
  <2> QED
    BY <1>16, <2>1, <2>2 DEF Auth, TypeOK, stepUnchanged, serverVars, streamVars
<1>17. CASE Handle
  BY <1>17 DEF Handle, TypeOK, Queries, Procs, Methods, Statuses, serverVars, streamVars, Answer, stepUnchanged
<1>18. CASE Completed
  BY <1>18 DEF Completed, TypeOK, Queries, Procs, Methods, Statuses, serverVars, streamVars, FreeStream
<1>19. CASE \E n \in Chunks : ChunkStream(n)
  <2> PICK n \in Chunks : ChunkStream(n)
    BY <1>19
  <2>1. n \in Nat /\ sent' = sent + n /\ sent' \in 0..MaxBody
    BY DEF ChunkStream, TypeOK
  <2>2. written' \in 0..MaxBody
    BY <2>1 DEF ChunkStream, TypeOK, BodyInv
  <2>3. status' \in Statuses
    BY DEF ChunkStream, TypeOK, Statuses
  <2>4. missed' \in BOOLEAN
    BY Zenon DEF ChunkStream, TypeOK
  <2> QED
    BY <2>1, <2>2, <2>3, <2>4 DEF ChunkStream, TypeOK, serverVars
<1>20. CASE \E n \in Chunks : ChunkBuffer(n)
  <2> PICK n \in Chunks : ChunkBuffer(n)
    BY <1>20
  <2>1. n \in Nat /\ cap \in Nat /\ sent' \in 0..MaxBody
    BY DEF ChunkBuffer, TypeOK
  <2>2. len' \in Nat /\ len' <= cap
    BY <2>1 DEF ChunkBuffer, TypeOK
  <2>3. over' \in BOOLEAN
    BY DEF ChunkBuffer, TypeOK
  <2> QED
    BY <2>1, <2>2, <2>3 DEF ChunkBuffer, TypeOK, bufferCallUnchanged, serverVars, streamVars
<1>21. CASE Register
  <2> USE DEF requestVars, streamVars
  <2>1. CASE RegisterQuery
    BY <2>1 DEF RegisterQuery, TypeOK, Queries
  <2>2. CASE RegisterProcedure
    BY <2>2 DEF RegisterProcedure, TypeOK, Procs
  <2>3. CASE RegisterHttp
    <3>1. http' \in SUBSET (Methods \X {"whole", "prefix"})
      BY <2>3 DEF RegisterHttp, TypeOK
    <3> QED
      BY <2>3, <3>1 DEF RegisterHttp, TypeOK
  <2>4. CASE RegisterStatic
    BY <2>4 DEF RegisterStatic, TypeOK
  <2>5. CASE SetMaxBody
    BY <2>5 DEF SetMaxBody, TypeOK
  <2> QED
    BY <1>21, <2>1, <2>2, <2>3, <2>4, <2>5 DEF Register
<1>22. CASE UNCHANGED vars
  BY <1>22 DEF vars, TypeOK, Queries, Procs, Methods, Statuses, serverVars, streamVars
<1> QED
  BY <1>1, <1>2, <1>3, <1>4, <1>5, <1>6, <1>7, <1>8, <1>9, <1>10, <1>11, <1>12, <1>13, <1>14, <1>15, <1>16, <1>17, <1>18, <1>19, <1>20, <1>21, <1>22 DEF Next

\* Every step keeps the properties and the facts they rest on.
LEMMA NextInv == ASSUME Inv, [Next]_vars PROVE Inv'
<1> USE RequestAssumption DEF Inv
<1>0. TypeOK'
  BY NextType
<1>1. CASE FirstOptions
  BY <1>1, <1>0 DEF FirstOptions, TypeOK,
       OwnerInv, BodyInv, CheckInv, Steps, Over, CleanupOnce, ReleasedOnce,
       FinishedWhole, WholeBody, CheckedFirst, Passed, serverVars, streamVars, Answer
<1>2. CASE FirstGet
  BY <1>2, <1>0 DEF FirstGet, TypeOK,
       OwnerInv, BodyInv, CheckInv, Steps, Over, CleanupOnce, ReleasedOnce,
       FinishedWhole, WholeBody, CheckedFirst, Passed, serverVars, streamVars
<1>3. CASE FirstPost
  BY <1>3, <1>0 DEF FirstPost, TypeOK,
       OwnerInv, BodyInv, CheckInv, Steps, Over, CleanupOnce, ReleasedOnce,
       FinishedWhole, WholeBody, CheckedFirst, Passed, serverVars, streamVars, StreamingRoute
<1>4. CASE FirstFail
  BY <1>4, <1>0 DEF FirstFail, TypeOK,
       OwnerInv, BodyInv, CheckInv, Steps, Over, CleanupOnce, ReleasedOnce,
       FinishedWhole, WholeBody, CheckedFirst, Passed, serverVars, streamVars
<1>5. CASE FirstStream
  BY <1>5, <1>0 DEF FirstStream, TypeOK,
       OwnerInv, BodyInv, CheckInv, Steps, Over, CleanupOnce, ReleasedOnce,
       FinishedWhole, WholeBody, CheckedFirst, Passed, serverVars, streamVars, StreamingRoute, Passed
<1>6. CASE ChunkFail
  BY <1>6, <1>0 DEF ChunkFail, TypeOK,
       OwnerInv, BodyInv, CheckInv, Steps, Over, CleanupOnce, ReleasedOnce,
       FinishedWhole, WholeBody, CheckedFirst, Passed, serverVars, streamVars, bufferCallUnchanged
<1>7. CASE LastStream
  BY <1>7, <1>0 DEF LastStream, TypeOK,
       OwnerInv, BodyInv, CheckInv, Steps, Over, CleanupOnce, ReleasedOnce,
       FinishedWhole, WholeBody, CheckedFirst, Passed, serverVars, streamVars, FreeStream
<1>8. CASE LastOverflow
  BY <1>8, <1>0 DEF LastOverflow, TypeOK,
       OwnerInv, BodyInv, CheckInv, Steps, Over, CleanupOnce, ReleasedOnce,
       FinishedWhole, WholeBody, CheckedFirst, Passed, serverVars, streamVars, Answer, stepUnchanged
<1>9. CASE LastPost
  BY <1>9, <1>0 DEF LastPost, TypeOK,
       OwnerInv, BodyInv, CheckInv, Steps, Over, CleanupOnce, ReleasedOnce,
       FinishedWhole, WholeBody, CheckedFirst, Passed, serverVars, streamVars, Goto, stepUnchanged
<1>10. CASE LastGet
  BY <1>10, <1>0 DEF LastGet, TypeOK,
       OwnerInv, BodyInv, CheckInv, Steps, Over, CleanupOnce, ReleasedOnce,
       FinishedWhole, WholeBody, CheckedFirst, Passed, serverVars, streamVars, Goto, Answer, stepUnchanged
<1>11. CASE FindHttpRoute
  BY <1>11, <1>0 DEF FindHttpRoute, TypeOK,
       OwnerInv, BodyInv, CheckInv, Steps, Over, CleanupOnce, ReleasedOnce,
       FinishedWhole, WholeBody, CheckedFirst, Passed, serverVars, streamVars, Goto, stepUnchanged
<1>12. CASE CheckPath
  BY <1>12, <1>0 DEF CheckPath, TypeOK,
       OwnerInv, BodyInv, CheckInv, Steps, Over, CleanupOnce, ReleasedOnce,
       FinishedWhole, WholeBody, CheckedFirst, Passed, serverVars, streamVars, Goto, Answer, stepUnchanged
<1>13. CASE FindRoute
  BY <1>13, <1>0 DEF FindRoute, TypeOK,
       OwnerInv, BodyInv, CheckInv, Steps, Over, CleanupOnce, ReleasedOnce,
       FinishedWhole, WholeBody, CheckedFirst, Passed, serverVars, streamVars, Goto, stepUnchanged
<1>14. CASE FindOther
  BY <1>14, <1>0 DEF FindOther, TypeOK,
       OwnerInv, BodyInv, CheckInv, Steps, Over, CleanupOnce, ReleasedOnce,
       FinishedWhole, WholeBody, CheckedFirst, Passed, serverVars, streamVars, Answer, stepUnchanged
<1>15. CASE Limit
  <2>1. pc' = "auth" => passed' = {"limit"}
    BY <1>15 DEF Limit, Goto, Answer, CheckInv
  <2> QED
    BY <1>15, <1>0, <2>1 DEF Limit, TypeOK,
         OwnerInv, BodyInv, CheckInv, Steps, Over, CleanupOnce, ReleasedOnce,
         FinishedWhole, WholeBody, CheckedFirst, Passed, serverVars, streamVars, Goto, Answer, stepUnchanged
<1>16. CASE Auth
  BY <1>16, <1>0 DEF Auth, TypeOK,
       OwnerInv, BodyInv, CheckInv, Steps, Over, CleanupOnce, ReleasedOnce,
       FinishedWhole, WholeBody, CheckedFirst, Passed, serverVars, streamVars, Goto, Answer, stepUnchanged, Passed
<1>17. CASE Handle
  BY <1>17, <1>0 DEF Handle, TypeOK,
       OwnerInv, BodyInv, CheckInv, Steps, Over, CleanupOnce, ReleasedOnce,
       FinishedWhole, WholeBody, CheckedFirst, Passed, serverVars, streamVars, Answer, stepUnchanged
<1>18. CASE Completed
  BY <1>18, <1>0 DEF Completed, TypeOK,
       OwnerInv, BodyInv, CheckInv, Steps, Over, CleanupOnce, ReleasedOnce,
       FinishedWhole, WholeBody, CheckedFirst, Passed, serverVars, streamVars, FreeStream
<1>19. CASE \E n \in Chunks : ChunkStream(n)
  BY <1>19, <1>0 DEF ChunkStream, TypeOK,
       OwnerInv, BodyInv, CheckInv, Steps, Over, CleanupOnce, ReleasedOnce,
       FinishedWhole, WholeBody, CheckedFirst, Passed, serverVars, streamVars
<1>20. CASE \E n \in Chunks : ChunkBuffer(n)
  BY <1>20, <1>0 DEF ChunkBuffer, TypeOK,
       OwnerInv, BodyInv, CheckInv, Steps, Over, CleanupOnce, ReleasedOnce,
       FinishedWhole, WholeBody, CheckedFirst, Passed, serverVars, streamVars, bufferCallUnchanged
<1>21. CASE Register
  BY <1>21, <1>0 DEF Register, RegisterQuery, RegisterProcedure, RegisterHttp, RegisterStatic, SetMaxBody,
       requestVars, TypeOK, OwnerInv, BodyInv, CheckInv, Steps, Over, CleanupOnce, ReleasedOnce,
       FinishedWhole, WholeBody, CheckedFirst, Passed, serverVars, streamVars
<1>22. CASE UNCHANGED vars
  BY <1>22, <1>0 DEF vars, TypeOK, OwnerInv, BodyInv, CheckInv, Steps, Over, CleanupOnce, ReleasedOnce,
       FinishedWhole, WholeBody, CheckedFirst, Passed, serverVars, streamVars
<1> QED
  BY <1>0, <1>1, <1>2, <1>3, <1>4, <1>5, <1>6, <1>7, <1>8, <1>9, <1>10, <1>11, <1>12, <1>13, <1>14, <1>15, <1>16, <1>17, <1>18, <1>19, <1>20, <1>21, <1>22 DEF Next

\* Inv holds of every state that a request reaches.
THEOREM Invariance == Spec => []Inv
  BY InitInv, NextInv, PTL DEF Spec

\* Every variable keeps its type, and a buffered body its bound.
THEOREM TypeCorrect == Spec => []TypeOK
<1>1. Inv => TypeOK
  BY DEF Inv
<1> QED
  BY <1>1, Invariance, PTL

\* The context that streaming.begin has given is cleaned up exactly once.
THEOREM Cleanup == Spec => []CleanupOnce
<1>1. Inv => CleanupOnce
  BY DEF Inv
<1> QED
  BY <1>1, Invariance, PTL

\* The buffer or stream context of a request is freed exactly once.
THEOREM Released == Spec => []ReleasedOnce
<1>1. Inv => ReleasedOnce
  BY DEF Inv
<1> QED
  BY <1>1, Invariance, PTL

\* streaming.finish comes after every byte of the body was accepted, unless a
\* refusal was missed for want of memory.
THEOREM Finished == Spec => []FinishedWhole
<1>1. Inv => FinishedWhole
  BY DEF Inv
<1> QED
  BY <1>1, Invariance, PTL

\* A handler is given the whole of a buffered body.
THEOREM Whole == Spec => []WholeBody
<1>1. Inv => WholeBody
  BY DEF Inv
<1> QED
  BY <1>1, Invariance, PTL

\* The handler of an NSID runs only after the limiter and the auth callback.
THEOREM Checked == Spec => []CheckedFirst
<1>1. Inv => CheckedFirst
  BY DEF Inv
<1> QED
  BY <1>1, Invariance, PTL

-----------------------------------------------------------------------------
(* The rate limiter.  A bucket stays within its capacity, no key exceeds    *)
(* its budget even when the clock is set back, and as long as the clock     *)
(* only advances the lazily refilled table implements buckets that are      *)
(* refilled every second and a refused caller that comes back later than    *)
(* told is not refused again.                                               *)

\* A full bucket is a natural number of units, and so is the price of a request.
LEMMA Units == Full \in Nat /\ \A cost \in Costs : cost * Duration \in Nat \ {0}
BY RateAssumption DEF Full

\* A second adds one refill.
LEMMA OneMore ==
  ASSUME NEW d \in Int
  PROVE  (d + 1) * Points = d * Points + Points
BY RateAssumption

\* Wherever the clock stands, a refilled bucket is within its capacity.
LEMMA RefilledType ==
  ASSUME now \in Nat, NEW b \in Bucket
  PROVE  Refilled(b) \in 0..Full
<1>1. CASE b = NoBucket
  BY <1>1, Units DEF Refilled
<1>2. CASE b # NoBucket /\ now > b.last
  <2>1. b.tokens \in 0..Full /\ b.last \in Nat
    BY <1>2 DEF Bucket
  <2>2. (now - b.last) * Points \in Nat
    BY <1>2, <2>1, RateAssumption
  <2>. QED BY <1>2, <2>1, <2>2, Units DEF Refilled
<1>3. CASE b # NoBucket /\ ~(now > b.last)
  BY <1>3, Units DEF Refilled, Bucket
<1>. QED BY <1>1, <1>2, <1>3

\* What a refused caller is told is a natural number of seconds.
LEMMA RetryType ==
  ASSUME NEW missing \in Nat
  PROVE  RetryAfter(missing) \in Nat
BY RateAssumption DEF RetryAfter

\* The table keeps its type.
LEMMA LimiterTypeNext == LimiterTypeOK /\ [LimiterNext]_limiterVars => LimiterTypeOK'
<1>. SUFFICES ASSUME LimiterTypeOK, [LimiterNext]_limiterVars PROVE LimiterTypeOK'
  OBVIOUS
<1>. USE RateAssumption, Units
<1>1. CASE Tick
  BY <1>1 DEF LimiterTypeOK, Tick
<1>2. CASE SetBack
  BY <1>2 DEF LimiterTypeOK, SetBack
<1>3. ASSUME NEW k \in Keys, NEW cost \in Costs, AllocFail(k, cost) PROVE LimiterTypeOK'
  BY <1>3 DEF LimiterTypeOK, AllocFail
<1>4. ASSUME NEW k \in Keys, NEW cost \in Costs, Grant(k, cost) PROVE LimiterTypeOK'
  <2>1. Refilled(bucket[k]) \in 0..Full
    BY RefilledType DEF LimiterTypeOK
  <2>2. Refilled(bucket[k]) - cost * Duration \in 0..Full
    BY <1>4, <2>1 DEF Grant
  <2>3. [tokens |-> Refilled(bucket[k]) - cost * Duration, last |-> now] \in Bucket
    BY <2>2 DEF Bucket, LimiterTypeOK
  <2>. QED BY <1>4, <2>3 DEF LimiterTypeOK, Grant, NoRefusal
<1>5. ASSUME NEW k \in Keys, NEW cost \in Costs, Refuse(k, cost) PROVE LimiterTypeOK'
  <2>1. Refilled(bucket[k]) \in 0..Full
    BY RefilledType DEF LimiterTypeOK
  <2>2. [tokens |-> Refilled(bucket[k]), last |-> now] \in Bucket
    BY <2>1 DEF Bucket, LimiterTypeOK
  <2>3. cost * Duration - Refilled(bucket[k]) \in Nat
    BY <1>5, <2>1 DEF Refuse
  <2>4. now + RetryAfter(cost * Duration - Refilled(bucket[k])) \in Nat
    BY <2>3, RetryType DEF LimiterTypeOK
  <2>. QED BY <1>5, <2>2, <2>4 DEF LimiterTypeOK, Refuse
<1>6. CASE UNCHANGED limiterVars
  BY <1>6 DEF LimiterTypeOK, limiterVars
<1>. QED BY <1>1, <1>2, <1>3, <1>4, <1>5, <1>6 DEF LimiterNext

\* A bucket always holds between nothing and the burst capacity, and the clock
\* and the counters stay natural numbers, over every run of the limiter.
THEOREM LimiterTypes == LimiterSpec => []LimiterTypeOK
<1>1. LimiterInit => LimiterTypeOK
  <2>1. NoBucket \in Bucket /\ NoRefusal \in [cost : Nat, at : Nat]
    BY DEF Bucket, NoRefusal
  <2>2. LimiterInit => /\ bucket \in [Keys -> Bucket]
                /\ refusal \in [Keys -> [cost : Nat, at : Nat]]
    BY <2>1, Zenon DEF LimiterInit
  <2>3. LimiterInit => now \in Nat /\ seconds \in Nat /\ spent \in [Keys -> Nat]
    BY DEF LimiterInit
  <2>. QED BY <2>2, <2>3, Zenon DEF LimiterInit, LimiterTypeOK
<1>. QED BY <1>1, LimiterTypeNext, PTL DEF LimiterSpec

\* What a use of a bucket makes of it: the refill is bounded by the time since
\* last_refill, so paying it out does not raise the potential.
LEMMA RefilledBound ==
  ASSUME LimiterTypeOK, NEW k \in Keys
  PROVE  spent[k] * Duration + Refilled(bucket[k]) <= Potential(k)
<1>1. spent[k] * Duration \in Nat /\ bucket[k] \in Bucket
  BY RateAssumption DEF LimiterTypeOK
<1>2. CASE bucket[k] = NoBucket
  BY <1>1, <1>2, Units DEF Potential, Refilled
<1>3. CASE bucket[k] # NoBucket
  <2>1. bucket[k].tokens \in 0..Full /\ bucket[k].last \in Nat
    BY <1>1, <1>3 DEF Bucket
  <2>2. CASE now > bucket[k].last
    <3>1. (now - bucket[k].last) * Points \in Nat
      BY <2>1, <2>2, RateAssumption DEF LimiterTypeOK
    <3>. QED BY <1>1, <1>3, <2>1, <2>2, <3>1, Units DEF Potential, Refilled
  <2>3. CASE ~(now > bucket[k].last)
    BY <1>1, <1>3, <2>1, <2>3, Units DEF Potential, Refilled
  <2>. QED BY <2>2, <2>3
<1>. QED BY <1>2, <1>3

\* No step lets the potential of a key outgrow the seconds that have passed.
LEMMA BudgetNext == LimiterTypeOK /\ BudgetInv /\ [LimiterNext]_limiterVars => BudgetInv'
<1>. SUFFICES ASSUME LimiterTypeOK, BudgetInv, [LimiterNext]_limiterVars, NEW j \in Keys
              PROVE  Potential(j)' <= Full + seconds' * Points
  BY DEF BudgetInv, Full
<1>0. Potential(j) <= Full + seconds * Points
  BY DEF BudgetInv
<1>a. /\ spent[j] * Duration \in Nat /\ seconds * Points \in Nat /\ now \in Nat
      /\ bucket[j] # NoBucket => bucket[j].tokens \in 0..Full /\ bucket[j].last \in Nat
  BY RateAssumption DEF LimiterTypeOK, Bucket
<1>1. CASE Tick
  <2>1. /\ now' = now + 1 /\ seconds' * Points = seconds * Points + Points
        /\ spent' = spent /\ bucket' = bucket
    BY <1>1, RateAssumption DEF Tick, LimiterTypeOK
  <2>2. CASE bucket[j] = NoBucket
    BY <1>0, <1>a, <2>1, <2>2, Units, RateAssumption DEF Potential
  <2>3. CASE bucket[j] # NoBucket
    <3>0. now - bucket[j].last \in Int /\ now' - bucket[j].last = (now - bucket[j].last) + 1
      BY <1>a, <2>1, <2>3
    <3>1. (now' - bucket[j].last) * Points = (now - bucket[j].last) * Points + Points
      BY <3>0, OneMore
    <3>3. now > bucket[j].last => (now - bucket[j].last) * Points \in Nat
      BY <1>a, <2>3, RateAssumption
    <3>4. CASE now > bucket[j].last
      BY <1>0, <1>a, <2>1, <2>3, <3>1, <3>3, <3>4, Units, RateAssumption DEF Potential
    <3>5. CASE now = bucket[j].last
      <4>1. now' > bucket[j].last /\ (now' - bucket[j].last) * Points = Points
        BY <1>a, <2>1, <2>3, <3>5, RateAssumption
      <4>2. Potential(j) = spent[j] * Duration + bucket[j].tokens
        BY <1>a, <2>3, <3>5 DEF Potential
      <4>3. Potential(j)' = spent[j] * Duration + bucket[j].tokens + Points
        BY <1>a, <2>1, <2>3, <4>1, RateAssumption DEF Potential
      <4>. QED BY <1>0, <1>a, <2>1, <2>3, <4>2, <4>3, Units, RateAssumption
    <3>6. CASE now < bucket[j].last
      BY <1>0, <1>a, <2>1, <2>3, <3>6, Units, RateAssumption DEF Potential
    <3>. QED BY <1>a, <2>3, <3>4, <3>5, <3>6
  <2>. QED BY <2>2, <2>3
<1>2. CASE SetBack
  <2>1. /\ now' = now - 1 /\ now' \in Nat
        /\ spent' = spent /\ bucket' = bucket /\ seconds' = seconds
    BY <1>2 DEF SetBack, LimiterTypeOK
  <2>2. CASE bucket[j] = NoBucket
    BY <1>0, <2>1, <2>2 DEF Potential
  <2>3. CASE bucket[j] # NoBucket /\ now' > bucket[j].last
    <3>1. /\ (now - bucket[j].last) * Points = (now' - bucket[j].last) * Points + Points
          /\ (now' - bucket[j].last) * Points \in Nat
      <4>1. /\ now' - bucket[j].last \in Nat
            /\ now - bucket[j].last = (now' - bucket[j].last) + 1
        BY <1>a, <2>1, <2>3
      <4>. QED BY <4>1, OneMore, RateAssumption
    <3>. QED BY <1>0, <1>a, <2>1, <2>3, <3>1, Units, RateAssumption DEF Potential
  <2>4. CASE bucket[j] # NoBucket /\ ~(now' > bucket[j].last)
    <3>1. now > bucket[j].last => (now - bucket[j].last) * Points \in Nat
      BY <1>a, <2>4, RateAssumption
    <3>. QED BY <1>0, <1>a, <2>1, <2>4, <3>1, Units DEF Potential
  <2>. QED BY <2>2, <2>3, <2>4
<1>3. ASSUME NEW k \in Keys, NEW cost \in Costs, AllocFail(k, cost)
      PROVE  Potential(j)' <= Full + seconds' * Points
  BY <1>0, <1>3 DEF AllocFail, Potential
<1>4. ASSUME NEW k \in Keys, NEW cost \in Costs, Grant(k, cost)
      PROVE  Potential(j)' <= Full + seconds' * Points
  <2>1. CASE j # k
    BY <1>0, <1>4, <2>1 DEF Grant, Potential, LimiterTypeOK
  <2>2. CASE j = k
    <3>1. Refilled(bucket[k]) \in 0..Full
      BY RefilledType DEF LimiterTypeOK
    <3>2. /\ bucket'[k] = [tokens |-> Refilled(bucket[k]) - cost * Duration, last |-> now]
          /\ spent'[k] = spent[k] + cost /\ now' = now /\ seconds' = seconds
      BY <1>4 DEF Grant, LimiterTypeOK
    <3>3. bucket'[k] # NoBucket
      BY <1>4, <3>1, <3>2, Units DEF Grant, NoBucket
    <3>4. spent'[k] * Duration = spent[k] * Duration + cost * Duration
      BY <3>2, RateAssumption DEF LimiterTypeOK
    <3>5. Potential(k)' = spent[k] * Duration + Refilled(bucket[k])
      BY <1>a, <2>2, <3>1, <3>2, <3>3, <3>4, Units DEF Potential
    <3>. QED BY <1>0, <2>2, <3>2, <3>5, RefilledBound, <1>a, <3>1, Units,
                RateAssumption DEF Potential
  <2>. QED BY <2>1, <2>2
<1>5. ASSUME NEW k \in Keys, NEW cost \in Costs, Refuse(k, cost)
      PROVE  Potential(j)' <= Full + seconds' * Points
  <2>1. CASE j # k
    BY <1>0, <1>5, <2>1 DEF Refuse, Potential, LimiterTypeOK
  <2>2. CASE j = k
    <3>1. Refilled(bucket[k]) \in 0..Full
      BY RefilledType DEF LimiterTypeOK
    <3>2. /\ bucket'[k] = [tokens |-> Refilled(bucket[k]), last |-> now]
          /\ spent' = spent /\ now' = now /\ seconds' = seconds
      BY <1>5 DEF Refuse, LimiterTypeOK
    <3>3. bucket'[k] # NoBucket
      BY <3>1, <3>2 DEF NoBucket
    <3>5. Potential(k)' = spent[k] * Duration + Refilled(bucket[k])
      BY <1>a, <2>2, <3>1, <3>2, <3>3, Units DEF Potential
    <3>. QED BY <1>0, <2>2, <3>2, <3>5, RefilledBound, <1>a, <3>1, Units,
                RateAssumption DEF Potential
  <2>. QED BY <2>1, <2>2
<1>6. CASE UNCHANGED limiterVars
  BY <1>0, <1>6 DEF limiterVars, Potential
<1>. QED BY <1>1, <1>2, <1>3, <1>4, <1>5, <1>6 DEF LimiterNext

\* No key is granted more than the burst plus the refill of the seconds that have
\* really passed, whatever the wall clock that time(NULL) reads does.
THEOREM BudgetKept == LimiterSpec => []Budget
<1>1. LimiterInit => BudgetInv
  BY Units, RateAssumption DEF LimiterInit, BudgetInv, Potential
<1>2. LimiterTypeOK /\ BudgetInv => Budget
  <2>. SUFFICES ASSUME LimiterTypeOK, BudgetInv, NEW k \in Keys
                PROVE  spent[k] * Duration <= Full + seconds * Points
    BY DEF Budget
  <2>1. Potential(k) <= Full + seconds * Points
    BY DEF BudgetInv
  <2>2. Refilled(bucket[k]) \in 0..Full /\ bucket[k] \in Bucket
    BY RefilledType DEF LimiterTypeOK
  <2>3. spent[k] * Duration \in Nat /\ seconds * Points \in Nat
    BY RateAssumption DEF LimiterTypeOK
  <2>4. Potential(k) \in Int
    BY <2>2, <2>3, Units, RateAssumption DEF Potential, Bucket, LimiterTypeOK
  <2>. QED BY <2>1, <2>2, <2>3, <2>4, RefilledBound, Units
<1>. QED BY <1>1, <1>2, LimiterTypes, BudgetNext, PTL DEF LimiterSpec

\* Until the clock is set back no bucket was last used in the future.
LEMMA LastNext == LimiterTypeOK /\ LastPast /\ [LimiterNext]_limiterVars => LastPast'
<1>. SUFFICES ASSUME LimiterTypeOK, LastPast, [LimiterNext]_limiterVars, ~back', NEW j \in Keys
              PROVE  bucket'[j].last <= now'
  BY DEF LastPast
<1>a. ~back
  BY DEF LimiterNext, limiterVars, Tick, SetBack, AllocFail, Grant, Refuse
<1>0. bucket[j].last <= now /\ bucket[j].last \in Nat /\ now \in Nat
  BY <1>a DEF LastPast, LimiterTypeOK, Bucket, NoBucket
<1>1. CASE Tick
  BY <1>0, <1>1 DEF Tick
<1>2. CASE SetBack
  BY <1>2 DEF SetBack
<1>3. ASSUME NEW k \in Keys, NEW cost \in Costs, AllocFail(k, cost)
      PROVE  bucket'[j].last <= now'
  BY <1>0, <1>3 DEF AllocFail
<1>4. ASSUME NEW k \in Keys, NEW t, now' = now,
             bucket' = [bucket EXCEPT ![k] = [tokens |-> t, last |-> now]]
      PROVE  bucket'[j].last <= now'
  BY <1>0, <1>4 DEF LimiterTypeOK
<1>5. ASSUME NEW k \in Keys, NEW cost \in Costs, Grant(k, cost) \/ Refuse(k, cost)
      PROVE  bucket'[j].last <= now'
  BY <1>4, <1>5 DEF Grant, Refuse
<1>6. CASE UNCHANGED limiterVars
  BY <1>0, <1>6 DEF limiterVars
<1>. QED BY <1>1, <1>2, <1>3, <1>5, <1>6 DEF LimiterNext

\* A second raises the level of every bucket by one refill, up to the capacity.
LEMMA TickLevel ==
  ASSUME LimiterTypeOK, LastPast, ~back, Tick, NEW k \in Keys
  PROVE  Level(k)' = IF Level(k) + Points > Full THEN Full ELSE Level(k) + Points
<1>0. now' = now + 1 /\ bucket' = bucket /\ now \in Nat /\ bucket[k] \in Bucket
  BY DEF Tick, LimiterTypeOK
<1>1. CASE bucket[k] = NoBucket
  BY <1>0, <1>1, Units, RateAssumption DEF Level, Refilled
<1>2. CASE bucket[k] # NoBucket
  <2>1. /\ bucket[k].tokens \in 0..Full /\ bucket[k].last \in Nat
        /\ bucket[k].last <= now
    BY <1>0, <1>2 DEF Bucket, LastPast
  <2>a. now - bucket[k].last \in Nat /\ now' - bucket[k].last = (now - bucket[k].last) + 1
    BY <1>0, <2>1
  <2>2. /\ (now' - bucket[k].last) * Points = (now - bucket[k].last) * Points + Points
        /\ (now - bucket[k].last) * Points \in Nat
    BY <2>a, OneMore, RateAssumption
  <2>3. Level(k) = IF bucket[k].tokens + (now - bucket[k].last) * Points > Full THEN Full
                   ELSE bucket[k].tokens + (now - bucket[k].last) * Points
    <3>1. CASE now > bucket[k].last
      BY <1>2, <3>1 DEF Level, Refilled
    <3>2. CASE now = bucket[k].last
      <4>1. (now - bucket[k].last) * Points = 0
        BY <1>0, <3>2, RateAssumption
      <4>. QED BY <1>0, <1>2, <2>1, <3>2, <4>1, Units DEF Level, Refilled
    <3>. QED BY <1>0, <2>1, <3>1, <3>2
  <2>4. Level(k)' = IF bucket[k].tokens + (now' - bucket[k].last) * Points > Full THEN Full
                    ELSE bucket[k].tokens + (now' - bucket[k].last) * Points
    BY <1>0, <1>2, <2>1 DEF Level, Refilled
  <2>. QED BY <2>1, <2>2, <2>3, <2>4, Units, RateAssumption
<1>. QED BY <1>1, <1>2

\* A use of a key sets its bucket to what it then holds.
LEMMA UseLevel ==
  ASSUME LimiterTypeOK, NEW k \in Keys, NEW t \in 0..Full, now' = now,
         bucket' = [bucket EXCEPT ![k] = [tokens |-> t, last |-> now]]
  PROVE  Level(k)' = t /\ \A j \in Keys \ {k} : Level(j)' = Level(j)
<1>1. bucket'[k] = [tokens |-> t, last |-> now] /\ bucket'[k] # NoBucket
  BY DEF LimiterTypeOK, NoBucket
<1>2. Level(k)' = t
  BY <1>1 DEF Level, Refilled, LimiterTypeOK
<1>3. \A j \in Keys \ {k} : bucket'[j] = bucket[j]
  BY DEF LimiterTypeOK
<1>. QED BY <1>2, <1>3 DEF Level, Refilled

\* Every step of the limiter is a step of the eagerly refilled buckets, or none.
LEMMA StepRefines ==
  LimiterTypeOK /\ LastPast /\ [LimiterNext]_limiterVars => [back' \/ Eager!Next]_Levels
<1>. SUFFICES ASSUME LimiterTypeOK, LastPast, [LimiterNext]_limiterVars, ~back'
              PROVE  [Eager!Next]_Levels
  OBVIOUS
<1>b. ~back
  BY DEF LimiterNext, limiterVars, Tick, SetBack, AllocFail, Grant, Refuse
<1>a. Eager!Full = Full
  BY DEF Eager!Full, Full
<1>1. CASE Tick
  <2>1. Eager!Second
    BY <1>1, <1>a, <1>b, TickLevel DEF Eager!Second, Levels
  <2>. QED BY <2>1 DEF Eager!Next
<1>2. CASE SetBack
  BY <1>2 DEF SetBack
<1>3. ASSUME NEW k \in Keys, NEW cost \in Costs, AllocFail(k, cost)
      PROVE  UNCHANGED Levels
  BY <1>3 DEF AllocFail, Levels, Level, Refilled
<1>4. ASSUME NEW k \in Keys, NEW cost \in Costs, Grant(k, cost) PROVE Eager!Next
  <2>1. /\ Refilled(bucket[k]) \in 0..Full
        /\ Refilled(bucket[k]) - cost * Duration \in 0..Full
    BY <1>4, RefilledType, Units DEF LimiterTypeOK, Grant
  <2>2. /\ Level(k)' = Level(k) - cost * Duration
        /\ \A j \in Keys \ {k} : Level(j)' = Level(j)
    BY <1>4, <2>1, UseLevel DEF Grant, Level
  <2>3. Level(k) >= cost * Duration
    BY <1>4 DEF Grant, Level
  <2>4. Eager!Take(k, cost)
    BY <2>2, <2>3 DEF Eager!Take, Levels
  <2>. QED BY <2>4 DEF Eager!Next
<1>5. ASSUME NEW k \in Keys, NEW cost \in Costs, Refuse(k, cost)
      PROVE  UNCHANGED Levels
  <2>1. Refilled(bucket[k]) \in 0..Full
    BY RefilledType DEF LimiterTypeOK
  <2>2. Level(k)' = Level(k) /\ \A j \in Keys \ {k} : Level(j)' = Level(j)
    BY <1>5, <2>1, UseLevel DEF Refuse, Level
  <2>. QED BY <2>2 DEF Levels
<1>6. CASE UNCHANGED limiterVars
  BY <1>6 DEF limiterVars, Levels, Level, Refilled
<1>. QED BY <1>1, <1>2, <1>3, <1>4, <1>5, <1>6 DEF LimiterNext

\* As long as the clock only advances, the table that wf_rate_limiter_consume_core
\* keeps implements buckets refilled every second, for every use of any keys.
THEOREM Implements == LimiterSpec => ImplementsBucket
<1>1. LimiterInit => LastPast /\ Eager!Init
  <2>. SUFFICES ASSUME LimiterInit PROVE LastPast /\ Eager!Init
    OBVIOUS
  <2>1. \A k \in Keys : Level(k) = Full
    BY DEF LimiterInit, Level, Refilled
  <2>. QED BY <2>1 DEF LimiterInit, LastPast, Eager!Init, Eager!Full, Full, NoBucket, Levels
<1>. QED BY <1>1, LimiterTypes, LastNext, StepRefines, PTL DEF LimiterSpec, ImplementsBucket

-----------------------------------------------------------------------------
\* Rounding to the nearest second falls short by less than a second.
LEMMA RetryCovers ==
  ASSUME NEW missing \in Nat
  PROVE  (RetryAfter(missing) + 1) * Points >= missing
<1>1. CASE missing < Points
  BY <1>1, RateAssumption DEF RetryAfter
<1>2. CASE ~(missing < Points)
  <2>. DEFINE q == (2 * missing + Points) \div (2 * Points)
  <2>1. /\ q \in Nat /\ 2 * missing + Points < (2 * Points) * (q + 1)
    BY RateAssumption
  <2>2. (2 * Points) * (q + 1) = 2 * ((q + 1) * Points)
    BY <2>1, RateAssumption
  <2>3. (q + 1) * Points \in Nat
    BY <2>1, RateAssumption
  <2>4. (q + 1) * Points >= missing
    <3>. HIDE DEF q
    <3>. QED BY <2>1, <2>2, <2>3, RateAssumption
  <2>. QED BY <1>2, <2>4 DEF RetryAfter
<1>. QED BY <1>1, <1>2

\* A refusal is about the bucket as it was left by it.
LEMMA RefusalNext == LimiterTypeOK /\ RefusalInv /\ [LimiterNext]_limiterVars => RefusalInv'
<1>. SUFFICES ASSUME LimiterTypeOK, RefusalInv, [LimiterNext]_limiterVars, NEW j \in Keys
              PROVE  RefusedNow(j)'
  BY DEF RefusalInv
<1>0. RefusedNow(j)
  BY DEF RefusalInv
<1>1. CASE Tick \/ SetBack \/ UNCHANGED limiterVars
  BY <1>0, <1>1 DEF Tick, SetBack, limiterVars, RefusedNow, RetryAfter
<1>3. ASSUME NEW k \in Keys, NEW cost \in Costs, AllocFail(k, cost)
      PROVE  RefusedNow(j)'
  BY <1>0, <1>3 DEF AllocFail, RefusedNow, RetryAfter, LimiterTypeOK
<1>4. ASSUME NEW k \in Keys, NEW cost \in Costs, Grant(k, cost)
      PROVE  RefusedNow(j)'
  BY <1>0, <1>4 DEF Grant, RefusedNow, RetryAfter, LimiterTypeOK, NoRefusal
<1>5. ASSUME NEW k \in Keys, NEW cost \in Costs, Refuse(k, cost)
      PROVE  RefusedNow(j)'
  <2>1. CASE j # k
    BY <1>0, <1>5, <2>1 DEF Refuse, RefusedNow, RetryAfter, LimiterTypeOK
  <2>2. CASE j = k
    <3>1. bucket'[k] = [tokens |-> Refilled(bucket[k]), last |-> now]
      BY <1>5 DEF Refuse, LimiterTypeOK
    <3>2. refusal'[k] =
            [cost |-> cost, at |-> now + RetryAfter(cost * Duration - Refilled(bucket[k]))]
      BY <1>5 DEF Refuse, LimiterTypeOK
    <3>3. cost * Duration - Refilled(bucket[k]) \in Nat
      BY <1>5, RefilledType, Units DEF Refuse, LimiterTypeOK
    <3>4. /\ refusal'[k].cost * Duration - bucket'[k].tokens \in Nat
          /\ refusal'[k].at = bucket'[k].last
               + RetryAfter(refusal'[k].cost * Duration - bucket'[k].tokens)
      BY <3>1, <3>2, <3>3
    <3>. QED BY ONLY <2>2, <3>4 DEF RefusedNow, RetryAfter
  <2>. QED BY <2>1, <2>2
<1>. QED BY <1>1, <1>3, <1>4, <1>5 DEF LimiterNext

\* A caller that was refused and comes back later than Retry-After told it, with
\* no more to ask for and nothing granted to its key in between, is granted what
\* it asks for, as long as the clock only advances.
THEOREM RetryKept == LimiterSpec => RetryAlmostSucceeds
<1>1. LimiterInit => RefusalInv
  BY DEF LimiterInit, RefusalInv, RefusedNow, NoRefusal
<1>2. LimiterTypeOK /\ LastPast /\ RefusalInv /\ [LimiterNext]_limiterVars =>
        [\A k \in Keys, cost \in Costs :
           Refuse(k, cost) /\ ~back /\ cost <= refusal[k].cost /\ cost <= Points
             => now <= refusal[k].at]_limiterVars
  <2>. SUFFICES ASSUME LimiterTypeOK, LastPast, RefusalInv, NEW k \in Keys, NEW cost \in Costs,
                       Refuse(k, cost), ~back, cost <= refusal[k].cost, cost <= Points,
                       ~(now <= refusal[k].at)
                PROVE  FALSE
    OBVIOUS
  <2>0. cost \in Nat /\ cost * Duration \in Nat /\ cost * Duration <= Full
    BY RateAssumption DEF Full
  <2>1. Refilled(bucket[k]) < cost * Duration
    BY DEF Refuse
  <2>2. bucket[k] # NoBucket
    BY <2>0, <2>1, Units DEF Refilled
  <2>3. /\ bucket[k].tokens \in 0..Full /\ bucket[k].last \in Nat
        /\ now \in Nat /\ bucket[k].last <= now
        /\ refusal[k].cost \in Nat \ {0} /\ refusal[k].at \in Nat
    BY <2>2, RateAssumption DEF LimiterTypeOK, Bucket, LastPast
  <2>. DEFINE m == refusal[k].cost * Duration - bucket[k].tokens
  <2>4. m \in Nat /\ refusal[k].at = bucket[k].last + RetryAfter(m)
    BY <2>2, <2>3 DEF RefusalInv, RefusedNow
  <2>5. RetryAfter(m) \in Nat
    BY <2>4, RetryType
  <2>6. (RetryAfter(m) + 1) * Points >= m
    BY <2>4, RetryCovers
  <2>7. refusal[k].cost * Duration \in Nat /\ cost * Duration <= refusal[k].cost * Duration
    BY <2>3, RateAssumption
  <2>. HIDE DEF m
  <2>8. now - bucket[k].last >= RetryAfter(m) + 1
    BY <2>3, <2>4, <2>5
  <2>9. /\ (now - bucket[k].last) * Points >= (RetryAfter(m) + 1) * Points
        /\ (now - bucket[k].last) * Points \in Nat
        /\ (RetryAfter(m) + 1) * Points \in Nat
    BY <2>3, <2>5, <2>8, RateAssumption
  <2>10. bucket[k].tokens + (now - bucket[k].last) * Points >= refusal[k].cost * Duration
    BY <2>3, <2>4, <2>6, <2>7, <2>9 DEF m
  <2>11. now > bucket[k].last
    BY <2>3, <2>5, <2>8
  <2>12. Refilled(bucket[k]) >= cost * Duration
    BY <2>0, <2>2, <2>3, <2>7, <2>9, <2>10, <2>11, Units DEF Refilled
  <2>. QED BY <2>0, <2>1, <2>12, RefilledType DEF LimiterTypeOK
<1>3. LimiterInit => LastPast
  BY DEF LimiterInit, LastPast, NoBucket
<1>. QED BY <1>1, <1>2, <1>3, LimiterTypes, LastNext, RefusalNext, PTL
         DEF LimiterSpec, RetryAlmostSucceeds
=============================================================================
