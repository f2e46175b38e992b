----------------------------- MODULE RateLimiter ----------------------------
(***************************************************************************)
(* The token-bucket rate limiter of src/server/xrpc_server.c.  A bucket is  *)
(* made at the first request of its key and refilled only when the key is   *)
(* used again, from the time that has passed.  consume holds rl->mutex from *)
(* beginning to end, so it is one step.                                     *)
(*                                                                          *)
(* The code keeps tokens as a double; here they are counted in units of     *)
(* 1/Duration of a token, which makes the refill of a second the integer    *)
(* Points and the arithmetic exact.                                         *)
(***************************************************************************)
EXTENDS Integers, FiniteSets

CONSTANTS
  Keys,
  Points,       \* burst capacity, in tokens
  Duration,     \* seconds in which an empty bucket fills up
  Costs,        \* costs of requests; the server itself always asks for 1
  MaxTime       \* bound: seconds by which the clock advances in all

ASSUME RateAssumption ==
  /\ Points \in Nat \ {0}
  /\ Duration \in Nat \ {0}
  /\ Costs \subseteq Nat \ {0}
  /\ MaxTime \in Nat

VARIABLES
  now,       \* time(NULL)
  seconds,   \* seconds by which the clock has advanced, in all
  back,      \* whether the wall clock was ever set back
  bucket,    \* the hash table: [Keys -> NoBucket or [tokens, last]]
  spent,     \* cost granted to each key so far
  refusal    \* the last answer to each key, if it was a refusal: the cost it was
             \* refused and the time it was told to come back at

limiterVars == <<now, seconds, back, bucket, spent, refusal>>

NoBucket == [tokens |-> -1, last |-> 0]
Full     == Points * Duration

NoRefusal == [cost |-> 0, at |-> 0]

LimiterInit ==
  /\ now = 1
  /\ seconds = 0
  /\ back = FALSE
  /\ bucket = [k \in Keys |-> NoBucket]
  /\ spent = [k \in Keys |-> 0]
  /\ refusal = [k \in Keys |-> NoRefusal]

\* A second passes, or the wall clock is set forward by one.
Tick ==
  /\ seconds < MaxTime
  /\ seconds' = seconds + 1
  /\ now' = now + 1
  /\ UNCHANGED <<back, bucket, spent, refusal>>

\* The wall clock is set back by a second: time(NULL) is not monotonic.
SetBack ==
  /\ now > 1
  /\ now' = now - 1
  /\ back' = TRUE
  /\ UNCHANGED <<seconds, bucket, spent, refusal>>

\* Tokens of a bucket when its key is used: a new one is full, an old one is
\* refilled for the time since last_refill, if that is positive.
Refilled(b) ==
  IF b = NoBucket THEN Full
  ELSE IF now > b.last
       THEN IF b.tokens + (now - b.last) * Points > Full THEN Full
            ELSE b.tokens + (now - b.last) * Points
  ELSE b.tokens

\* Mutant: a refusal does not move last_refill, so the time is paid out again.
RefuseUnstamped(k, cost) ==
  /\ Refilled(bucket[k]) < cost * Duration
  /\ bucket' = [bucket EXCEPT ![k] = [tokens |-> Refilled(bucket[k]),
                  last |-> IF bucket[k] = NoBucket THEN now ELSE bucket[k].last]]
  /\ refusal' = [refusal EXCEPT ![k] = [cost |-> cost, at |-> now + 1]]
  /\ UNCHANGED <<now, seconds, back, spent>>

\* Seconds told to a refused caller: the time the missing tokens take, at least
\* one second, rounded to the nearest second by (unsigned int)(wait + 0.5).
RetryAfter(missing) ==
  IF missing < Points THEN 1 ELSE (2 * missing + Points) \div (2 * Points)

\* wf_rate_limiter_consume_core with too few tokens: the refill is kept.
Refuse(k, cost) ==
  LET tokens == Refilled(bucket[k]) IN
  /\ tokens < cost * Duration
  /\ bucket' = [bucket EXCEPT ![k] = [tokens |-> tokens, last |-> now]]
  /\ refusal' = [refusal EXCEPT ![k] =
                   [cost |-> cost, at |-> now + RetryAfter(cost * Duration - tokens)]]
  /\ UNCHANGED <<now, seconds, back, spent>>

\* Mutant: the clock is not looked at when the bucket is written back.
GrantUnstamped(k, cost) ==
  LET tokens == Refilled(bucket[k]) IN
  /\ tokens >= cost * Duration
  /\ bucket' = [bucket EXCEPT ![k] = [tokens |-> tokens - cost * Duration,
                  last |-> IF bucket[k] = NoBucket THEN now ELSE bucket[k].last]]
  /\ spent' = [spent EXCEPT ![k] = @ + cost]
  /\ refusal' = [refusal EXCEPT ![k] = NoRefusal]
  /\ UNCHANGED <<now, seconds, back>>

\* wf_rate_limiter_consume_core with enough tokens.
Grant(k, cost) ==
  LET tokens == Refilled(bucket[k]) IN
  /\ tokens >= cost * Duration
  /\ bucket' = [bucket EXCEPT ![k] = [tokens |-> tokens - cost * Duration, last |-> now]]
  /\ spent' = [spent EXCEPT ![k] = @ + cost]
  /\ refusal' = [refusal EXCEPT ![k] = NoRefusal]
  /\ UNCHANGED <<now, seconds, back>>

\* No memory for the bucket of a new key: WF_ERR_ALLOC, and nothing is kept.
\* wf_server_rate_limit_request answers it with 429 and one second.
AllocFail(k, cost) ==
  /\ bucket[k] = NoBucket
  /\ refusal' = [refusal EXCEPT ![k] = [cost |-> cost, at |-> now + 1]]
  /\ UNCHANGED <<now, seconds, back, bucket, spent>>

LimiterNext ==
  \/ Tick
  \/ SetBack
  \/ \E k \in Keys, cost \in Costs : AllocFail(k, cost) \/ Grant(k, cost) \/ Refuse(k, cost)

LimiterSpec == LimiterInit /\ [][LimiterNext]_limiterVars

-----------------------------------------------------------------------------
Bucket == [tokens : 0..Full, last : Nat] \cup {NoBucket}

\* Types; a bucket holds between nothing and the burst capacity.
LimiterTypeOK ==
  /\ now \in Nat
  /\ seconds \in Nat
  /\ back \in BOOLEAN
  /\ bucket \in [Keys -> Bucket]
  /\ spent \in [Keys -> Nat]
  /\ refusal \in [Keys -> [cost : Nat, at : Nat]]

\* No key is ever granted more than the burst plus what the seconds refill by
\* which the wall clock that wf_rate_limiter_consume_core reads has advanced,
\* however often it is set back and runs over them again.  These are the
\* seconds that have passed and those by which the clock was set forward.
Budget ==
  \A k \in Keys : spent[k] * Duration <= Full + seconds * Points

\* Why Budget holds: what a key has been granted, what its bucket holds and what
\* its next refill will add never exceed it.
Potential(k) ==
  spent[k] * Duration
    + IF bucket[k] = NoBucket THEN Full
      ELSE bucket[k].tokens + (IF now > bucket[k].last THEN (now - bucket[k].last) * Points ELSE 0)

BudgetInv == \A k \in Keys : Potential(k) <= Full + seconds * Points

\* Until the clock is set back no bucket was last used in the future.
LastPast == back \/ \A k \in Keys : bucket[k].last <= now

\* A refusal that a key was given last is about the bucket as it has been since.
RefusedNow(k) ==
  bucket[k] # NoBucket /\ refusal[k].cost # 0 =>
    LET missing == refusal[k].cost * Duration - bucket[k].tokens IN
    missing \in Nat /\ refusal[k].at = bucket[k].last + RetryAfter(missing)

RefusalInv == \A k \in Keys : RefusedNow(k)

\* The level an eagerly refilled bucket would have now.
Level(k) == Refilled(bucket[k])
Levels == [k \in Keys |-> Level(k)]

Eager == INSTANCE TokenBucket WITH level <- Levels

\* As long as the clock only advances, refilling at the next use is the same as
\* refilling every second: the table implements TokenBucket.
ImplementsBucket == Eager!Init /\ [][back' \/ Eager!Next]_Levels

\* What xrpc_server.c:248 says of the wait that a refused caller is told, "Seconds
\* until enough tokens are available for this request": when they have passed,
\* and the key was not used in between, its bucket holds them.
RetrySucceeds ==
  \A k \in Keys :
    ~back /\ refusal[k].cost \in 1..Points /\ now >= refusal[k].at
      => Level(k) >= refusal[k].cost * Duration

\* How far the wait can be off: it is rounded to the nearest second, so a caller
\* may come a second early; one that comes later than told is not refused again,
\* unless it asks for more or was granted something in between.
RetryAlmostSucceeds ==
  [][\A k \in Keys, cost \in Costs :
       Refuse(k, cost) /\ ~back /\ cost <= refusal[k].cost /\ cost <= Points
         => now <= refusal[k].at]_limiterVars
=============================================================================
