----------------------------- MODULE TokenBucket ----------------------------
(***************************************************************************)
(* What a rate limiter promises, without a clock or a table: every key has  *)
(* a bucket that holds Points tokens, gains Points/Duration of them every   *)
(* second, and gives up the cost of a request that it can pay for.  Levels  *)
(* are counted in units of 1/Duration of a token.                           *)
(***************************************************************************)
EXTENDS Naturals

CONSTANTS Keys, Points, Duration, Costs

VARIABLE level

Full == Points * Duration

Init == level = [k \in Keys |-> Full]

Second ==
  level' = [k \in Keys |-> IF level[k] + Points > Full THEN Full ELSE level[k] + Points]

Take(k, cost) ==
  /\ level[k] >= cost * Duration
  /\ level' = [level EXCEPT ![k] = @ - cost * Duration]

Next == Second \/ \E k \in Keys, cost \in Costs : Take(k, cost)

Spec == Init /\ [][Next]_level
=============================================================================
