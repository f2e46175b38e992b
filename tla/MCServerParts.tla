--------------------------- MODULE MCServerParts ----------------------------
(***************************************************************************)
(* Instance for TLC of three parts of the server that have no state in      *)
(* common: the HTTP daemon (MhdShim), the rate limiter (RateLimiter) and    *)
(* the blob store (BlobStore).  A behaviour is one of one of them, with the *)
(* others at rest.                                                          *)
(***************************************************************************)
EXTENDS MhdShim, RateLimiter, BlobStore

VARIABLE part   \* the part that moves; never changes

partsVars == <<shimVars, limiterVars, vars, part>>

DaemonStep  == part = "daemon" /\ ShimNext /\ UNCHANGED <<limiterVars, vars, part>>
LimiterStep == part = "limiter" /\ LimiterNext /\ UNCHANGED <<shimVars, vars, part>>
StoreStep   == part = "store" /\ Next /\ UNCHANGED <<shimVars, limiterVars, part>>

PartsInit == ShimInit /\ LimiterInit /\ Init /\ part \in {"daemon", "limiter", "store"}

PartsSpec ==
  /\ PartsInit /\ [][DaemonStep \/ LimiterStep \/ StoreStep]_partsVars
  /\ ShimFairness
=============================================================================
