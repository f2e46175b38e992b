------------------------------- MODULE MCRepo -------------------------------
EXTENDS Repo

MCLayer == [k \in 1..4 |-> <<0, 2, 0, 1>>[k]]
W(a, k, v) == [action |-> a, key |-> k, value |-> v]
CONSTANTS v1, v2
MCBatches == { <<>>,
  <<W("create", 1, v1), W("create", 3, v1), W("create", 1, v2)>>,
  <<W("delete", 2, v1), W("create", 3, v1)>>,
  <<W("update", 4, v2), W("delete", 1, v1)>> }
=============================================================================
