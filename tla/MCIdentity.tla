----------------------------- MODULE MCIdentity -----------------------------
EXTENDS Identity

MCTtls == {[stale |-> 1, max |-> 2], [stale |-> 0, max |-> 0]}
=============================================================================
