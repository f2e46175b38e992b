------------------------------ MODULE DidNames ------------------------------
(* The DIDs that lookups answer and documents describe.                     *)
CONSTANTS Dids, NoDid

ASSUME DidsAssumption == NoDid \notin Dids
=============================================================================
