----------------------------- MODULE RecordMap ------------------------------
(***************************************************************************)
(* What a repository promises its owner (include/wolfram/repo/record.h): a  *)
(* map from record keys to records.  Each call names its writes; what the   *)
(* records are after it, and the status it returns, follow from those       *)
(* writes and the records before it.                                        *)
(***************************************************************************)
EXTENDS Naturals, Sequences, SequencesExt

CONSTANTS Keys,
          Values,
          Batches      \* the lists of writes made as one

VARIABLES
  records,
  call,       \* the last call
  status      \* what it returned

vars == <<records, call, status>>

NoCall == [action |-> "none"]
Writes == [action : {"create", "update"}, key : Keys, value : Values]
          \cup [action : {"delete"}, key : Keys]

\* A write fits when it creates a record that is not there, or changes or
\* removes one that is.
Fits(map, w)  == (w.action = "create") = (w.key \notin DOMAIN map)
Misfit(w)     == IF w.action = "create" THEN "conflict" ELSE "not_found"
Wrote(map, w) ==
  [k \in IF w.action = "delete" THEN DOMAIN map \ {w.key} ELSE DOMAIN map \cup {w.key} |->
     IF k = w.key THEN w.value ELSE map[k]]

\* A batch, one write after the other: whole, or not at all.
Batch(map, ws) ==
  FoldLeft(LAMBDA acc, w :
             IF acc.status # "ok" THEN acc
             ELSE IF Fits(acc.map, w) THEN [status |-> "ok", map |-> Wrote(acc.map, w)]
             ELSE [status |-> Misfit(w), map |-> map],
           [status |-> "ok", map |-> map], ws)

\* A write made alone: creating what is there is no error, and changes nothing.
Alone(map, w) ==
  IF w.action = "create" /\ w.key \in DOMAIN map THEN [status |-> "ok", map |-> map]
  ELSE Batch(map, <<w>>)

Make(c, result) ==
  /\ call' = c
  /\ status' = result.status
  /\ records' = result.map

Init == records = [k \in {} |-> k] /\ call = NoCall /\ status = "ok"

Next == \/ \E w \in Writes : Make(w, Alone(records, w))
        \/ \E ws \in Batches : Make([action |-> "batch", writes |-> ws], Batch(records, ws))

Spec == Init /\ [][Next]_vars
=============================================================================
