-------------------------------- MODULE Repo --------------------------------
(***************************************************************************)
(* A repository and a mirror of it (src/repo/repo.c, src/repo/diff.c).      *)
(*                                                                          *)
(* The author's commits each name an MST; the mirror holds the blocks of    *)
(* one commit and moves to a later one by verifying and applying an update  *)
(* CAR.  A block is a tree node or a record; the commit block itself is     *)
(* not modelled: it is new with every commit, and always in the update.     *)
(* Calls are made from one thread, and each is one action.                  *)
(***************************************************************************)
EXTENDS Mst

CONSTANTS Values,    \* the CIDs of record blocks
          Batches,   \* the lists of writes given to wf_repo_apply_writes
          NoMirror

VARIABLES
  head,     \* the tree of the author's last commit, NoTree before the first
  mirror,   \* the mirror's tree and blocks: [data, blocks], or NoMirror
  call,     \* the author's last call, with its arguments; no action reads it
  status    \* and what it returned

vars == <<head, mirror, call, status>>

\* What the steps read: the view under which TLC tells states apart.
RepoView == <<head, mirror>>

Init == /\ head = NoTree /\ mirror = NoMirror
        /\ call = [action |-> "none"] /\ status = "ok"

\* The records of a tree, and whether wf_mst_find finds a key in it.
RecordsOf(t) == FoldLeft(LAMBDA map, l : map @@ (l.key :> l.value), <<>>, Walk(t))
Has(t, key) == t # NoTree /\ Find(Range(Nodes(t)), t, key) \in Values

\* A call whose new tree is r: wf_commit_create on its root, where an emptied
\* tree is one empty node, or no commit when there was an error.
Commit(c, r) ==
  /\ call' = c /\ status' = r.status
  /\ head' = IF r.status # "ok" THEN head ELSE IF r.tree = NoTree THEN EmptyNode ELSE r.tree
  /\ UNCHANGED mirror

\* mst_update_value.
RECURSIVE UpdateValue(_, _, _)
UpdateValue(t, key, value) ==
  LET i     == Below(t, key)
      inner == UpdateValue(Child(t, i), key, value)
  IN  IF Holds(t, key) THEN Ok(Finalize(LayerOf(t), [t EXCEPT !.entries[i + 1].value = value]))
      ELSE IF Child(t, i) = NoTree THEN Fail("not_found")
      ELSE IF inner.status # "ok" THEN inner
      ELSE Ok(Finalize(LayerOf(t), WithChild(t, i, inner.tree)))

\* wf_repo_create_record: a key that is there keeps its record, and the
\* commit is made all the same.
CreateRecord(key, value) ==
  Commit([action |-> "create", key |-> key, value |-> value], Ok(Add(head, key, value)))

\* wf_repo_update_record, which takes a previous commit, and
\* wf_repo_delete_record.
UpdateRecord(key, value) ==
  /\ head # NoTree
  /\ Commit([action |-> "update", key |-> key, value |-> value], UpdateValue(head, key, value))

DeleteRecord(key) == Commit([action |-> "delete", key |-> key], Delete(head, key))

\* wf_repo_apply_writes: each write is staged on a working root.
Stage(t, w) ==
  LET found == Has(t, w.key)
      r == IF w.action = "create"
           THEN IF found THEN Fail("conflict") ELSE Ok(Add(t, w.key, w.value))
           ELSE IF ~found THEN Fail("not_found")
           ELSE IF w.action = "update" THEN UpdateValue(t, w.key, w.value)
           ELSE Delete(t, w.key)
  IN  IF r.status = "ok" /\ r.tree = NoTree THEN Ok(EmptyNode) ELSE r
\* Mutant: a write that does not fit is passed over.
StagedPartly(t, ws) ==
  FoldLeft(LAMBDA acc, w : LET r == Stage(acc.tree, w) IN IF r.status = "ok" THEN r ELSE acc,
           Ok(t), ws)
Staged(t, ws) ==
  FoldLeft(LAMBDA acc, w : IF acc.status = "ok" THEN Stage(acc.tree, w) ELSE acc, Ok(t), ws)
ApplyWrites(ws) == Commit([action |-> "batch", writes |-> ws], Staged(head, ws))

-----------------------------------------------------------------------------
(* The mirror.                                                             *)

Leaves(t)    == {l.value : l \in Range(Walk(t))}
Reachable(t) == Range(Nodes(t)) \cup Leaves(t)

\* repo_collect_mst: refuses a tree that holds a node twice, or keys out of
\* order.
Collects(t) ==
  LET nodes == Nodes(t)
      walk  == Walk(t)
  IN  /\ IsInjective(nodes)
      /\ \A i \in 1..(Len(walk) - 1) : walk[i].key < walk[i + 1].key

\* repo_diff_operations: two lists of leaves, each in key order, side by side.
Operation(action, l, prev) == [action |-> action, key |-> l.key, value |-> l.value, prev |-> prev]
RECURSIVE DiffOperations(_, _)
DiffOperations(old, new) ==
  IF old = <<>> /\ new = <<>> THEN <<>>
  ELSE IF new = <<>> \/ (old # <<>> /\ Head(old).key < Head(new).key)
  THEN <<Operation("delete", Head(old), Head(old).value)>> \o DiffOperations(Tail(old), new)
  ELSE IF old = <<>> \/ Head(old).key > Head(new).key
  THEN <<Operation("create", Head(new), Head(new).value)>> \o DiffOperations(old, Tail(new))
  ELSE (IF Head(old).value = Head(new).value THEN <<>>
        ELSE <<Operation("update", Head(new), Head(old).value)>>)
       \o DiffOperations(Tail(old), Tail(new))

\* Mutant: the two records of an update are not exchanged.
InvertUnswapped(ops) ==
  [i \in DOMAIN ops |->
     LET o == ops[Len(ops) - i + 1]
     IN  CASE o.action = "create" -> [o EXCEPT !.action = "delete"]
           [] o.action = "delete" -> [o EXCEPT !.action = "create"]
           [] o.action = "update" -> o]

\* wf_repo_operations_invert.
Invert(ops) ==
  [i \in DOMAIN ops |->
     LET o == ops[Len(ops) - i + 1]
     IN  CASE o.action = "create" -> [o EXCEPT !.action = "delete"]
           [] o.action = "delete" -> [o EXCEPT !.action = "create"]
           [] o.action = "update" -> [o EXCEPT !.value = o.prev, !.prev = o.value]]

\* Mutant: the records that the diff unsets are kept.
DiffVerifyKeeping(base, new, update) ==
  LET ops == Range(DiffOperations(Walk(base.data), Walk(new)))
      set == {o.value : o \in {p \in ops : p.action # "delete"}}
      was == Range(Nodes(base.data))
      is  == Range(Nodes(new))
  IN  IF ~(Reachable(new) \subseteq base.blocks \cup update) THEN [status |-> "not_found"]
      ELSE IF ~Collects(base.data) \/ ~Collects(new) THEN [status |-> "parse"]
      ELSE IF ~(set \subseteq update) THEN [status |-> "not_found"]
      ELSE [status |-> "ok", data |-> new, added |-> (is \ was) \cup set, removed |-> was \ is]

\* wf_repo_diff_verify of an update CAR with the given blocks: every block of
\* the new tree is at hand, and the records it sets come with the update.
DiffVerify(base, new, update) ==
  LET ops   == Range(DiffOperations(Walk(base.data), Walk(new)))
      set   == {o.value : o \in {p \in ops : p.action # "delete"}}
      unset == {o.prev : o \in {p \in ops : p.action # "create"}}
      was   == Range(Nodes(base.data))
      is    == Range(Nodes(new))
  IN  IF ~(Reachable(new) \subseteq base.blocks \cup update) THEN [status |-> "not_found"]
      ELSE IF ~Collects(base.data) \/ ~Collects(new) THEN [status |-> "parse"]
      ELSE IF ~(set \subseteq update) THEN [status |-> "not_found"]
      ELSE [status |-> "ok", data |-> new, added |-> (is \ was) \cup set,
            removed |-> (was \ is) \cup (unset \ Leaves(new))]

\* wf_repo_diff_apply: nothing changes unless the staged blocks are complete.
DiffApply(repo, diff) ==
  LET staged == (repo.blocks \ diff.removed) \cup diff.added
  IN  IF Reachable(diff.data) \subseteq staged
      THEN [data |-> diff.data, blocks |-> staged] ELSE repo

\* The update CARs that reach the mirror: the whole repository, what the
\* mirror is missing, or either with a block short (a CAR holds what one
\* commit added, and those of the commits before it may have been lost).
Updates ==
  LET whole == {Reachable(head), Reachable(head) \ mirror.blocks}
  IN  whole \cup {u \ {b} : u \in whole, b \in Reachable(head)}

\* wf_repo_import of the whole repository.
Import ==
  /\ mirror = NoMirror /\ head # NoTree
  /\ mirror' = [data |-> head, blocks |-> Reachable(head)]
  /\ UNCHANGED <<head, call, status>>

Sync ==
  /\ mirror # NoMirror
  /\ \E update \in Updates :
       LET diff == DiffVerify(mirror, head, update)
       IN  diff.status = "ok" /\ mirror' = DiffApply(mirror, diff)
  /\ UNCHANGED <<head, call, status>>

Next == \/ \E k \in Keys, v \in Values : CreateRecord(k, v) \/ UpdateRecord(k, v)
        \/ \E k \in Keys : DeleteRecord(k)
        \/ \E ws \in Batches : ApplyWrites(ws)
        \/ Import
        \/ Sync

Spec == Init /\ [][Next]_vars

-----------------------------------------------------------------------------
(* Properties.                                                             *)

\* Each call that makes commits (wf_repo_create_record, wf_repo_update_record,
\* wf_repo_delete_record, wf_repo_apply_writes) changes the records that a walk
\* of the tree finds exactly as the same call on a map would, and returns the
\* same status: a write puts its own value under its own key and disturbs no
\* other record, whatever nodes it splits, merges or raises; a batch takes
\* effect whole or, when one of its writes does not fit, not at all.
Map == INSTANCE RecordMap WITH records <- RecordsOf(head)
ImplementsMap == Map!Spec

\* Every record can be deleted: the two sides of a deleted key are never on
\* different layers, for which mst_merge_subtrees would fail the delete.
Deletable == \A k \in DOMAIN RecordsOf(head) : Delete(head, k).status = "ok"

\* The nodes of wf_repo_get_record_proof are enough to find the record, or to
\* find that there is none, without any other block, and the covering proof
\* of a range holds those of every record in it.
ProofsSuffice ==
  head # NoTree =>
  LET records == RecordsOf(head)
  IN  \A k \in Keys :
        /\ Find(Range(PathTo(head, k)), head, k) =
             IF k \in DOMAIN records THEN records[k] ELSE "not_found"
        /\ \A from, to \in Keys :
             k \in DOMAIN records /\ from <= k /\ k < to =>
               Range(PathTo(head, k)) \subseteq CoveringProof(head, from, to)

\* Whatever updates reach it, after any number of missed commits, repeated or
\* short of blocks, a mirror holds the blocks of one commit of the author: none
\* is missing and none of an older commit is left (wf_repo_diff_verify,
\* wf_repo_diff_apply).
MirrorExact == mirror # NoMirror => mirror.blocks = Reachable(mirror.data)

\* The operations of a diff, made in order, take the mirror's records to the
\* author's, and inverted they take them back.
DiffExact ==
  mirror # NoMirror =>
  LET ops == DiffOperations(Walk(mirror.data), Walk(head))
      was == RecordsOf(mirror.data)
      is  == RecordsOf(head)
  IN  /\ Map!Batch(was, ops) = [status |-> "ok", map |-> is]
      /\ Map!Batch(is, Invert(ops)) = [status |-> "ok", map |-> was]

\* The tree that holds given records, defined from the records alone.
RECURSIVE TreeAt(_, _)
TreeAt(records, layer) ==
  LET own == SetToSortSeq({k \in DOMAIN records : Layer[k] = layer}, <)
      Sub(i) == LET keys == {k \in DOMAIN records : Layer[k] < layer
                               /\ (i = 0 \/ own[i] < k) /\ (i = Len(own) \/ k < own[i + 1])}
                IN  IF keys = {} THEN NoTree ELSE TreeAt(Restrict(records, keys), layer - 1)
  IN  Node(Sub(0), [i \in DOMAIN own |-> Entry(own[i], records[own[i]], Sub(i))])
TreeOf(records) == TreeAt(records, Max({Layer[k] : k \in DOMAIN records} \cup {0}))

\* mst_delete_recursive, on linking an emptied child: "the MST shape is part of
\* the commit's data CID - so keeping the link would compute a different root
\* than every other implementation for identical data": a tree depends on its
\* records, and not on how they got there.
HistoryIndependent == head # NoTree => head = TreeOf(RecordsOf(head))
=============================================================================
