-------------------------------- MODULE Mst ---------------------------------
(***************************************************************************)
(* The Merkle search tree of a repository (src/repo/mst.c): lookup, add,    *)
(* delete, traversal and proofs, as operators on trees.                     *)
(*                                                                          *)
(* A block's CID is a hash of its content, so a link is modelled by the     *)
(* node it leads to: two nodes with one CID are one value.  A key is a      *)
(* number in the order of wf_mst_key_cmp, and Layer gives the leading       *)
(* zeros of its hash.  As in the code a node does not carry its layer.      *)
(***************************************************************************)
EXTENDS Naturals, Sequences, SequencesExt

CONSTANTS Keys,     \* record keys, numbers
          Layer,    \* wf_mst_key_layer: [Keys -> Nat]
          NoTree    \* the CID of length zero: no subtree

ASSUME MstAssumption == Keys \subseteq Nat /\ Layer \in [Keys -> Nat]

Node(left, entries) == [left |-> left, entries |-> entries]
Entry(key, value, subtree) == [key |-> key, value |-> value, subtree |-> subtree]
EmptyNode == Node(NoTree, <<>>)

\* mst_load_node: a node's layer is that of its first key; a node without
\* leaves is one layer above its left child, and one without either at 0.
RECURSIVE LayerOf(_)
LayerOf(t) ==
  IF t.entries # <<>> THEN Layer[t.entries[1].key]
  ELSE IF t.left = NoTree THEN 0 ELSE LayerOf(t.left) + 1

\* mst_find_ge and the child it leads to: the number of keys below key, and
\* the subtree between that key and the next.
Below(t, key) == Len(SelectSeq(t.entries, LAMBDA e : e.key < key))
Holds(t, key) == \E e \in Range(t.entries) : e.key = key
Child(t, i)   == IF i = 0 THEN t.left ELSE t.entries[i].subtree
WithChild(t, i, c) ==
  IF i = 0 THEN [t EXCEPT !.left = c] ELSE [t EXCEPT !.entries[i].subtree = c]

-----------------------------------------------------------------------------
(* Writing a node.                                                         *)

\* wf_mst_node_finalize raises every child to one layer below the node;
\* mst_raise_subtree does so with structural nodes, each finalized in turn.
RECURSIVE Finalize(_, _), Raise(_, _, _)

\* Mutant: a child is linked as it is.
FinalizeBare(layer, t) == t

Finalize(layer, t) ==
  LET own     == IF t.entries # <<>> THEN Layer[t.entries[1].key] ELSE layer
      Norm(c) == IF c = NoTree THEN c ELSE Raise(c, LayerOf(c), own)
  IN  Node(Norm(t.left),
           [i \in DOMAIN t.entries |-> [t.entries[i] EXCEPT !.subtree = Norm(@)]])
Raise(t, childLayer, parentLayer) ==
  IF t = NoTree \/ childLayer + 1 >= parentLayer THEN t
  ELSE Raise(Finalize(childLayer + 1, Node(t, <<>>)), childLayer + 1, parentLayer)

\* mst_raise_to_layer.
RaiseTo(t, layer) == IF t = NoTree THEN t ELSE Raise(t, LayerOf(t), layer)

\* mst_collect_items: the left tree, then each leaf and the tree behind it.
TreeItem(t) == [leaf |-> FALSE, tree |-> t]
LeafItem(e) == [leaf |-> TRUE, key |-> e.key, value |-> e.value]
Items(t) ==
  LET Opt(c) == IF c = NoTree THEN <<>> ELSE <<TreeItem(c)>>
  IN  Opt(t.left) \o FlattenSeq([i \in DOMAIN t.entries |->
                                  <<LeafItem(t.entries[i])>> \o Opt(t.entries[i].subtree)])

\* mst_build_from_items, on a slice of such a list: two trees are never
\* neighbours, so a slice without leaves is a single tree.
BuildFromItems(layer, items) ==
  LET leaves == SelectSeq([i \in DOMAIN items |-> i], LAMBDA i : items[i].leaf)
      TreeAt(i) == IF i \in DOMAIN items /\ ~items[i].leaf THEN items[i].tree ELSE NoTree
  IN  IF items = <<>> THEN NoTree
      ELSE Finalize(layer, Node(TreeAt(1), [j \in DOMAIN leaves |->
             Entry(items[leaves[j]].key, items[leaves[j]].value, TreeAt(leaves[j] + 1))]))

\* mst_split_around: the part of a tree below key and the part above it.
RECURSIVE SplitAround(_, _)
SplitAround(t, key) ==
  LET items  == Items(t)
      layer  == LayerOf(t)
      index  == SelectInSeq(items, LAMBDA i : i.leaf /\ key <= i.key)
      cut    == IF index = 0 THEN Len(items) ELSE index - 1
      before == SubSeq(items, 1, cut)
      after  == SubSeq(items, cut + 1, Len(items))
      Opt(c) == IF c = NoTree THEN <<>> ELSE <<TreeItem(c)>>
  IN  IF before # <<>> /\ ~Last(before).leaf
      THEN LET sub == SplitAround(Last(before).tree, key)
           IN  <<BuildFromItems(layer, Front(before) \o Opt(sub[1])),
                 BuildFromItems(layer, Opt(sub[2]) \o after)>>
      ELSE <<BuildFromItems(layer, before), BuildFromItems(layer, after)>>

-----------------------------------------------------------------------------
(* wf_mst_add.                                                             *)

\* mst_add_at_layer: a key already there keeps its value.
AddAtLayer(t, key, value) ==
  LET i     == Below(t, key)
      layer == LayerOf(t)
      split == IF Child(t, i) = NoTree THEN <<NoTree, NoTree>> ELSE SplitAround(Child(t, i), key)
      lower == RaiseTo(split[1], layer)
      upper == RaiseTo(split[2], layer)
      grown == WithChild(t, i, lower)
  IN  IF Holds(t, key) THEN t
      ELSE Finalize(layer, [grown EXCEPT !.entries = InsertAt(@, i + 1, Entry(key, value, upper))])

\* mst_add_at_higher_layer: both halves are raised below a new root.
AddAtHigherLayer(t, key, value) ==
  LET split == SplitAround(t, key)
  IN  Finalize(Layer[key], Node(RaiseTo(split[1], Layer[key]),
                                <<Entry(key, value, RaiseTo(split[2], Layer[key]))>>))

RECURSIVE Add(_, _, _)
\* mst_add_at_lower_layer: the child that should hold the key, or a new one.
AddAtLowerLayer(t, key, value) ==
  LET i     == Below(t, key)
      child == Add(Child(t, i), key, value)
  IN  Finalize(LayerOf(t), WithChild(t, i, RaiseTo(child, LayerOf(t))))
Add(t, key, value) ==
  IF t = NoTree THEN Finalize(Layer[key], Node(NoTree, <<Entry(key, value, NoTree)>>))
  ELSE IF Layer[key] = LayerOf(t) THEN AddAtLayer(t, key, value)
  ELSE IF Layer[key] > LayerOf(t) THEN AddAtHigherLayer(t, key, value)
  ELSE AddAtLowerLayer(t, key, value)

-----------------------------------------------------------------------------
(* wf_mst_delete.                                                          *)

Ok(t)     == [status |-> "ok", tree |-> t]
Fail(why) == [status |-> why, tree |-> NoTree]

\* mst_merge_subtrees joins two neighbours, which have to be on one layer.
RECURSIVE Merge(_, _)
Merge(a, b) ==
  IF a = NoTree \/ a = EmptyNode THEN Ok(b)
  ELSE IF b = NoTree \/ b = EmptyNode THEN Ok(a)
  ELSE IF \/ LayerOf(a) # LayerOf(b)
          \/ a.entries # <<>> /\ b.entries # <<>> /\ Last(a.entries).key >= b.entries[1].key
       THEN Fail("parse")
  ELSE LET n     == Len(a.entries)
           inner == Merge(Child(a, n), b.left)
           both  == WithChild(a, n, inner.tree)
       IN  IF inner.status # "ok" THEN inner
           ELSE Ok(Finalize(LayerOf(a), Node(both.left, both.entries \o b.entries)))

\* mst_delete_at_layer: the key goes and the trees on its sides are joined.
DeleteAtLayer(t, key) ==
  LET i      == Below(t, key)
      merged == Merge(Child(t, i), t.entries[i + 1].subtree)
      rest   == WithChild([t EXCEPT !.entries = RemoveAt(@, i + 1)], i, merged.tree)
  IN  IF merged.status # "ok" \/ Len(t.entries) = 1 THEN merged
      ELSE Ok(Finalize(LayerOf(t), rest))

\* mst_delete_recursive.  An emptied child is unlinked only by a node on the
\* key's own layer that does not hold the key, and below such a node the key
\* is not found.
RECURSIVE DeleteRecursive(_, _)
DeleteRecursive(t, key) ==
  LET i     == Below(t, key)
      layer == LayerOf(t)
      inner == DeleteRecursive(Child(t, i), key)
      kept  == IF Layer[key] = layer /\ inner.tree = EmptyNode THEN NoTree ELSE inner.tree
  IN  IF Layer[key] = layer /\ Holds(t, key) THEN DeleteAtLayer(t, key)
      ELSE IF Layer[key] > layer \/ Child(t, i) = NoTree THEN Fail("not_found")
      ELSE IF inner.status # "ok" THEN inner
      ELSE Ok(Finalize(layer, WithChild(t, i, kept)))

\* The end of wf_mst_delete: a root without leaves gives way to its child.
RECURSIVE Trim(_)
Trim(t) == IF t # NoTree /\ t.entries = <<>> THEN Trim(t.left) ELSE t

Delete(t, key) ==
  IF t = NoTree THEN Fail("not_found")
  ELSE LET r == DeleteRecursive(t, key)
       IN  IF r.status = "ok" THEN Ok(Trim(r.tree)) ELSE r

-----------------------------------------------------------------------------
(* Lookup, traversal and proofs.                                           *)

\* wf_mst_cids_for_path: the nodes from the root to where the key belongs.
RECURSIVE PathTo(_, _)
\* Mutant: the node that shows that a key is absent is left out.
PathToShort(t, key) ==
  IF t = NoTree THEN <<>>
  ELSE IF Holds(t, key) THEN <<t>>
  ELSE IF Child(t, Below(t, key)) = NoTree THEN <<>>
  ELSE <<t>> \o PathTo(Child(t, Below(t, key)), key)
PathTo(t, key) ==
  IF t = NoTree THEN <<>>
  ELSE IF Holds(t, key) THEN <<t>>
  ELSE <<t>> \o PathTo(Child(t, Below(t, key)), key)

\* wf_mst_find over a CAR with the given blocks: the value, "not_found", or
\* "parse" when a block on the way is missing.
RECURSIVE Find(_, _, _)
Find(blocks, t, key) ==
  IF t \notin blocks THEN "parse"
  ELSE IF Holds(t, key) THEN (CHOOSE e \in Range(t.entries) : e.key = key).value
  ELSE LET c == Child(t, Below(t, key))
       IN  IF c = NoTree THEN "not_found" ELSE Find(blocks, c, key)

\* mst_walk_node: the leaves in the order of the walk.
RECURSIVE Walk(_)
Walk(t) ==
  IF t = NoTree THEN <<>>
  ELSE Walk(t.left) \o FlattenSeq([i \in DOMAIN t.entries |->
         <<[key |-> t.entries[i].key, value |-> t.entries[i].value]>>
           \o Walk(t.entries[i].subtree)])

\* The nodes in the order in which repo_collect_mst enters them.
RECURSIVE Nodes(_)
Nodes(t) ==
  IF t = NoTree THEN <<>>
  ELSE <<t>> \o Nodes(t.left)
         \o FlattenSeq([i \in DOMAIN t.entries |-> Nodes(t.entries[i].subtree)])

\* mst_count_in_range: whether there is a leaf in [from, to).
InRange(t, from, to) == \E l \in Range(Walk(t)) : from <= l.key /\ l.key < to

\* wf_mst_get_covering_proof: the nodes above such a leaf.
CoveringProof(t, from, to) == {n \in Range(Nodes(t)) : InRange(n, from, to)}
=============================================================================
