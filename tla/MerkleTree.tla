----------------------------- MODULE MerkleTree -----------------------------
(***************************************************************************)
(* The Merkle tree over the shards of a value                              *)
(* (ayatori-rbc/src/merkle_tree.rs).  A hash is free of collisions: the    *)
(* hash of an input is the input itself, with the name of the constructor  *)
(* that made it, which stands for the lengths and tags of the hashed text. *)
(* Positions in the list of nodes start with 0, as in the code.            *)
(***************************************************************************)
EXTENDS Integers, Sequences

FromValue(value) == <<"value", value>>

Padding == <<"padding">>

FromNodes(left, right) == <<"node", left, right>>

(* The number of levels of a tree with `count` items, the leaves included. *)
Levels(count) == 1 + CHOOSE l \in 0 .. count :
                       /\ 2^l >= count
                       /\ \A m \in 0 .. l - 1 : 2^m < count

(* The start of a level in the list of nodes. *)
LevelOffset(levels, level) == 2^(levels - level) * (2^level - 1)

Leaf(items, pos) == IF pos < Len(items) THEN FromValue(items[pos + 1]) ELSE Padding

(* The list of nodes: the leaves, and then level after level. *)
Nodes(items, levels) ==
  LET Offset(level) == LevelOffset(levels, level)
      LevelOf(pos) == CHOOSE level \in 0 .. levels - 1 :
                        pos \in Offset(level) .. Offset(level + 1) - 1
      Below(pos) == Offset(LevelOf(pos) - 1) + 2 * (pos - Offset(LevelOf(pos)))
      nodes[pos \in 0 .. Offset(levels) - 1] ==
        IF LevelOf(pos) = 0
          THEN Leaf(items, pos)
          ELSE FromNodes(nodes[Below(pos)], nodes[Below(pos) + 1])
  IN nodes

(* MerkleTree::new() for a non-empty sequence of items. *)
NewTree(items) ==
  LET levels == Levels(Len(items))
  IN [levels |-> levels, nodes |-> Nodes(items, levels)]

Root(tree) == tree.nodes[LevelOffset(tree.levels, tree.levels) - 1]

Sibling(idx) == IF idx % 2 = 0 THEN idx + 1 ELSE idx - 1

(* Mutation: the siblings are those of the leaf level. *)
BranchFlat(tree, idx) ==
  [nodes |-> [l \in 1 .. tree.levels - 1 |->
                tree.nodes[LevelOffset(tree.levels, l - 1)
                           + (Sibling(idx) \div 2^(l - 1))]],
   root |-> Root(tree)]

Branch(tree, idx) ==
  [nodes |-> [l \in 1 .. tree.levels - 1 |->
                tree.nodes[LevelOffset(tree.levels, l - 1)
                           + Sibling(idx \div 2^(l - 1))]],
   root |-> Root(tree)]

(* What the loop of verify() has computed after each of its levels. *)
Climb(branch, idx, value) ==
  LET up[l \in 0 .. Len(branch.nodes)] ==
        IF l = 0
          THEN FromValue(value)
          ELSE IF (idx \div 2^(l - 1)) % 2 = 0
                 THEN FromNodes(up[l - 1], branch.nodes[l])
                 ELSE FromNodes(branch.nodes[l], up[l - 1])
  IN up

(* MerkleBranch::verify(): the bits of the index that lie above the levels *)
(* of the branch play no part.                                             *)
Verify(branch, idx, value) ==
  Climb(branch, idx, value)[Len(branch.nodes)] = branch.root
=============================================================================
