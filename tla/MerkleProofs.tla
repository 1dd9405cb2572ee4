----------------------------- MODULE MerkleProofs -----------------------------
(***************************************************************************)
(* The Merkle trees of the Rust library, as the node uses them.  Hashes do *)
(* not collide: a root stands for the leaves below it, in order, and a     *)
(* proof for the tree it was taken from and the place of its leaf.         *)
(***************************************************************************)
EXTENDS Naturals, Sequences

(* The first leaf with these bytes. *)
GetIndexData(tree, leaf) ==
  CHOOSE i \in DOMAIN tree : tree[i] = leaf /\ \A j \in 1 .. i - 1 : tree[j] # leaf

GetProofHashes(tree, leaf) == [of |-> tree, at |-> GetIndexData(tree, leaf)]

(* A tree of one leaf has a proof without hashes. *)
EmptyProof(proof) == Len(proof.of) < 2

Verify(root, leaf, proof) == proof.of = root /\ proof.of[proof.at] = leaf
=============================================================================
