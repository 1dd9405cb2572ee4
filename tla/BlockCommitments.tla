--------------------------- MODULE BlockCommitments ---------------------------
(***************************************************************************)
(* What a block commits to: the tree of the slots it changed, the tree of  *)
(* its receipts, and the checksum tree of its header, which holds both     *)
(* roots, the hashes of the block and the checksum of the block before.    *)
(*                                                                         *)
(* Maps keep the order of insertion, which the block alone determines; the *)
(* model uses one fixed order of the keys.                                 *)
(***************************************************************************)
EXTENDS MerkleProofs, FiniteSets, TLC
LOCAL INSTANCE FiniteSetsExt

ZeroHash == <<>>

(* The elements of a set in one fixed order. *)
InOrder(S) == FoldSet(LAMBDA x, seq : Append(seq, x), <<>>, S)

-----------------------------------------------------------------------------
(* StateMerkleTree: a leaf is a pointer and its value, without the         *)
(* contract; a tree of fewer than two is filled up with two dummies.       *)

(* The slots a transaction changed replace those of the block. *)
UpdateValues(state, changed) == changed @@ state

StateLeaf(state, k) == <<k[2], state[k]>>
GetDummyValues == <<<<1, 1>>, <<2, 2>>>>

GetStateValues(state) ==
  LET keys == InOrder(DOMAIN state)
  IN  [i \in DOMAIN keys |-> StateLeaf(state, keys[i])]

Freeze(leaves) == IF Len(leaves) < 2 THEN leaves \o GetDummyValues ELSE leaves

StateTree(state) == Freeze(GetStateValues(state))

(* What is stored with every slot; a proof without hashes is an error. *)
GetEverythingWithProofs(state, tree) ==
  [k \in DOMAIN state |-> GetProofHashes(tree, StateLeaf(state, k))]
ProofsFound(proofs) == \A k \in DOMAIN proofs : ~EmptyProof(proofs[k])

-----------------------------------------------------------------------------
(* ReceiptMerkleTree: a leaf is a transaction and its result.  Two ids no  *)
(* transaction has stand for the checksum of the block before and for the  *)
(* version.                                                                *)

MaxHash == 1000
MaxMinusOne == 999

UpdateValue(receipts, id, result) == (id :> result) @@ receipts

ReceiptLeaf(receipts, id) == <<id, receipts[id]>>

GetReceiptValues(receipts) ==
  LET ids == InOrder(DOMAIN receipts)
  IN  [i \in DOMAIN ids |-> ReceiptLeaf(receipts, ids[i])]

ReceiptTree(receipts, lastChecksum) ==
  GetReceiptValues(receipts) \o <<<<MaxHash, lastChecksum>>, <<MaxMinusOne, 1>>>>

GetReceiptProofs(receipts, tree) ==
  [id \in DOMAIN receipts |-> GetProofHashes(tree, ReceiptLeaf(receipts, id))]

-----------------------------------------------------------------------------
(* ChecksumMerkle: the six leaves of a header, each with its number.       *)

ChecksumLeaves(hdr) ==
  <<<<0, hdr.prevHash>>, <<1, hdr.prevChecksum>>, <<2, hdr.hash>>,
    <<3, hdr.merkleRoot>>, <<4, hdr.storageRoot>>, <<5, hdr.receiptRoot>>>>

ChecksumProofs(tree) == [i \in 1 .. Len(tree) |-> GetProofHashes(tree, tree[i])]

SetBlockData(hdr) == [hdr EXCEPT !.checksum = ChecksumLeaves(hdr),
                                 !.proofs = ChecksumProofs(ChecksumLeaves(hdr))]

BlockHeaderDocument(prevHash, hash, merkleRoot, prevChecksum, storage, receipts) ==
  SetBlockData([prevHash |-> prevHash, hash |-> hash, merkleRoot |-> merkleRoot,
                prevChecksum |-> prevChecksum, storageRoot |-> storage,
                receiptRoot |-> receipts, checksum |-> ZeroHash, proofs |-> <<>>])

(* The checksum of the stored header before is the one the header names,   *)
(* and its own six values are the leaves of its checksum.                  *)
ValidateBlockChecksum(hdr, previousChecksum) ==
  /\ hdr.prevChecksum = previousChecksum
  /\ \A i \in 1 .. 6 : Verify(hdr.checksum, ChecksumLeaves(hdr)[i], hdr.proofs[i])
=============================================================================
