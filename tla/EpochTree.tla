------------------------------ MODULE EpochTree -------------------------------
(***************************************************************************)
(* EpochMerkleTree: the data of an epoch and the attestations of its       *)
(* blocks by witnesses, under one root.  The hash of the epoch covers its  *)
(* data only: nodes that know of different witnesses agree on the hash and *)
(* not on the root.                                                        *)
(***************************************************************************)
EXTENDS MerkleProofs, FiniteSets
LOCAL INSTANCE SequencesExt

EpochLeaf(number, data) == [epoch |-> number, data |-> data]

AttestationLeaf(type, at, key, time, root) ==
    [type |-> type, at |-> at, key |-> key, time |-> time, root |-> root]

\* witnessToAttestation: the checksum root is this node's, not the witness's.
WitnessToAttestation(w, root) == AttestationLeaf("witness", w.at, w.key, w.time, root)

\* addDummyAttestations.
DummyAttestations(start, end, zero) ==
    {AttestationLeaf("empty", start, 0, 0, zero), AttestationLeaf("empty", end - 1, 0, 1, zero)}

\* The latest first; those of one time by block, as they are added.
Precedes(a, b) ==
    \/ a.time > b.time
    \/ a.time = b.time /\ (a.at < b.at \/ (a.at = b.at /\ a.key < b.key))

GenerateTree(leaf, attestations, dummies) ==
    LET all == attestations \cup IF Cardinality(attestations) < 2 THEN dummies ELSE {}
    IN  <<leaf>> \o SetToSortSeq(all, Precedes)

\* EpochMerkleTree.verify of the epoch's data, and verifyAttestation.
VerifyEpochData(tree, leaf, proof) == ~EmptyProof(proof) /\ Verify(tree, leaf, proof)
VerifyAttestation(tree, attestation, proof) ==
    ~EmptyProof(proof) /\ Verify(tree, attestation, proof)
=============================================================================
