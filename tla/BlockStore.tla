------------------------------ MODULE BlockStore ------------------------------
(***************************************************************************)
(* The database as the indexer uses it (VMMongoStorage and the block and   *)
(* blockchain-information repositories): one header per height, the data   *)
(* that executing a block leaves at its height (transactions, contracts,   *)
(* state pointers), and the height of the block in progress.  The three    *)
(* survive a crash.                                                        *)
(***************************************************************************)
EXTENDS BitcoinNode

VARIABLES
    headers,         \* headers[h]: the block whose header is stored at h
    states,          \* states[h]: the blocks whose execution left data at h
    inProgressBlock  \* BlockchainInformation.inProgressBlock

storeVars == <<headers, states, inProgressBlock>>

\* saveBlockHeader updates the document of that height.
SaveBlockHeader(h, b) == headers' = [headers EXCEPT ![h] = b]

\* saveBlockStateChanges, saveTransactions: data are added at the height.
SaveBlockStates(h, b) == states' = [states EXCEPT ![h] = @ \cup {b}]

\* Mutants: the header of from stays; the data of the deleted blocks stay.
RevertOneTooFew(from) ==
    /\ headers' = [h \in Heights |-> IF h > from THEN NoBlock ELSE headers[h]]
    /\ states' = [h \in Heights |-> IF h >= from THEN {} ELSE states[h]]

RevertHeadersOnly(from) ==
    /\ headers' = [h \in Heights |-> IF h >= from THEN NoBlock ELSE headers[h]]
    /\ UNCHANGED states

\* revertDataUntilBlock(from): no table keeps anything at or above from.
RevertDataUntilBlock(from) ==
    /\ headers' = [h \in Heights |-> IF h >= from THEN NoBlock ELSE headers[h]]
    /\ states' = [h \in Heights |-> IF h >= from THEN {} ELSE states[h]]

(***************************************************************************)
(* revertDataUntilBlock in progress: the batches walk down from the top,   *)
(* and inside a batch the tables are deleted in parallel, so a crash finds *)
(* each table deleted from a height of its own upwards.                    *)
(***************************************************************************)
RevertDataBatch(from) ==
    \E low \in Heights, lowStates \in Heights :
        /\ low >= from /\ lowStates >= from
        /\ \E h \in Heights : \/ h >= low /\ headers[h] # NoBlock
                              \/ h >= lowStates /\ states[h] # {}
        /\ headers' = [h \in Heights |-> IF h >= low THEN NoBlock ELSE headers[h]]
        /\ states' = [h \in Heights |-> IF h >= lowStates THEN {} ELSE states[h]]

StoreTypeOK ==
    /\ headers \in [Heights -> Blocks \cup {NoBlock}]
    /\ states \in [Heights -> SUBSET Blocks]
    /\ inProgressBlock \in 0 .. MaxHeight + 1
=============================================================================
