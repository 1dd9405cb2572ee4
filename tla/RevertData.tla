------------------------------ MODULE RevertData ------------------------------
(***************************************************************************)
(* VMMongoStorage.revertDataUntilBlock and revertBlockHeadersOnly: the     *)
(* purge that BlockStore takes as one step, batch by batch and table by    *)
(* table.  A table is the set of heights it holds rows for; the spent mark *)
(* of an output counts as a row of a table of its own, and an epoch as a   *)
(* row at its first block, since those are the columns the deletes look at.*)
(***************************************************************************)
EXTENDS Integers, FiniteSets

CONSTANTS
    MaxHeight,     \* bound: the greatest height with a row
    Tables,        \* the collections with a height column, "headers" included
    Witnesses,     \* the one revertBlockHeadersOnly deletes beside the headers
    Utxos,         \* the ones left alone when REINDEX_PURGE_UTXOS is false
    BatchSize,     \* REINDEX_BATCH_SIZE
    MaxFailures    \* bound: how many deletes may reject

Heights == 0 .. MaxHeight

ASSUME RevertDataAssumption ==
    /\ MaxHeight \in Nat /\ MaxFailures \in Nat
    /\ BatchSize \in Nat \ {0}
    /\ "headers" \in Tables /\ Witnesses \in Tables
    /\ Utxos \subseteq Tables \ {"headers"}

VARIABLES
    rows,             \* rows[t]: the heights for which table t has rows
    heightless,       \* which of the collections without a height hold anything
    inProgressBlock,  \* BlockchainInformation.inProgressBlock
    pc,               \* "idle", "orphans", "batch", "genesis" or "headers"
    blockId,          \* the argument of the call
    purged,           \* the tables the call deletes from
    edge,             \* the loop variable: to of a batch, from of a header batch
    upperBound,       \* as computed when the call began
    waiting,          \* the deletes of this pass that have not answered
    rejected,         \* whether one of them has rejected
    completed,        \* which call ended well last: "data", "headers" or "none"
    failures          \* what is left of the bound

vars == <<rows, heightless, inProgressBlock, pc, blockId, purged, edge, upperBound, waiting,
          rejected, completed, failures>>

-----------------------------------------------------------------------------
\* getLatestBlock: the height of the highest header, or other.
LatestBlock(other) ==
    IF rows["headers"] = {} THEN other
    ELSE CHOOSE h \in rows["headers"] : \A g \in rows["headers"] : g <= h

Greatest(x, y) == IF x > y THEN x ELSE y

\* The height up to which the batches have to go.
UpperBound(b) == Greatest(Greatest(LatestBlock(b), inProgressBlock), b)

\* Mutant: the last batch is not clamped to blockId.
BatchFromUnclamped(to, b) == to - BatchSize

\* The first height of the batch that ends below to.
BatchFrom(to, b) == IF to - BatchSize < b THEN b ELSE to - BatchSize

\* Mutant: the first pass leaves the rows of upperBound itself.
RangeAboveUpperBound ==
    CASE pc = "orphans" -> {h \in Heights : h > edge}
      [] pc = "batch"   -> {h \in Heights : BatchFrom(edge, blockId) <= h /\ h < edge}
      [] pc = "headers" -> {h \in Heights : edge <= h /\ h < edge + BatchSize}
      [] OTHER          -> {}

\* The heights the current pass deletes.
Range ==
    CASE pc = "orphans" -> {h \in Heights : h >= edge}
      [] pc = "batch"   -> {h \in Heights : BatchFrom(edge, blockId) <= h /\ h < edge}
      [] pc = "headers" -> {h \in Heights : edge <= h /\ h < edge + BatchSize}
      [] OTHER          -> {}

\* revertDataUntilBlock up to the first deletes, of what lies above upperBound;
\* the target epochs are deleted first.
RevertDataUntilBlock(b, purgeUtxos) ==
    /\ pc = "idle"
    /\ pc' = "orphans"
    /\ blockId' = b
    /\ purged' = IF purgeUtxos THEN Tables ELSE Tables \ Utxos
    /\ edge' = UpperBound(b) /\ upperBound' = UpperBound(b)
    /\ waiting' = purged'
    /\ rejected' = FALSE /\ completed' = "none"
    /\ heightless' = heightless \ {"targetEpochs"}
    /\ UNCHANGED <<rows, inProgressBlock, failures>>

\* revertBlockHeadersOnly up to its first deletes: the batches go upwards, up
\* to the latest header.
RevertBlockHeadersOnly(b) ==
    /\ pc = "idle"
    /\ LET upper == LatestBlock(b) IN
       IF b <= upper
       THEN pc' = "headers" /\ waiting' = {"headers", Witnesses} /\ completed' = "none"
       ELSE pc' = "idle" /\ waiting' = {} /\ completed' = "headers"
    /\ blockId' = b /\ edge' = b /\ upperBound' = LatestBlock(b)
    /\ purged' = {"headers", Witnesses}
    /\ rejected' = FALSE
    /\ UNCHANGED <<rows, heightless, inProgressBlock, failures>>

\* One of the deletes of the pass has answered.
Delete(t) ==
    /\ t \in waiting
    /\ rows' = [rows EXCEPT ![t] = @ \ Range]
    /\ waiting' = waiting \ {t}
    /\ UNCHANGED <<heightless, inProgressBlock, pc, blockId, purged, edge, upperBound, rejected,
                   completed, failures>>

\* It rejects, with any part of its rows deleted.
DeleteRejects(t) ==
    /\ t \in waiting
    /\ failures > 0
    /\ failures' = failures - 1
    /\ \E gone \in SUBSET (rows[t] \cap Range) :
         rows' = [rows EXCEPT ![t] = @ \ gone]
    /\ waiting' = waiting \ {t}
    /\ rejected' = TRUE
    /\ UNCHANGED <<heightless, inProgressBlock, pc, blockId, purged, edge, upperBound,
                   completed>>

\* Mutant: a last batch that is not a whole one is made again and again.
NextEdgeStuck ==
    CASE pc = "batch"   -> IF edge - BatchSize < blockId THEN edge ELSE edge - BatchSize
      [] pc = "headers" -> edge + BatchSize
      [] OTHER          -> edge

\* The loop variable of the next pass.
NextEdge ==
    CASE pc = "batch"   -> BatchFrom(edge, blockId)
      [] pc = "headers" -> edge + BatchSize
      [] OTHER          -> edge

\* Whether the loop goes on.
More(e) == IF pc = "headers" THEN e <= upperBound ELSE e > blockId

(***************************************************************************)
(* Promise.safeAll waits for every delete of the pass, then throws if one  *)
(* rejected; otherwise the next batch begins, or the call is over.         *)
(***************************************************************************)
EndPass ==
    /\ pc \in {"orphans", "batch", "headers"} /\ waiting = {}
    /\ \/ /\ rejected
          /\ pc' = "idle"
          /\ UNCHANGED <<waiting, edge, completed>>
       \/ /\ ~rejected /\ More(NextEdge)
          /\ pc' = IF pc = "orphans" THEN "batch" ELSE pc
          /\ waiting' = purged
          /\ edge' = NextEdge
          /\ UNCHANGED completed
       \/ /\ ~rejected /\ ~More(NextEdge)
          /\ edge' = NextEdge
          /\ IF pc # "headers" /\ blockId = 0
             THEN pc' = "genesis" /\ UNCHANGED completed
             ELSE /\ pc' = "idle"
                  /\ completed' = IF pc = "headers" THEN "headers" ELSE "data"
          /\ UNCHANGED waiting
    /\ UNCHANGED <<rows, heightless, inProgressBlock, blockId, purged, upperBound, rejected,
                   failures>>

\* A purge down to the genesis block ends with the mempool, and with the whole
\* UTXO table when it is purged.
PurgeMempool ==
    /\ pc = "genesis"
    /\ heightless' = heightless \ {"mempool"}
    /\ rows' = [t \in Tables |-> IF t \in Utxos \cap purged THEN {} ELSE rows[t]]
    /\ pc' = "idle" /\ completed' = "data"
    /\ UNCHANGED <<inProgressBlock, blockId, purged, edge, upperBound, waiting,
                   rejected, failures>>

\* The process dies or the connection is lost: the deletes that have not answered are not made.
Interrupted ==
    /\ pc # "idle"
    /\ failures > 0
    /\ failures' = failures - 1
    /\ pc' = "idle" /\ waiting' = {} /\ rejected' = FALSE
    /\ UNCHANGED <<rows, heightless, inProgressBlock, blockId, purged, edge, upperBound,
                   completed>>

-----------------------------------------------------------------------------
\* Every table has rows up to a height of its own, which the header of the
\* chain information need not be in step with.
Init ==
    /\ rows \in [Tables -> {0 .. n - 1 : n \in 0 .. MaxHeight + 1}]
    /\ heightless = {"targetEpochs", "mempool"}
    /\ inProgressBlock \in Heights
    /\ pc = "idle" /\ blockId = 0 /\ purged = {} /\ edge = 0 /\ upperBound = 0
    /\ waiting = {} /\ rejected = FALSE /\ completed = "none"
    /\ failures = MaxFailures

Begin ==
    \E b \in Heights :
        \/ \E purgeUtxos \in BOOLEAN : RevertDataUntilBlock(b, purgeUtxos)
        \/ RevertBlockHeadersOnly(b)

Pass == (\E t \in Tables : Delete(t)) \/ EndPass \/ PurgeMempool

Next == Begin \/ Pass \/ (\E t \in Tables : DeleteRejects(t)) \/ Interrupted

Spec == Init /\ [][Next]_vars

\* The database answers every delete and the event loop goes on.
FairSpec == Spec /\ WF_vars(Pass)

-----------------------------------------------------------------------------
TypeOK ==
    /\ rows \in [Tables -> SUBSET Heights]
    /\ heightless \subseteq {"targetEpochs", "mempool"}
    /\ inProgressBlock \in Heights
    /\ pc \in {"idle", "orphans", "batch", "genesis", "headers"}
    /\ blockId \in Heights /\ upperBound \in Heights
    /\ edge \in Nat
    /\ purged \subseteq Tables /\ waiting \subseteq purged
    /\ rejected \in BOOLEAN /\ completed \in {"none", "data", "headers"}
    /\ failures \in Nat

(***************************************************************************)
(* A call of revertDataUntilBlock that ends well leaves nothing at or      *)
(* above blockId in any table it purges, whatever the tables and the chain *)
(* information held, and whatever an earlier call that failed or died had  *)
(* left; one of revertBlockHeadersOnly leaves no header there.             *)
(***************************************************************************)
PurgeComplete ==
    /\ completed = "data" => \A t \in purged : \A h \in rows[t] : h < blockId
    /\ completed = "headers" => \A h \in rows["headers"] : h < blockId

(***************************************************************************)
(* The batches go through the tables in lockstep: once a batch begins, no  *)
(* table the call purges has a row at or above its upper end, so a call    *)
(* that stops half way leaves tables that disagree in one batch at most.   *)
(***************************************************************************)
Lockstep ==
    pc = "batch" => \A t \in purged : \A h \in rows[t] : h < edge

\* No delete of a call ever takes a row below the batch it is in, nor, then,
\* below blockId.
KeepsBelow ==
    [][\A t \in Tables : \A h \in rows[t] \ rows'[t] :
          /\ pc # "idle" /\ h >= blockId
          /\ pc = "batch" => h >= edge - BatchSize]_vars

\* A call ends, however far apart upperBound and blockId are.
CallEnds == (pc # "idle") ~> (pc = "idle")
=============================================================================
