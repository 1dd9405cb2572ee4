------------------------------- MODULE UtxoSync -------------------------------
(***************************************************************************)
(* The synchronisation workers (ChainSynchronisation): the indexer asks    *)
(* them for blocks in turn, each keeps the outputs of the blocks it has    *)
(* downloaded in memory and writes them to the UTXO table later, and a     *)
(* CHAIN_REORG message has to stop what is under way before the indexer    *)
(* purges the table.  The outputs of a block are all written or none are:  *)
(* a block stands for them.  The indexer is reduced to what the workers    *)
(* see of it: requests, tasks given up, reverts.                           *)
(***************************************************************************)
EXTENDS BitcoinNode

CONSTANTS
    Workers,        \* the number of synchronisation threads
    SaveMargin,     \* 3: how close to the tip a block is saved when it arrives
    QueueLimit,     \* AWAIT_UTXO_WRITE_IF_QUEUE_SIZE, in blocks
    MaxFetches,     \* bound: how many blocks are being downloaded at a time
    MaxReorgs,      \* bound: how many times the Bitcoin node switches chain
    MaxReverts,     \* bound: how often the indexer reverts
    MaxFaults       \* bound: how many writes, downloads or answers may fail

ASSUME UtxoSyncAssumption ==
    /\ Workers \in Nat \ {0} /\ SaveMargin \in Nat /\ QueueLimit \in Nat
    /\ MaxFetches \in Nat /\ MaxReorgs \in Nat /\ MaxReverts \in Nat
    /\ MaxFaults \in Nat

Threads == 0 .. Workers - 1

VARIABLES
    nextHeight,     \* indexer: the height to ask for next
    turn,           \* indexer: the worker to ask next
    answered,       \* indexer: the block it was given for a height
    broken,         \* indexer: the heights it was given an error for
    revert,         \* indexer: the revertChain in progress
    fetches,        \* workers: the queryBlock calls under way
    lastBlockHash,  \* worker: BlockFetcher.lastBlockHash
    queue,          \* worker: unspentTransactionOutputs
    saving,         \* worker: the utxoBatch being written
    pendingSave,    \* worker: whether pendingSave is set
    loopWaits,      \* worker: whether startSaveLoop waits for a write
    bestTip,        \* worker: the last height asked for
    currentBlock,   \* worker: the height of the Bitcoin node, when last looked at
    db,             \* the blocks whose outputs are in the UTXO table
    stale,          \* history: outputs that appeared behind a revert's back
    lost,           \* history: the blocks a failed write dropped
    revertBudget, faults  \* what is left of the bounds

nodeVars == <<chain, reorgBudget>>
indexerVars == <<nextHeight, turn, answered, broken, revert>>
memoryVars == <<queue, saving, pendingSave>>
loopVars == <<loopWaits, currentBlock>>
historyVars == <<stale, lost>>
boundVars == <<revertBudget, faults>>
vars == <<nodeVars, indexerVars, fetches, lastBlockHash, memoryVars, loopVars,
          bestTip, db, historyVars, boundVars>>

\* header.height of a block.
HeightOf(b) == CHOOSE h \in Heights : \E c \in Chains : c.at[h] = b

Below(set, from) == {b \in set : HeightOf(b) < from}

\* told: the workers whose handler has not begun; waiting: those whose handler
\* waits for a write.
Revert == [active : BOOLEAN, from : Heights, told : SUBSET Threads,
           waiting : SUBSET Threads]
NoRevert == [active |-> FALSE, from |-> 0, told |-> {}, waiting |-> {}]

\* A download: block is known once the hash is; live, whether its task still
\* wants the answer.
Fetch == [thread : Threads, height : Heights, block : Blocks \cup {NoBlock},
          live : BOOLEAN]

-----------------------------------------------------------------------------
(* Downloads *)

\* DESERIALIZE_BLOCK, sent by the prefetch of a task, and the start of
\* queryBlock; the workers are asked one after the other.
DeserializeBlock ==
    /\ ~revert.active /\ broken = {}
    /\ nextHeight <= chain.top
    /\ Cardinality(fetches) < MaxFetches
    /\ fetches' = fetches \cup {[thread |-> turn, height |-> nextHeight,
                                 block |-> NoBlock, live |-> TRUE]}
    /\ bestTip' = [bestTip EXCEPT ![turn] = nextHeight]
    /\ turn' = (turn + 1) % Workers
    /\ nextHeight' = nextHeight + 1
    /\ UNCHANGED <<nodeVars, answered, broken, revert, lastBlockHash, memoryVars,
                   loopVars, db, historyVars, boundVars>>

\* A download ends with an error; its task, if any, tells the indexer.
Reject(f) ==
    /\ fetches' = fetches \ {f}
    /\ broken' = IF f.live THEN broken \cup {f.height} ELSE broken
    /\ UNCHANGED <<nodeVars, nextHeight, turn, answered, revert, lastBlockHash,
                   memoryVars, loopVars, bestTip, db, historyVars, revertBudget>>

\* getBlockHash has answered.  The download itself is by hash, so from here on
\* the block may leave the best chain.
GetBlockHash(f) ==
    /\ f.block = NoBlock
    /\ \/ /\ BlockHash(f.height) # NoBlock
          /\ fetches' = (fetches \ {f})
                        \cup {[f EXCEPT !.block = BlockHash(f.height)]}
          /\ UNCHANGED <<nodeVars, indexerVars, lastBlockHash, memoryVars, loopVars,
                         bestTip, db, historyVars, boundVars>>
       \/ /\ BlockHash(f.height) = NoBlock
          /\ Reject(f) /\ UNCHANGED faults

\* The RPC calls of a download keep failing.
DownloadFails(f) ==
    /\ faults > 0 /\ faults' = faults - 1
    /\ Reject(f)

NearTip(t, height) == bestTip[t] > height - SaveMargin

CanSaveAfterBlock(t) == NearTip(t, currentBlock[t])

(***************************************************************************)
(* saveUTXOs, with q in memory: one write at a time.  A caller that finds  *)
(* one under way waits for it and leaves q where it is.                    *)
(***************************************************************************)
SaveUTXOs(t, q) ==
    IF pendingSave[t]
    THEN queue' = [queue EXCEPT ![t] = q] /\ UNCHANGED <<saving, pendingSave>>
    ELSE /\ saving' = [saving EXCEPT ![t] = q]
         /\ queue' = [queue EXCEPT ![t] = {}]
         /\ pendingSave' = [pendingSave EXCEPT ![t] = TRUE]

(***************************************************************************)
(* getBlock has answered.  The block this worker fetched last is an error; *)
(* another is queued, but for the genesis block, whether or not a task     *)
(* still wants it, and is saved on the next tick when the chain is nearly  *)
(* indexed or the queue is long.                                           *)
(***************************************************************************)
QueryUTXOs(f) ==
    LET t == f.thread
        q == queue[t] \cup (IF f.height = 0 THEN {} ELSE {f.block})
    IN  /\ f.block # NoBlock /\ lastBlockHash[t] # f.block
        /\ lastBlockHash' = [lastBlockHash EXCEPT ![t] = f.block]
        /\ fetches' = fetches \ {f}
        /\ IF CanSaveAfterBlock(t) \/ Cardinality(q) > QueueLimit
           THEN SaveUTXOs(t, q)
           ELSE queue' = [queue EXCEPT ![t] = q] /\ UNCHANGED <<saving, pendingSave>>
        /\ answered' = IF f.live THEN [answered EXCEPT ![f.height] = f.block]
                       ELSE answered
        /\ stale' = IF f.live THEN stale ELSE stale \cup {f.block}
        /\ UNCHANGED <<nodeVars, nextHeight, turn, broken, revert, loopVars, bestTip,
                       db, lost, boundVars>>

FetchedTwice(f) ==
    /\ f.block # NoBlock /\ lastBlockHash[f.thread] = f.block
    /\ Reject(f) /\ UNCHANGED faults

-----------------------------------------------------------------------------
(* Writes *)

\* startSaveLoop, run again after UTXO_SAVE_INTERVAL.
StartSaveLoop(t) ==
    /\ ~loopWaits[t]
    /\ currentBlock' = [currentBlock EXCEPT ![t] = BlockCount]
    /\ IF queue[t] # {} /\ ~NearTip(t, BlockCount)
       THEN /\ SaveUTXOs(t, queue[t])
            /\ loopWaits' = [loopWaits EXCEPT ![t] = TRUE]
       ELSE UNCHANGED <<memoryVars, loopWaits>>
    /\ UNCHANGED <<nodeVars, indexerVars, fetches, lastBlockHash, bestTip, db,
                   historyVars, boundVars>>

\* Mutant: pendingSave is not reset.
SaveEndsStillPending(t) ==
    /\ pendingSave[t]
    /\ saving' = [saving EXCEPT ![t] = {}]
    /\ loopWaits' = [loopWaits EXCEPT ![t] = FALSE]
    /\ UNCHANGED <<nodeVars, indexerVars, fetches, lastBlockHash, queue, pendingSave,
                   currentBlock, bestTip, stale, revertBudget>>

\* The write is over; whoever waits for it goes on.
SaveEnds(t) ==
    /\ pendingSave[t]
    /\ pendingSave' = [pendingSave EXCEPT ![t] = FALSE]
    /\ saving' = [saving EXCEPT ![t] = {}]
    /\ loopWaits' = [loopWaits EXCEPT ![t] = FALSE]
    /\ UNCHANGED <<nodeVars, indexerVars, fetches, lastBlockHash, queue,
                   currentBlock, bestTip, stale, revertBudget>>

\* insertTransactions has ended well.
Saved(t) ==
    /\ SaveEnds(t)
    /\ db' = db \cup saving[t]
    /\ UNCHANGED <<lost, faults>>

\* It has failed; the error is logged and the batch is gone.
SaveFails(t) ==
    /\ faults > 0 /\ faults' = faults - 1
    /\ SaveEnds(t)
    /\ \E written \in SUBSET saving[t] :
         /\ db' = db \cup written
         /\ lost' = lost \cup (saving[t] \ written)

-----------------------------------------------------------------------------
(* Reverts *)

\* stopAllTasks and notifyThreadReorg of BlockIndexer.revertChain: everything
\* below from has been given to the indexer.
NotifyThreadReorg(from) ==
    /\ ~revert.active
    /\ revertBudget > 0 /\ revertBudget' = revertBudget - 1
    /\ \A h \in 0 .. from - 1 : answered[h] # NoBlock
    /\ \A h \in broken : from <= h
    /\ revert' = [active |-> TRUE, from |-> from, told |-> Threads, waiting |-> {}]
    /\ fetches' = {[f EXCEPT !.live = FALSE] : f \in fetches}
    /\ answered' = [h \in Heights |-> IF h < from THEN answered[h] ELSE NoBlock]
    /\ broken' = {}
    /\ UNCHANGED <<nodeVars, nextHeight, turn, lastBlockHash, memoryVars, loopVars,
                   bestTip, db, historyVars, faults>>

\* Mutant: the write under way is not waited for.
OnReorgWithoutWaiting(t) ==
    /\ t \in revert.told
    /\ lastBlockHash' = [lastBlockHash EXCEPT ![t] = NoBlock]
    /\ queue' = [queue EXCEPT ![t] = Below(@, revert.from)]
    /\ revert' = [revert EXCEPT !.told = @ \ {t}]
    /\ UNCHANGED <<nodeVars, nextHeight, turn, answered, broken, fetches, saving,
                   pendingSave, loopVars, bestTip, db, historyVars, boundVars>>

\* onReorg up to its wait: the queue is filtered, the downloads go on.
OnReorg(t) ==
    /\ t \in revert.told
    /\ lastBlockHash' = [lastBlockHash EXCEPT ![t] = NoBlock]
    /\ queue' = [queue EXCEPT ![t] = Below(@, revert.from)]
    /\ revert' = [revert EXCEPT !.told = @ \ {t},
                                !.waiting = IF pendingSave[t] THEN @ \cup {t} ELSE @]
    /\ UNCHANGED <<nodeVars, nextHeight, turn, answered, broken, fetches, saving,
                   pendingSave, loopVars, bestTip, db, historyVars, boundVars>>

\* awaitUTXOWrites finds no write under way and the worker answers.
AwaitUTXOWrites(t) ==
    /\ t \in revert.waiting /\ ~pendingSave[t]
    /\ revert' = [revert EXCEPT !.waiting = @ \ {t}]
    /\ UNCHANGED <<nodeVars, nextHeight, turn, answered, broken, fetches,
                   lastBlockHash, memoryVars, loopVars, bestTip, db, historyVars,
                   boundVars>>

\* The write takes longer than the 240 seconds sendMessage waits: the indexer
\* goes on as if the worker had answered.
ReorgTimesOut(t) ==
    /\ faults > 0 /\ faults' = faults - 1
    /\ t \in revert.waiting /\ pendingSave[t]
    /\ revert' = [revert EXCEPT !.waiting = @ \ {t}]
    /\ stale' = stale \cup saving[t]
    /\ UNCHANGED <<nodeVars, nextHeight, turn, answered, broken, fetches,
                   lastBlockHash, memoryVars, loopVars, bestTip, db, lost,
                   revertBudget>>

\* All have answered: the table is purged and the indexer starts again at from.
RevertDataUntilBlock ==
    /\ revert.active /\ revert.told = {} /\ revert.waiting = {}
    /\ db' = Below(db, revert.from)
    /\ nextHeight' = revert.from
    /\ revert' = NoRevert
    /\ UNCHANGED <<nodeVars, turn, answered, broken, fetches, lastBlockHash,
                   memoryVars, loopVars, bestTip, historyVars, boundVars>>

BitcoinStep ==
    /\ SwitchChain
    /\ UNCHANGED <<indexerVars, fetches, lastBlockHash, memoryVars, loopVars, bestTip,
                   db, historyVars, boundVars>>

-----------------------------------------------------------------------------
Init ==
    /\ chain \in FirstChains /\ reorgBudget = MaxReorgs
    /\ nextHeight = 0 /\ turn = 0 /\ broken = {} /\ revert = NoRevert
    /\ answered = [h \in Heights |-> NoBlock]
    /\ fetches = {}
    /\ lastBlockHash = [t \in Threads |-> NoBlock]
    /\ queue = [t \in Threads |-> {}] /\ saving = [t \in Threads |-> {}]
    /\ pendingSave = [t \in Threads |-> FALSE]
    /\ loopWaits = [t \in Threads |-> FALSE]
    /\ bestTip = [t \in Threads |-> 0]
    /\ currentBlock = [t \in Threads |-> chain.top]
    /\ db = {} /\ stale = {} /\ lost = {}
    /\ revertBudget = MaxReverts /\ faults = MaxFaults

Download == \E f \in fetches : GetBlockHash(f) \/ QueryUTXOs(f) \/ FetchedTwice(f)

Handshake == RevertDataUntilBlock \/ \E t \in Threads : OnReorg(t) \/ AwaitUTXOWrites(t)

Next ==
    \/ BitcoinStep
    \/ DeserializeBlock \/ Download
    \/ \E f \in fetches : DownloadFails(f)
    \/ \E t \in Threads : StartSaveLoop(t) \/ Saved(t) \/ SaveFails(t) \/ ReorgTimesOut(t)
    \/ \E from \in Heights : NotifyThreadReorg(from)
    \/ Handshake

Spec == Init /\ [][Next]_vars

\* Downloads, writes and messages are answered and the timer of the save loop
\* fires; the indexer asks for blocks up to the tip.  New blocks and reverts need
\* not come.
FairSpec ==
    /\ Spec
    /\ WF_vars(DeserializeBlock) /\ WF_vars(Download) /\ WF_vars(Handshake)
    /\ \A t \in Threads : WF_vars(StartSaveLoop(t)) /\ WF_vars(Saved(t))

-----------------------------------------------------------------------------
(* Properties *)

TypeOK ==
    /\ NodeTypeOK
    /\ nextHeight \in 0 .. MaxHeight + 1 /\ turn \in Threads
    /\ answered \in [Heights -> Blocks \cup {NoBlock}]
    /\ broken \subseteq Heights
    /\ revert \in Revert
    /\ fetches \subseteq Fetch
    /\ lastBlockHash \in [Threads -> Blocks \cup {NoBlock}]
    /\ queue \in [Threads -> SUBSET Blocks] /\ saving \in [Threads -> SUBSET Blocks]
    /\ pendingSave \in [Threads -> BOOLEAN] /\ loopWaits \in [Threads -> BOOLEAN]
    /\ bestTip \in [Threads -> Heights] /\ currentBlock \in [Threads -> Heights]
    /\ db \subseteq Blocks /\ stale \subseteq Blocks /\ lost \subseteq Blocks
    /\ revertBudget \in Nat /\ faults \in Nat

InMemory == UNION {queue[t] \cup saving[t] : t \in Threads}

\* The outputs of every block the indexer was given and has not reverted are in
\* the table, on their way to it, or in a batch whose write failed.
UtxosKept ==
    \A h \in Heights \ {0} :
        answered[h] # NoBlock => answered[h] \in db \cup InMemory \cup lost

\* Between reverts, outputs of another block are there only because a download
\* was under way when the revert began, or because a worker's answer timed out.
OrphansAreStale ==
    ~revert.active => \A b \in (db \cup InMemory) \ stale : answered[HeightOf(b)] = b

(***************************************************************************)
(* Neither the reverts of other heights nor a block that arrives during a  *)
(* write make outputs disappear; and onReorg, which waits for the write    *)
(* under way, and the purge together remove everything of an orphaned      *)
(* block that no download or late answer adds again.                       *)
(***************************************************************************)
UtxosExplained == TypeOK /\ UtxosKept /\ OrphansAreStale

\* A revert is never stuck on a worker that waits for its writes.
RevertEnds == revert.active ~> ~revert.active

\* Outputs in memory are written within a turn of the save loop, unless the
\* worker was last asked for a block close to the tip.
SavedUnlessNearTip ==
    \A t \in Threads : queue[t] # {} ~> (queue[t] = {} \/ CanSaveAfterBlock(t))

\* The workers' promises are kept: awaitUTXOWrites ends, and so does the wait of
\* an output in memory.
WorkersSettle == RevertEnds /\ SavedUnlessNearTip
=============================================================================
