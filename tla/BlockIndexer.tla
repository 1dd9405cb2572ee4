----------------------------- MODULE BlockIndexer -----------------------------
(***************************************************************************)
(* The indexer thread of an OP_NET node: BlockIndexer driving one          *)
(* IndexingTask at a time, the block poller, the reorg paths and the       *)
(* start-up sequence, over the Bitcoin node, the database, ChainObserver   *)
(* and ReorgWatchdog.                                                      *)
(*                                                                         *)
(* JavaScript runs a handler without interruption up to its next await, so *)
(* an action is the code between two awaits that wait for another thread,  *)
(* the database or the Bitcoin node.                                       *)
(***************************************************************************)
EXTENDS ReorgWatchdog

CONSTANTS
    PrefetchQueueSize,  \* indexingConfigs.prefetchQueueSize
    VerifyGap,          \* 100: further behind the tip, reorgs are not looked for
    Regressions,        \* bound: slots for concurrent onHeightRegressionDetected
    Starts,             \* the heights a previous process may have indexed up to
    MaxReorgs,          \* bound: how many times the Bitcoin node switches chain
    MaxFaults,          \* bound: how many RPC or database calls may fail
    MaxCrashes          \* bound: how many times the process may die

ASSUME IndexerAssumption ==
    /\ PrefetchQueueSize \in Nat \ {0}
    /\ VerifyGap \in Nat
    /\ Starts \subseteq -1 .. MaxHeight
    /\ \A c \in FirstChains, n \in Starts : n <= c.top
    /\ MaxReorgs \in Nat /\ MaxFaults \in Nat /\ MaxCrashes \in Nat
    /\ Regressions # {} /\ "boot" \notin Regressions /\ "task" \notin Regressions

\* The callers of revertChain: start-up, the running task, the block poller.
Reverters == {"boot", "task"} \cup Regressions

VARIABLES
    phase,           \* how far init has come: "down", ..., "up"
    started,
    chainReorged,    \* the lock revertChain takes
    indexingTasks,   \* the queue of prefetching tasks
    proc,            \* processNextTask and the task it runs
    reverts,         \* the revertChain calls in progress
    syncBlockHash,   \* RPCBlockFetcher: the tip last announced
    vmPrepared,      \* VMBitcoinBlock.isPrepared
    validatorCache,  \* BlockHeaderValidator: the header set by onCompletedTask
    faults, crashes  \* what is left of the bounds

vmVars == <<vmPrepared, validatorCache>>
nodeVars == <<chain, reorgBudget>>
indexerVars == <<phase, started, chainReorged, indexingTasks, proc, reverts,
                 syncBlockHash>>
boundVars == <<faults, crashes>>
vars == <<nodeVars, storeVars, observerVars, watchdogVars, vmVars, indexerVars,
          boundVars>>

-----------------------------------------------------------------------------
(* Tasks *)

FetchState == {"waiting", "done", "failed"}

Task == [tip : Heights, block : Blocks \cup {NoBlock}, fetch : FetchState]

ProcPC == {"idle", "prefetch", "execute", "save_states", "sign", "verify",
           "compare", "restore", "reverting", "finalize", "save_header",
           "complete", "set_height", "catch", "recovering"}

\* The running task: aborted is its abort signal, reorged its chainReorged
\* flag, current whether BlockIndexer.currentTask still refers to it.
Proc == [pc : ProcPC, tip : Heights, block : Blocks \cup {NoBlock},
         fetch : FetchState, aborted : BOOLEAN, reorged : BOOLEAN,
         current : BOOLEAN, previous : Blocks \cup {NoBlock}, header : Ref,
         walk : Heights]

Idle == [pc |-> "idle", tip |-> 0, block |-> NoBlock, fetch |-> "waiting",
         aborted |-> FALSE, reorged |-> FALSE, current |-> FALSE,
         previous |-> NoBlock, header |-> Unset, walk |-> 0]

taskInProgress == proc.pc # "idle"

\* nextTask: a task that has begun to prefetch its block.
NewTask(tip) == [tip |-> tip, block |-> NoBlock, fetch |-> "waiting"]

\* processNextTask, up to the await of the prefetch.
Processing(task) ==
    [Idle EXCEPT !.pc = "prefetch", !.tip = task.tip, !.block = task.block,
                 !.fetch = task.fetch, !.current = TRUE]

\* IndexingTask.cancel: a prefetch that is not over ends with an error.
Cancelled(p, reorged) ==
    IF p.current
    THEN [p EXCEPT !.aborted = TRUE, !.reorged = reorged, !.current = FALSE,
                   !.fetch = IF @ = "waiting" THEN "failed" ELSE @]
    ELSE p

\* Mutant: the queue is not counted.
TasksToStartUnbounded(q, b, target) == IF target < b THEN 0 ELSE target - b + 1

\* How many tasks startTasks adds to the queue q when the next height is b.
TasksToStart(q, b, target) ==
    IF target < b THEN 0
    ELSE IF PrefetchQueueSize - Len(q) < target - b + 1
         THEN PrefetchQueueSize - Len(q)
         ELSE target - b + 1

(***************************************************************************)
(* startTasks, then processNextTask when no task is in progress (p is      *)
(* idle).                                                                  *)
(***************************************************************************)
StartTasks(p, q, b, target, locked) ==
    IF locked
    THEN proc' = p /\ indexingTasks' = q /\ bestTip' = b
    ELSE LET n      == TasksToStart(q, b, target)
             filled == q \o [i \in 1 .. n |-> NewTask(b + i - 1)]
         IN  /\ bestTip' = b + n
             /\ IF p.pc = "idle" /\ filled # << >>
                THEN /\ proc' = Processing(Head(filled))
                     /\ indexingTasks' = Tail(filled)
                ELSE proc' = p /\ indexingTasks' = filled

\* releaseLockAndCallNextTask, with chainReorged as it then is.
Release(mayRestartTask, locked) ==
    StartTasks(Idle, indexingTasks, bestTip, targetBlockHeight,
               locked \/ ~mayRestartTask)

-----------------------------------------------------------------------------
(* revertChain *)

RevertPC == {"none", "purge", "observe", "settle", "plugins"}

Revert == [pc : RevertPC, from : Heights, height : Heights]

NoRevert == [pc |-> "none", from |-> 0, height |-> 0]

Reverting(r) == reverts[r].pc # "none"

\* Mutant: stopAllTasks forgets the queue.
BeginRevertKeepingQueue(r, from, reorged, p) ==
    /\ chainReorged' = TRUE
    /\ reverts' = [reverts EXCEPT ![r] = [pc |-> "purge", from |-> from, height |-> 0]]
    /\ proc' = Cancelled(p, reorged)
    /\ UNCHANGED indexingTasks

(***************************************************************************)
(* revertChain up to its first wait: it takes the lock and stopAllTasks    *)
(* cancels the current task and the queue.  The code of the current task   *)
(* goes on running: cancelling only raises its abort signal.               *)
(***************************************************************************)
BeginRevert(r, from, reorged, p) ==
    /\ chainReorged' = TRUE
    /\ reverts' = [reverts EXCEPT ![r] = [pc |-> "purge", from |-> from, height |-> 0]]
    /\ proc' = Cancelled(p, reorged)
    /\ indexingTasks' = << >>

\* notifyThreadReorg, killAllPendingWrites, and some batches of the purge.
RevertPurgeBatch(r) ==
    /\ reverts[r].pc = "purge"
    /\ RevertDataBatch(reverts[r].from)
    /\ UNCHANGED <<nodeVars, inProgressBlock, observerVars, watchdogVars, vmVars,
                   indexerVars, boundVars>>

\* The end of revertDataUntilBlock: storageModified.
RevertPurge(r) ==
    /\ reverts[r].pc = "purge"
    /\ RevertDataUntilBlock(reverts[r].from)
    /\ reverts' = [reverts EXCEPT ![r].pc = "observe"]
    /\ UNCHANGED <<nodeVars, inProgressBlock, observerVars, watchdogVars, vmVars,
                   phase, started, chainReorged, indexingTasks, proc,
                   syncBlockHash, boundVars>>

\* onChainReorganisation up to the wait for the two answers: the height is
\* set and the height of the Bitcoin node is on its way.
RevertObserve(r) ==
    /\ reverts[r].pc = "observe"
    /\ reverts[r].from # 0
    /\ SetNewHeight(reverts[r].from)
    /\ reverts' = [reverts EXCEPT ![r].pc = "settle", ![r].height = BlockCount]
    /\ UNCHANGED <<nodeVars, headers, states, bestTip, targetBlockHeight,
                   watchdogVars, vmVars, phase, started, chainReorged,
                   indexingTasks, proc, syncBlockHash, boundVars>>

\* The rest of onChainReorganisation, and reorgFromHeight.
RevertSettle(r) ==
    /\ reverts[r].pc = "settle"
    /\ targetBlockHeight' = reverts[r].height
    /\ bestTip' = reverts[r].from
    /\ reverts' = [reverts EXCEPT ![r].pc = "plugins", ![r].height = 0]
    /\ UNCHANGED <<nodeVars, storeVars, pendingBlockHeight, watchdogVars, vmVars,
                   phase, started, chainReorged, indexingTasks, proc,
                   syncBlockHash, boundVars>>

\* Mutant: the lock is not released.
KeepLock == UNCHANGED chainReorged

Unlock == chainReorged' = FALSE

(***************************************************************************)
(* notifyPluginsOfReorg has answered: the lock is released and the caller  *)
(* goes on.  verifyChainReorgForBlock returns true to its task; the        *)
(* processing error is dealt with; onHeightRegressionDetected starts tasks.*)
(***************************************************************************)
RevertFinish(r) ==
    /\ reverts[r].pc = "plugins"
    /\ reverts' = [reverts EXCEPT ![r] = NoRevert]
    /\ Unlock
    /\ \/ /\ r = "task" /\ proc.pc = "reverting"
          /\ proc' = [proc EXCEPT !.pc = "finalize", !.reorged = TRUE]
          /\ UNCHANGED <<indexingTasks, bestTip, phase>>
       \/ /\ r = "task" /\ proc.pc = "recovering"
          /\ Release(TRUE, FALSE)
          /\ UNCHANGED phase
       \/ /\ r = "boot"
          /\ phase' = "up"
          /\ UNCHANGED <<proc, indexingTasks, bestTip>>
       \/ /\ r \in Regressions
          /\ StartTasks(proc, indexingTasks, bestTip, targetBlockHeight, FALSE)
          /\ UNCHANGED phase
    /\ UNCHANGED <<nodeVars, storeVars, pendingBlockHeight, targetBlockHeight,
                   watchdogVars, vmVars, started, syncBlockHash, boundVars>>

(***************************************************************************)
(* A step of revertChain rejects.  Before the purge is over the lock is    *)
(* released; afterwards it is kept for good.  onChainReorganisation sets   *)
(* the height in memory even when the write of it, or the question to the  *)
(* Bitcoin node beside it, is what fails.                                  *)
(***************************************************************************)
RevertFail(r) ==
    /\ Reverting(r)
    /\ faults > 0
    /\ faults' = faults - 1
    /\ reverts' = [reverts EXCEPT ![r] = NoRevert]
    /\ chainReorged' = IF reverts[r].pc = "purge" THEN FALSE ELSE chainReorged
    /\ IF reverts[r].pc = "observe"
       THEN /\ pendingBlockHeight' = reverts[r].from
            /\ inProgressBlock' \in {inProgressBlock, reverts[r].from + 1}
       ELSE UNCHANGED <<pendingBlockHeight, inProgressBlock>>
    /\ \/ /\ r = "task" /\ proc.pc = "reverting"
          /\ proc' = [proc EXCEPT !.pc = "catch", !.aborted = TRUE]
          /\ UNCHANGED <<indexingTasks, bestTip, phase>>
       \/ /\ r = "task" /\ proc.pc = "recovering"
          /\ Release(TRUE, chainReorged')
          /\ UNCHANGED phase
       \/ /\ r = "boot"
          /\ phase' = "failed"
          /\ UNCHANGED <<proc, indexingTasks, bestTip>>
       \/ /\ r \in Regressions
          /\ UNCHANGED <<proc, indexingTasks, bestTip, phase>>
    /\ UNCHANGED <<nodeVars, headers, states, targetBlockHeight, watchdogVars,
                   vmVars, started, syncBlockHash, crashes>>

-----------------------------------------------------------------------------
(* IndexingTask.process *)

\* What a task that only moves on leaves alone.
TaskOnly == UNCHANGED <<nodeVars, observerVars, watchdogVars, phase, started,
                        chainReorged, indexingTasks, reverts, syncBlockHash,
                        boundVars>>

\* process rejects: its catch destroys the task.
Thrown(p) == [p EXCEPT !.pc = "catch", !.aborted = TRUE, !.fetch = "done",
                       !.previous = NoBlock, !.header = Unset, !.walk = 0]

\* VMManager.onBlockCompleted.
ClearVM == vmPrepared' = FALSE /\ validatorCache' = Unset

\* processPrefetch of a task: the block of its height, an error when the
\* Bitcoin node does not answer or has no block there.
Fetched(task, ok) ==
    IF ok /\ BlockHash(task.tip) # NoBlock
    THEN [task EXCEPT !.fetch = "done", !.block = BlockHash(task.tip)]
    ELSE [task EXCEPT !.fetch = "failed"]

PrefetchQueued(ok) ==
    \E i \in DOMAIN indexingTasks :
        /\ indexingTasks[i].fetch = "waiting"
        /\ indexingTasks' = [indexingTasks EXCEPT ![i] = Fetched(@, ok)]
        /\ UNCHANGED proc

PrefetchCurrent(ok) ==
    /\ proc.pc = "prefetch" /\ proc.fetch = "waiting"
    /\ proc' = Fetched(proc, ok)
    /\ UNCHANGED indexingTasks

ProcessPrefetch ==
    /\ PrefetchQueued(TRUE) \/ PrefetchCurrent(TRUE)
    /\ UNCHANGED <<nodeVars, storeVars, observerVars, watchdogVars, vmVars, phase,
                   started, chainReorged, reverts, syncBlockHash, boundVars>>

PrefetchFails ==
    /\ faults > 0
    /\ faults' = faults - 1
    /\ PrefetchQueued(FALSE) \/ PrefetchCurrent(FALSE)
    /\ UNCHANGED <<nodeVars, storeVars, observerVars, watchdogVars, vmVars, phase,
                   started, chainReorged, reverts, syncBlockHash, crashes>>

(***************************************************************************)
(* The prefetch is over: an error is thrown, otherwise processBlock        *)
(* prepares the VM.  A VM that still holds another block makes it throw,   *)
(* and revertBlock then clears the VM.                                     *)
(***************************************************************************)
PrepareBlock ==
    /\ proc.pc = "prefetch" /\ proc.fetch # "waiting"
    /\ \/ /\ proc.fetch = "failed"
          /\ proc' = Thrown(proc)
          /\ UNCHANGED vmVars
       \/ /\ proc.fetch = "done" /\ vmPrepared
          /\ proc' = Thrown(proc)
          /\ ClearVM
       \/ /\ proc.fetch = "done" /\ ~vmPrepared
          /\ proc' = [proc EXCEPT !.pc = "execute"]
          /\ vmPrepared' = TRUE
          /\ UNCHANGED validatorCache
    /\ UNCHANGED storeVars
    /\ TaskOnly

\* executeTransactions: the abort signal is looked at after a transaction, so
\* a cancelled block without OP_NET transactions goes on.
ExecuteTransactions ==
    /\ proc.pc = "execute"
    /\ \/ /\ proc' = [proc EXCEPT !.pc = "save_states"]
          /\ UNCHANGED vmVars
       \/ /\ proc.aborted
          /\ proc' = Thrown(proc)
          /\ ClearVM
    /\ UNCHANGED storeVars
    /\ TaskOnly

\* updateEvaluatedStates: the changed pointers are written, whatever the
\* abort signal says; it is looked at only afterwards.
UpdateEvaluatedStates ==
    /\ proc.pc = "save_states"
    /\ SaveBlockStates(proc.tip, proc.block)
    /\ IF proc.aborted
       THEN proc' = Thrown(proc) /\ ClearVM
       ELSE proc' = [proc EXCEPT !.pc = "sign"] /\ UNCHANGED vmVars
    /\ UNCHANGED <<headers, inProgressBlock>>
    /\ TaskOnly

\* BlockHeaderValidator.getBlockHeader of the height below.
PreviousHeader(tip) ==
    IF validatorCache.number = tip - 1 /\ validatorCache.block # NoBlock
    THEN validatorCache.block
    ELSE headers[tip - 1]

(***************************************************************************)
(* signBlock needs the header below; processSubmissions follows.  Neither  *)
(* the header nor the abort signal may be missing.                         *)
(***************************************************************************)
SignBlock ==
    /\ proc.pc = "sign"
    /\ IF proc.aborted \/ (proc.tip > 0 /\ PreviousHeader(proc.tip) = NoBlock)
       THEN proc' = Thrown(proc) /\ ClearVM
       ELSE /\ proc' = [proc EXCEPT !.pc = "verify",
                          !.previous = IF proc.tip > 0 THEN PreviousHeader(proc.tip)
                                       ELSE NoBlock]
            /\ UNCHANGED vmVars
    /\ UNCHANGED storeVars
    /\ TaskOnly

\* Mutant: only the block at the announced tip is compared.
VerifyOnlyTheTip(p) ==
    /\ p.tip - 1 > 0 /\ p.tip = currentHeader.number
    /\ Prev[p.block] # PreviousOf(p.tip, p.previous)

\* verifyChainReorg: the parent of the block is not the block below.
VerifyChainReorg(p) ==
    p.tip - 1 > 0 /\ Prev[p.block] # PreviousOf(p.tip, p.previous)

UpdateBlock == lastBlock' = [number |-> proc.tip, block |-> proc.block]

(***************************************************************************)
(* verifyReorg up to the validation of the checksum.  A cancelled task     *)
(* skips it.  The tip the Bitcoin node announced is read once, here.       *)
(***************************************************************************)
VerifyReorg ==
    /\ proc.pc = "verify"
    /\ \/ /\ proc.reorged \/ proc.aborted
          /\ proc' = [proc EXCEPT !.pc = "finalize", !.reorged = TRUE]
          /\ UNCHANGED lastBlock
       \/ /\ ~proc.reorged /\ ~proc.aborted
          /\ currentHeader.number - proc.tip >= VerifyGap
          /\ UpdateBlock
          /\ proc' = [proc EXCEPT !.pc = "finalize"]
       \/ /\ ~proc.reorged /\ ~proc.aborted
          /\ currentHeader.number - proc.tip < VerifyGap
          /\ proc' = IF VerifyChainReorg(proc)
                     THEN [proc EXCEPT !.pc = "restore", !.walk = proc.tip]
                     ELSE [proc EXCEPT !.pc = "compare", !.header = currentHeader]
          /\ UNCHANGED lastBlock
    /\ UNCHANGED <<nodeVars, storeVars, observerVars, currentHeader, vmVars, phase,
                   started, chainReorged, indexingTasks, reverts, syncBlockHash,
                   boundVars>>

\* The checksums verify: the block is also compared with the tip read above.
CompareWithTip ==
    /\ proc.pc = "compare"
    /\ IF proc.header.number = proc.tip /\ proc.header.block # proc.block
       THEN /\ proc' = [proc EXCEPT !.pc = "restore", !.header = Unset,
                                      !.walk = proc.tip]
            /\ UNCHANGED lastBlock
       ELSE /\ proc' = [proc EXCEPT !.pc = "finalize", !.header = Unset]
            /\ UpdateBlock
    /\ UNCHANGED <<nodeVars, storeVars, observerVars, currentHeader, vmVars, phase,
                   started, chainReorged, indexingTasks, reverts, syncBlockHash,
                   boundVars>>

(***************************************************************************)
(* restoreBlockchain: revertToLastGoodBlock looks at one height after the  *)
(* other, downwards, until the stored hash is the Bitcoin node's or the    *)
(* genesis block is passed.  The listener then calls revertChain from the  *)
(* height above, whether or not another revertChain is in progress.        *)
(***************************************************************************)
RestoreBlockchain ==
    /\ proc.pc = "restore"
    /\ \/ /\ proc.walk > 0 /\ Differs(proc.walk - 1)
          /\ proc' = [proc EXCEPT !.walk = @ - 1]
          /\ UNCHANGED <<lastBlock, chainReorged, reverts, indexingTasks>>
       \/ /\ proc.walk > 0 => Agrees(proc.walk - 1)
          /\ BeginRevert("task", IF proc.walk > 0 THEN proc.walk ELSE 1, TRUE,
                         [proc EXCEPT !.pc = "reverting", !.walk = 0])
          /\ lastBlock' = Unset
       \/ /\ proc.walk > 0 /\ ~Differs(proc.walk - 1) /\ ~Agrees(proc.walk - 1)
          /\ proc' = Thrown(proc)
          /\ UNCHANGED <<lastBlock, chainReorged, reverts, indexingTasks>>
    /\ UNCHANGED <<nodeVars, storeVars, observerVars, currentHeader, vmVars, phase,
                   started, syncBlockHash, boundVars>>

\* finalizeBlock looks at the abort signal once, before it waits for the
\* transactions to be saved; when the signal is up the block is reverted.
FinalizeBlock ==
    /\ proc.pc = "finalize"
    /\ IF proc.aborted
       THEN proc' = Thrown(proc) /\ ClearVM
       ELSE proc' = [proc EXCEPT !.pc = "save_header", !.previous = NoBlock]
            /\ UNCHANGED vmVars
    /\ UNCHANGED storeVars
    /\ TaskOnly

\* saveBlock and terminateBlock, then the abort signal again.
SaveBlock ==
    /\ proc.pc = "save_header"
    /\ SaveBlockHeader(proc.tip, proc.block)
    /\ ClearVM
    /\ proc' = IF proc.aborted THEN Thrown(proc) ELSE [proc EXCEPT !.pc = "complete"]
    /\ UNCHANGED <<states, inProgressBlock>>
    /\ TaskOnly

\* onCompletedTask up to the wait for updateEpoch.
OnCompletedTask ==
    /\ proc.pc = "complete"
    /\ IF proc.reorged \/ proc.aborted
       THEN Release(TRUE, chainReorged)
       ELSE /\ proc' = [proc EXCEPT !.pc = "set_height"]
            /\ UNCHANGED <<indexingTasks, bestTip>>
    /\ UNCHANGED <<nodeVars, storeVars, pendingBlockHeight, targetBlockHeight,
                   watchdogVars, vmVars, phase, started, chainReorged, reverts,
                   syncBlockHash, boundVars>>

\* The rest of onCompletedTask; processNextTask then releases the task.
UpdateHeight ==
    /\ proc.pc = "set_height"
    /\ SetNewHeight(proc.tip)
    /\ validatorCache' = [number |-> proc.tip, block |-> proc.block]
    /\ Release(TRUE, chainReorged)
    /\ UNCHANGED <<nodeVars, headers, states, targetBlockHeight, watchdogVars,
                   vmPrepared, phase, started, chainReorged, reverts,
                   syncBlockHash, boundVars>>

(***************************************************************************)
(* The catch of processNextTask.  After a reorg there is nothing to do;    *)
(* otherwise the last block is reverted, unless there is none to revert to.*)
(***************************************************************************)
ProcessingError ==
    /\ proc.pc = "catch"
    /\ \/ /\ chainReorged \/ ~proc.current \/ proc.reorged
          /\ Release(TRUE, chainReorged)
          /\ UNCHANGED <<chainReorged, reverts>>
       \/ /\ ~chainReorged /\ proc.current /\ ~proc.reorged
          /\ pendingBlockHeight - 1 > 0
          /\ BeginRevert("task", pendingBlockHeight, FALSE,
                         [proc EXCEPT !.pc = "recovering"])
          /\ UNCHANGED bestTip
       \/ /\ ~chainReorged /\ proc.current /\ ~proc.reorged
          /\ pendingBlockHeight - 1 <= 0
          /\ Release(FALSE, chainReorged)
          /\ UNCHANGED <<chainReorged, reverts>>
    /\ UNCHANGED <<nodeVars, storeVars, pendingBlockHeight, targetBlockHeight,
                   watchdogVars, vmVars, phase, started, syncBlockHash, boundVars>>

\* A database, VM or RPC call of the running task rejects.  Only before the
\* reorg check and in finalizeBlock does a failure clear the VM; a checksum
\* that cannot be validated counts as a reorg; and the write of the height
\* fails when memory already has it.
TaskFails ==
    /\ faults > 0
    /\ faults' = faults - 1
    /\ \/ /\ proc.pc \in {"execute", "save_states", "sign", "save_header"}
          /\ ClearVM
          /\ proc' = Thrown(proc)
          /\ UNCHANGED pendingBlockHeight
       \/ /\ \/ proc.pc \in {"restore", "finalize"}
             \/ proc.pc = "verify" /\ ~proc.reorged /\ ~proc.aborted
          /\ proc' = Thrown(proc)
          /\ UNCHANGED <<pendingBlockHeight, vmVars>>
       \/ /\ proc.pc = "compare"
          /\ proc' = [proc EXCEPT !.pc = "restore", !.header = Unset, !.walk = proc.tip]
          /\ UNCHANGED <<pendingBlockHeight, vmVars>>
       \/ /\ proc.pc = "set_height"
          /\ pendingBlockHeight' \in {pendingBlockHeight, proc.tip}
          /\ proc' = Thrown(proc)
          /\ UNCHANGED vmVars
    /\ UNCHANGED <<nodeVars, storeVars, bestTip, targetBlockHeight, watchdogVars,
                   phase, started, chainReorged, indexingTasks, reverts, syncBlockHash, crashes>>

ProcessTask ==
    \/ PrepareBlock \/ ExecuteTransactions \/ UpdateEvaluatedStates \/ SignBlock
    \/ VerifyReorg \/ CompareWithTip \/ RestoreBlockchain \/ FinalizeBlock
    \/ SaveBlock \/ OnCompletedTask \/ UpdateHeight \/ ProcessingError

-----------------------------------------------------------------------------
(* onBlockChange *)

(***************************************************************************)
(* watchBlockChanges sees another tip.  A tip at or below what has been    *)
(* processed is a reorganisation: onHeightRegressionDetected.              *)
(***************************************************************************)
HeightRegression ==
    started /\ ~chainReorged /\ BlockCount > 0 /\ BlockCount <= pendingBlockHeight

OnBlockChange ==
    /\ phase = "up"
    /\ syncBlockHash # Tip
    /\ syncBlockHash' = Tip
    /\ currentHeader' = [number |-> BlockCount, block |-> Tip]
    /\ targetBlockHeight' = BlockCount
    /\ \/ /\ HeightRegression
          /\ \E r \in Regressions :
               /\ ~Reverting(r)
               /\ BeginRevert(r, BlockCount, TRUE, proc)
          /\ UNCHANGED <<bestTip, started>>
       \/ /\ ~HeightRegression
          /\ ~started \/ ~taskInProgress \/ indexingTasks = << >>
          /\ StartTasks(proc, indexingTasks, bestTip, BlockCount, chainReorged)
          /\ started' = TRUE
          /\ UNCHANGED <<chainReorged, reverts>>
       \/ /\ ~HeightRegression
          /\ started /\ taskInProgress /\ indexingTasks # << >>
          /\ UNCHANGED <<proc, indexingTasks, bestTip, started, chainReorged, reverts>>
    /\ UNCHANGED <<nodeVars, storeVars, pendingBlockHeight, lastBlock, vmVars, phase,
                   boundVars>>

-----------------------------------------------------------------------------
(* startIndexer and init *)

\* ChainObserver.init; the database is then purged from the last height.
InitObserver ==
    /\ phase = "down"
    /\ Sync
    /\ phase' = "purge"
    /\ UNCHANGED <<nodeVars, storeVars, watchdogVars, vmVars, started, chainReorged,
                   indexingTasks, proc, reverts, syncBlockHash, boundVars>>

InitPurgeBatch ==
    /\ phase = "purge"
    /\ RevertDataBatch(pendingBlockHeight)
    /\ UNCHANGED <<nodeVars, inProgressBlock, observerVars, watchdogVars, vmVars,
                   indexerVars, boundVars>>

InitPurge ==
    /\ phase = "purge"
    /\ RevertDataUntilBlock(pendingBlockHeight)
    /\ SetNewHeight(pendingBlockHeight)
    /\ phase' = "watchdog"
    /\ UNCHANGED <<nodeVars, bestTip, targetBlockHeight, watchdogVars, vmVars,
                   started, chainReorged, indexingTasks, proc, reverts,
                   syncBlockHash, boundVars>>

(***************************************************************************)
(* reorgWatchdog.init at the height the indexer stopped at, then at each   *)
(* height below until the header below that one is stored.  lastBlock gets *)
(* the hash of the height below the one it is kept under.  A height other  *)
(* than the first is onHeightMismatch; the genesis block is not.  When the *)
(* Bitcoin node has no block at a height the thread stays stopped.         *)
(***************************************************************************)
InitWatchdogHeight ==
    IF currentHeader = Unset THEN pendingBlockHeight ELSE currentHeader.number - 1

InitWatchdog ==
    /\ phase = "watchdog"
    /\ LET h == InitWatchdogHeight IN
       \/ /\ BlockHash(h) = NoBlock
          /\ phase' = "failed"
          /\ UNCHANGED <<watchdogVars, chainReorged, reverts, proc, indexingTasks>>
       \/ /\ BlockHash(h) # NoBlock
          /\ currentHeader' = [number |-> h, block |-> BlockHash(h)]
          /\ \/ /\ h > 0 /\ headers[h - 1] = NoBlock
                /\ UNCHANGED <<phase, lastBlock, chainReorged, reverts, proc,
                               indexingTasks>>
             \/ /\ h = 0 \/ h = pendingBlockHeight
                /\ h > 0 => headers[h - 1] # NoBlock
                /\ lastBlock' = IF h = 0 THEN Unset
                                ELSE [number |-> h, block |-> headers[h - 1]]
                /\ phase' = "up"
                /\ UNCHANGED <<chainReorged, reverts, proc, indexingTasks>>
             \/ /\ h # 0 /\ h # pendingBlockHeight /\ headers[h - 1] # NoBlock
                /\ lastBlock' = [number |-> h, block |-> headers[h - 1]]
                /\ BeginRevert("boot", h, FALSE, proc)
                /\ phase' = "mismatch"
    /\ UNCHANGED <<nodeVars, storeVars, observerVars, vmVars, started, syncBlockHash,
                   boundVars>>

\* What a process begins with: everything but the database is gone.
Restarted ==
    /\ phase' = "down" /\ started' = FALSE /\ chainReorged' = FALSE
    /\ indexingTasks' = << >> /\ proc' = Idle
    /\ reverts' = [r \in Reverters |-> NoRevert]
    /\ syncBlockHash' = NoBlock
    /\ vmPrepared' = FALSE /\ validatorCache' = Unset
    /\ currentHeader' = Unset /\ lastBlock' = Unset
    /\ pendingBlockHeight' = 0 /\ bestTip' = 0 /\ targetBlockHeight' = 0

Crash ==
    /\ phase # "down"
    /\ crashes > 0
    /\ crashes' = crashes - 1
    /\ Restarted
    /\ UNCHANGED <<nodeVars, storeVars, faults>>

BitcoinStep ==
    /\ SwitchChain
    /\ UNCHANGED <<storeVars, observerVars, watchdogVars, vmVars, indexerVars,
                   boundVars>>

-----------------------------------------------------------------------------
(* The specification *)

\* The database of a process that had indexed the chain up to height n; an
\* empty one when n is -1.
IndexedUpTo(n) ==
    /\ headers = [h \in Heights |-> IF h <= n THEN chain.at[h] ELSE NoBlock]
    /\ states = [h \in Heights |-> IF h <= n THEN {chain.at[h]} ELSE {}]
    /\ inProgressBlock = n + 1

\* A process about to start.
Init ==
    /\ chain \in FirstChains
    /\ reorgBudget = MaxReorgs
    /\ \E n \in Starts : IndexedUpTo(n)
    /\ phase = "down" /\ started = FALSE /\ chainReorged = FALSE
    /\ indexingTasks = << >> /\ proc = Idle
    /\ reverts = [r \in Reverters |-> NoRevert]
    /\ syncBlockHash = NoBlock
    /\ vmPrepared = FALSE /\ validatorCache = Unset
    /\ currentHeader = Unset /\ lastBlock = Unset
    /\ pendingBlockHeight = 0 /\ bestTip = 0 /\ targetBlockHeight = 0
    /\ faults = MaxFaults /\ crashes = MaxCrashes

RevertChain(r) ==
    RevertPurge(r) \/ RevertObserve(r) \/ RevertSettle(r) \/ RevertFinish(r)

InitIndexer == InitObserver \/ InitPurge \/ InitWatchdog

Next ==
    \/ BitcoinStep
    \/ InitIndexer \/ InitPurgeBatch
    \/ OnBlockChange
    \/ ProcessPrefetch \/ PrefetchFails
    \/ ProcessTask \/ TaskFails
    \/ \E r \in Reverters : RevertChain(r) \/ RevertPurgeBatch(r) \/ RevertFail(r)
    \/ Crash

Spec == Init /\ [][Next]_vars

(***************************************************************************)
(* The event loop runs every pending continuation, RPC and database calls  *)
(* return and the poller is rescheduled by its timer.  Faults, crashes and *)
(* what Bitcoin does are not fair.                                         *)
(***************************************************************************)
Fairness ==
    /\ WF_vars(InitIndexer)
    /\ WF_vars(OnBlockChange)
    /\ WF_vars(ProcessPrefetch)
    /\ WF_vars(ProcessTask)
    /\ \A r \in Reverters : WF_vars(RevertChain(r))

FairSpec == Spec /\ Fairness

-----------------------------------------------------------------------------
(* Properties *)

TaskTypeOK ==
    /\ indexingTasks \in Seq(Task)
    /\ Len(indexingTasks) <= PrefetchQueueSize
    /\ proc \in Proc

ControlTypeOK ==
    /\ phase \in {"down", "purge", "watchdog", "mismatch", "up", "failed"}
    /\ started \in BOOLEAN /\ chainReorged \in BOOLEAN /\ vmPrepared \in BOOLEAN
    /\ reverts \in [Reverters -> Revert]
    /\ syncBlockHash \in Blocks \cup {NoBlock}
    /\ validatorCache \in Ref
    /\ faults \in Nat /\ crashes \in Nat

\* Every variable has its type: the prefetch queue never outgrows
\* prefetchQueueSize, and a task is one of a height that some chain has.
TypeOK ==
    /\ NodeTypeOK /\ StoreTypeOK /\ ObserverTypeOK /\ WatchdogTypeOK
    /\ TaskTypeOK /\ ControlTypeOK

\* The node is running and no revertChain is in progress.
Settled == phase = "up" /\ ~chainReorged /\ \A r \in Reverters : ~Reverting(r)

\* The heights that are never VerifyGap or more below an announced tip.  The
\* code does not compare block 1 with the genesis block.
CheckedHeights == {h \in Heights : h > 1 /\ MaxHeight - h < VerifyGap}

\* Every stored block of a checked height extends the stored block below it,
\* up to the height the node says it has reached.  A task that fails while
\* pendingBlockHeight is at most 1 is skipped and not retried, which may leave
\* an orphaned header at height 2.
HeadersLinked ==
    \A h \in CheckedHeights \ {2} :
        /\ h < inProgressBlock
        /\ headers[h - 1] # NoBlock /\ headers[h] # NoBlock
        => Prev[headers[h]] = headers[h - 1]

\* A header is stored at every height below pendingBlockHeight.
NoGap == \A h \in Heights : h < pendingBlockHeight => headers[h] # NoBlock

\* The data below pendingBlockHeight come from the block stored there.
NoOrphanState == \A h \in Heights : h < pendingBlockHeight => states[h] \subseteq {headers[h]}

\* ... and are there.
HeaderHasState == \A h \in Heights : h < pendingBlockHeight => states[h] = {headers[h]}

(***************************************************************************)
(* When no revertChain is in progress and no call has failed, what         *)
(* revertDataUntilBlock deletes and what setNewHeight announces agree: a   *)
(* header is stored at every height below pendingBlockHeight, and the data *)
(* there come from its execution, across crashes in the middle of either;  *)
(* no row of an orphaned block survives the revert, a crash or a late      *)
(* write.  A process that dies inside a batch of a purge may leave a       *)
(* header without its data.                                                *)
(***************************************************************************)
DatabaseSound ==
    Settled /\ faults = MaxFaults =>
        /\ NoGap /\ NoOrphanState
        /\ crashes = MaxCrashes => HeaderHasState

(***************************************************************************)
(* Start-up leaves nothing of an interrupted block or revert behind: when  *)
(* the poller is about to start, headers are stored below                  *)
(* pendingBlockHeight, and nothing at or above it.                         *)
(***************************************************************************)
CleanStart ==
    phase = "up" /\ ~started =>
        \A h \in Heights :
            IF h < pendingBlockHeight THEN headers[h] # NoBlock
            ELSE headers[h] = NoBlock /\ states[h] = {}

\* No task that was not cancelled runs and none is queued during a revert.
QuietDuringRevert ==
    \A r \in Reverters : Reverting(r) => indexingTasks = << >> /\ ~proc.current

OneRevert == \A r, s \in Reverters : Reverting(r) /\ Reverting(s) => r = s

(***************************************************************************)
(* verifyChainReorgForBlock lets no block of another branch be saved on    *)
(* top of what a reorganisation replaced, whatever chain the Bitcoin node  *)
(* switches to, across crashes, stale copies of the last block and writes  *)
(* of cancelled tasks.  Two revertChain calls that overlap do break it:    *)
(* the first to end unlocks the indexer while the other is still to set    *)
(* the height.  So may a failed call, which leaves a purge half done.      *)
(***************************************************************************)
Linked == [](OneRevert /\ faults = MaxFaults) => []HeadersLinked

(***************************************************************************)
(* As long as the best chain only grows or is replaced by a longer one,    *)
(* the chainReorged lock excludes the poller, the watchdog and the error   *)
(* path from each other, and stopAllTasks keeps the indexer quiet while    *)
(* revertChain deletes and rewinds.  Failed calls do break it: a checksum  *)
(* that could not be read makes the watchdog revert below a tip that the   *)
(* poller then takes for a regression.                                     *)
(***************************************************************************)
RevertsExclusive == faults = MaxFaults => QuietDuringRevert /\ OneRevert

(***************************************************************************)
(* The node is locked with no revertChain in progress only after a failed  *)
(* call: overlapping reverts, each of which sets and clears chainReorged,  *)
(* never leave the lock behind.                                            *)
(***************************************************************************)
LockExplained ==
    chainReorged /\ (\A r \in Reverters : ~Reverting(r)) => faults < MaxFaults

\* The stored headers from the genesis block up to the first missing one.
StoredChain ==
    LET stored == {n \in 0 .. MaxHeight + 1 :
                      \A h \in Heights : h < n => headers[h] # NoBlock}
        length == CHOOSE n \in stored : \A m \in stored : m <= n
    IN  [i \in 1 .. length |-> headers[i - 1]]

Ledger == INSTANCE IndexedChain
          WITH ledger <- StoredChain, Verified <- CheckedHeights,
               disturbed <- (faults < MaxFaults)

(***************************************************************************)
(* The indexer implements IndexedChain: what a reader finds in the block   *)
(* repository grows by one block at a time, linked where reorgs are looked *)
(* for, and is otherwise only cut back to a prefix, across crashes and as  *)
(* long as no call fails.  After a failed write of the height the poller   *)
(* may cancel a task that is about to save its block, and the block that   *)
(* comes in its place then replaces it in one step.                        *)
(***************************************************************************)
RefinesLedger == Ledger!Spec

\* The stored headers end up being those of the best chain, as far as the
\* indexer has come.
CatchesUp == <>[](\A h \in Heights : h <= pendingBlockHeight => headers[h] = chain.at[h])

\* A header at every height up to the target, with the lock released.
ReachesTarget ==
    <>[](/\ Settled
         /\ pendingBlockHeight = targetBlockHeight
         /\ \A h \in Heights : h <= pendingBlockHeight => headers[h] # NoBlock)

(***************************************************************************)
(* Once the Bitcoin node stops switching chains, and when no call failed,  *)
(* the indexer reaches the target it was given on the node's best chain:   *)
(* no reorganisation stays unnoticed, crashes during its revert included,  *)
(* no lock stays set and no processing error is repeated for ever.         *)
(***************************************************************************)
Converges == [](faults = MaxFaults) => ReachesTarget /\ CatchesUp
=============================================================================
