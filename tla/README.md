# OP_NET node: TLA+ models, model checking and proofs

This directory is a verification development for the OP_NET node
(`src/src/src`, TypeScript). The node follows a Bitcoin Core node, executes the
OP_NET transactions of every block in a VM, keeps the results in MongoDB,
reverts them when Bitcoin reorganises, and serves them over an API and a P2P
network. It is one process of many worker threads that talk by messages; inside
a thread JavaScript runs a handler without interruption up to its next `await`.
An action of the models is such a stretch between two awaits.

The models translate the code; file and line ranges of every definition are in
`PROJECT.json` under `map`.

## 1. Inventory

| Component | State it keeps | Operations | Interacts with |
|---|---|---|---|
| `BlockIndexer`, `IndexingTask` | `chainReorged`, `currentTask`, `indexingTasks`, `started` | start-up purge, tip announcements, prefetch, execute, save, `revertChain` | everything below |
| `ChainObserver` | pending height, best tip, target; `inProgressBlock` in the database | `init`, `setNewHeight`, `onChainReorganisation` | indexer, database |
| `ReorgWatchdog` | last tip announced, last block verified | `init`, `verifyChainReorgForBlock`, `revertToLastGoodBlock` | indexer, Bitcoin node, database |
| `RPCBlockFetcher`, `BlockFetcher` | last tip seen, last hash downloaded | poll the tip, download a block | Bitcoin node |
| `Block`, `VMManager`, `ContractEvaluator` | the block under way, caches in front of the database, one evaluation with its frames | parse, sort, execute, commit, write, roll back | indexer, database, Rust VM |
| Transaction factory, parsers, sorter | none between blocks | recognise, check, order | `Block` |
| `VMMongoStorage` and the repositories | the collections | writes of a block, `revertDataUntilBlock`, `revertBlockHeadersOnly`, queries | MongoDB |
| `ChainSynchronisation` workers | outputs in memory, the write under way | `DESERIALIZE_BLOCK`, the save loop, `CHAIN_REORG` | indexer, MongoDB |
| `EpochManager`, `EpochReindexer` | epoch records, submissions, attestations | collect submissions, finalise, prove, reindex | indexer, witnesses |
| `Thread`, `Threader`, `ThreadManager` | ports, tasks waiting for an answer | request, broadcast, response, timeout, unlink, restart of a worker | every thread |
| `BlockWitnessManager`, witness threads | queues, known identities, pending heights | sign a processed block, ask peers, check and store witnesses | indexer, RPC threads, P2P |
| `P2PManager`, `OPNetPeer`, `AuthenticationManager` | peers, ban list, ciphers, timers | connect, identify, log in, exchange packets, ban | other nodes |
| `Mempool`, `MempoolManager` | tip and solutions of the parser, cache of identifiers, backup | broadcasts and packages, sweep of Bitcoin Core's mempool, eviction | Bitcoin node, API, P2P |
| `PluginManager`, worker pool, `PluginRegistry` | registry, states, workers, hooks | discover, load, enable, dispatch hooks, REORG round, unload | indexer, API |
| `Server`, routes, `WebSocketManager`, `JSONRpc2Manager` | caches, sessions, subscriptions, counters of limits | requests, announcements, submissions | database, RPC workers |
| RPC workers | sub-processes, VMs, a remembered header | simulate a call | API |
| `ConsensusTracker`, configuration, SSH console, logging | settings | | |

Hard behaviours: a reorganisation can arrive between any two awaits of a task, a
purge or a revert; two paths of the code (the poller and the running task) can
decide to revert at the same time; a cancelled task goes on until it looks at
its abort signal; a purge is many deletes in several tables; the process can die
between any two writes; workers hold data in memory that the indexer takes to be
indexed; a message can be answered after its sender gave up; two messages of
different threads overtake each other; callbacks of two heights overlap; caches
are filled by queries that straddle a change; limits are raised and lowered in
different callbacks. `PROJECT.json` lists them under `hazards`, each at its
line, with the properties that would catch it going wrong.

What makes each part correct:

* indexer: what is stored is one linked chain without gaps, with the state of
  exactly those blocks, across reverts, failures and restarts; at most one
  revert works on it; it ends up on the best chain of the Bitcoin node;
* execution: the database holds exactly what executing the chain from nothing
  gives, every slot and receipt is proved by its header, and a failed attempt
  leaves no trace and does not keep the next one from succeeding;
* purge: nothing at or above the height stays and nothing below it goes, in
  whatever state an earlier call left the tables;
* UTXO workers: outputs are written once and only for blocks that are indexed,
  and a revert waits for their writes but not for ever;
* epochs: the epochs stored, and the solutions a block is executed with, are a
  function of the stored chain alone, and their proofs verify;
* threading: a request ends with the answer to that request or with a timeout,
  and a dead worker delays nobody;
* witnesses: a stored witness is one of the stored block, and every block gets
  that of this node;
* peers: nodes that agree end up in a session with each other's keys and do not
  ban each other, nodes that differ part;
* mempool: the collection is Bitcoin Core's mempool, what was accepted is spread,
  and broadcasts are taken exactly when the node is at the tip;
* plugins: registry and workers agree, dependencies outlive their dependents,
  reverted data goes, and the indexer is not held up;
* API: answers are those of the storage at some moment of the request, clients
  hear of every block once and in order, and every request is settled.

## 2. Modules

| Module | Models | Notes |
|---|---|---|
| `BitcoinNode` | the Bitcoin Core node (external) | a tree of blocks; the best chain is replaced along `Moves`, at most `MaxReorgs` times |
| `BlockStore` | the database as the indexer uses it | `headers`, `states`, `inProgressBlock`; they survive a crash |
| `ChainObserver` | `ChainObserver.ts` | the three heights |
| `ReorgWatchdog` | `ReorgWatchdog.ts` | comparisons of stored and announced blocks |
| `BlockIndexer` | `BlockIndexer.ts`, `IndexingTask.ts` and the order of writes in `Block.ts`, `VMManager.ts` | composes the four above |
| `IndexedChain` | the promise to a reader of the headers | abstract specification |
| `TransactionParser` | `TransactionFactory`, the parsers, `TransactionSorter` | a transaction is a record whose `flaws` name the checks it fails |
| `ContractVM` | `VMManager`, `ContractEvaluator`, `ContractEvaluation` | one transaction; a contract is a sequence of host calls |
| `MerkleProofs`, `BlockCommitments` | the Rust trees as used (external), the state, receipt and header trees | a root is the sequence of its leaves |
| `ExecutionReference` | nothing: the reference | executes a chain in one recursive definition, without caches, frames or failures |
| `BlockExecution` | `Block.ts` and the writes at its end | composes the four above; compared with the reference |
| `RevertData` | `VMMongoStorage.revertDataUntilBlock`, `revertBlockHeadersOnly` | what `BlockStore` takes as one step, delete by delete |
| `UtxoSync` | `ChainSynchronisation.ts`, `BlockFetcher.ts`, the outputs part of `UnspentTransactionRepository.ts` | the indexer is reduced to its requests and reverts |
| `ThreadLinks` | `Thread.ts`, `Threader.ts`, `ThreadManager.ts`, the routing of links in `Core.ts` | one client thread and one pool of workers |
| `EpochTree`, `Epochs` | `EpochMerkleTree`; `EpochManager.ts`, `EpochReindexer.ts`, the epoch, submission and witness repositories, `Block.processSubmissions` | the indexer is reduced to its tasks and reverts |
| `Plugins` | `src/plugins`: manager, registry, worker pool, worker thread, hooks | plugin code is external |
| `Peers` | `P2PManager`, `PeerChecker`, `OPNetPeer`, the authentication managers | two nodes; libp2p is external |
| `Witnesses` | `BlockWitnessManager`, `PoC`, the witness thread and manager, the witness repository | the indexer is reduced to notices and reverts |
| `MempoolTip`, `Mempool` | `Mempool.ts`, `MempoolManager.ts`, the transaction verificator, the broadcast route and relay, the fee predictor | Bitcoin Core is external |
| `ApiRoutes` | the routes with caches and `Server`'s listeners | a query is a promise with one step per read |
| `WebSocketApi` | `WebSocketClient`, `WebSocketManager`, `ProtocolHandler` | back pressure and limits |
| `Simulation` | `RPCSubWorkerManager`, `RPCSubWorker`, `VMManager.execute` | |
| `WalletUtxos` | the three queries of a wallet's outputs against mempool and flush | |
| `ApiServer` | the API thread | composes the four above |
| `MC...` | instances for TLC | block trees, chains, files, scenarios |
| `BlockIndexerProofs` | theorems about `BlockIndexer` | types and the lock; one revert, clean starts, a sound and linked database; the refinement of `IndexedChain` |
| `RevertDataProofs`, `UtxoSyncProofs`, `ThreadLinksProofs`, `PeersProofs`, `WitnessesProofs`, `MempoolProofs`, `ApiServerProofs` | theorems about the module of that name | |

`BlockIndexer`: `phase` is the progress of `startIndexer`/`init`; `proc` is
`processNextTask` with the task it runs (its `pc` names the await the task is
at, `aborted` is the abort signal, `current` whether `currentTask` still refers
to it); `reverts` has one entry per caller of `revertChain` (start-up, running
task, poller). `RevertPurgeBatch` and `InitPurgeBatch` are purges in progress,
so that a crash or a failure can happen between two of them. A crash forgets
everything but the database; a fault makes one RPC or database call reject.

`BlockExecution`: `blk` is the block under way with the step it is at, `vm` the
caches and layers of `VMManager`, `ev` the evaluation with its stack of frames,
`db` the collections, `commits` the headers and stored proofs. `marks` and
`phantom` are ghosts: transactions that met a database failure, which the
reference counts as reverted, and heights where the insertion of a contract
failed.

`UtxoSync`: `fetches` are `queryBlock` calls under way, `queue` and `saving` the
two places outputs are in memory, `revert.told` and `revert.waiting` the workers
whose `CHAIN_REORG` handler has not begun or waits for a write. `stale` and
`lost` are history variables: outputs that came behind a revert's back, and
blocks whose write failed.

`ThreadLinks`: the three boxes are the three ways a message reaches the client's
side: between the managers through `Core`, over the worker's own port, and over
the `subChannel`; only the order inside each is kept. `tasks` is the client's
table, `calls` the callers with the workers they still wait for. `answered` and
`late` are history variables.

`Epochs`: `task` is the running task or the progress of start-up; `epochs`,
`submissions` and `witnesses` are the collections, a document of `epochs` standing for
its hash and a block for its checksum root. `used` records what each stored block was
executed with; `lost` and `unproved` are the writes a failed call kept from happening
without anybody noticing. `Canonical` is the reference: the epochs an empty database
would end up with on the stored chain. A revert cancels the task wherever it is; the
task goes on until it looks at its abort signal, and `skewed` records the heights
whose submissions are then not those of their block. A witness is an upsert: `redated`
marks a row that came again with another time after its proof was written.

`Plugins`: `script` is what the running method of `PluginManager` still has to
do, `inbox`, `running` and `replies` the three places a request to a worker can
be; `quit` are the workers that ended with exit code 0, of which nobody hears.
`crossed` and `missed` are history: blocks whose notice was on its way when
they were reverted, and plugins that were not told of a revert.

`Peers`: `peer[n]` is the `OPNetPeer` of node `n` with a client and a server part,
each with its state, cipher and timer; it is found by the id of the peer, never by
the connection. `healthy` is history: it turns false with the first thing a healthy
network does not do (a drop, a slow send, a message before identification).

`Witnesses`: `handlers` are the calls of `onBlockProcessed` that wait, `th` the
witness threads with their queues and counters. `redone`, `caught`, `missed` and
`failed` are history: reverted heights, witnesses being written when their block
was reverted, heights no thread was ready for, and whether a call failed.

`MempoolTip` and `Mempool`: `node.indexed` is the height in progress that the mempool
thread polls, one above `node.stored`, two above it after a revert; `jobs` are the
calls of `onBlockChange` that are not done, `reqs` the broadcasts, `manager` the sweep
with its cache. `moved`, `excused`, `unspread`, `unread` and `unloaded` are history:
what has changed since the last list, what the cache knows although it is not stored,
what was taken and not spread, and reads that failed or were outdated.

`ApiServer`: `store` are the collections (headers in `blocks`, transactions in
`bodies`; a revert deletes one table after the other, in any order), a listener of
`feed.running` carries the header it has read, `cache` what the routes keep,
`promises` the queries, `calls` the requests that await one. History: `fine` (the
answer was right at a moment of the request, or the storage changed behind the query),
`feed.skipped` (epochs a jump stepped over), `feed.overlapped`; in `WalletUtxos`
`known`, `moving` and `cut` (what a query can be held to). A confirmed output has a
value (`Worth`); the query asks for a least one and keeps the `UtxoLimit` greatest.

## 3. Runs

The bounds are constants of the specifications, each named and commented there.

| Run | Bounds | Shows |
|---|---|---|
| `Indexer` | 8 blocks in two branches up to height 4, empty or filled database, prefetch queue of 2, reorg check for the last 2 blocks, 2 chain switches, 2 faults, 2 crashes | types; `CleanStart`: a restart leaves nothing of an interrupted block or revert; `RevertsExclusive`: one revert, on a quiet indexer, until a call fails; `DatabaseSound`: no gap, no orphaned state, no header without state; `RefinesLedger`: the headers implement `IndexedChain` until a call fails, blocks being linked at the heights the reorg check covers; `Converges` under fairness |
| `IndexerRegress` | chains of equal or lower height too, filled database, reorg check always on, 1 fault, 1 crash | `Linked`: as long as no two reverts overlap and no call fails, no block is stored on another branch, whatever chain the node switches to; `LockExplained` also when the poller and the task revert at the same time |
| `BlockExecution` | chains of up to 3 blocks with every kind of malformed transaction; all families of 4 transactions with fees 0 to 2; on the stressed chains 1 crash, 1 reorganisation, 2 failing calls | `ExecutionExact`: the database is that of the reference; `HeadersCommit`: every slot and receipt is proved; `OrderSound`: the sorter; `BlocksComplete` under fairness |
| `RevertData` | heights 0 to 3, batches of 2, 1 failing delete, every initial set of rows | `PurgeComplete`, `Lockstep`, `KeepsBelow`, `CallEnds` |
| `Utxo` | 2 workers, 5 blocks in two branches, 2 downloads at a time, 1 reorganisation, 1 revert, 1 fault | `UtxosExplained`: outputs are neither lost nor orphaned but for a failed batch or a late download; `WorkersSettle` under fairness |
| `Threads` | 2 workers, 1 death, a request and a broadcast, 1 retry | `CallersServed`: a broadcast ends when every port was heard or waited for, which `revertChain` relies on; `LinksSettle` under fairness |
| `Epochs` | epochs of 2 blocks up to height 6, a fork in the middle of epoch 1, 2 chain switches, budgets of faults, crashes and witnesses (new or sent again), tasks cancelled at any await, with and without reindexing | `EpochsCanonical`, `ChallengesSettled`, `AttestationsProved`; `ReachesTip` under fairness |
| `Plugins` | a plugin and a library, good or with each kind of bad file, with a dependency, none or a mutual one; 1 block, 2 reverts, 1 trouble (a hook that throws or hangs, a lost reply, a worker that crashes or ends silently) | `EnabledIsServed`: an ENABLED plugin runs in a live worker unless that worker ended with code 0; `OrphansExplained`; `IndexerReleased` under fairness |
| `Peers` | 2 nodes that agree or differ in version, protocol or network, 2 connections, 2 troubles, 1 message on its way when another is sent | `BansExplained`, `SessionsAgree`; `HandshakeSettles` under fairness |
| `Witnesses` | 2 threads, heights up to 3, 1 reorganisation, 2 events, every limit 1 | `WitnessesExplained`, `SelfWitnessed` |
| `Mempool` | a transaction, its child and its rival, one package, 2 broadcasts at a time (symmetric), heights 1 to 3 (the height in progress up to 4), budgets for the pool or for the chain | `PoolExplained`, `AcceptedSpread`, `SyncSettled` |
| `Api` | 21 scenarios of a few requests, blocks, reverts, failures, full sockets, timeouts or deaths each | `TipAgrees`, `SubscribersTold`, `AnswersExplained`, `RequestsSettled`, `WalletExplained` |

Each property is stated in words above its definition. A conjunction of named
parts (`DatabaseSound`, `UtxosExplained`, `CallersServed`, ...) is one property
where the parts answer one question.

Why the bounds suffice. Indexer: the fork lies two blocks below the highest
height, so a reorganisation is longer than one block, the prefetch queue both
fills and blocks, the walk of `revertToLastGoodBlock` takes more than one step and
the special heights 0 and 1 are below it; two chain switches let a second
reorganisation arrive during the revert of the first. `VerifyGap` is 100 in the
code and 2 in `Indexer`, so that blocks which are and which are not checked both
occur. `RevertData` has a whole batch and a clamped one. In `Epochs` the constants
5, 80 and 4 (blocks per epoch, life of a solution, attestation delay) are 2, 1
and 2, so that within 7 blocks three epochs are finalised, one is attested to and
one expires; one transaction is in both branches, others tie or repeat. One death
among two workers lets a worker die before, between and after the two links, and a
retry lets a call begin before the first port is there. In `BlockExecution` the
limits of calls, deployments, events, slots and gas are small numbers that some
transaction exceeds; a crash or a failure can fall on each write of a block whose
predecessor or successor is on either branch. Two plugins suffice for a dependency,
a cycle and a dispatch that stops before the second. Two connections let an old one
end after the new one has begun. Limits of 1 let the queues of the witness threads
fill and spill. Three transactions have each relation that eviction tells apart. The
scenarios of `Api` keep apart what does not interact (`store`, sockets, simulations,
wallets) and give each interaction one scenario in which it is complete; a wallet has
outputs below, between and above the two least values, and more of them than the limit
of 2.

Fairness: the event loop of a thread runs every pending continuation, the poller and
the save loop are rescheduled by timers, and calls to MongoDB and to the Bitcoin node
return or reject. Hence weak fairness of start-up, poller, prefetch, task and revert
steps (`BlockIndexer`), of the steps of a block (`BlockExecution`), of the deletes
(`RevertData`), of downloads, writes, the save loop and the revert (`UtxoSync`), and
of timers and messages, but not of answers, in `ThreadLinks`: a handler may end
without one. In `Epochs` task, start-up and poller are weakly fair, the arrival of
witnesses is not. The save loop of `UtxoSync` is taken to go on: a `getBlockHeight`
that rejects is not caught (`ChainSynchronisation.ts:175`) and ends the loop, or the
worker with it, whose loss is not modelled. In `Plugins` the plugin thread and its
workers go on, and a call into a plugin returns, throws or is cut off by its timer;
the time-out of the indexer itself is fair only when the plugin thread is dead, so
`IndexerReleased` does not rest on it otherwise; a request to a worker that ended with
exit code 0 is ended by its own timer. In `Peers` each end handles what arrives,
notices a closed connection, drains its streams and runs the login timer when nothing
is on its way any more. Faults, crashes, deaths, chain switches, troubles and new
requests are not fair.

Deadlock is checked in `Utxo`. The other systems really may stop: the indexer after
a fault behind the purge, which leaves it locked, and at the tip, where it waits for
the next block; a purge, a plugin thread, peers, a mempool or a server have nothing to
do when nobody asks, and the bounds end the supply of requests.

What modelling and the runs showed about the code. Most of these are exceptions some
property names, so that nothing else of the kind happens:

* `revertChain` unlocks after a failed purge on the ground that "Storage was not
  modified", but earlier batches may have been deleted; `DatabaseSound` is therefore
  stated for behaviours without a failed call;
* `stopAllTasks` raises an abort signal that the task looks at only now and
  then; it can still write state or a header after the purge. `DatabaseSound`
  holds all the same: the height is processed again and purged or overwritten;
* a process that dies inside a batch of a purge can leave a header without its
  state;
* when the best chain is replaced by one that is not longer, the poller and the
  running task may revert at the same time, against what the flag `chainReorged`
  is for: the first to end unlocks the indexer while the other has still to set the
  height, and a block may then be stored on another branch. `Linked` is therefore
  stated for behaviours in which reverts do not overlap; the lock is not left behind
  in any (`LockExplained`);
* when the write of the height fails after a block was saved, the poller takes the
  stored height for a regression and may cancel the task that follows at the moment
  it saves its header; the block that comes in its place then replaces a stored one
  in one step. `IndexedChain` promises nothing after a failed call;
* a task that fails while `pendingBlockHeight` is at most 1 is skipped, not retried,
  and an orphaned header may stay at height 2; block 1 is not compared with the
  genesis block; and blocks that are `VerifyGap` (100) or more below the announced
  tip are not compared at all (`CheckedHeights`). These three and the one above came
  out of proof attempts and were then confirmed by TLC;
* a tip announced while `onChainReorganisation` waits is overwritten by the
  height read before, so the indexer stops short of the tip until the next
  block: `Converges` is about the target the indexer has;
* an error at height 1 or below stops the indexer for good (`halted`);
* a download that is under way when `CHAIN_REORG` arrives adds outputs of an
  orphaned block;
* a checksum that cannot be validated counts as a reorganisation; when a tip is
  announced late, the poller then takes the height the task reverted to for a
  regression, and two reverts overlap. `RevertsExclusive` is stated until a call fails;
* the notice that a worker died carries its `threadId`, which Node has set to -1 before
  the 'exit' event: no port is ever unlinked, although `Threader.ts:314-316` and
  `Thread.ts:270-279` are there for it. Dead ports stay in the round-robin, and each
  call that gets one waits for its timer of 240 seconds. `LinksSettle` holds all the
  same;
* a cancelled task does not look at its abort signal while it handles submissions: it
  may save those of an orphaned block behind the purge, where they count for the epoch
  (`skewed`), or set a height above the stored chain, from which an error never
  returns;
* a witness that is sent again with another time replaces the row whose proof was
  written; the proof then fails until the epoch is finalised again (`redated`);
* a revert into the middle of an epoch keeps its document, and the block that
  finalises the epoch again is executed with the solution of the orphaned branch;
  all other blocks get what their own chain gives them (`ChallengesSettled`);
* a `saveEpoch` that fails goes unnoticed, and from then on a later finalisation
  throws for ever; only `EPOCH_REINDEX` helps. `updateWitnessProofs` throws after
  its writes when a proof is unchanged, which goes unnoticed too;
* a promise of an ML-DSA key that was rejected stays in the cache of the VM and
  fails every later transaction of the block with that key: one failed read reverts
  several transactions (`marks`);
* the notice of a processed block can reach the plugins after the REORG that
  reverts it, and `dispatchReorg` stops at the first plugin that fails;
* a dead plugin worker raises an error and an exit event, and the second
  transition of its plugins throws in the plugin thread, which ends; the indexer
  is then released by its own time-out. One that ends with exit code 0 raises nothing:
  its plugins stay ENABLED in a worker that is gone;
* a first AUTH packet that arrives before the listener has identified its peer is
  dropped and never sent again: the login timer bans an honest node; likewise
  `encryptionStarted` is set after an awaited send, so that a quick answer is not
  decrypted. Neither happens while `healthy`;
* a witness is validated, then written after another wait; a purge between the two
  leaves a witness of a block that has gone;
* the mempool's cache takes the new list of identifiers before the transactions are
  fetched: one that could not be fetched is never asked for again; and a broadcast
  whose store, or the cleanup of what it replaced, fails after Bitcoin Core took it is
  reported as failed and not relayed;
* broadcasts are taken with a tolerance of one block, but the height compared with the
  tip is the one in progress: the stored chain may lack two blocks, and three after a
  revert (`SyncSettled`);
* the estimates of the fee predictor for medium and high priority lie below the one
  for low priority when the floor is high;
* a block replaced at the same height between two polls is never announced to the
  API's clients, a jump announces only the highest finalised epoch, and a block
  notification pairs the new height with the hash of the block below it; of two
  listeners that overlap the one with the older header may end last (`overlapped`);
* a block answer reads the header and the transactions one after the other and may
  mix two blocks, or lack the transactions of one that is being reverted, which the
  cache keeps; a submission may be stored after its epoch
  has closed; `targetEpochExists` looks for `publicKey` where documents have
  `mldsaPublicKey`, so a submission made twice is stored twice;
* the outputs, the pending transactions and the spends of a wallet are three
  queries, between which a block may be indexed or flushed; the confirmed ones are cut
  off by value before those the mempool spends are taken out;
* a simulation process that dies is neither replaced nor skipped: its calls end
  with their timer.

## 4. Proofs

Proved with TLAPS for every value of the constants that satisfies the named
assumptions, all of them evaluated by TLC in the runs: `MaxHeightAssumption`,
`BlocksAssumption`, `ChainsAssumption`, `OneHeightAssumption` (a block has the same
height in every chain), `GenesisAssumption` (chains share their first block),
`IndexerAssumption`, `RevertDataAssumption`, `UtxoSyncAssumption`,
`ThreadLinksAssumption`, `PeersAssumption` (there are two nodes), `WitnessesAssumption`,
`MempoolTipAssumption`, `MempoolAssumption` (among it that a package is not empty: the
route refuses such a one), `ScenariosAssumption`, `BlocksPerEpochAssumption` and
`WalletAssumption` (an output is created by one transaction).

**Types and the lock of the indexer** (`BlockIndexerProofs`, part one).

* `TypeCorrect`: `Spec => []TypeOK`. Inductive invariant `TypeInv` = `TypeOK` and
  `FetchedOK` (a task whose prefetch is done has a block); without the latter the
  header that is saved need not be a block. One lemma per action.
* `LockIsExplained`: `Spec => []LockExplained`, by `LockInv` (the faults left never
  exceed the bound, and the property itself), relative to `TypeInv`. This covers any
  number of overlapping reverts.

**Safety of the indexer** (`BlockIndexerProofs`, part two). The theorems have one hypothesis,
`GrowingMoves`: a chain that takes the place of the best one is higher. That is what
Bitcoin does but for a reorganisation to fewer blocks with more work, and it is the
set of moves of run `Indexer`; without it reverts may overlap, as section 3 says.

* `RevertsAreExclusive`: `Spec => []RevertsExclusive`. `StartsAreClean`: `CleanStart` in
  every state before the first failed call. The run checks `CleanStart` with failed
  calls as well; the invariant below does not survive those, because the height in the
  database then differs from that of the indexer and the poller may revert under a
  running task.
* `DatabaseIsSound`: `Spec => []DatabaseSound`. `StoredBlocksAreLinked`:
  `Spec => Linked`.

All of them follow from `GrowingChainSafe`, the invariance of `TypeInv` and
`FaultFree`: until a call fails, `SafetyInv` holds, whose five parts say

* `Control`: who may run. The lock is set exactly while some revert is in progress,
  there is one, and no task runs or is queued then;
* `Positions`: how `pendingBlockHeight`, the stored height, the task, the queue and
  the chain of the Bitcoin node lie to each other. A task that was not cancelled works
  at the frontier, which is never above what the node has announced; this is why the
  poller finds no regression while a task runs;
* `Database`: headers have no gap and are linked; while no revert is in progress
  everything below the frontier is stored, nothing above it is, and at the frontier
  there is exactly what the running task has written; during one, how far its purge
  has come;
* `Copies`: a remembered block is the stored one, if one is stored at its height, and
  the header last announced is on the best chain or was, below its top;
* `Examined`: what a task knows of its block and of the one below at each await.

None of the properties is inductive by itself: each needs that no write of a
cancelled task comes later, which is a relation of all five.

**Refinement** (`BlockIndexerProofs`, part three). `IndexerRefinesLedger`: under `GrowingMoves`,
`Spec => RefinesLedger`. The mapping `StoredChain` chooses the greatest height up to
which headers are stored; `Counted` adds that they end there, so that the choice can
be computed before and after a step (`StoredChainIs`). By `SafetyInv` a save appends
at that height on top of the parent, and every delete is a cut (`StepRefines`).

**Purge** (`RevertDataProofs`). `PurgeTypeCorrect`, `PurgeIsComplete`,
`PurgeInLockstep`, `PurgeKeepsBelow`: for every batch size, height and set of tables,
a purge that ends well leaves nothing at or above `blockId`, no table keeps a row
above the batch in progress, and no delete takes a row below. The inductive invariant
says how far each pass has come in each table and that `edge` stays between `blockId`
and the bound computed at the start (`InvHolds`).

**UTXO workers** (`UtxoSyncProofs`). `OutputsAreExplained`:
`Spec => []UtxosExplained`, for any workers, blocks, downloads, reverts and failures.
The property is about the time between reverts; the invariant adds what holds inside
one (`RevertSplits`: workers told, not told, and waiting for a write), that a download
somebody waits for is the only one of its height (`LiveFresh`), and that a batch
exists only while it is written.

**Threads** (`ThreadLinksProofs`). `BroadcastsAreHeard`: `Spec => []CallersServed`,
for any pool, calls, tries and deaths. The invariant follows the notice of a death from
the exit of the worker to the client, where it matches no port (`NoticesSayNothing`);
an id is never given twice (`IdsGiven`) and a worker's link is asked for once, so that
no port is listed twice (`NotLinkedTwice`); and whoever a call wrote to and no longer
waits for has answered or was given up, at any time and not only when the call ends
(`Heard`).

**Peers** (`PeersProofs`). For any number of connections, troubles and packets between
two nodes:

* `SessionsAgreeHolds`: `Spec => []SessionsAgree`, by `Sound`, which holds on any
  network: what is on the wire was sent by the object now in the sender's table, on the
  connection in use (`Fresh`), so a challenge or its answer never belongs to an earlier
  object (`Answerable`), and a client part is open towards the server object it was
  opened with (`KeysAgree`);
* `BansExplainedHolds`: `Spec => []BansExplained`, by `Sound` and `Calm`, which holds
  while the network is healthy and the nodes agree: of each step of the handshake at
  most one packet is on the wire (`Once`), and the two parts of a handshake and what is
  between them are at one of the places of a `Dialogue`, in none of which a packet is
  refused.

**Witnesses** (`WitnessesProofs`). For any threads, heights, limits, reorganisations,
messages and failed calls, by one invariant (`BlocksAreCarried`):

* `WitnessesAreExplained`: `Spec => []WitnessesExplained`. A witness that is being
  written was validated against the stored header, which is still there or went with
  a reorganisation (`JobsValidated`, `CaughtAreRedone`); an identity a thread takes
  for known has a row or a job that writes one (`KnownAreWritten`);
* `BlocksAreSelfWitnessed`: `Spec => []SelfWitnessed`. What is carried for a height
  that was never reverted, from the notice of the indexer over the waiting call and
  the message to the queue of a thread, is the stored block (`Carried`), and it is
  carried until its witness is stored (`Attended`). The last answer to a call of
  `onBlockProcessed` wakes all the calls behind it at once; none of their blocks may
  get lost then.

Nothing is assumed of what peers send.

**Mempool** (`MempoolProofs`). Three theorems, each with an invariant of what is
under way, for any transactions, packages, broadcasts at a time, blocks, failed calls
and restarts:

* `MempoolSyncSettles`: `Spec => []SyncSettled`, by `Following`: some call of
  `onBlockChange` will still load the solutions or decide about the gate, or the last
  one that did was that of the newest height (`Loads`, `Decides`, `Decided`), and
  `verifyBlockHeight` has at most one call under way (`Awaited`); the height in progress
  stays one or two above the stored one;
* `PoolIsExplained`: `Spec => []PoolExplained`, by `Swept`: every identifier in the
  cache is stored, excused or still to be stored by the round, and the deletes of the
  round never take what its list has;
* `AcceptedIsSpread`: `Spec => []AcceptedSpread`, by `Accounted`: what Bitcoin Core
  took is with subscribers and peers, was lost with a call (the cleanup after the store
  among them), or is carried by a
  broadcast (`Carried`: of a package that was submitted as a whole, everything from
  the current transaction on); and whatever the node considers known was relayed or
  came from a peer.

**API** (`ApiServerProofs`). For any scenario of blocks, requests and faults:

* `WalletsAreExplained`: `Spec => []WalletExplained`, by `WalletInv`: a transaction
  known when the query started that has not moved since is at every read in the
  mempool only, or on the chain with all its rows written (`Placed`), so that the
  reads, made at different times, agree about it (`ConfirmedRead`, `PendingRead`);
  a confirmed output that the limit or the least value kept out is worth no more than
  what was read (`Unlisted`);
* `TipsAgree`: `Spec => []TipAgrees`, by `TipInv`: as long as the last poll saw the
  last write and no listeners overlapped, the routes have the latest block or a
  listener will still announce it, and what a listener has read is that block
  (`TipFollows`, `Informed`); the one listener there is carries the height polled last
  (`HeightFollows`);
* `SubscribersAreTold`: `Spec => []SubscribersTold`, by `SubscribersInv`: what waits
  in the queue of a draining client continues what the client received; the blocks
  among both are the announcements in order (`Ordered`) and none since the
  subscription is missing (`Heard`). A listener under way stands for every epoch that
  is finalized and not announced (`EpochsFollow`). One settled promise answers all the
  requests that await it, in any order;
* `AnswersAreExplained`: `Spec => []AnswersExplained`, by `PromisesFollow`: whatever a
  promise has read so far is what the storage has, or is late, at the read and ever
  after, because the indexer numbers its writes above everything before them
  (`Later`); the routes remember only such promises. Of a block that is being reverted
  the transactions may be gone before the header or after it (`BlocksSound`,
  `BodiesSound`), and an answer that met it is accounted for. The argument decides when an
  epoch is open: a revert into an epoch keeps the document of that epoch, so the
  property goes by the block that closes the epoch and not by the absence of the
  document, which is the same thing only for epochs of two blocks.

Only model-checked: liveness under fairness, which is out of the prover's reach;
`Linked` and the refinement when the best chain may shrink, and `CleanStart` after a
failed call; `RequestsSettled` of `ApiServer`, which counts
requests by folds over the clients; and the properties of `Epochs`, `Plugins` and
`BlockExecution`. `TransactionParser`,
`ContractVM` and what extends them use recursive operators for call stacks, families
of transactions and the reference, so what they compute is checked over the bounded
chains only.

## 5. Not modelled

* Bytes: the WASM interpreter and its real gas prices, scripts, signatures and
  hashes. A flaw of a transaction names the check it fails; roots stand for what
  they commit to.
* In `Block` and the VM: contract updates, transient storage, the parallel
  batch reads, the validation of proofs when a block is read (a constant switches it
  off).
* Read-only, REINDEX, RESYNC and light modes of the indexer.
* `ConsensusTracker`: one comparison with a constant height, without state that
  relates to another part.
* P2P discovery, relays and libp2p itself; `BlacklistManager`, which nothing uses.
* Plugins' own APIs, routes and opcodes (`setPluginRegistry` is never called), hot
  reload, the state store.
* Mempool: PSBTs, statistics. API: the wording of answers and the routes that only
  read.
* UTXO workers: their restart, which loses the outputs in memory, and the
  classification of anyone-can-spend outputs. Threads: the death of the client and a
  second pool, whose workers only the asking side links again.
* Witnesses above the latest header, which `revertBlockHeadersOnly` keeps. Epochs:
  the limit of 500,000 attestations.
* Merged awaits. Indexer: `finalizeBlock` and the search for conflicting transactions
  run side by side (`IndexingTask.ts:177-182`), and an abort that ends the search
  releases the task while `finalizeBlock` still saves; the model keeps the processor
  until the header is written, so a header written under the next task is not covered.
  `setNewHeight` in memory and in the database, and the two reads of the tip
  (`RPCBlockFetcher.ts:33-38`), are one step each. Witnesses: a revert takes headers and
  witnesses in one step, and the flush of pending heights is one. Peers: the awaits
  inside `disconnectPeer`. API: deployments and transactions of a block are one read
  and are saved with its header; a poll and the start of its listeners; the second read
  of an epoch, of its template and of a preimage; an answer with submissions is not kept
  apart from one without. Plugins: `getPluginSyncState` before a reindex, and a
  shutdown that begins while `handleReindex` runs.
* Narrower than the code. Peers: a dial beside a connection that is up, and a protocol
  version that only one side refuses. Witnesses: a peer sends witnesses of the heights
  and branches of the model, not arbitrary ones. Mempool: a package that Bitcoin Core
  rejects leaves it unchanged, and the deletes of the indexer itself
  (`IndexingTask.ts:259-314`) are not an action: what is mined or replaced stays in the
  collection until the next round. VM: the check
  of the gas of a store before it is made (`ContractEvaluator.ts:270-274`), on both sides
  of the comparison. Wallets: the filter `olderThan`. WebSocket: the limit of connections
  counts a client until it is closed, not until `onClose` has run. API: finalised epochs
  are compared by number, so a second finalisation after a revert, which is never
  announced, is not missed.
* More than the properties need: the bands of the fee predictor and the tables of
  handlers are there to follow the code.
* Configuration, SSH console, logging: input and output.
* MongoDB and Bitcoin Core appear only as the code uses them.

## 6. Plan

1. Proofs: `CleanStart` with failed calls, and `Linked` without `GrowingMoves`, both
   of which need an invariant that allows the stored height to lag behind;
   `RequestsSettled` of `ApiServer`; `Epochs` and `Plugins`.
2. `UtxoSync` with a restart of the process, and composed with `RevertData`.
3. Read-only and REINDEX modes of the indexer.
