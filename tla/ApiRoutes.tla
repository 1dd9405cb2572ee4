----------------------------- MODULE ApiRoutes -----------------------------
(***************************************************************************)
(* What the API thread knows of the chain: the collections the indexer     *)
(* writes (store), the poller that notices a new height and the listener   *)
(* of api/Server.ts it starts (feed), and what the routes of api/routes    *)
(* keep between two requests (cache).  A query that is not answered from   *)
(* memory is a promise: a sequence of reads of the storage, each of them   *)
(* one step, whose result every request that awaits it receives at once.   *)
(*                                                                         *)
(* Blocks and epochs are the numbers of their writing among all writes and *)
(* deletions, so that the block that replaces another at the same height   *)
(* can be told from it; 0 is "undefined".  Heights start at 0.             *)
(***************************************************************************)
EXTENDS Integers, Sequences, FiniteSets, SequencesExt

CONSTANTS
    BlocksPerEpoch,             \* OPNetConsensus EPOCH.BLOCKS_PER_EPOCH
    MaximumParallelBlockQuery   \* Config.API.MAXIMUM_PARALLEL_BLOCK_QUERY

ASSUME BlocksPerEpochAssumption == BlocksPerEpoch \in Nat \ {0}

VARIABLES
    store,      \* the database: blocks, epochs, submissions and the height
    feed,       \* lastPolledBlockHeight and the listeners that still run
    cache,      \* what the routes remember
    promises    \* every query of the storage made so far

routeVars == <<store, feed, cache, promises>>

-----------------------------------------------------------------------------
(* The storage and the indexer that writes it.                             *)

Height(s) == Len(s.blocks) - 1
GetLatestBlock(s) == Last(s.blocks)
GetBlockHeader(s, n) == IF n \in 0..Height(s) THEN s.blocks[n + 1] ELSE 0
\* The block whose transactions are stored at a height.
GetTransactions(s, n) == IF n + 1 \in DOMAIN s.bodies THEN s.bodies[n + 1] ELSE 0
GetEpochByNumber(s, n) ==
    IF n \in Nat /\ n + 1 \in DOMAIN s.epochs THEN s.epochs[n + 1] ELSE 0
GetLatestEpoch(s) == IF s.epochs = <<>> THEN 0 ELSE Last(s.epochs)
CalculateCurrentEpoch(height) == height \div BlocksPerEpoch

\* A chain that the indexer has completed up to height n.
StoreWith(n) ==
    [blocks |-> [i \in 1..n + 1 |-> i], bodies |-> [i \in 1..n + 1 |-> i], tables |-> {},
     epochs |-> [e \in 1..CalculateCurrentEpoch(n) |-> e * BlocksPerEpoch + 1],
     info |-> n + 1, step |-> "idle", pending |-> n, submissions |-> {},
     next |-> n + 2]

\* The block's header is saved, after its transactions.
SaveBlockHeader ==
    /\ store.step = "idle"
    /\ store' = [store EXCEPT !.blocks = Append(@, store.next),
                              !.bodies = Append(@, store.next),
                              !.next = @ + 1, !.step = "saved",
                              !.pending = Len(store.blocks)]

\* updateEpoch: the first block of an epoch finalizes the epoch before it.
UpdateEpoch ==
    /\ store.step = "saved"
    /\ LET n == store.pending
           e == CalculateCurrentEpoch(n)
       IN store' = [store EXCEPT
              !.step = "announce", !.next = @ + 1,
              !.epochs = IF n % BlocksPerEpoch = 0
                            THEN SubSeq(@, 1, e - 1) \o <<store.next>>
                                     \o SubSeq(@, e + 1, Len(@))
                            ELSE @]

\* setNewHeight, after a block and after a revert: the height in progress is
\* the one after the height given.
SetNewHeight ==
    /\ store.step = "announce"
    /\ store' = [store EXCEPT !.step = "idle", !.info = store.pending + 1]

\* A reorganisation deletes the submissions, and then what is stored from the
\* fork on, in tables that are deleted one by one; the height is set to the
\* fork's at the end.
Tables == {"headers", "transactions", "epochs"}

RevertDataUntilBlock(fork) ==
    /\ store.step = "idle"
    /\ fork \in 1..Height(store)
    /\ store' = [store EXCEPT !.step = "purge", !.pending = fork, !.next = @ + 1,
                              !.tables = Tables, !.submissions = {}]

DeleteInRange(table) ==
    /\ store.step = "purge" /\ table \in store.tables
    /\ LET fork == store.pending
           kept == {e \in DOMAIN store.epochs : (e - 1) * BlocksPerEpoch < fork}
       IN store' = [store EXCEPT
              !.tables = @ \ {table}, !.next = @ + 1,
              !.step = IF store.tables = {table} THEN "announce" ELSE @,
              !.blocks = IF table = "headers" THEN SubSeq(@, 1, fork) ELSE @,
              !.bodies = IF table = "transactions" THEN SubSeq(@, 1, fork) ELSE @,
              !.epochs = IF table = "epochs" THEN SubSeq(@, 1, Cardinality(kept)) ELSE @]

\* The blocks that are stored and not being deleted.
Kept(s) == {s.blocks[i] : i \in {j \in DOMAIN s.blocks : s.step = "purge" => j <= s.pending}}

-----------------------------------------------------------------------------
(* Queries.  n is the height, the number of the block or epoch meant, or   *)
(* the hash; full asks for the transactions too.                           *)

Query(route, n, full) == [route |-> route, n |-> n, full |-> full]

\* A promise: its query, what it does next, and what it has read.  born is
\* the number of the next write when it was made, or when what it accepts was
\* checked; fault, that a query failed; lag, that the height known then was
\* not the storage's (history only).
Promise(q) ==
    [q |-> q,
     at |-> CASE q.route = "preimage" -> "tip"
              [] q.route = "submit" -> "exists"
              [] q.route = "call" -> "simulation"
              [] OTHER -> "read",
     ok |-> FALSE, v |-> 0, w |-> 0, born |-> store.next, fault |-> FALSE, lag |-> FALSE]

Pending(p) == promises[p].at # "done"
Answer(ok, v, w) == [ok |-> ok, v |-> v, w |-> w]
AnswerOf(pr) == Answer(pr.ok, pr.v, pr.w)
Thrown == Answer(FALSE, 0, 0)

\* What a route returns: the caches after it, and either an answer at once,
\* from a promise that is settled or from memory, or the promise it awaits
\* (the new one if it is the last of ps).
Returns(c, answer) ==
    [cache |-> c, ps |-> promises, answer |-> answer, on |-> 0, from |-> 0]
Awaits(c, p) == [Returns(c, Thrown) EXCEPT !.on = p]
AwaitsNew(c, q) ==
    [Awaits(c, Len(promises) + 1) EXCEPT !.ps = Append(@, Promise(q))]
NewPromise == Len(promises) + 1

\* Awaiting a promise that is settled answers in the same turn.
Await(c, p) ==
    IF Pending(p) THEN Awaits(c, p)
    ELSE [Returns(c, AnswerOf(promises[p])) EXCEPT !.from = p]

\* What a memory holds: nothing, a value, or a promise.
None == [is |-> "none", v |-> 0]
Value(v) == [is |-> "value", v |-> v]
Promised(p) == [is |-> "promise", v |-> p]

-----------------------------------------------------------------------------
(* The routes.                                                             *)

\* AdvancedCaching: the promise kept under a key, 0 if there is none.
GetCachedData(entries, q) ==
    IF \E e \in entries : e.q = q THEN (CHOOSE e \in entries : e.q = q).p ELSE 0

\* setToCache replaces what the key had.
SetToCache(entries, q, p) == {e \in entries : e.q # q} \cup {[q |-> q, p |-> p]}

\* BlockByNumber, BlockByHash and BlockByChecksum: the latest block without
\* its transactions is the one announced last; anything else is the promise
\* of the first request for it, settled or not.
GetCachedBlockData(q) ==
    IF q.route = "block" /\ q.n = -1 /\ cache.current # 0 /\ ~q.full
        THEN Returns(cache, Answer(TRUE, cache.current, cache.current))
        ELSE LET p == GetCachedData(cache.blocks, q)
             IN IF p # 0 THEN Await(cache, p)
                ELSE AwaitsNew([cache EXCEPT !.blocks = SetToCache(@, q, NewPromise)], q)

\* EpochByNumber: the same, with the epoch announced last.
GetCachedEpochData(q) ==
    IF q.n = -1 /\ cache.currentEpoch # 0
        THEN Returns(cache, Answer(TRUE, cache.currentEpoch, 0))
        ELSE LET p == GetCachedData(cache.epochs, q)
             IN IF p # 0 THEN Await(cache, p)
                ELSE AwaitsNew([cache EXCEPT !.epochs = SetToCache(@, q, NewPromise)], q)

\* LatestBlock answers with the height of the block announced last, or with
\* the promise of its first request.
LatestBlockHeader(q) ==
    CASE cache.latest.is = "value" -> Returns(cache, Answer(TRUE, cache.latest.v, 0))
      [] cache.latest.is = "promise" -> Await(cache, cache.latest.v)
      [] OTHER -> AwaitsNew([cache EXCEPT !.latest = Promised(NewPromise)], q)

\* GasRoute: the gas of the block announced last; the fees of the mempool
\* thread are added when they are there (a failed request leaves them out).
GasData(q) ==
    CASE cache.gas.is = "value" -> Returns(cache, Answer(TRUE, cache.gas.v, 0))
      [] cache.gas.is = "promise" -> Await(cache, cache.gas.v)
      [] OTHER -> AwaitsNew([cache EXCEPT !.gas = Promised(NewPromise)], q)

\* LatestEpoch: a value younger than its time to live, or a new query, whose
\* result replaces whatever is there when it comes.
LatestEpochData(q) ==
    IF cache.epoch.is = "value" /\ cache.epochFresh
        THEN Returns(cache, Answer(TRUE, cache.epoch.v, 0))
        ELSE AwaitsNew([cache EXCEPT !.epoch = Promised(NewPromise)], q)

\* GetEpochTemplate: a promise computed for the epoch being mined less than
\* CACHE_DURATION_MS ago, or a new one for the height announced last.
TemplateData(q) ==
    LET t == cache.template
        query == [q EXCEPT !.n = cache.height]
    IN IF /\ t.p # 0
          /\ t.epoch = CalculateCurrentEpoch(cache.height)
          /\ t.fresh
          THEN Await(cache, t.p)
          ELSE AwaitsNew([cache EXCEPT !.template.p = NewPromise], query)

\* GetPreimage: a promise younger than its time to live, or a new one.
PreimageData(q) ==
    IF cache.preimage.p # 0 /\ cache.preimage.fresh
        THEN Await(cache, cache.preimage.p)
        ELSE AwaitsNew([cache EXCEPT !.preimage.p = NewPromise], q)

\* SubmitEpoch: refused before any query when no height is known.
SubmitData(q) ==
    IF cache.height = 0 THEN Returns(cache, Thrown) ELSE AwaitsNew(cache, q)

\* The routes that query the storage for every request.
DirectData(q) == AwaitsNew(cache, q)

BlockRoutes == {"block", "hash", "checksum"}

\* incrementPendingRequests: the block routes refuse what is over the limit.
TooManyPending(q) ==
    q.route \in BlockRoutes /\ cache.pendingRequests >= MaximumParallelBlockQuery

GetData(q) ==
    IF TooManyPending(q) THEN Returns(cache, Thrown)
    ELSE CASE q.route \in BlockRoutes -> GetCachedBlockData(q)
           [] q.route = "epoch" -> GetCachedEpochData(q)
           [] q.route = "latest" -> LatestBlockHeader(q)
           [] q.route = "gas" -> GasData(q)
           [] q.route = "latestEpoch" -> LatestEpochData(q)
           [] q.route = "template" -> TemplateData(q)
           [] q.route = "preimage" -> PreimageData(q)
           [] q.route = "submit" -> SubmitData(q)
           [] OTHER -> DirectData(q)

\* The block routes count a request until it is answered; the epoch routes
\* count it only while they look into their cache.
Counted(q, r) == IF q.route \in BlockRoutes /\ r.on # 0 THEN 1 ELSE 0

-----------------------------------------------------------------------------
(* What a promise reads, one query of the storage at a time: the outcome   *)
(* is the promise after the read, and a failed read rejects it.            *)

Settled(pr, ok, v, w) == [pr EXCEPT !.at = "done", !.ok = ok, !.v = v, !.w = w]
Found(pr, v) == Settled(pr, v # 0, v, 0)
Rejected(pr) == Settled(pr, FALSE, 0, 0)
Failed(pr) == [Rejected(pr) EXCEPT !.fault = TRUE]

\* getBlockTransactions: the header, and then, by its height, the
\* transactions and deployments.
BlockRead(pr) ==
    LET n == pr.q.n
        header == CASE pr.q.route # "block" -> IF n \in Range(store.blocks) THEN n ELSE 0
                    [] pr.q.route = "block" /\ n = -1 -> GetLatestBlock(store)
                    [] OTHER -> GetBlockHeader(store, n)
        height == CHOOSE h \in 0..Height(store) : GetBlockHeader(store, h) = header
    IN IF header # 0 /\ pr.q.full
          THEN [pr EXCEPT !.at = "body", !.v = header, !.w = height]
          ELSE Settled(pr, header # 0, header, header)

\* The block whose transactions are found at the height of the header read:
\* that block, the one that replaced it, or none.
BodyRead(pr) == Settled(pr, TRUE, pr.v, GetTransactions(store, pr.w))

EpochRead(pr) ==
    Found(pr, IF pr.q.n = -1 THEN GetLatestEpoch(store) ELSE GetEpochByNumber(store, pr.q.n))

\* The transaction, receipt, output, key, contract or storage slot asked for
\* (n), or undefined.
DirectRead(pr) == Settled(pr, TRUE, pr.q.n, 0)

\* computeTemplate: the last block before the epoch being mined.
TemplateRead(pr) ==
    LET e == CalculateCurrentEpoch(pr.q.n)
    IN Found(pr, IF e = 0 THEN 0 ELSE GetBlockHeader(store, e * BlocksPerEpoch - 1))

\* getPreimageData: the latest block gives the epoch, two before its own;
\* there is no answer when there are not as many.
PreimageTip(pr) ==
    LET target == CalculateCurrentEpoch(Height(store) + 1) - 2
    IN IF target < 0 THEN Rejected(pr) ELSE [pr EXCEPT !.at = "epoch", !.w = target]
PreimageEpoch(pr) == [Found(pr, GetEpochByNumber(store, pr.w)) EXCEPT !.w = pr.w]

\* solutionExists asks for a field that the documents do not have.
TargetEpochExists(pr) == FALSE

\* Mutant: the block named by the submission is looked up, and its epoch is
\* not compared with the one being mined.
ValidateAnyEpoch(pr) ==
    LET h == {x \in 0..Height(store) : GetBlockHeader(store, x) = pr.q.n}
    IN IF h = {} THEN Rejected(pr)
       ELSE [pr EXCEPT !.at = "save", !.v = pr.q.n, !.born = store.next,
                       !.w = CalculateCurrentEpoch((CHOOSE x \in h : TRUE) + 1),
                       !.lag = cache.height # store.info]

\* validateEpochSolution: only the epoch being mined, at the height known
\* now, and only for the block that is its target.  q.n is the target.
ValidateEpochSolution(pr) ==
    LET e == CalculateCurrentEpoch(cache.height)
        header == GetBlockHeader(store, e * BlocksPerEpoch - 1)
    IN IF e = 0 \/ header = 0 \/ header # pr.q.n THEN Rejected(pr)
       ELSE [pr EXCEPT !.at = "save", !.v = header, !.w = e,
                       !.born = store.next, !.lag = cache.height # store.info]

\* A stored submission, under its epoch and its salt.
SaveTargetEpoch(pr) == [epoch |-> pr.w, target |-> pr.v]

\* The routes that keep what they read.
RememberingRoutes == BlockRoutes \cup {"epoch", "latestEpoch", "template", "latest", "gas"}

Read(pr) ==
    CASE pr.at = "read" /\ pr.q.route \in BlockRoutes -> BlockRead(pr)
      [] pr.at = "body" -> BodyRead(pr)
      [] pr.at = "read" /\ pr.q.route = "epoch" -> EpochRead(pr)
      [] pr.at = "read" /\ pr.q.route = "latestEpoch" -> Found(pr, GetLatestEpoch(store))
      [] pr.at = "read" /\ pr.q.route = "template" -> TemplateRead(pr)
      [] pr.at = "read" /\ pr.q.route = "latest" -> Settled(pr, TRUE, Height(store), 0)
      [] pr.at = "read" /\ pr.q.route = "gas" -> Settled(pr, TRUE, GetLatestBlock(store), 0)
      [] pr.at = "read" /\ pr.q.route \notin RememberingRoutes -> DirectRead(pr)
      [] pr.at = "tip" -> PreimageTip(pr)
      [] pr.at = "epoch" -> PreimageEpoch(pr)
      [] pr.at = "exists" -> IF TargetEpochExists(pr) THEN Rejected(pr)
                             ELSE [pr EXCEPT !.at = "validate"]
      [] pr.at = "validate" -> ValidateEpochSolution(pr)
      [] pr.at = "save" -> Settled(pr, TRUE, pr.v, pr.w)

\* What a route stores when its query has answered: the template and the
\* preimage their time, the latest epoch its value (or nothing when it
\* failed, whatever was announced meanwhile).
Remember(c, p, pr) ==
    CASE pr.at # "done" -> c
      [] pr.q.route = "template" /\ pr.ok ->
             [c EXCEPT !.template.epoch = CalculateCurrentEpoch(pr.q.n),
                       !.template.fresh = TRUE]
      [] pr.q.route = "preimage" /\ pr.ok -> [c EXCEPT !.preimage.fresh = TRUE]
      [] pr.q.route = "latestEpoch" ->
             IF pr.ok THEN [c EXCEPT !.epoch = Value(pr.v), !.epochFresh = TRUE]
             ELSE [c EXCEPT !.epoch = None]
      [] OTHER -> c

-----------------------------------------------------------------------------
(* What is announced to the routes.                                        *)

\* onBlockChange of the block routes, LatestBlock, GasRoute, GetEpochTemplate,
\* SubmitEpoch and GetPreimage, and of the WebSocket manager.
BlockRouteChange(c, block) == [c EXCEPT !.current = block]
\* Mutant: the latest block is remembered only once.
LatestBlockChangeOnce(c, height) ==
    IF c.latest.is = "value" THEN c ELSE [c EXCEPT !.latest = Value(height)]

LatestBlockChange(c, height) == [c EXCEPT !.latest = Value(height)]
GasChange(c, block) == [c EXCEPT !.gas = Value(block)]
TemplateChange(c, height) ==
    [c EXCEPT !.height = height,
              !.template = IF CalculateCurrentEpoch(c.height) # CalculateCurrentEpoch(height)
                              THEN [p |-> 0, epoch |-> -1, fresh |-> FALSE] ELSE @]
PreimageChange(c, height) ==
    [c EXCEPT !.preimage = IF @.height # height
                              THEN [p |-> 0, fresh |-> FALSE, height |-> height] ELSE @]

OnBlockChange(c, height, header) ==
    LET c1 == LatestBlockChange(GasChange(BlockRouteChange(c, header.block), header.block),
                                header.number)
    IN [PreimageChange(TemplateChange(c1, height), height) EXCEPT !.wsHeight = height]

\* onEpochFinalized of the epoch routes, which deletes a key that no entry
\* has, and of LatestEpoch.
OnEpochFinalized(c, epoch) ==
    [c EXCEPT !.currentEpoch = epoch, !.epoch = Value(epoch), !.epochFresh = TRUE]

\* A route's memory when the thread starts.  The template and the submit
\* route have read the height of the latest block (initialize).
ColdCache(height) ==
    [current |-> 0, latest |-> None, gas |-> None, epoch |-> None,
     epochFresh |-> FALSE, currentEpoch |-> 0, height |-> height,
     template |-> [p |-> 0, epoch |-> -1, fresh |-> FALSE],
     preimage |-> [p |-> 0, fresh |-> FALSE, height |-> -1],
     blocks |-> {}, epochs |-> {}, pendingRequests |-> 0, wsHeight |-> 0,
     lastFinalizedEpoch |-> -1]

-----------------------------------------------------------------------------
(* The poller and the listener.                                            *)

\* The latest header, as one read of the storage finds it.
Header(s) == [block |-> GetLatestBlock(s), number |-> Height(s)]
NoHeader == [block |-> 0, number |-> -1]

\* A listener that runs: the height it was called with, the latest header once
\* it has been read, and the epoch it reads (-1 before).
Listener(height) == [height |-> height, header |-> NoHeader, epoch |-> -1]

\* getCurrentBlockAndTriggerListeners, when the server starts.  seen is the
\* number of the storage's next write at the last trigger, and told counts
\* what the clients were told (history only).
FeedStarted(s) ==
    [polled |-> s.info, running |-> <<Listener(s.info)>>, seen |-> s.next,
     failed |-> FALSE, overlapped |-> FALSE, skipped |-> {}, told |-> 0,
     toldEpochs |-> {}]

\* startPolling: a height that differs from the last one polled starts the
\* listeners.
Poll ==
    /\ store.info # feed.polled
    /\ feed' = [feed EXCEPT !.polled = store.info,
                            !.running = Append(@, Listener(store.info)),
                            !.seen = store.next,
                            !.failed = FALSE,
                            !.overlapped = feed.running # <<>>]

HighestPossibleFinalizedEpoch(height) ==
    LET e == CalculateCurrentEpoch(height - 1) IN IF e > 0 THEN e - 1 ELSE -1

\* The epoch, if any, that a listener goes on to announce.
NewlyFinalized(height) ==
    LET n == HighestPossibleFinalizedEpoch(height)
    IN IF n > cache.lastFinalizedEpoch THEN n ELSE -1

\* The storage's answer to getLatestBlock, which the listener goes on with
\* when it is its turn.
HeaderRead(k) ==
    /\ feed.running[k].epoch = -1 /\ feed.running[k].header = NoHeader
    /\ feed' = [feed EXCEPT !.running[k].header = Header(store)]

\* After the latest header has been announced: the listener ends, or goes on
\* to read the epoch.  The epochs it steps over are history.
AfterBlockChange(k) ==
    LET n == NewlyFinalized(feed.running[k].height)
    IN [feed EXCEPT
           !.running = IF n = -1 THEN RemoveAt(@, k) ELSE [@ EXCEPT ![k].epoch = n],
           !.told = @ + 1,
           !.skipped = @ \cup (cache.lastFinalizedEpoch + 1)..(n - 1)]

\* After the epoch has been read.
AfterEpochFinalized(k) ==
    [feed EXCEPT !.running = RemoveAt(@, k),
                 !.toldEpochs = @ \cup {feed.running[k].epoch}]

\* A read that fails, or an epoch that is not there, ends the listener;
\* nothing is tried again.
ListenerFails(k) ==
    LET n == feed.running[k].epoch
    IN [feed EXCEPT !.running = RemoveAt(@, k),
                    !.failed = @ \/ n = -1,
                    !.skipped = IF n = -1 THEN @ ELSE @ \cup {n}]
=============================================================================
