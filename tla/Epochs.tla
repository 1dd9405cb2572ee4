-------------------------------- MODULE Epochs --------------------------------
(***************************************************************************)
(* Epoch mining: EpochManager, the epoch and submission repositories, the  *)
(* part of Block that collects submissions, and EpochReindexer, driven by  *)
(* the tasks of the indexer.                                               *)
(*                                                                         *)
(* Every BlocksPerEpoch blocks form an epoch.  A transaction may carry a   *)
(* solution to the checksum root of the last block of the epoch before.    *)
(* The first block after an epoch finalises it: the best solution stored   *)
(* for it becomes its proposer.  Later blocks are executed with the        *)
(* solutions of a window of epochs, so what a block computes depends on    *)
(* which epochs are stored when its task starts.                           *)
(*                                                                         *)
(* A block stands for its checksum root and an epoch document for its      *)
(* hash.  A revert is one step here, but does not wait for the task it     *)
(* cancels, which may still write submissions, an epoch and the height.    *)
(* The header it may still write, and purges cut short, belong to          *)
(* BlockIndexer and RevertData.                                            *)
(***************************************************************************)
EXTENDS BitcoinNode, EpochTree, FiniteSetsExt

CONSTANTS
    BlocksPerEpoch,     \* EPOCH.BLOCKS_PER_EPOCH
    SolutionLifetime,   \* EPOCH.SOLUTION_LIFETIME
    AttestationDelay,   \* 4: how many epochs back an epoch attests to
    MinDifficulty,      \* EPOCH.MIN_DIFFICULTY
    Carried,            \* the submissions of a block, in transaction order
    Bits(_, _, _),      \* matching bits of <<checksum root, key, salt>>
    LinkedKeys,         \* the keys with a known wallet
    Genesis,            \* the proposer of an epoch nobody solved
    NoEpoch,            \* a missing document
    WhitelistedKey,     \* EARLY_MINING's key, and the end blocks of the epochs
    WhitelistedEnds,    \*   only it may win
    ReindexFrom,        \* EPOCH_REINDEX_FROM_EPOCH of the starts that reindex
    MaxReorgs,          \* bound, as in BlockIndexer
    Budgets             \* bounds: the faults, crashes and witnesses of a behaviour

Numbers == 0 .. MaxHeight \div BlocksPerEpoch

Epoch(h) == h \div BlocksPerEpoch
StartBlock(n) == n * BlocksPerEpoch
EndBlock(n) == StartBlock(n) + BlocksPerEpoch - 1

ASSUME EpochsAssumption ==
    /\ BlocksPerEpoch \in Nat \ {0} /\ SolutionLifetime \in Nat
    /\ AttestationDelay \in Nat \ {0}
    /\ \A b \in Blocks : \A i \in DOMAIN Carried[b] :
           DOMAIN Carried[b][i] = {"tx", "key", "salt"}
    /\ ReindexFrom \subseteq Nat
    /\ \A budget \in Budgets : \A w \in budget.coming :
           w.at \in Heights /\ w.key \in Nat \ {0} /\ w.time > 1

VARIABLES
    headers,      \* block headers by height
    epochs,       \* the Epochs collection, by epoch number
    submissions,  \* the EpochSubmissions collection
    roots,        \* root and proof of each epoch's document
    witnesses,    \* the Witnesses collection, with the proofs of the epochs
    height,       \* ChainObserver.pendingBlockHeight
    bestTip,      \* the height of the next task
    announced,    \* the tip the poller last announced
    halted,       \* a processing error left nothing to start tasks again
    task,         \* the running task, or how far start-up has come
    used,         \* history: what each stored block was executed with
    lost,         \* history: epochs whose document was not (re)written
    unproved,     \* history: epochs whose witnesses were not all updated
    skewed,       \* history: heights whose submissions are not their block's
    faults, crashes, coming  \* failing calls, crashes and witnesses to come

nodeVars == <<chain, reorgBudget>>
treeVars == <<roots, witnesses, unproved>>
dbVars == <<headers, epochs, submissions, treeVars, used, lost, skewed>>
vars == <<nodeVars, dbVars, height, bestTip, announced, halted, task, faults, crashes, coming>>

Unset == [number |-> -1, block |-> NoBlock]

\* The task: what its block is executed with, whether it was cancelled, and
\* what it has read and is about to write.
Idle == [pc |-> "idle", tip |-> 0, block |-> NoBlock, given |-> << >>, lost |-> {},
         aborted |-> FALSE, docs |-> {}, work |-> NoEpoch]
At(pc) == [Idle EXCEPT !.pc = pc]
Thrown == [At("catch") EXCEPT !.aborted = task.aborted]

-----------------------------------------------------------------------------
(* Submissions *)

\* submissionExists.
SubmissionExists(n, s) ==
    \E d \in submissions : d.epoch = n /\ d.key = s.key /\ d.salt = s.salt

\* extractUniqueSubmissions: the first of each salt and key.
UniqueSubmissions(carried) ==
    {carried[i] : i \in {j \in DOMAIN carried : \A k \in 1 .. j - 1 :
        <<carried[k].key, carried[k].salt>> # <<carried[j].key, carried[j].salt>>}}

\* validateEpochSubmission, and the wallet saveEpochSubmissions asks for.
ValidSubmission(target, s) ==
    /\ Bits(target, s.key, s.salt) >= MinDifficulty
    /\ s.key \in LinkedKeys

\* The documents processSubmissions saves for block b at height h.
NewSubmissions(h, b) ==
    {[tx |-> s.tx, key |-> s.key, salt |-> s.salt, epoch |-> Epoch(h), at |-> h] :
        s \in {s \in UniqueSubmissions(Carried[b]) :
                  /\ ~SubmissionExists(Epoch(h), s)
                  /\ ValidSubmission(headers[StartBlock(Epoch(h)) - 1], s)}}

\* saveSubmission replaces the document of the same transaction.
Upsert(docs, new) == {d \in docs : \A s \in new : s.tx # d.tx} \cup new

-----------------------------------------------------------------------------
(* Epochs *)

\* filterEarlyMiningSubmissions.
Eligible(docs, n) ==
    IF EndBlock(n) \in WhitelistedEnds
    THEN {d \in docs : d.key = WhitelistedKey} ELSE docs

\* More matching bits, then the lower key, then the lower transaction hash.
Beats(target, d, e) ==
    \/ Bits(target, d.key, d.salt) > Bits(target, e.key, e.salt)
    \/ /\ Bits(target, d.key, d.salt) = Bits(target, e.key, e.salt)
       /\ d.key < e.key \/ (d.key = e.key /\ d.tx < e.tx)

\* getBestSubmission, or the genesis proposer.
Winner(docs, n, target) ==
    LET best == {d \in Eligible(docs, n) :
                    \A e \in Eligible(docs, n) \ {d} : Beats(target, d, e)}
    IN  IF n = 0 \/ best = {} THEN Genesis
        ELSE LET d == CHOOSE d \in best : TRUE IN [key |-> d.key, salt |-> d.salt]

\* The header of the last block of the epoch before; epoch 0 has none.
MiningTarget(n) == IF n = 0 THEN NoBlock ELSE headers[StartBlock(n) - 1]

\* The document finalizeEpoch writes.
NewEpoch(n) ==
    [target   |-> MiningTarget(n),
     winner   |-> Winner({d \in submissions : d.epoch = n}, n, MiningTarget(n)),
     attested |-> IF n < AttestationDelay THEN NoBlock
                  ELSE headers[EndBlock(n - AttestationDelay)],
     previous |-> IF n = 0 THEN NoEpoch ELSE epochs[n - 1]]

\* What finalizeEpochCompletion needs; without it, it throws.
MayFinalize(n) ==
    /\ n > 0 => epochs[n - 1] # NoEpoch /\ headers[StartBlock(n) - 1] # NoBlock
    /\ n >= AttestationDelay =>
         /\ epochs[n - AttestationDelay] # NoEpoch
         /\ headers[EndBlock(n - AttestationDelay)] # NoBlock

\* getWitnessesForEpoch.
WitnessesForEpoch(n) == {w \in witnesses : w.at \in StartBlock(n) .. EndBlock(n)}

Attested(w) == WitnessToAttestation(w, headers[w.at])

\* The frozen tree of an epoch, with all the witnesses known by now.
NewTree(n) ==
    GenerateTree(EpochLeaf(n, NewEpoch(n)), {Attested(w) : w \in WitnessesForEpoch(n)},
                 DummyAttestations(StartBlock(n), EndBlock(n), NoBlock))

\* What finalizeEpochCompletion(n) reads and computes before it writes.
Computed(n) ==
    [number |-> n, doc |-> NewEpoch(n), tree |-> NewTree(n),
     rows |-> {Attested(w) : w \in WitnessesForEpoch(n)}]

\* The columns of the epoch's document that depend on the tree.
Rooted(tree) == [tree |-> tree, proof |-> GetProofHashes(tree, tree[1])]

\* The attestations read for row w, unless it was rewritten since.
Matching(work, w) ==
    {a \in work.rows : <<a.at, a.key, a.time>> = <<w.at, w.key, w.time>>}

Proved(work, w) ==
    [w EXCEPT !.proof = GetProofHashes(work.tree, CHOOSE a \in Matching(work, w) : TRUE),
              !.redated = FALSE]

\* Mutant: a witness that has a proof keeps it.
UpdateNewWitnessProofs(work) ==
    {IF Matching(work, w) # {} /\ w.proof = NoEpoch THEN Proved(work, w) ELSE w :
        w \in witnesses}

\* updateWitnessProofs finds the rows by block, key and signature; it throws
\* when it finds too few or the tree has dummies, which nobody notices.
UpdateWitnessProofs(work) ==
    {IF Matching(work, w) # {} THEN Proved(work, w) ELSE w : w \in witnesses}

SaveEpoch(work) ==
    /\ epochs' = [epochs EXCEPT ![work.number] = work.doc]
    /\ roots' = [roots EXCEPT ![work.number] = Rooted(work.tree)]
    /\ lost' = lost \ {work.number}

EpochNotSaved(work) == lost' = lost \cup {work.number} /\ UNCHANGED <<epochs, roots>>

ProofsSaved(work) ==
    /\ witnesses' = UpdateWitnessProofs(work)
    /\ unproved' = unproved \ {work.number}

ProofsNotSaved(work) ==
    unproved' = unproved \cup {work.number} /\ UNCHANGED witnesses

(***************************************************************************)
(* The writes at the end of finalizeEpochCompletion are awaited with       *)
(* Promise.allSettled: a failed one goes unnoticed.                        *)
(***************************************************************************)
FinalizeEpoch(work) ==
    \/ SaveEpoch(work) /\ ProofsSaved(work) /\ UNCHANGED faults
    \/ /\ faults > 0
       /\ faults' = faults - 1
       /\ \/ EpochNotSaved(work) /\ ProofsSaved(work)
          \/ SaveEpoch(work) /\ ProofsNotSaved(work)

\* Mutant: the window reaches up to the block itself.
WindowUpToBlock(h) ==
    {n \in Numbers : StartBlock(n) <= h /\ EndBlock(n) >= h - SolutionLifetime}

\* The epochs getEpochsInBlockRange finds for block h.
Window(h) ==
    {n \in Numbers :
        /\ StartBlock(n) <= h - BlocksPerEpoch
        /\ EndBlock(n) >= h - BlocksPerEpoch - SolutionLifetime}

Solution(e) == [target |-> e.target, winner |-> e.winner]

\* getChallengeSolutionsAtHeight.
ChallengeSolutions(h) ==
    [n \in {n \in Window(h) : epochs[n] # NoEpoch} |-> Solution(epochs[n])]

-----------------------------------------------------------------------------
(* revertChain *)

\* Mutants: submissions of the first reverted block survive; an epoch too many
\* is deleted.
PurgeLeavingSubmissions(from) ==
    /\ headers' = [h \in Heights |-> IF h < from THEN headers[h] ELSE NoBlock]
    /\ used' = [h \in Heights |-> IF h < from THEN used[h] ELSE NoBlock]
    /\ submissions' = {d \in submissions : d.at <= from}
    /\ epochs' = [n \in Numbers |-> IF StartBlock(n) < from THEN epochs[n] ELSE NoEpoch]

PurgeByEndBlock(from) ==
    /\ headers' = [h \in Heights |-> IF h < from THEN headers[h] ELSE NoBlock]
    /\ used' = [h \in Heights |-> IF h < from THEN used[h] ELSE NoBlock]
    /\ submissions' = {d \in submissions : d.at < from}
    /\ epochs' = [n \in Numbers |->
                    IF EndBlock(n) + BlocksPerEpoch < from THEN epochs[n] ELSE NoEpoch]

\* revertDataUntilBlock: an epoch goes with its first block.
Purge(from) ==
    /\ headers' = [h \in Heights |-> IF h < from THEN headers[h] ELSE NoBlock]
    /\ used' = [h \in Heights |-> IF h < from THEN used[h] ELSE NoBlock]
    /\ submissions' = {d \in submissions : d.at < from}
    /\ epochs' = [n \in Numbers |-> IF StartBlock(n) < from THEN epochs[n] ELSE NoEpoch]

\* The rows of the trees go with the epochs and the blocks.
PurgeTrees(from) ==
    /\ roots' = [n \in Numbers |-> IF StartBlock(n) < from THEN roots[n] ELSE NoEpoch]
    /\ witnesses' = {w \in witnesses : w.at < from}
    /\ unproved' = {n \in unproved : StartBlock(n) < from}

\* The purge, and the height and next tip that follow it.
Rewind(from) ==
    /\ Purge(from) /\ PurgeTrees(from)
    /\ lost' = {n \in lost : StartBlock(n) < from}
    /\ skewed' = {h \in skewed : h < from}
    /\ height' = from
    /\ bestTip' = from

\* revertChain, which also cancels the task.
RevertChain(from) == Rewind(from) /\ task' = Idle

-----------------------------------------------------------------------------
(* The task of a block *)

\* The epochs whose document may be missing or wrong after a failed call or
\* the late write of a cancelled task.
Damaged == lost \cup {Epoch(h) : h \in skewed}

\* process up to the challenge solutions and the prefetched block.
StartTask ==
    /\ task.pc = "idle" /\ ~halted
    /\ bestTip <= announced.number
    /\ IF BlockHash(bestTip) = NoBlock
       THEN task' = Thrown
       ELSE task' = [At("execute") EXCEPT
                        !.tip = bestTip, !.block = BlockHash(bestTip),
                        !.given = ChallengeSolutions(bestTip), !.lost = Damaged]
    /\ bestTip' = bestTip + 1
    /\ UNCHANGED <<nodeVars, dbVars, height, announced, halted, faults, crashes>>

\* The transactions are executed; signBlock needs the header below.  The
\* last look at the abort signal before the submissions.
Execute ==
    /\ task.pc = "execute"
    /\ task' = IF task.aborted \/ (task.tip > 0 /\ headers[task.tip - 1] = NoBlock)
               THEN Thrown ELSE [task EXCEPT !.pc = "submissions"]
    /\ UNCHANGED <<nodeVars, dbVars, height, bestTip, announced, halted, faults, crashes>>

\* Block.processSubmissions up to its writes.  Epoch 0 accepts none.  When
\* the question whether they exist fails, the submissions of the block are
\* dropped.
ProcessSubmissions ==
    /\ task.pc = "submissions"
    /\ LET n == Epoch(task.tip) IN
       \/ /\ n = 0
          /\ task' = [task EXCEPT !.pc = "verify"]
          /\ UNCHANGED <<skewed, faults>>
       \/ /\ n > 0
          /\ task' = IF headers[StartBlock(n) - 1] = NoBlock THEN Thrown
                     ELSE [task EXCEPT !.pc = "save",
                                       !.docs = NewSubmissions(task.tip, task.block)]
          /\ UNCHANGED <<skewed, faults>>
       \/ /\ n > 0 /\ headers[StartBlock(n) - 1] # NoBlock
          /\ Carried[task.block] # << >>
          /\ faults > 0
          /\ faults' = faults - 1
          /\ skewed' = skewed \cup {task.tip}
          /\ task' = [task EXCEPT !.pc = "verify"]
    /\ UNCHANGED <<nodeVars, headers, epochs, submissions, treeVars, used, lost, height,
                   bestTip, announced, halted, crashes>>

\* saveEpochSubmissions, whatever the abort signal says: a task cancelled
\* since it began leaves the submissions of an orphan behind the purge.
SaveEpochSubmissions ==
    /\ task.pc = "save"
    /\ submissions' = Upsert(submissions, task.docs)
    /\ skewed' = IF task.aborted /\ task.docs # {} THEN skewed \cup {task.tip} ELSE skewed
    /\ task' = [task EXCEPT !.pc = "verify", !.docs = {}]
    /\ UNCHANGED <<nodeVars, headers, epochs, treeVars, used, lost, height, bestTip,
                   announced, halted, faults, crashes>>

\* The block does not extend the stored one, or is not the announced tip.
Reorged ==
    \/ task.tip - 1 > 0 /\ Prev[task.block] # headers[task.tip - 1]
    \/ announced.number = task.tip /\ announced.block # task.block

\* revertToLastGoodBlock: the height above the last one that agrees.
FirstBadBlock(h) ==
    Max({1} \cup {k \in 1 .. h : headers[k - 1] # NoBlock /\ headers[k - 1] = BlockHash(k - 1)})

\* verifyReorg; a reorganisation reverts the chain and ends the task.  A
\* cancelled task skips it.
VerifyReorg ==
    /\ task.pc = "verify"
    /\ \/ /\ Reorged /\ ~task.aborted
          /\ RevertChain(FirstBadBlock(task.tip))
       \/ /\ ~Reorged \/ task.aborted
          /\ task' = [task EXCEPT !.pc = "finalize"]
          /\ UNCHANGED <<dbVars, height, bestTip>>
    /\ UNCHANGED <<nodeVars, announced, halted, faults, crashes>>

\* finalizeBlock looks at the abort signal and saves the header.
FinalizeBlock ==
    /\ task.pc = "finalize"
    /\ \/ /\ task.aborted
          /\ task' = Thrown
          /\ UNCHANGED <<headers, used>>
       \/ /\ ~task.aborted
          /\ headers' = [headers EXCEPT ![task.tip] = task.block]
          /\ used' = [used EXCEPT ![task.tip] = [given |-> task.given, lost |-> task.lost]]
          /\ task' = [task EXCEPT !.pc = "complete"]
    /\ UNCHANGED <<nodeVars, epochs, submissions, treeVars, lost, skewed, height, bestTip,
                   announced, halted, faults, crashes>>

\* updateEpoch: the epoch that block h finalises.
EpochToFinalize(h) ==
    IF h % BlocksPerEpoch = 0 /\ h > 0 THEN {Epoch(h) - 1} ELSE {}

\* onCompletedTask up to the writes of the epoch, or to the height when there
\* is none to finalise.
OnCompletedTask ==
    /\ task.pc = "complete"
    /\ \/ /\ task.aborted
          /\ task' = Idle
          /\ UNCHANGED height
       \/ /\ ~task.aborted /\ EpochToFinalize(task.tip) = {}
          /\ height' = task.tip /\ task' = Idle
       \/ /\ ~task.aborted
          /\ \E n \in EpochToFinalize(task.tip) :
               task' = IF MayFinalize(n)
                       THEN [task EXCEPT !.pc = "write", !.work = Computed(n)] ELSE Thrown
          /\ UNCHANGED height
    /\ UNCHANGED <<nodeVars, dbVars, bestTip, announced, halted, faults, crashes>>

\* The rest of onCompletedTask: the epoch, then the height, whether or not the
\* task has been cancelled since.
UpdateEpoch ==
    /\ task.pc = "write"
    /\ FinalizeEpoch(task.work)
    /\ height' = task.tip
    /\ task' = Idle
    /\ UNCHANGED <<nodeVars, headers, submissions, used, skewed, bestTip, announced, halted,
                   crashes>>

\* A database, VM or RPC call of the task rejects.
TaskFails ==
    /\ task.pc \in {"execute", "submissions", "save", "finalize", "complete"}
    /\ faults > 0
    /\ faults' = faults - 1
    /\ task' = Thrown
    /\ UNCHANGED <<nodeVars, dbVars, height, bestTip, announced, halted, crashes>>

\* The catch of processNextTask: a cancelled task is only released; after an
\* error the last block is reverted, unless there is none to revert to; then
\* no task starts before another block is announced, and that one is for the
\* next height.
ProcessingError ==
    /\ task.pc = "catch"
    /\ \/ /\ task.aborted
          /\ task' = Idle
          /\ UNCHANGED <<dbVars, height, bestTip, halted>>
       \/ /\ ~task.aborted /\ height - 1 > 0
          /\ RevertChain(height)
          /\ UNCHANGED halted
       \/ /\ ~task.aborted /\ height - 1 <= 0
          /\ task' = Idle /\ halted' = TRUE
          /\ lost' = lost \cup EpochToFinalize(bestTip - 1)
          /\ UNCHANGED <<headers, epochs, submissions, treeVars, used, skewed, height, bestTip>>
    /\ UNCHANGED <<nodeVars, announced, faults, crashes>>

-----------------------------------------------------------------------------
(* The poller, start-up and the specification *)

\* onBlockChange.  A tip at or below the processed height is a
\* reorganisation: the running task is cancelled and the chain reverted; the
\* next task waits until the cancelled one has ended.
OnBlockChange ==
    /\ task.pc \notin {"boot", "reindex", "rewrite", "purge", "failed"}
    /\ announced.block # Tip
    /\ announced' = [number |-> BlockCount, block |-> Tip]
    /\ halted' = FALSE
    /\ \/ /\ announced # Unset /\ BlockCount > 0 /\ BlockCount <= height
          /\ Rewind(BlockCount)
          /\ task' = IF task.pc = "idle" THEN Idle ELSE [task EXCEPT !.aborted = TRUE]
       \/ /\ announced = Unset \/ BlockCount = 0 \/ BlockCount > height
          /\ UNCHANGED <<dbVars, height, bestTip, task>>
    /\ UNCHANGED <<nodeVars, faults, crashes>>

\* The end of start-up: the last block is indexed again.  The watchdog stops
\* the indexer when the Bitcoin node has no block at that height.
Boot ==
    /\ task.pc \in {"boot", "purge"}
    /\ Rewind(height)
    /\ task' = IF BlockHash(height) = NoBlock THEN At("failed") ELSE Idle
    /\ UNCHANGED <<nodeVars, announced, halted, faults, crashes>>

\* reindexEpochs deletes the epochs from a number on, when there are any to
\* reindex ...
BeginReindex ==
    /\ task.pc = "boot"
    /\ \E from \in ReindexFrom :
         /\ from <= Epoch(height) - 1
         /\ epochs' = [n \in Numbers |-> IF n < from THEN epochs[n] ELSE NoEpoch]
         /\ roots' = [n \in Numbers |-> IF n < from THEN roots[n] ELSE NoEpoch]
         /\ lost' = lost \cup from .. Epoch(height) - 1
         /\ task' = [At("reindex") EXCEPT !.tip = from]
    /\ UNCHANGED <<nodeVars, headers, submissions, witnesses, unproved, used, skewed, height,
                   bestTip, announced, halted, faults, crashes>>

\* ... and finalises them again one after the other.  A failure stops
\* the indexer.
ReindexEpoch ==
    /\ task.pc = "reindex"
    /\ task' = IF MayFinalize(task.tip)
               THEN [task EXCEPT !.pc = "rewrite", !.work = Computed(task.tip)]
               ELSE At("failed")
    /\ UNCHANGED <<nodeVars, dbVars, height, bestTip, announced, halted, faults, crashes>>

ReindexedEpoch ==
    /\ task.pc = "rewrite"
    /\ FinalizeEpoch(task.work)
    /\ task' = IF task.tip < Epoch(height) - 1
               THEN [At("reindex") EXCEPT !.tip = task.tip + 1] ELSE At("purge")
    /\ UNCHANGED <<nodeVars, headers, submissions, used, skewed, height, bestTip, announced,
                   halted, crashes>>

\* The process dies; in the middle of the writes of finalizeEpochCompletion
\* some of them may have been made.
CrashDuringFinalize(work) ==
    \/ EpochNotSaved(work) /\ witnesses' = UpdateWitnessProofs(work)
                           /\ unproved' = unproved \cup {work.number}
    \/ SaveEpoch(work) /\ ProofsNotSaved(work)

Crash ==
    /\ crashes > 0
    /\ crashes' = crashes - 1
    /\ task' = At("boot")
    /\ announced' = Unset
    /\ halted' = FALSE
    /\ \/ UNCHANGED <<epochs, roots, witnesses, lost, unproved>>
       \/ task.pc \in {"write", "rewrite"} /\ CrashDuringFinalize(task.work)
    /\ UNCHANGED <<nodeVars, headers, submissions, used, skewed, height, bestTip, faults>>

\* setBlockWitnesses upserts: of the row of a key, the signature and time
\* change and the proof stays.
Written(w) ==
    LET row == {v \in witnesses : <<v.at, v.key>> = <<w.at, w.key>>}
    IN  (witnesses \ row) \cup
        IF row = {}
        THEN {[at |-> w.at, key |-> w.key, time |-> w.time, proof |-> NoEpoch,
               redated |-> FALSE]}
        ELSE {IF v.time = w.time THEN v
              ELSE [v EXCEPT !.time = w.time, !.redated = v.proof # NoEpoch] : v \in row}

\* A validated witness of a stored block is written.  It may come at any time;
\* only the finalisation of its own epoch reads or writes it, which a later
\* task than its block's does, so it comes between tasks here, before the
\* start-up that finalises it, or between the reads of a finalisation and its
\* writes.
WitnessArrives ==
    /\ task.pc \in {"idle", "boot", "write", "rewrite"}
    /\ \E w \in coming : headers[w.at] # NoBlock /\ witnesses' = Written(w)
    /\ UNCHANGED <<nodeVars, headers, epochs, submissions, roots, unproved, used, lost,
                   skewed, height, bestTip, announced, halted, task, faults, crashes>>

BitcoinStep ==
    /\ SwitchChain
    /\ UNCHANGED <<dbVars, height, bestTip, announced, halted, task, faults, crashes>>

Init ==
    /\ chain \in FirstChains /\ reorgBudget = MaxReorgs
    /\ headers = [h \in Heights |-> NoBlock] /\ used = [h \in Heights |-> NoBlock]
    /\ epochs = [n \in Numbers |-> NoEpoch]
    /\ roots = [n \in Numbers |-> NoEpoch] /\ witnesses = {}
    /\ submissions = {} /\ lost = {} /\ unproved = {} /\ skewed = {}
    /\ height = 0 /\ bestTip = 0
    /\ announced = Unset /\ halted = FALSE
    /\ task = At("boot")
    /\ \E budget \in Budgets :
         faults = budget.faults /\ crashes = budget.crashes /\ coming = budget.coming

RunTask ==
    \/ StartTask \/ Execute \/ ProcessSubmissions \/ SaveEpochSubmissions \/ VerifyReorg
    \/ FinalizeBlock \/ OnCompletedTask \/ UpdateEpoch \/ ProcessingError

Start == Boot \/ ReindexEpoch \/ ReindexedEpoch

Next ==
    /\ \/ BitcoinStep \/ OnBlockChange
       \/ RunTask \/ TaskFails
       \/ Start \/ BeginReindex
       \/ WitnessArrives \/ Crash
    /\ UNCHANGED coming

Spec == Init /\ [][Next]_vars

\* The event loop runs every continuation, and the timer of the poller goes
\* on whatever the task does.  Bitcoin, faults, crashes and the choice to
\* reindex are not fair.
FairSpec ==
    /\ Spec
    /\ WF_vars(RunTask /\ UNCHANGED coming) /\ WF_vars(Start /\ UNCHANGED coming)
    /\ WF_vars(OnBlockChange /\ UNCHANGED coming)

-----------------------------------------------------------------------------
(* Properties *)

\* The epochs an empty database ends up with on the stored chain: the first
\* transaction of each key and salt counts.
Canonical ==
    LET carriedIn(n) ==
            {<<h, i>> \in (StartBlock(n) .. EndBlock(n)) \X (1 .. 3) :
                headers[h] # NoBlock /\ i \in DOMAIN Carried[headers[h]]}
        sub(p) == Carried[headers[p[1]]][p[2]]
        before(p, q) == p[1] < q[1] \/ (p[1] = q[1] /\ p[2] < q[2])
        accepted(n) ==
            {sub(p) : p \in {p \in carriedIn(n) :
                /\ ValidSubmission(headers[StartBlock(n) - 1], sub(p))
                /\ \A q \in carriedIn(n) : before(q, p) =>
                     <<sub(q).key, sub(q).salt>> # <<sub(p).key, sub(p).salt>>}}
        epoch[n \in Numbers] ==
            [target   |-> IF n = 0 THEN NoBlock ELSE headers[StartBlock(n) - 1],
             winner   |-> IF n = 0 THEN Genesis
                          ELSE Winner(accepted(n), n, headers[StartBlock(n) - 1]),
             attested |-> IF n < AttestationDelay THEN NoBlock
                          ELSE headers[EndBlock(n - AttestationDelay)],
             previous |-> IF n = 0 THEN NoEpoch ELSE epoch[n - 1]]
    IN  epoch

\* No task has saved its block without having finalised its epoch yet.
BetweenBlocks ==
    task.pc \in {"idle", "execute", "submissions", "save", "verify", "finalize"}

(***************************************************************************)
(* Between two blocks, every epoch whose finalising block is stored is the *)
(* one an empty database would compute from the stored chain: its target,  *)
(* winner, attested root and chain of previous epochs.  Reverts remove the *)
(* submissions of orphaned blocks, and an epoch that a revert leaves       *)
(* behind is written again when the block after it is, whatever cancelled  *)
(* tasks write of epochs.  Excepted are epochs damaged by a failed call or *)
(* by the submissions a cancelled task saved behind the purge, and those   *)
(* built on them.                                                          *)
(***************************************************************************)
EpochsCanonical ==
    BetweenBlocks => \A n \in Numbers :
        /\ EndBlock(n) + 1 \in Heights /\ headers[EndBlock(n) + 1] # NoBlock
        /\ \A m \in 0 .. n : m \notin Damaged
        => epochs[n] = Canonical[n]

\* Among the epochs S, block h was executed with the solutions of those that
\* an earlier block of its own chain finalised and that have not expired.
ExecutedWithOwnEpochs(h, S) ==
    \A n \in S \ used[h].lost :
        /\ n \in DOMAIN used[h].given <=>
              EndBlock(n) + 1 < h /\ h - BlocksPerEpoch - EndBlock(n) <= SolutionLifetime
        /\ n \in DOMAIN used[h].given => used[h].given[n] = Solution(Canonical[n])

(***************************************************************************)
(* A stored block was executed with the solutions its own chain gives it,  *)
(* whatever was orphaned, reverted or restarted in between; the epoch that *)
(* ends right below the block is excepted: one finalised on an orphaned    *)
(* branch survives a fork in its middle and is in the block's window.      *)
(***************************************************************************)
ChallengesSettled ==
    \A h \in Heights : used[h] # NoBlock =>
        ExecutedWithOwnEpochs(h, {n \in Numbers : EndBlock(n) + 1 # h})

(***************************************************************************)
(* The proof stored with an epoch, and those stored with the witnesses of  *)
(* its blocks, verify against the root of its document, however often it   *)
(* was finalised and whichever witnesses came in between; excepted are an  *)
(* epoch one of whose writes failed or was cut off by a crash, and a       *)
(* witness that was sent again, with another time, after its proof was     *)
(* written and that no later finalisation has met.                         *)
(***************************************************************************)
AttestationsProved ==
    \A n \in {m \in Numbers : epochs[m] # NoEpoch} \ (lost \cup unproved) :
        /\ VerifyEpochData(roots[n].tree, EpochLeaf(n, epochs[n]), roots[n].proof)
        /\ \A w \in WitnessesForEpoch(n) :
              w.proof # NoEpoch /\ ~w.redated =>
                  VerifyAttestation(roots[n].tree, Attested(w), w.proof)

(***************************************************************************)
(* Finalisation never stops the indexer for good: a block of the height of *)
(* the tip ends up stored, unless an epoch document was lost, in which     *)
(* case a later finalisation throws for ever, an error below height 2      *)
(* halted the indexer, or a cancelled task set a height above the stored   *)
(* chain, from which an error before the next block is stored never        *)
(* returns.                                                                *)
(***************************************************************************)
ReachesTip ==
    <>[](\/ headers[chain.top] # NoBlock
         \/ lost # {} \/ halted \/ task.pc = "failed"
         \/ height > 0 /\ headers[height - 1] = NoBlock)
=============================================================================
