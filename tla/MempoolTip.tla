---------------------------- MODULE MempoolTip ----------------------------
(***************************************************************************)
(* How the mempool thread follows the chain.  A poll of the database calls  *)
(* onBlockChange with the height the indexer works at, without waiting for  *)
(* the previous call; a check every five seconds compares the height with   *)
(* Bitcoin Core's tip and calls onBlockChange too.  Each call loads the     *)
(* challenge solutions of its height (in turn, with retries) and estimates  *)
(* the fees; the poll's calls then ask for the tip and decide whether the   *)
(* node is fully synchronised, which opens the gate for broadcasts.         *)
(*                                                                         *)
(* Challenge solutions are the height they were loaded for.  Fees are in    *)
(* tenths of sat/vB, the occupation of Bitcoin Core's mempool in percent.   *)
(***************************************************************************)
EXTENDS Integers, Sequences, FiniteSets, SequencesExt

CONSTANTS
    StartHeight,     \* the height of Bitcoin Core and of the indexer at first
    MaxHeight,       \* bound: heights
    Budgets,         \* bound: how much happens, [chain, pool, troubles]: blocks; transactions,
                     \* broadcasts and restarts; calls that fail
    MaxRetries,      \* MAX_RETRIES
    RefreshGap,      \* the gap up to which verifyBlockHeight refreshes the challenges
    InfoAt           \* InfoAt[h]: what getmempoolinfo says at the tip h: [floor, size, occ]

ASSUME MempoolTipAssumption ==
    /\ {StartHeight, MaxHeight} \subseteq Nat \ {0} /\ StartHeight <= MaxHeight
    /\ Budgets \subseteq [chain : Nat, pool : Nat, troubles : Nat] /\ {MaxRetries, RefreshGap} \subseteq Nat
    /\ InfoAt \in [1 .. MaxHeight -> [floor : Nat \ {0}, size : Nat, occ : 0 .. 100]]

VARIABLES
    node,       \* [tip, stored, indexed]: Bitcoin Core's tip, the last indexed block,
                \* inProgressBlock
    polled,     \* lastPolledBlockHeight, -1 at first
    sync,       \* the mempool thread: see ThreadStart
    jobs,       \* the calls of onBlockChange that are not done, in their order
    check,      \* [pc, tip]: the loop of verifyBlockHeight
    left,       \* what is left of the budget
    unread,     \* history: the tip could not be read, or moved before it was used
    unloaded    \* history: the retries for the last height were exhausted

tipVars == <<node, polled, sync, jobs, check, unread, unloaded>>

Unknown == -1

Spend(what) == left[what] > 0 /\ left' = [left EXCEPT ![what] = @ - 1]
Trouble == Spend("troubles")

\* No band before the first estimate.
NoFees == [conservative |-> 0, low |-> 0, medium |-> 0, high |-> 0]

ThreadStart ==
    [observed |-> Unknown, consensus |-> 0, verifier |-> 0, target |-> Unknown,
     challenges |-> Unknown, fullSync |-> FALSE, fees |-> NoFees]

----------------------------------------------------------------------------
(* Fees                                                                    *)

Smaller(a, b) == IF a <= b THEN a ELSE b
Larger(a, b) == IF a >= b THEN a ELSE b

Band(low, medium, high) == [low |-> low, medium |-> medium, high |-> high]

EstimateFeesBand(info) ==
    LET floor == 10 * info.floor
    IN CASE info.size < 3000 /\ info.occ < 5 -> Band(floor + 5, floor + 10, floor + 20)
         [] info.size >= 3000 /\ info.occ < 5 /\ info.floor <= 2 ->
                Band(floor + 10, Smaller(50, floor + 20), Smaller(100, floor + 40))
         [] ~(info.size < 3000 /\ info.occ < 5) /\ ~(info.occ < 5 /\ info.floor <= 2) /\ info.occ < 50 ->
                Band(floor + 20, Smaller(100, floor + 50), Smaller(200, floor + 100))
         [] info.occ >= 50 -> Band(floor + 30, Larger(200, floor + 100), Larger(400, floor + 200))

\* estimatesmartfee: a rate, or errors (0).
SmartFee(info) == IF info.occ < 50 THEN 10 * info.floor ELSE 0

ProcessSmartFee(rate, band, fees) == IF rate = 0 THEN fees ELSE [conservative |-> rate] @@ band

\* estimateFees: whatever fails leaves the fees as they were.
EstimateFees(info, fees) ==
    LET band == EstimateFeesBand(info)
    IN IF info.size < 3000 THEN [conservative |-> band.low] @@ band
       ELSE ProcessSmartFee(SmartFee(info), band, fees)

\* The node has indexed what there is and its first calls are done.
TipInit ==
    /\ node = [tip |-> StartHeight, stored |-> StartHeight, indexed |-> StartHeight + 1]
    /\ polled = node.indexed /\ jobs = <<>> /\ check = [pc |-> "wait", tip |-> StartHeight]
    /\ sync = [observed |-> node.indexed, consensus |-> node.indexed, verifier |-> node.indexed,
               target |-> node.indexed, challenges |-> node.indexed, fullSync |-> TRUE,
               fees |-> EstimateFees(InfoAt[node.tip], NoFees)]
    /\ left \in Budgets /\ unread = FALSE /\ unloaded = FALSE

----------------------------------------------------------------------------
(* onBlockChange                                                           *)

\* Only forward.
SetBlockHeight(s, h) == [s EXCEPT !.consensus = Larger(@, h)]

\* The parser's height changes at once, the solutions follow.
OnBlockChangeSync(s, h) == [s EXCEPT !.verifier = h, !.target = h]

OnBlockChange(s, h) == OnBlockChangeSync(SetBlockHeight(s, h), h)

Job(by, h) == [by |-> by, h |-> h, pc |-> "queued", tries |-> 0, tip |-> Unknown]

Loading(job) == job.pc \in {"queued", "fetch", "sleep"}

To(i, pc) == jobs' = [jobs EXCEPT ![i].pc = pc]
Stale(i) == sync.target # jobs[i].h

\* The queue: a call starts when the one before it has loaded or has given up.
StartLoading(i) ==
    /\ jobs[i].pc = "queued" /\ \A j \in 1 .. i - 1 : ~Loading(jobs[j])
    /\ To(i, IF Stale(i) THEN "fees" ELSE "fetch")
    /\ UNCHANGED <<node, polled, sync, check, left, unread, unloaded>>

FetchAndApplyChallenges(i) ==
    /\ jobs[i].pc = "fetch"
    /\ sync' = [sync EXCEPT !.challenges = IF Stale(i) THEN @ ELSE jobs[i].h]
    /\ To(i, "fees")
    /\ unloaded' = (unloaded /\ Stale(i))
    /\ UNCHANGED <<node, polled, check, left, unread>>

FetchFails(i) ==
    /\ jobs[i].pc = "fetch" /\ Trouble
    /\ jobs' = [jobs EXCEPT ![i].pc = IF jobs[i].tries >= MaxRetries THEN "fees" ELSE "sleep",
                            ![i].tries = @ + 1]
    /\ unloaded' = (unloaded \/ jobs[i].tries >= MaxRetries)
    /\ UNCHANGED <<node, polled, sync, check, unread>>

AbortableSleep(i) ==
    /\ jobs[i].pc = "sleep"
    /\ To(i, IF Stale(i) THEN "fees" ELSE "fetch")
    /\ UNCHANGED <<node, polled, sync, check, left, unread, unloaded>>

Done(i) == jobs' = RemoveAt(jobs, i)

\* The end of onBlockChange: the check's call is done, a poll's one goes on if
\* no newer one has come.
RefreshFees(i) ==
    /\ jobs[i].pc = "fees"
    /\ sync' = [sync EXCEPT !.fees = EstimateFees(InfoAt[node.tip], @)]
    /\ check' = IF jobs[i].by = "check" THEN [check EXCEPT !.pc = "wait"] ELSE check
    /\ IF jobs[i].by = "poll" /\ jobs[i].h = sync.observed THEN To(i, "tip") ELSE Done(i)
    /\ UNCHANGED <<node, polled, left, unread, unloaded>>

\* The RPC reads the tip; its answer is used later.
ReadTip(i) ==
    /\ jobs[i].pc = "tip"
    /\ jobs' = [jobs EXCEPT ![i].pc = "apply", ![i].tip = node.tip]
    /\ UNCHANGED <<node, polled, sync, check, left, unread, unloaded>>

ReadTipFails(i) ==
    /\ jobs[i].pc = "tip" /\ Trouble /\ Done(i) /\ unread' = TRUE
    /\ UNCHANGED <<node, polled, sync, check, unloaded>>

\* Mutant: the height is not compared again after the RPC.
SetFullSyncUnchecked(i) ==
    /\ jobs[i].pc = "apply"
    /\ sync' = [sync EXCEPT !.fullSync = jobs[i].h >= jobs[i].tip]
    /\ unread' = (jobs[i].tip # node.tip)
    /\ Done(i)
    /\ UNCHANGED <<node, polled, check, left, unloaded>>

SetFullSync(i) ==
    /\ jobs[i].pc = "apply"
    /\ LET used == jobs[i].h = sync.observed
       IN /\ sync' = [sync EXCEPT !.fullSync = IF used THEN jobs[i].h >= jobs[i].tip ELSE @]
          /\ unread' = IF used THEN jobs[i].tip # node.tip ELSE unread
    /\ Done(i)
    /\ UNCHANGED <<node, polled, check, left, unloaded>>

----------------------------------------------------------------------------
(* The poll and the check                                                  *)

\* The poll of the database calls the listener when the height has changed.
TriggerBlockUpdateListeners ==
    /\ polled # node.indexed
    /\ polled' = node.indexed
    /\ sync' = OnBlockChange([sync EXCEPT !.observed = node.indexed], node.indexed)
    /\ jobs' = Append(jobs, Job("poll", node.indexed))
    /\ UNCHANGED <<node, check, left, unread, unloaded>>

\* A tick that would find the same tip and nothing to do is left out.
CheckTip ==
    /\ check.pc = "wait" /\ (check.tip = node.tip => node.tip + 1 - sync.consensus >= 2)
    /\ check' = [pc |-> "judge", tip |-> node.tip]
    /\ UNCHANGED <<node, polled, sync, jobs, left, unread, unloaded>>

VerifyBlockHeight ==
    LET height == check.tip + 1
        gap == height - sync.consensus
        behind == [sync EXCEPT !.fullSync = FALSE]
    IN /\ check.pc = "judge"
       /\ \/ /\ gap < 2
             /\ check' = [check EXCEPT !.pc = "wait"] /\ UNCHANGED <<sync, jobs>>
          \/ /\ gap >= 2 /\ gap > RefreshGap
             /\ check' = [check EXCEPT !.pc = "wait"] /\ sync' = behind /\ UNCHANGED jobs
          \/ /\ gap >= 2 /\ gap <= RefreshGap
             /\ check' = [check EXCEPT !.pc = "busy"]
             /\ sync' = OnBlockChange(behind, height) /\ jobs' = Append(jobs, Job("check", height))
       /\ UNCHANGED <<node, polled, left, unread, unloaded>>

----------------------------------------------------------------------------
(* Bitcoin Core and the indexer                                            *)

TipGrows ==
    /\ Spend("chain") /\ node.tip < MaxHeight
    /\ node' = [node EXCEPT !.tip = @ + 1]
    /\ UNCHANGED <<polled, sync, jobs, check, unread, unloaded>>

\* setNewHeight(h) writes the height above.
SetNewHeight(h, stored) == node' = [node EXCEPT !.stored = stored, !.indexed = h + 1]

\* A block is indexed, or the chain reverted from a block on: the height set
\* is then that of the first block that is gone.
IndexerMoves ==
    /\ \/ /\ node.stored < node.tip
          /\ SetNewHeight(node.stored + 1, node.stored + 1) /\ UNCHANGED left
       \/ \E from \in 1 .. node.stored : Spend("chain") /\ SetNewHeight(from, from - 1)
    /\ UNCHANGED <<polled, sync, jobs, check, unread, unloaded>>

TipNext ==
    \/ \E i \in DOMAIN jobs :
          \/ StartLoading(i) \/ FetchAndApplyChallenges(i) \/ FetchFails(i) \/ AbortableSleep(i)
          \/ RefreshFees(i) \/ ReadTip(i) \/ ReadTipFails(i) \/ SetFullSync(i)
    \/ TriggerBlockUpdateListeners \/ CheckTip \/ VerifyBlockHeight
    \/ TipGrows \/ IndexerMoves

\* The process is started again; the indexer deletes the block of its height.
TipRestart ==
    /\ node' = [node EXCEPT !.stored = node.indexed - 2]
    /\ polled' = Unknown /\ sync' = ThreadStart /\ jobs' = <<>>
    /\ check' = [pc |-> "wait", tip |-> Unknown]
    /\ unread' = FALSE /\ unloaded' = FALSE

----------------------------------------------------------------------------
(* Properties                                                              *)

\* Every call of onBlockChange is done, and the check has judged the tip.
TipQuiet == jobs = <<>> /\ polled = node.indexed /\ check.pc = "wait" /\ check.tip = node.tip

\* What was reverted last, or deleted at start-up, is not stored again yet.
Reverted == node.indexed = node.stored + 2

\* Overlapping calls leave the thread as the newest one would (Mempool.watchBlockchain,
\* verifyBlockHeight, BitcoinTransactionVerificatorV2.onBlockChange): when all are done the
\* parser's solutions are those of its height unless every retry failed, a node that works at
\* the tip or above takes broadcasts, and one that takes broadcasts has stored all blocks but
\* the last two, or three while a reverted one is missing, unless the tip could not be read or
\* moved while it was read.  fullSync is said to be "caught up to the Bitcoin chain tip" with
\* a tolerance of one block; inProgressBlock is the height above the last stored block.
SyncSettled ==
    TipQuiet =>
        /\ sync.challenges = sync.verifier \/ unloaded
        /\ node.indexed >= node.tip => sync.fullSync \/ unread
        /\ sync.fullSync => node.stored >= node.tip - (IF Reverted THEN 3 ELSE 2) \/ unread
=============================================================================
