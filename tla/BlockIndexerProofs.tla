------------------------- MODULE BlockIndexerProofs -------------------------
(***************************************************************************)
(* Theorems about BlockIndexer, in three parts.                            *)
(*                                                                         *)
(* For every value of its constants (every block tree, queue size, number  *)
(* of faults, crashes and regressions): types and the lock.  TypeOK is not *)
(* inductive: that updateEvaluatedStates writes a block and not NoBlock    *)
(* rests on what a finished prefetch has stored in its task, which is      *)
(* FetchedOK.                                                              *)
(*                                                                         *)
(* As long as the best chain only grows or is replaced by a longer one and *)
(* no call fails, for any number of chain switches and crashes at any      *)
(* step: reverts exclude each other, a restart finds a clean database, the *)
(* database is sound and the stored blocks are linked.  The inductive      *)
(* invariant has a frontier, the height of the block being processed or to *)
(* be processed next: everything below it is stored and linked, nothing at *)
(* or above it is.  That no revert of the poller meets a running task,     *)
(* which would go on and write above the frontier, is the relation between *)
(* the frontier, pendingBlockHeight and the top of the Bitcoin node's      *)
(* chain in Positions.                                                     *)
(*                                                                         *)
(* From the same invariant: BlockIndexer implements IndexedChain.  A step  *)
(* of the indexer appends the block of the running task to the stored      *)
(* headers, cuts them, or leaves them alone.  The refinement mapping is    *)
(* StoredChain.  It chooses the greatest height up to which headers are    *)
(* stored; Counted says that they also end there.  SafetyInv says the      *)
(* rest: the running task saves its block at that height, on top of the    *)
(* block it extends.                                                       *)
(***************************************************************************)
EXTENDS BlockIndexer, SequenceTheorems, TLAPS

\* A task that is past a successful prefetch has its block.
ProcFetched(p) ==
    /\ p.pc = "prefetch" /\ p.fetch = "done" => p.block # NoBlock
    /\ p.pc \in {"execute", "save_states", "sign", "verify", "compare",
                 "restore", "reverting", "finalize", "save_header"} => p.block # NoBlock

QueueFetched(q) ==
    \A i \in DOMAIN q : q[i].fetch = "done" => q[i].block # NoBlock

FetchedOK == QueueFetched(indexingTasks) /\ ProcFetched(proc)

\* The inductive strengthening of TypeOK.
TypeInv == TypeOK /\ FetchedOK


\* What the initial and the cleared values are made of.
LEMMA UnsetType == Unset \in Ref /\ 0 \in Heights /\ 1 \in Heights
  BY MaxHeightAssumption DEF Unset, Ref, Heights

\* A height and a block make a reference.
LEMMA RefType ==
  ASSUME NEW n \in Heights, NEW b \in Blocks \cup {NoBlock}
  PROVE  [number |-> n, block |-> b] \in Ref
  BY MaxHeightAssumption DEF Ref, Heights

\* A task that throws ends up in the catch of processNextTask.
LEMMA ThrownType ==
  ASSUME NEW p \in Proc
  PROVE  Thrown(p) \in Proc /\ Thrown(p).pc = "catch"
  BY UnsetType DEF Proc, ProcPC, FetchState, Thrown

\* No task in progress is a value of proc.
LEMMA IdleType == Idle \in Proc /\ Idle.pc = "idle"
  BY UnsetType DEF Proc, ProcPC, FetchState, Idle

\* startTasks neither overfills the queue nor goes past the target.
LEMMA TasksToStartType ==
  ASSUME NEW q \in Seq(Task), Len(q) <= PrefetchQueueSize,
         NEW b \in 0 .. MaxHeight + 1, NEW target \in Heights
  PROVE  /\ TasksToStart(q, b, target) \in Nat
         /\ Len(q) + TasksToStart(q, b, target) <= PrefetchQueueSize
         /\ TasksToStart(q, b, target) > 0 => b + TasksToStart(q, b, target) - 1 <= target
  BY MaxHeightAssumption, IndexerAssumption DEF TasksToStart, Heights

\* processNextTask takes over what the prefetch of the task has left.
LEMMA ProcessingType ==
  ASSUME NEW t \in Task, t.fetch = "done" => t.block # NoBlock
  PROVE  Processing(t) \in Proc /\ ProcFetched(Processing(t))
  BY UnsetType DEF Processing, Idle, Task, Proc, ProcPC, ProcFetched

\* startTasks and processNextTask keep the types of the queue and of the task.
LEMMA StartTasksType ==
  ASSUME NEW p \in Proc, ProcFetched(p),
         NEW q \in Seq(Task), Len(q) <= PrefetchQueueSize, QueueFetched(q),
         NEW b \in 0 .. MaxHeight + 1, NEW target \in Heights, NEW locked \in BOOLEAN,
         StartTasks(p, q, b, target, locked)
  PROVE  TaskTypeOK' /\ FetchedOK' /\ bestTip' \in 0 .. MaxHeight + 1
<1>1. CASE locked
  BY <1>1 DEF StartTasks, ProcFetched, QueueFetched, TaskTypeOK, FetchedOK
<1>2. CASE ~locked
  <2> DEFINE n == TasksToStart(q, b, target)
             new == [i \in 1 .. n |-> NewTask(b + i - 1)]
             filled == q \o new
  <2>1. n \in Nat /\ Len(q) + n <= PrefetchQueueSize
        /\ (n > 0 => b + n - 1 <= target)
    BY TasksToStartType
  <2>2. bestTip' = b + n
    BY <1>2 DEF StartTasks
  <2>3. bestTip' \in 0 .. MaxHeight + 1
    BY <2>1, <2>2, MaxHeightAssumption DEF Heights
  <2>4. \A i \in 1 .. n : NewTask(b + i - 1) \in Task /\ NewTask(b + i - 1).fetch = "waiting"
    BY <2>1, MaxHeightAssumption DEF NewTask, Task, FetchState, Heights
  <2>5. new \in Seq(Task) /\ Len(new) = n
    BY <2>1, <2>4
  <2>6. filled \in Seq(Task) /\ Len(filled) = Len(q) + n
    BY <2>1, <2>5
  <2> HIDE DEF filled, new, n
  <2>7. QueueFetched(filled)
    <3>1. ASSUME NEW i \in DOMAIN filled PROVE filled[i].fetch = "done" => filled[i].block # NoBlock
      <4>1. CASE i <= Len(q)
        BY <4>1, <2>5, <2>6 DEF QueueFetched, filled
      <4>2. CASE i > Len(q)
        <5>1. i - Len(q) \in 1 .. n /\ filled[i] = new[i - Len(q)]
          BY <4>2, <2>5, <2>6, <2>1 DEF filled
        <5> QED BY <5>1, <2>4 DEF new
      <4>3. i \in Int /\ Len(q) \in Int
        BY <2>6
      <4> QED BY <4>1, <4>2, <4>3
    <3> QED BY <3>1 DEF QueueFetched
  <2>8. CASE p.pc = "idle" /\ filled # << >>
    <3>1. proc' = Processing(Head(filled)) /\ indexingTasks' = Tail(filled)
      BY <1>2, <2>8 DEF StartTasks, filled, new, n
    <3>2. Head(filled) \in Task /\ Head(filled) = filled[1] /\ 1 \in DOMAIN filled
      BY <2>6, <2>8
    <3>3. proc' \in Proc /\ ProcFetched(proc')
      BY <3>1, <3>2, <2>7, ProcessingType DEF QueueFetched
    <3>4. Tail(filled) \in Seq(Task) /\ Len(Tail(filled)) <= PrefetchQueueSize
      BY <2>1, <2>6, <2>8, IndexerAssumption
    <3>5. QueueFetched(Tail(filled))
      <4>1. ASSUME NEW i \in DOMAIN Tail(filled)
            PROVE  i + 1 \in DOMAIN filled /\ Tail(filled)[i] = filled[i + 1]
        BY <2>6, <2>8
      <4> QED BY <4>1, <2>7 DEF QueueFetched
    <3> QED BY <2>3, <3>1, <3>3, <3>4, <3>5 DEF TaskTypeOK, FetchedOK
  <2>9. CASE ~(p.pc = "idle" /\ filled # << >>)
    <3>1. proc' = p /\ indexingTasks' = filled
      BY <1>2, <2>9 DEF StartTasks, filled, new, n
    <3> QED BY <3>1, <2>3, <2>1, <2>6, <2>7 DEF TaskTypeOK, FetchedOK
  <2> QED BY <2>8, <2>9
<1> QED BY <1>1, <1>2

\* Cancelling a task loses none of what its prefetch has established.
LEMMA CancelledType ==
  ASSUME NEW p \in Proc, NEW reorged \in BOOLEAN, ProcFetched(p)
  PROVE  Cancelled(p, reorged) \in Proc /\ ProcFetched(Cancelled(p, reorged))
  BY DEF Cancelled, Proc, ProcFetched, FetchState

\* No revertChain in progress is a value of reverts.
LEMMA NoRevertType == NoRevert \in Revert
  BY UnsetType DEF NoRevert, Revert, RevertPC

\* revertChain and stopAllTasks keep the types.
LEMMA BeginRevertType ==
  ASSUME NEW r \in Reverters, NEW from \in Heights, NEW reorged \in BOOLEAN,
         NEW p \in Proc, ProcFetched(p), reverts \in [Reverters -> Revert],
         BeginRevert(r, from, reorged, p)
  PROVE  /\ TaskTypeOK' /\ FetchedOK'
         /\ reverts' \in [Reverters -> Revert] /\ chainReorged' \in BOOLEAN
<1>1. proc' \in Proc /\ ProcFetched(proc')
  BY CancelledType DEF BeginRevert
<1>2. indexingTasks' = << >>
  BY DEF BeginRevert
<1>3. [pc |-> "purge", from |-> from, height |-> 0] \in Revert
  BY UnsetType DEF Revert, RevertPC
<1>4. reverts' \in [Reverters -> Revert] /\ chainReorged' \in BOOLEAN
  BY <1>3 DEF BeginRevert
<1>5. << >> \in Seq(Task) /\ Len(<< >>) <= PrefetchQueueSize /\ QueueFetched(<< >>)
  BY IndexerAssumption DEF QueueFetched
<1> QED BY <1>1, <1>2, <1>4, <1>5 DEF TaskTypeOK, FetchedOK

\* What the Bitcoin node answers.
LEMMA BlockCountType ==
  ASSUME NodeTypeOK
  PROVE  /\ BlockCount \in Heights
         /\ \A h : BlockHash(h) \in Blocks \cup {NoBlock}
         /\ Tip \in Blocks \cup {NoBlock}
  BY ChainsAssumption DEF NodeTypeOK, BlockCount, BlockHash, Tip, Chain

\* releaseLockAndCallNextTask keeps the types of the queue and of the task.
LEMMA ReleaseType ==
  ASSUME TypeInv, NEW mayRestartTask \in BOOLEAN, NEW locked \in BOOLEAN,
         Release(mayRestartTask, locked)
  PROVE  TaskTypeOK' /\ FetchedOK' /\ bestTip' \in 0 .. MaxHeight + 1
<1>1. Idle \in Proc /\ ProcFetched(Idle)
  BY IdleType DEF ProcFetched
<1>2. QueueFetched(indexingTasks) /\ (locked \/ ~mayRestartTask) \in BOOLEAN
  BY DEF TypeInv, FetchedOK
<1>3. /\ indexingTasks \in Seq(Task) /\ Len(indexingTasks) <= PrefetchQueueSize
      /\ bestTip \in 0 .. MaxHeight + 1 /\ targetBlockHeight \in Heights
  BY DEF TypeInv, TypeOK, TaskTypeOK, ObserverTypeOK
<1> QED BY <1>1, <1>2, <1>3, StartTasksType DEF Release

-----------------------------------------------------------------------------
(* Type correctness, action by action *)

USE DEF TypeInv, FetchedOK, ProcFetched, QueueFetched,
        TypeOK, NodeTypeOK, StoreTypeOK, ObserverTypeOK,
        WatchdogTypeOK, TaskTypeOK, ControlTypeOK,
        vmVars, nodeVars, storeVars, observerVars, watchdogVars, boundVars,
        indexerVars

\* PrepareBlock keeps the invariant.
LEMMA PrepareBlockType == ASSUME TypeInv, PrepareBlock PROVE TypeInv'
<1>1. proc \in Proc /\ proc.pc = "prefetch"
  BY DEF PrepareBlock
<1>2. CASE proc.fetch = "done" /\ ~vmPrepared
  <2>1. proc' \in Proc /\ proc'.pc = "execute" /\ proc'.block # NoBlock
    BY <1>1, <1>2 DEF PrepareBlock, Proc, ProcPC
  <2> QED BY <2>1, <1>2 DEF PrepareBlock, TaskOnly
<1>3. CASE proc.fetch = "failed" \/ vmPrepared
  <2>1. proc' \in Proc /\ proc'.pc = "catch"
    BY <1>1, <1>3, ThrownType DEF PrepareBlock
  <2> QED BY <2>1, <1>3, UnsetType DEF PrepareBlock, TaskOnly, ClearVM
<1> QED BY <1>2, <1>3 DEF PrepareBlock

\* ExecuteTransactions keeps the invariant.
LEMMA ExecuteTransactionsType == ASSUME TypeInv, ExecuteTransactions PROVE TypeInv'
<1>1. proc \in Proc /\ proc.pc = "execute" /\ proc.block # NoBlock
  BY DEF ExecuteTransactions
<1>2. CASE proc' = [proc EXCEPT !.pc = "save_states"] /\ UNCHANGED vmVars
  <2>1. proc' \in Proc /\ proc'.pc = "save_states" /\ proc'.block = proc.block
    BY <1>1, <1>2 DEF Proc, ProcPC
  <2> QED BY <2>1, <1>1, <1>2 DEF ExecuteTransactions, TaskOnly
<1>3. CASE proc' = Thrown(proc) /\ ClearVM
  <2>1. proc' \in Proc /\ proc'.pc = "catch"
    BY <1>1, <1>3, ThrownType
  <2> QED BY <2>1, <1>1, <1>3, UnsetType DEF ExecuteTransactions, TaskOnly, ClearVM
<1> QED BY <1>2, <1>3 DEF ExecuteTransactions

\* UpdateEvaluatedStates keeps the invariant.
LEMMA UpdateEvaluatedStatesType == ASSUME TypeInv, UpdateEvaluatedStates PROVE TypeInv'
<1>1. proc \in Proc /\ proc.pc = "save_states" /\ proc.block # NoBlock
  BY DEF UpdateEvaluatedStates
<1>2. states' \in [Heights -> SUBSET Blocks]
  BY <1>1 DEF UpdateEvaluatedStates, SaveBlockStates, Proc
<1>3. CASE ~proc.aborted
  <2>1. proc' \in Proc /\ proc'.pc = "sign" /\ proc'.block = proc.block
    BY <1>1, <1>3 DEF UpdateEvaluatedStates, Proc, ProcPC
  <2> QED BY <2>1, <1>1, <1>2, <1>3 DEF UpdateEvaluatedStates, TaskOnly
<1>4. CASE proc.aborted
  <2>1. proc' \in Proc /\ proc'.pc = "catch"
    BY <1>1, <1>4, ThrownType DEF UpdateEvaluatedStates
  <2> QED BY <2>1, <1>2, <1>4, UnsetType DEF UpdateEvaluatedStates, TaskOnly, ClearVM
<1> QED BY <1>3, <1>4

\* SignBlock keeps the invariant.
LEMMA SignBlockType == ASSUME TypeInv, SignBlock PROVE TypeInv'
<1>1. proc \in Proc /\ proc.pc = "sign" /\ proc.block # NoBlock
  BY DEF SignBlock
<1>2. CASE proc' = Thrown(proc) /\ ClearVM
  <2>1. proc' \in Proc /\ proc'.pc = "catch"
    BY <1>1, <1>2, ThrownType
  <2> QED BY <2>1, <1>2, UnsetType DEF SignBlock, TaskOnly, ClearVM
<1>3. CASE ~(proc' = Thrown(proc) /\ ClearVM)
  <2>1. proc.tip > 0 => PreviousHeader(proc.tip) \in Blocks \cup {NoBlock}
    BY <1>1, MaxHeightAssumption DEF PreviousHeader, Proc, Ref, Heights
  <2>2. proc' \in Proc /\ proc'.pc = "verify" /\ proc'.block = proc.block
    <3> DEFINE previous == IF proc.tip > 0 THEN PreviousHeader(proc.tip) ELSE NoBlock
    <3>1. proc' = [proc EXCEPT !.pc = "verify", !.previous = previous]
      BY <1>3 DEF SignBlock
    <3>2. previous \in Blocks \cup {NoBlock}
      BY <2>1
    <3> HIDE DEF previous
    <3> QED BY <1>1, <3>1, <3>2 DEF Proc, ProcPC
  <2> QED BY <2>2, <1>1, <1>3 DEF SignBlock, TaskOnly
<1> QED BY <1>2, <1>3

\* VerifyReorg keeps the invariant.
LEMMA VerifyReorgType == ASSUME TypeInv, VerifyReorg PROVE TypeInv'
<1>1. proc \in Proc /\ proc.pc = "verify" /\ proc.block # NoBlock
  BY DEF VerifyReorg
<1>2. lastBlock' \in Ref
  BY <1>1, RefType DEF VerifyReorg, UpdateBlock, Proc
<1>3. proc' \in Proc /\ proc'.pc \in {"finalize", "restore", "compare"} /\ proc'.block = proc.block
  <2>1. \/ proc' = [proc EXCEPT !.pc = "finalize", !.reorged = TRUE]
        \/ proc' = [proc EXCEPT !.pc = "finalize"]
        \/ proc' = [proc EXCEPT !.pc = "restore", !.walk = proc.tip]
        \/ proc' = [proc EXCEPT !.pc = "compare", !.header = currentHeader]
    BY ZenonT(40) DEF VerifyReorg
  <2>2. currentHeader \in Ref /\ proc.tip \in Heights
    BY <1>1 DEF Proc
  <2>3. CASE \/ proc' = [proc EXCEPT !.pc = "finalize", !.reorged = TRUE]
             \/ proc' = [proc EXCEPT !.pc = "finalize"]
    BY <2>3, <1>1 DEF Proc, ProcPC
  <2>4. CASE proc' = [proc EXCEPT !.pc = "restore", !.walk = proc.tip]
    BY <2>2, <2>4, <1>1 DEF Proc, ProcPC
  <2>5. CASE proc' = [proc EXCEPT !.pc = "compare", !.header = currentHeader]
    BY <2>2, <2>5, <1>1 DEF Proc, ProcPC
  <2> QED BY <2>1, <2>3, <2>4, <2>5
<1> QED BY <1>1, <1>2, <1>3 DEF VerifyReorg

\* CompareWithTip keeps the invariant.
LEMMA CompareWithTipType == ASSUME TypeInv, CompareWithTip PROVE TypeInv'
<1>1. proc \in Proc /\ proc.pc = "compare" /\ proc.block # NoBlock
  BY DEF CompareWithTip
<1>2. lastBlock' \in Ref
  BY <1>1, RefType DEF CompareWithTip, UpdateBlock, Proc
<1>3. proc' \in Proc /\ proc'.pc \in {"finalize", "restore"} /\ proc'.block = proc.block
  BY <1>1, UnsetType DEF CompareWithTip, Proc, ProcPC
<1> QED BY <1>1, <1>2, <1>3 DEF CompareWithTip

\* FinalizeBlock keeps the invariant.
LEMMA FinalizeBlockType == ASSUME TypeInv, FinalizeBlock PROVE TypeInv'
<1>1. proc \in Proc /\ proc.pc = "finalize" /\ proc.block # NoBlock
  BY DEF FinalizeBlock
<1>2. CASE proc.aborted
  <2>1. proc' \in Proc /\ proc'.pc = "catch"
    BY <1>1, <1>2, ThrownType DEF FinalizeBlock
  <2> QED BY <2>1, <1>2, UnsetType DEF FinalizeBlock, TaskOnly, ClearVM
<1>3. CASE ~proc.aborted
  <2>1. proc' \in Proc /\ proc'.pc = "save_header" /\ proc'.block = proc.block
    <3>1. proc' = [proc EXCEPT !.pc = "save_header", !.previous = NoBlock]
      BY <1>3 DEF FinalizeBlock
    <3> QED BY <3>1, <1>1 DEF Proc, ProcPC
  <2> QED BY <2>1, <1>1, <1>3 DEF FinalizeBlock, TaskOnly
<1> QED BY <1>2, <1>3

\* SaveBlock keeps the invariant.
LEMMA SaveBlockType == ASSUME TypeInv, SaveBlock PROVE TypeInv'
<1>1. proc \in Proc /\ proc.pc = "save_header"
  BY DEF SaveBlock
<1>2. headers' \in [Heights -> Blocks \cup {NoBlock}]
  BY <1>1 DEF SaveBlock, SaveBlockHeader, Proc
<1>3. proc' \in Proc /\ proc'.pc \in {"catch", "complete"}
  BY <1>1, ThrownType DEF SaveBlock, Proc, ProcPC
<1> QED BY <1>2, <1>3, UnsetType DEF SaveBlock, TaskOnly, ClearVM

\* TaskFails keeps the invariant.
LEMMA TaskFailsType == ASSUME TypeInv, TaskFails PROVE TypeInv'
<1>1. proc' \in Proc /\ (proc'.pc = "catch" \/ (proc'.pc = "restore" /\ proc'.block = proc.block))
  <2>1. CASE proc.pc = "compare"
    BY <2>1, UnsetType DEF TaskFails, Proc, ProcPC
  <2>2. CASE proc.pc # "compare"
    BY <2>2, ThrownType DEF TaskFails
  <2> QED BY <2>1, <2>2
<1>2. faults' \in Nat
  BY DEF TaskFails
<1>3. vmPrepared' \in BOOLEAN /\ validatorCache' \in Ref
  BY UnsetType DEF TaskFails, ClearVM
<1>4. pendingBlockHeight' \in Heights
  BY DEF TaskFails, Proc
<1>5. proc'.pc = "restore" => proc.pc = "compare" /\ proc.block # NoBlock
  BY ThrownType DEF TaskFails
<1> QED BY <1>1, <1>2, <1>3, <1>4, <1>5 DEF TaskFails

\* The outcome of a prefetch: a block, or an error.
LEMMA FetchedType ==
  ASSUME TypeInv, NEW ok \in BOOLEAN
  PROVE  /\ \A t \in Task : /\ Fetched(t, ok) \in Task
                            /\ Fetched(t, ok).fetch = "done" => Fetched(t, ok).block # NoBlock
         /\ /\ Fetched(proc, ok) \in Proc
            /\ Fetched(proc, ok).pc = proc.pc
            /\ Fetched(proc, ok).fetch = "done" => Fetched(proc, ok).block # NoBlock
<1>1. \A h \in Heights : BlockHash(h) \in Blocks \cup {NoBlock}
  BY ChainsAssumption DEF BlockHash, Chain
<1>2. ASSUME NEW t \in Task
      PROVE  /\ Fetched(t, ok) \in Task
             /\ Fetched(t, ok).fetch = "done" => Fetched(t, ok).block # NoBlock
  <2>1. CASE ok /\ BlockHash(t.tip) # NoBlock
    BY <2>1, <1>1 DEF Fetched, Task, FetchState
  <2>2. CASE ~(ok /\ BlockHash(t.tip) # NoBlock)
    BY <2>2 DEF Fetched, Task, FetchState
  <2> QED BY <2>1, <2>2
<1>3. CASE ok /\ BlockHash(proc.tip) # NoBlock
  BY <1>3, <1>2, <1>1 DEF Fetched, Proc, FetchState
<1>4. CASE ~(ok /\ BlockHash(proc.tip) # NoBlock)
  BY <1>4, <1>2 DEF Fetched, Proc, FetchState
<1> QED BY <1>2, <1>3, <1>4

\* A prefetch that ends, of a queued task or of the running one.
LEMMA PrefetchStepType ==
  ASSUME TypeInv, NEW ok \in BOOLEAN, PrefetchQueued(ok) \/ PrefetchCurrent(ok)
  PROVE  /\ TaskTypeOK'
         /\ FetchedOK'
<1>1. CASE PrefetchQueued(ok)
  <2>1. PICK i \in DOMAIN indexingTasks :
          indexingTasks' = [indexingTasks EXCEPT ![i] = Fetched(@, ok)]
    BY <1>1 DEF PrefetchQueued
  <2>2. indexingTasks[i] \in Task
    OBVIOUS
  <2>3. Fetched(indexingTasks[i], ok) \in Task
        /\ (Fetched(indexingTasks[i], ok).fetch = "done"
              => Fetched(indexingTasks[i], ok).block # NoBlock)
    BY <2>2, FetchedType
  <2>4. indexingTasks' \in Seq(Task) /\ Len(indexingTasks') = Len(indexingTasks)
        /\ DOMAIN indexingTasks' = DOMAIN indexingTasks
    BY <2>1, <2>3
  <2>5. \A j \in DOMAIN indexingTasks' :
           indexingTasks'[j].fetch = "done" => indexingTasks'[j].block # NoBlock
    BY <2>1, <2>3, <2>4
  <2> QED BY <1>1, <2>4, <2>5 DEF PrefetchQueued
<1>2. CASE PrefetchCurrent(ok)
  <2>1. proc' \in Proc /\ proc'.pc = "prefetch"
        /\ (proc'.fetch = "done" => proc'.block # NoBlock)
    BY <1>2, FetchedType DEF PrefetchCurrent
  <2> QED BY <2>1, <1>2 DEF PrefetchCurrent
<1> QED BY <1>1, <1>2

\* ProcessPrefetch keeps the invariant.
LEMMA ProcessPrefetchType == ASSUME TypeInv, ProcessPrefetch PROVE TypeInv'
<1>1. TaskTypeOK' /\ FetchedOK'
  BY PrefetchStepType DEF ProcessPrefetch
<1> QED BY <1>1 DEF ProcessPrefetch

\* PrefetchFails keeps the invariant.
LEMMA PrefetchFailsType == ASSUME TypeInv, PrefetchFails PROVE TypeInv'
<1>1. TaskTypeOK' /\ FetchedOK'
  BY PrefetchStepType DEF PrefetchFails
<1>2. faults' \in Nat
  BY DEF PrefetchFails
<1> QED BY <1>1, <1>2 DEF PrefetchFails

\* OnCompletedTask keeps the invariant.
LEMMA OnCompletedTaskType == ASSUME TypeInv, OnCompletedTask PROVE TypeInv'
<1>1. CASE proc.reorged \/ proc.aborted
  <2>1. TaskTypeOK' /\ FetchedOK' /\ bestTip' \in 0 .. MaxHeight + 1
    BY <1>1, ReleaseType DEF OnCompletedTask
  <2> QED BY <2>1 DEF OnCompletedTask
<1>2. CASE ~(proc.reorged \/ proc.aborted)
  <2>1. proc' = [proc EXCEPT !.pc = "set_height"]
    BY <1>2 DEF OnCompletedTask
  <2>2. proc' \in Proc /\ proc'.pc = "set_height"
    BY <2>1 DEF Proc, ProcPC
  <2> QED BY <1>2, <2>2 DEF OnCompletedTask
<1> QED BY <1>1, <1>2

\* UpdateHeight keeps the invariant.
LEMMA UpdateHeightType == ASSUME TypeInv, UpdateHeight PROVE TypeInv'
<1>1. TaskTypeOK' /\ FetchedOK' /\ bestTip' \in 0 .. MaxHeight + 1
  BY ReleaseType DEF UpdateHeight
<1>2. proc.tip \in Heights /\ proc.block \in Blocks \cup {NoBlock}
  BY DEF Proc
<1>3. validatorCache' \in Ref
  BY <1>2, RefType DEF UpdateHeight
<1>4. pendingBlockHeight' \in Heights /\ inProgressBlock' \in 0 .. MaxHeight + 1
  BY <1>2, MaxHeightAssumption DEF UpdateHeight, SetNewHeight, Heights
<1> QED BY <1>1, <1>3, <1>4 DEF UpdateHeight

\* ProcessingError keeps the invariant.
LEMMA ProcessingErrorType == ASSUME TypeInv, ProcessingError PROVE TypeInv'
<1>1. ASSUME NEW b \in BOOLEAN, Release(b, chainReorged), UNCHANGED <<chainReorged, reverts>>
      PROVE TypeInv'
  <2>1. TaskTypeOK' /\ FetchedOK' /\ bestTip' \in 0 .. MaxHeight + 1
    BY <1>1, ReleaseType
  <2> QED BY <1>1, <2>1 DEF ProcessingError
<1>2. CASE /\ BeginRevert("task", pendingBlockHeight, FALSE, [proc EXCEPT !.pc = "recovering"])
           /\ UNCHANGED bestTip
  <2>1. [proc EXCEPT !.pc = "recovering"] \in Proc
        /\ ProcFetched([proc EXCEPT !.pc = "recovering"])
    BY DEF Proc, ProcPC
  <2>2. /\ TaskTypeOK' /\ FetchedOK'
        /\ reverts' \in [Reverters -> Revert] /\ chainReorged' \in BOOLEAN
    BY <1>2, <2>1, BeginRevertType DEF Reverters
  <2> QED BY <1>2, <2>2 DEF ProcessingError
<1> QED BY <1>1, <1>2 DEF ProcessingError

\* RestoreBlockchain keeps the invariant.
LEMMA RestoreBlockchainType == ASSUME TypeInv, RestoreBlockchain PROVE TypeInv'
<1>1. proc \in Proc /\ proc.pc = "restore" /\ proc.block # NoBlock /\ proc.walk \in Heights
  BY DEF RestoreBlockchain, Proc
<1>2. CASE /\ proc.walk > 0 /\ proc' = [proc EXCEPT !.walk = @ - 1]
           /\ UNCHANGED <<lastBlock, chainReorged, reverts, indexingTasks>>
  <2>1. proc.walk - 1 \in Heights
    BY <1>1, <1>2, MaxHeightAssumption, SMTT(30) DEF Heights
  <2>2. proc' \in Proc /\ proc'.pc = "restore" /\ proc'.block # NoBlock
    BY <1>1, <1>2, <2>1 DEF Proc
  <2> QED BY <1>2, <2>2 DEF RestoreBlockchain
<1>3. CASE /\ BeginRevert("task", IF proc.walk > 0 THEN proc.walk ELSE 1, TRUE,
                          [proc EXCEPT !.pc = "reverting", !.walk = 0])
           /\ lastBlock' = Unset
  <2>1. [proc EXCEPT !.pc = "reverting", !.walk = 0] \in Proc
        /\ ProcFetched([proc EXCEPT !.pc = "reverting", !.walk = 0])
    BY <1>1, UnsetType DEF Proc, ProcPC
  <2>2. (IF proc.walk > 0 THEN proc.walk ELSE 1) \in Heights
    BY <1>1, UnsetType
  <2>3. /\ TaskTypeOK' /\ FetchedOK'
        /\ reverts' \in [Reverters -> Revert] /\ chainReorged' \in BOOLEAN
    BY <1>3, <2>1, <2>2, BeginRevertType DEF Reverters
  <2> QED BY <1>3, <2>3, UnsetType DEF RestoreBlockchain
<1>4. CASE proc' = Thrown(proc) /\ UNCHANGED <<lastBlock, chainReorged, reverts, indexingTasks>>
  <2>1. proc' \in Proc /\ proc'.pc = "catch"
    BY <1>1, <1>4, ThrownType
  <2> QED BY <1>4, <2>1 DEF RestoreBlockchain
<1> QED BY <1>2, <1>3, <1>4 DEF RestoreBlockchain

\* Purging keeps the types of the tables.
LEMMA PurgeType ==
  ASSUME TypeInv, NEW from \in Heights,
         RevertDataUntilBlock(from) \/ RevertDataBatch(from)
  PROVE  headers' \in [Heights -> Blocks \cup {NoBlock}] /\ states' \in [Heights -> SUBSET Blocks]
  BY DEF RevertDataUntilBlock, RevertDataBatch

\* RevertPurgeBatch keeps the invariant.
LEMMA RevertPurgeBatchType ==
  ASSUME TypeInv, NEW r \in Reverters, RevertPurgeBatch(r) PROVE TypeInv'
<1>1. reverts[r].from \in Heights
  BY DEF Revert
<1>2. headers' \in [Heights -> Blocks \cup {NoBlock}] /\ states' \in [Heights -> SUBSET Blocks]
  BY <1>1, PurgeType DEF RevertPurgeBatch
<1> QED BY <1>2 DEF RevertPurgeBatch

\* RevertPurge keeps the invariant.
LEMMA RevertPurgeType ==
  ASSUME TypeInv, NEW r \in Reverters, RevertPurge(r) PROVE TypeInv'
<1>1. reverts[r] \in Revert /\ reverts[r].from \in Heights
  BY DEF Revert
<1>2. headers' \in [Heights -> Blocks \cup {NoBlock}] /\ states' \in [Heights -> SUBSET Blocks]
  BY <1>1, PurgeType DEF RevertPurge
<1>3. [reverts[r] EXCEPT !.pc = "observe"] \in Revert
  BY <1>1 DEF Revert, RevertPC
<1>4. reverts' \in [Reverters -> Revert]
  BY <1>3 DEF RevertPurge
<1> QED BY <1>2, <1>4 DEF RevertPurge

\* RevertObserve keeps the invariant.
LEMMA RevertObserveType ==
  ASSUME TypeInv, NEW r \in Reverters, RevertObserve(r) PROVE TypeInv'
<1>1. reverts[r] \in Revert /\ reverts[r].from \in Heights
  BY DEF Revert
<1>2. pendingBlockHeight' \in Heights /\ inProgressBlock' \in 0 .. MaxHeight + 1
  BY <1>1, MaxHeightAssumption DEF RevertObserve, SetNewHeight, Heights
<1>3. [reverts[r] EXCEPT !.pc = "settle", !.height = BlockCount] \in Revert
  BY <1>1, BlockCountType DEF Revert, RevertPC
<1>4. reverts' \in [Reverters -> Revert]
  BY <1>3 DEF RevertObserve
<1> QED BY <1>2, <1>4 DEF RevertObserve

\* RevertSettle keeps the invariant.
LEMMA RevertSettleType ==
  ASSUME TypeInv, NEW r \in Reverters, RevertSettle(r) PROVE TypeInv'
<1>1. reverts[r] \in Revert /\ reverts[r].from \in Heights /\ reverts[r].height \in Heights
  BY DEF Revert
<1>2. targetBlockHeight' \in Heights /\ bestTip' \in 0 .. MaxHeight + 1
  BY <1>1, MaxHeightAssumption DEF RevertSettle, Heights
<1>3. [reverts[r] EXCEPT !.pc = "plugins", !.height = 0] \in Revert
  BY <1>1, UnsetType DEF Revert, RevertPC
<1>4. reverts' \in [Reverters -> Revert]
  BY <1>3 DEF RevertSettle
<1> QED BY <1>2, <1>4 DEF RevertSettle

\* RevertFinish keeps the invariant.
LEMMA RevertFinishType ==
  ASSUME TypeInv, NEW r \in Reverters, RevertFinish(r) PROVE TypeInv'
<1>1. reverts' \in [Reverters -> Revert] /\ chainReorged' \in BOOLEAN
  BY NoRevertType DEF RevertFinish, Unlock
<1>2. TaskTypeOK' /\ FetchedOK' /\ bestTip' \in 0 .. MaxHeight + 1 /\ phase' \in {phase, "up"}
  <2>1. CASE /\ proc.pc = "reverting"
             /\ proc' = [proc EXCEPT !.pc = "finalize", !.reorged = TRUE]
             /\ UNCHANGED <<indexingTasks, bestTip, phase>>
    <3>1. proc' \in Proc /\ proc'.pc = "finalize" /\ proc'.block = proc.block
      BY <2>1 DEF Proc, ProcPC
    <3> QED BY <2>1, <3>1
  <2>2. CASE Release(TRUE, FALSE) /\ UNCHANGED phase
    BY <2>2, ReleaseType
  <2>3. CASE phase' = "up" /\ UNCHANGED <<proc, indexingTasks, bestTip>>
    BY <2>3
  <2>4. CASE /\ StartTasks(proc, indexingTasks, bestTip, targetBlockHeight, FALSE)
             /\ UNCHANGED phase
    BY <2>4, StartTasksType
  <2> QED BY <2>1, <2>2, <2>3, <2>4 DEF RevertFinish
<1> QED BY <1>1, <1>2 DEF RevertFinish

\* RevertFail keeps the invariant.
LEMMA RevertFailType ==
  ASSUME TypeInv, NEW r \in Reverters, RevertFail(r) PROVE TypeInv'
<1>1. reverts' \in [Reverters -> Revert] /\ chainReorged' \in BOOLEAN
  BY NoRevertType DEF RevertFail
<1>2. TaskTypeOK' /\ FetchedOK' /\ bestTip' \in 0 .. MaxHeight + 1 /\ phase' \in {phase, "failed"}
  <2>1. CASE /\ proc' = [proc EXCEPT !.pc = "catch", !.aborted = TRUE]
             /\ UNCHANGED <<indexingTasks, bestTip, phase>>
    <3>1. proc' \in Proc /\ proc'.pc = "catch"
      BY <2>1 DEF Proc, ProcPC
    <3> QED BY <2>1, <3>1
  <2>2. CASE Release(TRUE, chainReorged') /\ UNCHANGED phase
    BY <1>1, <2>2, ReleaseType
  <2>3. CASE phase' = "failed" /\ UNCHANGED <<proc, indexingTasks, bestTip>>
    BY <2>3
  <2>4. CASE UNCHANGED <<proc, indexingTasks, bestTip, phase>>
    BY <2>4
  <2> QED BY <2>1, <2>2, <2>3, <2>4 DEF RevertFail
<1>3. faults' \in Nat
  BY DEF RevertFail
<1>4. pendingBlockHeight' \in Heights /\ inProgressBlock' \in 0 .. MaxHeight + 1
  <2>1. reverts[r].from \in Heights
    BY DEF Revert
  <2>2. CASE reverts[r].pc = "observe"
    BY <2>1, <2>2, MaxHeightAssumption, SMTT(20) DEF RevertFail, Heights
  <2>3. CASE reverts[r].pc # "observe"
    BY <2>3 DEF RevertFail
  <2> QED BY <2>2, <2>3
<1> QED BY <1>1, <1>2, <1>3, <1>4 DEF RevertFail

\* OnBlockChange keeps the invariant.
LEMMA OnBlockChangeType == ASSUME TypeInv, OnBlockChange PROVE TypeInv'
<1>1. /\ syncBlockHash' \in Blocks \cup {NoBlock} /\ currentHeader' \in Ref
      /\ targetBlockHeight' \in Heights
  BY BlockCountType, RefType DEF OnBlockChange
<1>2. CASE /\ \E r \in Regressions : BeginRevert(r, BlockCount, TRUE, proc)
           /\ UNCHANGED <<bestTip, started>>
  <2>1. PICK r \in Regressions : BeginRevert(r, BlockCount, TRUE, proc)
    BY <1>2
  <2>2. /\ TaskTypeOK' /\ FetchedOK'
        /\ reverts' \in [Reverters -> Revert] /\ chainReorged' \in BOOLEAN
    BY <2>1, BlockCountType, BeginRevertType DEF Reverters
  <2> QED BY <1>1, <1>2, <2>2 DEF OnBlockChange
<1>3. CASE /\ StartTasks(proc, indexingTasks, bestTip, BlockCount, chainReorged)
           /\ started' = TRUE
           /\ UNCHANGED <<chainReorged, reverts>>
  <2>1. TaskTypeOK' /\ FetchedOK' /\ bestTip' \in 0 .. MaxHeight + 1
    BY <1>3, BlockCountType, StartTasksType
  <2> QED BY <1>1, <1>3, <2>1 DEF OnBlockChange
<1>4. CASE UNCHANGED <<proc, indexingTasks, bestTip, started, chainReorged, reverts>>
  BY <1>1, <1>4 DEF OnBlockChange
<1> QED BY <1>2, <1>3, <1>4 DEF OnBlockChange

\* InitObserver keeps the invariant.
LEMMA InitObserverType == ASSUME TypeInv, InitObserver PROVE TypeInv'
<1>1. HeightFromDB \in Heights
  BY MaxHeightAssumption DEF HeightFromDB, Heights
<1>2. /\ pendingBlockHeight' \in Heights /\ bestTip' \in 0 .. MaxHeight + 1
      /\ targetBlockHeight' \in Heights
  BY <1>1, BlockCountType, MaxHeightAssumption DEF InitObserver, Sync, Heights
<1> QED BY <1>2 DEF InitObserver

\* InitPurgeBatch keeps the invariant.
LEMMA InitPurgeBatchType == ASSUME TypeInv, InitPurgeBatch PROVE TypeInv'
<1>1. headers' \in [Heights -> Blocks \cup {NoBlock}] /\ states' \in [Heights -> SUBSET Blocks]
  BY PurgeType DEF InitPurgeBatch
<1> QED BY <1>1 DEF InitPurgeBatch

\* InitPurge keeps the invariant.
LEMMA InitPurgeType == ASSUME TypeInv, InitPurge PROVE TypeInv'
<1>1. headers' \in [Heights -> Blocks \cup {NoBlock}] /\ states' \in [Heights -> SUBSET Blocks]
  BY PurgeType DEF InitPurge
<1>2. pendingBlockHeight' \in Heights /\ inProgressBlock' \in 0 .. MaxHeight + 1
  BY MaxHeightAssumption DEF InitPurge, SetNewHeight, Heights
<1> QED BY <1>1, <1>2 DEF InitPurge

\* InitWatchdog keeps the invariant.
LEMMA InitWatchdogType == ASSUME TypeInv, InitWatchdog PROVE TypeInv'
<1> DEFINE h == InitWatchdogHeight
<1>1. CASE /\ phase' = "failed"
           /\ UNCHANGED <<watchdogVars, chainReorged, reverts, proc, indexingTasks>>
  BY <1>1 DEF InitWatchdog
<1>2. CASE BlockHash(h) # NoBlock /\ currentHeader' = [number |-> h, block |-> BlockHash(h)]
  <2>1. h \in Heights /\ BlockHash(h) \in Blocks \cup {NoBlock}
    BY <1>2, BlockCountType DEF BlockHash
  <2>2. currentHeader' \in Ref
    BY <1>2, <2>1, RefType
  <2>3. h > 0 => [number |-> h, block |-> headers[h - 1]] \in Ref
    <3>1. h > 0 => headers[h - 1] \in Blocks \cup {NoBlock}
      BY <2>1, MaxHeightAssumption DEF Heights
    <3> QED BY <2>1, <3>1, RefType
  <2> HIDE DEF h
  <2>4. CASE UNCHANGED <<phase, lastBlock, chainReorged, reverts, proc, indexingTasks>>
    BY <2>2, <2>4 DEF InitWatchdog
  <2>5. CASE /\ lastBlock' = IF h = 0 THEN Unset ELSE [number |-> h, block |-> headers[h - 1]]
             /\ phase' = "up"
             /\ UNCHANGED <<chainReorged, reverts, proc, indexingTasks>>
    <3>1. h # 0 => h > 0
      BY <2>1, MaxHeightAssumption DEF Heights
    <3>2. lastBlock' \in Ref
      BY <2>3, <2>5, <3>1, UnsetType
    <3> QED BY <2>2, <2>5, <3>2 DEF InitWatchdog
  <2>6. CASE /\ h # 0
             /\ lastBlock' = [number |-> h, block |-> headers[h - 1]]
             /\ BeginRevert("boot", h, FALSE, proc)
             /\ phase' = "mismatch"
    <3>1. h > 0
      BY <2>1, <2>6, MaxHeightAssumption DEF Heights
    <3>2. /\ TaskTypeOK' /\ FetchedOK'
          /\ reverts' \in [Reverters -> Revert] /\ chainReorged' \in BOOLEAN
      BY <2>1, <2>6, BeginRevertType DEF Reverters
    <3> QED BY <2>2, <2>3, <2>6, <3>1, <3>2 DEF InitWatchdog
  <2> QED BY <1>2, <2>4, <2>5, <2>6 DEF InitWatchdog, h
<1> QED BY <1>1, <1>2 DEF InitWatchdog

\* Crash keeps the invariant.
LEMMA CrashType == ASSUME TypeInv, Crash PROVE TypeInv'
<1>1. TaskTypeOK' /\ FetchedOK'
  BY IdleType, IndexerAssumption DEF Crash, Restarted
<1>2. reverts' \in [Reverters -> Revert]
  BY NoRevertType DEF Crash, Restarted
<1>3. /\ pendingBlockHeight' \in Heights /\ targetBlockHeight' \in Heights
      /\ bestTip' \in 0 .. MaxHeight + 1
  BY UnsetType, MaxHeightAssumption DEF Crash, Restarted
<1>4. crashes' \in Nat
  BY DEF Crash
<1>5. currentHeader' \in Ref /\ lastBlock' \in Ref /\ validatorCache' \in Ref
  BY UnsetType DEF Crash, Restarted
<1> QED BY <1>1, <1>2, <1>3, <1>4, <1>5 DEF Crash, Restarted

\* BitcoinStep keeps the invariant.
LEMMA BitcoinStepType == ASSUME TypeInv, BitcoinStep PROVE TypeInv'
  BY DEF BitcoinStep, SwitchChain

\* The invariant holds when a process starts.
LEMMA InitType == Init => TypeInv
<1> SUFFICES ASSUME Init PROVE TypeInv
  OBVIOUS
<1>1. TaskTypeOK /\ FetchedOK
  BY IdleType, IndexerAssumption DEF Init
<1>2. NodeTypeOK
  BY ChainsAssumption, IndexerAssumption DEF Init
<1> PICK n \in Starts : IndexedUpTo(n)
  BY DEF Init
<1>3. \A h \in Heights : h <= n => chain.at[h] \in Blocks
  <2>1. chain.at \in [Heights -> Blocks \cup {NoBlock}]
    BY ChainsAssumption DEF Init, Chain
  <2>2. n <= chain.top /\ chain.top \in Heights
    BY IndexerAssumption, ChainsAssumption DEF Init, Chain
  <2>3. \A h \in Heights : h <= chain.top => chain.at[h] # NoBlock
    BY <1>2, ChainsAssumption
  <2>4. \A h \in Heights : h <= n => h <= chain.top
    BY <2>2, IndexerAssumption, MaxHeightAssumption DEF Heights
  <2> QED BY <2>1, <2>3, <2>4
<1>4. StoreTypeOK
  BY <1>3, IndexerAssumption, MaxHeightAssumption DEF IndexedUpTo
<1>5. ObserverTypeOK /\ WatchdogTypeOK
  BY UnsetType, MaxHeightAssumption DEF Init
<1>6. ControlTypeOK
  BY UnsetType, NoRevertType, IndexerAssumption DEF Init
<1> QED BY <1>1, <1>2, <1>4, <1>5, <1>6

\* Every step keeps the invariant.
LEMMA NextType == TypeInv /\ [Next]_vars => TypeInv'
<1> SUFFICES ASSUME TypeInv, [Next]_vars PROVE TypeInv'
  OBVIOUS
<1>1. CASE BitcoinStep BY <1>1, BitcoinStepType
<1>2. CASE InitIndexer \/ InitPurgeBatch
  BY <1>2, InitObserverType, InitPurgeType, InitWatchdogType, InitPurgeBatchType
  DEF InitIndexer
<1>3. CASE OnBlockChange BY <1>3, OnBlockChangeType
<1>4. CASE ProcessPrefetch \/ PrefetchFails
  BY <1>4, ProcessPrefetchType, PrefetchFailsType
<1>5. CASE ProcessTask \/ TaskFails
  BY <1>5, PrepareBlockType, ExecuteTransactionsType, UpdateEvaluatedStatesType,
     SignBlockType, VerifyReorgType, CompareWithTipType, RestoreBlockchainType,
     FinalizeBlockType, SaveBlockType, OnCompletedTaskType, UpdateHeightType,
     ProcessingErrorType, TaskFailsType
  DEF ProcessTask
<1>6. ASSUME NEW r \in Reverters, RevertChain(r) \/ RevertPurgeBatch(r) \/ RevertFail(r)
      PROVE  TypeInv'
  BY <1>6, RevertPurgeType, RevertObserveType, RevertSettleType, RevertFinishType,
     RevertPurgeBatchType, RevertFailType
  DEF RevertChain
<1>7. CASE Crash BY <1>7, CrashType
<1>8. CASE UNCHANGED vars
  BY <1>8 DEF vars
<1> QED BY <1>1, <1>2, <1>3, <1>4, <1>5, <1>6, <1>7, <1>8 DEF Next

(***************************************************************************)
(* Type correctness: in particular the prefetch queue never holds more     *)
(* than prefetchQueueSize tasks, and no task, height or revert ever leaves *)
(* the heights the Bitcoin node has announced.                             *)
(***************************************************************************)
THEOREM TypeCorrect == Spec => []TypeOK
<1>1. TypeInv => TypeOK
  OBVIOUS
<1> QED BY <1>1, InitType, NextType, PTL DEF Spec

-----------------------------------------------------------------------------
(* The lock *)

\* LockExplained with what it needs about the fault budget.
LockInv == faults <= MaxFaults /\ LockExplained

\* A step that leaves the lock and the reverts alone keeps LockInv.
LEMMA LockFrame ==
  ASSUME TypeInv, TypeInv', LockInv, UNCHANGED <<chainReorged, reverts>>, faults' <= faults
  PROVE  LockInv'
  BY IndexerAssumption, SMTT(20) DEF LockInv, LockExplained, Reverting

\* A step after which some revertChain is in progress keeps LockInv.
LEMMA LockTaken ==
  ASSUME TypeInv, LockInv, UNCHANGED faults,
         NEW r \in Reverters, Reverting(r)'
  PROVE  LockInv'
  BY DEF LockInv, LockExplained

\* After BeginRevert that revertChain is in progress.
LEMMA BeginRevertLocks ==
  ASSUME TypeInv, NEW r \in Reverters, NEW from, NEW reorged, NEW p,
         BeginRevert(r, from, reorged, p)
  PROVE  Reverting(r)'
  BY DEF BeginRevert, Reverting

\* Every step keeps LockInv.
LEMMA LockStep == TypeInv /\ TypeInv' /\ LockInv /\ [Next]_vars => LockInv'
<1> SUFFICES ASSUME TypeInv, TypeInv', LockInv, [Next]_vars PROVE LockInv'
  OBVIOUS
<1>1. CASE BitcoinStep \/ InitObserver \/ InitPurge \/ InitPurgeBatch \/ UNCHANGED vars
  BY <1>1, LockFrame
  DEF BitcoinStep, InitObserver, InitPurge, InitPurgeBatch, vars
<1>2. CASE InitWatchdog
  <2>1. UNCHANGED faults /\ faults' <= faults
    BY <1>2 DEF InitWatchdog
  <2>2. \/ UNCHANGED <<chainReorged, reverts>>
        \/ \E h : BeginRevert("boot", h, FALSE, proc)
    BY <1>2 DEF InitWatchdog
  <2>3. CASE \E h : BeginRevert("boot", h, FALSE, proc)
    BY <2>1, <2>3, BeginRevertLocks, LockTaken DEF Reverters
  <2> QED BY <2>1, <2>2, <2>3, LockFrame
<1>3. CASE OnBlockChange
  <2>1. UNCHANGED faults /\ faults' <= faults
    BY <1>3 DEF OnBlockChange
  <2>2. \/ UNCHANGED <<chainReorged, reverts>>
        \/ \E r \in Regressions : BeginRevert(r, BlockCount, TRUE, proc)
    BY <1>3 DEF OnBlockChange
  <2>3. CASE \E r \in Regressions : BeginRevert(r, BlockCount, TRUE, proc)
    BY <2>1, <2>3, BeginRevertLocks, LockTaken DEF Reverters
  <2> QED BY <2>1, <2>2, <2>3, LockFrame
<1>4. CASE ProcessPrefetch \/ PrefetchFails \/ TaskFails
  <2>1. CASE ProcessPrefetch
    BY <2>1, LockFrame DEF ProcessPrefetch
  <2>2. ASSUME faults' = faults - 1 PROVE faults' <= faults
    BY <2>2
  <2>3. CASE PrefetchFails
    BY <2>2, <2>3, LockFrame DEF PrefetchFails
  <2>4. CASE TaskFails
    BY <2>2, <2>4, LockFrame DEF TaskFails
  <2> QED BY <1>4, <2>1, <2>3, <2>4
<1>5. CASE PrepareBlock \/ ExecuteTransactions \/ UpdateEvaluatedStates \/ SignBlock
           \/ VerifyReorg \/ CompareWithTip \/ FinalizeBlock \/ SaveBlock
           \/ OnCompletedTask \/ UpdateHeight
  <2>1. UNCHANGED <<chainReorged, reverts, faults>>
    BY <1>5 DEF PrepareBlock, ExecuteTransactions, UpdateEvaluatedStates, SignBlock,
                VerifyReorg, CompareWithTip, FinalizeBlock, SaveBlock,
                OnCompletedTask, UpdateHeight, TaskOnly
  <2> QED BY <2>1, LockFrame
<1>6. CASE RestoreBlockchain
  <2>1. UNCHANGED faults /\ faults' <= faults
    BY <1>6 DEF RestoreBlockchain
  <2>2. \/ UNCHANGED <<chainReorged, reverts>>
        \/ \E h, p : BeginRevert("task", h, TRUE, p)
    BY <1>6 DEF RestoreBlockchain
  <2>3. CASE \E h, p : BeginRevert("task", h, TRUE, p)
    BY <2>1, <2>3, BeginRevertLocks, LockTaken DEF Reverters
  <2> QED BY <2>1, <2>2, <2>3, LockFrame
<1>7. CASE ProcessingError
  <2>1. UNCHANGED faults /\ faults' <= faults
    BY <1>7 DEF ProcessingError
  <2>2. \/ UNCHANGED <<chainReorged, reverts>>
        \/ \E h, p : BeginRevert("task", h, FALSE, p)
    BY <1>7 DEF ProcessingError
  <2>3. CASE \E h, p : BeginRevert("task", h, FALSE, p)
    BY <2>1, <2>3, BeginRevertLocks, LockTaken DEF Reverters
  <2> QED BY <2>1, <2>2, <2>3, LockFrame
<1>8. ASSUME NEW r \in Reverters, RevertPurgeBatch(r) PROVE LockInv'
  BY <1>8, LockFrame DEF RevertPurgeBatch
<1>9. ASSUME NEW r \in Reverters, RevertPurge(r) \/ RevertObserve(r) \/ RevertSettle(r)
      PROVE  LockInv'
  <2>1. Reverting(r)' /\ UNCHANGED faults
    BY <1>9 DEF RevertPurge, RevertObserve, RevertSettle, Reverting, Revert
  <2> QED BY <2>1, LockTaken
<1>10. ASSUME NEW r \in Reverters, RevertFinish(r) PROVE LockInv'
  BY <1>10 DEF RevertFinish, Unlock, LockInv, LockExplained
<1>11. ASSUME NEW r \in Reverters, RevertFail(r) PROVE LockInv'
  <2>1. faults' = faults - 1 /\ faults \in Nat
    BY <1>11 DEF RevertFail
  <2> QED BY <2>1, IndexerAssumption DEF LockInv, LockExplained
<1>12. CASE Crash
  BY <1>12 DEF Crash, Restarted, LockInv, LockExplained
<1> QED BY <1>1, <1>2, <1>3, <1>4, <1>5, <1>6, <1>7, <1>8, <1>9, <1>10, <1>11, <1>12
        DEF Next, InitIndexer, ProcessTask, RevertChain

(***************************************************************************)
(* However many revertChain calls of the poller, the watchdog and the      *)
(* error path overlap, chainReorged is left set with none in progress only *)
(* when one of them has failed after its purge.                            *)
(***************************************************************************)
THEOREM LockIsExplained == Spec => []LockExplained
<1>1. Init => LockInv
  BY IndexerAssumption DEF Init, LockInv, LockExplained
<1>2. LockInv => LockExplained
  BY DEF LockInv
<1> QED BY <1>1, <1>2, InitType, NextType, LockStep, PTL DEF Spec

-----------------------------------------------------------------------------
(* Safety while the best chain grows *)

HIDE DEF TypeInv, FetchedOK, ProcFetched, QueueFetched,
         TypeOK, NodeTypeOK, StoreTypeOK, ObserverTypeOK,
         WatchdogTypeOK, TaskTypeOK, ControlTypeOK,
         vmVars, nodeVars, storeVars, observerVars, watchdogVars, boundVars,
         indexerVars

GrowingMoves == \A m \in Moves : m[1].top < m[2].top

\* No call to the database or the Bitcoin node has failed so far.
NoFault == faults = MaxFaults

AnyRevert == \E r \in Reverters : Reverting(r)

\* Running: the node is up and no revertChain is in progress.
Running == phase = "up" /\ ~AnyRevert

\* The height of the first task of the queue, or of the next one to be started.
NextTip == bestTip - Len(indexingTasks)

Frontier == IF proc.current THEN proc.tip ELSE NextTip

\* Block b was at height h of the best chain, and is still or is below its top.
OnBest(h, b) ==
    h \in 0 .. chain.top /\ (b = chain.at[h] \/ (0 < h /\ h < chain.top))

Announced == syncBlockHash = Tip

Executed == {"sign", "verify", "compare", "restore", "finalize", "save_header",
             "complete", "set_height"}

Saved == {"complete", "set_height"}

-----------------------------------------------------------------------------
(* Who runs: the lock, the callers of revertChain and the running task *)

Locks ==
    /\ chainReorged => AnyRevert
    /\ AnyRevert => chainReorged
    /\ OneRevert
    /\ QuietDuringRevert
    /\ Reverting("task") <=> proc.pc = "reverting"
    /\ Reverting("boot") <=> phase = "mismatch"

Phases ==
    /\ phase # "up" => ~started
    /\ ~started => /\ proc = Idle /\ indexingTasks = << >>
                   /\ \A r \in Regressions : ~Reverting(r)

Flags ==
    /\ proc.current => /\ proc.pc \in Executed \cup {"prefetch", "execute", "save_states"}
                       /\ ~proc.aborted /\ ~proc.reorged
                       /\ proc.fetch # "failed"
                       /\ proc.pc # "prefetch" => proc.fetch = "done"
    /\ ~proc.current => proc.pc \in {"idle", "reverting", "finalize", "catch"}
    /\ ~proc.current /\ proc.pc \in {"finalize", "reverting"} => proc.aborted
    /\ vmPrepared => proc.pc \in (Executed \ Saved) \cup {"execute", "save_states", "reverting"}

Control == Locks /\ Phases /\ Flags

-----------------------------------------------------------------------------
(* Where: heights *)

Tops ==
    /\ targetBlockHeight <= chain.top /\ pendingBlockHeight <= chain.top
    /\ bestTip <= chain.top + 1 /\ inProgressBlock <= chain.top + 1

\* A task whose prefetch has not failed.
Sound(t) == t.fetch # "failed" /\ (t.fetch = "done" => OnBest(t.tip, t.block))

\* The tasks of a queue have consecutive heights from first on.
Consecutive(q, first) ==
    \A i \in 1 .. Len(q) : q[i].tip = first + i - 1 /\ Sound(q[i])

QueueTips ==
    /\ Consecutive(indexingTasks, NextTip)
    /\ proc.current => NextTip = proc.tip + 1

Heads ==
    /\ phase = "purge" => pendingBlockHeight = HeightFromDB
    /\ phase \in {"watchdog", "mismatch", "up"} => inProgressBlock = pendingBlockHeight + 1
    /\ phase \in {"purge", "watchdog"} => bestTip = pendingBlockHeight

\* The frontier is pendingBlockHeight, or the height above it.  In the first
\* case the poller has not started, has seen the chain, or will see a higher one.
Frontiers ==
    Running =>
        /\ pendingBlockHeight <= Frontier /\ Frontier <= pendingBlockHeight + 1
        /\ ~started => Frontier = pendingBlockHeight
        /\ \/ Frontier = pendingBlockHeight + 1
           \/ pendingBlockHeight < chain.top \/ ~started \/ Announced

RevertHeights ==
    \A r \in Reverters : Reverting(r) =>
        /\ 1 <= reverts[r].from /\ reverts[r].from <= chain.top
        /\ reverts[r].height <= chain.top
        /\ reverts[r].from < chain.top \/ ~started \/ Announced
        /\ reverts[r].pc \in {"settle", "plugins"} => pendingBlockHeight = reverts[r].from
        /\ reverts[r].pc = "plugins" => bestTip = reverts[r].from

Positions == Tops /\ QueueTips /\ Heads /\ Frontiers /\ RevertHeights

-----------------------------------------------------------------------------
(* What is stored: a crash keeps all of it *)

Stored ==
    /\ \A h, k \in Heights : k < h /\ headers[h] # NoBlock => headers[k] # NoBlock
    /\ \A h \in CheckedHeights : headers[h] # NoBlock => Prev[headers[h]] = headers[h - 1]
    /\ \A h \in Heights : headers[h] # NoBlock => states[h] \subseteq {headers[h]}
    /\ inProgressBlock > 1 => headers[0] # NoBlock
    /\ headers[0] \in {NoBlock, chain.at[0]}

\* Headers and data below the frontier, none above it, and at the frontier
\* what the running task has written.
AtFrontier ==
    Running =>
        /\ \A h \in Heights : h < Frontier => headers[h] # NoBlock
        /\ \A h \in Heights : h > Frontier => headers[h] = NoBlock /\ states[h] = {}
        /\ Frontier \in Heights =>
             /\ headers[Frontier] = IF proc.current /\ proc.pc \in Saved
                                    THEN proc.block ELSE NoBlock
             /\ states[Frontier] = IF proc.current /\ proc.pc \in Executed
                                   THEN {proc.block} ELSE {}

Purged ==
    \A r \in Reverters : Reverting(r) =>
        /\ \A h \in Heights : h < reverts[r].from => headers[h] # NoBlock
        /\ reverts[r].pc # "purge" =>
             \A h \in Heights : h >= reverts[r].from => headers[h] = NoBlock /\ states[h] = {}

Walked ==
    phase = "watchdog" =>
        /\ \A h \in Heights : h >= InitWatchdogHeight => headers[h] = NoBlock
        /\ \A h \in Heights : h >= pendingBlockHeight => states[h] = {}
        /\ currentHeader # Unset => 1 <= currentHeader.number
                                    /\ currentHeader.number <= pendingBlockHeight

\* Up to which height headers certainly have their data when no process died.
DataTop ==
    IF phase = "down" THEN HeightFromDB
    ELSE IF Running THEN Frontier ELSE pendingBlockHeight

HasData ==
    /\ crashes <= MaxCrashes
    /\ crashes = MaxCrashes =>
         /\ \A r \in Reverters : Reverting(r) =>
              \A h \in Heights : h < reverts[r].from => states[h] = {headers[h]}
         /\ ~AnyRevert => \A h \in Heights : h < DataTop => states[h] = {headers[h]}

Database == Stored /\ AtFrontier /\ Purged /\ Walked /\ HasData

-----------------------------------------------------------------------------
(* What the copies of a block say *)

\* A copy of a stored block is that block, if one is stored at its height.
Agreeing(c) ==
    c.block # NoBlock /\ c.number \in Heights =>
        headers[c.number] \in {NoBlock, c.block}

Copies ==
    /\ Agreeing(lastBlock) /\ Agreeing(validatorCache)
    /\ phase \in {"down", "purge", "watchdog"} => lastBlock = Unset
    /\ phase \in {"down", "purge"} => currentHeader = Unset
    /\ started => /\ OnBest(currentHeader.number, currentHeader.block)
                  /\ syncBlockHash = currentHeader.block

Examined ==
    proc.current =>
        /\ proc.fetch = "done" => OnBest(proc.tip, proc.block)
        /\ proc.pc = "verify" /\ proc.tip > 0 => proc.previous = headers[proc.tip - 1]
        /\ proc.pc = "compare" => OnBest(proc.header.number, proc.header.block)
        /\ proc.pc \in {"compare", "finalize", "save_header"} /\ proc.tip \in CheckedHeights
             => Prev[proc.block] = headers[proc.tip - 1]
        /\ proc.pc = "restore" =>
             /\ 1 <= proc.walk /\ proc.walk <= proc.tip
             /\ \/ proc.walk < chain.top
                \/ headers[proc.walk - 1] # chain.at[proc.walk - 1]
        /\ proc.pc \in {"finalize", "save_header"} =>
             lastBlock = [number |-> proc.tip, block |-> proc.block]

SafetyInv == Control /\ Positions /\ Database /\ Copies /\ Examined

FaultFree == faults <= MaxFaults /\ (NoFault => SafetyInv)

-----------------------------------------------------------------------------
(* Facts about a state *)

\* What the types say of the heights.
LEMMA HeightTypes ==
  ASSUME TypeInv
  PROVE  /\ MaxHeight \in Nat /\ MaxHeight > 0
         /\ chain \in Chains /\ chain.top \in Heights
         /\ pendingBlockHeight \in Heights /\ targetBlockHeight \in Heights
         /\ bestTip \in 0 .. MaxHeight + 1 /\ inProgressBlock \in 0 .. MaxHeight + 1
         /\ headers \in [Heights -> Blocks \cup {NoBlock}]
         /\ states \in [Heights -> SUBSET Blocks]
         /\ proc \in Proc /\ proc.tip \in Heights
         /\ indexingTasks \in Seq(Task) /\ Len(indexingTasks) \in Nat
         /\ NextTip \in Int
  BY MaxHeightAssumption, ChainsAssumption
  DEF TypeInv, TypeOK, NodeTypeOK, StoreTypeOK, ObserverTypeOK, TaskTypeOK, Chain, Proc, NextTip, Heights

\* Only a running node has a current task, and no revert is then in progress.
LEMMA CurrentRuns ==
  ASSUME TypeInv, SafetyInv, proc.current
  PROVE  /\ phase = "up" /\ started /\ ~chainReorged /\ ~AnyRevert /\ Running
         /\ Frontier = proc.tip /\ NextTip = proc.tip + 1
         /\ proc.tip \in 0 .. chain.top
<1>1. proc # Idle
  BY DEF Idle
<1>2. phase = "up" /\ started
  BY <1>1 DEF SafetyInv, Control, Phases
<1>3. ~AnyRevert
  BY DEF SafetyInv, Control, Locks, QuietDuringRevert, AnyRevert
<1>4. ~chainReorged
  BY <1>3 DEF SafetyInv, Control, Locks
<1>5. NextTip = proc.tip + 1
  BY DEF SafetyInv, Positions, QueueTips
<1>6. bestTip <= chain.top + 1
  BY DEF SafetyInv, Positions, Tops
<1>7. proc.tip \in 0 .. chain.top
  BY <1>5, <1>6, HeightTypes DEF NextTip, Heights
<1> QED BY <1>2, <1>3, <1>4, <1>5, <1>7 DEF Running, Frontier

-----------------------------------------------------------------------------
(* Steps of the current task *)

\* A step after which the task is still the current one, at its height.
LEMMA TaskFrame ==
  ASSUME TypeInv, TypeInv', SafetyInv, proc.current,
         proc'.current, proc'.tip = proc.tip, proc'.pc # "reverting",
         UNCHANGED <<nodeVars, observerVars, inProgressBlock, phase, started, chainReorged,
                     indexingTasks, reverts, syncBlockHash, boundVars>>,
         \A h \in Heights : h < proc.tip => headers'[h] = headers[h] /\ states'[h] = states[h]
  PROVE  /\ Locks' /\ Phases' /\ Positions' /\ Purged' /\ Walked' /\ HasData'
         /\ Running' /\ Frontier' = proc.tip
<1>1. /\ phase = "up" /\ started /\ ~chainReorged /\ ~AnyRevert /\ Running
      /\ Frontier = proc.tip /\ NextTip = proc.tip + 1 /\ proc.tip \in 0 .. chain.top
  BY CurrentRuns
<1>2. ~AnyRevert' /\ phase' = "up" /\ Running'
  BY <1>1 DEF AnyRevert, Reverting, Running
<1>3. NextTip' = NextTip /\ Frontier' = proc.tip
  BY DEF NextTip, Frontier, observerVars
<1>4. Locks'
  <2>1. proc.pc # "reverting" /\ ~Reverting("task")'
    BY <1>2 DEF SafetyInv, Control, Flags, Executed, AnyRevert, Reverters
  <2>2. ~Reverting("boot")'
    BY <1>2 DEF AnyRevert, Reverters
  <2> QED BY <1>1, <1>2, <2>1, <2>2 DEF Locks, OneRevert, QuietDuringRevert, AnyRevert
<1>5. Phases'
  BY <1>1, <1>2 DEF Phases
<1>6. Tops' /\ Heads' /\ Purged' /\ Walked'
  BY <1>2 DEF SafetyInv, Positions, Tops, Heads, HeightFromDB, Purged, Walked, AnyRevert,
     nodeVars, observerVars
<1>7. QueueTips'
  BY <1>1, <1>3 DEF SafetyInv, Positions, QueueTips, Consecutive, Sound, OnBest, nodeVars
<1>8. Frontiers'
  BY <1>1, <1>3 DEF SafetyInv, Positions, Frontiers, nodeVars, observerVars, Announced, Tip
<1>9. RevertHeights'
  BY <1>2 DEF RevertHeights, AnyRevert
<1>10. HasData'
  <2>1. DataTop = proc.tip /\ DataTop' = proc.tip
    BY <1>1, <1>2, <1>3 DEF DataTop
  <2> QED BY <1>1, <1>2, <2>1 DEF SafetyInv, Database, HasData, AnyRevert, boundVars
<1> QED BY <1>2, <1>3, <1>4, <1>5, <1>6, <1>7, <1>8, <1>9, <1>10 DEF Positions

\* ... and of that, a step that leaves the database alone.
LEMMA TaskStoreFrame ==
  ASSUME TypeInv, TypeInv', SafetyInv, proc.current,
         proc'.current, proc'.tip = proc.tip, proc'.block = proc.block,
         proc'.pc # "reverting",
         proc'.pc \in Saved <=> proc.pc \in Saved,
         proc'.pc \in Executed <=> proc.pc \in Executed,
         UNCHANGED <<nodeVars, observerVars, storeVars, phase, started, chainReorged,
                     indexingTasks, reverts, syncBlockHash, boundVars>>
  PROVE  Locks' /\ Phases' /\ Positions' /\ Database'
<1>1. UNCHANGED <<headers, states, inProgressBlock, chain>>
  BY DEF storeVars, nodeVars
<1>2. /\ Locks' /\ Phases' /\ Positions' /\ Purged' /\ Walked' /\ HasData'
      /\ Running' /\ Frontier' = proc.tip
  BY <1>1, TaskFrame
<1>3. Stored'
  BY <1>1 DEF SafetyInv, Database, Stored
<1>4. AtFrontier'
  BY <1>1, <1>2, CurrentRuns DEF SafetyInv, Database, AtFrontier
<1> QED BY <1>2, <1>3, <1>4 DEF Database

\* The prefetch of a current task has not failed, and the VM is free.
LEMMA PrepareBlockSafe ==
  ASSUME TypeInv, TypeInv', SafetyInv, PrepareBlock PROVE SafetyInv'
<1>1. proc.current /\ proc.fetch = "done" /\ ~vmPrepared
  BY DEF PrepareBlock, SafetyInv, Control, Flags, Executed, TypeInv, TypeOK, TaskTypeOK, Proc, FetchState
<1>2. /\ proc' = [proc EXCEPT !.pc = "execute"] /\ vmPrepared' = TRUE
      /\ UNCHANGED <<storeVars, validatorCache, nodeVars, observerVars, watchdogVars, phase,
                     started, chainReorged, indexingTasks, reverts, syncBlockHash, boundVars>>
  BY <1>1 DEF PrepareBlock, TaskOnly
<1>3. /\ proc'.pc = "execute" /\ proc.pc = "prefetch" /\ proc'.current /\ proc'.tip = proc.tip
      /\ proc'.block = proc.block /\ proc'.fetch = proc.fetch
      /\ proc'.aborted = proc.aborted /\ proc'.reorged = proc.reorged
  BY <1>1, <1>2, HeightTypes DEF Proc, PrepareBlock
<1>4. Locks' /\ Phases' /\ Positions' /\ Database'
  BY <1>1, <1>2, <1>3, TaskStoreFrame DEF Saved, Executed
<1>5. Flags'
  BY <1>1, <1>3 DEF SafetyInv, Control, Flags
<1>6. Copies'
  BY <1>2 DEF SafetyInv, Copies, Agreeing, OnBest, storeVars, nodeVars, watchdogVars
<1>7. Examined'
  BY <1>1, <1>2, <1>3 DEF SafetyInv, Examined, OnBest, nodeVars
<1> QED BY <1>4, <1>5, <1>6, <1>7 DEF SafetyInv, Control

LEMMA ExecuteTransactionsSafe ==
  ASSUME TypeInv, TypeInv', SafetyInv, ExecuteTransactions PROVE SafetyInv'
<1>1. proc.current /\ ~proc.aborted
  BY DEF ExecuteTransactions, SafetyInv, Control, Flags
<1>2. /\ proc' = [proc EXCEPT !.pc = "save_states"]
      /\ UNCHANGED <<storeVars, vmVars, nodeVars, observerVars, watchdogVars, phase,
                     started, chainReorged, indexingTasks, reverts, syncBlockHash, boundVars>>
  BY <1>1 DEF ExecuteTransactions, TaskOnly
<1>3. /\ proc'.pc = "save_states" /\ proc.pc = "execute" /\ proc'.current /\ proc'.tip = proc.tip
      /\ proc'.block = proc.block /\ proc'.fetch = proc.fetch
      /\ proc'.aborted = proc.aborted /\ proc'.reorged = proc.reorged
  BY <1>1, <1>2, HeightTypes DEF Proc, ExecuteTransactions
<1>4. Locks' /\ Phases' /\ Positions' /\ Database'
  BY <1>1, <1>2, <1>3, TaskStoreFrame DEF Saved, Executed
<1>5. Flags'
  BY <1>1, <1>3 DEF SafetyInv, Control, Flags
<1>6. Copies'
  BY <1>2 DEF SafetyInv, Copies, Agreeing, OnBest, storeVars, nodeVars, watchdogVars, vmVars
<1>7. Examined'
  BY <1>1, <1>2, <1>3 DEF SafetyInv, Examined, OnBest, nodeVars
<1> QED BY <1>4, <1>5, <1>6, <1>7 DEF SafetyInv, Control

LEMMA UpdateEvaluatedStatesSafe ==
  ASSUME TypeInv, TypeInv', SafetyInv, UpdateEvaluatedStates PROVE SafetyInv'
<1>1. proc.current /\ ~proc.aborted
  BY DEF UpdateEvaluatedStates, SafetyInv, Control, Flags
<1>2. /\ proc' = [proc EXCEPT !.pc = "sign"]
      /\ states' = [states EXCEPT ![proc.tip] = @ \cup {proc.block}]
      /\ UNCHANGED <<headers, inProgressBlock, vmVars, nodeVars, observerVars, watchdogVars,
                     phase, started, chainReorged, indexingTasks, reverts, syncBlockHash, boundVars>>
  BY <1>1 DEF UpdateEvaluatedStates, TaskOnly, SaveBlockStates
<1>3. /\ proc'.pc = "sign" /\ proc.pc = "save_states" /\ proc'.current /\ proc'.tip = proc.tip
      /\ proc'.block = proc.block /\ proc'.fetch = proc.fetch
      /\ proc'.aborted = proc.aborted /\ proc'.reorged = proc.reorged
  BY <1>1, <1>2, HeightTypes DEF Proc, UpdateEvaluatedStates
<1>4. proc.tip \in Heights /\ Frontier = proc.tip /\ Running
  BY <1>1, HeightTypes, CurrentRuns
<1>5. states[proc.tip] = {} /\ headers[proc.tip] = NoBlock
  BY <1>3, <1>4 DEF SafetyInv, Database, AtFrontier, Saved, Executed
<1>6. /\ states'[proc.tip] = {proc.block}
      /\ \A h \in Heights : h # proc.tip => states'[h] = states[h]
  BY <1>2, <1>4, <1>5, HeightTypes
<1>7. /\ Locks' /\ Phases' /\ Positions' /\ Purged' /\ Walked' /\ HasData'
      /\ Running' /\ Frontier' = proc.tip
  <2>1. \A h \in Heights : h < proc.tip => headers'[h] = headers[h] /\ states'[h] = states[h]
    BY <1>2, <1>4, <1>6 DEF Heights
  <2> QED BY <1>1, <1>2, <1>3, <2>1, TaskFrame
<1>8. Stored'
  <2>1. chain' = chain
    BY <1>2 DEF nodeVars
  <2>2. \A h \in Heights : headers[h] # NoBlock => states'[h] = states[h]
    BY <1>5, <1>6
  <2> QED BY <1>2, <2>1, <2>2 DEF SafetyInv, Database, Stored
<1>9. AtFrontier'
  <2>1. \A h \in Heights : h > proc.tip => states'[h] = states[h]
    BY <1>4, <1>6 DEF Heights
  <2> QED BY <1>2, <1>3, <1>4, <1>5, <1>6, <1>7, <2>1 DEF SafetyInv, Database, AtFrontier, Executed, Saved
<1>10. Flags'
  BY <1>1, <1>2, <1>3 DEF SafetyInv, Control, Flags, Executed, Saved, vmVars
<1>11. Copies'
  BY <1>2 DEF SafetyInv, Copies, Agreeing, OnBest, nodeVars, watchdogVars, vmVars
<1>12. Examined'
  BY <1>1, <1>2, <1>3 DEF SafetyInv, Examined, OnBest, nodeVars
<1> QED BY <1>7, <1>8, <1>9, <1>10, <1>11, <1>12 DEF SafetyInv, Control, Database

\* The header below the frontier is stored, so that the block can be signed.
LEMMA SignBlockSafe ==
  ASSUME TypeInv, TypeInv', SafetyInv, SignBlock PROVE SafetyInv'
<1>1. proc.current /\ ~proc.aborted /\ proc.pc = "sign"
  BY DEF SignBlock, SafetyInv, Control, Flags
<1>2. proc.tip \in Heights /\ Frontier = proc.tip /\ Running
  BY <1>1, HeightTypes, CurrentRuns
<1>3. proc.tip > 0 => headers[proc.tip - 1] # NoBlock /\ PreviousHeader(proc.tip) = headers[proc.tip - 1]
  <2>1. SUFFICES ASSUME proc.tip > 0
        PROVE  headers[proc.tip - 1] # NoBlock /\ PreviousHeader(proc.tip) = headers[proc.tip - 1]
    OBVIOUS
  <2>2. proc.tip - 1 \in Heights /\ proc.tip - 1 < proc.tip
    BY <1>2, <2>1, MaxHeightAssumption DEF Heights
  <2>3. headers[proc.tip - 1] # NoBlock
    BY <1>2, <2>2 DEF SafetyInv, Database, AtFrontier
  <2> QED BY <2>2, <2>3 DEF SafetyInv, Copies, Agreeing, PreviousHeader
<1>4. /\ proc' = [proc EXCEPT !.pc = "verify",
                     !.previous = IF proc.tip > 0 THEN PreviousHeader(proc.tip) ELSE NoBlock]
      /\ UNCHANGED <<storeVars, vmVars, nodeVars, observerVars, watchdogVars, phase,
                     started, chainReorged, indexingTasks, reverts, syncBlockHash, boundVars>>
  BY <1>1, <1>3 DEF SignBlock, TaskOnly
<1>5. /\ proc'.pc = "verify" /\ proc'.current /\ proc'.tip = proc.tip
      /\ proc'.block = proc.block /\ proc'.fetch = proc.fetch
      /\ proc'.aborted = proc.aborted /\ proc'.reorged = proc.reorged
      /\ proc.tip > 0 => proc'.previous = headers[proc.tip - 1]
  BY <1>1, <1>3, <1>4, HeightTypes DEF Proc
<1>6. Locks' /\ Phases' /\ Positions' /\ Database'
  BY <1>1, <1>4, <1>5, TaskStoreFrame DEF Saved, Executed
<1>7. Flags'
  BY <1>1, <1>4, <1>5 DEF SafetyInv, Control, Flags, Executed, Saved, vmVars
<1>8. Copies'
  BY <1>4 DEF SafetyInv, Copies, Agreeing, OnBest, storeVars, nodeVars, watchdogVars, vmVars
<1>9. Examined'
  BY <1>1, <1>4, <1>5 DEF SafetyInv, Examined, OnBest, nodeVars, storeVars
<1> QED BY <1>6, <1>7, <1>8, <1>9 DEF SafetyInv, Control

\* What a block is compared with is the stored block below it.
LEMMA PreviousIsStored ==
  ASSUME TypeInv, SafetyInv, proc.current, proc.pc = "verify", proc.tip - 1 > 0
  PROVE  /\ proc.tip - 1 \in Heights /\ headers[proc.tip - 1] # NoBlock
         /\ PreviousOf(proc.tip, proc.previous) = headers[proc.tip - 1]
<1>1. proc.tip \in Heights /\ Frontier = proc.tip /\ Running
  BY HeightTypes, CurrentRuns
<1>2. proc.tip - 1 \in Heights /\ proc.tip - 1 < proc.tip /\ proc.tip > 0
  BY <1>1, MaxHeightAssumption DEF Heights
<1>3. headers[proc.tip - 1] # NoBlock
  BY <1>1, <1>2 DEF SafetyInv, Database, AtFrontier
<1>4. proc.previous = headers[proc.tip - 1]
  BY <1>2 DEF SafetyInv, Examined
<1> QED BY <1>2, <1>3, <1>4 DEF SafetyInv, Copies, Agreeing, PreviousOf

\* A block that does not extend the stored one is below the top, or the stored
\* one is not on the best chain.
LEMMA VerifyReorgSafe ==
  ASSUME TypeInv, TypeInv', SafetyInv, VerifyReorg PROVE SafetyInv'
<1>1. proc.current /\ ~proc.aborted /\ ~proc.reorged /\ proc.pc = "verify" /\ proc.fetch = "done"
  BY DEF VerifyReorg, SafetyInv, Control, Flags
<1>2. proc.tip \in Heights /\ proc.tip \in 0 .. chain.top /\ Frontier = proc.tip /\ Running /\ started
  BY <1>1, HeightTypes, CurrentRuns
<1>3. UNCHANGED <<storeVars, currentHeader, vmVars, nodeVars, observerVars, phase,
                  started, chainReorged, indexingTasks, reverts, syncBlockHash, boundVars>>
  BY DEF VerifyReorg
<1>4. OnBest(proc.tip, proc.block) /\ OnBest(currentHeader.number, currentHeader.block)
  BY <1>1, <1>2 DEF SafetyInv, Copies, Examined
<1>5. headers[proc.tip] = NoBlock
  BY <1>1, <1>2 DEF SafetyInv, Database, AtFrontier, Saved
<1>6. CASE currentHeader.number - proc.tip >= VerifyGap
  <2>1. lastBlock' = [number |-> proc.tip, block |-> proc.block]
        /\ proc' = [proc EXCEPT !.pc = "finalize"]
    <3>1. ~(currentHeader.number - proc.tip < VerifyGap)
      BY <1>2, <1>4, <1>6, HeightTypes, IndexerAssumption DEF OnBest, Heights
    <3> QED BY <1>1, <3>1 DEF VerifyReorg, UpdateBlock
  <2>2. /\ proc'.pc = "finalize" /\ proc'.current /\ proc'.tip = proc.tip
        /\ proc'.block = proc.block /\ proc'.fetch = proc.fetch
        /\ proc'.aborted = proc.aborted /\ proc'.reorged = proc.reorged
    BY <1>1, <2>1, HeightTypes DEF Proc
  <2>3. Locks' /\ Phases' /\ Positions' /\ Database'
    BY <1>1, <1>3, <2>2, TaskStoreFrame DEF Saved, Executed
  <2>4. Flags'
    BY <1>1, <1>3, <2>2 DEF SafetyInv, Control, Flags, Executed, Saved, vmVars
  <2>5. proc.tip \notin CheckedHeights
    <3>1. currentHeader.number <= MaxHeight /\ currentHeader.number \in Int
      BY <1>4, HeightTypes DEF OnBest, Heights
    <3> QED BY <1>2, <1>6, <3>1, HeightTypes, IndexerAssumption, SMTT(20) DEF CheckedHeights, Heights
  <2>6. Agreeing(lastBlock)'
    BY <1>3, <1>5, <2>1 DEF Agreeing, storeVars
  <2>7. Copies'
    BY <1>2, <1>3, <2>6, CurrentRuns, <1>1 DEF SafetyInv, Copies, Agreeing, OnBest, storeVars, nodeVars, vmVars
  <2>8. Examined'
    BY <1>1, <1>3, <1>4, <2>1, <2>2, <2>5 DEF Examined, OnBest, nodeVars, storeVars
  <2> QED BY <2>3, <2>4, <2>7, <2>8 DEF SafetyInv, Control
<1>7. CASE ~(currentHeader.number - proc.tip >= VerifyGap)
  <2>1. /\ lastBlock' = lastBlock
        /\ proc' = IF VerifyChainReorg(proc)
                     THEN [proc EXCEPT !.pc = "restore", !.walk = proc.tip]
                     ELSE [proc EXCEPT !.pc = "compare", !.header = currentHeader]
    BY <1>1, <1>7 DEF VerifyReorg
  <2>2. /\ proc'.pc = IF VerifyChainReorg(proc) THEN "restore" ELSE "compare"
        /\ proc'.current /\ proc'.tip = proc.tip
        /\ proc'.block = proc.block /\ proc'.fetch = proc.fetch
        /\ proc'.aborted = proc.aborted /\ proc'.reorged = proc.reorged
        /\ VerifyChainReorg(proc) => proc'.walk = proc.tip
        /\ ~VerifyChainReorg(proc) => proc'.header = currentHeader
    BY <1>1, <2>1, HeightTypes DEF Proc
  <2>3. Locks' /\ Phases' /\ Positions' /\ Database'
    BY <1>1, <1>3, <2>2, TaskStoreFrame DEF Saved, Executed
  <2>4. Flags'
    BY <1>1, <1>3, <2>2 DEF SafetyInv, Control, Flags, Executed, Saved, vmVars
  <2>5. Copies'
    BY <1>3, <2>1 DEF SafetyInv, Copies, Agreeing, OnBest, storeVars, nodeVars, vmVars
  <2>6. CASE VerifyChainReorg(proc)
    <3>1. proc.tip - 1 > 0 /\ Prev[proc.block] # headers[proc.tip - 1]
      BY <1>1, <2>6, PreviousIsStored DEF VerifyChainReorg
    <3>2. proc.tip < chain.top \/ headers[proc.tip - 1] # chain.at[proc.tip - 1]
      <4>1. SUFFICES ASSUME ~(proc.tip < chain.top)
            PROVE  headers[proc.tip - 1] # chain.at[proc.tip - 1]
        OBVIOUS
      <4>2. proc.tip = chain.top /\ proc.block = chain.at[proc.tip] /\ proc.tip \in 1 .. chain.top
        BY <1>2, <1>4, <3>1, <4>1, HeightTypes, SMTT(20) DEF OnBest, Heights
      <4>3. Prev[chain.at[proc.tip]] = chain.at[proc.tip - 1]
        BY <4>2, HeightTypes, ChainsAssumption
      <4> QED BY <3>1, <4>2, <4>3
    <3>3. 1 <= proc.tip /\ proc.tip <= proc.tip
      BY <1>2, <3>1, HeightTypes DEF Heights
    <3> QED BY <1>1, <1>3, <1>4, <2>2, <2>3, <2>4, <2>5, <2>6, <3>2, <3>3
            DEF SafetyInv, Control, Examined, OnBest, nodeVars, storeVars
  <2>7. CASE ~VerifyChainReorg(proc)
    <3>1. proc.tip \in CheckedHeights => Prev[proc.block] = headers[proc.tip - 1]
      <4>1. proc.tip \in CheckedHeights => proc.tip - 1 > 0
        BY MaxHeightAssumption DEF CheckedHeights, Heights
      <4> QED BY <1>1, <2>7, <4>1, PreviousIsStored DEF VerifyChainReorg
    <3> QED BY <1>1, <1>3, <1>4, <2>2, <2>3, <2>4, <2>5, <2>7, <3>1
            DEF SafetyInv, Control, Examined, OnBest, nodeVars, storeVars
  <2> QED BY <2>6, <2>7
<1> QED BY <1>6, <1>7

LEMMA CompareWithTipSafe ==
  ASSUME TypeInv, TypeInv', SafetyInv, CompareWithTip PROVE SafetyInv'
<1>1. proc.current /\ ~proc.aborted /\ ~proc.reorged /\ proc.pc = "compare" /\ proc.fetch = "done"
  BY DEF CompareWithTip, SafetyInv, Control, Flags
<1>2. proc.tip \in Heights /\ proc.tip \in 0 .. chain.top /\ Frontier = proc.tip /\ Running /\ started
  BY <1>1, HeightTypes, CurrentRuns
<1>3. UNCHANGED <<storeVars, currentHeader, vmVars, nodeVars, observerVars, phase,
                  started, chainReorged, indexingTasks, reverts, syncBlockHash, boundVars>>
  BY DEF CompareWithTip
<1>4. OnBest(proc.tip, proc.block) /\ OnBest(proc.header.number, proc.header.block)
  BY <1>1, <1>2 DEF SafetyInv, Examined
<1>5. headers[proc.tip] = NoBlock
  BY <1>1, <1>2 DEF SafetyInv, Database, AtFrontier, Saved
<1>6. CASE proc.header.number = proc.tip /\ proc.header.block # proc.block
  <2>1. /\ lastBlock' = lastBlock
        /\ proc' = [proc EXCEPT !.pc = "restore", !.header = Unset, !.walk = proc.tip]
    BY <1>6 DEF CompareWithTip
  <2>2. /\ proc'.pc = "restore" /\ proc'.current /\ proc'.tip = proc.tip
        /\ proc'.block = proc.block /\ proc'.fetch = proc.fetch /\ proc'.walk = proc.tip
        /\ proc'.aborted = proc.aborted /\ proc'.reorged = proc.reorged
    BY <1>1, <2>1, HeightTypes DEF Proc
  <2>3. Locks' /\ Phases' /\ Positions' /\ Database'
    BY <1>1, <1>3, <2>2, TaskStoreFrame DEF Saved, Executed
  <2>4. Flags'
    BY <1>1, <1>3, <2>2 DEF SafetyInv, Control, Flags, Executed, Saved, vmVars
  <2>5. Copies'
    BY <1>3, <2>1 DEF SafetyInv, Copies, Agreeing, OnBest, storeVars, nodeVars, vmVars
  <2>6. 1 <= proc.tip /\ proc.tip < chain.top /\ proc.tip <= proc.tip
    BY <1>2, <1>4, <1>6, HeightTypes DEF OnBest, Heights
  <2> QED BY <1>1, <1>3, <1>4, <2>2, <2>3, <2>4, <2>5, <2>6
          DEF SafetyInv, Control, Examined, OnBest, nodeVars, storeVars
<1>7. CASE ~(proc.header.number = proc.tip /\ proc.header.block # proc.block)
  <2>1. /\ lastBlock' = [number |-> proc.tip, block |-> proc.block]
        /\ proc' = [proc EXCEPT !.pc = "finalize", !.header = Unset]
    BY <1>7 DEF CompareWithTip, UpdateBlock
  <2>2. /\ proc'.pc = "finalize" /\ proc'.current /\ proc'.tip = proc.tip
        /\ proc'.block = proc.block /\ proc'.fetch = proc.fetch
        /\ proc'.aborted = proc.aborted /\ proc'.reorged = proc.reorged
    BY <1>1, <2>1, HeightTypes DEF Proc
  <2>3. Locks' /\ Phases' /\ Positions' /\ Database'
    BY <1>1, <1>3, <2>2, TaskStoreFrame DEF Saved, Executed
  <2>4. Flags'
    BY <1>1, <1>3, <2>2 DEF SafetyInv, Control, Flags, Executed, Saved, vmVars
  <2>5. Agreeing(lastBlock)'
    BY <1>3, <1>5, <2>1 DEF Agreeing, storeVars
  <2>6. Copies'
    BY <1>1, <1>2, <1>3, <2>5, CurrentRuns DEF SafetyInv, Copies, Agreeing, OnBest, storeVars, nodeVars, vmVars
  <2>7. proc.tip \in CheckedHeights => Prev[proc.block] = headers[proc.tip - 1]
    BY <1>1 DEF SafetyInv, Examined
  <2> QED BY <1>1, <1>3, <1>4, <2>1, <2>2, <2>3, <2>4, <2>6, <2>7
          DEF SafetyInv, Control, Examined, OnBest, nodeVars, storeVars
<1> QED BY <1>6, <1>7

\* A step of a task that was cancelled and does not revert: nothing depends on it.
LEMMA CancelledFrame ==
  ASSUME TypeInv, TypeInv', SafetyInv, ~proc.current, ~proc'.current,
         proc.pc \notin {"idle", "reverting"}, proc'.pc = "catch", ~vmPrepared',
         validatorCache' \in {validatorCache, Unset},
         UNCHANGED <<nodeVars, observerVars, storeVars, watchdogVars, phase, started, chainReorged,
                     indexingTasks, reverts, syncBlockHash, boundVars>>
  PROVE  SafetyInv'
<1>1. started /\ phase = "up"
  BY DEF SafetyInv, Control, Phases, Idle
<1>2. /\ Reverting("task") = Reverting("task")' /\ Reverting("boot") = Reverting("boot")'
      /\ AnyRevert = AnyRevert' /\ Running = Running'
  BY DEF Reverting, AnyRevert, Running
<1>3. Frontier = NextTip /\ Frontier' = NextTip /\ NextTip' = NextTip
  BY DEF Frontier, NextTip, observerVars
<1>4. Locks'
  BY <1>2 DEF SafetyInv, Control, Locks, OneRevert, QuietDuringRevert, Reverting
<1>5. Phases' /\ Flags'
  BY <1>1 DEF Phases, Flags
<1>6. Tops' /\ QueueTips' /\ Heads' /\ RevertHeights'
  BY <1>3 DEF SafetyInv, Positions, Tops, QueueTips, Heads, RevertHeights, Reverting, Consecutive, Sound, OnBest, HeightFromDB,
     Announced, Tip, nodeVars, observerVars, storeVars
<1>7. Frontiers'
  BY <1>2, <1>3 DEF SafetyInv, Positions, Frontiers, Announced, Tip, nodeVars, observerVars
<1>8. Stored' /\ Purged' /\ Walked'
  BY <1>1 DEF SafetyInv, Database, Stored, Purged, Walked, Reverting, nodeVars, storeVars
<1>9. AtFrontier'
  BY <1>2, <1>3 DEF SafetyInv, Database, AtFrontier, storeVars
<1>10. HasData'
  <2>1. DataTop' = DataTop
    BY <1>1, <1>2, <1>3 DEF DataTop, observerVars
  <2> QED BY <1>2, <2>1 DEF SafetyInv, Database, HasData, Reverting, boundVars, storeVars
<1>11. Copies'
  <2>1. Agreeing(validatorCache)'
    BY DEF SafetyInv, Copies, Agreeing, storeVars, Unset
  <2> QED BY <2>1 DEF SafetyInv, Copies, Agreeing, OnBest, nodeVars, storeVars, watchdogVars
<1>12. Examined'
  BY DEF Examined
<1> QED BY <1>4, <1>5, <1>6, <1>7, <1>8, <1>9, <1>10, <1>11, <1>12
        DEF SafetyInv, Control, Positions, Database

LEMMA FinalizeBlockSafe ==
  ASSUME TypeInv, TypeInv', SafetyInv, FinalizeBlock PROVE SafetyInv'
<1>1. CASE proc.current
  <2>1. ~proc.aborted /\ ~proc.reorged /\ proc.pc = "finalize" /\ proc.fetch = "done"
    BY <1>1 DEF FinalizeBlock, SafetyInv, Control, Flags
  <2>2. /\ proc' = [proc EXCEPT !.pc = "save_header", !.previous = NoBlock]
        /\ UNCHANGED <<storeVars, vmVars, nodeVars, observerVars, watchdogVars, phase,
                       started, chainReorged, indexingTasks, reverts, syncBlockHash, boundVars>>
    BY <2>1 DEF FinalizeBlock, TaskOnly
  <2>3. /\ proc'.pc = "save_header" /\ proc'.current /\ proc'.tip = proc.tip
        /\ proc'.block = proc.block /\ proc'.fetch = proc.fetch
        /\ proc'.aborted = proc.aborted /\ proc'.reorged = proc.reorged
    BY <1>1, <2>2, HeightTypes DEF Proc
  <2>4. Locks' /\ Phases' /\ Positions' /\ Database'
    BY <1>1, <2>1, <2>2, <2>3, TaskStoreFrame DEF Saved, Executed
  <2>5. Flags'
    BY <2>1, <2>2, <2>3 DEF SafetyInv, Control, Flags, Executed, Saved, vmVars
  <2>6. Copies'
    BY <2>2 DEF SafetyInv, Copies, Agreeing, OnBest, storeVars, nodeVars, watchdogVars, vmVars
  <2>7. Examined'
    BY <1>1, <2>1, <2>2, <2>3 DEF SafetyInv, Examined, OnBest, nodeVars, storeVars, watchdogVars
  <2> QED BY <2>4, <2>5, <2>6, <2>7 DEF SafetyInv, Control
<1>2. CASE ~proc.current
  <2>1. proc.pc = "finalize" /\ proc.aborted
    BY <1>2 DEF FinalizeBlock, SafetyInv, Control, Flags
  <2>2. /\ proc' = Thrown(proc) /\ ~vmPrepared' /\ validatorCache' = Unset
        /\ UNCHANGED <<storeVars, nodeVars, observerVars, watchdogVars, phase,
                       started, chainReorged, indexingTasks, reverts, syncBlockHash, boundVars>>
    BY <2>1 DEF FinalizeBlock, TaskOnly, ClearVM
  <2>3. proc'.pc = "catch" /\ ~proc'.current
    BY <1>2, <2>2, HeightTypes DEF Thrown, Proc
  <2> QED BY <1>2, <2>1, <2>2, <2>3, CancelledFrame
<1> QED BY <1>1, <1>2

\* The block is saved at the frontier, above a header that it extends.
LEMMA SaveBlockSafe ==
  ASSUME TypeInv, TypeInv', SafetyInv, SaveBlock PROVE SafetyInv'
<1>1. /\ proc.current /\ ~proc.aborted /\ ~proc.reorged /\ proc.pc = "save_header"
      /\ proc.fetch = "done" /\ proc.block # NoBlock
  BY DEF SaveBlock, SafetyInv, Control, Flags, TypeInv, FetchedOK, ProcFetched
<1>2. proc.tip \in Heights /\ proc.tip \in 0 .. chain.top /\ Frontier = proc.tip /\ Running /\ started
  BY <1>1, HeightTypes, CurrentRuns
<1>3. /\ proc' = [proc EXCEPT !.pc = "complete"]
      /\ headers' = [headers EXCEPT ![proc.tip] = proc.block]
      /\ ~vmPrepared' /\ validatorCache' = Unset
      /\ UNCHANGED <<states, inProgressBlock, nodeVars, observerVars, watchdogVars, phase,
                     started, chainReorged, indexingTasks, reverts, syncBlockHash, boundVars>>
  BY <1>1 DEF SaveBlock, SaveBlockHeader, ClearVM, TaskOnly
<1>4. /\ proc'.pc = "complete" /\ proc'.current /\ proc'.tip = proc.tip
      /\ proc'.block = proc.block /\ proc'.fetch = proc.fetch
      /\ proc'.aborted = proc.aborted /\ proc'.reorged = proc.reorged
  BY <1>1, <1>3, HeightTypes DEF Proc
<1>5. /\ headers'[proc.tip] = proc.block
      /\ \A h \in Heights : h # proc.tip => headers'[h] = headers[h]
  BY <1>2, <1>3, HeightTypes
<1>6. /\ Locks' /\ Phases' /\ Positions' /\ Purged' /\ Walked' /\ HasData'
      /\ Running' /\ Frontier' = proc.tip
  <2>1. \A h \in Heights : h < proc.tip => headers'[h] = headers[h] /\ states'[h] = states[h]
    BY <1>2, <1>3, <1>5, HeightTypes DEF Heights
  <2> QED BY <1>1, <1>3, <1>4, <2>1, TaskFrame
<1>7. /\ \A h \in Heights : h < proc.tip => headers[h] # NoBlock
      /\ \A h \in Heights : h > proc.tip => headers[h] = NoBlock /\ states[h] = {}
      /\ states[proc.tip] = {proc.block}
  BY <1>1, <1>2 DEF SafetyInv, Database, AtFrontier, Executed
<1>8. /\ OnBest(proc.tip, proc.block)
      /\ lastBlock = [number |-> proc.tip, block |-> proc.block]
      /\ proc.tip \in CheckedHeights => Prev[proc.block] = headers[proc.tip - 1]
  BY <1>1 DEF SafetyInv, Examined
<1>9. Stored'
  <2>1. ASSUME NEW h \in Heights, NEW k \in Heights, k < h, headers'[h] # NoBlock
        PROVE  headers'[k] # NoBlock
    <3>1. h <= proc.tip
      BY <2>1, <1>2, <1>5, <1>7, HeightTypes, SMTT(20) DEF Heights
    <3>2. k < proc.tip /\ k # proc.tip
      BY <2>1, <3>1, <1>2, HeightTypes DEF Heights
    <3> QED BY <3>2, <1>5, <1>7
  <2>2. ASSUME NEW h \in CheckedHeights, headers'[h] # NoBlock
        PROVE  Prev[headers'[h]] = headers'[h - 1]
    <3>1. h \in Heights /\ h - 1 \in Heights /\ h - 1 < h /\ h # h - 1
      BY HeightTypes DEF CheckedHeights, Heights
    <3>2. h <= proc.tip
      BY <2>2, <3>1, <1>2, <1>5, <1>7, HeightTypes, SMTT(20) DEF Heights
    <3>3. h - 1 # proc.tip
      BY <3>1, <3>2, <1>2, HeightTypes DEF Heights
    <3>4. headers'[h - 1] = headers[h - 1]
      BY <3>1, <3>3, <1>5
    <3>5. CASE h = proc.tip
      BY <3>4, <3>5, <1>5, <1>8
    <3>6. CASE h # proc.tip
      BY <2>2, <3>1, <3>4, <3>6, <1>5 DEF SafetyInv, Database, Stored
    <3> QED BY <3>5, <3>6
  <2>3. ASSUME NEW h \in Heights, headers'[h] # NoBlock PROVE states'[h] \subseteq {headers'[h]}
    BY <2>3, <1>3, <1>5, <1>7 DEF SafetyInv, Database, Stored
  <2>4. headers'[0] \in {NoBlock, chain'.at[0]}
    <3>1. chain' = chain /\ 0 \in Heights
      BY <1>3, HeightTypes DEF nodeVars, Heights
    <3>2. CASE proc.tip = 0
      BY <3>1, <3>2, <1>5, <1>8 DEF OnBest
    <3> QED BY <3>1, <3>2, <1>5 DEF SafetyInv, Database, Stored
  <2>5. inProgressBlock' > 1 => headers'[0] # NoBlock
    <3>1. 0 \in Heights
      BY HeightTypes DEF Heights
    <3> QED BY <3>1, <1>1, <1>3, <1>5 DEF SafetyInv, Database, Stored
  <2> QED BY <2>1, <2>2, <2>3, <2>4, <2>5 DEF Stored
<1>10. AtFrontier'
  <2>1. \A h \in Heights : h > proc.tip => headers'[h] = headers[h]
    BY <1>2, <1>5, HeightTypes DEF Heights
  <2>2. \A h \in Heights : h < proc.tip => headers'[h] = headers[h]
    BY <1>2, <1>5, HeightTypes DEF Heights
  <2> QED BY <1>3, <1>4, <1>5, <1>6, <1>7, <2>1, <2>2 DEF AtFrontier, Executed, Saved
<1>11. Flags'
  BY <1>1, <1>3, <1>4 DEF Flags, Executed
<1>12. Agreeing(lastBlock)' /\ Agreeing(validatorCache)'
  BY <1>3, <1>5, <1>8 DEF Agreeing, Unset, watchdogVars
<1>13. Copies'
  BY <1>3, <1>12 DEF SafetyInv, Copies, OnBest, nodeVars, watchdogVars
<1>14. Examined'
  BY <1>3, <1>4, <1>8 DEF Examined, OnBest, nodeVars
<1> QED BY <1>6, <1>9, <1>10, <1>11, <1>13, <1>14 DEF SafetyInv, Control, Database

LEMMA OnCompletedTaskSafe ==
  ASSUME TypeInv, TypeInv', SafetyInv, OnCompletedTask PROVE SafetyInv'
<1>1. proc.current /\ ~proc.aborted /\ ~proc.reorged /\ proc.pc = "complete" /\ proc.fetch = "done"
  BY DEF OnCompletedTask, SafetyInv, Control, Flags, Executed
<1>2. /\ proc' = [proc EXCEPT !.pc = "set_height"]
      /\ UNCHANGED <<storeVars, vmVars, nodeVars, observerVars, watchdogVars, phase,
                     started, chainReorged, indexingTasks, reverts, syncBlockHash, boundVars>>
  BY <1>1 DEF OnCompletedTask, observerVars
<1>3. /\ proc'.pc = "set_height" /\ proc'.current /\ proc'.tip = proc.tip
      /\ proc'.block = proc.block /\ proc'.fetch = proc.fetch
      /\ proc'.aborted = proc.aborted /\ proc'.reorged = proc.reorged
  BY <1>1, <1>2, HeightTypes DEF Proc
<1>4. Locks' /\ Phases' /\ Positions' /\ Database'
  BY <1>1, <1>2, <1>3, TaskStoreFrame DEF Saved, Executed
<1>5. Flags'
  BY <1>1, <1>2, <1>3 DEF SafetyInv, Control, Flags, Executed, Saved, vmVars
<1>6. Copies'
  BY <1>2 DEF SafetyInv, Copies, Agreeing, OnBest, storeVars, nodeVars, watchdogVars, vmVars
<1>7. Examined'
  BY <1>1, <1>2, <1>3 DEF SafetyInv, Examined, OnBest, nodeVars
<1> QED BY <1>4, <1>5, <1>6, <1>7 DEF SafetyInv, Control

-----------------------------------------------------------------------------
(* startTasks *)

\* A task that processNextTask has just taken from the queue.
Fresh(p) == p.current /\ p.pc = "prefetch" /\ ~p.aborted /\ ~p.reorged /\ Sound(p)

\* The tasks that startTasks adds go on where the queue ends.
LEMMA AppendConsecutive ==
  ASSUME NEW q \in Seq(Task), NEW b \in Int, NEW n \in Nat, Consecutive(q, b - Len(q)),
         NEW new \in Seq(Task), Len(new) = n,
         \A i \in 1 .. n : new[i] = NewTask(b + i - 1)
  PROVE  Consecutive(q \o new, b - Len(q))
<1> DEFINE first == b - Len(q)
<1>1. Len(q) \in Nat /\ Len(q \o new) = Len(q) + n /\ first \in Int
  OBVIOUS
<1>2. SUFFICES ASSUME NEW i \in 1 .. Len(q) + n
               PROVE  (q \o new)[i].tip = first + i - 1 /\ Sound((q \o new)[i])
  BY <1>1 DEF Consecutive
<1>3. CASE i <= Len(q)
  <2>1. i \in 1 .. Len(q) /\ (q \o new)[i] = q[i]
    BY <1>1, <1>3
  <2> QED BY <2>1 DEF Consecutive
<1>4. CASE i > Len(q)
  <2>1. i - Len(q) \in 1 .. n /\ (q \o new)[i] = new[i - Len(q)]
    BY <1>1, <1>4
  <2>2. (q \o new)[i] = NewTask(b + (i - Len(q)) - 1)
    BY <2>1
  <2>3. (q \o new)[i].tip = b + (i - Len(q)) - 1 /\ (q \o new)[i].fetch = "waiting"
    BY <2>2 DEF NewTask
  <2>4. b + (i - Len(q)) - 1 = first + i - 1
    BY <1>1
  <2> QED BY <2>3, <2>4 DEF Sound
<1> QED BY <1>1, <1>3, <1>4

\* Taking the first task leaves a queue that begins one higher.
LEMMA TailConsecutive ==
  ASSUME NEW q \in Seq(Task), q # << >>, NEW first \in Int, Consecutive(q, first)
  PROVE  /\ Head(q).tip = first /\ Sound(Head(q))
         /\ Consecutive(Tail(q), first + 1)
<1>1. Head(q) = q[1] /\ 1 \in 1 .. Len(q)
  OBVIOUS
<1>2. q[1].tip = first + 1 - 1 /\ Sound(q[1])
  BY <1>1 DEF Consecutive
<1>3. Head(q).tip = first /\ Sound(Head(q))
  BY <1>1, <1>2
<1>4. ASSUME NEW i \in 1 .. Len(Tail(q))
      PROVE  Tail(q)[i].tip = (first + 1) + i - 1 /\ Sound(Tail(q)[i])
  <2>1. i + 1 \in 1 .. Len(q) /\ Tail(q)[i] = q[i + 1] /\ i \in Nat
    OBVIOUS
  <2>2. q[i + 1].tip = first + (i + 1) - 1 /\ Sound(q[i + 1])
    BY <2>1 DEF Consecutive
  <2>3. first + (i + 1) - 1 = (first + 1) + i - 1
    BY <2>1
  <2> QED BY <2>1, <2>2, <2>3
<1> QED BY <1>3, <1>4 DEF Consecutive

\* startTasks keeps the heights consecutive and does not move the frontier.
LEMMA StartTasksSafe ==
  ASSUME TypeInv, NEW p \in Proc, NEW q \in Seq(Task), Len(q) <= PrefetchQueueSize,
         NEW b \in 0 .. MaxHeight + 1, NEW target \in Heights, NEW locked \in BOOLEAN,
         target <= chain.top, b <= chain.top + 1, Consecutive(q, b - Len(q)),
         p.pc = "idle" => ~p.current,
         p.current => b - Len(q) = p.tip + 1,
         StartTasks(p, q, b, target, locked)
  PROVE  /\ bestTip' <= chain.top + 1
         /\ Consecutive(indexingTasks', bestTip' - Len(indexingTasks'))
         /\ proc'.current => bestTip' - Len(indexingTasks') = proc'.tip + 1
         /\ (IF proc'.current THEN proc'.tip ELSE bestTip' - Len(indexingTasks'))
              = IF p.current THEN p.tip ELSE b - Len(q)
         /\ proc' = p \/ (p.pc = "idle" /\ Fresh(proc'))
<1>0. MaxHeight \in Nat /\ chain.top \in Nat /\ chain.top <= MaxHeight
  BY HeightTypes DEF Heights
<1>1. CASE locked
  <2>1. proc' = p /\ indexingTasks' = q /\ bestTip' = b
    BY <1>1 DEF StartTasks
  <2> QED BY <2>1
<1>2. CASE ~locked
  <2>1. PICK n \in Nat : n = TasksToStart(q, b, target) /\ (n > 0 => b + n - 1 <= target)
    BY TasksToStartType
  <2> DEFINE new == [i \in 1 .. n |-> NewTask(b + i - 1)]
             filled == q \o new
             first == b - Len(q)
  <2>2. bestTip' = b + n
    BY <1>2, <2>1 DEF StartTasks
  <2>3. bestTip' <= chain.top + 1
    BY <2>1, <2>2, <1>0, SMTT(20) DEF Heights
  <2>4. \A i \in 1 .. n : NewTask(b + i - 1) \in Task
    BY <2>1, <1>0 DEF NewTask, Task, FetchState, Heights
  <2>5. new \in Seq(Task) /\ Len(new) = n /\ \A i \in 1 .. n : new[i] = NewTask(b + i - 1)
    BY <2>1, <2>4
  <2>6. filled \in Seq(Task) /\ Len(filled) = Len(q) + n
    BY <2>1, <2>5
  <2>7. Len(q) \in Nat /\ first \in Int /\ b \in Int
    BY <1>0
  <2> HIDE DEF new
  <2>8. Consecutive(filled, first)
    BY <2>1, <2>5, <2>7, AppendConsecutive
  <2> HIDE DEF filled, first
  <2>9. b + n - Len(filled) = first
    BY <2>1, <2>6, <2>7 DEF first
  <2>10. CASE p.pc = "idle" /\ filled # << >>
    <3>1. proc' = Processing(Head(filled)) /\ indexingTasks' = Tail(filled)
      BY <1>2, <2>1, <2>10 DEF StartTasks, filled, new
    <3>2. Head(filled) \in Task /\ Len(Tail(filled)) = Len(filled) - 1 /\ Len(filled) \in Nat
      BY <2>6, <2>10
    <3>3. Head(filled).tip = first /\ Sound(Head(filled)) /\ Consecutive(Tail(filled), first + 1)
      BY <2>6, <2>7, <2>8, <2>10, TailConsecutive
    <3>4. /\ proc'.current /\ proc'.pc = "prefetch" /\ ~proc'.aborted /\ ~proc'.reorged
          /\ proc'.tip = first /\ proc'.fetch = Head(filled).fetch
          /\ proc'.block = Head(filled).block
      <4>1. Head(filled).tip = first
        BY <3>3
      <4> QED BY <3>1, <3>2, <4>1 DEF Processing, Idle, Task
    <3>5. Fresh(proc')
      BY <3>3, <3>4 DEF Fresh, Sound
    <3>6. bestTip' - Len(indexingTasks') = first + 1
      <4>1. Len(indexingTasks') = Len(filled) - 1 /\ Len(filled) \in Nat /\ bestTip' = b + n
        BY <2>2, <3>1, <3>2
      <4>2. b \in Int /\ n \in Nat /\ first = b + n - Len(filled)
        BY <2>1, <2>7, <2>9
      <4>3. \A x \in Int, m, k \in Nat : (x + m) - (k - 1) = (x + m - k) + 1
        OBVIOUS
      <4> QED BY <4>1, <4>2, <4>3
    <3>7. Consecutive(indexingTasks', bestTip' - Len(indexingTasks'))
      BY <3>1, <3>3, <3>6
    <3>8. ~p.current
      BY <2>10
    <3> QED BY <2>3, <2>10, <3>4, <3>5, <3>6, <3>7, <3>8 DEF first
  <2>11. CASE ~(p.pc = "idle" /\ filled # << >>)
    <3>1. proc' = p /\ indexingTasks' = filled
      BY <1>2, <2>1, <2>11 DEF StartTasks, filled, new
    <3>2. bestTip' - Len(indexingTasks') = first
      BY <3>1, <2>2, <2>9
    <3>3. Consecutive(indexingTasks', bestTip' - Len(indexingTasks'))
      BY <3>1, <3>2, <2>8
    <3> QED BY <2>3, <3>1, <3>2, <3>3 DEF first
  <2> QED BY <2>10, <2>11
<1> QED BY <1>1, <1>2

\* ... for the queue and the best tip of the state.
LEMMA Started ==
  ASSUME TypeInv, SafetyInv, NEW p \in Proc, p.pc = "idle" => ~p.current,
         p.current => proc.current /\ p.tip = proc.tip,
         NEW target \in Heights, target <= chain.top, NEW locked \in BOOLEAN,
         chain' = chain, StartTasks(p, indexingTasks, bestTip, target, locked)
  PROVE  /\ bestTip' <= chain.top + 1 /\ QueueTips'
         /\ Frontier' = IF p.current THEN p.tip ELSE NextTip
         /\ proc' = p \/ (p.pc = "idle" /\ Fresh(proc'))
         /\ locked => proc' = p /\ indexingTasks' = indexingTasks /\ bestTip' = bestTip
<1>1. /\ bestTip \in 0 .. MaxHeight + 1 /\ bestTip <= chain.top + 1
      /\ indexingTasks \in Seq(Task) /\ Len(indexingTasks) <= PrefetchQueueSize
  BY DEF SafetyInv, Positions, Tops, TypeInv, TypeOK, ObserverTypeOK, TaskTypeOK
<1>2. Consecutive(indexingTasks, bestTip - Len(indexingTasks))
  BY DEF SafetyInv, Positions, QueueTips, NextTip
<1>3. p.current => bestTip - Len(indexingTasks) = p.tip + 1
  BY DEF SafetyInv, Positions, QueueTips, NextTip
<1>4. /\ bestTip' <= chain.top + 1
      /\ Consecutive(indexingTasks', bestTip' - Len(indexingTasks'))
      /\ proc'.current => bestTip' - Len(indexingTasks') = proc'.tip + 1
      /\ (IF proc'.current THEN proc'.tip ELSE bestTip' - Len(indexingTasks'))
           = IF p.current THEN p.tip ELSE bestTip - Len(indexingTasks)
      /\ proc' = p \/ (p.pc = "idle" /\ Fresh(proc'))
  BY <1>1, <1>2, <1>3, StartTasksSafe
<1>5. QueueTips'
  BY <1>4 DEF QueueTips, NextTip, Consecutive, Sound, OnBest
<1>6. locked => proc' = p /\ indexingTasks' = indexingTasks /\ bestTip' = bestTip
  BY DEF StartTasks
<1> QED BY <1>4, <1>5, <1>6 DEF Frontier, NextTip

\* releaseLockAndCallNextTask ends in no task or in one just begun.
LEMMA Released ==
  ASSUME TypeInv, SafetyInv, chain' = chain, Release(TRUE, chainReorged)
  PROVE  /\ bestTip' <= chain.top + 1 /\ QueueTips' /\ Frontier' = NextTip
         /\ proc' = Idle \/ Fresh(proc')
         /\ chainReorged => proc' = Idle /\ indexingTasks' = indexingTasks /\ bestTip' = bestTip
<1>1. Idle \in Proc /\ ~Idle.current /\ targetBlockHeight \in Heights /\ targetBlockHeight <= chain.top
  BY IdleType, HeightTypes DEF Idle, SafetyInv, Positions, Tops
<1>2. StartTasks(Idle, indexingTasks, bestTip, targetBlockHeight, chainReorged \/ ~TRUE)
  BY DEF Release
<1>3. (chainReorged \/ ~TRUE) \in BOOLEAN
  BY DEF TypeInv, TypeOK, ControlTypeOK
<1> HIDE DEF Idle
<1> QED BY <1>1, <1>2, <1>3, Started

\* What a task that has just begun, or none, is not yet.
LEMMA FreshFacts ==
  ASSUME NEW p, p = Idle \/ Fresh(p)
  PROVE  /\ p.pc \in {"idle", "prefetch"} /\ (p.current <=> p.pc = "prefetch")
         /\ p.pc \notin Executed /\ p.pc \notin Saved
         /\ p.current => ~p.aborted /\ ~p.reorged /\ Sound(p)
  BY DEF Fresh, Idle, Executed, Saved

\* The frontier moves up with the height.
LEMMA UpdateHeightSafe ==
  ASSUME TypeInv, TypeInv', SafetyInv, UpdateHeight PROVE SafetyInv'
<1>1. proc.pc = "set_height" /\ proc.current
  BY DEF UpdateHeight, SafetyInv, Control, Flags
<1>2. /\ phase = "up" /\ started /\ ~chainReorged /\ ~AnyRevert /\ Running
      /\ Frontier = proc.tip /\ NextTip = proc.tip + 1
      /\ proc.tip \in 0 .. chain.top /\ proc.tip \in Heights
  BY <1>1, CurrentRuns, HeightTypes
<1>3. /\ pendingBlockHeight' = proc.tip /\ inProgressBlock' = proc.tip + 1
      /\ validatorCache' = [number |-> proc.tip, block |-> proc.block]
      /\ Release(TRUE, chainReorged)
      /\ UNCHANGED <<chain, headers, states, targetBlockHeight, watchdogVars, vmPrepared,
                     phase, started, chainReorged, reverts, syncBlockHash, boundVars>>
  BY DEF UpdateHeight, SetNewHeight, nodeVars
<1>4. /\ bestTip' <= chain.top + 1 /\ QueueTips' /\ Frontier' = proc.tip + 1
      /\ proc' = Idle \/ Fresh(proc')
  BY <1>2, <1>3, Released
<1>5. /\ proc'.pc \in {"idle", "prefetch"} /\ (proc'.current <=> proc'.pc = "prefetch")
      /\ proc'.pc \notin Executed /\ proc'.pc \notin Saved
      /\ proc'.current => ~proc'.aborted /\ ~proc'.reorged /\ Sound(proc')
  BY <1>4, FreshFacts
<1>6. ~AnyRevert' /\ Running' /\ \A r \in Reverters : ~Reverting(r)'
  BY <1>2, <1>3 DEF AnyRevert, Reverting, Running
<1>7. Locks'
  <2>1. ~Reverting("task")' /\ ~Reverting("boot")'
    BY <1>6 DEF Reverters
  <2> QED BY <1>2, <1>3, <1>5, <1>6, <2>1 DEF Locks, OneRevert, QuietDuringRevert, AnyRevert
<1>8. Phases'
  BY <1>2, <1>3 DEF Phases
<1>9. Flags'
  <2>1. ~vmPrepared
    BY <1>1 DEF SafetyInv, Control, Flags, Executed, Saved
  <2> QED BY <1>3, <1>5, <2>1 DEF Flags, Sound
<1>10. /\ MaxHeight \in Nat /\ chain.top \in Nat /\ chain.top <= MaxHeight /\ proc.tip \in Nat
       /\ proc.tip <= chain.top
  BY <1>2, HeightTypes DEF Heights
<1>11. Tops' /\ Heads'
  BY <1>2, <1>3, <1>4, <1>10 DEF SafetyInv, Positions, Tops, Heads
<1>12. Frontiers'
  BY <1>2, <1>3, <1>4, <1>10 DEF Frontiers
<1>13. RevertHeights' /\ Purged' /\ Walked'
  BY <1>2, <1>3, <1>6 DEF RevertHeights, Purged, Walked
<1>14. /\ \A h \in Heights : h < proc.tip => headers[h] # NoBlock
       /\ \A h \in Heights : h > proc.tip => headers[h] = NoBlock /\ states[h] = {}
       /\ headers[proc.tip] = proc.block /\ states[proc.tip] = {proc.block}
  BY <1>1, <1>2 DEF SafetyInv, Database, AtFrontier, Executed, Saved
<1>15. proc.block # NoBlock
  BY <1>2, <1>14, HeightTypes, BlocksAssumption
<1>16. Stored'
  <2>1. inProgressBlock' > 1 => headers'[0] # NoBlock
    BY <1>3, <1>10, <1>14 DEF Heights
  <2> QED BY <1>3, <2>1 DEF SafetyInv, Database, Stored
<1>17. AtFrontier'
  <2>1. ASSUME NEW h \in Heights, h < proc.tip + 1 PROVE headers[h] # NoBlock
    BY <2>1, <1>10, <1>14, <1>15 DEF Heights
  <2>2. ASSUME NEW h \in Heights, h > proc.tip PROVE headers[h] = NoBlock /\ states[h] = {}
    BY <2>2, <1>14
  <2>3. \A h \in Heights : h > proc.tip + 1 => h > proc.tip
    BY <1>10 DEF Heights
  <2>4. proc.tip + 1 > proc.tip
    BY <1>10
  <2> QED BY <1>3, <1>4, <1>5, <2>1, <2>2, <2>3, <2>4 DEF AtFrontier
<1>18. HasData'
  <2>1. DataTop = proc.tip /\ DataTop' = proc.tip + 1
    BY <1>2, <1>3, <1>4, <1>6 DEF DataTop
  <2>2. crashes = MaxCrashes => \A h \in Heights : h < proc.tip => states[h] = {headers[h]}
    BY <1>2, <2>1 DEF SafetyInv, Database, HasData
  <2>3. crashes = MaxCrashes => \A h \in Heights : h < proc.tip + 1 => states[h] = {headers[h]}
    BY <2>2, <1>10, <1>14 DEF Heights
  <2> QED BY <1>3, <1>6, <2>1, <2>3 DEF SafetyInv, Database, HasData, boundVars
<1>19. Copies'
  <2>1. Agreeing(validatorCache)'
    BY <1>3, <1>14 DEF Agreeing
  <2> QED BY <1>2, <1>3, <2>1 DEF SafetyInv, Copies, Agreeing, OnBest, watchdogVars
<1>20. Examined'
  BY <1>3, <1>5 DEF Examined, Executed, Saved, Sound, OnBest
<1> QED BY <1>4, <1>7, <1>8, <1>9, <1>11, <1>12, <1>13, <1>16, <1>17, <1>18, <1>19, <1>20
        DEF SafetyInv, Control, Positions, Database

\* A step that moves neither the frontier nor the heights, and changes nothing stored.
LEMMA StandFrame ==
  ASSUME TypeInv, TypeInv', SafetyInv, phase = "up",
         UNCHANGED <<chain, headers, states, inProgressBlock, pendingBlockHeight, phase,
                     reverts, boundVars>>,
         (started' = started /\ syncBlockHash' = syncBlockHash) \/ (started' /\ Announced'),
         targetBlockHeight' <= chain.top, bestTip' <= chain.top + 1, QueueTips',
         Frontier' = Frontier, AnyRevert => bestTip' = bestTip,
         proc' = proc \/ (~proc.current /\ proc'.pc \notin Executed /\ proc'.pc \notin Saved)
  PROVE  Positions' /\ Database'
<1>1. /\ \A r \in Reverters : Reverting(r)' <=> Reverting(r)
      /\ AnyRevert' <=> AnyRevert
      /\ Running' <=> Running
  BY DEF AnyRevert, Reverting, Running
<1>2. (started' = started /\ (Announced' <=> Announced)) \/ (started' /\ Announced')
  BY DEF Announced, Tip
<1>3. Tops' /\ Heads'
  BY DEF SafetyInv, Positions, Tops, Heads
<1>4. Frontiers'
  BY <1>1, <1>2 DEF SafetyInv, Positions, Frontiers
<1>5. RevertHeights'
  <2>1. \A r \in Reverters : Reverting(r) => bestTip' = bestTip
    BY DEF AnyRevert
  <2> QED BY <1>1, <1>2, <2>1 DEF SafetyInv, Positions, RevertHeights
<1>6. Stored' /\ Walked'
  BY DEF SafetyInv, Database, Stored, Walked
<1>7. Purged'
  BY <1>1 DEF SafetyInv, Database, Purged
<1>8. AtFrontier'
  BY <1>1 DEF SafetyInv, Database, AtFrontier
<1>9. HasData'
  <2>1. DataTop' = DataTop
    BY <1>1 DEF DataTop
  <2> QED BY <1>1, <2>1 DEF SafetyInv, Database, HasData, boundVars
<1> QED BY <1>3, <1>4, <1>5, <1>6, <1>7, <1>8, <1>9 DEF Positions, Database

\* A task that was cancelled makes way for the next one, once it is unlocked.
LEMMA ProcessingErrorSafe ==
  ASSUME TypeInv, TypeInv', SafetyInv, ProcessingError PROVE SafetyInv'
<1>1. proc.pc = "catch" /\ ~proc.current
  BY DEF ProcessingError, SafetyInv, Control, Flags, Executed
<1>2. /\ Release(TRUE, chainReorged)
      /\ UNCHANGED <<chain, storeVars, pendingBlockHeight, targetBlockHeight, watchdogVars, vmVars,
                     phase, started, chainReorged, reverts, syncBlockHash, boundVars>>
  BY <1>1 DEF ProcessingError, nodeVars
<1>3. UNCHANGED <<headers, states, inProgressBlock, vmPrepared, validatorCache, currentHeader, lastBlock>>
  BY <1>2 DEF storeVars, vmVars, watchdogVars
<1>4. /\ bestTip' <= chain.top + 1 /\ QueueTips' /\ Frontier' = NextTip /\ Frontier = NextTip
      /\ proc' = Idle \/ Fresh(proc')
      /\ chainReorged => proc' = Idle /\ indexingTasks' = indexingTasks /\ bestTip' = bestTip
  BY <1>1, <1>2, Released DEF Frontier
<1>5. /\ proc'.pc \in {"idle", "prefetch"} /\ (proc'.current <=> proc'.pc = "prefetch")
      /\ proc'.pc \notin Executed /\ proc'.pc \notin Saved
      /\ proc'.current => ~proc'.aborted /\ ~proc'.reorged /\ Sound(proc')
  BY <1>4, FreshFacts
<1>6. /\ \A r \in Reverters : Reverting(r)' = Reverting(r)
      /\ AnyRevert' = AnyRevert /\ Running' = Running
  BY <1>2 DEF AnyRevert, Reverting, Running
<1>7. started /\ phase = "up"
  BY <1>1 DEF SafetyInv, Control, Phases, Idle
<1>8. ~Reverting("boot") /\ ~Reverting("task") /\ ~Reverting("boot")' /\ ~Reverting("task")'
  BY <1>1, <1>2, <1>7 DEF SafetyInv, Control, Locks, Reverting
<1>9. Locks'
  <2>1. QuietDuringRevert'
    BY <1>4, <1>5, <1>6 DEF SafetyInv, Control, Locks, QuietDuringRevert, AnyRevert, Idle
  <2>2. OneRevert'
    BY <1>6 DEF SafetyInv, Control, Locks, OneRevert
  <2> QED BY <1>2, <1>5, <1>6, <1>7, <1>8, <2>1, <2>2 DEF SafetyInv, Control, Locks
<1>10. Phases'
  BY <1>2, <1>7 DEF Phases
<1>11. Flags'
  <2>1. ~vmPrepared
    BY <1>1 DEF SafetyInv, Control, Flags, Executed, Saved
  <2> QED BY <1>3, <1>5, <2>1 DEF Flags, Sound
<1>12. Positions' /\ Database'
  <2>1. targetBlockHeight' <= chain.top
    BY <1>2 DEF SafetyInv, Positions, Tops
  <2>2. AnyRevert => bestTip' = bestTip
    BY <1>4 DEF SafetyInv, Control, Locks
  <2> QED BY <1>1, <1>2, <1>3, <1>4, <1>5, <1>7, <2>1, <2>2, StandFrame
<1>13. Copies'
  BY <1>2, <1>3, <1>7 DEF SafetyInv, Copies, Agreeing, OnBest
<1>14. Examined'
  BY <1>2, <1>5 DEF Examined, Executed, Saved, Sound, OnBest
<1> QED BY <1>9, <1>10, <1>11, <1>12, <1>13, <1>14 DEF SafetyInv, Control

\* The Bitcoin node has a block at the height of every task.
LEMMA FetchedSound ==
  ASSUME TypeInv, NEW t, t \in Task \/ t \in Proc, t.tip \in 0 .. chain.top
  PROVE  /\ Fetched(t, TRUE) = [t EXCEPT !.fetch = "done", !.block = chain.at[t.tip]]
         /\ Fetched(t, TRUE).tip = t.tip /\ Sound(Fetched(t, TRUE))
<1>1. chain \in Chains /\ chain.top \in Heights /\ t.tip \in Heights /\ t.tip <= chain.top
  BY HeightTypes DEF Heights
<1>2. chain.at[t.tip] # NoBlock
  BY <1>1, ChainsAssumption
<1>3. Fetched(t, TRUE) = [t EXCEPT !.fetch = "done", !.block = chain.at[t.tip]]
  BY <1>1, <1>2 DEF Fetched, BlockHash
<1>4. /\ Fetched(t, TRUE).tip = t.tip /\ Fetched(t, TRUE).fetch = "done"
      /\ Fetched(t, TRUE).block = chain.at[t.tip]
  BY <1>3 DEF Task, Proc
<1> QED BY <1>3, <1>4 DEF Sound, OnBest

\* The block of a task of the queue has come.
LEMMA PrefetchQueuedSafe ==
  ASSUME TypeInv, TypeInv', SafetyInv, PrefetchQueued(TRUE),
         UNCHANGED <<nodeVars, storeVars, observerVars, watchdogVars, vmVars, phase,
                     started, chainReorged, reverts, syncBlockHash, boundVars>>
  PROVE  SafetyInv'
<1>1. PICK i \in DOMAIN indexingTasks :
         /\ indexingTasks' = [indexingTasks EXCEPT ![i] = Fetched(indexingTasks[i], TRUE)]
         /\ proc' = proc
  BY DEF PrefetchQueued
<1>2. /\ indexingTasks \in Seq(Task) /\ bestTip \in Int /\ bestTip <= chain.top + 1
      /\ chain.top \in Nat /\ Len(indexingTasks) \in Nat /\ i \in 1 .. Len(indexingTasks)
  BY HeightTypes DEF SafetyInv, Positions, Tops, Heights
<1>3. /\ indexingTasks[i] \in Task /\ indexingTasks[i].tip = NextTip + i - 1
      /\ indexingTasks[i].tip \in Nat
  <2>1. indexingTasks[i] \in Task
    BY <1>2
  <2>2. indexingTasks[i].tip = NextTip + i - 1
    BY <1>2 DEF SafetyInv, Positions, QueueTips, Consecutive
  <2>3. indexingTasks[i].tip \in Nat
    BY <2>1, MaxHeightAssumption DEF Task, Heights
  <2> QED BY <2>1, <2>2, <2>3
<1>4. indexingTasks[i].tip \in 0 .. chain.top
  BY <1>2, <1>3 DEF NextTip
<1>5. Fetched(indexingTasks[i], TRUE).tip = indexingTasks[i].tip /\ Sound(Fetched(indexingTasks[i], TRUE))
  BY <1>3, <1>4, FetchedSound
<1>6. /\ Len(indexingTasks') = Len(indexingTasks)
      /\ \A j \in 1 .. Len(indexingTasks) :
           indexingTasks'[j] = IF j = i THEN Fetched(indexingTasks[i], TRUE) ELSE indexingTasks[j]
  <2>1. indexingTasks' \in Seq(Task)
    BY HeightTypes DEF TypeInv, TypeOK, TaskTypeOK
  <2>2. DOMAIN indexingTasks' = DOMAIN indexingTasks /\ DOMAIN indexingTasks = 1 .. Len(indexingTasks)
    BY <1>1, <1>2
  <2>3. Len(indexingTasks') = Len(indexingTasks)
    BY <1>2, <2>1, <2>2
  <2> QED BY <1>1, <1>2, <2>2, <2>3
<1>7. NextTip' = NextTip /\ Frontier' = Frontier
  BY <1>1, <1>6 DEF NextTip, Frontier, observerVars
<1>8. QueueTips'
  <2>1. chain' = chain
    BY DEF nodeVars
  <2>2. \A j \in 1 .. Len(indexingTasks) :
          indexingTasks'[j].tip = NextTip + j - 1 /\ Sound(indexingTasks'[j])
    <3>1. \A j \in 1 .. Len(indexingTasks) : indexingTasks[j].tip = NextTip + j - 1 /\ Sound(indexingTasks[j])
      BY DEF SafetyInv, Positions, QueueTips, Consecutive
    <3> QED BY <1>3, <1>5, <1>6, <3>1
  <2>3. Consecutive(indexingTasks', NextTip')
    BY <1>6, <1>7, <2>2 DEF Consecutive
  <2> QED BY <1>1, <1>7, <2>1, <2>3 DEF SafetyInv, Positions, QueueTips, Consecutive, Sound, OnBest
<1>9. indexingTasks # << >>
  BY <1>2
<1>10. started /\ phase = "up" /\ ~AnyRevert
  BY <1>9 DEF SafetyInv, Control, Phases, Locks, QuietDuringRevert, AnyRevert
<1>11. Positions' /\ Database'
  <2>1. UNCHANGED <<chain, headers, states, inProgressBlock, pendingBlockHeight, bestTip, targetBlockHeight>>
    BY DEF nodeVars, storeVars, observerVars
  <2>2. targetBlockHeight' <= chain.top /\ bestTip' <= chain.top + 1
    BY <2>1 DEF SafetyInv, Positions, Tops
  <2> QED BY <1>1, <1>7, <1>8, <1>10, <2>1, <2>2, StandFrame
<1>12. Control'
  <2>1. ~AnyRevert'
    BY <1>10 DEF AnyRevert, Reverting
  <2>2. Locks'
    BY <1>1, <1>10, <2>1 DEF SafetyInv, Control, Locks, OneRevert, QuietDuringRevert, AnyRevert, Reverting
  <2> QED BY <1>1, <1>10, <2>2 DEF SafetyInv, Control, Phases, Flags, vmVars
<1>13. Copies' /\ Examined'
  BY <1>1 DEF SafetyInv, Copies, Examined, Agreeing, OnBest, nodeVars, storeVars, watchdogVars, vmVars
<1> QED BY <1>11, <1>12, <1>13 DEF SafetyInv

\* The block of the current task has come.
LEMMA PrefetchCurrentSafe ==
  ASSUME TypeInv, TypeInv', SafetyInv, PrefetchCurrent(TRUE),
         UNCHANGED <<nodeVars, storeVars, observerVars, watchdogVars, vmVars, phase,
                     started, chainReorged, reverts, syncBlockHash, boundVars>>
  PROVE  SafetyInv'
<1>1. /\ proc.pc = "prefetch" /\ proc.current /\ ~proc.aborted /\ ~proc.reorged
      /\ proc' = Fetched(proc, TRUE) /\ indexingTasks' = indexingTasks
  BY DEF PrefetchCurrent, SafetyInv, Control, Flags
<1>2. /\ proc.tip \in 0 .. chain.top /\ proc \in Proc /\ Frontier = proc.tip /\ Running
  BY <1>1, CurrentRuns, HeightTypes
<1>3. proc' = [proc EXCEPT !.fetch = "done", !.block = chain.at[proc.tip]] /\ Sound(proc')
  BY <1>1, <1>2, FetchedSound
<1>4. /\ proc'.pc = "prefetch" /\ proc'.current /\ proc'.tip = proc.tip /\ proc'.fetch = "done"
      /\ ~proc'.aborted /\ ~proc'.reorged
  BY <1>1, <1>2, <1>3 DEF Proc
<1>5. UNCHANGED <<chain, headers, states, inProgressBlock>>
  BY DEF nodeVars, storeVars
<1>6. /\ Locks' /\ Phases' /\ Positions' /\ Purged' /\ Walked' /\ HasData'
      /\ Running' /\ Frontier' = proc.tip
  BY <1>1, <1>4, <1>5, TaskFrame
<1>7. Stored' /\ AtFrontier'
  BY <1>1, <1>2, <1>4, <1>5, <1>6 DEF SafetyInv, Database, Stored, AtFrontier, Executed, Saved
<1>8. Flags'
  BY <1>1, <1>4 DEF SafetyInv, Control, Flags, vmVars
<1>9. Copies'
  BY <1>5 DEF SafetyInv, Copies, Agreeing, OnBest, watchdogVars, vmVars
<1>10. Examined'
  BY <1>3, <1>4, <1>5 DEF Examined, Sound, OnBest
<1> QED BY <1>6, <1>7, <1>8, <1>9, <1>10 DEF SafetyInv, Control, Database

LEMMA ProcessPrefetchSafe ==
  ASSUME TypeInv, TypeInv', SafetyInv, ProcessPrefetch PROVE SafetyInv'
  BY PrefetchQueuedSafe, PrefetchCurrentSafe DEF ProcessPrefetch

-----------------------------------------------------------------------------
(* revertChain *)

\* Who calls revertChain is alone, and nothing runs meanwhile.
LEMMA RevertAlone ==
  ASSUME TypeInv, SafetyInv, NEW r \in Reverters, Reverting(r)
  PROVE  /\ phase \in {"mismatch", "up"} /\ chainReorged /\ AnyRevert /\ ~Running
         /\ indexingTasks = << >> /\ ~proc.current
         /\ \A s \in Reverters : Reverting(s) => s = r
         /\ reverts[r] \in Revert /\ reverts \in [Reverters -> Revert]
         /\ reverts[r].from \in Heights /\ 1 <= reverts[r].from /\ reverts[r].from <= chain.top
<1>1. AnyRevert /\ ~Running
  BY DEF AnyRevert, Running
<1>2. chainReorged /\ (\A s \in Reverters : Reverting(s) => s = r)
  BY <1>1 DEF SafetyInv, Control, Locks, OneRevert
<1>3. indexingTasks = << >> /\ ~proc.current
  BY DEF SafetyInv, Control, Locks, QuietDuringRevert
<1>4. phase \in {"mismatch", "up"}
  <2>1. SUFFICES ASSUME phase # "up" PROVE phase = "mismatch"
    OBVIOUS
  <2>2. proc.pc # "reverting" /\ r \notin Regressions
    BY <2>1 DEF SafetyInv, Control, Phases, Idle
  <2>3. r = "boot"
    BY <2>2 DEF SafetyInv, Control, Locks, Reverters
  <2> QED BY <2>3 DEF SafetyInv, Control, Locks
<1>5. reverts \in [Reverters -> Revert] /\ reverts[r] \in Revert /\ reverts[r].from \in Heights
  BY DEF TypeInv, TypeOK, ControlTypeOK, Revert
<1>6. 1 <= reverts[r].from /\ reverts[r].from <= chain.top
  BY DEF SafetyInv, Positions, RevertHeights
<1> QED BY <1>1, <1>2, <1>3, <1>4, <1>5, <1>6

\* revertChain begins while no other is in progress, above headers that stay.
LEMMA RevertBegins ==
  ASSUME TypeInv, TypeInv', SafetyInv, ~AnyRevert, NEW r \in Reverters, NEW from \in Heights,
         UNCHANGED <<chain, headers, states, inProgressBlock, pendingBlockHeight, bestTip, boundVars>>,
         chainReorged', indexingTasks' = << >>, ~proc'.current, targetBlockHeight' <= chain.top,
         reverts' = [reverts EXCEPT ![r] = [pc |-> "purge", from |-> from, height |-> 0]],
         proc'.pc = "reverting" <=> r = "task",
         phase' = "mismatch" <=> r = "boot",
         phase \in {"watchdog", "up"}, phase' \in {"mismatch", "up"},
         1 <= from, from <= chain.top, from < chain.top \/ ~started' \/ Announced',
         \A h \in Heights : h < from => headers[h] # NoBlock,
         crashes = MaxCrashes => \A h \in Heights : h < from => states[h] = {headers[h]}
  PROVE  Locks' /\ Positions' /\ Database' /\ Examined'
<1>1. \A s \in Reverters : ~Reverting(s)
  BY DEF AnyRevert
<1>2. reverts \in [Reverters -> Revert] /\ chain.top \in Nat
  BY HeightTypes, SMTT(20) DEF TypeInv, TypeOK, ControlTypeOK, Heights
<1>3. /\ reverts'[r].pc = "purge" /\ reverts'[r].from = from /\ reverts'[r].height = 0
      /\ \A s \in Reverters : s # r => reverts'[s] = reverts[s]
  BY <1>2
<1>4. \A s \in Reverters : Reverting(s)' <=> s = r
  BY <1>1, <1>3 DEF Reverting
<1>5. AnyRevert' /\ ~Running'
  BY <1>4 DEF AnyRevert, Running
<1>6. Locks'
  <2>1. (Reverting("task")' <=> r = "task") /\ (Reverting("boot")' <=> r = "boot")
    BY <1>4 DEF Reverters
  <2>2. OneRevert' /\ QuietDuringRevert'
    BY <1>4 DEF OneRevert, QuietDuringRevert
  <2> QED BY <1>5, <2>1, <2>2 DEF Locks
<1>7. Tops' /\ Heads' /\ Frontiers'
  BY <1>5 DEF SafetyInv, Positions, Tops, Heads, Frontiers
<1>8. QueueTips'
  BY DEF QueueTips, Consecutive
<1>9. RevertHeights'
  BY <1>2, <1>3, <1>4 DEF RevertHeights
<1>10. Stored' /\ AtFrontier' /\ Walked'
  BY <1>5 DEF SafetyInv, Database, Stored, AtFrontier, Walked
<1>11. Purged'
  BY <1>3, <1>4 DEF Purged
<1>12. HasData'
  BY <1>3, <1>4, <1>5 DEF SafetyInv, Database, HasData, boundVars
<1>13. Examined'
  BY DEF Examined
<1> QED BY <1>6, <1>7, <1>8, <1>9, <1>10, <1>11, <1>12, <1>13 DEF Positions, Database

\* The walk ends at the genesis block, and below the top.
LEMMA RestoreBlockchainSafe ==
  ASSUME TypeInv, TypeInv', SafetyInv, RestoreBlockchain PROVE SafetyInv'
<1>1. /\ proc.current /\ ~proc.aborted /\ ~proc.reorged /\ proc.pc = "restore" /\ proc.fetch = "done"
      /\ proc \in Proc
  BY HeightTypes DEF RestoreBlockchain, SafetyInv, Control, Flags
<1>2. /\ phase = "up" /\ started /\ ~chainReorged /\ ~AnyRevert /\ Running
      /\ Frontier = proc.tip /\ proc.tip \in 0 .. chain.top
  BY <1>1, CurrentRuns
<1>3. /\ 1 <= proc.walk /\ proc.walk <= proc.tip /\ OnBest(proc.tip, proc.block)
      /\ proc.walk < chain.top \/ headers[proc.walk - 1] # chain.at[proc.walk - 1]
  BY <1>1 DEF SafetyInv, Examined
<1>4. /\ MaxHeight \in Nat /\ chain.top \in Nat /\ chain.top <= MaxHeight /\ proc.tip \in Nat
      /\ proc.tip <= chain.top /\ proc.walk \in Nat /\ proc.walk \in Heights
  BY <1>1, <1>2, HeightTypes DEF Heights, Proc
<1>5. proc.walk - 1 \in Heights /\ proc.walk - 1 < proc.tip /\ proc.walk - 1 <= chain.top /\ proc.walk > 0
  BY <1>3, <1>4 DEF Heights
<1>6. headers[proc.walk - 1] # NoBlock /\ BlockHash(proc.walk - 1) = chain.at[proc.walk - 1]
  BY <1>2, <1>5 DEF SafetyInv, Database, AtFrontier, BlockHash
<1>7. chain.at[proc.walk - 1] # NoBlock
  BY <1>5, HeightTypes, ChainsAssumption
<1>8. UNCHANGED <<nodeVars, storeVars, observerVars, currentHeader, vmVars, phase,
                  started, syncBlockHash, boundVars>>
  BY DEF RestoreBlockchain
<1>9. UNCHANGED <<chain, headers, states, inProgressBlock, pendingBlockHeight, bestTip,
                  targetBlockHeight, vmPrepared, validatorCache>>
  BY <1>8 DEF nodeVars, storeVars, observerVars, vmVars
<1>10. CASE Differs(proc.walk - 1)
  <2>1. /\ proc' = [proc EXCEPT !.walk = proc.walk - 1]
        /\ UNCHANGED <<lastBlock, chainReorged, reverts, indexingTasks>>
    BY <1>5, <1>10 DEF RestoreBlockchain, Differs, Agrees
  <2>2. /\ proc'.pc = "restore" /\ proc'.current /\ proc'.tip = proc.tip
        /\ proc'.block = proc.block /\ proc'.fetch = proc.fetch /\ proc'.walk = proc.walk - 1
        /\ proc'.aborted = proc.aborted /\ proc'.reorged = proc.reorged
    BY <1>1, <2>1 DEF Proc
  <2>3. Locks' /\ Phases' /\ Positions' /\ Database'
    BY <1>1, <1>8, <2>1, <2>2, TaskStoreFrame DEF Saved, Executed
  <2>4. Flags'
    BY <1>1, <1>9, <2>2 DEF SafetyInv, Control, Flags, Executed, Saved
  <2>5. Copies'
    BY <1>8, <1>9, <2>1 DEF SafetyInv, Copies, Agreeing, OnBest
  <2>6. proc.walk - 1 # 0
    BY <1>6, <1>10 DEF SafetyInv, Database, Stored, Differs
  <2>7. 1 <= proc.walk - 1 /\ proc.walk - 1 <= proc.tip /\ proc.walk - 1 < chain.top
    BY <1>3, <1>4, <2>6
  <2>8. Examined'
    BY <1>1, <1>3, <1>9, <2>2, <2>7 DEF Examined, OnBest
  <2> QED BY <2>3, <2>4, <2>5, <2>8 DEF SafetyInv, Control
<1>11. CASE ~Differs(proc.walk - 1)
  <2>1. Agrees(proc.walk - 1) /\ headers[proc.walk - 1] = chain.at[proc.walk - 1] /\ proc.walk < chain.top
    BY <1>3, <1>6, <1>7, <1>11 DEF Differs, Agrees
  <2> DEFINE p == [proc EXCEPT !.pc = "reverting", !.walk = 0]
  <2>2. BeginRevert("task", proc.walk, TRUE, p) /\ lastBlock' = Unset
    BY <1>5, <1>11, <2>1 DEF RestoreBlockchain
  <2>3. p.current /\ p.pc = "reverting"
    BY <1>1 DEF Proc
  <2>4. proc'.pc = "reverting" /\ ~proc'.current /\ proc'.aborted
    BY <1>1, <2>2, <2>3 DEF BeginRevert, Cancelled, Proc
  <2> HIDE DEF p
  <2>5. /\ chainReorged' /\ indexingTasks' = << >>
        /\ reverts' = [reverts EXCEPT !["task"] = [pc |-> "purge", from |-> proc.walk, height |-> 0]]
    BY <2>2 DEF BeginRevert
  <2>6. \A h \in Heights : h < proc.walk => h < proc.tip
    BY <1>3, <1>4 DEF Heights
  <2>7. /\ \A h \in Heights : h < proc.walk => headers[h] # NoBlock
        /\ crashes = MaxCrashes => \A h \in Heights : h < proc.walk => states[h] = {headers[h]}
    BY <1>2, <2>6 DEF SafetyInv, Database, AtFrontier, HasData, DataTop
  <2>8. Locks' /\ Positions' /\ Database' /\ Examined'
    <3>1. targetBlockHeight' <= chain.top
      BY <1>9 DEF SafetyInv, Positions, Tops
    <3>2. "task" \in Reverters /\ (proc'.pc = "reverting" <=> "task" = "task")
          /\ (phase' = "mismatch" <=> "task" = "boot")
      BY <1>2, <1>8, <2>4 DEF Reverters
    <3>3. proc.walk <= chain.top
      BY <1>3, <1>4
    <3> QED BY <1>2, <1>3, <1>4, <1>8, <1>9, <2>1, <2>4, <2>5, <2>7, <3>1, <3>2, <3>3, RevertBegins
  <2>9. Phases'
    BY <1>2, <1>8 DEF Phases
  <2>10. Flags'
    BY <2>4 DEF Flags
  <2>11. Copies'
    <3>1. Agreeing(lastBlock)'
      BY <2>2 DEF Agreeing, Unset
    <3> QED BY <1>2, <1>8, <1>9, <3>1 DEF SafetyInv, Copies, Agreeing, OnBest
  <2> QED BY <2>8, <2>9, <2>10, <2>11 DEF SafetyInv, Control
<1> QED BY <1>10, <1>11

\* What deleting rows at and above a height leaves of the database.
LEMMA CutStore ==
  ASSUME TypeInv, SafetyInv, NEW from \in Heights, NEW low \in Heights, NEW lowStates \in Heights,
         low >= from, lowStates >= from, chain' = chain,
         headers' = [h \in Heights |-> IF h >= low THEN NoBlock ELSE headers[h]],
         states' = [h \in Heights |-> IF h >= lowStates THEN {} ELSE states[h]],
         inProgressBlock' > 1 => from > 0 /\ headers[0] # NoBlock
  PROVE  /\ Stored'
         /\ \A h \in Heights : h < from => headers'[h] = headers[h] /\ states'[h] = states[h]
         /\ \A h \in Heights : headers'[h] \in {NoBlock, headers[h]} /\ (states[h] = {} => states'[h] = {})
         /\ \A c \in Ref : Agreeing(c) => Agreeing(c)'
<1>1. MaxHeight \in Nat /\ from \in Nat /\ low \in Nat /\ lowStates \in Nat /\ 0 \in Heights
  BY MaxHeightAssumption DEF Heights
<1>2. ASSUME NEW h \in Heights
      PROVE  /\ h < from => headers'[h] = headers[h] /\ states'[h] = states[h]
             /\ headers'[h] \in {NoBlock, headers[h]} /\ (states[h] = {} => states'[h] = {})
             /\ headers'[h] # NoBlock => h < low /\ headers'[h] = headers[h]
             /\ h < low => headers'[h] = headers[h]
             /\ states'[h] \subseteq states[h]
  BY <1>1 DEF Heights
<1>3. \A c \in Ref : Agreeing(c) => Agreeing(c)'
  BY <1>2 DEF Agreeing
<1>4. ASSUME NEW h \in Heights, NEW k \in Heights, k < h, headers'[h] # NoBlock
      PROVE  headers'[k] # NoBlock
  <2>1. k < low /\ headers'[k] = headers[k] /\ headers[h] # NoBlock
    BY <1>1, <1>2, <1>4 DEF Heights
  <2> QED BY <1>4, <2>1 DEF SafetyInv, Database, Stored
<1>5. ASSUME NEW h \in CheckedHeights, headers'[h] # NoBlock
      PROVE  Prev[headers'[h]] = headers'[h - 1]
  <2>1. h \in Heights /\ h - 1 \in Heights
    BY <1>1 DEF CheckedHeights, Heights
  <2>2. h < low /\ headers'[h] = headers[h]
    BY <1>2, <1>5, <2>1
  <2>3. h - 1 < low
    BY <1>1, <2>1, <2>2 DEF Heights
  <2>4. headers'[h - 1] = headers[h - 1]
    BY <1>2, <2>1, <2>3
  <2> QED BY <1>5, <2>1, <2>2, <2>4 DEF SafetyInv, Database, Stored
<1>6. ASSUME NEW h \in Heights, headers'[h] # NoBlock PROVE states'[h] \subseteq {headers'[h]}
  <2>1. states[h] \subseteq {headers[h]} /\ headers'[h] = headers[h] /\ states'[h] \subseteq states[h]
    BY <1>2, <1>6 DEF SafetyInv, Database, Stored
  <2> QED BY <2>1
<1>7. headers'[0] \in {NoBlock, chain'.at[0]}
  BY <1>1, <1>2 DEF SafetyInv, Database, Stored
<1>8. inProgressBlock' > 1 => headers'[0] # NoBlock
  BY <1>1, <1>2
<1>9. Stored'
  BY <1>4, <1>5, <1>6, <1>7, <1>8 DEF Stored
<1> QED BY <1>2, <1>3, <1>9

\* The copies of a block outlive the deletion of rows.
LEMMA CutCopies ==
  ASSUME TypeInv, SafetyInv, \A c \in Ref : Agreeing(c) => Agreeing(c)', chain' = chain,
         UNCHANGED <<watchdogVars, vmVars, started, syncBlockHash>>, phase' = phase \/ phase' = "watchdog"
  PROVE  Agreeing(lastBlock)' /\ Agreeing(validatorCache)'
<1>1. lastBlock \in Ref /\ validatorCache \in Ref
  BY DEF TypeInv, TypeOK, WatchdogTypeOK, ControlTypeOK
<1>2. Agreeing(lastBlock) /\ Agreeing(validatorCache)
  BY DEF SafetyInv, Copies
<1> QED BY <1>1, <1>2 DEF Agreeing, watchdogVars, vmVars

LEMMA RevertPurgeBatchSafe ==
  ASSUME TypeInv, TypeInv', SafetyInv, NEW r \in Reverters, RevertPurgeBatch(r) PROVE SafetyInv'
<1>1. /\ reverts[r].pc = "purge" /\ Reverting(r)
      /\ UNCHANGED <<nodeVars, inProgressBlock, observerVars, watchdogVars, vmVars,
                     indexerVars, boundVars>>
  BY DEF RevertPurgeBatch, Reverting
<1>2. UNCHANGED <<chain, pendingBlockHeight, bestTip, targetBlockHeight, phase, started, chainReorged,
                  indexingTasks, proc, reverts, syncBlockHash, vmPrepared, validatorCache,
                  currentHeader, lastBlock>>
  BY <1>1 DEF nodeVars, observerVars, indexerVars, vmVars, watchdogVars
<1>3. /\ phase \in {"mismatch", "up"} /\ AnyRevert /\ ~Running /\ ~proc.current
      /\ \A s \in Reverters : Reverting(s) => s = r
      /\ reverts[r].from \in Heights /\ 1 <= reverts[r].from
  BY <1>1, RevertAlone
<1> DEFINE from == reverts[r].from
<1>4. PICK low \in Heights, lowStates \in Heights :
        /\ low >= from /\ lowStates >= from
        /\ headers' = [h \in Heights |-> IF h >= low THEN NoBlock ELSE headers[h]]
        /\ states' = [h \in Heights |-> IF h >= lowStates THEN {} ELSE states[h]]
  BY DEF RevertPurgeBatch, RevertDataBatch
<1>5. inProgressBlock' > 1 => from > 0 /\ headers[0] # NoBlock
  <2>1. from > 0
    BY <1>3, MaxHeightAssumption DEF Heights
  <2> QED BY <1>1, <2>1 DEF SafetyInv, Database, Stored
<1>6. /\ Stored'
      /\ \A h \in Heights : h < from => headers'[h] = headers[h] /\ states'[h] = states[h]
      /\ \A c \in Ref : Agreeing(c) => Agreeing(c)'
  BY <1>2, <1>3, <1>4, <1>5, CutStore
<1>7. /\ \A s \in Reverters : Reverting(s)' <=> Reverting(s)
      /\ AnyRevert' /\ ~Running'
  BY <1>2, <1>3 DEF AnyRevert, Reverting, Running
<1>8. Control'
  BY <1>2 DEF SafetyInv, Control, Locks, Phases, Flags, OneRevert, QuietDuringRevert, AnyRevert, Reverting
<1>9. Positions'
  BY <1>1, <1>2, <1>7 DEF SafetyInv, Positions, Tops, QueueTips, NextTip, Consecutive, Sound, OnBest, Heads,
     HeightFromDB, Frontiers, RevertHeights, Announced, Tip
<1>10. Purged'
  BY <1>1, <1>2, <1>3, <1>6, <1>7 DEF SafetyInv, Database, Purged
<1>11. Walked' /\ AtFrontier'
  BY <1>2, <1>3, <1>7 DEF Walked, AtFrontier
<1>12. HasData'
  BY <1>1, <1>2, <1>3, <1>6, <1>7 DEF SafetyInv, Database, HasData, boundVars
<1>13. Copies'
  <2>1. Agreeing(lastBlock)' /\ Agreeing(validatorCache)'
    BY <1>1, <1>2, <1>6, CutCopies
  <2> QED BY <1>2, <1>3, <2>1 DEF SafetyInv, Copies, OnBest
<1>14. Examined'
  BY <1>2, <1>3 DEF Examined
<1> QED BY <1>6, <1>8, <1>9, <1>10, <1>11, <1>12, <1>13, <1>14 DEF SafetyInv, Database

\* A revertChain goes on from one of its steps to the next.
LEMMA RevertFrame ==
  ASSUME TypeInv, TypeInv', SafetyInv, NEW r \in Reverters, Reverting(r),
         reverts'[r].pc # "none", reverts'[r].from = reverts[r].from,
         \A s \in Reverters : s # r => reverts'[s] = reverts[s],
         UNCHANGED <<chain, watchdogVars, vmVars, phase, started, chainReorged, indexingTasks,
                     proc, syncBlockHash, boundVars>>
  PROVE  /\ Control' /\ QueueTips' /\ Frontiers' /\ AtFrontier' /\ Walked' /\ Examined'
         /\ \A s \in Reverters : Reverting(s)' <=> s = r
         /\ AnyRevert'
<1>1. /\ phase \in {"mismatch", "up"} /\ AnyRevert /\ ~proc.current /\ chainReorged
      /\ indexingTasks = << >>
      /\ \A s \in Reverters : Reverting(s) => s = r
  BY RevertAlone
<1>2. \A s \in Reverters : Reverting(s)' <=> s = r
  BY <1>1 DEF Reverting
<1>3. AnyRevert' /\ ~Running' /\ \A s \in Reverters : Reverting(s)' <=> Reverting(s)
  BY <1>1, <1>2 DEF AnyRevert, Running
<1>4. Locks'
  <2>1. (Reverting("task")' <=> Reverting("task")) /\ (Reverting("boot")' <=> Reverting("boot"))
    BY <1>3 DEF Reverters
  <2>2. OneRevert' /\ QuietDuringRevert'
    BY <1>1, <1>2 DEF OneRevert, QuietDuringRevert
  <2> QED BY <1>1, <1>3, <2>1, <2>2 DEF SafetyInv, Control, Locks
<1>5. Phases'
  <2>1. \A s \in Regressions : Reverting(s)' <=> Reverting(s)
    BY <1>3 DEF Reverters
  <2> QED BY <2>1 DEF SafetyInv, Control, Phases
<1>6. Flags'
  BY DEF SafetyInv, Control, Flags, vmVars
<1>7. QueueTips'
  BY <1>1 DEF QueueTips, Consecutive
<1>8. Frontiers' /\ AtFrontier' /\ Walked' /\ Examined'
  BY <1>1, <1>3 DEF Frontiers, AtFrontier, Walked, Examined
<1> QED BY <1>2, <1>3, <1>4, <1>5, <1>6, <1>7, <1>8 DEF Control

LEMMA RevertPurgeSafe ==
  ASSUME TypeInv, TypeInv', SafetyInv, NEW r \in Reverters, RevertPurge(r) PROVE SafetyInv'
<1>1. /\ reverts[r].pc = "purge" /\ Reverting(r)
      /\ RevertDataUntilBlock(reverts[r].from)
      /\ reverts' = [reverts EXCEPT ![r].pc = "observe"]
      /\ UNCHANGED <<chain, inProgressBlock, pendingBlockHeight, bestTip, targetBlockHeight, watchdogVars,
                     vmVars, phase, started, chainReorged, indexingTasks, proc, syncBlockHash, boundVars>>
  BY DEF RevertPurge, Reverting, nodeVars, observerVars
<1>2. /\ phase \in {"mismatch", "up"} /\ reverts[r] \in Revert /\ reverts \in [Reverters -> Revert]
      /\ reverts[r].from \in Heights /\ 1 <= reverts[r].from
  BY <1>1, RevertAlone
<1> DEFINE from == reverts[r].from
<1>3. /\ reverts'[r].pc = "observe" /\ reverts'[r].from = from /\ reverts'[r].height = reverts[r].height
      /\ \A s \in Reverters : s # r => reverts'[s] = reverts[s]
  BY <1>1, <1>2 DEF Revert
<1>4. /\ Control' /\ QueueTips' /\ Frontiers' /\ AtFrontier' /\ Walked' /\ Examined'
      /\ \A s \in Reverters : Reverting(s)' <=> s = r
      /\ AnyRevert'
  BY <1>1, <1>3, RevertFrame
<1>5. inProgressBlock' > 1 => from > 0 /\ headers[0] # NoBlock
  <2>1. from > 0
    BY <1>2, MaxHeightAssumption DEF Heights
  <2> QED BY <1>1, <2>1 DEF SafetyInv, Database, Stored
<1>6. /\ headers' = [h \in Heights |-> IF h >= from THEN NoBlock ELSE headers[h]]
      /\ states' = [h \in Heights |-> IF h >= from THEN {} ELSE states[h]]
      /\ from >= from
  BY <1>1, <1>2, MaxHeightAssumption DEF RevertDataUntilBlock, Heights
<1>7. /\ Stored'
      /\ \A h \in Heights : h < from => headers'[h] = headers[h] /\ states'[h] = states[h]
      /\ \A c \in Ref : Agreeing(c) => Agreeing(c)'
  BY <1>1, <1>2, <1>5, <1>6, CutStore
<1>8. /\ from <= chain.top /\ reverts[r].height <= chain.top
      /\ from < chain.top \/ ~started \/ Announced
  BY <1>1 DEF SafetyInv, Positions, RevertHeights
<1>9. RevertHeights'
  BY <1>1, <1>2, <1>3, <1>4, <1>8 DEF RevertHeights, Announced, Tip
<1>10. Tops' /\ Heads'
  BY <1>1, <1>2 DEF SafetyInv, Positions, Tops, Heads
<1>11. Purged'
  BY <1>1, <1>3, <1>4, <1>6, <1>7 DEF SafetyInv, Database, Purged
<1>12. HasData'
  BY <1>1, <1>3, <1>4, <1>7 DEF SafetyInv, Database, HasData, boundVars
<1>13. Copies'
  <2>1. Agreeing(lastBlock)' /\ Agreeing(validatorCache)'
    BY <1>1, <1>7, CutCopies
  <2> QED BY <1>1, <1>2, <2>1 DEF SafetyInv, Copies, OnBest, watchdogVars
<1> QED BY <1>4, <1>7, <1>9, <1>10, <1>11, <1>12, <1>13 DEF SafetyInv, Positions, Database

LEMMA RevertObserveSafe ==
  ASSUME TypeInv, TypeInv', SafetyInv, NEW r \in Reverters, RevertObserve(r) PROVE SafetyInv'
<1>1. /\ reverts[r].pc = "observe" /\ Reverting(r)
      /\ pendingBlockHeight' = reverts[r].from /\ inProgressBlock' = reverts[r].from + 1
      /\ reverts' = [reverts EXCEPT ![r].pc = "settle", ![r].height = chain.top]
      /\ UNCHANGED <<chain, headers, states, bestTip, targetBlockHeight, watchdogVars,
                     vmVars, phase, started, chainReorged, indexingTasks, proc, syncBlockHash, boundVars>>
  BY DEF RevertObserve, Reverting, nodeVars, SetNewHeight, BlockCount
<1>2. /\ phase \in {"mismatch", "up"} /\ reverts[r] \in Revert /\ reverts \in [Reverters -> Revert]
      /\ reverts[r].from \in Heights /\ 1 <= reverts[r].from
      /\ \A s \in Reverters : Reverting(s) => s = r
  BY <1>1, RevertAlone
<1> DEFINE from == reverts[r].from
<1>3. /\ reverts'[r].pc = "settle" /\ reverts'[r].from = from /\ reverts'[r].height = chain.top
      /\ \A s \in Reverters : s # r => reverts'[s] = reverts[s]
  BY <1>1, <1>2 DEF Revert
<1>4. /\ Control' /\ QueueTips' /\ Frontiers' /\ AtFrontier' /\ Walked' /\ Examined'
      /\ \A s \in Reverters : Reverting(s)' <=> s = r
      /\ AnyRevert'
  BY <1>1, <1>3, RevertFrame
<1>5. /\ from <= chain.top /\ (from < chain.top \/ ~started \/ Announced)
  BY <1>1 DEF SafetyInv, Positions, RevertHeights
<1>6. MaxHeight \in Nat /\ chain.top \in Nat /\ from \in Nat /\ 0 \in Heights
  BY <1>2, HeightTypes DEF Heights
<1>7. RevertHeights'
  BY <1>1, <1>2, <1>3, <1>4, <1>5, <1>6 DEF RevertHeights, Announced, Tip
<1>8. Tops' /\ Heads'
  BY <1>1, <1>2, <1>5, <1>6 DEF SafetyInv, Positions, Tops, Heads
<1>9. /\ \A h \in Heights : h < from => headers[h] # NoBlock
      /\ \A h \in Heights : h >= from => headers[h] = NoBlock /\ states[h] = {}
  BY <1>1 DEF SafetyInv, Database, Purged
<1>10. Purged'
  BY <1>1, <1>3, <1>4, <1>9 DEF Purged
<1>11. Stored'
  <2>1. headers[0] # NoBlock
    BY <1>2, <1>6, <1>9
  <2> QED BY <1>1, <2>1 DEF SafetyInv, Database, Stored
<1>12. HasData'
  BY <1>1, <1>3, <1>4 DEF SafetyInv, Database, HasData, boundVars
<1>13. Copies'
  BY <1>1, <1>2 DEF SafetyInv, Copies, Agreeing, OnBest, watchdogVars, vmVars
<1> QED BY <1>4, <1>7, <1>8, <1>10, <1>11, <1>12, <1>13 DEF SafetyInv, Positions, Database

LEMMA RevertSettleSafe ==
  ASSUME TypeInv, TypeInv', SafetyInv, NEW r \in Reverters, RevertSettle(r) PROVE SafetyInv'
<1>1. /\ reverts[r].pc = "settle" /\ Reverting(r)
      /\ targetBlockHeight' = reverts[r].height /\ bestTip' = reverts[r].from
      /\ reverts' = [reverts EXCEPT ![r].pc = "plugins", ![r].height = 0]
      /\ UNCHANGED <<chain, headers, states, inProgressBlock, pendingBlockHeight, watchdogVars,
                     vmVars, phase, started, chainReorged, indexingTasks, proc, syncBlockHash, boundVars>>
  BY DEF RevertSettle, Reverting, nodeVars, storeVars
<1>2. /\ phase \in {"mismatch", "up"} /\ reverts[r] \in Revert /\ reverts \in [Reverters -> Revert]
      /\ reverts[r].from \in Heights /\ 1 <= reverts[r].from
      /\ \A s \in Reverters : Reverting(s) => s = r
  BY <1>1, RevertAlone
<1> DEFINE from == reverts[r].from
<1>3. /\ reverts'[r].pc = "plugins" /\ reverts'[r].from = from /\ reverts'[r].height = 0
      /\ \A s \in Reverters : s # r => reverts'[s] = reverts[s]
  BY <1>1, <1>2 DEF Revert
<1>4. /\ Control' /\ QueueTips' /\ Frontiers' /\ AtFrontier' /\ Walked' /\ Examined'
      /\ \A s \in Reverters : Reverting(s)' <=> s = r
      /\ AnyRevert'
  BY <1>1, <1>3, RevertFrame
<1>5. /\ from <= chain.top /\ (from < chain.top \/ ~started \/ Announced)
      /\ reverts[r].height <= chain.top /\ pendingBlockHeight = from
  BY <1>1 DEF SafetyInv, Positions, RevertHeights
<1>6. MaxHeight \in Nat /\ chain.top \in Nat /\ from \in Nat
  BY <1>2, HeightTypes DEF Heights
<1>7. RevertHeights'
  BY <1>1, <1>2, <1>3, <1>4, <1>5, <1>6 DEF RevertHeights, Announced, Tip
<1>8. Tops' /\ Heads'
  BY <1>1, <1>2, <1>5, <1>6 DEF SafetyInv, Positions, Tops, Heads
<1>9. Stored'
  BY <1>1 DEF SafetyInv, Database, Stored
<1>10. Purged'
  BY <1>1, <1>3, <1>4 DEF SafetyInv, Database, Purged
<1>11. HasData'
  BY <1>1, <1>3, <1>4, ZenonT(40) DEF SafetyInv, Database, HasData, boundVars
<1>12. Copies'
  BY <1>1, <1>2 DEF SafetyInv, Copies, Agreeing, OnBest, watchdogVars, vmVars
<1> QED BY <1>4, <1>7, <1>8, <1>9, <1>10, <1>11, <1>12 DEF SafetyInv, Positions, Database

\* The frontier after a revertChain is the height it reverted to.
LEMMA RevertEnds ==
  ASSUME TypeInv, TypeInv', SafetyInv, NEW r \in Reverters, reverts[r].pc = "plugins",
         reverts' = [reverts EXCEPT ![r] = NoRevert], ~chainReorged', phase' = "up",
         UNCHANGED <<chain, headers, states, inProgressBlock, pendingBlockHeight, targetBlockHeight,
                     started, syncBlockHash, boundVars>>,
         bestTip' <= chain.top + 1, QueueTips', Frontier' = reverts[r].from,
         proc'.pc # "reverting", proc'.pc \notin Executed \/ ~proc'.current
  PROVE  Locks' /\ Positions' /\ Database'
<1>1. Reverting(r)
  BY DEF Reverting
<1>2. /\ phase \in {"mismatch", "up"} /\ AnyRevert /\ reverts \in [Reverters -> Revert]
      /\ reverts[r].from \in Heights /\ \A s \in Reverters : Reverting(s) => s = r
  BY <1>1, RevertAlone
<1>3. \A s \in Reverters : ~Reverting(s)'
  BY <1>2 DEF Reverting, NoRevert
<1>4. ~AnyRevert' /\ Running'
  BY <1>3 DEF AnyRevert, Running
<1>5. Locks'
  <2>1. ~Reverting("task")' /\ ~Reverting("boot")'
    BY <1>3 DEF Reverters
  <2> QED BY <1>3, <1>4, <2>1 DEF Locks, OneRevert, QuietDuringRevert
<1> DEFINE from == reverts[r].from
<1>6. /\ pendingBlockHeight = from /\ (from < chain.top \/ ~started \/ Announced)
  BY <1>1 DEF SafetyInv, Positions, RevertHeights
<1>7. Tops' /\ Heads'
  BY <1>2 DEF SafetyInv, Positions, Tops, Heads
<1>8. Frontiers'
  BY <1>2, <1>6, MaxHeightAssumption DEF Frontiers, Announced, Tip, Heights
<1>9. RevertHeights' /\ Purged' /\ Walked'
  BY <1>3 DEF RevertHeights, Purged, Walked
<1>10. Stored'
  BY DEF SafetyInv, Database, Stored
<1>11. /\ \A h \in Heights : h < from => headers[h] # NoBlock
       /\ \A h \in Heights : h >= from => headers[h] = NoBlock /\ states[h] = {}
  BY <1>1 DEF SafetyInv, Database, Purged
<1>12. from >= from /\ \A h \in Heights : h > from => h >= from
  BY <1>2, MaxHeightAssumption DEF Heights
<1>13. AtFrontier'
  <2>1. ~(proc'.current /\ proc'.pc \in Saved) /\ ~(proc'.current /\ proc'.pc \in Executed)
    BY DEF Saved, Executed
  <2> QED BY <1>2, <1>11, <1>12, <2>1 DEF AtFrontier
<1>14. HasData'
  <2>1. DataTop' = from
    BY <1>4 DEF DataTop
  <2> QED BY <1>1, <1>3, <1>4, <2>1 DEF SafetyInv, Database, HasData, boundVars
<1> QED BY <1>5, <1>7, <1>8, <1>9, <1>10, <1>13, <1>14 DEF Positions, Database

LEMMA RevertFinishSafe ==
  ASSUME TypeInv, TypeInv', SafetyInv, NEW r \in Reverters, RevertFinish(r) PROVE SafetyInv'
<1>1. /\ reverts[r].pc = "plugins" /\ Reverting(r)
      /\ reverts' = [reverts EXCEPT ![r] = NoRevert] /\ ~chainReorged'
      /\ UNCHANGED <<chain, headers, states, inProgressBlock, pendingBlockHeight, targetBlockHeight,
                     watchdogVars, vmVars, started, syncBlockHash, boundVars>>
  BY DEF RevertFinish, Unlock, Reverting, nodeVars, storeVars
<1>2. /\ indexingTasks = << >> /\ ~proc.current /\ reverts[r].from \in Heights
      /\ reverts[r].from <= chain.top
      /\ \A s \in Reverters : Reverting(s) => s = r
  BY <1>1, RevertAlone
<1> DEFINE from == reverts[r].from
<1>3. bestTip = from /\ NextTip = from /\ from <= chain.top + 1 /\ targetBlockHeight <= chain.top
  <2>1. bestTip = from /\ targetBlockHeight <= chain.top
    BY <1>1 DEF SafetyInv, Positions, RevertHeights, Tops
  <2> QED BY <1>2, <2>1, HeightTypes DEF NextTip, Heights
<1>4. Copies' /\ Phases' /\ Flags' /\ Locks' /\ Positions' /\ Database' /\ Examined'
  <2>1. CASE r = "task"
    <3>1. proc.pc = "reverting" /\ phase = "up" /\ started /\ proc.aborted
      BY <1>1, <1>2, <2>1 DEF SafetyInv, Control, Locks, Phases, Flags, Idle
    <3>2. /\ proc' = [proc EXCEPT !.pc = "finalize", !.reorged = TRUE]
          /\ UNCHANGED <<indexingTasks, bestTip, phase>>
      BY <2>1, <3>1, IndexerAssumption DEF RevertFinish
    <3>3. proc'.pc = "finalize" /\ ~proc'.current /\ proc'.aborted
      BY <1>2, <3>1, <3>2, HeightTypes DEF Proc
    <3>4. QueueTips' /\ Frontier' = from
      BY <1>2, <1>3, <3>2, <3>3 DEF QueueTips, Consecutive, Frontier, NextTip
    <3>5. Locks' /\ Positions' /\ Database'
      BY <1>1, <1>3, <3>1, <3>2, <3>3, <3>4, RevertEnds
    <3>6. Phases' /\ Flags' /\ Examined'
      BY <1>1, <3>1, <3>2, <3>3 DEF Phases, Flags, Examined, Executed, Saved
    <3>7. Copies'
      BY <1>1, <3>1, <3>2 DEF SafetyInv, Copies, Agreeing, OnBest, watchdogVars, vmVars
    <3> QED BY <3>5, <3>6, <3>7
  <2>2. CASE r = "boot"
    <3>1. phase = "mismatch" /\ ~started /\ proc = Idle
      BY <1>1, <2>2 DEF SafetyInv, Control, Locks, Phases
    <3>2. phase' = "up" /\ UNCHANGED <<proc, indexingTasks, bestTip>>
      BY <2>2, IndexerAssumption DEF RevertFinish
    <3>3. proc'.pc = "idle" /\ ~proc'.current
      BY <3>1, <3>2 DEF Idle
    <3>4. QueueTips' /\ Frontier' = from
      BY <1>2, <1>3, <3>2, <3>3 DEF QueueTips, Consecutive, Frontier, NextTip
    <3>5. Locks' /\ Positions' /\ Database'
      BY <1>1, <1>3, <3>2, <3>3, <3>4, RevertEnds
    <3>6. Phases'
      <4>1. \A s \in Regressions : ~Reverting(s)'
        BY <1>1, <2>2, <3>1, IndexerAssumption DEF SafetyInv, Control, Phases, Reverting, Reverters
      <4> QED BY <1>1, <1>2, <3>1, <3>2, <4>1 DEF Phases
    <3>7. Flags' /\ Examined'
      BY <1>1, <3>1, <3>2, <3>3 DEF SafetyInv, Control, Flags, Examined, Executed, Saved, vmVars
    <3>8. Copies'
      BY <1>1, <3>1, <3>2 DEF SafetyInv, Copies, Agreeing, OnBest, watchdogVars, vmVars
    <3> QED BY <3>5, <3>6, <3>7, <3>8
  <2>3. CASE r \in Regressions
    <3>1. started /\ phase = "up" /\ proc.pc # "reverting"
      BY <1>1, <1>2, <2>3, IndexerAssumption DEF SafetyInv, Control, Locks, Phases, Reverters
    <3>2. StartTasks(proc, indexingTasks, bestTip, targetBlockHeight, FALSE) /\ phase' = phase
      BY <2>3, IndexerAssumption DEF RevertFinish
    <3>3. /\ bestTip' <= chain.top + 1 /\ QueueTips' /\ Frontier' = NextTip
          /\ proc' = proc \/ (proc.pc = "idle" /\ Fresh(proc'))
      BY <1>1, <1>2, <1>3, <3>2, HeightTypes, Started
    <3>4. /\ proc' = proc \/ (proc'.pc = "prefetch" /\ proc'.current /\ ~proc'.aborted /\ ~proc'.reorged
                                /\ Sound(proc'))
          /\ proc'.pc # "reverting" /\ (proc'.pc \notin Executed \/ ~proc'.current)
      BY <1>2, <3>1, <3>3 DEF Fresh, Executed
    <3>5. Locks' /\ Positions' /\ Database'
      BY <1>1, <1>3, <3>1, <3>2, <3>3, <3>4, RevertEnds
    <3>6. Phases'
      BY <1>1, <3>1, <3>2 DEF Phases
    <3>7. Flags'
      <4>1. CASE proc' = proc
        BY <1>1, <4>1 DEF SafetyInv, Control, Flags, vmVars
      <4>2. CASE proc' # proc
        <5>1. ~vmPrepared
          BY <3>3, <4>2 DEF SafetyInv, Control, Flags, Executed, Saved
        <5> QED BY <1>1, <3>4, <4>2, <5>1 DEF Flags, Sound, vmVars
      <4> QED BY <4>1, <4>2
    <3>8. Examined'
      BY <1>1, <1>2, <3>4 DEF Examined, Sound, OnBest
    <3>9. Copies'
      BY <1>1, <3>1, <3>2 DEF SafetyInv, Copies, Agreeing, OnBest, watchdogVars, vmVars
    <3> QED BY <3>5, <3>6, <3>7, <3>8, <3>9
  <2> QED BY <2>1, <2>2, <2>3 DEF Reverters
<1> QED BY <1>4 DEF SafetyInv, Control

-----------------------------------------------------------------------------
(* onBlockChange *)

\* A regression is a switch to a chain that ends where the indexer has got to:
\* no task is running, and the top block is the one to process again.
LEMMA RegressionSafe ==
  ASSUME TypeInv, TypeInv', SafetyInv, phase = "up", syncBlockHash # Tip, HeightRegression,
         NEW r \in Regressions, BeginRevert(r, BlockCount, TRUE, proc),
         syncBlockHash' = Tip, currentHeader' = [number |-> BlockCount, block |-> Tip],
         targetBlockHeight' = BlockCount,
         UNCHANGED <<chain, headers, states, inProgressBlock, pendingBlockHeight, bestTip, lastBlock,
                     vmVars, phase, started, boundVars>>
  PROVE  SafetyInv'
<1>1. /\ started /\ ~chainReorged /\ chain.top > 0 /\ chain.top <= pendingBlockHeight
      /\ ~Announced
  BY DEF HeightRegression, BlockCount, Announced
<1>2. ~AnyRevert /\ Running
  BY <1>1 DEF SafetyInv, Control, Locks, Running
<1>3. /\ chain.top \in Nat /\ chain.top \in Heights /\ pendingBlockHeight \in Nat
      /\ pendingBlockHeight <= chain.top
  BY HeightTypes DEF SafetyInv, Positions, Tops, Heights
<1>4. Frontier = pendingBlockHeight + 1 /\ pendingBlockHeight = chain.top
  BY <1>1, <1>2, <1>3 DEF SafetyInv, Positions, Frontiers
<1>5. ~proc.current
  <2>1. SUFFICES ASSUME proc.current PROVE FALSE
    OBVIOUS
  <2>2. Frontier = proc.tip /\ proc.tip \in 0 .. chain.top
    BY <2>1, CurrentRuns
  <2> QED BY <1>3, <1>4, <2>2
<1>6. /\ chainReorged' /\ indexingTasks' = << >> /\ proc' = proc
      /\ reverts' = [reverts EXCEPT ![r] = [pc |-> "purge", from |-> chain.top, height |-> 0]]
  BY <1>5 DEF BeginRevert, Cancelled, BlockCount
<1>7. \A h \in Heights : h < chain.top => h < Frontier
  BY <1>3, <1>4 DEF Heights
<1>8. /\ \A h \in Heights : h < chain.top => headers[h] # NoBlock
      /\ crashes = MaxCrashes => \A h \in Heights : h < chain.top => states[h] = {headers[h]}
  BY <1>2, <1>7 DEF SafetyInv, Database, AtFrontier, HasData, DataTop, Running
<1>9. r \in Reverters /\ r # "task" /\ r # "boot"
  BY IndexerAssumption DEF Reverters
<1>10. proc.pc # "reverting"
  BY <1>2 DEF SafetyInv, Control, Locks, AnyRevert, Reverters
<1>11. Announced' /\ chain'.top = chain.top
  BY DEF Announced, Tip
<1>12. Locks' /\ Positions' /\ Database' /\ Examined'
  <2>1. 1 <= chain.top /\ chain.top <= chain.top /\ targetBlockHeight' <= chain.top
    BY <1>1, <1>3 DEF BlockCount
  <2>2. /\ phase \in {"watchdog", "up"} /\ phase' \in {"mismatch", "up"}
        /\ (phase' = "mismatch" <=> r = "boot") /\ (proc'.pc = "reverting" <=> r = "task")
    BY <1>6, <1>9, <1>10
  <2> QED BY <1>2, <1>3, <1>5, <1>6, <1>8, <1>9, <1>11, <2>1, <2>2, RevertBegins
<1>13. Phases'
  BY <1>1 DEF Phases
<1>14. Flags'
  BY <1>6 DEF SafetyInv, Control, Flags, vmVars
<1>15. Copies'
  <2>1. OnBest(currentHeader.number, currentHeader.block)' /\ syncBlockHash' = currentHeader'.block
    BY <1>3 DEF OnBest, BlockCount, Tip
  <2> QED BY <2>1 DEF SafetyInv, Copies, Agreeing, vmVars
<1> QED BY <1>12, <1>13, <1>14, <1>15 DEF SafetyInv, Control

\* Otherwise the frontier stays where it is.
LEMMA OnBlockChangeSafe ==
  ASSUME TypeInv, TypeInv', SafetyInv, OnBlockChange PROVE SafetyInv'
<1>1. /\ phase = "up" /\ syncBlockHash # Tip /\ syncBlockHash' = Tip
      /\ currentHeader' = [number |-> BlockCount, block |-> Tip] /\ targetBlockHeight' = BlockCount
      /\ UNCHANGED <<chain, headers, states, inProgressBlock, pendingBlockHeight, lastBlock,
                     vmVars, phase, boundVars>>
  BY DEF OnBlockChange, nodeVars, storeVars
<1>2. CASE HeightRegression
  <2>1. PICK r \in Regressions : BeginRevert(r, BlockCount, TRUE, proc)
    BY <1>2 DEF OnBlockChange
  <2>2. UNCHANGED <<bestTip, started>>
    BY <1>2 DEF OnBlockChange
  <2> QED BY <1>1, <1>2, <2>1, <2>2, RegressionSafe
<1>3. CASE ~HeightRegression
  <2>1. UNCHANGED <<chainReorged, reverts>>
    BY <1>3 DEF OnBlockChange
  <2>2. started'
    <3>1. started' = TRUE \/ (started /\ started' = started)
      BY <1>3 DEF OnBlockChange
    <3> QED BY <3>1
  <2>3. proc \in Proc /\ (proc.pc = "idle" => ~proc.current) /\ chain.top \in Heights
        /\ chainReorged \in BOOLEAN
    BY HeightTypes DEF SafetyInv, Control, Flags, Executed, TypeInv, TypeOK, ControlTypeOK
  <2>4. /\ bestTip' <= chain.top + 1 /\ QueueTips' /\ Frontier' = Frontier
        /\ proc' = proc \/ (proc.pc = "idle" /\ Fresh(proc'))
        /\ chainReorged => proc' = proc /\ indexingTasks' = indexingTasks /\ bestTip' = bestTip
    <3>1. CASE StartTasks(proc, indexingTasks, bestTip, BlockCount, chainReorged)
      <4>1. BlockCount \in Heights /\ BlockCount <= chain.top
        BY <2>3, MaxHeightAssumption DEF BlockCount, Heights
      <4> QED BY <1>1, <2>3, <3>1, <4>1, Started DEF Frontier
    <3>2. CASE UNCHANGED <<proc, indexingTasks, bestTip>>
      BY <1>1, <3>2 DEF SafetyInv, Positions, Tops, QueueTips, Consecutive, Sound, OnBest, NextTip, Frontier
    <3> QED BY <1>3, <3>1, <3>2 DEF OnBlockChange
  <2>5. proc' = proc \/ (/\ ~proc.current /\ proc.pc = "idle" /\ proc'.pc = "prefetch" /\ proc'.current
                         /\ ~proc'.aborted /\ ~proc'.reorged /\ Sound(proc'))
    BY <2>3, <2>4 DEF Fresh
  <2>6. proc' = proc \/ (~proc.current /\ proc'.pc \notin Executed /\ proc'.pc \notin Saved)
    BY <2>5 DEF Executed, Saved
  <2>7. Announced' /\ targetBlockHeight' <= chain.top
    BY <1>1, <2>3, MaxHeightAssumption DEF Announced, Tip, BlockCount, Heights
  <2>8. AnyRevert => chainReorged
    BY DEF SafetyInv, Control, Locks
  <2>9. Positions' /\ Database'
    BY <1>1, <2>1, <2>2, <2>4, <2>6, <2>7, <2>8, StandFrame
  <2>10. Locks'
    <3>1. /\ \A s \in Reverters : Reverting(s)' <=> Reverting(s)
          /\ AnyRevert' <=> AnyRevert
          /\ Reverting("task")' <=> Reverting("task")
          /\ Reverting("boot")' <=> Reverting("boot")
      BY <2>1 DEF Reverting, AnyRevert
    <3>2. QuietDuringRevert'
      BY <2>4, <2>8, <3>1 DEF SafetyInv, Control, Locks, QuietDuringRevert, AnyRevert
    <3>3. OneRevert'
      BY <3>1 DEF SafetyInv, Control, Locks, OneRevert
    <3>4. proc'.pc = "reverting" <=> proc.pc = "reverting"
      BY <2>5
    <3> QED BY <1>1, <2>1, <3>1, <3>2, <3>3, <3>4 DEF SafetyInv, Control, Locks
  <2>11. Phases'
    BY <1>1, <2>2 DEF Phases
  <2>12. Flags'
    <3>1. CASE proc' = proc
      BY <1>1, <3>1 DEF SafetyInv, Control, Flags, vmVars
    <3>2. CASE proc' # proc
      <4>1. ~vmPrepared
        BY <2>5, <3>2 DEF SafetyInv, Control, Flags, Executed, Saved
      <4> QED BY <1>1, <2>5, <3>2, <4>1 DEF Flags, Sound, vmVars
    <3> QED BY <3>1, <3>2
  <2>13. Copies'
    <3>1. OnBest(currentHeader.number, currentHeader.block)' /\ syncBlockHash' = currentHeader'.block
      BY <1>1, <2>3, MaxHeightAssumption DEF OnBest, BlockCount, Tip, Heights
    <3> QED BY <1>1, <3>1 DEF SafetyInv, Copies, Agreeing, vmVars
  <2>14. Examined'
    <3>1. CASE proc' = proc
      BY <1>1, <3>1 DEF SafetyInv, Examined, OnBest
    <3>2. CASE proc' # proc
      BY <1>1, <2>5, <3>2 DEF Examined, Sound, OnBest
    <3> QED BY <3>1, <3>2
  <2> QED BY <2>9, <2>10, <2>11, <2>12, <2>13, <2>14 DEF SafetyInv, Control
<1> QED BY <1>2, <1>3

-----------------------------------------------------------------------------
(* Start-up, crashes and the Bitcoin node *)

\* During start-up nothing runs and nothing is reverted.
LEMMA StartingUp ==
  ASSUME TypeInv, SafetyInv, phase \notin {"mismatch", "up"}
  PROVE  /\ ~started /\ proc = Idle /\ indexingTasks = << >> /\ ~AnyRevert /\ ~chainReorged
         /\ \A r \in Reverters : ~Reverting(r)
<1>1. ~started /\ proc = Idle /\ indexingTasks = << >> /\ \A r \in Regressions : ~Reverting(r)
  BY DEF SafetyInv, Control, Phases
<1>2. ~Reverting("task") /\ ~Reverting("boot")
  BY <1>1 DEF SafetyInv, Control, Locks, Idle
<1>3. \A r \in Reverters : ~Reverting(r)
  BY <1>1, <1>2 DEF Reverters
<1> QED BY <1>1, <1>3 DEF SafetyInv, Control, Locks, AnyRevert

\* A step of the start-up that neither starts a task nor a revert.
LEMMA StartUpFrame ==
  ASSUME TypeInv, SafetyInv, phase \notin {"mismatch", "up"}, phase' # "mismatch",
         UNCHANGED <<vmVars, started, chainReorged, indexingTasks, proc, reverts>>
  PROVE  /\ Control' /\ QueueTips' /\ RevertHeights' /\ Purged' /\ Examined'
         /\ ~AnyRevert' /\ ~started' /\ ~proc'.current /\ indexingTasks' = << >>
         /\ \A r \in Reverters : ~Reverting(r)'
<1>1. /\ ~started /\ proc = Idle /\ indexingTasks = << >> /\ ~AnyRevert /\ ~chainReorged
      /\ \A r \in Reverters : ~Reverting(r)
  BY StartingUp
<1>2. \A r \in Reverters : ~Reverting(r)'
  BY <1>1 DEF Reverting
<1>3. ~AnyRevert' /\ ~Reverting("task")' /\ ~Reverting("boot")' /\ \A r \in Regressions : ~Reverting(r)'
  BY <1>2 DEF AnyRevert, Reverters
<1>4. proc'.pc = "idle" /\ ~proc'.current
  BY <1>1 DEF Idle
<1>5. Locks'
  BY <1>1, <1>2, <1>3, <1>4 DEF Locks, OneRevert, QuietDuringRevert
<1>6. Phases'
  BY <1>1, <1>3 DEF Phases
<1>7. Flags'
  BY <1>1 DEF SafetyInv, Control, Flags, vmVars
<1>8. QueueTips' /\ RevertHeights' /\ Purged' /\ Examined'
  BY <1>1, <1>2, <1>4 DEF QueueTips, Consecutive, RevertHeights, Purged, Examined
<1> QED BY <1>1, <1>2, <1>3, <1>4, <1>5, <1>6, <1>7, <1>8 DEF Control

LEMMA InitObserverSafe ==
  ASSUME TypeInv, TypeInv', SafetyInv, InitObserver PROVE SafetyInv'
<1>1. /\ phase = "down" /\ phase' = "purge"
      /\ pendingBlockHeight' = HeightFromDB /\ bestTip' = HeightFromDB /\ targetBlockHeight' = chain.top
      /\ UNCHANGED <<chain, headers, states, inProgressBlock, watchdogVars, vmVars, started, chainReorged,
                     indexingTasks, proc, reverts, syncBlockHash, boundVars>>
  BY DEF InitObserver, Sync, BlockCount, nodeVars, storeVars
<1>2. /\ Control' /\ QueueTips' /\ RevertHeights' /\ Purged' /\ Examined'
      /\ ~AnyRevert' /\ ~started' /\ ~proc'.current /\ indexingTasks' = << >>
      /\ \A r \in Reverters : ~Reverting(r)'
  BY <1>1, StartUpFrame
<1>3. HeightFromDB' = HeightFromDB
  BY <1>1 DEF HeightFromDB
<1>4. Tops' /\ Heads'
  <2>1. /\ chain.top \in Nat /\ inProgressBlock \in Nat /\ inProgressBlock <= chain.top + 1
    BY HeightTypes DEF SafetyInv, Positions, Tops, Heights
  <2>2. HeightFromDB <= chain.top /\ HeightFromDB \in Nat
    BY <2>1 DEF HeightFromDB
  <2> QED BY <1>1, <1>3, <2>1, <2>2 DEF Tops, Heads
<1>5. Frontiers' /\ AtFrontier' /\ Walked'
  BY <1>1 DEF Frontiers, AtFrontier, Walked, Running
<1>6. Stored'
  BY <1>1 DEF SafetyInv, Database, Stored
<1>7. HasData'
  <2>1. DataTop = HeightFromDB /\ DataTop' = HeightFromDB /\ ~AnyRevert
    BY <1>1, StartingUp DEF DataTop, Running
  <2> QED BY <1>1, <1>2, <2>1 DEF SafetyInv, Database, HasData, boundVars
<1>8. Copies'
  BY <1>1, <1>2 DEF SafetyInv, Copies, Agreeing, watchdogVars, vmVars
<1> QED BY <1>2, <1>4, <1>5, <1>6, <1>7, <1>8 DEF SafetyInv, Positions, Database

\* A restart purges from the height it found, which is 0 or above a header.
LEMMA PurgeStart ==
  ASSUME TypeInv, SafetyInv, phase = "purge"
  PROVE  /\ pendingBlockHeight = HeightFromDB /\ bestTip = pendingBlockHeight
         /\ pendingBlockHeight \in Heights /\ pendingBlockHeight <= chain.top
         /\ inProgressBlock > 1 => pendingBlockHeight > 0 /\ headers[0] # NoBlock
         /\ pendingBlockHeight > 0 => headers[0] # NoBlock
<1>1. pendingBlockHeight = HeightFromDB /\ bestTip = pendingBlockHeight /\ pendingBlockHeight <= chain.top
  BY DEF SafetyInv, Positions, Heads, Tops
<1>2. inProgressBlock \in Nat
  BY HeightTypes DEF Heights
<1>3. (inProgressBlock > 1 => HeightFromDB > 0) /\ (HeightFromDB > 0 => inProgressBlock > 1)
  BY <1>2 DEF HeightFromDB
<1>4. inProgressBlock > 1 => headers[0] # NoBlock
  BY DEF SafetyInv, Database, Stored
<1> QED BY <1>1, <1>3, <1>4, HeightTypes

LEMMA InitPurgeBatchSafe ==
  ASSUME TypeInv, TypeInv', SafetyInv, InitPurgeBatch PROVE SafetyInv'
<1>1. /\ phase = "purge"
      /\ UNCHANGED <<chain, inProgressBlock, pendingBlockHeight, bestTip, targetBlockHeight, watchdogVars,
                     vmVars, phase, started, chainReorged, indexingTasks, proc, reverts, syncBlockHash,
                     boundVars>>
  BY DEF InitPurgeBatch, nodeVars, observerVars, indexerVars
<1> DEFINE from == pendingBlockHeight
<1>2. PICK low \in Heights, lowStates \in Heights :
        /\ low >= from /\ lowStates >= from
        /\ headers' = [h \in Heights |-> IF h >= low THEN NoBlock ELSE headers[h]]
        /\ states' = [h \in Heights |-> IF h >= lowStates THEN {} ELSE states[h]]
  BY DEF InitPurgeBatch, RevertDataBatch
<1>3. /\ Control' /\ QueueTips' /\ RevertHeights' /\ Purged' /\ Examined'
      /\ ~AnyRevert' /\ ~started' /\ \A r \in Reverters : ~Reverting(r)'
  BY <1>1, StartUpFrame
<1>4. /\ Stored'
      /\ \A h \in Heights : h < from => headers'[h] = headers[h] /\ states'[h] = states[h]
      /\ \A c \in Ref : Agreeing(c) => Agreeing(c)'
  <2>1. from \in Heights /\ (inProgressBlock' > 1 => from > 0 /\ headers[0] # NoBlock)
    BY <1>1, PurgeStart
  <2> QED BY <1>1, <1>2, <2>1, CutStore
<1>5. Tops' /\ Heads'
  BY <1>1 DEF SafetyInv, Positions, Tops, Heads, HeightFromDB
<1>6. Frontiers' /\ AtFrontier' /\ Walked'
  BY <1>1 DEF Frontiers, AtFrontier, Walked, Running
<1>7. HasData'
  <2>1. DataTop = from /\ DataTop' = from /\ ~AnyRevert
    BY <1>1, StartingUp DEF DataTop, Running
  <2> QED BY <1>1, <1>3, <1>4, <2>1 DEF SafetyInv, Database, HasData, boundVars
<1>8. Copies'
  <2>1. Agreeing(lastBlock)' /\ Agreeing(validatorCache)'
    BY <1>1, <1>4, CutCopies
  <2> QED BY <1>1, <1>3, <2>1 DEF SafetyInv, Copies, watchdogVars
<1> QED BY <1>3, <1>4, <1>5, <1>6, <1>7, <1>8 DEF SafetyInv, Positions, Database

LEMMA InitPurgeSafe ==
  ASSUME TypeInv, TypeInv', SafetyInv, InitPurge PROVE SafetyInv'
<1>1. /\ phase = "purge" /\ phase' = "watchdog" /\ RevertDataUntilBlock(pendingBlockHeight)
      /\ pendingBlockHeight' = pendingBlockHeight /\ inProgressBlock' = pendingBlockHeight + 1
      /\ UNCHANGED <<chain, bestTip, targetBlockHeight, watchdogVars, vmVars, started, chainReorged,
                     indexingTasks, proc, reverts, syncBlockHash, boundVars>>
  BY DEF InitPurge, SetNewHeight, nodeVars
<1> DEFINE from == pendingBlockHeight
<1>2. /\ bestTip = from /\ from \in Heights /\ from <= chain.top
      /\ from > 0 => headers[0] # NoBlock
  BY <1>1, PurgeStart
<1>3. MaxHeight \in Nat /\ chain.top \in Nat /\ from \in Nat /\ from >= from
  BY <1>2, HeightTypes DEF Heights
<1>4. /\ headers' = [h \in Heights |-> IF h >= from THEN NoBlock ELSE headers[h]]
      /\ states' = [h \in Heights |-> IF h >= from THEN {} ELSE states[h]]
  BY <1>1 DEF RevertDataUntilBlock
<1>5. /\ Control' /\ QueueTips' /\ RevertHeights' /\ Purged' /\ Examined'
      /\ ~AnyRevert' /\ ~started' /\ \A r \in Reverters : ~Reverting(r)'
  BY <1>1, StartUpFrame
<1>6. /\ Stored'
      /\ \A h \in Heights : h < from => headers'[h] = headers[h] /\ states'[h] = states[h]
      /\ \A c \in Ref : Agreeing(c) => Agreeing(c)'
  <2>1. inProgressBlock' > 1 => from > 0 /\ headers[0] # NoBlock
    BY <1>1, <1>2, <1>3
  <2> QED BY <1>1, <1>2, <1>3, <1>4, <2>1, CutStore
<1>7. Tops' /\ Heads'
  BY <1>1, <1>2, <1>3 DEF SafetyInv, Positions, Tops, Heads
<1>8. Frontiers' /\ AtFrontier'
  BY <1>1 DEF Frontiers, AtFrontier, Running
<1>9. Walked'
  <2>1. currentHeader' = Unset
    BY <1>1 DEF SafetyInv, Copies, watchdogVars
  <2>2. InitWatchdogHeight' = from
    BY <1>1, <2>1 DEF InitWatchdogHeight
  <2> QED BY <1>1, <1>4, <2>1, <2>2 DEF Walked
<1>10. HasData'
  <2>1. DataTop = from /\ DataTop' = from /\ ~AnyRevert
    BY <1>1, StartingUp DEF DataTop, Running
  <2> QED BY <1>1, <1>5, <1>6, <2>1 DEF SafetyInv, Database, HasData, boundVars
<1>11. Copies'
  <2>1. Agreeing(lastBlock)' /\ Agreeing(validatorCache)'
    BY <1>1, <1>6, CutCopies
  <2> QED BY <1>1, <1>5, <2>1 DEF SafetyInv, Copies, watchdogVars
<1> QED BY <1>5, <1>6, <1>7, <1>8, <1>9, <1>10, <1>11 DEF SafetyInv, Positions, Database

\* The watchdog walks down to a height with a header below it; there is one,
\* since a genesis block is stored whenever the height is above 0.
LEMMA InitWatchdogSafe ==
  ASSUME TypeInv, TypeInv', SafetyInv, InitWatchdog PROVE SafetyInv'
<1>1. /\ phase = "watchdog"
      /\ UNCHANGED <<chain, headers, states, inProgressBlock, pendingBlockHeight, bestTip,
                     targetBlockHeight, vmVars, started, syncBlockHash, boundVars>>
  BY DEF InitWatchdog, nodeVars, storeVars, observerVars
<1> DEFINE h == InitWatchdogHeight
<1>2. /\ ~started /\ proc = Idle /\ indexingTasks = << >> /\ ~AnyRevert /\ ~chainReorged /\ ~Running
      /\ \A r \in Reverters : ~Reverting(r)
  BY <1>1, StartingUp DEF Running
<1>3. /\ \A k \in Heights : k >= h => headers[k] = NoBlock
      /\ \A k \in Heights : k >= pendingBlockHeight => states[k] = {}
      /\ currentHeader # Unset => 1 <= currentHeader.number /\ currentHeader.number <= pendingBlockHeight
  BY <1>1 DEF SafetyInv, Database, Walked
<1>4. /\ MaxHeight \in Nat /\ chain.top \in Nat /\ chain.top <= MaxHeight /\ pendingBlockHeight \in Nat
      /\ pendingBlockHeight <= chain.top /\ currentHeader.number \in Int
  BY HeightTypes, MaxHeightAssumption
  DEF SafetyInv, Positions, Tops, Heights, TypeInv, TypeOK, WatchdogTypeOK, Ref
<1>5. h \in Nat /\ h \in Heights /\ h <= pendingBlockHeight /\ h <= chain.top
  BY <1>3, <1>4 DEF InitWatchdogHeight, Heights
<1>6. bestTip = pendingBlockHeight /\ inProgressBlock = pendingBlockHeight + 1
  BY <1>1 DEF SafetyInv, Positions, Heads
<1>7. BlockHash(h) # NoBlock
  BY <1>5, HeightTypes, ChainsAssumption DEF BlockHash
<1>8. \A k \in Heights : crashes = MaxCrashes /\ k < pendingBlockHeight => states[k] = {headers[k]}
  BY <1>1, <1>2 DEF SafetyInv, Database, HasData, DataTop
<1>9. ASSUME h > 0, headers[h - 1] # NoBlock PROVE \A k \in Heights : k < h => headers[k] # NoBlock
  <2>1. h - 1 \in Heights /\ \A k \in Heights : k < h => k = h - 1 \/ k < h - 1
    BY <1>4, <1>5, <1>9 DEF Heights
  <2> QED BY <1>9, <2>1 DEF SafetyInv, Database, Stored
<1> HIDE DEF h
<1>10. currentHeader' = [number |-> h, block |-> BlockHash(h)]
  BY <1>7 DEF InitWatchdog, h
<1>11. CASE h > 0 /\ headers[h - 1] = NoBlock
  <2>1. UNCHANGED <<phase, lastBlock, chainReorged, reverts, proc, indexingTasks>>
    BY <1>5, <1>7, <1>11 DEF InitWatchdog, h
  <2>2. /\ Control' /\ QueueTips' /\ RevertHeights' /\ Purged' /\ Examined'
        /\ ~AnyRevert' /\ ~started' /\ \A r \in Reverters : ~Reverting(r)'
    BY <1>1, <2>1, StartUpFrame
  <2>3. Tops' /\ Heads' /\ Frontiers' /\ AtFrontier'
    BY <1>1, <2>1 DEF SafetyInv, Positions, Tops, Heads, Frontiers, AtFrontier, Running
  <2>4. Stored'
    BY <1>1 DEF SafetyInv, Database, Stored
  <2>5. Walked'
    <3>1. currentHeader' # Unset /\ currentHeader'.number = h
      BY <1>5, <1>10 DEF Unset
    <3>2. InitWatchdogHeight' = h - 1
      BY <3>1 DEF InitWatchdogHeight
    <3>3. ASSUME NEW k \in Heights, k >= h - 1 PROVE headers[k] = NoBlock
      BY <1>3, <1>4, <1>5, <1>11, <3>3 DEF Heights, h
    <3>4. 1 <= h /\ h <= pendingBlockHeight
      BY <1>5, <1>11
    <3> QED BY <1>1, <1>3, <3>1, <3>2, <3>3, <3>4 DEF Walked
  <2>6. HasData'
    <3>1. DataTop' = pendingBlockHeight
      BY <1>1, <2>1 DEF DataTop, Running
    <3> QED BY <1>1, <1>8, <2>2, <3>1 DEF SafetyInv, Database, HasData, boundVars
  <2>7. Copies'
    BY <1>1, <1>2, <2>1 DEF SafetyInv, Copies, Agreeing, vmVars
  <2> QED BY <2>2, <2>3, <2>4, <2>5, <2>6, <2>7 DEF SafetyInv, Positions, Database
<1>12. CASE ~(h > 0 /\ headers[h - 1] = NoBlock) /\ (h = 0 \/ h = pendingBlockHeight)
  <2>1. /\ phase' = "up" /\ lastBlock' = IF h = 0 THEN Unset ELSE [number |-> h, block |-> headers[h - 1]]
        /\ UNCHANGED <<chainReorged, reverts, proc, indexingTasks>>
    BY <1>5, <1>7, <1>12 DEF InitWatchdog, h
  <2>2. /\ Control' /\ QueueTips' /\ RevertHeights' /\ Purged' /\ Examined'
        /\ ~AnyRevert' /\ ~started' /\ ~proc'.current /\ indexingTasks' = << >>
        /\ \A r \in Reverters : ~Reverting(r)'
    BY <1>1, <2>1, StartUpFrame
  <2>3. h = pendingBlockHeight
    <3>1. SUFFICES ASSUME h = 0, h # pendingBlockHeight PROVE FALSE
      BY <1>12
    <3>2. inProgressBlock > 1 /\ 0 \in Heights /\ 0 >= h
      BY <1>4, <1>6, <3>1 DEF Heights
    <3>3. headers[0] # NoBlock
      BY <3>2 DEF SafetyInv, Database, Stored
    <3> QED BY <1>3, <3>2, <3>3 DEF h
  <2>4. Frontier' = h
    BY <1>1, <1>4, <1>6, <2>2, <2>3 DEF Frontier, NextTip
  <2>5. Tops' /\ Heads'
    BY <1>1, <1>6, <2>1 DEF SafetyInv, Positions, Tops, Heads
  <2>6. Frontiers'
    BY <1>1, <1>4, <2>2, <2>3, <2>4 DEF Frontiers
  <2>7. Stored'
    BY <1>1 DEF SafetyInv, Database, Stored
  <2>8. AtFrontier'
    <3>1. \A k \in Heights : k < h => headers[k] # NoBlock
      <4>1. CASE h = 0
        BY <1>4, <4>1 DEF Heights
      <4>2. CASE h # 0
        <5>1. h > 0
          BY <1>5, <4>2
        <5> QED BY <1>9, <1>12, <5>1
      <4> QED BY <4>1, <4>2
    <3>2. \A k \in Heights : k > h => k >= h
      BY <1>5 DEF Heights
    <3>3. h >= h
      BY <1>5
    <3>4. \A k \in Heights : k >= h => headers[k] = NoBlock /\ states[k] = {}
      BY <1>3, <2>3 DEF h
    <3> QED BY <1>1, <1>5, <2>2, <2>4, <3>1, <3>2, <3>3, <3>4 DEF AtFrontier
  <2>9. Walked'
    BY <2>1 DEF Walked
  <2>10. HasData'
    <3>1. DataTop' = pendingBlockHeight
      BY <2>1, <2>2, <2>3, <2>4 DEF DataTop, Running
    <3> QED BY <1>1, <1>8, <2>2, <3>1 DEF SafetyInv, Database, HasData, boundVars
  <2>11. Copies'
    <3>1. Agreeing(lastBlock)'
      <4>1. CASE h = 0
        BY <2>1, <4>1 DEF Agreeing, Unset
      <4>2. CASE h # 0
        <5>1. headers[h] = NoBlock
          BY <1>3, <1>5 DEF h
        <5> QED BY <1>1, <2>1, <4>2, <5>1 DEF Agreeing
      <4> QED BY <4>1, <4>2
    <3> QED BY <1>1, <2>1, <2>2, <3>1 DEF SafetyInv, Copies, Agreeing, vmVars
  <2> QED BY <2>2, <2>5, <2>6, <2>7, <2>8, <2>9, <2>10, <2>11 DEF SafetyInv, Positions, Database
<1>13. CASE ~(h > 0 /\ headers[h - 1] = NoBlock) /\ ~(h = 0 \/ h = pendingBlockHeight)
  <2>1. /\ phase' = "mismatch" /\ lastBlock' = [number |-> h, block |-> headers[h - 1]]
        /\ BeginRevert("boot", h, FALSE, proc)
    BY <1>5, <1>7, <1>13 DEF InitWatchdog, h
  <2>2. /\ chainReorged' /\ indexingTasks' = << >> /\ proc' = Idle
        /\ reverts' = [reverts EXCEPT !["boot"] = [pc |-> "purge", from |-> h, height |-> 0]]
    BY <1>2, <2>1 DEF BeginRevert, Cancelled, Idle
  <2>3. 1 <= h /\ h > 0 /\ headers[h - 1] # NoBlock /\ \A k \in Heights : k < h => k < pendingBlockHeight
    BY <1>4, <1>5, <1>13 DEF Heights
  <2>4. Locks' /\ Positions' /\ Database' /\ Examined'
    <3>1. "boot" \in Reverters /\ ("boot" = "task" <=> proc'.pc = "reverting") /\ ~proc'.current
      BY <2>2 DEF Reverters, Idle
    <3>2. targetBlockHeight' <= chain.top
      BY <1>1 DEF SafetyInv, Positions, Tops
    <3>3. \A k \in Heights : k < h => headers[k] # NoBlock
      BY <1>9, <2>3
    <3>4. crashes = MaxCrashes => \A k \in Heights : k < h => states[k] = {headers[k]}
      BY <1>8, <2>3
    <3>5. ~started'
      BY <1>1, <1>2
    <3> QED BY <1>1, <1>2, <1>5, <2>1, <2>2, <2>3, <3>1, <3>2, <3>3, <3>4, <3>5, RevertBegins
  <2>5. Phases'
    <3>1. \A r \in Regressions : reverts'[r] = reverts[r] /\ ~Reverting(r)
      BY <1>2, <2>2, IndexerAssumption DEF Reverters, TypeInv, TypeOK, ControlTypeOK
    <3> QED BY <1>1, <1>2, <2>1, <2>2, <3>1 DEF Phases, Reverting
  <2>6. Flags'
    BY <1>1, <1>2, <2>2 DEF SafetyInv, Control, Flags, Idle, vmVars
  <2>7. Copies'
    <3>1. Agreeing(lastBlock)'
      <4>1. headers[h] = NoBlock
        BY <1>3, <1>5 DEF h
      <4> QED BY <1>1, <2>1, <4>1 DEF Agreeing
    <3> QED BY <1>1, <1>2, <2>1, <3>1 DEF SafetyInv, Copies, Agreeing, vmVars
  <2> QED BY <2>4, <2>5, <2>6, <2>7 DEF SafetyInv, Control
<1> QED BY <1>11, <1>12, <1>13

\* A process that has just begun, over the database as it is.
LEMMA RestartedSafe ==
  ASSUME TypeInv', Stored', Restarted,
         inProgressBlock' <= chain'.top + 1, crashes' <= MaxCrashes,
         crashes' = MaxCrashes => \A h \in Heights : h < HeightFromDB' => states'[h] = {headers'[h]}
  PROVE  SafetyInv'
<1>1. /\ phase' = "down" /\ started' = FALSE /\ chainReorged' = FALSE
      /\ indexingTasks' = << >> /\ proc' = Idle
      /\ reverts' = [r \in Reverters |-> NoRevert]
      /\ vmPrepared' = FALSE /\ validatorCache' = Unset
      /\ currentHeader' = Unset /\ lastBlock' = Unset
      /\ pendingBlockHeight' = 0 /\ bestTip' = 0 /\ targetBlockHeight' = 0
  BY DEF Restarted
<1>2. /\ \A r \in Reverters : ~Reverting(r)'
      /\ \A r \in Regressions : ~Reverting(r)'
      /\ ~Reverting("task")' /\ ~Reverting("boot")'
  BY <1>1 DEF Reverting, NoRevert, Reverters
<1>3. ~AnyRevert' /\ ~Running' /\ proc'.pc = "idle" /\ ~proc'.current
  BY <1>1, <1>2 DEF AnyRevert, Running, Idle
<1>4. Control'
  BY <1>1, <1>2, <1>3 DEF Control, Locks, Phases, Flags, OneRevert, QuietDuringRevert
<1>5. chain'.top \in Nat
  BY HeightTypes, MaxHeightAssumption, ChainsAssumption
  DEF TypeInv, TypeOK, NodeTypeOK, Chain, Heights
<1>6. Positions'
  BY <1>1, <1>2, <1>3, <1>5
  DEF Positions, Tops, QueueTips, Consecutive, Heads, Frontiers, RevertHeights
<1>7. Database'
  BY <1>1, <1>2, <1>3 DEF Database, AtFrontier, Purged, Walked, HasData, DataTop
<1>8. Copies' /\ Examined'
  BY <1>1, <1>3 DEF Copies, Agreeing, Unset, Examined
<1> QED BY <1>4, <1>6, <1>7, <1>8 DEF SafetyInv

LEMMA CrashSafe ==
  ASSUME TypeInv, TypeInv', SafetyInv, Crash PROVE SafetyInv'
<1>1. UNCHANGED <<chain, headers, states, inProgressBlock>>
  BY DEF Crash, nodeVars, storeVars
<1>2. Stored'
  BY <1>1 DEF SafetyInv, Database, Stored
<1>3. crashes' <= MaxCrashes /\ crashes' # MaxCrashes
  BY IndexerAssumption DEF Crash, SafetyInv, Database, HasData, TypeInv, TypeOK, ControlTypeOK
<1>4. inProgressBlock' <= chain'.top + 1
  BY <1>1 DEF SafetyInv, Positions, Tops
<1> QED BY <1>2, <1>3, <1>4, RestartedSafe DEF Crash

\* What was on the best chain is below the top of a higher one.
LEMMA GrowthKeepsBest ==
  ASSUME TypeInv, TypeInv', GrowingMoves, SwitchChain
  PROVE  /\ chain.top < chain'.top /\ chain.at[0] = chain'.at[0]
         /\ \A h, b : OnBest(h, b) => OnBest(h, b)'
<1>1. /\ chain \in Chains /\ chain' \in Chains /\ <<chain, chain'>> \in Moves
      /\ chain.top \in Nat /\ chain'.top \in Nat
  BY MaxHeightAssumption, ChainsAssumption
  DEF SwitchChain, TypeInv, TypeOK, NodeTypeOK, Chain, Heights
<1>2. chain.top < chain'.top
  BY <1>1 DEF GrowingMoves
<1>3. chain.at[0] = chain'.at[0]
  BY <1>1, GenesisAssumption
<1>4. ASSUME NEW h, NEW b, OnBest(h, b) PROVE OnBest(h, b)'
  <2>1. h \in 0 .. chain.top /\ (b = chain.at[h] \/ 0 < h)
    BY <1>4 DEF OnBest
  <2>2. h \in 0 .. chain'.top /\ h < chain'.top
    BY <1>1, <1>2, <2>1
  <2>3. h = 0 \/ 0 < h
    BY <1>1, <2>1
  <2> QED BY <1>3, <2>1, <2>2, <2>3 DEF OnBest
<1> QED BY <1>2, <1>3, <1>4

LEMMA BitcoinStepSafe ==
  ASSUME GrowingMoves, TypeInv, TypeInv', SafetyInv, BitcoinStep PROVE SafetyInv'
<1>1. /\ chain.top < chain'.top /\ chain.at[0] = chain'.at[0]
      /\ \A h, b : OnBest(h, b) => OnBest(h, b)'
  BY GrowthKeepsBest DEF BitcoinStep
<1>2. UNCHANGED <<headers, states, inProgressBlock, pendingBlockHeight, bestTip, targetBlockHeight,
                  currentHeader, lastBlock, vmPrepared, validatorCache, phase, started, chainReorged,
                  indexingTasks, proc, reverts, syncBlockHash, boundVars>>
  BY DEF BitcoinStep, storeVars, observerVars, watchdogVars, vmVars, indexerVars
<1>3. /\ MaxHeight \in Nat /\ chain.top \in Nat /\ chain'.top \in Nat
      /\ pendingBlockHeight \in Nat /\ targetBlockHeight \in Nat /\ bestTip \in Nat /\ inProgressBlock \in Nat
  BY HeightTypes, MaxHeightAssumption, ChainsAssumption
  DEF TypeInv, TypeOK, NodeTypeOK, Chain, Heights
<1>4. /\ \A r \in Reverters : Reverting(r)' <=> Reverting(r)
      /\ AnyRevert' <=> AnyRevert
      /\ Running' <=> Running
      /\ Frontier' = Frontier /\ NextTip' = NextTip
  BY <1>2 DEF Reverting, AnyRevert, Running, Frontier, NextTip
<1>5. Control'
  BY <1>2 DEF SafetyInv, Control, Locks, Phases, Flags, OneRevert, QuietDuringRevert, Reverting, AnyRevert
<1>6. Tops' /\ Heads'
  BY <1>1, <1>2, <1>3 DEF SafetyInv, Positions, Tops, Heads, HeightFromDB
<1>7. QueueTips'
  BY <1>1, <1>2, <1>4 DEF SafetyInv, Positions, QueueTips, Consecutive, Sound
<1>8. Frontiers'
  <2>1. pendingBlockHeight < chain'.top
    BY <1>1, <1>3 DEF SafetyInv, Positions, Tops
  <2> QED BY <1>2, <1>4, <2>1 DEF SafetyInv, Positions, Frontiers
<1>9. RevertHeights'
  <2>1. ASSUME NEW r \in Reverters, Reverting(r)
        PROVE  reverts[r].from < chain'.top /\ reverts[r].height <= chain'.top /\ reverts[r].from <= chain'.top
    <3>1. /\ reverts[r].from \in Nat /\ reverts[r].height \in Nat
      BY <2>1, MaxHeightAssumption DEF TypeInv, TypeOK, ControlTypeOK, Revert, Heights
    <3>2. reverts[r].from <= chain.top /\ reverts[r].height <= chain.top
      BY <2>1 DEF SafetyInv, Positions, RevertHeights
    <3> QED BY <1>1, <1>3, <3>1, <3>2
  <2> QED BY <1>2, <1>4, <2>1 DEF SafetyInv, Positions, RevertHeights
<1>10. Stored' /\ AtFrontier' /\ Walked'
  BY <1>1, <1>2, <1>4 DEF SafetyInv, Database, Stored, AtFrontier, Walked, InitWatchdogHeight
<1>11. Purged'
  BY <1>2, <1>4 DEF SafetyInv, Database, Purged
<1>12. HasData'
  <2>1. DataTop' = DataTop
    BY <1>2, <1>4 DEF DataTop, HeightFromDB
  <2> QED BY <1>2, <1>4, <2>1 DEF SafetyInv, Database, HasData, boundVars
<1>13. Copies'
  BY <1>1, <1>2 DEF SafetyInv, Copies, Agreeing
<1>14. Examined'
  <2>1. proc.current /\ proc.pc = "restore" => proc.walk < chain'.top
    <3>1. SUFFICES ASSUME proc.current, proc.pc = "restore" PROVE proc.walk < chain'.top
      OBVIOUS
    <3>2. proc.walk \in Nat /\ proc.walk <= proc.tip /\ proc.tip \in 0 .. chain.top
      BY <3>1, CurrentRuns, HeightTypes DEF SafetyInv, Examined, Proc, Heights
    <3> QED BY <1>1, <1>3, <3>2
  <2> QED BY <1>1, <1>2, <2>1 DEF SafetyInv, Examined
<1> QED BY <1>5, <1>6, <1>7, <1>8, <1>9, <1>10, <1>11, <1>12, <1>13, <1>14
        DEF SafetyInv, Positions, Database

-----------------------------------------------------------------------------
(* The invariant *)

\* The database of a process that stopped cleanly.
LEMMA InitSafe == Init => SafetyInv
<1>1. SUFFICES ASSUME Init PROVE SafetyInv
  OBVIOUS
<1>2. TypeInv
  BY <1>1, InitType
<1>3. /\ phase = "down" /\ started = FALSE /\ chainReorged = FALSE
      /\ indexingTasks = << >> /\ proc = Idle
      /\ reverts = [r \in Reverters |-> NoRevert]
      /\ vmPrepared = FALSE /\ validatorCache = Unset
      /\ currentHeader = Unset /\ lastBlock = Unset
      /\ pendingBlockHeight = 0 /\ bestTip = 0 /\ targetBlockHeight = 0
      /\ crashes = MaxCrashes /\ chain \in FirstChains
  BY <1>1 DEF Init
<1>4. PICK n \in Starts : IndexedUpTo(n)
  BY <1>1 DEF Init
<1>5. /\ n \in Int /\ -1 <= n /\ n <= chain.top
      /\ MaxHeight \in Nat /\ chain.top \in Nat /\ chain.top <= MaxHeight /\ chain \in Chains
  BY <1>2, <1>3, IndexerAssumption, HeightTypes, MaxHeightAssumption DEF Heights
<1>6. /\ headers = [h \in Heights |-> IF h <= n THEN chain.at[h] ELSE NoBlock]
      /\ states = [h \in Heights |-> IF h <= n THEN {chain.at[h]} ELSE {}]
      /\ inProgressBlock = n + 1
  BY <1>4 DEF IndexedUpTo
<1>7. \A h \in Heights : h <= n => chain.at[h] # NoBlock
  BY <1>5, ChainsAssumption DEF Heights
<1>8. /\ \A r \in Reverters : ~Reverting(r)
      /\ \A r \in Regressions : ~Reverting(r)
      /\ ~Reverting("task") /\ ~Reverting("boot")
  BY <1>3 DEF Reverting, NoRevert, Reverters
<1>9. ~AnyRevert /\ ~Running /\ proc.pc = "idle" /\ ~proc.current
  BY <1>3, <1>8 DEF AnyRevert, Running, Idle
<1>10. Control
  BY <1>3, <1>8, <1>9 DEF Control, Locks, Phases, Flags, OneRevert, QuietDuringRevert
<1>11. Positions
  BY <1>3, <1>5, <1>6, <1>8, <1>9
  DEF Positions, Tops, QueueTips, Consecutive, Heads, Frontiers, RevertHeights
<1>12. Stored
  <2>1. ASSUME NEW h \in Heights, NEW k \in Heights, k < h, headers[h] # NoBlock
        PROVE  headers[k] # NoBlock
    <3>1. h <= n
      BY <1>6, <2>1
    <3>2. k <= n
      BY <1>5, <2>1, <3>1 DEF Heights
    <3> QED BY <1>6, <1>7, <3>2
  <2>2. ASSUME NEW h \in CheckedHeights, headers[h] # NoBlock
        PROVE  Prev[headers[h]] = headers[h - 1]
    <3>1. h \in Heights /\ h - 1 \in Heights /\ h <= n
      BY <1>5, <1>6, <2>2 DEF CheckedHeights, Heights
    <3>2. h - 1 <= n /\ h \in 1 .. chain.top
      BY <1>5, <3>1 DEF CheckedHeights, Heights
    <3>3. headers[h] = chain.at[h] /\ headers[h - 1] = chain.at[h - 1]
      BY <1>6, <3>1, <3>2
    <3> QED BY <1>5, <3>2, <3>3, ChainsAssumption
  <2>3. \A h \in Heights : headers[h] # NoBlock => states[h] \subseteq {headers[h]}
    BY <1>6
  <2>4. 0 \in Heights /\ (inProgressBlock > 1 => 0 <= n)
    BY <1>5, <1>6 DEF Heights
  <2> QED BY <1>6, <1>7, <2>1, <2>2, <2>3, <2>4 DEF Stored
<1>13. HasData
  <2>1. DataTop = HeightFromDB
    BY <1>3 DEF DataTop
  <2>2. ASSUME NEW h \in Heights, h < HeightFromDB PROVE states[h] = {headers[h]}
    <3>1. h <= n
      BY <1>5, <1>6, <2>2 DEF HeightFromDB, Heights
    <3> QED BY <1>6, <3>1
  <2>3. crashes <= MaxCrashes
    BY <1>3, IndexerAssumption
  <2> QED BY <1>8, <2>1, <2>2, <2>3 DEF HasData
<1>14. Database
  BY <1>3, <1>8, <1>9, <1>12, <1>13 DEF Database, AtFrontier, Purged, Walked
<1>15. Copies /\ Examined
  BY <1>3, <1>9 DEF Copies, Agreeing, Unset, Examined
<1> QED BY <1>10, <1>11, <1>14, <1>15 DEF SafetyInv

\* Every step without a fault keeps the invariant.
LEMMA ProcessTaskSafe ==
  ASSUME TypeInv, TypeInv', SafetyInv, ProcessTask PROVE SafetyInv'
  BY PrepareBlockSafe, ExecuteTransactionsSafe, UpdateEvaluatedStatesSafe, SignBlockSafe, VerifyReorgSafe,
     CompareWithTipSafe, RestoreBlockchainSafe, FinalizeBlockSafe, SaveBlockSafe, OnCompletedTaskSafe,
     UpdateHeightSafe, ProcessingErrorSafe
  DEF ProcessTask

LEMMA RevertChainSafe ==
  ASSUME TypeInv, TypeInv', SafetyInv, NEW r \in Reverters, RevertChain(r) PROVE SafetyInv'
  BY RevertPurgeSafe, RevertObserveSafe, RevertSettleSafe, RevertFinishSafe DEF RevertChain

\* A step keeps the number of faults, or counts one.
LEMMA FaultsCounted ==
  ASSUME TypeInv, Next
  PROVE  \/ faults' = faults - 1
         \/ /\ faults' = faults
            /\ \/ BitcoinStep \/ InitIndexer \/ InitPurgeBatch \/ OnBlockChange \/ ProcessPrefetch
               \/ ProcessTask \/ Crash
               \/ \E r \in Reverters : RevertChain(r) \/ RevertPurgeBatch(r)
<1>1. CASE BitcoinStep \/ InitPurgeBatch \/ OnBlockChange \/ ProcessPrefetch \/ Crash
  BY <1>1 DEF BitcoinStep, InitPurgeBatch, OnBlockChange, ProcessPrefetch, Crash, boundVars
<1>2. CASE InitIndexer
  BY <1>2 DEF InitIndexer, InitObserver, InitPurge, InitWatchdog, boundVars
<1>3. CASE ProcessTask
  <2>1. CASE PrepareBlock \/ ExecuteTransactions \/ UpdateEvaluatedStates \/ SignBlock \/ FinalizeBlock \/ SaveBlock
    BY <1>3, <2>1 DEF PrepareBlock, ExecuteTransactions, UpdateEvaluatedStates, SignBlock, FinalizeBlock,
       SaveBlock, TaskOnly, boundVars
  <2>2. CASE VerifyReorg \/ CompareWithTip \/ RestoreBlockchain \/ OnCompletedTask \/ UpdateHeight
             \/ ProcessingError
    BY <1>3, <2>2 DEF VerifyReorg, CompareWithTip, RestoreBlockchain, OnCompletedTask, UpdateHeight,
       ProcessingError, boundVars
  <2> QED BY <1>3, <2>1, <2>2 DEF ProcessTask
<1>4. CASE PrefetchFails \/ TaskFails \/ \E r \in Reverters : RevertFail(r)
  BY <1>4 DEF PrefetchFails, TaskFails, RevertFail
<1>5. ASSUME NEW r \in Reverters, RevertChain(r) \/ RevertPurgeBatch(r)
      PROVE  faults' = faults
  BY <1>5 DEF RevertChain, RevertPurge, RevertObserve, RevertSettle, RevertFinish, RevertPurgeBatch, boundVars
<1> QED BY <1>1, <1>2, <1>3, <1>4, <1>5 DEF Next

\* The parts of SafetyInv depend on nothing but the variables.
LEMMA SafetyStutters ==
  ASSUME SafetyInv, UNCHANGED vars PROVE SafetyInv'
<1>1. UNCHANGED <<chain, headers, states, inProgressBlock, pendingBlockHeight, bestTip, targetBlockHeight,
                  currentHeader, lastBlock, vmPrepared, validatorCache, phase, started, chainReorged,
                  indexingTasks, proc, reverts, syncBlockHash, crashes>>
  BY DEF vars, nodeVars, storeVars, observerVars, watchdogVars, vmVars, indexerVars, boundVars
<1>2. Control'
  BY <1>1 DEF SafetyInv, Control, Locks, Phases, Flags, OneRevert, QuietDuringRevert, AnyRevert, Reverting
<1>3. Frontier' = Frontier /\ NextTip' = NextTip /\ (Running' <=> Running) /\ (AnyRevert' <=> AnyRevert)
      /\ DataTop' = DataTop /\ InitWatchdogHeight' = InitWatchdogHeight
  BY <1>1 DEF Frontier, NextTip, Running, AnyRevert, Reverting, DataTop, HeightFromDB, InitWatchdogHeight
<1>4. Positions'
  BY <1>1, <1>3 DEF SafetyInv, Positions, Tops, QueueTips, Consecutive, Sound, OnBest, Heads, HeightFromDB,
     Frontiers, RevertHeights, Reverting, Announced, Tip
<1>5. Database'
  BY <1>1, <1>3 DEF SafetyInv, Database, Stored, AtFrontier, Purged, Walked, HasData, Reverting
<1>6. Copies' /\ Examined'
  BY <1>1 DEF SafetyInv, Copies, Examined, Agreeing, OnBest
<1> QED BY <1>2, <1>4, <1>5, <1>6 DEF SafetyInv

LEMMA NextSafe ==
  ASSUME GrowingMoves
  PROVE  TypeInv /\ TypeInv' /\ FaultFree /\ [Next]_vars => FaultFree'
<1>1. SUFFICES ASSUME TypeInv, TypeInv', FaultFree, [Next]_vars PROVE FaultFree'
  OBVIOUS
<1>2. faults \in Nat /\ faults <= MaxFaults /\ MaxFaults \in Nat /\ (faults = MaxFaults => SafetyInv)
  BY <1>1, IndexerAssumption DEF TypeInv, TypeOK, ControlTypeOK, FaultFree, NoFault
<1>3. CASE UNCHANGED vars
  <2>1. faults' = faults
    BY <1>3 DEF vars, boundVars
  <2> QED BY <1>2, <1>3, <2>1, SafetyStutters DEF FaultFree, NoFault
<1>4. CASE Next
  <2>1. CASE faults' = faults - 1
    BY <1>2, <2>1 DEF FaultFree, NoFault
  <2>2. CASE /\ faults' = faults
             /\ \/ BitcoinStep \/ InitIndexer \/ InitPurgeBatch \/ OnBlockChange \/ ProcessPrefetch
                \/ ProcessTask \/ Crash
                \/ \E r \in Reverters : RevertChain(r) \/ RevertPurgeBatch(r)
    <3>1. SUFFICES ASSUME SafetyInv PROVE SafetyInv'
      BY <1>2, <2>2 DEF FaultFree, NoFault
    <3>2. CASE BitcoinStep \/ InitPurgeBatch \/ OnBlockChange
      BY <1>1, <3>1, <3>2, BitcoinStepSafe, InitPurgeBatchSafe, OnBlockChangeSafe
    <3>3. CASE InitIndexer
      BY <1>1, <3>1, <3>3, InitObserverSafe, InitPurgeSafe, InitWatchdogSafe DEF InitIndexer
    <3>4. CASE ProcessPrefetch \/ ProcessTask \/ Crash
      BY <1>1, <3>1, <3>4, ProcessPrefetchSafe, ProcessTaskSafe, CrashSafe
    <3>5. CASE \E r \in Reverters : RevertChain(r) \/ RevertPurgeBatch(r)
      BY <1>1, <3>1, <3>5, RevertChainSafe, RevertPurgeBatchSafe
    <3> QED BY <2>2, <3>2, <3>3, <3>4, <3>5
  <2> QED BY <1>1, <1>4, <2>1, <2>2, FaultsCounted
<1> QED BY <1>1, <1>3, <1>4

-----------------------------------------------------------------------------
(* The theorems *)

\* The invariant of every behaviour up to its first fault.
THEOREM GrowingChainSafe == ASSUME GrowingMoves PROVE Spec => [](TypeInv /\ FaultFree)
<1>1. Init => TypeInv /\ FaultFree
  <2>1. Init => faults = MaxFaults /\ MaxFaults \in Nat
    BY IndexerAssumption DEF Init
  <2> QED BY <2>1, InitType, InitSafe DEF FaultFree
<1>2. TypeInv /\ FaultFree /\ [Next]_vars => (TypeInv /\ FaultFree)'
  BY NextType, NextSafe
<1> QED BY <1>1, <1>2, PTL DEF Spec

\* As long as the best chain only grows or is replaced by a longer one and no
\* call has failed, no two revertChain calls are in progress at a time, and
\* while one is no task runs or waits: the poller's onHeightRegressionDetected
\* never meets the restoreBlockchain of a task.
THEOREM RevertsAreExclusive == ASSUME GrowingMoves PROVE Spec => []RevertsExclusive
<1>1. FaultFree => RevertsExclusive
  BY DEF FaultFree, NoFault, SafetyInv, Control, Locks, RevertsExclusive
<1> QED BY <1>1, GrowingChainSafe, PTL

\* Whatever step a process died in, startIndexer leaves the headers below
\* pendingBlockHeight and nothing at or above it.
THEOREM StartsAreClean == ASSUME GrowingMoves PROVE Spec => [](NoFault => CleanStart)
<1>1. TypeInv /\ FaultFree => (NoFault => CleanStart)
  <2>1. SUFFICES ASSUME TypeInv, SafetyInv, phase = "up", ~started
                 PROVE  \A h \in Heights : IF h < pendingBlockHeight THEN headers[h] # NoBlock
                                           ELSE headers[h] = NoBlock /\ states[h] = {}
    BY DEF FaultFree, CleanStart
  <2>2. /\ proc = Idle /\ indexingTasks = << >> /\ \A r \in Regressions : ~Reverting(r)
    BY <2>1 DEF SafetyInv, Control, Phases
  <2>3. ~Reverting("task") /\ ~Reverting("boot") /\ ~proc.current
    BY <2>1, <2>2 DEF SafetyInv, Control, Locks, Idle
  <2>4. Running
    BY <2>1, <2>2, <2>3 DEF Running, AnyRevert, Reverters
  <2>5. Frontier = pendingBlockHeight /\ pendingBlockHeight \in Heights
    BY <2>1, <2>4, HeightTypes DEF SafetyInv, Positions, Frontiers
  <2>6. \A h \in Heights : h < pendingBlockHeight \/ h = pendingBlockHeight \/ h > pendingBlockHeight
    BY <2>5, MaxHeightAssumption DEF Heights
  <2>7. \A h \in Heights : h = pendingBlockHeight \/ h > pendingBlockHeight => ~(h < pendingBlockHeight)
    BY <2>5, MaxHeightAssumption DEF Heights
  <2> QED BY <2>1, <2>3, <2>4, <2>5, <2>6, <2>7 DEF SafetyInv, Database, AtFrontier
<1> QED BY <1>1, GrowingChainSafe, PTL

\* When no revertChain is in progress, the headers below pendingBlockHeight are
\* stored, the data there are those of the stored blocks and, if no process
\* died, all of them.
THEOREM DatabaseIsSound == ASSUME GrowingMoves PROVE Spec => []DatabaseSound
<1>1. TypeInv /\ FaultFree => DatabaseSound
  <2>1. SUFFICES ASSUME TypeInv, SafetyInv, Settled
                 PROVE  NoGap /\ NoOrphanState /\ (crashes = MaxCrashes => HeaderHasState)
    BY DEF FaultFree, NoFault, DatabaseSound
  <2>2. Running /\ ~AnyRevert
    BY <2>1 DEF Settled, Running, AnyRevert
  <2>3. pendingBlockHeight <= Frontier
    BY <2>1, <2>2 DEF SafetyInv, Positions, Frontiers
  <2>4. \A h \in Heights : h < pendingBlockHeight => h < Frontier
    BY <2>1, <2>3, HeightTypes DEF Heights, Frontier
  <2>5. NoGap
    BY <2>1, <2>2, <2>4 DEF SafetyInv, Database, AtFrontier, NoGap
  <2>6. NoOrphanState
    BY <2>1, <2>5 DEF SafetyInv, Database, Stored, NoGap, NoOrphanState
  <2>7. crashes = MaxCrashes => HeaderHasState
    BY <2>1, <2>2, <2>4 DEF SafetyInv, Database, HasData, DataTop, Running, HeaderHasState
  <2> QED BY <2>5, <2>6, <2>7
<1> QED BY <1>1, GrowingChainSafe, PTL

\* As long as the best chain only grows or is replaced by a longer one,
\* verifyChainReorgForBlock lets no block of another branch be saved on top of
\* what a reorganisation replaced, whichever step a crash interrupts.
THEOREM StoredBlocksAreLinked == ASSUME GrowingMoves PROVE Spec => Linked
<1>1. FaultFree => (faults = MaxFaults => HeadersLinked)
  BY DEF FaultFree, NoFault, SafetyInv, Database, Stored, HeadersLinked
<1> QED BY <1>1, GrowingChainSafe, PTL DEF Linked

-----------------------------------------------------------------------------
(* The refinement of IndexedChain *)

\* A table of headers has blocks at the heights below n, and at no other.
Full(table, n) == \A h \in Heights : table[h] # NoBlock <=> h < n

\* The stored headers are a chain from the genesis block on.
Counted == \E n \in 0 .. MaxHeight + 1 : Full(headers, n)

Cut(low) == headers' = [h \in Heights |-> IF h >= low THEN NoBlock ELSE headers[h]]

\* The blocks of the first n headers.
Stack(table, n) == [i \in 1 .. n |-> table[i - 1]]

-----------------------------------------------------------------------------
(* The refinement mapping *)

\* The lengths among which the mapping chooses the greatest.
Lengths(table) ==
    {m \in 0 .. MaxHeight + 1 : \A h \in Heights : h < m => table[h] # NoBlock}

Length(table) == CHOOSE m \in Lengths(table) : \A k \in Lengths(table) : k <= m

\* What the mapping chooses.
LEMMA LengthIs ==
  ASSUME NEW table, NEW n \in 0 .. MaxHeight + 1, Full(table, n)
  PROVE  Length(table) = n
<1>1. n \in Lengths(table)
  BY DEF Full, Lengths
<1>2. ASSUME NEW m \in Lengths(table) PROVE m <= n
  <2>1. SUFFICES ASSUME ~(m <= n) PROVE FALSE
    OBVIOUS
  <2>2. n \in Heights /\ n < m /\ ~(n < n)
    BY <2>1, MaxHeightAssumption DEF Heights, Lengths
  <2> QED BY <2>2 DEF Full, Lengths
<1>3. Length(table) \in Lengths(table) /\ \A k \in Lengths(table) : k <= Length(table)
  BY <1>1, <1>2 DEF Length
<1>4. n <= Length(table) /\ Length(table) <= n /\ Length(table) \in Int /\ n \in Int
  BY <1>1, <1>2, <1>3, MaxHeightAssumption DEF Lengths
<1> QED BY <1>4

LEMMA StoredChainIs ==
  ASSUME NEW n \in 0 .. MaxHeight + 1
  PROVE  /\ Full(headers, n) => StoredChain = Stack(headers, n)
         /\ Full(headers', n) => StoredChain' = Stack(headers', n)
<1>1. /\ StoredChain = Stack(headers, Length(headers))
      /\ StoredChain' = Stack(headers', Length(headers'))
  BY DEF StoredChain, Stack, Length, Lengths
<1> QED BY <1>1, LengthIs

\* The mapping yields a sequence of blocks.
LEMMA StackType ==
  ASSUME NEW table \in [Heights -> Blocks \cup {NoBlock}],
         NEW n \in 0 .. MaxHeight + 1, Full(table, n)
  PROVE  /\ Stack(table, n) \in Seq(Blocks) /\ Len(Stack(table, n)) = n
         /\ \A i \in 1 .. n : Stack(table, n)[i] = table[i - 1]
<1>1. ASSUME NEW i \in 1 .. n PROVE table[i - 1] \in Blocks
  <2>1. i - 1 \in Heights /\ i - 1 < n
    BY MaxHeightAssumption DEF Heights
  <2> QED BY <2>1 DEF Full
<1>2. n \in Nat
  BY MaxHeightAssumption
<1> QED BY <1>1, <1>2 DEF Stack

-----------------------------------------------------------------------------
(* The three kinds of step *)

\* What a step without a fault does to the headers.
LEMMA HeadersStep ==
  ASSUME TypeInv, SafetyInv, Next, faults' = faults
  PROVE  \/ headers' = headers
         \/ \E low \in Heights : Cut(low)
         \/ SaveBlock
<1>1. CASE BitcoinStep \/ OnBlockChange \/ ProcessPrefetch \/ Crash
  BY <1>1 DEF BitcoinStep, OnBlockChange, ProcessPrefetch, Crash, storeVars
<1>2. CASE InitIndexer \/ InitPurgeBatch
  <2>1. pendingBlockHeight \in Heights
    BY HeightTypes
  <2>2. CASE InitPurge
    BY <2>1, <2>2 DEF InitPurge, RevertDataUntilBlock, Cut
  <2>3. CASE InitPurgeBatch
    BY <2>3 DEF InitPurgeBatch, RevertDataBatch, Cut
  <2>4. CASE InitObserver \/ InitWatchdog
    BY <2>4 DEF InitObserver, InitWatchdog, storeVars
  <2> QED BY <1>2, <2>2, <2>3, <2>4 DEF InitIndexer
<1>3. CASE ProcessTask
  <2>1. CASE PrepareBlock \/ ExecuteTransactions \/ UpdateEvaluatedStates \/ SignBlock \/ FinalizeBlock
    BY <2>1 DEF PrepareBlock, ExecuteTransactions, UpdateEvaluatedStates, SignBlock, FinalizeBlock, storeVars
  <2>2. CASE VerifyReorg \/ CompareWithTip \/ RestoreBlockchain \/ OnCompletedTask \/ UpdateHeight
             \/ ProcessingError
    BY <2>2 DEF VerifyReorg, CompareWithTip, RestoreBlockchain, OnCompletedTask, UpdateHeight,
       ProcessingError, storeVars
  <2> QED BY <1>3, <2>1, <2>2 DEF ProcessTask
<1>4. ASSUME NEW r \in Reverters, RevertChain(r) \/ RevertPurgeBatch(r)
      PROVE  headers' = headers \/ \E low \in Heights : Cut(low)
  <2>1. reverts[r].from \in Heights
    BY DEF TypeInv, TypeOK, ControlTypeOK, Revert
  <2>2. CASE RevertPurge(r)
    BY <2>1, <2>2 DEF RevertPurge, RevertDataUntilBlock, Cut
  <2>3. CASE RevertPurgeBatch(r)
    BY <2>3 DEF RevertPurgeBatch, RevertDataBatch, Cut
  <2>4. CASE RevertObserve(r) \/ RevertSettle(r) \/ RevertFinish(r)
    BY <2>4 DEF RevertObserve, RevertSettle, RevertFinish, storeVars
  <2> QED BY <1>4, <2>2, <2>3, <2>4 DEF RevertChain
<1>5. faults' # faults - 1
  BY DEF TypeInv, TypeOK, ControlTypeOK
<1> QED BY <1>1, <1>2, <1>3, <1>4, <1>5, FaultsCounted

\* A step that leaves the headers alone leaves the ledger alone.
LEMMA SameHeaders ==
  ASSUME NEW n \in 0 .. MaxHeight + 1, Full(headers, n), headers' = headers
  PROVE  Full(headers', n) /\ StoredChain' = StoredChain
  BY DEF Full, StoredChain

\* A purge cuts the ledger, if it reaches below its end.
LEMMA CutHeaders ==
  ASSUME TypeInv, TypeInv', NEW n \in 0 .. MaxHeight + 1, Full(headers, n),
         NEW low \in Heights, Cut(low)
  PROVE  /\ Counted'
         /\ StoredChain' = StoredChain \/ Ledger!RollBack
<1>1. MaxHeight \in Nat /\ low \in Nat /\ n \in Nat /\ n <= MaxHeight + 1 /\ low <= MaxHeight
  BY MaxHeightAssumption DEF Heights
<1>2. \A h \in Heights : headers'[h] # NoBlock <=> h < low /\ h < n
  BY <1>1 DEF Cut, Full, Heights
<1>3. CASE n <= low
  <2>1. Full(headers', n)
    BY <1>1, <1>2, <1>3 DEF Full, Heights
  <2>2. StoredChain = Stack(headers, n) /\ StoredChain' = Stack(headers', n)
    BY <2>1, StoredChainIs
  <2>3. ASSUME NEW i \in 1 .. n PROVE headers'[i - 1] = headers[i - 1]
    BY <1>1, <1>3 DEF Cut, Heights
  <2>4. Stack(headers', n) = Stack(headers, n)
    BY <2>3 DEF Stack
  <2> QED BY <2>1, <2>2, <2>4 DEF Counted
<1>4. CASE low < n
  <2>1. Full(headers', low) /\ low \in 0 .. MaxHeight + 1
    BY <1>1, <1>2, <1>4 DEF Full, Heights
  <2>2. StoredChain = Stack(headers, n) /\ StoredChain' = Stack(headers', low)
    BY <2>1, StoredChainIs
  <2>3. /\ Stack(headers, n) \in Seq(Blocks) /\ Len(Stack(headers, n)) = n
        /\ \A i \in 1 .. n : Stack(headers, n)[i] = headers[i - 1]
    BY StackType, HeightTypes
  <2>4. \A i \in 1 .. low : i \in 1 .. n /\ headers'[i - 1] = headers[i - 1]
    BY <1>1, <1>4 DEF Cut, Heights
  <2>5. Stack(headers', low) = [i \in 1 .. low |-> Stack(headers, n)[i]]
    BY <2>3, <2>4 DEF Stack
  <2>6. SubSeq(Stack(headers, n), 1, low) = [i \in 1 .. low |-> Stack(headers, n)[i]]
    BY <1>1, <1>4, <2>3
  <2>7. low \in 0 .. Len(StoredChain) - 1 /\ StoredChain' = SubSeq(StoredChain, 1, low)
    BY <1>1, <1>4, <2>2, <2>3, <2>5, <2>6
  <2> QED BY <2>1, <2>7 DEF Counted, Ledger!RollBack
<1> QED BY <1>1, <1>3, <1>4

\* A sequence that is one element longer is an Append.
LEMMA AppendIs ==
  ASSUME NEW S, NEW s \in Seq(S), NEW e \in S, NEW t \in Seq(S), Len(t) = Len(s) + 1,
         \A i \in 1 .. Len(s) : t[i] = s[i], t[Len(s) + 1] = e
  PROVE  t = Append(s, e)
<1>1. Append(s, e) \in Seq(S) /\ Len(Append(s, e)) = Len(s) + 1 /\ Len(s) \in Nat
  BY AppendProperties
<1>2. ASSUME NEW i \in 1 .. Len(t) PROVE t[i] = Append(s, e)[i]
  <2>1. CASE i = Len(s) + 1
    BY <2>1, AppendProperties
  <2>2. CASE i # Len(s) + 1
    <3>1. i \in 1 .. Len(s)
      BY <1>1, <2>2
    <3> QED BY <3>1, AppendProperties
  <2> QED BY <2>1, <2>2
<1> QED BY <1>1, <1>2, SeqEqual

\* The running task saves its block at the end of the ledger.
LEMMA SavedHeader ==
  ASSUME TypeInv, TypeInv', SafetyInv, NEW n \in 0 .. MaxHeight + 1, Full(headers, n), SaveBlock
  PROVE  Counted' /\ Ledger!Extend
<1>1. /\ proc.current /\ proc.pc = "save_header" /\ proc.block # NoBlock /\ proc.block \in Blocks
      /\ headers' = [headers EXCEPT ![proc.tip] = proc.block]
  BY HeightTypes DEF SaveBlock, SaveBlockHeader, SafetyInv, Control, Flags, TypeInv, FetchedOK, ProcFetched, Proc
<1>2. proc.tip \in Heights /\ Frontier = proc.tip /\ Running
  BY <1>1, HeightTypes, CurrentRuns
<1>3. /\ \A h \in Heights : h < proc.tip => headers[h] # NoBlock
      /\ headers[proc.tip] = NoBlock
      /\ proc.tip \in CheckedHeights => Prev[proc.block] = headers[proc.tip - 1]
  BY <1>1, <1>2 DEF SafetyInv, Database, AtFrontier, Examined, Saved
<1>4. MaxHeight \in Nat /\ proc.tip \in Nat /\ n \in Nat /\ proc.tip <= MaxHeight /\ n <= MaxHeight + 1
  BY <1>2, MaxHeightAssumption DEF Heights
<1>5. n = proc.tip
  <2>1. ~(proc.tip < n)
    BY <1>2, <1>3 DEF Full
  <2>2. ~(n < proc.tip)
    <3>1. SUFFICES ASSUME n < proc.tip PROVE FALSE
      OBVIOUS
    <3>2. n \in Heights /\ ~(n < n)
      BY <1>4, <3>1 DEF Heights
    <3> QED BY <1>3, <3>1, <3>2 DEF Full
  <2> QED BY <1>4, <2>1, <2>2
<1>6. /\ headers'[n] = proc.block
      /\ \A h \in Heights : h # n => headers'[h] = headers[h]
  BY <1>1, <1>2, <1>5, HeightTypes
<1>7. Full(headers', n + 1) /\ n + 1 \in 0 .. MaxHeight + 1
  <2>1. ASSUME NEW h \in Heights PROVE headers'[h] # NoBlock <=> h < n + 1
    BY <1>1, <1>4, <1>6 DEF Full, Heights
  <2> QED BY <1>4, <1>5, <2>1 DEF Full
<1>8. StoredChain = Stack(headers, n) /\ StoredChain' = Stack(headers', n + 1)
  BY <1>7, StoredChainIs
<1>9. /\ Stack(headers, n) \in Seq(Blocks) /\ Len(Stack(headers, n)) = n
      /\ \A i \in 1 .. n : Stack(headers, n)[i] = headers[i - 1]
  BY StackType, HeightTypes
<1>10. /\ Stack(headers', n + 1) \in Seq(Blocks) /\ Len(Stack(headers', n + 1)) = n + 1
       /\ \A i \in 1 .. n + 1 : Stack(headers', n + 1)[i] = headers'[i - 1]
  <2>1. headers' \in [Heights -> Blocks \cup {NoBlock}]
    BY DEF TypeInv, TypeOK, StoreTypeOK
  <2> QED BY <1>7, <2>1, StackType
<1>11. ASSUME NEW i \in 1 .. n
       PROVE  Stack(headers', n + 1)[i] = Stack(headers, n)[i]
  <2>1. i \in 1 .. n + 1 /\ i - 1 \in Heights /\ i - 1 # n
    BY <1>4 DEF Heights
  <2> QED BY <1>6, <1>9, <1>10, <2>1
<1>12. StoredChain' = Append(StoredChain, proc.block)
  <2>1. Stack(headers', n + 1)[n + 1] = proc.block
    <3>1. n + 1 \in 1 .. n + 1 /\ (n + 1) - 1 = n
      BY <1>4
    <3>2. Stack(headers', n + 1)[n + 1] = headers'[(n + 1) - 1]
      BY <1>10, <3>1
    <3> QED BY <1>6, <3>1, <3>2
  <2> DEFINE old == Stack(headers, n)
             new == Stack(headers', n + 1)
  <2>2. /\ old \in Seq(Blocks) /\ new \in Seq(Blocks) /\ Len(new) = Len(old) + 1
        /\ new[Len(old) + 1] = proc.block
    BY <1>9, <1>10, <2>1
  <2>3. \A i \in 1 .. Len(old) : new[i] = old[i]
    BY <1>9, <1>11
  <2>4. StoredChain = old /\ StoredChain' = new /\ proc.block \in Blocks
    BY <1>1, <1>8
  <2> HIDE DEF old, new
  <2>5. new = Append(old, proc.block)
    BY <2>2, <2>3, <2>4, AppendIs
  <2> QED BY <2>4, <2>5
<1>13. n \in CheckedHeights => Prev[proc.block] = StoredChain[n]
  <2>1. n \in CheckedHeights => n \in 1 .. n
    BY <1>4 DEF CheckedHeights
  <2> QED BY <1>3, <1>5, <1>8, <1>9, <2>1
<1>14. Ledger!Extends(StoredChain, proc.block)
  BY <1>8, <1>9, <1>13 DEF Ledger!Extends
<1>15. Ledger!Extend
  BY <1>1, <1>12, <1>14 DEF Ledger!Extend
<1> QED BY <1>7, <1>15 DEF Counted

-----------------------------------------------------------------------------
(* The theorems *)

\* The database may hold any number of blocks of the best chain at the start.
LEMMA InitCounted == Init => Counted /\ Ledger!Init
<1>1. SUFFICES ASSUME Init PROVE Counted /\ Ledger!Init
  OBVIOUS
<1>2. TypeInv /\ SafetyInv
  BY <1>1, InitType, InitSafe
<1>3. PICK m \in Starts : IndexedUpTo(m)
  BY <1>1 DEF Init
<1>4. PICK n \in 0 .. MaxHeight + 1 : Full(headers, n)
  <2>1. m + 1 \in 0 .. MaxHeight + 1 /\ Full(headers, m + 1)
    <3>1. /\ m \in Int /\ -1 <= m /\ m <= chain.top /\ MaxHeight \in Nat
          /\ chain \in Chains /\ chain.top \in Nat /\ chain.top <= MaxHeight
      BY <1>1, <1>2, <1>3, IndexerAssumption, HeightTypes DEF Init, Heights
    <3>2. headers = [h \in Heights |-> IF h <= m THEN chain.at[h] ELSE NoBlock]
      BY <1>3 DEF IndexedUpTo
    <3>3. \A h \in Heights : h <= m => chain.at[h] # NoBlock
      BY <3>1, ChainsAssumption DEF Heights
    <3>4. \A h \in Heights : h <= m <=> h < m + 1
      BY <3>1 DEF Heights
    <3> QED BY <3>1, <3>2, <3>3, <3>4 DEF Full
  <2> QED BY <2>1
<1>5. /\ StoredChain \in Seq(Blocks) /\ Len(StoredChain) = n
      /\ \A i \in 1 .. n : StoredChain[i] = headers[i - 1]
  BY <1>2, <1>4, StoredChainIs, StackType, HeightTypes
<1>6. ASSUME NEW i \in 2 .. n, i - 1 \in CheckedHeights
      PROVE  Prev[StoredChain[i]] = StoredChain[i - 1]
  <2>1. i \in 1 .. n /\ i - 1 \in 1 .. n /\ i - 1 \in Heights /\ i - 1 < n
    BY <1>2, HeightTypes DEF Heights
  <2>2. StoredChain[i] = headers[i - 1] /\ StoredChain[i - 1] = headers[(i - 1) - 1]
    BY <1>5, <2>1
  <2>3. Prev[headers[i - 1]] = headers[(i - 1) - 1]
    BY <1>2, <1>4, <1>6, <2>1 DEF SafetyInv, Database, Stored, Full
  <2> QED BY <2>2, <2>3
<1>7. ~(faults < MaxFaults)
  BY <1>1, IndexerAssumption DEF Init
<1> QED BY <1>4, <1>5, <1>6, <1>7 DEF Counted, Ledger!Init

\* Every step is a step of the ledger.
LEMMA StepRefines ==
  ASSUME GrowingMoves, TypeInv, TypeInv', FaultFree, FaultFree', NoFault => Counted, [Next]_vars
  PROVE  /\ (NoFault => Counted)'
         /\ [Ledger!Next]_<<StoredChain, faults < MaxFaults>>
<1>1. faults \in Int /\ MaxFaults \in Int /\ faults' \in Int
  BY IndexerAssumption DEF TypeInv, TypeOK, ControlTypeOK
<1>2. CASE UNCHANGED vars
  <2>1. headers' = headers /\ faults' = faults
    BY <1>2 DEF vars, storeVars, boundVars
  <2> QED BY <2>1 DEF NoFault, Counted, Full, StoredChain
<1>3. CASE Next /\ faults' < MaxFaults
  BY <1>1, <1>3 DEF Ledger!Next, NoFault
<1>4. CASE Next /\ ~(faults' < MaxFaults)
  <2>1. faults' = MaxFaults /\ faults = MaxFaults
    BY <1>1, <1>4, FaultsCounted DEF FaultFree
  <2>2. SafetyInv /\ Counted
    BY <2>1 DEF FaultFree, NoFault
  <2>3. PICK n \in 0 .. MaxHeight + 1 : Full(headers, n)
    BY <2>2 DEF Counted
  <2>4. CASE headers' = headers
    BY <2>1, <2>3, <2>4, SameHeaders DEF Counted
  <2>5. CASE \E low \in Heights : Cut(low)
    BY <2>1, <2>3, <2>5, CutHeaders DEF Ledger!Next
  <2>6. CASE SaveBlock
    BY <2>2, <2>3, <2>6, SavedHeader DEF Ledger!Next
  <2> QED BY <1>4, <2>1, <2>2, <2>4, <2>5, <2>6, HeadersStep
<1> QED BY <1>2, <1>3, <1>4 DEF vars

\* As long as the best chain only grows or is replaced by a longer one, the
\* block headers a reader finds implement IndexedChain: across crashes and any
\* number of reorganisations, until a call fails, each write of a header
\* appends a block, linked to the last one where verifyChainReorgForBlock
\* looks, and each purge cuts the headers back to a prefix.
THEOREM IndexerRefinesLedger == ASSUME GrowingMoves PROVE Spec => RefinesLedger
<1>1. Init => Ledger!Init /\ Counted
  BY InitCounted
<1>2. /\ (TypeInv /\ FaultFree) /\ (TypeInv /\ FaultFree)' /\ (NoFault => Counted) /\ [Next]_vars
        => /\ (NoFault => Counted)'
           /\ [Ledger!Next]_<<StoredChain, faults < MaxFaults>>
  BY StepRefines
<1>3. Spec => [](TypeInv /\ FaultFree)
  BY GrowingChainSafe
<1>4. Init => (NoFault => Counted)
  BY <1>1
<1> QED BY <1>1, <1>2, <1>3, <1>4, PTL DEF Spec, RefinesLedger, Ledger!Spec
=============================================================================
