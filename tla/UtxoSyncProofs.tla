---------------------------- MODULE UtxoSyncProofs ----------------------------
(***************************************************************************)
(* UtxosExplained for every number of workers, block tree, margin, queue   *)
(* limit and number of downloads, reverts and failures.                    *)
(*                                                                         *)
(* The property speaks of the time between reverts.  What makes it         *)
(* inductive is what holds inside one (RevertSplits): how the workers that *)
(* have handled CHAIN_REORG differ from those that have not and from those *)
(* that wait for a write.  A live download is the only one for its height  *)
(* and its height has no block yet (LiveFresh), so that an answer never    *)
(* takes the place of one whose outputs are stored.                        *)
(***************************************************************************)
EXTENDS UtxoSync, TLAPS

\* The blocks that some chain has.
ChainBlocks == {b \in Blocks : \E c \in Chains, h \in Heights : c.at[h] = b}

\* Whatever the workers and the table hold was downloaded at its height.
FromChains ==
    /\ db \subseteq ChainBlocks
    /\ \A t \in Threads : queue[t] \subseteq ChainBlocks /\ saving[t] \subseteq ChainBlocks
    /\ \A f \in fetches : f.block # NoBlock =>
           f.block \in ChainBlocks /\ HeightOf(f.block) = f.height
    /\ \A h \in Heights : answered[h] # NoBlock => HeightOf(answered[h]) = h

\* The indexer has been answered, or waits, below nextHeight only, and waits for
\* one download of a height that has not been answered.
LiveFresh ==
    /\ \A h \in Heights : answered[h] # NoBlock => h < nextHeight
    /\ \A f \in fetches : f.live =>
           /\ ~revert.active
           /\ f.height < nextHeight
           /\ answered[f.height] = NoBlock
           /\ \A e \in fetches : e.live /\ e.height = f.height => e = f

\* A batch is there only while it is written.
BatchIsPending == \A t \in Threads : ~pendingSave[t] => saving[t] = {}

\* Nothing of another block but what is stale, as far as the revert has come;
\* between reverts nobody is to be told of one.
RevertSplits ==
    IF ~revert.active THEN revert.told = {}
    ELSE
        /\ \A h \in Heights : h >= revert.from => answered[h] = NoBlock
        /\ \A b \in (db \cup InMemory) \ stale :
               HeightOf(b) < revert.from => answered[HeightOf(b)] = b
        /\ \A t \in Threads \ revert.told :
               /\ \A b \in queue[t] \ stale : HeightOf(b) < revert.from
               /\ t \notin revert.waiting =>
                      \A b \in saving[t] \ stale : HeightOf(b) < revert.from

\* The inductive invariant.
Inv ==
    /\ TypeOK /\ FromChains /\ LiveFresh /\ BatchIsPending
    /\ UtxosKept /\ OrphansAreStale /\ RevertSplits

-----------------------------------------------------------------------------
(* Blocks and heights *)

\* HeightOf is the height at which every chain has the block.
LEMMA HeightOfChainBlock ==
  /\ \A c \in Chains, h \in Heights : c.at[h] # NoBlock =>
         c.at[h] \in ChainBlocks /\ HeightOf(c.at[h]) = h
  /\ \A b \in ChainBlocks : HeightOf(b) \in Heights
<1>1. ASSUME NEW c \in Chains, NEW h \in Heights, c.at[h] # NoBlock
      PROVE  c.at[h] \in ChainBlocks /\ HeightOf(c.at[h]) = h
  <2>1. c.at[h] \in Blocks
    BY <1>1, ChainsAssumption DEF Chain
  <2>2. \A k \in Heights : (\E d \in Chains : d.at[k] = c.at[h]) => k = h
    BY <1>1, OneHeightAssumption
  <2> QED BY <1>1, <2>1, <2>2 DEF ChainBlocks, HeightOf
<1>2. ASSUME NEW b \in ChainBlocks
      PROVE  HeightOf(b) \in Heights
  BY DEF ChainBlocks, HeightOf
<1> QED BY <1>1, <1>2

\* What getBlockHash answers.
LEMMA BlockHashOnChain ==
  ASSUME TypeOK, NEW h \in Heights, BlockHash(h) # NoBlock
  PROVE  BlockHash(h) \in ChainBlocks /\ HeightOf(BlockHash(h)) = h
  BY HeightOfChainBlock DEF TypeOK, NodeTypeOK, BlockHash

\* The batch that saveUTXOs takes is what was in memory.
LEMMA SaveUTXOsMoves ==
  ASSUME Inv, NEW t \in Threads, NEW q \in SUBSET Blocks, SaveUTXOs(t, q)
  PROVE  /\ queue' \in [Threads -> SUBSET Blocks] /\ saving' \in [Threads -> SUBSET Blocks]
         /\ pendingSave' \in [Threads -> BOOLEAN]
         /\ \A u \in Threads : ~pendingSave'[u] => saving'[u] = {}
         /\ \A u \in Threads \ {t} : queue'[u] = queue[u] /\ saving'[u] = saving[u]
         /\ \/ queue'[t] = q /\ saving'[t] = saving[t]
            \/ queue'[t] = {} /\ saving'[t] = q /\ saving[t] = {}
<1>1. /\ queue \in [Threads -> SUBSET Blocks] /\ saving \in [Threads -> SUBSET Blocks]
      /\ pendingSave \in [Threads -> BOOLEAN]
      /\ \A u \in Threads : ~pendingSave[u] => saving[u] = {}
  BY DEF Inv, TypeOK, BatchIsPending
<1>2. CASE pendingSave[t]
  <2>1. queue' = [queue EXCEPT ![t] = q] /\ saving' = saving /\ pendingSave' = pendingSave
    BY <1>2 DEF SaveUTXOs
  <2> QED BY <1>1, <2>1
<1>3. CASE ~pendingSave[t]
  <2>1. /\ saving' = [saving EXCEPT ![t] = q] /\ queue' = [queue EXCEPT ![t] = {}]
        /\ pendingSave' = [pendingSave EXCEPT ![t] = TRUE]
    BY <1>3 DEF SaveUTXOs
  <2>2. \A u \in Threads : ~pendingSave'[u] => saving'[u] = {}
    BY <1>1, <2>1
  <2> QED BY <1>1, <1>3, <2>1, <2>2
<1> QED BY <1>2, <1>3


-----------------------------------------------------------------------------
(* One lemma per action *)

LEMMA InitInv == Init => Inv
<1> SUFFICES ASSUME Init PROVE Inv
  OBVIOUS
<1>1. chain \in Chains /\ chain.top \in Heights /\ 0 \in Heights /\ 0 \in Threads
  BY ChainsAssumption, MaxHeightAssumption, UtxoSyncAssumption
  DEF Init, Chain, Heights, Threads
<1>2. revert \in Revert
  BY <1>1, Zenon DEF Init, NoRevert, Revert
<1>3. TypeOK
  BY <1>1, <1>2, MaxHeightAssumption, UtxoSyncAssumption
  DEF Init, TypeOK, NodeTypeOK, NoRevert
<1>4. db \cup InMemory = {} /\ ~revert.active /\ revert.told = {}
  BY DEF Init, InMemory, NoRevert
<1> QED BY <1>3, <1>4
  DEF Init, Inv, FromChains, LiveFresh, BatchIsPending, UtxosKept, OrphansAreStale, RevertSplits

\* What neither moves outputs nor changes downloads and reverts keeps Inv.
LEMMA FrameInv ==
  ASSUME Inv, TypeOK',
         UNCHANGED <<nextHeight, answered, revert, fetches, memoryVars, db, historyVars>>
  PROVE  Inv'
  BY DEF Inv, FromChains, LiveFresh, BatchIsPending, UtxosKept, OrphansAreStale,
         RevertSplits, InMemory, memoryVars, historyVars

LEMMA BitcoinStepInv ==
  ASSUME Inv, BitcoinStep
  PROVE  Inv'
<1>1. TypeOK'
  BY DEF Inv, TypeOK, NodeTypeOK, BitcoinStep, SwitchChain, indexerVars, memoryVars,
         loopVars, historyVars, boundVars
<1> QED BY <1>1, FrameInv DEF BitcoinStep, indexerVars

\* The height that is asked for has not been answered and nobody asks for it.
LEMMA DeserializeBlockInv ==
  ASSUME Inv, DeserializeBlock
  PROVE  Inv'
<1> DEFINE new == [thread |-> turn, height |-> nextHeight, block |-> NoBlock, live |-> TRUE]
<1> USE DEF DeserializeBlock, nodeVars, memoryVars, loopVars, historyVars, boundVars
<1>1. nextHeight \in Heights /\ nextHeight < nextHeight'
  BY ChainsAssumption, MaxHeightAssumption DEF Inv, TypeOK, NodeTypeOK, Chain, Heights
<1>2. new \in Fetch
  BY <1>1 DEF Inv, TypeOK, Fetch
<1>3. turn' \in Threads
  BY UtxoSyncAssumption DEF Inv, TypeOK, Threads
<1>4. nextHeight' \in 0 .. MaxHeight + 1
  BY <1>1, MaxHeightAssumption DEF Heights
<1>5. TypeOK'
  BY <1>1, <1>2, <1>3, <1>4 DEF Inv, TypeOK, NodeTypeOK
<1>6. FromChains' /\ BatchIsPending' /\ UtxosKept' /\ OrphansAreStale' /\ RevertSplits'
  BY DEF Inv, FromChains, BatchIsPending, UtxosKept, OrphansAreStale, RevertSplits, InMemory
<1>7. LiveFresh'
  <2>1. fetches' = fetches \cup {new} /\ UNCHANGED <<answered, revert>> /\ ~revert.active
    OBVIOUS
  <2>2. answered[nextHeight] = NoBlock
    BY <1>1 DEF Inv, LiveFresh, Heights
  <2>3. ASSUME NEW h \in Heights, answered'[h] # NoBlock PROVE h < nextHeight'
    BY <1>1, <2>1, <2>3, MaxHeightAssumption DEF Inv, LiveFresh, Heights
  <2>4. ASSUME NEW f \in fetches', f.live
        PROVE  /\ f.height < nextHeight' /\ answered'[f.height] = NoBlock
               /\ \A e \in fetches' : e.live /\ e.height = f.height => e = f
    <3>1. CASE f \in fetches
      <4>1. f.height < nextHeight /\ f.height \in Heights
        BY <2>4, <3>1 DEF Inv, LiveFresh, TypeOK, Fetch
      <4> QED BY <1>1, <2>1, <2>4, <3>1, <4>1, MaxHeightAssumption
          DEF Inv, LiveFresh, Heights
    <3>2. CASE f = new
      <4>1. \A e \in fetches : e.live => e.height < nextHeight /\ e.height \in Heights
        BY DEF Inv, LiveFresh, TypeOK, Fetch
      <4> QED BY <1>1, <2>1, <2>2, <3>2, <4>1, MaxHeightAssumption DEF Heights
    <3> QED BY <2>1, <3>1, <3>2
  <2> QED BY <2>1, <2>3, <2>4 DEF LiveFresh
<1> QED BY <1>5, <1>6, <1>7 DEF Inv

\* A download that ends with an error leaves the others as they were.
LEMMA RejectInv ==
  ASSUME Inv, NEW f \in fetches, Reject(f), faults' \in Nat
  PROVE  Inv'
<1> USE DEF Reject, nodeVars, memoryVars, loopVars, historyVars
<1>1. TypeOK'
  BY DEF Inv, TypeOK, NodeTypeOK, Fetch
<1> QED BY <1>1
  DEF Inv, FromChains, LiveFresh, BatchIsPending, UtxosKept, OrphansAreStale,
      RevertSplits, InMemory

\* The hash is that of the height the download is for.
LEMMA GetBlockHashInv ==
  ASSUME Inv, NEW f \in fetches, GetBlockHash(f)
  PROVE  Inv'
<1>1. CASE BlockHash(f.height) = NoBlock
  <2>1. Reject(f) /\ faults' = faults
    BY <1>1 DEF GetBlockHash
  <2> QED BY <2>1, RejectInv DEF Inv, TypeOK
<1>2. CASE BlockHash(f.height) # NoBlock
  <2> DEFINE g == [f EXCEPT !.block = BlockHash(f.height)]
  <2>1. /\ fetches' = (fetches \ {f}) \cup {g}
        /\ UNCHANGED <<nodeVars, indexerVars, lastBlockHash, memoryVars, loopVars,
                       bestTip, db, historyVars, boundVars>>
    BY <1>2 DEF GetBlockHash
  <2>2. f \in Fetch /\ f.height \in Heights
    BY DEF Inv, TypeOK, Fetch
  <2>3. g.block \in ChainBlocks /\ HeightOf(g.block) = f.height
    BY <1>2, <2>2, BlockHashOnChain DEF Inv, Fetch
  <2>4. g \in Fetch /\ g.height = f.height /\ g.live = f.live /\ g.block \in Blocks
    BY <2>2, <2>3 DEF Fetch, ChainBlocks
  <2> HIDE DEF g
  <2> USE DEF nodeVars, indexerVars, memoryVars, loopVars, historyVars, boundVars
  <2>5. TypeOK'
    BY <2>1, <2>4 DEF Inv, TypeOK, NodeTypeOK
  <2>6. FromChains'
    BY <2>1, <2>3, <2>4 DEF Inv, FromChains
  <2>7. LiveFresh'
    BY <2>1, <2>4 DEF Inv, LiveFresh
  <2>8. BatchIsPending' /\ UtxosKept' /\ OrphansAreStale' /\ RevertSplits'
    BY <2>1 DEF Inv, BatchIsPending, UtxosKept, OrphansAreStale, RevertSplits, InMemory
  <2> QED BY <2>5, <2>6, <2>7, <2>8 DEF Inv
<1> QED BY <1>1, <1>2

\* The outputs of a block go to memory, and the block to the indexer if it still
\* waits for it; if not they are stale.
LEMMA QueryUTXOsInv ==
  ASSUME Inv, NEW f \in fetches, QueryUTXOs(f)
  PROVE  Inv'
<1> DEFINE t == f.thread
           added == IF f.height = 0 THEN {} ELSE {f.block}
           q == queue[t] \cup added
<1>1. f \in Fetch /\ t \in Threads /\ f.height \in Heights
  BY DEF Inv, TypeOK, Fetch
<1>2. f.block \in ChainBlocks /\ f.block \in Blocks /\ f.block # NoBlock
      /\ HeightOf(f.block) = f.height
  BY BlocksAssumption DEF QueryUTXOs, Inv, FromChains, ChainBlocks
<1>3. q \in SUBSET Blocks
  BY <1>1, <1>2 DEF Inv, TypeOK
<1>4. /\ queue' \in [Threads -> SUBSET Blocks] /\ saving' \in [Threads -> SUBSET Blocks]
      /\ pendingSave' \in [Threads -> BOOLEAN]
      /\ \A u \in Threads : ~pendingSave'[u] => saving'[u] = {}
      /\ \A u \in Threads \ {t} : queue'[u] = queue[u] /\ saving'[u] = saving[u]
      /\ \/ queue'[t] = q /\ saving'[t] = saving[t]
         \/ queue'[t] = {} /\ saving'[t] = q /\ saving[t] = {}
  <2>1. CASE SaveUTXOs(t, q)
    <3> HIDE DEF q
    <3> QED BY <1>1, <1>3, <2>1, SaveUTXOsMoves
  <2>2. CASE queue' = [queue EXCEPT ![t] = q] /\ UNCHANGED <<saving, pendingSave>>
    BY <1>1, <1>3, <2>2 DEF Inv, TypeOK, BatchIsPending
  <2> QED BY <2>1, <2>2 DEF QueryUTXOs
<1>5. InMemory' = InMemory \cup added
  BY <1>1, <1>4 DEF InMemory
<1>6. /\ lastBlockHash' = [lastBlockHash EXCEPT ![t] = f.block]
      /\ fetches' = fetches \ {f}
      /\ answered' = IF f.live THEN [answered EXCEPT ![f.height] = f.block] ELSE answered
      /\ stale' = IF f.live THEN stale ELSE stale \cup {f.block}
      /\ UNCHANGED <<nodeVars, nextHeight, turn, broken, revert, loopVars, bestTip,
                     db, lost, boundVars>>
  BY DEF QueryUTXOs
<1> HIDE DEF q, t
<1> USE DEF nodeVars, loopVars, boundVars
<1>7. TypeOK'
  BY <1>1, <1>2, <1>4, <1>6 DEF Inv, TypeOK, NodeTypeOK
<1>8. FromChains'
  <2>1. \A u \in Threads : queue'[u] \subseteq ChainBlocks /\ saving'[u] \subseteq ChainBlocks
    BY <1>1, <1>2, <1>4 DEF Inv, FromChains, q, t
  <2>2. \A h \in Heights : answered'[h] # NoBlock => HeightOf(answered'[h]) = h
    BY <1>1, <1>2, <1>6 DEF Inv, FromChains, TypeOK
  <2> QED BY <1>6, <2>1, <2>2 DEF Inv, FromChains
<1>9. LiveFresh'
  BY <1>1, <1>2, <1>6 DEF Inv, LiveFresh, TypeOK, Fetch
<1>10. BatchIsPending'
  BY <1>4 DEF BatchIsPending
<1>11. UtxosKept'
  <2> SUFFICES ASSUME NEW h \in Heights \ {0}, answered'[h] # NoBlock
               PROVE  answered'[h] \in (db \cup InMemory \cup lost)'
    BY DEF UtxosKept
  <2>1. CASE answered'[h] = answered[h]
    BY <1>5, <1>6, <2>1 DEF Inv, UtxosKept
  <2>2. CASE f.live /\ h = f.height
    BY <1>1, <1>5, <1>6, <2>2 DEF Inv, TypeOK
  <2> QED BY <1>6, <2>1, <2>2 DEF Inv, TypeOK
<1>12. OrphansAreStale'
  <2> SUFFICES ASSUME ~revert.active, NEW b \in ((db \cup InMemory) \ stale)'
               PROVE  answered'[HeightOf(b)] = b
    BY <1>6 DEF OrphansAreStale
  <2>1. CASE b = f.block
    <3>1. f.live
      BY <1>6, <2>1
    <3> QED BY <1>1, <1>2, <1>6, <2>1, <3>1 DEF Inv, TypeOK
  <2>2. CASE b # f.block
    <3>1. b \in (db \cup InMemory) \ stale
      BY <1>5, <1>6, <2>2
    <3>2. answered[HeightOf(b)] = b /\ b # NoBlock
      BY <3>1, BlocksAssumption DEF Inv, OrphansAreStale, FromChains, TypeOK, InMemory
    <3>3. f.live => answered[f.height] = NoBlock
      BY DEF Inv, LiveFresh
    <3> QED BY <1>1, <1>6, <3>2, <3>3 DEF Inv, TypeOK
  <2> QED BY <2>1, <2>2
<1>13. RevertSplits'
  <2> SUFFICES ASSUME revert.active PROVE RevertSplits'
    BY <1>6 DEF Inv, RevertSplits
  <2>1. ~f.live /\ answered' = answered /\ stale' = stale \cup {f.block} /\ revert' = revert
    BY <1>6 DEF Inv, LiveFresh
  <2>2. \A u \in Threads : /\ queue'[u] \ stale' \subseteq queue[u] \ stale
                           /\ \/ saving'[u] = saving[u]
                              \/ saving'[u] \ stale' \subseteq queue[u] \ stale
    BY <1>1, <1>4, <2>1 DEF q, t
  <2>3. (db \cup InMemory)' \ stale' \subseteq (db \cup InMemory) \ stale
    BY <1>5, <1>6, <2>1
  <2> QED BY <2>1, <2>2, <2>3 DEF Inv, RevertSplits
<1> QED BY <1>7, <1>8, <1>9, <1>10, <1>11, <1>12, <1>13 DEF Inv

\* Outputs that change their place in the memory of a worker stay explained.
LEMMA StartSaveLoopInv ==
  ASSUME Inv, NEW t \in Threads, StartSaveLoop(t)
  PROVE  Inv'
<1>1. /\ queue' \in [Threads -> SUBSET Blocks] /\ saving' \in [Threads -> SUBSET Blocks]
      /\ pendingSave' \in [Threads -> BOOLEAN]
      /\ \A u \in Threads : ~pendingSave'[u] => saving'[u] = {}
      /\ \A u \in Threads \ {t} : queue'[u] = queue[u] /\ saving'[u] = saving[u]
      /\ \/ queue'[t] = queue[t] /\ saving'[t] = saving[t]
         \/ queue'[t] = {} /\ saving'[t] = queue[t] /\ saving[t] = {}
  <2>1. CASE SaveUTXOs(t, queue[t])
    <3>1. queue[t] \in SUBSET Blocks
      BY DEF Inv, TypeOK
    <3> QED BY <2>1, <3>1, SaveUTXOsMoves
  <2>2. CASE UNCHANGED memoryVars
    BY <2>2 DEF Inv, TypeOK, BatchIsPending, memoryVars
  <2> QED BY <2>1, <2>2 DEF StartSaveLoop, memoryVars
<1>2. loopWaits' \in [Threads -> BOOLEAN] /\ currentBlock' \in [Threads -> Heights]
  BY ChainsAssumption
  DEF StartSaveLoop, Inv, TypeOK, NodeTypeOK, BlockCount, Chain
<1>3. UNCHANGED <<nodeVars, indexerVars, fetches, lastBlockHash, bestTip, db,
                  historyVars, boundVars>>
  BY DEF StartSaveLoop
<1> USE DEF nodeVars, indexerVars, historyVars, boundVars
<1>4. InMemory' = InMemory
  BY <1>1 DEF InMemory
<1>5. TypeOK'
  BY <1>1, <1>2, <1>3 DEF Inv, TypeOK, NodeTypeOK
<1>6. FromChains' /\ LiveFresh' /\ BatchIsPending'
  BY <1>1, <1>3 DEF Inv, FromChains, LiveFresh, BatchIsPending
<1>7. UtxosKept' /\ OrphansAreStale'
  BY <1>3, <1>4 DEF Inv, UtxosKept, OrphansAreStale
<1>8. RevertSplits'
  BY <1>1, <1>3, <1>4 DEF Inv, RevertSplits
<1> QED BY <1>5, <1>6, <1>7, <1>8 DEF Inv

\* A write ends: its batch is in the table or, after a failure, partly lost.
LEMMA SaveEndsInv ==
  ASSUME Inv, NEW t \in Threads, SaveEnds(t), NEW written \in SUBSET saving[t],
         db' = db \cup written, lost' = lost \cup (saving[t] \ written), faults' \in Nat
  PROVE  Inv'
<1> USE DEF SaveEnds, nodeVars, indexerVars
<1>1. TypeOK'
  BY DEF Inv, TypeOK, NodeTypeOK
<1>2. FromChains' /\ LiveFresh' /\ BatchIsPending'
  BY DEF Inv, TypeOK, FromChains, LiveFresh, BatchIsPending
<1>3. /\ (db \cup InMemory)' \subseteq db \cup InMemory
      /\ db \cup InMemory \cup lost \subseteq (db \cup InMemory \cup lost)'
  BY DEF Inv, TypeOK, InMemory
<1>4. UtxosKept' /\ OrphansAreStale'
  BY <1>3 DEF Inv, UtxosKept, OrphansAreStale
<1>5. \A u \in Threads : queue'[u] = queue[u] /\ saving'[u] \subseteq saving[u]
  BY DEF Inv, TypeOK
<1>6. RevertSplits'
  BY <1>3, <1>5 DEF Inv, RevertSplits
<1> QED BY <1>1, <1>2, <1>4, <1>6 DEF Inv

LEMMA SavedInv ==
  ASSUME Inv, NEW t \in Threads, Saved(t)
  PROVE  Inv'
<1>1. saving[t] \in SUBSET saving[t] /\ lost' = lost \cup (saving[t] \ saving[t])
  BY DEF Saved
<1> QED BY <1>1, SaveEndsInv DEF Saved, Inv, TypeOK

LEMMA SaveFailsInv ==
  ASSUME Inv, NEW t \in Threads, SaveFails(t)
  PROVE  Inv'
<1>1. faults' \in Nat
  BY DEF SaveFails, Inv, TypeOK
<1> QED BY <1>1, SaveEndsInv DEF SaveFails

\* A revert begins: no download is live any more, and every worker is to be told.
LEMMA NotifyThreadReorgInv ==
  ASSUME Inv, NEW from \in Heights, NotifyThreadReorg(from)
  PROVE  Inv'
<1> USE DEF NotifyThreadReorg, nodeVars, memoryVars, loopVars, historyVars
<1>1. revert' \in Revert /\ revert'.active /\ revert'.from = from /\ revert'.told = Threads
  BY DEF Revert
<1>2. ASSUME NEW f \in fetches' PROVE f \in Fetch /\ ~f.live
  <2>1. PICK e \in fetches : f = [e EXCEPT !.live = FALSE]
    OBVIOUS
  <2>2. e \in Fetch
    BY DEF Inv, TypeOK
  <2> QED BY <2>1, <2>2 DEF Fetch
<1>3. TypeOK'
  BY <1>1, <1>2 DEF Inv, TypeOK, NodeTypeOK
<1>4. FromChains'
  <2>1. ASSUME NEW f \in fetches', f.block # NoBlock
        PROVE  f.block \in ChainBlocks /\ HeightOf(f.block) = f.height
    <3>1. PICK e \in fetches : f = [e EXCEPT !.live = FALSE]
      OBVIOUS
    <3>2. f.block = e.block /\ f.height = e.height
      BY <3>1 DEF Inv, TypeOK, Fetch
    <3> QED BY <2>1, <3>2 DEF Inv, FromChains
  <2> QED BY <2>1 DEF Inv, FromChains
<1>5. LiveFresh' /\ BatchIsPending'
  BY <1>2 DEF Inv, LiveFresh, BatchIsPending
<1>6. InMemory' = InMemory /\ db' = db /\ stale' = stale /\ lost' = lost
  BY DEF InMemory
<1>7. UtxosKept' /\ OrphansAreStale'
  BY <1>1, <1>6 DEF Inv, UtxosKept, OrphansAreStale
<1>8. RevertSplits'
  <2>1. ASSUME NEW b \in (db \cup InMemory) \ stale, HeightOf(b) < from
        PROVE  answered'[HeightOf(b)] = b
    <3>1. b \in ChainBlocks /\ answered[HeightOf(b)] = b
      BY DEF Inv, FromChains, OrphansAreStale, InMemory
    <3>2. HeightOf(b) \in Heights
      BY <3>1, HeightOfChainBlock
    <3> QED BY <2>1, <3>1, <3>2
  <2>2. \A h \in Heights : h >= from => answered'[h] = NoBlock
    BY DEF Heights
  <2> QED BY <1>1, <1>6, <2>1, <2>2 DEF RevertSplits
<1> QED BY <1>3, <1>4, <1>5, <1>7, <1>8 DEF Inv

\* A worker drops what is at or above the height; without a write under way it
\* is done.
LEMMA OnReorgInv ==
  ASSUME Inv, NEW t \in Threads, OnReorg(t)
  PROVE  Inv'
<1> USE DEF OnReorg, nodeVars, loopVars, historyVars, boundVars
<1>1. /\ revert' \in Revert /\ revert'.active = revert.active /\ revert'.from = revert.from
      /\ revert'.told = revert.told \ {t}
      /\ \A u \in Threads \ {t} : u \in revert'.waiting <=> u \in revert.waiting
      /\ pendingSave[t] => t \in revert'.waiting
  BY DEF Inv, TypeOK, Revert
<1>2. /\ queue' \in [Threads -> SUBSET Blocks]
      /\ queue'[t] = {b \in queue[t] : HeightOf(b) < revert.from}
      /\ \A u \in Threads \ {t} : queue'[u] = queue[u]
      /\ UNCHANGED <<saving, pendingSave>>
  BY DEF Inv, TypeOK, Below
<1>3. InMemory' \subseteq InMemory
  BY <1>2 DEF InMemory
<1>4. TypeOK'
  BY <1>1, <1>2 DEF Inv, TypeOK, NodeTypeOK
<1>5. FromChains' /\ LiveFresh' /\ BatchIsPending'
  BY <1>1, <1>2 DEF Inv, FromChains, LiveFresh, BatchIsPending
<1>6. revert.active
  BY DEF Inv, RevertSplits
<1>7. UtxosKept'
  <2> SUFFICES ASSUME NEW h \in Heights \ {0}, answered[h] # NoBlock,
                      answered[h] \in InMemory, answered[h] \notin InMemory'
               PROVE  FALSE
    BY DEF Inv, UtxosKept
  <2>1. h < revert.from /\ HeightOf(answered[h]) = h
    BY <1>6 DEF Inv, RevertSplits, FromChains, TypeOK, Revert, Heights
  <2> QED BY <1>2, <2>1 DEF InMemory
<1>8. OrphansAreStale'
  BY <1>1, <1>6 DEF OrphansAreStale
<1>9. RevertSplits'
  <2>1. \A b \in queue'[t] \ stale : HeightOf(b) < revert.from
    BY <1>2
  <2>2. t \notin revert'.waiting => saving[t] = {}
    BY <1>1 DEF Inv, BatchIsPending
  <2> QED BY <1>1, <1>2, <1>3, <1>6, <2>1, <2>2 DEF Inv, RevertSplits
<1> QED BY <1>4, <1>5, <1>7, <1>8, <1>9 DEF Inv

\* A worker has answered, or its answer is given up and its batch is stale.
LEMMA AwaitUTXOWritesInv ==
  ASSUME Inv, NEW t \in Threads, AwaitUTXOWrites(t) \/ ReorgTimesOut(t)
  PROVE  Inv'
<1> USE DEF AwaitUTXOWrites, ReorgTimesOut, nodeVars, memoryVars, loopVars, historyVars,
            boundVars
<1>1. /\ revert' \in Revert /\ revert'.active = revert.active /\ revert'.from = revert.from
      /\ revert'.told = revert.told /\ revert'.waiting = revert.waiting \ {t}
  BY DEF Inv, TypeOK, Revert
<1>2. stale \subseteq stale' /\ stale' \subseteq Blocks /\ saving[t] \subseteq stale'
  BY DEF Inv, TypeOK, BatchIsPending
<1>3. faults' \in Nat
  BY DEF Inv, TypeOK
<1>4. TypeOK'
  BY <1>1, <1>2, <1>3 DEF Inv, TypeOK, NodeTypeOK
<1>5. FromChains' /\ LiveFresh' /\ BatchIsPending' /\ UtxosKept'
  BY <1>1 DEF Inv, FromChains, LiveFresh, BatchIsPending, UtxosKept, InMemory
<1>6. OrphansAreStale' /\ RevertSplits'
  BY <1>1, <1>2 DEF Inv, OrphansAreStale, RevertSplits, InMemory
<1> QED BY <1>4, <1>5, <1>6 DEF Inv

\* After the purge the revert is over and what is left lies below it.
LEMMA RevertDataUntilBlockInv ==
  ASSUME Inv, RevertDataUntilBlock
  PROVE  Inv'
<1> USE DEF RevertDataUntilBlock, nodeVars, memoryVars, loopVars, historyVars, boundVars
<1>1. revert.from \in Heights /\ revert' \in Revert /\ ~revert'.active
      /\ revert'.told = {} /\ revert'.waiting = {}
  BY MaxHeightAssumption DEF Inv, TypeOK, Revert, NoRevert, Heights
<1>2. db' = {b \in db : HeightOf(b) < revert.from}
  BY DEF Below
<1>3. TypeOK'
  BY <1>1, <1>2, MaxHeightAssumption DEF Inv, TypeOK, NodeTypeOK, Heights
<1>4. FromChains' /\ BatchIsPending'
  BY <1>2 DEF Inv, FromChains, BatchIsPending
<1>5. \A h \in Heights : answered[h] # NoBlock => h < revert.from
  BY <1>1 DEF Inv, RevertSplits, Heights
<1>6. LiveFresh'
  BY <1>5 DEF Inv, LiveFresh
<1>7. UtxosKept'
  BY <1>2, <1>5 DEF Inv, UtxosKept, FromChains, InMemory
<1>8. OrphansAreStale'
  BY <1>1, <1>2 DEF Inv, OrphansAreStale, RevertSplits, InMemory
<1>9. RevertSplits'
  BY <1>1 DEF RevertSplits
<1> QED BY <1>3, <1>4, <1>6, <1>7, <1>8, <1>9 DEF Inv

-----------------------------------------------------------------------------
(* The theorem *)

\* Every step keeps the invariant.
LEMMA NextInv == Inv /\ [Next]_vars => Inv'
<1> SUFFICES ASSUME Inv, [Next]_vars PROVE Inv'
  OBVIOUS
<1>1. CASE BitcoinStep
  BY <1>1, BitcoinStepInv
<1>2. CASE DeserializeBlock
  BY <1>2, DeserializeBlockInv
<1>3. ASSUME NEW f \in fetches, GetBlockHash(f) PROVE Inv'
  BY <1>3, GetBlockHashInv
<1>4. ASSUME NEW f \in fetches, QueryUTXOs(f) PROVE Inv'
  BY <1>4, QueryUTXOsInv
<1>5. ASSUME NEW f \in fetches, FetchedTwice(f) \/ DownloadFails(f) PROVE Inv'
  <2>1. Reject(f) /\ faults' \in Nat
    BY <1>5 DEF FetchedTwice, DownloadFails, Inv, TypeOK
  <2> QED BY <2>1, RejectInv
<1>6. ASSUME NEW t \in Threads, StartSaveLoop(t) PROVE Inv'
  BY <1>6, StartSaveLoopInv
<1>7. ASSUME NEW t \in Threads, Saved(t) \/ SaveFails(t) PROVE Inv'
  BY <1>7, SavedInv, SaveFailsInv
<1>8. ASSUME NEW from \in Heights, NotifyThreadReorg(from) PROVE Inv'
  BY <1>8, NotifyThreadReorgInv
<1>9. ASSUME NEW t \in Threads, OnReorg(t) PROVE Inv'
  BY <1>9, OnReorgInv
<1>10. ASSUME NEW t \in Threads, AwaitUTXOWrites(t) \/ ReorgTimesOut(t) PROVE Inv'
  BY <1>10, AwaitUTXOWritesInv
<1>11. CASE RevertDataUntilBlock
  BY <1>11, RevertDataUntilBlockInv
<1>12. CASE UNCHANGED vars
  <2>1. TypeOK'
    BY <1>12 DEF Inv, TypeOK, NodeTypeOK, vars, nodeVars, indexerVars, memoryVars,
                 loopVars, historyVars, boundVars
  <2> QED BY <1>12, <2>1, FrameInv DEF vars, indexerVars
<1> QED BY <1>1, <1>2, <1>3, <1>4, <1>5, <1>6, <1>7, <1>8, <1>9, <1>10, <1>11, <1>12
  DEF Next, Download, Handshake

(***************************************************************************)
(* ChainSynchronisation neither loses outputs of a block it has given to   *)
(* the indexer nor keeps, between two reverts, outputs of another block,   *)
(* but for a failed write, a download that was under way when CHAIN_REORG  *)
(* came, and a worker that took more than 240 seconds to answer it: with   *)
(* any number of workers, downloads, reorganisations and reverts.          *)
(***************************************************************************)
THEOREM OutputsAreExplained == Spec => []UtxosExplained
<1>1. Inv => UtxosExplained
  BY DEF Inv, UtxosExplained
<1> QED BY <1>1, InitInv, NextInv, PTL DEF Spec
=============================================================================
