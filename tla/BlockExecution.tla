---------------------------- MODULE BlockExecution ----------------------------
(***************************************************************************)
(* The execution of a block: Block, driven by an IndexingTask, over the    *)
(* virtual machine of ContractVM.  The block is parsed and sorted, its     *)
(* OP_NET transactions run one after the other, keys, pointers and         *)
(* transactions are written in steps of their own, and a step that fails   *)
(* takes the block back.                                                   *)
(*                                                                         *)
(* The generic transactions are saved while the others run; they have no   *)
(* rows here, only the abort their failure causes.  Epoch submissions are  *)
(* in Epochs; the cancellation of a running task by a reorganisation is in *)
(* BlockIndexer, so a reorganisation comes between two blocks here.        *)
(***************************************************************************)
EXTENDS ExecutionReference, BlockCommitments

CONSTANTS Chains,      \* the chains Bitcoin may have
          Stressed,    \* those on which crashes and failures are explored
          MaxLength,   \* the length of the longest chain
          MaxCrashes, MaxReorgs, MaxFaults

VARIABLES blk,      \* the block being processed
          chain,    \* what Bitcoin says
          pending,  \* pendingBlockHeight
          halted,   \* no task is started again
          commits,  \* the headers, and the proofs stored with slots and receipts
          marks,    \* ghost: transactions that met a database failure
          phantom,  \* ghost: heights where the insertion of a contract failed
          budget    \* crashes and reorganisations still to come

vars == <<db, vm, ev, faults, blk, chain, pending, halted, commits, marks, phantom, budget>>

NoBlock == [phase |-> "idle", order |-> <<>>, queue |-> <<>>, step |-> "link",
            gas |-> 0, aborted |-> FALSE, generic |-> "none", opnet |-> "none",
            storage |-> <<>>, receipts |-> <<>>, header |-> Nil]

NoCommits == [headers |-> <<>>, pointers |-> {}, receipts |-> {}]

Init ==
  /\ db = [pointers |-> {}, contracts |-> {}, keys |-> {}, txs |-> {}]
  /\ vm = NoVM
  /\ ev = Nil
  /\ faults \in 0 .. MaxFaults
  /\ blk = NoBlock
  /\ chain \in Chains
  /\ pending = 1
  /\ halted = FALSE
  /\ commits = NoCommits
  /\ marks = {}
  /\ phantom = {}
  /\ budget \in {[crashes |-> 0, reorgs |-> 0], [crashes |-> MaxCrashes, reorgs |-> 0],
                 [crashes |-> 0, reorgs |-> MaxReorgs]}
  /\ faults > 0 => budget = [crashes |-> 0, reorgs |-> 0]
  /\ faults > 0 \/ budget # [crashes |-> 0, reorgs |-> 0] => chain \in Stressed

outside == <<chain, pending, halted, budget, commits>>
bitcoin == <<chain, pending, halted, budget>>
ghosts == <<marks, phantom>>
Phase(p) == blk.phase = p
Goto(p) == [blk EXCEPT !.phase = p]

-----------------------------------------------------------------------------
(* Starting a block: parse, sort, prepare the virtual machine, begin to    *)
(* save the generic transactions.                                          *)

(* A block that did not end well in the virtual machine refuses the next.  *)
Prepared == vm.open \/ vm.height # 0

(* revertBlock and terminateBlock reset the height and clear the caches.   *)
Completed == NoVM

PrepareBlock(h) == [NoVM EXCEPT !.height = h, !.open = TRUE]

Generic(order) == \E i \in 1 .. Len(order) : order[i].kind = "generic"

(* The transactions of every block in order, computed once. *)
Deserialized ==
  LET places == {p \in Chains \X (1 .. MaxLength) : p[2] <= Len(p[1])}
  IN  [b \in {p[1][p[2]] : p \in places} |-> Deserialize(b)]

StartBlock ==
  /\ Phase("idle") /\ ~halted /\ pending <= Len(chain)
  /\ \E order \in {Deserialized[chain[pending]]} :
       /\ blk' = [NoBlock EXCEPT
                    !.phase = IF Prepared THEN "reverting" ELSE "tx",
                    !.order = order,
                    !.queue = SeparateGenericTransactions(order),
                    !.generic = IF ~Prepared /\ Generic(order) THEN "pending" ELSE "none"]
       /\ vm' = IF Prepared THEN vm ELSE PrepareBlock(pending)
  /\ UNCHANGED <<db, ev, faults, outside, ghosts>>

(* The promise of the generic transactions: its failure is caught and      *)
(* aborts the block.                                                       *)
SaveGenericTransactions ==
  /\ blk.generic = "pending"
  /\ \E bad \in BOOLEAN :
       /\ Answer(bad)
       /\ blk' = [blk EXCEPT !.generic = "none", !.aborted = @ \/ bad]
  /\ UNCHANGED <<db, vm, ev, outside, ghosts>>

-----------------------------------------------------------------------------
(* A transaction.                                                          *)

Tx == Head(blk.queue)
AtStep(s) == Phase("tx") /\ ev = Nil /\ blk.queue # <<>> /\ blk.step = s
Mark(step, gas) == marks' = marks \cup {[at |-> vm.height, id |-> Tx.id,
                                         step |-> step, gas |-> gas]}

UpdateReceipt(m, ok) == [m EXCEPT !.receipts = UpdateValue(@, Tx.id, ok)]

(* The next transaction, unless the block was aborted meanwhile. *)
NextTransaction(gas) ==
  [blk EXCEPT !.queue = Tail(@), !.step = "link", !.gas = @ + gas,
              !.phase = IF blk.aborted THEN "reverting" ELSE @]

ProcessTransactionFailure(m) ==
  /\ vm' = UpdateReceipt(m, FALSE)
  /\ blk' = NextTransaction(PanicGas)

CheckConstraintsBlock == blk.gas <= BlockGas /\ ~Tx.coinbase

(* The signature of the legacy key, and that of the ML-DSA key when it is  *)
(* exposed.                                                                *)
VerifyMLDSASignature == Request(Tx).expose => Sound(Tx, {"mldsaSignature"})
ValidSignatures == Sound(Tx, {"legacySignature"}) /\ VerifyMLDSASignature

(* A link request that is allowed is pending from now on, whatever becomes *)
(* of the transaction.                                                     *)
RequestLink ==
  LET k == Request(Tx).hash
      asks == ValidSignatures /\ ValidateMLDSALinkRequest(k, Tx.legacy)
                /\ ~Duplicate(k, Tx.legacy)
      may == /\ ValidSignatures /\ ValidateMLDSALinkRequest(k, Tx.legacy)
             /\ asks => ShouldInsertMLDSAKey(k, Tx.legacy)
  IN  \E bad \in BOOLEAN :
        /\ bad => asks
        /\ Answer(bad)
        /\ IF bad THEN Mark("link", 0) ELSE UNCHANGED marks
        /\ IF may /\ ~bad
           THEN /\ vm' = AddMLDSAInfoToStore(vm, k, Tx.legacy, Request(Tx).expose)
                /\ blk' = [blk EXCEPT !.step = "lookup"]
           ELSE ProcessTransactionFailure(vm)

(* Without a request the sender needs a link made before. *)
RegenerateProvenance ==
  \E bad \in BOOLEAN :
    /\ bad => LegacyAsked(Tx.legacy)
    /\ Answer(bad)
    /\ LET key == IF bad THEN Failed ELSE GetMLDSAPublicKeyFromLegacyKey(Tx.legacy)
           m == CacheLegacy(vm, Tx.legacy, bad)
       IN  /\ IF key = Failed THEN Mark("link", 0) ELSE UNCHANGED marks
           /\ IF key \in {Nil, Failed} THEN ProcessTransactionFailure(m)
              ELSE vm' = m /\ blk' = [blk EXCEPT !.step = "lookup"]

AssignMLDSAToLegacy ==
  /\ AtStep("link") /\ CheckConstraintsBlock
  /\ IF Tx.link = {} THEN RegenerateProvenance ELSE RequestLink
  /\ UNCHANGED <<db, ev, outside, phantom>>

RefuseTransaction ==
  /\ AtStep("link") /\ ~CheckConstraintsBlock
  /\ ProcessTransactionFailure(vm)
  /\ UNCHANGED <<db, ev, faults, outside, ghosts>>

(* The address is looked up, whatever the height of its row; then the      *)
(* contract itself, where a failure is taken for a missing contract.       *)
MayRun == Tx.gas > 0 /\ Tx.utxos <= MaxUTXOs

ExecuteTransaction ==
  /\ AtStep("lookup") /\ Tx.kind = "call"
  /\ \E bad \in BOOLEAN :
       /\ bad => ~(Tx.to \in vm.addresses /\ Tx.to \in vm.contracts)
       /\ Answer(bad)
       /\ IF bad THEN Mark("lookup", 0) ELSE UNCHANGED marks
       /\ IF ~bad /\ GetContractAddress(Tx.to) /\ MayRun /\ GetContractInformation(Tx.to)
          THEN /\ ev' = Evaluation(Tx, {}, 0)
               /\ vm' = CacheContract(CacheAddress(vm, Tx.to), Tx.to)
               /\ UNCHANGED blk
          ELSE /\ ProcessTransactionFailure(IF bad THEN vm ELSE CacheAddress(vm, Tx.to))
               /\ UNCHANGED ev
  /\ UNCHANGED <<db, outside, phantom>>

(* The deployment counts as one and its evaluation counts it again.        *)
DeployTransaction ==
  /\ AtStep("lookup") /\ Tx.kind = "deploy"
  /\ IF MayRun
     THEN ev' = Evaluation(Tx, {Tx.to}, 2) /\ UNCHANGED <<vm, blk>>
     ELSE ProcessTransactionFailure(vm) /\ UNCHANGED ev
  /\ UNCHANGED <<db, faults, outside, ghosts>>

RunContract ==
  /\ Phase("tx")
  /\ EvaluatorNext
  /\ phantom' = IF \E c \in vm'.contracts \ vm.contracts :
                     ~\E r \in db'.contracts : r.c = c
                THEN phantom \cup {vm.height} ELSE phantom
  /\ UNCHANGED <<blk, outside, marks>>

(* updateBlockValuesFromResult: a transaction that was not reverted leaves *)
(* what it modified in the state of the block.                             *)
FinishTransaction ==
  /\ Phase("tx") /\ ev # Nil /\ ev.phase = "done"
  /\ LET f == ev.frames[1]
     IN  /\ vm' = UpdateReceipt(IF f.revert THEN vm
                                ELSE [vm EXCEPT !.state = UpdateValues(@, f.modified)], ~f.revert)
         /\ blk' = NextTransaction(ev.gas)
         /\ IF ev.taint THEN Mark("run", ev.gas) ELSE UNCHANGED marks
  /\ ev' = Nil
  /\ UNCHANGED <<db, faults, outside, phantom>>

-----------------------------------------------------------------------------
(* After the last transaction: updateEvaluatedStates reads the checksum of *)
(* the previous block, writes the keys, then the pointers.                 *)

(* The hash of block n of the chain, and the merkle root Bitcoin gives it. *)
MerkleRoot(n) == {t.id : t \in chain[n].txs}
BlockHash(n) == [i \in 1 .. n |-> MerkleRoot(i)]

GetPreviousBlockChecksumOfHeight(h) ==
  IF h = 1 THEN ZeroHash ELSE commits.headers[h - 1].checksum

UpdateReceiptState ==
  /\ Phase("tx") /\ ev = Nil /\ blk.queue = <<>>
  /\ \E bad \in BOOLEAN :
       /\ Answer(bad)
       /\ blk' = IF bad THEN Goto("reverting")
                 ELSE [Goto("keys") EXCEPT
                         !.receipts = ReceiptTree(vm.receipts,
                                        GetPreviousBlockChecksumOfHeight(vm.height)),
                         !.storage = StateTree(vm.state)]
  /\ UNCHANGED <<db, vm, ev, outside, ghosts>>

(* An exposed key updates its row or makes one, a link makes one. *)
SavePublicKey(rows, r) ==
  LET old == {q \in rows : q.hash = r.hash /\ q.legacy = r.legacy}
  IN  IF old = {} THEN rows \cup {r}
      ELSE (rows \ old) \cup {[q EXCEPT !.exposed = r.exposed] : q \in old}

RECURSIVE SavePublicKeys(_, _)
SavePublicKeys(rows, rs) ==
  IF rs = {} THEN rows
  ELSE LET r == CHOOSE r \in rs : TRUE
       IN  SavePublicKeys(SavePublicKey(rows, r), rs \ {r})

(* A bulk write that fails has written some of its rows. *)
Written(all, bad) == IF bad THEN {some \in SUBSET all : Cardinality(some) <= 1} ELSE {all}

SaveMLDSAPublicKeys ==
  /\ Phase("keys")
  /\ \E bad \in BOOLEAN, some \in SUBSET vm.toStore :
       /\ bad => vm.toStore # {}
       /\ Answer(bad)
       /\ some \in Written(vm.toStore, bad)
       /\ db' = [db EXCEPT !.keys = SavePublicKeys(@, some)]
       /\ blk' = Goto(IF bad THEN "reverting" ELSE "pointers")
  /\ UNCHANGED <<vm, ev, outside, ghosts>>

(* One row for a slot and a height; then the states are dropped, and the   *)
(* block goes on unless it was aborted.                                    *)
SetStoragePointers ==
  /\ Phase("pointers")
  /\ LET proofs == GetEverythingWithProofs(vm.state, blk.storage)
         found == ProofsFound(proofs)
     IN  \E bad \in BOOLEAN, some \in SUBSET DOMAIN vm.state :
       /\ bad => vm.state # <<>> /\ found
       /\ Answer(bad)
       /\ some \in IF found THEN Written(DOMAIN vm.state, bad) ELSE {{}}
       /\ LET kept(r) == ~(r.at = vm.height /\ <<r.c, r.s>> \in some)
          IN  /\ db' = [db EXCEPT !.pointers = {r \in @ : kept(r)} \cup
                   {[c |-> k[1], s |-> k[2], v |-> vm.state[k], at |-> vm.height] : k \in some}]
              /\ commits' = [commits EXCEPT !.pointers = {r \in @ : kept(r)} \cup
                   {[c |-> k[1], s |-> k[2], proof |-> proofs[k], at |-> vm.height] : k \in some}]
       /\ vm' = IF bad \/ ~found THEN vm ELSE [vm EXCEPT !.open = FALSE, !.state = <<>>]
       /\ blk' = Goto(IF bad \/ ~found \/ blk.aborted THEN "reverting" ELSE "sign")
  /\ UNCHANGED <<ev, bitcoin, ghosts>>

(* The checksum of the block before is read again, and the header computed. *)
Header(previousChecksum) ==
  BlockHeaderDocument(BlockHash(vm.height - 1), BlockHash(vm.height), MerkleRoot(vm.height),
                      previousChecksum, blk.storage, blk.receipts)

SignBlock ==
  /\ Phase("sign")
  /\ \E bad \in BOOLEAN :
       /\ Answer(bad)
       /\ blk' = IF bad \/ blk.aborted THEN Goto("reverting")
                 ELSE [Goto("save") EXCEPT
                         !.header = Header(GetPreviousBlockChecksumOfHeight(vm.height))]
  /\ UNCHANGED <<db, vm, ev, outside, ghosts>>

AssignReceiptProofs == GetReceiptProofs(vm.receipts, blk.receipts)

(* The promise of the OP_NET transactions; a failure is kept in it. *)
SaveOPNetTransactions ==
  /\ Phase("save")
  /\ LET ids == DOMAIN vm.receipts
         proofs == AssignReceiptProofs
     IN  \E bad \in BOOLEAN, some \in SUBSET ids :
          /\ bad => ids # {}
          /\ Answer(bad)
          /\ some \in Written(ids, bad)
          /\ db' = [db EXCEPT !.txs = @ \cup
               {[id |-> i, at |-> vm.height, ok |-> vm.receipts[i]] : i \in some}]
          /\ commits' = [commits EXCEPT !.receipts = @ \cup
               {[id |-> i, at |-> vm.height, proof |-> proofs[i]] : i \in some}]
          /\ blk' = [Goto("finalize") EXCEPT !.opnet = IF bad THEN "failed" ELSE "none"]
  /\ UNCHANGED <<vm, ev, bitcoin, ghosts>>

(* finalizeBlock waits for the promises, saves the header and ends the     *)
(* block in the virtual machine.                                           *)
FinalizeBlock ==
  /\ Phase("finalize")
  /\ IF blk.aborted
     THEN blk' = Goto("reverting") /\ UNCHANGED <<vm, faults, commits>>
     ELSE /\ blk.generic # "pending"
          /\ \E bad \in BOOLEAN :
               /\ bad => blk.opnet = "none"
               /\ Answer(bad)
               /\ IF bad \/ blk.opnet = "failed"
                  THEN blk' = Goto("reverting") /\ UNCHANGED <<vm, commits>>
                  ELSE /\ blk' = Goto("complete") /\ vm' = Completed
                       /\ commits' = [commits EXCEPT
                                        !.headers = Put(@, vm.height, blk.header)]
  /\ UNCHANGED <<db, ev, bitcoin, ghosts>>

(* Mutant: the promise that failed is awaited until it succeeds. *)
RevertBlockWaiting ==
  /\ Phase("reverting") /\ blk.generic # "pending" /\ blk.opnet # "failed"
  /\ vm' = Completed
  /\ ev' = Nil
  /\ blk' = Goto("failed")
  /\ UNCHANGED <<db, faults, outside, ghosts>>

(* revertBlock waits for the same promises again: one that failed throws   *)
(* before the virtual machine is told.                                     *)
RevertBlock ==
  /\ Phase("reverting") /\ blk.generic # "pending"
  /\ vm' = IF blk.opnet = "failed" THEN vm ELSE Completed
  /\ ev' = Nil
  /\ blk' = Goto("failed")
  /\ UNCHANGED <<db, faults, outside, ghosts>>

CompleteBlock ==
  /\ Phase("complete")
  /\ pending' = pending + 1
  /\ blk' = NoBlock
  /\ UNCHANGED <<db, vm, ev, faults, chain, halted, budget, commits, ghosts>>

-----------------------------------------------------------------------------
(* Taking blocks back.                                                     *)

(* Mutant: a key stays exposed although the exposure is taken back. *)
DeleteOnlyRows(rows, from) == {r \in rows : r.at < from}

(* Keys exposed at or above the height are hidden again, rows go. *)
DeleteFromBlockHeight(rows, from) ==
  {IF r.exposed >= from THEN [r EXCEPT !.exposed = 0] ELSE r : r \in {q \in rows : q.at < from}}

Below(rows, from) == {r \in rows : r.at < from}

(* Mutant: the header at the height stays. *)
DeleteBlockHeadersAbove(from) ==
  [h \in {i \in DOMAIN commits.headers : i <= from} |-> commits.headers[h]]

DeleteBlockHeadersFromBlockHeight(from) ==
  [h \in {i \in DOMAIN commits.headers : i < from} |-> commits.headers[h]]

RevertDataUntilBlock(from) ==
  /\ db' = [pointers |-> Below(db.pointers, from), contracts |-> Below(db.contracts, from),
            keys |-> DeleteFromBlockHeight(db.keys, from), txs |-> Below(db.txs, from)]
  /\ commits' = [headers |-> DeleteBlockHeadersFromBlockHeight(from),
                 pointers |-> Below(commits.pointers, from),
                 receipts |-> Below(commits.receipts, from)]
  /\ marks' = Below(marks, from)
  /\ phantom' = {h \in phantom : h < from}

(* A processing error takes the block before back as well; at the first    *)
(* block nothing is taken back and no task follows.                        *)
RevertChain ==
  /\ Phase("failed")
  /\ blk' = NoBlock
  /\ IF pending > 1
     THEN /\ RevertDataUntilBlock(pending - 1)
          /\ pending' = pending - 1
          /\ UNCHANGED halted
     ELSE halted' = TRUE /\ UNCHANGED <<db, pending, commits, ghosts>>
  /\ UNCHANGED <<vm, ev, faults, chain, budget>>

(* The first block in which two chains differ. *)
Fork(a, b) == CHOOSE h \in 1 .. Len(a) + 1 :
                /\ SubSeq(a, 1, h - 1) = SubSeq(b, 1, h - 1)
                /\ h > Len(a) \/ h > Len(b) \/ a[h] # b[h]

Reorganise ==
  /\ Phase("idle") /\ ~halted /\ budget.reorgs > 0
  /\ \E other \in Stressed \ {chain} :
       /\ Fork(chain, other) < pending
       /\ chain' = other
       /\ RevertDataUntilBlock(Fork(chain, other))
       /\ pending' = Fork(chain, other)
  /\ budget' = [budget EXCEPT !.reorgs = @ - 1]
  /\ UNCHANGED <<vm, ev, faults, blk, halted>>

(* The process dies and starts again: what was written at or above the     *)
(* block in progress is purged first.                                      *)
Crash ==
  /\ budget.crashes > 0
  /\ budget' = [budget EXCEPT !.crashes = @ - 1]
  /\ vm' = NoVM /\ ev' = Nil /\ blk' = NoBlock
  /\ RevertDataUntilBlock(pending)
  /\ halted' = FALSE
  /\ UNCHANGED <<faults, chain, pending>>

-----------------------------------------------------------------------------
Step ==
  \/ StartBlock \/ SaveGenericTransactions
  \/ RefuseTransaction \/ AssignMLDSAToLegacy
  \/ ExecuteTransaction \/ DeployTransaction \/ RunContract \/ FinishTransaction
  \/ UpdateReceiptState \/ SaveMLDSAPublicKeys \/ SetStoragePointers
  \/ SignBlock \/ SaveOPNetTransactions \/ FinalizeBlock
  \/ RevertBlock \/ CompleteBlock \/ RevertChain

Next == Step \/ Reorganise \/ Crash

(* The event loop of the indexer goes on while it has something to do. *)
Spec == Init /\ [][Next]_vars /\ WF_vars(Step)

-----------------------------------------------------------------------------
(* Between two blocks the database holds exactly what the reference gives  *)
(* for the blocks below the pending height: caches, the layers of state    *)
(* of transaction and block, failed attempts, rollbacks, reorganisations   *)
(* and restarts leave no trace, and a database failure during a            *)
(* transaction reverts that transaction and changes nothing else.          *)
ExecutionExact ==
  Phase("idle") /\ ~halted /\ phantom = {} => db = Expected(chain, pending - 1, marks)

(* Between two blocks, every stored slot and every stored receipt is       *)
(* proved by what is stored with it against the root in the header of its  *)
(* height, and every header has a valid checksum over the checksum of the  *)
(* header before it and names the block of the chain: no failed attempt,   *)
(* rollback, reorganisation or restart leaves a proof or a header of       *)
(* another execution (validateBlockChecksum, StateMerkleTree.verify).      *)
HeadersCommit ==
  LET hdr == commits.headers
      PointerProof(r) == CHOOSE p \in commits.pointers : <<p.c, p.s, p.at>> = <<r.c, r.s, r.at>>
      ReceiptProof(r) == CHOOSE p \in commits.receipts : <<p.id, p.at>> = <<r.id, r.at>>
  IN  Phase("idle") /\ ~halted =>
        /\ DOMAIN hdr = 1 .. pending - 1
        /\ \A h \in DOMAIN hdr :
             /\ ValidateBlockChecksum(hdr[h], GetPreviousBlockChecksumOfHeight(h))
             /\ hdr[h].hash = BlockHash(h)
        /\ \A r \in db.pointers : LET p == PointerProof(r).proof IN
             ~EmptyProof(p) /\ Verify(hdr[r.at].storageRoot, <<r.s, r.v>>, p)
        /\ \A r \in db.txs : LET p == ReceiptProof(r).proof IN
             ~EmptyProof(p) /\ Verify(hdr[r.at].receiptRoot, <<r.id, r.ok>>, p)

(* In the order the block is executed in, the reward comes first, every    *)
(* parent comes before its children, no transaction is lost, and one that  *)
(* could run earlier is only overtaken by families that pay as much.       *)
OrderSound ==
  LET order == blk.order
      Places == DOMAIN order
      all == {order[i] : i \in Places}
      ids == {t.id : t \in all}
      Before(i) == {order[k].id : k \in 1 .. i - 1}
  IN  Phase("tx") /\ ev = Nil /\ blk.step = "link" =>
        /\ ids = {t.id : t \in {r \in chain[pending].txs : TreatAsGeneric(r)}}
        /\ \A i \in Places :
             /\ order[i].coinbase => i = 1
             /\ order[i].parents \cap ids \subseteq Before(i)
             /\ \A j \in i + 1 .. Len(order) :
                  \/ order[i].coinbase
                  \/ ~(order[j].parents \cap ids \subseteq Before(i))
                  \/ \E d \in Descendants(order[i], all) : d.fee >= order[j].fee

(* Once failures stop, every block of the chain gets executed: an attempt  *)
(* that failed never leaves the virtual machine unable to start another.   *)
(* Only a failure in the first block stops the node.                       *)
BlocksComplete == <>[](pending > Len(chain) \/ halted)
=============================================================================
