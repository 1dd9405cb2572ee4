------------------------------ MODULE ContractVM ------------------------------
(***************************************************************************)
(* One transaction in the virtual machine of the indexer: VMManager with   *)
(* its caches in front of the database, a stack of ContractEvaluator runs  *)
(* (one per contract call) and the ContractEvaluation they share.          *)
(*                                                                         *)
(* A contract is a program: a sequence of the host functions it calls.     *)
(* Every wait for the database may fail while "faults" lasts; the code     *)
(* turns most of those failures into a reverted transaction, which the     *)
(* variable ev remembers as a taint.  Slot contents are numbers; gas is    *)
(* one unit per host call plus the price of the slots written.             *)
(***************************************************************************)
EXTENDS Naturals, Sequences, FiniteSets, TLC

CONSTANTS MaxCalls,        \* MAXIMUM_CALL_DEPTH
          MaxDeploys,      \* MAXIMUM_DEPLOYMENT_DEPTH
          MaxEvents,       \* MAXIMUM_TOTAL_EVENT_LENGTH, in events
          NewSlotGas,      \* NEW_STORAGE_SLOT_GAS_COST
          UpdatedSlotGas,  \* UPDATED_STORAGE_SLOT_GAS_COST
          Nil,             \* no value
          Failed           \* a rejected promise kept in a cache

VARIABLES db,       \* rows of contracts, pointers, ML-DSA keys and transactions
          vm,       \* the VMManager of the indexer
          ev,       \* the transaction being evaluated, Nil between two
          faults    \* database failures still to come

vmVars == <<db, vm, ev, faults>>

Put(f, k, v) == (k :> v) @@ f

-----------------------------------------------------------------------------
(* The database as the virtual machine reads it.                           *)

Newest(rows) == CHOOSE r \in rows : \A q \in rows : q.at <= r.at

(* Only rows of earlier blocks: the block being executed may be rescanned. *)
GetByContractAndPointer(c, s, h) ==
  LET rows == {r \in db.pointers : r.c = c /\ r.s = s /\ r.at < h}
  IN  IF rows = {} THEN Nil ELSE Newest(rows).v

(* Rows up to and including the height asked for. *)
GetContractAt(c, h) == \E r \in db.contracts : r.c = c /\ r.at <= h

(* The address of a contract is looked up whatever its height. *)
GetContractAddressAt(c) == \E r \in db.contracts : r.c = c

KeyBy(rows) == IF rows = {} THEN Nil ELSE CHOOSE r \in rows : TRUE
GetByHashedPublicKey(k, h) == KeyBy({r \in db.keys : r.hash = k /\ r.at <= h})
GetByLegacyPublicKey(l, h) == KeyBy({r \in db.keys : r.legacy = l /\ r.at <= h})

(* One call of the database: it answers, or it fails and costs a fault.    *)
Answer(bad) == /\ bad => faults > 0
               /\ faults' = IF bad THEN faults - 1 ELSE faults

-----------------------------------------------------------------------------
(* VMManager: caches and block state.                                      *)

(* What clear() and the reset of VMBitcoinBlock leave. *)
NoVM == [height |-> 0, open |-> FALSE, state |-> <<>>, receipts |-> <<>>,
         pointers |-> <<>>, contracts |-> {}, addresses |-> {},
         toStore |-> {}, keys |-> <<>>, legacies |-> <<>>]

(* The state of the block first, then what the block has read before. *)
GetValueWithProofs(k) == IF k \in DOMAIN vm.state THEN vm.state[k] ELSE Nil
GetFromInternalCache(k) ==
  IF GetValueWithProofs(k) # Nil THEN GetValueWithProofs(k)
  ELSE IF k \in DOMAIN vm.pointers THEN vm.pointers[k] ELSE Nil

GetStorage(k) ==
  IF GetFromInternalCache(k) # Nil THEN GetFromInternalCache(k)
  ELSE GetByContractAndPointer(k[1], k[2], vm.height)

(* A slot found in the database stays in the pointer cache; a missing one  *)
(* is stored as null, which the cache reads back as unknown.               *)
StorePointerInCache(m, ks) ==
  [m EXCEPT !.pointers =
     [k \in {j \in ks : GetFromInternalCache(j) = Nil /\ GetStorage(j) # Nil} |->
        GetStorage(k)] @@ m.pointers]

GetContractInformation(c) == c \in vm.contracts \/ GetContractAt(c, vm.height)
CacheContract(m, c) ==
  IF GetContractInformation(c) THEN [m EXCEPT !.contracts = @ \cup {c}] ELSE m

GetContractAddress(c) == c \in vm.addresses \/ GetContractAddressAt(c)
CacheAddress(m, c) ==
  IF GetContractAddress(c) THEN [m EXCEPT !.addresses = @ \cup {c}] ELSE m

(* setContractAt: the cache first, then the database. *)
SetContractAt(m, cs) == [m EXCEPT !.contracts = @ \cup cs]

-----------------------------------------------------------------------------
(* ML-DSA keys: the links this block adds, then the cache, then the rows.  *)

PendingHash(k) == {r \in vm.toStore : r.hash = k}
PendingLegacy(l) == {r \in vm.toStore : r.legacy = l}

GetMLDSAPublicKey(k) ==
  IF PendingHash(k) # {} THEN KeyBy(PendingHash(k))
  ELSE IF k \in DOMAIN vm.keys THEN vm.keys[k]
  ELSE GetByHashedPublicKey(k, vm.height)

GetMLDSAPublicKeyFromLegacyKey(l) ==
  IF PendingLegacy(l) # {} THEN KeyBy(PendingLegacy(l))
  ELSE IF l \in DOMAIN vm.legacies THEN vm.legacies[l]
  ELSE GetByLegacyPublicKey(l, vm.height)

(* The caches keep the promise of the query, a rejected one included. *)
KeyAsked(k) == PendingHash(k) = {} /\ k \notin DOMAIN vm.keys
LegacyAsked(l) == PendingLegacy(l) = {} /\ l \notin DOMAIN vm.legacies
CacheKey(m, k, bad) ==
  IF KeyAsked(k)
  THEN [m EXCEPT !.keys = Put(@, k, IF bad THEN Failed ELSE GetMLDSAPublicKey(k))]
  ELSE m
CacheLegacy(m, l, bad) ==
  IF LegacyAsked(l)
  THEN [m EXCEPT !.legacies =
          Put(@, l, IF bad THEN Failed ELSE GetMLDSAPublicKeyFromLegacyKey(l))]
  ELSE m

(* A link already pending for the same two keys is not stored again. *)
Duplicate(k, l) == \E r \in PendingHash(k) : r.legacy = l
ValidateMLDSALinkRequest(k, l) ==
  /\ \A r \in PendingHash(k) : r.legacy = l
  /\ Duplicate(k, l) \/ PendingLegacy(l) = {}

(* Neither key may be linked to another one in the database. *)
ShouldInsertMLDSAKey(k, l) ==
  LET hashed == {r \in db.keys : r.hash = k}
      legacy == {r \in db.keys : r.legacy = l}
  IN  hashed = legacy

(* What is already stored and needs no row: the link, or the exposed key.  *)
MldsaPublicKeyExists(k, l, expose) ==
  \E r \in db.keys : r.hash = k /\ r.legacy = l /\ (expose => r.exposed # 0)

AddMLDSAInfoToStore(m, k, l, expose) ==
  IF Duplicate(k, l) \/ MldsaPublicKeyExists(k, l, expose) THEN m
  ELSE [m EXCEPT !.toStore =
          @ \cup {[hash |-> k, legacy |-> l, at |-> m.height,
                   exposed |-> IF expose THEN m.height ELSE 0]}]

-----------------------------------------------------------------------------
(* ContractEvaluation: what the calls of one transaction share, and the    *)
(* frame of one call.                                                      *)

Frame(c, body, external, caught) ==
  [c |-> c, body |-> body, external |-> external, caught |-> caught,
   revert |-> FALSE, modified |-> <<>>, events |-> 0, touched |-> (c :> TRUE)]

Evaluation(tx, deployed, deploys) ==
  [tx |-> tx, frames |-> <<Frame(tx.to, tx.body, FALSE, FALSE)>>,
   storage |-> <<>>, loaded |-> <<>>, deployed |-> deployed,
   calls |-> 1, deploys |-> deploys, gas |-> 0, phase |-> "run", taint |-> FALSE]

Top == ev.frames[Len(ev.frames)]
Running == ev # Nil /\ ev.phase = "run"
Calls(name) == Running /\ Top.body # <<>> /\ Head(Top.body).op = name
Op == Head(Top.body)

WithTop(e, f) == [e EXCEPT !.frames[Len(e.frames)] = f]
Next1(f) == [f EXCEPT !.body = Tail(@)]

(* The host function throws: the run of this contract ends, reverted. *)
Abend(e) == WithTop(e, [e.frames[Len(e.frames)] EXCEPT !.revert = TRUE, !.body = <<>>])

(* A call that cannot be made marks the caller reverted and answers with   *)
(* status 1; the contract goes on when it ignores the status.              *)
CallRefused(e, op) ==
  LET f == e.frames[Len(e.frames)]
  IN  WithTop(e, [f EXCEPT !.revert = TRUE, !.body = IF op.catch THEN Tail(@) ELSE <<>>])

(* One unit of gas for every host function; the limit ends the run. *)
OutOfGas == ev.gas + 1 > ev.tx.gas
Charged == [ev EXCEPT !.gas = @ + 1]
Tainted(e) == [e EXCEPT !.taint = TRUE]

RunOutOfGas ==
  /\ Running /\ Top.body # <<>> /\ OutOfGas
  /\ ev' = Abend([ev EXCEPT !.gas = ev.tx.gas])
  /\ UNCHANGED <<db, vm, faults>>

(* What the transaction itself wrote, then what it loaded before. *)
LocalStorage(k) ==
  IF k \in DOMAIN ev.storage THEN ev.storage[k]
  ELSE IF k \in DOMAIN ev.loaded THEN ev.loaded[k] ELSE Nil

Store ==
  /\ Calls("store") /\ ~OutOfGas
  /\ ev' = WithTop([Charged EXCEPT !.storage = Put(@, <<Top.c, Op.slot>>, Op.val)],
                   Next1(Top))
  /\ UNCHANGED <<db, vm, faults>>

(* The contract loads a slot and stores its content plus one in another.   *)
Load ==
  /\ Calls("load") /\ ~OutOfGas
  /\ LET k == <<Top.c, Op.slot>>
         cold == LocalStorage(k) = Nil
         found == IF GetStorage(k) = Nil THEN 0 ELSE GetStorage(k)
         v == IF cold THEN found ELSE LocalStorage(k)
     IN  \E bad \in BOOLEAN :
          /\ bad => cold /\ GetFromInternalCache(k) = Nil
          /\ Answer(bad)
          /\ vm' = IF cold /\ ~bad THEN StorePointerInCache(vm, {k}) ELSE vm
          /\ ev' = IF bad THEN Tainted(Abend(Charged))
                   ELSE WithTop([Charged EXCEPT
                          !.loaded = IF cold THEN Put(@, k, v) ELSE @,
                          !.storage = Put(@, <<Top.c, Op.into>>, v + 1)], Next1(Top))
  /\ UNCHANGED db

Event ==
  /\ Calls("event") /\ ~OutOfGas
  /\ ev' = IF Top.events + 1 > MaxEvents THEN Abend(Charged)
           ELSE WithTop(Charged, [Next1(Top) EXCEPT !.events = @ + 1])
  /\ UNCHANGED <<db, vm, faults>>

(* Whether an address is a contract: what this call saw before, then the   *)
(* address cache, then the database; the answer is stored in a slot.       *)
AccountType ==
  /\ Calls("type") /\ ~OutOfGas
  /\ LET warm == Op.of \in DOMAIN Top.touched
         is == IF warm THEN Top.touched[Op.of] ELSE GetContractAddress(Op.of)
     IN  \E bad \in BOOLEAN :
          /\ bad => ~warm /\ Op.of \notin vm.addresses
          /\ Answer(bad)
          /\ vm' = IF warm \/ bad THEN vm ELSE CacheAddress(vm, Op.of)
          /\ ev' = IF bad THEN Tainted(Abend(Charged))
                   ELSE WithTop([Charged EXCEPT !.storage =
                            Put(@, <<Top.c, Op.into>>, IF is THEN 1 ELSE 0)],
                          [Next1(Top) EXCEPT !.touched = Put(@, Op.of, is)])
  /\ UNCHANGED db

(* Whether a key has been exposed; the answer is stored in a slot. *)
LoadMLDSA ==
  /\ Calls("key") /\ ~OutOfGas
  /\ \E bad \in BOOLEAN :
       /\ bad => KeyAsked(Op.key)
       /\ Answer(bad)
       /\ vm' = CacheKey(vm, Op.key, bad)
       /\ LET r == IF bad THEN Failed ELSE GetMLDSAPublicKey(Op.key)
              known == IF r \in {Nil, Failed} THEN FALSE ELSE r.exposed # 0
          IN  ev' = IF r = Failed THEN Tainted(Abend(Charged))
                    ELSE WithTop([Charged EXCEPT !.storage =
                             Put(@, <<Top.c, Op.into>>, IF known THEN 1 ELSE 0)],
                           Next1(Top))
  /\ UNCHANGED db

(* The frame of the callee on top of the caller's; the counter of calls is *)
(* never taken back.                                                       *)
Enter(e, c, body, catch) ==
  [WithTop(e, Next1(e.frames[Len(e.frames)])) EXCEPT
     !.frames = Append(@, Frame(c, body, TRUE, catch)), !.calls = @ + 1]

(* executeCallInternal: a contract of this transaction, a cached one or a  *)
(* row; a database that fails is taken for a contract that is missing.     *)
Call ==
  /\ Calls("call") /\ ~OutOfGas
  /\ IF ev.calls >= MaxCalls
     THEN ev' = CallRefused(Charged, Op) /\ UNCHANGED <<vm, faults>>
     ELSE \E bad \in BOOLEAN :
           /\ bad => Op.to \notin ev.deployed \cup vm.contracts
           /\ Answer(bad)
           /\ vm' = IF bad \/ Op.to \in ev.deployed THEN vm ELSE CacheContract(vm, Op.to)
           /\ ev' = CASE bad -> Tainted(CallRefused(Charged, Op))
                      [] ~bad /\ (Op.to \in ev.deployed \/ GetContractInformation(Op.to)) ->
                           Enter(Charged, Op.to, Op.body, Op.catch)
                      [] OTHER -> CallRefused(Charged, Op)
  /\ UNCHANGED db

(* deployContractFromAddressRaw counts the deployment, and the evaluation  *)
(* of the constructor counts it a second time.  The contract to copy must  *)
(* exist; the address must be new: not in the cache, not deployed by this  *)
(* transaction, not in an earlier block.                                   *)
Taken(c) == \/ c \in vm.contracts \cup ev.deployed
            \/ GetContractAt(c, vm.height - 1)

CountDeployment(e) == [e EXCEPT !.deploys = @ + 1]

DeployContractAtAddress(e) ==
  LET added == [e EXCEPT !.deployed = @ \cup {Op.new}]
  IN  IF ~GetContractInformation(Op.src) \/ Taken(Op.new) THEN CallRefused(e, Op)
      ELSE IF e.deploys >= MaxDeploys THEN CallRefused(added, Op)
      ELSE Enter(CountDeployment(added), Op.new, Op.body, Op.catch)

DeployContract ==
  /\ Calls("deploy") /\ ~OutOfGas
  /\ IF ev.deploys >= MaxDeploys
     THEN ev' = CallRefused(Charged, Op) /\ UNCHANGED <<vm, faults>>
     ELSE \E bad \in BOOLEAN :
           /\ Answer(bad)
           /\ vm' \in {CacheContract(vm, Op.src)} \cup (IF bad THEN {vm} ELSE {})
           /\ ev' = IF bad THEN Tainted(CallRefused(CountDeployment(Charged), Op))
                    ELSE DeployContractAtAddress(CountDeployment(Charged))
  /\ UNCHANGED db

(* The update of a contract is not implemented: it always throws. *)
UpdateContract ==
  /\ Calls("update") /\ ~OutOfGas
  /\ ev' = CallRefused(Charged, Op)
  /\ UNCHANGED <<db, vm, faults>>

(* The contract gives up: a status other than success. *)
Exit ==
  /\ Calls("fail") /\ ~OutOfGas
  /\ ev' = Abend(Charged)
  /\ UNCHANGED <<db, vm, faults>>

(* processResult: a run that was not reverted on the way takes the storage *)
(* map of the transaction as what it modified.                             *)
SetResult(f) == IF f.revert THEN f ELSE [f EXCEPT !.modified = ev.storage @@ @]

(* merge: a reverted callee reverts its caller, whatever the contract does *)
(* with the status; otherwise storage and events are taken over.           *)
Merge(f, g) ==
  IF g.revert
  THEN [f EXCEPT !.revert = TRUE, !.body = IF g.caught THEN @ ELSE <<>>]
  ELSE LET over == f.events + g.events > MaxEvents
       IN  [f EXCEPT !.modified = g.modified @@ @,
                     !.events = IF over THEN @ ELSE @ + g.events,
                     !.revert = @ \/ over,
                     !.body = IF over /\ ~g.caught THEN <<>> ELSE @]

Return ==
  /\ Running /\ Top.body = <<>> /\ Len(ev.frames) > 1
  /\ LET rest == SubSeq(ev.frames, 1, Len(ev.frames) - 1)
     IN  ev' = [ev EXCEPT !.frames =
                  [rest EXCEPT ![Len(rest)] = Merge(@, SetResult(Top))]]
  /\ UNCHANGED <<db, vm, faults>>

(* The outermost run ends. *)
Result ==
  /\ Running /\ Top.body = <<>> /\ Len(ev.frames) = 1
  /\ LET f == SetResult(Top)
     IN  ev' = [ev EXCEPT !.frames = <<f>>,
                          !.phase = IF f.revert THEN "done" ELSE "stores"]
  /\ UNCHANGED <<db, vm, faults>>

(* calculateGasCostStore: every slot modified is priced by what the slot   *)
(* of that number holds in the contract called first, whatever contract    *)
(* wrote it.                                                               *)
SlotPrice(k, v) ==
  LET now == GetStorage(<<ev.tx.to, k[2]>>)
  IN  IF now = Nil THEN NewSlotGas ELSE IF now # v THEN UpdatedSlotGas ELSE 0

RECURSIVE PriceOf(_, _)
PriceOf(ks, modified) ==
  IF ks = {} THEN 0
  ELSE LET k == CHOOSE k \in ks : TRUE
       IN  SlotPrice(k, modified[k]) + PriceOf(ks \ {k}, modified)

CalculateGasCostStore ==
  /\ ev # Nil /\ ev.phase = "stores"
  /\ LET modified == Top.modified
         priced == {<<ev.tx.to, k[2]>> : k \in DOMAIN modified}
         cost == PriceOf(DOMAIN modified, modified)
     IN  \E bad \in BOOLEAN :
          /\ bad => \E k \in priced : GetFromInternalCache(k) = Nil
          /\ Answer(bad)
          /\ vm' = IF bad THEN vm ELSE StorePointerInCache(vm, priced)
          /\ ev' = CASE bad -> [Tainted(Abend(ev)) EXCEPT !.phase = "done"]
                     [] ~bad /\ ev.gas + cost > ev.tx.gas ->
                          [Abend(ev) EXCEPT !.phase = "done", !.gas = ev.tx.gas]
                     [] OTHER -> [ev EXCEPT !.phase = "contracts", !.gas = @ + cost]
  /\ UNCHANGED db

(* terminateEvaluation writes the new contracts at once, before the block  *)
(* is complete: all of them into the cache, those that are new and whose   *)
(* insertion succeeds into the database; one failure reverts.              *)
DeployContracts ==
  /\ ev # Nil /\ ev.phase = "contracts"
  /\ \E lost \in SUBSET {c \in ev.deployed : ~GetContractAddressAt(c)} :
       LET known == {c \in ev.deployed : GetContractAddressAt(c)}
           fails == known \cup lost # {}
       IN  /\ Cardinality(lost) <= faults
           /\ faults' = faults - Cardinality(lost)
           /\ vm' = SetContractAt(vm, ev.deployed)
           /\ db' = [db EXCEPT !.contracts = @ \cup
                {[c |-> c, at |-> vm.height, by |-> ev.tx.id] :
                   c \in ev.deployed \ (known \cup lost)}]
           /\ ev' = [IF fails THEN Abend(ev) ELSE ev EXCEPT
                       !.phase = "done", !.taint = @ \/ lost # {}]

EvaluatorNext ==
  \/ RunOutOfGas \/ Store \/ Load \/ Event \/ AccountType \/ LoadMLDSA
  \/ Call \/ DeployContract \/ UpdateContract \/ Exit \/ Return
  \/ Result \/ CalculateGasCostStore \/ DeployContracts

=============================================================================
