----------------------------- MODULE Mempool -----------------------------
(***************************************************************************)
(* The mempool of a node: transactions come from clients of the API, alone  *)
(* or in packages, and from peers; the mempool thread verifies them, gives  *)
(* them to Bitcoin Core, stores them and deletes those they replace.        *)
(* Another thread compares the collection with Bitcoin Core's mempool       *)
(* again and again, stores what is missing and deletes what has gone; what  *)
(* it has already seen it keeps in memory and in a backup file.             *)
(*                                                                         *)
(* A transaction has at most one parent and a set of rivals that spend the  *)
(* same output; it decodes only with the challenge solutions of certain     *)
(* heights.  Bitcoin Core is external: it takes a transaction whose parent  *)
(* it has, in place of its rivals, or refuses it.                           *)
(***************************************************************************)
EXTENDS MempoolTip, Relation

CONSTANTS
    Txs,                \* the transactions
    Parent,             \* Parent[t]: the unconfirmed transaction t spends from, or NoTx
    NoTx,
    Rivals,             \* Rivals[t]: the transactions that spend what t spends
    ValidAt,            \* ValidAt[t]: the heights whose solutions let t decode
    StartPool,          \* Bitcoin Core's mempool at first, which the node has stored
    Packages,           \* the packages clients send: sequences of transactions
    Slots,              \* bound: broadcasts at a time
    MaxPending,         \* MAXIMUM_TRANSACTION_BROADCAST
    PreventIfNotSynced  \* PREVENT_TX_BROADCAST_IF_NOT_SYNCED

ASSUME MempoolAssumption ==
    /\ NoTx \notin Txs
    /\ Parent \in [Txs -> Txs \cup {NoTx}]
    /\ Rivals \in [Txs -> SUBSET Txs] /\ \A t, u \in Txs : t \in Rivals[u] => u \in Rivals[t]
    /\ ValidAt \in [Txs -> SUBSET Int]
    /\ StartPool \subseteq Txs /\ \A t \in StartPool : Parent[t] \in StartPool \cup {NoTx}
    /\ Packages \subseteq Seq(Txs) \ {<< >>} /\ MaxPending \in Nat /\ PreventIfNotSynced \in BOOLEAN

VARIABLES
    core,       \* Bitcoin Core's mempool
    db,         \* the Mempool collection
    reqs,       \* the broadcasts being handled
    known,      \* P2PManager.knownMempoolIdentifiers
    relayed,    \* the transactions sent to peers
    notified,   \* the transactions subscribers were told of
    manager,    \* the other thread: [pc, list, fresh, ids, cache, height]
    backup,     \* its backup file
    taken,      \* history: [api, peer]: what Bitcoin Core took from this node
    unspread,   \* history: taken, but the answer, the store, the cleanup or the relay failed
    fromPeers,  \* history: received from peers
    moved,      \* history: Bitcoin Core or a broadcast has changed something since the last list
    excused     \* history: known to the cache, yet not in the collection

poolVars == <<core, db, reqs, known, relayed, notified, manager, backup>>
history == <<taken, unspread, fromPeers, moved, excused>>
vars == <<tipVars, left, poolVars, history>>

NoEvents == UNCHANGED <<tipVars, left>>

Idle == [pc |-> "idle", src |-> "api", txs |-> <<>>, pkg |-> FALSE, i |-> 0, ids |-> {}, oks |-> {}]

ManagerStart(height) ==
    [pc |-> "off", list |-> {}, fresh |-> {}, ids |-> {}, cache |-> {}, height |-> height]

Init ==
    /\ TipInit
    /\ core = StartPool /\ db = StartPool /\ reqs = [r \in Slots |-> Idle]
    /\ known = {} /\ relayed = {} /\ notified = {}
    /\ manager = [ManagerStart(StartHeight + 1) EXCEPT !.pc = "wait", !.list = StartPool, !.cache = StartPool]
    /\ backup = StartPool
    /\ taken = [api |-> {}, peer |-> {}] /\ unspread = {} /\ fromPeers = {}
    /\ moved = FALSE /\ excused = {}

----------------------------------------------------------------------------
(* Bitcoin Core (external)                                                 *)

Spends(pool) == [t, u \in pool |-> Parent[u] = t]

\* What of a pool depends on the transactions of a set, the set included.
WithDescendants(set, pool) ==
    {u \in pool : \E t \in set \cap pool : ReflexiveTransitiveClosure(Spends(pool), pool)[t, u]}

Acceptable(t, pool) == t \in pool \/ Parent[t] \in pool \cup {NoTx}

Admitted(pool, t) ==
    IF t \in pool THEN pool ELSE (pool \ WithDescendants(Rivals[t], pool)) \cup {t}

AdmittedAll(pool, txs) == FoldLeft(Admitted, pool, txs)

AcceptableAll(txs, pool) ==
    \A i \in DOMAIN txs : Acceptable(txs[i], AdmittedAll(pool, SubSeq(txs, 1, i - 1)))

----------------------------------------------------------------------------
(* A broadcast                                                             *)

Tx(r) == reqs[r].txs[reqs[r].i]
At(r, pc) == reqs[r].pc = pc
Go(r, pc) == reqs' = [reqs EXCEPT ![r].pc = pc]
Answer(r) == reqs' = [reqs EXCEPT ![r] = Idle]
IsPackage(r) == reqs[r].src = "package"

Begin(r, src, txs, pkg, pc) ==
    reqs' = [reqs EXCEPT ![r] = [Idle EXCEPT !.src = src, !.txs = txs, !.pkg = pkg, !.i = 1, !.pc = pc]]

\* A route has its own count of pending requests.
Pending(src) == Cardinality({r \in Slots : ~At(r, "idle") /\ reqs[r].src = src})

BroadcastTransactionRoute(r, t) ==
    /\ At(r, "idle") /\ Spend("pool") /\ Pending("api") < MaxPending
    /\ Begin(r, "api", <<t>>, FALSE, "gate")
    /\ UNCHANGED <<tipVars, core, db, known, relayed, notified, manager, backup, history>>

BroadcastTransactionPackageRoute(r, txs, pkg) ==
    /\ At(r, "idle") /\ Spend("pool") /\ Pending("package") < MaxPending
    /\ Begin(r, "package", txs, pkg, "gate")
    /\ UNCHANGED <<tipVars, core, db, known, relayed, notified, manager, backup, history>>

\* The identifier is known from here on, whatever becomes of the transaction.
OnBroadcastTransaction(r, t) ==
    /\ At(r, "idle") /\ Spend("pool") /\ t \notin known
    /\ known' = known \cup {t} /\ fromPeers' = fromPeers \cup {t}
    /\ Begin(r, "peer", <<t>>, FALSE, "lookup")
    /\ UNCHANGED <<tipVars, core, db, relayed, notified, manager, backup,
                   taken, unspread, moved, excused>>

HasTransactionInMempool(r) ==
    /\ At(r, "lookup")
    /\ IF Tx(r) \in db THEN Answer(r) ELSE Go(r, "gate")
    /\ NoEvents /\ UNCHANGED <<core, db, known, relayed, notified, manager, backup, history>>

OnTransactionReceived(r) ==
    /\ At(r, "gate")
    /\ IF PreventIfNotSynced /\ ~sync.fullSync THEN Answer(r) ELSE Go(r, "exists")
    /\ NoEvents /\ UNCHANGED <<core, db, known, relayed, notified, manager, backup, history>>

HasTransactionById(r) ==
    /\ At(r, "exists")
    /\ IF Tx(r) \in db THEN Answer(r) ELSE Go(r, "verify")
    /\ NoEvents /\ UNCHANGED <<core, db, known, relayed, notified, manager, backup, history>>

Decodes(t) == sync.challenges \in ValidAt[t]

\* The last transaction of the broadcast.
AtLast(r) == reqs[r].i = Len(reqs[r].txs)

\* A package is verified as a whole before Bitcoin Core is asked anything.
Verify(r) ==
    /\ At(r, "verify")
    /\ \/ ~Decodes(Tx(r)) /\ Answer(r)
       \/ Decodes(Tx(r)) /\ ~IsPackage(r) /\ Go(r, "send")
       \/ /\ Decodes(Tx(r)) /\ IsPackage(r) /\ ~AtLast(r)
          /\ reqs' = [reqs EXCEPT ![r].i = @ + 1, ![r].pc = "exists"]
       \/ /\ Decodes(Tx(r)) /\ IsPackage(r) /\ AtLast(r)
          /\ reqs' = [reqs EXCEPT ![r].i = 1, ![r].pc = "test"]
    /\ NoEvents /\ UNCHANGED <<core, db, known, relayed, notified, manager, backup, history>>

TestMempoolAccept(r) ==
    /\ At(r, "test")
    /\ \/ Answer(r)
       \/ AcceptableAll(reqs[r].txs, core) /\ Go(r, IF reqs[r].pkg THEN "submit" ELSE "send")
    /\ NoEvents /\ UNCHANGED <<core, db, known, relayed, notified, manager, backup, history>>

Take(r, set) ==
    LET by == IF reqs[r].src = "peer" THEN "peer" ELSE "api"
    IN taken' = [taken EXCEPT ![by] = @ \cup set]

\* A package of which submitPackage says nothing is sent one by one: the flag
\* says which of the two stores it.
SubmitPackage(r) ==
    /\ At(r, "submit") /\ UNCHANGED tipVars
    /\ \/ /\ AcceptableAll(reqs[r].txs, core)
          /\ core' = AdmittedAll(core, reqs[r].txs) /\ moved' = TRUE
          /\ Take(r, Range(reqs[r].txs)) /\ Go(r, "store") /\ UNCHANGED <<left, unspread>>
       \/ Answer(r) /\ UNCHANGED <<core, moved, taken, left, unspread>>
       \/ /\ Trouble
          /\ core' \in {core} \cup {AdmittedAll(core, txs) : txs \in {u \in {reqs[r].txs} : AcceptableAll(u, core)}}
          /\ moved' = (moved \/ core' # core)
          /\ reqs' = [reqs EXCEPT ![r].pc = "send", ![r].pkg = FALSE]
          /\ UNCHANGED <<taken, unspread>>
    /\ UNCHANGED <<db, known, relayed, notified, manager, backup, fromPeers, excused>>

\* Mutant: a package that stops answers at once.
RefusedAtOnce(r) == Answer(r)

\* After a failure a package stops: what was taken before is spread.
Refused(r) == IF IsPackage(r) THEN Go(r, "spread") ELSE Answer(r)

SendRawTransaction(r) ==
    /\ At(r, "send") /\ UNCHANGED tipVars
    /\ \/ /\ Acceptable(Tx(r), core)
          /\ core' = Admitted(core, Tx(r)) /\ moved' = TRUE
          /\ Take(r, {Tx(r)}) /\ Go(r, "store") /\ UNCHANGED <<left, unspread>>
       \/ Refused(r) /\ UNCHANGED <<core, moved, taken, left, unspread>>
       \/ /\ Trouble /\ Acceptable(Tx(r), core)
          /\ core' = Admitted(core, Tx(r)) /\ moved' = TRUE
          /\ Take(r, {Tx(r)}) /\ unspread' = unspread \cup {Tx(r)} /\ Refused(r)
    /\ UNCHANGED <<db, known, relayed, notified, manager, backup, fromPeers, excused>>

\* The next transaction of the package, or the end of the broadcast.
NextTx(r, oks) ==
    \/ /\ AtLast(r)
       /\ reqs' = [reqs EXCEPT ![r].oks = oks, ![r].ids = {}, ![r].pc = "spread"]
    \/ /\ ~AtLast(r)
       /\ reqs' = [reqs EXCEPT ![r].oks = oks, ![r].ids = {}, ![r].i = @ + 1,
                               ![r].pc = IF reqs[r].pkg THEN "store" ELSE "send"]

StoreTransaction(r) ==
    /\ At(r, "store")
    /\ db' = db \cup {Tx(r)} /\ excused' = excused \ {Tx(r)} /\ moved' = TRUE
    /\ Go(r, "evict")
    /\ NoEvents
    /\ UNCHANGED <<core, known, relayed, notified, manager, backup, taken, unspread, fromPeers>>

\* Only the sequential path counts what could not be stored as a success.
StoreTransactionFails(r) ==
    /\ At(r, "store") /\ Trouble /\ UNCHANGED tipVars
    /\ \/ ~IsPackage(r) /\ Answer(r)
       \/ IsPackage(r) /\ NextTx(r, IF reqs[r].pkg THEN reqs[r].oks ELSE reqs[r].oks \cup {Tx(r)})
    /\ unspread' = IF IsPackage(r) /\ ~reqs[r].pkg THEN unspread ELSE unspread \cup {Tx(r)}
    /\ UNCHANGED <<core, db, known, relayed, notified, manager, backup, taken, fromPeers, moved, excused>>

\* The stored rivals and what is stored that descends from them.
Evicted(t) == WithDescendants(Rivals[t] \cap db, db)

CleanupEvictedTransactions(r) ==
    /\ At(r, "evict")
    /\ IF Evicted(Tx(r)) = {} THEN NextTx(r, reqs[r].oks \cup {Tx(r)})
       ELSE reqs' = [reqs EXCEPT ![r].pc = "delete", ![r].ids = Evicted(Tx(r))]
    /\ NoEvents /\ UNCHANGED <<core, db, known, relayed, notified, manager, backup, history>>

DeleteTransactionsById(r) ==
    /\ At(r, "delete")
    /\ db' = db \ reqs[r].ids /\ moved' = TRUE
    /\ excused' = excused \cup (reqs[r].ids \cap manager.cache)
    /\ NextTx(r, reqs[r].oks \cup {Tx(r)})
    /\ NoEvents
    /\ UNCHANGED <<core, known, relayed, notified, manager, backup, taken, unspread, fromPeers>>

\* A query or the delete of the cleanup rejects, after Bitcoin Core took the
\* transaction and it was stored.  A single broadcast and a sequential one end
\* there; a package that was submitted as one is sent again one by one.
CleanupFails(r) ==
    /\ At(r, "evict") \/ At(r, "delete")
    /\ Trouble /\ UNCHANGED tipVars
    /\ \/ /\ ~reqs[r].pkg /\ Answer(r)
          /\ unspread' = unspread \cup reqs[r].oks \cup {Tx(r)}
       \/ /\ reqs[r].pkg
          /\ reqs' = [reqs EXCEPT ![r].pc = "send", ![r].pkg = FALSE, ![r].i = 1,
                                  ![r].oks = {}, ![r].ids = {}]
          /\ unspread' = unspread \cup reqs[r].oks \cup Range(reqs[r].txs)
    /\ UNCHANGED <<core, db, known, relayed, notified, manager, backup, taken, fromPeers, moved, excused>>

----------------------------------------------------------------------------
(* Peers and subscribers                                                   *)

\* P2PManager.broadcastTransaction: a known transaction goes to nobody.
BroadcastTransaction(t) ==
    /\ relayed' = IF t \in known THEN relayed ELSE relayed \cup {t}
    /\ known' = known \cup {t}

\* The subscribers of every API thread are told.
NotifyMempoolTransaction(t) == notified' = notified \cup {t}

\* The P2P thread does not answer.
RelayLost(t) == Trouble /\ unspread' = unspread \cup {t} /\ UNCHANGED <<known, relayed>>

Relayed(t) == BroadcastTransaction(t) /\ UNCHANGED <<unspread, left>>

\* A single transaction whose relay is lost counts as not broadcast.
SpreadByRoute(r, t) ==
    /\ reqs[r].src = "api"
    /\ \/ Relayed(t) /\ NotifyMempoolTransaction(t)
       \/ RelayLost(t) /\ UNCHANGED notified

SpreadByPackageRoute(r, t) ==
    /\ IsPackage(r) /\ (Relayed(t) \/ RelayLost(t)) /\ NotifyMempoolTransaction(t)

\* The identifier is known since it was received: a peer's transaction goes no further.
SpreadByP2P(r, t) ==
    /\ reqs[r].src = "peer" /\ NotifyMempoolTransaction(t) /\ Relayed(t)

Spread(r) ==
    /\ At(r, "spread")
    /\ \/ reqs[r].oks = {} /\ Answer(r) /\ UNCHANGED <<known, relayed, notified, unspread, left>>
       \/ \E t \in reqs[r].oks :
             /\ SpreadByRoute(r, t) \/ SpreadByPackageRoute(r, t) \/ SpreadByP2P(r, t)
             /\ reqs' = [reqs EXCEPT ![r].oks = @ \ {t}]
    /\ UNCHANGED tipVars /\ UNCHANGED <<core, db, manager, backup, taken, fromPeers, moved, excused>>

----------------------------------------------------------------------------
(* The thread that follows Bitcoin Core's mempool                          *)

Sweep(pc) == manager.pc = pc
ManagerOnly == NoEvents /\ UNCHANGED <<core, reqs, known, relayed, notified, taken, unspread, fromPeers>>

\* Once it has started, the height is only written into what it stores.
ManagerWatches ==
    /\ Sweep("off") /\ manager.height # node.indexed
    /\ manager' = [manager EXCEPT !.height = node.indexed]
    /\ ManagerOnly /\ UNCHANGED <<db, backup, moved, excused>>

\* The check every thirty seconds.
MayTrackMempool == Sweep("off") /\ node.tip - manager.height < 2

RestoreMempoolBackup ==
    /\ MayTrackMempool
    /\ manager' = [manager EXCEPT !.pc = "list", !.cache = backup]
    /\ excused' = excused \cup (backup \ db)
    /\ ManagerOnly /\ UNCHANGED <<db, backup, moved>>

\* Mutant: the cache forgets nothing.
GenerateMempoolPopulationKeeps ==
    /\ Sweep("list")
    /\ manager' = [manager EXCEPT !.list = core, !.cache = core \cup @, !.fresh = core \ manager.cache,
                                  !.pc = IF core \subseteq manager.cache THEN "clean" ELSE "known"]
    /\ moved' = FALSE
    /\ ManagerOnly /\ UNCHANGED <<db, backup, excused>>

\* The cache becomes the list before anything of it is stored.
GenerateMempoolPopulation ==
    /\ Sweep("list")
    /\ manager' = [manager EXCEPT !.list = core, !.cache = core, !.fresh = core \ manager.cache,
                                  !.pc = IF core \subseteq manager.cache THEN "clean" ELSE "known"]
    /\ moved' = FALSE
    /\ ManagerOnly /\ UNCHANGED <<db, backup, excused>>

\* An error of the database counts as nothing known.
GetAllTransactionIncluded ==
    /\ Sweep("known")
    /\ manager' = [manager EXCEPT !.fresh = @ \ db, !.pc = IF manager.fresh \subseteq db THEN "clean" ELSE "fetch"]
    /\ ManagerOnly /\ UNCHANGED <<db, backup, moved, excused>>

\* Bitcoin Core may not have a transaction any more, or not answer: then the
\* whole batch is given up.
FetchAllUnknownTransactions ==
    /\ Sweep("fetch") /\ UNCHANGED tipVars
    /\ \/ LET fetched == manager.fresh \cap core
          IN /\ manager' = [manager EXCEPT !.fresh = fetched, !.pc = IF fetched = {} THEN "clean" ELSE "store"]
             /\ excused' = excused \cup (manager.fresh \ fetched)
             /\ UNCHANGED left
       \/ /\ Trouble /\ manager' = [manager EXCEPT !.pc = "backup"]
          /\ excused' = excused \cup manager.fresh
    /\ UNCHANGED <<core, db, reqs, known, relayed, notified, backup, taken, unspread, fromPeers, moved>>

StoreTransactions ==
    /\ Sweep("store") /\ UNCHANGED tipVars
    /\ \E stored \in {manager.fresh} \cup {manager.fresh \ {t} : t \in manager.fresh} :
          /\ stored # manager.fresh => Trouble
          /\ stored = manager.fresh => UNCHANGED left
          /\ db' = db \cup stored
          /\ excused' = (excused \ stored) \cup (manager.fresh \ stored)
    /\ manager' = [manager EXCEPT !.pc = "backup"]
    /\ UNCHANGED <<core, reqs, known, relayed, notified, backup, taken, unspread, fromPeers, moved>>

\* cleanUpDB reads the identifiers and deletes those that are not in the list;
\* the paths that return early clean up and then do it again.
CleanUpDB(pc, next) ==
    /\ Sweep(pc)
    /\ \/ /\ manager.ids = {} /\ db \ manager.list # {}
          /\ manager' = [manager EXCEPT !.ids = db \ manager.list] /\ UNCHANGED db
       \/ /\ manager.ids = {} /\ db \subseteq manager.list
          /\ manager' = [manager EXCEPT !.pc = next] /\ UNCHANGED db
       \/ /\ manager.ids # {}
          /\ db' = db \ manager.ids
          /\ manager' = [manager EXCEPT !.pc = next, !.ids = {}]
    /\ ManagerOnly /\ UNCHANGED <<backup, moved, excused>>

\* cleanUpDB throws: nobody sets the next timer.
CleanUpDBFails ==
    /\ manager.pc = "cleanAgain" /\ Trouble /\ UNCHANGED tipVars
    /\ manager' = [manager EXCEPT !.pc = "dead", !.ids = {}]
    /\ UNCHANGED <<core, db, reqs, known, relayed, notified, backup, history>>

\* An empty list leaves the file as it is.
GenerateMempoolBackup ==
    /\ Sweep("backup")
    /\ backup' = IF manager.list = {} THEN backup ELSE manager.list
    /\ manager' = [manager EXCEPT !.pc = IF manager.list = {} THEN "wait" ELSE "cleanAgain"]
    /\ ManagerOnly /\ UNCHANGED <<db, moved, excused>>

\* A round after which nothing has moved would find nothing: it is left out.
StartFetchingMempool ==
    /\ Sweep("wait") /\ moved
    /\ manager' = [manager EXCEPT !.pc = "list", !.fresh = {}]
    /\ ManagerOnly /\ UNCHANGED <<db, backup, moved, excused>>

ManagerNext ==
    \/ ManagerWatches \/ RestoreMempoolBackup \/ GenerateMempoolPopulation \/ GetAllTransactionIncluded
    \/ FetchAllUnknownTransactions \/ StoreTransactions \/ CleanUpDB("clean", "backup")
    \/ GenerateMempoolBackup \/ CleanUpDB("cleanAgain", "wait") \/ CleanUpDBFails \/ StartFetchingMempool

----------------------------------------------------------------------------
(* The environment                                                         *)

\* Bitcoin Core takes a transaction from elsewhere, or lets one go.
CoreChanges ==
    /\ Spend("pool")
    /\ \/ \E t \in Txs \ core : Acceptable(t, core) /\ core' = Admitted(core, t)
       \/ \E t \in core : core' = core \ WithDescendants({t}, core)
    /\ moved' = TRUE
    /\ UNCHANGED <<tipVars, db, reqs, known, relayed, notified, manager, backup,
                   taken, unspread, fromPeers, excused>>

\* The process is started again, perhaps to index again from the first block,
\* which empties the collection.
Restart ==
    /\ Spend("pool") /\ TipRestart /\ UNCHANGED <<core, backup>>
    /\ db' \in {db, {}}
    /\ reqs' = [r \in Slots |-> Idle]
    /\ known' = {} /\ relayed' = {} /\ notified' = {} /\ manager' = ManagerStart(0)
    /\ taken' = [api |-> {}, peer |-> {}] /\ unspread' = {} /\ fromPeers' = {}
    /\ moved' = TRUE /\ excused' = {}

RequestNext(r) ==
    \/ \E t \in Txs : BroadcastTransactionRoute(r, t) \/ OnBroadcastTransaction(r, t)
    \/ \E txs \in Packages, pkg \in BOOLEAN : BroadcastTransactionPackageRoute(r, txs, pkg)
    \/ HasTransactionInMempool(r) \/ OnTransactionReceived(r) \/ HasTransactionById(r) \/ Verify(r)
    \/ TestMempoolAccept(r) \/ SubmitPackage(r) \/ SendRawTransaction(r)
    \/ StoreTransaction(r) \/ StoreTransactionFails(r)
    \/ CleanupEvictedTransactions(r) \/ DeleteTransactionsById(r) \/ CleanupFails(r)
    \/ Spread(r)

Next ==
    \/ TipNext /\ UNCHANGED <<poolVars, history>>
    \/ \E r \in Slots : RequestNext(r)
    \/ ManagerNext \/ CoreChanges \/ Restart

Spec == Init /\ [][Next]_vars

----------------------------------------------------------------------------
(* Properties                                                              *)

\* When a round of the other thread ends and nothing has moved since its list, the collection
\* is Bitcoin Core's mempool (MempoolManager.generateMempoolPopulation), but for transactions
\* the cache knows although they could not be fetched or stored, or were deleted since.
PoolExplained ==
    Sweep("wait") /\ ~moved => db \subseteq core /\ core \ db \subseteq excused

\* When no broadcast is being handled, subscribers were told of every transaction Bitcoin Core
\* took from this node, and the clients' ones were sent to peers (BroadcastTransaction.getData,
\* P2PManager.broadcastTransaction), unless a peer had sent it, or an answer, a store, the
\* cleanup of what it replaced or the relay itself failed.
AcceptedSpread ==
    (\A r \in Slots : At(r, "idle")) =>
        /\ taken.api \cup taken.peer \subseteq notified \cup unspread
        /\ taken.api \subseteq relayed \cup fromPeers \cup unspread
=============================================================================
