----------------------------- MODULE WalletUtxos -----------------------------
(***************************************************************************)
(* The outputs of a wallet as the API reports them (UTXOsRoute, getUTXOs): *)
(* two queries made at the same time, for the confirmed outputs and for    *)
(* the outputs of pending transactions, and then a third for which of them *)
(* a pending transaction spends.  Meanwhile transactions enter the         *)
(* mempool, are mined, leave the mempool when their block is indexed, and  *)
(* reach the confirmed outputs when the synchronisation workers flush      *)
(* their block: three writers that do not wait for each other.             *)
(***************************************************************************)
EXTENDS Integers, FiniteSets

CONSTANTS
    WalletTxs,      \* the transactions: what each spends and creates
    Funding,        \* the outputs confirmed at the start
    Worth,          \* the value of every output
    MinValues,      \* the least value asked for: 330, or 1000 to optimize
    UtxoLimit       \* Config.API.UTXO_LIMIT

VARIABLE wallet

Txs == DOMAIN WalletTxs
Spends(ts) == UNION {WalletTxs[t].ins : t \in ts}
Creates(ts) == UNION {WalletTxs[t].outs : t \in ts}
ConflictsOf(t, ts) == {u \in ts \ {t} : WalletTxs[u].ins \cap WalletTxs[t].ins # {}}

\* An output is named by the transaction that creates it.
ASSUME WalletAssumption ==
    /\ \A t \in Txs : WalletTxs[t].outs \cap Funding = {}
    /\ \A t, u \in Txs : t # u => WalletTxs[t].outs \cap WalletTxs[u].outs = {}
    /\ \A o \in Funding \cup Creates(Txs) : Worth[o] \in Nat
    /\ MinValues \subseteq Nat

\* A query: the least value it asks for, what it has read, and (history only)
\* the transactions known when it started, those that have left the mempool or
\* were not settled since, and those that were over a limit.
NoQueryYet ==
    [at |-> "none", least |-> 0, confirmed |-> {}, pending |-> {}, spent |-> {},
     known |-> {}, moving |-> {}, cut |-> {}]

\* chain: what has been mined.  indexed: its block's transactions have been
\* deleted from the mempool; unconflicted: those that conflict with it too.
\* written and marked: its outputs, and what it spends, have been flushed.
WalletStart(n) ==
    [asks |-> n, pool |-> {}, chain |-> {}, indexed |-> {}, unconflicted |-> {},
     written |-> {}, marked |-> {}, query |-> NoQueryYet]

-----------------------------------------------------------------------------
(* The collections.                                                        *)

\* The rows that exist and have no deletedAtBlock.
Unspent(w) == (Funding \cup Creates(w.written)) \ Spends(w.marked)

\* Mined, and in both collections or in neither, or not in all its rows.
Unsettled(w) ==
    {t \in w.chain : t \in w.pool \/ t \notin w.written \/ t \notin w.marked}

\* Every step records what moves while a query runs.
Step(w) ==
    wallet' = IF w.query.at \in {"none", "done"} THEN w
              ELSE [w EXCEPT !.query.moving =
                                 @ \cup Unsettled(w) \cup (wallet.pool \ w.pool)]

\* storeTransaction: a transaction whose inputs exist and that conflicts with
\* no block.
StorePending(t) ==
    /\ t \notin wallet.pool \cup wallet.chain
    /\ WalletTxs[t].ins \subseteq Funding \cup Creates(wallet.pool \cup wallet.chain)
    /\ ConflictsOf(t, wallet.chain) = {}
    /\ Step([wallet EXCEPT !.pool = @ \cup {t}])

\* cleanupEvictedTransactions, after t was stored: what conflicts with it goes,
\* with its descendants.
Descendants(ts, pool) == {u \in pool : WalletTxs[u].ins \cap Creates(ts) # {}}
CleanupEvicted(t) ==
    LET conflicts == ConflictsOf(t, wallet.pool)
        gone == conflicts \cup Descendants(conflicts, wallet.pool)
    IN /\ t \in wallet.pool /\ conflicts # {}
       /\ Step([wallet EXCEPT !.pool = @ \ gone])

\* A block with t on the best chain.
Mine(t) ==
    /\ t \notin wallet.chain
    /\ WalletTxs[t].ins \subseteq Funding \cup Creates(wallet.chain)
    /\ ConflictsOf(t, wallet.chain) = {}
    /\ Step([wallet EXCEPT !.chain = @ \cup {t}])

\* deleteTransactionsById of the block's transactions.
DeleteMined(t) ==
    /\ t \in wallet.chain \ wallet.indexed
    /\ Step([wallet EXCEPT !.indexed = @ \cup {t}, !.pool = @ \ {t}])

\* detectAndRemoveConflictingTransactions: what a transaction of the block
\* conflicts with, without its descendants.
RemoveConflicting(t) ==
    /\ t \in wallet.indexed \ wallet.unconflicted
    /\ LET gone == ConflictsOf(t, wallet.pool)
       IN Step([wallet EXCEPT !.unconflicted = @ \cup {t}, !.pool = @ \ gone])

\* insertTransactions: the outputs of a block are written, and then what it
\* spends is marked, whatever the rows of other blocks.
FlushOutputs(t) ==
    /\ t \in wallet.chain \ wallet.written
    /\ Step([wallet EXCEPT !.written = @ \cup {t}])
FlushSpends(t) ==
    /\ t \in wallet.written \ wallet.marked
    /\ Step([wallet EXCEPT !.marked = @ \cup {t}])

-----------------------------------------------------------------------------
(* The query.                                                              *)

AskUtxos ==
    /\ wallet.query.at \in {"none", "done"} /\ wallet.asks > 0
    /\ LET known == wallet.pool \cup wallet.chain
       IN \E least \in MinValues :
             Step([wallet EXCEPT !.asks = @ - 1,
                                 !.query = [NoQueryYet EXCEPT !.at = "both", !.known = known,
                                                              !.least = least]])

\* What is left to read after the read of one of the two.
Remaining(at, other) == IF at = "both" THEN other ELSE "spent"

\* $limit: as many documents as match, but no more than the limit, are looked
\* at.
Limited(ts) ==
    IF Cardinality(ts) <= UtxoLimit THEN {ts}
    ELSE {s \in SUBSET ts : Cardinality(s) = UtxoLimit}

\* The confirmed outputs of at least the value asked for, the most valuable
\* first.
Richest(os) == {s \in Limited(os) : \A o \in s, u \in os \ s : Worth[o] >= Worth[u]}

GetWalletUnspentUTXOS ==
    /\ wallet.query.at \in {"both", "confirmed"}
    /\ LET worthy == {o \in Unspent(wallet) : Worth[o] >= wallet.query.least}
       IN \E os \in Richest(worthy) :
             Step([wallet EXCEPT !.query.at = Remaining(@, "pending"),
                                 !.query.confirmed = os])

\* The outputs that the pending transactions create.
PendingOutputs(ts) == Creates(ts)

GetPendingTransactions ==
    /\ wallet.query.at \in {"both", "pending"}
    /\ LET paying == {t \in wallet.pool : WalletTxs[t].outs # {}}
       IN \E ts \in Limited(paying) :
             Step([wallet EXCEPT !.query.at = Remaining(@, "confirmed"),
                                 !.query.pending = PendingOutputs(ts),
                                 !.query.cut = @ \cup (paying \ ts)])

\* Mutant: only the confirmed outputs are asked about.
SpentCheckConfirmed(q) == q.confirmed

\* What is asked about: the confirmed and the pending outputs.
SpentCheck(q) == q.confirmed \cup q.pending

FetchSpentUnspentTransactions ==
    /\ wallet.query.at = "spent"
    /\ LET asked == SpentCheck(wallet.query)
           matching == {t \in wallet.pool : WalletTxs[t].ins \cap asked # {}}
       IN \E ts \in Limited(matching) :
             Step([wallet EXCEPT !.query.at = "done",
                                 !.query.spent = Spends(ts) \cap asked,
                                 !.query.cut = @ \cup (matching \ ts)])

WalletStep ==
    \/ \E t \in Txs :
          \/ StorePending(t) \/ CleanupEvicted(t) \/ Mine(t)
          \/ DeleteMined(t) \/ RemoveConflicting(t) \/ FlushOutputs(t) \/ FlushSpends(t)
    \/ AskUtxos \/ GetWalletUnspentUTXOS \/ GetPendingTransactions
    \/ FetchSpentUnspentTransactions

WalletNext == (wallet.asks > 0 \/ wallet.query.at \notin {"none", "done"}) /\ WalletStep

-----------------------------------------------------------------------------

\* The outputs that the answer offers: listed and not said to be spent.
Offered(q) == (q.confirmed \cup q.pending) \ q.spent

\* An output that is worth less than asked for, or no more than anything in a
\* list of confirmed outputs that is as long as the limit.
Unlisted(q, o) ==
    \/ Worth[o] < q.least
    \/ Cardinality(q.confirmed) = UtxoLimit /\ \A c \in q.confirmed : Worth[c] >= Worth[o]

\* An output is offered although a transaction known before the query spends
\* it, or an unspent output of such a transaction is missing, only when that
\* transaction, or the one that created the output, was over the limit, left
\* the mempool during the query, or was mined and not yet settled: its block
\* is indexed and its outputs are flushed by two threads that do not wait for
\* each other (getUTXOs, IndexingTask.process, insertTransactions).  Besides
\* that only a confirmed output of too little value is missing
\* (UTXOsAggregationV3: $match and $limit).
WalletExplained ==
    LET q == wallet.query
        steady == q.known \ (q.moving \cup q.cut)
    IN q.at = "done" =>
          /\ Spends(steady) \cap Offered(q) \cap (Funding \cup Creates(steady)) = {}
          /\ \A o \in Creates(steady) \ (q.confirmed \cup q.pending \cup Spends(wallet.marked)) :
                o \in Creates(wallet.written) /\ Unlisted(q, o)
=============================================================================
