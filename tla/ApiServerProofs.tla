--------------------------- MODULE ApiServerProofs ---------------------------
(***************************************************************************)
(* Theorems about the API thread, for every scenario of requests, faults   *)
(* and blocks and every set of wallet transactions.                        *)
(*                                                                         *)
(* The outputs of a wallet: what makes WalletExplained inductive is that a *)
(* transaction known when the query started and not recorded as moving is  *)
(* on the same side at every read, in the mempool only or on the chain     *)
(* with all its rows written (Placed), so that the reads, although made at *)
(* different times, agree about it (ConfirmedRead, PendingRead).           *)
(*                                                                         *)
(* The tip: what makes TipAgrees inductive is that a listener which has    *)
(* not read yet, or a failed read, stands for every difference between the *)
(* caches of the routes and the storage as it was last polled (TipFollows, *)
(* HeightFollows); requests in between fill caches only where the listener *)
(* has left none (Keeps).                                                  *)
(*                                                                         *)
(* The subscribers: what makes SubscribersTold inductive is that the       *)
(* queue of a client whose socket drains continues what it received, so    *)
(* that the blocks among both are the announcements, in order, and none is *)
(* missing since the subscription (Ordered, Heard), through replies to any *)
(* number of awaiting requests; and that a listener still running stands   *)
(* for every epoch finalized and not announced yet (EpochsFollow).         *)
(*                                                                         *)
(* The answers: what makes AnswersExplained inductive is that whatever a   *)
(* promise has read so far is the storage's or late, at every read of it   *)
(* and ever after (PromiseInv), because the indexer numbers what it writes *)
(* above everything there was (Later); and that the routes remember only   *)
(* promises of this kind (Refs).                                           *)
(***************************************************************************)
EXTENDS ApiServer, SequenceTheorems, FiniteSetTheorems, WellFoundedInduction, TLAPS

Outputs == Funding \cup Creates(Txs)

Queries ==
    [at : {"none", "both", "confirmed", "pending", "spent", "done"},
     least : Nat, confirmed : SUBSET Outputs, pending : SUBSET Outputs, spent : SUBSET Outputs,
     known : SUBSET Txs, moving : SUBSET Txs, cut : SUBSET Txs]

Wallets ==
    [asks : Nat, pool : SUBSET Txs, chain : SUBSET Txs, indexed : SUBSET Txs,
     unconflicted : SUBSET Txs, written : SUBSET Txs, marked : SUBSET Txs,
     query : Queries]

\* A mined transaction spends what was there.
Grounded(w) == \A t \in w.chain : WalletTxs[t].ins \subseteq Funding \cup Creates(w.chain)

\* Known when the query started, and not seen to move since.
Still(q) == q.known \ q.moving

OnlyPending(t, w) == t \in w.pool /\ t \notin w.chain
Completed(t, w) == t \in w.chain /\ t \notin w.pool /\ t \in w.written /\ t \in w.marked

Placed(w) == \A t \in Still(w.query) : OnlyPending(t, w) \/ Completed(t, w)

\* The confirmed outputs have been read: what is completed spends none of them,
\* and what it created is among them, spent, or of too little value.
ConfirmedRead(w) ==
    \A t \in Still(w.query) : t \in w.chain =>
        /\ WalletTxs[t].ins \cap w.query.confirmed = {}
        /\ \A o \in WalletTxs[t].outs \ (w.query.confirmed \cup Spends(w.marked)) :
              Unlisted(w.query, o)

\* The pending outputs have been read: they are what the pending transactions
\* under the limit create, and nothing that is completed does.
PendingRead(w) ==
    /\ w.query.pending \cap Funding = {}
    /\ \A t \in Still(w.query) :
          IF t \in w.pool
              THEN t \notin w.query.cut => WalletTxs[t].outs \subseteq w.query.pending
              ELSE WalletTxs[t].outs \cap w.query.pending = {}

\* What a running query and the collections have in common.
Asking(w) ==
    /\ w.query.at \in {"both", "confirmed", "pending", "spent"} => Placed(w)
    /\ w.query.at \in {"pending", "spent"} => ConfirmedRead(w)
    /\ w.query.at \in {"confirmed", "spent"} => PendingRead(w)

WalletInv == wallet \in Wallets /\ Grounded(wallet) /\ Asking(wallet) /\ WalletExplained

-----------------------------------------------------------------------------
(* The outputs of a wallet *)

\* What is of too little value depends on the value asked for and on the list.
LEMMA SameUnlisted ==
  ASSUME NEW p, NEW q, p.least = q.least, p.confirmed = q.confirmed
  PROVE  \A o : Unlisted(p, o) <=> Unlisted(q, o)
BY DEF Unlisted

\* What a step leaves in the wallet: w, with what moved.
LEMMA StepLeaves ==
  ASSUME NEW w \in Wallets, wallet \in Wallets, Step(w)
  PROVE  /\ wallet' \in Wallets
         /\ wallet'.pool = w.pool /\ wallet'.chain = w.chain
         /\ wallet'.written = w.written /\ wallet'.marked = w.marked
         /\ wallet'.query.at = w.query.at
         /\ wallet'.query.least = w.query.least
         /\ wallet'.query.confirmed = w.query.confirmed
         /\ wallet'.query.pending = w.query.pending
         /\ wallet'.query.spent = w.query.spent
         /\ wallet'.query.known = w.query.known
         /\ wallet'.query.cut = w.query.cut
         /\ w.query.moving \subseteq wallet'.query.moving
         /\ w.query.at \in {"none", "done"} => wallet'.query.moving = w.query.moving
         /\ w.query.at \notin {"none", "done"} =>
               Unsettled(w) \cup (wallet.pool \ w.pool) \subseteq wallet'.query.moving
<1> DEFINE m == w.query.moving \cup Unsettled(w) \cup (wallet.pool \ w.pool)
<1>1. m \in SUBSET Txs
  BY DEF Unsettled, Wallets, Queries
<1> HIDE DEF m
<1>2. CASE w.query.at \in {"none", "done"}
  BY <1>2 DEF Step, Wallets, Queries
<1>3. CASE w.query.at \notin {"none", "done"}
  <2>1. wallet' = [w EXCEPT !.query.moving = m]
    BY <1>3 DEF Step, m
  <2>2. wallet'.query = [w.query EXCEPT !.moving = m]
    BY <2>1 DEF Wallets
  <2>3. wallet'.query \in Queries /\ wallet'.query.moving = m
    BY <2>2, <1>1 DEF Wallets, Queries
  <2>4. /\ wallet'.query.at = w.query.at
        /\ wallet'.query.least = w.query.least
        /\ wallet'.query.confirmed = w.query.confirmed
        /\ wallet'.query.pending = w.query.pending
        /\ wallet'.query.spent = w.query.spent
        /\ wallet'.query.known = w.query.known
        /\ wallet'.query.cut = w.query.cut
    BY <2>2 DEF Wallets, Queries
  <2>5. wallet' \in Wallets /\ wallet'.pool = w.pool /\ wallet'.chain = w.chain
           /\ wallet'.written = w.written /\ wallet'.marked = w.marked
    BY <2>1, <2>3 DEF Wallets
  <2> QED BY <1>3, <2>3, <2>4, <2>5 DEF m
<1> QED BY <1>2, <1>3

\* The writers of the collections: what is mined, written or marked stays so,
\* and what is added to the mempool was nowhere.
LEMMA WritersKeep ==
  ASSUME WalletInv, NEW w \in Wallets, Step(w), w.query = wallet.query,
         wallet.chain \subseteq w.chain, wallet.written \subseteq w.written,
         wallet.marked \subseteq w.marked, Grounded(w)
  PROVE  WalletInv'
<1> USE DEF WalletInv
<1>1. Spends(wallet.marked) \subseteq Spends(w.marked)
  BY DEF Spends
<1>2. wallet' \in Wallets /\ Grounded(wallet')
  BY StepLeaves DEF Grounded
<1>3. WalletExplained'
  <2>1. CASE wallet.query.at = "done"
    <3>1. wallet'.query = wallet.query /\ wallet'.marked = w.marked
      BY <2>1, StepLeaves DEF Step
    <3>2. Creates(wallet.written) \subseteq Creates(w.written) /\ wallet'.written = w.written
      BY StepLeaves DEF Creates
    <3> QED BY <2>1, <3>1, <3>2, <1>1 DEF WalletExplained, Offered
  <2>2. CASE wallet.query.at # "done"
    BY <2>2, StepLeaves DEF WalletExplained
  <2> QED BY <2>1, <2>2
<1>4. CASE wallet.query.at \in {"none", "done"}
  BY <1>2, <1>3, <1>4, StepLeaves DEF Asking
<1>5. CASE wallet.query.at \in {"both", "confirmed", "pending", "spent"}
  <2>1. wallet'.pool = w.pool /\ wallet'.chain = w.chain
           /\ wallet'.written = w.written /\ wallet'.marked = w.marked
           /\ wallet'.query.at = wallet.query.at
           /\ wallet'.query.least = wallet.query.least
           /\ wallet'.query.confirmed = wallet.query.confirmed
           /\ wallet'.query.pending = wallet.query.pending
           /\ wallet'.query.known = wallet.query.known
           /\ wallet'.query.cut = wallet.query.cut
           /\ wallet.query.moving \subseteq wallet'.query.moving
           /\ Unsettled(w) \cup (wallet.pool \ w.pool) \subseteq wallet'.query.moving
    BY <1>5, StepLeaves
  <2>2. ASSUME NEW t \in Still(wallet'.query)
        PROVE  /\ t \in Still(wallet.query)
               /\ \/ OnlyPending(t, wallet) /\ OnlyPending(t, w)
                  \/ Completed(t, wallet) /\ Completed(t, w)
    <3>1. t \in Still(wallet.query) /\ t \notin Unsettled(w) /\ t \notin wallet.pool \ w.pool
      BY <2>1 DEF Still
    <3>2. OnlyPending(t, wallet) \/ Completed(t, wallet)
      BY <1>5, <3>1 DEF Asking, Placed
    <3> QED BY <3>1, <3>2 DEF OnlyPending, Completed, Unsettled
  <2>3. Placed(wallet')
    BY <2>1, <2>2 DEF Placed, OnlyPending, Completed
  <2>4. ConfirmedRead(wallet) => ConfirmedRead(wallet')
    <3>1. \A o : Unlisted(wallet'.query, o) <=> Unlisted(wallet.query, o)
      BY <2>1, SameUnlisted
    <3> QED BY <2>1, <2>2, <3>1, <1>1 DEF ConfirmedRead, OnlyPending, Completed
  <2>5. PendingRead(wallet) => PendingRead(wallet')
    BY <2>1, <2>2 DEF PendingRead, OnlyPending, Completed
  <2> QED BY <1>2, <1>3, <2>1, <2>3, <2>4, <2>5 DEF Asking
<1> QED BY <1>4, <1>5 DEF Wallets, Queries

\* Every step of the mempool, the chain and the synchronisation workers.
LEMMA WritersPreserve ==
  ASSUME WalletInv, NEW t \in Txs,
         \/ StorePending(t) \/ CleanupEvicted(t) \/ Mine(t) \/ DeleteMined(t)
         \/ RemoveConflicting(t) \/ FlushOutputs(t) \/ FlushSpends(t)
  PROVE  WalletInv'
<1>0. wallet \in Wallets /\ Grounded(wallet)
  BY DEF WalletInv
<1>1. ASSUME NEW ts \in SUBSET Txs, Step([wallet EXCEPT !.pool = ts])
      PROVE  WalletInv'
  <2> DEFINE w == [wallet EXCEPT !.pool = ts]
  <2>1. /\ w \in Wallets /\ w.query = wallet.query /\ w.chain = wallet.chain
        /\ w.written = wallet.written /\ w.marked = wallet.marked
    BY <1>0, <1>1 DEF Wallets
  <2>2. Step(w)
    BY <1>1
  <2> HIDE DEF w
  <2> QED BY <2>1, <2>2, <1>0, WritersKeep DEF Grounded
<1>2. CASE StorePending(t)
  <2>1. wallet.pool \cup {t} \in SUBSET Txs
    BY <1>0 DEF Wallets
  <2> QED BY <2>1, <1>1, <1>2 DEF StorePending
<1>3. CASE CleanupEvicted(t)
  <2>1. PICK gone : Step([wallet EXCEPT !.pool = wallet.pool \ gone])
    BY <1>3, Zenon DEF CleanupEvicted
  <2>2. wallet.pool \ gone \in SUBSET Txs
    BY <1>0 DEF Wallets
  <2> QED BY <2>1, <2>2, <1>1
<1>4. CASE Mine(t)
  <2> DEFINE w == [wallet EXCEPT !.chain = wallet.chain \cup {t}]
  <2>1. /\ w \in Wallets /\ w.query = wallet.query /\ w.chain = wallet.chain \cup {t}
        /\ w.written = wallet.written /\ w.marked = wallet.marked
    BY <1>0 DEF Wallets
  <2>2. Step(w) /\ WalletTxs[t].ins \subseteq Funding \cup Creates(wallet.chain)
    BY <1>4 DEF Mine
  <2> HIDE DEF w
  <2>3. Creates(wallet.chain) \subseteq Creates(w.chain)
    BY <2>1 DEF Creates
  <2>4. Grounded(w)
    BY <2>1, <2>2, <2>3, <1>0 DEF Grounded
  <2> QED BY <2>1, <2>2, <2>4, WritersKeep
<1>5. CASE DeleteMined(t)
  <2> DEFINE w == [wallet EXCEPT !.indexed = wallet.indexed \cup {t}, !.pool = wallet.pool \ {t}]
  <2>1. /\ w \in Wallets /\ w.query = wallet.query /\ w.chain = wallet.chain
        /\ w.written = wallet.written /\ w.marked = wallet.marked
    BY <1>0 DEF Wallets
  <2>2. Step(w)
    BY <1>5 DEF DeleteMined
  <2> HIDE DEF w
  <2> QED BY <2>1, <2>2, <1>0, WritersKeep DEF Grounded
<1>6. CASE RemoveConflicting(t)
  <2> DEFINE w == [wallet EXCEPT !.unconflicted = wallet.unconflicted \cup {t},
                                 !.pool = wallet.pool \ ConflictsOf(t, wallet.pool)]
  <2>1. /\ w \in Wallets /\ w.query = wallet.query /\ w.chain = wallet.chain
        /\ w.written = wallet.written /\ w.marked = wallet.marked
    BY <1>0 DEF Wallets
  <2>2. Step(w)
    BY <1>6 DEF RemoveConflicting
  <2> HIDE DEF w
  <2> QED BY <2>1, <2>2, <1>0, WritersKeep DEF Grounded
<1>7. CASE FlushOutputs(t)
  <2> DEFINE w == [wallet EXCEPT !.written = wallet.written \cup {t}]
  <2>1. /\ w \in Wallets /\ w.query = wallet.query /\ w.chain = wallet.chain
        /\ w.written = wallet.written \cup {t} /\ w.marked = wallet.marked
    BY <1>0 DEF Wallets
  <2>2. Step(w)
    BY <1>7 DEF FlushOutputs
  <2> HIDE DEF w
  <2> QED BY <2>1, <2>2, <1>0, WritersKeep DEF Grounded
<1>8. CASE FlushSpends(t)
  <2> DEFINE w == [wallet EXCEPT !.marked = wallet.marked \cup {t}]
  <2>1. /\ w \in Wallets /\ w.query = wallet.query /\ w.chain = wallet.chain
        /\ w.written = wallet.written /\ w.marked = wallet.marked \cup {t}
    BY <1>0 DEF Wallets
  <2>2. Step(w)
    BY <1>8 DEF FlushSpends
  <2> HIDE DEF w
  <2> QED BY <2>1, <2>2, <1>0, WritersKeep DEF Grounded
<1> QED BY <1>2, <1>3, <1>4, <1>5, <1>6, <1>7, <1>8

\* A read of the query: q is the query after it, and the collections stay.
LEMMA ReadLeaves ==
  ASSUME WalletInv, NEW q \in Queries, Step([wallet EXCEPT !.query = q]),
         q.at \in {"both", "confirmed", "pending", "spent"}
  PROVE  /\ wallet' \in Wallets /\ Grounded(wallet') /\ WalletExplained'
         /\ wallet'.pool = wallet.pool /\ wallet'.chain = wallet.chain
         /\ wallet'.written = wallet.written /\ wallet'.marked = wallet.marked
         /\ wallet'.query.at = q.at /\ wallet'.query.known = q.known
         /\ wallet'.query.least = q.least
         /\ wallet'.query.confirmed = q.confirmed
         /\ wallet'.query.pending = q.pending /\ wallet'.query.cut = q.cut
         /\ q.moving \subseteq wallet'.query.moving
         /\ Unsettled(wallet) \subseteq wallet'.query.moving
<1> DEFINE w == [wallet EXCEPT !.query = q]
<1>1. /\ w \in Wallets /\ w.query = q /\ w.chain = wallet.chain /\ w.pool = wallet.pool
      /\ w.written = wallet.written /\ w.marked = wallet.marked
  BY DEF Wallets, WalletInv
<1>2. Step(w) /\ wallet \in Wallets /\ Grounded(wallet)
  BY DEF WalletInv
<1> HIDE DEF w
<1>3. Unsettled(w) = Unsettled(wallet)
  BY <1>1 DEF Unsettled
<1>4. wallet'.query.at # "done"
  BY <1>1, <1>2, StepLeaves
<1> QED BY <1>1, <1>2, <1>3, <1>4, StepLeaves DEF Grounded, WalletExplained

LEMMA AskPreserves ==
  ASSUME WalletInv, AskUtxos
  PROVE  WalletInv'
<1>a. PICK least \in MinValues :
        Step([wallet EXCEPT !.asks = @ - 1,
                            !.query = [NoQueryYet EXCEPT !.at = "both",
                                                         !.known = wallet.pool \cup wallet.chain,
                                                         !.least = least]])
  BY DEF AskUtxos
<1> DEFINE q == [NoQueryYet EXCEPT !.at = "both", !.known = wallet.pool \cup wallet.chain,
                                   !.least = least]
           w == [wallet EXCEPT !.asks = wallet.asks - 1, !.query = q]
<1>0. wallet \in Wallets /\ Grounded(wallet) /\ wallet.asks > 0
  BY DEF WalletInv, AskUtxos
<1>1. /\ q \in Queries /\ q.at = "both" /\ q.known = wallet.pool \cup wallet.chain
      /\ q.moving = {}
  BY <1>0, WalletAssumption DEF Queries, NoQueryYet, Wallets
<1>2. Step(w)
  BY <1>a
<1> HIDE DEF q
<1>3. /\ w \in Wallets /\ w.query = q /\ w.pool = wallet.pool /\ w.chain = wallet.chain
      /\ w.written = wallet.written /\ w.marked = wallet.marked
  <2> DEFINE n == wallet.asks - 1
  <2>1. n \in Nat
    BY <1>0 DEF Wallets
  <2>2. w = [wallet EXCEPT !.asks = n, !.query = q]
    OBVIOUS
  <2> HIDE DEF n, w
  <2> QED BY <1>0, <1>1, <2>1, <2>2 DEF Wallets
<1> HIDE DEF w
<1>4. /\ wallet' \in Wallets /\ wallet'.query.at = "both"
      /\ wallet'.query.known = wallet.pool \cup wallet.chain
      /\ wallet'.pool = wallet.pool /\ wallet'.chain = wallet.chain
      /\ wallet'.written = wallet.written /\ wallet'.marked = wallet.marked
      /\ Unsettled(w) \subseteq wallet'.query.moving
  BY <1>0, <1>1, <1>2, <1>3, StepLeaves
<1>5. Placed(wallet')
  BY <1>3, <1>4 DEF Placed, Still, OnlyPending, Completed, Unsettled
<1> QED BY <1>0, <1>4, <1>5 DEF WalletInv, Grounded, Asking, WalletExplained

\* Nothing settles or moves by a read.
LEMMA StillPlaced ==
  ASSUME WalletInv, NEW q \in Queries, Step([wallet EXCEPT !.query = q]),
         wallet.query.at \in {"both", "confirmed", "pending", "spent"},
         q.at \in {"both", "confirmed", "pending", "spent"},
         q.known = wallet.query.known, q.moving = wallet.query.moving
  PROVE  /\ Placed(wallet')
         /\ \A t \in Still(wallet'.query) : t \in Still(wallet.query)
<1>1. \A t \in Still(wallet'.query) : t \in Still(wallet.query)
  BY ReadLeaves DEF Still
<1>2. Placed(wallet)
  BY DEF WalletInv, Asking
<1>3. wallet'.pool = wallet.pool /\ wallet'.chain = wallet.chain
         /\ wallet'.written = wallet.written /\ wallet'.marked = wallet.marked
  BY ReadLeaves
<1> QED BY <1>1, <1>2, <1>3 DEF Placed, OnlyPending, Completed

\* $limit takes no other documents than those that match.
LEMMA LimitedIs ==
  ASSUME NEW ts, NEW s \in Limited(ts)
  PROVE  s \subseteq ts
BY DEF Limited

LEMMA ConfirmedPreserves ==
  ASSUME WalletInv, GetWalletUnspentUTXOS
  PROVE  WalletInv'
<1> DEFINE to == IF wallet.query.at = "both" THEN "pending" ELSE "spent"
           least == wallet.query.least
           worthy == {o \in Unspent(wallet) : Worth[o] >= least}
<1>0. wallet \in Wallets /\ wallet.query \in Queries /\ wallet.query.at \in {"both", "confirmed"}
  BY DEF WalletInv, GetWalletUnspentUTXOS, Wallets
<1>a. PICK os \in Richest(worthy) :
        Step([wallet EXCEPT !.query.at = Remaining(wallet.query.at, "pending"),
                            !.query.confirmed = os])
  BY DEF GetWalletUnspentUTXOS
<1> DEFINE q == [wallet.query EXCEPT !.at = to, !.confirmed = os]
<1>1. os \subseteq worthy /\ worthy \subseteq Unspent(wallet) /\ Unspent(wallet) \subseteq Outputs
  BY <1>0, LimitedIs DEF Richest, Unspent, Outputs, Creates, Wallets
<1>2. Step([wallet EXCEPT !.query = q])
  BY <1>0, <1>a DEF Remaining, Wallets, Queries
<1>b. ASSUME NEW o \in Unspent(wallet), o \notin os
      PROVE  Unlisted([least |-> least, confirmed |-> os], o)
  <2>1. o \in Outputs /\ Worth[o] \in Nat /\ least \in Nat
    BY <1>0, <1>1, WalletAssumption DEF Outputs, Queries
  <2>2. CASE o \in worthy
    <3>1. os # worthy /\ \A c \in os : Worth[c] >= Worth[o]
      BY <1>b, <2>2 DEF Richest
    <3>2. Cardinality(os) = UtxoLimit
      BY <3>1 DEF Richest, Limited
    <3> QED BY <3>1, <3>2 DEF Unlisted
  <2>3. CASE o \notin worthy
    BY <2>1, <2>3 DEF Unlisted
  <2> QED BY <2>2, <2>3
<1>3. /\ q \in Queries /\ q.at = to /\ q.confirmed = os /\ q.least = least
      /\ q.known = wallet.query.known /\ q.moving = wallet.query.moving
      /\ q.pending = wallet.query.pending /\ q.cut = wallet.query.cut
  BY <1>0, <1>1 DEF Queries
<1> HIDE DEF q
<1>4. /\ wallet' \in Wallets /\ Grounded(wallet') /\ WalletExplained'
      /\ wallet'.pool = wallet.pool /\ wallet'.chain = wallet.chain
      /\ wallet'.marked = wallet.marked
      /\ wallet'.query.at = to /\ wallet'.query.confirmed = os
      /\ wallet'.query.least = least
      /\ wallet'.query.pending = wallet.query.pending
      /\ wallet'.query.cut = wallet.query.cut
  BY <1>0, <1>2, <1>3, ReadLeaves
<1>5. /\ Placed(wallet')
      /\ \A t \in Still(wallet'.query) : t \in Still(wallet.query)
  BY <1>0, <1>2, <1>3, StillPlaced
<1>6. ConfirmedRead(wallet')
  <2> SUFFICES ASSUME NEW t \in Still(wallet'.query), t \in wallet'.chain
               PROVE  /\ WalletTxs[t].ins \cap wallet'.query.confirmed = {}
                      /\ \A o \in WalletTxs[t].outs
                                  \ (wallet'.query.confirmed \cup Spends(wallet'.marked)) :
                            Unlisted(wallet'.query, o)
    BY DEF ConfirmedRead
  <2>1. Completed(t, wallet)
    <3>1. Placed(wallet) /\ t \in Still(wallet.query) /\ t \in wallet.chain
      BY <1>0, <1>4, <1>5 DEF WalletInv, Asking
    <3> QED BY <3>1 DEF Placed, OnlyPending
  <2>2. WalletTxs[t].ins \subseteq Spends(wallet.marked)
    BY <2>1 DEF Completed, Spends
  <2>3. WalletTxs[t].outs \subseteq Creates(wallet.written)
    BY <2>1 DEF Completed, Creates
  <2>4. \A o : Unlisted([least |-> least, confirmed |-> os], o) <=> Unlisted(wallet'.query, o)
    BY <1>4, SameUnlisted
  <2> QED BY <1>1, <1>4, <1>b, <2>2, <2>3, <2>4 DEF Unspent
<1>7. wallet.query.at = "confirmed" => PendingRead(wallet')
  <2>1. wallet.query.at = "confirmed" => PendingRead(wallet)
    BY DEF WalletInv, Asking
  <2> QED BY <2>1, <1>4, <1>5 DEF PendingRead
<1> QED BY <1>0, <1>4, <1>5, <1>6, <1>7 DEF WalletInv, Asking

LEMMA PendingPreserves ==
  ASSUME WalletInv, GetPendingTransactions
  PROVE  WalletInv'
<1> DEFINE paying == {t \in wallet.pool : WalletTxs[t].outs # {}}
           to == IF wallet.query.at = "both" THEN "confirmed" ELSE "spent"
<1>0. wallet \in Wallets /\ wallet.query \in Queries /\ wallet.query.at \in {"both", "pending"}
  BY DEF WalletInv, GetPendingTransactions, Wallets
<1>1. PICK ts \in Limited(paying) :
        Step([wallet EXCEPT !.query.at = Remaining(wallet.query.at, "confirmed"),
                            !.query.pending = PendingOutputs(ts),
                            !.query.cut = wallet.query.cut \cup (paying \ ts)])
  BY DEF GetPendingTransactions
<1> DEFINE cut == wallet.query.cut \cup (paying \ ts)
           q == [wallet.query EXCEPT !.at = to, !.pending = Creates(ts), !.cut = cut]
<1>2. ts \subseteq paying
  BY LimitedIs
<1>3. ts \subseteq Txs /\ ts \subseteq wallet.pool /\ cut \subseteq Txs /\ Creates(ts) \subseteq Outputs
  BY <1>0, <1>2 DEF Wallets, Queries, Outputs, Creates
<1>4. Step([wallet EXCEPT !.query = q])
  BY <1>0, <1>1 DEF Remaining, PendingOutputs, Wallets, Queries
<1> HIDE DEF cut
<1>5. /\ q \in Queries /\ q.at = to /\ q.confirmed = wallet.query.confirmed
      /\ q.known = wallet.query.known /\ q.moving = wallet.query.moving
      /\ q.least = wallet.query.least /\ q.pending = Creates(ts) /\ q.cut = cut
  BY <1>0, <1>3 DEF Queries
<1> HIDE DEF q
<1>6. /\ wallet' \in Wallets /\ Grounded(wallet') /\ WalletExplained'
      /\ wallet'.pool = wallet.pool /\ wallet'.chain = wallet.chain
      /\ wallet'.marked = wallet.marked
      /\ wallet'.query.at = to /\ wallet'.query.confirmed = wallet.query.confirmed
      /\ wallet'.query.pending = Creates(ts) /\ wallet'.query.cut = cut
      /\ wallet'.query.least = wallet.query.least
  BY <1>0, <1>4, <1>5, ReadLeaves
<1>7. /\ Placed(wallet')
      /\ \A t \in Still(wallet'.query) : t \in Still(wallet.query)
  BY <1>0, <1>4, <1>5, StillPlaced
<1>8. wallet.query.at = "pending" => ConfirmedRead(wallet')
  <2>1. wallet.query.at = "pending" => ConfirmedRead(wallet)
    BY DEF WalletInv, Asking
  <2>2. \A o : Unlisted(wallet'.query, o) <=> Unlisted(wallet.query, o)
    BY <1>6, SameUnlisted
  <2> QED BY <2>1, <2>2, <1>6, <1>7 DEF ConfirmedRead
<1>9. PendingRead(wallet')
  <2>1. Creates(ts) \cap Funding = {}
    BY <1>3, WalletAssumption DEF Creates
  <2>2. ASSUME NEW t \in Still(wallet'.query), t \in wallet'.pool, t \notin wallet'.query.cut
        PROVE  WalletTxs[t].outs \subseteq wallet'.query.pending
    BY <1>6, <2>2 DEF cut, Creates
  <2>3. ASSUME NEW t \in Still(wallet'.query), t \notin wallet'.pool
        PROVE  WalletTxs[t].outs \cap wallet'.query.pending = {}
    <3>1. t \in Txs /\ t \notin ts
      BY <1>0, <1>3, <1>6, <1>7, <2>3 DEF Still, Queries
    <3>2. \A u \in ts : WalletTxs[t].outs \cap WalletTxs[u].outs = {}
      BY <3>1, <1>3, WalletAssumption
    <3> QED BY <3>2, <1>6 DEF Creates
  <2> QED BY <1>6, <2>1, <2>2, <2>3 DEF PendingRead
<1> QED BY <1>0, <1>6, <1>7, <1>8, <1>9 DEF WalletInv, Asking

\* The answer: what the reads say of a transaction that stayed where it was.
LEMMA SpentPreserves ==
  ASSUME WalletInv, FetchSpentUnspentTransactions
  PROVE  WalletInv'
<1> DEFINE asked == wallet.query.confirmed \cup wallet.query.pending
           matching == {t \in wallet.pool : WalletTxs[t].ins \cap asked # {}}
<1>0. wallet \in Wallets /\ wallet.query \in Queries /\ wallet.query.at = "spent"
  BY DEF WalletInv, FetchSpentUnspentTransactions, Wallets
<1>1. PICK ts \in Limited(matching) :
        Step([wallet EXCEPT !.query.at = "done", !.query.spent = Spends(ts) \cap asked,
                            !.query.cut = wallet.query.cut \cup (matching \ ts)])
  BY DEF FetchSpentUnspentTransactions, SpentCheck
<1> DEFINE cut == wallet.query.cut \cup (matching \ ts)
           spent == Spends(ts) \cap asked
           q == [wallet.query EXCEPT !.at = "done", !.spent = spent, !.cut = cut]
           w == [wallet EXCEPT !.query = q]
<1>2. ts \subseteq matching
  BY LimitedIs
<1>3. cut \subseteq Txs /\ spent \subseteq Outputs
  BY <1>0 DEF Wallets, Queries
<1>4. Step(w)
  BY <1>0, <1>1 DEF Wallets, Queries
<1> HIDE DEF cut, spent
<1>5. /\ q \in Queries /\ q.at = "done" /\ q.confirmed = wallet.query.confirmed
      /\ q.known = wallet.query.known /\ q.moving = wallet.query.moving
      /\ q.pending = wallet.query.pending /\ q.cut = cut /\ q.spent = spent
      /\ q.least = wallet.query.least
  BY <1>0, <1>3 DEF Queries
<1> HIDE DEF q
<1>6. /\ w \in Wallets /\ w.query = q /\ w.pool = wallet.pool
      /\ w.chain = wallet.chain /\ w.marked = wallet.marked /\ w.written = wallet.written
  BY <1>0, <1>5 DEF Wallets
<1>7. wallet' = w
  BY <1>4, <1>5, <1>6 DEF Step
<1> HIDE DEF w
<1>8. Placed(wallet) /\ ConfirmedRead(wallet) /\ PendingRead(wallet) /\ Grounded(wallet)
  BY <1>0 DEF WalletInv, Asking
<1> DEFINE steady == q.known \ (q.moving \cup q.cut)
<1>9. \A t \in steady : t \in Still(wallet.query) /\ t \notin wallet.query.cut
                          /\ t \notin matching \ ts /\ t \in Txs
  BY <1>0, <1>5 DEF Still, cut, Queries
<1>10. Offered(q) = asked \ spent
  BY <1>5 DEF Offered
<1>11. ASSUME NEW t \in steady, NEW o \in WalletTxs[t].ins, o \in asked,
              o \in Funding \cup Creates(steady)
       PROVE  o \in spent
  <2>0. t \in Still(wallet.query) /\ t \notin matching \ ts
    BY <1>9
  <2>1. CASE OnlyPending(t, wallet)
    <3>1. t \in matching
      BY <1>11, <2>1 DEF OnlyPending
    <3>2. t \in ts
      BY <3>1, <2>0
    <3> QED BY <3>2, <1>11 DEF spent, Spends
  <2>2. CASE Completed(t, wallet)
    <3>1. o \notin wallet.query.confirmed
      BY <1>8, <2>0, <2>2 DEF ConfirmedRead, Completed
    <3>2. o \in wallet.query.pending
      BY <1>11, <3>1
    <3>3. o \notin Funding
      BY <1>8, <3>2 DEF PendingRead
    <3>4. PICK u \in steady : o \in WalletTxs[u].outs
      BY <1>11, <3>3 DEF Creates
    <3>5. PICK v \in wallet.chain : o \in WalletTxs[v].outs
      BY <1>8, <2>2, <3>3 DEF Grounded, Completed, Creates
    <3>6. u = v
      <4>1. u \in Txs /\ v \in Txs
        BY <1>0, <1>9 DEF Wallets
      <4> QED BY <4>1, <3>4, <3>5, WalletAssumption
    <3>7. u \notin wallet.pool /\ u \in Still(wallet.query)
      BY <3>5, <3>6, <1>8, <1>9 DEF Placed, OnlyPending, Completed
    <3>8. WalletTxs[u].outs \cap wallet.query.pending = {}
      BY <3>7, <1>8 DEF PendingRead
    <3> QED BY <3>8, <3>4, <3>2
  <2> QED BY <2>0, <2>1, <2>2, <1>8 DEF Placed
<1>12. Spends(steady) \cap Offered(q) \cap (Funding \cup Creates(steady)) = {}
  BY <1>10, <1>11 DEF Spends
<1>13. ASSUME NEW t \in steady,
              NEW o \in WalletTxs[t].outs \ (asked \cup Spends(wallet.marked))
       PROVE  o \in Creates(wallet.written) /\ Unlisted(q, o)
  <2>0. t \in Still(wallet.query) /\ t \notin wallet.query.cut
    BY <1>9
  <2>1. CASE OnlyPending(t, wallet)
    BY <2>0, <2>1, <1>8 DEF PendingRead, OnlyPending
  <2>2. CASE Completed(t, wallet)
    <3>1. Unlisted(wallet.query, o)
      BY <2>0, <2>2, <1>8 DEF ConfirmedRead, Completed
    <3>2. \A u : Unlisted(wallet.query, u) <=> Unlisted(q, u)
      BY <1>5, SameUnlisted
    <3> QED BY <3>1, <3>2, <2>2 DEF Completed, Creates
  <2> QED BY <2>0, <2>1, <2>2, <1>8 DEF Placed
<1>14. \A o \in Creates(steady) \ (asked \cup Spends(wallet.marked)) :
          o \in Creates(wallet.written) /\ Unlisted(q, o)
  BY <1>13 DEF Creates
<1>15. WalletExplained'
  BY <1>5, <1>6, <1>7, <1>12, <1>14 DEF WalletExplained
<1>16. Grounded(wallet')
  BY <1>6, <1>7, <1>8 DEF Grounded
<1> QED BY <1>5, <1>6, <1>7, <1>15, <1>16 DEF WalletInv, Asking

LEMMA WalletStarts ==
  ASSUME NEW n \in Nat, wallet = WalletStart(n)
  PROVE  WalletInv
<1>1. NoQueryYet \in Queries /\ NoQueryYet.at = "none"
  BY DEF NoQueryYet, Queries
<1>2. wallet \in Wallets /\ wallet.chain = {} /\ wallet.query.at = "none"
  BY <1>1 DEF WalletStart, Wallets
<1> QED BY <1>2 DEF WalletInv, Grounded, Asking, WalletExplained

\* Whatever is offered or missing in the answer about a wallet is explained,
\* for any transactions and any limit: UTXOsRoute and getUTXOs read three times
\* while the mempool, the indexer and the synchronisation workers write.
THEOREM WalletsAreExplained == Spec => []WalletExplained
<1>1. Init => WalletInv
  BY WalletStarts, ScenariosAssumption DEF Init
<1>2. WalletInv /\ [Next]_vars => WalletInv'
  <2> SUFFICES ASSUME WalletInv, [Next]_vars PROVE WalletInv'
    OBVIOUS
  <2>1. CASE WalletStep
    BY <2>1, WritersPreserve, AskPreserves, ConfirmedPreserves, PendingPreserves,
       SpentPreserves DEF WalletStep
  <2>2. CASE UNCHANGED wallet
    BY <2>2 DEF WalletInv, Grounded, Asking, Placed, ConfirmedRead, PendingRead,
       WalletExplained, OnlyPending, Completed
  <2> QED BY <2>1, <2>2 DEF Next, WalletNext, vars
<1>3. WalletInv => WalletExplained
  BY DEF WalletInv
<1> QED BY <1>1, <1>2, <1>3, PTL DEF Spec

-----------------------------------------------------------------------------
(* The tip *)

CacheFields ==
    {"current", "latest", "gas", "epoch", "epochFresh", "currentEpoch", "height",
     "template", "preimage", "blocks", "epochs", "pendingRequests", "wsHeight",
     "lastFinalizedEpoch"}
StoreFields == {"blocks", "bodies", "tables", "epochs", "info", "step", "pending",
                "submissions", "next"}
FeedFields == {"polled", "running", "seen", "failed", "overlapped", "skipped", "told",
               "toldEpochs"}

Headers == [block : Nat, number : Int]
Listeners == [height : Int, header : Headers, epoch : Int]

\* Of the types, only what the tip depends on.
TipTypes ==
    /\ DOMAIN cache = CacheFields /\ DOMAIN store = StoreFields /\ DOMAIN feed = FeedFields
    /\ store.blocks \in Seq(Nat) /\ store.info \in Int /\ store.pending \in Int
    /\ store.next \in Nat /\ Len(store.blocks) >= 1
    /\ (store.step = "purge" /\ "headers" \in store.tables) =>
           store.pending \in 1..Len(store.blocks)
    /\ feed.polled \in Int /\ feed.running \in Seq(Listeners) /\ feed.seen \in Nat
    /\ feed.failed \in BOOLEAN /\ feed.overlapped \in BOOLEAN

\* A listener has yet to announce the latest header.
Reading(running) == \E k \in DOMAIN running : running[k].epoch = -1

\* The routes have the latest block.
Fresh(c, s) ==
    /\ c.current = GetLatestBlock(s)
    /\ c.latest = Value(Height(s))
    /\ c.gas = Value(GetLatestBlock(s))

\* The listeners have read the latest header, or none.
Informed(running, s) == \A k \in DOMAIN running : running[k].header \in {NoHeader, Header(s)}

\* Nothing was written since the last poll, which found no listener running:
\* the routes have the latest block, or will be told.
TipFollows ==
    (feed.seen = store.next /\ ~feed.overlapped) =>
        /\ feed.failed \/ Reading(feed.running) \/ Fresh(cache, store)
        /\ Informed(feed.running, store)

\* Without an overlap there is one listener at most, for the height polled
\* last, and the routes have that height or will be told.
HeightFollows ==
    ~feed.overlapped =>
        /\ Len(feed.running) <= 1
        /\ \A k \in DOMAIN feed.running : feed.running[k].height = feed.polled
        /\ \/ feed.failed \/ Reading(feed.running)
           \/ cache.height = feed.polled /\ cache.wsHeight = feed.polled

TipInv == TipTypes /\ feed.seen <= store.next /\ TipFollows /\ HeightFollows

\* The tip is the same in d as in c.
Keeps(c, d) ==
    /\ DOMAIN d = CacheFields
    /\ d.current = c.current /\ d.height = c.height /\ d.wsHeight = c.wsHeight
    /\ d.lastFinalizedEpoch = c.lastFinalizedEpoch
    /\ c.latest.is = "value" => d.latest = c.latest
    /\ c.gas.is = "value" => d.gas = c.gas

\* The caches after a route are the ones it returns, whatever it answers.
LEMMA ReturnsCache ==
  ASSUME NEW c, NEW a, NEW p, NEW q
  PROVE  /\ Returns(c, a).cache = c
         /\ Awaits(c, p).cache = c
         /\ AwaitsNew(c, q).cache = c
         /\ Await(c, p).cache = c
<1>1. \A b : Returns(c, b).cache = c /\ "cache" \in DOMAIN Returns(c, b)
  BY DEF Returns
<1>2. \A r : Awaits(c, r).cache = c /\ "cache" \in DOMAIN Awaits(c, r)
  BY <1>1 DEF Awaits
<1>3. AwaitsNew(c, q).cache = c
  BY <1>2 DEF AwaitsNew
<1>4. Await(c, p).cache = c
  BY <1>1, <1>2 DEF Await
<1> QED BY <1>1, <1>2, <1>3, <1>4

\* A request leaves the tip alone: it fills what is empty.
LEMMA AskKeeps ==
  ASSUME DOMAIN cache = CacheFields, NEW q
  PROVE  Keeps(cache, Ask(q).cache)
<1>0. Keeps(cache, cache)
  BY DEF Keeps
<1>f. \A v : /\ Keeps(cache, [cache EXCEPT !.blocks = v])
            /\ Keeps(cache, [cache EXCEPT !.epochs = v])
            /\ Keeps(cache, [cache EXCEPT !.epoch = v])
            /\ Keeps(cache, [cache EXCEPT !.template.p = v])
            /\ Keeps(cache, [cache EXCEPT !.preimage.p = v])
  BY DEF Keeps, CacheFields
<1>g. \A v : cache.latest.is # "value" => Keeps(cache, [cache EXCEPT !.latest = v])
  BY DEF Keeps, CacheFields
<1>h. \A v : cache.gas.is # "value" => Keeps(cache, [cache EXCEPT !.gas = v])
  BY DEF Keeps, CacheFields
<1>r. \A c, a : /\ Returns(c, a).cache = c /\ Await(c, a).cache = c
               /\ AwaitsNew(c, a).cache = c
  BY ReturnsCache
<1>1. Keeps(cache, GetCachedBlockData(q).cache)
  <2>1. \/ GetCachedBlockData(q).cache = cache
        \/ GetCachedBlockData(q).cache
              = [cache EXCEPT !.blocks = SetToCache(cache.blocks, q, NewPromise)]
    BY <1>r DEF GetCachedBlockData
  <2> QED BY <2>1, <1>0, <1>f
<1>2. Keeps(cache, GetCachedEpochData(q).cache)
  <2>1. \/ GetCachedEpochData(q).cache = cache
        \/ GetCachedEpochData(q).cache
              = [cache EXCEPT !.epochs = SetToCache(cache.epochs, q, NewPromise)]
    BY <1>r DEF GetCachedEpochData
  <2> QED BY <2>1, <1>0, <1>f
<1>3. Keeps(cache, LatestBlockHeader(q).cache)
  <2>1. CASE cache.latest.is \in {"value", "promise"}
    <3>1. LatestBlockHeader(q).cache = cache
      BY <1>r, <2>1 DEF LatestBlockHeader
    <3> QED BY <3>1, <1>0
  <2>2. CASE cache.latest.is \notin {"value", "promise"}
    <3>1. LatestBlockHeader(q).cache = [cache EXCEPT !.latest = Promised(NewPromise)]
      BY <1>r, <2>2 DEF LatestBlockHeader
    <3> QED BY <3>1, <2>2, <1>g
  <2> QED BY <2>1, <2>2
<1>4. Keeps(cache, GasData(q).cache)
  <2>1. CASE cache.gas.is \in {"value", "promise"}
    <3>1. GasData(q).cache = cache
      BY <1>r, <2>1 DEF GasData
    <3> QED BY <3>1, <1>0
  <2>2. CASE cache.gas.is \notin {"value", "promise"}
    <3>1. GasData(q).cache = [cache EXCEPT !.gas = Promised(NewPromise)]
      BY <1>r, <2>2 DEF GasData
    <3> QED BY <3>1, <2>2, <1>h
  <2> QED BY <2>1, <2>2
<1>5. Keeps(cache, LatestEpochData(q).cache)
  <2>1. \/ LatestEpochData(q).cache = cache
        \/ LatestEpochData(q).cache = [cache EXCEPT !.epoch = Promised(NewPromise)]
    BY <1>r DEF LatestEpochData
  <2> QED BY <2>1, <1>0, <1>f
<1>6. Keeps(cache, TemplateData(q).cache)
  <2>1. \/ TemplateData(q).cache = cache
        \/ TemplateData(q).cache = [cache EXCEPT !.template.p = NewPromise]
    BY <1>r DEF TemplateData
  <2> QED BY <2>1, <1>0, <1>f
<1>7. Keeps(cache, PreimageData(q).cache)
  <2>1. \/ PreimageData(q).cache = cache
        \/ PreimageData(q).cache = [cache EXCEPT !.preimage.p = NewPromise]
    BY <1>r DEF PreimageData
  <2> QED BY <2>1, <1>0, <1>f
<1>8. Keeps(cache, SubmitData(q).cache)
  BY <1>0, ReturnsCache DEF SubmitData
<1>9. Keeps(cache, DirectData(q).cache)
  BY <1>0, ReturnsCache DEF DirectData
<1>10. Keeps(cache, GetData(q).cache)
  BY <1>0, <1>1, <1>2, <1>3, <1>4, <1>5, <1>6, <1>7, <1>8, <1>9, ReturnsCache DEF GetData
<1> QED BY <1>0, <1>10, ReturnsCache DEF Ask

\* So does the answer of a query of the storage.
LEMMA RememberKeeps ==
  ASSUME NEW c, DOMAIN c = CacheFields, NEW p, NEW pr
  PROVE  Keeps(c, Remember(c, p, pr))
BY DEF Remember, Keeps, CacheFields

LEMMA CountingKeeps ==
  ASSUME NEW c, NEW d, Keeps(c, d), NEW n
  PROVE  Keeps(c, [d EXCEPT !.pendingRequests = n])
BY DEF Keeps, CacheFields

LEMMA RequestKeeps ==
  ASSUME DOMAIN cache = CacheFields, NEW world, NEW via, NEW who, NEW id, NEW q, NEW full,
         Request(world, via, who, id, q, full)
  PROVE  Keeps(cache, cache')
<1>1. PICK n : cache' = [Ask(q).cache EXCEPT !.pendingRequests = n]
  BY Zenon DEF Request
<1> QED BY <1>1, AskKeeps, CountingKeeps

LEMMA SettlesKeeps ==
  ASSUME DOMAIN cache = CacheFields, NEW p, NEW pr, NEW full, Settles(p, pr, full)
  PROVE  Keeps(cache, cache')
<1>1. \/ cache' = Remember(cache, p, pr)
      \/ \E n : cache' = [Remember(cache, p, pr) EXCEPT !.pendingRequests = n]
  BY Zenon DEF Settles, AnswerAll
<1> QED BY <1>1, RememberKeeps, CountingKeeps

\* A step that leaves the tip, the announcements and the blocks alone.
LEMMA QuietStep ==
  ASSUME TipInv, Keeps(cache, cache'), UNCHANGED feed, DOMAIN store' = StoreFields,
         store'.blocks = store.blocks, store'.info = store.info,
         store'.pending = store.pending, store'.next = store.next,
         store'.step = store.step, store'.tables = store.tables
  PROVE  TipInv'
<1>1. TipTypes' /\ feed'.seen <= store'.next
  BY DEF TipInv, TipTypes, Keeps
<1>2. Fresh(cache, store) => Fresh(cache', store')
  <2>1. \A v : Value(v).is = "value"
    BY DEF Value
  <2> QED BY <2>1 DEF Keeps, Fresh, GetLatestBlock, Height
<1>3. TipFollows'
  <2>1. Header(store') = Header(store)
    BY DEF Header, GetLatestBlock, Height
  <2> QED BY <1>2, <2>1 DEF TipInv, TipFollows, Informed
<1>4. HeightFollows'
  BY DEF TipInv, HeightFollows, Keeps
<1> QED BY <1>1, <1>3, <1>4 DEF TipInv

\* A listener that ends leaves the others as they are.
LEMMA RemoveAtIs ==
  ASSUME NEW S, NEW s \in Seq(S), NEW k \in DOMAIN s
  PROVE  /\ RemoveAt(s, k) \in Seq(S)
         /\ Len(RemoveAt(s, k)) = Len(s) - 1
         /\ \A i \in 1 .. Len(s) - 1 : RemoveAt(s, k)[i] = IF i < k THEN s[i] ELSE s[i + 1]
<1> DEFINE a == SubSeq(s, 1, k - 1)
           b == SubSeq(s, k + 1, Len(s))
<1>0. k \in 1 .. Len(s) /\ Len(s) \in Nat
  BY LenProperties
<1>1. a \in Seq(S) /\ Len(a) = k - 1 /\ \A i \in 1 .. k - 1 : a[i] = s[i]
  BY <1>0, SubSeqProperties
<1>2. b \in Seq(S) /\ Len(b) = Len(s) - k /\ \A i \in 1 .. Len(s) - k : b[i] = s[k + i]
  BY <1>0, SubSeqProperties
<1> HIDE DEF a, b
<1>3. a \o b \in Seq(S) /\ Len(a \o b) = Len(s) - 1
         /\ \A i \in 1 .. Len(s) - 1 : (a \o b)[i] = IF i <= k - 1 THEN a[i] ELSE b[i - (k - 1)]
  <2>1. /\ a \o b \in Seq(S)
        /\ Len(a \o b) = Len(a) + Len(b)
        /\ \A i \in 1 .. Len(a) + Len(b) :
              (a \o b)[i] = IF i <= Len(a) THEN a[i] ELSE b[i - Len(a)]
    BY <1>1, <1>2, ConcatProperties, Zenon
  <2>2. Len(a) + Len(b) = Len(s) - 1
    BY <1>0, <1>1, <1>2
  <2>3. Len(a) = k - 1
    BY <1>1
  <2> QED BY <2>1, <2>2, <2>3, Zenon
<1>4. RemoveAt(s, k) = a \o b
  BY DEF RemoveAt, a, b
<1>5. \A i \in 1 .. Len(s) - 1 : (a \o b)[i] = IF i < k THEN s[i] ELSE s[i + 1]
  <2> TAKE i \in 1 .. Len(s) - 1
  <2>1. CASE i < k
    BY <1>0, <1>1, <1>3, <2>1
  <2>2. CASE i >= k
    <3>1. i - (k - 1) \in 1 .. Len(s) - k /\ k + (i - (k - 1)) = i + 1
      BY <1>0, <2>2
    <3>2. (a \o b)[i] = b[i - (k - 1)]
      BY <1>0, <1>3, <2>2
    <3>3. b[i - (k - 1)] = s[k + (i - (k - 1))]
      BY <1>2, <3>1
    <3> QED BY <1>0, <2>2, <3>1, <3>2, <3>3
  <2>3. i < k \/ i >= k
    BY <1>0
  <2> QED BY <2>1, <2>2, <2>3, Zenon
<1> QED BY <1>3, <1>4, <1>5, Zenon

\* A listener that was past the latest header ends: who reads it still does.
LEMMA StillReading ==
  ASSUME NEW s \in Seq(Listeners), NEW k \in DOMAIN s, s[k].epoch # -1, Reading(s)
  PROVE  Reading(RemoveAt(s, k))
<1>1. PICK j \in DOMAIN s : s[j].epoch = -1
  BY DEF Reading
<1>2. j \in 1 .. Len(s) /\ k \in 1 .. Len(s) /\ Len(s) \in Nat /\ j # k
  BY <1>1, LenProperties
<1> DEFINE i == IF j < k THEN j ELSE j - 1
<1>a. i \in 1 .. Len(s) - 1 /\ (IF i < k THEN s[i] ELSE s[i + 1]) = s[j]
  BY <1>2
<1>b. \A m \in 1 .. Len(s) - 1 : RemoveAt(s, k)[m] = IF m < k THEN s[m] ELSE s[m + 1]
  BY RemoveAtIs
<1>3. i \in 1 .. Len(s) - 1 /\ RemoveAt(s, k)[i] = s[j]
  BY <1>a, <1>b
<1>4. i \in DOMAIN RemoveAt(s, k)
  BY <1>3, RemoveAtIs, LenProperties
<1> QED BY <1>1, <1>3, <1>4 DEF Reading

\* What a listener that ends, after the latest header or by a failure, leaves.
LEMMA Ends ==
  ASSUME NEW s \in Seq(Listeners), NEW k \in DOMAIN s
  PROVE  /\ RemoveAt(s, k) \in Seq(Listeners)
         /\ \A h : (\A j \in DOMAIN s : s[j].height = h) =>
                       \A j \in DOMAIN RemoveAt(s, k) : RemoveAt(s, k)[j].height = h
         /\ \A t : Informed(s, t) => Informed(RemoveAt(s, k), t)
         /\ Len(s) <= 1 => Len(RemoveAt(s, k)) <= 1
<1>0. k \in 1 .. Len(s) /\ Len(s) \in Nat /\ DOMAIN s = 1 .. Len(s)
  BY LenProperties
<1>1. /\ RemoveAt(s, k) \in Seq(Listeners) /\ Len(RemoveAt(s, k)) = Len(s) - 1
      /\ \A i \in 1 .. Len(s) - 1 : RemoveAt(s, k)[i] = IF i < k THEN s[i] ELSE s[i + 1]
  BY RemoveAtIs
<1>2. DOMAIN RemoveAt(s, k) = 1 .. Len(s) - 1
  BY <1>1, LenProperties
<1>3. \A i \in 1 .. Len(s) - 1 : \E j \in DOMAIN s : RemoveAt(s, k)[i] = s[j]
  BY <1>0, <1>1
<1>4. ASSUME NEW h, \A j \in DOMAIN s : s[j].height = h, NEW i \in DOMAIN RemoveAt(s, k)
      PROVE  RemoveAt(s, k)[i].height = h
  BY <1>2, <1>3, <1>4
<1>5. Len(s) <= 1 => Len(RemoveAt(s, k)) <= 1
  BY <1>0, <1>1
<1>6. \A t : Informed(s, t) => Informed(RemoveAt(s, k), t)
  BY <1>2, <1>3 DEF Informed
<1> QED BY <1>1, <1>4, <1>5, <1>6

\* The latest header is one.
LEMMA HeaderIs ==
  ASSUME TipTypes
  PROVE  Header(store) \in Headers /\ Header(store).block = GetLatestBlock(store)
           /\ Header(store).number = Height(store)
<1>1. Len(store.blocks) \in DOMAIN store.blocks /\ Len(store.blocks) \in Nat
  BY LenProperties DEF TipTypes
<1>2. GetLatestBlock(store) \in Nat
  BY <1>1, ElementOfSeq DEF GetLatestBlock, Last, TipTypes
<1> QED BY <1>1, <1>2 DEF Header, Headers, Height

LEMMA PollFollows ==
  ASSUME TipInv, Poll, UNCHANGED <<cache, store>>
  PROVE  TipInv'
<1> DEFINE new == Append(feed.running, Listener(store.info))
<1>0. TipTypes
  BY DEF TipInv
<1>1. /\ DOMAIN feed' = FeedFields /\ feed'.polled = store.info /\ feed'.running = new
      /\ feed'.seen = store.next /\ feed'.failed = FALSE
      /\ feed'.overlapped = (feed.running # <<>>)
  BY <1>0 DEF Poll, TipTypes, FeedFields
<1>2. Listener(store.info) \in Listeners /\ Listener(store.info).epoch = -1
         /\ Listener(store.info).height = store.info /\ Listener(store.info).header = NoHeader
  BY <1>0 DEF Listener, Listeners, Headers, NoHeader, TipTypes
<1>3. /\ new \in Seq(Listeners) /\ Len(new) = Len(feed.running) + 1
      /\ new[Len(feed.running) + 1] = Listener(store.info)
      /\ DOMAIN new = 1 .. Len(feed.running) + 1 /\ Len(feed.running) \in Nat
  BY <1>0, <1>2, AppendProperties, LenProperties DEF TipTypes
<1>4. Reading(new)
  BY <1>2, <1>3 DEF Reading
<1>5. feed.running = <<>> => /\ Len(new) <= 1
                             /\ \A k \in DOMAIN new : new[k].height = store.info
                                                       /\ new[k].header = NoHeader
  <2>1. feed.running = <<>> => Len(feed.running) = 0
    BY EmptySeq
  <2> QED BY <1>2, <1>3, <2>1
<1> HIDE DEF new
<1>6. TipTypes'
  BY <1>0, <1>1, <1>3 DEF TipTypes
<1>7. HeightFollows'
  <2>1. CASE feed.running = <<>>
    <3>1. Len(new) <= 1 /\ \A k \in DOMAIN new : new[k].height = feed'.polled
      BY <2>1, <1>1, <1>5, Zenon
    <3> QED BY <3>1, <1>1, <1>4 DEF HeightFollows
  <2>2. CASE feed.running # <<>>
    BY <2>2, <1>1 DEF HeightFollows
  <2> QED BY <2>1, <2>2
<1>8. TipFollows'
  <2>1. feed'.overlapped \/ Informed(feed'.running, store')
    BY <1>1, <1>5 DEF Informed
  <2> QED BY <1>1, <1>4, <2>1 DEF TipFollows
<1> QED BY <1>0, <1>1, <1>6, <1>7, <1>8 DEF TipInv, TipTypes

\* The epoch that a listener goes on with is a number.
LEMMA EpochNumber ==
  ASSUME NEW h \in Int
  PROVE  NewlyFinalized(h) \in Int
<1>1. (h - 1) \div BlocksPerEpoch \in Int
  BY BlocksPerEpochAssumption
<1> QED BY <1>1 DEF NewlyFinalized, HighestPossibleFinalizedEpoch, CalculateCurrentEpoch

\* The routes have the block of a header.
Told(c, header) ==
    /\ c.current = header.block
    /\ c.latest = Value(header.number)
    /\ c.gas = Value(header.block)

\* onBlockChange tells every route of the header.
LEMMA OnBlockChangeIs ==
  ASSUME NEW c, DOMAIN c = CacheFields, NEW h, NEW header, NEW n
  PROVE  LET d == [OnBlockChange(c, h, header) EXCEPT !.lastFinalizedEpoch = n]
         IN /\ DOMAIN d = CacheFields /\ Told(d, header)
            /\ d.height = h /\ d.wsHeight = h
<1> DEFINE block == header.block
           c1 == BlockRouteChange(c, block)
           c2 == GasChange(c1, block)
           c3 == LatestBlockChange(c2, header.number)
           c4 == TemplateChange(c3, h)
           c5 == PreimageChange(c4, h)
           c6 == [c5 EXCEPT !.wsHeight = h]
           d == [c6 EXCEPT !.lastFinalizedEpoch = n]
<1>0. OnBlockChange(c, h, header) = c6
  BY DEF OnBlockChange
<1>1. DOMAIN c1 = CacheFields /\ c1.current = block
  BY DEF BlockRouteChange, CacheFields
<1> HIDE DEF c1
<1>2. DOMAIN c2 = CacheFields /\ c2.current = block /\ c2.gas = Value(block)
  BY <1>1 DEF GasChange, CacheFields
<1> HIDE DEF c2
<1>3. DOMAIN c3 = CacheFields /\ c3.current = block /\ c3.gas = Value(block)
         /\ c3.latest = Value(header.number)
  BY <1>2 DEF LatestBlockChange, CacheFields
<1> HIDE DEF c3
<1>4. DOMAIN c4 = CacheFields /\ c4.current = block /\ c4.gas = Value(block)
         /\ c4.latest = Value(header.number) /\ c4.height = h
  BY <1>3 DEF TemplateChange, CacheFields
<1> HIDE DEF c4
<1>5. DOMAIN c5 = CacheFields /\ c5.current = block /\ c5.gas = Value(block)
         /\ c5.latest = Value(header.number) /\ c5.height = h
  BY <1>4 DEF PreimageChange, CacheFields
<1> HIDE DEF c5
<1>6. DOMAIN d = CacheFields /\ d.current = block /\ d.gas = Value(block)
         /\ d.latest = Value(header.number) /\ d.height = h /\ d.wsHeight = h
  BY <1>5 DEF CacheFields
<1> HIDE DEF c6, d
<1>7. d = [OnBlockChange(c, h, header) EXCEPT !.lastFinalizedEpoch = n]
  BY <1>0 DEF d
<1>8. Told(d, header)
  BY <1>6 DEF Told
<1> QED BY <1>6, <1>7, <1>8

LEMMA BlockChangeFollows ==
  ASSUME TipInv, NEW k \in DOMAIN feed.running, NotifyBlockChange(k)
  PROVE  TipInv'
<1> DEFINE h == feed.running[k].height
           header == feed.running[k].header
           n == NewlyFinalized(h)
           next == IF n = -1 THEN RemoveAt(feed.running, k)
                   ELSE [feed.running EXCEPT ![k].epoch = n]
<1>0. TipTypes /\ feed.running[k] \in Listeners /\ h \in Int
  <2>1. TipTypes
    BY DEF TipInv
  <2>2. feed.running[k] \in Listeners
    BY <2>1, ElementOfSeq DEF TipTypes
  <2> QED BY <2>1, <2>2 DEF Listeners
<1>1. n \in Int
  BY <1>0, EpochNumber
<1>a. header # NoHeader
  BY DEF NotifyBlockChange
<1>2. /\ DOMAIN cache' = CacheFields /\ Told(cache', header)
      /\ cache'.height = h /\ cache'.wsHeight = h
  <2>1. PICK m : cache' = [OnBlockChange(cache, h, header) EXCEPT !.lastFinalizedEpoch = m]
    BY DEF NotifyBlockChange
  <2>2. DOMAIN cache = CacheFields
    BY <1>0 DEF TipTypes
  <2>3. \A hh, hd, mm : LET d == [OnBlockChange(cache, hh, hd) EXCEPT !.lastFinalizedEpoch = mm]
                        IN /\ DOMAIN d = CacheFields /\ Told(d, hd)
                           /\ d.height = hh /\ d.wsHeight = hh
    BY <2>2, OnBlockChangeIs, ZenonT(40)
  <2> HIDE DEF h, header
  <2> QED BY <2>1, <2>3, Zenon
<1>3. feed' = AfterBlockChange(k) /\ UNCHANGED store
  BY DEF NotifyBlockChange
<1>4. /\ DOMAIN feed' = FeedFields /\ feed'.running = next
      /\ feed'.polled = feed.polled /\ feed'.seen = feed.seen
      /\ feed'.failed = feed.failed /\ feed'.overlapped = feed.overlapped
  BY <1>0, <1>3 DEF AfterBlockChange, TipTypes, FeedFields
<1>5. next \in Seq(Listeners)
  <2>1. CASE n = -1
    BY <2>1, <1>0, Ends DEF TipTypes
  <2>2. CASE n # -1
    <3>1. [feed.running[k] EXCEPT !.epoch = n] \in Listeners
      BY <1>0, <1>1 DEF Listeners
    <3>2. [feed.running EXCEPT ![k] = [feed.running[k] EXCEPT !.epoch = n]] \in Seq(Listeners)
      BY <3>1, <1>0, ExceptSeq DEF TipTypes
    <3> QED BY <2>2, <3>2
  <2> QED BY <2>1, <2>2
<1>6. ~feed.overlapped => /\ Len(next) <= 1 /\ h = feed.polled
                          /\ \A j \in DOMAIN next : next[j].height = feed.polled
  <2> SUFFICES ASSUME ~feed.overlapped
               PROVE  /\ Len(next) <= 1 /\ h = feed.polled
                      /\ \A j \in DOMAIN next : next[j].height = feed.polled
    OBVIOUS
  <2>1. Len(feed.running) <= 1 /\ \A j \in DOMAIN feed.running : feed.running[j].height = feed.polled
    BY DEF TipInv, HeightFollows
  <2>2. CASE n = -1
    BY <2>1, <2>2, <1>0, Ends DEF TipTypes
  <2>3. CASE n # -1
    <3> DEFINE new == [feed.running EXCEPT ![k].epoch = n]
    <3>0. DOMAIN feed.running = 1 .. Len(feed.running) /\ Len(feed.running) \in Nat
      BY <1>0, LenProperties DEF TipTypes
    <3>1. DOMAIN new = DOMAIN feed.running
      OBVIOUS
    <3>2. new \in Seq(Listeners)
      BY <2>3, <1>5
    <3>3. Len(new) = Len(feed.running)
      BY <3>0, <3>1, <3>2, LenProperties
    <3>4. \A j \in DOMAIN feed.running : feed.running[j] \in Listeners
      BY <1>0, ElementOfSeq DEF TipTypes
    <3>5. \A j \in DOMAIN new : new[j].height = feed.running[j].height
      BY <3>4, <1>1 DEF Listeners
    <3> QED BY <2>1, <2>3, <3>1, <3>3, <3>5
  <2> QED BY <2>2, <2>3
<1>b. ASSUME NEW s, Informed(feed.running, s)
      PROVE  Informed(next, s) /\ header = Header(s)
  <2>0. feed.running \in Seq(Listeners)
    BY <1>0 DEF TipTypes
  <2>1. CASE n = -1
    BY <2>0, <2>1, <1>a, <1>b, Ends DEF Informed
  <2>2. CASE n # -1
    <3>1. \A j \in DOMAIN feed.running : feed.running[j] \in Listeners
      BY <2>0, ElementOfSeq
    <3>2. \A j \in DOMAIN next : next[j].header = feed.running[j].header
      BY <2>2, <3>1 DEF Listeners
    <3>3. DOMAIN next = DOMAIN feed.running
      BY <2>2
    <3> QED BY <3>2, <3>3, <1>a, <1>b DEF Informed
  <2> QED BY <2>1, <2>2
<1>c. Header(store).block = GetLatestBlock(store) /\ Header(store).number = Height(store)
  BY <1>0, HeaderIs
<1> HIDE DEF n, next, h, header
<1>7. TipTypes'
  BY <1>0, <1>2, <1>3, <1>4, <1>5 DEF TipTypes
<1>8. TipFollows'
  <2>1. ASSUME feed'.seen = store'.next, ~feed'.overlapped
        PROVE  Fresh(cache', store') /\ Informed(next, store')
    <3>1. Informed(feed.running, store)
      BY <2>1, <1>3, <1>4 DEF TipInv, TipFollows
    <3>2. Informed(next, store) /\ header = Header(store)
      BY <3>1, <1>b
    <3>3. Fresh(cache', store)
      BY <3>2, <1>2, <1>c DEF Fresh, Told
    <3>4. store' = store
      BY <1>3
    <3> QED BY <3>2, <3>3, <3>4
  <2> QED BY <2>1, <1>4 DEF TipFollows
<1>9. HeightFollows'
  BY <1>2, <1>4, <1>6 DEF HeightFollows
<1> QED BY <1>3, <1>4, <1>7, <1>8, <1>9 DEF TipInv

\* A listener reads the latest header: what is stored, if it was so when the
\* height was polled.
LEMMA HeaderFollows ==
  ASSUME TipInv, NEW k \in DOMAIN feed.running, ReadHeader(k)
  PROVE  TipInv'
<1> DEFINE header == Header(store)
           next == [feed.running EXCEPT ![k].header = header]
<1>0. TipTypes /\ feed.running \in Seq(Listeners) /\ UNCHANGED <<store, cache>>
  BY DEF TipInv, TipTypes, ReadHeader
<1>1. header \in Headers
  BY <1>0, HeaderIs
<1>2. /\ DOMAIN feed' = FeedFields /\ feed'.running = next
      /\ feed'.polled = feed.polled /\ feed'.seen = feed.seen
      /\ feed'.failed = feed.failed /\ feed'.overlapped = feed.overlapped
  BY <1>0 DEF ReadHeader, HeaderRead, TipTypes, FeedFields
<1>3. \A j \in DOMAIN feed.running : feed.running[j] \in Listeners
  BY <1>0, ElementOfSeq
<1> HIDE DEF header
<1>4. next \in Seq(Listeners)
  <2>1. [feed.running[k] EXCEPT !.header = header] \in Listeners
    BY <1>1, <1>3 DEF Listeners
  <2> QED BY <2>1, <1>0, ExceptSeq
<1>5. /\ DOMAIN next = DOMAIN feed.running
      /\ \A j \in DOMAIN feed.running :
            /\ next[j].height = feed.running[j].height
            /\ next[j].epoch = feed.running[j].epoch
            /\ next[j].header = IF j = k THEN header ELSE feed.running[j].header
  BY <1>3 DEF Listeners
<1>6. Len(next) = Len(feed.running)
  BY <1>0, <1>4, <1>5, LenProperties
<1> HIDE DEF next
<1>7. Reading(next) <=> Reading(feed.running)
  BY <1>5 DEF Reading
<1>8. Informed(feed.running, store) => Informed(next, store)
  BY <1>5 DEF Informed, header
<1>9. TipTypes'
  BY <1>0, <1>2, <1>4 DEF TipTypes
<1>10. TipFollows'
  BY <1>0, <1>2, <1>7, <1>8 DEF TipInv, TipFollows
<1>11. HeightFollows'
  BY <1>0, <1>2, <1>5, <1>6, <1>7 DEF TipInv, HeightFollows
<1> QED BY <1>0, <1>2, <1>9, <1>10, <1>11 DEF TipInv

\* A listener that ends after the latest header, or by a failed read.
LEMMA EndFollows ==
  ASSUME TipInv, NEW k \in DOMAIN feed.running, UNCHANGED store, Keeps(cache, cache'),
         DOMAIN feed' = FeedFields, feed'.running = RemoveAt(feed.running, k),
         feed'.polled = feed.polled, feed'.seen = feed.seen,
         feed'.overlapped = feed.overlapped, feed'.failed \in BOOLEAN,
         feed.failed => feed'.failed, feed.running[k].epoch = -1 => feed'.failed
  PROVE  TipInv'
<1>0. TipTypes
  BY DEF TipInv
<1>1. /\ feed'.running \in Seq(Listeners)
      /\ \A h : (\A j \in DOMAIN feed.running : feed.running[j].height = h) =>
                    \A j \in DOMAIN feed'.running : feed'.running[j].height = h
      /\ \A t : Informed(feed.running, t) => Informed(feed'.running, t)
      /\ Len(feed.running) <= 1 => Len(feed'.running) <= 1
  BY <1>0, Ends, ZenonT(40) DEF TipTypes
<1>2. Reading(feed.running) => feed'.failed \/ Reading(feed'.running)
  BY <1>0, StillReading DEF TipTypes
<1>3. Fresh(cache, store) => Fresh(cache', store')
  <2>1. \A v : Value(v).is = "value"
    BY DEF Value
  <2> QED BY <2>1 DEF Keeps, Fresh
<1>4. TipTypes'
  BY <1>0, <1>1 DEF TipTypes, Keeps
<1>5. TipFollows'
  BY <1>1, <1>2, <1>3 DEF TipInv, TipFollows
<1>6. HeightFollows'
  <2> SUFFICES ASSUME ~feed.overlapped
               PROVE  /\ Len(feed'.running) <= 1
                      /\ \A j \in DOMAIN feed'.running : feed'.running[j].height = feed'.polled
                      /\ \/ feed'.failed \/ Reading(feed'.running)
                         \/ cache'.height = feed'.polled /\ cache'.wsHeight = feed'.polled
    BY DEF HeightFollows
  <2>1. /\ Len(feed.running) <= 1
        /\ \A j \in DOMAIN feed.running : feed.running[j].height = feed.polled
        /\ \/ feed.failed \/ Reading(feed.running)
           \/ cache.height = feed.polled /\ cache.wsHeight = feed.polled
    BY DEF TipInv, HeightFollows
  <2>2. \A j \in DOMAIN feed'.running : feed'.running[j].height = feed'.polled
    BY <1>1, <2>1
  <2>3. \/ feed'.failed \/ Reading(feed'.running)
        \/ cache'.height = feed'.polled /\ cache'.wsHeight = feed'.polled
    BY <1>2, <2>1 DEF Keeps
  <2> QED BY <1>1, <2>1, <2>2, <2>3
<1> QED BY <1>4, <1>5, <1>6 DEF TipInv

LEMMA EpochFollows ==
  ASSUME TipInv, NEW k \in DOMAIN feed.running,
         NotifyEpochFinalized(k) \/ NotifyFails(k)
  PROVE  TipInv'
<1>0. TipTypes
  BY DEF TipInv
<1>1. Keeps(cache, cache)
  BY <1>0 DEF Keeps, TipTypes
<1>2. \A e : Keeps(cache, OnEpochFinalized(cache, e))
  BY <1>0 DEF Keeps, TipTypes, OnEpochFinalized, CacheFields
<1>3. Keeps(cache, cache') /\ UNCHANGED store
  BY <1>1, <1>2 DEF NotifyEpochFinalized, NotifyFails
<1>4. \/ feed' = ListenerFails(k)
      \/ feed' = AfterEpochFinalized(k) /\ feed.running[k].epoch # -1
  BY DEF NotifyEpochFinalized, NotifyFails
<1>5. CASE feed' = ListenerFails(k)
  <2>1. /\ DOMAIN feed' = FeedFields /\ feed'.running = RemoveAt(feed.running, k)
        /\ feed'.polled = feed.polled /\ feed'.seen = feed.seen
        /\ feed'.overlapped = feed.overlapped
    BY <1>0, <1>5 DEF ListenerFails, TipTypes, FeedFields
  <2>2. feed'.failed = (feed.failed \/ feed.running[k].epoch = -1)
    BY <1>0, <1>5 DEF ListenerFails, TipTypes, FeedFields
  <2>3. feed'.failed \in BOOLEAN
    BY <2>2
  <2> QED BY <1>3, <2>1, <2>2, <2>3, EndFollows
<1>6. CASE feed' = AfterEpochFinalized(k) /\ feed.running[k].epoch # -1
  <2>1. /\ DOMAIN feed' = FeedFields /\ feed'.running = RemoveAt(feed.running, k)
        /\ feed'.polled = feed.polled /\ feed'.seen = feed.seen
        /\ feed'.overlapped = feed.overlapped /\ feed'.failed = feed.failed
    BY <1>0, <1>6 DEF AfterEpochFinalized, TipTypes, FeedFields
  <2>2. feed'.failed \in BOOLEAN
    BY <2>1, <1>0 DEF TipTypes
  <2> QED BY <1>3, <1>6, <2>1, <2>2, EndFollows
<1> QED BY <1>4, <1>5, <1>6

\* A write of the indexer: nothing has been announced of it.
LEMMA WriteFollows ==
  ASSUME TipInv, UNCHANGED <<feed, cache>>, DOMAIN store' = StoreFields,
         store'.blocks \in Seq(Nat), store'.info \in Int, store'.pending \in Int,
         Len(store'.blocks) >= 1,
         (store'.step = "purge" /\ "headers" \in store'.tables) =>
             store'.pending \in 1..Len(store'.blocks),
         \/ store'.next = store.next + 1
         \/ store'.next = store.next /\ store'.blocks = store.blocks
  PROVE  TipInv'
<1>0. TipTypes
  BY DEF TipInv
<1>1. TipTypes' /\ feed'.seen <= store'.next
  BY <1>0, SMTT(30) DEF TipInv, TipTypes
<1>2. HeightFollows'
  BY DEF TipInv, HeightFollows
<1>3. CASE store'.next = store.next + 1
  <2>1. feed'.seen # store'.next
    BY <1>0, <1>3 DEF TipInv, TipTypes
  <2> QED BY <1>1, <1>2, <2>1 DEF TipInv, TipFollows
<1>4. CASE store'.next = store.next /\ store'.blocks = store.blocks
  <2>1. Fresh(cache, store) => Fresh(cache', store')
    BY <1>4 DEF Fresh, GetLatestBlock, Height
  <2>2. Header(store') = Header(store)
    BY <1>4 DEF Header, GetLatestBlock, Height
  <2> QED BY <1>1, <1>2, <1>4, <2>1, <2>2 DEF TipInv, TipFollows, Informed
<1> QED BY <1>3, <1>4

LEMMA IndexFollows ==
  ASSUME TipInv, Index
  PROVE  TipInv'
<1>0. TipTypes /\ UNCHANGED <<feed, cache>>
  BY DEF TipInv, Index
<1>1. Len(store.blocks) \in Nat
  BY <1>0, LenProperties DEF TipTypes
<1>2. CASE SaveBlockHeader
  <2>1. /\ DOMAIN store' = StoreFields /\ store'.blocks = Append(store.blocks, store.next)
        /\ store'.next = store.next + 1 /\ store'.pending = Len(store.blocks)
        /\ store'.info = store.info /\ store'.step = "saved"
    BY <1>0, <1>2 DEF SaveBlockHeader, TipTypes, StoreFields
  <2>2. store'.blocks \in Seq(Nat) /\ Len(store'.blocks) = Len(store.blocks) + 1
    BY <2>1, <1>0, AppendProperties DEF TipTypes
  <2> QED BY <1>0, <1>1, <2>1, <2>2, WriteFollows DEF TipTypes
<1>3. CASE UpdateEpoch
  <2>1. /\ DOMAIN store' = StoreFields /\ store'.blocks = store.blocks
        /\ store'.next = store.next + 1 /\ store'.pending = store.pending
        /\ store'.info = store.info /\ store'.step = "announce"
    BY <1>0, <1>3 DEF UpdateEpoch, TipTypes, StoreFields
  <2> QED BY <1>0, <2>1, WriteFollows DEF TipTypes
<1>4. CASE SetNewHeight
  <2>1. /\ DOMAIN store' = StoreFields /\ store'.blocks = store.blocks
        /\ store'.next = store.next /\ store'.pending = store.pending
        /\ store'.info = store.pending + 1 /\ store'.step = "idle"
    BY <1>0, <1>4 DEF SetNewHeight, TipTypes, StoreFields
  <2>2. store'.info \in Int
    BY <2>1, <1>0 DEF TipTypes
  <2> QED BY <1>0, <2>1, <2>2, WriteFollows DEF TipTypes
<1>5. ASSUME NEW fork, RevertDataUntilBlock(fork) PROVE TipInv'
  <2>1. /\ DOMAIN store' = StoreFields /\ store'.blocks = store.blocks
        /\ store'.next = store.next + 1 /\ store'.pending = fork
        /\ store'.info = store.info
    BY <1>0, <1>5 DEF RevertDataUntilBlock, TipTypes, StoreFields
  <2>2. fork \in 1 .. Len(store.blocks)
    BY <1>1, <1>5 DEF RevertDataUntilBlock, Height
  <2> QED BY <1>0, <2>1, <2>2, WriteFollows DEF TipTypes
<1>6. ASSUME NEW table \in Tables, DeleteInRange(table) PROVE TipInv'
  <2> DEFINE fork == store.pending
  <2>1. /\ DOMAIN store' = StoreFields /\ store'.next = store.next + 1
        /\ store'.pending = fork /\ store'.info = store.info
        /\ store'.tables = store.tables \ {table}
        /\ store'.blocks = IF table = "headers" THEN SubSeq(store.blocks, 1, fork)
                           ELSE store.blocks
    BY <1>0, <1>6, Zenon DEF DeleteInRange, TipTypes, StoreFields
  <2>2. store.step = "purge" /\ table \in store.tables
    BY <1>6 DEF DeleteInRange
  <2>3. CASE table = "headers"
    <3>1. fork \in 1 .. Len(store.blocks)
      BY <1>0, <2>2, <2>3 DEF TipTypes
    <3>2. store'.blocks \in Seq(Nat) /\ Len(store'.blocks) = fork
      BY <1>0, <1>1, <2>1, <2>3, <3>1, SubSeqProperties, SMTT(20) DEF TipTypes
    <3> QED BY <1>0, <2>1, <2>3, <3>1, <3>2, WriteFollows DEF TipTypes
  <2>4. CASE table # "headers"
    BY <1>0, <2>1, <2>2, <2>4, WriteFollows DEF TipTypes
  <2> QED BY <2>3, <2>4
<1> QED BY <1>2, <1>3, <1>4, <1>5, <1>6 DEF Index, IndexerStep

\* Requests, answers, connections and simulations.
LEMMA ServingFollows ==
  ASSUME TipInv, Keeps(cache, cache'), UNCHANGED <<feed, store>>
  PROVE  TipInv'
BY QuietStep DEF TipInv, TipTypes

LEMMA ReadFollows ==
  ASSUME TipInv, NEW p, ReadAnswers(p)
  PROVE  TipInv'
<1>0. TipTypes
  BY DEF TipInv
<1>1. Keeps(cache, cache')
  BY <1>0, SettlesKeeps DEF ReadAnswers, TipTypes
<1>2. /\ DOMAIN store' = StoreFields /\ store'.blocks = store.blocks
      /\ store'.info = store.info /\ store'.pending = store.pending
      /\ store'.next = store.next /\ store'.step = store.step
      /\ store'.tables = store.tables /\ UNCHANGED feed
  BY <1>0 DEF ReadAnswers, TipTypes, StoreFields
<1> QED BY <1>1, <1>2, QuietStep

LEMMA ServerKeepsTip ==
  ASSUME TipInv, ServerNext
  PROVE  TipInv'
<1>0. DOMAIN cache = CacheFields
  BY DEF TipInv, TipTypes
<1>1. Keeps(cache, cache)
  BY <1>0 DEF Keeps
<1>2. CASE UNCHANGED <<store, feed, cache>>
  BY <1>1, <1>2, ServingFollows
<1>3. ASSUME NEW x \in Clients, Connect(x) \/ Drain(x) \/ Disconnect(x) PROVE TipInv'
  BY <1>2, <1>3 DEF Connect, Drain, Disconnect, routeVars
<1>4. ASSUME NEW x \in Clients, NEW m \in left.templates, OnMessageFrom(x, m) PROVE TipInv'
  <2>1. UNCHANGED <<store, feed>>
    BY <1>4 DEF OnMessageFrom
  <2>2. \/ UNCHANGED cache
        \/ \E world, via, who, id, q, full : Request(world, via, who, id, q, full)
    BY <1>4, Zenon DEF OnMessageFrom, RefusedMessage, RequestMessage, SubscriptionMessage
  <2> QED BY <1>0, <1>1, <2>1, <2>2, RequestKeeps, ServingFollows
<1>5. ASSUME NEW q, HttpRequest(q) PROVE TipInv'
  BY <1>0, <1>5, RequestKeeps, ServingFollows DEF HttpRequest
<1>6. ASSUME NEW qs, RpcRequest(qs) PROVE TipInv'
  <2>1. UNCHANGED <<store, feed>>
    BY <1>6 DEF RpcRequest
  <2>2. \/ UNCHANGED cache
        \/ \E world, via, who, id, q, full : Request(world, via, who, id, q, full)
    BY <1>6, Zenon DEF RpcRequest
  <2> QED BY <1>0, <1>1, <2>1, <2>2, RequestKeeps, ServingFollows
<1>7. ASSUME NEW i, NextInBatch(i) PROVE TipInv'
  BY <1>0, <1>7, RequestKeeps, ServingFollows DEF NextInBatch
<1>8. ASSUME NEW i, HttpAborts(i) PROVE TipInv'
  BY <1>2, <1>8 DEF HttpAborts, routeVars
<1>9. ASSUME NEW p, ReadFails(p) PROVE TipInv'
  BY <1>0, <1>9, SettlesKeeps, ServingFollows DEF ReadFails
<1>10. ASSUME NEW e, Collect(e) PROVE TipInv'
  <2>1. Keeps(cache, cache') /\ UNCHANGED <<store, feed>>
    BY <1>0, <1>10 DEF Collect, Keeps, CacheFields
  <2> QED BY <2>1, ServingFollows
<1>11. CASE Expire
  <2>1. Keeps(cache, cache') /\ UNCHANGED <<store, feed>>
    BY <1>0, <1>11 DEF Expire, Keeps, CacheFields
  <2> QED BY <2>1, ServingFollows
<1>12. CASE PollHeight
  BY <1>12, PollFollows DEF PollHeight
<1>13. ASSUME NEW k \in DOMAIN feed.running,
              ReadHeader(k) \/ NotifyBlockChange(k) \/ NotifyEpochFinalized(k) \/ NotifyFails(k)
       PROVE  TipInv'
  BY <1>13, HeaderFollows, BlockChangeFollows, EpochFollows
<1>14. CASE NotifyMempool
  BY <1>2, <1>14 DEF NotifyMempool, routeVars
<1>15. ASSUME NEW t, SimulationAnswers(t) PROVE TipInv'
  <2>1. UNCHANGED <<store, feed>>
    BY <1>15 DEF SimulationAnswers
  <2>2. UNCHANGED cache \/ \E p, pr, full : Settles(p, pr, full)
    BY <1>15, Zenon DEF SimulationAnswers
  <2> QED BY <1>0, <1>1, <2>1, <2>2, SettlesKeeps, ServingFollows
<1>16. ASSUME NEW p, SimulationTimesOut(p) PROVE TipInv'
  BY <1>0, <1>16, SettlesKeeps, ServingFollows DEF SimulationTimesOut
<1>17. CASE Simulate
  BY <1>2, <1>17 DEF Simulate, routeVars
<1> QED
  BY <1>3, <1>4, <1>5, <1>6, <1>7, <1>8, <1>9, <1>10, <1>11, <1>12, <1>13, <1>14, <1>15,
     <1>16, <1>17, ReadFollows, IndexFollows DEF ServerNext

LEMMA TipStarts ==
  ASSUME Init
  PROVE  TipInv
<1> DEFINE n == left.height
           s == StoreWith(n)
           f == FeedStarted(s)
<1>1. n \in Nat /\ store = s /\ feed = f /\ cache = ColdCache(n)
  BY ScenariosAssumption DEF Init
<1> HIDE DEF n
<1>2. [i \in 1 .. n + 1 |-> i] \in Seq(Nat)
  BY <1>1, IsASeq
<1>3. /\ DOMAIN s = StoreFields /\ s.blocks \in Seq(Nat) /\ s.info \in Int
      /\ s.pending \in Int /\ s.next \in Nat /\ Len(s.blocks) = n + 1 /\ s.step = "idle"
  BY <1>1, <1>2 DEF StoreWith, StoreFields
<1> HIDE DEF s
<1>4. Listener(s.info) \in Listeners /\ Listener(s.info).epoch = -1
         /\ Listener(s.info).height = s.info /\ Listener(s.info).header = NoHeader
  BY <1>3 DEF Listener, Listeners, Headers, NoHeader
<1>5. /\ DOMAIN f = FeedFields /\ f.polled = s.info /\ f.seen = s.next
      /\ f.running = <<Listener(s.info)>> /\ f.failed = FALSE /\ f.overlapped = FALSE
  BY DEF FeedStarted, FeedFields
<1> HIDE DEF f
<1>6. DOMAIN cache = CacheFields
  BY <1>1 DEF ColdCache, CacheFields
<1>7. f.running \in Seq(Listeners) /\ Len(f.running) = 1 /\ DOMAIN f.running = {1}
         /\ f.running[1] = Listener(s.info)
  BY <1>4, <1>5
<1>8. Reading(f.running)
  BY <1>4, <1>7 DEF Reading
<1>9. TipTypes
  <2>1. Len(store.blocks) >= 1 /\ store.step # "purge"
    BY <1>1, <1>3
  <2>2. f.polled \in Int /\ f.seen \in Nat /\ f.failed \in BOOLEAN /\ f.overlapped \in BOOLEAN
    BY <1>3, <1>5
  <2> QED BY <2>1, <2>2, <1>1, <1>3, <1>5, <1>6, <1>7 DEF TipTypes
<1>10. HeightFollows
  BY <1>1, <1>4, <1>5, <1>7, <1>8 DEF HeightFollows
<1>11. Informed(f.running, s)
  BY <1>4, <1>7 DEF Informed
<1> QED BY <1>1, <1>3, <1>5, <1>8, <1>9, <1>10, <1>11 DEF TipInv, TipFollows

\* Once the announcements have come to rest the routes agree with the storage
\* about the latest block and the height, for any requests, blocks, reverts and
\* failures, except in the three ways TipAgrees names
\* (Server.listenToBlockChanges, BlockchainInfoRepository.startPolling).
THEOREM TipsAgree == Spec => []TipAgrees
<1>1. Init => TipInv
  BY TipStarts
<1>2. TipInv /\ [Next]_vars => TipInv'
  <2> SUFFICES ASSUME TipInv, [Next]_vars PROVE TipInv'
    OBVIOUS
  <2>1. CASE ServerNext
    BY <2>1, ServerKeepsTip
  <2>2. CASE UNCHANGED <<store, feed, cache>>
    <3>1. Keeps(cache, cache')
      BY <2>2 DEF TipInv, TipTypes, Keeps
    <3> QED BY <2>2, <3>1, ServingFollows
  <2> QED BY <2>1, <2>2 DEF Next, vars, apiVars, routeVars
<1>3. TipInv => TipAgrees
  <2> SUFFICES ASSUME TipInv, Announced, ~feed.failed
               PROVE  \/ feed.overlapped
                      \/ /\ Unseen \/ Fresh(cache, store)
                         /\ cache.height = store.info /\ cache.wsHeight = store.info
    BY DEF TipAgrees, Fresh
  <2>1. ~Reading(feed.running)
    BY DEF Announced, Reading
  <2> QED BY <2>1 DEF TipInv, TipFollows, HeightFollows, Announced, Unseen
<1> QED BY <1>1, <1>2, <1>3, PTL DEF Spec

-----------------------------------------------------------------------------
(* The subscribers *)

ClientFields ==
    {"state", "pending", "stamps", "subs", "nextSub", "draining", "queue", "got", "sent",
     "asked", "broke"}

IsSeq(s) == s \in Seq(Range(s))

\* What was sent to a client, received or queued.
Sent(c) == c.got \o c.queue

\* A client that sends to its socket in order: what is queued comes later.
Sound(c) ==
    /\ DOMAIN c = ClientFields /\ IsSeq(c.got) /\ IsSeq(c.queue)
    /\ c.draining \in BOOLEAN /\ (~c.draining => c.queue = <<>>)
    /\ c.subs # {} => c.state = "ready"

IsBlock(m) == m.kind = "blocks"

\* The blocks among ms are announcements up to told, in their order.
Ordered(ms, told) ==
    /\ \A i \in DOMAIN ms : IsBlock(ms[i]) => ms[i].v.nth \in 1 .. told
    /\ \A i, j \in DOMAIN ms :
          i < j /\ IsBlock(ms[i]) /\ IsBlock(ms[j]) => ms[i].v.nth < ms[j].v.nth

\* Of the announcements after since none is missing among ms.
Heard(ms, since, told) ==
    /\ since \in 0 .. told
    /\ \A n \in since + 1 .. told : \E i \in DOMAIN ms : IsBlock(ms[i]) /\ ms[i].v.nth = n

\* Every message was right when it was sent, or is accounted for.
AllFine(ms) == \A i \in DOMAIN ms : ms[i].fine = TRUE

ClientInv(c, told) ==
    /\ Sound(c) /\ Ordered(Sent(c), told) /\ AllFine(Sent(c))
    /\ \A s \in c.subs : s.type = "blocks" => Heard(Sent(c), s.told, told)

\* Every epoch up to the last one finalized was announced, skipped, or is about to be
\* announced; and the epochs up to the height polled last are finalized, or the
\* listener of that height has yet to look.
EpochsFollow ==
    /\ cache.lastFinalizedEpoch \in Int /\ cache.lastFinalizedEpoch >= -1
    /\ \A e \in 0 .. cache.lastFinalizedEpoch :
          \/ e \in feed.toldEpochs \cup feed.skipped
          \/ \E k \in DOMAIN feed.running : feed.running[k].epoch = e
    /\ \/ feed.failed
       \/ \E k \in DOMAIN feed.running :
             feed.running[k].epoch = -1 /\ feed.running[k].height = feed.polled
       \/ cache.lastFinalizedEpoch >= HighestPossibleFinalizedEpoch(feed.polled)

\* So was every answer to an HTTP or JSON-RPC request.
HttpFine(hs) ==
    IsSeq(hs) /\ \A i \in DOMAIN hs : DOMAIN hs[i] = {"state", "todo", "size", "fine"} /\ hs[i].fine = TRUE

ClientsFollow ==
    /\ feed.told \in Nat
    /\ IsSeq(calls) /\ HttpFine(http)
    /\ DOMAIN clients = Clients
    /\ \A x \in Clients : ClientInv(clients[x], feed.told)

SubscribersInv == TipTypes /\ ClientsFollow /\ EpochsFollow

-----------------------------------------------------------------------------
(* What is sent to a client *)

LEMMA InLarger ==
  ASSUME NEW s, IsSeq(s), NEW S, Range(s) \subseteq S
  PROVE  s \in Seq(S)
<1>1. s \in Seq(Range(s))
  BY DEF IsSeq
<1>2. Len(s) \in Nat /\ s \in [1 .. Len(s) -> Range(s)]
  BY <1>1, LenProperties
<1>3. s \in [1 .. Len(s) -> S]
  BY <1>2
<1> QED BY <1>2, <1>3, SeqDef

LEMMA IsASequence ==
  ASSUME NEW S, NEW s \in Seq(S)
  PROVE  IsSeq(s) /\ Len(s) \in Nat /\ DOMAIN s = 1 .. Len(s)
<1>1. Len(s) \in Nat /\ DOMAIN s = 1 .. Len(s) /\ s \in [1 .. Len(s) -> S]
  BY LenProperties
<1>2. s \in [1 .. Len(s) -> Range(s)]
  BY <1>1 DEF Range
<1>3. s \in Seq(Range(s))
  BY <1>1, <1>2, SeqDef
<1> QED BY <1>1, <1>3 DEF IsSeq

\* A message at the end of what was sent.
LEMMA SentAppends ==
  ASSUME NEW g, IsSeq(g), NEW q, IsSeq(q), NEW x
  PROVE  /\ IsSeq(g \o q) /\ IsSeq(Append(g, x)) /\ IsSeq(Append(q, x))
         /\ g \o Append(q, x) = Append(g \o q, x)
         /\ q = <<>> => Append(g, x) \o q = Append(g \o q, x)
<1> DEFINE S == Range(g) \cup Range(q) \cup {x}
<1>1. g \in Seq(S) /\ q \in Seq(S) /\ x \in S
  BY InLarger
<1> HIDE DEF S
<1>2. <<x>> \in Seq(S)
  BY <1>1
<1>3. g \o q \in Seq(S)
  BY <1>1, ConcatProperties
<1>4. Append(g, x) \in Seq(S) /\ Append(q, x) \in Seq(S)
  BY <1>1, AppendProperties
<1>5. Append(q, x) = q \o <<x>> /\ Append(g \o q, x) = (g \o q) \o <<x>>
  BY <1>1, <1>3, AppendIsConcat
<1>6. (g \o q) \o <<x>> = g \o (q \o <<x>>)
  BY <1>1, <1>2, ConcatAssociative
<1>7. g \o <<>> = g /\ Append(g, x) \o <<>> = Append(g, x)
  BY <1>1, <1>4, ConcatEmptySeq
<1>8. IsSeq(g \o q) /\ IsSeq(Append(g, x)) /\ IsSeq(Append(q, x))
  BY <1>3, <1>4, IsASequence
<1> QED BY <1>5, <1>6, <1>7, <1>8

LEMMA FirstOf ==
  ASSUME NEW g, IsSeq(g), NEW q, IsSeq(q)
  PROVE  DOMAIN g \subseteq DOMAIN (g \o q) /\ \A i \in DOMAIN g : (g \o q)[i] = g[i]
<1> DEFINE S == Range(g) \cup Range(q)
<1>1. g \in Seq(S) /\ q \in Seq(S)
  BY InLarger
<1> HIDE DEF S
<1>2. /\ g \o q \in Seq(S) /\ Len(g \o q) = Len(g) + Len(q)
      /\ \A i \in 1 .. Len(g) + Len(q) : (g \o q)[i] = IF i <= Len(g) THEN g[i] ELSE q[i - Len(g)]
  BY <1>1, ConcatProperties
<1>3. /\ Len(g) \in Nat /\ Len(q) \in Nat /\ DOMAIN g = 1 .. Len(g)
      /\ DOMAIN (g \o q) = 1 .. Len(g \o q)
  BY <1>1, <1>2, LenProperties
<1> QED BY <1>2, <1>3

\* Where the messages are when one was added.
LEMMA AppendedIs ==
  ASSUME NEW s, IsSeq(s), NEW x
  PROVE  /\ Len(s) \in Nat /\ DOMAIN s = 1 .. Len(s)
         /\ DOMAIN Append(s, x) = 1 .. Len(s) + 1
         /\ \A i \in 1 .. Len(s) : Append(s, x)[i] = s[i]
         /\ Append(s, x)[Len(s) + 1] = x
<1> DEFINE S == Range(s) \cup {x}
<1>1. s \in Seq(S) /\ x \in S
  BY InLarger
<1> HIDE DEF S
<1>2. /\ Append(s, x) \in Seq(S) /\ Len(Append(s, x)) = Len(s) + 1
      /\ \A i \in 1 .. Len(s) : Append(s, x)[i] = s[i]
      /\ Append(s, x)[Len(s) + 1] = x
  BY <1>1, AppendProperties
<1>3. Len(s) \in Nat /\ DOMAIN s = 1 .. Len(s) /\ DOMAIN Append(s, x) = 1 .. Len(Append(s, x))
  BY <1>1, <1>2, LenProperties
<1> QED BY <1>2, <1>3

\* A message of another kind leaves the announcements as they are.
LEMMA OtherMessage ==
  ASSUME NEW s, IsSeq(s), NEW x, ~IsBlock(x), NEW told
  PROVE  /\ Ordered(s, told) => Ordered(Append(s, x), told)
         /\ \A since : Heard(s, since, told) => Heard(Append(s, x), since, told)
<1> DEFINE v == Append(s, x)
<1>1. /\ Len(s) \in Nat /\ DOMAIN s = 1 .. Len(s) /\ DOMAIN v = 1 .. Len(s) + 1
      /\ \A i \in 1 .. Len(s) : v[i] = s[i]
      /\ v[Len(s) + 1] = x
  BY AppendedIs
<1> HIDE DEF v
<1>2. \A i \in DOMAIN v : IsBlock(v[i]) => i \in DOMAIN s /\ v[i] = s[i]
  BY <1>1
<1>3. \A i \in DOMAIN s : i \in DOMAIN v /\ v[i] = s[i]
  BY <1>1
<1>4. Ordered(s, told) => Ordered(v, told)
  BY <1>2 DEF Ordered
<1>5. \A since : Heard(s, since, told) => Heard(v, since, told)
  BY <1>3 DEF Heard
<1> QED BY <1>4, <1>5 DEF v

LEMMA FineMessage ==
  ASSUME NEW s, IsSeq(s), AllFine(s), NEW x, x.fine = TRUE
  PROVE  AllFine(Append(s, x))
<1> DEFINE v == Append(s, x)
<1>1. /\ Len(s) \in Nat /\ DOMAIN s = 1 .. Len(s) /\ DOMAIN v = 1 .. Len(s) + 1
      /\ \A i \in 1 .. Len(s) : v[i] = s[i]
      /\ v[Len(s) + 1] = x
  BY AppendedIs
<1> HIDE DEF v
<1>2. \A i \in DOMAIN v : (i \in DOMAIN s /\ v[i] = s[i]) \/ v[i] = x
  BY <1>1
<1>3. AllFine(v)
  BY <1>2 DEF AllFine
<1> QED BY <1>3 DEF v

\* The next announcement.
LEMMA NextBlock ==
  ASSUME NEW s, IsSeq(s), NEW x, IsBlock(x), NEW told \in Nat, x.v.nth = told + 1
  PROVE  /\ Ordered(s, told) => Ordered(Append(s, x), told + 1)
         /\ \A since : Heard(s, since, told) => Heard(Append(s, x), since, told + 1)
<1> DEFINE v == Append(s, x)
<1>1. /\ Len(s) \in Nat /\ DOMAIN s = 1 .. Len(s) /\ DOMAIN v = 1 .. Len(s) + 1
      /\ \A i \in 1 .. Len(s) : v[i] = s[i]
      /\ v[Len(s) + 1] = x
  BY AppendedIs
<1> HIDE DEF v
<1>2. ASSUME Ordered(s, told) PROVE Ordered(v, told + 1)
  <2>1. ASSUME NEW i \in DOMAIN v, IsBlock(v[i]) PROVE v[i].v.nth \in 1 .. told + 1
    <3>1. CASE i = Len(s) + 1
      BY <1>1, <3>1
    <3>2. CASE i # Len(s) + 1
      <4>1. i \in DOMAIN s /\ v[i] = s[i]
        BY <1>1, <3>2
      <4>2. v[i].v.nth \in 1 .. told
        BY <1>2, <2>1, <4>1 DEF Ordered
      <4> QED BY <4>2
    <3> QED BY <3>1, <3>2
  <2>2. ASSUME NEW i \in DOMAIN v, NEW j \in DOMAIN v, i < j, IsBlock(v[i]), IsBlock(v[j])
        PROVE  v[i].v.nth < v[j].v.nth
    <3>1. i \in DOMAIN s /\ v[i] = s[i]
      BY <1>1, <2>2
    <3>2. CASE j = Len(s) + 1
      <4>1. v[i].v.nth \in 1 .. told
        BY <1>2, <2>2, <3>1 DEF Ordered
      <4> QED BY <1>1, <3>2, <4>1
    <3>3. CASE j # Len(s) + 1
      <4>1. j \in DOMAIN s /\ v[j] = s[j]
        BY <1>1, <3>3
      <4> QED BY <1>2, <2>2, <3>1, <4>1 DEF Ordered
    <3> QED BY <3>2, <3>3
  <2> QED BY <2>1, <2>2 DEF Ordered
<1>3. ASSUME NEW since, Heard(s, since, told) PROVE Heard(v, since, told + 1)
  <2>1. since \in 0 .. told + 1
    BY <1>3 DEF Heard
  <2>2. ASSUME NEW n \in since + 1 .. told + 1
        PROVE  \E i \in DOMAIN v : IsBlock(v[i]) /\ v[i].v.nth = n
    <3>1. CASE n = told + 1
      BY <1>1, <3>1
    <3>2. CASE n # told + 1
      <4>1. n \in since + 1 .. told
        BY <2>1, <3>2
      <4>2. PICK i \in DOMAIN s : IsBlock(s[i]) /\ s[i].v.nth = n
        BY <1>3, <4>1 DEF Heard
      <4>3. i \in DOMAIN v /\ v[i] = s[i]
        BY <1>1
      <4> QED BY <4>2, <4>3
    <3> QED BY <3>1, <3>2
  <2> QED BY <2>1, <2>2 DEF Heard
<1> QED BY <1>2, <1>3 DEF v

\* send puts a message behind everything that was sent.
LEMMA SendIs ==
  ASSUME NEW c, Sound(c), NEW m, NEW isFull \in BOOLEAN, NEW d, d = Send(c, m, isFull)
  PROVE  /\ Sound(d) /\ d.subs = c.subs /\ d.state = c.state
         /\ ~IsActive(c) => d = c
         /\ IsActive(c) => \E x : /\ Sent(d) = Append(Sent(c), x)
                                  /\ x.kind = m.kind /\ x.fine = m.fine /\ x.v = m.v
<1>1. CASE ~IsActive(c)
  BY <1>1 DEF Send
<1>2. CASE IsActive(c)
  <2> DEFINE n == c.sent + 1
             x == [kind |-> m.kind, id |-> m.id, v |-> m.v, fine |-> m.fine, n |-> n]
             e == [c EXCEPT !.sent = n]
  <2>0. /\ DOMAIN c = ClientFields /\ IsSeq(c.got) /\ IsSeq(c.queue)
        /\ c.draining \in BOOLEAN /\ (~c.draining => c.queue = <<>>)
        /\ c.subs # {} => c.state = "ready"
    BY DEF Sound
  <2>1. \A y : /\ IsSeq(Append(c.got, y)) /\ IsSeq(Append(c.queue, y))
               /\ c.got \o Append(c.queue, y) = Append(c.got \o c.queue, y)
               /\ c.queue = <<>> => Append(c.got, y) \o c.queue = Append(c.got \o c.queue, y)
    <3> HIDE DEF n, x, e
    <3> TAKE y
    <3>1. IsSeq(c.got) /\ IsSeq(c.queue)
      BY <2>0
    <3>2. \A g, q : IsSeq(g) /\ IsSeq(q) =>
              /\ IsSeq(Append(g, y)) /\ IsSeq(Append(q, y))
              /\ g \o Append(q, y) = Append(g \o q, y)
              /\ q = <<>> => Append(g, y) \o q = Append(g \o q, y)
      BY SentAppends
    <3> QED BY <3>1, <3>2, Zenon
  <2>2. /\ DOMAIN e = ClientFields /\ e.got = c.got /\ e.queue = c.queue /\ e.subs = c.subs
        /\ e.state = c.state /\ e.draining = c.draining
    BY <2>0 DEF ClientFields
  <2>3. d = CASE c.draining -> [e EXCEPT !.queue = Append(@, x)]
              [] isFull -> [e EXCEPT !.draining = TRUE, !.queue = Append(@, x)]
              [] OTHER -> [e EXCEPT !.got = Append(@, x)]
    BY <1>2, Zenon DEF Send
  <2>m. x.kind = m.kind /\ x.fine = m.fine /\ x.v = m.v
    OBVIOUS
  <2> HIDE DEF e, x
  <2>4. /\ DOMAIN d = ClientFields /\ d.subs = c.subs /\ d.state = c.state
        /\ d.draining \in BOOLEAN
        /\ \/ d.got = c.got /\ d.queue = Append(c.queue, x) /\ d.draining
           \/ d.got = Append(c.got, x) /\ d.queue = c.queue /\ ~c.draining /\ ~d.draining
    <3>1. CASE c.draining
      BY <2>0, <2>2, <2>3, <3>1, ZenonT(40) DEF ClientFields
    <3>2. CASE ~c.draining /\ isFull
      BY <2>0, <2>2, <2>3, <3>2 DEF ClientFields
    <3>3. CASE ~c.draining /\ ~isFull
      BY <2>0, <2>2, <2>3, <3>3 DEF ClientFields
    <3> QED BY <2>0, <3>1, <3>2, <3>3
  <2>5. Sound(d)
    BY <2>0, <2>1, <2>4 DEF Sound
  <2>6. Sent(d) = Append(Sent(c), x)
    BY <2>0, <2>1, <2>4 DEF Sent
  <2> QED BY <1>2, <2>4, <2>5, <2>6, <2>m
<1> QED BY <1>1, <1>2

\* A message that announces no block.
LEMMA SaysOther ==
  ASSUME NEW c, NEW told, ClientInv(c, told), NEW m, m.kind # "blocks", m.fine = TRUE,
         NEW isFull \in BOOLEAN, NEW d, d = Send(c, m, isFull)
  PROVE  ClientInv(d, told) /\ d.subs = c.subs /\ d.state = c.state
<1>0. Sound(c)
  BY DEF ClientInv
<1>1. /\ Sound(d) /\ d.subs = c.subs /\ d.state = c.state
      /\ ~IsActive(c) => d = c
      /\ IsActive(c) => \E x : Sent(d) = Append(Sent(c), x) /\ x.kind = m.kind /\ x.fine = m.fine
  BY <1>0, SendIs
<1>2. CASE ~IsActive(c)
  BY <1>1, <1>2
<1>3. CASE IsActive(c)
  <2>1. PICK x : Sent(d) = Append(Sent(c), x) /\ x.kind = m.kind /\ x.fine = m.fine
    BY <1>1, <1>3
  <2>2. IsSeq(Sent(c))
    BY <1>0, SentAppends DEF Sound, Sent
  <2>3. ~IsBlock(x)
    BY <2>1 DEF IsBlock
  <2>4. Ordered(Sent(d), told)
    BY <2>1, <2>2, <2>3, OtherMessage DEF ClientInv
  <2>5. \A s \in d.subs : s.type = "blocks" => Heard(Sent(d), s.told, told)
    BY <1>1, <2>1, <2>2, <2>3, OtherMessage DEF ClientInv
  <2>f. AllFine(Sent(d))
    BY <2>1, <2>2, FineMessage DEF ClientInv
  <2>6. ClientInv(d, told)
    BY <1>1, <2>4, <2>5, <2>f DEF ClientInv
  <2> QED BY <1>1, <2>6
<1> QED BY <1>2, <1>3

\* What a client counts, and fewer subscriptions, change nothing.
LEMMA Alike ==
  ASSUME NEW c, NEW told, ClientInv(c, told), NEW d, DOMAIN d = ClientFields,
         d.got = c.got, d.queue = c.queue, d.draining = c.draining, d.subs \subseteq c.subs,
         d.subs = {} \/ d.state \in {"ready", c.state}
  PROVE  ClientInv(d, told)
<1>1. Sent(d) = Sent(c)
  BY DEF Sent
<1> QED BY <1>1 DEF ClientInv, Sound

LEMMA CountsOnly ==
  ASSUME NEW c, NEW told, ClientInv(c, told), NEW n
  PROVE  /\ ClientInv([c EXCEPT !.pending = n], told)
         /\ ClientInv([c EXCEPT !.stamps = n], told)
         /\ ClientInv([c EXCEPT !.asked = n], told)
         /\ ClientInv([c EXCEPT !.broke = n], told)
<1>0. DOMAIN c = ClientFields
  BY DEF ClientInv, Sound
<1>1. ASSUME NEW f \in {"pending", "stamps", "asked", "broke"}
      PROVE  ClientInv([c EXCEPT ![f] = n], told)
  <2> DEFINE d == [c EXCEPT ![f] = n]
  <2>1. /\ DOMAIN d = ClientFields /\ d.got = c.got /\ d.queue = c.queue
        /\ d.draining = c.draining /\ d.subs = c.subs /\ d.state = c.state
    BY <1>0 DEF ClientFields
  <2> HIDE DEF d
  <2> QED BY <2>1, Alike DEF d
<1> QED BY <1>1

LEMMA CloseKeeps ==
  ASSUME NEW c, NEW told, ClientInv(c, told)
  PROVE  ClientInv(Close(c), told) /\ ClientInv(MarkClosed(c), told)
<1>0. DOMAIN c = ClientFields
  BY DEF ClientInv, Sound
<1> DEFINE d == [c EXCEPT !.state = "closed", !.subs = {}]
<1>1. /\ DOMAIN d = ClientFields /\ d.got = c.got /\ d.queue = c.queue
      /\ d.draining = c.draining /\ d.subs = {}
  BY <1>0 DEF ClientFields
<1> HIDE DEF d
<1>2. ClientInv(d, told)
  BY <1>1, Alike
<1> QED BY <1>2 DEF Close, MarkClosed, d

LEMMA EndKeeps ==
  ASSUME NEW c, NEW told, ClientInv(c, told)
  PROVE  ClientInv(EndRequest(c), told)
BY CountsOnly DEF EndRequest

LEMMA ErrorKeeps ==
  ASSUME NEW c, NEW told, ClientInv(c, told), NEW id, NEW code, NEW isFull \in BOOLEAN, NEW v, NEW fine,
         fine = TRUE
  PROVE  /\ ClientInv(SendError(c, id, code, isFull), told)
         /\ ClientInv(SendResponse(c, id, v, fine, isFull), told)
         /\ ClientInv(CloseWithError(c, code, isFull), told)
         /\ ClientInv(HandleError(c, id, code, isFull), told)
<1>1. \A k \in {"error", "reply"} : \A i, w, f :
        Packet(k, i, w, f).kind # "blocks" /\ Packet(k, i, w, f).fine = f
  BY DEF Packet
<1>2. \A i, w : ClientInv(SendError(c, i, w, isFull), told)
  <2> TAKE i, w
  <2>1. Packet("error", i, w, TRUE).kind # "blocks" /\ Packet("error", i, w, TRUE).fine = TRUE
    BY DEF Packet
  <2> QED BY <2>1, SaysOther DEF SendError
<1>3. ClientInv(SendResponse(c, id, v, fine, isFull), told)
  <2>1. Packet("reply", id, v, fine).kind # "blocks" /\ Packet("reply", id, v, fine).fine = TRUE
    BY <1>1 DEF Packet
  <2> QED BY <2>1, SaysOther DEF SendResponse
<1>4. ClientInv(CloseWithError(c, code, isFull), told)
  BY <1>2, CloseKeeps DEF CloseWithError
<1>5. ClientInv(HandleError(c, id, code, isFull), told)
  BY <1>2, CloseKeeps DEF HandleError
<1> QED BY <1>2, <1>3, <1>4, <1>5

LEMMA StartedKeeps ==
  ASSUME NEW c, NEW told, ClientInv(c, told), NEW recent, NEW id
  PROVE  LET d == Started([c EXCEPT !.asked = id], recent)
         IN ClientInv(d, told) /\ d.state = c.state /\ d.subs = c.subs
<1> DEFINE e == [c EXCEPT !.asked = id]
           d == [e EXCEPT !.pending = @ + 1, !.stamps = recent + 1]
<1>0. DOMAIN c = ClientFields
  BY DEF ClientInv, Sound
<1>1. /\ DOMAIN d = ClientFields /\ d.got = c.got /\ d.queue = c.queue
      /\ d.draining = c.draining /\ d.subs = c.subs /\ d.state = c.state
  BY <1>0 DEF ClientFields
<1> HIDE DEF d
<1>2. ClientInv(d, told)
  BY <1>1, Alike
<1> QED BY <1>1, <1>2 DEF Started, d

\* A subscription is told of what comes after it.
LEMMA SubscribeKeeps ==
  ASSUME NEW c, NEW told \in Nat, ClientInv(c, told), c.state = "ready", NEW m,
         NEW isFull \in BOOLEAN
  PROVE  /\ ClientInv(HandleSubscribe(c, m, told, isFull), told)
         /\ ClientInv(HandleUnsubscribe(c, m, isFull), told)
<1>0. DOMAIN c = ClientFields
  BY DEF ClientInv, Sound
<1> DEFINE s == [id |-> c.nextSub, type |-> m.sub, told |-> told]
           a == AddSubscription(c, m.sub, told)
           b == RemoveSubscription(c, m.sub)
<1>1. ClientInv(a, told)
  <2>1. /\ DOMAIN a = ClientFields /\ a.got = c.got /\ a.queue = c.queue
        /\ a.draining = c.draining /\ a.subs = c.subs \cup {s} /\ a.state = "ready"
    BY <1>0 DEF AddSubscription, ClientFields
  <2>2. Sent(a) = Sent(c)
    BY <2>1 DEF Sent
  <2>3. s.told = told
    OBVIOUS
  <2> HIDE DEF a, s
  <2>4. Heard(Sent(a), s.told, told)
    BY <2>3 DEF Heard
  <2>5. Sound(a)
    BY <2>1 DEF ClientInv, Sound
  <2>6. \A r \in a.subs : r.type = "blocks" => Heard(Sent(a), r.told, told)
    BY <2>1, <2>2, <2>4 DEF ClientInv
  <2> QED BY <2>2, <2>5, <2>6 DEF ClientInv
<1>2. ClientInv(b, told)
  <2>1. /\ DOMAIN b = ClientFields /\ b.got = c.got /\ b.queue = c.queue
        /\ b.draining = c.draining /\ b.subs \subseteq c.subs /\ b.state = c.state
    BY <1>0 DEF RemoveSubscription, ClientFields
  <2> HIDE DEF b
  <2> QED BY <2>1, Alike
<1> HIDE DEF a, b
<1>3. \A e, id, v : ClientInv(e, told) => ClientInv(SendError(e, id, v, isFull), told)
                                       /\ ClientInv(SendResponse(e, id, v, TRUE, isFull), told)
  BY ErrorKeeps
<1>4. ClientInv(HandleSubscribe(c, m, told, isFull), told)
  BY <1>1, <1>3 DEF HandleSubscribe, a
<1>5. ClientInv(HandleUnsubscribe(c, m, isFull), told)
  BY <1>2, <1>3 DEF HandleUnsubscribe, b
<1> QED BY <1>4, <1>5

LEMMA RefusedKeeps ==
  ASSUME NEW c, NEW told, ClientInv(c, told), NEW m, NEW height, NEW isFull \in BOOLEAN
  PROVE  ClientInv(Refused(c, m, height, isFull), told)
<1>0. DOMAIN c = ClientFields
  BY DEF ClientInv, Sound
<1>1. \A e, id, v : ClientInv(e, told) => ClientInv(SendError(e, id, v, isFull), told)
                                       /\ ClientInv(CloseWithError(e, v, isFull), told)
  BY ErrorKeeps
<1>2. \A e : ClientInv(e, told) => ClientInv(Close(e), told)
  BY CloseKeeps
<1>3. \A v : /\ Packet("pong", m.id, v, TRUE).kind # "blocks" /\ Packet("pong", m.id, v, TRUE).fine = TRUE
            /\ Packet("ack", m.id, v, TRUE).kind # "blocks" /\ Packet("ack", m.id, v, TRUE).fine = TRUE
  BY DEF Packet
<1>4. ClientInv(HandlePing(c, m, isFull), told)
  <2>1. Packet("pong", m.id, 0, TRUE).kind # "blocks" /\ Packet("pong", m.id, 0, TRUE).fine = TRUE
    BY <1>3
  <2> QED BY <2>1, SaysOther DEF HandlePing
<1>5. ClientInv(HandleHandshake(c, m, height, isFull), told)
  <2> DEFINE d == CompleteHandshake(c)
  <2>1. /\ DOMAIN d = ClientFields /\ d.got = c.got /\ d.queue = c.queue
        /\ d.draining = c.draining /\ d.subs = c.subs /\ d.state = "ready"
    BY <1>0 DEF CompleteHandshake, ClientFields
  <2> HIDE DEF d
  <2>2. ClientInv(d, told)
    BY <2>1, Alike
  <2>3. Packet("ack", m.id, height, TRUE).kind # "blocks" /\ Packet("ack", m.id, height, TRUE).fine = TRUE
    BY <1>3
  <2>4. ClientInv(Send(d, Packet("ack", m.id, height, TRUE), isFull), told)
    BY <2>2, <2>3, SaysOther
  <2> QED BY <1>1, <1>2, <2>4 DEF HandleHandshake, d
<1> QED BY <1>1, <1>2, <1>4, <1>5 DEF Refused

LEMMA SplitIs ==
  ASSUME NEW S, NEW q \in Seq(S), NEW k \in 1 .. Len(q)
  PROVE  /\ SubSeq(q, 1, k) \in Seq(S) /\ SubSeq(q, k + 1, Len(q)) \in Seq(S)
         /\ SubSeq(q, 1, k) \o SubSeq(q, k + 1, Len(q)) = q
         /\ ~(k < Len(q)) => SubSeq(q, k + 1, Len(q)) = <<>>
<1>1. Len(q) \in Nat /\ \A i \in 1 .. Len(q) : q[i] \in S
  BY LenProperties, ElementOfSeq
<1>2. SubSeq(q, 1, k) \in Seq(S)
  BY <1>1, SubSeqProperties
<1>3. SubSeq(q, k + 1, Len(q)) \in Seq(S)
  <2>1. k + 1 \in Int /\ Len(q) \in Int /\ \A i \in k + 1 .. Len(q) : q[i] \in S
    BY <1>1
  <2> QED BY <2>1, SubSeqProperties
<1>4. SubSeq(q, 1, k) \o SubSeq(q, k + 1, Len(q)) = q
  <2>1. 1 \in 1 .. Len(q) + 1 /\ k \in 1 - 1 .. Len(q) /\ Len(q) \in k .. Len(q)
    BY <1>1
  <2>2. SubSeq(q, 1, k) \o SubSeq(q, k + 1, Len(q)) = SubSeq(q, 1, Len(q))
    BY <2>1, ConcatAdjacentSubSeq
  <2> QED BY <2>2, SubSeqFull
<1>5. ASSUME ~(k < Len(q)) PROVE SubSeq(q, k + 1, Len(q)) = <<>>
  <2>1. k + 1 \in Int /\ Len(q) \in Int /\ k + 1 > Len(q)
    BY <1>1, <1>5
  <2> QED BY <2>1, SubSeqEmpty
<1> QED BY <1>2, <1>3, <1>4, <1>5

LEMMA Regrouped ==
  ASSUME NEW S, NEW g \in Seq(S), NEW a \in Seq(S), NEW b \in Seq(S)
  PROVE  (g \o a) \o b = g \o (a \o b) /\ IsSeq(g \o a) /\ IsSeq(b)
<1>1. (g \o a) \o b = g \o (a \o b)
  BY ConcatAssociative
<1>2. g \o a \in Seq(S)
  BY ConcatProperties
<1> QED BY <1>1, <1>2, IsASequence

\* onDrain moves messages, and changes nothing of what was sent.
LEMMA FlushKeeps ==
  ASSUME NEW c, NEW told, ClientInv(c, told), NEW taken \in 1 .. Len(c.queue)
  PROVE  ClientInv(FlushQueue(c, taken), told)
<1> DEFINE d == FlushQueue(c, taken)
           g == c.got
           q == c.queue
           a == SubSeq(q, 1, taken)
           b == SubSeq(q, taken + 1, Len(q))
           S == Range(g) \cup Range(q)
<1>0. DOMAIN c = ClientFields /\ IsSeq(g) /\ IsSeq(q)
  BY DEF ClientInv, Sound
<1>1. g \in Seq(S) /\ q \in Seq(S) /\ taken \in 1 .. Len(q)
  BY <1>0, InLarger
<1>2. /\ DOMAIN d = ClientFields /\ d.got = g \o a /\ d.queue = b
      /\ d.draining = (taken < Len(q)) /\ d.subs = c.subs /\ d.state = c.state
  BY <1>0 DEF FlushQueue, ClientFields
<1>3. Sent(c) = g \o q
  BY DEF Sent
<1> HIDE DEF S, d, g, q
<1>4. a \in Seq(S) /\ b \in Seq(S) /\ a \o b = q /\ (~(taken < Len(q)) => b = <<>>)
  BY <1>1, SplitIs
<1> HIDE DEF a, b
<1>5. (g \o a) \o b = g \o (a \o b) /\ IsSeq(g \o a) /\ IsSeq(b)
  <2>1. g \in Seq(S) /\ a \in Seq(S) /\ b \in Seq(S)
    BY <1>1, <1>4
  <2> QED BY <2>1, Regrouped
<1>6. Sent(d) = Sent(c)
  BY <1>2, <1>3, <1>4, <1>5 DEF Sent
<1>7. Sound(d)
  BY <1>2, <1>4, <1>5 DEF Sound, ClientInv
<1>8. ClientInv(d, told)
  BY <1>2, <1>6, <1>7 DEF ClientInv
<1> QED BY <1>8 DEF d

-----------------------------------------------------------------------------
(* The storage and the promises *)

PromiseFields == {"q", "at", "ok", "v", "w", "born", "fault", "lag"}
PromiseStates ==
    {"read", "body", "tip", "epoch", "exists", "validate", "save", "simulation", "done"}
JudgedRoutes == BlockRoutes \cup {"epoch", "template", "preimage"}

\* Blocks are numbered in the order of their writing, and the height in progress
\* is not below the stored chain's.
BlocksSound(s) ==
    /\ s.blocks \in Seq(Nat) /\ s.next \in Nat /\ s.info \in Int /\ s.pending \in Int
    /\ Len(s.blocks) >= 1
    /\ \A i \in DOMAIN s.blocks : s.blocks[i] \in 1 .. s.next - 1
    /\ \A i, j \in DOMAIN s.blocks : i < j => s.blocks[i] < s.blocks[j]
    /\ Height(s) <= s.info
    /\ s.step = "idle" => Height(s) < s.info
    /\ s.step \notin {"idle", "purge"} => s.pending >= Height(s)
    /\ s.step = "purge" =>
          /\ s.pending \in 1 .. Len(s.blocks)
          /\ "headers" \notin s.tables => s.pending = Len(s.blocks)

\* The transactions stored are the blocks', but for what is being deleted.
BodiesSound(s) ==
    /\ s.bodies \in Seq(Nat)
    /\ s.step # "purge" => Len(s.bodies) = Len(s.blocks)
    /\ s.step # "purge" => \A i \in 1 .. Len(s.blocks) : s.bodies[i] = s.blocks[i]
    /\ s.step = "purge" =>
          /\ s.pending \in 1 .. Len(s.bodies)
          /\ \A i \in 1 .. s.pending : s.bodies[i] = s.blocks[i]
          /\ "transactions" \notin s.tables => s.pending = Len(s.bodies)
StoreSound(s) == BlocksSound(s) /\ BodiesSound(s)

\* What an accepted submission rests on, while it is being saved.
Open(s, pr) ==
    LET closing == GetBlockHeader(s, (pr.w + 1) * BlocksPerEpoch)
    IN closing = 0 \/ closing >= pr.born \/ pr.lag

\* A promise: what it has read so far is the storage's or late, and what it has
\* answered is right or accounted for.
PromiseInv(s, pr) ==
    /\ DOMAIN pr = PromiseFields /\ pr.born \in Nat /\ pr.born <= s.next
    /\ pr.at \in PromiseStates
    /\ pr.at = "read" => pr.q.route \notin {"preimage", "submit", "call"}
    /\ pr.at \in {"tip", "epoch"} => pr.q.route = "preimage"
    /\ pr.at \in {"exists", "validate", "save"} => pr.q.route = "submit"
    /\ pr.at = "simulation" => pr.q.route = "call"
    /\ pr.at = "body" =>
          /\ pr.q.route \in BlockRoutes /\ pr.v \in 1 .. s.next - 1
          /\ pr.v = Truth(s, pr.q) \/ Late(s, pr)
          /\ pr.v \in Range(s.blocks) => GetBlockHeader(s, pr.w) = pr.v
    /\ pr.at = "epoch" =>
          pr.w = CalculateCurrentEpoch(Height(s) + 1) - 2 \/ s.next # pr.born
    /\ pr.at = "save" => Open(s, pr)
    /\ pr.at = "done" =>
          /\ Fine(s, pr)
          /\ pr.q.route \in BlockRoutes /\ pr.ok => pr.v \in 1 .. s.next - 1

\* The storage t comes after s: what is new is numbered from s.next on.
Later(s, t) ==
    /\ s.next \in Nat /\ t.next \in Nat /\ s.next <= t.next
    /\ s.next = t.next => t.blocks = s.blocks /\ t.epochs = s.epochs
    /\ \A h : \/ GetBlockHeader(t, h) = 0
              \/ GetBlockHeader(t, h) = GetBlockHeader(s, h)
              \/ GetBlockHeader(t, h) \in Nat /\ GetBlockHeader(t, h) >= s.next
    /\ \A b \in Range(t.blocks) : b \in Range(s.blocks) \/ (b \in Nat /\ b >= s.next)
    /\ \A h : GetBlockHeader(s, h) \in Range(t.blocks) /\ GetBlockHeader(s, h) # 0 =>
                 GetBlockHeader(t, h) = GetBlockHeader(s, h)
    /\ \A b \in Kept(t) : b \in Kept(s) \/ (b \in Nat /\ b >= s.next)

\* What was asked for is still there, or that is late.
LEMMA LateGrows ==
  ASSUME NEW s, NEW t, Later(s, t), NEW pr, pr.born \in Nat, pr.born <= s.next,
         pr.q.route \in JudgedRoutes
  PROVE  /\ Late(s, pr) => Late(t, pr)
         /\ Truth(t, pr.q) = Truth(s, pr.q) \/ Late(t, pr)
<1>0. s.next \in Nat /\ t.next \in Nat /\ s.next <= t.next
  BY DEF Later
<1>1. CASE pr.q.route \in BlockRoutes /\ pr.q.n # -1
  <2> DEFINE a == Truth(s, pr.q)
             b == Truth(t, pr.q)
  <2>1. b = 0 \/ b = a \/ (b \in Nat /\ b >= s.next)
    <3>1. CASE pr.q.route = "block"
      <4>1. a = GetBlockHeader(s, pr.q.n) /\ b = GetBlockHeader(t, pr.q.n)
        BY <1>1, <3>1 DEF Truth
      <4> HIDE DEF a, b
      <4> QED BY <4>1 DEF Later
    <3>2. CASE pr.q.route \in {"hash", "checksum"}
      <4>1. /\ a = IF pr.q.n \in Range(s.blocks) THEN pr.q.n ELSE 0
            /\ b = IF pr.q.n \in Range(t.blocks) THEN pr.q.n ELSE 0
        BY <3>2 DEF Truth
      <4> HIDE DEF a, b
      <4> QED BY <4>1 DEF Later
    <3> QED BY <1>1, <3>1, <3>2 DEF BlockRoutes
  <2>2. /\ Late(s, pr) <=> (a = 0 \/ a >= pr.born)
        /\ Late(t, pr) <=> (b = 0 \/ b >= pr.born)
    BY <1>1 DEF Late
  <2> HIDE DEF a, b
  <2>3. b = 0 \/ b = a \/ b >= pr.born
    BY <1>0, <2>1
  <2> QED BY <2>2, <2>3 DEF a, b
<1>2. CASE ~(pr.q.route \in BlockRoutes /\ pr.q.n # -1)
  <2>1. (Late(s, pr) <=> s.next # pr.born) /\ (Late(t, pr) <=> t.next # pr.born)
    BY <1>2 DEF Late
  <2>2. CASE s.next = t.next
    <3>1. t.blocks = s.blocks /\ t.epochs = s.epochs
      BY <2>2 DEF Later
    <3>2. \A h : GetBlockHeader(t, h) = GetBlockHeader(s, h) /\ GetEpochByNumber(t, h) = GetEpochByNumber(s, h)
      BY <3>1 DEF GetBlockHeader, GetEpochByNumber, Height
    <3>3. GetLatestBlock(t) = GetLatestBlock(s) /\ GetLatestEpoch(t) = GetLatestEpoch(s)
             /\ Height(t) = Height(s)
      BY <3>1 DEF GetLatestBlock, GetLatestEpoch, Height
    <3>4. Truth(t, pr.q) = Truth(s, pr.q)
      BY <3>1, <3>2, <3>3, Zenon DEF Truth, JudgedRoutes, BlockRoutes
    <3> QED BY <2>1, <2>2, <3>4
  <2>3. CASE s.next # t.next
    <3>1. t.next # pr.born
      BY <1>0, <2>3
    <3> QED BY <2>1, <3>1
  <2> QED BY <2>2, <2>3
<1> QED BY <1>1, <1>2

LEMMA OpenStays ==
  ASSUME NEW s, NEW t, Later(s, t), NEW pr, pr.born \in Nat, pr.born <= s.next, Open(s, pr)
  PROVE  Open(t, pr)
<1> DEFINE h == (pr.w + 1) * BlocksPerEpoch
<1>1. /\ s.next \in Nat
      /\ \/ GetBlockHeader(t, h) = 0
         \/ GetBlockHeader(t, h) = GetBlockHeader(s, h)
         \/ GetBlockHeader(t, h) \in Nat /\ GetBlockHeader(t, h) >= s.next
  BY DEF Later
<1>2. GetBlockHeader(s, h) = 0 \/ GetBlockHeader(s, h) >= pr.born \/ pr.lag
  BY DEF Open
<1> HIDE DEF h
<1>3. GetBlockHeader(t, h) = 0 \/ GetBlockHeader(t, h) >= pr.born \/ pr.lag
  BY <1>1, <1>2
<1> QED BY <1>3 DEF Open, h

\* What is right stays right or becomes accounted for.
LEMMA FineStays ==
  ASSUME NEW s, NEW t, Later(s, t), NEW pr, pr.born \in Nat, pr.born <= s.next, Fine(s, pr),
         pr.q.route \in BlockRoutes /\ pr.ok => pr.v \in 1 .. s.next - 1
  PROVE  Fine(t, pr)
<1>a. AnswerOf(pr).ok = pr.ok /\ AnswerOf(pr).v = pr.v /\ AnswerOf(pr).w = pr.w
  BY DEF AnswerOf, Answer
<1>1. CASE pr.q.route \in JudgedRoutes
  <2>1. FineRead(s, pr, AnswerOf(pr))
    BY <1>1 DEF Fine, JudgedRoutes
  <2>2. /\ Late(s, pr) => Late(t, pr)
        /\ Truth(t, pr.q) = Truth(s, pr.q) \/ Late(t, pr)
    BY <1>1, LateGrows
  <2>r. pr.q.route # "submit"
    BY <1>1 DEF JudgedRoutes, BlockRoutes
  <2>3. CASE pr.ok
    <3>1. pr.v = Truth(t, pr.q) \/ Late(t, pr)
      BY <1>a, <2>1, <2>2, <2>3 DEF FineRead
    <3>2. ASSUME pr.q.route \in BlockRoutes, pr.q.full, pr.w # pr.v PROVE pr.v \notin Kept(t)
      <4>1. pr.v \notin Kept(s)
        BY <1>a, <2>1, <2>3, <3>2 DEF FineRead
      <4>2. pr.v \in 1 .. s.next - 1 /\ s.next \in Nat
        BY <2>3, <3>2 DEF Later
      <4>3. pr.v \in Kept(t) => pr.v >= s.next
        BY <4>1 DEF Later
      <4> QED BY <4>2, <4>3
    <3> QED BY <1>a, <2>r, <2>3, <3>1, <3>2 DEF Fine, FineRead, JudgedRoutes
  <2>4. CASE ~pr.ok
    <3>1. pr.fault \/ Truth(t, pr.q) = 0 \/ Late(t, pr)
      BY <1>a, <2>1, <2>2, <2>4 DEF FineRead
    <3> QED BY <1>a, <2>r, <2>4, <3>1 DEF Fine, FineRead, JudgedRoutes
  <2> QED BY <2>3, <2>4
<1>2. CASE pr.q.route = "submit"
  <2>1. pr.ok => Open(s, pr)
    BY <1>a, <1>2 DEF Fine, FineSubmission, Open, BlockRoutes
  <2>2. pr.ok => Open(t, pr)
    BY <2>1, OpenStays
  <2> QED BY <1>a, <1>2, <2>2 DEF Fine, FineSubmission, Open, BlockRoutes
<1>3. CASE pr.q.route \notin JudgedRoutes \cup {"submit"}
  BY <1>3 DEF Fine, JudgedRoutes
<1> QED BY <1>1, <1>2, <1>3

LEMMA PromiseStays ==
  ASSUME NEW s, NEW t, Later(s, t), NEW pr, PromiseInv(s, pr)
  PROVE  PromiseInv(t, pr)
<1>0. /\ DOMAIN pr = PromiseFields /\ pr.born \in Nat /\ pr.born <= s.next
      /\ s.next \in Nat /\ t.next \in Nat /\ s.next <= t.next
  BY DEF PromiseInv, Later
<1>1. pr.born <= t.next
  BY <1>0
<1>n. \A v : v \in 1 .. s.next - 1 => v \in 1 .. t.next - 1
  BY <1>0
<1>2. ASSUME pr.at = "body"
      PROVE  /\ pr.v \in 1 .. t.next - 1
             /\ pr.v = Truth(t, pr.q) \/ Late(t, pr)
             /\ pr.v \in Range(t.blocks) => GetBlockHeader(t, pr.w) = pr.v
  <2>1. /\ pr.q.route \in BlockRoutes /\ pr.v \in 1 .. s.next - 1
        /\ pr.v = Truth(s, pr.q) \/ Late(s, pr)
        /\ pr.v \in Range(s.blocks) => GetBlockHeader(s, pr.w) = pr.v
    BY <1>2 DEF PromiseInv
  <2>2. pr.v = Truth(t, pr.q) \/ Late(t, pr)
    BY <1>0, <2>1, LateGrows DEF JudgedRoutes
  <2>3. ASSUME pr.v \in Range(t.blocks) PROVE GetBlockHeader(t, pr.w) = pr.v
    <3>1. pr.v # 0 /\ ~(pr.v >= s.next)
      BY <1>0, <2>1
    <3>2. pr.v \in Range(s.blocks)
      BY <2>3, <3>1 DEF Later
    <3> QED BY <2>1, <2>3, <3>1, <3>2 DEF Later
  <2> QED BY <1>n, <2>1, <2>2, <2>3
<1>3. ASSUME pr.at = "epoch"
      PROVE  pr.w = CalculateCurrentEpoch(Height(t) + 1) - 2 \/ t.next # pr.born
  <2>1. pr.w = CalculateCurrentEpoch(Height(s) + 1) - 2 \/ s.next # pr.born
    BY <1>3 DEF PromiseInv
  <2>2. s.next = t.next => Height(t) = Height(s)
    BY DEF Later, Height
  <2> QED BY <1>0, <2>1, <2>2
<1>4. pr.at = "save" => Open(t, pr)
  BY <1>0, OpenStays DEF PromiseInv
<1>5. ASSUME pr.at = "done"
      PROVE  /\ Fine(t, pr)
             /\ pr.q.route \in BlockRoutes /\ pr.ok => pr.v \in 1 .. t.next - 1
  BY <1>0, <1>n, <1>5, FineStays DEF PromiseInv
<1> QED BY <1>0, <1>1, <1>2, <1>3, <1>4, <1>5 DEF PromiseInv

-----------------------------------------------------------------------------
(* Steps of the storage *)

LEMMA SameBlocks ==
  ASSUME NEW s, NEW t, s.next \in Nat, t.next \in Nat, s.next <= t.next, t.blocks = s.blocks,
         t.next = s.next => t.epochs = s.epochs, Kept(t) \subseteq Kept(s)
  PROVE  Later(s, t)
<1>1. \A h : GetBlockHeader(t, h) = GetBlockHeader(s, h)
  BY DEF GetBlockHeader, Height
<1> QED BY <1>1 DEF Later

\* The headers of a storage are its blocks.
LEMMA HeadersAre ==
  ASSUME NEW s, BlocksSound(s)
  PROVE  /\ Len(s.blocks) \in Nat /\ DOMAIN s.blocks = 1 .. Len(s.blocks)
         /\ \A h \in 0 .. Len(s.blocks) - 1 : GetBlockHeader(s, h) = s.blocks[h + 1]
         /\ \A h : h \notin 0 .. Len(s.blocks) - 1 => GetBlockHeader(s, h) = 0
         /\ \A b \in Range(s.blocks) :
               /\ b \in 1 .. s.next - 1
               /\ \E h \in 0 .. Len(s.blocks) - 1 : GetBlockHeader(s, h) = b
<1>1. Len(s.blocks) \in Nat /\ DOMAIN s.blocks = 1 .. Len(s.blocks)
  BY LenProperties DEF BlocksSound
<1>2. /\ \A h \in 0 .. Len(s.blocks) - 1 : GetBlockHeader(s, h) = s.blocks[h + 1]
      /\ \A h : h \notin 0 .. Len(s.blocks) - 1 => GetBlockHeader(s, h) = 0
  BY DEF GetBlockHeader, Height
<1>3. ASSUME NEW b \in Range(s.blocks)
      PROVE  /\ b \in 1 .. s.next - 1
             /\ \E h \in 0 .. Len(s.blocks) - 1 : GetBlockHeader(s, h) = b
  <2>1. PICK i \in 1 .. Len(s.blocks) : s.blocks[i] = b
    BY <1>1 DEF Range
  <2>2. i - 1 \in 0 .. Len(s.blocks) - 1 /\ s.blocks[(i - 1) + 1] = b
    BY <1>1, <2>1
  <2>3. b \in 1 .. s.next - 1
    BY <1>1, <2>1 DEF BlocksSound
  <2> QED BY <1>2, <2>2, <2>3
<1> QED BY <1>1, <1>2, <1>3

\* What is kept: everything that is stored, or what is below the fork.
LEMMA KeptAre ==
  ASSUME NEW s, BlocksSound(s)
  PROVE  /\ Kept(s) \subseteq Range(s.blocks)
         /\ s.step # "purge" => Kept(s) = Range(s.blocks)
         /\ s.step = "purge" =>
               \A b : b \in Kept(s) <=> \E i \in 1 .. s.pending : b = s.blocks[i]
<1>0. DOMAIN s.blocks = 1 .. Len(s.blocks) /\ Len(s.blocks) \in Nat
  BY HeadersAre
<1>1. Kept(s) \subseteq Range(s.blocks)
  BY DEF Kept, Range
<1>2. s.step # "purge" => Kept(s) = Range(s.blocks)
  BY DEF Kept, Range
<1>3. ASSUME s.step = "purge", NEW b
      PROVE  b \in Kept(s) <=> \E i \in 1 .. s.pending : b = s.blocks[i]
  <2>1. s.pending \in 1 .. Len(s.blocks)
    BY <1>3 DEF BlocksSound
  <2>2. {j \in DOMAIN s.blocks : s.step = "purge" => j <= s.pending} = 1 .. s.pending
    BY <1>0, <1>3, <2>1
  <2> QED BY <2>2 DEF Kept
<1> QED BY <1>1, <1>2, <1>3

LEMMA BlocksStay ==
  ASSUME NEW s, BlocksSound(s), NEW t, t.blocks = s.blocks, t.info = s.info,
         t.next = s.next + 1, t.pending \in 1 .. Len(s.blocks), t.step \in {"purge", "announce"},
         "headers" \notin t.tables \/ t.step = "announce" => t.pending = Len(s.blocks)
  PROVE  BlocksSound(t)
<1>1. /\ s.blocks \in Seq(Nat) /\ s.next \in Nat /\ s.info \in Int
      /\ Len(s.blocks) \in Nat /\ Len(s.blocks) >= 1 /\ Height(s) <= s.info
      /\ Height(s) = Len(s.blocks) - 1 /\ Height(t) = Height(s)
  BY HeadersAre DEF BlocksSound, Height
<1>2. \A v : v \in 1 .. s.next - 1 => v \in 1 .. t.next - 1
  BY <1>1
<1>3. /\ \A i \in DOMAIN t.blocks : t.blocks[i] \in 1 .. t.next - 1
      /\ \A i, j \in DOMAIN t.blocks : i < j => t.blocks[i] < t.blocks[j]
  BY <1>2 DEF BlocksSound
<1>4. t.next \in Nat /\ t.pending \in Int /\ (t.step = "announce" => t.pending >= Height(t))
  BY <1>1
<1> QED BY <1>1, <1>3, <1>4 DEF BlocksSound

LEMMA SavedBlock ==
  ASSUME NEW s, BlocksSound(s), NEW t, t.blocks = Append(s.blocks, s.next), t.next = s.next + 1,
         t.info = s.info, t.pending = Len(s.blocks), t.step = "saved", s.step = "idle"
  PROVE  BlocksSound(t) /\ Later(s, t)
<1> DEFINE n == Len(s.blocks)
<1>0. /\ n \in Nat /\ n >= 1 /\ s.next \in Nat /\ s.blocks \in Seq(Nat) /\ DOMAIN s.blocks = 1 .. n
      /\ \A i \in 1 .. n : s.blocks[i] \in 1 .. s.next - 1
      /\ \A i, j \in 1 .. n : i < j => s.blocks[i] < s.blocks[j]
      /\ s.info \in Int /\ n - 1 < s.info
  BY HeadersAre DEF BlocksSound, Height
<1>1. /\ t.blocks \in Seq(Nat) /\ Len(t.blocks) = n + 1 /\ DOMAIN t.blocks = 1 .. n + 1
      /\ \A i \in 1 .. n : t.blocks[i] = s.blocks[i]
      /\ t.blocks[n + 1] = s.next
  <2>1. /\ t.blocks \in Seq(Nat) /\ Len(t.blocks) = n + 1
        /\ \A i \in 1 .. n : t.blocks[i] = s.blocks[i]
        /\ t.blocks[n + 1] = s.next
    BY <1>0, AppendProperties
  <2>2. DOMAIN t.blocks = 1 .. Len(t.blocks)
    BY <2>1, LenProperties
  <2> QED BY <2>1, <2>2
<1> HIDE DEF n
<1>2. ASSUME NEW i \in 1 .. n + 1 PROVE t.blocks[i] \in 1 .. t.next - 1
  <2>0. \A v : v \in 1 .. s.next - 1 => v \in 1 .. t.next - 1
    BY <1>0
  <2>1. CASE i = n + 1
    <3>1. s.next \in 1 .. t.next - 1
      <4>1. s.blocks[1] \in 1 .. s.next - 1
        BY <1>0
      <4>2. s.next >= 1
        BY <1>0, <4>1
      <4> QED BY <1>0, <4>2
    <3> QED BY <1>1, <2>1, <3>1
  <2>2. CASE i # n + 1
    <3>1. i \in 1 .. n
      BY <1>0, <2>2
    <3> QED BY <1>0, <1>1, <2>0, <3>1
  <2> QED BY <2>1, <2>2
<1>3. \A i, j \in 1 .. n + 1 : i < j => t.blocks[i] < t.blocks[j]
  BY <1>0, <1>1, SMTT(30)
<1>4. Height(t) = n /\ t.pending = n
  BY <1>0, <1>1 DEF Height, n
<1>a. t.next \in Nat /\ t.info \in Int /\ t.pending \in Int /\ Len(t.blocks) >= 1
  BY <1>0, <1>1, <1>4
<1>b. Height(t) <= t.info /\ t.pending >= Height(t)
  BY <1>0, <1>4
<1>5. BlocksSound(t)
  BY <1>1, <1>2, <1>3, <1>a, <1>b DEF BlocksSound
<1>6. /\ \A h \in 0 .. n - 1 : GetBlockHeader(s, h) = s.blocks[h + 1]
      /\ \A h : h \notin 0 .. n - 1 => GetBlockHeader(s, h) = 0
      /\ \A h \in 0 .. n : GetBlockHeader(t, h) = t.blocks[h + 1]
      /\ \A h : h \notin 0 .. n => GetBlockHeader(t, h) = 0
  <2>1. Height(s) = n - 1 /\ Height(t) = n
    BY <1>0, <1>4 DEF Height, n
  <2> QED BY <2>1 DEF GetBlockHeader
<1>7. ASSUME NEW h \in 0 .. n - 1 PROVE GetBlockHeader(t, h) = GetBlockHeader(s, h)
  <2>1. h + 1 \in 1 .. n /\ h \in 0 .. n /\ h \in 0 .. n - 1
    BY <1>0
  <2>2. t.blocks[h + 1] = s.blocks[h + 1]
    BY <1>1, <2>1
  <2> QED BY <1>6, <2>1, <2>2
<1>8. GetBlockHeader(t, n) = s.next
  BY <1>0, <1>1, <1>6
<1>9. \A h : h \in 0 .. n - 1 \/ h = n \/ (h \notin 0 .. n - 1 /\ h \notin 0 .. n)
  BY <1>0
<1>10. \A h : \/ GetBlockHeader(t, h) = 0
              \/ GetBlockHeader(t, h) = GetBlockHeader(s, h)
              \/ GetBlockHeader(t, h) \in Nat /\ GetBlockHeader(t, h) >= s.next
  BY <1>0, <1>6, <1>7, <1>8, <1>9
<1>11. \A b \in Range(t.blocks) : b \in Range(s.blocks) \/ (b \in Nat /\ b >= s.next)
  BY <1>0, <1>1 DEF Range
<1>12. \A h : GetBlockHeader(s, h) # 0 => GetBlockHeader(t, h) = GetBlockHeader(s, h)
  BY <1>6, <1>7
<1>13. Kept(t) \subseteq Range(t.blocks) /\ Kept(s) = Range(s.blocks)
  BY <1>5, KeptAre
<1> QED BY <1>0, <1>5, <1>10, <1>11, <1>12, <1>13 DEF Later

\* The headers are deleted, the other tables before or after them.
LEMMA RevertedBlocks ==
  ASSUME NEW s, BlocksSound(s), s.step = "purge", NEW t, NEW fork, fork = s.pending,
         t.blocks = SubSeq(s.blocks, 1, fork), t.next = s.next + 1,
         t.info = s.info, t.pending = fork, t.step \in {"purge", "announce"}
  PROVE  BlocksSound(t) /\ Later(s, t)
<1> DEFINE n == Len(s.blocks)
<1>0. /\ n \in Nat /\ n >= 1 /\ s.next \in Nat /\ s.blocks \in Seq(Nat) /\ DOMAIN s.blocks = 1 .. n
      /\ \A i \in 1 .. n : s.blocks[i] \in 1 .. s.next - 1
      /\ \A i, j \in 1 .. n : i < j => s.blocks[i] < s.blocks[j]
      /\ s.info \in Int /\ n - 1 <= s.info /\ fork \in 1 .. n
  BY HeadersAre DEF BlocksSound, Height
<1>1. /\ t.blocks \in Seq(Nat) /\ Len(t.blocks) = fork /\ DOMAIN t.blocks = 1 .. fork
      /\ \A i \in 1 .. fork : t.blocks[i] = s.blocks[i]
  <2>1. /\ t.blocks \in Seq(Nat) /\ Len(t.blocks) = fork
        /\ \A i \in 1 .. fork : t.blocks[i] = s.blocks[i]
    <3>1. fork \in 1 .. Len(s.blocks) /\ s.blocks \in Seq(Nat)
      BY <1>0
    <3> QED BY <3>1, SplitIs, SubSeqProperties
  <2>2. DOMAIN t.blocks = 1 .. Len(t.blocks)
    BY <2>1, LenProperties
  <2> QED BY <2>1, <2>2
<1>6. /\ \A h \in 0 .. n - 1 : GetBlockHeader(s, h) = s.blocks[h + 1]
      /\ \A h : h \notin 0 .. n - 1 => GetBlockHeader(s, h) = 0
      /\ \A h \in 0 .. fork - 1 : GetBlockHeader(t, h) = t.blocks[h + 1]
      /\ \A h : h \notin 0 .. fork - 1 => GetBlockHeader(t, h) = 0
  BY <1>0, <1>1 DEF GetBlockHeader, Height
<1> HIDE DEF n
<1>c. \A i \in 1 .. fork : i \in 1 .. n
  BY <1>0
<1>2. ASSUME NEW i \in 1 .. fork PROVE t.blocks[i] \in 1 .. t.next - 1
  <2>1. t.blocks[i] \in 1 .. s.next - 1
    BY <1>0, <1>1, <1>c
  <2>2. \A v : v \in 1 .. s.next - 1 => v \in 1 .. t.next - 1
    BY <1>0
  <2> QED BY <2>1, <2>2
<1>3. \A i, j \in 1 .. fork : i < j => t.blocks[i] < t.blocks[j]
  BY <1>0, <1>1, <1>c
<1>4. Height(t) = fork - 1
  BY <1>1 DEF Height
<1>a. t.next \in Nat /\ t.info \in Int /\ t.pending \in Int /\ Len(t.blocks) >= 1
  BY <1>0, <1>1
<1>b. Height(t) <= t.info /\ t.pending >= Height(t) /\ t.pending \in 1 .. Len(t.blocks) /\ t.pending = Len(t.blocks)
  BY <1>0, <1>1, <1>4
<1>5. BlocksSound(t)
  BY <1>1, <1>2, <1>3, <1>a, <1>b DEF BlocksSound
<1>7. ASSUME NEW h \in 0 .. fork - 1 PROVE GetBlockHeader(t, h) = GetBlockHeader(s, h)
  <2>1. h + 1 \in 1 .. fork /\ h \in 0 .. n /\ h \in 0 .. n - 1
    BY <1>0, SMTT(30)
  <2>2. t.blocks[h + 1] = s.blocks[h + 1]
    BY <1>1, <2>1
  <2> QED BY <1>6, <2>1, <2>2
<1>8. \A b \in Range(t.blocks) : b \in Range(s.blocks)
  BY <1>0, <1>1 DEF Range
<1>9. ASSUME NEW h, GetBlockHeader(s, h) \in Range(t.blocks), GetBlockHeader(s, h) # 0
      PROVE  GetBlockHeader(t, h) = GetBlockHeader(s, h)
  <2>1. h \in 0 .. n - 1 /\ GetBlockHeader(s, h) = s.blocks[h + 1]
    BY <1>6, <1>9
  <2>2. PICK i \in 1 .. fork : t.blocks[i] = s.blocks[h + 1]
    BY <1>1, <1>9, <2>1 DEF Range
  <2>3. s.blocks[i] = s.blocks[h + 1] /\ i \in 1 .. n /\ h + 1 \in 1 .. n
    BY <1>0, <1>1, <2>1, <2>2
  <2>4. i = h + 1
    <3> DEFINE k == h + 1
    <3>1. i \in 1 .. n /\ k \in 1 .. n /\ s.blocks[i] = s.blocks[k] /\ s.blocks[i] \in 1 .. s.next - 1
      BY <1>0, <2>3
    <3> HIDE DEF k
    <3>2. ~(s.blocks[i] < s.blocks[k]) /\ ~(s.blocks[k] < s.blocks[i])
      BY <1>0, <3>1
    <3>3. ~(i < k) /\ ~(k < i)
      BY <1>0, <3>1, <3>2
    <3>4. i = k
      BY <1>0, <3>1, <3>3
    <3> QED BY <3>4 DEF k
  <2>5. h \in 0 .. fork - 1
    BY <1>0, <2>1, <2>2, <2>4
  <2> QED BY <1>7, <2>5
<1>10. \A h : GetBlockHeader(t, h) = 0 \/ GetBlockHeader(t, h) = GetBlockHeader(s, h)
  BY <1>6, <1>7
<1>11. s.next \in Nat /\ t.next \in Nat /\ s.next <= t.next /\ s.next # t.next
  BY <1>0
<1>12. ASSUME NEW b \in Kept(t) PROVE b \in Kept(s)
  <2>1. b \in Range(t.blocks)
    BY <1>5, KeptAre
  <2>2. PICK i \in 1 .. fork : b = t.blocks[i]
    BY <1>1, <2>1 DEF Range
  <2>3. b = s.blocks[i]
    BY <1>1, <2>2
  <2> QED BY <2>3, KeptAre
<1> QED BY <1>5, <1>8, <1>9, <1>10, <1>11, <1>12 DEF Later

LEMMA Shortened ==
  ASSUME NEW S, NEW q \in Seq(S), NEW n \in 1 .. Len(q)
  PROVE  /\ SubSeq(q, 1, n) \in Seq(S) /\ Len(SubSeq(q, 1, n)) = n
         /\ \A i \in 1 .. n : SubSeq(q, 1, n)[i] = q[i]
<1>1. Len(q) \in Nat
  BY LenProperties
<1> QED BY <1>1, SplitIs, SubSeqProperties

\* What a delete of one table does.
LEMMA Deleted ==
  ASSUME NEW table, DeleteInRange(table), DOMAIN store = StoreFields
  PROVE  /\ DOMAIN store' = StoreFields /\ store'.next = store.next + 1
         /\ store'.pending = store.pending /\ store'.tables = store.tables \ {table}
         /\ store'.info = store.info /\ store.step = "purge" /\ table \in store.tables
         /\ store'.step = IF store.tables = {table} THEN "announce" ELSE "purge"
         /\ store'.blocks = IF table = "headers" THEN SubSeq(store.blocks, 1, store.pending)
                                                 ELSE store.blocks
         /\ store'.bodies = IF table = "transactions" THEN SubSeq(store.bodies, 1, store.pending)
                                                      ELSE store.bodies
BY DEF DeleteInRange, StoreFields

\* The steps of the indexer: what it writes is numbered after everything else.
LEMMA IndexLater ==
  ASSUME BlocksSound(store), DOMAIN store = StoreFields, IndexerStep
  PROVE  BlocksSound(store') /\ Later(store, store') /\ DOMAIN store' = StoreFields
<1>0. Len(store.blocks) \in Nat /\ store.next \in Nat /\ store.info \in Int /\ store.pending \in Int
  BY HeadersAre DEF BlocksSound
<1>n. store'.next = store.next + 1 =>
          \A i : i \in 1 .. store.next - 1 => i \in 1 .. store'.next - 1
  BY <1>0
<1>2. CASE SaveBlockHeader
  <2>1. /\ DOMAIN store' = StoreFields /\ store'.blocks = Append(store.blocks, store.next)
        /\ store'.next = store.next + 1 /\ store'.pending = Len(store.blocks)
        /\ store'.info = store.info /\ store'.step = "saved" /\ store.step = "idle"
    BY <1>2 DEF SaveBlockHeader, StoreFields
  <2> QED BY <2>1, SavedBlock
<1>3. CASE UpdateEpoch
  <2>1. /\ DOMAIN store' = StoreFields /\ store'.blocks = store.blocks
        /\ store'.next = store.next + 1 /\ store'.pending = store.pending
        /\ store'.info = store.info /\ store'.step = "announce" /\ store.step = "saved"
    BY <1>3 DEF UpdateEpoch, StoreFields
  <2>4. BlocksSound(store')
    BY <1>0, <1>n, <2>1 DEF BlocksSound, Height
  <2>5. Kept(store') \subseteq Kept(store)
    BY <2>1, <2>4, KeptAre
  <2>2. Later(store, store')
    BY <1>0, <2>1, <2>5, SameBlocks
  <2> QED BY <2>1, <2>2, <2>4
<1>4. CASE SetNewHeight
  <2>1. /\ DOMAIN store' = StoreFields /\ store'.blocks = store.blocks
        /\ store'.next = store.next /\ store'.pending = store.pending
        /\ store'.info = store.pending + 1 /\ store'.step = "idle" /\ store.step = "announce"
        /\ store'.epochs = store.epochs
    BY <1>4 DEF SetNewHeight, StoreFields
  <2>4. BlocksSound(store')
    BY <1>0, <2>1 DEF BlocksSound, Height
  <2>5. Kept(store') \subseteq Kept(store)
    BY <2>1, <2>4, KeptAre
  <2>2. Later(store, store')
    BY <1>0, <2>1, <2>5, SameBlocks
  <2> QED BY <2>1, <2>2, <2>4
<1>5. ASSUME NEW fork, RevertDataUntilBlock(fork)
      PROVE  BlocksSound(store') /\ Later(store, store') /\ DOMAIN store' = StoreFields
  <2>1. /\ DOMAIN store' = StoreFields /\ store'.blocks = store.blocks
        /\ store'.next = store.next + 1 /\ store'.pending = fork /\ store'.tables = Tables
        /\ store'.info = store.info /\ store'.step = "purge" /\ store.step = "idle"
        /\ fork \in 1 .. Height(store)
    BY <1>5 DEF RevertDataUntilBlock, StoreFields
  <2>2. fork \in 1 .. Len(store.blocks) /\ fork \in Int
    BY <1>0, <2>1 DEF Height
  <2>4. BlocksSound(store')
    BY <2>1, <2>2, BlocksStay DEF Tables
  <2>5. Kept(store') \subseteq Kept(store)
    BY <2>1, <2>4, KeptAre
  <2>6. Later(store, store')
    BY <1>0, <2>1, <2>5, SameBlocks
  <2> QED BY <2>1, <2>4, <2>6
<1>6. ASSUME NEW table, DeleteInRange(table)
      PROVE  BlocksSound(store') /\ Later(store, store') /\ DOMAIN store' = StoreFields
  <2>1. /\ DOMAIN store' = StoreFields /\ store'.next = store.next + 1
        /\ store'.pending = store.pending /\ store'.tables = store.tables \ {table}
        /\ store'.info = store.info /\ store.step = "purge" /\ table \in store.tables
        /\ store'.step = IF store.tables = {table} THEN "announce" ELSE "purge"
        /\ store'.blocks = IF table = "headers" THEN SubSeq(store.blocks, 1, store.pending)
                                                ELSE store.blocks
    BY <1>6, Deleted
  <2>2. CASE table = "headers"
    <3>1. store'.blocks = SubSeq(store.blocks, 1, store.pending) /\ store'.step \in {"purge", "announce"}
      BY <2>1, <2>2
    <3> QED BY <2>1, <3>1, RevertedBlocks
  <2>3. CASE table # "headers"
    <3>1. store'.blocks = store.blocks /\ store.pending \in 1 .. Len(store.blocks)
      BY <2>1, <2>3 DEF BlocksSound
    <3>2. "headers" \notin store'.tables => store.pending = Len(store.blocks)
      BY <2>1, <2>3 DEF BlocksSound
    <3>3. CASE store'.step = "announce"
      <4>1. store.pending = Len(store.blocks)
        BY <2>1, <3>2, <3>3
      <4>2. BlocksSound(store')
        BY <2>1, <3>1, <3>3, <4>1, BlocksStay
      <4>3. Kept(store') \subseteq Kept(store)
        <5>1. Kept(store') = Range(store.blocks)
          BY <3>1, <3>3, <4>2, KeptAre
        <5>2. \A b \in Range(store.blocks) : \E i \in 1 .. store.pending : b = store.blocks[i]
          BY <4>1, HeadersAre DEF Range
        <5> QED BY <2>1, <5>1, <5>2, KeptAre
      <4>4. Later(store, store')
        BY <1>0, <2>1, <3>1, <4>3, SameBlocks
      <4> QED BY <2>1, <4>2, <4>4
    <3>4. CASE store'.step = "purge"
      <4>2. BlocksSound(store')
        BY <2>1, <3>1, <3>2, <3>4, BlocksStay
      <4>3. Kept(store') \subseteq Kept(store)
        BY <2>1, <3>1, <3>4, <4>2, KeptAre
      <4>4. Later(store, store')
        BY <1>0, <2>1, <3>1, <4>3, SameBlocks
      <4> QED BY <2>1, <4>2, <4>4
    <3> QED BY <2>1, <3>3, <3>4
  <2> QED BY <2>2, <2>3
<1> QED BY <1>2, <1>3, <1>4, <1>5, <1>6 DEF IndexerStep

\* The transactions are written with the headers, and deleted before or after.
LEMMA IndexBodies ==
  ASSUME BlocksSound(store), BodiesSound(store), DOMAIN store = StoreFields, IndexerStep
  PROVE  BodiesSound(store')
<1>0. /\ Len(store.blocks) \in Nat /\ Len(store.bodies) \in Nat /\ store.next \in Nat
      /\ store.blocks \in Seq(Nat) /\ store.bodies \in Seq(Nat)
  BY HeadersAre, LenProperties DEF BlocksSound, BodiesSound
<1>1. CASE UpdateEpoch \/ SetNewHeight
  <2>1. /\ store'.bodies = store.bodies /\ store'.blocks = store.blocks
        /\ store'.step # "purge" /\ store.step # "purge"
    BY <1>1 DEF UpdateEpoch, SetNewHeight, StoreFields
  <2> QED BY <2>1 DEF BodiesSound
<1>2. CASE SaveBlockHeader
  <2>1. /\ store'.blocks = Append(store.blocks, store.next) /\ store.step = "idle"
        /\ store'.bodies = Append(store.bodies, store.next) /\ store'.step = "saved"
    BY <1>2 DEF SaveBlockHeader, StoreFields
  <2>2. /\ Len(store.bodies) = Len(store.blocks)
        /\ \A i \in 1 .. Len(store.blocks) : store.bodies[i] = store.blocks[i]
    BY <2>1 DEF BodiesSound
  <2>3. /\ store'.bodies \in Seq(Nat) /\ Len(store'.bodies) = Len(store.blocks) + 1
        /\ \A i \in 1 .. Len(store.blocks) : store'.bodies[i] = store.bodies[i]
        /\ store'.bodies[Len(store.blocks) + 1] = store.next
    BY <1>0, <2>1, <2>2, AppendProperties
  <2>4. /\ Len(store'.blocks) = Len(store.blocks) + 1
        /\ \A i \in 1 .. Len(store.blocks) : store'.blocks[i] = store.blocks[i]
        /\ store'.blocks[Len(store.blocks) + 1] = store.next
    BY <1>0, <2>1, AppendProperties
  <2>5. \A i \in 1 .. Len(store.blocks) + 1 : i \in 1 .. Len(store.blocks) \/ i = Len(store.blocks) + 1
    BY <1>0, SMTT(30)
  <2>6. \A i \in 1 .. Len(store'.blocks) : store'.bodies[i] = store'.blocks[i]
    BY <2>2, <2>3, <2>4, <2>5
  <2> QED BY <2>1, <2>3, <2>4, <2>6 DEF BodiesSound
<1>3. ASSUME NEW fork, RevertDataUntilBlock(fork) PROVE BodiesSound(store')
  <2>1. /\ store'.blocks = store.blocks /\ store'.bodies = store.bodies
        /\ store'.pending = fork /\ store'.tables = Tables
        /\ store'.step = "purge" /\ store.step = "idle" /\ fork \in 1 .. Height(store)
    BY <1>3 DEF RevertDataUntilBlock, StoreFields
  <2>2. /\ Len(store.bodies) = Len(store.blocks)
        /\ \A i \in 1 .. Len(store.blocks) : store.bodies[i] = store.blocks[i]
    BY <2>1 DEF BodiesSound
  <2>3. fork \in 1 .. Len(store.bodies) /\ \A i \in 1 .. fork : i \in 1 .. Len(store.blocks)
    BY <1>0, <2>1, <2>2 DEF Height
  <2> QED BY <1>0, <2>1, <2>2, <2>3 DEF BodiesSound, Tables
<1>4. ASSUME NEW table, DeleteInRange(table) PROVE BodiesSound(store')
  <2> DEFINE n == store.pending
  <2>1. /\ store'.pending = n /\ store'.tables = store.tables \ {table}
        /\ store.step = "purge" /\ table \in store.tables
        /\ store'.step = IF store.tables = {table} THEN "announce" ELSE "purge"
        /\ store'.blocks = IF table = "headers" THEN SubSeq(store.blocks, 1, n) ELSE store.blocks
        /\ store'.bodies = IF table = "transactions" THEN SubSeq(store.bodies, 1, n)
                                                     ELSE store.bodies
    BY <1>4, Deleted
  <2>2. /\ n \in 1 .. Len(store.blocks) /\ n \in 1 .. Len(store.bodies)
        /\ \A i \in 1 .. n : store.bodies[i] = store.blocks[i]
        /\ "headers" \notin store.tables => n = Len(store.blocks)
        /\ "transactions" \notin store.tables => n = Len(store.bodies)
    BY <2>1 DEF BlocksSound, BodiesSound
  <2> HIDE DEF n
  <2>3. /\ Len(store'.blocks) \in Nat /\ n <= Len(store'.blocks)
        /\ \A i \in 1 .. n : store'.blocks[i] = store.blocks[i]
        /\ "headers" \notin store'.tables => n = Len(store'.blocks)
    <3>1. CASE table = "headers"
      <4>1. /\ Len(store'.blocks) = n
            /\ \A i \in 1 .. n : store'.blocks[i] = store.blocks[i]
        BY <1>0, <2>1, <2>2, <3>1, Shortened
      <4> QED BY <2>2, <4>1
    <3>2. CASE table # "headers"
      BY <1>0, <2>1, <2>2, <3>2
    <3> QED BY <3>1, <3>2
  <2>4. /\ store'.bodies \in Seq(Nat) /\ n \in 1 .. Len(store'.bodies)
        /\ \A i \in 1 .. n : store'.bodies[i] = store.bodies[i]
        /\ "transactions" \notin store'.tables => n = Len(store'.bodies)
    <3>1. CASE table = "transactions"
      <4>1. /\ store'.bodies \in Seq(Nat) /\ Len(store'.bodies) = n
            /\ \A i \in 1 .. n : store'.bodies[i] = store.bodies[i]
        BY <1>0, <2>1, <2>2, <3>1, Shortened, SMTT(30)
      <4> QED BY <2>2, <4>1
    <3>2. CASE table # "transactions"
      BY <1>0, <2>1, <2>2, <3>2
    <3> QED BY <3>1, <3>2
  <2>5. \A i \in 1 .. n : store'.bodies[i] = store'.blocks[i]
    BY <2>2, <2>3, <2>4
  <2>6. CASE store'.step = "purge"
    BY <2>1, <2>4, <2>5, <2>6 DEF BodiesSound
  <2>7. CASE store'.step = "announce"
    <3>1. store'.tables = {}
      BY <2>1, <2>7
    <3> QED BY <2>3, <2>4, <2>5, <2>7, <3>1 DEF BodiesSound
  <2> QED BY <2>1, <2>6, <2>7
<1> QED BY <1>1, <1>2, <1>3, <1>4 DEF IndexerStep

-----------------------------------------------------------------------------
(* Steps of a promise *)

\* A promise after a read, as far as its judgement goes.
Same(pr, d) ==
    /\ DOMAIN d = PromiseFields /\ d.q = pr.q /\ d.born = pr.born
    /\ d.fault = pr.fault /\ d.lag = pr.lag

LEMMA SettledIs ==
  ASSUME NEW pr, DOMAIN pr = PromiseFields, NEW ok, NEW v, NEW w, NEW d, d = Settled(pr, ok, v, w)
  PROVE  Same(pr, d) /\ d.at = "done" /\ d.ok = ok /\ d.v = v /\ d.w = w
BY DEF Settled, Same, PromiseFields

LEMMA SameLate ==
  ASSUME NEW s, NEW pr, NEW d, Same(pr, d)
  PROVE  Late(s, d) <=> Late(s, pr)
BY DEF Same, Late

\* A promise that is settled with a fine answer.
LEMMA DoneInv ==
  ASSUME NEW s, NEW pr, PromiseInv(s, pr), NEW d, DOMAIN d = PromiseFields, d.q = pr.q,
         d.born = pr.born, d.at = "done", Fine(s, d),
         pr.q.route \in BlockRoutes /\ d.ok => d.v \in 1 .. s.next - 1
  PROVE  PromiseInv(s, d) /\ d.q = pr.q
BY DEF PromiseInv, PromiseStates

LEMMA FailedInv ==
  ASSUME NEW s, NEW pr, PromiseInv(s, pr)
  PROVE  PromiseInv(s, Failed(pr)) /\ Failed(pr).q = pr.q /\ Failed(pr).at = "done"
<1> DEFINE d == Failed(pr)
<1>0. DOMAIN pr = PromiseFields
  BY DEF PromiseInv
<1>1. /\ DOMAIN d = PromiseFields /\ d.q = pr.q /\ d.born = pr.born /\ d.at = "done"
      /\ d.ok = FALSE /\ d.fault = TRUE
  BY <1>0 DEF Failed, Rejected, Settled, PromiseFields
<1>2. AnswerOf(d).ok = FALSE
  BY <1>1 DEF AnswerOf, Answer
<1> HIDE DEF d
<1>3. Fine(s, d)
  BY <1>1, <1>2 DEF Fine, FineRead, FineSubmission
<1>4. PromiseInv(s, d)
  BY <1>1, <1>3, DoneInv
<1> QED BY <1>1, <1>4 DEF d

\* A route that is not judged.
LEMMA UnjudgedInv ==
  ASSUME NEW s, NEW pr, PromiseInv(s, pr), pr.q.route \notin JudgedRoutes \cup {"submit"},
         NEW d, DOMAIN d = PromiseFields, d.q = pr.q, d.born = pr.born, d.at = "done"
  PROVE  PromiseInv(s, d) /\ d.q = pr.q
<1>1. Fine(s, d)
  BY DEF Fine, JudgedRoutes
<1> QED BY <1>1, DoneInv DEF JudgedRoutes

\* An answer of a route that is judged.
LEMMA AnsweredInv ==
  ASSUME NEW s, NEW pr, PromiseInv(s, pr), pr.q.route \in JudgedRoutes, NEW d, Same(pr, d),
         d.at = "done", d.ok \in BOOLEAN,
         d.ok => d.v = Truth(s, pr.q) \/ Late(s, pr),
         pr.q.route \in BlockRoutes /\ d.ok =>
             d.v \in 1 .. s.next - 1 /\ (d.w = d.v \/ d.v \notin Kept(s) \/ ~pr.q.full),
         ~d.ok => Truth(s, pr.q) = 0 \/ Late(s, pr)
  PROVE  PromiseInv(s, d) /\ d.q = pr.q
<1>1. AnswerOf(d).ok = d.ok /\ AnswerOf(d).v = d.v /\ AnswerOf(d).w = d.w
  BY DEF AnswerOf, Answer
<1>2. DOMAIN d = PromiseFields /\ d.q = pr.q /\ d.born = pr.born /\ (Late(s, d) <=> Late(s, pr))
  BY SameLate DEF Same
<1>3. FineRead(s, d, AnswerOf(d))
  <2>1. CASE d.ok
    BY <1>1, <1>2, <2>1 DEF FineRead
  <2>2. CASE ~d.ok
    BY <1>1, <1>2, <2>2 DEF FineRead
  <2> QED BY <2>1, <2>2
<1>4. pr.q.route # "submit"
  BY DEF JudgedRoutes, BlockRoutes
<1>5. Fine(s, d)
  BY <1>2, <1>3, <1>4 DEF Fine
<1> QED BY <1>2, <1>5, DoneInv

\* The header, and then the transactions by its height.
LEMMA BlockReadKeeps ==
  ASSUME BlocksSound(store), NEW pr, PromiseInv(store, pr), pr.at = "read",
         pr.q.route \in BlockRoutes
  PROVE  PromiseInv(store, BlockRead(pr)) /\ BlockRead(pr).q = pr.q
<1> DEFINE n == pr.q.n
           header == CASE pr.q.route # "block" -> IF n \in Range(store.blocks) THEN n ELSE 0
                       [] pr.q.route = "block" /\ n = -1 -> GetLatestBlock(store)
                       [] OTHER -> GetBlockHeader(store, n)
           height == CHOOSE h \in 0 .. Height(store) : GetBlockHeader(store, h) = header
           d == BlockRead(pr)
<1>0. DOMAIN pr = PromiseFields /\ pr.born \in Nat /\ pr.born <= store.next /\ store.next \in Nat
  BY DEF PromiseInv, BlocksSound
<1>1. header = Truth(store, pr.q)
  <2>1. CASE pr.q.route = "block"
    <3>1. header = IF n = -1 THEN GetLatestBlock(store) ELSE GetBlockHeader(store, n)
      BY <2>1, Zenon
    <3>2. Truth(store, pr.q) = IF n = -1 THEN GetLatestBlock(store) ELSE GetBlockHeader(store, n)
      BY <2>1 DEF Truth
    <3> QED BY <3>1, <3>2
  <2>2. CASE pr.q.route \in {"hash", "checksum"}
    <3>0. pr.q.route # "block"
      BY <2>2
    <3>1. header = IF n \in Range(store.blocks) THEN n ELSE 0
      BY <3>0, Zenon
    <3>2. Truth(store, pr.q) = IF n \in Range(store.blocks) THEN n ELSE 0
      BY <2>2 DEF Truth
    <3> QED BY <3>1, <3>2, Zenon
  <2> QED BY <2>1, <2>2 DEF BlockRoutes
<1>2. d = IF header # 0 /\ pr.q.full
             THEN [pr EXCEPT !.at = "body", !.v = header, !.w = height]
             ELSE Settled(pr, header # 0, header, header)
  BY Zenon DEF BlockRead
<1>3. header # 0 => header \in Range(store.blocks)
  <2>1. GetLatestBlock(store) \in Range(store.blocks)
    <3>1. Len(store.blocks) \in DOMAIN store.blocks
      BY HeadersAre DEF BlocksSound
    <3> QED BY <3>1 DEF GetLatestBlock, Last, Range
  <2>2. \A h : GetBlockHeader(store, h) # 0 => GetBlockHeader(store, h) \in Range(store.blocks)
    <3> SUFFICES ASSUME NEW h, GetBlockHeader(store, h) # 0
                 PROVE  GetBlockHeader(store, h) \in Range(store.blocks)
      OBVIOUS
    <3>1. h \in 0 .. Len(store.blocks) - 1 /\ GetBlockHeader(store, h) = store.blocks[h + 1]
      BY HeadersAre
    <3>2. h + 1 \in DOMAIN store.blocks
      BY <3>1, HeadersAre
    <3> QED BY <3>1, <3>2 DEF Range
  <2> QED BY <2>1, <2>2
<1> HIDE DEF header
<1>4. header # 0 => /\ header \in 1 .. store.next - 1
                    /\ GetBlockHeader(store, height) = header
  <2> SUFFICES ASSUME header # 0
               PROVE  /\ header \in 1 .. store.next - 1
                      /\ GetBlockHeader(store, height) = header
    OBVIOUS
  <2>1. PICK h \in 0 .. Len(store.blocks) - 1 : GetBlockHeader(store, h) = header
    BY <1>3, HeadersAre
  <2>2. h \in 0 .. Height(store)
    BY <2>1 DEF Height
  <2>3. GetBlockHeader(store, height) = header
    BY <2>1, <2>2
  <2> QED BY <1>3, <2>3, HeadersAre
<1> HIDE DEF height, d
<1>5. CASE header # 0 /\ pr.q.full
  <2>1. /\ DOMAIN d = PromiseFields /\ d.q = pr.q /\ d.born = pr.born /\ d.at = "body"
        /\ d.v = header /\ d.w = height
    BY <1>0, <1>2, <1>5 DEF PromiseFields
  <2>2. PromiseInv(store, d)
    BY <1>0, <1>1, <1>4, <1>5, <2>1 DEF PromiseInv, PromiseStates
  <2> QED BY <2>1, <2>2 DEF d
<1>6. CASE ~(header # 0 /\ pr.q.full)
  <2> DEFINE ok == header # 0
  <2>0. d = Settled(pr, ok, header, header)
    BY <1>2, <1>6
  <2>b. ok \in BOOLEAN /\ (ok <=> header # 0)
    OBVIOUS
  <2> HIDE DEF ok
  <2>1. Same(pr, d) /\ d.at = "done" /\ d.ok = ok /\ d.v = header /\ d.w = header
    BY <1>0, <2>0, SettledIs
  <2>2. PromiseInv(store, d) /\ d.q = pr.q
    BY <1>1, <1>4, <2>b, <2>1, AnsweredInv DEF JudgedRoutes
  <2> QED BY <2>2 DEF d
<1> QED BY <1>5, <1>6

\* The transactions at the height of a block that is kept are its own.
LEMMA BodyIs ==
  ASSUME StoreSound(store), NEW h, GetBlockHeader(store, h) \in Kept(store)
  PROVE  GetTransactions(store, h) = GetBlockHeader(store, h)
<1> DEFINE n == Len(store.blocks)
           k == h + 1
<1>0. /\ n \in Nat /\ DOMAIN store.blocks = 1 .. n /\ Len(store.bodies) \in Nat
      /\ DOMAIN store.bodies = 1 .. Len(store.bodies)
      /\ \A i \in 1 .. n : store.blocks[i] \in 1 .. store.next - 1
      /\ \A i, j \in 1 .. n : i < j => store.blocks[i] < store.blocks[j]
      /\ store.next \in Nat
  BY HeadersAre, LenProperties DEF StoreSound, BlocksSound, BodiesSound
<1>1. h \in 0 .. n - 1 /\ GetBlockHeader(store, h) = store.blocks[k]
  <2>1. GetBlockHeader(store, h) # 0
    <3>1. GetBlockHeader(store, h) \in Range(store.blocks)
      BY KeptAre DEF StoreSound
    <3>2. GetBlockHeader(store, h) \in 1 .. store.next - 1
      BY <3>1, HeadersAre DEF StoreSound
    <3> QED BY <1>0, <3>2
  <2> QED BY <2>1, HeadersAre DEF StoreSound
<1>2. k \in 1 .. n
  BY <1>0, <1>1
<1>3. GetTransactions(store, h) = IF k \in DOMAIN store.bodies THEN store.bodies[k] ELSE 0
  BY DEF GetTransactions
<1> HIDE DEF n, k
<1>4. CASE store.step # "purge"
  <2>1. Len(store.bodies) = n /\ \A i \in 1 .. n : store.bodies[i] = store.blocks[i]
    BY <1>4 DEF StoreSound, BodiesSound, n
  <2> QED BY <1>0, <1>1, <1>2, <1>3, <2>1
<1>5. CASE store.step = "purge"
  <2>1. /\ store.pending \in 1 .. n /\ store.pending \in 1 .. Len(store.bodies)
        /\ \A i \in 1 .. store.pending : store.bodies[i] = store.blocks[i]
    BY <1>5 DEF StoreSound, BlocksSound, BodiesSound, n
  <2>2. PICK i \in 1 .. store.pending : store.blocks[k] = store.blocks[i]
    BY <1>1, <1>5, KeptAre DEF StoreSound
  <2>3. i \in 1 .. n
    BY <1>0, <2>1
  <2>4. i = k
    <3>1. store.blocks[i] \in Int /\ store.blocks[k] \in Int
      BY <1>0, <1>2, <2>3
    <3>2. ~(store.blocks[i] < store.blocks[k]) /\ ~(store.blocks[k] < store.blocks[i])
      BY <2>2, <3>1
    <3>3. ~(i < k) /\ ~(k < i)
      BY <1>0, <1>2, <2>3, <3>2
    <3> QED BY <1>0, <1>2, <2>3, <3>3
  <2>5. k \in 1 .. Len(store.bodies) /\ store.bodies[k] = store.blocks[k]
    BY <1>0, <2>1, <2>4
  <2> QED BY <1>0, <1>1, <1>3, <2>5
<1> QED BY <1>4, <1>5

LEMMA BodyReadKeeps ==
  ASSUME StoreSound(store), NEW pr, PromiseInv(store, pr), pr.at = "body"
  PROVE  PromiseInv(store, BodyRead(pr)) /\ BodyRead(pr).q = pr.q
<1> DEFINE d == BodyRead(pr)
           w == GetTransactions(store, pr.w)
<1>0. /\ DOMAIN pr = PromiseFields /\ pr.q.route \in BlockRoutes /\ pr.v \in 1 .. store.next - 1
      /\ pr.v = Truth(store, pr.q) \/ Late(store, pr)
      /\ pr.v \in Range(store.blocks) => GetBlockHeader(store, pr.w) = pr.v
  BY DEF PromiseInv
<1>k. pr.v \in Kept(store) => w = pr.v
  BY <1>0, BodyIs, KeptAre DEF StoreSound
<1>1. d = Settled(pr, TRUE, pr.v, w)
  BY DEF BodyRead
<1> HIDE DEF d, w
<1>2. Same(pr, d) /\ d.at = "done" /\ d.ok = TRUE /\ d.v = pr.v /\ d.w = w
  BY <1>0, <1>1 DEF Settled, Same, PromiseFields
<1>3. PromiseInv(store, d) /\ d.q = pr.q
  BY <1>0, <1>k, <1>2, AnsweredInv DEF JudgedRoutes
<1> QED BY <1>3 DEF d

\* What is there is found.
LEMMA FoundKeeps ==
  ASSUME NEW s, NEW pr, PromiseInv(s, pr), pr.q.route \in {"epoch", "template", "preimage"},
         NEW v, v = Truth(s, pr.q) \/ Late(s, pr), NEW d, d = Found(pr, v)
  PROVE  PromiseInv(s, d) /\ d.q = pr.q /\ \A w : PromiseInv(s, [d EXCEPT !.w = w])
<1> DEFINE ok == v # 0
<1>0. DOMAIN pr = PromiseFields /\ pr.q.route \in JudgedRoutes /\ pr.q.route \notin BlockRoutes
  BY DEF PromiseInv, JudgedRoutes, BlockRoutes
<1>1. d = Settled(pr, ok, v, 0)
  BY DEF Found
<1>2. ok \in BOOLEAN /\ (ok <=> v # 0)
  OBVIOUS
<1> HIDE DEF ok
<1>3. Same(pr, d) /\ d.at = "done" /\ d.ok = ok /\ d.v = v
  BY <1>0, <1>1, SettledIs
<1>5. PromiseInv(s, d) /\ d.q = pr.q
  BY <1>0, <1>2, <1>3, AnsweredInv
<1>6. ASSUME NEW w PROVE PromiseInv(s, [d EXCEPT !.w = w])
  <2> DEFINE e == [d EXCEPT !.w = w]
  <2>1. Same(pr, e) /\ e.at = "done" /\ e.ok = ok /\ e.v = v
    BY <1>3 DEF Same, PromiseFields
  <2> HIDE DEF e
  <2>2. PromiseInv(s, e) /\ e.q = pr.q
    BY <1>0, <1>2, <2>1, AnsweredInv
  <2> QED BY <2>2 DEF e
<1> QED BY <1>5, <1>6

LEMMA EpochReadKeeps ==
  ASSUME NEW pr, PromiseInv(store, pr), pr.at = "read", pr.q.route = "epoch"
  PROVE  PromiseInv(store, EpochRead(pr)) /\ EpochRead(pr).q = pr.q
<1> DEFINE v == IF pr.q.n = -1 THEN GetLatestEpoch(store) ELSE GetEpochByNumber(store, pr.q.n)
<1>1. v = Truth(store, pr.q)
  BY DEF Truth
<1>2. EpochRead(pr) = Found(pr, v)
  BY DEF EpochRead
<1> HIDE DEF v
<1>3. pr.q.route \in {"epoch", "template", "preimage"}
  OBVIOUS
<1> QED BY <1>1, <1>2, <1>3, FoundKeeps

LEMMA TemplateReadKeeps ==
  ASSUME NEW pr, PromiseInv(store, pr), pr.at = "read", pr.q.route = "template"
  PROVE  PromiseInv(store, TemplateRead(pr)) /\ TemplateRead(pr).q = pr.q
<1> DEFINE e == CalculateCurrentEpoch(pr.q.n)
           v == IF e = 0 THEN 0 ELSE GetBlockHeader(store, e * BlocksPerEpoch - 1)
<1>1. TemplateRead(pr) = Found(pr, v)
  BY DEF TemplateRead
<1>2. Truth(store, pr.q) = GetBlockHeader(store, (e * BlocksPerEpoch) - 1)
  BY DEF Truth
<1> HIDE DEF e
<1>3. e = 0 => GetBlockHeader(store, (e * BlocksPerEpoch) - 1) = 0
  <2> SUFFICES ASSUME e = 0 PROVE GetBlockHeader(store, (e * BlocksPerEpoch) - 1) = 0
    OBVIOUS
  <2>1. (e * BlocksPerEpoch) - 1 = -1
    BY BlocksPerEpochAssumption
  <2>2. -1 \notin 0 .. Height(store)
    OBVIOUS
  <2> QED BY <2>1, <2>2 DEF GetBlockHeader
<1>4. v = Truth(store, pr.q)
  BY <1>2, <1>3
<1> HIDE DEF v
<1>5. pr.q.route \in {"epoch", "template", "preimage"}
  OBVIOUS
<1> QED BY <1>1, <1>4, <1>5, FoundKeeps

LEMMA PreimageKeeps ==
  ASSUME StoreSound(store), NEW pr, PromiseInv(store, pr)
  PROVE  /\ pr.at = "tip" => PromiseInv(store, PreimageTip(pr)) /\ PreimageTip(pr).q = pr.q
         /\ pr.at = "epoch" => PromiseInv(store, PreimageEpoch(pr)) /\ PreimageEpoch(pr).q = pr.q
<1> DEFINE target == CalculateCurrentEpoch(Height(store) + 1) - 2
<1>0. DOMAIN pr = PromiseFields /\ pr.born \in Nat /\ pr.born <= store.next
  BY DEF PromiseInv
<1>1. ASSUME pr.at = "tip"
      PROVE  PromiseInv(store, PreimageTip(pr)) /\ PreimageTip(pr).q = pr.q
  <2> DEFINE d == PreimageTip(pr)
  <2>r. pr.q.route = "preimage"
    BY <1>1 DEF PromiseInv
  <2>1. d = IF target < 0 THEN Rejected(pr) ELSE [pr EXCEPT !.at = "epoch", !.w = target]
    BY DEF PreimageTip
  <2>t. Truth(store, pr.q) = GetEpochByNumber(store, target)
    BY <2>r DEF Truth
  <2> HIDE DEF target, d
  <2>2. CASE target < 0
    <3>1. target \notin Nat
      BY <2>2
    <3>2. Truth(store, pr.q) = 0
      BY <2>t, <3>1 DEF GetEpochByNumber
    <3>3. Same(pr, d) /\ d.at = "done" /\ d.ok = FALSE
      BY <1>0, <2>1, <2>2 DEF Rejected, Settled, Same, PromiseFields
    <3>4. PromiseInv(store, d) /\ d.q = pr.q
      BY <2>r, <3>2, <3>3, AnsweredInv DEF JudgedRoutes, BlockRoutes
    <3> QED BY <3>4 DEF d
  <2>3. CASE ~(target < 0)
    <3>1. /\ DOMAIN d = PromiseFields /\ d.q = pr.q /\ d.born = pr.born /\ d.at = "epoch"
          /\ d.w = target
      BY <1>0, <2>1, <2>3 DEF PromiseFields
    <3>2. PromiseInv(store, d)
      BY <1>0, <2>r, <3>1 DEF PromiseInv, PromiseStates, target
    <3> QED BY <3>1, <3>2 DEF d
  <2> QED BY <2>2, <2>3
<1>2. ASSUME pr.at = "epoch"
      PROVE  PromiseInv(store, PreimageEpoch(pr)) /\ PreimageEpoch(pr).q = pr.q
  <2> DEFINE v == GetEpochByNumber(store, pr.w)
  <2>1. pr.q.route = "preimage" /\ (pr.w = target \/ store.next # pr.born)
    BY <1>2 DEF PromiseInv
  <2>2. v = Truth(store, pr.q) \/ Late(store, pr)
    BY <2>1 DEF Truth, Late, BlockRoutes
  <2>3. PreimageEpoch(pr) = [Found(pr, v) EXCEPT !.w = pr.w]
    BY DEF PreimageEpoch
  <2> DEFINE d == Found(pr, v)
             e == [d EXCEPT !.w = pr.w]
  <2>4. pr.q.route \in {"epoch", "template", "preimage"}
    BY <2>1
  <2>5. e = PreimageEpoch(pr)
    BY <2>3
  <2> HIDE DEF v, target
  <2>6. PromiseInv(store, d) /\ d.q = pr.q /\ \A w : PromiseInv(store, [d EXCEPT !.w = w])
    <3> HIDE DEF e
    <3> QED BY <2>2, <2>4, FoundKeeps
  <2>7. PromiseInv(store, e)
    BY <2>6
  <2>8. e.q = pr.q
    BY <2>6 DEF PromiseInv, PromiseFields
  <2> QED BY <2>5, <2>7, <2>8
<1> QED BY <1>1, <1>2

\* The block that closes the epoch of a height is above it.
LEMMA ClosesAbove ==
  ASSUME NEW h \in Int
  PROVE  (CalculateCurrentEpoch(h) + 1) * BlocksPerEpoch > h
         /\ (CalculateCurrentEpoch(h) + 1) * BlocksPerEpoch \in Int
<1> DEFINE b == BlocksPerEpoch
           e == h \div b
           r == h % b
<1>1. b \in Nat \ {0}
  BY BlocksPerEpochAssumption
<1>2. e \in Int /\ r \in 0 .. b - 1 /\ h = b * e + r
  BY <1>1
<1>3. CalculateCurrentEpoch(h) = e
  BY DEF CalculateCurrentEpoch
<1> HIDE DEF b, e, r
<1>4. (e + 1) * b = b * e + b
  BY <1>1, <1>2
<1>5. b * e \in Int
  BY <1>1, <1>2
<1>6. (e + 1) * b > h /\ (e + 1) * b \in Int
  BY <1>1, <1>2, <1>4, <1>5
<1> QED BY <1>3, <1>6 DEF b

LEMMA ValidateKeeps ==
  ASSUME StoreSound(store), NEW pr, PromiseInv(store, pr), pr.at = "validate"
  PROVE  PromiseInv(store, ValidateEpochSolution(pr)) /\ ValidateEpochSolution(pr).q = pr.q
<1> DEFINE e == CalculateCurrentEpoch(cache.height)
           header == GetBlockHeader(store, e * BlocksPerEpoch - 1)
           lag == cache.height # store.info
           d == ValidateEpochSolution(pr)
<1>0. /\ DOMAIN pr = PromiseFields /\ pr.born \in Nat /\ pr.born <= store.next
      /\ pr.q.route = "submit" /\ store.next \in Nat /\ store.info \in Int
  BY DEF PromiseInv, StoreSound, BlocksSound
<1>1. \/ d = Rejected(pr)
      \/ d = [pr EXCEPT !.at = "save", !.v = header, !.w = e, !.born = store.next, !.lag = lag]
  BY Zenon DEF ValidateEpochSolution
<1>l. lag <=> cache.height # store.info
  OBVIOUS
<1> HIDE DEF header, d, lag
<1>2. CASE d = Rejected(pr)
  <2>1. /\ DOMAIN d = PromiseFields /\ d.q = pr.q /\ d.born = pr.born /\ d.at = "done"
        /\ d.ok = FALSE
    BY <1>0, <1>2 DEF Rejected, Settled, PromiseFields
  <2>2. Fine(store, d)
    <3>1. AnswerOf(d).ok = FALSE
      BY <2>1 DEF AnswerOf, Answer
    <3> QED BY <1>0, <2>1, <3>1 DEF Fine, FineSubmission, BlockRoutes
  <2>3. PromiseInv(store, d) /\ d.q = pr.q
    BY <1>0, <2>1, <2>2, DoneInv DEF BlockRoutes
  <2> QED BY <2>3 DEF d
<1>3. CASE d = [pr EXCEPT !.at = "save", !.v = header, !.w = e, !.born = store.next, !.lag = lag]
  <2>1. /\ DOMAIN d = PromiseFields /\ d.q = pr.q /\ d.born = store.next /\ d.at = "save"
        /\ d.w = e /\ d.lag = lag
    <3> HIDE DEF e
    <3> QED BY <1>0, <1>3 DEF PromiseFields
  <2>2. Open(store, d)
    <3>1. CASE lag
      BY <2>1, <3>1 DEF Open
    <3>2. CASE ~lag
      <4>1. e = CalculateCurrentEpoch(store.info)
        BY <1>l, <3>2
      <4> HIDE DEF e
      <4> DEFINE h == (e + 1) * BlocksPerEpoch
      <4>2. h \in Int /\ h > store.info
        BY <1>0, <4>1, ClosesAbove
      <4>3. Height(store) \in Int /\ Height(store) <= store.info
        BY HeadersAre DEF StoreSound, BlocksSound, Height
      <4> HIDE DEF h
      <4>4. h \notin 0 .. Height(store)
        BY <1>0, <4>2, <4>3
      <4>5. GetBlockHeader(store, h) = 0
        BY <4>4 DEF GetBlockHeader
      <4> QED BY <2>1, <4>5 DEF Open, h
    <3> QED BY <3>1, <3>2
  <2>3. PromiseInv(store, d)
    BY <1>0, <2>1, <2>2 DEF PromiseInv, PromiseStates
  <2> QED BY <2>1, <2>3 DEF d
<1> QED BY <1>1, <1>2, <1>3

LEMMA SaveKeeps ==
  ASSUME NEW pr, PromiseInv(store, pr), pr.at = "save"
  PROVE  LET d == Settled(pr, TRUE, pr.v, pr.w) IN PromiseInv(store, d) /\ d.q = pr.q
<1> DEFINE d == Settled(pr, TRUE, pr.v, pr.w)
<1>0. DOMAIN pr = PromiseFields /\ pr.q.route = "submit" /\ Open(store, pr)
  BY DEF PromiseInv
<1>1. /\ DOMAIN d = PromiseFields /\ d.q = pr.q /\ d.born = pr.born /\ d.at = "done"
      /\ d.w = pr.w /\ d.lag = pr.lag
  BY <1>0 DEF Settled, PromiseFields
<1>2. AnswerOf(d).w = d.w
  BY DEF AnswerOf, Answer
<1> HIDE DEF d
<1>3. Fine(store, d)
  BY <1>0, <1>1, <1>2 DEF Fine, FineSubmission, Open, BlockRoutes
<1>4. PromiseInv(store, d) /\ d.q = pr.q
  BY <1>0, <1>1, <1>3, DoneInv DEF BlockRoutes
<1> QED BY <1>4 DEF d

\* Every read of the storage leaves a promise right or accounted for.
LEMMA ReadKeeps ==
  ASSUME StoreSound(store), NEW pr, PromiseInv(store, pr), pr.at \notin {"done", "simulation"}
  PROVE  PromiseInv(store, Read(pr)) /\ Read(pr).q = pr.q
<1>0. /\ DOMAIN pr = PromiseFields /\ pr.at \in PromiseStates
      /\ pr.at = "read" => pr.q.route \notin {"preimage", "submit", "call"}
  BY DEF PromiseInv
<1>1. CASE pr.at = "read" /\ pr.q.route \in BlockRoutes
  <2>1. Read(pr) = BlockRead(pr)
    BY <1>1 DEF Read, RememberingRoutes, BlockRoutes
  <2> QED BY <1>1, <2>1, BlockReadKeeps DEF StoreSound
<1>2. CASE pr.at = "body"
  <2>1. Read(pr) = BodyRead(pr)
    BY <1>2 DEF Read
  <2> QED BY <1>2, <2>1, BodyReadKeeps
<1>3. CASE pr.at = "read" /\ pr.q.route = "epoch"
  <2>1. Read(pr) = EpochRead(pr)
    BY <1>3 DEF Read, RememberingRoutes, BlockRoutes
  <2> QED BY <1>3, <2>1, EpochReadKeeps
<1>4. CASE pr.at = "read" /\ pr.q.route = "template"
  <2>1. Read(pr) = TemplateRead(pr)
    BY <1>4 DEF Read, RememberingRoutes, BlockRoutes
  <2> QED BY <1>4, <2>1, TemplateReadKeeps
<1>5. CASE pr.at = "read" /\ pr.q.route \notin JudgedRoutes
  <2>1. PICK ok, v, w : Read(pr) = Settled(pr, ok, v, w)
    <3>1. pr.q.route \notin BlockRoutes \cup {"epoch", "template"}
      BY <1>5 DEF JudgedRoutes
    <3>2. Read(pr) \in {Found(pr, GetLatestEpoch(store)), Settled(pr, TRUE, Height(store), 0),
                        Settled(pr, TRUE, GetLatestBlock(store), 0), DirectRead(pr)}
      BY <1>5, <3>1 DEF Read, RememberingRoutes, BlockRoutes
    <3> QED BY <3>2, Zenon DEF Found, DirectRead
  <2>2. Same(pr, Read(pr)) /\ Read(pr).at = "done"
    BY <1>0, <2>1, SettledIs
  <2>3. pr.q.route \notin JudgedRoutes \cup {"submit"}
    BY <1>0, <1>5
  <2> QED BY <2>2, <2>3, UnjudgedInv DEF Same
<1>6. CASE pr.at = "tip"
  <2>1. Read(pr) = PreimageTip(pr)
    BY <1>6 DEF Read
  <2> QED BY <1>6, <2>1, PreimageKeeps
<1>7. CASE pr.at = "epoch"
  <2>1. Read(pr) = PreimageEpoch(pr)
    BY <1>7 DEF Read
  <2> QED BY <1>7, <2>1, PreimageKeeps
<1>8. CASE pr.at = "exists"
  <2>1. Read(pr) = [pr EXCEPT !.at = "validate"]
    BY <1>8 DEF Read, TargetEpochExists
  <2>2. DOMAIN Read(pr) = PromiseFields /\ Read(pr).q = pr.q /\ Read(pr).born = pr.born
           /\ Read(pr).at = "validate"
    BY <1>0, <2>1 DEF PromiseFields
  <2>3. PromiseInv(store, Read(pr))
    BY <1>8, <2>2 DEF PromiseInv, PromiseStates
  <2> QED BY <2>2, <2>3
<1>9. CASE pr.at = "validate"
  <2>1. Read(pr) = ValidateEpochSolution(pr)
    BY <1>9 DEF Read
  <2> QED BY <1>9, <2>1, ValidateKeeps
<1>10. CASE pr.at = "save"
  <2>1. Read(pr) = Settled(pr, TRUE, pr.v, pr.w)
    BY <1>10 DEF Read
  <2> QED BY <1>10, <2>1, SaveKeeps
<1> QED BY <1>0, <1>1, <1>2, <1>3, <1>4, <1>5, <1>6, <1>7, <1>8, <1>9, <1>10
        DEF PromiseStates, JudgedRoutes

-----------------------------------------------------------------------------
(* What the routes remember of the promises *)

\* The promises that the routes remember are among those of D.
Refs(c, D) ==
    /\ \A e \in c.blocks \cup c.epochs : e.p \in D
    /\ c.latest.is = "promise" => c.latest.v \in D
    /\ c.gas.is = "promise" => c.gas.v \in D
    /\ DOMAIN c.template = {"p", "epoch", "fresh"} /\ (c.template.p # 0 => c.template.p \in D)
    /\ DOMAIN c.preimage = {"p", "fresh", "height"} /\ (c.preimage.p # 0 => c.preimage.p \in D)

\* A route returns the promises with at most a new one, answers from one that is
\* settled, and remembers only those that there are.
Asked(r) ==
    /\ r.ps = promises \/ \E q : r.ps = Append(promises, Promise(q))
    /\ r.from # 0 => r.from \in DOMAIN promises /\ promises[r.from].at = "done"
    /\ Refs(r.cache, DOMAIN r.ps)

PromisesFollow ==
    /\ StoreSound(store)
    /\ IsSeq(promises) /\ \A p \in DOMAIN promises : PromiseInv(store, promises[p])
    /\ Refs(cache, DOMAIN promises)
    /\ DOMAIN manager = {"next", "waiting"}
    /\ \A p \in manager.waiting : p \in DOMAIN promises /\ promises[p].q.route = "call"

LEMMA RefsGrow ==
  ASSUME NEW c, NEW D, NEW E, D \subseteq E, Refs(c, D)
  PROVE  Refs(c, E)
BY DEF Refs

LEMMA ReturnsIs ==
  ASSUME NEW c, Refs(c, DOMAIN promises), NEW a
  PROVE  Asked(Returns(c, a)) /\ Returns(c, a).on = 0
<1> DEFINE r == Returns(c, a)
<1>1. r.ps = promises /\ r.from = 0 /\ r.cache = c /\ r.on = 0
  BY DEF Returns
<1> HIDE DEF r
<1>2. Asked(r) /\ r.on = 0
  BY <1>1 DEF Asked
<1> QED BY <1>2 DEF r

LEMMA AwaitIs ==
  ASSUME NEW c, Refs(c, DOMAIN promises), NEW p \in DOMAIN promises
  PROVE  Asked(Await(c, p))
<1> DEFINE a == Returns(c, Thrown)
           b == Returns(c, AnswerOf(promises[p]))
           r == Await(c, p)
<1>1. /\ DOMAIN a = {"cache", "ps", "answer", "on", "from"}
      /\ DOMAIN b = {"cache", "ps", "answer", "on", "from"}
      /\ a.ps = promises /\ a.from = 0 /\ a.cache = c
      /\ b.ps = promises /\ b.from = 0 /\ b.cache = c
  BY DEF Returns
<1>2. r = IF Pending(p) THEN [a EXCEPT !.on = p] ELSE [b EXCEPT !.from = p]
  BY DEF Await, Awaits
<1> HIDE DEF a, b, r
<1>3. CASE Pending(p)
  <2>1. r.ps = promises /\ r.from = 0 /\ r.cache = c
    BY <1>1, <1>2, <1>3
  <2>2. Asked(r)
    BY <2>1 DEF Asked
  <2> QED BY <2>2 DEF r
<1>4. CASE ~Pending(p)
  <2>1. r.ps = promises /\ r.from = p /\ r.cache = c
    BY <1>1, <1>2, <1>4
  <2>2. Asked(r)
    BY <1>4, <2>1 DEF Asked, Pending
  <2> QED BY <2>2 DEF r
<1> QED BY <1>3, <1>4

LEMMA AwaitsNewIs ==
  ASSUME IsSeq(promises), NEW c, Refs(c, DOMAIN promises \cup {NewPromise}), NEW q
  PROVE  /\ Asked(AwaitsNew(c, q))
         /\ AwaitsNew(c, q).ps = Append(promises, Promise(q))
         /\ AwaitsNew(c, q).on = NewPromise
<1> DEFINE a == Returns(c, Thrown)
           b == Awaits(c, Len(promises) + 1)
           r == AwaitsNew(c, q)
<1>1. /\ DOMAIN a = {"cache", "ps", "answer", "on", "from"}
      /\ a.ps = promises /\ a.from = 0 /\ a.cache = c
  BY DEF Returns
<1>2. b = [a EXCEPT !.on = Len(promises) + 1]
  BY DEF Awaits
<1> HIDE DEF a
<1>3. /\ DOMAIN b = {"cache", "ps", "answer", "on", "from"}
      /\ b.ps = promises /\ b.from = 0 /\ b.cache = c /\ b.on = NewPromise
  BY <1>1, <1>2 DEF NewPromise
<1>4. r = [b EXCEPT !.ps = Append(@, Promise(q))]
  BY DEF AwaitsNew
<1> HIDE DEF b, r
<1>5. r.ps = Append(promises, Promise(q)) /\ r.from = 0 /\ r.cache = c /\ r.on = NewPromise
  BY <1>3, <1>4
<1>6. DOMAIN promises \cup {NewPromise} = DOMAIN r.ps
  <2>1. /\ Len(promises) \in Nat /\ DOMAIN promises = 1 .. Len(promises)
        /\ DOMAIN r.ps = 1 .. Len(promises) + 1
    BY <1>5, AppendedIs
  <2> QED BY <2>1 DEF NewPromise
<1>7. Asked(r)
  BY <1>5, <1>6 DEF Asked
<1> QED BY <1>5, <1>7 DEF r

\* What a cache holds after a promise has been put into it.
LEMMA CachedRefs ==
  ASSUME DOMAIN cache = CacheFields, NEW D, Refs(cache, D), NEW p \in D
  PROVE  /\ \A q : Refs([cache EXCEPT !.blocks = SetToCache(cache.blocks, q, p)], D)
         /\ \A q : Refs([cache EXCEPT !.epochs = SetToCache(cache.epochs, q, p)], D)
         /\ Refs([cache EXCEPT !.latest = Promised(p)], D)
         /\ Refs([cache EXCEPT !.gas = Promised(p)], D)
         /\ \A v : Refs([cache EXCEPT !.epoch = v], D)
         /\ Refs([cache EXCEPT !.template.p = p], D)
         /\ Refs([cache EXCEPT !.preimage.p = p], D)
<1>1. \A es, q : \A e \in SetToCache(es, q, p) : e \in es \/ e.p = p
  BY DEF SetToCache
<1>2. Promised(p).is = "promise" /\ Promised(p).v = p
  BY DEF Promised
<1>3. ASSUME NEW q PROVE Refs([cache EXCEPT !.blocks = SetToCache(cache.blocks, q, p)], D)
  <2> DEFINE v == SetToCache(cache.blocks, q, p)
  <2>1. \A e \in v : e \in cache.blocks \/ e.p = p
    BY <1>1
  <2> HIDE DEF v
  <2>2. Refs([cache EXCEPT !.blocks = v], D)
    BY <2>1 DEF Refs, CacheFields
  <2> QED BY <2>2 DEF v
<1>4. ASSUME NEW q PROVE Refs([cache EXCEPT !.epochs = SetToCache(cache.epochs, q, p)], D)
  <2> DEFINE v == SetToCache(cache.epochs, q, p)
  <2>1. \A e \in v : e \in cache.epochs \/ e.p = p
    BY <1>1
  <2> HIDE DEF v
  <2>2. Refs([cache EXCEPT !.epochs = v], D)
    BY <2>1 DEF Refs, CacheFields
  <2> QED BY <2>2 DEF v
<1>5. Refs([cache EXCEPT !.latest = Promised(p)], D) /\ Refs([cache EXCEPT !.gas = Promised(p)], D)
  BY <1>2 DEF Refs, CacheFields
<1>6. \A v : Refs([cache EXCEPT !.epoch = v], D)
  BY DEF Refs, CacheFields
<1>7. Refs([cache EXCEPT !.template.p = p], D)
  BY DEF Refs, CacheFields
<1>8. Refs([cache EXCEPT !.preimage.p = p], D)
  BY DEF Refs, CacheFields
<1> QED BY <1>3, <1>4, <1>5, <1>6, <1>7, <1>8

LEMMA CachedIs ==
  ASSUME NEW es, NEW q, NEW D, \A e \in es : e.p \in D
  PROVE  GetCachedData(es, q) # 0 => GetCachedData(es, q) \in D
BY DEF GetCachedData

\* Every route.
LEMMA GetDataIs ==
  ASSUME DOMAIN cache = CacheFields, IsSeq(promises), Refs(cache, DOMAIN promises), NEW q
  PROVE  Asked(GetData(q))
<1> DEFINE D == DOMAIN promises \cup {NewPromise}
<1>0. Refs(cache, D) /\ NewPromise \in D
  BY RefsGrow
<1>a. \A a : Asked(Returns(cache, a))
  BY ReturnsIs
<1>b. \A p \in DOMAIN promises : Asked(Await(cache, p))
  BY AwaitIs
<1>c. \A c, x : Refs(c, D) => Asked(AwaitsNew(c, x))
  BY AwaitsNewIs
<1>d. /\ \A x : Refs([cache EXCEPT !.blocks = SetToCache(cache.blocks, x, NewPromise)], D)
      /\ \A x : Refs([cache EXCEPT !.epochs = SetToCache(cache.epochs, x, NewPromise)], D)
      /\ Refs([cache EXCEPT !.latest = Promised(NewPromise)], D)
      /\ Refs([cache EXCEPT !.gas = Promised(NewPromise)], D)
      /\ \A v : Refs([cache EXCEPT !.epoch = v], D)
      /\ Refs([cache EXCEPT !.template.p = NewPromise], D)
      /\ Refs([cache EXCEPT !.preimage.p = NewPromise], D)
  BY <1>0, CachedRefs
<1>e. /\ GetCachedData(cache.blocks, q) # 0 => GetCachedData(cache.blocks, q) \in DOMAIN promises
      /\ GetCachedData(cache.epochs, q) # 0 => GetCachedData(cache.epochs, q) \in DOMAIN promises
  BY CachedIs DEF Refs
<1> HIDE DEF D
<1>1. Asked(GetCachedBlockData(q))
  BY <1>a, <1>b, <1>c, <1>d, <1>e DEF GetCachedBlockData
<1>2. Asked(GetCachedEpochData(q))
  BY <1>a, <1>b, <1>c, <1>d, <1>e DEF GetCachedEpochData
<1>3. Asked(LatestBlockHeader(q))
  <2>1. cache.latest.is = "promise" => cache.latest.v \in DOMAIN promises
    BY DEF Refs
  <2> QED BY <1>a, <1>b, <1>c, <1>d, <2>1 DEF LatestBlockHeader
<1>4. Asked(GasData(q))
  <2>1. cache.gas.is = "promise" => cache.gas.v \in DOMAIN promises
    BY DEF Refs
  <2> QED BY <1>a, <1>b, <1>c, <1>d, <2>1 DEF GasData
<1>5. Asked(LatestEpochData(q))
  BY <1>a, <1>c, <1>d DEF LatestEpochData
<1>6. Asked(TemplateData(q))
  <2>1. cache.template.p # 0 => cache.template.p \in DOMAIN promises
    BY DEF Refs
  <2> QED BY <1>b, <1>c, <1>d, <2>1 DEF TemplateData
<1>7. Asked(PreimageData(q))
  <2>1. cache.preimage.p # 0 => cache.preimage.p \in DOMAIN promises
    BY DEF Refs
  <2> QED BY <1>b, <1>c, <1>d, <2>1 DEF PreimageData
<1>8. Asked(SubmitData(q)) /\ Asked(DirectData(q)) /\ Asked(Returns(cache, Thrown))
  BY <1>0, <1>a, <1>c DEF SubmitData, DirectData
<1> QED BY <1>1, <1>2, <1>3, <1>4, <1>5, <1>6, <1>7, <1>8 DEF GetData

LEMMA AskIs ==
  ASSUME DOMAIN cache = CacheFields, IsSeq(promises), Refs(cache, DOMAIN promises), NEW q
  PROVE  /\ Asked(Ask(q))
         /\ q.route = "call" /\ Ask(q).on # 0 =>
               Ask(q).on = NewPromise /\ Ask(q).ps = Append(promises, Promise(q))
<1>1. CASE q.route = "call" /\ pending.call >= MaximumPendingCallRequests
  <2>1. Ask(q) = Returns(cache, Thrown)
    BY <1>1 DEF Ask
  <2> QED BY <2>1, ReturnsIs
<1>2. CASE q.route = "call" /\ ~(pending.call >= MaximumPendingCallRequests)
  <2>1. Ask(q) = AwaitsNew(cache, q)
    BY <1>2 DEF Ask
  <2>2. Refs(cache, DOMAIN promises \cup {NewPromise})
    BY RefsGrow
  <2>3. /\ Asked(AwaitsNew(cache, q))
        /\ AwaitsNew(cache, q).ps = Append(promises, Promise(q))
        /\ AwaitsNew(cache, q).on = NewPromise
    BY <2>2, AwaitsNewIs
  <2> QED BY <2>1, <2>3
<1>3. CASE q.route # "call"
  <2>1. Ask(q) = GetData(q)
    BY <1>3 DEF Ask
  <2> QED BY <1>3, <2>1, GetDataIs
<1> QED BY <1>1, <1>2, <1>3

-----------------------------------------------------------------------------
(* Steps of the API thread *)

\* A promise that is made has read nothing.
LEMMA NewPromiseInv ==
  ASSUME StoreSound(store), NEW q
  PROVE  PromiseInv(store, Promise(q)) /\ Promise(q).q = q
<1> DEFINE pr == Promise(q)
           at == CASE q.route = "preimage" -> "tip"
                   [] q.route = "submit" -> "exists"
                   [] q.route = "call" -> "simulation"
                   [] OTHER -> "read"
<1>1. DOMAIN pr = PromiseFields /\ pr.born = store.next /\ pr.q = q /\ pr.at = at
  BY DEF Promise, PromiseFields
<1>2. /\ q.route = "preimage" => at = "tip"
      /\ q.route = "submit" => at = "exists"
      /\ q.route = "call" => at = "simulation"
      /\ q.route \notin {"preimage", "submit", "call"} => at = "read"
  OBVIOUS
<1> HIDE DEF pr, at
<1>3. store.next \in Nat
  BY DEF StoreSound, BlocksSound
<1>4. PromiseInv(store, pr)
  BY <1>1, <1>2, <1>3 DEF PromiseInv, PromiseStates
<1> QED BY <1>1, <1>4 DEF pr

LEMMA CountingRefs ==
  ASSUME NEW c, DOMAIN c = CacheFields, NEW D, Refs(c, D), NEW n
  PROVE  Refs([c EXCEPT !.pendingRequests = n], D)
BY DEF Refs, CacheFields

LEMMA RememberRefs ==
  ASSUME NEW c, DOMAIN c = CacheFields, NEW D, Refs(c, D), NEW p, NEW pr
  PROVE  Refs(Remember(c, p, pr), D)
<1> DEFINE e == CalculateCurrentEpoch(pr.q.n)
<1>1. \A v : Refs([c EXCEPT !.template.epoch = v, !.template.fresh = TRUE], D)
  BY DEF Refs, CacheFields
<1>2. Refs([c EXCEPT !.preimage.fresh = TRUE], D)
  BY DEF Refs, CacheFields
<1>3. \A v : Refs([c EXCEPT !.epoch = v, !.epochFresh = TRUE], D) /\ Refs([c EXCEPT !.epoch = v], D)
  BY DEF Refs, CacheFields
<1> QED BY <1>1, <1>2, <1>3 DEF Remember

\* What is answered from memory was right when it was read, and is right or accounted for.
LEMMA FromMemory ==
  ASSUME PromisesFollow, DOMAIN cache = CacheFields, NEW q
  PROVE  FineFromMemory(Ask(q))
<1>1. Asked(Ask(q))
  BY AskIs DEF PromisesFollow
<1> QED BY <1>1 DEF Asked, FineFromMemory, PromisesFollow, PromiseInv

LEMMA RequestPromises ==
  ASSUME PromisesFollow, DOMAIN cache = CacheFields, UNCHANGED store,
         NEW world, NEW via, NEW who, NEW id, NEW q, NEW full,
         Request(world, via, who, id, q, full)
  PROVE  PromisesFollow'
<1> DEFINE r == Ask(q)
<1>0. /\ StoreSound(store) /\ IsSeq(promises) /\ Refs(cache, DOMAIN promises)
      /\ \A p \in DOMAIN promises : PromiseInv(store, promises[p])
      /\ DOMAIN manager = {"next", "waiting"}
      /\ \A p \in manager.waiting : p \in DOMAIN promises /\ promises[p].q.route = "call"
  BY DEF PromisesFollow
<1>1. /\ Asked(r)
      /\ q.route = "call" /\ r.on # 0 =>
            r.on = NewPromise /\ r.ps = Append(promises, Promise(q))
      /\ DOMAIN r.cache = CacheFields
  BY <1>0, AskIs, AskKeeps DEF Keeps
<1>2. /\ promises' = r.ps
      /\ \E n : cache' = [r.cache EXCEPT !.pendingRequests = n]
      /\ StartSimulation(q, r)
  BY Zenon DEF Request
<1>3. UNCHANGED manager \/ (q.route = "call" /\ r.on # 0 /\ DOMAIN manager' = {"next", "waiting"}
                             /\ manager'.waiting = manager.waiting \cup {r.on})
  <2> HIDE DEF r
  <2> QED BY <1>2 DEF StartSimulation, Resolve, simulationVars
<1> HIDE DEF r
<1>4. Refs(cache', DOMAIN promises')
  <2>1. Refs(r.cache, DOMAIN r.ps)
    BY <1>1 DEF Asked
  <2>2. \A n : Refs([r.cache EXCEPT !.pendingRequests = n], DOMAIN r.ps)
    BY <1>1, <2>1, CountingRefs
  <2>3. Refs(cache', DOMAIN r.ps)
    BY <1>2, <2>2
  <2> QED BY <1>2, <2>3
<1>5. CASE promises' = promises
  <2>1. UNCHANGED manager
    <3>1. ASSUME q.route = "call", r.on # 0 PROVE FALSE
      <4>1. r.ps = Append(promises, Promise(q))
        BY <1>1, <3>1
      <4>2. /\ Len(promises) \in Nat /\ DOMAIN promises = 1 .. Len(promises)
            /\ DOMAIN r.ps = 1 .. Len(promises) + 1
        BY <1>0, <4>1, AppendedIs, SMTT(30)
      <4>3. 1 .. Len(promises) + 1 = 1 .. Len(promises)
        BY <1>2, <1>5, <4>2
      <4>4. Len(promises) + 1 \in 1 .. Len(promises) + 1
        BY <4>2
      <4>5. Len(promises) + 1 \notin 1 .. Len(promises)
        BY <4>2
      <4> QED BY <4>3, <4>4, <4>5
    <3> QED BY <1>3, <3>1
  <2> QED BY <1>0, <1>4, <1>5, <2>1 DEF PromisesFollow
<1>6. ASSUME NEW x, promises' = Append(promises, Promise(x)) PROVE PromisesFollow'
  <2> DEFINE n == Len(promises)
  <2>1. /\ n \in Nat /\ DOMAIN promises = 1 .. n
        /\ DOMAIN promises' = 1 .. n + 1
        /\ \A i \in 1 .. n : promises'[i] = promises[i]
        /\ promises'[n + 1] = Promise(x)
    BY <1>0, <1>6, AppendedIs
  <2>2. IsSeq(promises')
    BY <1>0, <1>6, SentAppends
  <2>3. NewPromise = n + 1
    BY DEF NewPromise
  <2> HIDE DEF n
  <2>4. \A p \in DOMAIN promises' : PromiseInv(store', promises'[p])
    <3> TAKE p \in DOMAIN promises'
    <3>1. CASE p = n + 1
      BY <1>0, <2>1, <3>1, NewPromiseInv
    <3>2. CASE p # n + 1
      <4>1. p \in 1 .. n
        BY <2>1, <3>2
      <4> QED BY <1>0, <2>1, <4>1
    <3> QED BY <3>1, <3>2
  <2>5. \A p \in manager.waiting : p \in DOMAIN promises' /\ promises'[p].q.route = "call"
    <3> TAKE p \in manager.waiting
    <3>1. p \in 1 .. n /\ promises[p].q.route = "call"
      BY <1>0, <2>1
    <3>2. p \in 1 .. n + 1
      BY <2>1, <3>1
    <3> QED BY <2>1, <3>1, <3>2
  <2>6. q.route = "call" /\ r.on # 0 =>
           r.on \in DOMAIN promises' /\ promises'[r.on].q.route = "call"
    <3> SUFFICES ASSUME q.route = "call", r.on # 0
                 PROVE  r.on \in DOMAIN promises' /\ promises'[r.on].q.route = "call"
      OBVIOUS
    <3>1. r.on = n + 1 /\ promises' = Append(promises, Promise(q))
      BY <1>1, <1>2, <2>3
    <3>2. promises'[n + 1] = Promise(q)
      BY <1>0, <3>1, AppendedIs DEF n
    <3>3. Promise(q).q = q
      BY <1>0, NewPromiseInv
    <3>4. n + 1 \in 1 .. n + 1
      BY <2>1
    <3> QED BY <2>1, <3>1, <3>2, <3>3, <3>4
  <2>7. /\ DOMAIN manager' = {"next", "waiting"}
        /\ \A p \in manager'.waiting : p \in DOMAIN promises' /\ promises'[p].q.route = "call"
    BY <1>0, <1>3, <2>5, <2>6
  <2> QED BY <1>0, <1>4, <2>2, <2>4, <2>7 DEF PromisesFollow
<1> QED BY <1>1, <1>2, <1>5, <1>6 DEF Asked

\* A promise replaced by what it has become.
LEMMA ExceptIs ==
  ASSUME NEW s, IsSeq(s), NEW k, NEW v
  PROVE  IsSeq([s EXCEPT ![k] = v]) /\ DOMAIN [s EXCEPT ![k] = v] = DOMAIN s
<1> DEFINE t == [s EXCEPT ![k] = v]
<1>1. DOMAIN s = 1 .. Len(s) /\ Len(s) \in Nat
  BY AppendedIs
<1>2. t = [i \in 1 .. Len(s) |-> t[i]]
  BY <1>1
<1> HIDE DEF t
<1>3. t \in [1 .. Len(s) -> Range(t)]
  BY <1>2 DEF Range
<1>4. t \in Seq(Range(t))
  BY <1>1, <1>3, SeqDef
<1>5. IsSeq(t) /\ DOMAIN t = DOMAIN s
  BY <1>1, <1>3, <1>4, IsASequence
<1> QED BY <1>5 DEF t

LEMMA SettlesPromises ==
  ASSUME PromisesFollow, DOMAIN cache = CacheFields, NEW p, NEW pr, NEW full,
         Settles(p, pr, full), StoreSound(store'), Later(store, store'),
         PromiseInv(store, pr), pr.q = promises[p].q,
         DOMAIN manager' = {"next", "waiting"}, manager'.waiting \subseteq manager.waiting
  PROVE  PromisesFollow'
<1>1. promises' = [promises EXCEPT ![p] = pr]
  BY DEF Settles
<1>2. \/ cache' = Remember(cache, p, pr)
      \/ \E n : cache' = [Remember(cache, p, pr) EXCEPT !.pendingRequests = n]
  BY Zenon DEF Settles, AnswerAll
<1>3. IsSeq(promises') /\ DOMAIN promises' = DOMAIN promises
  BY <1>1, ExceptIs DEF PromisesFollow
<1>4. \A x \in DOMAIN promises' : PromiseInv(store', promises'[x])
  <2> TAKE x \in DOMAIN promises'
  <2>1. PromiseInv(store, promises'[x])
    BY <1>1, <1>3 DEF PromisesFollow
  <2> QED BY <2>1, PromiseStays
<1>5. \A x \in DOMAIN promises : promises'[x].q = promises[x].q
  BY <1>1
<1>6. Refs(cache', DOMAIN promises')
  <2> DEFINE c == Remember(cache, p, pr)
  <2>1. Refs(c, DOMAIN promises) /\ DOMAIN c = CacheFields
    BY RememberRefs, RememberKeeps DEF PromisesFollow, Keeps
  <2> HIDE DEF c
  <2>2. cache' = c \/ \E n : cache' = [c EXCEPT !.pendingRequests = n]
    BY <1>2 DEF c
  <2> QED BY <1>3, <2>1, <2>2, CountingRefs
<1> QED BY <1>3, <1>4, <1>5, <1>6 DEF PromisesFollow

\* What a promise becomes.
Becomes(p, pr) == PromiseInv(store, pr) /\ pr.q = promises[p].q

LEMMA ReadSettles ==
  ASSUME PromisesFollow, NEW p \in DOMAIN promises, ReadAnswers(p) \/ ReadFails(p)
  PROVE  \E pr, full : Settles(p, pr, full) /\ Becomes(p, pr)
<1>0. StoreSound(store) /\ PromiseInv(store, promises[p])
  BY DEF PromisesFollow
<1>1. CASE ReadAnswers(p)
  <2>1. promises[p].at \notin {"done", "simulation"}
    BY <1>1 DEF ReadAnswers, Pending
  <2>2. Becomes(p, Read(promises[p]))
    BY <1>0, <2>1, ReadKeeps DEF Becomes
  <2> QED BY <1>1, <2>2, Zenon DEF ReadAnswers
<1>2. CASE ReadFails(p)
  <2>1. Becomes(p, Failed(promises[p]))
    BY <1>0, FailedInv DEF Becomes
  <2> QED BY <1>2, <2>1, Zenon DEF ReadFails
<1> QED BY <1>1, <1>2

LEMMA SimulationSettles ==
  ASSUME PromisesFollow
  PROVE  /\ \A t : SimulationAnswers(t) /\ Awaited(t) =>
               \E p, pr, full : Settles(p, pr, full) /\ Becomes(p, pr)
         /\ \A p \in manager.waiting : SimulationTimesOut(p) =>
               \E pr, full : Settles(p, pr, full) /\ Becomes(p, pr)
<1>1. ASSUME NEW t, SimulationAnswers(t), Awaited(t)
      PROVE  \E p, pr, full : Settles(p, pr, full) /\ Becomes(p, pr)
  <2> DEFINE pr == promises[t.p]
             e == Settled(pr, t.ok, t.block, 0)
             d == [e EXCEPT !.fault = ~t.ok]
  <2>1. Settles(t.p, d, {})
    BY <1>1 DEF SimulationAnswers
  <2>2. PromiseInv(store, pr) /\ pr.q.route = "call" /\ DOMAIN pr = PromiseFields
    BY <1>1 DEF PromisesFollow, Awaited, PromiseInv
  <2>3. DOMAIN e = PromiseFields /\ e.q = pr.q /\ e.born = pr.born /\ e.at = "done"
    BY <2>2 DEF Settled, PromiseFields
  <2>c. pr.q.route \notin JudgedRoutes \cup {"submit"}
    BY <2>2 DEF JudgedRoutes, BlockRoutes
  <2> HIDE DEF e, pr
  <2>4. DOMAIN d = PromiseFields /\ d.q = pr.q /\ d.born = pr.born /\ d.at = "done"
    BY <2>3 DEF PromiseFields
  <2> HIDE DEF d
  <2>5. PromiseInv(store, d)
    BY <2>2, <2>c, <2>4, UnjudgedInv
  <2>6. Becomes(t.p, d)
    BY <2>4, <2>5 DEF Becomes, pr
  <2> QED BY <2>1, <2>6
<1>2. ASSUME NEW p \in manager.waiting, SimulationTimesOut(p)
      PROVE  \E pr, full : Settles(p, pr, full) /\ Becomes(p, pr)
  <2>1. Settles(p, Failed(promises[p]), {})
    BY <1>2 DEF SimulationTimesOut
  <2>2. PromiseInv(store, promises[p])
    BY DEF PromisesFollow
  <2>3. Becomes(p, Failed(promises[p]))
    BY <2>2, FailedInv DEF Becomes
  <2> QED BY <2>1, <2>3
<1> QED BY <1>1, <1>2

\* The routes forget promises, and are told of values.
LEMMA ForgetRefs ==
  ASSUME DOMAIN cache = CacheFields, NEW D, Refs(cache, D)
  PROVE  /\ \A e : Collect(e) => Refs(cache', D)
         /\ Expire => Refs(cache', D)
<1>1. \A e : Refs([cache EXCEPT !.blocks = @ \ {e}, !.epochs = @ \ {e}], D)
  BY DEF Refs, CacheFields
<1>2. /\ Refs([cache EXCEPT !.template.fresh = FALSE], D)
      /\ Refs([cache EXCEPT !.preimage.fresh = FALSE], D)
      /\ Refs([cache EXCEPT !.epochFresh = FALSE], D)
  BY DEF Refs, CacheFields
<1> QED BY <1>1, <1>2 DEF Collect, Expire

LEMMA NewsRefs ==
  ASSUME NEW c, DOMAIN c = CacheFields, NEW D, Refs(c, D), NEW height, NEW header, NEW n, NEW epoch
  PROVE  /\ Refs([OnBlockChange(c, height, header) EXCEPT !.lastFinalizedEpoch = n], D)
         /\ Refs(OnEpochFinalized(c, epoch), D)
<1> DEFINE block == header.block
           a == BlockRouteChange(c, block)
           b == GasChange(a, block)
           d == LatestBlockChange(b, header.number)
           e == TemplateChange(d, height)
           f == PreimageChange(e, height)
           g == [f EXCEPT !.wsHeight = height]
<1>0. \A v : Value(v).is # "promise"
  BY DEF Value
<1>1. DOMAIN a = CacheFields /\ Refs(a, D)
  BY DEF BlockRouteChange, Refs, CacheFields
<1>g. g = OnBlockChange(c, height, header)
  BY DEF OnBlockChange
<1> HIDE DEF a, block
<1>2. DOMAIN b = CacheFields /\ Refs(b, D)
  <2>1. \A v : LET x == [a EXCEPT !.gas = Value(v)] IN DOMAIN x = CacheFields /\ Refs(x, D)
    BY <1>0, <1>1 DEF Refs, CacheFields
  <2> QED BY <2>1 DEF GasChange
<1> HIDE DEF b
<1>3. DOMAIN d = CacheFields /\ Refs(d, D)
  <2>1. \A v : LET x == [b EXCEPT !.latest = Value(v)] IN DOMAIN x = CacheFields /\ Refs(x, D)
    BY <1>0, <1>2 DEF Refs, CacheFields
  <2> QED BY <2>1 DEF LatestBlockChange
<1> HIDE DEF d
<1>4. DOMAIN e = CacheFields /\ Refs(e, D)
  <2> DEFINE t == [p |-> 0, epoch |-> -1, fresh |-> FALSE]
  <2>0. DOMAIN t = {"p", "epoch", "fresh"} /\ t.p = 0
    OBVIOUS
  <2> HIDE DEF t
  <2>1. PICK v \in {t, d.template} : e = [d EXCEPT !.height = height, !.template = v]
    BY Zenon DEF TemplateChange, t
  <2> QED BY <1>3, <2>0, <2>1 DEF Refs, CacheFields
<1> HIDE DEF e
<1>5. DOMAIN f = CacheFields /\ Refs(f, D)
  <2> DEFINE t == [p |-> 0, fresh |-> FALSE, height |-> height]
  <2>0. DOMAIN t = {"p", "fresh", "height"} /\ t.p = 0
    OBVIOUS
  <2> HIDE DEF t
  <2>1. PICK v \in {t, e.preimage} : f = [e EXCEPT !.preimage = v]
    BY Zenon DEF PreimageChange, t
  <2> QED BY <1>4, <2>0, <2>1 DEF Refs, CacheFields
<1> HIDE DEF f
<1>6. DOMAIN g = CacheFields /\ Refs(g, D)
  BY <1>5 DEF Refs, CacheFields
<1> HIDE DEF g
<1>7. Refs([g EXCEPT !.lastFinalizedEpoch = n], D)
  BY <1>6 DEF Refs, CacheFields
<1>8. Refs(OnEpochFinalized(c, epoch), D)
  BY DEF OnEpochFinalized, Refs, CacheFields
<1> QED BY <1>7, <1>8, <1>g

LEMMA ServerPromises ==
  ASSUME PromisesFollow, DOMAIN cache = CacheFields, DOMAIN store = StoreFields, ServerNext
  PROVE  PromisesFollow'
<1>0. /\ StoreSound(store) /\ IsSeq(promises) /\ Refs(cache, DOMAIN promises)
      /\ \A p \in DOMAIN promises : PromiseInv(store, promises[p])
      /\ DOMAIN manager = {"next", "waiting"}
      /\ \A p \in manager.waiting : p \in DOMAIN promises /\ promises[p].q.route = "call"
  BY DEF PromisesFollow
<1>1. CASE UNCHANGED <<store, promises, manager>> /\ Refs(cache', DOMAIN promises)
  BY <1>0, <1>1 DEF PromisesFollow
<1>2. CASE UNCHANGED <<store, promises, manager, cache>>
  BY <1>0, <1>1, <1>2
<1>l. UNCHANGED store => StoreSound(store') /\ Later(store, store')
  BY <1>0, SameBlocks DEF StoreSound, BlocksSound
<1>3. ASSUME NEW x \in Clients, Connect(x) \/ Drain(x) \/ Disconnect(x) PROVE PromisesFollow'
  BY <1>2, <1>3 DEF Connect, Drain, Disconnect, routeVars, simulationVars
<1>4. ASSUME NEW x \in Clients, NEW m \in left.templates, OnMessageFrom(x, m) PROVE PromisesFollow'
  <2>1. UNCHANGED store
    BY <1>4 DEF OnMessageFrom
  <2>2. \/ UNCHANGED <<cache, promises, manager>>
        \/ \E world, via, who, id, q, full : Request(world, via, who, id, q, full)
    BY <1>4, Zenon DEF OnMessageFrom, RefusedMessage, RequestMessage, SubscriptionMessage,
                       simulationVars
  <2> QED BY <1>2, <2>1, <2>2, RequestPromises
<1>5. ASSUME NEW q, HttpRequest(q) PROVE PromisesFollow'
  BY <1>5, RequestPromises DEF HttpRequest
<1>6. ASSUME NEW qs, RpcRequest(qs) PROVE PromisesFollow'
  <2>1. UNCHANGED store
    BY <1>6 DEF RpcRequest
  <2>2. \/ UNCHANGED <<cache, promises, manager>>
        \/ \E world, via, who, id, q, full : Request(world, via, who, id, q, full)
    BY <1>6, Zenon DEF RpcRequest, simulationVars
  <2> QED BY <1>2, <2>1, <2>2, RequestPromises
<1>7. ASSUME NEW i, NextInBatch(i) PROVE PromisesFollow'
  BY <1>7, RequestPromises DEF NextInBatch
<1>8. ASSUME NEW i, HttpAborts(i) PROVE PromisesFollow'
  BY <1>2, <1>8 DEF HttpAborts, routeVars, simulationVars
<1>9. ASSUME NEW p \in DOMAIN promises, ReadAnswers(p) \/ ReadFails(p) PROVE PromisesFollow'
  <2>1. PICK pr, full : Settles(p, pr, full) /\ Becomes(p, pr)
    BY <1>9, ReadSettles
  <2>2. UNCHANGED manager
    BY <1>9 DEF ReadAnswers, ReadFails, simulationVars
  <2>3. StoreSound(store') /\ Later(store, store')
    <3>1. CASE ReadFails(p)
      BY <1>l, <3>1 DEF ReadFails
    <3>2. CASE ReadAnswers(p)
      <4>1. /\ store'.blocks = store.blocks /\ store'.epochs = store.epochs
            /\ store'.info = store.info /\ store'.step = store.step
            /\ store'.pending = store.pending /\ store'.next = store.next
            /\ store'.bodies = store.bodies /\ store'.tables = store.tables
        BY <3>2 DEF ReadAnswers, StoreFields
      <4>2. BlocksSound(store') /\ BodiesSound(store')
        BY <1>0, <4>1 DEF StoreSound, BlocksSound, BodiesSound, Height
      <4>3. Kept(store') = Kept(store)
        BY <4>1 DEF Kept
      <4> QED BY <1>0, <4>1, <4>2, <4>3, SameBlocks DEF StoreSound, BlocksSound
    <3> QED BY <1>9, <3>1, <3>2
  <2> QED BY <1>0, <2>1, <2>2, <2>3, SettlesPromises DEF Becomes
<1>10. ASSUME NEW e, Collect(e) PROVE PromisesFollow'
  BY <1>0, <1>1, <1>10, ForgetRefs DEF Collect, simulationVars
<1>11. CASE Expire
  BY <1>0, <1>1, <1>11, ForgetRefs DEF Expire, simulationVars
<1>12. CASE PollHeight
  BY <1>2, <1>12 DEF PollHeight, simulationVars
<1>13. ASSUME NEW k, NotifyBlockChange(k) PROVE PromisesFollow'
  <2>1. PICK height, header, n :
            cache' = [OnBlockChange(cache, height, header) EXCEPT !.lastFinalizedEpoch = n]
    BY <1>13, Zenon DEF NotifyBlockChange
  <2>2. Refs(cache', DOMAIN promises)
    BY <1>0, <2>1, NewsRefs
  <2> QED BY <1>1, <1>13, <2>2 DEF NotifyBlockChange, simulationVars
<1>21. ASSUME NEW k, ReadHeader(k) PROVE PromisesFollow'
  BY <1>2, <1>21 DEF ReadHeader, simulationVars
<1>14. ASSUME NEW k, NotifyEpochFinalized(k) PROVE PromisesFollow'
  <2>1. UNCHANGED cache \/ \E epoch : cache' = OnEpochFinalized(cache, epoch)
    BY <1>14, Zenon DEF NotifyEpochFinalized
  <2>2. \A epoch : Refs(OnEpochFinalized(cache, epoch), DOMAIN promises)
    BY <1>0, NewsRefs
  <2>3. Refs(cache', DOMAIN promises)
    BY <1>0, <2>1, <2>2
  <2> QED BY <1>1, <1>14, <2>3 DEF NotifyEpochFinalized, simulationVars
<1>15. ASSUME NEW k, NotifyFails(k) PROVE PromisesFollow'
  BY <1>2, <1>15 DEF NotifyFails, simulationVars
<1>16. CASE NotifyMempool
  BY <1>2, <1>16 DEF NotifyMempool, routeVars, simulationVars
<1>17. ASSUME NEW t, SimulationAnswers(t) PROVE PromisesFollow'
  <2>1. /\ UNCHANGED store
        /\ DOMAIN manager' = {"next", "waiting"} /\ manager'.waiting \subseteq manager.waiting
    BY <1>0, <1>17 DEF SimulationAnswers, OnMessage
  <2>2. CASE Awaited(t)
    <3>1. PICK p, pr, full : Settles(p, pr, full) /\ Becomes(p, pr)
      BY <1>17, <2>2, SimulationSettles
    <3> QED BY <1>l, <2>1, <3>1, SettlesPromises DEF Becomes
  <2>3. CASE ~Awaited(t)
    <3>1. UNCHANGED <<promises, cache>>
      BY <1>17, <2>3 DEF SimulationAnswers
    <3> QED BY <1>0, <2>1, <3>1 DEF PromisesFollow
  <2> QED BY <2>2, <2>3
<1>18. ASSUME NEW p \in manager.waiting, SimulationTimesOut(p) PROVE PromisesFollow'
  <2>1. /\ UNCHANGED store
        /\ DOMAIN manager' = {"next", "waiting"} /\ manager'.waiting \subseteq manager.waiting
    BY <1>0, <1>18 DEF SimulationTimesOut, TaskTimesOut
  <2>2. PICK pr, full : Settles(p, pr, full) /\ Becomes(p, pr)
    BY <1>18, SimulationSettles
  <2> QED BY <1>l, <2>1, <2>2, SettlesPromises DEF Becomes
<1>19. CASE Simulate
  <2>1. UNCHANGED manager
    BY <1>19, ZenonT(40) DEF Simulate, SimulationStep, TakeVM, HighLoad, FindContract,
                 FetchCachedBlockHeight, ExecuteCallInternal, WorkerExits, ForgetBlockHeight
  <2> QED BY <1>2, <1>19, <2>1, SMTT(30) DEF Simulate, routeVars
<1>20. CASE Index
  <2>1. IndexerStep /\ UNCHANGED <<promises, cache, manager>>
    BY <1>20 DEF Index, simulationVars
  <2>2. StoreSound(store') /\ Later(store, store')
    BY <1>0, <2>1, IndexLater, IndexBodies DEF StoreSound
  <2>3. \A p \in DOMAIN promises : PromiseInv(store', promises[p])
    BY <1>0, <2>2, PromiseStays
  <2> QED BY <1>0, <2>1, <2>2, <2>3 DEF PromisesFollow
<1> QED
  BY <1>3, <1>4, <1>5, <1>6, <1>7, <1>8, <1>9, <1>10, <1>11, <1>12, <1>13, <1>14, <1>15,
     <1>16, <1>17, <1>18, <1>19, <1>20, <1>21 DEF ServerNext

\* A thread that starts has asked nothing, of a storage whose blocks are in order.
LEMMA PromisesStart ==
  ASSUME Init
  PROVE  PromisesFollow
<1> DEFINE n == left.height
           s == StoreWith(n)
<1>1. /\ n \in Nat /\ store = s /\ cache = ColdCache(n) /\ promises = <<>>
      /\ manager = [next |-> 1, waiting |-> {}]
  BY ScenariosAssumption DEF Init, StartWorkers
<1> HIDE DEF n
<1>2. [i \in 1 .. n + 1 |-> i] \in Seq(Nat)
  BY <1>1, IsASeq
<1>3. /\ s.blocks = [i \in 1 .. n + 1 |-> i] /\ s.info = n + 1 /\ s.pending = n
      /\ s.next = n + 2 /\ s.step = "idle" /\ s.bodies = s.blocks
  BY DEF StoreWith
<1> HIDE DEF s
<1>4. Len(s.blocks) = n + 1 /\ DOMAIN s.blocks = 1 .. n + 1
  BY <1>1, <1>2, <1>3, LenProperties
<1>5. \A i \in 1 .. n + 1 : s.blocks[i] = i
  BY <1>3
<1>6. BlocksSound(s) /\ BodiesSound(s)
  BY <1>1, <1>2, <1>3, <1>4, <1>5 DEF BlocksSound, BodiesSound, Height
<1>7. IsSeq(<<>>) /\ DOMAIN <<>> = {}
  <2>1. <<>> \in Seq(Range(<<>>))
    OBVIOUS
  <2> QED BY <2>1, EmptySeq DEF IsSeq
<1>8. Refs(cache, {})
  BY <1>1 DEF ColdCache, Refs, None
<1> QED BY <1>1, <1>6, <1>7, <1>8 DEF PromisesFollow, StoreSound

-----------------------------------------------------------------------------
(* Answers to those who wait *)

\* The clients and the requests of a world.
WorldInv(w, told) ==
    /\ DOMAIN w = {"clients", "http", "pending"} /\ DOMAIN w.clients = Clients
    /\ HttpFine(w.http)
    /\ \A x \in Clients : ClientInv(w.clients[x], told)

LEMMA RespondKeeps ==
  ASSUME NEW c, NEW told, ClientInv(c, told), NEW id, NEW q, NEW a, NEW fine,
         fine = TRUE, NEW isFull \in BOOLEAN
  PROVE  ClientInv(RespondWebSocket(c, id, q, a, fine, isFull), told)
<1>1. \A code : ClientInv(HandleError(c, id, code, isFull), told)
  BY ErrorKeeps
<1>2. ClientInv(SendResponse(c, id, a, fine, isFull), told)
  BY ErrorKeeps
<1>3. \A e : ClientInv(e, told) => ClientInv(EndRequest(e), told)
  BY EndKeeps
<1> QED BY <1>1, <1>2, <1>3 DEF RespondWebSocket

\* An HTTP request with another state, or with an answer that is fine.
LEMMA HttpKeeps ==
  ASSUME NEW hs, HttpFine(hs), NEW i
  PROVE  /\ \A v : HttpFine([hs EXCEPT ![i] = [@ EXCEPT !.state = v]])
         /\ \A fine : fine = TRUE => HttpFine([hs EXCEPT ![i] = RespondHttp(hs[i], fine)])
<1>1. ASSUME NEW h, i \in DOMAIN hs => DOMAIN h = {"state", "todo", "size", "fine"} /\ h.fine = TRUE
      PROVE  HttpFine([hs EXCEPT ![i] = h])
  <2>1. IsSeq([hs EXCEPT ![i] = h]) /\ DOMAIN [hs EXCEPT ![i] = h] = DOMAIN hs
    BY ExceptIs DEF HttpFine
  <2>2. \A j \in DOMAIN hs : [hs EXCEPT ![i] = h][j] = IF j = i THEN h ELSE hs[j]
    OBVIOUS
  <2> QED BY <1>1, <2>1, <2>2 DEF HttpFine
<1>2. i \in DOMAIN hs => DOMAIN hs[i] = {"state", "todo", "size", "fine"} /\ hs[i].fine = TRUE
  BY DEF HttpFine
<1>3. ASSUME NEW v PROVE HttpFine([hs EXCEPT ![i] = [@ EXCEPT !.state = v]])
  <2> DEFINE h == [hs[i] EXCEPT !.state = v]
  <2>1. i \in DOMAIN hs => DOMAIN h = {"state", "todo", "size", "fine"} /\ h.fine = TRUE
    BY <1>2
  <2> HIDE DEF h
  <2>2. HttpFine([hs EXCEPT ![i] = h])
    BY <1>1, <2>1
  <2> QED BY <2>2 DEF h
<1>4. ASSUME NEW fine, fine = TRUE PROVE HttpFine([hs EXCEPT ![i] = RespondHttp(hs[i], fine)])
  <2> DEFINE h == RespondHttp(hs[i], fine)
  <2>1. i \in DOMAIN hs => DOMAIN h = {"state", "todo", "size", "fine"} /\ h.fine = TRUE
    BY <1>2, <1>4 DEF RespondHttp
  <2> HIDE DEF h
  <2>2. HttpFine([hs EXCEPT ![i] = h])
    BY <1>1, <2>1
  <2> QED BY <2>2 DEF h
<1> QED BY <1>3, <1>4

LEMMA ReplyKeeps ==
  ASSUME NEW w, NEW told, WorldInv(w, told), NEW call, NEW a, NEW fine, fine = TRUE, NEW full
  PROVE  WorldInv(Reply(w, call, a, fine, full), told)
<1>0. /\ DOMAIN w = {"clients", "http", "pending"} /\ DOMAIN w.clients = Clients
      /\ \A x \in Clients : ClientInv(w.clients[x], told)
      /\ HttpFine(w.http)
  BY DEF WorldInv
<1> DEFINE cs == [w.clients EXCEPT ![call.who] =
                     RespondWebSocket(@, call.id, call.q, a, fine, call.who \in full)]
           h == RespondHttp(w.http[call.id], fine)
           w1 == [w EXCEPT !.clients = cs]
           w2 == [w EXCEPT !.http[call.id] = h,
                           !.pending.rpc = IF h.todo = <<>> THEN @ - h.size ELSE @]
           v == IF call.via = "ws" THEN w1 ELSE w2
           n == IF call.q.route = "call" /\ call.on # 0 THEN v.pending.call - 1 ELSE v.pending.call
           p == [v.pending EXCEPT !.call = n]
<1>1. Reply(w, call, a, fine, full) = [v EXCEPT !.pending = p]
  BY ZenonT(40) DEF Reply
<1>2. DOMAIN cs = Clients /\ \A x \in Clients : ClientInv(cs[x], told)
  <2>1. call.who \in Clients =>
           ClientInv(RespondWebSocket(w.clients[call.who], call.id, call.q, a, fine,
                                      call.who \in full), told)
    <3>1. (call.who \in full) \in BOOLEAN
      OBVIOUS
    <3>2. \A c, b : ClientInv(c, told) /\ b \in BOOLEAN =>
             ClientInv(RespondWebSocket(c, call.id, call.q, a, fine, b), told)
      BY RespondKeeps
    <3> QED BY <1>0, <3>1, <3>2
  <2> QED BY <1>0, <2>1
<1>f. HttpFine([w.http EXCEPT ![call.id] = h])
  BY <1>0, HttpKeeps
<1> HIDE DEF cs, h, n
<1>3. DOMAIN w1 = {"clients", "http", "pending"} /\ w1.clients = cs /\ w1.http = w.http
  BY <1>0
<1>4. /\ DOMAIN w2 = {"clients", "http", "pending"} /\ w2.clients = w.clients
      /\ w2.http = [w.http EXCEPT ![call.id] = h]
  BY <1>0
<1> HIDE DEF w1, w2
<1>5. /\ DOMAIN v = {"clients", "http", "pending"} /\ DOMAIN v.clients = Clients
      /\ \A x \in Clients : ClientInv(v.clients[x], told)
      /\ HttpFine(v.http)
  BY <1>0, <1>2, <1>3, <1>4, <1>f
<1> HIDE DEF v, p
<1>6. WorldInv([v EXCEPT !.pending = p], told)
  BY <1>5 DEF WorldInv
<1> QED BY <1>1, <1>6

\* Whatever holds at 0 and goes on by one holds up to n.
LEMMA Reaches ==
  ASSUME NEW n \in Nat, NEW T, 0 \in T, \A k \in 1 .. n : k - 1 \in T => k \in T
  PROVE  n \in T
<1> DEFINE B == {k \in 0 .. n : k \notin T}
<1> SUFFICES ASSUME B # {} PROVE FALSE
  <2>1. n \in 0 .. n
    OBVIOUS
  <2> QED BY <2>1
<1>1. B \subseteq Nat
  OBVIOUS
<1>2. PICK k \in B : \A j \in B : ~(<<j, k>> \in OpToRel(<, Nat))
  <2> HIDE DEF B
  <2> QED BY <1>1, NatLessThanWellFounded, WFMin
<1>3. k \in 1 .. n
  OBVIOUS
<1>4. \A j \in B : ~(j < k)
  <2> HIDE DEF B
  <2> QED BY <1>1, <1>2 DEF OpToRel
<1> QED BY <1>3, <1>4

\* The replies one after the other, as a function of their number.
IsReplies(f, n, mine, a, fine, full) ==
    f = [i \in 0 .. n |-> IF i = 0 THEN World ELSE Reply(f[i - 1], mine[i], a, fine, full)]

LEMMA RepliesExist ==
  ASSUME NEW mine, NEW a, NEW fine, NEW full, NEW n \in Nat
  PROVE  \E f : IsReplies(f, n, mine, a, fine, full)
<1> DEFINE T == {k \in Nat : \E f : IsReplies(f, k, mine, a, fine, full)}
<1>1. 0 \in T
  <2> DEFINE f == [i \in 0 .. 0 |-> World]
  <2>1. IsReplies(f, 0, mine, a, fine, full)
    BY DEF IsReplies
  <2> QED BY <2>1
<1>2. ASSUME NEW k \in 1 .. n, k - 1 \in T PROVE k \in T
  <2>1. PICK f : IsReplies(f, k - 1, mine, a, fine, full)
    BY <1>2
  <2> DEFINE g == [i \in 0 .. k |-> IF i = k THEN Reply(f[k - 1], mine[k], a, fine, full) ELSE f[i]]
  <2>2. \A i \in 0 .. k - 1 :
           f[i] = IF i = 0 THEN World ELSE Reply(f[i - 1], mine[i], a, fine, full)
    BY <2>1 DEF IsReplies
  <2>3. \A i \in 0 .. k - 1 : g[i] = f[i]
    OBVIOUS
  <2>4. g[k] = Reply(f[k - 1], mine[k], a, fine, full)
    OBVIOUS
  <2>5. g = [i \in 0 .. k |-> g[i]]
    OBVIOUS
  <2> HIDE DEF g
  <2>6. \A i \in 0 .. k : g[i] = IF i = 0 THEN World ELSE Reply(g[i - 1], mine[i], a, fine, full)
    <3> TAKE i \in 0 .. k
    <3>1. CASE i = k
      BY <2>3, <2>4, <3>1
    <3>2. CASE i # k
      BY <2>2, <2>3, <3>2
    <3> QED BY <3>1, <3>2
  <2>7. IsReplies(g, k, mine, a, fine, full)
    BY <2>5, <2>6 DEF IsReplies
  <2> QED BY <2>7
<1> HIDE DEF T
<1>3. n \in T
  BY <1>1, <1>2, Reaches
<1> QED BY <1>3 DEF T

LEMMA RepliedIs ==
  ASSUME NEW mine, Len(mine) \in Nat, NEW a, NEW fine, NEW full
  PROVE  \E f : /\ f[0] = World
                /\ \A i \in 1 .. Len(mine) : f[i] = Reply(f[i - 1], mine[i], a, fine, full)
                /\ Replied(mine, a, fine, full) = f[Len(mine)]
<1>1. \E g : g = [i \in 0 .. Len(mine) |->
                    IF i = 0 THEN World ELSE Reply(g[i - 1], mine[i], a, fine, full)]
  <2>1. PICK g : IsReplies(g, Len(mine), mine, a, fine, full)
    BY RepliesExist
  <2> QED BY <2>1, Zenon DEF IsReplies
<1> DEFINE f == CHOOSE f : f = [i \in 0 .. Len(mine) |->
                    IF i = 0 THEN World ELSE Reply(f[i - 1], mine[i], a, fine, full)]
<1>2. f = [i \in 0 .. Len(mine) |->
                    IF i = 0 THEN World ELSE Reply(f[i - 1], mine[i], a, fine, full)]
  BY <1>1, Zenon
<1>3. Replied(mine, a, fine, full) = f[Len(mine)]
  BY Zenon DEF Replied
<1> HIDE DEF f
<1>4. f[0] = World /\ \A i \in 1 .. Len(mine) : f[i] = Reply(f[i - 1], mine[i], a, fine, full)
  BY <1>2
<1> QED BY <1>3, <1>4

\* The answer of a promise to everyone who awaits it.
LEMMA RepliedKeeps ==
  ASSUME NEW told, WorldInv(World, told), NEW mine, Len(mine) \in Nat, NEW a, NEW fine, NEW full,
         \A w, call : WorldInv(w, told) => WorldInv(Reply(w, call, a, fine, full), told)
  PROVE  WorldInv(Replied(mine, a, fine, full), told)
<1>1. PICK f : /\ f[0] = World
               /\ \A i \in 1 .. Len(mine) : f[i] = Reply(f[i - 1], mine[i], a, fine, full)
               /\ Replied(mine, a, fine, full) = f[Len(mine)]
  BY RepliedIs
<1> DEFINE T == {i \in Nat : WorldInv(f[i], told)}
<1>2. 0 \in T
  BY <1>1
<1>3. ASSUME NEW i \in 1 .. Len(mine), i - 1 \in T PROVE i \in T
  <2>1. WorldInv(Reply(f[i - 1], mine[i], a, fine, full), told)
    BY <1>3
  <2> QED BY <1>1, <2>1
<1> HIDE DEF T
<1>4. Len(mine) \in T
  BY <1>2, <1>3, Reaches
<1> QED BY <1>1, <1>4 DEF T

LEMMA AtIs ==
  ASSUME NEW s, IsSeq(s), NEW ks, ks \subseteq DOMAIN s
  PROVE  IsSeq(At(s, ks)) /\ Len(At(s, ks)) \in Nat
<1> DEFINE v == At(s, ks)
<1>1. DOMAIN s = 1 .. Len(s) /\ Len(s) \in Nat
  BY AppendedIs
<1>2. IsFiniteSet(1 .. Len(s))
  BY <1>1, FS_Interval
<1>3. IsFiniteSet(ks) /\ Cardinality(ks) \in Nat
  BY <1>1, <1>2, FS_Subset, FS_CardinalityType
<1>4. v = [n \in 1 .. Cardinality(ks) |-> v[n]]
  BY DEF At
<1> HIDE DEF v
<1>5. v \in [1 .. Cardinality(ks) -> Range(v)]
  BY <1>4 DEF Range
<1>6. v \in Seq(Range(v))
  BY <1>3, <1>5, SeqDef
<1>7. IsSeq(v) /\ Len(v) \in Nat
  BY <1>6, IsASequence
<1> QED BY <1>7 DEF v

\* The clients after a step, if they heard told announcements.
NowFollow(told) ==
    /\ IsSeq(calls') /\ DOMAIN clients' = Clients /\ HttpFine(http')
    /\ \A x \in Clients : ClientInv(clients'[x], told)

LEMMA WorldHas ==
  ASSUME ClientsFollow
  PROVE  /\ WorldInv(World, feed.told)
         /\ World.clients = clients /\ World.http = http /\ World.pending = pending
BY DEF ClientsFollow, WorldInv, World

LEMMA SettlesFollow ==
  ASSUME ClientsFollow, NEW p, NEW pr, NEW full, Settles(p, pr, full), PromiseInv(store, pr)
  PROVE  NowFollow(feed.told)
<1>1. CASE pr.at # "done"
  BY <1>1 DEF Settles, ClientsFollow, NowFollow
<1>2. CASE pr.at = "done"
  <2> DEFINE mine == {k \in DOMAIN calls : calls[k].on = p}
             fine == Fine(store, pr)
             w == Replied(At(calls, mine), AnswerOf(pr), fine, full)
  <2>f. fine = TRUE
    BY <1>2 DEF PromiseInv, Fine
  <2>1. AnswerAll(p, pr, Remember(cache, p, pr), full)
    BY <1>2 DEF Settles
  <2>2. clients' = w.clients /\ http' = w.http /\ calls' = At(calls, DOMAIN calls \ mine)
    BY <2>1 DEF AnswerAll, Become
  <2> HIDE DEF fine
  <2>3. IsSeq(calls') /\ Len(At(calls, mine)) \in Nat
    <3>1. IsSeq(calls) /\ mine \subseteq DOMAIN calls
      BY DEF ClientsFollow
    <3> HIDE DEF mine
    <3> QED BY <2>2, <3>1, AtIs
  <2>4. WorldInv(w, feed.told)
    <3> HIDE DEF mine
    <3>1. \A v, call : WorldInv(v, feed.told) =>
             WorldInv(Reply(v, call, AnswerOf(pr), fine, full), feed.told)
      BY <2>f, ReplyKeeps
    <3> QED BY <2>3, <3>1, WorldHas, RepliedKeeps
  <2> QED BY <2>2, <2>3, <2>4 DEF WorldInv, NowFollow
<1> QED BY <1>1, <1>2

LEMMA RequestFollows ==
  ASSUME ClientsFollow, NEW world, WorldInv(world, feed.told), NEW via, NEW who, NEW id, NEW q,
         NEW full, Request(world, via, who, id, q, full), FineFromMemory(Ask(q))
  PROVE  NowFollow(feed.told)
<1> DEFINE r == Ask(q)
           call == Call(via, who, id, q, r.on, Counted(q, r))
           n == world.pending.call + CountCall(q, r)
           w1 == [world EXCEPT !.pending = [@ EXCEPT !.call = n]]
           fine == FineFromMemory(r)
           w2 == Reply(w1, call, r.answer, fine, full)
<1>1. \/ Become(w1) /\ calls' = Append(calls, call)
      \/ Become(w2) /\ UNCHANGED calls
  <2>1. w1 = [world EXCEPT !.pending.call = @ + CountCall(q, r)]
    OBVIOUS
  <2> HIDE DEF w1
  <2> QED BY <2>1, Zenon DEF Request
<1>f. fine = TRUE
  BY DEF FineFromMemory
<1> HIDE DEF r, n, call, fine
<1>2. WorldInv(w1, feed.told)
  BY DEF WorldInv
<1> HIDE DEF w1
<1>3. WorldInv(w2, feed.told)
  BY <1>2, <1>f, ReplyKeeps
<1>4. IsSeq(calls) /\ IsSeq(Append(calls, call))
  BY SentAppends DEF ClientsFollow
<1> HIDE DEF w2
<1>5. /\ IsSeq(calls')
      /\ \/ clients' = w1.clients /\ http' = w1.http
         \/ clients' = w2.clients /\ http' = w2.http
  BY <1>1, <1>4 DEF Become
<1> QED BY <1>2, <1>3, <1>5 DEF WorldInv, NowFollow

\* A step of one client.
LEMMA OneClient ==
  ASSUME ClientsFollow, NEW x \in Clients, NEW d, ClientInv(d, feed.told),
         clients' = [clients EXCEPT ![x] = d], UNCHANGED <<calls, http>>
  PROVE  NowFollow(feed.told)
BY DEF ClientsFollow, NowFollow

LEMMA MessageFollows ==
  ASSUME ClientsFollow, NEW x \in Clients, NEW template, OnMessageFrom(x, template),
         \A q : FineFromMemory(Ask(q))
  PROVE  NowFollow(feed.told)
<1>0. ClientInv(clients[x], feed.told) /\ feed.told \in Nat
  BY DEF ClientsFollow
<1>1. PICK full, recent, m :
        CASE ~ReachesHandler(clients[x], m, recent) -> RefusedMessage(x, m, full)
          [] m.type = "request" -> RequestMessage(x, m, recent, full)
          [] OTHER -> SubscriptionMessage(x, m, recent, full)
  BY Zenon DEF OnMessageFrom
<1>2. CASE RefusedMessage(x, m, full)
  <2> DEFINE b == clients[x].broke \/ Violation(clients[x], m)
             n == IF RequiresHandshake(m) THEN m.id ELSE clients[x].asked
             e == [clients[x] EXCEPT !.broke = b]
             c == [e EXCEPT !.asked = n]
             d == Refused(c, m, cache.wsHeight, x \in full)
  <2>1. clients' = [clients EXCEPT ![x] = d] /\ UNCHANGED <<calls, http>>
    BY <1>2 DEF RefusedMessage
  <2> HIDE DEF b, n
  <2>2. ClientInv(c, feed.told)
    <3>1. ClientInv(e, feed.told)
      BY <1>0, CountsOnly
    <3> HIDE DEF e
    <3> QED BY <3>1, CountsOnly
  <2> HIDE DEF c
  <2>3. (x \in full) \in BOOLEAN
    OBVIOUS
  <2>4. \A y : y \in BOOLEAN => ClientInv(Refused(c, m, cache.wsHeight, y), feed.told)
    BY <2>2, RefusedKeeps
  <2>5. ClientInv(d, feed.told)
    BY <2>3, <2>4
  <2> HIDE DEF d
  <2> QED BY <2>1, <2>5, OneClient
<1> DEFINE c == Started([clients[x] EXCEPT !.asked = m.id], recent)
<1>c. ClientInv(c, feed.told) /\ c.state = clients[x].state
  BY <1>0, StartedKeeps
<1>3. CASE RequestMessage(x, m, recent, full)
  <2> HIDE DEF c
  <2> DEFINE w == [World EXCEPT !.clients[x] = c]
  <2>1. Request(w, "ws", x, m.id, m.q, full)
    BY <1>3, Zenon DEF RequestMessage, c
  <2>2. WorldInv(w, feed.told)
    BY <1>c, WorldHas DEF WorldInv
  <2> HIDE DEF w
  <2> QED BY <2>1, <2>2, RequestFollows
<1>4. CASE ReachesHandler(clients[x], m, recent) /\ SubscriptionMessage(x, m, recent, full)
  <2> HIDE DEF c
  <2>1. c.state = "ready"
    BY <1>c, <1>4 DEF ReachesHandler, IsHandshakeCompleted
  <2> DEFINE b == x \in full
             d == EndRequest(IF m.type = "subscribe" THEN HandleSubscribe(c, m, feed.told, b)
                             ELSE HandleUnsubscribe(c, m, b))
  <2>2. clients' = [clients EXCEPT ![x] = d] /\ UNCHANGED <<calls, http>>
    BY <1>4, Zenon DEF SubscriptionMessage, c
  <2>3. b \in BOOLEAN
    OBVIOUS
  <2> HIDE DEF b
  <2>4. ClientInv(HandleSubscribe(c, m, feed.told, b), feed.told)
           /\ ClientInv(HandleUnsubscribe(c, m, b), feed.told)
    BY <1>0, <1>c, <2>1, <2>3, SubscribeKeeps
  <2>5. ClientInv(d, feed.told)
    BY <2>4, EndKeeps
  <2> HIDE DEF d
  <2> QED BY <2>2, <2>5, OneClient
<1> QED BY <1>1, <1>2, <1>3, <1>4

\* An announcement of another kind, or to clients that did not subscribe.
LEMMA OtherNews ==
  ASSUME ClientsFollow, NEW type, type # "blocks", NEW v, NEW full,
         clients' = Notify(clients, type, v, full), UNCHANGED <<calls, http>>
  PROVE  NowFollow(feed.told)
<1>1. ASSUME NEW x \in Clients PROVE ClientInv(clients'[x], feed.told)
  <2>0. ClientInv(clients[x], feed.told)
    BY DEF ClientsFollow
  <2>1. Packet(type, 0, v, TRUE).kind # "blocks" /\ Packet(type, 0, v, TRUE).fine = TRUE
    BY DEF Packet
  <2>2. \A b : b \in BOOLEAN => ClientInv(Send(clients[x], Packet(type, 0, v, TRUE), b), feed.told)
    BY <2>0, <2>1, SaysOther
  <2>3. (x \in full) \in BOOLEAN
    OBVIOUS
  <2>4. clients'[x] \in {clients[x], Send(clients[x], Packet(type, 0, v, TRUE), x \in full)}
    BY DEF Notify
  <2> QED BY <2>0, <2>2, <2>3, <2>4
<1> QED BY <1>1 DEF ClientsFollow, NowFollow, Notify

\* A client with a subscription is told of the next block; the others expect none.
LEMMA BlockNews ==
  ASSUME ClientsFollow, NEW v, v.nth = feed.told + 1, NEW full,
         clients' = Notify(clients, "blocks", v, full), UNCHANGED <<calls, http>>
  PROVE  NowFollow(feed.told + 1)
<1> DEFINE told == feed.told
           m == Packet("blocks", 0, v, TRUE)
<1>0. told \in Nat
  BY DEF ClientsFollow
<1>m. m.kind = "blocks" /\ m.v = v /\ m.fine = TRUE
  BY DEF Packet
<1>v. v.nth = told + 1
  OBVIOUS
<1>1. ASSUME NEW x \in Clients PROVE ClientInv(clients'[x], told + 1)
  <2> DEFINE c == clients[x]
             b == x \in full
             d == Send(c, m, b)
  <2>0. ClientInv(c, told)
    BY DEF ClientsFollow
  <2>b. b \in BOOLEAN
    OBVIOUS
  <2>1. clients'[x] = IF IsHandshakeCompleted(c) /\ HasSubscription(c, "blocks") THEN d ELSE c
    BY DEF Notify
  <2> HIDE DEF told, m, b, c
  <2>2. CASE IsHandshakeCompleted(c) /\ HasSubscription(c, "blocks")
    <3>0. Sound(c) /\ IsActive(c)
      BY <2>0, <2>2 DEF ClientInv, IsActive, IsHandshakeCompleted
    <3>1. /\ Sound(d) /\ d.subs = c.subs
          /\ \E y : Sent(d) = Append(Sent(c), y) /\ y.kind = m.kind /\ y.v = m.v /\ y.fine = m.fine
      BY <2>b, <3>0, SendIs
    <3> HIDE DEF d
    <3>2. PICK y : Sent(d) = Append(Sent(c), y) /\ y.kind = m.kind /\ y.v = m.v /\ y.fine = m.fine
      BY <3>1
    <3>3. IsBlock(y) /\ y.v.nth = told + 1
      BY <1>m, <1>v, <3>2 DEF IsBlock
    <3>4. IsSeq(Sent(c))
      BY <3>0, SentAppends DEF Sound, Sent
    <3>5. /\ Ordered(Sent(c), told) => Ordered(Sent(d), told + 1)
          /\ \A since : Heard(Sent(c), since, told) => Heard(Sent(d), since, told + 1)
      BY <1>0, <3>2, <3>3, <3>4, NextBlock
    <3>f. AllFine(Sent(d))
      BY <1>m, <2>0, <3>2, <3>4, FineMessage DEF ClientInv
    <3>6. ClientInv(d, told + 1)
      BY <2>0, <3>1, <3>5, <3>f DEF ClientInv
    <3> QED BY <2>1, <2>2, <3>6
  <2>3. CASE ~(IsHandshakeCompleted(c) /\ HasSubscription(c, "blocks"))
    <3>1. \A s \in c.subs : s.type # "blocks"
      BY <2>0, <2>3 DEF ClientInv, Sound, IsHandshakeCompleted, HasSubscription
    <3>2. Ordered(Sent(c), told + 1)
      <4>1. \A n : n \in 1 .. told => n \in 1 .. told + 1
        BY <1>0
      <4> QED BY <2>0, <4>1 DEF ClientInv, Ordered
    <3>3. ClientInv(c, told + 1)
      BY <2>0, <3>1, <3>2 DEF ClientInv
    <3> QED BY <2>1, <2>3, <3>3
  <2> QED BY <2>2, <2>3
<1> QED BY <1>1 DEF ClientsFollow, NowFollow, Notify

LEMMA ConnectionFollows ==
  ASSUME ClientsFollow, NEW x \in Clients, OnConnection(x) \/ OnDrain(x) \/ OnClose(x), UNCHANGED <<calls, http>>
  PROVE  NowFollow(feed.told)
<1> DEFINE c == clients[x]
<1>0. ClientInv(c, feed.told) /\ DOMAIN c = ClientFields
  BY DEF ClientsFollow, ClientInv, Sound
<1>1. CASE OnConnection(x)
  <2>1. PICK s : clients' = [clients EXCEPT ![x].state = s] /\ c.state = "none"
    BY <1>1 DEF OnConnection
  <2> DEFINE d == [c EXCEPT !.state = s]
  <2>2. clients' = [clients EXCEPT ![x] = d]
    BY <2>1
  <2>3. /\ DOMAIN d = ClientFields /\ d.got = c.got /\ d.queue = c.queue
        /\ d.draining = c.draining /\ d.subs = c.subs
    BY <1>0 DEF ClientFields
  <2>4. c.subs = {}
    BY <1>0, <2>1 DEF ClientInv, Sound
  <2> HIDE DEF d, c
  <2>5. ClientInv(d, feed.told)
    BY <1>0, <2>3, <2>4, Alike
  <2> QED BY <2>2, <2>5, OneClient
<1>2. CASE OnDrain(x)
  <2>1. PICK taken \in 1 .. Len(c.queue) : clients' = [clients EXCEPT ![x] = FlushQueue(c, taken)]
    BY <1>2 DEF OnDrain
  <2> HIDE DEF c
  <2>2. ClientInv(FlushQueue(c, taken), feed.told)
    BY <1>0, FlushKeeps
  <2> QED BY <2>1, <2>2, OneClient
<1>3. CASE OnClose(x)
  <2>1. clients' = [clients EXCEPT ![x] = [MarkClosed(c) EXCEPT !.broke = TRUE]]
    BY <1>3 DEF OnClose
  <2>2. ClientInv(MarkClosed(c), feed.told)
    BY <1>0, CloseKeeps
  <2>3. ClientInv([MarkClosed(c) EXCEPT !.broke = TRUE], feed.told)
    BY <2>2, CountsOnly
  <2> QED BY <2>1, <2>3, OneClient
<1> QED BY <1>1, <1>2, <1>3

\* The step of the API thread that is no announcement of a block.
LEMMA ServingClients ==
  ASSUME NowFollow(feed.told), ClientsFollow, feed'.told = feed.told
  PROVE  ClientsFollow'
BY DEF NowFollow, ClientsFollow

-----------------------------------------------------------------------------
(* Epochs *)

LEMMA OthersStay ==
  ASSUME NEW S, NEW s \in Seq(S), NEW k \in DOMAIN s, NEW j \in DOMAIN s, j # k
  PROVE  \E i \in DOMAIN RemoveAt(s, k) : RemoveAt(s, k)[i] = s[j]
<1>1. j \in 1 .. Len(s) /\ k \in 1 .. Len(s) /\ Len(s) \in Nat /\ j # k
  BY LenProperties
<1> DEFINE i == IF j < k THEN j ELSE j - 1
<1>2. i \in 1 .. Len(s) - 1 /\ (IF i < k THEN s[i] ELSE s[i + 1]) = s[j]
  BY <1>1
<1>3. \A m \in 1 .. Len(s) - 1 : RemoveAt(s, k)[m] = IF m < k THEN s[m] ELSE s[m + 1]
  BY RemoveAtIs
<1>4. RemoveAt(s, k)[i] = s[j]
  BY <1>2, <1>3
<1>5. i \in DOMAIN RemoveAt(s, k)
  BY <1>2, RemoveAtIs, LenProperties
<1> QED BY <1>4, <1>5

LEMMA QuietEpochs ==
  ASSUME EpochsFollow, UNCHANGED feed, cache'.lastFinalizedEpoch = cache.lastFinalizedEpoch
  PROVE  EpochsFollow'
BY DEF EpochsFollow

LEMMA PollEpochs ==
  ASSUME TipTypes, EpochsFollow, Poll, UNCHANGED cache
  PROVE  EpochsFollow' /\ feed'.told = feed.told
<1> DEFINE new == Append(feed.running, Listener(store.info))
<1>1. /\ feed'.polled = store.info /\ feed'.running = new /\ feed'.skipped = feed.skipped
      /\ feed'.toldEpochs = feed.toldEpochs /\ feed'.told = feed.told
  BY DEF Poll, TipTypes, FeedFields
<1>2. Listener(store.info) \in Listeners /\ Listener(store.info).epoch = -1
         /\ Listener(store.info).height = store.info
  BY DEF Listener, Listeners, Headers, NoHeader, TipTypes
<1>3. /\ new[Len(feed.running) + 1] = Listener(store.info)
      /\ \A i \in 1 .. Len(feed.running) : new[i] = feed.running[i]
      /\ new \in Seq(Listeners) /\ Len(new) = Len(feed.running) + 1
  BY <1>2, AppendProperties DEF TipTypes
<1>a. DOMAIN feed.running = 1 .. Len(feed.running) /\ Len(feed.running) \in Nat
         /\ DOMAIN new = 1 .. Len(feed.running) + 1
  BY <1>3, LenProperties DEF TipTypes
<1> HIDE DEF new
<1>4. \A i \in DOMAIN feed.running : i \in DOMAIN new /\ new[i] = feed.running[i]
  BY <1>3, <1>a
<1>5. \E k \in DOMAIN new : new[k].epoch = -1 /\ new[k].height = store.info
  BY <1>2, <1>3, <1>a
<1>6. \A e \in 0 .. cache'.lastFinalizedEpoch :
          \/ e \in feed'.toldEpochs \cup feed'.skipped
          \/ \E k \in DOMAIN feed'.running : feed'.running[k].epoch = e
  BY <1>1, <1>4 DEF EpochsFollow
<1> QED BY <1>1, <1>5, <1>6 DEF EpochsFollow

LEMMA HeaderEpochs ==
  ASSUME TipTypes, EpochsFollow, NEW k \in DOMAIN feed.running, ReadHeader(k)
  PROVE  EpochsFollow' /\ feed'.told = feed.told
<1> DEFINE header == Header(store)
           next == [feed.running EXCEPT ![k].header = header]
<1>1. /\ feed'.running = next /\ feed'.polled = feed.polled /\ feed'.skipped = feed.skipped
      /\ feed'.failed = feed.failed /\ feed'.toldEpochs = feed.toldEpochs
      /\ feed'.told = feed.told /\ UNCHANGED cache
  BY DEF ReadHeader, HeaderRead, TipTypes, FeedFields
<1>2. \A j \in DOMAIN feed.running : feed.running[j] \in Listeners
  BY ElementOfSeq DEF TipTypes
<1> HIDE DEF header
<1>3. /\ DOMAIN next = DOMAIN feed.running
      /\ \A j \in DOMAIN feed.running : /\ next[j].height = feed.running[j].height
                                       /\ next[j].epoch = feed.running[j].epoch
  BY <1>2 DEF Listeners
<1> HIDE DEF next
<1> QED BY <1>1, <1>3 DEF EpochsFollow

\* A listener that ends after its epoch was announced or could not be read.
LEMMA EndEpochs ==
  ASSUME TipTypes, EpochsFollow, NEW k \in DOMAIN feed.running,
         NotifyEpochFinalized(k) \/ NotifyFails(k)
  PROVE  EpochsFollow' /\ feed'.told = feed.told
<1> DEFINE n == feed.running[k].epoch
<1>1. cache'.lastFinalizedEpoch = cache.lastFinalizedEpoch
  <2>1. \A e : OnEpochFinalized(cache, e).lastFinalizedEpoch = cache.lastFinalizedEpoch
    BY DEF OnEpochFinalized, TipTypes, CacheFields
  <2> QED BY <2>1 DEF NotifyEpochFinalized, NotifyFails
<1>2. \/ feed' = ListenerFails(k)
      \/ feed' = AfterEpochFinalized(k) /\ n # -1
  BY DEF NotifyEpochFinalized, NotifyFails
<1>3. /\ feed'.running = RemoveAt(feed.running, k) /\ feed'.polled = feed.polled
      /\ feed'.told = feed.told
      /\ feed.toldEpochs \subseteq feed'.toldEpochs /\ feed.skipped \subseteq feed'.skipped
      /\ n # -1 => n \in feed'.toldEpochs \cup feed'.skipped
      /\ feed.failed \/ n = -1 => feed'.failed
  <2>1. CASE feed' = ListenerFails(k)
    BY <2>1 DEF ListenerFails, TipTypes, FeedFields
  <2>2. CASE feed' = AfterEpochFinalized(k) /\ n # -1
    BY <2>2 DEF AfterEpochFinalized, TipTypes, FeedFields
  <2> QED BY <1>2, <2>1, <2>2
<1>4. \A j \in DOMAIN feed.running : j # k =>
        \E i \in DOMAIN feed'.running : feed'.running[i] = feed.running[j]
  BY <1>3, OthersStay DEF TipTypes
<1>5. \A e \in 0 .. cache'.lastFinalizedEpoch :
          \/ e \in feed'.toldEpochs \cup feed'.skipped
          \/ \E i \in DOMAIN feed'.running : feed'.running[i].epoch = e
  <2> SUFFICES ASSUME NEW e \in 0 .. cache.lastFinalizedEpoch,
                      e \notin feed'.toldEpochs \cup feed'.skipped
               PROVE  \E i \in DOMAIN feed'.running : feed'.running[i].epoch = e
    BY <1>1
  <2>1. PICK j \in DOMAIN feed.running : feed.running[j].epoch = e
    BY <1>3 DEF EpochsFollow
  <2>2. e # -1
    BY DEF EpochsFollow
  <2>3. j # k
    BY <1>3, <2>1, <2>2
  <2> QED BY <1>4, <2>1, <2>3
<1>6. \/ feed'.failed
      \/ \E i \in DOMAIN feed'.running :
            feed'.running[i].epoch = -1 /\ feed'.running[i].height = feed'.polled
      \/ cache'.lastFinalizedEpoch >= HighestPossibleFinalizedEpoch(feed'.polled)
  <2>1. CASE feed.failed \/ n = -1
    BY <2>1, <1>3
  <2>2. CASE n # -1 /\ \E j \in DOMAIN feed.running :
               feed.running[j].epoch = -1 /\ feed.running[j].height = feed.polled
    BY <2>2, <1>3, <1>4
  <2>3. CASE cache.lastFinalizedEpoch >= HighestPossibleFinalizedEpoch(feed.polled)
    BY <2>3, <1>1, <1>3
  <2> QED BY <2>1, <2>2, <2>3 DEF EpochsFollow
<1> QED BY <1>1, <1>3, <1>5, <1>6 DEF EpochsFollow

LEMMA OnBlockChangeLast ==
  ASSUME NEW c, DOMAIN c = CacheFields, NEW h, NEW header
  PROVE  /\ DOMAIN OnBlockChange(c, h, header) = CacheFields
         /\ OnBlockChange(c, h, header).lastFinalizedEpoch = c.lastFinalizedEpoch
<1> DEFINE L(d) == DOMAIN d = CacheFields /\ d.lastFinalizedEpoch = c.lastFinalizedEpoch
           c1 == BlockRouteChange(c, header.block)
           c2 == GasChange(c1, header.block)
           c3 == LatestBlockChange(c2, header.number)
           c4 == TemplateChange(c3, h)
           c5 == PreimageChange(c4, h)
<1>1. L(c1)
  BY DEF BlockRouteChange, CacheFields
<1> HIDE DEF c1
<1>2. L(c2)
  BY <1>1 DEF GasChange, CacheFields
<1> HIDE DEF c2
<1>3. L(c3)
  BY <1>2 DEF LatestBlockChange, CacheFields
<1> HIDE DEF c3
<1>4. L(c4)
  BY <1>3 DEF TemplateChange, CacheFields
<1> HIDE DEF c4
<1>5. L(c5)
  BY <1>4 DEF PreimageChange, CacheFields
<1> HIDE DEF c5
<1>6. L([c5 EXCEPT !.wsHeight = h])
  BY <1>5 DEF CacheFields
<1>7. OnBlockChange(c, h, header) = [c5 EXCEPT !.wsHeight = h]
  BY DEF OnBlockChange, c1, c2, c3, c4, c5
<1> QED BY <1>6, <1>7

LEMMA BlockEpochs ==
  ASSUME TipTypes, EpochsFollow, NEW k \in DOMAIN feed.running, NotifyBlockChange(k)
  PROVE  EpochsFollow' /\ feed'.told = feed.told + 1
<1> DEFINE h == feed.running[k].height
           n == NewlyFinalized(h)
           l == cache.lastFinalizedEpoch
           top == HighestPossibleFinalizedEpoch(h)
           next == IF n = -1 THEN RemoveAt(feed.running, k)
                   ELSE [feed.running EXCEPT ![k].epoch = n]
<1>0. feed.running[k] \in Listeners /\ h \in Int /\ feed.running[k].epoch = -1
  <2>1. feed.running[k] \in Listeners
    BY ElementOfSeq DEF TipTypes
  <2> QED BY <2>1 DEF Listeners, NotifyBlockChange
<1>1. /\ top \in Int /\ top >= -1 /\ l \in Int /\ l >= -1
      /\ n = IF top > l THEN top ELSE -1
  <2>1. (h - 1) \div BlocksPerEpoch \in Int
    BY <1>0, BlocksPerEpochAssumption
  <2> QED BY <2>1 DEF NewlyFinalized, HighestPossibleFinalizedEpoch, CalculateCurrentEpoch, EpochsFollow
<1>2. cache'.lastFinalizedEpoch = IF n = -1 THEN l ELSE n
  <2> DEFINE c == OnBlockChange(cache, h, feed.running[k].header)
  <2>1. DOMAIN c = CacheFields /\ c.lastFinalizedEpoch = l
    BY OnBlockChangeLast DEF TipTypes
  <2>2. cache' = [c EXCEPT !.lastFinalizedEpoch = IF n = -1 THEN @ ELSE n]
    BY DEF NotifyBlockChange
  <2> HIDE DEF c, n, l
  <2> QED BY <2>1, <2>2 DEF CacheFields
<1>3. feed' = AfterBlockChange(k)
  BY DEF NotifyBlockChange
<1>4. /\ feed'.running = next /\ feed'.polled = feed.polled /\ feed'.failed = feed.failed
      /\ feed'.told = feed.told + 1 /\ feed'.toldEpochs = feed.toldEpochs
      /\ feed'.skipped = feed.skipped \cup (l + 1) .. (n - 1)
  BY <1>3 DEF AfterBlockChange, TipTypes, FeedFields
<1> HIDE DEF n, top, l
<1>5. \A j \in DOMAIN feed.running : j # k =>
        \E i \in DOMAIN next : next[i] = feed.running[j]
  <2>1. CASE n = -1
    BY <2>1, OthersStay DEF TipTypes
  <2>2. CASE n # -1
    BY <2>2
  <2> QED BY <2>1, <2>2
<1>6. n # -1 => \E i \in DOMAIN next : next[i].epoch = n
  <2> SUFFICES ASSUME n # -1 PROVE next[k].epoch = n /\ k \in DOMAIN next
    OBVIOUS
  <2>1. [feed.running[k] EXCEPT !.epoch = n].epoch = n
    BY <1>0 DEF Listeners
  <2> QED BY <2>1
<1> HIDE DEF next, h
<1>7. \A e \in 0 .. cache'.lastFinalizedEpoch :
          \/ e \in feed'.toldEpochs \cup feed'.skipped
          \/ \E i \in DOMAIN feed'.running : feed'.running[i].epoch = e
  <2> SUFFICES ASSUME NEW e \in 0 .. cache'.lastFinalizedEpoch
               PROVE  \/ e \in feed'.toldEpochs \cup feed'.skipped
                      \/ \E i \in DOMAIN feed'.running : feed'.running[i].epoch = e
    OBVIOUS
  <2>1. CASE e <= l
    <3>1. e \in 0 .. l /\ e # -1
      BY <1>1, <1>2, <2>1
    <3>2. \/ e \in feed.toldEpochs \cup feed.skipped
          \/ \E j \in DOMAIN feed.running : feed.running[j].epoch = e
      BY <3>1 DEF EpochsFollow, l
    <3>3. \A j \in DOMAIN feed.running : feed.running[j].epoch = e => j # k
      BY <1>0, <3>1
    <3> QED BY <1>4, <1>5, <3>2, <3>3
  <2>2. CASE ~(e <= l)
    <3>1. n # -1 /\ (e = n \/ e \in (l + 1) .. (n - 1))
      BY <1>1, <1>2, <2>2
    <3> QED BY <1>4, <1>6, <3>1
  <2> QED BY <2>1, <2>2
<1>8. \/ feed'.failed
      \/ \E i \in DOMAIN feed'.running :
            feed'.running[i].epoch = -1 /\ feed'.running[i].height = feed'.polled
      \/ cache'.lastFinalizedEpoch >= HighestPossibleFinalizedEpoch(feed'.polled)
  <2>0. cache'.lastFinalizedEpoch >= l /\ cache'.lastFinalizedEpoch >= top
    BY <1>1, <1>2
  <2>1. CASE feed.failed
    BY <2>1, <1>4
  <2>2. ASSUME NEW j \in DOMAIN feed.running, feed.running[j].epoch = -1,
               feed.running[j].height = feed.polled
        PROVE  <1>8!2 \/ <1>8!3
    <3>1. CASE j = k
      BY <2>0, <2>2, <3>1, <1>4 DEF top, h
    <3>2. CASE j # k
      BY <2>2, <3>2, <1>4, <1>5
    <3> QED BY <3>1, <3>2
  <2>3. CASE l >= HighestPossibleFinalizedEpoch(feed.polled)
    <3>1. feed.polled \in Int
      BY DEF TipTypes
    <3>2. HighestPossibleFinalizedEpoch(feed.polled) \in Int
      <4>1. (feed.polled - 1) \div BlocksPerEpoch \in Int
        BY <3>1, BlocksPerEpochAssumption
      <4> QED BY <4>1 DEF HighestPossibleFinalizedEpoch, CalculateCurrentEpoch
    <3>3. cache'.lastFinalizedEpoch \in Int
      BY <1>1, <1>2
    <3>4. cache'.lastFinalizedEpoch >= HighestPossibleFinalizedEpoch(feed.polled)
      BY <1>1, <2>0, <2>3, <3>2, <3>3
    <3> QED BY <1>4, <3>4
  <2> QED BY <2>1, <2>2, <2>3 DEF EpochsFollow, l
<1>9. cache'.lastFinalizedEpoch \in Int /\ cache'.lastFinalizedEpoch >= -1
  BY <1>1, <1>2
<1> QED BY <1>4, <1>7, <1>8, <1>9 DEF EpochsFollow

-----------------------------------------------------------------------------
(* Every step of the API thread *)

LEMMA ExchangeKeeps ==
  ASSUME ClientsFollow
  PROVE  /\ \A qs, size : HttpFine(Append(http, Exchange(qs, size)))
         /\ HttpFine(Append(http, Refusal))
<1> DEFINE fields == {"state", "todo", "size", "fine"}
<1>1. ASSUME NEW h, DOMAIN h = fields, h.fine = TRUE PROVE HttpFine(Append(http, h))
  <2> DEFINE v == Append(http, h)
  <2>0. IsSeq(http) /\ \A i \in DOMAIN http : DOMAIN http[i] = fields /\ http[i].fine = TRUE
    BY DEF ClientsFollow, HttpFine
  <2>1. /\ Len(http) \in Nat /\ DOMAIN http = 1 .. Len(http) /\ DOMAIN v = 1 .. Len(http) + 1
        /\ \A i \in 1 .. Len(http) : v[i] = http[i]
        /\ v[Len(http) + 1] = h
    BY <2>0, AppendedIs
  <2>2. IsSeq(v)
    BY <2>0, SentAppends
  <2> HIDE DEF v
  <2>3. \A i \in DOMAIN v : (i \in DOMAIN http /\ v[i] = http[i]) \/ v[i] = h
    BY <2>1
  <2>4. HttpFine(v)
    BY <1>1, <2>0, <2>2, <2>3 DEF HttpFine
  <2> QED BY <2>4 DEF v
<1>2. \A qs, size : DOMAIN Exchange(qs, size) = fields /\ Exchange(qs, size).fine = TRUE
  BY DEF Exchange
<1>3. DOMAIN Refusal = fields /\ Refusal.fine = TRUE
  BY DEF Refusal
<1> HIDE DEF fields
<1> QED BY <1>1, <1>2, <1>3

LEMMA ServerTells ==
  ASSUME SubscribersInv, PromisesFollow, TipTypes', ServerNext
  PROVE  SubscribersInv'
<1>0. TipTypes /\ ClientsFollow /\ EpochsFollow /\ DOMAIN cache = CacheFields
  BY DEF SubscribersInv, TipTypes
<1>k. Keeps(cache, cache)
  BY <1>0 DEF Keeps
<1>q. NowFollow(feed.told) /\ UNCHANGED feed /\ Keeps(cache, cache') => SubscribersInv'
  BY <1>0, ServingClients, QuietEpochs DEF SubscribersInv, Keeps
<1>m. \A q : FineFromMemory(Ask(q))
  BY <1>0, FromMemory
<1>u. UNCHANGED <<clients, calls, http>> => NowFollow(feed.told)
  BY <1>0 DEF NowFollow, ClientsFollow
<1>w. WorldInv(World, feed.told) /\ World.clients = clients
  BY <1>0, WorldHas
<1>h. /\ \A v : HttpFine(v) => WorldInv([World EXCEPT !.http = v], feed.told)
      /\ \A v, n : HttpFine(v) => WorldInv([World EXCEPT !.http = v, !.pending.rpc = n], feed.told)
  BY <1>w DEF WorldInv
<1>x. /\ \A qs, size : HttpFine(Append(http, Exchange(qs, size)))
      /\ HttpFine(Append(http, Refusal))
  BY <1>0, ExchangeKeeps
<1>1. ASSUME NEW x \in Clients, Connect(x) \/ Drain(x) \/ Disconnect(x) PROVE SubscribersInv'
  <2>1. /\ OnConnection(x) \/ OnDrain(x) \/ OnClose(x)
        /\ UNCHANGED <<calls, http>> /\ UNCHANGED feed /\ UNCHANGED cache
    BY <1>1 DEF Connect, Drain, Disconnect, routeVars, serverVars
  <2>2. NowFollow(feed.told)
    BY <1>0, <2>1, ConnectionFollows
  <2> QED BY <1>k, <1>q, <2>1, <2>2
<1>2. ASSUME NEW x \in Clients, NEW m \in left.templates, OnMessageFrom(x, m) PROVE SubscribersInv'
  <2>1. NowFollow(feed.told) /\ UNCHANGED feed
    BY <1>0, <1>2, <1>m, MessageFollows DEF OnMessageFrom
  <2>2. \/ UNCHANGED cache
        \/ \E world, via, who, id, q, full : Request(world, via, who, id, q, full)
    BY <1>2, Zenon DEF OnMessageFrom, RefusedMessage, RequestMessage, SubscriptionMessage
  <2>3. Keeps(cache, cache')
    BY <1>0, <1>k, <2>2, RequestKeeps
  <2> QED BY <1>q, <2>1, <2>3, ZenonT(40)
<1>3. ASSUME NEW world, WorldInv(world, feed.told), UNCHANGED feed,
             NEW via, NEW who, NEW id, NEW q, NEW full, Request(world, via, who, id, q, full)
      PROVE  SubscribersInv'
  BY <1>0, <1>3, <1>m, <1>q, RequestFollows, RequestKeeps
<1>4. ASSUME NEW q, HttpRequest(q) PROVE SubscribersInv'
  <2>1. PICK v : HttpFine(v) /\ UNCHANGED feed
                   /\ Request([World EXCEPT !.http = v], "http", 0, Len(http) + 1, q, {})
    <3> DEFINE v == Append(http, Exchange(<<q>>, 0))
    <3>1. HttpFine(v)
      BY <1>x
    <3>2. [World EXCEPT !.http = Append(@, Exchange(<<q>>, 0))] = [World EXCEPT !.http = v]
      BY DEF World
    <3>3. Request([World EXCEPT !.http = v], "http", 0, Len(http) + 1, q, {}) /\ UNCHANGED feed
      <4> HIDE DEF v
      <4> QED BY <1>4, <3>2, Zenon DEF HttpRequest
    <3> QED BY <3>1, <3>3
  <2> QED BY <1>3, <1>h, <2>1
<1>5. ASSUME NEW qs, RpcRequest(qs) PROVE SubscribersInv'
  <2>1. CASE RpcRefused(qs)
    <3>1. http' = Append(http, Refusal) /\ UNCHANGED <<cache, clients, calls, feed>>
      BY <1>5, <2>1 DEF RpcRequest
    <3>2. NowFollow(feed.told)
      BY <1>0, <1>x, <3>1 DEF NowFollow, ClientsFollow
    <3> QED BY <1>k, <1>q, <3>1, <3>2
  <2>2. CASE ~RpcRefused(qs)
    <3> DEFINE e == Exchange(qs, RpcSize(qs))
               v == Append(http, e)
               n == pending.rpc + e.size
    <3>1. HttpFine(v)
      BY <1>x
    <3>2. [World EXCEPT !.http = Append(@, e), !.pending.rpc = @ + e.size]
             = [World EXCEPT !.http = v, !.pending.rpc = n]
      BY DEF World
    <3>3. Request([World EXCEPT !.http = Append(@, e), !.pending.rpc = @ + e.size],
                  "rpc", 0, Len(http) + 1, Head(qs), {}) /\ UNCHANGED feed
      BY <1>5, <2>2, Zenon DEF RpcRequest
    <3> HIDE DEF e, v, n
    <3>4. Request([World EXCEPT !.http = v, !.pending.rpc = n],
                  "rpc", 0, Len(http) + 1, Head(qs), {})
      BY <3>2, <3>3, Zenon
    <3> QED BY <1>3, <1>h, <3>1, <3>3, <3>4
  <2> QED BY <2>1, <2>2
<1>6. ASSUME NEW i, NextInBatch(i) PROVE SubscribersInv'
  BY <1>3, <1>6, <1>w DEF NextInBatch
<1>7. ASSUME NEW p, NEW pr, NEW full, Settles(p, pr, full), Becomes(p, pr), UNCHANGED feed
      PROVE  SubscribersInv'
  BY <1>0, <1>7, <1>q, SettlesFollow, SettlesKeeps DEF Becomes
<1>8. CASE UNCHANGED <<clients, calls, http, feed>> /\ Keeps(cache, cache')
  BY <1>8, <1>q, <1>u
<1>9. ASSUME NEW i, HttpAborts(i) PROVE SubscribersInv'
  <2>1. http' = [http EXCEPT ![i].state = "gone"] /\ UNCHANGED <<cache, clients, calls, feed>>
    BY <1>9 DEF HttpAborts, routeVars
  <2>2. \A v : HttpFine([http EXCEPT ![i] = [@ EXCEPT !.state = v]])
    BY <1>0, HttpKeeps DEF ClientsFollow
  <2>3. HttpFine(http')
    BY <2>1, <2>2
  <2>4. NowFollow(feed.told)
    BY <1>0, <2>1, <2>3 DEF NowFollow, ClientsFollow
  <2> QED BY <1>k, <1>q, <2>1, <2>4
<1>10. ASSUME NEW p \in DOMAIN promises, ReadAnswers(p) \/ ReadFails(p) PROVE SubscribersInv'
  <2>1. UNCHANGED feed
    BY <1>10 DEF ReadAnswers, ReadFails
  <2>2. \E pr, full : Settles(p, pr, full) /\ Becomes(p, pr)
    BY <1>10, ReadSettles
  <2> QED BY <1>7, <2>1, <2>2
<1>11. ASSUME NEW e, Collect(e) PROVE SubscribersInv'
  <2>1. Keeps(cache, cache')
    BY <1>0, <1>11 DEF Collect, Keeps, CacheFields
  <2> QED BY <1>8, <1>11, <2>1 DEF Collect
<1>12. CASE Expire
  <2>1. Keeps(cache, cache')
    BY <1>0, <1>12 DEF Expire, Keeps, CacheFields
  <2> QED BY <1>8, <1>12, <2>1 DEF Expire
<1>13. CASE PollHeight
  <2>1. EpochsFollow' /\ feed'.told = feed.told
    BY <1>0, <1>13, PollEpochs DEF PollHeight
  <2>2. NowFollow(feed.told)
    BY <1>13, <1>u DEF PollHeight, serverVars
  <2> QED BY <1>0, <2>1, <2>2, ServingClients DEF SubscribersInv
<1>21. ASSUME NEW k \in DOMAIN feed.running, ReadHeader(k) PROVE SubscribersInv'
  <2>1. EpochsFollow' /\ feed'.told = feed.told
    BY <1>0, <1>21, HeaderEpochs
  <2>2. NowFollow(feed.told)
    BY <1>21, <1>u DEF ReadHeader, serverVars
  <2> QED BY <1>0, <2>1, <2>2, ServingClients DEF SubscribersInv
<1>14. ASSUME NEW k \in DOMAIN feed.running, NotifyBlockChange(k) PROVE SubscribersInv'
  <2>1. EpochsFollow' /\ feed'.told = feed.told + 1
    BY <1>0, <1>14, BlockEpochs
  <2>2. NowFollow(feed.told + 1)
    <3>1. PICK v, full : clients' = Notify(clients, "blocks", v, full) /\ v.nth = feed.told + 1
      BY <1>14 DEF NotifyBlockChange
    <3>2. UNCHANGED <<calls, http>>
      BY <1>14 DEF NotifyBlockChange
    <3> QED BY <1>0, <3>1, <3>2, BlockNews
  <2>3. ClientsFollow'
    BY <1>0, <2>1, <2>2 DEF ClientsFollow, NowFollow
  <2> QED BY <2>1, <2>3 DEF SubscribersInv
<1>15. ASSUME NEW k \in DOMAIN feed.running, NotifyEpochFinalized(k) \/ NotifyFails(k)
       PROVE  SubscribersInv'
  <2>1. EpochsFollow' /\ feed'.told = feed.told
    BY <1>0, <1>15, EndEpochs
  <2>2. UNCHANGED <<calls, http>>
    BY <1>15 DEF NotifyEpochFinalized, NotifyFails
  <2>3. UNCHANGED clients \/ \E v, full : clients' = Notify(clients, "epochs", v, full)
    BY <1>15, Zenon DEF NotifyEpochFinalized, NotifyFails
  <2>4. NowFollow(feed.told)
    BY <1>0, <1>u, <2>2, <2>3, OtherNews
  <2> QED BY <1>0, <2>1, <2>4, ServingClients DEF SubscribersInv
<1>16. CASE NotifyMempool
  <2>1. UNCHANGED <<calls, http>> /\ UNCHANGED feed /\ UNCHANGED cache
           /\ \E v, full : clients' = Notify(clients, "mempool", v, full)
    BY <1>16, Zenon DEF NotifyMempool, routeVars
  <2>2. NowFollow(feed.told)
    BY <1>0, <2>1, OtherNews
  <2> QED BY <1>k, <1>q, <2>1, <2>2
<1>17. ASSUME NEW t, SimulationAnswers(t) PROVE SubscribersInv'
  <2>1. UNCHANGED feed /\ (Awaited(t) \/ UNCHANGED <<cache, clients, calls, http>>)
    BY <1>17, Zenon DEF SimulationAnswers
  <2>2. Awaited(t) => \E p, pr, full : Settles(p, pr, full) /\ Becomes(p, pr)
    BY <1>17, SimulationSettles
  <2> QED BY <1>7, <1>8, <1>k, <2>1, <2>2
<1>18. ASSUME NEW p \in manager.waiting, SimulationTimesOut(p) PROVE SubscribersInv'
  <2>1. UNCHANGED feed
    BY <1>18 DEF SimulationTimesOut
  <2>2. \E pr, full : Settles(p, pr, full) /\ Becomes(p, pr)
    BY <1>18, SimulationSettles
  <2> QED BY <1>7, <2>1, <2>2
<1>19. CASE Simulate
  BY <1>8, <1>19, <1>k DEF Simulate, routeVars
<1>20. CASE Index
  BY <1>8, <1>20, <1>k DEF Index
<1> QED
  BY <1>1, <1>2, <1>4, <1>5, <1>6, <1>9, <1>10, <1>11, <1>12, <1>13, <1>14, <1>15, <1>16,
     <1>17, <1>18, <1>19, <1>20, <1>21 DEF ServerNext

\* Nobody is connected, and the first listener has yet to look.
LEMMA SubscribersStart ==
  ASSUME Init
  PROVE  SubscribersInv
<1> DEFINE n == left.height
           f == FeedStarted(store)
<1>1. /\ TipTypes /\ feed = f /\ cache = ColdCache(n) /\ calls = <<>> /\ http = <<>>
      /\ clients = [x \in Clients |-> NoClient]
  BY TipStarts DEF Init, TipInv
<1> HIDE DEF n
<1>2. /\ f.polled = store.info /\ f.running = <<Listener(store.info)>> /\ f.told = 0
      /\ f.toldEpochs = {} /\ f.skipped = {}
  BY DEF FeedStarted
<1> HIDE DEF f
<1>3. cache.lastFinalizedEpoch = -1
  BY <1>1 DEF ColdCache
<1>4. /\ 1 \in DOMAIN feed.running /\ feed.running[1].epoch = -1
      /\ feed.running[1].height = feed.polled
  BY <1>1, <1>2 DEF Listener
<1>5. EpochsFollow
  BY <1>3, <1>4 DEF EpochsFollow
<1>6. IsSeq(<<>>) /\ <<>> \o <<>> = <<>> /\ DOMAIN <<>> = {}
  <2>1. <<>> \in Seq(Range(<<>>))
    OBVIOUS
  <2> QED BY <2>1, ConcatEmptySeq, IsASequence, EmptySeq DEF IsSeq
<1>7. Sound(NoClient) /\ Sent(NoClient) = <<>> /\ NoClient.subs = {}
  BY <1>6 DEF Sound, Sent, NoClient, ClientFields
<1>8. ClientInv(NoClient, 0)
  BY <1>6, <1>7 DEF ClientInv, Ordered, AllFine
<1>9. ClientsFollow
  BY <1>1, <1>2, <1>6, <1>8 DEF ClientsFollow, HttpFine
<1> QED BY <1>1, <1>5, <1>9 DEF SubscribersInv

\* Of what was sent to a client, the blocks after the one it subscribed at are the
\* announcements since, in order.
LEMMA ToldInOrder ==
  ASSUME NEW told \in Nat, NEW ms, Ordered(ms, told), NEW since, Heard(ms, since, told)
  PROVE  /\ {ms[i].v.nth : i \in Blocks(ms, since)} = since + 1 .. told
         /\ \A i, j \in Blocks(ms, since) : i < j => ms[i].v.nth < ms[j].v.nth
<1>0. since \in 0 .. told
  BY DEF Heard
<1>1. \A i \in Blocks(ms, since) :
        i \in DOMAIN ms /\ IsBlock(ms[i]) /\ ms[i].v.nth \in 1 .. told /\ ms[i].v.nth > since
  BY DEF Blocks, IsBlock, Ordered
<1>2. \A i \in Blocks(ms, since) : ms[i].v.nth \in since + 1 .. told
  BY <1>0, <1>1
<1>3. ASSUME NEW m \in since + 1 .. told
      PROVE  \E i \in Blocks(ms, since) : ms[i].v.nth = m
  <2>1. PICK i \in DOMAIN ms : IsBlock(ms[i]) /\ ms[i].v.nth = m
    BY <1>3 DEF Heard
  <2>2. ms[i].v.nth > since
    BY <1>0, <1>3, <2>1
  <2> QED BY <2>1, <2>2 DEF Blocks, IsBlock
<1>4. \A i, j \in Blocks(ms, since) : i < j => ms[i].v.nth < ms[j].v.nth
  BY <1>1 DEF Ordered
<1> QED BY <1>2, <1>3, <1>4

ServedInv == TipInv /\ SubscribersInv /\ PromisesFollow

LEMMA ServedFollows ==
  ASSUME ServedInv, [Next]_vars
  PROVE  ServedInv'
<1>0. TipInv /\ SubscribersInv /\ PromisesFollow
  BY DEF ServedInv
<1>1. CASE ServerNext
  <2>1. TipInv' /\ TipTypes'
    BY <1>0, <1>1, ServerKeepsTip DEF TipInv
  <2>2. PromisesFollow'
    BY <1>0, <1>1, ServerPromises DEF TipInv, TipTypes
  <2>3. SubscribersInv'
    BY <1>0, <1>1, <2>1, ServerTells
  <2> QED BY <2>1, <2>2, <2>3 DEF ServedInv
<1>2. CASE UNCHANGED <<store, feed, cache, promises, clients, manager, calls, http>>
  <2>1. Keeps(cache, cache')
    BY <1>0, <1>2 DEF TipInv, TipTypes, Keeps
  <2>2. TipInv' /\ TipTypes'
    BY <1>0, <1>2, <2>1, ServingFollows DEF TipInv
  <2>3. ClientsFollow'
    BY <1>0, <1>2 DEF SubscribersInv, ClientsFollow
  <2>4. EpochsFollow'
    BY <1>0, <1>2, QuietEpochs DEF SubscribersInv
  <2>5. PromisesFollow'
    BY <1>0, <1>2 DEF PromisesFollow
  <2> QED BY <2>2, <2>3, <2>4, <2>5 DEF ServedInv, SubscribersInv
<1> QED BY <1>1, <1>2 DEF Next, vars, apiVars, routeVars, simulationVars, serverVars

\* Every client hears of every block announced since it subscribed, once and in
\* order, however its socket drains and whatever else is sent to it, and every
\* finalized epoch is announced except those stepped over, for any clients,
\* requests, blocks, reverts and failures (WebSocketManager.onBlockChange,
\* WebSocketClient.send and onDrain, Server.listenToBlockChanges).
THEOREM SubscribersAreTold == Spec => []SubscribersTold
<1>1. Init => ServedInv
  BY TipStarts, SubscribersStart, PromisesStart DEF ServedInv
<1>2. ServedInv /\ [Next]_vars => ServedInv'
  BY ServedFollows
<1>3. ServedInv => SubscribersTold
  <2> SUFFICES ASSUME SubscribersInv PROVE SubscribersTold
    BY DEF ServedInv
  <2>1. ASSUME NEW x \in Clients, NEW s \in clients[x].subs, s.type = "blocks"
        PROVE  LET ms == clients[x].got \o clients[x].queue
                   new == Blocks(ms, s.told)
               IN /\ {ms[i].v.nth : i \in new} = s.told + 1 .. feed.told
                  /\ \A i, j \in new : i < j => ms[i].v.nth < ms[j].v.nth
    <3> DEFINE ms == Sent(clients[x])
    <3>1. feed.told \in Nat /\ Ordered(ms, feed.told) /\ Heard(ms, s.told, feed.told)
      BY <2>1 DEF SubscribersInv, ClientsFollow, ClientInv
    <3> HIDE DEF ms
    <3>2. /\ {ms[i].v.nth : i \in Blocks(ms, s.told)} = s.told + 1 .. feed.told
          /\ \A i, j \in Blocks(ms, s.told) : i < j => ms[i].v.nth < ms[j].v.nth
      BY <3>1, ToldInOrder
    <3> QED BY <3>2 DEF ms, Sent
  <2>2. ASSUME Announced, ~feed.failed,
               NEW e \in 0 .. HighestPossibleFinalizedEpoch(store.info)
        PROVE  e \in feed.toldEpochs \cup feed.skipped
    <3> DEFINE top == HighestPossibleFinalizedEpoch(store.info)
    <3>1. feed.running = <<>> /\ feed.polled = store.info /\ DOMAIN feed.running = {}
      BY <2>2 DEF Announced
    <3>2. top \in Int
      <4>1. (store.info - 1) \div BlocksPerEpoch \in Int
        BY BlocksPerEpochAssumption DEF SubscribersInv, TipTypes
      <4> QED BY <4>1 DEF HighestPossibleFinalizedEpoch, CalculateCurrentEpoch
    <3>3. cache.lastFinalizedEpoch \in Int /\ cache.lastFinalizedEpoch >= top
      BY <2>2, <3>1 DEF SubscribersInv, EpochsFollow
    <3> HIDE DEF top
    <3>4. e \in 0 .. top
      BY <2>2 DEF top
    <3>5. e \in 0 .. cache.lastFinalizedEpoch
      BY <3>2, <3>3, <3>4
    <3> QED BY <3>1, <3>5 DEF SubscribersInv, EpochsFollow
  <2> QED BY <2>1, <2>2 DEF SubscribersTold
<1> QED BY <1>1, <1>2, <1>3, PTL DEF Spec

\* Every answer that goes out was right when it was given, or is accounted for by
\* what was written after its query, by a query that failed, or by a height that was
\* old: for any requests in any order, awaited or from memory, on any chain and any
\* length of an epoch (BlockRoute.getCachedBlockData, EpochRoute.getCachedEpochData,
\* GetEpochTemplateRoute.getData, SubmitEpochRoute.processEpochSubmission).
THEOREM AnswersAreExplained == Spec => []AnswersExplained
<1>1. Init => ServedInv
  BY TipStarts, SubscribersStart, PromisesStart DEF ServedInv
<1>2. ServedInv /\ [Next]_vars => ServedInv'
  BY ServedFollows
<1>3. ServedInv => AnswersExplained
  <2> SUFFICES ASSUME ClientsFollow PROVE AnswersExplained
    BY DEF ServedInv, SubscribersInv
  <2>1. ASSUME NEW x \in Clients, NEW i \in DOMAIN clients[x].got PROVE clients[x].got[i].fine
    <3> DEFINE g == clients[x].got
               q == clients[x].queue
    <3>1. IsSeq(g) /\ IsSeq(q) /\ AllFine(g \o q)
      BY DEF ClientsFollow, ClientInv, Sound, Sent
    <3> HIDE DEF g, q
    <3>2. DOMAIN g \subseteq DOMAIN (g \o q) /\ \A k \in DOMAIN g : (g \o q)[k] = g[k]
      BY <3>1, FirstOf
    <3>3. i \in DOMAIN g
      BY DEF g
    <3>4. (g \o q)[i].fine = TRUE /\ (g \o q)[i] = g[i]
      BY <3>1, <3>2, <3>3 DEF AllFine
    <3>5. g[i].fine
      BY <3>4
    <3> QED BY <3>5 DEF g
  <2>2. ASSUME NEW i \in DOMAIN http PROVE http[i].fine
    BY DEF ClientsFollow, HttpFine
  <2> QED BY <2>1, <2>2 DEF AnswersExplained
<1> QED BY <1>1, <1>2, <1>3, PTL DEF Spec

=============================================================================
