--------------------------- MODULE RevertDataProofs ---------------------------
(***************************************************************************)
(* Theorems about RevertData for every batch size, set of tables, height   *)
(* and number of failures.  The inductive invariant says how far the       *)
(* deletes that have answered have come: PurgeComplete and Lockstep hold   *)
(* at the end of a pass because of what Progress says inside it.           *)
(***************************************************************************)
EXTENDS RevertData, WellFoundedInduction, TLAPS

\* The rows of table t all lie below h.
Below(t, h) == \A r \in rows[t] : r < h

\* What the answered deletes of the current pass have achieved.
OrphansProgress ==
    pc = "orphans" =>
        /\ edge >= blockId
        /\ ~rejected => \A t \in purged \ waiting : Below(t, edge)

BatchProgress ==
    pc = "batch" =>
        /\ edge > blockId
        /\ \A t \in purged : Below(t, edge)
        /\ ~rejected => \A t \in purged \ waiting : Below(t, BatchFrom(edge, blockId))

GenesisProgress ==
    pc = "genesis" => blockId = 0 /\ \A t \in purged : Below(t, blockId)

HeadersProgress ==
    pc = "headers" =>
        /\ edge >= blockId
        /\ purged = {"headers", Witnesses}
        /\ \A r \in rows["headers"] : (r < blockId \/ r >= edge) /\ r <= upperBound
        /\ ~rejected /\ "headers" \notin waiting =>
             \A r \in rows["headers"] : r < blockId \/ r >= edge + BatchSize

\* The inductive invariant.
Inv ==
    /\ TypeOK
    /\ PurgeComplete
    /\ completed # "none" => pc = "idle"
    /\ pc \in {"idle", "genesis"} => waiting = {}
    /\ OrphansProgress /\ BatchProgress /\ GenesisProgress /\ HeadersProgress

\* A set of heights that is not empty has a greatest member.
LEMMA GreatestHeight ==
  ASSUME NEW S \in SUBSET Heights, S # {}
  PROVE  \E h \in S : \A g \in S : g <= h
<1> DEFINE T == {n \in Nat : \E h \in S : n = MaxHeight - h}
<1>1. T \subseteq Nat /\ T # {}
  <2>1. PICK g \in S : g \in Heights
    OBVIOUS
  <2>2. MaxHeight - g \in T
    BY <2>1, RevertDataAssumption DEF Heights
  <2> QED BY <2>2
<1>2. \E x \in T : \A y \in T : ~(<<y, x>> \in OpToRel(<, Nat))
  <2> HIDE DEF T
  <2> QED BY <1>1, NatLessThanWellFounded, WFMin
<1>3. PICK x \in T : \A y \in T : ~(<<y, x>> \in OpToRel(<, Nat))
  BY <1>2
<1>4. \A y \in T : ~(y < x)
  BY <1>1, <1>3 DEF OpToRel
<1>5. PICK h \in S : x = MaxHeight - h
  OBVIOUS
<1>6. ASSUME NEW g \in S PROVE g <= h
  <2>1. MaxHeight - g \in T
    BY RevertDataAssumption DEF Heights
  <2>2. ~(MaxHeight - g < MaxHeight - h)
    BY <1>4, <1>5, <2>1
  <2> QED BY <2>2, RevertDataAssumption DEF Heights
<1> QED BY <1>6

\* getLatestBlock returns the height of the highest header.
LEMMA LatestBlockIsGreatest ==
  ASSUME TypeOK, NEW b \in Heights
  PROVE  /\ LatestBlock(b) \in Heights
         /\ \A h \in rows["headers"] : h <= LatestBlock(b)
<1>1. rows["headers"] \in SUBSET Heights
  BY RevertDataAssumption DEF TypeOK
<1>2. CASE rows["headers"] = {}
  BY <1>2 DEF LatestBlock
<1>3. CASE rows["headers"] # {}
  <2>1. \E h \in rows["headers"] : \A g \in rows["headers"] : g <= h
    BY <1>1, <1>3, GreatestHeight
  <2> QED BY <1>1, <1>3, <2>1 DEF LatestBlock
<1> QED BY <1>2, <1>3

\* The batches start at or above blockId.
LEMMA UpperBoundType ==
  ASSUME TypeOK, NEW b \in Heights
  PROVE  UpperBound(b) \in Heights /\ UpperBound(b) >= b
  BY LatestBlockIsGreatest, RevertDataAssumption
  DEF TypeOK, UpperBound, Greatest, Heights

\* A batch is not empty and does not reach below blockId.
LEMMA BatchFromBetween ==
  ASSUME NEW b \in Nat, NEW e \in Nat, e > b
  PROVE  /\ BatchFrom(e, b) \in Nat
         /\ b <= BatchFrom(e, b) /\ BatchFrom(e, b) < e
         /\ e - BatchSize <= BatchFrom(e, b)
  BY RevertDataAssumption DEF BatchFrom

\* Every table may hold what Init gives it.
LEMMA InitInv == Init => Inv
<1> SUFFICES ASSUME Init PROVE Inv
  OBVIOUS
<1>1. ASSUME NEW n \in 0 .. MaxHeight + 1 PROVE 0 .. n - 1 \in SUBSET Heights
  BY RevertDataAssumption DEF Heights
<1>2. {0 .. n - 1 : n \in 0 .. MaxHeight + 1} \subseteq SUBSET Heights
  BY <1>1
<1>3. rows \in [Tables -> SUBSET Heights]
  BY <1>2 DEF Init
<1>4. /\ inProgressBlock \in Heights /\ blockId \in Heights /\ upperBound \in Heights
      /\ edge \in Nat /\ failures \in Nat
  BY RevertDataAssumption DEF Init, Heights
<1>5. rejected \in BOOLEAN
  BY Zenon DEF Init
<1>6. TypeOK
  BY <1>3, <1>4, <1>5 DEF Init, TypeOK
<1> QED BY <1>6
  DEF Init, Inv, PurgeComplete, OrphansProgress, BatchProgress, GenesisProgress, HeadersProgress

\* The next batch, when there is one, starts from what the pass has reached.
LEMMA BeginInv ==
  ASSUME Inv, Begin
  PROVE  Inv'
<1>1. ASSUME NEW b \in Heights, NEW purgeUtxos \in BOOLEAN,
             RevertDataUntilBlock(b, purgeUtxos)
      PROVE  Inv'
  <2>1. UpperBound(b) \in Heights /\ UpperBound(b) >= b
    BY UpperBoundType DEF Inv
  <2>2. purged' \subseteq Tables /\ waiting' = purged'
    BY <1>1 DEF RevertDataUntilBlock
  <2>3. TypeOK'
    <3>1. rejected' \in BOOLEAN
      BY <1>1, Zenon DEF RevertDataUntilBlock
    <3>2. edge' \in Nat /\ upperBound' \in Heights
      BY <1>1, <2>1 DEF RevertDataUntilBlock, Heights
    <3> QED BY <1>1, <2>2, <3>1, <3>2 DEF Inv, TypeOK, RevertDataUntilBlock
  <2> QED BY <1>1, <2>1, <2>2, <2>3
    DEF Inv, PurgeComplete, OrphansProgress, BatchProgress, GenesisProgress, HeadersProgress,
        RevertDataUntilBlock
<1>2. ASSUME NEW b \in Heights, RevertBlockHeadersOnly(b)
      PROVE  Inv'
  <2>1. /\ LatestBlock(b) \in Heights
        /\ \A h \in rows["headers"] : h <= LatestBlock(b)
    BY LatestBlockIsGreatest DEF Inv
  <2>2. rows["headers"] \subseteq Heights
    BY RevertDataAssumption DEF Inv, TypeOK
  <2>3. TypeOK'
    <3>1. rejected' \in BOOLEAN
      BY <1>2, Zenon DEF RevertBlockHeadersOnly
    <3>2. edge' \in Nat /\ upperBound' \in Heights
      BY <1>2, <2>1 DEF RevertBlockHeadersOnly, Heights
    <3>3. waiting' \subseteq purged' /\ purged' \subseteq Tables
      BY <1>2, RevertDataAssumption DEF RevertBlockHeadersOnly
    <3> QED BY <1>2, <3>1, <3>2, <3>3 DEF Inv, TypeOK, RevertBlockHeadersOnly
  <2>4. CASE b <= LatestBlock(b)
    <3>1. /\ pc' = "headers" /\ completed' = "none" /\ rows' = rows
          /\ waiting' = {"headers", Witnesses} /\ purged' = {"headers", Witnesses}
          /\ edge' = b /\ blockId' = b /\ upperBound' = LatestBlock(b)
      BY <1>2, <2>4 DEF RevertBlockHeadersOnly
    <3>2. HeadersProgress'
      BY <3>1, <2>1, <2>2 DEF HeadersProgress, Heights
    <3> QED BY <2>3, <3>1, <3>2
      DEF Inv, PurgeComplete, OrphansProgress, BatchProgress, GenesisProgress
  <2>5. CASE ~(b <= LatestBlock(b))
    <3>1. /\ pc' = "idle" /\ completed' = "headers" /\ rows' = rows
          /\ waiting' = {} /\ blockId' = b
      BY <1>2, <2>5 DEF RevertBlockHeadersOnly
    <3>2. \A h \in rows["headers"] : h < b
      BY <2>1, <2>2, <2>5, RevertDataAssumption DEF Heights
    <3> QED BY <2>3, <3>1, <3>2
      DEF Inv, PurgeComplete, OrphansProgress, BatchProgress, GenesisProgress, HeadersProgress
  <2> QED BY <2>4, <2>5
<1> QED BY <1>1, <1>2 DEF Begin

\* What a delete takes away never brings a row back; the table it deletes from
\* is left as the pass wants it.
LEMMA DeleteInv ==
  ASSUME Inv, NEW t \in Tables, Delete(t)
  PROVE  Inv'
<1>1. /\ t \in waiting /\ waiting' = waiting \ {t}
      /\ rows' = [rows EXCEPT ![t] = @ \ Range]
      /\ UNCHANGED <<pc, blockId, purged, edge, upperBound, rejected, completed,
                     heightless, inProgressBlock, failures>>
  BY DEF Delete
<1>2. rows \in [Tables -> SUBSET Heights] /\ waiting \subseteq purged /\ purged \subseteq Tables
  BY DEF Inv, TypeOK
<1>3. \A s \in Tables : rows'[s] \subseteq rows[s]
  BY <1>1, <1>2
<1>4. rows'[t] = rows[t] \ Range
  BY <1>1, <1>2
<1>5. TypeOK'
  BY <1>1, <1>2 DEF Inv, TypeOK
<1>6. pc \notin {"idle", "genesis"} /\ completed = "none"
  BY <1>1 DEF Inv
<1>7. /\ blockId \in Nat /\ edge \in Nat /\ upperBound \in Nat
      /\ Heights \subseteq Nat
  BY RevertDataAssumption DEF Inv, TypeOK, Heights
<1>8. OrphansProgress'
  <2>1. CASE pc = "orphans"
    <3>1. Range = {h \in Heights : h >= edge}
      BY <2>1 DEF Range
    <3>2. \A r \in rows'[t] : r < edge
      <4> SUFFICES ASSUME NEW r \in rows'[t] PROVE r < edge
        OBVIOUS
      <4>1. r \in Heights /\ r \notin Range /\ r \in Nat
        BY <1>2, <1>4, <1>7
      <4> QED BY <1>7, <3>1, <4>1
    <3> QED BY <1>1, <1>2, <1>3, <2>1, <3>2 DEF Inv, OrphansProgress, Below
  <2> QED BY <1>1, <2>1 DEF OrphansProgress
<1>9. BatchProgress'
  <2>1. CASE pc = "batch"
    <3>0. edge > blockId
      BY <2>1 DEF Inv, BatchProgress
    <3>1. Range = {h \in Heights : BatchFrom(edge, blockId) <= h /\ h < edge}
      BY <2>1 DEF Range
    <3>2. BatchFrom(edge, blockId) \in Nat
      BY <1>7, <3>0, BatchFromBetween
    <3>3. \A r \in rows[t] : r < edge
      BY <1>1, <1>2, <2>1 DEF Inv, BatchProgress, Below
    <3>4. \A r \in rows'[t] : r < BatchFrom(edge, blockId)
      <4> SUFFICES ASSUME NEW r \in rows'[t] PROVE r < BatchFrom(edge, blockId)
        OBVIOUS
      <4>1. r \in Heights /\ r \notin Range /\ r \in Nat /\ r \in rows[t]
        BY <1>2, <1>4, <1>7
      <4>2. r < edge
        BY <3>3, <4>1
      <4> QED BY <3>1, <3>2, <4>1, <4>2
    <3>5. BatchFrom(edge, blockId)' = BatchFrom(edge, blockId)
      BY <1>1 DEF BatchFrom
    <3>6. \A s \in purged : Below(s, edge)'
      BY <1>1, <1>2, <1>3, <2>1 DEF Inv, BatchProgress, Below
    <3>7. ASSUME ~rejected, NEW s \in purged \ waiting'
          PROVE  \A r \in rows'[s] : r < BatchFrom(edge, blockId)
      <4>1. CASE s = t BY <3>4, <4>1
      <4>2. CASE s # t
        <5>1. s \in purged \ waiting /\ s \in Tables
          BY <1>1, <1>2, <3>7, <4>2
        <5> QED BY <1>3, <2>1, <3>7, <5>1 DEF Inv, BatchProgress, Below
      <4> QED BY <4>1, <4>2
    <3> QED BY <1>1, <2>1, <3>0, <3>5, <3>6, <3>7 DEF BatchProgress, Below
  <2> QED BY <1>1, <2>1 DEF BatchProgress
<1>10. HeadersProgress'
  <2>1. CASE pc = "headers"
    <3>1. Range = {h \in Heights : edge <= h /\ h < edge + BatchSize}
      BY <2>1 DEF Range
    <3>2. rows'["headers"] \subseteq rows["headers"]
      BY <1>3, RevertDataAssumption
    <3>3. CASE t = "headers"
      <4>1. \A r \in rows'["headers"] : r < blockId \/ r >= edge + BatchSize
        <5>1. \A r \in rows'["headers"] : r \in rows["headers"] /\ r \in Heights /\ r \notin Range
          BY <1>2, <1>4, <3>3
        <5>2. \A r \in rows["headers"] : r < blockId \/ r >= edge
          BY <2>1 DEF Inv, HeadersProgress
        <5> TAKE r \in rows'["headers"]
        <5>3. r \in Nat /\ r \in Heights /\ r \notin Range
          BY <1>7, <5>1
        <5>4. ~(edge <= r /\ r < edge + BatchSize)
          BY <3>1, <5>3
        <5> QED BY <1>7, <5>1, <5>2, <5>3, <5>4, RevertDataAssumption
      <4> QED BY <1>1, <2>1, <3>2, <4>1 DEF Inv, HeadersProgress
    <3>4. CASE t # "headers"
      BY <1>1, <2>1, <3>2, <3>4 DEF Inv, HeadersProgress
    <3> QED BY <3>3, <3>4
  <2> QED BY <1>1, <2>1 DEF HeadersProgress
<1> QED BY <1>1, <1>5, <1>6, <1>8, <1>9, <1>10 DEF Inv, PurgeComplete, GenesisProgress

\* After a delete that rejects, the pass promises nothing more.
LEMMA DeleteRejectsInv ==
  ASSUME Inv, NEW t \in Tables, DeleteRejects(t)
  PROVE  Inv'
<1>1. PICK gone \in SUBSET (rows[t] \cap Range) : rows' = [rows EXCEPT ![t] = @ \ gone]
  BY DEF DeleteRejects
<1>2. /\ t \in waiting /\ waiting' = waiting \ {t} /\ rejected' = TRUE
      /\ failures > 0 /\ failures' = failures - 1
      /\ UNCHANGED <<pc, blockId, purged, edge, upperBound, completed, heightless,
                     inProgressBlock>>
  BY DEF DeleteRejects
<1>3. rows \in [Tables -> SUBSET Heights] /\ waiting \subseteq purged /\ purged \subseteq Tables
  BY DEF Inv, TypeOK
<1>4. \A s \in Tables : rows'[s] \subseteq rows[s]
  BY <1>1, <1>3
<1>5. rows' \in [Tables -> SUBSET Heights]
  BY <1>1, <1>3
<1>6. TypeOK'
  BY <1>2, <1>3, <1>5 DEF Inv, TypeOK
<1>7. pc \notin {"idle", "genesis"} /\ completed = "none"
  BY <1>2 DEF Inv
<1>8. OrphansProgress' /\ BatchProgress'
  BY <1>2, <1>3, <1>4 DEF Inv, OrphansProgress, BatchProgress, Below
<1>9. HeadersProgress'
  <2>1. rows'["headers"] \subseteq rows["headers"]
    BY <1>4, RevertDataAssumption
  <2> QED BY <1>2, <2>1 DEF Inv, HeadersProgress
<1> QED BY <1>2, <1>6, <1>7, <1>8, <1>9 DEF Inv, PurgeComplete, GenesisProgress

\* The end of a pass: what the deletes have reached becomes the upper end of
\* the next batch, or what PurgeComplete promises.
LEMMA EndPassInv ==
  ASSUME Inv, EndPass
  PROVE  Inv'
<1>1. /\ pc \in {"orphans", "batch", "headers"} /\ waiting = {}
      /\ UNCHANGED <<rows, heightless, inProgressBlock, blockId, purged, upperBound, rejected, failures>>
  BY DEF EndPass
<1>2. /\ blockId \in Nat /\ edge \in Nat /\ upperBound \in Nat
      /\ Heights \subseteq Nat /\ rows \in [Tables -> SUBSET Heights]
      /\ purged \subseteq Tables /\ pc \in {"orphans", "batch", "headers"}
  BY <1>1, RevertDataAssumption DEF Inv, TypeOK, Heights
<1>3. completed = "none"
  BY <1>1 DEF Inv
<1>4. CASE rejected
  <2>1. /\ pc' = "idle" /\ completed' = completed /\ edge' = edge /\ waiting' = waiting
    BY <1>4 DEF EndPass
  <2>2. TypeOK'
    BY <1>1, <2>1 DEF Inv, TypeOK
  <2> QED BY <1>1, <1>3, <2>1, <2>2
    DEF Inv, PurgeComplete, OrphansProgress, BatchProgress, GenesisProgress, HeadersProgress
<1>5. CASE ~rejected /\ pc = "headers"
  <2>1. /\ NextEdge = edge + BatchSize /\ (More(NextEdge) <=> edge + BatchSize <= upperBound)
        /\ edge + BatchSize \in Nat
    BY <1>2, <1>5, RevertDataAssumption DEF NextEdge, More
  <2>2. /\ \A r \in rows["headers"] : (r < blockId \/ r >= edge + BatchSize) /\ r <= upperBound
        /\ edge >= blockId /\ purged = {"headers", Witnesses}
    BY <1>1, <1>5 DEF Inv, HeadersProgress
  <2>3. rows["headers"] \subseteq Nat
    BY <1>2, RevertDataAssumption
  <2>4. CASE More(NextEdge)
    <3>1. /\ pc' = "headers" /\ waiting' = purged /\ edge' = edge + BatchSize
          /\ completed' = completed
      BY <1>5, <2>1, <2>4 DEF EndPass
    <3>2. TypeOK'
      BY <1>1, <2>1, <3>1 DEF Inv, TypeOK
    <3>3. HeadersProgress'
      BY <1>1, <1>2, <2>1, <2>2, <3>1, RevertDataAssumption DEF HeadersProgress
    <3> QED BY <1>1, <1>3, <3>1, <3>2, <3>3
      DEF Inv, PurgeComplete, OrphansProgress, BatchProgress, GenesisProgress
  <2>5. CASE ~More(NextEdge)
    <3>1. /\ pc' = "idle" /\ waiting' = waiting /\ edge' = edge + BatchSize
          /\ completed' = "headers"
      BY <1>5, <2>1, <2>5 DEF EndPass
    <3>2. TypeOK'
      BY <1>1, <2>1, <3>1 DEF Inv, TypeOK
    <3>3. \A r \in rows["headers"] : r < blockId
      BY <1>2, <2>1, <2>2, <2>3, <2>5, RevertDataAssumption
    <3> QED BY <1>1, <3>1, <3>2, <3>3
      DEF Inv, PurgeComplete, OrphansProgress, BatchProgress, GenesisProgress, HeadersProgress
  <2> QED BY <2>4, <2>5
<1>6. CASE ~rejected /\ pc \in {"orphans", "batch"}
  <2>1. /\ NextEdge \in Nat /\ NextEdge >= blockId
        /\ \A t \in purged : Below(t, NextEdge)
    <3>1. CASE pc = "orphans"
      BY <1>1, <1>2, <1>6, <3>1 DEF Inv, OrphansProgress, NextEdge
    <3>2. CASE pc = "batch"
      <4>1. edge > blockId
        BY <3>2 DEF Inv, BatchProgress
      <4>2. NextEdge = BatchFrom(edge, blockId)
        BY <3>2 DEF NextEdge
      <4> QED BY <1>1, <1>2, <1>6, <3>2, <4>1, <4>2, BatchFromBetween
        DEF Inv, BatchProgress
    <3> QED BY <1>6, <3>1, <3>2
  <2>2. More(NextEdge) <=> NextEdge > blockId
    BY <1>6 DEF More
  <2>3. CASE More(NextEdge)
    <3>1. /\ pc' = "batch" /\ waiting' = purged /\ edge' = NextEdge
          /\ completed' = completed
      BY <1>6, <2>3 DEF EndPass
    <3>2. TypeOK'
      BY <1>1, <2>1, <3>1 DEF Inv, TypeOK
    <3>3. BatchProgress'
      BY <1>1, <2>1, <2>2, <2>3, <3>1 DEF BatchProgress, Below
    <3> QED BY <1>1, <1>3, <3>1, <3>2, <3>3
      DEF Inv, PurgeComplete, OrphansProgress, GenesisProgress, HeadersProgress
  <2>4. CASE ~More(NextEdge)
    <3>1. /\ waiting' = waiting /\ edge' = NextEdge
          /\ \/ pc' = "genesis" /\ completed' = completed /\ blockId = 0
             \/ pc' = "idle" /\ completed' = "data"
      BY <1>6, <2>4 DEF EndPass
    <3>2. TypeOK'
      BY <1>1, <1>3, <2>1, <3>1 DEF Inv, TypeOK
    <3>3. NextEdge = blockId
      BY <1>2, <2>1, <2>2, <2>4
    <3>4. \A t \in purged : \A h \in rows[t] : h < blockId
      BY <2>1, <3>3 DEF Below
    <3>5. GenesisProgress' /\ PurgeComplete'
      BY <1>1, <1>3, <3>1, <3>4 DEF GenesisProgress, PurgeComplete, Below
    <3> QED BY <1>1, <1>3, <3>1, <3>2, <3>5
      DEF Inv, OrphansProgress, BatchProgress, HeadersProgress
  <2> QED BY <2>3, <2>4
<1> QED BY <1>2, <1>4, <1>5, <1>6

\* The purge of the mempool ends a call whose tables are already empty.
LEMMA PurgeMempoolInv ==
  ASSUME Inv, PurgeMempool
  PROVE  Inv'
<1>1. /\ pc = "genesis" /\ pc' = "idle" /\ completed' = "data"
      /\ heightless' = heightless \ {"mempool"}
      /\ rows' = [t \in Tables |-> IF t \in Utxos \cap purged THEN {} ELSE rows[t]]
      /\ UNCHANGED <<inProgressBlock, blockId, purged, edge, upperBound, waiting,
                     rejected, failures>>
  BY DEF PurgeMempool
<1>2. rows' \in [Tables -> SUBSET Heights] /\ purged \subseteq Tables
  BY <1>1 DEF Inv, TypeOK
<1>3. TypeOK'
  BY <1>1, <1>2 DEF Inv, TypeOK
<1>4. \A t \in purged : \A h \in rows'[t] : h < blockId
  BY <1>1, <1>2 DEF Inv, GenesisProgress, Below
<1> QED BY <1>1, <1>3, <1>4
  DEF Inv, PurgeComplete, OrphansProgress, BatchProgress, GenesisProgress, HeadersProgress

\* A call that dies is over; the rows stay as they are.
LEMMA InterruptedInv ==
  ASSUME Inv, Interrupted
  PROVE  Inv'
<1>1. TypeOK'
  <2>1. rejected' \in BOOLEAN
    BY Zenon DEF Interrupted
  <2>2. failures' \in Nat
    BY DEF Inv, TypeOK, Interrupted
  <2> QED BY <2>1, <2>2 DEF Inv, TypeOK, Interrupted
<1>2. completed' = "none"
  BY DEF Inv, Interrupted
<1> QED BY <1>1, <1>2
  DEF Inv, PurgeComplete, OrphansProgress, BatchProgress, GenesisProgress, HeadersProgress, Interrupted

\* The invariant is inductive.
LEMMA NextInv == Inv /\ [Next]_vars => Inv'
<1> SUFFICES ASSUME Inv, [Next]_vars PROVE Inv'
  OBVIOUS
<1>1. CASE UNCHANGED vars
  BY <1>1 DEF vars, Inv, TypeOK, PurgeComplete, OrphansProgress, BatchProgress,
     GenesisProgress, HeadersProgress, Below, BatchFrom
<1>2. CASE Next
  BY <1>2, BeginInv, DeleteInv, DeleteRejectsInv, EndPassInv, PurgeMempoolInv,
     InterruptedInv
  DEF Next, Pass
<1> QED BY <1>1, <1>2

\* Every reachable state satisfies the inductive invariant.
THEOREM InvHolds == Spec => []Inv
  BY InitInv, NextInv, PTL DEF Spec

\* revertDataUntilBlock and revertBlockHeadersOnly keep their types; in
\* particular the loop variable never goes below zero.
THEOREM PurgeTypeCorrect == Spec => []TypeOK
<1>1. Inv => TypeOK
  BY DEF Inv
<1> QED BY <1>1, InvHolds, PTL

\* A purge that ends well has left nothing at or above blockId.
THEOREM PurgeIsComplete == Spec => []PurgeComplete
<1>1. Inv => PurgeComplete
  BY DEF Inv
<1> QED BY <1>1, InvHolds, PTL

\* The batches of a purge go through the tables in lockstep.
THEOREM PurgeInLockstep == Spec => []Lockstep
<1>1. Inv => Lockstep
  BY DEF Inv, Lockstep, BatchProgress, Below
<1> QED BY <1>1, InvHolds, PTL

\* No step of a purge takes a row below the batch it is in or below blockId.
THEOREM PurgeKeepsBelow == Spec => KeepsBelow
<1> DEFINE Kept ==
      \A t \in Tables : \A h \in rows[t] \ rows'[t] :
          /\ pc # "idle" /\ h >= blockId
          /\ pc = "batch" => h >= edge - BatchSize
<1>1. Inv /\ [Next]_vars => [Kept]_vars
  <2> SUFFICES ASSUME Inv, Next PROVE Kept
    BY DEF vars
  <2>1. CASE UNCHANGED rows
    BY <2>1
  <2>2. ASSUME NEW s \in Tables, s \in waiting,
               \A t \in Tables : rows[t] \ rows'[t] \subseteq Range
        PROVE  Kept
    <3> SUFFICES ASSUME NEW t \in Tables, NEW h \in rows[t] \ rows'[t]
                 PROVE  /\ pc # "idle" /\ h >= blockId
                        /\ pc = "batch" => h >= edge - BatchSize
      OBVIOUS
    <3>1. /\ h \in Range /\ pc \in {"orphans", "batch", "headers"}
          /\ blockId \in Nat /\ edge \in Nat /\ Heights \subseteq Nat
      BY <2>2, RevertDataAssumption DEF Inv, TypeOK, Heights
    <3>2. CASE pc = "orphans"
      BY <3>1, <3>2 DEF Inv, OrphansProgress, Range
    <3>3. CASE pc = "batch"
      <4>1. edge > blockId
        BY <3>3 DEF Inv, BatchProgress
      <4>2. h \in Nat /\ BatchFrom(edge, blockId) <= h
        BY <3>1, <3>3 DEF Range
      <4> QED BY <3>1, <3>3, <4>1, <4>2, BatchFromBetween, RevertDataAssumption
    <3>4. CASE pc = "headers"
      BY <3>1, <3>4 DEF Inv, HeadersProgress, Range
    <3> QED BY <3>1, <3>2, <3>3, <3>4
  <2>3. ASSUME NEW s \in Tables, Delete(s) \/ DeleteRejects(s) PROVE Kept
    <3>1. rows \in [Tables -> SUBSET Heights]
      BY DEF Inv, TypeOK
    <3>2. s \in waiting /\ \A t \in Tables : rows[t] \ rows'[t] \subseteq Range
      BY <2>3, <3>1 DEF Delete, DeleteRejects
    <3> HIDE DEF Kept
    <3> QED BY <2>2, <3>2
  <2>4. CASE PurgeMempool
    <3>1. pc = "genesis" /\ blockId = 0
      BY <2>4 DEF PurgeMempool, Inv, GenesisProgress
    <3>2. \A t \in Tables : \A h \in rows[t] : h >= 0
      BY RevertDataAssumption DEF Inv, TypeOK, Heights
    <3> QED BY <3>1, <3>2
  <2> HIDE DEF Kept
  <2> QED BY <2>1, <2>3, <2>4
    DEF Next, Pass, Begin, RevertDataUntilBlock, RevertBlockHeadersOnly, EndPass,
        Interrupted
<1> QED BY <1>1, InvHolds, PTL DEF Spec, KeepsBelow
=============================================================================
