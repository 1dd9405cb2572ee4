--------------------------- MODULE MempoolProofs ---------------------------
(***************************************************************************)
(* Theorems about Mempool, for every set of transactions and packages, any *)
(* number of broadcasts at a time, and any number of blocks, failed calls  *)
(* and restarts.                                                           *)
(*                                                                         *)
(* The three properties describe states in which nothing is under way.     *)
(* Each has an invariant that accounts for what is: the transactions a     *)
(* broadcast carries from Bitcoin Core's answer to the peers (Accounted),  *)
(* what the sweep has listed and not yet stored or deleted (Swept), and    *)
(* the call of onBlockChange that will still load the challenges or decide *)
(* whether the node is synchronised (Following).                           *)
(***************************************************************************)
EXTENDS Mempool, SequenceTheorems, TLAPS

-----------------------------------------------------------------------------
(* Types *)

JobType == [by : {"poll", "check"}, h : Int, tries : Int, tip : Int,
            pc : {"queued", "fetch", "sleep", "fees", "tip", "apply"}]

SyncTypeOK ==
    /\ DOMAIN sync = {"observed", "consensus", "verifier", "target", "challenges", "fullSync", "fees"}
    /\ {sync.observed, sync.consensus, sync.verifier, sync.target, sync.challenges} \subseteq Int
    /\ sync.fullSync \in BOOLEAN

TipTypeOK ==
    /\ node \in [tip : Int, stored : Int, indexed : Int] /\ 0 <= node.stored /\ node.stored <= node.tip
    /\ 2 <= node.indexed /\ node.indexed <= node.tip + 1
    /\ node.stored + 1 <= node.indexed /\ node.indexed <= node.stored + 2
    /\ polled \in Int /\ jobs \in Seq(JobType) /\ SyncTypeOK
    /\ check \in [pc : {"wait", "judge", "busy"}, tip : Int]
    /\ unread \in BOOLEAN /\ unloaded \in BOOLEAN

Request(ids) ==
    [pc : {"idle", "lookup", "gate", "exists", "verify", "test", "submit", "send",
           "store", "evict", "delete", "spread"},
     src : {"api", "package", "peer"}, txs : Seq(Txs), pkg : BOOLEAN, i : Nat,
     ids : {ids}, oks : SUBSET Txs]

-----------------------------------------------------------------------------
(* The calls of onBlockChange *)

\* A call that may still load the challenge solutions of the newest height.
Loads == \E i \in DOMAIN jobs : Loading(jobs[i]) /\ jobs[i].h = sync.target

\* A poll's call that may still decide whether the node is synchronised.
Decides == \E i \in DOMAIN jobs : jobs[i].by = "poll" /\ jobs[i].h = sync.observed

\* The heights the thread has been told, and the tips it has read.
Heard ==
    /\ sync.observed = polled /\ sync.observed <= sync.consensus
    /\ polled # Unknown => sync.target # Unknown
    /\ sync.target # Unknown => sync.verifier = sync.target
    /\ sync.consensus <= node.tip + 1 /\ polled <= node.tip + 1
    /\ Unknown <= check.tip /\ check.tip <= node.tip

\* What the last decision is worth when no other is to come.
Decided ==
    ~Decides /\ ~unread =>
        /\ sync.observed >= node.tip => sync.fullSync
        /\ sync.fullSync => /\ sync.consensus <= sync.observed + 1
                            /\ check.pc # "judge" => check.tip <= sync.observed + 1

\* verifyBlockHeight awaits its call.
Awaited ==
    /\ \A i \in DOMAIN jobs : jobs[i].by = "check" => check.pc = "busy"
    /\ \A i, k \in DOMAIN jobs : jobs[i].by = "check" /\ jobs[k].by = "check" => i = k

Following ==
    /\ Heard /\ Decided /\ Awaited
    /\ sync.challenges = sync.target \/ unloaded \/ Loads

-----------------------------------------------------------------------------
(* The broadcasts *)

\* What Bitcoin Core has taken of a broadcast and the broadcast has still to spread.
Carried(q) ==
    q.oks \cup (IF q.pc \notin {"store", "evict", "delete"} THEN {}
                ELSE IF q.pkg THEN {q.txs[k] : k \in q.i .. Len(q.txs)} ELSE {q.txs[q.i]})

RequestOK(q) ==
    /\ q \in Request(q.ids)
    /\ q.pc = "idle" => q.oks = {}
    /\ q.pc # "idle" => q.i \in 1 .. Len(q.txs)
    /\ q.pc # "idle" /\ q.src # "package" => Len(q.txs) = 1 /\ ~q.pkg
    /\ q.src # "package" /\ q.pc # "spread" => q.oks = {}
    /\ q.pc \in {"lookup", "gate", "exists", "verify", "test", "submit"} => q.oks = {}
    /\ q.pc \in {"test", "submit"} => q.i = 1 /\ q.src = "package"
    /\ q.pc = "submit" => q.pkg

Accounted ==
    /\ \A t \in taken.api \cup taken.peer :
         t \in notified \cup unspread \/ \E r \in Slots : t \in Carried(reqs[r])
    /\ \A t \in taken.api :
         \/ t \in relayed \cup fromPeers \cup unspread
         \/ \E r \in Slots : reqs[r].src # "peer" /\ t \in Carried(reqs[r])
    /\ known \subseteq relayed \cup fromPeers

BroadcastsOK ==
    /\ reqs = [s \in Slots |-> reqs[s]] /\ \A r \in Slots : RequestOK(reqs[r])
    /\ DOMAIN taken = {"api", "peer"}
    /\ Accounted

-----------------------------------------------------------------------------
(* The sweep *)

ManagerPcs == {"off", "list", "known", "fetch", "store", "clean", "backup", "cleanAgain", "wait", "dead"}

Storing == manager.pc \in {"known", "fetch", "store"}

Swept ==
    /\ DOMAIN manager = {"pc", "list", "fresh", "ids", "cache", "height"}
    /\ manager.pc \in ManagerPcs
    /\ manager.pc \notin {"off", "list"} => manager.cache = manager.list
    /\ manager.pc \notin {"clean", "cleanAgain"} => manager.ids = {}
    /\ manager.ids \cap manager.list = {}
    /\ Storing => manager.list # {} /\ manager.fresh \subseteq manager.list
    /\ \A t \in manager.cache :
         t \in db \/ t \in excused \/ (Storing /\ t \in manager.fresh)
    /\ manager.pc \in {"off", "list"} => moved
    /\ ~moved =>
         /\ core = manager.list
         /\ manager.ids # {} => db \ manager.list \subseteq manager.ids
         /\ manager.pc = "backup" /\ manager.list = {} => db = {}
         /\ manager.pc = "wait" => db \subseteq manager.list

-----------------------------------------------------------------------------
(* Sequences *)

\* RemoveAt keeps the other elements.
LEMMA RemoveAtKeeps ==
  ASSUME NEW S, NEW s \in Seq(S), NEW i \in DOMAIN s
  PROVE  /\ RemoveAt(s, i) \in Seq(S)
         /\ \A k \in DOMAIN RemoveAt(s, i) : \E m \in DOMAIN s : m # i /\ s[m] = RemoveAt(s, i)[k]
         /\ \A k, l \in DOMAIN RemoveAt(s, i) : k # l =>
              \E m, n \in DOMAIN s : m # n /\ s[m] = RemoveAt(s, i)[k] /\ s[n] = RemoveAt(s, i)[l]
         /\ \A k \in DOMAIN s : k # i => \E m \in DOMAIN RemoveAt(s, i) : RemoveAt(s, i)[m] = s[k]
<1> DEFINE low == SubSeq(s, 1, i - 1)
           high == SubSeq(s, i + 1, Len(s))
<1>1. i \in 1 .. Len(s) /\ Len(s) \in Nat /\ DOMAIN s = 1 .. Len(s)
  OBVIOUS
<1>2. /\ low \in Seq(S) /\ Len(low) = i - 1
      /\ \A k \in 1 .. i - 1 : low[k] = s[k]
  BY <1>1
<1>3. /\ high \in Seq(S) /\ Len(high) = Len(s) - i
      /\ \A k \in 1 .. Len(s) - i : high[k] = s[i + k]
  BY <1>1
<1> HIDE DEF low, high
<1>4. RemoveAt(s, i) = low \o high
  BY DEF RemoveAt, low, high
<1>5. /\ low \o high \in Seq(S) /\ Len(low \o high) = Len(s) - 1
      /\ \A k \in 1 .. Len(s) - 1 :
           (low \o high)[k] = IF k <= i - 1 THEN low[k] ELSE high[k - (i - 1)]
  <2>1. /\ low \o high \in Seq(S) /\ Len(low \o high) = Len(low) + Len(high)
        /\ \A k \in 1 .. Len(low) + Len(high) :
             (low \o high)[k] = IF k <= Len(low) THEN low[k] ELSE high[k - Len(low)]
    BY <1>2, <1>3, ConcatProperties
  <2>2. Len(low) + Len(high) = Len(s) - 1
    BY <1>1, <1>2, <1>3
  <2> QED BY <1>2, <2>1, <2>2
<1>6. ASSUME NEW k \in 1 .. Len(s) - 1
      PROVE  (low \o high)[k] = IF k < i THEN s[k] ELSE s[k + 1]
  <2>1. CASE k < i
    BY <1>1, <1>2, <1>5, <2>1
  <2>2. CASE ~(k < i)
    <3>1. k - (i - 1) \in 1 .. Len(s) - i /\ i + (k - (i - 1)) = k + 1 /\ ~(k <= i - 1)
      BY <1>1, <2>2
    <3>2. high[k - (i - 1)] = s[i + (k - (i - 1))]
      BY <1>3, <3>1
    <3> QED BY <1>5, <2>2, <3>1, <3>2
  <2> QED BY <2>1, <2>2
<1>7. DOMAIN (low \o high) = 1 .. Len(s) - 1
  <2>1. \A t \in Seq(S) : DOMAIN t = 1 .. Len(t)
    OBVIOUS
  <2> QED BY <1>5, <2>1
<1>8. ASSUME NEW k \in 1 .. Len(s) - 1
      PROVE  \E m \in DOMAIN s : m # i /\ m = (IF k < i THEN k ELSE k + 1) /\ s[m] = (low \o high)[k]
  <2>1. k \in DOMAIN s /\ k + 1 \in DOMAIN s /\ (k < i => k # i) /\ (~(k < i) => k + 1 # i)
    BY <1>1
  <2> QED BY <1>6, <2>1
<1>9. ASSUME NEW k \in DOMAIN s, k # i PROVE \E m \in 1 .. Len(s) - 1 : (low \o high)[m] = s[k]
  <2>1. CASE k < i
    <3>1. k \in 1 .. Len(s) - 1
      BY <1>1, <2>1
    <3> QED BY <1>6, <2>1, <3>1
  <2>2. CASE ~(k < i)
    <3>1. k - 1 \in 1 .. Len(s) - 1 /\ ~(k - 1 < i) /\ (k - 1) + 1 = k
      BY <1>1, <1>9, <2>2
    <3>2. (low \o high)[k - 1] = s[(k - 1) + 1]
      BY <1>6, <3>1
    <3> QED BY <3>1, <3>2
  <2> QED BY <2>1, <2>2
<1>10. \A k \in 1 .. Len(s) - 1 : \E m \in DOMAIN s : m # i /\ s[m] = (low \o high)[k]
  BY <1>8
<1> DEFINE rest == low \o high
<1>11. /\ rest \in Seq(S) /\ DOMAIN rest = 1 .. Len(s) - 1
       /\ \A k \in DOMAIN rest : \E m \in DOMAIN s : m # i /\ s[m] = rest[k]
  BY <1>5, <1>7, <1>10
<1>12. ASSUME NEW k \in DOMAIN rest, NEW l \in DOMAIN rest, k # l
       PROVE  \E m, n \in DOMAIN s : m # n /\ s[m] = rest[k] /\ s[n] = rest[l]
  <2>1. k \in 1 .. Len(s) - 1 /\ l \in 1 .. Len(s) - 1
    BY <1>7
  <2>2. (IF k < i THEN k ELSE k + 1) # (IF l < i THEN l ELSE l + 1)
    BY <1>1, <1>12, <2>1
  <2> QED BY <1>8, <2>1, <2>2
<1>13. ASSUME NEW k \in DOMAIN s, k # i PROVE \E m \in DOMAIN rest : rest[m] = s[k]
  BY <1>7, <1>9, <1>13
<1>14. RemoveAt(s, i) = rest
  BY <1>4
<1> HIDE DEF rest
<1> QED BY <1>11, <1>12, <1>13, <1>14

\* So does Append.
LEMMA AppendKeeps ==
  ASSUME NEW S, NEW s \in Seq(S), NEW e \in S
  PROVE  /\ Append(s, e) \in Seq(S)
         /\ \A k \in DOMAIN s : k \in DOMAIN Append(s, e) /\ Append(s, e)[k] = s[k]
         /\ \A k \in DOMAIN Append(s, e) : k \in DOMAIN s \/ k = Len(s) + 1
         /\ Len(s) + 1 \in DOMAIN Append(s, e) /\ Append(s, e)[Len(s) + 1] = e
<1>1. /\ Append(s, e) \in Seq(S) /\ Len(Append(s, e)) = Len(s) + 1 /\ Len(s) \in Nat
      /\ \A k \in 1 .. Len(s) : Append(s, e)[k] = s[k]
      /\ Append(s, e)[Len(s) + 1] = e
  BY AppendProperties
<1>2. DOMAIN s = 1 .. Len(s) /\ DOMAIN Append(s, e) = 1 .. Len(s) + 1
  BY <1>1
<1>3. /\ Len(s) + 1 \in 1 .. Len(s) + 1 /\ \A k \in 1 .. Len(s) : k \in 1 .. Len(s) + 1
      /\ \A k \in 1 .. Len(s) + 1 : k \in 1 .. Len(s) \/ k = Len(s) + 1
  BY <1>1
<1> QED BY <1>1, <1>2, <1>3


\* A sequence one of whose elements is replaced.
LEMMA ReplaceKeeps ==
  ASSUME NEW S, NEW s \in Seq(S), NEW i \in DOMAIN s, NEW e \in S
  PROVE  /\ [s EXCEPT ![i] = e] \in Seq(S) /\ DOMAIN [s EXCEPT ![i] = e] = DOMAIN s
         /\ [s EXCEPT ![i] = e][i] = e
         /\ \A k \in DOMAIN s : k # i => [s EXCEPT ![i] = e][k] = s[k]
<1>1. DOMAIN s = 1 .. Len(s) /\ Len(s) \in Nat
  OBVIOUS
<1>2. [s EXCEPT ![i] = e] = [k \in 1 .. Len(s) |-> IF k = i THEN e ELSE s[k]]
  BY <1>1
<1>3. \A k \in 1 .. Len(s) : (IF k = i THEN e ELSE s[k]) \in S
  BY <1>1
<1> QED BY <1>1, <1>2, <1>3

-----------------------------------------------------------------------------
(* The calls of onBlockChange, step by step *)

TipInv == TipTypeOK /\ Following

LEMMA JobStep ==
  ASSUME TipTypeOK, NEW i \in DOMAIN jobs
  PROVE  /\ jobs[i] \in JobType
         /\ \A pc \in {"queued", "fetch", "sleep", "fees", "tip", "apply"} :
              To(i, pc) => /\ jobs' \in Seq(JobType) /\ DOMAIN jobs' = DOMAIN jobs
                           /\ jobs'[i] = [jobs[i] EXCEPT !.pc = pc]
                           /\ \A k \in DOMAIN jobs : k # i => jobs'[k] = jobs[k]
<1>1. jobs \in Seq(JobType) /\ jobs[i] \in JobType
  BY DEF TipTypeOK
<1>2. ASSUME NEW pc \in {"queued", "fetch", "sleep", "fees", "tip", "apply"}
      PROVE  [jobs[i] EXCEPT !.pc = pc] \in JobType
  BY <1>1 DEF JobType
<1>3. ASSUME NEW pc \in {"queued", "fetch", "sleep", "fees", "tip", "apply"}, To(i, pc)
      PROVE  /\ jobs' \in Seq(JobType) /\ DOMAIN jobs' = DOMAIN jobs
             /\ jobs'[i] = [jobs[i] EXCEPT !.pc = pc]
             /\ \A k \in DOMAIN jobs : k # i => jobs'[k] = jobs[k]
  <2>1. jobs' = [jobs EXCEPT ![i] = [jobs[i] EXCEPT !.pc = pc]]
    BY <1>3 DEF To
  <2>2. [jobs[i] EXCEPT !.pc = pc] \in JobType
    BY <1>2
  <2> QED BY <1>1, <2>1, <2>2, ReplaceKeeps
<1> QED BY <1>1, <1>3

\* A call starts to load, or goes on after its sleep, unless a newer height has come.
LEMMA StartLoadingKeeps ==
  ASSUME TipInv, NEW i \in DOMAIN jobs, StartLoading(i) \/ AbortableSleep(i)
  PROVE  TipInv'
<1>1. /\ Loading(jobs[i]) /\ To(i, IF Stale(i) THEN "fees" ELSE "fetch")
      /\ UNCHANGED <<node, polled, sync, check, unread, unloaded>>
  BY DEF StartLoading, AbortableSleep, Loading
<1>2. /\ jobs' \in Seq(JobType) /\ DOMAIN jobs' = DOMAIN jobs /\ jobs[i] \in JobType
      /\ jobs'[i] = [jobs[i] EXCEPT !.pc = IF Stale(i) THEN "fees" ELSE "fetch"]
      /\ \A k \in DOMAIN jobs : k # i => jobs'[k] = jobs[k]
  BY <1>1, JobStep DEF TipInv
<1>3. jobs'[i].h = jobs[i].h /\ jobs'[i].by = jobs[i].by /\ (~Stale(i) => Loading(jobs'[i]))
  BY <1>2 DEF JobType, Loading
<1>4. Loads => Loads'
  <2>1. SUFFICES ASSUME NEW k \in DOMAIN jobs, Loading(jobs[k]), jobs[k].h = sync.target PROVE Loads'
    BY DEF Loads
  <2>2. Loading(jobs'[k]) /\ jobs'[k].h = sync.target
    BY <1>2, <1>3, <2>1 DEF Stale
  <2> QED BY <1>1, <1>2, <2>2 DEF Loads, Loading
<1>5. (Decides' <=> Decides) /\ Awaited'
  <2>1. \A k \in DOMAIN jobs : jobs'[k].by = jobs[k].by /\ jobs'[k].h = jobs[k].h
    BY <1>2, <1>3
  <2> QED BY <1>1, <1>2, <2>1 DEF Decides, Awaited, TipInv, Following
<1>6. TipTypeOK'
  BY <1>1, <1>2 DEF TipInv, TipTypeOK, SyncTypeOK
<1> QED BY <1>1, <1>4, <1>5, <1>6 DEF TipInv, Following, Heard, Decided


\* The solutions are applied unless a newer height has come.
LEMMA FetchKeeps ==
  ASSUME TipInv, NEW i \in DOMAIN jobs, FetchAndApplyChallenges(i)
  PROVE  TipInv'
<1>1. /\ To(i, "fees") /\ unloaded' = (unloaded /\ Stale(i))
      /\ sync' = [sync EXCEPT !.challenges = IF Stale(i) THEN @ ELSE jobs[i].h]
      /\ UNCHANGED <<node, polled, check, unread>>
  BY DEF FetchAndApplyChallenges
<1>2. /\ jobs' \in Seq(JobType) /\ DOMAIN jobs' = DOMAIN jobs /\ jobs[i] \in JobType
      /\ jobs'[i] = [jobs[i] EXCEPT !.pc = "fees"]
      /\ \A k \in DOMAIN jobs : k # i => jobs'[k] = jobs[k]
  BY <1>1, JobStep DEF TipInv
<1>3. jobs'[i].h = jobs[i].h /\ jobs'[i].by = jobs[i].by /\ jobs[i].h \in Int
  BY <1>2 DEF JobType
<1>4. /\ sync'.observed = sync.observed /\ sync'.consensus = sync.consensus
      /\ sync'.verifier = sync.verifier /\ sync'.target = sync.target /\ sync'.fullSync = sync.fullSync
      /\ sync'.challenges = IF Stale(i) THEN sync.challenges ELSE jobs[i].h
      /\ DOMAIN sync' = DOMAIN sync
  BY <1>1 DEF TipInv, TipTypeOK, SyncTypeOK
<1>5. TipTypeOK'
  <2>1. unloaded' \in BOOLEAN
    BY <1>1
  <2> QED BY <1>1, <1>2, <1>3, <1>4, <2>1 DEF TipInv, TipTypeOK, SyncTypeOK
<1>6. (Decides' <=> Decides) /\ Awaited'
  <2>1. \A k \in DOMAIN jobs : jobs'[k].by = jobs[k].by /\ jobs'[k].h = jobs[k].h
    BY <1>2, <1>3
  <2>2. Decides' <=> Decides
    BY <1>2, <1>4, <2>1 DEF Decides
  <2>3. Awaited'
    BY <1>1, <1>2, <2>1 DEF Awaited, TipInv, Following
  <2> QED BY <2>2, <2>3
<1>7. Heard' /\ Decided'
  BY <1>1, <1>4, <1>6 DEF TipInv, Following, Heard, Decided
<1>8. CASE ~Stale(i)
  BY <1>4, <1>5, <1>6, <1>7, <1>8 DEF TipInv, Following, Stale
<1>9. CASE Stale(i)
  <2>1. Loads => Loads'
    <3>1. SUFFICES ASSUME NEW k \in DOMAIN jobs, Loading(jobs[k]), jobs[k].h = sync.target PROVE Loads'
      BY DEF Loads
    <3>2. k # i /\ jobs'[k] = jobs[k]
      BY <1>2, <1>9, <3>1 DEF Stale
    <3> QED BY <1>2, <1>4, <3>1, <3>2 DEF Loads, Loading
  <2>2. sync'.challenges = sync.challenges /\ sync'.target = sync.target /\ unloaded' = unloaded
    BY <1>1, <1>4, <1>9 DEF TipInv, TipTypeOK
  <2> QED BY <1>5, <1>6, <1>7, <2>1, <2>2 DEF TipInv, Following
<1> QED BY <1>8, <1>9

\* A call that has exhausted its retries leaves a mark.
LEMMA FetchFailsKeeps ==
  ASSUME TipInv, MaxRetries \in Nat, NEW i \in DOMAIN jobs, FetchFails(i)
  PROVE  TipInv'
<1> DEFINE e == [jobs[i] EXCEPT !.pc = IF jobs[i].tries >= MaxRetries THEN "fees" ELSE "sleep",
                                !.tries = @ + 1]
<1>1. /\ unloaded' = (unloaded \/ jobs[i].tries >= MaxRetries)
      /\ UNCHANGED <<node, polled, sync, check, unread>>
  BY DEF FetchFails
<1>2. jobs \in Seq(JobType) /\ jobs[i] \in JobType
  BY DEF TipInv, TipTypeOK
<1>3. /\ e \in JobType /\ e.h = jobs[i].h /\ e.by = jobs[i].by
      /\ ~(jobs[i].tries >= MaxRetries) => Loading(e)
  <2>1. jobs[i].tries \in Int /\ jobs[i].tries + 1 \in Int
    BY <1>2 DEF JobType
  <2>2. e.pc = (IF jobs[i].tries >= MaxRetries THEN "fees" ELSE "sleep") /\ e.h = jobs[i].h /\ e.by = jobs[i].by
    BY <1>2 DEF JobType
  <2>3. e \in JobType
    BY <1>2, <2>1 DEF JobType
  <2> QED BY <2>2, <2>3 DEF Loading
<1>4. jobs' = [jobs EXCEPT ![i] = e]
  BY DEF FetchFails
<1> HIDE DEF e
<1>5. /\ jobs' \in Seq(JobType) /\ DOMAIN jobs' = DOMAIN jobs
      /\ jobs'[i] = e /\ \A k \in DOMAIN jobs : k # i => jobs'[k] = jobs[k]
  BY <1>2, <1>3, <1>4, ReplaceKeeps
<1>6. TipTypeOK'
  <2>1. unloaded' \in BOOLEAN
    BY <1>1
  <2> QED BY <1>1, <1>5, <2>1 DEF TipInv, TipTypeOK, SyncTypeOK
<1>7. (Decides' <=> Decides) /\ Awaited'
  <2>1. \A k \in DOMAIN jobs : jobs'[k].by = jobs[k].by /\ jobs'[k].h = jobs[k].h
    BY <1>3, <1>5
  <2> QED BY <1>1, <1>5, <2>1 DEF Decides, Awaited, TipInv, Following
<1>8. Heard' /\ Decided'
  BY <1>1, <1>7 DEF TipInv, Following, Heard, Decided
<1>9. Loads => Loads' \/ unloaded'
  <2>1. SUFFICES ASSUME NEW k \in DOMAIN jobs, Loading(jobs[k]), jobs[k].h = sync.target, ~unloaded'
                 PROVE  Loads'
    BY DEF Loads
  <2>2. Loading(jobs'[k]) /\ jobs'[k].h = sync.target
    BY <1>1, <1>3, <1>5, <2>1
  <2> QED BY <1>1, <1>5, <2>2 DEF Loads, Loading
<1>10. sync'.challenges = sync'.target \/ unloaded' \/ Loads'
  BY <1>1, <1>9 DEF TipInv, Following
<1> QED BY <1>6, <1>7, <1>8, <1>10 DEF TipInv, Following


\* What the end of a call, or its next step, leaves of the calls.
LEMMA DoneStep ==
  ASSUME TipTypeOK, NEW i \in DOMAIN jobs, Done(i)
  PROVE  /\ jobs' \in Seq(JobType)
         /\ \A k \in DOMAIN jobs' : \E m \in DOMAIN jobs : m # i /\ jobs[m] = jobs'[k]
         /\ \A k, l \in DOMAIN jobs' : k # l =>
              \E m, n \in DOMAIN jobs : m # n /\ jobs[m] = jobs'[k] /\ jobs[n] = jobs'[l]
         /\ \A k \in DOMAIN jobs : k # i => \E m \in DOMAIN jobs' : jobs'[m] = jobs[k]
  BY RemoveAtKeeps DEF Done, TipTypeOK

\* The end of a call that neither loads nor decides.
LEMMA DoneFrame ==
  ASSUME TipTypeOK, NEW i \in DOMAIN jobs, Done(i), ~Loading(jobs[i]),
         sync'.target = sync.target, sync'.observed = sync.observed
  PROVE  /\ Loads => Loads'
         /\ Decides' => Decides
         /\ Decides => Decides' \/ (jobs[i].by = "poll" /\ jobs[i].h = sync.observed)
         /\ \A k, l \in DOMAIN jobs' : jobs'[k].by = "check" /\ jobs'[l].by = "check" /\ k # l =>
              \E m, n \in DOMAIN jobs : jobs[m].by = "check" /\ jobs[n].by = "check" /\ m # n
<1>1. Loads => Loads'
  <2>1. SUFFICES ASSUME NEW k \in DOMAIN jobs, Loading(jobs[k]), jobs[k].h = sync.target PROVE Loads'
    BY DEF Loads
  <2>2. PICK m \in DOMAIN jobs' : jobs'[m] = jobs[k]
    BY <2>1, DoneStep
  <2>3. m \in DOMAIN jobs' /\ jobs'[m].pc \in {"queued", "fetch", "sleep"} /\ jobs'[m].h = sync'.target
    BY <2>1, <2>2 DEF Loading
  <2> QED BY <2>3 DEF Loads, Loading
<1>2. Decides' => Decides
  BY DoneStep DEF Decides
<1>3. Decides => Decides' \/ (jobs[i].by = "poll" /\ jobs[i].h = sync.observed)
  BY DoneStep DEF Decides
<1>4. ASSUME NEW k \in DOMAIN jobs', NEW l \in DOMAIN jobs', k # l,
             jobs'[k].by = "check", jobs'[l].by = "check"
      PROVE  \E m, n \in DOMAIN jobs : jobs[m].by = "check" /\ jobs[n].by = "check" /\ m # n
  <2>1. PICK m \in DOMAIN jobs, n \in DOMAIN jobs : m # n /\ jobs[m] = jobs'[k] /\ jobs[n] = jobs'[l]
    BY <1>4, DoneStep
  <2> QED BY <1>4, <2>1
<1> QED BY <1>1, <1>2, <1>3, <1>4

\* The fees are estimated; then a poll's call goes on unless a newer one has
\* come, and verifyBlockHeight goes on after its own.
LEMMA RefreshFeesKeeps ==
  ASSUME TipInv, NEW i \in DOMAIN jobs, RefreshFees(i)
  PROVE  TipInv'
<1>1. /\ jobs[i].pc = "fees" /\ ~Loading(jobs[i])
      /\ check' = IF jobs[i].by = "check" THEN [check EXCEPT !.pc = "wait"] ELSE check
      /\ UNCHANGED <<node, polled, unread, unloaded>>
  BY DEF RefreshFees, Loading
<1>2. /\ sync'.observed = sync.observed /\ sync'.consensus = sync.consensus
      /\ sync'.verifier = sync.verifier /\ sync'.target = sync.target /\ sync'.fullSync = sync.fullSync
      /\ sync'.challenges = sync.challenges /\ DOMAIN sync' = DOMAIN sync
  BY DEF RefreshFees, TipInv, TipTypeOK, SyncTypeOK
<1>3. jobs[i] \in JobType /\ jobs[i].by \in {"poll", "check"}
  BY JobStep DEF TipInv, JobType
<1>4. /\ check' \in [pc : {"wait", "judge", "busy"}, tip : Int] /\ check'.tip = check.tip
      /\ jobs[i].by = "check" => check'.pc = "wait" /\ check.pc = "busy"
      /\ jobs[i].by = "poll" => check' = check
  BY <1>1, <1>3 DEF TipInv, TipTypeOK, Following, Awaited
<1>5. /\ jobs' \in Seq(JobType) /\ (Loads => Loads') /\ (Decides' <=> Decides) /\ Awaited'
  <2>1. CASE jobs[i].by = "poll" /\ jobs[i].h = sync.observed
    <3>1. To(i, "tip")
      BY <2>1 DEF RefreshFees
    <3>2. /\ jobs' \in Seq(JobType) /\ DOMAIN jobs' = DOMAIN jobs
          /\ jobs'[i] = [jobs[i] EXCEPT !.pc = "tip"]
          /\ \A k \in DOMAIN jobs : k # i => jobs'[k] = jobs[k]
      BY <3>1, JobStep DEF TipInv
    <3>3. \A k \in DOMAIN jobs : jobs'[k].by = jobs[k].by /\ jobs'[k].h = jobs[k].h
      BY <1>3, <3>2 DEF JobType
    <3>4. Loads => Loads'
      <4>1. SUFFICES ASSUME NEW k \in DOMAIN jobs, Loading(jobs[k]), jobs[k].h = sync.target PROVE Loads'
        BY DEF Loads
      <4>2. jobs'[k] = jobs[k]
        BY <1>1, <3>2, <4>1
      <4> QED BY <1>2, <3>2, <4>1, <4>2 DEF Loads, Loading
    <3>5. Decides' <=> Decides
      BY <1>2, <3>2, <3>3 DEF Decides
    <3>6. Awaited'
      BY <1>4, <2>1, <3>2, <3>3 DEF Awaited, TipInv, Following
    <3> QED BY <3>2, <3>4, <3>5, <3>6
  <2>2. CASE ~(jobs[i].by = "poll" /\ jobs[i].h = sync.observed)
    <3>1. Done(i)
      BY <2>2 DEF RefreshFees
    <3>2. /\ Loads => Loads'
          /\ Decides' <=> Decides
          /\ \A k, l \in DOMAIN jobs' : jobs'[k].by = "check" /\ jobs'[l].by = "check" /\ k # l =>
               \E m, n \in DOMAIN jobs : jobs[m].by = "check" /\ jobs[n].by = "check" /\ m # n
      BY <1>1, <1>2, <2>2, <3>1, DoneFrame DEF TipInv
    <3>3. ASSUME NEW k \in DOMAIN jobs', jobs'[k].by = "check" PROVE check'.pc = "busy"
      <4>1. PICK m \in DOMAIN jobs : m # i /\ jobs[m] = jobs'[k]
        BY <3>1, DoneStep DEF TipInv
      <4>2. jobs[m].by = "check"
        BY <3>3, <4>1
      <4>3. check.pc = "busy" /\ jobs[i].by # "check"
        BY <4>1, <4>2 DEF TipInv, Following, Awaited
      <4> QED BY <1>1, <4>3
    <3>4. Awaited'
      BY <3>2, <3>3 DEF Awaited, TipInv, Following
    <3>5. jobs' \in Seq(JobType)
      BY <3>1, DoneStep DEF TipInv
    <3> QED BY <3>2, <3>4, <3>5
  <2> QED BY <2>1, <2>2
<1>6. TipTypeOK'
  BY <1>1, <1>2, <1>4, <1>5 DEF TipInv, TipTypeOK, SyncTypeOK
<1>7. Heard'
  BY <1>1, <1>2, <1>4 DEF TipInv, Following, Heard
<1>8. Decided'
  BY <1>1, <1>2, <1>3, <1>4, <1>5 DEF TipInv, Following, Decided
<1>9. sync'.challenges = sync'.target \/ unloaded' \/ Loads'
  BY <1>1, <1>2, <1>5 DEF TipInv, Following
<1> QED BY <1>5, <1>6, <1>7, <1>8, <1>9 DEF TipInv, Following


\* The tip is read; its answer is used later.
LEMMA ReadTipKeeps ==
  ASSUME TipInv, NEW i \in DOMAIN jobs, ReadTip(i)
  PROVE  TipInv'
<1> DEFINE e == [jobs[i] EXCEPT !.pc = "apply", !.tip = node.tip]
<1>1. /\ ~Loading(jobs[i]) /\ UNCHANGED <<node, polled, sync, check, unread, unloaded>>
  BY DEF ReadTip, Loading
<1>2. jobs \in Seq(JobType) /\ jobs[i] \in JobType /\ node.tip \in Int
  BY DEF TipInv, TipTypeOK
<1>3. e \in JobType /\ e.h = jobs[i].h /\ e.by = jobs[i].by
  BY <1>2 DEF JobType
<1>4. jobs' = [jobs EXCEPT ![i] = e]
  BY DEF ReadTip
<1> HIDE DEF e
<1>5. /\ jobs' \in Seq(JobType) /\ DOMAIN jobs' = DOMAIN jobs
      /\ jobs'[i] = e /\ \A k \in DOMAIN jobs : k # i => jobs'[k] = jobs[k]
  BY <1>2, <1>3, <1>4, ReplaceKeeps
<1>6. TipTypeOK'
  BY <1>1, <1>5 DEF TipInv, TipTypeOK, SyncTypeOK
<1>7. (Decides' <=> Decides) /\ Awaited'
  <2>1. \A k \in DOMAIN jobs : jobs'[k].by = jobs[k].by /\ jobs'[k].h = jobs[k].h
    BY <1>3, <1>5
  <2> QED BY <1>1, <1>5, <2>1 DEF Decides, Awaited, TipInv, Following
<1>8. Loads => Loads'
  <2>1. SUFFICES ASSUME NEW k \in DOMAIN jobs, Loading(jobs[k]), jobs[k].h = sync.target PROVE Loads'
    BY DEF Loads
  <2>2. jobs'[k] = jobs[k]
    BY <1>1, <1>5, <2>1
  <2> QED BY <1>1, <1>5, <2>1, <2>2 DEF Loads, Loading
<1> QED BY <1>1, <1>6, <1>7, <1>8 DEF TipInv, Following, Heard, Decided

\* The tip cannot be read, or the decision is taken if no newer height has come.
LEMMA SetFullSyncKeeps ==
  ASSUME TipInv, NEW i \in DOMAIN jobs, ReadTipFails(i) \/ SetFullSync(i)
  PROVE  TipInv'
<1>1. /\ ~Loading(jobs[i]) /\ Done(i) /\ UNCHANGED <<node, polled, check, unloaded>>
  BY DEF ReadTipFails, SetFullSync, Loading
<1>2. jobs[i] \in JobType /\ jobs[i].h \in Int /\ jobs[i].tip \in Int
  BY JobStep DEF TipInv, JobType
<1>3. /\ sync'.observed = sync.observed /\ sync'.consensus = sync.consensus
      /\ sync'.verifier = sync.verifier /\ sync'.target = sync.target
      /\ sync'.challenges = sync.challenges /\ DOMAIN sync' = DOMAIN sync
      /\ sync'.fullSync \in BOOLEAN /\ unread' \in BOOLEAN
  <2>1. CASE ReadTipFails(i)
    BY <2>1 DEF ReadTipFails, TipInv, TipTypeOK, SyncTypeOK
  <2>2. CASE SetFullSync(i)
    <3>1. /\ sync' = [sync EXCEPT !.fullSync = IF jobs[i].h = sync.observed THEN jobs[i].h >= jobs[i].tip ELSE @]
          /\ unread' = IF jobs[i].h = sync.observed THEN jobs[i].tip # node.tip ELSE unread
      BY <2>2 DEF SetFullSync
    <3>2. /\ sync'.observed = sync.observed /\ sync'.consensus = sync.consensus
          /\ sync'.verifier = sync.verifier /\ sync'.target = sync.target
          /\ sync'.challenges = sync.challenges /\ DOMAIN sync' = DOMAIN sync
          /\ sync'.fullSync = IF jobs[i].h = sync.observed THEN jobs[i].h >= jobs[i].tip ELSE sync.fullSync
      BY <3>1 DEF TipInv, TipTypeOK, SyncTypeOK
    <3>3. sync.fullSync \in BOOLEAN /\ unread \in BOOLEAN
      BY DEF TipInv, TipTypeOK, SyncTypeOK
    <3>4. sync'.fullSync \in BOOLEAN /\ unread' \in BOOLEAN
      <4>1. (jobs[i].h >= jobs[i].tip) \in BOOLEAN /\ (jobs[i].tip # node.tip) \in BOOLEAN
        OBVIOUS
      <4>2. sync'.fullSync \in {jobs[i].h >= jobs[i].tip, sync.fullSync}
        BY <3>2
      <4>3. unread' \in {jobs[i].tip # node.tip, unread}
        BY <3>1
      <4> QED BY <3>3, <4>1, <4>2, <4>3, Zenon
    <3> QED BY <3>2, <3>4
  <2> QED BY <2>1, <2>2
<1>4. /\ Loads => Loads'
      /\ Decides => Decides' \/ (jobs[i].by = "poll" /\ jobs[i].h = sync.observed)
      /\ \A k, l \in DOMAIN jobs' : jobs'[k].by = "check" /\ jobs'[l].by = "check" /\ k # l =>
           \E m, n \in DOMAIN jobs : jobs[m].by = "check" /\ jobs[n].by = "check" /\ m # n
  BY <1>1, <1>3, DoneFrame DEF TipInv
<1>5. jobs' \in Seq(JobType) /\ \A k \in DOMAIN jobs' : \E m \in DOMAIN jobs : m # i /\ jobs[m] = jobs'[k]
  BY <1>1, DoneStep DEF TipInv
<1>6. Awaited'
  BY <1>1, <1>4, <1>5 DEF Awaited, TipInv, Following
<1>7. TipTypeOK'
  BY <1>1, <1>3, <1>5 DEF TipInv, TipTypeOK, SyncTypeOK
<1>8. Heard'
  BY <1>1, <1>3 DEF TipInv, Following, Heard
<1>9. sync'.challenges = sync'.target \/ unloaded' \/ Loads'
  BY <1>1, <1>3, <1>4 DEF TipInv, Following
<1>10. Decided'
  <2>1. CASE ReadTipFails(i)
    BY <2>1 DEF ReadTipFails, Decided
  <2>2. CASE SetFullSync(i) /\ jobs[i].h = sync.observed
    <3>1. sync'.fullSync = (jobs[i].h >= jobs[i].tip) /\ unread' = (jobs[i].tip # node.tip)
      BY <2>2 DEF SetFullSync, TipInv, TipTypeOK, SyncTypeOK
    <3>2. SUFFICES ASSUME ~unread' PROVE Decided'
      BY DEF Decided
    <3>3. sync'.fullSync = (sync.observed >= node.tip)
      BY <2>2, <3>1, <3>2
    <3>4. /\ sync.consensus <= node.tip + 1 /\ check.tip <= node.tip
          /\ node.tip \in Int /\ check.tip \in Int /\ sync.observed \in Int /\ sync.consensus \in Int
      BY DEF TipInv, Following, Heard, TipTypeOK, SyncTypeOK
    <3>5. CASE sync.observed >= node.tip
      <4>1. sync'.fullSync
        BY <3>3, <3>5
      <4>2. /\ sync'.consensus <= sync'.observed + 1 /\ check'.tip <= sync'.observed + 1
        BY <1>1, <1>3, <3>4, <3>5
      <4> QED BY <4>1, <4>2 DEF Decided
    <3>6. CASE ~(sync.observed >= node.tip)
      <4>1. ~sync'.fullSync /\ ~(sync'.observed >= node'.tip)
        BY <1>1, <1>3, <3>3, <3>6
      <4> QED BY <4>1 DEF Decided
    <3> QED BY <3>5, <3>6
  <2>3. CASE SetFullSync(i) /\ jobs[i].h # sync.observed
    <3>1. sync'.fullSync = sync.fullSync /\ unread' = unread
      BY <2>3 DEF SetFullSync, TipInv, TipTypeOK, SyncTypeOK
    <3> QED BY <1>1, <1>3, <1>4, <2>3, <3>1 DEF TipInv, Following, Decided
  <2> QED BY <2>1, <2>2, <2>3
<1> QED BY <1>6, <1>7, <1>8, <1>9, <1>10 DEF TipInv, Following

\* The poll reports a height: its call will load and decide.
LEMMA TriggerKeeps ==
  ASSUME TipInv, TriggerBlockUpdateListeners
  PROVE  TipInv'
<1> DEFINE e == Job("poll", node.indexed)
<1>1. /\ polled' = node.indexed /\ jobs' = Append(jobs, e)
      /\ sync' = OnBlockChange([sync EXCEPT !.observed = node.indexed], node.indexed)
      /\ UNCHANGED <<node, check, unread, unloaded>>
  BY DEF TriggerBlockUpdateListeners
<1>2. /\ node.indexed \in Int /\ node.tip \in Int /\ 2 <= node.indexed /\ node.indexed <= node.tip + 1
      /\ jobs \in Seq(JobType) /\ sync.consensus \in Int /\ sync.consensus <= node.tip + 1
  BY DEF TipInv, Following, Heard, TipTypeOK, SyncTypeOK
<1>3. e \in JobType /\ e.h = node.indexed /\ e.by = "poll" /\ e.pc = "queued"
  BY <1>2 DEF Job, JobType, Unknown
<1> HIDE DEF e
<1>4. /\ jobs' \in Seq(JobType)
      /\ \A k \in DOMAIN jobs : k \in DOMAIN jobs' /\ jobs'[k] = jobs[k]
      /\ \A k \in DOMAIN jobs' : k \in DOMAIN jobs \/ k = Len(jobs) + 1
      /\ Len(jobs) + 1 \in DOMAIN jobs' /\ jobs'[Len(jobs) + 1] = e
  BY <1>1, <1>2, <1>3, AppendKeeps
<1>5. /\ sync'.observed = node.indexed /\ sync'.verifier = node.indexed /\ sync'.target = node.indexed
      /\ sync'.consensus = (IF sync.consensus >= node.indexed THEN sync.consensus ELSE node.indexed)
      /\ sync'.challenges = sync.challenges /\ sync'.fullSync = sync.fullSync /\ DOMAIN sync' = DOMAIN sync
  BY <1>1 DEF OnBlockChange, OnBlockChangeSync, SetBlockHeight, Larger, TipInv, TipTypeOK, SyncTypeOK
<1>6. TipTypeOK'
  BY <1>1, <1>2, <1>4, <1>5, SMTT(30) DEF TipInv, TipTypeOK, SyncTypeOK
<1>7. Heard'
  BY <1>1, <1>2, <1>5 DEF TipInv, Following, Heard, TipTypeOK, Unknown
<1>8. Decides' /\ Loads'
  BY <1>3, <1>4, <1>5 DEF Decides, Loads, Loading
<1>9. Awaited'
  BY <1>1, <1>3, <1>4 DEF Awaited, TipInv, Following
<1> QED BY <1>6, <1>7, <1>8, <1>9 DEF TipInv, Following, Decided

\* verifyBlockHeight reads the tip and judges it.
LEMMA CheckTipKeeps ==
  ASSUME TipInv, CheckTip
  PROVE  TipInv'
<1>1. /\ check' = [pc |-> "judge", tip |-> node.tip] /\ check.pc = "wait"
      /\ UNCHANGED <<node, polled, sync, jobs, unread, unloaded>>
  BY DEF CheckTip
<1>2. node.tip \in Int /\ \A i \in DOMAIN jobs : jobs[i].by # "check"
  BY <1>1 DEF TipInv, TipTypeOK, Following, Awaited
<1>3. TipTypeOK' /\ check'.pc = "judge" /\ check'.tip = node.tip
  BY <1>1, <1>2 DEF TipInv, TipTypeOK, SyncTypeOK
<1>4. (Decides' <=> Decides) /\ (Loads' <=> Loads)
  BY <1>1 DEF Decides, Loads, Loading
<1>5. Heard'
  BY <1>1, <1>3 DEF TipInv, TipTypeOK, Following, Heard, Unknown
<1>6. Decided' /\ Awaited'
  BY <1>1, <1>2, <1>3, <1>4 DEF TipInv, Following, Decided, Awaited
<1> QED BY <1>1, <1>3, <1>4, <1>5, <1>6 DEF TipInv, Following

LEMMA VerifyBlockHeightKeeps ==
  ASSUME TipInv, VerifyBlockHeight
  PROVE  TipInv'
<1>1. check.pc = "judge" /\ UNCHANGED <<node, polled, unread, unloaded>>
  BY DEF VerifyBlockHeight
<1>2. /\ check \in [pc : {"wait", "judge", "busy"}, tip : Int] /\ check.tip <= node.tip /\ node.tip \in Int
      /\ sync.consensus \in Int /\ sync.observed \in Int /\ sync.observed <= sync.consensus
      /\ jobs \in Seq(JobType) /\ \A i \in DOMAIN jobs : jobs[i].by # "check"
  BY <1>1 DEF TipInv, TipTypeOK, SyncTypeOK, Following, Heard, Awaited
<1>3. CASE check.tip + 1 - sync.consensus < 2
  <2>1. check' = [check EXCEPT !.pc = "wait"] /\ UNCHANGED <<sync, jobs>>
    BY <1>2, <1>3 DEF VerifyBlockHeight
  <2>2. check' \in [pc : {"wait", "judge", "busy"}, tip : Int] /\ check'.tip = check.tip
    BY <1>2, <2>1
  <2>3. Decided'
    BY <1>1, <1>2, <1>3, <2>1, <2>2 DEF TipInv, Following, Decided, Decides
  <2> QED BY <1>1, <1>2, <2>1, <2>2, <2>3 DEF TipInv, TipTypeOK, SyncTypeOK, Following, Heard, Awaited,
             Loads, Loading
<1>4. CASE /\ ~(check.tip + 1 - sync.consensus < 2)
           /\ check' = [check EXCEPT !.pc = "wait"] /\ sync' = [sync EXCEPT !.fullSync = FALSE]
           /\ UNCHANGED jobs
  <2>1. /\ sync'.observed = sync.observed /\ sync'.consensus = sync.consensus
        /\ sync'.verifier = sync.verifier /\ sync'.target = sync.target
        /\ sync'.challenges = sync.challenges /\ DOMAIN sync' = DOMAIN sync /\ sync'.fullSync = FALSE
    BY <1>4 DEF TipInv, TipTypeOK, SyncTypeOK
  <2>2. check' \in [pc : {"wait", "judge", "busy"}, tip : Int] /\ check'.tip = check.tip
    BY <1>2, <1>4
  <2>3. Decided'
    BY <1>1, <1>2, <1>4, <2>1 DEF Decided
  <2>4. TipTypeOK'
    BY <1>1, <1>4, <2>1, <2>2 DEF TipInv, TipTypeOK, SyncTypeOK
  <2> QED BY <1>1, <1>2, <1>4, <2>1, <2>2, <2>3, <2>4 DEF TipInv, Following, Heard, Awaited, Loads, Loading
<1>5. CASE /\ ~(check.tip + 1 - sync.consensus < 2)
           /\ check' = [check EXCEPT !.pc = "busy"]
           /\ sync' = OnBlockChange([sync EXCEPT !.fullSync = FALSE], check.tip + 1)
           /\ jobs' = Append(jobs, Job("check", check.tip + 1))
  <2> DEFINE e == Job("check", check.tip + 1)
  <2>1. e \in JobType /\ e.h = check.tip + 1 /\ e.by = "check" /\ e.pc = "queued"
    BY <1>2 DEF Job, JobType, Unknown
  <2>2. jobs' = Append(jobs, e)
    BY <1>5
  <2> HIDE DEF e
  <2>3. /\ jobs' \in Seq(JobType)
        /\ \A k \in DOMAIN jobs : k \in DOMAIN jobs' /\ jobs'[k] = jobs[k]
        /\ \A k \in DOMAIN jobs' : k \in DOMAIN jobs \/ k = Len(jobs) + 1
        /\ Len(jobs) + 1 \in DOMAIN jobs' /\ jobs'[Len(jobs) + 1] = e
    BY <1>2, <2>1, <2>2, AppendKeeps
  <2>4. /\ sync'.observed = sync.observed /\ sync'.verifier = check.tip + 1 /\ sync'.target = check.tip + 1
        /\ sync'.consensus = (IF sync.consensus >= check.tip + 1 THEN sync.consensus ELSE check.tip + 1)
        /\ sync'.challenges = sync.challenges /\ sync'.fullSync = FALSE /\ DOMAIN sync' = DOMAIN sync
    BY <1>5 DEF OnBlockChange, OnBlockChangeSync, SetBlockHeight, Larger, TipInv, TipTypeOK, SyncTypeOK
  <2>5. check' \in [pc : {"wait", "judge", "busy"}, tip : Int] /\ check'.tip = check.tip /\ check'.pc = "busy"
    BY <1>2, <1>5
  <2>6. TipTypeOK'
    <3>1. sync'.consensus \in Int /\ check.tip + 1 \in Int
      BY <1>2, <2>4
    <3>2. SyncTypeOK'
      <4>1. sync'.fullSync \in BOOLEAN
        BY <2>4
      <4>2. DOMAIN sync' = DOMAIN sync /\ sync'.observed \in Int /\ sync'.challenges \in Int
        BY <2>4 DEF TipInv, TipTypeOK, SyncTypeOK
      <4> QED BY <2>4, <3>1, <4>1, <4>2 DEF TipInv, TipTypeOK, SyncTypeOK
    <3> QED BY <1>1, <2>3, <2>5, <3>2 DEF TipInv, TipTypeOK
  <2>7. Heard'
    <3>1. check.tip + 1 # Unknown /\ polled <= node.tip + 1 /\ sync.observed = polled /\ sync.consensus <= node.tip + 1
      BY <1>2 DEF TipInv, Following, Heard, Unknown
    <3>2. sync'.consensus <= node.tip + 1 /\ sync.observed <= sync'.consensus
      BY <1>2, <2>4, <3>1
    <3> QED BY <1>1, <1>2, <2>4, <2>5, <3>1, <3>2 DEF TipInv, Following, Heard
  <2>8. Decided'
    BY <1>1, <1>2, <1>5, <2>4 DEF Decided
  <2>9. Awaited' /\ Loads'
    BY <1>2, <2>1, <2>3, <2>4, <2>5 DEF Awaited, Loads, Loading
  <2> QED BY <2>6, <2>7, <2>8, <2>9 DEF TipInv, Following
<1> QED BY <1>1, <1>2, <1>3, <1>4, <1>5 DEF VerifyBlockHeight


\* The fields of the node after a height was set.
LEMMA MovedFields ==
  ASSUME NEW n \in [tip : Int, stored : Int, indexed : Int], NEW s \in Int, NEW h \in Int,
         NEW m, m = [n EXCEPT !.stored = s, !.indexed = h + 1]
  PROVE  /\ m \in [tip : Int, stored : Int, indexed : Int]
         /\ m.tip = n.tip /\ m.stored = s /\ m.indexed = h + 1
<1> DEFINE k == [n EXCEPT !.stored = s]
<1>1. m = [k EXCEPT !.indexed = h + 1] /\ h + 1 \in Int
  OBVIOUS
<1>2. k \in [tip : Int, stored : Int, indexed : Int] /\ k.stored = s /\ k.tip = n.tip
  OBVIOUS
<1> HIDE DEF k
<1> QED BY <1>1, <1>2

\* Bitcoin Core's chain grows, the indexer follows it or reverts blocks.
LEMMA NodeMovesKeep ==
  ASSUME TipInv, TipGrows \/ IndexerMoves
  PROVE  TipInv'
<1>1. /\ node \in [tip : Int, stored : Int, indexed : Int] /\ 0 <= node.stored /\ node.stored <= node.tip
      /\ 2 <= node.indexed /\ node.indexed <= node.tip + 1
      /\ node.stored + 1 <= node.indexed /\ node.indexed <= node.stored + 2
      /\ UNCHANGED <<polled, sync, jobs, check, unread, unloaded>>
  BY DEF TipInv, TipTypeOK, TipGrows, IndexerMoves
<1>2. /\ node' \in [tip : Int, stored : Int, indexed : Int] /\ 0 <= node'.stored /\ node'.stored <= node'.tip
      /\ 2 <= node'.indexed /\ node'.indexed <= node'.tip + 1
      /\ node'.stored + 1 <= node'.indexed /\ node'.indexed <= node'.stored + 2
      /\ node.tip <= node'.tip
  <2>1. CASE TipGrows
    BY <1>1, <2>1 DEF TipGrows
  <2>2. CASE IndexerMoves
    <3>1. PICK h \in 1 .. node.tip : SetNewHeight(h, h) \/ SetNewHeight(h, h - 1)
      BY <1>1, <2>2 DEF IndexerMoves
    <3>2. PICK s \in {h - 1, h} : node' = [node EXCEPT !.stored = s, !.indexed = h + 1]
      BY <3>1, Zenon DEF SetNewHeight
    <3>3. node.tip \in Int /\ h \in Int /\ s \in Int
      BY <1>1
    <3>4. /\ node' \in [tip : Int, stored : Int, indexed : Int]
          /\ node'.tip = node.tip /\ node'.stored = s /\ node'.indexed = h + 1
      BY <1>1, <3>2, <3>3, MovedFields
    <3>5. /\ 0 <= s /\ s <= node.tip /\ 2 <= h + 1 /\ h + 1 <= node.tip + 1
          /\ s + 1 <= h + 1 /\ h + 1 <= s + 2
      BY <1>1, <3>3
    <3> QED BY <1>1, <3>4, <3>5
  <2> QED BY <2>1, <2>2
<1>3. (Decides' <=> Decides) /\ (Loads' <=> Loads)
  BY <1>1 DEF Decides, Loads, Loading
<1>4. TipTypeOK'
  BY <1>1, <1>2 DEF TipInv, TipTypeOK, SyncTypeOK
<1>5. Heard' /\ Decided'
  BY <1>1, <1>2, <1>3, SMTT(40) DEF TipInv, TipTypeOK, SyncTypeOK, Following, Heard, Decided
<1> QED BY <1>1, <1>3, <1>4, <1>5 DEF TipInv, Following, Awaited

LEMMA TipNextKeeps == TipInv /\ TipNext => TipInv'
<1>1. SUFFICES ASSUME TipInv, TipNext PROVE TipInv'
  OBVIOUS
<1>2. MaxRetries \in Nat
  BY MempoolTipAssumption
<1>3. CASE TriggerBlockUpdateListeners \/ CheckTip \/ VerifyBlockHeight \/ TipGrows \/ IndexerMoves
  BY <1>1, <1>3, TriggerKeeps, CheckTipKeeps, VerifyBlockHeightKeeps, NodeMovesKeep
<1>4. ASSUME NEW i \in DOMAIN jobs,
             \/ StartLoading(i) \/ FetchAndApplyChallenges(i) \/ FetchFails(i) \/ AbortableSleep(i)
             \/ RefreshFees(i) \/ ReadTip(i) \/ ReadTipFails(i) \/ SetFullSync(i)
      PROVE  TipInv'
  BY <1>1, <1>2, <1>4, StartLoadingKeeps, FetchKeeps, FetchFailsKeeps, RefreshFeesKeeps, ReadTipKeeps,
     SetFullSyncKeeps
<1> QED BY <1>1, <1>3, <1>4 DEF TipNext

\* A thread that has just started knows nothing and takes no broadcasts.
LEMMA TipRestartKeeps == TipInv /\ TipRestart => TipInv'
<1>1. SUFFICES ASSUME TipInv, TipRestart PROVE TipInv'
  OBVIOUS
<1>2. /\ polled' = -1 /\ jobs' = << >> /\ check'.tip = -1 /\ unread' = FALSE /\ unloaded' = FALSE
      /\ check' \in [pc : {"wait", "judge", "busy"}, tip : Int]
      /\ sync'.observed = -1 /\ sync'.consensus = 0 /\ sync'.verifier = 0 /\ sync'.target = -1
      /\ sync'.challenges = -1 /\ sync'.fullSync = FALSE
      /\ DOMAIN sync' = {"observed", "consensus", "verifier", "target", "challenges", "fullSync", "fees"}
  BY <1>1 DEF TipRestart, ThreadStart, Unknown
<1>3. /\ node' \in [tip : Int, stored : Int, indexed : Int] /\ 0 <= node'.stored /\ node'.stored <= node'.tip
      /\ 2 <= node'.indexed /\ node'.indexed <= node'.tip + 1
      /\ node'.stored + 1 <= node'.indexed /\ node'.indexed <= node'.stored + 2
  BY <1>1, SMTT(30) DEF TipInv, TipTypeOK, TipRestart
<1>4. TipTypeOK'
  <2>1. sync'.fullSync \in BOOLEAN /\ unread' \in BOOLEAN /\ unloaded' \in BOOLEAN
    BY <1>2
  <2>2. SyncTypeOK'
    BY <1>2, <2>1 DEF SyncTypeOK
  <2> QED BY <1>2, <1>3, <2>1, <2>2 DEF TipTypeOK
<1>5. Heard' /\ Decided'
  BY <1>2, <1>3 DEF Heard, Decided, Unknown
<1>6. Awaited'
  BY <1>2 DEF Awaited
<1> QED BY <1>2, <1>4, <1>5, <1>6 DEF TipInv, Following

LEMMA TipInitHolds == TipInit => TipInv
<1>1. SUFFICES ASSUME TipInit PROVE TipInv
  OBVIOUS
<1>2. /\ StartHeight \in Nat /\ 1 <= StartHeight
      /\ node = [tip |-> StartHeight, stored |-> StartHeight, indexed |-> StartHeight + 1]
      /\ polled = StartHeight + 1 /\ jobs = << >> /\ check = [pc |-> "wait", tip |-> StartHeight]
      /\ unread = FALSE /\ unloaded = FALSE
  BY <1>1, MempoolTipAssumption DEF TipInit
<1>3. /\ sync.observed = StartHeight + 1 /\ sync.consensus = StartHeight + 1
      /\ sync.verifier = StartHeight + 1 /\ sync.target = StartHeight + 1
      /\ sync.challenges = StartHeight + 1 /\ sync.fullSync = TRUE
      /\ DOMAIN sync = {"observed", "consensus", "verifier", "target", "challenges", "fullSync", "fees"}
  BY <1>1, <1>2 DEF TipInit
<1>4. TipTypeOK
  <2>1. sync.fullSync \in BOOLEAN /\ unread \in BOOLEAN /\ unloaded \in BOOLEAN
    BY <1>2, <1>3
  <2>2. SyncTypeOK
    BY <1>2, <1>3, <2>1 DEF SyncTypeOK
  <2> QED BY <1>2, <2>1, <2>2 DEF TipTypeOK
<1>5. Heard /\ Decided /\ Awaited
  BY <1>2, <1>3 DEF Heard, Decided, Awaited, Unknown
<1> QED BY <1>3, <1>4, <1>5 DEF TipInv, Following

\* The broadcasts and the sweep leave the tip alone.
LEMMA TipFrame ==
  ASSUME [Next]_vars
  PROVE  TipNext \/ UNCHANGED tipVars \/ TipRestart
<1>1. CASE UNCHANGED vars
  BY <1>1 DEF vars
<1>2. CASE TipNext /\ UNCHANGED <<poolVars, history>>
  BY <1>2
<1>3. ASSUME NEW r \in Slots, RequestNext(r) PROVE UNCHANGED tipVars
  <2>1. CASE \E t \in Txs : BroadcastTransactionRoute(r, t) \/ OnBroadcastTransaction(r, t)
    BY <2>1 DEF BroadcastTransactionRoute, OnBroadcastTransaction
  <2>2. CASE \E txs \in Packages, pkg \in BOOLEAN : BroadcastTransactionPackageRoute(r, txs, pkg)
    BY <2>2 DEF BroadcastTransactionPackageRoute
  <2>3. CASE HasTransactionInMempool(r) \/ OnTransactionReceived(r) \/ HasTransactionById(r) \/ Verify(r)
             \/ TestMempoolAccept(r)
    BY <2>3 DEF HasTransactionInMempool, OnTransactionReceived, HasTransactionById, Verify,
       TestMempoolAccept, NoEvents
  <2>4. CASE SubmitPackage(r) \/ SendRawTransaction(r) \/ StoreTransaction(r) \/ StoreTransactionFails(r)
    BY <2>4 DEF SubmitPackage, SendRawTransaction, StoreTransaction, StoreTransactionFails, NoEvents
  <2>5. CASE CleanupEvictedTransactions(r) \/ DeleteTransactionsById(r) \/ CleanupFails(r) \/ Spread(r)
    BY <2>5 DEF CleanupEvictedTransactions, DeleteTransactionsById, CleanupFails, Spread, NoEvents
  <2> QED BY <1>3, <2>1, <2>2, <2>3, <2>4, <2>5 DEF RequestNext
<1>4. CASE ManagerNext
  BY <1>4 DEF ManagerNext, ManagerWatches, RestoreMempoolBackup, GenerateMempoolPopulation,
     GetAllTransactionIncluded, FetchAllUnknownTransactions, StoreTransactions, CleanUpDB,
     GenerateMempoolBackup, CleanUpDBFails, StartFetchingMempool, ManagerOnly, NoEvents
<1>5. CASE CoreChanges \/ Restart
  BY <1>5 DEF CoreChanges, Restart
<1> QED BY <1>1, <1>2, <1>3, <1>4, <1>5 DEF Next

LEMMA TipStep == TipInv /\ [Next]_vars => TipInv'
<1>1. SUFFICES ASSUME TipInv, UNCHANGED tipVars PROVE TipInv'
  BY TipFrame, TipNextKeeps, TipRestartKeeps
<1>2. UNCHANGED <<node, polled, sync, jobs, check, unread, unloaded>>
  BY <1>1 DEF tipVars
<1>3. (Decides' <=> Decides) /\ (Loads' <=> Loads)
  BY <1>2 DEF Decides, Loads, Loading
<1> QED BY <1>1, <1>2, <1>3 DEF TipInv, TipTypeOK, SyncTypeOK, Following, Heard, Decided, Awaited

\* Overlapping calls of onBlockChange leave the mempool thread as the newest
\* one would: when all are done, the solutions are those of the height, and a
\* node takes broadcasts if it works at the tip or above, and only if it has
\* stored all blocks but the last two, or three while a reverted one is missing.
THEOREM MempoolSyncSettles == Spec => []SyncSettled
<1>1. Init => TipInv
  BY TipInitHolds DEF Init
<1>2. TipInv => SyncSettled
  <2>1. SUFFICES ASSUME TipInv, TipQuiet
                 PROVE  /\ sync.challenges = sync.verifier \/ unloaded
                        /\ node.indexed >= node.tip => sync.fullSync \/ unread
                        /\ sync.fullSync => node.stored >= node.tip - (IF Reverted THEN 3 ELSE 2) \/ unread
    BY DEF SyncSettled
  <2>2. /\ ~Decides /\ ~Loads
    BY <2>1 DEF TipQuiet, Decides, Loads
  <2>3. /\ sync.observed = node.indexed /\ polled = node.indexed /\ check.pc = "wait" /\ check.tip = node.tip
        /\ node.indexed \in Int /\ node.tip \in Int /\ 2 <= node.indexed
    BY <2>1 DEF TipQuiet, TipInv, TipTypeOK, Following, Heard
  <2>4. sync.verifier = sync.target
    BY <2>1, <2>3 DEF TipInv, Following, Heard, Unknown
  <2>5. sync.challenges = sync.verifier \/ unloaded
    BY <2>1, <2>2, <2>4 DEF TipInv, Following
  <2>6. ASSUME ~unread PROVE (node.indexed >= node.tip => sync.fullSync) /\ (sync.fullSync => node.indexed >= node.tip - 1)
    BY <2>1, <2>2, <2>3, <2>6 DEF TipInv, Following, Decided
  <2>7. node.indexed >= node.tip - 1 => node.stored >= node.tip - (IF Reverted THEN 3 ELSE 2)
    BY <2>1 DEF TipInv, TipTypeOK, Reverted
  <2> QED BY <2>5, <2>6, <2>7
<1> QED BY <1>1, <1>2, TipStep, PTL DEF Spec


-----------------------------------------------------------------------------
(* The sweep, step by step *)

\* What the broadcasts and Bitcoin Core do between two steps of the sweep.
LEMMA SweptFrame ==
  ASSUME Swept, manager' = manager,
         moved => moved',
         ~moved' => core' = core /\ db' = db,
         \A t \in manager.cache : t \in db \/ t \in excused => t \in db' \/ t \in excused'
  PROVE  Swept'
<1>1. ~moved' => ~moved
  OBVIOUS
<1>2. \A t \in manager'.cache : t \in db' \/ t \in excused' \/ (Storing' /\ t \in manager'.fresh)
  BY DEF Swept, Storing
<1>3. ~moved' => /\ core' = manager'.list
                 /\ manager'.ids # {} => db' \ manager'.list \subseteq manager'.ids
                 /\ manager'.pc = "backup" /\ manager'.list = {} => db' = {}
                 /\ manager'.pc = "wait" => db' \subseteq manager'.list
  BY <1>1 DEF Swept
<1>4. manager'.pc \in {"off", "list"} => moved'
  BY DEF Swept
<1> QED BY <1>2, <1>3, <1>4 DEF Swept, Storing

\* The fields of the manager after a step that sets some of them.
LEMMA ManagerFields ==
  ASSUME Swept
  PROVE  DOMAIN manager = {"pc", "list", "fresh", "ids", "cache", "height"}
  BY DEF Swept

LEMMA SweepStarts ==
  ASSUME Swept, ManagerWatches \/ RestoreMempoolBackup \/ StartFetchingMempool
  PROVE  Swept'
<1>1. CASE ManagerWatches
  <2>1. /\ manager.pc = "off" /\ manager'.pc = "off" /\ manager'.list = manager.list
        /\ manager'.fresh = manager.fresh /\ manager'.ids = manager.ids /\ manager'.cache = manager.cache
        /\ DOMAIN manager' = DOMAIN manager /\ UNCHANGED <<core, db, moved, excused>>
    BY <1>1, ManagerFields DEF ManagerWatches, Sweep, ManagerOnly
  <2> QED BY <2>1 DEF Swept, Storing
<1>2. CASE RestoreMempoolBackup
  <2>1. /\ manager.pc = "off" /\ manager'.pc = "list" /\ manager'.list = manager.list
        /\ manager'.fresh = manager.fresh /\ manager'.ids = manager.ids /\ manager'.cache = backup
        /\ DOMAIN manager' = DOMAIN manager /\ UNCHANGED <<core, db, moved>>
        /\ excused' = excused \cup (backup \ db)
    BY <1>2, ManagerFields DEF RestoreMempoolBackup, MayTrackMempool, Sweep, ManagerOnly
  <2>2. moved /\ moved'
    BY <2>1 DEF Swept
  <2>3. manager'.pc \in ManagerPcs
    BY <2>1 DEF ManagerPcs
  <2> QED BY <2>1, <2>2, <2>3 DEF Swept, Storing
<1>3. CASE StartFetchingMempool
  <2>1. /\ manager.pc = "wait" /\ manager'.pc = "list" /\ manager'.list = manager.list /\ moved
        /\ manager'.fresh = {} /\ manager'.ids = manager.ids /\ manager'.cache = manager.cache
        /\ DOMAIN manager' = DOMAIN manager /\ UNCHANGED <<core, db, moved, excused>>
    BY <1>3, ManagerFields DEF StartFetchingMempool, Sweep, ManagerOnly
  <2>2. moved /\ moved'
    BY <2>1
  <2>3. manager'.pc \in ManagerPcs
    BY <2>1 DEF ManagerPcs
  <2> QED BY <2>1, <2>2, <2>3 DEF Swept, Storing
<1> QED BY <1>1, <1>2, <1>3

\* The cache becomes the list before anything of it is stored.
LEMMA ListKeeps ==
  ASSUME Swept, GenerateMempoolPopulation
  PROVE  Swept'
<1>1. /\ manager.pc = "list" /\ manager.ids = {}
      /\ manager'.list = core /\ manager'.cache = core /\ manager'.fresh = core \ manager.cache
      /\ manager'.ids = {} /\ DOMAIN manager' = DOMAIN manager
      /\ manager'.pc = IF core \subseteq manager.cache THEN "clean" ELSE "known"
      /\ moved' = FALSE /\ UNCHANGED <<core, db, excused>>
  BY ManagerFields DEF GenerateMempoolPopulation, Sweep, ManagerOnly, Swept
<1>2. \A t \in manager.cache : t \in db \/ t \in excused
  BY <1>1 DEF Swept, Storing
<1>3. CASE core \subseteq manager.cache
  <2>1. manager'.pc = "clean" /\ manager'.pc \in ManagerPcs /\ ~Storing'
    BY <1>1, <1>3 DEF ManagerPcs, Storing
  <2> QED BY <1>1, <1>2, <1>3, <2>1 DEF Swept
<1>4. CASE ~(core \subseteq manager.cache)
  <2>1. manager'.pc = "known" /\ manager'.pc \in ManagerPcs /\ Storing' /\ core # {}
    BY <1>1, <1>4 DEF ManagerPcs, Storing
  <2> QED BY <1>1, <1>2, <2>1 DEF Swept
<1> QED BY <1>3, <1>4

\* What is missing is looked up, fetched and stored, or is excused.
LEMMA StoringKeeps ==
  ASSUME Swept, GetAllTransactionIncluded \/ FetchAllUnknownTransactions \/ StoreTransactions
  PROVE  Swept'
<1>1. CASE GetAllTransactionIncluded
  <2>1. /\ manager.pc = "known" /\ manager'.list = manager.list /\ manager'.cache = manager.cache
        /\ manager'.fresh = manager.fresh \ db /\ manager'.ids = manager.ids
        /\ DOMAIN manager' = DOMAIN manager
        /\ manager'.pc = IF manager.fresh \subseteq db THEN "clean" ELSE "fetch"
        /\ UNCHANGED <<core, db, moved, excused>>
    BY <1>1, ManagerFields DEF GetAllTransactionIncluded, Sweep, ManagerOnly
  <2>2. manager'.pc \in ManagerPcs /\ (Storing' => manager'.pc = "fetch") /\ Storing
        /\ manager'.pc \in {"clean", "fetch"}
    BY <2>1 DEF ManagerPcs, Storing
  <2>3. \A t \in manager'.cache : t \in db' \/ t \in excused' \/ (Storing' /\ t \in manager'.fresh)
    BY <2>1, <2>2 DEF Swept, Storing
  <2> QED BY <2>1, <2>2, <2>3 DEF Swept
<1>2. CASE FetchAllUnknownTransactions
  <2>1. /\ manager.pc = "fetch" /\ manager'.list = manager.list /\ manager'.cache = manager.cache
        /\ manager'.ids = manager.ids /\ DOMAIN manager' = DOMAIN manager
        /\ UNCHANGED <<core, db, moved>>
        /\ \/ /\ manager'.fresh = manager.fresh \cap core
              /\ manager'.pc = IF manager.fresh \cap core = {} THEN "clean" ELSE "store"
              /\ excused' = excused \cup (manager.fresh \ (manager.fresh \cap core))
           \/ /\ manager'.fresh = manager.fresh /\ manager'.pc = "backup"
              /\ excused' = excused \cup manager.fresh
    BY <1>2, ManagerFields DEF FetchAllUnknownTransactions, Sweep
  <2>2. manager'.pc \in ManagerPcs /\ manager'.pc \in {"clean", "store", "backup"} /\ Storing
    BY <2>1 DEF ManagerPcs, Storing
  <2>3. \A t \in manager'.cache : t \in db' \/ t \in excused' \/ (Storing' /\ t \in manager'.fresh)
    BY <2>1, <2>2 DEF Swept, Storing
  <2>4. manager'.list # {} /\ manager'.fresh \subseteq manager'.list
    BY <2>1, <2>2 DEF Swept
  <2> QED BY <2>1, <2>2, <2>3, <2>4 DEF Swept
<1>3. CASE StoreTransactions
  <2>1. /\ manager.pc = "store" /\ manager'.list = manager.list /\ manager'.cache = manager.cache
        /\ manager'.ids = manager.ids /\ DOMAIN manager' = DOMAIN manager
        /\ manager'.pc = "backup" /\ UNCHANGED <<core, moved>>
    BY <1>3, ManagerFields DEF StoreTransactions, Sweep
  <2>2. PICK stored : /\ stored \subseteq manager.fresh /\ db' = db \cup stored
                      /\ excused' = (excused \ stored) \cup (manager.fresh \ stored)
    BY <1>3 DEF StoreTransactions
  <2>3. manager'.pc \in ManagerPcs /\ Storing
    BY <2>1 DEF ManagerPcs, Storing
  <2>4. \A t \in manager'.cache : t \in db' \/ t \in excused'
    BY <2>1, <2>2, <2>3 DEF Swept
  <2>5. manager'.list # {}
    BY <2>1, <2>3 DEF Swept
  <2> QED BY <2>1, <2>3, <2>4, <2>5 DEF Swept, Storing
<1> QED BY <1>1, <1>2, <1>3

\* cleanUpDB deletes nothing that is in the list.
LEMMA CleanUpKeeps ==
  ASSUME Swept, NEW pc \in {"clean", "cleanAgain"}, NEW next \in {"backup", "wait"}, CleanUpDB(pc, next)
  PROVE  Swept'
<1>1. /\ manager.pc = pc /\ manager'.list = manager.list /\ manager'.cache = manager.cache
      /\ manager'.fresh = manager.fresh /\ DOMAIN manager' = DOMAIN manager
      /\ UNCHANGED <<core, moved, excused>> /\ manager.cache = manager.list
  BY ManagerFields DEF CleanUpDB, Sweep, ManagerOnly, Swept
<1>2. \A t \in manager.cache : t \in db \/ t \in excused
  BY <1>1 DEF Swept, Storing
<1>3. CASE /\ manager.ids = {} /\ db \ manager.list # {}
           /\ manager' = [manager EXCEPT !.ids = db \ manager.list] /\ UNCHANGED db
  <2>1. manager'.ids = db \ manager.list /\ manager'.pc = pc
    BY <1>1, <1>3, ManagerFields
  <2> QED BY <1>1, <1>2, <1>3, <2>1 DEF Swept, Storing, ManagerPcs
<1>4. CASE /\ manager.ids = {} /\ db \subseteq manager.list
           /\ manager' = [manager EXCEPT !.pc = next] /\ UNCHANGED db
  <2>1. manager'.ids = {} /\ manager'.pc = next /\ ~Storing' /\ next \in ManagerPcs
    BY <1>1, <1>4, ManagerFields DEF Storing, ManagerPcs
  <2>2. manager.list = {} => db = {}
    BY <1>4
  <2> QED BY <1>1, <1>2, <1>4, <2>1, <2>2 DEF Swept
<1>5. CASE /\ manager.ids # {} /\ db' = db \ manager.ids
           /\ manager' = [manager EXCEPT !.pc = next, !.ids = {}]
  <2>1. manager'.ids = {} /\ manager'.pc = next /\ ~Storing' /\ next \in ManagerPcs
    BY <1>1, <1>5, ManagerFields DEF Storing, ManagerPcs
  <2>2. \A t \in manager.cache : t \in db' \/ t \in excused'
    BY <1>1, <1>2, <1>5 DEF Swept
  <2>3. ~moved => db' \subseteq manager.list
    BY <1>5 DEF Swept
  <2>4. ~moved /\ manager.list = {} => db' = {}
    BY <2>3
  <2> QED BY <1>1, <2>1, <2>2, <2>3, <2>4 DEF Swept
<1> QED BY <1>3, <1>4, <1>5 DEF CleanUpDB

LEMMA SweepEnds ==
  ASSUME Swept, GenerateMempoolBackup \/ CleanUpDBFails
  PROVE  Swept'
<1>1. CASE GenerateMempoolBackup
  <2>1. /\ manager.pc = "backup" /\ manager'.list = manager.list /\ manager'.cache = manager.cache
        /\ manager'.fresh = manager.fresh /\ manager'.ids = manager.ids /\ DOMAIN manager' = DOMAIN manager
        /\ manager'.pc = IF manager.list = {} THEN "wait" ELSE "cleanAgain"
        /\ UNCHANGED <<core, db, moved, excused>>
    BY <1>1, ManagerFields DEF GenerateMempoolBackup, Sweep, ManagerOnly
  <2>2. manager'.pc \in ManagerPcs /\ manager'.pc \in {"wait", "cleanAgain"} /\ ~Storing /\ ~Storing'
    BY <2>1 DEF ManagerPcs, Storing
  <2>3. manager.ids = {}
    BY <2>1 DEF Swept
  <2> QED BY <2>1, <2>2, <2>3 DEF Swept
<1>2. CASE CleanUpDBFails
  <2>1. /\ manager.pc = "cleanAgain" /\ manager'.list = manager.list /\ manager'.cache = manager.cache
        /\ manager'.fresh = manager.fresh /\ manager'.ids = {} /\ DOMAIN manager' = DOMAIN manager
        /\ manager'.pc = "dead" /\ UNCHANGED <<core, db, moved, excused>>
    BY <1>2, ManagerFields DEF CleanUpDBFails, history
  <2>2. manager'.pc \in ManagerPcs /\ ~Storing /\ ~Storing'
    BY <2>1 DEF ManagerPcs, Storing
  <2> QED BY <2>1, <2>2 DEF Swept
<1> QED BY <1>1, <1>2


\* A broadcast stores or deletes, and Bitcoin Core takes what it is sent.
LEMMA RequestSweeps ==
  ASSUME Swept, NEW r \in Slots, RequestNext(r)
  PROVE  Swept'
<1>1. CASE UNCHANGED <<core, db, manager, moved, excused>>
  BY <1>1, SweptFrame
<1>2. CASE StoreTransaction(r)
  <2>1. /\ db' = db \cup {Tx(r)} /\ excused' = excused \ {Tx(r)} /\ moved' = TRUE /\ manager' = manager
    BY <1>2 DEF StoreTransaction
  <2> QED BY <2>1, SweptFrame
<1>3. CASE DeleteTransactionsById(r)
  <2>1. /\ db' = db \ reqs[r].ids /\ moved' = TRUE /\ manager' = manager
        /\ excused' = excused \cup (reqs[r].ids \cap manager.cache)
    BY <1>3 DEF DeleteTransactionsById
  <2> QED BY <2>1, SweptFrame
<1>4. CASE SubmitPackage(r) \/ SendRawTransaction(r)
  <2>1. /\ UNCHANGED <<db, known, relayed, notified, manager, backup, fromPeers, excused>>
        /\ \/ moved' = TRUE
           \/ UNCHANGED <<core, moved, taken, left, unspread>>
           \/ moved' = (moved \/ core' # core)
    BY <1>4, Zenon DEF SubmitPackage, SendRawTransaction
  <2>2. UNCHANGED <<db, manager, excused>>
    BY <2>1
  <2>3. CASE moved' = TRUE
    BY <2>2, <2>3, SweptFrame
  <2>4. CASE UNCHANGED <<core, moved, taken, left, unspread>>
    BY <2>2, <2>4, SweptFrame
  <2>5. CASE moved' = (moved \/ core' # core)
    <3>1. (moved => moved') /\ (~moved' => core' = core)
      BY <2>5, Zenon
    <3> QED BY <2>2, <3>1, SweptFrame
  <2> QED BY <2>1, <2>3, <2>4, <2>5
<1>5. CASE \E t \in Txs : BroadcastTransactionRoute(r, t) \/ OnBroadcastTransaction(r, t)
  BY <1>1, <1>5 DEF BroadcastTransactionRoute, OnBroadcastTransaction, history
<1>6. CASE \E txs \in Packages, pkg \in BOOLEAN : BroadcastTransactionPackageRoute(r, txs, pkg)
  BY <1>1, <1>6 DEF BroadcastTransactionPackageRoute, history
<1>7. CASE HasTransactionInMempool(r) \/ OnTransactionReceived(r) \/ HasTransactionById(r) \/ Verify(r)
           \/ TestMempoolAccept(r)
  BY <1>1, <1>7 DEF HasTransactionInMempool, OnTransactionReceived, HasTransactionById, Verify,
     TestMempoolAccept, history
<1>8. CASE StoreTransactionFails(r) \/ CleanupEvictedTransactions(r) \/ CleanupFails(r) \/ Spread(r)
  BY <1>1, <1>8 DEF StoreTransactionFails, CleanupEvictedTransactions, CleanupFails, Spread, history
<1> QED BY <1>2, <1>3, <1>4, <1>5, <1>6, <1>7, <1>8 DEF RequestNext

LEMMA SweptStep == Swept /\ [Next]_vars => Swept'
<1>1. SUFFICES ASSUME Swept, [Next]_vars PROVE Swept'
  OBVIOUS
<1>2. CASE UNCHANGED vars \/ (TipNext /\ UNCHANGED <<poolVars, history>>)
  <2>1. UNCHANGED <<core, db, manager, moved, excused>>
    BY <1>2 DEF vars, poolVars, history
  <2> QED BY <1>1, <2>1, SweptFrame
<1>3. CASE \E r \in Slots : RequestNext(r)
  BY <1>1, <1>3, RequestSweeps
<1>4. CASE ManagerNext
  BY <1>1, <1>4, SweepStarts, ListKeeps, StoringKeeps, CleanUpKeeps, SweepEnds DEF ManagerNext
<1>5. CASE CoreChanges
  <2>1. moved' = TRUE /\ UNCHANGED <<db, manager, excused>>
    BY <1>5 DEF CoreChanges
  <2> QED BY <1>1, <2>1, SweptFrame
<1>6. CASE Restart
  <2>1. /\ manager' = ManagerStart(0) /\ moved' = TRUE
    BY <1>6 DEF Restart
  <2>2. /\ manager'.pc = "off" /\ manager'.ids = {} /\ manager'.list = {} /\ manager'.cache = {}
        /\ DOMAIN manager' = {"pc", "list", "fresh", "ids", "cache", "height"}
    BY <2>1 DEF ManagerStart
  <2> QED BY <2>1, <2>2 DEF Swept, Storing, ManagerPcs
<1> QED BY <1>1, <1>2, <1>3, <1>4, <1>5, <1>6 DEF Next

\* When a round of the sweep ends and nothing has moved since its list, the
\* collection is Bitcoin Core's mempool but for what is excused, whatever
\* broadcasts, failures and restarts came in between.
THEOREM PoolIsExplained == Spec => []PoolExplained
<1>1. Init => Swept
  <2>1. SUFFICES ASSUME Init PROVE Swept
    OBVIOUS
  <2>2. manager = [pc |-> "wait", list |-> StartPool, fresh |-> {}, ids |-> {}, cache |-> StartPool,
                   height |-> StartHeight + 1]
    BY <2>1 DEF Init, ManagerStart
  <2>3. core = StartPool /\ db = StartPool
    BY <2>1 DEF Init
  <2> QED BY <2>2, <2>3 DEF Swept, Storing, ManagerPcs
<1>2. Swept => PoolExplained
  BY DEF Swept, PoolExplained, Sweep, Storing
<1> QED BY <1>1, <1>2, SweptStep, PTL DEF Spec


-----------------------------------------------------------------------------
(* The broadcasts, step by step *)

Early == {"idle", "lookup", "gate", "exists", "verify", "test", "submit"}

LEMMA IdleCarries == RequestOK(Idle) /\ Carried(Idle) = {}
<1>1. Idle \in Request(Idle.ids)
  BY DEF Idle, Request
<1> QED BY <1>1 DEF Idle, RequestOK, Carried

LEMMA EarlyCarries ==
  ASSUME NEW q, RequestOK(q), q.pc \in Early
  PROVE  Carried(q) = {}
  BY DEF RequestOK, Carried, Early

\* A step of one broadcast: what it carried it still carries, or has spread or lost.
LEMMA CarryStep ==
  ASSUME BroadcastsOK, NEW r \in Slots, NEW q, RequestOK(q), reqs' = [reqs EXCEPT ![r] = q],
         DOMAIN taken' = {"api", "peer"},
         \A t \in taken'.api \cup taken'.peer :
            t \in taken.api \cup taken.peer \/ t \in Carried(q) \/ t \in unspread',
         \A t \in taken'.api :
            t \in taken.api \/ (q.src # "peer" /\ t \in Carried(q)) \/ t \in unspread',
         notified \subseteq notified', unspread \subseteq unspread',
         relayed \subseteq relayed', fromPeers \subseteq fromPeers',
         known' \subseteq relayed' \cup fromPeers',
         \A t \in Carried(reqs[r]) :
            \/ t \in Carried(q) /\ q.src = reqs[r].src
            \/ t \in unspread'
            \/ t \in notified' /\ (reqs[r].src # "peer" => t \in relayed' \cup fromPeers')
  PROVE  BroadcastsOK'
<1>1. /\ reqs = [s \in Slots |-> reqs[s]] /\ q \in Request(q.ids)
      /\ reqs'[r] = q /\ \A s \in Slots : s # r => reqs'[s] = reqs[s]
  BY DEF BroadcastsOK, RequestOK
<1>2. reqs' = [s \in Slots |-> reqs'[s]] /\ \A s \in Slots : RequestOK(reqs'[s])
  BY <1>1 DEF BroadcastsOK
<1>3. ASSUME NEW t \in taken'.api \cup taken'.peer
      PROVE  t \in notified' \cup unspread' \/ \E s \in Slots : t \in Carried(reqs'[s])
  <2>1. CASE t \in taken.api \cup taken.peer
    <3>1. t \in notified \cup unspread \/ \E s \in Slots : t \in Carried(reqs[s])
      BY <2>1 DEF BroadcastsOK, Accounted
    <3>2. ASSUME NEW s \in Slots, t \in Carried(reqs[s])
          PROVE  t \in notified' \cup unspread' \/ t \in Carried(reqs'[s])
      BY <1>1, <3>2
    <3> QED BY <3>1, <3>2
  <2>2. CASE t \in Carried(q) \/ t \in unspread'
    BY <1>1, <2>2
  <2> QED BY <2>1, <2>2
<1>4. ASSUME NEW t \in taken'.api
      PROVE  \/ t \in relayed' \cup fromPeers' \cup unspread'
             \/ \E s \in Slots : reqs'[s].src # "peer" /\ t \in Carried(reqs'[s])
  <2>1. CASE t \in taken.api
    <3>1. \/ t \in relayed \cup fromPeers \cup unspread
          \/ \E s \in Slots : reqs[s].src # "peer" /\ t \in Carried(reqs[s])
      BY <2>1 DEF BroadcastsOK, Accounted
    <3>2. ASSUME NEW s \in Slots, reqs[s].src # "peer", t \in Carried(reqs[s])
          PROVE  \/ t \in relayed' \cup fromPeers' \cup unspread'
                 \/ reqs'[s].src # "peer" /\ t \in Carried(reqs'[s])
      <4>1. CASE s = r
        BY <1>1, <3>2, <4>1
      <4>2. CASE s # r
        BY <1>1, <3>2, <4>2
      <4> QED BY <4>1, <4>2
    <3> QED BY <3>1, <3>2
  <2>2. CASE (q.src # "peer" /\ t \in Carried(q)) \/ t \in unspread'
    BY <1>1, <2>2
  <2> QED BY <2>1, <2>2
<1> QED BY <1>2, <1>3, <1>4 DEF BroadcastsOK, Accounted

\* A step that spreads nothing.
LEMMA QuietStep ==
  ASSUME BroadcastsOK, NEW r \in Slots, NEW q, RequestOK(q), reqs' = [reqs EXCEPT ![r] = q],
         Carried(reqs[r]) \subseteq Carried(q) /\ (Carried(reqs[r]) # {} => q.src = reqs[r].src),
         UNCHANGED <<taken, notified, unspread, relayed, fromPeers, known>>
  PROVE  BroadcastsOK'
<1>1. known \subseteq relayed \cup fromPeers /\ DOMAIN taken = {"api", "peer"}
  BY DEF BroadcastsOK, Accounted
<1> QED BY <1>1, CarryStep

\* A client or a peer sends something.
LEMMA BeginKeeps ==
  ASSUME BroadcastsOK, NEW r \in Slots,
         \/ \E t \in Txs : BroadcastTransactionRoute(r, t) \/ OnBroadcastTransaction(r, t)
         \/ \E txs \in Packages, pkg \in BOOLEAN : BroadcastTransactionPackageRoute(r, txs, pkg)
  PROVE  BroadcastsOK'
<1>1. ASSUME NEW src \in {"api", "package", "peer"}, NEW txs \in Seq(Txs), txs # << >>,
             NEW pkg \in BOOLEAN, src # "package" => Len(txs) = 1 /\ ~pkg,
             NEW pc \in {"lookup", "gate"}, Begin(r, src, txs, pkg, pc)
      PROVE  \E q : RequestOK(q) /\ Carried(q) = {} /\ reqs' = [reqs EXCEPT ![r] = q]
  <2> DEFINE q == [Idle EXCEPT !.src = src, !.txs = txs, !.pkg = pkg, !.i = 1, !.pc = pc]
  <2>1. Idle \in Request(Idle.ids) /\ Idle.oks = {} /\ Idle.ids = {}
    BY DEF Idle, Request
  <2>2. Len(txs) \in Nat /\ Len(txs) # 0
    BY <1>1
  <2>3. reqs' = [reqs EXCEPT ![r] = q]
    BY <1>1 DEF Begin
  <2>4. /\ q \in Request(q.ids)
        /\ q.pc = pc /\ q.src = src /\ q.txs = txs /\ q.pkg = pkg /\ q.i = 1 /\ q.oks = {}
    BY <2>1 DEF Request
  <2> HIDE DEF q
  <2>5. RequestOK(q) /\ Carried(q) = {}
    <3>2. 1 \in 1 .. Len(txs)
      BY <2>2
    <3>3. src # "package" => ~q.pkg
      BY <1>1, <2>4, Zenon
    <3>4. RequestOK(q)
      BY <1>1, <2>4, <3>2, <3>3 DEF RequestOK
    <3> QED BY <3>4, <2>4, EarlyCarries DEF Early
  <2> QED BY <2>3, <2>5
<1>2. ASSUME At(r, "idle") PROVE Carried(reqs[r]) = {}
  BY <1>2, EarlyCarries DEF At, Early, BroadcastsOK
<1>3. ASSUME NEW t \in Txs, BroadcastTransactionRoute(r, t) PROVE BroadcastsOK'
  <2>1. <<t>> \in Seq(Txs) /\ <<t>> # << >> /\ Len(<<t>>) = 1
    OBVIOUS
  <2>2. /\ At(r, "idle") /\ Begin(r, "api", <<t>>, FALSE, "gate")
        /\ UNCHANGED <<taken, notified, unspread, relayed, fromPeers, known>>
    BY <1>3 DEF BroadcastTransactionRoute, history
  <2>3. PICK q : RequestOK(q) /\ Carried(q) = {} /\ reqs' = [reqs EXCEPT ![r] = q]
    BY <1>1, <2>1, <2>2
  <2> QED BY <1>2, <2>2, <2>3, QuietStep
<1>4. ASSUME NEW txs \in Packages, NEW pkg \in BOOLEAN, BroadcastTransactionPackageRoute(r, txs, pkg)
      PROVE  BroadcastsOK'
  <2>1. txs \in Seq(Txs) /\ txs # << >>
    BY MempoolAssumption
  <2>2. /\ At(r, "idle") /\ Begin(r, "package", txs, pkg, "gate")
        /\ UNCHANGED <<taken, notified, unspread, relayed, fromPeers, known>>
    BY <1>4 DEF BroadcastTransactionPackageRoute, history
  <2>3. PICK q : RequestOK(q) /\ Carried(q) = {} /\ reqs' = [reqs EXCEPT ![r] = q]
    BY <1>1, <2>1, <2>2
  <2> QED BY <1>2, <2>2, <2>3, QuietStep
<1>5. ASSUME NEW t \in Txs, OnBroadcastTransaction(r, t) PROVE BroadcastsOK'
  <2>1. <<t>> \in Seq(Txs) /\ <<t>> # << >> /\ Len(<<t>>) = 1
    OBVIOUS
  <2>2. /\ At(r, "idle") /\ Begin(r, "peer", <<t>>, FALSE, "lookup")
        /\ known' = known \cup {t} /\ fromPeers' = fromPeers \cup {t}
        /\ UNCHANGED <<taken, notified, unspread, relayed>>
    BY <1>5 DEF OnBroadcastTransaction
  <2>3. PICK q : RequestOK(q) /\ Carried(q) = {} /\ reqs' = [reqs EXCEPT ![r] = q]
    BY <1>1, <2>1, <2>2
  <2>4. known \subseteq relayed \cup fromPeers /\ DOMAIN taken = {"api", "peer"}
    BY DEF BroadcastsOK, Accounted
  <2> QED BY <1>2, <2>2, <2>3, <2>4, CarryStep
<1> QED BY <1>3, <1>4, <1>5


\* A broadcast goes on with its fields as they are.
LEMMA GoFields ==
  ASSUME BroadcastsOK, NEW r \in Slots,
         NEW pc \in {"gate", "exists", "verify", "test", "submit", "send", "store", "evict", "spread"}, Go(r, pc)
  PROVE  \E q :
            /\ q \in Request(q.ids)
            /\ reqs' = [reqs EXCEPT ![r] = q] /\ q.pc = pc /\ q.src = reqs[r].src /\ q.txs = reqs[r].txs
            /\ q.pkg = reqs[r].pkg /\ q.i = reqs[r].i /\ q.ids = reqs[r].ids /\ q.oks = reqs[r].oks
<1> DEFINE q == [reqs[r] EXCEPT !.pc = pc]
<1>1. reqs = [s \in Slots |-> reqs[s]] /\ reqs[r] \in Request(reqs[r].ids)
  BY DEF BroadcastsOK, RequestOK
<1>2. reqs' = [reqs EXCEPT ![r] = q]
  BY <1>1 DEF Go
<1>3. /\ q \in Request(q.ids) /\ q.pc = pc /\ q.src = reqs[r].src /\ q.txs = reqs[r].txs
      /\ q.pkg = reqs[r].pkg /\ q.i = reqs[r].i /\ q.ids = reqs[r].ids /\ q.oks = reqs[r].oks
  BY <1>1 DEF Request
<1> QED BY <1>2, <1>3

\* A broadcast that carries nothing answers.
LEMMA AnswerKeeps ==
  ASSUME BroadcastsOK, NEW r \in Slots, Answer(r), Carried(reqs[r]) = {},
         UNCHANGED <<taken, notified, unspread, relayed, fromPeers, known>>
  PROVE  BroadcastsOK'
  BY IdleCarries, QuietStep DEF Answer

\* Before Bitcoin Core is asked, a broadcast carries nothing.
LEMMA EarlyGoes ==
  ASSUME BroadcastsOK, NEW r \in Slots, reqs[r].pc \in Early \ {"idle"},
         NEW pc \in {"gate", "exists", "verify", "submit", "send"}, Go(r, pc),
         pc = "submit" => reqs[r].i = 1 /\ reqs[r].src = "package" /\ reqs[r].pkg,
         UNCHANGED <<taken, notified, unspread, relayed, fromPeers, known>>
  PROVE  BroadcastsOK'
<1>1. RequestOK(reqs[r]) /\ Carried(reqs[r]) = {} /\ reqs[r].oks = {}
  <2>1. RequestOK(reqs[r])
    BY DEF BroadcastsOK
  <2> QED BY <2>1, EarlyCarries DEF Early, RequestOK
<1>2. PICK q :
            /\ q \in Request(q.ids)
            /\ reqs' = [reqs EXCEPT ![r] = q] /\ q.pc = pc /\ q.src = reqs[r].src /\ q.txs = reqs[r].txs
            /\ q.pkg = reqs[r].pkg /\ q.i = reqs[r].i /\ q.ids = reqs[r].ids /\ q.oks = reqs[r].oks
  BY GoFields
<1>3. RequestOK(q)
  <2>1. reqs[r].i \in 1 .. Len(reqs[r].txs) /\ (reqs[r].src # "package" => Len(reqs[r].txs) = 1)
    BY <1>1 DEF RequestOK, Early
  <2>2. (q.src # "package" => ~q.pkg) /\ (pc = "submit" => q.pkg)
    <3>1. reqs[r].pc # "idle" /\ (reqs[r].pc # "idle" /\ reqs[r].src # "package" => ~reqs[r].pkg)
      BY <1>1 DEF RequestOK
    <3> QED BY <1>2, <3>1, Zenon
  <2> QED BY <1>1, <1>2, <2>1, <2>2 DEF RequestOK
<1> QED BY <1>1, <1>2, <1>3, QuietStep

LEMMA EarlyKeeps ==
  ASSUME BroadcastsOK, NEW r \in Slots,
         HasTransactionInMempool(r) \/ OnTransactionReceived(r) \/ HasTransactionById(r) \/ Verify(r)
           \/ TestMempoolAccept(r)
  PROVE  BroadcastsOK'
<1>1. UNCHANGED <<taken, notified, unspread, relayed, fromPeers, known>>
  BY DEF HasTransactionInMempool, OnTransactionReceived, HasTransactionById, Verify, TestMempoolAccept, history
<1>2. RequestOK(reqs[r]) /\ reqs = [s \in Slots |-> reqs[s]] /\ reqs[r] \in Request(reqs[r].ids)
  BY DEF BroadcastsOK, RequestOK
<1>3. /\ reqs[r].pc \in Early \ {"idle"}
      /\ Carried(reqs[r]) = {} /\ reqs[r].oks = {}
  <2>1. reqs[r].pc \in {"lookup", "gate", "exists", "verify", "test"}
    BY DEF HasTransactionInMempool, OnTransactionReceived, HasTransactionById, Verify, TestMempoolAccept, At
  <2> QED BY <1>2, <2>1, EarlyCarries DEF Early, RequestOK
<1>4. CASE Answer(r)
  BY <1>1, <1>3, <1>4, AnswerKeeps
<1>5. CASE Go(r, "gate") \/ Go(r, "exists") \/ Go(r, "verify") \/ Go(r, "send")
  BY <1>1, <1>3, <1>5, EarlyGoes
<1>6. CASE At(r, "test") /\ reqs[r].pkg /\ Go(r, "submit")
  <2>1. reqs[r].i = 1 /\ reqs[r].src = "package"
    BY <1>2, <1>6 DEF At, RequestOK
  <2> QED BY <1>1, <1>3, <1>6, <2>1, EarlyGoes
<1>7. ASSUME IsPackage(r), NEW i, NEW pc \in {"exists", "test"}, pc = "test" => i = 1,
             i = 1 \/ (i = reqs[r].i + 1 /\ ~AtLast(r)),
             reqs' = [reqs EXCEPT ![r].i = i, ![r].pc = pc]
      PROVE  BroadcastsOK'
  <2> DEFINE q == [reqs[r] EXCEPT !.i = i, !.pc = pc]
  <2>1. reqs[r].i \in 1 .. Len(reqs[r].txs) /\ Len(reqs[r].txs) \in Nat /\ reqs[r].src = "package"
    BY <1>2, <1>3, <1>7 DEF RequestOK, IsPackage, Request
  <2>2. i \in 1 .. Len(reqs[r].txs)
    BY <1>7, <2>1 DEF AtLast
  <2>3. /\ q \in Request(q.ids) /\ q.src = "package" /\ q.txs = reqs[r].txs /\ q.oks = {} /\ q.i = i /\ q.pc = pc
    <3>1. reqs[r] \in Request(reqs[r].ids) /\ i \in Nat
      BY <1>2, <2>1, <2>2
    <3> QED BY <1>3, <2>1, <3>1 DEF Request
  <2>4. reqs' = [reqs EXCEPT ![r] = q]
    BY <1>2, <1>7
  <2> HIDE DEF q
  <2>5. RequestOK(q)
    BY <1>7, <2>2, <2>3 DEF RequestOK
  <2> QED BY <1>1, <1>3, <2>4, <2>5, QuietStep
<1>8. CASE HasTransactionInMempool(r) \/ OnTransactionReceived(r) \/ HasTransactionById(r)
  BY <1>4, <1>5, <1>8, Zenon DEF HasTransactionInMempool, OnTransactionReceived, HasTransactionById
<1>9. CASE Verify(r)
  <2>1. \/ Answer(r) \/ Go(r, "send")
        \/ IsPackage(r) /\ ~AtLast(r) /\ reqs' = [reqs EXCEPT ![r].i = @ + 1, ![r].pc = "exists"]
        \/ IsPackage(r) /\ reqs' = [reqs EXCEPT ![r].i = 1, ![r].pc = "test"]
    BY <1>9, Zenon DEF Verify
  <2>2. CASE IsPackage(r) /\ ~AtLast(r) /\ reqs' = [reqs EXCEPT ![r].i = @ + 1, ![r].pc = "exists"]
    <3>1. reqs' = [reqs EXCEPT ![r].i = reqs[r].i + 1, ![r].pc = "exists"]
      BY <2>2
    <3> QED BY <1>7, <2>2, <3>1
  <2>3. CASE IsPackage(r) /\ reqs' = [reqs EXCEPT ![r].i = 1, ![r].pc = "test"]
    BY <1>7, <2>3
  <2> QED BY <1>4, <1>5, <2>1, <2>2, <2>3
<1>10. CASE TestMempoolAccept(r)
  <2>1. At(r, "test") /\ (Answer(r) \/ (reqs[r].pkg /\ Go(r, "submit")) \/ Go(r, "send"))
    BY <1>10, Zenon DEF TestMempoolAccept
  <2> QED BY <1>4, <1>5, <1>6, <2>1
<1> QED BY <1>8, <1>9, <1>10



\* What Bitcoin Core takes is counted under the broadcast's source.
LEMMA TakeAdds ==
  ASSUME BroadcastsOK, NEW r \in Slots, NEW set, Take(r, set)
  PROVE  /\ DOMAIN taken' = {"api", "peer"}
         /\ taken'.api \cup taken'.peer = taken.api \cup taken.peer \cup set
         /\ reqs[r].src = "peer" => taken'.api = taken.api
         /\ taken'.api \subseteq taken.api \cup set
<1>1. DOMAIN taken = {"api", "peer"}
  BY DEF BroadcastsOK
<1>2. CASE reqs[r].src = "peer"
  <2>1. taken' = [taken EXCEPT !["peer"] = @ \cup set]
    BY <1>2 DEF Take
  <2>2. DOMAIN taken' = {"api", "peer"} /\ taken'.api = taken.api /\ taken'.peer = taken.peer \cup set
    BY <1>1, <2>1
  <2> QED BY <1>2, <2>2
<1>3. CASE reqs[r].src # "peer"
  <2>1. taken' = [taken EXCEPT !["api"] = @ \cup set]
    BY <1>3 DEF Take
  <2>2. DOMAIN taken' = {"api", "peer"} /\ taken'.peer = taken.peer /\ taken'.api = taken.api \cup set
    BY <1>1, <2>1
  <2> QED BY <1>3, <2>2
<1> QED BY <1>2, <1>3

LEMMA SubmitKeeps ==
  ASSUME BroadcastsOK, NEW r \in Slots, SubmitPackage(r)
  PROVE  BroadcastsOK'
<1>1. UNCHANGED <<notified, relayed, fromPeers, known>> /\ At(r, "submit")
  BY DEF SubmitPackage
<1>2. /\ RequestOK(reqs[r]) /\ reqs = [s \in Slots |-> reqs[s]] /\ reqs[r] \in Request(reqs[r].ids)
      /\ DOMAIN taken = {"api", "peer"} /\ known \subseteq relayed \cup fromPeers
  BY DEF BroadcastsOK, RequestOK, Accounted
<1>3. /\ Carried(reqs[r]) = {} /\ reqs[r].oks = {} /\ reqs[r].i = 1 /\ reqs[r].src = "package"
      /\ reqs[r].i \in 1 .. Len(reqs[r].txs) /\ reqs[r].pkg
  BY <1>1, <1>2, EarlyCarries DEF At, Early, RequestOK
<1>4. CASE Take(r, Range(reqs[r].txs)) /\ Go(r, "store") /\ UNCHANGED <<left, unspread>>
  <2>1. PICK q :
            /\ q \in Request(q.ids)
            /\ reqs' = [reqs EXCEPT ![r] = q] /\ q.pc = "store" /\ q.src = reqs[r].src /\ q.txs = reqs[r].txs
            /\ q.pkg = reqs[r].pkg /\ q.i = reqs[r].i /\ q.ids = reqs[r].ids /\ q.oks = reqs[r].oks
    BY <1>4, GoFields
  <2>2. RequestOK(q)
    BY <1>3, <2>1 DEF RequestOK
  <2>3. Range(reqs[r].txs) \subseteq Carried(q)
    <3>1. reqs[r].txs \in Seq(Txs)
      BY <1>2 DEF Request
    <3>2. ASSUME NEW t \in Range(reqs[r].txs) PROVE t \in Carried(q)
      <4>1. PICK k \in DOMAIN reqs[r].txs : t = reqs[r].txs[k]
        BY DEF Range
      <4>2. k \in q.i .. Len(q.txs)
        BY <1>3, <2>1, <3>1
      <4>3. Carried(q) = q.oks \cup {q.txs[m] : m \in q.i .. Len(q.txs)}
        BY <1>3, <2>1 DEF Carried
      <4> QED BY <2>1, <4>1, <4>2, <4>3
    <3> QED BY <3>2
  <2>4. /\ DOMAIN taken' = {"api", "peer"}
        /\ taken'.api \cup taken'.peer = taken.api \cup taken.peer \cup Range(reqs[r].txs)
        /\ taken'.api \subseteq taken.api \cup Range(reqs[r].txs)
    BY <1>4, TakeAdds
  <2>5. q.src # "peer"
    BY <1>3, <2>1
  <2>6. unspread' = unspread
    BY <1>4
  <2> QED BY <1>1, <1>2, <1>3, <2>1, <2>2, <2>3, <2>4, <2>5, <2>6, CarryStep
<1>5. CASE Answer(r) /\ UNCHANGED <<core, moved, taken, left, unspread>>
  BY <1>1, <1>3, <1>5, AnswerKeeps
<1>6. CASE reqs' = [reqs EXCEPT ![r].pc = "send", ![r].pkg = FALSE] /\ UNCHANGED <<taken, unspread>>
  <2> DEFINE q == [reqs[r] EXCEPT !.pc = "send", !.pkg = FALSE]
  <2>1. reqs' = [reqs EXCEPT ![r] = q]
    BY <1>2, <1>6
  <2>2. q \in Request(q.ids) /\ q.pc = "send" /\ q.src = "package" /\ q.oks = {} /\ q.i = reqs[r].i /\ q.txs = reqs[r].txs
    BY <1>2, <1>3 DEF Request
  <2> HIDE DEF q
  <2>3. RequestOK(q)
    BY <1>3, <2>2 DEF RequestOK
  <2> QED BY <1>1, <1>3, <1>6, <2>1, <2>3, QuietStep
<1> QED BY <1>4, <1>5, <1>6, Zenon DEF SubmitPackage

\* A refused broadcast spreads what it carries, or has nothing to.
LEMMA RefusedCarries ==
  ASSUME BroadcastsOK, NEW r \in Slots, At(r, "send"), Refused(r)
  PROVE  \E q : /\ RequestOK(q) /\ reqs' = [reqs EXCEPT ![r] = q]
                /\ Carried(reqs[r]) \subseteq Carried(q) /\ (Carried(reqs[r]) # {} => q.src = reqs[r].src)
<1>1. RequestOK(reqs[r]) /\ reqs[r].pc = "send" /\ Carried(reqs[r]) = reqs[r].oks
  BY DEF BroadcastsOK, At, Carried
<1>2. CASE IsPackage(r)
  <2>1. Go(r, "spread")
    BY <1>2 DEF Refused
  <2>2. PICK q :
            /\ q \in Request(q.ids)
            /\ reqs' = [reqs EXCEPT ![r] = q] /\ q.pc = "spread" /\ q.src = reqs[r].src /\ q.txs = reqs[r].txs
            /\ q.pkg = reqs[r].pkg /\ q.i = reqs[r].i /\ q.ids = reqs[r].ids /\ q.oks = reqs[r].oks
    BY <2>1, GoFields
  <2>3. RequestOK(q)
    BY <1>1, <1>2, <2>2 DEF RequestOK, IsPackage
  <2>4. Carried(q) = reqs[r].oks
    BY <2>2 DEF Carried
  <2> QED BY <1>1, <2>2, <2>3, <2>4
<1>3. CASE ~IsPackage(r)
  <2>1. Carried(reqs[r]) = {}
    BY <1>1, <1>3 DEF RequestOK, IsPackage
  <2> QED BY <1>3, <2>1, IdleCarries DEF Refused, Answer
<1> QED BY <1>2, <1>3

LEMMA SendKeeps ==
  ASSUME BroadcastsOK, NEW r \in Slots, SendRawTransaction(r)
  PROVE  BroadcastsOK'
<1>1. UNCHANGED <<notified, relayed, fromPeers, known>> /\ At(r, "send")
  BY DEF SendRawTransaction
<1>2. /\ RequestOK(reqs[r]) /\ DOMAIN taken = {"api", "peer"} /\ known \subseteq relayed \cup fromPeers
      /\ Carried(reqs[r]) = reqs[r].oks
  BY <1>1 DEF BroadcastsOK, Accounted, At, Carried
<1>3. ASSUME Take(r, {Tx(r)})
      PROVE  /\ DOMAIN taken' = {"api", "peer"}
             /\ \A t \in taken'.api \cup taken'.peer : t \in taken.api \cup taken.peer \/ t = Tx(r)
             /\ \A t \in taken'.api : t \in taken.api \/ (t = Tx(r) /\ reqs[r].src # "peer")
  <2>1. /\ DOMAIN taken' = {"api", "peer"}
        /\ taken'.api \cup taken'.peer = taken.api \cup taken.peer \cup {Tx(r)}
        /\ reqs[r].src = "peer" => taken'.api = taken.api
        /\ taken'.api \subseteq taken.api \cup {Tx(r)}
    BY <1>3, TakeAdds
  <2> QED BY <2>1
<1>4. CASE Take(r, {Tx(r)}) /\ Go(r, "store") /\ UNCHANGED <<left, unspread>>
  <2>1. PICK q :
            /\ q \in Request(q.ids)
            /\ reqs' = [reqs EXCEPT ![r] = q] /\ q.pc = "store" /\ q.src = reqs[r].src /\ q.txs = reqs[r].txs
            /\ q.pkg = reqs[r].pkg /\ q.i = reqs[r].i /\ q.ids = reqs[r].ids /\ q.oks = reqs[r].oks
    BY <1>4, GoFields
  <2>2. RequestOK(q)
    <3>1. q.i \in 1 .. Len(q.txs) /\ (q.src # "package" => q.oks = {} /\ Len(q.txs) = 1)
      BY <1>1, <1>2, <2>1 DEF RequestOK, At
    <3>2. q.src # "package" => ~q.pkg
      <4>1. reqs[r].src # "package" => ~reqs[r].pkg
        BY <1>1, <1>2 DEF RequestOK, At
      <4> QED BY <2>1, <4>1, Zenon
    <3> QED BY <2>1, <3>1, <3>2 DEF RequestOK
  <2>3. q.oks \subseteq Carried(q) /\ Tx(r) \in Carried(q)
    <3>1. q.i \in q.i .. Len(q.txs)
      BY <1>1, <1>2, <2>1 DEF RequestOK, At
    <3>2. Tx(r) = q.txs[q.i]
      BY <2>1 DEF Tx
    <3> QED BY <2>1, <3>1, <3>2 DEF Carried
  <2>4. unspread' = unspread
    BY <1>4
  <2>5. /\ DOMAIN taken' = {"api", "peer"}
        /\ \A t \in taken'.api \cup taken'.peer : t \in taken.api \cup taken.peer \/ t \in Carried(q)
        /\ \A t \in taken'.api : t \in taken.api \/ (q.src # "peer" /\ t \in Carried(q))
    BY <1>3, <1>4, <2>1, <2>3
  <2>6. \A t \in Carried(reqs[r]) : t \in Carried(q) /\ q.src = reqs[r].src
    BY <1>2, <2>1, <2>3
  <2> QED BY <1>1, <1>2, <2>1, <2>2, <2>4, <2>5, <2>6, CarryStep
<1>5. CASE Refused(r) /\ UNCHANGED <<core, moved, taken, left, unspread>>
  <2>1. PICK q : /\ RequestOK(q) /\ reqs' = [reqs EXCEPT ![r] = q]
                 /\ Carried(reqs[r]) \subseteq Carried(q) /\ (Carried(reqs[r]) # {} => q.src = reqs[r].src)
    BY <1>1, <1>5, RefusedCarries
  <2> QED BY <1>1, <1>5, <2>1, QuietStep
<1>6. CASE Take(r, {Tx(r)}) /\ unspread' = unspread \cup {Tx(r)} /\ Refused(r)
  <2>1. PICK q : /\ RequestOK(q) /\ reqs' = [reqs EXCEPT ![r] = q]
                 /\ Carried(reqs[r]) \subseteq Carried(q) /\ (Carried(reqs[r]) # {} => q.src = reqs[r].src)
    BY <1>1, <1>6, RefusedCarries
  <2> QED BY <1>1, <1>2, <1>3, <1>6, <2>1, CarryStep
<1> QED BY <1>4, <1>5, <1>6, Zenon DEF SendRawTransaction



\* The next transaction: only the one that was handled leaves what is carried.
LEMMA NextTxCarries ==
  ASSUME BroadcastsOK, NEW r \in Slots, reqs[r].pc \in {"store", "evict", "delete"},
         NEW oks \in SUBSET Txs, reqs[r].oks \subseteq oks, NextTx(r, oks)
  PROVE  \E q : /\ RequestOK(q) /\ reqs' = [reqs EXCEPT ![r] = q] /\ q.src = reqs[r].src
                /\ oks \subseteq Carried(q) /\ Carried(reqs[r]) \ {Tx(r)} \subseteq Carried(q)
<1>1. reqs = [s \in Slots |-> reqs[s]] /\ reqs[r] \in Request(reqs[r].ids) /\ RequestOK(reqs[r])
  BY DEF BroadcastsOK, RequestOK
<1>2. /\ reqs[r].i \in 1 .. Len(reqs[r].txs) /\ Len(reqs[r].txs) \in Nat
      /\ reqs[r].src # "package" => Len(reqs[r].txs) = 1
  BY <1>1 DEF RequestOK, Request
<1>3. CASE AtLast(r)
  <2> DEFINE q == [reqs[r] EXCEPT !.oks = oks, !.ids = {}, !.pc = "spread"]
  <2>1. reqs' = [reqs EXCEPT ![r] = q]
    BY <1>1, <1>3 DEF NextTx
  <2>2. /\ q \in Request(q.ids) /\ q.pc = "spread" /\ q.oks = oks /\ q.i = reqs[r].i /\ q.txs = reqs[r].txs
        /\ q.src = reqs[r].src /\ q.pkg = reqs[r].pkg
    BY <1>1 DEF Request
  <2> HIDE DEF q
  <2>3. RequestOK(q)
    <3>1. q.src # "package" => ~q.pkg
      <4>1. reqs[r].src # "package" => ~reqs[r].pkg
        BY <1>1 DEF RequestOK
      <4> QED BY <2>2, <4>1, Zenon
    <3> QED BY <1>2, <2>2, <3>1 DEF RequestOK
  <2>4. Carried(q) = oks
    BY <2>2 DEF Carried
  <2>5. Carried(reqs[r]) \subseteq oks \cup {Tx(r)}
    <3>1. \A k \in reqs[r].i .. Len(reqs[r].txs) : k = reqs[r].i
      BY <1>2, <1>3 DEF AtLast
    <3> QED BY <3>1 DEF Carried, Tx
  <2> QED BY <2>1, <2>2, <2>3, <2>4, <2>5
<1>4. CASE ~AtLast(r)
  <2> DEFINE pc == IF reqs[r].pkg THEN "store" ELSE "send"
             q == [reqs[r] EXCEPT !.oks = oks, !.ids = {}, !.i = reqs[r].i + 1, !.pc = pc]
  <2>0. pc \in {"store", "send"} /\ (reqs[r].pkg => pc = "store")
    OBVIOUS
  <2>1. reqs' = [reqs EXCEPT ![r] = q]
    BY <1>1, <1>4 DEF NextTx
  <2> HIDE DEF pc
  <2>2. /\ q \in Request(q.ids) /\ q.pc = pc /\ q.oks = oks /\ q.i = reqs[r].i + 1 /\ q.txs = reqs[r].txs
        /\ q.src = reqs[r].src /\ q.pkg = reqs[r].pkg
    <3>1. reqs[r].i + 1 \in Nat
      BY <1>1 DEF Request
    <3> QED BY <1>1, <2>0, <3>1 DEF Request
  <2> HIDE DEF q
  <2>3. q.i \in 1 .. Len(q.txs) /\ q.src = "package"
    <3>1. reqs[r].i # Len(reqs[r].txs)
      BY <1>4 DEF AtLast
    <3>2. reqs[r].src \in {"api", "package", "peer"}
      BY <1>1 DEF Request
    <3>3. reqs[r].i + 1 \in 1 .. Len(reqs[r].txs) /\ Len(reqs[r].txs) # 1
      <4>1. \A m \in Nat : \A k \in 1 .. m : k # m => k + 1 \in 1 .. m /\ m # 1
        OBVIOUS
      <4> QED BY <1>2, <3>1, <4>1
    <3> QED BY <1>2, <2>2, <3>2, <3>3
  <2>4. RequestOK(q)
    BY <2>0, <2>2, <2>3 DEF RequestOK
  <2>5. oks \subseteq Carried(q)
    BY <2>2 DEF Carried
  <2>6. ASSUME NEW t \in Carried(reqs[r]), t # Tx(r) PROVE t \in Carried(q)
    <3>1. CASE t \in reqs[r].oks
      BY <2>5, <3>1
    <3>2. CASE t \notin reqs[r].oks
      <4>1. reqs[r].pkg /\ t \in {reqs[r].txs[k] : k \in reqs[r].i .. Len(reqs[r].txs)}
        BY <2>6, <3>2 DEF Carried, Tx
      <4>2. PICK k \in reqs[r].i .. Len(reqs[r].txs) : t = reqs[r].txs[k]
        BY <4>1
      <4>3. k \in q.i .. Len(q.txs)
        BY <1>2, <2>2, <2>6, <4>2 DEF Tx
      <4>4. q.pkg /\ q.pc = "store"
        BY <2>0, <2>2, <4>1
      <4> QED BY <2>2, <4>2, <4>3, <4>4 DEF Carried
    <3> QED BY <3>1, <3>2
  <2> QED BY <2>1, <2>2, <2>4, <2>5, <2>6
<1> QED BY <1>3, <1>4

\* The current transaction is one of the broadcast's, and carried from the store on.
LEMMA TxCarried ==
  ASSUME BroadcastsOK, NEW r \in Slots, reqs[r].pc \in {"store", "evict", "delete"}
  PROVE  /\ RequestOK(reqs[r]) /\ Tx(r) \in Txs /\ reqs[r].oks \subseteq Txs
         /\ Tx(r) \in Carried(reqs[r]) /\ reqs[r].oks \subseteq Carried(reqs[r])
         /\ ~IsPackage(r) => Carried(reqs[r]) = {Tx(r)}
<1>1. /\ RequestOK(reqs[r]) /\ reqs[r].i \in 1 .. Len(reqs[r].txs) /\ reqs[r].txs \in Seq(Txs)
      /\ reqs[r].oks \subseteq Txs
  BY DEF BroadcastsOK, RequestOK, Request
<1>2. Tx(r) \in Txs
  BY <1>1 DEF Tx
<1>3. reqs[r].i \in reqs[r].i .. Len(reqs[r].txs)
  BY <1>1
<1>4. Tx(r) \in Carried(reqs[r]) /\ reqs[r].oks \subseteq Carried(reqs[r])
  BY <1>3 DEF Carried, Tx
<1>5. ~IsPackage(r) => Carried(reqs[r]) = {Tx(r)}
  <2>1. ~IsPackage(r) => reqs[r].oks = {} /\ ~reqs[r].pkg
    BY <1>1 DEF RequestOK, IsPackage
  <2> QED BY <2>1 DEF Carried, Tx
<1> QED BY <1>1, <1>2, <1>4, <1>5

LEMMA StoreKeeps ==
  ASSUME BroadcastsOK, NEW r \in Slots, StoreTransaction(r) \/ StoreTransactionFails(r)
  PROVE  BroadcastsOK'
<1>1. UNCHANGED <<taken, notified, relayed, fromPeers, known>> /\ reqs[r].pc = "store"
  BY DEF StoreTransaction, StoreTransactionFails, At
<1>2. /\ RequestOK(reqs[r]) /\ Tx(r) \in Txs /\ reqs[r].oks \subseteq Txs
      /\ Tx(r) \in Carried(reqs[r]) /\ reqs[r].oks \subseteq Carried(reqs[r])
      /\ ~IsPackage(r) => Carried(reqs[r]) = {Tx(r)}
  BY <1>1, TxCarried
<1>3. DOMAIN taken = {"api", "peer"} /\ known \subseteq relayed \cup fromPeers
  BY DEF BroadcastsOK, Accounted
<1>4. CASE StoreTransaction(r)
  <2>1. Go(r, "evict") /\ UNCHANGED unspread
    BY <1>4 DEF StoreTransaction
  <2>2. PICK q :
            /\ q \in Request(q.ids)
            /\ reqs' = [reqs EXCEPT ![r] = q] /\ q.pc = "evict" /\ q.src = reqs[r].src /\ q.txs = reqs[r].txs
            /\ q.pkg = reqs[r].pkg /\ q.i = reqs[r].i /\ q.ids = reqs[r].ids /\ q.oks = reqs[r].oks
    BY <2>1, GoFields
  <2>3. RequestOK(q)
    <3>1. q.src # "package" => ~q.pkg
      <4>1. reqs[r].src # "package" => ~reqs[r].pkg
        BY <1>1, <1>2 DEF RequestOK
      <4> QED BY <2>2, <4>1, Zenon
    <3> QED BY <1>1, <1>2, <2>2, <3>1 DEF RequestOK
  <2>4. Carried(q) = Carried(reqs[r])
    BY <1>1, <2>2 DEF Carried
  <2> QED BY <1>1, <2>1, <2>2, <2>3, <2>4, QuietStep
<1>5. CASE StoreTransactionFails(r) /\ ~IsPackage(r)
  <2>1. Answer(r) /\ unspread' = unspread \cup {Tx(r)}
    BY <1>5 DEF StoreTransactionFails
  <2> QED BY <1>1, <1>2, <1>3, <1>5, <2>1, IdleCarries, CarryStep DEF Answer
<1>6. CASE StoreTransactionFails(r) /\ IsPackage(r)
  <2> DEFINE oks == IF reqs[r].pkg THEN reqs[r].oks ELSE reqs[r].oks \cup {Tx(r)}
  <2>1. /\ NextTx(r, oks)
        /\ unspread' = IF ~reqs[r].pkg THEN unspread ELSE unspread \cup {Tx(r)}
    BY <1>6 DEF StoreTransactionFails
  <2>2. oks \in SUBSET Txs /\ reqs[r].oks \subseteq oks /\ (Tx(r) \in oks \/ Tx(r) \in unspread')
        /\ unspread \subseteq unspread'
    BY <1>2, <2>1
  <2> HIDE DEF oks
  <2>3. PICK q : /\ RequestOK(q) /\ reqs' = [reqs EXCEPT ![r] = q] /\ q.src = reqs[r].src
                 /\ oks \subseteq Carried(q) /\ Carried(reqs[r]) \ {Tx(r)} \subseteq Carried(q)
    BY <1>1, <2>1, <2>2, NextTxCarries
  <2> QED BY <1>1, <1>3, <2>2, <2>3, CarryStep
<1> QED BY <1>4, <1>5, <1>6

LEMMA EvictKeeps ==
  ASSUME BroadcastsOK, NEW r \in Slots, CleanupEvictedTransactions(r) \/ DeleteTransactionsById(r)
  PROVE  BroadcastsOK'
<1>1. /\ UNCHANGED <<taken, notified, unspread, relayed, fromPeers, known>>
      /\ reqs[r].pc \in {"evict", "delete"}
  BY DEF CleanupEvictedTransactions, DeleteTransactionsById, At, history
<1>2. /\ RequestOK(reqs[r]) /\ Tx(r) \in Txs /\ reqs[r].oks \subseteq Txs
      /\ Tx(r) \in Carried(reqs[r]) /\ reqs[r].oks \subseteq Carried(reqs[r])
  BY <1>1, TxCarried
<1>3. CASE NextTx(r, reqs[r].oks \cup {Tx(r)})
  <2>1. reqs[r].oks \cup {Tx(r)} \in SUBSET Txs /\ reqs[r].oks \subseteq reqs[r].oks \cup {Tx(r)}
    BY <1>2
  <2>2. PICK q : /\ RequestOK(q) /\ reqs' = [reqs EXCEPT ![r] = q] /\ q.src = reqs[r].src
                 /\ reqs[r].oks \cup {Tx(r)} \subseteq Carried(q)
                 /\ Carried(reqs[r]) \ {Tx(r)} \subseteq Carried(q)
    BY <1>1, <1>3, <2>1, NextTxCarries
  <2>3. Carried(reqs[r]) \subseteq Carried(q)
    BY <2>2
  <2> QED BY <1>1, <2>2, <2>3, QuietStep
<1>4. CASE reqs' = [reqs EXCEPT ![r].pc = "delete", ![r].ids = Evicted(Tx(r))]
  <2> DEFINE q == [reqs[r] EXCEPT !.pc = "delete", !.ids = Evicted(Tx(r))]
  <2>1. reqs = [s \in Slots |-> reqs[s]] /\ reqs[r] \in Request(reqs[r].ids)
    BY DEF BroadcastsOK, RequestOK
  <2>2. reqs' = [reqs EXCEPT ![r] = q]
    BY <1>4, <2>1
  <2>3. /\ q \in Request(q.ids) /\ q.pc = "delete" /\ q.src = reqs[r].src /\ q.txs = reqs[r].txs
        /\ q.pkg = reqs[r].pkg /\ q.i = reqs[r].i /\ q.oks = reqs[r].oks
    BY <1>4, <2>1 DEF Request
  <2> HIDE DEF q
  <2>4. RequestOK(q)
    <3>1. q.src # "package" => ~q.pkg
      <4>1. reqs[r].src # "package" => ~reqs[r].pkg
        BY <1>1, <1>2 DEF RequestOK
      <4> QED BY <2>3, <4>1, Zenon
    <3> QED BY <1>1, <1>2, <2>3, <3>1 DEF RequestOK
  <2>5. Carried(q) = Carried(reqs[r])
    BY <1>1, <2>3 DEF Carried
  <2> QED BY <1>1, <2>2, <2>3, <2>4, <2>5, QuietStep
<1> QED BY <1>3, <1>4, Zenon DEF CleanupEvictedTransactions, DeleteTransactionsById


\* The cleanup fails: what the broadcast carried is not spread.
LEMMA CleanupFailsKeeps ==
  ASSUME BroadcastsOK, NEW r \in Slots, CleanupFails(r)
  PROVE  BroadcastsOK'
<1>1. UNCHANGED <<taken, notified, relayed, fromPeers, known>> /\ reqs[r].pc \in {"evict", "delete"}
  BY DEF CleanupFails, At
<1>2. /\ RequestOK(reqs[r]) /\ reqs = [s \in Slots |-> reqs[s]] /\ reqs[r] \in Request(reqs[r].ids)
      /\ DOMAIN taken = {"api", "peer"} /\ known \subseteq relayed \cup fromPeers
  BY DEF BroadcastsOK, RequestOK, Accounted
<1>3. CASE ~reqs[r].pkg /\ Answer(r) /\ unspread' = unspread \cup reqs[r].oks \cup {Tx(r)}
  <2>1. Carried(reqs[r]) \subseteq reqs[r].oks \cup {Tx(r)}
    BY <1>3 DEF Carried, Tx
  <2>2. unspread \subseteq unspread' /\ Carried(reqs[r]) \subseteq unspread'
    BY <1>3, <2>1
  <2> QED BY <1>1, <1>2, <1>3, <2>2, IdleCarries, CarryStep DEF Answer
<1>4. CASE /\ reqs[r].pkg /\ unspread' = unspread \cup reqs[r].oks \cup Range(reqs[r].txs)
           /\ reqs' = [reqs EXCEPT ![r].pc = "send", ![r].pkg = FALSE, ![r].i = 1, ![r].oks = {}, ![r].ids = {}]
  <2> DEFINE q == [reqs[r] EXCEPT !.pc = "send", !.pkg = FALSE, !.i = 1, !.oks = {}, !.ids = {}]
  <2>1. reqs' = [reqs EXCEPT ![r] = q]
    BY <1>2, <1>4
  <2>2. /\ reqs[r].src = "package" /\ reqs[r].i \in 1 .. Len(reqs[r].txs) /\ Len(reqs[r].txs) \in Nat
        /\ reqs[r].txs \in Seq(Txs)
    BY <1>1, <1>2, <1>4 DEF RequestOK, Request
  <2>3. q \in Request(q.ids) /\ q.pc = "send" /\ q.src = "package" /\ q.oks = {} /\ q.i = 1 /\ q.txs = reqs[r].txs
    BY <1>2, <2>2 DEF Request
  <2> HIDE DEF q
  <2>4. RequestOK(q)
    BY <2>2, <2>3 DEF RequestOK
  <2>5. ASSUME NEW t \in Carried(reqs[r]) PROVE t \in reqs[r].oks \cup Range(reqs[r].txs)
    <3>1. CASE t \in {reqs[r].txs[k] : k \in reqs[r].i .. Len(reqs[r].txs)}
      <4>1. PICK k \in reqs[r].i .. Len(reqs[r].txs) : t = reqs[r].txs[k]
        BY <3>1
      <4>2. k \in DOMAIN reqs[r].txs
        BY <2>2
      <4> QED BY <4>1, <4>2 DEF Range
    <3>2. CASE t \in reqs[r].oks
      BY <3>2
    <3> QED BY <1>1, <1>4, <2>5, <3>1, <3>2 DEF Carried
  <2>6. unspread \subseteq unspread' /\ Carried(reqs[r]) \subseteq unspread'
    BY <1>4, <2>5
  <2> QED BY <1>1, <1>2, <2>1, <2>4, <2>6, CarryStep
<1> QED BY <1>3, <1>4, Zenon DEF CleanupFails

\* A transaction is told to subscribers and sent to peers, or its relay is lost.
LEMMA SpreadKeeps ==
  ASSUME BroadcastsOK, NEW r \in Slots, Spread(r)
  PROVE  BroadcastsOK'
<1>1. UNCHANGED <<taken, fromPeers>> /\ reqs[r].pc = "spread"
  BY DEF Spread, At
<1>2. /\ RequestOK(reqs[r]) /\ reqs = [s \in Slots |-> reqs[s]] /\ reqs[r] \in Request(reqs[r].ids)
      /\ Carried(reqs[r]) = reqs[r].oks
  BY <1>1 DEF BroadcastsOK, RequestOK, Carried
<1>3. DOMAIN taken = {"api", "peer"} /\ known \subseteq relayed \cup fromPeers
  BY DEF BroadcastsOK, Accounted
<1>4. CASE reqs[r].oks = {} /\ Answer(r) /\ UNCHANGED <<known, relayed, notified, unspread, left>>
  BY <1>1, <1>2, <1>4, AnswerKeeps
<1>5. ASSUME NEW t \in reqs[r].oks, reqs' = [reqs EXCEPT ![r].oks = @ \ {t}],
             SpreadByRoute(r, t) \/ SpreadByPackageRoute(r, t) \/ SpreadByP2P(r, t)
      PROVE  BroadcastsOK'
  <2> DEFINE q == [reqs[r] EXCEPT !.oks = reqs[r].oks \ {t}]
  <2>1. reqs' = [reqs EXCEPT ![r] = q]
    BY <1>2, <1>5
  <2>2. /\ q \in Request(q.ids) /\ q.pc = "spread" /\ q.src = reqs[r].src /\ q.txs = reqs[r].txs
        /\ q.pkg = reqs[r].pkg /\ q.i = reqs[r].i /\ q.oks = reqs[r].oks \ {t}
    BY <1>1, <1>2 DEF Request
  <2> HIDE DEF q
  <2>3. RequestOK(q)
    <3>1. q.src # "package" => ~q.pkg
      <4>1. reqs[r].src # "package" => ~reqs[r].pkg
        BY <1>1, <1>2 DEF RequestOK
      <4> QED BY <2>2, <4>1, Zenon
    <3> QED BY <1>1, <1>2, <2>2, <3>1 DEF RequestOK
  <2>4. Carried(q) = Carried(reqs[r]) \ {t}
    BY <1>2, <2>2 DEF Carried
  <2>5. ASSUME Relayed(t)
        PROVE  /\ known' = known \cup {t} /\ unspread' = unspread /\ relayed \subseteq relayed'
               /\ t \in relayed' \cup fromPeers /\ known' \subseteq relayed' \cup fromPeers
    <3>1. /\ relayed' = IF t \in known THEN relayed ELSE relayed \cup {t}
          /\ known' = known \cup {t} /\ UNCHANGED <<unspread, left>>
      BY <2>5 DEF Relayed, BroadcastTransaction
    <3> QED BY <1>3, <3>1
  <2>6. ASSUME RelayLost(t)
        PROVE  /\ unspread' = unspread \cup {t} /\ known' = known /\ relayed' = relayed
    BY <2>6 DEF RelayLost
  <2>7. CASE Relayed(t) /\ NotifyMempoolTransaction(t)
    <3>1. notified' = notified \cup {t}
      BY <2>7 DEF NotifyMempoolTransaction
    <3> QED BY <1>1, <1>3, <2>1, <2>2, <2>3, <2>4, <2>5, <2>7, <3>1, CarryStep
  <2>8. CASE RelayLost(t) /\ (NotifyMempoolTransaction(t) \/ UNCHANGED notified)
    <3>1. notified \subseteq notified'
      BY <2>8 DEF NotifyMempoolTransaction
    <3> QED BY <1>1, <1>3, <2>1, <2>2, <2>3, <2>4, <2>6, <2>8, <3>1, CarryStep
  <2> QED BY <1>5, <2>7, <2>8, Zenon DEF SpreadByRoute, SpreadByPackageRoute, SpreadByP2P
<1> QED BY <1>4, <1>5, Zenon DEF Spread

LEMMA BroadcastsFrame ==
  ASSUME BroadcastsOK, UNCHANGED <<reqs, taken, notified, unspread, relayed, fromPeers, known>>
  PROVE  BroadcastsOK'
<1>1. /\ reqs' = reqs /\ taken' = taken /\ notified' = notified /\ unspread' = unspread
      /\ relayed' = relayed /\ fromPeers' = fromPeers /\ known' = known
  OBVIOUS
<1> QED BY <1>1 DEF BroadcastsOK, Accounted

LEMMA BroadcastsStep == BroadcastsOK /\ [Next]_vars => BroadcastsOK'
<1>1. SUFFICES ASSUME BroadcastsOK, [Next]_vars PROVE BroadcastsOK'
  OBVIOUS
<1>2. CASE UNCHANGED vars \/ (TipNext /\ UNCHANGED <<poolVars, history>>) \/ ManagerNext \/ CoreChanges
  <2>1. CASE UNCHANGED vars \/ (TipNext /\ UNCHANGED <<poolVars, history>>)
    BY <1>1, <2>1, BroadcastsFrame DEF vars, poolVars, history
  <2>2. CASE CoreChanges
    BY <1>1, <2>2, BroadcastsFrame DEF CoreChanges
  <2>3. CASE ManagerNext
    <3>1. UNCHANGED <<reqs, taken, notified, unspread, relayed, fromPeers, known>>
      BY <2>3 DEF ManagerNext, ManagerOnly, ManagerWatches, RestoreMempoolBackup, GenerateMempoolPopulation,
         GetAllTransactionIncluded, FetchAllUnknownTransactions, StoreTransactions, CleanUpDB,
         GenerateMempoolBackup, CleanUpDBFails, StartFetchingMempool, history
    <3> QED BY <1>1, <3>1, BroadcastsFrame
  <2> QED BY <1>2, <2>1, <2>2, <2>3
<1>3. ASSUME NEW r \in Slots, RequestNext(r) PROVE BroadcastsOK'
  BY <1>1, <1>3, BeginKeeps, EarlyKeeps, SubmitKeeps, SendKeeps, StoreKeeps, EvictKeeps,
     CleanupFailsKeeps, SpreadKeeps DEF RequestNext
<1>4. CASE Restart
  <2>1. /\ reqs' = [r \in Slots |-> Idle] /\ taken' = [api |-> {}, peer |-> {}] /\ known' = {}
    BY <1>4 DEF Restart
  <2> QED BY <2>1, IdleCarries DEF BroadcastsOK, Accounted
<1> QED BY <1>1, <1>2, <1>3, <1>4 DEF Next

\* When no broadcast is being handled, subscribers and peers have heard of every
\* transaction Bitcoin Core took from the node, or the call that would have
\* spread it was lost: no order of broadcasts, packages, refusals and restarts
\* lets one go missing otherwise.
THEOREM AcceptedIsSpread == Spec => []AcceptedSpread
<1>1. Init => BroadcastsOK
  <2>1. SUFFICES ASSUME Init PROVE BroadcastsOK
    OBVIOUS
  <2>2. /\ reqs = [r \in Slots |-> Idle] /\ taken = [api |-> {}, peer |-> {}] /\ known = {}
    BY <2>1 DEF Init
  <2> QED BY <2>2, IdleCarries DEF BroadcastsOK, Accounted
<1>2. BroadcastsOK => AcceptedSpread
  <2>1. SUFFICES ASSUME BroadcastsOK, \A r \in Slots : At(r, "idle")
                 PROVE  /\ taken.api \cup taken.peer \subseteq notified \cup unspread
                        /\ taken.api \subseteq relayed \cup fromPeers \cup unspread
    BY DEF AcceptedSpread
  <2>2. \A r \in Slots : Carried(reqs[r]) = {}
    BY <2>1, EarlyCarries DEF BroadcastsOK, At, Early
  <2> QED BY <2>1, <2>2 DEF BroadcastsOK, Accounted
<1> QED BY <1>1, <1>2, BroadcastsStep, PTL DEF Spec

=============================================================================
