-------------------------- MODULE WitnessesProofs --------------------------
(***************************************************************************)
(* Theorems about the witnesses of a node, for any number of threads,      *)
(* heights, reorganisations, messages of peers and failed calls, and for   *)
(* every limit of the queues.                                              *)
(*                                                                         *)
(* A block that was processed is carried through the node: a notice, a     *)
(* call of onBlockProcessed, a message to a witness thread, an entry of    *)
(* its queue and at last a job.  What makes the properties inductive is    *)
(* that what is carried for a height that was never reverted is the stored *)
(* block (Carried), and that it is carried until its witness is stored     *)
(* (Attended).  Nothing is assumed of what peers send: neither the queue   *)
(* nor what waits for a height needs to hold witnesses of stored blocks.   *)
(***************************************************************************)
EXTENDS Witnesses, FiniteSetTheorems, SequenceTheorems, WellFoundedInduction, TLAPS

IsSeq(s) == s \in Seq(Range(s))

ThreadFields == {"ready", "set", "buffer", "current", "known", "count", "pending", "queue",
                 "selfQueue", "jobs", "lookups"}

Types ==
    /\ header \in [Heights -> Nat]
    /\ table \in [Heights -> [Ids -> Nat]]
    /\ branch \in Nat \ {0}
    /\ turn \in Threads
    /\ IsSeq(posts) /\ IsSeq(handlers)
    /\ DOMAIN inbox = Threads /\ \A t \in Threads : IsSeq(inbox[t])
    /\ DOMAIN th = Threads
    /\ \A t \in Threads : /\ DOMAIN th[t] = ThreadFields
                          /\ DOMAIN th[t].known = Heights
                          /\ IsSeq(th[t].selfQueue) /\ IsSeq(th[t].jobs)

\* The block of branch b at height h is the stored one, if its height was never
\* reverted.
Current(h, b) == h \in Heights /\ b \in Nat \ {0} /\ (h \in redone \/ header[h] = b)

\* What is carried for a processed block is the block.
Carried ==
    /\ \A m \in Range(posts) : Current(m.h, m.b)
    /\ \A d \in Range(handlers) : /\ DOMAIN d = {"id", "h", "b", "waitsFor", "acks"}
                                  /\ Current(d.h, d.b)
    /\ \A t \in Threads : \A m \in Range(inbox[t]) : m.type = "block" => Current(m.h, m.b)
    /\ \A t \in Threads : \A w \in Range(th[t].selfQueue) :
          w.who = "me" /\ w.sig = w.b /\ Current(w.h, w.b)

\* A witness that is being written is one of the stored block, or was caught by
\* a reorganisation.
Validated(j) ==
    j.phase = "write" /\ j.w.h \in Heights =>
        j.w.sig \in Nat \ {0} /\ j.w.b = j.w.sig /\ (header[j.w.h] = j.w.sig \/ j.w \in caught)

JobsValidated ==
    \A t \in Threads : \A j \in Range(th[t].jobs) : DOMAIN j = {"w", "phase"} /\ Validated(j)

CaughtAreRedone == \A w \in caught : w.h \in Heights => w.h \in redone

\* Job j has this node's witness of the stored block at height h.
Signs(j, h) == j.w.who = "me" /\ j.w.h = h /\ j.w.b = header[h] /\ j.w.sig = header[h]

\* Job j writes a witness of who at height h.
Writes(j, h, who) == j.phase = "write" /\ j.w.h = h /\ j.w.who = who

\* KnownIsStored, of the elements of the jobs.
KnownAreWritten ==
    \A t \in Threads, h \in Heights, who \in Ids : who \in th[t].known[h] =>
        \/ table[h][who] # 0
        \/ \E j \in Range(th[t].jobs) : Writes(j, h, who)
        \/ failed
        \/ h \in redone

Underway(h) ==
    \/ \E m \in Range(posts) : m.h = h
    \/ \E d \in Range(handlers) : d.h = h
    \/ \E t \in Threads : \E m \in Range(inbox[t]) : m.type = "block" /\ m.h = h
    \/ \E t \in Threads : \E w \in Range(th[t].selfQueue) : w.h = h
    \/ \E t \in Threads : \E j \in Range(th[t].jobs) : Signs(j, h)

Attended ==
    \A h \in Heights : header[h] # 0 =>
        \/ table[h]["me"] = header[h]
        \/ h \in redone \/ h \in missed \/ failed
        \/ Underway(h)

Inv == Types /\ Carried /\ JobsValidated /\ CaughtAreRedone /\ WitnessesMatch /\ KnownAreWritten
       /\ Attended

-----------------------------------------------------------------------------
(* Sequences and their elements                                              *)

LEMMA ElementIs ==
  ASSUME NEW s, IsSeq(s)
  PROVE  /\ Len(s) \in Nat /\ DOMAIN s = 1 .. Len(s)
         /\ \A i \in DOMAIN s : s[i] \in Range(s)
         /\ \A x \in Range(s) : \E i \in DOMAIN s : s[i] = x
<1>1. s \in Seq(Range(s))
  BY DEF IsSeq
<1>2. Len(s) \in Nat /\ DOMAIN s = 1 .. Len(s)
  BY <1>1, LenProperties
<1> QED BY <1>2 DEF Range

\* A sequence over any set.
LEMMA SequenceIs ==
  ASSUME NEW S, NEW s \in Seq(S)
  PROVE  IsSeq(s) /\ Range(s) \subseteq S
<1>1. Len(s) \in Nat /\ DOMAIN s = 1 .. Len(s) /\ s \in [1 .. Len(s) -> S]
  BY LenProperties
<1>2. s \in [1 .. Len(s) -> Range(s)]
  BY <1>1 DEF Range
<1>3. s \in Seq(Range(s))
  BY <1>1, <1>2, SeqDef
<1> QED BY <1>1, <1>3 DEF IsSeq, Range

LEMMA AppendIs ==
  ASSUME NEW s, IsSeq(s), NEW x
  PROVE  IsSeq(Append(s, x)) /\ Range(Append(s, x)) = Range(s) \cup {x}
<1> DEFINE S == Range(s) \cup {x}
           v == Append(s, x)
<1>1. s \in Seq(S) /\ x \in S
  <2>1. s \in Seq(Range(s)) /\ Range(s) \subseteq S
    BY DEF IsSeq
  <2>2. Len(s) \in Nat /\ s \in [1 .. Len(s) -> Range(s)]
    BY <2>1, LenProperties
  <2>3. s \in [1 .. Len(s) -> S]
    BY <2>1, <2>2
  <2> QED BY <2>2, <2>3, SeqDef
<1> HIDE DEF S
<1>2. /\ v \in Seq(S) /\ Len(v) = Len(s) + 1
      /\ \A i \in 1 .. Len(s) : v[i] = s[i]
      /\ v[Len(s) + 1] = x
  BY <1>1, AppendProperties
<1> HIDE DEF v
<1>3. IsSeq(v) /\ Range(v) \subseteq S
  BY <1>2, SequenceIs
<1>4. Len(s) \in Nat /\ DOMAIN s = 1 .. Len(s) /\ DOMAIN v = 1 .. Len(s) + 1
  BY <1>1, <1>2, LenProperties
<1>5. \A i \in 1 .. Len(s) + 1 : v[i] \in Range(v)
  BY <1>4 DEF Range
<1>6. x \in Range(v)
  BY <1>2, <1>4, <1>5
<1>7. Range(s) \subseteq Range(v)
  <2> SUFFICES ASSUME NEW i \in DOMAIN s PROVE s[i] \in Range(v)
    BY DEF Range
  <2> QED BY <1>2, <1>4, <1>5
<1> QED BY <1>3, <1>6, <1>7 DEF S, v

LEMMA TailIs ==
  ASSUME NEW s, IsSeq(s), s # << >>
  PROVE  IsSeq(Tail(s)) /\ Range(s) = Range(Tail(s)) \cup {Head(s)}
<1> DEFINE S == Range(s)
           v == Tail(s)
<1>1. s \in Seq(S)
  BY DEF IsSeq
<1>a. \A i \in DOMAIN s : s[i] \in S
  BY DEF Range
<1> HIDE DEF S
<1>2. /\ v \in Seq(S) /\ Len(v) = Len(s) - 1
      /\ \A i \in 1 .. Len(s) - 1 : v[i] = s[i + 1]
  BY <1>1, HeadTailProperties
<1>3. Head(s) = s[1] /\ Head(s) \in S
  BY <1>1, HeadTailProperties
<1> HIDE DEF v
<1>4. IsSeq(v) /\ Range(v) \subseteq S
  BY <1>2, SequenceIs
<1>5. Len(s) \in Nat /\ DOMAIN s = 1 .. Len(s) /\ DOMAIN v = 1 .. Len(s) - 1
  BY <1>1, <1>2, LenProperties
<1>6. ASSUME NEW i \in DOMAIN s PROVE s[i] \in Range(v) \cup {Head(s)}
  <2>1. CASE i = 1
    BY <1>3, <2>1
  <2>2. CASE i # 1
    <3>1. i - 1 \in 1 .. Len(s) - 1 /\ (i - 1) + 1 = i
      BY <1>5, <2>2
    <3>2. v[i - 1] = s[i] /\ i - 1 \in DOMAIN v
      BY <1>2, <1>5, <3>1
    <3> QED BY <3>2 DEF Range
  <2> QED BY <2>1, <2>2
<1>7. S \subseteq Range(v) \cup {Head(s)}
  BY <1>6 DEF S, Range
<1> QED BY <1>3, <1>4, <1>7 DEF S, v

LEMMA RemoveIs ==
  ASSUME NEW s, IsSeq(s), NEW k \in DOMAIN s
  PROVE  /\ IsSeq(RemoveAt(s, k))
         /\ Range(RemoveAt(s, k)) \subseteq Range(s)
         /\ Range(s) \subseteq Range(RemoveAt(s, k)) \cup {s[k]}
<1> DEFINE S == Range(s)
           a == SubSeq(s, 1, k - 1)
           b == SubSeq(s, k + 1, Len(s))
<1>0. s \in Seq(S) /\ k \in 1 .. Len(s) /\ Len(s) \in Nat /\ DOMAIN s = 1 .. Len(s)
  BY LenProperties DEF IsSeq
<1> HIDE DEF S
<1>1. a \in Seq(S) /\ Len(a) = k - 1 /\ \A i \in 1 .. k - 1 : a[i] = s[i]
  BY <1>0, SubSeqProperties
<1>2. b \in Seq(S) /\ Len(b) = Len(s) - k /\ \A i \in 1 .. Len(s) - k : b[i] = s[k + i]
  BY <1>0, SubSeqProperties
<1> HIDE DEF a, b
<1> DEFINE v == a \o b
<1>3. /\ v \in Seq(S)
      /\ Len(v) = Len(a) + Len(b)
      /\ \A i \in 1 .. Len(a) + Len(b) : v[i] = IF i <= Len(a) THEN a[i] ELSE b[i - Len(a)]
  BY <1>1, <1>2, ConcatProperties, Zenon
<1>4. RemoveAt(s, k) = v
  BY DEF RemoveAt, a, b
<1> HIDE DEF v
<1>5. DOMAIN v = 1 .. Len(s) - 1
  <2>1. DOMAIN v = 1 .. Len(v)
    BY <1>3, LenProperties
  <2>2. Len(v) = Len(s) - 1
    BY <1>0, <1>1, <1>2, <1>3
  <2> QED BY <2>1, <2>2
<1>6. ASSUME NEW i \in DOMAIN s PROVE s[i] \in Range(v) \cup {s[k]}
  <2>1. CASE i < k
    <3>1. i \in 1 .. Len(a) + Len(b) /\ i <= Len(a) /\ i \in 1 .. k - 1 /\ i \in DOMAIN v
      BY <1>0, <1>1, <1>2, <1>5, <2>1
    <3>2. v[i] = a[i]
      BY <1>3, <3>1
    <3> QED BY <1>1, <3>1, <3>2 DEF Range
  <2>2. CASE i > k
    <3>0. /\ i \in Nat /\ k \in Nat /\ Len(s) \in Nat /\ k < i /\ i <= Len(s) /\ 1 <= k
          /\ Len(a) = k - 1 /\ Len(b) = Len(s) - k
      BY <1>0, <1>1, <1>2, <2>2
    <3>a. Len(a) + Len(b) = Len(s) - 1 /\ i - 1 \in 1 .. Len(s) - 1
      BY <3>0
    <3>b. ~(i - 1 <= Len(a))
      BY <3>0
    <3>c. (i - 1) - Len(a) = i - k
      BY <3>0
    <3>d. i - k \in 1 .. Len(s) - k /\ k + (i - k) = i
      BY <3>0
    <3>1. /\ i - 1 \in 1 .. Len(a) + Len(b) /\ ~(i - 1 <= Len(a))
          /\ (i - 1) - Len(a) = i - k /\ i - k \in 1 .. Len(s) - k /\ k + (i - k) = i
          /\ i - 1 \in 1 .. Len(s) - 1
      BY <3>a, <3>b, <3>c, <3>d, Zenon
    <3>2. v[i - 1] = b[i - k]
      BY <1>3, <3>1
    <3>3. b[i - k] = s[i]
      BY <1>2, <3>1
    <3> QED BY <1>5, <3>1, <3>2, <3>3 DEF Range
  <2>3. i < k \/ i > k \/ i = k
    BY <1>0
  <2> QED BY <2>1, <2>2, <2>3
<1>7. S \subseteq Range(v) \cup {s[k]}
  BY <1>6 DEF S, Range
<1> QED BY <1>3, <1>4, <1>7, SequenceIs DEF S

LEMMA ConcatIs ==
  ASSUME NEW s, IsSeq(s), NEW t, IsSeq(t)
  PROVE  IsSeq(s \o t) /\ Range(s \o t) = Range(s) \cup Range(t)
<1> DEFINE S == Range(s) \cup Range(t)
           v == s \o t
<1>1. ASSUME NEW r, IsSeq(r), Range(r) \subseteq S PROVE r \in Seq(S)
  <2>1. r \in Seq(Range(r))
    BY <1>1 DEF IsSeq
  <2>2. Len(r) \in Nat /\ r \in [1 .. Len(r) -> Range(r)]
    BY <2>1, LenProperties
  <2>3. r \in [1 .. Len(r) -> S]
    BY <1>1, <2>2
  <2> QED BY <2>2, <2>3, SeqDef
<1>2. s \in Seq(S) /\ t \in Seq(S)
  BY <1>1
<1>3. /\ Len(s) \in Nat /\ DOMAIN s = 1 .. Len(s)
      /\ Len(t) \in Nat /\ DOMAIN t = 1 .. Len(t)
  BY ElementIs
<1> HIDE DEF S
<1>4. /\ v \in Seq(S) /\ Len(v) = Len(s) + Len(t)
      /\ \A i \in 1 .. Len(s) + Len(t) : v[i] = IF i <= Len(s) THEN s[i] ELSE t[i - Len(s)]
  BY <1>2, ConcatProperties, Zenon
<1> HIDE DEF v
<1>5. DOMAIN v = 1 .. Len(s) + Len(t)
  BY <1>4, LenProperties
<1>6. ASSUME NEW i \in DOMAIN s PROVE s[i] \in Range(v)
  <2>1. i \in DOMAIN v /\ i <= Len(s)
    BY <1>3, <1>5
  <2>2. v[i] = s[i]
    BY <1>4, <1>5, <2>1
  <2> QED BY <2>1, <2>2 DEF Range
<1>7. ASSUME NEW i \in DOMAIN t PROVE t[i] \in Range(v)
  <2>1. i + Len(s) \in DOMAIN v /\ ~(i + Len(s) <= Len(s)) /\ i + Len(s) - Len(s) = i
    BY <1>3, <1>5
  <2>2. v[i + Len(s)] = t[i]
    BY <1>4, <1>5, <2>1
  <2> QED BY <2>1, <2>2 DEF Range
<1>8. Range(s) \subseteq Range(v) /\ Range(t) \subseteq Range(v)
  BY <1>6, <1>7 DEF Range
<1>9. IsSeq(v) /\ Range(v) \subseteq S
  BY <1>4, SequenceIs
<1> QED BY <1>8, <1>9 DEF S, v

\* A sequence with other elements at the same places.
LEMMA ReplacedIs ==
  ASSUME NEW s, IsSeq(s), NEW v, v = [i \in DOMAIN s |-> v[i]]
  PROVE  IsSeq(v) /\ DOMAIN v = DOMAIN s
<1>1. Len(s) \in Nat /\ DOMAIN s = 1 .. Len(s)
  BY ElementIs
<1>2. v \in [1 .. Len(s) -> Range(v)]
  BY <1>1 DEF Range
<1>3. v \in Seq(Range(v))
  BY <1>1, <1>2, SeqDef
<1> QED BY <1>3 DEF IsSeq


-----------------------------------------------------------------------------
(* Steps of a thread                                                         *)

\* What a thread carries and knows is the same in r as in s.
Alike(r, s) ==
    /\ DOMAIN s = ThreadFields
    /\ s.known = r.known /\ s.jobs = r.jobs /\ s.selfQueue = r.selfQueue

\* What a thread that has become s no longer queues is signed or need not be.
Released(t, s) ==
    \A w \in Range(th[t].selfQueue) \ Range(s.selfQueue) :
        \/ w.h \in redone \/ failed
        \/ table[w.h]["me"] = header[w.h]
        \/ \E j \in Range(s.jobs) : Signs(j, w.h)

\* A thread forgets what it knows, starts jobs, and drops entries of its queue.
LEMMA ThreadMoves ==
  ASSUME Inv, NEW t \in Threads, NEW s, th' = [th EXCEPT ![t] = s],
         UNCHANGED <<chainVars, posts, handlers, turn, inbox, history>>,
         DOMAIN s = ThreadFields, DOMAIN s.known = Heights,
         \A h \in Heights : s.known[h] \subseteq th[t].known[h],
         IsSeq(s.selfQueue), Range(s.selfQueue) \subseteq Range(th[t].selfQueue),
         IsSeq(s.jobs), Range(th[t].jobs) \subseteq Range(s.jobs),
         \A j \in Range(s.jobs) \ Range(th[t].jobs) : DOMAIN j = {"w", "phase"} /\ j.phase = "rpc",
         Released(t, s)
  PROVE  Inv'
<1>0. DOMAIN th' = Threads /\ th'[t] = s /\ \A u \in Threads : u # t => th'[u] = th[u]
  BY DEF Inv, Types
<1>u. /\ header' = header /\ table' = table /\ branch' = branch /\ posts' = posts
      /\ handlers' = handlers /\ turn' = turn /\ inbox' = inbox /\ failed' = failed
      /\ redone' = redone /\ caught' = caught /\ missed' = missed
  BY DEF chainVars, history
<1>a. \A u \in Threads : u = t \/ th'[u] = th[u]
  BY <1>0
<1>1. Types'
  BY <1>0, <1>a, <1>u DEF Inv, Types
<1>2. Carried'
  BY <1>0, <1>a, <1>u DEF Inv, Carried, Current
<1>3. JobsValidated'
  <2> SUFFICES ASSUME NEW u \in Threads, NEW j \in Range(th'[u].jobs)
               PROVE  DOMAIN j = {"w", "phase"} /\ Validated(j)'
    BY DEF JobsValidated
  <2>1. CASE j \in Range(th[u].jobs)
    BY <1>u, <2>1 DEF Inv, JobsValidated, Validated
  <2>2. CASE j \notin Range(th[u].jobs)
    <3>1. u = t
      BY <1>a, <2>2
    <3> QED BY <1>0, <2>2, <3>1 DEF Validated
  <2> QED BY <2>1, <2>2
<1>4. CaughtAreRedone' /\ WitnessesMatch'
  BY <1>u DEF Inv, CaughtAreRedone, WitnessesMatch
<1>5. KnownAreWritten'
  <2> SUFFICES ASSUME NEW u \in Threads, NEW h \in Heights, NEW who \in Ids, who \in th'[u].known[h]
               PROVE  \/ table[h][who] # 0
                      \/ \E j \in Range(th'[u].jobs) : Writes(j, h, who)
                      \/ failed \/ h \in redone
    BY <1>u DEF KnownAreWritten, Writes
  <2>1. who \in th[u].known[h] /\ Range(th[u].jobs) \subseteq Range(th'[u].jobs)
    BY <1>0, <1>a
  <2> QED BY <2>1 DEF Inv, KnownAreWritten
<1>6. Attended'
  <2> SUFFICES ASSUME NEW h \in Heights, header[h] # 0, table[h]["me"] # header[h], h \notin redone,
                      h \notin missed, ~failed
               PROVE  Underway(h)'
    BY <1>u DEF Attended
  <2>1. Underway(h)
    BY DEF Inv, Attended
  <2>2. ASSUME NEW u \in Threads, NEW w \in Range(th[u].selfQueue), w.h = h
        PROVE  Underway(h)'
    <3>1. CASE w \in Range(th'[u].selfQueue)
      BY <2>2, <3>1 DEF Underway
    <3>2. CASE w \notin Range(th'[u].selfQueue)
      <4>1. u = t /\ w \in Range(th[t].selfQueue) \ Range(s.selfQueue)
        BY <1>0, <1>a, <3>2
      <4>2. \E j \in Range(s.jobs) : Signs(j, h)
        BY <2>2, <4>1 DEF Released
      <4> QED BY <1>0, <1>u, <4>2 DEF Underway, Signs
    <3> QED BY <3>1, <3>2
  <2>3. ASSUME NEW u \in Threads, NEW j \in Range(th[u].jobs), Signs(j, h)
        PROVE  Underway(h)'
    <3>1. j \in Range(th'[u].jobs)
      BY <1>0, <1>a
    <3> QED BY <1>u, <2>3, <3>1 DEF Underway, Signs
  <2> QED BY <1>u, <2>1, <2>2, <2>3 DEF Underway
<1> QED BY <1>1, <1>2, <1>3, <1>4, <1>5, <1>6 DEF Inv


LEMMA ThreadIdles ==
  ASSUME Inv, NEW t \in Threads, NEW s, th' = [th EXCEPT ![t] = s], Alike(th[t], s),
         UNCHANGED <<chainVars, posts, handlers, turn, inbox, history>>
  PROVE  Inv'
<1>1. /\ DOMAIN s = ThreadFields /\ DOMAIN s.known = Heights
      /\ IsSeq(s.selfQueue) /\ IsSeq(s.jobs)
      /\ s.known = th[t].known /\ s.jobs = th[t].jobs /\ s.selfQueue = th[t].selfQueue
  BY DEF Alike, Inv, Types
<1>2. Released(t, s)
  BY <1>1 DEF Released
<1> QED BY <1>1, <1>2, ThreadMoves

LEMMA SetupKeeps ==
  ASSUME Inv, NEW t \in Threads, OnThreadLinkSetup(t)
  PROVE  Inv'
<1> DEFINE s == [th[t] EXCEPT !.ready = TRUE]
<1>1. th' = [th EXCEPT ![t] = s]
  BY DEF OnThreadLinkSetup
<1>2. Alike(th[t], s)
  BY DEF Alike, Inv, Types, ThreadFields
<1> HIDE DEF s
<1> QED BY <1>1, <1>2, ThreadIdles DEF OnThreadLinkSetup, p2pVars

\* The queue of peers' witnesses is not what a thread carries.
LEMMA EnqueueKeeps ==
  ASSUME NEW r, DOMAIN r = ThreadFields, NEW w
  PROVE  Alike(r, EnqueueWitnessValidation(r, w))
  BY DEF EnqueueWitnessValidation, Alike, ThreadFields

LEMMA LookUpKeeps ==
  ASSUME Inv, NEW t \in Threads, LookUp(t)
  PROVE  Inv'
<1>1. PICK m : LET s == [th[t] EXCEPT !.lookups = Tail(@)]
               IN th' = [th EXCEPT ![t] =
                           IF header[m.h] = 0 THEN s
                           ELSE EnqueueWitnessValidation(s, Witness("peer", m.h, header[m.h], m.b))]
  BY DEF LookUp
<1> DEFINE s == [th[t] EXCEPT !.lookups = Tail(@)]
           w == Witness("peer", m.h, header[m.h], m.b)
           e == EnqueueWitnessValidation(s, w)
<1>2. DOMAIN s = ThreadFields /\ Alike(th[t], s)
  BY DEF Alike, Inv, Types, ThreadFields
<1>3. Alike(s, e)
  BY <1>2, EnqueueKeeps
<1>4. Alike(th[t], e)
  BY <1>2, <1>3 DEF Alike
<1>5. th' = [th EXCEPT ![t] = s] \/ th' = [th EXCEPT ![t] = e]
  BY <1>1
<1> HIDE DEF s, e
<1> QED BY <1>2, <1>4, <1>5, ThreadIdles DEF LookUp, p2pVars

LEMMA PurgeKeeps ==
  ASSUME Inv, NEW t \in Threads, PurgeOldWitnesses(t)
  PROVE  Inv'
<1> DEFINE old == {h \in Heights : th[t].current - h > Threshold}
           known == [h \in Heights |-> IF h \in old THEN {} ELSE th[t].known[h]]
           count == [h \in Heights |-> IF h \in old THEN 0 ELSE th[t].count[h]]
           s == [th[t] EXCEPT !.known = known, !.count = count]
<1>1. th' = [th EXCEPT ![t] = s]
  BY DEF PurgeOldWitnesses, Inv, Types, ThreadFields
<1>2. /\ DOMAIN s = ThreadFields /\ s.known = known
      /\ s.jobs = th[t].jobs /\ s.selfQueue = th[t].selfQueue
  BY DEF Inv, Types, ThreadFields
<1>3. DOMAIN known = Heights /\ \A h \in Heights : known[h] \subseteq th[t].known[h]
  OBVIOUS
<1> HIDE DEF s, known
<1>4. IsSeq(s.selfQueue) /\ IsSeq(s.jobs)
  BY <1>2 DEF Inv, Types
<1>5. Released(t, s)
  BY <1>2 DEF Released
<1> QED BY <1>1, <1>2, <1>3, <1>4, <1>5, ThreadMoves DEF PurgeOldWitnesses, p2pVars

\* A job is begun, as the last.
LEMMA JobBegins ==
  ASSUME Inv, NEW t \in Threads, NEW w, NEW jobs, jobs = Append(th[t].jobs, Job(w, "rpc"))
  PROVE  /\ IsSeq(jobs) /\ Range(jobs) = Range(th[t].jobs) \cup {Job(w, "rpc")}
         /\ DOMAIN Job(w, "rpc") = {"w", "phase"}
         /\ Job(w, "rpc").phase = "rpc" /\ Job(w, "rpc").w = w
<1>1. IsSeq(th[t].jobs)
  BY DEF Inv, Types
<1> QED BY <1>1, AppendIs DEF Job

LEMMA DrainKeeps ==
  ASSUME Inv, NEW t \in Threads, DrainWitnessQueue(t)
  PROVE  Inv'
<1>1. PICK w : LET s == [th[t] EXCEPT !.queue = Tail(@)]
                   c == [s EXCEPT !.count[w.h] = @ + 1]
               IN \/ th' = [th EXCEPT ![t] = s]
                  \/ th' = [th EXCEPT ![t] = c]
                  \/ th' = [th EXCEPT ![t] = [c EXCEPT !.jobs = Append(@, Job(w, "rpc"))]]
  BY DEF DrainWitnessQueue
<1> DEFINE s == [th[t] EXCEPT !.queue = Tail(@)]
           c == [s EXCEPT !.count[w.h] = @ + 1]
           e == [c EXCEPT !.jobs = Append(@, Job(w, "rpc"))]
<1>2. DOMAIN s = ThreadFields /\ Alike(th[t], s)
  BY DEF Alike, Inv, Types, ThreadFields
<1>3. DOMAIN c = ThreadFields /\ Alike(th[t], c)
  BY <1>2 DEF Alike, ThreadFields
<1>4. /\ DOMAIN e = ThreadFields /\ e.known = th[t].known /\ e.selfQueue = th[t].selfQueue
      /\ e.jobs = Append(th[t].jobs, Job(w, "rpc"))
  BY <1>3 DEF Alike, ThreadFields
<1> HIDE DEF s, c, e
<1>5. Released(t, e) /\ DOMAIN e.known = Heights /\ IsSeq(e.selfQueue)
  BY <1>4 DEF Released, Inv, Types
<1>u. UNCHANGED <<chainVars, posts, handlers, turn, inbox, history>>
  BY DEF DrainWitnessQueue, p2pVars
<1>6. CASE th' = [th EXCEPT ![t] = e]
  <2>1. /\ IsSeq(e.jobs) /\ Range(th[t].jobs) \subseteq Range(e.jobs)
        /\ \A j \in Range(e.jobs) \ Range(th[t].jobs) : DOMAIN j = {"w", "phase"} /\ j.phase = "rpc"
    <3>1. /\ IsSeq(e.jobs) /\ Range(e.jobs) = Range(th[t].jobs) \cup {Job(w, "rpc")}
          /\ DOMAIN Job(w, "rpc") = {"w", "phase"} /\ Job(w, "rpc").phase = "rpc"
      BY <1>4, JobBegins, ZenonT(40)
    <3> QED BY <3>1
  <2> QED BY <1>4, <1>5, <1>6, <1>u, <2>1, ThreadMoves
<1> QED BY <1>1, <1>2, <1>3, <1>6, <1>u, ThreadIdles DEF s, c, e


LEMMA SelfQueueKeeps ==
  ASSUME Inv, NEW t \in Threads, ProcessSelfQueue(t)
  PROVE  Inv'
<1> DEFINE w == Head(th[t].selfQueue)
           r == IF th[t].current > w.h THEN RevertKnownWitnessesReorg(th[t], w.h) ELSE th[t]
           s == SetCurrentBlock([r EXCEPT !.selfQueue = Tail(@)], w.h)
           e == [s EXCEPT !.jobs = Append(@, Job(w, "rpc"))]
<1>0. /\ th[t].selfQueue # << >>
      /\ IF Begins(s, w) THEN th' = [th EXCEPT ![t] = e] ELSE th' = [th EXCEPT ![t] = s]
  BY Zenon DEF ProcessSelfQueue, SelfReady
<1>u. UNCHANGED <<chainVars, posts, handlers, turn, inbox, history>>
  BY Zenon DEF ProcessSelfQueue
<1>1. /\ IsSeq(Tail(th[t].selfQueue))
      /\ Range(th[t].selfQueue) = Range(Tail(th[t].selfQueue)) \cup {w}
  <2>1. IsSeq(th[t].selfQueue)
    BY DEF Inv, Types
  <2> QED BY <1>0, <2>1, TailIs, Zenon
<1>2. w.who = "me" /\ w.sig = w.b /\ Current(w.h, w.b)
  BY <1>1 DEF Inv, Carried
<1> HIDE DEF w
<1>3. /\ DOMAIN r = ThreadFields /\ DOMAIN r.known = Heights
      /\ r.jobs = th[t].jobs /\ r.selfQueue = th[t].selfQueue
      /\ \A h \in Heights : r.known[h] \subseteq th[t].known[h]
  <2>1. DOMAIN th[t] = ThreadFields /\ DOMAIN th[t].known = Heights
    BY DEF Inv, Types
  <2>2. CASE th[t].current > w.h
    <3>1. r = RevertKnownWitnessesReorg(th[t], w.h)
      BY <2>2
    <3>2. r.known = [k \in Heights |-> IF k >= w.h THEN {} ELSE th[t].known[k]]
      BY <2>1, <3>1 DEF RevertKnownWitnessesReorg, ThreadFields
    <3>3. /\ DOMAIN r = ThreadFields /\ r.jobs = th[t].jobs /\ r.selfQueue = th[t].selfQueue
      BY <2>1, <3>1 DEF RevertKnownWitnessesReorg, ThreadFields
    <3> QED BY <3>2, <3>3
  <2>3. CASE ~(th[t].current > w.h)
    <3>1. r = th[t]
      BY <2>3
    <3> QED BY <2>1, <3>1
  <2> QED BY <2>2, <2>3
<1> HIDE DEF r
<1>4. /\ DOMAIN s = ThreadFields /\ s.known = r.known /\ s.jobs = r.jobs
      /\ s.selfQueue = Tail(th[t].selfQueue) /\ s.current = w.h
  BY <1>3 DEF SetCurrentBlock, ThreadFields
<1> HIDE DEF s
<1>5. /\ DOMAIN e = ThreadFields /\ e.known = s.known /\ e.selfQueue = s.selfQueue
      /\ e.jobs = Append(th[t].jobs, Job(w, "rpc"))
  BY <1>3, <1>4 DEF ThreadFields
<1> HIDE DEF e
<1>6. IsSeq(th[t].jobs)
  BY DEF Inv, Types
<1>7. CASE Begins(s, w)
  <2>1. /\ IsSeq(e.jobs) /\ Range(e.jobs) = Range(th[t].jobs) \cup {Job(w, "rpc")}
        /\ DOMAIN Job(w, "rpc") = {"w", "phase"}
        /\ Job(w, "rpc").phase = "rpc" /\ Job(w, "rpc").w = w
    BY <1>5, JobBegins, ZenonT(40)
  <2>2. /\ Range(th[t].jobs) \subseteq Range(e.jobs)
        /\ \A j \in Range(e.jobs) \ Range(th[t].jobs) : DOMAIN j = {"w", "phase"} /\ j.phase = "rpc"
    BY <2>1
  <2>3. Released(t, e)
    <3>1. w.h \in redone \/ Signs(Job(w, "rpc"), w.h)
      BY <1>2, <2>1 DEF Current, Signs
    <3>2. Range(th[t].selfQueue) \ Range(e.selfQueue) \subseteq {w}
      BY <1>1, <1>4, <1>5
    <3> QED BY <2>1, <3>1, <3>2 DEF Released
  <2>4. /\ DOMAIN e.known = Heights /\ \A h \in Heights : e.known[h] \subseteq th[t].known[h]
        /\ IsSeq(e.selfQueue) /\ Range(e.selfQueue) \subseteq Range(th[t].selfQueue)
    BY <1>1, <1>3, <1>4, <1>5
  <2>5. th' = [th EXCEPT ![t] = e]
    BY <1>0, <1>7
  <2> QED BY <1>5, <1>u, <2>1, <2>2, <2>3, <2>4, <2>5, ThreadMoves
<1>8. CASE ~Begins(s, w)
  <2>1. "me" \in th[t].known[w.h] /\ w.h \in Heights
    <3>1. w.h \in Heights /\ w.h \in Nat /\ Threshold \in Nat
      BY <1>2, WitnessesAssumption DEF Current, Heights
    <3>2. ~TooOld(s, w.h)
      BY <1>4, <3>1 DEF TooOld
    <3> QED BY <1>2, <1>3, <1>4, <1>8, <3>1, <3>2 DEF Begins, FilterWitnesses
  <2> DEFINE h == w.h
  <2>2. h \in redone \/ failed \/ table[h]["me"] = header[h] \/ \E j \in Range(th[t].jobs) : Signs(j, h)
    <3>0. "me" \in Ids
      BY DEF Ids
    <3>1. \/ table[h]["me"] # 0
          \/ \E j \in Range(th[t].jobs) : Writes(j, h, "me")
          \/ failed \/ h \in redone
      BY <2>1, <3>0 DEF Inv, KnownAreWritten
    <3>2. CASE table[h]["me"] # 0
      <4>1. table[h]["me"] = header[h] \/ \E v \in caught : v.h = h
        BY <2>1, <3>0, <3>2 DEF Inv, WitnessesMatch
      <4> QED BY <2>1, <4>1 DEF Inv, CaughtAreRedone
    <3>3. ASSUME NEW j \in Range(th[t].jobs), Writes(j, h, "me")
          PROVE  h \in redone \/ Signs(j, h)
      <4>1. j.w.b = j.w.sig /\ (header[h] = j.w.sig \/ j.w \in caught) /\ j.w.h = h /\ j.w.who = "me"
        BY <2>1, <3>3 DEF Inv, JobsValidated, Validated, Writes
      <4>2. j.w \in caught => h \in redone
        BY <2>1, <4>1 DEF Inv, CaughtAreRedone
      <4> QED BY <4>1, <4>2 DEF Signs
    <3> QED BY <3>1, <3>2, <3>3
  <2>3. Released(t, s)
    <3>1. Range(th[t].selfQueue) \ Range(s.selfQueue) \subseteq {w}
      BY <1>1, <1>4
    <3> QED BY <1>3, <1>4, <2>2, <3>1 DEF Released
  <2>4. /\ DOMAIN s.known = Heights /\ \A k \in Heights : s.known[k] \subseteq th[t].known[k]
        /\ IsSeq(s.selfQueue) /\ Range(s.selfQueue) \subseteq Range(th[t].selfQueue)
        /\ IsSeq(s.jobs) /\ s.jobs = th[t].jobs
    BY <1>1, <1>3, <1>4, <1>6
  <2>5. th' = [th EXCEPT ![t] = s]
    BY <1>0, <1>8
  <2> QED BY <1>4, <1>u, <2>3, <2>4, <2>5, ThreadMoves
<1> QED BY <1>7, <1>8


\* The answer of the RPC thread is that the witness is valid.
LEMMA ValidKeeps ==
  ASSUME Inv, NEW t \in Threads, NEW i \in DOMAIN th[t].jobs, th[t].jobs[i].phase = "rpc",
         ValidateBlockHeaders(th[t].jobs[i].w), ValidateOPNetWitnesses(th[t].jobs[i].w),
         NEW s, th' = [th EXCEPT ![t] = s],
         DOMAIN s = ThreadFields, s.selfQueue = th[t].selfQueue,
         s.known = [th[t].known EXCEPT ![th[t].jobs[i].w.h] = @ \cup {th[t].jobs[i].w.who}],
         s.jobs = [th[t].jobs EXCEPT ![i] = [@ EXCEPT !.phase = "write"]],
         UNCHANGED <<chainVars, posts, handlers, turn, inbox, history>>
  PROVE  Inv'
<1> DEFINE j == th[t].jobs[i]
           n == [j EXCEPT !.phase = "write"]
           jobs == [th[t].jobs EXCEPT ![i] = n]
           known == [th[t].known EXCEPT ![j.w.h] = @ \cup {j.w.who}]
<1>0. DOMAIN th[t] = ThreadFields /\ DOMAIN th[t].known = Heights /\ IsSeq(th[t].jobs) /\ DOMAIN th = Threads
  BY DEF Inv, Types
<1>2. /\ DOMAIN s = ThreadFields /\ s.known = known /\ s.jobs = jobs /\ s.selfQueue = th[t].selfQueue
  OBVIOUS
<1>3. j \in Range(th[t].jobs) /\ DOMAIN j = {"w", "phase"}
  BY DEF Inv, JobsValidated, Range
<1>4. n.w = j.w /\ n.phase = "write" /\ DOMAIN n = {"w", "phase"}
  BY <1>3
<1>5. /\ IsSeq(jobs)
      /\ Range(jobs) \subseteq Range(th[t].jobs) \cup {n}
      /\ n \in Range(jobs)
      /\ \A k \in Range(th[t].jobs) : k \in Range(jobs) \/ k = j
  <2>1. jobs = [k \in DOMAIN th[t].jobs |-> jobs[k]]
    OBVIOUS
  <2>2. IsSeq(jobs) /\ DOMAIN jobs = DOMAIN th[t].jobs
    BY <1>0, <2>1, ReplacedIs
  <2>3. jobs[i] = n /\ \A k \in DOMAIN th[t].jobs : k # i => jobs[k] = th[t].jobs[k]
    BY SMTT(30)
  <2> HIDE DEF jobs, n
  <2> QED BY <2>2, <2>3 DEF Range
<1>6. /\ DOMAIN known = Heights
      /\ \A h \in Heights, who \in Ids : who \in known[h] =>
            who \in th[t].known[h] \/ (h = j.w.h /\ who = j.w.who)
  BY <1>0
<1>v. header[j.w.h] # 0 /\ header[j.w.h] = j.w.b /\ j.w.sig = j.w.b
  BY DEF ValidateBlockHeaders, ValidateOPNetWitnesses
<1>p. j.phase = "rpc"
  OBVIOUS
<1> HIDE DEF j, n, jobs, known
<1>7. DOMAIN th' = Threads /\ th'[t] = s /\ \A u \in Threads : u = t \/ th'[u] = th[u]
  BY <1>0
<1>u. /\ header' = header /\ table' = table /\ branch' = branch /\ posts' = posts
      /\ handlers' = handlers /\ turn' = turn /\ inbox' = inbox /\ failed' = failed
      /\ redone' = redone /\ caught' = caught /\ missed' = missed
  BY DEF chainVars, history
<1>8. Types'
  BY <1>2, <1>5, <1>6, <1>7, <1>u DEF Inv, Types
<1>9. Carried'
  <2>1. \A u \in Threads : th'[u].selfQueue = th[u].selfQueue
    BY <1>2, <1>7
  <2> QED BY <1>u, <2>1 DEF Inv, Carried, Current
<1>10. JobsValidated'
  <2> SUFFICES ASSUME NEW u \in Threads, NEW k \in Range(th'[u].jobs)
               PROVE  DOMAIN k = {"w", "phase"} /\ Validated(k)'
    BY DEF JobsValidated
  <2>1. CASE k \in Range(th[u].jobs)
    BY <1>u, <2>1 DEF Inv, JobsValidated, Validated
  <2>2. CASE k \notin Range(th[u].jobs)
    <3>1. k = n
      BY <1>2, <1>5, <1>7, <2>2
    <3>2. j.w.h \in Heights => header[j.w.h] \in Nat
      BY DEF Inv, Types
    <3> QED BY <1>4, <1>u, <1>v, <3>1, <3>2 DEF Validated
  <2> QED BY <2>1, <2>2
<1>11. CaughtAreRedone' /\ WitnessesMatch'
  BY <1>u DEF Inv, CaughtAreRedone, WitnessesMatch
<1>12. KnownAreWritten'
  <2> SUFFICES ASSUME NEW u \in Threads, NEW h \in Heights, NEW who \in Ids, who \in th'[u].known[h]
               PROVE  \/ table[h][who] # 0
                      \/ \E k \in Range(th'[u].jobs) : Writes(k, h, who)
                      \/ failed \/ h \in redone
    BY <1>u DEF KnownAreWritten, Writes
  <2>1. CASE who \in th[u].known[h]
    <3>1. \/ table[h][who] # 0
          \/ \E k \in Range(th[u].jobs) : Writes(k, h, who)
          \/ failed \/ h \in redone
      BY <2>1 DEF Inv, KnownAreWritten
    <3>2. ASSUME NEW k \in Range(th[u].jobs), Writes(k, h, who) PROVE k \in Range(th'[u].jobs)
      BY <1>2, <1>5, <1>7, <1>p, <3>2 DEF Writes
    <3> QED BY <3>1, <3>2
  <2>2. CASE who \notin th[u].known[h]
    <3>1. u = t /\ h = j.w.h /\ who = j.w.who
      BY <1>2, <1>6, <1>7, <2>2
    <3> QED BY <1>2, <1>4, <1>5, <1>7, <3>1 DEF Writes
  <2> QED BY <2>1, <2>2
<1>13. Attended'
  <2> SUFFICES ASSUME NEW h \in Heights, header[h] # 0, table[h]["me"] # header[h], h \notin redone,
                      h \notin missed, ~failed
               PROVE  Underway(h)'
    BY <1>u DEF Attended
  <2>1. Underway(h)
    BY DEF Inv, Attended
  <2>2. ASSUME NEW u \in Threads, NEW w \in Range(th[u].selfQueue), w.h = h
        PROVE  Underway(h)'
    BY <1>2, <1>7, <2>2 DEF Underway
  <2>3. ASSUME NEW u \in Threads, NEW k \in Range(th[u].jobs), Signs(k, h)
        PROVE  Underway(h)'
    <3>1. k \in Range(th'[u].jobs) \/ (u = t /\ k = j)
      BY <1>2, <1>5, <1>7
    <3>2. k = j => Signs(n, h)
      BY <1>4, <2>3 DEF Signs
    <3>3. \E x \in Range(th'[u].jobs) : Signs(x, h)
      BY <1>2, <1>5, <1>7, <2>3, <3>1, <3>2
    <3> QED BY <1>u, <3>3 DEF Underway, Signs
  <2> QED BY <1>u, <2>1, <2>2, <2>3 DEF Underway
<1> QED BY <1>8, <1>9, <1>10, <1>11, <1>12, <1>13 DEF Inv

\* A job ends, and may have written.
LEMMA JobEnds ==
  ASSUME Inv, NEW t \in Threads, NEW i \in DOMAIN th[t].jobs,
         NEW s, s = [th[t] EXCEPT !.jobs = RemoveAt(@, i)], th' = [th EXCEPT ![t] = s],
         UNCHANGED <<header, branch, posts, handlers, turn, inbox, redone, caught, missed>>,
         table' \in [Heights -> [Ids -> Nat]], WitnessesMatch', failed => failed',
         \A h \in Heights, who \in Ids : table[h][who] # 0 => table'[h][who] # 0,
         \A h \in Heights : table[h]["me"] = header[h] =>
             table'[h]["me"] = header[h] \/ h \in redone,
         \A h \in Heights, who \in Ids : Writes(th[t].jobs[i], h, who) => failed' \/ table'[h][who] # 0,
         \A h \in Heights : Signs(th[t].jobs[i], h) /\ header[h] # 0 =>
             failed' \/ table'[h]["me"] = header[h]
  PROVE  Inv'
<1> DEFINE j == th[t].jobs[i]
           jobs == RemoveAt(th[t].jobs, i)
<1>0. DOMAIN th[t] = ThreadFields /\ IsSeq(th[t].jobs) /\ DOMAIN th = Threads
  BY DEF Inv, Types
<1>2. /\ DOMAIN s = ThreadFields /\ s.known = th[t].known /\ s.jobs = jobs
      /\ s.selfQueue = th[t].selfQueue
  BY <1>0 DEF ThreadFields
<1>3. /\ IsSeq(jobs) /\ Range(jobs) \subseteq Range(th[t].jobs)
      /\ Range(th[t].jobs) \subseteq Range(jobs) \cup {j}
  BY <1>0, RemoveIs
<1>a. /\ \A h \in Heights, who \in Ids : Writes(j, h, who) => failed' \/ table'[h][who] # 0
      /\ \A h \in Heights : Signs(j, h) /\ header[h] # 0 => failed' \/ table'[h]["me"] = header[h]
  BY Zenon
<1> HIDE DEF j, jobs
<1>4. DOMAIN th' = Threads /\ th'[t] = s /\ \A u \in Threads : u = t \/ th'[u] = th[u]
  BY <1>0
<1>5. \A u \in Threads : /\ Range(th'[u].jobs) \subseteq Range(th[u].jobs)
                         /\ \A k \in Range(th[u].jobs) : k \in Range(th'[u].jobs) \/ k = j
                         /\ th'[u].known = th[u].known /\ th'[u].selfQueue = th[u].selfQueue
  BY <1>2, <1>3, <1>4
<1>6. Types'
  BY <1>2, <1>3, <1>4 DEF Inv, Types
<1>7. Carried'
  BY <1>5 DEF Inv, Carried, Current
<1>8. JobsValidated'
  BY <1>5 DEF Inv, JobsValidated, Validated
<1>9. CaughtAreRedone'
  BY DEF Inv, CaughtAreRedone
<1>10. KnownAreWritten'
  <2> SUFFICES ASSUME NEW u \in Threads, NEW h \in Heights, NEW who \in Ids, who \in th'[u].known[h]
               PROVE  \/ table'[h][who] # 0
                      \/ \E k \in Range(th'[u].jobs) : Writes(k, h, who)
                      \/ failed' \/ h \in redone
    BY DEF KnownAreWritten, Writes
  <2>1. \/ table[h][who] # 0
        \/ \E k \in Range(th[u].jobs) : Writes(k, h, who)
        \/ failed \/ h \in redone
    BY <1>5 DEF Inv, KnownAreWritten
  <2> QED BY <1>5, <1>a, <2>1, ZenonT(40)
<1>11. Attended'
  <2> SUFFICES ASSUME NEW h \in Heights, header[h] # 0, table'[h]["me"] # header[h], h \notin redone,
                      h \notin missed, ~failed'
               PROVE  Underway(h)'
    BY DEF Attended
  <2>1. Underway(h)
    BY DEF Inv, Attended
  <2>2. ASSUME NEW u \in Threads, NEW k \in Range(th[u].jobs), Signs(k, h)
        PROVE  Underway(h)'
    <3>1. k \in Range(th'[u].jobs)
      BY <1>5, <1>a, <2>2
    <3> QED BY <2>2, <3>1 DEF Underway, Signs
  <2> QED BY <1>5, <2>1, <2>2 DEF Underway
<1> QED BY <1>6, <1>7, <1>8, <1>9, <1>10, <1>11 DEF Inv


LEMMA ProcessKeeps ==
  ASSUME Inv, NEW t \in Threads, ProcessBlockWitnesses(t)
  PROVE  Inv'
<1>1. PICK i \in DOMAIN th[t].jobs :
        LET j == th[t].jobs[i] IN
        /\ j.phase = "rpc"
        /\ \/ /\ ValidateBlockHeaders(j.w) /\ ValidateOPNetWitnesses(j.w)
              /\ th' = [th EXCEPT ![t].known[j.w.h] = @ \cup {j.w.who}, ![t].jobs[i].phase = "write"]
           \/ /\ ~(ValidateBlockHeaders(j.w) /\ ValidateOPNetWitnesses(j.w))
              /\ th' = [th EXCEPT ![t].jobs = RemoveAt(@, i)]
  BY DEF ProcessBlockWitnesses, EndJob
<1>u. UNCHANGED <<chainVars, posts, handlers, turn, inbox, history>>
  BY DEF ProcessBlockWitnesses
<1>0. DOMAIN th[t] = ThreadFields /\ DOMAIN th = Threads
  BY SMTT(30) DEF Inv, Types
<1> DEFINE j == th[t].jobs[i]
<1>2. CASE /\ ValidateBlockHeaders(j.w) /\ ValidateOPNetWitnesses(j.w)
           /\ th' = [th EXCEPT ![t].known[j.w.h] = @ \cup {j.w.who}, ![t].jobs[i].phase = "write"]
  <2> DEFINE jobs == [th[t].jobs EXCEPT ![i] = [@ EXCEPT !.phase = "write"]]
             known == [th[t].known EXCEPT ![j.w.h] = @ \cup {j.w.who}]
             s == [th[t] EXCEPT !.known = known, !.jobs = jobs]
  <2>1. th' = [th EXCEPT ![t] = s]
    BY <1>0, <1>2 DEF ThreadFields
  <2>2. /\ DOMAIN s = ThreadFields /\ s.known = known /\ s.jobs = jobs
        /\ s.selfQueue = th[t].selfQueue
    BY <1>0 DEF ThreadFields
  <2>3. j.phase = "rpc"
    BY <1>1
  <2> HIDE DEF s
  <2> QED BY <1>2, <1>u, <2>1, <2>2, <2>3, ValidKeeps, ZenonT(40)
<1>3. CASE /\ ~(ValidateBlockHeaders(j.w) /\ ValidateOPNetWitnesses(j.w))
           /\ th' = [th EXCEPT ![t].jobs = RemoveAt(@, i)]
  <2> DEFINE s == [th[t] EXCEPT !.jobs = RemoveAt(@, i)]
  <2>1. th' = [th EXCEPT ![t] = s]
    BY <1>0, <1>3 DEF ThreadFields
  <2>2. \A h \in Heights, who \in Ids : ~Writes(j, h, who)
    BY <1>1 DEF Writes
  <2>3. \A h \in Heights : ~(Signs(j, h) /\ header[h] # 0)
    BY <1>3 DEF Signs, ValidateBlockHeaders, ValidateOPNetWitnesses
  <2>4. /\ table' = table /\ failed' = failed
        /\ UNCHANGED <<header, branch, posts, handlers, turn, inbox, redone, caught, missed>>
    BY <1>u DEF chainVars, history
  <2>5. table' \in [Heights -> [Ids -> Nat]] /\ WitnessesMatch'
    BY <2>4 DEF Inv, Types, WitnessesMatch
  <2> HIDE DEF j
  <2>6. /\ \A h \in Heights, who \in Ids : Writes(j, h, who) => failed' \/ table'[h][who] # 0
        /\ \A h \in Heights : Signs(j, h) /\ header[h] # 0 => failed' \/ table'[h]["me"] = header[h]
    BY <2>2, <2>3
  <2>7. /\ \A h \in Heights, who \in Ids : table[h][who] # 0 => table'[h][who] # 0
        /\ \A h \in Heights : table[h]["me"] = header[h] =>
              table'[h]["me"] = header[h] \/ h \in redone
    BY <2>4
  <2> QED BY <2>1, <2>4, <2>5, <2>6, <2>7, JobEnds DEF j
<1> QED BY <1>1, <1>2, <1>3

LEMMA WriteKeeps ==
  ASSUME Inv, NEW t \in Threads, WriteBlockWitnesses(t)
  PROVE  Inv'
<1>1. PICK i \in DOMAIN th[t].jobs :
        LET j == th[t].jobs[i] IN
        /\ j.phase = "write"
        /\ table' = [table EXCEPT ![j.w.h][j.w.who] = j.w.sig]
        /\ th' = [th EXCEPT ![t].jobs = RemoveAt(@, i)]
  BY DEF WriteBlockWitnesses, EndJob
<1>u. UNCHANGED <<header, branch, posts, handlers, turn, inbox, history>>
  BY DEF WriteBlockWitnesses
<1>0. DOMAIN th[t] = ThreadFields /\ DOMAIN th = Threads /\ table \in [Heights -> [Ids -> Nat]]
  BY DEF Inv, Types
<1> DEFINE j == th[t].jobs[i]
           w == j.w
           s == [th[t] EXCEPT !.jobs = RemoveAt(@, i)]
<1>2. th' = [th EXCEPT ![t] = s]
  BY <1>0, <1>1 DEF ThreadFields
<1>3. w.h \in Heights => w.sig \in Nat \ {0} /\ w.b = w.sig /\ (header[w.h] = w.sig \/ w \in caught)
  <2>1. j \in Range(th[t].jobs)
    BY DEF Range
  <2> QED BY <1>1, <2>1 DEF Inv, JobsValidated, Validated
<1>4. \A h \in Heights, who \in Ids :
         table'[h][who] = IF h = w.h /\ who = w.who THEN w.sig ELSE table[h][who]
  BY <1>0, <1>1
<1>5. table' \in [Heights -> [Ids -> Nat]]
  <2>1. CASE w.h \in Heights
    BY <1>0, <1>1, <1>3, <2>1
  <2>2. CASE w.h \notin Heights
    BY <1>0, <1>1, <2>2
  <2> QED BY <2>1, <2>2
<1>p. j.phase = "write"
  BY <1>1
<1> HIDE DEF w
<1>c. w \in caught /\ w.h \in Heights => w.h \in redone
  BY DEF Inv, CaughtAreRedone
<1>6. WitnessesMatch'
  <2> SUFFICES ASSUME NEW h \in Heights, NEW who \in Ids, table'[h][who] \notin {0, header[h]}
               PROVE  \E v \in caught : v.h = h /\ v.who = who /\ v.sig = table'[h][who]
    BY <1>u DEF WitnessesMatch, history
  <2>1. CASE h = w.h /\ who = w.who
    BY <1>3, <1>4, <2>1
  <2>2. CASE ~(h = w.h /\ who = w.who)
    BY <1>4, <2>2 DEF Inv, WitnessesMatch
  <2> QED BY <2>1, <2>2
<1>7. \A h \in Heights, who \in Ids : table[h][who] # 0 => table'[h][who] # 0
  BY <1>3, <1>4
<1>me. "me" \in Ids
  BY DEF Ids
<1>8. \A h \in Heights : table[h]["me"] = header[h] => table'[h]["me"] = header[h] \/ h \in redone
  BY <1>3, <1>4, <1>c, <1>me
<1>9. \A h \in Heights, who \in Ids : Writes(j, h, who) => failed' \/ table'[h][who] # 0
  BY <1>3, <1>4 DEF Writes, w
<1>10. \A h \in Heights : Signs(j, h) /\ header[h] # 0 => failed' \/ table'[h]["me"] = header[h]
  BY <1>4, <1>me DEF Signs, w
<1> HIDE DEF j
<1>11. (failed => failed') /\ UNCHANGED <<header, branch, posts, handlers, turn, inbox, redone, caught, missed>>
  BY <1>u DEF history
<1> QED BY <1>2, <1>5, <1>6, <1>7, <1>8, <1>9, <1>10, <1>11, JobEnds DEF j

LEMMA JobFailsKeeps ==
  ASSUME Inv, NEW t \in Threads, JobFails(t)
  PROVE  Inv'
<1>1. PICK i \in DOMAIN th[t].jobs : th' = [th EXCEPT ![t].jobs = RemoveAt(@, i)]
  BY DEF JobFails, EndJob
<1>u. /\ UNCHANGED <<chainVars, posts, handlers, turn, inbox, redone, caught, missed>>
      /\ failed'
  BY DEF JobFails
<1> DEFINE s == [th[t] EXCEPT !.jobs = RemoveAt(@, i)]
<1>2. th' = [th EXCEPT ![t] = s]
  BY <1>1 DEF Inv, Types, ThreadFields
<1>3. /\ header' = header /\ table' = table
      /\ UNCHANGED <<header, branch, posts, handlers, turn, inbox, redone, caught, missed>>
  BY <1>u DEF chainVars
<1>4. table' \in [Heights -> [Ids -> Nat]] /\ WitnessesMatch'
  BY <1>3 DEF Inv, Types, WitnessesMatch
<1>5. /\ \A h \in Heights, who \in Ids : table[h][who] # 0 => table'[h][who] # 0
      /\ \A h \in Heights : table[h]["me"] = header[h] => table'[h]["me"] = header[h] \/ h \in redone
  BY <1>3
<1> QED BY <1>2, <1>3, <1>4, <1>5, <1>u, JobEnds


-----------------------------------------------------------------------------
(* Messages                                                                  *)

\* What peers send fills queues that a thread does not carry blocks in.
LEMMA PeerMessageKeeps ==
  ASSUME NEW r, DOMAIN r = ThreadFields, NEW m
  PROVE  Alike(r, PeerMessage(r, m))
<1>1. ASSUME NEW w PROVE Alike(r, AddToPendingWitnessesVerification(r, w))
  BY DEF AddToPendingWitnessesVerification, Alike, ThreadFields
<1>2. ASSUME NEW q, DOMAIN q = ThreadFields PROVE Alike(q, ProcessQueuedWitnesses(q))
  BY <1>2 DEF ProcessQueuedWitnesses, Alike, ThreadFields
<1>3. ASSUME NEW w PROVE Alike(r, OnBlockWitness(r, w))
  <2>1. Alike(r, EnqueueWitnessValidation(r, w))
    BY EnqueueKeeps
  <2>2. Alike(r, ProcessQueuedWitnesses(EnqueueWitnessValidation(r, w)))
    BY <1>2, <2>1 DEF Alike
  <2>3. Alike(r, r)
    BY DEF Alike
  <2> QED BY <1>1, <2>2, <2>3 DEF OnBlockWitness
<1>4. Alike(r, OnBlockWitnessResponse(r, m))
  BY DEF OnBlockWitnessResponse, Alike, ThreadFields
<1>5. Alike(r, [r EXCEPT !.buffer = Append(@, m)])
  BY DEF Alike, ThreadFields
<1> QED BY <1>3, <1>4, <1>5 DEF PeerMessage

LEMMA HeightUpdateKeeps ==
  ASSUME NEW r, DOMAIN r = ThreadFields, NEW m
  PROVE  Alike(r, HeightUpdate(r, m))
<1>1. ASSUME NEW q, DOMAIN q = ThreadFields PROVE Alike(q, FlushPendingPeerMessages(q))
  BY <1>1 DEF FlushPendingPeerMessages, Alike, ThreadFields
<1> DEFINE s == SetCurrentBlock(r, m.h)
           q == [s EXCEPT !.set = TRUE]
<1>2. Alike(r, s)
  BY DEF SetCurrentBlock, Alike, ThreadFields
<1>3. Alike(r, q)
  BY <1>2 DEF Alike, ThreadFields
<1>4. HeightUpdate(r, m) = s \/ HeightUpdate(r, m) = FlushPendingPeerMessages(q)
  BY DEF HeightUpdate
<1> HIDE DEF s, q
<1>5. Alike(r, FlushPendingPeerMessages(q))
  BY <1>1, <1>3 DEF Alike
<1> QED BY <1>2, <1>4, <1>5


\* The calls of onBlockProcessed go on with the same blocks.
SameBlocks(ds, es) ==
    /\ IsSeq(es)
    /\ \A e \in Range(es) : \E d \in Range(ds) :
          DOMAIN e = DOMAIN d /\ e.h = d.h /\ e.b = d.b
    /\ \A d \in Range(ds) : \E e \in Range(es) : e.h = d.h

\* At every place there is the same call, with other waitsFor and acks.
LEMMA CallsGoOn ==
  ASSUME NEW ds, IsSeq(ds), NEW es, es = [i \in DOMAIN ds |-> es[i]],
         \A i \in DOMAIN ds : DOMAIN es[i] = DOMAIN ds[i] /\ es[i].h = ds[i].h /\ es[i].b = ds[i].b
  PROVE  SameBlocks(ds, es)
<1>1. IsSeq(es) /\ DOMAIN es = DOMAIN ds
  BY ReplacedIs
<1>2. /\ \A i \in DOMAIN ds : ds[i] \in Range(ds)
      /\ \A d \in Range(ds) : \E i \in DOMAIN ds : ds[i] = d
  BY ElementIs
<1>3. /\ \A i \in DOMAIN es : es[i] \in Range(es)
      /\ \A e \in Range(es) : \E i \in DOMAIN es : es[i] = e
  BY <1>1, ElementIs
<1>4. ASSUME NEW e \in Range(es)
      PROVE  \E d \in Range(ds) : DOMAIN e = DOMAIN d /\ e.h = d.h /\ e.b = d.b
  <2>1. PICK i \in DOMAIN es : es[i] = e
    BY <1>3
  <2> QED BY <1>1, <1>2, <2>1
<1>5. ASSUME NEW d \in Range(ds) PROVE \E e \in Range(es) : e.h = d.h
  <2>1. PICK i \in DOMAIN ds : ds[i] = d
    BY <1>2
  <2> QED BY <1>1, <1>3, <2>1
<1> QED BY <1>1, <1>4, <1>5 DEF SameBlocks

\* A thread takes a message: what it carried before it still carries.
LEMMA MessageTaken ==
  ASSUME Inv, NEW t \in Threads, inbox[t] # << >>, NEW s, th' = [th EXCEPT ![t] = s],
         inbox' = [inbox EXCEPT ![t] = Tail(@)], SameBlocks(handlers, handlers'),
         DOMAIN s = ThreadFields, s.known = th[t].known, s.jobs = th[t].jobs,
         IsSeq(s.selfQueue), Range(th[t].selfQueue) \subseteq Range(s.selfQueue),
         \A w \in Range(s.selfQueue) \ Range(th[t].selfQueue) :
             w.who = "me" /\ w.sig = w.b /\ Current(w.h, w.b),
         UNCHANGED <<chainVars, posts, turn, failed, redone, caught>>, missed \subseteq missed',
         Head(inbox[t]).type = "block" =>
             \/ Head(inbox[t]).h \in missed'
             \/ \E w \in Range(s.selfQueue) : w.h = Head(inbox[t]).h
  PROVE  Inv'
<1>0. DOMAIN th' = Threads /\ th'[t] = s /\ \A u \in Threads : u = t \/ th'[u] = th[u]
  BY DEF Inv, Types
<1>1. /\ DOMAIN inbox' = Threads /\ inbox'[t] = Tail(inbox[t])
      /\ \A u \in Threads : u = t \/ inbox'[u] = inbox[u]
  BY DEF Inv, Types
<1> DEFINE m == Head(inbox[t])
<1>2. IsSeq(Tail(inbox[t])) /\ Range(inbox[t]) = Range(Tail(inbox[t])) \cup {m}
  BY TailIs DEF Inv, Types
<1>u. /\ header' = header /\ table' = table /\ branch' = branch /\ posts' = posts
      /\ turn' = turn /\ failed' = failed /\ redone' = redone /\ caught' = caught
  BY DEF chainVars
<1>m. m.type = "block" => m.h \in missed' \/ \E w \in Range(s.selfQueue) : w.h = m.h
  OBVIOUS
<1> HIDE DEF m
<1>3. IsSeq(handlers')
  BY DEF SameBlocks
<1>4. \A u \in Threads : th'[u].known = th[u].known /\ th'[u].jobs = th[u].jobs
  BY <1>0
<1>5. \A u \in Threads : IsSeq(inbox'[u]) /\ Range(inbox'[u]) \subseteq Range(inbox[u])
  <2>1. \A u \in Threads : IsSeq(inbox[u])
    BY DEF Inv, Types
  <2> QED BY <1>1, <1>2, <2>1
<1>6. Types'
  <2>1. ASSUME NEW u \in Threads
        PROVE  DOMAIN th'[u] = ThreadFields /\ IsSeq(th'[u].selfQueue)
    BY <1>0 DEF Inv, Types
  <2> QED BY <1>0, <1>1, <1>3, <1>4, <1>5, <1>u, <2>1 DEF Inv, Types
<1>7. Carried'
  <2>0. \A h, b : Current(h, b) => Current(h, b)'
    BY <1>u DEF Current
  <2>1. \A x \in Range(posts') : Current(x.h, x.b)'
    BY <1>u, <2>0 DEF Inv, Carried
  <2>2. \A e \in Range(handlers') : /\ DOMAIN e = {"id", "h", "b", "waitsFor", "acks"}
                                    /\ Current(e.h, e.b)'
    <3> SUFFICES ASSUME NEW e \in Range(handlers')
                 PROVE  DOMAIN e = {"id", "h", "b", "waitsFor", "acks"} /\ Current(e.h, e.b)'
      OBVIOUS
    <3>1. PICK d \in Range(handlers) : DOMAIN e = DOMAIN d /\ e.h = d.h /\ e.b = d.b
      BY DEF SameBlocks
    <3>2. DOMAIN d = {"id", "h", "b", "waitsFor", "acks"} /\ Current(d.h, d.b)
      BY DEF Inv, Carried
    <3> QED BY <2>0, <3>1, <3>2
  <2>3. \A u \in Threads : \A x \in Range(inbox'[u]) : x.type = "block" => Current(x.h, x.b)'
    BY <1>5, <2>0 DEF Inv, Carried
  <2>4. ASSUME NEW u \in Threads, NEW w \in Range(th'[u].selfQueue)
        PROVE  w.who = "me" /\ w.sig = w.b /\ Current(w.h, w.b)'
    <3>1. CASE w \in Range(th[u].selfQueue)
      BY <2>0, <3>1 DEF Inv, Carried
    <3>2. CASE w \notin Range(th[u].selfQueue)
      BY <1>0, <2>0, <3>2
    <3> QED BY <3>1, <3>2
  <2> QED BY <2>1, <2>2, <2>3, <2>4 DEF Carried
<1>8. JobsValidated'
  BY <1>4, <1>u DEF Inv, JobsValidated, Validated
<1>9. CaughtAreRedone' /\ WitnessesMatch'
  BY <1>u DEF Inv, CaughtAreRedone, WitnessesMatch
<1>10. KnownAreWritten'
  BY <1>4, <1>u DEF Inv, KnownAreWritten, Writes
<1>11. Attended'
  <2> SUFFICES ASSUME NEW h \in Heights, header[h] # 0, table[h]["me"] # header[h], h \notin redone,
                      h \notin missed', ~failed
               PROVE  Underway(h)'
    BY <1>u DEF Attended
  <2>1. Underway(h)
    BY DEF Inv, Attended
  <2>2. ASSUME NEW d \in Range(handlers), d.h = h PROVE Underway(h)'
    BY <2>2 DEF SameBlocks, Underway
  <2>3. ASSUME NEW u \in Threads, NEW x \in Range(inbox[u]), x.type = "block", x.h = h
        PROVE  Underway(h)'
    <3>1. CASE x \in Range(inbox'[u])
      BY <2>3, <3>1 DEF Underway
    <3>2. CASE x \notin Range(inbox'[u])
      <4>1. x = m /\ u = t
        BY <1>1, <1>2, <3>2
      <4>2. \E w \in Range(th'[t].selfQueue) : w.h = h
        BY <1>0, <1>m, <2>3, <4>1
      <4> QED BY <4>2 DEF Underway
    <3> QED BY <3>1, <3>2
  <2>4. ASSUME NEW u \in Threads, NEW w \in Range(th[u].selfQueue), w.h = h PROVE Underway(h)'
    <3>1. w \in Range(th'[u].selfQueue)
      BY <1>0
    <3> QED BY <2>4, <3>1 DEF Underway
  <2>5. ASSUME NEW u \in Threads, NEW j \in Range(th[u].jobs), Signs(j, h) PROVE Underway(h)'
    <3>1. j \in Range(th'[u].jobs)
      BY <1>4
    <3> QED BY <1>u, <2>5, <3>1 DEF Underway, Signs
  <2> QED BY <1>u, <2>1, <2>2, <2>3, <2>4, <2>5 DEF Underway
<1> QED BY <1>6, <1>7, <1>8, <1>9, <1>10, <1>11 DEF Inv


LEMMA HandleKeeps ==
  ASSUME Inv, NEW t \in Threads, HandleP2PMessage(t)
  PROVE  Inv'
<1> DEFINE m == Head(inbox[t])
           s == IF ~th[t].ready THEN th[t]
                ELSE CASE m.type = "height" -> HeightUpdate(th[t], m)
                       [] m.type = "block" -> QueueSelfWitness(th[t], m)
                       [] OTHER -> PeerMessage(th[t], m)
           hs == [i \in DOMAIN handlers |->
                    IF m.type = "height" /\ handlers[i].id = m.call
                    THEN [handlers[i] EXCEPT !.acks = @ \ {t}] ELSE handlers[i]]
<1>0. DOMAIN th[t] = ThreadFields /\ IsSeq(th[t].selfQueue) /\ IsSeq(inbox[t]) /\ IsSeq(handlers)
  BY DEF Inv, Types
<1>1. inbox[t] # << >> /\ inbox' = [inbox EXCEPT ![t] = Tail(@)]
  BY Zenon DEF HandleP2PMessage
<1>2. th' = [th EXCEPT ![t] = s]
  BY Zenon DEF HandleP2PMessage
<1>3. handlers' = hs
  BY Zenon DEF HandleP2PMessage
<1>4. missed' = IF m.type = "block" /\ ~th[t].ready THEN missed \cup {m.h} ELSE missed
  BY Zenon DEF HandleP2PMessage
<1>u. UNCHANGED <<chainVars, posts, turn, failed, redone, caught>>
  BY Zenon DEF HandleP2PMessage
<1>5. SameBlocks(handlers, handlers')
  <2>1. \A i \in DOMAIN handlers : DOMAIN handlers[i] = {"id", "h", "b", "waitsFor", "acks"}
    BY <1>0, ElementIs DEF Inv, Carried
  <2>2. \A i \in DOMAIN handlers :
          DOMAIN hs[i] = DOMAIN handlers[i] /\ hs[i].h = handlers[i].h /\ hs[i].b = handlers[i].b
    BY <2>1
  <2>3. hs = [i \in DOMAIN handlers |-> hs[i]]
    OBVIOUS
  <2> HIDE DEF hs
  <2>4. SameBlocks(handlers, hs)
    BY <1>0, <2>2, <2>3, CallsGoOn
  <2> QED BY <1>3, <2>4
<1>6. IsSeq(Tail(inbox[t])) /\ Range(inbox[t]) = Range(Tail(inbox[t])) \cup {m}
  BY <1>0, <1>1, TailIs
<1> HIDE DEF m, hs
<1>7. CASE th[t].ready /\ m.type = "block"
  <2> DEFINE w == Witness("me", m.h, m.b, m.b)
  <2>1. s = QueueSelfWitness(th[t], m)
    BY <1>7
  <2>2. /\ DOMAIN s = ThreadFields /\ s.known = th[t].known /\ s.jobs = th[t].jobs
        /\ s.selfQueue = Append(th[t].selfQueue, w)
    BY <1>0, <2>1 DEF QueueSelfWitness, ThreadFields
  <2>3. w.who = "me" /\ w.sig = w.b /\ w.h = m.h /\ w.b = m.b
    BY DEF Witness
  <2>4. Current(m.h, m.b)
    BY <1>6, <1>7 DEF Inv, Carried
  <2> HIDE DEF w, s
  <2>5. IsSeq(s.selfQueue) /\ Range(s.selfQueue) = Range(th[t].selfQueue) \cup {w}
    BY <1>0, <2>2, AppendIs
  <2>6. \A x \in Range(s.selfQueue) \ Range(th[t].selfQueue) :
             x.who = "me" /\ x.sig = x.b /\ Current(x.h, x.b)
    BY <2>3, <2>4, <2>5
  <2>7. Range(th[t].selfQueue) \subseteq Range(s.selfQueue) /\ \E x \in Range(s.selfQueue) : x.h = m.h
    BY <2>3, <2>5
  <2>8. missed \subseteq missed'
    BY <1>4
  <2> QED BY <1>1, <1>2, <1>5, <1>u, <2>2, <2>5, <2>6, <2>7, <2>8, MessageTaken DEF m
<1>8. CASE ~(th[t].ready /\ m.type = "block")
  <2>1. Alike(th[t], s)
    <3>1. Alike(th[t], th[t])
      BY <1>0 DEF Alike
    <3>2. s = th[t] \/ s = HeightUpdate(th[t], m) \/ s = PeerMessage(th[t], m)
      BY <1>8
    <3> QED BY <1>0, <3>1, <3>2, HeightUpdateKeeps, PeerMessageKeeps
  <2> HIDE DEF s
  <2>2. /\ DOMAIN s = ThreadFields /\ s.known = th[t].known /\ s.jobs = th[t].jobs
        /\ s.selfQueue = th[t].selfQueue
    BY <2>1 DEF Alike
  <2>3. missed \subseteq missed' /\ (m.type = "block" => m.h \in missed')
    BY <1>4, <1>8
  <2> QED BY <1>0, <1>1, <1>2, <1>5, <1>u, <2>2, <2>3, MessageTaken DEF m
<1> QED BY <1>7, <1>8


-----------------------------------------------------------------------------
(* The indexer                                                               *)

\* Top is the greatest height with a header, if there is one.
LEMMA TopIs ==
  ASSUME header \in [Heights -> Nat]
  PROVE  /\ Top \in 0 .. MaxHeight
         /\ \A h \in Heights : header[h] # 0 => h <= Top
<1>0. MaxHeight \in Nat /\ \A h \in Heights : h \in Nat /\ 1 <= h /\ h <= MaxHeight
  BY WitnessesAssumption DEF Heights
<1>1. CASE ~\E h \in Heights : header[h] # 0
  BY <1>0, <1>1 DEF Top
<1>2. CASE \E h \in Heights : header[h] # 0
  <2> DEFINE T == {n \in Nat : \E h \in Heights : header[h] # 0 /\ n = MaxHeight - h}
  <2>1. T \subseteq Nat /\ T # {}
    <3>1. PICK g \in Heights : header[g] # 0
      BY <1>2
    <3>2. MaxHeight - g \in T
      BY <1>0, <3>1
    <3> QED BY <3>2
  <2>2. \E x \in T : \A y \in T : ~(<<y, x>> \in OpToRel(<, Nat))
    <3> HIDE DEF T
    <3> QED BY <2>1, NatLessThanWellFounded, WFMin
  <2>3. PICK x \in T : \A y \in T : ~(<<y, x>> \in OpToRel(<, Nat))
    BY <2>2
  <2>4. \A y \in T : ~(y < x)
    BY <2>1, <2>3 DEF OpToRel
  <2>5. PICK h \in Heights : header[h] # 0 /\ x = MaxHeight - h
    OBVIOUS
  <2>6. ASSUME NEW g \in Heights, header[g] # 0 PROVE g <= h
    <3>1. MaxHeight - g \in T
      BY <1>0, <2>6
    <3>2. ~(MaxHeight - g < MaxHeight - h)
      BY <2>4, <2>5, <3>1
    <3> QED BY <1>0, <3>2
  <2>7. \E k \in Heights : header[k] # 0 /\ \A g \in Heights : header[g] # 0 => g <= k
    BY <2>5, <2>6
  <2>8. Top = CHOOSE k \in Heights : header[k] # 0 /\ \A g \in Heights : header[g] # 0 => g <= k
    BY <1>2 DEF Top
  <2>9. Top \in Heights /\ \A g \in Heights : header[g] # 0 => g <= Top
    BY <2>7, <2>8
  <2> QED BY <1>0, <2>9
<1> QED BY <1>1, <1>2

LEMMA ProcessBlockKeeps ==
  ASSUME Inv, ProcessBlock
  PROVE  Inv'
<1>n. PICK n : n = Top + 1
  OBVIOUS
<1>p. PICK p : p = [h |-> n, b |-> branch]
  OBVIOUS
<1>u. /\ table' = table /\ branch' = branch /\ handlers' = handlers /\ turn' = turn
      /\ inbox' = inbox /\ th' = th /\ failed' = failed /\ redone' = redone
      /\ caught' = caught /\ missed' = missed
  BY DEF ProcessBlock, history
<1>1. header' = [header EXCEPT ![n] = branch] /\ posts' = Append(posts, p) /\ Top < MaxHeight
  BY <1>n, <1>p DEF ProcessBlock
<1>2. n \in Heights /\ header[n] = 0
  <2>1. /\ Top \in 0 .. MaxHeight /\ \A h \in Heights : header[h] # 0 => h <= Top
        /\ MaxHeight \in Nat
    BY TopIs, WitnessesAssumption DEF Inv, Types
  <2>2. n \in Heights /\ ~(n <= Top)
    BY <1>1, <1>n, <2>1 DEF Heights
  <2> QED BY <2>1, <2>2
<1>3. p.h = n /\ p.b = branch
  BY <1>p
<1>4. /\ header' \in [Heights -> Nat] /\ branch \in Nat \ {0}
      /\ header'[n] = branch /\ \A h \in Heights : h = n \/ header'[h] = header[h]
  BY <1>1, <1>2 DEF Inv, Types
<1>5. IsSeq(posts') /\ Range(posts') = Range(posts) \cup {p}
  BY <1>1, AppendIs DEF Inv, Types
<1>6. Types'
  BY <1>4, <1>5, <1>u DEF Inv, Types
<1>7. Carried'
  <2>1. \A h, b : Current(h, b) => Current(h, b)'
    BY <1>2, <1>4, <1>u DEF Current
  <2>2. Current(p.h, p.b)'
    BY <1>2, <1>3, <1>4 DEF Current
  <2>3. \A x \in Range(posts') : Current(x.h, x.b)'
    BY <1>5, <2>1, <2>2 DEF Inv, Carried
  <2> QED BY <1>u, <2>1, <2>3 DEF Inv, Carried
<1>8. JobsValidated'
  <2> SUFFICES ASSUME NEW t \in Threads, NEW j \in Range(th[t].jobs)
               PROVE  DOMAIN j = {"w", "phase"} /\ Validated(j)'
    BY <1>u DEF JobsValidated
  <2> QED BY <1>2, <1>4, <1>u DEF Inv, JobsValidated, Validated
<1>9. CaughtAreRedone'
  BY <1>u DEF Inv, CaughtAreRedone
<1>10. WitnessesMatch'
  <2> SUFFICES ASSUME NEW h \in Heights, NEW who \in Ids, table[h][who] \notin {0, header'[h]}
               PROVE  \E v \in caught : v.h = h /\ v.who = who /\ v.sig = table[h][who]
    BY <1>u DEF WitnessesMatch
  <2>1. table[h][who] \notin {0, header[h]}
    BY <1>2, <1>4
  <2> QED BY <2>1 DEF Inv, WitnessesMatch
<1>11. KnownAreWritten'
  BY <1>u DEF Inv, KnownAreWritten, Writes
<1>12. Attended'
  <2> SUFFICES ASSUME NEW h \in Heights, header'[h] # 0, table[h]["me"] # header'[h], h \notin redone,
                      h \notin missed, ~failed
               PROVE  Underway(h)'
    BY <1>u DEF Attended
  <2>1. CASE h = n
    BY <1>3, <1>5, <2>1 DEF Underway
  <2>2. CASE h # n
    <3>1. header'[h] = header[h]
      BY <1>4, <2>2
    <3>2. Underway(h)
      BY <3>1 DEF Inv, Attended
    <3>3. \A j : Signs(j, h) => Signs(j, h)'
      BY <3>1 DEF Signs
    <3> QED BY <1>5, <1>u, <3>2, <3>3 DEF Underway
  <2> QED BY <2>1, <2>2
<1> QED BY <1>6, <1>7, <1>8, <1>9, <1>10, <1>11, <1>12 DEF Inv

LEMMA RevertKeeps ==
  ASSUME Inv, RevertChain
  PROVE  Inv'
<1>1. PICK h \in 1 .. Top :
        /\ header' = [k \in Heights |-> IF k >= h THEN 0 ELSE header[k]]
        /\ table' = [k \in Heights |-> IF k >= h THEN [i \in Ids |-> 0] ELSE table[k]]
        /\ redone' = redone \cup h .. MaxHeight
        /\ caught' = caught \cup {j.w : j \in {j \in UNION {Range(th[t].jobs) : t \in Threads} :
                                                 j.phase = "write" /\ j.w.h >= h}}
  BY DEF RevertChain
<1>u. /\ branch' = branch + 1 /\ posts' = posts /\ handlers' = handlers /\ turn' = turn
      /\ inbox' = inbox /\ th' = th /\ failed' = failed /\ missed' = missed
  BY DEF RevertChain, p2pVars
<1>2. h \in Nat /\ \A k \in Heights : k \in Nat
  <2>1. Top \in 0 .. MaxHeight /\ MaxHeight \in Nat
    BY TopIs, WitnessesAssumption DEF Inv, Types
  <2> QED BY <2>1 DEF Heights
<1>3. \A k \in Heights : k >= h => k \in redone'
  BY <1>1, <1>2 DEF Heights
<1>4. \A k \in Heights : k >= h \/ (header'[k] = header[k] /\ table'[k] = table[k])
  BY <1>1
<1>5. redone \subseteq redone' /\ caught \subseteq caught'
  BY <1>1
<1>6. Types'
  <2>1. header' \in [Heights -> Nat]
    BY <1>1 DEF Inv, Types
  <2>2. table' \in [Heights -> [Ids -> Nat]]
    BY <1>1 DEF Inv, Types
  <2>3. branch' \in Nat \ {0}
    BY <1>u DEF Inv, Types
  <2> QED BY <1>u, <2>1, <2>2, <2>3 DEF Inv, Types
<1>7. Carried'
  <2>1. \A k, b : Current(k, b) => Current(k, b)'
    BY <1>3, <1>4, <1>5 DEF Current
  <2> QED BY <1>u, <2>1 DEF Inv, Carried
<1>8. JobsValidated'
  <2> SUFFICES ASSUME NEW t \in Threads, NEW j \in Range(th[t].jobs)
               PROVE  DOMAIN j = {"w", "phase"} /\ Validated(j)'
    BY <1>u DEF JobsValidated
  <2>1. DOMAIN j = {"w", "phase"} /\ Validated(j)
    BY DEF Inv, JobsValidated
  <2>2. j.phase = "write" /\ j.w.h >= h => j.w \in caught'
    BY <1>1
  <2> QED BY <1>4, <1>5, <2>1, <2>2 DEF Validated
<1>9. CaughtAreRedone'
  <2> SUFFICES ASSUME NEW w \in caught', w.h \in Heights PROVE w.h \in redone'
    BY DEF CaughtAreRedone
  <2>1. w \in caught \/ w.h >= h
    BY <1>1
  <2> QED BY <1>3, <1>5, <2>1 DEF Inv, CaughtAreRedone
<1>10. WitnessesMatch'
  <2> SUFFICES ASSUME NEW k \in Heights, NEW who \in Ids, table'[k][who] \notin {0, header'[k]}
               PROVE  \E v \in caught' : v.h = k /\ v.who = who /\ v.sig = table'[k][who]
    BY DEF WitnessesMatch
  <2>1. ~(k >= h)
    BY <1>1
  <2>2. header'[k] = header[k] /\ table'[k] = table[k]
    BY <1>4, <2>1
  <2>3. \E v \in caught : v.h = k /\ v.who = who /\ v.sig = table[k][who]
    BY <2>2 DEF Inv, WitnessesMatch
  <2> QED BY <1>5, <2>2, <2>3
<1>11. KnownAreWritten'
  <2> SUFFICES ASSUME NEW t \in Threads, NEW k \in Heights, NEW who \in Ids, who \in th[t].known[k]
               PROVE  \/ table'[k][who] # 0
                      \/ \E j \in Range(th[t].jobs) : Writes(j, k, who)
                      \/ failed \/ k \in redone'
    BY <1>u DEF KnownAreWritten, Writes
  <2>1. \/ table[k][who] # 0
        \/ \E j \in Range(th[t].jobs) : Writes(j, k, who)
        \/ failed \/ k \in redone
    BY DEF Inv, KnownAreWritten
  <2> QED BY <1>3, <1>4, <1>5, <2>1
<1>12. Attended'
  <2> SUFFICES ASSUME NEW k \in Heights, header'[k] # 0, table'[k]["me"] # header'[k],
                      k \notin redone', k \notin missed, ~failed
               PROVE  Underway(k)'
    BY <1>u DEF Attended
  <2>1. header'[k] = header[k] /\ table'[k] = table[k] /\ k \notin redone
    BY <1>3, <1>4, <1>5
  <2>2. Underway(k)
    BY <2>1 DEF Inv, Attended
  <2>3. \A j : Signs(j, k) => Signs(j, k)'
    BY <2>1 DEF Signs
  <2> QED BY <1>u, <2>2, <2>3 DEF Underway
<1> QED BY <1>6, <1>7, <1>8, <1>9, <1>10, <1>11, <1>12 DEF Inv


-----------------------------------------------------------------------------
(* The P2P thread                                                            *)

\* A notice becomes a call of onBlockProcessed, a call a message to a thread.
LEMMA P2PMoves ==
  ASSUME Inv, UNCHANGED <<chainVars, th, history>>, turn' \in Threads,
         IsSeq(posts'), Range(posts') \subseteq Range(posts),
         IsSeq(handlers'),
         \A d \in Range(handlers') :
             DOMAIN d = {"id", "h", "b", "waitsFor", "acks"} /\ Current(d.h, d.b),
         DOMAIN inbox' = Threads,
         \A t \in Threads : /\ IsSeq(inbox'[t]) /\ Range(inbox[t]) \subseteq Range(inbox'[t])
                            /\ \A m \in Range(inbox'[t]) : m.type = "block" => Current(m.h, m.b),
         \A m \in Range(posts) : m \in Range(posts') \/ \E d \in Range(handlers') : d.h = m.h,
         \A d \in Range(handlers) :
             \/ \E e \in Range(handlers') : e.h = d.h
             \/ \E t \in Threads : \E m \in Range(inbox'[t]) : m.type = "block" /\ m.h = d.h
  PROVE  Inv'
<1>u. /\ header' = header /\ table' = table /\ branch' = branch /\ th' = th
      /\ failed' = failed /\ redone' = redone /\ caught' = caught /\ missed' = missed
  BY DEF chainVars, history
<1>1. Types'
  BY <1>u DEF Inv, Types
<1>2. Carried'
  <2>1. \A h, b : Current(h, b) => Current(h, b)'
    BY <1>u DEF Current
  <2> QED BY <1>u, <2>1 DEF Inv, Carried
<1>3. JobsValidated'
  BY <1>u DEF Inv, JobsValidated, Validated
<1>4. CaughtAreRedone' /\ WitnessesMatch'
  BY <1>u DEF Inv, CaughtAreRedone, WitnessesMatch
<1>5. KnownAreWritten'
  BY <1>u DEF Inv, KnownAreWritten, Writes
<1>6. Attended'
  <2> SUFFICES ASSUME NEW h \in Heights, header[h] # 0, table[h]["me"] # header[h], h \notin redone,
                      h \notin missed, ~failed
               PROVE  Underway(h)'
    BY <1>u DEF Attended
  <2>1. Underway(h)
    BY DEF Inv, Attended
  <2>2. ASSUME NEW m \in Range(posts), m.h = h PROVE Underway(h)'
    BY <2>2 DEF Underway
  <2>3. ASSUME NEW d \in Range(handlers), d.h = h PROVE Underway(h)'
    BY <2>3 DEF Underway
  <2>4. ASSUME NEW t \in Threads, NEW m \in Range(inbox[t]), m.type = "block", m.h = h
        PROVE  Underway(h)'
    BY <2>4 DEF Underway
  <2>5. \A j : Signs(j, h) => Signs(j, h)'
    BY <1>u DEF Signs
  <2> QED BY <1>u, <2>1, <2>2, <2>3, <2>4, <2>5 DEF Underway
<1> QED BY <1>1, <1>2, <1>3, <1>4, <1>5, <1>6 DEF Inv

LEMMA TurnsAround ==
  ASSUME turn \in Threads
  PROVE  NextTurn \in Threads
<1>1. Cardinality(Threads) \in Nat /\ Threads = 1 .. Cardinality(Threads) /\ Threads # {}
  BY WitnessesAssumption, FS_CardinalityType
<1> DEFINE n == Cardinality(Threads)
<1> HIDE DEF n
<1>2. n \in Nat /\ n >= 1 /\ turn \in 1 .. n
  BY <1>1 DEF n
<1>3. turn % n \in 0 .. n - 1
  BY <1>2
<1>4. (turn % n) + 1 \in 1 .. n
  BY <1>2, <1>3
<1> QED BY <1>1, <1>4 DEF NextTurn, n

\* A message is added for the next thread.
LEMMA ToNextIs ==
  ASSUME Inv, NEW m, NEW in, in = ToNext(inbox, m)
  PROVE  /\ DOMAIN in = Threads
         /\ \A t \in Threads : IsSeq(in[t]) /\ Range(inbox[t]) \subseteq Range(in[t])
                               /\ Range(in[t]) \subseteq Range(inbox[t]) \cup {m}
         /\ m \in Range(in[turn])
<1>1. DOMAIN inbox = Threads /\ turn \in Threads /\ \A t \in Threads : IsSeq(inbox[t])
  BY DEF Inv, Types
<1>2. /\ DOMAIN in = Threads /\ in[turn] = Append(inbox[turn], m)
      /\ \A t \in Threads : t = turn \/ in[t] = inbox[t]
  BY <1>1 DEF ToNext
<1>3. IsSeq(in[turn]) /\ Range(in[turn]) = Range(inbox[turn]) \cup {m}
  BY <1>1, <1>2, AppendIs
<1> QED BY <1>1, <1>2, <1>3

LEMMA PeerSendsKeeps ==
  ASSUME Inv, PeerSends
  PROVE  Inv'
<1>1. PICK m : m.type # "block" /\ inbox' = ToNext(inbox, m)
  <2>1. PICK h \in Heights, b \in 1 .. MaxReorgs + 1, t \in {"data", "response"} :
          inbox' = ToNext(inbox, Message(t, h, b, 0))
    BY DEF PeerSends
  <2>2. Message(t, h, b, 0).type # "block"
    BY DEF Message
  <2> QED BY <2>1, <2>2
<1>2. turn' = NextTurn /\ UNCHANGED <<chainVars, posts, handlers, th, history>>
  BY DEF PeerSends
<1>3. turn' \in Threads
  BY <1>2, TurnsAround DEF Inv, Types
<1>4. /\ DOMAIN inbox' = Threads
      /\ \A t \in Threads : IsSeq(inbox'[t]) /\ Range(inbox[t]) \subseteq Range(inbox'[t])
                            /\ Range(inbox'[t]) \subseteq Range(inbox[t]) \cup {m}
  BY <1>1, ToNextIs
<1>5. \A t \in Threads : \A x \in Range(inbox'[t]) : x.type = "block" => Current(x.h, x.b)
  BY <1>1, <1>4 DEF Inv, Carried
<1>6. IsSeq(posts) /\ IsSeq(handlers) /\ \A d \in Range(handlers) :
             DOMAIN d = {"id", "h", "b", "waitsFor", "acks"} /\ Current(d.h, d.b)
  BY DEF Inv, Types, Carried
<1> QED BY <1>2, <1>3, <1>4, <1>5, <1>6, P2PMoves

LEMMA OnBlockProcessedKeeps ==
  ASSUME Inv, OnBlockProcessed
  PROVE  Inv'
<1> DEFINE m == Head(posts)
<1>1. /\ posts # << >> /\ posts' = Tail(posts)
      /\ UNCHANGED <<chainVars, turn, th, history>>
  BY DEF OnBlockProcessed
<1>2. PICK id, l, acks : /\ handlers' = Append(handlers, Handler(id, m.h, m.b, l, acks))
                         /\ inbox' = inbox \/ inbox' = ToAll(inbox, Message("height", m.h, 0, id))
  BY DEF OnBlockProcessed
<1>3. IsSeq(Tail(posts)) /\ Range(posts) = Range(Tail(posts)) \cup {m}
  BY <1>1, TailIs DEF Inv, Types
<1>4. Current(m.h, m.b)
  BY <1>3 DEF Inv, Carried
<1> HIDE DEF m
<1> DEFINE d == Handler(id, m.h, m.b, l, acks)
           x == Message("height", m.h, 0, id)
<1>5. DOMAIN d = {"id", "h", "b", "waitsFor", "acks"} /\ d.h = m.h /\ d.b = m.b
  BY DEF Handler
<1>6. x.type # "block"
  BY DEF Message
<1> HIDE DEF d, x
<1>7. IsSeq(handlers') /\ Range(handlers') = Range(handlers) \cup {d}
  BY <1>2, AppendIs DEF Inv, Types, d
<1>8. \A e \in Range(handlers') : DOMAIN e = {"id", "h", "b", "waitsFor", "acks"} /\ Current(e.h, e.b)
  BY <1>4, <1>5, <1>7 DEF Inv, Carried
<1>9. /\ DOMAIN inbox' = Threads
      /\ \A t \in Threads : IsSeq(inbox'[t]) /\ Range(inbox[t]) \subseteq Range(inbox'[t])
                            /\ Range(inbox'[t]) \subseteq Range(inbox[t]) \cup {x}
  <2>1. DOMAIN inbox = Threads /\ \A t \in Threads : IsSeq(inbox[t])
    BY DEF Inv, Types
  <2>2. CASE inbox' = inbox
    BY <2>1, <2>2
  <2>3. CASE inbox' = ToAll(inbox, x)
    <3>1. DOMAIN inbox' = Threads /\ \A t \in Threads : inbox'[t] = Append(inbox[t], x)
      BY <2>3 DEF ToAll
    <3>2. \A t \in Threads : IsSeq(Append(inbox[t], x))
                             /\ Range(Append(inbox[t], x)) = Range(inbox[t]) \cup {x}
      BY <2>1, AppendIs
    <3> QED BY <3>1, <3>2
  <2> QED BY <1>2, <2>2, <2>3 DEF x
<1>10. \A t \in Threads : \A y \in Range(inbox'[t]) : y.type = "block" => Current(y.h, y.b)
  BY <1>6, <1>9 DEF Inv, Carried
<1>11. turn' \in Threads
  BY <1>1 DEF Inv, Types
<1>12. /\ IsSeq(posts') /\ Range(posts') \subseteq Range(posts)
       /\ \A y \in Range(posts) : y \in Range(posts') \/ \E e \in Range(handlers') : e.h = y.h
  BY <1>1, <1>3, <1>5, <1>7
<1>13. \A y \in Range(handlers) : \E e \in Range(handlers') : e.h = y.h
  BY <1>7
<1> QED BY <1>1, <1>7, <1>8, <1>9, <1>10, <1>11, <1>12, <1>13, P2PMoves


LEMMA HeightsAnsweredKeeps ==
  ASSUME Inv, HeightsAnswered
  PROVE  Inv'
<1> DEFINE Waiting(c) == {k \in DOMAIN handlers : handlers[k].waitsFor = c.id}
           Nth(c, n) == handlers[CHOOSE k \in Waiting(c) :
                                   Cardinality({j \in Waiting(c) : j <= k}) = n]
           X(c) == [n \in 1 .. Cardinality(Waiting(c)) |->
                      Message("height", Nth(c, n).h, 0, Nth(c, n).id)]
           Rest(i) == RemoveAt(handlers, i)
           Es(i, c) == [k \in DOMAIN Rest(i) |->
                          IF Rest(i)[k].waitsFor = c.id
                          THEN [Rest(i)[k] EXCEPT !.waitsFor = 0, !.acks = Threads] ELSE Rest(i)[k]]
<1>1. PICK i \in DOMAIN handlers :
        LET c == handlers[i] IN
        /\ handlers' = Es(i, c)
        /\ inbox' = [t \in Threads |-> ToNext(inbox, Message("block", c.h, c.b, 0))[t] \o X(c)]
  BY Zenon DEF HeightsAnswered
<1>2. turn' = NextTurn /\ UNCHANGED <<chainVars, posts, th, history>>
  BY Zenon DEF HeightsAnswered
<1> DEFINE c == handlers[i]
           m == Message("block", c.h, c.b, 0)
           in == ToNext(inbox, m)
           x == X(c)
           rest == Rest(i)
           es == Es(i, c)
<1>3. handlers' = es /\ inbox' = [t \in Threads |-> in[t] \o x]
  BY <1>1
<1>0. IsSeq(handlers) /\ Len(handlers) \in Nat /\ DOMAIN handlers = 1 .. Len(handlers)
      /\ c \in Range(handlers)
  BY ElementIs DEF Inv, Types
<1>c. Current(c.h, c.b) /\ \A d \in Range(handlers) : DOMAIN d = {"id", "h", "b", "waitsFor", "acks"}
  BY <1>0 DEF Inv, Carried
<1>4. /\ IsSeq(rest) /\ Range(rest) \subseteq Range(handlers)
      /\ Range(handlers) \subseteq Range(rest) \cup {c}
  BY <1>0, RemoveIs
<1>5. SameBlocks(rest, es)
  <2>1. \A k \in DOMAIN rest : DOMAIN rest[k] = {"id", "h", "b", "waitsFor", "acks"}
    BY <1>4, <1>c, ElementIs
  <2> HIDE DEF rest
  <2>2. \A k \in DOMAIN rest : es[k] = IF rest[k].waitsFor = c.id
                                       THEN [rest[k] EXCEPT !.waitsFor = 0, !.acks = Threads]
                                       ELSE rest[k]
    BY DEF rest
  <2>3. es = [k \in DOMAIN rest |-> es[k]]
    BY DEF rest
  <2> HIDE DEF es
  <2>4. \A k \in DOMAIN rest : DOMAIN es[k] = DOMAIN rest[k] /\ es[k].h = rest[k].h /\ es[k].b = rest[k].b
    BY <2>1, <2>2
  <2> QED BY <1>4, <2>3, <2>4, CallsGoOn
<1>6. IsSeq(x) /\ \A y \in Range(x) : y.type = "height"
  <2> DEFINE N == Cardinality(Waiting(c))
  <2>1. N \in Nat
    <3>1. IsFiniteSet(1 .. Len(handlers))
      BY <1>0, FS_Interval
    <3>2. Waiting(c) \subseteq 1 .. Len(handlers)
      BY <1>0
    <3> HIDE DEF Waiting
    <3> QED BY <3>1, <3>2, FS_Subset, FS_CardinalityType
  <2>2. DOMAIN x = 1 .. N /\ x = [n \in 1 .. N |-> x[n]]
    OBVIOUS
  <2>3. \A n \in 1 .. N : x[n].type = "height"
    BY DEF Message
  <2> HIDE DEF x, N
  <2>4. x \in [1 .. N -> Range(x)] /\ \A y \in Range(x) : \E n \in 1 .. N : x[n] = y
    BY <2>2 DEF Range
  <2>5. x \in Seq(Range(x))
    BY <2>1, <2>4, SeqDef
  <2> QED BY <2>3, <2>4, <2>5 DEF IsSeq
<1>7. m.type = "block" /\ m.h = c.h /\ m.b = c.b
  BY DEF Message
<1>8. /\ DOMAIN in = Threads
      /\ \A t \in Threads : IsSeq(in[t]) /\ Range(inbox[t]) \subseteq Range(in[t])
                            /\ Range(in[t]) \subseteq Range(inbox[t]) \cup {m}
      /\ m \in Range(in[turn])
  <2> HIDE DEF m, in
  <2>1. in = ToNext(inbox, m)
    BY DEF in
  <2> QED BY <2>1, ToNextIs
<1> HIDE DEF c, m, in, x, rest, es
<1>9. /\ DOMAIN inbox' = Threads
      /\ \A t \in Threads : inbox'[t] = in[t] \o x
  BY <1>3
<1>10. \A t \in Threads : IsSeq(inbox'[t]) /\ Range(inbox'[t]) = Range(in[t]) \cup Range(x)
  BY <1>6, <1>8, <1>9, ConcatIs, ZenonT(40)
<1>11. \A t \in Threads : /\ Range(inbox[t]) \subseteq Range(inbox'[t])
                          /\ \A y \in Range(inbox'[t]) : y.type = "block" => Current(y.h, y.b)
  <2> SUFFICES ASSUME NEW t \in Threads
               PROVE  /\ Range(inbox[t]) \subseteq Range(inbox'[t])
                      /\ \A y \in Range(inbox'[t]) : y.type = "block" => Current(y.h, y.b)
    OBVIOUS
  <2>1. \A y \in Range(inbox'[t]) : y \in Range(inbox[t]) \/ y = m \/ y.type = "height"
    BY <1>6, <1>8, <1>10
  <2> QED BY <1>7, <1>8, <1>10, <1>c, <2>1 DEF Inv, Carried
<1>12. turn \in Threads /\ turn' \in Threads
  BY <1>2, TurnsAround DEF Inv, Types
<1>13. IsSeq(handlers') /\ \A e \in Range(handlers') :
             DOMAIN e = {"id", "h", "b", "waitsFor", "acks"} /\ Current(e.h, e.b)
  <2> SUFFICES ASSUME NEW e \in Range(es)
               PROVE  DOMAIN e = {"id", "h", "b", "waitsFor", "acks"} /\ Current(e.h, e.b)
    BY <1>3, <1>5 DEF SameBlocks
  <2>1. PICK d \in Range(rest) : DOMAIN e = DOMAIN d /\ e.h = d.h /\ e.b = d.b
    BY <1>5 DEF SameBlocks
  <2>2. d \in Range(handlers)
    BY <1>4, <2>1
  <2> QED BY <2>1, <2>2 DEF Inv, Carried
<1>14. ASSUME NEW d \in Range(handlers)
       PROVE  \/ \E e \in Range(handlers') : e.h = d.h
              \/ \E t \in Threads : \E y \in Range(inbox'[t]) : y.type = "block" /\ y.h = d.h
  <2>1. CASE d = c
    <3>1. m \in Range(inbox'[turn])
      BY <1>8, <1>10, <1>12
    <3> QED BY <1>7, <1>12, <2>1, <3>1
  <2>2. CASE d \in Range(rest)
    BY <1>3, <1>5, <2>2 DEF SameBlocks
  <2> QED BY <1>4, <2>1, <2>2
<1>15. IsSeq(posts') /\ posts' = posts
  BY <1>2 DEF Inv, Types
<1> QED BY <1>2, <1>9, <1>10, <1>11, <1>12, <1>13, <1>14, <1>15, P2PMoves

-----------------------------------------------------------------------------
(* The theorems                                                              *)

LEMMA InitKeeps == Init => Inv
<1> SUFFICES ASSUME Init PROVE Inv
  OBVIOUS
<1>1. PICK late : th = [t \in Threads |-> [NewThread EXCEPT !.ready = t \notin late]]
  BY DEF Init
<1>2. /\ DOMAIN th = Threads
      /\ \A t \in Threads : /\ DOMAIN th[t] = ThreadFields
                            /\ th[t].known = [h \in Heights |-> {}]
                            /\ th[t].selfQueue = << >> /\ th[t].jobs = << >>
  BY <1>1 DEF NewThread, ThreadFields
<1>3. /\ header = [h \in Heights |-> IF h <= Stored THEN 1 ELSE 0]
      /\ table = [h \in Heights |-> [i \in Ids |-> IF h <= Stored /\ i = "me" THEN 1 ELSE 0]]
      /\ branch = 1 /\ posts = << >> /\ handlers = << >> /\ turn = 1
      /\ inbox = [t \in Threads |-> << >>]
      /\ failed = FALSE /\ redone = {} /\ caught = {} /\ missed = {}
  BY DEF Init
<1>4. IsSeq(<< >>) /\ Range(<< >>) = {}
  BY DEF IsSeq, Range
<1>5. 1 \in Threads
  <2>1. Cardinality(Threads) \in Nat /\ Threads = 1 .. Cardinality(Threads) /\ Threads # {}
    BY WitnessesAssumption, FS_CardinalityType
  <2> QED BY <2>1
<1>6. Types
  BY <1>2, <1>3, <1>4, <1>5 DEF Types
<1>7. Carried
  BY <1>2, <1>3, <1>4 DEF Carried
<1>8. JobsValidated
  BY <1>2, <1>4 DEF JobsValidated
<1>9. CaughtAreRedone
  BY <1>3 DEF CaughtAreRedone
<1>10. WitnessesMatch
  BY <1>3 DEF WitnessesMatch
<1>11. KnownAreWritten
  BY <1>2 DEF KnownAreWritten
<1>12. Attended
  BY <1>3 DEF Attended, Ids
<1> QED BY <1>6, <1>7, <1>8, <1>9, <1>10, <1>11, <1>12 DEF Inv

LEMMA StutterKeeps ==
  ASSUME Inv, UNCHANGED vars
  PROVE  Inv'
<1>1. UNCHANGED <<chainVars, th, history>> /\ posts' = posts /\ handlers' = handlers
      /\ inbox' = inbox /\ turn' = turn
  BY DEF vars, p2pVars
<1>2. /\ IsSeq(posts) /\ IsSeq(handlers) /\ turn \in Threads /\ DOMAIN inbox = Threads
      /\ \A t \in Threads : IsSeq(inbox[t])
  BY DEF Inv, Types
<1>3. /\ \A d \in Range(handlers) :
            DOMAIN d = {"id", "h", "b", "waitsFor", "acks"} /\ Current(d.h, d.b)
      /\ \A t \in Threads : \A m \in Range(inbox[t]) : m.type = "block" => Current(m.h, m.b)
  BY DEF Inv, Carried
<1> QED BY <1>1, <1>2, <1>3, P2PMoves

LEMMA NextKeeps == Inv /\ [Next]_vars => Inv'
<1> SUFFICES ASSUME Inv, [Next]_vars PROVE Inv'
  OBVIOUS
<1>1. ASSUME NEW t \in Threads, ThreadStep(t) \/ JobFails(t) \/ PurgeOldWitnesses(t)
      PROVE  Inv'
  BY <1>1, SetupKeeps, HandleKeeps, LookUpKeeps, SelfQueueKeeps, DrainKeeps, ProcessKeeps,
     WriteKeeps, JobFailsKeeps, PurgeKeeps DEF ThreadStep
<1> QED BY <1>1, ProcessBlockKeeps, RevertKeeps, OnBlockProcessedKeeps, HeightsAnsweredKeeps,
           PeerSendsKeeps, StutterKeeps DEF Next

\* What is carried for a block is the stored block or of a reverted height, and
\* every stored block is attended to, in every state.
THEOREM BlocksAreCarried == Spec => []Inv
  BY InitKeeps, NextKeeps, PTL DEF Spec

\* A stored witness is one of the stored block, and what a thread leaves out as known
\* is stored or being written, but for reorganisations and failed writes: for any
\* threads, heights, limits and messages of peers (processBlockWitnesses,
\* setBlockWitnesses).
THEOREM WitnessesAreExplained == Spec => []WitnessesExplained
<1>1. Inv => WitnessesExplained
  <2> SUFFICES ASSUME Inv PROVE KnownIsStored
    BY DEF Inv, WitnessesExplained
  <2> SUFFICES ASSUME NEW t \in Threads, NEW h \in Heights, NEW who \in Ids, who \in th[t].known[h],
                      table[h][who] = 0, ~failed, h \notin redone
               PROVE  \E i \in DOMAIN th[t].jobs :
                        LET j == th[t].jobs[i] IN j.phase = "write" /\ j.w.h = h /\ j.w.who = who
    BY DEF KnownIsStored
  <2>1. PICK j \in Range(th[t].jobs) : Writes(j, h, who)
    BY DEF Inv, KnownAreWritten
  <2>2. PICK i \in DOMAIN th[t].jobs : th[t].jobs[i] = j
    BY ElementIs DEF Inv, Types
  <2> QED BY <2>1, <2>2 DEF Writes
<1> QED BY <1>1, BlocksAreCarried, PTL

\* Once nothing is under way, this node has signed every stored block that a thread
\* was ready for, whose height was not reverted, if no call failed: for any threads,
\* heights and limits (onBlockProcessed, processSelfQueue).
THEOREM BlocksAreSelfWitnessed == Spec => []SelfWitnessed
<1>1. Inv => SelfWitnessed
  <2> SUFFICES ASSUME Inv, Settled, NEW h \in Heights, header[h] # 0
               PROVE  table[h]["me"] = header[h] \/ h \in redone \cup missed \/ failed
    BY DEF SelfWitnessed
  <2>1. Range(<< >>) = {}
    BY DEF Range
  <2>2. ~Underway(h)
    BY <2>1 DEF Settled, Underway
  <2> QED BY <2>2 DEF Inv, Attended
<1> QED BY <1>1, BlocksAreCarried, PTL

=============================================================================
