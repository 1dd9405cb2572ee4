----------------------------- MODULE Witnesses -----------------------------
(***************************************************************************)
(* The witnesses of a node: the indexer reports each block it has processed *)
(* to the P2P thread (PoC), which tells its height to every witness thread  *)
(* and hands the block to one of them in turn.  That thread signs the block *)
(* and asks the peers for their witnesses, which are handed to the threads  *)
(* in turn as well.  A witness is checked against the stored header in the  *)
(* RPC thread and then written.  Meanwhile the indexer may revert blocks,   *)
(* of which the witness threads are not told.                               *)
(*                                                                         *)
(* A block is its height and its branch; its checksum, its proofs and what  *)
(* a signature signs are the block itself.  A step of a thread runs up to   *)
(* its next await.                                                         *)
(***************************************************************************)
EXTENDS Integers, Sequences, FiniteSets, SequencesExt

CONSTANTS
    Threads,           \* the witness threads, 1 .. n
    MaxHeight,         \* bound: heights
    Stored,            \* the blocks the node has stored when it starts
    MaxReorgs,         \* bound: reorganisations
    MaxEvents,         \* bound: reorganisations, messages of peers, calls that fail, late threads
    MaxLag,            \* bound: processed blocks that the P2P thread is not done with
    Threshold,         \* PENDING_BLOCK_THRESHOLD
    MaxPending,        \* maxPendingWitnesses
    MaxValidations,    \* MAX_CONCURRENT_WITNESS_VALIDATIONS
    MaxPerBlock,       \* MAX_VALIDATIONS_PER_BLOCK
    MaxQueue,          \* MAX_WITNESS_QUEUE_SIZE
    MaxSelfProofs      \* MAX_CONCURRENT_SELF_PROOFS

ASSUME WitnessesAssumption ==
    /\ IsFiniteSet(Threads) /\ Threads = 1 .. Cardinality(Threads) /\ Threads # {}
    /\ {MaxHeight, MaxLag, MaxPending, MaxValidations, MaxPerBlock, MaxQueue, MaxSelfProofs} \subseteq Nat \ {0}
    /\ {Stored, MaxReorgs, MaxEvents, Threshold} \subseteq Nat

VARIABLES
    header,      \* the stored headers: the branch of the block, 0 if there is none
    table,       \* BlockWitnesses: the branch an identity has signed, 0 if none
    branch,      \* the branch the indexer follows
    posts,       \* BLOCK_PROCESSED on its way to the P2P thread
    handlers,    \* the calls of onBlockProcessed that wait
    lock,        \* blockProcessedLock: the call whose broadcast it is
    calls,       \* how many calls there were
    turn,        \* the witness thread that is next
    p2pHeight,   \* the consensus height of the P2P thread
    asked,       \* the heights peers were asked for
    inbox,       \* messages on their way to a witness thread
    th,          \* the witness threads
    events,      \* how many of the bounded events there were
    failed,      \* history: a call has failed
    redone,      \* history: the heights that were reverted
    caught,      \* history: witnesses that were being written when their block was reverted
    missed       \* history: the heights no witness thread was ready for

chainVars == <<header, table, branch>>
p2pVars == <<posts, handlers, lock, calls, turn, p2pHeight, asked>>
history == <<failed, redone, caught, missed>>
vars == <<chainVars, p2pVars, inbox, th, events, history>>

Heights == 1 .. MaxHeight
Ids == {"me", "peer"}

\* A message to a witness thread.  call: the call that waits for an answer.
Message(t, h, b, call) == [type |-> t, h |-> h, b |-> b, call |-> call]

\* A witness of who for the block of branch b at height h; sig is what was signed.
Witness(who, h, b, sig) == [who |-> who, h |-> h, b |-> b, sig |-> sig]

NewThread == [ready |-> FALSE, set |-> FALSE, buffer |-> << >>, current |-> -1,
              known |-> [h \in Heights |-> {}], count |-> [h \in Heights |-> 0],
              pending |-> [h \in Heights |-> << >>], queue |-> << >>, selfQueue |-> << >>,
              jobs |-> << >>, lookups |-> << >>]

\* A job is a call of processBlockWitnesses; who tells for which queue.
Job(x, phase) == [w |-> x, phase |-> phase]
ActiveSelfProofs(t) == Len(SelectSeq(t.jobs, LAMBDA j : j.w.who = "me"))
ActiveValidations(t) == Len(t.jobs) - ActiveSelfProofs(t)

\* One of the bounded events happens.
Event == events < MaxEvents /\ events' = events + 1

-----------------------------------------------------------------------------
(* The indexer                                                               *)

Top == IF \E h \in Heights : header[h] # 0
       THEN CHOOSE h \in Heights : header[h] # 0 /\ \A k \in Heights : header[k] # 0 => k <= h
       ELSE 0

\* A block is stored; then the P2P thread is told.
ProcessBlock ==
    /\ Top < MaxHeight /\ Len(posts) + Len(handlers) < MaxLag
    /\ header' = [header EXCEPT ![Top + 1] = branch]
    /\ posts' = Append(posts, [h |-> Top + 1, b |-> branch])
    /\ UNCHANGED <<table, branch, handlers, lock, calls, turn, p2pHeight, asked, inbox, th,
                   events, history>>

\* A reorganisation: the headers and the witnesses from height h on are deleted.
RevertChain ==
    /\ branch <= MaxReorgs /\ Event
    /\ \E h \in 1 .. Top :
        /\ header' = [k \in Heights |-> IF k >= h THEN 0 ELSE header[k]]
        /\ table' = [k \in Heights |-> IF k >= h THEN [i \in Ids |-> 0] ELSE table[k]]
        /\ redone' = redone \cup h .. MaxHeight
        /\ caught' = caught \cup {j.w : j \in {j \in UNION {Range(th[t].jobs) : t \in Threads} :
                                                 j.phase = "write" /\ j.w.h >= h}}
    /\ branch' = branch + 1
    /\ UNCHANGED <<p2pVars, inbox, th, failed, missed>>

-----------------------------------------------------------------------------
(* The P2P thread: PoC                                                       *)

\* sendMessageToThread gives the message to the next thread.
NextTurn == (turn % Cardinality(Threads)) + 1
ToNext(in, m) == [in EXCEPT ![turn] = Append(@, m)]
ToAll(in, m) == [t \in Threads |-> Append(in[t], m)]

\* A call of onBlockProcessed; waitsFor is the call whose broadcast it awaits,
\* acks the threads that have not answered its own.
Handler(id, h, b, waitsFor, acks) ==
    [id |-> id, h |-> h, b |-> b, waitsFor |-> waitsFor, acks |-> acks]
Locked == \E i \in DOMAIN handlers : handlers[i].id = lock

\* onBlockProcessed up to its first wait.
OnBlockProcessed ==
    /\ posts # << >>
    /\ LET m == Head(posts)
           id == calls + 1
       IN
       /\ posts' = Tail(posts) /\ calls' = id
       /\ IF Locked
          THEN /\ handlers' = Append(handlers, Handler(id, m.h, m.b, lock, {}))
               /\ UNCHANGED <<lock, inbox>>
          ELSE /\ handlers' = Append(handlers, Handler(id, m.h, m.b, 0, Threads))
               /\ lock' = id
               /\ inbox' = ToAll(inbox, Message("height", m.h, 0, id))
    /\ UNCHANGED <<chainVars, turn, p2pHeight, asked, th, events, history>>

\* Every thread has answered the broadcast of a call: it hands its block to one
\* thread and sets the height; then the calls that waited for it go on, all of them.
HeightsAnswered ==
    \E i \in DOMAIN handlers :
        LET c == handlers[i]
            rest == RemoveAt(handlers, i)
            waiting == {k \in DOMAIN handlers : handlers[k].waitsFor = c.id}
            Nth(n) == handlers[CHOOSE k \in waiting : Cardinality({j \in waiting : j <= k}) = n]
            next == ToNext(inbox, Message("block", c.h, c.b, 0))
        IN /\ c.waitsFor = 0 /\ c.acks = {}
           /\ handlers' = [k \in DOMAIN rest |->
                             IF rest[k].waitsFor = c.id
                             THEN [rest[k] EXCEPT !.waitsFor = 0, !.acks = Threads] ELSE rest[k]]
           /\ lock' = IF waiting = {} THEN lock ELSE handlers[Max(waiting)].id
           /\ inbox' = [t \in Threads |->
                          next[t] \o [n \in 1 .. Cardinality(waiting) |->
                                       Message("height", Nth(n).h, 0, Nth(n).id)]]
           /\ turn' = NextTurn
           /\ p2pHeight' = c.h
           /\ UNCHANGED <<chainVars, posts, calls, asked, th, events, history>>

\* requestWitnessesFromPeers: the block and the one before.
RequestWitnessesFromPeers(h) == asked \cup ({h - 1, h} \ {0})

\* A peer sends a witness: the answer to a request, or of its own accord one of a
\* block it has just processed.  It may be on another branch.
PeerSends ==
    /\ Event
    /\ \E h \in Heights, b \in 1 .. MaxReorgs + 1, t \in {"data", "response"} :
        /\ IF t = "response" THEN h \in asked ELSE h >= Top
        /\ inbox' = ToNext(inbox, Message(t, h, b, 0))
    /\ turn' = NextTurn
    /\ UNCHANGED <<chainVars, posts, handlers, lock, calls, p2pHeight, asked, th, history>>

-----------------------------------------------------------------------------
(* BlockWitnessManager                                                       *)

SetCurrentBlock(t, h) == [t EXCEPT !.current = h]

TooOld(t, h) == h < t.current - Threshold

EnqueueWitnessValidation(t, w) ==
    IF t.count[w.h] >= MaxPerBlock \/ Len(t.queue) >= MaxQueue \/ TooOld(t, w.h) THEN t
    ELSE [t EXCEPT !.queue = Append(@, w)]

AddToPendingWitnessesVerification(t, w) ==
    IF w.h - t.current > Threshold \/ Len(t.pending[w.h]) >= MaxPending THEN t
    ELSE [t EXCEPT !.pending[w.h] = Append(@, w)]

ProcessQueuedWitnesses(t) ==
    IF t.current \notin Heights THEN t
    ELSE [t EXCEPT !.pending[t.current] = << >>,
                   !.queue = FoldLeft(EnqueueWitnessValidation, t, t.pending[t.current]).queue]

OnBlockWitness(t, w) ==
    IF t.current = -1 THEN t
    ELSE IF t.current < w.h THEN AddToPendingWitnessesVerification(t, w)
    ELSE ProcessQueuedWitnesses(EnqueueWitnessValidation(t, w))

\* onBlockWitnessResponse up to the read of the header.
OnBlockWitnessResponse(t, m) == [t EXCEPT !.lookups = Append(@, m)]

QueueSelfWitness(t, m) == [t EXCEPT !.selfQueue = Append(@, Witness("me", m.h, m.b, m.b))]

RevertKnownWitnessesReorg(t, h) ==
    [t EXCEPT !.known = [k \in Heights |-> IF k >= h THEN {} ELSE @[k]],
              !.count = [k \in Heights |-> IF k >= h /\ t.known[k] # {} THEN 0 ELSE @[k]]]

\* Mutant: a block that has a witness needs no other.
FilterKnownBlocks(t, w) == t.known[w.h] = {}

FilterWitnesses(t, w) == w.who \notin t.known[w.h]

\* processBlockWitnesses up to the call of the RPC thread; it may end before.
Begins(t, w) == ~TooOld(t, w.h) /\ FilterWitnesses(t, w)

\* onComplete of a self witness.
Complete(w) == asked' = IF w.who = "me" THEN RequestWitnessesFromPeers(w.h) ELSE asked

\* Microtasks precede the next message or answer.
SelfReady(t) == th[t].selfQueue # << >> /\ ActiveSelfProofs(th[t]) < MaxSelfProofs
QueueReady(t) == th[t].queue # << >> /\ ActiveValidations(th[t]) < MaxValidations
Idle(t) == ~SelfReady(t) /\ ~QueueReady(t)

\* One round of processSelfQueue: the height, then the proof, which is not awaited.
ProcessSelfQueue(t) ==
    /\ SelfReady(t)
    /\ LET w == Head(th[t].selfQueue)
           r == IF th[t].current > w.h THEN RevertKnownWitnessesReorg(th[t], w.h) ELSE th[t]
           s == SetCurrentBlock([r EXCEPT !.selfQueue = Tail(@)], w.h)
       IN IF Begins(s, w)
          THEN /\ th' = [th EXCEPT ![t] = [s EXCEPT !.jobs = Append(@, Job(w, "rpc"))]]
               /\ UNCHANGED asked
          ELSE /\ th' = [th EXCEPT ![t] = s]
               /\ Complete(w)
    /\ UNCHANGED <<chainVars, posts, handlers, lock, calls, turn, p2pHeight, inbox, events, history>>

\* One round of drainWitnessQueue.
DrainWitnessQueue(t) ==
    /\ ~SelfReady(t) /\ QueueReady(t)
    /\ LET w == Head(th[t].queue)
           s == [th[t] EXCEPT !.queue = Tail(@)]
           c == [s EXCEPT !.count[w.h] = @ + 1]
       IN th' = [th EXCEPT ![t] =
                   IF s.count[w.h] >= MaxPerBlock THEN s
                   ELSE IF Begins(c, w) THEN [c EXCEPT !.jobs = Append(@, Job(w, "rpc"))]
                   ELSE c]
    /\ UNCHANGED <<chainVars, p2pVars, inbox, events, history>>

\* The header is read and the witness of the peer completed with it.
LookUp(t) ==
    /\ Idle(t) /\ th[t].lookups # << >>
    /\ LET m == Head(th[t].lookups)
           s == [th[t] EXCEPT !.lookups = Tail(@)]
       IN th' = [th EXCEPT ![t] =
                   IF header[m.h] = 0 THEN s
                   ELSE EnqueueWitnessValidation(s, Witness("peer", m.h, header[m.h], m.b))]
    /\ UNCHANGED <<chainVars, p2pVars, inbox, events, history>>

\* The call ends, whatever came of it.
EndJob(t, i) ==
    /\ th' = [th EXCEPT ![t].jobs = RemoveAt(@, i)]
    /\ Complete(th[t].jobs[i].w)

\* Mutant: the stored header is not compared with the witness.
ValidateAnyHeader(w) == header[w.h] # 0

\* validateBlockHeaders in the RPC thread: the stored header, without which
\* nothing is valid, and the proofs.
ValidateBlockHeaders(w) == header[w.h] # 0 /\ header[w.h] = w.b

ValidateOPNetWitnesses(w) == w.sig = w.b

\* processBlockWitnesses: the answer of the RPC thread, and on to the write.
ProcessBlockWitnesses(t) ==
    \E i \in DOMAIN th[t].jobs :
        LET j == th[t].jobs[i] IN
        /\ Idle(t) /\ j.phase = "rpc"
        /\ IF ValidateBlockHeaders(j.w) /\ ValidateOPNetWitnesses(j.w)
           THEN /\ th' = [th EXCEPT ![t].known[j.w.h] = @ \cup {j.w.who}, ![t].jobs[i].phase = "write"]
                /\ UNCHANGED asked
           ELSE EndJob(t, i)
        /\ UNCHANGED <<chainVars, posts, handlers, lock, calls, turn, p2pHeight, inbox, events, history>>

\* setBlockWitnesses.
WriteBlockWitnesses(t) ==
    \E i \in DOMAIN th[t].jobs :
        LET j == th[t].jobs[i] IN
        /\ Idle(t) /\ j.phase = "write"
        /\ table' = [table EXCEPT ![j.w.h][j.w.who] = j.w.sig]
        /\ EndJob(t, i)
        /\ UNCHANGED <<header, branch, posts, handlers, lock, calls, turn, p2pHeight, inbox,
                       events, history>>

\* The call of the RPC thread or the write fails.
JobFails(t) ==
    \E i \in DOMAIN th[t].jobs :
        /\ Idle(t) /\ Event
        /\ th[t].jobs[i].phase \in {"rpc", "write"}
        /\ EndJob(t, i)
        /\ failed' = TRUE
        /\ UNCHANGED <<chainVars, posts, handlers, lock, calls, turn, p2pHeight, inbox, redone, caught, missed>>

\* purgeOldWitnesses, every 30 seconds.
PurgeOldWitnesses(t) ==
    LET old == {h \in Heights : th[t].current - h > Threshold} IN
    /\ Idle(t)
    /\ \E h \in old : th[t].known[h] # {} \/ th[t].count[h] # 0
    /\ th' = [th EXCEPT ![t].known = [h \in Heights |-> IF h \in old THEN {} ELSE @[h]],
                        ![t].count = [h \in Heights |-> IF h \in old THEN 0 ELSE @[h]]]
    /\ UNCHANGED <<chainVars, p2pVars, inbox, events, history>>

-----------------------------------------------------------------------------
(* WitnessThread                                                             *)

\* onThreadLinkSetup, some seconds after the start.
OnThreadLinkSetup(t) ==
    /\ ~th[t].ready
    /\ th' = [th EXCEPT ![t].ready = TRUE]
    /\ UNCHANGED <<chainVars, p2pVars, inbox, events, history>>

PeerMessage(t, m) ==
    IF ~t.set THEN [t EXCEPT !.buffer = Append(@, m)]
    ELSE IF m.type = "data" THEN OnBlockWitness(t, Witness("peer", m.h, m.b, m.b))
    ELSE OnBlockWitnessResponse(t, m)

\* flushPendingPeerMessages replays what came before the first height, which
\* fills the queues.
FlushPendingPeerMessages(t) ==
    LET r == FoldLeft(PeerMessage, t, t.buffer)
    IN [t EXCEPT !.buffer = << >>, !.queue = r.queue, !.pending = r.pending, !.lookups = r.lookups]

HeightUpdate(t, m) ==
    LET s == SetCurrentBlock(t, m.h)
    IN IF t.set THEN s ELSE FlushPendingPeerMessages([s EXCEPT !.set = TRUE])

\* handleP2PMessage; the answer to a height reaches the P2P thread.
HandleP2PMessage(t) ==
    /\ inbox[t] # << >> /\ Idle(t)
    /\ LET m == Head(inbox[t]) IN
       /\ inbox' = [inbox EXCEPT ![t] = Tail(@)]
       /\ th' = [th EXCEPT ![t] =
                   IF ~@.ready THEN @
                   ELSE CASE m.type = "height" -> HeightUpdate(@, m)
                          [] m.type = "block" -> QueueSelfWitness(@, m)
                          [] OTHER -> PeerMessage(@, m)]
       /\ handlers' = [i \in DOMAIN handlers |->
                         IF m.type = "height" /\ handlers[i].id = m.call
                         THEN [handlers[i] EXCEPT !.acks = @ \ {t}] ELSE handlers[i]]
       /\ missed' = IF m.type = "block" /\ ~th[t].ready THEN missed \cup {m.h} ELSE missed
    /\ UNCHANGED <<chainVars, posts, lock, calls, turn, p2pHeight, asked, events, failed, redone, caught>>

-----------------------------------------------------------------------------

Init ==
    /\ header = [h \in Heights |-> IF h <= Stored THEN 1 ELSE 0]
    /\ table = [h \in Heights |-> [i \in Ids |-> IF h <= Stored /\ i = "me" THEN 1 ELSE 0]]
    /\ branch = 1
    /\ posts = << >> /\ handlers = << >> /\ lock = 0 /\ calls = 0 /\ turn = 1
    /\ p2pHeight = -1 /\ asked = {}
    /\ inbox = [t \in Threads |-> << >>]
    /\ \E late \in SUBSET Threads :
        /\ th = [t \in Threads |-> [NewThread EXCEPT !.ready = t \notin late]]
        /\ events = Cardinality(late) /\ events <= MaxEvents
    /\ failed = FALSE /\ redone = {} /\ caught = {} /\ missed = {}

ThreadStep(t) == \/ OnThreadLinkSetup(t) \/ HandleP2PMessage(t) \/ LookUp(t)
                 \/ ProcessSelfQueue(t) \/ DrainWitnessQueue(t)
                 \/ ProcessBlockWitnesses(t) \/ WriteBlockWitnesses(t)

Next == \/ ProcessBlock \/ RevertChain
        \/ OnBlockProcessed \/ HeightsAnswered \/ PeerSends
        \/ \E t \in Threads : ThreadStep(t) \/ JobFails(t) \/ PurgeOldWitnesses(t)

Spec == Init /\ [][Next]_vars

-----------------------------------------------------------------------------
(* Properties                                                                *)

\* A stored witness is one of the stored block, unless its block was reverted
\* between its validation and its write.
WitnessesMatch ==
    \A h \in Heights, who \in Ids :
        table[h][who] \notin {0, header[h]} =>
            \E w \in caught : w.h = h /\ w.who = who /\ w.sig = table[h][who]

\* An identity whose witnesses a thread leaves out because it knows them has one
\* stored or being written, unless a write failed or the height was reverted.
KnownIsStored ==
    \A t \in Threads, h \in Heights, who \in Ids : who \in th[t].known[h] =>
        \/ table[h][who] # 0
        \/ \E i \in DOMAIN th[t].jobs : LET j == th[t].jobs[i]
                                        IN j.phase = "write" /\ j.w.h = h /\ j.w.who = who
        \/ failed
        \/ h \in redone

\* A stored witness is one of the stored block, and what a thread leaves out as
\* known is stored, but for the cases named above (processBlockWitnesses,
\* addKnownWitnessIdentities, setBlockWitnesses).
WitnessesExplained == WitnessesMatch /\ KnownIsStored

\* Nothing is under way for the blocks that were processed.
Settled == /\ posts = << >> /\ handlers = << >>
           /\ \A t \in Threads : inbox[t] = << >> /\ th[t].selfQueue = << >> /\ th[t].jobs = << >>

\* Once nothing is under way, every stored block has the witness of this node,
\* whatever heights, blocks and peers' witnesses crossed, unless no thread was
\* ready for it, a call failed, or the height was reverted.
SelfWitnessed ==
    Settled => \A h \in Heights :
        header[h] # 0 => table[h]["me"] = header[h] \/ h \in redone \cup missed \/ failed
=============================================================================
