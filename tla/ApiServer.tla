----------------------------- MODULE ApiServer -----------------------------
(***************************************************************************)
(* The API thread: requests over WebSocket, HTTP and JSON-RPC, the routes  *)
(* they ask, the simulations they start, and the announcements that run    *)
(* between them.                                                           *)
(*                                                                         *)
(* The thread runs one turn of its event loop at a time: a message, a      *)
(* timer or an answer of the database, with every continuation that it     *)
(* makes runnable, is one step.                                            *)
(***************************************************************************)
EXTENDS ApiRoutes, WebSocketApi, Simulation, WalletUtxos, FiniteSetsExt

CONSTANTS
    MaximumPendingRequestsPerThreads,   \* Config.API of the same name
    MaximumRequestsPerBatch,
    MaximumPendingCallRequests,
    Scenarios   \* what may happen, and how often: a set of records

ASSUME ScenariosAssumption == \A s \in Scenarios : s.height \in Nat /\ s.wallets \in Nat

VARIABLES
    calls,      \* the requests that await a promise, in the order they came
    http,       \* the HTTP and JSON-RPC requests and what became of them
    pending,    \* pendingRequests of JSONRpc2Manager and of Call
    left        \* what may still happen

serverVars == <<calls, http, pending, left>>
apiVars == <<routeVars, clients, simulationVars, serverVars>>
vars == <<apiVars, wallet>>

Spend(what) == left[what] > 0 /\ left' = [left EXCEPT ![what] = @ - 1]

-----------------------------------------------------------------------------
(* HandlerRegistry: what the handler of a WebSocket request makes of a     *)
(* route that returns nothing: an answer, or the code of an error.         *)

BlockHandlers == [block |-> "BLOCK_NOT_FOUND", hash |-> "BLOCK_NOT_FOUND",
                  checksum |-> "BLOCK_NOT_FOUND", witness |-> "BLOCK_NOT_FOUND",
                  latest |-> "answer", gas |-> "INTERNAL_ERROR"]
TransactionHandlers == [transaction |-> "answer", receipt |-> "TRANSACTION_NOT_FOUND",
                        preimage |-> "INTERNAL_ERROR"]
MempoolHandlers == [mempoolInfo |-> "answer", pendingTransaction |-> "answer"]
AddressHandlers == [balance |-> "answer", utxos |-> "ADDRESS_NOT_FOUND",
                    publicKey |-> "ADDRESS_NOT_FOUND"]
ChainHandlers == [chainId |-> "answer", reorg |-> "answer"]
StateHandlers == [code |-> "CONTRACT_NOT_FOUND", storage |-> "CONTRACT_NOT_FOUND",
                  call |-> "VM_ERROR"]
EpochHandlers == [latestEpoch |-> "EPOCH_NOT_FOUND", epoch |-> "EPOCH_NOT_FOUND",
                  template |-> "EPOCH_NOT_FOUND", submit |-> "INTERNAL_ERROR"]

OnNothing(route) ==
    CASE route \in DOMAIN BlockHandlers -> BlockHandlers[route]
      [] route \in DOMAIN TransactionHandlers -> TransactionHandlers[route]
      [] route \in DOMAIN MempoolHandlers -> MempoolHandlers[route]
      [] route \in DOMAIN AddressHandlers -> AddressHandlers[route]
      [] route \in DOMAIN ChainHandlers -> ChainHandlers[route]
      [] route \in DOMAIN StateHandlers -> StateHandlers[route]
      [] OTHER -> EpochHandlers[route]

\* A route that throws is an internal error to the client.
HandlerError(q, a) ==
    CASE ~a.ok -> "INTERNAL_ERROR"
      [] a.v = 0 /\ q.route \notin {"latest", "submit"} -> OnNothing(q.route)
      [] OTHER -> "answer"

-----------------------------------------------------------------------------
(* Whether an answer is right, or how it comes to be wrong (history only). *)

Truth(s, q) ==
    CASE q.route = "block" ->
             IF q.n = -1 THEN GetLatestBlock(s) ELSE GetBlockHeader(s, q.n)
      [] q.route \in {"hash", "checksum"} -> IF q.n \in Range(s.blocks) THEN q.n ELSE 0
      [] q.route = "epoch" ->
             IF q.n = -1 THEN GetLatestEpoch(s) ELSE GetEpochByNumber(s, q.n)
      [] q.route = "template" ->
             GetBlockHeader(s, (CalculateCurrentEpoch(q.n) * BlocksPerEpoch) - 1)
      [] q.route = "preimage" ->
             GetEpochByNumber(s, CalculateCurrentEpoch(Height(s) + 1) - 2)

\* What is there now was written after the query was made or has been taken
\* away since; for what is latest, anything was.
Late(s, pr) ==
    IF pr.q.route \in BlockRoutes /\ pr.q.n # -1
        THEN Truth(s, pr.q) = 0 \/ Truth(s, pr.q) >= pr.born
        ELSE s.next # pr.born

\* The answer of a promise differs from the storage only when that is late; a
\* block comes with other transactions than its own only when it has been
\* reverted, or is being; an error is a failed query's, or is about something that was not
\* there.
FineRead(s, pr, a) ==
    IF a.ok THEN /\ a.v = Truth(s, pr.q) \/ Late(s, pr)
                 /\ (pr.q.route \in BlockRoutes /\ pr.q.full /\ a.w # a.v) =>
                        a.v \notin Kept(s)
    ELSE pr.fault \/ Truth(s, pr.q) = 0 \/ Late(s, pr)

\* A submission is accepted for an epoch that is still open on the stored chain,
\* unless the block that closes it was stored after the check or the height
\* known at the check was old.
FineSubmission(s, pr, a) ==
    a.ok => LET closing == GetBlockHeader(s, (a.w + 1) * BlocksPerEpoch)
            IN closing = 0 \/ closing >= pr.born \/ pr.lag

Fine(s, pr) ==
    /\ pr.q.route \in BlockRoutes \cup {"epoch", "template", "preimage"} =>
           FineRead(s, pr, AnswerOf(pr))
    /\ pr.q.route = "submit" => FineSubmission(s, pr, AnswerOf(pr))

\* What was announced (TipAgrees) is not judged again when it is an answer.
FineFromMemory(r) == r.from # 0 => Fine(store, promises[r.from])

-----------------------------------------------------------------------------
(* Requests and their answers.                                             *)

\* Where an answer goes, and the counters of what is not answered yet.
World == [clients |-> clients, http |-> http, pending |-> pending]

Call(via, who, id, q, p, counted) ==
    [via |-> via, who |-> who, id |-> id, q |-> q, on |-> p, counted |-> counted]

\* The end of processMessage: the response or the error, and endRequest.
RespondWebSocket(c, id, q, a, fine, isFull) ==
    LET code == HandlerError(q, a)
    IN EndRequest(IF code = "answer" THEN SendResponse(c, id, a, fine, isFull)
                  ELSE HandleError(c, id, code, isFull))

\* safeJson, handleDefaultError and the ends of JSONRpc2Manager.onRequest: the
\* answer goes out when nothing is left to do and the socket is open.
RespondHttp(h, fine) ==
    [h EXCEPT !.todo = Tail(@), !.fine = @ /\ fine,
              !.state = IF Len(h.todo) = 1 /\ @ = "open" THEN "answered" ELSE @]

Reply(world, call, a, fine, full) ==
    LET w1 == CASE call.via = "ws" ->
                     [world EXCEPT !.clients[call.who] =
                         RespondWebSocket(@, call.id, call.q, a, fine, call.who \in full)]
                [] OTHER ->
                     LET h == RespondHttp(world.http[call.id], fine)
                     IN [world EXCEPT !.http[call.id] = h,
                             !.pending.rpc = IF h.todo = <<>> THEN @ - h.size ELSE @]
    IN [w1 EXCEPT !.pending.call = IF call.q.route = "call" /\ call.on # 0 THEN @ - 1 ELSE @]

Become(world) ==
    /\ clients' = world.clients
    /\ http' = world.http
    /\ pending' = world.pending

\* The elements of s at some of its positions, in their order.
At(s, ks) ==
    [n \in 1..Cardinality(ks) |-> s[CHOOSE k \in ks : Cardinality({j \in ks : j <= k}) = n]]

\* What the replies to the requests of mine, one after the other, make of it.
Replied(mine, a, fine, full) ==
    LET after[n \in 0..Len(mine)] ==
            IF n = 0 THEN World ELSE Reply(after[n - 1], mine[n], a, fine, full)
    IN after[Len(mine)]

\* A promise that has settled answers everyone who awaits it, and the route no
\* longer counts them (decrementPendingRequests).
AnswerAll(p, pr, c, full) ==
    LET mine == {k \in DOMAIN calls : calls[k].on = p}
    IN /\ Become(Replied(At(calls, mine), AnswerOf(pr), Fine(store, pr), full))
       /\ cache' = [c EXCEPT !.pendingRequests =
                        @ - Cardinality({k \in mine : calls[k].counted = 1})]
       /\ calls' = At(calls, DOMAIN calls \ mine)

\* What a request asks of its route.  A simulation is refused over its own
\* limit, and otherwise goes to the RPC thread.
Ask(q) ==
    IF q.route # "call" THEN GetData(q)
    ELSE IF pending.call >= MaximumPendingCallRequests THEN Returns(cache, Thrown)
    ELSE AwaitsNew(cache, q)

StartSimulation(q, r) ==
    IF q.route = "call" /\ r.on # 0 THEN Resolve(r.on) ELSE UNCHANGED simulationVars

CountCall(q, r) == IF q.route = "call" /\ r.on # 0 THEN 1 ELSE 0

\* A query is answered from memory at once, or its request waits.
Request(world, via, who, id, q, full) ==
    LET r == Ask(q)
        call == Call(via, who, id, q, r.on, Counted(q, r))
        w1 == [world EXCEPT !.pending.call = @ + CountCall(q, r)]
    IN /\ promises' = r.ps
       /\ cache' = [r.cache EXCEPT !.pendingRequests = @ + call.counted]
       /\ StartSimulation(q, r)
       /\ IF r.on # 0
             THEN Become(w1) /\ calls' = Append(calls, call)
             ELSE /\ Become(Reply(w1, call, r.answer, FineFromMemory(r), full))
                  /\ UNCHANGED calls

\* The sockets that are full in a step.
Full(xs) == IF left.stalls > 0 THEN SUBSET xs ELSE {{}}
Stalls(full) == left' = [left EXCEPT !.stalls = @ - (IF full # {} THEN 1 ELSE 0)]

-----------------------------------------------------------------------------
(* The steps of the clients.                                               *)

Connect(x) ==
    /\ x \in left.peers
    /\ OnConnection(x)
    /\ UNCHANGED <<routeVars, simulationVars, serverVars>>

\* onMessage and processMessage of a request for a route.
RequestMessage(x, m, recent, full) ==
    LET c == Started([clients[x] EXCEPT !.asked = m.id], recent)
    IN Request([World EXCEPT !.clients[x] = c], "ws", x, m.id, m.q, full)

\* The subscription handlers answer in the same turn.
SubscriptionMessage(x, m, recent, full) ==
    LET c == Started([clients[x] EXCEPT !.asked = m.id], recent)
        isFull == x \in full
    IN /\ clients' = [clients EXCEPT ![x] = EndRequest(
                         IF m.type = "subscribe" THEN HandleSubscribe(c, m, feed.told, isFull)
                         ELSE HandleUnsubscribe(c, m, isFull))]
       /\ UNCHANGED <<cache, promises, simulationVars, calls, http, pending>>

RefusedMessage(x, m, full) ==
    LET c == [clients[x] EXCEPT !.broke = @ \/ Violation(clients[x], m),
                                !.asked = IF RequiresHandshake(m) THEN m.id ELSE @]
    IN /\ clients' = [clients EXCEPT ![x] = Refused(c, m, cache.wsHeight, x \in full)]
       /\ UNCHANGED <<cache, promises, simulationVars, calls, http, pending>>

OnMessageFrom(x, template) ==
    /\ IsActive(clients[x])
    /\ left.messages > 0
    /\ \E full \in Full({x}) : \E recent \in {0, clients[x].stamps} :
          LET m == [template EXCEPT !.id = clients[x].asked + 1]
          IN /\ left' = [left EXCEPT !.messages = @ - 1,
                                     !.stalls = @ - (IF full # {} THEN 1 ELSE 0)]
             /\ CASE ~ReachesHandler(clients[x], m, recent) -> RefusedMessage(x, m, full)
                  [] m.type = "request" -> RequestMessage(x, m, recent, full)
                  [] OTHER -> SubscriptionMessage(x, m, recent, full)
    /\ UNCHANGED <<store, feed>>

Drain(x) ==
    /\ OnDrain(x)
    /\ UNCHANGED <<routeVars, simulationVars, serverVars>>

Disconnect(x) ==
    /\ OnClose(x)
    /\ Spend("closes")
    /\ UNCHANGED <<routeVars, simulationVars, calls, http, pending>>

\* An HTTP or JSON-RPC request: what it still asks for, and how many
\* requests it is counted as.
Exchange(qs, size) == [state |-> "open", todo |-> qs, size |-> size, fine |-> TRUE]
Refusal == [state |-> "answered", todo |-> <<>>, size |-> 0, fine |-> TRUE]

\* A GET of a route.
HttpRequest(q) ==
    /\ Spend("gets")
    /\ Request([World EXCEPT !.http = Append(@, Exchange(<<q>>, 0))],
               "http", 0, Len(http) + 1, q, {})
    /\ UNCHANGED <<store, feed>>

\* incrementPendingRequests: a batch counts as one more than it asks for.
RpcSize(qs) == IF Len(qs) = 1 THEN 1 ELSE Len(qs) + 1
RpcRefused(qs) ==
    \/ Len(qs) > MaximumRequestsPerBatch
    \/ pending.rpc + RpcSize(qs) > MaximumPendingRequestsPerThreads

\* A JSON-RPC request for one thing, or a batch; what is not a request, or
\* over a limit, is answered with an error at once.
RpcRequest(qs) ==
    /\ Spend("rpcs")
    /\ IF RpcRefused(qs)
          THEN /\ http' = Append(http, Refusal)
               /\ UNCHANGED <<cache, promises, clients, simulationVars, calls, pending>>
          ELSE LET h == Exchange(qs, RpcSize(qs))
               IN Request([World EXCEPT !.http = Append(@, h), !.pending.rpc = @ + h.size],
                          "rpc", 0, Len(http) + 1, Head(qs), {})
    /\ UNCHANGED <<store, feed>>

\* requestInBatchOf, in batches of one: the next request of a batch when the
\* one before it is answered, even if the peer has gone.
NextInBatch(i) ==
    /\ http[i].todo # <<>>
    /\ \A k \in DOMAIN calls : calls[k].via = "ws" \/ calls[k].id # i
    /\ Request(World, "rpc", 0, i, Head(http[i].todo), {})
    /\ UNCHANGED <<store, feed, left>>

\* The peer of an HTTP request goes away: nothing is written to it.
HttpAborts(i) ==
    /\ http[i].state = "open"
    /\ Spend("closes")
    /\ http' = [http EXCEPT ![i].state = "gone"]
    /\ UNCHANGED <<routeVars, clients, simulationVars, calls, pending>>

-----------------------------------------------------------------------------
(* The answers of the storage, which may fail.                             *)

Settles(p, pr, full) ==
    LET c == Remember(cache, p, pr)
    IN /\ promises' = [promises EXCEPT ![p] = pr]
       /\ IF pr.at = "done" THEN AnswerAll(p, pr, c, full)
          ELSE cache' = c /\ UNCHANGED <<clients, http, pending, calls>>

Awaiting(p) == {calls[k].who : k \in {j \in DOMAIN calls : calls[j].via = "ws" /\ calls[j].on = p}}

ReadAnswers(p) ==
    /\ Pending(p) /\ promises[p].at # "simulation"
    /\ \E full \in Full(Awaiting(p)) :
          /\ Stalls(full)
          /\ Settles(p, Read(promises[p]), full)
    /\ store' = IF promises[p].at = "save"
                   THEN [store EXCEPT !.submissions = @ \cup {SaveTargetEpoch(promises[p])}]
                   ELSE store
    /\ UNCHANGED <<feed, simulationVars>>

ReadFails(p) ==
    /\ Pending(p) /\ promises[p].at # "simulation"
    /\ Spend("failures")
    /\ Settles(p, Failed(promises[p]), {})
    /\ UNCHANGED <<store, feed, simulationVars>>

\* The garbage collector takes a promise that nobody awaits.
Collect(e) ==
    /\ ~Pending(e.p)
    /\ Spend("collects")
    /\ cache' = [cache EXCEPT !.blocks = @ \ {e}, !.epochs = @ \ {e}]
    /\ UNCHANGED <<store, feed, promises, clients, simulationVars, calls, http, pending>>

\* The time to live of the template, the preimage or the latest epoch ends.
Expire ==
    /\ Spend("expiries")
    /\ \/ cache.template.fresh /\ cache' = [cache EXCEPT !.template.fresh = FALSE]
       \/ cache.preimage.fresh /\ cache' = [cache EXCEPT !.preimage.fresh = FALSE]
       \/ cache.epochFresh /\ cache' = [cache EXCEPT !.epochFresh = FALSE]
    /\ UNCHANGED <<store, feed, promises, clients, simulationVars, calls, http, pending>>

-----------------------------------------------------------------------------
(* The announcements.                                                      *)

Notified == {x \in Clients : IsHandshakeCompleted(clients[x])}

PollHeight ==
    /\ Poll
    /\ UNCHANGED <<store, cache, promises, clients, simulationVars, serverVars>>

\* notifyAllRoutesOfBlockChange: the read of the latest header, and what is
\* done with it.
ReadHeader(k) ==
    /\ HeaderRead(k)
    /\ UNCHANGED <<store, cache, promises, clients, simulationVars, serverVars>>

\* The routes and the clients hear of the header that was read, and the epoch that follows from the height.
NotifyBlockChange(k) ==
    /\ feed.running[k].epoch = -1 /\ feed.running[k].header # NoHeader
    /\ LET height == feed.running[k].height
           header == feed.running[k].header
           n == NewlyFinalized(height)
           news == [number |-> height, hash |-> header.block, nth |-> feed.told + 1]
       IN /\ cache' = [OnBlockChange(cache, height, header) EXCEPT
                          !.lastFinalizedEpoch = IF n = -1 THEN @ ELSE n]
          /\ \E full \in Full(Notified) :
                /\ Stalls(full)
                /\ clients' = Notify(clients, "blocks", news, full)
    /\ feed' = AfterBlockChange(k)
    /\ UNCHANGED <<store, promises, simulationVars, calls, http, pending>>

\* notifyAllRoutesOfEpochFinalized.
NotifyEpochFinalized(k) ==
    /\ feed.running[k].epoch # -1
    /\ LET n == feed.running[k].epoch
           epoch == GetEpochByNumber(store, n)
       IN IF epoch = 0
             THEN feed' = ListenerFails(k) /\ UNCHANGED <<cache, clients, left>>
             ELSE /\ cache' = OnEpochFinalized(cache, epoch)
                  /\ feed' = AfterEpochFinalized(k)
                  /\ \E full \in Full(Notified) :
                        /\ Stalls(full)
                        /\ clients' = Notify(clients, "epochs", [number |-> n, hash |-> epoch], full)
    /\ UNCHANGED <<store, promises, simulationVars, calls, http, pending>>

NotifyFails(k) ==
    /\ Spend("failures")
    /\ feed' = ListenerFails(k)
    /\ UNCHANGED <<store, cache, promises, clients, simulationVars, calls, http, pending>>

\* onMempoolTransaction, for a transaction that entered the mempool.
NotifyMempool ==
    /\ Spend("mempool")
    /\ clients' = Notify(clients, "mempool", [number |-> 0, hash |-> 0], {})
    /\ UNCHANGED <<routeVars, simulationVars, calls, http, pending>>

-----------------------------------------------------------------------------
(* The simulations.                                                        *)

\* A call is over when the RPC thread has its answer, or gives up.
SimulationAnswers(t) ==
    /\ OnMessage(t)
    /\ IF Awaited(t)
          THEN Settles(t.p, [Settled(promises[t.p], t.ok, t.block, 0) EXCEPT !.fault = ~t.ok], {})
          ELSE UNCHANGED <<promises, cache, clients, http, pending, calls>>
    /\ UNCHANGED <<store, feed, left>>

SimulationTimesOut(p) ==
    /\ TaskTimesOut(p)
    /\ IF \E t \in tasks : t.p = p /\ ~Lost(t) THEN Spend("timeouts") ELSE UNCHANGED left
    /\ Settles(p, Failed(promises[p]), {})
    /\ UNCHANGED <<store, feed>>

SimulationStep ==
    \/ \E t \in tasks :
          \/ TakeVM(t) /\ UNCHANGED left
          \/ HighLoad(t) /\ UNCHANGED left
          \/ FindContract(t, TRUE) /\ UNCHANGED left
          \/ FindContract(t, FALSE) /\ Spend("failures")
          \/ FetchCachedBlockHeight(t, GetLatestBlock(store)) /\ UNCHANGED left
          \/ FetchCachedBlockHeight(t, 0) /\ Spend("failures")
          \/ ExecuteCallInternal(t) /\ UNCHANGED left
    \/ \E w \in 1..Workers : WorkerExits(w) /\ Spend("exits")
    \/ \E w \in 1..Workers, v \in 1..ConcurrentVMs :
          ForgetBlockHeight(w, v) /\ Spend("expiries")

Simulate == SimulationStep /\ UNCHANGED <<routeVars, clients, calls, http, pending>>

-----------------------------------------------------------------------------
(* The indexer.                                                            *)

IndexerStep ==
    \/ SaveBlockHeader /\ Spend("blocks")
    \/ UpdateEpoch /\ UNCHANGED left
    \/ SetNewHeight /\ UNCHANGED left
    \/ \E fork \in left.forks : RevertDataUntilBlock(fork) /\ Spend("reverts")
    \/ \E table \in Tables : DeleteInRange(table) /\ UNCHANGED left

Index == IndexerStep /\ UNCHANGED <<feed, cache, promises, clients, simulationVars, calls, http, pending>>

Init ==
    /\ left \in Scenarios
    /\ store = StoreWith(left.height)
    /\ feed = FeedStarted(store)
    /\ cache = ColdCache(left.height)
    /\ promises = <<>>
    /\ clients = [x \in Clients |-> NoClient]
    /\ StartWorkers
    /\ calls = <<>> /\ http = <<>> /\ pending = [rpc |-> 0, call |-> 0]
    /\ wallet = WalletStart(left.wallets)

ServerNext ==
    \/ \E x \in Clients : Connect(x) \/ Drain(x) \/ Disconnect(x)
    \/ \E x \in Clients : \E m \in left.templates : OnMessageFrom(x, m)
    \/ \E q \in left.queries : HttpRequest(q)
    \/ \E qs \in left.batches : RpcRequest(qs)
    \/ \E i \in DOMAIN http : NextInBatch(i) \/ HttpAborts(i)
    \/ \E p \in DOMAIN promises : ReadAnswers(p) \/ ReadFails(p)
    \/ \E e \in cache.blocks \cup cache.epochs : Collect(e)
    \/ Expire
    \/ PollHeight
    \/ \E k \in DOMAIN feed.running :
          ReadHeader(k) \/ NotifyBlockChange(k) \/ NotifyEpochFinalized(k) \/ NotifyFails(k)
    \/ NotifyMempool
    \/ \E t \in tasks : SimulationAnswers(t)
    \/ \E p \in manager.waiting : SimulationTimesOut(p)
    \/ Simulate
    \/ Index

\* The queries of a wallet share nothing with the rest, so that they have
\* scenarios of their own.
Next ==
    \/ left.wallets = 0 /\ ServerNext /\ UNCHANGED wallet
    \/ WalletNext /\ UNCHANGED apiVars

Spec == Init /\ [][Next]_vars

-----------------------------------------------------------------------------
(* Properties.                                                             *)

\* Nothing of the indexer's is left to announce.
Announced ==
    store.step = "idle" /\ store.info = feed.polled /\ feed.running = <<>>

\* The height in progress is all the poller compares (BlockchainInfoRepository
\* startPolling): what was written while it came back to the value seen is
\* not announced.
Unseen == feed.seen # store.next

\* Once the announcements have come to rest, the block routes, the latest
\* block, the gas, and the height that the template, the submissions and the
\* handshake go by, are the storage's, unless the chain was replaced below an
\* unchanged height, the listener failed to read, or two listeners overlapped
\* and the older one ended last (Server.listenToBlockChanges).
TipAgrees ==
    (Announced /\ ~feed.failed) =>
        feed.overlapped \/
            ( /\ Unseen \/ ( /\ cache.current = GetLatestBlock(store)
                             /\ cache.latest = Value(Height(store))
                             /\ cache.gas = Value(GetLatestBlock(store)))
              /\ cache.height = store.info /\ cache.wsHeight = store.info)

\* The blocks among the messages to a client, after the first told ones.
Blocks(ms, told) == {i \in DOMAIN ms : ms[i].kind = "blocks" /\ ms[i].v.nth > told}

\* Every client hears of every block announced since it subscribed, once and
\* in order, however its socket drains (WebSocketManager.onBlockChange,
\* WebSocketClient.send and onDrain); and every finalized epoch is announced,
\* except those stepped over when the height jumped or that could not be read,
\* once a later height has been announced if the latest header could not be
\* read (Server.listenToBlockChanges, notifyAllRoutesOfEpochFinalized).
SubscribersTold ==
    /\ \A x \in Clients : \A s \in clients[x].subs :
          s.type = "blocks" =>
              LET ms == clients[x].got \o clients[x].queue
                  new == Blocks(ms, s.told)
              IN /\ {ms[i].v.nth : i \in new} = s.told + 1 .. feed.told
                 /\ \A i, j \in new : i < j => ms[i].v.nth < ms[j].v.nth
    /\ (Announced /\ ~feed.failed) =>
          \A e \in 0..HighestPossibleFinalizedEpoch(store.info) :
              e \in feed.toldEpochs \cup feed.skipped

\* Every answer given was right when it was given, or is accounted for: the
\* storage changed after the query that is answered, or the query failed.  A
\* submission was accepted while its epoch was open, or closed behind the
\* check (BlockRoute.getCachedBlockData, EpochRoute.getCachedEpochData,
\* GetEpochTemplateRoute.getData, SubmitEpochRoute.processEpochSubmission).
AnswersExplained ==
    /\ \A x \in Clients : \A i \in DOMAIN clients[x].got : clients[x].got[i].fine
    /\ \A i \in DOMAIN http : http[i].fine

Quiet ==
    /\ \A p \in DOMAIN promises : ~Pending(p)
    /\ \A i \in DOMAIN http : http[i].todo = <<>>

Answers(c, id) ==
    {i \in DOMAIN (c.got \o c.queue) :
        (c.got \o c.queue)[i].kind \in {"reply", "error"} /\ (c.got \o c.queue)[i].id = id}

\* When nothing is awaited any more, every request has been answered, exactly
\* once where its connection is still there, no counter and no VM is held,
\* and what a client received is what was sent to it, in order.  A connection
\* is closed only after its client broke the protocol or left, or when the
\* server was full (ProtocolHandler.processMessage, WebSocketClient.send and
\* close, JSONRpc2Manager.onRequest, VMManager.execute).
RequestsSettled ==
    /\ Quiet => /\ calls = <<>>
                /\ cache.pendingRequests = 0 /\ pending = [rpc |-> 0, call |-> 0]
                /\ \A i \in DOMAIN http : http[i].state # "open"
                /\ \A x \in Clients : clients[x].pending = 0
                /\ \A w \in 1..Workers : workers[w].alive =>
                      \A v \in 1..ConcurrentVMs :
                          workers[w].vms[v].busy <=> \E t \in tasks : t.w = w /\ t.vm = v
                                                       /\ t.at \in {"contract", "height", "execute"}
    /\ \A x \in Clients :
          LET c == clients[x]
          IN /\ \A id \in 1..c.asked :
                    /\ Cardinality(Answers(c, id)) <= 1
                    /\ (Quiet /\ IsActive(c)) => Answers(c, id) # {}
             /\ \A i \in 1..(Len(c.got) + Len(c.queue)) : (c.got \o c.queue)[i].n = i
             /\ c.state = "closed" => c.broke \/ c.sent = 0
=============================================================================
