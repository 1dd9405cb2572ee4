---------------------------- MODULE WebSocketApi ----------------------------
(***************************************************************************)
(* The WebSocket connections of the API: the life of a client              *)
(* (WebSocketClient), the protocol its messages follow (ProtocolHandler),  *)
(* its subscriptions, and what is sent to it, at once or after the socket  *)
(* has drained (WebSocketManager).                                         *)
(*                                                                         *)
(* Packets are records; the bytes of a packet are left out, except that a  *)
(* message may be one that cannot be parsed.  full is the set of clients   *)
(* whose socket does not take another message in this step: the socket's   *)
(* send is external and tells so by returning false.                       *)
(***************************************************************************)
EXTENDS Integers, Sequences, FiniteSets, SequencesExt

CONSTANTS
    Clients,                \* the peers that may connect
    MaxConnections,         \* API.WEBSOCKET.MAX_CONNECTIONS
    MaxPendingRequests,     \* API.WEBSOCKET.MAX_PENDING_REQUESTS
    MaxRequestsPerSecond,   \* API.WEBSOCKET.MAX_REQUESTS_PER_SECOND
    MaxSubscriptions        \* API.WEBSOCKET.MAX_SUBSCRIPTIONS

VARIABLE clients

\* A client before it connects.  sent counts the messages given to send(),
\* asked the requests; broke says that the client broke the protocol or left
\* (history only).
NoClient ==
    [state |-> "none", pending |-> 0, stamps |-> 0, subs |-> {}, nextSub |-> 1,
     draining |-> FALSE, queue |-> <<>>, got |-> <<>>, sent |-> 0, asked |-> 0,
     broke |-> FALSE]

\* A message to a client: its kind, the request it answers and its content;
\* fine says that the content was right or is accounted for (history only).
Packet(kind, id, v, fine) == [kind |-> kind, id |-> id, v |-> v, fine |-> fine]

-----------------------------------------------------------------------------
(* WebSocketClient.                                                        *)

IsHandshakeCompleted(c) == c.state = "ready"
IsActive(c) == c.state \in {"connected", "ready"}

\* A message keeps the place it has among all that was sent (history only).
\* send: nothing to a closed client; behind the queue while the socket
\* drains; and into the queue when the socket is full.
Send(c, m, isFull) ==
    IF ~IsActive(c) THEN c
    ELSE LET n == c.sent + 1
             d == [c EXCEPT !.sent = n]
             x == [kind |-> m.kind, id |-> m.id, v |-> m.v, fine |-> m.fine, n |-> n]
         IN CASE c.draining -> [d EXCEPT !.queue = Append(@, x)]
              [] isFull -> [d EXCEPT !.draining = TRUE, !.queue = Append(@, x)]
              [] OTHER -> [d EXCEPT !.got = Append(@, x)]

SendError(c, id, code, isFull) == Send(c, Packet("error", id, code, TRUE), isFull)
SendResponse(c, id, v, fine, isFull) == Send(c, Packet("reply", id, v, fine), isFull)

\* Mutant: the message that the socket did not take is not put back.
FlushQueueLosing(c, taken) ==
    [c EXCEPT !.got = @ \o SubSeq(c.queue, 1, taken),
              !.queue = SubSeq(@, taken + 2, Len(@)),
              !.draining = taken < Len(c.queue)]

\* onDrain: the queue is flushed in order until the socket is full again.
FlushQueue(c, taken) ==
    [c EXCEPT !.got = @ \o SubSeq(c.queue, 1, taken),
              !.queue = SubSeq(@, taken + 1, Len(@)),
              !.draining = taken < Len(c.queue)]

\* close: the subscriptions go with the connection.
Close(c) ==
    IF c.state = "closed" THEN c
    ELSE [c EXCEPT !.state = "closed", !.subs = {}]

MarkClosed(c) == [c EXCEPT !.state = "closed", !.subs = {}]

\* closeWithError: the error goes out (or into the queue) first.
CloseWithError(c, code, isFull) ==
    IF c.state = "closed" THEN c ELSE Close(SendError(c, 0, code, isFull))

\* isFatalError: the only codes after which a request's error closes.
IsFatalError(code) ==
    code \in {"UNKNOWN_OPCODE", "MALFORMED_MESSAGE", "UNSUPPORTED_PROTOCOL_VERSION"}

\* checkRateLimit: recent of the stamps are younger than a second.
CheckRateLimit(recent) == recent < MaxRequestsPerSecond

StartRequest(c, recent) ==
    IsActive(c) /\ c.pending < MaxPendingRequests /\ CheckRateLimit(recent)

Started(c, recent) == [c EXCEPT !.pending = @ + 1, !.stamps = recent + 1]

EndRequest(c) == [c EXCEPT !.pending = IF @ > 0 THEN @ - 1 ELSE @]

HasSubscription(c, type) == \E s \in c.subs : s.type = type

\* told is how many blocks had been announced before (history only).
AddSubscription(c, type, told) ==
    [c EXCEPT !.subs = @ \cup {[id |-> c.nextSub, type |-> type, told |-> told]},
              !.nextSub = @ + 1]

RemoveSubscription(c, id) == [c EXCEPT !.subs = {s \in @ : s.id # id}]

-----------------------------------------------------------------------------
(* ProtocolHandler: the messages that are dealt with before any route.     *)

\* OpcodeRegistry: ping and handshake are the requests that need no
\* handshake.
RequiresHandshake(m) == m.type \notin {"ping", "handshake"}

\* A message that names no registered opcode.  The opcodes of the plugins
\* are never given to the protocol handler, so they are among these.
IsOpcodeRegistered(m) == m.type \notin {"unknown", "plugin"}

CompleteHandshake(c) == [c EXCEPT !.state = "ready"]

HandlePing(c, m, isFull) ==
    IF m.garbled THEN c ELSE Send(c, Packet("pong", m.id, 0, TRUE), isFull)

\* handleHandshake: once only, with a version and a name that are accepted.
HandleHandshake(c, m, height, isFull) ==
    CASE IsHandshakeCompleted(c) -> SendError(c, 0, "HANDSHAKE_ALREADY_COMPLETED", isFull)
      [] m.garbled -> CloseWithError(c, "MALFORMED_MESSAGE", isFull)
      [] m.version = "unsupported" ->
             Close(SendError(c, 0, "UNSUPPORTED_PROTOCOL_VERSION", isFull))
      [] m.version = "unnamed" -> Close(SendError(c, 0, "INVALID_PARAMS", isFull))
      [] OTHER -> Send(CompleteHandshake(c), Packet("ack", m.id, height, TRUE), isFull)

\* SUBSCRIBE_BLOCKS, SUBSCRIBE_EPOCHS and SUBSCRIBE_MEMPOOL.
HandleSubscribe(c, m, told, isFull) ==
    CASE HasSubscription(c, m.sub) ->
             SendError(c, m.id, "SUBSCRIPTION_ALREADY_EXISTS", isFull)
      [] Cardinality(c.subs) >= MaxSubscriptions ->
             SendError(c, m.id, "MAX_SUBSCRIPTIONS_REACHED", isFull)
      [] OTHER -> SendResponse(AddSubscription(c, m.sub, told), m.id, c.nextSub, TRUE, isFull)

HandleUnsubscribe(c, m, isFull) ==
    IF \E s \in c.subs : s.id = m.sub
        THEN SendResponse(RemoveSubscription(c, m.sub), m.id, 0, TRUE, isFull)
        ELSE SendError(c, m.id, "SUBSCRIPTION_NOT_FOUND", isFull)

\* handleError: the code of the error, and the connection is closed when the
\* code is fatal.
HandleError(c, id, code, isFull) ==
    LET d == SendError(c, id, code, isFull)
    IN IF IsFatalError(code) THEN Close(d) ELSE d

\* Whether a message reaches the handler of a route, and the client once it
\* is counted as started.
ReachesHandler(c, m, recent) ==
    /\ m.type \in {"request", "subscribe", "unsubscribe"}
    /\ IsHandshakeCompleted(c)
    /\ ~m.garbled
    /\ StartRequest(c, recent)

\* processMessage of a message that reaches no handler.
Refused(c, m, height, isFull) ==
    CASE m.type = "malformed" -> CloseWithError(c, "MALFORMED_MESSAGE", isFull)
      [] ~IsOpcodeRegistered(m) -> CloseWithError(c, "UNKNOWN_OPCODE", isFull)
      [] RequiresHandshake(m) /\ ~IsHandshakeCompleted(c) ->
             Close(SendError(c, 0, "HANDSHAKE_REQUIRED", isFull))
      [] m.type = "ping" -> HandlePing(c, m, isFull)
      [] m.type = "handshake" -> HandleHandshake(c, m, height, isFull)
      [] m.garbled -> SendError(c, m.id, "MALFORMED_MESSAGE", isFull)
      [] OTHER -> SendError(c, m.id, "TOO_MANY_PENDING_REQUESTS", isFull)

\* A message that no client that follows the protocol sends (history only).
Violation(c, m) ==
    \/ m.type \in {"malformed", "unknown", "plugin"}
    \/ RequiresHandshake(m) /\ ~IsHandshakeCompleted(c)
    \/ m.type = "handshake" /\ (m.garbled \/ m.version # "supported")

-----------------------------------------------------------------------------
(* WebSocketManager.                                                       *)

Connected == {x \in Clients : IsActive(clients[x])}

\* onConnection: refused (and closed) when as many are connected as may be.
OnConnection(x) ==
    /\ clients[x].state = "none"
    /\ clients' = [clients EXCEPT ![x].state =
                      IF Cardinality(Connected) >= MaxConnections THEN "closed" ELSE "connected"]

\* onDrain: the socket takes the first messages of the queue.
OnDrain(x) ==
    /\ IsActive(clients[x]) /\ clients[x].draining
    /\ \E taken \in 1..Len(clients[x].queue) :
           clients' = [clients EXCEPT ![x] = FlushQueue(@, taken)]

\* onClose: the peer closes, or the connection is lost.
OnClose(x) ==
    /\ IsActive(clients[x])
    /\ clients' = [clients EXCEPT ![x] = [MarkClosed(@) EXCEPT !.broke = TRUE]]

\* A notification to every client that has the subscription.
Notify(cs, type, v, full) ==
    [x \in Clients |->
        IF IsHandshakeCompleted(cs[x]) /\ HasSubscription(cs[x], type)
            THEN Send(cs[x], Packet(type, 0, v, TRUE), x \in full)
            ELSE cs[x]]
=============================================================================
