------------------------------- MODULE Peers -------------------------------
(***************************************************************************)
(* Two nodes of the peer-to-peer network and the connections between them: *)
(* P2PManager with its table of peers and its blacklist, PeerChecker, and   *)
(* for each node one OPNetPeer, whose client part logs in at the other node *)
(* and whose server part lets the other node log in, each with its own      *)
(* encryption.  A table entry is found by the id of the peer, never by the  *)
(* connection a message came on.                                           *)
(*                                                                         *)
(* libp2p is external: it keeps the open connections of a node and calls   *)
(* onPeerConnect for the first and onPeerDisconnect after the last one of a *)
(* peer.  Each end notices the end of a connection on its own.  A stream    *)
(* delivers in order what it delivers; one opened without a connection      *)
(* fails, and sendMsg swallows the error.                                   *)
(***************************************************************************)
EXTENDS Integers, Sequences, FiniteSets, FiniteSetsExt

CONSTANTS
    Nodes,            \* the two nodes
    Compats,          \* how the two may differ: "same" or what differs
    MaxDialFailures,  \* MAX_DIAL_FAILURES
    MaxConns,         \* bound: connections
    MaxTroubles,      \* bound: drops, failed dials, slow sends and slow answers
    MaxWire           \* bound: messages on their way to a node when it is sent more

ASSUME PeersAssumption ==
    /\ IsFiniteSet(Nodes) /\ Cardinality(Nodes) = 2
    /\ Compats \subseteq {"same", "version", "checksum", "network"}
    /\ {MaxDialFailures, MaxConns, MaxWire} \subseteq Nat \ {0} /\ MaxTroubles \in Nat

VARIABLES
    compat,     \* how the two nodes differ
    up,         \* the connections that work
    conns,      \* node.getConnections(other)
    last,       \* the last connection made and who dialled it
    peer,       \* P2PManager.peers
    made,       \* how many OPNetPeer objects a node has created
    black,      \* P2PManager.blackListedPeerIds: the reason, or "none"
    known,      \* whether peerStore has an address of the other node
    failures,   \* PeerChecker.dialFailures
    waits,      \* calls of identify, peerStore.get and hangUp that are awaited
    wire,       \* messages on their way to a node
    troubles,   \* how many troubles there were
    healthy     \* history: nothing has happened yet that a healthy network does not do

linkVars == <<up, conns, last>>
vars == <<compat, linkVars, peer, made, black, known, failures, waits, wire, troubles, healthy>>

Other(n) == CHOOSE m \in Nodes : m # n

\* An OPNetPeer.  uid stands for its keys.  The client part is asleep, has sent
\* its authentication, has answered the challenge, is open; the server part
\* waits, has sent a challenge, has accepted the answer, is open.  Open is
\* encryptionStarted and isAuthenticated.  hung: disconnect was called.
NewPeer(u) == [uid |-> u, client |-> "asleep", server |-> "waiting",
               theirServer |-> 0, theirClient |-> 0, timer |-> TRUE,
               sending |-> {}, hung |-> FALSE, dead |-> FALSE]
NoPeer == [NewPeer(0) EXCEPT !.timer = FALSE, !.dead = TRUE]
HasPeer(n) == peer[n].uid # 0

\* OPNetPeer.isAuthenticated.
Authenticated(p) == p.client = "open" /\ p.server = "open" /\ ~p.hung

NoWaits == [identify |-> 0, store |-> 0, hangUp |-> 0]

Trouble == troubles < MaxTroubles

-----------------------------------------------------------------------------
(* Packets                                                                   *)

\* A packet of the client part goes to the other node's server part, and
\* conversely (the prefix byte).  to is the uid it is encrypted for, 0 if it is
\* not encrypted.
ToServer(p, op) == [part |-> "server", op |-> op, from |-> p.uid, arg |-> 0,
                    to |-> IF p.client = "open" THEN p.theirServer ELSE 0]
ToClient(p, op) == [part |-> "client", op |-> op, from |-> p.uid, arg |-> 0,
                    to |-> IF p.server = "open" THEN p.theirClient ELSE 0]

\* decrypt: before the part is open nothing is decrypted, and what is encrypted
\* reads as an unknown opcode.
DecryptByServer(p, m) == IF p.server = "open" THEN m.to = p.uid /\ m.from = p.theirClient
                         ELSE m.to = 0
DecryptByClient(p, m) == IF p.client = "open" THEN m.to = p.uid /\ m.from = p.theirServer
                         ELSE m.to = 0
Decrypt(p, m) == IF m.part = "server" THEN DecryptByServer(p, m) ELSE DecryptByClient(p, m)

\* OPNetProtocolV1: the opcodes before and after authentication.
Handshake == {"PING", "PONG", "AUTH", "CIPHER", "STATUS", "SERVERKEY"}
Session == {"PING", "PONG", "DISCOVER", "PEERS", "WITNESS", "SYNC", "SYNCREPLY", "TX"}
Opcodes(p, m) ==
    IF (IF m.part = "server" THEN p.server ELSE p.client) = "open" THEN Session ELSE Handshake

\* What a handler leaves: the peer, the code it disconnects with, its packets.
Result(p, code, out) == [p |-> p, code |-> code, out |-> out]
Quiet(p) == Result(p, "none", << >>)

\* OPNetPeer.disconnect; nothing once it is destroyed.
Disconnect(p, code) == IF p.dead THEN Quiet(p) ELSE Result([p EXCEPT !.hung = TRUE], code, << >>)

\* The catch of OPNetPeer.onMessage: disconnect, then destroy(false).  The limit
\* of five bad packets is not reached: after the first nothing is delivered.
BadPacket(p) == LET r == Disconnect(p, "BAD_PACKET") IN [r EXCEPT !.p.dead = TRUE]

\* onAuth, for discoverPeers; the next rounds are Talk.
OnAuth(p) == IF Authenticated(p) THEN <<ToServer(p, "DISCOVER")>> ELSE << >>

-----------------------------------------------------------------------------
(* The server part: AuthenticationManager                                    *)

MayAcceptVersion == compat # "version"

\* Mutant: the checksum of the protocol is not compared.
BadProtocolChecksumIgnored == FALSE

BadProtocolChecksum == compat = "checksum"

\* verifyNetwork disconnects; its caller goes on all the same.
VerifyNetwork(p, r) == IF compat = "network" THEN [r EXCEPT !.p.hung = TRUE, !.code = "BAD_NETWORK"]
                       ELSE r

\* createFullAuthentication: the keys, the challenge and its packet; the timer
\* is cleared when the packet is sent.
CreateFullAuthentication(p) ==
    Result([p EXCEPT !.server = "challenged", !.sending = @ \cup {"status"}], "none",
           <<[ToClient(p, "STATUS") EXCEPT !.arg = p.uid]>>)

OnAuthenticationMessage(p) ==
    IF p.server # "waiting" \/ ~MayAcceptVersion THEN Disconnect(p, "BAD_VERSION")
    ELSE IF BadProtocolChecksum THEN Disconnect(p, "BAD_PROTOCOL_CHECKSUM")
    ELSE VerifyNetwork(p, CreateFullAuthentication(p))

VerifySignaturePublicKey(p) == p.server # "waiting"
VerifyChallenge(p, m) == m.arg = p.uid

\* Mutant: encryption starts before the keys are sent.
SendServerHandshakeEncrypted(p, m) ==
    LET o == [p EXCEPT !.server = "open", !.theirClient = m.from]
    IN Result([o EXCEPT !.sending = @ \cup {"keys"}], "none",
              <<[ToClient(o, "SERVERKEY") EXCEPT !.arg = p.uid]>>)

\* sendServerHandshake sends the keys of the server part in clear text; when
\* that is done, encryption starts.
SendServerHandshake(p, m) ==
    Result([p EXCEPT !.server = "accepted", !.theirClient = m.from, !.sending = @ \cup {"keys"}],
           "none", <<[ToClient(p, "SERVERKEY") EXCEPT !.arg = p.uid]>>)

OnClientCipherExchangeMessage(p, m) ==
    IF ~VerifySignaturePublicKey(p) THEN Disconnect(p, "BAD_AUTH_CIPHER")
    ELSE IF ~VerifyChallenge(p, m) THEN Disconnect(p, "BAD_CHALLENGE")
    ELSE SendServerHandshake(p, m)

\* What follows the await of a send.
Sent(p, what) ==
    LET q == [p EXCEPT !.sending = @ \ {what}] IN
    IF what = "status" THEN Quiet([q EXCEPT !.timer = FALSE])
    ELSE LET o == [q EXCEPT !.server = "open"] IN Result(o, "none", OnAuth(o))

OnPingMessage(p) == Result(p, "none", <<ToClient(p, "PONG")>>)

\* ServerPeerManager.onDiscover.
OnDiscover(p) == Result(p, "none", <<ToClient(p, "PEERS")>>)

-----------------------------------------------------------------------------
(* The client part: ClientAuthenticationManager                              *)

\* Mutant: the answer to the challenge is not sent.
HandleAuthenticationStatusSilently(p, m) == Quiet([p EXCEPT !.client = "answered"])

\* buildKeyCipherExchangeClientPacket answers the challenge.
HandleAuthenticationStatusPacket(p, m) ==
    Result([p EXCEPT !.client = "answered"], "none",
           <<[ToServer(p, "CIPHER") EXCEPT !.arg = m.arg]>>)

\* Encryption starts, and the pings.
HandleServerCipherExchangePacket(p, m) ==
    LET o == [p EXCEPT !.client = "open", !.theirServer = m.arg]
    IN Result(o, "none", <<ToServer(o, "PING")>> \o OnAuth(o))

\* onSyncBlockHeadersRequest: no reply when there is no witness.
OnSyncBlockHeadersRequest(p) == {Quiet(p), Result(p, "none", <<ToServer(p, "SYNCREPLY")>>)}

\* SharedAuthenticationManager.onMessage and OPNetPeer.onMessage: the outcomes.
OnMessage(p, m) ==
    IF p.dead THEN {Quiet(p)}
    ELSE IF ~Decrypt(p, m) \/ m.op \notin Opcodes(p, m) THEN {BadPacket(p)}
    ELSE CASE m.op = "AUTH" -> {OnAuthenticationMessage(p)}
           [] m.op = "CIPHER" -> {OnClientCipherExchangeMessage(p, m)}
           [] m.op = "STATUS" -> {HandleAuthenticationStatusPacket(p, m)}
           [] m.op = "SERVERKEY" -> {HandleServerCipherExchangePacket(p, m)}
           [] m.op = "PING" -> {OnPingMessage(p)}
           [] m.op = "DISCOVER" -> {OnDiscover(p)}
           [] m.op = "SYNC" -> OnSyncBlockHeadersRequest(p)
           [] OTHER -> {Quiet(p)}

-----------------------------------------------------------------------------
(* P2PManager                                                                *)

Codes == {"RECONNECT", "BAD_VERSION", "BAD_PROTOCOL_CHECKSUM", "BAD_NETWORK", "BAD_PACKET",
          "BAD_AUTH_CIPHER", "BAD_CHALLENGE", "AUTH_TIMED_OUT", "UNREACHABLE"}

\* blackListPeerId: the first reason stays.
BlackListPeerId(n, code) == IF black[n] = "none" THEN code ELSE black[n]
IsBlackListedPeerId(n) == black[n] # "none"
IsPeerUnreachable(n) == failures[n] >= MaxDialFailures

\* The outbound stream of a node uses its oldest connection.
Carried(n) == conns[n] # {} /\ Min(conns[n]) \in up

\* disconnectPeer: the blacklist, unless the code is RECONNECT, and hangUp.
\* hangUp closes every connection with the peer.
DisconnectPeer(n, code) ==
    /\ black' = IF code \in Codes \ {"RECONNECT"} THEN [black EXCEPT ![n] = BlackListPeerId(n, code)]
                ELSE black
    /\ up' = IF code = "none" THEN up ELSE up \ conns[n]

\* Node n, whose messages to come are in, does what r says.
Perform(n, r, in) ==
    /\ peer' = [peer EXCEPT ![n] = r.p]
    /\ DisconnectPeer(n, r.code)
    /\ wire' = [m \in Nodes |-> IF up' = {} THEN << >>
                                ELSE IF m = n THEN in
                                ELSE IF Carried(n) THEN wire[m] \o r.out ELSE wire[m]]

\* createPeer throws when there is a peer already.
CreatePeer(n) ==
    IF HasPeer(n) THEN UNCHANGED <<peer, made>>
    ELSE /\ made' = [made EXCEPT ![n] = @ + 1]
         /\ peer' = [peer EXCEPT ![n] = NewPeer(made[n] + 1)]

\* onPeerConnect, called for the first connection.  Only an inbound connection
\* is identified, which takes a while.
OnPeerConnect(n, inbound) ==
    IF HasPeer(n) THEN UNCHANGED <<peer, made, waits>>
    ELSE IF inbound THEN /\ waits' = [waits EXCEPT ![n].identify = @ + 1]
                         /\ UNCHANGED <<peer, made>>
    ELSE CreatePeer(n) /\ UNCHANGED waits

\* identify is over; it fails when the connection is gone.
Identified(n) ==
    /\ waits[n].identify > 0
    /\ waits' = [waits EXCEPT ![n].identify = @ - 1]
    /\ \/ /\ CreatePeer(n)
          /\ failures' = [failures EXCEPT ![n] = 0]
          /\ UNCHANGED <<up, black, wire, healthy>>
       \/ /\ up = {}
          /\ DisconnectPeer(n, "BAD_VERSION")
          /\ healthy' = FALSE
          /\ UNCHANGED <<peer, made, failures, wire>>
    /\ UNCHANGED <<compat, conns, last, known, troubles>>

\* monitorConnectionHealth and PeerChecker.tryPeerData dial an address they
\* know; the connection gater of the node itself may refuse.
MayDial(n) == conns[n] = {} /\ known[n] /\ ~IsPeerUnreachable(n) /\ last.conn < MaxConns
DenyOutboundConnection(n) == IsBlackListedPeerId(n) \/ IsPeerUnreachable(n)

Dial(n) ==
    /\ MayDial(n) /\ ~DenyOutboundConnection(n) /\ up = {}
    /\ last' = [conn |-> last.conn + 1, by |-> n]
    /\ up' = {last.conn + 1}
    /\ conns' = [conns EXCEPT ![n] = {last.conn + 1}]
    /\ failures' = [failures EXCEPT ![n] = 0]
    /\ OnPeerConnect(n, FALSE)
    /\ UNCHANGED <<compat, black, known, wire, troubles, healthy>>

\* recordDialFailure, and onPeerUnreachable at the limit.
RecordDialFailure(n) ==
    LET over == failures[n] + 1 >= MaxDialFailures /\ ~IsBlackListedPeerId(n) IN
    /\ failures' = [failures EXCEPT ![n] = @ + 1]
    /\ black' = IF over THEN [black EXCEPT ![n] = "UNREACHABLE"] ELSE black
    /\ known' = IF over THEN [known EXCEPT ![n] = FALSE] ELSE known

DialFails(n) ==
    /\ MayDial(n)
    /\ DenyOutboundConnection(n) \/ Trouble
    /\ RecordDialFailure(n)
    /\ troubles' = IF DenyOutboundConnection(n) THEN troubles ELSE troubles + 1
    /\ healthy' = FALSE
    /\ UNCHANGED <<compat, linkVars, peer, made, waits, wire>>

\* The connection reaches the other end, whose gater may refuse it
\* (denyInboundUpgradedConnection).  onPeerConnect follows if it is the first.
Incoming(n) ==
    /\ up = {last.conn} /\ last.by # n /\ last.conn \notin conns[n]
    /\ IF IsBlackListedPeerId(n)
       THEN /\ up' = {} /\ wire' = [m \in Nodes |-> << >>]
            /\ UNCHANGED <<conns, peer, made, waits>>
       ELSE /\ conns' = [conns EXCEPT ![n] = @ \cup up]
            /\ IF conns[n] = {} THEN OnPeerConnect(n, TRUE) ELSE UNCHANGED <<peer, made, waits>>
            /\ UNCHANGED <<up, wire>>
    /\ healthy' = (healthy /\ conns[n] = {})
    /\ UNCHANGED <<compat, last, black, known, failures, troubles>>

\* The network breaks a connection.
Drop ==
    /\ Trouble /\ up # {}
    /\ up' = {} /\ wire' = [m \in Nodes |-> << >>]
    /\ troubles' = troubles + 1
    /\ healthy' = FALSE
    /\ UNCHANGED <<compat, conns, last, peer, made, black, known, failures, waits>>

\* libp2p finds a connection closed.  After the last one onPeerDisconnect reads
\* the addresses of the peer, which takes a while.
Notice(n) ==
    \E k \in conns[n] \ up :
        /\ conns' = [conns EXCEPT ![n] = @ \ {k}]
        /\ waits' = IF conns[n] = {k} THEN [waits EXCEPT ![n].store = @ + 1] ELSE waits
        /\ UNCHANGED <<compat, up, last, peer, made, black, known, failures, wire, troubles, healthy>>

\* The rest of onPeerDisconnect: the peer leaves the table and is destroyed,
\* which hangs up; then closePeerStreams.  A connection made meanwhile is hung
\* up too.  The addresses are put back.
OnPeerDisconnect(n) ==
    /\ waits[n].store > 0
    /\ peer' = [peer EXCEPT ![n] = NoPeer]
    /\ LET alive == HasPeer(n) /\ ~peer[n].dead
       IN /\ up' = IF alive THEN up \ conns[n] ELSE up
          /\ waits' = [waits EXCEPT ![n].store = @ - 1,
                                    ![n].hangUp = IF alive /\ conns[n] # {} THEN @ + 1 ELSE @]
          /\ wire' = IF up' = {} THEN [m \in Nodes |-> << >>]
                     ELSE IF alive THEN wire
                     ELSE [wire EXCEPT ![n] = << >>]
    /\ known' = IF IsPeerUnreachable(n) THEN known ELSE [known EXCEPT ![n] = TRUE]
    /\ healthy' = (healthy /\ up' = up)
    /\ UNCHANGED <<compat, conns, last, made, black, failures, troubles>>

\* closePeerStreams after a hangUp that had something to close: what is on its
\* way to the node is not read any more.
ClosePeerStreams(n) ==
    /\ waits[n].hangUp > 0
    /\ waits' = [waits EXCEPT ![n].hangUp = @ - 1]
    /\ wire' = [wire EXCEPT ![n] = << >>]
    /\ healthy' = (healthy /\ wire[n] = << >>)
    /\ UNCHANGED <<compat, linkVars, peer, made, black, known, failures, troubles>>

\* Minutes pass only when nothing is under way.
Idle == /\ up = {} /\ \A n \in Nodes : conns[n] = {} /\ waits[n] = NoWaits

\* purgeOldBlacklistedPeers, after 300 seconds.
PurgeOldBlacklistedPeers(n) ==
    /\ IsBlackListedPeerId(n) /\ Idle
    /\ black' = [black EXCEPT ![n] = "none"]
    /\ UNCHANGED <<compat, linkVars, peer, made, known, failures, waits, wire, troubles, healthy>>

\* isPeerUnreachable forgets the failures after an hour.
ForgetDialFailures(n) ==
    /\ IsPeerUnreachable(n) /\ ~IsBlackListedPeerId(n) /\ Idle
    /\ failures' = [failures EXCEPT ![n] = 0]
    /\ UNCHANGED <<compat, linkVars, peer, made, black, known, waits, wire, troubles, healthy>>

-----------------------------------------------------------------------------
(* OPNetPeer                                                                 *)

\* init, after its sleep: login sends the authentication.
Login(n) ==
    /\ peer[n].client = "asleep" /\ ~peer[n].dead
    /\ Perform(n, Result([peer[n] EXCEPT !.client = "sent"], "none", <<ToServer(peer[n], "AUTH")>>),
               wire[n])
    /\ UNCHANGED <<compat, conns, last, made, known, failures, waits, troubles, healthy>>

\* onPeerMessage, the peer known.  What follows a send follows at once, unless
\* the stream has to drain first.
Receive(n) ==
    /\ wire[n] # << >> /\ HasPeer(n)
    /\ \E r \in OnMessage(peer[n], Head(wire[n])) :
       LET new == r.p.sending \ peer[n].sending IN
       \/ /\ new = {}
          /\ Perform(n, r, Tail(wire[n]))
          /\ UNCHANGED <<troubles, healthy>>
       \/ /\ new # {}
          /\ LET s == Sent(r.p, CHOOSE w \in new : TRUE)
             IN Perform(n, Result(s.p, r.code, r.out \o s.out), Tail(wire[n]))
          /\ UNCHANGED <<troubles, healthy>>
       \/ /\ new # {} /\ Trouble
          /\ Perform(n, r, Tail(wire[n]))
          /\ troubles' = troubles + 1
          /\ healthy' = FALSE
    /\ UNCHANGED <<compat, conns, last, made, known, failures, waits>>

\* onPeerMessage, the peer unknown: the message is ignored.
Ignore(n) ==
    /\ wire[n] # << >> /\ ~HasPeer(n) /\ conns[n] \cap up # {}
    /\ wire' = [wire EXCEPT ![n] = Tail(@)]
    /\ healthy' = FALSE
    /\ UNCHANGED <<compat, linkVars, peer, made, black, known, failures, waits, troubles>>

\* The stream has drained.
Drained(n) ==
    \E what \in peer[n].sending :
        /\ ~peer[n].dead
        /\ Perform(n, Sent(peer[n], what), wire[n])
        /\ UNCHANGED <<compat, conns, last, made, known, failures, waits, troubles, healthy>>

\* The server part has waited eight seconds for the authentication, which is a
\* trouble when it was still to come.
Expected(n) == \/ \E i \in DOMAIN wire[n] : wire[n][i].op = "AUTH"
               \/ peer[Other(n)].client = "asleep" /\ ~peer[Other(n)].dead /\ up # {}
               \/ waits[Other(n)].identify > 0 /\ up # {}
               \/ up # {} /\ last.conn \notin conns[Other(n)]
               \/ "status" \in peer[n].sending

TimeoutAuth(n) ==
    /\ peer[n].timer /\ ~peer[n].dead
    /\ Expected(n) => Trouble
    /\ Perform(n, Disconnect([peer[n] EXCEPT !.timer = FALSE], "AUTH_TIMED_OUT"), wire[n])
    /\ troubles' = IF Expected(n) THEN troubles + 1 ELSE troubles
    /\ healthy' = (healthy /\ ~Expected(n))
    /\ UNCHANGED <<compat, conns, last, made, known, failures, waits>>

\* What an authenticated peer is sent: a ping, a discovery, a transaction, a
\* request for witnesses, a witness.
Talk(n) ==
    /\ HasPeer(n) /\ Authenticated(peer[n])
    /\ \A m \in Nodes : Len(wire[m]) < MaxWire
    /\ \E m \in {ToServer(peer[n], op) : op \in {"DISCOVER", "TX"}}
                \cup {ToClient(peer[n], "SYNC")} :
           Perform(n, Result(peer[n], "none", <<m>>), wire[n])
    /\ UNCHANGED <<compat, conns, last, made, known, failures, waits, troubles, healthy>>

-----------------------------------------------------------------------------

Init ==
    /\ compat \in Compats
    /\ up = {} /\ conns = [n \in Nodes |-> {}]
    /\ last = [conn |-> 0, by |-> CHOOSE n \in Nodes : TRUE]
    /\ peer = [n \in Nodes |-> NoPeer] /\ made = [n \in Nodes |-> 0]
    /\ black = [n \in Nodes |-> "none"] /\ failures = [n \in Nodes |-> 0]
    /\ known = [n \in Nodes |-> n = last.by]
    /\ waits = [n \in Nodes |-> NoWaits]
    /\ wire = [n \in Nodes |-> << >>]
    /\ troubles = 0 /\ healthy = TRUE

Works(n) == \/ Identified(n) \/ Incoming(n) \/ Notice(n) \/ OnPeerDisconnect(n)
            \/ ClosePeerStreams(n) \/ Login(n) \/ Receive(n) \/ Ignore(n) \/ Drained(n)

Next == \/ \E n \in Nodes : \/ Works(n) \/ TimeoutAuth(n) \/ Talk(n)
                            \/ Dial(n) \/ DialFails(n)
                            \/ PurgeOldBlacklistedPeers(n) \/ ForgetDialFailures(n)
        \/ Drop

Spec == Init /\ [][Next]_vars

\* What a node has begun it finishes: events and messages are handled, awaited
\* calls return, a timer that is not cleared fires.
Fairness == \A n \in Nodes :
    /\ WF_vars(Identified(n)) /\ WF_vars(Incoming(n)) /\ WF_vars(Notice(n))
    /\ WF_vars(OnPeerDisconnect(n)) /\ WF_vars(ClosePeerStreams(n))
    /\ WF_vars(Login(n)) /\ WF_vars(Receive(n) \/ Ignore(n)) /\ WF_vars(Drained(n))
    /\ WF_vars(~Expected(n) /\ TimeoutAuth(n))

FairSpec == Spec /\ Fairness

-----------------------------------------------------------------------------
(* Properties                                                                *)

\* Two nodes that agree on version, protocol and network never blacklist each
\* other on a healthy network: not for a packet that cannot be decrypted, not
\* for a handshake that does not end.  Whatever the network does, the answer to
\* a challenge is never taken for a wrong one.
BansExplained ==
    \A n \in Nodes : compat = "same" /\ IsBlackListedPeerId(n) =>
        ~healthy /\ black[n] \notin {"BAD_CHALLENGE", "BAD_AUTH_CIPHER"}

\* Two nodes that differ never take each other for authenticated.
Compatible == \A n \in Nodes : Authenticated(peer[n]) => compat = "same"

\* The client part is open only towards a server part that has accepted it, the
\* very object that holds the other key; else the other node has begun anew.
KeysAgree ==
    \A n \in Nodes :
        LET p == peer[n] q == peer[Other(n)] IN
        p.client = "open" /\ q.uid = p.theirServer =>
            q.server \in {"accepted", "open"} /\ q.theirClient = p.uid

\* A session is between nodes that agree and that hold each other's keys.
SessionsAgree == Compatible /\ KeysAgree

\* On a healthy network a connection between nodes that agree ends in a session
\* at both ends; between nodes that differ it is closed.
HandshakeSettles ==
    up # {} ~> (~healthy \/ IF compat = "same" THEN \A n \in Nodes : Authenticated(peer[n])
                            ELSE up = {})
=============================================================================
