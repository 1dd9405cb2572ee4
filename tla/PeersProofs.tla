---------------------------- MODULE PeersProofs ----------------------------
(***************************************************************************)
(* Proofs about Peers.  Two invariants: Sound, what holds whatever the     *)
(* network does, and Calm, what holds as long as the network is healthy    *)
(* and the nodes agree.                                                    *)
(***************************************************************************)
EXTENDS Peers, FiniteSetTheorems, SequenceTheorems, WellFoundedInduction, TLAPS

-----------------------------------------------------------------------------
(* Types                                                                     *)

PeerType ==
    [uid : Nat, client : {"asleep", "sent", "answered", "open"},
     server : {"waiting", "challenged", "accepted", "open"},
     theirServer : Nat, theirClient : Nat, timer : BOOLEAN,
     sending : SUBSET {"status", "keys"}, hung : BOOLEAN, dead : BOOLEAN]

PacketType ==
    [part : {"server", "client"}, op : Handshake \cup Session,
     from : Nat, arg : Nat, to : Nat]

Types ==
    /\ compat \in Compats
    /\ last \in [conn : Nat, by : Nodes]
    /\ up \subseteq {last.conn} \ {0}
    /\ conns \in [Nodes -> SUBSET (1 .. last.conn)]
    /\ peer \in [Nodes -> PeerType]
    /\ made \in [Nodes -> Nat]
    /\ black \in [Nodes -> Codes \cup {"none"}]
    /\ waits \in [Nodes -> [identify : Nat, store : Nat, hangUp : Nat]]
    /\ wire \in [Nodes -> Seq(PacketType)]
    /\ healthy \in BOOLEAN

-----------------------------------------------------------------------------
(* What holds on any network                                                 *)

\* The connection in use is one of node n's.
Connected(n) == conns[n] \cap up # {}

\* The uid of an object is the number of objects made.
Numbered ==
    \A n \in Nodes : /\ peer[n].uid \in {0, made[n]}
                     /\ peer[n].uid = 0 => peer[n] = NoPeer
                     /\ peer[n].theirServer <= made[Other(n)]
                     /\ peer[n].client = "open" => peer[n].theirServer # 0

\* What is on the wire was sent by the object that is in the table of the
\* sender, on the connection in use.
Fresh ==
    \A n \in Nodes : \A x \in Range(wire[Other(n)]) :
        x.from = peer[n].uid /\ Connected(n) /\ ~peer[n].dead

\* The server part has begun only with a node that agrees, or has hung up.
Screened ==
    \A n \in Nodes :
        /\ peer[n].server # "waiting" => compat = "same" \/ (compat = "network" /\ peer[n].hung)
        /\ "keys" \in peer[n].sending => peer[n].server \in {"accepted", "open"}
        /\ peer[n].dead => peer[n].hung \/ peer[n] = NoPeer

\* A challenge on the wire is that of the sender, its answer is for the
\* receiver, and keys are for the object that gets them.
Answerable ==
    \A n \in Nodes : \A x \in Range(wire[n]) :
        LET q == peer[Other(n)] IN
        /\ x.op \in {"STATUS", "CIPHER", "SERVERKEY"} => Connected(n)
        /\ x.op = "STATUS" => x.arg = x.from /\ q.server # "waiting"
        /\ x.op = "CIPHER" => x.arg = peer[n].uid /\ peer[n].server # "waiting"
        /\ x.op = "SERVERKEY" =>
             /\ x.arg = x.from /\ q.server \in {"accepted", "open"}
             /\ q.theirClient = peer[n].uid /\ HasPeer(n)

\* The answer to a challenge is never found wrong.
NoBadAnswer == \A n \in Nodes : black[n] \notin {"BAD_CHALLENGE", "BAD_AUTH_CIPHER"}

Sound == Types /\ Numbered /\ Fresh /\ Screened /\ Answerable /\ NoBadAnswer /\ KeysAgree

-----------------------------------------------------------------------------
(* What holds on a healthy network between nodes that agree                  *)

Steps == {"AUTH", "STATUS", "CIPHER", "SERVERKEY"}

\* Nothing is closed, refused or slow.
Undisturbed ==
    \A n \in Nodes :
        /\ black[n] = "none" /\ waits[n].store = 0 /\ waits[n].hangUp = 0
        /\ ~peer[n].hung /\ peer[n].sending = {} /\ peer[n].server # "accepted"
        /\ peer[n].dead => ~HasPeer(n)
        /\ conns[n] \subseteq up
        /\ HasPeer(n) \/ waits[n].identify > 0 => Connected(n)
        /\ up # {} => HasPeer(n) \/ waits[n].identify > 0 \/ ~Connected(n)
        /\ peer[n].timer => peer[n].server = "waiting"

\* What one part sends the other once both are open.
FromClient == {"PING", "DISCOVER", "TX", "SYNCREPLY"}
FromServer == {"PONG", "PEERS", "SYNC"}

\* A packet x on the wire to the server part q, from the node of the client part p.
Asks(p, q, x) ==
    /\ x.op = "AUTH" => p.client = "sent" /\ q.server = "waiting"
    /\ x.op = "CIPHER" => p.client = "answered" /\ q.server = "challenged"
    /\ x.op \in {"AUTH", "CIPHER"} => x.part = "server"
    /\ x.op \in Steps => x.to = 0
    /\ x.part = "server" /\ x.op \notin Steps =>
         p.client = "open" /\ x.to = q.uid /\ x.op \in FromClient

\* A packet x on the wire to the client part p, from the node of the server part q.
Answers(p, q, x) ==
    /\ x.op = "STATUS" => p.client = "sent" /\ q.server = "challenged"
    /\ x.op = "SERVERKEY" => p.client = "answered" /\ q.server = "open"
    /\ x.op \in {"STATUS", "SERVERKEY"} => x.part = "client"
    /\ x.part = "client" /\ x.op \notin Steps =>
         q.server = "open" /\ x.to = p.uid /\ x.op \in FromServer

Has(w, op) == \E i \in DOMAIN w : w[i].op = op

\* The keys come before what is encrypted with them.
KeysFirst(w) ==
    \A i \in DOMAIN w : w[i].part = "client" /\ w[i].op \notin Steps =>
        \E j \in 1 .. i - 1 : w[j].op = "SERVERKEY"

\* How far the client part p of one node and the server part q of the other are,
\* with what is on the wire to q and to p.
Dialogue(p, q, toQ, toP) ==
    /\ \A x \in Range(toQ) : Asks(p, q, x)
    /\ \A x \in Range(toP) : Answers(p, q, x)
    /\ p.client = "sent" /\ q.server = "waiting" => Has(toQ, "AUTH")
    /\ p.client = "answered" /\ q.server = "open" => Has(toP, "SERVERKEY")
    /\ p.client # "open" => KeysFirst(toP)
    /\ q.server # "waiting" => p.client # "asleep"
    /\ p.client \in {"answered", "open"} => q.server # "waiting"
    /\ q.server = "open" => p.client \in {"answered", "open"} /\ q.theirClient = p.uid
    /\ p.client = "open" => q.server = "open" /\ p.theirServer = q.uid

\* A step of a handshake is on the wire once.
Once(w) == \A i, j \in DOMAIN w : w[i].op \in Steps /\ w[i].op = w[j].op => i = j

Calm ==
    /\ Undisturbed
    /\ \A n \in Nodes : Once(wire[n])
    /\ \A n \in Nodes : Dialogue(peer[n], peer[Other(n)], wire[Other(n)], wire[n])

CalmWhileHealthy == healthy /\ compat = "same" => Calm
-----------------------------------------------------------------------------
(* The two nodes, sequences, the oldest connection                           *)

\* There are two nodes, and Other leads from one to the other.
LEMMA TwoNodes ==
  \A n \in Nodes : /\ Other(n) \in Nodes /\ Other(n) # n /\ Other(Other(n)) = n
                   /\ \A m \in Nodes : m = n \/ m = Other(n)
<1>1. SUFFICES ASSUME NEW n \in Nodes
               PROVE  /\ Other(n) \in Nodes /\ Other(n) # n /\ Other(Other(n)) = n
                      /\ \A m \in Nodes : m = n \/ m = Other(n)
  OBVIOUS
<1>2. IsFiniteSet(Nodes \ {n}) /\ Cardinality(Nodes \ {n}) = 1
  BY PeersAssumption, FS_RemoveElement, SMTT(20)
<1>3. PICK o : Nodes \ {n} = {o}
  BY <1>2, FS_Singleton
<1>4. o \in Nodes /\ o # n /\ Nodes = {n, o}
  BY <1>3
<1>5. Other(n) = o /\ Other(o) = n
  BY <1>4 DEF Other
<1> QED BY <1>4, <1>5

\* The members of sequences.
LEMMA Members ==
  ASSUME NEW S, NEW s \in Seq(S), NEW t \in Seq(S)
  PROVE  /\ s \o t \in Seq(S) /\ Range(s \o t) \subseteq Range(s) \cup Range(t)
         /\ Range(s) \subseteq S
         /\ s # << >> => /\ Tail(s) \in Seq(S) /\ Range(Tail(s)) \subseteq Range(s)
                         /\ Head(s) \in Range(s)
         /\ (\A x : x \notin Range(s)) <=> s = << >>
<1>1. s \o t \in Seq(S) /\ Range(s \o t) \subseteq Range(s) \cup Range(t)
  <2>1. ASSUME NEW i \in DOMAIN (s \o t)
        PROVE  (s \o t)[i] \in Range(s) \cup Range(t)
    <3>1. CASE i <= Len(s)
      BY <3>1 DEF Range
    <3>2. CASE i > Len(s)
      <4>1. i - Len(s) \in DOMAIN t /\ (s \o t)[i] = t[i - Len(s)]
        BY <3>2
      <4> QED BY <4>1 DEF Range
    <3> QED BY <3>1, <3>2
  <2> QED BY <2>1 DEF Range
<1>2. Range(s) \subseteq S
  BY DEF Range
<1>3. ASSUME s # << >>
      PROVE  /\ Tail(s) \in Seq(S) /\ Range(Tail(s)) \subseteq Range(s)
             /\ Head(s) \in Range(s)
  <2>1. Tail(s) \in Seq(S) /\ Len(s) > 0
    BY <1>3
  <2>2. \A i \in DOMAIN Tail(s) : i + 1 \in DOMAIN s /\ Tail(s)[i] = s[i + 1]
    BY <1>3
  <2>3. Head(s) = s[1] /\ 1 \in DOMAIN s
    BY <1>3, <2>1
  <2> QED BY <2>1, <2>2, <2>3 DEF Range
<1>4. (\A x : x \notin Range(s)) <=> s = << >>
  <2>1. s # << >> => s[1] \in Range(s)
    BY DEF Range
  <2>2. s = << >> => \A x : x \notin Range(s)
    BY DEF Range
  <2> QED BY <2>1, <2>2
<1> QED BY <1>1, <1>2, <1>3, <1>4

\* A message by itself.
LEMMA OneMember ==
  ASSUME NEW S, NEW x \in S
  PROVE  <<x>> \in Seq(S) /\ Range(<<x>>) = {x} /\ << >> \in Seq(S) /\ Range(<< >>) = {}
  BY DEF Range

\* The stream of a node that sends uses the connection in use.
LEMMA CarriedIsConnected ==
  ASSUME Types, NEW n \in Nodes, Carried(n)
  PROVE  Connected(n)
<1>1. conns[n] \subseteq Nat /\ conns[n] # {}
  BY DEF Types, Carried
<1>2. \E x \in conns[n] : \A y \in conns[n] : ~(<<y, x>> \in OpToRel(<, Nat))
  BY <1>1, NatLessThanWellFounded, WFMin
<1>3. PICK x \in conns[n] : \A y \in conns[n] : ~(<<y, x>> \in OpToRel(<, Nat))
  BY <1>2
<1>4. \A y \in conns[n] : ~(y < x)
  BY <1>1, <1>3 DEF OpToRel
<1>5. \A y \in conns[n] : x <= y
  BY <1>1, <1>4
<1>6. Min(conns[n]) \in conns[n]
  BY <1>5 DEF Min
<1> QED BY <1>6 DEF Carried, Connected

-----------------------------------------------------------------------------
(* What a node may do in a step without breaking Sound                       *)

\* A packet that node n may send, its object being p by then.
MaySend(n, p, x) ==
    /\ x.from = peer[n].uid /\ ~p.dead
    /\ x.op \in {"STATUS", "CIPHER", "SERVERKEY"} => Connected(Other(n))
    /\ x.op = "STATUS" => x.arg = x.from /\ p.server # "waiting"
    /\ x.op = "CIPHER" => x.arg = peer[Other(n)].uid /\ peer[Other(n)].server # "waiting"
    /\ x.op = "SERVERKEY" => /\ x.arg = x.from /\ p.server \in {"accepted", "open"}
                             /\ p.theirClient = peer[Other(n)].uid /\ HasPeer(Other(n))

\* What the object of node n may become.
MayBecome(n, p) ==
    /\ p \in PeerType /\ p.uid = peer[n].uid /\ (p.uid = 0 => p = NoPeer)
    /\ p.theirServer <= made[Other(n)] /\ (p.client = "open" => p.theirServer # 0)
    /\ p.server # "waiting" => compat = "same" \/ (compat = "network" /\ p.hung)
    /\ "keys" \in p.sending => p.server \in {"accepted", "open"}
    /\ p.dead => p.hung \/ p = NoPeer
    /\ peer[n].server # "waiting" => p.server # "waiting"
    /\ peer[n].server \in {"accepted", "open"} => p.server \in {"accepted", "open"}
    /\ p.theirClient \in {peer[n].theirClient, peer[Other(n)].uid}
    /\ p.client = "open" /\ peer[Other(n)].uid = p.theirServer =>
         peer[Other(n)].server \in {"accepted", "open"} /\ peer[Other(n)].theirClient = p.uid

\* What a handler of node n may leave: it dies only when it hangs up.
Allowed(n, r) ==
    /\ MayBecome(n, r.p)
    /\ r.code \in (Codes \cup {"none"}) \ {"BAD_CHALLENGE", "BAD_AUTH_CIPHER"}
    /\ r.p.dead => (peer[n].dead \/ r.code # "none") /\ r.p.sending = peer[n].sending
    /\ r.out \in Seq(PacketType) /\ \A x \in Range(r.out) : MaySend(n, r.p, x)

\* Where the messages are after a node has done its work.
LEMMA PerformMoves ==
  ASSUME Types, NEW n \in Nodes, NEW r, NEW in \in Seq(PacketType), Perform(n, r, in),
         r.out \in Seq(PacketType), r.code \in Codes \cup {"none"}
  PROVE  /\ up' \in {up, up \ conns[n]} /\ (r.code # "none" => up' = up \ conns[n])
         /\ wire' \in [Nodes -> Seq(PacketType)]
         /\ \A m \in Nodes : \A x \in Range(wire'[m]) : up' # {}
         /\ Range(wire'[n]) \subseteq Range(in)
         /\ \A x \in Range(wire'[Other(n)]) :
              x \in Range(wire[Other(n)]) \/ (x \in Range(r.out) /\ Connected(n))
<1> USE TwoNodes
<1>1. up' \in {up, up \ conns[n]} /\ (r.code # "none" => up' = up \ conns[n])
  BY DEF Perform, DisconnectPeer
<1>2. wire' = [m \in Nodes |-> IF up' = {} THEN << >>
                               ELSE IF m = n THEN in
                               ELSE IF Carried(n) THEN wire[m] \o r.out ELSE wire[m]]
  BY DEF Perform
<1>3. \A m \in Nodes : wire[m] \in Seq(PacketType)
  BY DEF Types
<1>4. \A m \in Nodes : wire[m] \o r.out \in Seq(PacketType) /\ Range(wire[m] \o r.out) \subseteq Range(wire[m]) \cup Range(r.out)
  BY <1>3, Members
<1>5. wire' \in [Nodes -> Seq(PacketType)]
  BY <1>2, <1>3, <1>4
<1>6. << >> \in Seq(PacketType) /\ \A x : x \notin Range(<< >>)
  BY DEF Range
<1>7. \A m \in Nodes : \A x \in Range(wire'[m]) : up' # {}
  BY <1>2, <1>6
<1>8. Range(wire'[n]) \subseteq Range(in)
  BY <1>2, <1>6
<1>9. ASSUME NEW x \in Range(wire'[Other(n)])
      PROVE  x \in Range(wire[Other(n)]) \/ (x \in Range(r.out) /\ Connected(n))
  <2>1. wire'[Other(n)] = IF Carried(n) THEN wire[Other(n)] \o r.out ELSE wire[Other(n)]
    BY <1>2, <1>7, <1>9
  <2> QED BY <1>4, <1>9, <2>1, CarriedIsConnected
<1> QED BY <1>1, <1>5, <1>7, <1>8, <1>9


\* A step that does no more than that keeps Sound.
LEMMA PerformKeepsSound ==
  ASSUME Sound, NEW n \in Nodes, NEW r, NEW in \in Seq(PacketType), Perform(n, r, in),
         Range(in) \subseteq Range(wire[n]), Allowed(n, r),
         UNCHANGED <<compat, conns, last, made, waits>>, healthy' \in BOOLEAN
  PROVE  Sound'
<1> DEFINE m == Other(n)
<1>1. m \in Nodes /\ m # n /\ Other(m) = n /\ \A k \in Nodes : k = n \/ k = m
  BY TwoNodes
<1>2. /\ up' \in {up, up \ conns[n]} /\ (r.code # "none" => up' = up \ conns[n])
      /\ wire' \in [Nodes -> Seq(PacketType)]
      /\ \A k \in Nodes : \A x \in Range(wire'[k]) : up' # {}
      /\ Range(wire'[n]) \subseteq Range(in)
      /\ \A x \in Range(wire'[m]) :
              x \in Range(wire[m]) \/ (x \in Range(r.out) /\ Connected(n))
  BY PerformMoves DEF Sound, Allowed
<1>3. /\ peer \in [Nodes -> PeerType] /\ peer' = [peer EXCEPT ![n] = r.p]
      /\ peer'[n] = r.p /\ peer'[m] = peer[m] /\ MayBecome(n, r.p)
  BY <1>1 DEF Sound, Types, Perform, Allowed
<1>4. UNCHANGED <<compat, conns, last, made>>
  OBVIOUS
<1> HIDE DEF m
\* When the connection in use is closed nothing is on the wire.
<1>5. \A k \in Nodes : \A x \in Range(wire'[k]) : up' = up
  <2>1. \E c : up \subseteq {c}
    BY DEF Sound, Types
  <2> QED BY <1>2, <2>1
<1>6. \A k \in Nodes : \A x \in Range(wire'[k]) : \A l \in Nodes : Connected(l) => Connected(l)'
  BY <1>4, <1>5 DEF Connected
<1>7. Types'
  <2>1. black' \in [Nodes -> Codes \cup {"none"}]
    BY DEF Sound, Types, Perform, DisconnectPeer, BlackListPeerId, Allowed
  <2>2. peer' \in [Nodes -> PeerType]
    BY <1>3 DEF MayBecome
  <2>3. up' \subseteq {last'.conn} \ {0}
    BY <1>2, <1>4 DEF Sound, Types
  <2> QED BY <1>2, <1>4, <2>1, <2>2, <2>3 DEF Sound, Types
<1>8. Numbered'
  BY <1>1, <1>3, <1>4 DEF Sound, Numbered, MayBecome
<1>9. Fresh'
  <2>1. ASSUME NEW x \in Range(wire'[m])
        PROVE  x.from = peer'[n].uid /\ Connected(n)' /\ ~peer'[n].dead
    <3>1. CASE x \in Range(wire[m])
      <4>1. x.from = peer[n].uid /\ Connected(n) /\ ~peer[n].dead
        BY <1>1, <3>1 DEF Sound, Fresh, m
      <4>2. Connected(n)'
        BY <1>1, <1>6, <2>1, <4>1
      <4>3. r.code = "none"
        <5>1. \E c : up \subseteq {c}
          BY DEF Sound, Types
        <5> QED BY <1>1, <1>2, <2>1, <4>1, <5>1 DEF Connected
      <4> QED BY <1>3, <4>1, <4>2, <4>3 DEF MayBecome, Allowed
    <3>2. CASE x \in Range(r.out) /\ Connected(n)
      BY <1>1, <1>3, <1>6, <2>1, <3>2 DEF Allowed, MaySend, MayBecome
    <3> QED BY <1>2, <2>1, <3>1, <3>2
  <2>2. ASSUME NEW x \in Range(wire'[n])
        PROVE  x.from = peer'[m].uid /\ Connected(m)' /\ ~peer'[m].dead
    <3>1. x \in Range(wire[n])
      BY <1>2, <2>2
    <3>2. x.from = peer[m].uid /\ Connected(m) /\ ~peer[m].dead
      BY <1>1, <3>1 DEF Sound, Fresh
    <3> QED BY <1>1, <1>3, <1>6, <2>2, <3>2
  <2> QED BY <1>1, <2>1, <2>2 DEF Fresh, m
<1>10. Screened'
  BY <1>1, <1>3, <1>4 DEF Sound, Screened, MayBecome
<1>11. Answerable'
  <2>1. ASSUME NEW x \in Range(wire'[m])
        PROVE  /\ x.op \in {"STATUS", "CIPHER", "SERVERKEY"} => Connected(m)'
               /\ x.op = "STATUS" => x.arg = x.from /\ peer'[n].server # "waiting"
               /\ x.op = "CIPHER" => x.arg = peer'[m].uid /\ peer'[m].server # "waiting"
               /\ x.op = "SERVERKEY" => /\ x.arg = x.from /\ peer'[n].server \in {"accepted", "open"}
                                        /\ peer'[n].theirClient = peer'[m].uid /\ HasPeer(m)'
    <3>1. CASE x \in Range(wire[m])
      <4>1. /\ x.op \in {"STATUS", "CIPHER", "SERVERKEY"} => Connected(m)
            /\ x.op = "STATUS" => x.arg = x.from /\ peer[n].server # "waiting"
            /\ x.op = "CIPHER" => x.arg = peer[m].uid /\ peer[m].server # "waiting"
            /\ x.op = "SERVERKEY" => /\ x.arg = x.from /\ peer[n].server \in {"accepted", "open"}
                                     /\ peer[n].theirClient = peer[m].uid /\ HasPeer(m)
        BY <1>1, <3>1 DEF Sound, Answerable
      <4>2. Connected(m) => Connected(m)'
        BY <1>1, <1>6, <2>1
      <4> QED BY <1>1, <1>3, <4>1, <4>2 DEF MayBecome, HasPeer, m
    <3>2. CASE x \in Range(r.out)
      <4>1. MaySend(n, r.p, x)
        BY <3>2 DEF Allowed
      <4>2. Connected(m) => Connected(m)'
        BY <1>1, <1>6, <2>1
      <4> QED BY <1>3, <4>1, <4>2 DEF MaySend, HasPeer, m
    <3> QED BY <1>2, <2>1, <3>1, <3>2
  <2>2. ASSUME NEW x \in Range(wire'[n])
        PROVE  /\ x.op \in {"STATUS", "CIPHER", "SERVERKEY"} => Connected(n)'
               /\ x.op = "STATUS" => x.arg = x.from /\ peer'[m].server # "waiting"
               /\ x.op = "CIPHER" => x.arg = peer'[n].uid /\ peer'[n].server # "waiting"
               /\ x.op = "SERVERKEY" => /\ x.arg = x.from /\ peer'[m].server \in {"accepted", "open"}
                                        /\ peer'[m].theirClient = peer'[n].uid /\ HasPeer(n)'
    <3>1. x \in Range(wire[n])
      BY <1>2, <2>2
    <3>2. /\ x.op \in {"STATUS", "CIPHER", "SERVERKEY"} => Connected(n)
          /\ x.op = "STATUS" => x.arg = x.from /\ peer[m].server # "waiting"
          /\ x.op = "CIPHER" => x.arg = peer[n].uid /\ peer[n].server # "waiting"
          /\ x.op = "SERVERKEY" => /\ x.arg = x.from /\ peer[m].server \in {"accepted", "open"}
                                   /\ peer[m].theirClient = peer[n].uid /\ HasPeer(n)
      BY <1>1, <3>1 DEF Sound, Answerable, m
    <3>3. Connected(n) => Connected(n)'
      BY <1>1, <1>6, <2>2
    <3> QED BY <1>3, <3>2, <3>3 DEF MayBecome, HasPeer
  <2> QED BY <1>1, <2>1, <2>2 DEF Answerable, m
<1>12. NoBadAnswer'
  <2>1. r.code \notin {"BAD_CHALLENGE", "BAD_AUTH_CIPHER"}
    BY DEF Allowed
  <2> QED BY <2>1 DEF Sound, Types, NoBadAnswer, Perform, DisconnectPeer, BlackListPeerId
<1>13. KeysAgree'
  <2>1. peer'[n].client = "open" /\ peer'[m].uid = peer'[n].theirServer =>
           peer'[m].server \in {"accepted", "open"} /\ peer'[m].theirClient = peer'[n].uid
    BY <1>3 DEF MayBecome, m
  <2>2. peer[m].client = "open" /\ peer[n].uid = peer[m].theirServer =>
           peer[n].server \in {"accepted", "open"} /\ peer[n].theirClient = peer[m].uid
    BY <1>1 DEF Sound, KeysAgree
  <2>3. peer'[m].client = "open" /\ peer'[n].uid = peer'[m].theirServer =>
           peer'[n].server \in {"accepted", "open"} /\ peer'[n].theirClient = peer'[m].uid
    BY <1>3, <2>2 DEF MayBecome, m
  <2> QED BY <1>1, <2>1, <2>3 DEF KeysAgree, m
<1> QED BY <1>7, <1>8, <1>9, <1>10, <1>11, <1>12, <1>13 DEF Sound

-----------------------------------------------------------------------------
(* What the handlers of OPNetPeer do keeps to it                             *)

\* The packets are packets.
LEMMA Packets ==
  ASSUME NEW p \in PeerType, NEW op \in Handshake \cup Session
  PROVE  /\ ToServer(p, op) \in PacketType /\ ToServer(p, op).op = op
         /\ ToServer(p, op).from = p.uid
         /\ ToClient(p, op) \in PacketType /\ ToClient(p, op).op = op
         /\ ToClient(p, op).from = p.uid
  BY DEF ToServer, ToClient, PeerType, PacketType

\* A packet that is no step of a handshake with an argument may always be sent.
LEMMA Plain ==
  ASSUME NEW n \in Nodes, NEW p, ~p.dead, NEW x, x.from = peer[n].uid,
         x.op \notin {"STATUS", "CIPHER", "SERVERKEY"}
  PROVE  MaySend(n, p, x)
  BY DEF MaySend

\* onAuth sends nothing else.
LEMMA OnAuthAllowed ==
  ASSUME NEW n \in Nodes, NEW p \in PeerType, ~p.dead, p.uid = peer[n].uid
  PROVE  OnAuth(p) \in Seq(PacketType) /\ \A x \in Range(OnAuth(p)) : MaySend(n, p, x)
<1>1. /\ ToServer(p, "DISCOVER") \in PacketType /\ ToServer(p, "DISCOVER").op = "DISCOVER"
      /\ ToServer(p, "DISCOVER").from = p.uid
  <2>1. "DISCOVER" \in Handshake \cup Session
    BY DEF Session
  <2> QED BY <2>1, Packets
<1>2. MaySend(n, p, ToServer(p, "DISCOVER"))
  BY <1>1, Plain
<1> QED BY <1>1, <1>2, OneMember DEF OnAuth

\* A node may stay as it is.
LEMMA Stays ==
  ASSUME Sound, NEW n \in Nodes
  PROVE  MayBecome(n, peer[n]) /\ peer[n] \in PeerType /\ peer[Other(n)] \in PeerType
<1>1. peer[n] \in PeerType /\ peer[Other(n)] \in PeerType
  BY TwoNodes DEF Sound, Types
<1> QED BY <1>1 DEF Sound, Numbered, Screened, KeysAgree, MayBecome

\* What follows a send, done on top of what may be done.
LEMMA SentAllowed ==
  ASSUME Sound, NEW n \in Nodes, NEW p, MayBecome(n, p), ~p.dead, NEW what \in p.sending
  PROVE  LET s == Sent(p, what) IN
         /\ MayBecome(n, s.p) /\ ~s.p.dead
         /\ s.out \in Seq(PacketType) /\ \A x \in Range(s.out) : MaySend(n, s.p, x)
         /\ \A x : MaySend(n, p, x) => MaySend(n, s.p, x)
         /\ s.code = "none"
<1>1. p \in PeerType /\ what \in {"status", "keys"}
  BY DEF MayBecome, PeerType
<1>2. p.uid # 0
  BY DEF MayBecome, NoPeer, NewPeer
<1>3. CASE what = "status"
  <2> DEFINE q == [p EXCEPT !.sending = p.sending \ {what}, !.timer = FALSE]
  <2>1. Sent(p, what).p = q /\ Sent(p, what).out = << >> /\ Sent(p, what).code = "none"
    BY <1>1, <1>3 DEF Sent, Quiet, Result, PeerType
  <2>2. /\ q \in PeerType /\ q.uid = p.uid /\ q.theirServer = p.theirServer /\ q.server = p.server
        /\ q.hung = p.hung /\ q.dead = p.dead /\ q.theirClient = p.theirClient
        /\ q.client = p.client /\ q.sending \subseteq p.sending
    BY <1>1 DEF PeerType
  <2> HIDE DEF q
  <2>3. MayBecome(n, q)
    BY <1>2, <2>2 DEF MayBecome
  <2>4. << >> \in Seq(PacketType) /\ \A x : x \notin Range(<< >>)
    BY DEF Range
  <2>5. \A x : MaySend(n, p, x) => MaySend(n, q, x)
    BY <2>2 DEF MaySend
  <2> QED BY <2>1, <2>2, <2>3, <2>4, <2>5
<1>4. CASE what = "keys"
  <2> DEFINE q == [p EXCEPT !.sending = p.sending \ {what}, !.server = "open"]
  <2>1. Sent(p, what).p = q /\ Sent(p, what).out = OnAuth(q) /\ Sent(p, what).code = "none"
    BY <1>1, <1>4 DEF Sent, Result, PeerType
  <2>2. /\ q \in PeerType /\ q.uid = p.uid /\ q.theirServer = p.theirServer /\ q.server = "open"
        /\ q.hung = p.hung /\ q.dead = p.dead /\ q.theirClient = p.theirClient
        /\ q.client = p.client /\ q.sending \subseteq p.sending
    BY <1>1 DEF PeerType
  <2>3. p.server \in {"accepted", "open"}
    BY <1>4 DEF MayBecome
  <2> HIDE DEF q
  <2>4. MayBecome(n, q)
    BY <1>2, <2>2, <2>3 DEF MayBecome
  <2>5. OnAuth(q) \in Seq(PacketType) /\ \A x \in Range(OnAuth(q)) : MaySend(n, q, x)
    <3>1. q.uid = peer[n].uid
      BY <2>2 DEF MayBecome
    <3> QED BY <2>2, <3>1, OnAuthAllowed
  <2>6. \A x : MaySend(n, p, x) => MaySend(n, q, x)
    BY <2>2 DEF MaySend
  <2> QED BY <2>1, <2>2, <2>4, <2>5, <2>6
<1> QED BY <1>1, <1>3, <1>4


\* The outcomes of a message, by its opcode.
LEMMA Outcomes ==
  ASSUME NEW p, NEW m, NEW r \in OnMessage(p, m)
  PROVE  \/ p.dead /\ r = Quiet(p)
         \/ ~p.dead /\ r = BadPacket(p) /\ (~Decrypt(p, m) \/ m.op \notin Opcodes(p, m))
         \/ /\ ~p.dead /\ Decrypt(p, m) /\ m.op \in Opcodes(p, m)
            /\ \/ m.op = "AUTH" /\ r = OnAuthenticationMessage(p)
               \/ m.op = "CIPHER" /\ r = OnClientCipherExchangeMessage(p, m)
               \/ m.op = "STATUS" /\ r = HandleAuthenticationStatusPacket(p, m)
               \/ m.op = "SERVERKEY" /\ r = HandleServerCipherExchangePacket(p, m)
               \/ m.op = "PING" /\ r = OnPingMessage(p)
               \/ m.op = "DISCOVER" /\ r = OnDiscover(p)
               \/ m.op = "SYNC" /\ r \in OnSyncBlockHeadersRequest(p)
               \/ m.op \in {"PONG", "PEERS", "WITNESS", "SYNCREPLY", "TX"} /\ r = Quiet(p)
<1>1. CASE p.dead
  BY <1>1 DEF OnMessage
<1>2. CASE ~p.dead /\ (~Decrypt(p, m) \/ m.op \notin Opcodes(p, m))
  BY <1>2 DEF OnMessage
<1>3. CASE ~p.dead /\ Decrypt(p, m) /\ m.op \in Opcodes(p, m)
  <2>1. m.op \in Handshake \cup Session
    BY <1>3 DEF Opcodes
  <2>2. r \in CASE m.op = "AUTH" -> {OnAuthenticationMessage(p)}
           [] m.op = "CIPHER" -> {OnClientCipherExchangeMessage(p, m)}
           [] m.op = "STATUS" -> {HandleAuthenticationStatusPacket(p, m)}
           [] m.op = "SERVERKEY" -> {HandleServerCipherExchangePacket(p, m)}
           [] m.op = "PING" -> {OnPingMessage(p)}
           [] m.op = "DISCOVER" -> {OnDiscover(p)}
           [] m.op = "SYNC" -> OnSyncBlockHeadersRequest(p)
           [] OTHER -> {Quiet(p)}
    BY <1>3 DEF OnMessage
  <2> QED BY <1>3, <2>1, <2>2 DEF Handshake, Session
<1> QED BY <1>1, <1>2, <1>3

\* A peer that hangs up, dead or not, does nothing else.
LEMMA HangingUpAllowed ==
  ASSUME Sound, NEW n \in Nodes, HasPeer(n), ~peer[n].dead,
         NEW code \in Codes \ {"BAD_CHALLENGE", "BAD_AUTH_CIPHER"}
  PROVE  Allowed(n, Disconnect(peer[n], code)) /\ Allowed(n, BadPacket(peer[n]))
<1> DEFINE p == [peer[n] EXCEPT !.hung = TRUE]
           d == [peer[n] EXCEPT !.hung = TRUE, !.dead = TRUE]
<1>1. MayBecome(n, peer[n]) /\ peer[n] \in PeerType
  BY Stays
<1>2. /\ Disconnect(peer[n], code).p = p /\ Disconnect(peer[n], code).code = code
      /\ Disconnect(peer[n], code).out = << >>
  BY DEF Disconnect, Result
<1>3. /\ BadPacket(peer[n]).p = d /\ BadPacket(peer[n]).code = "BAD_PACKET"
      /\ BadPacket(peer[n]).out = << >>
  BY <1>1 DEF BadPacket, Disconnect, Result, PeerType
<1>4. MayBecome(n, p) /\ ~p.dead
  BY <1>1 DEF MayBecome, PeerType, HasPeer
<1>5. MayBecome(n, d) /\ d.sending = peer[n].sending
  BY <1>1 DEF MayBecome, PeerType, HasPeer
<1>6. "BAD_PACKET" \in Codes \ {"BAD_CHALLENGE", "BAD_AUTH_CIPHER"} /\ "none" \notin Codes
  BY DEF Codes
<1>7. << >> \in Seq(PacketType) /\ \A x : x \notin Range(<< >>)
  BY DEF Range
<1> HIDE DEF p, d
<1> QED BY <1>2, <1>3, <1>4, <1>5, <1>6, <1>7 DEF Allowed

\* A node that only answers with a plain packet does not change.
LEMMA PlainAllowed ==
  ASSUME Sound, NEW n \in Nodes
  PROVE  /\ Allowed(n, Quiet(peer[n]))
         /\ ~peer[n].dead => \A op \in (Handshake \cup Session) \ {"STATUS", "CIPHER", "SERVERKEY"} :
              /\ Allowed(n, Result(peer[n], "none", <<ToServer(peer[n], op)>>))
              /\ Allowed(n, Result(peer[n], "none", <<ToClient(peer[n], op)>>))
<1>1. MayBecome(n, peer[n]) /\ peer[n] \in PeerType
  BY Stays
<1>2. << >> \in Seq(PacketType) /\ \A x : x \notin Range(<< >>)
  BY DEF Range
<1>3. "none" \in (Codes \cup {"none"}) \ {"BAD_CHALLENGE", "BAD_AUTH_CIPHER"}
  OBVIOUS
<1>4. Allowed(n, Quiet(peer[n]))
  BY <1>1, <1>2, <1>3 DEF Allowed, Quiet, Result
<1>5. ASSUME ~peer[n].dead, NEW op \in (Handshake \cup Session) \ {"STATUS", "CIPHER", "SERVERKEY"},
             NEW x \in {ToServer(peer[n], op), ToClient(peer[n], op)}
      PROVE  Allowed(n, Result(peer[n], "none", <<x>>))
  <2>1. x \in PacketType /\ x.op = op /\ x.from = peer[n].uid
    BY <1>1, <1>5, Packets
  <2>2. MaySend(n, peer[n], x)
    BY <1>5, <2>1, Plain
  <2>3. <<x>> \in Seq(PacketType) /\ Range(<<x>>) = {x}
    BY <2>1, OneMember
  <2> QED BY <1>1, <1>3, <1>5, <2>2, <2>3 DEF Allowed, Result
<1> QED BY <1>4, <1>5

\* The handler of a message on the wire does what is allowed: the answer to a
\* challenge is the right one, and the keys are those of the other node's object.
LEMMA MessageAllowed ==
  ASSUME Sound, NEW n \in Nodes, HasPeer(n), NEW x \in Range(wire[n]),
         NEW r \in OnMessage(peer[n], x)
  PROVE  Allowed(n, r)
<1> DEFINE p == peer[n]
           q == peer[Other(n)]
<1>1. MayBecome(n, p) /\ p \in PeerType /\ q \in PeerType /\ p.uid # 0
  BY Stays DEF HasPeer
<1>2. x \in PacketType
  BY Members DEF Sound, Types
<1>3. x.from = q.uid /\ Connected(Other(n)) /\ HasPeer(Other(n))
  <2>1. Other(n) \in Nodes /\ Other(Other(n)) = n
    BY TwoNodes
  <2>2. x.from = q.uid /\ Connected(Other(n)) /\ ~q.dead
    BY <2>1 DEF Sound, Fresh
  <2>3. q.uid # 0
    BY <2>1, <2>2 DEF Sound, Numbered, NoPeer, NewPeer
  <2> QED BY <2>2, <2>3 DEF HasPeer
<1>4. "none" \in (Codes \cup {"none"}) \ {"BAD_CHALLENGE", "BAD_AUTH_CIPHER"} /\ "none" \notin Codes
  BY DEF Codes
<1>5. CASE p.dead /\ r = Quiet(p)
  BY <1>5, PlainAllowed
<1>6. CASE ~p.dead /\ r = BadPacket(p)
  <2>1. "BAD_PACKET" \in Codes \ {"BAD_CHALLENGE", "BAD_AUTH_CIPHER"}
    BY DEF Codes
  <2> QED BY <1>6, <2>1, HangingUpAllowed
<1>7. CASE ~p.dead /\ x.op = "AUTH" /\ r = OnAuthenticationMessage(p)
  <2>1. {"BAD_VERSION", "BAD_PROTOCOL_CHECKSUM", "BAD_NETWORK"} \subseteq Codes \ {"BAD_CHALLENGE", "BAD_AUTH_CIPHER"}
    BY DEF Codes
  <2>2. CASE r = Disconnect(p, "BAD_VERSION") \/ r = Disconnect(p, "BAD_PROTOCOL_CHECKSUM")
    BY <1>7, <2>1, <2>2, HangingUpAllowed
  <2>3. CASE p.server = "waiting" /\ compat \in {"same", "network"}
             /\ r = VerifyNetwork(p, CreateFullAuthentication(p))
    <3> DEFINE o == [p EXCEPT !.server = "challenged", !.sending = p.sending \cup {"status"}]
               h == [p EXCEPT !.server = "challenged", !.sending = p.sending \cup {"status"},
                              !.hung = TRUE]
               y == [ToClient(p, "STATUS") EXCEPT !.arg = p.uid]
    <3>1. CreateFullAuthentication(p) = Result(o, "none", <<y>>)
      BY <1>1 DEF CreateFullAuthentication, PeerType
    <3>2. y \in PacketType /\ y.op = "STATUS" /\ y.from = p.uid /\ y.arg = p.uid
      <4>1. "STATUS" \in Handshake \cup Session /\ p.uid \in Nat
        BY <1>1 DEF Handshake, PeerType
      <4> QED BY <1>1, <4>1 DEF ToClient, PeerType, PacketType
    <3>3. /\ o \in PeerType /\ o.server = "challenged" /\ ~o.dead /\ o.uid = p.uid
          /\ o.theirServer = p.theirServer /\ o.theirClient = p.theirClient
          /\ o.client = p.client /\ o.sending = p.sending \cup {"status"}
          /\ h \in PeerType /\ h.server = "challenged" /\ ~h.dead /\ h.uid = p.uid
          /\ h.theirServer = p.theirServer /\ h.theirClient = p.theirClient
          /\ h.client = p.client /\ h.sending = p.sending \cup {"status"} /\ h.hung
      BY <1>1, <1>7 DEF PeerType
    <3> HIDE DEF o, y, h
    <3>4. /\ compat = "same" => r.p = o /\ r.code = "none" /\ r.out = <<y>>
          /\ compat = "network" => r.p = h /\ r.code = "BAD_NETWORK" /\ r.out = <<y>>
      BY <1>1, <2>3, <3>1 DEF VerifyNetwork, Result, o, h, PeerType
    <3>5. ("keys" \notin p.sending) /\ (compat = "same" => MayBecome(n, o))
          /\ (compat = "network" => MayBecome(n, h))
      BY <1>1, <2>3, <3>3 DEF MayBecome
    <3>6. MaySend(n, o, y) /\ MaySend(n, h, y)
      BY <1>3, <3>2, <3>3 DEF MaySend
    <3>7. <<y>> \in Seq(PacketType) /\ Range(<<y>>) = {y}
      BY <3>2, OneMember
    <3> QED BY <1>4, <2>1, <2>3, <3>3, <3>4, <3>5, <3>6, <3>7 DEF Allowed
  <2> QED BY <1>7, <2>2, <2>3, PeersAssumption DEF OnAuthenticationMessage, MayAcceptVersion,
             BadProtocolChecksum, Sound, Types
<1>8. CASE ~p.dead /\ x.op = "CIPHER" /\ r = OnClientCipherExchangeMessage(p, x)
  <2> DEFINE o == [p EXCEPT !.server = "accepted", !.theirClient = x.from,
                            !.sending = p.sending \cup {"keys"}]
             y == [ToClient(p, "SERVERKEY") EXCEPT !.arg = p.uid]
  <2>1. x.arg = p.uid /\ p.server # "waiting"
    BY <1>8 DEF Sound, Answerable
  <2>2. r = Result(o, "none", <<y>>)
    BY <1>1, <1>8, <2>1 DEF OnClientCipherExchangeMessage, VerifySignaturePublicKey,
       VerifyChallenge, SendServerHandshake, PeerType
  <2>3. y \in PacketType /\ y.op = "SERVERKEY" /\ y.from = p.uid /\ y.arg = p.uid
    <3>1. "SERVERKEY" \in Handshake \cup Session /\ p.uid \in Nat
      BY <1>1 DEF Handshake, PeerType
    <3> QED BY <1>1, <3>1 DEF ToClient, PeerType, PacketType
  <2>4. /\ o \in PeerType /\ o.server = "accepted" /\ ~o.dead /\ o.uid = p.uid
        /\ o.theirServer = p.theirServer /\ o.theirClient = q.uid
        /\ o.client = p.client /\ o.sending = p.sending \cup {"keys"} /\ o.hung = p.hung
    BY <1>1, <1>2, <1>3, <1>8 DEF PeerType, PacketType
  <2> HIDE DEF o, y
  <2>5. MayBecome(n, o)
    BY <1>1, <2>1, <2>4 DEF MayBecome
  <2>6. MaySend(n, o, y)
    BY <1>3, <2>3, <2>4 DEF MaySend
  <2>7. <<y>> \in Seq(PacketType) /\ Range(<<y>>) = {y}
    BY <2>3, OneMember
  <2> QED BY <1>4, <2>2, <2>4, <2>5, <2>6, <2>7 DEF Allowed, Result
<1>9. CASE ~p.dead /\ x.op = "STATUS" /\ r = HandleAuthenticationStatusPacket(p, x)
  <2> DEFINE o == [p EXCEPT !.client = "answered"]
             y == [ToServer(p, "CIPHER") EXCEPT !.arg = x.arg]
  <2>1. x.arg = x.from /\ q.server # "waiting"
    BY <1>9 DEF Sound, Answerable
  <2>2. r = Result(o, "none", <<y>>)
    BY <1>9 DEF HandleAuthenticationStatusPacket
  <2>3. y \in PacketType /\ y.op = "CIPHER" /\ y.from = p.uid /\ y.arg = x.arg
    <3>1. "CIPHER" \in Handshake \cup Session /\ x.arg \in Nat
      BY <1>2 DEF Handshake, PacketType
    <3> QED BY <1>1, <3>1 DEF ToServer, PeerType, PacketType
  <2>4. /\ o \in PeerType /\ o.server = p.server /\ ~o.dead /\ o.uid = p.uid
        /\ o.theirServer = p.theirServer /\ o.theirClient = p.theirClient
        /\ o.client = "answered" /\ o.sending = p.sending /\ o.hung = p.hung
    BY <1>1, <1>9 DEF PeerType
  <2> HIDE DEF o, y
  <2>5. MayBecome(n, o)
    BY <1>1, <2>4 DEF MayBecome
  <2>6. MaySend(n, o, y)
    BY <1>3, <2>1, <2>3, <2>4 DEF MaySend
  <2>7. <<y>> \in Seq(PacketType) /\ Range(<<y>>) = {y}
    BY <2>3, OneMember
  <2> QED BY <1>4, <2>2, <2>4, <2>5, <2>6, <2>7 DEF Allowed, Result
<1>10. CASE ~p.dead /\ x.op = "SERVERKEY" /\ r = HandleServerCipherExchangePacket(p, x)
  <2> DEFINE o == [p EXCEPT !.client = "open", !.theirServer = x.arg]
             y == ToServer(o, "PING")
  <2>1. x.arg = q.uid /\ q.server \in {"accepted", "open"} /\ q.theirClient = p.uid
    BY <1>3, <1>10 DEF Sound, Answerable
  <2>2. r = Result(o, "none", <<y>> \o OnAuth(o))
    BY <1>10 DEF HandleServerCipherExchangePacket
  <2>3. /\ o \in PeerType /\ o.server = p.server /\ ~o.dead /\ o.uid = p.uid
        /\ o.theirServer = q.uid /\ o.theirClient = p.theirClient
        /\ o.client = "open" /\ o.sending = p.sending /\ o.hung = p.hung
    BY <1>1, <1>10, <2>1 DEF PeerType
  <2> HIDE DEF o
  <2>4. y \in PacketType /\ y.op = "PING" /\ y.from = p.uid
    <3>1. "PING" \in Handshake \cup Session
      BY DEF Handshake
    <3> QED BY <2>3, <3>1, Packets
  <2> HIDE DEF y
  <2>5. q.uid <= made[Other(n)]
    <3>1. Other(n) \in Nodes
      BY TwoNodes
    <3>2. made[Other(n)] \in Nat /\ q.uid \in {0, made[Other(n)]}
      BY <3>1 DEF Sound, Numbered, Types
    <3> QED BY <3>2
  <2>6. MayBecome(n, o)
    BY <1>1, <1>3, <2>1, <2>3, <2>5 DEF MayBecome, HasPeer
  <2>7. MaySend(n, o, y)
    BY <2>3, <2>4, Plain
  <2>8. <<y>> \in Seq(PacketType) /\ Range(<<y>>) = {y}
    BY <2>4, OneMember
  <2>9. OnAuth(o) \in Seq(PacketType) /\ \A z \in Range(OnAuth(o)) : MaySend(n, o, z)
    BY <2>3, OnAuthAllowed
  <2>10. <<y>> \o OnAuth(o) \in Seq(PacketType)
         /\ Range(<<y>> \o OnAuth(o)) \subseteq Range(<<y>>) \cup Range(OnAuth(o))
    BY <2>8, <2>9, Members
  <2> QED BY <1>4, <2>2, <2>3, <2>6, <2>7, <2>8, <2>9, <2>10 DEF Allowed, Result
<1>11. CASE ~p.dead /\ (r = Quiet(p) \/ r = OnPingMessage(p) \/ r = OnDiscover(p)
                        \/ r \in OnSyncBlockHeadersRequest(p))
  <2>1. {"PONG", "PEERS", "SYNCREPLY"} \subseteq (Handshake \cup Session) \ {"STATUS", "CIPHER", "SERVERKEY"}
    BY DEF Handshake, Session
  <2> QED BY <1>11, <2>1, PlainAllowed DEF OnPingMessage, OnDiscover, OnSyncBlockHeadersRequest
<1> QED BY <1>5, <1>6, <1>7, <1>8, <1>9, <1>10, <1>11, Outcomes


-----------------------------------------------------------------------------
(* The steps of OPNetPeer keep Sound                                         *)

\* A peer that is not dead is in the table.
LEMMA AliveIsThere ==
  ASSUME Sound, NEW n \in Nodes, ~peer[n].dead
  PROVE  HasPeer(n) /\ MayBecome(n, peer[n]) /\ peer[n] \in PeerType
         /\ wire[n] \in Seq(PacketType)
<1>1. HasPeer(n)
  BY DEF Sound, Numbered, NoPeer, NewPeer, HasPeer
<1> QED BY <1>1, Stays DEF Sound, Types

LEMMA LoginKeepsSound ==
  ASSUME Sound, NEW n \in Nodes, Login(n)
  PROVE  Sound'
<1> DEFINE o == [peer[n] EXCEPT !.client = "sent"]
           x == ToServer(peer[n], "AUTH")
           r == Result(o, "none", <<x>>)
<1>1. /\ HasPeer(n) /\ MayBecome(n, peer[n]) /\ peer[n] \in PeerType /\ ~peer[n].dead
      /\ wire[n] \in Seq(PacketType)
  BY AliveIsThere DEF Login
<1>2. Perform(n, r, wire[n]) /\ UNCHANGED <<compat, conns, last, made, waits>> /\ healthy' \in BOOLEAN
  BY DEF Login, Sound, Types
<1>3. x \in PacketType /\ x.op = "AUTH" /\ x.from = peer[n].uid
  <2>1. "AUTH" \in Handshake \cup Session
    BY DEF Handshake
  <2> QED BY <1>1, <2>1, Packets
<1>4. MayBecome(n, o) /\ ~o.dead
  BY <1>1 DEF MayBecome, PeerType, HasPeer
<1>5. r.p = o /\ r.code = "none" /\ r.out = <<x>>
  BY DEF Result
<1> HIDE DEF x, o, r
<1>6. MaySend(n, o, x)
  BY <1>3, <1>4, Plain
<1>7. <<x>> \in Seq(PacketType) /\ Range(<<x>>) = {x}
  BY <1>3, OneMember
<1>8. Allowed(n, r)
  BY <1>4, <1>5, <1>6, <1>7 DEF Allowed
<1> QED BY <1>1, <1>2, <1>8, PerformKeepsSound

LEMMA DrainedKeepsSound ==
  ASSUME Sound, NEW n \in Nodes, Drained(n)
  PROVE  Sound'
<1>1. PICK what \in peer[n].sending :
        /\ ~peer[n].dead
        /\ Perform(n, Sent(peer[n], what), wire[n])
        /\ UNCHANGED <<compat, conns, last, made, known, failures, waits, troubles, healthy>>
  BY DEF Drained
<1>2. MayBecome(n, peer[n]) /\ wire[n] \in Seq(PacketType)
  BY <1>1, AliveIsThere
<1> DEFINE s == Sent(peer[n], what)
<1>3. /\ MayBecome(n, s.p) /\ ~s.p.dead /\ s.code = "none"
      /\ s.out \in Seq(PacketType) /\ \A x \in Range(s.out) : MaySend(n, s.p, x)
  BY <1>1, <1>2, SentAllowed
<1> HIDE DEF s
<1>4. Allowed(n, s)
  BY <1>3 DEF Allowed
<1>5. Perform(n, s, wire[n]) /\ UNCHANGED <<compat, conns, last, made, waits>> /\ healthy' \in BOOLEAN
  BY <1>1 DEF s, Sound, Types
<1> QED BY <1>2, <1>4, <1>5, PerformKeepsSound

LEMMA TimeoutAuthKeepsSound ==
  ASSUME Sound, NEW n \in Nodes, TimeoutAuth(n)
  PROVE  Sound'
<1> DEFINE o == [peer[n] EXCEPT !.timer = FALSE]
           h == [peer[n] EXCEPT !.timer = FALSE, !.hung = TRUE]
           r == Disconnect(o, "AUTH_TIMED_OUT")
<1>1. /\ HasPeer(n) /\ MayBecome(n, peer[n]) /\ peer[n] \in PeerType /\ ~peer[n].dead
      /\ wire[n] \in Seq(PacketType)
  BY AliveIsThere DEF TimeoutAuth
<1>2. Perform(n, r, wire[n]) /\ UNCHANGED <<compat, conns, last, made, waits>> /\ healthy' \in BOOLEAN
  BY DEF TimeoutAuth, Sound, Types
<1>3. r.p = h /\ r.code = "AUTH_TIMED_OUT" /\ r.out = << >>
  BY <1>1 DEF Disconnect, Result, PeerType
<1>4. MayBecome(n, h) /\ ~h.dead
  BY <1>1 DEF MayBecome, PeerType, HasPeer
<1>5. << >> \in Seq(PacketType) /\ \A x : x \notin Range(<< >>)
  BY DEF Range
<1>6. "AUTH_TIMED_OUT" \in Codes \ {"none", "BAD_CHALLENGE", "BAD_AUTH_CIPHER"}
  BY DEF Codes
<1> HIDE DEF h, o, r
<1>7. Allowed(n, r)
  BY <1>3, <1>4, <1>5, <1>6 DEF Allowed
<1> QED BY <1>1, <1>2, <1>7, PerformKeepsSound

LEMMA TalkKeepsSound ==
  ASSUME Sound, NEW n \in Nodes, Talk(n)
  PROVE  Sound'
<1>1. ~peer[n].dead
  <2>1. peer[n] # NoPeer /\ ~peer[n].hung
    BY DEF Talk, HasPeer, Authenticated, NoPeer, NewPeer
  <2> QED BY <2>1 DEF Sound, Screened
<1>2. wire[n] \in Seq(PacketType)
  BY DEF Sound, Types
<1>3. PICK x \in {ToServer(peer[n], op) : op \in {"DISCOVER", "TX"}} \cup {ToClient(peer[n], "SYNC")} :
           Perform(n, Result(peer[n], "none", <<x>>), wire[n])
  BY DEF Talk
<1>4. {"DISCOVER", "TX", "SYNC"} \subseteq (Handshake \cup Session) \ {"STATUS", "CIPHER", "SERVERKEY"}
  BY DEF Handshake, Session
<1>5. Allowed(n, Result(peer[n], "none", <<x>>))
  BY <1>1, <1>3, <1>4, PlainAllowed
<1>6. UNCHANGED <<compat, conns, last, made, waits>> /\ healthy' \in BOOLEAN
  BY DEF Talk, Sound, Types
<1> QED BY <1>2, <1>3, <1>5, <1>6, PerformKeepsSound

\* What a message leads to, with what follows a send when that is over at once.
LEMMA ReceiveAllowed ==
  ASSUME Sound, NEW n \in Nodes, Receive(n)
  PROVE  /\ \E r : Allowed(n, r) /\ Perform(n, r, Tail(wire[n]))
         /\ Tail(wire[n]) \in Seq(PacketType) /\ Range(Tail(wire[n])) \subseteq Range(wire[n])
         /\ UNCHANGED <<compat, conns, last, made, waits>> /\ healthy' \in BOOLEAN
<1>1. wire[n] \in Seq(PacketType) /\ wire[n] # << >> /\ HasPeer(n)
  BY DEF Receive, Sound, Types
<1>2. /\ Tail(wire[n]) \in Seq(PacketType) /\ Range(Tail(wire[n])) \subseteq Range(wire[n])
      /\ Head(wire[n]) \in Range(wire[n])
  BY <1>1, Members
<1>3. UNCHANGED <<compat, conns, last, made, waits>> /\ healthy' \in BOOLEAN
  BY DEF Receive, Sound, Types
<1>4. PICK r \in OnMessage(peer[n], Head(wire[n])) :
        LET new == r.p.sending \ peer[n].sending IN
        \/ Perform(n, r, Tail(wire[n]))
        \/ /\ new # {}
           /\ LET s == Sent(r.p, CHOOSE w \in new : TRUE)
              IN Perform(n, Result(s.p, r.code, r.out \o s.out), Tail(wire[n]))
  BY DEF Receive
<1>5. Allowed(n, r)
  BY <1>1, <1>2, MessageAllowed
<1> DEFINE new == r.p.sending \ peer[n].sending
           s == Sent(r.p, CHOOSE w \in new : TRUE)
           t == Result(s.p, r.code, r.out \o s.out)
<1>6. CASE new # {} /\ Perform(n, t, Tail(wire[n]))
  <2>1. (CHOOSE w \in new : TRUE) \in r.p.sending \ peer[n].sending
    BY <1>6
  <2>2. ~r.p.dead /\ MayBecome(n, r.p)
    BY <1>5, <2>1 DEF Allowed
  <2>3. /\ MayBecome(n, s.p) /\ ~s.p.dead
        /\ s.out \in Seq(PacketType) /\ \A x \in Range(s.out) : MaySend(n, s.p, x)
        /\ \A x : MaySend(n, r.p, x) => MaySend(n, s.p, x)
    BY <2>1, <2>2, SentAllowed
  <2> HIDE DEF s
  <2>4. r.out \in Seq(PacketType) /\ \A x \in Range(r.out) : MaySend(n, r.p, x)
    BY <1>5 DEF Allowed
  <2>5. r.out \o s.out \in Seq(PacketType) /\ Range(r.out \o s.out) \subseteq Range(r.out) \cup Range(s.out)
    BY <2>3, <2>4, Members
  <2>6. t.p = s.p /\ t.code = r.code /\ t.out = r.out \o s.out
    BY DEF Result
  <2> HIDE DEF t
  <2>7. Allowed(n, t)
    BY <1>5, <2>3, <2>4, <2>5, <2>6 DEF Allowed
  <2> QED BY <1>2, <1>3, <1>6, <2>7
<1> QED BY <1>2, <1>3, <1>4, <1>5, <1>6

LEMMA ReceiveKeepsSound ==
  ASSUME Sound, NEW n \in Nodes, Receive(n)
  PROVE  Sound'
  BY ReceiveAllowed, PerformKeepsSound


-----------------------------------------------------------------------------
(* The steps of the network and of P2PManager keep Sound                     *)

\* The variables that only such a step changes have their types.
LinkTypes ==
    /\ compat \in Compats
    /\ last \in [conn : Nat, by : Nodes]
    /\ up \subseteq {last.conn} \ {0}
    /\ conns \in [Nodes -> SUBSET (1 .. last.conn)]
    /\ black \in [Nodes -> Codes \cup {"none"}]
    /\ waits \in [Nodes -> [identify : Nat, store : Nat, hangUp : Nat]]
    /\ wire \in [Nodes -> Seq(PacketType)]
    /\ healthy \in BOOLEAN

\* A step that adds no message, closes nothing a message is on its way on, and
\* at most makes a peer for a node that has none, keeps Sound.
LEMMA LinkKeepsSound ==
  ASSUME Sound, NEW n \in Nodes, CreatePeer(n) \/ UNCHANGED <<peer, made>>, UNCHANGED compat,
         LinkTypes', NoBadAnswer', \A k \in Nodes : Range(wire'[k]) \subseteq Range(wire[k]),
         \A k, l \in Nodes : \A x \in Range(wire'[k]) : Connected(l) => Connected(l)'
  PROVE  Sound'
<1> DEFINE m == Other(n)
<1>1. m \in Nodes /\ m # n /\ Other(m) = n /\ Other(n) = m /\ \A k \in Nodes : k = n \/ k = m
  BY TwoNodes
<1> HIDE DEF m
<1>2. peer \in [Nodes -> PeerType] /\ made \in [Nodes -> Nat]
  BY DEF Sound, Types
<1>3. CASE UNCHANGED <<peer, made>>
  <2>1. Types'
    BY <1>2, <1>3 DEF Types, LinkTypes
  <2>2. Numbered' /\ Screened' /\ KeysAgree'
    BY <1>3 DEF Sound, Numbered, Screened, KeysAgree
  <2>3. Fresh'
    <3>1. ASSUME NEW k \in Nodes, NEW x \in Range(wire'[Other(k)])
          PROVE  x.from = peer'[k].uid /\ Connected(k)' /\ ~peer'[k].dead
      <4>1. Other(k) \in Nodes
        BY TwoNodes
      <4>2. x.from = peer[k].uid /\ Connected(k) /\ ~peer[k].dead
        BY <3>1, <4>1 DEF Sound, Fresh
      <4> QED BY <1>3, <3>1, <4>1, <4>2
    <3> QED BY <3>1 DEF Fresh
  <2>4. Answerable'
    BY <1>3 DEF Sound, Answerable, HasPeer
  <2> QED BY <2>1, <2>2, <2>3, <2>4 DEF Sound
<1>4. CASE ~HasPeer(n) /\ made' = [made EXCEPT ![n] = @ + 1]
           /\ peer' = [peer EXCEPT ![n] = NewPeer(made[n] + 1)]
  <2>1. /\ made[n] \in Nat /\ made' \in [Nodes -> Nat] /\ made'[n] = made[n] + 1
        /\ made'[m] = made[m] /\ made[m] \in Nat
    BY <1>1, <1>2, <1>4
  <2>2. /\ peer'[m] = peer[m] /\ peer[m] \in PeerType /\ peer[n] = NoPeer
        /\ peer'[n] = NewPeer(made[n] + 1) /\ NewPeer(made[n] + 1) \in PeerType
    BY <1>1, <1>2, <1>4, <2>1 DEF NewPeer, PeerType, Sound, Numbered, HasPeer
  <2>3. /\ peer'[n].uid = made[n] + 1 /\ peer'[n].theirServer = 0 /\ peer'[n].client = "asleep"
        /\ peer'[n].server = "waiting" /\ ~peer'[n].dead /\ peer'[n].sending = {}
    BY <2>2 DEF NewPeer
  <2>4. /\ peer[n].uid = 0 /\ peer[n].dead /\ peer[n].server = "waiting"
    BY <2>2 DEF NoPeer, NewPeer
  <2>5. Types'
    <3>1. peer' \in [Nodes -> PeerType]
      BY <1>2, <1>4, <2>2
    <3> QED BY <2>1, <3>1 DEF Types, LinkTypes
  <2>6. peer[m].uid \in {0, made[m]} /\ (peer[m].uid = 0 => peer[m] = NoPeer)
        /\ peer[m].theirServer <= made[n] /\ (peer[m].client = "open" => peer[m].theirServer # 0)
    BY <1>1 DEF Sound, Numbered
  <2>7. Numbered'
    <3>1. peer[m].theirServer \in Nat
      BY <2>2 DEF PeerType
    <3>2. /\ peer'[n].uid \in {0, made'[n]} /\ peer'[n].uid # 0
          /\ peer'[n].theirServer <= made'[m]
          /\ peer'[m].theirServer <= made'[n]
      BY <2>1, <2>2, <2>3, <2>6, <3>1
    <3>3. /\ peer'[m].uid \in {0, made'[m]} /\ (peer'[m].uid = 0 => peer'[m] = NoPeer)
          /\ (peer'[m].client = "open" => peer'[m].theirServer # 0)
      BY <2>1, <2>2, <2>6
    <3> QED BY <1>1, <2>3, <3>2, <3>3 DEF Numbered
  <2>8. Screened'
    BY <1>1, <2>2, <2>3 DEF Sound, Screened
  <2>9. KeysAgree'
    <3>1. peer[m].theirServer \in Nat
      BY <2>2 DEF PeerType
    <3>2. peer'[n].uid # peer'[m].theirServer
      BY <2>1, <2>2, <2>3, <2>6, <3>1
    <3> QED BY <1>1, <2>3, <3>2 DEF KeysAgree
  <2>10. \A x : x \notin Range(wire'[m])
    BY <1>1, <2>4 DEF Sound, Fresh
  <2>11. Fresh'
    <3>1. ASSUME NEW x \in Range(wire'[n])
          PROVE  x.from = peer'[m].uid /\ Connected(m)' /\ ~peer'[m].dead
      <4>1. x.from = peer[m].uid /\ Connected(m) /\ ~peer[m].dead
        BY <1>1, <3>1 DEF Sound, Fresh
      <4> QED BY <1>1, <2>2, <3>1, <4>1
    <3> QED BY <1>1, <2>10, <3>1 DEF Fresh
  <2>12. Answerable'
    <3>1. ASSUME NEW x \in Range(wire'[n])
          PROVE  /\ x.op \in {"STATUS", "CIPHER", "SERVERKEY"} => Connected(n)'
                 /\ x.op = "STATUS" => x.arg = x.from /\ peer'[m].server # "waiting"
                 /\ x.op \notin {"CIPHER", "SERVERKEY"}
      <4>1. /\ x.op \in {"STATUS", "CIPHER", "SERVERKEY"} => Connected(n)
            /\ x.op = "STATUS" => x.arg = x.from /\ peer[m].server # "waiting"
            /\ x.op = "CIPHER" => peer[n].server # "waiting"
            /\ x.op = "SERVERKEY" => HasPeer(n)
        BY <1>1, <3>1 DEF Sound, Answerable
      <4> QED BY <1>4, <2>2, <2>4, <3>1, <4>1
    <3> QED BY <1>1, <2>10, <3>1 DEF Answerable
  <2> QED BY <2>5, <2>7, <2>8, <2>9, <2>11, <2>12 DEF Sound
<1> QED BY <1>3, <1>4 DEF CreatePeer


\* Nothing is on the wire without a connection.
LEMMA NoConnectionNoMessage ==
  ASSUME Sound, up = {}
  PROVE  \A k \in Nodes : \A x : x \notin Range(wire[k])
<1>1. ASSUME NEW k \in Nodes, NEW x \in Range(wire[k])
      PROVE  FALSE
  <2>1. Other(k) \in Nodes /\ Other(Other(k)) = k
    BY TwoNodes
  <2>2. Connected(Other(k))
    BY <1>1, <2>1 DEF Sound, Fresh
  <2> QED BY <2>2 DEF Connected
<1> QED BY <1>1

\* The types of those variables before the step.
LEMMA LinksTyped ==
  ASSUME Sound
  PROVE  /\ LinkTypes /\ NoBadAnswer
         /\ \A k \in Nodes : conns[k] \subseteq 1 .. last.conn /\ wire[k] \in Seq(PacketType)
         /\ \A k \in Nodes : /\ waits[k].identify \in Nat /\ waits[k].store \in Nat
                             /\ waits[k].hangUp \in Nat
  BY DEF Sound, Types, LinkTypes

\* An awaited call more or less.
LEMMA WaitsTyped ==
  ASSUME Sound, NEW n \in Nodes, NEW i \in Nat
  PROVE  LET W == [Nodes -> [identify : Nat, store : Nat, hangUp : Nat]] IN
         /\ [waits EXCEPT ![n].identify = i] \in W /\ [waits EXCEPT ![n].store = i] \in W
         /\ [waits EXCEPT ![n].hangUp = i] \in W /\ waits \in W
<1>1. waits \in [Nodes -> [identify : Nat, store : Nat, hangUp : Nat]]
  BY DEF Sound, Types
<1> QED BY <1>1

LEMMA IdentifiedKeepsSound ==
  ASSUME Sound, NEW n \in Nodes, Identified(n)
  PROVE  Sound'
<1>1. waits' \in [Nodes -> [identify : Nat, store : Nat, hangUp : Nat]]
  <2>1. waits[n].identify - 1 \in Nat
    BY LinksTyped DEF Identified
  <2> QED BY <2>1, WaitsTyped DEF Identified
<1>2. UNCHANGED <<compat, conns, last, wire>> /\ up' \in {up, up \ conns[n]} /\ (up = {} => up' = {})
      /\ (up # {} => up' = up) /\ healthy' \in BOOLEAN
  BY LinksTyped DEF Identified, DisconnectPeer, LinkTypes
<1>3. up' = up
  BY <1>2
<1>4. black' \in [Nodes -> Codes \cup {"none"}] /\ NoBadAnswer'
  BY LinksTyped DEF Identified, DisconnectPeer, BlackListPeerId, LinkTypes, NoBadAnswer, Codes
<1>5. LinkTypes'
  BY <1>1, <1>2, <1>3, <1>4, LinksTyped DEF LinkTypes
<1>6. \A l \in Nodes : Connected(l) => Connected(l)'
  BY <1>2, <1>3 DEF Connected
<1>7. CreatePeer(n) \/ UNCHANGED <<peer, made>>
  BY DEF Identified
<1> QED BY <1>2, <1>4, <1>5, <1>6, <1>7, LinkKeepsSound

LEMMA OnPeerConnectMakes ==
  ASSUME Sound, NEW n \in Nodes, NEW inbound \in BOOLEAN, OnPeerConnect(n, inbound)
  PROVE  /\ CreatePeer(n) \/ UNCHANGED <<peer, made>>
         /\ waits' \in [Nodes -> [identify : Nat, store : Nat, hangUp : Nat]]
<1>1. waits[n].identify + 1 \in Nat
  BY LinksTyped
<1>2. /\ [waits EXCEPT ![n].identify = waits[n].identify + 1]
            \in [Nodes -> [identify : Nat, store : Nat, hangUp : Nat]]
      /\ waits \in [Nodes -> [identify : Nat, store : Nat, hangUp : Nat]]
  BY <1>1, WaitsTyped
<1>3. waits' \in {waits, [waits EXCEPT ![n].identify = waits[n].identify + 1]}
  BY DEF OnPeerConnect
<1>4. CreatePeer(n) \/ UNCHANGED <<peer, made>>
  BY DEF OnPeerConnect
<1> QED BY <1>2, <1>3, <1>4

LEMMA DialKeepsSound ==
  ASSUME Sound, NEW n \in Nodes, Dial(n)
  PROVE  Sound'
<1>1. /\ CreatePeer(n) \/ UNCHANGED <<peer, made>>
      /\ waits' \in [Nodes -> [identify : Nat, store : Nat, hangUp : Nat]]
  BY OnPeerConnectMakes, FALSE \in BOOLEAN DEF Dial
<1>2. /\ up = {} /\ last' = [conn |-> last.conn + 1, by |-> n] /\ up' = {last.conn + 1}
      /\ conns' = [conns EXCEPT ![n] = {last.conn + 1}]
      /\ UNCHANGED <<compat, black, wire, healthy>>
  BY DEF Dial
<1>3. last' \in [conn : Nat, by : Nodes] /\ last'.conn = last.conn + 1 /\ last.conn \in Nat
  BY <1>2, LinksTyped DEF LinkTypes
<1>4. up' \subseteq {last'.conn} \ {0}
  BY <1>2, <1>3
<1>5. conns' \in [Nodes -> SUBSET (1 .. last'.conn)]
  <2>1. 1 .. last.conn \subseteq 1 .. last'.conn /\ last.conn + 1 \in 1 .. last'.conn
    BY <1>3
  <2> QED BY <1>2, <2>1, LinksTyped DEF LinkTypes
<1>6. LinkTypes'
  BY <1>1, <1>2, <1>3, <1>4, <1>5, LinksTyped DEF LinkTypes
<1>7. NoBadAnswer'
  BY <1>2, LinksTyped DEF NoBadAnswer
<1>8. \A k \in Nodes : \A x : x \notin Range(wire'[k])
  BY <1>2, NoConnectionNoMessage
<1> QED BY <1>1, <1>2, <1>6, <1>7, <1>8, LinkKeepsSound

LEMMA DialFailsKeepsSound ==
  ASSUME Sound, NEW n \in Nodes, DialFails(n)
  PROVE  Sound'
<1>1. UNCHANGED <<compat, up, conns, last, peer, made, waits, wire>> /\ healthy' = FALSE
  BY DEF DialFails, linkVars
<1>2. black' \in [Nodes -> Codes \cup {"none"}] /\ NoBadAnswer'
  BY LinksTyped DEF DialFails, RecordDialFailure, LinkTypes, NoBadAnswer, Codes
<1>3. LinkTypes'
  BY <1>1, <1>2, LinksTyped DEF LinkTypes
<1>4. \A l \in Nodes : Connected(l) => Connected(l)'
  BY <1>1 DEF Connected
<1> QED BY <1>1, <1>2, <1>3, <1>4, LinkKeepsSound

LEMMA IncomingKeepsSound ==
  ASSUME Sound, NEW n \in Nodes, Incoming(n)
  PROVE  Sound'
<1>1. /\ CreatePeer(n) \/ UNCHANGED <<peer, made>>
      /\ waits' \in [Nodes -> [identify : Nat, store : Nat, hangUp : Nat]]
  BY OnPeerConnectMakes, LinksTyped DEF Incoming, LinkTypes
<1>2. UNCHANGED <<compat, last, black>> /\ healthy' \in BOOLEAN
  BY LinksTyped DEF Incoming, LinkTypes
<1>3. \/ up' = {} /\ wire' = [k \in Nodes |-> << >>] /\ conns' = conns
      \/ up' = up /\ wire' = wire /\ conns' = [conns EXCEPT ![n] = @ \cup up]
  BY DEF Incoming
<1>4. up \subseteq 1 .. last.conn
  <2>1. last.conn \in Nat /\ up \subseteq {last.conn} \ {0}
    BY LinksTyped DEF LinkTypes
  <2> QED BY <2>1
<1>5. conns' \in [Nodes -> SUBSET (1 .. last.conn)]
  BY <1>3, <1>4, LinksTyped, ZenonT(40) DEF LinkTypes
<1>6. << >> \in Seq(PacketType) /\ \A x : x \notin Range(<< >>)
  BY DEF Range
<1>7. wire' \in [Nodes -> Seq(PacketType)] /\ \A k \in Nodes : Range(wire'[k]) \subseteq Range(wire[k])
  BY <1>3, <1>6, LinksTyped, ZenonT(40) DEF LinkTypes
<1>8. LinkTypes'
  BY <1>1, <1>2, <1>3, <1>5, <1>7, LinksTyped DEF LinkTypes
<1>9. NoBadAnswer'
  BY <1>2, LinksTyped DEF NoBadAnswer
<1>10. \A k, l \in Nodes : \A x \in Range(wire'[k]) : Connected(l) => Connected(l)'
  <2>1. CASE wire' = [k \in Nodes |-> << >>]
    BY <1>6, <2>1
  <2>2. CASE up' = up /\ conns' = [conns EXCEPT ![n] = @ \cup up]
    BY <2>2, LinksTyped DEF Connected, LinkTypes
  <2> QED BY <1>3, <2>1, <2>2
<1> QED BY <1>1, <1>2, <1>7, <1>8, <1>9, <1>10, LinkKeepsSound

LEMMA DropKeepsSound ==
  ASSUME Sound, Drop
  PROVE  Sound'
<1>1. /\ UNCHANGED <<compat, conns, last, peer, made, black, waits>>
      /\ up' = {} /\ wire' = [k \in Nodes |-> << >>] /\ healthy' = FALSE
  BY DEF Drop
<1>2. << >> \in Seq(PacketType) /\ \A x : x \notin Range(<< >>)
  BY DEF Range
<1>3. LinkTypes'
  BY <1>1, <1>2, LinksTyped DEF LinkTypes
<1>4. NoBadAnswer'
  BY <1>1, LinksTyped DEF NoBadAnswer
<1>5. \A k \in Nodes : \A x : x \notin Range(wire'[k])
  BY <1>1, <1>2
<1>6. PICK n : n \in Nodes
  BY LinksTyped DEF LinkTypes
<1> QED BY <1>1, <1>3, <1>4, <1>5, <1>6, LinkKeepsSound

LEMMA NoticeKeepsSound ==
  ASSUME Sound, NEW n \in Nodes, Notice(n)
  PROVE  Sound'
<1>1. PICK c \in conns[n] \ up :
        /\ conns' = [conns EXCEPT ![n] = @ \ {c}]
        /\ waits' = IF conns[n] = {c} THEN [waits EXCEPT ![n].store = @ + 1] ELSE waits
        /\ UNCHANGED <<compat, up, last, peer, made, black, wire, healthy>>
  BY DEF Notice
<1>2. LinkTypes'
  <2>1. waits[n].store + 1 \in Nat
    BY LinksTyped
  <2>2. waits' \in [Nodes -> [identify : Nat, store : Nat, hangUp : Nat]]
    BY <1>1, <2>1, WaitsTyped
  <2> QED BY <1>1, <2>2, LinksTyped DEF LinkTypes
<1>3. NoBadAnswer'
  BY <1>1, LinksTyped DEF NoBadAnswer
<1>4. \A l \in Nodes : Connected(l) => Connected(l)'
  BY <1>1, LinksTyped DEF Connected, LinkTypes
<1> QED BY <1>1, <1>2, <1>3, <1>4, LinkKeepsSound

\* What is on the wire to a node may be cut.
LEMMA CutKeepsSound ==
  ASSUME Sound, NEW n \in Nodes, ClosePeerStreams(n) \/ Ignore(n)
  PROVE  Sound'
<1>1. UNCHANGED <<compat, up, conns, last, peer, made, black>> /\ healthy' \in BOOLEAN
  BY LinksTyped DEF ClosePeerStreams, Ignore, linkVars, LinkTypes
<1>2. waits' \in [Nodes -> [identify : Nat, store : Nat, hangUp : Nat]]
  <2>1. waits[n].hangUp > 0 => waits[n].hangUp - 1 \in Nat
    BY LinksTyped
  <2>2. CASE ClosePeerStreams(n)
    <3>1. /\ [waits EXCEPT ![n].hangUp = waits[n].hangUp - 1]
            \in [Nodes -> [identify : Nat, store : Nat, hangUp : Nat]]
      BY <2>1, <2>2, WaitsTyped DEF ClosePeerStreams
    <3> QED BY <2>2, <3>1 DEF ClosePeerStreams
  <2>3. CASE Ignore(n)
    BY <2>3, LinksTyped DEF Ignore, LinkTypes
  <2> QED BY <2>2, <2>3
<1>3. << >> \in Seq(PacketType) /\ \A x : x \notin Range(<< >>)
  BY DEF Range
<1>4. wire' \in [Nodes -> Seq(PacketType)] /\ \A k \in Nodes : Range(wire'[k]) \subseteq Range(wire[k])
  <2>1. CASE ClosePeerStreams(n)
    BY <1>3, <2>1, LinksTyped DEF ClosePeerStreams, LinkTypes
  <2>2. CASE Ignore(n)
    <3>1. wire[n] # << >> /\ wire[n] \in Seq(PacketType) /\ wire' = [wire EXCEPT ![n] = Tail(wire[n])]
      BY <2>2, LinksTyped DEF Ignore
    <3>2. Tail(wire[n]) \in Seq(PacketType) /\ Range(Tail(wire[n])) \subseteq Range(wire[n])
      BY <3>1, Members
    <3> QED BY <3>1, <3>2, LinksTyped DEF LinkTypes
  <2> QED BY <2>1, <2>2
<1>5. LinkTypes'
  BY <1>1, <1>2, <1>4, LinksTyped DEF LinkTypes
<1>6. NoBadAnswer'
  BY <1>1, LinksTyped DEF NoBadAnswer
<1>7. \A l \in Nodes : Connected(l) => Connected(l)'
  BY <1>1 DEF Connected
<1> QED BY <1>1, <1>4, <1>5, <1>6, <1>7, LinkKeepsSound

LEMMA PurgeKeepsSound ==
  ASSUME Sound, NEW n \in Nodes, PurgeOldBlacklistedPeers(n) \/ ForgetDialFailures(n)
  PROVE  Sound'
<1>1. UNCHANGED <<compat, up, conns, last, peer, made, waits, wire, healthy>>
  BY DEF PurgeOldBlacklistedPeers, ForgetDialFailures, linkVars
<1>2. black' \in [Nodes -> Codes \cup {"none"}] /\ NoBadAnswer'
  BY LinksTyped DEF PurgeOldBlacklistedPeers, ForgetDialFailures, LinkTypes, NoBadAnswer
<1>3. LinkTypes'
  BY <1>1, <1>2, LinksTyped DEF LinkTypes
<1>4. \A l \in Nodes : Connected(l) => Connected(l)'
  BY <1>1 DEF Connected
<1> QED BY <1>1, <1>2, <1>3, <1>4, LinkKeepsSound


\* A peer leaves the table only with what it sent, and with what it was sent.
LEMMA OnPeerDisconnectKeepsSound ==
  ASSUME Sound, NEW n \in Nodes, OnPeerDisconnect(n)
  PROVE  Sound'
<1> DEFINE m == Other(n)
           alive == HasPeer(n) /\ ~peer[n].dead
<1>1. m \in Nodes /\ m # n /\ Other(m) = n /\ Other(n) = m /\ \A k \in Nodes : k = n \/ k = m
  BY TwoNodes
<1> HIDE DEF m
<1>2. peer \in [Nodes -> PeerType] /\ made \in [Nodes -> Nat]
  BY DEF Sound, Types
<1>3. /\ peer'[n] = NoPeer /\ peer'[m] = peer[m] /\ peer[m] \in PeerType
      /\ UNCHANGED <<compat, conns, last, made, black>>
  BY <1>1, <1>2 DEF OnPeerDisconnect
<1>4. /\ NoPeer \in PeerType /\ NoPeer.uid = 0 /\ NoPeer.dead /\ NoPeer.client = "asleep"
      /\ NoPeer.server = "waiting" /\ NoPeer.theirServer = 0 /\ NoPeer.sending = {}
  BY DEF NoPeer, NewPeer, PeerType
<1>5. /\ up' = (IF alive THEN up \ conns[n] ELSE up)
      /\ wire' = IF up' = {} THEN [k \in Nodes |-> << >>]
                 ELSE IF alive THEN wire ELSE [wire EXCEPT ![n] = << >>]
  BY DEF OnPeerDisconnect
<1>6. << >> \in Seq(PacketType) /\ \A x : x \notin Range(<< >>)
  BY DEF Range
<1>7. \A x : x \notin Range(wire'[m])
  <2>1. CASE up' = {}
    BY <1>1, <1>5, <1>6, <2>1
  <2>2. CASE up' # {} /\ alive
    <3>1. ~Connected(n)
      <4>1. \E c : up \subseteq {c}
        BY LinksTyped DEF LinkTypes
      <4> QED BY <1>5, <2>2, <4>1 DEF Connected
    <3> QED BY <1>1, <1>5, <2>2, <3>1 DEF Sound, Fresh
  <2>3. CASE up' # {} /\ ~alive
    <3>1. peer[n].dead
      BY <1>4, <2>3 DEF Sound, Numbered, HasPeer
    <3> QED BY <1>1, <1>5, <2>3, <3>1, LinksTyped DEF Sound, Fresh, LinkTypes
  <2> QED BY <2>1, <2>2, <2>3
<1>8. ASSUME NEW x \in Range(wire'[n])
      PROVE  x \in Range(wire[n]) /\ up' = up /\ ~Connected(n)
  <2>1. up' # {} /\ alive /\ wire' = wire
    BY <1>5, <1>6, <1>8, LinksTyped DEF LinkTypes
  <2>2. \E c : up \subseteq {c}
    BY LinksTyped DEF LinkTypes
  <2> QED BY <1>5, <1>8, <2>1, <2>2 DEF Connected
<1>9. Types'
  <2>1. peer' \in [Nodes -> PeerType]
    BY <1>1, <1>2, <1>4 DEF OnPeerDisconnect
  <2>2. waits' \in [Nodes -> [identify : Nat, store : Nat, hangUp : Nat]]
    <3> DEFINE h == IF alive /\ conns[n] # {} THEN waits[n].hangUp + 1 ELSE waits[n].hangUp
    <3>1. waits[n].store - 1 \in Nat /\ h \in Nat /\ waits[n].identify \in Nat
      BY LinksTyped DEF OnPeerDisconnect
    <3>2. waits' = [waits EXCEPT ![n] = [waits[n] EXCEPT !.store = waits[n].store - 1, !.hangUp = h]]
      BY LinksTyped DEF OnPeerDisconnect, LinkTypes
    <3>3. [waits[n] EXCEPT !.store = waits[n].store - 1, !.hangUp = h]
             \in [identify : Nat, store : Nat, hangUp : Nat]
      BY <3>1, LinksTyped, ZenonT(40) DEF LinkTypes
    <3> QED BY <3>2, <3>3, LinksTyped DEF LinkTypes
  <2>3. wire' \in [Nodes -> Seq(PacketType)] /\ up' \subseteq up /\ healthy' \in BOOLEAN
    BY <1>5, <1>6, LinksTyped DEF LinkTypes, OnPeerDisconnect
  <2> QED BY <1>2, <1>3, <2>1, <2>2, <2>3, LinksTyped DEF LinkTypes, Types
<1>10. Numbered'
  <2>1. made[m] \in Nat
    BY <1>1, <1>2
  <2> QED BY <1>1, <1>3, <1>4, <2>1 DEF Sound, Numbered
<1>11. Screened'
  BY <1>1, <1>3, <1>4 DEF Sound, Screened
<1>12. NoBadAnswer'
  BY <1>3 DEF Sound, NoBadAnswer
<1>13. KeysAgree'
  <2>1. peer[m].client = "open" => peer[m].theirServer # 0
    BY <1>1 DEF Sound, Numbered
  <2> QED BY <1>1, <1>3, <1>4, <2>1 DEF KeysAgree
<1>14. Fresh'
  <2>1. ASSUME NEW x \in Range(wire'[n])
        PROVE  x.from = peer'[m].uid /\ Connected(m)' /\ ~peer'[m].dead
    <3>1. x.from = peer[m].uid /\ Connected(m) /\ ~peer[m].dead
      BY <1>1, <1>8, <2>1 DEF Sound, Fresh
    <3> QED BY <1>3, <1>8, <2>1, <3>1 DEF Connected
  <2> QED BY <1>1, <1>7, <2>1 DEF Fresh
<1>15. Answerable'
  <2>1. ASSUME NEW x \in Range(wire'[n])
        PROVE  x.op \notin {"STATUS", "CIPHER", "SERVERKEY"}
    BY <1>8, <2>1 DEF Sound, Answerable
  <2> QED BY <1>1, <1>7, <2>1 DEF Answerable
<1> QED BY <1>9, <1>10, <1>11, <1>12, <1>13, <1>14, <1>15 DEF Sound

-----------------------------------------------------------------------------

LEMMA InitSound == Init => Sound
<1>1. SUFFICES ASSUME Init PROVE Sound
  OBVIOUS
<1>2. PICK n : n \in Nodes
  BY PeersAssumption, FS_EmptySet
<1>3. (CHOOSE k \in Nodes : TRUE) \in Nodes
  BY <1>2
<1>4. /\ NoPeer \in PeerType /\ NoPeer.uid = 0 /\ NoPeer.dead /\ NoPeer.client = "asleep"
      /\ NoPeer.server = "waiting" /\ NoPeer.theirServer = 0 /\ NoPeer.sending = {}
  BY DEF NoPeer, NewPeer, PeerType
<1>5. << >> \in Seq(PacketType) /\ \A x : x \notin Range(<< >>)
  BY DEF Range
<1>6. Types
  BY <1>1, <1>3, <1>4, <1>5 DEF Init, Types, NoWaits
<1>7. Numbered /\ Screened /\ NoBadAnswer /\ KeysAgree
  BY <1>1, <1>4, TwoNodes DEF Init, Numbered, Screened, NoBadAnswer, KeysAgree
<1>8. Fresh /\ Answerable
  BY <1>1, <1>5, TwoNodes DEF Init, Fresh, Answerable
<1> QED BY <1>6, <1>7, <1>8 DEF Sound

LEMMA NextKeepsSound == Sound /\ [Next]_vars => Sound'
<1>1. SUFFICES ASSUME Sound, [Next]_vars PROVE Sound'
  OBVIOUS
<1>2. CASE UNCHANGED vars
  <2>1. LinkTypes' /\ NoBadAnswer'
    BY <1>1, <1>2, LinksTyped DEF vars, linkVars, LinkTypes, NoBadAnswer
  <2>2. UNCHANGED <<peer, made, compat, wire, conns, up>>
    BY <1>2 DEF vars, linkVars
  <2>3. \A l \in Nodes : Connected(l) => Connected(l)'
    BY <2>2 DEF Connected
  <2>4. PICK n : n \in Nodes
    BY <1>1, LinksTyped DEF LinkTypes
  <2> QED BY <1>1, <2>1, <2>2, <2>3, <2>4, LinkKeepsSound
<1>3. CASE Drop
  BY <1>1, <1>3, DropKeepsSound
<1>4. ASSUME NEW n \in Nodes,
             Works(n) \/ TimeoutAuth(n) \/ Talk(n) \/ Dial(n) \/ DialFails(n)
             \/ PurgeOldBlacklistedPeers(n) \/ ForgetDialFailures(n)
      PROVE  Sound'
  BY <1>1, <1>4, IdentifiedKeepsSound, IncomingKeepsSound, NoticeKeepsSound,
     OnPeerDisconnectKeepsSound, CutKeepsSound, LoginKeepsSound, ReceiveKeepsSound,
     DrainedKeepsSound, TimeoutAuthKeepsSound, TalkKeepsSound, DialKeepsSound,
     DialFailsKeepsSound, PurgeKeepsSound DEF Works
<1> QED BY <1>1, <1>2, <1>3, <1>4 DEF Next

\* Sound is an invariant.
THEOREM Soundness == Spec => []Sound
  BY InitSound, NextKeepsSound, PTL DEF Spec

\* Nodes that differ never take each other for authenticated, and a client part is
\* open only towards the server part that has accepted it: whatever the network
\* drops, delays or reconnects, for every number of connections and troubles.
THEOREM SessionsAgreeHolds == Spec => []SessionsAgree
<1>1. Sound => SessionsAgree
  BY DEF Sound, Screened, SessionsAgree, Compatible, Authenticated
<1> QED BY <1>1, Soundness, PTL


-----------------------------------------------------------------------------
(* A healthy network between nodes that agree: the wire                      *)

\* When the first message has been read.
LEMMA AfterHead ==
  ASSUME NEW w \in Seq(PacketType), w # << >>
  PROVE  /\ Tail(w) \in Seq(PacketType) /\ Head(w) \in Range(w)
         /\ Range(Tail(w)) \subseteq Range(w)
         /\ Once(w) => /\ Once(Tail(w))
                       /\ Head(w).op \in Steps => \A x \in Range(Tail(w)) : x.op # Head(w).op
         /\ \A op : Has(w, op) /\ Head(w).op # op => Has(Tail(w), op)
         /\ KeysFirst(w) => /\ ~(Head(w).part = "client" /\ Head(w).op \notin Steps)
                            /\ Head(w).op # "SERVERKEY" => KeysFirst(Tail(w))
<1>1. /\ Tail(w) \in Seq(PacketType) /\ Range(Tail(w)) \subseteq Range(w)
      /\ Head(w) \in Range(w)
  BY Members
<1>2. /\ Head(w) = w[1] /\ 1 \in DOMAIN w
      /\ \A i \in DOMAIN Tail(w) : i + 1 \in DOMAIN w /\ i \in Nat /\ i > 0 /\ Tail(w)[i] = w[i + 1]
  OBVIOUS
<1>3. \A i \in DOMAIN w : i # 1 => i - 1 \in DOMAIN Tail(w) /\ w[i] = Tail(w)[i - 1]
  OBVIOUS
<1>4. ASSUME Once(w) PROVE Once(Tail(w))
  <2>1. ASSUME NEW i \in DOMAIN Tail(w), NEW j \in DOMAIN Tail(w), Tail(w)[i].op \in Steps,
               Tail(w)[i].op = Tail(w)[j].op
        PROVE  i = j
    <3>1. i + 1 = j + 1
      BY <1>2, <1>4, <2>1 DEF Once
    <3> QED BY <1>2, <3>1
  <2> QED BY <2>1 DEF Once
<1>5. ASSUME Once(w), Head(w).op \in Steps, NEW i \in DOMAIN Tail(w)
      PROVE  Tail(w)[i].op # Head(w).op
  <2>1. i + 1 # 1
    BY <1>2
  <2> QED BY <1>2, <1>5, <2>1 DEF Once
<1>6. Once(w) /\ Head(w).op \in Steps => \A x \in Range(Tail(w)) : x.op # Head(w).op
  BY <1>5 DEF Range
<1>7. ASSUME NEW op, Has(w, op), Head(w).op # op
      PROVE  Has(Tail(w), op)
  BY <1>2, <1>3, <1>7 DEF Has
<1>8. KeysFirst(w) => ~(Head(w).part = "client" /\ Head(w).op \notin Steps)
  <2>1. 1 .. 1 - 1 = {}
    OBVIOUS
  <2> QED BY <1>2, <2>1 DEF KeysFirst
<1>9. ASSUME KeysFirst(w), Head(w).op # "SERVERKEY"
      PROVE  KeysFirst(Tail(w))
  <2>1. ASSUME NEW i \in DOMAIN Tail(w), Tail(w)[i].part = "client", Tail(w)[i].op \notin Steps
        PROVE  \E j \in 1 .. i - 1 : Tail(w)[j].op = "SERVERKEY"
    <3>1. PICK j \in 1 .. (i + 1) - 1 : w[j].op = "SERVERKEY"
      BY <1>2, <1>9, <2>1 DEF KeysFirst
    <3>2. j # 1 /\ j \in DOMAIN w
      BY <1>2, <1>9, <3>1
    <3>3. j - 1 \in 1 .. i - 1 /\ Tail(w)[j - 1].op = "SERVERKEY"
      BY <1>2, <1>3, <3>1, <3>2
    <3> QED BY <3>3
  <2> QED BY <2>1 DEF KeysFirst
<1> QED BY <1>1, <1>4, <1>6, <1>7, <1>8, <1>9

\* When a message has been sent.
LEMMA AfterSend ==
  ASSUME NEW w \in Seq(PacketType), NEW x \in PacketType
  PROVE  LET v == w \o <<x>> IN
         /\ v \in Seq(PacketType) /\ Range(v) \subseteq Range(w) \cup {x}
         /\ Has(v, x.op)
         /\ \A op : Has(w, op) => Has(v, op)
         /\ Once(w) /\ (x.op \in Steps => \A y \in Range(w) : y.op # x.op) => Once(v)
         /\ KeysFirst(w) /\ (x.part = "client" /\ x.op \notin Steps => Has(w, "SERVERKEY")) =>
              KeysFirst(v)
<1> DEFINE v == w \o <<x>>
           l == Len(w)
<1>1. v \in Seq(PacketType) /\ Range(v) \subseteq Range(w) \cup {x}
  <2>1. <<x>> \in Seq(PacketType) /\ Range(<<x>>) = {x}
    BY OneMember
  <2> QED BY <2>1, Members
<1>2. /\ l \in Nat /\ DOMAIN v = 1 .. l + 1 /\ DOMAIN w = 1 .. l
      /\ \A i \in 1 .. l : v[i] = w[i]
      /\ v[l + 1] = x
  OBVIOUS
<1> HIDE DEF v, l
<1>3. Has(v, x.op) /\ \A op : Has(w, op) => Has(v, op)
  BY <1>2 DEF Has
<1>4. ASSUME Once(w), x.op \in Steps => \A y \in Range(w) : y.op # x.op
      PROVE  Once(v)
  <2>1. ASSUME NEW i \in 1 .. l + 1, NEW j \in 1 .. l + 1, v[i].op \in Steps, v[i].op = v[j].op
        PROVE  i = j
    <3>1. CASE i \in 1 .. l /\ j \in 1 .. l
      BY <1>2, <1>4, <2>1, <3>1 DEF Once
    <3>2. CASE i \in 1 .. l /\ j = l + 1
      BY <1>2, <1>4, <2>1, <3>2 DEF Range
    <3>3. CASE i = l + 1 /\ j \in 1 .. l
      BY <1>2, <1>4, <2>1, <3>3 DEF Range
    <3> QED BY <1>2, <3>1, <3>2, <3>3
  <2> QED BY <1>2, <2>1 DEF Once
<1>5. ASSUME KeysFirst(w), x.part = "client" /\ x.op \notin Steps => Has(w, "SERVERKEY")
      PROVE  KeysFirst(v)
  <2>1. ASSUME NEW i \in 1 .. l + 1, v[i].part = "client", v[i].op \notin Steps
        PROVE  \E j \in 1 .. i - 1 : v[j].op = "SERVERKEY"
    <3>1. CASE i \in 1 .. l
      <4>1. PICK j \in 1 .. i - 1 : w[j].op = "SERVERKEY"
        BY <1>2, <1>5, <2>1, <3>1 DEF KeysFirst
      <4>2. j \in 1 .. l
        BY <1>2, <3>1, <4>1
      <4> QED BY <1>2, <4>1, <4>2
    <3>2. CASE i = l + 1
      <4>1. PICK j \in 1 .. l : w[j].op = "SERVERKEY"
        BY <1>2, <1>5, <2>1, <3>2 DEF Has
      <4>2. j \in 1 .. i - 1 /\ v[j].op = "SERVERKEY"
        BY <1>2, <3>2, <4>1
      <4> QED BY <4>2
    <3> QED BY <1>2, <3>1, <3>2
  <2> QED BY <1>2, <2>1 DEF KeysFirst
<1> QED BY <1>1, <1>3, <1>4, <1>5 DEF v

-----------------------------------------------------------------------------
(* The dialogue of a client part with a server part, step by step            *)

\* It is about the client part of the one and the server part of the other.
LEMMA OtherParts ==
  ASSUME NEW p, NEW q, NEW o, NEW s, NEW toQ, NEW toP, Dialogue(p, q, toQ, toP),
         o.client = p.client, o.uid = p.uid, o.theirServer = p.theirServer,
         s.server = q.server, s.uid = q.uid, s.theirClient = q.theirClient
  PROVE  Dialogue(o, s, toQ, toP)
  BY DEF Dialogue, Asks, Answers

\* A message that is no step of it, read.
LEMMA ReadByServer ==
  ASSUME NEW p, NEW q, NEW toQ \in Seq(PacketType), NEW toP, Dialogue(p, q, toQ, toP),
         toQ # << >>, Head(toQ).op # "AUTH"
  PROVE  Dialogue(p, q, Tail(toQ), toP)
<1>1. Range(Tail(toQ)) \subseteq Range(toQ) /\ (Has(toQ, "AUTH") => Has(Tail(toQ), "AUTH"))
  BY AfterHead
<1> QED BY <1>1 DEF Dialogue

LEMMA ReadByClient ==
  ASSUME NEW p, NEW q, NEW toQ, NEW toP \in Seq(PacketType), Dialogue(p, q, toQ, toP),
         toP # << >>, Head(toP).op # "SERVERKEY"
  PROVE  Dialogue(p, q, toQ, Tail(toP))
<1>1. /\ Range(Tail(toP)) \subseteq Range(toP) /\ (Has(toP, "SERVERKEY") => Has(Tail(toP), "SERVERKEY"))
      /\ KeysFirst(toP) => KeysFirst(Tail(toP))
  BY AfterHead
<1> QED BY <1>1 DEF Dialogue

\* A message sent.
LEMMA SentToServer ==
  ASSUME NEW p, NEW q, NEW toQ \in Seq(PacketType), NEW toP, Dialogue(p, q, toQ, toP),
         NEW x \in PacketType, Asks(p, q, x)
  PROVE  Dialogue(p, q, toQ \o <<x>>, toP)
<1>1. /\ Range(toQ \o <<x>>) \subseteq Range(toQ) \cup {x}
      /\ Has(toQ, "AUTH") => Has(toQ \o <<x>>, "AUTH")
  BY AfterSend
<1> QED BY <1>1 DEF Dialogue

LEMMA SentToClient ==
  ASSUME NEW p, NEW q, NEW toQ, NEW toP \in Seq(PacketType), Dialogue(p, q, toQ, toP),
         NEW x \in PacketType, Answers(p, q, x)
  PROVE  Dialogue(p, q, toQ, toP \o <<x>>)
<1>1. /\ Range(toP \o <<x>>) \subseteq Range(toP) \cup {x}
      /\ Has(toP, "SERVERKEY") => Has(toP \o <<x>>, "SERVERKEY")
      /\ KeysFirst(toP) /\ (x.part = "client" /\ x.op \notin Steps => Has(toP, "SERVERKEY")) =>
           KeysFirst(toP \o <<x>>)
  BY AfterSend
<1>2. p.client # "open" /\ x.part = "client" /\ x.op \notin Steps => Has(toP, "SERVERKEY")
  BY DEF Dialogue, Answers
<1> QED BY <1>1, <1>2 DEF Dialogue


\* A new object at either end starts anew.
LEMMA DialogueBegins ==
  ASSUME NEW p, NEW q, NEW o, NEW s, NEW toQ, NEW toP, Dialogue(p, q, toQ, toP)
  PROVE  /\ p.client = "asleep" /\ o.client = "asleep" => Dialogue(o, q, toQ, toP)
         /\ q.server = "waiting" /\ s.server = "waiting" => Dialogue(p, s, toQ, toP)
  BY DEF Dialogue, Asks, Answers

\* login.
LEMMA DialogueLogin ==
  ASSUME NEW p, NEW q, NEW toQ \in Seq(PacketType), NEW toP, Dialogue(p, q, toQ, toP),
         p.client = "asleep", NEW o, o.client = "sent",
         NEW x \in PacketType, x.op = "AUTH", x.part = "server", x.to = 0
  PROVE  /\ Dialogue(o, q, toQ \o <<x>>, toP)
         /\ \A y \in Range(toQ) : y.op # "AUTH"
<1>1. /\ Range(toQ \o <<x>>) \subseteq Range(toQ) \cup {x} /\ Has(toQ \o <<x>>, "AUTH")
  BY AfterSend
<1>2. q.server = "waiting"
  BY DEF Dialogue
<1>3. \A y \in Range(toQ) : Asks(p, q, y) /\ y.op \notin {"AUTH", "CIPHER"}
  BY DEF Dialogue, Asks
<1>4. \A y \in Range(toQ) \cup {x} : Asks(o, q, y)
  BY <1>2, <1>3 DEF Asks, Steps
<1>5. \A y \in Range(toP) : Answers(o, q, y)
  BY <1>2 DEF Dialogue, Answers
<1>6. KeysFirst(toP)
  BY DEF Dialogue
<1> QED BY <1>1, <1>2, <1>3, <1>4, <1>5, <1>6 DEF Dialogue

\* The authentication is answered with a challenge.
LEMMA DialogueAuth ==
  ASSUME NEW p, NEW q, NEW toQ \in Seq(PacketType), NEW toP \in Seq(PacketType),
         Dialogue(p, q, toQ, toP), toQ # << >>, Head(toQ).op = "AUTH", Once(toQ),
         NEW s, s.server = "challenged", s.uid = q.uid,
         NEW x \in PacketType, x.op = "STATUS", x.part = "client"
  PROVE  /\ Dialogue(p, s, Tail(toQ), toP \o <<x>>)
         /\ \A y \in Range(toP) : y.op # "STATUS"
<1>1. /\ Head(toQ) \in Range(toQ) /\ Range(Tail(toQ)) \subseteq Range(toQ)
      /\ \A y \in Range(Tail(toQ)) : y.op # "AUTH"
  BY AfterHead DEF Steps
<1>2. /\ Range(toP \o <<x>>) \subseteq Range(toP) \cup {x}
      /\ KeysFirst(toP) => KeysFirst(toP \o <<x>>)
  BY AfterSend DEF Steps
<1>3. p.client = "sent" /\ q.server = "waiting"
  BY <1>1 DEF Dialogue, Asks
<1>4. \A y \in Range(Tail(toQ)) : Asks(p, s, y)
  BY <1>1, <1>3 DEF Dialogue, Asks
<1>5. \A y \in Range(toP) : Answers(p, q, y) /\ y.op # "STATUS"
  BY <1>3 DEF Dialogue, Answers
<1>6. \A y \in Range(toP) \cup {x} : Answers(p, s, y)
  BY <1>3, <1>5 DEF Answers, Steps
<1>7. KeysFirst(toP)
  BY <1>3 DEF Dialogue
<1> QED BY <1>1, <1>2, <1>3, <1>4, <1>5, <1>6, <1>7 DEF Dialogue

\* The challenge is answered.
LEMMA DialogueStatus ==
  ASSUME NEW p, NEW q, NEW toQ \in Seq(PacketType), NEW toP \in Seq(PacketType),
         Dialogue(p, q, toQ, toP), toP # << >>, Head(toP).op = "STATUS", Once(toP),
         NEW o, o.client = "answered", o.uid = p.uid,
         NEW x \in PacketType, x.op = "CIPHER", x.part = "server", x.to = 0
  PROVE  /\ Dialogue(o, q, toQ \o <<x>>, Tail(toP))
         /\ \A y \in Range(toQ) : y.op # "CIPHER"
<1>1. /\ Head(toP) \in Range(toP) /\ Range(Tail(toP)) \subseteq Range(toP)
      /\ \A y \in Range(Tail(toP)) : y.op # "STATUS"
      /\ KeysFirst(toP) => KeysFirst(Tail(toP))
  BY AfterHead DEF Steps
<1>2. Range(toQ \o <<x>>) \subseteq Range(toQ) \cup {x}
  BY AfterSend
<1>3. p.client = "sent" /\ q.server = "challenged"
  BY <1>1 DEF Dialogue, Answers
<1>4. \A y \in Range(toQ) : Asks(p, q, y) /\ y.op \notin {"AUTH", "CIPHER"}
  BY <1>3 DEF Dialogue, Asks
<1>5. \A y \in Range(toQ) \cup {x} : Asks(o, q, y)
  BY <1>3, <1>4 DEF Asks, Steps
<1>6. \A y \in Range(Tail(toP)) : Answers(o, q, y)
  BY <1>1, <1>3 DEF Dialogue, Answers
<1>7. KeysFirst(toP)
  BY <1>3 DEF Dialogue
<1> QED BY <1>1, <1>2, <1>3, <1>4, <1>5, <1>6, <1>7 DEF Dialogue

\* The answer is accepted: the keys are sent, and encryption starts.
LEMMA DialogueCipher ==
  ASSUME NEW p, NEW q, NEW toQ \in Seq(PacketType), NEW toP \in Seq(PacketType),
         Dialogue(p, q, toQ, toP), toQ # << >>, Head(toQ).op = "CIPHER", Once(toQ),
         NEW s, s.server = "open", s.uid = q.uid, s.theirClient = p.uid,
         NEW x \in PacketType, x.op = "SERVERKEY", x.part = "client"
  PROVE  /\ Dialogue(p, s, Tail(toQ), toP \o <<x>>)
         /\ \A y \in Range(toP) : y.op # "SERVERKEY"
<1>1. /\ Head(toQ) \in Range(toQ) /\ Range(Tail(toQ)) \subseteq Range(toQ)
      /\ \A y \in Range(Tail(toQ)) : y.op # "CIPHER"
  BY AfterHead DEF Steps
<1>2. /\ Range(toP \o <<x>>) \subseteq Range(toP) \cup {x}
      /\ KeysFirst(toP) => KeysFirst(toP \o <<x>>)
      /\ Has(toP \o <<x>>, "SERVERKEY")
  BY AfterSend DEF Steps
<1>3. p.client = "answered" /\ q.server = "challenged"
  BY <1>1 DEF Dialogue, Asks
<1>4. \A y \in Range(Tail(toQ)) : Asks(p, s, y)
  BY <1>1, <1>3 DEF Dialogue, Asks
<1>5. \A y \in Range(toP) : Answers(p, q, y) /\ y.op # "SERVERKEY"
  BY <1>3 DEF Dialogue, Answers
<1>6. \A y \in Range(toP) \cup {x} : Answers(p, s, y)
  BY <1>3, <1>5 DEF Answers, Steps
<1>7. KeysFirst(toP)
  BY <1>3 DEF Dialogue
<1> QED BY <1>1, <1>2, <1>3, <1>4, <1>5, <1>6, <1>7 DEF Dialogue

\* The keys have come: encryption starts at the other end.
LEMMA DialogueKeys ==
  ASSUME NEW p, NEW q, NEW toQ, NEW toP \in Seq(PacketType),
         Dialogue(p, q, toQ, toP), toP # << >>, Head(toP).op = "SERVERKEY", Once(toP),
         NEW o, o.client = "open", o.uid = p.uid, o.theirServer = q.uid
  PROVE  Dialogue(o, q, toQ, Tail(toP))
<1>1. /\ Head(toP) \in Range(toP) /\ Range(Tail(toP)) \subseteq Range(toP)
      /\ \A y \in Range(Tail(toP)) : y.op # "SERVERKEY"
  BY AfterHead DEF Steps
<1>2. p.client = "answered" /\ q.server = "open"
  BY <1>1 DEF Dialogue, Answers
<1>3. \A y \in Range(toQ) : Asks(o, q, y)
  BY <1>2 DEF Dialogue, Asks
<1>4. \A y \in Range(Tail(toP)) : Answers(o, q, y)
  BY <1>1, <1>2 DEF Dialogue, Answers
<1> QED BY <1>2, <1>3, <1>4 DEF Dialogue


-----------------------------------------------------------------------------
(* A healthy network between nodes that agree: the steps                     *)

\* A node that has a peer uses the connection, and sends on it.
LEMMA CalmCarries ==
  ASSUME Sound, Undisturbed, NEW n \in Nodes, HasPeer(n)
  PROVE  Carried(n) /\ up # {} /\ Connected(n)
<1>1. Connected(n) /\ conns[n] \subseteq up
  BY DEF Undisturbed
<1>2. PICK c : up \subseteq {c} /\ c \in Nat
  BY LinksTyped DEF LinkTypes
<1>3. conns[n] = {c} /\ up = {c}
  BY <1>1, <1>2 DEF Connected
<1>4. Min(conns[n]) = c
  BY <1>2, <1>3 DEF Min
<1> QED BY <1>1, <1>3, <1>4 DEF Carried

\* What node n leaves when it does not hang up.
LEMMA CalmPerform ==
  ASSUME Sound, Undisturbed, NEW n \in Nodes, HasPeer(n), NEW r, NEW in,
         Perform(n, r, in), r.code = "none"
  PROVE  /\ up' = up /\ black' = black /\ peer'[n] = r.p /\ peer'[Other(n)] = peer[Other(n)]
         /\ wire'[n] = in /\ wire'[Other(n)] = wire[Other(n)] \o r.out
<1>1. Other(n) \in Nodes /\ Other(n) # n
  BY TwoNodes
<1>2. up' = up /\ black' = black
  BY DEF Perform, DisconnectPeer, Codes
<1>3. wire'[n] = in /\ wire'[Other(n)] = wire[Other(n)] \o r.out
  BY <1>1, <1>2, CalmCarries DEF Perform
<1>4. peer'[n] = r.p /\ peer'[Other(n)] = peer[Other(n)]
  BY <1>1 DEF Perform, Sound, Types
<1> QED BY <1>2, <1>3, <1>4

\* An object that nothing disturbs.
Settled(p) == /\ ~p.hung /\ p.sending = {} /\ p.server # "accepted" /\ ~p.dead
              /\ p.timer => p.server = "waiting"

LEMMA SettledPeer ==
  ASSUME Undisturbed, NEW n \in Nodes, HasPeer(n)
  PROVE  Settled(peer[n])
  BY DEF Undisturbed, Settled

\* Such a step keeps Calm when it keeps both dialogues.
LEMMA PerformKeepsCalm ==
  ASSUME Sound, Calm, NEW n \in Nodes, HasPeer(n), NEW r, NEW in,
         Perform(n, r, in), r.code = "none", UNCHANGED <<conns, waits>>,
         Settled(r.p), r.p.uid = peer[n].uid, Once(in), Once(wire[Other(n)] \o r.out),
         Dialogue(r.p, peer[Other(n)], wire[Other(n)] \o r.out, in),
         Dialogue(peer[Other(n)], r.p, in, wire[Other(n)] \o r.out)
  PROVE  Calm'
<1> DEFINE m == Other(n)
<1>1. m \in Nodes /\ m # n /\ Other(m) = n /\ Other(n) = m /\ \A k \in Nodes : k = n \/ k = m
  BY TwoNodes
<1>2. /\ up' = up /\ black' = black /\ peer'[n] = r.p /\ peer'[m] = peer[m]
      /\ wire'[n] = in /\ wire'[m] = wire[m] \o r.out
  BY CalmPerform DEF Calm
<1>3. Once(wire[m] \o r.out) /\ Dialogue(r.p, peer[m], wire[m] \o r.out, in)
      /\ Dialogue(peer[m], r.p, in, wire[m] \o r.out)
  OBVIOUS
<1> HIDE DEF m
<1>4. Undisturbed'
  <2>1. ASSUME NEW k \in Nodes
        PROVE  /\ black'[k] = "none" /\ waits'[k].store = 0 /\ waits'[k].hangUp = 0
               /\ ~peer'[k].hung /\ peer'[k].sending = {} /\ peer'[k].server # "accepted"
               /\ peer'[k].dead => ~HasPeer(k)'
               /\ conns'[k] \subseteq up'
               /\ HasPeer(k)' \/ waits'[k].identify > 0 => Connected(k)'
               /\ up' # {} => HasPeer(k)' \/ waits'[k].identify > 0 \/ ~Connected(k)'
               /\ peer'[k].timer => peer'[k].server = "waiting"
    <3>1. peer'[k].uid = peer[k].uid
      BY <1>1, <1>2
    <3>2. HasPeer(k)' <=> HasPeer(k)
      BY <3>1 DEF HasPeer
    <3>3. Connected(k)' <=> Connected(k)
      BY <1>2 DEF Connected
    <3>4. CASE k = n
      BY <1>2, <3>2, <3>3, <3>4 DEF Calm, Undisturbed, Settled
    <3>5. CASE k = m
      BY <1>2, <3>2, <3>3, <3>5 DEF Calm, Undisturbed
    <3> QED BY <1>1, <3>4, <3>5
  <2> QED BY <2>1 DEF Undisturbed
<1>5. \A k \in Nodes : Once(wire'[k])
  BY <1>1, <1>2, <1>3
<1>6. \A k \in Nodes : Dialogue(peer'[k], peer'[Other(k)], wire'[Other(k)], wire'[k])
  BY <1>1, <1>2, <1>3
<1> QED BY <1>4, <1>5, <1>6 DEF Calm, Once, Dialogue, Asks, Answers, Has, KeysFirst

\* What the parts send one another once they are open fits both dialogues.
LEMMA SessionPacket ==
  ASSUME NEW p \in PeerType, NEW q, NEW toQ, NEW toP,
         Dialogue(p, q, toQ, toP), Dialogue(q, p, toP, toQ), NEW op
  PROVE  /\ op \in FromClient /\ p.client = "open" =>
              LET x == ToServer(p, op) IN
              x \in PacketType /\ x.op \notin Steps /\ Asks(p, q, x) /\ Answers(q, p, x)
         /\ op \in FromServer /\ p.server = "open" =>
              LET x == ToClient(p, op) IN
              x \in PacketType /\ x.op \notin Steps /\ Asks(p, q, x) /\ Answers(q, p, x)
<1>1. (FromClient \cup FromServer) \cap Steps = {} /\ FromClient \cup FromServer \subseteq Session
  BY DEF FromClient, FromServer, Steps, Session
<1>2. ASSUME op \in FromClient, p.client = "open"
      PROVE  LET x == ToServer(p, op) IN
              x \in PacketType /\ x.op \notin Steps /\ Asks(p, q, x) /\ Answers(q, p, x)
  <2> DEFINE x == ToServer(p, op)
  <2>1. x \in PacketType /\ x.op = op
    BY <1>1, <1>2, Packets
  <2>2. x.part = "server" /\ x.to = p.theirServer
    BY <1>2 DEF ToServer
  <2>3. p.theirServer = q.uid
    BY <1>2 DEF Dialogue
  <2> HIDE DEF x
  <2>4. x.op \notin Steps /\ Asks(p, q, x) /\ Answers(q, p, x)
    BY <1>1, <1>2, <2>1, <2>2, <2>3 DEF Asks, Answers, Steps
  <2> QED BY <2>1, <2>4 DEF x
<1>3. ASSUME op \in FromServer, p.server = "open"
      PROVE  LET x == ToClient(p, op) IN
              x \in PacketType /\ x.op \notin Steps /\ Asks(p, q, x) /\ Answers(q, p, x)
  <2> DEFINE x == ToClient(p, op)
  <2>1. x \in PacketType /\ x.op = op
    BY <1>1, <1>3, Packets
  <2>2. x.part = "client" /\ x.to = p.theirClient
    BY <1>3 DEF ToClient
  <2>3. p.theirClient = q.uid
    BY <1>3 DEF Dialogue
  <2> HIDE DEF x
  <2>4. x.op \notin Steps /\ Asks(p, q, x) /\ Answers(q, p, x)
    BY <1>1, <1>3, <2>1, <2>2, <2>3 DEF Asks, Answers, Steps
  <2> QED BY <2>1, <2>4 DEF x
<1> QED BY <1>2, <1>3

\* A packet sent, the dialogues and Once kept.
LEMMA Say ==
  ASSUME NEW p, NEW q, NEW toQ \in Seq(PacketType), NEW toP,
         Dialogue(p, q, toQ, toP), Dialogue(q, p, toP, toQ), Once(toQ),
         NEW x \in PacketType, Asks(p, q, x), Answers(q, p, x),
         x.op \in Steps => \A y \in Range(toQ) : y.op # x.op
  PROVE  /\ toQ \o <<x>> \in Seq(PacketType) /\ Once(toQ \o <<x>>)
         /\ Dialogue(p, q, toQ \o <<x>>, toP) /\ Dialogue(q, p, toP, toQ \o <<x>>)
  BY AfterSend, SentToServer, SentToClient

\* A packet that is no step of a handshake read, likewise.
LEMMA Read ==
  ASSUME NEW p, NEW q, NEW toQ, NEW toP \in Seq(PacketType), toP # << >>,
         Dialogue(p, q, toQ, toP), Dialogue(q, p, toP, toQ), Once(toP),
         Head(toP).op \notin Steps
  PROVE  /\ Tail(toP) \in Seq(PacketType) /\ Once(Tail(toP))
         /\ Dialogue(p, q, toQ, Tail(toP)) /\ Dialogue(q, p, Tail(toP), toQ)
<1>1. Head(toP).op # "AUTH" /\ Head(toP).op # "SERVERKEY"
  BY DEF Steps
<1> QED BY <1>1, AfterHead, ReadByServer, ReadByClient


\* The two dialogues of a node.
LEMMA TwoDialogues ==
  ASSUME Sound, Calm, NEW n \in Nodes
  PROVE  /\ Dialogue(peer[n], peer[Other(n)], wire[Other(n)], wire[n])
         /\ Dialogue(peer[Other(n)], peer[n], wire[n], wire[Other(n)])
         /\ Once(wire[n]) /\ Once(wire[Other(n)])
         /\ wire[n] \in Seq(PacketType) /\ wire[Other(n)] \in Seq(PacketType)
         /\ peer[n] \in PeerType /\ peer[Other(n)] \in PeerType
<1>1. Other(n) \in Nodes /\ Other(Other(n)) = n
  BY TwoNodes
<1>2. Dialogue(peer[Other(n)], peer[Other(Other(n))], wire[Other(Other(n))], wire[Other(n)])
  BY <1>1 DEF Calm
<1> QED BY <1>1, <1>2 DEF Calm, Sound, Types

LEMMA LoginKeepsCalm ==
  ASSUME Sound, Calm, NEW n \in Nodes, Login(n)
  PROVE  Calm'
<1> DEFINE p == peer[n]
           q == peer[Other(n)]
           o == [p EXCEPT !.client = "sent"]
           x == ToServer(p, "AUTH")
           r == Result(o, "none", <<x>>)
           toQ == wire[Other(n)]
           toP == wire[n]
<1>1. HasPeer(n) /\ p \in PeerType /\ p.client = "asleep"
  BY AliveIsThere DEF Login
<1>2. Settled(p)
  BY <1>1, SettledPeer DEF Calm
<1>3. /\ Dialogue(p, q, toQ, toP) /\ Dialogue(q, p, toP, toQ) /\ Once(toQ) /\ Once(toP)
      /\ toQ \in Seq(PacketType) /\ toP \in Seq(PacketType)
  BY TwoDialogues
<1>4. Perform(n, r, toP) /\ UNCHANGED <<conns, waits>>
  BY DEF Login
<1>5. r.p = o /\ r.code = "none" /\ r.out = <<x>>
  BY DEF Result
<1>6. x \in PacketType /\ x.op = "AUTH" /\ x.part = "server" /\ x.to = 0
  BY <1>1 DEF ToServer, Handshake, PeerType, PacketType
<1>7. /\ o.client = "sent" /\ o.uid = p.uid /\ o.server = p.server /\ o.theirClient = p.theirClient
      /\ Settled(o)
  BY <1>1, <1>2 DEF Settled, PeerType
<1> HIDE DEF p, q, o, x, r, toQ, toP
<1>8. Dialogue(o, q, toQ \o <<x>>, toP) /\ \A y \in Range(toQ) : y.op # "AUTH"
  BY <1>1, <1>3, <1>6, <1>7, DialogueLogin
<1>9. Dialogue(q, o, toP, toQ)
  BY <1>3, <1>7, OtherParts
<1>10. Answers(q, o, x)
  BY <1>6 DEF Answers
<1>11. Dialogue(q, o, toP, toQ \o <<x>>)
  BY <1>3, <1>6, <1>9, <1>10, SentToClient
<1>12. Once(toQ \o <<x>>)
  BY <1>3, <1>6, <1>8, AfterSend
<1> QED BY <1>1, <1>3, <1>4, <1>5, <1>7, <1>8, <1>11, <1>12, PerformKeepsCalm DEF p, q, toQ, toP

LEMMA TalkKeepsCalm ==
  ASSUME Sound, Calm, NEW n \in Nodes, Talk(n)
  PROVE  Calm'
<1> DEFINE p == peer[n]
           q == peer[Other(n)]
           toQ == wire[Other(n)]
           toP == wire[n]
<1>1. HasPeer(n) /\ p.client = "open" /\ p.server = "open" /\ UNCHANGED <<conns, waits>>
  BY DEF Talk, Authenticated
<1>2. Settled(p)
  BY <1>1, SettledPeer DEF Calm
<1>3. /\ Dialogue(p, q, toQ, toP) /\ Dialogue(q, p, toP, toQ) /\ Once(toQ) /\ Once(toP)
      /\ toQ \in Seq(PacketType) /\ toP \in Seq(PacketType) /\ p \in PeerType
  BY TwoDialogues
<1>4. PICK x \in {ToServer(p, op) : op \in {"DISCOVER", "TX"}} \cup {ToClient(p, "SYNC")} :
           Perform(n, Result(p, "none", <<x>>), toP)
  BY DEF Talk
<1> DEFINE r == Result(p, "none", <<x>>)
<1>5. r.p = p /\ r.code = "none" /\ r.out = <<x>> /\ Perform(n, r, toP)
  BY <1>4 DEF Result
<1> HIDE DEF p, q, r, toQ, toP
<1>6. {"DISCOVER", "TX"} \subseteq FromClient /\ "SYNC" \in FromServer
  BY DEF FromClient, FromServer
<1>7. x \in PacketType /\ x.op \notin Steps /\ Asks(p, q, x) /\ Answers(q, p, x)
  BY <1>1, <1>3, <1>4, <1>6, SessionPacket
<1>8. /\ Once(toQ \o <<x>>)
      /\ Dialogue(p, q, toQ \o <<x>>, toP) /\ Dialogue(q, p, toP, toQ \o <<x>>)
  BY <1>3, <1>7, Say
<1> QED BY <1>1, <1>2, <1>3, <1>5, <1>8, PerformKeepsCalm DEF p, q, toQ, toP

\* An authentication that is awaited is still to come: a timeout is a trouble.
LEMMA TimeoutIsTrouble ==
  ASSUME Sound, Calm, NEW n \in Nodes, TimeoutAuth(n)
  PROVE  ~healthy'
<1> DEFINE m == Other(n)
           p == peer[n]
           q == peer[m]
<1>1. m \in Nodes /\ m # n
  BY TwoNodes
<1>2. HasPeer(n) /\ p.timer
  BY AliveIsThere DEF TimeoutAuth
<1>3. p.server = "waiting" /\ up # {}
  BY <1>2, CalmCarries DEF Calm, Undisturbed
<1>4. Dialogue(q, p, wire[n], wire[m]) /\ q \in PeerType
  BY TwoDialogues
<1>5. CASE q.client = "asleep" /\ ~q.dead
  BY <1>3, <1>5 DEF TimeoutAuth, Expected
<1>6. CASE q.client = "asleep" /\ q.dead
  <2>1. waits[m].identify > 0 \/ ~Connected(m)
    BY <1>1, <1>3, <1>6 DEF Calm, Undisturbed
  <2>2. ~Connected(m) => last.conn \notin conns[m]
    BY <1>3, LinksTyped DEF Connected, LinkTypes
  <2> QED BY <1>3, <2>1, <2>2 DEF TimeoutAuth, Expected
<1>7. CASE q.client = "sent"
  BY <1>3, <1>4, <1>7 DEF Dialogue, Has, TimeoutAuth, Expected
<1>8. CASE q.client \in {"answered", "open"}
  BY <1>3, <1>4, <1>8 DEF Dialogue
<1> QED BY <1>4, <1>5, <1>6, <1>7, <1>8 DEF PeerType


\* A packet on the wire can be decrypted and has an opcode of its time.
LEMMA Understood ==
  ASSUME NEW p \in PeerType, NEW q, NEW toQ, NEW toP \in Seq(PacketType), toP # << >>,
         Dialogue(p, q, toQ, toP), Dialogue(q, p, toP, toQ), Head(toP).from = q.uid
  PROVE  LET x == Head(toP) IN
         /\ Decrypt(p, x) /\ x.op \in Opcodes(p, x)
         /\ x.op \in Steps \/ (x.op \in FromClient /\ p.server = "open")
                           \/ (x.op \in FromServer /\ p.client = "open")
<1> DEFINE x == Head(toP)
<1>1. x \in Range(toP) /\ x \in PacketType
  BY Members
<1>2. Answers(p, q, x) /\ Asks(q, p, x)
  BY <1>1 DEF Dialogue
<1>3. p.client # "open" => ~(x.part = "client" /\ x.op \notin Steps)
  BY AfterHead DEF Dialogue
<1> HIDE DEF x
<1>4. CASE x.op \in Steps
  <2>1. x.to = 0 /\ x.op \in Handshake
    BY <1>2, <1>4 DEF Asks, Steps, Handshake
  <2>2. x.part = "server" => p.server # "open"
    BY <1>2, <1>4 DEF Asks, Answers, Steps
  <2>3. x.part # "server" => p.client # "open"
    BY <1>2, <1>4 DEF Asks, Answers, Steps
  <2> QED BY <1>4, <2>1, <2>2, <2>3 DEF Decrypt, DecryptByServer, DecryptByClient, Opcodes, x
<1>5. CASE x.op \notin Steps /\ x.part = "server"
  <2>1. q.client = "open" /\ x.to = p.uid /\ x.op \in FromClient
    BY <1>2, <1>5 DEF Asks
  <2>2. p.server = "open" /\ p.theirClient = q.uid
    BY <2>1 DEF Dialogue
  <2>3. x.op \in Session
    BY <2>1 DEF FromClient, Session
  <2> QED BY <1>5, <2>1, <2>2, <2>3 DEF Decrypt, DecryptByServer, Opcodes, x
<1>6. CASE x.op \notin Steps /\ x.part = "client"
  <2>1. p.client = "open" /\ x.to = p.uid /\ x.op \in FromServer
    BY <1>2, <1>3, <1>6 DEF Answers
  <2>2. p.theirServer = q.uid
    BY <2>1 DEF Dialogue
  <2>3. x.op \in Session
    BY <2>1 DEF FromServer, Session
  <2> QED BY <1>6, <2>1, <2>2, <2>3 DEF Decrypt, DecryptByClient, Opcodes, x
<1> QED BY <1>1, <1>4, <1>5, <1>6 DEF PacketType

\* onAuth fits the dialogues.
LEMMA OnAuthFits ==
  ASSUME NEW p \in PeerType, NEW q, NEW toQ \in Seq(PacketType), NEW toP,
         Dialogue(p, q, toQ, toP), Dialogue(q, p, toP, toQ), Once(toQ)
  PROVE  /\ OnAuth(p) \in Seq(PacketType) /\ Once(toQ \o OnAuth(p))
         /\ Dialogue(p, q, toQ \o OnAuth(p), toP) /\ Dialogue(q, p, toP, toQ \o OnAuth(p))
<1>1. CASE ~Authenticated(p)
  <2>1. OnAuth(p) = << >> /\ toQ \o << >> = toQ /\ << >> \in Seq(PacketType)
    BY <1>1 DEF OnAuth
  <2> QED BY <2>1
<1>2. CASE Authenticated(p)
  <2> DEFINE x == ToServer(p, "DISCOVER")
  <2>1. "DISCOVER" \in FromClient /\ p.client = "open" /\ OnAuth(p) = <<x>>
    BY <1>2 DEF FromClient, Authenticated, OnAuth
  <2>2. x \in PacketType /\ x.op \notin Steps /\ Asks(p, q, x) /\ Answers(q, p, x)
    BY <2>1, SessionPacket
  <2>3. <<x>> \in Seq(PacketType)
    BY <2>2, OneMember
  <2> HIDE DEF x
  <2> QED BY <2>1, <2>2, <2>3, Say
<1> QED BY <1>1, <1>2

\* On a healthy network a message is handled and what follows a send follows at once.
LEMMA CalmReceive ==
  ASSUME Sound, Calm, NEW n \in Nodes, Receive(n), healthy'
  PROVE  LET p == peer[n] x == Head(wire[n]) IN
         /\ HasPeer(n) /\ UNCHANGED <<conns, waits>> /\ Settled(p)
         /\ wire[n] # << >> /\ x \in Range(wire[n]) /\ x \in PacketType
         /\ x.from = peer[Other(n)].uid
         /\ x.op \in Steps \/ (x.op \in FromClient /\ p.server = "open")
                           \/ (x.op \in FromServer /\ p.client = "open")
         /\ \E r : /\ \/ x.op = "AUTH" /\ r = OnAuthenticationMessage(p)
                      \/ x.op = "CIPHER" /\ r = OnClientCipherExchangeMessage(p, x)
                      \/ x.op = "STATUS" /\ r = HandleAuthenticationStatusPacket(p, x)
                      \/ x.op = "SERVERKEY" /\ r = HandleServerCipherExchangePacket(p, x)
                      \/ x.op = "PING" /\ r = OnPingMessage(p)
                      \/ x.op = "DISCOVER" /\ r = OnDiscover(p)
                      \/ x.op = "SYNC" /\ r \in OnSyncBlockHeadersRequest(p)
                      \/ x.op \in {"PONG", "PEERS", "WITNESS", "SYNCREPLY", "TX"} /\ r = Quiet(p)
                   /\ \/ r.p.sending = {} /\ Perform(n, r, Tail(wire[n]))
                      \/ LET s == Sent(r.p, CHOOSE w \in r.p.sending : TRUE) IN
                         /\ r.p.sending # {}
                         /\ Perform(n, Result(s.p, r.code, r.out \o s.out), Tail(wire[n]))
<1> DEFINE p == peer[n]
           q == peer[Other(n)]
           x == Head(wire[n])
<1>1. HasPeer(n) /\ UNCHANGED <<conns, waits>> /\ wire[n] # << >>
  BY DEF Receive
<1>2. Settled(p)
  BY <1>1, SettledPeer DEF Calm
<1>3. /\ Dialogue(p, q, wire[Other(n)], wire[n]) /\ Dialogue(q, p, wire[n], wire[Other(n)])
      /\ wire[n] \in Seq(PacketType) /\ p \in PeerType
  BY TwoDialogues
<1>4. x \in Range(wire[n]) /\ x \in PacketType
  BY <1>1, <1>3, Members
<1>5. x.from = q.uid
  <2>1. Other(n) \in Nodes /\ Other(Other(n)) = n
    BY TwoNodes
  <2> QED BY <1>4, <2>1 DEF Sound, Fresh
<1>6. /\ Decrypt(p, x) /\ x.op \in Opcodes(p, x)
      /\ x.op \in Steps \/ (x.op \in FromClient /\ p.server = "open")
                        \/ (x.op \in FromServer /\ p.client = "open")
  BY <1>1, <1>3, <1>5, Understood
<1>7. PICK r \in OnMessage(p, x) :
        LET new == r.p.sending \ p.sending IN
        \/ new = {} /\ Perform(n, r, Tail(wire[n]))
        \/ /\ new # {}
           /\ LET s == Sent(r.p, CHOOSE w \in new : TRUE)
              IN Perform(n, Result(s.p, r.code, r.out \o s.out), Tail(wire[n]))
  BY DEF Receive
<1>8. ~p.dead /\ p.sending = {} /\ r.p.sending \ p.sending = r.p.sending
  BY <1>2 DEF Settled
<1>9. \/ r.p.sending = {} /\ Perform(n, r, Tail(wire[n]))
      \/ LET s == Sent(r.p, CHOOSE w \in r.p.sending : TRUE) IN
         /\ r.p.sending # {}
         /\ Perform(n, Result(s.p, r.code, r.out \o s.out), Tail(wire[n]))
  BY <1>7, <1>8
<1> HIDE DEF p, q, x
<1>10. \/ x.op = "AUTH" /\ r = OnAuthenticationMessage(p)
       \/ x.op = "CIPHER" /\ r = OnClientCipherExchangeMessage(p, x)
       \/ x.op = "STATUS" /\ r = HandleAuthenticationStatusPacket(p, x)
       \/ x.op = "SERVERKEY" /\ r = HandleServerCipherExchangePacket(p, x)
       \/ x.op = "PING" /\ r = OnPingMessage(p)
       \/ x.op = "DISCOVER" /\ r = OnDiscover(p)
       \/ x.op = "SYNC" /\ r \in OnSyncBlockHeadersRequest(p)
       \/ x.op \in {"PONG", "PEERS", "WITNESS", "SYNCREPLY", "TX"} /\ r = Quiet(p)
  BY <1>6, <1>7, <1>8, Outcomes
<1> QED BY <1>1, <1>2, <1>4, <1>5, <1>6, <1>9, <1>10 DEF p, q, x

LEMMA ReceiveKeepsCalm ==
  ASSUME Sound, Calm, compat = "same", NEW n \in Nodes, Receive(n), healthy'
  PROVE  Calm'
<1> DEFINE p == peer[n]
           q == peer[Other(n)]
           toQ == wire[Other(n)]
           toP == wire[n]
           x == Head(toP)
<1>1. /\ HasPeer(n) /\ UNCHANGED <<conns, waits>> /\ Settled(p)
      /\ toP # << >> /\ x \in Range(toP) /\ x \in PacketType /\ x.from = q.uid
      /\ x.op \in Steps \/ (x.op \in FromClient /\ p.server = "open")
                        \/ (x.op \in FromServer /\ p.client = "open")
  BY CalmReceive
<1>2. /\ Dialogue(p, q, toQ, toP) /\ Dialogue(q, p, toP, toQ) /\ Once(toQ) /\ Once(toP)
      /\ toQ \in Seq(PacketType) /\ toP \in Seq(PacketType) /\ p \in PeerType /\ q \in PeerType
  BY TwoDialogues
<1>3. PICK r :
        /\ \/ x.op = "AUTH" /\ r = OnAuthenticationMessage(p)
           \/ x.op = "CIPHER" /\ r = OnClientCipherExchangeMessage(p, x)
           \/ x.op = "STATUS" /\ r = HandleAuthenticationStatusPacket(p, x)
           \/ x.op = "SERVERKEY" /\ r = HandleServerCipherExchangePacket(p, x)
           \/ x.op = "PING" /\ r = OnPingMessage(p)
           \/ x.op = "DISCOVER" /\ r = OnDiscover(p)
           \/ x.op = "SYNC" /\ r \in OnSyncBlockHeadersRequest(p)
           \/ x.op \in {"PONG", "PEERS", "WITNESS", "SYNCREPLY", "TX"} /\ r = Quiet(p)
        /\ \/ r.p.sending = {} /\ Perform(n, r, Tail(toP))
           \/ LET s == Sent(r.p, CHOOSE w \in r.p.sending : TRUE) IN
              /\ r.p.sending # {}
              /\ Perform(n, Result(s.p, r.code, r.out \o s.out), Tail(toP))
  BY CalmReceive
<1>4. Tail(toP) \in Seq(PacketType) /\ Once(Tail(toP))
  BY <1>1, <1>2, AfterHead
\* A step that keeps both dialogues.
<1>5. ASSUME NEW t, Perform(n, t, Tail(toP)), t.code = "none", Settled(t.p), t.p.uid = p.uid,
             Once(toQ \o t.out), Dialogue(t.p, q, toQ \o t.out, Tail(toP)),
             Dialogue(q, t.p, Tail(toP), toQ \o t.out)
      PROVE  Calm'
  BY <1>1, <1>4, <1>5, PerformKeepsCalm
<1>6. x.op = "CIPHER" => x.arg = p.uid /\ p.server # "waiting"
  BY <1>1 DEF Sound, Answerable
<1>7. x.op = "SERVERKEY" => x.arg = q.uid
  BY <1>1 DEF Sound, Answerable
<1> HIDE DEF p, q, toQ, toP, x
<1>8. CASE x.op = "AUTH"
  <2> DEFINE o == [p EXCEPT !.server = "challenged", !.sending = {"status"}]
             h == [p EXCEPT !.server = "challenged", !.sending = {}, !.timer = FALSE]
             y == [ToClient(p, "STATUS") EXCEPT !.arg = p.uid]
             t == Result(h, "none", <<y>>)
  <2>1. p.server = "waiting" /\ q.client = "sent"
    BY <1>1, <1>2, <1>8 DEF Dialogue, Asks
  <2>2. r = Result(o, "none", <<y>>)
    BY <1>1, <1>2, <1>3, <1>8, <2>1 DEF OnAuthenticationMessage, MayAcceptVersion,
       BadProtocolChecksum, VerifyNetwork, CreateFullAuthentication, Settled, PeerType
  <2>3. r.p = o /\ r.code = "none" /\ r.out = <<y>> /\ o.sending = {"status"}
    BY <1>2, <2>2 DEF Result, PeerType
  <2>4. (CHOOSE w \in o.sending : TRUE) = "status"
    BY <2>3
  <2>5. Sent(o, "status").p = h /\ Sent(o, "status").out = << >>
    BY <1>2, ZenonT(40) DEF Sent, Quiet, Result, PeerType
  <2>6. y \in PacketType /\ y.op = "STATUS" /\ y.part = "client" /\ y.to = 0
    BY <1>2, <2>1 DEF ToClient, Handshake, PeerType, PacketType
  <2>7. <<y>> \o << >> = <<y>>
    BY <2>6, OneMember
  <2>8. /\ h.server = "challenged" /\ h.uid = p.uid /\ h.client = p.client
        /\ h.theirServer = p.theirServer /\ Settled(h)
    BY <1>1, <1>2 DEF Settled, PeerType
  <2> HIDE DEF o, h, y
  <2>9. Perform(n, t, Tail(toP))
    BY <1>3, <2>3, <2>4, <2>5, <2>7
  <2>10. t.p = h /\ t.code = "none" /\ t.out = <<y>>
    BY DEF Result
  <2>11. Dialogue(q, h, Tail(toP), toQ \o <<y>>) /\ \A z \in Range(toQ) : z.op # "STATUS"
    BY <1>1, <1>2, <1>8, <2>6, <2>8, DialogueAuth DEF x
  <2>12. Dialogue(p, q, toQ, Tail(toP))
    BY <1>1, <1>2, <1>8, ReadByClient DEF x
  <2>13. Dialogue(h, q, toQ, Tail(toP))
    BY <2>8, <2>12, OtherParts
  <2>14. Asks(h, q, y)
    BY <2>6 DEF Asks, Steps
  <2>15. Dialogue(h, q, toQ \o <<y>>, Tail(toP)) /\ Once(toQ \o <<y>>)
    BY <1>2, <2>6, <2>11, <2>13, <2>14, SentToServer, AfterSend
  <2> QED BY <1>5, <2>8, <2>9, <2>10, <2>11, <2>15
<1>9. CASE x.op = "CIPHER"
  <2> DEFINE o == [p EXCEPT !.server = "accepted", !.theirClient = x.from, !.sending = {"keys"}]
             h == [p EXCEPT !.server = "open", !.theirClient = q.uid, !.sending = {}]
             y == [ToClient(p, "SERVERKEY") EXCEPT !.arg = p.uid]
             t == Result(h, "none", <<y>> \o OnAuth(h))
  <2>1. p.server = "challenged" /\ q.client = "answered"
    BY <1>1, <1>2, <1>9 DEF Dialogue, Asks
  <2>2. r = Result(o, "none", <<y>>)
    BY <1>1, <1>2, <1>3, <1>6, <1>9, <2>1 DEF OnClientCipherExchangeMessage, VerifySignaturePublicKey,
       VerifyChallenge, SendServerHandshake, Settled, PeerType
  <2>3. r.p = o /\ r.code = "none" /\ r.out = <<y>> /\ o.sending = {"keys"}
    BY <1>2, <2>2 DEF Result, PeerType
  <2>4. (CHOOSE w \in o.sending : TRUE) = "keys"
    BY <2>3
  <2>5. Sent(o, "keys").p = h /\ Sent(o, "keys").out = OnAuth(h)
    BY <1>1, <1>2, ZenonT(40) DEF Sent, Result, PeerType
  <2>6. y \in PacketType /\ y.op = "SERVERKEY" /\ y.part = "client" /\ y.to = 0
    BY <1>2, <2>1 DEF ToClient, Handshake, PeerType, PacketType
  <2>7. /\ h.server = "open" /\ h.uid = p.uid /\ h.client = p.client /\ h.theirClient = q.uid
        /\ h.theirServer = p.theirServer /\ Settled(h) /\ h \in PeerType
    BY <1>1, <1>2, <2>1 DEF Settled, PeerType
  <2> HIDE DEF o, h, y
  <2>8. Perform(n, t, Tail(toP))
    BY <1>3, <2>3, <2>4, <2>5
  <2>9. t.p = h /\ t.code = "none" /\ t.out = <<y>> \o OnAuth(h)
    BY DEF Result
  <2> HIDE DEF t
  <2>10. Dialogue(q, h, Tail(toP), toQ \o <<y>>) /\ \A z \in Range(toQ) : z.op # "SERVERKEY"
    BY <1>1, <1>2, <1>9, <2>6, <2>7, DialogueCipher DEF x
  <2>11. Dialogue(p, q, toQ, Tail(toP))
    BY <1>1, <1>2, <1>9, ReadByClient DEF x
  <2>12. Dialogue(h, q, toQ, Tail(toP))
    BY <2>7, <2>11, OtherParts
  <2>13. Asks(h, q, y)
    BY <2>6 DEF Asks, Steps
  <2>14. /\ Dialogue(h, q, toQ \o <<y>>, Tail(toP)) /\ Once(toQ \o <<y>>)
         /\ toQ \o <<y>> \in Seq(PacketType)
    BY <1>2, <2>6, <2>10, <2>12, <2>13, SentToServer, AfterSend
  <2>15. /\ OnAuth(h) \in Seq(PacketType) /\ Once((toQ \o <<y>>) \o OnAuth(h))
         /\ Dialogue(h, q, (toQ \o <<y>>) \o OnAuth(h), Tail(toP))
         /\ Dialogue(q, h, Tail(toP), (toQ \o <<y>>) \o OnAuth(h))
    BY <2>7, <2>10, <2>14, OnAuthFits
  <2>16. (toQ \o <<y>>) \o OnAuth(h) = toQ \o t.out
    <3>1. <<y>> \in Seq(PacketType)
      BY <2>6, OneMember
    <3> QED BY <1>2, <2>9, <2>15, <3>1, ConcatAssociative
  <2> QED BY <1>5, <2>7, <2>8, <2>9, <2>15, <2>16
<1>10. CASE x.op = "STATUS"
  <2> DEFINE o == [p EXCEPT !.client = "answered"]
             y == [ToServer(p, "CIPHER") EXCEPT !.arg = x.arg]
  <2>1. p.client = "sent" /\ q.server = "challenged"
    BY <1>1, <1>2, <1>10 DEF Dialogue, Answers
  <2>2. r = Result(o, "none", <<y>>)
    BY <1>3, <1>10 DEF HandleAuthenticationStatusPacket
  <2>3. r.p = o /\ r.code = "none" /\ r.out = <<y>> /\ o.sending = {}
    BY <1>1, <1>2, <2>2 DEF Result, PeerType, Settled
  <2>4. y \in PacketType /\ y.op = "CIPHER" /\ y.part = "server" /\ y.to = 0
    BY <1>1, <1>2, <2>1 DEF ToServer, Handshake, PeerType, PacketType
  <2>5. /\ o.server = p.server /\ o.uid = p.uid /\ o.client = "answered"
        /\ o.theirClient = p.theirClient /\ Settled(o)
    BY <1>1, <1>2 DEF Settled, PeerType
  <2> HIDE DEF o, y
  <2>6. Perform(n, r, Tail(toP))
    BY <1>3, <2>3
  <2>7. Dialogue(o, q, toQ \o <<y>>, Tail(toP)) /\ \A z \in Range(toQ) : z.op # "CIPHER"
    BY <1>1, <1>2, <1>10, <2>4, <2>5, DialogueStatus DEF x
  <2>8. Dialogue(q, p, Tail(toP), toQ)
    BY <1>1, <1>2, <1>10, ReadByServer DEF x
  <2>9. Dialogue(q, o, Tail(toP), toQ)
    BY <2>5, <2>8, OtherParts
  <2>10. Answers(q, o, y)
    BY <2>4 DEF Answers
  <2>11. Dialogue(q, o, Tail(toP), toQ \o <<y>>) /\ Once(toQ \o <<y>>)
    BY <1>2, <2>4, <2>7, <2>9, <2>10, SentToClient, AfterSend
  <2> QED BY <1>5, <2>3, <2>5, <2>6, <2>7, <2>11
<1>11. CASE x.op = "SERVERKEY"
  <2> DEFINE o == [p EXCEPT !.client = "open", !.theirServer = x.arg]
             y == ToServer(o, "PING")
  <2>1. p.client = "answered" /\ q.server = "open"
    BY <1>1, <1>2, <1>11 DEF Dialogue, Answers
  <2>2. r = Result(o, "none", <<y>> \o OnAuth(o))
    BY <1>3, <1>11 DEF HandleServerCipherExchangePacket
  <2>3. /\ o.server = p.server /\ o.uid = p.uid /\ o.client = "open" /\ o.theirServer = q.uid
        /\ o.theirClient = p.theirClient /\ Settled(o) /\ o.sending = {} /\ o \in PeerType
    BY <1>1, <1>2, <1>7, <1>11 DEF Settled, PeerType
  <2> HIDE DEF o, y
  <2>4. r.p = o /\ r.code = "none" /\ r.out = <<y>> \o OnAuth(o)
    BY <2>2 DEF Result
  <2>5. Perform(n, r, Tail(toP))
    BY <1>3, <2>3, <2>4
  <2>6. Dialogue(o, q, toQ, Tail(toP))
    BY <1>1, <1>2, <1>11, <2>3, DialogueKeys DEF x
  <2>7. Dialogue(q, p, Tail(toP), toQ)
    BY <1>1, <1>2, <1>11, ReadByServer DEF x
  <2>8. Dialogue(q, o, Tail(toP), toQ)
    BY <2>3, <2>7, OtherParts
  <2>9. y \in PacketType /\ y.op \notin Steps /\ Asks(o, q, y) /\ Answers(q, o, y)
    <3>1. "PING" \in FromClient
      BY DEF FromClient
    <3> QED BY <2>3, <2>6, <2>8, <3>1, SessionPacket DEF y
  <2>10. /\ toQ \o <<y>> \in Seq(PacketType) /\ Once(toQ \o <<y>>)
         /\ Dialogue(o, q, toQ \o <<y>>, Tail(toP)) /\ Dialogue(q, o, Tail(toP), toQ \o <<y>>)
    BY <1>2, <2>6, <2>8, <2>9, Say
  <2>11. /\ OnAuth(o) \in Seq(PacketType) /\ Once((toQ \o <<y>>) \o OnAuth(o))
         /\ Dialogue(o, q, (toQ \o <<y>>) \o OnAuth(o), Tail(toP))
         /\ Dialogue(q, o, Tail(toP), (toQ \o <<y>>) \o OnAuth(o))
    BY <2>3, <2>10, OnAuthFits
  <2>12. (toQ \o <<y>>) \o OnAuth(o) = toQ \o r.out
    <3>1. <<y>> \in Seq(PacketType)
      BY <2>9, OneMember
    <3> QED BY <1>2, <2>4, <2>11, <3>1, ConcatAssociative
  <2> QED BY <1>5, <2>3, <2>4, <2>5, <2>11, <2>12
<1>12. CASE x.op \notin Steps
  <2>1. /\ Dialogue(p, q, toQ, Tail(toP)) /\ Dialogue(q, p, Tail(toP), toQ)
    BY <1>1, <1>2, <1>12, Read DEF x
  <2>2. CASE r = Quiet(p)
    <3>1. r.p = p /\ r.code = "none" /\ r.out = << >> /\ toQ \o << >> = toQ
      BY <1>2, <2>2 DEF Quiet, Result
    <3>2. Perform(n, r, Tail(toP))
      BY <1>1, <1>3, <3>1 DEF Settled
    <3> QED BY <1>1, <1>2, <1>5, <2>1, <3>1, <3>2
  <2>3. ASSUME NEW y \in PacketType, y.op \notin Steps, Asks(p, q, y), Answers(q, p, y),
               r = Result(p, "none", <<y>>)
        PROVE  Calm'
    <3>1. r.p = p /\ r.code = "none" /\ r.out = <<y>>
      BY <2>3 DEF Result
    <3>2. Perform(n, r, Tail(toP))
      BY <1>1, <1>3, <3>1 DEF Settled
    <3>3. /\ Once(toQ \o <<y>>)
          /\ Dialogue(p, q, toQ \o <<y>>, Tail(toP)) /\ Dialogue(q, p, Tail(toP), toQ \o <<y>>)
      BY <1>2, <2>1, <2>3, Say
    <3> QED BY <1>1, <1>5, <3>1, <3>2, <3>3
  <2>4. CASE x.op \in {"PING", "DISCOVER"} /\ r \in {OnPingMessage(p), OnDiscover(p)}
    <3>1. x.op \in FromClient /\ x.op \notin FromServer /\ {"PONG", "PEERS"} \subseteq FromServer
      BY <2>4 DEF FromClient, FromServer
    <3>2. p.server = "open"
      BY <1>1, <1>12, <3>1
    <3>3. PICK op \in {"PONG", "PEERS"} : r = Result(p, "none", <<ToClient(p, op)>>)
      BY <2>4 DEF OnPingMessage, OnDiscover
    <3>4. /\ ToClient(p, op) \in PacketType /\ ToClient(p, op).op \notin Steps
          /\ Asks(p, q, ToClient(p, op)) /\ Answers(q, p, ToClient(p, op))
      BY <1>2, <3>1, <3>2, <3>3, SessionPacket
    <3> QED BY <2>3, <3>3, <3>4
  <2>5. CASE x.op = "SYNC" /\ r = Result(p, "none", <<ToServer(p, "SYNCREPLY")>>)
    <3>1. x.op \notin FromClient /\ "SYNCREPLY" \in FromClient
      BY <2>5 DEF FromClient
    <3>2. p.client = "open"
      BY <1>1, <1>12, <3>1
    <3>3. /\ ToServer(p, "SYNCREPLY") \in PacketType /\ ToServer(p, "SYNCREPLY").op \notin Steps
          /\ Asks(p, q, ToServer(p, "SYNCREPLY")) /\ Answers(q, p, ToServer(p, "SYNCREPLY"))
      BY <1>2, <3>1, <3>2, SessionPacket
    <3> QED BY <2>3, <2>5, <3>3
  <2> QED BY <1>3, <1>12, <2>2, <2>4, <2>5 DEF Steps, OnSyncBlockHeadersRequest
<1> QED BY <1>8, <1>9, <1>10, <1>11, <1>12 DEF Steps


\* A step that leaves the wire alone and at most makes an object where there is
\* none keeps the dialogues.
LEMMA LinkKeepsDialogues ==
  ASSUME Sound, Calm, NEW n \in Nodes, CreatePeer(n) \/ UNCHANGED peer, UNCHANGED wire
  PROVE  /\ \A k \in Nodes : Once(wire'[k])
         /\ \A k \in Nodes : Dialogue(peer'[k], peer'[Other(k)], wire'[Other(k)], wire'[k])
         /\ \A k \in Nodes : peer'[k] = peer[k] \/ (k = n /\ peer'[k] = NewPeer(made[n] + 1))
<1> DEFINE m == Other(n)
<1>1. m \in Nodes /\ m # n /\ Other(m) = n /\ Other(n) = m /\ \A k \in Nodes : k = n \/ k = m
  BY TwoNodes
<1>2. peer \in [Nodes -> PeerType] /\ wire' = wire
  BY DEF Sound, Types
<1>3. CASE UNCHANGED peer
  BY <1>2, <1>3 DEF Calm
<1>4. CASE ~HasPeer(n) /\ peer' = [peer EXCEPT ![n] = NewPeer(made[n] + 1)]
  <2> DEFINE o == NewPeer(made[n] + 1)
  <2>1. peer'[n] = o /\ peer'[m] = peer[m]
    BY <1>1, <1>2, <1>4
  <2>2. peer[n] = NoPeer
    BY <1>4 DEF Sound, Numbered, HasPeer
  <2>3. /\ peer[n].client = "asleep" /\ peer[n].server = "waiting"
        /\ o.client = "asleep" /\ o.server = "waiting"
    BY <2>2 DEF NoPeer, NewPeer
  <2>4. Dialogue(peer[n], peer[m], wire[m], wire[n]) /\ Dialogue(peer[m], peer[n], wire[n], wire[m])
    BY TwoDialogues
  <2> HIDE DEF o, m
  <2>5. Dialogue(o, peer[m], wire[m], wire[n]) /\ Dialogue(peer[m], o, wire[n], wire[m])
    BY <2>3, <2>4, DialogueBegins
  <2>6. \A k \in Nodes : Dialogue(peer'[k], peer'[Other(k)], wire'[Other(k)], wire'[k])
    BY <1>1, <1>2, <2>1, <2>5
  <2>7. \A k \in Nodes : Once(wire'[k])
    BY <1>2 DEF Calm
  <2> QED BY <1>1, <2>1, <2>6, <2>7 DEF o
<1> QED BY <1>3, <1>4 DEF CreatePeer

\* With Undisturbed it keeps Calm.
LEMMA LinkKeepsCalm ==
  ASSUME Sound, Calm, NEW n \in Nodes, CreatePeer(n) \/ UNCHANGED peer, UNCHANGED wire,
         Undisturbed'
  PROVE  Calm'
<1>1. /\ \A k \in Nodes : Once(wire'[k])
      /\ \A k \in Nodes : Dialogue(peer'[k], peer'[Other(k)], wire'[Other(k)], wire'[k])
  BY LinkKeepsDialogues
<1> QED BY <1>1 DEF Calm, Once, Dialogue, Asks, Answers, Has, KeysFirst

\* What Undisturbed says of node k after a step, the object of k being old or new.
LEMMA UndisturbedAt ==
  ASSUME Sound, Undisturbed, NEW k \in Nodes, NEW u \in Nat, UNCHANGED black,
         peer'[k] = peer[k] \/ peer'[k] = NewPeer(u + 1),
         waits'[k].store = waits[k].store, waits'[k].hangUp = waits[k].hangUp
  PROVE  /\ black'[k] = "none" /\ waits'[k].store = 0 /\ waits'[k].hangUp = 0
         /\ ~peer'[k].hung /\ peer'[k].sending = {} /\ peer'[k].server # "accepted"
         /\ peer'[k].dead => ~HasPeer(k)'
         /\ peer'[k].timer => peer'[k].server = "waiting"
         /\ HasPeer(k) => HasPeer(k)'
         /\ HasPeer(k)' => HasPeer(k) \/ peer'[k] = NewPeer(u + 1)
<1>1. /\ black[k] = "none" /\ waits[k].store = 0 /\ waits[k].hangUp = 0
      /\ ~peer[k].hung /\ peer[k].sending = {} /\ peer[k].server # "accepted"
      /\ peer[k].dead => ~HasPeer(k)
      /\ peer[k].timer => peer[k].server = "waiting"
  BY DEF Undisturbed
<1>2. CASE peer'[k] = peer[k]
  BY <1>1, <1>2 DEF HasPeer
<1>3. CASE peer'[k] = NewPeer(u + 1)
  <2>1. u + 1 # 0
    OBVIOUS
  <2> QED BY <1>1, <1>3, <2>1 DEF HasPeer, NewPeer
<1> QED BY <1>2, <1>3

LEMMA IdentifiedKeepsCalm ==
  ASSUME Sound, Calm, NEW n \in Nodes, Identified(n), healthy'
  PROVE  Calm'
<1>1. /\ CreatePeer(n) /\ UNCHANGED <<up, black, wire, conns>> /\ waits[n].identify > 0
      /\ waits' = [waits EXCEPT ![n].identify = waits[n].identify - 1]
  BY DEF Identified
<1>2. made[n] \in Nat
  BY DEF Sound, Types
<1>3. \A k \in Nodes : peer'[k] = peer[k] \/ (k = n /\ peer'[k] = NewPeer(made[n] + 1))
  BY <1>1, LinkKeepsDialogues
<1>4. HasPeer(n)'
  <2>1. CASE HasPeer(n)
    BY <1>1, <2>1 DEF CreatePeer, HasPeer
  <2>2. CASE ~HasPeer(n)
    <3>1. peer'[n] = NewPeer(made[n] + 1)
      BY <1>1, <2>2 DEF CreatePeer, Sound, Types
    <3> QED BY <1>2, <3>1 DEF NewPeer, HasPeer
  <2> QED BY <2>1, <2>2
<1>5. /\ \A k \in Nodes : waits'[k].store = waits[k].store /\ waits'[k].hangUp = waits[k].hangUp
      /\ \A k \in Nodes : k # n => waits'[k].identify = waits[k].identify
  BY <1>1, LinksTyped DEF LinkTypes
<1>6. \A k \in Nodes : Connected(k)' <=> Connected(k)
  BY <1>1 DEF Connected
<1>7. Undisturbed'
  <2>1. ASSUME NEW k \in Nodes
        PROVE  /\ black'[k] = "none" /\ waits'[k].store = 0 /\ waits'[k].hangUp = 0
               /\ ~peer'[k].hung /\ peer'[k].sending = {} /\ peer'[k].server # "accepted"
               /\ peer'[k].dead => ~HasPeer(k)'
               /\ conns'[k] \subseteq up'
               /\ HasPeer(k)' \/ waits'[k].identify > 0 => Connected(k)'
               /\ up' # {} => HasPeer(k)' \/ waits'[k].identify > 0 \/ ~Connected(k)'
               /\ peer'[k].timer => peer'[k].server = "waiting"
    <3>1. /\ black'[k] = "none" /\ waits'[k].store = 0 /\ waits'[k].hangUp = 0
          /\ ~peer'[k].hung /\ peer'[k].sending = {} /\ peer'[k].server # "accepted"
          /\ peer'[k].dead => ~HasPeer(k)'
          /\ peer'[k].timer => peer'[k].server = "waiting"
      BY <1>1, <1>2, <1>3, <1>5, UndisturbedAt DEF Calm
    <3>2. CASE k = n
      BY <1>1, <1>4, <1>6, <3>1, <3>2 DEF Calm, Undisturbed
    <3>3. CASE k # n
      <4>1. peer'[k] = peer[k]
        BY <1>3, <3>3
      <4>2. HasPeer(k)' <=> HasPeer(k)
        BY <4>1 DEF HasPeer
      <4> QED BY <1>1, <1>5, <1>6, <3>1, <3>3, <4>2 DEF Calm, Undisturbed
    <3> QED BY <3>2, <3>3
  <2> QED BY <2>1 DEF Undisturbed
<1> QED BY <1>1, <1>7, LinkKeepsCalm

LEMMA DialKeepsCalm ==
  ASSUME Sound, Calm, NEW n \in Nodes, Dial(n)
  PROVE  Calm'
<1>1. /\ up = {} /\ up' = {last.conn + 1} /\ conns' = [conns EXCEPT ![n] = {last.conn + 1}]
      /\ UNCHANGED <<black, wire>> /\ OnPeerConnect(n, FALSE)
  BY DEF Dial
<1>2. \A k \in Nodes : ~HasPeer(k) /\ ~(waits[k].identify > 0) /\ conns[k] = {}
  BY <1>1 DEF Calm, Undisturbed, Connected
<1>3. CreatePeer(n) /\ UNCHANGED waits
  BY <1>1, <1>2 DEF OnPeerConnect
<1>4. made[n] \in Nat /\ peer \in [Nodes -> PeerType]
  BY DEF Sound, Types
<1>5. peer' = [peer EXCEPT ![n] = NewPeer(made[n] + 1)]
  BY <1>2, <1>3 DEF CreatePeer
<1>6. /\ \A k \in Nodes : k # n => peer'[k] = peer[k] /\ conns'[k] = {}
      /\ peer'[n] = NewPeer(made[n] + 1) /\ conns'[n] = up' /\ up' # {}
  BY <1>1, <1>2, <1>4, <1>5, LinksTyped DEF LinkTypes
<1>7. HasPeer(n)'
  BY <1>4, <1>6 DEF HasPeer, NewPeer
<1>8. Undisturbed'
  <2>1. ASSUME NEW k \in Nodes
        PROVE  /\ black'[k] = "none" /\ waits'[k].store = 0 /\ waits'[k].hangUp = 0
               /\ ~peer'[k].hung /\ peer'[k].sending = {} /\ peer'[k].server # "accepted"
               /\ peer'[k].dead => ~HasPeer(k)'
               /\ conns'[k] \subseteq up'
               /\ HasPeer(k)' \/ waits'[k].identify > 0 => Connected(k)'
               /\ up' # {} => HasPeer(k)' \/ waits'[k].identify > 0 \/ ~Connected(k)'
               /\ peer'[k].timer => peer'[k].server = "waiting"
    <3>1. /\ black'[k] = "none" /\ waits'[k].store = 0 /\ waits'[k].hangUp = 0
          /\ ~peer'[k].hung /\ peer'[k].sending = {} /\ peer'[k].server # "accepted"
          /\ peer'[k].dead => ~HasPeer(k)'
          /\ peer'[k].timer => peer'[k].server = "waiting"
      BY <1>1, <1>3, <1>4, <1>6, UndisturbedAt DEF Calm
    <3>2. CASE k = n
      <4>1. Connected(k)'
        BY <1>6, <3>2 DEF Connected
      <4> QED BY <1>6, <1>7, <3>1, <3>2, <4>1
    <3>3. CASE k # n
      <4>1. ~HasPeer(k)' /\ conns'[k] = {} /\ waits' = waits
        BY <1>2, <1>3, <1>6, <3>3 DEF HasPeer
      <4>2. ~Connected(k)'
        BY <4>1 DEF Connected
      <4> QED BY <1>2, <3>1, <4>1, <4>2
    <3> QED BY <3>2, <3>3
  <2> QED BY <2>1 DEF Undisturbed
<1> QED BY <1>1, <1>3, <1>8, LinkKeepsCalm

LEMMA IncomingKeepsCalm ==
  ASSUME Sound, Calm, NEW n \in Nodes, Incoming(n), healthy'
  PROVE  Calm'
<1>1. /\ up = {last.conn} /\ conns[n] = {} /\ ~IsBlackListedPeerId(n)
  BY DEF Incoming, Calm, Undisturbed, IsBlackListedPeerId
<1>2. ~HasPeer(n)
  BY <1>1 DEF Calm, Undisturbed, Connected
<1>3. /\ conns' = [conns EXCEPT ![n] = conns[n] \cup up] /\ UNCHANGED <<up, wire, black, peer>>
      /\ waits' = [waits EXCEPT ![n].identify = waits[n].identify + 1]
  BY <1>1, <1>2 DEF Incoming, OnPeerConnect
<1>4. /\ \A k \in Nodes : waits'[k].store = waits[k].store /\ waits'[k].hangUp = waits[k].hangUp
      /\ \A k \in Nodes : k # n => waits'[k].identify = waits[k].identify /\ conns'[k] = conns[k]
      /\ waits'[n].identify = waits[n].identify + 1 /\ waits[n].identify \in Nat
      /\ conns'[n] = up
  BY <1>1, <1>3, LinksTyped DEF LinkTypes
<1>5. Undisturbed'
  <2>1. ASSUME NEW k \in Nodes
        PROVE  /\ black'[k] = "none" /\ waits'[k].store = 0 /\ waits'[k].hangUp = 0
               /\ ~peer'[k].hung /\ peer'[k].sending = {} /\ peer'[k].server # "accepted"
               /\ peer'[k].dead => ~HasPeer(k)'
               /\ conns'[k] \subseteq up'
               /\ HasPeer(k)' \/ waits'[k].identify > 0 => Connected(k)'
               /\ up' # {} => HasPeer(k)' \/ waits'[k].identify > 0 \/ ~Connected(k)'
               /\ peer'[k].timer => peer'[k].server = "waiting"
    <3>1. HasPeer(k)' <=> HasPeer(k)
      BY <1>3 DEF HasPeer
    <3>2. CASE k = n
      <4>1. Connected(k)' /\ waits'[k].identify > 0
        BY <1>1, <1>3, <1>4, <3>2 DEF Connected
      <4> QED BY <1>3, <1>4, <3>1, <3>2, <4>1 DEF Calm, Undisturbed
    <3>3. CASE k # n
      <4>1. Connected(k)' <=> Connected(k)
        BY <1>3, <1>4, <3>3 DEF Connected
      <4> QED BY <1>3, <1>4, <3>1, <3>3, <4>1 DEF Calm, Undisturbed
    <3> QED BY <3>2, <3>3
  <2> QED BY <2>1 DEF Undisturbed
<1> QED BY <1>3, <1>5, LinkKeepsCalm

\* What the network closes, the timers and the blacklist do not happen, or are
\* troubles.
LEMMA NextKeepsCalm ==
  ASSUME Sound, Calm, compat = "same", [Next]_vars, healthy'
  PROVE  Calm'
<1>1. ASSUME UNCHANGED <<up, conns, peer, black, waits, wire>>
      PROVE  Calm'
  <2>1. Undisturbed'
    BY <1>1 DEF Calm, Undisturbed, Connected, HasPeer
  <2>2. PICK n : n \in Nodes
    BY LinksTyped DEF LinkTypes
  <2> QED BY <1>1, <2>1, <2>2, LinkKeepsCalm
<1>2. CASE UNCHANGED vars
  BY <1>1, <1>2 DEF vars, linkVars
<1>3. CASE Drop
  BY <1>3 DEF Drop
<1>4. ASSUME NEW n \in Nodes, Notice(n) \/ OnPeerDisconnect(n) \/ ClosePeerStreams(n) \/ Ignore(n)
                              \/ Drained(n) \/ DialFails(n) \/ PurgeOldBlacklistedPeers(n)
      PROVE  FALSE
  <2>1. ~Notice(n) /\ ~Drained(n)
    BY DEF Notice, Drained, Calm, Undisturbed
  <2>2. ~OnPeerDisconnect(n) /\ ~ClosePeerStreams(n)
    <3>1. ~(waits[n].store > 0) /\ ~(waits[n].hangUp > 0)
      BY DEF Calm, Undisturbed
    <3> QED BY <3>1 DEF OnPeerDisconnect, ClosePeerStreams
  <2>3. ~Ignore(n) /\ ~DialFails(n)
    BY DEF Ignore, DialFails
  <2>4. ~PurgeOldBlacklistedPeers(n)
    BY DEF PurgeOldBlacklistedPeers, IsBlackListedPeerId, Calm, Undisturbed
  <2> QED BY <1>4, <2>1, <2>2, <2>3, <2>4
<1>5. ASSUME NEW n \in Nodes, ForgetDialFailures(n)
      PROVE  Calm'
  BY <1>1, <1>5 DEF ForgetDialFailures, linkVars
<1>6. ASSUME NEW n \in Nodes,
             Works(n) \/ TimeoutAuth(n) \/ Talk(n) \/ Dial(n) \/ DialFails(n)
             \/ PurgeOldBlacklistedPeers(n) \/ ForgetDialFailures(n)
      PROVE  Calm'
  BY <1>4, <1>5, <1>6, IdentifiedKeepsCalm, IncomingKeepsCalm, LoginKeepsCalm, ReceiveKeepsCalm,
     TimeoutIsTrouble, TalkKeepsCalm, DialKeepsCalm DEF Works
<1> QED BY <1>2, <1>3, <1>6 DEF Next

\* A network that was not healthy is not taken for healthy later on.
LEMMA HealthyBefore ==
  ASSUME Sound, [Next]_vars, healthy'
  PROVE  healthy /\ compat' = compat
<1>1. CASE UNCHANGED vars
  BY <1>1 DEF vars
<1>2. CASE Drop
  BY <1>2 DEF Drop
<1>3. ASSUME NEW n \in Nodes,
             Works(n) \/ TimeoutAuth(n) \/ Talk(n) \/ Dial(n) \/ DialFails(n)
             \/ PurgeOldBlacklistedPeers(n) \/ ForgetDialFailures(n)
      PROVE  healthy /\ compat' = compat
  BY <1>3 DEF Works, Identified, Incoming, Notice, OnPeerDisconnect, ClosePeerStreams, Login, Receive,
     Ignore, Drained, TimeoutAuth, Talk, Dial, DialFails, PurgeOldBlacklistedPeers, ForgetDialFailures
<1> QED BY <1>1, <1>2, <1>3 DEF Next

LEMMA InitCalm == Init => CalmWhileHealthy
<1>1. SUFFICES ASSUME Init PROVE Calm
  BY DEF CalmWhileHealthy
<1>2. NoPeer.client = "asleep" /\ NoPeer.server = "waiting" /\ NoPeer.uid = 0 /\ NoPeer.sending = {}
      /\ ~NoPeer.hung /\ ~NoPeer.timer
  BY DEF NoPeer, NewPeer
<1>3. DOMAIN << >> = {} /\ \A x : x \notin Range(<< >>)
  BY DEF Range
<1>4. Undisturbed
  BY <1>1, <1>2 DEF Init, Undisturbed, HasPeer, NoWaits, Connected
<1>5. \A n \in Nodes : peer[n] = NoPeer /\ peer[Other(n)] = NoPeer /\ wire[n] = << >>
                       /\ wire[Other(n)] = << >>
  BY <1>1, TwoNodes DEF Init
<1>6. Once(<< >>) /\ KeysFirst(<< >>)
  BY <1>3 DEF Once, KeysFirst
<1>7. Dialogue(NoPeer, NoPeer, << >>, << >>)
  BY <1>2, <1>3, <1>6 DEF Dialogue
<1> QED BY <1>4, <1>5, <1>6, <1>7 DEF Calm

\* On a healthy network between nodes that agree nothing disturbs the handshakes.
THEOREM Calmness == Spec => []CalmWhileHealthy
<1>1. Sound /\ CalmWhileHealthy /\ [Next]_vars => CalmWhileHealthy'
  BY NextKeepsCalm, HealthyBefore DEF CalmWhileHealthy
<1> QED BY <1>1, InitCalm, Soundness, PTL DEF Spec

\* Nodes that agree never blacklist each other on a healthy network, and never take
\* the answer to a challenge for a wrong one on any network.
THEOREM BansExplainedHolds == Spec => []BansExplained
<1>1. Sound /\ CalmWhileHealthy => BansExplained
  BY DEF Sound, NoBadAnswer, CalmWhileHealthy, Calm, Undisturbed, BansExplained, IsBlackListedPeerId
<1> QED BY <1>1, Soundness, Calmness, PTL


=============================================================================
