---------------------------- MODULE MCApiServer ----------------------------
(* Small instances of ApiServer: one kind of request or fault at a time.   *)
EXTENDS ApiServer

Nobody ==
    [height |-> 3, peers |-> {}, templates |-> {}, queries |-> {}, batches |-> {},
     messages |-> 0, gets |-> 0, rpcs |-> 0, closes |-> 0, stalls |-> 0,
     failures |-> 0, collects |-> 0, expiries |-> 0, mempool |-> 0, exits |-> 0,
     timeouts |-> 0, blocks |-> 0, reverts |-> 0, forks |-> {},
     wallets |-> 0]

Message(type, q, sub, garbled, version) ==
    [type |-> type, id |-> 0, q |-> q, sub |-> sub, garbled |-> garbled, version |-> version]
NoQuery == Query("chainId", 1, FALSE)
Asks(q) == Message("request", q, "", FALSE, "")
Handshake == Message("handshake", NoQuery, "", FALSE, "supported")
Plain(type) == Message(type, NoQuery, "", FALSE, "")
Subscribe(type) == Message("subscribe", NoQuery, type, FALSE, "")
Unsubscribe(id) == Message("unsubscribe", NoQuery, id, FALSE, "")

Block(n, full) == Query("block", n, full)

Latest(route) == Query(route, 0, FALSE)

\* A block by its height, with and without its transactions, while it is
\* replaced or appears; the promise kept for it may be collected.
S0 == [Nobody EXCEPT !.queries = {Block(3, TRUE), Block(4, FALSE)}, !.gets = 2,
                     !.blocks = 1, !.collects = 1]
S1 == [Nobody EXCEPT !.queries = {Block(3, TRUE)}, !.gets = 2,
                     !.blocks = 1, !.reverts = 1, !.forks = {3}]

\* The latest block in its forms, across a revert, with a failed query.
S2 == [Nobody EXCEPT !.queries = {Block(-1, FALSE), Latest("latest")}, !.gets = 2,
                     !.reverts = 1, !.forks = {2}, !.failures = 1]
S3 == [Nobody EXCEPT !.queries = {Block(-1, TRUE), Latest("gas")}, !.gets = 2, !.blocks = 1]

\* A block by its hash, with and without its transactions.
S4 == [Nobody EXCEPT !.queries = {Query("hash", 4, FALSE), Query("checksum", 4, FALSE),
                                  Query("hash", 4, TRUE)},
                     !.gets = 3, !.reverts = 1, !.forks = {3}]

\* The epochs, while one is finalized, and across a revert.
S5 == [Nobody EXCEPT !.queries = {Query("epoch", 1, FALSE), Query("epoch", -1, FALSE),
                                  Latest("latestEpoch")},
                     !.gets = 2, !.blocks = 1, !.expiries = 1]
S6 == [Nobody EXCEPT !.queries = {Query("epoch", 0, FALSE), Latest("latestEpoch")}, !.gets = 2,
                     !.reverts = 1, !.forks = {1}, !.failures = 1, !.collects = 1]

\* The template, the preimage and the submissions.
S7 == [Nobody EXCEPT !.height = 5, !.gets = 2, !.queries = {Latest("template"), Query("submit", 4, FALSE)},
                     !.blocks = 1, !.expiries = 1]
S8 == [Nobody EXCEPT !.height = 4, !.gets = 2, !.queries = {Latest("preimage"), Query("submit", 4, FALSE)},
                     !.reverts = 1, !.forks = {3}, !.expiries = 1]
S20 == [S8 EXCEPT !.reverts = 0, !.failures = 1]

\* The announcements alone: heights that jump and fall between two polls.
S9 == [Nobody EXCEPT !.blocks = 2, !.reverts = 1, !.forks = {2, 3, 4}, !.failures = 1]

\* Subscribers, with sockets that fill up.
S10 == [Nobody EXCEPT !.peers = {"c1"}, !.templates = {Handshake, Subscribe("blocks")},
                      !.messages = 2, !.blocks = 2, !.stalls = 1]
S11 == [Nobody EXCEPT !.peers = {"c1"}, !.templates = {Handshake, Subscribe("blocks"), Subscribe("epochs")},
                      !.messages = 3, !.blocks = 1, !.stalls = 1]
S12 == [Nobody EXCEPT !.peers = {"c1"}, !.messages = 4, !.stalls = 1, !.mempool = 1, !.closes = 1,
                      !.templates = {Handshake, Subscribe("mempool"), Subscribe("blocks"),
                                     Subscribe("epochs"), Unsubscribe(1)}]

\* The protocol, kept and broken.
S13 == [Nobody EXCEPT !.peers = {"c1", "c2"}, !.messages = 4, !.stalls = 1, !.closes = 1,
                      !.templates = {Handshake, Asks(Latest("receipt")), Plain("ping")}]
S14 == [Nobody EXCEPT !.peers = {"c1"}, !.messages = 3, !.stalls = 1,
                      !.templates = {Handshake, [Handshake EXCEPT !.garbled = TRUE],
                                     [Handshake EXCEPT !.version = "unsupported"],
                                     [Handshake EXCEPT !.version = "unnamed"],
                                     Plain("malformed"), Plain("unknown"), Plain("plugin"),
                                     Asks(Latest("transaction")),
                                     [Asks(NoQuery) EXCEPT !.garbled = TRUE],
                                     Subscribe("blocks"), Unsubscribe(1)}]
S15 == [Nobody EXCEPT !.peers = {"c1"}, !.messages = 4, !.failures = 1,
                      !.templates = {Handshake, Asks(Block(3, FALSE)), Asks(Block(5, FALSE)),
                                     Asks(Latest("utxos")), Asks(Latest("call"))}]

\* JSON-RPC, alone and in batches.
S16 == [Nobody EXCEPT !.batches = {<<Query("utxos", 1, FALSE)>>,
                                   <<Block(3, FALSE), Latest("code")>>,
                                   <<Block(3, FALSE), Block(3, FALSE)>>,
                                   <<NoQuery, NoQuery, NoQuery>>},
                      !.rpcs = 3, !.failures = 1, !.closes = 1]

\* Simulations: a worker that dies, and a height that cannot be read.
S17 == [Nobody EXCEPT !.queries = {Latest("call")}, !.gets = 3,
                      !.failures = 1, !.exits = 1, !.timeouts = 1]
S18 == [Nobody EXCEPT !.queries = {Latest("call")}, !.gets = 2,
                      !.failures = 1, !.expiries = 1, !.blocks = 1]

\* The outputs of a wallet: a chain of two transactions, and one in conflict.
MCWalletTxs == [t1 |-> [ins |-> {"a"}, outs |-> {"b", "e"}],
                t2 |-> [ins |-> {"b"}, outs |-> {"c"}],
                t3 |-> [ins |-> {"a"}, outs |-> {"d"}]]
MCWorth == [a |-> 2000, f |-> 1500, b |-> 1000, c |-> 329, d |-> 600, e |-> 400]
S19 == [Nobody EXCEPT !.wallets = 1]

MCScenarios ==
    {S0, S1, S2, S3, S4, S5, S6, S7, S8, S9, S10, S11, S12, S13, S14, S15, S16, S17, S18, S19, S20}
=============================================================================
