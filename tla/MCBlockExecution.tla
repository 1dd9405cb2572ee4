--------------------------- MODULE MCBlockExecution ---------------------------
(* Small chains for BlockExecution: contracts A, B, C and D, two legacy     *)
(* keys and two ML-DSA keys.                                                *)
EXTENDS BlockExecution

Pay(v) == <<[value |-> v, pays |-> "miner"]>>

RawCall(id, legacy, to, body) ==
  [id |-> id, version |-> 2, witness |-> "interaction", flaws |-> {},
   outputs |-> Pay(20), parents |-> {}, fee |-> 0, link |-> {}, accessList |-> FALSE,
   solution |-> "s1", legacy |-> legacy, to |-> to, body |-> body,
   coinbase |-> FALSE, utxos |-> 1]

RawDeploy(id, legacy, to, body) ==
  [RawCall(id, legacy, to, body) EXCEPT !.witness = "deployment",
     !.outputs = <<[value |-> 2, pays |-> "contract"], [value |-> 18, pays |-> "miner"]>>]

Plain(id) == [RawCall(id, "l1", "A", <<>>) EXCEPT !.witness = "none"]
Reward(id) == [Plain(id) EXCEPT !.coinbase = TRUE]
Linking(t, hash, expose) == [t EXCEPT !.link = {[hash |-> hash, expose |-> expose]}]
After(t, ids) == [t EXCEPT !.parents = ids]

OpStore(slot, val) == [op |-> "store", slot |-> slot, val |-> val]
OpLoad(slot, into) == [op |-> "load", slot |-> slot, into |-> into]
OpCall(to, body, catch) == [op |-> "call", to |-> to, body |-> body, catch |-> catch]
OpDeploy(src, new, body, catch) ==
  [op |-> "deploy", src |-> src, new |-> new, body |-> body, catch |-> catch]
OpType(of, into) == [op |-> "type", of |-> of, into |-> into]
OpKey(key, into) == [op |-> "key", key |-> key, into |-> into]
OpEvent == [op |-> "event"]
OpFail == [op |-> "fail"]
OpUpdate(catch) == [op |-> "update", catch |-> catch]

Block(txs) == [txs |-> txs, solutions |-> {"s1"}]

(* A is deployed and its deployer linked; B follows in the same block. *)
First == Block({Reward(1),
  Linking(RawDeploy(2, "l1", "A", <<OpStore(1, 5)>>), "k1", FALSE),
  After(RawDeploy(3, "l1", "B", <<OpLoad(1, 1)>>), {2})})

(* Reads across transactions, nested calls, a contract copied and called.  *)
Work == Block({Reward(4),
  RawCall(5, "l1", "A", <<OpLoad(1, 1), OpCall("B", <<OpLoad(1, 2), OpEvent>>, FALSE), OpEvent>>),
  After(RawCall(6, "l1", "A", <<OpDeploy("B", "D", <<OpStore(1, 7)>>, FALSE), OpType("D", 3)>>), {5}),
  After(RawCall(7, "l1", "B", <<OpCall("D", <<OpLoad(1, 1)>>, FALSE), OpType("D", 3), OpLoad(2, 2)>>), {6})})

(* Keys: the second claim of a key loses, a link is exposed, and read.     *)
Keys == Block({
  Linking(RawCall(8, "l2", "A", <<OpKey("k1", 4)>>), "k1", FALSE),
  After(Linking(RawCall(9, "l2", "A", <<OpKey("k2", 4)>>), "k2", TRUE), {8}),
  After(Linking(RawCall(10, "l1", "B", <<OpKey("k2", 4)>>), "k1", TRUE), {9}),
  After(RawCall(11, "l3", "A", <<OpStore(5, 1)>>), {10})})

(* Two legacy keys ask for one ML-DSA key, one legacy key for two; a link  *)
(* and its exposure in one block.                                          *)
Claims == Block({Plain(12),
  Linking(RawCall(13, "l2", "A", <<OpStore(6, 1)>>), "k2", FALSE),
  After(Linking(RawCall(14, "l3", "A", <<OpStore(6, 2)>>), "k2", FALSE), {13}),
  After(Linking(RawCall(15, "l2", "A", <<OpKey("k2", 6)>>), "k2", TRUE), {14}),
  After(Linking(RawCall(16, "l2", "B", <<OpKey("k2", 6)>>), "k3", FALSE), {15})})

(* Everything that makes a transaction fail. *)
Reverts == Block({Plain(20),
  RawCall(21, "l1", "A", <<OpStore(1, 9), OpCall("B", <<OpStore(1, 9), OpFail>>, TRUE), OpStore(2, 9)>>),
  RawCall(22, "l1", "A", <<OpDeploy("B", "C", <<>>, TRUE), OpDeploy("B", "D", <<>>, TRUE)>>),
  After([RawCall(23, "l1", "A", <<OpStore(7, 1), OpStore(8, 1)>>) EXCEPT !.outputs = Pay(5)], {22}),
  After(RawCall(24, "l1", "A", <<OpEvent, OpCall("B", <<OpEvent, OpEvent>>, FALSE)>>), {23})})

Refusals == Block({[RawCall(30, "l1", "A", <<OpStore(1, 1)>>) EXCEPT !.coinbase = TRUE],
  RawDeploy(31, "l1", "A", <<OpStore(1, 1)>>),
  [RawCall(32, "l1", "A", <<OpStore(1, 1)>>) EXCEPT !.outputs = Pay(0)],
  [RawCall(33, "l1", "A", <<OpStore(1, 1)>>) EXCEPT !.outputs = Pay(3)],
  RawCall(34, "l1", "E", <<>>),
  [RawDeploy(35, "l1", "C", <<>>) EXCEPT !.utxos = 9],
  After(RawCall(36, "l1", "A", <<OpUpdate(FALSE)>>), {34}),
  RawCall(37, "l1", "A", <<OpCall("B", <<OpCall("A", <<OpCall("B", <<>>, FALSE)>>, FALSE)>>, FALSE)>>)})

(* Gas: a transaction and a callee run out of it, then the block does. *)
Stores(n) == [i \in 1 .. n |-> OpStore(10 + i, 1)]
Heavy == Block({
  [RawCall(60, "l1", "A", Stores(2)) EXCEPT !.outputs = Pay(1)],
  [RawCall(61, "l1", "A", <<OpCall("B", Stores(3), TRUE), OpEvent>>) EXCEPT !.outputs = Pay(3)],
  After(RawCall(62, "l1", "A", Stores(6)), {60, 61}),
  After(RawCall(63, "l1", "B", Stores(6)), {62}),
  After(Linking(RawCall(64, "l2", "A", <<OpStore(1, 6)>>), "k2", FALSE), {63})})

Malformed == Block(
  {[RawCall(40, "l1", "A", <<OpStore(1, 8)>>) EXCEPT !.version = 1],
   [RawCall(41, "l1", "A", <<OpStore(1, 8)>>) EXCEPT !.solution = "old"],
   [RawCall(42, "l1", "A", <<OpStore(1, 8)>>) EXCEPT !.accessList = TRUE],
   [RawCall(43, "l1", "A", <<OpStore(1, 8)>>) EXCEPT !.fee = 21],
   [RawDeploy(44, "l1", "C", <<>>) EXCEPT !.outputs = Pay(20)],
   [RawDeploy(45, "l1", "C", <<>>) EXCEPT !.outputs = <<[value |-> 30, pays |-> "contract"]>>],
   [RawCall(46, "l1", "A", <<OpStore(1, 8)>>) EXCEPT !.fee = 4],
   [Linking(RawCall(47, "l2", "A", <<OpStore(2, 8)>>), "k2", FALSE) EXCEPT !.flaws = {"legacySignature"}]})

BadBytes(f) == Block({[RawCall(50, "l1", "A", <<OpStore(1, 3)>>) EXCEPT !.flaws = {f}],
                      [RawDeploy(51, "l1", "C", <<>>) EXCEPT !.flaws = {f}],
                      [Linking(RawCall(52, "l2", "A", <<OpStore(2, 3)>>), "k2", TRUE)
                         EXCEPT !.flaws = {f}]})

MCStressed == {<<First, Work, Keys>>, <<First, Work, Claims>>,
               <<First, Keys, Work>>, <<First, Reverts>>}

(* Four transactions that spend each other in every way, with every fee.   *)
Edges == {<<1, 2>>, <<1, 3>>, <<1, 4>>, <<2, 3>>, <<2, 4>>, <<3, 4>>}
Family(edges, order, fees) ==
  Block({[RawCall(order[i], "l9", "A", <<>>) EXCEPT
            !.fee = fees[i], !.parents = {order[e[1]] : e \in {d \in edges : d[2] = i}}] :
          i \in 1 .. 4})
Families == {<<Family(edges, order, fees)>> :
               edges \in SUBSET Edges, order \in {<<2, 4, 1, 3>>},
               fees \in [1 .. 4 -> 0 .. 2]}

MCChains == MCStressed
  \cup {<<First, Refusals>>, <<First, Malformed>>, <<First, Heavy>>}
  \cup {<<First, BadBytes(f)>> : f \in Flaws}
  \cup Families
=============================================================================
