-------------------------- MODULE ExecutionReference --------------------------
(***************************************************************************)
(* What executing a chain must leave in the database: a big-step           *)
(* definition without caches, frames, retries or failures.  A world b      *)
(* holds the rows of the earlier blocks and what the block has changed so  *)
(* far; a transaction that met a database failure is given as a mark, and  *)
(* counts as reverted.                                                     *)
(***************************************************************************)
EXTENDS ContractVM, TransactionParser

CONSTANTS BlockGas,   \* GAS.MAX_THEORETICAL_GAS
          PanicGas    \* GAS.PANIC_GAS_COST

EmptyWorld == [pointers |-> {}, contracts |-> {}, keys |-> {}, txs |-> {},
               mod |-> <<>>, gas |-> 0, h |-> 0]

ValueIn(b, k) ==
  LET rows == {r \in b.pointers : r.c = k[1] /\ r.s = k[2]}
  IN  IF k \in DOMAIN b.mod THEN b.mod[k]
      ELSE IF rows = {} THEN Nil ELSE Newest(rows).v

IsContract(b, c) == \E r \in b.contracts : r.c = c
IsExposed(b, k) == \E r \in b.keys : r.hash = k /\ r.exposed # 0
IsLinked(b, l) == \E r \in b.keys : r.legacy = l

(* The rest of a contract's program, from the state s of the transaction.  *)
RECURSIVE RunProgram(_, _, _, _)
RunProgram(b, s, c, body) ==
  IF body = <<>> THEN s
  ELSE IF s.gas >= s.limit THEN [s EXCEPT !.reverted = TRUE]
  ELSE
    LET op == Head(body)
        t == [s EXCEPT !.gas = @ + 1]
        Goes(u) == RunProgram(b, u, c, Tail(body))
        Writes(slot, v) == Goes([t EXCEPT !.mod = Put(@, <<c, slot>>, v)])
        Reads(k) == IF k \in DOMAIN s.mod THEN s.mod[k]
                    ELSE IF ValueIn(b, k) = Nil THEN 0 ELSE ValueIn(b, k)
        Stops(u) == [u EXCEPT !.reverted = TRUE]
        Refuses(u) == IF op.catch THEN Goes(Stops(u)) ELSE Stops(u)
        Enters(u, callee) ==
          LET in == RunProgram(b, [u EXCEPT !.events = 0, !.reverted = FALSE,
                                            !.calls = @ + 1], callee, op.body)
              bad == in.reverted \/ u.events + in.events > MaxEvents
              back == [in EXCEPT !.events = IF bad THEN u.events ELSE u.events + @,
                                 !.reverted = u.reverted \/ bad]
          IN  IF bad /\ ~op.catch THEN back ELSE Goes(back)
        Known(callee) == callee \in s.deployed \/ IsContract(b, callee)
    IN  CASE op.op = "store" -> Writes(op.slot, op.val)
          [] op.op = "load" -> Writes(op.into, Reads(<<c, op.slot>>) + 1)
          [] op.op = "event" ->
               IF s.events >= MaxEvents THEN Stops(t)
               ELSE Goes([t EXCEPT !.events = @ + 1])
          [] op.op = "type" ->
               Writes(op.into, IF op.of = c \/ IsContract(b, op.of) THEN 1 ELSE 0)
          [] op.op = "key" -> Writes(op.into, IF IsExposed(b, op.key) THEN 1 ELSE 0)
          [] op.op = "call" ->
               IF s.calls < MaxCalls /\ Known(op.to) THEN Enters(t, op.to) ELSE Refuses(t)
          [] op.op = "deploy" ->
               \* One attempt for a transaction.
               IF ~s.tried /\ IsContract(b, op.src) /\ ~IsContract(b, op.new)
               THEN Enters([t EXCEPT !.tried = TRUE, !.deployed = {op.new}], op.new)
               ELSE Refuses([t EXCEPT !.tried = TRUE])
          [] op.op = "update" -> Refuses(t)
          [] op.op = "fail" -> Stops(t)

(* The link a transaction asks for, or the one it relies on.               *)
Request(tx) == CHOOSE l \in tx.link : TRUE
LinkAllowed(b, tx) ==
  IF tx.link = {} THEN IsLinked(b, tx.legacy)
  ELSE /\ tx.flaws \cap {"legacySignature"} = {}
       /\ Request(tx).expose => tx.flaws \cap {"mldsaSignature"} = {}
       /\ {r \in b.keys : r.hash = Request(tx).hash} = {r \in b.keys : r.legacy = tx.legacy}

(* A link that exists is kept; its key is exposed once, and not in the     *)
(* block that made the link.                                               *)
WithLink(b, tx) ==
  LET old == {r \in b.keys : r.legacy = tx.legacy}
      new == IF Request(tx).expose THEN b.h ELSE 0
  IN  IF tx.link = {} THEN b
      ELSE IF old = {}
      THEN [b EXCEPT !.keys = @ \cup {[hash |-> Request(tx).hash, legacy |-> tx.legacy,
                                       at |-> b.h, exposed |-> new]}]
      ELSE [b EXCEPT !.keys = (@ \ old) \cup
              {IF r.exposed = 0 /\ r.at < b.h THEN [r EXCEPT !.exposed = new] ELSE r : r \in old}]

Receipt(b, tx, ok, gas) ==
  [b EXCEPT !.txs = @ \cup {[id |-> tx.id, at |-> b.h, ok |-> ok]}, !.gas = @ + gas]

(* The code prices a slot by the slot of the same number in the contract   *)
(* the transaction calls.                                                  *)
PriceIn(b, tx, mod) ==
  LET New == {k \in DOMAIN mod : ValueIn(b, <<tx.to, k[2]>>) = Nil}
      Changed == {k \in DOMAIN mod \ New : ValueIn(b, <<tx.to, k[2]>>) # mod[k]}
  IN  Cardinality(New) * NewSlotGas + Cardinality(Changed) * UpdatedSlotGas

RunTransaction(b, tx) ==
  LET deploys == tx.kind = "deploy"
      s == RunProgram(b, [mod |-> <<>>, gas |-> 0, limit |-> tx.gas, calls |-> 1,
                          deployed |-> IF deploys THEN {tx.to} ELSE {},
                          tried |-> deploys, events |-> 0, reverted |-> FALSE], tx.to, tx.body)
      cost == s.gas + PriceIn(b, tx, s.mod)
  IN  IF s.reverted THEN Receipt(b, tx, FALSE, s.gas)
      ELSE IF cost > tx.gas THEN Receipt(b, tx, FALSE, tx.gas)
      ELSE IF \E c \in s.deployed : IsContract(b, c) THEN Receipt(b, tx, FALSE, cost)
      ELSE Receipt([b EXCEPT !.mod = s.mod @@ @, !.contracts = @ \cup
                      {[c |-> c, at |-> b.h, by |-> tx.id] : c \in s.deployed}],
                   tx, TRUE, cost)

(* A mark says at which step a database failure met the transaction.       *)
ApplyTransaction(b, tx, marks) ==
  LET mine == {m \in marks : m.at = b.h /\ m.id = tx.id}
      At(step) == \E m \in mine : m.step = step
      c == WithLink(b, tx)
  IN  IF b.gas > BlockGas \/ tx.coinbase \/ At("link") \/ ~LinkAllowed(b, tx)
      THEN Receipt(b, tx, FALSE, PanicGas)
      ELSE IF \/ tx.utxos > MaxUTXOs \/ tx.gas = 0 \/ At("lookup")
              \/ tx.kind = "call" /\ ~IsContract(b, tx.to)
      THEN Receipt(c, tx, FALSE, PanicGas)
      ELSE IF At("run") THEN Receipt(c, tx, FALSE, (CHOOSE m \in mine : TRUE).gas)
      ELSE RunTransaction(c, tx)

RECURSIVE ApplyAll(_, _, _)
ApplyAll(b, txs, marks) ==
  IF txs = <<>> THEN b ELSE ApplyAll(ApplyTransaction(b, Head(txs), marks), Tail(txs), marks)

(* The blocks 1 .. n of a chain. *)
RECURSIVE World(_, _, _)
World(chain, n, marks) ==
  IF n = 0 THEN EmptyWorld
  ELSE LET order == Deserialize(chain[n])
           b == ApplyAll([World(chain, n - 1, marks) EXCEPT !.h = n, !.gas = 0, !.mod = <<>>],
                         SeparateGenericTransactions(order), marks)
       IN  [b EXCEPT !.pointers = @ \cup
              {[c |-> k[1], s |-> k[2], v |-> b.mod[k], at |-> n] : k \in DOMAIN b.mod}]

Expected(chain, n, marks) ==
  LET w == World(chain, n, marks)
  IN  [pointers |-> w.pointers, contracts |-> w.contracts, keys |-> w.keys, txs |-> w.txs]
=============================================================================
