-------------------------- MODULE TransactionParser --------------------------
(***************************************************************************)
(* From the raw transactions of a Bitcoin block to the list of OP_NET      *)
(* transactions the node executes: TransactionFactory, the parsers of      *)
(* interactions and deployments, and TransactionSorter.                    *)
(*                                                                         *)
(* A raw transaction is a record.  "witness" is the script pattern found   *)
(* in one of its inputs ("interaction", "deployment" or "none"), "flaws"   *)
(* the ways in which its bytes are malformed, "outputs" its outputs as     *)
(* amounts with what each pays, "parents" the transactions it spends.      *)
(* Hashes and signatures are right unless a flaw says otherwise.           *)
(***************************************************************************)
EXTENDS Naturals, Sequences, FiniteSets

CONSTANTS MaxBurnedFee,   \* the burned fee a deployment may carry, 2000 sat
          MaxUTXOs        \* UTXOS.MAXIMUM_INPUTS and MAXIMUM_OUTPUTS

Flaws == {"script",       \* a witness that does not decode
          "opnetHeader", "sender", "features", "calldata", "salt",
          "feature", "senderHash", "legacyKey", "contractKey",
          "controlBlock", "bytecode", "generic",
          "legacySignature", "mldsaSignature"}

Sound(t, stage) == t.flaws \cap stage = {}

-----------------------------------------------------------------------------
(* Recognising the type.                                                   *)

(* _is: five witness items, two signatures, a control block, the magic and *)
(* the opcodes of the pattern.                                             *)
Is(t, pattern) == t.witness = pattern /\ Sound(t, {"script"})

GetTransactionType(t) ==
  IF t.version # 2 THEN "generic"
  ELSE IF Is(t, "interaction") THEN "call"
  ELSE IF Is(t, "deployment") THEN "deploy" ELSE "generic"

-----------------------------------------------------------------------------
(* Decoding the witness.  Every failure is an exception of the parser.     *)

DecodeOPNetHeader(t) == Sound(t, {"opnetHeader"})
DecodeFeatures(t) == Sound(t, {"features"})

GetInteractionWitnessDataHeader(t) ==
  DecodeOPNetHeader(t) /\ Sound(t, {"sender", "salt"}) /\ DecodeFeatures(t)

GetInteractionWitnessData(t) ==
  GetInteractionWitnessDataHeader(t) /\ Sound(t, {"calldata"})

GetDeploymentWitnessData(t) ==
  /\ DecodeOPNetHeader(t)
  /\ Sound(t, {"sender", "salt"})
  /\ DecodeFeatures(t)
  /\ Sound(t, {"calldata", "bytecode"})

(* The features: a link request, an epoch submission, an access list.  The *)
(* access list is not enabled and always refused.                          *)
DecodeMLDSALinkRequest(t) == t.link = {} \/ Sound(t, {"feature"})
DecodeEpochSubmission(t) == Sound(t, {"feature"})
DecodeAccessList(t) == ~t.accessList
ParseFeatures(t) ==
  DecodeAccessList(t) /\ DecodeEpochSubmission(t) /\ DecodeMLDSALinkRequest(t)

(* The miner named must have a solution that is still accepted. *)
VerifyPreImage(t, solutions) == t.solution \in solutions

-----------------------------------------------------------------------------
(* Fees.  Output 0 of a deployment is the burned fee and output 1 the      *)
(* reward of the miner; output 0 of an interaction is the reward.  An      *)
(* output that does not pay the miner's address is no reward.              *)

VerifyRewardUTXO(t, i) ==
  IF i > Len(t.outputs) THEN 0
  ELSE IF t.outputs[i].pays = "miner" THEN t.outputs[i].value ELSE 0

SetBurnedFee(t) == t.outputs[1].value
MayBurn(t) == SetBurnedFee(t) <= MaxBurnedFee

TotalFeeFund(t, kind) ==
  IF kind = "deploy" THEN SetBurnedFee(t) + VerifyRewardUTXO(t, 2)
  ELSE VerifyRewardUTXO(t, 1)

(* The priority fee is taken from the fund, the rest pays the gas. *)
MaySetGas(t, kind) == t.fee <= TotalFeeFund(t, kind)
SetGasFromHeader(t, kind) == TotalFeeFund(t, kind) - t.fee

-----------------------------------------------------------------------------
(* Parsing a transaction of each type; the contract's address must be a    *)
(* valid key, a deployment's must be the one its witness commits to.       *)

RegenerateContractAddress(t) == Sound(t, {"contractKey"})
GetOriginalContractAddress(t) == Sound(t, {"controlBlock"})
DecodeAddress(t) == t.outputs # <<>> /\ t.outputs[1].pays = "contract"
Decompress(t) == Sound(t, {"bytecode"})

ParseInteraction(t, solutions) ==
  /\ GetInteractionWitnessData(t)
  /\ ParseFeatures(t)
  /\ Sound(t, {"senderHash", "legacyKey"})
  /\ VerifyPreImage(t, solutions)
  /\ RegenerateContractAddress(t)
  /\ MaySetGas(t, "call")

ParseDeployment(t, solutions) ==
  /\ GetDeploymentWitnessData(t)
  /\ ParseFeatures(t)
  /\ Sound(t, {"senderHash", "legacyKey", "contractKey"})
  /\ VerifyPreImage(t, solutions)
  /\ GetOriginalContractAddress(t)
  /\ DecodeAddress(t)
  /\ MayBurn(t)
  /\ MaySetGas(t, "deploy")
  /\ Decompress(t)

(* What the node keeps of a transaction: its type, its priority fee, its   *)
(* gas.  A generic transaction has neither.                                *)
Typed(t, kind) ==
  [id |-> t.id, kind |-> kind, to |-> t.to, body |-> t.body,
   legacy |-> t.legacy, link |-> t.link, flaws |-> t.flaws,
   coinbase |-> t.coinbase, parents |-> t.parents,
   utxos |-> t.utxos,
   fee |-> IF kind = "generic" THEN 0 ELSE t.fee,
   gas |-> IF kind = "generic" THEN 0 ELSE SetGasFromHeader(t, kind)]

(* An OP_NET transaction that does not parse is kept as a generic one.     *)
ParseTransaction(t, solutions) ==
  CASE GetTransactionType(t) = "call" /\ ParseInteraction(t, solutions) -> Typed(t, "call")
    [] GetTransactionType(t) = "deploy" /\ ParseDeployment(t, solutions) -> Typed(t, "deploy")
    [] OTHER -> Typed(t, "generic")

(* Only a transaction whose inputs or outputs cannot be read is lost. *)
TreatAsGeneric(t) == Sound(t, {"generic"})

CreateTransactions(raw, solutions) ==
  {ParseTransaction(t, solutions) : t \in {r \in raw : TreatAsGeneric(r)}}

-----------------------------------------------------------------------------
(* Sorting: rewards first, then parents before children, always the        *)
(* transaction available whose best paid descendant pays most.             *)

PartitionByRewardStatus(txs) == {t \in txs : t.coinbase}

Children(t, txs) == {c \in txs : t.id \in c.parents /\ c.id # t.id}

(* A transaction with everything in the block that depends on it. *)
Descendants(t, txs) ==
  LET Closed[ts \in SUBSET txs] ==
        LET more == UNION {Children(u, txs) : u \in ts}
        IN  IF more \subseteq ts THEN ts ELSE Closed[ts \cup more]
  IN  Closed[{t}]

ComputeEffectivePriority(t, txs) ==
  LET fees == {d.fee : d \in Descendants(t, txs)}
  IN  CHOOSE f \in fees : \A g \in fees : g <= f

(* Priority of the family, then its own fee, then the indexing hash. *)
ComparePriority(a, b, eff) ==
  \/ eff[a] > eff[b]
  \/ eff[a] = eff[b] /\ a.fee > b.fee
  \/ eff[a] = eff[b] /\ a.fee = b.fee /\ a.id <= b.id

(* Available: no parent left.  A cycle falls back to priority alone. *)
Available(rest) ==
  LET free == {t \in rest : \A p \in rest : p.id \in t.parents => p = t}
  IN  IF free = {} THEN rest ELSE free

(* Mutant: by priority only. *)
SortByFee(txs) ==
  LET eff == [t \in txs |-> t.fee]
      Sorted[rest \in SUBSET txs] ==
        IF rest = {} THEN <<>>
        ELSE LET next == CHOOSE t \in rest : \A u \in rest : ComparePriority(t, u, eff)
             IN  <<next>> \o Sorted[rest \ {next}]
  IN  Sorted[txs]

SortByFeeWithDependencies(txs) ==
  LET eff == [t \in txs |-> ComputeEffectivePriority(t, txs)]
      Sorted[rest \in SUBSET txs] ==
        IF rest = {} THEN <<>>
        ELSE LET next == CHOOSE t \in Available(rest) :
                           \A u \in Available(rest) : ComparePriority(t, u, eff)
             IN  <<next>> \o Sorted[rest \ {next}]
  IN  Sorted[txs]

(* There is at most one reward. *)
SortTransactions(txs) ==
  LET rewards == PartitionByRewardStatus(txs)
  IN  (IF rewards = {} THEN <<>> ELSE <<CHOOSE t \in rewards : TRUE>>)
        \o SortByFeeWithDependencies(txs \ rewards)

(* deserialize: from the raw block to its transactions in order. *)
Deserialize(block) == SortTransactions(CreateTransactions(block.txs, block.solutions))

(* The OP_NET transactions, in that order; the generic ones are only saved. *)
SeparateGenericTransactions(order) == SelectSeq(order, LAMBDA t : t.kind # "generic")
=============================================================================
