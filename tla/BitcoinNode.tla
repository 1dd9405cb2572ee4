----------------------------- MODULE BitcoinNode -----------------------------
(***************************************************************************)
(* The Bitcoin node the indexer talks to over RPC.  It is external: only   *)
(* what the indexer observes of it is kept, the block at every height of   *)
(* the best chain.  A chain is a record: top is the height of its last     *)
(* block, at[h] the block at height h, NoBlock above the top.              *)
(***************************************************************************)
EXTENDS Integers, FiniteSets, Sequences

CONSTANTS
    Blocks,      \* the blocks of the block tree
    NoBlock,     \* "no such block": a null RPC answer, a missing document
    MaxHeight,   \* bound: the greatest height of the block tree
    Prev,        \* previousBlockHash of a block
    Chains,      \* the chains the Bitcoin node may announce
    FirstChains, \* those it may announce when the behaviour begins
    Moves        \* the pairs <<old, new>> of chains between which it may switch

Heights == 0 .. MaxHeight

Chain == [top : Heights, at : [Heights -> Blocks \cup {NoBlock}]]

ASSUME MaxHeightAssumption == MaxHeight \in Nat \ {0}

ASSUME BlocksAssumption ==
    /\ NoBlock \notin Blocks
    /\ Prev \in [Blocks -> Blocks \cup {NoBlock}]

\* Every chain is hash linked and has a block at each height up to its top.
ASSUME ChainsAssumption ==
    /\ Chains \subseteq Chain
    /\ FirstChains \subseteq Chains
    /\ Moves \subseteq Chains \X Chains
    /\ \A c \in Chains :
         /\ \A h \in Heights : c.at[h] # NoBlock <=> h <= c.top
         /\ \A h \in 1 .. c.top : Prev[c.at[h]] = c.at[h - 1]

\* A block commits to all blocks below it, so it has the same height in every
\* chain that holds it.
ASSUME OneHeightAssumption ==
    \A c, d \in Chains : \A h, k \in Heights :
        c.at[h] # NoBlock /\ c.at[h] = d.at[k] => h = k

\* A Bitcoin network has one genesis block.
ASSUME GenesisAssumption == \A c, d \in Chains : c.at[0] = d.at[0]

VARIABLES
    chain,       \* the best chain of the Bitcoin node
    reorgBudget  \* bound: how many more times the node may switch chain

\* The node extends its chain or reorganises it.
SwitchChain ==
    /\ reorgBudget > 0
    /\ reorgBudget' = reorgBudget - 1
    /\ chain' \in {c \in Chains : <<chain, c>> \in Moves}

\* getBlockCount, getBlockHeight: the height of the best block.
BlockCount == chain.top

\* getBlockHash: the block at a height of the best chain.
BlockHash(h) == IF h \in Heights THEN chain.at[h] ELSE NoBlock

Tip == chain.at[chain.top]

NodeTypeOK == chain \in Chains /\ reorgBudget \in Nat
=============================================================================
