------------------------------ MODULE MCUtxoSync ------------------------------
(***************************************************************************)
(* Instances of UtxoSync.  A block is named by a branch letter and its     *)
(* height; branch "b" leaves branch "a" after the genesis block.           *)
(***************************************************************************)
EXTENDS UtxoSync

CONSTANTS g, a1, a2, b1, b2

MCBlocks == {g, a1, a2, b1, b2}

MCPrev == [b \in MCBlocks |->
    CASE b = g -> NoBlock [] b \in {a1, b1} -> g [] b = a2 -> a1 [] b = b2 -> b1]

\* The chain whose blocks are those of a sequence, genesis first.
ChainOf(s) ==
    [top |-> Len(s) - 1,
     at  |-> [h \in Heights |-> IF h < Len(s) THEN s[h + 1] ELSE NoBlock]]

A2 == ChainOf(<<g, a1, a2>>)
B2 == ChainOf(<<g, b1, b2>>)

MCChains == {A2, B2}
FirstA2 == {A2}
Reorganising == {<<A2, B2>>, <<B2, A2>>}
=============================================================================
