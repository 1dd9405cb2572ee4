---------------------------- MODULE MCBlockIndexer ----------------------------
(***************************************************************************)
(* Instances of BlockIndexer.  A block is named by a branch letter and its *)
(* height; branch "b" leaves branch "a" after height 1.                    *)
(***************************************************************************)
EXTENDS BlockIndexer

CONSTANTS g, a1, a2, a3, a4, b2, b3, b4

MCBlocks == {g, a1, a2, a3, a4, b2, b3, b4}

MCPrev == [b \in MCBlocks |->
    CASE b = g -> NoBlock [] b = a1 -> g [] b = a2 -> a1 [] b = a3 -> a2
      [] b = a4 -> a3 [] b = b2 -> a1 [] b = b3 -> b2 [] b = b4 -> b3]

\* The chain whose blocks are those of a sequence, genesis first.
ChainOf(s) ==
    [top |-> Len(s) - 1,
     at  |-> [h \in Heights |-> IF h < Len(s) THEN s[h + 1] ELSE NoBlock]]

A2 == ChainOf(<<g, a1, a2>>)
A3 == ChainOf(<<g, a1, a2, a3>>)
A4 == ChainOf(<<g, a1, a2, a3, a4>>)
B2 == ChainOf(<<g, a1, b2>>)
B3 == ChainOf(<<g, a1, b2, b3>>)
B4 == ChainOf(<<g, a1, b2, b3, b4>>)

MCChains == {A2, A3, A4, B2, B3, B4}
FirstA2 == {A2}
FirstA3 == {A3}

\* A node that starts over an empty database, or over one of height 2.
EmptyOrTwo == {-1, 2}

\* The usual case: whatever replaces the best chain is longer.
Growing == {m \in MCChains \X MCChains : m[1].top < m[2].top}

\* A chain may also be replaced by one of the same height or a shorter one.
AnyMove == {m \in MCChains \X MCChains : m[1] # m[2]}
=============================================================================
