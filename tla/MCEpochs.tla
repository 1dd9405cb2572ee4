------------------------------- MODULE MCEpochs -------------------------------
(***************************************************************************)
(* Instances of Epochs: epochs of two blocks.  Branch "b" leaves branch    *)
(* "a" after height 2, in the middle of epoch 1, and branch "c" after      *)
(* height 3, at the end of it.                                             *)
(***************************************************************************)
EXTENDS Epochs

CONSTANTS g, a1, a2, a3, a4, a5, a6, b3, b4, b5, b6, c4, c5, c6

MCBlocks == {g, a1, a2, a3, a4, a5, a6, b3, b4, b5, b6, c4, c5, c6}

\* The chain whose blocks are those of a sequence, genesis first.
ChainOf(s) ==
    [top |-> Len(s) - 1,
     at  |-> [h \in Heights |-> IF h < Len(s) THEN s[h + 1] ELSE NoBlock]]

SeqA == <<g, a1, a2, a3, a4, a5, a6>>
SeqB == <<g, a1, a2, b3, b4, b5, b6>>
SeqC == <<g, a1, a2, a3, c4, c5, c6>>

MCPrev == [b \in MCBlocks |->
    IF b = g THEN NoBlock
    ELSE CHOOSE p \in MCBlocks :
        \E s \in {SeqA, SeqB, SeqC}, i \in 2 .. 7 : s[i] = b /\ s[i - 1] = p]

A6 == ChainOf(SeqA)
B6 == ChainOf(SeqB)
C4 == ChainOf(SubSeq(SeqC, 1, 5))
C6 == ChainOf(SeqC)

\* The best chain may lose blocks: from A6 to C4 while a5 or a6 is indexed.
MCChains == {A6, B6, C4, C6}
FirstA6 == {A6}
MCMoves == {<<A6, B6>>, <<A6, C4>>, <<C4, C6>>, <<C4, B6>>}

Sub(tx, key, salt) == [tx |-> tx, key |-> key, salt |-> salt]

\* Transaction 5 is in both branches; key 3 has no wallet; transactions 2 and
\* 6 repeat the salt and key of another.
MCCarried == [b \in MCBlocks |->
    CASE b = a2 -> <<Sub(4, 2, 0), Sub(2, 2, 0)>>
      [] b = a3 -> <<Sub(1, 1, 1), Sub(5, 2, 1)>>
      [] b = b3 -> <<Sub(5, 2, 1), Sub(6, 2, 0), Sub(7, 3, 1)>>
      [] b = a4 -> <<Sub(8, 1, 0)>>
      [] b = a5 -> <<Sub(3, 2, 1)>>
      [] b \in {b4, c4} -> <<Sub(9, 2, 0)>>
      [] b \in {b5, c5} -> <<Sub(8, 1, 0)>>
      [] OTHER -> << >>]

\* Two witnesses of epoch 1, the second at the fork, at the same time; the
\* first may be sent again with another time.
MCAttesters == {[at |-> 2, key |-> 1, time |-> 5], [at |-> 3, key |-> 1, time |-> 5]}
MCSentAgain == MCAttesters \cup {[at |-> 2, key |-> 1, time |-> 6]}

MCBudgets == {[faults |-> 1, crashes |-> 1, coming |-> {}],
              [faults |-> 2, crashes |-> 0, coming |-> {}],
              [faults |-> 1, crashes |-> 0, coming |-> MCAttesters],
              [faults |-> 0, crashes |-> 1, coming |-> MCAttesters],
              [faults |-> 0, crashes |-> 0, coming |-> MCSentAgain]}

\* Ties between keys 1 and 2, and between the salts of a key.
MCBits(root, key, salt) ==
    CASE root = a1 -> IF salt = 1 THEN 3 ELSE 2
      [] root = a3 -> IF key = 1 THEN 1 ELSE 2
      [] OTHER -> 2
=============================================================================
