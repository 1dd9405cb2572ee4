---------------------------- MODULE IndexedChain ----------------------------
(***************************************************************************)
(* What the indexer promises about the chain it stores: a reader of the    *)
(* block headers sees a sequence of blocks, genesis first, that only grows *)
(* by one block, which extends its last one at the heights where reorgs    *)
(* are looked for, and only shrinks to a prefix.  A stored block is never  *)
(* replaced by another in one step.  Nothing is promised once a call of    *)
(* the indexer to the database or the Bitcoin node has failed.             *)
(***************************************************************************)
EXTENDS Integers, Sequences

CONSTANTS Blocks, Prev,
          Verified  \* the heights at which a block must extend the one below

VARIABLES ledger,
          disturbed  \* a call of the indexer has failed

\* The height of a block appended to s is Len(s).
Extends(s, b) == Len(s) \in Verified => Prev[b] = s[Len(s)]

Init == /\ ~disturbed
        /\ ledger \in Seq(Blocks)
        /\ \A i \in 2 .. Len(ledger) :
             i - 1 \in Verified => Prev[ledger[i]] = ledger[i - 1]

Extend == \E b \in Blocks :
    /\ Extends(ledger, b)
    /\ ledger' = Append(ledger, b)

RollBack == \E n \in 0 .. Len(ledger) - 1 : ledger' = SubSeq(ledger, 1, n)

Next == disturbed' \/ Extend \/ RollBack

Spec == Init /\ [][Next]_<<ledger, disturbed>>
=============================================================================
