---------------------------- MODULE ReorgWatchdog ----------------------------
(***************************************************************************)
(* ReorgWatchdog: decides whether the block a task has just executed still *)
(* extends what the database holds, and which height to go back to when it *)
(* does not.  Checksum proofs are taken to verify: the model has no silent *)
(* corruption of a stored header.                                          *)
(***************************************************************************)
EXTENDS ChainObserver

VARIABLES
    currentHeader,  \* the last tip the Bitcoin node announced
    lastBlock       \* the last block verified, "unset" after a restore

watchdogVars == <<currentHeader, lastBlock>>

\* A block and the height it is kept under.
Ref == [number : -1 .. MaxHeight, block : Blocks \cup {NoBlock}]
Unset == [number |-> -1, block |-> NoBlock]

\* Mutant: any stored header ends the walk.
AgreesWithAnything(h) == headers[h] # NoBlock

\* revertToLastGoodBlock compares the stored hash of a height with the one of
\* the Bitcoin node; a height one of them does not know ends it with an error.
Agrees(h) == headers[h] # NoBlock /\ headers[h] = BlockHash(h)

Differs(h) ==
    headers[h] # NoBlock /\ BlockHash(h) # NoBlock /\ headers[h] # BlockHash(h)

\* getLastBlockHash: the watchdog's own copy, or what the validator read.
PreviousOf(tip, fromValidator) ==
    IF lastBlock.number = tip - 1 /\ lastBlock.block # NoBlock
    THEN lastBlock.block
    ELSE fromValidator

WatchdogTypeOK == currentHeader \in Ref /\ lastBlock \in Ref
=============================================================================
