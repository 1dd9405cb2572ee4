---------------------------- MODULE ChainObserver ----------------------------
(***************************************************************************)
(* ChainObserver: how far the indexer is (pendingBlockHeight, mirrored in  *)
(* the database as inProgressBlock = pendingBlockHeight + 1), which height *)
(* the next task gets (bestTip) and how far it has to go                   *)
(* (targetBlockHeight).                                                    *)
(***************************************************************************)
EXTENDS BlockStore

VARIABLES pendingBlockHeight, bestTip, targetBlockHeight

observerVars == <<pendingBlockHeight, bestTip, targetBlockHeight>>

\* setNewHeight, with updateCurrentBlockProgress.
SetNewHeight(h) ==
    /\ pendingBlockHeight' = h
    /\ inProgressBlock' = h + 1

\* fetchCurrentHeightFromDB.
HeightFromDB == IF inProgressBlock <= 0 THEN inProgressBlock ELSE inProgressBlock - 1

\* sync, run by init: where the previous process stopped.
Sync ==
    /\ pendingBlockHeight' = HeightFromDB
    /\ bestTip' = HeightFromDB
    /\ targetBlockHeight' = BlockCount

ObserverTypeOK ==
    /\ pendingBlockHeight \in Heights
    /\ bestTip \in 0 .. MaxHeight + 1
    /\ targetBlockHeight \in Heights
=============================================================================
