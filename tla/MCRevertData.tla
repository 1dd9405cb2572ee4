----------------------------- MODULE MCRevertData -----------------------------
(* Three tables stand for the thirteen: headers, a table that is always    *)
(* purged, and one that is purged on request.                              *)
EXTENDS RevertData

MCTables == {"headers", "witnesses", "utxos"}
MCUtxos == {"utxos"}
=============================================================================
