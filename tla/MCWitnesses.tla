---------------------------- MODULE MCWitnesses ----------------------------
(* Instance of Witnesses: two witness threads. *)
EXTENDS Witnesses

TwoThreads == 1 .. 2
=============================================================================
