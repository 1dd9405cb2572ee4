---------------------------- MODULE MCThreadLinks ----------------------------
(* Instances of ThreadLinks. *)
EXTENDS ThreadLinks
=============================================================================
