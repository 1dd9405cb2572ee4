------------------------------ MODULE MCPeers ------------------------------
(* Instance of Peers: two nodes that agree or differ. *)
EXTENDS Peers

AnyCompat == {"same", "version", "checksum", "network"}
=============================================================================
