--------------------------- MODULE MCPeerSession ---------------------------
(* Model-checking instance of PeerSession. *)
EXTENDS PeerSession
=============================================================================
