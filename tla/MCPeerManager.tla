--------------------------- MODULE MCPeerManager ---------------------------
(* A small instance of PeerManager. *)
EXTENDS PeerManager

CONSTANTS p1, h1, h2
=============================================================================
