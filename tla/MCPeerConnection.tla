--------------------------- MODULE MCPeerConnection ---------------------------
(* One connection for TLC; the values of the bounds are in the .cfg files. *)
EXTENDS PeerConnection

=============================================================================
