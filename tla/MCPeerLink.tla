----------------------------- MODULE MCPeerLink -----------------------------
(* PeerLink for TLC. *)
EXTENDS PeerLink, TLC

\* The servers and the connection slots are interchangeable: for safety only.
MCSymmetry == Permutations(Node) \cup Permutations(Conn)
=============================================================================
