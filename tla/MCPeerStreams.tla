--------------------------- MODULE MCPeerStreams ---------------------------
EXTENDS PeerStreams
=============================================================================
