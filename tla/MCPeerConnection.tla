------------------------- MODULE MCPeerConnection --------------------------
EXTENDS PeerConnection
=============================================================================
