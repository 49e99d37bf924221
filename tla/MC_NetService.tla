---------------------------- MODULE MC_NetService ----------------------------
EXTENDS NetService

CONSTANTS p1, p2

MCPeers == {p1, p2}
==============================================================================
