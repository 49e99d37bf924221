\* p1 is a bootnode on the loopback address, so Kademlia's FindPeers never
\* enters it in nodes; p2 is an ordinary peer on another network.
CONSTANTS
  p1 = p1
  p2 = p2
  Peers <- MCPeers
  BootNodes = {p1}
  Routable = {p2}
  Foreign = {p2}
  DIAL_PEER_LIMIT = 1
  MaxEnv = 4
  MaxTicks = 2
SPECIFICATION Spec
INVARIANT NoDisconnectPanic
CHECK_DEADLOCK FALSE
