\* One honest peer whose chain grows while the node syncs from it, no
\* gossip, no lost streams: does range sync request every height between
\* the local head and the target?
CONSTANTS
  p1 = p1
  p2 = p2
  NoBatch = NoBatch
  Peers <- MCOnePeer
  FaultyPeers = {}
  BLOCKS_PER_BATCH = 2
  BATCH_BUFFER_SIZE = 2
  ChainHeight = 5
  InitPeerHead <- MCHeadsLow
  Lossy = FALSE
  Gossip = FALSE
  PeersGrow = TRUE
  MaxDrops = 0
SPECIFICATION Spec
INVARIANT NoHeightSkipped
CHECK_DEADLOCK FALSE
