\* Two peers building the chain and gossiping new tips while the node syncs,
\* p2 faulty (empty or out-of-range answers), streams that may fail: the
\* processor and buffer bounds hold under every interleaving.
CONSTANTS
  p1 = p1
  p2 = p2
  NoBatch = NoBatch
  Peers <- MCPeers
  FaultyPeers = {p2}
  BLOCKS_PER_BATCH = 2
  BATCH_BUFFER_SIZE = 1
  ChainHeight = 3
  InitPeerHead <- MCHeadsLow
  Lossy = TRUE
  Gossip = TRUE
  PeersGrow = TRUE
  MaxDrops = 1
SPECIFICATION Spec
INVARIANT TypeOK
CHECK_DEADLOCK FALSE
 
