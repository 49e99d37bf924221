\* Two honest peers holding the chain: the second AddPeer, handled while a
\* batch is processed, re-indexes the chain and the sync never completes.
CONSTANTS
  p1 = p1
  p2 = p2
  NoBatch = NoBatch
  Peers <- MCPeers
  FaultyPeers = {}
  BLOCKS_PER_BATCH = 2
  BATCH_BUFFER_SIZE = 1
  ChainHeight = 4
  InitPeerHead <- MCHeadsFull
  Lossy = FALSE
  Gossip = FALSE
  PeersGrow = FALSE
  MaxDrops = 0
SPECIFICATION Spec
PROPERTY EventuallySynced
CHECK_DEADLOCK FALSE
