\* A node started between slot boundaries, with on_slot slowed by the chain
\* lock: does it ever propose two blocks for one slot?
CONSTANTS
  SLOT_DURATION = 3
  StartTimes <- MCStartTimes
  k1 = k1
  k2 = k2
  Validators <- MCValidators
  MyKey = k1
  DevMode = TRUE
  EPOCH_LENGTH = 64
  VrfBelow <- MCVrfBelow
  MaxTime = 8
  MaxPeerBlocks = 1
SPECIFICATION Spec
INVARIANT OwnBlockPerSlot
