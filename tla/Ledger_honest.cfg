\* Honest users and validators: RPC and gossiped transfers, own and peer
\* blocks racing for the head.  Supply and nonces.
CONSTANTS
  a1 = a1
  a2 = a2
  zero = zero
  Accounts <- MCAccounts
  Zero = zero
  Local = {a1}
  Values = {1, 2}
  FEE = 1
  InitBalance <- MCInitBalance
  MaxNonce = 2
  MaxTxs = 3
  MaxHeight = 3
  ForgedSigs = FALSE
  PeerBlocks = TRUE
  ByzantineBlocks = FALSE
SPECIFICATION Spec
INVARIANT TypeOK
INVARIANT SupplyConserved
INVARIANT NoncesFollowHistory
INVARIANT StateIsReplay
CHECK_DEADLOCK FALSE
