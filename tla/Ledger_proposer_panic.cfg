\* One RPC user sending transfers, other validators' blocks taking them
\* from gossip: the proposer panics on a nonce the head already used.
CONSTANTS
  a1 = a1
  a2 = a2
  zero = zero
  Accounts <- MCAccounts
  Zero = zero
  Local = {a1}
  Values = {1}
  FEE = 1
  InitBalance <- MCInitRich
  MaxNonce = 2
  MaxTxs = 3
  MaxHeight = 3
  ForgedSigs = FALSE
  PeerBlocks = TRUE
  ByzantineBlocks = FALSE
SPECIFICATION Spec
INVARIANT NoProposerPanic
CHECK_DEADLOCK FALSE
