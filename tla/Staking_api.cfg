\* Any sequence of seven staking calls, direct or through Interpreter::call,
\* from the genesis registry: the list stays well formed and implements the
\* registry of spec 4.5 (stake and the locked funds included).
CONSTANTS
  v1 = v1
  v2 = v2
  v3 = v3
  Nil = Nil
  Addrs <- MCAddrs
  Amounts = {1, 2}
  Width = 4
  InitBalance <- MCInitBalance
  GenesisValidators <- MCGenesis
  MaxCalls = 7
SPECIFICATION Spec
INVARIANT ListWellFormed
PROPERTY RegistryRefined
CHECK_DEADLOCK FALSE
