\* A node restarted on a data directory holding genesis, crashing once:
\* does it still reach the tip?
CONSTANTS
  MaxHeight = 3
  MaxCrashes = 1
  FreshDir = FALSE
SPECIFICATION Spec
PROPERTY ChainProgress
CHECK_DEADLOCK FALSE
