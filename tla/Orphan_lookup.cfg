\* Orphans gossiped (one of them possibly twice) while range sync or gossip
\* imports race the lookup and parent requests may fail.
CONSTANTS
  ChainHeight = 6
  SLOT_IMPORT_TOLERANCE = 1
  MaxOrphans = 2
  RacingImports = TRUE
  Lossy = TRUE
SPECIFICATION Spec
INVARIANT TypeOK
INVARIANT LookupChained
PROPERTY ChildrenFlushed
CHECK_DEADLOCK FALSE
