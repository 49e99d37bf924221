\* The same orphan gossiped twice, nothing else importing.
CONSTANTS
  ChainHeight = 6
  SLOT_IMPORT_TOLERANCE = 1
  MaxOrphans = 2
  RacingImports = FALSE
  Lossy = FALSE
SPECIFICATION Spec
PROPERTY OrphanResolved
CHECK_DEADLOCK FALSE
