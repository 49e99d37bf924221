\* A fresh node importing a 3-block chain, crashing up to twice anywhere
\* between two puts and restarted after each crash.  A synced node, or one
\* whose load panics, has nothing left to do.
CONSTANTS
  MaxHeight = 3
  MaxCrashes = 2
  FreshDir = TRUE
SPECIFICATION Spec
INVARIANT HeadComplete
CHECK_DEADLOCK FALSE
PROPERTY HeadFollows
