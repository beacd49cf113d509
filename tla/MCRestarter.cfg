SPECIFICATION Spec
CONSTANTS
  a = a
  b = b
  Containers <- MCContainers
  Settings <- MCSettings
  Hour = 2
  BootTime = 3
  MaxTime = 7
SYMMETRY Symmetry
INVARIANT TypeOK
INVARIANT MemoryMatchesHistory
INVARIANT LoopProtection
PROPERTY ImplementsPolicy
PROPERTY NoRestartWithheld
\* The clock stops at MaxTime, and then the collector's loop does too.
CHECK_DEADLOCK FALSE
