SPECIFICATION Spec
CONSTANTS
  Settings = {calm, eager}
  Hour = 2
  MaxFailures = 1
INVARIANT LoopLives
CHECK_DEADLOCK FALSE
