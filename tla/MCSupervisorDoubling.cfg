SPECIFICATION Spec
CONSTANTS
  AtOnce = TRUE
  MaxRestarts = 1
  Window = 0
  Stable = 1
  Budget <- Doubling
INVARIANTS
  OneDaemon
CHECK_DEADLOCK FALSE
