SPECIFICATION Spec
CONSTANTS
  AtOnce = TRUE
  MaxRestarts = 1
  Window = 1
  Stable = 2
  Budget <- Looping
INVARIANTS
  TypeOK
  CalledBackOnce
  RespawnsBounded
CHECK_DEADLOCK FALSE
