SPECIFICATION FairSpec
CONSTANTS
  AtOnce = FALSE
  MaxRestarts = 1
  Window = 0
  Stable = 1
  Budget <- Exits
INVARIANTS
  OneDaemon
  ReadyMeansGreeted
PROPERTIES
  StopIsFinal
  EveryCallEnds
CHECK_DEADLOCK FALSE
