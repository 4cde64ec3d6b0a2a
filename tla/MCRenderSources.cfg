SPECIFICATION Spec
CONSTANTS
  Looks <- MCLooks
  Cost <- MCCost
  Keys = {k1, k2}
  Bufs = {b1, b2}
  Docs <- MCMoved
  Widths = {80}
  Narrowest = 8
  Layout <- MCLayout
  Index <- MCIndex
  FailingDocs = {}
  MaxSessions = 1
  MaxCancelled = 1
  Scenarios <- MCSources
INVARIANTS
  TaskHitsItsLine
  NewestOnly
  SessionsBounded
CHECK_DEADLOCK FALSE
