SPECIFICATION Spec
CONSTANTS
  Looks <- MCLooks
  Cost <- MCCost
  Keys = {k1}
  Bufs = {b1}
  Docs <- MCTwo
  Widths = {6, 80}
  Narrowest = 8
  Layout <- MCLayout
  Index <- MCIndex
  FailingDocs = {}
  MaxSessions = 1
  MaxCancelled = 1
  Scenarios <- MCNarrowing
INVARIANTS
  DiscardedOnlyWhenResized
CHECK_DEADLOCK FALSE
