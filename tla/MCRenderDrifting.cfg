SPECIFICATION Spec
CONSTANTS
  Looks <- MCLooks
  Cost <- MCCost
  Keys = {k1}
  Bufs = {b1}
  Docs <- MCTyped
  Widths = {80}
  Narrowest = 8
  Layout <- MCLayout
  Index <- MCIndex
  FailingDocs = {}
  MaxSessions = 1
  MaxCancelled = 1
  Scenarios <- MCDrifting
INVARIANTS
  ShowsWhatWasRendered
CHECK_DEADLOCK FALSE
