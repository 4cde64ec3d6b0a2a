SPECIFICATION Spec
CONSTANTS
  Looks <- MCLooks
  Cost <- MCCost
  Keys = {k1}
  Bufs = {b1}
  Docs <- MCTyped
  Widths = {40, 80}
  Narrowest = 8
  Layout <- MCLayout
  Index <- MCIndex
  FailingDocs = {"both"}
  MaxSessions = 1
  MaxCancelled = 1
  Scenarios <- MCEditing
INVARIANTS
  TypeOK
  ShowsItsLastAnswer
PROPERTIES
  NeverGoesBack
CHECK_DEADLOCK FALSE
