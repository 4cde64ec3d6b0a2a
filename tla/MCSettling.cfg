SPECIFICATION SettlingSpec
CONSTANTS
  Looks <- MCLooks
  Cost <- MCCost
  Keys = {k1}
  Bufs = {b1}
  Docs <- MCTwo
  Widths = {80}
  Narrowest = 8
  Layout <- MCLayout
  Index <- MCIndex
  FailingDocs = {}
  MaxSessions = 1
  MaxCancelled = 1
  Scenarios <- MCResting
  Tabs = {t1}
  StreamDocs = {"plain", "typed", "lower", "split"}
  Page <- MCPage
  Elements <- MCElements
  Size <- MCSize
  Capacity = 1
  Socket = 2
  GiveUp = 2
  MaxOpts = 2
  StreamBudgets <- Browsing
INVARIANTS
  NoneBehind
PROPERTIES
  PreviewSettles
  NothingLeftWaiting
  MirrorsTheEditor
  PagesSettle
CHECK_DEADLOCK FALSE
