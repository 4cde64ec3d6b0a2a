SPECIFICATION StreamSpec
CONSTANTS
  Tabs = {t1}
  StreamDocs = {"plain", "other"}
  Page <- MCPage
  Elements <- MCElements
  Size <- MCSize
  Capacity = 2
  Socket = 2
  GiveUp = 2
  MaxOpts = 1
  StreamBudgets <- Lagging
PROPERTIES
  NeverShowsOlder
CHECK_DEADLOCK FALSE
