SPECIFICATION StreamSpec
CONSTANTS
  Tabs = {t1}
  StreamDocs = {"plain", "uneven"}
  Page <- MCPage
  Elements <- MCElements
  Size <- MCSize
  Capacity = 2
  Socket = 2
  GiveUp = 2
  MaxOpts = 1
  StreamBudgets <- Shifting
INVARIANTS
  TrustedIsReal
CHECK_DEADLOCK FALSE
