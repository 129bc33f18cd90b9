SPECIFICATION FairEngineSpec
CONSTANTS
  Layout <- TimerLayout
  Keys <- TimerKeys
  MaxTime = 2
  LastEvent = 1
  MaxTentative = 1
  MaxPending = 2
  Connected = TRUE
  SuperTokens = {}
  MaxFailures = 0
  MaxText = 1
PROPERTIES
  TailFires
