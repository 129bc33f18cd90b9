SPECIFICATION EngineSpec
CONSTANTS
  Layout <- EngineLayout
  Keys <- AloneKeys
  MaxTime = 1
  LastEvent = 1
  MaxTentative = 1
  MaxPending = 2
  Connected = FALSE
  SuperTokens = {}
  MaxFailures = 0
  MaxText = 2
PROPERTIES
  RewriteExact
