SPECIFICATION EngineSpec
CONSTANTS
  Layout <- EngineLayout
  Keys <- EngineKeys
  MaxTime = 1
  LastEvent = 0
  MaxTentative = 1
  MaxPending = 2
  Connected = TRUE
  SuperTokens = {}
  MaxFailures = 0
  MaxText = 2
INVARIANTS
  TentativeOnScreen
  ShownIsSession
PROPERTIES
  RewriteExact
  RewritesAreAtomic
