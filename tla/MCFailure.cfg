SPECIFICATION EngineSpec
CONSTANTS
  Layout <- FailureLayout
  Keys <- FailureKeys
  MaxTime = 1
  LastEvent = 0
  MaxTentative = 1
  MaxPending = 1
  Connected = FALSE
  SuperTokens = {}
  MaxFailures = 1
  MaxText = 2
INVARIANTS
  TentativeOnScreen
PROPERTIES
  RewriteExact
  TypedIsShown
