SPECIFICATION Spec
CONSTANTS
  Layout <- MixedLayout
  Keys <- MixedKeys
  MaxTime = 1
  LastEvent = 1
  MaxTentative = 1
  MaxPending = 2
INVARIANTS
  TypeOK
  DeadlineCovers
  ConsumedHeld
