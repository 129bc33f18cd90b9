SPECIFICATION KeyboardSpec
CONSTANTS
  Layout <- OneshotLayout
  Keys <- OneshotKeys
  MaxTime = 1
  LastEvent = 1
  MaxTentative = 2
  MaxPending = 3
PROPERTIES
  OneshotUntilNextKey
