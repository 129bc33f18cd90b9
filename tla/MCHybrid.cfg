SPECIFICATION KeyboardSpec
CONSTANTS
  Layout <- HybridLayout
  Keys <- HybridKeys
  MaxTime = 1
  LastEvent = 1
  MaxTentative = 1
  MaxPending = 2
INVARIANTS
  HeldMatchesKeyboard
  RewriteComplete
  DirectSilent
PROPERTIES
  TapIsLone
  RewriteOnlyOwn
  ChordWithinWindow
