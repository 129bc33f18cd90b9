SPECIFICATION FeedbackSpec
CONSTANTS
  Layout <- MutualLayout
  Keys <- MutualKeys
  MaxTime = 2
  LastEvent = 1
  MaxTentative = 2
  MaxPending = 3
INVARIANTS
  HeldIsDown
  HeldChordFired
  RewriteComplete
PROPERTIES
  RewriteOnlyOwn
