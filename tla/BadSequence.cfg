SPECIFICATION KeyboardSpec
CONSTANTS
  Layout <- PrefixLayout
  Keys <- PrefixKeys
  MaxTime = 1
  LastEvent = 0
  MaxTentative = 2
  MaxPending = 3
PROPERTIES
  SequenceRewritable
