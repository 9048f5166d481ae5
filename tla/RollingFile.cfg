SPECIFICATION FairSpec
CONSTANTS
  Writers = {w1, w2}
  LastDay = 2
  MaxPaths = 2
INVARIANTS HandlesAccounted EntryFitsFile
PROPERTIES LoggingReturns
