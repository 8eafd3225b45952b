CONSTANTS
  Methods = {"Query", "QueryWithLimit", "QueryWithOffset", "QueryWithOptions", "QueryRead", "TxQuery", "TxQueryWithOffset", "qc query"}
  DefaultLimits <- SmallDefaults
  MaxLimits <- SmallMaxima
  Limits <- SmallLimits
  OwnLimits = {{}, {0}, {2}}
  OwnOffsets = {{}, {1}}
  CursorDefault = 3
  MaxRows = 4
SPECIFICATION FairSpec
INVARIANTS
  Inv
  NothingSkipped
  NothingTwice
  PageFits
PROPERTIES
  PagingEnds
CHECK_DEADLOCK FALSE
