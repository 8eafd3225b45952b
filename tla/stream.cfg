CONSTANTS
  s1 = s1
  s2 = s2
  Streams = {s1, s2}
  Results = {0, 2}
  WithDeadline = {s2}
  StreamBatchSize = 1
  MaxOpenConns = 1
  Limits = {0, 1}
SPECIFICATION FairSpec
INVARIANTS
  Inv
  SlotsAreExact
  NoSilentTruncation
  EndFreesConnection
PROPERTIES
  ImplementsContract
  CloseEnds
  DeadlineEnds
  NextEnds
