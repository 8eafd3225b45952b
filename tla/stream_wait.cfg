CONSTANTS
  s1 = s1
  s2 = s2
  Streams = {s1, s2}
  Results = {2}
  WithDeadline = {s2}
  StreamBatchSize = 1
  MaxOpenConns = 1
  Limits = {0}
SPECIFICATION Spec
INVARIANT
  WaitIsLast
