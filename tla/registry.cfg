CONSTANTS
  g1 = g1
  g2 = g2
  n1 = n1
  n2 = n2
  s1 = s1
  s2 = s2
  Goroutines = {g1, g2}
  Names = {n1, n2}
  Sessions = {s1, s2}
  None = None
SPECIFICATION FairSpec
INVARIANTS
  Inv
  NoSessionLeaks
PROPERTIES
  CloseAllLeavesNothing
  CallsReturn
  ImplementsContract
