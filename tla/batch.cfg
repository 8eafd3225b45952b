CONSTANTS
  N = 3
  Blockings = {{}, {2}, {3}}
SPECIFICATION Spec
INVARIANTS
  Inv
  AllOrNothing
  FailureStoresNothing
  CleanReportIsTrue
  NothingLeftOpen
  StopsAtFirstError
CHECK_DEADLOCK FALSE
