CONSTANTS
  Invocations <- AllInvocations
  Lines <- ShortLines
SPECIFICATION FairSpec
INVARIANTS
  Inv
  StatementsAreWhole
  NothingUnasked
  NoUnconditionalModify
PROPERTIES
  LineEnds
CHECK_DEADLOCK FALSE
