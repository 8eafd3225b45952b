CONSTANTS
  Invocations <- Shell
  Lines <- ShortLines
SPECIFICATION Spec
INVARIANT
  TypedCommitKeeps
CHECK_DEADLOCK FALSE
