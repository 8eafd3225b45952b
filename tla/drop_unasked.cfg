CONSTANTS
  Invocations <- Dropping
  Lines = {}
SPECIFICATION Spec
INVARIANTS
  DropsAreAsked
CHECK_DEADLOCK FALSE
