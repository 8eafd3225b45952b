CONSTANTS
  insert = insert
  select = select
  drop = drop
  c1 = c1
  c2 = c2
  Callers = {c1, c2}
  Stmts = {insert, drop, select}
  NoStmt = NoStmt
  Selects = {select}
  Blocked = {drop}
  Methods = {"Exec", "Query", "Commit", "Rollback"}
  Timeouts = {TRUE}
SPECIFICATION Spec
INVARIANTS
  Inv
  CommitIsMarked
  ReplyTruthful
  DoneClosedOnce
  AckedIsDurable
  MonitorSparesCommit
PROPERTIES
  ImplementsContract
