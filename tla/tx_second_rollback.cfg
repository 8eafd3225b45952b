CONSTANTS
  insert = insert
  select = select
  drop = drop
  c1 = c1
  c2 = c2
  Callers = {c1}
  Stmts = {select, drop}
  NoStmt = NoStmt
  Selects = {select}
  Blocked = {drop}
  Methods = {"Rollback"}
  Timeouts = {TRUE, FALSE}
SPECIFICATION Spec
INVARIANT
  SecondRollbackIsErrTxDone
