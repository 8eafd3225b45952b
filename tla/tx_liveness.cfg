CONSTANTS
  insert = insert
  select = select
  drop = drop
  c1 = c1
  c2 = c2
  Callers = {c1, c2}
  Stmts = {select, drop}
  NoStmt = NoStmt
  Selects = {select}
  Blocked = {drop}
  Methods = {"QueryWithOffset", "Commit", "Rollback"}
  Timeouts = {TRUE, FALSE}
SPECIFICATION FairSpec
PROPERTIES
  ExpiryEnds
  MarkedEnds
  MonitorExits
  CallsReturn
