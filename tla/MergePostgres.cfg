SPECIFICATION Spec
CONSTANTS
  MaxConv = 2
  Merge = {m1, m2}
  Attach = {x1}
  Request = {r1, r2}
  MaxTurn = 9
  None = None
  Postgres = TRUE
SYMMETRY Symmetry
INVARIANTS
  TypeOK
  TurnsDistinct
  AuditTruthful
  MovedRowsLive
  NoLockCycle
CHECK_DEADLOCK FALSE
