SPECIFICATION FairSpec
CONSTANTS
  Worker = {w1, w2}
  Op = {o1, o2}
  Row = {r1}
  MaxEpoch = 1
  None = None
  Backend = "postgres"
  Compactor = {w1}
  Poster = {w2}
  Ingester = {}
  Thread = {"pool"}
  MidMethodCrash = FALSE
PROPERTIES
  DeadCompactionIsTakenOver
  OrphanPhaseIsLeft
CHECK_DEADLOCK FALSE
