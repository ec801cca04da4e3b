SPECIFICATION Spec
CONSTANTS
  Worker = {w1, w2}
  Op = {o1, o2}
  Row = {r1}
  MaxEpoch = 1
  None = None
  Backend = "sqlite"
  Compactor = {w1}
  Poster = {w2}
  Ingester = {}
  Thread = {"pool", "ingest"}
  MidMethodCrash = FALSE
SYMMETRY OpSymmetry
INVARIANTS
  AbandonedLeavesNothing
  PipelinesExclude
PROPERTIES
  NeverRecompacted
  LedgerSpec
CHECK_DEADLOCK FALSE
