SPECIFICATION Spec
CONSTANTS
  Worker = {w1, w2}
  Op = {o1}
  Row = {r1}
  MaxEpoch = 2
  None = None
  Backend = "postgres"
  Compactor = {w1, w2}
  Poster = {w2}
  Ingester = {w1}
  Thread = {"pool"}
  MidMethodCrash = FALSE
SYMMETRY OpSymmetry
INVARIANTS
  StaleWorkerFenced
CHECK_DEADLOCK FALSE
