SPECIFICATION Spec
CONSTANTS
  w1 = w1  w2 = w2  t1 = t1  t2 = t2
  Worker = {w1, w2}
  NRow = 2  MaxEpoch = 2  Slot = {t1}  Batch = 2
  Mortal = {w1}  MaxLapse = 0  MaxPost = 2  None = None
INVARIANTS TypeOK UntaggedIsAnswered
CHECK_DEADLOCK FALSE
