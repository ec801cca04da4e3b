SPECIFICATION OrphanSpec
CONSTANTS
  w1 = w1  w2 = w2  t1 = t1  t2 = t2
  Worker = {w1, w2}
  NRow = 2  MaxEpoch = 1  Slot = {t1}  Batch = 1
  Mortal = {w2}  MaxLapse = 1  MaxPost = None  None = None
PROPERTIES LeaseIsTakenOver ThreadsEnd
CHECK_DEADLOCK FALSE
