SPECIFICATION FairSpec
CONSTANTS
  Request = {r1}
  MaxBlocks = 2
  MaxLoops = 3
  None = None
  r1 = r1
INVARIANTS TypeOK WireWellFormed CallsAnswered RecordedIsShown
PROPERTY StreamsEnd
CHECK_DEADLOCK FALSE
