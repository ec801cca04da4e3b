CONSTANTS
  Request = {r1}
  TagFuture = {t1, t2, t3, t4}
  Future = {f1, f2, f3, f4, f5}
  Hash = {h1}
  MaxTurn = 3
  Protected = 1
  MaxExtra = 1
  None = None
SPECIFICATION FairSpec
INVARIANTS TaggedOnce ReservationsHaveTasks
PROPERTIES DemandSpec WaitsEnd
