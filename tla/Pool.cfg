SPECIFICATION PoolSpec
CONSTANTS
  j1 = j1
  w1 = w1
  w2 = w2
  o1 = o1
  Jobs <- MCJobs
  Workers <- MCWorkers
  Operators <- MCOperators
  None = None
  MaxDeliveries = 2
  MaxRounds = 2
  MaxInFlight = 1
  Burst = 1
INVARIANTS
  OrderListsTheJobs
  OneReceiptARound
  ThrottleIsWhole
  RedriveIsNotLost
PROPERTIES
  JobsLeaveWorkedOff
  ShutdownEnds
CHECK_DEADLOCK FALSE
