SPECIFICATION Spec
CONSTANTS
  i1 = i1
  i2 = i2
  w1 = w1
  w2 = w2
  wallet = wallet
  Workers <- MCWorkers
  Intents <- OneIntent
  None = None
  Wallet = wallet
  Ordered = FALSE
  CanReplace = FALSE
  Faults = TRUE
  Panics = TRUE
  MaxAttempts = 2
  MaxTries = 1
  MaxFee = 0
  MaxDeliveries = 4
  MaxRounds = 2
SYMMETRY WorkerSymmetry
INVARIANTS
  PaidAtMostOnce
  GivenUpMeansNotSent
  FailedLeavesNoHold
  NotForgotten
CHECK_DEADLOCK FALSE
