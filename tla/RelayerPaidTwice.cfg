SPECIFICATION Spec
CONSTANTS
  i1 = i1
  i2 = i2
  w1 = w1
  w2 = w2
  wallet = wallet
  Workers <- OneWorker
  Intents <- TwoIntents
  None = None
  Wallet = wallet
  Ordered = TRUE
  CanReplace = TRUE
  Faults = FALSE
  Panics = FALSE
  MaxAttempts = 4
  MaxTries = 3
  MaxFee = 2
  MaxDeliveries = 3
  MaxRounds = 1
INVARIANT PaidAtMostOnce
CHECK_DEADLOCK FALSE
