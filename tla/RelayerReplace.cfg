SPECIFICATION FairSpec
CONSTANTS
  i1 = i1
  i2 = i2
  w1 = w1
  w2 = w2
  wallet = wallet
  Workers <- MCWorkers
  Intents <- OneIntent
  None = None
  Wallet = wallet
  Ordered = TRUE
  CanReplace = TRUE
  Faults = FALSE
  Panics = FALSE
  MaxAttempts = 2
  MaxTries = 2
  MaxFee = 1
  MaxDeliveries = 3
  MaxRounds = 1
INVARIANTS
  RelayerTypeOK
  HoldBeforeBroadcast
  ConfirmedByAPayment
PROPERTY
  Handled
CHECK_DEADLOCK FALSE
