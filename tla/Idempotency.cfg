SPECIFICATION Spec
CONSTANTS
  r1 = r1
  r2 = r2
  r3 = r3
  r4 = r4
  b1 = b1
  b2 = b2
  d1 = d1
  d2 = d2
  d3 = d3
  k1 = k1
  Requests <- MCRequests
  Keys = {k1}
  Bodies <- MCBodies
  Invalid <- MCInvalid
  Ids <- MCIds
  None = None
  Lease = 1
  TTL = 3
  InTime = TRUE
  MaxNow = 5
SYMMETRY MCSymmetry
INVARIANTS
  OneAnswerAKey
  AnswerIsForThatRequest
  SecondIntentOnlyAfterTheLease
CHECK_DEADLOCK FALSE
