SPECIFICATION Spec
CONSTANTS
  i1 = i1
  e1 = e1
  Intents = {i1}
  l1 = l1
  Callers <- MCCallers
  Engines = {e1}
  None = None
  NumTxs = 2
  OneOf = TRUE
  Rule <- Default
  MaxHeight = 2
  MaxVersion = 7
  Sends = {"right", "short"}
  Strange <- MCStrange
  Crashes = TRUE
INVARIANT PostIsNeverRefused
CHECK_DEADLOCK FALSE
