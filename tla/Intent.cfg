SPECIFICATION Spec
CONSTANTS
  i1 = i1
  c1 = c1
  c2 = c2
  x1 = x1
  x2 = x2
  Intents = {i1}
  Clients <- MCClients
  Hashes <- MCHashes
  None = None
  MaxVersion = 9
SYMMETRY MCSymmetry
INVARIANTS
  HistoryIsAWalk
  SettledByTheConfirmedHash
PROPERTY
  NoLostUpdate
CHECK_DEADLOCK FALSE
