SPECIFICATION Spec
CONSTANTS
  a1 = a1
  a2 = a2
  h1 = h1
  h2 = h2
  Accounts <- MCAccounts
  Holders <- MCHolders
  None = None
  MaxNumber = 4
  Boot = 1
SYMMETRY MCSymmetry
INVARIANTS
  Outstanding
  NeverReissued
  NoNumberDropped
