SPECIFICATION Spec
CONSTANTS
  r1 = r1
  r2 = r2
  usdc = usdc
  usdt = usdt
  payer = payer
  merchant = merchant
  fee = fee
  Refs <- MCRefs
  Assets <- MCAssets
  Accounts <- MCAccounts
  Ids <- MCIds
  Proposals <- MCProposals
  None = None
  MaxEntries = 5
INVARIANTS
  JournalTypeOK
  HoldResolvedOnce
  ReplayIsSilent
  BalancesAreTheBooks
  EditsAreFound
CHECK_DEADLOCK FALSE
