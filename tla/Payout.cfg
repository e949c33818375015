CONSTANTS
    BlockLog2 = 1
    m1 = m1  m2 = m2
    Payer = Payer  Relayer = Relayer  Contract = Contract  Collector = Collector
    Merchants = {m1, m2}
    Ready = {m1}
    Limits <- MCLimits
    Files <- MCFiles
    Policies <- MCPolicies
    Fees = {0, 1}
    Funds = 8
    MaxU64 = 2
    Deadlines = {1, 2}
    MaxSigned = 2
    MaxNow = 2
    PermitUntil = 0
    RefundLines = {1, 2}
    HoldFee = 1
    MaxDepth = 2
    MaxBooks = 2
SPECIFICATION Spec
INVARIANTS IntentPaidOnce OnlyTheListIsPaid VaultIsTheRest UnpaidLinesAreNamed EscrowIsBacked
CHECK_DEADLOCK FALSE
