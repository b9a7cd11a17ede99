SPECIFICATION Spec
CONSTANTS
    a1 = a1
    a2 = a2
    p1 = p1
    jan = jan
    feb = feb
    k1 = k1
    k2 = k2
    k3 = k3
    None = None
    Ledger = Ledger
    PeriodIds <- MCPeriodIds
    Dates <- MCDates
    Paths <- MCPaths
    Limits <- BalanceLimit
    MaxAccounts = 3
    Policy <- MCPolicy
    MaxMinor = 9
    MaxPostings = 2
    MAX_PAGE_SIZE = 2
    Setups <- MCSetups
    ProofKey <- MCProofKey
    Chart <- MCChart
INVARIANTS
    ChainVerifies
    SealsDescribeTheirHead
    NoFalseAlarm
CHECK_DEADLOCK FALSE
