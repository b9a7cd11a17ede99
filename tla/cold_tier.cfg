SPECIFICATION Spec
CONSTANTS
    jan = jan
    feb = feb
    k1 = k1
    k2 = k2
    k3 = k3
    None = None
    Ledger = Ledger
    PeriodIds <- MCPeriodIds
    Dates <- MCDates
    Paths <- MCPaths
    Limits <- BalanceLimit
    MaxAccounts = 2
    Policy <- MCPolicy
    MaxMinor = 9
    MaxPostings = 2
    MAX_PAGE_SIZE = 2
    Accounts <- MCAccounts
    Batches <- MCBatches
    Periods_ <- MCPeriods
    DEFAULT_PAGE_SIZE = 1
    MaxDamage = 1
INVARIANTS
    ArchiveExact
    ArchiveProves
    RefusalMeansDamage
