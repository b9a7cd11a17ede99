SPECIFICATION FairSpec
CONSTANTS
    None = None
    Ledger = Ledger
    PeriodIds <- MCPeriodIds
    Dates <- MCDates
    Paths <- MCPaths
    Limits <- BalanceLimit
    MaxAccounts = 8
    Policy <- MCPolicy
    MaxMinor = 1000000
    MaxPostings = 4
    MAX_PAGE_SIZE = 100
    Suite <- check_all
    Setups <- MCSetups
    SEQUENCING_ATTEMPTS = 512
    IdlePasses = 8
INVARIANTS
    Conforms
    CatchesDefects
PROPERTIES
    ReportComes
CHECK_DEADLOCK FALSE
