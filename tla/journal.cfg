SPECIFICATION Spec
CONSTANTS
    jan = jan
    feb = feb
    mar = mar
    e1 = e1
    e2 = e2
    e3 = e3
    e4 = e4
    k1 = k1
    k2 = k2
    k3 = k3
    None = None
    Ledger = Ledger
    PeriodIds <- MCPeriodIds
    Dates <- MCDates
    Paths <- MCPaths
    Limits <- MCLimits
    MaxAccounts = 3
    Policy <- MCPolicy
    MaxMinor = 2
    MaxPostings = 2
    Chart <- MCChart
    PeriodTable <- MCPeriodTable
    Drafts <- MCDrafts
    NewAccounts <- MCNewAccounts
    NewPeriods <- MCNewPeriods
    Managed = {1}
    ClosingDates <- MCClosingDates
    MaxBatch = 2
INVARIANTS
    IndexesExact
    ReversalsNet
    SealedBalancesProve
PROPERTIES
    LimitsRespected
    KeepsSealedBooks
CHECK_DEADLOCK FALSE
