SPECIFICATION Spec
CONSTANTS
    r1 = r1
    c1 = c1
    c2 = c2
    s1 = s1
    s2 = s2
    k1 = k1
    k2 = k2
    k3 = k3
    x1 = x1
    x2 = x2
    x3 = x3
    None = None
    Ledger = Ledger
    PeriodIds <- MCPeriodIds
    Dates <- MCDates
    Paths <- MCPaths
    Limits <- BalanceLimit
    MaxAccounts = 2
    Policy <- MCPolicy
    MaxMinor = 9
    MaxPostings = 3
    MAX_PAGE_SIZE = 2
    Setups <- MCSetups
    OnKey <- MCOnKey
    Chart <- MCChart
    Bookings <- MCBookings
INVARIANTS
    PagesExact
    OpenItemsComplete
    NeverOverApplied
    CheckpointsVerify
CHECK_DEADLOCK FALSE
