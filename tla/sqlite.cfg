SPECIFICATION Spec
CONSTANTS
    o1 = o1
    o2 = o2
    a1 = a1
    a2 = a2
    jan = jan
    feb = feb
    k1 = k1
    k2 = k2
    k3 = k3
    k4 = k4
    x1 = x1
    x2 = x2
    x3 = x3
    l1 = l1
    l2 = l2
    None = None
    Ledger = Ledger
    PeriodIds <- MCPeriodIds
    Dates <- MCDates
    Paths <- MCPaths
    Limits <- BalanceLimit
    MaxAccounts = 3
    Policy <- MCPolicy
    MaxMinor = 9
    MaxPostings = 3
    MAX_PAGE_SIZE = 2
    Setups <- MCSetups
    LedgerNames <- MCLedgers
    ViewKey <- MCViewKey
    PageSizes = {0, 1, 3}
INVARIANTS
    OneLedger
    DeliversLikeTheJournal
    PagesAgree
    SealsDescribeTheirHead
CHECK_DEADLOCK FALSE
