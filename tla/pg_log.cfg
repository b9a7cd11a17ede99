SPECIFICATION Spec
CONSTANTS
    c1 = c1
    c2 = c2
    s1 = s1
    s2 = s2
    k1 = k1
    k2 = k2
    k3 = k3
    k4 = k4
    k5 = k5
    None = None
    Ledger = Ledger
    Clients <- MCClients
    Sequencers <- MCSequencers
    PeriodIds <- NoPeriods
    Dates <- MCDates
    Paths <- MCPaths
    Limits <- BalanceLimit
    MaxAccounts = 3
    Policy <- NoPolicy
    MaxMinor = 9
    MaxPostings = 2
    MAX_PAGE_SIZE = 2
    Registrations <- MCRegistrations
    Setups <- LogSetups
    MaxXid = 4
INVARIANTS
    LogExact
    LimitsStand
    AnswersStand
    ReversedOnce
    OrderIsFinal
CHECK_DEADLOCK FALSE
