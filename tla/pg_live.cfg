SPECIFICATION LiveSpec
CONSTANTS
    c1 = c1
    c2 = c2
    s1 = s1
    s2 = s2
    k1 = k1
    k2 = k2
    k3 = k3
    k4 = k4
    k5 = k5
    None = None
    Ledger = Ledger
    Clients <- MCClients
    Sequencers <- MCSequencers
    PeriodIds <- NoPeriods
    Dates <- MCDates
    Paths <- MCPaths
    Limits <- BalanceLimit
    MaxAccounts = 3
    Policy <- NoPolicy
    MaxMinor = 9
    MaxPostings = 2
    MAX_PAGE_SIZE = 2
    Registrations <- MCRegistrations
    Setups <- LiveSetups
    MaxXid = 3
PROPERTIES
    AppendsEnd
    EventuallyPlaced
CHECK_DEADLOCK FALSE
