SPECIFICATION StoreSpec
CONSTANTS
    jan = jan
    e1 = e1
    e2 = e2
    e3 = e3
    e4 = e4
    k1 = k1
    k2 = k2
    k3 = k3
    kc = kc
    g1 = g1
    g2 = g2
    c1 = c1
    c2 = c2
    None = None
    Ledger = Ledger
    Clients <- MCClients
    Assignments <- MCAssignments
    ResetDates = {1}
    ClosingKeys <- MCClosingKeys
    AccountKinds <- MCAccountKinds
    kinds <- MCkinds
    equity = 3
    closed_layer = "Settled"
    PeriodIds <- MCPeriodIds
    Dates <- MCDates
    Paths <- MCPaths
    Limits <- MCLimits
    MaxAccounts = 4
    Policy <- MCPolicy
    MaxMinor = 9
    MaxPostings = 4
    Chart <- MCChart
    PeriodTable <- MCPeriodTable
    Drafts <- MCDrafts
    NewAccounts <- MCNewAccounts
    NewPeriods <- MCNewPeriods
    Managed = {}
    ClosingDates = {}
    MaxBatch = 1
    Redeclare = FALSE
INVARIANT
    SealedBalancesProve
CHECK_DEADLOCK FALSE
