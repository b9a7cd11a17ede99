SPECIFICATION Spec
CONSTANTS
    jan = jan
    feb = feb
    mar = mar
    PeriodIds <- MCPeriodIds
    Dates <- MCDates
    Redeclare = FALSE
INVARIANTS
    LookupExact
    RestoreExact
PROPERTIES
    FrozenForever
CHECK_DEADLOCK FALSE
