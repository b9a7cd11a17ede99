-------------------------- MODULE MCPeriodCalendar --------------------------
(***************************************************************************)
(* PeriodCalendar on five dates and three periods: enough for a period     *)
(* with a neighbour on each side, a gap, and a gap below the watermark.    *)
(***************************************************************************)
EXTENDS PeriodCalendar

CONSTANTS jan, feb, mar

MCPeriodIds == {jan, feb, mar}
MCDates == 1..5
=============================================================================
