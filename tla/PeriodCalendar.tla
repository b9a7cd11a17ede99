--------------------------- MODULE PeriodCalendar ---------------------------
(***************************************************************************)
(* The life of one PeriodCalendar (src/period.rs): periods are defined,    *)
(* replayed from a stored table, moved through their life-cycle, and       *)
(* sealed in date order.                                                   *)
(***************************************************************************)
EXTENDS Periods

CONSTANT
    Redeclare   \* TRUE when a caller may declare a period it declared before as
                \* a fresh, open one; FALSE when ensure only replays what is stored

ASSUME RedeclareIsBoolean == Redeclare \in BOOLEAN

VARIABLE calendar

Init == calendar = PeriodCalendar_new

-----------------------------------------------------------------------------
(***************************************************************************)
(* Actions.  A refused call changes nothing and is no step.                *)
(***************************************************************************)
Define(p) ==
    /\ CanDefine(calendar, p)
    /\ calendar' = define(calendar, p)

\* The replay path of a backend: the period it stored, in the state it stored,
\* or, with Redeclare, the period the caller declares on every start-up.
Ensure(p) ==
    /\ p.id \in DOMAIN calendar.periods /\ ~Redeclare => p = calendar.periods[p.id]
    /\ CanEnsure(calendar, p)
    /\ calendar' = ensure(calendar, p)

Transition(id, to) ==
    /\ CanTransition(calendar, id, to)
    /\ calendar' = transition(calendar, id, to)

\* What seal_period does to the calendar once the seal is in the chain.
Seal(id) ==
    /\ check_sealable(calendar, id)
    /\ calendar' = transition(calendar, id, "Sealed")

Next ==
    \/ \E p \in Period : Define(p)
    \/ \E p \in Period : Ensure(p)
    \/ \E id \in PeriodIds, to \in PeriodState : Transition(id, to)
    \/ \E id \in PeriodIds : Seal(id)

Spec == Init /\ [][Next]_calendar

-----------------------------------------------------------------------------
(***************************************************************************)
(* Properties.                                                             *)
(***************************************************************************)
\* Type invariant of the calendar.
TypeOK == IsCalendar(calendar)

\* The start-date index names every period exactly once, under its own start:
\* periods and by_start are kept in step by define and ensure.
IndexExact == IsIndexed(calendar)

\* No two periods share a date, although define compares a new period with its
\* two neighbours by start date only: a booking date resolves to one period.
Disjoint == IsDisjoint(calendar)

\* The index lookup of period_on finds the covering period, and finds none
\* where no period covers the date.
LookupExact ==
    \A d \in Dates :
        period_on(calendar, d) =
            {id \in DOMAIN calendar.periods : contains(calendar.periods[id], d)}

\* The watermark is the greatest end date of a sealed period: it closes every
\* date a seal has committed to, and not one more.
WatermarkExact == SealedBelowWatermark(calendar) /\ WatermarkIsAnEnd(calendar)

\* A restart loses nothing: from_periods over the stored periods, in whatever
\* order the table returns them, is accepted and rebuilds this very calendar,
\* watermark included.
RestoreExact ==
    \A order \in SetToSeqs({calendar.periods[id] : id \in DOMAIN calendar.periods}) :
        from_periods(order) = [ok |-> TRUE, calendar |-> calendar]

\* No call reopens a date: once state_on reports Sealed it always does.
FrozenForever ==
    [][\A d \in Dates : state_on(calendar, d) = "Sealed" =>
                            state_on(calendar', d) = "Sealed"]_calendar

\* Sealed is terminal and a defined range never moves: a booking date cannot
\* pass from one period to another, nor a sealed period to another state.
SealedIsTerminal ==
    [][\A id \in DOMAIN calendar.periods :
          /\ id \in DOMAIN calendar.periods'
          /\ calendar.periods'[id].start = calendar.periods[id].start
          /\ calendar.periods'[id].end = calendar.periods[id].end
          /\ calendar.periods[id].state = "Sealed" =>
                calendar.periods'[id].state = "Sealed"]_calendar
=============================================================================
