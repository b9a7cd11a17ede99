------------------------------ MODULE Periods ------------------------------
(***************************************************************************)
(* Accounting periods and the calendar that holds them: src/period.rs.     *)
(*                                                                         *)
(* A calendar is a value, as PeriodCalendar is in the code, and every      *)
(* operation is an operator from calendars to calendars, so that the       *)
(* journal and the stores can use the same definitions.                    *)
(***************************************************************************)
EXTENDS Values

CONSTANT PeriodIds      \* the identifiers a caller may give a period

PeriodState == {"Open", "Closing", "Sealed"}

\* Only values Period::new can build: the range is never empty.
Period == {p \in [id : PeriodIds, start : Dates, end : Dates, state : PeriodState] :
              p.start <= p.end}

accepts_postings(state) == state = "Open"

contains(p, date) == date >= p.start /\ date <= p.end

overlaps(p, q) == p.start <= q.end /\ q.start <= p.end

-----------------------------------------------------------------------------
(***************************************************************************)
(* The calendar: the periods by identifier, the identifiers by start date, *)
(* and the greatest end date of a sealed period.                           *)
(***************************************************************************)
PeriodCalendar_new ==
    [periods |-> EmptyMap, by_start |-> EmptyMap, sealed_through |-> NoDate]

\* The last start date at or before `date`, and the first at or after it: the
\* two range queries on by_start.  Each is a set of at most one date.
StartBefore(cal, date) ==
    {s \in DOMAIN cal.by_start :
        s <= date /\ \A t \in DOMAIN cal.by_start : t <= date => t <= s}

StartAfter(cal, date) ==
    {s \in DOMAIN cal.by_start :
        s >= date /\ \A t \in DOMAIN cal.by_start : t >= date => t >= s}

\* The watermark once `p` is in the calendar: it moves forward only.
mark_sealed_through_Overwrites(cal, p) ==
    IF p.state = "Sealed" THEN p.end ELSE cal.sealed_through

mark_sealed_through(cal, p) ==
    IF p.state = "Sealed" /\ p.end > cal.sealed_through
    THEN p.end
    ELSE cal.sealed_through

\* The checks of define: a fresh identifier, and no overlap with the two
\* neighbours by start date.  The other periods are not looked at.
CanDefine(cal, p) ==
    /\ p.id \notin DOMAIN cal.periods
    /\ \A s \in StartBefore(cal, p.start) \cup StartAfter(cal, p.start) :
          ~overlaps(cal.periods[cal.by_start[s]], p)

\* A period is stored with whatever state it carries.
define(cal, p) ==
    [periods        |-> Insert(cal.periods, p.id, p),
     by_start       |-> Insert(cal.by_start, p.start, p.id),
     sealed_through |-> mark_sealed_through(cal, p)]

\* Redefining the same range stores the period that was passed, its state
\* included; a known identifier over another range is refused.
CanEnsure(cal, p) ==
    IF p.id \in DOMAIN cal.periods
    THEN cal.periods[p.id].start = p.start /\ cal.periods[p.id].end = p.end
    ELSE CanDefine(cal, p)

ensure(cal, p) ==
    IF p.id \in DOMAIN cal.periods
    THEN [periods        |-> Insert(cal.periods, p.id, p),
          by_start       |-> cal.by_start,
          sealed_through |-> mark_sealed_through(cal, p)]
    ELSE define(cal, p)

PermittedTransitions ==
    {<<"Open", "Closing">>, <<"Closing", "Sealed">>, <<"Closing", "Open">>}

CanTransition(cal, id, to) ==
    /\ id \in DOMAIN cal.periods
    /\ <<cal.periods[id].state, to>> \in PermittedTransitions

moved_to(cal, id, to) == [cal.periods[id] EXCEPT !.state = to]

transition_KeepsWatermark(cal, id, to) ==
    [periods        |-> Insert(cal.periods, id, moved_to(cal, id, to)),
     by_start       |-> cal.by_start,
     sealed_through |-> cal.sealed_through]

transition(cal, id, to) ==
    [periods        |-> Insert(cal.periods, id, moved_to(cal, id, to)),
     by_start       |-> cal.by_start,
     sealed_through |-> mark_sealed_through(cal, moved_to(cal, id, to))]

-----------------------------------------------------------------------------
(***************************************************************************)
(* Queries.                                                                *)
(***************************************************************************)
\* The period covering a date: the last one starting at or before it, if it
\* reaches far enough.  A set of at most one identifier.
period_on_NoFilter(cal, date) == {cal.by_start[s] : s \in StartBefore(cal, date)}

period_on(cal, date) ==
    {id \in {cal.by_start[s] : s \in StartBefore(cal, date)} :
        contains(cal.periods[id], date)}

\* The watermark first, then the covering period, then Open.
state_on_PeriodOnly(cal, date) ==
    IF \E id \in period_on(cal, date) : TRUE
    THEN LET id == CHOOSE i \in period_on(cal, date) : TRUE IN cal.periods[id].state
    ELSE "Open"

state_on(cal, date) ==
    IF date <= cal.sealed_through THEN "Sealed"
    ELSE IF period_on(cal, date) # {}
    THEN LET id == CHOOSE i \in period_on(cal, date) : TRUE IN cal.periods[id].state
    ELSE "Open"

accepts(cal, date) == accepts_postings(state_on(cal, date))

\* The three preconditions of a seal: Closing, every earlier period sealed,
\* and an end after the watermark.
check_sealable(cal, id) ==
    /\ id \in DOMAIN cal.periods
    /\ cal.periods[id].state = "Closing"
    /\ \A s \in DOMAIN cal.by_start :
          s < cal.periods[id].start => cal.periods[cal.by_start[s]].state = "Sealed"
    /\ cal.periods[id].end > cal.sealed_through

-----------------------------------------------------------------------------
(***************************************************************************)
(* What a calendar value always is.                                        *)
(***************************************************************************)
IsCalendar(cal) ==
    /\ cal = [periods |-> cal.periods, by_start |-> cal.by_start,
              sealed_through |-> cal.sealed_through]
    /\ cal.periods \in [DOMAIN cal.periods -> Period]
    /\ DOMAIN cal.periods \subseteq PeriodIds
    /\ cal.by_start \in [DOMAIN cal.by_start -> PeriodIds]
    /\ DOMAIN cal.by_start \subseteq Dates
    /\ cal.sealed_through \in Dates \cup {NoDate}

\* by_start names every period exactly once, under its own start.
IsIndexed(cal) ==
    /\ \A id \in DOMAIN cal.periods :
          /\ cal.periods[id].id = id
          /\ cal.periods[id].start \in DOMAIN cal.by_start
          /\ cal.by_start[cal.periods[id].start] = id
    /\ \A s \in DOMAIN cal.by_start :
          /\ cal.by_start[s] \in DOMAIN cal.periods
          /\ cal.periods[cal.by_start[s]].start = s

IsDisjoint(cal) ==
    \A i, j \in DOMAIN cal.periods : i # j => ~overlaps(cal.periods[i], cal.periods[j])

\* sealed_through is the greatest end of a sealed period, or none.
SealedBelowWatermark(cal) ==
    \A id \in DOMAIN cal.periods :
        cal.periods[id].state = "Sealed" => cal.periods[id].end <= cal.sealed_through

WatermarkIsAnEnd(cal) ==
    cal.sealed_through # NoDate =>
        \E id \in DOMAIN cal.periods :
            cal.periods[id].state = "Sealed" /\ cal.periods[id].end = cal.sealed_through

-----------------------------------------------------------------------------
(***************************************************************************)
(* from_periods: define each stored period in turn, stopping at the first  *)
(* refusal.                                                                *)
(***************************************************************************)
from_periods(stored) ==
    FoldLeft(LAMBDA acc, p :
                IF acc.ok /\ CanDefine(acc.calendar, p)
                THEN [ok |-> TRUE, calendar |-> define(acc.calendar, p)]
                ELSE [acc EXCEPT !.ok = FALSE],
             [ok |-> TRUE, calendar |-> PeriodCalendar_new],
             stored)
=============================================================================
