-------------------------- MODULE MCPostgresSeals ---------------------------
(***************************************************************************)
(* Two months to close and an open day after them, a cash and an income    *)
(* account, and a third account that is registered meanwhile.              *)
(***************************************************************************)
EXTENDS PostgresSeals

CONSTANTS a1, a2, p1, jan, feb, k1, k2, k3

MCPeriodIds == {jan, feb}
MCDates == 1..3
MCPaths == {<<1>>, <<2>>, <<3>>}
MCPolicy == [currency |-> "Any", required_dimensions |-> {}, max_value_date_drift_days |-> None]

Month(id, day) == [id |-> id, start |-> day, end |-> day, state |-> "Open"]
Both == {Month(jan, 1), Month(feb, 2)}

OpenAccount(path) == [path |-> path, opened_on |-> 1, closed_on |-> NoDate, limit |-> "Unlimited"]
MCChart == <<OpenAccount(<<1>>), OpenAccount(<<2>>)>>
MCNewRecords == {[id |-> 3, account |-> OpenAccount(<<3>>)],
                 [id |-> 1, account |-> OpenAccount(<<3>>)]}

Move(account, direction) ==
    [account |-> account, direction |-> direction, amount |-> 1,
     currency |-> "EUR", layer |-> "Settled", dimensions |-> {}]

Sale(id, k, day) ==
    [id |-> id, key |-> k, booking_date |-> day, value_date |-> day,
     postings |-> <<Move(1, "Debit"), Move(2, "Credit")>>, reverses |-> None,
     original_booking_date |-> NoDate, description |-> "d", memo |-> None]

MCBookings == {Sale(1, k1, 1), Sale(2, k2, 3)}
FebToo == MCBookings \cup {Sale(3, k3, 2)}

Forward == {"Closing"}
Anywhere == {"Open", "Closing"}

MCProofKey == [account |-> 1, currency |-> "EUR", layer |-> "Settled"]

Setup(sequencing, declared, admins, moves, bookings, arriving, provers, again) ==
    [sequencing |-> sequencing, declared |-> declared, admins |-> admins, moves |-> moves,
     bookings |-> bookings, records |-> arriving, provers |-> provers, redeclares |-> again]

\* Admins who seal at the same time; admins who reopen what the other is sealing;
\* months sealed one after the other; a day before the only month that no month
\* covers; entries that wait for their place.
MCSetups ==
    [two_admins |-> Setup("Inline", Both, {a1, a2}, Forward, {Sale(1, k1, 1)}, MCNewRecords, {}, FALSE),
     rivals     |-> Setup("Inline", {Month(jan, 1)}, {a1, a2}, Anywhere, MCBookings, {}, {p1}, FALSE),
     one_admin  |-> Setup("Inline", Both, {a1}, Anywhere, FebToo, MCNewRecords, {p1}, FALSE),
     gap        |-> Setup("Inline", {Month(feb, 2)}, {a1}, Anywhere, FebToo, MCNewRecords, {p1}, FALSE),
     deferred   |-> Setup("Deferred", Both, {a1}, Anywhere, MCBookings, {}, {p1}, TRUE)]
=============================================================================
