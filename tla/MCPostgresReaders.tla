------------------------- MODULE MCPostgresReaders --------------------------
(***************************************************************************)
(* A split invoice with two lines on the receivable account, a payment and *)
(* a credit note; clearings that compete for the same postings.            *)
(***************************************************************************)
EXTENDS PostgresReaders

CONSTANTS r1, c1, c2, s1, s2, k1, k2, k3, x1, x2, x3

MCPeriodIds == {}
MCDates == 1..2
MCPaths == {<<1>>, <<2>>}
MCPolicy == [currency |-> "Any", required_dimensions |-> {}, max_value_date_drift_days |-> None]
MCChart == << [path |-> <<1>>, opened_on |-> 1, closed_on |-> NoDate, limit |-> "Unlimited"],
              [path |-> <<2>>, opened_on |-> 1, closed_on |-> NoDate, limit |-> "Unlimited"] >>
MCOnKey == [account |-> 1, currency |-> "EUR", layer |-> "Settled"]

Move(account, direction, amount) ==
    [account |-> account, direction |-> direction, amount |-> amount,
     currency |-> "EUR", layer |-> "Settled", dimensions |-> {}]

Entry(id, k, postings) ==
    [id |-> id, key |-> k, booking_date |-> 1, value_date |-> 1, postings |-> postings,
     reverses |-> None, original_booking_date |-> NoDate, description |-> "d", memo |-> None]

Invoice == Entry(1, k1, <<Move(1, "Debit", 2), Move(1, "Debit", 1), Move(2, "Credit", 3)>>)
Payment == Entry(2, k2, <<Move(2, "Debit", 2), Move(1, "Credit", 2)>>)
CreditNote == Entry(3, k3, <<Move(2, "Debit", 1), Move(1, "Credit", 1)>>)
MCBookings == {Invoice, Payment, CreditNote}

Item(entry, index, applied) == [posting |-> [entry |-> entry, index |-> index], applied |-> applied]
Assignment(id, items) ==
    [id |-> id, account |-> 1, currency |-> "EUR", layer |-> "Settled", cleared_on |-> 1,
     items |-> items]

MCAssignments == {Assignment(x1, <<Item(1, 1, 2), Item(2, 2, 2)>>),
                  Assignment(x2, <<Item(2, 2, 1), Item(1, 2, 1)>>),
                  Assignment(x3, <<Item(1, 1, 1), Item(3, 2, 1)>>)}

Setup(sequencing, lists, limits, clerks, savers) ==
    [sequencing |-> sequencing, lists |-> lists, limits |-> limits,
     readers |-> IF lists = {} THEN {} ELSE {r1}, clerks |-> clerks, savers |-> savers,
     assignments |-> IF clerks = {} THEN {} ELSE MCAssignments]

MCSetups ==
    [pages       |-> Setup("Deferred", {"page", "statement"}, {0, 1, 3}, {}, {}),
     items       |-> Setup("Deferred", {"open_items"}, {1, 3}, {c1}, {}),
     clerks      |-> Setup("Inline", {}, {}, {c1, c2}, {}),
     checkpoints |-> Setup("Inline", {}, {}, {}, {s1, s2})]
=============================================================================
