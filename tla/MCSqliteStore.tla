--------------------------- MODULE MCSqliteStore ----------------------------
(***************************************************************************)
(* A cash account that may not go into credit, a receivable account and a  *)
(* revenue account; invoices and payments with memo and axes; periods that *)
(* overlap and periods that do not.                                        *)
(***************************************************************************)
EXTENDS SqliteStore

CONSTANTS o1, o2, a1, a2, jan, feb, k1, k2, k3, k4, x1, x2, x3, l1, l2

MCLedgers == {l1, l2}
MCPeriodIds == {jan, feb}
MCDates == 1..3
MCPaths == {<<1>>, <<2>>, <<3>>}
MCPolicy == [currency |-> "Any", required_dimensions |-> {}, max_value_date_drift_days |-> None]
MCViewKey == [account |-> 1, currency |-> "EUR", layer |-> "Settled"]

Record(id, path, limit) ==
    [id |-> id, account |-> [path |-> path, opened_on |-> 1, closed_on |-> NoDate, limit |-> limit]]

\* A limit that is lifted again, and a handle that would be given another path.
MCRecords == {Record(1, <<1>>, "NoCreditBalance"), Record(1, <<1>>, "Unlimited"),
              Record(2, <<2>>, "Unlimited"), Record(2, <<3>>, "Unlimited")}
TwoRecords == {Record(1, <<1>>, "Unlimited"), Record(2, <<2>>, "Unlimited")}

Move(account, direction, amount) ==
    [account |-> account, direction |-> direction, amount |-> amount,
     currency |-> "EUR", layer |-> "Settled", dimensions |-> {"costcentre"}]

Entry(id, k, day, postings) ==
    [id |-> id, key |-> k, booking_date |-> day, value_date |-> day, postings |-> postings,
     reverses |-> None, original_booking_date |-> NoDate, description |-> "d",
     memo |-> [kind |-> "invoice", provenance |-> None, document |-> [id |-> "doc", hash |-> None]]]

fund == Entry(1, k1, 1, <<Move(1, "Debit", 1), Move(1, "Debit", 1), Move(2, "Credit", 2)>>)
spend == Entry(2, k2, 1, <<Move(2, "Debit", 2), Move(1, "Credit", 2)>>)
undo == reverse(spend, 3, k3, 2)

\* A batch whose second entry is refused; retries under a fresh identifier, of a
\* reversal too, and under that of another entry; other content under a used key; and
\* a reversal that is delivered again.
MCBatches == {<<fund>>, <<spend>>, <<fund, [spend EXCEPT !.key = k4]>>, <<[fund EXCEPT !.id = 4]>>,
              <<[fund EXCEPT !.id = 2]>>, <<[spend EXCEPT !.key = k1]>>, <<undo>>,
              <<[undo EXCEPT !.id = 5]>>}
Listed == {<<fund>>, <<spend>>, <<undo>>}
Sale(id, k, day) == <<Entry(id, k, day, <<Move(1, "Debit", 1), Move(2, "Credit", 1)>>)>>
Monthly == {Sale(1, k1, 1), Sale(2, k2, 2)}

Item(entry, index, amount) == [posting |-> [entry |-> entry, index |-> index], applied |-> amount]
Assignment(id, items) ==
    [id |-> id, account |-> 1, currency |-> "EUR", layer |-> "Settled", cleared_on |-> 1,
     items |-> items]
MCAssignments == {Assignment(x1, <<Item(1, 1, 1), Item(2, 2, 1)>>),
                  Assignment(x2, <<Item(2, 2, 2), Item(1, 1, 1), Item(1, 2, 1)>>),
                  Assignment(x3, <<Item(3, 2, 1), Item(2, 2, 1)>>)}

Month(id, first, end) == [id |-> id, start |-> first, end |-> end, state |-> "Open"]
Months == {Month(jan, 1, 1), Month(feb, 2, 2)}
Overlapping == {Month(jan, 1, 2), Month(feb, 2, 3), Month(feb, 3, 3)}

Forward == {"Closing"}
Anywhere == {"Open", "Closing"}

Setup(openers, batches, delays, arriving, assignments, declared, admins, moves, periods) ==
    [openers |-> openers, batches |-> batches, delays |-> delays, records |-> arriving,
     assignments |-> assignments, declared |-> declared, admins |-> admins, moves |-> moves,
     periods |-> periods, redeclares |-> FALSE]

\* In `calendar` days lie outside every period until one is defined over them; in
\* `rivals` an admin may reopen what the other is sealing.
MCSetups ==
    [appends  |-> Setup({}, MCBatches, FALSE, MCRecords, {}, {}, {}, {}, {}),
     lists    |-> Setup({}, Listed, FALSE, TwoRecords, MCAssignments, {}, {}, {}, {}),
     calendar |-> Setup({o1, o2}, Monthly, FALSE, TwoRecords, {}, {}, {a1}, Forward, Overlapping),
     seals    |-> Setup({}, Monthly, FALSE, TwoRecords, {}, Months, {a1, a2}, Forward, {}),
     rivals   |-> Setup({}, {Sale(1, k1, 1)}, TRUE, TwoRecords, {}, {Month(jan, 1, 1)}, {a1, a2}, Anywhere, {})]
=============================================================================
