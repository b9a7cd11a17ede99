--------------------------- MODULE MCPostgresLog ----------------------------
(***************************************************************************)
(* Two writers on a cash account that may not go into credit.  One entry   *)
(* funds it, two would each spend all of it; a reversal is submitted by    *)
(* two clients, and a funding is retried under another identifier.         *)
(***************************************************************************)
EXTENDS PostgresLog

CONSTANTS c1, c2, s1, s2, k1, k2, k3, k4, k5

MCClients == {c1, c2}
MCSequencers == {s1, s2}
MCDates == 1..2
MCPaths == {<<1>>, <<2>>, <<3>>}

NoPeriods == {}
NoPolicy == [currency |-> "Any", required_dimensions |-> {}, max_value_date_drift_days |-> None]

Record(id, limit) ==
    [id |-> id, account |-> [path |-> <<id>>, opened_on |-> 1, closed_on |-> NoDate,
                             limit |-> limit]]

MCRegistrations == {Record(1, "NoCreditBalance"), Record(2, "Unlimited")}
LateAccount == {Record(3, "Unlimited")}

Move(account, direction, amount) ==
    [account |-> account, direction |-> direction, amount |-> amount,
     currency |-> "EUR", layer |-> "Settled", dimensions |-> {"costcentre"}]

Booking(id, k, debit, credit, amount) ==
    [id |-> id, key |-> k, booking_date |-> 1, value_date |-> 1,
     postings |-> <<Move(debit, "Debit", amount), Move(credit, "Credit", amount)>>,
     reverses |-> None, original_booking_date |-> NoDate, description |-> "d",
     memo |-> [kind |-> None, provenance |-> "p", document |-> [id |-> "doc", hash |-> None]]]

fund == Booking(3, k1, 1, 2, 2)
spend == Booking(1, k2, 2, 1, 2)
spend2 == Booking(4, k3, 2, 1, 2)
undo == reverse(spend, 5, k4, 2)
undo2 == reverse(spend, 6, k5, 2)

\* Writers that compete for one limited account.
Rivals == {<<fund>>, <<spend>>, <<spend2>>}

\* A reversal of a spending, and a second one; the funding again under another
\* identifier, and other content under its key; a posting to a late account.
Corrections == {<<fund, spend>>, <<undo>>, <<undo2>>, <<[fund EXCEPT !.id = 2]>>,
                <<Booking(7, k1, 3, 2, 1)>>}

Late == {<<fund, Booking(7, k5, 3, 2, 1)>>, <<spend>>, <<spend2>>, <<[fund EXCEPT !.id = 2]>>}

Setup(sequencing, batches, late, lossy) ==
    [sequencing |-> sequencing, batches |-> batches, records |-> late, losses |-> lossy]

LiveSetups == [rivals |-> Setup("Deferred", Rivals, {}, TRUE)]

LogSetups == LiveSetups @@ [corrections |-> Setup("Deferred", Corrections, {}, FALSE),
                            inline |-> Setup("Inline", Late, LateAccount, TRUE)]
=============================================================================
