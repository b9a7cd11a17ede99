--------------------------- MODULE MCMemoryStore ----------------------------
(***************************************************************************)
(* Two clients and one month.  An invoice, settled in part and pending for *)
(* the rest, is submitted under two identifiers; a payment of it is        *)
(* cleared in full and in part; it is reversed, and two closings race.     *)
(* The income account is closed and limited for part of the time.          *)
(***************************************************************************)
EXTENDS MemoryStore

CONSTANTS jan, e1, e2, e3, e4, k1, k2, k3, kc, g1, g2, c1, c2

MCClients == {c1, c2}
MCDates == 1..2
MCPeriodIds == {jan}
MCPaths == {<<1>>, <<2>>, <<3>>, <<4>>}
MCLimits == {"Unlimited", "NoCreditBalance"}

receivable == 1
income == 2
cash == 4
MCAccountKinds == <<"Asset", "Income", "Equity", "Asset">>
MCkinds == {"Income", "Expense"}

OpenAccount(path, limit) ==
    [path |-> path, opened_on |-> 1, closed_on |-> NoDate, limit |-> limit]

MCChart == <<OpenAccount(<<2>>, "Unlimited"), OpenAccount(<<1>>, "Unlimited"),
             OpenAccount(<<3>>, "Unlimited"), OpenAccount(<<4>>, "Unlimited")>>
MCNewAccounts == {[OpenAccount(<<1>>, "NoCreditBalance") EXCEPT !.closed_on = 1]}

January == [id |-> jan, start |-> 1, end |-> 1, state |-> "Open"]
MCPeriodTable == <<January>>
MCNewPeriods == {January}

MCPolicy == [currency |-> "EUR", required_dimensions |-> {}, max_value_date_drift_days |-> 0]

Move(account, direction, layer, amount) ==
    [account |-> account, direction |-> direction, amount |-> amount,
     currency |-> "EUR", layer |-> layer, dimensions |-> {}]

Draft(id, k, postings) ==
    [id |-> id, key |-> k, booking_date |-> 1, value_date |-> 1, postings |-> postings,
     reverses |-> None, original_booking_date |-> NoDate, description |-> "d", memo |-> None]

invoice ==
    Draft(e1, k1, <<Move(receivable, "Debit", "Settled", 2), Move(income, "Credit", "Settled", 2),
                    Move(receivable, "Debit", "Pending", 1), Move(income, "Credit", "Pending", 1)>>)
payment ==
    Draft(e3, k2, <<Move(cash, "Debit", "Settled", 2), Move(receivable, "Credit", "Settled", 2)>>)

MCDrafts == {invoice, [invoice EXCEPT !.id = e2], payment,
             reverse(invoice, e4, k3, 2)}

MCClosingKeys == {kc}

Assignment(id, invoiced, paid) ==
    [id |-> id, account |-> receivable, currency |-> "EUR", layer |-> "Settled", cleared_on |-> 1,
     items |-> <<[posting |-> [entry |-> e1, index |-> 1], applied |-> invoiced],
                 [posting |-> [entry |-> e3, index |-> 2], applied |-> paid]>>]

\* In full, in two halves, and with sides that differ.
MCAssignments == {Assignment(g1, 2, 2), Assignment(g1, 1, 1), Assignment(g2, 1, 1), Assignment(g2, 2, 1)}

\* The two clients are alike.
ClientSymmetry == Permutations(MCClients)
=============================================================================
