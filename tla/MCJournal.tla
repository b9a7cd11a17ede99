------------------------------ MODULE MCJournal -----------------------------
(***************************************************************************)
(* A journal with a cash account that may not be overdrawn and an income   *)
(* account, a first and a third month, and the month between them left     *)
(* undefined at first: it can be defined late, below the watermark.        *)
(***************************************************************************)
EXTENDS Journal

CONSTANTS jan, feb, mar, e1, e2, e3, e4, k1, k2, k3

MCDates == 1..3
MCPeriodIds == {jan, feb, mar}

cash == 1
income == 2

MCPaths == {<<1>>, <<1, 1>>, <<2>>}
MCLimits == {"Unlimited", "NoCreditBalance"}

OpenAccount(path, limit) ==
    [path |-> path, opened_on |-> 1, closed_on |-> NoDate, limit |-> limit]

MCChart == <<OpenAccount(<<1>>, "NoCreditBalance"), OpenAccount(<<2>>, "Unlimited")>>
MCClosingDates == {2}
MCNewAccounts == {OpenAccount(<<1, 1>>, "Unlimited")}

Month(id, day) == [id |-> id, start |-> day, end |-> day, state |-> "Open"]

MCPeriodTable == <<Month(mar, 3), Month(jan, 1)>>
MCNewPeriods == {Month(feb, 2)}
MCPolicy == [currency |-> "Any", required_dimensions |-> {},
             max_value_date_drift_days |-> None]

Move(account, direction, layer, amount) ==
    [account |-> account, direction |-> direction, amount |-> amount,
     currency |-> "EUR", layer |-> layer, dimensions |-> {}]

Draft(id, key, date, postings) ==
    [id |-> id, key |-> key, booking_date |-> date, value_date |-> date,
     postings |-> postings, reverses |-> None, original_booking_date |-> NoDate,
     description |-> "d", memo |-> "m"]

Deposit(n) ==
    <<Move(cash, "Debit", "Settled", n), Move(income, "Credit", "Settled", n)>>
Withdrawal(n) ==
    <<Move(cash, "Credit", "Settled", n), Move(income, "Debit", "Settled", n)>>
\* Out of the pending layer and into the settled one, in one entry.
Settlement(n) ==
    <<Move(cash, "Debit", "Settled", n), Move(cash, "Credit", "Pending", n)>>

Skewed ==
    <<Move(cash, "Debit", "Settled", 2), Move(income, "Credit", "Settled", 1)>>

sale == Draft(e1, k1, 1, Deposit(1))
refund == reverse(sale, e4, k3, 3)

MCDrafts ==
    {sale,
     [sale EXCEPT !.id = e4],               \* a retry under a new identifier
     Draft(e2, k1, 2, Deposit(2)),          \* the same key for something else
     Draft(e2, k2, 2, Deposit(1)),          \* into the undefined month
     Draft(e1, k2, 2, Deposit(2)),          \* an identifier for something else
     Draft(e2, k2, 2, Settlement(1)),       \* one currency, two layers
     Draft(e3, k3, 3, Withdrawal(2)),       \* more than the first sale brought in
     Draft(e3, k3, 3, Skewed),              \* one side short
     refund,
     reverse(sale, e3, k2, 3),              \* a rival of the refund
     reverse(refund, e2, k2, 3)}            \* a reversal of it

=============================================================================
