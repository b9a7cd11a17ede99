----------------------------- MODULE MCColdTier -----------------------------
(***************************************************************************)
(* Two accounts; an entry with a memo and a document without a hash, its   *)
(* reversal, and an entry with no memo; two periods.                       *)
(***************************************************************************)
EXTENDS ColdTier

CONSTANTS jan, feb, k1, k2, k3

MCPeriodIds == {jan, feb}
MCPeriods == <<jan, feb>>
MCDates == 1..2
MCPaths == {<<1>>, <<2>>}
MCPolicy == [currency |-> "Any", required_dimensions |-> {}, max_value_date_drift_days |-> None]

MCAccounts ==
    {[account_index |-> n, path |-> <<n>>, opened_on |-> 1, closed_on |-> NoDate,
      balance_limit |-> "unlimited"] : n \in 1..2}

Move(account, direction, axes) ==
    [account |-> account, direction |-> direction, amount |-> 1, currency |-> "EUR",
     layer |-> "Settled", dimensions |-> axes]

Entry(id, k, memo) ==
    [id |-> id, key |-> k, booking_date |-> 1, value_date |-> 2,
     postings |-> <<Move(1, "Debit", {"costcentre"}), Move(2, "Credit", {})>>, reverses |-> None,
     original_booking_date |-> NoDate, description |-> "d", memo |-> memo]

invoice == Entry(1, k1, [kind |-> "invoice", provenance |-> "clerk",
                         document |-> [id |-> "doc", hash |-> None]])
plain == Entry(3, k3, None)

MCBatches == {<<invoice>>, <<reverse(invoice, 2, k2, 2)>>, <<plain>>}
=============================================================================
