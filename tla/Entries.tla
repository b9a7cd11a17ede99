------------------------------ MODULE Entries -------------------------------
(***************************************************************************)
(* Balances, postings, entries, and the validation that turns a draft into *)
(* a balanced entry: src/balance.rs, src/posting.rs, src/entry.rs.         *)
(*                                                                         *)
(* An entry is a record.  Its content hash is collision free, so it is the *)
(* very content it covers: every field but the identifier.  An amount is   *)
(* an integer of minor units, at most MaxMinor.  The two dates an entry    *)
(* carries, its description, its postings and the entry it reverses are    *)
(* kept; kind, provenance and document are one opaque memo.                *)
(***************************************************************************)
EXTENDS Periods, Accounts, Integers

CONSTANTS
    None,           \* Option::None where an entry identifier is optional
    Policy,         \* the LedgerPolicy: its currency rule, required axes, drift
    MaxMinor,       \* i64::MAX, the greatest amount
    MaxPostings     \* MAX_POSTINGS

ASSUME BoundsArePositive == MaxMinor \in Nat \ {0} /\ MaxPostings \in Nat \ {0}

-----------------------------------------------------------------------------
(***************************************************************************)
(* Balances.                                                               *)
(***************************************************************************)
Layer == {"Settled", "Pending"}

Direction == {"Debit", "Credit"}

\* One posting of an entry; dimensions are the axes it is tagged with.
Posting == [account : Nat, direction : Direction, amount : Int, currency : STRING,
            layer : Layer, dimensions : SUBSET STRING]

inverse(direction) == IF direction = "Debit" THEN "Credit" ELSE "Debit"

Balance_ZERO == [debits |-> 0, credits |-> 0]

add(balance, p) ==
    IF p.direction = "Debit"
    THEN [balance EXCEPT !.debits = @ + p.amount]
    ELSE [balance EXCEPT !.credits = @ + p.amount]

checked_add(a, b) == [debits |-> a.debits + b.debits, credits |-> a.credits + b.credits]

is_balanced(balance) == balance.debits = balance.credits

\* checked_add reports Overflow.  Amounts are positive once validated, so a
\* running total overflows exactly when the final one does.
Overflows(balance) == balance.debits > MaxMinor \/ balance.credits > MaxMinor

key_of(p) == [account |-> p.account, currency |-> p.currency, layer |-> p.layer]

-----------------------------------------------------------------------------
(***************************************************************************)
(* Trial balances: a map from balance key to gross totals.                 *)
(***************************************************************************)
get_or_zero(tb, key) == IF key \in DOMAIN tb THEN tb[key] ELSE Balance_ZERO

apply(tb, p) == Insert(tb, key_of(p), add(get_or_zero(tb, key_of(p)), p))

apply_all(tb, postings) == FoldLeft(apply, tb, postings)

currencies(tb) == {k.currency : k \in DOMAIN tb}

-----------------------------------------------------------------------------
(***************************************************************************)
(* Entries.                                                                *)
(***************************************************************************)
\* digest: the canonical bytes leave the identifier out.
content_hash(e) == [f \in DOMAIN e \ {"id"} |-> e[f]]

inverted(p) == [p EXCEPT !.direction = inverse(@)]

\* Entry::reverse: the same postings on the other side, under a new key.  The
\* description is inherited; kind, provenance and document are not.
reverse(e, id, key, date) ==
    [id |-> id, key |-> key, booking_date |-> date, value_date |-> date,
     postings |-> FoldLeft(LAMBDA flipped, p : Append(flipped, inverted(p)), <<>>, e.postings),
     reverses |-> e.id, original_booking_date |-> e.booking_date,
     description |-> e.description, memo |-> None]

\* Gross totals by currency, whatever the layer.
entry_totals(e) ==
    [c \in {e.postings[i].currency : i \in DOMAIN e.postings} |->
        FoldLeft(add, Balance_ZERO, SelectSeq(e.postings, LAMBDA p : p.currency = c))]

\* What each posting must satisfy.
PostingIsValid(accounts, e, p) ==
    /\ p.amount > 0
    /\ p.account \in Handles(accounts)
    /\ is_leaf(accounts, p.account)
    /\ is_open_on(get(accounts, p.account), e.booking_date)
    /\ Policy.currency # "Any" => p.currency = Policy.currency
    /\ Policy.required_dimensions \subseteq p.dimensions

Distance(a, b) == IF a < b THEN b - a ELSE a - b

\* Debits equal credits in every currency the entry moves.
TotalsHold(e) ==
    \A c \in DOMAIN entry_totals(e) :
        is_balanced(entry_totals(e)[c]) /\ ~Overflows(entry_totals(e)[c])

\* Entry::seal succeeds: no rule is violated against this context.
seal(accounts, calendar, e) ==
    /\ Len(e.postings) \in 2..MaxPostings
    /\ \A i \in DOMAIN e.postings : PostingIsValid(accounts, e, e.postings[i])
    /\ TotalsHold(e)
    /\ accepts(calendar, e.booking_date)
    /\ Policy.max_value_date_drift_days # None =>
          Distance(e.booking_date, e.value_date) <= Policy.max_value_date_drift_days

\* True when `candidate` is `original` with every side flipped, in order.
is_inversion_of(original, candidate) ==
    /\ Len(original.postings) = Len(candidate.postings)
    /\ \A i \in DOMAIN original.postings :
          candidate.postings[i] = inverted(original.postings[i])
=============================================================================
