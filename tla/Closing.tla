------------------------------ MODULE Closing -------------------------------
(***************************************************************************)
(* Year-end closing: closing_postings of src/closing.rs, from a trial      *)
(* balance and a registry to the postings that empty the temporary         *)
(* accounts into equity.                                                   *)
(***************************************************************************)
EXTENDS Books, FiniteSetsExt

CONSTANTS
    AccountKinds,   \* the kind of each account, None where it has none
    kinds,          \* the kinds that are closed
    equity,         \* the account that takes the result
    closed_layer    \* the layer that is closed

ASSUME ClosedLayerIsALayer == closed_layer \in Layer

signed_net(balance) == balance.debits - balance.credits

net(balance) ==
    [side      |-> IF balance.debits >= balance.credits THEN "Debit" ELSE "Credit",
     magnitude |-> Distance(balance.debits, balance.credits)]

\* An account without a kind is out of scope.
InScope_AnyLayer(accounts, key) ==
    /\ key.account # equity
    /\ key.account \in Handles(accounts) /\ AccountKinds[key.account] \in kinds

InScope(accounts, key) ==
    /\ key.layer = closed_layer /\ key.account # equity
    /\ key.account \in Handles(accounts) /\ AccountKinds[key.account] \in kinds

Leg(account, currency, side, magnitude) ==
    [account |-> account, direction |-> side, amount |-> magnitude, currency |-> currency,
     layer |-> closed_layer, dimensions |-> {}]

Moved(accounts, tb) == {key \in DOMAIN tb : InScope(accounts, key) /\ net(tb[key]).magnitude # 0}

\* The order of the keys of one currency in a trial balance.
KeyLess(k, l) ==
    \/ k.account < l.account
    \/ k.account = l.account /\ k.layer = "Settled" /\ l.layer = "Pending"

\* What equity takes in one currency, debit positive, and whether every sum on the
\* way, in that order, can be represented.
Offset(accounts, tb, currency) ==
    LET order == OrderBy({key \in Moved(accounts, tb) : key.currency = currency}, KeyLess)
    IN FoldLeft(LAMBDA acc, key :
                    LET sum == acc.sum + signed_net(tb[key]) IN
                    [sum |-> sum, ok |-> acc.ok /\ sum \in (-MaxMinor - 1)..MaxMinor],
                [sum |-> 0, ok |-> TRUE], order)

CanCloseBooks(accounts, tb) ==
    /\ equity \in Handles(accounts)
    /\ AccountKinds[equity] \notin kinds
    /\ \A c \in currencies(tb) : Offset(accounts, tb, c).ok

\* The opposite of every net, and the result on equity, in each currency.
closing_postings(accounts, tb) ==
    LET flat   == {Leg(key.account, key.currency, inverse(net(tb[key]).side),
                       net(tb[key]).magnitude) : key \in Moved(accounts, tb)}
        result == {c \in currencies(tb) : Offset(accounts, tb, c).sum # 0}
        carry  == {Leg(equity, c, IF Offset(accounts, tb, c).sum > 0 THEN "Debit" ELSE "Credit",
                       Distance(Offset(accounts, tb, c).sum, 0)) : c \in result}
    IN SetToSeq(flat) \o SetToSeq(carry)
=============================================================================
