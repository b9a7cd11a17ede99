------------------------------- MODULE Values -------------------------------
(***************************************************************************)
(* What the components share: booking dates, ordered maps, and Option.     *)
(*                                                                         *)
(* A booking date is a positive natural number; 0 is Option::None where a  *)
(* date is optional, which keeps the comparisons of the code: no date is   *)
(* <= 0, every date is > 0.  A BTreeMap is a function whose domain is the  *)
(* set of keys it holds.                                                   *)
(***************************************************************************)
EXTENDS Naturals, Sequences, SequencesExt, FiniteSets

CONSTANT Dates      \* the booking dates

ASSUME DatesArePositive == Dates \subseteq Nat \ {0}

NoDate == 0

EmptyMap == [k \in {} |-> k]

Insert(map, key, value) ==
    [k \in DOMAIN map \cup {key} |-> IF k = key THEN value ELSE map[k]]

Without(map, keys) == [k \in DOMAIN map \ keys |-> map[k]]

\* A set in order, as sort_by and ORDER BY leave it: fewer than n of it come before
\* the n-th and at least n do not come after it.
OrderBy(rows, less(_, _)) ==
    [n \in 1..Cardinality(rows) |->
        CHOOSE row \in rows : /\ Cardinality({r \in rows : less(r, row)}) < n
                              /\ Cardinality({r \in rows : ~less(row, r)}) >= n]
=============================================================================
