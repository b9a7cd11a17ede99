------------------------------- MODULE Seals --------------------------------
(***************************************************************************)
(* Seals and the chain of them: src/seal.rs, with the parts of a seal that *)
(* src/journal.rs computes from its books.                                 *)
(*                                                                         *)
(* A seal hash is collision free, so it is the sealed content itself.  An  *)
(* optional hash is a sequence of at most one.  A tree head stands for the *)
(* sequence of leaves it commits to and the head of a trial balance for    *)
(* the trial balance: the size of a head is its length.                    *)
(***************************************************************************)
EXTENDS Books, FiniteSetsExt

CONSTANT Ledger     \* the LedgerId these books belong to

\* The smallest index range holding the period's entries, and their number.
coverage(books, start, end) ==
    LET inside == {i \in DOMAIN books.entries :
                      /\ books.entries[i].booking_date >= start
                      /\ books.entries[i].booking_date <= end}
    IN [first_index |-> IF inside = {} THEN 0 ELSE Min(inside),
        last_index  |-> IF inside = {} THEN 0 ELSE Max(inside),
        entry_count |-> Cardinality(inside)]

compute_hash(seal_) == [f \in DOMAIN seal_ \ {"seal_hash"} |-> seal_[f]]

build(period, cover, tree_head, closing, accounts, prev_seal) ==
    LET content == [ledger |-> Ledger, period |-> period,
                    first_index |-> cover.first_index, last_index |-> cover.last_index,
                    entry_count |-> cover.entry_count, tree_head |-> tree_head,
                    trial_balance |-> closing, accounts |-> accounts,
                    prev_seal |-> prev_seal]
    IN Insert(content, "seal_hash", content)

is_self_consistent(seal_) == compute_hash(seal_) = seal_.seal_hash

chain_head(chain) == IF chain = <<>> THEN <<>> ELSE <<Last(chain).seal_hash>>

\* Every rule a seal must satisfy to follow `chain`.
check_link(chain, seal_) ==
    /\ is_self_consistent(seal_)
    /\ seal_.ledger = Ledger
    /\ \A i \in DOMAIN chain : chain[i].period # seal_.period
    /\ seal_.prev_seal = chain_head(chain)
    /\ chain # <<>> =>
          /\ Len(seal_.tree_head) >= Len(Last(chain).tree_head)
          /\ Len(seal_.accounts) >= Len(Last(chain).accounts)

verify_chain(chain) ==
    \A i \in DOMAIN chain : check_link(SubSeq(chain, 1, i - 1), chain[i])

-----------------------------------------------------------------------------
(***************************************************************************)
(* Sealing a period of the books.                                          *)
(***************************************************************************)
seal_of(books, accounts, calendar, chain, id) ==
    LET p == calendar.periods[id] IN
    build(id, coverage(books, p.start, p.end), head(books),
          trial_balance_through_date(books, p.end), commitment(accounts),
          chain_head(chain))

\* The closing balance rebuilt must be the one the seal recorded, and the handle
\* must still be bound as the seal says.
assemble(seal_, closing, accounts, key) ==
    IF closing # seal_.trial_balance THEN "Restated"
    ELSE IF ~CanProveBindingAt(accounts, key.account, Len(seal_.accounts))
    THEN "NotYetRegistered"
    ELSE IF ~verify_binding(prove_binding_at(accounts, key.account, Len(seal_.accounts)),
                            seal_.accounts)
    THEN "RegistryMismatch"
    ELSE IF key \in DOMAIN seal_.trial_balance THEN "Proven" ELSE "NoRow"

prove_sealed_balance(books, accounts, calendar, seal_, key) ==
    assemble(seal_, trial_balance_through_date(books, calendar.periods[seal_.period].end),
             accounts, key)
=============================================================================
