------------------------------- MODULE Books --------------------------------
(***************************************************************************)
(* The entries of a journal and what is derived from them: src/journal.rs. *)
(*                                                                         *)
(* `books` is the part of Journal that recording an entry changes: the     *)
(* entries, the log of their content hashes, the indexes by identifier and *)
(* by idempotency key, the reversal links, the maintained balances, and    *)
(* the posting sites.  A Merkle log stands for its sequence of leaves, and *)
(* its head for that sequence too.  Log indices count from 1 here.         *)
(***************************************************************************)
EXTENDS Entries

Books_new ==
    [entries |-> <<>>, log |-> <<>>, by_id |-> EmptyMap, by_key |-> EmptyMap,
     reversed_by |-> EmptyMap, balances |-> EmptyMap, sites |-> EmptyMap]

head(books) == books.log

\* The trial balance of a sequence of entries.
TrialBalanceOf(entries) ==
    FoldLeft(LAMBDA tb, e : apply_all(tb, e.postings), EmptyMap, entries)

\* Folded by booking date, not over a prefix of the log.
trial_balance_through_date_Whole(books, end) == TrialBalanceOf(books.entries)

trial_balance_through_date(books, end) ==
    FoldLeft(LAMBDA tb, e : IF e.booking_date <= end THEN apply_all(tb, e.postings) ELSE tb,
             EmptyMap, books.entries)

-----------------------------------------------------------------------------
(***************************************************************************)
(* Posting sites.                                                          *)
(***************************************************************************)
resolve(books, site) == books.entries[site.index].postings[site.posting]

SitesOn(sites, key) == IF key \in DOMAIN sites THEN sites[key] ELSE <<>>

\* The balance of `key` over the first `size` entries, by its sites.
balance_at(books, key, size) ==
    FoldLeft(LAMBDA b, site : IF site.index <= size THEN add(b, resolve(books, site)) ELSE b,
             Balance_ZERO, SitesOn(books.sites, key))

\* One site more for every posting of `e`, in order, under its key.
PushSites(sites, e, index) ==
    FoldLeft(LAMBDA acc, i :
                LET key == key_of(e.postings[i]) IN
                Insert(acc, key, Append(SitesOn(acc, key), [index |-> index, posting |-> i])),
             sites, [i \in DOMAIN e.postings |-> i])

-----------------------------------------------------------------------------
(***************************************************************************)
(* The rules an entry meets on its way in.                                 *)
(***************************************************************************)
\* check_limits: every key the entry touches, on the balance it would leave.
LimitsHold_FirstOnly(accounts, e, after) ==
    permits(limit_of(accounts, e.postings[1].account),
            get_or_zero(after, key_of(e.postings[1])))

LimitsHold(accounts, e, after) ==
    \A i \in DOMAIN e.postings :
        permits(limit_of(accounts, e.postings[i].account),
                get_or_zero(after, key_of(e.postings[i])))

\* check_reversal: known, not yet reversed, not itself a reversal, inverted.
ReversalHolds_Repeatable(books, e) ==
    /\ e.reverses \in DOMAIN books.by_id
    /\ LET target == books.entries[books.by_id[e.reverses]] IN
          target.reverses = None /\ is_inversion_of(target, e)

ReversalHolds(books, e) ==
    /\ e.reverses \in DOMAIN books.by_id
    /\ e.reverses \notin DOMAIN books.reversed_by
    /\ LET target == books.entries[books.by_id[e.reverses]] IN
          target.reverses = None /\ is_inversion_of(target, e)

\* The balances an entry would leave can be represented.
Fits(after) == \A key \in DOMAIN after : ~Overflows(after[key])

KeyIsUsed_SameId(books, e) ==
    e.key \in DOMAIN books.by_key /\ books.by_key[e.key].id = e.id

KeyIsUsed(books, e) == e.key \in DOMAIN books.by_key

\* record_validated: an identical submission is replayed before any other rule
\* is consulted; a new one passes the rules in this order, or is refused.
Outcome(books, accounts, e) ==
    LET after == apply_all(books.balances, e.postings) IN
    IF KeyIsUsed(books, e)
    THEN IF books.by_key[e.key].content_hash = content_hash(e)
         THEN "Replay" ELSE "IdempotencyConflict"
    ELSE IF e.id \in DOMAIN books.by_id THEN "DuplicateId"
    ELSE IF e.reverses # None /\ ~ReversalHolds(books, e) THEN "Reversal"
    ELSE IF ~Fits(after) THEN "Overflow"
    ELSE IF ~LimitsHold(accounts, e, after) THEN "LimitBreached"
    ELSE "New"

\* What recording a new entry changes.
append(books, e) ==
    LET index == Len(books.entries) + 1 IN
    [entries     |-> Append(books.entries, e),
     log         |-> Append(books.log, content_hash(e)),
     by_id       |-> Insert(books.by_id, e.id, index),
     by_key      |-> Insert(books.by_key, e.key,
                            [id |-> e.id, index |-> index, content_hash |-> content_hash(e)]),
     reversed_by |-> IF e.reverses = None THEN books.reversed_by
                     ELSE Insert(books.reversed_by, e.reverses, e.id),
     balances    |-> apply_all(books.balances, e.postings),
     sites       |-> PushSites(books.sites, e, index)]

record_validated(books, accounts, e) ==
    IF Outcome(books, accounts, e) = "New" THEN append(books, e) ELSE books

\* record resolves the key before it validates the draft.
CanRecord(books, accounts, calendar, draft) ==
    \/ Outcome(books, accounts, draft) = "Replay"
    \/ seal(accounts, calendar, draft) /\ Outcome(books, accounts, draft) = "New"

-----------------------------------------------------------------------------
(***************************************************************************)
(* Batches.  rollback_to is the exact inverse of the appends after `mark`. *)
(***************************************************************************)
Undone(books, mark) == {books.entries[i] : i \in (mark + 1)..Len(books.entries)}

Touched(books, mark) ==
    UNION {{key_of(e.postings[i]) : i \in DOMAIN e.postings} : e \in Undone(books, mark)}

\* The keys whose last site is undone: they lose their row altogether.
Emptied(books, mark) ==
    {key \in Touched(books, mark) : \A n \in DOMAIN books.sites[key] :
                                        books.sites[key][n].index > mark}

keys_after_Kept(books, mark) == books.by_key

keys_after(books, mark) == Without(books.by_key, {e.key : e \in Undone(books, mark)})

retain(sites, mark) ==
    FoldLeft(LAMBDA kept, site : IF site.index <= mark THEN Append(kept, site) ELSE kept,
             <<>>, sites)

sites_after(books, mark) ==
    [key \in DOMAIN books.sites \ Emptied(books, mark) |->
        IF key \in Touched(books, mark)
        THEN retain(books.sites[key], mark)
        ELSE books.sites[key]]

\* Recomputed from the postings that remain, for the keys that were touched.
balances_after(books, mark) ==
    [key \in DOMAIN books.balances \ Emptied(books, mark) |->
        IF key \in Touched(books, mark)
        THEN balance_at(books, key, mark)
        ELSE books.balances[key]]

rollback_to(books, mark) ==
    [entries     |-> SubSeq(books.entries, 1, mark),
     log         |-> SubSeq(books.log, 1, mark),
     by_id       |-> Without(books.by_id, {e.id : e \in Undone(books, mark)}),
     by_key      |-> keys_after(books, mark),
     reversed_by |-> Without(books.reversed_by, {e.reverses : e \in Undone(books, mark)}),
     balances    |-> balances_after(books, mark),
     sites       |-> sites_after(books, mark)]

\* Entries are applied in order; the first refusal undoes what this call added,
\* and a replay is no refusal.
Applied(books, accounts, batch) ==
    FoldLeft(LAMBDA acc, e :
                [books |-> IF acc.ok THEN record_validated(acc.books, accounts, e)
                                     ELSE acc.books,
                 ok    |-> acc.ok /\ Outcome(acc.books, accounts, e) \in {"New", "Replay"}],
             [books |-> books, ok |-> TRUE],
             batch)

record_batch(books, accounts, batch) ==
    LET applied == Applied(books, accounts, batch)
    IN IF applied.ok THEN applied.books
       ELSE rollback_to(applied.books, Len(books.entries))

-----------------------------------------------------------------------------
(***************************************************************************)
(* Self-checks of the journal.                                             *)
(***************************************************************************)
verify_log(books) ==
    books.log = [i \in DOMAIN books.entries |-> content_hash(books.entries[i])]

verify_balances(books) == TrialBalanceOf(books.entries) = books.balances

\* A checkpoint of one balance over the first `size` entries, and its check
\* against the books: the head names the prefix the balance is folded over.
verify_checkpoint(books, cp) ==
    /\ Len(cp.tree_head) <= Len(books.entries)
    /\ SubSeq(books.log, 1, Len(cp.tree_head)) = cp.tree_head
    /\ balance_at(books, cp.key, Len(cp.tree_head)) = cp.balance
=============================================================================
