------------------------------- MODULE Paging -------------------------------
(***************************************************************************)
(* Reading a journal page by page: the cursors of src/storage.rs, the      *)
(* account statement of src/journal.rs, and the pages the in-memory store  *)
(* cuts from the whole of each list.                                       *)
(*                                                                         *)
(* A cursor holds the place to resume after and the size the caller asked  *)
(* for.  The log is paged by entry, statements and open items by posting.  *)
(***************************************************************************)
EXTENDS Clearings, FiniteSetsExt

CONSTANT MAX_PAGE_SIZE

ASSUME PageSizeIsPositive == MAX_PAGE_SIZE \in Nat \ {0}

\* The size asked for, clamped and never zero.
effective_limit(cursor) == Max({1, Min({cursor.limit, MAX_PAGE_SIZE})})

Take(s, n) == SubSeq(s, 1, Min({n, Len(s)}))

\* Postings are ordered by position in the log, then by place in the entry.
After(a, b) == a.index > b.index \/ (a.index = b.index /\ a.posting > b.posting)

Start == [index |-> 0, posting |-> 0]

Cursor(after, limit) == [after |-> after, limit |-> limit]

\* Where the next page starts, when there is a last item and more after it.
next_cursor(items, total, cursor) ==
    IF items # <<>> /\ Len(items) < total THEN Cursor(Last(items).position, cursor.limit) ELSE None

\* The part of a list of postings after the cursor, and where the next page
\* starts when there is more.
PageOf(all, cursor) ==
    LET rest  == SelectSeq(all, LAMBDA x : After(x.position, cursor.after))
        items == Take(rest, effective_limit(cursor))
    IN [items |-> items,
        next  |-> next_cursor(items, Len(rest), cursor)]

\* A page of the log, positions counted from 1.
page(books, cursor) ==
    LET size  == Min({effective_limit(cursor), Len(books.entries) - cursor.after})
        found == [n \in 1..size |->
                    [index |-> cursor.after + n, entry |-> books.entries[cursor.after + n]]]
    IN [records |-> found,
        next    |-> IF found # <<>> /\ cursor.after + size < Len(books.entries)
                    THEN Cursor(cursor.after + size, cursor.limit) ELSE None]

kind_of(e) == IF e.memo = None THEN None ELSE e.memo.kind

\* Every movement on a key, each with the balance it leaves.
statement(books, on_key) ==
    LET sites == IF on_key \in DOMAIN books.sites THEN books.sites[on_key] ELSE <<>> IN
    [n \in DOMAIN sites |->
        [position  |-> sites[n],
         posting   |-> [entry |-> books.entries[sites[n].index].id, index |-> sites[n].posting],
         direction |-> resolve(books, sites[n]).direction,
         amount    |-> resolve(books, sites[n]).amount,
         kind      |-> kind_of(books.entries[sites[n].index]),
         running   |-> FoldLeft(LAMBDA b, s : add(b, resolve(books, s)),
                                Balance_ZERO, SubSeq(sites, 1, n))]]

statement_page(books, on_key, cursor) == PageOf(statement(books, on_key), cursor)

open_items_page(reg, books, on_key, cursor) == PageOf(open_items(reg, books, on_key), cursor)

\* The trial balance of a prefix of the log.
trial_balance(books, size) == TrialBalanceOf(Take(books.entries, size))

\* Several accounts in one currency and layer; an account with none is absent.
balances(books, wanted, currency, layer, size) ==
    LET tb     == trial_balance(books, size)
        on(a)  == [account |-> a, currency |-> currency, layer |-> layer]
    IN [a \in {a \in wanted : on(a) \in DOMAIN tb} |-> tb[on(a)]]
=============================================================================
