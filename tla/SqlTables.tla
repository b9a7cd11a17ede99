----------------------------- MODULE SqlTables ------------------------------
(***************************************************************************)
(* The tables of a PostgreSQL ledger and the queries on them:              *)
(* src/storage/postgres.rs.                                                *)
(*                                                                         *)
(* A table is a function from its primary key to its rows.  A NULL         *)
(* position is 0, since positions count from 1 here; a NULL label, hash or *)
(* document is None.  Enumerations are stored as their codes and decoded   *)
(* on read.  A root stands for the sequence of leaves under it, and so do  *)
(* the stored subtrees of the accumulator.                                 *)
(***************************************************************************)
EXTENDS Seals, Paging

Null == 0

\* migrate, on a database that has never seen this schema.
migrate ==
    [entries |-> EmptyMap, postings |-> EmptyMap, posting_dimensions |-> {},
     log_subtrees |-> <<>>, accounts |-> EmptyMap, periods |-> EmptyMap,
     seals |-> EmptyMap, clearings |-> EmptyMap, checkpoints |-> EmptyMap]

-----------------------------------------------------------------------------
(***************************************************************************)
(* Stored codes.                                                           *)
(***************************************************************************)
direction_str(direction) == IF direction = "Debit" THEN "D" ELSE "C"

layer_str(layer) == IF layer = "Settled" THEN "settled" ELSE "pending"

direction_from(code) == IF code = "D" THEN "Debit" ELSE "Credit"

layer_from(code) == IF code = "settled" THEN "Settled" ELSE "Pending"

period_state_str(state) ==
    CASE state = "Open" -> "open" [] state = "Closing" -> "closing" [] state = "Sealed" -> "sealed"

period_state_from(code) == CHOOSE state \in PeriodState : period_state_str(state) = code

limit_code(limit) ==
    CASE limit = "Unlimited"       -> "unlimited"
      [] limit = "NoCreditBalance" -> "no_credit"
      [] limit = "NoDebitBalance"  -> "no_debit"

limit_from_code(code) == CHOOSE limit \in BalanceLimit : limit_code(limit) = code

-----------------------------------------------------------------------------
(***************************************************************************)
(* An entry as rows, and back.  Kind, provenance and document are columns  *)
(* of their own, each of which may be NULL; a document may be named with   *)
(* no hash of its contents.                                                *)
(***************************************************************************)
NoMemo == [kind |-> None, provenance |-> None, document |-> None]

entry_row(e, xid, log_index, tree_root) ==
    LET memo == IF e.memo = None THEN NoMemo ELSE e.memo IN
    [log_index |-> log_index, insert_xid |-> xid, idempotency_key |-> e.key,
     content_hash |-> content_hash(e), booking_date |-> e.booking_date,
     value_date |-> e.value_date, description |-> e.description, kind |-> memo.kind,
     provenance |-> memo.provenance,
     document_id |-> IF memo.document = None THEN None ELSE memo.document.id,
     document_content_hash |-> IF memo.document = None THEN None ELSE memo.document.hash,
     reverses |-> e.reverses, original_booking_date |-> e.original_booking_date,
     tree_root |-> tree_root]

posting_row(p) ==
    [account_index |-> p.account, direction |-> direction_str(p.direction),
     amount_minor |-> p.amount, currency |-> p.currency, layer |-> layer_str(p.layer)]

build_posting(row) ==
    [account |-> row.account_index, direction |-> direction_from(row.direction),
     amount |-> row.amount_minor, currency |-> row.currency,
     layer |-> layer_from(row.layer), dimensions |-> {}]

\* The axes of one posting.
dimensions_from(db, id, i) ==
    {d.axis : d \in {d \in db.posting_dimensions : d.entry_id = id /\ d.posting_index = i}}

\* The postings of an entry in order, each with its axes.
load_postings_for_NoDimensions(db, id) ==
    [i \in {k[2] : k \in {k \in DOMAIN db.postings : k[1] = id}} |->
        build_posting(db.postings[<<id, i>>])]

load_postings_for(db, id) ==
    [i \in {k[2] : k \in {k \in DOMAIN db.postings : k[1] = id}} |->
        [build_posting(db.postings[<<id, i>>]) EXCEPT !.dimensions = dimensions_from(db, id, i)]]

document_from(row) ==
    IF row.document_id = None THEN None
    ELSE [id |-> row.document_id, hash |-> row.document_content_hash]

\* The draft a row describes.  It is adopted only when its content hashes to
\* the hash stored beside it.
draft_from(db, id) ==
    LET row  == db.entries[id]
        memo == [kind |-> row.kind, provenance |-> row.provenance,
                 document |-> document_from(row)]
    IN [id |-> id, key |-> row.idempotency_key, booking_date |-> row.booking_date,
        value_date |-> row.value_date, postings |-> load_postings_for(db, id),
        reverses |-> row.reverses, original_booking_date |-> row.original_booking_date,
        description |-> row.description, memo |-> IF memo = NoMemo THEN None ELSE memo]

adopt_verified(draft, hash) == content_hash(draft) = hash

build_stored_entry(db, id) ==
    [ok    |-> adopt_verified(draft_from(db, id), db.entries[id].content_hash),
     index |-> db.entries[id].log_index,
     entry |-> draft_from(db, id)]

-----------------------------------------------------------------------------
(***************************************************************************)
(* The log.                                                                *)
(***************************************************************************)
Placed(db) == {id \in DOMAIN db.entries : db.entries[id].log_index # Null}

\* ORDER BY log_index.
PlacedInOrder(db) ==
    OrderBy(Placed(db), LAMBDA a, b : db.entries[a].log_index < db.entries[b].log_index)

sql_len(db) == Cardinality(Placed(db))

\* COALESCE(MAX(log_index) + 1, 0).
next_index(db) == 1 + Max({0} \cup {db.entries[id].log_index : id \in Placed(db)})

\* LogNotDense at the first row that is not where it should be.
leaves(db) ==
    LET rows == PlacedInOrder(db) IN
    [ok     |-> \A n \in DOMAIN rows : db.entries[rows[n]].log_index = n,
     leaves |-> [n \in DOMAIN rows |-> db.entries[rows[n]].content_hash]]

\* MalformedAccumulator when the subtrees do not cover the placed rows.
accumulator(db) == [ok |-> Len(db.log_subtrees) = sql_len(db), leaves |-> db.log_subtrees]

store_accumulator(db, acc) == [db EXCEPT !.log_subtrees = acc]

\* One row, the last: each row stores the root it produced.
sql_head(db) ==
    IF Placed(db) = {} THEN <<>> ELSE db.entries[Last(PlacedInOrder(db))].tree_root

sql_head_at(db, size) ==
    IF size = 0 THEN <<>>
    ELSE db.entries[CHOOSE id \in Placed(db) : db.entries[id].log_index = size].tree_root

\* The placed entries after a position, and where the next page starts: the log
\* is counted again after the page was read.
page_rows(db, cursor) ==
    Take(SelectSeq(PlacedInOrder(db), LAMBDA id : db.entries[id].log_index > cursor.after),
         effective_limit(cursor))

page_end(db, rows, cursor) ==
    LET last == IF rows = <<>> THEN 0 ELSE db.entries[Last(rows)].log_index IN
    IF rows # <<>> /\ last < sql_len(db) THEN Cursor(last, cursor.limit) ELSE None

-----------------------------------------------------------------------------
(***************************************************************************)
(* Balances: sums over posting rows joined with placed entries.            *)
(***************************************************************************)
row_key(row) ==
    [account |-> row.account_index, currency |-> row.currency, layer |-> layer_from(row.layer)]

SumOf(db, keys) ==
    FoldSet(LAMBDA k, sum : add(sum, build_posting(db.postings[k])), Balance_ZERO, keys)

\* GROUP BY account, currency, layer.
GroupedSums(db, keys) ==
    [g \in {row_key(db.postings[k]) : k \in keys} |->
        SumOf(db, {k \in keys : row_key(db.postings[k]) = g})]

\* log_index IS NOT NULL AND log_index < bound, the bound of a prefix of `size`.
prefix_bound(db, size) ==
    {k \in DOMAIN db.postings : k[1] \in Placed(db) /\ db.entries[k[1]].log_index <= size}

fold_balance(db, on_key, size) ==
    SumOf(db, {k \in prefix_bound(db, size) : row_key(db.postings[k]) = on_key})

sql_trial_balance(db, size) == GroupedSums(db, prefix_bound(db, size))

sql_trial_balance_through_date_Unplaced(db, end) ==
    GroupedSums(db, {k \in DOMAIN db.postings : db.entries[k[1]].booking_date <= end})

sql_trial_balance_through_date(db, end) ==
    GroupedSums(db, {k \in DOMAIN db.postings :
                        k[1] \in Placed(db) /\ db.entries[k[1]].booking_date <= end})

\* Several accounts in one currency and layer; an account with none is absent.
sql_balances(db, wanted, currency, layer, size) ==
    LET rows == {k \in prefix_bound(db, size) :
                    /\ db.postings[k].account_index \in wanted
                    /\ db.postings[k].currency = currency
                    /\ db.postings[k].layer = layer_str(layer)}
    IN [a \in {db.postings[k].account_index : k \in rows} |->
          SumOf(db, {k \in rows : db.postings[k].account_index = a})]

-----------------------------------------------------------------------------
(***************************************************************************)
(* Pages of postings on one balance key, addressed by position and place.  *)
(* A page reads one row past its end to know whether there is more.        *)
(***************************************************************************)
At(db, k) == [index |-> db.entries[k[1]].log_index, posting |-> k[2]]

\* The placed posting rows on a key, in log order.
RowsOn(db, on_key) ==
    OrderBy({k \in DOMAIN db.postings :
                    k[1] \in Placed(db) /\ row_key(db.postings[k]) = on_key},
                 LAMBDA j, k : After(At(db, k), At(db, j)))

\* Everything at or before the cursor, summed.
opening_balance_ByEntry(db, on_key, after) ==
    SumOf(db, {k \in DOMAIN db.postings :
                 /\ k[1] \in Placed(db) /\ row_key(db.postings[k]) = on_key
                 /\ At(db, k).index <= after.index})

opening_balance(db, on_key, after) ==
    SumOf(db, {k \in DOMAIN db.postings :
                 /\ k[1] \in Placed(db) /\ row_key(db.postings[k]) = on_key
                 /\ ~After(At(db, k), after)})

\* The lines after the cursor, each with the balance it leaves.
Line(db, k, running) ==
    [position  |-> At(db, k), posting |-> [entry |-> k[1], index |-> k[2]],
     direction |-> direction_from(db.postings[k].direction),
     amount    |-> db.postings[k].amount_minor, kind |-> db.entries[k[1]].kind,
     running   |-> running]

statement_lines(db, on_key, cursor, opening) ==
    LET rows == SelectSeq(RowsOn(db, on_key), LAMBDA k : After(At(db, k), cursor.after))
        page_ == Take(rows, effective_limit(cursor))
        running(n) == FoldLeft(LAMBDA b, k : add(b, build_posting(db.postings[k])),
                               opening, SubSeq(page_, 1, n))
        items == [n \in DOMAIN page_ |-> Line(db, page_[n], running(n))]
    IN [items |-> items, next |-> next_cursor(items, Len(rows), cursor)]

-----------------------------------------------------------------------------
(***************************************************************************)
(* Clearings.  What is applied to a posting is summed over the items of    *)
(* the clearings that have not been reset.                                 *)
(***************************************************************************)
applied_minor(db, k) ==
    FoldSet(LAMBDA id, sum : sum + AppliedBy(db.clearings[id].clearing,
                                             [entry |-> k[1], index |-> k[2]]),
            0, {id \in DOMAIN db.clearings : db.clearings[id].reset_on = NoDate})

\* The facts of a posting and its residual, from one row; placed or not.
posting_facts(db, ref) ==
    LET row == db.postings[<<ref.entry, ref.index>>] IN
    [key       |-> row_key(row),
     direction |-> direction_from(row.direction),
     residual  |-> row.amount_minor - applied_minor(db, <<ref.entry, ref.index>>)]

\* What holds of a clearing whatever the postings it names.
clearing_is_well_formed(db, c) ==
    /\ Len(c.items) >= 2
    /\ Cardinality(Refs(c)) = Len(c.items)
    /\ \A n \in DOMAIN c.items : c.items[n].applied > 0
    /\ c.id \notin DOMAIN db.clearings

\* One posting: on the key of the clearing, and with enough of it still open.
item_holds(db, c, item) ==
    /\ <<item.posting.entry, item.posting.index>> \in DOMAIN db.postings
    /\ posting_facts(db, item.posting).key = key(c)
    /\ item.applied <= posting_facts(db, item.posting).residual

add_side(db, sides, item) ==
    add(sides, [direction |-> posting_facts(db, item.posting).direction, amount |-> item.applied])

sql_CanClear(db, c) ==
    /\ clearing_is_well_formed(db, c)
    /\ \A n \in DOMAIN c.items : item_holds(db, c, c.items[n])
    /\ is_balanced(FoldLeft(LAMBDA sides, item : add_side(db, sides, item),
                            Balance_ZERO, c.items))

sql_clear(db, c) ==
    [db EXCEPT !.clearings = Insert(@, c.id, [clearing |-> c, reset_on |-> NoDate])]

\* An UPDATE that matches no row is an error.
sql_CanReset(db, id) == id \in DOMAIN db.clearings /\ db.clearings[id].reset_on = NoDate

sql_reset_clearing(db, id, on) == [db EXCEPT !.clearings[id].reset_on = on]

\* The rows of the open_items view on a key after a position.
OpenItem(db, k) ==
    [position  |-> At(db, k), posting |-> [entry |-> k[1], index |-> k[2]],
     direction |-> direction_from(db.postings[k].direction),
     original  |-> db.postings[k].amount_minor, applied |-> applied_minor(db, k),
     residual  |-> db.postings[k].amount_minor - applied_minor(db, k)]

sql_open_items_ByEntry(db, on_key, cursor) ==
    LET open == SelectSeq(RowsOn(db, on_key),
                          LAMBDA k : /\ At(db, k).index > cursor.after.index
                                     /\ db.postings[k].amount_minor > applied_minor(db, k))
        page_ == Take(open, effective_limit(cursor))
        items == [n \in DOMAIN page_ |-> OpenItem(db, page_[n])]
    IN [items |-> items, next |-> next_cursor(items, Len(open), cursor)]

sql_open_items(db, on_key, cursor) ==
    LET open == SelectSeq(RowsOn(db, on_key),
                          LAMBDA k : /\ After(At(db, k), cursor.after)
                                     /\ db.postings[k].amount_minor > applied_minor(db, k))
        page_ == Take(open, effective_limit(cursor))
        items == [n \in DOMAIN page_ |-> OpenItem(db, page_[n])]
    IN [items |-> items, next |-> next_cursor(items, Len(open), cursor)]

-----------------------------------------------------------------------------
(***************************************************************************)
(* Master data, the calendar, seals and checkpoints.                       *)
(***************************************************************************)
account_row(account) ==
    [path |-> account.path, opened_on |-> account.opened_on,
     closed_on |-> account.closed_on, balance_limit |-> limit_code(account.limit)]

account_record(db, id) ==
    [id |-> id, account |-> [path |-> db.accounts[id].path, opened_on |-> db.accounts[id].opened_on,
                             closed_on |-> db.accounts[id].closed_on,
                             limit |-> limit_from_code(db.accounts[id].balance_limit)]]

sql_accounts(db) == {account_record(db, id) : id \in DOMAIN db.accounts}

\* The upsert refuses another path at a known handle, the schema a path held by
\* another handle and a window that ends before it starts.
CanRegisterAccount(db, record) ==
    /\ WindowIsValid(record.account)
    /\ \A id \in DOMAIN db.accounts : id = record.id <=> db.accounts[id].path = record.account.path

register_account(db, record) ==
    [db EXCEPT !.accounts = Insert(@, record.id, account_row(record.account))]

\* The EXCLUDE constraint stands in for the overlap rule of the calendar; a
\* known identifier has its range and state overwritten.
CanDefinePeriod(db, p) ==
    \A id \in DOMAIN db.periods \ {p.id} :
        ~overlaps([start |-> db.periods[id].starts_on, end |-> db.periods[id].ends_on], p)

define_period(db, p) ==
    [db EXCEPT !.periods = Insert(@, p.id, [starts_on |-> p.start, ends_on |-> p.end,
                                            state |-> period_state_str(p.state)])]

\* ORDER BY starts_on.
sql_periods(db) ==
    LET period(id) == [id |-> id, start |-> db.periods[id].starts_on,
                       end |-> db.periods[id].ends_on,
                       state |-> period_state_from(db.periods[id].state)]
    IN OrderBy({period(id) : id \in DOMAIN db.periods}, LAMBDA p, q : p.start < q.start)

\* A calendar built from the rows, its watermark from the sealed ones.
calendar_of(db) == from_periods(sql_periods(db))

set_period_state(db, id, state) == [db EXCEPT !.periods[id].state = period_state_str(state)]

\* ORDER BY chain_position.
sql_seals(db) ==
    LET order == OrderBy(DOMAIN db.seals,
                              LAMBDA a, b : db.seals[a].chain_position < db.seals[b].chain_position)
    IN [n \in DOMAIN order |-> db.seals[order[n]].seal]

\* The span of a period over placed rows.
sql_coverage(db, start, end) ==
    LET inside == {db.entries[id].log_index : id \in
                      {id \in Placed(db) : /\ db.entries[id].booking_date >= start
                                           /\ db.entries[id].booking_date <= end}}
    IN [first_index |-> IF inside = {} THEN 0 ELSE Min(inside),
        last_index  |-> IF inside = {} THEN 0 ELSE Max(inside),
        entry_count |-> Cardinality(inside)]

\* The constraints of the seals table: one seal per period, a period that
\* exists, one row per place in the chain, one genesis, no hash twice.
CanInsertSeal_NoConstraints(db, seal_, position) == seal_.period \in DOMAIN db.periods

CanInsertSeal(db, seal_, position) ==
    /\ seal_.period \in DOMAIN db.periods
    /\ seal_.period \notin DOMAIN db.seals
    /\ \A id \in DOMAIN db.seals :
          /\ db.seals[id].chain_position # position
          /\ db.seals[id].seal.seal_hash # seal_.seal_hash
          /\ ~(db.seals[id].seal.prev_seal = <<>> /\ seal_.prev_seal = <<>>)

insert_seal(db, seal_, position) ==
    [db EXCEPT !.seals = Insert(@, seal_.period, [seal |-> seal_, chain_position |-> position])]

save_checkpoint(db, cp) ==
    [db EXCEPT !.checkpoints = Insert(@, cp.key, [balance |-> cp.balance, tree_head |-> cp.tree_head])]

load_checkpoint(db, on_key) ==
    [key |-> on_key, balance |-> db.checkpoints[on_key].balance,
     tree_head |-> db.checkpoints[on_key].tree_head]

-----------------------------------------------------------------------------
(***************************************************************************)
(* The rules append_one applies, on the rows its transaction sees.         *)
(***************************************************************************)
\* Another entry holds the identifier under another key.
Clashes(db, e) == e.id \in DOMAIN db.entries /\ db.entries[e.id].idempotency_key # e.key

ReversalOf(db, original) == {id \in DOMAIN db.entries : db.entries[id].reverses = original}

check_reversal(db, e) ==
    /\ e.reverses \in DOMAIN db.entries
    /\ db.entries[e.reverses].reverses = None
    /\ ReversalOf(db, e.reverses) \subseteq {e.id}
    /\ is_inversion_of([postings |-> load_postings_for(db, e.reverses)], e)

\* The net of every posting row on a key, placed or not.
net_of(db, on_key) ==
    SumOf(db, {k \in DOMAIN db.postings : row_key(db.postings[k]) = on_key})

check_limits(db, on_key) ==
    permits(limit_from_code(db.accounts[on_key.account].balance_limit), net_of(db, on_key))

\* The rows an entry inserts, its postings one by one.
insert_entry(db, e, xid, log_index, root) ==
    [db EXCEPT !.entries = Insert(@, e.id, entry_row(e, xid, log_index, root))]

insert_posting(db, e, i) ==
    [db EXCEPT !.postings = Insert(@, <<e.id, i>>, posting_row(e.postings[i])),
               !.posting_dimensions = @ \cup {[entry_id |-> e.id, posting_index |-> i, axis |-> a] :
                                                 a \in e.postings[i].dimensions}]

\* Everything an append writes: placed at once, or left to the sequencer.
append_rows(db, e, xid, inline) ==
    LET log    == Append(db.log_subtrees, content_hash(e))
        rows   == insert_entry(db, e, xid, IF inline THEN next_index(db) ELSE Null,
                               IF inline THEN log ELSE <<>>)
        posted == FoldLeft(LAMBDA t, i : insert_posting(t, e, i), rows,
                           [i \in DOMAIN e.postings |-> i])
    IN IF inline THEN store_accumulator(posted, log) ELSE posted

\* One row of a sequencing pass.
place_row(db, id) ==
    LET log == Append(db.log_subtrees, db.entries[id].content_hash) IN
    [db EXCEPT !.log_subtrees = log,
               !.entries[id].log_index = next_index(db),
               !.entries[id].tree_root = log]

\* append, with no other transaction running: each entry in turn on what the
\* transaction has written so far, and nothing at all when one is refused.
append_one_Outcome(db, e) ==
    LET holders == {id \in DOMAIN db.entries : db.entries[id].idempotency_key = e.key}
        after   == append_rows(db, e, 0, FALSE)
    IN IF Clashes(db, e) THEN "DuplicateId"
       ELSE IF e.reverses # None /\ ~check_reversal(db, e) THEN "Reversal"
       ELSE IF holders # {}
       THEN IF \E id \in holders : db.entries[id].content_hash = content_hash(e)
            THEN "Replay" ELSE "IdempotencyConflict"
       ELSE IF \E i \in DOMAIN e.postings : e.postings[i].account \notin DOMAIN db.accounts
       THEN "UnknownAccount"
       ELSE IF \E i \in DOMAIN e.postings : ~check_limits(after, key_of(e.postings[i]))
       THEN "LimitBreached"
       ELSE "New"

append_one(acc, e, xid, inline) ==
    LET outcome == append_one_Outcome(acc.db, e) IN
    IF ~acc.ok THEN acc
    ELSE [db |-> IF outcome = "New" THEN append_rows(acc.db, e, xid, inline) ELSE acc.db,
          ok |-> outcome \in {"New", "Replay"}]

sql_append(db, batch, xid, inline) ==
    LET done == FoldLeft(LAMBDA acc, e : append_one(acc, e, xid, inline),
                         [db |-> db, ok |-> ~inline \/ accumulator(db).ok], batch)
    IN [db |-> IF done.ok THEN done.db ELSE db, ok |-> done.ok]

\* A pass of the sequencer over the unplaced rows below the watermark.
sql_sequence(db, watermark) ==
    LET waiting == {id \in DOMAIN db.entries \ Placed(db) : db.entries[id].insert_xid < watermark}
        order   == OrderBy(waiting, LAMBDA a, b :
                              \/ db.entries[a].insert_xid < db.entries[b].insert_xid
                              \/ db.entries[a].insert_xid = db.entries[b].insert_xid /\ a < b)
    IN [db |-> FoldLeft(place_row, db, order), placed |-> Len(order)]

-----------------------------------------------------------------------------
(***************************************************************************)
(* The journal a database holds: its placed entries, recorded in order.    *)
(***************************************************************************)
AsBooks(db) ==
    FoldLeft(LAMBDA books, id : append(books, draft_from(db, id)),
             Books_new, PlacedInOrder(db))
=============================================================================
