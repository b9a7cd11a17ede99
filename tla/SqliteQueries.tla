---------------------------- MODULE SqliteQueries ---------------------------
(***************************************************************************)
(* What the other calls of a SQLite ledger read and write, one query each: *)
(* balances, statements, clearings, accounts, the calendar, seals and      *)
(* checkpoints (src/storage/sqlite.rs).                                    *)
(***************************************************************************)
EXTENDS SqliteTables

-----------------------------------------------------------------------------
(***************************************************************************)
(* Balances.                                                               *)
(***************************************************************************)
IndexOf(db, p) == EntryRow(db, p.entry_id).log_index

KeyOf(p) == [account |-> p.account_index, currency |-> p.currency, layer |-> layer_from(p.layer)]

\* Gross sums of posting rows.
SumOf(rows) ==
    [debits  |-> MapThenSumSet(LAMBDA p : p.amount_minor, {p \in rows : p.direction = "D"}),
     credits |-> MapThenSumSet(LAMBDA p : p.amount_minor, {p \in rows : p.direction = "C"})]

\* The rows of the first `size` entries.
prefix_bound(db, size) == {p \in db.postings : IndexOf(db, p) <= size}

build_trial_balance(rows) ==
    [k \in {KeyOf(p) : p \in rows} |-> SumOf({p \in rows : KeyOf(p) = k})]

sql_balance(db, on_key, size) == SumOf({p \in prefix_bound(db, size) : KeyOf(p) = on_key})

sql_trial_balance(db, size) == build_trial_balance(prefix_bound(db, size))

sql_trial_balance_through_date(db, end) ==
    build_trial_balance({p \in db.postings : EntryRow(db, p.entry_id).booking_date <= end})

sql_balances(db, wanted, currency, layer, size) ==
    LET rows == {p \in prefix_bound(db, size) : /\ p.account_index \in wanted
                                                /\ p.currency = currency
                                                /\ p.layer = layer_str(layer)}
    IN [a \in {p.account_index : p \in rows} |-> SumOf({p \in rows : p.account_index = a})]

-----------------------------------------------------------------------------
(***************************************************************************)
(* Statements and open items.                                              *)
(***************************************************************************)
At(db, p) == [index |-> IndexOf(db, p), posting |-> p.posting_index]

RefOf(p) == [entry |-> p.entry_id, index |-> p.posting_index]

\* Rows on a key after a position, in order.
RowsAfter(db, rows, on_key, after) ==
    OrderBy({p \in rows : KeyOf(p) = on_key /\ After(At(db, p), after)},
                 LAMBDA p, q : After(At(db, q), At(db, p)))

\* Everything at or before the position a page starts after.
opening(db, on_key, after) ==
    SumOf({p \in db.postings : KeyOf(p) = on_key /\ ~After(At(db, p), after)})

sql_statement_FromZero(db, on_key, cursor) ==
    LET rows  == RowsAfter(db, db.postings, on_key, cursor.after)
        page_ == Take(rows, effective_limit(cursor))
        line(n) == [position |-> At(db, page_[n]), posting |-> RefOf(page_[n]),
                    direction |-> direction_from(page_[n].direction),
                    amount |-> page_[n].amount_minor, kind |-> EntryRow(db, page_[n].entry_id).kind,
                    running |-> SumOf({page_[m] : m \in 1..n})]
        lines == [n \in DOMAIN page_ |-> line(n)]
    IN [items |-> lines, next |-> next_cursor(lines, Len(rows), cursor)]

sql_statement(db, on_key, cursor) ==
    LET rows  == RowsAfter(db, db.postings, on_key, cursor.after)
        page_ == Take(rows, effective_limit(cursor))
        line(n) == [position |-> At(db, page_[n]), posting |-> RefOf(page_[n]),
                    direction |-> direction_from(page_[n].direction),
                    amount |-> page_[n].amount_minor, kind |-> EntryRow(db, page_[n].entry_id).kind,
                    running |-> checked_add(opening(db, on_key, cursor.after),
                                            SumOf({page_[m] : m \in 1..n}))]
        lines == [n \in DOMAIN page_ |-> line(n)]
    IN [items |-> lines, next |-> next_cursor(lines, Len(rows), cursor)]

\* What the clearings that have not been reset apply to a posting.
applied(db, p) ==
    LET standing == {c.clearing_id : c \in {c \in db.clearings : c.reset_on = NoDate}} IN
    MapThenSumSet(LAMBDA i : i.applied_minor,
                  {i \in db.clearing_items : /\ i.clearing_id \in standing
                                             /\ i.entry_id = p.entry_id
                                             /\ i.posting_index = p.posting_index})

residual(db, p) == p.amount_minor - applied(db, p)

sql_open_items(db, on_key, cursor) ==
    LET rows  == RowsAfter(db, {p \in db.postings : residual(db, p) > 0}, on_key, cursor.after)
        page_ == Take(rows, effective_limit(cursor))
        item(p) == [position |-> At(db, p), posting |-> RefOf(p),
                    direction |-> direction_from(p.direction), original |-> p.amount_minor,
                    applied |-> applied(db, p), residual |-> residual(db, p)]
        items == [n \in DOMAIN page_ |-> item(page_[n])]
    IN [items |-> items, next |-> next_cursor(items, Len(rows), cursor)]

-----------------------------------------------------------------------------
(***************************************************************************)
(* Clearings, in one transaction.                                          *)
(***************************************************************************)
posting_facts(db, ref) ==
    LET p == CHOOSE p \in db.postings : RefOf(p) = ref IN
    [key |-> KeyOf(p), direction |-> direction_from(p.direction), residual |-> residual(db, p)]

sql_CanClear(db, c) ==
    /\ \A d \in db.clearings : d.clearing_id # c.id
    /\ Len(c.items) >= 2
    /\ Cardinality(Refs(c)) = Len(c.items)
    /\ \A n \in DOMAIN c.items :
          LET item == c.items[n] IN
          /\ item.applied > 0
          /\ \E p \in db.postings : RefOf(p) = item.posting
          /\ posting_facts(db, item.posting).key = key(c)
          /\ item.applied <= posting_facts(db, item.posting).residual
    /\ is_balanced(FoldLeft(LAMBDA sides, item :
                               add(sides, [direction |-> posting_facts(db, item.posting).direction,
                                           amount |-> item.applied]), Balance_ZERO, c.items))

sql_clear(db, c) ==
    [db EXCEPT
        !.clearings = @ \cup {[clearing_id |-> c.id, cleared_on |-> c.cleared_on,
                               reset_on |-> NoDate]},
        !.clearing_items = @ \cup {[clearing_id |-> c.id, entry_id |-> c.items[n].posting.entry,
                                    posting_index |-> c.items[n].posting.index,
                                    applied_minor |-> c.items[n].applied] : n \in DOMAIN c.items}]

\* An UPDATE that matches no row is an error.
sql_CanReset(db, id) == \E c \in db.clearings : c.clearing_id = id /\ c.reset_on = NoDate

sql_reset_clearing(db, id, on) ==
    [db EXCEPT !.clearings = {IF c.clearing_id = id THEN [c EXCEPT !.reset_on = on] ELSE c : c \in @}]

-----------------------------------------------------------------------------
(***************************************************************************)
(* Accounts.                                                               *)
(***************************************************************************)
account_record(row) ==
    [id |-> row.account_index,
     account |-> [path |-> row.path, opened_on |-> row.opened_on, closed_on |-> row.closed_on,
                  limit |-> limit_from_code(row.balance_limit)]]

sql_accounts(db) == {account_record(row) : row \in db.accounts}

\* AccountRebound when a handle has another path; a path has one handle.
CanRegisterAccount(db, record) ==
    /\ WindowIsValid(record.account)
    /\ \A row \in db.accounts : row.account_index = record.id <=> row.path = record.account.path

\* Upsert: everything but the path is master data and may change.
register_account(db, record) ==
    [db EXCEPT !.accounts =
        {row \in @ : row.account_index # record.id} \cup
        {[account_index |-> record.id, path |-> record.account.path,
          opened_on |-> record.account.opened_on, closed_on |-> record.account.closed_on,
          balance_limit |-> limit_code(record.account.limit)]}]

-----------------------------------------------------------------------------
(***************************************************************************)
(* The calendar, seals and checkpoints.                                    *)
(***************************************************************************)
period_row(row) ==
    [id |-> row.period_id, start |-> row.starts_on, end |-> row.ends_on,
     state |-> CHOOSE state \in PeriodState : period_state_str(state) = row.state]

\* ORDER BY starts_on.  Rows that overlap are possible: nothing in the schema
\* forbids them.
sql_periods(db) ==
    OrderBy({period_row(row) : row \in db.periods}, LAMBDA p, q : p.start < q.start)

calendar(db) == from_periods(sql_periods(db))

define_period(db, p) ==
    [db EXCEPT !.periods = {row \in @ : row.period_id # p.id} \cup
        {[period_id |-> p.id, starts_on |-> p.start, ends_on |-> p.end,
          state |-> period_state_str(p.state)]}]

set_period_state(db, id, state) ==
    [db EXCEPT !.periods = {IF row.period_id = id
                            THEN [row EXCEPT !.state = period_state_str(state)] ELSE row : row \in @}]

\* The span of a period.
span(db, start, end) ==
    LET inside == {row.log_index : row \in {row \in db.entries : row.booking_date \in start..end}} IN
    [first_index |-> IF inside = {} THEN 0 ELSE Min(inside),
     last_index  |-> IF inside = {} THEN 0 ELSE Max(inside),
     entry_count |-> Cardinality(inside)]

\* ORDER BY chain_position.
sql_seals(db) ==
    LET rows == OrderBy(db.seals, LAMBDA a, b : a.chain_position < b.chain_position) IN
    [n \in DOMAIN rows |-> rows[n].seal]

\* The constraints of the seals table.
CanInsertSeal(db, seal_, position) ==
    /\ \E row \in db.periods : row.period_id = seal_.period
    /\ \A row \in db.seals :
          /\ row.seal.period # seal_.period
          /\ row.chain_position # position
          /\ row.seal.seal_hash # seal_.seal_hash
          /\ ~(row.seal.prev_seal = <<>> /\ seal_.prev_seal = <<>>)

insert_seal(db, seal_, position) ==
    set_period_state([db EXCEPT !.seals = @ \cup {[seal |-> seal_, chain_position |-> position]}],
                     seal_.period, "Sealed")

save_checkpoint(db, cp) ==
    [db EXCEPT !.checkpoints = {row \in @ : row.key # cp.key} \cup {cp}]

load_checkpoint(db, on_key) == CHOOSE row \in db.checkpoints : row.key = on_key

-----------------------------------------------------------------------------
\* The journal the rows amount to, its entries recorded in order.
AsBooks(db) ==
    LET rows == InLogOrder(db) IN
    FoldLeft(LAMBDA books, row : append(books, build_stored_entry(db, row).entry), Books_new, rows)
=============================================================================
