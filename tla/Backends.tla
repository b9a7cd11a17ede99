------------------------------ MODULE Backends ------------------------------
(***************************************************************************)
(* LedgerStore (src/storage.rs): every call of the contract, on each store *)
(* that implements it, with nobody else connected.  A store is the kind of *)
(* backend and what it holds: the journal of the in-memory store, or the   *)
(* tables of a database.  A call answers with ok, the store it leaves and, *)
(* where it returns something, a value.                                    *)
(***************************************************************************)
EXTENDS Seals, Paging

Pg   == INSTANCE SqlTables
Lite == INSTANCE SqliteQueries

Kinds == {"memory", "sqlite", "inline", "deferred"}

\* What each kind of store does, by its own module.
Ask(st, memory, sqlite, postgres) ==
    CASE st.kind = "memory" -> memory
      [] st.kind = "sqlite" -> sqlite
      [] st.kind \in {"inline", "deferred"} -> postgres

Done(st, ok, db) == [ok |-> ok, st |-> IF ok THEN [st EXCEPT !.db = db] ELSE st]

MemoryStore_new ==
    [accounts |-> AccountRegistry_new, calendar |-> PeriodCalendar_new, books |-> Books_new,
     seals |-> <<>>, clearings |-> ClearingRegister_new, checkpoints |-> EmptyMap]

new_store(kind) ==
    LET st == [kind |-> kind, db |-> <<>>] IN
    [st EXCEPT !.db = Ask(st, MemoryStore_new, Lite!claim(Lite!Schema, Ledger), Pg!migrate)]

-----------------------------------------------------------------------------
(***************************************************************************)
(* The log.                                                                *)
(***************************************************************************)
\* An entry by its identifier, placed or not.
st_get(st, id) ==
    Ask(st,
        IF id \in DOMAIN st.db.books.by_id
        THEN [ok |-> TRUE, index |-> st.db.books.by_id[id],
              entry |-> st.db.books.entries[st.db.books.by_id[id]]]
        ELSE None,
        Lite!sql_get(st.db, id),
        IF id \in DOMAIN st.db.entries THEN Pg!build_stored_entry(st.db, id) ELSE None)

HolderOf(st, k) ==
    Ask(st, st.db.books.by_key[k].id,
        (CHOOSE row \in st.db.entries : row.idempotency_key = k).entry_id,
        CHOOSE id \in DOMAIN st.db.entries : st.db.entries[id].idempotency_key = k)

\* Each transaction of a deferred store has an identifier of its own.
NextXid(st) == 1 + Cardinality(DOMAIN st.db.entries)

\* The outcome of an entry: under whose identifier it is recorded, where, and
\* whether this call recorded it.
Recorded(before, after, id) ==
    [id |-> id, index |-> st_get(after, id).index, is_new |-> st_get(before, id) = None]

WithOutcomes(before, done, batch) ==
    done @@ [value |-> IF done.ok THEN [n \in DOMAIN batch |->
                           Recorded(before, done.st, HolderOf(done.st, batch[n].key))]
                       ELSE None]

st_append(st, batch) ==
    LET memory == Applied(st.db.books, st.db.accounts, batch)
        done(result) == Done(st, result.ok, result.db)
    IN WithOutcomes(st, done(Ask(st, [ok |-> memory.ok, db |-> [st.db EXCEPT !.books = memory.books]],
                                 Lite!sql_append(st.db, batch),
                                 Pg!sql_append(st.db, batch, NextXid(st), st.kind = "inline"))),
                    batch)

\* A pass: only a deferred store has anything to place, and only what is below
\* the oldest transaction still running.
st_sequence(st, watermark) ==
    LET pass == Pg!sql_sequence(st.db, watermark) IN
    IF st.kind = "deferred"
    THEN Done(st, TRUE, pass.db) @@ [value |-> pass.placed]
    ELSE [ok |-> TRUE, st |-> st, value |-> 0]

st_leaves(st) ==
    Ask(st, st.db.books.log, Lite!log(st.db).leaves, Pg!leaves(st.db).leaves)

st_len(st) ==
    Ask(st, Len(st.db.books.entries), Lite!sql_len(st.db), Pg!sql_len(st.db))

st_head(st) == Ask(st, head(st.db.books), Lite!sql_head(st.db), Pg!sql_head(st.db))

st_head_at(st, size) ==
    Ask(st, SubSeq(st.db.books.log, 1, size), Lite!sql_head_at(st.db, size),
        Pg!sql_head_at(st.db, size))

st_page(st, cursor) ==
    LET rows == Pg!page_rows(st.db, cursor) IN
    Ask(st, page(st.db.books, cursor), Lite!sql_page(st.db, cursor),
        [records |-> [n \in DOMAIN rows |-> Pg!build_stored_entry(st.db, rows[n])],
         next    |-> Pg!page_end(st.db, rows, cursor)])

\* Proofs are built from the leaves; each names the heads it speaks about.
prove_inclusion_at(st, index, size) ==
    [leaf_index |-> index, leaves |-> SubSeq(st_leaves(st), 1, size)]

verify_inclusion(proof, leaf, tree_head) ==
    proof.leaves = tree_head /\ proof.leaves[proof.leaf_index] = leaf

prove_consistency_between(st, old_size, new_size) ==
    [old |-> SubSeq(st_leaves(st), 1, old_size), new |-> SubSeq(st_leaves(st), 1, new_size)]

verify_consistency(proof, old, new) ==
    proof.old = old /\ proof.new = new /\ IsPrefix(old, new)

-----------------------------------------------------------------------------
(***************************************************************************)
(* Balances, statements, clearings, checkpoints.                           *)
(***************************************************************************)
st_balance(st, on_key) ==
    Ask(st, get_or_zero(st.db.books.balances, on_key),
        Lite!sql_balance(st.db, on_key, st_len(st)), Pg!fold_balance(st.db, on_key, st_len(st)))

st_trial_balance(st) ==
    Ask(st, trial_balance(st.db.books, st_len(st)), Lite!sql_trial_balance(st.db, st_len(st)),
        Pg!sql_trial_balance(st.db, st_len(st)))

st_balances(st, wanted, currency, layer) ==
    Ask(st, balances(st.db.books, wanted, currency, layer, st_len(st)),
        Lite!sql_balances(st.db, wanted, currency, layer, st_len(st)),
        Pg!sql_balances(st.db, wanted, currency, layer, st_len(st)))

st_trial_balance_through_date(st, end) ==
    Ask(st, trial_balance_through_date(st.db.books, end),
        Lite!sql_trial_balance_through_date(st.db, end),
        Pg!sql_trial_balance_through_date(st.db, end))

st_statement(st, on_key, cursor) ==
    Ask(st, statement_page(st.db.books, on_key, cursor), Lite!sql_statement(st.db, on_key, cursor),
        Pg!statement_lines(st.db, on_key, cursor, Pg!opening_balance(st.db, on_key, cursor.after)))

st_open_items(st, on_key, cursor) ==
    Ask(st, open_items_page(st.db.clearings, st.db.books, on_key, cursor),
        Lite!sql_open_items(st.db, on_key, cursor), Pg!sql_open_items(st.db, on_key, cursor))

st_clear(st, c) ==
    Done(st, Ask(st, CanClear(st.db.clearings, st.db.books, c), Lite!sql_CanClear(st.db, c),
                 Pg!sql_CanClear(st.db, c)),
         Ask(st, [st.db EXCEPT !.clearings = clear(@, c)], Lite!sql_clear(st.db, c),
             Pg!sql_clear(st.db, c)))

st_reset_clearing(st, id, on) ==
    Done(st, Ask(st, CanReset(st.db.clearings, id), Lite!sql_CanReset(st.db, id),
                 Pg!sql_CanReset(st.db, id)),
         Ask(st, [st.db EXCEPT !.clearings = reset(@, id, on)],
             Lite!sql_reset_clearing(st.db, id, on), Pg!sql_reset_clearing(st.db, id, on)))

st_save_checkpoint(st, cp) ==
    Done(st, TRUE, Ask(st, [st.db EXCEPT !.checkpoints = Insert(@, cp.key, cp)],
                       Lite!save_checkpoint(st.db, cp), Pg!save_checkpoint(st.db, cp)))

st_load_checkpoint(st, on_key) ==
    LET saved == Ask(st, DOMAIN st.db.checkpoints, {cp.key : cp \in st.db.checkpoints},
                     DOMAIN st.db.checkpoints)
    IN IF on_key \in saved
       THEN Ask(st, st.db.checkpoints[on_key], Lite!load_checkpoint(st.db, on_key),
                Pg!load_checkpoint(st.db, on_key))
       ELSE None

-----------------------------------------------------------------------------
(***************************************************************************)
(* Accounts, periods and seals.                                            *)
(***************************************************************************)
st_accounts(st) ==
    Ask(st, records(st.db.accounts), Lite!sql_accounts(st.db), Pg!sql_accounts(st.db))

st_register_account(st, record) ==
    Done(st, Ask(st, CanRestore(st.db.accounts, record), Lite!CanRegisterAccount(st.db, record),
                 Pg!CanRegisterAccount(st.db, record)),
         Ask(st, [st.db EXCEPT !.accounts = restore(@, record)],
             Lite!register_account(st.db, record), Pg!register_account(st.db, record)))

st_periods(st) ==
    Ask(st, {st.db.calendar.periods[id] : id \in DOMAIN st.db.calendar.periods},
        Range(Lite!sql_periods(st.db)), Range(Pg!sql_periods(st.db)))

st_calendar(st) ==
    Ask(st, st.db.calendar, Lite!calendar(st.db).calendar, Pg!calendar_of(st.db).calendar)

st_define_period(st, p) ==
    Done(st, Ask(st, CanEnsure(st.db.calendar, p), CanEnsure(st_calendar(st), p),
                 Pg!CanDefinePeriod(st.db, p)),
         Ask(st, [st.db EXCEPT !.calendar = ensure(@, p)], Lite!define_period(st.db, p),
             Pg!define_period(st.db, p)))

st_transition_period(st, id, to) ==
    Done(st, CanTransition(st_calendar(st), id, to),
         Ask(st, [st.db EXCEPT !.calendar = transition(@, id, to)],
             Lite!set_period_state(st.db, id, to), Pg!set_period_state(st.db, id, to)))

st_seals(st) == Ask(st, st.db.seals, Lite!sql_seals(st.db), Pg!sql_seals(st.db))

\* The seal of period p as the store reads its books, on the chain it has.
SealFor(st, p, chain) ==
    build(p.id,
          Ask(st, coverage(st.db.books, p.start, p.end), Lite!span(st.db, p.start, p.end),
              Pg!sql_coverage(st.db, p.start, p.end)),
          st_head(st), st_trial_balance_through_date(st, p.end),
          commitment(from_records(st_accounts(st)).registry), chain_head(chain))

\* A seal the chain takes, and the period's move to Sealed.
PushSeal(st, id, chain, seal_) ==
    LET ok == Ask(st, check_link(chain, seal_), Lite!CanInsertSeal(st.db, seal_, Len(chain)),
                  Pg!CanInsertSeal(st.db, seal_, Len(chain)))
    IN Done(st, ok,
            Ask(st, [st.db EXCEPT !.seals = Append(@, seal_),
                                  !.calendar = transition(@, id, "Sealed")],
                Lite!insert_seal(st.db, seal_, Len(chain)),
                Pg!set_period_state(Pg!insert_seal(st.db, seal_, Len(chain)), id, "Sealed")))
       @@ [value |-> IF ok THEN seal_ ELSE None]

st_seal_period(st, id) ==
    IF check_sealable(st_calendar(st), id)
    THEN PushSeal(st, id, st_seals(st), SealFor(st, st_calendar(st).periods[id], st_seals(st)))
    ELSE [ok |-> FALSE, st |-> st, value |-> None]

\* The provided method: seals, periods, closing balance, accounts.
st_prove_sealed_balance(st, id, on_key) ==
    LET found == {s \in Range(st_seals(st)) : s.period = id}
        seal_ == CHOOSE s \in found : TRUE
        p     == CHOOSE p \in st_periods(st) : p.id = id
        reg   == from_records(st_accounts(st)).registry
    IN IF found = {} THEN [outcome |-> "NotSealed"]
       ELSE [outcome |-> assemble(seal_, st_trial_balance_through_date(st, p.end), reg, on_key),
             seal |-> seal_, balance |-> get_or_zero(seal_.trial_balance, on_key),
             path |-> IF on_key.account \in Handles(reg) THEN get(reg, on_key.account).path
                      ELSE <<>>]
=============================================================================
