--------------------------- MODULE FaultyBackends ---------------------------
(***************************************************************************)
(* Stores with one defect each, of the kinds the conformance suite says it *)
(* is there to find (the comments of src/storage/conformance.rs and the    *)
(* contract in src/storage.rs).  A store names its defect, None for a      *)
(* store without one; each call below is the call of Backends but for the  *)
(* stores whose defect shows in it.  The defects are those of an in-memory *)
(* store.                                                                  *)
(***************************************************************************)
EXTENDS Backends

\* Each defect, and the check that is there to find it.
CaughtBy ==
    [partial_batches     |-> "batches_are_atomic",
     overwrites_key      |-> "conflicting_key_is_refused",
     records_replays     |-> "replay_is_idempotent",
     repeats_a_record    |-> "pagination_covers_the_log",
     stale_total         |-> "balances_match_the_log",
     drifting_heads      |-> "proofs_verify",
     reverses_again      |-> "reversal_rules_are_enforced",
     one_sided_clearings |-> "clearing_rules_are_enforced",
     identifier_order    |-> "open_items_track_residuals",
     keeps_applied       |-> "open_items_track_residuals",
     path_order          |-> "account_bindings_survive_a_restart",
     inserts_only        |-> "balance_limits_are_enforced",
     unlimited           |-> "balance_limits_are_enforced",
     loses_kind          |-> "entry_kind_survives_a_round_trip",
     loses_axes          |-> "posting_dimensions_survive_a_round_trip",
     zero_rows           |-> "balance_readers_agree",
     entry_cursor        |-> "statement_pagination_is_exact",
     headless_checkpoint |-> "checkpoints_round_trip",
     seals_any_order     |-> "periods_persist_and_seal_into_a_chain",
     unbound_seal        |-> "periods_persist_and_seal_into_a_chain",
     forgets_states      |-> "periods_persist_and_seal_into_a_chain"]

-----------------------------------------------------------------------------
\* Entries the store should have refused, recorded all the same.
Forced(st, e) == Done(st, TRUE, [st.db EXCEPT !.books = append(@, e)])
                    @@ [value |-> <<[id |-> e.id, index |-> Len(st.db.books.entries) + 1,
                                     is_new |-> TRUE]>>]

\* What is left of a refused batch: the longest part of it that was good.
Partial(parts, whole) ==
    IF parts[whole].ok THEN parts[whole]
    ELSE [parts[Max({n \in 0..whole : parts[n].ok})] EXCEPT !.ok = FALSE]

call_append(st, batch) ==
    LET outcome == Outcome(st.db.books, st.db.accounts, batch[1])
    IN CASE st.defect = "partial_batches" ->
              Partial([n \in 0..Len(batch) |-> st_append(st, SubSeq(batch, 1, n))], Len(batch))
         [] st.defect = "overwrites_key" /\ outcome = "IdempotencyConflict" ->
              [ok |-> TRUE, st |-> st, value |-> None]
         [] st.defect = "records_replays" /\ outcome = "Replay" -> Forced(st, batch[1])
         [] st.defect = "reverses_again" /\ outcome = "Reversal"
              /\ ReversalHolds_Repeatable(st.db.books, batch[1]) -> Forced(st, batch[1])
         [] st.defect = "unlimited" /\ outcome = "LimitBreached" -> Forced(st, batch[1])
         [] OTHER -> st_append(st, batch)

\* A record that lost a hashed field no longer reads back.
call_get(st, id) ==
    LET found == st_get(st, id)
        loses == \/ st.defect = "loses_kind" /\ found.entry.memo # None
                 \/ st.defect = "loses_axes" /\ found.entry.postings[1].dimensions # {}
    IN IF found # None /\ loses THEN [found EXCEPT !.ok = FALSE] ELSE found

OneBack(st, read, limit) ==
    IF st.defect = "repeats_a_record" /\ read.next # None /\ limit > 1
    THEN [read EXCEPT !.next.after = @ - 1] ELSE read

call_page(st, cursor) == OneBack(st, st_page(st, cursor), cursor.limit)

call_head_at(st, size) ==
    st_head_at(st, IF st.defect = "drifting_heads" /\ size > 1 THEN size - 1 ELSE size)

call_balance(st, on_key) ==
    IF st.defect = "stale_total"
    THEN get_or_zero(trial_balance(st.db.books, st_len(st) - 1), on_key)
    ELSE st_balance(st, on_key)

call_balances(st, wanted, currency, layer) ==
    LET read == st_balances(st, wanted, currency, layer) IN
    IF st.defect = "zero_rows"
    THEN [a \in wanted |-> IF a \in DOMAIN read THEN read[a] ELSE Balance_ZERO] ELSE read

\* A cursor that names the entry a page ended in, and not the posting.
PastTheEntry(st, read) ==
    IF st.defect = "entry_cursor" /\ read.next # None
    THEN [read EXCEPT !.next.after.posting = MaxPostings] ELSE read

WithoutKinds(st, read) ==
    IF st.defect = "loses_kind"
    THEN [read EXCEPT !.items = [n \in DOMAIN @ |-> [@[n] EXCEPT !.kind = None]]] ELSE read

call_statement(st, on_key, cursor) ==
    PastTheEntry(st, WithoutKinds(st, st_statement(st, on_key, cursor)))

ByIdentifier(st, read) ==
    IF st.defect = "identifier_order"
    THEN [read EXCEPT !.items = SortSeq(@, LAMBDA a, b : a.posting.entry < b.posting.entry)]
    ELSE read

call_open_items(st, on_key, cursor) ==
    PastTheEntry(st, ByIdentifier(st, st_open_items(st, on_key, cursor)))

call_clear(st, c) ==
    IF st.defect = "one_sided_clearings" /\ \A n \in DOMAIN c.items :
          ItemHolds(st.db.clearings, st.db.books, c, c.items[n])
    THEN Done(st, TRUE, [st.db EXCEPT !.clearings = clear(@, c)]) ELSE st_clear(st, c)

call_reset_clearing(st, id, on) ==
    IF st.defect = "keeps_applied" /\ CanReset(st.db.clearings, id)
    THEN Done(st, TRUE, [st.db EXCEPT !.clearings = reset_KeepsApplied(@, id, on)])
    ELSE st_reset_clearing(st, id, on)

call_load_checkpoint(st, on_key) ==
    LET read == st_load_checkpoint(st, on_key) IN
    IF st.defect = "headless_checkpoint" /\ read # None
    THEN [read EXCEPT !.tree_head = <<>>] ELSE read

\* Handles reissued in the order of the paths.
call_accounts(st) ==
    LET stored == st_accounts(st)
        rank(r) == 1 + Cardinality({s \in stored : PathLess(s.account.path, r.account.path)})
    IN IF st.defect = "path_order" THEN {[r EXCEPT !.id = rank(r)] : r \in stored} ELSE stored

call_register_account(st, record) ==
    IF st.defect = "inserts_only" /\ record.id \in Handles(st.db.accounts)
          /\ get(st.db.accounts, record.id).path = record.account.path
    THEN [ok |-> TRUE, st |-> st] ELSE st_register_account(st, record)

call_periods(st) ==
    IF st.defect = "forgets_states" THEN {[p EXCEPT !.state = "Open"] : p \in st_periods(st)}
    ELSE st_periods(st)

\* A seal that does not commit to the accounts.
Unbound(done) ==
    LET blank == Insert([done.value EXCEPT !.accounts = <<>>], "seal_hash",
                        [compute_hash(done.value) EXCEPT !.accounts = <<>>])
    IN IF done.ok THEN [done EXCEPT !.value = blank, !.st.db.seals = Append(Front(@), blank)]
       ELSE done

call_seal_period(st, id) ==
    LET unordered == [st EXCEPT !.db.calendar.by_start = EmptyMap]
    IN CASE st.defect = "seals_any_order" ->
              [st_seal_period(unordered, id) EXCEPT !.st.db.calendar.by_start = st.db.calendar.by_start]
         [] st.defect = "unbound_seal" -> Unbound(st_seal_period(st, id))
         [] OTHER -> st_seal_period(st, id)
=============================================================================
