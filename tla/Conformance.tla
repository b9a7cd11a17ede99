---------------------------- MODULE Conformance -----------------------------
(***************************************************************************)
(* The conformance suite, src/storage/conformance.rs: check_all runs its   *)
(* checks one after the other on one store, and each check makes its calls *)
(* one after the other, stopping at the first answer it does not expect.   *)
(*                                                                         *)
(* A check is a script: a sequence of calls, each with what its answer has *)
(* to be.  Every call is one step, and so is every turn of the loops that  *)
(* wait for the sequencer or read a list page by page.  Meanwhile another  *)
(* transaction may be open on the database, which holds the sequencer back.*)
(*                                                                         *)
(* Identifiers grow in the order entries are made, as generated ones do.   *)
(* Days are numbered in order; a failure has no wording.                   *)
(***************************************************************************)
EXTENDS FaultyBackends

CONSTANTS
    Suite,                  \* the checks to run, in order
    Setups,                 \* the stores to run them on: the kind, the defect it has or
                            \* None, and whether another transaction may be open there
    SEQUENCING_ATTEMPTS,    \* how often a check tries to sequence
    IdlePasses              \* how many empty passes in a row settle a drain

ASSUME AttemptsArePositive == SEQUENCING_ATTEMPTS \in Nat \ {0} /\ IdlePasses \in Nat \ {0}
ASSUME SetupsAreKnown ==
    \A s \in Setups : s.kind \in Kinds /\ s.defect \in DOMAIN CaughtBy \cup {None} /\ s.held \in BOOLEAN

VARIABLES
    store,          \* the store under test
    at,             \* the check under way, by its place in the suite
    step,           \* the call it is at
    kept,           \* the answers it keeps for later
    loop,           \* the loop it is in, or None
    report,         \* what the checks so far have found
    oldest          \* the transaction that holds the sequencer back, or 0

vars == <<store, at, step, kept, loop, report, oldest>>

-----------------------------------------------------------------------------
(***************************************************************************)
(* Fixture: two accounts and the entries posted between them.              *)
(***************************************************************************)
Y2000 == 1
Feb01 == 2
Feb28 == 3
Mar01 == 4
Mar15 == 5
Mar20 == 6
Mar31 == 7
April == 8
May   == 9
Y2030 == 10

left  == 1
right == 2

Fixture_accounts ==
    FoldLeft(register, AccountRegistry_new,
             [n \in 1..2 |-> [path |-> <<9, n>>, opened_on |-> Y2000, closed_on |-> NoDate,
                              limit |-> "Unlimited"]])

Post(account, direction, amount) ==
    [account |-> account, direction |-> direction, amount |-> amount, currency |-> "EUR",
     layer |-> "Settled", dimensions |-> {}]

Draft(id, k, on, postings) ==
    [id |-> id, key |-> k, booking_date |-> on, value_date |-> on, postings |-> postings,
     reverses |-> None, original_booking_date |-> NoDate, description |-> "", memo |-> None]

entry(id, k, minor) ==
    Draft(id, k, Mar15, <<Post(left, "Debit", minor), Post(right, "Credit", minor)>>)

reversed_entry(id, k, minor) ==
    Draft(id, k, Mar20, <<Post(left, "Credit", minor), Post(right, "Debit", minor)>>)

forged_reversal(original, id, k) ==
    [Draft(id, k, April, <<Post(right, "Debit", 1), Post(left, "Credit", 1)>>) EXCEPT
        !.reverses = original.id, !.original_booking_date = original.booking_date]

dimensioned_entry(id, k, minor) ==
    [entry(id, k, minor) EXCEPT !.postings =
        [n \in DOMAIN @ |-> [@[n] EXCEPT !.dimensions = {"activity", "segment"}]]]

entry_with_kind(id, k, minor, kind) ==
    [entry(id, k, minor) EXCEPT !.memo = [kind |-> kind, provenance |-> None, document |-> None]]

Fixture_key == [account |-> left, currency |-> "EUR", layer |-> "Settled"]

Ref(id) == [entry |-> id, index |-> 1]

\* A clearing over the first postings of some entries.
clearing(id, items) ==
    Fixture_key @@ [id |-> id, cleared_on |-> April,
                    items |-> [n \in DOMAIN items |-> [posting |-> Ref(items[n][1]),
                                                       applied |-> items[n][2]]]]

-----------------------------------------------------------------------------
(***************************************************************************)
(* Calls, and what a check does with the answer.                           *)
(***************************************************************************)
Append_(e) == [do |-> "append", batch |-> <<e>>]
Get(id) == [do |-> "get", id |-> id]
Read(what) == [do |-> what]
Clear(c) == [do |-> "clear", clearing |-> c]
Reset(id) == [do |-> "reset", id |-> id]
Define(p) == [do |-> "define", period |-> p]
Transition(id, to) == [do |-> "transition", id |-> id, to |-> to]
SealPeriod(id) == [do |-> "seal", id |-> id]
Walk(of, limit) == [do |-> "walk", of |-> of, limit |-> limit]

Ok(call) == [call |-> call, expect |-> "ok"]
Refused(call) == [call |-> call, expect |-> "refused"]
Same(call, name) == [call |-> call, expect |-> "same", name |-> name]
Keep(call, name) == [call |-> call, expect |-> "keep", name |-> name, claim |-> "none"]
KeepIf(call, name, claim) == [call |-> call, expect |-> "keep", name |-> name, claim |-> claim]
Check(call, claim) == KeepIf(call, claim, claim)

Drain == Ok(Read("drain"))

-----------------------------------------------------------------------------
(***************************************************************************)
(* The checks.                                                             *)
(***************************************************************************)
check_starts_empty == <<Check(Read("len"), "nothing"), Check(Read("head"), "empty_root")>>

DenseKeys == <<"dense-0", "dense-1", "dense-2">>

\* An entry, then the place it gets: at once, or when it has been sequenced.
check_append_assigns_dense_indices ==
    <<Keep(Read("len"), "start")>> \o
    FlattenSeq([i \in 1..3 |->
        LET e == entry(10 + i, DenseKeys[i], 100) IN
        <<Check(Append_(e), "is_new"),
          KeepIf([do |-> "placed", id |-> e.id, after |-> i], "placed", "next_in_line")>>])

check_reads_are_stable ==
    LET e == entry(20, "stable", 4242) IN
    <<Ok(Append_(e)), KeepIf(Get(20), "first", "hashes_to_itself"), Same(Get(20), "first")>>

check_idempotent_replay ==
    <<Keep(Append_(entry(30, "replay", 777)), "original"), Keep(Read("len"), "before"),
      Check(Append_(entry(31, "replay", 777)), "is_the_original"), Same(Read("len"), "before")>>

check_idempotency_conflict ==
    <<Ok(Append_(entry(40, "conflict", 100))), Keep(Read("len"), "before"),
      Refused(Append_(entry(41, "conflict", 999))), Same(Read("len"), "before")>>

\* The third entry reuses the key of the second with other content.
check_batch_is_atomic ==
    LET batch == <<entry(50, "atomic-a", 100), entry(51, "atomic-b", 200),
                   entry(52, "atomic-b", 300)>>
    IN <<Keep(Read("len"), "before"), Refused([do |-> "append", batch |-> batch]),
         Same(Read("len"), "before"), Check(Get(50), "absent")>>

check_pagination_covers_the_log ==
    <<Drain, Keep(Read("len"), "expected"), Check(Walk("log", 2), "every_index_once")>>

check_balances_match_the_log ==
    <<Drain, Keep(Read("balance"), "reported"), Check(Walk("log", MAX_PAGE_SIZE), "folds_to_it")>>

check_proofs_verify ==
    <<Drain, KeepIf(Read("head"), "head", "not_empty"),
      KeepIf(Walk("log", MAX_PAGE_SIZE), "log", "every_record_included"),
      Ok(Append_(entry(90, "proof-growth", 55))),
      KeepIf(Read("head"), "grown", "grown_from_head"),
      Check(Read("heads"), "heads_as_they_stood"),
      Check(Read("leaves"), "archived_proofs_verify")>>

check_reversal_rules ==
    LET original == entry(100, "rev-original", 1000)
        reversal == reverse(original, 101, "rev-first", April)
        untouched == entry(104, "rev-untouched", 500)
        absent == entry(106, "rev-absent", 700)
    IN <<Ok(Append_(original)), Ok(Append_(reversal)),
         Refused(Append_(reverse(original, 102, "rev-second", April))),
         Refused(Append_(reverse(reversal, 103, "rev-chained", April))),
         Ok(Append_(untouched)), Refused(Append_(forged_reversal(untouched, 105, "rev-forged"))),
         Refused(Append_(reverse(absent, 107, "rev-orphan", April)))>>

check_clearing_rules ==
    LET settles(n, a, b) == clearing(n, <<<<110, a>>, <<111, b>>>>) IN
    <<Ok(Append_(entry(110, "clr-invoice", 1000))),
      Ok(Append_(reversed_entry(111, "clr-payment", 400))),
      Keep(Read("trial_balance"), "before"),
      Refused(Clear(settles(1, 9000, 9000))), Refused(Clear(settles(2, 400, 300))),
      Refused(Clear(clearing(3, <<<<110, 200>>, <<110, 200>>>>))),
      Refused(Clear(clearing(4, <<<<110, 400>>>>))),
      Ok(Clear(settles(5, 400, 400))), Refused(Clear(settles(5, 100, 100))),
      Same(Read("trial_balance"), "before"),
      Ok(Reset(5)), Refused(Reset(5)), Refused(Reset(6))>>

\* Two invoices under descending identifiers, and one entry with two open
\* postings: log order is not identifier order, and a page may end in an entry.
check_open_items_track_residuals ==
    LET split == Draft(122, "oi-split", Mar20, <<Post(left, "Debit", 70), Post(left, "Debit", 80),
                                                 Post(right, "Credit", 150)>>)
    IN <<Drain, Ok(Append_(entry(120, "oi-invoice", 1000))),
         Ok(Append_(reversed_entry(121, "oi-payment", 250))),
         Ok(Append_(entry(900, "oi-descending-0", 400))),
         Ok(Append_(entry(800, "oi-descending-1", 400))), Drain,
         Ok(Append_(split)), Drain,
         Ok(Clear(clearing(7, <<<<120, 250>>, <<121, 250>>>>))),
         KeepIf(Read("open_items"), "open", "residuals_are_exact"),
         Check(Read("statement"), "open_items_in_log_order")>> \o
       [limit \in 1..3 |-> Check(Walk("open_items", limit), "pages_add_up_to_open")] \o
       <<Ok(Reset(7)), Check(Read("open_items"), "both_reopened")>>

\* Paths out of order, after whatever the store holds already.
Fresh(path, closed) ==
    [path |-> path, opened_on |-> Y2000, closed_on |-> closed, limit |-> "Unlimited"]

ThreePaths == <<Fresh(<<30>>, Y2030), Fresh(<<10>>, Y2030), Fresh(<<20>>, Y2030)>>

check_account_bindings_survive_a_restart ==
    <<KeepIf(Read("accounts"), "existing", "rebuilds"),
      Keep([do |-> "register_all", more |-> ThreePaths], "registry"),
      Check(Read("accounts"), "bound_as_registered")>>

\* The handle the limited account was given.
Limited ==
    LET found == {r \in call_accounts(store) : r.account.path = <<9, 3>>} IN
    IF found = {} THEN 0 ELSE (CHOOSE r \in found : TRUE).id

Movement(id, k, minor, into) ==
    Draft(id, k, Mar20, <<Post(Limited, IF into THEN "Debit" ELSE "Credit", minor),
                          Post(right, IF into THEN "Credit" ELSE "Debit", minor)>>)

check_balance_limits_are_enforced ==
    LET record(account) == [do |-> "register", record |-> [id |-> Limited, account |-> account]] IN
    <<KeepIf(Read("accounts"), "existing", "rebuilds"),
      Keep([do |-> "register_all", more |-> <<Fresh(<<9, 3>>, NoDate)>>], "registry"),
      Ok(record([Fresh(<<9, 3>>, NoDate) EXCEPT !.limit = "NoCreditBalance"])),
      Check(Read("accounts"), "limit_is_stored"),
      Ok(Append_(Movement(140, "limit-funding", 1000, TRUE))),
      Ok(Append_(Movement(141, "limit-drain", 1000, FALSE))),
      Keep(Read("len"), "before"),
      Refused(Append_(Movement(142, "limit-overdraw", 1, FALSE))),
      Same(Read("len"), "before"), Refused(record(Fresh(<<9, 4>>, NoDate)))>>

check_kind_survives_a_round_trip ==
    <<Ok(Append_(entry_with_kind(150, "kinded", 5150, "INVOICE"))),
      KeepIf([do |-> "placed", id |-> 150], "placed", "was_placed"),
      Check(Get(150), "kind_is_invoice"), Check(Read("statement"), "a_line_is_an_invoice")>>

check_dimensions_survive_a_round_trip ==
    <<Ok(Append_(dimensioned_entry(160, "dimensioned", 4242))), Check(Get(160), "axes_are_both")>>

check_balances_agree_across_readers_KnownOnly ==
    <<Drain, Keep(Read("balance"), "single"), Check(Read("trial_balance"), "says_the_same"),
      Check([do |-> "balances", of |-> {left, right}], "left_says_the_same")>>

check_balances_agree_across_readers ==
    <<Drain, Keep(Read("balance"), "single"), Check(Read("trial_balance"), "says_the_same"),
      Check([do |-> "balances", of |-> {left, right}], "left_says_the_same"),
      Check([do |-> "balances", of |-> {99}], "no_rows")>>

\* Three lines of one entry on one account.
check_statement_pages_do_not_repeat_or_skip ==
    LET split == Draft(180, "split", Mar20, <<Post(left, "Debit", 11), Post(left, "Debit", 22),
                                              Post(left, "Debit", 33), Post(right, "Credit", 66)>>)
    IN <<Drain, Ok(Append_(split)), Drain, KeepIf(Read("statement"), "whole", "has_lines"),
         Check(Walk("statement", 1), "pages_add_up_to_whole")>>

check_checkpoints_round_trip ==
    <<Drain, Keep(Read("head"), "head"), Keep(Read("balance"), "balance"), Ok(Read("save")),
      Check([do |-> "load", key |-> Fixture_key], "as_saved"),
      Check([do |-> "load", key |-> [Fixture_key EXCEPT !.account = 99]], "absent")>>

Month(id, first, last) == [id |-> id, start |-> first, end |-> last, state |-> "Open"]

check_period_lifecycle_and_seals ==
    LET march    == Month("conformance-2026-03", Mar01, Mar31)
        february == Month("conformance-2026-02", Feb01, Feb28)
    IN <<Drain, Ok(Define(march)), Ok(Define(march)), Refused(SealPeriod(march.id)),
         Ok(Define(february)), Refused(Transition(march.id, "Sealed")),
         Ok(Transition(march.id, "Closing")), Check(Read("periods"), "march_is_closing"),
         Refused(SealPeriod(march.id)),
         Ok(Transition(february.id, "Closing")), Ok(SealPeriod(february.id)),
         KeepIf(SealPeriod(march.id), "seal", "seal_is_of_this_ledger"),
         Refused(SealPeriod(march.id)), Check(Read("periods"), "march_is_sealed"),
         Check(Read("accounts"), "seal_commits_to_them"),
         Ok(Read("onboard")), KeepIf(Read("closing"), "closing", "has_rows"),
         Keep(Read("accounts"), "stored"), Check(Read("proofs"), "every_row_proves_and_names"),
         Check(Read("seals"), "chain_verifies")>>

Script(check) ==
    CASE check = "starts_empty" -> check_starts_empty
      [] check = "append_assigns_dense_indices" -> check_append_assigns_dense_indices
      [] check = "reads_are_stable" -> check_reads_are_stable
      [] check = "replay_is_idempotent" -> check_idempotent_replay
      [] check = "conflicting_key_is_refused" -> check_idempotency_conflict
      [] check = "batches_are_atomic" -> check_batch_is_atomic
      [] check = "pagination_covers_the_log" -> check_pagination_covers_the_log
      [] check = "balances_match_the_log" -> check_balances_match_the_log
      [] check = "proofs_verify" -> check_proofs_verify
      [] check = "reversal_rules_are_enforced" -> check_reversal_rules
      [] check = "clearing_rules_are_enforced" -> check_clearing_rules
      [] check = "open_items_track_residuals" -> check_open_items_track_residuals
      [] check = "account_bindings_survive_a_restart" -> check_account_bindings_survive_a_restart
      [] check = "balance_limits_are_enforced" -> check_balance_limits_are_enforced
      [] check = "entry_kind_survives_a_round_trip" -> check_kind_survives_a_round_trip
      [] check = "posting_dimensions_survive_a_round_trip" -> check_dimensions_survive_a_round_trip
      [] check = "balance_readers_agree" -> check_balances_agree_across_readers
      [] check = "statement_pagination_is_exact" -> check_statement_pages_do_not_repeat_or_skip
      [] check = "checkpoints_round_trip" -> check_checkpoints_round_trip
      [] check = "periods_persist_and_seal_into_a_chain" -> check_period_lifecycle_and_seals

\* The order of check_all; the periods come last, since every check books into
\* the month they seal.
check_all ==
    <<"starts_empty", "append_assigns_dense_indices", "reads_are_stable", "replay_is_idempotent",
      "conflicting_key_is_refused", "batches_are_atomic", "pagination_covers_the_log",
      "balances_match_the_log", "proofs_verify", "reversal_rules_are_enforced",
      "clearing_rules_are_enforced", "open_items_track_residuals",
      "account_bindings_survive_a_restart", "balance_limits_are_enforced",
      "entry_kind_survives_a_round_trip", "posting_dimensions_survive_a_round_trip",
      "balance_readers_agree", "statement_pagination_is_exact", "checkpoints_round_trip",
      "periods_persist_and_seal_into_a_chain">>

-----------------------------------------------------------------------------
(***************************************************************************)
(* What the store answers.                                                 *)
(***************************************************************************)
Value(v) == [ok |-> TRUE, st |-> store, value |-> v]

Found(record) == IF record = None THEN Value(None) ELSE [Value(record) EXCEPT !.ok = record.ok]

registry == from_records(call_accounts(store)).registry

\* Every account the check knows, the ones it read and the ones it adds.
RegisterAll(more) ==
    LET reg == FoldLeft(register, registry, more)
        put(acc, h) == IF acc.ok THEN call_register_account(acc.st, [id |-> h, account |-> get(reg, h)])
                       ELSE acc
    IN FoldLeft(put, [ok |-> TRUE, st |-> store], [h \in Handles(reg) |-> h]) @@ [value |-> reg]

FirstPage == Cursor(Start, MAX_PAGE_SIZE)

Answer(c) ==
    CASE c.do = "append"        -> call_append(store, c.batch)
      [] c.do = "get"           -> Found(call_get(store, c.id))
      [] c.do = "len"           -> Value(st_len(store))
      [] c.do = "head"          -> Value(st_head(store))
      [] c.do = "heads"         -> Value([size \in 0..Len(kept.log) |-> call_head_at(store, size)])
      [] c.do = "leaves"        -> Value(st_leaves(store))
      [] c.do = "balance"       -> Value(call_balance(store, Fixture_key))
      [] c.do = "trial_balance" -> Value(st_trial_balance(store))
      [] c.do = "balances"      -> Value(call_balances(store, c.of, "EUR", "Settled"))
      [] c.do = "statement"     -> Value(call_statement(store, Fixture_key, FirstPage).items)
      [] c.do = "open_items"    -> Value(call_open_items(store, Fixture_key, FirstPage).items)
      [] c.do = "clear"         -> call_clear(store, c.clearing)
      [] c.do = "reset"         -> call_reset_clearing(store, c.id, May)
      [] c.do = "save"          -> st_save_checkpoint(store, [key |-> Fixture_key,
                                       balance |-> kept.balance, tree_head |-> kept.head])
      [] c.do = "load"          -> Value(call_load_checkpoint(store, c.key))
      [] c.do = "accounts"      -> Value(call_accounts(store))
      [] c.do = "register"      -> call_register_account(store, c.record)
      [] c.do = "register_all"  -> RegisterAll(c.more)
      [] c.do = "define"        -> st_define_period(store, c.period)
      [] c.do = "transition"    -> st_transition_period(store, c.id, c.to)
      [] c.do = "periods"       -> Value(call_periods(store))
      [] c.do = "seal"          -> call_seal_period(store, c.id)
      [] c.do = "seals"         -> Value(st_seals(store))
      [] c.do = "closing"       -> Value(st_trial_balance_through_date(store, Mar31))
      [] c.do = "onboard"       -> call_register_account(store, [id |-> Len(kept.seal.accounts) + 1,
                                       account |-> [Fresh(<<9, 5>>, NoDate) EXCEPT !.opened_on = May]])
      [] c.do = "proofs"        -> Value([k \in DOMAIN kept.closing |->
                                       st_prove_sealed_balance(store, kept.seal.period, k)])

-----------------------------------------------------------------------------
(***************************************************************************)
(* What a check claims of an answer.                                       *)
(***************************************************************************)
Hash(record) == content_hash(record.entry)

\* Two neighbours of a list that belong to one entry.
SplitsAnEntry(items) ==
    \E n \in 1..(Len(items) - 1) : items[n].position.index = items[n + 1].position.index

\* Items in the order their postings have in a statement.
InOrderOf(items, lines) ==
    LET rank(i) == IF \E n \in DOMAIN lines : lines[n].posting = i.posting
                   THEN CHOOSE n \in DOMAIN lines : lines[n].posting = i.posting
                   ELSE Len(lines) + 1
    IN \A n \in 1..(Len(items) - 1) : rank(items[n]) <= rank(items[n + 1])

On(items, id) == {i \in Range(items) : i.posting = Ref(id)}

StateOf(periods, id) == {p.state : p \in {p \in periods : p.id = id}}

\* The rows of the closing balance prove under the seal, by their stored names.
RowsProve(proofs) ==
    \A k \in DOMAIN proofs :
        /\ proofs[k].outcome = "Proven"
        /\ proofs[k].balance = kept.closing[k]
        /\ proofs[k].seal.seal_hash = kept.seal.seal_hash
        /\ \E r \in kept.stored : r.id = k.account /\ r.account.path = proofs[k].path

\* The three accounts came back at their handles, and with them the registry.
BoundAsRegistered(stored) ==
    /\ \A n \in DOMAIN ThreePaths :
          [id |-> Cardinality(kept.existing) + n, account |-> ThreePaths[n]] \in stored
    /\ from_records(stored).ok
    /\ commitment(from_records(stored).registry) = commitment(kept.registry)

ProofsVerify(size) ==
    /\ verify_inclusion(prove_inclusion_at(store, kept.log[1].index, size),
                        Hash(kept.log[1]), kept.head)
    /\ verify_consistency(prove_consistency_between(store, size, Len(kept.grown)),
                          kept.head, kept.grown)

Claim(s, v) ==
    CASE s.claim = "none" -> TRUE
      [] s.claim = "nothing" -> v = 0
      [] s.claim = "empty_root" -> v = <<>>
      [] s.claim = "is_new" -> v[1].is_new
      [] s.claim = "next_in_line" -> v = kept.start + s.call.after
      [] s.claim = "hashes_to_itself" -> v # None /\ Hash(v) = content_hash(entry(20, "stable", 4242))
      [] s.claim = "is_the_original" ->
            ~v[1].is_new /\ v[1].id = kept.original[1].id /\ v[1].index = kept.original[1].index
      [] s.claim = "absent" -> v = None
      [] s.claim = "every_index_once" ->
            [n \in DOMAIN v |-> v[n].index] = [n \in 1..kept.expected |-> n]
      [] s.claim = "folds_to_it" ->
            get_or_zero(TrialBalanceOf([n \in DOMAIN v |-> v[n].entry]), Fixture_key) = kept.reported
      [] s.claim = "not_empty" -> v # <<>>
      [] s.claim = "every_record_included" ->
            \A n \in DOMAIN v : verify_inclusion(
                prove_inclusion_at(store, v[n].index, st_len(store)), Hash(v[n]), kept.head)
      [] s.claim = "grown_from_head" -> verify_consistency(
            prove_consistency_between(store, Len(kept.head), st_len(store)), kept.head, v)
      [] s.claim = "heads_as_they_stood" ->
            \A size \in DOMAIN v : v[size] = [n \in 1..size |-> Hash(kept.log[n])]
      [] s.claim = "archived_proofs_verify" -> ProofsVerify(Len(kept.head))
      [] s.claim = "residuals_are_exact" ->
            /\ \E i \in On(v, 120) : i.applied = 250 /\ i.residual = 750
            /\ On(v, 121) = {}
      [] s.claim = "open_items_in_log_order" ->
            InOrderOf(kept.open, v) /\ SplitsAnEntry(kept.open)
      [] s.claim = "pages_add_up_to_open" -> v = kept.open
      [] s.claim = "both_reopened" ->
            On(v, 121) # {} /\ \E i \in On(v, 120) : i.residual = 1000
      [] s.claim = "rebuilds" -> from_records(v).ok
      [] s.claim = "bound_as_registered" -> BoundAsRegistered(v)
      [] s.claim = "limit_is_stored" ->
            \E r \in v : r.id = Limited /\ r.account.limit = "NoCreditBalance"
      [] s.claim = "was_placed" -> v # 0
      [] s.claim = "kind_is_invoice" -> v # None /\ kind_of(v.entry) = "INVOICE"
      [] s.claim = "a_line_is_an_invoice" -> \E n \in DOMAIN v : v[n].kind = "INVOICE"
      [] s.claim = "axes_are_both" ->
            v # None /\ v.entry.postings[1].dimensions = {"activity", "segment"}
      [] s.claim = "says_the_same" -> get_or_zero(v, Fixture_key) = kept.single
      [] s.claim = "left_says_the_same" -> left \in DOMAIN v /\ v[left] = kept.single
      [] s.claim = "no_rows" -> DOMAIN v = {}
      [] s.claim = "has_lines" -> v # <<>>
      [] s.claim = "pages_add_up_to_whole" -> SplitsAnEntry(kept.whole) /\ v = kept.whole
      [] s.claim = "as_saved" ->
            v = [key |-> Fixture_key, balance |-> kept.balance, tree_head |-> kept.head]
      [] s.claim = "march_is_closing" ->
            Month("conformance-2026-03", Mar01, Mar31) \in {[p EXCEPT !.state = "Open"] : p \in v}
            /\ StateOf(v, "conformance-2026-03") = {"Closing"}
      [] s.claim = "seal_is_of_this_ledger" -> is_self_consistent(v) /\ v.ledger = Ledger
      [] s.claim = "march_is_sealed" -> StateOf(v, "conformance-2026-03") = {"Sealed"}
      [] s.claim = "seal_commits_to_them" ->
            from_records(v).ok /\ commitment(from_records(v).registry) = kept.seal.accounts
      [] s.claim = "has_rows" -> DOMAIN v # {}
      [] s.claim = "every_row_proves_and_names" -> RowsProve(v)
      [] s.claim = "chain_verifies" ->
            (\E n \in DOMAIN v : v[n].seal_hash = kept.seal.seal_hash) /\ verify_chain(v)

\* An entry must validate before it is appended.
Sealable(c) ==
    c.do = "append" =>
        \A n \in DOMAIN c.batch :
            \/ seal(Fixture_accounts, PeriodCalendar_new, c.batch[n])
            \/ seal(registry, PeriodCalendar_new, c.batch[n])

Meets(s, a) ==
    /\ Sealable(s.call)
    /\ CASE s.expect = "ok"      -> a.ok
         [] s.expect = "refused" -> ~a.ok
         [] s.expect = "same"    -> a.ok /\ a.value = kept[s.name]
         [] s.expect = "keep"    -> a.ok /\ Claim(s, a.value)

-----------------------------------------------------------------------------
(***************************************************************************)
(* Running the suite.                                                      *)
(***************************************************************************)
\* The accounts the test of a database registers before it runs the suite.
Prepared(setup) ==
    LET st == new_store(setup.kind) @@ [defect |-> setup.defect, held |-> setup.held]
        put(acc, h) == st_register_account(acc, [id |-> h, account |-> get(Fixture_accounts, h)]).st
    IN IF setup.kind = "memory" THEN st ELSE FoldLeft(put, st, <<left, right>>)

Init ==
    /\ \E setup \in Setups : store = Prepared(setup)
    /\ at = 1 /\ step = 1
    /\ kept = EmptyMap /\ loop = None /\ report = <<>>
    /\ oldest = 0

\* The call the suite is at: none when it is over.
Current == IF at > Len(Suite) THEN {} ELSE {Script(Suite[at])[step]}

\* The check is over, with a result under its name.
Conclude(name, passed) ==
    /\ report' = Append(report, [name |-> name, passed |-> passed])
    /\ at' = at + 1 /\ step' = 1 /\ kept' = EmptyMap

\* The answer to the current call: on to the next one, or out of the check.
Advance(s, a) ==
    IF ~Meets(s, a) THEN Conclude(Suite[at], FALSE)
    ELSE IF step = Len(Script(Suite[at])) THEN Conclude(Suite[at], TRUE)
    ELSE /\ step' = step + 1
         /\ kept' = IF s.expect = "keep" THEN Insert(kept, s.name, a.value) ELSE kept
         /\ UNCHANGED <<at, report>>

Loops == {"drain", "placed", "walk"}

Call ==
    /\ \E s \in Current :
          /\ s.call.do \notin Loops
          /\ \E a \in {Answer(s.call)} : Advance(s, a) /\ store' = a.st
    /\ UNCHANGED <<loop, oldest>>

\* Rows of transactions that began before the oldest one still open.
Watermark == IF oldest = 0 THEN NextXid(store) ELSE oldest

pass == st_sequence(store, IF store.kind = "deferred" THEN Watermark ELSE 0)

\* Passes until several in a row had nothing to place.
drain_sequencing ==
    /\ \E s \in Current, p \in {pass} :
       LET so_far == IF loop = None THEN [tries |-> 0, idle |-> 0] ELSE loop
           idle   == IF p.value = 0 THEN so_far.idle + 1 ELSE 0
           settled == idle >= IdlePasses
       IN /\ s.call.do = "drain"
          /\ store' = p.st
          /\ IF settled \/ so_far.tries + 1 = SEQUENCING_ATTEMPTS
             THEN /\ loop' = None
                  /\ IF ~settled /\ step = 1 THEN Conclude("sequencing", FALSE)
                     ELSE Advance(s, [ok |-> settled])
             ELSE /\ loop' = [tries |-> so_far.tries + 1, idle |-> idle]
                  /\ UNCHANGED <<at, step, kept, report>>
    /\ UNCHANGED oldest

\* Waits for as long as it takes; the counter goes round.
sequence_until_placed_Unbounded ==
    /\ \E s \in {s \in Current : s.call.do = "placed"} : \E found \in {call_get(store, s.call.id)} :
       LET tries == IF loop = None THEN 0 ELSE loop.tries
       IN IF found.index # 0 \/ ~found.ok
          THEN /\ loop' = None /\ UNCHANGED store
               /\ Advance(s, [ok |-> found.ok, value |-> found.index])
          ELSE /\ loop' = [tries |-> (tries + 1) % 2] /\ store' = pass.st
               /\ UNCHANGED <<at, step, kept, report>>
    /\ UNCHANGED oldest

\* A pass at a time until the entry has its place, or no place after all of them.
sequence_until_placed ==
    /\ \E s \in {s \in Current : s.call.do = "placed"} : \E found \in {call_get(store, s.call.id)} :
       LET tries == IF loop = None THEN 0 ELSE loop.tries
       IN IF tries = SEQUENCING_ATTEMPTS
          THEN loop' = None /\ UNCHANGED store /\ Advance(s, [ok |-> TRUE, value |-> 0])
          ELSE IF found.index # 0 \/ ~found.ok
          THEN /\ loop' = None /\ UNCHANGED store
               /\ Advance(s, [ok |-> found.ok, value |-> found.index])
          ELSE /\ loop' = [tries |-> tries + 1] /\ store' = pass.st
               /\ UNCHANGED <<at, step, kept, report>>
    /\ UNCHANGED oldest

\* How many pages a check reads before it calls the paging endless.
PageGuard(c) ==
    CASE c.of = "statement"  -> Len(kept.whole) + 8
      [] c.of = "open_items" -> Len(kept.open) + 8
      [] c.of = "log" /\ c.limit = 2 -> kept.expected + 16
      [] OTHER -> Len(st_leaves(store)) + 1

AsItems(read) == [items |-> read.records, next |-> read.next]

PageAt(c, cursor) ==
    CASE c.of = "statement"  -> call_statement(store, Fixture_key, cursor)
      [] c.of = "open_items" -> call_open_items(store, Fixture_key, cursor)
      [] c.of = "log"        -> AsItems(call_page(store, cursor))

\* One page more; an empty page that names another is a failure.
TakePage(s, so_far, read) ==
    LET seen   == so_far.seen \o read.items
        broken == \/ so_far.pages >= PageGuard(s.call)
                  \/ s.call.of # "log" /\ read.items = <<>> /\ read.next # None
    IN IF broken \/ read.next = None
       THEN loop' = None /\ Advance(s, [ok |-> ~broken, value |-> seen])
       ELSE /\ loop' = [seen |-> seen, cursor |-> read.next, pages |-> so_far.pages + 1]
            /\ UNCHANGED <<at, step, kept, report>>

TurnPage ==
    /\ \E s \in {s \in Current : s.call.do = "walk"} :
       LET first  == Cursor(IF s.call.of = "log" THEN 0 ELSE Start, s.call.limit)
           so_far == IF loop = None THEN [seen |-> <<>>, cursor |-> first, pages |-> 0] ELSE loop
       IN \E read \in {PageAt(s.call, so_far.cursor)} : TakePage(s, so_far, read)
    /\ UNCHANGED <<store, oldest>>

\* Another transaction on the same database: it writes nothing here, and holds
\* the sequencer back for as long as it runs.
BeginOther ==
    /\ store.held /\ oldest = 0 /\ report = <<>> /\ store.kind = "deferred"
    /\ oldest' = NextXid(store)
    /\ UNCHANGED <<store, at, step, kept, loop, report>>

EndOther ==
    /\ oldest # 0
    /\ oldest' = 0
    /\ UNCHANGED <<store, at, step, kept, loop, report>>

SuiteStep == Call \/ drain_sequencing \/ sequence_until_placed \/ TurnPage

Next == SuiteStep \/ BeginOther \/ EndOther

Spec == Init /\ [][Next]_vars

\* The suite runs on one thread, which is scheduled until it has reported; the
\* other transaction may stay open for good.  This is weak fairness of SuiteStep,
\* which is enabled until the suite has ended and always moves the suite on.
Finished == at > Len(Suite)

SuiteRuns == []<>Finished \/ []<><<~UNCHANGED <<at, step, loop>>>>_vars

FairSpec == Spec /\ SuiteRuns

-----------------------------------------------------------------------------
failures == {report[n].name : n \in {n \in DOMAIN report : ~report[n].passed}}

\* A store without a defect passes every check, in the order check_all runs them
\* and with all the checks before them in the store: the in-memory store, SQLite,
\* and PostgreSQL with positions assigned inline or afterwards, as long as nobody
\* else has a transaction open on the database.
Conforms == store.defect = None /\ ~store.held => failures = {}

\* A store with one of the defects the suite names fails the check that is there
\* for it, in spite of what the other checks have left in the store.
CatchesDefects == Finished /\ store.defect # None => CaughtBy[store.defect] \in failures

\* Every check reports, whatever holds the sequencer back and for how long.
ReportComes == <>(Len(report) = Len(Suite))
=============================================================================
