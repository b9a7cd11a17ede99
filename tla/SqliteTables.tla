---------------------------- MODULE SqliteTables ----------------------------
(***************************************************************************)
(* The tables of a SQLite ledger and the queries on them:                  *)
(* src/storage/sqlite.rs.                                                  *)
(*                                                                         *)
(* A table is a set of rows and a query a set expression over it.  Every   *)
(* entry has its position from the start: an append holds the write lock   *)
(* of the database from BEGIN IMMEDIATE to its commit, so it is one step   *)
(* for everyone else, and one that is interrupted leaves nothing.          *)
(***************************************************************************)
EXTENDS Seals, Paging

\* The schema on a fresh file.
Schema ==
    [ledger_meta |-> None, accounts |-> {}, periods |-> {}, entries |-> {}, postings |-> {},
     posting_dimensions |-> {}, log_subtrees |-> <<>>, seals |-> {}, clearings |-> {},
     clearing_items |-> {}, checkpoints |-> {}]

\* INSERT ... ON CONFLICT (only_row) DO NOTHING: the first ledger keeps the file.
claim_LastWins(db, ledger) == [db EXCEPT !.ledger_meta = ledger]

claim(db, ledger) == IF db.ledger_meta = None THEN [db EXCEPT !.ledger_meta = ledger] ELSE db

-----------------------------------------------------------------------------
(***************************************************************************)
(* Stored codes.                                                           *)
(***************************************************************************)
direction_str(direction) == IF direction = "Debit" THEN "D" ELSE "C"

direction_from(code) == CHOOSE direction \in {"Debit", "Credit"} : direction_str(direction) = code

layer_str(layer) == IF layer = "Settled" THEN "settled" ELSE "pending"

layer_from(code) == CHOOSE layer \in Layer : layer_str(layer) = code

period_state_str(state) ==
    CASE state = "Open" -> "open" [] state = "Closing" -> "closing" [] state = "Sealed" -> "sealed"

limit_code(limit) ==
    CASE limit = "Unlimited"       -> "unlimited"
      [] limit = "NoCreditBalance" -> "no_credit"
      [] limit = "NoDebitBalance"  -> "no_debit"

limit_from_code(code) == CHOOSE limit \in BalanceLimit : limit_code(limit) = code

-----------------------------------------------------------------------------
(***************************************************************************)
(* Entries and their postings as rows, and back.                           *)
(***************************************************************************)
NoMemo == [kind |-> None, provenance |-> None, document |-> None]

\* The columns append_one binds.
entry_columns(e, index, root) ==
    LET memo == IF e.memo = None THEN NoMemo ELSE e.memo IN
    [log_index |-> index, entry_id |-> e.id, idempotency_key |-> e.key,
     content_hash |-> content_hash(e), booking_date |-> e.booking_date,
     value_date |-> e.value_date, description |-> e.description,
     provenance |-> memo.provenance, kind |-> memo.kind,
     document_id |-> IF memo.document = None THEN None ELSE memo.document.id,
     document_content_hash |-> IF memo.document = None THEN None ELSE memo.document.hash,
     reverses |-> e.reverses, original_booking_date |-> e.original_booking_date,
     tree_root |-> root]

posting_columns(e, i) ==
    [entry_id |-> e.id, posting_index |-> i, account_index |-> e.postings[i].account,
     direction |-> direction_str(e.postings[i].direction), amount_minor |-> e.postings[i].amount,
     currency |-> e.postings[i].currency, layer |-> layer_str(e.postings[i].layer)]

dimension_columns(e, i) ==
    {[entry_id |-> e.id, posting_index |-> i, axis |-> axis] : axis \in e.postings[i].dimensions}

build_posting(row) ==
    [account |-> row.account_index, direction |-> direction_from(row.direction),
     amount |-> row.amount_minor, currency |-> row.currency, layer |-> layer_from(row.layer),
     dimensions |-> {}]

dimensions_from(db, id, i) ==
    {d.axis : d \in {d \in db.posting_dimensions : d.entry_id = id /\ d.posting_index = i}}

EntryRow(db, id) == CHOOSE row \in db.entries : row.entry_id = id

\* ORDER BY posting_index.
load_postings_for(db, id) ==
    LET rows == {p \in db.postings : p.entry_id = id}
        at(i) == CHOOSE p \in rows : p.posting_index = i
    IN [i \in {p.posting_index : p \in rows} |->
          [build_posting(at(i)) EXCEPT !.dimensions = dimensions_from(db, id, i)]]

\* Inside a transaction the same rows are read through it.
load_postings_tx(db, id) ==
    LET rows == {p \in db.postings : p.entry_id = id} IN
    [i \in {p.posting_index : p \in rows} |->
        [build_posting(CHOOSE p \in rows : p.posting_index = i)
            EXCEPT !.dimensions = dimensions_from(db, id, i)]]

document_from(row) ==
    IF row.document_id = None THEN None
    ELSE [id |-> row.document_id, hash |-> row.document_content_hash]

\* adopt_verified: the draft of a row must hash to what is stored beside it.  A
\* reversal needs both of its columns.
build_stored_entry(db, row) ==
    LET memo  == [kind |-> row.kind, provenance |-> row.provenance, document |-> document_from(row)]
        draft == [id |-> row.entry_id, key |-> row.idempotency_key,
                  booking_date |-> row.booking_date, value_date |-> row.value_date,
                  postings |-> load_postings_for(db, row.entry_id),
                  reverses |-> IF row.original_booking_date = NoDate THEN None ELSE row.reverses,
                  original_booking_date |-> IF row.reverses = None THEN NoDate
                                            ELSE row.original_booking_date,
                  description |-> row.description, memo |-> IF memo = NoMemo THEN None ELSE memo]
    IN [ok |-> content_hash(draft) = row.content_hash, index |-> row.log_index, entry |-> draft]

\* None when no row has the identifier.
sql_get(db, id) ==
    IF \E row \in db.entries : row.entry_id = id
    THEN build_stored_entry(db, EntryRow(db, id)) ELSE None

-----------------------------------------------------------------------------
(***************************************************************************)
(* The log.                                                                *)
(***************************************************************************)
\* ORDER BY log_index.
InLogOrder(db) ==
    LET order == OrderBy({row.log_index : row \in db.entries}, LAMBDA a, b : a < b) IN
    [n \in DOMAIN order |-> CHOOSE row \in db.entries : row.log_index = order[n]]

\* LogNotDense when a row is not where it should be.
log(db) ==
    LET rows == InLogOrder(db) IN
    [ok     |-> \A n \in DOMAIN rows : rows[n].log_index = n,
     leaves |-> [n \in DOMAIN rows |-> rows[n].content_hash]]

sql_len(db) == Cardinality(db.entries)

\* Refused when the subtrees do not cover the rows.
accumulator(db) == [ok |-> Len(db.log_subtrees) = sql_len(db), leaves |-> db.log_subtrees]

store_accumulator(db, acc) == [db EXCEPT !.log_subtrees = acc]

next_index(db) == 1 + Max({0} \cup {row.log_index : row \in db.entries})

sql_head(db) == IF db.entries = {} THEN <<>> ELSE Last(InLogOrder(db)).tree_root

sql_head_at(db, size) ==
    IF size = 0 THEN <<>>
    ELSE (CHOOSE row \in db.entries : row.log_index = size).tree_root

sql_page(db, cursor) ==
    LET rows == Take(SelectSeq(InLogOrder(db), LAMBDA row : row.log_index > cursor.after),
                     effective_limit(cursor))
    IN [records |-> [n \in DOMAIN rows |-> build_stored_entry(db, rows[n])],
        next    |-> IF rows # <<>> /\ Last(rows).log_index < sql_len(db)
                    THEN Cursor(Last(rows).log_index, cursor.limit) ELSE None]

-----------------------------------------------------------------------------
(***************************************************************************)
(* append: each entry in turn, on what the transaction has written so far. *)
(***************************************************************************)
Clashes(db, e) ==
    \E row \in db.entries : row.entry_id = e.id /\ row.idempotency_key # e.key

check_reversal(db, e) ==
    /\ \E row \in db.entries : row.entry_id = e.reverses
    /\ EntryRow(db, e.reverses).reverses = None
    /\ \A row \in db.entries : row.reverses = e.reverses => row.entry_id = e.id
    /\ is_inversion_of([postings |-> load_postings_tx(db, e.reverses)], e)

\* The signed net of every row on the key, the new ones included.
check_limits(db, e) ==
    \A i \in DOMAIN e.postings :
        LET p    == e.postings[i]
            rows == {q \in db.postings : /\ q.account_index = p.account /\ q.currency = p.currency
                                         /\ q.layer = layer_str(p.layer)}
            net  == MapThenSumSet(LAMBDA q : IF q.direction = "D" THEN q.amount_minor
                                             ELSE 0 - q.amount_minor, rows)
        IN \A a \in {a \in db.accounts : a.account_index = p.account} :
              CASE a.balance_limit = "unlimited" -> TRUE
                [] a.balance_limit = "no_credit" -> net >= 0
                [] a.balance_limit = "no_debit"  -> net <= 0

\* The rows of an entry; a posting on an account that is not there breaks its
\* foreign key.
inserted(db, e) ==
    LET log_ == Append(accumulator(db).leaves, content_hash(e))
        rows == [db EXCEPT
            !.entries = @ \cup {entry_columns(e, next_index(db), log_)},
            !.postings = @ \cup {posting_columns(e, i) : i \in DOMAIN e.postings},
            !.posting_dimensions = @ \cup UNION {dimension_columns(e, i) : i \in DOMAIN e.postings}]
    IN store_accumulator(rows, log_)

ForeignKeysHold(db, e) ==
    \A i \in DOMAIN e.postings : \E a \in db.accounts : a.account_index = e.postings[i].account

\* "Replay" when the key is taken by the same content.
append_one_Outcome(db, e) ==
    LET holder == {row \in db.entries : row.idempotency_key = e.key} IN
    IF Clashes(db, e) THEN "DuplicateId"
    ELSE IF e.reverses # None /\ ~check_reversal(db, e) THEN "Reversal"
    ELSE IF holder # {}
    THEN IF \E row \in holder : row.content_hash = content_hash(e)
         THEN "Replay" ELSE "IdempotencyConflict"
    ELSE IF ~ForeignKeysHold(db, e) THEN "UnknownAccount"
    ELSE IF ~check_limits(inserted(db, e), e) THEN "LimitBreached"
    ELSE "New"

append_one(acc, e) ==
    LET outcome == append_one_Outcome(acc.db, e) IN
    IF ~acc.ok THEN acc
    ELSE [db |-> IF outcome = "New" THEN inserted(acc.db, e) ELSE acc.db,
          ok |-> outcome \in {"New", "Replay"}]

\* The first refusal rolls the transaction back.
sql_append_KeepsPrefix(db, batch) == FoldLeft(append_one, [db |-> db, ok |-> TRUE], batch)

sql_append(db, batch) ==
    LET done == FoldLeft(append_one, [db |-> db, ok |-> accumulator(db).ok], batch) IN
    [db |-> IF done.ok THEN done.db ELSE db, ok |-> done.ok]
=============================================================================
