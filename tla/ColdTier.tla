------------------------------ MODULE ColdTier ------------------------------
(***************************************************************************)
(* The archive of sealed periods: ColdTier::compact of                     *)
(* src/storage/iceberg.rs, reading a SQL store page by page while entries  *)
(* are appended, and writing one data file and one snapshot.               *)
(*                                                                         *)
(* The catalog and its files are external: a snapshot is a summary and the *)
(* name of a file, a commit adds one to the newest table.  A Merkle        *)
(* accumulator is the sequence of leaves it commits to.  A compaction may  *)
(* die between any two of its steps, the answer to a commit included.      *)
(***************************************************************************)
EXTENDS SqliteTables

CONSTANTS
    Accounts,           \* the rows of the accounts table
    Batches,            \* what callers append
    Periods_,           \* the periods, in the order they are sealed
    DEFAULT_PAGE_SIZE,  \* entries per page of the log
    MaxDamage           \* how many rows of the store are lost or changed

VARIABLES
    prunes,             \* whether the operator drops archived rows from the store
    db,                 \* the tables of the store
    history,            \* the entries as they were recorded, in log order
    seals,              \* the seals, in order
    table,              \* the snapshots of the Iceberg table
    files,              \* the data files: name -> rows
    worker,             \* the compaction under way
    damage,             \* rows lost or changed that no archive holds
    blamed              \* refusals that name the store as the cause

vars == <<prunes, db, history, seals, table, files, worker, damage, blamed>>

Idle == [pc |-> "idle"]

Init ==
    /\ prunes \in BOOLEAN
    /\ db = [Schema EXCEPT !.accounts = Accounts]
    /\ history = <<>> /\ seals = <<>> /\ table = <<>> /\ files = EmptyMap
    /\ worker = Idle /\ damage = 0 /\ blamed = {}

-----------------------------------------------------------------------------
(***************************************************************************)
(* The archive.                                                            *)
(***************************************************************************)
ArchiveState_empty == [ok |-> TRUE, through |-> 0, accumulator |-> <<>>]

\* A snapshot without the properties this code writes is reported, never taken
\* for an empty archive.
archive_state_Restarts(snapshots) ==
    IF snapshots = <<>> \/ Last(snapshots).summary = None THEN ArchiveState_empty
    ELSE [ok |-> TRUE, through |-> Last(snapshots).summary.archived_through,
          accumulator |-> Last(snapshots).summary.accumulator]

archive_state(snapshots) ==
    IF snapshots = <<>> THEN ArchiveState_empty
    ELSE LET summary == Last(snapshots).summary IN
         IF summary = None THEN [ok |-> FALSE]
         ELSE [ok |-> Len(summary.accumulator) = summary.archived_through,
               through |-> summary.archived_through, accumulator |-> summary.accumulator]

\* A posting without axes has no object.
dimensions_json(dimensions) == IF dimensions = {} THEN None ELSE [axes |-> dimensions]

date32(date) == IF date = NoDate THEN None ELSE date

\* A document may be named without a hash.
DocumentOf_Hashed(memo) ==
    IF memo.document = None \/ memo.document.hash = None THEN [id |-> None, hash |-> None]
    ELSE memo.document

DocumentOf(memo) == IF memo.document = None THEN [id |-> None, hash |-> None] ELSE memo.document

\* The columns of one posting, its entry's fields repeated.
arrow_row(record, i, sealed) ==
    LET e    == record.entry
        p    == e.postings[i]
        memo == IF e.memo = None THEN NoMemo ELSE e.memo
        doc  == DocumentOf(memo)
    IN [period |-> sealed.period, log_index |-> record.index, entry_id |-> e.id,
        content_hash |-> content_hash(e), idempotency_key |-> e.key,
        booking_date |-> date32(e.booking_date), value_date |-> date32(e.value_date),
        description |-> e.description, kind |-> memo.kind, posting_index |-> i,
        account_index |-> p.account, direction |-> direction_str(p.direction),
        amount_minor |-> p.amount, currency |-> p.currency, layer |-> layer_str(p.layer),
        dimensions |-> dimensions_json(p.dimensions), provenance |-> memo.provenance,
        document_id |-> doc.id, document_content_hash |-> doc.hash, reverses |-> e.reverses,
        original_booking_date |-> date32(e.original_booking_date)]

build_batch(entries, sealed) ==
    FlattenSeq([n \in DOMAIN entries |->
        [i \in DOMAIN entries[n].entry.postings |-> arrow_row(entries[n], i, sealed)]])

summary_of(sealed, accumulated) ==
    [period |-> sealed.period, tree_root |-> sealed.tree_head.root,
     archived_through |-> sealed.tree_head.size, accumulator |-> accumulated]

Hashes(entries) == [n \in DOMAIN entries |-> content_hash(entries[n].entry)]

-----------------------------------------------------------------------------
(***************************************************************************)
(* compact.                                                                *)
(***************************************************************************)
\* A seal that is behind the archive is refused, as is a table of others.
Load(sealed) ==
    LET state == archive_state(table) IN
    /\ worker = Idle
    /\ state.ok /\ sealed.tree_head.size >= state.through
    /\ worker' = [pc |-> IF state.through < sealed.tree_head.size THEN "collect" ELSE "verify",
                  seal |-> sealed, after |-> state.through, accumulator |-> state.accumulator,
                  entries |-> <<>>]
    /\ UNCHANGED <<prunes, db, history, seals, table, files, damage, blamed>>

Genuine(sealed) == sealed \in Range(seals)

\* The compaction returns an error; one that names the store is noted.
Blame(sealed) ==
    /\ worker' = Idle
    /\ blamed' = blamed \cup IF Genuine(sealed) THEN {"compact"} ELSE {}
    /\ UNCHANGED <<prunes, db, history, seals, table, files, damage>>

Covered_OneMore(page_, size) == SelectSeq(page_, LAMBDA r : r.index <= size + 1)

Covered(page_, size) == SelectSeq(page_, LAMBDA r : r.index <= size)

\* One page of collect; the last one is empty, reaches past the seal, or has no
\* successor.
ReadPage ==
    LET read  == sql_page(db, Cursor(worker.after, DEFAULT_PAGE_SIZE))
        found == Covered(read.records, worker.seal.tree_head.size)
    IN /\ worker.pc = "collect"
       /\ IF \E n \in DOMAIN read.records : ~read.records[n].ok THEN Blame(worker.seal)
          ELSE /\ worker' = [worker EXCEPT
                    !.entries = @ \o found,
                    !.pc = IF read.next = None \/ Len(found) < Len(read.records)
                           THEN "verify" ELSE "collect",
                    !.after = IF read.next = None THEN @ ELSE read.next.after]
               /\ UNCHANGED <<prunes, db, history, seals, table, files, damage, blamed>>

reached == worker.accumulator \o Hashes(worker.entries)

\* RootMismatch writes nothing, and neither does a seal already covered.
Verify ==
    /\ worker.pc = "verify"
    /\ \/ /\ reached # worker.seal.tree_head.root
          /\ Blame(worker.seal)
       \/ /\ reached = worker.seal.tree_head.root /\ worker.entries = <<>>
          /\ worker' = Idle
          /\ UNCHANGED <<prunes, db, history, seals, table, files, damage, blamed>>
       \/ /\ reached = worker.seal.tree_head.root /\ worker.entries # <<>>
          /\ files' = Insert(files, worker.seal.period, build_batch(worker.entries, worker.seal))
          /\ worker' = [worker EXCEPT !.pc = "commit"]
          /\ UNCHANGED <<prunes, db, history, seals, table, damage, blamed>>

\* fast_append refuses a file the table already names.
Commit ==
    /\ worker.pc = "commit"
    /\ table' = IF \E n \in DOMAIN table : table[n].file = worker.seal.period THEN table
                ELSE Append(table, [summary |-> summary_of(worker.seal, reached),
                                    file |-> worker.seal.period])
    /\ worker' = Idle
    /\ UNCHANGED <<prunes, db, history, seals, files, damage, blamed>>

\* The process dies, or the catalog fails.
Interrupted ==
    /\ worker # Idle
    /\ worker' = Idle
    /\ UNCHANGED <<prunes, db, history, seals, table, files, damage, blamed>>

-----------------------------------------------------------------------------
(***************************************************************************)
(* The store and the table meanwhile.                                      *)
(***************************************************************************)
\* A stack that does not cover the rows refuses every append.
AppendBatch(batch) ==
    LET done == sql_append(db, batch) IN
    /\ db' = done.db
    /\ history' = IF done.db = db THEN history ELSE history \o batch
    /\ blamed' = blamed \cup IF accumulator(db).ok THEN {} ELSE {"append"}
    /\ UNCHANGED <<prunes, seals, table, files, worker, damage>>

\* seal_period records the head of the log.
SealNext ==
    /\ Len(seals) < Len(Periods_)
    /\ seals' = Append(seals, [period |-> Periods_[Len(seals) + 1],
                               tree_head |-> [size |-> Len(sql_head(db)), root |-> sql_head(db)]])
    /\ UNCHANGED <<prunes, db, history, table, files, worker, damage, blamed>>

\* A seal with another root, and one that commits to a shorter log.
Forged ==
    {[s EXCEPT !.tree_head.root = <<None>>] : s \in Range(seals)}
    \cup {[s EXCEPT !.tree_head.size = @ - 1] : s \in {s \in Range(seals) : s.tree_head.size > 0}}

\* A row is lost, its postings are changed, or the whole of it with its hash.
Damage(row) ==
    /\ damage < MaxDamage
    /\ damage' = damage + 1
    /\ \/ db' = [db EXCEPT !.entries = @ \ {row}]
       \/ db' = [db EXCEPT !.postings = {IF p.entry_id = row.entry_id
                                         THEN [p EXCEPT !.amount_minor = @ + 1] ELSE p : p \in @}]
       \/ db' = [db EXCEPT !.entries = (@ \ {row}) \cup
                     {[row EXCEPT !.description = "other", !.content_hash.description = "other"]}]
    /\ UNCHANGED <<prunes, history, seals, table, files, worker, blamed>>

\* The operator drops the rows the archive holds.
Prune ==
    /\ prunes /\ table # <<>> /\ archive_state(table).ok
    /\ db' = [db EXCEPT !.entries = {r \in @ : r.log_index > archive_state(table).through}]
    /\ UNCHANGED <<prunes, history, seals, table, files, worker, damage, blamed>>

\* Someone else writes to the table.
ForeignCommit ==
    /\ \A n \in DOMAIN table : table[n].file # None
    /\ table' = Append(table, [summary |-> None, file |-> None])
    /\ UNCHANGED <<prunes, db, history, seals, files, worker, damage, blamed>>

Next ==
    \/ \E batch \in Batches : AppendBatch(batch)
    \/ SealNext
    \/ \E sealed \in Range(seals) \cup Forged : Load(sealed)
    \/ ReadPage \/ Verify \/ Commit \/ Interrupted
    \/ \E row \in db.entries : Damage(row)
    \/ Prune \/ ForeignCommit

Spec == Init /\ [][Next]_vars

-----------------------------------------------------------------------------
(***************************************************************************)
(* Properties.                                                             *)
(***************************************************************************)
Mine == SelectSeq(table, LAMBDA snapshot : snapshot.summary # None)

Rows == FlattenSeq([n \in DOMAIN Mine |-> files[Mine[n].file]])

ArchivedThrough == IF Mine = <<>> THEN 0 ELSE Last(Mine).summary.archived_through

\* What a reader of the table makes of the rows of one entry.
EntryOf(rows) ==
    LET r    == rows[1]
        memo == [kind |-> r.kind, provenance |-> r.provenance,
                 document |-> IF r.document_id = None THEN None
                              ELSE [id |-> r.document_id, hash |-> r.document_content_hash]]
        day(d) == IF d = None THEN NoDate ELSE d
    IN [id |-> r.entry_id, key |-> r.idempotency_key, booking_date |-> day(r.booking_date),
        value_date |-> day(r.value_date), description |-> r.description,
        reverses |-> r.reverses, original_booking_date |-> day(r.original_booking_date),
        memo |-> IF memo = NoMemo THEN None ELSE memo,
        postings |-> [i \in DOMAIN rows |->
            [account |-> rows[i].account_index, direction |-> direction_from(rows[i].direction),
             amount |-> rows[i].amount_minor, currency |-> rows[i].currency,
             layer |-> layer_from(rows[i].layer),
             dimensions |-> IF rows[i].dimensions = None THEN {} ELSE rows[i].dimensions.axes]]]

RowsAt(n) == SelectSeq(Rows, LAMBDA r : r.log_index = n)

\* The table holds every posting of the log up to where it was archived once and
\* in order, as it was recorded, and nothing else: whatever was appended, lost or
\* changed in the store while it was read, whichever seals were asked for, and
\* wherever a compaction was cut off and tried again.
ArchiveExact ==
    /\ \A n \in 1..ArchivedThrough :
          RowsAt(n) # <<>> /\ EntryOf(RowsAt(n)) = history[n]
    /\ \A n, m \in DOMAIN Rows :
          n < m => After([index |-> Rows[m].log_index, posting |-> Rows[m].posting_index],
                         [index |-> Rows[n].log_index, posting |-> Rows[n].posting_index])
    /\ \A n \in DOMAIN Rows : Rows[n].log_index <= ArchivedThrough

\* A reader of the table needs nothing else: the content hashes recomputed from the
\* rows give the tree root in the newest summary, and a period was sealed with it.
ArchiveProves ==
    Mine # <<>> =>
        LET summary == Last(Mine).summary IN
        /\ [n \in 1..summary.archived_through |-> content_hash(EntryOf(RowsAt(n)))]
              = summary.tree_root
        /\ \E s \in Range(seals) : s.period = summary.period /\ s.tree_head.root = summary.tree_root

\* No append and no compaction of a period that was sealed is refused on account of
\* the rows it read, unless a row the archive does not hold was lost or changed, or
\* rows it does hold were dropped.
RefusalMeansDamage == ~prunes /\ blamed # {} => damage > 0
=============================================================================
