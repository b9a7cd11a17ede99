---------------------------- MODULE SqliteStore -----------------------------
(***************************************************************************)
(* Processes that share a SQLite file.  There is one writer at a time, so  *)
(* an append and a clearing are single steps; what takes several queries   *)
(* outside a transaction is several steps: opening the file, defining,     *)
(* moving and sealing a period, and taking a checkpoint.                   *)
(***************************************************************************)
EXTENDS SqliteQueries

CONSTANTS
    Setups,         \* the ways the file is used, by name: the processes that open it,
                    \* the batches clients deliver, the account records they register
                    \* and the clearings they submit, each any number of times; whether
                    \* a client may send a batch long after it validated it; the periods
                    \* at the start, the admins, the states they move periods to, the
                    \* periods they define, and whether they define a known one again
    LedgerNames,    \* the ledgers that openers mean to serve
    ViewKey,        \* the balance key that is listed
    PageSizes       \* the page sizes asked for

ASSUME SetupsAreComplete ==
    \A s \in DOMAIN Setups : {Setups[s].delays, Setups[s].redeclares} \subseteq BOOLEAN

VARIABLES
    setup,          \* which of them this is
    db,             \* the committed file
    opener,         \* how far each process is in opening it
    task,           \* what each admin has read
    journal,        \* an in-memory journal given the same batches, and its answer
    validated,      \* the batches that clients have validated and not yet sent
    shut,           \* history: see Watch
    firm            \* history: see Watch

vars == <<setup, db, opener, task, journal, validated, shut, firm>>

Openers == Setups[setup].openers
Admins == Setups[setup].admins

AtRest == [pc |-> "idle"]

Init ==
    /\ setup \in DOMAIN Setups
    /\ db = [Schema EXCEPT !.periods = UNION {define_period(Schema, p).periods :
                                                p \in Setups[setup].declared}]
    /\ opener = [o \in Openers |-> AtRest]
    /\ task = [a \in Admins |-> AtRest]
    /\ journal = [books |-> Books_new, agreed |-> TRUE]
    /\ validated = {} /\ shut = {} /\ firm = {}

registry == from_records(sql_accounts(db))

-----------------------------------------------------------------------------
(***************************************************************************)
(* migrate: claim the file, then ask whose it is.                          *)
(***************************************************************************)
Claim(o, ledger) ==
    /\ opener[o].pc = "idle"
    /\ db' = claim(db, ledger)
    /\ opener' = [opener EXCEPT ![o] = [pc |-> "check", ledger |-> ledger]]
    /\ UNCHANGED <<setup, task, journal, validated>>

CheckClaim(o) ==
    /\ opener[o].pc = "check"
    /\ opener' = [opener EXCEPT ![o].pc = IF db.ledger_meta = opener[o].ledger THEN "serves" ELSE "refused"]
    /\ UNCHANGED <<setup, db, task, journal, validated>>

-----------------------------------------------------------------------------
(***************************************************************************)
(* One transaction or one statement each.                                  *)
(***************************************************************************)
\* A batch holds entries that validated.
IsWitnessed(batch) ==
    /\ registry.ok /\ calendar(db).ok
    /\ \A n \in DOMAIN batch : seal(registry.registry, calendar(db).calendar, batch[n])

\* A client has its batch validated and waits with it.
HoldBack(batch) ==
    /\ Setups[setup].delays
    /\ IsWitnessed(batch)
    /\ validated' = validated \cup {batch}
    /\ UNCHANGED <<setup, db, opener, task, journal>>

\* What is recorded already comes again under another identifier, and the file looks
\* at identifiers and reversals before it looks at the key: the identifier is that
\* of another entry, or the entry is a reversal of what is reversed by now.
RefusedRetry(batch) ==
    \E n \in DOMAIN batch :
        LET before == ToSet(AsBooks(db).entries) \cup {batch[m] : m \in 1..(n - 1)}
            e      == batch[n]
        IN \E old \in before :
              /\ old.key = e.key /\ old.id # e.id
              /\ e.reverses # None \/ \E other \in before : other.id = e.id

\* The journal gets the batch too, unless it is such a retry, and says whether it
\* accepts it.
Deliver(batch) ==
    /\ batch \in validated \/ IsWitnessed(batch)
    /\ db' = sql_append(db, batch).db
    /\ journal' =
          IF RefusedRetry(batch)
          THEN [journal EXCEPT !.agreed = ~sql_append(db, batch).ok]
          ELSE [books  |-> record_batch(journal.books, registry.registry, batch),
                agreed |-> sql_append(db, batch).ok
                           = Applied(journal.books, registry.registry, batch).ok]
    /\ validated' = validated \ {batch}
    /\ UNCHANGED <<setup, opener, task>>

RegisterAccount(record) ==
    /\ CanRegisterAccount(db, record)
    /\ db' = register_account(db, record)
    /\ UNCHANGED <<setup, opener, task, journal, validated>>

Clear(c) ==
    /\ sql_CanClear(db, c)
    /\ db' = sql_clear(db, c)
    /\ UNCHANGED <<setup, opener, task, journal, validated>>

ResetClearing(c) ==
    /\ sql_CanReset(db, c.id)
    /\ db' = sql_reset_clearing(db, c.id, 1)
    /\ UNCHANGED <<setup, opener, task, journal, validated>>

-----------------------------------------------------------------------------
(***************************************************************************)
(* Periods: a calendar is read and asked, and the row written afterwards.  *)
(***************************************************************************)
StartTask(a, work) ==
    /\ task[a].pc = "idle"
    /\ task' = [task EXCEPT ![a] = work]
    /\ UNCHANGED <<setup, db, opener, journal, validated>>

CheckPeriod(a, p) ==
    /\ calendar(db).ok
    /\ Setups[setup].redeclares \/ p.id \notin DOMAIN calendar(db).calendar.periods
    /\ CanEnsure(calendar(db).calendar, p)
    /\ StartTask(a, [pc |-> "define", period |-> p])

DefinePeriod(a) ==
    /\ task[a].pc = "define"
    /\ db' = define_period(db, task[a].period)
    /\ task' = [task EXCEPT ![a] = AtRest]
    /\ UNCHANGED <<setup, opener, journal, validated>>

CheckMove(a, id, to) ==
    /\ calendar(db).ok
    /\ CanTransition(calendar(db).calendar, id, to)
    /\ StartTask(a, [pc |-> "move", id |-> id, to |-> to])

TransitionPeriod(a) ==
    /\ task[a].pc = "move"
    /\ db' = set_period_state(db, task[a].id, task[a].to)
    /\ task' = [task EXCEPT ![a] = AtRest]
    /\ UNCHANGED <<setup, opener, journal, validated>>

-----------------------------------------------------------------------------
(***************************************************************************)
(* seal_period: five queries after the calendar, then the transaction.     *)
(***************************************************************************)
CheckSealable(a, id) ==
    /\ calendar(db).ok
    /\ check_sealable(calendar(db).calendar, id)
    /\ StartTask(a, [pc |-> "seal", id |-> id, def |-> calendar(db).calendar.periods[id], read |-> <<>>])

\* What the queries return, in the order they are sent.
SealQuery_WholeBooks(def) ==
    <<span(db, def.start, def.end), sql_trial_balance(db, sql_len(db)), sql_seals(db),
      sql_head(db), commitment(registry.registry)>>

SealQuery(def) ==
    <<span(db, def.start, def.end), sql_trial_balance_through_date(db, def.end), sql_seals(db),
      sql_head(db), commitment(registry.registry)>>

SealRead(a) ==
    /\ task[a].pc = "seal"
    /\ LET query == Len(task[a].read) + 1 IN
          /\ query <= 5
          /\ query = 3 => verify_chain(sql_seals(db))
          /\ query = 5 => registry.ok
          /\ task' = [task EXCEPT ![a].read = Append(@, SealQuery(task[a].def)[query])]
    /\ UNCHANGED <<setup, db, opener, journal, validated>>

InsertSeal(a) ==
    /\ task[a].pc = "seal" /\ Len(task[a].read) = 5
    /\ LET read  == task[a].read
           seal_ == build(task[a].id, read[1], read[4], read[2], read[5], chain_head(read[3]))
       IN db' = IF CanInsertSeal(db, seal_, Len(read[3]))
                THEN insert_seal(db, seal_, Len(read[3])) ELSE db
    /\ task' = [task EXCEPT ![a] = AtRest]
    /\ UNCHANGED <<setup, opener, journal, validated>>

\* The process stops between two queries, and what it has read is gone.
Stop(a) ==
    /\ task[a].pc # "idle"
    /\ task' = [task EXCEPT ![a] = AtRest]
    /\ UNCHANGED <<setup, db, opener, journal, validated>>

AdminStep(a) ==
    \/ \E p \in Setups[setup].periods : CheckPeriod(a, p)
    \/ \E id \in PeriodIds, to \in Setups[setup].moves : CheckMove(a, id, to)
    \/ \E id \in PeriodIds : CheckSealable(a, id)
    \/ DefinePeriod(a)
    \/ TransitionPeriod(a)
    \/ SealRead(a)
    \/ InsertSeal(a)
    \/ Stop(a)

\* A checkpoint of the view key: the head names the prefix its balance covers.
SaveCheckpoint(size) ==
    /\ db' = save_checkpoint(db, [key |-> ViewKey, balance |-> sql_balance(db, ViewKey, size),
                                  tree_head |-> sql_head_at(db, size)])
    /\ UNCHANGED <<setup, opener, task, journal, validated>>

Step ==
    \/ \E o \in Openers, ledger \in LedgerNames : Claim(o, ledger)
    \/ \E o \in Openers : CheckClaim(o)
    \/ \E batch \in Setups[setup].batches : HoldBack(batch) \/ Deliver(batch)
    \/ \E record \in Setups[setup].records : RegisterAccount(record)
    \/ \E c \in Setups[setup].assignments : Clear(c) \/ ResetClearing(c)
    \/ \E a \in Admins : AdminStep(a)
    \/ \E size \in 0..sql_len(db) : SaveCheckpoint(size)

\* The dates of the entries that may still come into the file t: its calendar accepts
\* them, because a period is open or none covers them; or a client holds a batch
\* that was accepted.
StillComing(t, held) ==
    LET read == calendar(t) IN
    {d \in Dates : read.ok /\ accepts(read.calendar, d)}
        \cup UNION {{batch[n].booking_date : n \in DOMAIN batch} : batch \in held}

Sealing(work) == work.pc = "seal"

\* No guard reads the history.  An admin is in `shut` while it seals and, since it
\* read the calendar, no entry dated up to the end of its period could come; a
\* sealed period stays in `firm` as long as none can.
Watch ==
    LET coming == StillComing(db', validated')
        closed(day) == \A d \in coming : d > day
        sealed(t) == {row.seal.period : row \in t.seals}
    IN /\ shut' = {a \in Admins : /\ Sealing(task'[a]) /\ closed(task'[a].def.end)
                                  /\ Sealing(task[a]) => a \in shut}
       /\ firm' = {row.period_id : row \in
                     {r \in db'.periods :
                        /\ r.period_id \in sealed(db') /\ closed(r.ends_on)
                        /\ \/ r.period_id \in firm
                           \/ /\ r.period_id \notin sealed(db)
                              /\ \E a \in shut : task[a].id = r.period_id /\ ~Sealing(task'[a])}}

Next == Step /\ Watch

Spec == Init /\ [][Next]_vars

-----------------------------------------------------------------------------
(***************************************************************************)
(* Properties.                                                             *)
(***************************************************************************)
\* One file serves one ledger, whoever opens it first.
OneLedger ==
    \A o1, o2 \in {o \in Openers : opener[o].pc = "serves"} : opener[o1].ledger = opener[o2].ledger

\* A delivery does to the file what it does to the in-memory journal: the same
\* batches are accepted, but for recorded content that comes again under an
\* identifier or as a reversal that the file refuses; and the journal read back from
\* the rows, each of which hashes to what is stored beside it, is the same, with the
\* same log.
DeliversLikeTheJournal ==
    /\ journal.agreed
    /\ AsBooks(db) = journal.books
    /\ accumulator(db).ok /\ log(db).ok
    /\ \A row \in db.entries :
          /\ build_stored_entry(db, row).ok
          /\ sql_head_at(db, row.log_index) = SubSeq(db.log_subtrees, 1, row.log_index)

\* The clearing register the journal would hold.
Replayed ==
    FoldSet(LAMBDA c, reg :
               LET assignment == CHOOSE x \in Setups[setup].assignments : x.id = c.clearing_id
                   made == clear(reg, assignment)
               IN IF c.reset_on = NoDate THEN made ELSE reset(made, c.clearing_id, c.reset_on),
            ClearingRegister_new, db.clearings)

\* Every page of a statement, of open items and of the log, wherever it starts, is
\* the page the in-memory store cuts from the same journal.
PagesAgree ==
    LET books == AsBooks(db) IN
    \A limit \in PageSizes :
        /\ \A after \in {Start} \cup {At(db, p) : p \in db.postings} :
              LET cursor == Cursor(after, limit) IN
              /\ sql_statement(db, ViewKey, cursor) = statement_page(books, ViewKey, cursor)
              /\ sql_open_items(db, ViewKey, cursor)
                    = open_items_page(Replayed, books, ViewKey, cursor)
        /\ \A after \in 0..sql_len(db) :
              LET mine == sql_page(db, Cursor(after, limit))
                  theirs == page(books, Cursor(after, limit))
              IN /\ mine.next = theirs.next
                 /\ [n \in DOMAIN mine.records |-> mine.records[n].entry]
                       = [n \in DOMAIN theirs.records |-> theirs.records[n].entry]

\* The stored seals form a chain that verifies.  The head of each is a beginning of
\* the log, its closing balance that of a beginning of these entries, and its
\* coverage of a beginning of those; all three are of the same entries when nothing
\* dated up to its end could come while it was made: no period reopened, no day
\* outside every period, nothing validated and not sent.
SealsDescribeTheirHead ==
    /\ verify_chain(sql_seals(db))
    /\ \A row \in db.seals :
          LET seal_ == row.seal
              size  == Len(seal_.tree_head)
              span_ == CHOOSE p \in db.periods : p.period_id = seal_.period
              first(n) == [Books_new EXCEPT !.entries = SubSeq(AsBooks(db).entries, 1, n)]
              closes(n) == seal_.trial_balance = trial_balance_through_date(first(n), span_.ends_on)
              covers(n) == [first_index |-> seal_.first_index, last_index |-> seal_.last_index,
                            entry_count |-> seal_.entry_count]
                              = coverage(first(n), span_.starts_on, span_.ends_on)
          IN /\ seal_.tree_head = SubSeq(log(db).leaves, 1, size)
             /\ \E n \in 0..size : closes(n) /\ \E m \in 0..n : covers(m)
             /\ seal_.period \in firm => closes(size) /\ covers(size)
=============================================================================
