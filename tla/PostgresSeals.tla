--------------------------- MODULE PostgresSeals ----------------------------
(***************************************************************************)
(* Closing the books on one PostgreSQL database: define_period,            *)
(* transition_period, seal_period and prove_sealed_balance, each of whose  *)
(* queries runs on its own, while entries are booked, placed in the log    *)
(* and accounts are registered.                                            *)
(*                                                                         *)
(* seal_period reads the calendar, the span of the period, its closing     *)
(* balance, the chain, the head and the accounts one after another, and    *)
(* then inserts the seal and marks the period in one transaction.  A       *)
(* client validates what it books against the calendar as it stands and    *)
(* sends it later; the detail of an append is in PostgresLog.              *)
(***************************************************************************)
EXTENDS SqlTables

CONSTANTS
    Setups,         \* the ways the store is used, by name: the sequencing mode, the
                    \* periods declared at the start, the admins who move and seal
                    \* them, the target states they ask for, the entries and account
                    \* records that arrive meanwhile, those who ask for a proof of a
                    \* sealed balance, and whether a caller declares its calendar on
                    \* every start
    ProofKey,       \* the balance key that a proof is asked of
    Chart           \* the accounts at the start, in handle order

ASSUME SetupsAreComplete ==
    \A s \in DOMAIN Setups : /\ Setups[s].sequencing \in {"Inline", "Deferred"}
                             /\ Setups[s].redeclares \in BOOLEAN

ASSUME ArrivalsAreTyped ==
    /\ Chart \in Seq(Account)
    /\ \A s \in DOMAIN Setups :
          /\ Setups[s].records \subseteq [id : Nat, account : Account]
          /\ \A e \in Setups[s].bookings : e.postings \in Seq(Posting)

VARIABLES
    setup,          \* which of them this is
    db,             \* the tables
    validated,      \* the entries that clients have validated and not yet sent
    task,           \* what each admin is doing and has read
    proof,          \* what each prover has read and was told
    shut,           \* history: see Watch
    firm            \* history: see Watch

vars == <<setup, db, validated, task, proof, shut, firm>>

Inline == Setups[setup].sequencing = "Inline"
Admins == Setups[setup].admins
Provers == Setups[setup].provers

AtRest == [pc |-> "idle"]

Init ==
    /\ setup \in DOMAIN Setups
    /\ db = [migrate EXCEPT
               !.accounts = [h \in DOMAIN Chart |-> account_row(Chart[h])],
               !.periods  = [id \in {p.id : p \in Setups[setup].declared} |->
                               LET p == CHOOSE q \in Setups[setup].declared : q.id = id IN
                               [starts_on |-> p.start, ends_on |-> p.end,
                                state |-> period_state_str(p.state)]]]
    /\ validated = {}
    /\ task = [a \in Admins |-> AtRest]
    /\ proof = [p \in Provers |-> AtRest]
    /\ shut = {} /\ firm = {}

registry == from_records(sql_accounts(db))

-----------------------------------------------------------------------------
(***************************************************************************)
(* What the others do, each in one statement.                              *)
(***************************************************************************)
\* A client reads the calendar and validates an entry only where it accepts the
\* date; the store takes the witness whenever it comes and does not ask again.
Validate(e) ==
    /\ e.id \notin DOMAIN db.entries
    /\ calendar_of(db).ok
    /\ accepts(calendar_of(db).calendar, e.booking_date)
    /\ validated' = validated \cup {e}
    /\ UNCHANGED <<setup, db, task, proof>>

\* The entry is placed at once, or left to the sequencer; what is recorded under its
\* identifier or key already stays as it is.
Book(e) ==
    /\ db' = IF \E id \in DOMAIN db.entries : id = e.id \/ db.entries[id].idempotency_key = e.key
             THEN db ELSE append_rows(db, e, 0, Inline)
    /\ validated' = validated \ {e}
    /\ UNCHANGED <<setup, task, proof>>

\* One row of a sequencing pass.
Place(id) ==
    /\ ~Inline
    /\ id \in DOMAIN db.entries \ Placed(db)
    /\ db' = place_row(db, id)
    /\ UNCHANGED <<setup, validated, task, proof>>

StoreAccount(record) ==
    /\ CanRegisterAccount(db, record)
    /\ db' = register_account(db, record)
    /\ UNCHANGED <<setup, validated, task, proof>>

\* define_period, by a caller that declares its calendar on every start.
Redeclare(p) ==
    /\ Setups[setup].redeclares
    /\ CanDefinePeriod(db, p)
    /\ db' = define_period(db, p)
    /\ UNCHANGED <<setup, validated, task, proof>>

-----------------------------------------------------------------------------
(***************************************************************************)
(* transition_period: checked against a calendar, then written blindly.    *)
(***************************************************************************)
ReadForMove(a, id, to) ==
    /\ task[a].pc = "idle"
    /\ calendar_of(db).ok
    /\ CanTransition(calendar_of(db).calendar, id, to)
    /\ task' = [task EXCEPT ![a] = [pc |-> "move", id |-> id, to |-> to]]
    /\ UNCHANGED <<setup, db, validated, proof>>

transition_period(a) ==
    /\ task[a].pc = "move"
    /\ db' = set_period_state(db, task[a].id, task[a].to)
    /\ task' = [task EXCEPT ![a] = AtRest]
    /\ UNCHANGED <<setup, validated, proof>>

-----------------------------------------------------------------------------
(***************************************************************************)
(* seal_period.                                                            *)
(***************************************************************************)
ReadSealable(a, id) ==
    /\ task[a].pc = "idle"
    /\ calendar_of(db).ok
    /\ check_sealable(calendar_of(db).calendar, id)
    /\ task' = [task EXCEPT ![a] = [pc |-> "span", id |-> id,
                                    def |-> calendar_of(db).calendar.periods[id]]]
    /\ UNCHANGED <<setup, db, validated, proof>>

\* The next query of the seal, with what it returns kept for later.
Read(a, at, next, field, value) ==
    /\ task[a].pc = at
    /\ task' = [task EXCEPT ![a] = Insert(Insert(@, "pc", next), field, value)]
    /\ UNCHANGED <<setup, db, validated, proof>>

ReadSpan(a) ==
    Read(a, "span", "closing", "cover", sql_coverage(db, task[a].def.start, task[a].def.end))

closing_balance_Whole(t, end) == sql_trial_balance(t, sql_len(t))

closing_balance(t, end) == sql_trial_balance_through_date(t, end)

ReadClosing(a) ==
    Read(a, "closing", "chain", "closing", closing_balance(db, task[a].def.end))

\* Rows are no evidence: a chain that does not verify is refused.
ReadChain(a) ==
    verify_chain(sql_seals(db)) /\ Read(a, "chain", "head", "chain", sql_seals(db))

ReadHead(a) == Read(a, "head", "accounts", "head", sql_head(db))

ReadAccounts(a) ==
    registry.ok /\ Read(a, "accounts", "insert", "accounts", commitment(registry.registry))

SealRead(a) ==
    build(task[a].id, task[a].cover, task[a].head, task[a].closing, task[a].accounts,
          chain_head(task[a].chain))

\* The transaction: the seal and the state together, or a constraint refuses.
InsertSeal(a) ==
    /\ task[a].pc = "insert"
    /\ db' = IF CanInsertSeal(db, SealRead(a), Len(task[a].chain))
             THEN set_period_state(insert_seal(db, SealRead(a), Len(task[a].chain)),
                                   task[a].id, "Sealed")
             ELSE db
    /\ task' = [task EXCEPT ![a] = AtRest]
    /\ UNCHANGED <<setup, validated, proof>>

SealStep(a) ==
    \/ ReadSpan(a)
    \/ ReadClosing(a)
    \/ ReadChain(a)
    \/ ReadHead(a)
    \/ ReadAccounts(a)
    \/ InsertSeal(a)

\* Any of the queries may fail, and the call with it.
Fail(a) ==
    /\ task[a].pc # "idle"
    /\ task' = [task EXCEPT ![a] = AtRest]
    /\ UNCHANGED <<setup, db, validated, proof>>

-----------------------------------------------------------------------------
(***************************************************************************)
(* prove_sealed_balance: seals, periods, closing balance, accounts.        *)
(***************************************************************************)
AskProof(p, id) ==
    /\ proof[p].pc = "idle"
    /\ id \in DOMAIN db.seals
    /\ proof' = [proof EXCEPT ![p] = [pc |-> "period", seal |-> db.seals[id].seal]]
    /\ UNCHANGED <<setup, db, validated, task>>

ProofPeriod(p) ==
    /\ proof[p].pc = "period"
    /\ proof' = [proof EXCEPT ![p] = ("pc" :> "closing") @@
                                     ("end" :> db.periods[@.seal.period].ends_on) @@ @]
    /\ UNCHANGED <<setup, db, validated, task>>

ProofClosing(p) ==
    /\ proof[p].pc = "closing"
    /\ proof' = [proof EXCEPT ![p] = ("pc" :> "accounts") @@
                                     ("closing" :> closing_balance(db, @.end)) @@ @]
    /\ UNCHANGED <<setup, db, validated, task>>

ProofAssemble(p) ==
    /\ proof[p].pc = "accounts"
    /\ registry.ok
    /\ proof' = [proof EXCEPT ![p] = [pc |-> "told", outcome |->
                    assemble(@.seal, @.closing, registry.registry, ProofKey),
                                     period |-> @.seal.period]]
    /\ UNCHANGED <<setup, db, validated, task>>

ProofDone(p) ==
    /\ proof[p].pc = "told"
    /\ proof' = [proof EXCEPT ![p] = AtRest]
    /\ UNCHANGED <<setup, db, validated, task>>

ProofStep(p) == ProofPeriod(p) \/ ProofClosing(p) \/ ProofAssemble(p) \/ ProofDone(p)

-----------------------------------------------------------------------------
Step ==
    \/ \E e \in Setups[setup].bookings : Validate(e)
    \/ \E e \in validated : Book(e)
    \/ \E id \in DOMAIN db.entries : Place(id)
    \/ \E record \in Setups[setup].records : StoreAccount(record)
    \/ \E p \in Setups[setup].declared : Redeclare(p)
    \/ \E a \in Admins, id \in PeriodIds, to \in Setups[setup].moves : ReadForMove(a, id, to)
    \/ \E a \in Admins : transition_period(a)
    \/ \E a \in Admins, id \in PeriodIds : ReadSealable(a, id)
    \/ \E a \in Admins : SealStep(a) \/ Fail(a)
    \/ \E p \in Provers, id \in PeriodIds : AskProof(p, id)
    \/ \E p \in Provers : ProofStep(p)

\* The dates of the entries that may still come under the head of the tables t: the
\* calendar accepts them, because a period is open or none covers them; or a client
\* holds an entry that was accepted; or one waits for its place.
StillComing(t, held) ==
    LET read == calendar_of(t) IN
    {d \in Dates : read.ok /\ accepts(read.calendar, d)}
        \cup {e.booking_date : e \in held}
        \cup {t.entries[id].booking_date : id \in DOMAIN t.entries \ Placed(t)}

Sealing(t) == t.pc \notin {"idle", "move"}

\* No guard reads the history.  An admin is in `shut` while it seals and, since it
\* read the calendar, no entry dated up to the end of its period could come; a
\* sealed period stays in `firm` as long as none can.
Watch ==
    LET coming == StillComing(db', validated')
        closed(day) == \A d \in coming : d > day
    IN /\ shut' = {a \in Admins : /\ Sealing(task'[a]) /\ closed(task'[a].def.end)
                                  /\ Sealing(task[a]) => a \in shut}
       /\ firm' = {id \in DOMAIN db'.seals :
                     /\ closed(db'.periods[id].ends_on)
                     /\ \/ id \in firm
                        \/ /\ id \notin DOMAIN db.seals
                           /\ \E a \in shut : task[a].id = id /\ ~Sealing(task'[a])}

Next == Step /\ Watch

Spec == Init /\ [][Next]_vars

-----------------------------------------------------------------------------
\* The stored seals form a chain that verifies, however many admins seal at the
\* same time and whatever they had read before.
ChainVerifies == verify_chain(sql_seals(db))

\* The journal that holds the first `size` entries of the log.
BooksUpTo(size) == [Books_new EXCEPT !.entries = SubSeq(AsBooks(db).entries, 1, size)]

\* The parts of a seal describe one moment although they were read at several.
\* Its head is a beginning of the log, its closing balance that of a beginning of
\* these entries, and its coverage of a beginning of those.  All three are of the
\* same entries when the books up to its end could not grow while it was made: no
\* period reopened, no day outside every period, nothing validated and not sent,
\* nothing waiting for the sequencer.
SealsDescribeTheirHead ==
    \A id \in DOMAIN db.seals :
        LET seal_ == db.seals[id].seal
            size  == Len(seal_.tree_head)
            span  == db.periods[id]
            closes(n) == seal_.trial_balance
                            = trial_balance_through_date(BooksUpTo(n), span.ends_on)
            covers(n) == [first_index |-> seal_.first_index, last_index |-> seal_.last_index,
                          entry_count |-> seal_.entry_count]
                            = coverage(BooksUpTo(n), span.starts_on, span.ends_on)
        IN /\ seal_.tree_head = SubSeq(leaves(db).leaves, 1, size)
           /\ \E n \in 0..size : closes(n) /\ \E m \in 0..n : covers(m)
           /\ id \in firm => closes(size) /\ covers(size)

\* A prover whose four reads straddle bookings, seals and registrations is never
\* told that the registry changed; and it is told that the books were restated only
\* when they could grow, before the end of the period, after the seal was begun.
NoFalseAlarm ==
    \A p \in Provers : proof[p].pc = "told" =>
        /\ proof[p].outcome # "RegistryMismatch"
        /\ proof[p].period \in firm => proof[p].outcome # "Restated"
=============================================================================
