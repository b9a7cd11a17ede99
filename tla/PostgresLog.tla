---------------------------- MODULE PostgresLog -----------------------------
(***************************************************************************)
(* Appends and the sequencer on one PostgreSQL database: append,           *)
(* append_one, check_limits and sequence in src/storage/postgres.rs.       *)
(*                                                                         *)
(* Every statement of a transaction is a step of its own, under READ       *)
(* COMMITTED: it sees the rows of finished transactions and its own.  A    *)
(* row in `db` carries the identifier of the transaction that inserted it  *)
(* and is hidden from the others while that transaction runs.  Statements  *)
(* wait for one another as PostgreSQL makes them wait: an INSERT for a     *)
(* running transaction that holds its unique key, a foreign-key check for  *)
(* a FOR UPDATE on the account row, a FOR UPDATE for both.  A connection   *)
(* may be lost at any statement, a client may submit any batch again at    *)
(* any time, and in a cycle of waits the database aborts a transaction.    *)
(***************************************************************************)
EXTENDS SqlTables, Relation

CONSTANTS
    Clients,        \* those who append
    Sequencers,     \* the processes that run sequencing passes
    Setups,         \* the ways the store is opened and used, by name: the sequencing
                    \* mode, the batches submitted, the account records registered
                    \* meanwhile, and whether connections may be lost
    Registrations,  \* the account records present when the clients start
    MaxXid          \* how many appends are begun: the bound on transactions

ASSUME SequencingIsKnown == \A s \in DOMAIN Setups : Setups[s].sequencing \in {"Inline", "Deferred"}
ASSUME LossesIsBoolean == \A s \in DOMAIN Setups : Setups[s].losses \in BOOLEAN
ASSUME MaxXidIsNatural == MaxXid \in Nat
ASSUME ActorsDiffer ==
    Clients \cap Sequencers = {} /\ None \notin Clients \cup Sequencers

\* Whoever submits has validated: an entry has postings, a batch has entries.
\* Identifiers are compared, so they are numbers.
Submitted == UNION {Range(batch) : batch \in UNION {Setups[s].batches : s \in DOMAIN Setups}}

ASSUME BatchesAreEntries ==
    /\ \A s \in DOMAIN Setups : \A batch \in Setups[s].batches :
          batch \in Seq(Submitted) /\ batch # <<>>
    /\ \A e \in Submitted :
          /\ DOMAIN e = {"id", "key", "booking_date", "value_date", "postings", "reverses",
                         "original_booking_date", "description", "memo"}
          /\ e.id \in Nat
          /\ e.postings \in Seq(Posting) /\ e.postings # <<>>

VARIABLES
    setup,          \* which of them this is
    db,             \* the tables, rows of running transactions included
    tx,             \* the transaction each client runs
    lock,           \* who holds the advisory lock, or None
    pass,           \* the rows the sequencing pass under way has read
    next_xid,       \* the next transaction identifier
    begun,          \* how many appends have begun
    answers,        \* every Recorded a client was told
    commits         \* the entries in the order their transactions committed

vars == <<setup, db, tx, lock, pass, next_xid, begun, answers, commits>>

\* `mine` is a history: the entries the transaction has inserted.
Idle == [pc |-> "idle", batch |-> <<>>, at |-> 1, xid |-> 0, next |-> 0, acc |-> <<>>,
         posted |-> 0, share |-> {}, update |-> {}, checked |-> 0, out |-> <<>>, mine |-> <<>>]

Inline == Setups[setup].sequencing = "Inline"

Init ==
    /\ setup \in DOMAIN Setups
    /\ db = [migrate EXCEPT !.accounts =
                [id \in {r.id : r \in Registrations} |->
                    account_row((CHOOSE r \in Registrations : r.id = id).account)]]
    /\ tx = [c \in Clients |-> Idle]
    /\ lock = None
    /\ pass = <<>>
    /\ next_xid = 1
    /\ begun = 0
    /\ answers = {}
    /\ commits = <<>>

-----------------------------------------------------------------------------
(***************************************************************************)
(* Visibility.                                                             *)
(***************************************************************************)
Running == {tx[c].xid : c \in Clients} \ {0}

\* The rows a statement of transaction `xid` sees; 0 sees finished ones only.
Seen(xid) ==
    LET ids == {id \in DOMAIN db.entries :
                   db.entries[id].insert_xid = xid \/ db.entries[id].insert_xid \notin Running}
    IN [db EXCEPT !.entries  = [id \in ids |-> @[id]],
                  !.postings = [k \in {k \in DOMAIN @ : k[1] \in ids} |-> @[k]]]

Committed == Seen(0)

\* pg_snapshot_xmin: the oldest transaction still running, or the next one.
snapshot_xmin == Min(Running \cup {next_xid})

-----------------------------------------------------------------------------
(***************************************************************************)
(* Waiting.                                                                *)
(***************************************************************************)
Entry(c) == tx[c].batch[tx[c].at]

Others(c) == {d \in Clients \ {c} : tx[d].xid # 0}

\* Running transactions that hold the key, the identifier or the reversal the
\* INSERT of `c` needs.
InsertWaits(c) ==
    {d \in Others(c) : \E id \in DOMAIN db.entries :
        /\ db.entries[id].insert_xid = tx[d].xid
        /\ \/ db.entries[id].idempotency_key = Entry(c).key
           \/ id = Entry(c).id
           \/ Entry(c).reverses # None /\ db.entries[id].reverses = Entry(c).reverses}

\* The account of the next posting is locked FOR UPDATE by another.
PostingWaits(c) ==
    {d \in Others(c) : Entry(c).postings[tx[c].posted + 1].account \in tx[d].update}

LimitKey(c) == key_of(Entry(c).postings[tx[c].checked + 1])

\* The account to be checked is referenced or locked by another.
LimitWaits_NoLock(c) == {}

LimitWaits_OtherConnection(c) ==
    IF db.accounts[LimitKey(c).account].balance_limit = "unlimited" THEN {}
    ELSE {d \in Clients : LimitKey(c).account \in tx[d].share \cup tx[d].update}

LimitWaits(c) ==
    IF db.accounts[LimitKey(c).account].balance_limit = "unlimited" THEN {}
    ELSE {d \in Others(c) : LimitKey(c).account \in tx[d].share \cup tx[d].update}

WaitsFor(c) ==
    CASE tx[c].pc = "insert" -> InsertWaits(c)
      [] tx[c].pc = "post"   -> PostingWaits(c)
      [] tx[c].pc = "limit"  -> LimitWaits(c)
      [] tx[c].pc = "begin"  -> IF lock \in Clients THEN {lock} ELSE {}
      [] OTHER -> {}

-----------------------------------------------------------------------------
(***************************************************************************)
(* The end of a transaction: its locks go, and with an abort its rows.     *)
(***************************************************************************)
Release(c) == IF lock = c THEN None ELSE lock

Rollback(c) ==
    LET mine == {id \in DOMAIN db.entries : db.entries[id].insert_xid = tx[c].xid} IN
    /\ db' = [db EXCEPT !.entries = Without(@, mine),
                        !.postings = Without(@, {k \in DOMAIN @ : k[1] \in mine}),
                        !.posting_dimensions = {d \in @ : d.entry_id \notin mine}]
    /\ tx' = [tx EXCEPT ![c] = Idle]
    /\ lock' = Release(c)
    /\ UNCHANGED <<setup, pass, next_xid, begun, answers, commits>>

-----------------------------------------------------------------------------
(***************************************************************************)
(* append: the transaction begins; in inline mode it takes the advisory    *)
(* lock and reads the next position and the accumulator under it.          *)
(***************************************************************************)
Begin(c, batch) ==
    /\ tx[c].pc = "idle"
    /\ begun < MaxXid
    /\ begun' = begun + 1
    /\ tx' = [tx EXCEPT ![c].pc = IF Inline THEN "begin" ELSE "id", ![c].batch = batch]
    /\ UNCHANGED <<setup, db, lock, pass, next_xid, answers, commits>>

TakeLock_Shared(c) ==
    /\ tx[c].pc = "begin"
    /\ accumulator(Committed).ok
    /\ lock' = c
    /\ tx' = [tx EXCEPT ![c].pc = "id", ![c].next = next_index(Committed),
                        ![c].acc = accumulator(Committed).leaves]
    /\ UNCHANGED <<setup, db, pass, next_xid, begun, answers, commits>>

TakeLock(c) ==
    /\ tx[c].pc = "begin"
    /\ lock = None
    /\ accumulator(Committed).ok
    /\ lock' = c
    /\ tx' = [tx EXCEPT ![c].pc = "id", ![c].next = next_index(Committed),
                        ![c].acc = accumulator(Committed).leaves]
    /\ UNCHANGED <<setup, db, pass, next_xid, begun, answers, commits>>

\* append_one, first statement: DuplicateId, named before the primary key fires.
CheckId(c) ==
    /\ tx[c].pc = "id"
    /\ IF Clashes(Seen(tx[c].xid), Entry(c))
       THEN Rollback(c)
       ELSE /\ tx' = [tx EXCEPT ![c].pc = IF Entry(c).reverses = None THEN "xid" ELSE "reversal"]
            /\ UNCHANGED <<setup, db, lock, pass, next_xid, begun, answers, commits>>

\* check_reversal, before the idempotency gate.
CheckReversal(c) ==
    /\ tx[c].pc = "reversal"
    /\ IF check_reversal(Seen(tx[c].xid), Entry(c))
       THEN /\ tx' = [tx EXCEPT ![c].pc = "xid"]
            /\ UNCHANGED <<setup, db, lock, pass, next_xid, begun, answers, commits>>
       ELSE Rollback(c)

\* The INSERT evaluates pg_current_xact_id() before it may have to wait.
AssignXid(c) ==
    /\ tx[c].pc = "xid"
    /\ tx' = [tx EXCEPT ![c].pc = "insert", ![c].xid = IF @ = 0 THEN next_xid ELSE @]
    /\ next_xid' = IF tx[c].xid = 0 THEN next_xid + 1 ELSE next_xid
    /\ UNCHANGED <<setup, db, lock, pass, begun, answers, commits>>

recorded(id, index, hash, is_new) ==
    [id |-> id, index |-> index, content_hash |-> hash, is_new |-> is_new]

\* After an entry: the next one, or the commit.
NextEntry(t, answer) ==
    [t EXCEPT !.pc = IF t.at = Len(t.batch) THEN "commit" ELSE "id", !.at = @ + 1,
              !.posted = 0, !.checked = 0, !.out = Append(@, answer)]

KeyHolder(t, e) == {id \in DOMAIN t.entries : t.entries[id].idempotency_key = e.key}

\* The key was taken: the same content is a replay, other content a conflict.
SameContent_SameKey(t, id, e) == t.entries[id].idempotency_key = e.key

SameContent(t, id, e) == t.entries[id].content_hash = content_hash(e)

Replay(c, id) ==
    LET t == Seen(tx[c].xid) IN
    IF SameContent(t, id, Entry(c))
    THEN /\ tx' = [tx EXCEPT ![c] = NextEntry(@, recorded(id, t.entries[id].log_index,
                                                          content_hash(Entry(c)), FALSE))]
         /\ UNCHANGED <<setup, db, lock, pass, next_xid, begun, answers, commits>>
    ELSE Rollback(c)

\* The unique indexes on the identifier and on `reverses`.
UniqueHolds_IdOnly(t, e) == e.id \notin DOMAIN t.entries

UniqueHolds(t, e) ==
    e.id \notin DOMAIN t.entries /\ (e.reverses # None => ReversalOf(t, e.reverses) = {})

\* The INSERT itself, once nobody who runs holds what it needs.
InsertEntry(c) ==
    LET t      == Seen(tx[c].xid)
        acc    == Append(tx[c].acc, content_hash(Entry(c)))
    IN /\ tx[c].pc = "insert"
       /\ InsertWaits(c) = {}
       /\ IF KeyHolder(t, Entry(c)) # {}
          THEN \E id \in KeyHolder(t, Entry(c)) : Replay(c, id)
          ELSE IF ~UniqueHolds(t, Entry(c))
          THEN Rollback(c)
          ELSE /\ db' = insert_entry(db, Entry(c), tx[c].xid,
                                     IF Inline THEN tx[c].next ELSE Null,
                                     IF Inline THEN acc ELSE <<>>)
               /\ tx' = [tx EXCEPT ![c].pc = "post", ![c].mine = Append(@, Entry(c).id)]
               /\ UNCHANGED <<setup, lock, pass, next_xid, begun, answers, commits>>

\* One posting; its foreign key needs the account row, and holds it KEY SHARE.
InsertPosting(c) ==
    LET i       == tx[c].posted + 1
        account == Entry(c).postings[i].account
    IN /\ tx[c].pc = "post"
       /\ PostingWaits(c) = {}
       /\ IF account \notin DOMAIN db.accounts
          THEN Rollback(c)
          ELSE /\ db' = insert_posting(db, Entry(c), i)
               /\ tx' = [tx EXCEPT ![c].pc = IF i = Len(Entry(c).postings) THEN "limit" ELSE "post",
                                   ![c].posted = i, ![c].share = @ \cup {account}]
               /\ UNCHANGED <<setup, lock, pass, next_xid, begun, answers, commits>>

\* check_limits for one key: a constrained account is locked FOR UPDATE and the
\* key's net is read after that.  A key seen before holds what it held.
CheckLimit(c) ==
    LET i       == tx[c].checked + 1
        account == LimitKey(c).account
        answer  == recorded(Entry(c).id, IF Inline THEN tx[c].next ELSE Null,
                            content_hash(Entry(c)), TRUE)
        locked  == [tx[c] EXCEPT !.update =
                       IF db.accounts[account].balance_limit = "unlimited" THEN @ ELSE @ \cup {account}]
        done    == [locked EXCEPT !.next = @ + 1, !.acc = Append(@, content_hash(Entry(c)))]
    IN /\ tx[c].pc = "limit"
       /\ LimitWaits(c) = {}
       /\ IF ~check_limits(Seen(tx[c].xid), LimitKey(c))
          THEN Rollback(c)
          ELSE /\ tx' = [tx EXCEPT ![c] = IF i < Len(Entry(c).postings)
                                          THEN [locked EXCEPT !.checked = i]
                                          ELSE NextEntry(done, answer)]
               /\ UNCHANGED <<setup, db, lock, pass, next_xid, begun, answers, commits>>

\* In inline mode the accumulator is stored with the rows it covers.
Commit(c) ==
    /\ tx[c].pc = "commit"
    /\ db' = IF Inline THEN store_accumulator(db, tx[c].acc) ELSE db
    /\ commits' = commits \o tx[c].mine
    /\ answers' = answers \cup Range(tx[c].out)
    /\ tx' = [tx EXCEPT ![c] = Idle]
    /\ lock' = Release(c)
    /\ UNCHANGED <<setup, pass, next_xid, begun>>

\* The connection drops, or the caller gives up.
Lose(c) ==
    /\ Setups[setup].losses
    /\ tx[c].pc # "idle"
    /\ Rollback(c)

\* A cycle of waits between transactions: the database aborts one of them.
Waiting == [c, d \in Clients |-> c # d /\ d \in WaitsFor(c)]

DeadlockVictim(c) == TransitiveClosure(Waiting, Clients)[c, c] /\ Rollback(c)

-----------------------------------------------------------------------------
(***************************************************************************)
(* sequence, in deferred mode: one pass at a time, over the rows of        *)
(* transactions that have all finished, in the order of their identifiers. *)
(***************************************************************************)
\* insert_xid < pg_snapshot_xmin(...), against skipping past a running writer.
Settled_HighWater(id) ==
    \A other \in Placed(db) : db.entries[other].insert_xid < db.entries[id].insert_xid

Settled(id) == db.entries[id].insert_xid < snapshot_xmin

Unplaced == {id \in DOMAIN Committed.entries : db.entries[id].log_index = Null /\ Settled(id)}

XidOrder(a, b) ==
    \/ db.entries[a].insert_xid < db.entries[b].insert_xid
    \/ db.entries[a].insert_xid = db.entries[b].insert_xid /\ a < b

ReadPass(s) ==
    /\ ~Inline
    /\ lock = None
    /\ Unplaced # {}
    /\ lock' = s
    /\ pass' \in [1..Cardinality(Unplaced) -> Unplaced]
    /\ Range(pass') = Unplaced
    /\ \A m, n \in DOMAIN pass' : m < n => XidOrder(pass'[m], pass'[n])
    /\ UNCHANGED <<setup, db, tx, next_xid, begun, answers, commits>>

sequence_OldAccumulator(t, ids) ==
    LET next == next_index(t)
        acc  == accumulator(t).leaves \o [n \in DOMAIN ids |-> t.entries[ids[n]].content_hash]
        at(id) == next - 1 + CHOOSE n \in DOMAIN ids : ids[n] = id
    IN [t EXCEPT
          !.entries = [id \in DOMAIN @ |->
                         IF id \in Range(ids)
                         THEN [@[id] EXCEPT !.log_index = at(id), !.tree_root = SubSeq(acc, 1, at(id))]
                         ELSE @[id]]]

sequence(t, ids) ==
    LET next == next_index(t)
        acc  == accumulator(t).leaves \o [n \in DOMAIN ids |-> t.entries[ids[n]].content_hash]
        at(id) == next - 1 + CHOOSE n \in DOMAIN ids : ids[n] = id
    IN [t EXCEPT
          !.log_subtrees = acc,
          !.entries = [id \in DOMAIN @ |->
                         IF id \in Range(ids)
                         THEN [@[id] EXCEPT !.log_index = at(id), !.tree_root = SubSeq(acc, 1, at(id))]
                         ELSE @[id]]]

\* An accumulator that does not cover the placed rows is refused.
PlacePass(s) ==
    /\ lock = s
    /\ accumulator(Committed).ok
    /\ db' = sequence(db, pass)
    /\ lock' = None
    /\ pass' = <<>>
    /\ UNCHANGED <<setup, tx, next_xid, begun, answers, commits>>

\* The pass fails: nothing it did is kept.
LosePass(s) ==
    /\ Setups[setup].losses
    /\ lock = s
    /\ lock' = None
    /\ pass' = <<>>
    /\ UNCHANGED <<setup, db, tx, next_xid, begun, answers, commits>>

\* register_account updates the row: it waits for a FOR UPDATE, not for a share.
RegisterAccount(record) ==
    /\ \A c \in Clients : record.id \notin tx[c].update
    /\ CanRegisterAccount(db, record)
    /\ db' = register_account(db, record)
    /\ UNCHANGED <<setup, tx, lock, pass, next_xid, begun, answers, commits>>

-----------------------------------------------------------------------------
Step(c) ==
    \/ TakeLock(c)
    \/ CheckId(c)
    \/ CheckReversal(c)
    \/ AssignXid(c)
    \/ InsertEntry(c)
    \/ InsertPosting(c)
    \/ CheckLimit(c)
    \/ Commit(c)
    \/ DeadlockVictim(c)

SequencerStep(s) == ReadPass(s) \/ PlacePass(s)

Next ==
    \/ \E c \in Clients, batch \in Setups[setup].batches : Begin(c, batch)
    \/ \E c \in Clients : Step(c) \/ Lose(c)
    \/ \E s \in Sequencers : SequencerStep(s) \/ LosePass(s)
    \/ \E record \in Setups[setup].records : RegisterAccount(record)

Spec == Init /\ [][Next]_vars

\* Statements return, whoever has to abort for it; sequencing passes are run
\* again and again, and not every one of them loses its connection.  Nothing
\* obliges a client to begin an append or to change an account.
Fairness ==
    /\ \A c \in Clients : WF_vars(Step(c))
    /\ \A s \in Sequencers : /\ SF_vars(ReadPass(s))
                             /\ SF_vars(PlacePass(s))

LiveSpec == Spec /\ Fairness

-----------------------------------------------------------------------------
\* Every reader is told the same log: positions are dense, each row's root is
\* that of the prefix it ends, and the stored accumulator covers exactly the
\* placed rows, so that the next append or pass can go on from it.
LogExact ==
    LET log == leaves(Committed) IN
    /\ log.ok
    /\ accumulator(Committed) = [ok |-> TRUE, leaves |-> log.leaves]
    /\ \A n \in 0..Len(log.leaves) : sql_head_at(Committed, n) = SubSeq(log.leaves, 1, n)

\* What a client was told stays true: the entry is there with that content, and
\* at the position named, if one was.
AnswersStand ==
    \A a \in answers :
        /\ a.id \in DOMAIN Committed.entries
        /\ Committed.entries[a.id].content_hash = a.content_hash
        /\ a.index # Null => Committed.entries[a.id].log_index = a.index

\* The order of the log is final.  Inline, it is the order of the commits; deferred,
\* the sequencer passes nobody over, and a placed row comes before every row that
\* is not placed yet, the ones of running transactions included.
OrderIsFinal ==
    IF Inline THEN PlacedInOrder(Committed) = SubSeq(commits, 1, sql_len(Committed))
    ELSE \A a \in Placed(db), b \in DOMAIN db.entries \ Placed(db) : XidOrder(a, b)

\* Appends that each stay within a limit never break it together.
LimitsStand ==
    \A k \in DOMAIN Committed.postings :
        check_limits(Committed, row_key(db.postings[k]))

\* An entry is reversed at most once, by its exact inversion, however many
\* clients try at the same time.
ReversedOnce ==
    \A id \in DOMAIN Committed.entries :
        LET row == Committed.entries[id] IN
        row.reverses # None =>
            /\ row.reverses \in DOMAIN Committed.entries
            /\ ReversalOf(Committed, row.reverses) = {id}
            /\ Committed.entries[row.reverses].reverses = None
            /\ is_inversion_of(draft_from(Committed, row.reverses), draft_from(Committed, id))

\* Every append ends, in a commit or in an error.
AppendsEnd == \A c \in Clients : tx[c].pc # "idle" ~> tx[c].pc = "idle"

\* Every durable entry gets its position.
EventuallyPlaced ==
    \A e \in Submitted :
        e.id \in DOMAIN Committed.entries ~> e.id \in Placed(Committed)
=============================================================================
