# A TLA+ model of doubleentry

[doubleentry](https://github.com/hupe1980/doubleentry) is an embeddable double-entry ledger engine in Rust.
A caller builds drafts of entries, the engine validates and appends them to a
log, derives balances, statements and open items from it, and closes accounting
periods with seals that commit to what was in the books.  The same contract is
implemented in memory, on PostgreSQL and on SQLite, and sealed periods can be
archived to an Iceberg table.  This directory holds a formal model of all of it:
TLA+ modules translated from `src/src/*.rs`, TLC configurations that check them
on small instances, and theorems whose proofs TLAPS checks for every value of
the constants.

`PROJECT.json` is the index: the components, the runs, which source lines each
definition stands for, one deliberate bug (mutant) for every checked property,
the hazards of the code, the finding and the theorems.

## 1. Inventory of the system

| Component (source) | State it keeps | Operations that change it | What makes it correct |
| --- | --- | --- | --- |
| Accounting periods (`period.rs`) | periods by id, ids by start date, the sealed-through watermark | `define`, `ensure`, `transition`, `from_periods` | periods never share a date, the lookup by start date is exact, a sealed date never reopens, a restart rebuilds the same calendar |
| Account registry (`account.rs`) | accounts by handle, handle by path, number of descendants | `register`, `close`, `reopen`, `set_limit`, `restore`, `from_records` | path and handle name each other, leaf status is exact in any order of registration, a handle is never repointed |
| Balances, postings (`balance.rs`, `posting.rs`) | none (values) | none | gross totals, sides, inversion |
| Entries (`entry.rs`) | none (values) | `Entry::seal`, `reverse` | only a balanced entry on open leaf accounts in an open period becomes a witness |
| Journal (`journal.rs`) | entries, log, index by id and by idempotency key, reversal links, posting sites, balances, seals, clearings | `record`, `record_batch` (and `rollback_to`), `accounts_mut`, `define_period`, `transition_period`, `seal_period`, `clear`, `reset_clearing` | everything derived is what the entries say, a batch is atomic, a retry changes nothing |
| Seals (`seal.rs`) | the chain | `SealChain::push` | each link holds, nothing sealed is restated |
| Clearing register (`clearing.rs`) | events, applied amounts, reset dates | `clear`, `reset` | applied amounts are a replay of the events, open items add up to the balance |
| Closing entries (`closing.rs`) | none | none | a closing moves exactly what it read |
| Checkpoints (`checkpoint.rs`) | the saved checkpoint of a balance | save | verifies however much the log has grown |
| Storage contract, in-memory store (`storage.rs`) | a journal behind a lock | the contract's calls, one lock each | what holds for a journal holds for several clients |
| PostgreSQL store (`storage/postgres.rs`) | tables, row locks, an advisory lock | transactions, a sequencer that places entries later | dense log, limits, uniqueness and seals under concurrency |
| SQLite store (`storage/sqlite.rs`) | tables in one file | transactions, one writer at a time | answers as the journal does |
| Conformance suite (`storage/conformance.rs`) | a report | runs its checks on a store | honest stores pass, broken ones do not, it ends |
| Cold tier (`storage/iceberg.rs`) | data files, snapshots | `compact` | the archive is the log, once, and proves itself |
| Merkle log (`merkle.rs`) | subtree stack | `push`, `truncate` | same root as the recursive definition, proofs verify |
| Amounts, encoding, hashing, labels, dimensions, serde | none | none | not modelled (section 7) |

How they interact: the journal owns an account registry, a calendar, a chain and
a clearing register, and every call on it takes `&mut self`, so within a journal
nothing interleaves.  What is hard there is *long sequences of legal calls*: a
batch that fails half-way and must be undone from seven structures, a period
defined late below the watermark, an identifier or a key used again, a reversal
of something already reversed, an account that changes between a seal and the
proof of it.  Concurrency appears at the store: a client validates a batch in
one call and appends it in another, redelivers what it got no answer for, and
reads with several calls what the journal would answer in one.  The SQL stores
add transactions, row locks, lost connections and a deferred sequencer, and
many of their calls read in several statements before they write.

The list of what is hard to test, each with its line and with the properties
that cover it, is `hazards` in `PROJECT.json`.

## 2. Modules

Operators first, state machines on top of them; nothing in the operator modules
has a variable, so that journal, stores and proofs share one translation.

| Module | Models | Kind |
| --- | --- | --- |
| `Values` | dates, ordered maps | operators |
| `Periods`, `Accounts`, `Entries`, `Books`, `Seals`, `Clearings`, `Closing` | the types of `period.rs`, `account.rs`, `entry.rs` with `balance.rs` and `posting.rs`, `journal.rs`, `seal.rs`, `clearing.rs`, `closing.rs`: each method an operator on a value | operators |
| `Paging` | cursors, statements and the pages the in-memory store cuts | operators |
| `SqlTables` | the PostgreSQL tables, every query and every write of the store as an operator on them | operators |
| `SqliteTables`, `SqliteQueries` | the same for SQLite: rows and appends, then everything else | operators |
| `Merkle` | tree hash, subtree stack, both proofs and verifiers | operators (recursive) |
| `Backends` | the storage contract: every call, answered by the in-memory, PostgreSQL or SQLite operators | operators |
| `FaultyBackends` | the same calls on stores with one of 21 defects | operators |
| `PeriodCalendar`, `AccountRegistry` | the life of one calendar, of one registry | specifications |
| `Journal` | a whole journal | specification, composes the operators |
| `MemoryStore` | clients of an in-memory store | specification, extends `Journal` with clearings, closings and clients |
| `PostgresLog` | appends and sequencing passes, statement by statement | specification |
| `PostgresSeals` | periods, seals and proofs of sealed balances while entries arrive | specification |
| `PostgresReaders` | pages, clearings and checkpoints while entries arrive | specification |
| `SqliteStore` | processes that share a file | specification |
| `Conformance` | the suite: every check a script of calls | specification over `FaultyBackends` |
| `ColdTier` | compaction of a SQL store | specification |
| `MerkleLog` | a log that grows, drops batches, is archived and rewritten | specification |
| `SealedBooks` | the abstract promise about sealed periods | abstract specification |
| `Folding` | induction over the naturals, what a fold over a sequence and one over a set compute | proofs, instantiated once per fold |
| `BooksLemmas` | what the operators of `Periods`, `Accounts` and `Books` do, for every argument, and numberings of finite sets | proofs |
| `MasterDataProofs` | `PeriodCalendar`, `AccountRegistry` and `SealedBooks` | proofs |
| `JournalProofs`, `ClearingProofs` | `Journal` and `MemoryStore`; the clearing register of `MemoryStore` | proofs |
| `PostgresLogProofs`, `PostgresSealsProofs`, `PostgresReadersProofs` | the specifications of those names | proofs |
| `MC*` | | instances for TLC |

### Conventions

* A Rust method that changes a structure is an operator from the old value to the
  new one (`define`, `register`, `clear`), and the conditions under which it does
  not return an error are a predicate (`CanDefine`, `CanRegister`, `CanClear`).
  A call that returns an error leaves its structure as it was and is no step.
  Where the code does change something before it fails (`record_batch` applies
  entries one by one and then rolls back), the operator does it too.
* A date is a positive number and 0 is `None`; a `BTreeMap` is a function on its
  keys; a handle or a log index counts from 1 where the code counts from 0.
* A hash is collision free, hence the content it covers: the log is the sequence
  of content hashes, a tree head the sequence of leaves it commits to.  In
  `Merkle`, where the tree is the subject, a hash is the term it was computed
  from, so that two hashes are equal only if they were made alike.
* An account path is a sequence of numbers ordered lexicographically, as the
  derived `Ord` of the segments orders it.
* Amounts are naturals up to `MaxMinor`, the largest `i64` of the instance; a
  sum beyond it is the overflow error of the code.
* SQL columns are values of their own: `direction_str`, `limit_code`,
  `entry_row` write them and `build_posting`, `limit_from_code`,
  `build_stored_entry` read them back and compare the hash.
* The policy of a ledger is a constant.
* Names ending in `_Something` (`reset_KeepsApplied`) are the mutants: plausible
  bugs that only the mutation runs use.
* **Setups.**  A store is opened in several ways (sequencing mode, who is at
  work, what they submit).  Where one specification covers several, they are a
  constant record `Setups`, one of which `Init` chooses into the variable
  `setup`; it never changes, so a run explores each way as if it had its own.
  A property that holds only in some of them says so in its antecedent.

### State and actions

`Journal`.  `accounts`, `calendar`, `books` and `seals` are the fields of the
struct; `books` groups `entries`, `log`, `by_id`, `by_key`, `reversed_by`, `sites`
and `balances`.  One action per public method: `Record`, `RecordBatch`,
`RegisterAccount`, `CloseAccount`, `ReopenAccount`, `SetLimit` (the four through
`accounts_mut`), `DefinePeriod`, `TransitionPeriod`, `SealPeriod`.

`MemoryStore` adds clients that hold a batch (`Validate` or `PrepareClosing`, then
`Append_` at any later time, any number of times), `Clear`, `ResetClearing` and
the store's own `StoreAccount`, `StorePeriod`, `MovePeriod`, `StoreSeal`.

`PostgresLog`.  A connection runs `append` as the statements of `append_one`:
`Begin`, `TakeLock` (inline mode), `CheckId`, `CheckReversal`, `CheckLimit` (one
per limited account, `FOR UPDATE`), `InsertEntry`, `Replay`, `InsertPosting`,
`NextEntry`, `Commit`.  Each sees committed rows and its own (READ COMMITTED); each
waits where PostgreSQL makes it wait; `DeadlockVictim` aborts one of a cycle of
waits; `Lose` ends a connection anywhere.  A sequencing pass is `ReadPass` and
`PlacePass`.  A pass reads the settled rows that have no position, in the order of
`insert_xid` and identifier; `pass` is that enumeration.  `commits` and the field
`mine` of a transaction are histories: the rows in the order their transactions
committed, and the rows a transaction has inserted.  Locks, visibility and
deadlock detection are the database's and are marked external.

`PostgresSeals` and `PostgresReaders` take one step per query that runs outside a
transaction: six reads and a transaction for `seal_period`, a read and a blind
update for `transition_period`, four reads for `prove_sealed_balance`, two for a
page of a statement or of the log, one per item for `clear`.  In `PostgresSeals` a
client validates an entry (`Validate`) and sends it at any later time (`Book`).
`shut` and `firm` are histories, in `SqliteStore` too: the admins who seal, and the
sealed periods, for which no entry dated up to the end of the period could come
since the admin read the calendar.  An entry can come if the calendar accepts its
date, if a client holds it validated, or if it waits for the sequencer.

`SqliteStore`: a transaction is one step, since the file has one writer; opening
the file, defining, moving and sealing are several.  A batch is validated when it
is delivered or, where the setup has clients that delay, long before (`HoldBack`).
Beside it an in-memory journal is given the same batches, to compare with; it is
not given those the file refuses against its own rule (`RefusedRetry`, section 6).

`Conformance`: one step per call of a check and per turn of its loops, while
another transaction may be open on the database.

`ColdTier`: `Load`, `ReadPage`, `Verify` and `Commit` of a compaction, any of which
may be `Interrupted`, beside `AppendBatch`, `SealNext`, `Damage`, `Prune` and
`ForeignCommit`.

## 3. Runs

| Run | Shows | Instance |
| --- | --- | --- |
| `calendar` | lookup exact, calendar restorable from its rows in any order, sealed dates stay sealed | 3 periods over 5 dates, all ranges and states |
| `journal` | all that is derived from the entries exact after any batch or rollback, reversals net to nothing, limits hold, sealed balances prove for ever, the journal implements `SealedBooks` | a sale, its retries and conflicts, two layers, an overdraft, a reversal, a rival of it and a reversal of it; batches of two; 3 months of which the middle one is defined late; an account registered late |
| `store` | redelivery is a no-op, clearings are a replay, open items tell the balance, a closing closes what it read, accounts survive a restart | 2 clients, an invoice under two identifiers and in two layers, its payment, its reversal, a closing, 4 assignments |
| `store_stale_batch` | the finding of section 6 | as `store` |
| `pg_log` | dense log under the stored accumulator, no entry passed over and, inline, commit order; limits hold jointly; answers stand; one reversal | setups `rivals` and `corrections` (deferred), `inline` (with a late account); 2 clients, 2 sequencers, up to 4 transactions, lost connections |
| `pg_live` | appends end, committed entries are placed | setup `rivals`, 3 transactions |
| `pg_seals` | the chain links; a seal's parts are of its head or of beginnings of it, and of the head itself if nothing dated up to its end could come; only what came then makes a proof report a restatement | setups `two_admins`, `rivals` (who reopen what the other seals), `one_admin`, `gap` (a day in no period), all inline, and `deferred` (periods declared again); entries validated and sent later in each |
| `pg_readers` | pages and open items show every row once, no posting over-applied, checkpoints verify | setups `pages`, `items` (deferred), `clerks`, `checkpoints` (inline); page sizes 0, 1, 3 |
| `sqlite` | one ledger per file, deliveries and pages as the journal's, seals describe their head as in `pg_seals` | setups `appends` (retries under fresh and used identifiers, of a reversal too), `lists`, `calendar` (days in no period), `seals`, `rivals` (who reopen, and batches sent late) |
| `conformance` | four backends pass, 21 defects are caught, the report comes | every check of the suite, `SEQUENCING_ATTEMPTS` at its real value 512 |
| `cold_tier` | the archive is the log once, proves itself, refusals mean damage | 2 periods, 3 batches, pages of the log, one damaged row, with and without pruning |
| `merkle` | stack agrees with the tree, honest proofs verify, altered proofs and rewritten logs do not | 2 payloads; the stack at every size up to 9; proofs to and from heads archived at sizes up to 7; 5 leaves with a rewrite |

Bounds, and why they are enough:

* *Dates and periods* (`Dates`, `PeriodIds`).  A period touches at most a
  neighbour on each side; three periods and five dates give every arrangement of
  a period with two neighbours, a gap, and a gap below the watermark.
* *Drafts, batches, bookings*.  One per rule.  The log cannot grow beyond them,
  because keys are unique, so no further bound on it is needed.
* `MaxBatch = 2` in `journal`: a batch that fails at its last entry with one to
  undo, and a batch that holds a replay and a new entry.
* `MaxMinor = 2` in `journal` makes balances overflow within two deposits.
* `MaxXid` bounds the transactions of `pg_log`: four, so that a funding, two rival
  spendings and a retry happen; two of them run at a time.
* *Pages* of 0 (clamped to one), 1 and 3 rows over entries of two lines on the
  key: a page ends inside an entry, at its end and at the end of the log.
* *Leaves*.  Nine pass three powers of two and their neighbours, for the stack.
  A proof needs an archived head, and two of these are kept up to size seven; proofs
  are altered in every place at smaller sizes still, since altering multiplies.
* `Redeclare` is `FALSE` in `calendar`, because `RestoreExact` does not hold of a
  calendar declared again; that sealed dates stay sealed then too is the theorem
  `SealedDatesStaySealed`, and `store` runs with it.
* `MaxDamage = 1`: one lost or changed row must already show.
* Clients are symmetric in `store` and in no liveness run.

`CHECK_DEADLOCK FALSE` stands where a system may rest when everything submitted
is done.  `cold_tier` is checked for deadlock.

Fairness.  `pg_live` assumes weak fairness of each connection's next statement
(the database executes what it was sent, and a waiting statement is not enabled)
and strong fairness of `ReadPass` and `PlacePass` (the caller runs `sequence` again and
again; a pass is kept waiting by others' locks only now and then).  No fairness
makes a connection get lost or not, or a deadlock pick one victim rather than the
other.  `conformance` assumes only that the suite's own next step is taken
(`SuiteRuns`), nothing of the other transaction.  No other run assumes any: those
who call a ledger owe it nothing.

## 4. The abstract promise

`SealedBooks` says what sealing means and nothing else: the booking dates of the
log, the last frozen date (any, or none, when the books are opened), and per seal
the date it closed and the length of the log it closed over.  Entries may join only after the frozen date; the frozen date
moves forward only.  `Journal` refines it with `dates` the booking dates of the
entries, `frozen` the calendar's watermark and `seals` the ends and head sizes of
the chain (`KeepsSealedBooks`, checked by TLC in `journal` and proved for every
journal as `JournalKeepsSealedBooks`).  That nothing is then ever restated is the
theorem `SealsAreNeverRestated`.  The SQL stores are related
to the same operators otherwise: `AsBooks` reads a journal back from their tables,
and `DeliversLikeTheJournal`, `PagesAgree`, `PagesExact` and `SealsDescribeTheirHead`
compare with what `Books`, `Paging` and `Seals` say of it.

## 5. Proofs

For every value of the constants, from the assumptions that the modules name:

| Assumption | Says | Why the code justifies it |
| --- | --- | --- |
| `DatesArePositive`, `PathsAreSegmented`, `LimitsAreKnown`, `HandlesAreBounded`, `RedeclareIsBoolean` | what dates, paths, limits, handles are | types |
| `ChartIsTyped`, `PeriodsAreTyped`, `DraftsAreTyped`, `ClosedLayerIsALayer` | accounts, periods and drafts are values of their types, a draft has a key, an amount is any integer | types; nothing is said of whether a draft is valid |
| `ChartIsAccepted` | the accounts a ledger opens with have different paths and valid windows, and there are handles for them | `register` refuses any other, and then there is no ledger to speak of |
| `ActorsDiffer` | clients, sequencers and nobody are different holders of the lock | sessions |
| `DraftsAreNoClosings` | no draft of a client carries the description that marks closing entries in the model | the marker is the model's, not the code's |
| `AssignmentsAreTyped`, `ArrivalsAreTyped` | clearings, entries, accounts and records that arrive have the fields of their types; what PostgreSQL stores of a posting is not negative | types; an `Entry<Balanced>` holds positive amounts only, and the tables are given nothing else |
| `BatchesAreEntries` | a submitted batch is a non-empty sequence of entries with postings; an identifier is a number | `append` takes `Entry<Balanced>`, which `seal` gives only to drafts with postings; identifiers are compared with `<` by the sequencer |

TLC evaluates each on the instances.

**Induction.**  The library's induction theorems take a predicate and cannot be
instantiated by the installed provers, but its theorem on well-founded relations
takes a *set*: a non-empty set of naturals has a least element.  `Folding` derives
from it induction over the naturals with a set in place of the predicate, and from
that what `FoldLeft` computes: a fold is the last value of a *trace* that starts at
the base and applies the step to one element after another (`FoldTrace`,
`FoldAppend`, `FoldCongruent`).  The step is the module's only parameter, so each
fold of the model (trial balance, balance at a site, sites pushed, sites retained,
batch applied, batch replayed, accounts set up, records restored) is one instance.
A fold over a finite *set* has no order of its own: where the step may take two
elements in either order (`Commutes`), taking any element last gives the same
(`SetFoldRemove`), and steps that agree on the set give the same
(`SetFoldCongruent`).  The module knows nothing of the ledger; it holds lemmas,
on which the sums over clearings, accounts and rows rest.

**Calendar** (`MasterDataProofs`, over `BooksLemmas`).  The inductive
invariant is: well typed, indexed by start date, disjoint, and every sealed
period ends at or before the watermark.  Disjointness is not inductive alone,
since `define` compares the new period only with the two neighbours that the
index names: the lemmas show that with an exact index and disjoint periods,
two neighbours decide for all.  Every action is then shown to store one period
and mark the watermark with it, which is what the invariant and the action
properties need.  Results: `TypeCorrect`, `IndexIsExact`, `PeriodsAreDisjoint`,
`LookupIsExact`, `SealedDatesStaySealed` without restriction, a redeclared calendar
included; `WatermarkIsExact`, `RestoreIsExact` (the rows in any order rebuild the
calendar) and `SealedPeriodsAreTerminal` when no period is redeclared with a fresh
state (`~Redeclare`).

**Registry** (`MasterDataProofs`, over `BooksLemmas`).  The invariant adds to type, index and
counts that the index is finite, so that counts can be compared.  The heart is
`DescendantsContiguous`: in the lexicographic order the descendants of a path
form one run right after it, so the scan of `descendant_range`, which stops at
the first path outside the subtree, misses none (`ScanIsExact`), and a
registration changes the count of exactly its ancestors (`AncestorsAreAbove`,
`OneMoreBelow`).  Because the invariant determines index and counts from the list
of accounts, replaying the records handle by handle meets each prefix of the
registry again (`NextRecordRestores`), and ends in the registry itself.  Results:
`RegistryTypeCorrect`, `RegistryIndexIsExact`, `ChildCountIsExact`, `BindingsAreForever`,
`RecordsRestoreExactly`.

**Sealed books** (`MasterDataProofs`).  The invariant adds that every seal ends
at or before the frozen date and closed over no more than the log.

**Books** (`BooksLemmas`).  `BooksInv(b, E)` says that books hold entries of `E` and
that log, identifiers, keys, reversal links, sites and balances are each what the
entries say.  An append keeps it.  Two books that satisfy it, one continuing the
other, determine each other's derived state, which is why `rollback_to` can be
exact although it filters some structures and recomputes others:
`RollbackIsExact` gives back the earlier books value for value, and with it
`BatchIsAtomic`.  That a balance is recomputed from the sites alone is right
because the sites of a key list its postings in log order (`SitesExact`).

**Journal** (`JournalProofs`).  The inductive invariant joins

* `BooksInv` and `Reversals` (a reversal comes after the one entry it reverses and
  inverts it), for the indexes and for reversals;
* `PostsToHandles`: entries post to registered accounts, so that a seal's account
  list owns every row of its trial balance;
* a well-formed calendar whose sealed periods lie below the watermark, so that an
  entry `seal` accepts is dated after every sealed period;
* `Stands` for every seal: its period is below the watermark, its trial balance is
  the one *through that date* of the books as they are now, its accounts are a
  prefix of the registry.  The property speaks of the balance proofs one can build;
  only with the period below the watermark does the trial balance stay the same
  when entries are added, and only as a prefix do the bindings survive
  registrations.

Results: `DerivedStateIsExact` (`IndexesExact`), `EveryReversalNets`
(`ReversalsNet`), `LimitsAreRespected`, `SealedBalancesStayProvable`
(`SealedBalancesProve`), and the refinement `JournalKeepsSealedBooks`: a new journal
is new abstract books, a recording that adds entries is `Book`, a
definition or transition is `Freeze`, a seal is `SealThrough`, and all else stutters.

**In-memory store** (`JournalProofs`, last sections).  Any number of clients, each
holding a batch it validated against books that may since have changed, a closing
entry made of balances that have moved on included.  The invariant `StoreIInv` is
`BooksInv`, `Reversals` and the registry's invariant, and that what a client holds
is typed; it says *nothing* of whether a held batch still fits the books, since it
need not: `record_batch` checks again all that the books depend on.  What it does
not check again is the calendar, which is why the sealed balances are not among the
results (section 6).  Results: `RedeliveryChangesNothing` (`RedeliveryIsNoOp`, from
`RecordedBatchIsReplayed`: the idempotency rule comes before every other rule, so
that no later limit or reversal can turn a replay into a refusal),
`RestartIsExact` (`RestartExact`), `SharedBooksAreExact` (`IndexesExact` and
`ReversalsNet` for clients of a store) and `SharedLimitsAreRespected` (the same action
property as the journal's, under the limits that stand on arrival).

**Closings** (`JournalProofs`).  `ClosesWhatItRead` looks back: a closing entry on
the log zeroes the balance that was there when `closing_postings` read it, however
many rows were recorded before it was appended.  The invariant `ClosingIInv` says of
every closing a client still holds, and of every one on the log, which books it
read (a prefix of today's) and that its postings are the inverse of that prefix,
account by account.  It needs the sites: what a closing reads is a balance
recomputed from them.  Result: `ClosingsCloseWhatTheyRead`.

**Clearing register** (`ClearingProofs`).  `RegisterInv`: the amounts the register
keeps are sums over the events that stand, each of which names every posting once
(`AppliedAmountsReplay`, from `SetFoldRemove`).  `OpenInv` joins the register to the
books: every clearing names postings of the log, on one key, with as much on
either side, and no posting has given more than it has.  The last part is what `clear`
checks and `reset` may only loosen.  Then what has been applied cancels on every key
and the open items add up to the balance (`OpenItemsTell`).

**PostgreSQL log** (`PostgresLogProofs`).  For any number of clients and
sequencers, any batches, in both sequencing modes, with every statement a step and
every loss of a connection.  The inductive invariant:

* `Types`, with where a transaction may be in its batch (`Staged`);
* `Identifiers`: no transaction identifier is given twice, none is as great as the
  next one;
* `Written`: every row has all the postings of the entry it was hashed from, but
  for the row a client is writing, which has the first `posted` of them.  Needed
  because `check_reversal` compares with postings read back from the tables: what
  it sees must be whole, and what is not whole belongs to a running transaction;
* `ReversalsInv`: at most one row reverses an entry, *uncommitted rows included*,
  and the transaction that inserted it sees the entry.  Stated of committed rows
  alone it would not be inductive; the waiting of `INSERT` on a running
  transaction's key (`InsertIsFree`) is what keeps it;
* `AnswersInv`: every answer, those a transaction has not yet given included, is
  right for whoever sees the row;
* `Order`.  Deferred: the placed rows are a dense log under the stored subtrees,
  their identifiers are below every running transaction's, and they come before
  every row that waits, *committed or not*; a pass under way holds the first of the
  rows that wait.  That `pg_snapshot_xmin` bounds what a pass may take is exactly
  what makes this inductive: a row that appears later has an identifier at or above
  it.  Inline: only the holder of the advisory lock has uncommitted rows, and they
  continue the log its accumulator started from.

Results: `AnswersAlwaysStand`, `EntriesAreReversedOnce`, `LogOrderIsFinal`, `LogIsExact`,
each a property that `pg_log` checks, and the action property `LogOnlyGrows`.  The
parts of the invariant were checked by TLC on the instance of `pg_log` before they
were proved.

**PostgreSQL seals** (`PostgresSealsProofs`).  Any number of admins, each of whom
reads the chain, the head and the accounts in queries of their own and inserts a
seal later, in both sequencing modes.  That the stored chain verifies is not
inductive: what is inserted was read at three different times.  The invariant adds
that the placed rows are a dense log, that the chain positions number the seals, that
no seal covers more leaves or accounts than there are, and, of every admin in
between, that the chain it has read is a *beginning* of the stored one and that the
head and the accounts it read *after* it cover what the seals of that beginning
cover.  What clients hold are entries of the setup, whenever they send them.  The
order of the reads is what makes this hold: with the head read before the
chain it would not.  When the seal is inserted, the unique constraint on the position
leaves only the case that the beginning is the whole.  Result: `StoredChainVerifies`
(`ChainVerifies`).

**PostgreSQL clerks** (`PostgresReadersProofs`).  Any number of clerks, entries and
clearings.  `clear` reads the open amounts of its postings one after another and
writes at the end; entries are recorded meanwhile (deferred) and clearings released
without the lock.  The invariant says that at most one clerk is at work, that its
clearing is not on record, and that every item it has checked *still* has room:
nothing another actor does under these locks applies anything more
(`RoomStays`, `Easing`).  When the last item is checked, what the clearing applies
to any posting is one of its items and so fits (`PartsFit`).  Result:
`AppliedStaysWithin` (`NeverOverApplied`).

Only model-checked, and why:

* liveness (`AppendsEnd`, `EventuallyPlaced`, `ReportComes`): not in the prover;
* the Merkle tree (`StackAgrees`, `HonestProofsVerify`, `RewritesShow`), whose operators
  are recursive;
* `LimitsStand` of `PostgresLog`: not inductive for all constants, since
  `register_account` may tighten a limit below the balance an account has; the
  instance registers none that does;
* `DeliversLikeTheJournal` of `SqliteStore`: it needs assumptions that name every value
  the columns can represent (a memo with no field set, say, is read back as none),
  and the relation of rows to the journal that the next item needs too;
* `SealsDescribeTheirHead` (both stores), `NoFalseAlarm`, `PagesExact`, `PagesAgree`,
  `OpenItemsComplete`, `CheckpointsVerify` and `OneLedger`: they compare rows read back through `SelectSeq`, `Take`
  and `GROUP BY` with folds of the journal; the lemmas that relate `AsBooks` to the
  tables row by row are not there yet;
* the cold tier and the conformance suite, which rest on all of these.

## 6. Where code and documentation part

`store_stale_batch` is kept as a run that is expected to fail.  `append` applies a
validated batch without asking the calendar again: a batch validated before a
period is sealed and appended afterwards lands in the sealed period, whose
balance can then no longer be proven.

The others were met while modelling.  Where the instances reach one of them, the
property says so in its antecedent or states what the code does instead; each can
be seen as the last column says.

| Where | What the code does | What is written | To see it |
| --- | --- | --- | --- |
| `period.rs:406`, `postgres.rs:1417` | declaring a calendar afresh overwrites the stored state, a sealed period included; in memory the watermark still refuses its dates | `storage.rs:451` "a no-op, so a caller may declare its calendar on every start-up" | `SealedIsTerminal` with `Redeclare = TRUE` |
| `postgres.rs:1189` | the deferred sequencer orders by transaction identifier, which is not commit order | `storage.rs:241` "with no gaps, in commit order" | the inline branch of `OrderIsFinal` in every setup of `pg_log` |
| `postgres.rs:756` | `check_limits` takes a row lock in deferred mode too; two appends may wait for each other until one is aborted | `postgres.rs:241` "never block each other" | `Waiting` in `pg_live`'s setup |
| `sqlite.rs:468`, `postgres.rs:601` | a reversal that is retried under a fresh identifier is refused, for the original is reversed by now, by that very entry; under its own identifier it is exempt (`sqlite.rs:420`, `postgres.rs:823`) and replayed.  The in-memory journal replays both (`journal.rs:464`) | `storage.rs:235` "a no-op returning the original outcome" | `RefusedRetry` in the setup `appends` of `sqlite`: `DeliversLikeTheJournal` says that the file refuses it |
| `sqlite.rs:456`, `postgres.rs:588` | so is a retry under an identifier that another entry bears, which the journal replays | as above | as above |
| `postgres.rs:1525`, `sqlite.rs:1315` | what comes between the queries of `seal_period` and is dated up to the end of its period is under the head and not in the closing balance: on a day before it that no period covers; after another admin has reopened the period; validated before it was closed and sent now; or, deferred, placed only now.  `prove_sealed_balance` reports all of these, and what comes between the head and the insert, as a restatement | `periods-and-seals.md:19` "a set that can no longer grow underneath it" | `SealsDescribeTheirHead` and `NoFalseAlarm` without `firm`: each setup of `pg_seals` with a prover breaks both, and `calendar` and `rivals` of `sqlite` break the first |
| `postgres.rs:1440` | a checked transition is written by identifier alone: Closing to Open may overwrite Sealed | `periods-and-seals.md:21` "**Sealed** is terminal" | `transition_period` after `InsertSeal` in the setup `rivals`: the period leaves `firm` |
| `sqlite.rs:1240` | two processes may define overlapping periods at once, after which no calendar is read | `sqlite.rs:1237` "checked here against everything already stored" | two admins in the setup `calendar` |
| `sqlite.rs:372` | after archived rows are dropped every append is refused: the stored subtrees do not fit the number of rows | `storage.rs:227` "may still prune a prefix that has been archived" | `RefusalMeansDamage` without `~prunes` |
| `conformance.rs:1771` | a deferred store fails a check while any other transaction stays open | `conformance.rs:84` "*eventually* complete" | `Conforms` without `~store.held` |
| `closing.rs:117` | closing postings carry no dimensions and are refused under a policy that requires an axis | `closing.rs:48` "sealing it succeeds unless something else about the draft is wrong" | a policy with `required_dimensions` in `store`: `PrepareClosing` never happens |
| `journal.rs:916` | `verify_balanced` wants each layer to balance, `Entry::seal` only each currency | `journal.rs:905` "this must hold" | by reading; the `Settlement` draft of `journal` is such an entry |
| `money.rs:414` | `Amount::MIN` is displayed as a literal that `parse` refuses | `lib.rs:70` "values round-trip" | by reading |

## 7. Not modelled

`PROJECT.json` lists every component with its status.  Left out:

* byte layouts of the canonical encoding and SHA-256 (a hash is its content);
* amount arithmetic beyond bounded sums (`distribute`, `allocate`, `parse`,
  `Display`): pure functions of one number, without state;
* parsing and validation of labels, serde, error texts, and the list of
  violations an invalid entry collects (only whether there is one matters);
* connection pools and migrations of the SQL stores; the Iceberg catalog, of which
  only what `compact` relies on is modelled, one compaction at a time;
* balance assertions and `verify_balanced`, which compare and change nothing;
* a changed policy: it is a constant.

## 8. Plan

1. `AsBooks` related to the tables row by row (entries, log, sites); with it
   `CheckpointsVerify` and the page of the log in `PagesExact`.
2. Statement pages: `SelectSeq` and `Take` over rows in order.
3. `SqliteStore.OneLedger`, and its appends related to `Books` by the lemmas that are
   there.

## 9. Running it

    tlc -config journal.cfg MCJournal
    tlapm MasterDataProofs.tla

and so on for each pair of `module` and `cfg` under `runs`.  The longest run, `store`,
takes about three minutes with two workers.
