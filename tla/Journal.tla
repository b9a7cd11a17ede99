------------------------------ MODULE Journal -------------------------------
(***************************************************************************)
(* One journal: accounts, calendar, books and seals, and the operations    *)
(* that change them (src/journal.rs).  Every operation takes &mut self, so *)
(* each is one step; a refused one changes nothing.                        *)
(***************************************************************************)
EXTENDS Seals

CONSTANTS
    Chart,          \* the accounts registered when the journal is set up
    PeriodTable,    \* the periods it is set up with
    Drafts,         \* the drafts callers submit
    NewAccounts,    \* the accounts that may be registered later
    NewPeriods,     \* the periods that may be defined later
    Managed,        \* the handles that are closed, reopened and limited
    ClosingDates,   \* the dates an account may be closed on
    MaxBatch        \* the longest batch

ASSUME BatchBound == MaxBatch \in Nat \ {0}
ASSUME ClosingDatesAreDates == ClosingDates \subseteq Dates
ASSUME ChartIsTyped == Chart \in Seq(Account) /\ NewAccounts \subseteq Account
ASSUME ChartIsAccepted ==
    /\ Len(Chart) <= MaxAccounts
    /\ \A i, j \in DOMAIN Chart : Chart[i].path = Chart[j].path => i = j
    /\ \A i \in DOMAIN Chart : WindowIsValid(Chart[i])
ASSUME PeriodsAreTyped == PeriodTable \in Seq(Period) /\ NewPeriods \subseteq Period
ASSUME DraftsAreTyped ==
    \A d \in Drafts : /\ d.postings \in Seq(Posting) /\ d.booking_date \in Dates
                      /\ "key" \in DOMAIN d

VARIABLES accounts, calendar, books, seals

vars == <<accounts, calendar, books, seals>>

Init ==
    /\ accounts = FoldLeft(register, AccountRegistry_new, Chart)
    /\ calendar = from_periods(PeriodTable).calendar
    /\ books = Books_new
    /\ seals = <<>>

-----------------------------------------------------------------------------
(***************************************************************************)
(* Recording.                                                              *)
(***************************************************************************)
Record(draft) ==
    /\ CanRecord(books, accounts, calendar, draft)
    /\ books' = record_validated(books, accounts, draft)
    /\ UNCHANGED <<accounts, calendar, seals>>

Batches == UNION {[1..n -> Drafts] : n \in 1..MaxBatch}

\* A batch holds witnesses: entries that Entry::seal accepted in this context.
IsWitnessed(batch) ==
    \A i \in DOMAIN batch : seal(accounts, calendar, batch[i])

\* Applied whole or not at all.
RecordBatch(batch) ==
    /\ IsWitnessed(batch)
    /\ books' = record_batch(books, accounts, batch)
    /\ UNCHANGED <<accounts, calendar, seals>>

-----------------------------------------------------------------------------
(***************************************************************************)
(* Master data, through accounts_mut.                                      *)
(***************************************************************************)
RegisterAccount(account) ==
    /\ CanRegister(accounts, account)
    /\ accounts' = register(accounts, account)
    /\ UNCHANGED <<calendar, books, seals>>

CloseAccount(id, on) ==
    /\ CanClose(accounts, id, on)
    /\ accounts' = close(accounts, id, on)
    /\ UNCHANGED <<calendar, books, seals>>

ReopenAccount(id) ==
    /\ id \in Handles(accounts)
    /\ accounts' = reopen(accounts, id)
    /\ UNCHANGED <<calendar, books, seals>>

SetLimit(id, limit) ==
    /\ id \in Handles(accounts)
    /\ accounts' = set_limit(accounts, id, limit)
    /\ UNCHANGED <<calendar, books, seals>>

-----------------------------------------------------------------------------
(***************************************************************************)
(* Periods.                                                                *)
(***************************************************************************)
DefinePeriod(p) ==
    /\ CanDefine(calendar, p)
    /\ calendar' = define(calendar, p)
    /\ UNCHANGED <<accounts, books, seals>>

\* A bare transition: nothing keeps it from moving a period to Sealed.
TransitionPeriod(id, to) ==
    /\ CanTransition(calendar, id, to)
    /\ calendar' = transition(calendar, id, to)
    /\ UNCHANGED <<accounts, books, seals>>

\* The chain first, then the calendar: a seal the chain refuses moves nothing.
SealPeriod(id) ==
    /\ check_sealable(calendar, id)
    /\ LET sealed == seal_of(books, accounts, calendar, seals, id) IN
          /\ check_link(seals, sealed)
          /\ seals' = Append(seals, sealed)
    /\ calendar' = transition(calendar, id, "Sealed")
    /\ UNCHANGED <<accounts, books>>

Next ==
    \/ \E draft \in Drafts : Record(draft)
    \/ \E batch \in Batches : RecordBatch(batch)
    \/ \E account \in NewAccounts : RegisterAccount(account)
    \/ \E id \in Managed, on \in ClosingDates : CloseAccount(id, on)
    \/ \E id \in Managed : ReopenAccount(id)
    \/ \E id \in Managed, limit \in Limits : SetLimit(id, limit)
    \/ \E p \in NewPeriods : DefinePeriod(p)
    \/ \E id \in PeriodIds, to \in PeriodState : TransitionPeriod(id, to)
    \/ \E id \in PeriodIds : SealPeriod(id)

Spec == Init /\ [][Next]_vars

-----------------------------------------------------------------------------
(***************************************************************************)
(* Properties of the books.                                                *)
(***************************************************************************)
EntryIndices == DOMAIN books.entries

\* Everything derived from the entries is exactly what they say: the log, the
\* two indexes, with no identifier and no idempotency key used twice, the
\* reversal links, the sites in log order, and the balances, of which the ones
\* as of an earlier size, read through the sites, are the fold of that prefix.
\* record_validated maintains it entry by entry and rollback_to takes it back.
IndexesExact ==
    /\ verify_log(books)
    /\ DOMAIN books.by_id = {books.entries[i].id : i \in EntryIndices}
    /\ \A i \in EntryIndices : books.by_id[books.entries[i].id] = i
    /\ DOMAIN books.by_key = {books.entries[i].key : i \in EntryIndices}
    /\ \A i \in EntryIndices :
          books.by_key[books.entries[i].key] =
              [id |-> books.entries[i].id, index |-> i, content_hash |-> books.log[i]]
    /\ DOMAIN books.reversed_by =
          {books.entries[i].reverses : i \in EntryIndices} \ {None}
    /\ \A key \in DOMAIN books.sites :
          /\ books.sites[key] # <<>>
          /\ {books.sites[key][n] : n \in DOMAIN books.sites[key]} =
                {s \in [index : EntryIndices, posting : 1..MaxPostings] :
                    /\ s.posting \in DOMAIN books.entries[s.index].postings
                    /\ key_of(resolve(books, s)) = key}
          /\ \A m, n \in DOMAIN books.sites[key] : m < n =>
                \/ books.sites[key][m].index < books.sites[key][n].index
                \/ /\ books.sites[key][m].index = books.sites[key][n].index
                   /\ books.sites[key][m].posting < books.sites[key][n].posting
    /\ verify_balances(books)
    /\ DOMAIN books.balances = DOMAIN books.sites
    /\ \A size \in 0..Len(books.entries), key \in DOMAIN books.balances :
          balance_at(books, key, size) =
              get_or_zero(TrialBalanceOf(SubSeq(books.entries, 1, size)), key)

\* A reversal comes after the entry it reverses, is the only one of it, reverses
\* no reversal, and nets with it to nothing on every key the two touch.
ReversalsNet ==
    \A i \in EntryIndices : LET e == books.entries[i] IN
        e.reverses # None =>
            \E o \in 1..(i - 1) :
                /\ books.entries[o].id = e.reverses
                /\ books.entries[o].reverses = None
                /\ books.reversed_by[e.reverses] = e.id
                /\ \A j \in EntryIndices :
                      books.entries[j].reverses = e.reverses => j = i
                /\ LET both == TrialBalanceOf(<<books.entries[o], e>>) IN
                      \A key \in DOMAIN both : is_balanced(both[key])

\* What the step moves ends on the side its account's limit permits.
MovesWithinLimits ==
    \A key \in DOMAIN books'.balances :
        books'.balances[key] # get_or_zero(books.balances, key) =>
            permits(limit_of(accounts, key.account), books'.balances[key])

\* Whatever is recorded leaves every balance it moved on the side its account's
\* limit permits, at the end of a batch too; a balance that breaches a limit set
\* afterwards stays where it is until an entry brings it back.
LimitsRespected ==
    [][MovesWithinLimits]_vars

-----------------------------------------------------------------------------
(***************************************************************************)
(* Properties of the seals.                                                *)
(***************************************************************************)
SealedEnd(i) == calendar.periods[seals[i].period].end

\* A sealed closing balance can be proven for ever: the books still reproduce
\* the trial balance each seal recorded and the handles it names are bound as
\* they were, so prove_sealed_balance never reports a restatement.
SealedBalancesProve ==
    \A i \in DOMAIN seals, key \in DOMAIN books.balances :
        /\ prove_sealed_balance(books, accounts, calendar, seals[i], key)
              \in {"Proven", "NoRow", "NotYetRegistered"}
        /\ key \in DOMAIN seals[i].trial_balance =>
              prove_sealed_balance(books, accounts, calendar, seals[i], key) = "Proven"

-----------------------------------------------------------------------------
(***************************************************************************)
(* The journal implements SealedBooks.                                     *)
(***************************************************************************)
Promise == INSTANCE SealedBooks WITH
    dates  <- [i \in EntryIndices |-> books.entries[i].booking_date],
    frozen <- calendar.sealed_through,
    seals  <- [i \in DOMAIN seals |-> [end  |-> SealedEnd(i),
                                       size |-> Len(seals[i].tree_head)]]

\* Every step of the journal books after the frozen date, moves that date
\* forward, or seals past it: nothing is booked on or before a sealed date.
KeepsSealedBooks == Promise!SealedSpec
=============================================================================
