---------------------------- MODULE MemoryStore -----------------------------
(***************************************************************************)
(* Clients of the in-memory store (MemoryStore in src/storage.rs).  Each   *)
(* call takes the lock once and is one step of the journal behind it, but  *)
(* a client needs two calls to book: it validates a batch, or makes the    *)
(* closing of the trial balance, against the journal it reads, and appends *)
(* later.  Everything may happen in between, and a client that saw no      *)
(* answer delivers its batch again.                                        *)
(***************************************************************************)
EXTENDS Journal, Clearings, Closing

CONSTANTS
    Clients,        \* those who share the store
    Assignments,    \* the clearings they submit
    ResetDates,     \* the dates they release a clearing on
    ClosingKeys,    \* the idempotency keys of their closing entries
    Redeclare       \* TRUE when a client declares its calendar afresh at start-up

ASSUME RedeclareIsBoolean == Redeclare \in BOOLEAN
\* "closing" is how the model knows the entries that were made of closing_postings.
ASSUME DraftsAreNoClosings == \A d \in Drafts : d.description # "closing"

ASSUME AssignmentsAreTyped ==
    \A a \in Assignments :
        /\ a.items \in Seq({a.items[n] : n \in DOMAIN a.items})
        /\ \A n \in DOMAIN a.items :
              LET item == a.items[n] IN
              /\ item.applied \in Int
              /\ item.posting = [entry |-> item.posting.entry, index |-> item.posting.index]

VARIABLES
    clearings,      \* the clearing register of the journal
    held            \* the validated batch each client holds, or none

storeVars == <<accounts, calendar, books, seals, clearings, held>>

StoreInit ==
    /\ Init
    /\ clearings = ClearingRegister_new
    /\ held = [c \in Clients |-> <<>>]

-----------------------------------------------------------------------------
\* A batch of witnesses, good for the journal as the client reads it now.
Validate(c, batch) ==
    /\ IsWitnessed(batch)
    /\ held' = [held EXCEPT ![c] = batch]
    /\ UNCHANGED <<accounts, calendar, books, seals, clearings>>

\* The closing entry of the books as the client reads them.  Its provenance is the
\* size of the log it was made from.
closing_entry(k) ==
    [id |-> k, key |-> k, booking_date |-> 1, value_date |-> 1,
     postings |-> closing_postings(accounts, books.balances), reverses |-> None,
     original_booking_date |-> NoDate, description |-> "closing",
     memo |-> [kind |-> "closing", provenance |-> Len(books.entries), document |-> None]]

PrepareClosing(c, k) ==
    /\ CanCloseBooks(accounts, books.balances)
    /\ seal(accounts, calendar, closing_entry(k))
    /\ held' = [held EXCEPT ![c] = <<closing_entry(k)>>]
    /\ UNCHANGED <<accounts, calendar, books, seals, clearings>>

\* The store applies the batch as it is: record_batch asks neither the calendar
\* nor the open windows again.  The client may deliver it once more.
Append_(c) ==
    /\ held[c] # <<>>
    /\ books' = record_batch(books, accounts, held[c])
    /\ UNCHANGED <<accounts, calendar, seals, clearings, held>>

Clear(clearing) ==
    /\ CanClear(clearings, books, clearing)
    /\ clearings' = clear(clearings, clearing)
    /\ UNCHANGED <<accounts, calendar, books, seals, held>>

ResetClearing(id, on) ==
    /\ CanReset(clearings, id)
    /\ clearings' = reset(clearings, id, on)
    /\ UNCHANGED <<accounts, calendar, books, seals, held>>

\* register_account: restore, at the handle the record names.
StoreAccount(record) ==
    /\ CanRestore(accounts, record)
    /\ accounts' = restore(accounts, record)
    /\ UNCHANGED <<calendar, books, seals, clearings, held>>

\* define_period: ensure.
StorePeriod(p) ==
    /\ p.id \in DOMAIN calendar.periods /\ ~Redeclare => p = calendar.periods[p.id]
    /\ CanEnsure(calendar, p)
    /\ calendar' = ensure(calendar, p)
    /\ UNCHANGED <<accounts, books, seals, clearings, held>>

MovePeriod(id, to) ==
    TransitionPeriod(id, to) /\ UNCHANGED <<clearings, held>>

StoreSeal(id) ==
    SealPeriod(id) /\ UNCHANGED <<clearings, held>>

StoreNext ==
    \/ \E c \in Clients, batch \in Batches : Validate(c, batch)
    \/ \E c \in Clients, k \in ClosingKeys : PrepareClosing(c, k)
    \/ \E c \in Clients : Append_(c)
    \/ \E clearing \in Assignments : Clear(clearing)
    \/ \E clearing \in Assignments, on \in ResetDates : ResetClearing(clearing.id, on)
    \/ \E id \in 1..MaxAccounts, account \in NewAccounts :
          StoreAccount([id |-> id, account |-> account])
    \/ \E p \in NewPeriods : StorePeriod(p)
    \/ \E id \in PeriodIds, to \in PeriodState : MovePeriod(id, to)
    \/ \E id \in PeriodIds : StoreSeal(id)

StoreSpec == StoreInit /\ [][StoreNext]_storeVars

-----------------------------------------------------------------------------
\* A delivery that was answered before is answered the same way again: a client
\* that holds a recorded batch cannot change the books with it.
RedeliveryIsNoOp ==
    \A c \in Clients :
        (\A n \in DOMAIN held[c] : \E i \in DOMAIN books.log :
            books.log[i] = content_hash(held[c][n]))
        => record_batch(books, accounts, held[c]) = books

\* The clearings on record that have not been released.
Standing ==
    {clearings.events[clearings.by_id[id]].clearing :
        id \in DOMAIN clearings.by_id \ DOMAIN clearings.reset}

AmountOn(clearing, ref) ==
    FoldLeft(LAMBDA sum, item : IF item.posting = ref THEN sum + item.applied ELSE sum,
             0, clearing.items)

\* What the register says has been applied to a posting is what replaying its
\* events says: the sum over the clearings that were not reset, although clear
\* and reset only ever add to and subtract from a running amount.
AppliedIsReplay ==
    \A ref \in DOMAIN clearings.applied :
        applied_to(clearings, ref) = MapThenSumSet(LAMBDA c : AmountOn(c, ref), Standing)

Outstanding(on_key, direction) ==
    FoldLeft(LAMBDA sum, i : IF i.direction = direction THEN sum + i.residual ELSE sum,
             0, open_items(clearings, books, on_key))

\* The open items of a key add up to its balance, whatever has been cleared: a
\* clearing takes as much from one side as from the other.
OpenItemsTellTheBalance ==
    \A k \in DOMAIN books.balances :
        Outstanding(k, "Debit") - Outstanding(k, "Credit")
            = books.balances[k].debits - books.balances[k].credits

IsClosing(e) == e.description = "closing"

Temporary(on_key) == on_key.layer = closed_layer /\ AccountKinds[on_key.account] \in kinds

\* Right after a closing entry, each temporary account holds exactly what was
\* booked between the read of the trial balance and the closing: nothing when
\* nobody was faster, and no amount is closed twice or lost when somebody was.
ClosesWhatItRead ==
    \A i \in EntryIndices : IsClosing(books.entries[i]) =>
        LET read  == books.entries[i].memo.provenance
            then  == TrialBalanceOf(SubSeq(books.entries, 1, i))
            later == TrialBalanceOf(SubSeq(books.entries, read + 1, i - 1))
        IN \A on_key \in {k \in DOMAIN then : Temporary(k)} :
              signed_net(then[on_key]) = signed_net(get_or_zero(later, on_key))

\* A restart loses no account: the records the store keeps, in whatever order
\* they are read, rebuild this very registry, every handle where it was.
RestartExact ==
    from_records(records(accounts)) = [ok |-> TRUE, registry |-> accounts]
=============================================================================
