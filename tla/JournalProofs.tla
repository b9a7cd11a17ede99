--------------------------- MODULE JournalProofs ----------------------------
(***************************************************************************)
(* Proofs about Journal and about the clients of MemoryStore: their        *)
(* properties, for every chart, period table, set of drafts and number of  *)
(* clients, however many entries are recorded.                             *)
(***************************************************************************)
EXTENDS MemoryStore, BooksLemmas

\* The drafts that can be recorded, and those that seal accepts now.
Recordable == {d \in Drafts : Len(d.postings) <= MaxPostings}

Sealable == {d \in Drafts : seal(accounts, calendar, d)}

\* What seal accepts can be recorded, and what can be recorded is typed.
LEMMA DraftsAreSound ==
    /\ Sound(Recordable)
    /\ Sealable \subseteq Recordable
    /\ \A d \in Recordable : d.booking_date \in Dates
  BY DraftsAreTyped, BoundsArePositive DEF Sound, Recordable, Sealable, seal

-----------------------------------------------------------------------------
(***************************************************************************)
(* The inductive invariant.                                                *)
(***************************************************************************)
\* A sequence, of whatever it holds.
IsSeq(q) == q \in Seq(Elements(q))

\* Entries post to accounts that are registered.
PostsToHandles ==
    \A i \in Indices(books) : \A k \in DOMAIN books.entries[i].postings :
        books.entries[i].postings[k].account \in Handles(accounts)

\* What a seal recorded is still what the books and the registry say: its period
\* is sealed, its trial balance is the one through the end of that period, its
\* accounts are the first ones of the registry and own every row.
Stands(s, bs, reg, cal) ==
    /\ s.period \in DOMAIN cal.periods
    /\ cal.periods[s.period].end <= cal.sealed_through
    /\ s.trial_balance = trial_balance_through_date(bs, cal.periods[s.period].end)
    /\ Len(s.accounts) \in 0..Len(reg.accounts)
    /\ s.accounts = SubSeq(binding_log(reg), 1, Len(s.accounts))
    /\ \A on_key \in DOMAIN s.trial_balance : on_key.account \in 1..Len(s.accounts)

IInv ==
    /\ BooksInv(books, Recordable)
    /\ Reversals(books)
    /\ accounts.accounts \in Seq(Account)
    /\ PostsToHandles
    /\ WellFormed(calendar)
    /\ SealedBelowWatermark(calendar)
    /\ IsSeq(seals)
    /\ \A i \in DOMAIN seals : Stands(seals[i], books, accounts, calendar)

-----------------------------------------------------------------------------
(***************************************************************************)
(* The initial state.                                                      *)
(***************************************************************************)
Registered(ctx, reg, account) == register(reg, account)

Setup == INSTANCE Folding WITH Op <- Registered

\* The registry set up from the chart satisfies the invariant of the registry.
LEMMA ChartRegisters == RegInv(FoldLeft(register, AccountRegistry_new, Chart))
<1> DEFINE n == Len(Chart)
<1>1. /\ n \in Nat /\ DOMAIN Chart = 1..n /\ n \in 0..n /\ Chart \in Seq(Account)
      /\ \A j \in 0..(n - 1) : Chart[j + 1] \in Account
  BY ChartIsTyped
<1>2. FoldLeft(register, AccountRegistry_new, Chart) = Setup!Fold(0, AccountRegistry_new, Chart)
  BY DEF Registered, FoldLeft, MapThenFoldSet, Max,
         Setup!Fold, Setup!FoldLeft, Setup!MapThenFoldSet, Setup!Max
<1>3. PICK t : /\ Setup!IsTrace(t, 0, AccountRegistry_new, Chart, n)
               /\ Setup!Fold(0, AccountRegistry_new, Chart) = t[n]
  BY <1>1, Setup!FoldTrace
<1>4. t[0] = AccountRegistry_new /\ \A j \in 0..(n - 1) : t[j + 1] = register(t[j], Chart[j + 1])
  BY <1>3 DEF Setup!IsTrace, Registered
<1> DEFINE T == {j \in Nat : RegInv(t[j]) /\ t[j].accounts = SubSeq(Chart, 1, j)}
<1>5. 0 \in T
  <2>1. AccountRegistry_new.accounts = SubSeq(Chart, 1, 0)
    BY <1>1 DEF AccountRegistry_new
  <2> QED BY <1>4, <2>1, NewRegistry
<1>6. ASSUME NEW j \in 0..(n - 1), j \in T PROVE j + 1 \in T
  <2> DEFINE account == Chart[j + 1]
  <2>1. j \in Nat /\ j + 1 \in Nat /\ j + 1 \in 1..n /\ account \in Account
    BY <1>1
  <2>2. RegInv(t[j]) /\ t[j].accounts = SubSeq(Chart, 1, j)
    BY <1>6
  <2>3. /\ Len(t[j].accounts) = j /\ Handles(t[j]) = 1..j
        /\ \A h \in 1..j : t[j].accounts[h] = Chart[h]
    BY <1>1, <2>1, <2>2 DEF Handles
  <2>4. CanRegister(t[j], account)
    <3>1. WindowIsValid(account) /\ j < MaxAccounts
      BY <1>1, <2>1, ChartIsAccepted, HandlesAreBounded
    <3>2. ASSUME account.path \in DOMAIN t[j].index PROVE FALSE
      <4>1. PICK h \in 1..j : PathOf(t[j], h) = account.path
        BY <2>2, <2>3, <3>2 DEF RegInv
      <4>2. h \in 1..n /\ h # j + 1 /\ Chart[h].path = Chart[j + 1].path
        BY <1>1, <2>1, <2>3, <4>1 DEF PathOf
      <4> QED BY <1>1, <2>1, <4>2, ChartIsAccepted
    <3> QED BY <2>3, <3>1, <3>2 DEF CanRegister
  <2>5. t[j + 1] = register(t[j], account)
    BY <1>4
  <2>6. RegInv(t[j + 1])
    BY <2>1, <2>2, <2>4, <2>5, RegisterKeeps
  <2>7. t[j + 1].accounts = Append(t[j].accounts, account)
    BY <2>5 DEF register
  <2>8. t[j + 1].accounts = SubSeq(Chart, 1, j + 1)
    BY <1>1, <2>1, <2>2, <2>7
  <2> QED BY <2>1, <2>6, <2>8
<1>7. n \in T
  <2> HIDE DEF T, n
  <2> QED BY <1>1, <1>5, <1>6, Setup!BoundedInduction
<1> QED BY <1>2, <1>3, <1>7

\* A journal on its chart and its period table satisfies the invariant.
LEMMA InitIInv == Init => IInv
<1> SUFFICES ASSUME Init PROVE IInv
  OBVIOUS
<1>1. BooksInv(books, Recordable) /\ Reversals(books)
  BY NewBooksAreExact DEF Init
<1>2. accounts.accounts \in Seq(Account)
  BY ChartRegisters DEF Init, RegInv
<1>3. Indices(books) = {}
  BY DEF Init, Books_new, Indices
<1>4. WellFormed(calendar) /\ SealedBelowWatermark(calendar)
  BY PeriodsAreTyped, FromPeriodsWellFormed DEF Init, MarkedExactly
<1>5. IsSeq(seals) /\ DOMAIN seals = {}
  BY DEF Init, IsSeq, Elements
<1> QED BY <1>1, <1>2, <1>3, <1>4, <1>5 DEF IInv, PostsToHandles

-----------------------------------------------------------------------------
(***************************************************************************)
(* Recording.                                                              *)
(***************************************************************************)
\* What a date must be for an entry to be sealed on it.
LEMMA SealableIsLater ==
    ASSUME IInv, NEW d \in Sealable, NEW end \in Nat, end <= calendar.sealed_through
    PROVE  ~(d.booking_date <= end)
<1>1. d.booking_date \in Dates /\ state_on(calendar, d.booking_date) = "Open"
  BY DraftsAreTyped DEF Sealable, seal, accepts, accepts_postings
<1>2. WellFormed(calendar) /\ SealedBelowWatermark(calendar)
  BY DEF IInv
<1>3. ~(d.booking_date <= calendar.sealed_through)
  BY <1>1, <1>2, SealedIsBelowWatermark
<1>4. d.booking_date \in Nat /\ calendar.sealed_through \in Nat
  BY <1>1, <1>2, DatesArePositive DEF WellFormed, IsCalendar, NoDate
<1> QED BY <1>3, <1>4

\* record and record_batch append entries that seal accepts, by the rules.
LEMMA RecordingFollows ==
    ASSUME IInv, \/ \E draft \in Drafts : Record(draft)
                 \/ \E batch \in Batches : RecordBatch(batch)
    PROVE  /\ BooksInv(books', Recordable)
           /\ Follows(books', books, accounts, Sealable)
<1>1. BooksInv(books, Recordable) /\ Reversals(books)
  BY DEF IInv
<1>2. Sound(Recordable) /\ Sealable \in SUBSET Recordable
  BY DraftsAreSound
<1>3. Follows(books, books, accounts, Sealable)
  BY <1>1, FollowsItself
<1>4. ASSUME NEW draft \in Drafts, Record(draft)
      PROVE  BooksInv(books', Recordable) /\ Follows(books', books, accounts, Sealable)
  <2>1. books' = record_validated(books, accounts, draft)
        /\ CanRecord(books, accounts, calendar, draft)
    BY <1>4 DEF Record
  <2>2. CASE Outcome(books, accounts, draft) # "New"
    BY <1>1, <1>3, <2>1, <2>2 DEF record_validated
  <2>3. CASE Outcome(books, accounts, draft) = "New"
    <3>1. draft \in Sealable /\ draft \in Recordable
      BY <1>2, <2>1, <2>3 DEF CanRecord, Sealable
    <3>2. BooksInv(record_validated(books, accounts, draft), Recordable)
      BY <1>1, <1>2, <3>1, RecordKeeps
    <3>3. Follows(record_validated(books, accounts, draft), books, accounts, Sealable)
      BY <1>1, <1>2, <1>3, <3>1, RecordFollows
    <3> QED BY <2>1, <3>2, <3>3
  <2> QED BY <2>2, <2>3
<1>5. ASSUME NEW batch \in Batches, RecordBatch(batch)
      PROVE  BooksInv(books', Recordable) /\ Follows(books', books, accounts, Sealable)
  <2>1. books' = record_batch(books, accounts, batch)
        /\ \A i \in DOMAIN batch : seal(accounts, calendar, batch[i])
    BY <1>5 DEF RecordBatch, IsWitnessed
  <2>2. PICK n \in 1..MaxBatch : batch \in [1..n -> Drafts]
    BY DEF Batches
  <2>3. \A i \in 1..n : batch[i] \in Sealable
    BY <2>1, <2>2 DEF Sealable
  <2>4. batch \in Seq(Sealable)
    <3>1. n \in Nat /\ batch \in [1..n -> Sealable]
      BY <2>2, <2>3, BatchBound
    <3> QED BY <3>1
  <2>5. batch \in Seq(Recordable)
    BY <1>2, <2>4
  <2>6. BooksInv(record_batch(books, accounts, batch), Recordable)
    BY <1>1, <1>2, <2>5, BatchKeeps
  <2>7. Follows(record_batch(books, accounts, batch), books, accounts, Sealable)
    BY <1>1, <1>2, <2>4, BatchFollows
  <2> QED BY <2>1, <2>6, <2>7
<1> QED BY <1>4, <1>5

\* Nothing that follows touches a seal.
LEMMA RecordingIInv ==
    ASSUME IInv, \/ \E draft \in Drafts : Record(draft)
                 \/ \E batch \in Batches : RecordBatch(batch)
    PROVE  IInv'
<1>1. UNCHANGED <<accounts, calendar, seals>>
  BY DEF Record, RecordBatch
<1>2. BooksInv(books', Recordable) /\ Follows(books', books, accounts, Sealable)
  BY RecordingFollows
<1>3. Reversals(books') /\ Extends(books', books, Sealable) /\ KeepsThrough(books', books, Sealable)
  BY <1>2 DEF Follows
<1>4. PostsToHandles'
  <2> SUFFICES ASSUME NEW i \in Indices(books'), NEW k \in DOMAIN books'.entries[i].postings
               PROVE  books'.entries[i].postings[k].account \in Handles(accounts)
    BY <1>1 DEF PostsToHandles, Handles
  <2>1. CASE i \in Indices(books)
    <3>1. books'.entries[i] = books.entries[i]
      BY <1>3, <2>1 DEF Extends
    <3> QED BY <2>1, <3>1 DEF IInv, PostsToHandles
  <2>2. CASE i \notin Indices(books)
    <3>1. books'.entries[i] \in Sealable
      BY <1>3, <2>2 DEF Extends
    <3> QED BY <3>1 DEF Sealable, seal, PostingIsValid
  <2> QED BY <2>1, <2>2
<1>5. ASSUME NEW i \in DOMAIN seals PROVE Stands(seals[i], books, accounts, calendar)'
  <2> DEFINE s == seals[i]
             end == calendar.periods[s.period].end
  <2>1. Stands(s, books, accounts, calendar)
    BY DEF IInv
  <2>2. end \in Nat /\ end <= calendar.sealed_through
    <3>1. s.period \in DOMAIN calendar.periods /\ end <= calendar.sealed_through
      BY <2>1 DEF Stands
    <3>2. calendar.periods[s.period] \in Period
      BY <3>1 DEF IInv, WellFormed, IsCalendar
    <3> QED BY <3>1, <3>2, DatesArePositive DEF Period
  <2>3. \A d \in Sealable : ~(d.booking_date <= end)
    <3> HIDE DEF end
    <3> QED BY <2>2, SealableIsLater
  <2>4. trial_balance_through_date(books', end) = trial_balance_through_date(books, end)
    <3> HIDE DEF end
    <3> QED BY <1>3, <2>3 DEF KeepsThrough
  <2> QED BY <1>1, <2>1, <2>4 DEF Stands
<1> QED BY <1>1, <1>2, <1>3, <1>4, <1>5 DEF IInv

-----------------------------------------------------------------------------
(***************************************************************************)
(* Master data.                                                            *)
(***************************************************************************)
\* The bindings of the handles there were stay where they were.
LEMMA BindingsStay ==
    ASSUME NEW old, NEW new, old.accounts \in Seq(Account), new.accounts \in Seq(Account),
           Len(old.accounts) <= Len(new.accounts),
           \A h \in Handles(old) : new.accounts[h].path = old.accounts[h].path,
           NEW m \in 0..Len(old.accounts)
    PROVE  /\ m \in 0..Len(new.accounts)
           /\ SubSeq(binding_log(new), 1, m) = SubSeq(binding_log(old), 1, m)
<1> DEFINE B(reg) == {[id |-> h, path |-> reg.accounts[h].path] : h \in Handles(reg)}
<1>1. ASSUME NEW reg, reg.accounts \in Seq(Account)
      PROVE  /\ Len(reg.accounts) \in Nat /\ Handles(reg) = 1..Len(reg.accounts)
             /\ \A k \in 0..Len(reg.accounts) : SubSeq(binding_log(reg), 1, k) =
                   [h \in 1..k |-> [id |-> h, path |-> reg.accounts[h].path]]
  <2> DEFINE n == Len(reg.accounts)
  <2>1. n \in Nat /\ Handles(reg) = 1..n
    BY <1>1 DEF Handles
  <2>2. binding_log(reg) = [h \in 1..n |-> [id |-> h, path |-> reg.accounts[h].path]]
    BY <2>1 DEF binding_log, account_binding_leaf
  <2>3. binding_log(reg) \in [1..n -> B(reg)]
    BY <2>1, <2>2
  <2> HIDE DEF n, B
  <2>4. binding_log(reg) \in Seq(B(reg)) /\ Len(binding_log(reg)) = n
    BY <2>1, <2>3
  <2>5. ASSUME NEW k \in 0..n
        PROVE  SubSeq(binding_log(reg), 1, k) = [h \in 1..k |-> [id |-> h, path |-> reg.accounts[h].path]]
    <3>1. SubSeq(binding_log(reg), 1, k) = [h \in 1..k |-> binding_log(reg)[h]]
      BY <2>1, <2>4
    <3>2. \A h \in 1..k : binding_log(reg)[h] = [id |-> h, path |-> reg.accounts[h].path]
      BY <2>1, <2>2
    <3> QED BY <3>1, <3>2
  <2> QED BY <2>1, <2>5 DEF n
<1>2. m \in 0..Len(new.accounts) /\ 1..m \subseteq Handles(old)
  BY <1>1
<1>3. /\ SubSeq(binding_log(new), 1, m) = [h \in 1..m |-> [id |-> h, path |-> new.accounts[h].path]]
      /\ SubSeq(binding_log(old), 1, m) = [h \in 1..m |-> [id |-> h, path |-> old.accounts[h].path]]
  BY <1>1, <1>2
<1>4. \A h \in 1..m : new.accounts[h].path = old.accounts[h].path
  BY <1>2
<1> QED BY <1>2, <1>3, <1>4

\* Registering, closing, reopening or limiting an account.
RegistryStep ==
    /\ accounts'.accounts \in Seq(Account)
    /\ Len(accounts.accounts) <= Len(accounts'.accounts)
    /\ \A h \in Handles(accounts) :
          h \in Handles(accounts') /\ accounts'.accounts[h].path = accounts.accounts[h].path
    /\ UNCHANGED <<calendar, books, seals>>

\* A change of master data leaves entries, seals and calendar as they were.
LEMMA RegistryIInv == ASSUME IInv, RegistryStep PROVE IInv'
<1>1. UNCHANGED <<calendar, books, seals>> /\ accounts'.accounts \in Seq(Account)
      /\ accounts.accounts \in Seq(Account)
  BY DEF RegistryStep, IInv
<1>2. PostsToHandles'
  BY <1>1 DEF IInv, PostsToHandles, RegistryStep
<1>3. ASSUME NEW i \in DOMAIN seals PROVE Stands(seals[i], books, accounts, calendar)'
  <2> DEFINE s == seals[i]
  <2>1. Stands(s, books, accounts, calendar)
    BY DEF IInv
  <2>2. /\ Len(s.accounts) \in 0..Len(accounts'.accounts)
        /\ SubSeq(binding_log(accounts'), 1, Len(s.accounts)) =
             SubSeq(binding_log(accounts), 1, Len(s.accounts))
    <3>1. Len(s.accounts) \in 0..Len(accounts.accounts)
      BY <2>1 DEF Stands
    <3> HIDE DEF s
    <3> QED BY <1>1, <3>1, BindingsStay DEF RegistryStep
  <2> QED BY <1>1, <2>1, <2>2 DEF Stands
<1> QED BY <1>1, <1>2, <1>3 DEF IInv

\* register, close, reopen and set_limit are such changes.
LEMMA MasterDataSteps ==
    ASSUME IInv, \/ \E account \in NewAccounts : RegisterAccount(account)
                 \/ \E id \in Managed, on \in ClosingDates : CloseAccount(id, on)
                 \/ \E id \in Managed : ReopenAccount(id)
                 \/ \E id \in Managed, limit \in Limits : SetLimit(id, limit)
    PROVE  RegistryStep
<1> DEFINE q == accounts.accounts
<1>1. q \in Seq(Account) /\ Len(q) \in Nat /\ Handles(accounts) = 1..Len(q)
  BY DEF IInv, Handles
<1>2. ASSUME NEW account \in NewAccounts, RegisterAccount(account) PROVE RegistryStep
  <2> DEFINE S == Account
  <2>1. accounts'.accounts = Append(q, account) /\ UNCHANGED <<calendar, books, seals>>
    BY <1>2 DEF RegisterAccount, register
  <2>2. account \in S /\ q \in Seq(S)
    BY <1>1, ChartIsTyped
  <2> HIDE DEF S, q
  <2>3. /\ Append(q, account) \in Seq(S) /\ Len(Append(q, account)) = Len(q) + 1
        /\ \A h \in 1..Len(q) : Append(q, account)[h] = q[h] /\ h \in DOMAIN Append(q, account)
    BY <2>2
  <2> QED BY <1>1, <2>1, <2>3 DEF RegistryStep, Handles, S, q
<1>3. ASSUME NEW id \in Handles(accounts), NEW account \in Account, account.path = q[id].path,
             accounts' = WithAccount(accounts, id, account), UNCHANGED <<calendar, books, seals>>
      PROVE  RegistryStep
  <2> DEFINE S == Account
  <2>1. accounts'.accounts = [q EXCEPT ![id] = account]
    BY <1>3 DEF WithAccount
  <2>2. account \in S /\ q \in Seq(S) /\ id \in 1..Len(q)
    BY <1>1, <1>3
  <2> HIDE DEF S, q
  <2>3. /\ [q EXCEPT ![id] = account] \in Seq(S) /\ Len([q EXCEPT ![id] = account]) = Len(q)
        /\ \A h \in 1..Len(q) : /\ [q EXCEPT ![id] = account][h] = IF h = id THEN account ELSE q[h]
                                /\ h \in DOMAIN [q EXCEPT ![id] = account]
    BY <2>2
  <2>4. Len(q) <= Len(q)
    BY <1>1
  <2> QED BY <1>1, <1>3, <2>1, <2>3, <2>4 DEF RegistryStep, Handles, S, q
<1>4. \A id \in Handles(accounts) : q[id] \in Account
  BY <1>1
<1> HIDE DEF q
<1>5. ASSUME NEW id \in Managed, NEW on \in ClosingDates, CloseAccount(id, on) PROVE RegistryStep
  <2>1. id \in Handles(accounts) /\ UNCHANGED <<calendar, books, seals>>
        /\ accounts' = WithAccount(accounts, id, [q[id] EXCEPT !.closed_on = on])
    BY <1>5 DEF CloseAccount, CanClose, close, q
  <2>2. on \in Dates
    BY ClosingDatesAreDates
  <2>3. [q[id] EXCEPT !.closed_on = on] \in Account /\ [q[id] EXCEPT !.closed_on = on].path = q[id].path
    BY <1>4, <2>1, <2>2 DEF Account
  <2> QED BY <1>3, <2>1, <2>3
<1>6. ASSUME NEW id \in Managed, ReopenAccount(id) PROVE RegistryStep
  <2>1. id \in Handles(accounts) /\ UNCHANGED <<calendar, books, seals>>
        /\ accounts' = WithAccount(accounts, id, [q[id] EXCEPT !.closed_on = NoDate])
    BY <1>6 DEF ReopenAccount, reopen, q
  <2>2. [q[id] EXCEPT !.closed_on = NoDate] \in Account
        /\ [q[id] EXCEPT !.closed_on = NoDate].path = q[id].path
    BY <1>4, <2>1 DEF Account
  <2> QED BY <1>3, <2>1, <2>2
<1>7. ASSUME NEW id \in Managed, NEW limit \in Limits, SetLimit(id, limit) PROVE RegistryStep
  <2>1. id \in Handles(accounts) /\ UNCHANGED <<calendar, books, seals>>
        /\ accounts' = WithAccount(accounts, id, [q[id] EXCEPT !.limit = limit])
    BY <1>7 DEF SetLimit, set_limit, q
  <2>2. [q[id] EXCEPT !.limit = limit] \in Account /\ [q[id] EXCEPT !.limit = limit].path = q[id].path
    BY <1>4, <2>1 DEF Account
  <2> QED BY <1>3, <2>1, <2>2
<1> QED BY <1>2, <1>5, <1>6, <1>7

-----------------------------------------------------------------------------
(***************************************************************************)
(* Periods.                                                                *)
(***************************************************************************)
\* A calendar after `cal`: no period is lost or moves its end, and the watermark
\* moves forward, to a date.
CalendarMoved(new, cal) ==
    /\ WellFormed(new) /\ SealedBelowWatermark(new)
    /\ \A id \in DOMAIN cal.periods :
          id \in DOMAIN new.periods /\ new.periods[id].end = cal.periods[id].end
    /\ cal.sealed_through \in Nat /\ new.sealed_through \in Nat
    /\ cal.sealed_through <= new.sealed_through
    /\ new.sealed_through # cal.sealed_through => new.sealed_through \in Dates

\* Storing a period over the one of the same identifier and range, or over none.
LEMMA StoreMoves ==
    ASSUME NEW cal, WellFormed(cal), SealedBelowWatermark(cal), NEW p \in Period,
           NEW new, WellFormed(new), new.periods = Insert(cal.periods, p.id, p),
           new.sealed_through = mark_sealed_through(cal, p),
           p.id \in DOMAIN cal.periods => p.end = cal.periods[p.id].end
    PROVE  CalendarMoved(new, cal)
<1>1. IsCalendar(cal)
  BY DEF WellFormed
<1>2. SealedBelowWatermark(new)
  BY <1>1, StoreKeepsSealedBelow
<1>3. /\ mark_sealed_through(cal, p) \in Nat /\ cal.sealed_through \in Nat
      /\ cal.sealed_through <= mark_sealed_through(cal, p)
      /\ mark_sealed_through(cal, p) # cal.sealed_through => p.end = mark_sealed_through(cal, p)
  BY <1>1, MarkMovesForward
<1>4. p.end \in Dates
  BY DEF Period
<1>5. \A id \in DOMAIN cal.periods :
          id \in DOMAIN new.periods /\ new.periods[id].end = cal.periods[id].end
  BY DEF Insert
<1> QED BY <1>2, <1>3, <1>4, <1>5 DEF CalendarMoved

\* define_period adds or replaces one period and marks the watermark.
LEMMA DefineMoves ==
    ASSUME NEW cal, WellFormed(cal), SealedBelowWatermark(cal), NEW p \in Period, CanDefine(cal, p)
    PROVE  CalendarMoved(define(cal, p), cal)
<1>1. WellFormed(define(cal, p))
  BY DefineWellFormed
<1>2. define(cal, p).periods = Insert(cal.periods, p.id, p)
      /\ define(cal, p).sealed_through = mark_sealed_through(cal, p)
  BY DEF define
<1>3. p.id \notin DOMAIN cal.periods
  BY DEF CanDefine
<1> QED BY <1>1, <1>2, <1>3, StoreMoves

\* transition_period replaces one period and marks the watermark.
LEMMA TransitionMoves ==
    ASSUME NEW cal, WellFormed(cal), SealedBelowWatermark(cal),
           NEW id, NEW to \in PeriodState, CanTransition(cal, id, to)
    PROVE  CalendarMoved(transition(cal, id, to), cal)
<1> DEFINE p == moved_to(cal, id, to)
<1>1. p \in Period /\ p.id = id /\ p.end = cal.periods[id].end /\ WellFormed(transition(cal, id, to))
  BY TransitionWellFormed
<1>2. transition(cal, id, to).periods = Insert(cal.periods, p.id, p)
      /\ transition(cal, id, to).sealed_through = mark_sealed_through(cal, p)
  BY <1>1 DEF transition
<1> HIDE DEF p
<1> QED BY <1>1, <1>2, StoreMoves

\* Both leave every seal its period, with its end.
LEMMA PeriodSteps ==
    ASSUME IInv, \/ \E p \in NewPeriods : DefinePeriod(p)
                 \/ \E id \in PeriodIds, to \in PeriodState : TransitionPeriod(id, to)
    PROVE  CalendarMoved(calendar', calendar) /\ UNCHANGED <<accounts, books, seals>>
<1>1. WellFormed(calendar) /\ SealedBelowWatermark(calendar)
  BY DEF IInv
<1>2. ASSUME NEW p \in NewPeriods, DefinePeriod(p)
      PROVE  CalendarMoved(calendar', calendar) /\ UNCHANGED <<accounts, books, seals>>
  BY <1>1, <1>2, PeriodsAreTyped, DefineMoves DEF DefinePeriod
<1>3. ASSUME NEW id \in PeriodIds, NEW to \in PeriodState, TransitionPeriod(id, to)
      PROVE  CalendarMoved(calendar', calendar) /\ UNCHANGED <<accounts, books, seals>>
  BY <1>1, <1>3, TransitionMoves DEF TransitionPeriod
<1> QED BY <1>2, <1>3

\* A seal that stands keeps standing while the calendar moves.
LEMMA SealsOutlastMoves ==
    ASSUME NEW cal, WellFormed(cal), NEW new, CalendarMoved(new, cal),
           NEW bs, NEW reg, NEW s, Stands(s, bs, reg, cal)
    PROVE  Stands(s, bs, reg, new) /\ new.periods[s.period].end = cal.periods[s.period].end
<1> DEFINE end == cal.periods[s.period].end
<1>1. s.period \in DOMAIN cal.periods /\ end <= cal.sealed_through
  BY DEF Stands
<1>2. end \in Nat
  <2>1. cal.periods[s.period] \in Period
    BY <1>1 DEF WellFormed, IsCalendar
  <2> QED BY <2>1, DatesArePositive DEF Period
<1>3. s.period \in DOMAIN new.periods /\ new.periods[s.period].end = end
  BY <1>1 DEF CalendarMoved
<1>4. end <= new.sealed_through
  <2> HIDE DEF end
  <2> QED BY <1>1, <1>2 DEF CalendarMoved
<1> QED BY <1>3, <1>4 DEF Stands

\* A change of the calendar keeps what the seals recorded.
LEMMA PeriodsIInv ==
    ASSUME IInv, \/ \E p \in NewPeriods : DefinePeriod(p)
                 \/ \E id \in PeriodIds, to \in PeriodState : TransitionPeriod(id, to)
    PROVE  IInv'
<1>1. CalendarMoved(calendar', calendar) /\ UNCHANGED <<accounts, books, seals>>
  BY PeriodSteps
<1>2. \A i \in DOMAIN seals : Stands(seals[i], books, accounts, calendar')
  BY <1>1, SealsOutlastMoves DEF IInv
<1> QED BY <1>1, <1>2 DEF IInv, CalendarMoved, PostsToHandles

-----------------------------------------------------------------------------
(***************************************************************************)
(* Sealing.                                                                *)
(***************************************************************************)
LEMMA BuiltFields ==
    ASSUME NEW period, NEW cover, NEW tree_head, NEW closing, NEW bound, NEW prev
    PROVE  LET s == build(period, cover, tree_head, closing, bound, prev)
           IN  /\ s.period = period /\ s.tree_head = tree_head
               /\ s.trial_balance = closing /\ s.accounts = bound
  BY DEF build, Insert

\* One element more.
LEMMA AppendIsSeq ==
    ASSUME NEW q, IsSeq(q), NEW x
    PROVE  /\ IsSeq(Append(q, x)) /\ Len(q) \in Nat /\ DOMAIN q = 1..Len(q)
           /\ DOMAIN Append(q, x) = DOMAIN q \cup {Len(q) + 1}
           /\ \A n \in DOMAIN q : Append(q, x)[n] = q[n]
           /\ Append(q, x)[Len(q) + 1] = x
<1> DEFINE S == Elements(q) \cup {x}
<1>1. q \in Seq(S) /\ x \in S
  <2>1. q \in Seq(Elements(q))
    BY DEF IsSeq
  <2> HIDE DEF Elements
  <2> QED BY <2>1
<1>2. Elements(q) \cup {x} = S
  OBVIOUS
<1> HIDE DEF S
<1>3. /\ Append(q, x) \in Seq(S) /\ Len(q) \in Nat /\ DOMAIN q = 1..Len(q)
      /\ DOMAIN Append(q, x) = DOMAIN q \cup {Len(q) + 1}
      /\ \A n \in DOMAIN q : Append(q, x)[n] = q[n]
      /\ Append(q, x)[Len(q) + 1] = x
      /\ Elements(Append(q, x)) = Elements(q) \cup {x}
  BY <1>1, Appended
<1> QED BY <1>2, <1>3 DEF IsSeq

\* What SealPeriod appends to the chain stands.
LEMMA NewSealStands ==
    ASSUME IInv, NEW id \in PeriodIds, SealPeriod(id)
    PROVE  /\ CalendarMoved(calendar', calendar) /\ UNCHANGED <<accounts, books>>
           /\ calendar.periods[id].end > calendar.sealed_through
           /\ calendar'.sealed_through = calendar.periods[id].end
           /\ calendar.periods[id].end \in Dates
           /\ \E s : /\ seals' = Append(seals, s)
                     /\ s.period = id /\ s.tree_head = books.log
                     /\ calendar'.periods[id].end = calendar.periods[id].end
                     /\ Stands(s, books, accounts, calendar')
<1> DEFINE end == calendar.periods[id].end
           s == seal_of(books, accounts, calendar, seals, id)
<1>1. WellFormed(calendar) /\ SealedBelowWatermark(calendar)
  BY DEF IInv
<1>2. /\ id \in DOMAIN calendar.periods /\ calendar.periods[id].state = "Closing"
      /\ end > calendar.sealed_through
      /\ calendar' = transition(calendar, id, "Sealed") /\ seals' = Append(seals, s)
      /\ UNCHANGED <<accounts, books>>
  BY DEF SealPeriod, check_sealable
<1>3. CanTransition(calendar, id, "Sealed") /\ "Sealed" \in PeriodState
  BY <1>2 DEF CanTransition, PermittedTransitions, PeriodState
<1>4. CalendarMoved(calendar', calendar)
  BY <1>1, <1>2, <1>3, TransitionMoves
<1>5. /\ s.period = id /\ s.tree_head = books.log
      /\ s.trial_balance = trial_balance_through_date(books, end)
      /\ s.accounts = binding_log(accounts)
  BY BuiltFields DEF seal_of, head, commitment
<1>6. calendar'.sealed_through = end
  <2>1. /\ moved_to(calendar, id, "Sealed").state = "Sealed"
        /\ moved_to(calendar, id, "Sealed").end = end
    BY <1>1, <1>3, TransitionWellFormed
  <2> QED BY <1>2, <2>1 DEF transition, mark_sealed_through
<1>7. id \in DOMAIN calendar'.periods /\ calendar'.periods[id].end = end /\ end \in Dates /\ end \in Nat
  <2>1. calendar.periods[id] \in Period
    BY <1>1, <1>2 DEF WellFormed, IsCalendar
  <2> QED BY <1>2, <1>4, <2>1, DatesArePositive DEF CalendarMoved, Period
<1> HIDE DEF end, s
<1>8. /\ Len(accounts.accounts) \in Nat /\ Handles(accounts) = 1..Len(accounts.accounts)
      /\ Len(s.accounts) = Len(accounts.accounts)
      /\ s.accounts = SubSeq(binding_log(accounts), 1, Len(s.accounts))
  <2> DEFINE n == Len(accounts.accounts)
             B == {binding_log(accounts)[h] : h \in 1..n}
  <2>1. n \in Nat /\ Handles(accounts) = 1..n
    BY DEF IInv, Handles
  <2> HIDE DEF n
  <2>2. binding_log(accounts) \in [1..n -> B]
    <3>1. binding_log(accounts) = [h \in 1..n |-> binding_log(accounts)[h]]
      BY <2>1 DEF binding_log
    <3> QED BY <3>1
  <2> HIDE DEF B
  <2>3. binding_log(accounts) \in Seq(B) /\ Len(binding_log(accounts)) = n
    BY <2>1, <2>2
  <2>4. SubSeq(binding_log(accounts), 1, n) = binding_log(accounts)
    BY <2>1, <2>3
  <2> QED BY <1>5, <2>1, <2>3, <2>4 DEF n
<1>9. ASSUME NEW on_key \in DOMAIN s.trial_balance PROVE on_key.account \in 1..Len(s.accounts)
  <2>1. books.entries \in Seq(Recordable) /\ Sound(Recordable)
    BY DraftsAreSound DEF IInv, BooksInv
  <2>2. PICK i \in Indices(books) : on_key \in PostingKeys(books.entries[i].postings)
    BY <1>5, <2>1, ThroughKeys
  <2>3. PICK k \in DOMAIN books.entries[i].postings : on_key = key_of(books.entries[i].postings[k])
    BY <2>2 DEF PostingKeys
  <2>4. on_key.account = books.entries[i].postings[k].account
    BY <2>3 DEF key_of
  <2>5. on_key.account \in Handles(accounts)
    BY <2>2, <2>3, <2>4 DEF IInv, PostsToHandles
  <2> QED BY <1>8, <2>5
<1>10. Stands(s, books, accounts, calendar')
  <2>1. end <= end /\ Len(s.accounts) \in 0..Len(accounts.accounts)
    BY <1>7, <1>8
  <2> QED BY <1>5, <1>6, <1>7, <1>8, <1>9, <2>1 DEF Stands
<1>11. calendar.periods[id].end = end
  BY DEF end
<1> QED BY <1>2, <1>4, <1>5, <1>6, <1>7, <1>10, <1>11

\* seal_period adds a seal that stands, and the earlier ones still do.
LEMMA SealIInv == ASSUME IInv, NEW id \in PeriodIds, SealPeriod(id) PROVE IInv'
<1>1. CalendarMoved(calendar', calendar) /\ UNCHANGED <<accounts, books>>
  BY NewSealStands
<1>2. PICK s : seals' = Append(seals, s) /\ Stands(s, books, accounts, calendar')
  BY NewSealStands
<1>3. \A i \in DOMAIN seals : Stands(seals[i], books, accounts, calendar')
  BY <1>1, SealsOutlastMoves DEF IInv
<1>4. /\ IsSeq(seals') /\ DOMAIN seals' = DOMAIN seals \cup {Len(seals) + 1}
      /\ \A n \in DOMAIN seals : seals'[n] = seals[n]
      /\ seals'[Len(seals) + 1] = s
  BY <1>2, AppendIsSeq DEF IInv
<1>5. \A i \in DOMAIN seals' : Stands(seals'[i], books, accounts, calendar')
  BY <1>2, <1>3, <1>4
<1> QED BY <1>1, <1>4, <1>5 DEF IInv, CalendarMoved, PostsToHandles

-----------------------------------------------------------------------------
\* Every step of the journal keeps the invariant.
LEMMA NextIInv == IInv /\ [Next]_vars => IInv'
<1> SUFFICES ASSUME IInv, [Next]_vars PROVE IInv'
  OBVIOUS
<1>1. CASE \/ \E draft \in Drafts : Record(draft)
           \/ \E batch \in Batches : RecordBatch(batch)
  BY <1>1, RecordingIInv
<1>2. CASE \/ \E account \in NewAccounts : RegisterAccount(account)
           \/ \E id \in Managed, on \in ClosingDates : CloseAccount(id, on)
           \/ \E id \in Managed : ReopenAccount(id)
           \/ \E id \in Managed, limit \in Limits : SetLimit(id, limit)
  BY <1>2, MasterDataSteps, RegistryIInv
<1>3. CASE \/ \E p \in NewPeriods : DefinePeriod(p)
           \/ \E id \in PeriodIds, to \in PeriodState : TransitionPeriod(id, to)
  BY <1>3, PeriodsIInv
<1>4. ASSUME NEW id \in PeriodIds, SealPeriod(id) PROVE IInv'
  BY <1>4, SealIInv
<1>5. CASE UNCHANGED vars
  BY <1>5 DEF vars, IInv, PostsToHandles
<1> QED BY <1>1, <1>2, <1>3, <1>4, <1>5 DEF Next

\* The inductive invariant holds in every reachable state of every journal.
THEOREM JournalInvariant == Spec => []IInv
  BY InitIInv, NextIInv, PTL DEF Spec

\* Exact books satisfy what Journal says of them.
LEMMA BooksAreIndexed ==
    ASSUME NEW E, BooksInv(books, E)
    PROVE  IndexesExact
<1>1. BooksInv(books, E) /\ Indices(books) = EntryIndices
  BY DEF Indices, EntryIndices
<1>2. \A on_key \in DOMAIN books.sites :
        /\ books.sites[on_key] # <<>>
        /\ {books.sites[on_key][n] : n \in DOMAIN books.sites[on_key]} =
              {s \in [index : EntryIndices, posting : 1..MaxPostings] :
                  /\ s.posting \in DOMAIN books.entries[s.index].postings
                  /\ key_of(resolve(books, s)) = on_key}
  BY <1>1 DEF BooksInv, SitesExact, SitesFor, Elements
<1>3. \A on_key \in DOMAIN books.sites : \A m, n \in DOMAIN books.sites[on_key] : m < n =>
              \/ books.sites[on_key][m].index < books.sites[on_key][n].index
              \/ /\ books.sites[on_key][m].index = books.sites[on_key][n].index
                 /\ books.sites[on_key][m].posting < books.sites[on_key][n].posting
  BY <1>1 DEF BooksInv, SitesExact, InLogOrder, Before
<1>4. /\ verify_balances(books) /\ DOMAIN books.balances = DOMAIN books.sites
      /\ \A size \in 0..Len(books.entries), on_key \in DOMAIN books.balances :
            balance_at(books, on_key, size) =
                get_or_zero(TrialBalanceOf(SubSeq(books.entries, 1, size)), on_key)
  BY <1>1 DEF BooksInv, BalancesExact, verify_balances
<1>5. verify_log(books)
  BY <1>1 DEF BooksInv
<1>6. /\ DOMAIN books.by_id = {books.entries[i].id : i \in EntryIndices}
      /\ \A i \in EntryIndices : books.by_id[books.entries[i].id] = i
  BY <1>1 DEF BooksInv, IdsExact
<1>7. /\ DOMAIN books.by_key = {books.entries[i].key : i \in EntryIndices}
      /\ \A i \in EntryIndices :
            books.by_key[books.entries[i].key] =
                [id |-> books.entries[i].id, index |-> i, content_hash |-> books.log[i]]
  BY <1>1 DEF BooksInv, KeysExact
<1>8. DOMAIN books.reversed_by = {books.entries[i].reverses : i \in EntryIndices} \ {None}
  BY <1>1 DEF BooksInv, LinksExact
<1> QED BY <1>2, <1>3, <1>4, <1>5, <1>6, <1>7, <1>8 DEF IndexesExact

\* And in books whose reversals hold, each nets with the entry it reverses.
LEMMA ReversalsOfBooksNet ==
    ASSUME NEW E, Sound(E), BooksInv(books, E), Reversals(books)
    PROVE  ReversalsNet
<1> SUFFICES ASSUME NEW i \in EntryIndices, books.entries[i].reverses # None
             PROVE  \E o \in 1..(i - 1) :
                       /\ books.entries[o].id = books.entries[i].reverses
                       /\ books.entries[o].reverses = None
                       /\ books.reversed_by[books.entries[i].reverses] = books.entries[i].id
                       /\ \A j \in EntryIndices :
                             books.entries[j].reverses = books.entries[i].reverses => j = i
                       /\ LET both == TrialBalanceOf(<<books.entries[o], books.entries[i]>>) IN
                             \A on_key \in DOMAIN both : is_balanced(both[on_key])
  BY DEF ReversalsNet
<1>1. Indices(books) = EntryIndices /\ LinksExact(books) /\ books.entries \in Seq(E)
  BY DEF BooksInv, Indices, EntryIndices
<1>2. PICK o \in 1..(i - 1) :
             /\ o \in EntryIndices
             /\ books.entries[o].id = books.entries[i].reverses
             /\ books.entries[o].reverses = None
             /\ is_inversion_of(books.entries[o], books.entries[i])
  BY <1>1 DEF Reversals
<1>3. /\ books.reversed_by[books.entries[i].reverses] = books.entries[i].id
      /\ \A j \in EntryIndices : books.entries[j].reverses = books.entries[i].reverses => j = i
  BY <1>1 DEF LinksExact
<1>4. books.entries[o].postings \in Seq(Posting) /\ books.entries[i].postings \in Seq(Posting)
  <2>1. books.entries[o] \in E /\ books.entries[i] \in E
    BY <1>1, <1>2 DEF EntryIndices
  <2> QED BY <2>1 DEF Sound
<1>5. LET both == TrialBalanceOf(<<books.entries[o], books.entries[i]>>) IN
         \A on_key \in DOMAIN both : is_balanced(both[on_key])
  BY <1>2, <1>4, InversionNets
<1> QED BY <1>2, <1>3, <1>5

\* Everything the journal derives from its entries is exactly what they say,
\* after any sequence of recordings, refusals, batches and rollbacks.
THEOREM DerivedStateIsExact == Spec => []IndexesExact
<1>1. IInv => IndexesExact
  BY BooksAreIndexed DEF IInv
<1> QED BY <1>1, JournalInvariant, PTL

\* Every reversal nets with the one earlier entry it reverses to nothing, on
\* every key, and is the only one to reverse it.
THEOREM EveryReversalNets == Spec => []ReversalsNet
<1>1. IInv => ReversalsNet
  BY DraftsAreSound, ReversalsOfBooksNet DEF IInv
<1> QED BY <1>1, JournalInvariant, PTL

\* No recording, single or in a batch, leaves a balance it moved on a side the
\* limit of its account forbids.
THEOREM LimitsAreRespected == Spec => LimitsRespected
<1>1. IInv /\ [Next]_vars => MovesWithinLimits
  <2> SUFFICES ASSUME IInv, [Next]_vars PROVE MovesWithinLimits
    OBVIOUS
  <2>1. CASE \/ \E draft \in Drafts : Record(draft)
             \/ \E batch \in Batches : RecordBatch(batch)
    BY <2>1, RecordingFollows DEF Follows, MovedWithinLimits, MovesWithinLimits
  <2>2. CASE books' = books
    BY <2>2 DEF get_or_zero, MovesWithinLimits
  <2>3. CASE ~(\/ \E draft \in Drafts : Record(draft)
               \/ \E batch \in Batches : RecordBatch(batch))
    <3>1. books' = books
      BY <2>3 DEF Next, vars, RegisterAccount, CloseAccount, ReopenAccount, SetLimit, DefinePeriod,
                  TransitionPeriod, SealPeriod
    <3> QED BY <2>2, <3>1
  <2> QED BY <2>1, <2>3
<1> QED BY <1>1, JournalInvariant, PTL DEF Spec, LimitsRespected

\* A sealed closing balance can be proven for ever, whatever is recorded,
\* registered, closed or sealed afterwards.
THEOREM SealedBalancesStayProvable == Spec => []SealedBalancesProve
<1>1. IInv => SealedBalancesProve
  <2> SUFFICES ASSUME IInv, NEW i \in DOMAIN seals, NEW on_key
               PROVE  /\ prove_sealed_balance(books, accounts, calendar, seals[i], on_key)
                            \in {"Proven", "NoRow", "NotYetRegistered"}
                      /\ on_key \in DOMAIN seals[i].trial_balance =>
                            prove_sealed_balance(books, accounts, calendar, seals[i], on_key) = "Proven"
    BY DEF SealedBalancesProve
  <2> DEFINE s == seals[i]
             n == Len(s.accounts)
  <2>1. Stands(s, books, accounts, calendar)
    BY DEF IInv
  <2>2. /\ s.trial_balance = trial_balance_through_date(books, calendar.periods[s.period].end)
        /\ n \in 0..Len(accounts.accounts) /\ s.accounts = SubSeq(binding_log(accounts), 1, n)
        /\ \A k \in DOMAIN s.trial_balance : k.account \in 1..n
    BY <2>1 DEF Stands
  <2>3. CanProveBindingAt(accounts, on_key.account, n) <=> on_key.account \in 1..n
    <3>1. Len(accounts.accounts) \in Nat
      BY DEF IInv
    <3> QED BY <2>2, <3>1 DEF CanProveBindingAt
  <2>4. ASSUME on_key.account \in 1..n
        PROVE  verify_binding(prove_binding_at(accounts, on_key.account, n), s.accounts)
    <3> DEFINE L == Len(accounts.accounts)
               B == {binding_log(accounts)[h] : h \in 1..L}
    <3>1. L \in Nat /\ Handles(accounts) = 1..L
      BY DEF IInv, Handles
    <3>2. binding_log(accounts) = [h \in 1..L |-> [id |-> h, path |-> accounts.accounts[h].path]]
      BY <3>1 DEF binding_log, account_binding_leaf
    <3> HIDE DEF L
    <3>3. binding_log(accounts) \in [1..L -> B]
      <4>1. binding_log(accounts) = [h \in 1..L |-> binding_log(accounts)[h]]
        BY <3>2
      <4> QED BY <4>1
    <3> HIDE DEF B
    <3>4. binding_log(accounts) \in Seq(B) /\ Len(binding_log(accounts)) = L
      BY <3>1, <3>3
    <3>5. n \in 0..L
      BY <2>2 DEF L
    <3> HIDE DEF n
    <3>6. SubSeq(binding_log(accounts), 1, n)[on_key.account] = binding_log(accounts)[on_key.account]
          /\ on_key.account \in 1..L
      BY <2>4, <3>1, <3>4, <3>5
    <3>7. binding_log(accounts)[on_key.account] =
             [id |-> on_key.account, path |-> accounts.accounts[on_key.account].path]
      BY <3>2, <3>6
    <3> QED BY <2>2, <3>6, <3>7 DEF verify_binding, prove_binding_at, account_binding_leaf
  <2> HIDE DEF n
  <2> QED BY <2>2, <2>3, <2>4 DEF prove_sealed_balance, assemble, n
<1> QED BY <1>1, JournalInvariant, PTL

-----------------------------------------------------------------------------
(***************************************************************************)
(* The journal implements SealedBooks.                                     *)
(***************************************************************************)
\* The refinement mapping, by name.
BookedDates == [i \in EntryIndices |-> books.entries[i].booking_date]

TakenSeals ==
    [i \in DOMAIN seals |-> [end |-> SealedEnd(i), size |-> Len(seals[i].tree_head)]]

\* The booking dates of the books are dates.
LEMMA BookedDatesAreDates ==
    ASSUME NEW bs, bs.entries \in Seq(Recordable)
    PROVE  LET dates == [i \in DOMAIN bs.entries |-> bs.entries[i].booking_date]
           IN  /\ dates \in Seq(Dates) /\ Len(dates) = Len(bs.entries)
               /\ Len(bs.entries) \in Nat /\ DOMAIN bs.entries = 1..Len(bs.entries)
               /\ DOMAIN dates = 1..Len(bs.entries)
<1> DEFINE n == Len(bs.entries)
           dates == [i \in DOMAIN bs.entries |-> bs.entries[i].booking_date]
<1>1. n \in Nat /\ DOMAIN bs.entries = 1..n /\ \A i \in 1..n : bs.entries[i] \in Recordable
  OBVIOUS
<1>2. \A i \in 1..n : bs.entries[i].booking_date \in Dates
  BY <1>1, DraftsAreSound
<1> HIDE DEF n
<1>3. dates \in [1..n -> Dates]
  BY <1>1, <1>2
<1> HIDE DEF dates
<1>4. dates \in Seq(Dates) /\ Len(dates) = n /\ DOMAIN dates = 1..n
  BY <1>1, <1>3
<1> QED BY <1>1, <1>4 DEF n, dates

\* A new journal is new abstract books.
LEMMA InitKeepsPromise == ASSUME Init PROVE Promise!SealedInit
<1>1. BookedDates = <<>>
  <2>1. EntryIndices = {}
    BY DEF Init, Books_new, EntryIndices
  <2> QED BY <2>1 DEF BookedDates
<1>2. TakenSeals = <<>>
  <2>1. DOMAIN seals = {}
    BY DEF Init
  <2> QED BY <2>1 DEF TakenSeals
<1>3. calendar.sealed_through \in Dates \cup {0}
  BY InitIInv DEF IInv, WellFormed, IsCalendar, NoDate
<1> QED BY <1>1, <1>2, <1>3 DEF Promise!SealedInit, BookedDates, TakenSeals

\* Recording books after the frozen date, or changes nothing.
LEMMA RecordingBooks ==
    ASSUME IInv, \/ \E draft \in Drafts : Record(draft)
                 \/ \E batch \in Batches : RecordBatch(batch)
    PROVE  Promise!Book \/ UNCHANGED Promise!sealed_vars
<1> DEFINE n == Len(books.entries)
           m == Len(books'.entries)
           frozen == calendar.sealed_through
<1>1. UNCHANGED <<accounts, calendar, seals>>
  BY DEF Record, RecordBatch
<1>2. BooksInv(books', Recordable) /\ Extends(books', books, Sealable)
  BY RecordingFollows DEF Follows
<1>3. books.entries \in Seq(Recordable) /\ books'.entries \in Seq(Recordable)
  BY <1>2 DEF IInv, BooksInv
<1>4. /\ BookedDates \in Seq(Dates) /\ Len(BookedDates) = n /\ n \in Nat
      /\ DOMAIN books.entries = 1..n /\ DOMAIN BookedDates = 1..n
  BY <1>3, BookedDatesAreDates DEF BookedDates, EntryIndices
<1>5. /\ BookedDates' \in Seq(Dates) /\ Len(BookedDates') = m /\ m \in Nat
      /\ DOMAIN books'.entries = 1..m /\ DOMAIN BookedDates' = 1..m
  BY <1>3, BookedDatesAreDates DEF BookedDates, EntryIndices
<1>6. /\ 1..n \subseteq 1..m
      /\ \A i \in 1..n : books'.entries[i] = books.entries[i]
      /\ \A i \in 1..m : i \notin 1..n => books'.entries[i] \in Sealable
  BY <1>2, <1>4, <1>5 DEF Extends, Indices
<1>7. TakenSeals' = TakenSeals /\ calendar' = calendar
  BY <1>1 DEF TakenSeals, SealedEnd
<1>8. \A d \in Sealable : d.booking_date > frozen
  <2>1. frozen \in Nat /\ frozen <= calendar.sealed_through
    BY DatesArePositive DEF IInv, WellFormed, IsCalendar, NoDate
  <2>2. ASSUME NEW d \in Sealable PROVE d.booking_date \in Nat /\ ~(d.booking_date <= frozen)
    <3>1. ~(d.booking_date <= frozen)
      BY <2>1, SealableIsLater
    <3>2. d.booking_date \in Dates
      BY DraftsAreSound
    <3> QED BY <3>1, <3>2, DatesArePositive
  <2> HIDE DEF frozen
  <2> QED BY <2>1, <2>2
<1>9. \A i \in 1..n : BookedDates'[i] = BookedDates[i]
  BY <1>4, <1>5, <1>6 DEF BookedDates, EntryIndices
<1>10. \A i \in 1..m : i > n => BookedDates'[i] > frozen
  BY <1>4, <1>5, <1>6, <1>8 DEF BookedDates, EntryIndices
<1>11. CASE m = n
  <2>1. BookedDates' = BookedDates
    BY <1>4, <1>5, <1>9, <1>11 DEF BookedDates, EntryIndices
  <2> QED BY <1>7, <2>1 DEF Promise!sealed_vars, BookedDates, TakenSeals
<1>12. CASE m # n
  <2>1. m > n
    <3> HIDE DEF m, n
    <3> QED BY <1>4, <1>5, <1>6, <1>12
  <2> HIDE DEF m, n
  <2>2. /\ BookedDates' \in Seq(Dates)
        /\ Len(BookedDates') > Len(BookedDates)
        /\ \A i \in DOMAIN BookedDates : BookedDates'[i] = BookedDates[i]
        /\ \A i \in DOMAIN BookedDates' : i > Len(BookedDates) => BookedDates'[i] > frozen
    BY <1>4, <1>5, <1>9, <1>10, <2>1
  <2> QED BY <1>7, <2>2 DEF Promise!Book, BookedDates, TakenSeals
<1> QED BY <1>11, <1>12

\* A calendar that moves freezes more dates, or none.
LEMMA PeriodsFreeze ==
    ASSUME IInv, \/ \E p \in NewPeriods : DefinePeriod(p)
                 \/ \E id \in PeriodIds, to \in PeriodState : TransitionPeriod(id, to)
    PROVE  (\E date \in Dates : Promise!Freeze(date)) \/ UNCHANGED Promise!sealed_vars
<1>1. CalendarMoved(calendar', calendar) /\ UNCHANGED <<accounts, books, seals>>
  BY PeriodSteps
<1>2. BookedDates' = BookedDates
  BY <1>1 DEF BookedDates, EntryIndices
<1>3. \A i \in DOMAIN seals : SealedEnd(i)' = SealedEnd(i)
  BY <1>1, SealsOutlastMoves DEF IInv, SealedEnd
<1>4. TakenSeals' = TakenSeals
  BY <1>1, <1>3 DEF TakenSeals
<1>5. CASE calendar'.sealed_through = calendar.sealed_through
  BY <1>2, <1>4, <1>5 DEF Promise!sealed_vars, BookedDates, TakenSeals
<1>6. CASE calendar'.sealed_through # calendar.sealed_through
  <2> DEFINE date == calendar'.sealed_through
  <2>1. date \in Dates /\ date > calendar.sealed_through
    BY <1>1, <1>6 DEF CalendarMoved
  <2>2. Promise!Freeze(date)
    BY <1>2, <1>4, <2>1 DEF Promise!Freeze, BookedDates, TakenSeals
  <2> QED BY <2>1, <2>2
<1> QED BY <1>5, <1>6

\* A function that continues a sequence by one value is that value appended.
LEMMA AppendOne ==
    ASSUME NEW n \in Nat, NEW q, NEW r, NEW x,
           q = [i \in 1..n |-> q[i]], r = [i \in 1..(n + 1) |-> r[i]],
           \A i \in 1..n : r[i] = q[i], r[n + 1] = x
    PROVE  r = Append(q, x)
<1> DEFINE S == {q[i] : i \in 1..n} \cup {x}
<1>1. q \in [1..n -> S] /\ x \in S
  OBVIOUS
<1> HIDE DEF S
<1>2. q \in Seq(S) /\ Len(q) = n
  BY <1>1, SMTT(30)
<1>3. /\ Append(q, x) \in Seq(S) /\ Len(Append(q, x)) = n + 1
      /\ \A i \in 1..n : Append(q, x)[i] = q[i]
      /\ Append(q, x)[n + 1] = x
  BY <1>1, <1>2
<1>4. DOMAIN Append(q, x) = 1..(n + 1)
      /\ Append(q, x) = [i \in 1..(n + 1) |-> Append(q, x)[i]]
  BY <1>3
<1>5. \A i \in 1..(n + 1) : i \in 1..n \/ i = n + 1
  OBVIOUS
<1>6. \A i \in 1..(n + 1) : r[i] = Append(q, x)[i]
  BY <1>3, <1>5
<1> DEFINE s == Append(q, x)
<1> HIDE DEF s
<1>7. s = [i \in 1..(n + 1) |-> s[i]] /\ \A i \in 1..(n + 1) : r[i] = s[i]
  BY <1>4, <1>6 DEF s
<1>8. r = s
  BY <1>7
<1> QED BY <1>8 DEF s

\* Sealing a period closes over the whole log, past every frozen date.
LEMMA SealingSeals ==
    ASSUME IInv, NEW id \in PeriodIds, SealPeriod(id)
    PROVE  \E date \in Dates : Promise!SealThrough(date)
<1>1. PICK date \in Dates :
        /\ CalendarMoved(calendar', calendar) /\ UNCHANGED <<accounts, books>>
        /\ date > calendar.sealed_through /\ calendar'.sealed_through = date
        /\ calendar'.periods[id].end = date
        /\ \E s : seals' = Append(seals, s) /\ s.period = id /\ s.tree_head = books.log
  BY NewSealStands
<1>2. PICK s : seals' = Append(seals, s) /\ s.period = id /\ s.tree_head = books.log
  BY <1>1
<1>3. PICK n \in Nat :
        /\ DOMAIN seals = 1..n /\ DOMAIN seals' = 1..(n + 1)
        /\ \A k \in 1..n : seals'[k] = seals[k]
        /\ seals'[n + 1] = s
  <2>1. /\ Len(seals) \in Nat /\ DOMAIN seals = 1..Len(seals)
        /\ DOMAIN seals' = 1..Len(seals) \cup {Len(seals) + 1}
        /\ \A k \in 1..Len(seals) : seals'[k] = seals[k]
        /\ seals'[Len(seals) + 1] = s
    BY <1>2, AppendIsSeq DEF IInv
  <2>2. PICK m \in Nat : m = Len(seals)
    BY <2>1
  <2>3. 1..m \cup {m + 1} = 1..(m + 1)
    OBVIOUS
  <2>4. /\ DOMAIN seals = 1..m /\ DOMAIN seals' = 1..(m + 1)
        /\ \A k \in 1..m : seals'[k] = seals[k]
        /\ seals'[m + 1] = s
    BY <2>1, <2>2, <2>3
  <2> QED BY <2>4
<1>4. BookedDates' = BookedDates /\ Len(books.log) = Len(BookedDates)
  <2>1. BookedDates' = BookedDates
    BY <1>1 DEF BookedDates, EntryIndices
  <2>2. books.entries \in Seq(Recordable) /\ verify_log(books)
    BY DEF IInv, BooksInv
  <2>3. Len(BookedDates) = Len(books.entries) /\ Len(books.entries) \in Nat
        /\ DOMAIN books.entries = 1..Len(books.entries)
    BY <2>2, BookedDatesAreDates DEF BookedDates, EntryIndices
  <2>4. DOMAIN books.log = 1..Len(books.entries) /\ IsMap(books.log)
    BY <2>2, <2>3 DEF verify_log, IsMap
  <2>5. Len(books.log) = Len(books.entries)
    BY <2>3, <2>4
  <2> QED BY <2>1, <2>3, <2>5
<1>5. ASSUME NEW i \in 1..n PROVE SealedEnd(i)' = SealedEnd(i)
  BY <1>1, <1>3, SealsOutlastMoves DEF IInv, SealedEnd
<1>6. SealedEnd(n + 1)' = date
  BY <1>1, <1>2, <1>3 DEF SealedEnd
<1>7. PICK size \in Nat : size = Len(BookedDates) /\ size = Len(books.log)
  <2>1. books.entries \in Seq(Recordable)
    BY DEF IInv, BooksInv
  <2>2. Len(BookedDates) \in Nat
    BY <2>1, BookedDatesAreDates DEF BookedDates, EntryIndices
  <2> QED BY <1>4, <2>2
<1> DEFINE new == [end |-> date, size |-> size]
<1>8. /\ DOMAIN TakenSeals = 1..n /\ TakenSeals = [i \in 1..n |-> TakenSeals[i]]
      /\ DOMAIN TakenSeals' = 1..(n + 1)
      /\ TakenSeals' = [i \in 1..(n + 1) |-> TakenSeals'[i]]
  BY <1>3 DEF TakenSeals
<1>9. \A i \in 1..n : TakenSeals'[i] = TakenSeals[i]
  BY <1>3, <1>5 DEF TakenSeals
<1>10. TakenSeals'[n + 1] = new
  <2>1. n + 1 \in DOMAIN seals'
    BY <1>3
  <2>2. TakenSeals'[n + 1] = [end |-> SealedEnd(n + 1)', size |-> Len(seals'[n + 1].tree_head)]
    BY <2>1 DEF TakenSeals
  <2> QED BY <1>2, <1>3, <1>6, <1>7, <2>2
<1>11. TakenSeals' = Append(TakenSeals, new)
  <2> HIDE DEF new
  <2> QED BY <1>8, <1>9, <1>10, AppendOne
<1>12. Promise!SealThrough(date)
  BY <1>1, <1>4, <1>7, <1>11 DEF Promise!SealThrough, BookedDates, TakenSeals
<1> QED BY <1>12

\* Every behaviour of the journal is one of SealedBooks: nothing is ever booked
\* on or before a date that is sealed.
THEOREM JournalKeepsSealedBooks == Spec => KeepsSealedBooks
<1>1. Init => Promise!SealedInit
  BY InitKeepsPromise
<1>2. IInv /\ [Next]_vars => [Promise!SealedNext]_(Promise!sealed_vars)
  <2> SUFFICES ASSUME IInv, [Next]_vars PROVE [Promise!SealedNext]_(Promise!sealed_vars)
    OBVIOUS
  <2>1. CASE \/ \E draft \in Drafts : Record(draft)
             \/ \E batch \in Batches : RecordBatch(batch)
    BY <2>1, RecordingBooks DEF Promise!SealedNext
  <2>2. CASE \/ \E account \in NewAccounts : RegisterAccount(account)
             \/ \E id \in Managed, on \in ClosingDates : CloseAccount(id, on)
             \/ \E id \in Managed : ReopenAccount(id)
             \/ \E id \in Managed, limit \in Limits : SetLimit(id, limit)
    <3>1. UNCHANGED <<calendar, books, seals>>
      BY <2>2, MasterDataSteps DEF RegistryStep
    <3> QED BY <3>1 DEF Promise!sealed_vars, EntryIndices, SealedEnd
  <2>3. CASE \/ \E p \in NewPeriods : DefinePeriod(p)
             \/ \E id \in PeriodIds, to \in PeriodState : TransitionPeriod(id, to)
    BY <2>3, PeriodsFreeze DEF Promise!SealedNext
  <2>4. ASSUME NEW id \in PeriodIds, SealPeriod(id) PROVE [Promise!SealedNext]_(Promise!sealed_vars)
    BY <2>4, SealingSeals DEF Promise!SealedNext
  <2>5. CASE UNCHANGED vars
    BY <2>5 DEF vars, Promise!sealed_vars, EntryIndices, SealedEnd
  <2> QED BY <2>1, <2>2, <2>3, <2>4, <2>5 DEF Next
<1> QED BY <1>1, <1>2, JournalInvariant, PTL DEF Spec, KeepsSealedBooks, Promise!SealedSpec

-----------------------------------------------------------------------------
(***************************************************************************)
(* The clients of the in-memory store.                                     *)
(***************************************************************************)
\* The closing entries a client may come to hold.
ClosingEntry ==
    [id : ClosingKeys, key : ClosingKeys, booking_date : {1}, value_date : {1},
     postings : {q \in Seq(Posting) : Len(q) <= MaxPostings}, reverses : {None},
     original_booking_date : {NoDate}, description : {"closing"},
     memo : [kind : {"closing"}, provenance : Nat, document : {None}]]

Bookable == Recordable \cup ClosingEntry

\* A client holds what was good when it looked.  Nothing is said of the journal it
\* will meet: the books are exact whatever is delivered to them, and when.
StoreIInv ==
    /\ BooksInv(books, Bookable)
    /\ Reversals(books)
    /\ RegInv(accounts)
    /\ held \in [Clients -> Seq(Bookable)]

\* What a client may hold is typed, and has an idempotency key.
LEMMA BookableIsSound == Sound(Bookable) /\ \A e \in Bookable : "key" \in DOMAIN e
<1>1. ASSUME NEW e \in ClosingEntry
      PROVE  e.postings \in Seq(Posting) /\ Len(e.postings) <= MaxPostings /\ "key" \in DOMAIN e
  BY DEF ClosingEntry
<1>2. \A e \in Recordable : "key" \in DOMAIN e
  BY DraftsAreTyped DEF Recordable
<1> QED BY <1>1, <1>2, DraftsAreSound DEF Sound, Bookable

\* A finite set of typed elements is read as a sequence of them.
LEMMA SetToSeqIsTyped ==
    ASSUME NEW P, NEW S \in SUBSET P, IsFiniteSet(S)
    PROVE  SetToSeq(S) \in Seq(P)
<1> DEFINE n == Cardinality(S)
           Q(f) == f \in [1..n -> S] /\ IsInjective(f)
<1>1. n \in Nat
  BY FS_CardinalityType
<1>2. \E f : Q(f)
  <2>1. ExistsBijection(1..n, S)
    BY FS_CardinalityType
  <2>2. PICK f : f \in Bijection(1..n, S)
    BY <2>1 DEF ExistsBijection
  <2> QED BY <2>2 DEF Bijection, Injection, IsInjective
<1>3. SetToSeq(S) = CHOOSE f \in [1..n -> S] : IsInjective(f)
  BY DEF SetToSeq
<1>4. SetToSeq(S) \in [1..n -> S]
  BY <1>2, <1>3
<1> HIDE DEF n
<1> QED BY <1>1, <1>4

\* One step of the sum that equity takes.
OffsetStep(tb, acc, on_key) ==
    LET sum == acc.sum + signed_net(tb[on_key]) IN
    [sum |-> sum, ok |-> acc.ok /\ sum \in (-MaxMinor - 1)..MaxMinor]

Carried == INSTANCE Folding WITH Op <- OffsetStep

\* A sum that was checked at every step is a number.
LEMMA OffsetIsNumber ==
    ASSUME NEW reg, NEW tb, IsFiniteSet(DOMAIN tb), NEW c, Offset(reg, tb, c).ok
    PROVE  Offset(reg, tb, c).sum \in Int
<1> DEFINE K == {on_key \in Moved(reg, tb) : on_key.currency = c}
           order == OrderBy(K, KeyLess)
           n == Cardinality(K)
           base == [sum |-> 0, ok |-> TRUE]
<1>1. n \in Nat /\ DOMAIN order = 1..n
  <2>1. K \in SUBSET DOMAIN tb
    BY DEF Moved
  <2>2. n \in Nat
    <3> HIDE DEF K
    <3> QED BY <2>1, FS_Subset, FS_CardinalityType
  <2> QED BY <2>2 DEF OrderBy
<1>2. Offset(reg, tb, c) = Carried!Fold(tb, base, order)
  BY DEF Offset, OffsetStep, FoldLeft, MapThenFoldSet, Max,
         Carried!Fold, Carried!FoldLeft, Carried!MapThenFoldSet, Carried!Max
<1> HIDE DEF order, n, base
<1>3. PICK t : Carried!IsTrace(t, tb, base, order, n) /\ Carried!Fold(tb, base, order) = t[n]
  BY <1>1, Carried!FoldTrace
<1>4. t[0] = base /\ \A j \in 0..(n - 1) : t[j + 1] = OffsetStep(tb, t[j], order[j + 1])
  BY <1>3 DEF Carried!IsTrace
<1>5. CASE n = 0
  BY <1>2, <1>3, <1>4, <1>5 DEF base
<1>6. CASE n # 0
  <2> DEFINE s == t[n - 1].sum + signed_net(tb[order[n]])
  <2>1. n - 1 \in 0..(n - 1) /\ (n - 1) + 1 = n
    BY <1>1, <1>6
  <2>2. t[n] = OffsetStep(tb, t[n - 1], order[n])
    BY <1>4, <2>1
  <2>3. t[n] = [sum |-> s, ok |-> t[n - 1].ok /\ s \in (-MaxMinor - 1)..MaxMinor]
    BY <2>2 DEF OffsetStep
  <2> HIDE DEF s
  <2>4. t[n].sum = s /\ t[n].ok = (t[n - 1].ok /\ s \in (-MaxMinor - 1)..MaxMinor)
    BY <2>3
  <2>5. s \in (-MaxMinor - 1)..MaxMinor
    BY <1>2, <1>3, <2>4
  <2>6. MaxMinor \in Nat
    BY BoundsArePositive
  <2>7. s \in Int
    BY <2>5, <2>6
  <2> QED BY <1>2, <1>3, <2>4, <2>7
<1> QED BY <1>5, <1>6

\* The postings of a closing are typed.
LEMMA ClosingPostingsAreTyped ==
    ASSUME StoreIInv, CanCloseBooks(accounts, books.balances)
    PROVE  closing_postings(accounts, books.balances) \in Seq(Posting)
<1> DEFINE tb == books.balances
           flat == {Leg(on_key.account, on_key.currency, inverse(net(tb[on_key]).side),
                        net(tb[on_key]).magnitude) : on_key \in Moved(accounts, tb)}
           result == {c \in currencies(tb) : Offset(accounts, tb, c).sum # 0}
           carry == {Leg(equity, c, IF Offset(accounts, tb, c).sum > 0 THEN "Debit" ELSE "Credit",
                         Distance(Offset(accounts, tb, c).sum, 0)) : c \in result}
<1>1. /\ IsFiniteSet(DOMAIN tb) /\ HoldsBalances(tb)
      /\ \A on_key \in DOMAIN tb : on_key.account \in Nat /\ on_key.currency \in STRING
  BY BookableIsSound, BooksHoldBalances, BalanceKeysAreFinite DEF StoreIInv
<1>2. equity \in Nat
  <2>1. equity \in Handles(accounts) /\ accounts.accounts \in Seq(Account)
    BY DEF CanCloseBooks, StoreIInv, RegInv
  <2> QED BY <2>1, HandlesArePositions
<1>3. ASSUME NEW account \in Nat, NEW currency \in STRING, NEW side \in Direction, NEW magnitude \in Int
      PROVE  Leg(account, currency, side, magnitude) \in Posting
  BY ClosedLayerIsALayer DEF Leg, Posting
<1>4. flat \in SUBSET Posting
  <2> SUFFICES ASSUME NEW on_key \in Moved(accounts, tb)
               PROVE  Leg(on_key.account, on_key.currency, inverse(net(tb[on_key]).side),
                          net(tb[on_key]).magnitude) \in Posting
    OBVIOUS
  <2>1. on_key \in DOMAIN tb
    BY DEF Moved
  <2>2. tb[on_key].debits \in Int /\ tb[on_key].credits \in Int
    BY <1>1, <2>1 DEF HoldsBalances, IsBalance
  <2>3. net(tb[on_key]).magnitude \in Int
    BY <2>2 DEF net, Distance
  <2>4. inverse(net(tb[on_key]).side) \in Direction
    BY DEF inverse, Direction
  <2> QED BY <1>1, <1>3, <2>1, <2>3, <2>4
<1>5. ASSUME NEW c \in currencies(tb)
      PROVE  /\ c \in STRING /\ Distance(Offset(accounts, tb, c).sum, 0) \in Int
             /\ (IF Offset(accounts, tb, c).sum > 0 THEN "Debit" ELSE "Credit") \in Direction
  <2>1. c \in STRING
    BY <1>1 DEF currencies
  <2>2. Offset(accounts, tb, c).sum \in Int
    <3> HIDE DEF tb
    <3> QED BY <1>1, OffsetIsNumber DEF CanCloseBooks, tb
  <2> QED BY <2>1, <2>2 DEF Distance, Direction
<1>6. carry \in SUBSET Posting
  <2> SUFFICES ASSUME NEW c \in result
               PROVE  Leg(equity, c, IF Offset(accounts, tb, c).sum > 0 THEN "Debit" ELSE "Credit",
                          Distance(Offset(accounts, tb, c).sum, 0)) \in Posting
    OBVIOUS
  <2>1. c \in currencies(tb)
    OBVIOUS
  <2> QED BY <1>2, <1>3, <1>5, <2>1
<1>7. IsFiniteSet(flat)
  <2> DEFINE M == Moved(accounts, tb)
             f == [on_key \in M |-> Leg(on_key.account, on_key.currency,
                                        inverse(net(tb[on_key]).side), net(tb[on_key]).magnitude)]
  <2>1. f \in Surjection(M, flat)
    BY DEF Surjection
  <2>2. M \in SUBSET DOMAIN tb
    BY DEF Moved
  <2> HIDE DEF M, f, flat, tb
  <2>3. IsFiniteSet(M)
    BY <1>1, <2>2, FS_Subset
  <2> QED BY <2>1, <2>3, FS_Surjection
<1>8. IsFiniteSet(carry)
  <2> DEFINE C == currencies(tb)
             D == DOMAIN tb
             f == [on_key \in D |-> on_key.currency]
             g == [c \in result |->
                      Leg(equity, c, IF Offset(accounts, tb, c).sum > 0 THEN "Debit" ELSE "Credit",
                          Distance(Offset(accounts, tb, c).sum, 0))]
  <2>1. f \in Surjection(D, C)
    BY DEF Surjection, currencies
  <2>2. g \in Surjection(result, carry)
    BY DEF Surjection
  <2>3. result \in SUBSET C /\ IsFiniteSet(D)
    BY <1>1
  <2> HIDE DEF C, D, f, g, result, carry, tb
  <2>4. IsFiniteSet(C)
    BY <2>1, <2>3, FS_Surjection
  <2>5. IsFiniteSet(result)
    BY <2>3, <2>4, FS_Subset
  <2> QED BY <2>2, <2>5, FS_Surjection
<1>9. closing_postings(accounts, tb) = SetToSeq(flat) \o SetToSeq(carry)
  BY DEF closing_postings
<1> HIDE DEF flat, carry
<1> DEFINE P == Posting
<1>10. flat \in SUBSET P /\ carry \in SUBSET P
  BY <1>4, <1>6
<1> HIDE DEF P
<1>11. SetToSeq(flat) \in Seq(P) /\ SetToSeq(carry) \in Seq(P)
  BY <1>7, <1>8, <1>10, SetToSeqIsTyped
<1>12. SetToSeq(flat) \o SetToSeq(carry) \in Seq(P)
  BY <1>11
<1> QED BY <1>9, <1>12 DEF P

\* The closing entry a client prepares is one.
LEMMA ClosingEntryIsTyped ==
    ASSUME StoreIInv, NEW k \in ClosingKeys, CanCloseBooks(accounts, books.balances),
           seal(accounts, calendar, closing_entry(k))
    PROVE  closing_entry(k) \in ClosingEntry
<1> DEFINE ps == closing_postings(accounts, books.balances)
           size == Len(books.entries)
<1>1. closing_entry(k) =
        [id |-> k, key |-> k, booking_date |-> 1, value_date |-> 1, postings |-> ps,
         reverses |-> None, original_booking_date |-> NoDate, description |-> "closing",
         memo |-> [kind |-> "closing", provenance |-> size, document |-> None]]
  BY DEF closing_entry
<1>2. ps \in Seq(Posting) /\ size \in Nat
  BY ClosingPostingsAreTyped DEF StoreIInv, BooksInv
<1> HIDE DEF ps, size
<1>3. Len(ps) <= MaxPostings
  BY <1>1, <1>2, BoundsArePositive DEF seal
<1>4. ps \in {q \in Seq(Posting) : Len(q) <= MaxPostings}
  BY <1>2, <1>3
<1>5. [kind |-> "closing", provenance |-> size, document |-> None]
        \in [kind : {"closing"}, provenance : Nat, document : {None}]
  BY <1>2
<1> QED BY <1>1, <1>4, <1>5 DEF ClosingEntry

\* The initial state of the store.
LEMMA StoreInitIInv == StoreInit => StoreIInv
<1> SUFFICES ASSUME StoreInit PROVE StoreIInv
  OBVIOUS
<1>1. BooksInv(books, Bookable) /\ Reversals(books)
  BY NewBooksAreExact DEF StoreInit, Init
<1>2. RegInv(accounts)
  BY ChartRegisters DEF StoreInit, Init
<1>3. held \in [Clients -> Seq(Bookable)]
  BY DEF StoreInit
<1> QED BY <1>1, <1>2, <1>3 DEF StoreIInv

\* A client that takes up what it may hold leaves the rest alone.
LEMMA HoldingIInv ==
    ASSUME StoreIInv, NEW c \in Clients, NEW batch \in Seq(Bookable),
           held' = [held EXCEPT ![c] = batch], UNCHANGED <<accounts, books>>
    PROVE  StoreIInv'
<1>1. held' \in [Clients -> Seq(Bookable)]
  BY DEF StoreIInv
<1> QED BY <1>1 DEF StoreIInv

\* Validating a batch, and preparing a closing.
LEMMA PreparingIInv ==
    ASSUME StoreIInv,
           \/ \E c \in Clients, batch \in Batches : Validate(c, batch)
           \/ \E c \in Clients, k \in ClosingKeys : PrepareClosing(c, k)
    PROVE  StoreIInv'
<1>1. ASSUME NEW c \in Clients, NEW batch \in Batches, Validate(c, batch) PROVE StoreIInv'
  <2>1. PICK n \in 1..MaxBatch : batch \in [1..n -> Drafts]
    BY DEF Batches
  <2>2. \A i \in 1..n : batch[i] \in Bookable
    BY <1>1, <2>1, DraftsAreSound DEF Validate, IsWitnessed, Sealable, Bookable
  <2>3. n \in Nat /\ batch \in [1..n -> Bookable]
    BY <2>1, <2>2, BatchBound
  <2>4. batch \in Seq(Bookable)
    <3> DEFINE S == Bookable
    <3>1. n \in Nat /\ batch \in [1..n -> S]
      BY <2>3
    <3> HIDE DEF S
    <3>2. batch \in Seq(S)
      BY <3>1
    <3> QED BY <3>2 DEF S
  <2> QED BY <1>1, <2>4, HoldingIInv DEF Validate
<1>2. ASSUME NEW c \in Clients, NEW k \in ClosingKeys, PrepareClosing(c, k) PROVE StoreIInv'
  <2> DEFINE e == closing_entry(k)
  <2>1. e \in Bookable
    BY <1>2, ClosingEntryIsTyped DEF PrepareClosing, Bookable
  <2>2. held' = [held EXCEPT ![c] = <<e>>] /\ UNCHANGED <<accounts, books>>
    BY <1>2 DEF PrepareClosing
  <2> HIDE DEF e
  <2>3. <<e>> \in Seq(Bookable)
    BY <2>1
  <2> QED BY <2>2, <2>3, HoldingIInv
<1> QED BY <1>1, <1>2

\* A delivery is applied by the rules of the journal it meets.
LEMMA DeliveryFollows ==
    ASSUME StoreIInv, NEW c \in Clients, Append_(c)
    PROVE  /\ BooksInv(books', Bookable) /\ Follows(books', books, accounts, Bookable)
           /\ UNCHANGED <<accounts, held>>
<1> DEFINE E == Bookable
<1>1. /\ books' = record_batch(books, accounts, held[c]) /\ UNCHANGED <<accounts, held>>
      /\ held[c] \in Seq(E) /\ BooksInv(books, E) /\ Reversals(books) /\ Sound(E)
  BY BookableIsSound DEF Append_, StoreIInv
<1> HIDE DEF E
<1>2. BooksInv(books', E)
  BY <1>1, BatchKeeps
<1>3. Follows(books', books, accounts, E)
  BY <1>1, BatchFollows
<1> QED BY <1>1, <1>2, <1>3 DEF E

\* Every step of the store keeps the invariant.
LEMMA StoreNextIInv == StoreIInv /\ [StoreNext]_storeVars => StoreIInv'
<1> SUFFICES ASSUME StoreIInv, [StoreNext]_storeVars PROVE StoreIInv'
  OBVIOUS
<1>1. CASE \/ \E c \in Clients, batch \in Batches : Validate(c, batch)
           \/ \E c \in Clients, k \in ClosingKeys : PrepareClosing(c, k)
  BY <1>1, PreparingIInv
<1>2. ASSUME NEW c \in Clients, Append_(c) PROVE StoreIInv'
  BY <1>2, DeliveryFollows DEF StoreIInv, Follows
<1>3. CASE UNCHANGED <<accounts, books, held>>
  BY <1>3 DEF StoreIInv
<1>4. CASE \/ \E clearing \in Assignments : Clear(clearing)
           \/ \E clearing \in Assignments, on \in ResetDates : ResetClearing(clearing.id, on)
           \/ \E p \in NewPeriods : StorePeriod(p)
           \/ \E id \in PeriodIds, to \in PeriodState : MovePeriod(id, to)
           \/ \E id \in PeriodIds : StoreSeal(id)
           \/ UNCHANGED storeVars
  <2>1. UNCHANGED <<accounts, books, held>>
    BY <1>4 DEF Clear, ResetClearing, StorePeriod, MovePeriod, TransitionPeriod, StoreSeal, SealPeriod,
                storeVars
  <2> QED BY <1>3, <2>1
<1>5. ASSUME NEW id \in 1..MaxAccounts, NEW account \in NewAccounts,
             StoreAccount([id |-> id, account |-> account])
      PROVE  StoreIInv'
  <2>1. account \in Account
    BY ChartIsTyped
  <2>2. RegInv(accounts') /\ UNCHANGED <<books, held>>
    BY <1>5, <2>1, RestoreKeeps DEF StoreAccount, StoreIInv
  <2> QED BY <2>2 DEF StoreIInv
<1> QED BY <1>1, <1>2, <1>4, <1>5 DEF StoreNext

\* However many clients share the store and however late they deliver, its books
\* are exact and its registry is what its operations promise.
THEOREM StoreInvariant == StoreSpec => []StoreIInv
  BY StoreInitIInv, StoreNextIInv, PTL DEF StoreSpec

\* A client that delivers a recorded batch again changes nothing with it, whatever
\* was booked, registered, moved or sealed in between.
THEOREM RedeliveryChangesNothing == StoreSpec => []RedeliveryIsNoOp
<1>1. StoreIInv => RedeliveryIsNoOp
  <2> SUFFICES ASSUME StoreIInv, NEW c \in Clients,
                      \A n \in DOMAIN held[c] : \E i \in DOMAIN books.log :
                          books.log[i] = content_hash(held[c][n])
               PROVE  record_batch(books, accounts, held[c]) = books
    BY DEF RedeliveryIsNoOp
  <2> DEFINE E == Bookable
  <2>1. held[c] \in Seq(E) /\ BooksInv(books, E) /\ \A e \in E : "key" \in DOMAIN e
    BY BookableIsSound DEF StoreIInv
  <2> HIDE DEF E
  <2> QED BY <2>1, RecordedBatchIsReplayed
<1> QED BY <1>1, StoreInvariant, PTL

\* A restart rebuilds the registry from its records, every handle where it was.
THEOREM RestartIsExact == StoreSpec => []RestartExact
<1>1. StoreIInv => RestartExact
  BY FromRecordsRebuilds DEF StoreIInv, RestartExact
<1> QED BY <1>1, StoreInvariant, PTL

\* The books of the shared store are as exact as those of a journal of one's own,
\* although what is delivered was validated against books that are gone, and
\* closing entries were made of balances that have moved on.
THEOREM SharedBooksAreExact == StoreSpec => [](IndexesExact /\ ReversalsNet)
<1>1. StoreIInv => IndexesExact /\ ReversalsNet
  <2> SUFFICES ASSUME StoreIInv PROVE IndexesExact /\ ReversalsNet
    OBVIOUS
  <2> DEFINE E == Bookable
  <2>1. Sound(E) /\ BooksInv(books, E) /\ Reversals(books)
    BY BookableIsSound DEF StoreIInv
  <2> HIDE DEF E
  <2> QED BY <2>1, BooksAreIndexed, ReversalsOfBooksNet
<1> QED BY <1>1, StoreInvariant, PTL

\* A delivery is held to the limits that stand when it arrives, not to those that
\* stood when it was validated.
THEOREM SharedLimitsAreRespected == StoreSpec => LimitsRespected
<1>1. StoreIInv /\ [StoreNext]_storeVars => MovesWithinLimits
  <2> SUFFICES ASSUME StoreIInv, [StoreNext]_storeVars PROVE MovesWithinLimits
    OBVIOUS
  <2>1. CASE \E c \in Clients : Append_(c)
    BY <2>1, DeliveryFollows DEF Follows, MovedWithinLimits, MovesWithinLimits
  <2>2. CASE ~\E c \in Clients : Append_(c)
    <3>1. books' = books
      BY <2>2 DEF StoreNext, storeVars, Validate, PrepareClosing, Clear, ResetClearing, StoreAccount,
                  StorePeriod, MovePeriod, TransitionPeriod, StoreSeal, SealPeriod
    <3> QED BY <3>1 DEF get_or_zero, MovesWithinLimits
  <2> QED BY <2>1, <2>2
<1> QED BY <1>1, StoreInvariant, PTL DEF StoreSpec, LimitsRespected

-----------------------------------------------------------------------------
(***************************************************************************)
(* Closing entries.                                                        *)
(***************************************************************************)
\* An entry undoes, on every temporary key, what the first entries booked, those
\* it was made of.
ClosesPrefix(e, b) ==
    /\ e.memo.provenance \in 0..Len(b.entries)
    /\ \A on_key : Temporary(on_key) =>
          Effect(e.postings, on_key) =
              -NetOn(TrialBalanceOf(SubSeq(b.entries, 1, e.memo.provenance)), on_key)

\* An entry moves something, and on registered accounts only.
PostsSoundly(e) ==
    \A k \in DOMAIN e.postings : /\ e.postings[k].account \in Handles(accounts)
                                 /\ e.postings[k].amount > 0

\* Everything held or recorded does, and a closing entry closes what its maker
\* read, however long ago.
ClosingIInv ==
    /\ \A c \in Clients : \A n \in DOMAIN held[c] :
          PostsSoundly(held[c][n]) /\ (IsClosing(held[c][n]) => ClosesPrefix(held[c][n], books))
    /\ \A i \in Indices(books) :
          /\ PostsSoundly(books.entries[i])
          /\ IsClosing(books.entries[i]) =>
                ClosesPrefix(books.entries[i], books) /\ books.entries[i].memo.provenance < i

\* Every element of a finite set comes once in its sequence.
LEMMA SetToSeqEnumerates ==
    ASSUME NEW S, IsFiniteSet(S)
    PROVE  LET q == SetToSeq(S) IN
           /\ q \in Seq(S)
           /\ \A x \in S : \E n \in DOMAIN q : q[n] = x
           /\ \A m, n \in DOMAIN q : q[m] = q[n] => m = n
<1> DEFINE n == Cardinality(S)
           Q(f) == f \in [1..n -> S] /\ IsInjective(f)
           q == SetToSeq(S)
<1>1. n \in Nat
  BY FS_CardinalityType
<1>2. \E f : Q(f)
  <2>1. ExistsBijection(1..n, S)
    BY FS_CardinalityType
  <2>2. PICK f : f \in Bijection(1..n, S)
    BY <2>1 DEF ExistsBijection
  <2> QED BY <2>2 DEF Bijection, Injection, IsInjective
<1>3. q = CHOOSE f \in [1..n -> S] : IsInjective(f)
  BY DEF SetToSeq
<1>4. q \in [1..n -> S] /\ IsInjective(q)
  BY <1>2, <1>3
<1> HIDE DEF q
<1>5. q \in Injection(1..n, S)
  BY <1>4 DEF IsInjective, Injection
<1>6. Cardinality(1..n) = Cardinality(S)
  BY <1>1, FS_Interval
<1>7. q \in Surjection(1..n, S)
  BY <1>5, <1>6, FS_Injection
<1>8. q \in Seq(S)
  <2> HIDE DEF n
  <2> QED BY <1>1, <1>4
<1>9. \A x \in S : \E i \in DOMAIN q : q[i] = x
  BY <1>4, <1>7 DEF Surjection
<1>10. \A i, j \in DOMAIN q : q[i] = q[j] => i = j
  BY <1>4 DEF IsInjective
<1> QED BY <1>8, <1>9, <1>10 DEF q

\* A key of the books is the key of a posting, on a registered account.
LEMMA BalanceKeysAreHandles ==
    ASSUME StoreIInv, PostsToHandles, NEW on_key \in DOMAIN books.balances
    PROVE  /\ on_key = [account |-> on_key.account, currency |-> on_key.currency, layer |-> on_key.layer]
           /\ on_key.account \in Handles(accounts)
<1> DEFINE E == Bookable
<1>1. BooksInv(books, E)
  BY DEF StoreIInv
<1> HIDE DEF E
<1>2. books.sites[on_key] \in Seq(Site) /\ books.sites[on_key] # <<>>
      /\ Elements(books.sites[on_key]) = SitesFor(books, on_key)
  BY <1>1 DEF BooksInv, BalancesExact, SitesExact
<1>3. PICK s \in SitesFor(books, on_key) : TRUE
  <2>1. books.sites[on_key][1] \in Elements(books.sites[on_key])
    BY <1>2 DEF Elements
  <2> QED BY <1>2, <2>1
<1>4. /\ s.index \in Indices(books) /\ s.posting \in DOMAIN books.entries[s.index].postings
      /\ on_key = key_of(books.entries[s.index].postings[s.posting])
  BY <1>3 DEF SitesFor, resolve
<1> QED BY <1>4 DEF PostsToHandles, key_of

\* The leg that flattens a key takes its net away from it.
LEMMA LegFlattens ==
    ASSUME NEW row, IsBalance(row), NEW on_key, on_key.layer = closed_layer,
           on_key = [account |-> on_key.account, currency |-> on_key.currency, layer |-> on_key.layer]
    PROVE  LET leg == Leg(on_key.account, on_key.currency, inverse(net(row).side), net(row).magnitude)
           IN  key_of(leg) = on_key /\ Moves(leg, on_key) = -(row.debits - row.credits)
<1> DEFINE leg == Leg(on_key.account, on_key.currency, inverse(net(row).side), net(row).magnitude)
<1>1. key_of(leg) = on_key
  BY DEF key_of, Leg
<1>2. leg.direction = inverse(net(row).side) /\ leg.amount = net(row).magnitude
  BY DEF Leg
<1> HIDE DEF leg
<1>3. row.debits \in Int /\ row.credits \in Int
  BY DEF IsBalance
<1>4. Moves(leg, on_key) = IF leg.direction = "Debit" THEN leg.amount ELSE -leg.amount
  BY <1>1 DEF Moves
<1>5. CASE row.debits >= row.credits
  <2>1. leg.direction = "Credit" /\ leg.amount = row.debits - row.credits
    BY <1>2, <1>3, <1>5 DEF net, inverse, Distance
  <2> QED BY <1>1, <1>3, <1>4, <2>1 DEF leg
<1>6. CASE ~(row.debits >= row.credits)
  <2>1. leg.direction = "Debit" /\ leg.amount = row.credits - row.debits
    BY <1>2, <1>3, <1>6 DEF net, inverse, Distance
  <2> QED BY <1>1, <1>3, <1>4, <2>1 DEF leg
<1> QED BY <1>5, <1>6

\* Closing postings take from every temporary key exactly what it holds.
LEMMA ClosingEmpties ==
    ASSUME StoreIInv, PostsToHandles, CanCloseBooks(accounts, books.balances),
           NEW on_key, Temporary(on_key)
    PROVE  Effect(closing_postings(accounts, books.balances), on_key) = -NetOn(books.balances, on_key)
<1> DEFINE tb == books.balances
           M == Moved(accounts, tb)
           L(k) == Leg(k.account, k.currency, inverse(net(tb[k]).side), net(tb[k]).magnitude)
           flat == {L(k) : k \in M}
           result == {c \in currencies(tb) : Offset(accounts, tb, c).sum # 0}
           carry == {Leg(equity, c, IF Offset(accounts, tb, c).sum > 0 THEN "Debit" ELSE "Credit",
                         Distance(Offset(accounts, tb, c).sum, 0)) : c \in result}
           q == SetToSeq(flat)
           r == SetToSeq(carry)
           ps == closing_postings(accounts, tb)
<1>1. ps \in Seq(Posting) /\ ps = q \o r
  BY ClosingPostingsAreTyped DEF closing_postings
<1>2. IsFiniteSet(DOMAIN tb) /\ HoldsBalances(tb)
  BY BookableIsSound, BooksHoldBalances, BalanceKeysAreFinite DEF StoreIInv
<1>3. IsFiniteSet(flat)
  <2> DEFINE f == [k \in M |-> L(k)]
  <2>1. f \in Surjection(M, flat)
    BY DEF Surjection
  <2>2. M \in SUBSET DOMAIN tb
    BY DEF Moved
  <2> HIDE DEF M, f, flat, tb
  <2>3. IsFiniteSet(M)
    BY <1>2, <2>2, FS_Subset
  <2> QED BY <2>1, <2>3, FS_Surjection
<1>4. IsFiniteSet(carry)
  <2> DEFINE C == currencies(tb)
             D == DOMAIN tb
             f == [k \in D |-> k.currency]
             g == [c \in result |->
                      Leg(equity, c, IF Offset(accounts, tb, c).sum > 0 THEN "Debit" ELSE "Credit",
                          Distance(Offset(accounts, tb, c).sum, 0))]
  <2>1. f \in Surjection(D, C)
    BY DEF Surjection, currencies
  <2>2. g \in Surjection(result, carry)
    BY DEF Surjection
  <2>3. result \in SUBSET C /\ IsFiniteSet(D)
    BY <1>2
  <2> HIDE DEF C, D, f, g, result, carry, tb
  <2>4. IsFiniteSet(C)
    BY <2>1, <2>3, FS_Surjection
  <2>5. IsFiniteSet(result)
    BY <2>3, <2>4, FS_Subset
  <2> QED BY <2>2, <2>5, FS_Surjection
<1>5. ASSUME NEW k \in M PROVE key_of(L(k)) = k /\ Moves(L(k), k) = -NetOn(tb, k)
  <2>1. k \in DOMAIN tb /\ k.layer = closed_layer
    BY DEF Moved, InScope
  <2>2. k = [account |-> k.account, currency |-> k.currency, layer |-> k.layer]
    BY <2>1, BalanceKeysAreHandles
  <2>3. IsBalance(tb[k]) /\ get_or_zero(tb, k) = tb[k]
    BY <1>2, <2>1 DEF HoldsBalances, get_or_zero
  <2> QED BY <2>1, <2>2, <2>3, LegFlattens DEF NetOn
<1>6. ASSUME NEW leg \in carry PROVE key_of(leg) # on_key
  <2>1. key_of(leg).account = equity
    BY DEF Leg, key_of
  <2>2. AccountKinds[equity] \notin kinds
    BY DEF CanCloseBooks
  <2> QED BY <2>1, <2>2 DEF Temporary
<1>7. CASE on_key \in M
  <2>1. L(on_key) \in flat
    BY <1>7
  <2> HIDE DEF flat, carry
  <2>2. PICK m \in DOMAIN q : q[m] = L(on_key)
    BY <1>3, <2>1, SetToSeqEnumerates
  <2>3. /\ q \in Seq(flat) /\ r \in Seq(carry)
        /\ \A i, j \in DOMAIN q : q[i] = q[j] => i = j
    BY <1>3, <1>4, SetToSeqEnumerates
  <2> HIDE DEF q, r, L, M, ps
  <2>4. ASSUME NEW n \in DOMAIN ps, key_of(ps[n]) = on_key PROVE n = m
    <3>1. CASE n \in DOMAIN q
      <4>1. ps[n] = q[n] /\ q[n] \in flat
        BY <1>1, <2>3, <3>1
      <4>2. PICK k \in M : q[n] = L(k)
        BY <4>1 DEF flat
      <4>3. k = on_key
        BY <1>5, <2>4, <4>1, <4>2
      <4> QED BY <2>2, <2>3, <3>1, <4>2, <4>3
    <3>2. CASE n \notin DOMAIN q
      <4>1. n \in 1..(Len(q) + Len(r)) /\ n \notin 1..Len(q)
        BY <1>1, <2>3, <3>2
      <4>2. n - Len(q) \in 1..Len(r) /\ ps[n] = r[n - Len(q)]
        BY <1>1, <2>3, <4>1
      <4>3. ps[n] \in carry
        BY <2>3, <4>2
      <4> QED BY <1>6, <2>4, <4>3
    <3> QED BY <3>1, <3>2
  <2>5. m \in DOMAIN ps /\ ps[m] = L(on_key)
    BY <1>1, <2>2, <2>3
  <2>6. Effect(ps, on_key) = Moves(ps[m], on_key)
    BY <1>1, <2>4, <2>5, EffectOfOne
  <2>7. Moves(ps[m], on_key) = -NetOn(tb, on_key)
    BY <1>5, <1>7, <2>5
  <2> QED BY <2>6, <2>7 DEF ps
<1>8. CASE on_key \notin M
  <2> HIDE DEF flat, carry
  <2>1. q \in Seq(flat) /\ r \in Seq(carry)
    BY <1>3, <1>4, SetToSeqEnumerates
  <2>2. NetOn(tb, on_key) = 0
    <3>1. CASE on_key \in DOMAIN tb
      <4>1. on_key.account \in Handles(accounts)
        BY <3>1, BalanceKeysAreHandles
      <4>2. on_key.layer = closed_layer /\ AccountKinds[on_key.account] \in kinds /\ on_key.account # equity
        BY DEF Temporary, CanCloseBooks
      <4>3. net(tb[on_key]).magnitude = 0
        BY <1>8, <3>1, <4>1, <4>2 DEF Moved, InScope
      <4>4. tb[on_key].debits \in Int /\ tb[on_key].credits \in Int
        BY <1>2, <3>1 DEF HoldsBalances, IsBalance
      <4>5. tb[on_key].debits = tb[on_key].credits
        BY <4>3, <4>4 DEF net, Distance
      <4> QED BY <3>1, <4>4, <4>5 DEF NetOn, get_or_zero
    <3>2. CASE on_key \notin DOMAIN tb
      BY <3>2 DEF NetOn, get_or_zero, Balance_ZERO
    <3> QED BY <3>1, <3>2
  <2> HIDE DEF q, r, L, M, ps
  <2>3. ASSUME NEW n \in DOMAIN ps PROVE key_of(ps[n]) # on_key
    <3>1. CASE n \in DOMAIN q
      <4>1. ps[n] = q[n] /\ q[n] \in flat
        BY <1>1, <2>1, <3>1
      <4>2. PICK k \in M : q[n] = L(k)
        BY <4>1 DEF flat
      <4> QED BY <1>5, <1>8, <4>1, <4>2
    <3>2. CASE n \notin DOMAIN q
      <4>1. n \in 1..(Len(q) + Len(r)) /\ n \notin 1..Len(q)
        BY <1>1, <2>1, <3>2
      <4>2. n - Len(q) \in 1..Len(r) /\ ps[n] = r[n - Len(q)]
        BY <1>1, <2>1, <4>1
      <4>3. ps[n] \in carry
        BY <2>1, <4>2
      <4> QED BY <1>6, <4>3
    <3> QED BY <3>1, <3>2
  <2>4. Effect(ps, on_key) = 0
    BY <1>1, <2>3, EffectOfNone
  <2> HIDE DEF tb
  <2>5. Effect(ps, on_key) = -NetOn(tb, on_key)
    <3>1. \A z \in Int : -z = 0 - z
      OBVIOUS
    <3>2. 0 - 0 = 0 /\ 0 \in Int
      OBVIOUS
    <3> QED BY <2>2, <2>4, <3>1, <3>2, Zenon
  <2> QED BY <2>5 DEF ps, tb
<1> QED BY <1>7, <1>8

\* The prefixes of the log that are there stay there.
LEMMA PrefixStays ==
    ASSUME NEW E, NEW p \in Seq(E), NEW q \in Seq(E), DOMAIN p \subseteq DOMAIN q,
           \A i \in DOMAIN p : q[i] = p[i], NEW n \in 0..Len(p)
    PROVE  Len(p) <= Len(q) /\ SubSeq(q, 1, n) = SubSeq(p, 1, n)
<1>1. Len(p) \in Nat /\ Len(q) \in Nat /\ DOMAIN p = 1..Len(p) /\ DOMAIN q = 1..Len(q)
  OBVIOUS
<1>2. Len(p) <= Len(q)
  <2>1. CASE Len(p) = 0
    BY <1>1, <2>1
  <2>2. CASE Len(p) # 0
    <3>1. Len(p) \in 1..Len(q)
      BY <1>1, <2>2
    <3> QED BY <1>1, <3>1
  <2> QED BY <2>1, <2>2
<1>3. SubSeq(q, 1, n) = [i \in 1..n |-> q[i]] /\ SubSeq(p, 1, n) = [i \in 1..n |-> p[i]]
  BY <1>1, <1>2
<1>4. \A i \in 1..n : q[i] = p[i]
  BY <1>1
<1> QED BY <1>2, <1>3, <1>4

\* Empty books and empty hands: nothing is to be closed yet.
LEMMA ClosingInitIInv == StoreInit => ClosingIInv
  BY DEF StoreInit, Init, Books_new, ClosingIInv, Indices

\* What is held and recorded stays as it is when accounts are only added.
LEMMA ClosingUnchanged ==
    ASSUME ClosingIInv, UNCHANGED <<books, held>>, Handles(accounts) \subseteq Handles(accounts')
    PROVE  ClosingIInv'
  BY DEF ClosingIInv, PostsSoundly, Indices, ClosesPrefix

\* What a client takes up posts to registered accounts; if it is a closing, it
\* closes the books it reads.
LEMMA ClosingHolds ==
    ASSUME StoreIInv, ClosingIInv, NEW c \in Clients, NEW batch,
           held' = [held EXCEPT ![c] = batch], UNCHANGED <<accounts, books>>,
           \A n \in DOMAIN batch :
              /\ PostsSoundly(batch[n])
              /\ IsClosing(batch[n]) => ClosesPrefix(batch[n], books)
    PROVE  ClosingIInv'
<1>1. held'[c] = batch /\ \A d \in Clients \ {c} : held'[d] = held[d]
  BY DEF StoreIInv
<1> QED BY <1>1 DEF ClosingIInv, PostsSoundly, Indices, ClosesPrefix

\* The closing entry a client makes closes what it reads.
LEMMA PreparedClosingHolds ==
    ASSUME StoreIInv, ClosingIInv, NEW k \in ClosingKeys, CanCloseBooks(accounts, books.balances),
           seal(accounts, calendar, closing_entry(k))
    PROVE  ClosesPrefix(closing_entry(k), books)
<1> DEFINE n == Len(books.entries)
           ps == closing_postings(accounts, books.balances)
<1>1. closing_entry(k).memo.provenance = n /\ closing_entry(k).postings = ps
  BY DEF closing_entry
<1>2. n \in 0..n /\ SubSeq(books.entries, 1, n) = books.entries
  <2> DEFINE E == Bookable
  <2>1. books.entries \in Seq(E)
    BY DEF StoreIInv, BooksInv
  <2> HIDE DEF E
  <2> QED BY <2>1
<1>3. TrialBalanceOf(books.entries) = books.balances
  BY DEF StoreIInv, BooksInv, BalancesExact
<1>4. ASSUME NEW on_key, Temporary(on_key)
      PROVE  Effect(ps, on_key) = -NetOn(TrialBalanceOf(SubSeq(books.entries, 1, n)), on_key)
  <2>1. PostsToHandles
    BY DEF ClosingIInv, PostsSoundly, PostsToHandles
  <2> QED BY <1>2, <1>3, <1>4, <2>1, ClosingEmpties
<1> HIDE DEF n, ps
<1> QED BY <1>1, <1>2, <1>4 DEF ClosesPrefix

\* Delivering what is held.
LEMMA ClosingDelivered ==
    ASSUME StoreIInv, ClosingIInv, NEW c \in Clients, Append_(c)
    PROVE  ClosingIInv'
<1> DEFINE E == Bookable
           F == Elements(held[c])
<1>1. /\ books' = record_batch(books, accounts, held[c]) /\ UNCHANGED <<accounts, held>>
      /\ held[c] \in Seq(E) /\ BooksInv(books, E) /\ Reversals(books) /\ Sound(E)
  BY BookableIsSound DEF Append_, StoreIInv
<1> HIDE DEF E
<1>2. F \in SUBSET E /\ held[c] \in Seq(F)
  BY <1>1 DEF Elements
<1>3. BooksInv(books', E)
  BY <1>1, BatchKeeps
<1>4. Follows(books', books, accounts, F)
  <2> HIDE DEF F
  <2> QED BY <1>1, <1>2, BatchFollows
<1>5. Extends(books', books, F)
  BY <1>4 DEF Follows
<1>6. /\ books.entries \in Seq(E) /\ books'.entries \in Seq(E)
      /\ Indices(books) = 1..Len(books.entries) /\ Indices(books') = 1..Len(books'.entries)
      /\ Indices(books) \subseteq Indices(books')
      /\ \A i \in Indices(books) : books'.entries[i] = books.entries[i]
      /\ \A i \in Indices(books') \ Indices(books) : \E n \in DOMAIN held[c] : books'.entries[i] = held[c][n]
      /\ Len(books.entries) \in Nat /\ Len(books'.entries) \in Nat
  BY <1>1, <1>3, <1>5 DEF BooksInv, Extends, Indices, Elements
<1>7. ASSUME NEW e, ClosesPrefix(e, books) PROVE ClosesPrefix(e, books')
  <2> DEFINE n == e.memo.provenance
  <2>1. n \in 0..Len(books.entries)
    BY <1>7 DEF ClosesPrefix
  <2> HIDE DEF n
  <2>2. Len(books.entries) <= Len(books'.entries)
        /\ SubSeq(books'.entries, 1, n) = SubSeq(books.entries, 1, n)
    BY <1>6, <2>1, PrefixStays DEF Indices
  <2>3. n \in 0..Len(books'.entries)
    BY <1>6, <2>1, <2>2
  <2> QED BY <1>7, <2>2, <2>3 DEF ClosesPrefix, n
<1>8. ASSUME NEW i \in Indices(books') PROVE PostsSoundly(books'.entries[i])
  <2>1. CASE i \in Indices(books)
    BY <1>6, <2>1 DEF ClosingIInv
  <2>2. CASE i \notin Indices(books)
    BY <1>6, <2>2 DEF ClosingIInv
  <2> QED BY <2>1, <2>2
<1>9. ASSUME NEW i \in Indices(books'), IsClosing(books'.entries[i])
      PROVE  ClosesPrefix(books'.entries[i], books') /\ books'.entries[i].memo.provenance < i
  <2>1. CASE i \in Indices(books)
    BY <1>6, <1>7, <1>9, <2>1 DEF ClosingIInv
  <2>2. CASE i \notin Indices(books)
    <3>1. PICK n \in DOMAIN held[c] : books'.entries[i] = held[c][n]
      BY <1>6, <2>2
    <3>2. ClosesPrefix(books'.entries[i], books)
      BY <1>9, <3>1 DEF ClosingIInv
    <3>3. books'.entries[i].memo.provenance \in 0..Len(books.entries)
      BY <3>2 DEF ClosesPrefix
    <3>4. i > Len(books.entries)
      BY <1>6, <2>2
    <3>5. books'.entries[i].memo.provenance < i
      BY <1>6, <3>3, <3>4
    <3> QED BY <1>7, <3>2, <3>5
  <2> QED BY <2>1, <2>2
<1>10. \A d \in Clients : \A n \in DOMAIN held[d] :
          PostsSoundly(held[d][n]) /\ (IsClosing(held[d][n]) => ClosesPrefix(held[d][n], books'))
  BY <1>7 DEF ClosingIInv
<1> QED BY <1>1, <1>8, <1>9, <1>10 DEF ClosingIInv, PostsSoundly

\* Every step of the store keeps it.
LEMMA ClosingNextIInv == StoreIInv /\ ClosingIInv /\ [StoreNext]_storeVars => ClosingIInv'
<1> SUFFICES ASSUME StoreIInv, ClosingIInv, [StoreNext]_storeVars PROVE ClosingIInv'
  OBVIOUS
<1>1. ASSUME NEW c \in Clients, NEW batch \in Batches, Validate(c, batch) PROVE ClosingIInv'
  <2>1. PICK n \in 1..MaxBatch : batch \in [1..n -> Drafts]
    BY DEF Batches
  <2>2. \A i \in DOMAIN batch : /\ ~IsClosing(batch[i])
                                /\ seal(accounts, calendar, batch[i])
    BY <1>1, <2>1, DraftsAreNoClosings DEF Validate, IsWitnessed, IsClosing
  <2>3. ASSUME NEW i \in DOMAIN batch PROVE PostsSoundly(batch[i])
    BY <2>2 DEF seal, PostingIsValid, PostsSoundly
  <2> QED BY <1>1, <2>2, <2>3, ClosingHolds DEF Validate
<1>2. ASSUME NEW c \in Clients, NEW k \in ClosingKeys, PrepareClosing(c, k) PROVE ClosingIInv'
  <2> DEFINE e == closing_entry(k)
             batch == <<e>>
  <2>1. /\ held' = [held EXCEPT ![c] = batch] /\ UNCHANGED <<accounts, books>>
        /\ CanCloseBooks(accounts, books.balances) /\ seal(accounts, calendar, e)
    BY <1>2 DEF PrepareClosing
  <2>2. ClosesPrefix(e, books)
    BY <2>1, PreparedClosingHolds
  <2>3. PostsSoundly(e)
    BY <2>1 DEF seal, PostingIsValid, PostsSoundly
  <2>4. \A n \in DOMAIN batch : batch[n] = e
    OBVIOUS
  <2> HIDE DEF e, batch
  <2> QED BY <2>1, <2>2, <2>3, <2>4, ClosingHolds
<1>3. ASSUME NEW c \in Clients, Append_(c) PROVE ClosingIInv'
  BY <1>3, ClosingDelivered
<1>4. CASE \/ \E clearing \in Assignments : Clear(clearing)
           \/ \E clearing \in Assignments, on \in ResetDates : ResetClearing(clearing.id, on)
           \/ \E p \in NewPeriods : StorePeriod(p)
           \/ \E id \in PeriodIds, to \in PeriodState : MovePeriod(id, to)
           \/ \E id \in PeriodIds : StoreSeal(id)
           \/ UNCHANGED storeVars
  <2>1. UNCHANGED <<accounts, books, held>>
    BY <1>4 DEF Clear, ResetClearing, StorePeriod, MovePeriod, TransitionPeriod, StoreSeal, SealPeriod,
                storeVars
  <2> QED BY <2>1, ClosingUnchanged
<1>5. ASSUME NEW id \in 1..MaxAccounts, NEW account \in NewAccounts,
             StoreAccount([id |-> id, account |-> account])
      PROVE  ClosingIInv'
  <2>1. account \in Account
    BY ChartIsTyped
  <2>2. KeepsBindings(accounts, accounts') /\ UNCHANGED <<books, held>>
    BY <1>5, <2>1, RestoreKeeps DEF StoreAccount, StoreIInv
  <2>3. Handles(accounts) \subseteq Handles(accounts')
    <3>1. RegInv(accounts) /\ RegInv(accounts') /\ Len(accounts.accounts) <= Len(accounts'.accounts)
      BY <1>5, <2>1, RestoreKeeps DEF StoreAccount, StoreIInv, KeepsBindings
    <3>2. Handles(accounts) = 1..Len(accounts.accounts) /\ Handles(accounts') = 1..Len(accounts'.accounts)
          /\ Len(accounts.accounts) \in Nat /\ Len(accounts'.accounts) \in Nat
      BY <3>1, HandlesArePositions DEF RegInv
    <3> QED BY <3>1, <3>2
  <2> QED BY <2>2, <2>3, ClosingUnchanged
<1> QED BY <1>1, <1>2, <1>3, <1>4, <1>5 DEF StoreNext

\* Right after a closing entry, each temporary account holds what was booked between
\* the read of the trial balance and the closing, whoever booked it, however many
\* closings race and however late they are delivered.
THEOREM ClosingsCloseWhatTheyRead == StoreSpec => []ClosesWhatItRead
<1>1. StoreSpec => [](StoreIInv /\ ClosingIInv)
  BY StoreInitIInv, StoreNextIInv, ClosingInitIInv, ClosingNextIInv, PTL DEF StoreSpec
<1>2. StoreIInv /\ ClosingIInv => ClosesWhatItRead
  <2> DEFINE q == books.entries
  <2> SUFFICES ASSUME StoreIInv, ClosingIInv, NEW i \in EntryIndices, IsClosing(q[i]),
                      NEW on_key, Temporary(on_key)
               PROVE  LET read  == q[i].memo.provenance
                          then  == TrialBalanceOf(SubSeq(q, 1, i))
                          later == TrialBalanceOf(SubSeq(q, read + 1, i - 1))
                      IN  on_key \in DOMAIN then =>
                            signed_net(then[on_key]) = signed_net(get_or_zero(later, on_key))
    BY DEF ClosesWhatItRead
  <2> DEFINE E == Bookable
             read == q[i].memo.provenance
             then == TrialBalanceOf(SubSeq(q, 1, i))
             later == TrialBalanceOf(SubSeq(q, read + 1, i - 1))
             G(j) == NetOn(TrialBalanceOf(SubSeq(q, 1, j)), on_key)
             x == Effect(q[i].postings, on_key)
  <2>1. q \in Seq(E) /\ Sound(E)
    BY BookableIsSound DEF StoreIInv, BooksInv
  <2>2. i \in Indices(books) /\ ClosesPrefix(q[i], books) /\ read < i
    BY DEF ClosingIInv, EntryIndices, Indices
  <2>3. read \in 0..Len(q) /\ x = -G(read)
    BY <2>2 DEF ClosesPrefix
  <2> HIDE DEF E
  <2>4. i \in 1..Len(q) /\ Len(q) \in Nat
    BY <2>1 DEF EntryIndices
  <2> HIDE DEF q, read
  <2>5. i - 1 \in read..Len(q) /\ i - 1 \in Nat /\ i - 1 < Len(q) /\ (i - 1) + 1 = i /\ read \in 0..Len(q)
    BY <2>2, <2>3, <2>4
  <2>6. G(i - 1) = G(read) + NetOn(later, on_key) /\ G(read) \in Int /\ NetOn(later, on_key) \in Int
    <3> DEFINE j == i - 1
    <3>1. j \in read..Len(q)
      BY <2>5
    <3> HIDE DEF j
    <3>2. G(j) = G(read) + NetOn(TrialBalanceOf(SubSeq(q, read + 1, j)), on_key) /\ G(read) \in Int
          /\ NetOn(TrialBalanceOf(SubSeq(q, read + 1, j)), on_key) \in Int
      BY <2>1, <2>5, <3>1, WindowSplits
    <3> QED BY <3>2 DEF j
  <2>7. G(i) = G(i - 1) + x /\ x \in Int
    <3> DEFINE j == i - 1
               one == 1
    <3>1. j \in Nat /\ j < Len(q) /\ j + 1 = i /\ one \in Nat \ {0} /\ one <= j + 1
      BY <2>4, <2>5
    <3> HIDE DEF j, one
    <3>2. NetOn(TrialBalanceOf(SubSeq(q, one, j + 1)), on_key) =
            NetOn(TrialBalanceOf(SubSeq(q, one, j)), on_key) + Effect(q[j + 1].postings, on_key)
          /\ Effect(q[j + 1].postings, on_key) \in Int
      BY <2>1, <3>1, WindowGrows
    <3> QED BY <3>1, <3>2 DEF j, one
  <2>8. G(i) = NetOn(then, on_key)
    OBVIOUS
  <2> HIDE DEF G, x, then, later
  <2>9. NetOn(then, on_key) = NetOn(later, on_key)
    BY <2>3, <2>6, <2>7, <2>8
  <2>10. on_key \in DOMAIN then => signed_net(then[on_key]) = signed_net(get_or_zero(later, on_key))
    BY <2>9 DEF NetOn, signed_net, get_or_zero
  <2> QED BY <2>10 DEF then, later, read
<1> QED BY <1>1, <1>2, PTL
=============================================================================
