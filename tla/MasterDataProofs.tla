-------------------------- MODULE MasterDataProofs --------------------------
(***************************************************************************)
(* Theorems about the two registries of master data and about the promise  *)
(* of the seals, for every set of periods, paths and dates: PeriodCalendar *)
(* first, then AccountRegistry, then SealedBooks.                          *)
(*                                                                         *)
(* The inductive invariant of the calendar is WellFormed(calendar), the    *)
(* type, the index and the absence of overlaps together, and               *)
(* SealedBelowWatermark: neither overlap nor the watermark can be shown    *)
(* alone, since define looks at two periods only and state_on at one.      *)
(* That the table is finite is for the restart, which goes through it in   *)
(* some order.                                                             *)
(***************************************************************************)
EXTENDS PeriodCalendar, AccountRegistry, SealedBooks, BooksLemmas

IInv ==
    /\ WellFormed(calendar)
    /\ SealedBelowWatermark(calendar)
    /\ IsFiniteSet(DOMAIN calendar.periods)

\* check_sealable implies the Closing to Sealed transition is permitted.
LEMMA SealableTransition ==
    ASSUME NEW id, check_sealable(calendar, id)
    PROVE  CanTransition(calendar, id, "Sealed")
  BY DEF check_sealable, CanTransition, PermittedTransitions

\* Every action stores one period: the calendar it leaves is the old one with
\* some p inserted and the watermark marked with p.  A known period keeps its
\* range and, unless it is redeclared, is not sealed before or stays as it was.
LEMMA EveryStepStoresOnePeriod ==
    ASSUME WellFormed(calendar), Next
    PROVE  \E p \in Period :
              /\ calendar'.periods = Insert(calendar.periods, p.id, p)
              /\ calendar'.sealed_through = mark_sealed_through(calendar, p)
              /\ WellFormed(calendar')
              /\ p.id \in DOMAIN calendar.periods =>
                    /\ calendar.periods[p.id].start = p.start
                    /\ calendar.periods[p.id].end = p.end
                    /\ Redeclare \/ calendar.periods[p.id].state # "Sealed"
                                 \/ p = calendar.periods[p.id]
<1>1. ASSUME NEW p \in Period, Define(p)
      PROVE  /\ calendar'.periods = Insert(calendar.periods, p.id, p)
             /\ calendar'.sealed_through = mark_sealed_through(calendar, p)
             /\ WellFormed(calendar')
             /\ p.id \notin DOMAIN calendar.periods
  <2>1. WellFormed(define(calendar, p))
    BY <1>1, DefineWellFormed DEF Define
  <2>2. QED
    BY <1>1, <2>1 DEF Define, define, CanDefine
<1>2. ASSUME NEW p \in Period, Ensure(p)
      PROVE  /\ calendar'.periods = Insert(calendar.periods, p.id, p)
             /\ calendar'.sealed_through = mark_sealed_through(calendar, p)
             /\ WellFormed(calendar')
             /\ p.id \in DOMAIN calendar.periods =>
                   /\ calendar.periods[p.id].start = p.start
                   /\ calendar.periods[p.id].end = p.end
                   /\ Redeclare \/ p = calendar.periods[p.id]
  <2>1. WellFormed(ensure(calendar, p))
    BY <1>2, EnsureWellFormed DEF Ensure
  <2>2. QED
    BY <1>2, <2>1, RedeclareIsBoolean DEF Ensure, ensure, define, CanEnsure
<1>3. ASSUME NEW id, NEW to \in PeriodState, CanTransition(calendar, id, to),
             calendar' = transition(calendar, id, to)
      PROVE  LET p == moved_to(calendar, id, to)
             IN  /\ p \in Period
                 /\ calendar'.periods = Insert(calendar.periods, p.id, p)
                 /\ calendar'.sealed_through = mark_sealed_through(calendar, p)
                 /\ WellFormed(calendar')
                 /\ calendar.periods[p.id].start = p.start
                 /\ calendar.periods[p.id].end = p.end
                 /\ calendar.periods[p.id].state # "Sealed"
  <2> DEFINE p == moved_to(calendar, id, to)
  <2>1. p \in Period /\ p.id = id /\ p.start = calendar.periods[id].start
        /\ p.end = calendar.periods[id].end /\ WellFormed(transition(calendar, id, to))
    BY <1>3, TransitionWellFormed
  <2>2. calendar.periods[id].state # "Sealed"
    BY <1>3 DEF CanTransition, PermittedTransitions
  <2>3. QED
    BY <1>3, <2>1, <2>2 DEF transition
<1>4. ASSUME NEW id \in PeriodIds, NEW to \in PeriodState, Transition(id, to)
      PROVE  CanTransition(calendar, id, to) /\ calendar' = transition(calendar, id, to)
  BY <1>4 DEF Transition
<1>5. ASSUME NEW id \in PeriodIds, Seal(id)
      PROVE  CanTransition(calendar, id, "Sealed") /\ calendar' = transition(calendar, id, "Sealed")
  BY <1>5, SealableTransition DEF Seal
<1>6. QED
  <2>1. CASE \E p \in Period : Define(p)
    BY <2>1, <1>1
  <2>2. CASE \E p \in Period : Ensure(p)
    BY <2>2, <1>2
  <2>3. CASE \E id \in PeriodIds, to \in PeriodState : Transition(id, to)
    BY <2>3, <1>3, <1>4
  <2>4. CASE \E id \in PeriodIds : Seal(id)
    <3>1. "Sealed" \in PeriodState
      BY DEF PeriodState
    <3>2. QED
      BY <2>4, <1>3, <1>5, <3>1
  <2>5. QED
    BY <2>1, <2>2, <2>3, <2>4 DEF Next

-----------------------------------------------------------------------------
\* The empty calendar satisfies the invariant, and its watermark is exact.
LEMMA InitIInv == Init => IInv /\ WatermarkExact
  BY FS_EmptySet DEF Init, IInv, WellFormed, IsCalendar, IsIndexed, IsDisjoint, WatermarkExact,
         SealedBelowWatermark, WatermarkIsAnEnd, PeriodCalendar_new, EmptyMap, NoDate

\* Every step of the calendar keeps the invariant.
LEMMA NextIInv == IInv /\ [Next]_calendar => IInv'
<1> SUFFICES ASSUME IInv, [Next]_calendar PROVE IInv'
  OBVIOUS
<1>1. CASE Next
  <2>1. PICK p \in Period :
              /\ calendar'.periods = Insert(calendar.periods, p.id, p)
              /\ calendar'.sealed_through = mark_sealed_through(calendar, p)
              /\ WellFormed(calendar')
    BY <1>1, EveryStepStoresOnePeriod DEF IInv
  <2>2. SealedBelowWatermark(calendar')
    BY <2>1, StoreKeepsSealedBelow DEF IInv, WellFormed
  <2>3. IsFiniteSet(DOMAIN calendar'.periods)
    <3>1. DOMAIN calendar'.periods = DOMAIN calendar.periods \cup {p.id}
      BY <2>1 DEF Insert
    <3>2. QED
      BY <3>1, FS_AddElement DEF IInv
  <2>4. QED
    BY <2>1, <2>2, <2>3 DEF IInv
<1>2. CASE UNCHANGED calendar
  BY <1>2 DEF IInv
<1>3. QED
  BY <1>1, <1>2

\* Type correctness, and the strengthening every other theorem rests on.
THEOREM CalendarInvariant == Spec => []IInv
<1>1. Init => IInv
  BY InitIInv
<1>2. QED
  BY <1>1, NextIInv, PTL DEF Spec

\* The calendar keeps its type through every define, ensure, transition and seal.
THEOREM TypeCorrect == Spec => []TypeOK
<1>1. IInv => TypeOK
  BY DEF IInv, WellFormed, TypeOK
<1>2. QED
  BY <1>1, CalendarInvariant, PTL

\* define never lets two periods share a date.
THEOREM PeriodsAreDisjoint == Spec => []Disjoint
<1>1. IInv => Disjoint
  BY DEF IInv, WellFormed, Disjoint
<1>2. QED
  BY <1>1, CalendarInvariant, PTL

\* The by_start index and the period table never drift apart.
THEOREM IndexIsExact == Spec => []IndexExact
<1>1. IInv => IndexExact
  BY DEF IInv, WellFormed, IndexExact
<1>2. QED
  BY <1>1, CalendarInvariant, PTL

\* period_on, one lookup in by_start, always finds the covering period.
THEOREM LookupIsExact == Spec => []LookupExact
<1>1. IInv => LookupExact
  BY PeriodOnExact DEF IInv, LookupExact
<1>2. QED
  BY <1>1, CalendarInvariant, PTL

\* No call, a redeclaration included, reopens a date in this calendar.
THEOREM SealedDatesStaySealed == Spec => FrozenForever
<1>1. IInv /\ IInv' /\ [Next]_calendar =>
        [\A d \in Dates : state_on(calendar, d) = "Sealed" =>
                              state_on(calendar', d) = "Sealed"]_calendar
  <2> SUFFICES ASSUME IInv, IInv', Next, NEW d \in Dates, state_on(calendar, d) = "Sealed"
               PROVE  state_on(calendar', d) = "Sealed"
    OBVIOUS
  <2>1. PICK p \in Period : calendar'.sealed_through = mark_sealed_through(calendar, p)
    BY EveryStepStoresOnePeriod DEF IInv
  <2>2. calendar.sealed_through \in Nat /\ calendar'.sealed_through \in Nat
        /\ calendar.sealed_through <= calendar'.sealed_through
    BY <2>1, MarkMovesForward DEF IInv, WellFormed
  <2>3. d <= calendar.sealed_through
    BY SealedIsBelowWatermark DEF IInv
  <2>4. d \in Nat
    BY DatesArePositive
  <2>5. d <= calendar'.sealed_through
    BY <2>2, <2>3, <2>4
  <2>6. QED
    BY <2>5, SealedIsBelowWatermark DEF IInv
<1>2. QED
  BY <1>1, CalendarInvariant, PTL DEF Spec, FrozenForever

\* While ensure only replays what is stored, the watermark is exactly the
\* greatest end of a sealed period, so it can be recomputed and need not be
\* stored.
THEOREM WatermarkIsExact ==
    ASSUME ~Redeclare
    PROVE  Spec => []WatermarkExact
<1>1. Init => WatermarkExact
  BY InitIInv
<1>2. IInv /\ WatermarkExact /\ IInv' /\ [Next]_calendar => WatermarkExact'
  <2> SUFFICES ASSUME IInv, WatermarkExact, IInv', [Next]_calendar PROVE WatermarkExact'
    OBVIOUS
  <2>1. CASE Next
    <3>1. PICK p \in Period :
              /\ calendar'.periods = Insert(calendar.periods, p.id, p)
              /\ calendar'.sealed_through = mark_sealed_through(calendar, p)
              /\ p.id \in DOMAIN calendar.periods =>
                    /\ calendar.periods[p.id].end = p.end
                    /\ Redeclare \/ calendar.periods[p.id].state # "Sealed"
                                 \/ p = calendar.periods[p.id]
      BY <2>1, EveryStepStoresOnePeriod DEF IInv
    <3>2. WatermarkIsAnEnd(calendar')
      BY <3>1, StoreKeepsWatermarkAnEnd DEF IInv, WellFormed, WatermarkExact
    <3>3. QED
      BY <3>2 DEF IInv, WatermarkExact
  <2>2. CASE UNCHANGED calendar
    BY <2>2 DEF WatermarkExact
  <2>3. QED
    BY <2>1, <2>2
<1>3. QED
  BY <1>1, <1>2, CalendarInvariant, PTL DEF Spec

\* While ensure only replays what is stored, a restart loses nothing: the
\* stored periods, in any order, are accepted by from_periods and rebuild the
\* calendar, index and watermark included.
THEOREM RestoreIsExact ==
    ASSUME ~Redeclare
    PROVE  Spec => []RestoreExact
<1>1. IInv /\ WatermarkExact => RestoreExact
  BY FromPeriodsRebuilds DEF IInv, WatermarkExact, MarkedExactly, RestoreExact, StoredPeriods
<1>2. QED
  BY <1>1, CalendarInvariant, WatermarkIsExact, PTL

\* While ensure only replays what is stored, a sealed period stays sealed and
\* no period ever moves its range.
THEOREM SealedPeriodsAreTerminal ==
    ASSUME ~Redeclare
    PROVE  Spec => SealedIsTerminal
<1>1. IInv /\ [Next]_calendar =>
        [\A id \in DOMAIN calendar.periods :
          /\ id \in DOMAIN calendar.periods'
          /\ calendar.periods'[id].start = calendar.periods[id].start
          /\ calendar.periods'[id].end = calendar.periods[id].end
          /\ calendar.periods[id].state = "Sealed" =>
                calendar.periods'[id].state = "Sealed"]_calendar
  <2> SUFFICES ASSUME IInv, Next, NEW id \in DOMAIN calendar.periods
               PROVE  /\ id \in DOMAIN calendar'.periods
                      /\ calendar'.periods[id].start = calendar.periods[id].start
                      /\ calendar'.periods[id].end = calendar.periods[id].end
                      /\ calendar.periods[id].state = "Sealed" =>
                            calendar'.periods[id].state = "Sealed"
    OBVIOUS
  <2>1. PICK p \in Period :
              /\ calendar'.periods = Insert(calendar.periods, p.id, p)
              /\ p.id \in DOMAIN calendar.periods =>
                    /\ calendar.periods[p.id].start = p.start
                    /\ calendar.periods[p.id].end = p.end
                    /\ Redeclare \/ calendar.periods[p.id].state # "Sealed"
                                 \/ p = calendar.periods[p.id]
    BY EveryStepStoresOnePeriod DEF IInv
  <2>2. QED
    BY <2>1 DEF Insert
<1>2. QED
  BY <1>1, CalendarInvariant, PTL DEF Spec, SealedIsTerminal

-----------------------------------------------------------------------------
(***************************************************************************)
(* The account registry: handles are never repointed, and the count that   *)
(* decides whether an account may be posted to is exact whatever order     *)
(* accounts are registered in.                                             *)
(***************************************************************************)
\* The empty registry satisfies the invariant.
LEMMA RegistryInitKeeps == RegistryInit => RegInv(registry)
  BY NewRegistry DEF RegistryInit

\* Every operation keeps the invariant and every binding.
LEMMA RegistryStepKeeps ==
    ASSUME RegInv(registry), RegistryNext
    PROVE  RegInv(registry') /\ KeepsBindings(registry, registry')
<1>1. ASSUME NEW account \in Account, Register(account)
      PROVE  RegInv(registry') /\ KeepsBindings(registry, registry')
  BY <1>1, RegisterKeeps DEF Register
<1>2. \A id \in Handles(registry) :
          /\ registry.accounts[id] \in Account
          /\ WindowIsValid(registry.accounts[id])
  BY HandlesArePositions DEF RegInv
<1>3. ASSUME NEW id \in Handles(registry), NEW on \in Dates, Close(id, on)
      PROVE  RegInv(registry') /\ KeepsBindings(registry, registry')
  <2> DEFINE closed == [registry.accounts[id] EXCEPT !.closed_on = on]
  <2>1. closed \in Account /\ closed.path = PathOf(registry, id) /\ WindowIsValid(closed)
    BY <1>2, <1>3 DEF Account, PathOf, WindowIsValid, Close, CanClose
  <2>2. registry' = WithAccount(registry, id, closed)
    BY <1>3 DEF Close, close
  <2> HIDE DEF closed
  <2> QED BY <2>1, <2>2, WithAccountKeeps
<1>4. ASSUME NEW id \in Handles(registry), Reopen(id)
      PROVE  RegInv(registry') /\ KeepsBindings(registry, registry')
  <2> DEFINE opened == [registry.accounts[id] EXCEPT !.closed_on = NoDate]
  <2>1. opened \in Account /\ opened.path = PathOf(registry, id) /\ WindowIsValid(opened)
    BY <1>2 DEF Account, PathOf, WindowIsValid
  <2>2. registry' = WithAccount(registry, id, opened)
    BY <1>4 DEF Reopen, reopen
  <2> HIDE DEF opened
  <2> QED BY <2>1, <2>2, WithAccountKeeps
<1>5. ASSUME NEW id \in Handles(registry), NEW limit \in Limits, SetLimit(id, limit)
      PROVE  RegInv(registry') /\ KeepsBindings(registry, registry')
  <2> DEFINE limited == [registry.accounts[id] EXCEPT !.limit = limit]
  <2>1. limited \in Account /\ limited.path = PathOf(registry, id) /\ WindowIsValid(limited)
    BY <1>2 DEF Account, PathOf, WindowIsValid
  <2>2. registry' = WithAccount(registry, id, limited)
    BY <1>5 DEF SetLimit, set_limit
  <2> HIDE DEF limited
  <2> QED BY <2>1, <2>2, WithAccountKeeps
<1>6. ASSUME NEW id \in 1..(Len(registry.accounts) + 2), NEW account \in Account,
             Restore([id |-> id, account |-> account])
      PROVE  RegInv(registry') /\ KeepsBindings(registry, registry')
  BY <1>6, RestoreKeeps DEF Restore
<1> QED BY <1>1, <1>3, <1>4, <1>5, <1>6 DEF RegistryNext

-----------------------------------------------------------------------------
(***************************************************************************)
(* Theorems.                                                               *)
(***************************************************************************)
\* The registry's invariant holds in every reachable state.
THEOREM RegistryInvariant == RegistrySpec => []RegInv(registry)
<1>1. RegInv(registry) /\ [RegistryNext]_registry => RegInv(registry)'
  <2>1. RegInv(registry) /\ registry' = registry => RegInv(registry)'
    OBVIOUS
  <2>2. RegInv(registry) /\ RegistryNext => RegInv(registry)'
    BY RegistryStepKeeps
  <2> QED BY <2>1, <2>2
<1> QED BY <1>1, RegistryInitKeeps, PTL DEF RegistrySpec

\* Every account of the registry has a handle, a known type and a valid window.
THEOREM RegistryTypeCorrect == RegistrySpec => []RegistryTypeOK
<1>1. RegInv(registry) => RegistryTypeOK
  BY DEF RegInv, RegistryTypeOK
<1> QED BY <1>1, RegistryInvariant, PTL

\* Path and handle name each other: the index of the registry is exact.
THEOREM RegistryIndexIsExact == RegistrySpec => []RegistryIndexExact
<1>1. RegInv(registry) => RegistryIndexExact
  BY DEF RegInv, RegistryIndexExact, PathOf
<1> QED BY <1>1, RegistryInvariant, PTL

\* The count is_leaf reads is the number of registered descendants, whatever
\* order parents and children were registered and restored in.
THEOREM ChildCountIsExact == RegistrySpec => []ChildCountExact
<1>1. RegInv(registry) => ChildCountExact
  BY DEF RegInv, ChildCountExact, PathOf, Below
<1> QED BY <1>1, RegistryInvariant, PTL

\* The records of a registry, in whatever order a store returns them, rebuild it
\* value for value: handles, attributes, index and counts.
THEOREM RecordsRestoreExactly ==
  RegistrySpec => [](from_records(records(registry)) = [ok |-> TRUE, registry |-> registry])
<1>1. RegInv(registry) =>
        from_records(records(registry)) = [ok |-> TRUE, registry |-> registry]
  BY FromRecordsRebuilds
<1> QED BY <1>1, RegistryInvariant, PTL

\* A handle is never repointed: every binding committed to before a step still
\* proves against that commitment after it.
THEOREM BindingsAreForever == RegistrySpec => BindingsForever
<1>1. ASSUME RegInv(registry), RegInv(registry'), KeepsBindings(registry, registry'),
             NEW h \in Handles(registry)
      PROVE  LET size == Len(registry.accounts) IN
             /\ CanProveBindingAt(registry', h, size)
             /\ verify_binding(prove_binding_at(registry', h, size), commitment(registry))
  <2> DEFINE size == Len(registry.accounts)
             old == binding_log(registry)
             new == binding_log(registry')
  <2>1. /\ size \in Nat /\ Handles(registry) = 1..size
        /\ Len(registry'.accounts) \in Nat /\ size <= Len(registry'.accounts)
        /\ Handles(registry') = 1..Len(registry'.accounts)
    BY <1>1, HandlesArePositions DEF RegInv, KeepsBindings
  <2>2. \A k \in 1..size : old[k] = new[k]
    BY <1>1, <2>1 DEF binding_log, KeepsBindings, PathOf
  <2>3. SubSeq(new, 1, size) = old
    <3>1. SubSeq(new, 1, size) = [k \in 1..size |-> new[k]]
      BY <2>1 DEF binding_log
    <3>2. old = [k \in 1..size |-> old[k]]
      BY <2>1 DEF binding_log
    <3> QED BY <3>1, <3>2, <2>2
  <2>4. old[h] = account_binding_leaf(h, registry'.accounts[h].path)
    BY <1>1, <2>1 DEF binding_log, KeepsBindings, PathOf
  <2>5. CanProveBindingAt(registry', h, size)
    BY <2>1, <1>1 DEF CanProveBindingAt
  <2> HIDE DEF old, new, size
  <2>6. verify_binding(prove_binding_at(registry', h, size), old)
    BY <2>3, <2>4 DEF verify_binding, prove_binding_at, new
  <2> QED BY <2>5, <2>6 DEF commitment, old, size
<1> DEFINE Kept == \A h \in Handles(registry) :
                     LET size == Len(registry.accounts) IN
                     /\ CanProveBindingAt(registry', h, size)
                     /\ verify_binding(prove_binding_at(registry', h, size),
                                       commitment(registry))
<1>2. RegInv(registry) /\ RegInv(registry)' /\ [RegistryNext]_registry => [Kept]_registry
  BY <1>1, RegistryStepKeeps
<1>3. [Kept]_registry => [\A h \in Handles(registry) :
                            LET size == Len(registry.accounts) IN
                            /\ CanProveBindingAt(registry', h, size)
                            /\ verify_binding(prove_binding_at(registry', h, size),
                                              commitment(registry))]_registry
  OBVIOUS
<1> QED BY <1>2, <1>3, RegistryInvariant, PTL DEF RegistrySpec, BindingsForever

-----------------------------------------------------------------------------
(***************************************************************************)
(* SealedBooks keeps its promise, for every set of dates.                  *)
(***************************************************************************)
SealType == [end : Nat, size : Nat]

\* The inductive invariant: no seal closes beyond the frozen date, nor over more
\* entries than there are.  Together with the guard of Book the first part gives
\* the promise for entries to come, the second for the seal being taken.
SealedInv ==
    /\ dates \in Seq(Dates)
    /\ frozen \in Nat
    /\ seals \in Seq(SealType)
    /\ \A s \in DOMAIN seals : seals[s].end <= frozen /\ seals[s].size <= Len(dates)
    /\ NeverRestated

\* An element of a sequence has the type of the sequence.
LEMMA SeqElement ==
    ASSUME NEW S, NEW q \in Seq(S), NEW i \in DOMAIN q
    PROVE  q[i] \in S /\ i \in 1..Len(q) /\ Len(q) \in Nat /\ i \in Nat
  OBVIOUS

\* The fields of a recorded seal are numbers.
LEMMA SealFields ==
    ASSUME NEW q \in Seq(SealType), NEW s \in DOMAIN q
    PROVE  q[s] \in SealType /\ q[s].end \in Nat /\ q[s].size \in Nat
<1>1. q[s] \in SealType
  BY SeqElement
<1> QED BY <1>1 DEF SealType

\* An empty log with no seal restates nothing.
LEMMA SealedInitKeeps == SealedInit => SealedInv
  BY DatesArePositive DEF SealedInit, SealedInv, NeverRestated

\* Booking after the frozen date leaves every seal alone.
LEMMA BookKeeps == ASSUME SealedInv, Book PROVE SealedInv'
<1>1. dates' \in Seq(Dates) /\ frozen' = frozen /\ seals' = seals
  BY DEF Book
<1>2. Len(dates) \in Nat /\ Len(dates') \in Nat /\ Len(dates') > Len(dates)
  BY DEF Book, SealedInv
<1>3. ASSUME NEW s \in DOMAIN seals PROVE seals[s].end \in Nat /\ seals[s].size \in Nat
  BY SealFields DEF SealedInv
<1>4. \A s \in DOMAIN seals' : seals'[s].end <= frozen' /\ seals'[s].size <= Len(dates')
  BY <1>1, <1>2, <1>3 DEF SealedInv
<1>5. NeverRestated'
  <2> SUFFICES ASSUME NEW s \in DOMAIN seals, NEW i \in DOMAIN dates', i > seals[s].size
               PROVE  dates'[i] > seals[s].end
    BY <1>1 DEF NeverRestated
  <2>1. i \in Nat /\ i \in 1..Len(dates') /\ dates'[i] \in Nat
    BY <1>1, SeqElement, DatesArePositive
  <2>2. CASE i \in DOMAIN dates
    BY <2>2 DEF Book, SealedInv, NeverRestated
  <2>3. CASE i \notin DOMAIN dates
    <3>1. i > Len(dates)
      BY <2>1, <2>3, <1>2 DEF SealedInv
    <3>2. dates'[i] > frozen
      BY <3>1 DEF Book
    <3> QED BY <3>2, <2>1, <1>3 DEF SealedInv
  <2> QED BY <2>2, <2>3
<1> QED BY <1>1, <1>4, <1>5 DEF SealedInv

\* Closing more dates leaves every seal below the frozen date.
LEMMA FreezeKeeps == ASSUME SealedInv, NEW date \in Dates, Freeze(date) PROVE SealedInv'
<1>1. date \in Nat /\ frozen' = date /\ date > frozen /\ dates' = dates /\ seals' = seals
  BY DatesArePositive DEF Freeze
<1>2. \A s \in DOMAIN seals : seals[s].end \in Nat /\ seals[s].end <= frozen'
  BY <1>1, SealFields DEF SealedInv
<1> QED BY <1>1, <1>2 DEF SealedInv, NeverRestated

\* A new seal closes over the whole log: no entry comes after it yet.
LEMMA SealKeeps == ASSUME SealedInv, NEW date \in Dates, SealThrough(date) PROVE SealedInv'
<1> DEFINE new == [end |-> date, size |-> Len(dates)]
<1>1. /\ date \in Nat /\ frozen' = date /\ date > frozen /\ dates' = dates
      /\ seals' = Append(seals, new) /\ new \in SealType
  BY DatesArePositive DEF SealThrough, SealedInv, SealType
<1>2. seals' \in Seq(SealType) /\ Len(seals') = Len(seals) + 1
  BY <1>1 DEF SealedInv
<1>3. ASSUME NEW s \in DOMAIN seals'
      PROVE  (s \in DOMAIN seals /\ seals'[s] = seals[s]) \/ seals'[s] = new
  BY <1>1, <1>2 DEF SealedInv
<1>4. \A s \in DOMAIN seals : seals[s].end \in Nat /\ seals[s].end <= frozen'
  BY <1>1, SealFields DEF SealedInv
<1>5. \A s \in DOMAIN seals' : seals'[s].end <= frozen' /\ seals'[s].size <= Len(dates')
  BY <1>1, <1>3, <1>4 DEF SealedInv
<1>6. NeverRestated'
  <2> SUFFICES ASSUME NEW s \in DOMAIN seals', NEW i \in DOMAIN dates, i > seals'[s].size
               PROVE  dates[i] > seals'[s].end
    BY <1>1 DEF NeverRestated
  <2>1. CASE s \in DOMAIN seals /\ seals'[s] = seals[s]
    BY <2>1 DEF SealedInv, NeverRestated
  <2>2. CASE seals'[s] = new
    <3>1. i \in 1..Len(dates) /\ Len(dates) \in Nat
      BY DEF SealedInv
    <3> QED BY <2>2, <3>1
  <2> QED BY <1>3, <2>1, <2>2
<1> QED BY <1>1, <1>2, <1>5, <1>6 DEF SealedInv

\* Seals are never restated: in every behaviour of SealedBooks, for any dates,
\* each entry the log gains after a seal is booked after the date it closed.
THEOREM SealsAreNeverRestated == SealedSpec => []NeverRestated
<1>1. SealedInit => SealedInv
  BY SealedInitKeeps
<1>2. SealedInv /\ [SealedNext]_sealed_vars => SealedInv'
  <2> SUFFICES ASSUME SealedInv, [SealedNext]_sealed_vars PROVE SealedInv'
    OBVIOUS
  <2>1. CASE Book
    BY <2>1, BookKeeps
  <2>2. ASSUME NEW date \in Dates, Freeze(date) PROVE SealedInv'
    BY <2>2, FreezeKeeps
  <2>3. ASSUME NEW date \in Dates, SealThrough(date) PROVE SealedInv'
    BY <2>3, SealKeeps
  <2>4. CASE UNCHANGED sealed_vars
    BY <2>4 DEF sealed_vars, SealedInv, NeverRestated
  <2> QED BY <2>1, <2>2, <2>3, <2>4 DEF SealedNext
<1>3. SealedInv => NeverRestated
  BY DEF SealedInv
<1> QED BY <1>1, <1>2, <1>3, PTL DEF SealedSpec
=============================================================================
