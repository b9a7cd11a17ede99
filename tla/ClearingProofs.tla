--------------------------- MODULE ClearingProofs ---------------------------
(***************************************************************************)
(* Theorems about the clearing register of MemoryStore, for every set of   *)
(* clients, drafts and clearings, and however clearings, releases and      *)
(* bookings follow each other.                                             *)
(*                                                                         *)
(* RegisterInv says what the register derives from its events: the amount  *)
(* applied to a posting is the sum over the clearings that stand.  OpenInv *)
(* ties the register to the books: every clearing takes as much from one   *)
(* side of its key as from the other, so what has been applied cancels on  *)
(* every key, and no posting has given more than it has.                   *)
(***************************************************************************)
EXTENDS JournalProofs

(***************************************************************************)
(* The clearing register.                                                  *)
(***************************************************************************)
\* A clearing that may be recorded: it applies something to each of its postings,
\* and names none of them twice.
IsAssignment(c) ==
    /\ c.items \in Seq(Elements(c.items))
    /\ \A n \in DOMAIN c.items : c.items[n].applied \in Nat
    /\ \A m, n \in DOMAIN c.items : c.items[m].posting = c.items[n].posting => m = n

AmountStep(ref, sum, item) == IF item.posting = ref THEN sum + item.applied ELSE sum

Amounts == INSTANCE Folding WITH Op <- AmountStep

\* What the items add up to on a posting that comes m-th, or not at all.
LEMMA AmountAt ==
    ASSUME NEW c, IsAssignment(c), NEW ref, NEW m \in Nat,
           \A n \in DOMAIN c.items : c.items[n].posting = ref <=> n = m
    PROVE  AmountOn(c, ref) = IF m \in DOMAIN c.items THEN c.items[m].applied ELSE 0
<1> DEFINE q == c.items
           n == Len(q)
           x == IF m \in 1..n THEN q[m].applied ELSE 0
<1>1. n \in Nat /\ DOMAIN q = 1..n /\ \A j \in 1..n : q[j].applied \in Nat
  BY DEF IsAssignment
<1>2. AmountOn(c, ref) = Amounts!Fold(ref, 0, q)
  BY DEF AmountOn, AmountStep, FoldLeft, MapThenFoldSet, Max,
         Amounts!Fold, Amounts!FoldLeft, Amounts!MapThenFoldSet, Amounts!Max
<1> HIDE DEF q, n
<1>3. PICK s : Amounts!IsTrace(s, ref, 0, q, n) /\ Amounts!Fold(ref, 0, q) = s[n]
  BY <1>1, Amounts!FoldTrace
<1>4. s[0] = 0 /\ \A j \in 0..(n - 1) : s[j + 1] = AmountStep(ref, s[j], q[j + 1])
  BY <1>3 DEF Amounts!IsTrace
<1>5. x \in Nat
  BY <1>1
<1>6. \A j \in 1..n : q[j].posting = ref <=> j = m
  BY <1>1 DEF q
<1> DEFINE T == {j \in 0..n : s[j] = IF m \in 1..j THEN x ELSE 0}
<1>7. 0 \in T
  BY <1>1, <1>4
<1>8. ASSUME NEW j \in 0..(n - 1), j \in T PROVE j + 1 \in T
  <2>1. j + 1 \in 1..n /\ j + 1 \in 0..n /\ j \in Nat
    BY <1>1
  <2>2. s[j] = IF m \in 1..j THEN x ELSE 0
    BY <1>8
  <2>3. s[j + 1] = IF q[j + 1].posting = ref THEN s[j] + q[j + 1].applied ELSE s[j]
    BY <1>4 DEF AmountStep
  <2>4. CASE j + 1 = m
    <3>1. s[j] = 0 /\ m \in 1..(j + 1) /\ m \in 1..n
      BY <2>1, <2>2, <2>4
    <3>2. s[j + 1] = 0 + q[m].applied
      BY <1>6, <2>1, <2>3, <2>4, <3>1
    <3>3. s[j + 1] = x
      BY <1>1, <3>1, <3>2
    <3> HIDE DEF x
    <3> QED BY <2>1, <3>1, <3>3
  <2>5. CASE j + 1 # m
    <3>1. s[j + 1] = s[j]
      BY <1>6, <2>1, <2>3, <2>5
    <3>2. m \in 1..(j + 1) <=> m \in 1..j
      BY <2>1, <2>5
    <3> HIDE DEF x
    <3> QED BY <2>1, <2>2, <3>1, <3>2
  <2> QED BY <2>4, <2>5
<1>9. \A j \in 0..n : j \in T
  <2> HIDE DEF T
  <2> QED BY <1>1, <1>7, <1>8, Amounts!BoundedInduction
<1>10. s[n] = x
  BY <1>1, <1>9
<1> QED BY <1>1, <1>2, <1>3, <1>10 DEF q

\* The sum over the items is what the register applies.
LEMMA AmountIsApplied ==
    ASSUME NEW c, IsAssignment(c), NEW ref
    PROVE  AmountOn(c, ref) = AppliedBy(c, ref) /\ AmountOn(c, ref) \in Nat
<1>1. CASE ref \in Refs(c)
  <2> DEFINE m == CHOOSE n \in DOMAIN c.items : c.items[n].posting = ref
  <2>1. m \in DOMAIN c.items /\ c.items[m].posting = ref
    BY <1>1 DEF Refs
  <2>2. AppliedBy(c, ref) = c.items[m].applied
    BY <1>1 DEF AppliedBy
  <2> HIDE DEF m
  <2>3. \A n \in DOMAIN c.items : c.items[n].posting = ref <=> n = m
    BY <2>1 DEF IsAssignment
  <2>4. m \in Nat /\ c.items[m].applied \in Nat
    BY <2>1 DEF IsAssignment
  <2> QED BY <2>1, <2>2, <2>3, <2>4, AmountAt
<1>2. CASE ref \notin Refs(c)
  <2>1. \A n \in DOMAIN c.items : c.items[n].posting # ref
    BY <1>2 DEF Refs
  <2>2. 0 \notin DOMAIN c.items
    BY DEF IsAssignment
  <2>3. \A n \in DOMAIN c.items : c.items[n].posting = ref <=> n = 0
    BY <2>1, <2>2
  <2>4. AmountOn(c, ref) = 0
    <3>1. 0 \in Nat
      OBVIOUS
    <3> QED BY <2>2, <2>3, <3>1, AmountAt
  <2> QED BY <1>2, <2>4 DEF AppliedBy
<1> QED BY <1>1, <1>2

\* clear only accepts assignments.
LEMMA ClearedIsAssignment ==
    ASSUME NEW reg, NEW b, NEW c \in Assignments, CanClear(reg, b, c)
    PROVE  IsAssignment(c)
<1> DEFINE D == DOMAIN c.items
           R == Refs(c)
           f == [n \in D |-> c.items[n].posting]
<1>1. c.items \in Seq(Elements(c.items)) /\ \A n \in D : c.items[n].applied \in Int
  BY AssignmentsAreTyped DEF Elements
<1>2. \A n \in D : c.items[n].applied \in Nat
  BY <1>1 DEF CanClear, ItemHolds
<1>3. D = 1..Len(c.items) /\ Len(c.items) \in Nat
  BY <1>1
<1>4. IsFiniteSet(D) /\ Cardinality(D) = Len(c.items)
  <2> DEFINE n == Len(c.items)
  <2>1. D = 1..n /\ n \in Nat
    BY <1>3
  <2> HIDE DEF n, D
  <2>2. IsFiniteSet(1..n) /\ Cardinality(1..n) = n
    BY <2>1, FS_Interval
  <2> QED BY <2>1, <2>2 DEF n
<1>5. f \in Surjection(D, R)
  BY DEF Surjection, Refs
<1>6. Cardinality(R) = Cardinality(D)
  BY <1>4 DEF CanClear
<1>7. f \in Injection(D, R)
  <2> HIDE DEF f, D, R
  <2> QED BY <1>4, <1>5, <1>6, FS_SurjSameCardinalityImpliesInj
<1>8. \A m, n \in D : c.items[m].posting = c.items[n].posting => m = n
  <2>1. \A m, n \in D : f[m] = f[n] => m = n
    <3> HIDE DEF f, D, R
    <3> QED BY <1>7 DEF Injection, IsInjective
  <2> QED BY <2>1
<1> QED BY <1>1, <1>2, <1>8 DEF IsAssignment

-----------------------------------------------------------------------------
\* One clearing more in the sum over the clearings that stand.
ReplayStep(ref, sum, c) == AmountOn(c, ref) + sum

Standings == INSTANCE Folding WITH Op <- ReplayStep

Replayed(ref, S) == Standings!SetFold(ref, 0, S)

\* What the model sums over a set of clearings is the fold named here.
LEMMA ReplayedIsSum ==
    ASSUME NEW ref, NEW S
    PROVE  MapThenSumSet(LAMBDA c : AmountOn(c, ref), S) = Replayed(ref, S)
  BY DEF MapThenSumSet, MapThenFoldSet, Replayed, ReplayStep,
         Standings!SetFold, Standings!FoldSet, Standings!MapThenFoldSet

\* One clearing more adds what it applies.
LEMMA ReplayedInsert ==
    ASSUME NEW S, IsFiniteSet(S), \A c \in S : IsAssignment(c), NEW d, d \notin S, IsAssignment(d), NEW ref
    PROVE  /\ Replayed(ref, S \cup {d}) = Replayed(ref, S) + AppliedBy(d, ref)
           /\ Replayed(ref, S) \in Nat /\ Replayed(ref, S \cup {d}) \in Nat
           /\ AppliedBy(d, ref) \in Nat
<1> DEFINE R == S \cup {d}
           A == Nat
<1>1. \A c \in R : AmountOn(c, ref) \in Nat
  BY AmountIsApplied
<1>2. Standings!Commutes(ref, 0, A, R)
  BY <1>1 DEF Standings!Commutes, ReplayStep
<1>3. d \in R /\ IsFiniteSet(R)
  BY FS_AddElement
<1>7. R \ {d} = S
  OBVIOUS
<1> HIDE DEF A, R
<1>8. d \in R /\ Standings!IsFiniteSet(R)
  BY <1>3 DEF IsFiniteSet, Standings!IsFiniteSet
<1>4. /\ Standings!SetFold(ref, 0, R) = ReplayStep(ref, Standings!SetFold(ref, 0, R \ {d}), d)
      /\ Standings!SetFold(ref, 0, R \ {d}) \in A /\ Standings!SetFold(ref, 0, R) \in A
  BY <1>2, <1>8, Standings!SetFoldRemove
<1>5. AmountOn(d, ref) = AppliedBy(d, ref) /\ AmountOn(d, ref) \in Nat
  BY AmountIsApplied
<1>6. /\ Replayed(ref, R) = AmountOn(d, ref) + Replayed(ref, S)
      /\ Replayed(ref, S) \in Nat /\ Replayed(ref, R) \in Nat
  BY <1>4, <1>7 DEF Replayed, ReplayStep, A
<1> QED BY <1>5, <1>6 DEF R

-----------------------------------------------------------------------------
\* The clearing on record under an identifier.
OnRecord(reg, id) == reg.events[reg.by_id[id]].clearing

StandingIn(reg) == {OnRecord(reg, id) : id \in DOMAIN reg.by_id \ DOMAIN reg.reset}

\* The register finds every clearing under its own identifier, and says of every
\* posting what replaying the clearings that stand says of it.
RegisterInv(reg) ==
    /\ IsFiniteSet(DOMAIN reg.by_id)
    /\ IsSeq(reg.events)
    /\ DOMAIN reg.reset \subseteq DOMAIN reg.by_id
    /\ \A id \in DOMAIN reg.by_id :
          /\ reg.by_id[id] \in DOMAIN reg.events
          /\ OnRecord(reg, id).id = id
          /\ IsAssignment(OnRecord(reg, id))
          /\ Refs(OnRecord(reg, id)) \subseteq DOMAIN reg.applied
    /\ \A ref : applied_to(reg, ref) = Replayed(ref, StandingIn(reg))

\* The clearings that stand are finitely many assignments.
LEMMA StandingIsFinite ==
    ASSUME NEW reg, RegisterInv(reg)
    PROVE  IsFiniteSet(StandingIn(reg)) /\ \A c \in StandingIn(reg) : IsAssignment(c)
<1> DEFINE I == DOMAIN reg.by_id \ DOMAIN reg.reset
           f == [id \in I |-> OnRecord(reg, id)]
           S == StandingIn(reg)
<1>1. IsFiniteSet(DOMAIN reg.by_id) /\ I \in SUBSET DOMAIN reg.by_id
  BY DEF RegisterInv
<1>2. f \in Surjection(I, S)
  BY DEF Surjection, StandingIn
<1>3. \A c \in S : IsAssignment(c)
  BY DEF RegisterInv, StandingIn
<1> HIDE DEF I, f, S
<1>4. IsFiniteSet(I)
  BY <1>1, FS_Subset
<1>5. IsFiniteSet(S)
  BY <1>2, <1>4, FS_Surjection
<1> QED BY <1>3, <1>5 DEF S

\* A new register.
LEMMA NewRegister == RegisterInv(ClearingRegister_new)
<1> DEFINE reg == ClearingRegister_new
<1>1. DOMAIN reg.by_id = {} /\ DOMAIN reg.applied = {} /\ DOMAIN reg.reset = {} /\ reg.events = <<>>
  BY DEF ClearingRegister_new, EmptyMap
<1> HIDE DEF reg
<1>2. IsFiniteSet(DOMAIN reg.by_id)
  BY <1>1, FS_EmptySet
<1>3. IsSeq(reg.events)
  BY <1>1 DEF IsSeq
<1>4. ASSUME NEW ref PROVE applied_to(reg, ref) = Replayed(ref, StandingIn(reg))
  <2>1. StandingIn(reg) = {}
    BY <1>1 DEF StandingIn
  <2>2. Replayed(ref, {}) = 0
    BY Standings!SetFoldEmpty DEF Replayed
  <2> QED BY <1>1, <2>1, <2>2 DEF applied_to
<1> QED BY <1>1, <1>2, <1>3, <1>4 DEF RegisterInv, reg

\* One event more.
LEMMA EventAppended ==
    ASSUME NEW events, IsSeq(events), NEW event
    PROVE  LET later == Append(events, event)
               n     == Len(events) + 1
           IN  /\ IsSeq(later) /\ n \in DOMAIN later /\ later[n] = event
               /\ \A i \in DOMAIN events : i \in DOMAIN later /\ later[i] = events[i]
<1> DEFINE E == Elements(events) \cup {event}
           later == Append(events, event)
           n == Len(events) + 1
<1>1. events \in Seq(E) /\ event \in E
  BY DEF IsSeq
<1> HIDE DEF E
<1>2. /\ n \in DOMAIN later /\ later[n] = event /\ later \in Seq(E)
      /\ \A i \in DOMAIN events : i \in DOMAIN later /\ later[i] = events[i]
  BY <1>1
<1>3. IsSeq(later)
  <2> DEFINE q == later
             m == Len(q)
  <2>1. q \in Seq(E)
    BY <1>2
  <2> HIDE DEF q
  <2>2. m \in Nat /\ q \in [1..m -> Elements(q)]
    BY <2>1 DEF Elements
  <2>3. IsSeq(q)
    BY <2>2 DEF IsSeq
  <2> QED BY <2>3 DEF q
<1> QED BY <1>2, <1>3

\* Recording a clearing.
LEMMA ClearKeeps ==
    ASSUME NEW reg, RegisterInv(reg), NEW c, IsAssignment(c), c.id \notin DOMAIN reg.by_id
    PROVE  LET later == clear(reg, c) IN
           /\ RegisterInv(later)
           /\ \A ref : /\ applied_to(later, ref) = applied_to(reg, ref) + AppliedBy(c, ref)
                       /\ AppliedBy(c, ref) \in Nat
           /\ DOMAIN later.applied = DOMAIN reg.applied \cup Refs(c)
           /\ DOMAIN later.by_id = DOMAIN reg.by_id \cup {c.id}
           /\ OnRecord(later, c.id) = c
           /\ \A id \in DOMAIN reg.by_id : OnRecord(later, id) = OnRecord(reg, id)
<1> DEFINE later == clear(reg, c)
           event == [kind |-> "Cleared", clearing |-> c]
           n == Len(reg.events) + 1
           S == StandingIn(reg)
<1>1. /\ later.events = Append(reg.events, event)
      /\ later.applied = [ref \in DOMAIN reg.applied \cup Refs(c) |->
                             applied_to(reg, ref) + AppliedBy(c, ref)]
      /\ later.reset = reg.reset
      /\ later.by_id = Insert(reg.by_id, c.id, n)
  BY DEF clear
<1>2. /\ DOMAIN later.by_id = DOMAIN reg.by_id \cup {c.id}
      /\ later.by_id[c.id] = n
      /\ \A id \in DOMAIN reg.by_id : later.by_id[id] = reg.by_id[id]
  BY <1>1 DEF Insert
<1>3. /\ IsSeq(later.events) /\ n \in DOMAIN later.events /\ later.events[n] = event
      /\ \A i \in DOMAIN reg.events : i \in DOMAIN later.events /\ later.events[i] = reg.events[i]
  <2> HIDE DEF event, later
  <2> QED BY <1>1, EventAppended DEF RegisterInv
<1> HIDE DEF later, n
<1>4. \A id \in DOMAIN reg.by_id : OnRecord(later, id) = OnRecord(reg, id)
  BY <1>2, <1>3 DEF OnRecord, RegisterInv
<1>5. OnRecord(later, c.id) = c
  BY <1>2, <1>3 DEF OnRecord
<1>6. DOMAIN reg.applied \subseteq DOMAIN later.applied /\ Refs(c) \subseteq DOMAIN later.applied
  BY <1>1
<1>7. IsFiniteSet(DOMAIN later.by_id)
  <2> DEFINE B == DOMAIN reg.by_id
  <2>1. IsFiniteSet(B) /\ DOMAIN later.by_id = B \cup {c.id}
    BY <1>2 DEF RegisterInv
  <2> HIDE DEF B
  <2> QED BY <2>1, FS_AddElement
<1>8. ASSUME NEW id \in DOMAIN later.by_id
      PROVE  /\ later.by_id[id] \in DOMAIN later.events
             /\ OnRecord(later, id).id = id
             /\ IsAssignment(OnRecord(later, id))
             /\ Refs(OnRecord(later, id)) \subseteq DOMAIN later.applied
  <2>1. CASE id = c.id
    BY <1>2, <1>3, <1>5, <1>6, <2>1
  <2>2. CASE id # c.id
    <3>1. id \in DOMAIN reg.by_id
      BY <1>2, <2>2
    <3> QED BY <1>2, <1>3, <1>4, <1>6, <3>1 DEF RegisterInv
  <2> QED BY <2>1, <2>2
<1>9. IsFiniteSet(S) /\ \A d \in S : IsAssignment(d)
  BY StandingIsFinite
<1>10. ASSUME NEW ref PROVE applied_to(later, ref) = applied_to(reg, ref) + AppliedBy(c, ref)
                            /\ AppliedBy(c, ref) \in Nat
  <2>1. AppliedBy(c, ref) \in Nat
    BY AmountIsApplied
  <2>2. CASE ref \in DOMAIN later.applied
    BY <1>1, <2>1, <2>2 DEF applied_to
  <2>3. CASE ref \notin DOMAIN later.applied
    <3>1. applied_to(later, ref) = 0 /\ applied_to(reg, ref) = 0 /\ AppliedBy(c, ref) = 0
      BY <1>6, <2>3 DEF applied_to, AppliedBy
    <3> QED BY <3>1
  <2> QED BY <2>1, <2>2, <2>3
<1>11. RegisterInv(later)
  <2>0. c.id \notin DOMAIN reg.reset /\ DOMAIN later.reset \subseteq DOMAIN later.by_id
    BY <1>1, <1>2 DEF RegisterInv
  <2>1. StandingIn(later) = S \cup {c}
    BY <1>1, <1>2, <1>4, <1>5, <2>0 DEF StandingIn
  <2>2. c \notin S
    BY DEF StandingIn, RegisterInv
  <2> HIDE DEF S
  <2>3. ASSUME NEW ref PROVE Replayed(ref, S \cup {c}) = Replayed(ref, S) + AppliedBy(c, ref)
    BY <1>9, <2>2, ReplayedInsert
  <2>4. ASSUME NEW ref PROVE applied_to(later, ref) = Replayed(ref, StandingIn(later))
    <3>1. applied_to(reg, ref) = Replayed(ref, S)
      BY DEF RegisterInv, S
    <3> QED BY <1>10, <2>1, <2>3, <3>1
  <2> QED BY <1>3, <1>7, <1>8, <2>0, <2>4 DEF RegisterInv
<1> QED BY <1>1, <1>2, <1>4, <1>5, <1>10, <1>11 DEF later

\* Releasing one.
LEMMA ResetKeeps ==
    ASSUME NEW reg, RegisterInv(reg), NEW id, NEW on, CanReset(reg, id)
    PROVE  LET later == reset(reg, id, on) IN
           /\ RegisterInv(later)
           /\ \A ref : /\ applied_to(later, ref) \in Nat
                       /\ AppliedBy(OnRecord(reg, id), ref) \in Nat
                       /\ applied_to(reg, ref) =
                            applied_to(later, ref) + AppliedBy(OnRecord(reg, id), ref)
           /\ DOMAIN later.applied = DOMAIN reg.applied
           /\ DOMAIN later.by_id = DOMAIN reg.by_id /\ id \in DOMAIN reg.by_id
           /\ \A i \in DOMAIN reg.by_id : OnRecord(later, i) = OnRecord(reg, i)
<1> DEFINE later == reset(reg, id, on)
           c == OnRecord(reg, id)
           event == [kind |-> "Reset", clearing |-> id, on |-> on]
           S == StandingIn(reg)
<1>1. /\ later.events = Append(reg.events, event)
      /\ later.applied = [ref \in DOMAIN reg.applied |-> applied_to(reg, ref) - AppliedBy(c, ref)]
      /\ DOMAIN later.reset = DOMAIN reg.reset \cup {id}
      /\ later.by_id = reg.by_id
  BY DEF reset, OnRecord, Insert
<1>2. /\ IsSeq(later.events)
      /\ \A i \in DOMAIN reg.events : i \in DOMAIN later.events /\ later.events[i] = reg.events[i]
  <2> HIDE DEF event, later
  <2> QED BY <1>1, EventAppended DEF RegisterInv
<1>3. id \in DOMAIN reg.by_id /\ id \notin DOMAIN reg.reset
  BY DEF CanReset
<1> HIDE DEF later
<1>4. \A i \in DOMAIN reg.by_id : OnRecord(later, i) = OnRecord(reg, i)
  BY <1>1, <1>2 DEF OnRecord, RegisterInv
<1>5. DOMAIN later.applied = DOMAIN reg.applied
  BY <1>1
<1>6. StandingIn(later) = S \ {c}
  <2>1. ASSUME NEW i \in DOMAIN reg.by_id, OnRecord(reg, i) = c PROVE i = id
    BY <1>3, <2>1 DEF RegisterInv
  <2> QED BY <1>1, <1>3, <1>4, <2>1 DEF StandingIn
<1>7. c \in S /\ IsAssignment(c) /\ Refs(c) \subseteq DOMAIN reg.applied
  BY <1>3 DEF StandingIn, RegisterInv
<1>8. IsFiniteSet(S) /\ \A d \in S : IsAssignment(d)
  BY StandingIsFinite
<1>9. ASSUME NEW ref
      PROVE  /\ Replayed(ref, S) = Replayed(ref, S \ {c}) + AppliedBy(c, ref)
             /\ Replayed(ref, S \ {c}) \in Nat /\ AppliedBy(c, ref) \in Nat
  <2> DEFINE R == S \ {c}
  <2>1. IsFiniteSet(R) /\ (\A d \in R : IsAssignment(d)) /\ c \notin R
    BY <1>8, FS_Subset
  <2>2. R \cup {c} = S
    BY <1>7
  <2> HIDE DEF R, S, c
  <2>3. /\ Replayed(ref, R \cup {c}) = Replayed(ref, R) + AppliedBy(c, ref)
        /\ Replayed(ref, R) \in Nat /\ AppliedBy(c, ref) \in Nat
    BY <1>7, <2>1, ReplayedInsert
  <2> QED BY <2>2, <2>3 DEF R
<1>10. ASSUME NEW ref
       PROVE  applied_to(later, ref) = Replayed(ref, S \ {c})
              /\ applied_to(reg, ref) = applied_to(later, ref) + AppliedBy(c, ref)
  <2> DEFINE r == Replayed(ref, S \ {c})
             d == AppliedBy(c, ref)
  <2>0. Replayed(ref, S) = r + d /\ r \in Nat /\ d \in Nat
    BY <1>9
  <2>1. applied_to(reg, ref) = Replayed(ref, S)
    BY DEF RegisterInv
  <2>2. CASE ref \in DOMAIN reg.applied
    <3>1. applied_to(later, ref) = applied_to(reg, ref) - d
      BY <1>1, <2>2 DEF applied_to
    <3> HIDE DEF r, d
    <3>2. applied_to(later, ref) = r /\ applied_to(reg, ref) = applied_to(later, ref) + d
      BY <2>0, <2>1, <3>1
    <3> QED BY <3>2 DEF r, d
  <2>3. CASE ref \notin DOMAIN reg.applied
    <3>1. applied_to(later, ref) = 0 /\ applied_to(reg, ref) = 0 /\ d = 0
      BY <1>5, <1>7, <2>3 DEF applied_to, AppliedBy
    <3> HIDE DEF r, d
    <3>2. applied_to(later, ref) = r /\ applied_to(reg, ref) = applied_to(later, ref) + d
      BY <2>0, <2>1, <3>1
    <3> QED BY <3>2 DEF r, d
  <2> QED BY <2>2, <2>3
<1>11. RegisterInv(later)
  <2>1. IsFiniteSet(DOMAIN later.by_id) /\ DOMAIN later.reset \subseteq DOMAIN later.by_id
    BY <1>1, <1>3 DEF RegisterInv
  <2>2. ASSUME NEW i \in DOMAIN later.by_id
        PROVE  /\ later.by_id[i] \in DOMAIN later.events
               /\ OnRecord(later, i).id = i
               /\ IsAssignment(OnRecord(later, i))
               /\ Refs(OnRecord(later, i)) \subseteq DOMAIN later.applied
    <3>1. i \in DOMAIN reg.by_id
      BY <1>1
    <3> QED BY <1>1, <1>2, <1>4, <1>5, <3>1 DEF RegisterInv
  <2>3. \A ref : applied_to(later, ref) = Replayed(ref, StandingIn(later))
    BY <1>6, <1>10
  <2> QED BY <1>2, <2>1, <2>2, <2>3 DEF RegisterInv
<1> QED BY <1>1, <1>3, <1>4, <1>5, <1>9, <1>10, <1>11 DEF later

\* What the register says has been applied to a posting is what replaying its
\* events says, however many clearings were recorded and released in whatever order.
THEOREM AppliedAmountsReplay == StoreSpec => []AppliedIsReplay
<1>1. StoreInit => RegisterInv(clearings)
  BY NewRegister DEF StoreInit
<1>2. RegisterInv(clearings) /\ [StoreNext]_storeVars => RegisterInv(clearings)'
  <2> SUFFICES ASSUME RegisterInv(clearings), [StoreNext]_storeVars PROVE RegisterInv(clearings')
    OBVIOUS
  <2>1. ASSUME NEW c \in Assignments, Clear(c) PROVE RegisterInv(clearings')
    <3>1. CanClear(clearings, books, c) /\ clearings' = clear(clearings, c)
      BY <2>1 DEF Clear
    <3>2. IsAssignment(c) /\ c.id \notin DOMAIN clearings.by_id
      BY <3>1, ClearedIsAssignment DEF CanClear
    <3> QED BY <3>1, <3>2, ClearKeeps
  <2>2. ASSUME NEW c \in Assignments, NEW on \in ResetDates, ResetClearing(c.id, on)
        PROVE  RegisterInv(clearings')
    BY <2>2, ResetKeeps DEF ResetClearing
  <2>3. CASE clearings' = clearings
    BY <2>3
  <2>4. CASE /\ ~\E c \in Assignments : Clear(c)
             /\ ~\E c \in Assignments, on \in ResetDates : ResetClearing(c.id, on)
    <3>1. clearings' = clearings
      BY <2>4 DEF StoreNext, storeVars, Validate, PrepareClosing, Append_, StoreAccount, StorePeriod,
                  MovePeriod, StoreSeal
    <3> QED BY <2>3, <3>1
  <2> QED BY <2>1, <2>2, <2>4
<1>3. RegisterInv(clearings) => AppliedIsReplay
  <2> SUFFICES ASSUME RegisterInv(clearings), NEW ref \in DOMAIN clearings.applied
               PROVE  applied_to(clearings, ref) = MapThenSumSet(LAMBDA c : AmountOn(c, ref), Standing)
    BY DEF AppliedIsReplay
  <2>1. Standing = StandingIn(clearings)
    BY DEF Standing, StandingIn, OnRecord
  <2>2. applied_to(clearings, ref) = Replayed(ref, Standing)
    BY <2>1 DEF RegisterInv
  <2>3. MapThenSumSet(LAMBDA c : AmountOn(c, ref), Standing) = Replayed(ref, Standing)
    BY ReplayedIsSum
  <2> QED BY <2>2, <2>3
<1> QED BY <1>1, <1>2, <1>3, PTL DEF StoreSpec

-----------------------------------------------------------------------------
(***************************************************************************)
(* The register and the books.                                             *)
(***************************************************************************)
\* The reference that names the posting of a site, and the site of a reference.
RefAt(b, s) == [entry |-> b.entries[s.index].id, index |-> s.posting]

SiteOf(b, ref) == [index |-> b.by_id[ref.entry], posting |-> ref.index]

\* What has been applied to a site, and what one clearing takes from it, signed as
\* the site books it.
ClearedAt(reg, b) ==
    [s \in Site |-> Signed(resolve(b, s).direction, applied_to(reg, RefAt(b, s)))]

TakenAt(c, b) == [s \in Site |-> Signed(resolve(b, s).direction, AppliedBy(c, RefAt(b, s)))]

\* A site and its reference name the same posting.
LEMMA SitesAreNamed ==
    ASSUME NEW E, Sound(E), NEW b, BooksInv(b, E), NEW k, NEW s \in SitesFor(b, k)
    PROVE  /\ s \in Site /\ s.index \in Indices(b)
           /\ resolve(b, s) \in Posting /\ key_of(resolve(b, s)) = k
           /\ Resolves(b, RefAt(b, s)) /\ posting(b, RefAt(b, s)) = resolve(b, s)
           /\ SiteOf(b, RefAt(b, s)) = s
<1>1. /\ s \in [index : Indices(b), posting : 1..MaxPostings]
      /\ s.posting \in DOMAIN b.entries[s.index].postings
  BY DEF SitesFor
<1>2. s.index \in Indices(b) /\ s = [index |-> s.index, posting |-> s.posting]
  BY <1>1
<1>3. /\ s \in Site /\ s.index \in Indices(b)
      /\ resolve(b, s) \in Posting /\ key_of(resolve(b, s)) = k
  BY SitesAreTyped
<1>4. /\ b.entries[s.index].id \in DOMAIN b.by_id
      /\ b.by_id[b.entries[s.index].id] = s.index
  BY <1>2 DEF BooksInv, IdsExact
<1>5. Resolves(b, RefAt(b, s)) /\ posting(b, RefAt(b, s)) = resolve(b, s)
  BY <1>1, <1>4 DEF Resolves, posting, resolve, RefAt
<1>6. SiteOf(b, RefAt(b, s)) = s
  BY <1>2, <1>4 DEF SiteOf, RefAt
<1> QED BY <1>3, <1>5, <1>6

\* A reference that resolves has a site, among those of its key.
LEMMA RefsHaveSites ==
    ASSUME NEW E, Sound(E), NEW b, BooksInv(b, E), NEW ref, Resolves(b, ref),
           ref = [entry |-> ref.entry, index |-> ref.index]
    PROVE  /\ SiteOf(b, ref) \in SitesFor(b, key_of(posting(b, ref)))
           /\ RefAt(b, SiteOf(b, ref)) = ref
<1> DEFINE i == b.by_id[ref.entry]
<1>1. i \in Indices(b) /\ b.entries[i].id = ref.entry
  <2>1. PICK n \in Indices(b) : b.entries[n].id = ref.entry
    BY DEF Resolves, BooksInv, IdsExact
  <2>2. b.by_id[b.entries[n].id] = n
    BY DEF BooksInv, IdsExact
  <2> QED BY <2>1, <2>2
<1>2. ref.index \in DOMAIN b.entries[i].postings
  BY DEF Resolves
<1>3. ref.index \in 1..MaxPostings
  <2>1. b.entries[i] \in E
    BY <1>1 DEF BooksInv, Indices
  <2>2. b.entries[i].postings \in Seq(Posting) /\ Len(b.entries[i].postings) <= MaxPostings
    BY <2>1 DEF Sound
  <2> HIDE DEF i
  <2> QED BY <1>2, <2>2, BoundsArePositive
<1> QED BY <1>1, <1>2, <1>3 DEF SiteOf, RefAt, SitesFor, resolve, posting

SidesStep(b, sides, item) ==
    add(sides, [direction |-> posting(b, item.posting).direction, amount |-> item.applied])

Sided == INSTANCE Folding WITH Op <- SidesStep

\* What clear makes sure of: the items name postings on one key, and take as much
\* from its debits as from its credits.
Cancels(c, b) ==
    /\ IsAssignment(c)
    /\ \A n \in DOMAIN c.items :
          LET ref == c.items[n].posting IN
          /\ ref = [entry |-> ref.entry, index |-> ref.index]
          /\ Resolves(b, ref) /\ key_of(posting(b, ref)) = key(c)
    /\ is_balanced(Sides(b, c))

\* The first items of a clearing, as weights of the sites they name.
TakenBefore(c, b, j) ==
    [s \in Site |-> IF \E i \in 1..j : c.items[i].posting = RefAt(b, s)
                    THEN Signed(resolve(b, s).direction, AppliedBy(c, RefAt(b, s))) ELSE 0]

\* One item adds to the sum what it applies.
LEMMA ItemTakes ==
    ASSUME NEW E, Sound(E), NEW b, BooksInv(b, E), NEW c, Cancels(c, b),
           NEW j \in Nat, j + 1 \in DOMAIN c.items
    PROVE  LET q == SitesOn(b.sites, key(c))
               item == c.items[j + 1]
           IN  /\ SumOver(TakenBefore(c, b, j), q) \in Int
               /\ SumOver(TakenBefore(c, b, j + 1), q) =
                    SumOver(TakenBefore(c, b, j), q)
                        + Signed(posting(b, item.posting).direction, item.applied)
               /\ item.applied \in Int /\ posting(b, item.posting).direction \in Direction
<1> DEFINE q == SitesOn(b.sites, key(c))
           item == c.items[j + 1]
           ref == item.posting
           site == SiteOf(b, ref)
           x == Signed(posting(b, ref).direction, item.applied)
           u == TakenBefore(c, b, j)
           w == TakenBefore(c, b, j + 1)
           v == [s \in Site |-> IF s = site THEN x ELSE 0]
<1>1. /\ q \in Seq(Site) /\ Elements(q) = SitesFor(b, key(c))
      /\ \A m, n \in DOMAIN q : q[m] = q[n] => m = n
  BY SitesComeOnce
<1>2. /\ ref = [entry |-> ref.entry, index |-> ref.index]
      /\ Resolves(b, ref) /\ key_of(posting(b, ref)) = key(c)
  BY DEF Cancels
<1>3. site \in SitesFor(b, key(c)) /\ RefAt(b, site) = ref
  BY <1>2, RefsHaveSites
<1>4. \A s \in SitesFor(b, key(c)) :
          /\ s \in Site /\ resolve(b, s) \in Posting
          /\ posting(b, RefAt(b, s)) = resolve(b, s) /\ SiteOf(b, RefAt(b, s)) = s
  BY SitesAreNamed
<1>5. posting(b, ref) \in Posting /\ posting(b, ref) = resolve(b, site) /\ site \in Site
  BY <1>3, <1>4
<1>6. \A r : AppliedBy(c, r) \in Int
  BY AmountIsApplied DEF Cancels
<1>7. AppliedBy(c, ref) = item.applied
  <2>1. ref \in Refs(c)
    BY DEF Refs
  <2>2. \A n \in DOMAIN c.items : c.items[n].posting = ref <=> n = j + 1
    BY DEF Cancels, IsAssignment
  <2>3. (CHOOSE n \in DOMAIN c.items : c.items[n].posting = ref) = j + 1
    BY <2>2
  <2> QED BY <2>1, <2>3 DEF AppliedBy
<1>8. item.applied \in Int /\ x \in Int /\ posting(b, ref).direction \in Direction
  BY <1>5, <1>6, <1>7 DEF Signed, Posting
<1>9. \A i \in 1..j : i \in DOMAIN c.items /\ c.items[i].posting # ref
  <2>1. DOMAIN c.items = 1..Len(c.items) /\ Len(c.items) \in Nat
    BY DEF Cancels, IsAssignment
  <2>2. \A i \in 1..j : i \in DOMAIN c.items /\ i # j + 1
    BY <2>1
  <2> QED BY <2>2 DEF Cancels, IsAssignment
<1>10. ASSUME NEW s \in Elements(q)
       PROVE  u[s] \in Int /\ v[s] \in Int /\ w[s] = u[s] + v[s]
  <2>1. s \in SitesFor(b, key(c)) /\ s \in Site /\ SiteOf(b, RefAt(b, s)) = s
    BY <1>1, <1>4
  <2>2. u[s] \in Int
    BY <1>6, <2>1 DEF TakenBefore, Signed
  <2>3. v[s] \in Int
    BY <1>8, <2>1
  <2>4. CASE s = site
    <3>1. u[s] = 0
      BY <1>3, <1>9, <2>1, <2>4 DEF TakenBefore
    <3>2. w[s] = x
      <4>1. j + 1 \in 1..(j + 1) /\ c.items[j + 1].posting = RefAt(b, s)
        BY <1>3, <2>4
      <4> QED BY <1>3, <1>5, <1>7, <2>1, <2>4, <4>1 DEF TakenBefore
    <3>3. v[s] = x
      BY <2>1, <2>4
    <3> HIDE DEF x, u, v, w
    <3> QED BY <1>8, <3>1, <3>2, <3>3
  <2>5. CASE s # site
    <3>1. RefAt(b, s) # ref
      BY <2>1, <2>5
    <3>2. \A i \in 1..(j + 1) : i \in 1..j \/ i = j + 1
      OBVIOUS
    <3>3. \A i \in 1..j : i \in 1..(j + 1)
      OBVIOUS
    <3>4. (\E i \in 1..(j + 1) : c.items[i].posting = RefAt(b, s)) <=>
          (\E i \in 1..j : c.items[i].posting = RefAt(b, s))
      BY <3>1, <3>2, <3>3
    <3>5. w[s] = u[s]
      BY <2>1, <3>4 DEF TakenBefore
    <3>6. v[s] = 0
      BY <2>1, <2>5
    <3> HIDE DEF u, v, w
    <3> QED BY <2>2, <2>3, <3>5, <3>6
  <2> QED BY <2>2, <2>3, <2>4, <2>5
<1>11. SumOver(v, q) = x
  <2>1. PICK m \in DOMAIN q : q[m] = site
    BY <1>1, <1>3 DEF Elements
  <2>2. v[q[m]] = x
    BY <1>5, <2>1
  <2>3. \A n \in DOMAIN q : n # m => v[q[n]] = 0
    BY <1>1, <1>4, <2>1 DEF Elements
  <2> HIDE DEF v, x, q
  <2> QED BY <1>1, <1>8, <2>2, <2>3, SumOfOne
<1> HIDE DEF u, v, w, q, x
<1>12. SumOver(w, q) = SumOver(u, q) + SumOver(v, q) /\ SumOver(u, q) \in Int
  BY <1>1, <1>10, SumLinear
<1> QED BY <1>8, <1>11, <1>12 DEF u, v, w, q, x

\* A clearing moves the sum of what has been applied on no key at all.
LEMMA ClearingsCancel ==
    ASSUME NEW E, Sound(E), NEW b, BooksInv(b, E), NEW c, Cancels(c, b), NEW k
    PROVE  SumOver(TakenAt(c, b), SitesOn(b.sites, k)) = 0
<1> DEFINE q == SitesOn(b.sites, k)
           n == Len(c.items)
<1>1. q \in Seq(Site) /\ Elements(q) = SitesFor(b, k)
  BY SitesComeOnce
<1>2. \A s \in SitesFor(b, k) :
          /\ s \in Site /\ resolve(b, s) \in Posting /\ key_of(resolve(b, s)) = k
          /\ posting(b, RefAt(b, s)) = resolve(b, s)
  BY SitesAreNamed
<1>3. CASE k # key(c)
  <2>1. ASSUME NEW s \in Elements(q) PROVE TakenAt(c, b)[s] = 0
    <3>1. RefAt(b, s) \notin Refs(c)
      <4>1. key_of(posting(b, RefAt(b, s))) = k
        BY <1>1, <1>2
      <4>2. \A r \in Refs(c) : key_of(posting(b, r)) = key(c)
        BY DEF Refs, Cancels
      <4> QED BY <1>3, <4>1, <4>2
    <3>2. AppliedBy(c, RefAt(b, s)) = 0
      BY <3>1 DEF AppliedBy
    <3> QED BY <1>1, <1>2, <3>2 DEF TakenAt, Signed
  <2> HIDE DEF q
  <2>2. SumOver(TakenAt(c, b), q) = 0
    BY <1>1, <2>1, SumZero
  <2> QED BY <2>2 DEF q
<1>4. CASE k = key(c)
  <2>1. n \in Nat /\ DOMAIN c.items = 1..n
    BY DEF Cancels, IsAssignment
  <2> HIDE DEF n
  <2>2. PICK t : Sided!IsTrace(t, b, Balance_ZERO, c.items, n)
                 /\ Sided!Fold(b, Balance_ZERO, c.items) = t[n]
    BY <2>1, Sided!FoldTrace
  <2>3. /\ t[0] = Balance_ZERO
        /\ \A j \in 0..(n - 1) : t[j + 1] = SidesStep(b, t[j], c.items[j + 1])
    BY <2>2 DEF Sided!IsTrace
  <2>4. Sides(b, c) = t[n]
    BY <2>2 DEF Sides, SidesStep, FoldLeft, MapThenFoldSet, Max,
                Sided!Fold, Sided!FoldLeft, Sided!MapThenFoldSet, Sided!Max
  <2> DEFINE Net(row) == row.debits - row.credits
             T == {j \in Nat : /\ IsBalance(t[j])
                               /\ SumOver(TakenBefore(c, b, j), q) = Net(t[j])}
  <2>5. 0 \in T
    <3>1. \A s \in Elements(q) : TakenBefore(c, b, 0)[s] = 0
      BY <1>1, <1>2 DEF TakenBefore
    <3>2. SumOver(TakenBefore(c, b, 0), q) = 0
      <4> HIDE DEF q
      <4> QED BY <1>1, <3>1, SumZero
    <3> QED BY <2>3, <3>2 DEF Balance_ZERO, IsBalance
  <2>6. ASSUME NEW j \in 0..(n - 1), j \in T PROVE j + 1 \in T
    <3> DEFINE item == c.items[j + 1]
               direction == posting(b, item.posting).direction
               amount == item.applied
               before == SumOver(TakenBefore(c, b, j), q)
               after == SumOver(TakenBefore(c, b, j + 1), q)
    <3>1. j \in Nat /\ j + 1 \in Nat /\ j + 1 \in DOMAIN c.items
      BY <2>1
    <3>2. /\ before \in Int /\ after = before + Signed(direction, amount)
          /\ amount \in Int /\ direction \in Direction
      BY <1>4, <3>1, ItemTakes
    <3>3. t[j + 1] = add(t[j], [direction |-> direction, amount |-> amount])
      BY <2>3 DEF SidesStep
    <3>4. IsBalance(t[j]) /\ before = t[j].debits - t[j].credits
      BY <2>6
    <3> HIDE DEF item, direction, amount, before, after
    <3>5. t[j].debits \in Int /\ t[j].credits \in Int
      BY <3>4 DEF IsBalance
    <3>6. CASE direction = "Debit"
      <4>1. t[j + 1] = [debits |-> t[j].debits + amount, credits |-> t[j].credits]
        BY <3>3, <3>4, <3>6 DEF add, IsBalance
      <4>2. after = before + amount
        BY <3>2, <3>6 DEF Signed
      <4>3. IsBalance(t[j + 1]) /\ after = t[j + 1].debits - t[j + 1].credits
        BY <3>2, <3>4, <3>5, <4>1, <4>2 DEF IsBalance
      <4> QED BY <3>1, <4>3 DEF after
    <3>7. CASE direction = "Credit"
      <4>1. t[j + 1] = [debits |-> t[j].debits, credits |-> t[j].credits + amount]
        BY <3>3, <3>4, <3>7 DEF add, IsBalance
      <4>2. after = before - amount
        BY <3>2, <3>7 DEF Signed
      <4>3. IsBalance(t[j + 1]) /\ after = t[j + 1].debits - t[j + 1].credits
        BY <3>2, <3>4, <3>5, <4>1, <4>2 DEF IsBalance
      <4> QED BY <3>1, <4>3 DEF after
    <3> QED BY <3>2, <3>6, <3>7 DEF Direction
  <2>7. \A j \in 0..n : j \in T
    <3> HIDE DEF T
    <3> QED BY <2>1, <2>5, <2>6, Sided!BoundedInduction
  <2>8. SumOver(TakenBefore(c, b, n), q) = Net(t[n]) /\ IsBalance(t[n])
    <3>1. n \in T
      <4> HIDE DEF T
      <4> QED BY <2>1, <2>7
    <3> QED BY <3>1
  <2>9. Net(t[n]) = 0
    <3>1. t[n].debits = t[n].credits
      BY <2>4 DEF Cancels, is_balanced
    <3> QED BY <2>8, <3>1 DEF IsBalance
  <2>10. ASSUME NEW s \in Elements(q)
         PROVE  TakenBefore(c, b, n)[s] \in Int /\ TakenAt(c, b)[s] = TakenBefore(c, b, n)[s]
    <3>1. s \in Site
      BY <1>1, <1>2
    <3>2. AppliedBy(c, RefAt(b, s)) \in Int
      BY AmountIsApplied DEF Cancels
    <3>3. CASE RefAt(b, s) \in Refs(c)
      <4>1. \E i \in 1..n : c.items[i].posting = RefAt(b, s)
        BY <2>1, <3>3 DEF Refs
      <4> QED BY <3>1, <3>2, <4>1 DEF TakenBefore, TakenAt, Signed
    <3>4. CASE RefAt(b, s) \notin Refs(c)
      <4>1. ~\E i \in 1..n : c.items[i].posting = RefAt(b, s)
        BY <2>1, <3>4 DEF Refs
      <4>2. AppliedBy(c, RefAt(b, s)) = 0
        BY <3>4 DEF AppliedBy
      <4> QED BY <3>1, <4>1, <4>2 DEF TakenBefore, TakenAt, Signed
    <3> QED BY <3>3, <3>4
  <2>11. SumOver(TakenAt(c, b), q) = SumOver(TakenBefore(c, b, n), q)
    <3> HIDE DEF q
    <3> QED BY <1>1, <2>10, SumCongruent
  <2> QED BY <2>8, <2>9, <2>11
<1> QED BY <1>3, <1>4

\* The clearings on record take as much from one side of each key as from the
\* other, and never more from a posting than it has.
OpenInv(reg, b) ==
    /\ \A ref : applied_to(reg, ref) \in Nat
    /\ \A ref \in DOMAIN reg.applied :
          Resolves(b, ref) /\ applied_to(reg, ref) <= posting(b, ref).amount
    /\ \A id \in DOMAIN reg.by_id : Cancels(OnRecord(reg, id), b)
    /\ \A k : SumOver(ClearedAt(reg, b), SitesOn(b.sites, k)) = 0

\* Nothing is applied in a new register.
LEMMA NewRegisterIsOpen ==
    ASSUME NEW b, NEW E, BooksInv(b, E)
    PROVE  OpenInv(ClearingRegister_new, b)
<1> DEFINE reg == ClearingRegister_new
<1>1. DOMAIN reg.applied = {} /\ DOMAIN reg.by_id = {} /\ \A ref : applied_to(reg, ref) = 0
  BY DEF ClearingRegister_new, EmptyMap, applied_to
<1> HIDE DEF reg
<1>2. ASSUME NEW k PROVE SumOver(ClearedAt(reg, b), SitesOn(b.sites, k)) = 0
  <2> DEFINE q == SitesOn(b.sites, k)
  <2>1. q \in Seq(Site)
    BY SitesOnKey
  <2>2. \A s \in Site : ClearedAt(reg, b)[s] = 0
    BY <1>1 DEF ClearedAt, Signed
  <2>3. \A s \in Elements(q) : s \in Site
    BY <2>1 DEF Elements
  <2> HIDE DEF q
  <2>4. SumOver(ClearedAt(reg, b), q) = 0
    BY <2>1, <2>2, <2>3, SumZero
  <2> QED BY <2>4 DEF q
<1> QED BY <1>1, <1>2 DEF OpenInv, reg

\* An item of an assignment is what it applies.
LEMMA ItemIsApplied ==
    ASSUME NEW c, IsAssignment(c), NEW n \in DOMAIN c.items
    PROVE  AppliedBy(c, c.items[n].posting) = c.items[n].applied
<1> DEFINE ref == c.items[n].posting
<1>1. ref \in Refs(c)
  BY DEF Refs
<1>2. \A m \in DOMAIN c.items : c.items[m].posting = ref <=> m = n
  BY DEF IsAssignment
<1>3. (CHOOSE m \in DOMAIN c.items : c.items[m].posting = ref) = n
  BY <1>2
<1> QED BY <1>1, <1>3 DEF AppliedBy

\* A register that has applied what one clearing takes more on every posting has
\* the same sum on every key.
LEMMA SumsStay ==
    ASSUME NEW E, Sound(E), NEW b, BooksInv(b, E), NEW c, Cancels(c, b), NEW less, NEW more,
           \A ref : /\ applied_to(less, ref) \in Nat /\ AppliedBy(c, ref) \in Nat
                    /\ applied_to(more, ref) = applied_to(less, ref) + AppliedBy(c, ref),
           NEW k
    PROVE  SumOver(ClearedAt(more, b), SitesOn(b.sites, k)) =
             SumOver(ClearedAt(less, b), SitesOn(b.sites, k))
<1> DEFINE q == SitesOn(b.sites, k)
           u == ClearedAt(less, b)
           v == TakenAt(c, b)
           w == ClearedAt(more, b)
<1>1. q \in Seq(Site) /\ Elements(q) = SitesFor(b, k)
  BY SitesComeOnce
<1>2. ASSUME NEW s \in Elements(q) PROVE u[s] \in Int /\ v[s] \in Int /\ w[s] = u[s] + v[s]
  <2>1. s \in Site
    BY <1>1, SitesAreNamed
  <2> DEFINE ref == RefAt(b, s)
             x == applied_to(less, ref)
             y == AppliedBy(c, ref)
             z == applied_to(more, ref)
             direction == resolve(b, s).direction
  <2>2. x \in Nat /\ y \in Nat /\ z = x + y
    OBVIOUS
  <2>3. u[s] = Signed(direction, x) /\ v[s] = Signed(direction, y) /\ w[s] = Signed(direction, z)
    BY <2>1 DEF ClearedAt, TakenAt
  <2> HIDE DEF u, v, w, x, y, z, direction
  <2>4. CASE direction = "Debit"
    BY <2>2, <2>3, <2>4 DEF Signed
  <2>5. CASE direction # "Debit"
    BY <2>2, <2>3, <2>5 DEF Signed
  <2> QED BY <2>4, <2>5
<1> HIDE DEF q, u, v, w
<1>3. SumOver(w, q) = SumOver(u, q) + SumOver(v, q) /\ SumOver(u, q) \in Int
  BY <1>1, <1>2, SumLinear
<1>4. SumOver(v, q) = 0
  BY ClearingsCancel DEF v, q
<1> QED BY <1>3, <1>4 DEF q, u, w

\* A clearing that was allowed keeps the register as OpenInv says.
LEMMA ClearOpens ==
    ASSUME NEW E, Sound(E), NEW b, BooksInv(b, E), NEW reg, RegisterInv(reg), OpenInv(reg, b),
           NEW c \in Assignments, CanClear(reg, b, c)
    PROVE  OpenInv(clear(reg, c), b)
<1> DEFINE later == clear(reg, c)
<1>1. IsAssignment(c) /\ c.id \notin DOMAIN reg.by_id
  BY ClearedIsAssignment DEF CanClear
<1>2. Cancels(c, b)
  <2>1. is_balanced(Sides(b, c))
    BY DEF CanClear, SidesMatch
  <2> QED BY <1>1, <2>1, AssignmentsAreTyped DEF Cancels, CanClear, ItemHolds
<1>3. /\ \A ref : /\ applied_to(later, ref) = applied_to(reg, ref) + AppliedBy(c, ref)
                  /\ AppliedBy(c, ref) \in Nat
      /\ DOMAIN later.applied = DOMAIN reg.applied \cup Refs(c)
      /\ DOMAIN later.by_id = DOMAIN reg.by_id \cup {c.id}
      /\ OnRecord(later, c.id) = c
      /\ \A id \in DOMAIN reg.by_id : OnRecord(later, id) = OnRecord(reg, id)
  BY <1>1, ClearKeeps
<1> HIDE DEF later
<1>4. \A ref : applied_to(reg, ref) \in Nat
  BY DEF OpenInv
<1>5. \A ref : applied_to(later, ref) \in Nat
  BY <1>3, <1>4
<1>6. ASSUME NEW ref \in DOMAIN later.applied
      PROVE  Resolves(b, ref) /\ applied_to(later, ref) <= posting(b, ref).amount
  <2>1. CASE ref \in Refs(c)
    <3>1. PICK n \in DOMAIN c.items : c.items[n].posting = ref
      BY <2>1 DEF Refs
    <3>2. AppliedBy(c, ref) = c.items[n].applied
      BY <1>1, <3>1, ItemIsApplied
    <3>3. Resolves(b, ref) /\ ref = [entry |-> ref.entry, index |-> ref.index]
          /\ c.items[n].applied <= posting(b, ref).amount - applied_to(reg, ref)
      BY <1>2, <3>1 DEF Cancels, CanClear, ItemHolds, residual_of
    <3>4. posting(b, ref) \in Posting
      BY <3>3, RefsHaveSites, SitesAreNamed
    <3> DEFINE x == applied_to(reg, ref)
               y == AppliedBy(c, ref)
               z == posting(b, ref).amount
    <3>5. x \in Nat /\ y \in Nat /\ z \in Int /\ y <= z - x /\ applied_to(later, ref) = x + y
      BY <1>3, <1>4, <3>2, <3>3, <3>4 DEF Posting
    <3> HIDE DEF x, y, z
    <3>6. applied_to(later, ref) <= z
      BY <3>5
    <3> QED BY <3>3, <3>6 DEF z
  <2>2. CASE ref \notin Refs(c)
    <3>1. ref \in DOMAIN reg.applied /\ AppliedBy(c, ref) = 0
      BY <1>3, <2>2 DEF AppliedBy
    <3>2. applied_to(later, ref) = applied_to(reg, ref)
      BY <1>3, <1>4, <3>1
    <3> QED BY <3>1, <3>2 DEF OpenInv
  <2> QED BY <2>1, <2>2
<1>7. \A id \in DOMAIN later.by_id : Cancels(OnRecord(later, id), b)
  BY <1>2, <1>3 DEF OpenInv
<1>8. ASSUME NEW k PROVE SumOver(ClearedAt(later, b), SitesOn(b.sites, k)) = 0
  <2>1. SumOver(ClearedAt(later, b), SitesOn(b.sites, k)) =
          SumOver(ClearedAt(reg, b), SitesOn(b.sites, k))
    BY <1>2, <1>3, <1>4, SumsStay
  <2> QED BY <2>1 DEF OpenInv
<1> QED BY <1>5, <1>6, <1>7, <1>8 DEF OpenInv, later

\* So does the reset of a clearing: it gives back to each side of its key the same amount.
LEMMA ResetOpens ==
    ASSUME NEW E, Sound(E), NEW b, BooksInv(b, E), NEW reg, RegisterInv(reg), OpenInv(reg, b),
           NEW id, NEW on, CanReset(reg, id)
    PROVE  OpenInv(reset(reg, id, on), b)
<1> DEFINE later == reset(reg, id, on)
           c == OnRecord(reg, id)
<1>1. /\ \A ref : /\ applied_to(later, ref) \in Nat /\ AppliedBy(c, ref) \in Nat
                  /\ applied_to(reg, ref) = applied_to(later, ref) + AppliedBy(c, ref)
      /\ DOMAIN later.applied = DOMAIN reg.applied
      /\ DOMAIN later.by_id = DOMAIN reg.by_id /\ id \in DOMAIN reg.by_id
      /\ \A i \in DOMAIN reg.by_id : OnRecord(later, i) = OnRecord(reg, i)
  BY ResetKeeps
<1>2. Cancels(c, b)
  BY <1>1 DEF OpenInv
<1> HIDE DEF later, c
<1>3. ASSUME NEW ref \in DOMAIN later.applied
      PROVE  Resolves(b, ref) /\ applied_to(later, ref) <= posting(b, ref).amount
  <2>1. /\ ref \in DOMAIN reg.applied /\ Resolves(b, ref)
        /\ applied_to(reg, ref) <= posting(b, ref).amount
    BY <1>1 DEF OpenInv
  <2> DEFINE x == applied_to(later, ref)
             y == AppliedBy(c, ref)
             z == posting(b, ref).amount
  <2>3. x \in Nat /\ y \in Nat /\ x + y <= z
    BY <1>1, <2>1
  <2>4. z \in Int => x <= z
    <3> HIDE DEF x, y, z
    <3> QED BY <2>3
  <2>5. z \in Int
    <3>1. PICK i \in Indices(b) : i = b.by_id[ref.entry]
      BY <2>1 DEF Resolves, BooksInv, IdsExact
    <3>2. b.entries[i].postings \in Seq(Posting)
      BY DEF BooksInv, Sound, Indices
    <3>3. posting(b, ref) \in Posting
      BY <2>1, <3>1, <3>2 DEF Resolves, posting
    <3> QED BY <3>3 DEF Posting
  <2> QED BY <2>1, <2>4, <2>5
<1>4. \A i \in DOMAIN later.by_id : Cancels(OnRecord(later, i), b)
  BY <1>1 DEF OpenInv
<1>5. ASSUME NEW k PROVE SumOver(ClearedAt(later, b), SitesOn(b.sites, k)) = 0
  <2>1. SumOver(ClearedAt(reg, b), SitesOn(b.sites, k)) =
          SumOver(ClearedAt(later, b), SitesOn(b.sites, k))
    BY <1>1, <1>2, SumsStay
  <2> QED BY <2>1 DEF OpenInv
<1> QED BY <1>1, <1>3, <1>4, <1>5 DEF OpenInv, later

\* A batch only adds to the books.
LEMMA BatchGrows ==
    ASSUME NEW E, Sound(E), NEW b, BooksInv(b, E), NEW accs, NEW batch \in Seq(E)
    PROVE  Grew(record_batch(b, accs, batch), b)
<1> DEFINE n == Len(batch)
<1>1. n \in Nat /\ \A j \in 0..(n - 1) : batch[j + 1] \in E
  OBVIOUS
<1>2. Grew(b, b)
  BY GrewNot
<1>3. CASE record_batch(b, accs, batch) = b
  BY <1>2, <1>3
<1>4. CASE \E w : /\ IsRecording(w, b, accs, batch)
                  /\ \A j \in 0..n : BooksInv(w[j], E)
                  /\ record_batch(b, accs, batch) = w[n]
  <2>1. PICK w : /\ IsRecording(w, b, accs, batch)
                 /\ \A j \in 0..n : BooksInv(w[j], E)
                 /\ record_batch(b, accs, batch) = w[n]
    BY <1>4
  <2>2. w[0] = b /\ \A j \in 0..(n - 1) : w[j + 1] = record_validated(w[j], accs, batch[j + 1])
    BY <2>1 DEF IsRecording
  <2> HIDE DEF n
  <2> DEFINE T == {j \in Nat : Grew(w[j], b)}
  <2>3. \A j \in 0..n : j \in T
    <3>1. 0 \in T
      BY <1>2, <2>2
    <3>2. ASSUME NEW j \in 0..(n - 1), j \in T PROVE j + 1 \in T
      <4>1. j + 1 \in Nat /\ BooksInv(w[j], E) /\ batch[j + 1] \in E /\ Grew(w[j], b)
        BY <1>1, <2>1, <3>2
      <4>2. Grew(record_validated(w[j], accs, batch[j + 1]), b)
        BY <4>1, RecordKeeps
      <4> QED BY <2>2, <4>1, <4>2
    <3> HIDE DEF T
    <3> QED BY <1>1, <3>1, <3>2, Batch!BoundedInduction
  <2>4. n \in T
    <3> HIDE DEF T
    <3> QED BY <1>1, <2>3
  <2> QED BY <2>1, <2>4
<1>5. \/ record_batch(b, accs, batch) = b
      \/ \E w : /\ IsRecording(w, b, accs, batch)
                /\ \A j \in 0..n : BooksInv(w[j], E)
                /\ record_batch(b, accs, batch) = w[n]
  BY BatchIsAtomic
<1> QED BY <1>3, <1>4, <1>5

\* A reference names the same posting when the books have grown.
LEMMA PostingsStay ==
    ASSUME NEW E, NEW b, BooksInv(b, E), NEW a, BooksInv(a, E), Grew(b, a), NEW ref, Resolves(a, ref)
    PROVE  /\ Resolves(b, ref) /\ posting(b, ref) = posting(a, ref)
           /\ b.by_id[ref.entry] = a.by_id[ref.entry] /\ b.by_id[ref.entry] \in Indices(a)
<1> DEFINE i == a.by_id[ref.entry]
<1>1. i \in Indices(a) /\ a.entries[i].id = ref.entry
  <2>1. PICK n \in Indices(a) : a.entries[n].id = ref.entry
    BY DEF Resolves, BooksInv, IdsExact
  <2>2. a.by_id[a.entries[n].id] = n
    BY DEF BooksInv, IdsExact
  <2> QED BY <2>1, <2>2
<1> HIDE DEF i
<1>2. i \in Indices(b) /\ b.entries[i] = a.entries[i]
  BY <1>1, GrewEntries
<1>3. ref.entry \in DOMAIN b.by_id /\ b.by_id[ref.entry] = i
  <2>1. b.entries[i].id \in DOMAIN b.by_id /\ b.by_id[b.entries[i].id] = i
    BY <1>2 DEF BooksInv, IdsExact
  <2> QED BY <1>1, <1>2, <2>1
<1> QED BY <1>1, <1>2, <1>3 DEF Resolves, posting, i

\* The register stays right when the books grow: a new entry brings only new postings.
LEMMA GrowthOpens ==
    ASSUME NEW E, Sound(E), NEW b, BooksInv(b, E), NEW a, BooksInv(a, E), Grew(b, a),
           NEW reg, OpenInv(reg, a)
    PROVE  OpenInv(reg, b)
<1>1. \A ref \in DOMAIN reg.applied :
          Resolves(b, ref) /\ applied_to(reg, ref) <= posting(b, ref).amount
  BY PostingsStay DEF OpenInv
<1>2. ASSUME NEW c, Cancels(c, a) PROVE Cancels(c, b)
  <2> DEFINE q == c.items
             n == Len(q)
  <2>1. n \in Nat /\ DOMAIN q = 1..n
    BY <1>2 DEF Cancels, IsAssignment
  <2>2. ASSUME NEW j \in 1..n
        PROVE  /\ Resolves(a, q[j].posting) /\ key_of(posting(a, q[j].posting)) = key(c)
               /\ Resolves(b, q[j].posting) /\ posting(b, q[j].posting) = posting(a, q[j].posting)
    <3>1. Resolves(a, q[j].posting) /\ key_of(posting(a, q[j].posting)) = key(c)
      BY <1>2, <2>1 DEF Cancels
    <3> QED BY <3>1, PostingsStay
  <2>3. \A j \in 1..n : \A acc : SidesStep(b, acc, q[j]) = SidesStep(a, acc, q[j])
    BY <2>2 DEF SidesStep
  <2>4. Sides(b, c) = Sides(a, c)
    <3>1. \A x : Sides(x, c) = Sided!Fold(x, Balance_ZERO, c.items)
      BY DEF Sides, SidesStep, FoldLeft, MapThenFoldSet, Max,
             Sided!Fold, Sided!FoldLeft, Sided!MapThenFoldSet, Sided!Max
    <3> HIDE DEF q, n
    <3>2. Sided!Fold(b, Balance_ZERO, q) = Sided!Fold(a, Balance_ZERO, q)
      BY <2>1, <2>3, Sided!FoldCongruent
    <3> QED BY <3>1, <3>2 DEF q
  <2> QED BY <1>2, <2>1, <2>2, <2>4 DEF Cancels
<1>3. ASSUME NEW k PROVE SumOver(ClearedAt(reg, b), SitesOn(b.sites, k)) = 0
  <2> DEFINE p == SitesOn(a.sites, k)
             q == SitesOn(b.sites, k)
             m == Len(a.entries)
             u == ClearedAt(reg, a)
             w == ClearedAt(reg, b)
  <2>1. /\ p \in Seq(Site) /\ Elements(p) = SitesFor(a, k)
        /\ q \in Seq(Site) /\ Elements(q) = SitesFor(b, k) /\ retain(q, m) = p
    BY SitesComeOnce DEF Grew
  <2>2. \A ref : applied_to(reg, ref) \in Int
    BY DEF OpenInv
  <2>3. ASSUME NEW s \in Elements(q) PROVE w[s] \in Int /\ (s.index <= m \/ w[s] = 0)
    <3>1. s \in Site /\ s.index \in Indices(b) /\ SiteOf(b, RefAt(b, s)) = s
      BY <2>1, SitesAreNamed
    <3>2. w[s] \in Int
      BY <2>2, <3>1 DEF ClearedAt, Signed
    <3>3. CASE RefAt(b, s) \in DOMAIN reg.applied
      <4>1. Resolves(a, RefAt(b, s))
        BY <3>3 DEF OpenInv
      <4>2. b.by_id[RefAt(b, s).entry] \in Indices(a)
        BY <4>1, PostingsStay
      <4>3. s.index \in Indices(a)
        BY <3>1, <4>2 DEF SiteOf
      <4>4. s.index <= m
        BY <4>3, GrewEntries
      <4> QED BY <3>2, <4>4
    <3>4. CASE RefAt(b, s) \notin DOMAIN reg.applied
      <4>1. applied_to(reg, RefAt(b, s)) = 0
        BY <3>4 DEF applied_to
      <4>2. w[s] = 0
        BY <3>1, <4>1 DEF ClearedAt, Signed
      <4> QED BY <3>2, <4>2
    <3> QED BY <3>3, <3>4
  <2>4. ASSUME NEW s \in Elements(p) PROVE u[s] \in Int /\ w[s] = u[s]
    <3>1. s \in Site /\ s.index \in Indices(a)
      BY <2>1, SitesAreNamed
    <3>2. b.entries[s.index] = a.entries[s.index]
      BY <3>1, GrewEntries
    <3>3. resolve(b, s) = resolve(a, s) /\ RefAt(b, s) = RefAt(a, s)
      BY <3>2 DEF resolve, RefAt
    <3> QED BY <2>2, <3>1, <3>3 DEF ClearedAt, Signed
  <2> HIDE DEF p, q, m, u, w
  <2>5. SumOver(w, retain(q, m)) = SumOver(w, q)
    BY <2>1, <2>3, SumRetained
  <2>6. SumOver(w, p) = SumOver(u, p)
    BY <2>1, <2>4, SumCongruent
  <2>7. SumOver(u, p) = 0
    BY DEF OpenInv, u, p
  <2> QED BY <2>1, <2>5, <2>6, <2>7 DEF w, q
<1> QED BY <1>1, <1>2, <1>3 DEF OpenInv

-----------------------------------------------------------------------------
\* The open items of a key, and what they add up to.
OpenStep(ctx, open, site) ==
    IF open_item(ctx.reg, ctx.books, site).residual > 0
    THEN Append(open, open_item(ctx.reg, ctx.books, site)) ELSE open

Opened == INSTANCE Folding WITH Op <- OpenStep

SideStep(direction, sum, i) == IF i.direction = direction THEN sum + i.residual ELSE sum

Side == INSTANCE Folding WITH Op <- SideStep

\* What is left open on a site, signed as the site books it.
OpenAt(reg, b) ==
    [s \in Site |-> Signed(resolve(b, s).direction,
                           resolve(b, s).amount - applied_to(reg, RefAt(b, s)))]

\* open_items is the fold of OpenStep over the sites of the key.
LEMMA OpenItemsIsFold ==
    ASSUME NEW reg, NEW b, NEW k
    PROVE  open_items(reg, b, k) =
             Opened!Fold([reg |-> reg, books |-> b], <<>>, SitesOn(b.sites, k))
  BY DEF open_items, OpenStep, FoldLeft, MapThenFoldSet, Max,
         Opened!Fold, Opened!FoldLeft, Opened!MapThenFoldSet, Opened!Max

\* Outstanding adds up the residuals of one direction.
LEMMA OutstandingIsFold ==
    ASSUME NEW k, NEW direction
    PROVE  Outstanding(k, direction) = Side!Fold(direction, 0, open_items(clearings, books, k))
  BY DEF Outstanding, SideStep, FoldLeft, MapThenFoldSet, Max,
         Side!Fold, Side!FoldLeft, Side!MapThenFoldSet, Side!Max

\* The open items of a key, one site at a time.
LEMMA OutstandingNets ==
    ASSUME NEW E, Sound(E), BooksInv(books, E), OpenInv(clearings, books),
           \A i \in Indices(books) : PostsSoundly(books.entries[i]), NEW k
    PROVE  /\ Outstanding(k, "Debit") - Outstanding(k, "Credit") =
                SumOver(OpenAt(clearings, books), SitesOn(books.sites, k))
           /\ \A s \in SitesFor(books, k) : OpenAt(clearings, books)[s] \in Int
<1> DEFINE q == SitesOn(books.sites, k)
           n == Len(q)
           ctx == [reg |-> clearings, books |-> books]
           w == OpenAt(clearings, books)
<1>1. q \in Seq(Site) /\ Elements(q) = SitesFor(books, k)
  BY SitesComeOnce
<1>2. ASSUME NEW s \in SitesFor(books, k)
      PROVE  LET item == open_item(clearings, books, s) IN
             /\ item.direction \in Direction /\ item.residual \in Nat
             /\ w[s] = Signed(item.direction, item.residual) /\ w[s] \in Int
  <2> DEFINE item == open_item(clearings, books, s)
             ref == RefAt(books, s)
             x == resolve(books, s).amount
             y == applied_to(clearings, ref)
  <2>1. /\ s \in Site /\ s.index \in Indices(books)
        /\ resolve(books, s) \in Posting /\ posting(books, ref) = resolve(books, s)
    BY SitesAreNamed
  <2>2. item.direction = resolve(books, s).direction /\ item.residual = x - y
    BY <2>1 DEF open_item, residual_of, RefAt
  <2>3. x \in Int /\ x > 0
    <3>1. s.posting \in DOMAIN books.entries[s.index].postings
      BY DEF SitesFor
    <3> QED BY <2>1, <3>1 DEF PostsSoundly, resolve, Posting
  <2>4. y \in Nat /\ y <= x
    <3>1. y \in Nat
      BY DEF OpenInv
    <3>2. CASE ref \in DOMAIN clearings.applied
      BY <2>1, <3>1, <3>2 DEF OpenInv
    <3>3. CASE ref \notin DOMAIN clearings.applied
      <4>1. y = 0
        BY <3>3 DEF applied_to
      <4> HIDE DEF y, x
      <4> QED BY <2>3, <4>1
    <3> QED BY <3>1, <3>2, <3>3
  <2>5. w[s] = Signed(resolve(books, s).direction, x - y)
    BY <2>1 DEF OpenAt
  <2>6. resolve(books, s).direction \in Direction
    BY <2>1 DEF Posting
  <2> HIDE DEF item, x, y, w
  <2>7. x - y \in Nat
    BY <2>3, <2>4
  <2>8. w[s] \in Int
    BY <2>5, <2>7 DEF Signed
  <2> QED BY <2>2, <2>5, <2>6, <2>7, <2>8 DEF item
<1>3. n \in Nat /\ DOMAIN q = 1..n
  <2> HIDE DEF q
  <2> QED BY <1>1
<1> HIDE DEF q, n, ctx, w
<1>4. PICK r : Opened!IsTrace(r, ctx, <<>>, q, n) /\ Opened!Fold(ctx, <<>>, q) = r[n]
  BY <1>3, Opened!FoldTrace
<1>5. r[0] = <<>> /\ \A j \in 0..(n - 1) : r[j + 1] = OpenStep(ctx, r[j], q[j + 1])
  BY <1>4 DEF Opened!IsTrace
<1>6. PICK x : /\ x[0] = 0
               /\ \A j \in 0..(n - 1) : x[j + 1] = x[j] + w[q[j + 1]]
               /\ SumOver(w, q) = x[n]
  BY <1>1, SumTrace DEF n
<1> DEFINE I == {open_item(clearings, books, s) : s \in SitesFor(books, k)}
           D(j) == Side!Fold("Debit", 0, r[j])
           C(j) == Side!Fold("Credit", 0, r[j])
           T == {j \in Nat : /\ r[j] \in Seq(I) /\ D(j) \in Int /\ C(j) \in Int
                             /\ x[j] = D(j) - C(j)}
<1>7. \A j \in 0..n : j \in T
  <2>1. 0 \in T
    <3>1. D(0) = 0 /\ C(0) = 0
      BY <1>5, Side!FoldEmpty
    <3>2. r[0] \in Seq(I)
      BY <1>5
    <3> HIDE DEF D, C, I
    <3> QED BY <1>6, <3>1, <3>2
  <2>2. ASSUME NEW j \in 0..(n - 1), j \in T PROVE j + 1 \in T
    <3> DEFINE s == q[j + 1]
               p == r[j]
               item == open_item(clearings, books, s)
    <3>1. j + 1 \in Nat /\ s \in SitesFor(books, k)
      BY <1>1, <1>3 DEF Elements
    <3>2. p \in Seq(I) /\ D(j) \in Int /\ C(j) \in Int /\ x[j] = D(j) - C(j)
      BY <2>2
    <3>3. /\ item.direction \in Direction /\ item.residual \in Nat
          /\ w[s] = Signed(item.direction, item.residual) /\ item \in I
      BY <1>2, <3>1
    <3>4. /\ r[j + 1] = IF item.residual > 0 THEN Append(p, item) ELSE p
          /\ x[j + 1] = x[j] + w[s]
      BY <1>5, <1>6 DEF OpenStep, ctx
    <3> HIDE DEF I, s, item
    <3>5. CASE item.residual > 0
      <4>1. r[j + 1] = Append(p, item) /\ Append(p, item) \in Seq(I)
        BY <3>2, <3>3, <3>4, <3>5
      <4>2. /\ Side!Fold("Debit", 0, Append(p, item)) = SideStep("Debit", Side!Fold("Debit", 0, p), item)
            /\ Side!Fold("Credit", 0, Append(p, item)) = SideStep("Credit", Side!Fold("Credit", 0, p), item)
        BY <3>2, Side!FoldAppend
      <4>3. D(j + 1) = SideStep("Debit", D(j), item) /\ C(j + 1) = SideStep("Credit", C(j), item)
        BY <4>1, <4>2
      <4> HIDE DEF D, C
      <4>4. CASE item.direction = "Debit"
        <5>1. D(j + 1) = D(j) + item.residual /\ C(j + 1) = C(j) /\ w[s] = item.residual
          BY <3>3, <4>3, <4>4 DEF SideStep, Signed
        <5>2. D(j + 1) \in Int /\ C(j + 1) \in Int
          BY <3>2, <3>3, <5>1
        <5>3. x[j + 1] = D(j + 1) - C(j + 1)
          BY <3>2, <3>3, <3>4, <5>1
        <5> QED BY <3>1, <4>1, <5>2, <5>3
      <4>5. CASE item.direction = "Credit"
        <5>1. D(j + 1) = D(j) /\ C(j + 1) = C(j) + item.residual /\ w[s] = 0 - item.residual
          BY <3>3, <4>3, <4>5 DEF SideStep, Signed
        <5>2. D(j + 1) \in Int /\ C(j + 1) \in Int
          BY <3>2, <3>3, <5>1
        <5>3. x[j + 1] = D(j + 1) - C(j + 1)
          BY <3>2, <3>3, <3>4, <5>1
        <5> QED BY <3>1, <4>1, <5>2, <5>3
      <4> QED BY <3>3, <4>4, <4>5 DEF Direction
    <3>6. CASE ~(item.residual > 0)
      <4>1. r[j + 1] = p
        BY <3>4, <3>6
      <4>2. D(j + 1) = D(j) /\ C(j + 1) = C(j)
        BY <4>1
      <4>3. item.residual = 0
        BY <3>3, <3>6
      <4>4. w[s] = 0
        BY <3>3, <4>3 DEF Signed
      <4> HIDE DEF D, C
      <4>5. x[j + 1] = D(j + 1) - C(j + 1)
        BY <3>2, <3>4, <4>2, <4>4
      <4> QED BY <3>1, <3>2, <4>1, <4>2, <4>5
    <3> QED BY <3>5, <3>6
  <2> HIDE DEF T
  <2> QED BY <1>3, <2>1, <2>2, Opened!BoundedInduction
<1>8. x[n] = D(n) - C(n)
  <2>1. n \in T
    <3> HIDE DEF T
    <3> QED BY <1>3, <1>7
  <2> QED BY <2>1
<1>9. open_items(clearings, books, k) = r[n]
  BY <1>4, OpenItemsIsFold DEF ctx, q
<1>10. Outstanding(k, "Debit") = D(n) /\ Outstanding(k, "Credit") = C(n)
  BY <1>9, OutstandingIsFold
<1> HIDE DEF D, C
<1> QED BY <1>2, <1>6, <1>8, <1>10 DEF w, q

\* Open items tell the balance of their key, whatever has been cleared and released:
\* no clearing takes more from one side than from the other, or from a posting more
\* than it has.
THEOREM OpenItemsTell == StoreSpec => []OpenItemsTellTheBalance
<1>1. StoreSpec => [](StoreIInv /\ ClosingIInv)
  BY StoreInitIInv, StoreNextIInv, ClosingInitIInv, ClosingNextIInv, PTL DEF StoreSpec
<1>2. StoreInit => RegisterInv(clearings) /\ OpenInv(clearings, books)
  BY StoreInitIInv, NewRegister, NewRegisterIsOpen DEF StoreInit, StoreIInv
<1>3. StoreIInv /\ RegisterInv(clearings) /\ OpenInv(clearings, books) /\ [StoreNext]_storeVars =>
        (RegisterInv(clearings) /\ OpenInv(clearings, books))'
  <2> SUFFICES ASSUME StoreIInv, RegisterInv(clearings), OpenInv(clearings, books),
                      [StoreNext]_storeVars
               PROVE  RegisterInv(clearings') /\ OpenInv(clearings', books')
    OBVIOUS
  <2> DEFINE E == Bookable
  <2>0. Sound(E) /\ BooksInv(books, E)
    BY BookableIsSound DEF StoreIInv
  <2> HIDE DEF E
  <2>1. ASSUME NEW c \in Assignments, Clear(c)
        PROVE  RegisterInv(clearings') /\ OpenInv(clearings', books')
    <3>1. CanClear(clearings, books, c) /\ clearings' = clear(clearings, c) /\ books' = books
      BY <2>1 DEF Clear
    <3>2. IsAssignment(c) /\ c.id \notin DOMAIN clearings.by_id
      BY <3>1, ClearedIsAssignment DEF CanClear
    <3>3. RegisterInv(clear(clearings, c))
      BY <3>2, ClearKeeps
    <3>4. OpenInv(clear(clearings, c), books)
      BY <2>0, <3>1, ClearOpens
    <3> QED BY <3>1, <3>3, <3>4
  <2>2. ASSUME NEW c \in Assignments, NEW on \in ResetDates, ResetClearing(c.id, on)
        PROVE  RegisterInv(clearings') /\ OpenInv(clearings', books')
    <3>1. CanReset(clearings, c.id) /\ clearings' = reset(clearings, c.id, on) /\ books' = books
      BY <2>2 DEF ResetClearing
    <3>2. RegisterInv(reset(clearings, c.id, on))
      BY <3>1, ResetKeeps
    <3>3. OpenInv(reset(clearings, c.id, on), books)
      BY <2>0, <3>1, ResetOpens
    <3> QED BY <3>1, <3>2, <3>3
  <2>3. ASSUME NEW c \in Clients, Append_(c)
        PROVE  RegisterInv(clearings') /\ OpenInv(clearings', books')
    <3>1. /\ books' = record_batch(books, accounts, held[c]) /\ clearings' = clearings
          /\ held[c] \in Seq(E)
      BY <2>3 DEF Append_, StoreIInv, E
    <3>2. Grew(books', books) /\ BooksInv(books', E)
      BY <2>0, <3>1, BatchGrows, BatchKeeps
    <3>3. OpenInv(clearings, books')
      BY <2>0, <3>2, GrowthOpens
    <3> QED BY <3>1, <3>3
  <2>4. CASE clearings' = clearings /\ books' = books
    BY <2>4
  <2>5. CASE /\ ~\E c \in Assignments : Clear(c)
             /\ ~\E c \in Assignments, on \in ResetDates : ResetClearing(c.id, on)
             /\ ~\E c \in Clients : Append_(c)
    <3>1. clearings' = clearings /\ books' = books
      BY <2>5 DEF StoreNext, storeVars, Validate, PrepareClosing, StoreAccount, StorePeriod,
                  MovePeriod, StoreSeal, TransitionPeriod, SealPeriod
    <3> QED BY <2>4, <3>1
  <2> QED BY <2>1, <2>2, <2>3, <2>5
<1>4. StoreIInv /\ ClosingIInv /\ OpenInv(clearings, books) => OpenItemsTellTheBalance
  <2> SUFFICES ASSUME StoreIInv, ClosingIInv, OpenInv(clearings, books), NEW k \in DOMAIN books.balances
               PROVE  Outstanding(k, "Debit") - Outstanding(k, "Credit") = NetOn(books.balances, k)
    BY DEF OpenItemsTellTheBalance, NetOn, get_or_zero
  <2> DEFINE E == Bookable
             q == SitesOn(books.sites, k)
             u == OpenAt(clearings, books)
             v == ClearedAt(clearings, books)
             w == BookedAt(books)
  <2>0. Sound(E) /\ BooksInv(books, E)
    BY BookableIsSound DEF StoreIInv
  <2> HIDE DEF E
  <2>1. /\ Outstanding(k, "Debit") - Outstanding(k, "Credit") = SumOver(u, q)
        /\ \A s \in SitesFor(books, k) : u[s] \in Int
    BY <2>0, OutstandingNets DEF ClosingIInv
  <2>2. q \in Seq(Site) /\ Elements(q) = SitesFor(books, k)
    BY <2>0, SitesComeOnce
  <2>3. ASSUME NEW s \in Elements(q) PROVE u[s] \in Int /\ v[s] \in Int /\ w[s] = u[s] + v[s]
    <3> DEFINE x == resolve(books, s).amount
               y == applied_to(clearings, RefAt(books, s))
               direction == resolve(books, s).direction
    <3>1. s \in Site /\ x \in Int /\ y \in Int
      <4>1. s \in Site /\ resolve(books, s) \in Posting
        BY <2>0, <2>2, SitesAreNamed
      <4> QED BY <4>1 DEF Posting, OpenInv
    <3>2. u[s] = Signed(direction, x - y) /\ v[s] = Signed(direction, y) /\ w[s] = Signed(direction, x)
      BY <3>1 DEF OpenAt, ClearedAt, BookedAt
    <3> HIDE DEF u, v, w, x, y, direction
    <3>3. CASE direction = "Debit"
      BY <3>1, <3>2, <3>3 DEF Signed
    <3>4. CASE direction # "Debit"
      BY <3>1, <3>2, <3>4 DEF Signed
    <3> QED BY <3>3, <3>4
  <2>4. SumOver(w, q) = NetOn(books.balances, k)
    BY <2>0, SitesBookTheBalance
  <2>5. SumOver(v, q) = 0
    BY DEF OpenInv
  <2> HIDE DEF q, u, v, w
  <2>6. SumOver(w, q) = SumOver(u, q) + SumOver(v, q) /\ SumOver(u, q) \in Int
    BY <2>2, <2>3, SumLinear
  <2> QED BY <2>1, <2>4, <2>5, <2>6
<1> QED BY <1>1, <1>2, <1>3, <1>4, PTL DEF StoreSpec
=============================================================================
