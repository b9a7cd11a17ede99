----------------------- MODULE PostgresReadersProofs ------------------------
(***************************************************************************)
(* Any number of clerks, any clearings and entries: nothing is applied to  *)
(* a posting beyond its amount, although a clerk checks the postings of a  *)
(* clearing one after another, entries are recorded meanwhile and          *)
(* clearings are released without the lock that a clerk holds.             *)
(***************************************************************************)
EXTENDS PostgresReaders, FiniteSetTheorems, TLAPS

Ref(k) == [entry |-> k[1], index |-> k[2]]

Amount(t, k) == t.postings[k].amount_minor

-----------------------------------------------------------------------------
(***************************************************************************)
(* What is applied to a posting.                                           *)
(***************************************************************************)
\* What a stored clearing applies is a number, and nothing where no posting is.
IsStored(t, c) ==
    \A e, i : /\ AppliedBy(c, [entry |-> e, index |-> i]) \in Nat
              /\ <<e, i>> \notin DOMAIN t.postings => AppliedBy(c, [entry |-> e, index |-> i]) = 0

Standing(t) == {id \in DOMAIN t.clearings : t.clearings[id].reset_on = NoDate}

\* One clearing more in the sum.
SumStep(ctx, sum, id) == sum + AppliedBy(ctx.clearings[id].clearing, ctx.ref)

Sums == INSTANCE Folding WITH Op <- SumStep

Told(t, k) == [clearings |-> t.clearings, ref |-> Ref(k)]

\* What the query sums is the fold named here.
LEMMA AppliedIsSum ==
    ASSUME NEW t, NEW k
    PROVE  applied_minor(t, k) = Sums!SetFold(Told(t, k), 0, Standing(t))
  BY DEF applied_minor, Standing, Told, Ref, SumStep, FoldSet, MapThenFoldSet,
         Sums!SetFold, Sums!FoldSet, Sums!MapThenFoldSet

\* The clearings of a set whose amounts are numbers may be added in any order.
LEMMA SumsCommute ==
    ASSUME NEW t, NEW k, NEW S, \A id \in S : AppliedBy(t.clearings[id].clearing, Ref(k)) \in Nat
    PROVE  Sums!Commutes(Told(t, k), 0, Nat, S)
<1> DEFINE ctx == Told(t, k)
           x(id) == AppliedBy(ctx.clearings[id].clearing, ctx.ref)
<1>1. \A id \in S : x(id) \in Nat
  BY DEF Told
<1>2. \A sum, id : SumStep(ctx, sum, id) = sum + x(id)
  BY DEF SumStep
<1> HIDE DEF ctx, x
<1>3. \A a \in Nat, id \in S : SumStep(ctx, a, id) \in Nat
  BY <1>1, <1>2
<1>4. ASSUME NEW a \in Nat, NEW i \in S, NEW j \in S
      PROVE  SumStep(ctx, SumStep(ctx, a, i), j) = SumStep(ctx, SumStep(ctx, a, j), i)
  <2>1. x(i) \in Nat /\ x(j) \in Nat
    BY <1>1
  <2>2. (a + x(i)) + x(j) = (a + x(j)) + x(i)
    BY <2>1
  <2> QED BY <1>2, <2>2
<1> QED BY <1>3, <1>4 DEF Sums!Commutes, ctx

\* The sums over a set that two tables agree on are one number.
LEMMA SameSum ==
    ASSUME NEW t, NEW u, NEW k, NEW S, IsFiniteSet(S),
           \A id \in S : /\ AppliedBy(t.clearings[id].clearing, Ref(k)) \in Nat
                         /\ u.clearings[id].clearing = t.clearings[id].clearing
    PROVE  Sums!SetFold(Told(u, k), 0, S) = Sums!SetFold(Told(t, k), 0, S)
<1> DEFINE c == Told(t, k)
           d == Told(u, k)
           zero == 0
           A == Nat
<1>1. Sums!Commutes(c, zero, A, S)
  BY SumsCommute
<1>2. ASSUME NEW id \in S, NEW a PROVE SumStep(c, a, id) = SumStep(d, a, id)
  <2>1. c.clearings[id].clearing = d.clearings[id].clearing /\ c.ref = d.ref
    BY DEF Told
  <2> HIDE DEF c, d
  <2> QED BY <2>1 DEF SumStep
<1> HIDE DEF c, d, zero, A
<1>3. \A id \in S : \A a \in A : SumStep(c, a, id) = SumStep(d, a, id)
  BY <1>2
<1>4. Sums!IsFiniteSet(S)
  BY DEF IsFiniteSet, Sums!IsFiniteSet
<1>5. Sums!SetFold(c, zero, S) = Sums!SetFold(d, zero, S)
  BY <1>1, <1>3, <1>4, Sums!SetFoldCongruent
<1> QED BY <1>5 DEF c, d, zero

\* One clearing less in a sum.
LEMMA LessSum ==
    ASSUME NEW t, NEW k, NEW S, IsFiniteSet(S), NEW d \in S,
           \A id \in S : AppliedBy(t.clearings[id].clearing, Ref(k)) \in Nat
    PROVE  /\ Sums!SetFold(Told(t, k), 0, S \ {d}) \in Nat
           /\ Sums!SetFold(Told(t, k), 0, S)
                = Sums!SetFold(Told(t, k), 0, S \ {d}) + AppliedBy(t.clearings[d].clearing, Ref(k))
<1> DEFINE c == Told(t, k)
           zero == 0
           A == Nat
<1>1. Sums!Commutes(c, zero, A, S)
  BY SumsCommute
<1>2. Sums!IsFiniteSet(S)
  BY DEF IsFiniteSet, Sums!IsFiniteSet
<1> HIDE DEF c, zero, A
<1>3. /\ Sums!SetFold(c, zero, S) = SumStep(c, Sums!SetFold(c, zero, S \ {d}), d)
      /\ Sums!SetFold(c, zero, S \ {d}) \in A
  BY <1>1, <1>2, Sums!SetFoldRemove
<1>4. c.clearings[d].clearing = t.clearings[d].clearing /\ c.ref = Ref(k)
  BY DEF c, Told
<1>5. \A sum : SumStep(c, sum, d) = sum + AppliedBy(t.clearings[d].clearing, Ref(k))
  BY <1>4 DEF SumStep
<1> QED BY <1>3, <1>5 DEF c, zero, A

-----------------------------------------------------------------------------
(***************************************************************************)
(* The inductive invariant.                                                *)
(***************************************************************************)
IsShaped(t) ==
    t = [entries |-> t.entries, postings |-> t.postings,
         posting_dimensions |-> t.posting_dimensions, log_subtrees |-> t.log_subtrees,
         accounts |-> t.accounts, periods |-> t.periods, seals |-> t.seals,
         clearings |-> t.clearings, checkpoints |-> t.checkpoints]

\* Every posting belongs to an entry; every clearing applies to postings.
IsRows(t) ==
    /\ IsShaped(t)
    /\ \A k \in DOMAIN t.postings : /\ k = <<k[1], k[2]>> /\ k[1] \in DOMAIN t.entries
                                    /\ Amount(t, k) \in Nat
    /\ IsFiniteSet(DOMAIN t.clearings)
    /\ \A id \in DOMAIN t.clearings : /\ {"clearing", "reset_on"} \subseteq DOMAIN t.clearings[id]
                                      /\ IsStored(t, t.clearings[id].clearing)

\* The posting of an item exists, and no more is applied to it than is open.
Room(t, item) ==
    LET k == <<item.posting.entry, item.posting.index>> IN
    k \in DOMAIN t.postings /\ item.applied <= Amount(t, k) - applied_minor(t, k)

\* A clerk at work on a clearing of its own has found the items up to the next to
\* hold, and they still do.
IsChecking(A, t, w) ==
    /\ w = [pc |-> "facts", clearing |-> w.clearing, next |-> w.next, sides |-> w.sides]
    /\ w.clearing \in A
    /\ w.clearing.id \notin DOMAIN t.clearings
    /\ \A n \in DOMAIN w.clearing.items : w.clearing.items[n].applied > 0
    /\ w.next \in 1..(Len(w.clearing.items) + 1)
    /\ \A n \in 1..(w.next - 1) : Room(t, w.clearing.items[n])

IInv ==
    /\ setup \in DOMAIN Setups
    /\ IsRows(db)
    /\ NeverOverApplied
    /\ clerk = [c \in Clerks |-> clerk[c]]
    /\ \A c \in Clerks : clerk[c] = AtRest \/ IsChecking(Assignments, db, clerk[c])
    /\ \A c, d \in Clerks : c # d => clerk[c] = AtRest \/ clerk[d] = AtRest

-----------------------------------------------------------------------------
(***************************************************************************)
(* How a change of the tables changes what is applied.                     *)
(***************************************************************************)
\* What the clearings that stand apply to any posting.
LEMMA StandingIs ==
    ASSUME NEW t, IsRows(t), NEW k
    PROVE  /\ IsFiniteSet(Standing(t))
           /\ \A id \in DOMAIN t.clearings : AppliedBy(t.clearings[id].clearing, Ref(k)) \in Nat
<1>1. Standing(t) \in SUBSET DOMAIN t.clearings
  BY DEF Standing
<1>2. IsFiniteSet(Standing(t))
  BY <1>1, FS_Subset DEF IsRows
<1>3. \A id \in DOMAIN t.clearings : AppliedBy(t.clearings[id].clearing, Ref(k)) \in Nat
  BY DEF IsRows, IsStored, Ref
<1> QED BY <1>2, <1>3

\* What is applied is a number.
LEMMA AppliedIsNat ==
    ASSUME NEW t, IsRows(t), NEW k
    PROVE  applied_minor(t, k) \in Nat
<1> DEFINE S == Standing(t)
<1>1. applied_minor(t, k) = Sums!SetFold(Told(t, k), 0, S)
  BY AppliedIsSum
<1>2. IsFiniteSet(S) /\ \A id \in S : AppliedBy(t.clearings[id].clearing, Ref(k)) \in Nat
  BY StandingIs DEF Standing
<1> HIDE DEF S
<1>3. CASE S = {}
  BY <1>1, <1>3, Sums!SetFoldEmpty
<1>4. CASE S # {}
  <2>1. PICK d \in S : TRUE
    BY <1>4
  <2>2. Sums!SetFold(Told(t, k), 0, S) \in Nat
    <3>1. /\ Sums!SetFold(Told(t, k), 0, S \ {d}) \in Nat
          /\ Sums!SetFold(Told(t, k), 0, S)
               = Sums!SetFold(Told(t, k), 0, S \ {d}) + AppliedBy(t.clearings[d].clearing, Ref(k))
      BY <1>2, LessSum
    <3> QED BY <1>2, <3>1
  <2> QED BY <1>1, <2>2
<1> QED BY <1>3, <1>4

\* Nothing is applied where no posting is.
LEMMA NothingApplied ==
    ASSUME NEW t, IsRows(t), NEW k, k = <<k[1], k[2]>>, k \notin DOMAIN t.postings
    PROVE  applied_minor(t, k) = 0
<1> DEFINE S == Standing(t)
           T == {n \in Nat : \A R \in SUBSET S : Cardinality(R) = n => Sums!SetFold(Told(t, k), 0, R) = 0}
<1>1. applied_minor(t, k) = Sums!SetFold(Told(t, k), 0, S)
  BY AppliedIsSum
<1>2. IsFiniteSet(S) /\ \A id \in S : AppliedBy(t.clearings[id].clearing, Ref(k)) = 0
  BY StandingIs DEF Standing, IsRows, IsStored, Ref
<1> HIDE DEF S
<1>3. \A R \in SUBSET S : IsFiniteSet(R) /\ Cardinality(R) \in Nat /\ (Cardinality(R) = 0 <=> R = {})
  BY <1>2, FS_Subset, FS_CardinalityType, FS_EmptySet
<1>4. 0 \in T
  <2>1. Sums!SetFold(Told(t, k), 0, {}) = 0
    BY Sums!SetFoldEmpty
  <2> QED BY <1>3, <2>1
<1>5. ASSUME NEW n \in Nat, n \in T PROVE n + 1 \in T
  <2> SUFFICES ASSUME NEW R \in SUBSET S, Cardinality(R) = n + 1
               PROVE  Sums!SetFold(Told(t, k), 0, R) = 0
    OBVIOUS
  <2>1. PICK d \in R : TRUE
    BY <1>3
  <2>2. IsFiniteSet(R) /\ \A id \in R : AppliedBy(t.clearings[id].clearing, Ref(k)) = 0
    BY <1>2, <1>3
  <2>3. Cardinality(R \ {d}) = n
    <3>1. Cardinality(R \ {d}) = Cardinality(R) - 1
      BY <2>1, <2>2, FS_RemoveElement
    <3> QED BY <3>1
  <2>4. Sums!SetFold(Told(t, k), 0, R \ {d}) = 0
    BY <1>5, <2>3
  <2>5. \A id \in R : AppliedBy(t.clearings[id].clearing, Ref(k)) \in Nat
    BY <2>2
  <2>6. Sums!SetFold(Told(t, k), 0, R)
          = Sums!SetFold(Told(t, k), 0, R \ {d}) + AppliedBy(t.clearings[d].clearing, Ref(k))
    BY <2>1, <2>2, <2>5, LessSum
  <2> QED BY <2>1, <2>2, <2>4, <2>6
<1>6. Cardinality(S) \in T
  <2>1. \A n \in Nat : n \in T
    <3> HIDE DEF T
    <3> QED BY <1>4, <1>5, Sums!SetInduction
  <2> QED BY <1>3, <2>1
<1> QED BY <1>1, <1>6

\* The same clearings apply the same.
LEMMA AppliedStays ==
    ASSUME NEW t, NEW u, u.clearings = t.clearings, NEW k
    PROVE  applied_minor(u, k) = applied_minor(t, k)
<1>1. Standing(u) = Standing(t) /\ Told(u, k) = Told(t, k)
  BY DEF Standing, Told
<1> QED BY <1>1, AppliedIsSum

\* A clearing more applies its own part more.
LEMMA AppliedMore ==
    ASSUME NEW t, IsRows(t), NEW c, c.id \notin DOMAIN t.clearings, NEW u,
           u.clearings = Insert(t.clearings, c.id, [clearing |-> c, reset_on |-> NoDate]),
           NEW k, AppliedBy(c, Ref(k)) \in Nat
    PROVE  applied_minor(u, k) = applied_minor(t, k) + AppliedBy(c, Ref(k))
<1> DEFINE S == Standing(t)
           R == Standing(u)
           new == [clearing |-> c, reset_on |-> NoDate]
<1>1. new.clearing = c /\ new.reset_on = NoDate
  OBVIOUS
<1> HIDE DEF new
<1>2. /\ DOMAIN u.clearings = DOMAIN t.clearings \cup {c.id} /\ u.clearings[c.id] = new
      /\ \A id \in DOMAIN t.clearings : u.clearings[id] = t.clearings[id]
  BY DEF Insert, new
<1>3. R = S \cup {c.id} /\ c.id \notin S
  BY <1>1, <1>2 DEF Standing
<1>4. IsFiniteSet(S) /\ \A id \in S : AppliedBy(t.clearings[id].clearing, Ref(k)) \in Nat
  BY StandingIs DEF Standing
<1>5. \A id \in S : u.clearings[id].clearing = t.clearings[id].clearing
  BY <1>2 DEF Standing
<1>6. u.clearings[c.id].clearing = c
  BY <1>1, <1>2
<1> HIDE DEF R, S
<1>7. IsFiniteSet(R) /\ c.id \in R /\ R \ {c.id} = S
  BY <1>3, <1>4, FS_AddElement
<1>8. \A id \in R : AppliedBy(u.clearings[id].clearing, Ref(k)) \in Nat
  BY <1>3, <1>4, <1>5, <1>6
<1>9. Sums!SetFold(Told(u, k), 0, R)
        = Sums!SetFold(Told(u, k), 0, R \ {c.id}) + AppliedBy(u.clearings[c.id].clearing, Ref(k))
  BY <1>7, <1>8, LessSum
<1>10. Sums!SetFold(Told(u, k), 0, S) = Sums!SetFold(Told(t, k), 0, S)
  BY <1>4, <1>5, SameSum
<1>11. /\ applied_minor(u, k) = Sums!SetFold(Told(u, k), 0, R)
       /\ applied_minor(t, k) = Sums!SetFold(Told(t, k), 0, S)
  BY AppliedIsSum DEF R, S
<1> QED BY <1>6, <1>7, <1>9, <1>10, <1>11

\* A clearing released applies no more.
LEMMA AppliedLess ==
    ASSUME NEW t, IsRows(t), NEW id \in Standing(t), NEW u,
           DOMAIN u.clearings = DOMAIN t.clearings,
           \A d \in DOMAIN t.clearings : u.clearings[d].clearing = t.clearings[d].clearing,
           \A d \in DOMAIN t.clearings \ {id} : u.clearings[d].reset_on = t.clearings[d].reset_on,
           u.clearings[id].reset_on # NoDate,
           NEW k
    PROVE  applied_minor(u, k) \in Nat /\ applied_minor(u, k) <= applied_minor(t, k)
<1> DEFINE S == Standing(t)
           R == Standing(u)
<1>1. R = S \ {id}
  BY DEF Standing
<1>2. IsFiniteSet(S) /\ \A d \in S : AppliedBy(t.clearings[d].clearing, Ref(k)) \in Nat
  BY StandingIs DEF Standing
<1>3. \A d \in S : u.clearings[d].clearing = t.clearings[d].clearing
  BY DEF Standing
<1> HIDE DEF R, S
<1>4. IsFiniteSet(R) /\ id \in S /\ R \in SUBSET S
  BY <1>1, <1>2, FS_Subset DEF S
<1>5. /\ Sums!SetFold(Told(t, k), 0, R) \in Nat
      /\ Sums!SetFold(Told(t, k), 0, S)
           = Sums!SetFold(Told(t, k), 0, R) + AppliedBy(t.clearings[id].clearing, Ref(k))
  BY <1>1, <1>2, <1>4, LessSum
<1>6. Sums!SetFold(Told(u, k), 0, R) = Sums!SetFold(Told(t, k), 0, R)
  <2>1. \A d \in R : /\ AppliedBy(t.clearings[d].clearing, Ref(k)) \in Nat
                      /\ u.clearings[d].clearing = t.clearings[d].clearing
    BY <1>2, <1>3, <1>4
  <2> QED BY <1>4, <2>1, SameSum
<1>7. /\ applied_minor(u, k) = Sums!SetFold(Told(u, k), 0, R)
      /\ applied_minor(t, k) = Sums!SetFold(Told(t, k), 0, S)
  BY AppliedIsSum DEF R, S
<1>8. AppliedBy(t.clearings[id].clearing, Ref(k)) \in Nat
  BY <1>2, <1>4
<1> QED BY <1>5, <1>6, <1>7, <1>8

-----------------------------------------------------------------------------
(***************************************************************************)
(* The rows of an entry.                                                   *)
(***************************************************************************)
PostStep(e, t, i) == insert_posting(t, e, i)

Posted == INSTANCE Folding WITH Op <- PostStep

\* u has all postings of t unchanged, and otherwise postings of entry e.
AddsPostings(t, u, e) ==
    /\ \A k \in DOMAIN t.postings : k \in DOMAIN u.postings /\ u.postings[k] = t.postings[k]
    /\ \A k \in DOMAIN u.postings \ DOMAIN t.postings :
          k = <<k[1], k[2]>> /\ k[1] = e.id /\ Amount(u, k) \in Nat

\* A new entry adds its postings and leaves the others alone.
LEMMA AppendAddsPostings ==
    ASSUME NEW t, IsRows(t), NEW e \in Bookings, e.id \notin DOMAIN t.entries, NEW x, NEW inline
    PROVE  LET u == append_rows(t, e, x, inline) IN
           /\ IsShaped(u) /\ u.clearings = t.clearings
           /\ DOMAIN u.entries = DOMAIN t.entries \cup {e.id}
           /\ AddsPostings(t, u, e)
<1> DEFINE log == Append(t.log_subtrees, content_hash(e))
           E == Insert(t.entries, e.id,
                       entry_row(e, x, IF inline THEN next_index(t) ELSE Null,
                                 IF inline THEN log ELSE <<>>))
           rows == insert_entry(t, e, x, IF inline THEN next_index(t) ELSE Null,
                                IF inline THEN log ELSE <<>>)
           q == [i \in DOMAIN e.postings |-> i]
           n == Len(e.postings)
           posted == Posted!Fold(e, rows, q)
           Kept(u) == /\ IsShaped(u) /\ u.clearings = t.clearings /\ u.entries = E
                      /\ AddsPostings(t, u, e)
<1>1. /\ n \in Nat /\ DOMAIN q = 1..n /\ \A j \in 1..n : q[j] = j
      /\ \A j \in 1..n : e.postings[j].amount \in Nat
  <2>1. e.postings \in Seq(Posting) /\ \A j \in DOMAIN e.postings : e.postings[j].amount >= 0
    BY ArrivalsAreTyped
  <2>2. \A p \in Posting : p.amount \in Int
    BY DEF Posting
  <2>3. n \in Nat /\ DOMAIN e.postings = 1..n /\ \A j \in 1..n : e.postings[j] \in Posting
    BY <2>1
  <2> QED BY <2>1, <2>2, <2>3
<1>2. append_rows(t, e, x, inline) = IF inline THEN store_accumulator(posted, log) ELSE posted
  BY DEF append_rows, PostStep, FoldLeft, MapThenFoldSet, Max,
         Posted!Fold, Posted!FoldLeft, Posted!MapThenFoldSet, Posted!Max
<1>3. Kept(rows)
  <2>1. rows = [t EXCEPT !.entries = E]
    BY DEF insert_entry
  <2> HIDE DEF rows, E
  <2>2. IsShaped(t)
    BY DEF IsRows
  <2>3. IsShaped(rows) /\ rows.clearings = t.clearings /\ rows.entries = E
        /\ rows.postings = t.postings
    BY <2>1, <2>2 DEF IsShaped
  <2> QED BY <2>3 DEF AddsPostings
<1>4. DOMAIN E = DOMAIN t.entries \cup {e.id}
  BY DEF Insert
<1> HIDE DEF rows, E, q, n, log
<1>5. PICK u : Posted!IsTrace(u, e, rows, q, n) /\ posted = u[n]
  BY <1>1, Posted!FoldTrace
<1>6. u[0] = rows /\ \A j \in 0..(n - 1) : u[j + 1] = PostStep(e, u[j], q[j + 1])
  BY <1>5 DEF Posted!IsTrace
<1> DEFINE T == {j \in Nat : Kept(u[j])}
<1>7. 0 \in T
  BY <1>3, <1>6
<1>8. ASSUME NEW j \in 0..(n - 1), j \in T PROVE j + 1 \in T
  <2> DEFINE a == u[j]
             b == u[j + 1]
             i == q[j + 1]
             P == Insert(a.postings, <<e.id, i>>, posting_row(e.postings[i]))
             G == a.posting_dimensions \cup {[entry_id |-> e.id, posting_index |-> i, axis |-> d] :
                                                d \in e.postings[i].dimensions}
  <2>1. i \in 1..n /\ j + 1 \in Nat
    BY <1>1
  <2>2. b = [a EXCEPT !.postings = P, !.posting_dimensions = G]
    BY <1>6 DEF PostStep, insert_posting
  <2>3. Kept(a)
    BY <1>8
  <2>4. posting_row(e.postings[i]).amount_minor \in Nat
    BY <1>1, <2>1 DEF posting_row
  <2>5. /\ DOMAIN P = DOMAIN a.postings \cup {<<e.id, i>>}
        /\ P[<<e.id, i>>].amount_minor \in Nat
        /\ \A k \in DOMAIN a.postings \ {<<e.id, i>>} : P[k] = a.postings[k]
    BY <2>4 DEF Insert
  <2>6. <<e.id, i>> \notin DOMAIN t.postings
    <3>1. <<e.id, i>>[1] = e.id
      OBVIOUS
    <3> QED BY <3>1 DEF IsRows
  <2> HIDE DEF a, b, P, G, i
  <2>7. IsShaped(b) /\ b.clearings = t.clearings /\ b.entries = E /\ b.postings = P
    BY <2>2, <2>3 DEF IsShaped
  <2>8. \A k \in DOMAIN t.postings : k \in DOMAIN P /\ P[k] = t.postings[k]
    BY <2>3, <2>5, <2>6 DEF AddsPostings
  <2>9. ASSUME NEW k \in DOMAIN P \ DOMAIN t.postings
        PROVE  k = <<k[1], k[2]>> /\ k[1] = e.id /\ P[k].amount_minor \in Nat
    <3>1. CASE k = <<e.id, i>>
      BY <2>5, <3>1
    <3>2. CASE k # <<e.id, i>>
      BY <2>3, <2>5, <3>2 DEF AddsPostings, Amount
    <3> QED BY <3>1, <3>2
  <2>10. Kept(b)
    BY <2>7, <2>8, <2>9 DEF AddsPostings, Amount
  <2> HIDE DEF Kept
  <2> QED BY <2>1, <2>10 DEF b
<1> HIDE DEF T
<1>9. n \in T
  <2>1. n \in Nat
    BY <1>1
  <2> QED BY <1>7, <1>8, <2>1, Posted!BoundedInduction
<1>10. Kept(posted)
  BY <1>5, <1>9 DEF T
<1> HIDE DEF posted
<1>11. CASE inline
  <2> DEFINE b == append_rows(t, e, x, inline)
  <2>1. b = [posted EXCEPT !.log_subtrees = log]
    BY <1>2, <1>11 DEF store_accumulator
  <2> HIDE DEF b
  <2>2. /\ IsShaped(b) /\ b.clearings = t.clearings /\ b.entries = E
        /\ b.postings = posted.postings
    BY <1>10, <2>1 DEF IsShaped
  <2>3. AddsPostings(t, b, e)
    BY <1>10, <2>2 DEF AddsPostings, Amount
  <2> QED BY <1>4, <2>2, <2>3 DEF b
<1>12. CASE ~inline
  <2>1. append_rows(t, e, x, inline) = posted
    BY <1>2, <1>12
  <2> QED BY <1>4, <1>10, <2>1
<1> QED BY <1>11, <1>12

-----------------------------------------------------------------------------
(***************************************************************************)
(* Steps that record no clearing.                                          *)
(***************************************************************************)
\* What a clerk found to hold still does where less is applied.
LEMMA RoomStays ==
    ASSUME NEW t, IsRows(t), NEW u, IsRows(u), NEW item, item.applied \in Int, Room(t, item),
           \A k \in DOMAIN t.postings : k \in DOMAIN u.postings /\ u.postings[k] = t.postings[k],
           \A k : applied_minor(u, k) <= applied_minor(t, k)
    PROVE  Room(u, item)
<1> DEFINE k == <<item.posting.entry, item.posting.index>>
<1>1. k \in DOMAIN t.postings /\ item.applied <= Amount(t, k) - applied_minor(t, k)
  BY DEF Room
<1>2. applied_minor(t, k) \in Nat /\ applied_minor(u, k) \in Nat
  BY AppliedIsNat
<1>3. applied_minor(u, k) <= applied_minor(t, k)
  OBVIOUS
<1>4. k \in DOMAIN u.postings /\ Amount(u, k) = Amount(t, k) /\ Amount(t, k) \in Nat
  BY <1>1 DEF Amount, IsRows
<1>5. Room(u, item) <=> k \in DOMAIN u.postings /\ item.applied <= Amount(u, k) - applied_minor(u, k)
  BY DEF Room
<1> HIDE DEF k
<1>6. item.applied <= Amount(u, k) - applied_minor(u, k)
  BY <1>1, <1>2, <1>3, <1>4
<1> QED BY <1>4, <1>5, <1>6

\* The items of a clearing that a client submits.
LEMMA ItemsAre ==
    ASSUME setup \in DOMAIN Setups, NEW c \in Assignments
    PROVE  /\ Len(c.items) \in Nat /\ DOMAIN c.items = 1..Len(c.items)
           /\ \A n \in DOMAIN c.items :
                 /\ c.items[n].applied \in Int
                 /\ c.items[n].posting = [entry |-> c.items[n].posting.entry,
                                          index |-> c.items[n].posting.index]
<1>1. /\ c.items \in Seq({c.items[n] : n \in DOMAIN c.items})
      /\ \A n \in DOMAIN c.items :
            /\ c.items[n].applied \in Int
            /\ c.items[n].posting = [entry |-> c.items[n].posting.entry,
                                     index |-> c.items[n].posting.index]
  BY ArrivalsAreTyped DEF Assignments
<1> DEFINE S == {c.items[n] : n \in DOMAIN c.items}
           q == c.items
<1>2. q \in Seq(S)
  BY <1>1
<1> HIDE DEF S, q
<1>3. Len(q) \in Nat /\ DOMAIN q = 1..Len(q)
  BY <1>2
<1> QED BY <1>1, <1>3 DEF q

\* Where the clearings on record are the same, none applies more, and postings
\* only join, everything the clerks have found still holds.
LEMMA Easing ==
    ASSUME IInv, setup' = setup, clerk' = clerk, IsRows(db'),
           DOMAIN db'.clearings = DOMAIN db.clearings,
           \A k \in DOMAIN db.postings : k \in DOMAIN db'.postings /\ db'.postings[k] = db.postings[k],
           \A k : applied_minor(db', k) <= applied_minor(db, k),
           \A k \in DOMAIN db'.postings \ DOMAIN db.postings : applied_minor(db', k) <= Amount(db', k)
    PROVE  IInv'
<1>1. IsRows(db) /\ setup \in DOMAIN Setups /\ Clerks' = Clerks /\ Assignments' = Assignments
  BY DEF IInv, Clerks, Assignments
<1>2. NeverOverApplied'
  <2> SUFFICES ASSUME NEW k \in DOMAIN db'.postings
               PROVE  applied_minor(db', k) <= Amount(db', k)
    BY DEF NeverOverApplied, Amount
  <2>1. CASE k \in DOMAIN db.postings
    <3>1. applied_minor(db, k) <= Amount(db, k) /\ Amount(db', k) = Amount(db, k)
      BY <2>1 DEF IInv, NeverOverApplied, Amount
    <3>2. applied_minor(db, k) \in Nat /\ applied_minor(db', k) \in Nat /\ Amount(db, k) \in Nat
      BY <1>1, <2>1, AppliedIsNat DEF IsRows
    <3>3. applied_minor(db', k) <= applied_minor(db, k)
      OBVIOUS
    <3> QED BY <3>1, <3>2, <3>3
  <2>2. CASE k \notin DOMAIN db.postings
    BY <2>2
  <2> QED BY <2>1, <2>2
<1>3. ASSUME NEW w, IsChecking(Assignments, db, w) PROVE IsChecking(Assignments, db', w)
  <2>1. w.clearing \in Assignments
    BY <1>3 DEF IsChecking
  <2>2. ASSUME NEW n \in 1..(w.next - 1) PROVE Room(db', w.clearing.items[n])
    <3>1. /\ Len(w.clearing.items) \in Nat /\ DOMAIN w.clearing.items = 1..Len(w.clearing.items)
          /\ \A m \in DOMAIN w.clearing.items : w.clearing.items[m].applied \in Int
      BY <1>1, <2>1, ItemsAre
    <3>2. w.next \in 1..(Len(w.clearing.items) + 1) /\ Room(db, w.clearing.items[n])
      BY <1>3 DEF IsChecking
    <3>3. n \in DOMAIN w.clearing.items
      BY <3>1, <3>2
    <3>4. w.clearing.items[n].applied \in Int
      BY <3>1, <3>3
    <3> DEFINE item == w.clearing.items[n]
    <3> HIDE DEF item
    <3> QED BY <1>1, <3>2, <3>4, RoomStays DEF item
  <2> QED BY <1>3, <2>2 DEF IsChecking
<1>4. \A c \in Clerks : clerk[c] = AtRest \/ IsChecking(Assignments, db', clerk[c])
  BY <1>3 DEF IInv
<1> QED BY <1>1, <1>2, <1>4 DEF IInv

\* An entry is recorded: nothing is applied to its postings yet.
LEMMA BookIInv ==
    ASSUME IInv, NEW e \in Bookings, Book(e), setup' = setup, clerk' = clerk
    PROVE  IInv'
<1>1. IsRows(db) /\ e.id \notin DOMAIN db.entries /\ db' = append_rows(db, e, 0, Inline)
  BY DEF IInv, Book
<1>2. /\ IsShaped(db') /\ db'.clearings = db.clearings
      /\ DOMAIN db'.entries = DOMAIN db.entries \cup {e.id}
      /\ AddsPostings(db, db', e)
  BY <1>1, AppendAddsPostings
<1>3. ASSUME NEW k \in DOMAIN db'.postings
      PROVE  k = <<k[1], k[2]>> /\ k[1] \in DOMAIN db'.entries /\ Amount(db', k) \in Nat
  BY <1>1, <1>2 DEF AddsPostings, IsRows, Amount
<1>4. ASSUME NEW id \in DOMAIN db'.clearings PROVE IsStored(db', db'.clearings[id].clearing)
  <2>1. DOMAIN db.postings \subseteq DOMAIN db'.postings
    BY <1>2 DEF AddsPostings
  <2>2. IsStored(db, db'.clearings[id].clearing)
    BY <1>1, <1>2 DEF IsRows
  <2> QED BY <2>1, <2>2 DEF IsStored
<1>5. IsRows(db')
  BY <1>1, <1>2, <1>3, <1>4 DEF IsRows
<1>6. \A k : applied_minor(db', k) = applied_minor(db, k) /\ applied_minor(db, k) \in Nat
  BY <1>1, <1>2, AppliedStays, AppliedIsNat
<1>7. ASSUME NEW k \in DOMAIN db'.postings \ DOMAIN db.postings
      PROVE  applied_minor(db', k) <= Amount(db', k)
  <2>1. applied_minor(db, k) = 0
    BY <1>1, <1>3, <1>7, NothingApplied
  <2> QED BY <1>3, <1>6, <2>1
<1>8. \A k : applied_minor(db', k) <= applied_minor(db, k)
  BY <1>6
<1> QED BY <1>2, <1>5, <1>7, <1>8, Easing DEF AddsPostings

\* The sequencer places a row.
LEMMA PlaceIInv ==
    ASSUME IInv, NEW id, Place(id), setup' = setup, clerk' = clerk
    PROVE  IInv'
<1>1. IsRows(db) /\ db' = place_row(db, id)
  BY DEF IInv, Place
<1>2. /\ IsShaped(db') /\ db'.clearings = db.clearings /\ db'.postings = db.postings
      /\ DOMAIN db'.entries = DOMAIN db.entries
  BY <1>1 DEF place_row, IsRows, IsShaped
<1>3. IsRows(db')
  BY <1>1, <1>2 DEF IsRows, IsStored, Amount
<1>4. \A k : applied_minor(db', k) = applied_minor(db, k) /\ applied_minor(db, k) \in Nat
  BY <1>1, <1>2, AppliedStays, AppliedIsNat
<1>5. \A k : applied_minor(db', k) <= applied_minor(db, k)
  BY <1>4
<1> QED BY <1>2, <1>3, <1>5, Easing

\* A clearing is released, whatever the clerks are at.
LEMMA ResetIInv ==
    ASSUME IInv, NEW id, ResetClearing(id), setup' = setup, clerk' = clerk
    PROVE  IInv'
<1> DEFINE row == [db.clearings[id] EXCEPT !.reset_on = 1]
           C == [db.clearings EXCEPT ![id] = row]
<1>1. /\ IsRows(db) /\ IsShaped(db) /\ id \in DOMAIN db.clearings
      /\ db.clearings[id].reset_on = NoDate
  BY DEF IInv, IsRows, ResetClearing, sql_CanReset
<1>2. db' = [db EXCEPT !.clearings = C]
  BY DEF ResetClearing, sql_reset_clearing
<1>3. row.clearing = db.clearings[id].clearing
  OBVIOUS
<1>4. "reset_on" \in DOMAIN db.clearings[id] => row.reset_on = 1
  OBVIOUS
<1> HIDE DEF row
<1>5. /\ DOMAIN C = DOMAIN db.clearings /\ C[id] = row
      /\ \A d \in DOMAIN db.clearings \ {id} : C[d] = db.clearings[d]
  BY <1>1
<1> HIDE DEF C
<1>6. /\ IsShaped(db') /\ db'.clearings = C /\ db'.postings = db.postings
      /\ db'.entries = db.entries
  BY <1>1, <1>2 DEF IsShaped
<1>7. \A d \in DOMAIN db.clearings : /\ C[d].clearing = db.clearings[d].clearing
                                      /\ {"clearing", "reset_on"} \subseteq DOMAIN C[d]
  <2>1. DOMAIN row = DOMAIN db.clearings[id]
    BY DEF row
  <2> QED BY <1>1, <1>3, <1>5, <2>1 DEF IsRows
<1>8. IsRows(db')
  BY <1>1, <1>5, <1>6, <1>7 DEF IsRows, IsStored, Amount
<1>9. \A k : applied_minor(db', k) <= applied_minor(db, k)
  <2>1. id \in Standing(db)
    BY <1>1 DEF Standing
  <2>2. C[id].reset_on # NoDate
    BY <1>1, <1>4, <1>5 DEF NoDate, IsRows
  <2> QED BY <1>1, <1>5, <1>6, <1>7, <2>1, <2>2, AppliedLess
<1> QED BY <1>5, <1>6, <1>8, <1>9, Easing

\* A checkpoint is saved.
LEMMA SaveIInv ==
    ASSUME IInv, NEW s, CheckpointSave(s), setup' = setup, clerk' = clerk
    PROVE  IInv'
<1>1. IsRows(db) /\ IsShaped(db)
  BY DEF IInv, IsRows
<1>2. PICK C : db' = [db EXCEPT !.checkpoints = C]
  BY DEF CheckpointSave, save_checkpoint
<1>3. /\ IsShaped(db') /\ db'.clearings = db.clearings /\ db'.postings = db.postings
      /\ db'.entries = db.entries
  BY <1>1, <1>2 DEF IsShaped
<1>4. IsRows(db')
  BY <1>1, <1>3 DEF IsRows, IsStored, Amount
<1>5. \A k : applied_minor(db', k) = applied_minor(db, k) /\ applied_minor(db, k) \in Nat
  BY <1>1, <1>3, AppliedStays, AppliedIsNat
<1>6. \A k : applied_minor(db', k) <= applied_minor(db, k)
  BY <1>5
<1> QED BY <1>3, <1>4, <1>6, Easing

-----------------------------------------------------------------------------
(***************************************************************************)
(* Steps of the clerks.                                                    *)
(***************************************************************************)
\* One clerk goes on, and the others stay where they are.
OneGoesOn(c) ==
    /\ clerk' = [d \in Clerks |-> clerk'[d]]
    /\ \A d \in Clerks \ {c} : clerk'[d] = clerk[d]

\* A clerk at rest, or the only one at work.
Alone(c) == \A d \in Clerks \ {c} : clerk[d] = AtRest

\* A clerk that is not at rest is at work on a clearing.
LEMMA AtWork ==
    ASSUME IInv, NEW c \in Clerks
    PROVE  /\ clerk[c].pc = "idle" => clerk[c] = AtRest
           /\ clerk[c].pc = "facts" => IsChecking(Assignments, db, clerk[c]) /\ Alone(c)
<1>1. AtRest.pc = "idle"
  BY DEF AtRest
<1>2. IsChecking(Assignments, db, clerk[c]) => clerk[c].pc = "facts"
  BY DEF IsChecking
<1>3. clerk[c] = AtRest \/ IsChecking(Assignments, db, clerk[c])
  BY DEF IInv
<1>4. ASSUME clerk[c].pc = "facts" PROVE Alone(c)
  <2>1. clerk[c] # AtRest
    BY <1>1, <1>4
  <2> QED BY <2>1 DEF IInv, Alone
<1> QED BY <1>1, <1>2, <1>3, <1>4

\* A step of one clerk that leaves the tables alone.
LEMMA ClerkIInv ==
    ASSUME IInv, setup' = setup, db' = db, NEW c \in Clerks, OneGoesOn(c),
           \/ clerk'[c] = AtRest
           \/ IsChecking(Assignments, db, clerk'[c]) /\ Alone(c)
    PROVE  IInv'
<1>1. Clerks' = Clerks /\ Assignments' = Assignments
  BY DEF Clerks, Assignments
<1>2. \A d \in Clerks : clerk'[d] = AtRest \/ IsChecking(Assignments, db, clerk'[d])
  BY DEF IInv, OneGoesOn
<1>3. ASSUME NEW d \in Clerks, NEW e \in Clerks, d # e
      PROVE  clerk'[d] = AtRest \/ clerk'[e] = AtRest
  BY <1>3 DEF IInv, OneGoesOn, Alone
<1>4. NeverOverApplied'
  BY DEF IInv, NeverOverApplied
<1>5. clerk' = [d \in Clerks |-> clerk'[d]]
  BY DEF OneGoesOn
<1> QED BY <1>1, <1>2, <1>3, <1>4, <1>5 DEF IInv

\* A clerk takes the lock and a clearing.
LEMMA BeginIInv ==
    ASSUME IInv, NEW c \in Clerks, NEW a \in Assignments, BeginClear(c, a),
           setup' = setup, db' = db
    PROVE  IInv'
<1> DEFINE w == [pc |-> "facts", clearing |-> a, next |-> 1, sides |-> Balance_ZERO]
<1>1. /\ clerk' = [clerk EXCEPT ![c] = w] /\ LockIsFree(Clerks \ {c})
      /\ clearing_is_well_formed(db, a)
  BY DEF BeginClear
<1>2. OneGoesOn(c) /\ clerk'[c] = w
  <2>1. clerk = [d \in Clerks |-> clerk[d]]
    BY DEF IInv
  <2>2. DOMAIN clerk = Clerks
    BY <2>1
  <2> HIDE DEF w
  <2> QED BY <1>1, <2>2 DEF OneGoesOn
<1>3. Alone(c)
  BY <1>1, AtWork DEF LockIsFree, Alone
<1>4. Len(a.items) \in Nat
  BY ItemsAre DEF IInv
<1>5. /\ w = [pc |-> "facts", clearing |-> w.clearing, next |-> w.next, sides |-> w.sides]
      /\ w.clearing = a /\ w.next = 1
  OBVIOUS
<1> HIDE DEF w
<1>6. /\ w.clearing.id \notin DOMAIN db.clearings
      /\ \A n \in DOMAIN w.clearing.items : w.clearing.items[n].applied > 0
  BY <1>1, <1>5 DEF clearing_is_well_formed
<1>7. w.next \in 1..(Len(w.clearing.items) + 1) /\ 1..(w.next - 1) = {}
  BY <1>4, <1>5
<1>8. IsChecking(Assignments, db, w)
  BY <1>5, <1>6, <1>7 DEF IsChecking
<1> QED BY <1>2, <1>3, <1>8, ClerkIInv

\* One item more is found to hold, or the clearing is given up.
LEMMA CheckIInv ==
    ASSUME IInv, NEW c \in Clerks, CheckItem(c), setup' = setup, db' = db
    PROVE  IInv'
<1> DEFINE t == clerk[c]
           item == t.clearing.items[t.next]
           w == IF item_holds(db, t.clearing, item)
                THEN [t EXCEPT !.next = t.next + 1, !.sides = add_side(db, t.sides, item)]
                ELSE AtRest
<1>1. IsChecking(Assignments, db, t) /\ Alone(c) /\ t.next <= Len(t.clearing.items)
  BY AtWork DEF CheckItem
<1>2. clerk = [d \in Clerks |-> clerk[d]]
  BY DEF IInv
<1>3. DOMAIN clerk = Clerks
  BY <1>2
<1>4. OneGoesOn(c)
  <2>1. PICK v : clerk' = [clerk EXCEPT ![c] = v]
    BY DEF CheckItem
  <2> QED BY <1>3, <2>1 DEF OneGoesOn
<1>5. clerk'[c] = w
  <2> DEFINE v == IF item_holds(db, t.clearing, item) THEN WithSide(t, item) ELSE AtRest
  <2>1. clerk' = [clerk EXCEPT ![c] = v]
    BY DEF CheckItem
  <2>2. w = v
    BY DEF WithSide
  <2> HIDE DEF w, v
  <2> QED BY <1>3, <2>1, <2>2
<1>6. CASE ~item_holds(db, t.clearing, item)
  BY <1>4, <1>5, <1>6, ClerkIInv
<1>7. CASE item_holds(db, t.clearing, item)
  <2>1. t = [pc |-> "facts", clearing |-> t.clearing, next |-> t.next, sides |-> t.sides]
    BY <1>1 DEF IsChecking
  <2> DEFINE sides == add_side(db, t.sides, item)
  <2>2. w = [t EXCEPT !.next = t.next + 1, !.sides = sides]
    BY <1>7
  <2>3. /\ w = [pc |-> "facts", clearing |-> w.clearing, next |-> w.next, sides |-> w.sides]
        /\ w.clearing = t.clearing /\ w.next = t.next + 1
    <3> DEFINE more == t.next + 1
               z == [pc |-> "facts", clearing |-> t.clearing, next |-> more, sides |-> sides]
    <3>1. w = [t EXCEPT !.next = more, !.sides = sides]
      BY <2>2
    <3>2. DOMAIN t = {"pc", "clearing", "next", "sides"} /\ t.pc = "facts"
      BY <2>1
    <3> HIDE DEF w, sides, t, more
    <3>3. w = z
      BY <3>1, <3>2
    <3> QED BY <3>3 DEF more
  <2> HIDE DEF w, sides
  <2>4. Room(db, item)
    BY <1>7 DEF item_holds, posting_facts, Room, Amount
  <2>5. Len(t.clearing.items) \in Nat /\ t.next \in 1..(Len(t.clearing.items) + 1)
    BY <1>1, ItemsAre DEF IInv, IsChecking
  <2>6. ASSUME NEW n \in 1..(w.next - 1) PROVE Room(db, w.clearing.items[n])
    <3>1. CASE n = t.next
      BY <2>3, <2>4, <3>1
    <3>2. CASE n # t.next
      <4>1. n \in 1..(t.next - 1)
        BY <2>3, <2>5, <3>2
      <4> QED BY <1>1, <2>3, <4>1 DEF IsChecking
    <3> QED BY <3>1, <3>2
  <2>7. w.next \in 1..(Len(w.clearing.items) + 1)
    BY <1>1, <2>3, <2>5
  <2>8. IsChecking(Assignments, db, w)
    BY <1>1, <2>3, <2>6, <2>7 DEF IsChecking
  <2> QED BY <1>1, <1>4, <1>5, <2>8, ClerkIInv
<1> QED BY <1>6, <1>7

\* What a clearing whose items all hold applies, and that it fits.
LEMMA PartsFit ==
    ASSUME IInv, NEW a \in Assignments,
           \A n \in DOMAIN a.items : a.items[n].applied > 0 /\ Room(db, a.items[n])
    PROVE  /\ IsStored(db, a)
           /\ \A k \in DOMAIN db.postings :
                 /\ AppliedBy(a, Ref(k)) \in Nat
                 /\ applied_minor(db, k) + AppliedBy(a, Ref(k)) <= Amount(db, k)
<1>1. IsRows(db) /\ NeverOverApplied
  BY DEF IInv
<1>2. \A n \in DOMAIN a.items :
         /\ a.items[n].applied \in Nat
         /\ a.items[n].posting = [entry |-> a.items[n].posting.entry,
                                  index |-> a.items[n].posting.index]
  BY ItemsAre DEF IInv
<1>3. ASSUME NEW e, NEW i
      PROVE  LET r == [entry |-> e, index |-> i] IN
             \/ AppliedBy(a, r) = 0
             \/ \E n \in DOMAIN a.items : a.items[n].posting = r /\ AppliedBy(a, r) = a.items[n].applied
  <2> DEFINE r == [entry |-> e, index |-> i]
             m == CHOOSE n \in DOMAIN a.items : a.items[n].posting = r
  <2> HIDE DEF r
  <2>1. CASE r \notin Refs(a)
    BY <2>1 DEF AppliedBy, r
  <2>2. CASE r \in Refs(a)
    <3>1. m \in DOMAIN a.items /\ a.items[m].posting = r
      BY <2>2 DEF Refs
    <3>2. AppliedBy(a, r) = a.items[m].applied
      BY <2>2 DEF AppliedBy
    <3> HIDE DEF m
    <3> QED BY <3>1, <3>2 DEF r
  <2> QED BY <2>1, <2>2
<1>4. ASSUME NEW e, NEW i
      PROVE  LET x == AppliedBy(a, [entry |-> e, index |-> i]) IN
             x = 0 \/ (x \in Nat /\ <<e, i>> \in DOMAIN db.postings
                       /\ x <= Amount(db, <<e, i>>) - applied_minor(db, <<e, i>>))
  <2> DEFINE r == [entry |-> e, index |-> i]
  <2>1. r.entry = e /\ r.index = i
    OBVIOUS
  <2>2. AppliedBy(a, r) = 0
        \/ \E n \in DOMAIN a.items : a.items[n].posting = r /\ AppliedBy(a, r) = a.items[n].applied
    BY <1>3
  <2> HIDE DEF r
  <2>3. ASSUME NEW n \in DOMAIN a.items, a.items[n].posting = r, AppliedBy(a, r) = a.items[n].applied
        PROVE  /\ AppliedBy(a, r) \in Nat /\ <<e, i>> \in DOMAIN db.postings
               /\ AppliedBy(a, r) <= Amount(db, <<e, i>>) - applied_minor(db, <<e, i>>)
    <3>1. Room(db, a.items[n])
      OBVIOUS
    <3> QED BY <1>2, <2>1, <2>3, <3>1 DEF Room
  <2>4. AppliedBy(a, r) = 0 \/ (AppliedBy(a, r) \in Nat /\ <<e, i>> \in DOMAIN db.postings
                       /\ AppliedBy(a, r) <= Amount(db, <<e, i>>) - applied_minor(db, <<e, i>>))
    BY <2>2, <2>3
  <2> QED BY <2>4 DEF r
<1>5. IsStored(db, a)
  <2>1. \A e, i : AppliedBy(a, [entry |-> e, index |-> i]) = 0
                  \/ (AppliedBy(a, [entry |-> e, index |-> i]) \in Nat /\ <<e, i>> \in DOMAIN db.postings)
    BY <1>4
  <2>2. ASSUME NEW e, NEW i
        PROVE  /\ AppliedBy(a, [entry |-> e, index |-> i]) \in Nat
               /\ <<e, i>> \notin DOMAIN db.postings => AppliedBy(a, [entry |-> e, index |-> i]) = 0
    <3> DEFINE x == AppliedBy(a, [entry |-> e, index |-> i])
    <3>1. x = 0 \/ (x \in Nat /\ <<e, i>> \in DOMAIN db.postings)
      BY <2>1
    <3> HIDE DEF x
    <3>2. x \in Nat /\ (<<e, i>> \notin DOMAIN db.postings => x = 0)
      BY <3>1
    <3> QED BY <3>2 DEF x
  <2> QED BY <2>2 DEF IsStored
<1>6. ASSUME NEW k \in DOMAIN db.postings
      PROVE  /\ AppliedBy(a, Ref(k)) \in Nat
             /\ applied_minor(db, k) + AppliedBy(a, Ref(k)) <= Amount(db, k)
  <2> DEFINE x == AppliedBy(a, Ref(k))
  <2>1. k = <<k[1], k[2]>> /\ Amount(db, k) \in Nat
    BY <1>1 DEF IsRows
  <2>2. applied_minor(db, k) \in Nat /\ applied_minor(db, k) <= Amount(db, k)
    BY <1>1, AppliedIsNat DEF NeverOverApplied, Amount
  <2>3. x = 0 \/ (x \in Nat /\ x <= Amount(db, <<k[1], k[2]>>) - applied_minor(db, <<k[1], k[2]>>))
    BY <1>4 DEF Ref
  <2>4. x = 0 \/ (x \in Nat /\ x <= Amount(db, k) - applied_minor(db, k))
    BY <2>1, <2>3
  <2> HIDE DEF x
  <2>5. x \in Nat /\ applied_minor(db, k) + x <= Amount(db, k)
    BY <2>1, <2>2, <2>4
  <2> QED BY <2>5 DEF x
<1> QED BY <1>5, <1>6

\* Balanced sides are written: what the items found open is applied.
LEMMA CommitIInv ==
    ASSUME IInv, NEW c \in Clerks, CommitClear(c), setup' = setup
    PROVE  IInv'
<1> DEFINE w == clerk[c]
           a == w.clearing
           new == [clearing |-> a, reset_on |-> NoDate]
           C == Insert(db.clearings, a.id, new)
<1>1. IsChecking(Assignments, db, w) /\ Alone(c) /\ w.next > Len(a.items)
  BY AtWork DEF CommitClear
<1>2. OneGoesOn(c) /\ clerk'[c] = AtRest
  <2>1. clerk = [d \in Clerks |-> clerk[d]]
    BY DEF IInv
  <2>2. DOMAIN clerk = Clerks
    BY <2>1
  <2>3. clerk' = [clerk EXCEPT ![c] = AtRest]
    BY DEF CommitClear
  <2> QED BY <2>2, <2>3 DEF OneGoesOn
<1>3. CASE ~is_balanced(w.sides)
  <2>1. db' = db
    BY <1>3 DEF CommitClear
  <2> QED BY <1>2, <2>1, ClerkIInv
<1>4. CASE is_balanced(w.sides)
  <2>1. a \in Assignments /\ a.id \notin DOMAIN db.clearings
    BY <1>1 DEF IsChecking
  <2>2. \A n \in DOMAIN a.items : a.items[n].applied > 0 /\ Room(db, a.items[n])
    <3>1. Len(a.items) \in Nat /\ DOMAIN a.items = 1..Len(a.items)
      BY <2>1, ItemsAre DEF IInv
    <3>2. w.next \in 1..(Len(a.items) + 1)
      BY <1>1 DEF IsChecking
    <3>3. DOMAIN a.items = 1..(w.next - 1)
      BY <1>1, <3>1, <3>2
    <3> QED BY <1>1, <3>3 DEF IsChecking
  <2>3. /\ IsStored(db, a)
        /\ \A k \in DOMAIN db.postings :
              /\ AppliedBy(a, Ref(k)) \in Nat
              /\ applied_minor(db, k) + AppliedBy(a, Ref(k)) <= Amount(db, k)
    BY <2>1, <2>2, PartsFit
  <2>4. db' = [db EXCEPT !.clearings = C]
    BY <1>4 DEF CommitClear, sql_clear
  <2>5. IsRows(db) /\ IsShaped(db)
    BY DEF IInv, IsRows
  <2>6. /\ DOMAIN C = DOMAIN db.clearings \cup {a.id} /\ C[a.id] = new
        /\ \A id \in DOMAIN db.clearings : C[id] = db.clearings[id]
    BY <2>1 DEF Insert
  <2>7. new.clearing = a /\ DOMAIN new = {"clearing", "reset_on"}
    OBVIOUS
  <2>8. C = Insert(db.clearings, a.id, [clearing |-> a, reset_on |-> NoDate])
    OBVIOUS
  <2> HIDE DEF C, new, a, w
  <2>9. /\ IsShaped(db') /\ db'.clearings = C /\ db'.postings = db.postings
        /\ db'.entries = db.entries
    BY <2>4, <2>5 DEF IsShaped
  <2>10. IsRows(db')
    <3>1. IsFiniteSet(DOMAIN C)
      BY <2>5, <2>6, FS_AddElement DEF IsRows
    <3>2. \A id \in DOMAIN C : /\ {"clearing", "reset_on"} \subseteq DOMAIN C[id]
                               /\ IsStored(db, C[id].clearing)
      BY <2>3, <2>5, <2>6, <2>7 DEF IsRows
    <3> QED BY <2>5, <2>9, <3>1, <3>2 DEF IsRows, IsStored, Amount
  <2>11. ASSUME NEW k \in DOMAIN db.postings
         PROVE  applied_minor(db', k) <= Amount(db, k)
    <3>1. AppliedBy(a, Ref(k)) \in Nat
      BY <2>3
    <3>2. db'.clearings = Insert(db.clearings, a.id, [clearing |-> a, reset_on |-> NoDate])
      BY <2>8, <2>9
    <3>3. applied_minor(db', k) = applied_minor(db, k) + AppliedBy(a, Ref(k))
      BY <2>1, <2>5, <3>1, <3>2, AppliedMore
    <3> QED BY <2>3, <3>3
  <2>12. NeverOverApplied'
    BY <2>9, <2>11 DEF NeverOverApplied, Amount
  <2>13. Clerks' = Clerks /\ \A d \in Clerks : clerk'[d] = AtRest
    BY <1>1, <1>2 DEF Clerks, OneGoesOn, Alone
  <2>14. clerk' = [d \in Clerks |-> clerk'[d]]
    BY <1>2 DEF OneGoesOn
  <2>15. setup' \in DOMAIN Setups
    BY DEF IInv
  <2> QED BY <2>10, <2>12, <2>13, <2>14, <2>15 DEF IInv
<1> QED BY <1>3, <1>4

-----------------------------------------------------------------------------
(***************************************************************************)
(* Every behaviour.                                                        *)
(***************************************************************************)
\* A ledger just migrated has no postings and no clearings, and its clerks rest.
LEMMA InitIInv ==
    ASSUME Init
    PROVE  IInv
<1> DEFINE A == [h \in DOMAIN Chart |-> account_row(Chart[h])]
<1>1. setup \in DOMAIN Setups /\ db = [migrate EXCEPT !.accounts = A]
      /\ clerk = [c \in Clerks |-> AtRest]
  BY DEF Init
<1> HIDE DEF A
<1>2. IsShaped(db) /\ db.postings = EmptyMap /\ db.clearings = EmptyMap
  BY <1>1 DEF migrate, IsShaped
<1>3. DOMAIN db.postings = {} /\ DOMAIN db.clearings = {}
  BY <1>2 DEF EmptyMap
<1>4. IsRows(db)
  BY <1>2, <1>3, FS_EmptySet DEF IsRows
<1>5. NeverOverApplied
  BY <1>3 DEF NeverOverApplied
<1>6. clerk = [c \in Clerks |-> clerk[c]] /\ \A c \in Clerks : clerk[c] = AtRest
  BY <1>1
<1> QED BY <1>1, <1>4, <1>5, <1>6 DEF IInv

\* Steps that leave the tables and the clerks alone.
LEMMA QuietIInv ==
    ASSUME IInv, UNCHANGED <<setup, db, clerk>>
    PROVE  IInv'
<1>1. Clerks' = Clerks /\ Assignments' = Assignments
  BY DEF Clerks, Assignments
<1>2. NeverOverApplied'
  BY DEF IInv, NeverOverApplied
<1> QED BY <1>1, <1>2 DEF IInv

\* Every step of the specification.
LEMMA NextIInv ==
    ASSUME IInv, [Next]_vars
    PROVE  IInv'
<1>1. CASE UNCHANGED vars
  BY <1>1, QuietIInv DEF vars
<1>2. CASE (\E e \in Bookings : Book(e) \/ Place(e.id)) /\ UNCHANGED <<setup, clerk, saver>>
  BY <1>2, BookIInv, PlaceIInv
<1>3. CASE (\E c \in Clerks, a \in Assignments : BeginClear(c, a))
           /\ UNCHANGED <<setup, db, reader, saver>>
  BY <1>3, BeginIInv
<1>4. CASE (\E c \in Clerks : CheckItem(c)) /\ UNCHANGED <<setup, db, reader, saver>>
  BY <1>4, CheckIInv
<1>5. CASE (\E c \in Clerks : CommitClear(c)) /\ UNCHANGED <<setup, saver>>
  BY <1>5, CommitIInv
<1>6. CASE (\E a \in Assignments : ResetClearing(a.id)) /\ UNCHANGED <<setup, clerk, saver>>
  BY <1>6, ResetIInv
<1>7. CASE (\E s \in Savers : CheckpointSave(s)) /\ UNCHANGED <<setup, reader, clerk>>
  BY <1>7, SaveIInv
<1>8. CASE UNCHANGED <<setup, db, clerk>>
  BY <1>8, QuietIInv
<1> QED BY <1>1, <1>2, <1>3, <1>4, <1>5, <1>6, <1>7, <1>8 DEF Next

\* Every reachable state satisfies the inductive invariant: the clerks that are
\* at work hold the append lock alone, and what they found open is open still.
THEOREM PostgresReadersInvariant == Spec => []IInv
<1>1. Init => IInv
  BY InitIInv
<1>2. IInv /\ [Next]_vars => IInv'
  BY NextIInv
<1> QED BY <1>1, <1>2, PTL DEF Spec

\* Nothing is applied to a posting beyond its amount, whoever clears and releases
\* at the same time, although clear reads the open amounts one after another.
THEOREM AppliedStaysWithin == Spec => []NeverOverApplied
<1>1. IInv => NeverOverApplied
  BY DEF IInv
<1> QED BY <1>1, PostgresReadersInvariant, PTL
=============================================================================
