------------------------------ MODULE Folding -------------------------------
(***************************************************************************)
(* Induction over the naturals, and what FoldLeft and FoldSet compute.     *)
(*                                                                         *)
(* The operators of the model fold a sequence with one step after another. *)
(* Op is that step; its first argument is whatever else the step reads, so *)
(* that one instance of this module serves a fold with parameters.         *)
(***************************************************************************)
EXTENDS Integers, SequencesExt, WellFoundedInduction, FiniteSetTheorems, TLAPS

CONSTANT Op(_, _, _)    \* Op(context, accumulator, element)

-----------------------------------------------------------------------------
(***************************************************************************)
(* Induction, with a set in place of a predicate.                          *)
(***************************************************************************)
\* A non-empty set of natural numbers has a least one.
LEMMA LeastNatural ==
    ASSUME NEW T \in SUBSET Nat, T # {}
    PROVE  \E x \in T : \A y \in T : x <= y
<1> DEFINE R == OpToRel(<, Nat)
<1>1. \A x, y \in Nat : y < x => <<y, x>> \in R
  BY DEF OpToRel
<1>2. IsWellFoundedOn(R, Nat)
  BY NatLessThanWellFounded
<1> HIDE DEF R
<1>3. PICK x \in T : \A y \in T : ~(<<y, x>> \in R)
  BY <1>2, WFMin
<1>4. ASSUME NEW y \in T PROVE x <= y
  <2>1. x \in Nat /\ y \in Nat
    OBVIOUS
  <2>2. ~(y < x)
    BY <1>1, <1>3, <2>1, Zenon
  <2> QED BY <2>1, <2>2
<1> QED BY <1>4

\* A set that holds 0 and with every number the next holds all of them.
LEMMA SetInduction ==
    ASSUME NEW T, 0 \in T, \A n \in Nat : n \in T => n + 1 \in T
    PROVE  \A n \in Nat : n \in T
<1> DEFINE M == Nat \ T
<1> SUFFICES ASSUME M # {} PROVE FALSE
  OBVIOUS
<1>1. PICK x \in M : \A y \in M : x <= y
  <2>1. M \in SUBSET Nat
    OBVIOUS
  <2> HIDE DEF M
  <2> QED BY <2>1, LeastNatural
<1>2. x \in Nat /\ x # 0
  BY <1>1
<1>3. x - 1 \in Nat /\ x - 1 \notin M
  BY <1>1, <1>2
<1> QED BY <1>1, <1>2, <1>3

\* The same up to a bound.
LEMMA BoundedInduction ==
    ASSUME NEW T, NEW m \in Nat, 0 \in T,
           \A n \in 0..(m - 1) : n \in T => n + 1 \in T
    PROVE  \A n \in 0..m : n \in T
<1> DEFINE U == {n \in Nat : n <= m => n \in T}
<1>1. 0 \in U
  OBVIOUS
<1>2. ASSUME NEW n \in Nat, n \in U PROVE n + 1 \in U
  BY <1>2
<1>3. \A n \in Nat : n \in U
  <2> HIDE DEF U
  <2> QED BY <1>1, <1>2, SetInduction
<1> QED BY <1>3

-----------------------------------------------------------------------------
(***************************************************************************)
(* FoldLeft.                                                               *)
(***************************************************************************)
Fold(ctx, base, seq) == FoldLeft(LAMBDA acc, e : Op(ctx, acc, e), base, seq)

\* The recursive function in the definition of FoldLeft: it peels off the
\* greatest index of a set of indices.
Peels(f, ctx, base, seq, n) ==
    f = [s \in SUBSET (1..n) |->
            IF s = {} THEN base ELSE Op(ctx, f[s \ {Max(s)}], seq[Max(s)])]

\* A fold is the fold over indices, which peels one index off a set at a time.
LEMMA FoldIsPeeled ==
    ASSUME NEW ctx, NEW base, NEW seq, NEW n, DOMAIN seq = 1..n
    PROVE  Fold(ctx, base, seq) = (CHOOSE f : Peels(f, ctx, base, seq, n))[1..n]
  BY DEF Fold, FoldLeft, MapThenFoldSet, Peels

\* What such a function is on each set.
LEMMA PeeledAt ==
    ASSUME NEW ctx, NEW base, NEW seq, NEW n, NEW f, Peels(f, ctx, base, seq, n),
           NEW s \in SUBSET (1..n)
    PROVE  /\ s = {} => f[s] = base
           /\ s # {} => f[s] = Op(ctx, f[s \ {Max(s)}], seq[Max(s)])
<1> DEFINE h == [t \in SUBSET (1..n) |->
                    IF t = {} THEN base ELSE Op(ctx, f[t \ {Max(t)}], seq[Max(t)])]
<1>1. f = h
  BY DEF Peels
<1>2. h[s] = IF s = {} THEN base ELSE Op(ctx, f[s \ {Max(s)}], seq[Max(s)])
  OBVIOUS
<1> HIDE DEF h
<1> QED BY <1>1, <1>2

\* The fold over no index is the base.
LEMMA PeeledEmpty ==
    ASSUME NEW ctx, NEW base, NEW seq, NEW n, NEW f, Peels(f, ctx, base, seq, n)
    PROVE  f[{}] = base
<1> DEFINE h == [t \in SUBSET (1..n) |->
                    IF t = {} THEN base ELSE Op(ctx, f[t \ {Max(t)}], seq[Max(t)])]
<1>1. f = h
  BY DEF Peels
<1>2. h[{}] = base
  OBVIOUS
<1> HIDE DEF h
<1> QED BY <1>1, <1>2

\* The greatest of a set of numbers, when it is known.
LEMMA MaxIs ==
    ASSUME NEW s \in SUBSET Int, NEW x \in s, \A y \in s : y <= x
    PROVE  Max(s) = x
<1> DEFINE P(z) == z \in s /\ \A y \in s : z >= y
<1>1. P(x)
  OBVIOUS
<1>2. ASSUME NEW z, P(z) PROVE z = x
  <2>1. z \in Int /\ x \in Int /\ z >= x /\ x >= z
    BY <1>2
  <2> QED BY <2>1
<1>3. Max(s) = CHOOSE z : P(z)
  BY Zenon DEF Max
<1> HIDE DEF P
<1> QED BY <1>1, <1>2, <1>3

\* There is one for every number of indices.
LEMMA PeelingExists ==
    ASSUME NEW ctx, NEW base, NEW seq, NEW n \in Nat
    PROVE  \E f : Peels(f, ctx, base, seq, n)
<1> DEFINE T == {m \in Nat : \E f : Peels(f, ctx, base, seq, m)}
<1>1. 0 \in T
  <2> DEFINE f == [s \in SUBSET (1..0) |-> base]
             h == [s \in SUBSET (1..0) |->
                      IF s = {} THEN base ELSE Op(ctx, f[s \ {Max(s)}], seq[Max(s)])]
  <2>1. \A s \in SUBSET (1..0) : s = {}
    OBVIOUS
  <2>2. f = h
    BY <2>1
  <2>3. Peels(f, ctx, base, seq, 0)
    BY <2>2 DEF Peels
  <2> QED BY <2>3
<1>2. ASSUME NEW m \in Nat, m \in T PROVE m + 1 \in T
  <2>1. PICK f : Peels(f, ctx, base, seq, m)
    BY <1>2
  <2> DEFINE k == m + 1
             g == [s \in SUBSET (1..k) |->
                      IF k \in s THEN Op(ctx, f[s \ {k}], seq[k]) ELSE f[s]]
             h == [s \in SUBSET (1..k) |->
                      IF s = {} THEN base ELSE Op(ctx, g[s \ {Max(s)}], seq[Max(s)])]
  <2>2. ASSUME NEW s \in SUBSET (1..k) PROVE g[s] = h[s]
    <3>1. CASE k \in s
      <4>1. Max(s) = k
        <5>1. s \in SUBSET Int /\ \A y \in s : y <= k
          OBVIOUS
        <5> QED BY <3>1, <5>1, MaxIs
      <4>2. s \ {k} \in SUBSET (1..k) /\ k \notin s \ {k}
        OBVIOUS
      <4> QED BY <3>1, <4>1, <4>2
    <3>2. CASE k \notin s /\ s # {}
      <4>1. s \in SUBSET (1..m)
        BY <3>2
      <4>2. f[s] = Op(ctx, f[s \ {Max(s)}], seq[Max(s)])
        <5>1. s # {}
          BY <3>2
        <5> QED BY <4>1, <5>1, <2>1, PeeledAt
      <4>3. s \ {Max(s)} \in SUBSET (1..k) /\ k \notin s \ {Max(s)}
        BY <3>2
      <4> QED BY <3>2, <4>2, <4>3
    <3>3. CASE s = {}
      <4>1. f[{}] = base
        BY <2>1, PeeledEmpty
      <4> QED BY <4>1, <3>3
    <3> QED BY <3>1, <3>2, <3>3
  <2>3. g = h
    BY <2>2
  <2>4. Peels(g, ctx, base, seq, k)
    BY <2>3 DEF Peels
  <2> QED BY <2>4
<1>3. \A m \in Nat : m \in T
  <2> HIDE DEF T
  <2> QED BY <1>1, <1>2, SetInduction
<1> QED BY <1>3

\* On an initial segment it takes one step with the last element.
LEMMA PeeledSegment ==
    ASSUME NEW ctx, NEW base, NEW seq, NEW n \in Nat, NEW f,
           Peels(f, ctx, base, seq, n), NEW j \in Nat, j < n
    PROVE  f[1..(j + 1)] = Op(ctx, f[1..j], seq[j + 1])
<1> DEFINE s == 1..(j + 1)
<1>1. Max(s) = j + 1
  <2>1. s \in SUBSET Int /\ j + 1 \in s /\ \A y \in s : y <= j + 1
    OBVIOUS
  <2> QED BY <2>1, MaxIs
<1>2. s \ {j + 1} = 1..j
  OBVIOUS
<1>3. s \in SUBSET (1..n) /\ s # {}
  OBVIOUS
<1>4. f[s] = Op(ctx, f[s \ {Max(s)}], seq[Max(s)])
  <2> HIDE DEF s
  <2> QED BY <1>3, PeeledAt
<1> QED BY <1>1, <1>2, <1>4

\* A trace of the fold: it starts at `base` and takes one step of Op with each
\* of the first n elements.  This is the form in which the proofs use a fold.
IsTrace(t, ctx, base, seq, n) ==
    /\ t[0] = base
    /\ \A j \in 0..(n - 1) : t[j + 1] = Op(ctx, t[j], seq[j + 1])

\* A fold is the end of a trace.
THEOREM FoldTrace ==
    ASSUME NEW ctx, NEW base, NEW seq, NEW n \in Nat, DOMAIN seq = 1..n
    PROVE  \E t : IsTrace(t, ctx, base, seq, n) /\ Fold(ctx, base, seq) = t[n]
<1> DEFINE f == CHOOSE g : Peels(g, ctx, base, seq, n)
           t == [j \in 0..n |-> f[1..j]]
<1>1. Peels(f, ctx, base, seq, n)
  BY PeelingExists
<1>2. Fold(ctx, base, seq) = f[1..n]
  BY FoldIsPeeled
<1> HIDE DEF f
<1>3. f[1..0] = base
  <2>1. 1..0 = {}
    OBVIOUS
  <2>2. f[{}] = base
    BY <1>1, PeeledEmpty
  <2> QED BY <2>1, <2>2
<1>4. ASSUME NEW j \in 0..(n - 1) PROVE f[1..(j + 1)] = Op(ctx, f[1..j], seq[j + 1])
  <2>1. j \in Nat /\ j < n
    OBVIOUS
  <2> QED BY <1>1, <2>1, PeeledSegment
<1>5. IsTrace(t, ctx, base, seq, n)
  BY <1>3, <1>4 DEF IsTrace
<1>6. t[n] = f[1..n]
  OBVIOUS
<1> QED BY <1>2, <1>5, <1>6

\* Traces over the same elements agree.
LEMMA TraceUnique ==
    ASSUME NEW ctx, NEW base, NEW p, NEW q, NEW m \in Nat, NEW t, NEW u,
           IsTrace(t, ctx, base, p, m), IsTrace(u, ctx, base, q, m),
           \A j \in 1..m : p[j] = q[j]
    PROVE  t[m] = u[m]
<1> DEFINE T == {j \in Nat : t[j] = u[j]}
<1>1. 0 \in T
  BY DEF IsTrace
<1>2. ASSUME NEW j \in 0..(m - 1), j \in T PROVE j + 1 \in T
  <2>1. p[j + 1] = q[j + 1] /\ t[j] = u[j] /\ j + 1 \in Nat
    BY <1>2
  <2>2. t[j + 1] = u[j + 1]
    BY <2>1 DEF IsTrace
  <2> QED BY <2>1, <2>2
<1>3. \A j \in 0..m : j \in T
  <2> HIDE DEF T
  <2> QED BY <1>1, <1>2, BoundedInduction
<1> QED BY <1>3

\* Folding nothing.
THEOREM FoldEmpty == ASSUME NEW ctx, NEW base PROVE Fold(ctx, base, <<>>) = base
<1>1. DOMAIN <<>> = 1..0 /\ 0 \in Nat
  OBVIOUS
<1>2. PICK t : IsTrace(t, ctx, base, <<>>, 0) /\ Fold(ctx, base, <<>>) = t[0]
  BY <1>1, FoldTrace
<1> QED BY <1>2 DEF IsTrace

\* One element more is one step more.
THEOREM FoldAppend ==
    ASSUME NEW ctx, NEW base, NEW S, NEW q \in Seq(S), NEW e
    PROVE  Fold(ctx, base, Append(q, e)) = Op(ctx, Fold(ctx, base, q), e)
<1> DEFINE r == Append(q, e)
           n == Len(q)
<1>1. /\ n \in Nat /\ n + 1 \in Nat /\ DOMAIN q = 1..n /\ DOMAIN r = 1..(n + 1)
      /\ r[n + 1] = e /\ \A j \in 1..n : r[j] = q[j]
  OBVIOUS
<1> HIDE DEF r, n
<1>2. PICK t : IsTrace(t, ctx, base, q, n) /\ Fold(ctx, base, q) = t[n]
  BY <1>1, FoldTrace
<1>3. PICK u : IsTrace(u, ctx, base, r, n + 1) /\ Fold(ctx, base, r) = u[n + 1]
  BY <1>1, FoldTrace
<1>4. IsTrace(u, ctx, base, r, n) /\ u[n + 1] = Op(ctx, u[n], r[n + 1])
  BY <1>1, <1>3 DEF IsTrace
<1>5. u[n] = t[n]
  BY <1>1, <1>2, <1>4, TraceUnique
<1> QED BY <1>1, <1>2, <1>3, <1>4, <1>5 DEF r

\* Folds of steps that do the same, element by element, agree.
THEOREM FoldCongruent ==
    ASSUME NEW c, NEW d, NEW base, NEW p, NEW q, NEW n \in Nat,
           DOMAIN p = 1..n, DOMAIN q = 1..n,
           \A j \in 1..n : \A acc : Op(c, acc, p[j]) = Op(d, acc, q[j])
    PROVE  Fold(c, base, p) = Fold(d, base, q)
<1>1. PICK t : IsTrace(t, c, base, p, n) /\ Fold(c, base, p) = t[n]
  BY FoldTrace
<1>2. PICK u : IsTrace(u, d, base, q, n) /\ Fold(d, base, q) = u[n]
  BY FoldTrace
<1> DEFINE T == {j \in Nat : t[j] = u[j]}
<1>3. 0 \in T
  BY <1>1, <1>2 DEF IsTrace
<1>4. ASSUME NEW j \in 0..(n - 1), j \in T PROVE j + 1 \in T
  <2>1. j + 1 \in 1..n /\ t[j] = u[j] /\ j + 1 \in Nat
    BY <1>4
  <2>2. t[j + 1] = Op(c, t[j], p[j + 1]) /\ u[j + 1] = Op(d, u[j], q[j + 1])
    BY <1>1, <1>2 DEF IsTrace
  <2>3. t[j + 1] = u[j + 1]
    BY <2>1, <2>2
  <2> QED BY <2>1, <2>3
<1>5. \A j \in 0..n : j \in T
  <2> HIDE DEF T
  <2> QED BY <1>3, <1>4, BoundedInduction
<1> QED BY <1>1, <1>2, <1>5

-----------------------------------------------------------------------------
(***************************************************************************)
(* FoldSet.                                                                *)
(***************************************************************************)
SetFold(ctx, base, S) == FoldSet(LAMBDA x, acc : Op(ctx, acc, x), base, S)

Some(s) == CHOOSE x \in s : TRUE

\* A function that peels some element off every set of D, a set of sets.
PeelsSets(f, ctx, base, D) ==
    f = [s \in D |-> IF s = {} THEN base ELSE Op(ctx, f[s \ {Some(s)}], Some(s))]

\* A fold over a set peels it.
LEMMA SetFoldIsPeeled ==
    ASSUME NEW ctx, NEW base, NEW S
    PROVE  SetFold(ctx, base, S) = (CHOOSE f : PeelsSets(f, ctx, base, SUBSET S))[S]
  BY DEF SetFold, FoldSet, MapThenFoldSet, PeelsSets, Some

\* What such a function is on each set.
LEMMA SetPeeledAt ==
    ASSUME NEW ctx, NEW base, NEW D, NEW f, PeelsSets(f, ctx, base, D), NEW s \in D
    PROVE  /\ s = {} => f[s] = base
           /\ s # {} => f[s] = Op(ctx, f[s \ {Some(s)}], Some(s))
<1> DEFINE h == [t \in D |-> IF t = {} THEN base ELSE Op(ctx, f[t \ {Some(t)}], Some(t))]
<1>1. f = h
  BY DEF PeelsSets
<1>2. h[s] = IF s = {} THEN base ELSE Op(ctx, f[s \ {Some(s)}], Some(s))
  OBVIOUS
<1> HIDE DEF h
<1> QED BY <1>1, <1>2

\* The same for a function that peels every subset of S.
LEMMA EmptyPeeled ==
    ASSUME NEW ctx, NEW base, NEW S, NEW f, PeelsSets(f, ctx, base, SUBSET S)
    PROVE  f[{}] = base
<1> DEFINE D == SUBSET S
<1>1. PeelsSets(f, ctx, base, D) /\ {} \in D
  OBVIOUS
<1> HIDE DEF D
<1>2. \A s \in D : s = {} => f[s] = base
  BY <1>1, SetPeeledAt
<1> QED BY <1>1, <1>2

\* A set that is not empty is folded as its chosen element on top of the rest.
LEMMA SubsetPeeled ==
    ASSUME NEW ctx, NEW base, NEW S, NEW f, PeelsSets(f, ctx, base, SUBSET S),
           NEW s \in SUBSET S, s # {}
    PROVE  f[s] = Op(ctx, f[s \ {Some(s)}], Some(s))
<1> DEFINE D == SUBSET S
<1>1. PeelsSets(f, ctx, base, D) /\ s \in D
  OBVIOUS
<1> HIDE DEF D
<1> QED BY <1>1, SetPeeledAt

\* Without one of its elements a finite set is smaller by one.
LEMMA OneLess ==
    ASSUME NEW s, IsFiniteSet(s), NEW x \in s
    PROVE  Cardinality(s \ {x}) = Cardinality(s) - 1 /\ Cardinality(s) \in Nat
  BY FS_RemoveElement, FS_CardinalityType

\* A set that holds the empty set, and with every set one more element, holds
\* every finite set.
LEMMA FiniteInduction ==
    ASSUME NEW S, IsFiniteSet(S), NEW T, {} \in T,
           \A s \in SUBSET S, x \in S : s \in T /\ x \notin s => s \cup {x} \in T
    PROVE  \A s \in SUBSET S : s \in T
<1> DEFINE U == {n \in Nat : \A s \in SUBSET S : Cardinality(s) = n => s \in T}
<1>1. 0 \in U
  <2> SUFFICES ASSUME NEW s \in SUBSET S, Cardinality(s) = 0 PROVE s \in T
    OBVIOUS
  <2>1. IsFiniteSet(s)
    BY FS_Subset
  <2>2. s = {}
    BY <2>1, FS_EmptySet
  <2> QED BY <2>2
<1>2. ASSUME NEW n \in Nat, n \in U PROVE n + 1 \in U
  <2> SUFFICES ASSUME NEW s \in SUBSET S, Cardinality(s) = n + 1 PROVE s \in T
    OBVIOUS
  <2>1. IsFiniteSet(s)
    BY FS_Subset
  <2>2. s # {}
    BY FS_EmptySet
  <2>3. PICK x \in s : TRUE
    BY <2>2
  <2>4. Cardinality(s \ {x}) = n /\ s \ {x} \in SUBSET S /\ x \in S /\ x \notin s \ {x}
    <3>1. Cardinality(s \ {x}) = Cardinality(s) - 1
      BY <2>1, OneLess
    <3>2. Cardinality(s \ {x}) = n
      BY <3>1
    <3> QED BY <3>2
  <2>5. s \ {x} \in T
    BY <1>2, <2>4
  <2>6. s = (s \ {x}) \cup {x}
    OBVIOUS
  <2> QED BY <2>4, <2>5, <2>6
<1>3. \A n \in Nat : n \in U
  <2> HIDE DEF U
  <2> QED BY <1>1, <1>2, SetInduction
<1> SUFFICES ASSUME NEW s \in SUBSET S PROVE s \in T
  OBVIOUS
<1>4. Cardinality(s) \in Nat
  BY FS_Subset, FS_CardinalityType
<1> QED BY <1>3, <1>4

\* There is one for the subsets of a finite set.
LEMMA SetPeelingExists ==
    ASSUME NEW ctx, NEW base, NEW S, IsFiniteSet(S)
    PROVE  \E f : PeelsSets(f, ctx, base, SUBSET S)
<1> DEFINE D(n) == {s \in SUBSET S : Cardinality(s) <= n}
           T == {n \in Nat : \E f : PeelsSets(f, ctx, base, D(n))}
<1>0. \A s \in SUBSET S : IsFiniteSet(s) /\ Cardinality(s) \in Nat /\ (Cardinality(s) = 0 <=> s = {})
  BY FS_Subset, FS_CardinalityType, FS_EmptySet
<1>1. 0 \in T
  <2> DEFINE f == [s \in D(0) |-> base]
             h == [s \in D(0) |-> IF s = {} THEN base ELSE Op(ctx, f[s \ {Some(s)}], Some(s))]
  <2>1. \A s \in D(0) : s = {}
    BY <1>0
  <2>2. f = h
    BY <2>1
  <2>3. PeelsSets(f, ctx, base, D(0))
    BY <2>2 DEF PeelsSets
  <2> QED BY <2>3
<1>2. ASSUME NEW n \in Nat, n \in T PROVE n + 1 \in T
  <2>1. PICK f : PeelsSets(f, ctx, base, D(n))
    BY <1>2
  <2> DEFINE k == n + 1
             g == [s \in D(k) |-> IF s \in D(n) THEN f[s] ELSE Op(ctx, f[s \ {Some(s)}], Some(s))]
             h == [s \in D(k) |-> IF s = {} THEN base ELSE Op(ctx, g[s \ {Some(s)}], Some(s))]
  <2>2. ASSUME NEW s \in D(k) PROVE g[s] = h[s]
    <3>1. CASE s = {}
      <4>1. s \in D(n)
        BY <3>1, <1>0
      <4>2. f[s] = base
        <5> HIDE DEF D
        <5> QED BY <2>1, <3>1, <4>1, SetPeeledAt
      <4> QED BY <3>1, <4>1, <4>2
    <3>2. CASE s # {}
      <4>1. Some(s) \in s
        BY <3>2 DEF Some
      <4>2. Cardinality(s \ {Some(s)}) = Cardinality(s) - 1 /\ s \ {Some(s)} \in SUBSET S
        BY <1>0, <4>1, FS_RemoveElement
      <4>3. Cardinality(s) \in Nat /\ Cardinality(s) <= n + 1
        BY <1>0
      <4>4. s \ {Some(s)} \in D(n) /\ s \ {Some(s)} \in D(k)
        BY <4>2, <4>3
      <4>5. g[s \ {Some(s)}] = f[s \ {Some(s)}]
        BY <4>4
      <4>6. h[s] = Op(ctx, f[s \ {Some(s)}], Some(s))
        BY <3>2, <4>5
      <4>7. CASE s \in D(n)
        <5>1. f[s] = Op(ctx, f[s \ {Some(s)}], Some(s))
          <6> HIDE DEF D
          <6> QED BY <2>1, <3>2, <4>7, SetPeeledAt
        <5> QED BY <4>6, <4>7, <5>1
      <4>8. CASE s \notin D(n)
        BY <4>6, <4>8
      <4> QED BY <4>7, <4>8
    <3> QED BY <3>1, <3>2
  <2>3. g = h
    BY <2>2
  <2>4. PeelsSets(g, ctx, base, D(k))
    BY <2>3 DEF PeelsSets
  <2> QED BY <2>4
<1>3. \A n \in Nat : n \in T
  <2> HIDE DEF T
  <2> QED BY <1>1, <1>2, SetInduction
<1>4. Cardinality(S) \in T
  BY <1>3, FS_CardinalityType
<1>5. D(Cardinality(S)) = SUBSET S
  <2>1. \A s \in SUBSET S : Cardinality(s) <= Cardinality(S)
    BY FS_Subset
  <2> QED BY <2>1
<1> HIDE DEF D
<1> QED BY <1>4, <1>5

\* The step stays within A, and two elements may come in either order.
Commutes(ctx, base, A, S) ==
    /\ base \in A
    /\ \A a \in A, x \in S : Op(ctx, a, x) \in A
    /\ \A a \in A, x, y \in S : Op(ctx, Op(ctx, a, x), y) = Op(ctx, Op(ctx, a, y), x)

\* The fold stays within A.
LEMMA PeelsWithin ==
    ASSUME NEW ctx, NEW base, NEW S, IsFiniteSet(S), NEW A, Commutes(ctx, base, A, S),
           NEW f, PeelsSets(f, ctx, base, SUBSET S)
    PROVE  \A s \in SUBSET S : f[s] \in A
<1> DEFINE T == {n \in Nat : \A s \in SUBSET S : Cardinality(s) = n => f[s] \in A}
<1>0. \A s \in SUBSET S : IsFiniteSet(s) /\ Cardinality(s) \in Nat /\ (Cardinality(s) = 0 <=> s = {})
  BY FS_Subset, FS_CardinalityType, FS_EmptySet
<1>1. 0 \in T
  <2>2. f[{}] = base
    BY EmptyPeeled
  <2> QED BY <1>0, <2>2 DEF Commutes
<1>2. ASSUME NEW n \in Nat, n \in T PROVE n + 1 \in T
  <2> SUFFICES ASSUME NEW s \in SUBSET S, Cardinality(s) = n + 1 PROVE f[s] \in A
    OBVIOUS
  <2>1. s # {} /\ IsFiniteSet(s)
    BY <1>0
  <2>2. Some(s) \in s
    BY <2>1 DEF Some
  <2>3. f[s] = Op(ctx, f[s \ {Some(s)}], Some(s))
    BY <2>1, SubsetPeeled
  <2>4. Cardinality(s \ {Some(s)}) = n
    <3>1. Cardinality(s \ {Some(s)}) = Cardinality(s) - 1
      BY <2>1, <2>2, OneLess
    <3> QED BY <3>1
  <2>5. s \ {Some(s)} \in SUBSET S
    OBVIOUS
  <2>6. f[s \ {Some(s)}] \in A
    BY <1>2, <2>4, <2>5
  <2> QED BY <2>2, <2>3, <2>6 DEF Commutes
<1>3. \A n \in Nat : n \in T
  <2> HIDE DEF T
  <2> QED BY <1>1, <1>2, SetInduction
<1> QED BY <1>0, <1>3

\* Then any element may be peeled off first.
LEMMA AnyPeel ==
    ASSUME NEW ctx, NEW base, NEW S, IsFiniteSet(S), NEW A, Commutes(ctx, base, A, S),
           NEW f, PeelsSets(f, ctx, base, SUBSET S)
    PROVE  \A s \in SUBSET S : \A y \in s : f[s] = Op(ctx, f[s \ {y}], y)
<1> DEFINE P(s) == f[s] \in A /\ \A y \in s : f[s] = Op(ctx, f[s \ {y}], y)
           T == {n \in Nat : \A s \in SUBSET S : Cardinality(s) = n => P(s)}
<1>0. \A s \in SUBSET S : IsFiniteSet(s) /\ Cardinality(s) \in Nat /\ (Cardinality(s) = 0 <=> s = {})
  BY FS_Subset, FS_CardinalityType, FS_EmptySet
<1>1. 0 \in T
  <2>2. f[{}] = base
    BY EmptyPeeled
  <2>3. P({})
    BY <2>2 DEF Commutes
  <2> HIDE DEF P
  <2> QED BY <1>0, <2>3
<1>2. ASSUME NEW n \in Nat, n \in T PROVE n + 1 \in T
  <2> SUFFICES ASSUME NEW s \in SUBSET S, Cardinality(s) = n + 1 PROVE P(s)
    OBVIOUS
  <2> DEFINE x == Some(s)
  <2>1. s # {} /\ IsFiniteSet(s)
    BY <1>0
  <2>2. x \in s
    BY <2>1 DEF Some
  <2>3. f[s] = Op(ctx, f[s \ {x}], x)
    BY <2>1, SubsetPeeled
  <2> HIDE DEF x
  <2>4. ASSUME NEW y \in s PROVE Cardinality(s \ {y}) = n /\ s \ {y} \in SUBSET S /\ P(s \ {y})
    <3>1. Cardinality(s \ {y}) = n
      <4>1. Cardinality(s \ {y}) = Cardinality(s) - 1
        BY <2>1, OneLess
      <4> QED BY <4>1
    <3>2. s \ {y} \in SUBSET S
      OBVIOUS
    <3> HIDE DEF P
    <3> QED BY <1>2, <3>1, <3>2
  <2>5. f[s] \in A
    BY <2>2, <2>3, <2>4 DEF Commutes
  <2>6. ASSUME NEW y \in s PROVE f[s] = Op(ctx, f[s \ {y}], y)
    <3>1. CASE y = x
      BY <2>3, <3>1
    <3>2. CASE y # x
      <4> DEFINE a == f[(s \ {x}) \ {y}]
      <4>1. f[s \ {x}] = Op(ctx, a, y)
        BY <2>2, <2>4, <3>2
      <4>2. (s \ {x}) \ {y} = (s \ {y}) \ {x}
        OBVIOUS
      <4>3. f[s \ {y}] = Op(ctx, a, x)
        BY <2>2, <2>4, <3>2, <4>2
      <4>4. a \in A
        <5>1. (s \ {x}) \ {y} \in SUBSET S
          OBVIOUS
        <5>2. \A t \in SUBSET S : f[t] \in A
          BY PeelsWithin
        <5> QED BY <5>1, <5>2
      <4>5. Op(ctx, Op(ctx, a, y), x) = Op(ctx, Op(ctx, a, x), y)
        BY <2>2, <4>4 DEF Commutes
      <4> QED BY <2>3, <4>1, <4>3, <4>5
    <3> QED BY <3>1, <3>2
  <2> QED BY <2>5, <2>6
<1>3. \A n \in Nat : n \in T
  <2> HIDE DEF T
  <2> QED BY <1>1, <1>2, SetInduction
<1> SUFFICES ASSUME NEW s \in SUBSET S PROVE P(s)
  OBVIOUS
<1> HIDE DEF P
<1> QED BY <1>0, <1>3

\* Functions that peel the subsets of S agree on them, whatever else they peel.
LEMMA PeelsAgree ==
    ASSUME NEW ctx, NEW base, NEW R, NEW S \in SUBSET R, IsFiniteSet(S),
           NEW f, PeelsSets(f, ctx, base, SUBSET S), NEW g, PeelsSets(g, ctx, base, SUBSET R)
    PROVE  f[S] = g[S]
<1> DEFINE T == {n \in Nat : \A s \in SUBSET S : Cardinality(s) = n => f[s] = g[s]}
<1>0. \A s \in SUBSET S : IsFiniteSet(s) /\ Cardinality(s) \in Nat /\ (Cardinality(s) = 0 <=> s = {})
  BY FS_Subset, FS_CardinalityType, FS_EmptySet
<1>1. 0 \in T
  <2>2. f[{}] = base /\ g[{}] = base
    BY EmptyPeeled
  <2> QED BY <1>0, <2>2
<1>2. ASSUME NEW n \in Nat, n \in T PROVE n + 1 \in T
  <2> SUFFICES ASSUME NEW s \in SUBSET S, Cardinality(s) = n + 1 PROVE f[s] = g[s]
    OBVIOUS
  <2>1. s # {} /\ IsFiniteSet(s) /\ s \in SUBSET R
    BY <1>0
  <2>2. Some(s) \in s
    BY <2>1 DEF Some
  <2>3. f[s] = Op(ctx, f[s \ {Some(s)}], Some(s)) /\ g[s] = Op(ctx, g[s \ {Some(s)}], Some(s))
    BY <2>1, SubsetPeeled
  <2>4. Cardinality(s \ {Some(s)}) = n
    <3>1. Cardinality(s \ {Some(s)}) = Cardinality(s) - 1
      BY <2>1, <2>2, OneLess
    <3> QED BY <3>1
  <2>5. s \ {Some(s)} \in SUBSET S
    OBVIOUS
  <2> QED BY <1>2, <2>3, <2>4, <2>5
<1>3. \A n \in Nat : n \in T
  <2> HIDE DEF T
  <2> QED BY <1>1, <1>2, SetInduction
<1>4. S \in SUBSET S
  OBVIOUS
<1> QED BY <1>0, <1>3, <1>4

\* Folding the empty set.
THEOREM SetFoldEmpty == ASSUME NEW ctx, NEW base PROVE SetFold(ctx, base, {}) = base
<1> DEFINE f == CHOOSE g : PeelsSets(g, ctx, base, SUBSET {})
<1>1. PeelsSets(f, ctx, base, SUBSET {})
  BY FS_EmptySet, SetPeelingExists
<1>2. SetFold(ctx, base, {}) = f[{}]
  BY SetFoldIsPeeled
<1> HIDE DEF f
<1> QED BY <1>1, <1>2, EmptyPeeled

\* Any element of a set may be the last one taken.
THEOREM SetFoldRemove ==
    ASSUME NEW ctx, NEW base, NEW R, IsFiniteSet(R), NEW x \in R, NEW A, Commutes(ctx, base, A, R)
    PROVE  /\ SetFold(ctx, base, R) = Op(ctx, SetFold(ctx, base, R \ {x}), x)
           /\ SetFold(ctx, base, R \ {x}) \in A /\ SetFold(ctx, base, R) \in A
<1> DEFINE S == R \ {x}
<1>1. S \in SUBSET R /\ R \in SUBSET R
  OBVIOUS
<1>2. PICK h : PeelsSets(h, ctx, base, SUBSET R) /\ SetFold(ctx, base, R) = h[R]
  BY SetPeelingExists, SetFoldIsPeeled
<1>3. h[R] = Op(ctx, h[S], x)
  BY <1>1, <1>2, AnyPeel
<1> HIDE DEF S
<1>4. IsFiniteSet(S)
  BY <1>1, FS_Subset
<1>5. PICK f : PeelsSets(f, ctx, base, SUBSET S) /\ SetFold(ctx, base, S) = f[S]
  BY <1>4, SetPeelingExists, SetFoldIsPeeled
<1>6. f[S] = h[S]
  BY <1>1, <1>2, <1>4, <1>5, PeelsAgree
<1>7. \A s \in SUBSET R : h[s] \in A
  BY <1>2, PeelsWithin
<1>8. h[S] \in A /\ h[R] \in A
  BY <1>1, <1>7
<1> QED BY <1>2, <1>3, <1>5, <1>6, <1>8 DEF S

\* Folds of steps that do the same on the elements of a set agree.
THEOREM SetFoldCongruent ==
    ASSUME NEW c, NEW d, NEW base, NEW R, IsFiniteSet(R), NEW A, Commutes(c, base, A, R),
           \A x \in R : \A a \in A : Op(c, a, x) = Op(d, a, x)
    PROVE  SetFold(c, base, R) = SetFold(d, base, R)
<1>1. PICK f : PeelsSets(f, c, base, SUBSET R) /\ SetFold(c, base, R) = f[R]
  BY SetPeelingExists, SetFoldIsPeeled
<1>2. PICK g : PeelsSets(g, d, base, SUBSET R) /\ SetFold(d, base, R) = g[R]
  BY SetPeelingExists, SetFoldIsPeeled
<1> DEFINE T == {n \in Nat : \A s \in SUBSET R : Cardinality(s) = n => f[s] = g[s]}
<1>3. \A s \in SUBSET R : IsFiniteSet(s) /\ Cardinality(s) \in Nat /\ (Cardinality(s) = 0 <=> s = {})
  BY FS_Subset, FS_CardinalityType, FS_EmptySet
<1>4. \A s \in SUBSET R : f[s] \in A
  BY <1>1, PeelsWithin
<1>5. 0 \in T
  <2>1. f[{}] = base /\ g[{}] = base
    BY <1>1, <1>2, EmptyPeeled
  <2> QED BY <1>3, <2>1
<1>6. ASSUME NEW n \in Nat, n \in T PROVE n + 1 \in T
  <2> SUFFICES ASSUME NEW s \in SUBSET R, Cardinality(s) = n + 1 PROVE f[s] = g[s]
    OBVIOUS
  <2>1. s # {} /\ IsFiniteSet(s)
    BY <1>3
  <2> DEFINE x == Some(s)
             t == s \ {x}
  <2>2. x \in s
    BY <2>1 DEF Some
  <2>3. t \in SUBSET R /\ x \in R
    BY <2>2
  <2>4. f[s] = Op(c, f[t], x) /\ g[s] = Op(d, g[t], x)
    BY <1>1, <1>2, <2>1, SubsetPeeled
  <2>5. Cardinality(t) = n
    <3>1. Cardinality(t) = Cardinality(s) - 1
      BY <2>1, <2>2, OneLess
    <3> QED BY <3>1
  <2>6. f[t] = g[t] /\ f[t] \in A
    BY <1>4, <1>6, <2>3, <2>5
  <2> HIDE DEF x, t
  <2> QED BY <2>3, <2>4, <2>6
<1>7. \A n \in Nat : n \in T
  <2> HIDE DEF T
  <2> QED BY <1>5, <1>6, SetInduction
<1>8. R \in SUBSET R
  OBVIOUS
<1> QED BY <1>1, <1>2, <1>3, <1>7, <1>8
=============================================================================
