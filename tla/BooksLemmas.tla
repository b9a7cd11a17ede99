---------------------------- MODULE BooksLemmas -----------------------------
(***************************************************************************)
(* Lemmas about what a journal is made of: the operators of Periods and    *)
(* Accounts, for every calendar and every registry; those of Books, for    *)
(* every sequence of entries (appending an entry keeps everything derived  *)
(* from the entries exact, and rollback_to is the exact inverse of the     *)
(* appends it takes back); and numberings, which queries sort by.          *)
(***************************************************************************)
EXTENDS Books, FiniteSetTheorems, TLAPS

(***************************************************************************)
(* The folds of Books, one step each.                                      *)
(***************************************************************************)
ApplyStep(ctx, tb, p) == apply(tb, p)

TrialStep(ctx, tb, e) == apply_all(tb, e.postings)

ThroughStep(end, tb, e) ==
    IF e.booking_date <= end THEN apply_all(tb, e.postings) ELSE tb

BalanceStep(ctx, b, site) ==
    IF site.index <= ctx.size THEN add(b, resolve(ctx.books, site)) ELSE b

PushStep(ctx, acc, i) ==
    LET key == key_of(ctx.entry.postings[i]) IN
    Insert(acc, key, Append(SitesOn(acc, key), [index |-> ctx.index, posting |-> i]))

RetainStep(mark, kept, site) == IF site.index <= mark THEN Append(kept, site) ELSE kept

BatchStep(accounts, acc, e) ==
    [books |-> IF acc.ok THEN record_validated(acc.books, accounts, e) ELSE acc.books,
     ok    |-> acc.ok /\ Outcome(acc.books, accounts, e) \in {"New", "Replay"}]

Apply   == INSTANCE Folding WITH Op <- ApplyStep
Trial   == INSTANCE Folding WITH Op <- TrialStep
Through == INSTANCE Folding WITH Op <- ThroughStep
Balance == INSTANCE Folding WITH Op <- BalanceStep
Push    == INSTANCE Folding WITH Op <- PushStep
Retain  == INSTANCE Folding WITH Op <- RetainStep
Batch   == INSTANCE Folding WITH Op <- BatchStep

\* Each fold of Books is the fold of its step.
LEMMA ApplyIsFold == ASSUME NEW tb, NEW postings
                     PROVE  apply_all(tb, postings) = Apply!Fold(0, tb, postings)
  BY DEF apply_all, ApplyStep, FoldLeft, MapThenFoldSet, Max,
         Apply!Fold, Apply!FoldLeft, Apply!MapThenFoldSet, Apply!Max

\* TrialBalanceOf, as a fold with no parameter.
LEMMA TrialIsFold == ASSUME NEW entries
                     PROVE  TrialBalanceOf(entries) = Trial!Fold(0, EmptyMap, entries)
  BY DEF TrialBalanceOf, TrialStep, FoldLeft, MapThenFoldSet, Max,
         Trial!Fold, Trial!FoldLeft, Trial!MapThenFoldSet, Trial!Max

\* trial_balance_through_date, as a fold with the date as parameter.
LEMMA ThroughIsFold ==
    ASSUME NEW books, NEW end
    PROVE  trial_balance_through_date(books, end) = Through!Fold(end, EmptyMap, books.entries)
  BY DEF trial_balance_through_date, ThroughStep, FoldLeft, MapThenFoldSet, Max,
         Through!Fold, Through!FoldLeft, Through!MapThenFoldSet, Through!Max

\* balance_at, as a fold with the books as parameter.
LEMMA BalanceIsFold ==
    ASSUME NEW books, NEW key, NEW size
    PROVE  balance_at(books, key, size) =
             Balance!Fold([books |-> books, size |-> size], Balance_ZERO, SitesOn(books.sites, key))
  BY DEF balance_at, BalanceStep, FoldLeft, MapThenFoldSet, Max,
         Balance!Fold, Balance!FoldLeft, Balance!MapThenFoldSet, Balance!Max

\* PushSites, as a fold with the entry as parameter.
LEMMA PushIsFold ==
    ASSUME NEW sites, NEW e, NEW index
    PROVE  PushSites(sites, e, index) =
             Push!Fold([entry |-> e, index |-> index], sites, [i \in DOMAIN e.postings |-> i])
  BY DEF PushSites, PushStep, FoldLeft, MapThenFoldSet, Max,
         Push!Fold, Push!FoldLeft, Push!MapThenFoldSet, Push!Max

\* retain, as a fold with the mark as parameter.
LEMMA RetainIsFold ==
    ASSUME NEW sites, NEW mark PROVE retain(sites, mark) = Retain!Fold(mark, <<>>, sites)
  BY DEF retain, RetainStep, FoldLeft, MapThenFoldSet, Max,
         Retain!Fold, Retain!FoldLeft, Retain!MapThenFoldSet, Retain!Max

\* Applied, as a fold with the registry as parameter.
LEMMA BatchIsFold ==
    ASSUME NEW books, NEW accounts, NEW batch
    PROVE  Applied(books, accounts, batch) =
             Batch!Fold(accounts, [books |-> books, ok |-> TRUE], batch)
  BY DEF Applied, BatchStep, FoldLeft, MapThenFoldSet, Max,
         Batch!Fold, Batch!FoldLeft, Batch!MapThenFoldSet, Batch!Max

-----------------------------------------------------------------------------
(***************************************************************************)
(* Pushing the sites of an entry.                                          *)
(***************************************************************************)
Site == [index : Nat, posting : Nat]

IsMap(f) == f = [k \in DOMAIN f |-> f[k]]

Before(s, t) == s.index < t.index \/ (s.index = t.index /\ s.posting < t.posting)

InLogOrder(q) == \A m, n \in DOMAIN q : m < n => Before(q[m], q[n])

Elements(q) == {q[n] : n \in DOMAIN q}

\* Sites of entries before `index`, in log order, no key without a site.
SitesBelow(sites, index) ==
    /\ IsMap(sites)
    /\ \A key \in DOMAIN sites :
          /\ sites[key] \in Seq(Site) /\ sites[key] # <<>>
          /\ InLogOrder(sites[key])
          /\ \A n \in DOMAIN sites[key] : sites[key][n].index < index

KeyAt(e, i) == key_of(e.postings[i])

\* The sites of the first k postings of e under `key`.
NewSites(e, index, k, key) ==
    {[index |-> index, posting |-> i] : i \in {j \in 1..k : KeyAt(e, j) = key}}

\* `now` is `sites` with the sites of the first k postings of `e` pushed.
Pushed(now, sites, e, index, k) ==
    /\ IsMap(now)
    /\ DOMAIN now = DOMAIN sites \cup {KeyAt(e, i) : i \in 1..k}
    /\ \A key \in DOMAIN now :
          /\ now[key] \in Seq(Site) /\ now[key] # <<>>
          /\ InLogOrder(now[key])
          /\ Elements(now[key]) = Elements(SitesOn(sites, key)) \cup NewSites(e, index, k, key)

\* One element more, in a sequence.
LEMMA Appended ==
    ASSUME NEW S, NEW q \in Seq(S), NEW x \in S
    PROVE  /\ Append(q, x) \in Seq(S) /\ Append(q, x) # <<>>
           /\ Len(q) \in Nat /\ DOMAIN q = 1..Len(q)
           /\ DOMAIN Append(q, x) = DOMAIN q \cup {Len(q) + 1}
           /\ \A n \in DOMAIN q : Append(q, x)[n] = q[n]
           /\ Append(q, x)[Len(q) + 1] = x
           /\ Elements(Append(q, x)) = Elements(q) \cup {x}
<1>1. /\ Append(q, x) \in Seq(S) /\ Append(q, x) # <<>>
      /\ Len(q) \in Nat /\ DOMAIN q = 1..Len(q)
      /\ DOMAIN Append(q, x) = DOMAIN q \cup {Len(q) + 1}
      /\ \A n \in DOMAIN q : Append(q, x)[n] = q[n]
      /\ Append(q, x)[Len(q) + 1] = x
  OBVIOUS
<1>2. Elements(Append(q, x)) = Elements(q) \cup {x}
  BY <1>1 DEF Elements
<1> QED BY <1>1, <1>2

\* One posting more keeps the sites exact and in log order.
LEMMA PushKeeps ==
    ASSUME NEW sites, NEW index \in Nat, SitesBelow(sites, index), NEW e, NEW k \in Nat,
           NEW now, Pushed(now, sites, e, index, k)
    PROVE  Pushed(PushStep([entry |-> e, index |-> index], now, k + 1), sites, e, index, k + 1)
<1> DEFINE K == KeyAt(e, k + 1)
           site == [index |-> index, posting |-> k + 1]
           q == SitesOn(now, K)
           new == Insert(now, K, Append(q, site))
<1>1. PushStep([entry |-> e, index |-> index], now, k + 1) = new
  BY DEF PushStep, KeyAt
<1>2. q \in Seq(Site) /\ site \in Site /\ InLogOrder(q)
      /\ Elements(q) = Elements(SitesOn(sites, K)) \cup NewSites(e, index, k, K)
  <2>1. site \in Site
    BY DEF Site
  <2>2. CASE K \in DOMAIN now
    BY <2>1, <2>2 DEF SitesOn, Pushed
  <2>3. CASE K \notin DOMAIN now
    <3>1. q = <<>> /\ SitesOn(sites, K) = <<>>
      BY <2>3 DEF SitesOn, Pushed
    <3>2. NewSites(e, index, k, K) = {}
      BY <2>3 DEF Pushed, NewSites
    <3>3. <<>> \in Seq(Site) /\ InLogOrder(<<>>) /\ Elements(<<>>) = {}
      BY DEF InLogOrder, Elements
    <3> HIDE DEF q, site
    <3> QED BY <2>1, <3>1, <3>2, <3>3
  <2> QED BY <2>2, <2>3
<1>3. \A s \in Elements(q) : Before(s, site)
  <2>1. ASSUME NEW s \in Elements(SitesOn(sites, K)) PROVE s.index < index
    BY DEF Elements, SitesOn, SitesBelow
  <2>2. ASSUME NEW s \in NewSites(e, index, k, K) PROVE s.index = index /\ s.posting < k + 1
    BY DEF NewSites
  <2> QED BY <1>2, <2>1, <2>2 DEF Before
<1>4. /\ Append(q, site) \in Seq(Site) /\ Append(q, site) # <<>>
      /\ Len(q) \in Nat /\ DOMAIN q = 1..Len(q)
      /\ DOMAIN Append(q, site) = DOMAIN q \cup {Len(q) + 1}
      /\ \A n \in DOMAIN q : Append(q, site)[n] = q[n]
      /\ Append(q, site)[Len(q) + 1] = site
      /\ Elements(Append(q, site)) = Elements(q) \cup {site}
  BY <1>2, Appended
<1>5. InLogOrder(Append(q, site))
  <2> SUFFICES ASSUME NEW m \in DOMAIN Append(q, site), NEW n \in DOMAIN Append(q, site), m < n
               PROVE  Before(Append(q, site)[m], Append(q, site)[n])
    BY DEF InLogOrder
  <2> HIDE DEF q, site
  <2>1. m \in DOMAIN q
    BY <1>4
  <2>2. CASE n \in DOMAIN q
    BY <1>2, <1>4, <2>1, <2>2 DEF InLogOrder
  <2>3. CASE n = Len(q) + 1
    BY <1>3, <1>4, <2>1, <2>3 DEF Elements
  <2> QED BY <1>4, <2>2, <2>3
<1>6. {KeyAt(e, i) : i \in 1..(k + 1)} = {KeyAt(e, i) : i \in 1..k} \cup {K}
  <2>1. 1..(k + 1) = (1..k) \cup {k + 1}
    OBVIOUS
  <2> QED BY <2>1
<1>7. ASSUME NEW key
      PROVE  NewSites(e, index, k + 1, key) =
                NewSites(e, index, k, key) \cup (IF key = K THEN {site} ELSE {})
  <2>1. 1..(k + 1) = (1..k) \cup {k + 1}
    OBVIOUS
  <2> QED BY <2>1 DEF NewSites
<1>8. /\ IsMap(new) /\ DOMAIN new = DOMAIN now \cup {K}
      /\ new[K] = Append(q, site)
      /\ \A key \in DOMAIN now : key # K => new[key] = now[key]
  BY DEF Insert, IsMap
<1> HIDE DEF new, q, site, K
<1>9. ASSUME NEW key \in DOMAIN new
      PROVE  /\ new[key] \in Seq(Site) /\ new[key] # <<>>
             /\ InLogOrder(new[key])
             /\ Elements(new[key]) = Elements(SitesOn(sites, key)) \cup NewSites(e, index, k + 1, key)
  <2>1. CASE key = K
    BY <1>2, <1>4, <1>5, <1>7, <1>8, <2>1
  <2>2. CASE key # K
    BY <1>7, <1>8, <2>2 DEF Pushed
  <2> QED BY <2>1, <2>2
<1> QED BY <1>1, <1>6, <1>8, <1>9 DEF Pushed

\* The loop over the postings, as a trace.
LEMMA PushTrace ==
    ASSUME NEW sites, NEW e, NEW S, e.postings \in Seq(S), NEW index
    PROVE  \E u : /\ u[0] = sites
                  /\ \A k \in 0..(Len(e.postings) - 1) :
                        u[k + 1] = PushStep([entry |-> e, index |-> index], u[k], k + 1)
                  /\ PushSites(sites, e, index) = u[Len(e.postings)]
<1> DEFINE order == [i \in DOMAIN e.postings |-> i]
           n == Len(e.postings)
           ctx == [entry |-> e, index |-> index]
<1>1. n \in Nat /\ DOMAIN order = 1..n /\ \A k \in 0..(n - 1) : order[k + 1] = k + 1
  OBVIOUS
<1>2. PushSites(sites, e, index) = Push!Fold(ctx, sites, order)
  BY PushIsFold
<1> HIDE DEF order, n, ctx
<1>3. PICK u : Push!IsTrace(u, ctx, sites, order, n) /\ Push!Fold(ctx, sites, order) = u[n]
  BY <1>1, Push!FoldTrace
<1>4. u[0] = sites /\ \A k \in 0..(n - 1) : u[k + 1] = PushStep(ctx, u[k], order[k + 1])
  BY <1>3 DEF Push!IsTrace
<1>5. \A k \in 0..(n - 1) : u[k + 1] = PushStep(ctx, u[k], k + 1)
  BY <1>1, <1>4
<1> QED BY <1>2, <1>3, <1>4, <1>5 DEF n, ctx

\* What PushSites leaves, after each posting and at the end.
LEMMA PushedAll ==
    ASSUME NEW sites, NEW index \in Nat, SitesBelow(sites, index),
           NEW e, NEW S, e.postings \in Seq(S)
    PROVE  \E u : /\ u[0] = sites
                  /\ \A k \in 0..(Len(e.postings) - 1) :
                        u[k + 1] = PushStep([entry |-> e, index |-> index], u[k], k + 1)
                  /\ PushSites(sites, e, index) = u[Len(e.postings)]
                  /\ \A k \in 0..Len(e.postings) : Pushed(u[k], sites, e, index, k)
<1> DEFINE n == Len(e.postings)
<1>1. PICK u : /\ u[0] = sites
               /\ \A k \in 0..(n - 1) :
                        u[k + 1] = PushStep([entry |-> e, index |-> index], u[k], k + 1)
               /\ PushSites(sites, e, index) = u[n]
  BY PushTrace
<1>2. n \in Nat
  OBVIOUS
<1> HIDE DEF n
<1> DEFINE T == {k \in Nat : Pushed(u[k], sites, e, index, k)}
<1>3. 0 \in T
  <2>1. \A key : NewSites(e, index, 0, key) = {}
    BY DEF NewSites
  <2>2. {KeyAt(e, i) : i \in 1..0} = {}
    OBVIOUS
  <2>3. Pushed(sites, sites, e, index, 0)
    BY <2>1, <2>2 DEF Pushed, SitesBelow, SitesOn
  <2> QED BY <1>1, <2>3
<1>4. ASSUME NEW k \in 0..(n - 1), k \in T PROVE k + 1 \in T
  BY <1>1, <1>4, PushKeeps
<1>5. \A k \in 0..n : k \in T
  <2> HIDE DEF T
  <2> QED BY <1>2, <1>3, <1>4, Push!BoundedInduction
<1> QED BY <1>1, <1>2, <1>5 DEF n

\* One posting more is one site more under its key, and none under another.
LEMMA PushOnKey ==
    ASSUME NEW sites, NEW e, NEW index, NEW k \in Nat, NEW now,
           Pushed(now, sites, e, index, k), NEW key
    PROVE  /\ SitesOn(now, key) \in Seq(Site)
           /\ SitesOn(PushStep([entry |-> e, index |-> index], now, k + 1), key) =
                IF key = KeyAt(e, k + 1)
                THEN Append(SitesOn(now, key), [index |-> index, posting |-> k + 1])
                ELSE SitesOn(now, key)
<1>1. SitesOn(now, key) \in Seq(Site)
  BY DEF Pushed, SitesOn
<1>2. SitesOn(PushStep([entry |-> e, index |-> index], now, k + 1), key) =
                IF key = KeyAt(e, k + 1)
                THEN Append(SitesOn(now, key), [index |-> index, posting |-> k + 1])
                ELSE SitesOn(now, key)
  BY DEF PushStep, Insert, SitesOn, KeyAt
<1> QED BY <1>1, <1>2

BalanceOver(books, size, q) == Balance!Fold([books |-> books, size |-> size], Balance_ZERO, q)

\* One site more counts if it is within the size.
LEMMA BalanceOverAppend ==
    ASSUME NEW books, NEW size, NEW q \in Seq(Site), NEW site
    PROVE  BalanceOver(books, size, Append(q, site)) =
              IF site.index <= size
              THEN add(BalanceOver(books, size, q), resolve(books, site))
              ELSE BalanceOver(books, size, q)
<1> DEFINE ctx == [books |-> books, size |-> size]
<1>1. Balance!Fold(ctx, Balance_ZERO, Append(q, site)) =
        BalanceStep(ctx, Balance!Fold(ctx, Balance_ZERO, q), site)
  <2> HIDE DEF ctx
  <2> QED BY Balance!FoldAppend
<1>2. ctx.books = books /\ ctx.size = size
  OBVIOUS
<1> QED BY <1>1, <1>2 DEF BalanceOver, BalanceStep

\* One site more is retained if it is within the mark.
LEMMA RetainAppend ==
    ASSUME NEW mark, NEW q \in Seq(Site), NEW site
    PROVE  retain(Append(q, site), mark) =
              IF site.index <= mark THEN Append(retain(q, mark), site) ELSE retain(q, mark)
<1>1. Retain!Fold(mark, <<>>, Append(q, site)) = RetainStep(mark, Retain!Fold(mark, <<>>, q), site)
  BY Retain!FoldAppend
<1> QED BY <1>1, RetainIsFold DEF RetainStep

\* Sites pushed for a later entry change neither a balance as of an earlier size
\* nor what is retained up to it.
LEMMA LaterSitesAreSkipped ==
    ASSUME NEW sites, NEW index \in Nat, SitesBelow(sites, index),
           NEW e, NEW S, e.postings \in Seq(S),
           NEW books, NEW size \in Nat, size < index, NEW key
    PROVE  /\ BalanceOver(books, size, SitesOn(PushSites(sites, e, index), key)) =
                 BalanceOver(books, size, SitesOn(sites, key))
           /\ retain(SitesOn(PushSites(sites, e, index), key), size) =
                 retain(SitesOn(sites, key), size)
<1> DEFINE n == Len(e.postings)
<1>1. PICK u : /\ u[0] = sites
               /\ \A k \in 0..(n - 1) :
                     u[k + 1] = PushStep([entry |-> e, index |-> index], u[k], k + 1)
               /\ PushSites(sites, e, index) = u[n]
               /\ \A k \in 0..n : Pushed(u[k], sites, e, index, k)
  BY PushedAll
<1>2. n \in Nat
  OBVIOUS
<1> HIDE DEF n
<1> DEFINE T == {k \in Nat :
                    /\ BalanceOver(books, size, SitesOn(u[k], key)) =
                          BalanceOver(books, size, SitesOn(sites, key))
                    /\ retain(SitesOn(u[k], key), size) = retain(SitesOn(sites, key), size)}
<1>3. 0 \in T
  BY <1>1
<1>4. ASSUME NEW k \in 0..(n - 1), k \in T PROVE k + 1 \in T
  <2> DEFINE site == [index |-> index, posting |-> k + 1]
             q == SitesOn(u[k], key)
  <2>1. k \in Nat /\ k + 1 \in Nat /\ k \in 0..n /\ Pushed(u[k], sites, e, index, k)
    BY <1>1, <1>2
  <2>2. q \in Seq(Site) /\ SitesOn(u[k + 1], key) = IF key = KeyAt(e, k + 1) THEN Append(q, site) ELSE q
    BY <1>1, <2>1, PushOnKey
  <2>3. ~(site.index <= size)
    OBVIOUS
  <2> HIDE DEF site, q
  <2>4. /\ BalanceOver(books, size, SitesOn(u[k + 1], key)) = BalanceOver(books, size, q)
        /\ retain(SitesOn(u[k + 1], key), size) = retain(q, size)
    BY <2>2, <2>3, BalanceOverAppend, RetainAppend
  <2> QED BY <1>4, <2>1, <2>4 DEF q
<1>5. \A k \in 0..n : k \in T
  <2> HIDE DEF T
  <2> QED BY <1>2, <1>3, <1>4, Push!BoundedInduction
<1> QED BY <1>1, <1>2, <1>5

\* The loop over the postings that applies them to the balances, as a trace.
LEMMA ApplyTrace ==
    ASSUME NEW tb, NEW S, NEW postings \in Seq(S)
    PROVE  \E v : /\ v[0] = tb
                  /\ \A k \in 0..(Len(postings) - 1) : v[k + 1] = apply(v[k], postings[k + 1])
                  /\ apply_all(tb, postings) = v[Len(postings)]
<1> DEFINE n == Len(postings)
<1>1. n \in Nat /\ DOMAIN postings = 1..n
  OBVIOUS
<1>2. apply_all(tb, postings) = Apply!Fold(0, tb, postings)
  BY ApplyIsFold
<1> HIDE DEF n
<1>3. PICK v : Apply!IsTrace(v, 0, tb, postings, n) /\ Apply!Fold(0, tb, postings) = v[n]
  BY <1>1, Apply!FoldTrace
<1>4. v[0] = tb /\ \A k \in 0..(n - 1) : v[k + 1] = apply(v[k], postings[k + 1])
  BY <1>3 DEF Apply!IsTrace, ApplyStep
<1> QED BY <1>2, <1>3, <1>4 DEF n

\* Sites and balances move together: if the balance of every key is the sum over
\* its sites before an entry is appended, it is so afterwards.
LEMMA SitesTellBalances ==
    ASSUME NEW sites, NEW index \in Nat, SitesBelow(sites, index),
           NEW e, NEW S, e.postings \in Seq(S),
           NEW books, books.entries[index] = e, NEW tb, IsMap(tb), DOMAIN tb = DOMAIN sites,
           \A key : BalanceOver(books, index, SitesOn(sites, key)) = get_or_zero(tb, key)
    PROVE  /\ IsMap(apply_all(tb, e.postings))
           /\ DOMAIN apply_all(tb, e.postings) = DOMAIN PushSites(sites, e, index)
           /\ \A key : BalanceOver(books, index, SitesOn(PushSites(sites, e, index), key)) =
                          get_or_zero(apply_all(tb, e.postings), key)
<1> DEFINE n == Len(e.postings)
<1>1. PICK u : /\ u[0] = sites
               /\ \A k \in 0..(n - 1) :
                     u[k + 1] = PushStep([entry |-> e, index |-> index], u[k], k + 1)
               /\ PushSites(sites, e, index) = u[n]
               /\ \A k \in 0..n : Pushed(u[k], sites, e, index, k)
  BY PushedAll
<1>2. PICK v : /\ v[0] = tb
               /\ \A k \in 0..(n - 1) : v[k + 1] = apply(v[k], e.postings[k + 1])
               /\ apply_all(tb, e.postings) = v[n]
  BY ApplyTrace
<1>3. n \in Nat
  OBVIOUS
<1> HIDE DEF n
<1> DEFINE T == {k \in Nat :
                    /\ IsMap(v[k]) /\ DOMAIN v[k] = DOMAIN u[k]
                    /\ \A key : BalanceOver(books, index, SitesOn(u[k], key)) =
                                   get_or_zero(v[k], key)}
<1>4. 0 \in T
  BY <1>1, <1>2
<1>5. ASSUME NEW k \in 0..(n - 1), k \in T PROVE k + 1 \in T
  <2> DEFINE K == KeyAt(e, k + 1)
             site == [index |-> index, posting |-> k + 1]
  <2>1. k \in Nat /\ k + 1 \in Nat /\ k \in 0..n /\ Pushed(u[k], sites, e, index, k)
    BY <1>1, <1>3
  <2>2. v[k + 1] = Insert(v[k], K, add(get_or_zero(v[k], K), e.postings[k + 1]))
    BY <1>2 DEF apply, KeyAt
  <2>3. IsMap(v[k + 1]) /\ DOMAIN v[k + 1] = DOMAIN v[k] \cup {K}
        /\ \A key : get_or_zero(v[k + 1], key) =
              IF key = K THEN add(get_or_zero(v[k], K), e.postings[k + 1]) ELSE get_or_zero(v[k], key)
    BY <2>2 DEF Insert, IsMap, get_or_zero
  <2>4. DOMAIN u[k + 1] = DOMAIN u[k] \cup {K}
    BY <1>1 DEF PushStep, Insert, KeyAt
  <2>5. ASSUME NEW key
        PROVE  BalanceOver(books, index, SitesOn(u[k + 1], key)) = get_or_zero(v[k + 1], key)
    <3> DEFINE q == SitesOn(u[k], key)
    <3>1. q \in Seq(Site) /\ SitesOn(u[k + 1], key) = IF key = K THEN Append(q, site) ELSE q
      BY <1>1, <2>1, PushOnKey
    <3>2. site.index <= index /\ resolve(books, site) = e.postings[k + 1]
      BY DEF resolve
    <3>3. BalanceOver(books, index, q) = get_or_zero(v[k], key)
      BY <1>5
    <3> HIDE DEF q, site, K
    <3>4. CASE key = K
      BY <2>3, <3>1, <3>2, <3>3, <3>4, BalanceOverAppend
    <3>5. CASE key # K
      BY <2>3, <3>1, <3>3, <3>5
    <3> QED BY <3>4, <3>5
  <2>6. DOMAIN v[k] = DOMAIN u[k]
    BY <1>5
  <2> QED BY <2>1, <2>3, <2>4, <2>5, <2>6
<1>6. \A k \in 0..n : k \in T
  <2> HIDE DEF T
  <2> QED BY <1>3, <1>4, <1>5, Push!BoundedInduction
<1>7. n \in T
  <2>1. n \in 0..n
    BY <1>3
  <2> HIDE DEF T
  <2> QED BY <1>6, <2>1
<1> QED BY <1>1, <1>2, <1>7

-----------------------------------------------------------------------------
(***************************************************************************)
(* Books whose derived parts are what the entries say.  E is the set the   *)
(* entries come from.                                                      *)
(***************************************************************************)
Sound(E) == \A e \in E : e.postings \in Seq(Posting) /\ Len(e.postings) <= MaxPostings

IsBooks(b) ==
    b = [entries |-> b.entries, log |-> b.log, by_id |-> b.by_id, by_key |-> b.by_key,
         reversed_by |-> b.reversed_by, balances |-> b.balances, sites |-> b.sites]

Indices(b) == DOMAIN b.entries

\* The indexes by identifier and by key.
IdsExact(b) ==
    /\ IsMap(b.by_id)
    /\ DOMAIN b.by_id = {b.entries[i].id : i \in Indices(b)}
    /\ \A i \in Indices(b) : b.by_id[b.entries[i].id] = i

KeysExact(b) ==
    /\ IsMap(b.by_key)
    /\ DOMAIN b.by_key = {b.entries[i].key : i \in Indices(b)}
    /\ \A i \in Indices(b) :
          b.by_key[b.entries[i].key] =
              [id |-> b.entries[i].id, index |-> i, content_hash |-> b.log[i]]

\* The reversal links: an entry is reversed once at most.
LinksExact(b) ==
    /\ IsMap(b.reversed_by)
    /\ DOMAIN b.reversed_by = {b.entries[i].reverses : i \in Indices(b)} \ {None}
    /\ \A i \in Indices(b) : b.entries[i].reverses # None =>
          /\ b.reversed_by[b.entries[i].reverses] = b.entries[i].id
          /\ \A j \in Indices(b) : b.entries[j].reverses = b.entries[i].reverses => j = i

\* The sites of the postings on `key`.
SitesFor(b, key) ==
    {s \in [index : Indices(b), posting : 1..MaxPostings] :
        s.posting \in DOMAIN b.entries[s.index].postings /\ key_of(resolve(b, s)) = key}

SitesExact(b) ==
    /\ IsMap(b.sites)
    /\ \A i \in Indices(b) : \A n \in DOMAIN b.entries[i].postings :
          KeyAt(b.entries[i], n) \in DOMAIN b.sites
    /\ \A key \in DOMAIN b.sites :
          /\ b.sites[key] \in Seq(Site) /\ b.sites[key] # <<>>
          /\ InLogOrder(b.sites[key])
          /\ Elements(b.sites[key]) = SitesFor(b, key)

\* The balances, and those as of every earlier size.
BalancesExact(b) ==
    /\ IsMap(b.balances)
    /\ DOMAIN b.balances = DOMAIN b.sites
    /\ TrialBalanceOf(b.entries) = b.balances
    /\ \A size \in 0..Len(b.entries) : \A key :
          balance_at(b, key, size) = get_or_zero(TrialBalanceOf(SubSeq(b.entries, 1, size)), key)

BooksInv(b, E) ==
    /\ IsBooks(b)
    /\ b.entries \in Seq(E)
    /\ verify_log(b)
    /\ IdsExact(b)
    /\ KeysExact(b)
    /\ LinksExact(b)
    /\ SitesExact(b)
    /\ BalancesExact(b)

\* What the rules of record_validated establish of a new entry.
IsFresh(b, e) ==
    /\ e.key \notin DOMAIN b.by_key
    /\ e.id \notin DOMAIN b.by_id
    /\ e.reverses # None => e.reverses \notin DOMAIN b.reversed_by

\* An entry that is new uses no identifier, key or reversal of another.
LEMMA NewIsFresh ==
    ASSUME NEW b, NEW accounts, NEW e, Outcome(b, accounts, e) = "New"
    PROVE  IsFresh(b, e)
<1>1. ~KeyIsUsed(b, e) /\ e.id \notin DOMAIN b.by_id /\ ~(e.reverses # None /\ ~ReversalHolds(b, e))
  BY DEF Outcome
<1> QED BY <1>1 DEF IsFresh, KeyIsUsed, ReversalHolds

\* The entries and the log after an append.
LEMMA AppendEntries ==
    ASSUME NEW E, NEW b, b.entries \in Seq(E), NEW e \in E
    PROVE  LET later == append(b, e)
               n     == Len(b.entries)
           IN  /\ IsBooks(later)
               /\ n \in Nat /\ Indices(b) = 1..n
               /\ later.entries = Append(b.entries, e)
               /\ later.entries \in Seq(E) /\ Len(later.entries) = n + 1
               /\ Indices(later) = Indices(b) \cup {n + 1} /\ n + 1 \notin Indices(b)
               /\ \A i \in Indices(b) : later.entries[i] = b.entries[i]
               /\ later.entries[n + 1] = e
  BY DEF append, IsBooks, Indices

\* The log after an append.
LEMMA AppendLog ==
    ASSUME NEW E, NEW b, b.entries \in Seq(E), NEW e \in E, verify_log(b)
    PROVE  LET later == append(b, e)
               n     == Len(b.entries)
           IN  /\ verify_log(later)
               /\ \A i \in Indices(b) : later.log[i] = b.log[i]
               /\ later.log[n + 1] = content_hash(e)
<1> DEFINE later == append(b, e)
           n == Len(b.entries)
           H == {content_hash(x) : x \in E}
<1>1. /\ n \in Nat /\ Indices(b) = 1..n /\ Len(later.entries) = n + 1
      /\ Indices(later) = 1..(n + 1)
      /\ \A i \in Indices(b) : later.entries[i] = b.entries[i]
      /\ later.entries[n + 1] = e
  BY AppendEntries DEF Indices
<1>2. later.log = Append(b.log, content_hash(e))
  BY DEF append
<1>3. b.log = [i \in 1..n |-> content_hash(b.entries[i])] /\ b.log \in Seq(H) /\ Len(b.log) = n
  <2>1. b.log = [i \in 1..n |-> content_hash(b.entries[i])]
    BY <1>1 DEF verify_log, Indices
  <2>2. \A i \in 1..n : content_hash(b.entries[i]) \in H
    BY <1>1
  <2> HIDE DEF H, n
  <2> QED BY <1>1, <2>1, <2>2
<1> HIDE DEF later, n, H
<1>4. /\ DOMAIN later.log = 1..(n + 1)
      /\ later.log[n + 1] = content_hash(e)
      /\ \A i \in 1..n : later.log[i] = b.log[i]
      /\ IsMap(later.log)
  BY <1>1, <1>2, <1>3 DEF IsMap
<1>5. \A i \in 1..(n + 1) : later.log[i] = content_hash(later.entries[i])
  BY <1>1, <1>3, <1>4
<1>6. later.log = [i \in 1..(n + 1) |-> content_hash(later.entries[i])]
  BY <1>4, <1>5 DEF IsMap
<1> QED BY <1>1, <1>4, <1>6 DEF verify_log, Indices, later, n

\* The indexes by identifier, key and reversal after an append.
LEMMA AppendIds ==
    ASSUME NEW E, NEW b, BooksInv(b, E), NEW e \in E, IsFresh(b, e)
    PROVE  IdsExact(append(b, e)) /\ KeysExact(append(b, e)) /\ LinksExact(append(b, e))
<1> DEFINE later == append(b, e)
           n == Len(b.entries)
<1>1. /\ Indices(later) = Indices(b) \cup {n + 1} /\ n + 1 \notin Indices(b)
      /\ \A i \in Indices(b) : later.entries[i] = b.entries[i]
      /\ later.entries[n + 1] = e
  <2>1. b.entries \in Seq(E)
    BY DEF BooksInv
  <2> QED BY <2>1, AppendEntries
<1>2. (\A i \in Indices(b) : later.log[i] = b.log[i]) /\ later.log[n + 1] = content_hash(e)
  <2>1. b.entries \in Seq(E) /\ verify_log(b)
    BY DEF BooksInv
  <2> QED BY <2>1, AppendLog
<1>3. /\ later.by_id = Insert(b.by_id, e.id, n + 1)
      /\ later.by_key = Insert(b.by_key, e.key,
                               [id |-> e.id, index |-> n + 1, content_hash |-> content_hash(e)])
      /\ later.reversed_by = IF e.reverses = None THEN b.reversed_by
                             ELSE Insert(b.reversed_by, e.reverses, e.id)
  BY DEF append
<1> HIDE DEF later, n
<1>4. IdsExact(later)
  BY <1>1, <1>3, SMTT(30) DEF IdsExact, BooksInv, IsFresh, Insert, IsMap
<1>5. KeysExact(later)
  BY <1>1, <1>2, <1>3, SMTT(30) DEF KeysExact, BooksInv, IsFresh, Insert, IsMap
<1>6. LinksExact(later)
  <2>1. CASE e.reverses = None
    BY <1>1, <1>3, <2>1 DEF LinksExact, BooksInv
  <2>2. CASE e.reverses # None
    BY <1>1, <1>3, <2>2, SMTT(30) DEF LinksExact, BooksInv, IsFresh, Insert, IsMap
  <2> QED BY <2>1, <2>2
<1> QED BY <1>4, <1>5, <1>6 DEF later

\* The sites under a key, also under one without any.
LEMMA SitesOnKey ==
    ASSUME NEW E, NEW b, BooksInv(b, E), NEW key
    PROVE  SitesOn(b.sites, key) \in Seq(Site) /\ Elements(SitesOn(b.sites, key)) = SitesFor(b, key)
<1>1. SitesExact(b)
  BY DEF BooksInv
<1>2. CASE key \in DOMAIN b.sites
  BY <1>1, <1>2 DEF SitesExact, SitesOn
<1>3. CASE key \notin DOMAIN b.sites
  <2>1. SitesOn(b.sites, key) = <<>>
    BY <1>3 DEF SitesOn
  <2>2. <<>> \in Seq(Site) /\ Elements(<<>>) = {}
    BY DEF Elements
  <2>3. SitesFor(b, key) = {}
    BY <1>1, <1>3 DEF SitesFor, SitesExact, KeyAt, resolve
  <2> QED BY <2>1, <2>2, <2>3
<1> QED BY <1>2, <1>3

\* A site resolves after an append to what it resolved to before.
LEMMA SitesKeepTheirPosting ==
    ASSUME NEW E, NEW b, BooksInv(b, E), NEW e \in E, NEW key, NEW s \in SitesFor(b, key)
    PROVE  s.index \in 1..Len(b.entries) /\ resolve(append(b, e), s) = resolve(b, s)
<1>1. b.entries \in Seq(E)
  BY DEF BooksInv
<1>2. Indices(b) = 1..Len(b.entries)
      /\ \A i \in Indices(b) : append(b, e).entries[i] = b.entries[i]
  BY <1>1, AppendEntries
<1> QED BY <1>2 DEF SitesFor, resolve

\* No site points past the entries.
LEMMA SitesAreEarlier ==
    ASSUME NEW E, NEW b, BooksInv(b, E)
    PROVE  SitesBelow(b.sites, Len(b.entries) + 1)
<1> DEFINE n == Len(b.entries)
<1>1. b.entries \in Seq(E) /\ SitesExact(b)
  BY DEF BooksInv
<1>2. n \in Nat /\ Indices(b) = 1..n
  BY <1>1 DEF Indices
<1> HIDE DEF n
<1>3. ASSUME NEW key \in DOMAIN b.sites, NEW m \in DOMAIN b.sites[key]
      PROVE  b.sites[key][m].index < n + 1
  <2>1. b.sites[key][m] \in SitesFor(b, key)
    BY <1>1 DEF Elements, SitesExact
  <2>2. b.sites[key][m].index \in 1..n
    BY <1>2, <2>1 DEF SitesFor
  <2> QED BY <1>2, <2>2
<1> QED BY <1>1, <1>3 DEF SitesBelow, SitesExact, n

\* Balances over sites that two books resolve alike.
LEMMA BalanceCongruent ==
    ASSUME NEW a, NEW b, NEW m, NEW n, NEW q \in Seq(Site),
           \A s \in Elements(q) : resolve(a, s) = resolve(b, s) /\ (s.index <= m <=> s.index <= n)
    PROVE  BalanceOver(a, m, q) = BalanceOver(b, n, q)
<1> DEFINE c == [books |-> a, size |-> m]
           d == [books |-> b, size |-> n]
<1>1. Len(q) \in Nat /\ DOMAIN q = 1..Len(q) /\ \A j \in 1..Len(q) : q[j] \in Elements(q)
  BY DEF Elements
<1>2. \A j \in 1..Len(q) : \A acc : BalanceStep(c, acc, q[j]) = BalanceStep(d, acc, q[j])
  BY <1>1 DEF BalanceStep
<1> HIDE DEF c, d
<1>3. Balance!Fold(c, Balance_ZERO, q) = Balance!Fold(d, Balance_ZERO, q)
  BY <1>1, <1>2, Balance!FoldCongruent
<1> QED BY <1>3 DEF BalanceOver, c, d

\* The sites after an append.
LEMMA AppendSites ==
    ASSUME NEW E, Sound(E), NEW b, BooksInv(b, E), NEW e \in E
    PROVE  SitesExact(append(b, e))
<1> DEFINE later == append(b, e)
           n == Len(b.entries)
           L == Len(e.postings)
<1>1. b.entries \in Seq(E) /\ SitesExact(b)
  BY DEF BooksInv
<1>2. /\ n \in Nat /\ Indices(b) = 1..n
      /\ Indices(later) = Indices(b) \cup {n + 1} /\ n + 1 \notin Indices(b)
      /\ \A i \in Indices(b) : later.entries[i] = b.entries[i]
      /\ later.entries[n + 1] = e
  BY <1>1, AppendEntries
<1>3. e.postings \in Seq(Posting) /\ L \in Nat /\ L <= MaxPostings /\ DOMAIN e.postings = 1..L
  BY DEF Sound
<1>4. SitesBelow(b.sites, n + 1) /\ n + 1 \in Nat
      /\ \A key : Elements(SitesOn(b.sites, key)) = SitesFor(b, key)
  BY <1>2, SitesAreEarlier, SitesOnKey
<1>5. later.sites = PushSites(b.sites, e, n + 1)
  BY DEF append
<1> HIDE DEF later, n, L
<1>6. Pushed(later.sites, b.sites, e, n + 1, L)
  <2>1. PICK u : /\ PushSites(b.sites, e, n + 1) = u[L]
                 /\ \A k \in 0..L : Pushed(u[k], b.sites, e, n + 1, k)
    BY <1>3, <1>4, PushedAll DEF L
  <2>2. L \in 0..L
    BY <1>3
  <2> QED BY <1>5, <2>1, <2>2
<1>7. ASSUME NEW key PROVE SitesFor(later, key) = SitesFor(b, key) \cup NewSites(e, n + 1, L, key)
  <2>1. ASSUME NEW s \in SitesFor(later, key)
        PROVE  s \in SitesFor(b, key) \cup NewSites(e, n + 1, L, key)
    <3>1. /\ s \in [index : Indices(later), posting : 1..MaxPostings]
          /\ s.posting \in DOMAIN later.entries[s.index].postings
          /\ key_of(later.entries[s.index].postings[s.posting]) = key
      BY DEF SitesFor, resolve
    <3>2. CASE s.index \in Indices(b)
      BY <1>2, <3>1, <3>2 DEF SitesFor, resolve
    <3>3. CASE s.index = n + 1
      <4>1. s.posting \in 1..L /\ KeyAt(e, s.posting) = key
        BY <1>2, <1>3, <3>1, <3>3 DEF KeyAt
      <4>2. s = [index |-> n + 1, posting |-> s.posting]
        BY <3>1, <3>3
      <4> QED BY <4>1, <4>2 DEF NewSites
    <3> QED BY <1>2, <3>1, <3>2, <3>3
  <2>2. ASSUME NEW s \in SitesFor(b, key) PROVE s \in SitesFor(later, key)
    BY <1>2 DEF SitesFor, resolve
  <2>3. ASSUME NEW s \in NewSites(e, n + 1, L, key) PROVE s \in SitesFor(later, key)
    <3>1. PICK i \in 1..L : KeyAt(e, i) = key /\ s = [index |-> n + 1, posting |-> i]
      BY DEF NewSites
    <3>2. i \in 1..MaxPostings
      BY <1>3, BoundsArePositive
    <3> QED BY <1>2, <1>3, <3>1, <3>2 DEF SitesFor, resolve, KeyAt
  <2> QED BY <2>1, <2>2, <2>3
<1>8. \A i \in Indices(later) : \A m \in DOMAIN later.entries[i].postings :
          KeyAt(later.entries[i], m) \in DOMAIN later.sites
  BY <1>1, <1>2, <1>3, <1>6 DEF SitesExact, Pushed
<1>9. \A key \in DOMAIN later.sites :
          /\ later.sites[key] \in Seq(Site) /\ later.sites[key] # <<>>
          /\ InLogOrder(later.sites[key])
          /\ Elements(later.sites[key]) = SitesFor(later, key)
  BY <1>4, <1>6, <1>7 DEF Pushed
<1> QED BY <1>6, <1>8, <1>9 DEF SitesExact, Pushed, later

\* The balances after an append.
LEMMA AppendBalances ==
    ASSUME NEW E, Sound(E), NEW b, BooksInv(b, E), NEW e \in E
    PROVE  BalancesExact(append(b, e))
<1> DEFINE later == append(b, e)
           n == Len(b.entries)
<1>1. b.entries \in Seq(E) /\ BalancesExact(b) /\ SitesExact(b)
  BY DEF BooksInv
<1>2. /\ n \in Nat /\ n + 1 \in Nat /\ Len(later.entries) = n + 1
      /\ later.entries = Append(b.entries, e) /\ later.entries \in Seq(E)
      /\ later.entries[n + 1] = e
  <2>1. later.entries = Append(b.entries, e)
    BY DEF append
  <2> HIDE DEF later
  <2> QED BY <1>1, <2>1
<1>3. e.postings \in Seq(Posting)
  BY DEF Sound
<1>4. /\ SitesBelow(b.sites, n + 1)
      /\ \A key :
           /\ SitesOn(b.sites, key) \in Seq(Site)
           /\ \A s \in Elements(SitesOn(b.sites, key)) :
                 s.index \in 1..n /\ resolve(later, s) = resolve(b, s)
  <2>1. SitesBelow(b.sites, n + 1)
    BY SitesAreEarlier
  <2>2. ASSUME NEW key
        PROVE  SitesOn(b.sites, key) \in Seq(Site) /\ Elements(SitesOn(b.sites, key)) = SitesFor(b, key)
    BY SitesOnKey
  <2>3. ASSUME NEW key, NEW s \in SitesFor(b, key)
        PROVE  s.index \in 1..n /\ resolve(later, s) = resolve(b, s)
    BY SitesKeepTheirPosting
  <2> HIDE DEF n, later
  <2> QED BY <2>1, <2>2, <2>3
<1>5. later.sites = PushSites(b.sites, e, n + 1) /\ later.balances = apply_all(b.balances, e.postings)
  BY DEF append
<1>6. SubSeq(b.entries, 1, n) = b.entries /\ SubSeq(later.entries, 1, n + 1) = later.entries
      /\ \A size \in 0..n : SubSeq(later.entries, 1, size) = SubSeq(b.entries, 1, size)
  BY <1>1, <1>2
<1> HIDE DEF later, n
<1>7. ASSUME NEW key
      PROVE  BalanceOver(later, n + 1, SitesOn(b.sites, key)) = get_or_zero(b.balances, key)
  <2>1. BalanceOver(later, n + 1, SitesOn(b.sites, key)) = BalanceOver(b, n, SitesOn(b.sites, key))
    <3>1. \A s \in Elements(SitesOn(b.sites, key)) :
             resolve(later, s) = resolve(b, s) /\ (s.index <= n + 1 <=> s.index <= n)
      BY <1>2, <1>4
    <3> QED BY <1>4, <3>1, BalanceCongruent
  <2>2. BalanceOver(b, n, SitesOn(b.sites, key)) = balance_at(b, key, n)
    BY BalanceIsFold DEF BalanceOver
  <2>3. balance_at(b, key, n) = get_or_zero(b.balances, key)
    <3>1. n \in 0..Len(b.entries)
      BY <1>2 DEF n
    <3> QED BY <1>1, <1>6, <3>1 DEF BalancesExact
  <2> QED BY <2>1, <2>2, <2>3
<1>8. /\ IsMap(later.balances)
      /\ DOMAIN later.balances = DOMAIN later.sites
      /\ \A key : BalanceOver(later, n + 1, SitesOn(later.sites, key)) = get_or_zero(later.balances, key)
  <2>1. IsMap(b.balances) /\ DOMAIN b.balances = DOMAIN b.sites
    BY <1>1 DEF BalancesExact
  <2> DEFINE S == Posting
  <2>2. e.postings \in Seq(S) /\ later.entries[n + 1] = e /\ n + 1 \in Nat
    BY <1>2, <1>3
  <2> HIDE DEF S
  <2>3. /\ IsMap(apply_all(b.balances, e.postings))
        /\ DOMAIN apply_all(b.balances, e.postings) = DOMAIN PushSites(b.sites, e, n + 1)
        /\ \A key : BalanceOver(later, n + 1, SitesOn(PushSites(b.sites, e, n + 1), key)) =
                       get_or_zero(apply_all(b.balances, e.postings), key)
    BY <1>4, <1>7, <2>1, <2>2, SitesTellBalances
  <2> QED BY <1>5, <2>3
<1>9. TrialBalanceOf(later.entries) = later.balances
  <2>1. Trial!Fold(0, EmptyMap, Append(b.entries, e)) =
          TrialStep(0, Trial!Fold(0, EmptyMap, b.entries), e)
    BY <1>1, Trial!FoldAppend
  <2>2. TrialBalanceOf(later.entries) = apply_all(TrialBalanceOf(b.entries), e.postings)
    BY <1>2, <2>1, TrialIsFold DEF TrialStep
  <2> QED BY <1>1, <1>5, <2>2 DEF BalancesExact
<1>10. ASSUME NEW size \in 0..(n + 1), NEW key
       PROVE  balance_at(later, key, size) =
                get_or_zero(TrialBalanceOf(SubSeq(later.entries, 1, size)), key)
  <2>1. balance_at(later, key, size) = BalanceOver(later, size, SitesOn(later.sites, key))
    BY BalanceIsFold DEF BalanceOver
  <2>2. CASE size = n + 1
    BY <1>6, <1>8, <1>9, <2>1, <2>2
  <2>3. CASE size # n + 1
    <3>1. size \in 0..n /\ size \in Nat /\ size < n + 1
      BY <1>2, <2>3
    <3>2. BalanceOver(later, size, SitesOn(later.sites, key)) =
            BalanceOver(later, size, SitesOn(b.sites, key))
      BY <1>2, <1>3, <1>4, <1>5, <3>1, LaterSitesAreSkipped
    <3>3. BalanceOver(later, size, SitesOn(b.sites, key)) = BalanceOver(b, size, SitesOn(b.sites, key))
      BY <1>4, BalanceCongruent
    <3>4. BalanceOver(b, size, SitesOn(b.sites, key)) = balance_at(b, key, size)
      BY BalanceIsFold DEF BalanceOver
    <3>5. balance_at(b, key, size) = get_or_zero(TrialBalanceOf(SubSeq(b.entries, 1, size)), key)
      BY <1>1, <3>1 DEF BalancesExact, n
    <3> QED BY <1>6, <2>1, <3>1, <3>2, <3>3, <3>4, <3>5
  <2> QED BY <2>2, <2>3
<1>11. Len(later.entries) = n + 1
  BY <1>2
<1> QED BY <1>8, <1>9, <1>10, <1>11 DEF BalancesExact, later

\* append keeps everything exact.
LEMMA AppendKeeps ==
    ASSUME NEW E, Sound(E), NEW b, BooksInv(b, E), NEW e \in E, IsFresh(b, e)
    PROVE  BooksInv(append(b, e), E)
<1>1. b.entries \in Seq(E) /\ verify_log(b)
  BY DEF BooksInv
<1>2. IsBooks(append(b, e)) /\ append(b, e).entries \in Seq(E)
  BY <1>1, AppendEntries
<1>3. verify_log(append(b, e))
  BY <1>1, AppendLog
<1> QED BY <1>2, <1>3, AppendIds, AppendSites, AppendBalances DEF BooksInv

-----------------------------------------------------------------------------
(***************************************************************************)
(* Rolling back.                                                           *)
(***************************************************************************)
\* Retaining sites that are all within the mark retains them all.
LEMMA RetainAll ==
    ASSUME NEW q \in Seq(Site), NEW mark, \A s \in Elements(q) : s.index <= mark
    PROVE  retain(q, mark) = q
<1> DEFINE n == Len(q)
<1>1. n \in Nat /\ DOMAIN q = 1..n /\ SubSeq(q, 1, 0) = <<>> /\ SubSeq(q, 1, n) = q
  OBVIOUS
<1>2. PICK t : Retain!IsTrace(t, mark, <<>>, q, n) /\ Retain!Fold(mark, <<>>, q) = t[n]
  BY <1>1, Retain!FoldTrace
<1>3. t[0] = <<>> /\ \A j \in 0..(n - 1) : t[j + 1] = RetainStep(mark, t[j], q[j + 1])
  BY <1>2 DEF Retain!IsTrace
<1> DEFINE T == {j \in Nat : t[j] = SubSeq(q, 1, j)}
<1>4. 0 \in T
  BY <1>1, <1>3
<1>5. ASSUME NEW j \in 0..(n - 1), j \in T PROVE j + 1 \in T
  <2>1. j + 1 \in 1..n /\ j + 1 \in Nat
    BY <1>1
  <2>2. q[j + 1].index <= mark
    BY <1>1, <2>1 DEF Elements
  <2>3. t[j + 1] = Append(SubSeq(q, 1, j), q[j + 1])
    BY <1>3, <1>5, <2>2 DEF RetainStep
  <2>4. Append(SubSeq(q, 1, j), q[j + 1]) = SubSeq(q, 1, j + 1)
    BY <2>1
  <2> QED BY <2>1, <2>3, <2>4
<1>6. \A j \in 0..n : j \in T
  <2> HIDE DEF T
  <2> QED BY <1>1, <1>4, <1>5, Retain!BoundedInduction
<1>7. t[n] = q
  BY <1>1, <1>6
<1> QED BY <1>2, <1>7, RetainIsFold

\* `b` has the entries of `a` and more, and the sites of `a` up to there.
Grew(b, a) ==
    /\ Len(a.entries) <= Len(b.entries)
    /\ SubSeq(b.entries, 1, Len(a.entries)) = a.entries
    /\ \A key : retain(SitesOn(b.sites, key), Len(a.entries)) = SitesOn(a.sites, key)

\* The entries two such books share.
LEMMA GrewEntries ==
    ASSUME NEW E, NEW b, BooksInv(b, E), NEW a, BooksInv(a, E), Grew(b, a)
    PROVE  LET m == Len(a.entries)
               n == Len(b.entries)
           IN  /\ m \in Nat /\ n \in Nat /\ m <= n
               /\ Indices(a) = 1..m /\ Indices(b) = 1..n
               /\ \A i \in 1..m : i \in 1..n /\ b.entries[i] = a.entries[i]
               /\ \A i \in 1..n : i \in 1..m \/ i \in (m + 1)..n
               /\ \A i \in (m + 1)..n : i \in 1..n /\ i \notin 1..m
<1> DEFINE m == Len(a.entries)
           n == Len(b.entries)
<1>1. b.entries \in Seq(E) /\ a.entries \in Seq(E)
  BY DEF BooksInv
<1>2. m <= n /\ SubSeq(b.entries, 1, m) = a.entries
  BY DEF Grew
<1>3. m \in Nat /\ n \in Nat /\ DOMAIN a.entries = 1..m /\ DOMAIN b.entries = 1..n
  BY <1>1
<1>4. \A i \in 1..m : SubSeq(b.entries, 1, m)[i] = b.entries[i]
  BY <1>1, <1>2, <1>3
<1> QED BY <1>2, <1>3, <1>4 DEF Indices

\* Taking the images of Q away leaves the images of P, where none is shared.
LEMMA ImagesPart ==
    ASSUME NEW P, NEW Q, NEW F, \A i, j \in P \cup Q : F[i] = F[j] => i = j, P \cap Q = {}
    PROVE  {F[i] : i \in P \cup Q} \ {F[i] : i \in Q} = {F[i] : i \in P}
  OBVIOUS

\* What rollback_to leaves of the log and of the three indexes.
LEMMA RollbackIndexes ==
    ASSUME NEW E, NEW b, BooksInv(b, E), NEW a, BooksInv(a, E), Grew(b, a)
    PROVE  LET m == Len(a.entries)
               undone == Undone(b, m)
           IN  /\ SubSeq(b.log, 1, m) = a.log
               /\ Without(b.by_id, {e.id : e \in undone}) = a.by_id
               /\ keys_after(b, m) = a.by_key
               /\ Without(b.reversed_by, {e.reverses : e \in undone}) = a.reversed_by
<1> DEFINE m == Len(a.entries)
           n == Len(b.entries)
           undone == Undone(b, m)
<1>1. /\ m \in Nat /\ n \in Nat /\ m <= n
      /\ Indices(a) = 1..m /\ Indices(b) = 1..n
      /\ \A i \in 1..m : i \in 1..n /\ b.entries[i] = a.entries[i]
      /\ \A i \in 1..n : i \in 1..m \/ i \in (m + 1)..n
      /\ \A i \in (m + 1)..n : i \in 1..n /\ i \notin 1..m
  BY GrewEntries
<1>2. undone = {b.entries[i] : i \in (m + 1)..n}
  BY DEF Undone
<1> HIDE DEF m, n, undone
<1>3. /\ b.log = [i \in 1..n |-> content_hash(b.entries[i])]
      /\ a.log = [i \in 1..m |-> content_hash(a.entries[i])]
  BY <1>1 DEF BooksInv, verify_log, Indices
<1>4. SubSeq(b.log, 1, m) = a.log
  <2> DEFINE H == {content_hash(b.entries[i]) : i \in 1..n}
  <2>1. b.log \in [1..n -> H]
    BY <1>3
  <2> HIDE DEF H
  <2>2. b.log \in Seq(H) /\ Len(b.log) = n
    BY <1>1, <2>1
  <2>3. SubSeq(b.log, 1, m) = [i \in 1..m |-> b.log[i]]
    BY <1>1, <2>2
  <2> QED BY <1>1, <1>3, <2>3
<1>5. Without(b.by_id, {e.id : e \in undone}) = a.by_id
  <2>1. IdsExact(a) /\ IdsExact(b)
    BY DEF BooksInv
  <2>2. DOMAIN b.by_id \ {e.id : e \in undone} = DOMAIN a.by_id
    <3>1. \A i, j \in 1..n : b.entries[i].id = b.entries[j].id => i = j
      BY <1>1, <2>1 DEF IdsExact
    <3>2. DOMAIN b.by_id = {b.entries[i].id : i \in 1..n}
          /\ DOMAIN a.by_id = {a.entries[i].id : i \in 1..m}
      BY <1>1, <2>1 DEF IdsExact
    <3>3. {e.id : e \in undone} = {b.entries[i].id : i \in (m + 1)..n}
      BY <1>2
    <3> DEFINE F == [i \in 1..n |-> b.entries[i].id]
    <3>4. 1..n = 1..m \cup (m + 1)..n /\ 1..m \cap (m + 1)..n = {}
      BY <1>1
    <3>5. \A i, j \in 1..n : F[i] = F[j] => i = j
      BY <3>1
    <3>6. /\ {b.entries[i].id : i \in 1..n} = {F[i] : i \in 1..n}
          /\ {b.entries[i].id : i \in (m + 1)..n} = {F[i] : i \in (m + 1)..n}
          /\ {a.entries[i].id : i \in 1..m} = {F[i] : i \in 1..m}
      BY <1>1
    <3> HIDE DEF F
    <3>7. {F[i] : i \in 1..n} \ {F[i] : i \in (m + 1)..n} = {F[i] : i \in 1..m}
      BY <3>4, <3>5, ImagesPart
    <3> QED BY <3>2, <3>3, <3>6, <3>7
  <2>3. \A k \in DOMAIN a.by_id : b.by_id[k] = a.by_id[k]
    BY <1>1, <2>1 DEF IdsExact
  <2> QED BY <2>1, <2>2, <2>3 DEF Without, IdsExact, IsMap
<1>6. keys_after(b, m) = a.by_key
  <2>1. KeysExact(a) /\ KeysExact(b)
    BY DEF BooksInv
  <2>2. ASSUME NEW i \in 1..n, NEW j \in 1..n, b.entries[i].key = b.entries[j].key
        PROVE  i = j
    <3>1. ASSUME NEW k \in 1..n PROVE b.by_key[b.entries[k].key].index = k
      <4>1. b.by_key[b.entries[k].key] =
              [id |-> b.entries[k].id, index |-> k, content_hash |-> b.log[k]]
        BY <1>1, <2>1 DEF KeysExact
      <4> QED BY <4>1
    <3> QED BY <2>2, <3>1
  <2>3. DOMAIN b.by_key \ {e.key : e \in undone} = DOMAIN a.by_key
    <3>1. DOMAIN b.by_key = {b.entries[i].key : i \in 1..n}
          /\ DOMAIN a.by_key = {a.entries[i].key : i \in 1..m}
      BY <1>1, <2>1 DEF KeysExact
    <3>2. {e.key : e \in undone} = {b.entries[i].key : i \in (m + 1)..n}
      BY <1>2
    <3> DEFINE F == [i \in 1..n |-> b.entries[i].key]
    <3>4. 1..n = 1..m \cup (m + 1)..n /\ 1..m \cap (m + 1)..n = {}
      BY <1>1
    <3>5. \A i, j \in 1..n : F[i] = F[j] => i = j
      BY <2>2
    <3>6. /\ {b.entries[i].key : i \in 1..n} = {F[i] : i \in 1..n}
          /\ {b.entries[i].key : i \in (m + 1)..n} = {F[i] : i \in (m + 1)..n}
          /\ {a.entries[i].key : i \in 1..m} = {F[i] : i \in 1..m}
      BY <1>1
    <3> HIDE DEF F
    <3>7. {F[i] : i \in 1..n} \ {F[i] : i \in (m + 1)..n} = {F[i] : i \in 1..m}
      BY <3>4, <3>5, ImagesPart
    <3> QED BY <3>1, <3>2, <3>6, <3>7
  <2>4. \A i \in 1..m : a.log[i] = b.log[i]
    BY <1>1, <1>3
  <2>5. ASSUME NEW k \in DOMAIN a.by_key PROVE b.by_key[k] = a.by_key[k]
    <3>1. PICK i \in 1..m : k = a.entries[i].key
      BY <1>1, <2>1 DEF KeysExact
    <3>2. b.by_key[b.entries[i].key] =
            [id |-> b.entries[i].id, index |-> i, content_hash |-> b.log[i]]
      BY <1>1, <2>1 DEF KeysExact
    <3>3. a.by_key[a.entries[i].key] =
            [id |-> a.entries[i].id, index |-> i, content_hash |-> a.log[i]]
      BY <1>1, <2>1 DEF KeysExact
    <3> QED BY <1>1, <2>4, <3>1, <3>2, <3>3
  <2>6. keys_after(b, m) = [k \in DOMAIN a.by_key |-> b.by_key[k]]
    BY <2>3 DEF keys_after, Without, undone
  <2> QED BY <2>1, <2>5, <2>6 DEF KeysExact, IsMap
<1>7. Without(b.reversed_by, {e.reverses : e \in undone}) = a.reversed_by
  <2>1. LinksExact(a) /\ LinksExact(b)
    BY DEF BooksInv
  <2>2. DOMAIN b.reversed_by \ {e.reverses : e \in undone} = DOMAIN a.reversed_by
    BY <1>1, <1>2, <2>1 DEF LinksExact
  <2>3. \A k \in DOMAIN a.reversed_by : b.reversed_by[k] = a.reversed_by[k]
    BY <1>1, <2>1, SMTT(30) DEF LinksExact
  <2> QED BY <2>1, <2>2, <2>3 DEF Without, LinksExact, IsMap
<1> QED BY <1>4, <1>5, <1>6, <1>7 DEF m, undone

\* The sites of the earlier books are those of the later ones up to there, and
\* the keys the undone entries touch are those with a site beyond.
LEMMA GrewSites ==
    ASSUME NEW E, Sound(E), NEW b, BooksInv(b, E), NEW a, BooksInv(a, E), Grew(b, a), NEW key
    PROVE  LET m == Len(a.entries)
           IN  /\ SitesFor(a, key) = {s \in SitesFor(b, key) : s.index <= m}
               /\ key \in Touched(b, m) <=> \E s \in SitesFor(b, key) : s.index > m
               /\ \A s \in SitesFor(b, key) : s.index \in Nat
<1> DEFINE m == Len(a.entries)
           n == Len(b.entries)
<1>1. /\ m \in Nat /\ n \in Nat /\ m <= n
      /\ Indices(a) = 1..m /\ Indices(b) = 1..n
      /\ \A i \in 1..m : i \in 1..n /\ b.entries[i] = a.entries[i]
      /\ \A i \in 1..n : i \in 1..m \/ i \in (m + 1)..n
      /\ \A i \in (m + 1)..n : i \in 1..n /\ i \notin 1..m
  BY GrewEntries
<1>2. Touched(b, m) =
        UNION {{key_of(b.entries[i].postings[k]) : k \in DOMAIN b.entries[i].postings} :
                  i \in (m + 1)..n}
  BY DEF Touched, Undone
<1>3. \A i \in 1..n : DOMAIN b.entries[i].postings \subseteq 1..MaxPostings
  <2>1. \A i \in 1..n : b.entries[i] \in E
    <3>1. b.entries \in Seq(E)
      BY DEF BooksInv
    <3> QED BY <3>1
  <2> HIDE DEF n
  <2>2. ASSUME NEW i \in 1..n PROVE DOMAIN b.entries[i].postings \subseteq 1..MaxPostings
    <3> DEFINE q == b.entries[i].postings
    <3>1. q \in Seq(Posting) /\ Len(q) <= MaxPostings
      BY <2>1 DEF Sound
    <3> HIDE DEF q
    <3>2. DOMAIN q \subseteq 1..MaxPostings
      BY <3>1, BoundsArePositive
    <3> QED BY <3>2 DEF q
  <2> QED BY <2>2
<1> HIDE DEF m, n
<1>4. SitesFor(a, key) = {s \in SitesFor(b, key) : s.index <= m}
  <2>1. ASSUME NEW s \in SitesFor(a, key) PROVE s \in SitesFor(b, key) /\ s.index <= m
    BY <1>1 DEF SitesFor, resolve
  <2>2. ASSUME NEW s \in SitesFor(b, key), s.index <= m PROVE s \in SitesFor(a, key)
    <3>1. s \in [index : 1..n, posting : 1..MaxPostings] /\ s.index \in 1..m
      BY <1>1, <2>2 DEF SitesFor
    <3> QED BY <1>1, <3>1 DEF SitesFor, resolve
  <2> QED BY <2>1, <2>2
<1>5. ASSUME key \in Touched(b, m) PROVE \E s \in SitesFor(b, key) : s.index > m
  <2>1. PICK i \in (m + 1)..n :
             key \in {key_of(b.entries[i].postings[k]) : k \in DOMAIN b.entries[i].postings}
    BY <1>2, <1>5
  <2>2. PICK k \in DOMAIN b.entries[i].postings : key = key_of(b.entries[i].postings[k])
    BY <2>1
  <2> DEFINE s == [index |-> i, posting |-> k]
  <2>3. i \in 1..n /\ k \in 1..MaxPostings /\ i > m
    BY <1>1, <1>3, <2>2
  <2>4. s \in SitesFor(b, key)
    BY <1>1, <2>2, <2>3 DEF SitesFor, resolve
  <2>5. s.index > m
    BY <2>3
  <2> QED BY <2>4, <2>5
<1>6. ASSUME NEW s \in SitesFor(b, key), s.index > m PROVE key \in Touched(b, m)
  <2>1. /\ s.index \in (m + 1)..n /\ s.posting \in DOMAIN b.entries[s.index].postings
        /\ key = key_of(b.entries[s.index].postings[s.posting])
    BY <1>1, <1>6 DEF SitesFor, resolve
  <2> QED BY <1>2, <2>1
<1>7. \A s \in SitesFor(b, key) : s.index \in Nat
  BY <1>1 DEF SitesFor
<1> QED BY <1>4, <1>5, <1>6, <1>7 DEF m

\* What rollback_to leaves of the sites.
LEMMA RollbackSites ==
    ASSUME NEW E, Sound(E), NEW b, BooksInv(b, E), NEW a, BooksInv(a, E), Grew(b, a)
    PROVE  LET m == Len(a.entries)
           IN  /\ DOMAIN b.sites \ Emptied(b, m) = DOMAIN a.sites
               /\ sites_after(b, m) = a.sites
<1> DEFINE m == Len(a.entries)
<1>1. SitesExact(a) /\ SitesExact(b)
  BY DEF BooksInv
<1>2. ASSUME NEW key
      PROVE  /\ SitesFor(a, key) = {s \in SitesFor(b, key) : s.index <= m}
             /\ key \in Touched(b, m) <=> \E s \in SitesFor(b, key) : s.index > m
             /\ \A s \in SitesFor(b, key) : s.index \in Nat
  BY GrewSites
<1>3. m \in Nat
  BY GrewEntries
<1>4. \A key : retain(SitesOn(b.sites, key), m) = SitesOn(a.sites, key)
  BY DEF Grew
<1> HIDE DEF m
<1>5. ASSUME NEW key
      PROVE  /\ key \in DOMAIN a.sites <=> SitesFor(a, key) # {}
             /\ key \in DOMAIN b.sites <=> SitesFor(b, key) # {}
  <2>1. ASSUME NEW c, SitesExact(c) PROVE key \in DOMAIN c.sites <=> SitesFor(c, key) # {}
    <3>1. ASSUME key \in DOMAIN c.sites PROVE SitesFor(c, key) # {}
      <4>1. c.sites[key] \in Seq(Site) /\ c.sites[key] # <<>>
            /\ Elements(c.sites[key]) = SitesFor(c, key)
        BY <2>1, <3>1 DEF SitesExact
      <4>2. 1 \in DOMAIN c.sites[key]
        BY <4>1
      <4> QED BY <4>1, <4>2 DEF Elements
    <3>2. ASSUME NEW s \in SitesFor(c, key) PROVE key \in DOMAIN c.sites
      BY <2>1 DEF SitesExact, SitesFor, KeyAt, resolve
    <3> QED BY <3>1, <3>2
  <2> QED BY <1>1, <2>1
<1>6. ASSUME NEW key \in DOMAIN b.sites
      PROVE  /\ b.sites[key] \in Seq(Site)
             /\ Elements(b.sites[key]) = SitesFor(b, key)
             /\ SitesOn(b.sites, key) = b.sites[key]
  BY <1>1 DEF SitesExact, SitesOn
<1>7. ASSUME NEW key \in DOMAIN b.sites
      PROVE  key \in Emptied(b, m) <=> SitesFor(a, key) = {}
  <2>1. key \in Emptied(b, m) <=>
          key \in Touched(b, m) /\ \A s \in SitesFor(b, key) : s.index > m
    BY <1>6 DEF Emptied, Elements
  <2>2. SitesFor(b, key) # {}
    BY <1>5
  <2>3. \A s \in SitesFor(b, key) : s.index > m <=> ~(s.index <= m)
    BY <1>2, <1>3
  <2> QED BY <1>2, <2>1, <2>2, <2>3
<1>8. DOMAIN b.sites \ Emptied(b, m) = DOMAIN a.sites
  <2>1. ASSUME NEW key PROVE key \in DOMAIN a.sites => key \in DOMAIN b.sites
    BY <1>2, <1>5
  <2> QED BY <1>5, <1>7, <2>1
<1>9. ASSUME NEW key \in DOMAIN a.sites
      PROVE  (IF key \in Touched(b, m) THEN retain(b.sites[key], m) ELSE b.sites[key]) = a.sites[key]
  <2>1. key \in DOMAIN b.sites /\ SitesOn(a.sites, key) = a.sites[key]
    BY <1>8 DEF SitesOn
  <2>2. retain(b.sites[key], m) = a.sites[key]
    BY <1>4, <1>6, <2>1
  <2>3. CASE key \notin Touched(b, m)
    <3>1. \A s \in Elements(b.sites[key]) : s.index <= m
      BY <1>2, <1>3, <1>6, <2>1, <2>3
    <3>2. retain(b.sites[key], m) = b.sites[key]
      BY <1>6, <2>1, <3>1, RetainAll
    <3> QED BY <2>2, <2>3, <3>2
  <2> QED BY <2>2, <2>3
<1>10. sites_after(b, m) = [key \in DOMAIN a.sites |-> a.sites[key]]
  BY <1>8, <1>9 DEF sites_after
<1>11. a.sites = [key \in DOMAIN a.sites |-> a.sites[key]]
  BY <1>1 DEF SitesExact, IsMap
<1> QED BY <1>8, <1>10, <1>11 DEF m

\* What rollback_to leaves of the balances.
LEMMA RollbackBalances ==
    ASSUME NEW E, Sound(E), NEW b, BooksInv(b, E), NEW a, BooksInv(a, E), Grew(b, a)
    PROVE  balances_after(b, Len(a.entries)) = a.balances
<1> DEFINE m == Len(a.entries)
           n == Len(b.entries)
<1>1. m \in Nat /\ n \in Nat /\ m <= n /\ m \in 0..n /\ n \in 0..n
  BY GrewEntries
<1>2. BalancesExact(a) /\ BalancesExact(b)
  BY DEF BooksInv
<1>3. SubSeq(b.entries, 1, m) = a.entries /\ SubSeq(b.entries, 1, n) = b.entries
  <2>1. b.entries \in Seq(E)
    BY DEF BooksInv
  <2> QED BY <2>1 DEF Grew
<1>4. DOMAIN b.balances \ Emptied(b, m) = DOMAIN a.balances
  BY <1>2, RollbackSites DEF BalancesExact
<1>5. ASSUME NEW key \in DOMAIN a.balances
      PROVE  (IF key \in Touched(b, m) THEN balance_at(b, key, m) ELSE b.balances[key])
                = a.balances[key]
  <2>1. balance_at(b, key, m) = a.balances[key]
    BY <1>1, <1>2, <1>3 DEF BalancesExact, get_or_zero
  <2>2. key \in DOMAIN b.balances
    BY <1>4
  <2>3. CASE key \notin Touched(b, m)
    <3> DEFINE q == SitesOn(b.sites, key)
    <3>1. q \in Seq(Site) /\ Elements(q) = SitesFor(b, key)
      BY SitesOnKey
    <3>2. \A s \in SitesFor(b, key) : s.index \in Nat /\ ~(s.index > m)
      BY <2>3, GrewSites
    <3>3. balance_at(b, key, m) = BalanceOver(b, m, q) /\ balance_at(b, key, n) = BalanceOver(b, n, q)
      BY BalanceIsFold DEF BalanceOver
    <3> HIDE DEF q, m, n
    <3>4. \A s \in Elements(q) : resolve(b, s) = resolve(b, s) /\ (s.index <= m <=> s.index <= n)
      BY <1>1, <3>1, <3>2
    <3>5. BalanceOver(b, m, q) = BalanceOver(b, n, q)
      BY <3>1, <3>4, BalanceCongruent
    <3>6. balance_at(b, key, n) = b.balances[key]
      BY <1>1, <1>2, <1>3, <2>2 DEF BalancesExact, get_or_zero, n
    <3> QED BY <2>1, <2>3, <3>3, <3>5, <3>6
  <2> QED BY <2>1, <2>3
<1> HIDE DEF m
<1>6. balances_after(b, m) = [key \in DOMAIN a.balances |-> a.balances[key]]
  BY <1>4, <1>5 DEF balances_after
<1>7. a.balances = [key \in DOMAIN a.balances |-> a.balances[key]]
  BY <1>2 DEF BalancesExact, IsMap
<1> QED BY <1>6, <1>7 DEF m

\* rollback_to is the exact inverse of the appends it takes back: whatever was
\* recorded after the mark, nothing of it is left in any index or balance.
THEOREM RollbackIsExact ==
    ASSUME NEW E, Sound(E), NEW b, BooksInv(b, E), NEW a, BooksInv(a, E), Grew(b, a)
    PROVE  rollback_to(b, Len(a.entries)) = a
<1> DEFINE m == Len(a.entries)
<1>1. SubSeq(b.entries, 1, m) = a.entries
  BY DEF Grew
<1>2. /\ SubSeq(b.log, 1, m) = a.log
      /\ Without(b.by_id, {e.id : e \in Undone(b, m)}) = a.by_id
      /\ keys_after(b, m) = a.by_key
      /\ Without(b.reversed_by, {e.reverses : e \in Undone(b, m)}) = a.reversed_by
  BY RollbackIndexes, ZenonT(60)
<1>3. sites_after(b, m) = a.sites
  BY RollbackSites
<1>4. balances_after(b, m) = a.balances
  BY RollbackBalances
<1>5. IsBooks(a)
  BY DEF BooksInv
<1> HIDE DEF m
<1>6. rollback_to(b, m) =
        [entries |-> a.entries, log |-> a.log, by_id |-> a.by_id, by_key |-> a.by_key,
         reversed_by |-> a.reversed_by, balances |-> a.balances, sites |-> a.sites]
  BY <1>1, <1>2, <1>3, <1>4 DEF rollback_to
<1> QED BY <1>5, <1>6 DEF IsBooks, m

-----------------------------------------------------------------------------
(***************************************************************************)
(* Batches.                                                                *)
(***************************************************************************)
LEMMA GrewNot ==
    ASSUME NEW E, NEW b, BooksInv(b, E)
    PROVE  Grew(b, b)
<1> DEFINE n == Len(b.entries)
<1>1. b.entries \in Seq(E)
  BY DEF BooksInv
<1>2. n \in Nat /\ Indices(b) = 1..n /\ SubSeq(b.entries, 1, n) = b.entries
  BY <1>1 DEF Indices
<1> HIDE DEF n
<1>3. ASSUME NEW key PROVE retain(SitesOn(b.sites, key), n) = SitesOn(b.sites, key)
  <2>1. SitesOn(b.sites, key) \in Seq(Site) /\ Elements(SitesOn(b.sites, key)) = SitesFor(b, key)
    BY SitesOnKey
  <2>2. \A s \in SitesFor(b, key) : s.index <= n
    BY <1>2 DEF SitesFor
  <2> QED BY <2>1, <2>2, RetainAll
<1> QED BY <1>2, <1>3 DEF Grew, n

\* An append grows the books.
LEMMA GrewAppend ==
    ASSUME NEW E, Sound(E), NEW b, BooksInv(b, E), NEW a, BooksInv(a, E), Grew(b, a), NEW e \in E
    PROVE  Grew(append(b, e), a)
<1> DEFINE m == Len(a.entries)
           n == Len(b.entries)
           later == append(b, e)
<1>1. b.entries \in Seq(E) /\ m \in Nat /\ n \in Nat /\ m <= n
  BY GrewEntries DEF BooksInv
<1>2. later.entries = Append(b.entries, e) /\ Len(later.entries) = n + 1
  BY <1>1, AppendEntries
<1>3. later.sites = PushSites(b.sites, e, n + 1)
  BY DEF append
<1>4. SubSeq(b.entries, 1, m) = a.entries
      /\ \A key : retain(SitesOn(b.sites, key), m) = SitesOn(a.sites, key)
  BY DEF Grew
<1>5. SitesBelow(b.sites, n + 1)
  BY SitesAreEarlier
<1>6. e.postings \in Seq(Posting)
  BY DEF Sound
<1>7. SubSeq(Append(b.entries, e), 1, m) = SubSeq(b.entries, 1, m)
  BY <1>1
<1> HIDE DEF m, n, later
<1>8. ASSUME NEW key PROVE retain(SitesOn(later.sites, key), m) = SitesOn(a.sites, key)
  <2> DEFINE S == Posting
  <2>1. e.postings \in Seq(S) /\ n + 1 \in Nat /\ m < n + 1
    BY <1>1, <1>6
  <2> HIDE DEF S
  <2>2. /\ BalanceOver(b, m, SitesOn(PushSites(b.sites, e, n + 1), key)) =
              BalanceOver(b, m, SitesOn(b.sites, key))
        /\ retain(SitesOn(PushSites(b.sites, e, n + 1), key), m) = retain(SitesOn(b.sites, key), m)
    BY <1>1, <1>5, <2>1, LaterSitesAreSkipped
  <2> QED BY <1>3, <1>4, <2>2
<1> QED BY <1>1, <1>2, <1>4, <1>7, <1>8 DEF Grew, m, n, later

\* One entry, recorded or not, keeps everything exact.
LEMMA RecordKeeps ==
    ASSUME NEW E, Sound(E), NEW b, BooksInv(b, E), NEW accounts, NEW e \in E
    PROVE  /\ BooksInv(record_validated(b, accounts, e), E)
           /\ \A a : BooksInv(a, E) /\ Grew(b, a) => Grew(record_validated(b, accounts, e), a)
<1>1. CASE Outcome(b, accounts, e) = "New"
  <2>1. record_validated(b, accounts, e) = append(b, e)
    BY <1>1 DEF record_validated
  <2>2. BooksInv(append(b, e), E)
    BY <1>1, NewIsFresh, AppendKeeps
  <2>3. \A a : BooksInv(a, E) /\ Grew(b, a) => Grew(append(b, e), a)
    BY GrewAppend
  <2> QED BY <2>1, <2>2, <2>3
<1>2. CASE Outcome(b, accounts, e) # "New"
  BY <1>2 DEF record_validated
<1> QED BY <1>1, <1>2

\* w is the books before and after every entry of a batch.
IsRecording(w, b, accounts, batch) ==
    /\ w[0] = b
    /\ \A j \in 0..(Len(batch) - 1) : w[j + 1] = record_validated(w[j], accounts, batch[j + 1])

\* A batch is recorded entry by entry, or it leaves the books as they were.
THEOREM BatchIsAtomic ==
    ASSUME NEW E, Sound(E), NEW b, BooksInv(b, E), NEW accounts, NEW batch \in Seq(E)
    PROVE  \/ record_batch(b, accounts, batch) = b
           \/ \E w : /\ IsRecording(w, b, accounts, batch)
                     /\ \A j \in 0..Len(batch) : BooksInv(w[j], E)
                     /\ record_batch(b, accounts, batch) = w[Len(batch)]
<1> DEFINE n == Len(batch)
           base == [books |-> b, ok |-> TRUE]
<1>1. n \in Nat /\ DOMAIN batch = 1..n /\ n \in 0..n /\ \A j \in 0..(n - 1) : batch[j + 1] \in E
  OBVIOUS
<1>2. PICK t : Batch!IsTrace(t, accounts, base, batch, n)
               /\ Batch!Fold(accounts, base, batch) = t[n]
  <2> HIDE DEF base, n
  <2> QED BY <1>1, Batch!FoldTrace, ZenonT(60)
<1>3. t[0] = base /\ \A j \in 0..(n - 1) : t[j + 1] = BatchStep(accounts, t[j], batch[j + 1])
  BY <1>2 DEF Batch!IsTrace
<1>4. Applied(b, accounts, batch) = t[n]
  BY <1>2, BatchIsFold
<1>5. ASSUME NEW j \in 0..(n - 1)
      PROVE  /\ t[j + 1].books = IF t[j].ok THEN record_validated(t[j].books, accounts, batch[j + 1])
                                 ELSE t[j].books
             /\ t[j + 1].ok = (t[j].ok /\ Outcome(t[j].books, accounts, batch[j + 1])
                                              \in {"New", "Replay"})
  <2>1. t[j + 1] = BatchStep(accounts, t[j], batch[j + 1])
    BY <1>3
  <2>2. \A acc, e : /\ BatchStep(accounts, acc, e).books =
                         IF acc.ok THEN record_validated(acc.books, accounts, e) ELSE acc.books
                    /\ BatchStep(accounts, acc, e).ok =
                         (acc.ok /\ Outcome(acc.books, accounts, e) \in {"New", "Replay"})
    BY DEF BatchStep
  <2> QED BY <2>1, <2>2
<1>6. t[0].books = b /\ t[0].ok = TRUE
  BY <1>3
<1> HIDE DEF n, base
<1> DEFINE T == {j \in Nat : BooksInv(t[j].books, E) /\ Grew(t[j].books, b) /\ t[j].ok \in BOOLEAN}
<1>7. 0 \in T
  <2>1. Grew(b, b)
    BY GrewNot
  <2> QED BY <1>6, <2>1
<1>8. ASSUME NEW j \in 0..(n - 1), j \in T PROVE j + 1 \in T
  <2>1. j + 1 \in Nat /\ batch[j + 1] \in E
    BY <1>1
  <2>2. BooksInv(t[j].books, E) /\ Grew(t[j].books, b) /\ t[j].ok \in BOOLEAN
    BY <1>8
  <2>3. /\ BooksInv(record_validated(t[j].books, accounts, batch[j + 1]), E)
        /\ Grew(record_validated(t[j].books, accounts, batch[j + 1]), b)
    BY <2>1, <2>2, RecordKeeps
  <2>4. t[j + 1].ok \in BOOLEAN
    BY <1>5
  <2>5. BooksInv(t[j + 1].books, E) /\ Grew(t[j + 1].books, b)
    <3>1. CASE t[j].ok
      BY <1>5, <2>3, <3>1
    <3>2. CASE ~t[j].ok
      BY <1>5, <2>2, <3>2
    <3> QED BY <3>1, <3>2
  <2> QED BY <2>1, <2>4, <2>5
<1>9. \A j \in 0..n : j \in T
  <2> HIDE DEF T
  <2> QED BY <1>1, <1>7, <1>8, Batch!BoundedInduction
<1>10. CASE ~t[n].ok
  <2>1. n \in T
    <3> HIDE DEF T
    <3> QED BY <1>1, <1>9
  <2>2. BooksInv(t[n].books, E) /\ Grew(t[n].books, b)
    BY <2>1
  <2>3. rollback_to(t[n].books, Len(b.entries)) = b
    BY <2>2, RollbackIsExact
  <2> QED BY <1>4, <1>10, <2>3 DEF record_batch
<1>11. CASE t[n].ok
  <2> DEFINE U == {k \in Nat : t[k].ok => \A j \in 0..k : t[j].ok}
             w == [j \in 0..n |-> t[j].books]
  <2>1. 0 \in U
    BY <1>6
  <2>2. ASSUME NEW k \in 0..(n - 1), k \in U PROVE k + 1 \in U
    <3>1. t[k + 1].ok => t[k].ok
      BY <1>5
    <3>2. \A j \in 0..(k + 1) : j \in 0..k \/ j = k + 1
      OBVIOUS
    <3> QED BY <2>2, <3>1, <3>2
  <2>3. \A k \in 0..n : k \in U
    <3> HIDE DEF U
    <3> QED BY <1>1, <2>1, <2>2, Batch!BoundedInduction
  <2>4. \A j \in 0..n : t[j].ok
    BY <1>1, <1>11, <2>3
  <2>5. w[0] = b /\ w[n] = t[n].books
    BY <1>1, <1>6
  <2>6. ASSUME NEW j \in 0..(n - 1) PROVE w[j + 1] = record_validated(w[j], accounts, batch[j + 1])
    <3>1. j \in 0..n /\ j + 1 \in 0..n
      BY <1>1
    <3> QED BY <1>5, <2>4, <3>1
  <2>7. \A j \in 0..n : BooksInv(w[j], E)
    BY <1>9
  <2>8. record_batch(b, accounts, batch) = w[n]
    BY <1>4, <1>11, <2>5 DEF record_batch
  <2> HIDE DEF w
  <2> QED BY <2>5, <2>6, <2>7, <2>8 DEF IsRecording, n
<1> QED BY <1>10, <1>11

\* So a batch keeps everything exact.
LEMMA BatchKeeps ==
    ASSUME NEW E, Sound(E), NEW b, BooksInv(b, E), NEW accounts, NEW batch \in Seq(E)
    PROVE  BooksInv(record_batch(b, accounts, batch), E)
<1>1. Len(batch) \in 0..Len(batch)
  OBVIOUS
<1> QED BY <1>1, BatchIsAtomic

-----------------------------------------------------------------------------
(***************************************************************************)
(* What an entry does to a trial balance.                                  *)
(***************************************************************************)
PostingKeys(postings) == {key_of(postings[i]) : i \in DOMAIN postings}

\* The keys it touches get a row, every other one keeps its own.
LEMMA ApplyTouches ==
    ASSUME NEW tb, NEW S, NEW postings \in Seq(S)
    PROVE  /\ DOMAIN apply_all(tb, postings) = DOMAIN tb \cup PostingKeys(postings)
           /\ \A key : key \notin PostingKeys(postings) =>
                 get_or_zero(apply_all(tb, postings), key) = get_or_zero(tb, key)
<1> DEFINE n == Len(postings)
           Keys(k) == {key_of(postings[i]) : i \in 1..k}
<1>1. n \in Nat /\ DOMAIN postings = 1..n /\ n \in 0..n
  OBVIOUS
<1>2. PICK v : /\ v[0] = tb
               /\ \A k \in 0..(n - 1) : v[k + 1] = apply(v[k], postings[k + 1])
               /\ apply_all(tb, postings) = v[n]
  BY ApplyTrace
<1> HIDE DEF n
<1> DEFINE T == {k \in Nat : /\ DOMAIN v[k] = DOMAIN tb \cup Keys(k)
                             /\ \A key : key \notin Keys(k) =>
                                   get_or_zero(v[k], key) = get_or_zero(tb, key)}
<1>3. 0 \in T
  <2>1. Keys(0) = {}
    OBVIOUS
  <2> QED BY <1>2, <2>1
<1>4. ASSUME NEW k \in 0..(n - 1), k \in T PROVE k + 1 \in T
  <2> DEFINE K == key_of(postings[k + 1])
             new == add(get_or_zero(v[k], K), postings[k + 1])
  <2>1. v[k + 1] = Insert(v[k], K, new)
    BY <1>2 DEF apply
  <2>2. Keys(k + 1) = Keys(k) \cup {K} /\ k + 1 \in Nat
    <3>1. k \in Nat /\ 1..(k + 1) = 1..k \cup {k + 1}
      OBVIOUS
    <3> QED BY <3>1
  <2> HIDE DEF Keys, K, new
  <2>3. /\ DOMAIN v[k + 1] = DOMAIN v[k] \cup {K}
        /\ \A key : key # K => get_or_zero(v[k + 1], key) = get_or_zero(v[k], key)
    BY <2>1 DEF Insert, get_or_zero
  <2> QED BY <1>4, <2>2, <2>3
<1>5. \A k \in 0..n : k \in T
  <2> HIDE DEF T
  <2> QED BY <1>1, <1>3, <1>4, Apply!BoundedInduction
<1>6. n \in T
  <2> HIDE DEF T
  <2> QED BY <1>1, <1>5
<1>7. PostingKeys(postings) = Keys(n)
  BY <1>1 DEF PostingKeys
<1> HIDE DEF Keys
<1> QED BY <1>2, <1>6, <1>7

\* A row of gross totals.
IsBalance(row) == row = [debits |-> row.debits, credits |-> row.credits]
                  /\ row.debits \in Int /\ row.credits \in Int

\* One posting, on its side.
LEMMA AddMoves ==
    ASSUME NEW row, IsBalance(row), NEW p \in Posting
    PROVE  /\ IsBalance(add(row, p))
           /\ p.direction = "Debit" => add(row, p).debits = row.debits + p.amount
                                       /\ add(row, p).credits = row.credits
           /\ p.direction = "Credit" => add(row, p).debits = row.debits
                                        /\ add(row, p).credits = row.credits + p.amount
<1>1. p.amount \in Int /\ p.direction \in {"Debit", "Credit"}
  BY DEF Posting, Direction
<1> QED BY <1>1 DEF IsBalance, add

\* A posting of an inversion mirrors one of the original.
LEMMA InvertedPosting ==
    ASSUME NEW p \in Posting
    PROVE  /\ inverted(p) \in Posting /\ key_of(inverted(p)) = key_of(p)
           /\ inverted(p).amount = p.amount
           /\ p.direction = "Debit" => inverted(p).direction = "Credit"
           /\ p.direction = "Credit" => inverted(p).direction = "Debit"
  BY DEF inverted, inverse, Posting, Direction, key_of

\* A row that other postings bring from `start` and the inverted ones from `end`.
Mirrors(now, end, there) ==
    /\ IsBalance(now) /\ IsBalance(there)
    /\ now.debits = end.debits + there.credits
    /\ now.credits = end.credits + there.debits

\* Mirrored postings keep mirrored balances mirrored.
LEMMA MirrorStep ==
    ASSUME NEW now, NEW end, IsBalance(end), NEW there, Mirrors(now, end, there), NEW p \in Posting
    PROVE  Mirrors(add(now, inverted(p)), end, add(there, p))
<1>1. p.direction \in {"Debit", "Credit"} /\ p.amount \in Int
  BY DEF Posting, Direction
<1>2. IsBalance(now) /\ IsBalance(there)
  BY DEF Mirrors
<1>3. /\ inverted(p) \in Posting /\ inverted(p).amount = p.amount
      /\ p.direction = "Debit" => inverted(p).direction = "Credit"
      /\ p.direction = "Credit" => inverted(p).direction = "Debit"
  BY InvertedPosting
<1>4. IsBalance(add(there, p)) /\ IsBalance(add(now, inverted(p)))
  BY <1>2, <1>3, AddMoves
<1>5. CASE p.direction = "Debit"
  <2>1. add(there, p).debits = there.debits + p.amount /\ add(there, p).credits = there.credits
    BY <1>2, <1>5, AddMoves
  <2>2. add(now, inverted(p)).debits = now.debits
        /\ add(now, inverted(p)).credits = now.credits + p.amount
    BY <1>2, <1>3, <1>5, AddMoves
  <2> QED BY <1>1, <1>2, <1>4, <2>1, <2>2 DEF Mirrors, IsBalance
<1>6. CASE p.direction = "Credit"
  <2>1. add(there, p).debits = there.debits /\ add(there, p).credits = there.credits + p.amount
    BY <1>2, <1>6, AddMoves
  <2>2. add(now, inverted(p)).debits = now.debits + p.amount
        /\ add(now, inverted(p)).credits = now.credits
    BY <1>2, <1>3, <1>6, AddMoves
  <2> QED BY <1>1, <1>2, <1>4, <2>1, <2>2 DEF Mirrors, IsBalance
<1> QED BY <1>1, <1>5, <1>6

\* One posting changes the row of its key only.
LEMMA ApplyRow ==
    ASSUME NEW tb, NEW p, NEW key
    PROVE  get_or_zero(apply(tb, p), key) =
             IF key = key_of(p) THEN add(get_or_zero(tb, key), p) ELSE get_or_zero(tb, key)
  BY DEF apply, Insert, get_or_zero

\* Two entries with each other's sides flipped net to nothing on every key.
LEMMA InversionNets ==
    ASSUME NEW o, NEW e, o.postings \in Seq(Posting), e.postings \in Seq(Posting),
           is_inversion_of(o, e)
    PROVE  LET both == TrialBalanceOf(<<o, e>>) IN \A key \in DOMAIN both : is_balanced(both[key])
<1> DEFINE ps == o.postings
           qs == e.postings
           n == Len(ps)
           there == apply_all(EmptyMap, ps)
           both == apply_all(there, qs)
<1>1. TrialBalanceOf(<<o, e>>) = both
  <2> DEFINE E == {o, e}
             none == <<>>
             one == <<o>>
  <2>1. none \in Seq(E) /\ one \in Seq(E)
    OBVIOUS
  <2>1a. one = Append(none, o) /\ <<o, e>> = Append(one, e)
    OBVIOUS
  <2>2. Trial!Fold(0, EmptyMap, none) = EmptyMap
    BY Trial!FoldEmpty
  <2> HIDE DEF E, none, one
  <2>3. Trial!Fold(0, EmptyMap, Append(none, o)) = TrialStep(0, Trial!Fold(0, EmptyMap, none), o)
    BY <2>1, Trial!FoldAppend
  <2>4. Trial!Fold(0, EmptyMap, Append(one, e)) = TrialStep(0, Trial!Fold(0, EmptyMap, one), e)
    BY <2>1, Trial!FoldAppend
  <2>5. Trial!Fold(0, EmptyMap, <<o, e>>) = both
    BY <2>2, <2>3, <2>4, <2>1a DEF TrialStep
  <2> QED BY <2>5, TrialIsFold
<1>2. n \in Nat /\ Len(qs) = n /\ DOMAIN ps = 1..n /\ n \in 0..n
      /\ \A i \in 1..n : ps[i] \in Posting /\ qs[i] = inverted(ps[i])
  BY DEF is_inversion_of
<1>3. PICK u : /\ u[0] = EmptyMap
               /\ \A k \in 0..(n - 1) : u[k + 1] = apply(u[k], ps[k + 1])
               /\ there = u[n]
  BY ApplyTrace
<1>4. PICK v : /\ v[0] = there
               /\ \A k \in 0..(Len(qs) - 1) : v[k + 1] = apply(v[k], qs[k + 1])
               /\ both = v[Len(qs)]
  BY ApplyTrace, SMTT(30)
<1> HIDE DEF ps, qs, n, there, both
<1> DEFINE T == {k \in Nat : \A key : IsBalance(get_or_zero(u[k], key))}
<1>5. 0 \in T
  BY <1>3 DEF IsBalance, get_or_zero, EmptyMap, Balance_ZERO
<1>6. ASSUME NEW k \in 0..(n - 1), k \in T PROVE k + 1 \in T
  <2>1. k + 1 \in Nat /\ ps[k + 1] \in Posting /\ u[k + 1] = apply(u[k], ps[k + 1])
    BY <1>2, <1>3
  <2>2. ASSUME NEW key PROVE IsBalance(get_or_zero(u[k + 1], key))
    <3>1. IsBalance(get_or_zero(u[k], key))
      BY <1>6
    <3>2. IsBalance(add(get_or_zero(u[k], key), ps[k + 1]))
      BY <2>1, <3>1, AddMoves
    <3> QED BY <2>1, <3>1, <3>2, ApplyRow
  <2> QED BY <2>1, <2>2
<1>7. \A k \in 0..n : k \in T
  <2> HIDE DEF T
  <2> QED BY <1>2, <1>5, <1>6, Apply!BoundedInduction
<1>8. \A key : IsBalance(get_or_zero(there, key))
  BY <1>2, <1>3, <1>7
<1> HIDE DEF T
<1> DEFINE M == {k \in Nat : \A key : Mirrors(get_or_zero(v[k], key), get_or_zero(there, key),
                                              get_or_zero(u[k], key))}
<1>9. 0 \in M
  <2>1. ASSUME NEW key PROVE get_or_zero(u[0], key) = Balance_ZERO
    BY <1>3 DEF get_or_zero, EmptyMap
  <2>2. \A key : get_or_zero(v[0], key) = get_or_zero(there, key)
    BY <1>4
  <2>3. ASSUME NEW row, IsBalance(row) PROVE Mirrors(row, row, Balance_ZERO)
    BY <2>3 DEF Mirrors, IsBalance, Balance_ZERO
  <2>4. ASSUME NEW key PROVE Mirrors(get_or_zero(v[0], key), get_or_zero(there, key),
                                     get_or_zero(u[0], key))
    BY <1>8, <2>1, <2>2, <2>3
  <2> QED BY <2>4
<1>10. ASSUME NEW k \in 0..(n - 1), k \in M PROVE k + 1 \in M
  <2>1. /\ k + 1 \in Nat /\ ps[k + 1] \in Posting /\ qs[k + 1] = inverted(ps[k + 1])
        /\ u[k + 1] = apply(u[k], ps[k + 1]) /\ v[k + 1] = apply(v[k], qs[k + 1])
    BY <1>2, <1>3, <1>4
  <2>2. key_of(qs[k + 1]) = key_of(ps[k + 1])
    BY <2>1, InvertedPosting
  <2>3. ASSUME NEW key PROVE Mirrors(get_or_zero(v[k + 1], key), get_or_zero(there, key),
                                     get_or_zero(u[k + 1], key))
    <3>1. Mirrors(get_or_zero(v[k], key), get_or_zero(there, key), get_or_zero(u[k], key))
      BY <1>10
    <3>2. CASE key = key_of(ps[k + 1])
      <4>1. /\ get_or_zero(u[k + 1], key) = add(get_or_zero(u[k], key), ps[k + 1])
            /\ get_or_zero(v[k + 1], key) = add(get_or_zero(v[k], key), qs[k + 1])
        BY <2>1, <2>2, <3>2, ApplyRow
      <4> QED BY <1>8, <2>1, <3>1, <4>1, MirrorStep
    <3>3. CASE key # key_of(ps[k + 1])
      BY <2>1, <2>2, <3>1, <3>3, ApplyRow
    <3> QED BY <3>2, <3>3
  <2> QED BY <2>1, <2>3
<1>11. \A k \in 0..n : k \in M
  <2> HIDE DEF M
  <2> QED BY <1>2, <1>9, <1>10, Apply!BoundedInduction
<1>12. \A key : Mirrors(get_or_zero(both, key), get_or_zero(there, key), get_or_zero(there, key))
  BY <1>2, <1>3, <1>4, <1>11
<1>13. ASSUME NEW key \in DOMAIN both PROVE is_balanced(both[key])
  <2> DEFINE row == get_or_zero(there, key)
  <2>1. both[key].debits = row.debits + row.credits /\ both[key].credits = row.credits + row.debits
    BY <1>12 DEF Mirrors, get_or_zero
  <2>2. row.debits \in Int /\ row.credits \in Int
    BY <1>8 DEF IsBalance
  <2> HIDE DEF row
  <2> QED BY <2>1, <2>2 DEF is_balanced
<1> QED BY <1>1, <1>13

-----------------------------------------------------------------------------
(***************************************************************************)
(* The trial balance through a date.                                       *)
(***************************************************************************)
\* An entry booked later than the date changes nothing of it.
LEMMA ThroughAppend ==
    ASSUME NEW E, NEW b, b.entries \in Seq(E), NEW e \in E, NEW end
    PROVE  trial_balance_through_date(append(b, e), end) =
             IF e.booking_date <= end
             THEN apply_all(trial_balance_through_date(b, end), e.postings)
             ELSE trial_balance_through_date(b, end)
<1>1. append(b, e).entries = Append(b.entries, e)
  BY DEF append
<1>2. Through!Fold(end, EmptyMap, Append(b.entries, e)) =
        ThroughStep(end, Through!Fold(end, EmptyMap, b.entries), e)
  BY Through!FoldAppend
<1> QED BY <1>1, <1>2, ThroughIsFold DEF ThroughStep

\* It has rows for keys that entries post to, and for no other.
LEMMA ThroughKeys ==
    ASSUME NEW E, Sound(E), NEW b, b.entries \in Seq(E), NEW end,
           NEW key \in DOMAIN trial_balance_through_date(b, end)
    PROVE  \E i \in Indices(b) : key \in PostingKeys(b.entries[i].postings)
<1> DEFINE n == Len(b.entries)
           Keys == UNION {PostingKeys(b.entries[i].postings) : i \in Indices(b)}
<1>1. n \in Nat /\ DOMAIN b.entries = 1..n /\ Indices(b) = 1..n /\ n \in 0..n
      /\ \A i \in 1..n : b.entries[i] \in E
  BY DEF Indices
<1>2. PICK t : Through!IsTrace(t, end, EmptyMap, b.entries, n)
               /\ Through!Fold(end, EmptyMap, b.entries) = t[n]
  BY <1>1, Through!FoldTrace
<1>3. t[0] = EmptyMap /\ \A j \in 0..(n - 1) : t[j + 1] = ThroughStep(end, t[j], b.entries[j + 1])
  BY <1>2 DEF Through!IsTrace
<1>4. \A i \in 1..n : PostingKeys(b.entries[i].postings) \subseteq Keys
  BY <1>1
<1> HIDE DEF n
<1> DEFINE T == {j \in Nat : DOMAIN t[j] \subseteq Keys}
<1>5. 0 \in T
  BY <1>3 DEF EmptyMap
<1>6. ASSUME NEW j \in 0..(n - 1), j \in T PROVE j + 1 \in T
  <2> DEFINE ps == b.entries[j + 1].postings
  <2>1. j + 1 \in 1..n /\ j + 1 \in Nat
    BY <1>1
  <2>2. ps \in Seq(Posting)
    BY <1>1, <2>1 DEF Sound
  <2>3. DOMAIN apply_all(t[j], ps) = DOMAIN t[j] \cup PostingKeys(ps)
    <3> DEFINE S == Posting
    <3>1. ps \in Seq(S)
      BY <2>2
    <3> HIDE DEF S, ps
    <3> QED BY <3>1, ApplyTouches
  <2>4. t[j + 1] = IF b.entries[j + 1].booking_date <= end THEN apply_all(t[j], ps) ELSE t[j]
    BY <1>3 DEF ThroughStep
  <2>5. PostingKeys(ps) \subseteq Keys /\ DOMAIN t[j] \subseteq Keys
    BY <1>4, <1>6, <2>1
  <2> HIDE DEF ps, Keys
  <2>6. DOMAIN t[j + 1] \subseteq Keys
    BY <2>3, <2>4, <2>5
  <2> QED BY <2>1, <2>6
<1>7. \A j \in 0..n : j \in T
  <2> HIDE DEF T
  <2> QED BY <1>1, <1>5, <1>6, Through!BoundedInduction
<1>8. key \in Keys
  BY <1>1, <1>2, <1>7, ThroughIsFold
<1> QED BY <1>8

-----------------------------------------------------------------------------
(***************************************************************************)
(* What recording entries of a set F adds to the books b.                  *)
(***************************************************************************)
\* Every reversal inverts an earlier entry that is no reversal.
Reversals(c) ==
    \A i \in Indices(c) : c.entries[i].reverses # None =>
        \E o \in 1..(i - 1) : /\ o \in Indices(c)
                              /\ c.entries[o].id = c.entries[i].reverses
                              /\ c.entries[o].reverses = None
                              /\ is_inversion_of(c.entries[o], c.entries[i])

Extends(c, b, F) ==
    /\ Indices(b) \subseteq Indices(c)
    /\ \A i \in Indices(b) : c.entries[i] = b.entries[i]
    /\ \A i \in Indices(c) \ Indices(b) : c.entries[i] \in F

\* A balance that moved is on the side its account's limit permits.
MovedWithinLimits(c, b, accounts) ==
    \A key \in DOMAIN c.balances :
        c.balances[key] # get_or_zero(b.balances, key) =>
            permits(limit_of(accounts, key.account), c.balances[key])

KeepsThrough(c, b, F) ==
    \A end : (\A e \in F : ~(e.booking_date <= end)) =>
        trial_balance_through_date(c, end) = trial_balance_through_date(b, end)

Follows(c, b, accounts, F) ==
    /\ Reversals(c)
    /\ Extends(c, b, F)
    /\ MovedWithinLimits(c, b, accounts)
    /\ KeepsThrough(c, b, F)

\* Books follow themselves.
LEMMA FollowsItself ==
    ASSUME NEW b, Reversals(b), NEW accounts, NEW F
    PROVE  Follows(b, b, accounts, F)
  BY DEF Follows, Extends, MovedWithinLimits, KeepsThrough, get_or_zero

\* An append by the rules follows.
LEMMA AppendFollows ==
    ASSUME NEW E, Sound(E), NEW b, NEW c, BooksInv(c, E), NEW accounts,
           NEW F \in SUBSET E, Follows(c, b, accounts, F),
           NEW e \in F, Outcome(c, accounts, e) = "New"
    PROVE  Follows(append(c, e), b, accounts, F)
<1> DEFINE later == append(c, e)
           n == Len(c.entries)
<1>1. c.entries \in Seq(E) /\ e \in E
  BY DEF BooksInv
<1>2. /\ n \in Nat /\ Indices(c) = 1..n
      /\ Indices(later) = Indices(c) \cup {n + 1} /\ n + 1 \notin Indices(c)
      /\ \A i \in Indices(c) : later.entries[i] = c.entries[i]
      /\ later.entries[n + 1] = e
  BY <1>1, AppendEntries
<1>3. later.balances = apply_all(c.balances, e.postings)
  BY DEF append
<1>4. ASSUME NEW end
      PROVE  trial_balance_through_date(later, end) =
               IF e.booking_date <= end
               THEN apply_all(trial_balance_through_date(c, end), e.postings)
               ELSE trial_balance_through_date(c, end)
  BY <1>1, ThroughAppend
<1>5. e.postings \in Seq(Posting)
  BY <1>1 DEF Sound
<1>6. /\ e.reverses # None => ReversalHolds(c, e)
      /\ LimitsHold(accounts, e, apply_all(c.balances, e.postings))
  BY DEF Outcome
<1> HIDE DEF later, n
<1>7. Reversals(later)
  <2> SUFFICES ASSUME NEW i \in Indices(later), later.entries[i].reverses # None
               PROVE  \E o \in 1..(i - 1) :
                         /\ o \in Indices(later)
                         /\ later.entries[o].id = later.entries[i].reverses
                         /\ later.entries[o].reverses = None
                         /\ is_inversion_of(later.entries[o], later.entries[i])
    BY DEF Reversals
  <2>1. CASE i \in Indices(c)
    <3>1. later.entries[i] = c.entries[i]
      BY <1>2, <2>1
    <3>2. PICK o \in 1..(i - 1) : /\ o \in Indices(c)
                                  /\ c.entries[o].id = c.entries[i].reverses
                                  /\ c.entries[o].reverses = None
                                  /\ is_inversion_of(c.entries[o], c.entries[i])
      BY <2>1, <3>1 DEF Follows, Reversals
    <3>3. o \in Indices(later) /\ later.entries[o] = c.entries[o]
      BY <1>2, <3>2
    <3> QED BY <3>1, <3>2, <3>3
  <2>2. CASE i = n + 1
    <3>1. later.entries[i] = e /\ ReversalHolds(c, e)
      BY <1>2, <1>6, <2>2
    <3>2. IdsExact(c) /\ e.reverses \in DOMAIN c.by_id
      BY <3>1 DEF BooksInv, ReversalHolds
    <3>3. PICK o \in Indices(c) : c.entries[o].id = e.reverses
      BY <3>2 DEF IdsExact
    <3>4. c.by_id[e.reverses] = o
      BY <3>2, <3>3 DEF IdsExact
    <3>5. c.entries[o].reverses = None /\ is_inversion_of(c.entries[o], e)
      BY <3>1, <3>4 DEF ReversalHolds
    <3>6. o \in 1..(i - 1) /\ o \in Indices(later) /\ later.entries[o] = c.entries[o]
      BY <1>2, <2>2
    <3> QED BY <3>1, <3>3, <3>5, <3>6
  <2> QED BY <1>2, <2>1, <2>2
<1>8. Extends(later, b, F)
  <2>1. Extends(c, b, F)
    BY DEF Follows
  <2> QED BY <1>2, <2>1 DEF Extends
<1>9. MovedWithinLimits(later, b, accounts)
  <2> SUFFICES ASSUME NEW key \in DOMAIN later.balances,
                      later.balances[key] # get_or_zero(b.balances, key)
               PROVE  permits(limit_of(accounts, key.account), later.balances[key])
    BY DEF MovedWithinLimits
  <2>1. /\ DOMAIN later.balances = DOMAIN c.balances \cup PostingKeys(e.postings)
        /\ \A k : k \notin PostingKeys(e.postings) =>
              get_or_zero(later.balances, k) = get_or_zero(c.balances, k)
    <3> DEFINE S == Posting
    <3>1. e.postings \in Seq(S)
      BY <1>5
    <3> HIDE DEF S
    <3> QED BY <1>3, <3>1, ApplyTouches, ZenonT(60)
  <2>2. CASE key \in PostingKeys(e.postings)
    <3>1. PICK i \in DOMAIN e.postings : key = key_of(e.postings[i])
      BY <2>2 DEF PostingKeys
    <3>2. key.account = e.postings[i].account
      BY <3>1 DEF key_of
    <3>3. permits(limit_of(accounts, e.postings[i].account), get_or_zero(later.balances, key))
      BY <1>3, <1>6, <3>1 DEF LimitsHold
    <3> QED BY <3>2, <3>3 DEF get_or_zero
  <2>3. CASE key \notin PostingKeys(e.postings)
    <3>1. key \in DOMAIN c.balances /\ later.balances[key] = c.balances[key]
      BY <2>1, <2>3 DEF get_or_zero
    <3>2. MovedWithinLimits(c, b, accounts)
      BY DEF Follows
    <3> QED BY <3>1, <3>2 DEF MovedWithinLimits
  <2> QED BY <2>2, <2>3
<1>10. KeepsThrough(later, b, F)
  <2> SUFFICES ASSUME NEW end, \A f \in F : ~(f.booking_date <= end)
               PROVE  trial_balance_through_date(later, end) = trial_balance_through_date(b, end)
    BY DEF KeepsThrough
  <2>1. trial_balance_through_date(later, end) = trial_balance_through_date(c, end)
    BY <1>4
  <2> QED BY <2>1 DEF Follows, KeepsThrough
<1> QED BY <1>7, <1>8, <1>9, <1>10 DEF Follows, later

\* One entry of F, recorded or not.
LEMMA RecordFollows ==
    ASSUME NEW E, Sound(E), NEW b, NEW c, BooksInv(c, E), NEW accounts,
           NEW F \in SUBSET E, Follows(c, b, accounts, F), NEW e \in F
    PROVE  Follows(record_validated(c, accounts, e), b, accounts, F)
<1>1. CASE Outcome(c, accounts, e) = "New"
  BY <1>1, AppendFollows DEF record_validated
<1>2. CASE Outcome(c, accounts, e) # "New"
  BY <1>2 DEF record_validated
<1> QED BY <1>1, <1>2

\* A batch of entries of F.
LEMMA BatchFollows ==
    ASSUME NEW E, Sound(E), NEW b, BooksInv(b, E), Reversals(b), NEW accounts,
           NEW F \in SUBSET E, NEW batch \in Seq(F)
    PROVE  Follows(record_batch(b, accounts, batch), b, accounts, F)
<1> DEFINE n == Len(batch)
           result == record_batch(b, accounts, batch)
<1>1. n \in Nat /\ n \in 0..n /\ \A j \in 0..(n - 1) : batch[j + 1] \in F
  OBVIOUS
<1>2. Follows(b, b, accounts, F)
  BY FollowsItself
<1>3. batch \in Seq(E)
  OBVIOUS
<1>4. CASE result = b
  BY <1>2, <1>4
<1>5. CASE result # b
  <2>1. PICK w : /\ IsRecording(w, b, accounts, batch)
                 /\ \A j \in 0..n : BooksInv(w[j], E)
                 /\ result = w[n]
    BY <1>3, <1>5, BatchIsAtomic
  <2>2. w[0] = b /\ \A j \in 0..(n - 1) : w[j + 1] = record_validated(w[j], accounts, batch[j + 1])
    BY <2>1 DEF IsRecording
  <2> HIDE DEF n, result
  <2> DEFINE T == {j \in Nat : Follows(w[j], b, accounts, F)}
  <2>3. 0 \in T
    BY <1>2, <2>2
  <2>4. ASSUME NEW j \in 0..(n - 1), j \in T PROVE j + 1 \in T
    <3>1. j \in 0..n /\ j + 1 \in Nat /\ batch[j + 1] \in F
      BY <1>1
    <3>2. BooksInv(w[j], E) /\ Follows(w[j], b, accounts, F)
      BY <2>1, <2>4, <3>1
    <3>3. Follows(record_validated(w[j], accounts, batch[j + 1]), b, accounts, F)
      BY <3>1, <3>2, RecordFollows
    <3> QED BY <2>2, <3>1, <3>3
  <2>5. \A j \in 0..n : j \in T
    <3> HIDE DEF T
    <3> QED BY <1>1, <2>3, <2>4, Batch!BoundedInduction
  <2> QED BY <1>1, <2>1, <2>5 DEF result
<1> QED BY <1>4, <1>5

-----------------------------------------------------------------------------
\* Empty books are exact.
LEMMA NewBooksAreExact == ASSUME NEW E PROVE BooksInv(Books_new, E) /\ Reversals(Books_new)
<1> DEFINE b == Books_new
           none == <<>>
<1>1. /\ b.entries = none /\ b.log = none /\ b.by_id = EmptyMap /\ b.by_key = EmptyMap
      /\ b.reversed_by = EmptyMap /\ b.balances = EmptyMap /\ b.sites = EmptyMap
      /\ IsBooks(b)
  BY DEF Books_new, IsBooks
<1>2. none \in Seq(E) /\ DOMAIN none = {} /\ none = [i \in {} |-> content_hash(none[i])]
      /\ Len(none) = 0 /\ SubSeq(none, 1, 0) = none
  OBVIOUS
<1>3. IsMap(EmptyMap) /\ DOMAIN EmptyMap = {}
  BY DEF IsMap, EmptyMap
<1>4. Trial!Fold(0, EmptyMap, none) = EmptyMap
  BY Trial!FoldEmpty
<1>5. ASSUME NEW key, NEW size PROVE balance_at(b, key, size) = Balance_ZERO
  <2>1. SitesOn(b.sites, key) = none
    BY <1>1, <1>3 DEF SitesOn
  <2>2. Balance!Fold([books |-> b, size |-> size], Balance_ZERO, none) = Balance_ZERO
    BY Balance!FoldEmpty
  <2> QED BY <2>1, <2>2, BalanceIsFold
<1> HIDE DEF b, none
<1>6. Indices(b) = {} /\ b.entries \in Seq(E) /\ Len(b.entries) = 0
  BY <1>1, <1>2 DEF Indices
<1>7. verify_log(b)
  BY <1>1, <1>2 DEF verify_log
<1>8. IdsExact(b) /\ KeysExact(b) /\ LinksExact(b)
  BY <1>1, <1>3, <1>6 DEF IdsExact, KeysExact, LinksExact
<1>9. SitesExact(b)
  BY <1>1, <1>3, <1>6 DEF SitesExact
<1>10. BalancesExact(b)
  <2>1. TrialBalanceOf(b.entries) = b.balances
    BY <1>1, <1>4, TrialIsFold
  <2>2. ASSUME NEW size \in 0..Len(b.entries), NEW key
        PROVE  balance_at(b, key, size) = get_or_zero(TrialBalanceOf(SubSeq(b.entries, 1, size)), key)
    <3>1. size = 0 /\ SubSeq(b.entries, 1, size) = none
      BY <1>1, <1>2, <1>6
    <3> QED BY <1>1, <1>3, <1>5, <2>1, <3>1 DEF get_or_zero
  <2> QED BY <1>1, <1>3, <2>1, <2>2 DEF BalancesExact
<1>11. Reversals(b)
  BY <1>6 DEF Reversals
<1> QED BY <1>1, <1>6, <1>7, <1>8, <1>9, <1>10, <1>11 DEF BooksInv, b

-----------------------------------------------------------------------------
(***************************************************************************)
(* The rows of the maintained balances.                                    *)
(***************************************************************************)
HoldsBalances(tb) == \A key \in DOMAIN tb : IsBalance(tb[key])

\* Applying postings leaves rows of gross totals.
LEMMA ApplyHoldsBalances ==
    ASSUME NEW tb, HoldsBalances(tb), NEW postings \in Seq(Posting)
    PROVE  HoldsBalances(apply_all(tb, postings))
<1> DEFINE n == Len(postings)
           S == Posting
<1>1. n \in Nat /\ n \in 0..n /\ postings \in Seq(S) /\ \A k \in 0..(n - 1) : postings[k + 1] \in Posting
  OBVIOUS
<1>2. PICK v : /\ v[0] = tb
               /\ \A k \in 0..(n - 1) : v[k + 1] = apply(v[k], postings[k + 1])
               /\ apply_all(tb, postings) = v[n]
  <2> HIDE DEF S
  <2> QED BY <1>1, ApplyTrace
<1> HIDE DEF n, S
<1> DEFINE T == {k \in Nat : HoldsBalances(v[k])}
<1>3. 0 \in T
  BY <1>2
<1>4. ASSUME NEW k \in 0..(n - 1), k \in T PROVE k + 1 \in T
  <2> DEFINE p == postings[k + 1]
             old == get_or_zero(v[k], key_of(p))
  <2>1. k + 1 \in Nat /\ p \in Posting /\ HoldsBalances(v[k])
    BY <1>1, <1>4
  <2>2. v[k + 1] = Insert(v[k], key_of(p), add(old, p))
    BY <1>2 DEF apply
  <2>3. IsBalance(old)
    BY <2>1 DEF HoldsBalances, get_or_zero, Balance_ZERO, IsBalance
  <2> HIDE DEF p, old
  <2>4. IsBalance(add(old, p))
    BY <2>1, <2>3, AddMoves
  <2>5. HoldsBalances(v[k + 1])
    BY <2>1, <2>2, <2>4 DEF HoldsBalances, Insert
  <2> QED BY <2>1, <2>5
<1>5. \A k \in 0..n : k \in T
  <2> HIDE DEF T
  <2> QED BY <1>1, <1>3, <1>4, Apply!BoundedInduction
<1> QED BY <1>1, <1>2, <1>5

\* The maintained balances are gross totals.
LEMMA BooksHoldBalances ==
    ASSUME NEW E, Sound(E), NEW b, BooksInv(b, E)
    PROVE  HoldsBalances(b.balances)
<1> DEFINE n == Len(b.entries)
<1>1. n \in Nat /\ DOMAIN b.entries = 1..n /\ n \in 0..n
      /\ \A j \in 0..(n - 1) : b.entries[j + 1].postings \in Seq(Posting)
  BY DEF BooksInv, Sound
<1>2. PICK t : Trial!IsTrace(t, 0, EmptyMap, b.entries, n)
               /\ Trial!Fold(0, EmptyMap, b.entries) = t[n]
  <2> HIDE DEF n
  <2> QED BY <1>1, Trial!FoldTrace
<1>3. t[0] = EmptyMap /\ \A j \in 0..(n - 1) : t[j + 1] = apply_all(t[j], b.entries[j + 1].postings)
  BY <1>2 DEF Trial!IsTrace, TrialStep
<1> HIDE DEF n
<1> DEFINE T == {j \in Nat : HoldsBalances(t[j])}
<1>4. 0 \in T
  BY <1>3 DEF HoldsBalances, EmptyMap
<1>5. ASSUME NEW j \in 0..(n - 1), j \in T PROVE j + 1 \in T
  <2> DEFINE ps == b.entries[j + 1].postings
  <2>1. j + 1 \in Nat /\ ps \in Seq(Posting) /\ HoldsBalances(t[j])
    BY <1>1, <1>5
  <2>2. t[j + 1] = apply_all(t[j], ps)
    BY <1>3
  <2> HIDE DEF ps
  <2> QED BY <2>1, <2>2, ApplyHoldsBalances
<1>6. \A j \in 0..n : j \in T
  <2> HIDE DEF T
  <2> QED BY <1>1, <1>4, <1>5, Trial!BoundedInduction
<1>7. b.balances = t[n]
  BY <1>2, TrialIsFold DEF BooksInv, BalancesExact
<1> QED BY <1>1, <1>6, <1>7

\* There are finitely many keys, each the key of a posting.
LEMMA BalanceKeysAreFinite ==
    ASSUME NEW E, Sound(E), NEW b, BooksInv(b, E)
    PROVE  /\ IsFiniteSet(DOMAIN b.balances)
           /\ \A key \in DOMAIN b.balances : key.account \in Nat /\ key.currency \in STRING
<1> DEFINE n == Len(b.entries)
           Places == (1..n) \X (1..MaxPostings)
           At(s) == key_of(b.entries[s[1]].postings[s[2]])
           f == [s \in Places |-> At(s)]
           Keys == {At(s) : s \in Places}
<1>1. n \in Nat /\ Indices(b) = 1..n /\ MaxPostings \in Nat
      /\ \A i \in 1..n : b.entries[i].postings \in Seq(Posting)
  BY BoundsArePositive DEF BooksInv, Sound, Indices
<1>2. ASSUME NEW key \in DOMAIN b.balances
      PROVE  \E i \in 1..n, k \in 1..MaxPostings : /\ k \in DOMAIN b.entries[i].postings
                                                   /\ key = key_of(b.entries[i].postings[k])
  <2>1. key \in DOMAIN b.sites /\ b.sites[key] \in Seq(Site) /\ b.sites[key] # <<>>
        /\ Elements(b.sites[key]) = SitesFor(b, key)
    BY DEF BooksInv, BalancesExact, SitesExact
  <2>2. b.sites[key][1] \in Elements(b.sites[key])
    BY <2>1 DEF Elements
  <2>3. PICK s \in SitesFor(b, key) : TRUE
    BY <2>1, <2>2
  <2>4. s.index \in 1..n /\ s.posting \in 1..MaxPostings
        /\ s.posting \in DOMAIN b.entries[s.index].postings
        /\ key = key_of(b.entries[s.index].postings[s.posting])
    BY <1>1, <2>3 DEF SitesFor, resolve
  <2> QED BY <2>4
<1>3. IsFiniteSet(Places)
  <2>1. IsFiniteSet(1..n) /\ IsFiniteSet(1..MaxPostings)
    BY <1>1, FS_Interval
  <2> QED BY <2>1, FS_Product
<1>4. IsFiniteSet(Keys)
  <2>1. f \in Surjection(Places, Keys)
    BY DEF Surjection
  <2> HIDE DEF Places, Keys, f
  <2> QED BY <1>3, <2>1, FS_Surjection
<1>5. DOMAIN b.balances \in SUBSET Keys
  <2> SUFFICES ASSUME NEW key \in DOMAIN b.balances PROVE key \in Keys
    OBVIOUS
  <2>1. PICK i \in 1..n, k \in 1..MaxPostings : key = key_of(b.entries[i].postings[k])
    BY <1>2
  <2>2. <<i, k>> \in Places /\ At(<<i, k>>) = key
    BY <2>1
  <2> QED BY <2>2
<1>6. ASSUME NEW key \in DOMAIN b.balances
      PROVE  key.account \in Nat /\ key.currency \in STRING
  <2>1. PICK i \in 1..n, k \in 1..MaxPostings : /\ k \in DOMAIN b.entries[i].postings
                                                /\ key = key_of(b.entries[i].postings[k])
    BY <1>2
  <2>2. b.entries[i].postings[k] \in Posting
    BY <1>1, <2>1
  <2> QED BY <2>1, <2>2 DEF Posting, key_of
<1> HIDE DEF Keys
<1> QED BY <1>4, <1>5, <1>6, FS_Subset

-----------------------------------------------------------------------------
\* A batch of entries that are all on the log is replayed: it changes nothing.
THEOREM RecordedBatchIsReplayed ==
    ASSUME NEW E, \A e \in E : "key" \in DOMAIN e, NEW b, BooksInv(b, E), NEW accounts,
           NEW batch \in Seq(E),
           \A n \in DOMAIN batch : \E i \in DOMAIN b.log : b.log[i] = content_hash(batch[n])
    PROVE  record_batch(b, accounts, batch) = b
<1> DEFINE n == Len(batch)
           base == [books |-> b, ok |-> TRUE]
<1>1. n \in Nat /\ DOMAIN batch = 1..n /\ n \in 0..n /\ \A j \in 0..(n - 1) : j + 1 \in 1..n
  OBVIOUS
<1>2. ASSUME NEW e \in E, NEW i \in DOMAIN b.log, b.log[i] = content_hash(e)
      PROVE  Outcome(b, accounts, e) = "Replay"
  <2>1. /\ i \in Indices(b) /\ b.log[i] = content_hash(b.entries[i]) /\ b.entries[i] \in E
        /\ b.entries \in Seq(E)
    BY DEF BooksInv, verify_log, Indices
  <2>2. content_hash(b.entries[i]) = content_hash(e)
    BY <1>2, <2>1
  <2>3. ASSUME NEW d \in E PROVE content_hash(d)["key"] = d["key"]
    BY DEF content_hash
  <2>4. b.entries[i].key = e.key
    BY <2>1, <2>2, <2>3
  <2>5. e.key \in DOMAIN b.by_key /\ b.by_key[e.key].content_hash = content_hash(e)
    <3> DEFINE old == b.entries[i]
    <3>1. old.key \in DOMAIN b.by_key /\ b.by_key[old.key].content_hash = b.log[i]
      <4>1. /\ DOMAIN b.by_key = {b.entries[k].key : k \in Indices(b)}
            /\ b.by_key[old.key] = [id |-> old.id, index |-> i, content_hash |-> b.log[i]]
        BY <2>1 DEF BooksInv, KeysExact
      <4> QED BY <2>1, <4>1
    <3> QED BY <1>2, <2>4, <3>1
  <2> QED BY <2>5 DEF Outcome, KeyIsUsed
<1>3. \A j \in 0..(n - 1) : batch[j + 1] \in E /\ Outcome(b, accounts, batch[j + 1]) = "Replay"
  BY <1>1, <1>2
<1>4. PICK t : Batch!IsTrace(t, accounts, base, batch, n)
               /\ Batch!Fold(accounts, base, batch) = t[n]
  <2> HIDE DEF base, n
  <2> QED BY <1>1, Batch!FoldTrace, ZenonT(60)
<1>5. t[0] = base /\ \A j \in 0..(n - 1) : t[j + 1] = BatchStep(accounts, t[j], batch[j + 1])
  BY <1>4 DEF Batch!IsTrace
<1> HIDE DEF n
<1> DEFINE T == {j \in Nat : t[j] = base}
<1>6. 0 \in T
  BY <1>5
<1>7. ASSUME NEW j \in 0..(n - 1), j \in T PROVE j + 1 \in T
  <2>1. t[j + 1] = BatchStep(accounts, base, batch[j + 1])
        /\ Outcome(b, accounts, batch[j + 1]) = "Replay" /\ j + 1 \in Nat
    BY <1>3, <1>5, <1>7
  <2>2. record_validated(b, accounts, batch[j + 1]) = b
    BY <2>1 DEF record_validated
  <2>3. t[j + 1] = base
    BY <2>1, <2>2 DEF BatchStep
  <2> QED BY <2>1, <2>3
<1>8. \A j \in 0..n : j \in T
  <2> HIDE DEF T
  <2> QED BY <1>1, <1>6, <1>7, Batch!BoundedInduction
<1>9. Applied(b, accounts, batch) = base
  BY <1>1, <1>4, <1>8, BatchIsFold
<1> QED BY <1>9 DEF record_batch

-----------------------------------------------------------------------------
(***************************************************************************)
(* What postings move on one key, debit positive.                          *)
(***************************************************************************)
NetOn(tb, on_key) == get_or_zero(tb, on_key).debits - get_or_zero(tb, on_key).credits

Moves(p, on_key) ==
    IF key_of(p) # on_key THEN 0 ELSE IF p.direction = "Debit" THEN p.amount ELSE -p.amount

Effect(postings, on_key) == NetOn(apply_all(EmptyMap, postings), on_key)

\* A trial balance row is a balance, where there is one and where there is none.
LEMMA RowsAreBalances ==
    ASSUME NEW tb, HoldsBalances(tb), NEW on_key
    PROVE  IsBalance(get_or_zero(tb, on_key)) /\ NetOn(tb, on_key) \in Int
<1>1. IsBalance(Balance_ZERO)
  BY DEF IsBalance, Balance_ZERO
<1>2. IsBalance(get_or_zero(tb, on_key))
  BY <1>1 DEF get_or_zero, HoldsBalances
<1> QED BY <1>2 DEF IsBalance, NetOn

\* One posting moves its own key by its amount.
LEMMA ApplyMoves ==
    ASSUME NEW tb, HoldsBalances(tb), NEW p \in Posting, NEW on_key
    PROVE  /\ HoldsBalances(apply(tb, p))
           /\ NetOn(apply(tb, p), on_key) = NetOn(tb, on_key) + Moves(p, on_key)
           /\ NetOn(tb, on_key) \in Int /\ Moves(p, on_key) \in Int
<1>1. IsBalance(get_or_zero(tb, on_key)) /\ IsBalance(get_or_zero(tb, key_of(p)))
  BY RowsAreBalances
<1>2. /\ IsBalance(add(get_or_zero(tb, key_of(p)), p))
      /\ IsBalance(add(get_or_zero(tb, on_key), p))
  BY <1>1, AddMoves
<1>3. HoldsBalances(apply(tb, p))
  BY <1>2 DEF apply, Insert, HoldsBalances
<1>4. p.amount \in Int /\ p.direction \in {"Debit", "Credit"}
  BY DEF Posting, Direction
<1>5. CASE key_of(p) = on_key
  <2>1. get_or_zero(apply(tb, p), on_key) = add(get_or_zero(tb, on_key), p)
    BY <1>5, ApplyRow
  <2> QED BY <1>1, <1>3, <1>4, <1>5, <2>1, AddMoves DEF NetOn, Moves, IsBalance
<1>6. CASE key_of(p) # on_key
  <2>1. get_or_zero(apply(tb, p), on_key) = get_or_zero(tb, on_key)
    BY <1>6, ApplyRow
  <2> QED BY <1>1, <1>3, <1>6, <2>1 DEF NetOn, Moves, IsBalance
<1> QED BY <1>5, <1>6

\* The net of a key, posting by posting.
LEMMA NetTrace ==
    ASSUME NEW tb, HoldsBalances(tb), NEW postings \in Seq(Posting), NEW on_key
    PROVE  \E s : /\ s[0] = NetOn(tb, on_key)
                  /\ \A j \in 0..Len(postings) : s[j] \in Int
                  /\ \A j \in 0..(Len(postings) - 1) :
                        Moves(postings[j + 1], on_key) \in Int
                        /\ s[j + 1] = s[j] + Moves(postings[j + 1], on_key)
                  /\ s[Len(postings)] = NetOn(apply_all(tb, postings), on_key)
<1> DEFINE n == Len(postings)
<1>1. PICK v : /\ v[0] = tb
               /\ \A k \in 0..(n - 1) : v[k + 1] = apply(v[k], postings[k + 1])
               /\ apply_all(tb, postings) = v[n]
  <2> DEFINE S == Posting
  <2>1. postings \in Seq(S)
    OBVIOUS
  <2> HIDE DEF S
  <2>2. \E v : /\ v[0] = tb
               /\ \A k \in 0..(Len(postings) - 1) : v[k + 1] = apply(v[k], postings[k + 1])
               /\ apply_all(tb, postings) = v[Len(postings)]
    BY ONLY <2>1, ApplyTrace, SMTT(30)
  <2> QED BY ONLY <2>2 DEF n
<1>2. n \in Nat /\ \A j \in 0..(n - 1) : postings[j + 1] \in Posting
  OBVIOUS
<1> HIDE DEF n
<1> DEFINE T == {j \in Nat : HoldsBalances(v[j])}
           s == [j \in 0..n |-> NetOn(v[j], on_key)]
<1>3. \A j \in 0..n : j \in T
  <2>1. 0 \in T
    BY <1>1
  <2>2. ASSUME NEW j \in 0..(n - 1), j \in T PROVE j + 1 \in T
    <3>1. HoldsBalances(v[j]) /\ postings[j + 1] \in Posting /\ v[j + 1] = apply(v[j], postings[j + 1])
          /\ j + 1 \in Nat
      BY <1>1, <1>2, <2>2
    <3> QED BY <3>1, ApplyMoves
  <2> HIDE DEF T
  <2> QED BY <1>2, <2>1, <2>2, Apply!BoundedInduction
<1>4. ASSUME NEW j \in 0..(n - 1)
      PROVE  Moves(postings[j + 1], on_key) \in Int
             /\ s[j + 1] = s[j] + Moves(postings[j + 1], on_key)
  <2>1. HoldsBalances(v[j]) /\ postings[j + 1] \in Posting /\ v[j + 1] = apply(v[j], postings[j + 1])
        /\ j \in 0..n /\ j + 1 \in 0..n
    BY <1>1, <1>2, <1>3
  <2> QED BY <2>1, ApplyMoves
<1>5. ASSUME NEW j \in 0..n PROVE s[j] \in Int
  BY <1>3, RowsAreBalances
<1>6. s[0] = NetOn(tb, on_key) /\ s[n] = NetOn(apply_all(tb, postings), on_key)
  BY <1>1, <1>2
<1> QED BY <1>4, <1>5, <1>6 DEF n

\* What a sequence of postings does to a key, as a running sum from its first posting.
LEMMA EffectTrace ==
    ASSUME NEW postings \in Seq(Posting), NEW on_key
    PROVE  \E u : /\ u[0] = 0
                  /\ \A j \in 0..Len(postings) : u[j] \in Int
                  /\ \A j \in 0..(Len(postings) - 1) :
                        Moves(postings[j + 1], on_key) \in Int
                        /\ u[j + 1] = u[j] + Moves(postings[j + 1], on_key)
                  /\ u[Len(postings)] = Effect(postings, on_key)
<1> DEFINE tb == EmptyMap
<1>0. NetOn(tb, on_key) = 0
  BY DEF EmptyMap, NetOn, get_or_zero, Balance_ZERO
<1>1. HoldsBalances(tb)
  BY DEF HoldsBalances, EmptyMap
<1>2. NetOn(apply_all(tb, postings), on_key) = Effect(postings, on_key)
  BY DEF Effect
<1> HIDE DEF tb
<1>3. PICK u : /\ u[0] = NetOn(tb, on_key)
               /\ \A j \in 0..Len(postings) : u[j] \in Int
               /\ \A j \in 0..(Len(postings) - 1) :
                     Moves(postings[j + 1], on_key) \in Int
                     /\ u[j + 1] = u[j] + Moves(postings[j + 1], on_key)
               /\ u[Len(postings)] = NetOn(apply_all(tb, postings), on_key)
  BY <1>1, NetTrace
<1> QED BY <1>0, <1>2, <1>3

\* Postings move a key by the same amount, whatever they are applied to.
LEMMA ApplyAddsEffect ==
    ASSUME NEW tb, HoldsBalances(tb), NEW postings \in Seq(Posting), NEW on_key
    PROVE  /\ NetOn(apply_all(tb, postings), on_key) = NetOn(tb, on_key) + Effect(postings, on_key)
           /\ Effect(postings, on_key) \in Int /\ NetOn(tb, on_key) \in Int
<1> DEFINE n == Len(postings)
<1>0. HoldsBalances(EmptyMap) /\ NetOn(EmptyMap, on_key) = 0 /\ n \in Nat
  BY DEF HoldsBalances, EmptyMap, NetOn, get_or_zero, Balance_ZERO
<1>1. PICK s : /\ s[0] = NetOn(tb, on_key)
               /\ \A j \in 0..n : s[j] \in Int
               /\ \A j \in 0..(n - 1) : /\ Moves(postings[j + 1], on_key) \in Int
                                        /\ s[j + 1] = s[j] + Moves(postings[j + 1], on_key)
               /\ s[n] = NetOn(apply_all(tb, postings), on_key)
  BY NetTrace
<1>2. PICK u : /\ u[0] = 0
               /\ \A j \in 0..n : u[j] \in Int
               /\ \A j \in 0..(n - 1) : /\ Moves(postings[j + 1], on_key) \in Int
                                        /\ u[j + 1] = u[j] + Moves(postings[j + 1], on_key)
               /\ u[n] = Effect(postings, on_key)
  BY EffectTrace
<1> HIDE DEF n
<1> DEFINE T == {j \in 0..n : s[j] = s[0] + u[j]}
<1>3. \A j \in 0..n : j \in T
  <2>1. 0 \in T
    BY <1>0, <1>1, <1>2
  <2>2. ASSUME NEW j \in 0..(n - 1), j \in T PROVE j + 1 \in T
    <3>0. j \in 0..n /\ j + 1 \in 0..n /\ 0 \in 0..n
      BY <1>0
    <3>1. s[j] = s[0] + u[j] /\ s[0] \in Int /\ u[j] \in Int
      BY <1>1, <1>2, <2>2, <3>0
    <3>2. s[j + 1] = s[j] + Moves(postings[j + 1], on_key) /\ u[j + 1] = u[j] + Moves(postings[j + 1], on_key)
          /\ Moves(postings[j + 1], on_key) \in Int
      BY <1>1, <1>2
    <3> QED BY <3>0, <3>1, <3>2
  <2> HIDE DEF T
  <2> QED BY <1>0, <2>1, <2>2, Apply!BoundedInduction
<1>4. n \in T /\ n \in 0..n /\ 0 \in 0..n
  BY <1>0, <1>3
<1> QED BY <1>1, <1>2, <1>4

\* Only one posting is on the key.
LEMMA EffectOfOne ==
    ASSUME NEW postings \in Seq(Posting), NEW on_key, NEW m \in DOMAIN postings,
           \A n \in DOMAIN postings : key_of(postings[n]) = on_key => n = m
    PROVE  Effect(postings, on_key) = Moves(postings[m], on_key)
<1> DEFINE n == Len(postings)
<1>0. HoldsBalances(EmptyMap) /\ NetOn(EmptyMap, on_key) = 0 /\ n \in Nat /\ m \in 1..n /\ DOMAIN postings = 1..n
  BY DEF HoldsBalances, EmptyMap, NetOn, get_or_zero, Balance_ZERO
<1>2. PICK u : /\ u[0] = 0
               /\ \A j \in 0..n : u[j] \in Int
               /\ \A j \in 0..(n - 1) : /\ Moves(postings[j + 1], on_key) \in Int
                                        /\ u[j + 1] = u[j] + Moves(postings[j + 1], on_key)
               /\ u[n] = Effect(postings, on_key)
  BY EffectTrace
<1> HIDE DEF n
<1> DEFINE x == Moves(postings[m], on_key)
           T == {j \in 0..n : u[j] = IF j < m THEN 0 ELSE x}
<1>x. x \in Int
  <2>1. m - 1 \in 0..(n - 1) /\ (m - 1) + 1 = m
    BY <1>0
  <2> QED BY <1>2, <2>1
<1>3. \A j \in 0..n : j \in T
  <2>1. 0 \in T
    BY <1>0, <1>2
  <2>2. ASSUME NEW j \in 0..(n - 1), j \in T PROVE j + 1 \in T
    <3>1. u[j + 1] = u[j] + Moves(postings[j + 1], on_key) /\ j + 1 \in 1..n
      BY <1>0, <1>2
    <3>2. j + 1 # m => Moves(postings[j + 1], on_key) = 0
      BY <1>0, <3>1 DEF Moves
    <3>3. u[j] = IF j < m THEN 0 ELSE x
      BY <2>2
    <3>4. CASE j + 1 = m
      <4>1. u[j + 1] = 0 + x /\ ~(j + 1 < m)
        BY <3>1, <3>3, <3>4, <1>0
      <4>2. j + 1 \in 0..n
        BY <1>0
      <4> HIDE DEF x
      <4> QED BY <1>x, <4>1, <4>2
    <3>5. CASE j + 1 # m
      <4>0. j \in 0..n /\ j + 1 \in 0..n
        BY <1>0
      <4>1. u[j + 1] = u[j] + 0 /\ u[j] \in Int
        BY <3>1, <3>2, <3>5, <4>0, <1>2
      <4>2. j + 1 < m <=> j < m
        BY <1>0, <3>5
      <4> HIDE DEF x
      <4> QED BY <3>3, <4>0, <4>1, <4>2
    <3> QED BY <3>4, <3>5
  <2> HIDE DEF T
  <2> QED BY <1>0, <2>1, <2>2, Apply!BoundedInduction
<1>4. n \in T /\ ~(n < m)
  BY <1>0, <1>3
<1> QED BY <1>2, <1>4

\* No posting is on the key.
LEMMA EffectOfNone ==
    ASSUME NEW postings \in Seq(Posting), NEW on_key,
           \A n \in DOMAIN postings : key_of(postings[n]) # on_key
    PROVE  Effect(postings, on_key) = 0
<1>1. on_key \notin PostingKeys(postings)
  BY DEF PostingKeys
<1>2. get_or_zero(apply_all(EmptyMap, postings), on_key) = get_or_zero(EmptyMap, on_key)
  BY <1>1, ApplyTouches
<1> QED BY <1>2 DEF Effect, NetOn, get_or_zero, EmptyMap, Balance_ZERO

-----------------------------------------------------------------------------
(***************************************************************************)
(* Trial balances of parts of the log.                                     *)
(***************************************************************************)
\* A trial balance holds gross totals.
LEMMA TrialHoldsBalances ==
    ASSUME NEW E, Sound(E), NEW q \in Seq(E)
    PROVE  HoldsBalances(TrialBalanceOf(q))
<1> DEFINE n == Len(q)
<1>1. n \in Nat /\ DOMAIN q = 1..n /\ n \in 0..n /\ \A j \in 0..(n - 1) : q[j + 1].postings \in Seq(Posting)
  BY DEF Sound
<1> HIDE DEF n
<1>2. PICK t : Trial!IsTrace(t, 0, EmptyMap, q, n) /\ Trial!Fold(0, EmptyMap, q) = t[n]
  BY <1>1, Trial!FoldTrace
<1>3. t[0] = EmptyMap /\ \A j \in 0..(n - 1) : t[j + 1] = apply_all(t[j], q[j + 1].postings)
  BY <1>2 DEF Trial!IsTrace, TrialStep
<1> DEFINE T == {j \in Nat : HoldsBalances(t[j])}
<1>4. 0 \in T
  BY <1>3 DEF HoldsBalances, EmptyMap
<1>5. ASSUME NEW j \in 0..(n - 1), j \in T PROVE j + 1 \in T
  <2> DEFINE ps == q[j + 1].postings
  <2>1. j + 1 \in Nat /\ ps \in Seq(Posting) /\ HoldsBalances(t[j]) /\ t[j + 1] = apply_all(t[j], ps)
    BY <1>1, <1>3, <1>5
  <2> HIDE DEF ps
  <2> QED BY <2>1, ApplyHoldsBalances
<1>6. \A j \in 0..n : j \in T
  <2> HIDE DEF T
  <2> QED BY <1>1, <1>4, <1>5, Trial!BoundedInduction
<1> QED BY <1>1, <1>2, <1>6, TrialIsFold

\* One entry more in a part of the log.
LEMMA WindowGrows ==
    ASSUME NEW E, Sound(E), NEW q \in Seq(E), NEW a \in Nat \ {0}, NEW j \in Nat,
           a <= j + 1, j < Len(q), NEW on_key
    PROVE  /\ NetOn(TrialBalanceOf(SubSeq(q, a, j + 1)), on_key) =
                NetOn(TrialBalanceOf(SubSeq(q, a, j)), on_key) + Effect(q[j + 1].postings, on_key)
           /\ NetOn(TrialBalanceOf(SubSeq(q, a, j)), on_key) \in Int
           /\ Effect(q[j + 1].postings, on_key) \in Int
<1> DEFINE w == SubSeq(q, a, j)
           e == q[j + 1]
<1>1. w \in Seq(E) /\ e \in E /\ SubSeq(q, a, j + 1) = Append(w, e)
  OBVIOUS
<1>2. e.postings \in Seq(Posting)
  BY <1>1 DEF Sound
<1> HIDE DEF w, e
<1>3. TrialBalanceOf(Append(w, e)) = apply_all(TrialBalanceOf(w), e.postings)
  BY <1>1, Trial!FoldAppend, TrialIsFold DEF TrialStep
<1>4. HoldsBalances(TrialBalanceOf(w))
  BY <1>1, TrialHoldsBalances
<1>5. NetOn(TrialBalanceOf(Append(w, e)), on_key) = NetOn(TrialBalanceOf(w), on_key) + Effect(e.postings, on_key)
      /\ NetOn(TrialBalanceOf(w), on_key) \in Int /\ Effect(e.postings, on_key) \in Int
  BY <1>2, <1>3, <1>4, ApplyAddsEffect
<1> QED BY <1>1, <1>5 DEF w, e

\* What was booked up to i is what was booked up to `read`, and after it.
LEMMA WindowSplits ==
    ASSUME NEW E, Sound(E), NEW q \in Seq(E), NEW read \in 0..Len(q), NEW i \in read..Len(q), NEW on_key
    PROVE  /\ NetOn(TrialBalanceOf(SubSeq(q, 1, i)), on_key) =
                NetOn(TrialBalanceOf(SubSeq(q, 1, read)), on_key)
                + NetOn(TrialBalanceOf(SubSeq(q, read + 1, i)), on_key)
           /\ NetOn(TrialBalanceOf(SubSeq(q, 1, read)), on_key) \in Int
           /\ NetOn(TrialBalanceOf(SubSeq(q, read + 1, i)), on_key) \in Int
<1> DEFINE G(j) == NetOn(TrialBalanceOf(SubSeq(q, 1, j)), on_key)
           H(j) == NetOn(TrialBalanceOf(SubSeq(q, read + 1, j)), on_key)
           m == i - read
           T == {d \in 0..m : G(read + d) = G(read) + H(read + d) /\ H(read + d) \in Int}
<1>1. G(read) \in Int
  <2>1. SubSeq(q, 1, read) \in Seq(E)
    OBVIOUS
  <2> QED BY <2>1, TrialHoldsBalances, RowsAreBalances
<1>2. m \in Nat /\ read \in Nat /\ read + m = i
  OBVIOUS
<1>3. 0 \in T
  <2>1. SubSeq(q, read + 1, read) = <<>> /\ read + 0 = read
    OBVIOUS
  <2>2. TrialBalanceOf(<<>>) = EmptyMap
    BY TrialIsFold, Trial!FoldEmpty
  <2>3. NetOn(EmptyMap, on_key) = 0
    BY DEF EmptyMap, NetOn, get_or_zero, Balance_ZERO
  <2>4. H(read) = 0
    BY <2>1, <2>2, <2>3
  <2> HIDE DEF G, H
  <2> QED BY <1>1, <1>2, <2>1, <2>4
<1>4. ASSUME NEW d \in 0..(m - 1), d \in T PROVE d + 1 \in T
  <2> DEFINE j == read + d
             x == Effect(q[j + 1].postings, on_key)
  <2>1. j \in Nat /\ j < Len(q) /\ read + 1 <= j + 1 /\ read + 1 \in Nat \ {0} /\ 1 \in Nat \ {0} /\ 1 <= j + 1
        /\ read + (d + 1) = j + 1 /\ d + 1 \in 0..m
    BY <1>2
  <2> HIDE DEF j
  <2>2. G(j + 1) = G(j) + x /\ G(j) \in Int /\ x \in Int
    <3> DEFINE one == 1
    <3>1. one \in Nat \ {0} /\ one <= j + 1
      BY <2>1
    <3> HIDE DEF one
    <3>2. /\ NetOn(TrialBalanceOf(SubSeq(q, one, j + 1)), on_key) =
                NetOn(TrialBalanceOf(SubSeq(q, one, j)), on_key) + x
          /\ NetOn(TrialBalanceOf(SubSeq(q, one, j)), on_key) \in Int /\ x \in Int
      BY <2>1, <3>1, WindowGrows
    <3> QED BY <3>2 DEF one
  <2>3. H(j + 1) = H(j) + x /\ H(j) \in Int
    BY <2>1, WindowGrows
  <2>4. G(j) = G(read) + H(j)
    BY <1>4 DEF j
  <2> HIDE DEF G, H, x
  <2>5. G(j + 1) = G(read) + H(j + 1) /\ H(j + 1) \in Int
    BY <1>1, <2>2, <2>3, <2>4
  <2> QED BY <2>1, <2>5
<1>5. \A d \in 0..m : d \in T
  <2> HIDE DEF T, m
  <2> QED BY <1>2, <1>3, <1>4, Trial!BoundedInduction
<1>6. m \in T
  <2> HIDE DEF T, m
  <2> QED BY <1>2, <1>5
<1>7. G(read + m) = G(read) + H(read + m) /\ H(read + m) \in Int
  BY <1>6
<1> HIDE DEF G, H, m
<1>8. G(i) = G(read) + H(i) /\ H(i) \in Int
  BY <1>2, <1>7
<1> QED BY <1>1, <1>8 DEF G, H

-----------------------------------------------------------------------------
(***************************************************************************)
(* Sums over a sequence of sites.                                          *)
(***************************************************************************)
SumStep(w, sum, s) == sum + w[s]

Weights == INSTANCE Folding WITH Op <- SumStep

SumOver(w, q) == Weights!Fold(w, 0, q)

\* A sum, one site at a time.
LEMMA SumTrace ==
    ASSUME NEW w, NEW S, NEW q \in Seq(S)
    PROVE  /\ Len(q) \in Nat /\ DOMAIN q = 1..Len(q)
           /\ \E t : /\ t[0] = 0
                     /\ \A j \in 0..(Len(q) - 1) : t[j + 1] = t[j] + w[q[j + 1]]
                     /\ SumOver(w, q) = t[Len(q)]
<1> DEFINE n == Len(q)
<1>1. n \in Nat /\ DOMAIN q = 1..n
  OBVIOUS
<1> HIDE DEF n
<1>2. PICK t : Weights!IsTrace(t, w, 0, q, n) /\ Weights!Fold(w, 0, q) = t[n]
  BY <1>1, Weights!FoldTrace
<1>3. t[0] = 0 /\ \A j \in 0..(n - 1) : t[j + 1] = t[j] + w[q[j + 1]]
  BY <1>2 DEF Weights!IsTrace, SumStep
<1> QED BY <1>1, <1>2, <1>3 DEF SumOver, n

\* Sums add up.
LEMMA SumLinear ==
    ASSUME NEW S, NEW q \in Seq(S), NEW u, NEW v, NEW w,
           \A s \in Elements(q) : u[s] \in Int /\ v[s] \in Int /\ w[s] = u[s] + v[s]
    PROVE  /\ SumOver(u, q) \in Int /\ SumOver(v, q) \in Int
           /\ SumOver(w, q) = SumOver(u, q) + SumOver(v, q)
<1> DEFINE n == Len(q)
<1>1. n \in Nat /\ DOMAIN q = 1..n
  BY SumTrace
<1>2. PICK x : /\ x[0] = 0
               /\ \A j \in 0..(n - 1) : x[j + 1] = x[j] + u[q[j + 1]]
               /\ SumOver(u, q) = x[n]
  BY SumTrace
<1>3. PICK y : /\ y[0] = 0
               /\ \A j \in 0..(n - 1) : y[j + 1] = y[j] + v[q[j + 1]]
               /\ SumOver(v, q) = y[n]
  BY SumTrace
<1>4. PICK z : /\ z[0] = 0
               /\ \A j \in 0..(n - 1) : z[j + 1] = z[j] + w[q[j + 1]]
               /\ SumOver(w, q) = z[n]
  BY SumTrace
<1>5. \A j \in 0..(n - 1) : /\ u[q[j + 1]] \in Int /\ v[q[j + 1]] \in Int
                            /\ w[q[j + 1]] = u[q[j + 1]] + v[q[j + 1]]
  BY <1>1 DEF Elements
<1> HIDE DEF n
<1> DEFINE T == {j \in Nat : x[j] \in Int /\ y[j] \in Int /\ z[j] = x[j] + y[j]}
<1>6. \A j \in 0..n : j \in T
  <2>1. 0 \in T
    BY <1>2, <1>3, <1>4
  <2>2. ASSUME NEW j \in 0..(n - 1), j \in T PROVE j + 1 \in T
    <3>1. j + 1 \in Nat
      BY <1>1
    <3>2. x[j] \in Int /\ y[j] \in Int /\ z[j] = x[j] + y[j]
      BY <2>2
    <3>3. /\ x[j + 1] = x[j] + u[q[j + 1]] /\ y[j + 1] = y[j] + v[q[j + 1]]
          /\ z[j + 1] = z[j] + w[q[j + 1]]
      BY <1>2, <1>3, <1>4
    <3> DEFINE a == u[q[j + 1]]
               b == v[q[j + 1]]
               c == w[q[j + 1]]
    <3>4. a \in Int /\ b \in Int /\ c = a + b
      BY <1>5
    <3>5. x[j + 1] = x[j] + a /\ y[j + 1] = y[j] + b /\ z[j + 1] = z[j] + c
      BY <3>3
    <3> HIDE DEF a, b, c
    <3>6. x[j + 1] \in Int /\ y[j + 1] \in Int /\ z[j + 1] = x[j + 1] + y[j + 1]
      BY <3>2, <3>4, <3>5
    <3> QED BY <3>1, <3>6
  <2> HIDE DEF T
  <2> QED BY <1>1, <2>1, <2>2, Weights!BoundedInduction
<1>7. n \in T
  <2> HIDE DEF T
  <2> QED BY <1>1, <1>6
<1> QED BY <1>2, <1>3, <1>4, <1>7

\* A sum of nothing.
LEMMA SumZero ==
    ASSUME NEW S, NEW q \in Seq(S), NEW w, \A s \in Elements(q) : w[s] = 0
    PROVE  SumOver(w, q) = 0
<1>1. \A s \in Elements(q) : w[s] \in Int /\ w[s] = w[s] + w[s]
  OBVIOUS
<1>2. SumOver(w, q) \in Int /\ SumOver(w, q) = SumOver(w, q) + SumOver(w, q)
  BY <1>1, SumLinear
<1> QED BY <1>2

\* Weights that agree add up to the same.
LEMMA SumCongruent ==
    ASSUME NEW S, NEW q \in Seq(S), NEW u, NEW w, \A s \in Elements(q) : u[s] \in Int /\ w[s] = u[s]
    PROVE  SumOver(w, q) = SumOver(u, q) /\ SumOver(u, q) \in Int
<1> DEFINE v == [s \in Elements(q) |-> 0]
<1>1. \A s \in Elements(q) : u[s] \in Int /\ v[s] = 0 /\ v[s] \in Int /\ w[s] = u[s] + v[s]
  OBVIOUS
<1> HIDE DEF v
<1>2. SumOver(w, q) = SumOver(u, q) + SumOver(v, q) /\ SumOver(u, q) \in Int
  BY <1>1, SumLinear
<1>3. SumOver(v, q) = 0
  BY <1>1, SumZero
<1> QED BY <1>2, <1>3

\* Only one site weighs anything.
LEMMA SumOfOne ==
    ASSUME NEW S, NEW q \in Seq(S), NEW w, NEW m \in DOMAIN q, w[q[m]] \in Int,
           \A n \in DOMAIN q : n # m => w[q[n]] = 0
    PROVE  SumOver(w, q) = w[q[m]]
<1> DEFINE n == Len(q)
           a == w[q[m]]
<1>1. n \in Nat /\ DOMAIN q = 1..n /\ m \in 1..n /\ a \in Int
  BY SumTrace
<1>2. PICK t : /\ t[0] = 0
               /\ \A j \in 0..(n - 1) : t[j + 1] = t[j] + w[q[j + 1]]
               /\ SumOver(w, q) = t[n]
  BY SumTrace
<1>3. \A j \in 0..(n - 1) : w[q[j + 1]] = IF j + 1 = m THEN a ELSE 0
  BY <1>1
<1> HIDE DEF n, a
<1> DEFINE T == {j \in Nat : t[j] = IF j < m THEN 0 ELSE a}
<1>4. \A j \in 0..n : j \in T
  <2>1. 0 \in T
    BY <1>1, <1>2
  <2>2. ASSUME NEW j \in 0..(n - 1), j \in T PROVE j + 1 \in T
    <3>1. j + 1 \in Nat /\ j \in Nat /\ m \in Nat
      BY <1>1
    <3>2. t[j] = IF j < m THEN 0 ELSE a
      BY <2>2
    <3>3. t[j + 1] = t[j] + IF j + 1 = m THEN a ELSE 0
      BY <1>2, <1>3
    <3>4. t[j + 1] = IF j + 1 < m THEN 0 ELSE a
      BY <1>1, <3>1, <3>2, <3>3
    <3> QED BY <3>1, <3>4
  <2> HIDE DEF T
  <2> QED BY <1>1, <2>1, <2>2, Weights!BoundedInduction
<1>5. n \in T /\ ~(n < m)
  <2> HIDE DEF T
  <2> QED BY <1>1, <1>4
<1> QED BY <1>2, <1>5 DEF a

\* Leaving out sites that weigh nothing.
LEMMA SumRetained ==
    ASSUME NEW q \in Seq(Site), NEW mark, NEW w,
           \A s \in Elements(q) : w[s] \in Int /\ (s.index <= mark \/ w[s] = 0)
    PROVE  SumOver(w, retain(q, mark)) = SumOver(w, q)
<1> DEFINE n == Len(q)
<1>1. n \in Nat /\ DOMAIN q = 1..n
  BY SumTrace
<1>2. PICK t : /\ t[0] = 0
               /\ \A j \in 0..(n - 1) : t[j + 1] = t[j] + w[q[j + 1]]
               /\ SumOver(w, q) = t[n]
  BY SumTrace
<1> HIDE DEF n
<1>3. PICK r : Retain!IsTrace(r, mark, <<>>, q, n) /\ Retain!Fold(mark, <<>>, q) = r[n]
  BY <1>1, Retain!FoldTrace
<1>4. r[0] = <<>> /\ \A j \in 0..(n - 1) : r[j + 1] = RetainStep(mark, r[j], q[j + 1])
  BY <1>3 DEF Retain!IsTrace
<1>5. \A j \in 0..(n - 1) : /\ q[j + 1] \in Site /\ w[q[j + 1]] \in Int
                            /\ q[j + 1].index <= mark \/ w[q[j + 1]] = 0
  BY <1>1 DEF Elements
<1> DEFINE T == {j \in Nat : r[j] \in Seq(Site) /\ t[j] \in Int /\ SumOver(w, r[j]) = t[j]}
<1>6. \A j \in 0..n : j \in T
  <2>1. 0 \in T
    <3>1. SumOver(w, <<>>) = 0
      BY Weights!FoldEmpty DEF SumOver
    <3>2. r[0] \in Seq(Site) /\ t[0] \in Int /\ SumOver(w, r[0]) = t[0]
      <4>1. r[0] = <<>> /\ t[0] = 0
        BY <1>2, <1>4
      <4> QED BY <4>1, <3>1
    <3> QED BY <3>2
  <2>2. ASSUME NEW j \in 0..(n - 1), j \in T PROVE j + 1 \in T
    <3> DEFINE s == q[j + 1]
               p == r[j]
    <3>1. j + 1 \in Nat
      BY <1>1
    <3>2. p \in Seq(Site) /\ t[j] \in Int /\ SumOver(w, p) = t[j]
      BY <2>2
    <3>3. t[j + 1] = t[j] + w[s] /\ r[j + 1] = RetainStep(mark, p, s) /\ s \in Site /\ w[s] \in Int
          /\ (s.index <= mark \/ w[s] = 0)
      BY <1>2, <1>4, <1>5
    <3> HIDE DEF s, p
    <3>4. CASE s.index <= mark
      <4>1. r[j + 1] = Append(p, s) /\ Append(p, s) \in Seq(Site)
        BY <3>2, <3>3, <3>4 DEF RetainStep
      <4>2. SumOver(w, Append(p, s)) = SumOver(w, p) + w[s]
        BY <3>2, Weights!FoldAppend DEF SumOver, SumStep
      <4>3. r[j + 1] \in Seq(Site) /\ t[j + 1] \in Int /\ SumOver(w, r[j + 1]) = t[j + 1]
        <5>1. r[j + 1] \in Seq(Site) /\ SumOver(w, r[j + 1]) = SumOver(w, p) + w[s]
          BY <4>1, <4>2
        <5>2. t[j + 1] \in Int /\ SumOver(w, p) + w[s] = t[j + 1]
          BY <3>2, <3>3
        <5> QED BY <5>1, <5>2
      <4> QED BY <3>1, <4>3
    <3>5. CASE ~(s.index <= mark)
      <4>1. r[j + 1] = p /\ w[s] = 0
        BY <3>3, <3>5 DEF RetainStep
      <4> QED BY <3>1, <3>2, <3>3, <4>1
    <3> QED BY <3>4, <3>5
  <2> HIDE DEF T
  <2> QED BY <1>1, <2>1, <2>2, Weights!BoundedInduction
<1>7. n \in T
  <2> HIDE DEF T
  <2> QED BY <1>1, <1>6
<1> QED BY <1>2, <1>3, <1>7, RetainIsFold

\* What a site books, debit positive.
Signed(direction, x) == IF direction = "Debit" THEN x ELSE 0 - x

BookedAt(b) == [s \in Site |-> Signed(resolve(b, s).direction, resolve(b, s).amount)]

\* A key has each of its sites once.
LEMMA SitesComeOnce ==
    ASSUME NEW E, NEW b, BooksInv(b, E), NEW k
    PROVE  LET q == SitesOn(b.sites, k)
           IN  /\ q \in Seq(Site) /\ Elements(q) = SitesFor(b, k)
               /\ \A m, n \in DOMAIN q : q[m] = q[n] => m = n
<1> DEFINE q == SitesOn(b.sites, k)
<1>1. q \in Seq(Site) /\ Elements(q) = SitesFor(b, k)
  BY SitesOnKey
<1>2. ASSUME NEW m \in DOMAIN q, NEW n \in DOMAIN q, m < n PROVE q[m] # q[n]
  <2>1. k \in DOMAIN b.sites /\ q = b.sites[k]
    BY DEF SitesOn
  <2>2. InLogOrder(q)
    BY <2>1 DEF BooksInv, SitesExact
  <2> HIDE DEF q
  <2>3. Before(q[m], q[n]) /\ q[m] \in Site /\ q[n] \in Site
    BY <1>1, <1>2, <2>2 DEF InLogOrder
  <2> QED BY <2>3 DEF Before, Site
<1>3. \A m, n \in DOMAIN q : m = n \/ m < n \/ n < m
  <2> HIDE DEF q
  <2> QED BY <1>1
<1> QED BY <1>1, <1>2, <1>3

\* What the lines of a key are: postings of recorded entries, on that key.
LEMMA SitesAreTyped ==
    ASSUME NEW E, Sound(E), NEW b, BooksInv(b, E), NEW k, NEW s \in SitesFor(b, k)
    PROVE  /\ s \in Site /\ s.index \in Indices(b)
           /\ resolve(b, s) \in Posting /\ key_of(resolve(b, s)) = k
<1>1. /\ s \in [index : Indices(b), posting : 1..MaxPostings]
      /\ s.posting \in DOMAIN b.entries[s.index].postings /\ key_of(resolve(b, s)) = k
  BY DEF SitesFor
<1>2. s.index \in Indices(b) /\ s = [index |-> s.index, posting |-> s.posting]
  BY <1>1
<1>3. b.entries[s.index] \in E /\ Indices(b) \subseteq Nat
  BY <1>2 DEF BooksInv, Indices
<1>4. s \in Site
  BY <1>1, <1>3 DEF Site
<1>5. resolve(b, s) \in Posting
  BY <1>1, <1>3 DEF resolve, Sound
<1> QED BY <1>1, <1>2, <1>4, <1>5

\* What the sites of a key book is its balance.
LEMMA SitesBookTheBalance ==
    ASSUME NEW E, Sound(E), NEW b, BooksInv(b, E), NEW k
    PROVE  SumOver(BookedAt(b), SitesOn(b.sites, k)) = NetOn(b.balances, k)
<1> DEFINE q == SitesOn(b.sites, k)
           n == Len(q)
           ctx == [books |-> b, size |-> Len(b.entries)]
           w == BookedAt(b)
<1>1. q \in Seq(Site) /\ n \in Nat /\ DOMAIN q = 1..n
  <2>1. q \in Seq(Site)
    BY SitesComeOnce
  <2> HIDE DEF q
  <2> QED BY <2>1
<1>2. \A s \in Elements(q) : s \in Site /\ s.index <= Len(b.entries) /\ resolve(b, s) \in Posting
  <2>1. ASSUME NEW s \in SitesFor(b, k) PROVE s \in Site /\ s.index <= Len(b.entries) /\ resolve(b, s) \in Posting
    <3>1. s.index \in Indices(b) /\ s \in Site /\ resolve(b, s) \in Posting
      BY SitesAreTyped
    <3>2. b.entries \in Seq(E)
      BY DEF BooksInv
    <3> QED BY <3>1, <3>2 DEF Indices
  <2> QED BY <2>1, SitesComeOnce
<1>3. get_or_zero(b.balances, k) = Balance!Fold(ctx, Balance_ZERO, q)
  <2>1. b.entries \in Seq(E) /\ SubSeq(b.entries, 1, Len(b.entries)) = b.entries /\ Len(b.entries) \in Nat
    BY DEF BooksInv
  <2>2. Len(b.entries) \in 0..Len(b.entries)
    BY <2>1
  <2>3. balance_at(b, k, Len(b.entries)) = get_or_zero(b.balances, k)
    BY <2>1, <2>2 DEF BooksInv, BalancesExact
  <2> QED BY <2>3, BalanceIsFold
<1> HIDE DEF q, n, ctx, w
<1>4. PICK t : Balance!IsTrace(t, ctx, Balance_ZERO, q, n) /\ Balance!Fold(ctx, Balance_ZERO, q) = t[n]
  BY <1>1, Balance!FoldTrace
<1>5. /\ t[0] = Balance_ZERO
      /\ \A j \in 0..(n - 1) : t[j + 1] = BalanceStep(ctx, t[j], q[j + 1])
  BY <1>4 DEF Balance!IsTrace
<1>6. PICK x : /\ x[0] = 0
               /\ \A j \in 0..(n - 1) : x[j + 1] = x[j] + w[q[j + 1]]
               /\ SumOver(w, q) = x[n]
  BY <1>1, SumTrace DEF n
<1> DEFINE T == {j \in Nat : IsBalance(t[j]) /\ x[j] = t[j].debits - t[j].credits}
<1>7. \A j \in 0..n : j \in T
  <2>1. 0 \in T
    BY <1>5, <1>6 DEF Balance_ZERO, IsBalance
  <2>2. ASSUME NEW j \in 0..(n - 1), j \in T PROVE j + 1 \in T
    <3> DEFINE s == q[j + 1]
               p == resolve(b, s)
               row == t[j]
               next == t[j + 1]
    <3>1. j + 1 \in Nat /\ j + 1 \in 1..n /\ s \in Elements(q)
      BY <1>1 DEF Elements
    <3>2. s \in Site /\ s.index <= Len(b.entries) /\ p \in Posting
      BY <1>2, <3>1
    <3>3. next = add(row, p)
      BY <1>5, <3>2 DEF BalanceStep, ctx
    <3>4. x[j + 1] = x[j] + Signed(p.direction, p.amount)
      BY <1>6, <3>2 DEF w, BookedAt
    <3>5. IsBalance(row) /\ x[j] = row.debits - row.credits
      BY <2>2
    <3>6. p.amount \in Int /\ (p.direction = "Debit" \/ p.direction = "Credit")
      BY <3>2 DEF Posting, Direction
    <3> HIDE DEF s, p, row, next
    <3>7. IsBalance(next)
      BY <3>2, <3>3, <3>5, AddMoves
    <3>8. x[j + 1] = next.debits - next.credits
      <4>1. row.debits \in Int /\ row.credits \in Int
        BY <3>5 DEF IsBalance
      <4>2. CASE p.direction = "Debit"
        <5>1. next.debits = row.debits + p.amount /\ next.credits = row.credits
          BY <3>2, <3>3, <3>5, <4>2, AddMoves
        <5> QED BY <3>4, <3>5, <3>6, <4>1, <4>2, <5>1 DEF Signed
      <4>3. CASE p.direction = "Credit"
        <5>1. next.credits = row.credits + p.amount /\ next.debits = row.debits
          BY <3>2, <3>3, <3>5, <4>3, AddMoves
        <5> QED BY <3>4, <3>5, <3>6, <4>1, <4>3, <5>1 DEF Signed
      <4> QED BY <3>6, <4>2, <4>3
    <3> QED BY <3>1, <3>7, <3>8 DEF next
  <2> HIDE DEF T
  <2> QED BY <1>1, <2>1, <2>2, Balance!BoundedInduction
<1>8. n \in T
  <2> HIDE DEF T
  <2> QED BY <1>1, <1>7
<1>9. x[n] = NetOn(b.balances, k)
  BY <1>3, <1>4, <1>8 DEF NetOn
<1> QED BY <1>6, <1>9 DEF w, q

-----------------------------------------------------------------------------
(***************************************************************************)
(* Calendars and registries.                                               *)
(***************************************************************************)
\* One step of from_periods: the next stored period is defined, or refused.
Redefined(ctx, acc, p) ==
    IF acc.ok /\ CanDefine(acc.calendar, p)
    THEN [ok |-> TRUE, calendar |-> define(acc.calendar, p)]
    ELSE [acc EXCEPT !.ok = FALSE]

Replay == INSTANCE Folding WITH Op <- Redefined

\* A non-empty set of dates none of which is after b has a last one.
LEMMA HasGreatest ==
    ASSUME NEW T \in SUBSET Nat, T # {}, NEW b \in Nat, \A x \in T : x <= b
    PROVE  \E x \in T : \A y \in T : y <= x
<1> DEFINE D == {b - x : x \in T}
<1>1. D \in SUBSET Nat /\ D # {}
  <2>1. \A x \in T : b - x \in Nat
    OBVIOUS
  <2>2. QED
    BY <2>1, Zenon DEF D
<1>2. PICK d \in D : \A y \in D : d <= y
  BY <1>1, Replay!LeastNatural
<1>3. PICK x \in T : d = b - x
  BY <1>2
<1>4. \A y \in T : y <= x
  BY <1>2, <1>3
<1>5. QED
  BY <1>3, <1>4

-----------------------------------------------------------------------------
\* A calendar every operation leaves: its type, its index, and no overlap.
WellFormed(cal) == IsCalendar(cal) /\ IsIndexed(cal) /\ IsDisjoint(cal)

\* Comparing with the two neighbours by start date is comparing with every
\* period: the claim in the comment of PeriodCalendar::define.
LEMMA NeighboursSuffice ==
    ASSUME NEW cal, WellFormed(cal), NEW p \in Period, CanDefine(cal, p),
           NEW id \in DOMAIN cal.periods
    PROVE  ~overlaps(cal.periods[id], p)
<1> DEFINE q == cal.periods[id]
           starts == DOMAIN cal.by_start
<1>1. q \in Period /\ q.start \in starts /\ starts \subseteq Nat
  BY DatesArePositive DEF WellFormed, IsCalendar, IsIndexed
<1>2. p.start \in Nat /\ p.end \in Nat /\ p.start <= p.end
      /\ q.start \in Nat /\ q.end \in Nat /\ q.start <= q.end
  BY <1>1, DatesArePositive DEF Period
<1>3. ASSUME q.start <= p.start PROVE ~overlaps(q, p)
  <2> DEFINE T == {s \in starts : s <= p.start}
  <2>1. T \in SUBSET Nat /\ T # {} /\ \A x \in T : x <= p.start
    BY <1>1, <1>3 DEF T
  <2>2. PICK s \in T : \A y \in T : y <= s
    BY <2>1, <1>2, HasGreatest
  <2>3. s \in StartBefore(cal, p.start)
    BY <2>2 DEF StartBefore, T
  <2> DEFINE b == cal.periods[cal.by_start[s]]
  <2>4. cal.by_start[s] \in DOMAIN cal.periods /\ b \in Period /\ b.start = s
    BY <2>2 DEF WellFormed, IsCalendar, IsIndexed, T
  <2>5. ~overlaps(b, p)
    BY <2>3 DEF CanDefine, b
  <2>6. q.start <= b.start /\ b.start \in Nat /\ b.end \in Nat
    BY <2>2, <2>4, <1>1, <1>3, DatesArePositive DEF T, Period
  <2>7. CASE cal.by_start[s] = id
    BY <2>5, <2>7 DEF b
  <2>8. CASE cal.by_start[s] # id
    <3>1. ~overlaps(q, b)
      BY <2>4, <2>8 DEF WellFormed, IsDisjoint, b, q
    <3>2. b.start <= b.end
      BY <2>4 DEF Period
    <3>3. b.start <= p.start
      BY <2>2, <2>4 DEF T
    <3>4. QED
      BY <3>1, <3>2, <3>3, <2>6, <1>2 DEF overlaps
  <2>9. QED
    BY <2>7, <2>8
<1>4. ASSUME ~(q.start <= p.start) PROVE ~overlaps(q, p)
  <2> DEFINE T == {s \in starts : s >= p.start}
  <2>1. T \in SUBSET Nat /\ T # {}
    BY <1>1, <1>2, <1>4 DEF T
  <2>2. PICK s \in T : \A y \in T : s <= y
    BY <2>1, Replay!LeastNatural
  <2>3. s \in StartAfter(cal, p.start)
    BY <2>1, <2>2 DEF StartAfter, T
  <2> DEFINE a == cal.periods[cal.by_start[s]]
  <2>4. cal.by_start[s] \in DOMAIN cal.periods /\ a \in Period /\ a.start = s
    BY <2>2 DEF WellFormed, IsCalendar, IsIndexed, T
  <2>5. ~overlaps(a, p)
    BY <2>3 DEF CanDefine, a
  <2>6. p.start <= a.start /\ a.start <= q.start
    BY <2>2, <2>4, <1>1, <1>2, <1>4 DEF T
  <2>7. a.start \in Nat /\ a.end \in Nat /\ a.start <= a.end
    BY <2>4, DatesArePositive DEF Period
  <2>8. QED
    BY <2>5, <2>6, <2>7, <1>2 DEF overlaps
<1>5. QED
  BY <1>3, <1>4

-----------------------------------------------------------------------------
\* define keeps a calendar well formed.
LEMMA DefineWellFormed ==
    ASSUME NEW cal, WellFormed(cal), NEW p \in Period, CanDefine(cal, p)
    PROVE  WellFormed(define(cal, p))
<1> DEFINE new == define(cal, p)
<1>1. /\ new = [periods |-> Insert(cal.periods, p.id, p),
                by_start |-> Insert(cal.by_start, p.start, p.id),
                sealed_through |-> mark_sealed_through(cal, p)]
      /\ new.periods = Insert(cal.periods, p.id, p)
      /\ new.by_start = Insert(cal.by_start, p.start, p.id)
      /\ new.sealed_through = mark_sealed_through(cal, p)
  BY DEF define
<1> HIDE DEF new
<1>2. p.id \in PeriodIds /\ p.start \in Dates /\ p.end \in Dates /\ p.start <= p.end
  BY DEF Period
<1>3. p.id \notin DOMAIN cal.periods
  BY DEF CanDefine
<1>4. p.start \notin DOMAIN cal.by_start
  <2> SUFFICES ASSUME p.start \in DOMAIN cal.by_start PROVE FALSE
    OBVIOUS
  <2> DEFINE id == cal.by_start[p.start]
  <2>1. id \in DOMAIN cal.periods /\ cal.periods[id].start = p.start /\ cal.periods[id] \in Period
    BY DEF WellFormed, IsCalendar, IsIndexed
  <2>2. ~overlaps(cal.periods[id], p)
    BY <2>1, NeighboursSuffice
  <2>3. QED
    BY <2>1, <2>2, <1>2, DatesArePositive DEF overlaps, Period
<1>5. IsCalendar(new)
  <2>1. new.periods \in [DOMAIN new.periods -> Period]
        /\ DOMAIN new.periods \subseteq PeriodIds
    BY <1>1, <1>2 DEF WellFormed, IsCalendar, Insert
  <2>2. new.by_start \in [DOMAIN new.by_start -> PeriodIds]
        /\ DOMAIN new.by_start \subseteq Dates
    BY <1>1, <1>2 DEF WellFormed, IsCalendar, Insert
  <2>3. new.sealed_through \in Dates \cup {NoDate}
    BY <1>1, <1>2 DEF WellFormed, IsCalendar, mark_sealed_through
  <2>4. QED
    BY <1>1, <2>1, <2>2, <2>3 DEF IsCalendar
<1>6. IsIndexed(new)
  BY <1>1, <1>3, <1>4 DEF WellFormed, IsIndexed, Insert
<1>7. IsDisjoint(new)
  <2>1. \A id \in DOMAIN cal.periods : ~overlaps(cal.periods[id], p) /\ ~overlaps(p, cal.periods[id])
    BY NeighboursSuffice DEF overlaps
  <2>2. QED
    BY <2>1, <1>1, <1>3 DEF WellFormed, IsDisjoint, Insert
<1>8. QED
  BY <1>5, <1>6, <1>7 DEF WellFormed, new

\* Storing a period over the one of the same range, in any state, keeps a
\* calendar well formed: what ensure does to a known period, and transition.
LEMMA RestoreWellFormed ==
    ASSUME NEW cal, WellFormed(cal), NEW p \in Period, p.id \in DOMAIN cal.periods,
           cal.periods[p.id].start = p.start, cal.periods[p.id].end = p.end
    PROVE  WellFormed([periods        |-> Insert(cal.periods, p.id, p),
                       by_start       |-> cal.by_start,
                       sealed_through |-> mark_sealed_through(cal, p)])
<1> DEFINE new == [periods        |-> Insert(cal.periods, p.id, p),
                   by_start       |-> cal.by_start,
                   sealed_through |-> mark_sealed_through(cal, p)]
<1>1. /\ new.periods = Insert(cal.periods, p.id, p)
      /\ new.by_start = cal.by_start
      /\ new.sealed_through = mark_sealed_through(cal, p)
      /\ new = [periods |-> new.periods, by_start |-> new.by_start,
                sealed_through |-> new.sealed_through]
  BY DEF new
<1> HIDE DEF new
<1>2. p.id \in PeriodIds /\ p.start \in Dates /\ p.end \in Dates /\ p.start <= p.end
  BY DEF Period
<1>3. IsCalendar(new)
  <2>1. new.periods \in [DOMAIN new.periods -> Period]
        /\ DOMAIN new.periods \subseteq PeriodIds
    BY <1>1, <1>2 DEF WellFormed, IsCalendar, Insert
  <2>2. new.sealed_through \in Dates \cup {NoDate}
    BY <1>1, <1>2 DEF WellFormed, IsCalendar, mark_sealed_through
  <2>3. QED
    BY <1>1, <2>1, <2>2 DEF WellFormed, IsCalendar
<1>4. \A id \in DOMAIN cal.periods : /\ new.periods[id].start = cal.periods[id].start
                                     /\ new.periods[id].end = cal.periods[id].end
                                     /\ new.periods[id].id = id
  BY <1>1 DEF WellFormed, IsIndexed, Insert
<1>5. DOMAIN new.periods = DOMAIN cal.periods
  BY <1>1 DEF Insert
<1>6. IsIndexed(new)
  BY <1>1, <1>4, <1>5 DEF WellFormed, IsIndexed
<1>7. IsDisjoint(new)
  BY <1>4, <1>5 DEF WellFormed, IsDisjoint, overlaps
<1>8. QED
  BY <1>3, <1>6, <1>7 DEF WellFormed, new

\* transition keeps a calendar well formed.
LEMMA TransitionWellFormed ==
    ASSUME NEW cal, WellFormed(cal), NEW id, NEW to \in PeriodState, CanTransition(cal, id, to)
    PROVE  /\ moved_to(cal, id, to) \in Period
           /\ moved_to(cal, id, to).id = id
           /\ moved_to(cal, id, to).state = to
           /\ moved_to(cal, id, to).start = cal.periods[id].start
           /\ moved_to(cal, id, to).end = cal.periods[id].end
           /\ WellFormed(transition(cal, id, to))
<1>1. id \in DOMAIN cal.periods /\ cal.periods[id] \in Period /\ cal.periods[id].id = id
  BY DEF CanTransition, WellFormed, IsCalendar, IsIndexed
<1>2. /\ moved_to(cal, id, to) \in Period
      /\ moved_to(cal, id, to).id = id
      /\ moved_to(cal, id, to).state = to
      /\ moved_to(cal, id, to).start = cal.periods[id].start
      /\ moved_to(cal, id, to).end = cal.periods[id].end
  BY <1>1 DEF moved_to, Period
<1>3. WellFormed(transition(cal, id, to))
  BY <1>1, <1>2, RestoreWellFormed DEF transition
<1>4. QED
  BY <1>2, <1>3

\* ensure keeps a calendar well formed, whatever state the period carries.
LEMMA EnsureWellFormed ==
    ASSUME NEW cal, WellFormed(cal), NEW p \in Period, CanEnsure(cal, p)
    PROVE  WellFormed(ensure(cal, p))
<1>1. CASE p.id \in DOMAIN cal.periods
  BY <1>1, RestoreWellFormed DEF CanEnsure, ensure
<1>2. CASE p.id \notin DOMAIN cal.periods
  BY <1>2, DefineWellFormed DEF CanEnsure, ensure
<1>3. QED
  BY <1>1, <1>2

-----------------------------------------------------------------------------
\* The watermark never moves back, and covers p if p is sealed.
LEMMA MarkMovesForward ==
    ASSUME NEW cal, IsCalendar(cal), NEW p \in Period
    PROVE  /\ mark_sealed_through(cal, p) \in Nat
           /\ cal.sealed_through \in Nat
           /\ cal.sealed_through <= mark_sealed_through(cal, p)
           /\ p.state = "Sealed" => p.end <= mark_sealed_through(cal, p)
           /\ mark_sealed_through(cal, p) # cal.sealed_through =>
                 p.state = "Sealed" /\ p.end = mark_sealed_through(cal, p)
  BY DatesArePositive DEF mark_sealed_through, IsCalendar, Period, NoDate

\* Storing p keeps every sealed period at or below the watermark.
LEMMA StoreKeepsSealedBelow ==
    ASSUME NEW cal, IsCalendar(cal), SealedBelowWatermark(cal), NEW p \in Period,
           NEW new, new.periods = Insert(cal.periods, p.id, p),
           new.sealed_through = mark_sealed_through(cal, p)
    PROVE  SealedBelowWatermark(new)
<1> SUFFICES ASSUME NEW id \in DOMAIN new.periods, new.periods[id].state = "Sealed"
             PROVE  new.periods[id].end <= new.sealed_through
  BY DEF SealedBelowWatermark
<1>1. CASE id = p.id
  BY <1>1, MarkMovesForward DEF Insert
<1>2. CASE id # p.id
  <2>1. id \in DOMAIN cal.periods /\ new.periods[id] = cal.periods[id]
    BY <1>2 DEF Insert
  <2>2. cal.periods[id].end <= cal.sealed_through /\ cal.periods[id].end \in Nat
    BY <2>1, DatesArePositive DEF SealedBelowWatermark, IsCalendar, Period
  <2>3. QED
    BY <2>1, <2>2, MarkMovesForward
<1>3. QED
  BY <1>1, <1>2

\* Storing p keeps the watermark the end of a sealed period, unless p puts a
\* sealed period into another state or range.
LEMMA StoreKeepsWatermarkAnEnd ==
    ASSUME NEW cal, IsCalendar(cal), WatermarkIsAnEnd(cal), NEW p \in Period,
           p.id \in DOMAIN cal.periods /\ cal.periods[p.id].state = "Sealed" =>
               p.state = "Sealed" /\ p.end = cal.periods[p.id].end,
           NEW new, new.periods = Insert(cal.periods, p.id, p),
           new.sealed_through = mark_sealed_through(cal, p)
    PROVE  WatermarkIsAnEnd(new)
<1>1. p.id \in DOMAIN new.periods /\ new.periods[p.id] = p
  BY DEF Insert
<1>2. CASE new.sealed_through # cal.sealed_through
  BY <1>1, <1>2, MarkMovesForward DEF WatermarkIsAnEnd
<1>3. CASE new.sealed_through = cal.sealed_through
  <2> SUFFICES ASSUME cal.sealed_through # NoDate
               PROVE  \E id \in DOMAIN new.periods :
                          new.periods[id].state = "Sealed" /\ new.periods[id].end = new.sealed_through
    BY <1>3 DEF WatermarkIsAnEnd
  <2>1. PICK id \in DOMAIN cal.periods :
               cal.periods[id].state = "Sealed" /\ cal.periods[id].end = cal.sealed_through
    BY DEF WatermarkIsAnEnd
  <2>2. CASE id = p.id
    BY <1>1, <1>3, <2>1, <2>2
  <2>3. CASE id # p.id
    BY <1>3, <2>1, <2>3 DEF Insert
  <2>4. QED
    BY <2>2, <2>3
<1>4. QED
  BY <1>2, <1>3

-----------------------------------------------------------------------------
\* period_on, which looks at one period only, finds exactly the period that
\* covers the date.
LEMMA PeriodOnExact ==
    ASSUME NEW cal, WellFormed(cal), NEW date \in Dates
    PROVE  period_on(cal, date) = {id \in DOMAIN cal.periods : contains(cal.periods[id], date)}
<1>1. ASSUME NEW id \in period_on(cal, date)
      PROVE  id \in DOMAIN cal.periods /\ contains(cal.periods[id], date)
  BY DEF period_on, StartBefore, WellFormed, IsIndexed
<1>2. ASSUME NEW id \in DOMAIN cal.periods, contains(cal.periods[id], date)
      PROVE  id \in period_on(cal, date)
  <2> DEFINE q == cal.periods[id]
             T == {s \in DOMAIN cal.by_start : s <= date}
  <2>1. q \in Period /\ q.start \in DOMAIN cal.by_start /\ cal.by_start[q.start] = id
        /\ DOMAIN cal.by_start \subseteq Nat
    BY DatesArePositive DEF WellFormed, IsCalendar, IsIndexed
  <2>2. q.start \in Nat /\ q.end \in Nat /\ date \in Nat /\ q.start <= date /\ date <= q.end
    BY <2>1, <1>2, DatesArePositive DEF contains, Period
  <2>3. ASSUME NEW t \in DOMAIN cal.by_start, t <= date PROVE t <= q.start
    <3> DEFINE r == cal.periods[cal.by_start[t]]
    <3>1. cal.by_start[t] \in DOMAIN cal.periods /\ r \in Period /\ r.start = t
      BY DEF WellFormed, IsCalendar, IsIndexed
    <3>2. r.start \in Nat /\ r.end \in Nat /\ r.start <= r.end
      BY <3>1, DatesArePositive DEF Period
    <3>3. CASE cal.by_start[t] = id
      BY <3>1, <3>2, <3>3, <2>2
    <3>4. CASE cal.by_start[t] # id
      <4>1. ~overlaps(q, r)
        BY <3>1, <3>4 DEF WellFormed, IsDisjoint
      <4>2. QED
        BY <4>1, <3>1, <3>2, <2>2, <2>3 DEF overlaps
    <3>5. QED
      BY <3>3, <3>4
  <2>4. q.start \in StartBefore(cal, date)
    BY <2>1, <2>2, <2>3 DEF StartBefore
  <2>5. QED
    BY <2>1, <2>4, <1>2 DEF period_on
<1>3. QED
  BY <1>1, <1>2 DEF period_on

\* With every sealed period at or below the watermark, a date is Sealed
\* exactly when it is at or below the watermark.
LEMMA SealedIsBelowWatermark ==
    ASSUME NEW cal, WellFormed(cal), SealedBelowWatermark(cal), NEW date \in Dates
    PROVE  state_on(cal, date) = "Sealed" <=> date <= cal.sealed_through
<1>1. CASE date <= cal.sealed_through
  BY <1>1 DEF state_on
<1>2. CASE ~(date <= cal.sealed_through)
  <2>1. CASE period_on(cal, date) = {}
    BY <1>2, <2>1 DEF state_on
  <2>2. CASE period_on(cal, date) # {}
    <3> DEFINE id == CHOOSE i \in period_on(cal, date) : TRUE
    <3>1. id \in period_on(cal, date)
      BY <2>2
    <3> HIDE DEF id
    <3>2. id \in DOMAIN cal.periods /\ contains(cal.periods[id], date)
      BY <3>1, PeriodOnExact
    <3>3. cal.periods[id].state # "Sealed"
      <4>1. cal.periods[id].end \in Nat /\ date \in Nat /\ date <= cal.periods[id].end
            /\ cal.sealed_through \in Nat
        BY <3>2, DatesArePositive DEF WellFormed, IsCalendar, Period, contains, NoDate
      <4>2. QED
        BY <4>1, <3>2, <1>2 DEF SealedBelowWatermark
    <3>4. QED
      BY <1>2, <2>2, <3>3 DEF state_on, id
  <2>3. QED
    BY <2>1, <2>2
<1>3. QED
  BY <1>1, <1>2

-----------------------------------------------------------------------------
(***************************************************************************)
(* Rebuilding a calendar from its stored periods.                          *)
(***************************************************************************)
StoredPeriods(cal) == {cal.periods[id] : id \in DOMAIN cal.periods}

\* The watermark is the greatest end of a sealed period.
MarkedExactly(cal) == SealedBelowWatermark(cal) /\ WatermarkIsAnEnd(cal)

\* A calendar with the periods of `cal` that `ids` names, and no other.
IsPart(part, cal, ids) ==
    /\ WellFormed(part)
    /\ MarkedExactly(part)
    /\ DOMAIN part.periods = ids
    /\ \A id \in ids : part.periods[id] = cal.periods[id]

\* A well-formed calendar is its table of periods: index and watermark are
\* functions of it.
LEMMA PeriodsDetermine ==
    ASSUME NEW cal, WellFormed(cal), MarkedExactly(cal),
           NEW part, IsPart(part, cal, DOMAIN cal.periods)
    PROVE  part = cal
<1>1. part.periods = cal.periods
  BY DEF IsPart, WellFormed, IsCalendar
<1>2. part.by_start = cal.by_start
  <2> DEFINE starts == {cal.periods[id].start : id \in DOMAIN cal.periods}
  <2>1. DOMAIN part.by_start = starts /\ DOMAIN cal.by_start = starts
    <3>1. DOMAIN cal.by_start = starts
      BY DEF WellFormed, IsIndexed
    <3>2. DOMAIN part.by_start = starts
      BY <1>1 DEF IsPart, WellFormed, IsIndexed
    <3> QED BY <3>1, <3>2
  <2>2. \A s \in DOMAIN cal.by_start : part.by_start[s] = cal.by_start[s]
    BY <1>1, <2>1 DEF IsPart, WellFormed, IsIndexed
  <2> QED BY <2>1, <2>2 DEF IsPart, WellFormed, IsCalendar
<1>3. part.sealed_through = cal.sealed_through
  <2>1. part.sealed_through \in Nat /\ cal.sealed_through \in Nat
    BY DatesArePositive DEF IsPart, WellFormed, IsCalendar, NoDate
  <2>2. part.sealed_through <= cal.sealed_through
    BY <1>1, <2>1 DEF IsPart, MarkedExactly, WatermarkIsAnEnd, SealedBelowWatermark, NoDate
  <2>3. cal.sealed_through <= part.sealed_through
    BY <1>1, <2>1 DEF IsPart, MarkedExactly, WatermarkIsAnEnd, SealedBelowWatermark, NoDate
  <2> QED BY <2>1, <2>2, <2>3
<1> QED BY <1>1, <1>2, <1>3 DEF IsPart, WellFormed, IsCalendar

\* A part of a calendar accepts any other of its periods, and becomes the part
\* with that period.
LEMMA PartGrows ==
    ASSUME NEW cal, WellFormed(cal), NEW part, NEW ids \in SUBSET DOMAIN cal.periods,
           IsPart(part, cal, ids), NEW id \in DOMAIN cal.periods, id \notin ids
    PROVE  /\ CanDefine(part, cal.periods[id])
           /\ IsPart(define(part, cal.periods[id]), cal, ids \cup {id})
<1> DEFINE p == cal.periods[id]
           new == define(part, p)
<1>1. p \in Period /\ p.id = id
  BY DEF WellFormed, IsCalendar, IsIndexed
<1>2. ASSUME NEW s \in DOMAIN part.by_start PROVE ~overlaps(part.periods[part.by_start[s]], p)
  <2>1. part.by_start[s] \in ids
    BY DEF IsPart, WellFormed, IsIndexed
  <2> QED BY <2>1 DEF IsPart, WellFormed, IsDisjoint
<1>3. CanDefine(part, p)
  BY <1>1, <1>2 DEF CanDefine, IsPart, StartBefore, StartAfter
<1>4. new.periods = Insert(part.periods, id, p)
      /\ new.sealed_through = mark_sealed_through(part, p)
  BY <1>1 DEF define
<1>5. WellFormed(new)
  BY <1>1, <1>3, DefineWellFormed DEF IsPart
<1>6. SealedBelowWatermark(new)
  BY <1>1, <1>4, StoreKeepsSealedBelow DEF IsPart, WellFormed, MarkedExactly
<1>7. WatermarkIsAnEnd(new)
  BY <1>1, <1>4, StoreKeepsWatermarkAnEnd DEF IsPart, WellFormed, MarkedExactly
<1>8. DOMAIN new.periods = ids \cup {id}
      /\ \A i \in ids \cup {id} : new.periods[i] = cal.periods[i]
  BY <1>4 DEF IsPart, Insert
<1> HIDE DEF new
<1>9. IsPart(new, cal, ids \cup {id})
  BY <1>5, <1>6, <1>7, <1>8 DEF IsPart, MarkedExactly
<1> QED BY <1>3, <1>9 DEF new

\* An order of the stored periods names each of them once.
LEMMA OrdersAreBijections ==
    ASSUME NEW cal, WellFormed(cal), IsFiniteSet(DOMAIN cal.periods),
           NEW order \in SetToSeqs(StoredPeriods(cal))
    PROVE  \E n \in Nat :
              /\ DOMAIN order = 1..n
              /\ \A i \in 1..n : /\ order[i].id \in DOMAIN cal.periods
                                 /\ cal.periods[order[i].id] = order[i]
              /\ \A i, j \in 1..n : i # j => order[i].id # order[j].id
              /\ \A id \in DOMAIN cal.periods : \E i \in 1..n : order[i].id = id
<1> DEFINE PS == StoredPeriods(cal)
           n == Cardinality(PS)
<1>1. cal.periods \in Surjection(DOMAIN cal.periods, PS)
  BY DEF WellFormed, IsCalendar, StoredPeriods, Surjection
<1>2. IsFiniteSet(PS) /\ n \in Nat
  <2> HIDE DEF PS
  <2>1. IsFiniteSet(PS)
    BY <1>1, FS_Surjection
  <2> QED BY <2>1, FS_CardinalityType
<1>3. order \in [1..n -> PS] /\ \A i, j \in 1..n : i # j => order[i] # order[j]
  BY DEF SetToSeqs
<1> HIDE DEF n
<1>4. order \in Injection(1..n, PS)
  BY <1>3 DEF Injection, IsInjective
<1>5. Cardinality(1..n) = n /\ IsFiniteSet(1..n)
  <2>1. 1 \in Int /\ n \in Int /\ (1 > n => n = 0) /\ n - 1 + 1 = n
    BY <1>2
  <2> QED BY <2>1, FS_Interval
<1>6. order \in Surjection(1..n, PS)
  BY <1>2, <1>4, <1>5, FS_Injection DEF n
<1>7. \A q \in PS : q.id \in DOMAIN cal.periods /\ cal.periods[q.id] = q
  BY DEF StoredPeriods, WellFormed, IsIndexed
<1>8. \A q \in PS : \E i \in 1..n : order[i] = q
  BY <1>6 DEF Surjection
<1>9. \A id \in DOMAIN cal.periods : cal.periods[id] \in PS /\ cal.periods[id].id = id
  BY DEF StoredPeriods, WellFormed, IsIndexed
<1>10. DOMAIN order = 1..n /\ \A i \in 1..n : order[i] \in PS
  BY <1>3
<1> HIDE DEF PS
<1>11. \A i \in 1..n : order[i].id \in DOMAIN cal.periods /\ cal.periods[order[i].id] = order[i]
  BY <1>7, <1>10
<1>12. \A i, j \in 1..n : i # j => order[i].id # order[j].id
  BY <1>3, <1>11
<1>13. \A id \in DOMAIN cal.periods : \E i \in 1..n : order[i].id = id
  BY <1>8, <1>9
<1> QED BY <1>2, <1>10, <1>11, <1>12, <1>13

\* from_periods over the stored periods, in any order, accepts every one and
\* rebuilds the calendar, index and watermark included.
LEMMA FromPeriodsRebuilds ==
    ASSUME NEW cal, WellFormed(cal), MarkedExactly(cal), IsFiniteSet(DOMAIN cal.periods),
           NEW order \in SetToSeqs(StoredPeriods(cal))
    PROVE  from_periods(order) = [ok |-> TRUE, calendar |-> cal]
<1> DEFINE base == [ok |-> TRUE, calendar |-> PeriodCalendar_new]
           Done(j) == {order[i].id : i \in 1..j}
<1>1. PICK n \in Nat :
              /\ DOMAIN order = 1..n
              /\ \A i \in 1..n : /\ order[i].id \in DOMAIN cal.periods
                                 /\ cal.periods[order[i].id] = order[i]
              /\ \A i, j \in 1..n : i # j => order[i].id # order[j].id
              /\ \A id \in DOMAIN cal.periods : \E i \in 1..n : order[i].id = id
  BY OrdersAreBijections
<1>2. from_periods(order) = Replay!Fold(0, base, order)
  BY DEF from_periods, FoldLeft, MapThenFoldSet, Max, Redefined,
         Replay!Fold, Replay!FoldLeft, Replay!MapThenFoldSet, Replay!Max
<1>3. PICK t : Replay!IsTrace(t, 0, base, order, n) /\ from_periods(order) = t[n]
  BY <1>1, <1>2, Replay!FoldTrace
<1>4. t[0] = base /\ \A j \in 0..(n - 1) : t[j + 1] = Redefined(0, t[j], order[j + 1])
  BY <1>3 DEF Replay!IsTrace
<1> DEFINE T == {j \in 0..n : /\ t[j] = [ok |-> TRUE, calendar |-> t[j].calendar]
                              /\ IsPart(t[j].calendar, cal, Done(j))}
<1>5. 0 \in T
  <2>1. Done(0) = {}
    OBVIOUS
  <2>2. IsPart(PeriodCalendar_new, cal, {})
    BY DEF IsPart, WellFormed, IsCalendar, IsIndexed, IsDisjoint, MarkedExactly,
           SealedBelowWatermark, WatermarkIsAnEnd, PeriodCalendar_new, EmptyMap, NoDate
  <2>3. t[0] = [ok |-> TRUE, calendar |-> t[0].calendar] /\ t[0].calendar = PeriodCalendar_new
    BY <1>4
  <2>4. IsPart(t[0].calendar, cal, Done(0)) /\ 0 \in 0..n
    BY <2>1, <2>2, <2>3
  <2> HIDE DEF Done
  <2> QED BY <2>3, <2>4
<1>6. ASSUME NEW j \in 0..(n - 1), j \in T PROVE j + 1 \in T
  <2> DEFINE id == order[j + 1].id
             part == t[j].calendar
  <2>1. /\ j + 1 \in 1..n /\ j + 1 \in 0..n /\ j \in Nat /\ id \in DOMAIN cal.periods
        /\ cal.periods[id] = order[j + 1]
    BY <1>1, SMTT(30)
  <2>2. Done(j) \in SUBSET DOMAIN cal.periods /\ id \notin Done(j)
    BY <1>1, <2>1, SMTT(30)
  <2>3. Done(j + 1) = Done(j) \cup {id}
    <3>1. \A i \in 1..(j + 1) : i \in 1..j \/ i = j + 1
      BY <2>1
    <3>2. j + 1 \in 1..(j + 1) /\ \A i \in 1..j : i \in 1..(j + 1)
      BY <2>1
    <3> QED BY <3>1, <3>2
  <2>4. IsPart(part, cal, Done(j)) /\ t[j].ok
    BY <1>6
  <2> HIDE DEF Done, id
  <2>5. CanDefine(part, order[j + 1]) /\ IsPart(define(part, order[j + 1]), cal, Done(j + 1))
    BY <2>1, <2>2, <2>3, <2>4, PartGrows
  <2>6. t[j + 1] = [ok |-> TRUE, calendar |-> define(part, order[j + 1])]
    BY <1>4, <2>4, <2>5 DEF Redefined
  <2>7. /\ t[j + 1] = [ok |-> TRUE, calendar |-> t[j + 1].calendar]
        /\ t[j + 1].calendar = define(part, order[j + 1])
    BY <2>6
  <2>8. IsPart(t[j + 1].calendar, cal, Done(j + 1))
    BY <2>5, <2>7
  <2> QED BY <2>1, <2>7, <2>8
<1>7. n \in T
  <2>1. n \in 0..n
    BY <1>1
  <2> HIDE DEF T
  <2> QED BY <1>1, <1>5, <1>6, <2>1, Replay!BoundedInduction
<1>8. Done(n) = DOMAIN cal.periods
  BY <1>1, SMTT(30)
<1>9. t[n].calendar = cal
  BY <1>7, <1>8, PeriodsDetermine
<1> QED BY <1>3, <1>7, <1>9

\* Whatever periods it is given, from_periods leaves a well-formed calendar.
LEMMA FromPeriodsWellFormed ==
    ASSUME NEW stored \in Seq(Period)
    PROVE  WellFormed(from_periods(stored).calendar) /\ MarkedExactly(from_periods(stored).calendar)
<1> DEFINE base == [ok |-> TRUE, calendar |-> PeriodCalendar_new]
           n == Len(stored)
           Good(cal) == WellFormed(cal) /\ MarkedExactly(cal)
<1>1. n \in Nat /\ DOMAIN stored = 1..n /\ n \in 0..n /\ \A j \in 0..(n - 1) : stored[j + 1] \in Period
  OBVIOUS
<1>2. from_periods(stored) = Replay!Fold(0, base, stored)
  BY DEF from_periods, FoldLeft, MapThenFoldSet, Max, Redefined,
         Replay!Fold, Replay!FoldLeft, Replay!MapThenFoldSet, Replay!Max
<1>3. PICK t : Replay!IsTrace(t, 0, base, stored, n) /\ from_periods(stored) = t[n]
  BY <1>1, <1>2, Replay!FoldTrace
<1>4. t[0] = base /\ \A j \in 0..(n - 1) : t[j + 1] = Redefined(0, t[j], stored[j + 1])
  BY <1>3 DEF Replay!IsTrace
<1> HIDE DEF n
<1> DEFINE T == {j \in Nat : t[j] = [ok |-> t[j].ok, calendar |-> t[j].calendar]
                             /\ Good(t[j].calendar)}
<1>5. 0 \in T
  <2>1. t[0] = [ok |-> t[0].ok, calendar |-> t[0].calendar] /\ t[0].calendar = PeriodCalendar_new
    BY <1>4
  <2>2. Good(PeriodCalendar_new)
    BY DEF WellFormed, IsCalendar, IsIndexed, IsDisjoint, MarkedExactly,
           SealedBelowWatermark, WatermarkIsAnEnd, PeriodCalendar_new, EmptyMap, NoDate
  <2> HIDE DEF Good
  <2> QED BY <2>1, <2>2
<1>6. ASSUME NEW j \in 0..(n - 1), j \in T PROVE j + 1 \in T
  <2> DEFINE cal == t[j].calendar
             p == stored[j + 1]
             new == define(cal, p)
  <2>1. j + 1 \in Nat /\ p \in Period
    BY <1>1
  <2>2. t[j] = [ok |-> t[j].ok, calendar |-> cal] /\ WellFormed(cal) /\ MarkedExactly(cal)
    BY <1>6
  <2>3. t[j + 1] = IF t[j].ok /\ CanDefine(cal, p) THEN [ok |-> TRUE, calendar |-> new]
                   ELSE [t[j] EXCEPT !.ok = FALSE]
    BY <1>4 DEF Redefined
  <2>4. new.periods = Insert(cal.periods, p.id, p)
        /\ new.sealed_through = mark_sealed_through(cal, p)
    BY DEF define
  <2> HIDE DEF cal, p, new
  <2>5. CASE t[j].ok /\ CanDefine(cal, p)
    <3>1. t[j + 1] = [ok |-> t[j + 1].ok, calendar |-> t[j + 1].calendar] /\ t[j + 1].calendar = new
      BY <2>3, <2>5
    <3>2. WellFormed(new)
      BY <2>1, <2>2, <2>5, DefineWellFormed DEF new
    <3>3. p.id \notin DOMAIN cal.periods
      BY <2>5 DEF CanDefine
    <3>4. SealedBelowWatermark(new) /\ WatermarkIsAnEnd(new)
      BY <2>1, <2>2, <2>4, <3>3, StoreKeepsSealedBelow, StoreKeepsWatermarkAnEnd
         DEF WellFormed, MarkedExactly
    <3> QED BY <2>1, <3>1, <3>2, <3>4 DEF MarkedExactly
  <2>6. CASE ~(t[j].ok /\ CanDefine(cal, p))
    <3>1. t[j + 1] = [ok |-> t[j + 1].ok, calendar |-> t[j + 1].calendar] /\ t[j + 1].calendar = cal
      <4>1. t[j + 1] = [t[j] EXCEPT !.ok = FALSE]
        BY <2>3, <2>6
      <4>2. DOMAIN t[j] = {"ok", "calendar"} /\ t[j].calendar = cal
        BY <2>2 DEF cal
      <4>3. /\ DOMAIN t[j + 1] = {"ok", "calendar"}
            /\ t[j + 1] = [k \in DOMAIN t[j + 1] |-> t[j + 1][k]]
            /\ t[j + 1].calendar = cal
        BY <4>1, <4>2
      <4> QED BY <4>3
    <3> QED BY <2>1, <2>2, <3>1
  <2> QED BY <2>5, <2>6
<1>7. n \in T
  <2> HIDE DEF T
  <2> QED BY <1>1, <1>5, <1>6, Replay!BoundedInduction
<1> QED BY <1>3, <1>7

-----------------------------------------------------------------------------
(***************************************************************************)
(* Paths.                                                                  *)
(***************************************************************************)
\* A prefix agrees position by position.
LEMMA PrefixPointwise ==
    ASSUME NEW s \in Seq(Nat), NEW t \in Seq(Nat)
    PROVE  is_under(t, s) <=> Len(s) <= Len(t) /\ \A k \in 1..Len(s) : s[k] = t[k]
<1>1. Len(s) \in Nat /\ Len(t) \in Nat
  OBVIOUS
<1>2. SubSeq(s, 1, Len(s)) = s
  OBVIOUS
<1>3. ASSUME Len(s) <= Len(t)
      PROVE  SubSeq(s, 1, Len(s)) = SubSeq(t, 1, Len(s)) <=> \A k \in 1..Len(s) : s[k] = t[k]
  <2>1. /\ SubSeq(t, 1, Len(s)) \in Seq(Nat)
        /\ Len(SubSeq(t, 1, Len(s))) = Len(s)
        /\ \A k \in 1..Len(s) : SubSeq(t, 1, Len(s))[k] = t[k]
    BY <1>1, <1>3
  <2> QED BY <1>1, <1>2, <2>1
<1> QED BY <1>3 DEF is_under, IsPrefix

\* The order is strict: no path comes before itself.
LEMMA PathLessIrreflexive ==
    ASSUME NEW p \in Seq(Nat) PROVE ~PathLess(p, p)
<1>1. ASSUME NEW i \in DOMAIN p, p[i] < p[i] PROVE FALSE
  <2>1. p[i] \in Nat
    OBVIOUS
  <2> QED BY <1>1, <2>1
<1> QED BY <1>1 DEF PathLess, IsStrictPrefix

\* Descendants are contiguous: whatever sorts after a path and not after one of
\* its descendants is itself a descendant.  The scan of descendant_range may
\* stop at the first path that is not.
LEMMA DescendantsContiguous ==
    ASSUME NEW r \in Seq(Nat), NEW p \in Seq(Nat), NEW q \in Seq(Nat),
           is_under(p, r), PathLess(r, q), q = p \/ PathLess(q, p)
    PROVE  is_under(q, r)
<1>1. /\ Len(r) \in Nat /\ Len(p) \in Nat /\ Len(q) \in Nat
      /\ DOMAIN r = 1..Len(r) /\ DOMAIN p = 1..Len(p) /\ DOMAIN q = 1..Len(q)
  OBVIOUS
<1>2. Len(r) <= Len(p) /\ \A k \in 1..Len(r) : r[k] = p[k]
  BY PrefixPointwise
<1>3. CASE q = p
  BY <1>3
<1>4. CASE IsStrictPrefix(r, q)
  BY <1>4 DEF IsStrictPrefix, is_under
<1>5. CASE PathLess(q, p) /\ ~IsStrictPrefix(r, q)
  <2>1. PICK j \in DOMAIN r \cap DOMAIN q :
            r[j] < q[j] /\ \A k \in 1..(j - 1) : r[k] = q[k]
    BY <1>5 DEF PathLess
  <2>2. j \in Nat /\ j \in 1..Len(r) /\ j \in 1..Len(q) /\ r[j] = p[j]
    BY <1>1, <1>2, <2>1
  <2>3. r[j] \in Nat /\ q[j] \in Nat /\ p[j] \in Nat
    BY <1>1, <2>2
  <2>4. CASE IsStrictPrefix(q, p)
    <3>1. is_under(p, q)
      BY <2>4 DEF IsStrictPrefix, is_under
    <3>2. q[j] = p[j]
      BY <3>1, <2>2, PrefixPointwise
    <3> QED BY <3>2, <2>1, <2>2, <2>3
  <2>5. CASE \E i \in DOMAIN q \cap DOMAIN p :
                q[i] < p[i] /\ \A k \in 1..(i - 1) : q[k] = p[k]
    <3>1. PICK i \in DOMAIN q \cap DOMAIN p :
              q[i] < p[i] /\ \A k \in 1..(i - 1) : q[k] = p[k]
      BY <2>5
    <3>2. i \in Nat /\ i \in 1..Len(q) /\ i \in 1..Len(p) /\ q[i] \in Nat /\ p[i] \in Nat
      BY <1>1, <3>1
    <3>3. CASE j < i
      <4>1. q[j] = p[j]
        BY <3>1, <3>2, <3>3, <2>2, SMTT(30)
      <4> QED BY <4>1, <2>1, <2>2, <2>3
    <3>4. CASE j = i
      BY <3>1, <3>2, <3>4, <2>1, <2>2, <2>3
    <3>5. CASE i < j
      <4>1. i \in 1..(j - 1) /\ i \in 1..Len(r)
        BY <3>2, <3>5, <2>2, <1>1
      <4>2. r[i] = q[i] /\ r[i] = p[i]
        BY <4>1, <2>1, <1>2
      <4> QED BY <4>2, <3>1, <3>2
    <3> QED BY <3>2, <2>2, <3>3, <3>4, <3>5
  <2> QED BY <1>5, <2>4, <2>5 DEF PathLess
<1> QED BY <1>3, <1>4, <1>5

\* The strict descendants of a path among a set of paths.
Below(paths, prefix) == {p \in paths : p # prefix /\ is_under(p, prefix)}

\* The scan finds the strict descendants, all of them and nothing else.
LEMMA ScanIsExact ==
    ASSUME NEW reg, NEW prefix \in Seq(Nat), DOMAIN reg.index \subseteq Seq(Nat)
    PROVE  descendant_range(reg, prefix) = Below(DOMAIN reg.index, prefix)
<1>1. ASSUME NEW p \in descendant_range(reg, prefix)
      PROVE  p \in Below(DOMAIN reg.index, prefix)
  <2>1. p \in DOMAIN reg.index /\ PathLess(prefix, p) /\ is_under(p, prefix)
    BY DEF descendant_range
  <2>2. p # prefix
    BY <2>1, PathLessIrreflexive
  <2> QED BY <2>1, <2>2 DEF Below
<1>2. ASSUME NEW p \in Below(DOMAIN reg.index, prefix)
      PROVE  p \in descendant_range(reg, prefix)
  <2>1. p \in DOMAIN reg.index /\ p # prefix /\ is_under(p, prefix) /\ p \in Seq(Nat)
    BY DEF Below
  <2>2. PathLess(prefix, p)
    BY <2>1 DEF PathLess, IsStrictPrefix, is_under
  <2>3. ASSUME NEW q \in DOMAIN reg.index, PathLess(prefix, q), q = p \/ PathLess(q, p)
        PROVE  is_under(q, prefix)
    <3>1. q \in Seq(Nat)
      OBVIOUS
    <3> QED BY <3>1, <2>1, <2>3, DescendantsContiguous
  <2> QED BY <2>1, <2>2, <2>3 DEF descendant_range
<1> QED BY <1>1, <1>2

\* The ancestors of a path are the paths it is strictly under.
LEMMA AncestorsAreAbove ==
    ASSUME NEW path \in Seq(Nat), NEW other \in Seq(Nat), other # <<>>
    PROVE  other \in ancestors(path) <=> path # other /\ is_under(path, other)
<1>1. Len(path) \in Nat /\ Len(other) \in Nat /\ Len(other) # 0
  OBVIOUS
<1>2. ASSUME other \in ancestors(path) PROVE path # other /\ is_under(path, other)
  <2>1. PICK n \in 1..(Len(path) - 1) : other = SubSeq(path, 1, n)
    BY <1>2 DEF ancestors
  <2>2. n \in Nat /\ n < Len(path) /\ Len(other) = n /\ \A k \in 1..n : other[k] = path[k]
    BY <1>1, <2>1
  <2>3. path # other
    BY <1>1, <2>2
  <2>4. is_under(path, other)
    BY <1>1, <2>2, PrefixPointwise, SMTT(30)
  <2> QED BY <2>3, <2>4
<1>3. ASSUME path # other, is_under(path, other) PROVE other \in ancestors(path)
  <2>1. Len(other) <= Len(path) /\ \A k \in 1..Len(other) : other[k] = path[k]
    BY <1>3, PrefixPointwise
  <2>2. Len(other) # Len(path)
    BY <1>1, <1>3, <2>1
  <2>3. Len(other) \in 1..(Len(path) - 1)
    BY <1>1, <2>1, <2>2
  <2>4. other = SubSeq(path, 1, Len(other))
    BY <1>1, <2>1
  <2> QED BY <2>3, <2>4 DEF ancestors
<1> QED BY <1>2, <1>3
-----------------------------------------------------------------------------
(***************************************************************************)
(* The registry.                                                           *)
(***************************************************************************)
PathOf(reg, h) == reg.accounts[h].path

\* What every operation of the registry preserves.  The index must be known to
\* be finite for the counts to be numbers, and exact for a path outside it to
\* belong to no handle.
RegInv(reg) ==
    /\ reg = [accounts |-> reg.accounts, index |-> reg.index,
              child_count |-> reg.child_count]
    /\ reg.accounts \in Seq(Account) /\ Len(reg.accounts) <= MaxAccounts
    /\ \A h \in Handles(reg) : WindowIsValid(reg.accounts[h])
    /\ reg.index \in [DOMAIN reg.index -> Handles(reg)]
    /\ IsFiniteSet(DOMAIN reg.index)
    /\ reg.child_count \in [Handles(reg) -> Nat]
    /\ DOMAIN reg.index = {PathOf(reg, h) : h \in Handles(reg)}
    /\ \A h \in Handles(reg) : reg.index[PathOf(reg, h)] = h
    /\ \A h \in Handles(reg) :
          reg.child_count[h] = Cardinality(Below(DOMAIN reg.index, PathOf(reg, h)))

\* The later registry still binds every handle of the earlier one to its path.
KeepsBindings(reg, later) ==
    /\ Len(reg.accounts) <= Len(later.accounts)
    /\ \A h \in Handles(reg) : PathOf(later, h) = PathOf(reg, h)

\* The handles are 1 to n, and each holds an account with a path.
LEMMA HandlesArePositions ==
    ASSUME NEW reg, reg.accounts \in Seq(Account)
    PROVE  /\ Len(reg.accounts) \in Nat
           /\ Handles(reg) = 1..Len(reg.accounts)
           /\ \A h \in Handles(reg) : /\ reg.accounts[h] \in Account
                                      /\ PathOf(reg, h) \in Paths
                                      /\ PathOf(reg, h) \in Seq(Nat)
                                      /\ PathOf(reg, h) # <<>>
<1>1. Len(reg.accounts) \in Nat /\ Handles(reg) = 1..Len(reg.accounts)
  BY DEF Handles
<1>2. ASSUME NEW h \in Handles(reg) PROVE reg.accounts[h] \in Account
  BY <1>1
<1>3. ASSUME NEW h \in Handles(reg) PROVE PathOf(reg, h) \in Paths
  BY <1>2 DEF PathOf, Account
<1>4. ASSUME NEW h \in Handles(reg) PROVE PathOf(reg, h) \in Seq(Nat) /\ PathOf(reg, h) # <<>>
  BY <1>3, PathsAreSegmented
<1> QED BY <1>1, <1>2, <1>3, <1>4

\* Adding a path to a finite set of paths raises the count of those above it by
\* one, and leaves the others.
LEMMA OneMoreBelow ==
    ASSUME NEW D, IsFiniteSet(D), NEW new, new \notin D, NEW prefix
    PROVE  /\ Cardinality(Below(D, prefix)) \in Nat
           /\ new # prefix /\ is_under(new, prefix) =>
                Cardinality(Below(D \cup {new}, prefix)) = Cardinality(Below(D, prefix)) + 1
           /\ ~(new # prefix /\ is_under(new, prefix)) =>
                Cardinality(Below(D \cup {new}, prefix)) = Cardinality(Below(D, prefix))
<1>1. Below(D, prefix) \in SUBSET D /\ new \notin Below(D, prefix)
  BY DEF Below
<1>2. IsFiniteSet(Below(D, prefix)) /\ Cardinality(Below(D, prefix)) \in Nat
  BY <1>1, FS_Subset, FS_CardinalityType
<1>3. ASSUME new # prefix, is_under(new, prefix)
      PROVE  Cardinality(Below(D \cup {new}, prefix)) = Cardinality(Below(D, prefix)) + 1
  <2>1. Below(D \cup {new}, prefix) = Below(D, prefix) \cup {new}
    BY <1>3 DEF Below
  <2> QED BY <2>1, <1>1, <1>2, FS_AddElement
<1>4. ASSUME ~(new # prefix /\ is_under(new, prefix))
      PROVE  Cardinality(Below(D \cup {new}, prefix)) = Cardinality(Below(D, prefix))
  <2>1. Below(D \cup {new}, prefix) = Below(D, prefix)
    BY <1>4 DEF Below
  <2> QED BY <2>1
<1> QED BY <1>2, <1>3, <1>4

\* A count appended to n counts is the last of n + 1.
LEMMA AppendedCounts ==
    ASSUME NEW counts \in Seq(Nat), NEW c \in Nat, NEW n \in Nat, Len(counts) = n
    PROVE  /\ Append(counts, c) \in [1..(n + 1) -> Nat]
           /\ \A h \in 1..n : Append(counts, c)[h] = counts[h]
           /\ Append(counts, c)[n + 1] = c
<1>1. Append(counts, c) \in Seq(Nat) /\ Len(Append(counts, c)) = n + 1
  OBVIOUS
<1>2. ASSUME NEW s \in Seq(Nat), Len(s) = n + 1 PROVE s \in [1..(n + 1) -> Nat]
  BY <1>2
<1>3. Append(counts, c) \in [1..(n + 1) -> Nat]
  BY <1>1, <1>2
<1>4. \A h \in 1..n : Append(counts, c)[h] = counts[h]
  OBVIOUS
<1>5. Append(counts, c)[n + 1] = c
  OBVIOUS
<1> QED BY <1>3, <1>4, <1>5

\* register keeps the invariant and every binding.
LEMMA RegisterKeeps ==
    ASSUME NEW reg, RegInv(reg), NEW account \in Account, CanRegister(reg, account)
    PROVE  RegInv(register(reg, account)) /\ KeepsBindings(reg, register(reg, account))
<1> DEFINE n == Len(reg.accounts)
           D == DOMAIN reg.index
           path == account.path
           later == register(reg, account)
<1>1. /\ n \in Nat /\ Handles(reg) = 1..n /\ reg.accounts \in Seq(Account)
      /\ \A h \in 1..n : /\ PathOf(reg, h) \in Paths /\ PathOf(reg, h) \in Seq(Nat)
                         /\ PathOf(reg, h) # <<>> /\ PathOf(reg, h) \in D
  BY HandlesArePositions DEF RegInv
<1>2. path \in Paths /\ path \in Seq(Nat) /\ path # <<>> /\ path \notin D
      /\ WindowIsValid(account)
  BY PathsAreSegmented DEF Account, CanRegister
<1>3. IsFiniteSet(D) /\ D \subseteq Seq(Nat)
  BY <1>1 DEF RegInv
<1>4. /\ later.accounts = Append(reg.accounts, account)
      /\ later.index = Insert(reg.index, path, n + 1)
      /\ later.child_count =
            Append([h \in Handles(reg) |-> IF PathOf(reg, h) \in ancestors(path)
                                           THEN reg.child_count[h] + 1
                                           ELSE reg.child_count[h]],
                   Cardinality(descendant_range(reg, path)))
      /\ later = [accounts |-> later.accounts, index |-> later.index,
                  child_count |-> later.child_count]
  BY DEF register, PathOf
<1>5. /\ later.accounts \in Seq(Account) /\ Handles(later) = 1..(n + 1)
      /\ \A h \in 1..n : later.accounts[h] = reg.accounts[h]
      /\ later.accounts[n + 1] = account
      /\ Len(later.accounts) = n + 1
  BY <1>1, <1>4 DEF Handles
<1>6. \A h \in 1..n : PathOf(later, h) = PathOf(reg, h)
  BY <1>5 DEF PathOf
<1>7. PathOf(later, n + 1) = path
  BY <1>5 DEF PathOf
<1>8. DOMAIN later.index = D \cup {path} /\ IsFiniteSet(DOMAIN later.index)
  BY <1>3, <1>4, FS_AddElement DEF Insert
<1>9. /\ later.index[path] = n + 1
      /\ \A p \in D : later.index[p] = reg.index[p]
  BY <1>2, <1>4 DEF Insert
<1> HIDE DEF later
<1>10. D = {PathOf(reg, h) : h \in 1..n} /\ \A h \in 1..n : reg.index[PathOf(reg, h)] = h
  BY <1>1 DEF RegInv
<1>11. DOMAIN later.index = {PathOf(later, h) : h \in Handles(later)}
  <2>1. 1..(n + 1) = (1..n) \cup {n + 1}
    BY <1>1
  <2>2. {PathOf(later, h) : h \in Handles(later)} = {PathOf(reg, h) : h \in 1..n} \cup {path}
    BY <1>5, <1>6, <1>7, <2>1
  <2> QED BY <2>2, <1>8, <1>10
<1>12. \A h \in Handles(later) : later.index[PathOf(later, h)] = h
  <2> SUFFICES ASSUME NEW h \in 1..(n + 1) PROVE later.index[PathOf(later, h)] = h
    BY <1>5
  <2>1. CASE h \in 1..n
    BY <2>1, <1>1, <1>6, <1>9, <1>10
  <2>2. CASE h = n + 1
    BY <2>2, <1>7, <1>9
  <2> QED BY <2>1, <2>2, <1>1
<1>13. later.index \in [DOMAIN later.index -> Handles(later)]
  <2>1. \A p \in DOMAIN later.index : later.index[p] \in Handles(later)
    BY <1>11, <1>12
  <2>2. later.index = [p \in DOMAIN later.index |-> later.index[p]]
    BY <1>4 DEF Insert
  <2> QED BY <2>1, <2>2
<1>14. \A h \in Handles(later) : WindowIsValid(later.accounts[h])
  <2>1. \A h \in 1..n : WindowIsValid(reg.accounts[h])
    BY <1>1 DEF RegInv
  <2> QED BY <2>1, <1>1, <1>2, <1>5, SMTT(30)
<1>15. \A h \in 1..n : /\ reg.child_count[h] \in Nat
                       /\ reg.child_count[h] = Cardinality(Below(D, PathOf(reg, h)))
  BY <1>1 DEF RegInv
<1>16. /\ Cardinality(descendant_range(reg, path)) = Cardinality(Below(D \cup {path}, path))
       /\ Cardinality(descendant_range(reg, path)) \in Nat
  <2>1. descendant_range(reg, path) = Below(D, path)
    BY <1>2, <1>3, ScanIsExact
  <2>2. Cardinality(Below(D, path)) \in Nat
    BY <1>2, <1>3, OneMoreBelow
  <2>3. Cardinality(Below(D \cup {path}, path)) = Cardinality(Below(D, path))
    <3>1. ~(path # path /\ is_under(path, path))
      OBVIOUS
    <3> HIDE DEF path, D
    <3> QED BY <3>1, <1>2, <1>3, OneMoreBelow, ZenonT(60)
  <2> QED BY <2>1, <2>2, <2>3
<1> DEFINE raised == [h \in 1..n |-> IF PathOf(reg, h) \in ancestors(path)
                                     THEN reg.child_count[h] + 1
                                     ELSE reg.child_count[h]]
<1>17. \A h \in 1..n : /\ raised[h] \in Nat
                       /\ raised[h] = Cardinality(Below(D \cup {path}, PathOf(reg, h)))
  <2> SUFFICES ASSUME NEW h \in 1..n
               PROVE  /\ raised[h] \in Nat
                      /\ raised[h] = Cardinality(Below(D \cup {path}, PathOf(reg, h)))
    OBVIOUS
  <2>1. PathOf(reg, h) \in ancestors(path)
            <=> path # PathOf(reg, h) /\ is_under(path, PathOf(reg, h))
    BY <1>1, <1>2, AncestorsAreAbove
  <2>2. CASE PathOf(reg, h) \in ancestors(path)
    <3>1. Cardinality(Below(D \cup {path}, PathOf(reg, h)))
            = Cardinality(Below(D, PathOf(reg, h))) + 1
      BY <2>1, <2>2, <1>2, <1>3, OneMoreBelow
    <3>2. raised[h] = reg.child_count[h] + 1
      BY <2>2
    <3> QED BY <3>1, <3>2, <1>15
  <2>3. CASE PathOf(reg, h) \notin ancestors(path)
    <3>1. Cardinality(Below(D \cup {path}, PathOf(reg, h)))
            = Cardinality(Below(D, PathOf(reg, h)))
      BY <2>1, <2>3, <1>2, <1>3, OneMoreBelow
    <3>2. raised[h] = reg.child_count[h]
      BY <2>3
    <3> QED BY <3>1, <3>2, <1>15
  <2> QED BY <2>2, <2>3
<1>18. /\ later.child_count = Append(raised, Cardinality(descendant_range(reg, path)))
       /\ raised \in Seq(Nat) /\ Len(raised) = n
  <2>1. raised \in [1..n -> Nat]
    BY <1>17
  <2> QED BY <2>1, <1>1, <1>4
<1> HIDE DEF raised
<1>19. /\ later.child_count \in [1..(n + 1) -> Nat]
       /\ \A h \in 1..n : later.child_count[h] = raised[h]
       /\ later.child_count[n + 1] = Cardinality(descendant_range(reg, path))
  <2> DEFINE c == Cardinality(descendant_range(reg, path))
  <2>1. /\ c \in Nat /\ n \in Nat /\ raised \in Seq(Nat) /\ Len(raised) = n
        /\ later.child_count = Append(raised, c)
    BY <1>1, <1>16, <1>18
  <2> HIDE DEF c, n
  <2> QED BY <2>1, AppendedCounts, SMTT(30) DEF c
<1>20. \A h \in Handles(later) :
          later.child_count[h] = Cardinality(Below(DOMAIN later.index, PathOf(later, h)))
  <2> SUFFICES ASSUME NEW h \in 1..(n + 1)
               PROVE  later.child_count[h] = Cardinality(Below(D \cup {path}, PathOf(later, h)))
    BY <1>5, <1>8
  <2>1. CASE h \in 1..n
    BY <2>1, <1>6, <1>17, <1>19
  <2>2. CASE h = n + 1
    BY <2>2, <1>7, <1>16, <1>19
  <2> QED BY <2>1, <2>2, <1>1
<1>21. RegInv(later)
  <2>1. n + 1 <= MaxAccounts
    BY <1>1, HandlesAreBounded DEF CanRegister
  <2> QED BY <2>1, <1>4, <1>5, <1>8, <1>11, <1>12, <1>13, <1>14, <1>19, <1>20 DEF RegInv
<1>22. KeepsBindings(reg, later)
  BY <1>1, <1>5, <1>6 DEF KeepsBindings
<1> QED BY <1>21, <1>22 DEF later

\* A change of master data at a handle, its path kept and its window valid,
\* keeps the invariant and every binding.
LEMMA WithAccountKeeps ==
    ASSUME NEW reg, RegInv(reg), NEW id \in Handles(reg), NEW account \in Account,
           account.path = PathOf(reg, id), WindowIsValid(account)
    PROVE  RegInv(WithAccount(reg, id, account)) /\ KeepsBindings(reg, WithAccount(reg, id, account))
<1> DEFINE later == WithAccount(reg, id, account)
<1>1. /\ Len(reg.accounts) \in Nat /\ Handles(reg) = 1..Len(reg.accounts)
      /\ reg.accounts \in Seq(Account)
  BY HandlesArePositions DEF RegInv
<1>2. /\ later.accounts = [reg.accounts EXCEPT ![id] = account]
      /\ later.index = reg.index /\ later.child_count = reg.child_count
      /\ later = [accounts |-> later.accounts, index |-> later.index,
                  child_count |-> later.child_count]
  BY DEF WithAccount
<1> HIDE DEF later
<1>3. /\ later.accounts \in Seq(Account)
      /\ Len(later.accounts) = Len(reg.accounts)
  BY <1>1, <1>2
<1>4. Handles(later) = Handles(reg)
  BY <1>1, <1>2 DEF Handles
<1>5. \A h \in Handles(reg) :
          later.accounts[h] = IF h = id THEN account ELSE reg.accounts[h]
  BY <1>2 DEF Handles
<1>6. \A h \in Handles(reg) : PathOf(later, h) = PathOf(reg, h)
  BY <1>5 DEF PathOf
<1>7. \A h \in Handles(reg) : WindowIsValid(later.accounts[h])
  BY <1>5 DEF RegInv
<1>8. {PathOf(later, h) : h \in Handles(reg)} = {PathOf(reg, h) : h \in Handles(reg)}
  BY <1>6
<1>9. RegInv(later)
  BY <1>2, <1>3, <1>4, <1>6, <1>7, <1>8 DEF RegInv
<1>10. KeepsBindings(reg, later)
  BY <1>1, <1>3, <1>6 DEF KeepsBindings
<1> QED BY <1>9, <1>10 DEF later

\* restore keeps the invariant and every binding.
LEMMA RestoreKeeps ==
    ASSUME NEW reg, RegInv(reg), NEW id, NEW account \in Account,
           CanRestore(reg, [id |-> id, account |-> account])
    PROVE  LET later == restore(reg, [id |-> id, account |-> account]) IN
           RegInv(later) /\ KeepsBindings(reg, later)
<1> DEFINE later == restore(reg, [id |-> id, account |-> account])
<1>1. CASE id \in Handles(reg)
  <2>1. /\ account.path = PathOf(reg, id) /\ WindowIsValid(account)
        /\ later = WithAccount(reg, id, account)
    BY <1>1 DEF CanRestore, restore, PathOf
  <2> QED BY <2>1, <1>1, WithAccountKeeps
<1>2. CASE id \notin Handles(reg)
  <2>1. CanRegister(reg, account) /\ later = register(reg, account)
    BY <1>2 DEF CanRestore, restore
  <2> QED BY <2>1, RegisterKeeps
<1> QED BY <1>1, <1>2

\* The empty registry satisfies the invariant.
LEMMA NewRegistry == RegInv(AccountRegistry_new)
<1> DEFINE reg == AccountRegistry_new
<1>1. /\ reg.accounts = <<>> /\ reg.index = EmptyMap /\ reg.child_count = <<>>
      /\ reg = [accounts |-> reg.accounts, index |-> reg.index, child_count |-> reg.child_count]
  BY DEF AccountRegistry_new
<1> HIDE DEF reg
<1>2. Handles(reg) = {} /\ reg.accounts \in Seq(Account) /\ Len(reg.accounts) <= MaxAccounts
  BY <1>1, HandlesAreBounded DEF Handles
<1>3. DOMAIN reg.index = {} /\ reg.index \in [{} -> Handles(reg)]
  BY <1>1 DEF EmptyMap
<1>4. reg.child_count \in [{} -> Nat]
  BY <1>1
<1>5. IsFiniteSet(DOMAIN reg.index)
  BY <1>3, FS_EmptySet
<1>6. RegInv(reg)
  BY <1>1, <1>2, <1>3, <1>4, <1>5 DEF RegInv
<1> QED BY <1>6 DEF reg

-----------------------------------------------------------------------------
(***************************************************************************)
(* Rebuilding a registry from its stored records.                          *)
(***************************************************************************)
\* The accounts in handle order determine the index and the counts.
LEMMA AccountsDetermine ==
    ASSUME NEW a, NEW b, RegInv(a), RegInv(b), a.accounts = b.accounts
    PROVE  a = b
<1>1. Handles(a) = Handles(b) /\ \A h \in Handles(a) : PathOf(a, h) = PathOf(b, h)
  BY DEF Handles, PathOf
<1>2. DOMAIN a.index = DOMAIN b.index
  BY <1>1 DEF RegInv
<1>3. \A p \in DOMAIN a.index : a.index[p] = b.index[p]
  BY <1>1 DEF RegInv
<1>4. a.index = b.index
  <2>1. /\ a.index = [p \in DOMAIN a.index |-> a.index[p]]
        /\ b.index = [p \in DOMAIN b.index |-> b.index[p]]
    BY DEF RegInv
  <2> QED BY <1>2, <1>3, <2>1
<1>5. \A h \in Handles(a) : a.child_count[h] = b.child_count[h]
  BY <1>1, <1>2 DEF RegInv
<1>6. a.child_count = b.child_count
  BY <1>1, <1>5 DEF RegInv
<1> QED BY <1>4, <1>6 DEF RegInv

\* The record a registry keeps of a handle.
RecordOf(reg, h) == [id |-> h, account |-> reg.accounts[h]]

\* As many records as there are handles up to k.
LEMMA RecordsCounted ==
    ASSUME NEW reg, NEW n \in Nat, Handles(reg) = 1..n, NEW k \in 0..n
    PROVE  Cardinality({r \in records(reg) : r.id <= k}) = k
<1> DEFINE S == {r \in records(reg) : r.id <= k}
           f == [h \in 1..k |-> RecordOf(reg, h)]
<1>1. records(reg) = {RecordOf(reg, h) : h \in 1..n}
  BY DEF records, RecordOf
<1>2. \A h : RecordOf(reg, h).id = h
  BY DEF RecordOf
<1>3. \A h \in 1..k : h \in 1..n /\ h <= k
  OBVIOUS
<1>4. \A h \in 1..n : h <= k => h \in 1..k
  OBVIOUS
<1>5. S = {RecordOf(reg, h) : h \in 1..k}
  BY <1>1, <1>2, <1>3, <1>4
<1> HIDE DEF S
<1>6. f \in Bijection(1..k, S)
  <2>1. f \in Surjection(1..k, S)
    BY <1>5 DEF Surjection
  <2>2. \A a, b \in 1..k : f[a] = f[b] => a = b
    BY <1>2
  <2>3. f \in Injection(1..k, S)
    BY <2>1, <2>2 DEF Injection, IsInjective, Surjection
  <2> QED BY <2>1, <2>3 DEF Bijection
<1>7. Cardinality(1..k) = k /\ IsFiniteSet(1..k)
  <2>1. 1 \in Int /\ k \in Int /\ (1 > k => k = 0) /\ k - 1 + 1 = k
    OBVIOUS
  <2> QED BY <2>1, FS_Interval
<1> HIDE DEF f
<1>8. Cardinality(S) = k
  BY <1>6, <1>7, FS_Bijection DEF ExistsBijection
<1> QED BY <1>8 DEF S

InHandleOrder(reg) == OrderBy(records(reg), LAMBDA r, s : r.id < s.id)

\* Sorted by handle, the n-th record is the one of handle n.
LEMMA RecordsInOrder ==
    ASSUME NEW reg, NEW n \in Nat, Handles(reg) = 1..n
    PROVE  /\ DOMAIN InHandleOrder(reg) = 1..n
           /\ \A h \in 1..n : InHandleOrder(reg)[h] = RecordOf(reg, h)
<1> DEFINE R == records(reg)
<1>1. R = {RecordOf(reg, h) : h \in 1..n} /\ \A h : RecordOf(reg, h).id = h
  BY DEF records, RecordOf
<1>2. \A r \in R : r.id \in 1..n
  BY <1>1
<1>3. ASSUME NEW k \in 0..n PROVE Cardinality({r \in R : r.id <= k}) = k
  BY RecordsCounted
<1>4. Cardinality(R) = n
  <2>1. {r \in R : r.id <= n} = R /\ n \in 0..n
    BY <1>2
  <2> QED BY <1>3, <2>1
<1> HIDE DEF R
<1>5. ASSUME NEW row \in R
      PROVE  /\ Cardinality({r \in R : r.id < row.id}) = row.id - 1
             /\ Cardinality({r \in R : ~(row.id < r.id)}) = row.id
  <2> DEFINE k == row.id
  <2>1. k \in 1..n /\ k - 1 \in 0..n /\ k \in 0..n
    BY <1>2
  <2>2. {r \in R : r.id < k} = {r \in R : r.id <= k - 1}
    BY <1>2, <2>1
  <2>3. {r \in R : ~(k < r.id)} = {r \in R : r.id <= k}
    BY <1>2, <2>1
  <2> HIDE DEF k
  <2>4. Cardinality({r \in R : r.id <= k - 1}) = k - 1 /\ Cardinality({r \in R : r.id <= k}) = k
    BY <1>3, <2>1
  <2> QED BY <2>2, <2>3, <2>4 DEF k
<1>6. InHandleOrder(reg) = [h \in 1..n |->
          CHOOSE row \in R : /\ Cardinality({r \in R : r.id < row.id}) < h
                             /\ Cardinality({r \in R : ~(row.id < r.id)}) >= h]
  BY <1>4 DEF InHandleOrder, OrderBy, R
<1>7. ASSUME NEW h \in 1..n PROVE InHandleOrder(reg)[h] = RecordOf(reg, h)
  <2> DEFINE Q(row) == /\ Cardinality({r \in R : r.id < row.id}) < h
                       /\ Cardinality({r \in R : ~(row.id < r.id)}) >= h
  <2>1. \A row \in R : Q(row) <=> row.id = h
    <3> SUFFICES ASSUME NEW row \in R PROVE Q(row) <=> row.id = h
      OBVIOUS
    <3>1. row.id \in Nat /\ h \in Nat
      BY <1>2
    <3>2. Q(row) <=> row.id - 1 < h /\ row.id >= h
      BY <1>5
    <3> HIDE DEF Q
    <3> QED BY <3>1, <3>2
  <2>2. \A row \in R : row.id = h <=> row = RecordOf(reg, h)
    BY <1>1
  <2>3. RecordOf(reg, h) \in R
    BY <1>1
  <2>4. InHandleOrder(reg)[h] = CHOOSE row \in R : Q(row)
    BY <1>6
  <2> HIDE DEF Q
  <2> QED BY <2>1, <2>2, <2>3, <2>4
<1> QED BY <1>6, <1>7

\* One step of from_records: the next stored record is restored, or refused.
Restored(ctx, acc, r) ==
    IF acc.ok /\ CanRestore(acc.registry, r)
    THEN [ok |-> TRUE, registry |-> restore(acc.registry, r)]
    ELSE [acc EXCEPT !.ok = FALSE]

Reload == INSTANCE Folding WITH Op <- Restored

\* A part of a registry takes the record of its next handle.
LEMMA NextRecordRestores ==
    ASSUME NEW reg, RegInv(reg), NEW part, RegInv(part),
           NEW j \in Nat, j < Len(reg.accounts), part.accounts = SubSeq(reg.accounts, 1, j)
    PROVE  LET later == restore(part, RecordOf(reg, j + 1)) IN
           /\ CanRestore(part, RecordOf(reg, j + 1))
           /\ RegInv(later) /\ later.accounts = SubSeq(reg.accounts, 1, j + 1)
<1> DEFINE n == Len(reg.accounts)
           account == reg.accounts[j + 1]
<1>1. /\ n \in Nat /\ Handles(reg) = 1..n /\ reg.accounts \in Seq(Account) /\ n <= MaxAccounts
      /\ \A h \in 1..n : reg.accounts[h] \in Account
  BY HandlesArePositions DEF RegInv
<1>2. j + 1 \in 1..n /\ account \in Account
  BY <1>1
<1>3. /\ Len(part.accounts) = j /\ Handles(part) = 1..j
      /\ \A h \in 1..j : part.accounts[h] = reg.accounts[h]
  BY <1>1 DEF Handles
<1>4. WindowIsValid(account)
  BY <1>1, <1>2 DEF RegInv
<1>5. account.path \notin DOMAIN part.index
  <2> SUFFICES ASSUME account.path \in DOMAIN part.index PROVE FALSE
    OBVIOUS
  <2>1. PICK h \in 1..j : PathOf(part, h) = account.path
    BY <1>3 DEF RegInv
  <2>2. h \in 1..n /\ h # j + 1 /\ PathOf(reg, h) = PathOf(reg, j + 1)
    BY <1>1, <1>2, <1>3, <2>1 DEF PathOf
  <2>3. reg.index[PathOf(reg, h)] = h /\ reg.index[PathOf(reg, j + 1)] = j + 1
    BY <1>1, <1>2, <2>2 DEF RegInv
  <2> QED BY <2>2, <2>3
<1>6. CanRegister(part, account)
  BY <1>1, <1>3, <1>4, <1>5, HandlesAreBounded DEF CanRegister
<1>7. j + 1 \notin Handles(part) /\ j + 1 = Len(part.accounts) + 1
  BY <1>3
<1> DEFINE later == register(part, account)
<1>8. CanRestore(part, RecordOf(reg, j + 1)) /\ restore(part, RecordOf(reg, j + 1)) = later
  BY <1>6, <1>7 DEF CanRestore, restore, RecordOf
<1>9. later.accounts = Append(part.accounts, account)
  BY DEF register
<1>10. RegInv(later)
  BY <1>2, <1>6, RegisterKeeps
<1> HIDE DEF later
<1>11. later.accounts = SubSeq(reg.accounts, 1, j + 1)
  BY <1>1, <1>2, <1>9
<1> QED BY <1>8, <1>10, <1>11

\* from_records over the records of a registry accepts every one and rebuilds the
\* registry, index and counts included.
LEMMA FromRecordsRebuilds ==
    ASSUME NEW reg, RegInv(reg)
    PROVE  from_records(records(reg)) = [ok |-> TRUE, registry |-> reg]
<1> DEFINE n == Len(reg.accounts)
           base == [ok |-> TRUE, registry |-> AccountRegistry_new]
           order == InHandleOrder(reg)
<1>1. n \in Nat /\ Handles(reg) = 1..n /\ reg.accounts \in Seq(Account)
  BY HandlesArePositions DEF RegInv
<1>2. DOMAIN order = 1..n /\ \A h \in 1..n : order[h] = RecordOf(reg, h)
  <2> HIDE DEF n
  <2> QED BY <1>1, RecordsInOrder
<1>3. from_records(records(reg)) = Reload!Fold(0, base, order)
  BY DEF from_records, InHandleOrder, FoldLeft, MapThenFoldSet, Max, Restored,
         Reload!Fold, Reload!FoldLeft, Reload!MapThenFoldSet, Reload!Max
<1> HIDE DEF order
<1>4. PICK t : Reload!IsTrace(t, 0, base, order, n) /\ from_records(records(reg)) = t[n]
  BY <1>1, <1>2, <1>3, Reload!FoldTrace
<1>5. t[0] = base /\ \A j \in 0..(n - 1) : t[j + 1] = Restored(0, t[j], order[j + 1])
  BY <1>4 DEF Reload!IsTrace
<1> DEFINE T == {j \in 0..n : /\ t[j] = [ok |-> TRUE, registry |-> t[j].registry]
                              /\ RegInv(t[j].registry)
                              /\ t[j].registry.accounts = SubSeq(reg.accounts, 1, j)}
<1>6. 0 \in T
  <2>1. t[0] = [ok |-> TRUE, registry |-> t[0].registry] /\ t[0].registry = AccountRegistry_new
    BY <1>5
  <2>2. AccountRegistry_new.accounts = SubSeq(reg.accounts, 1, 0)
    BY <1>1 DEF AccountRegistry_new
  <2>3. 0 \in 0..n
    BY <1>1
  <2> QED BY <2>1, <2>2, <2>3, NewRegistry
<1>7. ASSUME NEW j \in 0..(n - 1), j \in T PROVE j + 1 \in T
  <2> DEFINE part == t[j].registry
             later == restore(part, RecordOf(reg, j + 1))
  <2>1. j \in Nat /\ j < n /\ j + 1 \in 1..n /\ j + 1 \in 0..n
    BY <1>1
  <2>2. t[j].ok /\ RegInv(part) /\ part.accounts = SubSeq(reg.accounts, 1, j)
    BY <1>7
  <2>3. /\ CanRestore(part, RecordOf(reg, j + 1))
        /\ RegInv(later) /\ later.accounts = SubSeq(reg.accounts, 1, j + 1)
    <3> HIDE DEF part
    <3> QED BY <2>1, <2>2, NextRecordRestores
  <2>4. t[j + 1] = Restored(0, t[j], RecordOf(reg, j + 1))
    BY <1>2, <1>5, <2>1
  <2>5. t[j + 1] = [ok |-> TRUE, registry |-> later]
    BY <2>2, <2>3, <2>4 DEF Restored
  <2> HIDE DEF later
  <2>6. t[j + 1] = [ok |-> TRUE, registry |-> t[j + 1].registry] /\ t[j + 1].registry = later
    BY <2>5
  <2> QED BY <2>1, <2>3, <2>6
<1>8. n \in T
  <2>1. n \in 0..n
    BY <1>1
  <2> HIDE DEF T, n
  <2> QED BY <1>1, <1>6, <1>7, <2>1, Reload!BoundedInduction
<1>9. t[n].registry.accounts = reg.accounts
  BY <1>1, <1>8
<1>10. t[n].registry = reg
  BY <1>8, <1>9, AccountsDetermine
<1> QED BY <1>4, <1>8, <1>10

-----------------------------------------------------------------------------
(***************************************************************************)
(* Numberings, and what a query sorted by one returns.                     *)
(***************************************************************************)
\* The numbers up to n are n.
LEMMA CountUpTo ==
    ASSUME NEW n \in Nat
    PROVE  IsFiniteSet(1..n) /\ Cardinality(1..n) = n
<1>1. 1 \in Int /\ n \in Int /\ (1 > n => n = 0) /\ n - 1 + 1 = n
  OBVIOUS
<1> QED BY <1>1, FS_Interval

\* f numbers the elements of S from 1 to n.
Numbers(f, S, n) ==
    /\ \A x \in S : f[x] \in 1..n
    /\ \A k \in 1..n : \E x \in S : f[x] = k
    /\ \A x, y \in S : f[x] = f[y] => x = y

\* As many elements are numbered up to k as k says.
LEMMA NumberedCount ==
    ASSUME NEW f, NEW S, NEW n \in Nat, Numbers(f, S, n), NEW k \in 0..n
    PROVE  Cardinality({x \in S : f[x] <= k}) = k
<1> DEFINE T == {x \in S : f[x] <= k}
           g == [j \in 1..k |-> CHOOSE x \in S : f[x] = j]
<1>1. k \in Nat /\ \A j \in 1..k : j \in 1..n
  OBVIOUS
<1>2. ASSUME NEW j \in 1..k PROVE g[j] \in S /\ f[g[j]] = j
  <2>1. \E x \in S : f[x] = j
    BY <1>1 DEF Numbers
  <2> QED BY <2>1
<1>3. g \in [1..k -> T]
  BY <1>1, <1>2
<1>4. \A i, j \in 1..k : g[i] = g[j] => i = j
  BY <1>2
<1>5. ASSUME NEW x \in T PROVE f[x] \in 1..k /\ g[f[x]] = x
  <2>1. f[x] \in 1..k
    BY <1>1 DEF Numbers
  <2>2. g[f[x]] \in S /\ f[g[f[x]]] = f[x]
    BY <1>2, <2>1
  <2> HIDE DEF g
  <2> QED BY <2>1, <2>2 DEF Numbers
<1> HIDE DEF T, g
<1>6. g \in Bijection(1..k, T)
  BY <1>3, <1>4, <1>5 DEF Bijection, Injection, Surjection, IsInjective
<1>7. Cardinality(T) = k
  BY <1>1, <1>6, CountUpTo, FS_Bijection DEF ExistsBijection
<1> QED BY <1>7 DEF T

\* What ORDER BY finds when the rows are numbered without gaps: as many rows come
\* before a row, and as many not after it, as its number says.
LEMMA NumberedOrder ==
    ASSUME NEW f, NEW S, NEW n \in Nat, Numbers(f, S, n)
    PROVE  /\ Cardinality(S) = n
           /\ \A x \in S : \A k \in 1..n :
                 (/\ Cardinality({y \in S : f[y] < f[x]}) < k
                  /\ Cardinality({y \in S : ~(f[x] < f[y])}) >= k)
                    <=> f[x] = k
<1>1. \A x \in S : f[x] \in 1..n
  BY DEF Numbers
<1>2. Cardinality(S) = n
  <2>1. {x \in S : f[x] <= n} = S /\ n \in 0..n
    BY <1>1
  <2>2. Cardinality({x \in S : f[x] <= n}) = n
    BY <2>1, NumberedCount
  <2> QED BY <2>1, <2>2
<1>3. ASSUME NEW x \in S, NEW k \in 1..n
      PROVE  (/\ Cardinality({y \in S : f[y] < f[x]}) < k
              /\ Cardinality({y \in S : ~(f[x] < f[y])}) >= k)
               <=> f[x] = k
  <2> DEFINE j == f[x]
             before == {y \in S : f[y] < j}
             upto == {y \in S : ~(j < f[y])}
  <2>1. j \in 1..n /\ j - 1 \in 0..n /\ j \in 0..n
    BY <1>1
  <2>2. before = {y \in S : f[y] <= j - 1}
    BY <1>1, <2>1
  <2>3. upto = {y \in S : f[y] <= j}
    BY <1>1, <2>1
  <2> HIDE DEF j
  <2>4. Cardinality({y \in S : f[y] <= j - 1}) = j - 1
    BY <2>1, NumberedCount
  <2>5. Cardinality({y \in S : f[y] <= j}) = j
    BY <2>1, NumberedCount
  <2>6. Cardinality(before) = j - 1 /\ Cardinality(upto) = j
    BY <2>2, <2>3, <2>4, <2>5
  <2> HIDE DEF before, upto
  <2>7. (Cardinality(before) < k /\ Cardinality(upto) >= k) <=> j = k
    BY <2>1, <2>6
  <2> QED BY <2>7 DEF before, upto, j
<1> QED BY <1>2, <1>3

\* Elements told apart by a number, and where each of them comes in their order.
Rank(f, S, x) == Cardinality({y \in S : f[y] <= f[x]})

\* Each place in the order is that of one element, and what comes before it is one
\* less.
LEMMA RanksNumber ==
    ASSUME NEW S, IsFiniteSet(S), NEW f, \A x \in S : f[x] \in Int,
           \A x, y \in S : f[x] = f[y] => x = y
    PROVE  /\ Numbers([x \in S |-> Rank(f, S, x)], S, Cardinality(S))
           /\ Cardinality(S) \in Nat
           /\ \A x \in S : Cardinality({y \in S : f[y] < f[x]}) = Rank(f, S, x) - 1
<1> DEFINE n == Cardinality(S)
           upto(x) == {y \in S : f[y] <= f[x]}
           rank == [x \in S |-> Rank(f, S, x)]
<1>1. n \in Nat
  BY FS_CardinalityType
<1>2. ASSUME NEW x \in S
      PROVE  /\ IsFiniteSet(upto(x)) /\ Cardinality(upto(x)) \in 1..n
             /\ {y \in S : f[y] < f[x]} = upto(x) \ {x}
             /\ Cardinality(upto(x) \ {x}) = Cardinality(upto(x)) - 1
  <2>1. upto(x) \in SUBSET S /\ x \in upto(x)
    OBVIOUS
  <2>2. {y \in S : f[y] < f[x]} = upto(x) \ {x}
    OBVIOUS
  <2> DEFINE U == upto(x)
  <2> HIDE DEF U, n
  <2>3. IsFiniteSet(U) /\ Cardinality(U) <= Cardinality(S)
    BY <2>1, FS_Subset DEF U
  <2>4. Cardinality(U \ {x}) = Cardinality(U) - 1 /\ IsFiniteSet(U \ {x})
    BY <2>1, <2>3, FS_RemoveElement DEF U
  <2>5. Cardinality(U) \in Nat /\ Cardinality(U \ {x}) \in Nat
    BY <2>3, <2>4, FS_CardinalityType
  <2>6. Cardinality(U) \in 1..n
    BY <1>1, <2>3, <2>4, <2>5 DEF n
  <2> QED BY <2>2, <2>3, <2>4, <2>6 DEF U
<1>3. ASSUME NEW x \in S, NEW y \in S, f[x] < f[y]
      PROVE  Cardinality(upto(x)) < Cardinality(upto(y))
  <2>1. upto(x) \in SUBSET (upto(y) \ {y})
    BY <1>3
  <2> DEFINE V == upto(y) \ {y}
             U == upto(x)
  <2>2. IsFiniteSet(V) /\ Cardinality(V) = Cardinality(upto(y)) - 1 /\ Cardinality(upto(y)) \in Nat
    <3>1. IsFiniteSet(upto(y)) /\ Cardinality(upto(y)) \in 1..n
          /\ Cardinality(upto(y) \ {y}) = Cardinality(upto(y)) - 1
      BY <1>2
    <3> HIDE DEF upto
    <3>2. IsFiniteSet(upto(y) \ {y})
      BY <3>1, FS_Difference
    <3> QED BY <1>1, <3>1, <3>2
  <2> HIDE DEF V, U
  <2>3. Cardinality(U) <= Cardinality(V) /\ IsFiniteSet(U)
    BY <2>1, <2>2, FS_Subset DEF U, V
  <2>4. Cardinality(U) \in Nat
    BY <2>3, FS_CardinalityType
  <2> HIDE DEF upto
  <2>5. Cardinality(U) < Cardinality(upto(y))
    BY <2>2, <2>3, <2>4
  <2> QED BY <2>5 DEF U
<1>4. \A x \in S : rank[x] = Cardinality(upto(x))
  BY DEF Rank
<1> HIDE DEF upto, rank
<1>5. \A x \in S : rank[x] \in 1..n
  BY <1>2, <1>4
<1>6. \A x, y \in S : rank[x] = rank[y] => x = y
  <2> SUFFICES ASSUME NEW x \in S, NEW y \in S, rank[x] = rank[y], x # y PROVE FALSE
    OBVIOUS
  <2>1. f[x] \in Int /\ f[y] \in Int /\ f[x] # f[y]
    OBVIOUS
  <2>2. f[x] < f[y] \/ f[y] < f[x]
    BY <2>1
  <2>3. rank[x] < rank[y] \/ rank[y] < rank[x]
    BY <1>3, <1>4, <2>2
  <2> QED BY <1>1, <1>5, <2>3
<1>7. rank \in Injection(S, 1..n)
  BY <1>5, <1>6 DEF Injection, IsInjective, rank
<1>8. IsFiniteSet(1..n) /\ Cardinality(1..n) = n
  BY <1>1, CountUpTo
<1>9. rank \in Surjection(S, 1..n)
  BY <1>7, <1>8, FS_Injection DEF n
<1>10. \A k \in 1..n : \E x \in S : rank[x] = k
  BY <1>9 DEF Surjection
<1>11. Numbers(rank, S, n)
  BY <1>5, <1>6, <1>10 DEF Numbers
<1>12. \A x \in S : Cardinality({y \in S : f[y] < f[x]}) = Rank(f, S, x) - 1
  <2>1. \A x \in S : Cardinality({y \in S : f[y] < f[x]}) = Cardinality(upto(x)) - 1
    BY <1>2
  <2> QED BY <2>1 DEF Rank, upto
<1> QED BY <1>1, <1>11, <1>12 DEF n, rank

\* Stored records in handle order: each of them once.
LEMMA RecordOrder ==
    ASSUME NEW R, IsFiniteSet(R), \A r \in R : r.id \in Int,
           \A r, s \in R : r.id = s.id => r = s
    PROVE  LET q == OrderBy(R, LAMBDA r, s : r.id < s.id) IN
           /\ Cardinality(R) \in Nat /\ DOMAIN q = 1..Cardinality(R)
           /\ q = [n \in 1..Cardinality(R) |-> q[n]]
           /\ \A n \in 1..Cardinality(R) : q[n] \in R
           /\ \A m, n \in 1..Cardinality(R) : q[m] = q[n] => m = n
<1> DEFINE q == OrderBy(R, LAMBDA r, s : r.id < s.id)
           f == [r \in R |-> r.id]
           rank == [r \in R |-> Rank(f, R, r)]
           N == Cardinality(R)
           Q(n, row) == /\ Cardinality({r \in R : r.id < row.id}) < n
                        /\ Cardinality({r \in R : ~(row.id < r.id)}) >= n
<1>1. /\ Numbers(rank, R, N) /\ N \in Nat
      /\ \A x \in R : Cardinality({y \in R : f[y] < f[x]}) = Rank(f, R, x) - 1
  <2>1. /\ \A x \in R : f[x] \in Int
        /\ \A x, y \in R : f[x] = f[y] => x = y
    OBVIOUS
  <2> HIDE DEF f
  <2> QED BY <2>1, RanksNumber
<1>2. ASSUME NEW row \in R
      PROVE  /\ Cardinality({r \in R : r.id < row.id}) = rank[row] - 1
             /\ Cardinality({r \in R : ~(row.id < r.id)}) = rank[row]
  <2>1. {r \in R : r.id < row.id} = {r \in R : f[r] < f[row]}
    OBVIOUS
  <2>2. {r \in R : ~(row.id < r.id)} = {r \in R : f[r] <= f[row]}
    OBVIOUS
  <2> HIDE DEF f
  <2>3. rank[row] = Cardinality({r \in R : f[r] <= f[row]})
    BY DEF Rank
  <2>4. Cardinality({r \in R : f[r] < f[row]}) = rank[row] - 1
    BY <1>1
  <2> QED BY <2>1, <2>2, <2>3, <2>4
<1> HIDE DEF rank, f
<1>3. \A x \in R : rank[x] \in 1..N
  BY <1>1 DEF Numbers
<1>4. ASSUME NEW n \in 1..N, NEW row \in R PROVE Q(n, row) <=> rank[row] = n
  <2>1. Q(n, row) <=> rank[row] - 1 < n /\ rank[row] >= n
    BY <1>2
  <2> HIDE DEF Q
  <2> QED BY <1>1, <1>3, <2>1
<1>5. q = [n \in 1..N |-> CHOOSE row \in R : Q(n, row)]
  BY DEF OrderBy
<1> HIDE DEF q, Q, N
<1>6. ASSUME NEW n \in 1..N PROVE q[n] \in R /\ rank[q[n]] = n
  <2>1. \E row \in R : rank[row] = n
    BY <1>1 DEF Numbers
  <2>2. \E row \in R : Q(n, row)
    BY <1>4, <2>1
  <2>3. q[n] = CHOOSE row \in R : Q(n, row)
    BY <1>5
  <2>4. q[n] \in R /\ Q(n, q[n])
    BY <2>2, <2>3
  <2> QED BY <1>4, <2>4
<1>7. DOMAIN q = 1..N /\ q = [n \in 1..N |-> q[n]]
  BY <1>5
<1>8. \A m, n \in 1..N : q[m] = q[n] => m = n
  BY <1>6
<1> QED BY <1>1, <1>6, <1>7, <1>8 DEF q, N

\* from_records accepts stored records only when their handles leave no gap: it
\* makes as many accounts as there are records.
LEMMA RecordsLeaveNoGap ==
    ASSUME NEW R, IsFiniteSet(R), \A r \in R : r.id \in Int,
           \A r, s \in R : r.id = s.id => r = s, from_records(R).ok
    PROVE  /\ Cardinality(R) \in Nat
           /\ Handles(from_records(R).registry) = 1..Cardinality(R)
           /\ \E S : from_records(R).registry.accounts \in Seq(S)
<1> DEFINE q == OrderBy(R, LAMBDA r, s : r.id < s.id)
           N == Cardinality(R)
           base == [ok |-> TRUE, registry |-> AccountRegistry_new]
           A == {r.account : r \in R}
<1>1. /\ N \in Nat /\ DOMAIN q = 1..N
      /\ \A n \in 1..N : q[n] \in R
      /\ \A m, n \in 1..N : q[m] = q[n] => m = n
  BY RecordOrder
<1>2. from_records(R) = Reload!Fold(0, base, q)
  BY DEF from_records, FoldLeft, MapThenFoldSet, Max, Restored,
         Reload!Fold, Reload!FoldLeft, Reload!MapThenFoldSet, Reload!Max
<1> HIDE DEF q, N
<1>3. PICK t : Reload!IsTrace(t, 0, base, q, N) /\ from_records(R) = t[N]
  BY <1>1, <1>2, Reload!FoldTrace
<1>4. t[0] = base /\ \A j \in 0..(N - 1) : t[j + 1] = Restored(0, t[j], q[j + 1])
  BY <1>3 DEF Reload!IsTrace
<1> DEFINE Made(acc, j) ==
              /\ "ok" \in DOMAIN acc
              /\ acc.ok => /\ acc.registry.accounts \in Seq(A) /\ Len(acc.registry.accounts) = j
                           /\ \A i \in 1..j : q[i].id = i
           T == {j \in 0..N : Made(t[j], j)}
<1>5. 0 \in T
  <2>1. t[0].registry.accounts = <<>> /\ "ok" \in DOMAIN t[0]
    BY <1>4 DEF AccountRegistry_new
  <2>2. <<>> \in Seq(A) /\ Len(<<>>) = 0 /\ 0 \in 0..N
    BY <1>1
  <2> HIDE DEF A
  <2>3. \A i \in 1..0 : q[i].id = i
    OBVIOUS
  <2>4. Made(t[0], 0)
    BY <2>1, <2>2, <2>3
  <2> HIDE DEF Made
  <2> QED BY <2>2, <2>4
<1>6. ASSUME NEW j \in 0..(N - 1), j \in T PROVE j + 1 \in T
  <2> DEFINE part == t[j].registry
             r == q[j + 1]
             later == restore(part, r)
  <2>1. j \in Nat /\ j + 1 \in 1..N /\ j + 1 \in 0..N /\ r \in R /\ \A i \in 1..j : i \in 1..N /\ i # j + 1
    BY <1>1
  <2>2. Made(t[j], j) /\ t[j + 1] = Restored(0, t[j], r)
    BY <1>4, <1>6
  <2>3. CASE t[j].ok /\ CanRestore(part, r)
    <3>1. part.accounts \in Seq(A) /\ Len(part.accounts) = j /\ \A i \in 1..j : q[i].id = i
      BY <2>2, <2>3
    <3>2. Handles(part) = 1..j
      BY <3>1 DEF Handles
    <3>3. r.id \notin 1..j
      <4> SUFFICES ASSUME r.id \in 1..j PROVE FALSE
        OBVIOUS
      <4> DEFINE i == r.id
      <4>1. q[i].id = i /\ i \in 1..N /\ i # j + 1 /\ q[i] \in R
        BY <1>1, <2>1, <3>1
      <4>2. q[i] = r
        BY <2>1, <4>1
      <4> QED BY <1>1, <2>1, <4>1, <4>2
    <3>4. r.id = j + 1 /\ later = register(part, r.account)
      BY <2>3, <3>1, <3>2, <3>3 DEF CanRestore, restore
    <3>5. later.accounts = Append(part.accounts, r.account)
      BY <3>4 DEF register
    <3>6. r.account \in A
      BY <2>1
    <3> HIDE DEF A
    <3>7. later.accounts \in Seq(A) /\ Len(later.accounts) = j + 1
      BY <2>1, <3>1, <3>5, <3>6
    <3>8. \A i \in 1..(j + 1) : q[i].id = i
      <4>1. \A i \in 1..(j + 1) : i \in 1..j \/ i = j + 1
        BY <2>1
      <4> QED BY <3>1, <3>4, <4>1
    <3> HIDE DEF later
    <3>9. t[j + 1] = [ok |-> TRUE, registry |-> later]
      BY <2>2, <2>3 DEF Restored, later
    <3>10. "ok" \in DOMAIN t[j + 1] /\ t[j + 1].registry = later
      BY <3>9
    <3>11. Made(t[j + 1], j + 1)
      BY <3>7, <3>8, <3>10
    <3> HIDE DEF Made
    <3> QED BY <2>1, <3>11
  <2>4. CASE ~(t[j].ok /\ CanRestore(part, r))
    <3>1. "ok" \in DOMAIN t[j] /\ t[j + 1] = [t[j] EXCEPT !.ok = FALSE]
      BY <2>2, <2>4 DEF Restored
    <3>2. "ok" \in DOMAIN t[j + 1]
      BY <3>1
    <3>3. "ok" \in DOMAIN t[j + 1] /\ ~t[j + 1].ok
      BY <3>1, <3>2
    <3>4. Made(t[j + 1], j + 1)
      BY <3>3
    <3> HIDE DEF Made
    <3> QED BY <2>1, <3>4
  <2> QED BY <2>3, <2>4
<1>7. N \in T
  <2>1. N \in 0..N
    BY <1>1
  <2> HIDE DEF T
  <2> QED BY <1>1, <1>5, <1>6, <2>1, Reload!BoundedInduction
<1>8. t[N].registry.accounts \in Seq(A) /\ Len(t[N].registry.accounts) = N
  BY <1>3, <1>7
<1>9. Handles(t[N].registry) = 1..N
  <2> HIDE DEF A
  <2> QED BY <1>8 DEF Handles
<1> HIDE DEF A
<1> QED BY <1>1, <1>3, <1>8, <1>9 DEF N
=============================================================================
