------------------------ MODULE PostgresSealsProofs -------------------------
(***************************************************************************)
(* Any number of admins, any accounts, entries and periods: the seals of a *)
(* PostgreSQL ledger are one chain that verifies, although every one of    *)
(* them is made of what several queries returned at different times.       *)
(***************************************************************************)
EXTENDS PostgresSeals, BooksLemmas

-----------------------------------------------------------------------------
(***************************************************************************)
(* The inductive invariant.                                                *)
(***************************************************************************)
IsTables(t) ==
    /\ t = [entries |-> t.entries, postings |-> t.postings,
            posting_dimensions |-> t.posting_dimensions, log_subtrees |-> t.log_subtrees,
            accounts |-> t.accounts, periods |-> t.periods, seals |-> t.seals,
            clearings |-> t.clearings, checkpoints |-> t.checkpoints]
    /\ t.entries = [id \in DOMAIN t.entries |-> t.entries[id]]
    /\ \A id \in DOMAIN t.entries : /\ {"log_index", "tree_root"} \subseteq DOMAIN t.entries[id]
                                    /\ t.entries[id].log_index \in Nat
    /\ IsFiniteSet(DOMAIN t.accounts) /\ DOMAIN t.accounts \subseteq Nat

\* The placed rows are numbered without gaps, the accumulator covers exactly these,
\* and each of them stores a root over as many leaves as its number says.
Position(t) == [id \in Placed(t) |-> t.entries[id].log_index]

IsDenseLog(t) ==
    /\ \E S : t.log_subtrees \in Seq(S)
    /\ Numbers(Position(t), Placed(t), Len(t.log_subtrees))
    /\ \A id \in Placed(t) : Len(t.entries[id].tree_root) = t.entries[id].log_index

\* The seals, by their place in the chain, are the sequence q.
Place_(t) == [id \in DOMAIN t.seals |-> t.seals[id].chain_position + 1]

IsChain(t, q) ==
    /\ \E S : q \in Seq(S)
    /\ Numbers(Place_(t), DOMAIN t.seals, Len(q))
    /\ \A id \in DOMAIN t.seals : /\ t.seals[id].chain_position \in Nat
                                  /\ q[t.seals[id].chain_position + 1] = t.seals[id].seal
                                  /\ t.seals[id].seal.period = id

\* No seal commits to more leaves than `log`, or to more accounts than `handles`.
WithinBounds(q, log, handles) ==
    \A n \in DOMAIN q : /\ Len(q[n].tree_head) \in Nat /\ Len(q[n].tree_head) <= log
                        /\ Len(q[n].accounts) \in Nat /\ Len(q[n].accounts) <= handles

\* What an admin has read: a beginning of the chain q, and after it a head and
\* accounts that cover what the seals of that beginning cover.
Reading == {"head", "accounts", "insert"}

HasRead(t, q, log, handles) ==
    /\ t.pc \in Reading =>
          /\ "chain" \in DOMAIN t
          /\ \E k \in 0..Len(q) : t.chain = SubSeq(q, 1, k)
    /\ t.pc \in Reading \ {"head"} =>
          /\ "head" \in DOMAIN t /\ Len(t.head) \in Nat /\ Len(t.head) <= log
          /\ \A n \in DOMAIN t.chain : Len(t.chain[n].tree_head) <= Len(t.head)
    /\ t.pc = "insert" =>
          /\ "accounts" \in DOMAIN t /\ Len(t.accounts) \in Nat /\ Len(t.accounts) <= handles
          /\ \A n \in DOMAIN t.chain : Len(t.chain[n].accounts) <= Len(t.accounts)

Chain == sql_seals(db)

Log == Len(db.log_subtrees)

Registered == Cardinality(DOMAIN db.accounts)

IInv ==
    /\ setup \in DOMAIN Setups
    /\ IsTables(db) /\ IsDenseLog(db)
    /\ IsChain(db, Chain) /\ verify_chain(Chain) /\ WithinBounds(Chain, Log, Registered)
    /\ task = [a \in Admins |-> task[a]]
    /\ \A a \in Admins : "pc" \in DOMAIN task[a] /\ HasRead(task[a], Chain, Log, Registered)

-----------------------------------------------------------------------------
(***************************************************************************)
(* Queries.                                                                *)
(***************************************************************************)
\* ORDER BY chain_position gives the chain.
LEMMA ChainIs ==
    ASSUME NEW t, NEW q, IsChain(t, q)
    PROVE  sql_seals(t) = q
<1> DEFINE S == DOMAIN t.seals
           f == Place_(t)
           n == Len(q)
           order == OrderBy(S, LAMBDA a, b : t.seals[a].chain_position < t.seals[b].chain_position)
           P(k, row) == /\ Cardinality({r \in S : t.seals[r].chain_position < t.seals[row].chain_position}) < k
                        /\ Cardinality({r \in S : ~(t.seals[row].chain_position < t.seals[r].chain_position)}) >= k
<1>1. PICK Q : q \in Seq(Q)
  BY DEF IsChain
<1>2. n \in Nat /\ q = [k \in 1..n |-> q[k]]
  BY <1>1
<1>3. \A id \in S : /\ t.seals[id].chain_position \in Nat /\ f[id] = t.seals[id].chain_position + 1
                     /\ q[f[id]] = t.seals[id].seal
  BY DEF IsChain, Place_
<1>4. Numbers(f, S, n)
  BY DEF IsChain
<1> HIDE DEF f, n
<1>5. /\ Cardinality(S) = n
      /\ \A x \in S : \A k \in 1..n :
             (/\ Cardinality({y \in S : f[y] < f[x]}) < k
              /\ Cardinality({y \in S : ~(f[x] < f[y])}) >= k)
                <=> f[x] = k
  <2> HIDE DEF S
  <2> QED BY <1>2, <1>4, NumberedOrder
<1>6. order = [k \in 1..n |-> CHOOSE row \in S : P(k, row)]
  BY <1>5 DEF OrderBy
<1>7. ASSUME NEW k \in 1..n PROVE order[k] \in S /\ f[order[k]] = k
  <2>1. PICK x \in S : f[x] = k
    BY <1>4 DEF Numbers
  <2>2. ASSUME NEW row \in S PROVE P(k, row) <=> f[row] = k
    <3>1. {r \in S : t.seals[r].chain_position < t.seals[row].chain_position} = {y \in S : f[y] < f[row]}
      BY <1>3
    <3>2. {r \in S : ~(t.seals[row].chain_position < t.seals[r].chain_position)} = {y \in S : ~(f[row] < f[y])}
      BY <1>3
    <3> QED BY <1>5, <3>1, <3>2
  <2>3. order[k] = CHOOSE row \in S : P(k, row)
    BY <1>6
  <2> HIDE DEF P, order
  <2> QED BY <2>1, <2>2, <2>3
<1>8. DOMAIN order = 1..n
  BY <1>6
<1>9. sql_seals(t) = [k \in DOMAIN order |-> t.seals[order[k]].seal]
  BY DEF sql_seals
<1> HIDE DEF order
<1>10. \A k \in 1..n : t.seals[order[k]].seal = q[k]
  BY <1>3, <1>7
<1>11. sql_seals(t) = [k \in 1..n |-> q[k]]
  BY <1>8, <1>9, <1>10
<1> QED BY <1>2, <1>11

\* The greatest of a set of numbers, when it is known.
LEMMA GreatestIs ==
    ASSUME NEW s \in SUBSET Int, NEW x \in s, \A y \in s : y <= x
    PROVE  Max(s) = x
<1> DEFINE P(z) == z \in s /\ \A y \in s : z >= y
<1>1. P(x)
  OBVIOUS
<1>2. ASSUME NEW z, P(z) PROVE z = x
  <2>1. z \in Int /\ x \in Int /\ z >= x /\ x >= z
    BY <1>2
  <2> QED BY <2>1
<1>3. Max(s) = CHOOSE z : P(z)
  BY Zenon DEF Max
<1> HIDE DEF P
<1> QED BY <1>1, <1>2, <1>3

\* The next position, and the head: the root the last row stores.
LEMMA LogIs ==
    ASSUME NEW t, IsTables(t), IsDenseLog(t)
    PROVE  LET m == Len(t.log_subtrees) IN
           /\ m \in Nat
           /\ next_index(t) = m + 1
           /\ Len(sql_head(t)) = m
<1> DEFINE ids == Placed(t)
           f == Position(t)
           m == Len(t.log_subtrees)
           order == PlacedInOrder(t)
           P(k, row) == /\ Cardinality({r \in ids : t.entries[r].log_index < t.entries[row].log_index}) < k
                        /\ Cardinality({r \in ids : ~(t.entries[row].log_index < t.entries[r].log_index)}) >= k
<1>1. m \in Nat
  BY DEF IsDenseLog
<1>2. Numbers(f, ids, m)
  BY DEF IsDenseLog
<1>3. \A id \in ids : /\ f[id] = t.entries[id].log_index /\ Len(t.entries[id].tree_root) = f[id]
                       /\ f[id] \in 1..m
  BY <1>2 DEF IsDenseLog, Position, Numbers
<1> HIDE DEF f, m
<1>4. next_index(t) = m + 1
  <2> DEFINE s == {0} \cup {t.entries[id].log_index : id \in ids}
  <2>1. s \in SUBSET Int /\ \A y \in s : y <= m
    BY <1>1, <1>3
  <2>2. m \in s
    <3>1. CASE m = 0
      BY <3>1
    <3>2. CASE m # 0
      <4>1. m \in 1..m
        BY <1>1, <3>2
      <4>2. \E id \in ids : f[id] = m
        BY <1>2, <4>1 DEF Numbers
      <4> QED BY <1>3, <4>2
    <3> QED BY <3>1, <3>2
  <2>3. next_index(t) = 1 + Max(s)
    BY DEF next_index
  <2> HIDE DEF s
  <2>4. Max(s) = m
    BY <2>1, <2>2, GreatestIs
  <2> QED BY <1>1, <2>3, <2>4
<1>5. /\ Cardinality(ids) = m
      /\ \A x \in ids : \A k \in 1..m :
             (/\ Cardinality({y \in ids : f[y] < f[x]}) < k
              /\ Cardinality({y \in ids : ~(f[x] < f[y])}) >= k)
                <=> f[x] = k
  <2> HIDE DEF ids
  <2> QED BY <1>1, <1>2, NumberedOrder
<1>6. order = [k \in 1..m |-> CHOOSE row \in ids : P(k, row)]
  BY <1>5 DEF OrderBy, PlacedInOrder
<1>7. ASSUME NEW k \in 1..m PROVE order[k] \in ids /\ f[order[k]] = k
  <2>1. PICK x \in ids : f[x] = k
    BY <1>2 DEF Numbers
  <2>2. ASSUME NEW row \in ids PROVE P(k, row) <=> f[row] = k
    <3>1. {r \in ids : t.entries[r].log_index < t.entries[row].log_index} = {y \in ids : f[y] < f[row]}
      BY <1>3
    <3>2. {r \in ids : ~(t.entries[row].log_index < t.entries[r].log_index)} = {y \in ids : ~(f[row] < f[y])}
      BY <1>3
    <3> QED BY <1>5, <3>1, <3>2
  <2>3. order[k] = CHOOSE row \in ids : P(k, row)
    BY <1>6
  <2> HIDE DEF P, order, ids
  <2> QED BY <2>1, <2>2, <2>3
<1>8. DOMAIN order = 1..m /\ order \in Seq(ids) /\ Len(order) = m
  <2>1. order = [k \in 1..m |-> order[k]]
    BY <1>6
  <2> HIDE DEF order, ids
  <2> QED BY <1>1, <1>7, <2>1
<1>9. CASE ids = {}
  <2>1. m = 0
    <3> SUFFICES ASSUME m # 0 PROVE FALSE
      OBVIOUS
    <3>1. m \in 1..m
      BY <1>1
    <3> QED BY <1>2, <1>9, <3>1 DEF Numbers
  <2>2. sql_head(t) = <<>>
    BY <1>9 DEF sql_head
  <2> QED BY <1>1, <1>4, <2>1, <2>2 DEF m
<1>10. CASE ids # {}
  <2>1. m \in 1..m
    <3>1. PICK id \in ids : TRUE
      BY <1>10
    <3> QED BY <1>1, <1>3, <3>1
  <2>2. Last(order) = order[m]
    <3> HIDE DEF order
    <3> QED BY <1>8 DEF Last
  <2>3. sql_head(t) = t.entries[order[m]].tree_root
    BY <1>10, <2>2 DEF sql_head
  <2> HIDE DEF order, ids
  <2>4. Len(sql_head(t)) = m
    BY <1>3, <1>7, <2>1, <2>3
  <2> QED BY <1>1, <1>4, <2>4 DEF m
<1> QED BY <1>9, <1>10

\* When the stored accounts make a registry, its commitment has a leaf for each.
LEMMA AccountsAre ==
    ASSUME NEW t, IsTables(t), from_records(sql_accounts(t)).ok
    PROVE  /\ Cardinality(DOMAIN t.accounts) \in Nat
           /\ Len(commitment(from_records(sql_accounts(t)).registry)) = Cardinality(DOMAIN t.accounts)
<1> DEFINE R == sql_accounts(t)
           D == DOMAIN t.accounts
           f == [id \in D |-> account_record(t, id)]
           reg == from_records(R).registry
           n == Cardinality(D)
<1>1. IsFiniteSet(D) /\ D \subseteq Nat
  BY DEF IsTables
<1>2. \A id \in D : f[id].id = id
  BY DEF account_record
<1>3. R = {f[id] : id \in D}
  BY DEF sql_accounts
<1> HIDE DEF f, D, R
<1>4. f \in [D -> R]
  BY <1>3 DEF f
<1>5. f \in Surjection(D, R)
  BY <1>3, <1>4 DEF Surjection
<1>6. \A a, b \in D : f[a] = f[b] => a = b
  BY <1>2
<1>7. f \in Injection(D, R)
  BY <1>4, <1>6 DEF Injection, IsInjective
<1>8. f \in Bijection(D, R)
  BY <1>5, <1>7 DEF Bijection
<1>9. IsFiniteSet(R) /\ Cardinality(R) = n
  BY <1>1, <1>8, FS_Bijection DEF ExistsBijection
<1>10. /\ \A r \in R : r.id \in Int
       /\ \A r, s \in R : r.id = s.id => r = s
  BY <1>1, <1>2, <1>3
<1>11. n \in Nat /\ Handles(reg) = 1..n
  BY <1>9, <1>10, RecordsLeaveNoGap DEF R
<1>12. Len(commitment(reg)) = n
  <2> DEFINE q == commitment(reg)
             A == {q[k] : k \in 1..n}
  <2>1. q = [k \in 1..n |-> q[k]]
    BY <1>11 DEF commitment, binding_log
  <2>2. q \in [1..n -> A]
    BY <2>1
  <2> HIDE DEF q, n, A
  <2>3. n \in Nat
    BY <1>11
  <2>4. q \in Seq(A) /\ Len(q) = n
    BY <2>2, <2>3
  <2> QED BY <2>4 DEF q
<1> QED BY <1>11, <1>12 DEF n, D, R, reg

-----------------------------------------------------------------------------
(***************************************************************************)
(* Statements.                                                             *)
(***************************************************************************)
\* One posting of an entry is inserted.
PostStep(ctx, t, i) == insert_posting(t, ctx, i)

Posted == INSTANCE Folding WITH Op <- PostStep

\* The tables but for entries and accumulator, which some statements leave alone.
IsShaped(t) ==
    t = [entries |-> t.entries, postings |-> t.postings,
         posting_dimensions |-> t.posting_dimensions, log_subtrees |-> t.log_subtrees,
         accounts |-> t.accounts, periods |-> t.periods, seals |-> t.seals,
         clearings |-> t.clearings, checkpoints |-> t.checkpoints]

SameSeals(t, u) == u.seals = t.seals /\ u.accounts = t.accounts

\* The rows append writes: one entry, at the end of the log or unplaced.
LEMMA AppendRowsIs ==
    ASSUME NEW t, IsShaped(t), NEW e, e.postings \in Seq(Posting), NEW x, NEW inline \in BOOLEAN
    PROVE  LET u   == append_rows(t, e, x, inline)
               log == Append(t.log_subtrees, content_hash(e))
           IN /\ IsShaped(u) /\ SameSeals(t, u)
              /\ u.entries = Insert(t.entries, e.id,
                                entry_row(e, x, IF inline THEN next_index(t) ELSE Null,
                                          IF inline THEN log ELSE <<>>))
              /\ u.log_subtrees = IF inline THEN log ELSE t.log_subtrees
<1> DEFINE log == Append(t.log_subtrees, content_hash(e))
           row == entry_row(e, x, IF inline THEN next_index(t) ELSE Null, IF inline THEN log ELSE <<>>)
           E == Insert(t.entries, e.id, row)
           rows == insert_entry(t, e, x, IF inline THEN next_index(t) ELSE Null,
                                IF inline THEN log ELSE <<>>)
           q == [i \in DOMAIN e.postings |-> i]
           n == Len(e.postings)
           posted == Posted!Fold(e, rows, q)
<1>1. n \in Nat /\ DOMAIN q = 1..n
  OBVIOUS
<1>2. append_rows(t, e, x, inline) = IF inline THEN store_accumulator(posted, log) ELSE posted
  BY DEF append_rows, PostStep, FoldLeft, MapThenFoldSet, Max,
         Posted!Fold, Posted!FoldLeft, Posted!MapThenFoldSet, Posted!Max
<1> DEFINE Kept(u) == /\ IsShaped(u) /\ u.entries = E /\ u.seals = t.seals /\ u.accounts = t.accounts
                      /\ u.log_subtrees = t.log_subtrees
<1>3. Kept(rows)
  <2>1. rows = [t EXCEPT !.entries = E]
    BY DEF insert_entry
  <2> HIDE DEF rows, E
  <2> QED BY <2>1 DEF IsShaped
<1> HIDE DEF rows, E, q, n, log
<1>4. PICK u : Posted!IsTrace(u, e, rows, q, n) /\ posted = u[n]
  BY <1>1, Posted!FoldTrace
<1>5. u[0] = rows /\ \A j \in 0..(n - 1) : u[j + 1] = PostStep(e, u[j], q[j + 1])
  BY <1>4 DEF Posted!IsTrace
<1> DEFINE T == {j \in Nat : Kept(u[j])}
<1>6. 0 \in T
  BY <1>3, <1>5
<1>7. ASSUME NEW j \in 0..(n - 1), j \in T PROVE j + 1 \in T
  <2> DEFINE a == u[j]
             b == u[j + 1]
             i == q[j + 1]
             P == Insert(a.postings, <<e.id, i>>, posting_row(e.postings[i]))
             G == a.posting_dimensions \cup {[entry_id |-> e.id, posting_index |-> i, axis |-> d] :
                                                d \in e.postings[i].dimensions}
  <2>1. b = [a EXCEPT !.postings = P, !.posting_dimensions = G]
    BY <1>5 DEF PostStep, insert_posting
  <2>2. Kept(a) /\ j + 1 \in Nat
    BY <1>1, <1>7
  <2> HIDE DEF a, b, P, G
  <2>3. Kept(b)
    BY <2>1, <2>2 DEF IsShaped
  <2> HIDE DEF Kept
  <2> QED BY <2>2, <2>3 DEF b
<1> HIDE DEF T
<1>8. n \in T
  BY <1>1, <1>6, <1>7, Posted!BoundedInduction
<1>9. Kept(posted)
  BY <1>4, <1>8 DEF T
<1> HIDE DEF posted
<1>10. CASE inline
  <2> DEFINE b == append_rows(t, e, x, inline)
  <2>1. b = [posted EXCEPT !.log_subtrees = log]
    BY <1>2, <1>10 DEF store_accumulator
  <2> HIDE DEF b
  <2>2. IsShaped(b) /\ b.entries = E /\ SameSeals(t, b) /\ b.log_subtrees = log
    BY <1>9, <2>1 DEF IsShaped, SameSeals
  <2> QED BY <1>10, <2>2 DEF b, E, log
<1>11. CASE ~inline
  <2>1. append_rows(t, e, x, inline) = posted
    BY <1>2, <1>11
  <2> QED BY <1>9, <1>11, <2>1 DEF SameSeals, E, log
<1> QED BY <1>10, <1>11

\* The columns of a row that the log is about.
LEMMA ColumnsOf ==
    ASSUME NEW e, NEW x, NEW index, NEW root
    PROVE  LET row == entry_row(e, x, index, root) IN
           /\ {"log_index", "tree_root"} \subseteq DOMAIN row
           /\ row.log_index = index /\ row.tree_root = root
  BY DEF entry_row

\* One row more at the end of the log.
LEMMA OneMoreRow ==
    ASSUME NEW t, IsTables(t), IsDenseLog(t), NEW u, NEW id, id \notin Placed(t), NEW h,
           u.log_subtrees = Append(t.log_subtrees, h),
           Placed(u) = Placed(t) \cup {id},
           \A i \in Placed(t) : /\ u.entries[i].log_index = t.entries[i].log_index
                                /\ u.entries[i].tree_root = t.entries[i].tree_root,
           u.entries[id].log_index = next_index(t),
           u.entries[id].tree_root = Append(t.log_subtrees, h)
    PROVE  IsDenseLog(u) /\ Len(u.log_subtrees) = Len(t.log_subtrees) + 1 /\ Len(t.log_subtrees) \in Nat
<1> DEFINE m == Len(t.log_subtrees)
           f == Position(t)
           g == Position(u)
           ids == Placed(t)
           log == Append(t.log_subtrees, h)
<1>1. m \in Nat /\ next_index(t) = m + 1
  BY LogIs
<1>2. PICK S : t.log_subtrees \in Seq(S)
  BY DEF IsDenseLog
<1>3. log \in Seq(S \cup {h}) /\ Len(log) = m + 1
  BY <1>2
<1>4. /\ \A i \in ids : g[i] = f[i] /\ f[i] = t.entries[i].log_index
      /\ g[id] = m + 1 /\ u.entries[id].log_index = m + 1 /\ Placed(u) = ids \cup {id}
      /\ \A i \in ids : u.entries[i].log_index = f[i] /\ Len(u.entries[i].tree_root) = f[i]
  BY <1>1 DEF Position, IsDenseLog
<1>5. Numbers(f, ids, m)
  BY DEF IsDenseLog
<1> HIDE DEF f, g, m, ids, log
<1>6. /\ \A i \in ids : f[i] \in 1..m
      /\ \A k \in 1..m : \E i \in ids : f[i] = k
      /\ \A i, j \in ids : f[i] = f[j] => i = j
  BY <1>5 DEF Numbers
<1>7. Numbers(g, ids \cup {id}, m + 1)
  <2>1. \A i \in ids \cup {id} : g[i] \in 1..(m + 1)
    BY <1>1, <1>4, <1>6
  <2>2. ASSUME NEW k \in 1..(m + 1) PROVE \E i \in ids \cup {id} : g[i] = k
    <3>1. k \in 1..m \/ k = m + 1
      BY <1>1
    <3> QED BY <1>4, <1>6, <3>1
  <2>3. \A i, j \in ids \cup {id} : g[i] = g[j] => i = j
    <3>1. \A i \in ids : g[i] # m + 1
      BY <1>1, <1>4, <1>6
    <3> QED BY <1>4, <1>6, <3>1
  <2> QED BY <2>1, <2>2, <2>3 DEF Numbers
<1>8. \A i \in Placed(u) : Len(u.entries[i].tree_root) = u.entries[i].log_index
  <2>1. Len(u.entries[id].tree_root) = m + 1
    BY <1>3 DEF log
  <2> QED BY <1>4, <2>1
<1>9. u.log_subtrees \in Seq(S \cup {h}) /\ Len(u.log_subtrees) = m + 1
  BY <1>3 DEF log
<1>10. Numbers(Position(u), Placed(u), Len(u.log_subtrees))
  BY <1>4, <1>7, <1>9 DEF g
<1>11. IsDenseLog(u)
  BY <1>8, <1>9, <1>10 DEF IsDenseLog
<1> QED BY <1>1, <1>9, <1>11 DEF m

-----------------------------------------------------------------------------
(***************************************************************************)
(* Steps that take no seal.                                                *)
(***************************************************************************)
\* What was read stays a beginning of a chain that grows, and within bounds that
\* grow.
LEMMA ReadStays ==
    ASSUME NEW t, NEW q, NEW log \in Nat, NEW handles \in Nat, HasRead(t, q, log, handles),
           NEW p, NEW more \in Nat, NEW others \in Nat, log <= more, handles <= others,
           Len(q) \in Nat, Len(p) \in Nat, Len(q) <= Len(p),
           \A k \in 0..Len(q) : SubSeq(p, 1, k) = SubSeq(q, 1, k)
    PROVE  HasRead(t, p, more, others)
<1>1. ASSUME t.pc \in Reading
      PROVE  "chain" \in DOMAIN t /\ \E k \in 0..Len(p) : t.chain = SubSeq(p, 1, k)
  <2>1. PICK k \in 0..Len(q) : t.chain = SubSeq(q, 1, k)
    BY <1>1 DEF HasRead
  <2>2. k \in 0..Len(p) /\ t.chain = SubSeq(p, 1, k)
    BY <2>1
  <2> QED BY <1>1, <2>2 DEF HasRead
<1>2. ASSUME t.pc \in Reading \ {"head"}
      PROVE  /\ "head" \in DOMAIN t /\ Len(t.head) \in Nat /\ Len(t.head) <= more
             /\ \A n \in DOMAIN t.chain : Len(t.chain[n].tree_head) <= Len(t.head)
  BY <1>2 DEF HasRead
<1>3. ASSUME t.pc = "insert"
      PROVE  /\ "accounts" \in DOMAIN t /\ Len(t.accounts) \in Nat /\ Len(t.accounts) <= others
             /\ \A n \in DOMAIN t.chain : Len(t.chain[n].accounts) <= Len(t.accounts)
  BY <1>3 DEF HasRead
<1> QED BY <1>1, <1>2, <1>3 DEF HasRead

\* An admin at rest has read nothing.
LEMMA RestHasRead ==
    ASSUME NEW q, NEW log, NEW handles
    PROVE  "pc" \in DOMAIN AtRest /\ HasRead(AtRest, q, log, handles)
  BY DEF AtRest, HasRead, Reading

\* How much there is to read is a number.
LEMMA Sizes ==
    ASSUME IInv
    PROVE  /\ Log \in Nat /\ Registered \in Nat /\ Len(Chain) \in Nat
           /\ DOMAIN Chain = 1..Len(Chain) /\ \E S : Chain \in Seq(S)
<1>1. Log \in Nat
  BY LogIs DEF IInv, Log
<1>2. Registered \in Nat
  BY FS_CardinalityType DEF IInv, IsTables, Registered
<1>3. PICK S : Chain \in Seq(S)
  BY DEF IInv, IsChain
<1> HIDE DEF Chain
<1> QED BY <1>1, <1>2, <1>3

\* While no seal is stored, the tables may only grow and admins only go to rest.
LEMMA Unsealing ==
    ASSUME IInv, IsTables(db'), IsDenseLog(db'), db'.seals = db.seals, setup' = setup,
           Log <= Log', Registered <= Registered',
           task' = [a \in Admins |-> task'[a]],
           \A a \in Admins : task'[a] = task[a] \/ task'[a] = AtRest
    PROVE  IInv'
<1>1. /\ Log \in Nat /\ Registered \in Nat /\ Len(Chain) \in Nat
      /\ DOMAIN Chain = 1..Len(Chain)
  BY Sizes
<1>2. IsChain(db', Chain)
  BY DEF IInv, IsChain, Place_
<1>3. Chain' = Chain
  BY <1>2, ChainIs DEF Chain
<1>4. Log' \in Nat
  BY LogIs DEF Log
<1>5. Registered' \in Nat
  BY FS_CardinalityType DEF IsTables, Registered
<1>6. IsChain(db, Chain)' /\ verify_chain(Chain')
  BY <1>2, <1>3 DEF IInv
<1>7. WithinBounds(Chain, Log', Registered')
  <2>1. WithinBounds(Chain, Log, Registered)
    BY DEF IInv
  <2> HIDE DEF Chain, Log, Registered
  <2> QED BY <1>1, <1>4, <1>5, <2>1 DEF WithinBounds
<1>8. ASSUME NEW a \in Admins PROVE "pc" \in DOMAIN task'[a] /\ HasRead(task'[a], Chain, Log', Registered')
  <2>1. "pc" \in DOMAIN task[a] /\ HasRead(task[a], Chain, Log, Registered)
    BY DEF IInv
  <2>2. Len(Chain) <= Len(Chain) /\ \A k \in 0..Len(Chain) : SubSeq(Chain, 1, k) = SubSeq(Chain, 1, k)
    BY <1>1
  <2> HIDE DEF Chain, Log, Registered
  <2>3. HasRead(task[a], Chain, Log', Registered')
    BY <1>1, <1>4, <1>5, <2>1, <2>2, ReadStays
  <2> QED BY <2>1, <2>3, RestHasRead
<1>9. Admins' = Admins
  BY DEF Admins
<1> HIDE DEF Chain, Log, Registered
<1> QED BY <1>3, <1>6, <1>7, <1>8, <1>9 DEF IInv

\* A client books an entry.
LEMMA BookIInv ==
    ASSUME IInv, NEW e \in Setups[setup].bookings, Book(e),
           ~\E id \in DOMAIN db.entries : id = e.id \/ db.entries[id].idempotency_key = e.key
    PROVE  IInv'
<1> DEFINE row == entry_row(e, 0, IF Inline THEN next_index(db) ELSE Null,
                            IF Inline THEN Append(db.log_subtrees, content_hash(e)) ELSE <<>>)
           h == content_hash(e)
<1>1. IsTables(db) /\ IsDenseLog(db) /\ IsShaped(db) /\ setup \in DOMAIN Setups
  BY DEF IInv, IsTables, IsShaped
<1>2. e.postings \in Seq(Posting) /\ Inline \in BOOLEAN
  BY <1>1, ArrivalsAreTyped DEF Inline
<1>3. db' = append_rows(db, e, 0, Inline) /\ e.id \notin DOMAIN db.entries
      /\ setup' = setup /\ task' = task
  BY DEF Book
<1>4. /\ IsShaped(db') /\ SameSeals(db, db')
      /\ db'.entries = Insert(db.entries, e.id, row)
      /\ db'.log_subtrees = IF Inline THEN Append(db.log_subtrees, h) ELSE db.log_subtrees
  BY <1>1, <1>2, <1>3, AppendRowsIs
<1>5. /\ {"log_index", "tree_root"} \subseteq DOMAIN row
      /\ row.log_index = (IF Inline THEN next_index(db) ELSE Null)
      /\ row.tree_root = (IF Inline THEN Append(db.log_subtrees, content_hash(e)) ELSE <<>>)
  BY ColumnsOf
<1>6. next_index(db) = Log + 1 /\ Log \in Nat
  BY <1>1, LogIs DEF Log
<1> HIDE DEF row, h
<1>7. /\ DOMAIN db'.entries = DOMAIN db.entries \cup {e.id}
      /\ db'.entries = [id \in DOMAIN db'.entries |-> db'.entries[id]]
      /\ db'.entries[e.id] = row
      /\ \A id \in DOMAIN db.entries : db'.entries[id] = db.entries[id]
  BY <1>3, <1>4 DEF Insert
<1>8. IsTables(db')
  <2>1. row.log_index \in Nat
    BY <1>5, <1>6 DEF Null
  <2> QED BY <1>1, <1>4, <1>5, <1>7, <2>1 DEF IsTables, IsShaped, SameSeals
<1>9. IsDenseLog(db') /\ Log <= Log'
  <2>1. CASE Inline
    <3>1. /\ e.id \notin Placed(db) /\ Placed(db') = Placed(db) \cup {e.id}
          /\ \A i \in Placed(db) : db'.entries[i] = db.entries[i]
      <4>1. row.log_index # 0
        BY <1>5, <1>6, <2>1
      <4>2. Placed(db) \subseteq DOMAIN db.entries
        BY DEF Placed
      <4>3. Placed(db') = Placed(db) \cup {e.id}
        <5>1. \A id : id \in Placed(db') <=> id \in Placed(db) \cup {e.id}
          BY <1>3, <1>7, <4>1 DEF Placed, Null
        <5> QED BY <5>1
      <4> QED BY <1>3, <1>7, <4>2, <4>3
    <3>2. /\ db'.log_subtrees = Append(db.log_subtrees, h)
          /\ db'.entries[e.id].log_index = next_index(db)
          /\ db'.entries[e.id].tree_root = Append(db.log_subtrees, h)
      BY <1>4, <1>5, <1>7, <2>1 DEF h
    <3>3. IsDenseLog(db') /\ Len(db'.log_subtrees) = Len(db.log_subtrees) + 1
      BY <1>1, <3>1, <3>2, OneMoreRow
    <3> QED BY <1>6, <3>3 DEF Log
  <2>2. CASE ~Inline
    <3>1. row.log_index = 0 /\ db'.log_subtrees = db.log_subtrees
      BY <1>4, <1>5, <2>2 DEF Null
    <3>2. Placed(db') = Placed(db) /\ \A i \in Placed(db) : db'.entries[i] = db.entries[i]
      BY <1>3, <1>7, <3>1 DEF Placed, Null
    <3>3. Position(db') = Position(db)
      BY <3>2 DEF Position
    <3>4. IsDenseLog(db')
      BY <1>1, <3>1, <3>2, <3>3 DEF IsDenseLog
    <3> QED BY <1>6, <3>1, <3>4 DEF Log
  <2> QED BY <2>1, <2>2
<1>10. Registered <= Registered'
  <2>1. Registered' = Registered /\ Registered \in Nat
    BY <1>4, Sizes DEF Registered, SameSeals
  <2> QED BY <2>1
<1>11. task' = [a \in Admins |-> task'[a]]
  BY <1>3 DEF IInv
<1> QED BY <1>3, <1>4, <1>8, <1>9, <1>10, <1>11, Unsealing DEF SameSeals

\* The sequencer places a row.
LEMMA PlaceIInv ==
    ASSUME IInv, NEW id \in DOMAIN db.entries, Place(id)
    PROVE  IInv'
<1> DEFINE old == db.entries[id]
           h == old.content_hash
           log == Append(db.log_subtrees, h)
           at == [old EXCEPT !.log_index = next_index(db)]
           new == [at EXCEPT !.tree_root = log]
           E == [db.entries EXCEPT ![id] = new]
<1>1. IsTables(db) /\ IsDenseLog(db) /\ IsShaped(db)
  BY DEF IInv, IsTables, IsShaped
<1>2. db' = place_row(db, id) /\ id \notin Placed(db) /\ setup' = setup /\ task' = task
  BY DEF Place
<1>3. next_index(db) = Log + 1 /\ Log \in Nat
  BY <1>1, LogIs DEF Log
<1>4. {"log_index", "tree_root"} \subseteq DOMAIN old
  BY <1>1 DEF IsTables
<1>5. db' = [db EXCEPT !.log_subtrees = log, !.entries = E]
  <2> DEFINE n == next_index(db)
  <2>1. db' = [db EXCEPT !.log_subtrees = log, !.entries[id].log_index = n,
                         !.entries[id].tree_root = log]
    BY <1>2 DEF place_row
  <2>2. id \in DOMAIN db.entries /\ {"log_subtrees", "entries"} \subseteq DOMAIN db
    BY <1>1 DEF IsShaped
  <2>3. E = [db.entries EXCEPT ![id] = [old EXCEPT !.log_index = n, !.tree_root = log]]
    OBVIOUS
  <2> HIDE DEF n, log, E
  <2> QED BY <1>4, <2>1, <2>2, <2>3
<1> HIDE DEF old, log, E, h
<1>6. DOMAIN at = DOMAIN old /\ at.log_index = next_index(db)
  BY <1>4
<1> HIDE DEF at
<1>7. /\ {"log_index", "tree_root"} \subseteq DOMAIN new
      /\ new.log_index = next_index(db) /\ new.tree_root = log
  BY <1>4, <1>6
<1> HIDE DEF new
<1>8. /\ IsShaped(db') /\ SameSeals(db, db') /\ db'.entries = E /\ db'.log_subtrees = log
  BY <1>1, <1>5 DEF IsShaped, SameSeals
<1>9. /\ DOMAIN E = DOMAIN db.entries /\ E = [i \in DOMAIN E |-> E[i]] /\ E[id] = new
      /\ \A i \in DOMAIN db.entries \ {id} : E[i] = db.entries[i]
  BY <1>1 DEF E, IsTables
<1>10. IsTables(db')
  BY <1>1, <1>3, <1>7, <1>8, <1>9 DEF IsTables, IsShaped, SameSeals
<1>11. /\ Placed(db') = Placed(db) \cup {id}
       /\ \A i \in Placed(db) : db'.entries[i] = db.entries[i]
  BY <1>2, <1>3, <1>7, <1>8, <1>9 DEF Placed, Null
<1>12. IsDenseLog(db') /\ Len(db'.log_subtrees) = Len(db.log_subtrees) + 1
  <2>1. /\ db'.log_subtrees = Append(db.log_subtrees, h)
        /\ db'.entries[id].log_index = next_index(db)
        /\ db'.entries[id].tree_root = Append(db.log_subtrees, h)
    BY <1>7, <1>8, <1>9 DEF log
  <2> QED BY <1>1, <1>2, <1>11, <2>1, OneMoreRow
<1>13. Log <= Log'
  BY <1>3, <1>12 DEF Log
<1>14. Registered <= Registered'
  <2>1. Registered' = Registered /\ Registered \in Nat
    BY <1>8, Sizes DEF Registered, SameSeals
  <2> QED BY <2>1
<1>15. task' = [a \in Admins |-> task'[a]]
  BY <1>2 DEF IInv
<1> QED BY <1>2, <1>8, <1>10, <1>12, <1>13, <1>14, <1>15, Unsealing DEF SameSeals

\* A change of accounts or of periods alone.
LEMMA MasterDataIInv ==
    ASSUME IInv, NEW A, NEW P, db' = [db EXCEPT !.accounts = A, !.periods = P],
           IsFiniteSet(DOMAIN A), DOMAIN A \subseteq Nat, DOMAIN db.accounts \subseteq DOMAIN A,
           setup' = setup, task' = [a \in Admins |-> task'[a]],
           \A a \in Admins : task'[a] = task[a] \/ task'[a] = AtRest
    PROVE  IInv'
<1>1. IsTables(db) /\ IsDenseLog(db)
  BY DEF IInv
<1>2. /\ IsShaped(db') /\ db'.entries = db.entries /\ db'.log_subtrees = db.log_subtrees
      /\ db'.seals = db.seals /\ db'.accounts = A
  BY <1>1 DEF IsTables, IsShaped
<1>3. IsTables(db')
  BY <1>1, <1>2 DEF IsTables, IsShaped
<1>4. IsDenseLog(db')
  <2>1. Placed(db') = Placed(db) /\ Position(db') = Position(db)
    BY <1>2 DEF Placed, Position
  <2> QED BY <1>1, <1>2, <2>1 DEF IsDenseLog
<1>5. Log' = Log /\ Log \in Nat
  BY <1>2, Sizes DEF Log
<1>6. Cardinality(DOMAIN db.accounts) <= Cardinality(DOMAIN A)
  BY FS_Subset
<1>7. Registered <= Registered'
  BY <1>2, <1>6 DEF Registered
<1> QED BY <1>2, <1>3, <1>4, <1>5, <1>7, Unsealing

\* An account is registered.
LEMMA StoreAccountIInv ==
    ASSUME IInv, NEW record \in Setups[setup].records, StoreAccount(record)
    PROVE  IInv'
<1> DEFINE A == Insert(db.accounts, record.id, account_row(record.account))
<1>1. IsTables(db) /\ IsShaped(db) /\ setup \in DOMAIN Setups
  BY DEF IInv, IsTables, IsShaped
<1>2. record.id \in Nat
  BY <1>1, ArrivalsAreTyped
<1>3. db' = [db EXCEPT !.accounts = A] /\ setup' = setup /\ task' = task
  BY DEF StoreAccount, register_account
<1>4. DOMAIN A = DOMAIN db.accounts \cup {record.id}
  BY DEF Insert
<1> HIDE DEF A
<1>5. db' = [db EXCEPT !.accounts = A, !.periods = db.periods]
  BY <1>1, <1>3 DEF IsShaped
<1>6. IsFiniteSet(DOMAIN A) /\ DOMAIN A \subseteq Nat /\ DOMAIN db.accounts \subseteq DOMAIN A
  BY <1>1, <1>2, <1>4, FS_AddElement DEF IsTables
<1>7. task' = [a \in Admins |-> task'[a]]
  BY <1>3 DEF IInv
<1> QED BY <1>3, <1>5, <1>6, <1>7, MasterDataIInv

\* Periods are declared again or moved.
LEMMA PeriodsIInv ==
    ASSUME IInv, NEW P, db' = [db EXCEPT !.periods = P], setup' = setup,
           task' = [a \in Admins |-> task'[a]],
           \A a \in Admins : task'[a] = task[a] \/ task'[a] = AtRest
    PROVE  IInv'
<1>1. IsTables(db) /\ IsShaped(db)
  BY DEF IInv, IsTables, IsShaped
<1>2. db' = [db EXCEPT !.accounts = db.accounts, !.periods = P]
  BY <1>1 DEF IsShaped
<1>3. IsFiniteSet(DOMAIN db.accounts) /\ DOMAIN db.accounts \subseteq Nat
  BY <1>1 DEF IsTables
<1> QED BY <1>2, <1>3, MasterDataIInv

-----------------------------------------------------------------------------
(***************************************************************************)
(* The queries of a seal.                                                  *)
(***************************************************************************)
\* One admin goes on, and nothing else happens.
OneGoesOn(a) ==
    /\ setup' = setup /\ db' = db
    /\ task' = [b \in Admins |-> task'[b]]
    /\ \A b \in Admins \ {a} : task'[b] = task[b]
    /\ "pc" \in DOMAIN task'[a]

\* What it then knows must be what an admin may have read.
LEMMA ReadIInv ==
    ASSUME IInv, NEW a \in Admins, OneGoesOn(a), HasRead(task'[a], Chain, Log, Registered)
    PROVE  IInv'
<1>1. Chain' = Chain /\ Log' = Log /\ Registered' = Registered /\ Admins' = Admins
  BY DEF Chain, Log, Registered, Admins, OneGoesOn
<1>2. ASSUME NEW b \in Admins
      PROVE  "pc" \in DOMAIN task'[b] /\ HasRead(task'[b], Chain, Log, Registered)
  <2>1. CASE b = a
    BY <2>1 DEF OneGoesOn
  <2>2. CASE b # a
    BY <2>2 DEF IInv, OneGoesOn
  <2> QED BY <2>1, <2>2
<1>3. task' = [b \in Admins |-> task'[b]] /\ setup' = setup /\ db' = db
  BY DEF OneGoesOn
<1> HIDE DEF Chain, Log, Registered
<1> QED BY <1>1, <1>2, <1>3 DEF IInv

\* An admin takes up a task, without having read what a seal is made of.
LEMMA TurnIInv ==
    ASSUME IInv, NEW a \in Admins, OneGoesOn(a), task'[a].pc \notin Reading
    PROVE  IInv'
<1>1. HasRead(task'[a], Chain, Log, Registered)
  BY DEF HasRead, Reading
<1> QED BY <1>1, ReadIInv

\* The provers change nothing a seal depends on.
LEMMA QuietIInv ==
    ASSUME IInv, UNCHANGED <<setup, db, task>>
    PROVE  IInv'
<1>1. Chain' = Chain /\ Log' = Log /\ Registered' = Registered /\ Admins' = Admins
  BY DEF Chain, Log, Registered, Admins
<1> HIDE DEF Chain, Log, Registered
<1> QED BY <1>1 DEF IInv

\* What an admin knows after a query.
LEMMA ReadIs ==
    ASSUME IInv, NEW a \in Admins, NEW at, NEW next, NEW field, field # "pc", NEW value,
           Read(a, at, next, field, value)
    PROVE  /\ task[a].pc = at /\ OneGoesOn(a)
           /\ DOMAIN task'[a] = DOMAIN task[a] \cup {field}
           /\ task'[a].pc = next /\ task'[a][field] = value
           /\ \A f \in DOMAIN task[a] \ {"pc", field} : task'[a][f] = task[a][f]
<1> DEFINE m == Insert(task[a], "pc", next)
           r == Insert(m, field, value)
<1>1. /\ task[a].pc = at /\ setup' = setup /\ db' = db /\ "pc" \in DOMAIN task[a]
      /\ task = [b \in Admins |-> task[b]]
  BY DEF Read, IInv
<1>2. task' = [task EXCEPT ![a] = r]
  BY <1>1 DEF Read
<1>3. DOMAIN m = DOMAIN task[a] /\ m.pc = next /\ \A f \in DOMAIN task[a] \ {"pc"} : m[f] = task[a][f]
  BY <1>1 DEF Insert
<1>4. DOMAIN r = DOMAIN m \cup {field} /\ r[field] = value /\ \A f \in DOMAIN m \ {field} : r[f] = m[f]
  BY DEF Insert
<1> HIDE DEF m, r
<1>5. /\ DOMAIN r = DOMAIN task[a] \cup {field} /\ "pc" \in DOMAIN r
      /\ r.pc = next /\ r[field] = value
      /\ \A f \in DOMAIN task[a] \ {"pc", field} : r[f] = task[a][f]
  BY <1>1, <1>3, <1>4
<1>6. DOMAIN task = Admins
  BY <1>1
<1>7. /\ task'[a] = r /\ task' = [b \in Admins |-> task'[b]]
      /\ \A b \in Admins \ {a} : task'[b] = task[b]
  BY <1>2, <1>6
<1> QED BY <1>1, <1>5, <1>7 DEF OneGoesOn

\* The span and the closing balance are read before the chain.
LEMMA EarlyReadIInv ==
    ASSUME IInv, NEW a \in Admins, NEW at, NEW next, NEW field, field # "pc", NEW value,
           Read(a, at, next, field, value), next \notin Reading
    PROVE  IInv'
<1>1. OneGoesOn(a) /\ task'[a].pc = next
  BY ReadIs
<1>2. HasRead(task'[a], Chain, Log, Registered)
  BY <1>1 DEF HasRead, Reading
<1> QED BY <1>1, <1>2, ReadIInv

\* The chain is read whole.
LEMMA ReadChainIInv ==
    ASSUME IInv, NEW a \in Admins, ReadChain(a)
    PROVE  IInv'
<1> DEFINE c == Chain
           t == task[a]
           r == task'[a]
<1>1. Read(a, "chain", "head", "chain", c)
  BY DEF ReadChain, Chain
<1>2. Len(c) \in 0..Len(c) /\ c = SubSeq(c, 1, Len(c))
  BY Sizes
<1> HIDE DEF c
<1>3. /\ t.pc = "chain" /\ OneGoesOn(a)
      /\ DOMAIN r = DOMAIN t \cup {"chain"}
      /\ r.pc = "head" /\ r.chain = c
  BY <1>1, ReadIs, SMTT(60)
<1> HIDE DEF r, t
<1>4. HasRead(r, c, Log, Registered)
  BY <1>2, <1>3 DEF HasRead, Reading
<1> QED BY <1>3, <1>4, ReadIInv DEF r, c

\* The head is read after the chain: no seal of it covers more.
LEMMA ReadHeadIInv ==
    ASSUME IInv, NEW a \in Admins, ReadHead(a)
    PROVE  IInv'
<1> DEFINE h == sql_head(db)
           t == task[a]
           r == task'[a]
<1>1. Read(a, "head", "accounts", "head", h)
  BY DEF ReadHead
<1>2. Len(h) = Log /\ Log \in Nat
  BY LogIs DEF IInv, Log
<1> HIDE DEF h
<1>3. /\ t.pc = "head" /\ OneGoesOn(a)
      /\ DOMAIN r = DOMAIN t \cup {"head"}
      /\ r.pc = "accounts" /\ r.head = h
      /\ \A f \in DOMAIN t \ {"pc", "head"} : r[f] = t[f]
  BY <1>1, ReadIs, SMTT(60)
<1>4. HasRead(t, Chain, Log, Registered)
  BY DEF IInv
<1>5. Len(Chain) \in Nat /\ DOMAIN Chain = 1..Len(Chain) /\ \E S : Chain \in Seq(S)
  BY Sizes
<1>6. WithinBounds(Chain, Log, Registered)
  BY DEF IInv
<1> HIDE DEF r, t, Chain, Log, Registered
<1>7. "chain" \in DOMAIN t /\ \E k \in 0..Len(Chain) : t.chain = SubSeq(Chain, 1, k)
  BY <1>3, <1>4 DEF HasRead, Reading
<1>8. "chain" \in DOMAIN r /\ r.chain = t.chain
  BY <1>3, <1>7
<1>9. PICK k \in 0..Len(Chain) : t.chain = SubSeq(Chain, 1, k)
  BY <1>7
<1>10. \A n \in DOMAIN r.chain : Len(r.chain[n].tree_head) <= Len(r.head)
  <2>1. DOMAIN SubSeq(Chain, 1, k) = 1..k /\ \A n \in 1..k : SubSeq(Chain, 1, k)[n] = Chain[n]
    BY <1>5
  <2>2. \A n \in 1..k : n \in DOMAIN Chain
    BY <1>5
  <2> QED BY <1>2, <1>3, <1>6, <1>8, <1>9, <2>1, <2>2 DEF WithinBounds
<1>11. HasRead(r, Chain, Log, Registered)
  BY <1>2, <1>3, <1>7, <1>8, <1>10 DEF HasRead, Reading
<1> QED BY <1>3, <1>11, ReadIInv DEF r

\* The accounts are read after the chain: no seal of it commits to more.
LEMMA ReadAccountsIInv ==
    ASSUME IInv, NEW a \in Admins, ReadAccounts(a)
    PROVE  IInv'
<1> DEFINE c == commitment(registry.registry)
           t == task[a]
           r == task'[a]
<1>1. registry.ok /\ Read(a, "accounts", "insert", "accounts", c)
  BY DEF ReadAccounts
<1>2. Len(c) = Registered /\ Registered \in Nat
  BY <1>1, AccountsAre DEF IInv, Registered, registry
<1> HIDE DEF c
<1>3. /\ t.pc = "accounts" /\ OneGoesOn(a)
      /\ DOMAIN r = DOMAIN t \cup {"accounts"}
      /\ r.pc = "insert" /\ r.accounts = c
      /\ \A f \in DOMAIN t \ {"pc", "accounts"} : r[f] = t[f]
  BY <1>1, ReadIs, SMTT(60)
<1>4. HasRead(t, Chain, Log, Registered)
  BY DEF IInv
<1>5. Len(Chain) \in Nat /\ DOMAIN Chain = 1..Len(Chain) /\ \E S : Chain \in Seq(S)
  BY Sizes
<1>6. WithinBounds(Chain, Log, Registered)
  BY DEF IInv
<1> HIDE DEF r, t, Chain, Log, Registered
<1>7. /\ "chain" \in DOMAIN t /\ \E k \in 0..Len(Chain) : t.chain = SubSeq(Chain, 1, k)
      /\ "head" \in DOMAIN t /\ Len(t.head) \in Nat /\ Len(t.head) <= Log
      /\ \A n \in DOMAIN t.chain : Len(t.chain[n].tree_head) <= Len(t.head)
  BY <1>3, <1>4 DEF HasRead, Reading
<1>8. /\ "chain" \in DOMAIN r /\ r.chain = t.chain
      /\ "head" \in DOMAIN r /\ r.head = t.head /\ "accounts" \in DOMAIN r
  BY <1>3, <1>7
<1>9. PICK k \in 0..Len(Chain) : t.chain = SubSeq(Chain, 1, k)
  BY <1>7
<1>10. \A n \in DOMAIN r.chain : Len(r.chain[n].accounts) <= Len(r.accounts)
  <2>1. DOMAIN SubSeq(Chain, 1, k) = 1..k /\ \A n \in 1..k : SubSeq(Chain, 1, k)[n] = Chain[n]
    BY <1>5
  <2>2. \A n \in 1..k : n \in DOMAIN Chain
    BY <1>5
  <2> QED BY <1>2, <1>3, <1>6, <1>8, <1>9, <2>1, <2>2 DEF WithinBounds
<1>11. HasRead(r, Chain, Log, Registered)
  BY <1>2, <1>3, <1>7, <1>8, <1>10 DEF HasRead, Reading
<1> QED BY <1>3, <1>11, ReadIInv DEF r

-----------------------------------------------------------------------------
(***************************************************************************)
(* The insert.                                                             *)
(***************************************************************************)
\* The parts of a seal that a chain is about.
LEMMA BuildIs ==
    ASSUME NEW period, NEW cover, NEW tree_head, NEW closing, NEW accounts, NEW prev
    PROVE  LET s == build(period, cover, tree_head, closing, accounts, prev) IN
           /\ is_self_consistent(s)
           /\ s.ledger = Ledger /\ s.period = period /\ s.prev_seal = prev
           /\ s.tree_head = tree_head /\ s.accounts = accounts
<1> DEFINE content == [ledger |-> Ledger, period |-> period,
                       first_index |-> cover.first_index, last_index |-> cover.last_index,
                       entry_count |-> cover.entry_count, tree_head |-> tree_head,
                       trial_balance |-> closing, accounts |-> accounts,
                       prev_seal |-> prev]
           s == build(period, cover, tree_head, closing, accounts, prev)
<1>1. s = Insert(content, "seal_hash", content)
  BY DEF build
<1>2. /\ "seal_hash" \notin DOMAIN content /\ content = [f \in DOMAIN content |-> content[f]]
      /\ {"ledger", "period", "prev_seal", "tree_head", "accounts"} \subseteq DOMAIN content
      /\ content.ledger = Ledger /\ content.period = period /\ content.prev_seal = prev
      /\ content.tree_head = tree_head /\ content.accounts = accounts
  OBVIOUS
<1> HIDE DEF content, s
<1>3. /\ DOMAIN s = DOMAIN content \cup {"seal_hash"} /\ s["seal_hash"] = content
      /\ \A f \in DOMAIN content : s[f] = content[f]
  BY <1>1, <1>2 DEF Insert
<1>4. [f \in DOMAIN s \ {"seal_hash"} |-> s[f]] = content
  <2>1. DOMAIN s \ {"seal_hash"} = DOMAIN content
    BY <1>2, <1>3
  <2> QED BY <1>2, <1>3, <2>1
<1>5. is_self_consistent(s)
  BY <1>3, <1>4 DEF is_self_consistent, compute_hash
<1>6. /\ s.ledger = Ledger /\ s.period = period /\ s.prev_seal = prev
      /\ s.tree_head = tree_head /\ s.accounts = accounts
  BY <1>2, <1>3
<1> QED BY <1>5, <1>6 DEF s

\* A chain that verifies, and a link to its end, verify together.
LEMMA LongerChainVerifies ==
    ASSUME NEW q, \E S : q \in Seq(S), verify_chain(q), NEW s, check_link(q, s)
    PROVE  verify_chain(Append(q, s))
<1> DEFINE n == Len(q)
           p == Append(q, s)
<1>1. PICK S : q \in Seq(S)
  OBVIOUS
<1>2. /\ n \in Nat /\ DOMAIN q = 1..n /\ DOMAIN p = 1..(n + 1)
      /\ \A i \in 1..n : p[i] = q[i] /\ SubSeq(p, 1, i - 1) = SubSeq(q, 1, i - 1)
      /\ p[n + 1] = s /\ SubSeq(p, 1, n) = q
  BY <1>1
<1> HIDE DEF n, p
<1>3. ASSUME NEW i \in 1..(n + 1) PROVE check_link(SubSeq(p, 1, i - 1), p[i])
  <2>1. CASE i \in 1..n
    BY <1>2, <2>1 DEF verify_chain
  <2>2. CASE i \notin 1..n
    <3>1. i = n + 1 /\ i - 1 = n
      BY <1>2, <2>2
    <3> QED BY <1>2, <3>1
  <2> QED BY <2>1, <2>2
<1> QED BY <1>2, <1>3 DEF verify_chain, p

\* Where the constraints let a seal in, its admin has read the whole chain.
LEMMA NothingInBetween ==
    ASSUME NEW t, NEW q, IsChain(t, q), NEW k \in 0..Len(q), NEW s, CanInsertSeal(t, s, k)
    PROVE  k = Len(q)
<1> SUFFICES ASSUME k # Len(q) PROVE FALSE
  OBVIOUS
<1>1. Len(q) \in Nat
  BY DEF IsChain
<1>2. k + 1 \in 1..Len(q)
  BY <1>1
<1>3. PICK id \in DOMAIN t.seals : Place_(t)[id] = k + 1
  BY <1>2 DEF IsChain, Numbers
<1>4. t.seals[id].chain_position + 1 = k + 1 /\ t.seals[id].chain_position \in Nat
  BY <1>3 DEF IsChain, Place_
<1>5. t.seals[id].chain_position = k
  BY <1>4
<1> QED BY <1>5 DEF CanInsertSeal

\* A seal at the end of the chain.
LEMMA OneMoreSeal ==
    ASSUME NEW t, NEW q, IsChain(t, q), NEW s, s.period \notin DOMAIN t.seals, NEW u,
           u.seals = Insert(t.seals, s.period, [seal |-> s, chain_position |-> Len(q)])
    PROVE  IsChain(u, Append(q, s))
<1> DEFINE n == Len(q)
           p == Append(q, s)
           f == Place_(t)
           g == Place_(u)
           D == DOMAIN t.seals
           new == s.period
           row == [seal |-> s, chain_position |-> n]
<1>1. PICK S : q \in Seq(S)
  BY DEF IsChain
<1>2. /\ n \in Nat /\ Len(p) = n + 1 /\ p \in Seq(S \cup {s})
      /\ \A i \in 1..n : p[i] = q[i]
      /\ p[n + 1] = s
  BY <1>1
<1>3. row.seal = s /\ row.chain_position = n
  OBVIOUS
<1> HIDE DEF row
<1>4. /\ DOMAIN u.seals = D \cup {new} /\ u.seals[new] = row
      /\ \A id \in D : u.seals[id] = t.seals[id]
  BY DEF Insert, row
<1>5. /\ \A id \in D : g[id] = f[id] /\ f[id] = t.seals[id].chain_position + 1
      /\ g[new] = n + 1
  BY <1>3, <1>4 DEF Place_
<1>6. /\ \A id \in D : f[id] \in 1..n
      /\ \A k \in 1..n : \E id \in D : f[id] = k
      /\ \A i, j \in D : f[i] = f[j] => i = j
  BY DEF IsChain, Numbers
<1>7. \A id \in D : /\ t.seals[id].chain_position \in Nat
                     /\ q[t.seals[id].chain_position + 1] = t.seals[id].seal
                     /\ t.seals[id].seal.period = id
  BY DEF IsChain
<1> HIDE DEF f, g, n, D, p, new
<1>8. Numbers(g, D \cup {new}, n + 1)
  <2>1. \A i \in D \cup {new} : g[i] \in 1..(n + 1)
    BY <1>2, <1>5, <1>6
  <2>2. ASSUME NEW k \in 1..(n + 1) PROVE \E i \in D \cup {new} : g[i] = k
    <3>1. k \in 1..n \/ k = n + 1
      BY <1>2
    <3> QED BY <1>5, <1>6, <3>1
  <2>3. \A i, j \in D \cup {new} : g[i] = g[j] => i = j
    <3>1. \A i \in D : g[i] # n + 1
      BY <1>2, <1>5, <1>6
    <3> QED BY <1>5, <1>6, <3>1
  <2> QED BY <2>1, <2>2, <2>3 DEF Numbers
<1>9. ASSUME NEW id \in D \cup {new}
      PROVE  /\ u.seals[id].chain_position \in Nat
             /\ p[u.seals[id].chain_position + 1] = u.seals[id].seal
             /\ u.seals[id].seal.period = id
  <2>1. CASE id \in D
    BY <1>2, <1>4, <1>5, <1>6, <1>7, <2>1
  <2>2. CASE id = new
    BY <1>2, <1>3, <1>4, <2>2 DEF new
  <2> QED BY <2>1, <2>2
<1>10. Numbers(Place_(u), DOMAIN u.seals, Len(p))
  BY <1>2, <1>4, <1>8 DEF g
<1>11. \E T : p \in Seq(T)
  BY <1>2
<1> QED BY <1>4, <1>9, <1>10, <1>11 DEF IsChain, p

\* An admin goes to rest, and nothing else happens.
LEMMA RestIInv ==
    ASSUME IInv, NEW a \in Admins, setup' = setup, db' = db, task' = [task EXCEPT ![a] = AtRest]
    PROVE  IInv'
<1>1. task = [b \in Admins |-> task[b]]
  BY DEF IInv
<1>2. DOMAIN task = Admins
  BY <1>1
<1>3. /\ task' = [b \in Admins |-> task'[b]] /\ task'[a] = AtRest
      /\ \A b \in Admins \ {a} : task'[b] = task[b]
  BY <1>2
<1>4. OneGoesOn(a)
  BY <1>3, RestHasRead DEF OneGoesOn
<1>5. HasRead(task'[a], Chain, Log, Registered)
  BY <1>3, RestHasRead
<1> QED BY <1>4, <1>5, ReadIInv

\* What an admin inserts covers what the chain it has read covers.
LEMMA SealFollows ==
    ASSUME IInv, NEW a \in Admins, task[a].pc = "insert", task[a].chain = Chain
    PROVE  LET s == SealRead(a) IN
           /\ Len(s.tree_head) \in Nat /\ Len(s.tree_head) <= Log
           /\ Len(s.accounts) \in Nat /\ Len(s.accounts) <= Registered
           /\ (\A i \in DOMAIN Chain : Chain[i].period # s.period) => check_link(Chain, s)
<1> DEFINE s == SealRead(a)
           t == task[a]
           c == Chain
<1>1. HasRead(t, c, Log, Registered)
  BY DEF IInv
<1>2. t.pc = "insert" /\ t.chain = c
  OBVIOUS
<1>3. /\ is_self_consistent(s) /\ s.ledger = Ledger /\ s.prev_seal = chain_head(t.chain)
      /\ s.tree_head = t.head /\ s.accounts = t.accounts
  BY BuildIs DEF SealRead
<1>4. PICK S : c \in Seq(S)
  BY Sizes
<1> HIDE DEF s, t, c
<1>5. /\ Len(t.head) \in Nat /\ Len(t.head) <= Log
      /\ Len(t.accounts) \in Nat /\ Len(t.accounts) <= Registered
      /\ \A n \in DOMAIN t.chain : Len(t.chain[n].tree_head) <= Len(t.head)
      /\ \A n \in DOMAIN t.chain : Len(t.chain[n].accounts) <= Len(t.accounts)
  BY <1>1, <1>2 DEF HasRead, Reading
<1>6. ASSUME \A i \in DOMAIN c : c[i].period # s.period
      PROVE  check_link(c, s)
  <2>1. ASSUME c # <<>>
        PROVE  /\ Len(Last(c).tree_head) <= Len(t.head)
               /\ Len(Last(c).accounts) <= Len(t.accounts)
               /\ Len(Last(c).tree_head) \in Nat /\ Len(Last(c).accounts) \in Nat
    <3>1. Len(c) \in DOMAIN c /\ Last(c) = c[Len(c)]
      BY <1>4, <2>1 DEF Last
    <3>2. WithinBounds(c, Log, Registered)
      BY DEF IInv, c
    <3> QED BY <1>2, <1>5, <3>1, <3>2 DEF WithinBounds
  <2>2. c # <<>> => /\ Len(s.tree_head) >= Len(Last(c).tree_head)
                    /\ Len(s.accounts) >= Len(Last(c).accounts)
    BY <1>3, <1>5, <2>1
  <2> QED BY <1>2, <1>3, <1>6, <2>2 DEF check_link
<1> QED BY <1>3, <1>5, <1>6 DEF s, c

\* The seal and the state of its period, together.
LEMMA InsertSealIInv ==
    ASSUME IInv, NEW a \in Admins, InsertSeal(a)
    PROVE  IInv'
<1> DEFINE s == SealRead(a)
           k == Len(task[a].chain)
           q == Chain
           p == Append(q, s)
           I == Insert(db.seals, s.period, [seal |-> s, chain_position |-> k])
           P == [db.periods EXCEPT ![task[a].id] =
                    [db.periods[task[a].id] EXCEPT !.state = period_state_str("Sealed")]]
<1>1. setup' = setup /\ task' = [task EXCEPT ![a] = AtRest] /\ task[a].pc = "insert"
  BY DEF InsertSeal
<1>2. CASE ~CanInsertSeal(db, s, k)
  <2>1. db' = db
    BY <1>2 DEF InsertSeal
  <2> QED BY <1>1, <2>1, RestIInv
<1>3. CASE CanInsertSeal(db, s, k)
  <2>1. /\ Log \in Nat /\ Registered \in Nat /\ Len(q) \in Nat
        /\ DOMAIN q = 1..Len(q) /\ \E S : q \in Seq(S)
    BY Sizes
  <2>2. IsTables(db) /\ IsShaped(db) /\ IsDenseLog(db) /\ IsChain(db, q)
        /\ verify_chain(q) /\ WithinBounds(q, Log, Registered) /\ setup \in DOMAIN Setups
    BY DEF IInv, IsTables, IsShaped
  <2>3. PICK n \in 0..Len(q) : task[a].chain = SubSeq(q, 1, n)
    BY <1>1 DEF IInv, HasRead, Reading
  <2>4. k = n
    <3> HIDE DEF q
    <3> QED BY <2>1, <2>3
  <2> HIDE DEF k, s
  <2>5. n = Len(q)
    <3> HIDE DEF q
    <3> QED BY <1>3, <2>2, <2>4, NothingInBetween
  <2>6. task[a].chain = q /\ k = Len(q)
    <3> HIDE DEF q
    <3> QED BY <2>1, <2>3, <2>4, <2>5
  <2>7. db' = [db EXCEPT !.seals = I, !.periods = P]
    <3>1. db' = set_period_state([db EXCEPT !.seals = I], task[a].id, "Sealed")
      BY <1>3 DEF InsertSeal, insert_seal, s, k
    <3>2. [db EXCEPT !.seals = I].periods = db.periods
      BY <2>2 DEF IsShaped
    <3> HIDE DEF I
    <3> QED BY <2>2, <3>1, <3>2 DEF set_period_state, IsShaped
  <2> HIDE DEF P, I
  <2>8. /\ IsShaped(db') /\ db'.seals = I /\ db'.entries = db.entries
        /\ db'.log_subtrees = db.log_subtrees /\ db'.accounts = db.accounts
    BY <2>2, <2>7 DEF IsShaped
  <2>9. IsTables(db')
    BY <2>2, <2>8 DEF IsTables, IsShaped
  <2>10. IsDenseLog(db')
    <3>1. Placed(db') = Placed(db) /\ Position(db') = Position(db)
      BY <2>8 DEF Placed, Position
    <3> QED BY <2>2, <2>8, <3>1 DEF IsDenseLog
  <2>11. Log' = Log /\ Registered' = Registered /\ Admins' = Admins
    BY <1>1, <2>8 DEF Log, Registered, Admins
  <2>12. s.period \notin DOMAIN db.seals
    BY <1>3 DEF CanInsertSeal
  <2>13. IsChain(db', p)
    <3>1. db'.seals = Insert(db.seals, s.period, [seal |-> s, chain_position |-> Len(q)])
      BY <2>6, <2>8 DEF I
    <3> HIDE DEF q
    <3> QED BY <2>2, <2>12, <3>1, OneMoreSeal
  <2>14. Chain' = p
    BY <2>13, ChainIs DEF Chain
  <2>15. \A i \in DOMAIN q : q[i].period # s.period
    <3>1. \A i \in 1..Len(q) : \E id \in DOMAIN db.seals : q[i] = db.seals[id].seal /\ q[i].period = id
      <4> HIDE DEF q
      <4>1. ASSUME NEW i \in 1..Len(q)
            PROVE  \E id \in DOMAIN db.seals : q[i] = db.seals[id].seal /\ q[i].period = id
        <5>1. PICK id \in DOMAIN db.seals : Place_(db)[id] = i
          BY <2>2 DEF IsChain, Numbers
        <5>2. db.seals[id].chain_position + 1 = i
          BY <5>1 DEF Place_
        <5> QED BY <2>2, <5>2 DEF IsChain
      <4> QED BY <4>1
    <3> QED BY <2>1, <2>12, <3>1
  <2>16. /\ Len(s.tree_head) \in Nat /\ Len(s.tree_head) <= Log
         /\ Len(s.accounts) \in Nat /\ Len(s.accounts) <= Registered
         /\ check_link(q, s)
    BY <1>1, <2>6, <2>15, SealFollows DEF s
  <2> HIDE DEF q, p
  <2>17. verify_chain(p)
    BY <2>1, <2>2, <2>16, LongerChainVerifies DEF p
  <2>18. /\ DOMAIN p = 1..(Len(q) + 1) /\ Len(p) = Len(q) + 1 /\ p[Len(q) + 1] = s
         /\ \A i \in 1..Len(q) : p[i] = q[i]
         /\ \A i \in 0..Len(q) : SubSeq(p, 1, i) = SubSeq(q, 1, i)
    BY <2>1 DEF p
  <2>19. WithinBounds(p, Log, Registered)
    <3>1. ASSUME NEW i \in 1..(Len(q) + 1)
          PROVE  /\ Len(p[i].tree_head) \in Nat /\ Len(p[i].tree_head) <= Log
                 /\ Len(p[i].accounts) \in Nat /\ Len(p[i].accounts) <= Registered
      <4>1. CASE i \in 1..Len(q)
        BY <2>1, <2>2, <2>18, <4>1 DEF WithinBounds
      <4>2. CASE i \notin 1..Len(q)
        <5>1. i = Len(q) + 1
          BY <2>1, <4>2
        <5> QED BY <2>16, <2>18, <5>1
      <4> QED BY <4>1, <4>2
    <3> QED BY <2>18, <3>1 DEF WithinBounds
  <2>20. task = [b \in Admins |-> task[b]]
    BY DEF IInv
  <2>21. DOMAIN task = Admins
    BY <2>20
  <2>22. /\ task' = [b \in Admins |-> task'[b]] /\ task'[a] = AtRest
         /\ \A b \in Admins \ {a} : task'[b] = task[b]
    BY <1>1, <2>21
  <2>23. ASSUME NEW b \in Admins
         PROVE  "pc" \in DOMAIN task'[b] /\ HasRead(task'[b], p, Log, Registered)
    <3>1. CASE b = a
      BY <2>22, <3>1, RestHasRead
    <3>2. CASE b # a
      <4>1. "pc" \in DOMAIN task[b] /\ HasRead(task[b], q, Log, Registered)
        BY DEF IInv, q
      <4>2. Len(p) \in Nat /\ Len(q) <= Len(p) /\ Log <= Log /\ Registered <= Registered
        BY <2>1, <2>18
      <4>3. HasRead(task[b], p, Log, Registered)
        BY <2>1, <2>18, <4>1, <4>2, ReadStays
      <4> QED BY <2>22, <3>2, <4>1, <4>3
    <3> QED BY <3>1, <3>2
  <2> HIDE DEF s, k
  <2> QED BY <1>1, <2>2, <2>9, <2>10, <2>11, <2>13, <2>14, <2>17, <2>19, <2>22, <2>23 DEF IInv
<1> QED BY <1>2, <1>3

-----------------------------------------------------------------------------
(***************************************************************************)
(* The start, every step, and what follows.                                *)
(***************************************************************************)
LEMMA InitIInv ==
    ASSUME Init
    PROVE  IInv
<1> DEFINE A == [h \in DOMAIN Chart |-> account_row(Chart[h])]
           P == db.periods
<1>1. setup \in DOMAIN Setups /\ task = [a \in Admins |-> AtRest]
  BY DEF Init
<1>2. /\ IsShaped(db) /\ db.accounts = A /\ db.entries = EmptyMap
      /\ db.seals = EmptyMap /\ db.log_subtrees = <<>>
  BY DEF Init, migrate, IsShaped
<1>3. DOMAIN EmptyMap = {} /\ EmptyMap = [x \in {} |-> EmptyMap[x]]
  BY DEF EmptyMap
<1>4. IsFiniteSet(DOMAIN A) /\ DOMAIN A \subseteq Nat
  <2>1. Chart \in Seq(Account)
    BY ArrivalsAreTyped
  <2>2. DOMAIN A = 1..Len(Chart) /\ Len(Chart) \in Nat
    BY <2>1
  <2> QED BY <2>2, FS_Interval
<1> HIDE DEF A
<1>5. IsTables(db)
  BY <1>2, <1>3, <1>4 DEF IsTables, IsShaped
<1>6. IsDenseLog(db)
  <2>1. Placed(db) = {}
    BY <1>2, <1>3 DEF Placed
  <2>2. db.log_subtrees \in Seq({}) /\ Len(db.log_subtrees) = 0
    BY <1>2
  <2> QED BY <2>1, <2>2 DEF IsDenseLog, Numbers
<1>7. IsChain(db, <<>>)
  <2>1. <<>> \in Seq({}) /\ Len(<<>>) = 0
    OBVIOUS
  <2>2. DOMAIN db.seals = {}
    BY <1>2, <1>3
  <2> QED BY <2>1, <2>2 DEF IsChain, Numbers
<1>8. Chain = <<>>
  BY <1>7, ChainIs DEF Chain
<1>9. verify_chain(Chain) /\ WithinBounds(Chain, Log, Registered)
  BY <1>8 DEF verify_chain, WithinBounds
<1>10. \A a \in Admins : "pc" \in DOMAIN task[a] /\ HasRead(task[a], Chain, Log, Registered)
  BY <1>1, RestHasRead
<1>11. IsChain(db, Chain)
  BY <1>7, <1>8
<1>12. task = [a \in Admins |-> task[a]]
  BY <1>1
<1> HIDE DEF Chain, Log, Registered
<1> QED BY <1>1, <1>5, <1>6, <1>9, <1>10, <1>11, <1>12 DEF IInv

\* What clients hold are entries that the setup has them book.
HeldInv == setup \in DOMAIN Setups /\ validated \subseteq Setups[setup].bookings

LEMMA HeldStays ==
    ASSUME HeldInv, Next
    PROVE  HeldInv'
<1>1. CASE \E e \in Setups[setup].bookings : Validate(e)
  BY <1>1 DEF Validate, HeldInv
<1>2. CASE \E e \in validated : Book(e)
  BY <1>2 DEF Book, HeldInv
<1>3. ASSUME ~\E e \in Setups[setup].bookings : Validate(e), ~\E e \in validated : Book(e)
      PROVE  UNCHANGED <<setup, validated>>
  <2>1. CASE \E a \in Admins : SealStep(a) \/ Fail(a)
    BY <2>1 DEF SealStep, ReadSpan, ReadClosing, ReadChain, ReadHead, ReadAccounts, Read,
                InsertSeal, Fail
  <2>2. CASE \/ \E p \in Provers, id \in PeriodIds : AskProof(p, id)
             \/ \E p \in Provers : ProofStep(p)
    BY <2>2 DEF AskProof, ProofStep, ProofPeriod, ProofClosing, ProofAssemble, ProofDone
  <2> QED BY <1>3, <2>1, <2>2 DEF Next, Step, Place, StoreAccount, Redeclare, ReadForMove,
                                  transition_period, ReadSealable
<1> QED BY <1>1, <1>2, <1>3 DEF HeldInv

\* Every step of the specification.
LEMMA NextIInv ==
    ASSUME IInv, HeldInv, Next
    PROVE  IInv'
<1>1. CASE \E e \in validated : Book(e)
  <2>1. PICK e \in validated : Book(e)
    BY <1>1
  <2>2. e \in Setups[setup].bookings
    BY DEF HeldInv
  <2>3. CASE \E id \in DOMAIN db.entries : id = e.id \/ db.entries[id].idempotency_key = e.key
    <3>1. UNCHANGED <<setup, db, task>>
      BY <2>1, <2>3 DEF Book
    <3> QED BY <3>1, QuietIInv
  <2> QED BY <2>1, <2>2, <2>3, BookIInv
<1>2. CASE \E id \in DOMAIN db.entries : Place(id)
  BY <1>2, PlaceIInv
<1>3. CASE \E record \in Setups[setup].records : StoreAccount(record)
  BY <1>3, StoreAccountIInv
<1>4. CASE \E p \in Setups[setup].declared : Redeclare(p)
  <2>1. PICK p \in Setups[setup].declared : Redeclare(p)
    BY <1>4
  <2> DEFINE P == Insert(db.periods, p.id, [starts_on |-> p.start, ends_on |-> p.end,
                                            state |-> period_state_str(p.state)])
  <2>2. db' = [db EXCEPT !.periods = P] /\ setup' = setup /\ task' = task
    BY <2>1 DEF Redeclare, define_period
  <2> HIDE DEF P
  <2>3. task' = [a \in Admins |-> task'[a]]
    BY <2>2 DEF IInv
  <2> QED BY <2>2, <2>3, PeriodsIInv
<1>5. CASE \E a \in Admins, id \in PeriodIds, to \in Setups[setup].moves : ReadForMove(a, id, to)
  <2>1. PICK a \in Admins, id \in PeriodIds, to \in Setups[setup].moves : ReadForMove(a, id, to)
    BY <1>5
  <2> DEFINE r == [pc |-> "move", id |-> id, to |-> to]
  <2>2. setup' = setup /\ db' = db /\ task' = [task EXCEPT ![a] = r]
    BY <2>1 DEF ReadForMove
  <2>3. "pc" \in DOMAIN r /\ r.pc = "move"
    OBVIOUS
  <2> HIDE DEF r
  <2>4. task = [b \in Admins |-> task[b]]
    BY DEF IInv
  <2>5. DOMAIN task = Admins
    BY <2>4
  <2>6. /\ task' = [b \in Admins |-> task'[b]] /\ task'[a] = r
        /\ \A b \in Admins \ {a} : task'[b] = task[b]
    BY <2>2, <2>5
  <2>7. OneGoesOn(a) /\ task'[a].pc \notin Reading
    BY <2>2, <2>3, <2>6 DEF OneGoesOn, Reading
  <2> QED BY <2>7, TurnIInv
<1>6. CASE \E a \in Admins : transition_period(a)
  <2>1. PICK a \in Admins : transition_period(a)
    BY <1>6
  <2> DEFINE P == [db.periods EXCEPT ![task[a].id] =
                     [db.periods[task[a].id] EXCEPT !.state = period_state_str(task[a].to)]]
  <2>2. db' = [db EXCEPT !.periods = P]
    BY <2>1 DEF transition_period, set_period_state
  <2>3. setup' = setup /\ task' = [task EXCEPT ![a] = AtRest]
    BY <2>1 DEF transition_period
  <2> HIDE DEF P
  <2>4. task = [b \in Admins |-> task[b]]
    BY DEF IInv
  <2>5. DOMAIN task = Admins
    BY <2>4
  <2>6. /\ task' = [b \in Admins |-> task'[b]]
        /\ \A b \in Admins : task'[b] = task[b] \/ task'[b] = AtRest
    BY <2>3, <2>5
  <2> QED BY <2>2, <2>3, <2>6, PeriodsIInv
<1>7. CASE \E a \in Admins, id \in PeriodIds : ReadSealable(a, id)
  <2>1. PICK a \in Admins, id \in PeriodIds : ReadSealable(a, id)
    BY <1>7
  <2> DEFINE r == [pc |-> "span", id |-> id, def |-> calendar_of(db).calendar.periods[id]]
  <2>2. setup' = setup /\ db' = db /\ task' = [task EXCEPT ![a] = r]
    BY <2>1 DEF ReadSealable
  <2>3. "pc" \in DOMAIN r /\ r.pc = "span"
    OBVIOUS
  <2> HIDE DEF r
  <2>4. task = [b \in Admins |-> task[b]]
    BY DEF IInv
  <2>5. DOMAIN task = Admins
    BY <2>4
  <2>6. /\ task' = [b \in Admins |-> task'[b]] /\ task'[a] = r
        /\ \A b \in Admins \ {a} : task'[b] = task[b]
    BY <2>2, <2>5
  <2>7. OneGoesOn(a) /\ task'[a].pc \notin Reading
    BY <2>2, <2>3, <2>6 DEF OneGoesOn, Reading
  <2> QED BY <2>7, TurnIInv
<1>8. CASE \E a \in Admins : SealStep(a) \/ Fail(a)
  <2>1. PICK a \in Admins : SealStep(a) \/ Fail(a)
    BY <1>8
  <2>2. CASE ReadSpan(a)
    <3> DEFINE v == sql_coverage(db, task[a].def.start, task[a].def.end)
    <3>1. Read(a, "span", "closing", "cover", v)
      BY <2>2 DEF ReadSpan
    <3> HIDE DEF v
    <3>2. "closing" \notin Reading /\ "cover" # "pc"
      BY DEF Reading
    <3> QED BY <3>1, <3>2, EarlyReadIInv
  <2>3. CASE ReadClosing(a)
    <3> DEFINE v == closing_balance(db, task[a].def.end)
    <3>1. Read(a, "closing", "chain", "closing", v)
      BY <2>3 DEF ReadClosing
    <3> HIDE DEF v
    <3>2. "chain" \notin Reading /\ "closing" # "pc"
      BY DEF Reading
    <3> QED BY <3>1, <3>2, EarlyReadIInv
  <2>4. CASE Fail(a)
    BY <2>4, RestIInv DEF Fail
  <2> QED BY <2>1, <2>2, <2>3, <2>4, ReadChainIInv, ReadHeadIInv, ReadAccountsIInv,
             InsertSealIInv DEF SealStep
<1>9. CASE \/ \E e \in Setups[setup].bookings : Validate(e)
           \/ \E p \in Provers, id \in PeriodIds : AskProof(p, id)
           \/ \E p \in Provers : ProofStep(p)
  <2>1. UNCHANGED <<setup, db, task>>
    BY <1>9 DEF Validate, AskProof, ProofStep, ProofPeriod, ProofClosing, ProofAssemble, ProofDone
  <2> QED BY <2>1, QuietIInv
<1> QED BY <1>1, <1>2, <1>3, <1>4, <1>5, <1>6, <1>7, <1>8, <1>9 DEF Next, Step

\* Every reachable state satisfies the inductive invariant: what the tables hold,
\* and how much of it each admin's reads still bound when it inserts its seal.
THEOREM PostgresSealsInvariant == Spec => []IInv
<1>1. ASSUME IInv, UNCHANGED vars PROVE IInv'
  BY <1>1, QuietIInv DEF vars
<1>2. ASSUME HeldInv, UNCHANGED vars PROVE HeldInv'
  BY <1>2 DEF vars, HeldInv
<1>3. Init => HeldInv
  BY DEF Init, HeldInv
<1> QED BY <1>1, <1>2, <1>3, InitIInv, HeldStays, NextIInv, PTL DEF Spec

\* The stored seals form a chain that verifies, however many admins seal at the
\* same time and whatever each of them had read before.
THEOREM StoredChainVerifies == Spec => []ChainVerifies
<1>1. IInv => ChainVerifies
  BY DEF IInv, Chain, ChainVerifies
<1> QED BY <1>1, PostgresSealsInvariant, PTL
=============================================================================
