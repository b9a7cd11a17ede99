------------------------- MODULE PostgresLogProofs --------------------------
(***************************************************************************)
(* Any number of clients and sequencers, any batches: what was answered    *)
(* stands, an entry is reversed once, and the log is exact and in its      *)
(* final order, in both sequencing modes.                                  *)
(***************************************************************************)
EXTENDS PostgresLog, FiniteSetTheorems, WellFoundedInduction, TLAPS

-----------------------------------------------------------------------------
(***************************************************************************)
(* The inductive invariant.                                                *)
(***************************************************************************)
PC == {"idle", "begin", "id", "reversal", "xid", "insert", "post", "limit", "commit"}

Hash == {content_hash(e) : e \in Submitted}

Answer == [id : Nat, index : Nat, content_hash : Hash, is_new : BOOLEAN]

Tx == [pc : PC, batch : Seq(Submitted), at : Nat, xid : Nat, next : Nat, acc : Seq(Hash),
       posted : Nat, share : SUBSET Nat, update : SUBSET Nat, checked : Nat,
       out : Seq(Answer), mine : Seq(Nat)]

\* Where a transaction is in its batch, and what it must have done by then.
Current(t) == t.batch[t.at]

Staged(t) ==
    /\ t.pc = "idle" => t = Idle
    /\ t.pc = "begin" => t = [Idle EXCEPT !.pc = "begin", !.batch = t.batch]
    /\ t.pc \notin {"idle", "commit"} => t.at \in DOMAIN t.batch
    /\ t.pc \in {"insert", "post", "limit"} => t.xid # 0
    /\ t.pc \in {"id", "reversal", "xid", "insert"} => t.posted = 0
    /\ t.pc \in {"id", "reversal", "xid", "insert", "post"} => t.checked = 0
    /\ t.pc = "post" => t.posted < Len(Current(t).postings)
    /\ t.pc = "limit" => t.checked < Len(Current(t).postings)

Transaction == {t \in Tx : Staged(t)}

\* A row holds an entry that was submitted under its identifier.
IsRow(id, row) ==
    /\ {"log_index", "tree_root"} \subseteq DOMAIN row
    /\ row.insert_xid \in Nat \ {0}
    /\ row.log_index \in Nat
    /\ \E e \in Submitted :
          /\ e.id = id
          /\ row.content_hash = content_hash(e)
          /\ row.reverses = e.reverses
          /\ row.idempotency_key = e.key

IsDb(t) ==
    /\ t = [entries |-> t.entries, postings |-> t.postings,
            posting_dimensions |-> t.posting_dimensions, log_subtrees |-> t.log_subtrees,
            accounts |-> t.accounts, periods |-> t.periods, seals |-> t.seals,
            clearings |-> t.clearings, checkpoints |-> t.checkpoints]
    /\ t.entries = [id \in DOMAIN t.entries |-> t.entries[id]]
    /\ IsFiniteSet(DOMAIN t.entries)
    /\ \A id \in DOMAIN t.entries : IsRow(id, t.entries[id])
    /\ t.log_subtrees \in Seq(Hash)

Types ==
    /\ setup \in DOMAIN Setups
    /\ IsDb(db)
    /\ tx \in [Clients -> Transaction]
    /\ lock \in Clients \cup Sequencers \cup {None}
    /\ next_xid \in Nat \ {0}
    /\ answers \subseteq Answer
    /\ commits \in Seq(Nat)

\* No transaction identifier is given twice.
Identifiers ==
    /\ \A c \in Clients : tx[c].xid < next_xid
    /\ \A c, d \in Clients : tx[c].xid = tx[d].xid /\ tx[c].xid # 0 => c = d
    /\ \A id \in DOMAIN db.entries : db.entries[id].insert_xid < next_xid

\* What a statement of transaction `xid` sees while `running` run.
Sees(entries, running, xid) ==
    {id \in DOMAIN entries :
        entries[id].insert_xid = xid \/ entries[id].insert_xid \notin running}

\* The first n postings of a row are there, and no other.
Holds(t, id, n) ==
    LET p == t.entries[id].content_hash.postings IN
    /\ \A k \in DOMAIN t.postings : k[1] = id => \E i \in 1..n : k = <<id, i>>
    /\ \A i \in 1..n : /\ <<id, i>> \in DOMAIN t.postings
                       /\ t.postings[<<id, i>>] = posting_row(p[i])
                       /\ dimensions_from(t, id, i) = p[i].dimensions
    /\ \A d \in t.posting_dimensions : d.entry_id = id => d.posting_index \in 1..n

\* The row the transaction is writing is its own.
Owns(entries, t) ==
    /\ Current(t).id \in DOMAIN entries
    /\ entries[Current(t).id].insert_xid = t.xid
    /\ entries[Current(t).id].content_hash = content_hash(Current(t))

\* Every row has all its postings, but for the one a client is writing.
Written ==
    /\ \A k \in DOMAIN db.postings : k[1] \in DOMAIN db.entries
    /\ \A d \in db.posting_dimensions : d.entry_id \in DOMAIN db.entries
    /\ \A c \in Clients : tx[c].pc \in {"post", "limit"} => Owns(db.entries, tx[c])
    /\ \A c \in Clients : tx[c].pc = "post" => Holds(db, Current(tx[c]).id, tx[c].posted)
    /\ \A id \in DOMAIN db.entries :
          (\A c \in Clients : tx[c].pc = "post" => Current(tx[c]).id # id) =>
              Holds(db, id, Len(db.entries[id].content_hash.postings))

\* Transaction `xid` may reverse the row `o` by `e`.
Reverses(entries, running, xid, o, e) ==
    /\ o \in Sees(entries, running, xid)
    /\ entries[o].reverses = None
    /\ is_inversion_of(entries[o].content_hash, e)

\* A reversal is the only one, and its transaction has seen what it reverses.
ReversalsInv ==
    /\ \A a, b \in DOMAIN db.entries :
          db.entries[a].reverses = db.entries[b].reverses /\ db.entries[a].reverses # None => a = b
    /\ \A id \in DOMAIN db.entries : LET row == db.entries[id] IN
          row.reverses # None =>
              Reverses(db.entries, Running, row.insert_xid, row.reverses, row.content_hash)
    /\ \A c \in Clients : LET e == Current(tx[c]) IN
          tx[c].pc \in {"xid", "insert"} /\ e.reverses # None =>
              Reverses(db.entries, Running, tx[c].xid, e.reverses, e)

\* An answer is right for whoever sees the row it names.
Right(entries, running, xid, a) ==
    /\ a.id \in Sees(entries, running, xid)
    /\ entries[a.id].content_hash = a.content_hash
    /\ a.index # Null => entries[a.id].log_index = a.index

AnswersInv ==
    /\ \A a \in answers : Right(db.entries, Running, 0, a)
    /\ \A c \in Clients : \A n \in DOMAIN tx[c].out :
          Right(db.entries, Running, tx[c].xid, tx[c].out[n])

\* The rows `ids` are the log `log`: one at each position, with the root of the
\* prefix it ends.
Dense(entries, ids, log) ==
    /\ \A id \in ids : /\ entries[id].log_index \in 1..Len(log)
                       /\ entries[id].content_hash = log[entries[id].log_index]
                       /\ entries[id].tree_root = SubSeq(log, 1, entries[id].log_index)
    /\ \A n \in 1..Len(log) : \E id \in ids : entries[id].log_index = n
    /\ \A a, b \in ids : entries[a].log_index = entries[b].log_index => a = b

\* The order of the sequencer.
Before(entries, a, b) ==
    \/ entries[a].insert_xid < entries[b].insert_xid
    \/ entries[a].insert_xid = entries[b].insert_xid /\ a < b

Waits(t) == DOMAIN t.entries \ Placed(t)

\* A pass under way takes the first of the rows that wait, all of them finished.
PassInv ==
    /\ pass \in Seq(Nat)
    /\ \A n \in DOMAIN pass :
          /\ pass[n] \in Waits(db)
          /\ \A x \in Running : db.entries[pass[n]].insert_xid < x
          /\ \A b \in Waits(db) : b \in Range(pass) \/ Before(db.entries, pass[n], b)
    /\ \A m, n \in DOMAIN pass : pass[m] = pass[n] => m = n

\* Deferred: the rows the sequencer has placed come before all others, those of
\* running transactions included, and the pass under way continues them.
Deferred ==
    /\ lock \notin Clients /\ \A c \in Clients : tx[c].pc # "begin"
    /\ Dense(db.entries, Placed(db), db.log_subtrees)
    /\ \A id \in Placed(db), x \in Running : db.entries[id].insert_xid < x
    /\ \A a \in Placed(db), b \in Waits(db) : Before(db.entries, a, b)
    /\ lock \in Sequencers => PassInv

\* The accumulator of a client at work, the row it is writing included.
Leaves(t) ==
    IF t.pc \in {"post", "limit"} THEN Append(t.acc, content_hash(Current(t))) ELSE t.acc

\* The rows a transaction has inserted continue the log.
Continues(t, d) ==
    /\ t.next = Len(t.acc) + 1
    /\ t.pc \in {"post", "limit"} => d.entries[Current(t).id].log_index = t.next
    /\ Dense(d.entries, DOMAIN d.entries, Leaves(t))
    /\ Len(Leaves(t)) = Len(d.log_subtrees) + Len(t.mine)
    /\ \A n \in DOMAIN t.mine : /\ t.mine[n] \in DOMAIN d.entries
                                /\ d.entries[t.mine[n]].log_index = Len(d.log_subtrees) + n

\* Inline: only the holder of the lock has rows that are not committed.
InlineInv ==
    /\ lock \notin Sequencers
    /\ \A c \in Clients : lock = c <=> tx[c].pc \notin {"idle", "begin"}
    /\ Dense(db.entries, Sees(db.entries, Running, 0), db.log_subtrees)
    /\ commits \in [1..Len(db.log_subtrees) -> Sees(db.entries, Running, 0)]
    /\ \A n \in DOMAIN commits : db.entries[commits[n]].log_index = n
    /\ \A c \in Clients : lock = c => Continues(tx[c], db)

Order == IF Inline THEN InlineInv ELSE Deferred

IInv ==
    /\ Types
    /\ Identifiers
    /\ Written
    /\ ReversalsInv
    /\ AnswersInv
    /\ Order

-----------------------------------------------------------------------------
(***************************************************************************)
(* Rows.                                                                   *)
(***************************************************************************)
\* What a submitted entry is made of, and what its content hash covers.
LEMMA SubmittedIs ==
    ASSUME NEW e \in Submitted
    PROVE  /\ e.id \in Nat /\ e.postings \in Seq(Posting) /\ e.postings # <<>>
           /\ content_hash(e) \in Hash
           /\ content_hash(e).postings = e.postings
           /\ content_hash(e).reverses = e.reverses
           /\ content_hash(e).key = e.key
<1>1. /\ e.id \in Nat /\ e.postings \in Seq(Posting) /\ e.postings # <<>>
      /\ DOMAIN e = {"id", "key", "booking_date", "value_date", "postings", "reverses",
                     "original_booking_date", "description", "memo"}
  BY BatchesAreEntries
<1>2. /\ "postings" \in DOMAIN e \ {"id"} /\ "reverses" \in DOMAIN e \ {"id"}
      /\ "key" \in DOMAIN e \ {"id"}
  BY <1>1
<1>3. /\ content_hash(e).postings = e.postings
      /\ content_hash(e).reverses = e.reverses
      /\ content_hash(e).key = e.key
  BY <1>2 DEF content_hash
<1> QED BY <1>1, <1>3 DEF Hash

\* The columns of a row that is inserted.
LEMMA RowOf ==
    ASSUME NEW e, NEW xid, NEW index, NEW root
    PROVE  LET row == entry_row(e, xid, index, root) IN
           /\ {"log_index", "tree_root"} \subseteq DOMAIN row
           /\ row.insert_xid = xid /\ row.log_index = index /\ row.tree_root = root
           /\ row.content_hash = content_hash(e) /\ row.reverses = e.reverses
           /\ row.idempotency_key = e.key
  BY DEF entry_row

\* What a row says of the entry it holds.
LEMMA RowIs ==
    ASSUME NEW id, NEW row, IsRow(id, row)
    PROVE  /\ id \in Nat /\ row.insert_xid \in Nat \ {0} /\ row.log_index \in Nat
           /\ row.content_hash \in Hash
           /\ row.content_hash.postings \in Seq(Posting) /\ row.content_hash.postings # <<>>
           /\ row.content_hash.reverses = row.reverses
           /\ row.content_hash.key = row.idempotency_key
  BY SubmittedIs DEF IsRow

\* A row is given its position.
Places(row, n, root, new) == new = [row EXCEPT !.log_index = n, !.tree_root = root]

\* A row that is placed is the same row at a position.
LEMMA RowPlaced ==
    ASSUME NEW id, NEW row, IsRow(id, row), NEW n \in Nat, NEW root,
           NEW new, Places(row, n, root, new)
    PROVE  /\ IsRow(id, new) /\ new.log_index = n /\ new.tree_root = root
           /\ new.insert_xid = row.insert_xid /\ new.content_hash = row.content_hash
           /\ new.reverses = row.reverses /\ new.idempotency_key = row.idempotency_key
<1> DEFINE at == [row EXCEPT !.log_index = n]
<1>1. /\ DOMAIN at = DOMAIN row /\ at.log_index = n /\ at.insert_xid = row.insert_xid
      /\ at.content_hash = row.content_hash /\ at.reverses = row.reverses
      /\ at.idempotency_key = row.idempotency_key
  BY DEF IsRow
<1>2. new = [at EXCEPT !.tree_root = root]
  BY DEF Places
<1> HIDE DEF at
<1>3. /\ DOMAIN new = DOMAIN row /\ new.log_index = n /\ new.tree_root = root
      /\ new.insert_xid = row.insert_xid
      /\ new.content_hash = row.content_hash /\ new.reverses = row.reverses
      /\ new.idempotency_key = row.idempotency_key
  BY <1>1, <1>2 DEF IsRow
<1>4. IsRow(id, new)
  BY <1>3 DEF IsRow
<1> QED BY <1>3, <1>4

\* The tables a statement reads.
LEMMA SeenIs ==
    ASSUME IsDb(db), NEW xid
    PROVE  /\ DOMAIN Seen(xid).entries = Sees(db.entries, Running, xid)
           /\ \A id \in Sees(db.entries, Running, xid) : Seen(xid).entries[id] = db.entries[id]
           /\ DOMAIN Seen(xid).postings = {k \in DOMAIN db.postings : k[1] \in Sees(db.entries, Running, xid)}
           /\ \A k \in DOMAIN db.postings : k[1] \in Sees(db.entries, Running, xid) =>
                 Seen(xid).postings[k] = db.postings[k]
           /\ Seen(xid).posting_dimensions = db.posting_dimensions
           /\ Seen(xid).log_subtrees = db.log_subtrees
<1> DEFINE ids == Sees(db.entries, Running, xid)
<1>1. /\ Seen(xid).entries = [id \in ids |-> db.entries[id]]
      /\ Seen(xid).postings = [k \in {k \in DOMAIN db.postings : k[1] \in ids} |-> db.postings[k]]
      /\ Seen(xid).posting_dimensions = db.posting_dimensions
      /\ Seen(xid).log_subtrees = db.log_subtrees
  BY DEF Seen, IsDb, Sees
<1> HIDE DEF ids
<1>2. DOMAIN Seen(xid).entries = ids /\ \A id \in ids : Seen(xid).entries[id] = db.entries[id]
  BY <1>1
<1>3. /\ DOMAIN Seen(xid).postings = {k \in DOMAIN db.postings : k[1] \in ids}
      /\ \A k \in DOMAIN db.postings : k[1] \in ids => Seen(xid).postings[k] = db.postings[k]
  BY <1>1
<1> QED BY <1>1, <1>2, <1>3 DEF ids

-----------------------------------------------------------------------------
(***************************************************************************)
(* A dense log.                                                            *)
(***************************************************************************)
\* As many rows are at or before a position as the position says.
LEMMA DenseCount ==
    ASSUME NEW entries, NEW ids, NEW S, NEW log \in Seq(S), Dense(entries, ids, log),
           NEW k \in 0..Len(log)
    PROVE  Cardinality({id \in ids : entries[id].log_index <= k}) = k
<1> DEFINE T == {id \in ids : entries[id].log_index <= k}
           f == [n \in 1..k |-> CHOOSE id \in ids : entries[id].log_index = n]
<1>1. Len(log) \in Nat /\ k \in Nat
  OBVIOUS
<1>2. ASSUME NEW n \in 1..k PROVE f[n] \in ids /\ entries[f[n]].log_index = n
  <2>1. n \in 1..Len(log)
    BY <1>1
  <2>2. \E id \in ids : entries[id].log_index = n
    BY <2>1 DEF Dense
  <2> QED BY <2>2
<1>3. f \in [1..k -> T]
  BY <1>1, <1>2
<1>4. \A m, n \in 1..k : f[m] = f[n] => m = n
  BY <1>2
<1>5. \A id \in T : \E n \in 1..k : f[n] = id
  <2> SUFFICES ASSUME NEW id \in T PROVE f[entries[id].log_index] = id /\ entries[id].log_index \in 1..k
    OBVIOUS
  <2>1. entries[id].log_index \in 1..k
    BY <1>1 DEF Dense
  <2> QED BY <1>2, <2>1 DEF Dense
<1> HIDE DEF T, f
<1>6. f \in Bijection(1..k, T)
  BY <1>3, <1>4, <1>5 DEF Bijection, Injection, Surjection, IsInjective
<1>7. ExistsBijection(1..k, T)
  BY <1>6 DEF ExistsBijection
<1> QED BY <1>1, <1>7, FS_CountingElements DEF T

\* The greatest of a set of numbers, when it is known.
LEMMA MaxIs ==
    ASSUME NEW s \in SUBSET Int, NEW x \in s, \A y \in s : y <= x
    PROVE  Max(s) = x
<1> DEFINE P(z) == z \in s /\ \A y \in s : z >= y
<1>1. P(x)
  OBVIOUS
<1>2. ASSUME NEW z, P(z) PROVE z = x
  <2>1. z \in Int /\ x \in Int /\ z >= x /\ x >= z
    BY <1>2
  <2> QED BY <2>1
<1>3. Max(s) = CHOOSE z : P(z)
  BY Zenon DEF Max
<1> HIDE DEF P
<1> QED BY <1>1, <1>2, <1>3

\* What the queries on the log answer when it is dense.
LEMMA DenseLog ==
    ASSUME NEW t, NEW S, NEW log \in Seq(S), Dense(t.entries, Placed(t), log)
    PROVE  /\ sql_len(t) = Len(log)
           /\ next_index(t) = Len(log) + 1
           /\ PlacedInOrder(t) = [n \in 1..Len(log) |-> PlacedInOrder(t)[n]]
           /\ \A n \in 1..Len(log) : /\ PlacedInOrder(t)[n] \in Placed(t)
                                     /\ t.entries[PlacedInOrder(t)[n]].log_index = n
<1> DEFINE ids == Placed(t)
           E == t.entries
           m == Len(log)
<1>1. m \in Nat /\ Dense(E, ids, log)
  OBVIOUS
<1>2. \A id \in ids : E[id].log_index \in 1..m
  BY DEF Dense
<1>3. sql_len(t) = m
  <2>1. {id \in ids : E[id].log_index <= m} = ids
    BY <1>1, <1>2
  <2>2. m \in 0..Len(log)
    BY <1>1
  <2> HIDE DEF ids, E, m
  <2>3. Cardinality({id \in ids : E[id].log_index <= m}) = m
    BY <1>1, <2>2, DenseCount
  <2> QED BY <2>1, <2>3 DEF sql_len, ids
<1>4. next_index(t) = m + 1
  <2> DEFINE s == {0} \cup {E[id].log_index : id \in ids}
  <2>1. s \in SUBSET Int /\ \A y \in s : y <= m
    BY <1>1, <1>2
  <2>2. m \in s
    <3>1. CASE m = 0
      BY <3>1
    <3>2. CASE m # 0
      <4>1. m \in 1..Len(log)
        BY <1>1, <3>2
      <4>2. \E id \in ids : E[id].log_index = m
        BY <4>1 DEF Dense
      <4> QED BY <4>2
    <3> QED BY <3>1, <3>2
  <2>3. next_index(t) = 1 + Max(s)
    BY DEF next_index
  <2> HIDE DEF s, m
  <2>4. Max(s) = m
    BY <2>1, <2>2, MaxIs
  <2> QED BY <1>1, <2>3, <2>4
<1>5. PlacedInOrder(t) = [n \in 1..m |->
          CHOOSE row \in ids : /\ Cardinality({r \in ids : E[r].log_index < E[row].log_index}) < n
                               /\ Cardinality({r \in ids : ~(E[row].log_index < E[r].log_index)}) >= n]
  BY <1>3 DEF PlacedInOrder, OrderBy, sql_len
<1>6. ASSUME NEW row \in ids
      PROVE  /\ Cardinality({r \in ids : E[r].log_index < E[row].log_index}) = E[row].log_index - 1
             /\ Cardinality({r \in ids : ~(E[row].log_index < E[r].log_index)}) = E[row].log_index
  <2> DEFINE k == E[row].log_index
  <2>1. k \in 1..m /\ k - 1 \in 0..Len(log) /\ k \in 0..Len(log)
    BY <1>1, <1>2
  <2>2. {r \in ids : E[r].log_index < k} = {r \in ids : E[r].log_index <= k - 1}
    BY <1>1, <1>2, <2>1
  <2>3. {r \in ids : ~(k < E[r].log_index)} = {r \in ids : E[r].log_index <= k}
    BY <1>1, <1>2, <2>1
  <2> HIDE DEF k, E, ids, m
  <2>4. Cardinality({r \in ids : E[r].log_index <= k - 1}) = k - 1
    BY <1>1, <2>1, DenseCount
  <2>5. Cardinality({r \in ids : E[r].log_index <= k}) = k
    BY <1>1, <2>1, DenseCount
  <2> QED BY <2>2, <2>3, <2>4, <2>5 DEF k
<1>7. ASSUME NEW n \in 1..m
      PROVE  PlacedInOrder(t)[n] \in ids /\ E[PlacedInOrder(t)[n]].log_index = n
  <2> DEFINE Q(row) == /\ Cardinality({r \in ids : E[r].log_index < E[row].log_index}) < n
                       /\ Cardinality({r \in ids : ~(E[row].log_index < E[r].log_index)}) >= n
  <2>1. \A row \in ids : Q(row) <=> E[row].log_index = n
    <3> SUFFICES ASSUME NEW row \in ids PROVE Q(row) <=> E[row].log_index = n
      OBVIOUS
    <3>1. E[row].log_index \in Nat /\ n \in Nat
      BY <1>1, <1>2
    <3>2. Q(row) <=> E[row].log_index - 1 < n /\ E[row].log_index >= n
      BY <1>6
    <3> HIDE DEF Q
    <3> QED BY <3>1, <3>2
  <2>2. PlacedInOrder(t)[n] = CHOOSE row \in ids : Q(row)
    BY <1>5
  <2>3. \E row \in ids : E[row].log_index = n
    BY <1>1 DEF Dense
  <2> HIDE DEF Q
  <2> QED BY <2>1, <2>2, <2>3
<1>8. PlacedInOrder(t) = [n \in 1..m |-> PlacedInOrder(t)[n]]
  BY <1>5
<1> QED BY <1>3, <1>4, <1>7, <1>8

\* Rows that stay as they are stay as dense.
LEMMA DenseSame ==
    ASSUME NEW entries, NEW other, NEW ids, NEW log, Dense(entries, ids, log),
           \A id \in ids : other[id] = entries[id]
    PROVE  Dense(other, ids, log)
<1>1. \A id \in ids : /\ other[id].log_index \in 1..Len(log)
                      /\ other[id].content_hash = log[other[id].log_index]
                      /\ other[id].tree_root = SubSeq(log, 1, other[id].log_index)
  BY Zenon DEF Dense
<1>2. \A n \in 1..Len(log) : \E id \in ids : other[id].log_index = n
  <2> TAKE n \in 1..Len(log)
  <2>1. PICK id \in ids : entries[id].log_index = n
    BY Zenon DEF Dense
  <2> QED BY <2>1, Zenon
<1>3. \A a, b \in ids : other[a].log_index = other[b].log_index => a = b
  <2> TAKE a, b \in ids
  <2>1. entries[a].log_index = entries[b].log_index => a = b
    BY Zenon DEF Dense
  <2>2. other[a] = entries[a] /\ other[b] = entries[b]
    OBVIOUS
  <2> QED BY <2>1, <2>2, Zenon
<1> QED BY <1>1, <1>2, <1>3, Zenon DEF Dense

-----------------------------------------------------------------------------
(***************************************************************************)
(* The transaction a step leaves behind.                                   *)
(***************************************************************************)
\* Only the transaction of `c` moves, to `t`.
Moves(c, t) == t \in Transaction /\ tx' = [tx EXCEPT ![c] = t]

\* The entry a transaction is at.
LEMMA CurrentIs ==
    ASSUME NEW t \in Transaction, t.pc \notin {"idle", "commit"}
    PROVE  Current(t) \in Submitted /\ t.at \in DOMAIN t.batch
  BY DEF Transaction, Staged, Current, Tx

\* Before its first statement a transaction has done nothing.
LEMMA EarlyIs ==
    ASSUME NEW t \in Transaction, t.pc \in {"idle", "begin"}
    PROVE  t.xid = 0 /\ t.out = <<>>
<1>1. CASE t.pc = "idle"
  <2>1. t = Idle
    BY <1>1 DEF Transaction, Staged
  <2> QED BY <2>1 DEF Idle
<1>2. CASE t.pc = "begin"
  <2> DEFINE b == t.batch
  <2>1. t = [Idle EXCEPT !.pc = "begin", !.batch = b]
    BY <1>2 DEF Transaction, Staged
  <2> HIDE DEF b
  <2>2. t.xid = Idle.xid /\ t.out = Idle.out
    BY <2>1 DEF Idle
  <2> QED BY <2>2 DEF Idle
<1> QED BY <1>1, <1>2

\* A connection at rest.
LEMMA IdleIs == Idle \in Transaction
<1>1. /\ <<>> \in Seq(Submitted) /\ <<>> \in Seq(Hash) /\ <<>> \in Seq(Answer)
      /\ <<>> \in Seq(Nat) /\ {} \in SUBSET Nat /\ "idle" \in PC
  BY DEF PC
<1>2. Idle \in Tx
  <2> HIDE DEF PC, Hash, Answer
  <2> QED BY <1>1 DEF Idle, Tx
<1>3. Staged(Idle)
  BY DEF Staged, Idle
<1> QED BY <1>2, <1>3 DEF Transaction

\* append begins.
LEMMA BeginMoves ==
    ASSUME Types, NEW c \in Clients, NEW batch \in Setups[setup].batches, Begin(c, batch)
    PROVE  \E t : /\ Moves(c, t) /\ tx[c] = Idle
                  /\ t = [Idle EXCEPT !.pc = IF Inline THEN "begin" ELSE "id", !.batch = batch]
<1> DEFINE pc == IF Inline THEN "begin" ELSE "id"
           t == [Idle EXCEPT !.pc = pc, !.batch = batch]
<1>1. tx[c] = Idle /\ tx \in [Clients -> Transaction]
  BY DEF Types, Begin, Transaction, Staged
<1>2. batch \in Seq(Submitted) /\ batch # <<>>
  BY BatchesAreEntries DEF Types
<1>3. t.at \in DOMAIN t.batch
  BY <1>2 DEF Idle
<1>4. t \in Tx
  <2>1. Idle \in Tx /\ pc \in PC
    BY IdleIs DEF Transaction, PC
  <2> HIDE DEF pc
  <2> QED BY <1>2, <2>1 DEF Tx
<1>5. Staged(t)
  BY <1>3 DEF Idle, Staged
<1>6. tx' = [tx EXCEPT ![c] = t]
  BY <1>1 DEF Begin
<1> QED BY <1>1, <1>4, <1>5, <1>6 DEF Moves, Transaction

\* What the log holds, as everyone reads it.
LEMMA CommittedLog ==
    ASSUME IInv
    PROVE  /\ Dense(Committed.entries, Placed(Committed), db.log_subtrees)
           /\ Inline => Placed(Committed) = Sees(db.entries, Running, 0)
           /\ ~Inline => Placed(Committed) = Placed(db)
           /\ accumulator(Committed).leaves = db.log_subtrees
<1>1. IsDb(db)
  BY DEF IInv, Types
<1>2. /\ DOMAIN Committed.entries = Sees(db.entries, Running, 0) /\ Committed.log_subtrees = db.log_subtrees
      /\ \A id \in Sees(db.entries, Running, 0) : Committed.entries[id] = db.entries[id]
  BY <1>1, SeenIs DEF Committed
<1>3. accumulator(Committed).leaves = db.log_subtrees
  BY <1>2 DEF accumulator
<1>4. Placed(Committed) = {id \in Sees(db.entries, Running, 0) : db.entries[id].log_index # Null}
  BY <1>2 DEF Placed
<1>5. ASSUME NEW ids, ids \subseteq Sees(db.entries, Running, 0), Dense(db.entries, ids, db.log_subtrees)
      PROVE  Dense(Committed.entries, ids, db.log_subtrees)
  <2>1. \A id \in ids : Committed.entries[id] = db.entries[id]
    BY <1>2, <1>5
  <2> QED BY <1>5, <2>1, DenseSame
<1>6. CASE Inline
  <2>1. Dense(db.entries, Sees(db.entries, Running, 0), db.log_subtrees)
    BY <1>6 DEF IInv, Order, InlineInv
  <2>2. \A id \in Sees(db.entries, Running, 0) : db.entries[id].log_index # Null
    BY <1>1, <2>1 DEF Dense, Null, IsDb
  <2>3. Placed(Committed) = Sees(db.entries, Running, 0)
    BY <1>4, <2>2
  <2> QED BY <1>3, <1>5, <1>6, <2>1, <2>3
<1>7. CASE ~Inline
  <2>1. /\ Dense(db.entries, Placed(db), db.log_subtrees)
        /\ \A id \in Placed(db), x \in Running : db.entries[id].insert_xid < x
    BY <1>7 DEF IInv, Order, Deferred
  <2>2. ASSUME NEW id \in Placed(db) PROVE id \in Sees(db.entries, Running, 0)
    <3>1. db.entries[id].insert_xid \in Nat
      BY <1>1, RowIs DEF IsDb, Placed
    <3>2. db.entries[id].insert_xid \notin Running
      BY <2>1, <3>1
    <3> QED BY <3>2 DEF Sees, Placed
  <2>3. Placed(Committed) = Placed(db)
    BY <1>4, <2>2 DEF Placed, Sees
  <2> QED BY <1>3, <1>5, <1>7, <2>1, <2>2, <2>3
<1> QED BY <1>6, <1>7

\* Under the advisory lock a transaction starts from the log as it is.
LEMMA TakeLockMoves ==
    ASSUME IInv, NEW c \in Clients, TakeLock(c)
    PROVE  \E t : /\ Moves(c, t)
                  /\ Inline /\ tx[c].xid = 0 /\ tx[c].out = <<>>
                  /\ t.pc = "id" /\ t.xid = 0 /\ t.out = <<>> /\ t.mine = <<>>
                  /\ t.acc = db.log_subtrees /\ t.next = Len(db.log_subtrees) + 1
<1> DEFINE n == next_index(Committed)
           a == accumulator(Committed).leaves
           t == [tx[c] EXCEPT !.pc = "id", !.next = n, !.acc = a]
           b == tx[c].batch
<1>1. /\ tx \in [Clients -> Transaction] /\ db.log_subtrees \in Seq(Hash) /\ tx[c].pc = "begin"
      /\ tx[c] \in Tx /\ Staged(tx[c])
  BY DEF IInv, Types, IsDb, TakeLock, Transaction
<1>2. a = db.log_subtrees /\ n = Len(db.log_subtrees) + 1 /\ n \in Nat
  BY <1>1, CommittedLog, DenseLog
<1>3. Inline
  BY <1>1 DEF IInv, Order, Deferred
<1>4. tx' = [tx EXCEPT ![c] = t]
  BY <1>1 DEF TakeLock
<1> HIDE DEF n, a
<1>5. /\ tx[c].xid = 0 /\ tx[c].out = <<>> /\ tx[c].mine = <<>> /\ tx[c].at \in DOMAIN tx[c].batch
      /\ tx[c].posted = 0 /\ tx[c].checked = 0
  BY <1>1 DEF Staged, Idle
<1>6. /\ t.pc = "id" /\ t.xid = 0 /\ t.out = <<>> /\ t.mine = <<>> /\ t.acc = a /\ t.next = n
      /\ t.at = tx[c].at /\ t.batch = tx[c].batch /\ t.posted = 0 /\ t.checked = 0
  BY <1>1, <1>5 DEF Tx
<1>7. t \in Tx
  BY <1>1, <1>2 DEF Tx, PC
<1> HIDE DEF t
<1>8. Staged(t)
  BY <1>5, <1>6 DEF Staged
<1> QED BY <1>2, <1>3, <1>4, <1>5, <1>6, <1>7, <1>8 DEF Moves, Transaction

\* A statement that only looks.
LEMMA LooksMoves ==
    ASSUME Types, NEW c \in Clients, NEW pc \in {"xid", "reversal"},
           tx[c].pc \in {"id", "reversal"}, tx' = [tx EXCEPT ![c].pc = pc]
    PROVE  \E t : /\ Moves(c, t) /\ t.pc = pc /\ t.xid = tx[c].xid /\ t.out = tx[c].out
                  /\ t.mine = tx[c].mine /\ t.acc = tx[c].acc /\ t.next = tx[c].next
                  /\ Current(t) = Entry(c)
<1> DEFINE t == [tx[c] EXCEPT !.pc = pc]
<1>1. tx \in [Clients -> Transaction] /\ tx[c] \in Tx /\ Staged(tx[c])
  BY DEF Types, Transaction
<1>2. tx' = [tx EXCEPT ![c] = t]
  BY <1>1
<1>3. /\ t.pc = pc /\ t.xid = tx[c].xid /\ t.out = tx[c].out /\ t.mine = tx[c].mine
      /\ t.acc = tx[c].acc /\ t.next = tx[c].next /\ t.at = tx[c].at /\ t.batch = tx[c].batch
      /\ t.posted = tx[c].posted /\ t.checked = tx[c].checked
  BY <1>1 DEF Tx
<1>4. t \in Tx
  BY <1>1 DEF Tx, PC
<1> HIDE DEF t
<1>5. Staged(t)
  BY <1>1, <1>3 DEF Staged
<1> QED BY <1>2, <1>3, <1>4, <1>5 DEF Moves, Transaction, Current, Entry

\* A transaction gets its identifier when it first writes.
LEMMA AssignXidMoves ==
    ASSUME Types, NEW c \in Clients, AssignXid(c)
    PROVE  \E t : /\ Moves(c, t) /\ tx[c].pc = "xid" /\ t.pc = "insert"
                  /\ t.xid = (IF tx[c].xid = 0 THEN next_xid ELSE tx[c].xid)
                  /\ t.out = tx[c].out /\ t.mine = tx[c].mine /\ t.acc = tx[c].acc
                  /\ t.next = tx[c].next /\ Current(t) = Entry(c)
<1> DEFINE x == IF tx[c].xid = 0 THEN next_xid ELSE tx[c].xid
           t == [tx[c] EXCEPT !.pc = "insert", !.xid = x]
<1>1. tx \in [Clients -> Transaction] /\ tx[c] \in Tx /\ Staged(tx[c]) /\ tx[c].pc = "xid"
  BY DEF Types, Transaction, AssignXid
<1>2. x \in Nat /\ x # 0
  BY <1>1 DEF Types, Tx
<1>3. tx' = [tx EXCEPT ![c] = t]
  BY <1>1 DEF AssignXid, Tx
<1> HIDE DEF x
<1>4. /\ t.pc = "insert" /\ t.xid = x /\ t.out = tx[c].out /\ t.mine = tx[c].mine
      /\ t.acc = tx[c].acc /\ t.next = tx[c].next /\ t.at = tx[c].at /\ t.batch = tx[c].batch
      /\ t.posted = tx[c].posted /\ t.checked = tx[c].checked
  BY <1>1 DEF Tx
<1>5. t \in Tx
  BY <1>1, <1>2 DEF Tx, PC
<1> HIDE DEF t
<1>6. Staged(t)
  BY <1>1, <1>2, <1>4 DEF Staged
<1> QED BY <1>1, <1>3, <1>4, <1>5, <1>6 DEF Moves, Transaction, Current, Entry, x

\* An entry is done with.
LEMMA NextEntryIs ==
    ASSUME NEW t \in Tx, t.at \in DOMAIN t.batch, NEW answer \in Answer
    PROVE  LET u == NextEntry(t, answer) IN
           /\ u \in Transaction /\ u.pc \in {"id", "commit"} /\ u.xid = t.xid
           /\ u.out = Append(t.out, answer) /\ u.mine = t.mine /\ u.acc = t.acc
           /\ u.next = t.next
<1> DEFINE pc == IF t.at = Len(t.batch) THEN "commit" ELSE "id"
           u == [t EXCEPT !.pc = pc, !.at = t.at + 1, !.posted = 0, !.checked = 0,
                          !.out = Append(t.out, answer)]
<1>1. u = NextEntry(t, answer)
  BY DEF NextEntry, Tx
<1>2. pc \in PC /\ t.at + 1 \in Nat /\ Append(t.out, answer) \in Seq(Answer)
  <2> HIDE DEF Answer
  <2> QED BY DEF Tx, PC
<1>3. /\ u.pc = pc /\ u.xid = t.xid /\ u.out = Append(t.out, answer) /\ u.mine = t.mine
      /\ u.acc = t.acc /\ u.next = t.next /\ u.at = t.at + 1 /\ u.batch = t.batch
      /\ u.posted = 0 /\ u.checked = 0
  BY DEF Tx
<1>4. u \in Tx
  <2> HIDE DEF pc
  <2> QED BY <1>2 DEF Tx
<1>5. pc = "id" => t.at + 1 \in DOMAIN t.batch
  BY DEF Tx
<1>6. pc \in {"id", "commit"}
  OBVIOUS
<1> HIDE DEF u, pc
<1>7. Staged(u)
  BY <1>3, <1>5, <1>6 DEF Staged
<1> QED BY <1>1, <1>3, <1>4, <1>6, <1>7 DEF Transaction

\* A replay answers with the row that holds the key.
LEMMA ReplayMoves ==
    ASSUME Types, NEW c \in Clients, tx[c].pc = "insert",
           NEW id \in KeyHolder(Seen(tx[c].xid), Entry(c)),
           SameContent(Seen(tx[c].xid), id, Entry(c)), Replay(c, id)
    PROVE  \E t, answer :
              /\ Moves(c, t) /\ t.pc \in {"id", "commit"} /\ t.xid = tx[c].xid
              /\ t.out = Append(tx[c].out, answer) /\ t.mine = tx[c].mine
              /\ t.acc = tx[c].acc /\ t.next = tx[c].next
              /\ answer \in Answer /\ Right(db.entries, Running, tx[c].xid, answer)
              /\ UNCHANGED <<setup, db, lock, pass, next_xid, begun, answers, commits>>
<1> DEFINE index == Seen(tx[c].xid).entries[id].log_index
           answer == recorded(id, index, content_hash(Entry(c)), FALSE)
           t == NextEntry(tx[c], answer)
<1>1. /\ tx \in [Clients -> Transaction] /\ tx[c] \in Transaction /\ tx[c] \in Tx /\ IsDb(db)
  BY DEF Types, Transaction
<1>2. id \in Sees(db.entries, Running, tx[c].xid) /\ Seen(tx[c].xid).entries[id] = db.entries[id]
  BY <1>1, SeenIs DEF KeyHolder
<1>3. /\ db.entries[id].content_hash = content_hash(Entry(c)) /\ index = db.entries[id].log_index
  BY <1>2 DEF SameContent
<1>4. Entry(c) \in Submitted /\ tx[c].at \in DOMAIN tx[c].batch
  BY <1>1, CurrentIs DEF Current, Entry
<1>5. id \in Nat /\ index \in Nat
  BY <1>1, <1>2, <1>3, RowIs DEF IsDb, Sees
<1>6. content_hash(Entry(c)) \in Hash
  BY <1>4, SubmittedIs
<1>7. answer \in Answer /\ Right(db.entries, Running, tx[c].xid, answer)
  <2> HIDE DEF index
  <2> QED BY <1>2, <1>3, <1>5, <1>6 DEF Answer, recorded, Right
<1>8. /\ tx' = [tx EXCEPT ![c] = t]
      /\ UNCHANGED <<setup, db, lock, pass, next_xid, begun, answers, commits>>
  <2> HIDE DEF index, answer
  <2>1. tx' = [tx EXCEPT ![c] = NextEntry(tx[c], recorded(id, Seen(tx[c].xid).entries[id].log_index,
                                                        content_hash(Entry(c)), FALSE))]
        /\ UNCHANGED <<setup, db, lock, pass, next_xid, begun, answers, commits>>
    BY DEF Replay
  <2> QED BY <2>1 DEF index, answer
<1> HIDE DEF answer, index
<1>9. /\ t \in Transaction /\ t.pc \in {"id", "commit"} /\ t.xid = tx[c].xid
      /\ t.out = Append(tx[c].out, answer) /\ t.mine = tx[c].mine
      /\ t.acc = tx[c].acc /\ t.next = tx[c].next
  BY <1>1, <1>4, <1>7, NextEntryIs
<1> QED BY <1>7, <1>8, <1>9 DEF Moves

\* The row is there, and its postings are to follow.
LEMMA InsertMoves ==
    ASSUME Types, NEW c \in Clients, tx[c].pc = "insert",
           tx' = [tx EXCEPT ![c].pc = "post", ![c].mine = Append(@, Entry(c).id)]
    PROVE  \E t : /\ Moves(c, t) /\ t.pc = "post" /\ t.xid = tx[c].xid /\ t.xid # 0
                  /\ t.out = tx[c].out /\ t.acc = tx[c].acc /\ t.next = tx[c].next
                  /\ t.mine = Append(tx[c].mine, Entry(c).id) /\ t.posted = 0
                  /\ Current(t) = Entry(c) /\ Entry(c) \in Submitted
<1> DEFINE t == [tx[c] EXCEPT !.pc = "post", !.mine = Append(tx[c].mine, Entry(c).id)]
<1>1. tx \in [Clients -> Transaction] /\ tx[c] \in Transaction /\ tx[c] \in Tx /\ Staged(tx[c])
  BY DEF Types, Transaction
<1>2. Entry(c) \in Submitted /\ tx[c].at \in DOMAIN tx[c].batch
  BY <1>1, CurrentIs DEF Current, Entry
<1>3. Entry(c).id \in Nat /\ Entry(c).postings \in Seq(Posting) /\ Entry(c).postings # <<>>
  BY <1>2, SubmittedIs
<1>4. tx' = [tx EXCEPT ![c] = t]
  BY <1>1 DEF Tx
<1>5. /\ t.pc = "post" /\ t.xid = tx[c].xid /\ t.out = tx[c].out
      /\ t.mine = Append(tx[c].mine, Entry(c).id)
      /\ t.acc = tx[c].acc /\ t.next = tx[c].next /\ t.at = tx[c].at /\ t.batch = tx[c].batch
      /\ t.posted = tx[c].posted /\ t.checked = tx[c].checked
  BY <1>1 DEF Tx
<1>6. t \in Tx
  BY <1>1, <1>3, SMTT(30) DEF Tx, PC
<1> HIDE DEF t
<1>7. Current(t) = Entry(c)
  BY <1>5 DEF Current, Entry
<1>8. 0 < Len(Entry(c).postings)
  <2> DEFINE q == Entry(c).postings
             S == Posting
  <2>1. q \in Seq(S) /\ q # <<>>
    BY <1>3
  <2> HIDE DEF q, S
  <2>2. Len(q) > 0
    BY <2>1
  <2> QED BY <2>2 DEF q
<1>9. /\ t.posted = 0 /\ t.checked = 0 /\ t.xid # 0
  BY <1>1, <1>5 DEF Staged
<1>10. Staged(t)
  BY <1>2, <1>5, <1>7, <1>8, <1>9 DEF Staged
<1> QED BY <1>2, <1>4, <1>5, <1>6, <1>7, <1>9, <1>10 DEF Moves, Transaction

\* The next posting, or the limits once all are there.
LEMMA PostingMoves ==
    ASSUME Types, NEW c \in Clients, tx[c].pc = "post", NEW i, i = tx[c].posted + 1,
           NEW account, account = Entry(c).postings[i].account,
           tx' = [tx EXCEPT ![c].pc = IF i = Len(Entry(c).postings) THEN "limit" ELSE "post",
                            ![c].posted = i, ![c].share = @ \cup {account}]
    PROVE  \E t : /\ Moves(c, t) /\ t.pc = (IF i = Len(Entry(c).postings) THEN "limit" ELSE "post")
                  /\ t.xid = tx[c].xid /\ t.out = tx[c].out /\ t.acc = tx[c].acc
                  /\ t.next = tx[c].next /\ t.mine = tx[c].mine /\ t.posted = i
                  /\ Current(t) = Entry(c) /\ Entry(c) \in Submitted
                  /\ i \in 1..Len(Entry(c).postings)
<1> DEFINE pc == IF i = Len(Entry(c).postings) THEN "limit" ELSE "post"
           share == tx[c].share \cup {account}
           t == [tx[c] EXCEPT !.pc = pc, !.posted = i, !.share = share]
<1>1. tx \in [Clients -> Transaction] /\ tx[c] \in Transaction /\ tx[c] \in Tx /\ Staged(tx[c])
  BY DEF Types, Transaction
<1>2. Entry(c) \in Submitted /\ tx[c].at \in DOMAIN tx[c].batch
  BY <1>1, CurrentIs DEF Current, Entry
<1>3. /\ tx[c].posted \in Nat /\ tx[c].checked = 0 /\ tx[c].xid # 0
      /\ tx[c].posted < Len(Entry(c).postings)
  BY <1>1 DEF Staged, Tx, Current, Entry
<1>4. Entry(c).postings \in Seq(Posting)
  BY <1>2, SubmittedIs
<1>5. Len(Entry(c).postings) \in Nat
  <2> DEFINE S == Posting
  <2>1. Entry(c).postings \in Seq(S)
    BY <1>4
  <2> HIDE DEF S
  <2> QED BY <2>1
<1>6. i \in 1..Len(Entry(c).postings) /\ i \in Nat
  BY <1>3, <1>5
<1>7. account \in Nat
  <2>1. Entry(c).postings[i] \in Posting
    BY <1>4, <1>6
  <2> QED BY <2>1 DEF Posting
<1>8. tx' = [tx EXCEPT ![c] = t]
  BY <1>1 DEF Tx
<1>9. pc \in PC /\ share \in SUBSET Nat
  BY <1>1, <1>7 DEF Tx, PC
<1>10. pc \in {"limit", "post"} /\ (pc = "post" => i < Len(Entry(c).postings))
  BY <1>5, <1>6
<1>11. 0 < Len(Entry(c).postings)
  BY <1>5, <1>6
<1> HIDE DEF pc, share
<1>12. /\ t.pc = pc /\ t.xid = tx[c].xid /\ t.out = tx[c].out /\ t.mine = tx[c].mine
       /\ t.acc = tx[c].acc /\ t.next = tx[c].next /\ t.at = tx[c].at /\ t.batch = tx[c].batch
       /\ t.posted = i /\ t.checked = tx[c].checked
  BY <1>1 DEF Tx
<1>13. t \in Tx
  BY <1>1, <1>6, <1>9 DEF Tx
<1> HIDE DEF t
<1>14. Current(t) = Entry(c)
  BY <1>12 DEF Current, Entry
<1>15. Staged(t)
  BY <1>2, <1>3, <1>10, <1>11, <1>12, <1>14 DEF Staged
<1> QED BY <1>2, <1>6, <1>8, <1>12, <1>13, <1>14, <1>15 DEF Moves, Transaction, pc

\* A limit that holds: on to the next posting, or the entry is recorded.
LEMMA LimitMoves ==
    ASSUME Types, NEW c \in Clients, tx[c].pc = "limit", CheckLimit(c),
           check_limits(Seen(tx[c].xid), LimitKey(c))
    PROVE  LET answer == recorded(Entry(c).id, IF Inline THEN tx[c].next ELSE Null,
                                  content_hash(Entry(c)), TRUE) IN
           /\ UNCHANGED <<setup, db, lock, pass, next_xid, begun, answers, commits>>
           /\ \E t : /\ Moves(c, t) /\ t.xid = tx[c].xid /\ t.mine = tx[c].mine
                     /\ \/ /\ t.pc = "limit" /\ t.out = tx[c].out /\ t.acc = tx[c].acc
                           /\ t.next = tx[c].next /\ Current(t) = Entry(c)
                        \/ /\ t.pc \in {"id", "commit"} /\ answer \in Answer
                           /\ t.out = Append(tx[c].out, answer)
                           /\ t.acc = Append(tx[c].acc, content_hash(Entry(c)))
                           /\ t.next = tx[c].next + 1
<1> DEFINE i == tx[c].checked + 1
           account == LimitKey(c).account
           free == db.accounts[account].balance_limit = "unlimited"
           update == IF free THEN tx[c].update ELSE tx[c].update \cup {account}
           hash == content_hash(Entry(c))
           answer == recorded(Entry(c).id, IF Inline THEN tx[c].next ELSE Null, hash, TRUE)
           locked == [tx[c] EXCEPT !.update = update]
           done == [locked EXCEPT !.next = locked.next + 1, !.acc = Append(locked.acc, hash)]
           more == [locked EXCEPT !.checked = i]
<1>1. tx \in [Clients -> Transaction] /\ tx[c] \in Transaction /\ tx[c] \in Tx /\ Staged(tx[c])
  BY DEF Types, Transaction
<1>2. Entry(c) \in Submitted /\ tx[c].at \in DOMAIN tx[c].batch
  BY <1>1, CurrentIs DEF Current, Entry
<1>3. /\ tx[c].checked \in Nat /\ tx[c].xid # 0 /\ tx[c].checked < Len(Entry(c).postings)
  BY <1>1 DEF Staged, Tx, Current, Entry
<1>4. Entry(c).postings \in Seq(Posting) /\ Entry(c).id \in Nat /\ hash \in Hash
  BY <1>2, SubmittedIs
<1>5. Len(Entry(c).postings) \in Nat
  <2> DEFINE S == Posting
  <2>1. Entry(c).postings \in Seq(S)
    BY <1>4
  <2> HIDE DEF S
  <2> QED BY <2>1
<1>6. i \in 1..Len(Entry(c).postings) /\ i \in Nat
  BY <1>3, <1>5
<1>7. account \in Nat
  <2>1. Entry(c).postings[i] \in Posting
    BY <1>4, <1>6
  <2>2. account = Entry(c).postings[i].account
    BY DEF LimitKey, key_of
  <2> QED BY <2>1, <2>2 DEF Posting
<1>8. update \in SUBSET Nat
  BY <1>1, <1>7 DEF Tx
<1>9. answer \in Answer
  <2>1. (IF Inline THEN tx[c].next ELSE Null) \in Nat
    BY <1>1 DEF Tx, Null
  <2> HIDE DEF hash
  <2> QED BY <1>4, <2>1 DEF Answer, recorded
<1>10. /\ UNCHANGED <<setup, db, lock, pass, next_xid, begun, answers, commits>>
       /\ tx' = [tx EXCEPT ![c] = IF i < Len(Entry(c).postings) THEN more ELSE NextEntry(done, answer)]
  BY DEF CheckLimit
<1> HIDE DEF update, hash, answer, i
<1>11. /\ locked \in Tx /\ locked.pc = "limit" /\ locked.xid = tx[c].xid /\ locked.mine = tx[c].mine
       /\ locked.out = tx[c].out /\ locked.acc = tx[c].acc /\ locked.next = tx[c].next
       /\ locked.at = tx[c].at /\ locked.batch = tx[c].batch
       /\ locked.posted = tx[c].posted /\ locked.checked = tx[c].checked
  BY <1>1, <1>8 DEF Tx
<1> HIDE DEF locked
<1>12. CASE i < Len(Entry(c).postings)
  <2>1. /\ more \in Tx /\ more.pc = "limit" /\ more.xid = tx[c].xid /\ more.mine = tx[c].mine
        /\ more.out = tx[c].out /\ more.acc = tx[c].acc /\ more.next = tx[c].next
        /\ more.at = tx[c].at /\ more.batch = tx[c].batch
        /\ more.posted = tx[c].posted /\ more.checked = i
    BY <1>6, <1>11 DEF Tx
  <2> HIDE DEF more
  <2>2. Current(more) = Entry(c)
    BY <2>1 DEF Current, Entry
  <2>3. Staged(more)
    BY <1>2, <1>3, <1>12, <2>1, <2>2 DEF Staged
  <2> QED BY <1>10, <1>12, <2>1, <2>2, <2>3 DEF Moves, Transaction
<1>13. CASE ~(i < Len(Entry(c).postings))
  <2> DEFINE t == NextEntry(done, answer)
  <2>1. locked.next + 1 \in Nat /\ Append(locked.acc, hash) \in Seq(Hash)
    BY <1>4, <1>11, SMTT(30) DEF Tx
  <2>2. /\ done \in Tx /\ done.xid = tx[c].xid /\ done.mine = tx[c].mine
        /\ done.out = tx[c].out /\ done.acc = Append(tx[c].acc, hash)
        /\ done.next = tx[c].next + 1
        /\ done.at = tx[c].at /\ done.batch = tx[c].batch
    BY <1>11, <2>1 DEF Tx
  <2> HIDE DEF done
  <2>3. /\ t \in Transaction /\ t.pc \in {"id", "commit"} /\ t.xid = tx[c].xid
        /\ t.out = Append(tx[c].out, answer) /\ t.mine = tx[c].mine
        /\ t.acc = Append(tx[c].acc, hash) /\ t.next = tx[c].next + 1
    BY <1>2, <1>9, <2>2, NextEntryIs
  <2> HIDE DEF t
  <2>4. tx' = [tx EXCEPT ![c] = t]
    BY <1>10, <1>13 DEF t
  <2> QED BY <1>9, <1>10, <2>3, <2>4 DEF Moves, answer, hash
<1> QED BY <1>12, <1>13

-----------------------------------------------------------------------------
(***************************************************************************)
(* Steps of one transaction that write nothing.                            *)
(***************************************************************************)
\* The transaction keeps its identifier, or is given the next one.
Identified(c, t) ==
    \/ t.xid = tx[c].xid /\ next_xid' = next_xid
    \/ tx[c].xid = 0 /\ t.xid = next_xid /\ next_xid' = next_xid + 1

\* What a move leaves of the transactions.
LEMMA MovedIs ==
    ASSUME Types, NEW c \in Clients, NEW t, Moves(c, t)
    PROVE  /\ tx' \in [Clients -> Transaction] /\ tx'[c] = t
           /\ \A d \in Clients : d # c => tx'[d] = tx[d]
           /\ t \in Tx /\ tx[c] \in Tx /\ \A d \in Clients : tx[d] \in Tx /\ tx'[d] \in Tx
  BY DEF Types, Moves, Transaction

\* Nobody sees more or less for it.
LEMMA IdentifiersKept ==
    ASSUME Types, Identifiers, NEW c \in Clients, NEW t, Moves(c, t), Identified(c, t),
           db'.entries = db.entries
    PROVE  /\ Identifiers' /\ next_xid' \in Nat \ {0}
           /\ Running \subseteq Running' /\ Running' \subseteq Running \cup {next_xid}
           /\ \A x : Sees(db.entries, Running', x) = Sees(db.entries, Running, x)
           /\ Sees(db.entries, Running, tx[c].xid) \subseteq Sees(db.entries, Running, t.xid)
<1>1. /\ tx'[c] = t /\ \A d \in Clients : d # c => tx'[d] = tx[d]
      /\ \A d \in Clients : tx[d].xid \in Nat /\ tx'[d].xid \in Nat
  BY MovedIs DEF Tx
<1>2. next_xid \in Nat \ {0} /\ next_xid' \in Nat \ {0} /\ next_xid <= next_xid'
  BY DEF Types, Identified
<1>3. \A id \in DOMAIN db.entries : /\ db.entries[id].insert_xid \in Nat \ {0}
                                    /\ db.entries[id].insert_xid < next_xid
  BY DEF Types, IsDb, IsRow, Identifiers
<1>4. Running \subseteq Running' /\ Running' \subseteq Running \cup {next_xid}
  BY <1>1, <1>2 DEF Running, Identified
<1>5. ASSUME NEW x PROVE Sees(db.entries, Running', x) = Sees(db.entries, Running, x)
  <2>1. \A id \in DOMAIN db.entries : db.entries[id].insert_xid # next_xid
    BY <1>2, <1>3
  <2>2. \A id \in DOMAIN db.entries :
            db.entries[id].insert_xid \notin Running' <=> db.entries[id].insert_xid \notin Running
    BY <1>4, <2>1
  <2> QED BY <2>2 DEF Sees
<1>6. Sees(db.entries, Running, tx[c].xid) \subseteq Sees(db.entries, Running, t.xid)
  BY <1>3 DEF Sees, Identified
<1>7. Identifiers'
  <2>1. \A d \in Clients : tx'[d].xid < next_xid'
    BY <1>1, <1>2 DEF Identifiers, Identified
  <2>2. ASSUME NEW d \in Clients, NEW e \in Clients, tx'[d].xid = tx'[e].xid, tx'[d].xid # 0
        PROVE  d = e
    <3>1. \A f \in Clients : tx[f].xid < next_xid
      BY DEF Identifiers
    <3>2. CASE t.xid = tx[c].xid
      BY <1>1, <2>2, <3>2 DEF Identifiers
    <3>3. CASE t.xid = next_xid
      <4>1. \A f \in Clients : f # c => tx'[f].xid # tx'[c].xid
        BY <1>1, <1>2, <3>1, <3>3
      <4>2. CASE d = c \/ e = c
        BY <2>2, <4>1, <4>2
      <4>3. CASE d # c /\ e # c
        BY <1>1, <2>2, <4>3 DEF Identifiers
      <4> QED BY <4>2, <4>3
    <3> QED BY <3>2, <3>3 DEF Identified
  <2>3. \A id \in DOMAIN db'.entries : db'.entries[id].insert_xid < next_xid'
    BY <1>2, <1>3
  <2> QED BY <2>1, <2>2, <2>3 DEF Identifiers
<1> QED BY <1>2, <1>4, <1>5, <1>6, <1>7

\* What is left to show of such a step is about the transaction itself.
LEMMA LocalRest ==
    ASSUME IInv, NEW c \in Clients, NEW t, Moves(c, t), Identified(c, t),
           UNCHANGED <<setup, answers, commits>>, IsDb(db'), db'.entries = db.entries,
           lock' \in Clients \cup Sequencers \cup {None},
           t.pc \in {"xid", "insert"} /\ Current(t).reverses # None =>
               Reverses(db.entries, Running, tx[c].xid, Current(t).reverses, Current(t)),
           \A n \in DOMAIN t.out : Right(db.entries, Running, tx[c].xid, t.out[n])
    PROVE  Types' /\ Identifiers' /\ ReversalsInv' /\ AnswersInv'
<1> USE DEF IInv
<1>1. /\ tx' \in [Clients -> Transaction] /\ tx'[c] = t
      /\ \A d \in Clients : d # c => tx'[d] = tx[d]
  BY MovedIs
<1>2. /\ Identifiers' /\ next_xid' \in Nat \ {0}
      /\ \A x : Sees(db.entries, Running', x) = Sees(db.entries, Running, x)
      /\ Sees(db.entries, Running, tx[c].xid) \subseteq Sees(db.entries, Running, t.xid)
  BY IdentifiersKept
<1>3. Types'
  BY <1>1, <1>2 DEF Types
<1>4. ReversalsInv'
  <2>1. \A x, o, e : Reverses(db.entries, Running', x, o, e) <=> Reverses(db.entries, Running, x, o, e)
    BY <1>2 DEF Reverses
  <2>2. ASSUME NEW d \in Clients, tx'[d].pc \in {"xid", "insert"}, Current(tx'[d]).reverses # None
        PROVE  Reverses(db.entries, Running, tx'[d].xid, Current(tx'[d]).reverses, Current(tx'[d]))
    <3>1. CASE d = c
      <4>1. Reverses(db.entries, Running, tx[c].xid, Current(t).reverses, Current(t))
        BY <1>1, <2>2, <3>1
      <4>2. Reverses(db.entries, Running, t.xid, Current(t).reverses, Current(t))
        BY <1>2, <4>1 DEF Reverses
      <4> QED BY <1>1, <3>1, <4>2
    <3>2. CASE d # c
      BY <1>1, <2>2, <3>2 DEF ReversalsInv
    <3> QED BY <3>1, <3>2
  <2> QED BY <2>1, <2>2 DEF ReversalsInv
<1>5. AnswersInv'
  <2>1. \A x, a : Right(db.entries, Running', x, a) <=> Right(db.entries, Running, x, a)
    BY <1>2 DEF Right
  <2>2. ASSUME NEW d \in Clients, NEW n \in DOMAIN tx'[d].out
        PROVE  Right(db.entries, Running, tx'[d].xid, tx'[d].out[n])
    <3>1. CASE d = c
      <4>1. Right(db.entries, Running, tx[c].xid, t.out[n])
        BY <1>1, <3>1
      <4>2. Right(db.entries, Running, t.xid, t.out[n])
        BY <1>2, <4>1 DEF Right
      <4> QED BY <1>1, <3>1, <4>2
    <3>2. CASE d # c
      BY <1>1, <3>2 DEF AnswersInv
    <3> QED BY <3>1, <3>2
  <2> QED BY <2>1, <2>2 DEF AnswersInv
<1> QED BY <1>2, <1>3, <1>4, <1>5

\* A step that only moves a transaction, and sees what it saw, keeps all but the order.
LEMMA LocalStep ==
    ASSUME IInv, NEW c \in Clients, NEW t, Moves(c, t), Identified(c, t),
           UNCHANGED <<setup, db, answers, commits>>,
           lock' \in Clients \cup Sequencers \cup {None},
           tx[c].pc # "post",
           t.pc \in {"post", "limit"} =>
               tx[c].pc = "limit" /\ t.pc = "limit" /\ Current(t) = Current(tx[c]) /\ t.xid = tx[c].xid,
           t.pc \in {"xid", "insert"} /\ Current(t).reverses # None =>
               Reverses(db.entries, Running, tx[c].xid, Current(t).reverses, Current(t)),
           \A n \in DOMAIN t.out : Right(db.entries, Running, tx[c].xid, t.out[n])
    PROVE  Types' /\ Identifiers' /\ Written' /\ ReversalsInv' /\ AnswersInv'
<1> USE DEF IInv
<1>1. tx'[c] = t /\ \A d \in Clients : d # c => tx'[d] = tx[d]
  BY MovedIs
<1>2. IsDb(db') /\ db'.entries = db.entries
  BY DEF Types
<1>3. Types' /\ Identifiers' /\ ReversalsInv' /\ AnswersInv'
  BY <1>2, LocalRest
<1>4. Written'
  <2>1. \A d \in Clients : tx'[d].pc \in {"post", "limit"} => Owns(db.entries, tx'[d])
    <3>1. \A d \in Clients : tx[d].pc \in {"post", "limit"} => Owns(db.entries, tx[d])
      BY DEF Written
    <3>2. t.pc \in {"post", "limit"} => Owns(db.entries, t)
      BY <3>1 DEF Owns
    <3> QED BY <1>1, <3>1, <3>2
  <2>2. \A d \in Clients : tx'[d].pc = "post" => Holds(db, Current(tx'[d]).id, tx'[d].posted)
    BY <1>1 DEF Written
  <2>3. ASSUME NEW id \in DOMAIN db.entries,
               \A d \in Clients : tx'[d].pc = "post" => Current(tx'[d]).id # id
        PROVE  Holds(db, id, Len(db.entries[id].content_hash.postings))
    <3>1. \A d \in Clients : tx[d].pc = "post" => Current(tx[d]).id # id
      BY <1>1, <2>3
    <3> QED BY <3>1 DEF Written
  <2> QED BY <2>1, <2>2, <2>3 DEF Written
<1> QED BY <1>3, <1>4

\* The log is as it was, and the transaction goes on from it.
LEMMA LocalOrder ==
    ASSUME IInv, NEW c \in Clients, NEW t, Moves(c, t), Identified(c, t),
           UNCHANGED <<setup, lock, pass, commits>>,
           db'.entries = db.entries, db'.log_subtrees = db.log_subtrees,
           ~Inline => t.pc # "begin",
           Inline => /\ t.pc \in {"idle", "begin"} <=> tx[c].pc \in {"idle", "begin"}
                     /\ t.pc \notin {"idle", "begin"} => Continues(t, db)
    PROVE  Order'
<1> USE DEF IInv
<1>1. tx'[c] = t /\ \A d \in Clients : d # c => tx'[d] = tx[d]
  BY MovedIs
<1>2. /\ Running' \subseteq Running \cup {next_xid}
      /\ \A x : Sees(db.entries, Running', x) = Sees(db.entries, Running, x)
  BY IdentifiersKept
<1>3. /\ Inline' = Inline /\ Placed(db') = Placed(db) /\ Waits(db') = Waits(db)
      /\ \A u : Continues(u, db') <=> Continues(u, db)
  BY DEF Inline, Placed, Waits, Continues
<1>4. CASE ~Inline
  <2>1. Deferred
    BY <1>4 DEF Order
  <2>2. \A id \in DOMAIN db.entries : db.entries[id].insert_xid < next_xid
    BY DEF Identifiers
  <2>3. \A id \in Placed(db), x \in Running' : db.entries[id].insert_xid < x
    BY <1>2, <2>1, <2>2 DEF Deferred, Placed
  <2>4. lock \in Sequencers => PassInv'
    <3> SUFFICES ASSUME lock \in Sequencers PROVE PassInv'
      OBVIOUS
    <3>1. PassInv
      BY <2>1 DEF Deferred
    <3>2. \A n \in DOMAIN pass : \A x \in Running' : db.entries[pass[n]].insert_xid < x
      BY <1>2, <2>2, <3>1 DEF PassInv, Waits
    <3> QED BY <1>3, <3>1, <3>2 DEF PassInv
  <2>5. \A d \in Clients : tx'[d].pc # "begin"
    BY <1>1, <1>4, <2>1 DEF Deferred
  <2>6. Deferred'
    BY <1>3, <2>1, <2>3, <2>4, <2>5 DEF Deferred
  <2> QED BY <1>3, <1>4, <2>6 DEF Order
<1>5. CASE Inline
  <2>1. InlineInv
    BY <1>5 DEF Order
  <2>2. \A d \in Clients : lock = d <=> tx'[d].pc \notin {"idle", "begin"}
    BY <1>1, <1>5, <2>1 DEF InlineInv
  <2>3. \A d \in Clients : lock = d => Continues(tx'[d], db)
    BY <1>1, <1>5, <2>1, <2>2 DEF InlineInv
  <2>4. InlineInv'
    BY <1>2, <1>3, <2>1, <2>2, <2>3 DEF InlineInv
  <2> QED BY <1>3, <1>5, <2>4 DEF Order
<1> QED BY <1>4, <1>5

\* A transaction that begins has written nothing.
LEMMA BeginIInv ==
    ASSUME IInv, NEW c \in Clients, NEW batch \in Setups[setup].batches, Begin(c, batch)
    PROVE  IInv'
<1>1. Types
  BY DEF IInv
<1>2. PICK t : /\ Moves(c, t) /\ tx[c] = Idle
               /\ t = [Idle EXCEPT !.pc = IF Inline THEN "begin" ELSE "id", !.batch = batch]
  BY <1>1, BeginMoves
<1>3. /\ t.pc = (IF Inline THEN "begin" ELSE "id") /\ t.xid = 0 /\ t.out = <<>>
      /\ tx[c].pc = "idle" /\ tx[c].xid = 0
  BY <1>2 DEF Idle
<1>4. UNCHANGED <<setup, db, lock, pass, next_xid, answers, commits>>
  BY DEF Begin
<1>5. Identified(c, t)
  BY <1>3, <1>4 DEF Identified
<1>6. lock' \in Clients \cup Sequencers \cup {None}
  BY <1>1, <1>4 DEF Types
<1>7. t.pc \in {"begin", "id"} /\ \A n \in DOMAIN t.out : FALSE
  BY <1>3
<1>8. Types' /\ Identifiers' /\ Written' /\ ReversalsInv' /\ AnswersInv'
  BY <1>2, <1>3, <1>4, <1>5, <1>6, <1>7, LocalStep
<1>9. (Inline => t.pc = "begin") /\ (~Inline => t.pc # "begin")
  BY <1>3
<1>10. Order'
  BY <1>2, <1>3, <1>4, <1>5, <1>9, LocalOrder
<1> QED BY <1>8, <1>10 DEF IInv

\* CheckId and CheckReversal, when they find nothing to refuse.
LEMMA LooksIInv ==
    ASSUME IInv, NEW c \in Clients, NEW pc \in {"xid", "reversal"},
           tx[c].pc \in {"id", "reversal"}, tx' = [tx EXCEPT ![c].pc = pc],
           UNCHANGED <<setup, db, lock, pass, next_xid, begun, answers, commits>>,
           pc = "xid" /\ Entry(c).reverses # None =>
               Reverses(db.entries, Running, tx[c].xid, Entry(c).reverses, Entry(c))
    PROVE  IInv'
<1>1. Types
  BY DEF IInv
<1>2. PICK t : /\ Moves(c, t) /\ t.pc = pc /\ t.xid = tx[c].xid /\ t.out = tx[c].out
               /\ t.mine = tx[c].mine /\ t.acc = tx[c].acc /\ t.next = tx[c].next
               /\ Current(t) = Entry(c)
  BY <1>1, LooksMoves
<1>3. Identified(c, t)
  BY <1>2 DEF Identified
<1>4. lock' \in Clients \cup Sequencers \cup {None}
  BY <1>1 DEF Types
<1>5. \A n \in DOMAIN t.out : Right(db.entries, Running, tx[c].xid, t.out[n])
  BY <1>2 DEF IInv, AnswersInv
<1>6. t.pc \in {"xid", "insert"} /\ Current(t).reverses # None =>
          Reverses(db.entries, Running, tx[c].xid, Current(t).reverses, Current(t))
  BY <1>2
<1>7. t.pc \notin {"post", "limit"} /\ tx[c].pc # "post"
  BY <1>2
<1>8. Types' /\ Identifiers' /\ Written' /\ ReversalsInv' /\ AnswersInv'
  BY <1>2, <1>3, <1>4, <1>5, <1>6, <1>7, LocalStep
<1>9. Inline => Continues(t, db)
  <2> SUFFICES ASSUME Inline PROVE Continues(t, db)
    OBVIOUS
  <2>1. Continues(tx[c], db)
    BY DEF IInv, Order, InlineInv
  <2>2. Leaves(t) = Leaves(tx[c])
    BY <1>2 DEF Leaves
  <2> QED BY <1>2, <2>1, <2>2 DEF Continues
<1>10. Order'
  BY <1>2, <1>3, <1>9, LocalOrder
<1> QED BY <1>8, <1>10 DEF IInv

\* A new identifier is greater than every one in use.
LEMMA AssignXidIInv ==
    ASSUME IInv, NEW c \in Clients, AssignXid(c)
    PROVE  IInv'
<1>1. Types
  BY DEF IInv
<1>2. PICK t : /\ Moves(c, t) /\ tx[c].pc = "xid" /\ t.pc = "insert"
               /\ t.xid = (IF tx[c].xid = 0 THEN next_xid ELSE tx[c].xid)
               /\ t.out = tx[c].out /\ t.mine = tx[c].mine /\ t.acc = tx[c].acc
               /\ t.next = tx[c].next /\ Current(t) = Entry(c)
  BY <1>1, AssignXidMoves
<1>3. Identified(c, t) /\ UNCHANGED <<setup, db, lock, pass, answers, commits>>
  BY <1>2 DEF Identified, AssignXid
<1>4. lock' \in Clients \cup Sequencers \cup {None}
  BY <1>1, <1>3 DEF Types
<1>5. \A n \in DOMAIN t.out : Right(db.entries, Running, tx[c].xid, t.out[n])
  BY <1>2 DEF IInv, AnswersInv
<1>6. t.pc \in {"xid", "insert"} /\ Current(t).reverses # None =>
          Reverses(db.entries, Running, tx[c].xid, Current(t).reverses, Current(t))
  <2>1. Current(t) = Current(tx[c])
    BY <1>2 DEF Current, Entry
  <2> QED BY <1>2, <2>1 DEF IInv, ReversalsInv
<1>7. t.pc \notin {"post", "limit"} /\ tx[c].pc # "post"
  BY <1>2
<1>8. Types' /\ Identifiers' /\ Written' /\ ReversalsInv' /\ AnswersInv'
  BY <1>2, <1>3, <1>4, <1>5, <1>6, <1>7, LocalStep
<1>9. Inline => Continues(t, db)
  <2> SUFFICES ASSUME Inline PROVE Continues(t, db)
    OBVIOUS
  <2>1. Continues(tx[c], db)
    BY <1>2 DEF IInv, Order, InlineInv
  <2>2. Leaves(t) = Leaves(tx[c])
    BY <1>2 DEF Leaves
  <2> QED BY <1>2, <2>1, <2>2 DEF Continues
<1>10. Order'
  BY <1>2, <1>3, <1>9, LocalOrder
<1> QED BY <1>8, <1>10 DEF IInv

\* One answer more.
LEMMA AppendAnswer ==
    ASSUME NEW out \in Seq(Answer), NEW answer \in Answer, NEW entries, NEW running, NEW xid,
           \A n \in DOMAIN out : Right(entries, running, xid, out[n]),
           Right(entries, running, xid, answer)
    PROVE  \A n \in DOMAIN Append(out, answer) : Right(entries, running, xid, Append(out, answer)[n])
<1> DEFINE S == Answer
<1>1. out \in Seq(S) /\ answer \in S
  OBVIOUS
<1> HIDE DEF S
<1>2. /\ DOMAIN Append(out, answer) = 1..(Len(out) + 1) /\ DOMAIN out = 1..Len(out) /\ Len(out) \in Nat
      /\ \A n \in 1..Len(out) : Append(out, answer)[n] = out[n]
      /\ Append(out, answer)[Len(out) + 1] = answer
  BY <1>1
<1>3. \A n \in 1..(Len(out) + 1) : n \in 1..Len(out) \/ n = Len(out) + 1
  BY <1>2
<1> QED BY <1>2, <1>3

\* A replay answers with what its transaction sees.
LEMMA ReplayIInv ==
    ASSUME IInv, NEW c \in Clients, tx[c].pc = "insert",
           NEW id \in KeyHolder(Seen(tx[c].xid), Entry(c)),
           SameContent(Seen(tx[c].xid), id, Entry(c)), Replay(c, id)
    PROVE  IInv'
<1>1. Types
  BY DEF IInv
<1>2. PICK t, answer :
              /\ Moves(c, t) /\ t.pc \in {"id", "commit"} /\ t.xid = tx[c].xid
              /\ t.out = Append(tx[c].out, answer) /\ t.mine = tx[c].mine
              /\ t.acc = tx[c].acc /\ t.next = tx[c].next
              /\ answer \in Answer /\ Right(db.entries, Running, tx[c].xid, answer)
              /\ UNCHANGED <<setup, db, lock, pass, next_xid, begun, answers, commits>>
  BY <1>1, ReplayMoves
<1>3. Identified(c, t)
  BY <1>2 DEF Identified
<1>4. lock' \in Clients \cup Sequencers \cup {None}
  BY <1>1, <1>2 DEF Types
<1>5. \A n \in DOMAIN t.out : Right(db.entries, Running, tx[c].xid, t.out[n])
  <2>1. tx[c].out \in Seq(Answer)
    BY <1>1, <1>2, MovedIs DEF Tx
  <2>2. \A n \in DOMAIN tx[c].out : Right(db.entries, Running, tx[c].xid, tx[c].out[n])
    BY DEF IInv, AnswersInv
  <2> QED BY <1>2, <2>1, <2>2, AppendAnswer
<1>6. t.pc \notin {"post", "limit", "xid", "insert", "idle", "begin"} /\ tx[c].pc # "post"
  BY <1>2
<1>7. Types' /\ Identifiers' /\ Written' /\ ReversalsInv' /\ AnswersInv'
  BY <1>2, <1>3, <1>4, <1>5, <1>6, LocalStep
<1>8. Inline => Continues(t, db)
  <2> SUFFICES ASSUME Inline PROVE Continues(t, db)
    OBVIOUS
  <2>1. Continues(tx[c], db)
    BY <1>2 DEF IInv, Order, InlineInv
  <2>2. Leaves(t) = Leaves(tx[c])
    BY <1>2 DEF Leaves
  <2> QED BY <1>2, <2>1, <2>2 DEF Continues
<1>9. Order'
  BY <1>2, <1>3, <1>6, <1>8, LocalOrder
<1> QED BY <1>7, <1>9 DEF IInv

\* The limits are checked; the answer names the row that was written.
LEMMA LimitIInv ==
    ASSUME IInv, NEW c \in Clients, tx[c].pc = "limit", CheckLimit(c),
           check_limits(Seen(tx[c].xid), LimitKey(c))
    PROVE  IInv'
<1> DEFINE hash == content_hash(Entry(c))
           answer == recorded(Entry(c).id, IF Inline THEN tx[c].next ELSE Null, hash, TRUE)
<1>1. Types
  BY DEF IInv
<1>2. UNCHANGED <<setup, db, lock, pass, next_xid, begun, answers, commits>>
  BY <1>1, LimitMoves
<1>3. PICK t : /\ Moves(c, t) /\ t.xid = tx[c].xid /\ t.mine = tx[c].mine
               /\ \/ /\ t.pc = "limit" /\ t.out = tx[c].out /\ t.acc = tx[c].acc
                     /\ t.next = tx[c].next /\ Current(t) = Entry(c)
                  \/ /\ t.pc \in {"id", "commit"} /\ answer \in Answer
                     /\ t.out = Append(tx[c].out, answer)
                     /\ t.acc = Append(tx[c].acc, hash)
                     /\ t.next = tx[c].next + 1
  BY <1>1, LimitMoves
<1>4. Identified(c, t)
  BY <1>2, <1>3 DEF Identified
<1>5. lock' \in Clients \cup Sequencers \cup {None}
  BY <1>1, <1>2 DEF Types
<1>6. Current(tx[c]) = Entry(c) /\ Owns(db.entries, tx[c])
  BY DEF Current, Entry, IInv, Written
<1>7. Inline => /\ Continues(tx[c], db) /\ Leaves(tx[c]) = Append(tx[c].acc, hash)
                /\ db.entries[Entry(c).id].log_index = tx[c].next
  <2> SUFFICES ASSUME Inline
               PROVE  /\ Continues(tx[c], db) /\ Leaves(tx[c]) = Append(tx[c].acc, hash)
                      /\ db.entries[Entry(c).id].log_index = tx[c].next
    OBVIOUS
  <2>1. Continues(tx[c], db)
    BY DEF IInv, Order, InlineInv
  <2> QED BY <1>6, <2>1 DEF Continues, Leaves
<1>8. \A n \in DOMAIN t.out : Right(db.entries, Running, tx[c].xid, t.out[n])
  <2>1. tx[c].out \in Seq(Answer)
    BY <1>1, <1>3, MovedIs DEF Tx
  <2>2. \A n \in DOMAIN tx[c].out : Right(db.entries, Running, tx[c].xid, tx[c].out[n])
    BY DEF IInv, AnswersInv
  <2>3. Right(db.entries, Running, tx[c].xid, answer)
    BY <1>6, <1>7 DEF Right, recorded, Owns, Sees, Null
  <2> HIDE DEF answer
  <2> QED BY <1>3, <2>1, <2>2, <2>3, AppendAnswer
<1>9. /\ t.pc \notin {"xid", "insert", "idle", "begin"} /\ tx[c].pc # "post"
      /\ t.pc \in {"post", "limit"} => t.pc = "limit" /\ Current(t) = Current(tx[c])
  BY <1>3, <1>6
<1> HIDE DEF answer
<1>10. Types' /\ Identifiers' /\ Written' /\ ReversalsInv' /\ AnswersInv'
  BY <1>2, <1>3, <1>4, <1>5, <1>8, <1>9, LocalStep
<1>11. Inline => Continues(t, db)
  <2> SUFFICES ASSUME Inline PROVE Continues(t, db)
    OBVIOUS
  <2>1. tx[c].acc \in Seq(Hash) /\ tx[c] \in Tx
    BY <1>1, <1>3, MovedIs DEF Tx
  <2>2. hash \in Hash
    <3>1. tx[c] \in Transaction
      BY <1>1 DEF Types
    <3>2. Current(tx[c]) \in Submitted
      BY <3>1, CurrentIs
    <3> QED BY <1>6, <3>2, SubmittedIs
  <2> HIDE DEF hash
  <2>3. Len(Append(tx[c].acc, hash)) = Len(tx[c].acc) + 1 /\ Len(tx[c].acc) \in Nat
    BY <2>1, <2>2
  <2>4. Leaves(t) = Leaves(tx[c]) /\ t.next = Len(t.acc) + 1
    <3>1. CASE t.pc = "limit"
      <4>1. t.acc = tx[c].acc /\ t.next = tx[c].next /\ Current(t) = Entry(c)
        BY <1>3, <3>1
      <4> QED BY <1>6, <1>7, <3>1, <4>1 DEF Leaves, Continues
    <3>2. CASE t.pc # "limit"
      <4>1. t.pc \in {"id", "commit"} /\ t.acc = Append(tx[c].acc, hash) /\ t.next = tx[c].next + 1
        BY <1>3, <3>2
      <4> QED BY <1>7, <2>3, <4>1 DEF Leaves, Continues
    <3> QED BY <3>1, <3>2
  <2>5. t.pc \in {"post", "limit"} => db.entries[Current(t).id].log_index = t.next
    BY <1>3, <1>7
  <2> QED BY <1>3, <1>7, <2>4, <2>5 DEF Continues
<1>12. Order'
  BY <1>2, <1>3, <1>4, <1>9, <1>11, LocalOrder
<1> QED BY <1>10, <1>12 DEF IInv

\* The lock is free: nobody has a row that is not committed.
LEMMA TakeLockIInv ==
    ASSUME IInv, NEW c \in Clients, TakeLock(c)
    PROVE  IInv'
<1>1. Types
  BY DEF IInv
<1>2. PICK t : /\ Moves(c, t)
               /\ Inline /\ tx[c].xid = 0 /\ tx[c].out = <<>>
               /\ t.pc = "id" /\ t.xid = 0 /\ t.out = <<>> /\ t.mine = <<>>
               /\ t.acc = db.log_subtrees /\ t.next = Len(db.log_subtrees) + 1
  BY TakeLockMoves
<1>3. /\ UNCHANGED <<setup, db, pass, next_xid, answers, commits>>
      /\ lock = None /\ lock' = c /\ tx[c].pc = "begin"
  BY DEF TakeLock
<1>4. Identified(c, t)
  BY <1>2, <1>3 DEF Identified
<1>5. lock' \in Clients \cup Sequencers \cup {None}
  BY <1>3
<1>6. t.pc = "id" /\ \A n \in DOMAIN t.out : FALSE
  BY <1>2
<1>7. Types' /\ Identifiers' /\ Written' /\ ReversalsInv' /\ AnswersInv'
  BY <1>2, <1>3, <1>4, <1>5, <1>6, LocalStep
<1>8. tx'[c] = t /\ (\A d \in Clients : d # c => tx'[d] = tx[d])
  BY <1>1, <1>2, MovedIs
<1>9. \A x : Sees(db.entries, Running', x) = Sees(db.entries, Running, x)
  BY <1>1, <1>2, <1>3, <1>4, IdentifiersKept DEF IInv
<1>10. InlineInv
  BY <1>2 DEF IInv, Order
<1>11. \A d \in Clients : tx[d].pc \in {"idle", "begin"}
  BY <1>3, <1>10, ActorsDiffer DEF InlineInv
<1>12. Running = {}
  <2>1. \A d \in Clients : tx[d].xid = 0
    BY <1>1, <1>11, EarlyIs DEF Types
  <2> QED BY <2>1 DEF Running
<1>13. Sees(db.entries, Running, 0) = DOMAIN db.entries
  BY <1>12 DEF Sees
<1>14. Continues(t, db)
  <2>1. Leaves(t) = db.log_subtrees
    BY <1>2 DEF Leaves
  <2>2. db.log_subtrees \in Seq(Hash)
    BY <1>1 DEF Types, IsDb
  <2>3. Len(db.log_subtrees) \in Nat /\ Len(t.mine) = 0 /\ DOMAIN t.mine = {}
    BY <1>2, <2>2
  <2> QED BY <1>2, <1>10, <1>13, <2>1, <2>3 DEF Continues, InlineInv
<1>15. \A d \in Clients : lock' = d <=> tx'[d].pc \notin {"idle", "begin"}
  BY <1>2, <1>3, <1>8, <1>11
<1>16. lock' \notin Sequencers
  BY <1>3, ActorsDiffer
<1>17. InlineInv'
  BY <1>3, <1>8, <1>9, <1>10, <1>14, <1>15, <1>16 DEF InlineInv
<1>18. Order'
  BY <1>2, <1>3, <1>17 DEF Order, Inline
<1> QED BY <1>7, <1>18 DEF IInv

-----------------------------------------------------------------------------
(***************************************************************************)
(* A transaction that is given up leaves nothing behind.                   *)
(***************************************************************************)
\* What is left of the tables, and who sees it.
LEMMA RollbackIs ==
    ASSUME Types, Identifiers, NEW c \in Clients, Rollback(c)
    PROVE  LET x    == tx[c].xid
               gone == {id \in DOMAIN db.entries : db.entries[id].insert_xid = x}
           IN /\ Moves(c, Idle) /\ Running' = Running \ {x}
              /\ x = 0 => gone = {} /\ db'.entries = db.entries
              /\ IsDb(db') /\ db'.log_subtrees = db.log_subtrees
              /\ DOMAIN db'.entries = DOMAIN db.entries \ gone
              /\ \A id \in DOMAIN db'.entries : db'.entries[id] = db.entries[id]
              /\ DOMAIN db'.postings = {k \in DOMAIN db.postings : k[1] \notin gone}
              /\ \A k \in DOMAIN db'.postings : db'.postings[k] = db.postings[k]
              /\ db'.posting_dimensions = {d \in db.posting_dimensions : d.entry_id \notin gone}
              /\ \A y : y # x \/ x = 0 =>
                    Sees(db'.entries, Running', y) = Sees(db.entries, Running, y)
<1> DEFINE x    == tx[c].xid
           gone == {id \in DOMAIN db.entries : db.entries[id].insert_xid = x}
<1>1. Moves(c, Idle)
  BY IdleIs DEF Moves, Rollback
<1>2. /\ tx'[c] = Idle /\ (\A d \in Clients : d # c => tx'[d] = tx[d])
      /\ \A d \in Clients : tx[d].xid \in Nat
  BY <1>1, MovedIs DEF Tx
<1>3. Running' = Running \ {x}
  <2>1. Idle.xid = 0
    BY DEF Idle
  <2>2. ASSUME NEW y PROVE y \in Running' <=> y \in Running \ {x}
    <3>1. ASSUME y \in Running' PROVE y \in Running \ {x}
      <4>1. PICK d \in Clients : y = tx'[d].xid /\ y # 0
        BY <3>1 DEF Running
      <4>2. d # c
        BY <1>2, <2>1, <4>1
      <4>3. y = tx[d].xid
        BY <1>2, <4>1, <4>2
      <4>4. y # x
        BY <4>1, <4>2, <4>3 DEF Identifiers
      <4> QED BY <4>1, <4>3, <4>4 DEF Running
    <3>2. ASSUME y \in Running \ {x} PROVE y \in Running'
      <4>1. PICK d \in Clients : y = tx[d].xid /\ y # 0
        BY <3>2 DEF Running
      <4>2. d # c
        BY <3>2, <4>1
      <4> QED BY <1>2, <4>1, <4>2 DEF Running
    <3> QED BY <3>1, <3>2
  <2> QED BY <2>2
<1>4. /\ IsDb(db)
      /\ \A id \in DOMAIN db.entries : IsRow(id, db.entries[id]) /\ db.entries[id].insert_xid \in Nat \ {0}
  BY DEF Types, IsDb, IsRow
<1> DEFINE keys == {k \in DOMAIN db.postings : k[1] \in gone}
           dims == {d \in db.posting_dimensions : d.entry_id \notin gone}
<1>5. /\ db'.entries = Without(db.entries, gone) /\ db'.postings = Without(db.postings, keys)
      /\ db'.posting_dimensions = dims
      /\ db'.log_subtrees = db.log_subtrees
      /\ db' = [entries |-> db'.entries, postings |-> db'.postings,
                posting_dimensions |-> db'.posting_dimensions, log_subtrees |-> db'.log_subtrees,
                accounts |-> db'.accounts, periods |-> db'.periods, seals |-> db'.seals,
                clearings |-> db'.clearings, checkpoints |-> db'.checkpoints]
  <2> HIDE DEF gone
  <2>1. db' = [db EXCEPT !.entries = Without(@, gone),
                        !.postings = Without(@, {k \in DOMAIN @ : k[1] \in gone}),
                        !.posting_dimensions = {d \in @ : d.entry_id \notin gone}]
    BY DEF Rollback, gone
  <2> DEFINE t == [entries |-> db.entries, postings |-> db.postings,
            posting_dimensions |-> db.posting_dimensions, log_subtrees |-> db.log_subtrees,
            accounts |-> db.accounts, periods |-> db.periods, seals |-> db.seals,
            clearings |-> db.clearings, checkpoints |-> db.checkpoints]
  <2>2. db = t
    BY <1>4 DEF IsDb
  <2>3. db' = [entries |-> Without(db.entries, gone), postings |-> Without(db.postings, keys),
            posting_dimensions |-> dims, log_subtrees |-> db.log_subtrees,
            accounts |-> db.accounts, periods |-> db.periods, seals |-> db.seals,
            clearings |-> db.clearings, checkpoints |-> db.checkpoints]
    BY <2>1, <2>2
  <2> QED BY <2>3
<1>6. /\ db'.entries = [id \in DOMAIN db.entries \ gone |-> db.entries[id]]
      /\ db'.postings = [k \in DOMAIN db.postings \ keys |-> db.postings[k]]
  BY <1>5 DEF Without
<1>7. /\ DOMAIN db'.entries = DOMAIN db.entries \ gone
      /\ \A id \in DOMAIN db'.entries : db'.entries[id] = db.entries[id]
      /\ db'.entries = [id \in DOMAIN db'.entries |-> db'.entries[id]]
  BY <1>6
<1>8. /\ DOMAIN db'.postings = {k \in DOMAIN db.postings : k[1] \notin gone}
      /\ \A k \in DOMAIN db'.postings : db'.postings[k] = db.postings[k]
  BY <1>6
<1>9. x = 0 => gone = {} /\ db'.entries = db.entries
  <2> SUFFICES ASSUME x = 0 PROVE gone = {} /\ db'.entries = db.entries
    OBVIOUS
  <2>1. gone = {}
    BY <1>4
  <2>2. db'.entries = [id \in DOMAIN db.entries |-> db.entries[id]]
    BY <1>6, <2>1
  <2>3. db.entries = [id \in DOMAIN db.entries |-> db.entries[id]]
    BY <1>4 DEF IsDb
  <2> QED BY <2>1, <2>2, <2>3
<1>10. IsDb(db')
  <2>1. IsFiniteSet(DOMAIN db'.entries)
    BY <1>4, <1>7, FS_Subset DEF IsDb
  <2>2. \A id \in DOMAIN db'.entries : IsRow(id, db'.entries[id])
    BY <1>4, <1>7
  <2>3. db'.log_subtrees \in Seq(Hash)
    BY <1>4, <1>5 DEF IsDb
  <2> QED BY <1>5, <1>7, <2>1, <2>2, <2>3 DEF IsDb
<1>11. ASSUME NEW y, y # x \/ x = 0
       PROVE  Sees(db'.entries, Running', y) = Sees(db.entries, Running, y)
  <2>1. CASE x = 0
    <3>1. Running' = Running
      BY <1>3, <2>1 DEF Running
    <3> QED BY <1>9, <2>1, <3>1
  <2>2. CASE x # 0 /\ y # x
    <3>1. x \in Running
      BY <2>2 DEF Running
    <3>2. \A id \in gone : id \notin Sees(db.entries, Running, y)
      BY <2>2, <3>1 DEF Sees
    <3>3. \A id \in DOMAIN db.entries \ gone :
              id \in Sees(db'.entries, Running', y) <=> id \in Sees(db.entries, Running, y)
      <4> SUFFICES ASSUME NEW id \in DOMAIN db.entries \ gone
                   PROVE  id \in Sees(db'.entries, Running', y) <=> id \in Sees(db.entries, Running, y)
        OBVIOUS
      <4>1. db'.entries[id] = db.entries[id] /\ id \in DOMAIN db'.entries
        BY <1>7
      <4>2. db.entries[id].insert_xid \notin Running' <=> db.entries[id].insert_xid \notin Running
        BY <1>3
      <4> QED BY <4>1, <4>2 DEF Sees
    <3>4. Sees(db'.entries, Running', y) \subseteq DOMAIN db.entries \ gone
      BY <1>7 DEF Sees
    <3>5. Sees(db.entries, Running, y) \subseteq DOMAIN db.entries \ gone
      BY <3>2 DEF Sees
    <3> QED BY <3>3, <3>4, <3>5
  <2> QED BY <1>11, <2>1, <2>2
<1> QED BY <1>1, <1>3, <1>5, <1>7, <1>8, <1>9, <1>10, <1>11

\* A row that stays holds what it held.
LEMMA HoldsSame ==
    ASSUME NEW t, NEW u, NEW id, NEW n,
           u.entries[id].content_hash = t.entries[id].content_hash,
           \A k : k[1] = id => (k \in DOMAIN u.postings <=> k \in DOMAIN t.postings),
           \A k \in DOMAIN t.postings : k[1] = id => u.postings[k] = t.postings[k],
           \A d : d.entry_id = id => (d \in u.posting_dimensions <=> d \in t.posting_dimensions),
           Holds(t, id, n)
    PROVE  Holds(u, id, n)
<1> DEFINE p == t.entries[id].content_hash.postings
<1>1. \A k \in DOMAIN u.postings : k[1] = id => \E i \in 1..n : k = <<id, i>>
  BY DEF Holds
<1>2. ASSUME NEW i \in 1..n
      PROVE  /\ <<id, i>> \in DOMAIN u.postings /\ u.postings[<<id, i>>] = posting_row(p[i])
             /\ dimensions_from(u, id, i) = p[i].dimensions
  <2>1. <<id, i>>[1] = id
    OBVIOUS
  <2>2. /\ <<id, i>> \in DOMAIN t.postings /\ t.postings[<<id, i>>] = posting_row(p[i])
        /\ dimensions_from(t, id, i) = p[i].dimensions
    BY DEF Holds
  <2>3. {d \in u.posting_dimensions : d.entry_id = id /\ d.posting_index = i}
           = {d \in t.posting_dimensions : d.entry_id = id /\ d.posting_index = i}
    OBVIOUS
  <2>4. dimensions_from(u, id, i) = dimensions_from(t, id, i)
    BY <2>3 DEF dimensions_from
  <2> QED BY <2>1, <2>2, <2>4
<1>3. \A d \in u.posting_dimensions : d.entry_id = id => d.posting_index \in 1..n
  BY DEF Holds
<1> QED BY <1>1, <1>2, <1>3 DEF Holds

\* A rollback takes the rows of its transaction, which nobody else has seen.
LEMMA RollbackIInv ==
    ASSUME IInv, NEW c \in Clients, Rollback(c)
    PROVE  IInv'
<1> DEFINE x    == tx[c].xid
           gone == {id \in DOMAIN db.entries : db.entries[id].insert_xid = x}
           E == db.entries
           F == db'.entries
<1>1. Types /\ Identifiers
  BY DEF IInv
<1>2. /\ Moves(c, Idle) /\ Running' = Running \ {x}
      /\ x = 0 => gone = {} /\ F = E
      /\ IsDb(db') /\ db'.log_subtrees = db.log_subtrees
      /\ DOMAIN F = DOMAIN E \ gone /\ \A id \in DOMAIN F : F[id] = E[id]
      /\ DOMAIN db'.postings = {k \in DOMAIN db.postings : k[1] \notin gone}
      /\ \A k \in DOMAIN db'.postings : db'.postings[k] = db.postings[k]
      /\ db'.posting_dimensions = {d \in db.posting_dimensions : d.entry_id \notin gone}
      /\ \A y : y # x \/ x = 0 => Sees(F, Running', y) = Sees(E, Running, y)
  BY <1>1, RollbackIs
<1>3. /\ tx' \in [Clients -> Transaction] /\ tx'[c] = Idle
      /\ (\A d \in Clients : d # c => tx'[d] = tx[d])
      /\ \A d \in Clients : tx[d].xid \in Nat
  BY <1>1, <1>2, MovedIs DEF Tx
<1>4. /\ lock' = Release(c) /\ UNCHANGED <<setup, pass, next_xid, answers, commits>>
  BY DEF Rollback
<1>5. Types'
  <2>1. lock' \in Clients \cup Sequencers \cup {None}
    BY <1>1, <1>4 DEF Release, Types
  <2> QED BY <1>1, <1>2, <1>3, <1>4, <2>1 DEF Types
<1>6. /\ Idle.pc = "idle" /\ Idle.xid = 0 /\ Idle.out = <<>> /\ DOMAIN Idle.out = {}
  BY DEF Idle
<1>7. \A d \in Clients : d # c => tx[d].xid # x \/ x = 0
  BY <1>1 DEF Identifiers
<1>8. \A y : y # x \/ x = 0 => Sees(E, Running, y) \subseteq DOMAIN F
  BY <1>2 DEF Sees
<1>9. \A id \in DOMAIN F : E[id].insert_xid # x /\ id \in DOMAIN E /\ id \notin gone
  BY <1>2
<1> HIDE DEF gone, E, F, x
<1>10. Identifiers'
  <2>1. \A d \in Clients : tx'[d].xid < next_xid'
    <3>1. next_xid \in Nat \ {0} /\ next_xid' = next_xid /\ \A d \in Clients : tx[d].xid < next_xid
      BY <1>1, <1>4 DEF Identifiers, Types
    <3>2. tx'[c].xid = 0
      BY <1>3, <1>6
    <3> QED BY <1>3, <3>1, <3>2
  <2>2. \A d, e \in Clients : tx'[d].xid = tx'[e].xid /\ tx'[d].xid # 0 => d = e
    BY <1>1, <1>3, <1>6 DEF Identifiers
  <2>3. \A id \in DOMAIN F : F[id].insert_xid < next_xid'
    BY <1>1, <1>2, <1>4, <1>9 DEF Identifiers, E
  <2> QED BY <2>1, <2>2, <2>3 DEF Identifiers, F
<1>11. Written'
  <2> USE DEF IInv
  <2>1. \A k \in DOMAIN db'.postings : k[1] \in DOMAIN F
    BY <1>2 DEF Written, E
  <2>2. \A d \in db'.posting_dimensions : d.entry_id \in DOMAIN F
    BY <1>2 DEF Written, E
  <2>3. ASSUME NEW d \in Clients, tx'[d].pc \in {"post", "limit"}
        PROVE  d # c /\ tx'[d] = tx[d] /\ Owns(F, tx[d])
    <3>1. d # c /\ tx'[d] = tx[d]
      BY <1>3, <1>6, <2>3
    <3>2. Owns(E, tx[d]) /\ tx[d].xid # 0
      BY <1>1, <2>3, <3>1 DEF Written, E, Types, Transaction, Staged
    <3>3. Current(tx[d]).id \in DOMAIN F
      <4>1. E[Current(tx[d]).id].insert_xid # x
        BY <1>7, <3>1, <3>2 DEF Owns
      <4> QED BY <1>2, <3>2, <4>1 DEF Owns, gone, E
    <3> QED BY <1>2, <3>1, <3>2, <3>3 DEF Owns
  <2>4. ASSUME NEW id \in DOMAIN F, NEW n, Holds(db, id, n) PROVE Holds(db', id, n)
    <3>1. id \notin gone /\ db'.entries[id].content_hash = db.entries[id].content_hash
      BY <1>2, <1>9 DEF E, F
    <3>2. \A k : k[1] = id => (k \in DOMAIN db'.postings <=> k \in DOMAIN db.postings)
      BY <1>2, <3>1
    <3>3. \A k \in DOMAIN db.postings : k[1] = id => db'.postings[k] = db.postings[k]
      BY <1>2, <3>1
    <3>4. \A d : d.entry_id = id => (d \in db'.posting_dimensions <=> d \in db.posting_dimensions)
      BY <1>2, <3>1
    <3> QED BY <2>4, <3>1, <3>2, <3>3, <3>4, HoldsSame
  <2>5. \A d \in Clients : tx'[d].pc = "post" => Holds(db', Current(tx'[d]).id, tx'[d].posted)
    BY <2>3, <2>4 DEF Written, Owns
  <2>6. ASSUME NEW id \in DOMAIN F,
               \A d \in Clients : tx'[d].pc = "post" => Current(tx'[d]).id # id
        PROVE  Holds(db', id, Len(F[id].content_hash.postings))
    <3>1. \A d \in Clients : tx[d].pc = "post" => Current(tx[d]).id # id
      <4> SUFFICES ASSUME NEW d \in Clients, tx[d].pc = "post" PROVE Current(tx[d]).id # id
        OBVIOUS
      <4>1. CASE d # c
        BY <1>3, <2>6, <4>1
      <4>2. CASE d = c
        <5>1. Owns(db.entries, tx[c])
          BY <4>2 DEF Written
        <5>2. E[Current(tx[c]).id].insert_xid = x
          BY <5>1 DEF Owns, E, x
        <5> QED BY <1>9, <4>2, <5>2
      <4> QED BY <4>1, <4>2
    <3>2. Holds(db, id, Len(E[id].content_hash.postings))
      BY <1>9, <3>1 DEF Written, E
    <3> QED BY <1>2, <2>4, <3>2
  <2> QED BY <2>1, <2>2, <2>3, <2>5, <2>6 DEF Written, F
<1>12. ReversalsInv'
  <2> USE DEF IInv
  <2>1. \A a, b \in DOMAIN F : F[a].reverses = F[b].reverses /\ F[a].reverses # None => a = b
    BY <1>2, <1>9 DEF ReversalsInv, E
  <2>2. ASSUME NEW y, NEW o, NEW e, y # x \/ x = 0, Reverses(E, Running, y, o, e)
        PROVE  Reverses(F, Running', y, o, e)
    BY <1>2, <1>8, <2>2 DEF Reverses
  <2>3. ASSUME NEW id \in DOMAIN F, F[id].reverses # None
        PROVE  Reverses(F, Running', F[id].insert_xid, F[id].reverses, F[id].content_hash)
    <3>1. F[id] = E[id] /\ id \in DOMAIN E /\ E[id].insert_xid # x
      BY <1>2, <1>9
    <3>2. Reverses(E, Running, E[id].insert_xid, E[id].reverses, E[id].content_hash)
      BY <2>3, <3>1 DEF ReversalsInv, E
    <3> QED BY <2>2, <3>1, <3>2
  <2>4. ASSUME NEW d \in Clients, tx'[d].pc \in {"xid", "insert"}, Current(tx'[d]).reverses # None
        PROVE  Reverses(F, Running', tx'[d].xid, Current(tx'[d]).reverses, Current(tx'[d]))
    <3>1. d # c /\ tx'[d] = tx[d]
      BY <1>3, <1>6, <2>4
    <3>2. Reverses(E, Running, tx[d].xid, Current(tx[d]).reverses, Current(tx[d]))
      BY <2>4, <3>1 DEF ReversalsInv, E
    <3> QED BY <1>7, <2>2, <3>1, <3>2
  <2> QED BY <2>1, <2>3, <2>4 DEF ReversalsInv, F
<1>13. AnswersInv'
  <2> USE DEF IInv
  <2>1. ASSUME NEW y, NEW a, y # x \/ x = 0, Right(E, Running, y, a)
        PROVE  Right(F, Running', y, a)
    BY <1>2, <1>8, <2>1 DEF Right
  <2>2. \A a \in answers' : Right(F, Running', 0, a)
    BY <1>4, <2>1 DEF AnswersInv, E
  <2>3. ASSUME NEW d \in Clients, NEW n \in DOMAIN tx'[d].out
        PROVE  Right(F, Running', tx'[d].xid, tx'[d].out[n])
    <3>1. d # c /\ tx'[d] = tx[d]
      BY <1>3, <1>6
    <3>2. Right(E, Running, tx[d].xid, tx[d].out[n])
      BY <3>1 DEF AnswersInv, E
    <3> QED BY <1>7, <2>1, <3>1, <3>2
  <2> QED BY <2>2, <2>3 DEF AnswersInv, F
<1>14. Order'
  <2>1. Inline' = Inline
    BY <1>4 DEF Inline
  <2>2. CASE ~Inline
    <3>1. Deferred
      BY <2>2 DEF IInv, Order
    <3>2. lock' = lock
      BY <1>4, <3>1 DEF Deferred, Release
    <3>3. \A d \in Clients : tx'[d].pc # "begin"
      BY <1>3, <1>6, <3>1 DEF Deferred
    <3>4. \A id \in DOMAIN E : E[id].insert_xid \in Nat \ {0}
      BY <1>1 DEF Types, IsDb, IsRow, E
    <3>5. x # 0 => x \in Running /\ x \in Nat
      BY <1>3 DEF Running, x
    <3>6. ASSUME NEW id \in DOMAIN E, \A y \in Running : E[id].insert_xid < y PROVE id \in DOMAIN F
      <4>1. E[id].insert_xid # x
        BY <3>4, <3>5, <3>6
      <4> QED BY <1>2, <4>1 DEF gone, E
    <3>7. Placed(db') = Placed(db)
      <4>1. \A id \in Placed(db) : id \in DOMAIN F
        BY <3>1, <3>6 DEF Deferred, Placed, E
      <4> QED BY <1>2, <4>1 DEF Placed, E, F
    <3>8. \A id \in Placed(db) : F[id] = E[id]
      BY <1>2, <3>7 DEF Placed, F
    <3>9. Waits(db') \subseteq Waits(db)
      BY <1>2, <3>7 DEF Waits, E, F
    <3>10. Dense(F, Placed(db'), db'.log_subtrees)
      BY <1>2, <3>1, <3>7, <3>8, DenseSame DEF Deferred, E
    <3>11. \A id \in Placed(db'), y \in Running' : F[id].insert_xid < y
      BY <1>2, <3>1, <3>7, <3>8 DEF Deferred, E
    <3>12. \A b \in Waits(db') : F[b] = E[b]
      BY <1>2 DEF Waits, F
    <3>13. \A a \in Placed(db'), b \in Waits(db') : Before(F, a, b)
      BY <3>1, <3>7, <3>8, <3>9, <3>12 DEF Deferred, Before, E
    <3>14. lock' \in Sequencers => PassInv'
      <4> SUFFICES ASSUME lock' \in Sequencers PROVE PassInv'
        OBVIOUS
      <4>1. PassInv
        BY <3>1, <3>2 DEF Deferred
      <4>2. ASSUME NEW n \in DOMAIN pass
            PROVE  pass[n] \in Waits(db') /\ F[pass[n]] = E[pass[n]]
        <5>1. pass[n] \in Waits(db) /\ \A y \in Running : E[pass[n]].insert_xid < y
          BY <4>1 DEF PassInv, E
        <5>2. pass[n] \in DOMAIN F
          BY <3>6, <5>1 DEF Waits, E
        <5> QED BY <1>2, <3>7, <5>1, <5>2 DEF Waits, F
      <4>3. \A n \in DOMAIN pass : \A y \in Running' : F[pass[n]].insert_xid < y
        BY <1>2, <4>1, <4>2 DEF PassInv, E
      <4>4. \A n \in DOMAIN pass : \A b \in Waits(db') :
                b \in Range(pass) \/ Before(F, pass[n], b)
        BY <3>9, <3>12, <4>1, <4>2 DEF PassInv, Before, E
      <4> QED BY <1>4, <4>1, <4>2, <4>3, <4>4 DEF PassInv, F
    <3>15. Deferred'
      BY <3>1, <3>2, <3>3, <3>10, <3>11, <3>13, <3>14 DEF Deferred, F
    <3> QED BY <2>1, <2>2, <3>15 DEF Order
  <2>3. CASE Inline
    <3>1. InlineInv
      BY <2>3 DEF IInv, Order
    <3>2. Sees(F, Running', 0) = Sees(E, Running, 0)
      BY <1>2
    <3>3. \A id \in Sees(E, Running, 0) : F[id] = E[id]
      BY <1>2, <1>8
    <3>4. Dense(F, Sees(F, Running', 0), db'.log_subtrees)
      BY <1>2, <3>1, <3>2, <3>3, DenseSame DEF InlineInv, E
    <3>5. /\ commits' \in [1..Len(db'.log_subtrees) -> Sees(F, Running', 0)]
          /\ \A n \in DOMAIN commits' : F[commits'[n]].log_index = n
      BY <1>2, <1>4, <3>1, <3>2, <3>3 DEF InlineInv, E
    <3>6. /\ lock' \notin Sequencers
          /\ \A d \in Clients : lock' = d <=> tx'[d].pc \notin {"idle", "begin"}
      <4>1. CASE lock = c
        <5>1. lock' = None
          BY <1>4, <4>1 DEF Release
        <5> QED BY <1>3, <1>6, <3>1, <4>1, <5>1, ActorsDiffer DEF InlineInv
      <4>2. CASE lock # c
        <5>1. lock' = lock
          BY <1>4, <4>2 DEF Release
        <5> QED BY <1>3, <1>6, <3>1, <4>2, <5>1 DEF InlineInv
      <4> QED BY <4>1, <4>2
    <3>7. ASSUME NEW d \in Clients, lock' = d PROVE Continues(tx'[d], db')
      <4>1. lock = d /\ d # c
        BY <1>3, <1>4, <1>6, <3>6, <3>7, ActorsDiffer DEF Release
      <4>2. tx[c].pc \in {"idle", "begin"}
        BY <3>1, <4>1 DEF InlineInv
      <4>3. x = 0
        BY <1>1, <4>2, EarlyIs DEF x, Types
      <4>4. F = E /\ db'.log_subtrees = db.log_subtrees /\ tx'[d] = tx[d]
        BY <1>2, <1>3, <4>1, <4>3
      <4>5. Continues(tx[d], db)
        BY <3>1, <4>1 DEF InlineInv
      <4> QED BY <4>4, <4>5 DEF Continues, E, F
    <3>8. InlineInv'
      BY <3>4, <3>5, <3>6, <3>7 DEF InlineInv, F
    <3> QED BY <2>1, <2>3, <3>8 DEF Order
  <2> QED BY <2>2, <2>3
<1> QED BY <1>5, <1>10, <1>11, <1>12, <1>13, <1>14 DEF IInv

-----------------------------------------------------------------------------
(***************************************************************************)
(* What is read back of an entry.                                          *)
(***************************************************************************)
\* A posting comes back from its row and its axes.
LEMMA PostingRoundTrip ==
    ASSUME NEW p \in Posting
    PROVE  [build_posting(posting_row(p)) EXCEPT !.dimensions = p.dimensions] = p
<1>1. p = [account |-> p.account, direction |-> p.direction, amount |-> p.amount,
           currency |-> p.currency, layer |-> p.layer, dimensions |-> p.dimensions]
  BY DEF Posting
<1>2. direction_from(direction_str(p.direction)) = p.direction
  BY DEF Posting, Direction, direction_from, direction_str
<1>3. layer_from(layer_str(p.layer)) = p.layer
  BY DEF Posting, Layer, layer_from, layer_str
<1>4. build_posting(posting_row(p)) =
        [account |-> p.account, direction |-> p.direction, amount |-> p.amount,
         currency |-> p.currency, layer |-> p.layer, dimensions |-> {}]
  BY <1>2, <1>3 DEF build_posting, posting_row
<1> QED BY <1>1, <1>4

\* The postings of a row that holds them all are those it was given.
LEMMA LoadedPostings ==
    ASSUME NEW t, NEW id, NEW p \in Seq(Posting), p = t.entries[id].content_hash.postings,
           Holds(t, id, Len(p))
    PROVE  load_postings_for(t, id) = p
<1> DEFINE S == Posting
           keys == {k \in DOMAIN t.postings : k[1] = id}
<1>1. p \in Seq(S)
  OBVIOUS
<1> HIDE DEF S
<1>2. p = [i \in 1..Len(p) |-> p[i]] /\ \A i \in 1..Len(p) : p[i] \in Posting
  BY <1>1 DEF S
<1>3. {k[2] : k \in keys} = 1..Len(p)
  <2>1. \A k \in keys : k[2] \in 1..Len(p)
    BY DEF Holds
  <2>2. \A i \in 1..Len(p) : <<id, i>> \in keys /\ <<id, i>>[2] = i
    BY DEF Holds
  <2> HIDE DEF keys
  <2> QED BY <2>1, <2>2
<1>4. ASSUME NEW i \in 1..Len(p)
      PROVE  [build_posting(t.postings[<<id, i>>]) EXCEPT !.dimensions = dimensions_from(t, id, i)] = p[i]
  <2>1. t.postings[<<id, i>>] = posting_row(p[i]) /\ dimensions_from(t, id, i) = p[i].dimensions
    BY DEF Holds
  <2> QED BY <1>2, <2>1, PostingRoundTrip
<1>5. load_postings_for(t, id) =
        [i \in 1..Len(p) |->
            [build_posting(t.postings[<<id, i>>]) EXCEPT !.dimensions = dimensions_from(t, id, i)]]
  BY <1>3, Zenon DEF load_postings_for
<1>6. load_postings_for(t, id) = [i \in 1..Len(p) |-> p[i]]
  BY <1>4, <1>5, Zenon
<1> QED BY <1>2, <1>6

\* A row that is seen, and not being written by whoever sees it, is read whole.
LEMMA ReadsWhole ==
    ASSUME IInv, NEW xid, NEW id \in Sees(db.entries, Running, xid),
           \A c \in Clients : tx[c].xid = xid => tx[c].pc # "post"
    PROVE  load_postings_for(Seen(xid), id) = db.entries[id].content_hash.postings
<1> DEFINE p == db.entries[id].content_hash.postings
<1>1. IsDb(db) /\ id \in DOMAIN db.entries
  BY DEF IInv, Types, Sees
<1>2. p \in Seq(Posting)
  BY <1>1, RowIs DEF IsDb
<1>3. ASSUME NEW c \in Clients, tx[c].pc = "post" PROVE Current(tx[c]).id # id
  <2>1. Owns(db.entries, tx[c]) /\ tx[c].xid # 0
    BY <1>3 DEF IInv, Written, Types, Transaction, Staged
  <2>2. tx[c].xid # xid /\ tx[c].xid \in Running
    BY <1>3, <2>1 DEF Running
  <2> QED BY <2>1, <2>2 DEF Owns, Sees
<1>4. Holds(db, id, Len(p))
  BY <1>1, <1>3 DEF IInv, Written
<1>5. Seen(xid).entries[id] = db.entries[id]
  BY <1>1, SeenIs
<1>6. Holds(Seen(xid), id, Len(p))
  <2> DEFINE u == Seen(xid)
  <2>1. \A k : k[1] = id => (k \in DOMAIN u.postings <=> k \in DOMAIN db.postings)
    BY <1>1, SeenIs
  <2>2. \A k \in DOMAIN db.postings : k[1] = id => u.postings[k] = db.postings[k]
    BY <1>1, SeenIs
  <2>3. u.posting_dimensions = db.posting_dimensions
    BY <1>1, SeenIs
  <2> HIDE DEF u, p
  <2> QED BY <1>4, <1>5, <2>1, <2>2, <2>3, HoldsSame DEF u
<1> QED BY <1>2, <1>5, <1>6, LoadedPostings

-----------------------------------------------------------------------------
\* A duplicate identifier ends the transaction, and nothing is written otherwise.
LEMMA CheckIdIInv ==
    ASSUME IInv, NEW c \in Clients, CheckId(c)
    PROVE  IInv'
<1>1. CASE Clashes(Seen(tx[c].xid), Entry(c))
  BY <1>1, RollbackIInv DEF CheckId
<1>2. CASE ~Clashes(Seen(tx[c].xid), Entry(c))
  <2> DEFINE pc == IF Entry(c).reverses = None THEN "xid" ELSE "reversal"
  <2>1. /\ pc \in {"xid", "reversal"} /\ tx[c].pc = "id"
        /\ pc = "xid" => Entry(c).reverses = None
        /\ tx' = [tx EXCEPT ![c].pc = pc]
        /\ UNCHANGED <<setup, db, lock, pass, next_xid, begun, answers, commits>>
    BY <1>2 DEF CheckId
  <2> HIDE DEF pc
  <2> QED BY <2>1, LooksIInv
<1> QED BY <1>1, <1>2

\* What check_reversal sees, the transaction may reverse.
LEMMA CheckReversalIInv ==
    ASSUME IInv, NEW c \in Clients, CheckReversal(c)
    PROVE  IInv'
<1> DEFINE t == Seen(tx[c].xid)
           e == Entry(c)
<1>1. CASE ~check_reversal(t, e)
  BY <1>1, RollbackIInv DEF CheckReversal
<1>2. CASE check_reversal(t, e)
  <2>1. /\ tx[c].pc = "reversal" /\ tx' = [tx EXCEPT ![c].pc = "xid"]
        /\ UNCHANGED <<setup, db, lock, pass, next_xid, begun, answers, commits>>
    BY <1>2 DEF CheckReversal
  <2>2. IsDb(db)
    BY DEF IInv, Types
  <2>3. /\ e.reverses \in Sees(db.entries, Running, tx[c].xid)
        /\ t.entries[e.reverses] = db.entries[e.reverses]
    BY <1>2, <2>2, SeenIs DEF check_reversal
  <2>4. \A d \in Clients : tx[d].xid = tx[c].xid => tx[d].pc # "post"
    <3> SUFFICES ASSUME NEW d \in Clients, tx[d].xid = tx[c].xid, tx[d].pc = "post" PROVE FALSE
      OBVIOUS
    <3>1. tx[d].xid # 0
      BY DEF IInv, Types, Transaction, Staged
    <3> QED BY <2>1, <3>1 DEF IInv, Identifiers
  <2>5. load_postings_for(t, e.reverses) = db.entries[e.reverses].content_hash.postings
    BY <2>3, <2>4, ReadsWhole
  <2>6. is_inversion_of(db.entries[e.reverses].content_hash, e)
    <3> DEFINE q == load_postings_for(t, e.reverses)
    <3>1. is_inversion_of([postings |-> q], e)
      BY <1>2 DEF check_reversal
    <3> HIDE DEF q
    <3>2. [postings |-> q].postings = q
      OBVIOUS
    <3> QED BY <2>5, <3>1, <3>2 DEF is_inversion_of, q
  <2>7. Reverses(db.entries, Running, tx[c].xid, e.reverses, e)
    BY <1>2, <2>3, <2>6 DEF Reverses, check_reversal
  <2> QED BY <2>1, <2>7, LooksIInv
<1> QED BY <1>1, <1>2

-----------------------------------------------------------------------------
(***************************************************************************)
(* A new row.                                                              *)
(***************************************************************************)
\* The prefix of a sequence.
LEMMA SubSeqIs ==
    ASSUME NEW S, NEW s \in Seq(S), NEW n \in 0..Len(s)
    PROVE  SubSeq(s, 1, n) = [i \in 1..n |-> s[i]]
<1>1. SubSeq(s, 1, n) \in Seq(S) /\ Len(SubSeq(s, 1, n)) = n
  OBVIOUS
<1>2. \A i \in 1..n : SubSeq(s, 1, n)[i] = s[i]
  OBVIOUS
<1>3. SubSeq(s, 1, n) = [i \in 1..n |-> SubSeq(s, 1, n)[i]]
  BY <1>1
<1> QED BY <1>2, <1>3

\* A prefix of a sequence is a prefix of what continues it.
LEMMA PrefixOf ==
    ASSUME NEW S, NEW s \in Seq(S), NEW r \in Seq(S)
    PROVE  /\ s \o r \in Seq(S) /\ Len(s \o r) = Len(s) + Len(r)
           /\ Len(s) \in Nat /\ Len(r) \in Nat
           /\ \A n \in 1..Len(s) : /\ (s \o r)[n] = s[n]
                                   /\ SubSeq(s \o r, 1, n) = SubSeq(s, 1, n)
           /\ \A n \in 1..Len(r) : (s \o r)[Len(s) + n] = r[n]
<1>1. /\ s \o r \in Seq(S) /\ Len(s \o r) = Len(s) + Len(r)
      /\ Len(s) \in Nat /\ Len(r) \in Nat
      /\ \A n \in 1..Len(s) : (s \o r)[n] = s[n]
  OBVIOUS
<1>2. \A n \in 1..Len(r) : (s \o r)[Len(s) + n] = r[n]
  OBVIOUS
<1>3. ASSUME NEW n \in 1..Len(s) PROVE SubSeq(s \o r, 1, n) = SubSeq(s, 1, n)
  <2>1. /\ SubSeq(s, 1, n) = [i \in 1..n |-> s[i]]
        /\ SubSeq(s \o r, 1, n) = [i \in 1..n |-> (s \o r)[i]]
    BY <1>1, SubSeqIs
  <2>2. \A i \in 1..n : (s \o r)[i] = s[i]
    BY <1>1
  <2> QED BY <2>1, <2>2
<1> QED BY <1>1, <1>2, <1>3

\* The rows `now` are the rows `ids` and, after the log, those of `rows`.
Grown(old, new, ids, now, log, more, rows) ==
    /\ ids \subseteq now /\ \A id \in ids : new[id] = old[id]
    /\ \A id \in now : id \in ids \/ \E n \in 1..Len(more) : id = rows[n]
    /\ \A n \in 1..Len(more) :
          /\ rows[n] \in now
          /\ new[rows[n]].log_index = Len(log) + n
          /\ new[rows[n]].content_hash = more[n]
          /\ new[rows[n]].tree_root = SubSeq(log \o more, 1, Len(log) + n)

\* Rows that continue a dense log.
LEMMA DenseGrows ==
    ASSUME NEW old, NEW new, NEW ids, NEW now, NEW S, NEW log \in Seq(S), NEW more \in Seq(S),
           NEW rows, Dense(old, ids, log), Grown(old, new, ids, now, log, more, rows)
    PROVE  Dense(new, now, log \o more)
<1> DEFINE all == log \o more
           a == Len(log)
           b == Len(more)
<1>1. /\ a \in Nat /\ b \in Nat /\ Len(all) = a + b
      /\ \A n \in 1..a : all[n] = log[n] /\ SubSeq(all, 1, n) = SubSeq(log, 1, n)
      /\ \A n \in 1..b : all[a + n] = more[n]
  BY PrefixOf
<1>2. \A n \in 1..b : /\ new[rows[n]].log_index = a + n /\ new[rows[n]].content_hash = more[n]
                       /\ new[rows[n]].tree_root = SubSeq(all, 1, a + n)
  BY DEF Grown
<1> DEFINE added == {rows[n] : n \in 1..b}
<1>3. now = ids \cup added
  BY DEF Grown
<1>4. Dense(new, ids, log)
  BY DenseSame DEF Grown
<1>5. \A id \in ids : /\ new[id].log_index \in 1..a /\ new[id].content_hash = log[new[id].log_index]
                       /\ new[id].tree_root = SubSeq(log, 1, new[id].log_index)
  BY <1>4 DEF Dense
<1>6. \A n \in 1..a : \E id \in ids : new[id].log_index = n
  BY <1>4 DEF Dense
<1>7. \A i, j \in ids : new[i].log_index = new[j].log_index => i = j
  BY <1>4 DEF Dense
<1> HIDE DEF all, a, b
<1>8. \A n \in 1..b : a + n \in 1..(a + b)
  BY <1>1
<1>9. \A n \in 1..a : n \in 1..(a + b)
  BY <1>1
<1>10. ASSUME NEW id \in ids \cup added
      PROVE  /\ new[id].log_index \in 1..Len(all) /\ new[id].content_hash = all[new[id].log_index]
             /\ new[id].tree_root = SubSeq(all, 1, new[id].log_index)
  <2>1. CASE id \in ids
    BY <1>1, <1>5, <1>9, <2>1
  <2>2. CASE id \in added
    BY <1>1, <1>2, <1>8, <2>2, SMTT(30)
  <2> QED BY <2>1, <2>2
<1>11. ASSUME NEW k \in 1..Len(all) PROVE \E id \in ids \cup added : new[id].log_index = k
  <2>1. CASE k <= a
    <3>1. k \in 1..a
      BY <1>1, <2>1
    <3> QED BY <1>6, <3>1
  <2>2. CASE ~(k <= a)
    <3>1. k - a \in 1..b /\ a + (k - a) = k
      BY <1>1, <2>2
    <3> QED BY <1>2, <3>1
  <2> QED BY <2>1, <2>2
<1>12. ASSUME NEW i \in ids \cup added, NEW j \in ids \cup added, new[i].log_index = new[j].log_index
       PROVE  i = j
  <2>1. \A m \in added : \E n \in 1..b : m = rows[n] /\ new[m].log_index = a + n
    BY <1>2
  <2>2. \A m \in added : new[m].log_index \in Int /\ new[m].log_index > a
    BY <1>1, <2>1
  <2>3. \A m \in ids : new[m].log_index \in Int /\ ~(new[m].log_index > a)
    BY <1>1, <1>5
  <2>4. CASE i \in ids /\ j \in ids
    BY <1>7, <1>12, <2>4
  <2>5. CASE i \in added /\ j \in added
    <3>1. PICK m \in 1..b : i = rows[m] /\ new[i].log_index = a + m
      BY <2>1, <2>5
    <3>2. PICK n \in 1..b : j = rows[n] /\ new[j].log_index = a + n
      BY <2>1, <2>5
    <3>3. m = n
      BY <1>1, <1>12, <3>1, <3>2
    <3> QED BY <3>1, <3>2, <3>3
  <2>6. CASE (i \in ids /\ j \in added) \/ (i \in added /\ j \in ids)
    BY <1>12, <2>2, <2>3, <2>6
  <2> QED BY <2>4, <2>5, <2>6
<1> HIDE DEF added
<1>13. Dense(new, now, all)
  BY <1>3, <1>10, <1>11, <1>12 DEF Dense
<1> QED BY <1>13 DEF all

\* Nobody else has the identifier, or reverses the same entry, not even a
\* transaction that still runs: the INSERT would have waited for it.
LEMMA InsertIsFree ==
    ASSUME Types, NEW c \in Clients, tx[c].pc = "insert", InsertWaits(c) = {},
           UniqueHolds(Seen(tx[c].xid), Entry(c))
    PROVE  /\ Entry(c).id \notin DOMAIN db.entries
           /\ Entry(c).reverses # None =>
                 \A id \in DOMAIN db.entries : db.entries[id].reverses # Entry(c).reverses
<1>1. IsDb(db)
  BY DEF Types
<1>2. ASSUME NEW id \in DOMAIN db.entries, id \notin Sees(db.entries, Running, tx[c].xid)
      PROVE  \E d \in Others(c) : db.entries[id].insert_xid = tx[d].xid
  <2>1. db.entries[id].insert_xid \in Running /\ db.entries[id].insert_xid # tx[c].xid
    BY <1>2 DEF Sees
  <2>2. PICK d \in Clients : db.entries[id].insert_xid = tx[d].xid /\ tx[d].xid # 0
    BY <2>1 DEF Running
  <2> QED BY <2>1, <2>2 DEF Others
<1>3. Entry(c).id \notin DOMAIN db.entries
  <2> SUFFICES ASSUME Entry(c).id \in DOMAIN db.entries PROVE FALSE
    OBVIOUS
  <2>1. Entry(c).id \notin Sees(db.entries, Running, tx[c].xid)
    BY <1>1, SeenIs DEF UniqueHolds
  <2> QED BY <1>2, <2>1 DEF InsertWaits
<1>4. ASSUME Entry(c).reverses # None, NEW id \in DOMAIN db.entries
      PROVE  db.entries[id].reverses # Entry(c).reverses
  <2> SUFFICES ASSUME db.entries[id].reverses = Entry(c).reverses PROVE FALSE
    OBVIOUS
  <2>1. id \notin Sees(db.entries, Running, tx[c].xid)
    <3>1. ReversalOf(Seen(tx[c].xid), Entry(c).reverses) = {}
      BY <1>4 DEF UniqueHolds
    <3> QED BY <1>1, <3>1, SeenIs DEF ReversalOf
  <2> QED BY <1>2, <1>4, <2>1 DEF InsertWaits
<1> QED BY <1>3, <1>4

\* The tables with one row more.
LEMMA InsertIs ==
    ASSUME NEW t, NEW u, IsDb(t), NEW e \in Submitted, NEW x \in Nat \ {0}, NEW index \in Nat, NEW root,
           e.id \notin DOMAIN t.entries, u = insert_entry(t, e, x, index, root)
    PROVE  /\ IsDb(u) /\ u.log_subtrees = t.log_subtrees /\ u.postings = t.postings
           /\ u.posting_dimensions = t.posting_dimensions
           /\ DOMAIN u.entries = DOMAIN t.entries \cup {e.id}
           /\ \A id \in DOMAIN t.entries : u.entries[id] = t.entries[id]
           /\ u.entries[e.id] = entry_row(e, x, index, root)
<1> DEFINE row == entry_row(e, x, index, root)
           F == Insert(t.entries, e.id, row)
<1>1. /\ {"log_index", "tree_root"} \subseteq DOMAIN row
      /\ row.insert_xid = x /\ row.log_index = index /\ row.tree_root = root
      /\ row.content_hash = content_hash(e) /\ row.reverses = e.reverses
      /\ row.idempotency_key = e.key
  BY RowOf
<1> HIDE DEF row
<1>2. IsRow(e.id, row)
  BY <1>1 DEF IsRow
<1>3. /\ DOMAIN F = DOMAIN t.entries \cup {e.id} /\ F[e.id] = row
      /\ \A id \in DOMAIN t.entries : F[id] = t.entries[id]
      /\ F = [id \in DOMAIN F |-> F[id]]
  BY DEF Insert
<1> HIDE DEF F
<1>4. u = [t EXCEPT !.entries = F]
  BY DEF insert_entry, F, row
<1>5. u = [entries |-> F, postings |-> t.postings,
             posting_dimensions |-> t.posting_dimensions, log_subtrees |-> t.log_subtrees,
             accounts |-> t.accounts, periods |-> t.periods, seals |-> t.seals,
             clearings |-> t.clearings, checkpoints |-> t.checkpoints]
  BY <1>4 DEF IsDb
<1>6. /\ u.entries = F /\ u.postings = t.postings
      /\ u.posting_dimensions = t.posting_dimensions /\ u.log_subtrees = t.log_subtrees
      /\ u = [entries |-> u.entries, postings |-> u.postings,
            posting_dimensions |-> u.posting_dimensions, log_subtrees |-> u.log_subtrees,
            accounts |-> u.accounts, periods |-> u.periods, seals |-> u.seals,
            clearings |-> u.clearings, checkpoints |-> u.checkpoints]
  BY <1>5
<1>7. IsFiniteSet(DOMAIN F)
  BY <1>3, FS_AddElement DEF IsDb
<1>8. \A id \in DOMAIN F : IsRow(id, F[id])
  BY <1>2, <1>3 DEF IsDb
<1>9. IsDb(u)
  BY <1>3, <1>6, <1>7, <1>8 DEF IsDb
<1> QED BY <1>3, <1>6, <1>9 DEF row

\* A new row, in its place.
LEMMA InsertIInv ==
    ASSUME IInv, NEW c \in Clients, tx[c].pc = "insert", InsertWaits(c) = {},
           UniqueHolds(Seen(tx[c].xid), Entry(c)),
           db' = insert_entry(db, Entry(c), tx[c].xid, IF Inline THEN tx[c].next ELSE Null,
                              IF Inline THEN Append(tx[c].acc, content_hash(Entry(c))) ELSE <<>>),
           tx' = [tx EXCEPT ![c].pc = "post", ![c].mine = Append(@, Entry(c).id)],
           UNCHANGED <<setup, lock, pass, next_xid, begun, answers, commits>>
    PROVE  IInv'
<1> DEFINE e == Entry(c)
           x == tx[c].xid
           E == db.entries
           F == db'.entries
           hash == content_hash(e)
           index == IF Inline THEN tx[c].next ELSE Null
           root == IF Inline THEN Append(tx[c].acc, hash) ELSE <<>>
<1>1. Types /\ Identifiers /\ IsDb(db)
  BY DEF IInv, Types
<1>2. PICK t : /\ Moves(c, t) /\ t.pc = "post" /\ t.xid = x /\ x # 0
               /\ t.out = tx[c].out /\ t.acc = tx[c].acc /\ t.next = tx[c].next
               /\ t.mine = Append(tx[c].mine, e.id) /\ t.posted = 0
               /\ Current(t) = e /\ e \in Submitted
  BY <1>1, InsertMoves
<1>3. /\ tx' \in [Clients -> Transaction] /\ tx'[c] = t /\ tx[c] \in Tx
      /\ \A d \in Clients : d # c => tx'[d] = tx[d]
  BY <1>1, <1>2, MovedIs
<1>4. x \in Nat \ {0} /\ index \in Nat /\ x \in Running
  BY <1>2, <1>3 DEF Tx, Null, Running
<1>5. /\ e.id \notin DOMAIN E
      /\ e.reverses # None => \A id \in DOMAIN E : E[id].reverses # e.reverses
  BY <1>1, InsertIsFree
<1>6. /\ IsDb(db') /\ db'.log_subtrees = db.log_subtrees /\ db'.postings = db.postings
      /\ db'.posting_dimensions = db.posting_dimensions
      /\ DOMAIN F = DOMAIN E \cup {e.id} /\ \A id \in DOMAIN E : F[id] = E[id]
      /\ F[e.id].insert_xid = x /\ F[e.id].log_index = index /\ F[e.id].tree_root = root
      /\ F[e.id].content_hash = hash /\ F[e.id].reverses = e.reverses
  <2>1. db' = insert_entry(db, e, x, index, root)
    OBVIOUS
  <2> HIDE DEF index, root, e, x
  <2>2. /\ IsDb(db') /\ db'.log_subtrees = db.log_subtrees /\ db'.postings = db.postings
        /\ db'.posting_dimensions = db.posting_dimensions
        /\ DOMAIN F = DOMAIN E \cup {e.id} /\ \A id \in DOMAIN E : F[id] = E[id]
    BY <1>1, <1>2, <1>4, <1>5, <2>1, InsertIs, SMTT(30)
  <2>3. F[e.id] = entry_row(e, x, index, root)
    <3> DEFINE row == entry_row(e, x, index, root)
    <3> HIDE DEF row
    <3>1. db' = [db EXCEPT !.entries = Insert(@, e.id, row)]
      BY <2>1 DEF insert_entry, row
    <3>2. F = Insert(E, e.id, row)
      BY <1>1, <3>1 DEF IsDb
    <3>3. F[e.id] = row
      BY <3>2 DEF Insert
    <3> QED BY <3>3 DEF row
  <2> DEFINE row == entry_row(e, x, index, root)
  <2>4. /\ row.insert_xid = x /\ row.log_index = index /\ row.tree_root = root
        /\ row.content_hash = hash /\ row.reverses = e.reverses
    BY RowOf
  <2>5. F[e.id] = row
    BY <2>3
  <2> HIDE DEF row, F, E, hash
  <2> QED BY <2>2, <2>4, <2>5 DEF F, E
<1>7. Inline' = Inline
  BY DEF Inline
<1>8. /\ Inline => index = tx[c].next /\ root = Append(tx[c].acc, hash)
      /\ ~Inline => index = Null
  OBVIOUS
<1>9. content_hash(e).postings = e.postings /\ hash \in Hash /\ e.id \in Nat
  BY <1>2, SubmittedIs
<1> HIDE DEF E, F, e, x, hash, index, root
<1>10. Running' = Running
  <2>1. \A d \in Clients : tx'[d].xid = tx[d].xid
    BY <1>2, <1>3 DEF x
  <2> QED BY <2>1 DEF Running
<1>11. /\ \A y : Sees(E, Running, y) \subseteq Sees(F, Running', y)
       /\ \A y : y # x => Sees(F, Running', y) = Sees(E, Running, y)
       /\ e.id \in Sees(F, Running', x)
  BY <1>4, <1>5, <1>6, <1>10 DEF Sees
<1>12. Types'
  BY <1>1, <1>3, <1>6 DEF Types
<1>13. Identifiers'
  <2>1. \A d \in Clients : tx'[d].xid = tx[d].xid
    BY <1>2, <1>3 DEF x
  <2>2. \A id \in DOMAIN F : F[id].insert_xid < next_xid
    BY <1>1, <1>6 DEF Identifiers, E, x
  <2> QED BY <1>1, <2>1, <2>2, ZenonT(60) DEF Identifiers, F
<1>14. Written'
  <2> USE DEF IInv
  <2>1. /\ \A k \in DOMAIN db'.postings : k[1] \in DOMAIN E /\ k[1] \in DOMAIN F
        /\ \A d \in db'.posting_dimensions : d.entry_id \in DOMAIN E /\ d.entry_id \in DOMAIN F
    BY <1>6 DEF Written, E
  <2>2. ASSUME NEW d \in Clients, tx'[d].pc \in {"post", "limit"} PROVE Owns(F, tx'[d])
    <3>1. CASE d = c
      BY <1>2, <1>3, <1>6, <3>1 DEF Owns, hash
    <3>2. CASE d # c
      <4>1. tx'[d] = tx[d]
        BY <1>3, <3>2
      <4>2. Owns(E, tx[d])
        BY <2>2, <4>1 DEF Written, E
      <4> QED BY <1>6, <4>1, <4>2 DEF Owns
    <3> QED BY <3>1, <3>2
  <2>3. ASSUME NEW id \in DOMAIN E, NEW n, Holds(db, id, n) PROVE Holds(db', id, n)
    <3>1. db'.entries[id].content_hash = db.entries[id].content_hash
      BY <1>6 DEF E, F
    <3> QED BY <1>6, <2>3, <3>1, HoldsSame
  <2>4. Holds(db', e.id, 0)
    <3>1. 1..0 = {}
      OBVIOUS
    <3>2. \A k \in DOMAIN db'.postings : k[1] # e.id
      BY <1>5, <2>1
    <3>3. \A d \in db'.posting_dimensions : d.entry_id # e.id
      BY <1>5, <2>1
    <3> QED BY <3>1, <3>2, <3>3 DEF Holds
  <2>5. ASSUME NEW d \in Clients, tx'[d].pc = "post" PROVE Holds(db', Current(tx'[d]).id, tx'[d].posted)
    <3>1. CASE d = c
      BY <1>2, <1>3, <2>4, <3>1
    <3>2. CASE d # c
      <4>1. tx'[d] = tx[d]
        BY <1>3, <3>2
      <4>2. Holds(db, Current(tx[d]).id, tx[d].posted) /\ Current(tx[d]).id \in DOMAIN E
        BY <2>5, <4>1 DEF Written, Owns, E
      <4> QED BY <2>3, <4>1, <4>2
    <3> QED BY <3>1, <3>2
  <2>6. ASSUME NEW id \in DOMAIN F,
               \A d \in Clients : tx'[d].pc = "post" => Current(tx'[d]).id # id
        PROVE  Holds(db', id, Len(F[id].content_hash.postings))
    <3>1. id # e.id /\ id \in DOMAIN E /\ F[id] = E[id]
      BY <1>2, <1>3, <1>6, <2>6
    <3>2. \A d \in Clients : tx[d].pc = "post" => Current(tx[d]).id # id
      BY <1>3, <2>6
    <3>3. Holds(db, id, Len(E[id].content_hash.postings))
      BY <3>1, <3>2 DEF Written, E
    <3> QED BY <2>3, <3>1, <3>3
  <2> QED BY <2>1, <2>2, <2>5, <2>6 DEF Written, F
<1>15. ReversalsInv'
  <2> USE DEF IInv
  <2>1. ASSUME NEW a \in DOMAIN F, NEW b \in DOMAIN F, F[a].reverses = F[b].reverses, F[a].reverses # None
        PROVE  a = b
    <3>1. CASE a = e.id \/ b = e.id
      BY <1>5, <1>6, <2>1, <3>1
    <3>2. CASE a # e.id /\ b # e.id
      BY <1>6, <2>1, <3>2 DEF ReversalsInv, E
    <3> QED BY <3>1, <3>2
  <2>2. ASSUME NEW y, NEW o, NEW q, Reverses(E, Running, y, o, q)
        PROVE  Reverses(F, Running', y, o, q)
    <3>1. o \in DOMAIN E
      BY <2>2 DEF Reverses, Sees
    <3> QED BY <1>6, <1>11, <2>2, <3>1 DEF Reverses
  <2>3. ASSUME NEW id \in DOMAIN F, F[id].reverses # None
        PROVE  Reverses(F, Running', F[id].insert_xid, F[id].reverses, F[id].content_hash)
    <3>1. CASE id = e.id
      <4>1. Reverses(E, Running, x, e.reverses, e)
        BY <1>6, <2>3, <3>1 DEF ReversalsInv, E, x, e, Current, Entry
      <4>2. Reverses(F, Running', x, e.reverses, e)
        BY <2>2, <4>1
      <4>3. hash.postings = e.postings
        BY <1>9 DEF hash
      <4>4. Reverses(F, Running', x, e.reverses, hash)
        BY <4>2, <4>3 DEF Reverses, is_inversion_of
      <4> QED BY <1>6, <3>1, <4>4
    <3>2. CASE id # e.id
      <4>1. id \in DOMAIN E /\ F[id] = E[id]
        BY <1>6, <3>2
      <4>2. Reverses(E, Running, E[id].insert_xid, E[id].reverses, E[id].content_hash)
        BY <2>3, <4>1 DEF ReversalsInv, E
      <4> QED BY <2>2, <4>1, <4>2
    <3> QED BY <3>1, <3>2
  <2>4. ASSUME NEW d \in Clients, tx'[d].pc \in {"xid", "insert"}, Current(tx'[d]).reverses # None
        PROVE  Reverses(F, Running', tx'[d].xid, Current(tx'[d]).reverses, Current(tx'[d]))
    <3>1. tx'[d] = tx[d]
      BY <1>2, <1>3, <2>4
    <3>2. Reverses(E, Running, tx[d].xid, Current(tx[d]).reverses, Current(tx[d]))
      BY <2>4, <3>1 DEF ReversalsInv, E
    <3> QED BY <2>2, <3>1, <3>2
  <2> QED BY <2>1, <2>3, <2>4 DEF ReversalsInv, F
<1>16. AnswersInv'
  <2> USE DEF IInv
  <2>1. ASSUME NEW y, NEW a, Right(E, Running, y, a) PROVE Right(F, Running', y, a)
    <3>1. a.id \in DOMAIN E
      BY <2>1 DEF Right, Sees
    <3> QED BY <1>6, <1>11, <2>1, <3>1 DEF Right
  <2>2. \A a \in answers' : Right(F, Running', 0, a)
    BY <2>1 DEF AnswersInv, E
  <2>3. ASSUME NEW d \in Clients, NEW n \in DOMAIN tx'[d].out
        PROVE  Right(F, Running', tx'[d].xid, tx'[d].out[n])
    <3>1. tx'[d].out = tx[d].out /\ tx'[d].xid = tx[d].xid
      BY <1>2, <1>3 DEF x
    <3>2. Right(E, Running, tx[d].xid, tx[d].out[n])
      BY <3>1 DEF AnswersInv, E
    <3> QED BY <2>1, <3>1, <3>2
  <2> QED BY <2>2, <2>3 DEF AnswersInv, F
<1>17. CASE ~Inline
  <2>1. Deferred
    BY <1>17 DEF IInv, Order
  <2>2. Placed(db') = Placed(db)
    BY <1>5, <1>6, <1>8, <1>17 DEF Placed, E, F
  <2>3. \A id \in Placed(db) : id \in DOMAIN E /\ F[id] = E[id]
    BY <1>6 DEF Placed, E
  <2>4. Waits(db') = Waits(db) \cup {e.id} /\ \A b \in Waits(db) : F[b] = E[b]
    BY <1>5, <1>6, <2>2, <2>3 DEF Waits, E, F
  <2>5. Dense(F, Placed(db'), db'.log_subtrees)
    BY <1>6, <2>1, <2>2, <2>3, DenseSame DEF Deferred, E
  <2>6. \A id \in Placed(db'), y \in Running' : F[id].insert_xid < y
    BY <1>10, <2>1, <2>2, <2>3 DEF Deferred, E
  <2>7. ASSUME NEW a \in Placed(db'), NEW b \in Waits(db') PROVE Before(F, a, b)
    <3>1. CASE b = e.id
      BY <1>4, <1>6, <1>10, <2>6, <3>1 DEF Before
    <3>2. CASE b # e.id
      BY <2>1, <2>2, <2>3, <2>4, <3>2 DEF Deferred, Before, E
    <3> QED BY <3>1, <3>2
  <2>8. lock \in Sequencers => PassInv'
    <3> SUFFICES ASSUME lock \in Sequencers PROVE PassInv'
      OBVIOUS
    <3>1. PassInv
      BY <2>1 DEF Deferred
    <3>2. \A n \in DOMAIN pass : /\ pass[n] \in Waits(db) /\ pass[n] \in Waits(db')
                                 /\ F[pass[n]] = E[pass[n]]
      BY <2>4, <3>1 DEF PassInv
    <3>3. \A n \in DOMAIN pass : \A y \in Running' : F[pass[n]].insert_xid < y
      BY <1>10, <3>1, <3>2 DEF PassInv, E
    <3>4. ASSUME NEW n \in DOMAIN pass, NEW b \in Waits(db')
          PROVE  b \in Range(pass) \/ Before(F, pass[n], b)
      <4>1. CASE b = e.id
        BY <1>4, <1>6, <1>10, <3>3, <4>1 DEF Before
      <4>2. CASE b # e.id
        BY <2>4, <3>1, <3>2, <4>2 DEF PassInv, Before, E
      <4> QED BY <4>1, <4>2
    <3> QED BY <3>1, <3>2, <3>3, <3>4 DEF PassInv, F
  <2>9. \A d \in Clients : tx'[d].pc # "begin"
    BY <1>2, <1>3, <2>1 DEF Deferred
  <2>10. Deferred'
    BY <2>1, <2>5, <2>6, <2>7, <2>8, <2>9 DEF Deferred, F
  <2>11. Order'
    BY <1>7, <1>17, <2>10 DEF Order
  <2> QED BY <1>12, <1>13, <1>14, <1>15, <1>16, <2>11 DEF IInv
<1>18. CASE Inline
  <2>1. InlineInv
    BY <1>18 DEF IInv, Order
  <2>2. lock = c /\ Continues(tx[c], db)
    BY <2>1 DEF InlineInv
  <2>3. /\ Sees(F, Running', 0) = Sees(E, Running, 0)
        /\ \A id \in Sees(E, Running, 0) : F[id] = E[id]
    BY <1>4, <1>6, <1>11 DEF Sees
  <2>4. Dense(F, Sees(F, Running', 0), db'.log_subtrees)
    BY <1>6, <2>1, <2>3, DenseSame DEF InlineInv, E
  <2>5. /\ commits' \in [1..Len(db'.log_subtrees) -> Sees(F, Running', 0)]
        /\ \A n \in DOMAIN commits' : F[commits'[n]].log_index = n
    BY <1>6, <2>1, <2>3 DEF InlineInv, E
  <2>6. \A d \in Clients : lock = d <=> tx'[d].pc \notin {"idle", "begin"}
    BY <1>2, <1>3, <2>1, <2>2 DEF InlineInv
  <2>7. Continues(t, db')
    <3> DEFINE acc == tx[c].acc
               mine == tx[c].mine
               base == Len(db.log_subtrees)
    <3>1. acc \in Seq(Hash) /\ mine \in Seq(Nat) /\ <<hash>> \in Seq(Hash)
      BY <1>3, <1>9 DEF Tx
    <3>2. /\ Dense(E, DOMAIN E, acc) /\ tx[c].next = Len(acc) + 1 /\ Len(acc) = base + Len(mine)
          /\ \A n \in DOMAIN mine : mine[n] \in DOMAIN E /\ E[mine[n]].log_index = base + n
      BY <2>2 DEF Continues, Leaves, E
    <3>3. base \in Nat
      BY <1>1 DEF IsDb
    <3> HIDE DEF acc, mine, base
    <3>4. Append(acc, hash) = acc \o <<hash>> /\ Len(<<hash>>) = 1 /\ <<hash>>[1] = hash
          /\ Len(Append(acc, hash)) = Len(acc) + 1 /\ Len(acc) \in Nat /\ Len(mine) \in Nat
      BY <1>9, <3>1
    <3>5. Leaves(t) = Append(acc, hash)
      BY <1>2 DEF Leaves, hash, acc
    <3>6. SubSeq(acc \o <<hash>>, 1, Len(acc) + 1) = acc \o <<hash>>
      BY <3>1, <3>4
    <3>7. Dense(F, DOMAIN F, Append(acc, hash))
      <4> DEFINE rows == <<e.id>>
      <4>1. rows[1] = e.id
        OBVIOUS
      <4>2. \A n \in 1..Len(<<hash>>) :
              /\ F[rows[n]].log_index = Len(acc) + n
              /\ F[rows[n]].content_hash = <<hash>>[n]
              /\ F[rows[n]].tree_root = SubSeq(acc \o <<hash>>, 1, Len(acc) + n)
        <5> SUFFICES ASSUME NEW n \in 1..1
                     PROVE  /\ F[rows[n]].log_index = Len(acc) + n
                            /\ F[rows[n]].content_hash = <<hash>>[n]
                            /\ F[rows[n]].tree_root = SubSeq(acc \o <<hash>>, 1, Len(acc) + n)
          BY <3>4
        <5>1. n = 1
          OBVIOUS
        <5> HIDE DEF rows
        <5> QED BY <1>6, <1>8, <1>18, <3>2, <3>4, <3>6, <4>1, <5>1 DEF acc
      <4>3. \A id \in DOMAIN E : F[id] = E[id]
        BY <1>6
      <4> DEFINE more == <<hash>>
      <4> HIDE DEF rows
      <4>4. /\ more \in Seq(Hash)
            /\ \A n \in 1..Len(more) :
                  /\ F[rows[n]].log_index = Len(acc) + n
                  /\ F[rows[n]].content_hash = more[n]
                  /\ F[rows[n]].tree_root = SubSeq(acc \o more, 1, Len(acc) + n)
        BY <3>1, <4>2
      <4>5. 1..Len(more) = {1}
        BY <3>4
      <4> HIDE DEF more
      <4>6. /\ DOMAIN E \subseteq DOMAIN F /\ \A n \in 1..Len(more) : rows[n] \in DOMAIN F
            /\ \A id \in DOMAIN F : id \in DOMAIN E \/ \E n \in 1..Len(more) : id = rows[n]
        BY <1>6, <4>1, <4>5
      <4>7. Dense(F, DOMAIN F, acc \o more)
        <5>1. Grown(E, F, DOMAIN E, DOMAIN F, acc, more, rows)
          BY <4>3, <4>4, <4>6 DEF Grown
        <5> QED BY <3>1, <3>2, <4>4, <5>1, DenseGrows
      <4> QED BY <3>4, <4>7 DEF more
    <3>8. Len(Append(mine, e.id)) = Len(mine) + 1 /\ DOMAIN Append(mine, e.id) = 1..(Len(mine) + 1)
          /\ DOMAIN mine = 1..Len(mine)
          /\ (\A n \in 1..Len(mine) : Append(mine, e.id)[n] = mine[n])
          /\ Append(mine, e.id)[Len(mine) + 1] = e.id
      BY <1>9, <3>1
    <3>9. t.mine = Append(mine, e.id) /\ t.acc = acc /\ t.next = Len(acc) + 1
      BY <1>2, <3>2 DEF mine, acc
    <3>10. F[e.id].log_index = Len(acc) + 1
      BY <1>6, <1>8, <1>18, <3>2
    <3>11. ASSUME NEW n \in DOMAIN t.mine
           PROVE  t.mine[n] \in DOMAIN F /\ F[t.mine[n]].log_index = base + n
      <4>1. CASE n \in 1..Len(mine)
        BY <1>6, <3>2, <3>8, <3>9, <4>1
      <4>2. CASE n = Len(mine) + 1
        BY <1>6, <3>2, <3>3, <3>4, <3>8, <3>9, <3>10, <4>2
      <4>3. n \in 1..Len(mine) \/ n = Len(mine) + 1
        BY <3>4, <3>8, <3>9
      <4> QED BY <4>1, <4>2, <4>3
    <3>12. Len(Leaves(t)) = base + Len(t.mine)
      BY <3>2, <3>3, <3>4, <3>5, <3>8, <3>9
    <3> QED BY <1>2, <1>6, <3>5, <3>7, <3>9, <3>10, <3>11, <3>12 DEF Continues, base, F
  <2>8. \A d \in Clients : lock = d => Continues(tx'[d], db')
    BY <1>3, <2>2, <2>7
  <2>9. InlineInv'
    BY <2>1, <2>4, <2>5, <2>6, <2>8 DEF InlineInv, F
  <2>10. Order'
    BY <1>7, <1>18, <2>9 DEF Order
  <2> QED BY <1>12, <1>13, <1>14, <1>15, <1>16, <2>10 DEF IInv
<1> QED BY <1>17, <1>18

\* INSERT replays, refuses or inserts.
LEMMA InsertEntryIInv ==
    ASSUME IInv, NEW c \in Clients, InsertEntry(c)
    PROVE  IInv'
<1> DEFINE t == Seen(tx[c].xid)
<1>1. tx[c].pc = "insert" /\ InsertWaits(c) = {}
  BY DEF InsertEntry
<1>2. CASE KeyHolder(t, Entry(c)) # {}
  <2>1. PICK id \in KeyHolder(t, Entry(c)) : Replay(c, id)
    BY <1>2 DEF InsertEntry
  <2>2. CASE SameContent(t, id, Entry(c))
    BY <1>1, <2>1, <2>2, ReplayIInv
  <2>3. CASE ~SameContent(t, id, Entry(c))
    BY <2>1, <2>3, RollbackIInv DEF Replay
  <2> QED BY <2>2, <2>3
<1>3. CASE KeyHolder(t, Entry(c)) = {} /\ ~UniqueHolds(t, Entry(c))
  BY <1>3, RollbackIInv DEF InsertEntry
<1>4. CASE KeyHolder(t, Entry(c)) = {} /\ UniqueHolds(t, Entry(c))
  BY <1>1, <1>4, InsertIInv DEF InsertEntry
<1> QED BY <1>2, <1>3, <1>4

-----------------------------------------------------------------------------
(***************************************************************************)
(* One posting more.                                                       *)
(***************************************************************************)
\* The axes the i-th posting of an entry is tagged with, as rows.
Axes(e, i) ==
    {[entry_id |-> e.id, posting_index |-> i, axis |-> a] : a \in e.postings[i].dimensions}

\* The tables `u` are the tables `t` with the i-th posting of `e`.
Posted(t, u, e, i) ==
    /\ IsDb(u) /\ u.log_subtrees = t.log_subtrees /\ u.entries = t.entries
    /\ DOMAIN u.postings = DOMAIN t.postings \cup {<<e.id, i>>}
    /\ u.postings[<<e.id, i>>] = posting_row(e.postings[i])
    /\ \A k \in DOMAIN t.postings : k # <<e.id, i>> => u.postings[k] = t.postings[k]
    /\ u.posting_dimensions = t.posting_dimensions \cup Axes(e, i)

\* What insert_posting leaves of the tables.
LEMMA PostingIs ==
    ASSUME NEW t, NEW u, IsDb(t), NEW e, NEW i, u = insert_posting(t, e, i)
    PROVE  Posted(t, u, e, i)
<1> DEFINE P == Insert(t.postings, <<e.id, i>>, posting_row(e.postings[i]))
           D == t.posting_dimensions \cup Axes(e, i)
<1>1. u = [t EXCEPT !.postings = P, !.posting_dimensions = D]
  <2>1. t = [entries |-> t.entries, postings |-> t.postings,
             posting_dimensions |-> t.posting_dimensions, log_subtrees |-> t.log_subtrees,
             accounts |-> t.accounts, periods |-> t.periods, seals |-> t.seals,
             clearings |-> t.clearings, checkpoints |-> t.checkpoints]
    BY DEF IsDb
  <2> QED BY <2>1 DEF insert_posting, Axes
<1>2. /\ DOMAIN P = DOMAIN t.postings \cup {<<e.id, i>>}
      /\ P[<<e.id, i>>] = posting_row(e.postings[i])
      /\ \A k \in DOMAIN t.postings : k # <<e.id, i>> => P[k] = t.postings[k]
  BY DEF Insert
<1> HIDE DEF P, D
<1>3. u = [entries |-> t.entries, postings |-> P,
           posting_dimensions |-> D, log_subtrees |-> t.log_subtrees,
           accounts |-> t.accounts, periods |-> t.periods, seals |-> t.seals,
           clearings |-> t.clearings, checkpoints |-> t.checkpoints]
  BY <1>1 DEF IsDb
<1>4. /\ u.entries = t.entries /\ u.postings = P /\ u.posting_dimensions = D
      /\ u.log_subtrees = t.log_subtrees
      /\ u = [entries |-> u.entries, postings |-> u.postings,
            posting_dimensions |-> u.posting_dimensions, log_subtrees |-> u.log_subtrees,
            accounts |-> u.accounts, periods |-> u.periods, seals |-> u.seals,
            clearings |-> u.clearings, checkpoints |-> u.checkpoints]
  BY <1>3
<1>5. IsDb(u)
  BY <1>4 DEF IsDb
<1> QED BY <1>2, <1>4, <1>5 DEF D, Posted

\* One posting more of the row that is being written, and no other row is touched.
LEMMA PostingHolds ==
    ASSUME NEW t, NEW u, IsDb(t), NEW e, NEW n \in Nat, u = insert_posting(t, e, n + 1),
           t.entries[e.id].content_hash.postings = e.postings
    PROVE  /\ Holds(t, e.id, n) => Holds(u, e.id, n + 1)
           /\ \A id, m : id # e.id /\ Holds(t, id, m) => Holds(u, id, m)
<1> DEFINE i == n + 1
           new == Axes(e, i)
           dims == e.postings[i].dimensions
<1>1. /\ u.entries = t.entries
      /\ DOMAIN u.postings = DOMAIN t.postings \cup {<<e.id, i>>}
      /\ u.postings[<<e.id, i>>] = posting_row(e.postings[i])
      /\ \A k \in DOMAIN t.postings : k # <<e.id, i>> => u.postings[k] = t.postings[k]
      /\ u.posting_dimensions = t.posting_dimensions \cup new
  BY PostingIs DEF Posted
<1>2. /\ \A d \in new : d.entry_id = e.id /\ d.posting_index = i
      /\ \A d \in new : d.axis \in dims
      /\ \A a \in dims : \E d \in new : d.axis = a
  <2>1. new = {[entry_id |-> e.id, posting_index |-> i, axis |-> a] : a \in dims}
    BY DEF Axes
  <2> HIDE DEF new, dims, i
  <2>2. \A d \in new : \E a \in dims : d = [entry_id |-> e.id, posting_index |-> i, axis |-> a]
    BY <2>1
  <2>3. \A a \in dims : [entry_id |-> e.id, posting_index |-> i, axis |-> a] \in new
    BY <2>1
  <2>4. \A d \in new : d.entry_id = e.id /\ d.posting_index = i /\ d.axis \in dims
    BY <2>2
  <2>5. ASSUME NEW a \in dims PROVE \E d \in new : d.axis = a
    <3>1. PICK d \in new : d = [entry_id |-> e.id, posting_index |-> i, axis |-> a]
      BY <2>3
    <3> QED BY <3>1
  <2> QED BY <2>4, <2>5
<1>3. {d.axis : d \in new} = dims
  <2> HIDE DEF new, dims
  <2> QED BY <1>2
<1>4. /\ i \in 1..i /\ i \notin 1..n /\ i \in Nat
      /\ (\A j \in 1..n : j \in 1..i /\ j # i) /\ \A j \in 1..i : j \in 1..n \/ j = i
  OBVIOUS
<1> HIDE DEF i, new, dims
<1>5. ASSUME Holds(t, e.id, n) PROVE Holds(u, e.id, i)
  <2> DEFINE p == e.postings
  <2>1. \A k \in DOMAIN u.postings : k[1] = e.id => \E j \in 1..i : k = <<e.id, j>>
    BY <1>1, <1>4, <1>5 DEF Holds
  <2>2. ASSUME NEW j \in 1..i
        PROVE  /\ <<e.id, j>> \in DOMAIN u.postings /\ u.postings[<<e.id, j>>] = posting_row(p[j])
               /\ dimensions_from(u, e.id, j) = p[j].dimensions
    <3>1. CASE j = i
      <4>1. {d \in u.posting_dimensions : d.entry_id = e.id /\ d.posting_index = j} = new
        BY <1>1, <1>2, <1>4, <1>5, <3>1 DEF Holds
      <4>2. dimensions_from(u, e.id, j) = {d.axis : d \in new}
        BY <4>1 DEF dimensions_from
      <4> QED BY <1>1, <1>3, <3>1, <4>2 DEF dims
    <3>2. CASE j # i
      <4>1. j \in 1..n
        BY <1>4, <3>2
      <4>2. {d \in u.posting_dimensions : d.entry_id = e.id /\ d.posting_index = j}
              = {d \in t.posting_dimensions : d.entry_id = e.id /\ d.posting_index = j}
        BY <1>1, <1>2, <3>2
      <4>3. dimensions_from(u, e.id, j) = dimensions_from(t, e.id, j)
        BY <4>2 DEF dimensions_from
      <4>4. /\ <<e.id, j>> \in DOMAIN t.postings /\ t.postings[<<e.id, j>>] = posting_row(p[j])
            /\ dimensions_from(t, e.id, j) = p[j].dimensions
        BY <1>5, <4>1 DEF Holds
      <4>5. <<e.id, j>> # <<e.id, i>>
        BY <3>2
      <4> QED BY <1>1, <4>3, <4>4, <4>5
    <3> QED BY <3>1, <3>2
  <2>3. \A d \in u.posting_dimensions : d.entry_id = e.id => d.posting_index \in 1..i
    BY <1>1, <1>2, <1>4, <1>5 DEF Holds
  <2> QED BY <1>1, <2>1, <2>2, <2>3 DEF Holds
<1>6. ASSUME NEW id, NEW m, id # e.id, Holds(t, id, m) PROVE Holds(u, id, m)
  <2>1. \A k : k[1] = id => (k \in DOMAIN u.postings <=> k \in DOMAIN t.postings)
    BY <1>1, <1>6
  <2>2. \A k \in DOMAIN t.postings : k[1] = id => u.postings[k] = t.postings[k]
    BY <1>1, <1>6
  <2>3. \A d : d.entry_id = id => (d \in u.posting_dimensions <=> d \in t.posting_dimensions)
    BY <1>1, <1>2, <1>6
  <2> QED BY <1>1, <1>6, <2>1, <2>2, <2>3, HoldsSame
<1> QED BY <1>5, <1>6 DEF i

\* A posting is added to the row its transaction is writing.
LEMMA PostingIInv ==
    ASSUME IInv, NEW c \in Clients, InsertPosting(c),
           Entry(c).postings[tx[c].posted + 1].account \in DOMAIN db.accounts
    PROVE  IInv'
<1> DEFINE e == Entry(c)
           n == tx[c].posted
           account == e.postings[n + 1].account
<1>1. Types /\ IsDb(db) /\ tx[c].pc = "post"
  BY DEF IInv, Types, InsertPosting
<1>2. /\ db' = insert_posting(db, e, n + 1)
      /\ tx' = [tx EXCEPT ![c].pc = IF n + 1 = Len(e.postings) THEN "limit" ELSE "post",
                          ![c].posted = n + 1, ![c].share = @ \cup {account}]
      /\ UNCHANGED <<setup, lock, pass, next_xid, begun, answers, commits>>
  BY DEF InsertPosting
<1>3. PICK t : /\ Moves(c, t) /\ t.pc = (IF n + 1 = Len(e.postings) THEN "limit" ELSE "post")
               /\ t.xid = tx[c].xid /\ t.out = tx[c].out /\ t.acc = tx[c].acc
               /\ t.next = tx[c].next /\ t.mine = tx[c].mine /\ t.posted = n + 1
               /\ Current(t) = e /\ e \in Submitted /\ n + 1 \in 1..Len(e.postings)
  BY <1>1, <1>2, PostingMoves
<1>4. /\ tx'[c] = t /\ (\A d \in Clients : d # c => tx'[d] = tx[d]) /\ n \in Nat
  BY <1>1, <1>3, MovedIs DEF Tx
<1>5. t.pc \in {"post", "limit"} /\ (t.pc = "limit" => n + 1 = Len(e.postings))
  BY <1>3
<1>6. /\ Owns(db.entries, tx[c]) /\ Holds(db, e.id, n) /\ Current(tx[c]) = e /\ tx[c].xid # 0
  BY <1>1 DEF IInv, Written, Current, Entry, Types, Transaction, Staged
<1>7. /\ e.id \in DOMAIN db.entries /\ db.entries[e.id].insert_xid = tx[c].xid
      /\ db.entries[e.id].content_hash = content_hash(e)
      /\ db.entries[e.id].content_hash.postings = e.postings
  BY <1>3, <1>6, SubmittedIs DEF Owns
<1> HIDE DEF e, n, account
<1>8. /\ IsDb(db') /\ db'.entries = db.entries /\ db'.log_subtrees = db.log_subtrees
      /\ DOMAIN db'.postings = DOMAIN db.postings \cup {<<e.id, n + 1>>}
      /\ db'.posting_dimensions = db.posting_dimensions \cup Axes(e, n + 1)
  <2>1. Posted(db, db', e, n + 1)
    BY <1>1, <1>2, PostingIs
  <2> QED BY <2>1 DEF Posted
<1>9. /\ Holds(db', e.id, n + 1)
      /\ \A id, m : id # e.id /\ Holds(db, id, m) => Holds(db', id, m)
  <2>1. /\ db' = insert_posting(db, e, n + 1) /\ IsDb(db) /\ n \in Nat /\ Holds(db, e.id, n)
        /\ db.entries[e.id].content_hash.postings = e.postings
    BY <1>1, <1>2, <1>4, <1>6, <1>7
  <2> QED BY <2>1, PostingHolds
<1>10. Identified(c, t)
  BY <1>2, <1>3 DEF Identified
<1>11. lock' \in Clients \cup Sequencers \cup {None}
  BY <1>1, <1>2 DEF Types
<1>12. \A k \in DOMAIN t.out : Right(db.entries, Running, tx[c].xid, t.out[k])
  BY <1>3 DEF IInv, AnswersInv
<1>13. Types' /\ Identifiers' /\ ReversalsInv' /\ AnswersInv'
  BY <1>2, <1>3, <1>5, <1>8, <1>10, <1>11, <1>12, LocalRest
<1>14. Written'
  <2> USE DEF IInv
  <2>1. \A k \in DOMAIN db'.postings : k[1] \in DOMAIN db.entries
    BY <1>7, <1>8 DEF Written
  <2>2. \A d \in db'.posting_dimensions : d.entry_id \in DOMAIN db.entries
    <3>1. \A d \in Axes(e, n + 1) : d.entry_id = e.id
      BY DEF Axes
    <3> QED BY <1>7, <1>8, <3>1 DEF Written
  <2>3. \A d \in Clients : tx'[d].pc \in {"post", "limit"} => Owns(db.entries, tx'[d])
    <3>1. Owns(db.entries, t)
      BY <1>3, <1>7 DEF Owns
    <3> QED BY <1>4, <3>1 DEF Written
  <2>4. ASSUME NEW d \in Clients, tx'[d].pc = "post" PROVE Holds(db', Current(tx'[d]).id, tx'[d].posted)
    <3>1. CASE d = c
      BY <1>3, <1>4, <1>9, <3>1
    <3>2. CASE d # c
      <4>1. tx'[d] = tx[d]
        BY <1>4, <3>2
      <4>2. Owns(db.entries, tx[d]) /\ Holds(db, Current(tx[d]).id, tx[d].posted)
        BY <2>4, <4>1 DEF Written
      <4>3. tx[d].xid # tx[c].xid
        BY <1>6, <3>2 DEF Identifiers
      <4>4. Current(tx[d]).id # e.id
        BY <1>7, <4>2, <4>3 DEF Owns
      <4> QED BY <1>9, <4>1, <4>2, <4>4
    <3> QED BY <3>1, <3>2
  <2>5. ASSUME NEW id \in DOMAIN db.entries,
               \A d \in Clients : tx'[d].pc = "post" => Current(tx'[d]).id # id
        PROVE  Holds(db', id, Len(db.entries[id].content_hash.postings))
    <3>1. CASE id = e.id
      <4>1. t.pc = "limit"
        BY <1>3, <1>4, <1>5, <2>5, <3>1
      <4> QED BY <1>5, <1>7, <1>9, <3>1, <4>1
    <3>2. CASE id # e.id
      <4>1. \A d \in Clients : tx[d].pc = "post" => Current(tx[d]).id # id
        BY <1>4, <1>6, <2>5, <3>2
      <4> QED BY <1>9, <3>2, <4>1 DEF Written
    <3> QED BY <3>1, <3>2
  <2> QED BY <1>8, <2>1, <2>2, <2>3, <2>4, <2>5 DEF Written
<1>15. Inline => Continues(t, db)
  <2> SUFFICES ASSUME Inline PROVE Continues(t, db)
    OBVIOUS
  <2>1. Continues(tx[c], db)
    BY <1>1 DEF IInv, Order, InlineInv
  <2>2. Leaves(t) = Leaves(tx[c])
    BY <1>1, <1>3, <1>5, <1>6 DEF Leaves
  <2> QED BY <1>1, <1>3, <1>5, <1>6, <2>1, <2>2 DEF Continues
<1>16. Order'
  BY <1>1, <1>2, <1>3, <1>5, <1>8, <1>10, <1>15, LocalOrder
<1> QED BY <1>13, <1>14, <1>16 DEF IInv

\* A missing account ends the transaction; otherwise the posting is added.
LEMMA InsertPostingIInv ==
    ASSUME IInv, NEW c \in Clients, InsertPosting(c)
    PROVE  IInv'
<1>1. CASE Entry(c).postings[tx[c].posted + 1].account \in DOMAIN db.accounts
  BY <1>1, PostingIInv
<1>2. CASE Entry(c).postings[tx[c].posted + 1].account \notin DOMAIN db.accounts
  BY <1>2, RollbackIInv DEF InsertPosting
<1> QED BY <1>1, <1>2

\* A breached limit ends the transaction.
LEMMA CheckLimitIInv ==
    ASSUME IInv, NEW c \in Clients, CheckLimit(c)
    PROVE  IInv'
<1>1. CASE check_limits(Seen(tx[c].xid), LimitKey(c))
  BY <1>1, LimitIInv DEF CheckLimit
<1>2. CASE ~check_limits(Seen(tx[c].xid), LimitKey(c))
  BY <1>2, RollbackIInv DEF CheckLimit
<1> QED BY <1>1, <1>2

-----------------------------------------------------------------------------
(***************************************************************************)
(* Commit: what the transaction saw, everyone sees.                        *)
(***************************************************************************)
LEMMA CommitSees ==
    ASSUME Types, Identifiers, NEW c \in Clients, Moves(c, Idle)
    PROVE  /\ Running' = Running \ {tx[c].xid}
           /\ \A y : Sees(db.entries, Running, y) \subseteq Sees(db.entries, Running', y)
           /\ Sees(db.entries, Running, tx[c].xid) \subseteq Sees(db.entries, Running', 0)
<1> DEFINE x == tx[c].xid
<1>1. /\ tx'[c] = Idle /\ (\A d \in Clients : d # c => tx'[d] = tx[d]) /\ Idle.xid = 0
      /\ \A d \in Clients : tx[d].xid \in Nat
  BY MovedIs DEF Tx, Idle
<1>2. Running' = Running \ {x}
  <2>1. ASSUME NEW y \in Running' PROVE y \in Running \ {x}
    <3>1. PICK d \in Clients : y = tx'[d].xid /\ y # 0
      BY DEF Running
    <3>2. d # c /\ y = tx[d].xid
      BY <1>1, <3>1
    <3>3. y # x
      BY <3>1, <3>2 DEF Identifiers
    <3> QED BY <3>1, <3>2, <3>3 DEF Running
  <2>2. ASSUME NEW y \in Running \ {x} PROVE y \in Running'
    <3>1. PICK d \in Clients : y = tx[d].xid /\ y # 0
      BY DEF Running
    <3>2. d # c
      BY <3>1
    <3> QED BY <1>1, <3>1, <3>2 DEF Running
  <2> QED BY <2>1, <2>2
<1>3. \A y : Sees(db.entries, Running, y) \subseteq Sees(db.entries, Running', y)
  BY <1>2 DEF Sees
<1>4. Sees(db.entries, Running, x) \subseteq Sees(db.entries, Running', 0)
  BY <1>2 DEF Sees
<1> QED BY <1>2, <1>3, <1>4

\* A commit shows everyone the rows its transaction has written, all of them whole.
LEMMA CommitIInv ==
    ASSUME IInv, NEW c \in Clients, Commit(c)
    PROVE  IInv'
<1> DEFINE E == db.entries
           x == tx[c].xid
           out == tx[c].out
           mine == tx[c].mine
           acc == tx[c].acc
<1>1. Types /\ Identifiers /\ IsDb(db) /\ tx[c].pc = "commit"
  BY DEF IInv, Types, Commit
<1>2. Moves(c, Idle)
  BY IdleIs DEF Moves, Commit
<1>3. /\ tx' \in [Clients -> Transaction] /\ tx'[c] = Idle
      /\ (\A d \in Clients : d # c => tx'[d] = tx[d]) /\ tx[c] \in Tx
  BY <1>1, <1>2, MovedIs
<1>4. out \in Seq(Answer) /\ mine \in Seq(Nat) /\ acc \in Seq(Hash) /\ commits \in Seq(Nat)
  BY <1>1, <1>3 DEF Tx, Types
<1>5. /\ Running' = Running \ {x}
      /\ \A y : Sees(E, Running, y) \subseteq Sees(E, Running', y)
      /\ Sees(E, Running, x) \subseteq Sees(E, Running', 0)
  BY <1>1, <1>2, CommitSees
<1>6. /\ db' = IF Inline THEN store_accumulator(db, acc) ELSE db
      /\ commits' = commits \o mine /\ answers' = answers \cup Range(out)
      /\ lock' = Release(c) /\ UNCHANGED <<setup, pass, next_xid>>
  BY DEF Commit
<1>7. /\ IsDb(db') /\ db'.entries = E /\ db'.postings = db.postings
      /\ db'.posting_dimensions = db.posting_dimensions
      /\ Inline => db'.log_subtrees = acc
      /\ ~Inline => db' = db
  <2>1. CASE ~Inline
    BY <1>1, <1>6, <2>1
  <2>2. CASE Inline
    <3> HIDE DEF acc
    <3>1. db' = [db EXCEPT !.log_subtrees = acc]
      BY <1>6, <2>2 DEF store_accumulator
    <3>2. db' = [entries |-> db.entries, postings |-> db.postings,
                 posting_dimensions |-> db.posting_dimensions, log_subtrees |-> acc,
                 accounts |-> db.accounts, periods |-> db.periods, seals |-> db.seals,
                 clearings |-> db.clearings, checkpoints |-> db.checkpoints]
      BY <1>1, <3>1 DEF IsDb
    <3>3. /\ db'.entries = E /\ db'.postings = db.postings
          /\ db'.posting_dimensions = db.posting_dimensions /\ db'.log_subtrees = acc
          /\ db' = [entries |-> db'.entries, postings |-> db'.postings,
                posting_dimensions |-> db'.posting_dimensions, log_subtrees |-> db'.log_subtrees,
                accounts |-> db'.accounts, periods |-> db'.periods, seals |-> db'.seals,
                clearings |-> db'.clearings, checkpoints |-> db'.checkpoints]
      BY <3>2
    <3>4. IsDb(db')
      BY <1>1, <1>4, <3>3 DEF IsDb
    <3> QED BY <2>2, <3>3, <3>4
  <2> QED BY <2>1, <2>2
<1>8. \A a \in Range(out) : \E n \in DOMAIN out : a = out[n] /\ out[n] \in Answer
  <2> DEFINE S == Answer
  <2>1. out \in Seq(S)
    BY <1>4
  <2> HIDE DEF S, out
  <2> QED BY <2>1 DEF Range, S
<1>9. Idle.pc = "idle" /\ Idle.xid = 0 /\ DOMAIN Idle.out = {}
  BY DEF Idle
<1>10. Inline' = Inline
  BY <1>6 DEF Inline
<1> HIDE DEF E, x, out, mine, acc
<1>11. Types'
  <2>1. answers' \subseteq Answer
    BY <1>1, <1>6, <1>8 DEF Types
  <2>2. commits' \in Seq(Nat)
    BY <1>4, <1>6
  <2>3. lock' \in Clients \cup Sequencers \cup {None}
    BY <1>1, <1>6 DEF Types, Release
  <2>4. setup' \in DOMAIN Setups /\ next_xid' \in Nat \ {0}
    BY <1>1, <1>6 DEF Types
  <2> QED BY <1>3, <1>7, <2>1, <2>2, <2>3, <2>4 DEF Types
<1>12. Identifiers'
  <2>1. next_xid' = next_xid /\ next_xid \in Nat \ {0}
    BY <1>1, <1>6 DEF Types
  <2>2. \A d \in Clients : tx'[d].xid < next_xid'
    <3>1. \A d \in Clients : tx[d].xid < next_xid
      BY <1>1 DEF Identifiers
    <3>2. tx'[c].xid = 0
      BY <1>3, <1>9
    <3> QED BY <1>3, <2>1, <3>1, <3>2
  <2>3. \A d, f \in Clients : tx'[d].xid = tx'[f].xid /\ tx'[d].xid # 0 => d = f
    BY <1>1, <1>3, <1>9 DEF Identifiers
  <2>4. \A id \in DOMAIN E : E[id].insert_xid < next_xid'
    BY <1>1, <2>1 DEF Identifiers, E
  <2> QED BY <1>7, <2>2, <2>3, <2>4 DEF Identifiers
<1>13. Written'
  <2> USE DEF IInv
  <2>1. \A id, n : Holds(db', id, n) <=> Holds(db, id, n)
    BY <1>7 DEF Holds, dimensions_from, E
  <2>2. \A d \in Clients : tx'[d].pc \in {"post", "limit"} => d # c /\ tx'[d] = tx[d]
    BY <1>3, <1>9
  <2>3. \A d \in Clients : tx'[d].pc \in {"post", "limit"} => Owns(E, tx'[d])
    BY <2>2 DEF Written, E
  <2>4. \A d \in Clients : tx'[d].pc = "post" => Holds(db', Current(tx'[d]).id, tx'[d].posted)
    BY <2>1, <2>2 DEF Written
  <2>5. ASSUME NEW id \in DOMAIN E,
               \A d \in Clients : tx'[d].pc = "post" => Current(tx'[d]).id # id
        PROVE  Holds(db', id, Len(E[id].content_hash.postings))
    <3>1. \A d \in Clients : tx[d].pc = "post" => Current(tx[d]).id # id
      BY <1>1, <1>3, <2>5
    <3> QED BY <2>1, <3>1 DEF Written, E
  <2> QED BY <1>7, <2>3, <2>4, <2>5 DEF Written, E
<1>14. ReversalsInv'
  <2> USE DEF IInv
  <2>1. \A y, o, e : Reverses(E, Running, y, o, e) => Reverses(E, Running', y, o, e)
    BY <1>5 DEF Reverses
  <2>2. ASSUME NEW d \in Clients, tx'[d].pc \in {"xid", "insert"}, Current(tx'[d]).reverses # None
        PROVE  Reverses(E, Running', tx'[d].xid, Current(tx'[d]).reverses, Current(tx'[d]))
    <3>1. tx'[d] = tx[d]
      BY <1>3, <1>9, <2>2
    <3> QED BY <2>1, <2>2, <3>1 DEF ReversalsInv, E
  <2> QED BY <1>7, <2>1, <2>2 DEF ReversalsInv, E
<1>15. AnswersInv'
  <2> USE DEF IInv
  <2>1. \A y, a : Right(E, Running, y, a) => Right(E, Running', y, a)
    BY <1>5 DEF Right
  <2>2. ASSUME NEW a \in answers' PROVE Right(E, Running', 0, a)
    <3>1. CASE a \in answers
      BY <2>1, <3>1 DEF AnswersInv, E
    <3>2. CASE a \in Range(out)
      <4>1. PICK n \in DOMAIN out : a = out[n]
        BY <1>8, <3>2
      <4>2. Right(E, Running, x, a)
        BY <4>1 DEF AnswersInv, E, x, out
      <4> QED BY <1>5, <4>2 DEF Right
    <3> QED BY <1>6, <3>1, <3>2
  <2>3. ASSUME NEW d \in Clients, NEW n \in DOMAIN tx'[d].out
        PROVE  Right(E, Running', tx'[d].xid, tx'[d].out[n])
    <3>1. tx'[d] = tx[d]
      BY <1>3, <1>9
    <3> QED BY <2>1, <3>1 DEF AnswersInv, E
  <2> QED BY <1>7, <2>2, <2>3 DEF AnswersInv
<1>16. Order'
  <2>1. CASE ~Inline
    <3>1. Deferred /\ db' = db
      BY <1>7, <2>1 DEF IInv, Order
    <3>2. lock' = lock
      BY <1>6, <3>1 DEF Deferred, Release
    <3>3. \A d \in Clients : tx'[d].pc # "begin"
      BY <1>3, <1>9, <3>1 DEF Deferred
    <3>4. lock' \in Sequencers => PassInv'
      BY <1>5, <1>6, <3>1, <3>2 DEF Deferred, PassInv
    <3>5. Deferred'
      BY <1>5, <3>1, <3>2, <3>3, <3>4 DEF Deferred
    <3> QED BY <1>10, <2>1, <3>5 DEF Order
  <2>2. CASE Inline
    <3> DEFINE log == db.log_subtrees
    <3>1. InlineInv
      BY <2>2 DEF IInv, Order
    <3>2. lock = c /\ Continues(tx[c], db)
      BY <1>1, <3>1 DEF InlineInv
    <3>3. \A d \in Clients : d # c => tx[d].pc \in {"idle", "begin"}
      BY <3>1, <3>2 DEF InlineInv
    <3>4. Running' = {}
      <4>1. \A d \in Clients : tx'[d].xid = 0
        BY <1>1, <1>3, <1>9, <3>3, EarlyIs DEF Types
      <4> QED BY <4>1 DEF Running
    <3>5. Sees(E, Running', 0) = DOMAIN E
      BY <3>4 DEF Sees
    <3>6. /\ Dense(E, DOMAIN E, acc) /\ Len(acc) = Len(log) + Len(mine)
          /\ \A n \in DOMAIN mine : mine[n] \in DOMAIN E /\ E[mine[n]].log_index = Len(log) + n
      BY <1>1, <3>2 DEF Continues, Leaves, E, acc, mine
    <3>7. lock' = None
      BY <1>6, <3>2 DEF Release
    <3>8. commits' \in [1..Len(acc) -> DOMAIN E] /\ \A n \in DOMAIN commits' : E[commits'[n]].log_index = n
      <4>1. /\ commits \in [1..Len(log) -> Sees(E, Running, 0)] /\ log \in Seq(Hash)
            /\ \A n \in DOMAIN commits : E[commits[n]].log_index = n
        BY <1>1, <3>1 DEF InlineInv, E, IsDb
      <4>2. Len(log) \in Nat
        BY <4>1
      <4> HIDE DEF log
      <4>3. Len(commits) = Len(log)
        BY <1>4, <4>1, <4>2
      <4>4. /\ commits' \in Seq(Nat) /\ Len(commits') = Len(commits) + Len(mine) /\ Len(mine) \in Nat
            /\ \A n \in 1..Len(commits) : commits'[n] = commits[n]
            /\ \A n \in 1..Len(mine) : commits'[Len(commits) + n] = mine[n]
        BY <1>4, <1>6, PrefixOf, SMTT(30)
      <4>5. DOMAIN mine = 1..Len(mine) /\ DOMAIN commits = 1..Len(log)
        BY <1>4, <4>1
      <4>6. ASSUME NEW n \in 1..Len(acc)
            PROVE  commits'[n] \in DOMAIN E /\ E[commits'[n]].log_index = n
        <5>1. CASE n <= Len(log)
          <6>1. n \in 1..Len(log)
            BY <4>2, <5>1
          <6> QED BY <4>1, <4>3, <4>4, <4>5, <6>1, ZenonT(60) DEF Sees
        <5>2. CASE ~(n <= Len(log))
          <6>1. n - Len(log) \in 1..Len(mine) /\ Len(log) + (n - Len(log)) = n
            BY <3>6, <4>2, <4>4, <5>2
          <6> QED BY <3>6, <4>3, <4>4, <4>5, <6>1, ZenonT(60)
        <5> QED BY <5>1, <5>2
      <4>7. commits' = [n \in 1..Len(acc) |-> commits'[n]] /\ DOMAIN commits' = 1..Len(acc)
        BY <3>6, <4>3, <4>4
      <4> QED BY <4>6, <4>7
    <3>9. \A d \in Clients : lock' = d <=> tx'[d].pc \notin {"idle", "begin"}
      BY <1>3, <1>9, <3>3, <3>7, ActorsDiffer
    <3>10. lock' \notin Sequencers /\ \A d \in Clients : lock' # d
      BY <3>7, ActorsDiffer
    <3>11. InlineInv'
      BY <1>7, <2>2, <3>5, <3>6, <3>8, <3>9, <3>10 DEF InlineInv
    <3> QED BY <1>10, <2>2, <3>11 DEF Order
  <2> QED BY <2>1, <2>2
<1> QED BY <1>11, <1>12, <1>13, <1>14, <1>15, <1>16 DEF IInv

-----------------------------------------------------------------------------
(***************************************************************************)
(* The sequencer.                                                          *)
(***************************************************************************)
\* The least of a set of natural numbers.
LEMMA MinIs ==
    ASSUME NEW T \in SUBSET Nat, T # {}
    PROVE  Min(T) \in T /\ \A y \in T : Min(T) <= y
<1> DEFINE R == OpToRel(<, Nat)
<1>1. \A x, y \in Nat : y < x => <<y, x>> \in R
  BY DEF OpToRel
<1>2. IsWellFoundedOn(R, Nat)
  BY NatLessThanWellFounded
<1> HIDE DEF R
<1>3. PICK x \in T : \A y \in T : ~(<<y, x>> \in R)
  BY <1>2, WFMin
<1>4. ASSUME NEW y \in T PROVE x <= y
  <2>1. x \in Nat /\ y \in Nat
    OBVIOUS
  <2>2. ~(y < x)
    BY <1>1, <1>3, <2>1, Zenon
  <2> QED BY <2>1, <2>2
<1> DEFINE P(z) == \A y \in T : z <= y
<1>5. Min(T) = CHOOSE z \in T : P(z)
  BY Zenon DEF Min
<1>6. \E z \in T : P(z)
  BY <1>4
<1> HIDE DEF P
<1>7. Min(T) \in T /\ P(Min(T))
  BY <1>5, <1>6
<1> QED BY <1>7 DEF P

\* Every client is where it was; a row may have been given its position.
LEMMA OthersRest ==
    ASSUME IInv, IsDb(db'), UNCHANGED <<setup, tx, next_xid, answers, commits>>,
           lock' \in Clients \cup Sequencers \cup {None},
           db'.postings = db.postings, db'.posting_dimensions = db.posting_dimensions,
           DOMAIN db'.entries = DOMAIN db.entries,
           \A id \in DOMAIN db.entries :
              /\ db'.entries[id].insert_xid = db.entries[id].insert_xid
              /\ db'.entries[id].content_hash = db.entries[id].content_hash
              /\ db'.entries[id].reverses = db.entries[id].reverses
              /\ db.entries[id].log_index # Null => db'.entries[id].log_index = db.entries[id].log_index
    PROVE  Types' /\ Identifiers' /\ Written' /\ ReversalsInv' /\ AnswersInv' /\ Running' = Running
<1> DEFINE E == db.entries
           F == db'.entries
<1> USE DEF IInv
<1>1. /\ DOMAIN F = DOMAIN E
      /\ \A id \in DOMAIN E : /\ F[id].insert_xid = E[id].insert_xid
                              /\ F[id].content_hash = E[id].content_hash
                              /\ F[id].reverses = E[id].reverses
                              /\ E[id].log_index # Null => F[id].log_index = E[id].log_index
  OBVIOUS
<1>2. Running' = Running
  BY DEF Running
<1> HIDE DEF E, F
<1>3. \A y : Sees(F, Running', y) = Sees(E, Running, y)
  BY <1>1, <1>2 DEF Sees
<1>4. Types'
  BY DEF Types
<1>5. Identifiers'
  BY <1>1 DEF Identifiers, E, F
<1>6. Written'
  <2>1. ASSUME NEW id \in DOMAIN E, NEW n, Holds(db, id, n) PROVE Holds(db', id, n)
    <3>1. db'.entries[id].content_hash = db.entries[id].content_hash
      BY <1>1 DEF E, F
    <3> QED BY <2>1, <3>1, HoldsSame
  <2>2. \A c \in Clients : tx[c].pc \in {"post", "limit"} => Owns(F, tx[c]) /\ Current(tx[c]).id \in DOMAIN E
    BY <1>1 DEF Written, Owns, E
  <2>3. \A c \in Clients : tx[c].pc = "post" => Holds(db', Current(tx[c]).id, tx[c].posted)
    BY <2>1, <2>2 DEF Written
  <2>4. ASSUME NEW id \in DOMAIN F, \A c \in Clients : tx[c].pc = "post" => Current(tx[c]).id # id
        PROVE  Holds(db', id, Len(F[id].content_hash.postings))
    BY <1>1, <2>1, <2>4 DEF Written, E
  <2>5. /\ \A k \in DOMAIN db.postings : k[1] \in DOMAIN F
        /\ \A d \in db.posting_dimensions : d.entry_id \in DOMAIN F
    BY <1>1 DEF Written, E
  <2> QED BY <2>2, <2>3, <2>4, <2>5 DEF Written, F
<1>7. ReversalsInv'
  <2>1. ASSUME NEW y, NEW o, NEW e, Reverses(E, Running, y, o, e) PROVE Reverses(F, Running', y, o, e)
    <3>1. o \in DOMAIN E
      BY <2>1 DEF Reverses, Sees
    <3> QED BY <1>1, <1>3, <2>1, <3>1 DEF Reverses
  <2>2. \A a, b \in DOMAIN F : F[a].reverses = F[b].reverses /\ F[a].reverses # None => a = b
    BY <1>1 DEF ReversalsInv, E
  <2>3. ASSUME NEW id \in DOMAIN F, F[id].reverses # None
        PROVE  Reverses(F, Running', F[id].insert_xid, F[id].reverses, F[id].content_hash)
    <3>1. Reverses(E, Running, E[id].insert_xid, E[id].reverses, E[id].content_hash)
      BY <1>1, <2>3 DEF ReversalsInv, E
    <3> QED BY <1>1, <2>1, <3>1
  <2>4. \A c \in Clients : tx[c].pc \in {"xid", "insert"} /\ Current(tx[c]).reverses # None =>
            Reverses(F, Running', tx[c].xid, Current(tx[c]).reverses, Current(tx[c]))
    BY <2>1 DEF ReversalsInv, E
  <2> QED BY <2>2, <2>3, <2>4 DEF ReversalsInv, F
<1>8. AnswersInv'
  <2>1. ASSUME NEW y, NEW a, Right(E, Running, y, a) PROVE Right(F, Running', y, a)
    <3>1. a.id \in DOMAIN E
      BY <2>1 DEF Right, Sees
    <3>2. a.id \in Sees(F, Running', y) /\ F[a.id].content_hash = a.content_hash
      BY <1>1, <1>3, <2>1, <3>1 DEF Right
    <3>3. a.index # Null => F[a.id].log_index = a.index
      BY <1>1, <2>1, <3>1 DEF Right
    <3> QED BY <3>2, <3>3 DEF Right
  <2> QED BY <2>1 DEF AnswersInv, E, F
<1> QED BY <1>2, <1>4, <1>5, <1>6, <1>7, <1>8

\* A pass reads the first of the rows that wait, since no transaction that still
\* runs, or is yet to run, may insert one before them.
LEMMA ReadPassIInv ==
    ASSUME IInv, NEW s \in Sequencers, ReadPass(s)
    PROVE  IInv'
<1> DEFINE E == db.entries
<1>1. /\ ~Inline /\ lock = None /\ lock' = s
      /\ pass' \in [1..Cardinality(Unplaced) -> Unplaced] /\ Range(pass') = Unplaced
      /\ \A m, n \in DOMAIN pass' : m < n => XidOrder(pass'[m], pass'[n])
      /\ UNCHANGED <<setup, db, tx, next_xid, answers, commits>>
  BY DEF ReadPass
<1>2. Types /\ Identifiers /\ IsDb(db)
  BY DEF IInv, Types
<1>3. lock' \in Clients \cup Sequencers \cup {None} /\ IsDb(db')
  BY <1>1, <1>2
<1>4. Types' /\ Identifiers' /\ Written' /\ ReversalsInv' /\ AnswersInv' /\ Running' = Running
  BY <1>1, <1>3, OthersRest
<1>5. Deferred /\ Inline' = Inline
  BY <1>1 DEF IInv, Order, Inline
<1>6. /\ \A id \in DOMAIN E : id \in Nat /\ E[id].insert_xid \in Nat
      /\ DOMAIN Committed.entries = Sees(E, Running, 0)
  BY <1>2, SeenIs, RowIs DEF IsDb, Committed
<1>7. snapshot_xmin \in Nat /\ \A x \in Running : snapshot_xmin <= x
  <2>1. next_xid \in Nat /\ \A c \in Clients : tx[c].xid \in Nat
    BY <1>2 DEF Types, Transaction, Tx
  <2>2. Running \cup {next_xid} \in SUBSET Nat /\ Running \cup {next_xid} # {}
    BY <2>1 DEF Running
  <2>3. /\ snapshot_xmin \in Running \cup {next_xid}
        /\ \A x \in Running \cup {next_xid} : snapshot_xmin <= x
    BY <2>2, MinIs DEF snapshot_xmin
  <2> QED BY <2>2, <2>3
<1>8. ASSUME NEW id \in Unplaced
      PROVE  id \in Waits(db) /\ id \in DOMAIN E /\ E[id].insert_xid < snapshot_xmin
  BY <1>6 DEF Unplaced, Settled, Waits, Placed, Sees
<1>9. ASSUME NEW b \in Waits(db), b \notin Unplaced PROVE b \in DOMAIN E /\ snapshot_xmin <= E[b].insert_xid
  <2>1. b \in DOMAIN E /\ E[b].log_index = Null
    BY DEF Waits, Placed
  <2>2. CASE b \in Sees(E, Running, 0)
    BY <1>6, <1>7, <1>9, <2>1, <2>2 DEF Unplaced, Settled
  <2>3. CASE b \notin Sees(E, Running, 0)
    BY <1>7, <2>1, <2>3 DEF Sees
  <2> QED BY <2>1, <2>2, <2>3
<1>10. Cardinality(Unplaced) \in Nat
  <2>1. Unplaced \subseteq DOMAIN E
    BY <1>8
  <2>2. IsFiniteSet(Unplaced)
    BY <1>2, <2>1, FS_Subset DEF IsDb
  <2> QED BY <2>2, FS_CardinalityType
<1> HIDE DEF E
<1>11. DOMAIN pass' = 1..Cardinality(Unplaced) /\ \A n \in DOMAIN pass' : pass'[n] \in Unplaced
  BY <1>1
<1>12. pass' \in Seq(Nat)
  <2>1. pass' \in [1..Cardinality(Unplaced) -> Nat]
    BY <1>1, <1>6, <1>8
  <2> QED BY <1>10, <2>1
<1>13. ASSUME NEW n \in DOMAIN pass'
       PROVE  /\ pass'[n] \in Waits(db)
              /\ \A x \in Running : E[pass'[n]].insert_xid < x
              /\ \A b \in Waits(db) : b \in Range(pass') \/ Before(E, pass'[n], b)
  <2>1. pass'[n] \in Waits(db) /\ E[pass'[n]].insert_xid < snapshot_xmin /\ E[pass'[n]].insert_xid \in Nat
    BY <1>6, <1>8, <1>11
  <2>2. \A x \in Running : x \in Nat
    BY <1>2 DEF Running, Types, Transaction, Tx
  <2>3. \A x \in Running : E[pass'[n]].insert_xid < x
    BY <1>7, <2>1, <2>2
  <2>4. ASSUME NEW b \in Waits(db), b \notin Range(pass') PROVE Before(E, pass'[n], b)
    <3>1. snapshot_xmin <= E[b].insert_xid /\ E[b].insert_xid \in Nat
      BY <1>1, <1>6, <1>9, <2>4
    <3>2. E[pass'[n]].insert_xid < E[b].insert_xid
      BY <1>7, <2>1, <3>1
    <3> QED BY <3>2 DEF Before
  <2> QED BY <2>1, <2>3, <2>4
<1>14. ASSUME NEW m \in DOMAIN pass', NEW n \in DOMAIN pass', pass'[m] = pass'[n] PROVE m = n
  <2>1. \A id \in Unplaced : ~XidOrder(id, id)
    BY <1>6, <1>8 DEF XidOrder, E
  <2>2. m \in Int /\ n \in Int
    BY <1>11
  <2>3. ~(m < n) /\ ~(n < m)
    BY <1>1, <1>11, <1>14, <2>1
  <2> QED BY <2>2, <2>3
<1>15. PassInv'
  BY <1>1, <1>4, <1>12, <1>13, <1>14 DEF PassInv, E
<1>16. lock' \notin Clients
  BY <1>1, ActorsDiffer
<1>17. Deferred'
  BY <1>1, <1>4, <1>5, <1>15, <1>16 DEF Deferred
<1>18. Order'
  BY <1>1, <1>5, <1>17 DEF Order
<1> QED BY <1>4, <1>18 DEF IInv

\* A pass that places the rows `ids`: each gets the next position, in their order,
\* and the root of the log up to it.
LEMMA SequenceIs ==
    ASSUME NEW t, IsDb(t), Dense(t.entries, Placed(t), t.log_subtrees),
           NEW ids \in Seq(Nat), \A n \in DOMAIN ids : ids[n] \in Waits(t),
           \A m, n \in DOMAIN ids : ids[m] = ids[n] => m = n
    PROVE  LET u == sequence(t, ids) IN
           /\ IsDb(u) /\ u.postings = t.postings /\ u.posting_dimensions = t.posting_dimensions
           /\ DOMAIN u.entries = DOMAIN t.entries
           /\ \A id \in DOMAIN t.entries \ Range(ids) : u.entries[id] = t.entries[id]
           /\ \A n \in DOMAIN ids : LET new == u.entries[ids[n]]
                                        row == t.entries[ids[n]] IN
                 /\ new.log_index # Null
                 /\ new.insert_xid = row.insert_xid /\ new.content_hash = row.content_hash
                 /\ new.reverses = row.reverses
           /\ Placed(u) = Placed(t) \cup Range(ids)
           /\ Dense(u.entries, Placed(u), u.log_subtrees)
<1> DEFINE E == t.entries
           log == t.log_subtrees
           more == [n \in DOMAIN ids |-> E[ids[n]].content_hash]
           all == log \o more
           next == next_index(t)
           at(id) == next - 1 + CHOOSE n \in DOMAIN ids : ids[n] = id
           New(id) == IF id \in Range(ids)
                      THEN [E[id] EXCEPT !.log_index = at(id), !.tree_root = SubSeq(all, 1, at(id))]
                      ELSE E[id]
           F == [id \in DOMAIN E |-> New(id)]
           u == sequence(t, ids)
<1>1. u = [t EXCEPT !.log_subtrees = all, !.entries = F]
  BY DEF sequence, accumulator, IsDb
<1>2. /\ u = [entries |-> F, postings |-> t.postings,
              posting_dimensions |-> t.posting_dimensions, log_subtrees |-> all,
              accounts |-> t.accounts, periods |-> t.periods, seals |-> t.seals,
              clearings |-> t.clearings, checkpoints |-> t.checkpoints]
  <2> HIDE DEF F, all, u
  <2> QED BY <1>1 DEF IsDb
<1>3. /\ log \in Seq(Hash) /\ IsFiniteSet(DOMAIN E) /\ \A id \in DOMAIN E : IsRow(id, E[id])
  BY DEF IsDb
<1>4. next = Len(log) + 1 /\ Len(log) \in Nat
  BY <1>3, DenseLog
<1>5. Len(ids) \in Nat /\ DOMAIN ids = 1..Len(ids) /\ \A n \in DOMAIN ids : ids[n] \in DOMAIN E \ Placed(t)
  BY DEF Waits
<1>6. /\ more \in Seq(Hash) /\ Len(more) = Len(ids)
      /\ \A n \in DOMAIN ids : more[n] = E[ids[n]].content_hash
  <2>1. \A n \in 1..Len(ids) : E[ids[n]].content_hash \in Hash
    BY <1>3, <1>5, RowIs
  <2>2. more \in [1..Len(ids) -> Hash]
    BY <1>5, <2>1
  <2> QED BY <1>5, <2>2
<1> HIDE DEF more
<1>7. all \in Seq(Hash)
  BY <1>3, <1>6, PrefixOf
<1>8. ASSUME NEW n \in DOMAIN ids PROVE at(ids[n]) = Len(log) + n /\ ids[n] \in Range(ids)
  <2>1. (CHOOSE m \in DOMAIN ids : ids[m] = ids[n]) = n
    OBVIOUS
  <2>2. n \in Nat
    BY <1>5
  <2>3. ids[n] \in Range(ids)
    BY DEF Range
  <2> QED BY <1>4, <2>1, <2>2, <2>3
<1>9. \A id \in Range(ids) : \E n \in DOMAIN ids : id = ids[n]
  BY DEF Range
<1> HIDE DEF at, all, next, u
<1>10. ASSUME NEW n \in DOMAIN ids
       PROVE  LET new == F[ids[n]] IN
              /\ IsRow(ids[n], new) /\ new.log_index = Len(log) + n
              /\ new.tree_root = SubSeq(all, 1, Len(log) + n)
              /\ new.insert_xid = E[ids[n]].insert_xid /\ new.content_hash = E[ids[n]].content_hash
              /\ new.reverses = E[ids[n]].reverses
  <2> DEFINE id == ids[n]
             k == Len(log) + n
             root == SubSeq(all, 1, k)
             row == E[id]
  <2>1. Places(row, k, root, F[id])
    BY <1>5, <1>8 DEF Places
  <2>2. k \in Nat /\ IsRow(id, row)
    BY <1>3, <1>4, <1>5
  <2> HIDE DEF id, k, root, row, F
  <2>3. /\ IsRow(id, F[id]) /\ F[id].log_index = k /\ F[id].tree_root = root
        /\ F[id].insert_xid = row.insert_xid /\ F[id].content_hash = row.content_hash
        /\ F[id].reverses = row.reverses
    BY <2>1, <2>2, RowPlaced
  <2> QED BY <2>3 DEF id, k, root, row
<1>11. DOMAIN F = DOMAIN E /\ \A id \in DOMAIN E \ Range(ids) : F[id] = E[id]
  OBVIOUS
<1> HIDE DEF F
<1>12. ASSUME NEW id \in DOMAIN F PROVE IsRow(id, F[id])
  <2>1. CASE id \in Range(ids)
    BY <1>9, <1>10, <2>1
  <2>2. CASE id \notin Range(ids)
    BY <1>3, <1>11, <2>2
  <2> QED BY <2>1, <2>2
<1>13. /\ u.entries = F /\ u.postings = t.postings /\ u.log_subtrees = all
       /\ u.posting_dimensions = t.posting_dimensions
  BY <1>2
<1>14. IsDb(u)
  <2>1. F = [id \in DOMAIN F |-> F[id]]
    BY DEF F
  <2>2. u = [entries |-> u.entries, postings |-> u.postings,
             posting_dimensions |-> u.posting_dimensions, log_subtrees |-> u.log_subtrees,
             accounts |-> u.accounts, periods |-> u.periods, seals |-> u.seals,
             clearings |-> u.clearings, checkpoints |-> u.checkpoints]
    BY <1>2
  <2> QED BY <1>3, <1>7, <1>11, <1>12, <1>13, <2>1, <2>2 DEF IsDb
<1>15. \A n \in DOMAIN ids : F[ids[n]].log_index # Null
  BY <1>4, <1>5, <1>10 DEF Null
<1>16. Range(ids) \subseteq DOMAIN E
  BY <1>5, <1>9
<1>17. Placed(u) = Placed(t) \cup Range(ids)
  <2>1. \A id \in Range(ids) : id \in Placed(u)
    BY <1>9, <1>11, <1>13, <1>15, <1>16 DEF Placed
  <2>2. \A id \in DOMAIN E \ Range(ids) : id \in Placed(u) <=> id \in Placed(t)
    BY <1>11, <1>13 DEF Placed
  <2>3. Placed(u) \subseteq DOMAIN E /\ Placed(t) \subseteq DOMAIN E
    BY <1>11, <1>13 DEF Placed
  <2> QED BY <1>16, <2>1, <2>2, <2>3
<1>18. Grown(E, F, Placed(t), Placed(u), log, more, ids)
  <2>1. \A id \in Placed(t) : id \in DOMAIN E \ Range(ids)
    BY <1>5, <1>9 DEF Placed
  <2>2. \A id \in Placed(t) : F[id] = E[id]
    BY <1>11, <2>1
  <2>3. 1..Len(more) = DOMAIN ids
    BY <1>5, <1>6
  <2>4. \A id \in Placed(u) : id \in Placed(t) \/ \E n \in 1..Len(more) : id = ids[n]
    BY <1>9, <1>17, <2>3
  <2>5. \A n \in 1..Len(more) :
          /\ ids[n] \in Placed(u)
          /\ F[ids[n]].log_index = Len(log) + n
          /\ F[ids[n]].content_hash = more[n]
          /\ F[ids[n]].tree_root = SubSeq(log \o more, 1, Len(log) + n)
    BY <1>6, <1>8, <1>10, <1>17, <2>3 DEF all
  <2> QED BY <1>17, <2>2, <2>4, <2>5 DEF Grown
<1>19. Dense(F, Placed(u), all)
  <2>1. Dense(E, Placed(t), log)
    OBVIOUS
  <2> HIDE DEF E, log
  <2> QED BY <1>3, <1>6, <1>18, <2>1, DenseGrows DEF all
<1> HIDE DEF E
<1>20. /\ IsDb(u) /\ u.postings = t.postings /\ u.posting_dimensions = t.posting_dimensions
       /\ DOMAIN u.entries = DOMAIN E
       /\ \A id \in DOMAIN E \ Range(ids) : u.entries[id] = E[id]
       /\ \A n \in DOMAIN ids :
             /\ u.entries[ids[n]].log_index # Null
             /\ u.entries[ids[n]].insert_xid = E[ids[n]].insert_xid
             /\ u.entries[ids[n]].content_hash = E[ids[n]].content_hash
             /\ u.entries[ids[n]].reverses = E[ids[n]].reverses
       /\ Placed(u) = Placed(t) \cup Range(ids)
       /\ Dense(u.entries, Placed(u), u.log_subtrees)
  BY <1>10, <1>11, <1>13, <1>14, <1>15, <1>17, <1>19
<1> QED BY <1>20 DEF u, E

\* The rows of a pass continue the log, and what still waits comes after them.
LEMMA PlacePassIInv ==
    ASSUME IInv, NEW s \in Sequencers, PlacePass(s)
    PROVE  IInv'
<1> DEFINE E == db.entries
           F == db'.entries
<1>1. /\ lock = s /\ db' = sequence(db, pass) /\ lock' = None
      /\ UNCHANGED <<setup, tx, next_xid, answers, commits>>
  BY DEF PlacePass
<1>2. ~Inline /\ Deferred /\ PassInv /\ IsDb(db) /\ Identifiers /\ Inline' = Inline
  BY <1>1 DEF IInv, Order, InlineInv, Deferred, Types, Inline
<1>3. /\ IsDb(db') /\ db'.postings = db.postings /\ db'.posting_dimensions = db.posting_dimensions
      /\ DOMAIN F = DOMAIN E
      /\ \A id \in DOMAIN E \ Range(pass) : F[id] = E[id]
      /\ \A n \in DOMAIN pass :
            /\ F[pass[n]].log_index # Null
            /\ F[pass[n]].insert_xid = E[pass[n]].insert_xid
            /\ F[pass[n]].content_hash = E[pass[n]].content_hash
            /\ F[pass[n]].reverses = E[pass[n]].reverses
      /\ Placed(db') = Placed(db) \cup Range(pass)
      /\ Dense(F, Placed(db'), db'.log_subtrees)
  BY <1>1, <1>2, SequenceIs DEF PassInv, Deferred
<1>4. \A id \in Range(pass) : \E n \in DOMAIN pass : id = pass[n]
  BY DEF Range
<1>5. \A id \in Range(pass) : id \in Waits(db)
  BY <1>2, <1>4 DEF PassInv
<1>6. ASSUME NEW id \in DOMAIN E
      PROVE  /\ F[id].insert_xid = E[id].insert_xid /\ F[id].content_hash = E[id].content_hash
             /\ F[id].reverses = E[id].reverses
             /\ E[id].log_index # Null => F[id].log_index = E[id].log_index
  <2>1. CASE id \in Range(pass)
    <3>1. E[id].log_index = Null
      BY <1>5, <2>1 DEF Waits, Placed
    <3> QED BY <1>3, <1>4, <2>1, <3>1
  <2>2. CASE id \notin Range(pass)
    BY <1>3, <2>2
  <2> QED BY <2>1, <2>2
<1>7. Types' /\ Identifiers' /\ Written' /\ ReversalsInv' /\ AnswersInv' /\ Running' = Running
  BY <1>1, <1>3, <1>6, OthersRest
<1>8. Waits(db') = Waits(db) \ Range(pass)
  BY <1>3 DEF Waits
<1>9. Placed(db) \subseteq DOMAIN E /\ Waits(db) \subseteq DOMAIN E /\ Range(pass) \subseteq DOMAIN E
  BY <1>5 DEF Placed, Waits
<1>10. ASSUME NEW id \in Placed(db'), NEW x \in Running PROVE F[id].insert_xid < x
  <2>1. E[id].insert_xid < x
    BY <1>2, <1>3, <1>4 DEF PassInv, Deferred
  <2> QED BY <1>3, <1>6, <1>9, <2>1
<1>11. ASSUME NEW a \in Placed(db'), NEW b \in Waits(db') PROVE Before(F, a, b)
  <2>1. Before(E, a, b)
    <3>1. CASE a \in Placed(db)
      BY <1>2, <1>8, <3>1 DEF Deferred
    <3>2. CASE a \in Range(pass)
      BY <1>2, <1>4, <1>8, <3>2 DEF PassInv
    <3> QED BY <1>3, <3>1, <3>2
  <2>2. a \in DOMAIN E /\ b \in DOMAIN E
    BY <1>3, <1>8, <1>9
  <2> QED BY <1>6, <2>1, <2>2 DEF Before
<1>12. lock' \notin Clients /\ lock' \notin Sequencers
  BY <1>1, ActorsDiffer
<1>13. Deferred'
  BY <1>1, <1>2, <1>3, <1>7, <1>10, <1>11, <1>12 DEF Deferred
<1>14. Order'
  BY <1>2, <1>13 DEF Order
<1> QED BY <1>7, <1>14 DEF IInv

\* A pass that is lost has changed nothing.
LEMMA LosePassIInv ==
    ASSUME IInv, NEW s \in Sequencers, LosePass(s)
    PROVE  IInv'
<1>1. /\ lock = s /\ lock' = None /\ UNCHANGED <<setup, db, tx, next_xid, answers, commits>>
  BY DEF LosePass
<1>2. ~Inline /\ Deferred /\ IsDb(db) /\ Inline' = Inline
  BY <1>1 DEF IInv, Order, InlineInv, Types, Inline
<1>3. Types' /\ Identifiers' /\ Written' /\ ReversalsInv' /\ AnswersInv' /\ Running' = Running
  <2>1. lock' \in Clients \cup Sequencers \cup {None} /\ IsDb(db')
    BY <1>1, <1>2
  <2> QED BY <1>1, <2>1, OthersRest
<1>4. lock' \notin Clients /\ lock' \notin Sequencers
  BY <1>1, ActorsDiffer
<1>5. Deferred'
  BY <1>1, <1>2, <1>3, <1>4 DEF Deferred
<1> QED BY <1>2, <1>3, <1>5 DEF IInv, Order

\* Account records and entries are different tables.
LEMMA RegisterAccountIInv ==
    ASSUME IInv, NEW record, RegisterAccount(record)
    PROVE  IInv'
<1> DEFINE accounts == Insert(db.accounts, record.id, account_row(record.account))
<1>1. /\ db' = [db EXCEPT !.accounts = accounts]
      /\ UNCHANGED <<setup, tx, lock, pass, next_xid, answers, commits>> /\ IsDb(db)
  BY DEF RegisterAccount, register_account, IInv, Types
<1> HIDE DEF accounts
<1>2. /\ db' = [entries |-> db.entries, postings |-> db.postings,
                posting_dimensions |-> db.posting_dimensions, log_subtrees |-> db.log_subtrees,
                accounts |-> accounts, periods |-> db.periods, seals |-> db.seals,
                clearings |-> db.clearings, checkpoints |-> db.checkpoints]
  BY <1>1 DEF IsDb
<1>3. /\ db'.entries = db.entries /\ db'.postings = db.postings
      /\ db'.posting_dimensions = db.posting_dimensions /\ db'.log_subtrees = db.log_subtrees
  BY <1>2
<1>4. IsDb(db')
  <2>1. db' = [entries |-> db'.entries, postings |-> db'.postings,
               posting_dimensions |-> db'.posting_dimensions, log_subtrees |-> db'.log_subtrees,
               accounts |-> db'.accounts, periods |-> db'.periods, seals |-> db'.seals,
               clearings |-> db'.clearings, checkpoints |-> db'.checkpoints]
    BY <1>2
  <2> QED BY <1>1, <1>3, <2>1 DEF IsDb
<1>5. Types' /\ Identifiers' /\ Written' /\ ReversalsInv' /\ AnswersInv' /\ Running' = Running
  <2>1. lock' \in Clients \cup Sequencers \cup {None}
    BY <1>1 DEF IInv, Types
  <2> QED BY <1>1, <1>3, <1>4, <2>1, OthersRest
<1>6. Placed(db') = Placed(db) /\ Waits(db') = Waits(db)
  BY <1>3 DEF Placed, Waits
<1>7. \A c \in Clients : Continues(tx[c], db') <=> Continues(tx[c], db)
  BY <1>3 DEF Continues
<1>8. Inline' = Inline
  BY <1>1 DEF Inline
<1>9. CASE Inline
  <2>1. InlineInv
    BY <1>9 DEF IInv, Order
  <2>2. InlineInv'
    BY <1>1, <1>3, <1>5, <1>7, <2>1 DEF InlineInv
  <2> QED BY <1>5, <1>8, <1>9, <2>2 DEF IInv, Order
<1>10. CASE ~Inline
  <2>1. Deferred
    BY <1>10 DEF IInv, Order
  <2>2. PassInv => PassInv'
    BY <1>1, <1>3, <1>5, <1>6 DEF PassInv
  <2>3. Deferred'
    BY <1>1, <1>3, <1>5, <1>6, <2>1, <2>2 DEF Deferred
  <2> QED BY <1>5, <1>8, <1>10, <2>3 DEF IInv, Order
<1> QED BY <1>9, <1>10

-----------------------------------------------------------------------------
(***************************************************************************)
(* The invariant holds.                                                    *)
(***************************************************************************)
\* An empty database satisfies the invariant.
LEMMA InitIInv == Init => IInv
<1> SUFFICES ASSUME Init PROVE IInv
  OBVIOUS
<1> DEFINE accounts == [id \in {r.id : r \in Registrations} |->
                          account_row((CHOOSE r \in Registrations : r.id = id).account)]
<1>1. /\ setup \in DOMAIN Setups /\ db = [migrate EXCEPT !.accounts = accounts]
      /\ tx = [c \in Clients |-> Idle] /\ lock = None /\ next_xid = 1 /\ answers = {}
      /\ commits = <<>>
  BY DEF Init
<1> HIDE DEF accounts
<1>2. db = [entries |-> EmptyMap, postings |-> EmptyMap, posting_dimensions |-> {},
            log_subtrees |-> <<>>, accounts |-> accounts, periods |-> EmptyMap,
            seals |-> EmptyMap, clearings |-> EmptyMap, checkpoints |-> EmptyMap]
  BY <1>1 DEF migrate
<1>3. /\ db.entries = EmptyMap /\ db.postings = EmptyMap /\ db.posting_dimensions = {}
      /\ db.log_subtrees = <<>>
  BY <1>2
<1>4. DOMAIN EmptyMap = {} /\ EmptyMap = [id \in {} |-> EmptyMap[id]]
  BY DEF EmptyMap
<1>5. IsDb(db)
  <2>1. IsFiniteSet({})
    BY FS_EmptySet
  <2>2. <<>> \in Seq(Hash)
    OBVIOUS
  <2>3. db = [entries |-> db.entries, postings |-> db.postings,
              posting_dimensions |-> db.posting_dimensions, log_subtrees |-> db.log_subtrees,
              accounts |-> db.accounts, periods |-> db.periods, seals |-> db.seals,
              clearings |-> db.clearings, checkpoints |-> db.checkpoints]
    BY <1>2
  <2> QED BY <1>3, <1>4, <2>1, <2>2, <2>3 DEF IsDb
<1>6. \A c \in Clients : tx[c] = Idle /\ tx[c].pc = "idle" /\ tx[c].xid = 0 /\ tx[c].out = <<>>
  BY <1>1 DEF Idle
<1>7. Types
  <2>1. tx \in [Clients -> Transaction]
    BY <1>1, IdleIs
  <2>2. <<>> \in Seq(Nat)
    OBVIOUS
  <2> QED BY <1>1, <1>5, <2>1, <2>2 DEF Types
<1>8. Identifiers
  BY <1>1, <1>3, <1>4, <1>6 DEF Identifiers
<1>9. Written
  BY <1>3, <1>4, <1>6 DEF Written
<1>10. ReversalsInv
  BY <1>3, <1>4, <1>6 DEF ReversalsInv
<1>11. AnswersInv
  BY <1>1, <1>6 DEF AnswersInv
<1>12. Placed(db) = {} /\ Waits(db) = {} /\ Sees(db.entries, Running, 0) = {}
  BY <1>3, <1>4 DEF Placed, Waits, Sees
<1>13. Dense(db.entries, {}, db.log_subtrees)
  BY <1>3 DEF Dense
<1>14. lock \notin Clients /\ lock \notin Sequencers
  BY <1>1, ActorsDiffer
<1>15. InlineInv
  <2>1. commits \in [1..Len(db.log_subtrees) -> {}] /\ DOMAIN commits = {}
    BY <1>1, <1>3
  <2> QED BY <1>6, <1>12, <1>13, <1>14, <2>1 DEF InlineInv
<1>16. Deferred
  BY <1>6, <1>12, <1>13, <1>14 DEF Deferred
<1> QED BY <1>7, <1>8, <1>9, <1>10, <1>11, <1>15, <1>16 DEF IInv, Order

\* Nothing changes when no variable of the specification does.
LEMMA StutterIInv == IInv /\ UNCHANGED vars => IInv'
<1> SUFFICES ASSUME IInv, UNCHANGED vars PROVE IInv'
  OBVIOUS
<1>1. UNCHANGED <<setup, db, tx, lock, pass, next_xid, answers, commits>>
  BY DEF vars
<1>2. IsDb(db') /\ lock' \in Clients \cup Sequencers \cup {None}
  BY <1>1 DEF IInv, Types
<1>3. Types' /\ Identifiers' /\ Written' /\ ReversalsInv' /\ AnswersInv' /\ Running' = Running
  BY <1>1, <1>2, OthersRest
<1>4. Inline' = Inline /\ PassInv' = PassInv
  BY <1>1, <1>3 DEF Inline, PassInv
<1>5. InlineInv' = InlineInv /\ Deferred' = Deferred
  BY <1>1, <1>3, <1>4 DEF InlineInv, Deferred
<1> QED BY <1>3, <1>4, <1>5 DEF IInv, Order

\* Every step of anyone keeps the invariant.
LEMMA NextIInv == IInv /\ [Next]_vars => IInv'
<1> SUFFICES ASSUME IInv, [Next]_vars PROVE IInv'
  OBVIOUS
<1>1. ASSUME NEW c \in Clients, NEW batch \in Setups[setup].batches, Begin(c, batch) PROVE IInv'
  BY <1>1, BeginIInv
<1>2. ASSUME NEW c \in Clients, Step(c) PROVE IInv'
  BY <1>2, TakeLockIInv, CheckIdIInv, CheckReversalIInv, AssignXidIInv, InsertEntryIInv,
     InsertPostingIInv, CheckLimitIInv, CommitIInv, RollbackIInv DEF Step, DeadlockVictim
<1>3. ASSUME NEW c \in Clients, Lose(c) PROVE IInv'
  BY <1>3, RollbackIInv DEF Lose
<1>4. ASSUME NEW s \in Sequencers, SequencerStep(s) \/ LosePass(s) PROVE IInv'
  BY <1>4, ReadPassIInv, PlacePassIInv, LosePassIInv DEF SequencerStep
<1>5. ASSUME NEW record, RegisterAccount(record) PROVE IInv'
  BY <1>5, RegisterAccountIInv
<1> QED BY <1>1, <1>2, <1>3, <1>4, <1>5, StutterIInv DEF Next

\* Every reachable state satisfies the invariant.
THEOREM PostgresInvariant == Spec => []IInv
<1> QED BY InitIInv, NextIInv, PTL DEF Spec

-----------------------------------------------------------------------------
(***************************************************************************)
(* What the invariant says of the properties the runs check.               *)
(***************************************************************************)
\* What append answered stays true, for every reader and for ever: the row is
\* committed, its content is the one answered, and its position, if one was
\* answered, has not moved.
THEOREM AnswersAlwaysStand == Spec => []AnswersStand
<1>1. ASSUME IInv PROVE AnswersStand
  <2> SUFFICES ASSUME NEW a \in answers
               PROVE  /\ a.id \in DOMAIN Committed.entries
                      /\ Committed.entries[a.id].content_hash = a.content_hash
                      /\ a.index # Null => Committed.entries[a.id].log_index = a.index
    BY DEF AnswersStand
  <2>1. Right(db.entries, Running, 0, a) /\ IsDb(db)
    BY <1>1 DEF IInv, AnswersInv, Types
  <2>2. /\ DOMAIN Committed.entries = Sees(db.entries, Running, 0)
        /\ \A id \in Sees(db.entries, Running, 0) : Committed.entries[id] = db.entries[id]
    BY <2>1, SeenIs DEF Committed
  <2> QED BY <2>1, <2>2 DEF Right
<1> QED BY <1>1, PostgresInvariant, PTL

\* However many clients reverse the same entry at the same time, one reversal is
\* committed at most, of an entry that is committed and no reversal itself, and
\* its postings as they are read back invert those of that entry.
THEOREM EntriesAreReversedOnce == Spec => []ReversedOnce
<1>1. ASSUME IInv PROVE ReversedOnce
  <2> DEFINE t == Committed
             E == db.entries
             Row(id) == t.entries[id]
             Whole(id) == /\ Row(id).reverses \in DOMAIN t.entries
                          /\ ReversalOf(t, Row(id).reverses) = {id}
                          /\ t.entries[Row(id).reverses].reverses = None
                          /\ is_inversion_of(draft_from(t, Row(id).reverses), draft_from(t, id))
  <2>1. IsDb(db)
    BY <1>1 DEF IInv, Types
  <2>2. /\ DOMAIN t.entries = Sees(E, Running, 0)
        /\ \A id \in DOMAIN t.entries : id \in DOMAIN E /\ t.entries[id] = E[id]
    BY <2>1, SeenIs DEF Committed, Sees
  <2>3. ASSUME NEW id \in DOMAIN t.entries
        PROVE  draft_from(t, id).postings = E[id].content_hash.postings
    <3>1. \A c \in Clients : tx[c].xid = 0 => tx[c].pc # "post"
      BY <1>1 DEF IInv, Types, Transaction, Staged
    <3>2. load_postings_for(t, id) = E[id].content_hash.postings
      BY <1>1, <2>2, <3>1, ReadsWhole DEF Committed
    <3> QED BY <3>2 DEF draft_from
  <2> HIDE DEF t, E
  <2>4. ASSUME NEW id \in DOMAIN t.entries, Row(id).reverses # None PROVE Whole(id)
    <3> DEFINE o == E[id].reverses
    <3>1. id \in DOMAIN E /\ Row(id) = E[id] /\ o # None
      BY <2>2, <2>4
    <3>2. Reverses(E, Running, E[id].insert_xid, o, E[id].content_hash)
      BY <1>1, <3>1 DEF IInv, ReversalsInv, E
    <3>3. o \in DOMAIN t.entries /\ t.entries[o] = E[o] /\ o \in DOMAIN E
      <4>1. E[id].insert_xid = 0 \/ E[id].insert_xid \notin Running
        BY <2>2 DEF Sees
      <4>2. o \in Sees(E, Running, 0)
        BY <3>2, <4>1 DEF Reverses, Sees
      <4> QED BY <2>2, <4>2
    <3>4. ReversalOf(t, o) = {id}
      <4>1. ASSUME NEW r \in DOMAIN t.entries PROVE t.entries[r].reverses = o <=> r = id
        BY <1>1, <2>2, <3>1, <4>1 DEF IInv, ReversalsInv, E
      <4> QED BY <4>1 DEF ReversalOf
    <3>5. is_inversion_of(draft_from(t, o), draft_from(t, id))
      <4> DEFINE a == draft_from(t, o)
                 b == draft_from(t, id)
      <4>1. /\ a.postings = E[o].content_hash.postings
            /\ b.postings = E[id].content_hash.postings
        BY <2>3, <3>3
      <4>2. is_inversion_of(E[o].content_hash, E[id].content_hash)
        BY <3>2 DEF Reverses
      <4> HIDE DEF a, b
      <4>3. is_inversion_of(a, b)
        BY <4>1, <4>2 DEF is_inversion_of
      <4> QED BY <4>3 DEF a, b
    <3> QED BY <3>1, <3>2, <3>3, <3>4, <3>5 DEF Reverses
  <2> QED BY <2>4 DEF ReversedOnce, t
<1> QED BY <1>1, PostgresInvariant, PTL

\* The order of the log is final.  Inline, it is the order of the commits;
\* deferred, no pass ever places a row before one it has passed over, whenever
\* the transactions that wrote them began and ended.
THEOREM LogOrderIsFinal == Spec => []OrderIsFinal
<1>1. ASSUME IInv PROVE OrderIsFinal
  <2>1. CASE ~Inline
    BY <1>1, <2>1 DEF IInv, Order, Deferred, OrderIsFinal, XidOrder, Before, Waits
  <2>2. CASE Inline
    <3> DEFINE log == db.log_subtrees
               order == PlacedInOrder(Committed)
    <3>1. InlineInv /\ IsDb(db) /\ log \in Seq(Hash) /\ commits \in Seq(Nat)
      BY <1>1, <2>2 DEF IInv, Order, Types, IsDb
    <3>2. /\ Dense(Committed.entries, Placed(Committed), log)
          /\ Placed(Committed) = Sees(db.entries, Running, 0)
      BY <1>1, <2>2, CommittedLog
    <3>3. /\ sql_len(Committed) = Len(log) /\ order = [n \in 1..Len(log) |-> order[n]]
          /\ \A n \in 1..Len(log) : order[n] \in Sees(db.entries, Running, 0)
                                    /\ Committed.entries[order[n]].log_index = n
      BY <3>1, <3>2, DenseLog
    <3>4. \A id \in Sees(db.entries, Running, 0) : Committed.entries[id] = db.entries[id]
      BY <3>1, SeenIs DEF Committed
    <3>5. /\ commits \in [1..Len(log) -> Sees(db.entries, Running, 0)]
          /\ \A n \in DOMAIN commits : db.entries[commits[n]].log_index = n
          /\ Dense(db.entries, Sees(db.entries, Running, 0), log)
      BY <3>1 DEF InlineInv
    <3>6. ASSUME NEW n \in 1..Len(log) PROVE order[n] = commits[n]
      <4> DEFINE a == order[n]
                 b == commits[n]
                 ids == Sees(db.entries, Running, 0)
      <4>1. a \in ids /\ db.entries[a].log_index = n
        BY <3>3, <3>4
      <4>2. b \in ids /\ db.entries[b].log_index = n
        BY <3>5
      <4> HIDE DEF a, b, ids
      <4>3. a = b
        BY <3>5, <4>1, <4>2 DEF Dense, ids
      <4> QED BY <4>3 DEF a, b
    <3>7. SubSeq(commits, 1, Len(log)) = [n \in 1..Len(log) |-> commits[n]]
      <4>1. Len(log) \in Nat /\ DOMAIN commits = 1..Len(log)
        BY <3>1, <3>5
      <4>2. Len(commits) = Len(log)
        BY <3>1, <4>1
      <4> QED BY <3>1, <4>1, <4>2, SubSeqIs
    <3> HIDE DEF order
    <3>8. order = SubSeq(commits, 1, sql_len(Committed))
      BY <3>3, <3>6, <3>7
    <3> QED BY <2>2, <3>8 DEF OrderIsFinal, order
  <2> QED BY <2>1, <2>2
<1> QED BY <1>1, PostgresInvariant, PTL

\* The log as everyone reads it is what the stored accumulator covers.
LEMMA LogIs == IInv => leaves(Committed).leaves = db.log_subtrees /\ LogExact
<1> SUFFICES ASSUME IInv PROVE leaves(Committed).leaves = db.log_subtrees /\ LogExact
  OBVIOUS
<1> DEFINE t == Committed
           log == db.log_subtrees
           order == PlacedInOrder(t)
<1>1. IsDb(db) /\ log \in Seq(Hash) /\ Len(log) \in Nat /\ log = [n \in 1..Len(log) |-> log[n]]
  BY DEF IInv, Types, IsDb
<1>2. Dense(t.entries, Placed(t), log) /\ t.log_subtrees = log
  BY <1>1, CommittedLog, SeenIs DEF Committed
<1>3. /\ sql_len(t) = Len(log) /\ order = [n \in 1..Len(log) |-> order[n]]
      /\ \A n \in 1..Len(log) : order[n] \in Placed(t) /\ t.entries[order[n]].log_index = n
  BY <1>1, <1>2, DenseLog
<1> HIDE DEF t, log, order
<1>4. DOMAIN order = 1..Len(log)
  BY <1>3
<1>5. \A n \in 1..Len(log) : t.entries[order[n]].content_hash = log[n]
  BY <1>2, <1>3 DEF Dense
<1>6. [n \in DOMAIN order |-> t.entries[order[n]].content_hash] = log
  BY <1>1, <1>4, <1>5
<1>7. leaves(t) = [ok     |-> \A n \in DOMAIN order : t.entries[order[n]].log_index = n,
                   leaves |-> [n \in DOMAIN order |-> t.entries[order[n]].content_hash]]
  BY DEF leaves, order
<1>8. accumulator(t) = [ok |-> TRUE, leaves |-> log]
  BY <1>2, <1>3 DEF accumulator
<1>9. ASSUME NEW n \in 0..Len(log) PROVE sql_head_at(t, n) = SubSeq(log, 1, n)
  <2>1. CASE n = 0
    BY <1>1, <2>1 DEF sql_head_at
  <2>2. CASE n # 0
    <3>1. n \in 1..Len(log)
      BY <1>1, <2>2
    <3> DEFINE id == CHOOSE id \in Placed(t) : t.entries[id].log_index = n
    <3>2. id \in Placed(t) /\ t.entries[id].log_index = n
      BY <1>3, <3>1
    <3>3. sql_head_at(t, n) = t.entries[id].tree_root
      BY <2>2 DEF sql_head_at
    <3> QED BY <1>2, <3>2, <3>3 DEF Dense
  <2> QED BY <2>1, <2>2
<1>10. leaves(t).leaves = log
  BY <1>6, <1>7
<1>11. leaves(t).ok
  BY <1>3, <1>4, <1>7
<1> QED BY <1>8, <1>9, <1>10, <1>11 DEF LogExact, t, log

\* Whatever runs concurrently and whatever is lost, every reader is told one log:
\* its positions are dense, every row's root is that of the prefix it ends, and
\* the stored accumulator covers exactly the placed rows.
THEOREM LogIsExact == Spec => []LogExact
<1> QED BY LogIs, PostgresInvariant, PTL

\* A sequence is continued.
Extends(new, old) == Len(old) <= Len(new) /\ SubSeq(new, 1, Len(old)) = old

\* A step leaves every leaf that could be read where it was.
LogGrows == Extends(leaves(Committed).leaves', leaves(Committed).leaves)

\* A sequence extends itself.
LEMMA ExtendsSame ==
    ASSUME NEW s \in Seq(Hash)
    PROVE  Extends(s, s)
<1>1. Len(s) \in Nat /\ Len(s) \in 0..Len(s) /\ s = [n \in 1..Len(s) |-> s[n]]
  OBVIOUS
<1> QED BY <1>1, SubSeqIs DEF Extends

\* What a commit or a pass stores in the accumulator continues what was there.
LEMMA SubtreesGrow ==
    ASSUME IInv, [Next]_vars
    PROVE  Extends(db'.log_subtrees, db.log_subtrees)
<1> DEFINE log == db.log_subtrees
<1> SUFFICES Extends(db'.log_subtrees, log)
  OBVIOUS
<1>1. /\ Types /\ Identifiers /\ IsDb(db) /\ log \in Seq(Hash) /\ Len(log) \in Nat
      /\ Len(log) \in 0..Len(log) /\ log = [n \in 1..Len(log) |-> log[n]]
      /\ tx \in [Clients -> Transaction]
  BY DEF IInv, Types, IsDb
<1>2. db'.log_subtrees = log => Extends(db'.log_subtrees, log)
  BY <1>1, ExtendsSame
<1> HIDE DEF log
<1>3. ASSUME NEW c \in Clients, Rollback(c) PROVE db'.log_subtrees = log
  BY <1>1, <1>3, RollbackIs DEF log
<1>4. ASSUME NEW c \in Clients, CheckId(c) \/ CheckReversal(c) \/ InsertEntry(c) \/ InsertPosting(c)
                                \/ CheckLimit(c)
      PROVE  db'.log_subtrees = log
  <2>1. ASSUME UNCHANGED db PROVE db'.log_subtrees = log
    BY <2>1 DEF log
  <2>2. ASSUME NEW e, NEW x, NEW index, NEW root, db' = insert_entry(db, e, x, index, root)
        PROVE  db'.log_subtrees = log
    BY <1>1, <2>2 DEF insert_entry, IsDb, log
  <2>3. ASSUME NEW e, NEW i, db' = insert_posting(db, e, i) PROVE db'.log_subtrees = log
    BY <1>1, <2>3 DEF insert_posting, IsDb, log
  <2>4. CASE CheckId(c)
    BY <1>3, <2>1, <2>4 DEF CheckId
  <2>5. CASE CheckReversal(c)
    BY <1>3, <2>1, <2>5 DEF CheckReversal
  <2>6. CASE InsertEntry(c)
    BY <1>3, <2>1, <2>2, <2>6 DEF InsertEntry, Replay
  <2>7. CASE InsertPosting(c)
    BY <1>3, <2>1, <2>3, <2>7 DEF InsertPosting
  <2>8. CASE CheckLimit(c)
    BY <1>3, <2>1, <2>8 DEF CheckLimit
  <2> QED BY <1>4, <2>4, <2>5, <2>6, <2>7, <2>8
<1>5. ASSUME NEW c \in Clients, Commit(c) PROVE Extends(db'.log_subtrees, log)
  <2>1. CASE ~Inline
    BY <1>2, <1>5, <2>1 DEF Commit, log
  <2>2. CASE Inline
    <3> DEFINE acc == tx[c].acc
    <3>1. db'.log_subtrees = acc
      BY <1>1, <1>5, <2>2 DEF Commit, store_accumulator, IsDb
    <3>2. tx[c].pc = "commit" /\ acc \in Seq(Hash) /\ tx[c].mine \in Seq(Nat)
      BY <1>1, <1>5 DEF Commit, Transaction, Tx
    <3>3. Continues(tx[c], db) /\ Dense(db.entries, Sees(db.entries, Running, 0), log)
      <4>1. InlineInv
        BY <2>2 DEF IInv, Order
      <4> QED BY <3>2, <4>1 DEF InlineInv, log
    <3>4. Leaves(tx[c]) = acc
      BY <3>2 DEF Leaves
    <3> HIDE DEF acc
    <3>5. /\ Dense(db.entries, DOMAIN db.entries, acc)
          /\ Len(acc) = Len(log) + Len(tx[c].mine)
      BY <3>3, <3>4 DEF Continues, log
    <3>6. Len(tx[c].mine) \in Nat /\ Len(log) <= Len(acc) /\ Len(log) \in 0..Len(acc)
      BY <1>1, <3>2, <3>5
    <3>7. ASSUME NEW n \in 1..Len(log) PROVE acc[n] = log[n]
      <4>1. PICK id \in Sees(db.entries, Running, 0) : db.entries[id].log_index = n
        BY <3>3 DEF Dense
      <4>2. db.entries[id].content_hash = log[n]
        BY <3>3, <4>1 DEF Dense
      <4>3. id \in DOMAIN db.entries
        BY DEF Sees
      <4>4. db.entries[id].content_hash = acc[n]
        BY <3>5, <4>1, <4>3 DEF Dense
      <4> QED BY <4>2, <4>4
    <3>8. SubSeq(acc, 1, Len(log)) = [n \in 1..Len(log) |-> acc[n]]
      BY <3>2, <3>6, SubSeqIs
    <3>9. [n \in 1..Len(log) |-> acc[n]] = log
      BY <1>1, <3>7
    <3> QED BY <3>1, <3>6, <3>8, <3>9 DEF Extends
  <2> QED BY <2>1, <2>2
<1>6. ASSUME NEW s \in Sequencers, PlacePass(s) PROVE Extends(db'.log_subtrees, log)
  <2> DEFINE more == [n \in DOMAIN pass |-> db.entries[pass[n]].content_hash]
  <2>1. db' = sequence(db, pass) /\ PassInv
    BY <1>6 DEF PlacePass, IInv, Order, InlineInv, Deferred
  <2>2. db'.log_subtrees = log \o more
    BY <1>1, <2>1 DEF sequence, accumulator, IsDb, log
  <2>3. more \in Seq(Hash)
    <3>1. Len(pass) \in Nat /\ DOMAIN pass = 1..Len(pass)
      BY <2>1 DEF PassInv
    <3>2. \A n \in DOMAIN pass : db.entries[pass[n]].content_hash \in Hash
      BY <1>1, <2>1, RowIs DEF PassInv, Waits, IsDb
    <3>3. more \in [1..Len(pass) -> Hash]
      BY <3>1, <3>2
    <3> QED BY <3>1, <3>3
  <2> HIDE DEF more
  <2> DEFINE all == log \o more
  <2>4. /\ all \in Seq(Hash) /\ Len(all) = Len(log) + Len(more) /\ Len(more) \in Nat
        /\ \A n \in 1..Len(log) : all[n] = log[n]
    BY <1>1, <2>3, PrefixOf
  <2> HIDE DEF all
  <2>5. Len(log) <= Len(all) /\ Len(log) \in 0..Len(all)
    BY <1>1, <2>4
  <2>6. SubSeq(all, 1, Len(log)) = [n \in 1..Len(log) |-> all[n]]
    BY <2>4, <2>5, SubSeqIs
  <2>7. [n \in 1..Len(log) |-> all[n]] = log
    BY <1>1, <2>4
  <2> QED BY <2>2, <2>5, <2>6, <2>7 DEF Extends, all
<1>7. ASSUME NEW record, RegisterAccount(record) PROVE db'.log_subtrees = log
  BY <1>1, <1>7 DEF RegisterAccount, register_account, IsDb, log
<1>8. ASSUME NEW c \in Clients, Step(c) \/ Lose(c) PROVE Extends(db'.log_subtrees, log)
  <2>1. CASE TakeLock(c) \/ AssignXid(c)
    BY <1>2, <2>1 DEF TakeLock, AssignXid, log
  <2>2. CASE Rollback(c)
    BY <1>2, <1>3, <2>2
  <2> QED BY <1>2, <1>4, <1>5, <1>8, <2>1, <2>2 DEF Step, Lose, DeadlockVictim
<1>9. ASSUME NEW c \in Clients, NEW batch, Begin(c, batch) PROVE db'.log_subtrees = log
  BY <1>9 DEF Begin, log
<1>10. ASSUME NEW s \in Sequencers, ReadPass(s) \/ LosePass(s) PROVE db'.log_subtrees = log
  BY <1>10 DEF ReadPass, LosePass, log
<1>11. CASE UNCHANGED vars
  BY <1>2, <1>11 DEF vars, log
<1>12. CASE Next
  <2>1. CASE \E c \in Clients, batch \in Setups[setup].batches : Begin(c, batch)
    BY <1>2, <1>9, <2>1
  <2>2. CASE \E c \in Clients : Step(c) \/ Lose(c)
    BY <1>8, <2>2
  <2>3. CASE \E s \in Sequencers : SequencerStep(s) \/ LosePass(s)
    BY <1>2, <1>6, <1>10, <2>3 DEF SequencerStep
  <2>4. CASE \E record \in Setups[setup].records : RegisterAccount(record)
    BY <1>2, <1>7, <2>4
  <2> QED BY <1>12, <2>1, <2>2, <2>3, <2>4 DEF Next
<1> QED BY <1>11, <1>12

\* The log only grows: no step of anyone, a rollback, a lost connection or a lost
\* pass included, takes a leaf back that a reader of the committed rows was told
\* of, or changes it.
THEOREM LogOnlyGrows == Spec => [][LogGrows]_vars
<1>1. (IInv => leaves(Committed).leaves = db.log_subtrees)'
  BY LogIs, PTL
<1>2. IInv /\ IInv' /\ [Next]_vars => [LogGrows]_vars
  <2> SUFFICES ASSUME IInv, IInv', [Next]_vars PROVE LogGrows
    OBVIOUS
  <2>1. leaves(Committed).leaves' = db'.log_subtrees
    BY <1>1
  <2>2. leaves(Committed).leaves = db.log_subtrees
    BY LogIs
  <2>3. Extends(db'.log_subtrees, db.log_subtrees)
    BY SubtreesGrow
  <2> QED BY <2>1, <2>2, <2>3 DEF LogGrows
<1> QED BY <1>2, PostgresInvariant, PTL DEF Spec
=============================================================================
