--------------------------- MODULE PostgresReaders --------------------------
(***************************************************************************)
(* Those who read a PostgreSQL ledger while it is written: pages of the    *)
(* log, of an account statement and of its open items, clearings and their *)
(* release, and checkpoints.                                               *)
(*                                                                         *)
(* Every query runs on its own.  A page of the log reads its rows and then *)
(* counts the log; a page of a statement reads the opening balance and     *)
(* then its lines; a clearing reads one posting after another under the    *)
(* append lock and then writes; a checkpoint reads the head and then folds *)
(* the balance.  Entries are booked and placed in between, and clearings   *)
(* are released without the lock.                                          *)
(***************************************************************************)
EXTENDS SqlTables

CONSTANTS
    Setups,         \* the ways the store is used, by name: the sequencing mode, who
                    \* pages, clears and takes checkpoints, what they page through,
                    \* the page sizes they ask for and the clearings they submit
    OnKey,          \* the balance key they ask about
    Chart,          \* the accounts, in handle order
    Bookings        \* the entries that arrive meanwhile

ASSUME SetupsAreComplete ==
    \A s \in DOMAIN Setups : /\ Setups[s].sequencing \in {"Inline", "Deferred"}
                             /\ Setups[s].lists \subseteq {"page", "statement", "open_items"}

ASSUME ArrivalsAreTyped ==
    /\ \A e \in Bookings :
          /\ e.postings \in Seq(Posting)
          /\ \A i \in DOMAIN e.postings : e.postings[i].amount >= 0
    /\ \A s \in DOMAIN Setups : \A a \in Setups[s].assignments :
          /\ a.items \in Seq({a.items[n] : n \in DOMAIN a.items})
          /\ \A n \in DOMAIN a.items :
                LET item == a.items[n] IN
                /\ item.applied \in Int
                /\ item.posting = [entry |-> item.posting.entry, index |-> item.posting.index]

VARIABLES
    setup,          \* which of them this is
    db,             \* the tables
    reader,         \* the cursor of each reader and what it has collected
    clerk,          \* the clearing each clerk is checking
    saver           \* what each saver has read

vars == <<setup, db, reader, clerk, saver>>

Inline == Setups[setup].sequencing = "Inline"
Readers == Setups[setup].readers
Clerks == Setups[setup].clerks
Savers == Setups[setup].savers
Assignments == Setups[setup].assignments

AtRest == [pc |-> "idle"]

Init ==
    /\ setup \in DOMAIN Setups
    /\ db = [migrate EXCEPT !.accounts = [h \in DOMAIN Chart |-> account_row(Chart[h])]]
    /\ reader = [r \in Readers |-> AtRest]
    /\ clerk = [c \in Clerks |-> AtRest]
    /\ saver = [s \in Savers |-> AtRest]

-----------------------------------------------------------------------------
(***************************************************************************)
(* The writers.  A clearing in progress holds the lock that an inline      *)
(* append and a sequencing pass take.                                      *)
(***************************************************************************)
LockIsFree_Never(others) == TRUE

LockIsFree(others) == \A c \in others : clerk[c].pc = "idle"

Book(e) ==
    /\ e.id \notin DOMAIN db.entries
    /\ Inline => LockIsFree(Clerks)
    /\ db' = append_rows(db, e, 0, Inline)

Place(id) ==
    /\ ~Inline
    /\ LockIsFree(Clerks)
    /\ id \in DOMAIN db.entries \ Placed(db)
    /\ db' = place_row(db, id)

-----------------------------------------------------------------------------
(***************************************************************************)
(* Readers.  Each drains its list from the start, page by page, as         *)
(* all_open_items does.  `wanted` is a history: what was open at the start *)
(* and has not been closed since.                                          *)
(***************************************************************************)
OpenRefs == {ref \in {[entry |-> k[1], index |-> k[2]] : k \in prefix_bound(db, sql_len(db))} :
                posting_facts(db, ref).key = OnKey /\ posting_facts(db, ref).residual > 0}

Ask(r, list, limit) ==
    /\ reader[r].pc = "idle"
    /\ reader' = [reader EXCEPT ![r] =
                    [pc |-> "rows", list |-> list, got |-> <<>>, found |-> <<>>,
                     opening |-> Balance_ZERO, size |-> sql_len(db), wanted |-> OpenRefs,
                     cursor |-> Cursor(IF list = "page" THEN 0 ELSE Start, limit)]]

\* What a page adds, and whether there is another: the first query of the next.
Collect(r, items, next) ==
    reader' = [reader EXCEPT
        ![r].got    = @ \o items,
        ![r].cursor = IF next = None THEN @ ELSE next,
        ![r].found  = <<>>,
        ![r].pc     = IF next = None THEN "done"
                      ELSE IF reader[r].list = "statement" THEN "opening" ELSE "rows"]

ReadOpening(r) ==
    /\ reader[r].pc = "opening"
    /\ reader' = [reader EXCEPT ![r].opening = opening_balance(db, OnKey, reader[r].cursor.after),
                                ![r].pc = "rows"]

ReadLines(r) ==
    /\ reader[r].pc = "rows" /\ reader[r].list = "statement"
    /\ LET found == statement_lines(db, OnKey, reader[r].cursor, reader[r].opening) IN
          Collect(r, found.items, found.next)

\* An empty page ends the drain.
ReadItems(r) ==
    /\ reader[r].pc = "rows" /\ reader[r].list = "open_items"
    /\ LET found == sql_open_items(db, OnKey, reader[r].cursor) IN
          Collect(r, found.items, IF found.items = <<>> THEN None ELSE found.next)

ReadRows(r) ==
    /\ reader[r].pc = "rows" /\ reader[r].list = "page"
    /\ reader' = [reader EXCEPT ![r].found = page_rows(db, reader[r].cursor), ![r].pc = "count"]

ReadCount(r) ==
    /\ reader[r].pc = "count"
    /\ Collect(r, [n \in DOMAIN reader[r].found |-> build_stored_entry(db, reader[r].found[n])],
               page_end(db, reader[r].found, reader[r].cursor))

Finish(r) ==
    /\ reader[r].pc = "done"
    /\ reader' = [reader EXCEPT ![r] = AtRest]

ReaderStep(r) ==
    ReadOpening(r) \/ ReadLines(r) \/ ReadItems(r) \/ ReadRows(r) \/ ReadCount(r) \/ Finish(r)

\* The items that stay open are followed through every change of the tables.
Follow ==
    reader' = [r \in Readers |->
                 IF reader[r].pc = "idle" THEN reader[r]
                 ELSE [reader[r] EXCEPT !.wanted = @ \cap OpenRefs']]

-----------------------------------------------------------------------------
(***************************************************************************)
(* clear, one posting after another, and reset_clearing.                   *)
(***************************************************************************)
BeginClear(c, assignment) ==
    /\ clerk[c].pc = "idle"
    /\ LockIsFree(Clerks \ {c})
    /\ clearing_is_well_formed(db, assignment)
    /\ clerk' = [clerk EXCEPT ![c] = [pc |-> "facts", clearing |-> assignment, next |-> 1,
                                      sides |-> Balance_ZERO]]

\* An item that holds, counted on its side.
WithSide(checked, item) ==
    [checked EXCEPT !.next = @ + 1, !.sides = add_side(db, @, item)]

\* The posting of one item: checked, and its side added.
CheckItem(c) ==
    /\ clerk[c].pc = "facts"
    /\ clerk[c].next <= Len(clerk[c].clearing.items)
    /\ LET item == clerk[c].clearing.items[clerk[c].next] IN
          clerk' = [clerk EXCEPT ![c] =
              IF item_holds(db, @.clearing, item) THEN WithSide(@, item) ELSE AtRest]

\* Balanced sides are written and committed; others are refused.
CommitClear(c) ==
    /\ clerk[c].pc = "facts"
    /\ clerk[c].next > Len(clerk[c].clearing.items)
    /\ db' = IF is_balanced(clerk[c].sides) THEN sql_clear(db, clerk[c].clearing) ELSE db
    /\ clerk' = [clerk EXCEPT ![c] = AtRest]

ResetClearing(id) ==
    /\ sql_CanReset(db, id)
    /\ db' = sql_reset_clearing(db, id, 1)

-----------------------------------------------------------------------------
(***************************************************************************)
(* A checkpoint: the head, the balance under it, and the row.              *)
(***************************************************************************)
CheckpointHead(s) ==
    /\ saver[s].pc = "idle"
    /\ saver' = [saver EXCEPT ![s] = [pc |-> "fold", head |-> sql_head(db)]]

CheckpointFold_Latest(s) ==
    /\ saver[s].pc = "fold"
    /\ saver' = [saver EXCEPT ![s] =
                   [pc |-> "save", head |-> @.head,
                    balance |-> fold_balance(db, OnKey, sql_len(db))]]

CheckpointFold(s) ==
    /\ saver[s].pc = "fold"
    /\ saver' = [saver EXCEPT ![s] =
                   [pc |-> "save", head |-> @.head,
                    balance |-> fold_balance(db, OnKey, Len(@.head))]]

CheckpointSave(s) ==
    /\ saver[s].pc = "save"
    /\ db' = save_checkpoint(db, [key |-> OnKey, balance |-> saver[s].balance,
                                  tree_head |-> saver[s].head])
    /\ saver' = [saver EXCEPT ![s] = AtRest]

-----------------------------------------------------------------------------
Next ==
    \/ /\ \E e \in Bookings : Book(e) \/ Place(e.id)
       /\ Follow
       /\ UNCHANGED <<setup, clerk, saver>>
    \/ /\ \E r \in Readers, list \in Setups[setup].lists, limit \in Setups[setup].limits :
             Ask(r, list, limit)
       /\ UNCHANGED <<setup, db, clerk, saver>>
    \/ /\ \E r \in Readers : ReaderStep(r)
       /\ UNCHANGED <<setup, db, clerk, saver>>
    \/ /\ \E c \in Clerks, assignment \in Assignments : BeginClear(c, assignment)
       /\ UNCHANGED <<setup, db, reader, saver>>
    \/ /\ \E c \in Clerks : CheckItem(c)
       /\ UNCHANGED <<setup, db, reader, saver>>
    \/ /\ \E c \in Clerks : CommitClear(c)
       /\ Follow
       /\ UNCHANGED <<setup, saver>>
    \/ /\ \E assignment \in Assignments : ResetClearing(assignment.id)
       /\ Follow
       /\ UNCHANGED <<setup, clerk, saver>>
    \/ /\ \E s \in Savers : CheckpointHead(s) \/ CheckpointFold(s)
       /\ UNCHANGED <<setup, db, reader, clerk>>
    \/ /\ \E s \in Savers : CheckpointSave(s)
       /\ UNCHANGED <<setup, reader, clerk>>

Spec == Init /\ [][Next]_vars

-----------------------------------------------------------------------------
Reading(list) == {r \in Readers : reader[r].pc # "idle" /\ reader[r].list = list}

\* A reader that pages through the log sees every entry that was in it when it
\* started, once, in order and intact; and the lines it has put together from
\* pages of a statement, cut anywhere inside an entry and read at different times,
\* are the statement of the journal from its start, running balances included.
PagesExact ==
    /\ \A r \in Reading("page") :
          /\ \A n \in DOMAIN reader[r].got :
                /\ reader[r].got[n].ok
                /\ reader[r].got[n].index = n
                /\ reader[r].got[n].entry = AsBooks(db).entries[n]
          /\ reader[r].pc = "done" => Len(reader[r].got) >= reader[r].size
    /\ \A r \in Reading("statement") :
          reader[r].got = Take(statement(AsBooks(db), OnKey), Len(reader[r].got))

\* An item that was open when a reader started and stayed open is on one of the
\* pages it drained, and no item is listed twice or out of order, whatever was
\* booked, cleared and released between the pages.
OpenItemsComplete ==
    \A r \in Reading("open_items") :
        LET got == reader[r].got IN
        /\ \A m, n \in DOMAIN got : m < n => After(got[n].position, got[m].position)
        /\ reader[r].pc = "done" =>
              reader[r].wanted \subseteq {got[n].posting : n \in DOMAIN got}

\* Nothing is applied to a posting beyond its amount, whoever clears and releases
\* at the same time.
NeverOverApplied ==
    \A k \in DOMAIN db.postings : applied_minor(db, k) <= db.postings[k].amount_minor

\* A checkpoint taken by several queries and saved late, over a later one even,
\* verifies against the journal.
CheckpointsVerify ==
    \A k \in DOMAIN db.checkpoints : verify_checkpoint(AsBooks(db), load_checkpoint(db, k))
=============================================================================
