------------------------------ MODULE Accounts ------------------------------
(***************************************************************************)
(* The account registry: src/account.rs.                                   *)
(*                                                                         *)
(* A path is a sequence of segments, each a natural number so that the     *)
(* segment-wise order of the code is the order of the model.  A registry   *)
(* is the record of its accounts in handle order, the index from path to   *)
(* handle, and the count of registered descendants of each.  A handle is   *)
(* the position of its account, counted from 1 here and from 0 in the code.*)
(* A Merkle head stands for the sequence of leaves it commits to.          *)
(***************************************************************************)
EXTENDS Values

CONSTANTS
    Paths,          \* the account paths a caller may register
    Limits,         \* the balance limits in use, of BalanceLimit
    MaxAccounts     \* how many handles exist: RegistryFull beyond it

BalanceLimit == {"Unlimited", "NoCreditBalance", "NoDebitBalance"}

ASSUME PathsAreSegmented == Paths \subseteq Seq(Nat) \ {<<>>}
ASSUME LimitsAreKnown == Limits \subseteq BalanceLimit
ASSUME HandlesAreBounded == MaxAccounts \in Nat

Account == [path : Paths, opened_on : Dates, closed_on : Dates \cup {NoDate},
            limit : Limits]

-----------------------------------------------------------------------------
(***************************************************************************)
(* Paths.                                                                  *)
(***************************************************************************)
\* Every strict prefix that is itself a path.
ancestors(path) == {SubSeq(path, 1, n) : n \in 1..(Len(path) - 1)}

is_under(path, other) == IsPrefix(other, path)

\* Ord on AccountPath: lexicographic by segment, a prefix before its extensions.
PathLess(p, q) ==
    \/ IsStrictPrefix(p, q)
    \/ \E i \in DOMAIN p \cap DOMAIN q :
          p[i] < q[i] /\ \A j \in 1..(i - 1) : p[j] = q[j]

-----------------------------------------------------------------------------
(***************************************************************************)
(* Limits and open windows.                                                *)
(***************************************************************************)
permits(limit, balance) ==
    CASE limit = "Unlimited"       -> TRUE
      [] limit = "NoCreditBalance" -> balance.debits >= balance.credits
      [] limit = "NoDebitBalance"  -> balance.credits >= balance.debits

is_open_on(account, date) ==
    account.opened_on <= date /\ (account.closed_on # NoDate => date <= account.closed_on)

\* ClosedBeforeOpened, which register, close and restore each refuse.
WindowIsValid(account) ==
    account.closed_on # NoDate => account.closed_on >= account.opened_on

-----------------------------------------------------------------------------
(***************************************************************************)
(* The registry.                                                           *)
(***************************************************************************)
AccountRegistry_new == [accounts |-> <<>>, index |-> EmptyMap, child_count |-> <<>>]

Handles(reg) == DOMAIN reg.accounts

get(reg, id) == reg.accounts[id]

\* The scan of the index from `prefix` on: it stops at the first path that is
\* not under it, and relies on the order to have met every descendant by then.
descendant_range(reg, prefix) ==
    {p \in DOMAIN reg.index :
        /\ PathLess(prefix, p)
        /\ \A q \in DOMAIN reg.index :
              PathLess(prefix, q) /\ (q = p \/ PathLess(q, p)) => is_under(q, prefix)}

CanRegister(reg, account) ==
    /\ WindowIsValid(account)
    /\ account.path \notin DOMAIN reg.index
    /\ Len(reg.accounts) < MaxAccounts

\* Registering a path turns its registered ancestors into nodes, and counts the
\* descendants that are there already.
register(reg, account) ==
    [accounts    |-> Append(reg.accounts, account),
     index       |-> Insert(reg.index, account.path, Len(reg.accounts) + 1),
     child_count |-> Append([h \in Handles(reg) |->
                                IF reg.accounts[h].path \in ancestors(account.path)
                                THEN reg.child_count[h] + 1
                                ELSE reg.child_count[h]],
                            Cardinality(descendant_range(reg, account.path)))]

is_leaf(reg, id) == reg.child_count[id] = 0

limit_of(reg, id) == IF id \in Handles(reg) THEN reg.accounts[id].limit ELSE "Unlimited"

CanClose(reg, id, on) == id \in Handles(reg) /\ on >= reg.accounts[id].opened_on

\* Master data moves; the index and the counts stay.
WithAccount(reg, id, account) ==
    [accounts    |-> [reg.accounts EXCEPT ![id] = account],
     index       |-> reg.index,
     child_count |-> reg.child_count]

close(reg, id, on) == WithAccount(reg, id, [reg.accounts[id] EXCEPT !.closed_on = on])

reopen(reg, id) == WithAccount(reg, id, [reg.accounts[id] EXCEPT !.closed_on = NoDate])

set_limit(reg, id, limit) == WithAccount(reg, id, [reg.accounts[id] EXCEPT !.limit = limit])

-----------------------------------------------------------------------------
(***************************************************************************)
(* Stored records: what survives a restart.                                *)
(***************************************************************************)
records(reg) == {[id |-> h, account |-> reg.accounts[h]] : h \in Handles(reg)}

\* At a handle already held the path must agree and the rest is taken from the
\* record; otherwise the record must carry the next handle.
CanRestore(reg, record) ==
    IF record.id \in Handles(reg)
    THEN /\ reg.accounts[record.id].path = record.account.path
         /\ WindowIsValid(record.account)
    ELSE record.id = Len(reg.accounts) + 1 /\ CanRegister(reg, record.account)

restore(reg, record) ==
    IF record.id \in Handles(reg)
    THEN WithAccount(reg, record.id, record.account)
    ELSE register(reg, record.account)

\* Sorted by handle and restored one by one, stopping at the first refusal.
from_records_PathOrder(stored) ==
    FoldLeft(LAMBDA acc, r :
                IF acc.ok /\ CanRestore(acc.registry, r)
                THEN [ok |-> TRUE, registry |-> restore(acc.registry, r)]
                ELSE [acc EXCEPT !.ok = FALSE],
             [ok |-> TRUE, registry |-> AccountRegistry_new],
             OrderBy(stored, LAMBDA r, s : PathLess(r.account.path, s.account.path)))

from_records(stored) ==
    FoldLeft(LAMBDA acc, r :
                IF acc.ok /\ CanRestore(acc.registry, r)
                THEN [ok |-> TRUE, registry |-> restore(acc.registry, r)]
                ELSE [acc EXCEPT !.ok = FALSE],
             [ok |-> TRUE, registry |-> AccountRegistry_new],
             OrderBy(stored, LAMBDA r, s : r.id < s.id))

-----------------------------------------------------------------------------
(***************************************************************************)
(* Commitments.  A leaf is the binding of a handle to its path.            *)
(***************************************************************************)
account_binding_leaf(id, path) == [id |-> id, path |-> path]

binding_log(reg) ==
    [h \in Handles(reg) |-> account_binding_leaf(h, reg.accounts[h].path)]

commitment(reg) == binding_log(reg)

\* The proof that `id` was bound to its path when the registry had `size`
\* handles: none beyond the registry, or for a handle not issued by then.
CanProveBindingAt(reg, id, size) == size <= Len(reg.accounts) /\ id \in 1..size

prove_binding_at(reg, id, size) ==
    [id    |-> id,
     path  |-> reg.accounts[id].path,
     proof |-> [leaf_index |-> id, leaves |-> SubSeq(binding_log(reg), 1, size)]]

verify_binding(binding, head) ==
    /\ binding.proof.leaf_index = binding.id
    /\ binding.proof.leaves = head
    /\ binding.proof.leaves[binding.id] = account_binding_leaf(binding.id, binding.path)
=============================================================================
