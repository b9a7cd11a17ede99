-------------------------- MODULE AccountRegistry ---------------------------
(***************************************************************************)
(* The life of one AccountRegistry (src/account.rs): accounts are          *)
(* registered in any order, children before parents included, closed,      *)
(* reopened, limited, and restored from stored records.                    *)
(***************************************************************************)
EXTENDS Accounts

VARIABLE registry

RegistryInit == registry = AccountRegistry_new

-----------------------------------------------------------------------------
(***************************************************************************)
(* Actions.  A refused call changes nothing and is no step.                *)
(***************************************************************************)
Register(account) ==
    /\ CanRegister(registry, account)
    /\ registry' = register(registry, account)

Close(id, on) ==
    /\ CanClose(registry, id, on)
    /\ registry' = close(registry, id, on)

Reopen(id) ==
    /\ id \in Handles(registry)
    /\ registry' = reopen(registry, id)

SetLimit(id, limit) ==
    /\ id \in Handles(registry)
    /\ registry' = set_limit(registry, id, limit)

\* A backend replaying its account table, or a caller pushing a change of
\* master data: any record at all may be offered.
Restore(record) ==
    /\ CanRestore(registry, record)
    /\ registry' = restore(registry, record)

RegistryNext ==
    \/ \E account \in Account : Register(account)
    \/ \E id \in Handles(registry), on \in Dates : Close(id, on)
    \/ \E id \in Handles(registry) : Reopen(id)
    \/ \E id \in Handles(registry), limit \in Limits : SetLimit(id, limit)
    \/ \E id \in 1..(Len(registry.accounts) + 2), account \in Account :
          Restore([id |-> id, account |-> account])

RegistrySpec == RegistryInit /\ [][RegistryNext]_registry

-----------------------------------------------------------------------------
(***************************************************************************)
(* Properties.                                                             *)
(***************************************************************************)
\* Type invariant of the registry: one handle per account, and every open
\* window is a window.
RegistryTypeOK ==
    /\ registry.accounts \in Seq(Account)
    /\ registry.index \in [DOMAIN registry.index -> Handles(registry)]
    /\ registry.child_count \in [Handles(registry) -> Nat]
    /\ \A h \in Handles(registry) : WindowIsValid(registry.accounts[h])

\* Path and handle name each other: the index holds every registered path,
\* under the handle of the account with that path, and no path twice.
RegistryIndexExact ==
    /\ DOMAIN registry.index = {registry.accounts[h].path : h \in Handles(registry)}
    /\ \A h \in Handles(registry) : registry.index[registry.accounts[h].path] = h

\* The count that decides whether an account may be posted to is the number of
\* registered descendants, whichever of parent and child was registered first,
\* although register only scans the index up to the first non-descendant.
ChildCountExact ==
    \A h \in Handles(registry) :
        registry.child_count[h] =
            Cardinality({p \in DOMAIN registry.index :
                            /\ p # registry.accounts[h].path
                            /\ is_under(p, registry.accounts[h].path)})

\* A handle is never repointed.  Whatever the registry does, every binding it
\* committed to before the step still proves, against that commitment, after it.
BindingsForever ==
    [][\A h \in Handles(registry) :
          LET size == Len(registry.accounts) IN
          /\ CanProveBindingAt(registry', h, size)
          /\ verify_binding(prove_binding_at(registry', h, size), commitment(registry))
      ]_registry
=============================================================================
