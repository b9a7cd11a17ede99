----------------------------- MODULE Clearings ------------------------------
(***************************************************************************)
(* The clearing register: src/clearing.rs.                                 *)
(*                                                                         *)
(* A clearing assigns amounts of postings on one balance key to each       *)
(* other.  The register keeps the events, and derives from them what has   *)
(* been applied to each posting.  A posting is named by its entry and its  *)
(* place in it; the books resolve the name.                                *)
(***************************************************************************)
EXTENDS Books

ClearingRegister_new ==
    [events |-> <<>>, applied |-> EmptyMap, reset |-> EmptyMap, by_id |-> EmptyMap]

\* PostingIndex: the posting a reference names, when it names one.
Resolves(books, ref) ==
    /\ ref.entry \in DOMAIN books.by_id
    /\ ref.index \in DOMAIN books.entries[books.by_id[ref.entry]].postings

posting(books, ref) == books.entries[books.by_id[ref.entry]].postings[ref.index]

key(clearing) ==
    [account |-> clearing.account, currency |-> clearing.currency, layer |-> clearing.layer]

Refs(clearing) == {clearing.items[n].posting : n \in DOMAIN clearing.items}

applied_to(reg, ref) == IF ref \in DOMAIN reg.applied THEN reg.applied[ref] ELSE 0

residual_of(reg, books, ref) == posting(books, ref).amount - applied_to(reg, ref)

-----------------------------------------------------------------------------
(***************************************************************************)
(* Recording a clearing, and releasing it.                                 *)
(***************************************************************************)
\* What a clearing applies, side by side.
Sides(books, clearing) ==
    FoldLeft(LAMBDA sides, item :
                add(sides, [direction |-> posting(books, item.posting).direction,
                            amount    |-> item.applied]),
             Balance_ZERO, clearing.items)

SidesMatch_Unchecked(books, clearing) == TRUE

SidesMatch(books, clearing) ==
    is_balanced(Sides(books, clearing)) /\ ~Overflows(Sides(books, clearing))

\* An item names a posting on the key of the clearing, and no more of it than
\* is still open.
ItemHolds(reg, books, clearing, item) ==
    /\ item.applied > 0
    /\ Resolves(books, item.posting)
    /\ key_of(posting(books, item.posting)) = key(clearing)
    /\ item.applied <= residual_of(reg, books, item.posting)

CanClear(reg, books, clearing) ==
    /\ clearing.id \notin DOMAIN reg.by_id
    /\ Len(clearing.items) >= 2
    /\ Cardinality(Refs(clearing)) = Len(clearing.items)
    /\ \A n \in DOMAIN clearing.items : ItemHolds(reg, books, clearing, clearing.items[n])
    /\ SidesMatch(books, clearing)

\* What a clearing applies to a posting: each occurs in it once, or not at all.
AppliedBy(clearing, ref) ==
    IF ref \in Refs(clearing)
    THEN clearing.items[CHOOSE n \in DOMAIN clearing.items :
                            clearing.items[n].posting = ref].applied
    ELSE 0

clear(reg, clearing) ==
    [events  |-> Append(reg.events, [kind |-> "Cleared", clearing |-> clearing]),
     applied |-> [ref \in DOMAIN reg.applied \cup Refs(clearing) |->
                    applied_to(reg, ref) + AppliedBy(clearing, ref)],
     reset   |-> reg.reset,
     by_id   |-> Insert(reg.by_id, clearing.id, Len(reg.events) + 1)]

CanReset(reg, id) == id \in DOMAIN reg.by_id /\ id \notin DOMAIN reg.reset

reset_KeepsApplied(reg, id, on) ==
    [events  |-> Append(reg.events, [kind |-> "Reset", clearing |-> id, on |-> on]),
     applied |-> reg.applied,
     reset   |-> Insert(reg.reset, id, on),
     by_id   |-> reg.by_id]

reset(reg, id, on) ==
    LET clearing == reg.events[reg.by_id[id]].clearing IN
    [events  |-> Append(reg.events, [kind |-> "Reset", clearing |-> id, on |-> on]),
     applied |-> [ref \in DOMAIN reg.applied |->
                    applied_to(reg, ref) - AppliedBy(clearing, ref)],
     reset   |-> Insert(reg.reset, id, on),
     by_id   |-> reg.by_id]

-----------------------------------------------------------------------------
\* A posting on a balance key, and what is left of it.
open_item(reg, books, site) ==
    LET ref == [entry |-> books.entries[site.index].id, index |-> site.posting] IN
    [position  |-> site, posting |-> ref,
     direction |-> resolve(books, site).direction,
     original  |-> resolve(books, site).amount,
     applied   |-> applied_to(reg, ref),
     residual  |-> residual_of(reg, books, ref)]

\* The postings on a balance key with something outstanding, oldest first.
open_items(reg, books, on_key) ==
    FoldLeft(LAMBDA open, site :
                IF open_item(reg, books, site).residual > 0
                THEN Append(open, open_item(reg, books, site)) ELSE open,
             <<>>, SitesOn(books.sites, on_key))
=============================================================================
