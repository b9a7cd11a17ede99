----------------------------- MODULE MerkleLog ------------------------------
(***************************************************************************)
(* A log over its life: a journal appends a batch leaf by leaf and either  *)
(* keeps it or drops it again (MerkleLog::truncate), an auditor archives   *)
(* heads, and a stored leaf may be changed behind the log's back, after    *)
(* which the log is built anew from what is stored (from_leaves).          *)
(***************************************************************************)
EXTENDS Merkle

CONSTANTS
    Payloads,       \* what a leaf may commit to
    Bounds          \* the bounds on a log's life, each a record: how many leaves it
                    \* gets, how many heads an auditor keeps, and how many stored
                    \* leaves are changed

ASSUME BoundsAreNatural == Bounds \subseteq [leaves : Nat, heads : Nat, rewrites : Nat]

VARIABLES
    bound,          \* the bounds of this log
    leaves,         \* the payloads, in order
    accumulator,    \* the perfect subtrees over them
    committed,      \* how many leaves belong to batches that returned
    archive,        \* the heads the auditor holds, each with the leaves it was of
    rewrites        \* how many leaves have been changed

vars == <<bound, leaves, accumulator, committed, archive, rewrites>>

Init ==
    /\ bound \in Bounds
    /\ leaves = <<>> /\ accumulator = MerkleAccumulator_new
    /\ committed = 0 /\ archive = {} /\ rewrites = 0

append(payload) ==
    /\ Len(leaves) < bound.leaves
    /\ leaves' = Append(leaves, payload) /\ accumulator' = push(accumulator, payload)
    /\ UNCHANGED <<bound, committed, archive, rewrites>>

\* The batch returned.
Keep ==
    /\ committed < Len(leaves)
    /\ committed' = Len(leaves)
    /\ UNCHANGED <<bound, leaves, accumulator, archive, rewrites>>

\* The batch was refused part of the way.
truncate ==
    /\ committed < Len(leaves)
    /\ leaves' = Prefix(leaves, committed)
    /\ accumulator' = from_leaves(leaves')
    /\ UNCHANGED <<bound, committed, archive, rewrites>>

\* Heads are read between batches.
Archive ==
    /\ committed = Len(leaves) /\ Cardinality(archive) < bound.heads
    /\ archive' = archive \cup {[head |-> [size |-> accumulator.size, root |-> root(accumulator)],
                                 of |-> leaves]}
    /\ UNCHANGED <<bound, leaves, accumulator, committed, rewrites>>

Rewrite(n, payload) ==
    /\ rewrites < bound.rewrites /\ committed = Len(leaves)
    /\ leaves' = [leaves EXCEPT ![n] = payload]
    /\ accumulator' = from_leaves(leaves')
    /\ rewrites' = rewrites + 1
    /\ UNCHANGED <<bound, committed, archive>>

Next ==
    \/ \E payload \in Payloads : append(payload)
    \/ Keep \/ truncate \/ Archive
    \/ \E n \in DOMAIN leaves, payload \in Payloads : Rewrite(n, payload)

Spec == Init /\ [][Next]_vars

-----------------------------------------------------------------------------
head == [size |-> Len(leaves), root |-> root(accumulator)]

\* Rows of a stored stack that were lost, repeated or reordered, or that belong to
\* another size.
Damaged(rows) ==
    {[rows |-> RemoveAt(rows, n), size |-> Len(leaves)] : n \in DOMAIN rows}
    \cup {[rows |-> InsertAt(rows, n, rows[n]), size |-> Len(leaves)] : n \in DOMAIN rows}
    \cup {[rows |-> [rows EXCEPT ![n] = rows[n - 1], ![n - 1] = rows[n]], size |-> Len(leaves)] :
             n \in 2..Len(rows)}
    \cup {[rows |-> rows, size |-> n] : n \in (0..(bound.leaves + 1)) \ {Len(leaves)}}

\* The stack that push and truncate maintain gives the root the tree hash is
\* defined by, at every size and after every dropped batch.  try_from_parts accepts
\* it, and no stack of other rows for that size; a node with another hash in it
\* keeps its shape, and shows when the stack is checked against the leaves.
StackAgrees ==
    /\ verify_incremental_state(leaves, accumulator)
    /\ try_from_parts(accumulator.subtrees, Len(leaves))
    /\ \A d \in Damaged(accumulator.subtrees) : ~try_from_parts(d.rows, d.size)
    /\ \A n \in DOMAIN accumulator.subtrees :
          ~verify_incremental_state(leaves, [accumulator EXCEPT !.subtrees[n].hash = leaf_hash(0)])

\* The log still has the leaves an archived head was taken of.
Extends(a) == Len(a.of) <= Len(leaves) /\ Prefix(leaves, Len(a.of)) = a.of

\* Whoever holds an archived head can be given a proof of every leaf it covers, and
\* of its being a prefix of every later head, while the log has only grown.
HonestProofsVerify ==
    \A a \in {a \in archive : Extends(a)} :
        /\ \A i \in 0..(a.head.size - 1) :
              /\ CanProveInclusion(leaves, i, a.head.size)
              /\ InclusionProof_verify(inclusion_proof_at(leaves, i, a.head.size),
                                       a.of[i + 1], a.head)
        /\ \A b \in {b \in archive : Extends(b) /\ b.head.size >= a.head.size}
                    \cup {[head |-> head, of |-> leaves]} :
              /\ CanProveConsistency(leaves, a.head.size, b.head.size)
              /\ ConsistencyProof_verify(
                    consistency_proof_between(leaves, a.head.size, b.head.size), a.head, b.head)

\* Paths with a sibling dropped, repeated, added or exchanged.
Deformed(path) ==
    {path}
    \cup {RemoveAt(path, n) : n \in DOMAIN path}
    \cup {InsertAt(path, n, path[n]) : n \in DOMAIN path}
    \cup {Append(path, leaf_hash(p)) : p \in Payloads}
    \cup {[path EXCEPT ![n] = path[n - 1], ![n - 1] = path[n]] : n \in 2..Len(path)}

\* A log whose past may have been changed cannot mislead whoever holds an archived
\* head that covers an entry.  An inclusion proof it gives out, however the index,
\* the size and the path it carries were changed since it was built, verifies only
\* for a leaf that was there when the head was taken; and no path it has or deforms
\* shows that it extends the head unless it does.
RewritesShow ==
    bound.rewrites > 0 =>
        \A a \in {a \in archive : a.head.size > 0} :
            /\ \A i \in 0..(Len(leaves) - 1), index \in 0..bound.leaves, payload \in Payloads :
                  \A path \in Deformed(inclusion_proof_at(leaves, i, Len(leaves)).path),
                     size \in 1..(bound.leaves + 1) :
                      InclusionProof_verify([leaf_index |-> index, tree_size |-> size,
                                             path |-> path], payload, a.head)
                      => size = a.head.size /\ a.of[index + 1] = payload
            /\ \A m \in 0..Len(leaves) :
                  \A path \in Deformed(consistency_proof_between(leaves, m, Len(leaves)).path) :
                      ConsistencyProof_verify([old_size |-> a.head.size, new_size |-> Len(leaves),
                                               path |-> path], a.head, head)
                      => Extends(a)
=============================================================================
