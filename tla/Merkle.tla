------------------------------- MODULE Merkle -------------------------------
(***************************************************************************)
(* The append-only Merkle log of src/merkle.rs: the tree hash, the stack   *)
(* of perfect subtrees that keeps the current root, and inclusion and      *)
(* consistency proofs.  A hash is the term it was computed from, so two    *)
(* hashes are equal exactly when their inputs are.  Leaf indices and bit   *)
(* positions count from 0, as in the code; sequences count from 1.         *)
(***************************************************************************)
EXTENDS Integers, FiniteSetsExt, SequencesExt

empty_root == <<"empty">>
leaf_hash(payload) == <<"leaf", payload>>
node_hash(left, right) == <<"node", left, right>>

\* The largest power of two strictly less than n, for n > 1.
split_point_Half(n) == n \div 2
split_point(n) == CHOOSE k \in {2^i : i \in 0..n} : k < n /\ n <= 2 * k

Prefix(leaves, n) == SubSeq(leaves, 1, n)
Suffix(leaves, n) == SubSeq(leaves, n + 1, Len(leaves))

RECURSIVE mth(_)
mth(leaves) ==
    CASE leaves = <<>> -> empty_root
      [] Len(leaves) = 1 -> leaf_hash(leaves[1])
      [] OTHER -> LET k == split_point(Len(leaves))
                  IN node_hash(mth(Prefix(leaves, k)), mth(Suffix(leaves, k)))

-----------------------------------------------------------------------------
(***************************************************************************)
(* MerkleAccumulator: one subtree for each set bit of the size.            *)
(***************************************************************************)
MerkleAccumulator_new == [subtrees |-> <<>>, size |-> 0]

cover_of(size) ==
    LET bits == {b \in 0..size : (size \div 2^b) % 2 = 1}
    IN SetToSortSeq(bits, LAMBDA a, b : a > b)

Heights(subtrees) == [n \in DOMAIN subtrees |-> subtrees[n].height]

\* A restored stack has the shape its size requires.
try_from_parts(subtrees, size) == Heights(subtrees) = cover_of(size)

\* A new node takes in every subtree of its own height, the left sibling first.
RECURSIVE Merged(_, _)
Merged(subtrees, node) ==
    IF subtrees # <<>> /\ Last(subtrees).height = node.height
    THEN Merged(Front(subtrees), [height |-> node.height + 1,
                                  hash   |-> node_hash(Last(subtrees).hash, node.hash)])
    ELSE Append(subtrees, node)

push_MergesOnce(acc, payload) ==
    LET leaf == [height |-> 0, hash |-> leaf_hash(payload)]
        s    == acc.subtrees
    IN [subtrees |-> IF s # <<>> /\ Last(s).height = 0
                     THEN Append(Front(s), [height |-> 1,
                                            hash |-> node_hash(Last(s).hash, leaf.hash)])
                     ELSE Append(s, leaf),
        size     |-> acc.size + 1]

push(acc, payload) ==
    [subtrees |-> Merged(acc.subtrees, [height |-> 0, hash |-> leaf_hash(payload)]),
     size     |-> acc.size + 1]

root(acc) ==
    IF acc.subtrees = <<>> THEN empty_root
    ELSE FoldRight(LAMBDA left, right : node_hash(left.hash, right),
                   Front(acc.subtrees), Last(acc.subtrees).hash)

from_leaves(leaves) == FoldLeft(push, MerkleAccumulator_new, leaves)

verify_incremental_state(leaves, acc) == root(acc) = mth(leaves)

-----------------------------------------------------------------------------
(***************************************************************************)
(* Proofs, built from the leaves.                                          *)
(***************************************************************************)
\* The siblings of leaf m, from the leaf upward.
RECURSIVE build_inclusion_path(_, _)
build_inclusion_path(m, leaves) ==
    LET k == split_point(Len(leaves)) IN
    IF Len(leaves) <= 1 THEN <<>>
    ELSE IF m < k
    THEN Append(build_inclusion_path(m, Prefix(leaves, k)), mth(Suffix(leaves, k)))
    ELSE Append(build_inclusion_path(m - k, Suffix(leaves, k)), mth(Prefix(leaves, k)))

\* The nodes that relate the tree over the first m leaves to the whole one; known
\* while the verifier holds the root of the part at hand.
RECURSIVE build_consistency_path(_, _, _)
build_consistency_path(m, leaves, known) ==
    LET k == split_point(Len(leaves)) IN
    IF m = Len(leaves) THEN IF known THEN <<>> ELSE <<mth(leaves)>>
    ELSE IF m <= k
    THEN Append(build_consistency_path(m, Prefix(leaves, k), known), mth(Suffix(leaves, k)))
    ELSE Append(build_consistency_path(m - k, Suffix(leaves, k), FALSE), mth(Prefix(leaves, k)))

CanProveInclusion(leaves, index, size) == size <= Len(leaves) /\ index < size

inclusion_proof_at(leaves, index, size) ==
    [leaf_index |-> index, tree_size |-> size,
     path |-> build_inclusion_path(index, Prefix(leaves, size))]

CanProveConsistency(leaves, old_size, new_size) == new_size <= Len(leaves) /\ old_size <= new_size

consistency_proof_between(leaves, old_size, new_size) ==
    [old_size |-> old_size, new_size |-> new_size,
     path |-> IF old_size > 0 /\ old_size < new_size
              THEN build_consistency_path(old_size, Prefix(leaves, new_size), TRUE) ELSE <<>>]

-----------------------------------------------------------------------------
(***************************************************************************)
(* Verification: a walk up the tree, steered by the two positions.  Both   *)
(* verifiers take the same steps; the older root matters to one of them.   *)
(***************************************************************************)
Up(walk) == [walk EXCEPT !.fname = @ \div 2, !.sname = @ \div 2]

RECURSIVE UpWhile(_, _)
UpWhile(bit, walk) ==
    IF walk.fname % 2 = bit /\ walk.fname # 0 THEN UpWhile(bit, Up(walk)) ELSE walk

Climb(walk, p) ==
    IF walk.sname = 0 THEN [walk EXCEPT !.ok = FALSE]
    ELSE IF walk.fname % 2 = 1 \/ walk.fname = walk.sname
    THEN Up(UpWhile(0, [walk EXCEPT !.old = node_hash(p, @), !.new = node_hash(p, @)]))
    ELSE Up([walk EXCEPT !.new = node_hash(@, p)])

Arrived(walk) == walk.ok /\ walk.sname = 0

InclusionProof_verify(proof, payload, head) ==
    LET end == FoldLeft(Climb, [fname |-> proof.leaf_index, sname |-> proof.tree_size - 1, ok |-> TRUE,
                                old |-> leaf_hash(payload), new |-> leaf_hash(payload)],
                        proof.path)
    IN /\ proof.tree_size = head.size /\ proof.leaf_index < proof.tree_size
       /\ Arrived(end) /\ end.new = head.root

IsPowerOfTwo(n) == \E i \in 0..n : n = 2^i

is_vacuous(proof) == proof.old_size = 0

\* A tree of 2^i leaves is a subtree of the later one: its root is the seed, and
\* otherwise the first node of the path is.
ConsistencyWalk(proof, old) ==
    LET whole == IsPowerOfTwo(proof.old_size)
        seed  == IF whole THEN old.root ELSE proof.path[1]
        start == UpWhile(1, [fname |-> proof.old_size - 1, sname |-> proof.new_size - 1,
                             old |-> seed, new |-> seed, ok |-> TRUE])
    IN FoldLeft(Climb, start, IF whole THEN proof.path ELSE Tail(proof.path))

ConsistencyProof_verify_NewRootOnly(proof, old, new) ==
    IF proof.old_size \in {0, proof.new_size} THEN proof.path = <<>>
    ELSE (IsPowerOfTwo(proof.old_size) \/ proof.path # <<>>)
         /\ LET end == ConsistencyWalk(proof, old) IN Arrived(end) /\ end.new = new.root

ConsistencyProof_verify(proof, old, new) ==
    /\ proof.old_size = old.size /\ proof.new_size = new.size
    /\ proof.old_size <= proof.new_size
    /\ IF proof.old_size = proof.new_size THEN proof.path = <<>> /\ old.root = new.root
       ELSE IF is_vacuous(proof) THEN proof.path = <<>> /\ old.root = empty_root
       ELSE /\ IsPowerOfTwo(proof.old_size) \/ proof.path # <<>>
            /\ LET end == ConsistencyWalk(proof, old)
               IN Arrived(end) /\ end.old = old.root /\ end.new = new.root
=============================================================================
