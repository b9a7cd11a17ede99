---------------------------- MODULE MCMerkleLog -----------------------------
(***************************************************************************)
(* Two payloads, so that leaves repeat and differ: a log that grows past a *)
(* power of two, one whose heads are archived, one that is rewritten.      *)
(***************************************************************************)
EXTENDS MerkleLog

MCPayloads == {1, 2}

Bound(n, heads, changes) == [leaves |-> n, heads |-> heads, rewrites |-> changes]

MCBounds == {Bound(9, 0, 0), Bound(7, 2, 0), Bound(5, 1, 1)}
=============================================================================
