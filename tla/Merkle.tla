-------------------------------- MODULE Merkle --------------------------------
(***************************************************************************)
(* The RFC 6962 tree the three verifiers rebuild from the events a record  *)
(* carries (verify.py:210-238; index.js:255-282 and lib.rs:295-325 are the *)
(* same algorithm).  SHA-256 is symbolic: a digest is the term it was      *)
(* computed from, so two digests are equal exactly when the hashed values  *)
(* are.  The constructors are tagged as the code tags its preimages (0x00  *)
(* for a leaf, 0x01 for a node, nothing for the empty tree).               *)
(***************************************************************************)
EXTENDS Integers, Sequences

\* One carried event: 0x00, the domain tag, the length and the event's bytes.
LeafHash(event) == <<"leaf", event>>

\* Mutants of NodeHash: the order of the two digests lost, or swapped.
NodeHashUnordered(left, right) == <<"node", {left, right}>>
NodeHashSwapped(left, right) == <<"node", right, left>>

\* An inner node: 0x01, the left digest, the right digest.
NodeHash(left, right) == <<"node", left, right>>

\* SHA-256 of nothing, the head of a tree without leaves.
EmptyRoot == <<"empty">>

\* Mutants of SplitPoint: the bound of the loop inclusive, or a cut in the middle.
SplitPointInclusive(n) ==
  LET double[k \in 1..(2 * n)] == IF 2 * k <= n THEN double[2 * k] ELSE k
  IN  double[1]
SplitPointMiddle(n) == (n + 1) \div 2

\* Where a tree of n >= 2 leaves is cut: k doubles while 2k is below n.
SplitPoint(n) ==
  LET double[k \in 1..n] == IF 2 * k < n THEN double[2 * k] ELSE k
  IN  double[1]

\* The tree head over the leaf digests; mth[<<lo, hi>>] is the head of the slice
\* lo..hi, which is never empty.
TreeHead(leaves) ==
  LET n == Len(leaves)
      mth[slice \in (1..n) \X (1..n)] ==
        LET lo == slice[1]
            hi == slice[2]
            k  == SplitPoint(hi - lo + 1)
        IN  IF lo >= hi THEN leaves[lo]
            ELSE NodeHash(mth[<<lo, lo + k - 1>>], mth[<<lo + k, hi>>])
  IN  IF n = 0 THEN EmptyRoot ELSE mth[<<1, n>>]

\* What verify_run computes before it compares with the signed root.
MerkleRoot(events) ==
  TreeHead([i \in DOMAIN events |-> LeafHash(events[i])])
===============================================================================
