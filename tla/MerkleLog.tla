------------------------------ MODULE MerkleLog -------------------------------
(***************************************************************************)
(* A log that only grows, and the head the verifiers compute of it after   *)
(* every append.  The module exists to check the tree algorithm against a  *)
(* reference that shares nothing with it: the bottom-up construction that  *)
(* pairs neighbours level by level and promotes an odd last node.          *)
(***************************************************************************)
EXTENDS Merkle

CONSTANTS Event,   \* the distinct events a log can hold
          MaxLen   \* bound: the longest log explored

ASSUME LogAssumption == MaxLen \in Nat

VARIABLE log

Logs == UNION {[1..n -> Event] : n \in 0..MaxLen}

Init == log = <<>>

Append1(e) == /\ Len(log) < MaxLen
              /\ log' = Append(log, e)

Next == \E e \in Event : Append1(e)

Spec == Init /\ [][Next]_log
-------------------------------------------------------------------------------
(* The reference construction.                                             *)

\* One level up: neighbours are hashed together, an odd last node is carried.
Pair(level) ==
  [i \in 1..((Len(level) + 1) \div 2) |->
     IF 2 * i <= Len(level) THEN NodeHash(level[2*i - 1], level[2*i])
                            ELSE level[2*i - 1]]

\* The single node left after enough levels (Len(leaves) levels always are).
LevelRoot(events) ==
  LET leaves == [i \in DOMAIN events |-> LeafHash(events[i])]
      level[h \in 0..Len(events)] ==
        IF h = 0 THEN leaves ELSE Pair(level[h - 1])
  IN  IF events = <<>> THEN EmptyRoot ELSE level[Len(events)][1]
-------------------------------------------------------------------------------
(* Properties.                                                             *)

\* The recursive split of _merkle_root builds the tree the standard defines:
\* the same head as pairing level by level, at every length.
RootIsRFC6962 == MerkleRoot(log) = LevelRoot(log)

\* The head binds the whole log: no other log of any length within the bound
\* (shorter, longer, reordered, an event replaced) has the same head.
RootBindsLog == \A other \in Logs : MerkleRoot(other) = MerkleRoot(log) => other = log

\* Every set that holds 1 and, up to k, the double of each of its members holds k.
IsPowerOfTwo(k) ==
  /\ k >= 1
  /\ \A S \in SUBSET (1..k) :
       1 \in S /\ (\A x \in S : 2 * x <= k => 2 * x \in S) => k \in S

\* The loop of _merkle_root stops at the largest power of two below n, so
\* neither half of a cut is ever empty.
SplitIsLargestPowerOfTwo ==
  Len(log) >= 2 =>
    LET n == Len(log)
        k == SplitPoint(n)
    IN  k < n /\ n <= 2 * k /\ IsPowerOfTwo(k)

\* Appending leaves the complete left half of the tree as it was unless the
\* log had just filled a power of two, in which case the old head becomes the
\* left half: an old head is never lost, which consistency proofs build on.
AppendKeepsLeftHalf ==
  [][ LET old == MerkleRoot(log)
          new == MerkleRoot(log')
          n   == Len(log)
      IN  n >= 2 => IF SplitPoint(n + 1) = SplitPoint(n)
                    THEN new[2] = old[2]
                    ELSE new[2] = old /\ Len(new) = 3 ]_log
===============================================================================
